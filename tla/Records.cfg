SPECIFICATION Spec
CONSTANTS
  c1 = c1
  c2 = c2
  c3 = c3
  Null = Null
  NoLabel = Null
  Calls = {c1, c2, c3}
  Requests <- SomeRequests
  SeedProducts <- SomeProducts
  Similarity <- SomeSimilarity
  Collation <- SomeCollation
  LowerCase <- SomeLowerCase
  UpperColor <- SomeUpperColor
SYMMETRY Symmetry
INVARIANTS
  TypeOK
  StoredReadable
  ProfileAsAsked
  FindIsClear
CHECK_DEADLOCK FALSE
