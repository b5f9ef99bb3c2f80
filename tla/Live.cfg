CONSTANTS
  s1 = s1 s2 = s2 s3 = s3 c1 = c1 c2 = c2 k1 = k1
  Sessions = {s1, s2}
  Chats = {c1}
  Customers = {k1}
  NumProducts = 2
  Mrp <- TwoMrps
  CostPrice <- TwoCosts
  OpeningBatches <- LiveBatches
  Calls <- LiveCalls
  MaxDrafts = 1
  MaxBatches = 3
  MaxQty = 2
  MaxDay = 0
SPECIFICATION FairSpec
INVARIANTS TypeOK
PROPERTIES EveryCallEnds
