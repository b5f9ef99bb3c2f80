CONSTANTS
  s1 = s1 s2 = s2 
  Sessions = {s1, s2}
  Names <- ShopNames
  Score <- ShopScore
  MinScore = 30
  Amounts = {1, 2}
  Calls <- ShopCalls
  MaxCustomers = 2
  MaxEntries = 3
SPECIFICATION Spec
SYMMETRY SessionSymmetry
INVARIANTS TypeOK
PROPERTIES KeepsBook
CHECK_DEADLOCK FALSE
