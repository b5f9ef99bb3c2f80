CONSTANTS
  s1 = s1 s2 = s2 s3 = s3 c1 = c1 c2 = c2 k1 = k1
  Sessions = {s1, s2, s3}
  Chats = {c1, c2}
  Customers = {k1}
  NumProducts = 2
  Mrp <- TwoMrps
  CostPrice <- TwoCosts
  OpeningBatches <- BillBatches
  Calls <- BillCalls
  MaxDrafts = 2
  MaxBatches = 3
  MaxQty = 1
  MaxDay = 0
SPECIFICATION Spec
SYMMETRY SessionSymmetry
INVARIANTS ComputesAlone NoWaitCycle LocksInOrder OneOpenDraft BillsMatchDrafts KhataChargedOnce
