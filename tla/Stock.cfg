CONSTANTS
  s1 = s1 s2 = s2 s3 = s3 c1 = c1 c2 = c2 k1 = k1
  Sessions = {s1, s2}
  Chats = {c1, c2}
  Customers = {k1}
  NumProducts = 1
  Mrp <- OneMrp
  CostPrice <- OneCost
  OpeningBatches <- StockBatchRows
  Calls <- StockCalls
  MaxDrafts = 2
  MaxBatches = 3
  MaxQty = 2
  MaxDay = 1
SPECIFICATION Spec
SYMMETRY SessionSymmetry
INVARIANTS StockIsBatchSum StockConserved LedgerExplainsStock LockedReadsCurrent InvoicesGapFree
PROPERTIES FefoRespected
