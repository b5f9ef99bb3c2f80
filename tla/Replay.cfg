CONSTANTS
  s1 = s1 s2 = s2 s3 = s3 c1 = c1 c2 = c2 k1 = k1
  Sessions = {s1, s2}
  Chats = {c1}
  Customers = {k1}
  NumProducts = 1
  Mrp <- OneMrp
  CostPrice <- OneCost
  OpeningBatches <- ReplayBatches
  Calls <- ReplayCalls
  MaxDrafts = 2
  MaxBatches = 1
  MaxQty = 2
  MaxDay = 0
SPECIFICATION Spec
PROPERTIES ReplaysFinalizedDraft
