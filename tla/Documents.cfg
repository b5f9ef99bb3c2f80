CONSTANTS
  Calls = {c1, c2}
  Tills = {t1, t2}
  Chats = {"a", "b"}
  Requests <- SomeRequests
  PoolSize = 2
  MaxBills = 2
  MaxFaults = 1
SPECIFICATION FairSpec
INVARIANTS TypeOK OneRenderAtATime LatestInvoice
PROPERTIES CallEnds
CHECK_DEADLOCK FALSE
