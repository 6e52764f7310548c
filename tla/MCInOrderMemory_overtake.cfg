CONSTANTS
  CacheLineWidth = 4
  LoadBandwidth = 4
  StoreBandwidth = 2
  RequestLimit = 2
  LoadRequestLimit = 2
  StoreRequestLimit = 2
  Exclusive = FALSE
  Ids = {1, 2, 3}
  Addrs = {0, 1, 2, 3, 4, 5, 6, 7}
  Translations = {"OK"}
  Prog <- MCProg
  LSQLatency = 1
  LoadQueueSize = 2
  StoreQueueSize = 1
  CompletionWidth = 1
  EUInOrder = TRUE
  InOrderBackend = TRUE
  MaxTick = 10
SPECIFICATION Spec
CHECK_DEADLOCK FALSE
INVARIANT
  MemoryOrder
