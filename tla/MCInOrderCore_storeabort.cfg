CONSTANTS
  CacheLineWidth = 4
  LoadBandwidth = 4
  StoreBandwidth = 2
  RequestLimit = 2
  LoadRequestLimit = 2
  StoreRequestLimit = 2
  Exclusive = TRUE
  Ids = {1, 2, 3, 4, 5}
  Addrs = {0, 1, 2, 3, 4, 5, 6, 7}
  Translations = {"OK", "ABORT"}
  Prog <- MCFaultingLoad
  LSQLatency = 2
  LoadQueueSize = 3
  StoreQueueSize = 1
  CompletionWidth = 1
  EUInOrder = TRUE
  InOrderBackend = TRUE
  MaxTick = 10
  MaxThreads = 2
  HandlerResults = {"fatal", "resume", "idle"}
  FaultAddrs = {4, 5}
  MaxAddr = 23
  MaxSize = 9
SPECIFICATION CoreSpec
CHECK_DEADLOCK FALSE
INVARIANT
  MemoryOrder
