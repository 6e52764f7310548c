CONSTANTS
  CacheLineWidth = 4
  LoadBandwidth = 4
  StoreBandwidth = 4
  RequestLimit = 2
  LoadRequestLimit = 2
  StoreRequestLimit = 1
  Exclusive = FALSE
  Ids = {1, 2, 3}
  Addrs = {0, 1, 2, 3, 4, 5, 6, 7}
  Translations = {"OK", "ABORT", "PENDING"}
  Accesses <- MCAccesses
SPECIFICATION Spec
INVARIANTS
  TypeOK
  PendingAccounting
  LoadGetsItsBytes
PROPERTIES
  EveryRequestAnswered
