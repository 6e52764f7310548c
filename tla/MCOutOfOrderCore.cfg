CONSTANTS
  ArchRegs = {1, 2}
  Tags = {1, 2, 3, 4, 5, 6}
  Ports = {1, 2}
  PortRS <- MCPortRS
  RSCapacity <- MCRSCapacity
  DispatchRate = 2
  SupportedPorts <- MCSupportedPorts
  FwdLatency <- MCFwdLatency
  BypassLatency = TRUE
  ROBSize = 5
  Prog <- MCProg
  Width = 2
  CommitWidth = 2
  Latency <- MCLatency
  MaxFlushes = 2
  MaxTicks = 40
SPECIFICATION Spec
INVARIANTS
  TypeOK
  OperandsCorrect
  TagsPartitioned
  NoReservationLeak
PROPERTY Refinement
