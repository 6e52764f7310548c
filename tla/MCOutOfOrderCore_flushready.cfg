CONSTANTS
  ArchRegs = {1, 2}
  Tags = {1, 2, 3, 4}
  Ports = {1, 2}
  PortRS <- MCPortRS
  RSCapacity <- MCRSCapacity
  DispatchRate = 2
  SupportedPorts <- MCSupportedPorts
  FwdLatency <- MCFwdLatency
  BypassLatency = TRUE
  ROBSize = 3
  Prog <- MCProg
  Width = 2
  CommitWidth = 2
  Latency <- MCLatency
  MaxFlushes = 1
  MaxTicks = 24
SPECIFICATION Spec
INVARIANT FlushedNeverReady
