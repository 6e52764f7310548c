CONSTANTS
  Prog <- MCProg
  Tags = {1, 2, 3, 4}
  Ports = {1, 2}
  SupportedPorts <- MCSupportedPorts
  RSSize = 4
  Width = 2
  Latency <- MCLatency
  MaxFlushes = 1
SPECIFICATION Spec
INVARIANT ReadyCountExact
