CONSTANTS
  Prog <- MCProg
  Tags = {1, 2, 3, 4}
  Ports = {1, 2}
  SupportedPorts <- MCSupportedPorts
  RSSize = 3
  Width = 2
  Latency <- MCLatency
  MaxFlushes = 2
SPECIFICATION Spec
INVARIANTS
  TypeOK
  ReadyCountCovers
  PortsBalanced
PROPERTY ProgramCompletes
