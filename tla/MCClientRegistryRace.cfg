SPECIFICATION Spec
CONSTANTS
  c1 = c1
  c2 = c2
  c3 = c3
  NoClient = NoClient
  NoCpu = NoCpu
  Client <- ThreeClients
  Cpu <- TwoCpus
CHECK_DEADLOCK FALSE
INVARIANT DedicatedCpu
