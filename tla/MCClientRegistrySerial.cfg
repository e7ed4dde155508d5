SPECIFICATION SerialSpec
CONSTANTS
  c1 = c1
  c2 = c2
  c3 = c3
  NoClient = NoClient
  NoCpu = NoCpu
  Client <- ThreeClients
  Cpu <- ThreeCpus
CHECK_DEADLOCK FALSE
INVARIANTS TypeOK DedicatedCpu
PROPERTY PoolSpec
