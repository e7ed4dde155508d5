SPECIFICATION SystemFairSpec
CONSTANTS
  c1 = c1
  c2 = c2
  a1 = a1
  short = short
  long = long
  NoClient = NoClient
  NoCpu = NoCpu
  Client <- MCClient
  Cpu <- MCCpu
  One = c1
  Name <- MCName
  Value <- MCValue
  Long <- MCLong
  MaxDepth = 2
CHECK_DEADLOCK FALSE
INVARIANTS NoPrematureTeardown NoLostDeletion WorkersAreServed
PROPERTIES LeaversCleanedUp RegistrationAnswered
