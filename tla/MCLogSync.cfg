SPECIFICATION FairSpec
CONSTANTS
  manager = manager
  main = main
  client = client
  worker = worker
  Thread <- MCThread
  Starter = main
  InClient <- MCInClient
  Synced <- MCSynced
  Message <- MCMessage
CHECK_DEADLOCK FALSE
INVARIANTS OneWriter RegisterKept
PROPERTY LogReturns
