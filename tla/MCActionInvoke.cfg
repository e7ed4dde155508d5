SPECIFICATION FairSpec
CONSTANTS
  a1 = a1
  a2 = a2
  short1 = short1
  short2 = short2
  long = long
  Name <- MCName
  Value <- MCValue
  Long <- MCLong
  MaxDepth = 3
INVARIANTS TypeOK CallChain NoOrphanWorkers ReplyIntact
PROPERTIES ExpiredNeverResumes SilentWorkerEnds CallAnswered CallStackSpec WorkersSpec
