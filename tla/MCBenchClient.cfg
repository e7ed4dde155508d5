SPECIFICATION FairSpec
CONSTANTS
  THREAD_NUM = 4
  ITERATIONS = 2
CHECK_DEADLOCK FALSE
INVARIANTS SerialRegistration NoEarlyStart MetricsComplete NoLostWakeUp
PROPERTY BenchmarkEnds
