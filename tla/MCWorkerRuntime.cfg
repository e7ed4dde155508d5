SPECIFICATION FairSpec
CONSTANTS
  Value <- MCValue
  Long <- MCLong
  MaxCalls = 2
CHECK_DEADLOCK FALSE
INVARIANTS OneFinalMessage CppReportTrue
PROPERTY FunctionReported
