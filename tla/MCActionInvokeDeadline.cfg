SPECIFICATION FairSpec
CONSTANTS
  a1 = a1
  a2 = a2
  short1 = short1
  short2 = short2
  long = long
  Name <- MCName
  Value <- TwoValues
  Long <- MCLong
  MaxDepth = 2
PROPERTY DeadlineEnforced
