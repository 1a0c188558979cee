SPECIFICATION FairSpec
CONSTANTS
  Size = 2
  MaxExecs = 1
  MaxSpurious = 0
PROPERTY ExecReturns
CHECK_DEADLOCK FALSE
