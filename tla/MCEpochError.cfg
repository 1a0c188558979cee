SPECIFICATION FairSpec
CONSTANTS
  Thread = {t1, t2}
  NoThread = none
  EpochMax = 2
  LastEpoch = 1
  MaxRollbacks = 0
  LateBreaks = FALSE
  Errors = TRUE
  Spurious = FALSE
PROPERTY ErrorStopsAll
CHECK_DEADLOCK FALSE
