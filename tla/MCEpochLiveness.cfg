SPECIFICATION FairSpec
CONSTANTS
  Thread = {t1, t2, t3}
  NoThread = none
  EpochMax = 2
  LastEpoch = 1
  MaxRollbacks = 1
  LateBreaks = FALSE
  Errors = FALSE
  Spurious = FALSE
PROPERTIES
  Termination
  ImplementsTimeline
