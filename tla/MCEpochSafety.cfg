SPECIFICATION Spec
CONSTANTS
  Thread = {t1, t2}
  NoThread = none
  EpochMax = 4
  LastEpoch = 6
  MaxRollbacks = 2
  LateBreaks = FALSE
  Errors = TRUE
  Spurious = TRUE
INVARIANTS
  TypeOK
  SlotExclusive
  CursorOrder
  AssertsHold
  StatusByRange
  FlagImpliesUndo
  StopNearFirst
  EndsAtBreak
PROPERTIES
  CursorsAdvance
CHECK_DEADLOCK FALSE
