SPECIFICATION FairSpec
CONSTANTS
  Size = 3
  MaxExecs = 2
  MaxSpurious = 2
INVARIANTS
  TypeOK
  TaskAlive
  MeetingsApart
PROPERTIES
  ImplementsForkJoin
  TaskEnds
  ShutdownEnds
CHECK_DEADLOCK FALSE
