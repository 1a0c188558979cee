SPECIFICATION Spec
CONSTANTS
  Quarter = 4
  Horizon = 40
INVARIANTS
  TypeOK
  ComparesAsTaken
CHECK_DEADLOCK FALSE
