SPECIFICATION Spec
CONSTANTS
  TableBits = 2
  WordBits = 8
  Ring = 4
  Start = 0
  Span = 9
INVARIANTS
  FlagsExact
  LoadSelects
  StoreSelects
CHECK_DEADLOCK FALSE
