SPECIFICATION Spec
CONSTANTS
  Loops <- SoundLoops
  Header = "H"
  Latch = "L"
  Exit = "X"
  None = None
  MaxAliases = 3
  Updates = {"H", "L", "both", "reset", "last"}
  Scattered = FALSE
  SameEntry = FALSE
  Accesses <- Both
INVARIANTS
  LoadsDominate
  ValuesStored
  HandoverRight
  RecordsRight
  
