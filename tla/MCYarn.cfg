SPECIFICATION Spec
CONSTANTS
  Thread = {t1, t2}
  NoThread = none
  EpochMax = 4
  x = x
  y = y
  Addr = {x, y}
  NoAddr = null
  Initial = initial
  Garbage = garbage
  Delays = FALSE
  DataDependent = FALSE
  Program <- Mixed
SYMMETRY Symmetry
INVARIANTS
  TypeOK
  CommitsRight
  SequentialResult
  ListsMatchFlags
PROPERTIES
  ImplementsLoop
