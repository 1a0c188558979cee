SPECIFICATION FairSpec
CONSTANTS
  Thread = {t1, t2}
  k1 = k1
  k2 = k2
  k3 = k3
  Key = {k1, k2, k3}
  Null = null
  Hash <- Colliding
  Capacity = 2
  MaxLoad = 80
  HelperThreshold = 0
  RoundsUp = FALSE
INVARIANTS
  TypeOK
  TableClosed
  Findable
PROPERTIES
  ImplementsDictionary
  ProbeReturns
