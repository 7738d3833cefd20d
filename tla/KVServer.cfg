SPECIFICATION Spec
CONSTANTS
  k1 = k1
  k2 = k2
  c1 = c1
  Key = {k1, k2}
  Client = {c1}
  MaxLog = 3
  MaxReady = 2
INVARIANTS
  KVOK
PROPERTIES
  RefinesStore
  StopEnds
  CommitsReachStore
