SPECIFICATION Spec
CONSTANTS
  Id = {n1, n2, n3, n4}
  Self = n1
  NoId = NoId
  MaxIndex = 3
  MaxChanges = 2
INVARIANTS
  ConfigOK
  ChangesAsAsked
  KeepsAcknowledged
PROPERTIES
  QuorumsMeet
SYMMETRY Symmetry
CHECK_DEADLOCK FALSE
