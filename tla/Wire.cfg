SPECIFICATION Spec
CONSTANTS
  WordBits = 29
  HalfBits = 14
  nil = nil
  Messages <- MCMessages
  Newer <- MCNewer
  Unknown <- MCUnknown
  Budgets <- MCBudgets
INVARIANTS
  TypeOK
  ArrivesWhole
  ReadsInOrder
  ReadsOn
  SizesAgree
  ChangesArrive
  PackedAgrees
  FitsBudget
