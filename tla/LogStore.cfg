SPECIFICATION Spec
CONSTANTS
  MaxTerm = 2
  MaxLen = 2
  MaxSpare = 1
INVARIANTS
  StoreOK
  HeldUnchanged
  TermsAgree
PROPERTIES
  RefinesLog
