SPECIFICATION Spec
CONSTANTS
  s1 = s1
  s2 = s2
  s3 = s3
  v1 = v1
  None = None
  EmptyEntry = EmptyEntry
  ConfEntry = ConfEntry
  Server = {s1, s2, s3}
  Joiner = {}
  Value = {v1}
  PreVote = FALSE
  CheckQuorum = FALSE
  Repeats = FALSE
  Campaigner = {s1, s2}
  Heartbeater = {}
  MaxCampaigns = 2
  MaxLogLen = 4
  MaxHanded = 1
  MaxRestarts = 1
INVARIANTS
  OneVotePerTerm
SYMMETRY Symmetry
CHECK_DEADLOCK FALSE
