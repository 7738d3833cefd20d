SPECIFICATION Spec
CONSTANTS
  s1 = s1
  s2 = s2
  s3 = s3
  v1 = v1
  None = None
  EmptyEntry = EmptyEntry
  ConfEntry = ConfEntry
  Server = {s1, s2}
  Joiner = {}
  Value = {v1}
  PreVote = TRUE
  CheckQuorum = TRUE
  Repeats = FALSE
  Campaigner = {s1, s2}
  Heartbeater = {s1}
  MaxCampaigns = 2
  MaxLogLen = 4
  MaxHanded = 2
  MaxRestarts = 0
INVARIANTS
  TypeOK
  PeersStayReachable
  NoPanic
PROPERTIES
  RefinesElection
CHECK_DEADLOCK FALSE
