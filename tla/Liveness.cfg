SPECIFICATION LiveSpec
CONSTANTS
  s1 = s1
  s2 = s2
  s3 = s3
  v1 = v1
  None = None
  EmptyEntry = EmptyEntry
  ConfEntry = ConfEntry
  Server = {s1, s2}
  Joiner = {}
  Value = {v1}
  PreVote = FALSE
  CheckQuorum = FALSE
  Repeats = FALSE
  Campaigner = {s1, s2}
  Heartbeater = {}
  MaxCampaigns = 2
  MaxLogLen = 3
  MaxHanded = 2
  MaxRestarts = 0
PROPERTIES
  MessagesGoOut
  CampaignsEnd
CHECK_DEADLOCK FALSE
