SPECIFICATION Spec
CONSTANTS
  Node = {s1, s2}
  Senders = {s1}
  Worker = {w1}
  BufSize = 1
  Props = {p1, p2}
  Others = {m1}
  NoMsg = NoMsg
  MaxMsgs = 2
  MaxConfs = 2
INVARIANTS
  TransportOK
  OnePlace
PROPERTIES
  AppReturns
  PostsEnd
  Drains
  RefinesNet
