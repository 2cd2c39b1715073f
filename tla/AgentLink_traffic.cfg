SPECIFICATION Spec
CONSTANTS
  n1 = n1
  n2 = n2
  c1 = c1
  c2 = c2
  c3 = c3
  r1 = r1
  r2 = r2
  NoConn = NoConn
  NoNode = NoNode
  Nodes <- OneNode
  Conns = {c1, c2}
  Requests = {}
  NodeOf <- AllToOne
  KindOf <- Restart
  Capable <- OneNode
  HelloInOrder = TRUE
  StaleAfter = 0
  OfflineAfter = 0
  MaxAge = 1
  QueueCap = 2
  UpCap = 2
  DownCap = 1
  MaxSettings = 1
  MaxCollected = 2
  MaxMsgs = 2
  MaxIncarnation = 1
SYMMETRY Symmetry
INVARIANTS
  TypeOK
  OwnerIsHeard
  SettingsReachAgent
PROPERTIES
  ReadingsMoveForward
CHECK_DEADLOCK FALSE
