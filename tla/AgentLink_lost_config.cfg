SPECIFICATION FairSpec
CONSTANTS
  n1 = n1
  n2 = n2
  c1 = c1
  c2 = c2
  c3 = c3
  r1 = r1
  r2 = r2
  NoConn = NoConn
  NoNode = NoNode
  Nodes <- OneNode
  Conns = {c1}
  Requests = {}
  NodeOf <- AllToOne
  KindOf <- Restart
  Capable <- OneNode
  HelloInOrder = TRUE
  StaleAfter = 0
  OfflineAfter = 0
  MaxAge = 0
  QueueCap = 2
  UpCap = 2
  DownCap = 1
  MaxSettings = 1
  MaxCollected = 0
  MaxMsgs = 3
  MaxIncarnation = 0
PROPERTIES
  StableAgentHasSettings
CHECK_DEADLOCK FALSE
