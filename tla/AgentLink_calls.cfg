SPECIFICATION Spec
CONSTANTS
  n1 = n1
  n2 = n2
  c1 = c1
  c2 = c2
  c3 = c3
  r1 = r1
  r2 = r2
  NoConn = NoConn
  NoNode = NoNode
  Nodes <- TwoNodes
  Conns = {c1, c2, c3}
  Requests = {r1, r2}
  NodeOf <- Split
  KindOf <- Both
  Capable <- OneNode
  HelloInOrder = FALSE
  StaleAfter = 0
  OfflineAfter = 0
  MaxAge = 0
  QueueCap = 2
  UpCap = 2
  DownCap = 1
  MaxSettings = 0
  MaxCollected = 0
  MaxMsgs = 0
  MaxIncarnation = 0
INVARIANTS
  Agreement
  NoOrphanCall
  CallFailsWithItsConnection
  AcceptedRestartIsReal
PROPERTIES
  BrokerOwnership
CHECK_DEADLOCK FALSE
