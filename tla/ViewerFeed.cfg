SPECIFICATION FeedSpec
CONSTANTS
  n1 = n1
  n2 = n2
  c1 = c1
  c2 = c2
  c3 = c3
  r1 = r1
  r2 = r2
  NoConn = NoConn
  NoNode = NoNode
  Nodes <- OneNode
  Conns = {c1, c2}
  Requests = {r1}
  NodeOf <- AllToOne
  KindOf <- Restart
  Capable <- OneNode
  HelloInOrder = TRUE
  StaleAfter = 0
  OfflineAfter = 1
  MaxAge = 2
  QueueCap = 1
  UpCap = 1
  DownCap = 1
  MaxSettings = 0
  MaxCollected = 0
  MaxMsgs = 1
  MaxIncarnation = 0
PROPERTIES
  SilenceShowsOffline
  ViewersSeeWhatLasts
  StableAgentOwnsNode
  AcknowledgedRestartHappens
CHECK_DEADLOCK FALSE
