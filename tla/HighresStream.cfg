SPECIFICATION FairSpec
CONSTANTS
  Capacity = 7
  Blank = Blank
  Gpus = {g1, g2}
  MaxConnections = 2
  None = None
  QueueSize = 1
  MaxWire = 1
  Padding = 2
  MaxJob = 3
  MaxPoints = 5
  FirstAt = 2
  MaxSnapshots <- Snapshots
  MaxOdd <- Odd
  MaxBreaks = 1
INVARIANTS
  WindowIsExact
  MemoryCurveIsWhole
  ChartKeepsExtremes
  SidecarInOrder
  LossIsItsOwn
PROPERTIES
  CacheKeepsRecent
  SidecarCatchesUp
CHECK_DEADLOCK FALSE
