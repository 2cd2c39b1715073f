SPECIFICATION Spec
CONSTANTS
  a1 = a1
  a2 = a2
  Agents = {a1, a2}
  Skew <- OneBehind
  TableCount = 2
  Width <- Widths
  Retention <- Retentions
  FlushEvery = 0
  PruneEvery = 2
  RetryBase = 1
  RetryMax = 2
  QueueSize = 1
  MaxBehind = 0
  MaxClock = 6
  MaxSamples = 2
  MaxFaults = 1
  MaxStops = 1
  JobLookback = 4
  MaxJobLookback = 6
  LongSpan = 1
  Padding = 0
  CurveCaps = {1, 2}
  LeastLimit = 1
  PointSlack = 1
  TargetPoints = 2
  RecentSpan = 3
  AnomalySpan = 4
  HeatmapWidths <- HeatmapOf
INVARIANTS
  TypeOK
  NothingForgotten
  HistoryIsReadable
PROPERTIES
  PrunedWhenRolledUp
  FlushedBucketsAreFinal
CHECK_DEADLOCK FALSE
