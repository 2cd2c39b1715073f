SPECIFICATION Spec
CONSTANTS
  a1 = a1
  a2 = a2
  Agents = {a1}
  Skew <- InStep
  TableCount = 1
  Width <- Widths
  Retention <- Retentions
  FlushEvery = 0
  PruneEvery = 2
  RetryBase = 1
  RetryMax = 2
  QueueSize = 1
  MaxBehind = 0
  MaxClock = 9
  MaxSamples = 2
  MaxFaults = 0
  MaxStops = 0
  JobLookback = 4
  MaxJobLookback = 5
  LongSpan = 1
  Padding = 0
  CurveCaps = {1, 2}
  LeastLimit = 1
  PointSlack = 1
  TargetPoints = 2
  RecentSpan = 3
  AnomalySpan = 4
  HeatmapWidths <- HeatmapOf
PROPERTIES
  RollupsKeepTheirSamples
CHECK_DEADLOCK FALSE
