SPECIFICATION FairSpec
CONSTANTS
  None = None
  g1 = g1
  g2 = g2
  g3 = g3
  c1 = c1
  c2 = c2
  m1 = m1
  m2 = m2
  alice = alice
  bob = bob
  u = u
  Gpus = {g1, g2, g3}
  CardOf <- Cards
  ModelOf <- Models
  MaxParentAge = 1
  Lookback = 4
  DayLength = 2
  HourLength = 1
  FreshFor = 1
  Period = 2
  Uses <- Placements
  Histories <- HandOvers
  Stale = 1
  QueueSize = 1
  MaxSnapshots = 4
  MaxUses = 4
  FirstAt = 2
  MaxClock = 6
INVARIANTS
  TablesTellObserved
  JobFoundByItsKey
  OneOwnerPerInstant
  ActivityIsExact
  PagePartsAgree
PROPERTIES
  StaleSessionsEnd
CHECK_DEADLOCK FALSE
