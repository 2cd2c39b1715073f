SPECIFICATION FairSpec
CONSTANTS
  None = None
  Torn = Torn
  Pids = {1, 2, 3}
  NodePids = {1, 2}
  Slots = {1, 2}
  LocalServices <- TwoServices
  MaxBegun <- Commands
  MaxFaults = 2
INVARIANTS
  OneOnFile
PROPERTIES
  WatchdogStartsNoSecond
  NodeComesBack
CHECK_DEADLOCK FALSE
