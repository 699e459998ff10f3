SPECIFICATION Spec
CONSTANTS
  s1 = s1
  s2 = s2
  l1 = l1
  l2 = l2
  c1 = c1
  None = None
  Scans <- OneScan
  Launches <- TwoLaunches
  Commands = {}
  Replays <- OneScan
  Cancellable <- OneScan
  MaxIncarnations = 1
  MaxFaults = 0
  ConcurrencyCap = 2
  QueueCap = 1
  Configurable = {2}
SYMMETRY LaunchSymmetry
PROPERTIES SpawnOnlyActive
CHECK_DEADLOCK FALSE
