SPECIFICATION FairSpec
CONSTANTS
  s1 = s1
  s2 = s2
  l1 = l1
  l2 = l2
  c1 = c1
  None = None
  Scans <- OneScan
  Launches <- OneLaunch
  Commands <- OneCommand
  Replays = {}
  Cancellable <- OneScan
  MaxIncarnations = 2
  MaxFaults = 0
  ConcurrencyCap = 2
  QueueCap = 1
  Configurable = {1}
INVARIANTS NoScanOfEarlierRuntime
PROPERTIES CleanShutdown LifecycleFairSpec CancelStopsChild SpawnOnlyActive
CHECK_DEADLOCK FALSE
