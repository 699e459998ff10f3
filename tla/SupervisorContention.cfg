SPECIFICATION Spec
CONSTANTS
  s1 = s1
  s2 = s2
  l1 = l1
  l2 = l2
  c1 = c1
  None = None
  Scans <- TwoScans
  Launches <- TwoLaunches
  Commands <- OneCommand
  Replays <- OneScan
  Cancellable <- OneScan
  MaxIncarnations = 1
  MaxFaults = 1
  ConcurrencyCap = 2
  QueueCap = 1
  Configurable = {1}
SYMMETRY LaunchSymmetry
INVARIANTS TypeOK ActiveScanHasKeeper LeaseHasHolder LiveChildIsOwned OneExecutor
CHECK_DEADLOCK FALSE
CONSTRAINT CommandsFirst
