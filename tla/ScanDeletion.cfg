SPECIFICATION FairSpec
CONSTANTS
  s1 = s1
  dast = dast
  dyn = dyn
  q1 = q1
  q2 = q2
  Scans <- OneScan
  Children <- TwoChildren
  Dynamic <- OneDynamic
  Parent <- OfOneScan
  Requests <- TwoRequests
  Targets <- ScanThenAny
  MaxFaults = 1
  MaxCrashes = 1
INVARIANTS TypeOK RemovedIsDeleted NoOrphanedArtifacts
PROPERTIES ActiveIsKept DeletedIsCleaned
CHECK_DEADLOCK FALSE
