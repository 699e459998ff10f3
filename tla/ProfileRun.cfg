SPECIFICATION Spec
CONSTANTS
  Jobs <- MCJobs
  Severities <- MCSeverities
  MaxFaults = 1
INVARIANTS TypeOK FailClosed NothingLeftOver EndsDecided
CHECK_DEADLOCK FALSE
