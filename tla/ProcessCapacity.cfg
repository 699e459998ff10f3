SPECIFICATION FairSpec
CONSTANTS
  r1 = r1
  r2 = r2
  r3 = r3
  r4 = r4
  Requests <- FourRequests
  ConcurrencyCap = 2
  QueueCap = 2
  Configurable = {0, 1, 3}
INVARIANTS TypeOK
PROPERTIES AdmissionWithinLimit FirstComeFirstServed CallsLeaveNoSlotIdle WaiterIsServed
