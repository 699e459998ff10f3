SPECIFICATION FairSpec
CONSTANTS
  c1 = c1
  c2 = c2
  w1 = w1
  w2 = w2
  w3 = w3
  w4 = w4
  w5 = w5
  None = None
  Clients <- OneClient
  Writers <- FourWriters
  Owning <- OneClient
  MaxManual = 0
  MaxCrashes = 2
  MaxStops = 2
  MaxFaults = 1
  MaxSlow = 1
INVARIANTS ServingIsReachable NothingLeftBehind
PROPERTIES ClientConnects
CHECK_DEADLOCK FALSE
