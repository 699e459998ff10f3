SPECIFICATION FairSpec
CONSTANTS
  c1 = c1
  c2 = c2
  w1 = w1
  w2 = w2
  w3 = w3
  w4 = w4
  w5 = w5
  None = None
  Clients <- TwoClients
  Writers <- FiveWriters
  Owning <- Nobody
  MaxManual = 1
  MaxCrashes = 0
  MaxStops = 0
  MaxFaults = 0
  MaxSlow = 1
INVARIANTS TypeOK OpenIsOwner
PROPERTIES ClientConnects
CHECK_DEADLOCK FALSE
