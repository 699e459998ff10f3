SPECIFICATION Spec
CONSTANTS
  c1 = c1
  c2 = c2
  w1 = w1
  w2 = w2
  w3 = w3
  w4 = w4
  w5 = w5
  None = None
  Clients <- TwoClients
  Writers <- ThreeWriters
  Owning <- Nobody
  MaxManual = 0
  MaxCrashes = 1
  MaxStops = 0
  MaxFaults = 0
  MaxSlow = 0
INVARIANTS OneWriter
CHECK_DEADLOCK FALSE
