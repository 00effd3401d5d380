CONSTANTS
  p1 = p1
  p2 = p2
  Pod <- OnePod
  MaxNames = 3
  Foreign = 0
  Cleanup = TRUE
  Disturbances <- NamesOnly
  MaxEdits = 2
  MaxFaults = 0
SPECIFICATION Spec
INVARIANTS
  InUseSetsKept
