CONSTANTS
  p1 = p1
  p2 = p2
  Pod <- OnePod
  MaxNames = 1
  Foreign = 0
  Cleanup = TRUE
  Disturbances <- RotateOnly
  MaxEdits = 1
  MaxFaults = 0
SPECIFICATION Spec
INVARIANTS
  ZeroDowntime
