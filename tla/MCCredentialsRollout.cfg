CONSTANTS
  p1 = p1
  p2 = p2
  Pod <- TwoPods
  MaxNames = 3
  Foreign = 0
  Cleanup = TRUE
  Disturbances <- NamesAndSpecs
  MaxEdits = 3
  MaxFaults = 0
SPECIFICATION Spec
SYMMETRY PodSymmetry
INVARIANTS
  ZeroDowntime
PROPERTIES
  SecretsAdvance
