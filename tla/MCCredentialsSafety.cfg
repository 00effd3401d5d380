CONSTANTS
  p1 = p1
  p2 = p2
  Pod <- TwoPods
  MaxNames = 3
  Foreign = 1
  Cleanup = TRUE
  Disturbances <- All
  MaxEdits = 2
  MaxFaults = 1
SPECIFICATION Spec
SYMMETRY PodSymmetry
INVARIANTS
  TypeOK
  MountedCredentialsKept
  LoadedSecretsKept
  LatestSetKept
  StatusNamesSecret
PROPERTIES
  RotationAnswered
