CONSTANTS
  Tenant <- Two
  RequiresTenant <- OnlySecond
  CleanupOrphans = TRUE
  Disturbances = {"tenant", "preserve", "unpreserve"}
  MaxDisturbances = 2
  MaxCreations = 1
  MaxFaults = 1
SPECIFICATION FairSpec
CHECK_DEADLOCK FALSE
PROPERTIES
  EventuallyConfigured
  EventuallyGone
  OrphansCleanedUp
