CONSTANTS
  Tenant <- One
  RequiresTenant = {}
  CleanupOrphans = FALSE
  Disturbances = {"edit", "revert", "preserve", "lose"}
  MaxDisturbances = 3
  MaxCreations = 2
  MaxFaults = 2
SPECIFICATION Spec
CHECK_DEADLOCK FALSE
INVARIANTS
  TypeOK
  NothingLeft
  OnlyRefusedLeft
PROPERTIES
  PreservedKept
  ImplementsCustody
