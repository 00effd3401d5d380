CONSTANTS
  Permission = {"read", "write"}
  Default = "default"
  Managed <- Two
  Unmanaged = {"u"}
  Rules <- Editions
  Granted = {}
  MaxChanges = 2
  MaxFaults = 1
SPECIFICATION FairSpec
CHECK_DEADLOCK FALSE
INVARIANTS
  TypeOK
  SameIdentifier
  GrantsAuthorized
  SynchronizedExact
PROPERTIES
  PatchesAccepted
  AccessKept
  OthersKept
  EventuallyExact
