CONSTANTS
  Group = {"g", "h", "all"}
  AllUsers = {"all"}
  User = {"u"}
  Specs <- Editions
  Settings <- Restrict
  Url = {"url"}
  Foreign = {3}
  MaxChanges = 1
  MaxFaults = 1
SPECIFICATION FairSpec
CHECK_DEADLOCK FALSE
INVARIANTS
  TypeOK
  GroupsAuthorized
  SynchronizedExact
PROPERTIES
  SignInKept
  NeverOpened
  PoliciesAccepted
  EventuallyExact
