CONSTANTS
  App <- Pair
  Remote = {}
  Desired <- Mutual
  Replaceable <- Pair
  Slot = {1, 2}
  Sweeping = FALSE
  MaxReplacements = 0
  MaxEdits = 2
  MaxFaults = 0
SPECIFICATION FairSpec
CHECK_DEADLOCK FALSE
INVARIANTS
  TypeOK
PROPERTIES
  MarksHeard
  EventuallyAssigned
  EventuallyQuiet
