CONSTANTS
  App <- Pair
  Remote <- Other
  Desired <- ToBoth
  Replaceable <- Dependent
  Slot = {1}
  Sweeping = TRUE
  MaxReplacements = 1
  MaxEdits = 0
  MaxFaults = 1
SPECIFICATION FairSpec
CHECK_DEADLOCK FALSE
PROPERTIES
  UnassignedFound
  RemoteFollowed
