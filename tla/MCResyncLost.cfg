CONSTANTS
  App <- Pair
  Remote = {}
  Desired <- OneWay
  Replaceable <- Pair
  Slot = {1, 2}
  Sweeping = TRUE
  MaxReplacements = 1
  MaxEdits = 0
  MaxFaults = 0
SPECIFICATION FairSpec
CHECK_DEADLOCK FALSE
PROPERTIES
  SameClusterFollowed
