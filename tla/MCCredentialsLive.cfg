CONSTANTS
  p1 = p1
  p2 = p2
  Pod <- OnePod
  MaxNames = 2
  Foreign = 1
  Cleanup = TRUE
  Disturbances <- All
  MaxEdits = 2
  MaxFaults = 1
SPECIFICATION FairSpec
PROPERTIES
  EventuallyDelivered
  LeftoversRevoked
