CONSTANTS
  l = l
  a = a
  b = b
  Node <- MCNode
  Leader = l
  HeartbeatMisses = 2
  CjqRetry = 0
  UpdateChannel = 1
  UdpDuplicates = FALSE
  MaxCrashes = 1
SPECIFICATION FairSpec
PROPERTIES
  DeadNodeRemoved
CHECK_DEADLOCK FALSE
