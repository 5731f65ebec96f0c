CONSTANTS
  l = l
  a = a
  b = b
  Node <- MCNode
  Leader = l
  HeartbeatMisses = 2
  CjqRetry = 1
  UpdateChannel = 2
  UdpDuplicates = TRUE
  MaxCrashes = 1
SPECIFICATION Spec
INVARIANTS
  TypeOK
  OneJoinAtATime
  JoinKeepsMembers
  NoPanic
  OrchestratorFollows
PROPERTIES
  LeavesOnlyWhenLost
SYMMETRY Joiners
CHECK_DEADLOCK FALSE
