CONSTANTS
  l = l
  a = a
  b = b
  e1 = e1
  e2 = e2
  Node <- TwoNodes
  Leader = l
  Emul <- OneEmul
  MaxApps = 1
SPECIFICATION FairSpec
PROPERTIES
  AbortedCoresEnd
CHECK_DEADLOCK FALSE
