CONSTANTS
  l = l
  a = a
  b = b
  e1 = e1
  e2 = e2
  Node <- ThreeNodes
  Leader = l
  Emul <- OneEmul
  MaxApps = 1
SPECIFICATION FairSpec
PROPERTIES
  Settles
CHECK_DEADLOCK FALSE
