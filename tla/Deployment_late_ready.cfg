CONSTANTS
  l = l
  a = a
  b = b
  e1 = e1
  e2 = e2
  Node <- TwoNodes
  Leader = l
  Emul <- OneEmul
  MaxApps = 1
SPECIFICATION Spec
INVARIANTS
  OManagerSurvives
CHECK_DEADLOCK FALSE
