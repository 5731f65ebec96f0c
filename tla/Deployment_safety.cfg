CONSTANTS
  l = l
  a = a
  b = b
  e1 = e1
  e2 = e2
  Node <- TwoNodes
  Leader = l
  Emul <- TwoEmuls
  MaxApps = 1
SPECIFICATION Spec
INVARIANTS
  TypeOK
  StartFindsCore
  StartsTogether
  LoadCoversApps
PROPERTIES
  AbortsAreFinal
CHECK_DEADLOCK FALSE
