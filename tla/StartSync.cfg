CONSTANTS
  N = 3
  FirstDelay = 3
  Margin = 1
  Extra = 2
  MaxDelay = 1
  MaxSkew = 1
SPECIFICATION FairSpec
INVARIANTS
  TypeOK
  Agreement
  ValidationFits
PROPERTIES
  ImplementsCommonStart
  EndsTogether
CHECK_DEADLOCK FALSE
