CONSTANTS
  h1 = h1
  h2 = h2
  h3 = h3
  app1 = app1
  app2 = app2
  app3 = app3
  sw = sw
  MAX = 63
  Host <- MCHost
  FirstHosts <- MCTwoHosts
  Speed <- MCSpeed
  Emul = {e1, e2}
  Topologies <- MCTopologies
  max_load = 2
  MaxDepth = 3
  MaxChanges = 2
SPECIFICATION Spec
INVARIANTS
  TypeOK
  LoadsRight
  AttributedWhileRunning
  BooksBalance
  NothingLost
  SearchSound
  SearchComplete
  BooksNeverPanic
SYMMETRY MCSymmetry
CHECK_DEADLOCK FALSE
