CONSTANTS
  app1 = app1
  app2 = app2
  app3 = app3
  sw = sw
  h1 = h1
  h2 = h2
  MAX = 63
  Vertex <- MCVertex
  Bandwidth <- MCBandwidth
  Path <- MCPath
  Flow <- MCFlow
  App <- MCApp
  Host <- MCHost
  host <- MChost
  Schedules <- MCSchedules
  Throughput = {1, 5}
  MaxReports = 3
SPECIFICATION Spec
INVARIANTS
  TypeOK
  SharesFit
  FairShare
  AgreeAtRest
  RatesFollow
  OrderlyStart
CHECK_DEADLOCK FALSE
