CONSTANTS
  h1 = h1
  h2 = h2
  h3 = h3
  s1 = s1
  NoHost = NoHost
  Hosts <- MCHosts
  Switches <- MCSwitches
  Leader = h1
  Bandwidths = {1, 2}
  LocalSpeeds = {1, 9}
  Sufficient <- MCSufficient
  TestRetries = 1
  MAX = 9
SPECIFICATION Spec
INVARIANTS
  TypeOK
  NeverOverestimates
  SpeedsKnown
  PathsRight
PROPERTIES
  LinksFollowNodes
  TestsOnce
