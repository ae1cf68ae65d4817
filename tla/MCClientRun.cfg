CONSTANTS
  Number <- MCNumber
  Tables <- MCTables
  MaxFaults = 2
SPECIFICATION FairSpec
INVARIANTS
  TypeOK
  CalmVerdict
  InterceptedIsExposed
  ForgeryIsNotSame
  RouteRestored
  ProxyExitAttributed
  DirectIsPhysical
PROPERTIES
  RoutesOfOthersKept
  ReturnsUnlessHung
