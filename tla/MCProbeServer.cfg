CONSTANTS
  ExtraPorts <- MCExtraPorts
  Conn = {c1}
  Request = {r1}
  Stopper = {k1, k2}
SPECIFICATION FairSpec
INVARIANTS
  TypeOK
  WaitGroupCounts
  Quiet
PROPERTIES
  ShutdownReturns
  ConnectionsEnd
