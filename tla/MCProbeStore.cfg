CONSTANTS
  Session = {s1, s2, s3}
  BadId = {bad}
  Obs = {o1, o2}
  TTL = 2
  MaxSessions = 2
  MaxObs = 2
  MaxTime = 4
SPECIFICATION FairSpec
INVARIANT TypeOK
INVARIANT Capacity
PROPERTY Retention
PROPERTY Collected
PROPERTY ImplementsRegistry
