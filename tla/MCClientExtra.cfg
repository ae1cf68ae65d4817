CONSTANTS
  Number <- MCNumber
  Tables <- MCTables
  MaxFaults = 1
SPECIFICATION Spec
INVARIANT ExtraConsistent
