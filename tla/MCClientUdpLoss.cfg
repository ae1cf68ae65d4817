CONSTANTS
  Number <- MCNumber
  Tables <- MCTables
  MaxFaults = 2
SPECIFICATION Spec
INVARIANT UdpLossAttributed
