CONSTANTS
  SecondIP = TRUE
  MaxUDP = 1
  MaxUDPPMTU = 4
  Repeatable = {}
SPECIFICATION Spec
INVARIANT CalmCompletes
