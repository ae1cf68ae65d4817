CONSTANTS
  SecondIP = FALSE
  MaxUDP = 2
  MaxUDPPMTU = 17
  MinSize = 3
  Largest = 16
  MaxLink = 17
SPECIFICATION MCFairSpec
INVARIANTS
  TypeOK
  Bracket
  NeverUnderestimates
  ControlledPath
PROPERTIES
  BlackholeIsUntold
  Termination
