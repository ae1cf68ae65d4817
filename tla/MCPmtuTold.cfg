CONSTANTS
  SecondIP = FALSE
  MaxUDP = 2
  MaxUDPPMTU = 8
  MinSize = 2
  Largest = 9
  MaxLink = 9
SPECIFICATION MCSpec
INVARIANT NoBlackholeOnceTold
