CONSTANTS
  SecondIP = FALSE
  MaxUDP = 1
  MaxUDPPMTU = 4
  Repeatable = {}
SPECIFICATION Spec
INVARIANT SingleIpDistinguishes
