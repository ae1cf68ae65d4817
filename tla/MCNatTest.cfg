CONSTANTS
  SecondIP = FALSE
  MaxUDP = 1
  MaxUDPPMTU = 4
  Repeatable = {2}
SPECIFICATION FairSpec
INVARIANTS
  TypeOK
  MappingSound
  AnsweredIsRecorded
  EchoReceivedIsSeen
  CalmCompletes
  NoFalseFilter
  AsPromised
PROPERTY Termination
