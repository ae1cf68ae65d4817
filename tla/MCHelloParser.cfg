CONSTANTS
  MaxHelloBytes = 32
  ReadSize = 4
  Fixed = 1
  Length = {0, 1, 2, 3, 4, 6, 8, 14}
  Cipher = {4865, 4866, 2570}
  ExtType = {0, 10, 11, 13, 16, 43, 23, 6682}
  LegacyVersion = {771}
  Value <- MCValue
  RecLen = {0, 3, 16, 23, 26, 28}
  HsLen = {1, 6, 10, 16, 19, 24}
  StreamSize = {4, 20, 28, 31, 35}
SPECIFICATION MCFairSpec
INVARIANTS
  TypeOK
  InBounds
  CutIndependent
  Prompt
  Bounded
  FingerprintStable
PROPERTY Ends
