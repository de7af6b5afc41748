SPECIFICATION FairSpec
CONSTANTS
  MaxPlain = 3
  BlockSizes = {4}
  IBufLen = 14
  OBufLen = 22
  Shared = FALSE
  Ciphers <- MCCiphers
  Versions <- MCOneVersion
  FragLens = {2, 8}
  RecordLens = {0, 2, 3, 5, 8, 10}
  Forces = {TRUE, FALSE}
INVARIANTS TypeOK RegistersConsistent SealStaysInside PayloadConserved
PROPERTY OutputDrains
CHECK_DEADLOCK FALSE
