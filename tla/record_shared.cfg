SPECIFICATION FairSpec
CONSTANTS
  MaxPlain = 3
  BlockSizes = {4}
  IBufLen = 22
  OBufLen = 22
  Shared = TRUE
  Ciphers <- MCCiphers
  Versions <- MCVersions
  FragLens = {1, 2, 8}
  RecordLens = {0, 2, 3, 5, 8, 20}
  Forces = {FALSE}
INVARIANTS HalfDuplex NeverStuck
PROPERTY SlotsRefined
CHECK_DEADLOCK FALSE
