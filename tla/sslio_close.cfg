SPECIFICATION FairSpec
CONSTANTS
  Shared = FALSE
  OutRoom = 2
  MaxWrites = 1
  MaxReads = 2
  NoRenegotiation = FALSE
  Records <- MCRecords
  Lengths = {1}
PROPERTY CloseReturns
CHECK_DEADLOCK FALSE
