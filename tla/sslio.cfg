SPECIFICATION FairSpec
CONSTANTS
  Shared = TRUE
  OutRoom = 2
  MaxWrites = 3
  MaxReads = 3
  NoRenegotiation = FALSE
  Records <- MCRecords
  Lengths = {1, 3}
INVARIANTS StreamsKept FlushSends
PROPERTY CloseEnds
CHECK_DEADLOCK FALSE
