SPECIFICATION XSpec
CONSTANTS
  Shared = FALSE
  OutRoom = 1
  MaxWrites = 3
  NoRenegotiation = FALSE
  Records <- MCRecords
  Lengths = {1, 2}
  WithResult = FALSE
  Requests = {1}
  Sizes = {2}
INVARIANT EndMeansClosed
CHECK_DEADLOCK FALSE
