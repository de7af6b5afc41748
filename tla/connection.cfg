SPECIFICATION XFairSpec
CONSTANTS
  Shared = FALSE
  OutRoom = 1
  MaxWrites = 3
  NoRenegotiation = FALSE
  Records <- MCRecords
  Lengths = {1, 2}
  WithResult = TRUE
  Requests = {0, 1, 3}
  Sizes = {2, 4}
INVARIANTS NeverWaitsWithOutput CloseSendsAll EndMeansClosed OpenMeansFinished NeverSpins ExchangeWhole
PROPERTY CloseReturns
CHECK_DEADLOCK FALSE
