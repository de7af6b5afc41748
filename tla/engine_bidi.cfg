SPECIFICATION FairSpec
CONSTANTS
  Shared = FALSE
  OutRoom = 2
  MaxWrites = 3
  NoRenegotiation = FALSE
  Records <- MCRecords
  Forces = {TRUE, FALSE}
  FlushEarly = TRUE
INVARIANTS AppStreamKept RecordsPure HandshakeUninterrupted CloseNotifyLast CleanEnd
PROPERTY CloseGoesOut
CHECK_DEADLOCK FALSE
