SPECIFICATION Spec
CONSTANTS
  c1 = c1
  c2 = c2
  Clients <- MCClients
  Requests <- MCRequests
  Nothing = Nothing
  CacheSize = 1
  ComputeMayFail = TRUE
  CsvMayFail = FALSE
  MaxLines = 3
INVARIANT NoResultAfterNewerAck
CHECK_DEADLOCK FALSE
