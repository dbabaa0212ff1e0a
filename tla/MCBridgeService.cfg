SPECIFICATION FairSpec
CONSTANTS
  c1 = c1
  c2 = c2
  Clients <- MCClients
  Requests <- MCRequests
  Nothing = Nothing
  CacheSize = 1
  ComputeMayFail = TRUE
  CsvMayFail = TRUE
  MaxLines = 3
INVARIANT TypeOK
INVARIANT ResultsInOrder
INVARIANT AckBeforeResult
INVARIANT NewestIsSettled
INVARIANT RetryHasNoEffect
PROPERTY LatestIsDealtWith
CHECK_DEADLOCK FALSE
