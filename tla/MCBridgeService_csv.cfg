SPECIFICATION FairSpec
CONSTANTS
  c1 = c1
  c2 = c2
  Clients <- MCOneClient
  Requests <- MCRequests
  Nothing = Nothing
  CacheSize = 1
  ComputeMayFail = FALSE
  CsvMayFail = TRUE
  MaxLines = 2
PROPERTY LatestIsComputed
CHECK_DEADLOCK FALSE
