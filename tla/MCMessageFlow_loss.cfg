SPECIFICATION FairSpec
CONSTANTS
  a = a
  b = b
  t1 = t1
  t2 = t2
  r1 = r1
  r2 = r2
  Comms <- MCComms
  Platforms <- MCPlatforms
  Devices <- MCOneRadio
  MaxSerial = 2
  None = None
  DefaultLoss = "none"
  LossOverride = FALSE
  MaxWindow = 2
  MaxReports = 1
  MaxFailures = 1
  MaxChanges = 0
  MaxGone = 0
  MaxFaults = 1
PROPERTY LossIsNotAnOutage
CHECK_DEADLOCK FALSE
