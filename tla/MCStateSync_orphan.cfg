SPECIFICATION Spec
CONSTANTS
  a = a
  b = b
  f = f
  Nothing = Nothing
  EntityIds <- MCEntityIds
  FlowIds <- MCFlowIds
  EntityFields <- MCEntityFields
  FlowFields <- MCFlowFields
  EntityStates <- MCEntityStates
  FlowConfigs <- MCFlowConfigs
  PeersOf <- MCPeersOf
  EndsOf <- MCEndsOf
  FirstWorlds <- MCFirstWorldsWithOrphan
  Worlds <- MCWorldsWithOrphan
  MaxPending = 2
  Lingering = FALSE
  MaxReports = 4
  MaxConns = 3
INVARIANT SyncedWhenDrained
CHECK_DEADLOCK FALSE
