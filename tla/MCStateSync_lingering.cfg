SPECIFICATION Spec
CONSTANTS
  a = a
  b = b
  f = f
  Nothing = Nothing
  EntityIds <- MCEntityIds
  FlowIds <- MCFlowIds
  EntityFields <- MCEntityFields
  FlowFields <- MCFlowFields
  EntityStates <- MCEntityStates
  FlowConfigs <- MCFlowConfigs
  PeersOf <- MCPeersOf
  EndsOf <- MCEndsOf
  FirstWorlds <- MCFirstWorlds
  Worlds <- MCWorlds
  MaxPending = 2
  Lingering = TRUE
  MaxReports = 4
  MaxConns = 3
INVARIANT SyncedWhenDrained
CHECK_DEADLOCK FALSE
