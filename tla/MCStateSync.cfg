SPECIFICATION FairSpec
CONSTANTS
  a = a
  b = b
  f = f
  Nothing = Nothing
  EntityIds <- MCEntityIds
  FlowIds <- MCFlowIds
  EntityFields <- MCEntityFields
  FlowFields <- MCFlowFields
  EntityStates <- MCEntityStates
  FlowConfigs <- MCFlowConfigs
  PeersOf <- MCPeersOf
  EndsOf <- MCEndsOf
  FirstWorlds <- MCFirstWorlds
  Worlds <- MCWorlds
  MaxPending = 2
  Lingering = FALSE
  MaxReports = 4
  MaxConns = 3
INVARIANT TypeOK
INVARIANT CopyWasReported
INVARIANT SyncedWhenDrained
INVARIANT QueueBounded
INVARIANT DeliveryChain
PROPERTY ImplementsReplica
PROPERTY EventuallySynced
CHECK_DEADLOCK FALSE
