SPECIFICATION FairLoop
CONSTANTS
  radar = radar
  near = near
  far = far
  Keys <- MCKeys
  Subsystems <- MCSubsystems
  SubsystemOf <- MCSubsystemOf
  EffectLists <- MCEffectLists
  Damages <- MCDamages
  None = None
  MaxEpochs = 2
  MaxRevision = 3
  MaxBreaks = 1
  MaxPending = 1
  MaxReports = 2
INVARIANT LoopTypeOK
INVARIANT NewestOnItsWay
INVARIANT EffectsNotAhead
INVARIANT NewestInForce
INVARIANT GatesFollowReports
PROPERTY EffectsMoveForward
PROPERTY ImplementsGates
PROPERTY EventuallyCurrent
PROPERTY EffectsGetApplied
CHECK_DEADLOCK FALSE
