SPECIFICATION LoopSpec
CONSTANTS
  radar = radar
  near = near
  far = far
  Keys <- MCKeys
  Subsystems <- MCSubsystems
  SubsystemOf <- MCSubsystemOf
  EffectLists <- MCEffectLists
  Damages <- MCDamages
  None = None
  MaxEpochs = 2
  MaxRevision = 3
  MaxBreaks = 1
  MaxPending = 1
  MaxReports = 2
INVARIANT LatestResultIsUsed
CHECK_DEADLOCK FALSE
