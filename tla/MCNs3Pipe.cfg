SPECIFICATION FairSpec
CONSTANTS
  Snapshots <- MCSnapshots
  Qualities = {"good", "poor", "lost"}
  PipeLines = 2
  MaxJobs = 3
  MaxCrashes = 1
INVARIANT TypeOK
INVARIANT ResultsAreOwn
INVARIANT ConnectedByTopology
INVARIANT ReadersAgree
INVARIANT AvailableIsDeliverable
INVARIANT InStepWhileParsable
PROPERTY ComputeEnds
CHECK_DEADLOCK FALSE
