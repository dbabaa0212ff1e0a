SPECIFICATION Spec
CONSTANTS
  Snapshots <- MCSnapshots
  Qualities = {"good", "poor", "lost"}
  PipeLines = 2
  MaxJobs = 3
  MaxCrashes = 1
INVARIANT EachCalculationIsReset
CHECK_DEADLOCK FALSE
