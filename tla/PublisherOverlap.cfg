SPECIFICATION FairSpec
CONSTANTS
  Step = 2
  MaxCatchup = 2
  NotBefore = 3
  None = None
  Invocations = {i1, i2}
  ProbeOutcomes <- MCOneOutcome
  StartTime = 8
  MaxTime = 10
  MaxAborts = 1
INVARIANTS
  NoWindowSkipped
PROPERTIES
  ImplementsLedger
  EveryWindowIsPublished
