SPECIFICATION Spec
CONSTANTS
  Step = 2
  MaxCatchup = 2
  NotBefore = 3
  None = None
  Invocations = {i1}
  ProbeOutcomes <- MCProbeOutcomes
  StartTime = 2
  MaxTime = 10
  MaxAborts = 2
INVARIANTS
  TypeOK
  LedgerBalances
  SliRatiosWellFormed
PROPERTIES
  FinishedRunDrains
