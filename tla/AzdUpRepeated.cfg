SPECIFICATION FairSpec
CONSTANTS
  Permissions = {"create deployments"}
  MaxPolls = 2
  MaxPods = 3
  MaxMishaps = 2
INVARIANTS
  TypeOK
  AppliedWhenReady
  CheckedMeansInjected
  SignalsWereThere
PROPERTIES
  UpSucceeds
