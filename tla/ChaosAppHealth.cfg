SPECIFICATION FairSpec
CONSTANTS
  Requests = {r1, r2}
  Paths = {"/health"}
  TTL = 2
  CallMax = 2
  SampleEvery = 2
  MaxRetries = 1
  MaxRoots = 0
INVARIANTS
  TypeOK
PROPERTIES
  HealthAnswerIsNews
  ReadinessRecovers
