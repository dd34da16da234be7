SPECIFICATION Spec
CONSTANTS
  Requests = {r1, r2}
  Paths = {"/", "/livez"}
  TTL = 2
  CallMax = 1
  SampleEvery = 2
  MaxRetries = 1
  MaxRoots = 4
INVARIANTS
  ActiveRequestsExact
  RedisCounterIsSample
