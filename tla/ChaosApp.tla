------------------------------ MODULE ChaosApp ------------------------------
(***************************************************************************)
(* One process of the chaos-app API: coroutines on one event loop that      *)
(* serve GET /, /health (and /readyz, the same handler) and /livez, and     *)
(* share a Redis client, a health cache, a request counter and two gauges.  *)
(* A coroutine runs undisturbed from one await to the next; every Redis     *)
(* call is an await, and what it was answered may be old when the coroutine *)
(* goes on.                                                                 *)
(*                                                                         *)
(* Time is kept as ages that stop counting once no condition can tell them  *)
(* apart, so the state space is finite without a bound on the clock.        *)
(***************************************************************************)
EXTENDS Integers, FiniteSets

CONSTANTS
  Requests,      \* the requests that may be in progress at the same time
  Paths,         \* the paths requested, out of AllPaths
  TTL,           \* _HEALTH_CACHE_TTL
  CallMax,       \* the longest a Redis call takes, its retries included
  SampleEvery,   \* the root handler calls INCR every so many requests
  MaxRetries,    \* redis_max_retries
  MaxRoots       \* bound: how many requests the root handler may count

AllPaths == {"/", "/health", "/livez"}

ASSUME ChaosAppAssumption ==
  /\ IsFiniteSet(Requests)
  /\ Paths \subseteq AllPaths
  /\ TTL \in Nat \ {0} /\ CallMax \in Nat \ {0} /\ SampleEvery \in Nat \ {0}
  /\ MaxRetries \in Nat /\ MaxRoots \in Nat

VARIABLES
  redis_enabled,    \* the settings: redis_enabled and redis_host
  phase,            \* where the process is in its lifespan
  client,           \* RedisClient._client
  redis,            \* the Redis server
  health_cache,     \* _health_cache
  request_counter,  \* _request_counter
  active_requests,  \* _active_requests_count
  redis_status,     \* _redis_connected_state
  req,              \* the requests in progress
  upAge, downAge    \* observers: for how long Redis has not been up, down

vars == <<redis_enabled, phase, client, redis, health_cache, request_counter,
          active_requests, redis_status, req, upAge, downAge>>

(* The oldest news a health answer may be based on: the answer to the ping  *)
(* waited for as long as a call may take, and was then cached.              *)
OldestNews == CallMax + TTL - 1

Ops == {"ping", "get", "set", "incr"}

(* code is the status the handler decided on, found what get returned.      *)
Req == [pc : {"idle", "handler", "await", "answered", "respond"},
        path : AllPaths, op : Ops, ok : BOOLEAN, found : BOOLEAN,
        wait : 0 .. CallMax, code : {200, 503}]

IdleReq == [pc |-> "idle", path |-> "/", op |-> "get", ok |-> FALSE,
            found |-> FALSE, wait |-> 0, code |-> 200]

(* age is the time since _ts, the same from TTL + 1 on; without _ts there is *)
(* no valid entry.                                                          *)
NoEntry == [age |-> TTL + 1, code |-> 200]

TypeOK ==
  /\ redis_enabled \in BOOLEAN
  /\ phase \in {"starting", "connecting", "serving", "draining", "closing", "stopped"}
  /\ client \in {"absent", "open", "closing"}
  /\ redis \in [up : BOOLEAN, sample : BOOLEAN, counter : Nat]
  /\ health_cache \in [age : 0 .. TTL + 1, code : {200, 503}]
  /\ request_counter \in 0 .. MaxRoots
  /\ active_requests \in Nat
  /\ redis_status \in {-1, 0, 1}
  /\ req \in [Requests -> Req]
  /\ upAge \in 0 .. OldestNews + 1
  /\ downAge \in 0 .. OldestNews + 1

Init ==
  /\ redis_enabled \in BOOLEAN
  /\ phase = "starting"
  /\ client = "absent"
  /\ redis \in [up : BOOLEAN, sample : BOOLEAN, counter : {0}]
  /\ health_cache = NoEntry
  /\ request_counter = 0
  /\ active_requests = 0
  /\ redis_status = -1
  /\ req = [r \in Requests |-> IdleReq]
  /\ upAge = IF redis.up THEN 0 ELSE OldestNews + 1
  /\ downAge = IF redis.up THEN OldestNews + 1 ELSE 0

(* A step of the process: the settings and the Redis server stay as they are. *)
UNCHANGED_env == UNCHANGED <<redis_enabled, redis, upAge, downAge>>

-----------------------------------------------------------------------------
(* The environment                                                         *)

Older(age, limit) == IF age < limit THEN age + 1 ELSE age

(* A second passes.  A call that has taken as long as it may is answered,   *)
(* if only by its timeout, before any more time does.                       *)
Tick ==
  /\ \A r \in Requests : req[r].pc \in {"await", "answered"} => req[r].wait < CallMax
  /\ req' = [r \in Requests |->
               IF req[r].pc \in {"await", "answered"}
               THEN [req[r] EXCEPT !.wait = @ + 1] ELSE req[r]]
  /\ health_cache' = [health_cache EXCEPT !.age = Older(@, TTL + 1)]
  /\ upAge' = IF redis.up THEN 0 ELSE Older(upAge, OldestNews + 1)
  /\ downAge' = IF redis.up THEN Older(downAge, OldestNews + 1) ELSE 0
  /\ UNCHANGED <<redis_enabled, phase, client, redis, request_counter,
                 active_requests, redis_status>>

(* Redis fails, or comes back. *)
RedisFlips ==
  /\ redis' = [redis EXCEPT !.up = ~@]
  /\ upAge' = 0
  /\ downAge' = 0
  /\ UNCHANGED <<redis_enabled, phase, client, health_cache, request_counter,
                 active_requests, redis_status, req>>

(* Redis answers a call: it fails when Redis is down.  A command may have   *)
(* been applied although its answer was lost, and the client retries.       *)
Answer(r) ==
  /\ req[r].pc = "await"
  /\ \E applied \in (IF redis.up THEN 1 ELSE 0) .. MaxRetries + 1 :
       redis' = CASE req[r].op = "incr" -> [redis EXCEPT !.counter = @ + applied]
                  [] req[r].op = "set"  -> [redis EXCEPT !.sample = @ \/ applied > 0]
                  [] OTHER              -> redis
  /\ req' = [req EXCEPT ![r].pc = "answered", ![r].ok = redis.up,
                        ![r].found = redis.sample]
  /\ UNCHANGED <<redis_enabled, phase, client, health_cache, request_counter,
                 active_requests, redis_status, upAge, downAge>>

-----------------------------------------------------------------------------
(* The lifespan                                                            *)

(* Without Redis there is no client.  When _build_client raises, connect()  *)
(* leaves _client at None, and the process serves nevertheless.             *)
StartWithoutClient ==
  /\ phase = "starting"
  /\ phase' = "serving"
  /\ UNCHANGED <<client, health_cache, request_counter, active_requests,
                 redis_status, req>>
  /\ UNCHANGED_env

(* connect() keeps the client it built before it pings. *)
Connect ==
  /\ phase = "starting" /\ redis_enabled
  /\ phase' = "connecting"
  /\ client' = "open"
  /\ UNCHANGED <<health_cache, request_counter, active_requests, redis_status, req>>
  /\ UNCHANGED_env

(* Mistake: a client whose first ping fails is thrown away. *)
ConnectedOrDropped ==
  /\ phase = "connecting"
  /\ phase' = "serving"
  /\ client' = IF redis.up THEN "open" ELSE "absent"
  /\ UNCHANGED <<health_cache, request_counter, active_requests, redis_status, req>>
  /\ UNCHANGED_env

(* The ping succeeds, or its failure is logged. *)
Connected ==
  /\ phase = "connecting"
  /\ phase' = "serving"
  /\ UNCHANGED <<client, health_cache, request_counter, active_requests,
                 redis_status, req>>
  /\ UNCHANGED_env

(* SIGTERM: no request is accepted any more. *)
Terminate ==
  /\ phase = "serving"
  /\ phase' = "draining"
  /\ UNCHANGED <<client, health_cache, request_counter, active_requests,
                 redis_status, req>>
  /\ UNCHANGED_env

Counted(r) == req[r].pc # "idle" /\ req[r].path = "/"

InFlight == {r \in Requests : req[r].pc # "idle"}

(* The samples on their way: requests that are counting in Redis.           *)
Incrementing == {r \in Requests : req[r].op = "incr" /\ req[r].pc = "await"}

(* The commands of cancelled calls: any of them, and of their retries, may   *)
(* have reached Redis, or may still do so.                                  *)
CancelledCalls ==
  \E applied \in 0 .. (MaxRetries + 1) * Cardinality(Incrementing),
     sample \in {redis.sample,
                redis.sample \/ \E r \in Requests : req[r].op = "set" /\ req[r].pc = "await"} :
    redis' = [redis EXCEPT !.counter = @ + applied, !.sample = sample]

(* Mistake: the gauge is not decremented for a request that is cancelled. *)
DrainEndsUncounted ==
  /\ phase = "draining"
  /\ phase' = "closing"
  /\ client' = IF client = "open" THEN "closing" ELSE client
  /\ req' = [r \in Requests |-> IdleReq]
  /\ CancelledCalls
  /\ UNCHANGED <<redis_enabled, health_cache, request_counter, active_requests,
                 redis_status, upAge, downAge>>

(* The grace period ends: requests still in progress are cancelled, and     *)
(* their finally blocks run; then the lifespan begins to close the client.  *)
DrainEnds ==
  /\ phase = "draining"
  /\ phase' = "closing"
  /\ client' = IF client = "open" THEN "closing" ELSE client
  /\ req' = [r \in Requests |-> IdleReq]
  /\ active_requests' = active_requests - Cardinality({r \in Requests : Counted(r)})
  /\ CancelledCalls
  /\ UNCHANGED <<redis_enabled, health_cache, request_counter, redis_status,
                 upAge, downAge>>

Stop ==
  /\ phase = "closing"
  /\ phase' = "stopped"
  /\ client' = "absent"
  /\ UNCHANGED <<health_cache, request_counter, active_requests, redis_status, req>>
  /\ UNCHANGED_env

-----------------------------------------------------------------------------
(* The middleware                                                          *)

(* A request other than a probe is counted, and then handled. *)
Arrive(r, path) ==
  /\ phase = "serving"
  /\ req[r].pc = "idle"
  /\ path = "/" =>
       request_counter + Cardinality({q \in Requests : Counted(q)}) < MaxRoots
  /\ req' = [req EXCEPT ![r] = [IdleReq EXCEPT !.pc = "handler", !.path = path]]
  /\ active_requests' = IF path = "/" THEN active_requests + 1 ELSE active_requests
  /\ UNCHANGED <<phase, client, health_cache, request_counter, redis_status>>
  /\ UNCHANGED_env

(* Mistake: the gauge is decremented for probes as well. *)
CompleteUnpaired(r) ==
  /\ req[r].pc = "respond"
  /\ active_requests' = active_requests - 1
  /\ req' = [req EXCEPT ![r] = IdleReq]
  /\ UNCHANGED <<phase, client, health_cache, request_counter, redis_status>>
  /\ UNCHANGED_env

(* The finally block: a request that was counted is no more, and the gauge  *)
(* is clamped at zero.                                                      *)
Complete(r) ==
  /\ req[r].pc = "respond"
  /\ active_requests' = IF ~Counted(r) THEN active_requests
                        ELSE IF active_requests <= 0 THEN 0
                        ELSE active_requests - 1
  /\ req' = [req EXCEPT ![r] = IdleReq]
  /\ UNCHANGED <<phase, client, health_cache, request_counter, redis_status>>
  /\ UNCHANGED_env

(* The handler of r is at its first step. *)
Handling(r, path) == req[r].pc = "handler" /\ req[r].path = path

(* The Redis call `op` of r has been answered. *)
Answered(r, op) == req[r].pc = "answered" /\ req[r].op = op

Respond(r, code) ==
  req' = [req EXCEPT ![r].pc = "respond", ![r].code = code]

Call(r, op) ==
  req' = [req EXCEPT ![r].pc = "await", ![r].op = op, ![r].wait = 0]

-----------------------------------------------------------------------------
(* GET /livez                                                              *)

Livez(r) ==
  /\ Handling(r, "/livez")
  /\ Respond(r, 200)
  /\ UNCHANGED <<phase, client, health_cache, request_counter, active_requests,
                 redis_status>>
  /\ UNCHANGED_env

-----------------------------------------------------------------------------
(* GET /health and GET /readyz                                             *)

(* Mistake: the cache lives one second longer. *)
CacheValidTooLong == health_cache.age <= TTL

CacheValid == health_cache.age < TTL

UpdateCache(code) == health_cache' = [age |-> 0, code |-> code]

HealthFromCache(r) ==
  /\ Handling(r, "/health") /\ CacheValid
  /\ Respond(r, health_cache.code)
  /\ UNCHANGED <<phase, client, health_cache, request_counter, active_requests,
                 redis_status>>
  /\ UNCHANGED_env

HealthWithoutRedis(r) ==
  /\ Handling(r, "/health") /\ ~CacheValid /\ ~redis_enabled
  /\ UpdateCache(200)
  /\ redis_status' = 0
  /\ Respond(r, 200)
  /\ UNCHANGED <<phase, client, request_counter, active_requests>>
  /\ UNCHANGED_env

(* RedisClient.ping raises before any call is made. *)
HealthNotConnected(r) ==
  /\ Handling(r, "/health") /\ ~CacheValid /\ redis_enabled /\ client = "absent"
  /\ UpdateCache(503)
  /\ redis_status' = 0
  /\ Respond(r, 503)
  /\ UNCHANGED <<phase, client, request_counter, active_requests>>
  /\ UNCHANGED_env

HealthPing(r) ==
  /\ Handling(r, "/health") /\ ~CacheValid /\ redis_enabled /\ client # "absent"
  /\ Call(r, "ping")
  /\ UNCHANGED <<phase, client, health_cache, request_counter, active_requests,
                 redis_status>>
  /\ UNCHANGED_env

(* The result of the ping is reported, and cached from now on, whatever was *)
(* cached while this coroutine waited.                                      *)
FinishPing(r) ==
  /\ Answered(r, "ping")
  /\ LET code == IF req[r].ok THEN 200 ELSE 503
     IN  UpdateCache(code) /\ Respond(r, code)
  /\ redis_status' = IF req[r].ok THEN 1 ELSE 0
  /\ UNCHANGED <<phase, client, request_counter, active_requests>>
  /\ UNCHANGED_env

-----------------------------------------------------------------------------
(* GET /                                                                   *)

RootWithoutRedis(r) ==
  /\ Handling(r, "/") /\ ~redis_enabled
  /\ redis_status' = 0
  /\ Respond(r, 200)
  /\ UNCHANGED <<phase, client, health_cache, request_counter, active_requests>>
  /\ UNCHANGED_env

(* Without a built client the call raises, and the answer is 503. *)
RootNotConnected(r) ==
  /\ Handling(r, "/") /\ redis_enabled /\ client = "absent"
  /\ redis_status' = 0
  /\ Respond(r, 503)
  /\ UNCHANGED <<phase, client, health_cache, request_counter, active_requests>>
  /\ UNCHANGED_env

(* A Redis call that raises clears the gauge, and is answered with 503,     *)
(* unless the exception has no text: an empty redis_error reads as none.    *)
RootFails(r) ==
  /\ \E op \in {"get", "set", "incr"} : Answered(r, op) /\ ~req[r].ok
  /\ redis_status' = 0
  /\ \E code \in {200, 503} : Respond(r, code)
  /\ UNCHANGED <<phase, client, health_cache, request_counter, active_requests>>
  /\ UNCHANGED_env

RootGet(r) ==
  /\ Handling(r, "/") /\ redis_enabled /\ client # "absent"
  /\ Call(r, "get")
  /\ UNCHANGED <<phase, client, health_cache, request_counter, active_requests,
                 redis_status>>
  /\ UNCHANGED_env

RootSet(r) ==
  /\ Answered(r, "get") /\ req[r].ok /\ ~req[r].found
  /\ Call(r, "set")
  /\ UNCHANGED <<phase, client, health_cache, request_counter, active_requests,
                 redis_status>>
  /\ UNCHANGED_env

(* The sample is there: the request is counted, and every SampleEvery-th    *)
(* one is also counted in Redis.                                            *)
HasSample(r) ==
  \/ Answered(r, "get") /\ req[r].ok /\ req[r].found
  \/ Answered(r, "set") /\ req[r].ok

(* Mistake: the counter is compared before it is incremented. *)
RootCountLate(r) ==
  /\ HasSample(r)
  /\ request_counter' = request_counter + 1
  /\ IF request_counter % SampleEvery = 0
     THEN Call(r, "incr") /\ UNCHANGED redis_status
     ELSE Respond(r, 200) /\ redis_status' = 1
  /\ UNCHANGED <<phase, client, health_cache, active_requests>>
  /\ UNCHANGED_env

RootCount(r) ==
  /\ HasSample(r)
  /\ request_counter' = request_counter + 1
  /\ IF request_counter' % SampleEvery = 0
     THEN Call(r, "incr") /\ UNCHANGED redis_status
     ELSE Respond(r, 200) /\ redis_status' = 1
  /\ UNCHANGED <<phase, client, health_cache, active_requests>>
  /\ UNCHANGED_env

FinishIncr(r) ==
  /\ Answered(r, "incr") /\ req[r].ok
  /\ redis_status' = 1
  /\ Respond(r, 200)
  /\ UNCHANGED <<phase, client, health_cache, request_counter, active_requests>>
  /\ UNCHANGED_env

-----------------------------------------------------------------------------
(* What request r does next, Redis permitting. *)
Handle(r) ==
  \/ Livez(r)
  \/ HealthFromCache(r) \/ HealthWithoutRedis(r) \/ HealthNotConnected(r)
  \/ HealthPing(r) \/ FinishPing(r)
  \/ RootWithoutRedis(r) \/ RootNotConnected(r) \/ RootFails(r)
  \/ RootGet(r) \/ RootSet(r) \/ RootCount(r) \/ FinishIncr(r)
  \/ Complete(r)

Lifespan ==
  \/ StartWithoutClient \/ Connect \/ Connected
  \/ Terminate \/ DrainEnds \/ Stop

Next ==
  \/ Tick
  \/ RedisFlips
  \/ Lifespan
  \/ \E r \in Requests :
       \/ \E path \in Paths : Arrive(r, path)
       \/ Answer(r)
       \/ Handle(r)

Spec == Init /\ [][Next]_vars

(* The event loop runs every ready coroutine, calls end by their timeout,   *)
(* time passes, the process starts, and the kubelet and the publisher go on *)
(* asking.  Nothing makes it stop.                                          *)
FairSpec ==
  /\ Spec
  /\ WF_vars(Tick)
  /\ WF_vars(StartWithoutClient \/ Connect \/ Connected)
  /\ \A r \in Requests :
       /\ WF_vars(Answer(r))
       /\ WF_vars(Handle(r))
       /\ \A path \in Paths : SF_vars(Arrive(r, path))

-----------------------------------------------------------------------------
(* Safety                                                                  *)

(* A health answer is news: whether it comes from the cache or from a ping  *)
(* that was overtaken by others, Redis was in the state it reports within   *)
(* the time a ping may take and the cache lives.                            *)
HealthAnswerIsNews ==
  [][\A r \in Requests :
       (/\ redis_enabled /\ client # "absent"
        /\ req[r].path = "/health"
        /\ req[r].pc # "respond" /\ req'[r].pc = "respond")
         => \/ req'[r].code = 200 /\ upAge <= OldestNews
            \/ req'[r].code = 503 /\ downAge <= OldestNews]_vars

(* The gauge of active requests is exact whatever is answered, cancelled or *)
(* interleaved, and its clamp is never needed.                              *)
ActiveRequestsExact ==
  active_requests = Cardinality({r \in Requests : Counted(r)})

(* The counter in Redis is a sample of the counter in the process: each of  *)
(* its steps stands for SampleEvery requests, give or take the retries of a *)
(* call that is not idempotent.                                             *)
RedisCounterIsSample ==
  redis.counter + (MaxRetries + 1) * Cardinality(Incrementing)
    <= (MaxRetries + 1) * (request_counter \div SampleEvery)

-----------------------------------------------------------------------------
(* Liveness                                                                *)

(* A process that built its client recovers by itself, even if Redis was    *)
(* down when it started: when Redis is back for good, every health answer   *)
(* is 200 from some time on, and such answers keep coming.                  *)
ReadinessRecovers ==
  (<>(phase = "connecting") /\ <>[](redis.up /\ phase = "serving")) =>
     /\ <>[](\A r \in Requests :
              req[r].pc = "respond" /\ req[r].path = "/health" => req[r].code = 200)
     /\ []<>(\E r \in Requests :
              req[r].pc = "respond" /\ req[r].path = "/health" /\ req[r].code = 200)
=============================================================================
