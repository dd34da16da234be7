--------------------------- MODULE ChaosAppProofs ---------------------------
(***************************************************************************)
(* Theorems about ChaosApp, for every number of concurrent requests, cache  *)
(* lifetime, longest call, sampling rate, and number of retries.            *)
(***************************************************************************)
EXTENDS ChaosApp, FiniteSetTheorems, TLAPS

(* A request's next step: it stays the request it is.                       *)
Steps(r, pc, op) ==
  /\ req' \in [Requests -> Req]
  /\ \A q \in Requests \ {r} : req'[q] = req[q]
  /\ req'[r].path = req[r].path /\ req'[r].pc = pc /\ req'[r].op = op

LEMMA RespondSteps ==
  ASSUME TypeOK, NEW r \in Requests, NEW code \in {200, 503}, Respond(r, code)
  PROVE  Steps(r, "respond", req[r].op) /\ req'[r].code = code
<1> DEFINE new == [req[r] EXCEPT !.pc = "respond", !.code = code]
<1>1. req \in [Requests -> Req] /\ req[r] \in Req
  BY DEF TypeOK
<1>2. req' = [req EXCEPT ![r] = new]
  <2> DEFINE one == [req EXCEPT ![r].pc = "respond"]
  <2>1. req' = [one EXCEPT ![r].code = code]
    BY DEF Respond
  <2>2. one \in [Requests -> Req] /\ one[r] = [req[r] EXCEPT !.pc = "respond"]
    BY <1>1 DEF Req
  <2>3. one = [req EXCEPT ![r] = one[r]]
    BY <1>1, <2>2
  <2> HIDE DEF one
  <2>4. new = [one[r] EXCEPT !.code = code]
    BY <2>2
  <2>5. req' = [one EXCEPT ![r] = new]
    BY <2>1, <2>2, <2>4
  <2>6. QED BY <1>1, <2>2, <2>3, <2>5
<1>3. new \in Req /\ new.pc = "respond" /\ new.code = code
      /\ new.path = req[r].path /\ new.op = req[r].op
  BY <1>1 DEF Req
<1> HIDE DEF new
<1>4. QED BY <1>1, <1>2, <1>3 DEF Steps

LEMMA CallSteps ==
  ASSUME TypeOK, NEW r \in Requests, NEW op \in Ops, Call(r, op)
  PROVE  Steps(r, "await", op)
<1>1. 0 \in 0 .. CallMax
  BY ChaosAppAssumption
<1> DEFINE new == [req[r] EXCEPT !.pc = "await", !.op = op, !.wait = 0]
<1>2. req \in [Requests -> Req] /\ req[r] \in Req
  BY DEF TypeOK
<1>3. req' = [req EXCEPT ![r] = new]
  BY <1>2 DEF Call
<1>4. new \in Req /\ new.pc = "await" /\ new.op = op /\ new.path = req[r].path
  BY <1>1, <1>2 DEF Req
<1> HIDE DEF new
<1>5. QED BY <1>2, <1>3, <1>4 DEF Steps

(* The handlers' steps, by what they do to the request: it is answered, it  *)
(* calls Redis, it is counted.                                              *)
ShownOK == health_cache \in [age : 0 .. TTL + 1, code : {200, 503}] /\ redis_status \in {-1, 0, 1}

Responds(r) ==
  /\ ShownOK'
  /\ \E code \in {200, 503} : Respond(r, code)
  /\ req[r].pc \in {"handler", "answered"}
  /\ UNCHANGED <<phase, client, request_counter, active_requests>>
  /\ UNCHANGED_env

Calls(r) ==
  /\ ShownOK'
  /\ \/ req[r].path = "/health" /\ Call(r, "ping")
     \/ req[r].path = "/" /\ req[r].pc = "handler" /\ Call(r, "get")
     \/ req[r].op = "get" /\ req[r].pc = "answered" /\ Call(r, "set")
  /\ req[r].pc \in {"handler", "answered"}
  /\ UNCHANGED <<phase, client, request_counter, active_requests>>
  /\ UNCHANGED_env

LEMMA HandleCases ==
  ASSUME TypeOK, NEW r \in Requests, Handle(r)
  PROVE  Responds(r) \/ Calls(r) \/ RootCount(r) \/ Complete(r)
<1>1. health_cache.code \in {200, 503} /\ ShownOK
  BY DEF TypeOK, ShownOK
<1>c. \A code \in {200, 503} :
        UpdateCache(code) => health_cache' \in [age : 0 .. TTL + 1, code : {200, 503}]
  <2>1. 0 \in 0 .. TTL + 1
    BY ChaosAppAssumption
  <2>2. QED BY <2>1 DEF UpdateCache
<1>2. CASE Livez(r) \/ HealthFromCache(r)
  BY <1>1, <1>2 DEF Livez, HealthFromCache, Handling, Responds, ShownOK
<1>3. CASE HealthWithoutRedis(r) \/ HealthNotConnected(r)
  BY <1>c, <1>3 DEF HealthWithoutRedis, HealthNotConnected, Handling, Responds, ShownOK
<1>4. CASE FinishPing(r)
  BY <1>c, <1>4 DEF FinishPing, Answered, Responds, ShownOK
<1>5. CASE RootWithoutRedis(r) \/ RootNotConnected(r) \/ RootFails(r) \/ FinishIncr(r)
  BY <1>1, <1>5 DEF RootWithoutRedis, RootNotConnected, RootFails, FinishIncr, Handling,
                    Answered, Responds, ShownOK
<1>6. CASE HealthPing(r) \/ RootGet(r) \/ RootSet(r)
  BY <1>1, <1>6 DEF HealthPing, RootGet, RootSet, Handling, Answered, Calls, ShownOK
<1>7. QED BY <1>2, <1>3, <1>4, <1>5, <1>6 DEF Handle

-----------------------------------------------------------------------------
(* The invariant.  Redis is called for the right requests only; the root    *)
(* requests that have yet to be counted leave room for that.                *)

OpsFit ==
  \A r \in Requests :
    req[r].pc \in {"await", "answered"} =>
      req[r].path = IF req[r].op = "ping" THEN "/health" ELSE "/"

CountedSet == {r \in Requests : Counted(r)}

Uncounted ==
  {r \in Requests : /\ Counted(r)
                    /\ \/ req[r].pc = "handler"
                       \/ req[r].pc \in {"await", "answered"} /\ req[r].op \in {"get", "set"}}

RoomLeft == request_counter + Cardinality(Uncounted) <= MaxRoots

Inv == TypeOK /\ OpsFit /\ RoomLeft /\ ActiveRequestsExact /\ RedisCounterIsSample

LEMMA SetsAreFinite ==
  /\ IsFiniteSet(CountedSet) /\ IsFiniteSet(Uncounted) /\ IsFiniteSet(Incrementing)
  /\ Cardinality(CountedSet) \in Nat /\ Cardinality(Uncounted) \in Nat
  /\ Cardinality(Incrementing) \in Nat
<1>1. CountedSet \in SUBSET Requests /\ Uncounted \in SUBSET Requests
      /\ Incrementing \in SUBSET Requests
  BY DEF CountedSet, Uncounted, Incrementing
<1>2. QED BY <1>1, ChaosAppAssumption, FS_Subset, FS_CardinalityType

(* Steps that keep the three sets, and all that is counted. *)
LEMMA SetsKept ==
  ASSUME Inv, TypeOK', OpsFit',
         CountedSet' = CountedSet, Uncounted' = Uncounted, Incrementing' = Incrementing,
         UNCHANGED <<request_counter, active_requests>>, redis'.counter = redis.counter
  PROVE  Inv'
BY DEF Inv, RoomLeft, ActiveRequestsExact, RedisCounterIsSample, CountedSet

LEMMA SampleArithmetic ==
  ASSUME NEW n \in Nat
  PROVE  /\ n \div SampleEvery \in Nat
         /\ n \div SampleEvery <= (n + 1) \div SampleEvery
         /\ (n + 1) % SampleEvery = 0 =>
              (n + 1) \div SampleEvery = (n \div SampleEvery) + 1
<1>1. SampleEvery \in Nat \ {0}
  BY ChaosAppAssumption
<1> DEFINE q == n \div SampleEvery
           p == (n + 1) \div SampleEvery
<1>2. q \in Nat /\ SampleEvery * q <= n /\ n < SampleEvery * (q + 1)
  BY <1>1
<1>3. p \in Nat /\ SampleEvery * p <= n + 1 /\ n + 1 < SampleEvery * (p + 1)
  BY <1>1
<1>4. (n + 1) % SampleEvery = 0 => n + 1 = SampleEvery * p
  BY <1>1
<1> HIDE DEF q, p
<1>5. q <= p
  <2>1. SUFFICES ASSUME p + 1 <= q PROVE FALSE
    BY <1>2, <1>3
  <2>2. SampleEvery * (p + 1) <= SampleEvery * q
    BY <2>1, <1>1, <1>2, <1>3
  <2>3. QED BY <2>2, <1>1, <1>2, <1>3
<1>6. ASSUME n + 1 = SampleEvery * p PROVE p = q + 1
  <2>1. p # q
    BY <1>1, <1>2, <1>6
  <2>2. ~(p >= q + 2)
    <3>1. SUFFICES ASSUME p >= q + 2 PROVE FALSE
      OBVIOUS
    <3>2. SampleEvery * p >= SampleEvery * (q + 1) + SampleEvery
      BY <3>1, <1>1, <1>2, <1>3
    <3>3. QED BY <3>2, <1>1, <1>2, <1>6
  <2>3. QED BY <2>1, <2>2, <1>2, <1>3, <1>5
<1>7. QED BY <1>2, <1>4, <1>5, <1>6 DEF p, q

-----------------------------------------------------------------------------
LEMMA IdleReqType == IdleReq \in Req /\ IdleReq.pc = "idle" /\ IdleReq.path = "/"
                     /\ IdleReq.op = "get"
<1>1. 0 \in 0 .. CallMax
  BY ChaosAppAssumption
<1>2. QED BY <1>1 DEF IdleReq, Req, AllPaths, Ops

LEMMA AgesType == TTL + 1 \in 0 .. TTL + 1 /\ OldestNews + 1 \in 0 .. OldestNews + 1
                  /\ 0 \in 0 .. OldestNews + 1 /\ 0 \in 0 .. TTL + 1 /\ OldestNews \in Nat
BY ChaosAppAssumption DEF OldestNews

(* No request is in progress. *)
LEMMA SetsOfIdle ==
  ASSUME \A r \in Requests : req[r].pc = "idle"
  PROVE  CountedSet = {} /\ Uncounted = {} /\ Incrementing = {}
BY DEF CountedSet, Uncounted, Incrementing, Counted

LEMMA InvInit == Init => Inv
<1> SUFFICES ASSUME Init PROVE Inv
  OBVIOUS
<1>1. req \in [Requests -> Req] /\ \A r \in Requests : req[r].pc = "idle"
  BY IdleReqType DEF Init
<1>2. TypeOK
  <2>1. redis \in [up : BOOLEAN, sample : BOOLEAN, counter : Nat]
    BY DEF Init
  <2>2. health_cache \in [age : 0 .. TTL + 1, code : {200, 503}]
    BY AgesType DEF Init, NoEntry
  <2>3. upAge \in 0 .. OldestNews + 1 /\ downAge \in 0 .. OldestNews + 1
    BY AgesType DEF Init
  <2>4. request_counter \in 0 .. MaxRoots /\ active_requests \in Nat
    BY ChaosAppAssumption DEF Init
  <2>5. QED BY <1>1, <2>1, <2>2, <2>3, <2>4 DEF Init, TypeOK
<1>3. Cardinality(CountedSet) = 0 /\ Cardinality(Uncounted) = 0 /\ Cardinality(Incrementing) = 0
  BY <1>1, SetsOfIdle, FS_EmptySet
<1>4. RoomLeft /\ ActiveRequestsExact
  BY <1>3, ChaosAppAssumption DEF Init, RoomLeft, ActiveRequestsExact, CountedSet
<1>5. RedisCounterIsSample
  <2>1. redis.counter = 0 /\ request_counter = 0 /\ 0 \div SampleEvery \in Nat
    BY SampleArithmetic DEF Init
  <2>2. QED BY <1>3, <2>1, ChaosAppAssumption DEF RedisCounterIsSample
<1>6. QED BY <1>1, <1>2, <1>4, <1>5 DEF Inv, OpsFit

-----------------------------------------------------------------------------
(* The environment and the lifespan                                        *)

LEMMA TickStep == Inv /\ Tick => Inv'
<1> SUFFICES ASSUME Inv, Tick PROVE Inv'
  OBVIOUS
<1> USE DEF Inv
<1>1. ASSUME NEW r \in Requests
      PROVE  /\ req'[r] \in Req /\ req'[r].pc = req[r].pc
             /\ req'[r].path = req[r].path /\ req'[r].op = req[r].op
  <2>1. req[r] \in Req
    BY DEF TypeOK
  <2>2. CASE req[r].pc \in {"await", "answered"}
    <3>1. req'[r] = [req[r] EXCEPT !.wait = req[r].wait + 1]
      BY <2>2 DEF Tick
    <3>2. req[r].wait \in 0 .. CallMax /\ req[r].wait < CallMax
      BY <2>1, <2>2 DEF Tick, Req
    <3>3. req[r].wait + 1 \in 0 .. CallMax
      BY <3>2, ChaosAppAssumption
    <3>4. QED BY <2>1, <3>1, <3>3 DEF Req
  <2>3. CASE req[r].pc \notin {"await", "answered"}
    BY <2>1, <2>3 DEF Tick
  <2>4. QED BY <2>2, <2>3
<1>2. req' \in [Requests -> Req]
  BY <1>1 DEF Tick
<1>3. upAge' \in 0 .. OldestNews + 1 /\ downAge' \in 0 .. OldestNews + 1
  <2>1. \A age \in 0 .. OldestNews + 1 : Older(age, OldestNews + 1) \in 0 .. OldestNews + 1
    BY AgesType DEF Older
  <2>2. QED BY <2>1, AgesType DEF Tick, TypeOK
<1>4. health_cache' \in [age : 0 .. TTL + 1, code : {200, 503}]
  <2>1. health_cache.age \in 0 .. TTL + 1
    BY DEF TypeOK
  <2>2. Older(health_cache.age, TTL + 1) \in 0 .. TTL + 1
    BY <2>1, ChaosAppAssumption DEF Older
  <2>3. QED BY <2>2 DEF Tick, TypeOK
<1>5. TypeOK'
  BY <1>2, <1>3, <1>4 DEF Tick, TypeOK
<1>6. OpsFit'
  BY <1>1 DEF OpsFit
<1>7. CountedSet' = CountedSet /\ Uncounted' = Uncounted /\ Incrementing' = Incrementing
  BY <1>1 DEF CountedSet, Uncounted, Incrementing, Counted
<1>8. QED BY <1>5, <1>6, <1>7, SetsKept DEF Tick

LEMMA FlipStep == Inv /\ RedisFlips => Inv'
<1> SUFFICES ASSUME Inv, RedisFlips PROVE Inv'
  OBVIOUS
<1>1. redis' \in [up : BOOLEAN, sample : BOOLEAN, counter : Nat] /\ redis'.counter = redis.counter
  <2>1. redis \in [up : BOOLEAN, sample : BOOLEAN, counter : Nat]
    BY DEF Inv, TypeOK
  <2>2. redis' = [redis EXCEPT !.up = ~redis.up]
    BY DEF RedisFlips
  <2>3. CASE redis.up
    <3>1. redis' = [redis EXCEPT !.up = FALSE]
      BY <2>2, <2>3, Zenon
    <3>2. QED BY <2>1, <3>1
  <2>4. CASE ~redis.up
    <3>1. redis' = [redis EXCEPT !.up = TRUE]
      BY <2>1, <2>2, <2>4
    <3>2. QED BY <2>1, <3>1
  <2>5. QED BY <2>3, <2>4
<1>2. TypeOK'
  BY <1>1, AgesType DEF Inv, RedisFlips, TypeOK
<1>3. QED BY <1>1, <1>2, SetsKept
          DEF Inv, RedisFlips, OpsFit, CountedSet, Uncounted, Incrementing, Counted

(* Cancelled calls count at most as often as each may be tried, and change  *)
(* nothing else but the sample.                                             *)
LEMMA CancelledCallsBound ==
  ASSUME Inv, CancelledCalls
  PROVE  /\ redis' \in [up : BOOLEAN, sample : BOOLEAN, counter : Nat]
         /\ redis'.up = redis.up /\ redis'.counter \in Nat
         /\ redis'.counter <= redis.counter + (MaxRetries + 1) * Cardinality(Incrementing)
         /\ redis.counter \in Nat /\ MaxRetries + 1 \in Nat
         /\ (MaxRetries + 1) * Cardinality(Incrementing) \in Nat
<1> DEFINE K == (MaxRetries + 1) * Cardinality(Incrementing)
<1>1. redis \in [up : BOOLEAN, sample : BOOLEAN, counter : Nat]
  BY DEF Inv, TypeOK
<1>2. redis.counter \in Nat /\ MaxRetries + 1 \in Nat /\ Cardinality(Incrementing) \in Nat
  BY <1>1, ChaosAppAssumption, SetsAreFinite DEF Inv
<1>3. K \in Nat
  BY <1>2
<1>4. PICK applied \in 0 .. K,
           sample \in {redis.sample,
                      redis.sample \/ \E r \in Requests : req[r].op = "set" /\ req[r].pc = "await"} :
        redis' = [redis EXCEPT !.counter = redis.counter + applied, !.sample = sample]
  BY DEF CancelledCalls
<1> HIDE DEF K
<1>5. redis.counter + applied \in Nat /\ applied <= K
  BY <1>2, <1>3, <1>4
<1>6. CASE redis' = [redis EXCEPT !.counter = redis.counter + applied, !.sample = TRUE]
  <2>1. /\ redis' \in [up : BOOLEAN, sample : BOOLEAN, counter : Nat]
        /\ redis'.up = redis.up /\ redis'.counter = redis.counter + applied
    BY <1>1, <1>5, <1>6
  <2>2. QED BY <1>2, <1>3, <1>4, <1>5, <2>1 DEF K
<1>7. CASE redis' = [redis EXCEPT !.counter = redis.counter + applied, !.sample = FALSE]
  <2>1. /\ redis' \in [up : BOOLEAN, sample : BOOLEAN, counter : Nat]
        /\ redis'.up = redis.up /\ redis'.counter = redis.counter + applied
    BY <1>1, <1>5, <1>7
  <2>2. QED BY <1>2, <1>3, <1>4, <1>5, <2>1 DEF K
<1>8. sample = TRUE \/ sample = FALSE
  <2>1. CASE sample = redis.sample
    BY <1>1, <2>1
  <2>2. CASE sample = (redis.sample \/ \E r \in Requests : req[r].op = "set" /\ req[r].pc = "await")
    BY <2>2, Zenon
  <2>3. QED BY <1>4, <2>1, <2>2
<1>9. QED BY <1>4, <1>6, <1>7, <1>8

LEMMA LifespanStep == Inv /\ Lifespan => Inv'
<1> SUFFICES ASSUME Inv, Lifespan PROVE Inv'
  OBVIOUS
<1>1. CASE StartWithoutClient \/ Connect \/ Connected \/ Terminate \/ Stop
  <2>1. UNCHANGED <<redis_enabled, redis, upAge, downAge, health_cache, request_counter,
                    active_requests, redis_status, req>>
    BY <1>1 DEF StartWithoutClient, Connect, Connected, Terminate, Stop, UNCHANGED_env
  <2>2. phase' \in {"starting", "connecting", "serving", "draining", "closing", "stopped"}
        /\ client' \in {"absent", "open", "closing"}
    BY <1>1 DEF StartWithoutClient, Connect, Connected, Terminate, Stop, Inv, TypeOK
  <2>3. TypeOK'
    BY <2>1, <2>2 DEF Inv, TypeOK
  <2>4. QED BY <2>1, <2>3, SetsKept
            DEF Inv, OpsFit, CountedSet, Uncounted, Incrementing, Counted
<1>2. CASE DrainEnds
  <2>1. req' \in [Requests -> Req] /\ \A r \in Requests : req'[r].pc = "idle"
    BY <1>2, IdleReqType DEF DrainEnds
  <2>2. CountedSet' = {} /\ Uncounted' = {} /\ Incrementing' = {}
    BY <2>1 DEF CountedSet, Uncounted, Incrementing, Counted
  <2>3. /\ Cardinality(CountedSet)' = 0 /\ Cardinality(Uncounted)' = 0
        /\ Cardinality(Incrementing)' = 0
    BY <2>2, FS_EmptySet
  <2>4. active_requests' = 0
    BY <1>2, SetsAreFinite DEF DrainEnds, Inv, ActiveRequestsExact, CountedSet
  <2>n. /\ redis'.counter \in Nat
        /\ redis' \in [up : BOOLEAN, sample : BOOLEAN, counter : Nat]
        /\ redis'.counter <= redis.counter + (MaxRetries + 1) * Cardinality(Incrementing)
        /\ redis.counter \in Nat /\ MaxRetries + 1 \in Nat
        /\ (MaxRetries + 1) * Cardinality(Incrementing) \in Nat
    BY <1>2, CancelledCallsBound DEF DrainEnds
  <2>5. TypeOK'
    BY <1>2, <2>1, <2>4, <2>n DEF DrainEnds, Inv, TypeOK
  <2>6. RoomLeft'
    <3>1. request_counter \in 0 .. MaxRoots /\ request_counter' = request_counter
      BY <1>2 DEF DrainEnds, Inv, TypeOK
    <3>2. QED BY <2>3, <3>1, ChaosAppAssumption DEF RoomLeft
  <2>7. RedisCounterIsSample'
    <3>1. request_counter' = request_counter
      BY <1>2 DEF DrainEnds
    <3>2. request_counter \div SampleEvery \in Nat
      BY SampleArithmetic DEF Inv, TypeOK
    <3>3. (MaxRetries + 1) * (request_counter \div SampleEvery) \in Nat
      BY <2>n, <3>2
    <3>4. redis'.counter <= (MaxRetries + 1) * (request_counter \div SampleEvery)
      BY <2>n, <3>3 DEF Inv, RedisCounterIsSample
    <3>5. (MaxRetries + 1) * 0 = 0
      BY <2>n
    <3>6. redis'.counter + (MaxRetries + 1) * 0
            <= (MaxRetries + 1) * (request_counter' \div SampleEvery)
      BY <2>n, <3>1, <3>4, <3>5
    <3>7. QED BY <2>3, <3>6 DEF RedisCounterIsSample
  <2>8. QED BY <2>1, <2>3, <2>4, <2>5, <2>6, <2>7
            DEF Inv, OpsFit, ActiveRequestsExact, CountedSet
<1>3. QED BY <1>1, <1>2 DEF Lifespan

-----------------------------------------------------------------------------
(* The requests                                                            *)

LEMMA ArriveStep ==
  ASSUME Inv, NEW r \in Requests, NEW path \in Paths, Arrive(r, path)
  PROVE  Inv'
<1> USE DEF Inv
<1> DEFINE new == [IdleReq EXCEPT !.pc = "handler", !.path = path]
<1>1. req' = [req EXCEPT ![r] = new] /\ req[r].pc = "idle"
  BY DEF Arrive
<1>2. new \in Req /\ new.pc = "handler" /\ new.path = path
  BY IdleReqType, ChaosAppAssumption DEF Req
<1> HIDE DEF new
<1>3. req' \in [Requests -> Req] /\ req'[r] = new /\ \A q \in Requests \ {r} : req'[q] = req[q]
  BY <1>1, <1>2 DEF TypeOK
<1>4. OpsFit'
  BY <1>2, <1>3 DEF OpsFit
<1>5. Incrementing' = Incrementing
  BY <1>1, <1>2, <1>3 DEF Incrementing
<1>6. CASE path = "/"
  <2>1. CountedSet' = CountedSet \cup {r} /\ Uncounted' = Uncounted \cup {r}
        /\ r \notin CountedSet /\ r \notin Uncounted
    BY <1>1, <1>2, <1>3, <1>6 DEF CountedSet, Uncounted, Counted
  <2>2. Cardinality(CountedSet)' = Cardinality(CountedSet) + 1
        /\ Cardinality(Uncounted)' = Cardinality(Uncounted) + 1
    BY <2>1, SetsAreFinite, FS_AddElement
  <2>3. Cardinality(Uncounted) <= Cardinality(CountedSet)
    <3>1. Uncounted \in SUBSET CountedSet
      BY DEF Uncounted, CountedSet
    <3>2. QED BY <3>1, SetsAreFinite, FS_Subset
  <2>4. active_requests' = active_requests + 1 /\ request_counter' = request_counter
        /\ request_counter + Cardinality(CountedSet) < MaxRoots
    BY <1>6 DEF Arrive, CountedSet
  <2>5. TypeOK'
    BY <1>3, <2>4 DEF Arrive, UNCHANGED_env, TypeOK
  <2>6. RoomLeft'
    BY <2>2, <2>3, <2>4, SetsAreFinite, ChaosAppAssumption DEF RoomLeft, TypeOK
  <2>7. ActiveRequestsExact'
    BY <2>2, <2>4 DEF ActiveRequestsExact, CountedSet
  <2>8. RedisCounterIsSample'
    BY <1>5, <2>4 DEF RedisCounterIsSample, Arrive, UNCHANGED_env
  <2>9. QED BY <1>4, <2>5, <2>6, <2>7, <2>8
<1>7. CASE path # "/"
  <2>1. CountedSet' = CountedSet /\ Uncounted' = Uncounted
    BY <1>1, <1>2, <1>3, <1>7 DEF CountedSet, Uncounted, Counted
  <2>2. UNCHANGED <<request_counter, active_requests, redis>>
    BY <1>7 DEF Arrive, UNCHANGED_env
  <2>3. TypeOK'
    BY <1>3, <2>2 DEF Arrive, UNCHANGED_env, TypeOK
  <2>4. QED BY <1>4, <1>5, <2>1, <2>2, <2>3, SetsKept
<1>8. QED BY <1>6, <1>7

(* All of an answer's retries may have been applied. *)
LEMMA AnswerStep ==
  ASSUME Inv, NEW r \in Requests, Answer(r)
  PROVE  Inv'
<1> USE DEF Inv
<1> DEFINE K == MaxRetries + 1
<1>1. PICK applied \in (IF redis.up THEN 1 ELSE 0) .. K :
        redis' = CASE req[r].op = "incr" -> [redis EXCEPT !.counter = @ + applied]
                   [] req[r].op = "set"  -> [redis EXCEPT !.sample = @ \/ applied > 0]
                   [] OTHER              -> redis
  BY DEF Answer
<1>2. applied \in Nat /\ applied <= K /\ K \in Nat
  BY <1>1, ChaosAppAssumption
<1>3. redis \in [up : BOOLEAN, sample : BOOLEAN, counter : Nat] /\ req[r].op \in Ops
      /\ req[r] \in Req
  BY DEF TypeOK, Req
<1>4. /\ redis' \in [up : BOOLEAN, sample : BOOLEAN, counter : Nat]
      /\ redis'.counter = redis.counter + (IF req[r].op = "incr" THEN applied ELSE 0)
  <2>1. CASE req[r].op = "incr"
    <3>1. redis' = [redis EXCEPT !.counter = redis.counter + applied]
      BY <1>1, <2>1
    <3>2. redis.counter + applied \in Nat
      BY <1>2, <1>3
    <3>3. QED BY <1>3, <2>1, <3>1, <3>2
  <2>2. CASE req[r].op = "set"
    <3>1. redis' = [redis EXCEPT !.sample = redis.sample \/ applied > 0]
      BY <1>1, <2>2
    <3>2. CASE redis' = [redis EXCEPT !.sample = TRUE]
      <4>1. redis' \in [up : BOOLEAN, sample : BOOLEAN, counter : Nat]
            /\ redis'.counter = redis.counter /\ redis.counter \in Nat
        BY <1>3, <3>2
      <4>2. QED BY <2>2, <4>1
    <3>3. CASE redis' = [redis EXCEPT !.sample = FALSE]
      <4>1. redis' \in [up : BOOLEAN, sample : BOOLEAN, counter : Nat]
            /\ redis'.counter = redis.counter /\ redis.counter \in Nat
        BY <1>3, <3>3
      <4>2. QED BY <2>2, <4>1
    <3>4. QED
      <4>1. (redis.sample \/ applied > 0) = TRUE \/ (redis.sample \/ applied > 0) = FALSE
        OBVIOUS
      <4>2. QED BY <3>1, <3>2, <3>3, <4>1
  <2>3. CASE req[r].op \notin {"incr", "set"}
    BY <1>1, <1>3, <2>3
  <2>4. QED BY <2>1, <2>2, <2>3
<1>5. /\ req' \in [Requests -> Req] /\ \A q \in Requests \ {r} : req'[q] = req[q]
      /\ req'[r].pc = "answered" /\ req'[r].op = req[r].op /\ req'[r].path = req[r].path
  <2> DEFINE new == [req[r] EXCEPT !.pc = "answered", !.ok = redis.up, !.found = redis.sample]
  <2>1. req' = [req EXCEPT ![r].pc = "answered", ![r].ok = redis.up, ![r].found = redis.sample]
    BY DEF Answer
  <2>2. new \in Req /\ new.pc = "answered" /\ new.op = req[r].op /\ new.path = req[r].path
    BY <1>3 DEF Req
  <2>3. req \in [Requests -> Req]
    BY DEF TypeOK
  <2>4. req' = [req EXCEPT ![r] = new]
    BY <2>1, <2>3 DEF Req
  <2> HIDE DEF new
  <2>5. QED BY <2>2, <2>3, <2>4
<1>6. UNCHANGED <<redis_enabled, phase, client, health_cache, request_counter,
                  active_requests, redis_status, upAge, downAge>> /\ req[r].pc = "await"
  BY DEF Answer
<1>7. TypeOK'
  BY <1>4, <1>5, <1>6 DEF TypeOK
<1>8. OpsFit'
  BY <1>5, <1>6 DEF OpsFit
<1>9. CountedSet' = CountedSet /\ Uncounted' = Uncounted
  BY <1>5, <1>6 DEF CountedSet, Uncounted, Counted
<1>10. CASE req[r].op = "incr"
  <2>1. Incrementing' = Incrementing \ {r} /\ r \in Incrementing
    BY <1>5, <1>6, <1>10 DEF Incrementing
  <2>2. Cardinality(Incrementing)' = Cardinality(Incrementing) - 1
    BY <2>1, SetsAreFinite, FS_RemoveElement
  <2> DEFINE c == Cardinality(Incrementing)
  <2>3. K * (c - 1) = K * c - K /\ K * c \in Int
    BY <1>2, SetsAreFinite
  <2>4. redis'.counter = redis.counter + applied /\ redis.counter \in Nat
    BY <1>3, <1>4, <1>10
  <2>5. redis'.counter + K * (c - 1) <= redis.counter + K * c
    BY <1>2, <2>3, <2>4
  <2>6. redis.counter + K * c <= K * (request_counter \div SampleEvery)
    BY DEF RedisCounterIsSample
  <2>7. K * (request_counter \div SampleEvery) \in Int
    BY <1>2, SampleArithmetic DEF TypeOK
  <2>8. redis'.counter + K * (c - 1) <= K * (request_counter \div SampleEvery)
    BY <1>2, <2>3, <2>4, <2>5, <2>6, <2>7
  <2>9. RedisCounterIsSample'
    BY <1>6, <2>2, <2>8 DEF RedisCounterIsSample
  <2>10. QED BY <1>6, <1>7, <1>8, <1>9, <2>9
             DEF RoomLeft, ActiveRequestsExact, CountedSet
<1>11. CASE req[r].op # "incr"
  <2>1. Incrementing' = Incrementing
    BY <1>5, <1>6, <1>11 DEF Incrementing
  <2>2. redis'.counter = redis.counter
    BY <1>3, <1>4, <1>11
  <2>3. QED BY <1>6, <1>7, <1>8, <1>9, <2>1, <2>2, SetsKept
<1>12. QED BY <1>10, <1>11

LEMMA RespondsStep ==
  ASSUME Inv, NEW r \in Requests, Responds(r)
  PROVE  Inv'
<1> USE DEF Inv
<1>1. Steps(r, "respond", req[r].op) /\ req[r].pc \in {"handler", "answered"}
  BY RespondSteps DEF Responds
<1>2. UNCHANGED <<redis_enabled, redis, upAge, downAge, phase, client, request_counter,
                  active_requests>> /\ ShownOK'
  BY DEF Responds, UNCHANGED_env
<1>3. TypeOK'
  BY <1>1, <1>2 DEF TypeOK, Steps, ShownOK
<1>4. OpsFit'
  BY <1>1 DEF OpsFit, Steps
<1>5. CountedSet' = CountedSet /\ Incrementing' = Incrementing /\ Uncounted' \in SUBSET Uncounted
  BY <1>1 DEF Steps, CountedSet, Incrementing, Uncounted, Counted
<1>6. Cardinality(Uncounted)' <= Cardinality(Uncounted) /\ Cardinality(Uncounted)' \in Nat
  BY <1>5, SetsAreFinite, FS_Subset, FS_CardinalityType
<1>7. RoomLeft'
  BY <1>2, <1>6, SetsAreFinite, ChaosAppAssumption DEF RoomLeft, TypeOK
<1>8. QED BY <1>2, <1>3, <1>4, <1>5, <1>7 DEF ActiveRequestsExact, RedisCounterIsSample, CountedSet

LEMMA CallsStep ==
  ASSUME Inv, NEW r \in Requests, Calls(r)
  PROVE  Inv'
<1> USE DEF Inv
<1>1. PICK op \in {"ping", "get", "set"} :
        /\ Call(r, op)
        /\ req[r].path = IF op = "ping" THEN "/health" ELSE "/"
        /\ op = "get" => req[r].pc = "handler"
        /\ op = "set" => req[r].op = "get" /\ req[r].pc = "answered"
  BY DEF Calls, OpsFit
<1>2. Steps(r, "await", op) /\ req[r].pc \in {"handler", "answered"}
  BY <1>1, CallSteps DEF Calls, Ops
<1>3. UNCHANGED <<redis_enabled, redis, upAge, downAge, phase, client, request_counter,
                  active_requests>> /\ ShownOK'
  BY DEF Calls, UNCHANGED_env
<1>4. TypeOK'
  BY <1>2, <1>3 DEF TypeOK, Steps, ShownOK
<1>5. OpsFit'
  BY <1>1, <1>2 DEF OpsFit, Steps
<1>6. CountedSet' = CountedSet /\ Incrementing' = Incrementing
  BY <1>1, <1>2 DEF Steps, CountedSet, Incrementing, Counted
<1>7. Uncounted' = Uncounted
  BY <1>1, <1>2 DEF Steps, Uncounted, Counted
<1>8. QED BY <1>3, <1>4, <1>5, <1>6, <1>7, SetsKept

LEMMA CompleteStep ==
  ASSUME Inv, NEW r \in Requests, Complete(r)
  PROVE  Inv'
<1> USE DEF Inv
<1>1. req' = [req EXCEPT ![r] = IdleReq] /\ req[r].pc = "respond"
  BY DEF Complete
<1>2. req' \in [Requests -> Req] /\ req'[r].pc = "idle" /\ \A q \in Requests \ {r} : req'[q] = req[q]
  BY <1>1, IdleReqType DEF TypeOK
<1>3. UNCHANGED <<redis_enabled, redis, upAge, downAge, phase, client, request_counter,
                  health_cache, redis_status>>
  BY DEF Complete, UNCHANGED_env
<1>4. Uncounted' = Uncounted /\ Incrementing' = Incrementing /\ CountedSet' = CountedSet \ {r}
  BY <1>1, <1>2 DEF Uncounted, Incrementing, CountedSet, Counted
<1>5. Cardinality(CountedSet)' = IF Counted(r) THEN Cardinality(CountedSet) - 1
                                 ELSE Cardinality(CountedSet)
  BY <1>4, SetsAreFinite, FS_RemoveElement DEF CountedSet
<1>6. Counted(r) => Cardinality(CountedSet) # 0
  BY SetsAreFinite, FS_EmptySet DEF CountedSet
<1>7. ActiveRequestsExact' /\ active_requests' \in Nat
  BY <1>5, <1>6, SetsAreFinite DEF Complete, ActiveRequestsExact, CountedSet
<1>8. TypeOK'
  BY <1>2, <1>3, <1>7 DEF TypeOK
<1>9. OpsFit'
  BY <1>2 DEF OpsFit
<1>10. QED BY <1>3, <1>4, <1>7, <1>8, <1>9 DEF RoomLeft, RedisCounterIsSample

(* A request that is counted was one of those room was left for. *)
LEMMA RootCountStep ==
  ASSUME Inv, NEW r \in Requests, RootCount(r)
  PROVE  Inv'
<1> USE DEF Inv
<1> DEFINE K == MaxRetries + 1
           n == request_counter
<1>1. request_counter' = n + 1 /\ n \in Nat /\ K \in Nat
  BY ChaosAppAssumption DEF RootCount, TypeOK
<1>2. req[r].pc = "answered" /\ req[r].op \in {"get", "set"} /\ req[r].path = "/"
  BY DEF RootCount, HasSample, Answered, OpsFit
<1>3. PICK pc \in {"await", "respond"}, op \in {"get", "set", "incr"} :
        /\ Steps(r, pc, op)
        /\ pc = "await" => op = "incr" /\ (n + 1) % SampleEvery = 0
  BY <1>1, <1>2, CallSteps, RespondSteps DEF RootCount, Ops
<1>4. UNCHANGED <<redis_enabled, redis, upAge, downAge, phase, client, active_requests>>
      /\ ShownOK'
  BY DEF RootCount, UNCHANGED_env, ShownOK, TypeOK
<1>5. Uncounted' = Uncounted \ {r} /\ r \in Uncounted /\ CountedSet' = CountedSet
  BY <1>2, <1>3 DEF Steps, Uncounted, CountedSet, Counted
<1>6. Cardinality(Uncounted)' = Cardinality(Uncounted) - 1 /\ Cardinality(Uncounted)' \in Nat
  BY <1>5, SetsAreFinite, FS_RemoveElement, FS_CardinalityType
<1>7. RoomLeft'
  BY <1>1, <1>6, SetsAreFinite, ChaosAppAssumption DEF RoomLeft
<1>8. request_counter' \in 0 .. MaxRoots
  BY <1>1, <1>6, <1>7, SetsAreFinite, ChaosAppAssumption DEF RoomLeft
<1>9. TypeOK'
  BY <1>3, <1>4, <1>8 DEF TypeOK, Steps, ShownOK
<1>10. OpsFit'
  BY <1>2, <1>3 DEF OpsFit, Steps
<1> DEFINE c == Cardinality(Incrementing)
           d == n \div SampleEvery
           e == (n + 1) \div SampleEvery
<1>11. redis.counter \in Nat /\ c \in Nat /\ d \in Nat /\ d <= e /\ e \in Nat
       /\ redis.counter + K * c <= K * d
  BY <1>1, SetsAreFinite, SampleArithmetic DEF TypeOK, RedisCounterIsSample
<1>12. CASE pc = "await"
  <2>1. Incrementing' = Incrementing \cup {r} /\ r \notin Incrementing
    BY <1>2, <1>3, <1>12 DEF Steps, Incrementing
  <2>2. Cardinality(Incrementing)' = c + 1
    BY <2>1, SetsAreFinite, FS_AddElement
  <2>3. e = d + 1
    BY <1>1, <1>3, <1>12, SampleArithmetic
  <2> HIDE DEF c, d, e, K
  <2>4. K * (c + 1) = K * c + K /\ K * e = K * d + K /\ K * c \in Nat /\ K * d \in Nat
    BY <1>1, <1>11, <2>3
  <2>5. redis.counter + K * (c + 1) <= K * e
    BY <1>1, <1>11, <2>4
  <2>6. QED BY <1>1, <1>4, <1>5, <1>7, <1>9, <1>10, <2>2, <2>5
            DEF RedisCounterIsSample, ActiveRequestsExact, CountedSet, e, K
<1>13. CASE pc = "respond"
  <2>1. Incrementing' = Incrementing
    BY <1>2, <1>3, <1>13 DEF Steps, Incrementing
  <2> HIDE DEF c, d, e, K
  <2>2. K * d <= K * e /\ K * d \in Nat /\ K * e \in Nat /\ K * c \in Nat
    BY <1>1, <1>11
  <2>3. redis.counter + K * c <= K * e
    BY <1>1, <1>11, <2>2
  <2>4. QED BY <1>1, <1>4, <1>5, <1>7, <1>9, <1>10, <2>1, <2>3
            DEF RedisCounterIsSample, ActiveRequestsExact, CountedSet, c, e, K
<1>14. QED BY <1>12, <1>13

LEMMA InvStep == Inv /\ [Next]_vars => Inv'
<1> SUFFICES ASSUME Inv, [Next]_vars PROVE Inv'
  OBVIOUS
<1>1. ASSUME NEW r \in Requests, Handle(r) PROVE Inv'
  BY <1>1, HandleCases, RespondsStep, CallsStep, RootCountStep, CompleteStep DEF Inv
<1>2. CASE UNCHANGED vars
  BY <1>2 DEF vars, Inv, TypeOK, OpsFit, RoomLeft, ActiveRequestsExact, RedisCounterIsSample,
              Uncounted, Incrementing, Counted
<1>3. QED BY <1>1, <1>2, TickStep, FlipStep, LifespanStep, ArriveStep, AnswerStep DEF Next

LEMMA Invariance == Spec => []Inv
<1>1. QED BY InvInit, InvStep, PTL DEF Spec

-----------------------------------------------------------------------------
(* How old the news is.  An answered call tells what was so when it was     *)
(* answered, which is no longer ago than it was made; the cache tells what  *)
(* a ping did, as long as there is a client to ping with.                   *)

Clocks == (redis.up => upAge = 0) /\ (~redis.up => downAge = 0)

AnswersAreNews ==
  \A r \in Requests : req[r].pc = "answered" =>
    IF req[r].ok THEN upAge <= req[r].wait ELSE downAge <= req[r].wait

(* Before the process serves nothing is cached. *)
NotYetServing ==
  phase \in {"starting", "connecting"} =>
    health_cache.age = TTL + 1 /\ \A r \in Requests : req[r].pc = "idle"

CacheIsNews ==
  redis_enabled /\ client # "absent" /\ health_cache.age <= TTL =>
    IF health_cache.code = 200 THEN upAge <= health_cache.age + CallMax
    ELSE downAge <= health_cache.age + CallMax

News == Clocks /\ AnswersAreNews /\ NotYetServing /\ CacheIsNews

LEMMA NewsTypes ==
  ASSUME TypeOK
  PROVE  /\ upAge \in Nat /\ upAge <= OldestNews + 1
         /\ downAge \in Nat /\ downAge <= OldestNews + 1
         /\ health_cache.age \in Nat /\ health_cache.age <= TTL + 1
         /\ \A r \in Requests : req[r].wait \in Nat /\ req[r].wait <= CallMax
         /\ OldestNews = CallMax + TTL - 1 /\ OldestNews \in Nat
         /\ CallMax \in Nat \ {0} /\ TTL \in Nat \ {0}
<1>1. upAge \in 0 .. OldestNews + 1 /\ downAge \in 0 .. OldestNews + 1
      /\ health_cache.age \in 0 .. TTL + 1
      /\ \A r \in Requests : req[r].wait \in 0 .. CallMax
  BY DEF TypeOK, Req
<1>2. CallMax \in Nat \ {0} /\ TTL \in Nat \ {0} /\ OldestNews = CallMax + TTL - 1
  BY ChaosAppAssumption DEF OldestNews
<1>3. QED BY <1>1, <1>2

LEMMA NewsInit == Init => News
<1> SUFFICES ASSUME Init PROVE News
  OBVIOUS
<1>1. \A r \in Requests : req[r].pc = "idle"
  BY IdleReqType DEF Init
<1>2. health_cache.age = TTL + 1 /\ client = "absent"
  BY DEF Init, NoEntry
<1>3. Clocks
  BY DEF Init, Clocks
<1>4. QED BY <1>1, <1>2, <1>3 DEF News, AnswersAreNews, NotYetServing, CacheIsNews

LEMMA NewsTick == TypeOK /\ News /\ Tick => News'
<1> SUFFICES ASSUME TypeOK, News, Tick PROVE News'
  OBVIOUS
<1> USE DEF News
<1>1. redis' = redis /\ phase' = phase /\ client' = client /\ redis_enabled' = redis_enabled
  BY DEF Tick
<1>2. /\ upAge' \in Nat /\ upAge' <= upAge + 1 /\ (redis.up => upAge' = 0)
      /\ downAge' \in Nat /\ downAge' <= downAge + 1 /\ (~redis.up => downAge' = 0)
  <2>1. \A age \in Nat : Older(age, OldestNews + 1) \in Nat /\ Older(age, OldestNews + 1) <= age + 1
    BY NewsTypes DEF Older
  <2>2. QED BY <2>1, NewsTypes DEF Tick
<1>3. Clocks'
  BY <1>1, <1>2 DEF Clocks
<1>4. AnswersAreNews'
  <2> SUFFICES ASSUME NEW r \in Requests, req'[r].pc = "answered"
               PROVE  IF req'[r].ok THEN upAge' <= req'[r].wait ELSE downAge' <= req'[r].wait
    BY DEF AnswersAreNews
  <2>1. req[r] \in Req /\ req'[r].pc = req[r].pc
    BY DEF Tick, TypeOK, Req
  <2>2. req'[r] = [req[r] EXCEPT !.wait = req[r].wait + 1]
    BY <2>1 DEF Tick
  <2>3. req'[r].wait = req[r].wait + 1 /\ req'[r].ok = req[r].ok
    BY <2>1, <2>2 DEF Req
  <2>4. QED BY <2>1, <2>3, <1>2, NewsTypes DEF AnswersAreNews
<1>5. health_cache'.age = Older(health_cache.age, TTL + 1) /\ health_cache'.code = health_cache.code
  BY DEF Tick, TypeOK
<1>6. NotYetServing'
  <2>1. \A r \in Requests : req[r].pc = "idle" => req'[r].pc = "idle"
    BY DEF Tick
  <2>2. health_cache.age = TTL + 1 => health_cache'.age = TTL + 1
    BY <1>5, NewsTypes DEF Older
  <2>3. QED BY <1>1, <2>1, <2>2 DEF NotYetServing
<1>7. CacheIsNews'
  <2>1. health_cache'.age <= TTL => health_cache'.age = health_cache.age + 1 /\ health_cache.age <= TTL
    BY <1>5, NewsTypes DEF Older
  <2>2. QED BY <1>1, <1>2, <1>5, <2>1, NewsTypes DEF CacheIsNews
<1>8. QED BY <1>3, <1>4, <1>6, <1>7

(* What a handler does to the cache: nothing, or what it heard itself. *)
LEMMA HandleNews ==
  ASSUME Inv, AnswersAreNews, NEW r \in Requests, Handle(r)
  PROVE  /\ UNCHANGED <<redis_enabled, redis, upAge, downAge, phase, client>>
         /\ req[r].pc # "idle"
         /\ \A q \in Requests : req'[q].pc = "answered" => req'[q] = req[q]
         /\ \/ health_cache' = health_cache
            \/ redis_enabled /\ client # "absent" =>
                 /\ health_cache'.age = 0
                 /\ IF health_cache'.code = 200 THEN upAge <= CallMax ELSE downAge <= CallMax
<1> USE DEF Inv
<1>1. CASE Responds(r)
  <2>1. Steps(r, "respond", req[r].op)
    BY <1>1, RespondSteps DEF Responds
  <2>2. UNCHANGED <<redis_enabled, redis, upAge, downAge, phase, client>> /\ req[r].pc # "idle"
    BY <1>1 DEF Responds, UNCHANGED_env
  <2>3. \A q \in Requests : req'[q].pc = "answered" => req'[q] = req[q]
    BY <2>1 DEF Steps
  <2>4. CASE FinishPing(r)
    <3>1. /\ req[r].pc = "answered"
          /\ health_cache' = [age |-> 0, code |-> IF req[r].ok THEN 200 ELSE 503]
      BY <2>4 DEF FinishPing, Answered, UpdateCache
    <3>2. IF req[r].ok THEN upAge <= CallMax ELSE downAge <= CallMax
      BY <3>1, NewsTypes DEF AnswersAreNews
    <3>3. QED BY <2>2, <2>3, <3>1, <3>2
  <2>5. CASE HealthWithoutRedis(r) \/ HealthNotConnected(r)
    BY <2>2, <2>3, <2>5 DEF HealthWithoutRedis, HealthNotConnected
  <2>6. CASE ~FinishPing(r) /\ ~HealthWithoutRedis(r) /\ ~HealthNotConnected(r)
    <3>1. health_cache' = health_cache
      BY <2>6 DEF Handle, Livez, HealthFromCache, HealthPing, RootWithoutRedis, RootNotConnected,
                  RootFails, RootGet, RootSet, RootCount, FinishIncr, Complete
    <3>2. QED BY <2>2, <2>3, <3>1
  <2>7. QED BY <2>4, <2>5, <2>6
<1>2. CASE Calls(r)
  <2>1. PICK op \in Ops : Steps(r, "await", op)
    BY <1>2, CallSteps DEF Calls, Ops
  <2>2. UNCHANGED <<redis_enabled, redis, upAge, downAge, phase, client>> /\ req[r].pc # "idle"
    BY <1>2 DEF Calls, UNCHANGED_env
  <2>3. health_cache' = health_cache
    <3>1. ASSUME NEW code \in {200, 503}, Respond(r, code) PROVE FALSE
      BY <2>1, <3>1, RespondSteps DEF Steps
    <3>2. ~HealthWithoutRedis(r) /\ ~HealthNotConnected(r) /\ ~FinishPing(r)
      BY <3>1 DEF HealthWithoutRedis, HealthNotConnected, FinishPing
    <3>3. QED BY <3>2 DEF Handle, Livez, HealthFromCache, HealthPing, RootWithoutRedis,
                  RootNotConnected, RootFails, RootGet, RootSet, RootCount, FinishIncr, Complete
  <2>4. QED BY <2>1, <2>2, <2>3 DEF Steps
<1>3. CASE RootCount(r)
  <2>1. PICK pc \in {"await", "respond"}, op \in Ops : Steps(r, pc, op)
    <3>1. req[r].op \in Ops
      BY DEF TypeOK, Req
    <3>2. QED BY <1>3, <3>1, CallSteps, RespondSteps DEF RootCount, Ops
  <2>2. QED BY <1>3, <2>1 DEF RootCount, HasSample, Answered, UNCHANGED_env, Steps
<1>4. CASE Complete(r)
  <2>1. \A q \in Requests : req'[q] = IF q = r THEN IdleReq ELSE req[q]
    BY <1>4 DEF Complete, TypeOK
  <2>2. QED BY <1>4, <2>1, IdleReqType DEF Complete, UNCHANGED_env
<1>5. QED BY <1>1, <1>2, <1>3, <1>4, HandleCases

LEMMA NewsStep == Inv /\ News /\ [Next]_vars => News'
<1> SUFFICES ASSUME Inv, News, [Next]_vars PROVE News'
  OBVIOUS
<1> USE DEF Inv, News
<1>1. CASE RedisFlips
  <2>1. upAge' = 0 /\ downAge' = 0
        /\ UNCHANGED <<redis_enabled, phase, client, health_cache, req>>
    BY <1>1 DEF RedisFlips
  <2>2. QED BY <2>1, NewsTypes DEF Clocks, AnswersAreNews, NotYetServing, CacheIsNews
<1>2. CASE Lifespan
  <2>1. UNCHANGED <<redis_enabled, redis.up, upAge, downAge, health_cache>>
    BY <1>2, CancelledCallsBound
       DEF Lifespan, StartWithoutClient, Connect, Connected, Terminate, DrainEnds, Stop,
           UNCHANGED_env
  <2>2. \A r \in Requests : req'[r] = req[r] \/ req'[r].pc = "idle"
    BY <1>2, IdleReqType
       DEF Lifespan, StartWithoutClient, Connect, Connected, Terminate, DrainEnds, Stop
  <2>3. phase' \in {"starting", "connecting"} => phase = "starting"
    BY <1>2 DEF Lifespan, StartWithoutClient, Connect, Connected, Terminate, DrainEnds, Stop
  <2>4. client' # "absent" => client # "absent" \/ health_cache.age = TTL + 1
    BY <1>2 DEF Lifespan, StartWithoutClient, Connect, Connected, Terminate, DrainEnds, Stop,
                NotYetServing
  <2>5. Clocks' /\ AnswersAreNews'
    BY <2>1, <2>2 DEF Clocks, AnswersAreNews
  <2>6. NotYetServing'
    BY <2>1, <2>2, <2>3 DEF NotYetServing
  <2>7. CacheIsNews'
    BY <2>1, <2>4, NewsTypes DEF CacheIsNews
  <2>8. QED BY <2>5, <2>6, <2>7
<1>3. ASSUME NEW r \in Requests, NEW path \in Paths, Arrive(r, path) PROVE News'
  <2>1. UNCHANGED <<redis_enabled, redis, upAge, downAge, health_cache, phase, client>>
        /\ phase = "serving"
    BY <1>3 DEF Arrive, UNCHANGED_env
  <2>2. \A q \in Requests : req'[q].pc = "answered" => req'[q] = req[q]
    <3>1. req' = [req EXCEPT ![r] = [IdleReq EXCEPT !.pc = "handler", !.path = path]]
      BY <1>3 DEF Arrive
    <3>2. [IdleReq EXCEPT !.pc = "handler", !.path = path].pc = "handler"
      BY IdleReqType DEF Req
    <3>3. QED BY <3>1, <3>2 DEF TypeOK
  <2>3. QED BY <2>1, <2>2 DEF Clocks, AnswersAreNews, NotYetServing, CacheIsNews
<1>4. ASSUME NEW r \in Requests, Answer(r) PROVE News'
  <2>1. UNCHANGED <<redis_enabled, upAge, downAge, health_cache, phase, client>>
        /\ req[r].pc = "await"
    BY <1>4 DEF Answer
  <2>2. redis'.up = redis.up
    BY <1>4 DEF Answer, TypeOK
  <2>3. /\ \A q \in Requests \ {r} : req'[q] = req[q]
        /\ req'[r].ok = redis.up /\ req'[r].wait = req[r].wait
    BY <1>4 DEF Answer, TypeOK, Req
  <2>4. AnswersAreNews'
    <3>1. IF req'[r].ok THEN upAge' <= req'[r].wait ELSE downAge' <= req'[r].wait
      BY <2>1, <2>3, NewsTypes DEF Clocks
    <3>2. QED BY <2>1, <2>3, <3>1 DEF AnswersAreNews
  <2>5. Clocks'
    BY <2>1, <2>2 DEF Clocks
  <2>6. NotYetServing' /\ CacheIsNews'
    BY <2>1 DEF NotYetServing, CacheIsNews
  <2>7. QED BY <2>4, <2>5, <2>6
<1>5. ASSUME NEW r \in Requests, Handle(r) PROVE News'
  <2>1. Clocks' /\ AnswersAreNews'
    BY <1>5, HandleNews DEF Clocks, AnswersAreNews
  <2>2. NotYetServing'
    BY <1>5, HandleNews DEF NotYetServing
  <2>3. CacheIsNews'
    <3>1. CASE health_cache' = health_cache
      BY <1>5, <3>1, HandleNews DEF CacheIsNews
    <3>2. CASE health_cache' # health_cache
      <4>1. UNCHANGED <<redis_enabled, upAge, downAge, client>>
        BY <1>5, HandleNews
      <4>2. redis_enabled /\ client # "absent" =>
              /\ health_cache'.age = 0
              /\ IF health_cache'.code = 200 THEN upAge <= CallMax ELSE downAge <= CallMax
        BY <1>5, <3>2, HandleNews
      <4>3. QED BY <4>1, <4>2, NewsTypes DEF CacheIsNews
    <3>3. QED BY <3>1, <3>2
  <2>4. QED BY <2>1, <2>2, <2>3
<1>6. CASE UNCHANGED vars
  BY <1>6 DEF vars, Clocks, AnswersAreNews, NotYetServing, CacheIsNews
<1>7. QED BY <1>1, <1>2, <1>3, <1>4, <1>5, <1>6, NewsTick DEF Next

LEMMA NewsInvariance == Spec => [](Inv /\ News)
<1>1. QED BY InvInit, NewsInit, InvStep, NewsStep, PTL DEF Spec

-----------------------------------------------------------------------------
(* The variables stay in their types: no more requests are counted than     *)
(* were admitted, and the gauge never goes below zero.                      *)
THEOREM ChaosAppIsTyped == Spec => []TypeOK
<1>1. Inv => TypeOK
  BY DEF Inv
<1>2. QED BY <1>1, Invariance, PTL

(* The gauge is the number of root requests in progress, for any number of  *)
(* them, answered or cancelled.                                             *)
THEOREM GaugeIsExact == Spec => []ActiveRequestsExact
<1>1. Inv => ActiveRequestsExact
  BY DEF Inv
<1>2. QED BY <1>1, Invariance, PTL

(* Redis never counts more than its share of the requests, but for the      *)
(* retries of its calls.                                                    *)
THEOREM SampleIsBounded == Spec => []RedisCounterIsSample
<1>1. Inv => RedisCounterIsSample
  BY DEF Inv
<1>2. QED BY <1>1, Invariance, PTL

(* A health answer is no older than the longest call and the cache lifetime *)
(* together, however calls overtake each other.                             *)
THEOREM HealthIsNews == Spec => HealthAnswerIsNews
<1> DEFINE Fresh(r) ==
      (/\ redis_enabled /\ client # "absent"
       /\ req[r].path = "/health"
       /\ req[r].pc # "respond" /\ req'[r].pc = "respond")
        => \/ req'[r].code = 200 /\ upAge <= OldestNews
           \/ req'[r].code = 503 /\ downAge <= OldestNews
<1>1. Inv /\ News /\ [Next]_vars => [\A r \in Requests : Fresh(r)]_vars
  <2> SUFFICES ASSUME Inv, News, Next, NEW r \in Requests, redis_enabled, client # "absent",
                      req[r].path = "/health", req[r].pc # "respond", req'[r].pc = "respond"
               PROVE  \/ req'[r].code = 200 /\ upAge <= OldestNews
                      \/ req'[r].code = 503 /\ downAge <= OldestNews
    OBVIOUS
  <2> USE DEF Inv, News
  <2>1. Handle(r)
    <3>1. ASSUME NEW q \in Requests \ {r}, Handle(q) PROVE FALSE
      <4>1. CASE Responds(q) \/ Calls(q) \/ RootCount(q)
        <5>1. req'[r] = req[r]
          BY <3>1, <4>1 DEF Responds, Respond, Calls, Call, RootCount, TypeOK
        <5>2. QED BY <5>1
      <4>2. CASE Complete(q)
        BY <3>1, <4>2 DEF Complete, TypeOK
      <4>3. QED BY <3>1, <4>1, <4>2, HandleCases
    <3>2. ASSUME NEW q \in Requests, Answer(q) PROVE FALSE
      BY <3>2 DEF Answer, TypeOK, Req
    <3>3. ASSUME NEW q \in Requests, NEW path \in Paths, Arrive(q, path) PROVE FALSE
      BY <3>3, IdleReqType DEF Arrive, TypeOK, Req
    <3>4. ASSUME Tick PROVE FALSE
      <4>1. req[r] \in Req
        BY DEF TypeOK
      <4>2. req'[r] = IF req[r].pc \in {"await", "answered"}
                      THEN [req[r] EXCEPT !.wait = req[r].wait + 1] ELSE req[r]
        BY <3>4 DEF Tick
      <4>3. QED BY <4>1, <4>2 DEF Req
    <3>5. ~RedisFlips /\ ~Lifespan
      BY IdleReqType DEF RedisFlips, Lifespan, StartWithoutClient, Connect, Connected, Terminate,
                         DrainEnds, Stop
    <3>6. QED BY <3>1, <3>2, <3>3, <3>4, <3>5 DEF Next
  <2>2. ~Calls(r) /\ ~Complete(r) /\ ~RootCount(r)
    <3>1. ~Calls(r)
      BY CallSteps DEF Calls, Steps, Ops
    <3>2. ~Complete(r)
      BY DEF Complete
    <3>3. ~RootCount(r)
      BY DEF RootCount, HasSample, Answered, OpsFit
    <3>4. QED BY <3>1, <3>2, <3>3
  <2>3. HealthFromCache(r) \/ FinishPing(r)
    <3>1. ~Livez(r) /\ ~HealthWithoutRedis(r) /\ ~HealthNotConnected(r)
          /\ ~RootWithoutRedis(r) /\ ~RootNotConnected(r)
      BY DEF Livez, HealthWithoutRedis, HealthNotConnected, RootWithoutRedis, RootNotConnected,
             Handling
    <3>2. ~RootFails(r) /\ ~FinishIncr(r)
      BY DEF RootFails, FinishIncr, Answered, OpsFit
    <3>3. ~HealthPing(r) /\ ~RootGet(r) /\ ~RootSet(r)
      BY CallSteps DEF HealthPing, RootGet, RootSet, Steps, Ops
    <3>4. QED BY <2>1, <2>2, <3>1, <3>2, <3>3 DEF Handle
  <2>4. CASE HealthFromCache(r)
    <3>1. health_cache.code \in {200, 503} /\ health_cache.age < TTL
      BY <2>4 DEF HealthFromCache, CacheValid, TypeOK
    <3>2. req'[r].code = health_cache.code
      BY <2>4, <3>1, RespondSteps DEF HealthFromCache
    <3>3. QED BY <3>1, <3>2, NewsTypes DEF CacheIsNews
  <2>5. CASE FinishPing(r)
    <3> DEFINE code == IF req[r].ok THEN 200 ELSE 503
    <3>1. req'[r].code = code /\ req[r].pc = "answered"
      BY <2>5, RespondSteps DEF FinishPing, Answered
    <3>2. QED BY <3>1, NewsTypes DEF AnswersAreNews
  <2>6. QED BY <2>3, <2>4, <2>5
<1>2. QED BY <1>1, NewsInvariance, PTL DEF Spec, HealthAnswerIsNews
=============================================================================
