--------------------- MODULE ExternalSliPublisherProofs ---------------------
(***************************************************************************)
(* Theorems about ExternalSliPublisher, for every window length, catch-up   *)
(* limit, not_before, number of overlapping runs, and number of failures.   *)
(***************************************************************************)
EXTENDS ExternalSliPublisher, FiniteSetTheorems, TLAPS

USE StepAssumption, MaxCatchupAssumption, NotBeforeAssumption, NoneAssumption,
    StartTimeAssumption, MaxTimeAssumption, MaxAbortsAssumption

-----------------------------------------------------------------------------
(* Facts about the windows and the samples (SliSamples).                    *)

(* A time rounded down to the window grid is at most that time.             *)
LEMMA FloorBelow ==
  ASSUME NEW t \in Int
  PROVE  FloorDatetime(t) \in Int /\ FloorDatetime(t) <= t
BY StepAssumption DEF FloorDatetime

(* A run starts at an integer time, whatever state it loaded.               *)
LEMMA NextStartType ==
  ASSUME NEW last \in Int \cup {None}, NEW now \in Int
  PROVE  NextStart(last, now) \in Int
<1>1. CASE last # None
  BY <1>1 DEF NextStart
<1>2. CASE last = None /\ NotBefore # None
  <2>1. FloorDatetime(NotBefore) \in Int
    BY <1>2, FloorBelow, NotBeforeAssumption
  <2>2. QED BY <1>2, <2>1, StepAssumption DEF NextStart, CeilDatetime
<1>3. CASE last = None /\ NotBefore = None
  BY <1>3, FloorBelow, StepAssumption DEF NextStart, TargetEnd
<1>4. QED BY <1>1, <1>2, <1>3

(* As many windows as fit before the end are counted, up to MaxCatchup.     *)
LEMMA WindowCountIs ==
  ASSUME NEW start \in Int, NEW end \in Int
  PROVE  LET closed == (end - start) \div Step
         IN  WindowCount(start, end) =
               IF end < start THEN 0
               ELSE IF closed < MaxCatchup THEN closed ELSE MaxCatchup
<1> DEFINE closed == (end - start) \div Step
           S == {k \in 1 .. MaxCatchup : start + k * Step <= end}
<1>1. WindowCount(start, end) = Cardinality(S)
  BY DEF WindowCount
<1>2. CASE end < start
  <2>1. \A k \in 1 .. MaxCatchup : k * Step >= 0
    BY <1>2, StepAssumption, MaxCatchupAssumption
  <2>2. S = {}
    BY <1>2, <2>1, StepAssumption, MaxCatchupAssumption
  <2>3. QED BY <1>1, <1>2, <2>2, FS_EmptySet
<1>3. CASE start <= end
  <2>1. /\ closed \in Nat /\ closed * Step <= end - start
        /\ end - start < closed * Step + Step
    BY <1>3, StepAssumption
  <2> HIDE DEF closed
  <2>2. \A k \in Nat : k <= closed => k * Step <= closed * Step
    BY <2>1, StepAssumption
  <2>3. \A k \in Nat : k > closed => k * Step >= closed * Step + Step
    BY <2>1, StepAssumption
  <2>4. \A k \in Nat : start + k * Step <= end <=> k <= closed
    BY <2>1, <2>2, <2>3, StepAssumption
  <2> DEFINE top == IF closed < MaxCatchup THEN closed ELSE MaxCatchup
  <2>5. top \in Nat /\ \A k \in Int : k \in 1 .. top <=> k \in 1 .. MaxCatchup /\ k <= closed
    BY <2>1, MaxCatchupAssumption
  <2>6. S = 1 .. top
    BY <2>4, <2>5, MaxCatchupAssumption
  <2> HIDE DEF top, S
  <2>7. Cardinality(1 .. top) = top
    BY <2>5, FS_Interval
  <2>8. WindowCount(start, end) = top
    BY <1>1, <2>6, <2>7
  <2>9. QED BY <1>3, <2>8 DEF top, closed
<1>4. QED BY <1>2, <1>3

(* The windows of a run are contiguous closed windows: as many as fit       *)
(* before the end, and at most MaxCatchup.                                  *)
LEMMA WindowCountFits ==
  ASSUME NEW start \in Int, NEW end \in Int
  PROVE  /\ WindowCount(start, end) \in Nat
         /\ WindowCount(start, end) <= MaxCatchup
         /\ WindowCount(start, end) > 0 =>
              start + WindowCount(start, end) * Step <= end
<1> DEFINE closed == (end - start) \div Step
<1>1. CASE end < start
  BY <1>1, WindowCountIs, MaxCatchupAssumption
<1>2. CASE start <= end
  <2>1. closed \in Nat /\ closed * Step <= end - start
    BY <1>2, StepAssumption
  <2>2. closed < MaxCatchup => WindowCount(start, end) = closed
    BY <1>2, WindowCountIs
  <2>3. ~(closed < MaxCatchup) => WindowCount(start, end) = MaxCatchup
    BY <1>2, WindowCountIs
  <2>4. ~(closed < MaxCatchup) => MaxCatchup * Step <= closed * Step
    BY <2>1, StepAssumption, MaxCatchupAssumption
  <2> HIDE DEF closed
  <2>5. QED BY <2>1, <2>2, <2>3, <2>4, StepAssumption, MaxCatchupAssumption
<1>3. QED BY <1>1, <1>2

(* The window grid: the multiples of the window length.                     *)
OnGrid(t) == \E q \in Int : t = q * Step

(* Times that are rounded are on the grid, and whole windows stay on it.    *)
LEMMA GridArithmetic ==
  ASSUME NEW t \in Int
  PROVE  /\ OnGrid(FloorDatetime(t))
         /\ OnGrid(CeilDatetime(t))
         /\ OnGrid(t) => \A k \in Int : OnGrid(t + k * Step)
<1>1. FloorDatetime(t) = (t \div Step) * Step /\ t \div Step \in Int
  BY StepAssumption DEF FloorDatetime
<1>2. \A q \in Int : q * Step + Step = (q + 1) * Step
  BY StepAssumption
<1>3. \A q, k \in Int : q * Step + k * Step = (q + k) * Step
  BY StepAssumption
<1>4. OnGrid(FloorDatetime(t)) /\ OnGrid(FloorDatetime(t) + Step)
  <2>1. FloorDatetime(t) + Step = (t \div Step + 1) * Step /\ t \div Step + 1 \in Int
    BY <1>1, <1>2
  <2>2. QED BY <1>1, <2>1, Zenon DEF OnGrid
<1>5. OnGrid(t) => \A k \in Int : OnGrid(t + k * Step)
  BY <1>3 DEF OnGrid
<1>6. QED BY <1>4, <1>5 DEF CeilDatetime

(* Between two times on the grid the windows are all there are, up to       *)
(* MaxCatchup: what is counted ends at the end, or it is a full batch.      *)
LEMMA WindowCountDrains ==
  ASSUME NEW start \in Int, NEW end \in Int, OnGrid(start), OnGrid(end),
         WindowCount(start, end) > 0
  PROVE  \/ start + WindowCount(start, end) * Step = end
         \/ WindowCount(start, end) = MaxCatchup
<1>1. PICK p \in Int : start = p * Step
  BY DEF OnGrid
<1>2. PICK q \in Int : end = q * Step
  BY DEF OnGrid
<1>3. end - start = (q - p) * Step
  BY <1>1, <1>2, StepAssumption
<1>4. \A d \in Int : (d * Step) \div Step = d
  BY StepAssumption
<1>5. (end - start) \div Step = q - p
  BY <1>3, <1>4
<1>6. WindowCount(start, end) \in {0, q - p, MaxCatchup}
  BY <1>5, WindowCountIs
<1>7. start + (q - p) * Step = end
  BY <1>3
<1>8. QED BY <1>6, <1>7

(* Every probe result is well typed.                                        *)
LEMMA ProbeEndpointType ==
  ASSUME NEW outcome \in [status : Nat \cup {None}, elapsed_us : Int]
  PROVE  ProbeEndpoint(outcome) \in ProbeResult
BY DEF ProbeEndpoint, ProbeResult, ElapsedMs

(* Combining keeps the type and the soundness of samples, and adds the      *)
(* denominators.                                                            *)
LEMMA CombineSound ==
  ASSUME NEW a \in SliSample, NEW b \in SliSample
  PROVE  /\ CombineSliSamples(a, b) \in SliSample
         /\ CombineSliSamples(a, b).availability_total =
              a.availability_total + b.availability_total
         /\ SoundSample(a) /\ SoundSample(b) =>
              SoundSample(CombineSliSamples(a, b))
<1> DEFINE c == CombineSliSamples(a, b)
<1>1. \A le \in LatencyBuckets :
        /\ a.latency_buckets[le] \in Nat
        /\ b.latency_buckets[le] \in Nat
        /\ c.latency_buckets[le] = a.latency_buckets[le] + b.latency_buckets[le]
  BY DEF SliSample, CombineSliSamples
<1>2. c \in SliSample
  BY <1>1 DEF SliSample, CombineSliSamples
<1>3. /\ c.availability_good = a.availability_good + b.availability_good
      /\ c.availability_total = a.availability_total + b.availability_total
      /\ c.latency_total = a.latency_total + b.latency_total
  BY DEF CombineSliSamples
<1>4. SoundSample(a) /\ SoundSample(b) => SoundSample(c)
  <2> SUFFICES ASSUME SoundSample(a), SoundSample(b) PROVE SoundSample(c)
    OBVIOUS
  <2> HIDE DEF c
  <2>1. \A x, y \in LatencyBuckets :
          x <= y => c.latency_buckets[x] <= c.latency_buckets[y]
    BY <1>1 DEF SoundSample
  <2>2. \A x \in LatencyBuckets : c.latency_buckets[x] <= c.availability_good
    BY <1>1, <1>3 DEF SoundSample, SliSample
  <2>3. QED BY <2>1, <2>2, <1>3 DEF SoundSample, SliSample
<1>5. QED BY <1>2, <1>3, <1>4

(* What a run writes accounts for exactly its windows, and is sound.        *)
LEMMA RunSamplesSound ==
  ASSUME NEW n \in Nat \ {0}, NEW result \in ProbeResult
  PROVE  /\ RunSamples(n, result) \in SliSample
         /\ RunSamples(n, result).availability_total = n
         /\ SoundSample(RunSamples(n, result))
<1> DEFINE p == ProbeResultToSliSamples(result)
           m == MissedWindowSamples(IF n > 1 THEN n - 1 ELSE 0)
<1>1. LatencyBuckets \subseteq Nat
  BY DEF LatencyBuckets
<1>2. p \in SliSample /\ p.availability_total = 1 /\ SoundSample(p)
  BY <1>1 DEF ProbeResultToSliSamples, SliSample, SoundSample, ProbeResult
<1>3. m \in SliSample /\ m.availability_total = n - 1 /\ SoundSample(m)
  BY DEF MissedWindowSamples, EmptyLatencyBuckets, SliSample, SoundSample
<1> HIDE DEF p, m
<1>4. QED BY <1>2, <1>3, CombineSound DEF RunSamples, p, m

(* The windows a run fixes are well typed, and those that are there fit.    *)
LEMMA WindowsFit ==
  ASSUME NEW last \in Int \cup {None}, NEW now \in Nat
  PROVE  LET w == WindowsToPublish(last, now)
         IN  /\ w.start = NextStart(last, now) /\ w.start \in Int
             /\ w.n \in Nat
             /\ w.n > 0 => w.start + w.n * Step <= now
<1>1. NextStart(last, now) \in Int
  BY NextStartType
<1>2. TargetEnd(now) \in Int /\ TargetEnd(now) <= now
  BY FloorBelow DEF TargetEnd
<1>3. LET n == WindowCount(NextStart(last, now), TargetEnd(now))
      IN  n \in Nat /\ (n > 0 => NextStart(last, now) + n * Step <= TargetEnd(now))
  BY <1>1, <1>2, WindowCountFits
<1>4. QED BY <1>1, <1>2, <1>3 DEF WindowsToPublish

-----------------------------------------------------------------------------
TypeInv == TypeOK /\ HasWindow

LEMMA TypeInit == Init => TypeInv
<1> USE DEF Init, TypeInv, TypeOK, HasWindow, IdleRun, NoResult, Run, PC, ProbeResult
<1>1. NoSamples \in SliSample
  BY DEF NoSamples, SliSample, EmptyLatencyBuckets
<1>2. QED BY <1>1

LEMMA TypeStep == TypeInv /\ [Next]_vars => TypeInv'
<1> SUFFICES ASSUME TypeOK, HasWindow, [Next]_vars PROVE TypeOK' /\ HasWindow'
  BY DEF TypeInv
<1>t. IdleRun \in Run /\ IdleRun.pc = "idle"
  BY DEF IdleRun, Run, PC, NoResult, ProbeResult
<1>1. CASE Tick
  BY <1>1 DEF Tick, TypeOK, HasWindow
<1>2. ASSUME NEW i \in Invocations, Begin(i) PROVE TypeOK' /\ HasWindow'
  BY <1>2 DEF Begin, TypeOK, HasWindow, Run, PC
<1>3. ASSUME NEW i \in Invocations, Load(i) PROVE TypeOK' /\ HasWindow'
  <2> DEFINE w == WindowsToPublish(blob, run[i].now)
  <2>1. w.start \in Int /\ w.n \in Nat
    BY WindowsFit DEF TypeOK, Run
  <2> HIDE DEF w
  <2>2. run' = [run EXCEPT ![i].pc = "heartbeat", ![i].start = w.start, ![i].n = w.n]
    BY <1>3 DEF Load, w
  <2>3. run' \in [Invocations -> Run]
    BY <2>1, <2>2 DEF TypeOK, Run, PC
  <2>4. \A j \in Invocations :
          run'[j].pc \in {"probe", "write", "save"} => j # i /\ run'[j] = run[j]
    BY <2>2 DEF TypeOK, Run
  <2>5. QED BY <1>3, <2>3, <2>4 DEF Load, TypeOK, HasWindow
<1>4. ASSUME NEW i \in Invocations, Heartbeat(i) PROVE TypeOK' /\ HasWindow'
  <2>1. CASE run[i].n = 0
    <3>1. run' = [run EXCEPT ![i] = IdleRun]
      BY <1>4, <2>1 DEF Heartbeat, TypeOK
    <3>2. QED BY <1>4, <1>t, <3>1 DEF Heartbeat, TypeOK, HasWindow
  <2>2. CASE run[i].n # 0
    <3>1. run' = [run EXCEPT ![i].pc = "probe"]
      BY <1>4, <2>2 DEF Heartbeat, TypeOK
    <3>2. QED BY <1>4, <2>2, <3>1 DEF Heartbeat, TypeOK, HasWindow, Run, PC
  <2>3. QED BY <2>1, <2>2
<1>5. ASSUME NEW i \in Invocations, Probe(i) PROVE TypeOK' /\ HasWindow'
  <2>1. PICK r \in ProbeResult :
          run' = [run EXCEPT ![i].pc = "write", ![i].result = r]
    <3>1. PICK outcome \in ProbeOutcomes :
            run' = [run EXCEPT ![i].pc = "write", ![i].result = ProbeEndpoint(outcome)]
      BY <1>5 DEF Probe
    <3>2. ProbeEndpoint(outcome) \in ProbeResult
      BY ProbeEndpointType, ProbeOutcomesAssumption
    <3>3. QED BY <3>1, <3>2
  <2>2. run' \in [Invocations -> Run]
    BY <2>1 DEF TypeOK, Run, PC
  <2>3. \A j \in Invocations : run'[j].n = run[j].n /\ (j # i => run'[j] = run[j])
    BY <2>1 DEF TypeOK, Run
  <2>4. QED BY <1>5, <2>2, <2>3 DEF Probe, TypeOK, HasWindow
<1>6. ASSUME NEW i \in Invocations, RemoteWrite(i) PROVE TypeOK' /\ HasWindow'
  <2> DEFINE s == RunSamples(run[i].n, run[i].result)
             b == [now |-> run[i].now, start |-> run[i].start,
                   n |-> run[i].n, samples |-> s]
  <2>1. run[i] \in Run /\ run[i].n > 0
    BY <1>6 DEF RemoteWrite, TypeOK, HasWindow
  <2>2. s \in SliSample
    BY <2>1, RunSamplesSound DEF Run
  <2> HIDE DEF s
  <2>3. b \in Batch
    BY <2>1, <2>2 DEF Batch, Run
  <2>4. CombineSliSamples(ledger, s) \in SliSample
    BY <2>2, CombineSound DEF TypeOK
  <2>5. /\ ledger' = CombineSliSamples(ledger, s)
        /\ batches' = batches \cup {b}
    BY <1>6 DEF RemoteWrite, s
  <2> HIDE DEF b
  <2>6. QED BY <1>6, <2>3, <2>4, <2>5 DEF RemoteWrite, TypeOK, HasWindow, Run, PC
<1>7. ASSUME NEW i \in Invocations, Save(i) PROVE TypeOK' /\ HasWindow'
  <2>1. EndOf(run[i]) \in Int
    BY DEF EndOf, TypeOK, Run
  <2>2. QED BY <1>7, <2>1, <1>t DEF Save, TypeOK, HasWindow
<1>8. ASSUME NEW i \in Invocations, Abort(i) PROVE TypeOK' /\ HasWindow'
  <2>1. run[i].n \in Nat
    BY DEF TypeOK, Run
  <2>2. QED BY <1>8, <2>1, <1>t DEF Abort, TypeOK, HasWindow
<1>9. CASE UNCHANGED vars
  BY <1>9 DEF vars, TypeOK, HasWindow
<1>10. QED
  BY <1>1, <1>2, <1>3, <1>4, <1>5, <1>6, <1>7, <1>8, <1>9 DEF Next, Proceed

(* The publisher's variables keep their types.                              *)
THEOREM TypeCorrect == Spec => []TypeOK
<1>1. TypeInv => TypeOK
  BY DEF TypeInv
<1>2. QED BY <1>1, TypeInit, TypeStep, PTL DEF Spec

-----------------------------------------------------------------------------
(* No window is skipped.  The cursor alone is not inductive: a run carries  *)
(* an old cursor across other runs' steps, so the invariant says of every   *)
(* run that what lies before its windows is accounted for, and, once its    *)
(* samples are accepted, its windows too.  Batches are never retracted, so  *)
(* no other run can undo that.                                              *)
CoveredUpTo(p) == \A t \in Origin .. p - 1 : Covered(t)

Planned(i) == run[i].pc \in {"heartbeat", "probe", "write", "save"}

CoverInv ==
  NotBefore # None =>
    /\ blob # None => CoveredUpTo(blob)
    /\ \A i \in Invocations : Planned(i) => CoveredUpTo(run[i].start)
    /\ \A i \in Invocations :
         run[i].pc = "save" => CoveredUpTo(EndOf(run[i]))

LEMMA CoverInit == Init => CoverInv
BY DEF Init, CoverInv, IdleRun, Planned

(* What is covered stays covered when batches are only added.               *)
LEMMA CoveredGrows ==
  ASSUME batches \subseteq batches', NEW p, CoveredUpTo(p)
  PROVE  \A t \in Origin .. p - 1 : Covered(t)'
BY DEF CoveredUpTo, Covered, EndOf

LEMMA CoverStep == TypeInv /\ CoverInv /\ [Next]_vars => CoverInv'
<1> SUFFICES ASSUME TypeOK, HasWindow, CoverInv, [Next]_vars, NotBefore # None
             PROVE  /\ blob' # None => CoveredUpTo(blob)'
                    /\ \A i \in Invocations : Planned(i)' => CoveredUpTo(run[i].start)'
                    /\ \A i \in Invocations :
                         run'[i].pc = "save" => CoveredUpTo(EndOf(run[i]))'
  BY DEF TypeInv, CoverInv
<1>g. Origin \in Int
  BY FloorBelow DEF Origin, CeilDatetime
<1>p. ASSUME batches \subseteq batches', NEW p, CoveredUpTo(p)
      PROVE  \A t \in Origin .. p - 1 : Covered(t)'
  BY <1>p, CoveredGrows
(* A step that changes no batch and not the blob, and after which every     *)
(* planned run was planned before.                                          *)
<1>q. ASSUME UNCHANGED <<batches, blob>>,
             \A i \in Invocations :
               Planned(i)' => /\ Planned(i)
                              /\ run'[i].start = run[i].start
                              /\ run'[i].n = run[i].n
                              /\ run'[i].pc = "save" => run[i].pc = "save"
      PROVE  /\ blob' # None => CoveredUpTo(blob)'
             /\ \A i \in Invocations : Planned(i)' => CoveredUpTo(run[i].start)'
             /\ \A i \in Invocations :
                  run'[i].pc = "save" => CoveredUpTo(EndOf(run[i]))'
  BY <1>q DEF CoverInv, CoveredUpTo, Covered, EndOf, Planned
<1>1. CASE Tick
  BY <1>1, <1>q DEF Tick, Planned
<1>2. ASSUME NEW i \in Invocations, Begin(i)
      PROVE  \A j \in Invocations :
               Planned(j)' => /\ Planned(j)
                              /\ run'[j].start = run[j].start
                              /\ run'[j].n = run[j].n
                              /\ run'[j].pc = "save" => run[j].pc = "save"
  BY <1>2 DEF Begin, Planned, TypeOK, Run
<1>3. ASSUME NEW i \in Invocations, Load(i)
      PROVE  /\ blob' # None => CoveredUpTo(blob)'
             /\ \A j \in Invocations : Planned(j)' => CoveredUpTo(run[j].start)'
             /\ \A j \in Invocations :
                  run'[j].pc = "save" => CoveredUpTo(EndOf(run[j]))'
  <2> DEFINE w == WindowsToPublish(blob, run[i].now)
  <2>1. w.start = IF blob # None THEN blob ELSE Origin
    BY DEF WindowsToPublish, NextStart, Origin
  <2>2. \A t \in Origin .. w.start - 1 : Covered(t)
    BY <2>1, <1>g DEF CoverInv, CoveredUpTo
  <2> HIDE DEF w
  <2>3. /\ run' = [run EXCEPT ![i].pc = "heartbeat", ![i].start = w.start, ![i].n = w.n]
        /\ UNCHANGED <<blob, batches>>
    BY <1>3 DEF Load, w
  <2>4. \A j \in Invocations : j # i => run'[j] = run[j]
    BY <2>3 DEF TypeOK
  <2>5. run'[i].pc = "heartbeat" /\ run'[i].start = w.start
    BY <2>3 DEF TypeOK, Run
  <2>6. QED BY <2>2, <2>3, <2>4, <2>5
            DEF CoverInv, CoveredUpTo, Covered, EndOf, Planned
<1>4. ASSUME NEW i \in Invocations, Heartbeat(i)
      PROVE  \A j \in Invocations :
               Planned(j)' => /\ Planned(j)
                              /\ run'[j].start = run[j].start
                              /\ run'[j].n = run[j].n
                              /\ run'[j].pc = "save" => run[j].pc = "save"
  <2>1. CASE run[i].n = 0
    <3>1. run' = [run EXCEPT ![i] = IdleRun]
      BY <1>4, <2>1 DEF Heartbeat, TypeOK
    <3>2. QED BY <3>1 DEF Planned, TypeOK, IdleRun
  <2>2. CASE run[i].n # 0
    <3>1. run' = [run EXCEPT ![i].pc = "probe"] /\ run[i].pc = "heartbeat"
      BY <1>4, <2>2 DEF Heartbeat, TypeOK
    <3>2. QED BY <3>1 DEF Planned, TypeOK, Run
  <2>3. QED BY <2>1, <2>2
<1>5. ASSUME NEW i \in Invocations, Probe(i)
      PROVE  \A j \in Invocations :
               Planned(j)' => /\ Planned(j)
                              /\ run'[j].start = run[j].start
                              /\ run'[j].n = run[j].n
                              /\ run'[j].pc = "save" => run[j].pc = "save"
  BY <1>5 DEF Probe, Planned, TypeOK, Run
<1>6. ASSUME NEW i \in Invocations, RemoteWrite(i)
      PROVE  /\ blob' # None => CoveredUpTo(blob)'
             /\ \A j \in Invocations : Planned(j)' => CoveredUpTo(run[j].start)'
             /\ \A j \in Invocations :
                  run'[j].pc = "save" => CoveredUpTo(EndOf(run[j]))'
  <2> DEFINE b == [now |-> run[i].now, start |-> run[i].start, n |-> run[i].n,
                   samples |-> RunSamples(run[i].n, run[i].result)]
  <2>1. /\ batches' = batches \cup {b}
        /\ run' = [run EXCEPT ![i].pc = "save"]
        /\ run[i].pc = "write" /\ UNCHANGED blob
    BY <1>6 DEF RemoteWrite
  <2>2. b.start = run[i].start /\ EndOf(b) = EndOf(run[i])
    BY DEF EndOf
  <2> HIDE DEF b
  <2>3. \A j \in Invocations :
          /\ run'[j].start = run[j].start
          /\ run'[j].n = run[j].n
          /\ Planned(j)' => Planned(j)
          /\ j # i => run'[j] = run[j]
    BY <2>1 DEF TypeOK, Run, Planned
  <2>4. \A p : CoveredUpTo(p) => \A t \in Origin .. p - 1 : Covered(t)'
    BY <2>1, <1>p
  <2>5. CoveredUpTo(run[i].start)
    BY <2>1 DEF CoverInv, Planned
  <2>6. \A t \in Origin .. EndOf(run[i]) - 1 : Covered(t)'
    <3> SUFFICES ASSUME NEW t \in Origin .. EndOf(run[i]) - 1 PROVE Covered(t)'
      OBVIOUS
    <3>1. run[i].start \in Int /\ EndOf(run[i]) \in Int
      BY DEF TypeOK, Run, EndOf
    <3>2. CASE t < run[i].start
      BY <3>1, <3>2, <2>1, <2>5, <1>g, <1>p
    <3>3. CASE run[i].start <= t
      <4>1. b.start <= t /\ t < EndOf(b)
        BY <3>1, <3>3, <2>2, <1>g
      <4>2. b \in batches'
        BY <2>1
      <4>3. QED BY <4>1, <4>2 DEF Covered, EndOf
    <3>4. QED BY <3>1, <3>2, <3>3, <1>g
  <2>7. \A j \in Invocations : EndOf(run'[j]) = EndOf(run[j])
    BY <2>3 DEF EndOf
  <2>8. blob' # None => CoveredUpTo(blob)'
    BY <2>1, <2>4 DEF CoverInv, CoveredUpTo
  <2>9. \A j \in Invocations : Planned(j)' => CoveredUpTo(run[j].start)'
    BY <2>3, <2>4 DEF CoverInv, CoveredUpTo
  <2>10. \A j \in Invocations : run'[j].pc = "save" => CoveredUpTo(EndOf(run[j]))'
    BY <2>3, <2>4, <2>6, <2>7 DEF CoverInv, CoveredUpTo, EndOf
  <2>11. QED BY <2>8, <2>9, <2>10
<1>7. ASSUME NEW i \in Invocations, Save(i)
      PROVE  /\ blob' # None => CoveredUpTo(blob)'
             /\ \A j \in Invocations : Planned(j)' => CoveredUpTo(run[j].start)'
             /\ \A j \in Invocations :
                  run'[j].pc = "save" => CoveredUpTo(EndOf(run[j]))'
  <2>1. \A j \in Invocations : j # i => run'[j] = run[j]
    BY <1>7 DEF Save, TypeOK
  <2>2. run'[i].pc = "idle"
    BY <1>7 DEF Save, TypeOK, IdleRun
  <2>3. blob' = EndOf(run[i]) /\ CoveredUpTo(EndOf(run[i])) /\ UNCHANGED batches
    BY <1>7 DEF Save, CoverInv
  <2>4. QED BY <2>1, <2>2, <2>3 DEF CoverInv, CoveredUpTo, Covered, EndOf, Planned
<1>8. ASSUME NEW i \in Invocations, Abort(i)
      PROVE  \A j \in Invocations :
               Planned(j)' => /\ Planned(j)
                              /\ run'[j].start = run[j].start
                              /\ run'[j].n = run[j].n
                              /\ run'[j].pc = "save" => run[j].pc = "save"
  BY <1>8 DEF Abort, Planned, TypeOK, IdleRun
<1>9. CASE UNCHANGED vars
  BY <1>9, <1>q DEF vars, Planned
<1>10. ASSUME NEW i \in Invocations, Begin(i) \/ Heartbeat(i) \/ Probe(i) \/ Abort(i)
       PROVE  UNCHANGED <<batches, blob>>
  BY <1>10 DEF Begin, Heartbeat, Probe, Abort
<1>11. QED
  BY <1>1, <1>2, <1>3, <1>4, <1>5, <1>6, <1>7, <1>8, <1>9, <1>10, <1>q
     DEF Next, Proceed

(* Whatever fails and however many runs overlap, every instant between      *)
(* not_before and the cursor lies in a window the workspace was told about. *)
THEOREM NoWindowIsSkipped == Spec => []NoWindowSkipped
<1>1. TypeInv /\ CoverInv => NoWindowSkipped
  BY DEF CoverInv, CoveredUpTo, NoWindowSkipped
<1>2. QED BY <1>1, TypeInit, TypeStep, CoverInit, CoverStep, PTL DEF Spec

-----------------------------------------------------------------------------
(* Nothing is accounted for before it closed.  The cursor a run saves and   *)
(* the windows it writes were fixed from a clock reading that is past by    *)
(* then, so the invariant bounds each run's windows by its own reading.     *)
ClosedInv ==
  /\ NothingBeforeItCloses
  /\ \A i \in Invocations : run[i].pc # "idle" => run[i].now <= clock
  /\ \A i \in Invocations :
       Planned(i) /\ run[i].n > 0 => EndOf(run[i]) <= run[i].now

LEMMA ClosedInit == Init => ClosedInv
BY DEF Init, ClosedInv, NothingBeforeItCloses, IdleRun, Planned

LEMMA ClosedStep == TypeInv /\ ClosedInv /\ [Next]_vars => ClosedInv'
<1> SUFFICES ASSUME TypeOK, HasWindow, ClosedInv, [Next]_vars PROVE ClosedInv'
  BY DEF TypeInv
<1> USE DEF ClosedInv, NothingBeforeItCloses, Planned
<1>t. \A i \in Invocations : run[i] \in Run
  BY DEF TypeOK
<1>1. CASE Tick
  <2>1. clock \in Nat /\ \A b \in batches : b.now \in Nat
    BY DEF TypeOK, Batch
  <2>2. blob # None => blob \in Int
    BY DEF TypeOK
  <2>3. \A i \in Invocations : run[i].now \in Nat
    BY <1>t DEF Run
  <2>4. QED BY <1>1, <2>1, <2>2, <2>3 DEF Tick, EndOf
<1>2. ASSUME NEW i \in Invocations, Begin(i) PROVE ClosedInv'
  BY <1>2, <1>t DEF Begin, TypeOK, Run, EndOf
<1>3. ASSUME NEW i \in Invocations, Load(i) PROVE ClosedInv'
  <2> DEFINE w == WindowsToPublish(blob, run[i].now)
  <2>1. w.n > 0 => w.start + w.n * Step <= run[i].now
    BY <1>t, WindowsFit DEF TypeOK, Run
  <2> HIDE DEF w
  <2>2. /\ run' = [run EXCEPT ![i].pc = "heartbeat", ![i].start = w.start, ![i].n = w.n]
        /\ run[i].pc = "load" /\ UNCHANGED <<clock, blob, batches>>
    BY <1>3 DEF Load, w
  <2>3. \A j \in Invocations : j # i => run'[j] = run[j]
    BY <2>2 DEF TypeOK
  <2>4. /\ run'[i].now = run[i].now
        /\ run'[i].start = w.start
        /\ run'[i].n = w.n
    BY <2>2 DEF TypeOK, Run
  <2>5. QED BY <2>1, <2>2, <2>3, <2>4 DEF EndOf
<1>4. ASSUME NEW i \in Invocations, Heartbeat(i) PROVE ClosedInv'
  <2>1. CASE run[i].n = 0
    <3>1. run' = [run EXCEPT ![i] = IdleRun] /\ UNCHANGED <<clock, blob, batches>>
      BY <1>4, <2>1 DEF Heartbeat, TypeOK
    <3>2. QED BY <3>1 DEF TypeOK, IdleRun, EndOf
  <2>2. CASE run[i].n # 0
    <3>1. /\ run' = [run EXCEPT ![i].pc = "probe"] /\ run[i].pc = "heartbeat"
          /\ UNCHANGED <<clock, blob, batches>>
      BY <1>4, <2>2 DEF Heartbeat, TypeOK
    <3>2. QED BY <3>1, <1>t DEF TypeOK, Run, EndOf
  <2>3. QED BY <2>1, <2>2
<1>5. ASSUME NEW i \in Invocations, Probe(i) PROVE ClosedInv'
  BY <1>5, <1>t DEF Probe, TypeOK, Run, EndOf
<1>6. ASSUME NEW i \in Invocations, RemoteWrite(i) PROVE ClosedInv'
  <2> DEFINE b == [now |-> run[i].now, start |-> run[i].start, n |-> run[i].n,
                   samples |-> RunSamples(run[i].n, run[i].result)]
  <2>1. /\ batches' = batches \cup {b}
        /\ run' = [run EXCEPT ![i].pc = "save"]
        /\ run[i].pc = "write" /\ UNCHANGED <<clock, blob>>
    BY <1>6 DEF RemoteWrite
  <2>2. /\ EndOf(b) = EndOf(run[i])
        /\ b.now = run[i].now
    BY DEF EndOf
  <2> HIDE DEF b
  <2>3. EndOf(b) <= b.now /\ b.now <= clock
    BY <2>1, <2>2 DEF HasWindow
  <2>4. \A j \in Invocations :
          /\ run'[j].now = run[j].now
          /\ run'[j].start = run[j].start
          /\ run'[j].n = run[j].n
          /\ j # i => run'[j] = run[j]
    BY <2>1 DEF TypeOK, Run
  <2>5. QED BY <2>1, <2>3, <2>4 DEF EndOf
<1>7. ASSUME NEW i \in Invocations, Save(i) PROVE ClosedInv'
  <2>1. /\ blob' = EndOf(run[i]) /\ EndOf(run[i]) <= run[i].now
        /\ run[i].now <= clock
    BY <1>7 DEF Save, HasWindow
  <2>2. EndOf(run[i]) \in Int /\ run[i].now \in Nat /\ clock \in Nat
    BY <1>t DEF TypeOK, Run, EndOf
  <2>3. \A j \in Invocations : j # i => run'[j] = run[j]
    BY <1>7 DEF Save, TypeOK
  <2>4. run'[i].pc = "idle"
    BY <1>7 DEF Save, TypeOK, IdleRun
  <2>5. QED BY <1>7, <2>1, <2>2, <2>3, <2>4 DEF Save, EndOf
<1>8. ASSUME NEW i \in Invocations, Abort(i) PROVE ClosedInv'
  BY <1>8, <1>t DEF Abort, TypeOK, IdleRun, EndOf
<1>9. CASE UNCHANGED vars
  BY <1>9 DEF vars, EndOf
<1>10. QED
  BY <1>1, <1>2, <1>3, <1>4, <1>5, <1>6, <1>7, <1>8, <1>9 DEF Next, Proceed

(* No window enters the workspace, and the cursor passes none, before it    *)
(* has closed.                                                              *)
THEOREM NothingIsPublishedEarly == Spec => []NothingBeforeItCloses
<1>1. ClosedInv => NothingBeforeItCloses
  BY DEF ClosedInv
<1>2. QED BY <1>1, TypeInit, TypeStep, ClosedInit, ClosedStep, PTL DEF Spec

-----------------------------------------------------------------------------
(* The sums in the workspace stay ratios: only RemoteWrite changes them, by *)
(* adding the sound samples of a run that has a window.                     *)
LEMMA RatiosInit == Init => SliRatiosWellFormed
BY DEF Init, SliRatiosWellFormed, SoundSample, NoSamples, EmptyLatencyBuckets

LEMMA RatiosStep ==
  TypeInv /\ SliRatiosWellFormed /\ [Next]_vars => SliRatiosWellFormed'
<1> SUFFICES ASSUME TypeOK, HasWindow, SliRatiosWellFormed, [Next]_vars
             PROVE  SliRatiosWellFormed'
  BY DEF TypeInv
<1>1. ASSUME NEW i \in Invocations, RemoteWrite(i) PROVE SliRatiosWellFormed'
  <2> DEFINE s == RunSamples(run[i].n, run[i].result)
  <2>1. run[i].n \in Nat \ {0} /\ run[i].result \in ProbeResult
    BY <1>1 DEF RemoteWrite, TypeOK, HasWindow, Run
  <2>2. s \in SliSample /\ SoundSample(s)
    BY <2>1, RunSamplesSound
  <2>3. ledger' = CombineSliSamples(ledger, s)
    BY <1>1 DEF RemoteWrite
  <2> HIDE DEF s
  <2>4. SoundSample(ledger')
    BY <2>2, <2>3, CombineSound DEF TypeOK, SliRatiosWellFormed
  <2>5. QED BY <2>4 DEF SliRatiosWellFormed, SoundSample
<1>2. CASE UNCHANGED ledger
  BY <1>2 DEF SliRatiosWellFormed, SoundSample
<1>3. QED
  BY <1>1, <1>2
     DEF Next, Proceed, Tick, Begin, Load, Heartbeat, Probe, Save, Abort, vars

(* However many batches are written and repeated, the ratios the SLIs are   *)
(* computed from never exceed one.                                          *)
THEOREM RatiosAreRatios == Spec => []SliRatiosWellFormed
BY TypeInit, TypeStep, RatiosInit, RatiosStep, PTL DEF Spec

-----------------------------------------------------------------------------
(* The ledger balances.  With one run at a time nobody moves the cursor     *)
(* between a run's load and its save, so the run's windows start at it.     *)
BalanceInv ==
  /\ LedgerBalances
  /\ NotBefore # None =>
       \A i \in Invocations :
         Invocations = {i} /\ Planned(i) => run[i].start = Cursor

LEMMA BalanceInit == Init => BalanceInv
<1>1. NotBefore # None => Origin \in Int
  BY FloorBelow DEF Origin, CeilDatetime
<1>2. QED BY <1>1 DEF Init, BalanceInv, LedgerBalances, Cursor, InFlight, Planned, IdleRun, NoSamples

LEMMA BalanceStep == TypeInv /\ BalanceInv /\ [Next]_vars => BalanceInv'
<1> SUFFICES ASSUME TypeOK, HasWindow, BalanceInv, [Next]_vars, NotBefore # None,
                    NEW i \in Invocations, Invocations = {i}
             PROVE  /\ Step * ledger'.availability_total =
                         (Cursor' - Origin) + Step * (orphaned' + InFlight'[i])
                    /\ Planned(i)' => run'[i].start = Cursor'
  BY DEF TypeInv, BalanceInv, LedgerBalances, Origin, CeilDatetime, FloorDatetime
<1>g. Origin \in Int
  BY FloorBelow DEF Origin, CeilDatetime
<1>t. /\ run[i] \in Run /\ run \in [Invocations -> Run]
      /\ ledger.availability_total \in Nat /\ orphaned \in Nat
      /\ Cursor \in Int
  BY <1>g DEF TypeOK, SliSample, Cursor
<1>b. /\ Step * ledger.availability_total =
           (Cursor - Origin) + Step * (orphaned + InFlight[i])
      /\ Planned(i) => run[i].start = Cursor
  BY DEF BalanceInv, LedgerBalances
<1>f. /\ InFlight[i] = IF run[i].pc = "save" THEN run[i].n ELSE 0
      /\ InFlight'[i] = IF run'[i].pc = "save" THEN run'[i].n ELSE 0
  BY DEF InFlight
<1> USE DEF Planned
<1>1. CASE Tick
  BY <1>1, <1>b, <1>f DEF Tick, Cursor
<1>2. CASE Begin(i)
  BY <1>2, <1>t, <1>b, <1>f DEF Begin, Cursor, Run
<1>3. CASE Load(i)
  <2> DEFINE w == WindowsToPublish(blob, run[i].now)
  <2>1. w.start = Cursor
    BY DEF WindowsToPublish, NextStart, Origin, Cursor
  <2> HIDE DEF w
  <2>2. /\ run'[i].pc = "heartbeat" /\ run'[i].start = w.start
        /\ run[i].pc = "load"
        /\ UNCHANGED <<blob, ledger, orphaned>>
    BY <1>3, <1>t DEF Load, w, Run
  <2>3. QED BY <2>1, <2>2, <1>b, <1>f DEF Cursor
<1>4. CASE Heartbeat(i)
  <2>1. /\ run[i].pc = "heartbeat" /\ UNCHANGED <<blob, ledger, orphaned>>
        /\ \/ run'[i].pc = "idle"
           \/ run'[i].pc = "probe" /\ run'[i].start = run[i].start
    BY <1>4, <1>t DEF Heartbeat, IdleRun, Run
  <2>2. QED BY <2>1, <1>b, <1>f DEF Cursor
<1>5. CASE Probe(i)
  <2>1. /\ run[i].pc = "probe" /\ UNCHANGED <<blob, ledger, orphaned>>
        /\ run'[i].pc = "write" /\ run'[i].start = run[i].start
    BY <1>5, <1>t DEF Probe, Run
  <2>2. QED BY <2>1, <1>b, <1>f DEF Cursor
<1>6. CASE RemoteWrite(i)
  <2> DEFINE s == RunSamples(run[i].n, run[i].result)
  <2>1. run[i].n \in Nat \ {0} /\ run[i].result \in ProbeResult
    BY <1>6, <1>t DEF RemoteWrite, HasWindow, Run
  <2>2. s \in SliSample /\ s.availability_total = run[i].n
    BY <2>1, RunSamplesSound
  <2>3. /\ ledger' = CombineSliSamples(ledger, s)
        /\ run[i].pc = "write" /\ UNCHANGED <<blob, orphaned>>
        /\ run'[i].pc = "save" /\ run'[i].start = run[i].start /\ run'[i].n = run[i].n
    BY <1>6, <1>t DEF RemoteWrite, Run
  <2> HIDE DEF s
  <2>4. ledger'.availability_total = ledger.availability_total + run[i].n
    BY <2>2, <2>3, CombineSound DEF TypeOK
  <2>5. Step * (ledger.availability_total + run[i].n)
          = Step * ledger.availability_total + Step * run[i].n
    BY <2>1, <1>t
  <2>6. Step * (orphaned + run[i].n) = Step * orphaned + Step * run[i].n
    BY <2>1, <1>t
  <2>7. InFlight[i] = 0 /\ InFlight'[i] = run[i].n /\ Cursor' = Cursor
    BY <2>3, <1>f DEF Cursor
  <2>8. Step * ledger.availability_total = (Cursor - Origin) + Step * orphaned
    BY <2>7, <1>b, <1>t
  <2>9. QED BY <2>1, <2>3, <2>4, <2>5, <2>6, <2>7, <2>8, <1>b, <1>t, <1>g
<1>7. CASE Save(i)
  <2>1. /\ run[i].pc = "save" /\ blob' = EndOf(run[i]) /\ run'[i].pc = "idle"
        /\ UNCHANGED <<ledger, orphaned>>
    BY <1>7, <1>t DEF Save, IdleRun
  <2>2. /\ run[i].n \in Nat /\ run[i].start = Cursor
        /\ EndOf(run[i]) \in Int /\ EndOf(run[i]) = Cursor + run[i].n * Step
    BY <2>1, <1>t, <1>b DEF EndOf, Run
  <2>3. Cursor' = Cursor + run[i].n * Step
    BY <2>1, <2>2 DEF Cursor
  <2>4. Step * (orphaned + run[i].n) = Step * orphaned + run[i].n * Step
    BY <2>2, <1>t
  <2>5. InFlight[i] = run[i].n /\ InFlight'[i] = 0
    BY <2>1, <1>f
  <2>6. QED BY <2>1, <2>2, <2>3, <2>4, <2>5, <1>b, <1>t, <1>g
<1>8. CASE Abort(i)
  <2>1. /\ run'[i].pc = "idle" /\ UNCHANGED <<blob, ledger>>
        /\ orphaned' = IF run[i].pc = "save" THEN orphaned + run[i].n ELSE orphaned
    BY <1>8, <1>t DEF Abort, IdleRun
  <2>2. orphaned' = orphaned + InFlight[i] /\ InFlight'[i] = 0
    BY <2>1, <1>f, <1>t
  <2>3. QED BY <2>1, <2>2, <1>b, <1>t, <1>f DEF Cursor, Run
<1>9. CASE UNCHANGED vars
  BY <1>9, <1>b, <1>f DEF vars, Cursor
<1>10. QED
  BY <1>1, <1>2, <1>3, <1>4, <1>5, <1>6, <1>7, <1>8, <1>9 DEF Next, Proceed

(* With one run at a time the SLI denominators count every window up to the *)
(* cursor exactly once, plus the windows of batches whose save failed.      *)
THEOREM LedgerIsBalanced == Spec => []LedgerBalances
<1>1. BalanceInv => LedgerBalances
  BY DEF BalanceInv
<1>2. QED BY <1>1, TypeInit, TypeStep, BalanceInit, BalanceStep, PTL DEF Spec

-----------------------------------------------------------------------------
(* The refinement.  RemoteWrite is the ledger's Account, Save its Commit,   *)
(* Tick its TimePasses; every other step is a stutter.  That a run never    *)
(* starts before Origin is one more fact the invariant must carry.          *)
OriginInv ==
  NotBefore # None =>
    /\ blob # None => Origin <= blob
    /\ \A i \in Invocations : Planned(i) => Origin <= run[i].start

LEMMA OriginInit == Init => OriginInv
BY DEF Init, OriginInv, IdleRun, Planned

LEMMA OriginStep == TypeInv /\ OriginInv /\ [Next]_vars => OriginInv'
<1> SUFFICES ASSUME TypeOK, HasWindow, OriginInv, [Next]_vars, NotBefore # None
             PROVE  /\ blob' # None => Origin <= blob'
                    /\ \A i \in Invocations : Planned(i)' => Origin <= run'[i].start
  BY DEF TypeInv, OriginInv, Origin, CeilDatetime, FloorDatetime
<1>g. Origin \in Int
  BY FloorBelow DEF Origin, CeilDatetime
<1>o. /\ blob # None => Origin <= blob
      /\ \A i \in Invocations : Planned(i) => Origin <= run[i].start
  BY DEF OriginInv
<1> DEFINE Goal == /\ blob' # None => Origin <= blob'
                   /\ \A i \in Invocations : Planned(i)' => Origin <= run'[i].start
<1> USE DEF Planned
<1>1. CASE Tick
  BY <1>1, <1>o DEF Tick
<1>2. ASSUME NEW i \in Invocations, Begin(i) PROVE Goal
  BY <1>2, <1>o DEF Begin, TypeOK, Run
<1>3. ASSUME NEW i \in Invocations, Load(i) PROVE Goal
  <2> DEFINE w == WindowsToPublish(blob, run[i].now)
  <2>1. Origin <= w.start
    BY <1>o, <1>g DEF WindowsToPublish, NextStart, Origin
  <2> HIDE DEF w
  <2>2. /\ run' = [run EXCEPT ![i].pc = "heartbeat", ![i].start = w.start, ![i].n = w.n]
        /\ UNCHANGED blob
    BY <1>3 DEF Load, w
  <2>3. \A j \in Invocations : j # i => run'[j] = run[j]
    BY <2>2 DEF TypeOK
  <2>4. run'[i].start = w.start
    BY <2>2 DEF TypeOK, Run
  <2>5. QED BY <2>1, <2>2, <2>3, <2>4, <1>o
<1>4. ASSUME NEW i \in Invocations, Heartbeat(i) PROVE Goal
  <2>1. CASE run[i].n = 0
    <3>1. run' = [run EXCEPT ![i] = IdleRun] /\ UNCHANGED blob
      BY <1>4, <2>1 DEF Heartbeat, TypeOK
    <3>2. QED BY <3>1, <1>o DEF TypeOK, IdleRun
  <2>2. CASE run[i].n # 0
    <3>1. run' = [run EXCEPT ![i].pc = "probe"] /\ run[i].pc = "heartbeat"
          /\ UNCHANGED blob
      BY <1>4, <2>2 DEF Heartbeat, TypeOK
    <3>2. QED BY <3>1, <1>o DEF TypeOK, Run
  <2>3. QED BY <2>1, <2>2
<1>5. ASSUME NEW i \in Invocations, Probe(i) PROVE Goal
  BY <1>5, <1>o DEF Probe, TypeOK, Run
<1>6. ASSUME NEW i \in Invocations, RemoteWrite(i) PROVE Goal
  BY <1>6, <1>o DEF RemoteWrite, TypeOK, Run
<1>7. ASSUME NEW i \in Invocations, Save(i) PROVE Goal
  <2>1. blob' = EndOf(run[i]) /\ Origin <= run[i].start
    BY <1>7, <1>o DEF Save
  <2>2. run[i].start \in Int /\ run[i].n * Step \in Nat
    BY DEF TypeOK, Run
  <2>3. Origin <= EndOf(run[i])
    BY <2>1, <2>2, <1>g DEF EndOf
  <2>4. QED BY <1>7, <2>1, <2>3, <1>o DEF Save, TypeOK, IdleRun
<1>8. ASSUME NEW i \in Invocations, Abort(i) PROVE Goal
  BY <1>8, <1>o DEF Abort, TypeOK, IdleRun
<1>9. CASE UNCHANGED vars
  BY <1>9, <1>o DEF vars
<1>10. QED
  BY <1>1, <1>2, <1>3, <1>4, <1>5, <1>6, <1>7, <1>8, <1>9 DEF Next, Proceed

LEMMA LedgerInit == NotBefore # None /\ Init => Ledger!LedgerInit
<1>1. NotBefore # None => Origin \in Int
  BY FloorBelow DEF Origin, CeilDatetime
<1>2. QED BY <1>1 DEF Init, Ledger!LedgerInit, Accounted, Cursor

(* Being accounted for and being covered is the same thing.                 *)
LEMMA AccountedIsCovered ==
  ASSUME TypeOK
  PROVE  \A t \in Int : t \in Accounted <=> Covered(t)
<1>1. \A b \in batches : b.start \in Int /\ EndOf(b) \in Int
  BY DEF TypeOK, Batch, EndOf
<1>2. QED BY <1>1 DEF Accounted, Covered

LEMMA LedgerStep ==
  /\ NotBefore # None
  /\ TypeInv /\ CoverInv /\ ClosedInv /\ OriginInv
  /\ [Next]_vars
  => [Ledger!LedgerNext]_(Ledger!ledgerVars)
<1> SUFFICES ASSUME NotBefore # None, TypeOK, HasWindow, CoverInv, ClosedInv,
                    OriginInv, [Next]_vars
             PROVE  [Ledger!LedgerNext]_(Ledger!ledgerVars)
  BY DEF TypeInv
<1>g. Origin \in Int
  BY FloorBelow DEF Origin, CeilDatetime
<1>a. ASSUME NEW p \in Int, CoveredUpTo(p) PROVE Ledger!AccountedUpTo(p)
  BY <1>a, <1>g, AccountedIsCovered DEF Ledger!AccountedUpTo, CoveredUpTo
<1>s. UNCHANGED <<clock, blob, batches>> => UNCHANGED Ledger!ledgerVars
  BY DEF Ledger!ledgerVars, Accounted, Cursor, EndOf, Origin, CeilDatetime, FloorDatetime
<1>r. ASSUME NEW i \in Invocations, run[i].pc \in {"write", "save"}
      PROVE  /\ run[i].start \in Origin .. clock
             /\ EndOf(run[i]) \in Origin .. clock
             /\ run[i].start < EndOf(run[i])
             /\ CoveredUpTo(run[i].start)
  <2>1. /\ run[i].start \in Int /\ run[i].n \in Nat /\ run[i].n > 0
        /\ run[i].now \in Nat /\ clock \in Nat
    BY <1>r DEF TypeOK, Run, HasWindow
  <2>2. /\ Origin <= run[i].start
        /\ EndOf(run[i]) <= run[i].now
        /\ run[i].now <= clock
        /\ CoveredUpTo(run[i].start)
    BY <1>r, <2>1 DEF OriginInv, ClosedInv, CoverInv, Planned
  <2>3. run[i].n * Step \in Nat \ {0}
    BY <2>1
  <2>4. QED BY <2>1, <2>2, <2>3, <1>g DEF EndOf
<1>1. CASE Tick
  <2>1. UNCHANGED <<blob, batches>> /\ clock' = clock + 1
    BY <1>1 DEF Tick
  <2>2. Accounted' = Accounted /\ Cursor' = Cursor
    BY <2>1 DEF Accounted, Cursor, EndOf, Origin, CeilDatetime, FloorDatetime
  <2>3. QED BY <2>1, <2>2 DEF Ledger!LedgerNext, Ledger!TimePasses
<1>2. ASSUME NEW i \in Invocations,
             Begin(i) \/ Load(i) \/ Heartbeat(i) \/ Probe(i) \/ Abort(i)
      PROVE  UNCHANGED <<clock, blob, batches>>
  BY <1>2 DEF Begin, Load, Heartbeat, Probe, Abort
<1>3. ASSUME NEW i \in Invocations, RemoteWrite(i) PROVE Ledger!Account
  <2> DEFINE b == [now |-> run[i].now, start |-> run[i].start, n |-> run[i].n,
                   samples |-> RunSamples(run[i].n, run[i].result)]
             from == run[i].start
             to == EndOf(run[i])
  <2>1. /\ batches' = batches \cup {b} /\ UNCHANGED <<clock, blob>>
        /\ run[i].pc = "write"
    BY <1>3 DEF RemoteWrite
  <2>2. b.start = from /\ EndOf(b) = to
    BY DEF EndOf
  <2>3. /\ from \in Origin .. clock /\ to \in Origin .. clock /\ from < to
        /\ Ledger!AccountedUpTo(from)
    BY <2>1, <1>r, <1>a, <1>g
  <2> HIDE DEF b
  <2>4. Accounted' = Accounted \cup (b.start .. EndOf(b) - 1)
    BY <2>1 DEF Accounted, EndOf
  <2>5. Cursor' = Cursor
    BY <2>1 DEF Cursor, Origin, CeilDatetime, FloorDatetime
  <2> HIDE DEF from, to
  <2>6. QED BY <2>1, <2>2, <2>3, <2>4, <2>5 DEF Ledger!Account
<1>4. ASSUME NEW i \in Invocations, Save(i) PROVE Ledger!Commit
  <2> DEFINE p == EndOf(run[i])
  <2>1. run[i].pc = "save" /\ blob' = p /\ UNCHANGED <<clock, batches>>
    BY <1>4 DEF Save
  <2>2. p \in Origin .. clock /\ CoveredUpTo(p)
    BY <2>1, <1>r DEF CoverInv
  <2> HIDE DEF p
  <2>3. Ledger!AccountedUpTo(p)
    BY <2>2, <1>a, <1>g
  <2>4. Accounted' = Accounted
    BY <2>1 DEF Accounted, EndOf
  <2>5. Cursor' = p
    BY <2>1, <2>2, <1>g DEF Cursor
  <2>6. QED BY <2>1, <2>2, <2>3, <2>4, <2>5 DEF Ledger!Commit
<1>5. CASE UNCHANGED vars
  BY <1>5, <1>s DEF vars
<1>6. QED
  BY <1>1, <1>2, <1>3, <1>4, <1>5, <1>s DEF Next, Proceed, Ledger!LedgerNext

(* Under not_before the publisher, with its crashes and overlapping runs,   *)
(* implements the at-least-once ledger.                                     *)
THEOREM PublisherImplementsLedger ==
  ASSUME NotBefore # None
  PROVE  Spec => ImplementsLedger
<1>1. Init => Ledger!LedgerInit
  BY LedgerInit
<1>2. TypeInv /\ CoverInv /\ ClosedInv /\ OriginInv /\ [Next]_vars
        => [Ledger!LedgerNext]_(Ledger!ledgerVars)
  BY LedgerStep
<1>3. QED
  BY <1>1, <1>2, TypeInit, TypeStep, CoverInit, CoverStep, ClosedInit, ClosedStep,
     OriginInit, OriginStep, PTL DEF Spec, ImplementsLedger, Ledger!LedgerSpec
-----------------------------------------------------------------------------
(* A run that finishes drains.  The cursor and every start lie on the       *)
(* window grid, and a run keeps the number of windows it was to publish;    *)
(* with one run at a time the cursor is still the one it loaded.            *)
Plan(r) == [start |-> r.start, n |-> r.n]

OnPlan(i) == Planned(i) => Plan(run[i]) = WindowsToPublish(blob, run[i].now)

DrainInv ==
  /\ blob # None => OnGrid(blob)
  /\ \A i \in Invocations :
       Planned(i) => /\ OnGrid(run[i].start)
                     /\ run[i].n = WindowCount(run[i].start, TargetEnd(run[i].now))
  /\ \A i \in Invocations : Invocations = {i} => OnPlan(i)

(* A run starts on the grid when the cursor it loaded is there.             *)
LEMMA NextStartOnGrid ==
  ASSUME NEW last \in Int \cup {None}, last # None => OnGrid(last), NEW now \in Nat
  PROVE  OnGrid(NextStart(last, now))
<1>1. CASE last # None
  BY <1>1 DEF NextStart
<1>2. CASE last = None /\ NotBefore # None
  BY <1>2, GridArithmetic DEF NextStart
<1>3. CASE last = None /\ NotBefore = None
  <2>1. TargetEnd(now) \in Int /\ OnGrid(TargetEnd(now))
    BY FloorBelow, GridArithmetic DEF TargetEnd
  <2>2. OnGrid(TargetEnd(now) + (-1) * Step)
    BY <2>1, GridArithmetic
  <2>3. TargetEnd(now) + (-1) * Step = TargetEnd(now) - Step
    BY <2>1
  <2>4. QED BY <1>3, <2>2, <2>3 DEF NextStart
<1>4. QED BY <1>1, <1>2, <1>3

LEMMA DrainInit == Init => DrainInv
BY DEF Init, DrainInv, IdleRun, Planned, OnPlan

LEMMA DrainStep == TypeInv /\ DrainInv /\ [Next]_vars => DrainInv'
<1> SUFFICES ASSUME TypeOK, DrainInv, [Next]_vars PROVE DrainInv'
  BY DEF TypeInv
<1> USE DEF Planned, OnPlan, Plan
<1>1. ASSUME UNCHANGED <<blob, run>> PROVE DrainInv'
  BY <1>1 DEF DrainInv, OnGrid, TargetEnd, FloorDatetime, WindowCount, WindowsToPublish,
              NextStart, CeilDatetime
<1>2. ASSUME NEW i \in Invocations, Begin(i) PROVE DrainInv'
  BY <1>2 DEF Begin, DrainInv, TypeOK, Run
<1>3. ASSUME NEW i \in Invocations, Load(i) PROVE DrainInv'
  <2> DEFINE w == WindowsToPublish(blob, run[i].now)
  <2>1. /\ OnGrid(w.start) /\ w.n = WindowCount(w.start, TargetEnd(run[i].now))
        /\ w = [start |-> w.start, n |-> w.n]
    BY NextStartOnGrid DEF WindowsToPublish, DrainInv, TypeOK, Run
  <2>2. /\ run' = [run EXCEPT ![i].pc = "heartbeat", ![i].start = w.start, ![i].n = w.n]
        /\ UNCHANGED blob
    BY <1>3 DEF Load
  <2>3. run'[i].now = run[i].now /\ run'[i].start = w.start /\ run'[i].n = w.n
    BY <2>2 DEF TypeOK, Run
  <2>4. \A j \in Invocations : j # i => run'[j] = run[j]
    BY <2>2 DEF TypeOK
  <2>5. Plan(run'[i]) = WindowsToPublish(blob', run'[i].now)
    BY <2>1, <2>2, <2>3
  <2> HIDE DEF w
  <2>6. QED BY <2>1, <2>2, <2>3, <2>4, <2>5 DEF DrainInv
<1>4. ASSUME NEW i \in Invocations, Heartbeat(i) PROVE DrainInv'
  BY <1>4 DEF Heartbeat, DrainInv, TypeOK, Run, IdleRun
<1>5. ASSUME NEW i \in Invocations, Probe(i) PROVE DrainInv'
  BY <1>5 DEF Probe, DrainInv, TypeOK, Run
<1>6. ASSUME NEW i \in Invocations, RemoteWrite(i) PROVE DrainInv'
  BY <1>6 DEF RemoteWrite, DrainInv, TypeOK, Run
<1>7. ASSUME NEW i \in Invocations, Save(i) PROVE DrainInv'
  <2>1. /\ run[i].start \in Int /\ run[i].n \in Int /\ run[i].pc = "save"
        /\ blob' = EndOf(run[i]) /\ run' = [run EXCEPT ![i] = IdleRun]
    BY <1>7 DEF Save, TypeOK, Run
  <2>2. OnGrid(blob')
    BY <2>1, GridArithmetic DEF EndOf, DrainInv
  <2>3. \A j \in Invocations : Planned(j)' => j # i /\ run'[j] = run[j]
    BY <2>1 DEF TypeOK, IdleRun
  <2>4. QED BY <2>2, <2>3 DEF DrainInv
<1>8. ASSUME NEW i \in Invocations, Abort(i) PROVE DrainInv'
  <2>1. run' = [run EXCEPT ![i] = IdleRun] /\ UNCHANGED blob
    BY <1>8 DEF Abort
  <2>2. \A j \in Invocations : Planned(j)' => j # i /\ run'[j] = run[j]
    BY <2>1 DEF TypeOK, IdleRun
  <2>3. QED BY <2>1, <2>2 DEF DrainInv
<1>9. QED
  BY <1>1, <1>2, <1>3, <1>4, <1>5, <1>6, <1>7, <1>8 DEF Next, Proceed, Tick, vars

(* What a planned run with a window will save.                              *)
LEMMA PlanDrains ==
  ASSUME TypeOK, HasWindow, DrainInv, NEW i \in Invocations, Invocations = {i},
         run[i].pc = "save"
  PROVE  \/ EndOf(run[i]) = TargetEnd(run[i].now)
         \/ EndOf(run[i]) = Cursor + MaxCatchup * Step
<1> DEFINE start == run[i].start
           end   == TargetEnd(run[i].now)
           n     == WindowCount(start, end)
<1>1. /\ start \in Int /\ run[i].now \in Nat /\ run[i].n > 0
      /\ run[i].n = n /\ OnGrid(start)
      /\ start = NextStart(blob, run[i].now)
  BY DEF TypeOK, Run, HasWindow, DrainInv, Planned, OnPlan, Plan, WindowsToPublish
<1>2. end \in Int /\ OnGrid(end)
  BY <1>1, FloorBelow, GridArithmetic DEF TargetEnd
<1>3. start + n * Step = end \/ n = MaxCatchup
  BY <1>1, <1>2, WindowCountDrains
<1>4. CASE blob # None \/ NotBefore # None
  <2>1. start = Cursor
    BY <1>1, <1>4 DEF NextStart, Cursor, Origin
  <2>2. QED BY <1>1, <1>3, <2>1 DEF EndOf
<1>5. CASE blob = None /\ NotBefore = None
  <2>1. start = end - Step
    BY <1>1, <1>5 DEF NextStart
  <2>2. (end - start) \div Step = 1
    BY <1>1, <1>2, <2>1
  <2>3. n = 1
    <3>1. n = IF end < start THEN 0
              ELSE IF (end - start) \div Step < MaxCatchup
                   THEN (end - start) \div Step ELSE MaxCatchup
      BY <1>1, <1>2, WindowCountIs
    <3>2. ~(end < start) /\ MaxCatchup >= 1
      BY <1>1, <1>2, <2>1, StepAssumption, MaxCatchupAssumption
    <3> HIDE DEF start, end, n
    <3>3. QED BY <2>2, <3>1, <3>2, MaxCatchupAssumption
  <2>4. QED BY <1>1, <1>2, <2>1, <2>3 DEF EndOf
<1>6. QED BY <1>4, <1>5

(* One run at a time never finishes without having caught up or having      *)
(* moved the cursor over MaxCatchup windows.                                *)
THEOREM FinishedRunsDrain == Spec => FinishedRunDrains
<1> DEFINE Drains(i) ==
      (Invocations = {i} /\ run[i].pc = "save" /\ aborts' = aborts /\ run'[i].pc = "idle")
        => \/ blob' = TargetEnd(run[i].now)
           \/ blob' = Cursor + MaxCatchup * Step
<1>1. TypeInv /\ DrainInv /\ [Next]_vars => [\A i \in Invocations : Drains(i)]_vars
  <2> SUFFICES ASSUME TypeOK, HasWindow, DrainInv, Next, NEW i \in Invocations,
                      Invocations = {i}, run[i].pc = "save", aborts' = aborts,
                      run'[i].pc = "idle"
               PROVE  \/ blob' = TargetEnd(run[i].now)
                      \/ blob' = Cursor + MaxCatchup * Step
    BY DEF TypeInv
  <2>1. Save(i)
    <3>1. ~Abort(i)
      BY DEF Abort, TypeOK
    <3>2. ~Tick
      BY DEF Tick
    <3>3. QED
      BY <3>1, <3>2 DEF Next, Proceed, Begin, Load, Heartbeat, Probe, RemoteWrite
  <2>2. blob' = EndOf(run[i])
    BY <2>1 DEF Save
  <2>3. QED BY <2>2, PlanDrains
<1>2. QED
  BY <1>1, TypeInit, TypeStep, DrainInit, DrainStep, PTL DEF Spec, FinishedRunDrains
=============================================================================
