----------------------------- MODULE SliSamples -----------------------------
(***************************************************************************)
(* The data of the external SLI publisher: the closed windows one run       *)
(* accounts for, the probe of the public endpoint, and the samples the run  *)
(* writes to the Azure Monitor workspace.  Every operator is pure; the      *)
(* state machine that uses them is ExternalSliPublisher.                    *)
(*                                                                         *)
(* Times are integers (seconds), probe durations are integers too: the      *)
(* clock is read in microseconds and reported in whole milliseconds.        *)
(***************************************************************************)
EXTENDS Integers, FiniteSets

CONSTANTS
  Step,        \* EXTERNAL_SLI_WINDOW_SECONDS
  MaxCatchup,  \* EXTERNAL_SLI_MAX_CATCHUP_WINDOWS
  NotBefore,   \* EXTERNAL_SLI_NOT_BEFORE_UTC, or None when it is not set
  None         \* Python's None

(* env_int refuses a value that is not greater than zero. *)
ASSUME StepAssumption == Step \in Nat \ {0}
ASSUME MaxCatchupAssumption == MaxCatchup \in Nat \ {0}
ASSUME NotBeforeAssumption == NotBefore \in Nat \cup {None}
ASSUME NoneAssumption == None \notin Int

-----------------------------------------------------------------------------
(* Windows                                                                 *)

FloorDatetime(t) == t - (t % Step)

(* Mistake: the window that is still open is taken as closed. *)
TargetEndOpen(now) == FloorDatetime(now) + Step

(* The end of the latest closed window. *)
TargetEnd(now) == FloorDatetime(now)

(* The first window boundary that is not before t. *)
CeilDatetime(t) ==
  LET floored == FloorDatetime(t)
  IN  IF floored < t THEN floored + Step ELSE floored

(* Where a run that loaded the cursor `last` starts: at the cursor, or, when *)
(* there is no state, at not_before, or at the latest closed window.         *)
NextStart(last, now) ==
  IF last # None THEN last
  ELSE IF NotBefore # None THEN CeilDatetime(NotBefore)
  ELSE TargetEnd(now) - Step

(* Mistake: the limit is off by one. *)
WindowCountShort(start, end) ==
  Cardinality({k \in 1 .. MaxCatchup - 1 : start + k * Step <= end})

(* Mistake: a window that ends at the target is left out. *)
WindowCountExclusive(start, end) ==
  Cardinality({k \in 1 .. MaxCatchup : start + k * Step < end})

(* How many windows a run publishes: of the contiguous windows from `start` *)
(* on, at most MaxCatchup are appended, for as long as they are closed.     *)
WindowCount(start, end) ==
  Cardinality({k \in 1 .. MaxCatchup : start + k * Step <= end})

(* The run's windows, as the start of the first one and their number.       *)
WindowsToPublish(last, now) ==
  LET start == NextStart(last, now)
  IN  [start |-> start, n |-> WindowCount(start, TargetEnd(now))]

-----------------------------------------------------------------------------
(* The probe                                                               *)

ElapsedMs(us) == IF us < 0 THEN 0 ELSE us \div 1000

(* An outcome is the HTTP status (None: no answer) and the elapsed time.    *)
ProbeEndpoint(outcome) ==
  [success     |-> outcome.status # None /\ outcome.status \in 200 .. 299,
   duration_ms |-> ElapsedMs(outcome.elapsed_us)]

ProbeResult == [success : BOOLEAN, duration_ms : Nat]

-----------------------------------------------------------------------------
(* Samples                                                                 *)

(* LATENCY_BUCKETS, in milliseconds: a bucket counts the successful probes  *)
(* that took at most that long.                                             *)
LatencyBuckets == {100, 250, 500, 1000, 2000, 5000}

SliSample ==
  [availability_good  : Nat,
   availability_total : Nat,
   latency_buckets    : [LatencyBuckets -> Nat],
   latency_total      : Nat]

EmptyLatencyBuckets == [le \in LatencyBuckets |-> 0]

NoSamples ==
  [availability_good  |-> 0,
   availability_total |-> 0,
   latency_buckets    |-> EmptyLatencyBuckets,
   latency_total      |-> 0]

(* Mistake: a fast failure counts as fast. *)
ProbeResultToSliSamplesAnyStatus(result) ==
  [availability_good  |-> IF result.success THEN 1 ELSE 0,
   availability_total |-> 1,
   latency_buckets    |->
     [le \in LatencyBuckets |-> IF result.duration_ms <= le THEN 1 ELSE 0],
   latency_total      |-> 1]

ProbeResultToSliSamples(result) ==
  [availability_good  |-> IF result.success THEN 1 ELSE 0,
   availability_total |-> 1,
   latency_buckets    |->
     [le \in LatencyBuckets |->
        IF result.success /\ result.duration_ms <= le THEN 1 ELSE 0],
   latency_total      |-> 1]

MissedWindowSamples(count) ==
  [availability_good  |-> 0,
   availability_total |-> count,
   latency_buckets    |-> EmptyLatencyBuckets,
   latency_total      |-> count]

CombineSliSamples(a, b) ==
  [availability_good  |-> a.availability_good + b.availability_good,
   availability_total |-> a.availability_total + b.availability_total,
   latency_buckets    |->
     [le \in LatencyBuckets |-> a.latency_buckets[le] + b.latency_buckets[le]],
   latency_total      |-> a.latency_total + b.latency_total]

(* Mistake: the probed window is counted as missed too. *)
RunSamplesAllMissed(n, result) ==
  CombineSliSamples(MissedWindowSamples(n), ProbeResultToSliSamples(result))

(* What a run that accounts for n windows writes: n - 1 missed windows and  *)
(* the probe it made.                                                       *)
RunSamples(n, result) ==
  CombineSliSamples(MissedWindowSamples(IF n > 1 THEN n - 1 ELSE 0),
                    ProbeResultToSliSamples(result))

(* A sample set is sound when its ratios are ratios: wider buckets count at *)
(* least as much, no bucket more than the successes, no success more than   *)
(* the windows, and both objectives share the denominator.                  *)
SoundSample(s) ==
  /\ \A a, b \in LatencyBuckets :
       a <= b => s.latency_buckets[a] <= s.latency_buckets[b]
  /\ \A b \in LatencyBuckets : s.latency_buckets[b] <= s.availability_good
  /\ s.availability_good <= s.availability_total
  /\ s.latency_total = s.availability_total
=============================================================================
