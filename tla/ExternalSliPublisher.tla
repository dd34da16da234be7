------------------------ MODULE ExternalSliPublisher ------------------------
(***************************************************************************)
(* The external SLI publisher: a timer-triggered function that probes the   *)
(* public endpoint once and accounts for every window that closed since the *)
(* cursor kept in a blob.  One run reads the clock, loads the cursor, sends *)
(* a heartbeat, probes, writes one set of samples to the Azure Monitor      *)
(* workspace, and saves the new cursor.  There is no transaction around the *)
(* write and the save, every step may raise or be killed, and nothing but   *)
(* the timer's lease keeps two runs apart.                                  *)
(***************************************************************************)
EXTENDS SliSamples

CONSTANTS
  Invocations,    \* the runs that may be in progress at the same time
  ProbeOutcomes,  \* the outcomes a probe may have
  StartTime,      \* the time at which the function is deployed
  MaxTime,        \* bound: the clock stops here
  MaxAborts       \* bound: how many runs may fail

ASSUME StartTimeAssumption == StartTime \in Nat
ASSUME MaxTimeAssumption == MaxTime \in Nat /\ MaxTime >= StartTime
ASSUME MaxAbortsAssumption == MaxAborts \in Nat
ASSUME ProbeOutcomesAssumption ==
  ProbeOutcomes \subseteq [status : Nat \cup {None}, elapsed_us : Int]

VARIABLES
  clock,     \* the wall clock
  blob,      \* last_published_window_end in the state blob, None: no state
  run,       \* the progress of each invocation of run_once
  batches,   \* observer: the sample sets the workspace accepted
  ledger,    \* what the samples in the workspace sum to
  orphaned,  \* observer: windows in batches whose cursor was never saved
  aborts     \* how many runs failed so far

vars == <<clock, blob, run, batches, ledger, orphaned, aborts>>

PC == {"idle", "load", "heartbeat", "probe", "write", "save"}

Run == [pc : PC, now : Nat, start : Int, n : Nat, result : ProbeResult]

NoResult == [success |-> FALSE, duration_ms |-> 0]

IdleRun == [pc |-> "idle", now |-> 0, start |-> 0, n |-> 0, result |-> NoResult]

Batch == [now : Nat, start : Int, n : Nat, samples : SliSample]

(* From its probe on, a run has a window to publish: it reads windows[-1].  *)
HasWindow ==
  \A i \in Invocations :
    run[i].pc \in {"probe", "write", "save"} => run[i].n > 0

TypeOK ==
  /\ clock \in Nat
  /\ blob \in Int \cup {None}
  /\ run \in [Invocations -> Run]
  /\ batches \subseteq Batch
  /\ ledger \in SliSample
  /\ orphaned \in Nat
  /\ aborts \in 0 .. MaxAborts
  /\ HasWindow

(* The end of the last window a run accounts for: windows[-1].end. *)
EndOf(b) == b.start + b.n * Step

Init ==
  /\ clock = StartTime
  /\ blob = None
  /\ run = [i \in Invocations |-> IdleRun]
  /\ batches = {}
  /\ ledger = NoSamples
  /\ orphaned = 0
  /\ aborts = 0

-----------------------------------------------------------------------------
Tick ==
  /\ clock < MaxTime
  /\ clock' = clock + 1
  /\ UNCHANGED <<blob, run, batches, ledger, orphaned, aborts>>

(* The timer fires: the run gets its token and reads the clock once. *)
Begin(i) ==
  /\ run[i].pc = "idle"
  /\ run' = [run EXCEPT ![i].pc = "load", ![i].now = clock]
  /\ UNCHANGED <<clock, blob, batches, ledger, orphaned, aborts>>

(* The cursor is downloaded, and the windows are fixed from what it said. *)
Load(i) ==
  /\ run[i].pc = "load"
  /\ LET w == WindowsToPublish(blob, run[i].now)
     IN  run' = [run EXCEPT ![i].pc = "heartbeat",
                            ![i].start = w.start, ![i].n = w.n]
  /\ UNCHANGED <<clock, blob, batches, ledger, orphaned, aborts>>

(* Mistake: a run with no window to publish goes on. *)
HeartbeatGoesOn(i) ==
  /\ run[i].pc = "heartbeat"
  /\ run' = [run EXCEPT ![i].pc = "probe"]
  /\ UNCHANGED <<clock, blob, batches, ledger, orphaned, aborts>>

(* The heartbeat is sent by every run; one with no window to publish ends.  *)
Heartbeat(i) ==
  /\ run[i].pc = "heartbeat"
  /\ run' = [run EXCEPT ![i] = IF @.n = 0 THEN IdleRun
                               ELSE [@ EXCEPT !.pc = "probe"]]
  /\ UNCHANGED <<clock, blob, batches, ledger, orphaned, aborts>>

(* Mistake: the cursor is saved before the samples are written. *)
ProbeSavesFirst(i) ==
  /\ run[i].pc = "probe"
  /\ \E outcome \in ProbeOutcomes :
       run' = [run EXCEPT ![i].pc = "write",
                          ![i].result = ProbeEndpoint(outcome)]
  /\ blob' = EndOf(run[i])
  /\ UNCHANGED <<clock, batches, ledger, orphaned, aborts>>

(* The endpoint is probed once; any HTTP or network error is a bad result.  *)
Probe(i) ==
  /\ run[i].pc = "probe"
  /\ \E outcome \in ProbeOutcomes :
       run' = [run EXCEPT ![i].pc = "write",
                          ![i].result = ProbeEndpoint(outcome)]
  /\ UNCHANGED <<clock, blob, batches, ledger, orphaned, aborts>>

(* The workspace accepts the samples; they carry the run's clock reading.   *)
RemoteWrite(i) ==
  /\ run[i].pc = "write"
  /\ LET samples == RunSamples(run[i].n, run[i].result)
     IN  /\ ledger' = CombineSliSamples(ledger, samples)
         /\ batches' = batches \cup
              {[now |-> run[i].now, start |-> run[i].start,
                n |-> run[i].n, samples |-> samples]}
  /\ run' = [run EXCEPT ![i].pc = "save"]
  /\ UNCHANGED <<clock, blob, orphaned, aborts>>

(* Mistake: the latest closed window is saved, not the last one published. *)
SaveTarget(i) ==
  /\ run[i].pc = "save"
  /\ blob' = TargetEnd(run[i].now)
  /\ run' = [run EXCEPT ![i] = IdleRun]
  /\ UNCHANGED <<clock, batches, ledger, orphaned, aborts>>

(* The blob is overwritten, whatever it holds by now. *)
Save(i) ==
  /\ run[i].pc = "save"
  /\ blob' = EndOf(run[i])
  /\ run' = [run EXCEPT ![i] = IdleRun]
  /\ UNCHANGED <<clock, batches, ledger, orphaned, aborts>>

(* A call raises, or the host is killed, and the run is over.  A write that *)
(* is applied but whose answer is lost is RemoteWrite followed by Abort.    *)
Abort(i) ==
  /\ run[i].pc # "idle"
  /\ aborts < MaxAborts
  /\ aborts' = aborts + 1
  /\ orphaned' = IF run[i].pc = "save" THEN orphaned + run[i].n ELSE orphaned
  /\ run' = [run EXCEPT ![i] = IdleRun]
  /\ UNCHANGED <<clock, blob, batches, ledger>>

(* The step run i takes when nothing fails. *)
Proceed(i) ==
  \/ Load(i)
  \/ Heartbeat(i)
  \/ Probe(i)
  \/ RemoteWrite(i)
  \/ Save(i)

Next ==
  \/ Tick
  \/ \E i \in Invocations : Begin(i) \/ Proceed(i) \/ Abort(i)

Spec == Init /\ [][Next]_vars

(* The clock goes on, the timer fires again and again, and a run that was   *)
(* started ends, by finishing or by failing.                                *)
Fairness ==
  /\ WF_vars(Tick)
  /\ \A i \in Invocations : WF_vars(Begin(i)) /\ WF_vars(Proceed(i))

FairSpec == Spec /\ Fairness

-----------------------------------------------------------------------------
(* Safety                                                                  *)

(* The first instant a publisher with not_before set accounts for. *)
Origin == CeilDatetime(NotBefore)

Covered(t) == \E b \in batches : b.start <= t /\ t < EndOf(b)

(* The publisher implements SliLedger: the observed batches are the time    *)
(* accounted for, the blob is its cursor.                                   *)
Accounted == UNION {b.start .. EndOf(b) - 1 : b \in batches}

Cursor == IF blob = None THEN Origin ELSE blob

Ledger == INSTANCE SliLedger
            WITH closed <- clock, accounted <- Accounted, cursor <- Cursor

(* Under not_before, every step of every run is a step of the ledger that   *)
(* accounts for all time at least once and never skips a window.            *)
ImplementsLedger == Ledger!LedgerSpec

(* No window is skipped: when not_before is set, every instant between it   *)
(* and the saved cursor lies in a window some accepted batch accounts for,  *)
(* whatever fails and however many runs overlap.                            *)
NoWindowSkipped ==
  NotBefore # None /\ blob # None =>
    \A t \in Origin .. blob - 1 : Covered(t)

(* No window is accounted for, or passed by the cursor, before it closed.   *)
NothingBeforeItCloses ==
  /\ blob # None => blob <= clock
  /\ \A b \in batches : EndOf(b) <= b.now /\ b.now <= clock

(* Windows in the ledger that the one run in progress has yet to save.      *)
InFlight == [i \in Invocations |-> IF run[i].pc = "save" THEN run[i].n ELSE 0]

(* One run at a time counts every window once, and again only for a batch   *)
(* whose save failed: what the denominators sum to is the windows up to the *)
(* cursor, the batches that were orphaned, and the one being saved.         *)
LedgerBalances ==
  NotBefore # None =>
    \A i \in Invocations :
      Invocations = {i} =>
        Step * ledger.availability_total =
          (Cursor - Origin) + Step * (orphaned + InFlight[i])

(* The ratios the SLIs are computed from are ratios, over everything the    *)
(* workspace ever accepted: a wider latency bucket counts at least as many  *)
(* probes, all of them successful, out of one common denominator.           *)
SliRatiosWellFormed == SoundSample(ledger)

(* With one run at a time, a run that finishes leaves no backlog or has     *)
(* moved the cursor over a full batch: it never finishes without progress,  *)
(* whether it found a cursor, began at not_before, or had neither.          *)
FinishedRunDrains ==
  [][\A i \in Invocations :
       (Invocations = {i} /\ run[i].pc = "save" /\ aborts' = aborts /\ run'[i].pc = "idle")
         => \/ blob' = TargetEnd(run[i].now)
            \/ blob' = Cursor + MaxCatchup * Step]_vars

-----------------------------------------------------------------------------
(* Liveness                                                                *)

(* Every window that closes after not_before is eventually in the           *)
(* workspace and passed by the cursor, failures and overlaps included.      *)
EveryWindowIsPublished ==
  \A t \in 0 .. MaxTime :
    (NotBefore # None /\ Origin <= t /\ t < TargetEnd(clock))
      ~> (Covered(t) /\ blob # None /\ t < blob)
=============================================================================
