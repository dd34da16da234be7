---------------------------- MODULE ApprovedIndex ----------------------------
(***************************************************************************)
(* The approved-index workflow of the task runner (tasks.py).  Where the    *)
(* public package index is out of reach, a sync target builds the virtual   *)
(* environment from the public uv.lock and an approved index, and keeps a   *)
(* record of it in two files: a state outside the environment, and a marker *)
(* of the same contents inside.  The other targets use the environment only *)
(* if the two agree with each other and with uv.lock.                       *)
(*                                                                         *)
(* Each target is a process that reads and writes the files one by one, and *)
(* may be killed between two of these steps, or within one that writes many *)
(* files.  Nothing keeps two of them from running at once.                  *)
(***************************************************************************)
EXTENDS Naturals

CONSTANTS
  Tasks,        \* the processes there may be at the same time
  Locks,        \* what uv.lock may hold
  FirstLock,    \* what it holds first
  PublicLocks,  \* those that validate_public_lock accepts
  HashedLocks,  \* those whose export validate_exported_requirements accepts
  None,
  Reverts,      \* may uv.lock be changed back to what it held before?
  MaxFailures   \* bound: how many tasks are killed, or end by a failed command

ASSUME LocksAssumption ==
  /\ FirstLock \in Locks
  /\ PublicLocks \subseteq Locks
  /\ HashedLocks \subseteq Locks
ASSUME NoneAssumption ==
  /\ None \notin Locks
  /\ None \notin [status : {"in-progress", "ready"}, lock : Locks]
ASSUME RevertsAssumption == Reverts \in BOOLEAN
ASSUME MaxFailuresAssumption == MaxFailures \in Nat

VARIABLES
  lock,       \* uv.lock
  seen,       \* what it has held so far
  approved,   \* does the user's uv configuration select an approved index?
  state,      \* the state file in .uv-state/
  venv,       \* the virtual environment: its packages and its marker
  task,       \* each task: where it is and what it remembers
  failures

vars == <<lock, seen, approved, state, venv, task, failures>>

State == [status : {"in-progress", "ready"}, lock : Locks]

(* The packages came from an index; lock is None if they are not all there. *)
Packages == [index : {"none", "approved", "public"}, lock : Locks \cup {None}]
Venv == [packages : Packages, marker : State \cup {None}]

ASSUME VenvIsNotNone == None \notin Venv

PC == {"idle", "validate", "mark", "clear", "export", "install", "compare",
       "marker", "ready", "sync", "check lock", "check marker", "using", "reset"}

(* digest: of uv.lock, or of the state that was read; read: this state.     *)
Task == [pc : PC, digest : Locks \cup {None}, requirements : Locks \cup {None},
         read : State \cup {None}]

TypeOK ==
  /\ lock \in seen /\ seen \subseteq Locks
  /\ approved \in BOOLEAN
  /\ state \in State \cup {None}
  /\ venv \in Venv \cup {None}
  /\ task \in [Tasks -> Task]
  /\ \A t \in Tasks :
       /\ task[t].pc \notin {"idle", "sync", "reset"} => task[t].digest \in Locks
       /\ task[t].pc = "install" => task[t].requirements \in Locks
  /\ failures \in 0 .. MaxFailures

Idle == [pc |-> "idle", digest |-> None, requirements |-> None, read |-> None]

Ready(l) == [status |-> "ready", lock |-> l]
InProgress(l) == [status |-> "in-progress", lock |-> l]

NoPackages == [index |-> "none", lock |-> None]
From(index, l) == [index |-> index, lock |-> l]

MarkerIn(v) == IF v = None THEN None ELSE v.marker

Init ==
  /\ lock = FirstLock /\ seen = {FirstLock}
  /\ approved \in BOOLEAN
  /\ state = None
  /\ venv = None
  /\ task = [t \in Tasks |-> Idle]
  /\ failures = 0

AllIdle == \A t \in Tasks : task[t] = Idle

At(t, pc) == task[t].pc = pc
Goto(t, pc) == task' = [task EXCEPT ![t].pc = pc]
End(t) == task' = [task EXCEPT ![t] = Idle]

-----------------------------------------------------------------------------
(* target_sync_dev_approved_index                                          *)

(* The configuration is validated, then uv.lock is hashed. *)
SyncApproved(t) ==
  /\ At(t, "idle")
  /\ approved
  /\ task' = [task EXCEPT ![t] = [Idle EXCEPT !.pc = "validate", !.digest = lock]]
  /\ UNCHANGED <<lock, seen, approved, state, venv, failures>>

ValidateLock(t) ==
  /\ At(t, "validate")
  /\ IF lock \in PublicLocks THEN Goto(t, "mark") ELSE End(t)
  /\ UNCHANGED <<lock, seen, approved, state, venv, failures>>

(* Mistake: a sync in progress is left alone. *)
MarkInProgressOnce(t) ==
  /\ At(t, "mark")
  /\ IF state # None /\ state.status = "in-progress"
       THEN End(t) /\ UNCHANGED state
       ELSE state' = InProgress(task[t].digest) /\ Goto(t, "clear")
  /\ UNCHANGED <<lock, seen, approved, venv, failures>>

(* Mistake: the state keeps what an earlier sync left. *)
MarkNothing(t) ==
  /\ At(t, "mark")
  /\ Goto(t, "clear")
  /\ UNCHANGED <<lock, seen, approved, state, venv, failures>>

MarkInProgress(t) ==
  /\ At(t, "mark")
  /\ state' = InProgress(task[t].digest)
  /\ Goto(t, "clear")
  /\ UNCHANGED <<lock, seen, approved, venv, failures>>

(* Mistake: the requirements are not exported. *)
ClearVenvAndInstall(t) ==
  /\ At(t, "clear")
  /\ venv' = [packages |-> NoPackages, marker |-> None]
  /\ Goto(t, "install")
  /\ UNCHANGED <<lock, seen, approved, state, failures>>

ClearVenv(t) ==
  /\ At(t, "clear")
  /\ venv' = [packages |-> NoPackages, marker |-> None]
  /\ Goto(t, "export")
  /\ UNCHANGED <<lock, seen, approved, state, failures>>

(* uv reads uv.lock again, and what it writes is checked. *)
Export(t) ==
  /\ At(t, "export")
  /\ IF lock \in HashedLocks
       THEN task' = [task EXCEPT ![t].pc = "install", ![t].requirements = lock]
       ELSE End(t)
  /\ UNCHANGED <<lock, seen, approved, state, venv, failures>>

Install(t) ==
  /\ At(t, "install")
  /\ IF venv = None
       THEN End(t) /\ UNCHANGED venv
       ELSE /\ venv' = [venv EXCEPT !.packages = From("approved", task[t].requirements)]
            /\ Goto(t, "compare")
  /\ UNCHANGED <<lock, seen, approved, state, failures>>

Compare(t) ==
  /\ At(t, "compare")
  /\ IF lock = task[t].digest THEN Goto(t, "marker") ELSE End(t)
  /\ UNCHANGED <<lock, seen, approved, state, venv, failures>>

(* write_approved_index_state("ready", ...): first the marker, whose        *)
(* directory is made if it is not there, then the state.                    *)
WriteMarker(t) ==
  /\ At(t, "marker")
  /\ venv' = [packages |-> IF venv = None THEN NoPackages ELSE venv.packages,
              marker   |-> Ready(task[t].digest)]
  /\ Goto(t, "ready")
  /\ UNCHANGED <<lock, seen, approved, state, failures>>

WriteReady(t) ==
  /\ At(t, "ready")
  /\ state' = Ready(task[t].digest)
  /\ End(t)
  /\ UNCHANGED <<lock, seen, approved, venv, failures>>

-----------------------------------------------------------------------------
(* The other targets                                                       *)

(* A standard sync, or a target that runs uv without a state: uv syncs the  *)
(* environment itself.                                                      *)
StandardSync(t) ==
  /\ At(t, "idle")
  /\ state = None
  /\ ~approved
  /\ Goto(t, "sync")
  /\ UNCHANGED <<lock, seen, approved, state, venv, failures>>

Sync(t) ==
  /\ At(t, "sync")
  /\ venv' = [packages |-> From("public", lock), marker |-> MarkerIn(venv)]
  /\ End(t)
  /\ UNCHANGED <<lock, seen, approved, state, failures>>

(* approved_index_run_flags, where there is a state. *)
RunTask(t) ==
  /\ At(t, "idle")
  /\ state # None
  /\ state.status = "ready"
  /\ task' = [task EXCEPT ![t] = [Idle EXCEPT !.pc = "check lock",
                                              !.digest = state.lock, !.read = state]]
  /\ UNCHANGED <<lock, seen, approved, state, venv, failures>>

CheckLock(t) ==
  /\ At(t, "check lock")
  /\ IF lock = task[t].digest THEN Goto(t, "check marker") ELSE End(t)
  /\ UNCHANGED <<lock, seen, approved, state, venv, failures>>

(* Mistake: the environment itself is not looked at. *)
CheckMarkerNever(t) ==
  /\ At(t, "check marker")
  /\ Goto(t, "using")
  /\ UNCHANGED <<lock, seen, approved, state, venv, failures>>

CheckMarker(t) ==
  /\ At(t, "check marker")
  /\ IF MarkerIn(venv) = task[t].read THEN Goto(t, "using") ELSE End(t)
  /\ UNCHANGED <<lock, seen, approved, state, venv, failures>>

(* uv run --no-sync ends. *)
Finish(t) ==
  /\ At(t, "using")
  /\ End(t)
  /\ UNCHANGED <<lock, seen, approved, state, venv, failures>>

(* Mistake: the environment may still be there. *)
ResetStateAnyway(t) ==
  /\ At(t, "idle")
  /\ Goto(t, "reset")
  /\ UNCHANGED <<lock, seen, approved, state, venv, failures>>

(* target_reset_approved_index_state: only without an environment. *)
ResetState(t) ==
  /\ At(t, "idle")
  /\ venv = None
  /\ Goto(t, "reset")
  /\ UNCHANGED <<lock, seen, approved, state, venv, failures>>

UnlinkState(t) ==
  /\ At(t, "reset")
  /\ state' = None
  /\ End(t)
  /\ UNCHANGED <<lock, seen, approved, venv, failures>>

-----------------------------------------------------------------------------
(* What happens to the tasks                                               *)

(* What a step that writes the environment may leave when it is cut short:  *)
(* the directory half deleted, its marker still there or not, or half full. *)
Torn(t) ==
  CASE At(t, "clear") ->
         {venv, None} \cup {[packages |-> NoPackages, marker |-> m] : m \in {None, MarkerIn(venv)}}
    [] At(t, "install") /\ venv # None ->
         {venv, [venv EXCEPT !.packages = From("approved", None)]}
    [] At(t, "sync") ->
         {venv, [packages |-> From("public", None), marker |-> MarkerIn(venv)]}
    [] OTHER -> {venv}

(* The task is killed, or a command it runs fails. *)
Stop(t) ==
  /\ ~At(t, "idle")
  /\ failures < MaxFailures
  /\ failures' = failures + 1
  /\ venv' \in Torn(t)
  /\ End(t)
  /\ UNCHANGED <<lock, seen, approved, state>>

(* uv.lock is edited, or another branch is checked out, at any moment. *)
EditLock ==
  /\ \E l \in Locks \ {lock} :
       /\ Reverts \/ l \notin seen
       /\ lock' = l
       /\ seen' = seen \cup {l}
  /\ UNCHANGED <<approved, state, venv, task, failures>>

(* The user changes the uv configuration, or removes the environment, while *)
(* no task is running.                                                      *)
ChangeConfig ==
  /\ AllIdle
  /\ approved' = ~approved
  /\ UNCHANGED <<lock, seen, state, venv, task, failures>>

RemoveVenv ==
  /\ AllIdle
  /\ venv # None
  /\ venv' = None
  /\ UNCHANGED <<lock, seen, approved, state, task, failures>>

-----------------------------------------------------------------------------
Proceed(t) ==
  \/ ValidateLock(t) \/ MarkInProgress(t) \/ ClearVenv(t) \/ Export(t) \/ Install(t)
  \/ Compare(t) \/ WriteMarker(t) \/ WriteReady(t)
  \/ Sync(t) \/ CheckLock(t) \/ CheckMarker(t) \/ Finish(t) \/ UnlinkState(t)

Begin(t) == SyncApproved(t) \/ StandardSync(t) \/ RunTask(t) \/ ResetState(t)

User == EditLock \/ ChangeConfig \/ RemoveVenv

Next == User \/ \E t \in Tasks : Begin(t) \/ Proceed(t) \/ Stop(t)

Spec == Init /\ [][Next]_vars

(* A task goes on, and the user runs the sync now and then, as the targets  *)
(* that refuse the environment ask for.                                     *)
FairSpec ==
  /\ Spec
  /\ \A t \in Tasks : WF_vars(Proceed(t)) /\ SF_vars(SyncApproved(t))

-----------------------------------------------------------------------------
(* Properties                                                              *)

(* Would a target that runs now use the environment? *)
Trusted == state = Ready(lock) /\ MarkerIn(venv) = state

(* A target uses an environment with a state only if it holds all packages  *)
(* of the lock in that state, from the approved index, and both the lock    *)
(* and its export passed their checks: whatever was interrupted, and        *)
(* however uv.lock changed during the sync.                                 *)
UsedIsBuilt ==
  \A t \in Tasks : At(t, "using") =>
    /\ venv # None
    /\ venv.packages = From("approved", task[t].digest)
    /\ task[t].digest \in PublicLocks \cap HashedLocks

(* When nothing runs and the targets would use the environment as it is,    *)
(* every sync that was under way has completed it: none that was cut short, *)
(* and none that read another lock than the state says.                     *)
TrustedIsBuilt ==
  AllIdle /\ Trusted => venv.packages = From("approved", lock)

(* No task that syncs from the public index touches an environment with     *)
(* packages of the approved one: the state says so until the environment is *)
(* removed and the state reset, in this order.                              *)
NoPublicOverApproved ==
  [][venv # None /\ venv' # None /\ venv.packages.index = "approved"
       => venv'.packages.index # "public"]_vars

(* Once configuration, uv.lock and environment are left alone, a sync that  *)
(* is run again and again gets an environment that the targets use, from    *)
(* whatever an interrupted sync left.                                       *)
SyncRecovers ==
  <>[](approved /\ lock \in PublicLocks \cap HashedLocks) /\ <>[][~RemoveVenv]_vars
    => []<>Trusted
=============================================================================
