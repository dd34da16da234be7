------------------------ MODULE ApprovedIndexProofs ------------------------
(***************************************************************************)
(* Theorems about ApprovedIndex, for every set of lock contents, every set  *)
(* of public ones, and any number of interruptions.  Safety is proved for   *)
(* one task at a time, and for a uv.lock that never returns to what it held *)
(* before: the runs show that neither can be left out.                      *)
(*                                                                         *)
(* Then theorems about PublicLock, for every uv.lock, every workspace and   *)
(* every file of exported requirements.  The checks are folds over          *)
(* sequences: each fold is shown to satisfy its recursive equation, and     *)
(* what it computes follows by induction over the lines it has read.  At    *)
(* the end, what these checks make of the workflow.                         *)
(***************************************************************************)
EXTENDS ExportedLock, WellFoundedInduction, TLAPS

OneTask == \A t, u \in Tasks : t = u

(* A value of a function of records after one task's field changed.         *)
LEMMA GotoShape ==
  ASSUME TypeOK, NEW t \in Tasks, NEW pc \in PC, Goto(t, pc)
  PROVE  /\ task' \in [Tasks -> Task]
         /\ task'[t].pc = pc /\ task'[t].digest = task[t].digest
         /\ task'[t].requirements = task[t].requirements /\ task'[t].read = task[t].read
         /\ \A u \in Tasks \ {t} : task'[u] = task[u]
BY DEF Goto, TypeOK, Task

LEMMA EndShape ==
  ASSUME TypeOK, NEW t \in Tasks, End(t)
  PROVE  /\ task' \in [Tasks -> Task] /\ task'[t] = Idle /\ Idle.pc = "idle"
         /\ \A u \in Tasks \ {t} : task'[u] = task[u]
BY DEF End, TypeOK, Task, Idle, PC

LEMMA TypeInit == Init => TypeOK
<1> SUFFICES ASSUME Init PROVE TypeOK
  OBVIOUS
<1>1. task \in [Tasks -> Task] /\ \A t \in Tasks : task[t].pc = "idle"
  BY DEF Init, Idle, Task, PC
<1>2. failures \in 0 .. MaxFailures
  BY MaxFailuresAssumption DEF Init
<1>3. QED BY <1>1, <1>2, LocksAssumption DEF Init, TypeOK

(* What a step of one task must do for the variables to keep their types.   *)
LEMMA Frame ==
  ASSUME TypeOK, NEW t \in Tasks, UNCHANGED <<lock, seen, approved>>,
         state' \in State \cup {None}, venv' \in Venv \cup {None},
         task' \in [Tasks -> Task], \A u \in Tasks \ {t} : task'[u] = task[u],
         task'[t].pc \notin {"idle", "sync", "reset"} => task'[t].digest \in Locks,
         task'[t].pc = "install" => task'[t].requirements \in Locks,
         failures' \in 0 .. MaxFailures
  PROVE  TypeOK'
BY DEF TypeOK

LEMMA TypeStep == TypeOK /\ [Next]_vars => TypeOK'
<1> SUFFICES ASSUME TypeOK, [Next]_vars PROVE TypeOK'
  OBVIOUS
<1>t. /\ lock \in Locks /\ state \in State \cup {None} /\ venv \in Venv \cup {None}
      /\ failures \in 0 .. MaxFailures
      /\ \A t \in Tasks : task[t].pc \notin {"idle", "sync", "reset"} =>
                            task[t].digest \in Locks
  BY DEF TypeOK
<1>1. CASE User
  BY <1>1 DEF User, EditLock, ChangeConfig, RemoveVenv, TypeOK
<1>2. ASSUME NEW t \in Tasks, Begin(t) PROVE TypeOK'
  <2>1. CASE SyncApproved(t)
    <3>1. task' = [task EXCEPT ![t] = [Idle EXCEPT !.pc = "validate", !.digest = lock]]
      BY <2>1 DEF SyncApproved
    <3>2. /\ task' \in [Tasks -> Task] /\ task'[t].pc = "validate"
          /\ task'[t].digest \in Locks /\ \A u \in Tasks \ {t} : task'[u] = task[u]
      BY <1>t, <3>1 DEF TypeOK, Task, PC, Idle
    <3>3. QED BY <1>t, <2>1, <3>2, Frame DEF SyncApproved
  <2>2. CASE RunTask(t)
    <3>1. state.lock \in Locks
      BY <1>t, <2>2 DEF RunTask, State
    <3>2. task' = [task EXCEPT ![t] = [Idle EXCEPT !.pc = "check lock",
                                                 !.digest = state.lock, !.read = state]]
      BY <2>2 DEF RunTask
    <3>3. /\ task' \in [Tasks -> Task] /\ task'[t].pc = "check lock"
          /\ task'[t].digest \in Locks /\ \A u \in Tasks \ {t} : task'[u] = task[u]
      BY <3>1, <3>2 DEF TypeOK, Task, PC, Idle
    <3>4. QED BY <1>t, <2>2, <3>3, Frame DEF RunTask
  <2>3. CASE StandardSync(t) \/ ResetState(t)
    <3>1. \E pc \in {"sync", "reset"} : Goto(t, pc)
      BY <2>3 DEF StandardSync, ResetState
    <3>2. /\ task' \in [Tasks -> Task] /\ task'[t].pc \in {"sync", "reset"}
          /\ \A u \in Tasks \ {t} : task'[u] = task[u]
      BY <3>1, GotoShape DEF PC
    <3>3. QED BY <1>t, <2>3, <3>2, Frame DEF StandardSync, ResetState
  <2>4. QED BY <1>2, <2>1, <2>2, <2>3 DEF Begin
<1>3. ASSUME NEW t \in Tasks, Proceed(t) PROVE TypeOK'
  <2> DEFINE Quiet == UNCHANGED <<lock, seen, approved, failures>>
  <2>1. ASSUME NEW pc \in PC \ {"install"}, Goto(t, pc), Quiet,
               task[t].pc \notin {"idle", "sync", "reset"},
               state' \in State \cup {None}, venv' \in Venv \cup {None}
        PROVE  TypeOK'
    BY <1>t, <2>1, GotoShape, Frame
  <2>2. ASSUME End(t), Quiet,
               state' \in State \cup {None}, venv' \in Venv \cup {None}
        PROVE  TypeOK'
    BY <1>t, <2>2, EndShape, Frame
  <2>3. CASE ValidateLock(t)
    BY <1>t, <2>1, <2>2, <2>3 DEF ValidateLock, At, PC
  <2>4. CASE MarkInProgress(t)
    <3>1. InProgress(task[t].digest) \in State
      BY <1>t, <2>4 DEF MarkInProgress, At, InProgress, State
    <3>2. QED BY <1>t, <2>1, <2>4, <3>1 DEF MarkInProgress, At, PC
  <2>5. CASE ClearVenv(t)
    <3>1. [packages |-> NoPackages, marker |-> None] \in Venv
      BY DEF NoPackages, Packages, Venv
    <3>2. QED BY <1>t, <2>1, <2>5, <3>1 DEF ClearVenv, At, PC
  <2>6. CASE Export(t)
    <3>1. CASE lock \in HashedLocks
      <4>1. /\ task' \in [Tasks -> Task] /\ task'[t].pc = "install"
            /\ task'[t].digest = task[t].digest /\ task'[t].requirements = lock
            /\ \A u \in Tasks \ {t} : task'[u] = task[u]
        <5>1. task' = [task EXCEPT ![t].pc = "install", ![t].requirements = lock]
          BY <2>6, <3>1 DEF Export
        <5>2. QED BY <1>t, <5>1 DEF TypeOK, Task, PC
      <4>2. task[t].digest \in Locks
        BY <1>t, <2>6 DEF Export, At
      <4>3. QED BY <1>t, <2>6, <4>1, <4>2, Frame DEF Export
    <3>2. CASE lock \notin HashedLocks
      BY <1>t, <2>2, <2>6, <3>2 DEF Export
    <3>3. QED BY <3>1, <3>2
  <2>7. CASE Install(t)
    <3>1. CASE venv = None
      BY <1>t, <2>2, <2>7, <3>1 DEF Install
    <3>2. CASE venv # None
      <4>1. From("approved", task[t].requirements) \in Packages
        BY DEF From, Packages, TypeOK, Task
      <4>2. venv' \in Venv
        BY <1>t, <2>7, <3>2, <4>1 DEF Install, Venv
      <4>3. QED BY <1>t, <2>1, <2>7, <3>2, <4>2 DEF Install, At, PC
    <3>3. QED BY <3>1, <3>2
  <2>8. CASE Compare(t)
    BY <1>t, <2>1, <2>2, <2>8 DEF Compare, At, PC
  <2>9. CASE WriteMarker(t)
    <3>1. Ready(task[t].digest) \in State
      BY <1>t, <2>9 DEF WriteMarker, At, Ready, State
    <3>2. NoPackages \in Packages
      BY DEF NoPackages, Packages
    <3>3. venv # None => venv.packages \in Packages
      BY <1>t DEF Venv
    <3>4. venv' \in Venv
      BY <2>9, <3>1, <3>2, <3>3 DEF WriteMarker, Venv
    <3>5. QED BY <1>t, <2>1, <2>9, <3>4 DEF WriteMarker, At, PC
  <2>10. CASE WriteReady(t)
    <3>1. Ready(task[t].digest) \in State
      BY <1>t, <2>10 DEF WriteReady, At, Ready, State
    <3>2. QED BY <1>t, <2>2, <2>10, <3>1 DEF WriteReady
  <2>11. CASE Sync(t)
    <3>1. From("public", lock) \in Packages
      BY <1>t DEF From, Packages
    <3>2. MarkerIn(venv) \in State \cup {None}
      BY <1>t DEF MarkerIn, Venv
    <3>3. venv' \in Venv
      BY <2>11, <3>1, <3>2 DEF Sync, Venv
    <3>4. QED BY <1>t, <2>2, <2>11, <3>3 DEF Sync
  <2>12. CASE CheckLock(t)
    BY <1>t, <2>1, <2>2, <2>12 DEF CheckLock, At, PC
  <2>13. CASE CheckMarker(t)
    BY <1>t, <2>1, <2>2, <2>13 DEF CheckMarker, At, PC
  <2>14. CASE Finish(t) \/ UnlinkState(t)
    BY <1>t, <2>2, <2>14 DEF Finish, UnlinkState
  <2>15. QED
    BY <1>3, <2>3, <2>4, <2>5, <2>6, <2>7, <2>8, <2>9, <2>10, <2>11, <2>12, <2>13, <2>14
       DEF Proceed
<1>4. ASSUME NEW t \in Tasks, Stop(t) PROVE TypeOK'
  <2>1. venv' \in Torn(t) /\ End(t) /\ UNCHANGED <<lock, seen, approved, state>>
    BY <1>4 DEF Stop
  <2>2. failures' \in 0 .. MaxFailures
    BY <1>4, <1>t, MaxFailuresAssumption DEF Stop
  <2>3. /\ NoPackages \in Packages /\ From("approved", None) \in Packages
        /\ From("public", None) \in Packages
    BY DEF NoPackages, From, Packages
  <2>4. MarkerIn(venv) \in State \cup {None}
    BY <1>t DEF MarkerIn, Venv
  <2>5. venv' \in Venv \cup {None}
    BY <1>t, <2>1, <2>3, <2>4 DEF Torn, Venv
  <2>6. QED BY <1>t, <2>1, <2>2, <2>5, EndShape, Frame
<1>5. CASE UNCHANGED vars
  BY <1>5 DEF vars, TypeOK
<1>6. QED BY <1>1, <1>2, <1>3, <1>4, <1>5 DEF Next

(* The variables of the workflow keep their types, and an install never     *)
(* starts without exported requirements, however many tasks overlap.        *)
THEOREM ApprovedIndexTypeCorrect == Spec => []TypeOK
BY TypeInit, TypeStep, PTL DEF Spec

-----------------------------------------------------------------------------
(* One task at a time                                                      *)

(* The steps of the sync between its first write and its last.              *)
Marked == {"clear", "export", "install", "compare", "marker", "ready"}

(* Who may write what: a sync in progress has said so in the state, a sync  *)
(* from the public index has found no state and still has none, a reset has *)
(* found no environment and there still is none.                            *)
KeptInv ==
  /\ venv # None /\ venv.packages.index = "approved" => state # None
  /\ \A t \in Tasks :
       /\ task[t].pc \in Marked => state = InProgress(task[t].digest)
       /\ task[t].pc = "sync" => state = None
       /\ task[t].pc = "reset" => venv = None

LEMMA StateIsNotNone ==
  ASSUME NEW l \in Locks
  PROVE  Ready(l) # None /\ InProgress(l) # None /\ Ready(l) # InProgress(l)
BY NoneAssumption DEF Ready, InProgress

LEMMA KeptInit == Init => KeptInv
BY DEF Init, Idle, KeptInv, Marked

LEMMA KeptStep ==
  ASSUME OneTask
  PROVE  TypeOK /\ KeptInv /\ [Next]_vars => KeptInv'
<1> SUFFICES ASSUME TypeOK, KeptInv, [Next]_vars PROVE KeptInv'
  OBVIOUS
<1> USE DEF At, Marked
<1>1. CASE User
  BY <1>1 DEF User, EditLock, ChangeConfig, RemoveVenv, AllIdle, Idle, KeptInv
<1>2. ASSUME NEW t \in Tasks, Begin(t) PROVE KeptInv'
  <2>1. /\ task' \in [Tasks -> Task] /\ UNCHANGED <<state, venv>>
        /\ \/ task'[t].pc \in {"validate", "check lock"}
           \/ task'[t].pc = "sync" /\ state = None
           \/ task'[t].pc = "reset" /\ venv = None
    <3>1. CASE SyncApproved(t)
      BY <3>1 DEF SyncApproved, TypeOK, Task, PC, Idle
    <3>2. CASE RunTask(t)
      BY <3>2 DEF RunTask, TypeOK, Task, PC, Idle, State
    <3>3. CASE StandardSync(t)
      BY <3>3, GotoShape DEF StandardSync, PC
    <3>4. CASE ResetState(t)
      BY <3>4, GotoShape DEF ResetState, PC
    <3>5. QED BY <1>2, <3>1, <3>2, <3>3, <3>4 DEF Begin
  <2>2. \A u \in Tasks : u = t
    BY DEF OneTask
  <2>3. QED BY <2>1, <2>2 DEF KeptInv
<1>3. ASSUME NEW t \in Tasks, Proceed(t) PROVE KeptInv'
  <2>o. \A u \in Tasks : u = t
    BY DEF OneTask
  <2>d. task[t].pc \in Marked \cup {"mark"} =>
          task[t].digest \in Locks /\ InProgress(task[t].digest) # None
    BY StateIsNotNone DEF TypeOK
  <2>1. CASE ValidateLock(t) \/ CheckLock(t) \/ CheckMarker(t)
    <3>1. \/ \E pc \in {"mark", "check marker", "using"} : Goto(t, pc)
          \/ End(t)
      BY <2>1 DEF ValidateLock, CheckLock, CheckMarker
    <3>2. task'[t].pc \in {"mark", "check marker", "using", "idle"}
      BY <3>1, GotoShape, EndShape DEF PC
    <3>3. QED BY <2>1, <2>o, <3>2 DEF ValidateLock, CheckLock, CheckMarker, KeptInv
  <2>2. CASE MarkInProgress(t)
    <3>1. task'[t].pc = "clear" /\ task'[t].digest = task[t].digest
      BY <2>2, GotoShape DEF MarkInProgress, PC
    <3>2. QED BY <2>2, <2>o, <2>d, <3>1 DEF MarkInProgress, KeptInv
  <2>3. CASE ClearVenv(t)
    <3>1. task'[t].pc = "export" /\ task'[t].digest = task[t].digest
      BY <2>3, GotoShape DEF ClearVenv, PC
    <3>2. QED BY <2>3, <2>o, <3>1 DEF ClearVenv, KeptInv, NoPackages
  <2>4. CASE Export(t)
    <3>1. \/ task'[t].pc = "install" /\ task'[t].digest = task[t].digest
          \/ task'[t].pc = "idle"
      BY <2>4, EndShape DEF Export, TypeOK, Task
    <3>2. QED BY <2>4, <2>o, <3>1 DEF Export, KeptInv
  <2>5. CASE Install(t)
    <3>1. \/ venv' = venv /\ End(t)
          \/ Goto(t, "compare")
      BY <2>5 DEF Install
    <3>2. \/ venv' = venv /\ task'[t].pc = "idle"
          \/ task'[t].pc = "compare" /\ task'[t].digest = task[t].digest
      BY <3>1, GotoShape, EndShape DEF PC
    <3>3. QED BY <2>5, <2>o, <2>d, <3>2 DEF Install, KeptInv
  <2>6. CASE Compare(t)
    <3>1. Goto(t, "marker") \/ End(t)
      BY <2>6 DEF Compare
    <3>2. \/ task'[t].pc = "idle"
          \/ task'[t].pc = "marker" /\ task'[t].digest = task[t].digest
      BY <3>1, GotoShape, EndShape DEF PC
    <3>3. QED BY <2>6, <2>o, <3>2 DEF Compare, KeptInv
  <2>7. CASE WriteMarker(t)
    <3>1. task'[t].pc = "ready" /\ task'[t].digest = task[t].digest
      BY <2>7, GotoShape DEF WriteMarker, PC
    <3>2. QED BY <2>7, <2>o, <2>d, <3>1 DEF WriteMarker, KeptInv
  <2>8. CASE WriteReady(t)
    <3>1. Ready(task[t].digest) # None
      BY <2>8, StateIsNotNone DEF WriteReady, TypeOK
    <3>2. QED BY <2>8, <2>o, <3>1, EndShape DEF WriteReady, KeptInv
  <2>9. CASE Sync(t)
    BY <2>9, <2>o, EndShape DEF Sync, From, KeptInv
  <2>10. CASE Finish(t) \/ UnlinkState(t)
    BY <2>10, <2>o, EndShape DEF Finish, UnlinkState, KeptInv
  <2>11. QED
    BY <1>3, <2>1, <2>2, <2>3, <2>4, <2>5, <2>6, <2>7, <2>8, <2>9, <2>10 DEF Proceed
<1>4. ASSUME NEW t \in Tasks, Stop(t) PROVE KeptInv'
  <2>o. \A u \in Tasks : u = t
    BY DEF OneTask
  <2>1. venv' \in Torn(t) /\ task'[t].pc = "idle" /\ state' = state
    BY <1>4, EndShape DEF Stop
  <2>2. task[t].pc = "install" => state # None
    BY StateIsNotNone DEF KeptInv, TypeOK
  <2>3. venv' # None /\ venv'.packages.index = "approved" => state # None
    BY <2>1, <2>2 DEF Torn, NoPackages, From, KeptInv
  <2>4. QED BY <2>o, <2>1, <2>3 DEF KeptInv
<1>5. CASE UNCHANGED vars
  BY <1>5 DEF vars, KeptInv
<1>6. QED BY <1>1, <1>2, <1>3, <1>4, <1>5 DEF Next

LEMMA KeptAction ==
  ASSUME OneTask, TypeOK, KeptInv, [Next]_vars,
         venv # None, venv' # None, venv.packages.index = "approved"
  PROVE  venv'.packages.index # "public"
<1> USE DEF At
<1>1. CASE User \/ UNCHANGED vars
  BY <1>1 DEF User, EditLock, ChangeConfig, RemoveVenv, vars
<1>2. ASSUME NEW t \in Tasks, Begin(t) PROVE venv' = venv
  BY <1>2 DEF Begin, SyncApproved, StandardSync, RunTask, ResetState
<1>3. ASSUME NEW t \in Tasks, Proceed(t) PROVE venv'.packages.index # "public"
  <2>1. CASE ClearVenv(t) \/ Install(t) \/ WriteMarker(t)
    BY <2>1 DEF ClearVenv, Install, WriteMarker, NoPackages, From, TypeOK, Venv
  <2>2. ~Sync(t)
    BY DEF Sync, KeptInv
  <2>3. CASE ~(ClearVenv(t) \/ Install(t) \/ WriteMarker(t))
    BY <1>3, <2>2, <2>3 DEF Proceed, ValidateLock, MarkInProgress, Export, Compare,
       WriteReady, CheckLock, CheckMarker, Finish, UnlinkState
  <2>4. QED BY <2>1, <2>3
<1>4. ASSUME NEW t \in Tasks, Stop(t) PROVE venv'.packages.index # "public"
  <2>1. venv' \in Torn(t)
    BY <1>4 DEF Stop
  <2>2. task[t].pc # "sync"
    BY DEF KeptInv
  <2>3. QED BY <2>1, <2>2 DEF Torn, NoPackages, From, TypeOK, Venv
<1>5. QED BY <1>1, <1>2, <1>3, <1>4 DEF Next

(* With one task at a time, nothing is ever installed from the public index *)
(* over packages of the approved one, whatever is interrupted.              *)
THEOREM StandardSyncKeepsOut ==
  ASSUME OneTask
  PROVE  Spec => NoPublicOverApproved
<1>1. TypeOK /\ KeptInv /\ [Next]_vars =>
        [venv # None /\ venv' # None /\ venv.packages.index = "approved"
           => venv'.packages.index # "public"]_vars
  BY KeptAction
<1>2. QED
  BY <1>1, TypeInit, TypeStep, KeptInit, KeptStep, PTL DEF Spec, NoPublicOverApproved

-----------------------------------------------------------------------------
(* What a state that says ready is worth                                   *)

Built(l) ==
  /\ venv # None
  /\ venv.packages = From("approved", l)
  /\ l \in PublicLocks \cap HashedLocks

(* What a task has established: while uv.lock still is what the task has    *)
(* hashed, it has never been anything else since, so that what was read     *)
(* from it in the meantime was read from the lock of that hash.             *)
Established(t) ==
  /\ task[t].pc \in {"validate", "mark"} \cup Marked => task[t].digest \in seen
  /\ task[t].pc \in {"mark"} \cup Marked /\ lock = task[t].digest =>
       task[t].digest \in PublicLocks
  /\ task[t].pc \in {"install", "compare"} /\ lock = task[t].digest =>
       task[t].requirements = task[t].digest
  /\ task[t].pc \in {"install", "compare"} => task[t].requirements \in HashedLocks
  /\ task[t].pc = "compare" =>
       venv # None /\ venv.packages = From("approved", task[t].requirements)
  /\ task[t].pc \in {"marker", "ready"} => Built(task[t].digest)
  /\ task[t].pc \in {"check lock", "check marker", "using"} =>
       state = Ready(task[t].digest) /\ task[t].read = state
  /\ task[t].pc = "using" => MarkerIn(venv) = state

Stored == \A l \in Locks : state = Ready(l) /\ MarkerIn(venv) = Ready(l) => Built(l)

BuiltInv == Stored /\ \A t \in Tasks : Established(t)

LEMMA States ==
  ASSUME NEW l \in Locks, NEW k \in Locks
  PROVE  /\ Ready(l) # InProgress(k) /\ Ready(l) # None
         /\ Ready(l) = Ready(k) => l = k
BY NoneAssumption DEF Ready, InProgress

LEMMA BuiltInit == Init => BuiltInv
<1> SUFFICES ASSUME Init PROVE BuiltInv
  OBVIOUS
<1>1. \A t \in Tasks : task[t].pc = "idle"
  BY DEF Init, Idle
<1>2. \A t \in Tasks : Established(t)
  BY <1>1 DEF Established, Marked
<1>3. Stored
  BY States DEF Init, Stored
<1>4. QED BY <1>2, <1>3 DEF BuiltInv

LEMMA BuiltStep ==
  ASSUME OneTask, ~Reverts
  PROVE  TypeOK /\ KeptInv /\ BuiltInv /\ [Next]_vars => BuiltInv'
<1> SUFFICES ASSUME TypeOK, KeptInv, BuiltInv, [Next]_vars PROVE BuiltInv'
  OBVIOUS
<1> USE DEF At, Marked
<1>t. lock \in seen /\ seen \subseteq Locks
  BY DEF TypeOK
<1>m. \A t \in Tasks :
        task[t].pc \in Marked => ~\E l \in Locks : state = Ready(l)
  <2> TAKE t \in Tasks
  <2>1. task[t].pc \in Marked => task[t].digest \in Locks /\ state = InProgress(task[t].digest)
    BY DEF KeptInv, TypeOK
  <2>2. QED BY <2>1, States
<1>1. CASE EditLock
  <2>1. /\ lock' \notin seen /\ seen \subseteq seen'
        /\ UNCHANGED <<state, venv, task>>
    BY <1>1 DEF EditLock
  <2>2. Stored'
    BY <2>1 DEF BuiltInv, Stored, Built
  <2>3. ASSUME NEW t \in Tasks PROVE Established(t)'
    <3>1. Established(t)
      BY DEF BuiltInv
    <3>2. task[t].pc \in {"mark"} \cup Marked => lock' # task[t].digest
      BY <2>1, <3>1 DEF Established
    <3>3. QED BY <2>1, <3>1, <3>2 DEF Established, Built
  <2>4. QED BY <2>2, <2>3 DEF BuiltInv
<1>2. CASE ChangeConfig
  BY <1>2 DEF ChangeConfig, BuiltInv, Stored, Established, Built
<1>3. CASE RemoveVenv
  <2>1. \A t \in Tasks : task'[t].pc = "idle"
    BY <1>3 DEF RemoveVenv, AllIdle, Idle
  <2>2. \A l \in Locks : MarkerIn(venv)' # Ready(l)
    BY <1>3, States DEF RemoveVenv, MarkerIn
  <2>3. QED BY <2>1, <2>2 DEF BuiltInv, Stored, Established
<1>4. ASSUME NEW t \in Tasks, Begin(t) PROVE BuiltInv'
  <2>o. \A u \in Tasks : u = t
    BY DEF OneTask
  <2>1. UNCHANGED <<lock, seen, state, venv>>
    BY <1>4 DEF Begin, SyncApproved, StandardSync, RunTask, ResetState
  <2>2. Stored'
    BY <2>1 DEF BuiltInv, Stored, Built
  <2>3. Established(t)'
    <3>1. CASE SyncApproved(t)
      <4>1. task'[t].pc = "validate" /\ task'[t].digest = lock
        BY <3>1 DEF SyncApproved, TypeOK, Task, Idle
      <4>2. QED BY <1>t, <2>1, <4>1 DEF Established
    <3>2. CASE RunTask(t)
      <4>1. /\ task'[t].pc = "check lock" /\ task'[t].digest = state.lock
            /\ task'[t].read = state
        BY <3>2 DEF RunTask, TypeOK, Task, Idle
      <4>2. state = Ready(state.lock)
        BY <3>2 DEF RunTask, TypeOK, State, Ready
      <4>3. QED BY <2>1, <4>1, <4>2 DEF Established
    <3>3. CASE StandardSync(t) \/ ResetState(t)
      <4>1. \E pc \in {"sync", "reset"} : Goto(t, pc)
        BY <3>3 DEF StandardSync, ResetState
      <4>2. task'[t].pc \in {"sync", "reset"}
        BY <4>1, GotoShape DEF PC
      <4>3. QED BY <4>2 DEF Established
    <3>4. QED BY <1>4, <3>1, <3>2, <3>3 DEF Begin
  <2>4. QED BY <2>o, <2>2, <2>3 DEF BuiltInv
<1>5. ASSUME NEW t \in Tasks, Proceed(t) PROVE BuiltInv'
  <2>o. \A u \in Tasks : u = t
    BY DEF OneTask
  <2>e. Established(t) /\ Stored
    BY DEF BuiltInv
  <2>u. UNCHANGED <<lock, seen>>
    BY <1>5 DEF Proceed, ValidateLock, MarkInProgress, ClearVenv, Export, Install,
       Compare, WriteMarker, WriteReady, Sync, CheckLock, CheckMarker, Finish, UnlinkState
  <2>s. ASSUME UNCHANGED <<state, venv>> PROVE Stored'
    BY <2>e, <2>s DEF Stored, Built
  <2>i. ASSUME task'[t].pc = "idle" PROVE Established(t)'
    BY <2>i DEF Established
  <2> HIDE DEF At
  <2>1. CASE ValidateLock(t)
    <3>1. \/ task'[t].pc = "idle"
          \/ /\ task[t].pc = "validate" /\ lock \in PublicLocks
             /\ task'[t].pc = "mark" /\ task'[t].digest = task[t].digest
      <4>1. \/ End(t)
            \/ task[t].pc = "validate" /\ lock \in PublicLocks /\ Goto(t, "mark")
        BY <2>1 DEF ValidateLock, At
      <4>2. QED BY <4>1, GotoShape, EndShape DEF PC
    <3>2. Established(t)'
      BY <2>e, <2>u, <2>i, <3>1 DEF Established
    <3>3. Stored'
      BY <2>1, <2>s DEF ValidateLock
    <3>4. QED BY <2>o, <3>2, <3>3 DEF BuiltInv
  <2>2. CASE MarkInProgress(t)
    <3>1. /\ task[t].pc = "mark" /\ task'[t].pc = "clear"
          /\ task'[t].digest = task[t].digest /\ task[t].digest \in Locks
      BY <2>2, GotoShape DEF MarkInProgress, At, PC, TypeOK
    <3>2. Established(t)'
      BY <2>e, <2>u, <3>1 DEF Established
    <3>3. Stored'
      BY <2>2, <3>1, States DEF MarkInProgress, Stored
    <3>4. QED BY <2>o, <3>2, <3>3 DEF BuiltInv
  <2>3. CASE ClearVenv(t) \/ Export(t) \/ Install(t) \/ Compare(t) \/ WriteMarker(t)
    <3>1. task[t].pc \in Marked /\ state' = state
      BY <2>3 DEF ClearVenv, Export, Install, Compare, WriteMarker, At
    <3>2. Stored'
      BY <1>m, <3>1 DEF Stored
    <3>3. CASE ClearVenv(t)
      <4>1. /\ task[t].pc = "clear" /\ task'[t].pc = "export"
            /\ task'[t].digest = task[t].digest
        BY <3>3, GotoShape DEF ClearVenv, At, PC
      <4>2. QED BY <2>o, <2>e, <2>u, <3>2, <4>1 DEF BuiltInv, Established
    <3>4. CASE Export(t)
      <4>1. \/ task'[t].pc = "idle"
            \/ /\ task[t].pc = "export" /\ task'[t].pc = "install"
               /\ task'[t].digest = task[t].digest /\ task'[t].requirements = lock
               /\ lock \in HashedLocks
        BY <3>4, EndShape DEF Export, At, TypeOK, Task
      <4>2. Established(t)'
        BY <2>e, <2>u, <2>i, <4>1 DEF Established
      <4>3. QED BY <2>o, <3>2, <4>2 DEF BuiltInv
    <3>5. CASE Install(t)
      <4>1. \/ End(t)
            \/ /\ task[t].pc = "install" /\ Goto(t, "compare")
               /\ venv # None
               /\ venv' = [venv EXCEPT !.packages = From("approved", task[t].requirements)]
        BY <3>5 DEF Install, At
      <4>2. \/ task'[t].pc = "idle"
            \/ /\ task[t].pc = "install" /\ task'[t].pc = "compare"
               /\ task'[t].digest = task[t].digest
               /\ task'[t].requirements = task[t].requirements
               /\ venv' # None
               /\ venv'.packages = From("approved", task[t].requirements)
        <5>1. venv # None =>
                [venv EXCEPT !.packages = From("approved", task[t].requirements)] # None
          <6>1. From("approved", task[t].requirements) \in Packages
            BY DEF From, Packages, TypeOK, Task
          <6>2. QED BY <6>1, VenvIsNotNone DEF TypeOK, Venv
        <5>2. venv # None => venv \in Venv
          BY DEF TypeOK
        <5>3. QED BY <4>1, <5>1, <5>2, GotoShape, EndShape DEF PC, Venv
      <4>3. Established(t)'
        BY <2>e, <2>u, <2>i, <4>2 DEF Established
      <4>4. QED BY <2>o, <3>2, <4>3 DEF BuiltInv
    <3>6. CASE Compare(t)
      <4>1. \/ End(t)
            \/ /\ task[t].pc = "compare" /\ lock = task[t].digest
               /\ Goto(t, "marker") /\ venv' = venv
        BY <3>6 DEF Compare, At
      <4>2. \/ task'[t].pc = "idle"
            \/ /\ task[t].pc = "compare" /\ lock = task[t].digest
               /\ task'[t].pc = "marker" /\ task'[t].digest = task[t].digest
               /\ venv' = venv
        BY <4>1, GotoShape, EndShape DEF PC
      <4>3. Established(t)'
        BY <2>e, <2>u, <2>i, <4>2 DEF Established, Built
      <4>4. QED BY <2>o, <3>2, <4>3 DEF BuiltInv
    <3>7. CASE WriteMarker(t)
      <4>1. /\ task[t].pc = "marker" /\ task'[t].pc = "ready"
            /\ task'[t].digest = task[t].digest /\ task[t].digest \in Locks
        BY <3>7, GotoShape DEF WriteMarker, At, PC, TypeOK
      <4>2. Built(task[t].digest)
        BY <2>e, <4>1 DEF Established
      <4>3. venv' # None
        <5>1. Ready(task[t].digest) \in State
          BY <4>1 DEF Ready, State
        <5>2. venv.packages \in Packages
          BY <4>2 DEF Built, TypeOK, Venv
        <5>3. QED BY <3>7, <4>2, <5>1, <5>2, VenvIsNotNone DEF WriteMarker, Built, Venv
      <4>4. Built(task[t].digest)'
        BY <3>7, <4>1, <4>2, <4>3 DEF WriteMarker, Built
      <4>5. Established(t)'
        BY <2>e, <2>u, <4>1, <4>4 DEF Established
      <4>6. QED BY <2>o, <3>2, <4>5 DEF BuiltInv
    <3>8. QED BY <2>3, <3>3, <3>4, <3>5, <3>6, <3>7
  <2>4. CASE WriteReady(t)
    <3>1. /\ task[t].pc = "ready" /\ task[t].digest \in Locks
          /\ state' = Ready(task[t].digest) /\ venv' = venv
      BY <2>4 DEF WriteReady, At, TypeOK
    <3>2. Built(task[t].digest)
      BY <2>e, <3>1 DEF Established
    <3>3. Stored'
      BY <3>1, <3>2, States DEF Stored, Built
    <3>4. Established(t)'
      BY <2>4, <2>i, EndShape DEF WriteReady
    <3>5. QED BY <2>o, <3>3, <3>4 DEF BuiltInv
  <2>5. CASE Sync(t)
    <3>1. state' = None
      BY <2>5 DEF Sync, At, KeptInv
    <3>2. Stored'
      BY <3>1, States DEF Stored
    <3>3. QED BY <2>5, <2>o, <2>i, <3>2, EndShape DEF Sync, BuiltInv
  <2>6. CASE CheckLock(t) \/ CheckMarker(t)
    <3>1. \/ End(t)
          \/ task[t].pc = "check lock" /\ Goto(t, "check marker")
          \/ /\ task[t].pc = "check marker" /\ Goto(t, "using")
             /\ MarkerIn(venv) = task[t].read
      BY <2>6 DEF CheckLock, CheckMarker, At
    <3>2. UNCHANGED <<state, venv>>
      BY <2>6 DEF CheckLock, CheckMarker
    <3>3. \/ task'[t].pc = "idle"
          \/ /\ task[t].pc = "check lock" /\ task'[t].pc = "check marker"
             /\ task'[t].digest = task[t].digest /\ task'[t].read = task[t].read
          \/ /\ task[t].pc = "check marker" /\ task'[t].pc = "using"
             /\ task'[t].digest = task[t].digest /\ task'[t].read = task[t].read
             /\ MarkerIn(venv) = task[t].read
      BY <3>1, GotoShape, EndShape DEF PC
    <3>4. Established(t)'
      BY <2>e, <2>u, <2>i, <3>2, <3>3 DEF Established
    <3>5. QED BY <2>o, <2>s, <3>2, <3>4 DEF BuiltInv
  <2>7. CASE Finish(t)
    BY <2>7, <2>o, <2>s, <2>i, EndShape DEF Finish, BuiltInv
  <2>8. CASE UnlinkState(t)
    <3>1. Stored'
      BY <2>8, States DEF UnlinkState, Stored
    <3>2. QED BY <2>8, <2>o, <2>i, <3>1, EndShape DEF UnlinkState, BuiltInv
  <2>9. QED BY <1>5, <2>1, <2>2, <2>3, <2>4, <2>5, <2>6, <2>7, <2>8 DEF Proceed
<1>6. ASSUME NEW t \in Tasks, Stop(t) PROVE BuiltInv'
  <2>o. \A u \in Tasks : u = t
    BY DEF OneTask
  <2>1. task'[t].pc = "idle" /\ state' = state /\ venv' \in Torn(t)
    BY <1>6, EndShape DEF Stop
  <2>2. Established(t)'
    BY <2>1 DEF Established
  <2>3. CASE task[t].pc \in Marked
    BY <1>m, <2>o, <2>1, <2>2, <2>3 DEF BuiltInv, Stored
  <2>4. CASE task[t].pc = "sync"
    <3>1. \A l \in Locks : state # Ready(l)
      BY <2>4, States DEF KeptInv
    <3>2. QED BY <2>o, <2>1, <2>2, <3>1 DEF BuiltInv, Stored
  <2>5. CASE task[t].pc \notin Marked \cup {"sync"}
    <3>1. venv' = venv
      BY <2>1, <2>5 DEF Torn
    <3>2. QED BY <2>o, <2>1, <2>2, <3>1 DEF BuiltInv, Stored, Built
  <2>6. QED BY <2>3, <2>4, <2>5
<1>7. CASE UNCHANGED vars
  BY <1>7 DEF vars, BuiltInv, Stored, Established, Built
<1>8. QED BY <1>1, <1>2, <1>3, <1>4, <1>5, <1>6, <1>7 DEF Next, User

LEMMA Inductive ==
  ASSUME OneTask, ~Reverts
  PROVE  Spec => [](TypeOK /\ KeptInv /\ BuiltInv)
BY TypeInit, TypeStep, KeptInit, KeptStep, BuiltInit, BuiltStep, PTL DEF Spec

(* With one task at a time and a uv.lock that does not return to an earlier *)
(* content, no target runs in an environment that is incomplete, of another *)
(* lock than its state says, or of a lock or export that failed its check.  *)
THEOREM OnlyBuiltIsUsed ==
  ASSUME OneTask, ~Reverts
  PROVE  Spec => []UsedIsBuilt
<1>1. TypeOK /\ BuiltInv => UsedIsBuilt
  BY DEF TypeOK, BuiltInv, Stored, Established, Built, UsedIsBuilt, At
<1>2. QED BY <1>1, Inductive, PTL

(* Under the same assumptions, what the targets would use is complete and   *)
(* of the current uv.lock, however syncs were cut short.                    *)
THEOREM OnlyBuiltIsTrusted ==
  ASSUME OneTask, ~Reverts
  PROVE  Spec => []TrustedIsBuilt
<1>1. TypeOK /\ BuiltInv => TrustedIsBuilt
  BY DEF TypeOK, BuiltInv, Stored, Built, Trusted, TrustedIsBuilt
<1>2. QED BY <1>1, Inductive, PTL

-----------------------------------------------------------------------------
(* Folds over sequences                                                    *)

(* Induction, for a set of numbers: an element that is missing would have a *)
(* least one, whose predecessor is not missing.                             *)
LEMMA NatSetInduction ==
  ASSUME NEW S, 0 \in S, \A n \in Nat : n \in S => n + 1 \in S
  PROVE  Nat \subseteq S
<1> DEFINE T == Nat \ S
           R == OpToRel(<, Nat)
<1> SUFFICES ASSUME T # {} PROVE FALSE
  OBVIOUS
<1>1. IsWellFoundedOn(R, Nat)
  BY NatLessThanWellFounded
<1>2. \A x, y \in Nat : x < y => <<x, y>> \in R
  BY DEF OpToRel
<1> HIDE DEF R
<1>3. PICK x \in T : \A y \in T : ~ (<<y, x>> \in R)
  BY <1>1, WFMin
<1>4. x \in Nat \ {0} /\ x - 1 \in Nat
  OBVIOUS
<1>5. x - 1 \in S
  <2>1. <<x - 1, x>> \in R
    BY <1>2, <1>4
  <2>2. x - 1 \notin T
    BY <2>1, <1>3
  <2>3. QED BY <2>2, <1>4
<1>6. QED BY <1>4, <1>5

-----------------------------------------------------------------------------
(* FoldLeft                                                                *)

(* The function whose existence FoldLeft takes for granted, of the sets of  *)
(* line numbers up to m.                                                    *)
IsRun(g, lines, m) ==
  g = [s \in SUBSET (1 .. m) |->
         IF s = {} THEN "none" ELSE ReadLine(g[s \ {Max(s)}], lines[Max(s)])]

(* The number a fold takes out of a set next. *)
LEMMA MaxOfPrefix ==
  ASSUME NEW m \in Nat, NEW s \in SUBSET (1 .. m + 1), m + 1 \in s
  PROVE  Max(s) = m + 1
<1>1. \A x \in s : m + 1 >= x
  OBVIOUS
<1>2. \A x \in s : (\A y \in s : x >= y) => x = m + 1
  OBVIOUS
<1>3. QED BY <1>1, <1>2 DEF Max

LEMMA MaxIn ==
  ASSUME NEW m \in Nat, NEW s \in SUBSET (1 .. m), s # {}
  PROVE  Max(s) \in s
<1> DEFINE S == {k \in Nat : \A t \in SUBSET (1 .. k) : t # {} => \E x \in t : \A y \in t : x >= y}
<1>1. 0 \in S
  <2>1. \A t \in SUBSET (1 .. 0) : t = {}
    OBVIOUS
  <2>2. QED BY <2>1
<1>2. ASSUME NEW k \in Nat, k \in S PROVE k + 1 \in S
  <2> SUFFICES ASSUME NEW t \in SUBSET (1 .. k + 1), t # {}
               PROVE  \E x \in t : \A y \in t : x >= y
    OBVIOUS
  <2>1. CASE k + 1 \in t
    BY <2>1
  <2>2. CASE k + 1 \notin t
    <3>1. t \in SUBSET (1 .. k)
      BY <2>2
    <3>2. QED BY <3>1, <1>2
  <2>3. QED BY <2>1, <2>2
<1> HIDE DEF S
<1>3. m \in S
  BY <1>1, <1>2, NatSetInduction
<1>4. QED BY <1>3 DEF S, Max

(* The function for one more line is made from the one before. *)
LEMMA RunExists ==
  ASSUME NEW lines, NEW m \in Nat
  PROVE  \E g : IsRun(g, lines, m)
<1> DEFINE S == {k \in Nat : \E g : IsRun(g, lines, k)}
<1>1. 0 \in S
  <2> DEFINE g == [s \in SUBSET (1 .. 0) |-> "none"]
  <2>1. IsRun(g, lines, 0)
    BY DEF IsRun
  <2>2. QED BY <2>1
<1>2. ASSUME NEW k \in Nat, k \in S PROVE k + 1 \in S
  <2>1. PICK g : IsRun(g, lines, k)
    BY <1>2
  <2> DEFINE D == SUBSET (1 .. k + 1)
             h == [s \in D |-> IF k + 1 \in s THEN ReadLine(g[s \ {k + 1}], lines[k + 1])
                                         ELSE g[s]]
  <2>2. ASSUME NEW s \in D
        PROVE  h[s] = IF s = {} THEN "none" ELSE ReadLine(h[s \ {Max(s)}], lines[Max(s)])
    <3>1. CASE k + 1 \in s
      <4>1. Max(s) = k + 1
        BY <3>1, MaxOfPrefix
      <4>2. s \ {k + 1} \in D /\ k + 1 \notin s \ {k + 1}
        OBVIOUS
      <4>3. h[s \ {k + 1}] = g[s \ {k + 1}]
        BY <4>2
      <4>4. h[s] = ReadLine(g[s \ {k + 1}], lines[k + 1])
        BY <3>1
      <4> HIDE DEF h
      <4>5. QED BY <3>1, <4>1, <4>3, <4>4
    <3>2. CASE k + 1 \notin s
      <4>1. s \in SUBSET (1 .. k)
        BY <3>2
      <4>2. h[s] = g[s]
        BY <3>2
      <4>3. CASE s = {}
        BY <2>1, <4>1, <4>2, <4>3 DEF IsRun
      <4>4. CASE s # {}
        <5>1. g[s] = ReadLine(g[s \ {Max(s)}], lines[Max(s)])
          BY <2>1, <4>1, <4>4 DEF IsRun
        <5>2. h[s \ {Max(s)}] = g[s \ {Max(s)}]
          BY <3>2, <4>1
        <5> HIDE DEF h
        <5>3. QED BY <4>2, <4>4, <5>1, <5>2
      <4>5. QED BY <4>3, <4>4
    <3>3. QED BY <3>1, <3>2
  <2>3. IsRun(h, lines, k + 1)
    <3> DEFINE f == [s \in D |-> IF s = {} THEN "none" ELSE ReadLine(h[s \ {Max(s)}], lines[Max(s)])]
    <3>1. h = [s \in D |-> h[s]]
      OBVIOUS
    <3> HIDE DEF h
    <3>2. h = f
      BY <2>2, <3>1
    <3>3. QED BY <3>2 DEF IsRun
  <2>4. QED BY <2>3
<1> HIDE DEF S
<1>3. m \in S
  BY <1>1, <1>2, NatSetInduction
<1>4. QED BY <1>3 DEF S

(* So the fold is the value of such a function. *)
LEMMA FoldIsRun ==
  ASSUME NEW lines \in Seq(LineKinds)
  PROVE  \E g : /\ IsRun(g, lines, Len(lines))
                /\ FoldLeft(ReadLine, "none", lines) = g[1 .. Len(lines)]
<1> DEFINE S == DOMAIN lines
           g == CHOOSE iter : iter = [s \in SUBSET S |->
                  IF s = {} THEN "none" ELSE ReadLine(iter[s \ {Max(s)}], lines[Max(s)])]
<1>1. S = 1 .. Len(lines) /\ Len(lines) \in Nat
  OBVIOUS
<1>2. FoldLeft(ReadLine, "none", lines) = g[S]
  BY Zenon DEF FoldLeft, MapThenFoldSet
<1>3. \E iter : iter = [s \in SUBSET S |->
                  IF s = {} THEN "none" ELSE ReadLine(iter[s \ {Max(s)}], lines[Max(s)])]
  <2>1. PICK h : IsRun(h, lines, Len(lines))
    BY <1>1, RunExists
  <2> HIDE DEF S
  <2>2. h = [s \in SUBSET S |->
               IF s = {} THEN "none" ELSE ReadLine(h[s \ {Max(s)}], lines[Max(s)])]
    BY <1>1, <2>1, Zenon DEF IsRun
  <2>3. QED BY <2>2, Zenon
<1>4. g = [s \in SUBSET S |->
             IF s = {} THEN "none" ELSE ReadLine(g[s \ {Max(s)}], lines[Max(s)])]
  BY <1>3, Zenon
<1> HIDE DEF g
<1>5. IsRun(g, lines, Len(lines))
  BY <1>1, <1>4 DEF IsRun
<1>6. QED BY <1>1, <1>2, <1>5

(* What the loop remembers after each line. *)
Reads(st, lines) ==
  /\ st[0] = "none"
  /\ \A k \in 1 .. Len(lines) : st[k] = ReadLine(st[k - 1], lines[k])

LEMMA FoldReads ==
  ASSUME NEW lines \in Seq(LineKinds)
  PROVE  \E st : Reads(st, lines) /\ FoldLeft(ReadLine, "none", lines) = st[Len(lines)]
<1> DEFINE n == Len(lines)
<1>1. PICK g : IsRun(g, lines, n) /\ FoldLeft(ReadLine, "none", lines) = g[1 .. n]
  BY FoldIsRun
<1>n. n \in Nat
  OBVIOUS
<1> HIDE DEF n
<1> DEFINE st == [k \in 0 .. n |-> g[1 .. k]]
<1>2. st[0] = "none"
  <2>1. 1 .. 0 = {} /\ {} \in SUBSET (1 .. n) /\ 0 \in 0 .. n
    BY <1>n
  <2>2. g[{}] = "none"
    BY <1>1, <2>1, Zenon DEF IsRun
  <2>3. QED BY <2>1, <2>2
<1>3. ASSUME NEW k \in 1 .. n PROVE st[k] = ReadLine(st[k - 1], lines[k])
  <2>0. k \in Nat \ {0} /\ k <= n
    BY <1>n
  <2>a. k - 1 \in Nat /\ k \in 0 .. n /\ k - 1 \in 0 .. n /\ (k - 1) + 1 = k
    BY <2>0, <1>n
  <2>b. 1 .. k \in SUBSET (1 .. n) /\ 1 .. k # {} /\ k \in 1 .. k
    BY <2>0, <1>n
  <2>c. (1 .. k) \ {k} = 1 .. k - 1
    BY <2>0
  <2>1. /\ k - 1 \in Nat /\ k \in 0 .. n /\ k - 1 \in 0 .. n /\ (k - 1) + 1 = k
        /\ 1 .. k \in SUBSET (1 .. n) /\ 1 .. k # {} /\ k \in 1 .. k
        /\ (1 .. k) \ {k} = 1 .. k - 1
    BY <2>a, <2>b, <2>c
  <2>2. Max(1 .. k) = k
    BY <2>1, MaxOfPrefix
  <2>3. g[1 .. k] = ReadLine(g[(1 .. k) \ {k}], lines[k])
    BY <1>1, <2>1, <2>2, Zenon DEF IsRun
  <2>4. QED BY <2>1, <2>3
<1>4. st[n] = g[1 .. n]
  BY <1>n
<1> HIDE DEF st
<1>5. Reads(st, lines)
  BY <1>2, <1>3 DEF Reads, n
<1>6. QED BY <1>1, <1>4, <1>5 DEF n

-----------------------------------------------------------------------------
(* The check of the exported requirements                                  *)

(* The last line so far that is not blank is a requirement, and all before  *)
(* it is as it should be.                                                   *)
Waiting(lines, k) ==
  \E i \in 1 .. k : lines[i] = "pinned" /\ Blank(lines, i + 1, k) /\ PinnedUpTo(lines, i - 1)

(* What s says of the lines up to k. *)
Told(s, lines, k) ==
  /\ s \in {"none", "pinned", "hashed", "error"}
  /\ s = "none"   <=> Blank(lines, 1, k)
  /\ s = "pinned" <=> Waiting(lines, k)
  /\ s = "hashed" <=> PinnedUpTo(lines, k) /\ ~Blank(lines, 1, k)

(* Blank lines change nothing. *)
LEMMA BlankAdded ==
  ASSUME NEW lines, NEW k \in Nat, lines[k + 1] = "blank"
  PROVE  /\ Blank(lines, 1, k + 1) <=> Blank(lines, 1, k)
         /\ Waiting(lines, k + 1) <=> Waiting(lines, k)
         /\ PinnedUpTo(lines, k + 1) <=> PinnedUpTo(lines, k)
<1>1. \A i \in Nat : Blank(lines, i, k + 1) <=> Blank(lines, i, k)
  BY DEF Blank
<1>2. Waiting(lines, k + 1) <=> Waiting(lines, k)
  BY <1>1 DEF Waiting
<1>3. PinnedUpTo(lines, k) => PinnedUpTo(lines, k + 1)
  BY DEF PinnedUpTo
<1>4. PinnedUpTo(lines, k + 1) => PinnedUpTo(lines, k)
  BY DEF PinnedUpTo
<1>5. QED BY <1>1, <1>2, <1>3, <1>4

(* A hash completes the requirement before it. *)
LEMMA HashAdded ==
  ASSUME NEW lines, NEW k \in Nat, lines[k + 1] = "hash"
  PROVE  /\ ~Blank(lines, 1, k + 1)
         /\ ~Waiting(lines, k + 1)
         /\ PinnedUpTo(lines, k + 1) <=> Waiting(lines, k) \/ (PinnedUpTo(lines, k) /\ ~Blank(lines, 1, k))
<1>1. ~Blank(lines, 1, k + 1)
  BY DEF Blank
<1>2. ~Waiting(lines, k + 1)
  BY DEF Waiting, Blank
<1>3. ASSUME Waiting(lines, k) PROVE PinnedUpTo(lines, k + 1)
  <2>1. PICK i \in 1 .. k : lines[i] = "pinned" /\ Blank(lines, i + 1, k) /\ PinnedUpTo(lines, i - 1)
    BY <1>3 DEF Waiting
  <2>2. \A x \in i + 1 .. k : lines[x] = "blank"
    BY <2>1 DEF Blank
  <2>3. \A x \in 1 .. k + 1 : x \in 1 .. i - 1 \/ x = i \/ x \in i + 1 .. k \/ x = k + 1
    OBVIOUS
  <2>4. \A x \in 1 .. k + 1 : lines[x] \in {"blank", "pinned", "hash"}
    BY <2>1, <2>2, <2>3 DEF PinnedUpTo
  <2>5. \A x \in 1 .. k + 1 : lines[x] = "hash" => \E j \in 1 .. x - 1 : lines[j] = "pinned"
    BY <2>1, <2>2, <2>3 DEF PinnedUpTo
  <2>6. \A x \in 1 .. k + 1 : lines[x] = "pinned" =>
           \E j \in x + 1 .. k + 1 : lines[j] = "hash" /\ Blank(lines, x + 1, j - 1)
    <3> SUFFICES ASSUME NEW x \in 1 .. k + 1, lines[x] = "pinned"
                 PROVE  \E j \in x + 1 .. k + 1 : lines[j] = "hash" /\ Blank(lines, x + 1, j - 1)
      OBVIOUS
    <3>1. CASE x \in 1 .. i - 1
      BY <2>1, <3>1 DEF PinnedUpTo
    <3>2. CASE x = i
      BY <2>1, <3>2
    <3>3. QED BY <2>2, <2>3, <3>1, <3>2
  <2>7. QED BY <2>4, <2>5, <2>6 DEF PinnedUpTo
<1>4. ASSUME PinnedUpTo(lines, k), ~Blank(lines, 1, k) PROVE PinnedUpTo(lines, k + 1)
  <2>1. PICK x \in 1 .. k : lines[x] # "blank"
    BY <1>4 DEF Blank
  <2>2. \E j \in 1 .. k : lines[j] = "pinned"
    BY <1>4, <2>1 DEF PinnedUpTo
  <2>3. QED BY <1>4, <2>2 DEF PinnedUpTo
<1>5. ASSUME PinnedUpTo(lines, k + 1), ~Waiting(lines, k) PROVE PinnedUpTo(lines, k) /\ ~Blank(lines, 1, k)
  <2>1. ~Blank(lines, 1, k)
    BY <1>5 DEF PinnedUpTo, Blank
  <2>2. ASSUME NEW i \in 1 .. k, lines[i] = "pinned",
               ~\E j \in i + 1 .. k : lines[j] = "hash" /\ Blank(lines, i + 1, j - 1)
        PROVE  FALSE
    <3>1. Blank(lines, i + 1, k)
      <4>1. PICK j \in i + 1 .. k + 1 : lines[j] = "hash" /\ Blank(lines, i + 1, j - 1)
        BY <1>5, <2>2 DEF PinnedUpTo
      <4>2. j = k + 1
        BY <2>2, <4>1
      <4>3. QED BY <4>1, <4>2
    <3>2. \A x \in i + 1 .. k : lines[x] = "blank"
      BY <3>1 DEF Blank
    <3>3. \A x \in 1 .. i - 1 : lines[x] = "pinned" =>
            \E j \in x + 1 .. i - 1 : lines[j] = "hash" /\ Blank(lines, x + 1, j - 1)
      <4> SUFFICES ASSUME NEW x \in 1 .. i - 1, lines[x] = "pinned"
                   PROVE  \E j \in x + 1 .. i - 1 : lines[j] = "hash" /\ Blank(lines, x + 1, j - 1)
        OBVIOUS
      <4>1. PICK j \in x + 1 .. k + 1 : lines[j] = "hash" /\ Blank(lines, x + 1, j - 1)
        BY <1>5 DEF PinnedUpTo
      <4>2. ~(i \in x + 1 .. j - 1)
        BY <2>2, <4>1 DEF Blank
      <4>3. j # i
        BY <2>2, <4>1
      <4>4. QED BY <4>1, <4>2, <4>3
    <3>4. PinnedUpTo(lines, i - 1)
      BY <1>5, <3>3 DEF PinnedUpTo
    <3>5. QED BY <1>5, <2>2, <3>1, <3>4 DEF Waiting
  <2>3. PinnedUpTo(lines, k)
    BY <1>5, <2>2 DEF PinnedUpTo
  <2>4. QED BY <2>1, <2>3
<1>6. QED BY <1>1, <1>2, <1>3, <1>4, <1>5

(* A requirement waits for its hash, if the one before has its own. *)
LEMMA PinnedAdded ==
  ASSUME NEW lines, NEW k \in Nat, lines[k + 1] = "pinned"
  PROVE  /\ ~Blank(lines, 1, k + 1)
         /\ Waiting(lines, k + 1) <=> PinnedUpTo(lines, k)
         /\ ~PinnedUpTo(lines, k + 1)
<1>1. Blank(lines, k + 2, k + 1)
  BY DEF Blank
<1>2. PinnedUpTo(lines, k) => Waiting(lines, k + 1)
  <2>1. /\ k + 1 \in 1 .. k + 1 /\ (k + 1) + 1 = k + 2 /\ (k + 1) - 1 = k
    OBVIOUS
  <2>2. QED BY <1>1, <2>1 DEF Waiting
<1>3. Waiting(lines, k + 1) => PinnedUpTo(lines, k)
  BY DEF Waiting, Blank
<1>4. QED BY <1>2, <1>3 DEF PinnedUpTo, Blank

LEMMA OtherAdded ==
  ASSUME NEW lines, NEW k \in Nat, lines[k + 1] \notin {"blank", "hash", "pinned"}
  PROVE  ~Blank(lines, 1, k + 1) /\ ~Waiting(lines, k + 1) /\ ~PinnedUpTo(lines, k + 1)
BY DEF PinnedUpTo, Blank, Waiting

LEMMA WaitingIsNotPinned ==
  ASSUME NEW lines, NEW k \in Nat, Waiting(lines, k)
  PROVE  ~PinnedUpTo(lines, k) /\ ~Blank(lines, 1, k)
BY DEF Waiting, PinnedUpTo, Blank

LEMMA BlankIsPinned ==
  ASSUME NEW lines, NEW k \in Nat, Blank(lines, 1, k)
  PROVE  PinnedUpTo(lines, k)
BY DEF PinnedUpTo, Blank

LEMMA ToldStep ==
  ASSUME NEW lines, NEW k \in Nat, NEW s, Told(s, lines, k)
  PROVE  Told(ReadLine(s, lines[k + 1]), lines, k + 1)
<1>1. CASE lines[k + 1] = "blank"
  <2>1. ReadLine(s, lines[k + 1]) = s
    BY <1>1 DEF ReadLine
  <2>2. QED BY <1>1, <2>1, BlankAdded DEF Told
<1>2. CASE lines[k + 1] = "hash"
  <2>1. ReadLine(s, lines[k + 1]) =
          IF s \in {"error", "none"} THEN "error" ELSE "hashed"
    BY <1>2 DEF ReadLine, Told
  <2>2. QED BY <1>2, <2>1, HashAdded, BlankIsPinned DEF Told
<1>3. CASE lines[k + 1] = "pinned"
  <2>1. ReadLine(s, lines[k + 1]) =
          IF s \in {"error", "pinned"} THEN "error" ELSE "pinned"
    BY <1>3 DEF ReadLine, Told
  <2>2. QED BY <1>3, <2>1, PinnedAdded, BlankIsPinned, WaitingIsNotPinned DEF Told
<1>4. CASE lines[k + 1] \notin {"blank", "hash", "pinned"}
  <2>1. ReadLine(s, lines[k + 1]) = "error"
    BY <1>4 DEF ReadLine
  <2>2. QED BY <1>4, <2>1, OtherAdded DEF Told
<1>5. QED BY <1>1, <1>2, <1>3, <1>4

LEMMA AllTold ==
  ASSUME NEW lines \in Seq(LineKinds), NEW st, Reads(st, lines)
  PROVE  Told(st[Len(lines)], lines, Len(lines))
<1> DEFINE S == {k \in Nat : k <= Len(lines) => Told(st[k], lines, k)}
<1>1. 0 \in S
  BY DEF Reads, Told, Blank, Waiting, PinnedUpTo
<1>2. ASSUME NEW k \in Nat, k \in S PROVE k + 1 \in S
  <2> SUFFICES ASSUME k + 1 <= Len(lines) PROVE Told(st[k + 1], lines, k + 1)
    OBVIOUS
  <2>1. k <= Len(lines) /\ k + 1 \in 1 .. Len(lines) /\ (k + 1) - 1 = k
    OBVIOUS
  <2>2. Told(st[k], lines, k)
    BY <1>2, <2>1
  <2>3. st[k + 1] = ReadLine(st[k], lines[k + 1])
    BY <2>1 DEF Reads
  <2>4. QED BY <2>2, <2>3, ToldStep
<1> HIDE DEF S
<1>3. Len(lines) \in S
  BY <1>1, <1>2, NatSetInduction
<1>4. QED BY <1>3 DEF S

(* The check lets pass exactly the files in which every requirement is      *)
(* pinned and has its hash (validate_exported_requirements).                *)
THEOREM CheckIsExact ==
  ASSUME NEW lines \in Seq(LineKinds)
  PROVE  ValidateExportedRequirements(lines) <=> PinnedWithHash(lines)
<1>1. PICK st : Reads(st, lines) /\ FoldLeft(ReadLine, "none", lines) = st[Len(lines)]
  BY FoldReads
<1>2. Told(st[Len(lines)], lines, Len(lines))
  BY <1>1, AllTold
<1>3. Len(lines) \in Nat
  OBVIOUS
<1>4. QED
  BY <1>1, <1>2, <1>3, BlankIsPinned
     DEF Told, ValidateExportedRequirements, PinnedWithHash

-----------------------------------------------------------------------------
(* What uv export writes                                                   *)

Read(lines) == FoldLeft(ReadLine, "none", lines)

(* What the loop remembers is determined by the lines. *)
LEMMA ReadsUnique ==
  ASSUME NEW s, NEW t, NEW lines \in Seq(LineKinds), NEW n \in 0 .. Len(lines),
         s[0] = "none", \A k \in 1 .. n : s[k] = ReadLine(s[k - 1], lines[k]),
         t[0] = "none", \A k \in 1 .. n : t[k] = ReadLine(t[k - 1], lines[k])
  PROVE  s[n] = t[n]
<1> DEFINE S == {k \in Nat : k <= n => s[k] = t[k]}
<1>1. 0 \in S
  OBVIOUS
<1>2. ASSUME NEW k \in Nat, k \in S PROVE k + 1 \in S
  <2> SUFFICES ASSUME k + 1 <= n PROVE s[k + 1] = t[k + 1]
    OBVIOUS
  <2>1. k + 1 \in 1 .. n /\ (k + 1) - 1 = k /\ k <= n
    OBVIOUS
  <2>2. s[k] = t[k]
    BY <1>2, <2>1
  <2>3. s[k + 1] = ReadLine(s[k], lines[k + 1]) /\ t[k + 1] = ReadLine(t[k], lines[k + 1])
    BY <2>1
  <2>4. QED BY <2>2, <2>3
<1> HIDE DEF S
<1>3. n \in S
  <2>1. n \in Nat
    OBVIOUS
  <2>2. QED BY <1>1, <1>2, <2>1, NatSetInduction
<1>4. QED BY <1>3 DEF S

LEMMA ReadEmpty == Read(<<>>) = "none"
<1>1. <<>> \in Seq(LineKinds) /\ Len(<<>>) = 0
  OBVIOUS
<1>2. QED BY <1>1, FoldReads DEF Reads, Read

(* One more line is one more step. *)
LEMMA ReadAppend ==
  ASSUME NEW lines \in Seq(LineKinds), NEW line \in LineKinds
  PROVE  Read(Append(lines, line)) = ReadLine(Read(lines), line)
<1> DEFINE more == Append(lines, line)
           n == Len(lines)
<1>1. /\ more \in Seq(LineKinds) /\ n \in Nat /\ Len(more) = n + 1
      /\ more[n + 1] = line
      /\ \A k \in 1 .. n : more[k] = lines[k]
  OBVIOUS
<1> HIDE DEF more
<1>2. PICK s : Reads(s, lines) /\ Read(lines) = s[n]
  BY FoldReads DEF Read
<1>3. PICK t : Reads(t, more) /\ Read(more) = t[n + 1]
  BY <1>1, FoldReads DEF Read
<1>4. s[0] = "none" /\ \A k \in 1 .. n : s[k] = ReadLine(s[k - 1], lines[k])
  BY <1>2 DEF Reads
<1>5. t[0] = "none" /\ \A k \in 1 .. n + 1 : t[k] = ReadLine(t[k - 1], more[k])
  BY <1>1, <1>3 DEF Reads
<1>6. \A k \in 1 .. n : t[k] = ReadLine(t[k - 1], lines[k])
  BY <1>1, <1>5
<1>7. n \in 0 .. Len(lines)
  BY <1>1
<1>8. s[n] = t[n]
  BY <1>4, <1>5, <1>6, <1>7, ReadsUnique
<1>9. t[n + 1] = ReadLine(t[n], line)
  <2>1. n + 1 \in 1 .. n + 1 /\ (n + 1) - 1 = n
    BY <1>1
  <2>2. QED BY <1>1, <1>5, <2>1
<1>10. QED BY <1>2, <1>3, <1>8, <1>9 DEF more

(* FlattenSeq joins its sequences one after another. *)
LEMMA FlattenJoins ==
  ASSUME NEW S, NEW seqs \in Seq(Seq(S))
  PROVE  \E fl : /\ fl[0] = <<>>
                 /\ \A i \in 1 .. Len(seqs) : fl[i] = fl[i - 1] \o seqs[i]
                 /\ FlattenSeq(seqs) = fl[Len(seqs)]
<1> DEFINE n == Len(seqs)
           Joined(g, m) == g = [i \in 1 .. m |-> IF i = 1 THEN seqs[i] ELSE g[i - 1] \o seqs[i]]
<1>n. n \in Nat
  OBVIOUS
<1>1. CASE n = 0
  <2>1. seqs = <<>> /\ FlattenSeq(seqs) = seqs
    BY <1>1 DEF FlattenSeq
  <2> DEFINE fl == [i \in {0} |-> <<>>]
  <2>2. fl[0] = <<>> /\ 1 .. n = {}
    BY <1>1
  <2>3. QED BY <1>1, <2>1, <2>2
<1>2. CASE n # 0
  <2> HIDE DEF n
  <2> DEFINE T == {m \in Nat : \E g : Joined(g, m)}
  <2>1. 0 \in T
    <3>1. Joined([i \in 1 .. 0 |-> <<>>], 0)
      OBVIOUS
    <3>2. QED BY <3>1
  <2>2. ASSUME NEW m \in Nat, m \in T PROVE m + 1 \in T
    <3>1. PICK g : Joined(g, m)
      BY <2>2
    <3> DEFINE h == [i \in 1 .. m + 1 |->
                       IF i = 1 THEN seqs[i] ELSE g[i - 1] \o seqs[i]]
    <3>2. ASSUME NEW i \in 1 .. m + 1
          PROVE  h[i] = IF i = 1 THEN seqs[i] ELSE h[i - 1] \o seqs[i]
      <4>1. CASE i = 1
        BY <4>1
      <4>2. CASE i # 1
        <5>1. i - 1 \in 1 .. m /\ i - 1 \in 1 .. m + 1
          BY <4>2
        <5>2. h[i - 1] = g[i - 1]
          BY <3>1, <5>1
        <5>3. h[i] = g[i - 1] \o seqs[i]
          BY <4>2
        <5> HIDE DEF h
        <5>4. QED BY <4>2, <5>2, <5>3
      <4>3. QED BY <4>1, <4>2
    <3>3. h = [i \in 1 .. m + 1 |-> h[i]]
      OBVIOUS
    <3> HIDE DEF h
    <3>4. Joined(h, m + 1)
      BY <3>2, <3>3
    <3>5. \E f : Joined(f, m + 1)
      BY <3>4, Zenon
    <3> HIDE DEF Joined
    <3>6. QED BY <3>5
  <2> HIDE DEF T
  <2>3. n \in T
    BY <1>n, <2>1, <2>2, NatSetInduction
  <2> DEFINE g == CHOOSE g : Joined(g, n)
  <2>4. FlattenSeq(seqs) = g[n]
    BY <1>2, Zenon DEF FlattenSeq, n
  <2>5. Joined(g, n)
    BY <2>3, Zenon DEF T
  <2> HIDE DEF g
  <2> DEFINE fl == [i \in 0 .. n |-> IF i = 0 THEN <<>> ELSE g[i]]
  <2>6. fl[0] = <<>> /\ fl[n] = g[n]
    BY <1>n, <1>2
  <2>7. ASSUME NEW i \in 1 .. n PROVE fl[i] = fl[i - 1] \o seqs[i]
    <3>1. seqs[i] \in Seq(S)
      BY DEF n
    <3>a. i \in 0 .. n /\ i - 1 \in 0 .. n /\ fl[i] = g[i]
      BY <1>n
    <3>b. g[i] = IF i = 1 THEN seqs[i] ELSE g[i - 1] \o seqs[i]
      BY <2>5
    <3>2. CASE i = 1
      <4>1. fl[i - 1] = <<>> /\ fl[i] = seqs[i]
        BY <2>6, <3>a, <3>b, <3>2
      <4> HIDE DEF fl
      <4>2. QED BY <3>1, <4>1
    <3>3. CASE i # 1
      <4>1. i - 1 \in 0 .. n /\ i - 1 # 0
        BY <3>a, <3>3
      <4>2. fl[i - 1] = g[i - 1]
        BY <4>1
      <4>3. fl[i] = g[i - 1] \o seqs[i]
        BY <3>a, <3>b, <3>3, Zenon
      <4> HIDE DEF fl
      <4>4. QED BY <4>2, <4>3
    <3>4. QED BY <3>2, <3>3
  <2> HIDE DEF fl
  <2>8. QED BY <2>4, <2>6, <2>7 DEF n
<1>3. QED BY <1>1, <1>2

(* What one package adds to what the loop remembers. *)
LEMMA PackageRead ==
  ASSUME NEW lines \in Seq(LineKinds), NEW p, NEW members
  PROVE  LET more == lines \o ExportedLines(p, members)
         IN  /\ more \in Seq(LineKinds)
             /\ Exportable(p, members) /\ Read(lines) \in {"none", "hashed"}
                  => Read(more) \in {"none", "hashed"}
             /\ ~Exportable(p, members) \/ Read(lines) \in {"pinned", "error"}
                  => Read(more) \in {"pinned", "error"}
<1> DEFINE more == lines \o ExportedLines(p, members)
           registry == \E pair \in p.source : pair[1] = "registry"
<1> {"blank", "hash", "pinned", "direct"} \subseteq LineKinds
  BY DEF LineKinds
<1>0. Read(lines) \in {"none", "pinned", "hashed", "error"}
  BY FoldReads, AllTold DEF Told, Read
<1>1. CASE FromWorkspace(p, members)
  <2>1. ExportedLines(p, members) = <<>> /\ Exportable(p, members)
    <3>1. ~registry
      BY <1>1 DEF FromWorkspace
    <3> HIDE DEF registry
    <3>2. QED BY <1>1, <3>1 DEF ExportedLines, Exportable, registry
  <2>2. QED BY <2>1
<1>2. CASE ~FromWorkspace(p, members) /\ registry /\ p.hashed
  <2>1. ExportedLines(p, members) = <<"pinned", "hash", "blank">> /\ Exportable(p, members)
    BY <1>2 DEF ExportedLines, Exportable
  <2> DEFINE one == Append(lines, "pinned")
             two == Append(one, "hash")
  <2>2. one \in Seq(LineKinds) /\ two \in Seq(LineKinds) /\ more = Append(two, "blank")
    BY <2>1
  <2>3. /\ Read(one) = ReadLine(Read(lines), "pinned")
        /\ Read(two) = ReadLine(Read(one), "hash")
        /\ Read(more) = ReadLine(Read(two), "blank")
    BY <2>2, ReadAppend
  <2> HIDE DEF one, two, more
  <2>4. QED BY <1>0, <2>1, <2>2, <2>3 DEF ReadLine, more
<1>3. CASE ~FromWorkspace(p, members) /\ registry /\ ~p.hashed
  <2>1. ExportedLines(p, members) = <<"pinned", "blank">> /\ ~Exportable(p, members)
    BY <1>3 DEF ExportedLines, Exportable
  <2> DEFINE one == Append(lines, "pinned")
  <2>2. one \in Seq(LineKinds) /\ more = Append(one, "blank")
    BY <2>1
  <2>3. /\ Read(one) = ReadLine(Read(lines), "pinned")
        /\ Read(more) = ReadLine(Read(one), "blank")
    BY <2>2, ReadAppend
  <2> HIDE DEF one, more
  <2>4. QED BY <1>0, <2>1, <2>2, <2>3 DEF ReadLine, more
<1>4. CASE ~FromWorkspace(p, members) /\ ~registry
  <2>1. ExportedLines(p, members) = <<"direct">> /\ ~Exportable(p, members)
    BY <1>4 DEF ExportedLines, Exportable
  <2>2. more = Append(lines, "direct")
    BY <2>1
  <2>3. Read(more) = ReadLine(Read(lines), "direct")
    BY <2>2, ReadAppend
  <2> HIDE DEF more
  <2>4. QED BY <1>0, <2>1, <2>2, <2>3 DEF ReadLine, more
<1>5. QED BY <1>1, <1>2, <1>3, <1>4

(* An export has only lines of the known kinds, and it passes the check if  *)
(* and only if every package is the workspace's own, or comes from a        *)
(* registry and has hashes (validate_exported_requirements).                *)
THEOREM ExportPasses ==
  ASSUME NEW packages, packages \in Seq(Range(packages)), NEW members
  PROVE  /\ Exported(packages, members) \in Seq(LineKinds)
         /\ ValidateExportedRequirements(Exported(packages, members)) <=>
              \A p \in Range(packages) : Exportable(p, members)
<1> DEFINE n == Len(packages)
           seqs == [i \in DOMAIN packages |-> ExportedLines(packages[i], members)]
<1>1. n \in Nat /\ DOMAIN packages = 1 .. n
  OBVIOUS
<1>2. \A i \in 1 .. n : seqs[i] \in Seq(LineKinds)
  <2>1. <<>> \in Seq(LineKinds)
    OBVIOUS
  <2>2. ASSUME NEW p PROVE <<>> \o ExportedLines(p, members) = ExportedLines(p, members)
    BY DEF ExportedLines
  <2>3. QED BY <1>1, <2>1, <2>2, PackageRead
<1>3. seqs \in Seq(Seq(LineKinds)) /\ Len(seqs) = n
  BY <1>1, <1>2
<1>4. \A i \in 1 .. n : seqs[i] = ExportedLines(packages[i], members)
  BY <1>1
<1>5. Exported(packages, members) = FlattenSeq(seqs)
  BY Zenon DEF Exported
<1> HIDE DEF n, seqs
<1>6. PICK fl :
        /\ fl[0] = <<>>
        /\ \A i \in 1 .. n : fl[i] = fl[i - 1] \o seqs[i]
        /\ Exported(packages, members) = fl[n]
  BY <1>3, <1>5, FlattenJoins
<1> DEFINE Fine(i) == \A j \in 1 .. i : Exportable(packages[j], members)
           T == {i \in Nat : i <= n =>
                   /\ fl[i] \in Seq(LineKinds)
                   /\ Fine(i)  => Read(fl[i]) \in {"none", "hashed"}
                   /\ ~Fine(i) => Read(fl[i]) \in {"pinned", "error"}}
<1>7. 0 \in T
  <2>1. Fine(0) /\ <<>> \in Seq(LineKinds)
    OBVIOUS
  <2>2. Read(fl[0]) = "none"
    BY <1>6, ReadEmpty, Zenon
  <2> HIDE DEF Fine
  <2>3. QED BY <1>6, <2>1, <2>2
<1>8. ASSUME NEW i \in Nat, i \in T PROVE i + 1 \in T
  <2> SUFFICES ASSUME i + 1 <= n
               PROVE  /\ fl[i + 1] \in Seq(LineKinds)
                      /\ Fine(i + 1)  => Read(fl[i + 1]) \in {"none", "hashed"}
                      /\ ~Fine(i + 1) => Read(fl[i + 1]) \in {"pinned", "error"}
    OBVIOUS
  <2>1. i <= n /\ i + 1 \in 1 .. n /\ (i + 1) - 1 = i
    BY <1>1
  <2>2. fl[i + 1] = fl[i] \o ExportedLines(packages[i + 1], members)
    BY <1>4, <1>6, <2>1
  <2>3. /\ fl[i] \in Seq(LineKinds)
        /\ Fine(i)  => Read(fl[i]) \in {"none", "hashed"}
        /\ ~Fine(i) => Read(fl[i]) \in {"pinned", "error"}
    BY <1>8, <2>1
  <2>4. Fine(i + 1) <=> Fine(i) /\ Exportable(packages[i + 1], members)
    OBVIOUS
  <2> HIDE DEF Fine
  <2>5. QED BY <2>2, <2>3, <2>4, PackageRead
<1> HIDE DEF T
<1>9. n \in T
  BY <1>1, <1>7, <1>8, NatSetInduction
<1>10. Fine(n) <=> \A p \in Range(packages) : Exportable(p, members)
  BY <1>1 DEF Range
<1> HIDE DEF Fine
<1>11. /\ fl[n] \in Seq(LineKinds)
       /\ Read(fl[n]) \in {"none", "hashed"} <=> Fine(n)
  BY <1>1, <1>9 DEF T
<1>12. ValidateExportedRequirements(fl[n]) <=> Read(fl[n]) \in {"none", "hashed"}
  BY Zenon DEF ValidateExportedRequirements, Read
<1>13. QED BY <1>6, <1>10, <1>11, <1>12, Zenon

-----------------------------------------------------------------------------
(* What the checks of the lock and of its export are worth                 *)

(* Whatever uv export writes, the check lets pass exactly the files in      *)
(* which every requirement is pinned and hashed; and of what it should      *)
(* write, exactly that of locks with nothing but the workspace and hashed   *)
(* packages of registries: for files of any length and locks of any size.   *)
THEOREM ExportIsChecked == Spec => []ExportCheckIsExact
<1>1. ASSUME TypeOK PROVE ExportCheckIsExact
  <2>1. lock \in Locks /\ lock \in Seq(Range(lock))
    BY <1>1, ExportedLockAssumption DEF TypeOK
  <2>2. Exported(lock, Members) \in Seq(LineKinds)
    BY <2>1, ExportPasses
  <2>3. lock \in HashedLocks <=> \A p \in Range(lock) : Exportable(p, Members)
    BY <2>1, ExportPasses, ExportedLockAssumption, Zenon
  <2>4. ASSUME NEW more \in BoundedSeq(LineKinds, MaxLines)
        PROVE  more \in Seq(LineKinds)
    BY MaxLinesAssumption DEF BoundedSeq, SeqOf
  <2>5. ASSUME NEW more \in BoundedSeq(LineKinds, MaxLines),
               NEW lines \in {more, Exported(lock, Members) \o more}
        PROVE  ValidateExportedRequirements(lines) <=> PinnedWithHash(lines)
    <3>1. lines \in Seq(LineKinds)
      <4> DEFINE export == Exported(lock, Members)
      <4>1. export \in Seq(LineKinds) /\ more \in Seq(LineKinds)
        BY <2>2, <2>4
      <4> HIDE DEF export
      <4>2. export \o more \in Seq(LineKinds)
        BY <4>1
      <4>3. lines \in {more, export \o more}
        BY DEF export
      <4>4. QED BY <4>1, <4>2, <4>3, Zenon
    <3>2. QED BY <3>1, CheckIsExact
  <2>6. QED BY <2>3, <2>5, Zenon DEF ExportCheckIsExact
<1>2. QED BY <1>1, ApprovedIndexTypeCorrect, PTL

(* With one task at a time and a uv.lock that does not return to an earlier *)
(* content, no target runs with a package of another index, or with one     *)
(* whose hash was not checked, or installed from a lock that names another  *)
(* host.                                                                    *)
THEOREM OnlyVettedIsUsed ==
  ASSUME OneTask, ~Reverts
  PROVE  Spec => []UsedIsVetted
<1>1. ASSUME TypeOK, UsedIsBuilt PROVE UsedIsVetted
  <2> SUFFICES ASSUME NEW t \in Tasks, At(t, "using"), NEW p \in Range(task[t].digest)
               PROVE  /\ FromWorkspace(p, Members) \/ (FromRegistry(p) /\ p.hashed)
                      /\ \A url \in p.urls : ValidateArtifactUrl(url)
    BY DEF UsedIsVetted
  <2> DEFINE l == task[t].digest
  <2>1. l \in PublicLocks \cap HashedLocks
    BY <1>1 DEF UsedIsBuilt
  <2> HIDE DEF l
  <2>2. l \in Locks /\ l \in Seq(Range(l))
    BY <2>1, ExportedLockAssumption
  <2>3. ValidatePublicLock(l, Members)
    BY <2>1, ExportedLockAssumption
  <2>4. \A q \in Range(l) : Exportable(q, Members)
    BY <2>1, <2>2, ExportedLockAssumption, ExportPasses
  <2>5. p \in Range(l)
    BY DEF l
  <2>6. QED BY <2>3, <2>4, <2>5 DEF ValidatePublicLock, Exportable
<1>2. QED BY <1>1, ApprovedIndexTypeCorrect, OnlyBuiltIsUsed, PTL
=============================================================================
