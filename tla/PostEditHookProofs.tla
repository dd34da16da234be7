------------------------- MODULE PostEditHookProofs -------------------------
(***************************************************************************)
(* Theorems about PostEditHook, for every pair of timeouts of which the     *)
(* hook's is the longer one, and every number of revisions.                 *)
(***************************************************************************)
EXTENDS PostEditHook, TLAPS

(* The hook has something to write back. *)
HasInput == hook.at = "restore" => hook.input \in Content

(* The one command of a Bicep file ends before the hook is killed, and its  *)
(* failure leaves room for the rest.                                        *)
BicepIsInTime ==
  /\ kind = "bicep" /\ hook.at \in {"start", "command"} => hook.elapsed = hook.running
  /\ kind = "bicep" => /\ hook.at \in {"start", "command"} => hook.number = 1
                       /\ 2 \notin hook.failed
  /\ unsaid => kind = "py"

(* If nobody else writes the file before the hook reads it or when it is    *)
(* over, it is at first as the agent saw it, and then before is.            *)
BeforeIsSeen ==
  ~WroteAt("user", {"idle", "start"}) /\ ~WroteAt("formatter", {"idle", "start"}) =>
    CASE hook.at = "idle"  -> file = Absent \/ view = file \/ told \/ unsaid
      [] hook.at = "start" -> file = Absent \/ view = file
      [] OTHER             -> hook.before = view

(* Line ends are restored on the way from a successful command to the       *)
(* comparison.                                                              *)
EolIsRestored ==
  kind = "bicep" /\ hook.at = "compare" /\ hook.failed = {} /\ file # Absent
    /\ ~WroteAt("user", {"compare"}) /\ ~WroteAt("formatter", {"compare"}) =>
       file.eol = DetectEol(hook.before)

Inv == TypeOK /\ HasInput /\ BicepIsInTime /\ BeforeIsSeen /\ EolIsRestored

-----------------------------------------------------------------------------
(* The operators                                                           *)

LEMMA SavedType ==
  ASSUME TypeOK, Revision < MaxRevisions
  PROVE  Saved \subseteq Content
BY PostEditHookAssumption DEF TypeOK, Saved, Revision, Content, Forms, Eols

LEMMA ResultsType ==
  ASSUME NEW content \in Content, NEW number
  PROVE  Results(content, number) \subseteq Content
BY DEF Results, Content, Forms, Eols

LEMMA NormalizeEolType ==
  ASSUME NEW content \in Content, NEW before
  PROVE  /\ NormalizeEol(content, DetectEol(before)) \in Content
         /\ NormalizeEol(content, DetectEol(before)).eol = DetectEol(before)
BY DEF NormalizeEol, DetectEol, Content, Eols

LEMMA NoHookType ==
  NoHook \in Hook /\ NoHook.at = "idle" /\ NoHook.number = 1 /\ NoHook.failed = {}
BY PostEditHookAssumption DEF NoHook, Hook

LEMMA AfterCommandType ==
  ASSUME TypeOK, NEW ok \in BOOLEAN
  PROVE  AfterCommand(ok) \in Hook
<1>1. StepAfter(ok) \in {"command", "written", "compare"}
  BY DEF StepAfter
<1>2. hook \in Hook /\ 0 \in 0 .. CommandTimeout
  BY PostEditHookAssumption DEF TypeOK
<1>3. [hook EXCEPT !.at = StepAfter(ok)] \in Hook
  BY <1>1, <1>2 DEF Hook
<1>f. (IF ok THEN hook.failed ELSE hook.failed \cup {hook.number}) \in SUBSET (1 .. 2)
  BY <1>2 DEF Hook
<1>4. ASSUME NEW h \in Hook, NEW failed \in SUBSET (1 .. 2)
      PROVE  [h EXCEPT !.number = 2, !.failed = failed] \in Hook
  <2>1. [h EXCEPT !.number = 2] \in Hook
    BY DEF Hook
  <2>2. ASSUME NEW g \in Hook PROVE [g EXCEPT !.failed = failed] \in Hook
    BY DEF Hook
  <2>3. QED BY <2>1, <2>2
<1>5. \A h \in Hook : [h EXCEPT !.input = Absent, !.wrote = FALSE] \in Hook
  BY DEF Hook
<1>6. \A h \in Hook : [h EXCEPT !.running = 0] \in Hook
  BY <1>2 DEF Hook
<1>7. AfterCommand(ok) =
        [[[[hook EXCEPT !.at = StepAfter(ok)]
             EXCEPT !.number = 2,
                    !.failed = IF ok THEN hook.failed ELSE hook.failed \cup {hook.number}]
            EXCEPT !.input = Absent, !.wrote = FALSE]
           EXCEPT !.running = 0]
  BY DEF AfterCommand
<1>8. QED BY <1>f, <1>3, <1>4, <1>5, <1>6, <1>7

-----------------------------------------------------------------------------
LEMMA InvInit == Init => Inv
<1> SUFFICES ASSUME Init PROVE Inv
  OBVIOUS
<1>1. TypeOK
  BY NoHookType DEF Init, TypeOK
<1>2. hook.at = "idle" /\ hook.failed = {} /\ file = Absent /\ unsaid = FALSE
  BY NoHookType DEF Init
<1>3. HasInput /\ EolIsRestored
  BY <1>2 DEF HasInput, EolIsRestored
<1>4. BicepIsInTime
  BY <1>2 DEF BicepIsInTime
<1>5. BeforeIsSeen
  BY <1>2 DEF BeforeIsSeen
<1>6. QED BY <1>1, <1>3, <1>4, <1>5 DEF Inv

LEMMA NotesType ==
  ASSUME TypeOK, NEW who \in {"user", "formatter"}, Notes(who)
  PROVE  others' \subseteq {"user", "formatter"} \X Outside
BY DEF TypeOK, Notes

LEMMA TypeStep == TypeOK /\ HasInput /\ [Next]_vars => TypeOK'
<1> SUFFICES ASSUME TypeOK, HasInput, [Next]_vars PROVE TypeOK'
  OBVIOUS
<1>1. CASE AgentEdit
  <2>1. file' \in Content
    BY <1>1, SavedType DEF AgentEdit
  <2>2. hook' \in Hook
    BY <1>1, NoHookType DEF AgentEdit, Hook
  <2>3. QED BY <1>1, <2>1, <2>2 DEF AgentEdit, TypeOK
<1>2. CASE UserSaves
  BY <1>2, SavedType, NotesType DEF UserSaves, TypeOK
<1>3. CASE UserDeletes
  BY <1>3, NotesType DEF UserDeletes, TypeOK
<1>4. CASE HookBegins
  <2>1. hook' \in Hook
    BY <1>4, NoHookType DEF HookBegins, TypeOK, Hook
  <2>2. QED BY <1>4, <2>1 DEF HookBegins, TypeOK
<1>5. CASE HookReadsFormatted
  <2>1. hook' \in Hook
    BY <1>5 DEF HookReadsFormatted, TypeOK, Hook
  <2>2. QED BY <1>5, <2>1 DEF HookReadsFormatted, TypeOK
<1>6. CASE HookRestoresEol
  <2>1. hook.input \in Content
    BY <1>6 DEF HookRestoresEol, HasInput
  <2>2. QED BY <1>6, <2>1, NormalizeEolType DEF HookRestoresEol, TypeOK, Hook
<1>7. CASE HookCompares
  BY <1>7, NoHookType DEF HookCompares, TypeOK
<1>8. CASE CommandReads
  BY <1>8 DEF CommandReads, TypeOK, Hook
<1>9. CASE CommandWrites
  <2>1. hook.input \in Content
    BY <1>9 DEF CommandWrites, TypeOK, Hook
  <2>2. file' \in Content
    BY <1>9, <2>1, ResultsType DEF CommandWrites
  <2>3. QED BY <1>9, <2>2 DEF CommandWrites, TypeOK, Hook
<1>10. CASE CommandEnds
  BY <1>10, AfterCommandType DEF CommandEnds, TypeOK
<1>11. CASE CommandTimesOut
  BY <1>11, AfterCommandType DEF CommandTimesOut, TypeOK, Hook
<1>12. CASE OrphanWrites
  <2>1. file' \in Content
    BY <1>12, ResultsType DEF OrphanWrites, TypeOK
  <2>2. QED BY <1>12, <2>1, NotesType DEF OrphanWrites, TypeOK
<1>13. CASE Tick
  <2>1. hook.running \in 0 .. CommandTimeout /\ hook.elapsed \in 0 .. HookTimeout
    BY DEF TypeOK, Hook
  <2>2. hook.running + 1 \in 0 .. CommandTimeout /\ hook.elapsed + 1 \in 0 .. HookTimeout
    BY <1>13, <2>1, PostEditHookAssumption DEF Tick
  <2>3. QED BY <1>13, <2>2 DEF Tick, TypeOK, Hook
<1>14. CASE RunnerKills
  BY <1>14, NoHookType DEF RunnerKills, TypeOK, Hook
<1>15. CASE UNCHANGED vars
  BY <1>15 DEF vars, TypeOK
<1>16. QED BY <1>1, <1>2, <1>3, <1>4, <1>5, <1>6, <1>7, <1>8, <1>9, <1>10, <1>11, <1>12,
             <1>13, <1>14, <1>15 DEF Next

LEMMA HasInputStep == TypeOK /\ HasInput /\ [Next]_vars => HasInput'
<1> SUFFICES ASSUME TypeOK, HasInput, [Next]_vars, hook'.at = "restore"
             PROVE  hook'.input \in Content
  BY DEF HasInput
<1>1. CASE HookReadsFormatted
  BY <1>1 DEF HookReadsFormatted, TypeOK, Hook
<1>2. CASE UNCHANGED hook
  BY <1>2 DEF HasInput
<1>3. ASSUME NEW ok \in BOOLEAN PROVE AfterCommand(ok).at # "restore"
  BY DEF AfterCommand, StepAfter, TypeOK, Hook
<1>4. CASE CommandEnds \/ CommandTimesOut
  BY <1>3, <1>4 DEF CommandEnds, CommandTimesOut
<1>5. CASE AgentEdit \/ HookCompares \/ RunnerKills
  BY <1>5 DEF AgentEdit, HookCompares, RunnerKills, NoHook
<1>6. CASE HookBegins
  BY <1>6 DEF HookBegins, NoHook, TypeOK, Hook
<1>7. CASE HookRestoresEol \/ CommandReads \/ CommandWrites \/ Tick
  BY <1>7 DEF HookRestoresEol, CommandReads, CommandWrites, Tick, TypeOK, Hook
<1>8. QED BY <1>1, <1>2, <1>4, <1>5, <1>6, <1>7
          DEF Next, vars, UserSaves, UserDeletes, OrphanWrites

(* A Bicep file has one command: when it is killed it has run for as long   *)
(* as a command may, and that is less than the hook is given.               *)
LEMMA BicepStep == TypeOK /\ BicepIsInTime /\ [Next]_vars => BicepIsInTime'
<1> SUFFICES ASSUME TypeOK, BicepIsInTime, [Next]_vars PROVE BicepIsInTime'
  OBVIOUS
<1>1. CASE UNCHANGED <<kind, hook, unsaid>>
  BY <1>1 DEF BicepIsInTime
<1>2. CASE AgentEdit \/ HookCompares
  <2>1. CASE AgentEdit
    BY <2>1 DEF AgentEdit, NoHook, BicepIsInTime
  <2>2. CASE HookCompares
    <3>1. kind = "bicep" => hook.failed # 1 .. 2
      BY DEF BicepIsInTime
    <3>2. unsaid' => kind' = "py"
      BY <2>2, <3>1, PostEditHookAssumption DEF HookCompares, TypeOK
    <3>3. QED BY <2>2, <3>2, NoHookType DEF HookCompares, BicepIsInTime
  <2>3. QED BY <1>2, <2>1, <2>2
<1>3. CASE HookBegins
  BY <1>3 DEF HookBegins, NoHook, BicepIsInTime, TypeOK, Hook
<1>4. CASE CommandEnds \/ CommandTimesOut
  <2>1. ASSUME NEW ok \in BOOLEAN, kind = "bicep" PROVE AfterCommand(ok).at # "command"
    BY <2>1 DEF AfterCommand, StepAfter, TypeOK, Hook
  <2>2. ASSUME NEW ok \in BOOLEAN, kind = "bicep" PROVE AfterCommand(ok).at # "start"
    BY <2>2 DEF AfterCommand, StepAfter, TypeOK, Hook
  <2>3. PICK ok \in BOOLEAN : hook' = AfterCommand(ok)
    BY <1>4 DEF CommandEnds, CommandTimesOut
  <2>4. UNCHANGED <<kind, unsaid>>
    BY <1>4 DEF CommandEnds, CommandTimesOut
  <2>5. kind = "bicep" => 2 \notin hook'.failed
    <3>1. hook'.failed \in {hook.failed, hook.failed \cup {hook.number}}
      BY <2>3 DEF AfterCommand, TypeOK, Hook
    <3>2. hook.at = "command"
      BY <1>4 DEF CommandEnds, CommandTimesOut
    <3>3. QED BY <3>1, <3>2 DEF BicepIsInTime
  <2>6. QED BY <2>1, <2>2, <2>3, <2>4, <2>5 DEF BicepIsInTime
<1>5. CASE HookReadsFormatted \/ HookRestoresEol
  <2>1. hook'.at \notin {"start", "command"} /\ hook'.failed = hook.failed
    BY <1>5 DEF HookReadsFormatted, HookRestoresEol, TypeOK, Hook
  <2>2. UNCHANGED <<kind, unsaid>>
    BY <1>5 DEF HookReadsFormatted, HookRestoresEol
  <2>3. QED BY <2>1, <2>2 DEF BicepIsInTime
<1>6. CASE CommandReads \/ CommandWrites \/ Tick
  <2>1. /\ hook.at = "command" /\ hook'.at = "command"
        /\ hook'.number = hook.number /\ hook'.failed = hook.failed
        /\ \/ hook'.running = hook.running /\ hook'.elapsed = hook.elapsed
           \/ hook'.running = hook.running + 1 /\ hook'.elapsed = hook.elapsed + 1
    BY <1>6 DEF CommandReads, CommandWrites, Tick, TypeOK, Hook
  <2>2. UNCHANGED <<kind, unsaid>>
    BY <1>6 DEF CommandReads, CommandWrites, Tick
  <2>3. QED BY <2>1, <2>2 DEF BicepIsInTime
<1>7. CASE RunnerKills
  <2>1. hook.running \in 0 .. CommandTimeout
    BY DEF TypeOK, Hook
  <2>2. kind # "bicep"
    BY <1>7, <2>1, PostEditHookAssumption DEF RunnerKills, BicepIsInTime
  <2>3. kind = "py"
    BY <2>2, PostEditHookAssumption DEF TypeOK
  <2>4. QED BY <1>7, <2>3 DEF RunnerKills, BicepIsInTime, NoHook
<1>8. QED BY <1>1, <1>2, <1>3, <1>4, <1>5, <1>6, <1>7
          DEF Next, vars, UserSaves, UserDeletes, OrphanWrites

-----------------------------------------------------------------------------
(* What the observer has noted stays until the agent edits again. *)
LEMMA NotesStay ==
  ASSUME [Next]_vars, ~AgentEdit
  PROVE  others \subseteq others'
<1>1. CASE UserSaves \/ UserDeletes \/ OrphanWrites
  BY <1>1 DEF UserSaves, UserDeletes, OrphanWrites, Notes
<1>2. CASE ~(UserSaves \/ UserDeletes \/ OrphanWrites)
  BY <1>2 DEF Next, vars, HookBegins, HookReadsFormatted, HookRestoresEol, HookCompares,
              CommandReads, CommandWrites, CommandEnds, CommandTimesOut, Tick, RunnerKills
<1>3. QED BY <1>1, <1>2

LEMMA OthersWrite ==
  ASSUME UserSaves \/ UserDeletes \/ OrphanWrites
  PROVE  /\ UNCHANGED <<hook, view, told, unsaid, kind>>
         /\ hook.at \in Outside => \E who \in {"user", "formatter"} : <<who, hook.at>> \in others'
BY DEF UserSaves, UserDeletes, OrphanWrites, Notes

LEMMA BeforeStep == Inv /\ [Next]_vars => BeforeIsSeen'
<1> DEFINE Quiet == ~WroteAt("user", {"idle", "start"}) /\ ~WroteAt("formatter", {"idle", "start"})
           Goal  == CASE hook'.at = "idle"  -> file' = Absent \/ view' = file' \/ told' \/ unsaid'
                      [] hook'.at = "start" -> file' = Absent \/ view' = file'
                      [] OTHER             -> hook'.before = view'
<1> SUFFICES ASSUME Inv, [Next]_vars, Quiet'
             PROVE  Goal
  BY DEF BeforeIsSeen
<1> USE DEF Inv
<1>t. hook \in Hook
  BY DEF TypeOK
<1>q. ~AgentEdit => Quiet
  BY NotesStay DEF WroteAt
<1>1. CASE AgentEdit
  <2>1. view' = file' /\ hook'.at = "start"
    BY <1>1, NoHookType DEF AgentEdit, Hook
  <2>2. QED BY <2>1
<1>2. CASE HookBegins
  <2>1. file' = file /\ view' = view /\ hook.at = "start" /\ ~AgentEdit
    BY <1>2 DEF HookBegins, AgentEdit
  <2>2. file = Absent \/ view = file
    BY <1>q, <2>1 DEF BeforeIsSeen
  <2>3. CASE hook' = NoHook
    BY <2>1, <2>2, <2>3, NoHookType
  <2>4. CASE hook' = [hook EXCEPT !.at = "command", !.before = file] /\ file # Absent
    BY <1>t, <2>1, <2>2, <2>4 DEF Hook
  <2>5. QED BY <1>2, <2>3, <2>4 DEF HookBegins
<1>3. CASE HookReadsFormatted \/ HookRestoresEol
  <2>1. hook.at \in {"written", "restore"} /\ view' = view /\ ~AgentEdit
    BY <1>3 DEF HookReadsFormatted, HookRestoresEol, AgentEdit
  <2>2. hook.before = view
    BY <1>q, <2>1 DEF BeforeIsSeen
  <2>3. hook'.at \notin {"idle", "start"} /\ hook'.before = hook.before
    BY <1>3, <1>t DEF HookReadsFormatted, HookRestoresEol, Hook
  <2>4. QED BY <2>1, <2>2, <2>3
<1>4. CASE HookCompares
  <2>1. hook.at = "compare" /\ file' = file /\ view' = view /\ ~AgentEdit
    BY <1>4 DEF HookCompares, AgentEdit
  <2>2. hook.before = view
    BY <1>q, <2>1 DEF BeforeIsSeen
  <2>3. told' \/ unsaid' \/ file = hook.before \/ file = Absent
    BY <1>4 DEF HookCompares
  <2>4. hook'.at = "idle"
    BY <1>4, NoHookType DEF HookCompares
  <2>5. QED BY <2>1, <2>2, <2>3, <2>4
<1>5. CASE CommandReads \/ CommandWrites \/ Tick
  <2>1. hook.at = "command" /\ view' = view /\ ~AgentEdit
    BY <1>5 DEF CommandReads, CommandWrites, Tick, AgentEdit
  <2>2. hook.before = view
    BY <1>q, <2>1 DEF BeforeIsSeen
  <2>3. hook'.at = "command" /\ hook'.before = hook.before
    BY <1>5, <1>t DEF CommandReads, CommandWrites, Tick, Hook
  <2>4. QED BY <2>1, <2>2, <2>3
<1>6. CASE CommandEnds \/ CommandTimesOut
  <2>1. hook.at = "command" /\ view' = view /\ ~AgentEdit
    BY <1>6 DEF CommandEnds, CommandTimesOut, AgentEdit
  <2>2. hook.before = view
    BY <1>q, <2>1 DEF BeforeIsSeen
  <2>3. PICK ok \in BOOLEAN : hook' = AfterCommand(ok)
    BY <1>6 DEF CommandEnds, CommandTimesOut
  <2>4. hook'.at \notin {"idle", "start"} /\ hook'.before = hook.before
    BY <1>t, <2>3 DEF AfterCommand, StepAfter, Hook
  <2>5. QED BY <2>1, <2>2, <2>4
<1>7. CASE RunnerKills
  BY <1>7, NoHookType DEF RunnerKills
<1>8. CASE UserSaves \/ UserDeletes \/ OrphanWrites
  <2>1. hook.at \notin {"idle", "start"}
    BY <1>8, OthersWrite DEF WroteAt, Outside
  <2>2. hook' = hook /\ view' = view /\ ~AgentEdit
    BY <1>8, <2>1, OthersWrite DEF AgentEdit
  <2>3. QED BY <1>q, <2>1, <2>2 DEF BeforeIsSeen
<1>9. CASE UNCHANGED vars
  BY <1>9 DEF vars, BeforeIsSeen, WroteAt
<1>10. QED BY <1>1, <1>2, <1>3, <1>4, <1>5, <1>6, <1>7, <1>8, <1>9 DEF Next

LEMMA EolStep == Inv /\ [Next]_vars => EolIsRestored'
<1> SUFFICES ASSUME Inv, [Next]_vars, kind' = "bicep",
                    hook'.at = "compare", hook'.failed = {}, file' # Absent,
                    ~WroteAt("user", {"compare"})', ~WroteAt("formatter", {"compare"})'
             PROVE  file'.eol = DetectEol(hook'.before)
  BY DEF EolIsRestored, DetectEol, WroteAt
<1> USE DEF Inv
<1>t. hook \in Hook
  BY DEF TypeOK
<1>1. CASE HookReadsFormatted
  <2>1. file' = file /\ file = NormalizeEol(file, DetectEol(hook.before))
    BY <1>1, <1>t DEF HookReadsFormatted, Hook
  <2>2. file \in Content /\ hook'.before = hook.before
    BY <1>1, <1>t, <2>1 DEF HookReadsFormatted, TypeOK, Hook
  <2>3. QED BY <2>1, <2>2, NormalizeEolType
<1>2. CASE HookRestoresEol
  <2>1. hook'.before = hook.before /\ hook.input \in Content
    BY <1>2, <1>t DEF HookRestoresEol, HasInput, Hook
  <2>2. QED BY <1>2, <2>1, NormalizeEolType DEF HookRestoresEol
<1>3. CASE CommandEnds \/ CommandTimesOut
  <2>1. PICK ok \in BOOLEAN : hook' = AfterCommand(ok)
    BY <1>3 DEF CommandEnds, CommandTimesOut
  <2>2. kind = "bicep"
    BY <1>3 DEF CommandEnds, CommandTimesOut
  <2>3. ok \/ hook'.failed # {}
    BY <1>t, <2>1 DEF AfterCommand, Hook
  <2>4. ok => hook'.at = "written"
    BY <1>t, <2>1, <2>2 DEF AfterCommand, StepAfter, Hook
  <2>5. QED BY <2>3, <2>4
<1>4. CASE AgentEdit \/ HookCompares \/ RunnerKills
  BY <1>4, <1>t DEF AgentEdit, HookCompares, RunnerKills, NoHook
<1>5. CASE HookBegins
  BY <1>5, <1>t DEF HookBegins, NoHook, Hook
<1>6. CASE CommandReads \/ CommandWrites \/ Tick
  BY <1>6, <1>t DEF CommandReads, CommandWrites, Tick, Hook
<1>7. CASE UserSaves \/ UserDeletes \/ OrphanWrites
  BY <1>7, OthersWrite DEF WroteAt, Outside
<1>8. CASE UNCHANGED vars
  BY <1>8 DEF vars, EolIsRestored, DetectEol, WroteAt
<1>9. QED BY <1>1, <1>2, <1>3, <1>4, <1>5, <1>6, <1>7, <1>8 DEF Next

LEMMA InvStep == Inv /\ [Next]_vars => Inv'
BY TypeStep, HasInputStep, BicepStep, BeforeStep, EolStep DEF Inv

LEMMA Invariance == Spec => []Inv
<1>1. QED BY InvInit, InvStep, PTL DEF Spec

-----------------------------------------------------------------------------
(* The variables of the hook, the file, and what a formatter has read stay  *)
(* in their types; the time of a command and of the hook within the two     *)
(* timeouts.                                                                *)
THEOREM HookIsTyped == Spec => []TypeOK
<1>1. Inv => TypeOK
  BY DEF Inv
<1>2. QED BY <1>1, Invariance, PTL

(* However the two timeouts are set, the hook's the longer: only a hook for *)
(* a Python file is ever killed, as a Bicep file's one command has to end   *)
(* before; and only for a Python file is a change left unsaid.              *)
THEOREM BicepIsNeverKilled == Spec => [][RunnerKills \/ (HookCompares /\ unsaid') => kind = "py"]_vars
<1>1. Inv /\ [Next]_vars => [RunnerKills \/ (HookCompares /\ unsaid') => kind = "py"]_vars
  <2> SUFFICES ASSUME Inv, [Next]_vars, RunnerKills \/ (HookCompares /\ unsaid')
               PROVE  kind = "py"
    OBVIOUS
  <2>1. BicepIsInTime'
    BY InvStep DEF Inv
  <2>2. unsaid' /\ kind' = kind
    BY DEF RunnerKills, HookCompares
  <2>3. QED BY <2>1, <2>2 DEF BicepIsInTime
<1>2. QED BY <1>1, Invariance, PTL DEF Spec

(* The agent edits what it has seen, or was told to read, if no user wrote  *)
(* the file before its hook's first read or after its last; but for a       *)
(* Python file whose hook was killed or had no room left, and for a file of *)
(* either kind that a formatter which outlived its parent wrote outside the *)
(* hook.                                                                    *)
THEOREM AgentEditsWhatItSaw == Spec => AgentIsCurrent
<1>1. Inv /\ [Next]_vars =>
        [AgentEdit /\ file # Absent /\ ~WroteAt("user", {"idle", "start"}) =>
           \/ view = file \/ told
           \/ kind = "py" /\ unsaid
           \/ WroteAt("formatter", {"idle", "start"})]_vars
  BY DEF Inv, AgentEdit, BeforeIsSeen, BicepIsInTime
<1>2. QED BY <1>1, Invariance, PTL DEF Spec, AgentIsCurrent

(* A Bicep file that was formatted ends its lines as before when the hook   *)
(* compares it, unless somebody wrote it after the line ends were restored. *)
THEOREM LineEndsAreKept == Spec => LineEndsKept
<1>1. Inv /\ [Next]_vars =>
        [HookCompares /\ kind = "bicep" /\ hook.failed = {} /\ file # Absent
           /\ ~WroteAt("user", {"compare"}) /\ ~WroteAt("formatter", {"compare"}) =>
             file.eol = DetectEol(hook.before)]_vars
  BY DEF Inv, HookCompares, EolIsRestored
<1>2. QED BY <1>1, Invariance, PTL DEF Spec, LineEndsKept
=============================================================================
