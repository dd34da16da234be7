---------------------------- MODULE PostEditHook ----------------------------
(***************************************************************************)
(* One file that a coding agent edits, and the hook that runs after each    *)
(* edit: it has the file fixed and formatted, and tells the agent if that   *)
(* changed it, so that the agent reads it again before it goes on.  The     *)
(* agent waits for the hook; a user with an editor does not.                *)
(*                                                                         *)
(* A formatter reads the file, and some time later writes it.  The hook     *)
(* gives it CommandTimeout; the runner of hooks gives the hook HookTimeout. *)
(* What they kill is the process they started: its children may go on.      *)
(***************************************************************************)
EXTENDS Integers, FiniteSets

CONSTANTS
  Kinds,            \* the suffixes of files, out of {"py", "bicep"}
  CommandTimeout,   \* COMMAND_TIMEOUT_SEC
  HookTimeout,      \* timeoutSec of hooks.json
  MaxRevisions,     \* bound: how often the text is changed
  Absent            \* in place of the content of a file that is not there

ASSUME PostEditHookAssumption ==
  /\ Kinds \subseteq {"py", "bicep"}
  /\ CommandTimeout \in Nat \ {0} /\ HookTimeout \in Nat /\ MaxRevisions \in Nat
  /\ CommandTimeout < HookTimeout

VARIABLES
  kind,      \* the file's suffix
  file,      \* its content
  hook,      \* the hook's process
  orphan,    \* what a formatter has read that outlived the process it was started by
  view,      \* the content as the agent last saw it
  told,      \* the agent was told to read the file again
  others,    \* observer: who else wrote the file since the agent's edit before or
             \* after the hook was at work on it, and what it was at then
  unsaid     \* observer: the hook after the last edit changed the file unsaid, or was killed

vars == <<kind, file, hook, orphan, view, told, others, unsaid>>

Eols  == {"lf", "crlf", "mixed"}
Forms == {"raw", "fixed", "formatted"}

Content == [text : 0 .. MaxRevisions, form : Forms, eol : Eols]

ASSUME AbsentAssumption == Absent \notin Content

(* Where the hook has yet to read the file, or has but to compare it. *)
Outside == {"idle", "start", "compare"}

(* number is that of the command, input what the command, or at last the    *)
(* hook, has read; wrote: the command has written; failed: which commands   *)
(* have failed.                                                             *)
Hook == [at : {"idle", "start", "command", "restore", "written", "compare"},
         before : Content \cup {Absent}, number : 1 .. 2,
         input : Content \cup {Absent}, wrote : BOOLEAN, failed : SUBSET (1 .. 2),
         running : 0 .. CommandTimeout, elapsed : 0 .. HookTimeout]

NoHook == [at |-> "idle", before |-> Absent, number |-> 1, input |-> Absent,
           wrote |-> FALSE, failed |-> {}, running |-> 0, elapsed |-> 0]

TypeOK ==
  /\ kind \in Kinds
  /\ file \in Content \cup {Absent}
  /\ hook \in Hook
  /\ orphan \in Content \cup {Absent}
  /\ view \in Content \cup {Absent}
  /\ told \in BOOLEAN /\ unsaid \in BOOLEAN
  /\ others \subseteq {"user", "formatter"} \X Outside

Init ==
  /\ kind \in Kinds
  /\ file = Absent
  /\ hook = NoHook
  /\ orphan = Absent
  /\ view = Absent
  /\ told = FALSE /\ others = {} /\ unsaid = FALSE

(* The observer notes who writes. *)
Notes(who) ==
  others' = others \cup (IF hook.at \in Outside THEN {<<who, hook.at>>} ELSE {})
WroteAt(who, places) == \E place \in places : <<who, place>> \in others

Revision == IF file = Absent THEN 0 ELSE file.text

(* A text that is formatted already is one that no command writes. *)
Saved == {[text |-> Revision + 1, form |-> "raw", eol |-> eol] : eol \in Eols}

-----------------------------------------------------------------------------
(* The agent and the user                                                  *)

(* The agent goes on from what it last saw, once the hook is done. *)
AgentEdit ==
  /\ hook.at = "idle"
  /\ Revision < MaxRevisions
  /\ file' \in Saved /\ view' = file'
  /\ hook' = [NoHook EXCEPT !.at = "start"]
  /\ told' = FALSE /\ others' = {} /\ unsaid' = FALSE
  /\ UNCHANGED <<kind, orphan>>

UserSaves ==
  /\ Revision < MaxRevisions
  /\ file' \in Saved /\ Notes("user")
  /\ UNCHANGED <<kind, hook, orphan, view, told, unsaid>>

UserDeletes ==
  /\ file # Absent
  /\ file' = Absent /\ Notes("user")
  /\ UNCHANGED <<kind, hook, orphan, view, told, unsaid>>

-----------------------------------------------------------------------------
(* The commands                                                            *)

(* What a command makes of a file: ruff check fixes, the formatters format. *)
(* ruff keeps line ends that agree; of az bicep format nothing is assumed.  *)
Results(content, number) ==
  {[content EXCEPT !.form = IF kind = "py" /\ number = 1 THEN "fixed" ELSE "formatted",
                   !.eol = eol] :
     eol \in IF kind = "py" /\ content.eol # "mixed" THEN {content.eol} ELSE Eols}

CommandReads ==
  /\ hook.at = "command" /\ hook.input = Absent
  /\ file # Absent
  /\ hook' = [hook EXCEPT !.input = file]
  /\ UNCHANGED <<kind, file, orphan, view, told, others, unsaid>>

CommandWrites ==
  /\ hook.at = "command" /\ hook.input # Absent /\ ~hook.wrote
  /\ file' \in Results(hook.input, hook.number)
  /\ hook' = [hook EXCEPT !.wrote = TRUE]
  /\ UNCHANGED <<kind, orphan, view, told, others, unsaid>>

(* Mistake: a command that failed is reported, and no more is done. *)
StepAfterUnlessFailed(ok) ==
  CASE ~ok                                   -> "idle"
    [] ok /\ kind = "py" /\ hook.number = 1  -> "command"
    [] ok /\ kind = "py" /\ hook.number = 2  -> "compare"
    [] OTHER                                 -> "written"

(* One command after another, whatever comes of them; then the comparison,  *)
(* and before it, if Bicep's was successful, the line ends.                 *)
StepAfter(ok) ==
  CASE kind = "py" /\ hook.number = 1    -> "command"
    [] kind = "bicep" /\ ok              -> "written"
    [] OTHER                             -> "compare"

AfterCommand(ok) ==
  [hook EXCEPT !.at = StepAfter(ok), !.number = 2,
               !.failed = IF ok THEN @ ELSE @ \cup {hook.number},
               !.input = Absent, !.wrote = FALSE, !.running = 0]

(* A command may fail after it has written, as ruff check does if it could  *)
(* not fix all; without a file or a program it can do nothing else.         *)
CommandEnds ==
  /\ hook.at = "command"
  /\ \E ok \in BOOLEAN :
       /\ ok => hook.input # Absent
       /\ hook' = AfterCommand(ok)
  /\ UNCHANGED <<kind, file, orphan, view, told, others, unsaid>>

(* subprocess.run kills what it started, and no child of that: ruff is gone, *)
(* the program that az has started may not be.                              *)
CommandTimesOut ==
  /\ hook.at = "command" /\ hook.running = CommandTimeout
  /\ hook' = AfterCommand(FALSE)
  /\ orphan' \in {orphan} \cup
       (IF kind = "bicep" /\ ~hook.wrote THEN {hook.input} ELSE {})
  /\ UNCHANGED <<kind, file, view, told, others, unsaid>>

(* A formatter that outlived the process it was started by finishes.  (One  *)
(* that has yet to read the file is the user's save.)                       *)
OrphanWrites ==
  /\ orphan # Absent
  /\ \E number \in 1 .. 2 : file' \in Results(orphan, number)
  /\ orphan' = Absent /\ Notes("formatter")
  /\ UNCHANGED <<kind, hook, view, told, unsaid>>

-----------------------------------------------------------------------------
(* The hook                                                                *)

(* Nothing is done about a file that is gone; and if the project has no     *)
(* ruff, all that is said of a Python file is that it has not.              *)
HookBegins ==
  /\ hook.at = "start"
  /\ \E ruff \in BOOLEAN :
       hook' = IF file = Absent \/ (kind = "py" /\ ~ruff) THEN NoHook
               ELSE [hook EXCEPT !.at = "command", !.before = file]
  /\ UNCHANGED <<kind, file, orphan, view, told, others, unsaid>>

(* _detect_eol, of the file as it was before. *)
DetectEol(content) == IF content.eol = "lf" THEN "lf" ELSE "crlf"

(* Mistake: "\n" is replaced by itself, and not by what the file had. *)
NormalizeEolToLf(content, eol) == IF eol = "lf" THEN [content EXCEPT !.eol = "lf"] ELSE content

(* _normalize_eol: all line ends become the given one. *)
NormalizeEol(content, eol) == [content EXCEPT !.eol = eol]

(* The formatted file is read, to be written back with its old line ends. *)
HookReadsFormatted ==
  /\ hook.at = "written"
  /\ hook' = IF file = Absent \/ file = NormalizeEol(file, DetectEol(hook.before))
             THEN [hook EXCEPT !.at = "compare"]
             ELSE [hook EXCEPT !.at = "restore", !.input = file]
  /\ UNCHANGED <<kind, file, orphan, view, told, others, unsaid>>

(* It is written whatever has become of it in the meantime. *)
HookRestoresEol ==
  /\ hook.at = "restore"
  /\ file' = NormalizeEol(hook.input, DetectEol(hook.before))
  /\ hook' = [hook EXCEPT !.at = "compare"]
  /\ UNCHANGED <<kind, orphan, view, told, others, unsaid>>

(* file_changed_message, on the standard output as the hook ends.  It comes  *)
(* last, and the text is cut at MAX_CONTEXT_CHARS: behind two failures with *)
(* much output, each with a long path, it may be lost.                      *)
HookCompares ==
  /\ hook.at = "compare"
  /\ LET changed == file # Absent /\ file # hook.before
     IN  /\ told' \in IF changed /\ hook.failed = 1 .. 2 THEN BOOLEAN ELSE {changed}
         /\ unsaid' = (changed /\ ~told')
  /\ hook' = NoHook
  /\ UNCHANGED <<kind, file, orphan, view, others>>

(* Only commands take time. *)
Tick ==
  /\ hook.at = "command"
  /\ hook.running < CommandTimeout /\ hook.elapsed < HookTimeout
  /\ hook' = [hook EXCEPT !.running = @ + 1, !.elapsed = @ + 1]
  /\ UNCHANGED <<kind, file, orphan, view, told, others, unsaid>>

(* The runner of hooks ends one that takes too long; its command may go on. *)
RunnerKills ==
  /\ hook.at = "command" /\ hook.elapsed = HookTimeout
  /\ hook' = NoHook /\ unsaid' = TRUE
  /\ orphan' \in {orphan} \cup (IF hook.wrote THEN {} ELSE {hook.input})
  /\ UNCHANGED <<kind, file, view, told, others>>

Next ==
  \/ AgentEdit \/ UserSaves \/ UserDeletes
  \/ HookBegins \/ HookReadsFormatted \/ HookRestoresEol \/ HookCompares
  \/ CommandReads \/ CommandWrites \/ CommandEnds \/ CommandTimesOut \/ OrphanWrites
  \/ Tick \/ RunnerKills

Spec == Init /\ [][Next]_vars

-----------------------------------------------------------------------------
(* Properties                                                              *)

(* The agent never builds an edit on a text that its own hook has changed   *)
(* behind its back, whichever command failed, did half of its work, or      *)
(* timed out, and whoever wrote the file while the hook was at work: when   *)
(* it edits again, it has seen the file as it is or was told to read it.    *)
(* Three things are no fault of the hook's or beyond it: a user's write     *)
(* before its first read or after its last; a Python file's two commands,   *)
(* which may take longer than the hook is given, so that it is killed with  *)
(* nothing said, and whose messages may leave no room for more; and a       *)
(* formatter of either kind that outlived its killed parent and wrote the   *)
(* file when the hook that started it was over.                             *)
AgentIsCurrent ==
  [][AgentEdit /\ file # Absent /\ ~WroteAt("user", {"idle", "start"}) =>
       \/ view = file \/ told
       \/ kind = "py" /\ unsaid
       \/ WroteAt("formatter", {"idle", "start"})]_vars

(* When the hook has had a Bicep file formatted, the file ends its lines as *)
(* it did before, whatever the formatter prefers and whoever wrote it while *)
(* the hook was at work, up to the comparison; a file that mixed line ends  *)
(* has the one with a carriage return.                                      *)
LineEndsKept ==
  [][HookCompares /\ kind = "bicep" /\ hook.failed = {} /\ file # Absent
       /\ ~WroteAt("user", {"compare"}) /\ ~WroteAt("formatter", {"compare"}) =>
         file.eol = DetectEol(hook.before)]_vars
=============================================================================
