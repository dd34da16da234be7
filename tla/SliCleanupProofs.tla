-------------------------- MODULE SliCleanupProofs --------------------------
(***************************************************************************)
(* Theorems about SliCleanup, for every environment, set of Service Groups, *)
(* set of settings, number of failing calls and length of the loops.        *)
(***************************************************************************)
EXTENDS SliCleanup, SequenceTheorems, TLAPS

Run == [pc : PC, todo : SUBSET Groups, group : Groups \cup {None},
        slis : SUBSET SliKinds, polls : Nat]

LEMMA GroupShape ==
  ASSUME NEW g \in Groups
  PROVE  g.env \in Seq(STRING) /\ g.token \in STRING /\ g.token # ""
<1>1. g \in [env : Seq(STRING), token : STRING \ {""}]
  BY GroupsAssumption
<1>2. QED BY <1>1

LEMMA NameParts ==
  ASSUME NEW S, NEW x \in Seq(S), NEW e \in Seq(S), NEW t \in S,
         NEW name, name = Append(e, t)
  PROVE  /\ name[Len(name)] = t
         /\ (Len(name) = Len(x) + 1 /\ SubSeq(name, 1, Len(x)) = x) <=> e = x
<1>1. /\ name \in Seq(S)
      /\ Len(name) = Len(e) + 1
      /\ \A k \in 1 .. Len(e) : name[k] = e[k]
      /\ name[Len(e) + 1] = t
  BY AppendProperties
<1>2. Len(e) \in Nat /\ Len(x) \in Nat
  BY LenProperties
<1>3. CASE Len(e) # Len(x)
  <2>1. e # x
    BY <1>3
  <2>2. Len(name) # Len(x) + 1
    BY <1>1, <1>2, <1>3
  <2>3. QED BY <1>1, <2>1, <2>2
<1>4. CASE Len(e) = Len(x)
  <2> DEFINE s == SubSeq(name, 1, Len(x))
  <2>1. /\ s \in Seq(S) /\ Len(s) = Len(x)
        /\ \A k \in 1 .. Len(x) : s[k] = name[k]
    BY <1>1, <1>2, <1>4
  <2>2. s = e
    <3>1. \A k \in 1 .. Len(e) : s[k] = e[k]
      BY <1>1, <1>4, <2>1
    <3> HIDE DEF s
    <3>2. Len(s) = Len(e) /\ s \in Seq(S)
      BY <1>4, <2>1
    <3>3. QED BY <3>1, <3>2, SeqEqual
  <2>3. QED BY <1>1, <1>4, <2>2
<1>5. QED BY <1>3, <1>4

(* is_owned_service_group_id picks the groups of the environment, exactly:  *)
(* a longer name with the environment's prefix is another environment's.    *)
LEMMA OwnedIsOwn == Owned = OwnGroups
<1>1. EnvName \in Seq(STRING)
  BY EnvNameAssumption
<1>2. ASSUME NEW g \in Groups
      PROVE  IsOwnedServiceGroupId(GroupName(g)) <=> g.env = EnvName
  <2> DEFINE e == g.env
             t == g.token
  <2>1. e \in Seq(STRING) /\ t \in STRING /\ t # ""
    BY GroupShape
  <2> HIDE DEF e, t
  <2> DEFINE name == Append(e, t)
  <2> HIDE DEF name
  <2>2. /\ name[Len(name)] = t
        /\ (Len(name) = Len(EnvName) + 1 /\ SubSeq(name, 1, Len(EnvName)) = EnvName)
             <=> e = EnvName
    <3> DEFINE Part == STRING
    <3>1. name = Append(e, t)
      BY DEF name
    <3>2. EnvName \in Seq(Part) /\ e \in Seq(Part) /\ t \in Part
      BY <1>1, <2>1
    <3> HIDE DEF Part
    <3>3. QED BY <3>1, <3>2, NameParts
  <2>3. IsOwnedServiceGroupId(name) <=> e = EnvName
    BY <2>1, <2>2, Zenon DEF IsOwnedServiceGroupId
  <2>4. QED BY <2>3, Zenon DEF e, t, name, GroupName
<1>3. QED BY <1>2 DEF Owned, OwnGroups

-----------------------------------------------------------------------------
(* Type correctness                                                        *)

RunOK ==
  /\ run \in Run
  /\ run.pc = "slis" => run.group \in Groups
  /\ run.pc = "poll dcra" => run.polls < MaxDcraPolls
  /\ run.pc = "poll base group" => run.polls < MaxGroupPolls

CallsOK == failures \in 0 .. MaxFailures /\ unread \in BOOLEAN

LEMMA TypeInit == Init => TypeOK
<1> SUFFICES ASSUME Init PROVE TypeOK
  OBVIOUS
<1>1. run \in Run /\ run.pc = "idle"
  BY DEF Init, IdleRun, Run, PC, Ended
<1>2. slis \in [Groups -> SUBSET SliKinds]
  BY DEF Init
<1>3. failures \in 0 .. MaxFailures
  BY BoundsAssumption DEF Init
<1>4. unread \in BOOLEAN
  BY Zenon DEF Init
<1>5. QED BY <1>1, <1>2, <1>3, <1>4 DEF Init, TypeOK, Run, Lifecycle

(* A call that is answered or fails stays within the failures allowed, and  *)
(* a failing one is remembered.                                             *)
LEMMA AnswerCounted ==
  ASSUME TypeOK, NEW ok \in Answers, Heard(ok)
  PROVE  /\ ok \in BOOLEAN
         /\ ~unread' => ok /\ ~unread
         /\ CallsOK'
<1>1. ok \in BOOLEAN /\ (~ok => MayFail)
  BY Zenon DEF Answers
<1>2. MaxFailures \in Nat /\ failures \in 0 .. MaxFailures
  BY BoundsAssumption DEF TypeOK
<1>3. failures' = failures \/ (failures < MaxFailures /\ failures' = failures + 1)
  BY <1>1, Zenon DEF Heard, MayFail
<1>4. failures' \in 0 .. MaxFailures
  BY <1>2, <1>3
<1>5. unread' = (unread \/ ~ok)
  BY Zenon DEF Heard
<1>6. unread' \in BOOLEAN /\ (~unread' => ok /\ ~unread)
  BY <1>5, Zenon
<1>7. QED BY <1>1, <1>4, <1>6, Zenon DEF CallsOK

(* The script goes on elsewhere, or ends.                                   *)
LEMMA GotoShape ==
  ASSUME TypeOK, NEW pc \in PC \ {"slis"}, Goto(pc)
  PROVE  /\ RunOK' /\ run'.pc = pc
         /\ run'.todo = run.todo /\ run'.group = run.group
<1>1. run \in Run
  BY DEF TypeOK, Run
<1>2. /\ run' \in Run /\ run'.pc = pc /\ run'.polls = 0
      /\ run'.todo = run.todo /\ run'.group = run.group
  BY <1>1 DEF Goto, Run
<1>3. MaxDcraPolls > 0 /\ MaxGroupPolls > 0
  BY BoundsAssumption
<1>4. QED BY <1>2, <1>3 DEF RunOK

LEMMA ExitShape ==
  ASSUME NEW code \in {0, 1}, Exit(code)
  PROVE  /\ RunOK' /\ run'.todo = {}
         /\ run'.pc = IF code = 0 THEN "succeeded" ELSE "failed"
<1>1. IdleRun \in Run /\ IdleRun.todo = {}
  BY DEF IdleRun, Run, PC, Ended
<1>2. \E pc \in {"succeeded", "failed"} :
        /\ run' = [IdleRun EXCEPT !.pc = pc]
        /\ pc = IF code = 0 THEN "succeeded" ELSE "failed"
  BY DEF Exit
<1>3. QED BY <1>1, <1>2 DEF RunOK, Run, PC, Ended

(* What a step must do for the variables to keep their types.               *)
LEMMA Frame ==
  ASSUME TypeOK, settings' \in Settings, groups' \subseteq groups,
         slis' \in [Groups -> SUBSET SliKinds],
         dcra' \in Lifecycle, base_group' \in Lifecycle, records' \subseteq records,
         RunOK', CallsOK'
  PROVE  TypeOK'
BY DEF TypeOK, RunOK, Run, CallsOK

LEMMA TypeStep == TypeOK /\ [Next]_vars => TypeOK'
<1> SUFFICES ASSUME TypeOK, [Next]_vars PROVE TypeOK'
  OBVIOUS
<1>t. /\ settings \in Settings /\ groups \subseteq Groups
      /\ slis \in [Groups -> SUBSET SliKinds]
      /\ dcra \in Lifecycle /\ base_group \in Lifecycle
      /\ run \in Run /\ RunOK
      /\ failures \in 0 .. MaxFailures /\ unread \in BOOLEAN
  BY DEF TypeOK, RunOK, Run
<1>c. UNCHANGED calls => CallsOK'
  BY <1>t DEF calls, CallsOK
<1>l. {"present", "deleting", "gone"} = Lifecycle
  BY DEF Lifecycle
<1>a. ASSUME UNCHANGED <<settings, azure>>, RunOK', CallsOK'
      PROVE  TypeOK'
  BY <1>a, <1>t, Frame DEF azure
<1>1. CASE Fail
  <2>1. CallsOK'
    BY <1>1, <1>t, BoundsAssumption DEF Fail, MayFail, CallsOK
  <2>2. RunOK'
    BY <1>1, ExitShape DEF Fail
  <2>3. QED BY <1>1, <1>a, <2>1, <2>2 DEF Fail
<1>2. CASE Start
  <2>1. settings' \in Settings /\ UNCHANGED azure
    BY <1>2 DEF Start
  <2>2. ASSUME settings'.confirm # "yes" PROVE TypeOK'
    <3>1. \E code \in {0, 1} : Exit(code)
      BY <1>2, <2>2 DEF Start
    <3>2. CallsOK'
      BY <1>2, <1>c, <2>2 DEF Start
    <3>3. QED BY <1>t, <1>c, <2>1, <3>1, <3>2, ExitShape, Frame DEF azure
  <2>3. ASSUME settings'.confirm = "yes" PROVE TypeOK'
    <3>1. PICK ok \in Answers :
            /\ Heard(ok)
            /\ \E candidates :
                 run' = [IdleRun EXCEPT !.pc = "groups", !.todo = candidates \cap Owned]
      BY <1>2, <2>3, Zenon DEF Start
    <3>2. PICK candidates :
            run' = [IdleRun EXCEPT !.pc = "groups", !.todo = candidates \cap Owned]
      BY <3>1
    <3>3. candidates \cap Owned \in SUBSET Groups
      BY DEF Owned
    <3>4. run' \in Run /\ run'.pc = "groups"
      BY <3>2, <3>3 DEF IdleRun, Run, PC
    <3>5. QED BY <1>t, <1>c, <2>1, <3>1, <3>4, AnswerCounted, Frame DEF RunOK, azure
  <2>4. QED BY <2>2, <2>3
<1>3. CASE ListSlis
  <2>1. PICK g \in run.todo, ok \in Answers :
          /\ Heard(ok)
          /\ run' = [run EXCEPT !.pc = "slis", !.group = g, !.todo = @ \ {g},
                                !.slis = IF ok THEN slis[g] ELSE {}]
    BY <1>3 DEF ListSlis
  <2>2. run' \in Run /\ run'.pc = "slis" /\ run'.group \in Groups
    BY <1>t, <2>1 DEF Run, PC
  <2>3. RunOK'
    BY <2>2 DEF RunOK
  <2>4. QED BY <1>3, <1>a, <2>1, <2>3, AnswerCounted DEF ListSlis
<1>4. CASE DeleteSli
  <2>1. PICK sli \in run.slis :
          /\ slis' = IF settings.dry_run THEN slis
                     ELSE [slis EXCEPT ![run.group] = @ \ {sli}]
          /\ run' = [run EXCEPT !.slis = @ \ {sli}]
    BY <1>4 DEF DeleteSli
  <2>2. RunOK'
    BY <1>t, <2>1 DEF Run, RunOK
  <2>3. slis' \in [Groups -> SUBSET SliKinds]
    BY <1>t, <2>1
  <2>4. QED BY <1>4, <1>t, <1>c, <2>2, <2>3, Frame DEF DeleteSli
<1>5. CASE DeleteServiceGroup
  <2>1. RunOK'
    BY <1>5, <1>t DEF DeleteServiceGroup, Run, RunOK, PC
  <2>2. QED BY <1>5, <1>t, <1>c, <2>1, Frame DEF DeleteServiceGroup
<1>6. CASE GroupsDone
  BY <1>6, <1>a, <1>c, GotoShape DEF GroupsDone, PC
<1>7. CASE ShowCluster
  <2>1. \E ok \in Answers, pc \in {"dcra", "sli records"} : Heard(ok) /\ Goto(pc)
    BY <1>7, Zenon DEF ShowCluster
  <2>2. QED BY <1>7, <1>a, <2>1, AnswerCounted, GotoShape DEF ShowCluster, PC
<1>8. CASE GetDcra
  <2>1. \E ok \in Answers, pc \in {"delete dcra", "sli records"} : Heard(ok) /\ Goto(pc)
    BY <1>8, Zenon DEF GetDcra
  <2>2. QED BY <1>8, <1>a, <2>1, AnswerCounted, GotoShape DEF GetDcra, PC
<1>9. CASE DeleteDcra
  <2>1. \E pc \in {"poll dcra", "sli records"} : Goto(pc)
    BY <1>9, Zenon DEF DeleteDcra
  <2>2. RunOK'
    BY <2>1, GotoShape DEF PC
  <2>3. dcra' \in Lifecycle
    BY <1>9, <1>t, <1>l DEF DeleteDcra
  <2>4. QED BY <1>9, <1>t, <1>c, <2>2, <2>3, Frame DEF DeleteDcra
<1>10. CASE PollDcra
  <2>1. PICK ok \in Answers :
          /\ Heard(ok)
          /\ \/ Goto("sli records")
             \/ Exit(1)
             \/ /\ run.polls + 1 # MaxDcraPolls
                /\ run' = [run EXCEPT !.polls = @ + 1]
    BY <1>10, Zenon DEF PollDcra
  <2>2. ASSUME run.polls + 1 # MaxDcraPolls, run' = [run EXCEPT !.polls = @ + 1]
        PROVE  RunOK'
    <3>1. run.pc = "poll dcra" /\ run.polls < MaxDcraPolls
      BY <1>10, <1>t DEF PollDcra, RunOK
    <3>2. run.polls \in Nat /\ MaxDcraPolls \in Nat
      BY <1>t, BoundsAssumption DEF Run
    <3> DEFINE n == run.polls
    <3>3. n + 1 \in Nat /\ n + 1 < MaxDcraPolls
      <4>1. n \in Nat /\ MaxDcraPolls \in Nat /\ n < MaxDcraPolls /\ n + 1 # MaxDcraPolls
        BY <2>2, <3>1, <3>2, Zenon
      <4> HIDE DEF n
      <4>2. QED BY <4>1
    <3>4. /\ run' \in Run /\ run'.pc = "poll dcra"
          /\ run'.polls = run.polls + 1
      BY <1>t, <2>2, <3>1, <3>3 DEF Run
    <3>5. QED BY <3>3, <3>4 DEF RunOK
  <2>3. RunOK'
    BY <2>1, <2>2, GotoShape, ExitShape DEF PC
  <2>4. QED BY <1>10, <1>a, <2>1, <2>3, AnswerCounted DEF PollDcra
<1>11. CASE ListSliRecords
  <2>1. \E ok \in Answers, pc \in {"delete sli record", "base group"} :
          Heard(ok) /\ Goto(pc)
    BY <1>11, Zenon DEF ListSliRecords
  <2>2. QED BY <1>11, <1>a, <2>1, AnswerCounted, GotoShape DEF ListSliRecords, PC
<1>12. CASE DeleteSliRecord
  <2>1. \/ failures' = failures
        \/ failures < MaxFailures /\ failures' = failures + 1
    BY <1>12, Zenon DEF DeleteSliRecord, MayFail
  <2>2. RunOK'
    BY <1>12, GotoShape DEF DeleteSliRecord, PC
  <2>3. CallsOK'
    <3>1. failures' \in 0 .. MaxFailures
      BY <1>t, <2>1, BoundsAssumption
    <3>2. unread' \in BOOLEAN
      BY <1>12, <1>t, Zenon DEF DeleteSliRecord
    <3>3. QED BY <3>1, <3>2 DEF CallsOK
  <2>4. QED BY <1>12, <1>t, <1>c, <2>2, <2>3, Frame DEF DeleteSliRecord
<1>13. CASE CheckBaseGroup
  <2>1. \E ok \in Answers, pc \in {"delete base group", "base records"} :
          Heard(ok) /\ Goto(pc)
    BY <1>13, Zenon DEF CheckBaseGroup
  <2>2. QED BY <1>13, <1>a, <2>1, AnswerCounted, GotoShape DEF CheckBaseGroup, PC
<1>14. CASE DeleteBaseGroup
  <2>1. RunOK'
    BY <1>14, GotoShape, ExitShape DEF DeleteBaseGroup, PC
  <2>2. base_group' \in Lifecycle
    BY <1>14, <1>t, <1>l DEF DeleteBaseGroup
  <2>3. QED BY <1>14, <1>t, <1>c, <2>1, <2>2, Frame DEF DeleteBaseGroup
<1>15. CASE PollBaseGroup
  <2>1. PICK ok \in Answers :
          /\ Heard(ok)
          /\ \/ Goto("base records")
             \/ Exit(1)
             \/ /\ run.polls + 1 # MaxGroupPolls
                /\ run' = [run EXCEPT !.polls = @ + 1]
    BY <1>15, Zenon DEF PollBaseGroup
  <2>2. ASSUME run.polls + 1 # MaxGroupPolls, run' = [run EXCEPT !.polls = @ + 1]
        PROVE  RunOK'
    <3>1. run.pc = "poll base group" /\ run.polls < MaxGroupPolls
      BY <1>15, <1>t DEF PollBaseGroup, RunOK
    <3>2. run.polls \in Nat /\ MaxGroupPolls \in Nat
      BY <1>t, BoundsAssumption DEF Run
    <3> DEFINE n == run.polls
    <3>3. n + 1 \in Nat /\ n + 1 < MaxGroupPolls
      <4>1. n \in Nat /\ MaxGroupPolls \in Nat /\ n < MaxGroupPolls /\ n + 1 # MaxGroupPolls
        BY <2>2, <3>1, <3>2, Zenon
      <4> HIDE DEF n
      <4>2. QED BY <4>1
    <3>4. /\ run' \in Run /\ run'.pc = "poll base group"
          /\ run'.polls = run.polls + 1
      BY <1>t, <2>2, <3>1, <3>3 DEF Run
    <3>5. QED BY <3>3, <3>4 DEF RunOK
  <2>3. RunOK'
    BY <2>1, <2>2, GotoShape, ExitShape DEF PC
  <2>4. QED BY <1>15, <1>a, <2>1, <2>3, AnswerCounted DEF PollBaseGroup
<1>16. CASE ListBaseRecords
  <2>1. PICK ok \in Answers : Heard(ok) /\ (Goto("delete base record") \/ Exit(0))
    BY <1>16, Zenon DEF ListBaseRecords
  <2>2. QED BY <1>16, <1>a, <2>1, AnswerCounted, GotoShape, ExitShape
            DEF ListBaseRecords, PC
<1>17. CASE DeleteBaseRecord
  BY <1>17, <1>t, <1>c, ExitShape, Frame DEF DeleteBaseRecord
<1>18. CASE DcraGoes \/ BaseGroupGoes
  <2>1. RunOK'
    BY <1>18, <1>t DEF DcraGoes, BaseGroupGoes, RunOK
  <2>2. QED BY <1>18, <1>t, <1>l, <1>c, <2>1, Frame DEF DcraGoes, BaseGroupGoes
<1>19. CASE UNCHANGED vars
  BY <1>19, <1>a, <1>c, <1>t DEF vars, azure, RunOK
<1>20. QED
  BY <1>1, <1>2, <1>3, <1>4, <1>5, <1>6, <1>7, <1>8, <1>9, <1>10, <1>11, <1>12,
     <1>13, <1>14, <1>15, <1>16, <1>17, <1>18, <1>19 DEF Next, Script

(* The hook's variables keep their types, and its loops their bounds.       *)
THEOREM CleanupTypeCorrect == Spec => []TypeOK
BY TypeInit, TypeStep, PTL DEF Spec

-----------------------------------------------------------------------------
(* What the steps of the script share                                      *)

(* The steps that neither delete nor enter the deletion of a Service Group. *)
ElsewhereStep ==
  \/ Fail \/ GroupsDone \/ ShowCluster \/ GetDcra \/ DeleteDcra \/ PollDcra
  \/ ListSliRecords \/ DeleteSliRecord \/ CheckBaseGroup \/ DeleteBaseGroup
  \/ PollBaseGroup \/ ListBaseRecords \/ DeleteBaseRecord

LEMMA Elsewhere ==
  ASSUME TypeOK, ElsewhereStep
  PROVE  /\ UNCHANGED <<settings, groups, slis>>
         /\ run'.pc # "slis"
         /\ (run'.todo = run.todo /\ run.pc # "groups") \/ run'.todo = {}
<1>1. CASE Fail
  BY <1>1, ExitShape DEF Fail, azure
<1>2. CASE GroupsDone
  <2>1. run.todo = {} /\ UNCHANGED <<settings, groups, slis>>
    BY <1>2 DEF GroupsDone, azure
  <2>2. \E pc \in {"cluster", "sli records"} : Goto(pc)
    BY <1>2, Zenon DEF GroupsDone
  <2>3. QED BY <2>1, <2>2, GotoShape DEF PC
<1>3. CASE ShowCluster
  <2>1. \E pc \in {"dcra", "sli records"} : Goto(pc)
    BY <1>3, Zenon DEF ShowCluster
  <2>2. QED BY <1>3, <2>1, GotoShape DEF ShowCluster, PC, azure
<1>4. CASE GetDcra
  <2>1. \E pc \in {"delete dcra", "sli records"} : Goto(pc)
    BY <1>4, Zenon DEF GetDcra
  <2>2. QED BY <1>4, <2>1, GotoShape DEF GetDcra, PC, azure
<1>5. CASE DeleteDcra
  <2>1. \E pc \in {"poll dcra", "sli records"} : Goto(pc)
    BY <1>5, Zenon DEF DeleteDcra
  <2>2. QED BY <1>5, <2>1, GotoShape DEF DeleteDcra, PC
<1>6. CASE PollDcra
  <2>1. \/ \E pc \in {"sli records"} : Goto(pc)
        \/ \E code \in {1} : Exit(code)
        \/ run' = [run EXCEPT !.polls = @ + 1]
    BY <1>6, Zenon DEF PollDcra
  <2>2. run.pc = "poll dcra" /\ run \in Run /\ UNCHANGED <<settings, groups, slis>>
    BY <1>6 DEF PollDcra, azure, TypeOK, Run
  <2>3. CASE run' = [run EXCEPT !.polls = @ + 1]
    BY <2>2, <2>3 DEF Run
  <2>4. QED BY <2>1, <2>2, <2>3, GotoShape, ExitShape DEF PC
<1>7. CASE ListSliRecords
  <2>1. \E pc \in {"delete sli record", "base group"} : Goto(pc)
    BY <1>7, Zenon DEF ListSliRecords
  <2>2. QED BY <1>7, <2>1, GotoShape DEF ListSliRecords, PC, azure
<1>8. CASE DeleteSliRecord
  <2>1. \E pc \in {"base group"} : Goto(pc)
    BY <1>8, Zenon DEF DeleteSliRecord
  <2>2. QED BY <1>8, <2>1, GotoShape DEF DeleteSliRecord, PC
<1>9. CASE CheckBaseGroup
  <2>1. \E pc \in {"delete base group", "base records"} : Goto(pc)
    BY <1>9, Zenon DEF CheckBaseGroup
  <2>2. QED BY <1>9, <2>1, GotoShape DEF CheckBaseGroup, PC, azure
<1>10. CASE DeleteBaseGroup
  <2>1. \/ \E pc \in {"poll base group"} : Goto(pc)
        \/ \E code \in {1} : Exit(code)
    BY <1>10, Zenon DEF DeleteBaseGroup
  <2>2. QED BY <1>10, <2>1, GotoShape, ExitShape DEF DeleteBaseGroup, PC
<1>11. CASE PollBaseGroup
  <2>1. \/ \E pc \in {"base records"} : Goto(pc)
        \/ \E code \in {1} : Exit(code)
        \/ run' = [run EXCEPT !.polls = @ + 1]
    BY <1>11, Zenon DEF PollBaseGroup
  <2>2. run.pc = "poll base group" /\ run \in Run /\ UNCHANGED <<settings, groups, slis>>
    BY <1>11 DEF PollBaseGroup, azure, TypeOK, Run
  <2>3. CASE run' = [run EXCEPT !.polls = @ + 1]
    BY <2>2, <2>3 DEF Run
  <2>4. QED BY <2>1, <2>2, <2>3, GotoShape, ExitShape DEF PC
<1>12. CASE ListBaseRecords
  <2>1. \/ \E pc \in {"delete base record"} : Goto(pc)
        \/ \E code \in {0} : Exit(code)
    BY <1>12, Zenon DEF ListBaseRecords
  <2>2. QED BY <1>12, <2>1, GotoShape, ExitShape DEF ListBaseRecords, PC, azure
<1>13. CASE DeleteBaseRecord
  BY <1>13, ExitShape DEF DeleteBaseRecord
<1>14. QED
  BY <1>1, <1>2, <1>3, <1>4, <1>5, <1>6, <1>7, <1>8, <1>9, <1>10, <1>11, <1>12, <1>13
     DEF ElsewhereStep

(* What has not been read stays unread.                                     *)
LEMMA UnreadStays ==
  ASSUME TypeOK, [Next]_vars, ~unread'
  PROVE  ~unread
<1>1. CASE \E ok \in Answers : Heard(ok)
  BY <1>1, AnswerCounted
<1>2. CASE unread' = unread
  BY <1>2
<1>3. (\E ok \in Answers : Heard(ok)) \/ unread' = unread
  <2>1. CASE Start
    BY <2>1, Zenon DEF Start, calls
  <2>2. CASE Script
    BY <2>2, Zenon
       DEF Script, ListSlis, DeleteSli, DeleteServiceGroup, GroupsDone, ShowCluster,
           GetDcra, DeleteDcra, PollDcra, ListSliRecords, DeleteSliRecord,
           CheckBaseGroup, DeleteBaseGroup, PollBaseGroup, ListBaseRecords,
           DeleteBaseRecord, calls
  <2>3. CASE Fail \/ DcraGoes \/ BaseGroupGoes \/ UNCHANGED vars
    BY <2>3, Zenon DEF Fail, DcraGoes, BaseGroupGoes, calls, vars
  <2>4. QED BY <2>1, <2>2, <2>3 DEF Next
<1>4. QED BY <1>1, <1>2, <1>3

(* The start of a run, and its work on one Service Group, in plain terms.   *)
LEMMA StartShape ==
  ASSUME TypeOK, Start
  PROVE  /\ UNCHANGED azure
         /\ settings' \in Settings
         /\ \/ /\ run'.pc = "groups" /\ run'.todo \subseteq Owned
               /\ settings'.confirm = "yes"
               /\ settings'.group_id # None => run'.todo = {settings'.group_id} \cap Owned
               /\ settings'.group_id = None /\ ~unread' => run'.todo = groups \cap Owned
            \/ /\ run'.pc \in Ended /\ run'.todo = {}
               /\ settings'.confirm # "yes"
<1>1. UNCHANGED azure /\ settings' \in Settings
  BY DEF Start
<1>2. CASE settings'.confirm # "yes"
  <2>1. \E code \in {0, 1} : Exit(code)
    BY <1>2 DEF Start
  <2>2. QED BY <1>1, <1>2, <2>1, ExitShape DEF Ended
<1>3. CASE settings'.confirm = "yes"
  <2> DEFINE candidates(ok) == IF settings'.group_id # None THEN {settings'.group_id}
                               ELSE IF ok THEN groups ELSE {}
  <2>1. PICK ok \in Answers :
          /\ Heard(ok)
          /\ run' = [IdleRun EXCEPT !.pc = "groups", !.todo = candidates(ok) \cap Owned]
    BY <1>3, Zenon DEF Start
  <2>2. ~unread' => ok
    BY <2>1, AnswerCounted
  <2>3. /\ settings'.group_id # None => candidates(ok) = {settings'.group_id}
        /\ settings'.group_id = None /\ ~unread' => candidates(ok) = groups
    BY <2>2, Zenon
  <2> HIDE DEF candidates
  <2>4. run'.pc = "groups" /\ run'.todo = candidates(ok) \cap Owned
    BY <2>1 DEF IdleRun
  <2>5. QED BY <1>1, <1>3, <2>3, <2>4
<1>4. QED BY <1>2, <1>3

LEMMA ListSlisShape ==
  ASSUME TypeOK, ListSlis
  PROVE  /\ UNCHANGED <<settings, azure>>
         /\ run.pc = "groups" /\ run'.pc = "slis"
         /\ run'.group \in run.todo /\ run'.todo = run.todo \ {run'.group}
         /\ ~unread' => run'.slis = slis[run'.group]
<1>1. PICK g \in run.todo, ok \in Answers :
        /\ Heard(ok)
        /\ run' = [run EXCEPT !.pc = "slis", !.group = g, !.todo = @ \ {g},
                              !.slis = IF ok THEN slis[g] ELSE {}]
  BY DEF ListSlis
<1>2. ~unread' => ok
  BY <1>1, AnswerCounted
<1>3. run \in Run
  BY DEF TypeOK, Run
<1>4. /\ run'.pc = "slis" /\ run'.group = g /\ run'.todo = run.todo \ {g}
      /\ ok => run'.slis = slis[g]
  BY <1>1, <1>3 DEF Run
<1>5. QED BY <1>2, <1>4 DEF ListSlis

LEMMA DeleteSliShape ==
  ASSUME TypeOK, DeleteSli
  PROVE  /\ UNCHANGED <<settings, groups, dcra, base_group, records>>
         /\ run.pc = "slis" /\ run'.pc = "slis"
         /\ run'.group = run.group /\ run'.todo = run.todo
         /\ \E sli : /\ run'.slis = run.slis \ {sli}
                     /\ slis' = IF settings.dry_run THEN slis
                                ELSE [slis EXCEPT ![run.group] = @ \ {sli}]
<1>1. PICK sli \in run.slis :
        /\ slis' = IF settings.dry_run THEN slis
                   ELSE [slis EXCEPT ![run.group] = @ \ {sli}]
        /\ run' = [run EXCEPT !.slis = @ \ {sli}]
  BY DEF DeleteSli
<1>2. run \in Run /\ run.pc = "slis"
  BY DEF TypeOK, Run, DeleteSli
<1>3. run'.pc = run.pc /\ run'.group = run.group /\ run'.todo = run.todo
      /\ run'.slis = run.slis \ {sli}
  BY <1>1, <1>2 DEF Run
<1>4. QED BY <1>1, <1>2, <1>3, Zenon DEF DeleteSli

LEMMA DeleteServiceGroupShape ==
  ASSUME TypeOK, DeleteServiceGroup
  PROVE  /\ UNCHANGED <<settings, slis, dcra, base_group, records>>
         /\ run.pc = "slis" /\ run.slis = {} /\ run'.pc = "groups"
         /\ run'.todo = run.todo
         /\ groups' = IF settings.dry_run THEN groups ELSE groups \ {run.group}
<1>1. run \in Run
  BY DEF TypeOK, Run
<1>2. QED BY <1>1 DEF DeleteServiceGroup, Run

-----------------------------------------------------------------------------
(* Scope.  What is deleted was put on the list by one run and is taken off  *)
(* it by later steps, so the invariant is about the list.                   *)
ScopeInv ==
  /\ run.todo \subseteq Owned
  /\ run.pc = "slis" => run.group \in Owned

LEMMA ScopeInit == Init => ScopeInv
BY DEF Init, IdleRun, ScopeInv

LEMMA ScopeStep == TypeOK /\ ScopeInv /\ [Next]_vars => ScopeInv'
<1> SUFFICES ASSUME TypeOK, ScopeInv, [Next]_vars PROVE ScopeInv'
  OBVIOUS
<1>o. Owned' = Owned
  BY DEF Owned, IsOwnedServiceGroupId, GroupName
<1>1. CASE Start
  BY <1>1, <1>o, StartShape DEF ScopeInv, Ended
<1>2. CASE ListSlis
  BY <1>2, <1>o, ListSlisShape DEF ScopeInv
<1>3. CASE DeleteSli
  BY <1>3, <1>o, DeleteSliShape DEF ScopeInv
<1>4. CASE DeleteServiceGroup
  BY <1>4, <1>o, DeleteServiceGroupShape DEF ScopeInv
<1>5. CASE ElsewhereStep
  BY <1>5, <1>o, Elsewhere DEF ScopeInv
<1>6. CASE DcraGoes \/ BaseGroupGoes \/ UNCHANGED vars
  BY <1>6, <1>o DEF DcraGoes, BaseGroupGoes, vars, ScopeInv
<1>7. QED
  BY <1>1, <1>2, <1>3, <1>4, <1>5, <1>6 DEF Next, Script, ElsewhereStep

LEMMA ScopeAction ==
  TypeOK /\ ScopeInv /\ [Next]_vars =>
    \A g \in Groups :
      (g \in groups /\ g \notin groups') \/ slis'[g] # slis[g] => g.env = EnvName
<1> SUFFICES ASSUME TypeOK, ScopeInv, [Next]_vars, NEW g \in Groups,
                    (g \in groups /\ g \notin groups') \/ slis'[g] # slis[g]
             PROVE  g \in Owned
  BY OwnedIsOwn DEF OwnGroups
<1>1. CASE Start
  BY <1>1, StartShape DEF azure
<1>2. CASE ListSlis
  BY <1>2, ListSlisShape DEF azure
<1>3. CASE DeleteSli
  <2>1. PICK sli : slis' = IF settings.dry_run THEN slis
                           ELSE [slis EXCEPT ![run.group] = @ \ {sli}]
    BY <1>3, DeleteSliShape
  <2>2. slis \in [Groups -> SUBSET SliKinds]
    BY DEF TypeOK
  <2>3. groups' = groups /\ run.group \in Owned
    BY <1>3, DeleteSliShape DEF ScopeInv
  <2>4. QED BY <2>1, <2>2, <2>3
<1>4. CASE DeleteServiceGroup
  BY <1>4, DeleteServiceGroupShape DEF ScopeInv
<1>5. CASE ElsewhereStep
  BY <1>5, Elsewhere
<1>6. CASE DcraGoes \/ BaseGroupGoes \/ UNCHANGED vars
  BY <1>6 DEF DcraGoes, BaseGroupGoes, vars, azure
<1>7. QED
  BY <1>1, <1>2, <1>3, <1>4, <1>5, <1>6 DEF Next, Script, ElsewhereStep

(* Whatever settings it is run with, whatever fails, and however the names  *)
(* of the environments look, the hook deletes the environment's own Service *)
(* Groups and SLIs only.                                                    *)
THEOREM OnlyOwnIsDeleted == Spec => OnlyOwnedIsDeleted
<1>1. TypeOK /\ ScopeInv /\ [Next]_vars =>
        [\A g \in Groups :
           (g \in groups /\ g \notin groups') \/ slis'[g] # slis[g]
             => g.env = EnvName]_vars
  BY ScopeAction
<1>2. QED
  BY <1>1, TypeInit, TypeStep, ScopeInit, ScopeStep, PTL DEF Spec, OnlyOwnedIsDeleted

-----------------------------------------------------------------------------
(* The order of SLIs and Service Group, when no read fails: while a group   *)
(* is being deleted its SLIs are among those still to delete.               *)
EmptyInv ==
  /\ GroupsDieEmpty
  /\ ~unread /\ run.pc = "slis" /\ ~settings.dry_run =>
       slis[run.group] \subseteq run.slis

LEMMA EmptyInit == Init => EmptyInv
BY DEF Init, IdleRun, EmptyInv, GroupsDieEmpty

LEMMA EmptyStep == TypeOK /\ EmptyInv /\ [Next]_vars => EmptyInv'
<1> SUFFICES ASSUME TypeOK, EmptyInv, [Next]_vars, ~unread' PROVE EmptyInv'
  BY DEF EmptyInv, GroupsDieEmpty
<1>u. ~unread
  BY UnreadStays
<1>t. /\ slis \in [Groups -> SUBSET SliKinds]
      /\ run.pc = "slis" => run.group \in Groups
      /\ groups \subseteq Groups
  BY DEF TypeOK
<1>1. CASE Start
  BY <1>1, <1>u, StartShape DEF EmptyInv, GroupsDieEmpty, Ended, azure
<1>2. CASE ListSlis
  BY <1>2, <1>u, ListSlisShape DEF EmptyInv, GroupsDieEmpty, azure
<1>3. CASE DeleteSli
  <2>1. PICK sli :
          /\ run'.slis = run.slis \ {sli}
          /\ slis' = IF settings.dry_run THEN slis
                     ELSE [slis EXCEPT ![run.group] = @ \ {sli}]
    BY <1>3, DeleteSliShape
  <2>2. \A g \in Groups : slis'[g] \subseteq slis[g]
    BY <1>t, <2>1
  <2>3. ~settings.dry_run => slis'[run.group] = slis[run.group] \ {sli}
    BY <1>3, <1>t, <2>1, DeleteSliShape
  <2>4. /\ UNCHANGED <<settings, groups>> /\ run.pc = "slis"
        /\ run'.group = run.group
    BY <1>3, DeleteSliShape
  <2>5. GroupsDieEmpty'
    BY <2>2, <1>u, <2>4 DEF EmptyInv, GroupsDieEmpty
  <2>6. QED BY <2>1, <1>u, <2>3, <2>4, <2>5 DEF EmptyInv
<1>4. CASE DeleteServiceGroup
  <2>1. ~settings.dry_run => slis[run.group] = {}
    BY <1>4, <1>u, DeleteServiceGroupShape DEF EmptyInv
  <2>2. QED BY <1>4, <1>u, <2>1, DeleteServiceGroupShape DEF EmptyInv, GroupsDieEmpty
<1>5. CASE ElsewhereStep
  BY <1>5, <1>u, Elsewhere DEF EmptyInv, GroupsDieEmpty
<1>6. CASE DcraGoes \/ BaseGroupGoes \/ UNCHANGED vars
  BY <1>6, <1>u DEF DcraGoes, BaseGroupGoes, vars, azure, EmptyInv, GroupsDieEmpty
<1>7. QED
  BY <1>1, <1>2, <1>3, <1>4, <1>5, <1>6 DEF Next, Script, ElsewhereStep

(* As long as reads are answered, no Service Group is deleted that still    *)
(* has an SLI, however many runs were cut short before.                     *)
THEOREM ServiceGroupsDieEmpty == Spec => []GroupsDieEmpty
<1>1. EmptyInv => GroupsDieEmpty
  BY DEF EmptyInv
<1>2. QED BY <1>1, TypeInit, TypeStep, EmptyInit, EmptyStep, PTL DEF Spec

-----------------------------------------------------------------------------
(* The order of the script's deletions                                     *)

(* What a step elsewhere does to the script's position and to Azure.        *)
Dry == settings.dry_run
FixBase == settings.fix_base_void

PlainMove ==
  \/ /\ run'.pc = "failed" /\ UNCHANGED azure
  \/ /\ run.pc = "groups" /\ run.todo = {} /\ UNCHANGED azure
     /\ run'.pc \in {"cluster", "sli records"}
     /\ settings.resource_group = "own" => run'.pc = "cluster"
  \/ /\ run.pc = "cluster" /\ UNCHANGED azure
     /\ run'.pc \in {"dcra", "sli records"}
     /\ run'.pc = "sli records" /\ ~unread' => base_group # "present"
  \/ /\ run.pc = "dcra" /\ UNCHANGED azure
     /\ run'.pc \in {"delete dcra", "sli records"}
     /\ run'.pc = "sli records" /\ ~unread' => dcra = "gone"
  \/ /\ run.pc = "delete dcra" /\ UNCHANGED <<base_group, records>>
     /\ run'.pc = IF Dry THEN "sli records" ELSE "poll dcra"
     /\ dcra = "gone" \/ Dry => dcra' = dcra
  \/ /\ run.pc = "poll dcra" /\ UNCHANGED azure
     /\ run'.pc \in {"poll dcra", "sli records"}
     /\ run'.pc = "sli records" /\ ~unread' => dcra = "gone"
  \/ /\ run.pc = "sli records" /\ UNCHANGED azure
     /\ run'.pc \in {"delete sli record", "base group"}
     /\ run'.pc = "delete sli record" => ~Dry
  \/ /\ run.pc = "delete sli record" /\ run'.pc = "base group"
     /\ UNCHANGED <<dcra, base_group>>
     /\ records' \in {records, records \ {"sli"}}
  \/ /\ run.pc = "base group" /\ UNCHANGED azure
     /\ run'.pc \in {"delete base group", "base records"}
     /\ run'.pc = "delete base group" => FixBase /\ ~Dry
     /\ run'.pc = "base records" /\ ~unread' =>
          ~FixBase \/ Dry \/ base_group = "gone"
  \/ /\ run.pc = "delete base group" /\ run'.pc = "poll base group"
     /\ UNCHANGED <<dcra, records>>
     /\ base_group # "gone" /\ base_group' = "deleting"
  \/ /\ run.pc = "poll base group" /\ UNCHANGED azure
     /\ run'.pc \in {"poll base group", "base records"}
     /\ run'.pc = "base records" => base_group = "gone"
  \/ /\ run.pc = "base records" /\ UNCHANGED azure
     /\ run'.pc \in {"delete base record", "succeeded"}
     /\ run'.pc = "delete base record" => FixBase /\ ~Dry
     /\ run'.pc = "succeeded" /\ ~unread' => ~FixBase \/ Dry \/ "base" \notin records
  \/ /\ run.pc = "delete base record" /\ run'.pc = "succeeded"
     /\ UNCHANGED <<dcra, base_group>>
     /\ records' = records \ {"base"}

LEMMA ElsewhereMoves == ASSUME TypeOK, ElsewhereStep PROVE PlainMove
<1>r. run \in Run /\ settings.dry_run \in BOOLEAN
  BY SettingsAssumption DEF TypeOK, Run
<1>1. CASE Fail
  <2>1. \E code \in {1} : Exit(code)
    BY <1>1 DEF Fail
  <2>2. run'.pc = "failed"
    BY <2>1, ExitShape
  <2>3. QED BY <1>1, <2>2 DEF Fail, PlainMove
<1>2. CASE GroupsDone
  <2>1. \E pc \in {"cluster", "sli records"} :
          Goto(pc) /\ (settings.resource_group = "own" => pc = "cluster")
    BY <1>2, Zenon DEF GroupsDone
  <2>2. run'.pc \in {"cluster", "sli records"}
        /\ (settings.resource_group = "own" => run'.pc = "cluster")
    BY <2>1, GotoShape DEF PC
  <2>3. QED BY <1>2, <2>2 DEF GroupsDone, PlainMove
<1>3. CASE ShowCluster
  <2>1. PICK found \in (CASE base_group = "present"  -> {TRUE}
                          [] base_group = "deleting" -> BOOLEAN
                          [] OTHER                   -> {FALSE}), ok \in Answers :
          Heard(ok) /\ Goto(IF ok /\ found THEN "dcra" ELSE "sli records")
    BY <1>3, Zenon DEF ShowCluster
  <2>2. base_group = "present" => found
    BY <2>1
  <2>3. \E pc \in {"dcra", "sli records"} :
          Goto(pc) /\ (pc = "sli records" => ~ok \/ ~found)
    BY <2>1, Zenon
  <2>4. /\ run'.pc \in {"dcra", "sli records"}
        /\ run'.pc = "sli records" => ~ok \/ ~found
    BY <2>3, GotoShape DEF PC
  <2>5. ~unread' => ok
    BY <2>1, AnswerCounted
  <2>6. QED BY <1>3, <2>2, <2>4, <2>5 DEF ShowCluster, PlainMove
<1>4. CASE GetDcra
  <2>1. PICK ok \in Answers, pc \in {"delete dcra", "sli records"} :
          Heard(ok) /\ Goto(pc) /\ (pc = "sli records" => ~ok \/ dcra = "gone")
    BY <1>4, Zenon DEF GetDcra
  <2>2. run'.pc = pc
    BY <2>1, GotoShape DEF PC
  <2>3. ~unread' => ok
    BY <2>1, AnswerCounted
  <2>4. QED BY <1>4, <2>1, <2>2, <2>3 DEF GetDcra, PlainMove
<1>5. CASE DeleteDcra
  <2>1. PICK pc \in {"poll dcra", "sli records"} :
          Goto(pc) /\ pc = IF Dry THEN "sli records" ELSE "poll dcra"
    BY <1>5, Zenon DEF DeleteDcra, Dry
  <2>2. run'.pc = pc
    BY <2>1, GotoShape DEF PC
  <2>3. QED BY <1>5, <2>1, <2>2 DEF DeleteDcra, PlainMove, Dry
<1>6. CASE PollDcra
  <2>1. PICK ok \in Answers :
          /\ Heard(ok)
          /\ \/ (~ok \/ dcra = "gone") /\ \E pc \in {"sli records"} : Goto(pc)
             \/ \E code \in {1} : Exit(code)
             \/ run' = [run EXCEPT !.polls = @ + 1]
    BY <1>6, Zenon DEF PollDcra
  <2>2. run.pc = "poll dcra" /\ UNCHANGED azure
    BY <1>6 DEF PollDcra
  <2>3. ~unread' => ok
    BY <2>1, AnswerCounted
  <2>4. CASE (~ok \/ dcra = "gone") /\ \E pc \in {"sli records"} : Goto(pc)
    BY <2>2, <2>3, <2>4, GotoShape DEF PC, PlainMove
  <2>5. CASE \E code \in {1} : Exit(code)
    <3>1. run'.pc = "failed"
      BY <2>5, ExitShape
    <3>2. QED BY <2>2, <3>1 DEF PlainMove
  <2>6. CASE run' = [run EXCEPT !.polls = @ + 1]
    <3>1. run'.pc = run.pc
      BY <1>r, <2>6 DEF Run
    <3>2. QED BY <2>2, <3>1 DEF PlainMove
  <2>7. QED BY <2>1, <2>4, <2>5, <2>6
<1>7. CASE ListSliRecords
  <2>1. PICK pc \in {"delete sli record", "base group"} :
          Goto(pc) /\ (pc = "delete sli record" => ~Dry)
    BY <1>7, Zenon DEF ListSliRecords, Dry
  <2>2. run'.pc = pc
    BY <2>1, GotoShape DEF PC
  <2>3. QED BY <1>7, <2>1, <2>2 DEF ListSliRecords, PlainMove
<1>8. CASE DeleteSliRecord
  <2>1. \E pc \in {"base group"} : Goto(pc)
    BY <1>8, Zenon DEF DeleteSliRecord
  <2>2. records' \in {records, records \ {"sli"}}
    BY <1>8 DEF DeleteSliRecord
  <2>3. run'.pc = "base group"
    BY <2>1, GotoShape DEF PC
  <2>4. QED BY <1>8, <2>2, <2>3 DEF DeleteSliRecord, PlainMove
<1>9. CASE CheckBaseGroup
  <2>1. PICK ok \in Answers, pc \in {"delete base group", "base records"} :
          /\ Heard(ok) /\ Goto(pc)
          /\ pc = "delete base group" => FixBase /\ ~Dry
          /\ pc = "base records" => ~FixBase \/ ~ok \/ base_group = "gone" \/ Dry
    BY <1>9, Zenon DEF CheckBaseGroup, Dry, FixBase
  <2>2. run'.pc = pc
    BY <2>1, GotoShape DEF PC
  <2>3. ~unread' => ok
    BY <2>1, AnswerCounted
  <2>4. QED BY <1>9, <2>1, <2>2, <2>3 DEF CheckBaseGroup, PlainMove
<1>10. CASE DeleteBaseGroup
  <2>1. CASE base_group # "gone"
    <3>1. \E pc \in {"poll base group"} : Goto(pc)
      BY <1>10, <2>1, Zenon DEF DeleteBaseGroup
    <3>2. run'.pc = "poll base group"
      BY <3>1, GotoShape DEF PC
    <3>3. QED BY <1>10, <2>1, <3>2 DEF DeleteBaseGroup, PlainMove
  <2>2. CASE base_group = "gone"
    <3>1. \E code \in {1} : Exit(code)
      BY <1>10, <2>2, Zenon DEF DeleteBaseGroup
    <3>2. run'.pc = "failed"
      BY <3>1, ExitShape
    <3>3. QED BY <1>10, <2>2, <3>2 DEF DeleteBaseGroup, PlainMove, azure
  <2>3. QED BY <2>1, <2>2
<1>11. CASE PollBaseGroup
  <2>1. \/ base_group = "gone" /\ \E pc \in {"base records"} : Goto(pc)
        \/ \E code \in {1} : Exit(code)
        \/ run' = [run EXCEPT !.polls = @ + 1]
    BY <1>11, Zenon DEF PollBaseGroup
  <2>2. run.pc = "poll base group" /\ UNCHANGED azure
    BY <1>11 DEF PollBaseGroup
  <2>3. CASE base_group = "gone" /\ \E pc \in {"base records"} : Goto(pc)
    BY <2>2, <2>3, GotoShape DEF PC, PlainMove
  <2>4. CASE \E code \in {1} : Exit(code)
    <3>1. run'.pc = "failed"
      BY <2>4, ExitShape
    <3>2. QED BY <2>2, <3>1 DEF PlainMove
  <2>5. CASE run' = [run EXCEPT !.polls = @ + 1]
    <3>1. run'.pc = run.pc
      BY <1>r, <2>5 DEF Run
    <3>2. QED BY <2>2, <3>1 DEF PlainMove
  <2>6. QED BY <2>1, <2>3, <2>4, <2>5
<1>12. CASE ListBaseRecords
  <2>1. PICK ok \in Answers :
          /\ Heard(ok)
          /\ \/ FixBase /\ ~Dry /\ \E pc \in {"delete base record"} : Goto(pc)
             \/ /\ ~FixBase \/ ~ok \/ "base" \notin records \/ Dry
                /\ \E code \in {0} : Exit(code)
    BY <1>12, Zenon DEF ListBaseRecords, FixBase, Dry
  <2>2. ~unread' => ok
    BY <2>1, AnswerCounted
  <2>3. run.pc = "base records" /\ UNCHANGED azure
    BY <1>12 DEF ListBaseRecords
  <2>4. CASE FixBase /\ ~Dry /\ \E pc \in {"delete base record"} : Goto(pc)
    BY <2>3, <2>4, GotoShape DEF PC, PlainMove
  <2>5. CASE /\ ~FixBase \/ ~ok \/ "base" \notin records \/ Dry
             /\ \E code \in {0} : Exit(code)
    BY <2>2, <2>3, <2>5, ExitShape DEF PlainMove
  <2>6. QED BY <2>1, <2>4, <2>5
<1>13. CASE DeleteBaseRecord
  <2>1. run'.pc = "succeeded"
    BY <1>13, ExitShape DEF DeleteBaseRecord
  <2>2. QED BY <1>13, <2>1 DEF DeleteBaseRecord, PlainMove
<1>14. QED
  BY <1>1, <1>2, <1>3, <1>4, <1>5, <1>6, <1>7, <1>8, <1>9, <1>10, <1>11, <1>12, <1>13
     DEF ElsewhereStep

(* A dry run is nowhere near a deletion that it would have to skip.         *)
WetInv ==
  /\ run.pc \in {"poll dcra", "delete sli record", "delete base group",
                "poll base group", "delete base record"} => ~Dry
  /\ run.pc \in {"delete base group", "poll base group", "delete base record"} => FixBase

(* What has been done by the time the script is where it is, when no read   *)
(* fails; the association has no other owner than the cluster in the group. *)
PastDcra == {"sli records", "delete sli record", "base group", "delete base group",
             "poll base group", "base records", "delete base record"}

OrderInv ==
  ~unread =>
  /\ "base" \notin records => base_group = "gone"
  /\ base_group = "gone" => dcra = "gone"
  /\ run.pc \in PastDcra /\ settings.resource_group = "own" /\ ~Dry =>
       dcra = "gone" \/ base_group # "present"
  /\ run.pc \in {"base records", "delete base record"} /\ FixBase /\ ~Dry =>
       base_group = "gone"

LEMMA WetInit == Init => WetInv
BY DEF Init, IdleRun, WetInv

LEMMA OrderInit == Init => OrderInv
BY DEF Init, IdleRun, OrderInv, PastDcra

LEMMA WetStep == TypeOK /\ WetInv /\ [Next]_vars => WetInv'
<1> SUFFICES ASSUME TypeOK, WetInv, [Next]_vars PROVE WetInv'
  OBVIOUS
<1> USE DEF WetInv, Dry, FixBase
<1>1. CASE Start
  BY <1>1, StartShape DEF Ended
<1>2. CASE ListSlis
  BY <1>2, ListSlisShape
<1>3. CASE DeleteSli
  BY <1>3, DeleteSliShape
<1>4. CASE DeleteServiceGroup
  BY <1>4, DeleteServiceGroupShape
<1>5. CASE ElsewhereStep
  <2>1. PlainMove /\ UNCHANGED settings
    BY <1>5, Elsewhere, ElsewhereMoves
  <2>2. QED BY <2>1 DEF PlainMove
<1>6. CASE DcraGoes \/ BaseGroupGoes \/ UNCHANGED vars
  BY <1>6 DEF DcraGoes, BaseGroupGoes, vars
<1>7. QED
  BY <1>1, <1>2, <1>3, <1>4, <1>5, <1>6 DEF Next, Script, ElsewhereStep

LEMMA OrderStep == TypeOK /\ WetInv /\ OrderInv /\ [Next]_vars => OrderInv'
<1> SUFFICES ASSUME TypeOK, WetInv, OrderInv, [Next]_vars, ~unread' PROVE OrderInv'
  BY DEF OrderInv
<1>u. ~unread
  BY UnreadStays
<1> USE <1>u DEF OrderInv, PastDcra, Dry, FixBase
<1>1. CASE Start
  BY <1>1, StartShape DEF Ended, azure
<1>2. CASE ListSlis
  BY <1>2, ListSlisShape DEF azure
<1>3. CASE DeleteSli
  BY <1>3, DeleteSliShape
<1>4. CASE DeleteServiceGroup
  BY <1>4, DeleteServiceGroupShape
<1>5. CASE ElsewhereStep
  <2>1. PlainMove /\ UNCHANGED settings
    BY <1>5, Elsewhere, ElsewhereMoves
  <2>2. QED BY <2>1 DEF PlainMove, azure, WetInv
<1>6. CASE DcraGoes \/ BaseGroupGoes \/ UNCHANGED vars
  BY <1>6 DEF DcraGoes, BaseGroupGoes, vars, azure
<1>7. QED
  BY <1>1, <1>2, <1>3, <1>4, <1>5, <1>6 DEF Next, Script, ElsewhereStep

(* As long as reads are answered, the base layer's record outlives the base *)
(* resource group.                                                          *)
THEOREM BaseRecordIsLast == Spec => []BaseRecordGoesLast
<1>1. OrderInv => BaseRecordGoesLast
  BY DEF OrderInv, BaseRecordGoesLast
<1>2. QED
  BY <1>1, TypeInit, TypeStep, WetInit, WetStep, OrderInit, OrderStep, PTL DEF Spec

LEMMA DcraAction ==
  ASSUME ~unread, TypeOK, WetInv, OrderInv, [Next]_vars,
         base_group = "present", base_group' = "deleting",
         settings.resource_group = "own"
  PROVE  dcra = "gone"
<1>1. CASE Start \/ ListSlis
  BY <1>1, StartShape, ListSlisShape DEF azure
<1>2. CASE DeleteSli \/ DeleteServiceGroup
  BY <1>2, DeleteSliShape, DeleteServiceGroupShape
<1>3. CASE ElsewhereStep
  BY <1>3, ElsewhereMoves DEF PlainMove, azure, WetInv, OrderInv, PastDcra
<1>4. CASE DcraGoes \/ BaseGroupGoes \/ UNCHANGED vars
  BY <1>4 DEF DcraGoes, BaseGroupGoes, vars, azure
<1>5. QED
  BY <1>1, <1>2, <1>3, <1>4 DEF Next, Script, ElsewhereStep

(* As long as reads are answered, the base resource group is deleted only   *)
(* when the association is gone.                                            *)
THEOREM DcraIsFirst == Spec => DcraGoesFirstIfRead
<1>1. TypeOK /\ WetInv /\ OrderInv /\ [Next]_vars =>
        [base_group = "present" /\ base_group' = "deleting"
           /\ settings.resource_group = "own" /\ ~unread => dcra = "gone"]_vars
  BY DcraAction
<1>2. QED
  BY <1>1, TypeInit, TypeStep, WetInit, WetStep, OrderInit, OrderStep, PTL
     DEF Spec, DcraGoesFirstIfRead

LEMMA DryAction ==
  ASSUME TypeOK, WetInv, [Next]_vars, Dry, Dry'
  PROVE  /\ UNCHANGED <<groups, slis, records>>
         /\ base_group' # base_group => base_group = "deleting"
         /\ dcra' # dcra => dcra = "deleting" \/ base_group = "deleting"
<1>1. CASE Start \/ ListSlis
  BY <1>1, StartShape, ListSlisShape DEF azure
<1>2. CASE DeleteSli \/ DeleteServiceGroup
  BY <1>2, DeleteSliShape, DeleteServiceGroupShape DEF Dry
<1>3. CASE ElsewhereStep
  BY <1>3, Elsewhere, ElsewhereMoves DEF PlainMove, azure, WetInv
<1>4. CASE DcraGoes \/ BaseGroupGoes \/ UNCHANGED vars
  BY <1>4 DEF DcraGoes, BaseGroupGoes, vars, azure
<1>5. QED
  BY <1>1, <1>2, <1>3, <1>4 DEF Next, Script, ElsewhereStep

(* A dry run deletes nothing, and asks for the deletion of nothing, even if *)
(* reads fail.                                                              *)
THEOREM DryRunIsDry == Spec => DryRunDeletesNothing
<1>1. TypeOK /\ WetInv /\ [Next]_vars =>
        [settings.dry_run /\ settings'.dry_run =>
           /\ UNCHANGED <<groups, slis, records>>
           /\ base_group' # base_group => base_group = "deleting"
           /\ dcra' # dcra => dcra = "deleting" \/ base_group = "deleting"]_vars
  BY DryAction DEF Dry
<1>2. QED
  BY <1>1, TypeInit, TypeStep, WetInit, WetStep, PTL DEF Spec, DryRunDeletesNothing

-----------------------------------------------------------------------------
(* What a run that succeeds has done                                       *)

Wanted ==
  IF settings.group_id = None THEN OwnGroups ELSE OwnGroups \cap {settings.group_id}

CleanInv ==
  ~unread /\ CleansAll =>
    /\ run.pc \in {"groups", "slis"} =>
         groups \cap Wanted \subseteq
           run.todo \cup IF run.pc = "slis" THEN {run.group} ELSE {}
    /\ run.pc \notin {"groups", "slis", "idle", "failed"} => groups \cap Wanted = {}
    /\ run.pc = "succeeded" => base_group = "gone" /\ "base" \notin records

LEMMA CleanInit == Init => CleanInv
BY DEF Init, IdleRun, CleanInv

LEMMA CleanStep == TypeOK /\ WetInv /\ OrderInv /\ CleanInv /\ [Next]_vars => CleanInv'
<1> SUFFICES ASSUME TypeOK, WetInv, OrderInv, CleanInv, [Next]_vars, CleansAll', ~unread'
             PROVE  CleanInv'
  BY DEF CleanInv
<1>r. ~unread
  BY UnreadStays
<1> USE <1>r
<1>o. OwnGroups' = OwnGroups
  BY DEF OwnGroups
<1>u. UNCHANGED settings => CleansAll /\ Wanted' = Wanted
  BY <1>o DEF CleansAll, Wanted
<1>1. CASE Start
  <2>1. run'.pc = "groups" /\ groups' = groups
    BY <1>1, StartShape DEF CleansAll, azure
  <2>2. groups' \cap Wanted' \subseteq run'.todo
    BY <1>1, <1>o, <2>1, StartShape, OwnedIsOwn DEF Wanted, CleansAll
  <2>3. QED BY <2>1, <2>2 DEF CleanInv
<1>2. CASE ListSlis
  <2>1. UNCHANGED <<settings, groups>>
    BY <1>2, ListSlisShape DEF azure
  <2>2. QED BY <1>2, <1>u, <2>1, ListSlisShape DEF CleanInv
<1>3. CASE DeleteSli
  BY <1>3, <1>u, DeleteSliShape DEF CleanInv
<1>4. CASE DeleteServiceGroup
  <2>1. ~settings.dry_run
    BY <1>4, <1>u, DeleteServiceGroupShape DEF CleansAll
  <2>2. groups' = groups \ {run.group}
    BY <1>4, <2>1, DeleteServiceGroupShape
  <2>3. QED BY <1>4, <1>u, <2>2, DeleteServiceGroupShape DEF CleanInv
<1>5. CASE ElsewhereStep
  <2>1. PlainMove /\ UNCHANGED <<settings, groups>>
    BY <1>5, Elsewhere, ElsewhereMoves
  <2>2. CleansAll /\ Wanted' = Wanted /\ FixBase /\ ~Dry
    BY <1>u, <2>1 DEF CleansAll, FixBase, Dry
  <2>3. run'.pc \notin {"groups", "slis", "idle"}
    BY <2>1 DEF PlainMove
  <2>4. run'.pc # "failed" => groups \cap Wanted = {}
    BY <2>1, <2>2 DEF PlainMove, CleanInv
  <2>5. run'.pc = "succeeded" => base_group' = "gone" /\ "base" \notin records'
    BY <2>1, <2>2 DEF PlainMove, OrderInv, azure
  <2>6. QED BY <2>1, <2>2, <2>3, <2>4, <2>5 DEF CleanInv
<1>6. CASE DcraGoes \/ BaseGroupGoes \/ UNCHANGED vars
  <2>1. /\ UNCHANGED <<settings, groups, records, run>>
        /\ base_group = "gone" => base_group' = "gone"
    BY <1>6 DEF DcraGoes, BaseGroupGoes, vars, azure
  <2>2. QED BY <1>u, <2>1 DEF CleanInv
<1>7. QED
  BY <1>1, <1>2, <1>3, <1>4, <1>5, <1>6 DEF Next, Script, ElsewhereStep

(* As long as reads are answered, a hook that succeeds has deleted all it   *)
(* was to delete, whatever earlier runs of it left behind.                  *)
THEOREM SuccessIsClean == Spec => []SuccessMeansClean
<1>1. OrderInv /\ CleanInv => SuccessMeansClean
  BY DEF OrderInv, CleanInv, SuccessMeansClean, Wanted
<1>2. QED
  BY <1>1, TypeInit, TypeStep, WetInit, WetStep, OrderInit, OrderStep,
     CleanInit, CleanStep, PTL DEF Spec
=============================================================================
