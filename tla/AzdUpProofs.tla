----------------------------- MODULE AzdUpProofs -----------------------------
(***************************************************************************)
(* Theorems about AzdUp: for any permissions, any number of attempts per    *)
(* wait, any number of pods and of mishaps.                                 *)
(***************************************************************************)
EXTENDS AzdUp, TLAPS

LEMMA QueriesShape ==
  /\ Len(Queries) = 3 /\ DOMAIN Queries = 1 .. 3
  /\ Signals = {Queries[1], Queries[2], Queries[3]}
BY DEF Queries, Signals

LEMMA NewRunType == NewRun \in RunState
<1>1. 0 \in 0 .. MaxPolls - 1 /\ 0 \in 0 .. Len(Queries)
  BY QueriesShape, BoundsAssumption
<1>2. QED BY <1>1, Zenon DEF NewRun, RunState, PC, Ended, Hooks

LEMMA GotoType == ASSUME NEW pc \in PC, Goto(pc) PROVE up' \in RunState
BY NewRunType DEF Goto, RunState

LEMMA GoOnType == ASSUME NEW pc \in PC, GoOnWithout(pc) PROVE up' \in RunState
BY NewRunType DEF GoOnWithout, RunState

(* AwaitAks goes on to deploy, and keeps what could not be read.            *)
LEMMA AksFoundType ==
  ASSUME up \in RunState, up' = [up EXCEPT !.pc = "apply Instrumentation", !.polls = 0]
  PROVE  up' \in RunState /\ up'.pc = "apply Instrumentation" /\ up'.unread = up.unread
<1>1. "apply Instrumentation" \in PC /\ 0 \in 0 .. MaxPolls - 1
  BY BoundsAssumption DEF PC
<1>2. QED BY <1>1 DEF RunState

LEMMA AwaitType == ASSUME NEW hook \in Hooks, Await(hook) PROVE up' \in RunState
<1>1. "await Instrumentation" \in PC
  BY DEF PC
<1>2. QED BY <1>1, NewRunType DEF Await, RunState

LEMMA TryAgainType == ASSUME up \in RunState, TryAgain PROVE up' \in RunState
<1>1. CASE up.polls + 1 < MaxPolls
  <2>1. up' = [up EXCEPT !.polls = @ + 1, !.asked = 0, !.missing = FALSE]
    BY <1>1, BoundsAssumption DEF TryAgain, RunState
  <2>2. up.polls + 1 \in 0 .. MaxPolls - 1 /\ 0 \in 0 .. Len(Queries)
    BY <1>1, QueriesShape, BoundsAssumption DEF RunState
  <2>3. QED BY <2>1, <2>2 DEF RunState
<1>2. CASE ~(up.polls + 1 < MaxPolls)
  <2>1. Goto("failed")
    BY <1>2, BoundsAssumption DEF TryAgain
  <2>2. QED BY <2>1, GotoType DEF PC, Ended
<1>3. QED BY <1>1, <1>2

LEMMA MishapType == ASSUME mishaps \in 0 .. MaxMishaps, Mishap
                    PROVE  mishaps' \in 0 .. MaxMishaps
BY BoundsAssumption DEF Mishap

LEMMA FindType == ASSUME mishaps \in 0 .. MaxMishaps, NEW checks,
                         Finds(checks) \/ FindsNot(checks)
                  PROVE  mishaps' \in 0 .. MaxMishaps
BY MishapType DEF Finds, FindsNot

(* A pod that changes is a pod, and the numbers stay numbers.               *)
LEMMA PodChange ==
  ASSUME NEW p \in Pod
  PROVE  /\ \A b \in BOOLEAN : [p EXCEPT !.current = b] \in Pod
         /\ \A ph \in Phases : [p EXCEPT !.phase = ph] \in Pod
         /\ \A ph \in Phases : [p EXCEPT !.phase = ph, !.current = FALSE] \in Pod
BY DEF Pod

LEMMA LeavingPod ==
  ASSUME NEW p \in Pod, NEW ph \in Phases,
         NEW q, q = [p EXCEPT !.phase = ph, !.current = FALSE]
  PROVE  q \in Pod /\ q.injected = p.injected /\ q.current = FALSE
BY DEF Pod

LEMMA BecomesType ==
  ASSUME pods \in [Pod -> Nat], NEW p \in Existing, NEW q \in Pod, Becomes(p, q)
  PROVE  /\ pods' \in [Pod -> Nat]
         /\ \A r \in Existing' : r \in Existing \/ r = q
<1>1. p \in Pod /\ pods[p] > 0 /\ pods[p] \in Nat
  BY DEF Existing
<1>2. pods' = [pods EXCEPT ![p] = pods[p] - 1, ![q] = @ + 1]
  BY DEF Becomes
<1>3. \A r \in Pod : pods'[r] \in Nat /\ (r # q => pods'[r] <= pods[r])
  BY <1>1, <1>2
<1>4. QED BY <1>1, <1>2, <1>3 DEF Existing

LEMMA TypeInit == Init => TypeOK
<1> SUFFICES ASSUME Init PROVE TypeOK
  OBVIOUS
<1>1. up \in RunState
  BY NewRunType DEF Init
<1>2. mishaps \in 0 .. MaxMishaps /\ replicas \in {1, 2} /\ pods \in [Pod -> Nat]
  BY BoundsAssumption DEF Init
<1>3. QED BY <1>1, <1>2, Zenon DEF Init, TypeOK

(* What the step of one component leaves of the others' types.              *)
LEMMA TypeStep == TypeOK /\ [Next]_vars => TypeOK'
<1> SUFFICES ASSUME TypeOK, [Next]_vars PROVE TypeOK'
  OBVIOUS
<1>t. /\ up \in RunState /\ cluster \subseteq Facts /\ pods \in [Pod -> Nat]
      /\ mishaps \in 0 .. MaxMishaps /\ signals \subseteq Signals /\ sighted \subseteq Signals
  BY DEF TypeOK
<1>1. CASE Start
  BY <1>1, GotoType DEF Start, TypeOK, app, metrics, PC
<1>2. CASE ProvisionBase
  BY <1>2, GotoType DEF ProvisionBase, TypeOK, app, metrics, PC, Facts
<1>3. CASE RefreshKubeconfig
  BY <1>3, <1>t, GotoType, GoOnType, MishapType DEF RefreshKubeconfig, TypeOK, app, metrics, PC
<1>4. CASE AwaitAks
  <2>1. up' \in RunState
    BY <1>4, <1>t, AksFoundType, TryAgainType DEF AwaitAks
  <2>2. QED BY <2>1, <1>4, <1>t, FindType DEF AwaitAks, TypeOK, app, metrics
<1>5. CASE ApplyInstrumentation
  <2>1. up' \in RunState
    BY <1>5, GotoType, AwaitType DEF ApplyInstrumentation, PC, Ended, Hooks
  <2>2. cluster' \in SUBSET Facts
    BY <1>5, <1>t DEF ApplyInstrumentation, Facts, InstrumentationChecks
  <2>3. QED BY <2>1, <2>2, <1>5 DEF ApplyInstrumentation, TypeOK, app, metrics
<1>6. CASE AwaitInstrumentation
  <2>1. up' \in RunState
    BY <1>6, <1>t, TryAgainType DEF AwaitInstrumentation, RunState, PC
  <2>2. QED BY <2>1, <1>6, <1>t, FindType DEF AwaitInstrumentation, TypeOK, app, metrics
<1>7. CASE AwaitWebhook
  <2>1. up' \in RunState
    BY <1>7, GotoType, AwaitType DEF AwaitWebhook, PC, Ended, Hooks
  <2>2. QED BY <2>1, <1>7 DEF AwaitWebhook, TypeOK, app, metrics
<1>8. CASE ApplyApi
  <2>1. up' \in RunState
    BY <1>8, AwaitType DEF ApplyApi, Hooks
  <2>2. pods' \in [Pod -> Nat]
    <3>1. ASSUME NEW p \in Pod PROVE pods[p] + pods[[p EXCEPT !.current = TRUE]] \in Nat
      <4>1. [p EXCEPT !.current = TRUE] \in Pod
        BY PodChange
      <4>2. QED BY <4>1, <1>t
    <3>2. QED BY <3>1, <1>8 DEF ApplyApi
  <2>3. template' \in {"plain", "injected"}
    BY <1>8 DEF ApplyApi
  <2>4. replicas' \in {1, 2} /\ checked' \in BOOLEAN
    <3>1. replicas' = 1 /\ checked' = FALSE
      BY <1>8 DEF ApplyApi
    <3>2. QED BY <3>1, Zenon
  <2>5. QED BY <2>1, <2>2, <2>3, <2>4, <1>8 DEF ApplyApi, TypeOK, metrics
<1>9. CASE AwaitRollout
  BY <1>9, <1>t, GotoType, MishapType DEF AwaitRollout, TypeOK, app, metrics, PC, Ended
<1>10. CASE ReadDeployment
  BY <1>10, GotoType DEF ReadDeployment, TypeOK, app, metrics, PC, Ended
<1>11. CASE ReadPods
  BY <1>11, GotoType DEF ReadPods, TypeOK, app, metrics, PC, Ended
<1>12. CASE DeployRest
  BY <1>12, GotoType DEF DeployRest, TypeOK, app, metrics, PC
<1>13. CASE DeployPublisher
  BY <1>13, GotoType DEF DeployPublisher, TypeOK, app, metrics, PC
<1>14. CASE SliOutputs
  BY <1>14, <1>t, GotoType, GoOnType, MishapType DEF SliOutputs, TypeOK, app, PC
<1>15. CASE QuerySignal
  <2>1. PICK f \in BOOLEAN : up' = [up EXCEPT !.asked = @ + 1, !.missing = @ \/ ~f]
    BY <1>15 DEF QuerySignal
  <2>2. up.asked + 1 \in 0 .. Len(Queries)
    BY <1>15, <1>t, QueriesShape DEF QuerySignal, RunState
  <2>3. up' \in RunState
    BY <2>1, <2>2, <1>t DEF RunState
  <2>4. mishaps' \in 0 .. MaxMishaps
    BY <1>15, <1>t, MishapType DEF QuerySignal
  <2>5. QED BY <2>3, <2>4, <1>15 DEF QuerySignal, TypeOK, app, metrics
<1>16. CASE EndAttempt
  BY <1>16, <1>t, GotoType, TryAgainType DEF EndAttempt, TypeOK, app, PC
<1>17. CASE ProvisionSli
  BY <1>17, GotoType DEF ProvisionSli, TypeOK, app, PC, Ended
<1>18. CASE CommandFails
  BY <1>18, <1>t, GotoType, MishapType DEF CommandFails, TypeOK, app, metrics, PC, Ended
<1>19. CASE SwitchContext \/ WebhookStarts
  BY <1>19 DEF SwitchContext, WebhookStarts, TypeOK, app, metrics
<1>20. CASE Appear
  BY <1>20 DEF Appear, TypeOK, app, metrics
<1>21. CASE WebhookStops \/ ScaleOut
  <2>1. webhook_ready' \in BOOLEAN /\ replicas' \in {1, 2}
    <3>1. webhook_ready' \in {FALSE, webhook_ready} /\ replicas' \in {replicas, 2}
      BY <1>21 DEF WebhookStops, ScaleOut, app
    <3>2. webhook_ready \in BOOLEAN /\ replicas \in {1, 2}
      BY DEF TypeOK
    <3>3. QED BY <3>1, <3>2, Zenon
  <2>2. mishaps' \in 0 .. MaxMishaps
    BY <1>21, <1>t, MishapType DEF WebhookStops, ScaleOut
  <2>3. QED BY <2>1, <2>2, <1>21 DEF WebhookStops, ScaleOut, TypeOK, app, metrics
<1>22. CASE Rollout
  <2>1. pods' \in [Pod -> Nat]
    <3>1. CASE CreatePod
      <4>1. PICK p \in Pod : pods' = [pods EXCEPT ![p] = @ + 1]
        <5>1. [phase |-> "Pending", current |-> TRUE,
               injected |-> template = "injected"] \in Pod
          BY DEF Pod, Phases
        <5>2. QED BY <3>1, <5>1 DEF CreatePod
      <4>2. QED BY <4>1, <1>t
    <3>2. ASSUME NEW p \in Existing, PodRuns(p) \/ RetirePod(p) PROVE pods' \in [Pod -> Nat]
      <4>1. p \in Pod
        BY DEF Existing
      <4>2. [p EXCEPT !.phase = "Running"] \in Pod
            /\ [p EXCEPT !.phase = "Terminating", !.current = FALSE] \in Pod
        BY <4>1, PodChange DEF Phases
      <4>3. QED BY <3>2, <4>2, <1>t, BecomesType DEF PodRuns, RetirePod, Leaves
    <3>3. QED BY <3>1, <3>2, <1>22 DEF Rollout
  <2>2. QED BY <2>1, <1>22 DEF Rollout, TypeOK, metrics
<1>23. CASE \E p \in Pod : PodGoes(p)
  <2>1. PICK p \in Pod : PodGoes(p)
    BY <1>23
  <2>2. pods' \in [Pod -> Nat]
    BY <2>1, <1>t DEF PodGoes, Existing
  <2>3. QED BY <2>1, <2>2 DEF PodGoes, TypeOK, metrics
<1>24. CASE PodDies
  <2>1. PICK p \in Existing, phase \in {"Terminating", "Failed"} : Leaves(p, phase)
    BY <1>24 DEF PodDies
  <2>2. p \in Pod /\ [p EXCEPT !.phase = phase, !.current = FALSE] \in Pod
    BY <2>1, PodChange DEF Existing, Phases
  <2>3. pods' \in [Pod -> Nat]
    BY <2>1, <2>2, <1>t, BecomesType DEF Leaves
  <2>4. QED BY <2>3, <1>24, <1>t, MishapType DEF PodDies, TypeOK, metrics
<1>25. ASSUME NEW s \in Signals, Ingest(s) \/ Expire(s) PROVE TypeOK'
  BY <1>25, <1>t, MishapType DEF Ingest, Expire, TypeOK, app
<1>26. CASE UNCHANGED vars
  BY <1>26 DEF vars, app, metrics, TypeOK
<1>27. QED
  BY <1>1, <1>2, <1>3, <1>4, <1>5, <1>6, <1>7, <1>8, <1>9, <1>10, <1>11, <1>12, <1>13,
     <1>14, <1>15, <1>16, <1>17, <1>18, <1>19, <1>20, <1>21, <1>22, <1>23, <1>24,
     <1>25, <1>26
     DEF Next, Run, Surroundings

(* The workflow's state and its surroundings are well typed, and no wait    *)
(* makes more attempts than its deadline leaves room for.                   *)
THEOREM AzdUpTypeCorrect == Spec => []TypeOK
BY TypeInit, TypeStep, PTL DEF Spec

-----------------------------------------------------------------------------
(* Where a step may lead.                                                   *)

LEMMA GotoPc == ASSUME NEW pc, Goto(pc) PROVE up'.pc = pc
BY DEF Goto, NewRun

LEMMA GoOnPc == ASSUME NEW pc, GoOnWithout(pc) PROVE up'.pc = pc /\ up'.unread = TRUE
BY DEF GoOnWithout, NewRun

LEMMA RefreshPc ==
  ASSUME RefreshKubeconfig
  PROVE  up'.pc = "await AKS" /\ (context' = "own" \/ up'.unread = TRUE)
BY GotoPc, GoOnPc DEF RefreshKubeconfig

LEMMA OutputsPc ==
  ASSUME SliOutputs
  PROVE  \/ up'.pc = "query"
         \/ up'.pc = "provision sli" /\ (up'.unread = TRUE \/ ~service_group)
<1>1. ASSUME Goto("query") PROVE up'.pc = "query"
  BY <1>1, GotoPc
<1>2. ASSUME Goto("provision sli") PROVE up'.pc = "provision sli"
  BY <1>2, GotoPc
<1>3. ASSUME GoOnWithout("provision sli")
      PROVE  up'.pc = "provision sli" /\ up'.unread = TRUE
  BY <1>3, GoOnPc
<1>4. QED BY <1>1, <1>2, <1>3 DEF SliOutputs

LEMMA AwaitPc == ASSUME NEW hook, Await(hook) PROVE up'.pc = "await Instrumentation"
BY DEF Await, NewRun

LEMMA TryAgainPc ==
  ASSUME up \in RunState, TryAgain
  PROVE  \/ /\ up'.pc = up.pc /\ up'.asked = 0 /\ up'.missing = FALSE
            /\ up'.unread = up.unread
         \/ up'.pc = "failed"
BY GotoPc DEF TryAgain, RunState

(* The surroundings do not move the run.                                    *)
LEMMA SurroundingsPc == ASSUME Surroundings PROVE up' = up
BY DEF Surroundings, SwitchContext, Appear, WebhookStarts, WebhookStops, ScaleOut, Rollout,
       PodDies, PodGoes, Ingest, Expire

-----------------------------------------------------------------------------
(* Once read, a template stays until the next ApplyApi; pods of the current *)
(* template have what it has; and all pods were looked at in between.       *)
CheckedInv ==
  /\ \A p \in Existing : p.current => p.injected = (template = "injected")
  /\ up.pc = "read pods" => template = "injected"
  /\ CheckedMeansInjected

LEMMA CheckedInit == Init => CheckedInv
BY DEF Init, CheckedInv, CheckedMeansInjected, Existing, NewRun

LEMMA CheckedFrame ==
  ASSUME CheckedInv, UNCHANGED <<template, pods, checked>>,
         up'.pc = "read pods" => template = "injected"
  PROVE  CheckedInv'
BY DEF CheckedInv, CheckedMeansInjected, Existing

(* Pods that come and go, of the current template or as they were before.   *)
LEMMA CheckedPods ==
  ASSUME CheckedInv, UNCHANGED <<up, template, checked>>,
         \A q \in Existing' :
           \/ q.injected = (template = "injected")
           \/ \E p \in Existing : /\ q.injected = p.injected
                                  /\ q.current => p.current
  PROVE  CheckedInv'
<1>1. ASSUME NEW q \in Existing', q.current PROVE q.injected = (template = "injected")
  BY <1>1 DEF CheckedInv
<1>2. ASSUME checked, NEW q \in Existing' PROVE q.injected
  BY <1>2 DEF CheckedInv, CheckedMeansInjected
<1>3. QED BY <1>1, <1>2 DEF CheckedInv, CheckedMeansInjected

LEMMA CheckedStep == TypeOK /\ CheckedInv /\ [Next]_vars => CheckedInv'
<1> SUFFICES ASSUME TypeOK, CheckedInv, [Next]_vars PROVE CheckedInv'
  OBVIOUS
<1>t. up \in RunState /\ pods \in [Pod -> Nat]
  BY DEF TypeOK
<1>1. CASE Start \/ ProvisionBase \/ RefreshKubeconfig \/ ApplyInstrumentation
           \/ DeployRest \/ DeployPublisher \/ SliOutputs \/ ProvisionSli \/ CommandFails
  <2>1. up'.pc # "read pods"
    <3>1. CASE Start \/ ProvisionBase \/ DeployRest \/ DeployPublisher \/ ProvisionSli
               \/ CommandFails
      BY <3>1, GotoPc DEF Start, ProvisionBase, DeployRest, DeployPublisher, ProvisionSli,
         CommandFails
    <3>2. CASE ApplyInstrumentation
      BY <3>2, GotoPc, AwaitPc DEF ApplyInstrumentation
    <3>3. CASE RefreshKubeconfig
      BY <3>3, RefreshPc
    <3>4. CASE SliOutputs
      BY <3>4, OutputsPc
    <3>5. QED BY <1>1, <3>1, <3>2, <3>3, <3>4
  <2>2. UNCHANGED <<template, pods, checked>>
    BY <1>1 DEF Start, ProvisionBase, RefreshKubeconfig, ApplyInstrumentation, DeployRest,
       DeployPublisher, SliOutputs, ProvisionSli, CommandFails, app
  <2>3. QED BY <2>1, <2>2, CheckedFrame
<1>2. CASE AwaitAks \/ AwaitInstrumentation \/ AwaitWebhook \/ AwaitRollout \/ EndAttempt
           \/ QuerySignal
  <2>1. CASE AwaitAks \/ EndAttempt
    BY <2>1, <1>t, GotoPc, AksFoundType, TryAgainPc, CheckedFrame DEF AwaitAks, EndAttempt, app
  <2>2. CASE AwaitInstrumentation
    <3>1. up'.pc # "read pods"
      BY <2>2, <1>t, TryAgainPc DEF AwaitInstrumentation, RunState
    <3>2. QED BY <3>1, <2>2, CheckedFrame DEF AwaitInstrumentation, app
  <2>3. CASE AwaitWebhook
    BY <2>3, GotoPc, AwaitPc, CheckedFrame DEF AwaitWebhook, app
  <2>4. CASE AwaitRollout
    BY <2>4, GotoPc, CheckedFrame DEF AwaitRollout, app
  <2>5. CASE QuerySignal
    <3>1. up'.pc = "query"
      BY <2>5, <1>t DEF QuerySignal, RunState
    <3>2. QED BY <3>1, <2>5, CheckedFrame DEF QuerySignal, app
  <2>6. QED BY <1>2, <2>1, <2>2, <2>3, <2>4, <2>5
<1>3. CASE ApplyApi
  <2>1. \A p \in Existing' : ~p.current
    <3>1. \A p \in Pod : p.current => pods'[p] = 0
      BY <1>3 DEF ApplyApi
    <3>2. QED BY <3>1 DEF Existing
  <2>2. up'.pc # "read pods" /\ ~checked'
    BY <1>3, AwaitPc DEF ApplyApi
  <2>3. QED BY <2>1, <2>2 DEF CheckedInv, CheckedMeansInjected
<1>4. CASE ReadDeployment
  BY <1>4, GotoPc, CheckedFrame DEF ReadDeployment, app
<1>5. CASE ReadPods
  <2>1. CASE checked' = TRUE /\ \A p \in Existing : ~PodError(p)
    <3>1. up'.pc # "read pods" /\ template = "injected" /\ UNCHANGED <<template, pods>>
      BY <1>5, GotoPc DEF ReadPods, CheckedInv, app
    <3>2. \A p \in Existing : p.injected
      BY <2>1 DEF PodError
    <3>3. QED BY <3>1, <3>2 DEF CheckedInv, CheckedMeansInjected, Existing
  <2>2. CASE UNCHANGED checked
    BY <2>2, <1>5, GotoPc, CheckedFrame DEF ReadPods, app
  <2>3. QED BY <1>5, <2>1, <2>2 DEF ReadPods
<1>6. CASE SwitchContext \/ Appear \/ WebhookStarts \/ WebhookStops \/ ScaleOut
           \/ \E s \in Signals : Ingest(s) \/ Expire(s)
  BY <1>6, CheckedFrame DEF SwitchContext, Appear, WebhookStarts, WebhookStops, ScaleOut,
     Ingest, Expire, app, CheckedInv
<1>7. CASE Rollout
  <2>1. CASE CreatePod
    <3>1. \A q \in Existing' : q \in Existing \/ q.injected = (template = "injected")
      BY <2>1, <1>t DEF CreatePod, Existing
    <3>2. QED BY <3>1, <1>7, CheckedPods DEF Rollout
  <2>2. ASSUME NEW p \in Existing, PodRuns(p) \/ RetirePod(p) PROVE CheckedInv'
    <3>1. p \in Pod
      BY DEF Existing
    <3>2. PICK q \in Pod : /\ Becomes(p, q) /\ q.injected = p.injected
                           /\ q.current => p.current
      <4>1. CASE PodRuns(p)
        BY <4>1, <3>1 DEF PodRuns, Pod, Phases
      <4>2. CASE RetirePod(p)
        <5>1. "Terminating" \in Phases
          BY DEF Phases
        <5>2. Becomes(p, [p EXCEPT !.phase = "Terminating", !.current = FALSE])
          BY <4>2 DEF RetirePod, Leaves
        <5>3. QED BY <5>1, <5>2, <3>1, LeavingPod, Zenon
      <4>3. QED BY <2>2, <4>1, <4>2
    <3>3. \A r \in Existing' : r \in Existing \/ r = q
      BY <3>2, <1>t, BecomesType
    <3>4. QED BY <3>2, <3>3, <1>7, CheckedPods DEF Rollout
  <2>3. QED BY <1>7, <2>1, <2>2 DEF Rollout
<1>8. CASE \E p \in Pod : PodGoes(p)
  <2>1. PICK p \in Pod : PodGoes(p)
    BY <1>8
  <2>2. \A q \in Existing' : q \in Existing
    BY <2>1, <1>t DEF PodGoes, Existing
  <2>3. QED BY <2>1, <2>2, CheckedPods DEF PodGoes
<1>9. CASE PodDies
  <2>1. PICK p \in Existing, phase \in {"Terminating", "Failed"} : Leaves(p, phase)
    BY <1>9 DEF PodDies
  <2>2. p \in Pod
    BY DEF Existing
  <2>3. PICK q \in Pod : Becomes(p, q) /\ q.injected = p.injected /\ ~q.current
    <3>1. phase \in Phases
      BY DEF Phases
    <3>2. Becomes(p, [p EXCEPT !.phase = phase, !.current = FALSE])
      BY <2>1 DEF Leaves
    <3>3. QED BY <3>1, <3>2, <2>2, LeavingPod, Zenon
  <2>4. \A r \in Existing' : r \in Existing \/ r = q
    BY <2>3, <1>t, BecomesType
  <2>5. QED BY <2>3, <2>4, <1>9, CheckedPods DEF PodDies
<1>10. CASE UNCHANGED vars
  BY <1>10, CheckedFrame DEF vars, app, CheckedInv
<1>11. QED
  BY <1>1, <1>2, <1>3, <1>4, <1>5, <1>6, <1>7, <1>8, <1>9, <1>10 DEF Next, Run, Surroundings

(* Between a passed check-injected and the next deployment of the API, no   *)
(* pod is without the OTLP variables, for any number of pods and whatever   *)
(* happens to them.                                                         *)
THEOREM CheckedIsInjected == Spec => []CheckedMeansInjected
<1>1. CheckedInv => CheckedMeansInjected
  BY DEF CheckedInv
<1>2. QED BY <1>1, TypeInit, TypeStep, CheckedInit, CheckedStep, PTL DEF Spec

-----------------------------------------------------------------------------
(* What each place of the run has established; nothing of it is lost.       *)
BeforeRefresh == Ended \cup {"provision base", "refresh kubeconfig"}

Asking == BeforeRefresh \cup {"await AKS"}
Deploying == Asking \cup {"apply Instrumentation"}

ReadyInv ==
  /\ up.pc \notin Deploying => context = "own"
  /\ up.pc \notin Deploying => AksChecks \subseteq cluster
  /\ up.pc = "await AKS" /\ ~up.unread => context = "own"
  /\ up.pc = "apply Instrumentation" /\ ~up.unread => AksChecks \subseteq cluster
  /\ up.pc \in {"await webhook", "apply API"} => InstrumentationChecks \subseteq cluster

LEMMA ReadyInit == Init => ReadyInv
BY DEF Init, NewRun, ReadyInv, Deploying, Asking, BeforeRefresh, Ended

LEMMA ReadyStep == TypeOK /\ ReadyInv /\ [Next]_vars => ReadyInv'
<1> SUFFICES ASSUME TypeOK, ReadyInv, [Next]_vars PROVE ReadyInv'
  OBVIOUS
<1>t. up \in RunState
  BY DEF TypeOK
<1> DEFINE Kept(pc) == UNCHANGED <<context, cluster>> /\ up'.pc = pc
<1>k. ASSUME NEW pc, Kept(pc), up.pc \notin Deploying,
             pc \notin {"await AKS", "apply Instrumentation", "await webhook", "apply API"}
      PROVE  ReadyInv'
  BY <1>k DEF ReadyInv
<1>s. ASSUME NEW pc \in BeforeRefresh, up'.pc = pc PROVE ReadyInv'
  BY <1>s DEF ReadyInv, Deploying, Asking, BeforeRefresh, Ended
<1>1. CASE Start
  BY <1>1, <1>s, GotoPc DEF Start, BeforeRefresh
<1>2. CASE ProvisionBase
  BY <1>2, <1>s, GotoPc DEF ProvisionBase, BeforeRefresh
<1>3. CASE RefreshKubeconfig
  <2>1. up'.pc = "await AKS" /\ (context' = "own" \/ up'.unread = TRUE)
    BY <1>3, RefreshPc
  <2>2. QED BY <2>1 DEF ReadyInv, Deploying, Asking
<1>4. CASE AwaitAks
  <2>0. /\ up.pc = "await AKS" /\ (up.unread \/ context = "own")
        /\ UNCHANGED <<context, cluster>>
    BY <1>4 DEF AwaitAks, ReadyInv
  <2>1. CASE Finds(AksChecks) /\ up' = [up EXCEPT !.pc = "apply Instrumentation", !.polls = 0]
    <3>1. up'.unread = up.unread /\ up'.pc = "apply Instrumentation"
      BY <2>1, <1>t, AksFoundType
    <3>2. context = "own" => AksChecks \subseteq cluster
      BY <2>1 DEF Finds, Visible
    <3>3. QED BY <2>0, <3>1, <3>2 DEF ReadyInv, Deploying, Asking
  <2>2. CASE TryAgain
    <3>1. \/ up'.pc = "await AKS" /\ up'.unread = up.unread
          \/ up'.pc = "failed"
      BY <2>0, <2>2, <1>t, TryAgainPc
    <3>2. QED BY <2>0, <3>1 DEF ReadyInv, Deploying, Asking, BeforeRefresh, Ended
  <2>3. QED BY <1>4, <2>1, <2>2 DEF AwaitAks
<1>5. CASE ApplyInstrumentation
  <2>1. up.pc = "apply Instrumentation" /\ context' = "own" /\ cluster \subseteq cluster'
    BY <1>5 DEF ApplyInstrumentation
  <2>2. \/ up'.pc = "await Instrumentation" /\ AksChecks \subseteq cluster
        \/ up'.pc = "failed"
    BY <1>5, GotoPc, AwaitPc DEF ApplyInstrumentation
  <2>3. QED BY <2>1, <2>2 DEF ReadyInv, Deploying, Asking, BeforeRefresh, Ended
<1>6. CASE AwaitInstrumentation
  <2>0. /\ up.pc = "await Instrumentation" /\ context = "own" /\ AksChecks \subseteq cluster
        /\ UNCHANGED <<context, cluster>>
    BY <1>6 DEF AwaitInstrumentation, ReadyInv, Deploying, Asking, BeforeRefresh, Ended
  <2>1. CASE Finds(InstrumentationChecks) /\ up' = [up EXCEPT !.pc = "await webhook"]
    <3>1. InstrumentationChecks \subseteq cluster /\ up'.pc = "await webhook"
      BY <2>0, <2>1, <1>t DEF Finds, Visible, RunState
    <3>2. QED BY <2>0, <3>1 DEF ReadyInv
  <2>2. CASE TryAgain
    <3>1. up'.pc \in {"await Instrumentation", "failed"}
      BY <2>0, <2>2, <1>t, TryAgainPc
    <3>2. QED BY <2>0, <3>1 DEF ReadyInv, Deploying, Asking, BeforeRefresh, Ended
  <2>3. QED BY <1>6, <2>1, <2>2 DEF AwaitInstrumentation
<1>7. CASE AwaitWebhook
  <2>1. /\ up.pc = "await webhook" /\ UNCHANGED <<context, cluster>>
        /\ up'.pc \in {"await Instrumentation", "apply API", "await rollout", "failed"}
    BY <1>7, GotoPc, AwaitPc DEF AwaitWebhook
  <2>2. QED BY <2>1 DEF ReadyInv, Deploying, Asking, BeforeRefresh, Ended
<1>8. CASE ApplyApi
  BY <1>8, <1>k, AwaitPc DEF ApplyApi, Deploying, Asking, BeforeRefresh, Ended
<1>9. CASE AwaitRollout
  BY <1>9, <1>k, GotoPc DEF AwaitRollout, Deploying, Asking, BeforeRefresh, Ended
<1>10. CASE ReadDeployment
  BY <1>10, <1>k, GotoPc DEF ReadDeployment, Deploying, Asking, BeforeRefresh, Ended
<1>11. CASE ReadPods
  BY <1>11, <1>k, GotoPc DEF ReadPods, Deploying, Asking, BeforeRefresh, Ended
<1>12. CASE DeployRest
  BY <1>12, <1>k, GotoPc DEF DeployRest, Deploying, Asking, BeforeRefresh, Ended
<1>13. CASE DeployPublisher
  BY <1>13, <1>k, GotoPc DEF DeployPublisher, Deploying, Asking, BeforeRefresh, Ended
<1>14. CASE SliOutputs
  <2>1. up'.pc \in {"query", "provision sli"} /\ UNCHANGED <<context, cluster>>
    BY <1>14, OutputsPc DEF SliOutputs
  <2>2. QED BY <2>1, <1>k, <1>14 DEF SliOutputs, Deploying, Asking, BeforeRefresh, Ended
<1>15. CASE QuerySignal
  <2>1. up.pc = "query" /\ up'.pc = "query" /\ UNCHANGED <<context, cluster>>
    BY <1>15, <1>t DEF QuerySignal, RunState
  <2>2. QED BY <2>1, <1>k DEF Deploying, Asking, BeforeRefresh, Ended
<1>16. CASE EndAttempt
  <2>1. up.pc = "query" /\ up'.pc \in {"query", "provision sli", "failed"}
        /\ UNCHANGED <<context, cluster>>
    BY <1>16, <1>t, GotoPc, TryAgainPc DEF EndAttempt
  <2>2. QED BY <2>1, <1>k DEF Deploying, Asking, BeforeRefresh, Ended
<1>17. CASE ProvisionSli
  BY <1>17, <1>s, GotoPc DEF ProvisionSli, Deploying, Asking, BeforeRefresh, Ended
<1>18. CASE CommandFails
  BY <1>18, <1>s, GotoPc DEF CommandFails, Deploying, Asking, BeforeRefresh, Ended
<1>19. CASE SwitchContext
  BY <1>19, <1>s DEF SwitchContext, BeforeRefresh
<1>20. CASE Surroundings /\ ~SwitchContext
  <2>1. up' = up
    BY <1>20, SurroundingsPc
  <2>2. context' = context /\ cluster \subseteq cluster'
    BY <1>20 DEF Surroundings, Appear, WebhookStarts, WebhookStops, ScaleOut, Rollout,
       PodGoes, PodDies, Ingest, Expire
  <2>3. QED BY <2>1, <2>2 DEF ReadyInv
<1>21. CASE UNCHANGED vars
  BY <1>21 DEF vars, ReadyInv
<1>22. QED
  BY <1>1, <1>2, <1>3, <1>4, <1>5, <1>6, <1>7, <1>8, <1>9, <1>10, <1>11, <1>12, <1>13,
     <1>14, <1>15, <1>16, <1>17, <1>18, <1>19, <1>20, <1>21 DEF Next, Run

(* Nothing is applied before the environment's own cluster is ready for it, *)
(* whatever kubectl talked to before and whatever reads fail; a run without *)
(* the cluster's names gets no further than the Instrumentation unready.    *)
THEOREM NothingIsAppliedEarly == Spec => []AppliedWhenReady
<1>1. ReadyInv => AppliedWhenReady
  BY DEF ReadyInv, AppliedWhenReady, Deploying, Asking, BeforeRefresh, Ended
<1>2. QED BY <1>1, TypeInit, TypeStep, ReadyInit, ReadyStep, PTL DEF Spec

-----------------------------------------------------------------------------
(* sighted keeps what was visible since the attempt began: all of it is in  *)
(* it that is visible now, and what the queries of the attempt have found.  *)
SightedInv ==
  /\ up.pc \in {"query", "provision sli"} /\ service_group => signals \subseteq sighted
  /\ up.pc = "query" =>
       /\ service_group
       /\ ~up.missing => \A i \in 1 .. up.asked : Queries[i] \in sighted
  /\ SignalsWereThere

LEMMA SightedInit == Init => SightedInv
BY DEF Init, NewRun, SightedInv, SignalsWereThere

LEMMA SightedElsewhere ==
  ASSUME up'.pc \notin {"query", "provision sli"} PROVE SightedInv'
BY DEF SightedInv, SignalsWereThere

LEMMA SightedStep == TypeOK /\ SightedInv /\ [Next]_vars => SightedInv'
<1> SUFFICES ASSUME TypeOK, SightedInv, [Next]_vars PROVE SightedInv'
  OBVIOUS
<1>t. up \in RunState /\ signals \subseteq Signals /\ sighted \subseteq Signals
  BY DEF TypeOK
<1>1. CASE Start \/ ProvisionBase \/ RefreshKubeconfig \/ ApplyInstrumentation
           \/ AwaitWebhook \/ ApplyApi \/ AwaitRollout \/ ReadDeployment \/ ReadPods
           \/ DeployRest \/ DeployPublisher \/ ProvisionSli \/ CommandFails
  <2>1. up'.pc \notin {"query", "provision sli"}
    <3>1. CASE RefreshKubeconfig
      BY <3>1, RefreshPc
    <3>2. CASE ApplyInstrumentation \/ AwaitWebhook \/ ApplyApi
      BY <3>2, GotoPc, AwaitPc DEF ApplyInstrumentation, AwaitWebhook, ApplyApi
    <3>3. CASE Start \/ ProvisionBase \/ AwaitRollout \/ ReadDeployment \/ ReadPods
               \/ DeployRest \/ DeployPublisher \/ ProvisionSli \/ CommandFails
      BY <3>3, GotoPc DEF Start, ProvisionBase, AwaitRollout, ReadDeployment, ReadPods,
         DeployRest, DeployPublisher, ProvisionSli, CommandFails
    <3>4. QED BY <1>1, <3>1, <3>2, <3>3
  <2>2. QED BY <2>1, SightedElsewhere
<1>2. CASE AwaitAks
  BY <1>2, <1>t, AksFoundType, TryAgainPc, SightedElsewhere DEF AwaitAks
<1>3. CASE AwaitInstrumentation
  <2>1. up'.pc \notin {"query", "provision sli"}
    BY <1>3, <1>t, TryAgainPc DEF AwaitInstrumentation, RunState
  <2>2. QED BY <2>1, SightedElsewhere
<1>4. CASE SliOutputs
  <2>1. CASE service_group /\ Goto("query")
    <3>1. /\ up'.pc = "query" /\ up'.asked = 0 /\ service_group' /\ signals' = signals
          /\ sighted' = signals
      BY <2>1, <1>4 DEF SliOutputs, Goto, NewRun
    <3>2. 1 .. up'.asked = {}
      BY <3>1
    <3>3. QED BY <3>1, <3>2 DEF SightedInv, SignalsWereThere
  <2>2. CASE service_group /\ GoOnWithout("provision sli")
    <3>1. /\ up'.pc = "provision sli" /\ up'.unread = TRUE /\ signals' = signals
          /\ sighted' = signals
      BY <2>2, <1>4, GoOnPc DEF SliOutputs
    <3>2. QED BY <3>1 DEF SightedInv, SignalsWereThere
  <2>3. CASE ~service_group
    <3>1. up'.pc = "provision sli" /\ ~service_group'
      BY <2>3, <1>4, GotoPc DEF SliOutputs
    <3>2. QED BY <3>1 DEF SightedInv, SignalsWereThere
  <2>4. QED BY <1>4, <2>1, <2>2, <2>3 DEF SliOutputs
<1>5. CASE QuerySignal
  <2>0. up.pc = "query" /\ up.asked < 3 /\ up.asked \in Nat
    BY <1>5, <1>t, QueriesShape DEF QuerySignal, RunState
  <2>1. PICK f \in BOOLEAN :
          /\ up' = [up EXCEPT !.asked = @ + 1, !.missing = @ \/ ~f]
          /\ f => Queries[up.asked + 1] \in signals
    BY <1>5 DEF QuerySignal
  <2>2. /\ up'.pc = "query" /\ up'.asked = up.asked + 1
        /\ ~up'.missing => ~up.missing /\ f
    BY <2>0, <2>1, <1>t DEF RunState
  <2>3. UNCHANGED <<service_group, signals, sighted>>
    BY <1>5 DEF QuerySignal, metrics
  <2>4. service_group /\ signals \subseteq sighted
    BY <2>0 DEF SightedInv
  <2>5. ASSUME ~up'.missing, NEW i \in 1 .. up.asked + 1 PROVE Queries[i] \in sighted
    <3>1. CASE i = up.asked + 1
      BY <3>1, <2>5, <2>1, <2>2, <2>4
    <3>2. CASE i # up.asked + 1
      <4>1. i \in 1 .. up.asked
        BY <3>2, <2>0
      <4>2. QED BY <4>1, <2>5, <2>2, <2>0 DEF SightedInv
    <3>3. QED BY <3>1, <3>2
  <2>6. QED BY <2>2, <2>3, <2>4, <2>5 DEF SightedInv, SignalsWereThere
<1>6. CASE EndAttempt
  <2>0. up.pc = "query" /\ up.asked = 3 /\ service_group /\ UNCHANGED <<service_group, signals>>
    BY <1>6, QueriesShape DEF EndAttempt, SightedInv
  <2>1. CASE ~up.missing /\ Goto("provision sli") /\ UNCHANGED sighted
    <3>1. Queries[1] \in sighted /\ Queries[2] \in sighted /\ Queries[3] \in sighted
      <4>1. \A i \in 1 .. up.asked : Queries[i] \in sighted
        BY <2>0, <2>1 DEF SightedInv
      <4>2. 1 \in 1 .. up.asked /\ 2 \in 1 .. up.asked /\ 3 \in 1 .. up.asked
        BY <2>0
      <4>3. QED BY <4>1, <4>2
    <3>2. sighted = Signals
      BY <3>1, <1>t, QueriesShape
    <3>3. up'.pc = "provision sli"
      BY <2>1, GotoPc
    <3>4. QED BY <3>2, <3>3, <2>0, <2>1, <1>t DEF SightedInv, SignalsWereThere
  <2>2. CASE TryAgain /\ sighted' = signals
    <3>1. \/ up'.pc = "query" /\ up'.asked = 0
          \/ up'.pc = "failed"
      BY <2>0, <2>2, <1>t, TryAgainPc
    <3>2. up'.asked = 0 => 1 .. up'.asked = {}
      OBVIOUS
    <3>3. QED BY <3>1, <3>2, <2>0, <2>2 DEF SightedInv, SignalsWereThere
  <2>3. QED BY <1>6, <2>1, <2>2 DEF EndAttempt
<1>7. ASSUME NEW s \in Signals, Ingest(s) PROVE SightedInv'
  <2>1. /\ up' = up /\ service_group' = service_group /\ signals' = signals \cup {s}
        /\ sighted' = IF up.pc \in {"query", "provision sli"} THEN sighted \cup {s} ELSE sighted
    BY <1>7 DEF Ingest
  <2>2. CASE up.pc \in {"query", "provision sli"}
    BY <2>1, <2>2, <1>t DEF SightedInv, SignalsWereThere
  <2>3. CASE up.pc \notin {"query", "provision sli"}
    BY <2>1, <2>3, SightedElsewhere
  <2>4. QED BY <2>2, <2>3
<1>8. ASSUME NEW s \in Signals, Expire(s) PROVE SightedInv'
  BY <1>8 DEF Expire, SightedInv, SignalsWereThere
<1>9. CASE SwitchContext \/ Appear \/ WebhookStarts \/ WebhookStops \/ ScaleOut \/ Rollout
           \/ PodDies \/ \E p \in Pod : PodGoes(p)
  <2>1. UNCHANGED <<up, service_group, signals, sighted>>
    BY <1>9 DEF SwitchContext, Appear, WebhookStarts, WebhookStops, ScaleOut, Rollout,
       PodDies, PodGoes, metrics
  <2>2. QED BY <2>1 DEF SightedInv, SignalsWereThere
<1>10. CASE UNCHANGED vars
  BY <1>10 DEF vars, metrics, SightedInv, SignalsWereThere
<1>11. QED
  BY <1>1, <1>2, <1>3, <1>4, <1>5, <1>6, <1>7, <1>8, <1>9, <1>10 DEF Next, Run, Surroundings

(* The SLIs are provisioned only on the strength of one attempt in which    *)
(* every signal was there, however often signals appear and expire.         *)
THEOREM SignalsAreThere == Spec => []SignalsWereThere
<1>1. SightedInv => SignalsWereThere
  BY DEF SightedInv
<1>2. QED BY <1>1, TypeInit, TypeStep, SightedInit, SightedStep, PTL DEF Spec
=============================================================================
