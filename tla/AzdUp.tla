-------------------------------- MODULE AzdUp --------------------------------
(***************************************************************************)
(* `azd up` as azure.yaml lays it out: the steps of its workflow and the    *)
(* hooks between them, which wait until what the next step needs is there.  *)
(*                                                                         *)
(*   provision base                                                        *)
(*   deploy api-instrumentation    before: wait-for-aks-readiness           *)
(*                                 after:  wait-instrumentation             *)
(*   deploy api                    before: require-instrumentation          *)
(*                                 after:  check-injected                   *)
(*   deploy observability, chaos-mesh, external-sli-publisher              *)
(*   provision sli                 before: wait-for-external-sli-signals    *)
(*                                                                         *)
(* Azure, Kubernetes and the metrics pipeline go on meanwhile.  Any command *)
(* may fail and ends the run; the operator starts it again.                 *)
(***************************************************************************)
EXTENDS Integers, Sequences, Functions

CONSTANTS
  Permissions,   \* what Azure RBAC has to allow: required_permissions
  MaxPolls,      \* attempts for which a wait's deadline or count leaves room
  MaxPods,       \* bound: how many pods there are, those that go included
  MaxMishaps     \* bound: how much goes wrong outside of the scripts

AksChecks == {"Kubernetes API"} \cup Permissions
InstrumentationChecks == {"CRD", "webhook configuration", "Instrumentation"}
Facts == {"cluster"} \cup AksChecks \cup InstrumentationChecks

(* The queries of one attempt, in their order.                              *)
Queries == <<"availability_total", "latency_total", "latency_good">>
Signals == {Queries[i] : i \in DOMAIN Queries}

ASSUME PermissionsAssumption ==
  /\ Permissions \subseteq STRING
  /\ Permissions \cap ({"cluster"} \cup InstrumentationChecks) = {}
ASSUME BoundsAssumption ==
  MaxPolls \in Nat \ {0} /\ MaxPods \in Nat /\ MaxMishaps \in Nat

(* What matters of a pod: whether it has the OTLP variables and whether it  *)
(* is of the current template (of a pod that goes, it does not matter).     *)
Phases == {"Pending", "Running", "Terminating", "Failed"}
Pod == [phase : Phases, injected : BOOLEAN, current : BOOLEAN]

VARIABLES
  up,             \* the run of azd up: its place, and the state of its waits
  service_group,  \* is AZURE_MONITOR_SLI_SERVICE_GROUP_ID set?
  context,        \* the cluster kubectl talks to
  cluster,        \* what holds in the environment's own cluster
  webhook_ready,  \* are the pods of app-monitoring-webhook up?
  template,       \* the pod template of Deployment/chaos-app
  replicas,       \* how many pods it is to have
  pods,           \* how many pods of each kind its selector finds
  publishing,     \* is the external SLI publisher deployed?
  signals,        \* which signals the range of the queries holds
  checked,        \* observer: check-injected has passed this deployment
  sighted,        \* observer: signals seen in the range since this attempt began
  mishaps         \* how much has gone wrong

app == <<template, replicas, pods>>
metrics == <<signals, sighted>>
vars == <<up, service_group, context, cluster, webhook_ready, app, publishing,
          metrics, checked, mishaps>>

Ended == {"idle", "failed", "done"}
PC == Ended \cup
  {"provision base", "refresh kubeconfig", "await AKS", "apply Instrumentation",
   "await Instrumentation", "await webhook", "apply API", "await rollout",
   "read deployment", "read pods", "deploy rest", "deploy publisher",
   "sli outputs", "query", "provision sli"}
Hooks == {"none", "wait-instrumentation", "require-instrumentation", "check-injected"}

(* unread: the hook could not read what it asked azd for, and went on.      *)
RunState == [pc : PC, hook : Hooks, polls : 0 .. MaxPolls - 1,
             asked : 0 .. Len(Queries), missing : BOOLEAN, unread : BOOLEAN]
NewRun == [pc |-> "idle", hook |-> "none", polls |-> 0, asked |-> 0,
           missing |-> FALSE, unread |-> FALSE]

TypeOK ==
  /\ up \in RunState
  /\ service_group \in BOOLEAN
  /\ context \in {"own", "other"}
  /\ cluster \in SUBSET Facts
  /\ webhook_ready \in BOOLEAN
  /\ template \in {"none", "plain", "injected"}
  /\ replicas \in {1, 2}
  /\ pods \in [Pod -> Nat]
  /\ publishing \in BOOLEAN
  /\ signals \in SUBSET Signals
  /\ checked \in BOOLEAN
  /\ sighted \in SUBSET Signals
  /\ mishaps \in 0 .. MaxMishaps

Init ==
  /\ up = NewRun
  /\ service_group \in BOOLEAN
  /\ context = "other"
  /\ cluster = {}
  /\ webhook_ready = FALSE
  /\ template = "none"
  /\ replicas = 1
  /\ pods = [p \in Pod |-> 0]
  /\ publishing = FALSE
  /\ signals = {}
  /\ checked = FALSE
  /\ sighted = {}
  /\ mishaps = 0

---------------------------------------------------------------------------
(* Helpers.                                                                 *)

Goto(pc) == up' = [NewRun EXCEPT !.pc = pc]
GoOnWithout(pc) == up' = [NewRun EXCEPT !.pc = pc, !.unread = TRUE]
Await(hook) == up' = [NewRun EXCEPT !.pc = "await Instrumentation", !.hook = hook]

(* Mistake: the loop never gives up.                                        *)
TryAgainForever == up' = [up EXCEPT !.polls = @ + 1, !.asked = 0, !.missing = FALSE]

(* An attempt has not found everything: the next one, if there is time.     *)
TryAgain ==
  \/ /\ up.polls + 1 < MaxPolls
     /\ up' = [up EXCEPT !.polls = @ + 1, !.asked = 0, !.missing = FALSE]
  \/ /\ up.polls + 1 >= MaxPolls
     /\ Goto("failed")

Mishap == mishaps < MaxMishaps /\ mishaps' = mishaps + 1

(* What kubectl shows.  Another environment's cluster has everything.       *)
Visible == IF context = "own" THEN cluster ELSE Facts

(* A command that fails reads as "not there".  The checks of one attempt    *)
(* are one action: what they look for does not go away once it is there, so *)
(* they find it all exactly if it is all there at the last of them.         *)
Finds(checks) == checks \subseteq Visible /\ UNCHANGED mishaps
FindsNot(checks) ==
  \/ ~(checks \subseteq Visible) /\ UNCHANGED mishaps
  \/ Mishap

Existing == {p \in Pod : pods[p] > 0}
Count(kinds) == SumFunctionOnSet(pods, kinds \cap Existing)
Running == {p \in Pod : p.phase = "Running"}
Wanted == {p \in Pod : p.phase \in {"Pending", "Running"}}
Current == {p \in Wanted : p.current}

(* deployment "chaos-app" successfully rolled out                           *)
RolledOut == Count(Wanted) = replicas /\ Count(Running \cap Current) = replicas

(* The admission webhook adds the OTLP variables to the pod template, if it *)
(* is there to do so and the Instrumentation is.                            *)
Injects == webhook_ready /\ InstrumentationChecks \subseteq cluster

---------------------------------------------------------------------------
(* The workflow.                                                            *)

Start ==
  /\ up.pc \in Ended
  /\ Goto("provision base")
  /\ sighted' = {}
  /\ UNCHANGED <<service_group, context, cluster, webhook_ready, app, publishing,
                 signals, checked, mishaps>>

ProvisionBase ==
  /\ up.pc = "provision base"
  /\ cluster' = cluster \cup {"cluster"}
  /\ Goto("refresh kubeconfig")
  /\ UNCHANGED <<service_group, context, webhook_ready, app, publishing, metrics,
                 checked, mishaps>>

(* Mistake: kubectl's context is left as it is.                             *)
RefreshKubeconfigNever ==
  /\ up.pc = "refresh kubeconfig"
  /\ Goto("await AKS")
  /\ UNCHANGED <<service_group, context, cluster, webhook_ready, app, publishing,
                 metrics, checked, mishaps>>

(* wait-for-aks-readiness.py: the environment's own credentials first; when *)
(* the names cannot be read there is nothing to refresh.                    *)
RefreshKubeconfig ==
  /\ up.pc = "refresh kubeconfig"
  /\ \/ context' = "own" /\ Goto("await AKS") /\ UNCHANGED mishaps
     \/ Mishap /\ GoOnWithout("await AKS") /\ UNCHANGED context
  /\ UNCHANGED <<service_group, cluster, webhook_ready, app, publishing, metrics,
                 checked>>

AwaitAks ==
  /\ up.pc = "await AKS"
  /\ \/ Finds(AksChecks) /\ up' = [up EXCEPT !.pc = "apply Instrumentation", !.polls = 0]
     \/ FindsNot(AksChecks) /\ TryAgain
  /\ UNCHANGED <<service_group, context, cluster, webhook_ready, app, publishing,
                 metrics, checked>>

(* Mistake: the Instrumentation is applied together with the API, whose     *)
(* predeploy hook waits for it.                                             *)
ApplyInstrumentationLater ==
  /\ up.pc = "apply Instrumentation"
  /\ context' = "own"
  /\ Await("wait-instrumentation")
  /\ UNCHANGED <<service_group, cluster, webhook_ready, app, publishing, metrics,
                 checked, mishaps>>

(* azd deploys to the cluster that resourceName names, and leaves kubectl   *)
(* with it.  Without the CRD there is no such resource to apply, and        *)
(* without its answer and permission nothing is.                            *)
ApplyInstrumentation ==
  /\ up.pc = "apply Instrumentation"
  /\ context' = "own"
  /\ \/ /\ AksChecks \cup {"CRD"} \subseteq cluster
        /\ cluster' = cluster \cup {"Instrumentation"}
        /\ Await("wait-instrumentation")
     \/ /\ ~(AksChecks \cup {"CRD"} \subseteq cluster)
        /\ Goto("failed")
        /\ UNCHANGED cluster
  /\ UNCHANGED <<service_group, webhook_ready, app, publishing, metrics, checked,
                 mishaps>>

(* check-api-otel-injection.py: wait_until_ready, in each of three hooks    *)
AwaitInstrumentation ==
  /\ up.pc = "await Instrumentation"
  /\ \/ Finds(InstrumentationChecks) /\ up' = [up EXCEPT !.pc = "await webhook"]
     \/ FindsNot(InstrumentationChecks) /\ TryAgain
  /\ UNCHANGED <<service_group, context, cluster, webhook_ready, app, publishing,
                 metrics, checked>>

(* kubectl rollout status waits for the pods of the webhook; a timeout ends *)
(* the hook, and with it the run.                                           *)
AwaitWebhook ==
  /\ up.pc = "await webhook"
  /\ \/ /\ webhook_ready
        /\ \/ up.hook = "wait-instrumentation" /\ Await("require-instrumentation")
           \/ up.hook = "require-instrumentation" /\ Goto("apply API")
           \/ up.hook = "check-injected" /\ Goto("await rollout")
     \/ /\ ~webhook_ready
        /\ Goto("failed")
  /\ UNCHANGED <<service_group, context, cluster, webhook_ready, app, publishing,
                 metrics, checked, mishaps>>

(* deployment.yaml asks for one replica; every image has a tag of its own,  *)
(* so the template is a new one.                                            *)
ApplyApi ==
  /\ up.pc = "apply API"
  /\ template' = IF Injects THEN "injected" ELSE "plain"
  /\ replicas' = 1
  /\ pods' = [p \in Pod |-> IF p.current THEN 0
                            ELSE pods[p] + pods[[p EXCEPT !.current = TRUE]]]
  /\ checked' = FALSE
  /\ Await("check-injected")
  /\ UNCHANGED <<service_group, context, cluster, webhook_ready, publishing, metrics,
                 mishaps>>

(* check_injected: the rollout, then the deployment, then its pods          *)
AwaitRollout ==
  /\ up.pc = "await rollout"
  /\ \/ RolledOut /\ Goto("read deployment") /\ UNCHANGED mishaps
     \/ ~RolledOut /\ Mishap /\ Goto("failed")
  /\ UNCHANGED <<service_group, context, cluster, webhook_ready, app, publishing,
                 metrics, checked>>

(* Mistake: only the pods are looked at, of which there may be none.        *)
ReadDeploymentAny ==
  /\ up.pc = "read deployment"
  /\ Goto("read pods")
  /\ UNCHANGED <<service_group, context, cluster, webhook_ready, app, publishing,
                 metrics, checked, mishaps>>

ReadDeployment ==
  /\ up.pc = "read deployment"
  /\ \/ template = "injected" /\ Goto("read pods")
     \/ template # "injected" /\ Goto("failed")
  /\ UNCHANGED <<service_group, context, cluster, webhook_ready, app, publishing,
                 metrics, checked, mishaps>>

(* A pod that terminates is listed, in its phase Running.                   *)
PodError(p) == p.phase \in {"Pending", "Failed"} \/ ~p.injected

ReadPods ==
  /\ up.pc = "read pods"
  /\ \/ /\ \A p \in Existing : ~PodError(p)
        /\ checked' = TRUE
        /\ Goto("deploy rest")
     \/ /\ \E p \in Existing : PodError(p)
        /\ Goto("failed")
        /\ UNCHANGED checked
  /\ UNCHANGED <<service_group, context, cluster, webhook_ready, app, publishing,
                 metrics, mishaps>>

DeployRest ==
  /\ up.pc = "deploy rest"
  /\ Goto("deploy publisher")
  /\ UNCHANGED <<service_group, context, cluster, webhook_ready, app, publishing,
                 metrics, checked, mishaps>>

DeployPublisher ==
  /\ up.pc = "deploy publisher"
  /\ publishing' = TRUE
  /\ Goto("sli outputs")
  /\ UNCHANGED <<service_group, context, cluster, webhook_ready, app, metrics, checked,
                 mishaps>>

(* wait-for-external-sli-signals.py: no wait where SLIs are not enabled,    *)
(* and none when this or the other outputs cannot be read.                  *)
SliOutputs ==
  /\ up.pc = "sli outputs"
  /\ \/ /\ service_group
        /\ sighted' = signals
        /\ \/ Goto("query") /\ UNCHANGED mishaps
           \/ Mishap /\ GoOnWithout("provision sli")
     \/ ~service_group /\ Goto("provision sli") /\ UNCHANGED <<sighted, mishaps>>
  /\ UNCHANGED <<service_group, context, cluster, webhook_ready, app, publishing,
                 signals, checked>>

(* Mistake: what a query finds decides, whatever those before it found.     *)
QuerySignalLast ==
  /\ up.pc = "query"
  /\ up.asked < Len(Queries)
  /\ up' = [up EXCEPT !.asked = @ + 1, !.missing = Queries[up.asked + 1] \notin signals]
  /\ UNCHANGED <<service_group, context, cluster, webhook_ready, app, publishing,
                 metrics, checked, mishaps>>

(* query_prometheus: a query that fails counts no series.                   *)
QuerySignal ==
  /\ up.pc = "query"
  /\ up.asked < Len(Queries)
  /\ LET found == Queries[up.asked + 1] \in signals
         Note(f) == up' = [up EXCEPT !.asked = @ + 1, !.missing = @ \/ ~f]
     IN  \/ Note(found) /\ UNCHANGED mishaps
         \/ found /\ Note(FALSE) /\ Mishap
  /\ UNCHANGED <<service_group, context, cluster, webhook_ready, app, publishing,
                 metrics, checked>>

EndAttempt ==
  /\ up.pc = "query"
  /\ up.asked = Len(Queries)
  /\ \/ ~up.missing /\ Goto("provision sli") /\ UNCHANGED sighted
     \/ up.missing /\ TryAgain /\ sighted' = signals
  /\ UNCHANGED <<service_group, context, cluster, webhook_ready, app, publishing,
                 signals, checked, mishaps>>

(* Azure refuses SLIs whose input metrics do not exist.                     *)
ProvisionSli ==
  /\ up.pc = "provision sli"
  /\ \/ (service_group => signals = Signals) /\ Goto("done")
     \/ service_group /\ signals # Signals /\ Goto("failed")
  /\ sighted' = {}
  /\ UNCHANGED <<service_group, context, cluster, webhook_ready, app, publishing,
                 signals, checked, mishaps>>

(* A command fails, or the operator interrupts the run.                     *)
CommandFails ==
  /\ up.pc \notin Ended
  /\ Mishap
  /\ Goto("failed")
  /\ UNCHANGED <<service_group, context, cluster, webhook_ready, app, publishing,
                 metrics, checked>>

Run ==
  \/ Start \/ ProvisionBase \/ RefreshKubeconfig \/ AwaitAks \/ ApplyInstrumentation
  \/ AwaitInstrumentation \/ AwaitWebhook \/ ApplyApi \/ AwaitRollout
  \/ ReadDeployment \/ ReadPods \/ DeployRest \/ DeployPublisher \/ SliOutputs
  \/ QuerySignal \/ EndAttempt \/ ProvisionSli

---------------------------------------------------------------------------
(* What goes on around it.                                                  *)

(* The operator works with another environment between two runs.            *)
SwitchContext ==
  /\ up.pc \in Ended
  /\ context' = "other"
  /\ UNCHANGED <<up, service_group, cluster, webhook_ready, app, publishing, metrics,
                 checked, mishaps>>

(* The API server answers, role assignments spread, the add-on installs.    *)
Appear ==
  /\ "cluster" \in cluster
  /\ \E fact \in Facts \ (cluster \cup {"Instrumentation"}) : cluster' = cluster \cup {fact}
  /\ UNCHANGED <<up, service_group, context, webhook_ready, app, publishing, metrics,
                 checked, mishaps>>

WebhookStarts ==
  /\ "webhook configuration" \in cluster
  /\ webhook_ready' = TRUE
  /\ UNCHANGED <<up, service_group, context, cluster, app, publishing, metrics, checked,
                 mishaps>>

WebhookStops ==
  /\ webhook_ready
  /\ webhook_ready' = FALSE
  /\ Mishap
  /\ UNCHANGED <<up, service_group, context, cluster, app, publishing, metrics, checked>>

(* hpa.yaml asks for two replicas at least: after every deployment of the   *)
(* API the autoscaler asks for the second one again, at a time of its own.  *)
ScaleOut ==
  /\ template # "none"
  /\ replicas = 1
  /\ replicas' = 2
  /\ UNCHANGED <<up, service_group, context, cluster, webhook_ready, template, pods,
                 publishing, metrics, checked, mishaps>>

Becomes(p, q) == pods' = [pods EXCEPT ![p] = @ - 1, ![q] = @ + 1]
Leaves(p, phase) == Becomes(p, [p EXCEPT !.phase = phase, !.current = FALSE])

(* The rolling update: one pod more than wanted, never one less.            *)
CreatePod ==
  /\ template # "none"
  /\ Count(Current) < replicas
  /\ Count(Wanted) <= replicas
  /\ Count(Pod) < MaxPods
  /\ pods' = [pods EXCEPT ![[phase |-> "Pending", current |-> TRUE,
                             injected |-> template = "injected"]] = @ + 1]

PodRuns(p) ==
  /\ p.phase = "Pending"
  /\ Becomes(p, [p EXCEPT !.phase = "Running"])

RetirePod(p) ==
  /\ p \in Wanted \ Current
  /\ p \in Running => Count(Running) > replicas
  /\ Leaves(p, "Terminating")

Rollout ==
  /\ CreatePod \/ \E p \in Existing : PodRuns(p) \/ RetirePod(p)
  /\ UNCHANGED <<up, service_group, context, cluster, webhook_ready, template, replicas,
                 publishing, metrics, checked, mishaps>>

(* A pod has terminated, or a failed one is deleted.                        *)
PodGoes(p) ==
  /\ p.phase \in {"Terminating", "Failed"} /\ pods[p] > 0
  /\ pods' = [pods EXCEPT ![p] = @ - 1]
  /\ UNCHANGED <<up, service_group, context, cluster, webhook_ready, template, replicas,
                 publishing, metrics, checked, mishaps>>

(* A pod is evicted, or a chaos experiment kills it.                        *)
PodDies ==
  /\ \E p \in Existing \cap Running, phase \in {"Terminating", "Failed"} : Leaves(p, phase)
  /\ Mishap
  /\ UNCHANGED <<up, service_group, context, cluster, webhook_ready, template, replicas,
                 publishing, metrics, checked>>

(* Each series of a remote write becomes visible in its own time.  Where    *)
(* SLIs are not enabled, no step of the run depends on it.                  *)
Ingest(s) ==
  /\ service_group /\ publishing
  /\ s \notin signals
  /\ signals' = signals \cup {s}
  /\ sighted' = IF up.pc \in {"query", "provision sli"} THEN sighted \cup {s} ELSE sighted
  /\ UNCHANGED <<up, service_group, context, cluster, webhook_ready, app, publishing,
                 checked, mishaps>>

(* The publisher fails for as long as the queries look back.                *)
Expire(s) ==
  /\ s \in signals
  /\ signals' = signals \ {s}
  /\ Mishap
  /\ UNCHANGED <<up, service_group, context, cluster, webhook_ready, app, publishing,
                 sighted, checked>>

Surroundings ==
  \/ SwitchContext \/ Appear \/ WebhookStarts \/ WebhookStops \/ ScaleOut
  \/ Rollout \/ PodDies \/ \E p \in Pod : PodGoes(p)
  \/ \E s \in Signals : Ingest(s) \/ Expire(s)

Next == Run \/ CommandFails \/ Surroundings
Spec == Init /\ [][Next]_vars

(* The run goes on and the operator repeats it; Azure, Kubernetes and the   *)
(* publisher do their work, and failed pods are deleted some time.  Only a  *)
(* bounded number of things goes wrong; the autoscaler is not one of them.  *)
Fairness ==
  /\ WF_vars(Run)
  /\ WF_vars(Appear \/ WebhookStarts \/ \E s \in Signals : Ingest(s))
  /\ WF_vars(Rollout)
  /\ \A p \in Pod \ Wanted : ~p.current => WF_vars(PodGoes(p))
FairSpec == Spec /\ Fairness

---------------------------------------------------------------------------
(* Properties.                                                              *)

(* The manifests are applied when the environment's own cluster, and not    *)
(* the one kubectl talked to before, answers and allows what they need; the *)
(* API only when the admission webhook has all it looks at.  A run that     *)
(* could not read the cluster's names has looked at any cluster, but does   *)
(* not come to the API before its own one has what is needed.               *)
AppliedWhenReady ==
  /\ up.pc = "apply Instrumentation" /\ ~up.unread
       => AksChecks \subseteq cluster
  /\ up.pc = "apply API" => AksChecks \cup InstrumentationChecks \subseteq cluster

(* Once check-injected has passed, and until the API is deployed again, no  *)
(* pod of the API is without the OTLP variables, though pods come and go    *)
(* and the script reads the deployment and its pods one after the other.    *)
CheckedMeansInjected ==
  checked => /\ template = "injected"
             /\ \A p \in Existing : p.injected

(* The SLIs are created only after one attempt during which each of the     *)
(* signals was visible: signals found by earlier attempts may be gone.      *)
(* Only a hook that could not read its outputs lets the run go on unasked.  *)
SignalsWereThere ==
  up.pc = "provision sli" /\ service_group /\ ~up.unread
    => sighted = Signals

(* check-injected is about to look at the pods, and meets one that has just *)
(* been asked for.                                                          *)
Raced == up.pc = "read pods" /\ \E p \in Existing : p.current /\ p.phase = "Pending"

(* An operator who repeats azd up gets an environment again and again,      *)
(* whatever earlier runs have left half done.  One thing alone can keep him *)
(* from it for ever: that in run after run check-injected lists the pods    *)
(* while the one the autoscaler has asked for is not running yet.           *)
UpSucceeds == []<>(up.pc = "done") \/ []<>Raced
=============================================================================
