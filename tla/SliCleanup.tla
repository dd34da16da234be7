----------------------------- MODULE SliCleanup -----------------------------
(***************************************************************************)
(* The predown hook (cleanup-azure-monitor-sli-resources.py): before        *)
(* `azd down` it deletes what azd cannot reach or would stumble over: the   *)
(* SLIs and the Service Group of the environment, the OTLP data collection  *)
(* rule association (DCRA) of the cluster, the base resource group, and the *)
(* deployment records of the two layers.                                    *)
(*                                                                         *)
(* The script is a sequence of az calls.  A read that fails is taken for    *)
(* "there is nothing", a delete that fails ends most steps of the script,   *)
(* deletions take time, and the operator runs the hook again when it fails. *)
(* What is absent can be deleted again without an error, except a resource  *)
(* group, for which `az group delete` fails.                                *)
(***************************************************************************)
EXTENDS Integers, Sequences

CONSTANTS
  EnvName,        \* AZURE_ENV_NAME, as the sequence of its "-"-separated parts
  Groups,         \* the Service Groups in the tenant, of every environment
  Settings,       \* the settings the hook may be run with
  None,           \* a setting that is not there
  MaxFailures,    \* bound: how many calls may fail
  MaxDcraPolls,   \* how often the DCRA is looked for after its deletion
  MaxGroupPolls   \* how often the base resource group is

(* Every environment's Service Group is sg-aks-chaos-lab-<env>-<token>; the *)
(* token, a hash, has no "-".                                               *)
ASSUME EnvNameAssumption == EnvName \in Seq(STRING)
ASSUME GroupsAssumption ==
  Groups \subseteq [env : Seq(STRING), token : STRING \ {""}]
ASSUME NoneAssumption == None \notin Groups
ASSUME SettingsAssumption ==
  Settings \subseteq
    [confirm  : {"yes", "skip", "no"},
     dry_run  : BOOLEAN,
     group_id : Groups \cup {None},
     resource_group : {"own", "foreign"},
     fix_sli_void   : BOOLEAN,
     fix_base_void  : BOOLEAN]
ASSUME BoundsAssumption ==
  MaxFailures \in Nat /\ MaxDcraPolls \in Nat \ {0} /\ MaxGroupPolls \in Nat \ {0}

VARIABLES
  settings,    \* what the current run of the hook read from its environment
  groups,      \* the Service Groups that exist
  slis,        \* the SLIs each of them has
  dcra,        \* the OtlpAppInsightsExtension association of the cluster
  base_group,  \* the environment's resource group
  records,     \* the layers of which a deployment record exists
  run,         \* where the script is
  failures,    \* how many calls have failed
  unread       \* observer: has one of them been a read?

azure == <<groups, slis, dcra, base_group, records>>
calls == <<failures, unread>>
vars == <<settings, azure, run, calls>>

SliKinds == {"availability", "latency"}
Lifecycle == {"present", "deleting", "gone"}

Ended == {"idle", "succeeded", "failed"}
PC == Ended \cup
  {"groups", "slis", "cluster", "dcra", "delete dcra", "poll dcra",
   "sli records", "delete sli record", "base group", "delete base group",
   "poll base group", "base records", "delete base record"}

(* todo and group: the Service Groups to delete, the one being deleted;     *)
(* slis: those of its SLIs that were listed; polls: of the current loop.    *)
IdleRun == [pc |-> "idle", todo |-> {}, group |-> None, slis |-> {}, polls |-> 0]

TypeOK ==
  /\ settings \in Settings
  /\ groups \subseteq Groups
  /\ slis \in [Groups -> SUBSET SliKinds]
  /\ dcra \in Lifecycle
  /\ base_group \in Lifecycle
  /\ records \subseteq {"sli", "base"}
  /\ run \in [pc : PC, todo : SUBSET Groups, group : Groups \cup {None},
              slis : SUBSET SliKinds, polls : Nat]
  /\ run.pc = "slis" => run.group \in Groups
  /\ run.pc = "poll dcra" => run.polls < MaxDcraPolls
  /\ run.pc = "poll base group" => run.polls < MaxGroupPolls
  /\ failures \in 0 .. MaxFailures
  /\ unread \in BOOLEAN

Init ==
  /\ settings \in Settings
  /\ groups = Groups
  /\ slis = [g \in Groups |-> SliKinds]
  /\ dcra = "present"
  /\ base_group = "present"
  /\ records = {"sli", "base"}
  /\ run = IdleRun
  /\ failures = 0
  /\ unread = FALSE

-----------------------------------------------------------------------------
(* Names                                                                   *)

GroupName(g) == Append(g.env, g.token)

(* Mistake: the prefix is compared without its last "-", so what follows is *)
(* never free of one.                                                       *)
IsOwnedServiceGroupIdNever(name) ==
  /\ Len(name) = Len(EnvName) + 1
  /\ SubSeq(name, 1, Len(EnvName)) = EnvName
  /\ name[Len(name)] = ""

(* Mistake: any name with the environment's prefix is the environment's.    *)
IsOwnedServiceGroupIdByPrefix(name) ==
  /\ Len(name) > Len(EnvName)
  /\ SubSeq(name, 1, Len(EnvName)) = EnvName

(* What follows the environment's prefix is not empty and has no "-". *)
IsOwnedServiceGroupId(name) ==
  /\ Len(name) = Len(EnvName) + 1
  /\ SubSeq(name, 1, Len(EnvName)) = EnvName
  /\ name[Len(name)] # ""

Owned == {g \in Groups : IsOwnedServiceGroupId(GroupName(g))}

-----------------------------------------------------------------------------
(* Calls                                                                   *)

MayFail == failures < MaxFailures

(* A read with allow_failure is answered, or fails; its answer is taken for *)
(* an empty one when it fails.                                              *)
Answers == IF MayFail THEN BOOLEAN ELSE {TRUE}

Heard(ok) ==
  /\ failures' = IF ok THEN failures ELSE failures + 1
  /\ unread' = (unread \/ ~ok)

Goto(pc) == run' = [run EXCEPT !.pc = pc, !.polls = 0]

Exit(code) ==
  run' = [IdleRun EXCEPT !.pc = IF code = 0 THEN "succeeded" ELSE "failed"]

(* A delete fails, and the script exits; or it is interrupted.  A delete    *)
(* that is applied though its call fails is the deletion, and then this.    *)
Fail ==
  /\ run.pc \notin Ended
  /\ MayFail
  /\ failures' = failures + 1
  /\ Exit(1)
  /\ UNCHANGED <<settings, azure, unread>>

-----------------------------------------------------------------------------
(* main                                                                    *)

(* The hook is started, the first time or again, and finds its settings;    *)
(* without a Service Group among them it looks for the environment's.       *)
Start ==
  /\ run.pc \in Ended
  /\ settings' \in Settings
  /\ UNCHANGED azure
  /\ \/ /\ settings'.confirm = "yes"
        /\ \E ok \in Answers :
             /\ Heard(ok)
             /\ LET candidates == IF settings'.group_id # None THEN {settings'.group_id}
                                  ELSE IF ok THEN groups ELSE {}
                IN  run' = [IdleRun EXCEPT !.pc = "groups",
                                           !.todo = candidates \cap Owned]
     \/ /\ settings'.confirm # "yes"
        /\ Exit(IF settings'.confirm = "skip" THEN 0 ELSE 1)
        /\ UNCHANGED calls

-----------------------------------------------------------------------------
(* delete_service_group_sli_resources                                      *)

ListSlis ==
  /\ run.pc = "groups"
  /\ \E g \in run.todo, ok \in Answers :
       /\ Heard(ok)
       /\ run' = [run EXCEPT !.pc = "slis", !.group = g, !.todo = @ \ {g},
                             !.slis = IF ok THEN slis[g] ELSE {}]
  /\ UNCHANGED <<settings, azure>>

DeleteSli ==
  /\ run.pc = "slis"
  /\ \E sli \in run.slis :
       /\ slis' = IF settings.dry_run THEN slis
                  ELSE [slis EXCEPT ![run.group] = @ \ {sli}]
       /\ run' = [run EXCEPT !.slis = @ \ {sli}]
  /\ UNCHANGED <<settings, groups, dcra, base_group, records, calls>>

(* Mistake: the Service Group goes before its SLIs. *)
DeleteServiceGroupFirst ==
  /\ run.pc = "slis"
  /\ groups' = IF settings.dry_run THEN groups ELSE groups \ {run.group}
  /\ run' = [run EXCEPT !.pc = "groups", !.group = None, !.slis = {}]
  /\ UNCHANGED <<settings, slis, dcra, base_group, records, calls>>

DeleteServiceGroup ==
  /\ run.pc = "slis"
  /\ run.slis = {}
  /\ groups' = IF settings.dry_run THEN groups ELSE groups \ {run.group}
  /\ run' = [run EXCEPT !.pc = "groups", !.group = None]
  /\ UNCHANGED <<settings, slis, dcra, base_group, records, calls>>

-----------------------------------------------------------------------------
(* delete_otlp_app_insights_dcra                                           *)

(* Outside the environment's own resource group nothing is looked for.      *)
GroupsDone ==
  /\ run.pc = "groups"
  /\ run.todo = {}
  /\ Goto(IF settings.resource_group = "own" THEN "cluster" ELSE "sli records")
  /\ UNCHANGED <<settings, azure, calls>>

(* The cluster is in the base resource group, and goes some time before it. *)
ShowCluster ==
  /\ run.pc = "cluster"
  /\ \E found \in (CASE base_group = "present"  -> {TRUE}
                     [] base_group = "deleting" -> BOOLEAN
                     [] OTHER                   -> {FALSE}), ok \in Answers :
       Heard(ok) /\ Goto(IF ok /\ found THEN "dcra" ELSE "sli records")
  /\ UNCHANGED <<settings, azure>>

GetDcra ==
  /\ run.pc = "dcra"
  /\ \E ok \in Answers :
       Heard(ok) /\ Goto(IF ok /\ dcra # "gone" THEN "delete dcra" ELSE "sli records")
  /\ UNCHANGED <<settings, azure>>

(* Mistake: the deletion is requested and not waited for. *)
DeleteDcraNoWait ==
  /\ run.pc = "delete dcra"
  /\ dcra' = IF settings.dry_run \/ dcra = "gone" THEN dcra ELSE "deleting"
  /\ Goto("sli records")
  /\ UNCHANGED <<settings, groups, slis, base_group, records, calls>>

DeleteDcra ==
  /\ run.pc = "delete dcra"
  /\ dcra' = IF settings.dry_run \/ dcra = "gone" THEN dcra ELSE "deleting"
  /\ Goto(IF settings.dry_run THEN "sli records" ELSE "poll dcra")
  /\ UNCHANGED <<settings, groups, slis, base_group, records, calls>>

PollDcra ==
  /\ run.pc = "poll dcra"
  /\ \E ok \in Answers :
       /\ Heard(ok)
       /\ IF ~ok \/ dcra = "gone" THEN Goto("sli records")
          ELSE IF run.polls + 1 = MaxDcraPolls THEN Exit(1)
          ELSE run' = [run EXCEPT !.polls = @ + 1]
  /\ UNCHANGED <<settings, azure>>

-----------------------------------------------------------------------------
(* delete_sli_layer_deployment_records                                     *)

ListSliRecords ==
  /\ run.pc = "sli records"
  /\ \E ok \in Answers :
       /\ Heard(ok)
       /\ Goto(IF settings.fix_sli_void /\ ok /\ "sli" \in records /\ ~settings.dry_run
               THEN "delete sli record" ELSE "base group")
  /\ UNCHANGED <<settings, azure>>

(* A record that cannot be deleted is logged, and left.                     *)
DeleteSliRecord ==
  /\ run.pc = "delete sli record"
  /\ \/ records' = records \ {"sli"} /\ UNCHANGED failures
     \/ MayFail /\ failures' = failures + 1 /\ UNCHANGED records
  /\ Goto("base group")
  /\ UNCHANGED <<settings, groups, slis, dcra, base_group, unread>>

-----------------------------------------------------------------------------
(* delete_base_resource_group_sync                                         *)

(* Mistake: the flag of the dry run is not looked at. *)
CheckBaseGroupWet ==
  /\ run.pc = "base group"
  /\ \E ok \in Answers :
       /\ Heard(ok)
       /\ Goto(IF settings.fix_base_void /\ ok /\ base_group # "gone"
               THEN "delete base group" ELSE "base records")
  /\ UNCHANGED <<settings, azure>>

(* Without a resource group, the name is made from the environment's: a     *)
(* foreign one was replaced by none before.                                 *)
CheckBaseGroup ==
  /\ run.pc = "base group"
  /\ \E ok \in Answers :
       /\ Heard(ok)
       /\ Goto(IF settings.fix_base_void /\ ok /\ base_group # "gone" /\ ~settings.dry_run
               THEN "delete base group" ELSE "base records")
  /\ UNCHANGED <<settings, azure>>

(* Mistake: the deletion is requested and not waited for. *)
DeleteBaseGroupNoWait ==
  /\ run.pc = "delete base group"
  /\ \/ base_group # "gone" /\ base_group' = "deleting" /\ Goto("base records")
     \/ base_group = "gone" /\ Exit(1) /\ UNCHANGED base_group
  /\ UNCHANGED <<settings, groups, slis, dcra, records, calls>>

(* A deletion that an earlier run has asked for may have ended by now.      *)
DeleteBaseGroup ==
  /\ run.pc = "delete base group"
  /\ \/ base_group # "gone" /\ base_group' = "deleting" /\ Goto("poll base group")
     \/ base_group = "gone" /\ Exit(1) /\ UNCHANGED base_group
  /\ UNCHANGED <<settings, groups, slis, dcra, records, calls>>

(* Mistake: the loop has no end. *)
PollBaseGroupForever ==
  /\ run.pc = "poll base group"
  /\ \E ok \in Answers :
       /\ Heard(ok)
       /\ IF ok /\ base_group = "gone" THEN Goto("base records")
          ELSE run' = [run EXCEPT !.polls = @ + 1]
  /\ UNCHANGED <<settings, azure>>

(* Here a read that fails is no answer, and the loop goes on. *)
PollBaseGroup ==
  /\ run.pc = "poll base group"
  /\ \E ok \in Answers :
       /\ Heard(ok)
       /\ IF ok /\ base_group = "gone" THEN Goto("base records")
          ELSE IF run.polls + 1 = MaxGroupPolls THEN Exit(1)
          ELSE run' = [run EXCEPT !.polls = @ + 1]
  /\ UNCHANGED <<settings, azure>>

-----------------------------------------------------------------------------
(* delete_base_layer_deployment_records                                    *)

ListBaseRecords ==
  /\ run.pc = "base records"
  /\ \E ok \in Answers :
       /\ Heard(ok)
       /\ IF settings.fix_base_void /\ ok /\ "base" \in records /\ ~settings.dry_run
          THEN Goto("delete base record") ELSE Exit(0)
  /\ UNCHANGED <<settings, azure>>

DeleteBaseRecord ==
  /\ run.pc = "delete base record"
  /\ records' = records \ {"base"}
  /\ Exit(0)
  /\ UNCHANGED <<settings, groups, slis, dcra, base_group, calls>>

-----------------------------------------------------------------------------
(* Azure finishes a deletion.                                              *)

DcraGoes ==
  /\ dcra = "deleting"
  /\ dcra' = "gone"
  /\ UNCHANGED <<settings, groups, slis, base_group, records, run, calls>>

(* The association goes with the cluster it belongs to.                     *)
BaseGroupGoes ==
  /\ base_group = "deleting"
  /\ base_group' = "gone"
  /\ dcra' = "gone"
  /\ UNCHANGED <<settings, groups, slis, records, run, calls>>

-----------------------------------------------------------------------------
Script ==
  \/ ListSlis \/ DeleteSli \/ DeleteServiceGroup \/ GroupsDone
  \/ ShowCluster \/ GetDcra \/ DeleteDcra \/ PollDcra
  \/ ListSliRecords \/ DeleteSliRecord
  \/ CheckBaseGroup \/ DeleteBaseGroup \/ PollBaseGroup
  \/ ListBaseRecords \/ DeleteBaseRecord

Next == Start \/ Script \/ Fail \/ DcraGoes \/ BaseGroupGoes

Spec == Init /\ [][Next]_vars

(* The script goes on, Azure finishes what it was asked for, and the        *)
(* operator runs the hook until it succeeds.                                *)
FairSpec ==
  /\ Spec
  /\ WF_vars(Script)
  /\ WF_vars(DcraGoes) /\ WF_vars(BaseGroupGoes)
  /\ WF_vars(Start /\ run.pc # "succeeded")

-----------------------------------------------------------------------------
(* Safety                                                                  *)

(* The hook of one environment never deletes the Service Group or an SLI of *)
(* another one, even if the other's name begins with this one's, or a       *)
(* setting left behind names the other's group.                             *)
OnlyOwnedIsDeleted ==
  [][\A g \in Groups :
       (g \in groups /\ g \notin groups') \/ slis'[g] # slis[g] => g.env = EnvName]_vars

(* As long as reads are answered, a Service Group is deleted only after its *)
(* last SLI, so no SLI is left that nothing but its own name would lead to. *)
GroupsDieEmpty == ~unread => \A g \in Groups \ groups : slis[g] = {}

(* The environment's resource group is deleted only when the association is *)
(* gone: Application Insights' managed resource group is stranded otherwise.*)
DcraGoesFirst ==
  [][(base_group = "present" /\ base_group' = "deleting" /\ settings.resource_group = "own")
       => dcra = "gone"]_vars

(* It is, as long as reads are answered: however deletions fail, last, and  *)
(* are cut short, and whatever settings earlier runs had.                   *)
DcraGoesFirstIfRead ==
  [][(base_group = "present" /\ base_group' = "deleting" /\ settings.resource_group = "own"
        /\ ~unread) => dcra = "gone"]_vars

(* As long as reads are answered, the base layer's deployment record        *)
(* outlives the base resource group, whichever flags are set and however    *)
(* often the hook failed: without the record nothing would lead `azd down`  *)
(* to the group.                                                            *)
BaseRecordGoesLast == ~unread /\ "base" \notin records => base_group = "gone"

(* A dry run changes nothing; only what was asked for before may finish.    *)
DryRunDeletesNothing ==
  [][settings.dry_run /\ settings'.dry_run =>
       /\ UNCHANGED <<groups, slis, records>>
       /\ base_group' # base_group => base_group = "deleting"
       /\ dcra' # dcra => dcra = "deleting" \/ base_group = "deleting"]_vars

OwnGroups == {g \in Groups : g.env = EnvName}

(* Does the run at hand mean to delete everything? *)
CleansAll ==
  /\ settings.confirm = "yes" /\ ~settings.dry_run
  /\ settings.group_id \in OwnGroups \cup {None}
  /\ settings.resource_group = "own" /\ settings.fix_base_void

(* A hook that succeeds has cleaned up, whatever earlier runs left behind:  *)
(* its Service Group, the association, the resource group and its record    *)
(* are gone, as long as reads are answered.                                 *)
SuccessMeansClean ==
  ~unread /\ run.pc = "succeeded" /\ CleansAll =>
    /\ groups \cap OwnGroups \subseteq
         IF settings.group_id = None THEN {} ELSE OwnGroups \ {settings.group_id}
    /\ dcra = "gone"
    /\ base_group = "gone"
    /\ "base" \notin records

(* A resource group outside the environment's naming scope makes the script *)
(* skip what it does to resource groups, as it logs.                        *)
ForeignGroupSkipsGroups ==
  [][settings.resource_group = "foreign" /\ base_group = "present"
       => base_group' = "present"]_vars

-----------------------------------------------------------------------------
(* Liveness                                                                *)

(* An operator who runs the hook until it succeeds gets rid of everything,  *)
(* however long deletions take and whichever deletes fail for a while, if   *)
(* reads are answered.                                                      *)
TeardownCompletes ==
  [](CleansAll /\ ~unread) => <>[](groups \cap OwnGroups = {} /\ base_group = "gone" /\ dcra = "gone")
=============================================================================
