# AKS Chaos Lab in TLA+

The AKS Chaos Lab is a FastAPI application backed by Redis on AKS, a timer
function that measures it from outside, and a set of Python scripts that
provision, feed and tear down the Azure resources around them. This directory
holds TLA+ models of the parts that have state and a protocol, TLC
configurations that check them on small instances, and TLAPS proofs of what
matters most for every instance. `PROJECT.json` says which lines each
definition stands for.

    tlc -workers 2 -config PublisherSerial.cfg MCExternalSliPublisher
    tlapm ExternalSliPublisherProofs.tla

## 1. Inventory

| Part | Code | State it keeps | Operations | Modelled |
|---|---|---|---|---|
| External SLI publisher | `src/external-sli-publisher` | cursor blob, samples in the Azure Monitor workspace | one timer-triggered `run_once` | `SliSamples`, `ExternalSliPublisher`, `SliLedger` |
| Chaos-app API | `src/api/app/main.py`, `redis_client.py` | health cache, request counter, Redis client, gauges | `/`, `/health` (`/readyz`), `/livez`, lifespan, middleware | `ChaosApp` |
| API telemetry | `src/api/app/telemetry.py` | active-request and Redis-status gauges, one-time setup | increments, setters, setup | the gauges, in `ChaosApp` |
| SLI teardown | `scripts/cleanup-azure-monitor-sli-resources.py` | none of its own: Azure's resources | the `predown` hook | `SliCleanup` |
| Approved-index workflow | `scripts/tasks.py` (with `approved_index_config.py`, `public_lock.py`) | state file, marker, virtual environment, `uv.lock` | sync, standard sync, run, reset; two checks of the lock | `ApprovedIndex`, `PublicLock`, `ExportedLock` |
| Other targets | `scripts/tasks.py` | none | run a tool, pass on its exit code | no |
| Provisioning and waits | `azure.yaml`, `wait-for-*.py`, `check-api-otel-injection.py` | a deadline or a count per poll loop; what Azure and Kubernetes keep | the steps of `azd up`, with bounded polls between them | `AzdUp` |
| Legacy SLI cleanup | `scripts/cleanup-legacy-sli-sources.py` | none | one pass of reads and deletes | no |
| Post-edit hook | `.github/hooks/scripts/post-edit-quality-feedback.py` | the edited file | one process per edit: reads the file, runs `ruff check --fix` and `ruff format` (or `az bicep format`, and restores line ends) with 45 s each, compares, reports | `PostEditHook` |
| What-if analyzer | `.github/skills/bicep-what-if-analysis/scripts/what_if_analyzer.py` | pattern file, statistics of the patterns | sorts the changes what-if reports, looks for their definitions in Bicep files, prints them as text or JSON, names unused patterns | `WhatIfAnalyzer`, `BicepSearch`, `BicepFiles` |
| Settings and models | `config.py`, `azd_env.py`, `models.py` | none | declarations | no |
| Bicep, manifests, dashboards, load tests | `infra`, `k8s`, ... | what Azure and Kubernetes keep | declarations | no |

How they interact: the kubelet and users call the API, which calls Redis; chaos
experiments make Redis fail. The publisher probes the API's public endpoint
and writes samples, from which Azure Monitor computes the SLIs of a Service
Group. `azd up` deploys the layers in the order of `azure.yaml`, with polls in
between; `azd down` calls the teardown hook first. The task runner builds
the environment in which all Python code is developed and tested; the post-edit
hook uses the `ruff` of that environment.

What is hard in each part, and what makes it correct:

* **Publisher.** No transaction spans the write of the samples and the save of
  the cursor; runs may overlap, fail and be retried; the batch is bounded.
  Correct means: no window is skipped, none is counted before it closes,
  what is counted twice is known, the sums stay ratios, and the backlog drains.
* **API.** Coroutines interleave at each await; a ping's answer is old when it
  is cached; Redis calls are retried by a client that cannot know what was
  applied; shutdown cancels requests. Correct means: a health answer is recent,
  the gauge is exact, the sampled counter is a sample, readiness recovers.
* **Teardown.** A chain of calls, any of which may fail or time out, with
  asynchronous deletions, is repeated by the operator under changing
  settings, beside other environments with similar names. Correct means: the
  right resources, in the right order, and a success that means something.
* **Approved index.** Three files and a directory written step by step,
  interrupted anywhere, while the user edits `uv.lock`. Correct means: an
  environment is used only if it was completed, from the index and the lock it
  claims.

* **`azd up`.** Hooks decide from several reads, taken one after the other, of
  systems that go on changing; they poll with a deadline, and the operator
  repeats a run that failed half way. Correct means: what a step needs is there
  when it is taken, and repeating gets through.
* **What-if analyzer.** Each change is judged twice, filtered by four
  rules and counted in two outputs; the statistics are read, changed and written
  in place. Correct means: no change is hidden, the verdicts agree, and a pattern
  is called unused only if it was. The search in Bicep files goes by lines and
  counts brackets, without a parser. Correct means: in files of the shape it is made
  for, it finds the definition a path leads to, and no other.
* **Post-edit hook.** Two programs with time limits of their own change the file
  the agent is working on, may fail half way, and may outlive the hook; a user
  goes on saving. Correct means: the agent never builds on a text that was
  changed behind its back.

The hazards, each at its line with the properties that guard against it, are in
`PROJECT.json`.

## 2. Modules

### 2.1 External SLI publisher

`SliSamples` holds the arithmetic of `publisher.py`: windows (`FloorDatetime`,
`CeilDatetime`, `WindowsToPublish` with its `max_catchup` cap), the probe's
result, its latency buckets, and the samples of a batch, one probe and `n - 1`
missed windows. Time is in ticks, `Step` ticks to a window.

`ExternalSliPublisher` runs it. `run[i]` is one invocation of `run_once`, and
each of its calls is an action: `Begin` (token and clock), `Load`, `Heartbeat`
(a run with no window ends here), `Probe`, `RemoteWrite`, `Save`. `Abort` ends a
run at any of them. `blob` is the cursor; `ledger` sums the samples the
workspace accepted; `batches` and `orphaned` are observers. A write that is
applied though its answer is lost is `RemoteWrite` then `Abort`.

`SliLedger` is the promise: time is accounted for from an origin, without gaps,
at least once, and never before it closes. `Ledger` in `ExternalSliPublisher`
is the refinement mapping (the blob is its cursor, the union of the batches its
accounted time), and `ImplementsLedger` is checked and proved.

### 2.2 ChaosApp

One process. `req[r]` is a coroutine, with a state per await; everything between
two awaits is one action, as asyncio runs it. `Answer` is Redis answering a
call, after up to `CallMax` seconds and with retries that may each have been
applied; the coroutine goes on in a later action (`FinishPing`, `RootSet`,
`RootCount`, `FinishIncr`, `RootFails`). The lifespan (`Connect`, `Connected`,
`Terminate`, `DrainEnds`, `Stop`) closes the client under the requests in
flight; a command whose request is cancelled may be applied all the same
(`CancelledCalls`). Time is kept as ages that saturate, so no bound on the clock is
needed; `upAge` and `downAge` are observers.

### 2.3 SliCleanup

`run.pc` walks through `main` in its order; each `az` call is an action, and a
poll loop is one action per poll with its bound. `Answers` makes a read with
`allow_failure` fail, any of them and at any time: the script takes that for an
empty answer, as `run_command` and `command_json` do. The observer `unread` says
whether that has happened; the properties that say what the script would know if
it could tell the two apart have `~unread` as a premise, the others do not.
`Fail` is a failing delete or an interruption, which ends the run, and so does
`DeleteBaseGroup` when the group has gone since `CheckBaseGroup` saw it; `Start`
starts the hook again, under any of `Settings`. `DcraGoes` and `BaseGroupGoes`
are Azure finishing deletions it accepted; SLIs and Service Groups are deleted
at once. Names are sequences of "-"-separated parts, so that
`IsOwnedServiceGroupId` does what the prefix test in the code does.
`MCSliCleanup` has environments `dev` and `dev-eu`.

### 2.4 ApprovedIndex

Each process of the task runner is a `task`. `SyncApproved` ... `WriteReady` are
the steps of `target_sync_dev_approved_index` in order, one action per file
access or `uv` command; `RunTask`, `CheckLock`, `CheckMarker`, `Finish` are
`run_uv` behind `approved_index_run_flags`; `StandardSync` and `Sync` are
`uv sync` behind `ensure_standard_sync_allowed`; `ResetState` and `UnlinkState`
the reset. `Stop` kills a task at any step, and `Torn` says what the step may
leave of the environment. The user edits `uv.lock` at any moment, and changes the
configuration or removes the environment while no task runs. `approved` says
whether the configuration names an approved index; settings that make only
`SyncApproved` refuse are the step not taken.

`PublicLock` is `public_lock.py`: a lock is a list of packages, and
`ValidatePublicLock` and the line-by-line `ValidateExportedRequirements` are its
two checks, and `ExportedLines` is what `uv export` writes for a lock.
`PinnedWithHash` is the reference definition of the line-by-line check.

`ExportedLock` puts the two together: the locks of the workflow are lists of
packages, and the checks decide which of them are in `PublicLocks` and
`HashedLocks`. `ExportCheckIsExact` compares the check with its reference at the
moment the workflow relies on it; `UsedIsVetted` says what the checks are for:
what packages a target may end up running with.

### 2.5 AzdUp

`up` is the run of the workflow in `azure.yaml`: its place, the hook it is in
and the state of that hook's wait. A step is an action, and so is each attempt
of a wait, except where the order of its reads matters: `check-injected` reads the
rollout, the deployment and the pods in three actions, and an attempt of
`wait-for-external-sli-signals.py` asks its queries one by one. The checks of the
other attempts are one action because what they look for does not go away
once it is there, so all are found exactly if all are there at the last.
A deadline is a number of attempts (`MaxPolls`).

Around it, each in its own time: the permissions and the add-on `Appear`, the
webhook's pods start and restart, the rolling update creates and retires pods
(counted by kind: phase, template, injected or not), pods die, the publisher's
series become visible and expire, and the operator's `kubectl` is pointed at
another cluster between two runs. `MaxMishaps` bounds what goes wrong, `MaxPods`
the pods. The autoscaler's request for a second pod is no mishap: `hpa.yaml` asks
for two at least and `deployment.yaml` for one, so `ScaleOut` follows every
deployment of the API, any number of times.

A hook that cannot read the outputs it asks azd for goes on without them
(`GoOnWithout`, the early returns of `refresh_kubeconfig` and of the wait for
signals); `up.unread` says that the run has just done so, and `AppliedWhenReady`
and `SignalsWereThere` except what it does next. They rest on an assumption about
azd: that it deploys to the cluster `resourceName` names in `azure.yaml`, and
leaves `kubectl` with it. `UpSucceeds` says that the operator gets through again and
again, or that `check-injected` lists a pod of the autoscaler's that is not running
yet again and again (`Raced`); without the second half it is violated.

### 2.6 WhatIfAnalyzer

`EvaluatePropertyChange` and `GetReferenceInfo` judge a change of a property,
`ShouldShowResource` and `IsCreateFalsePositive` a change of a resource;
`TextOutput` and `PendingEvaluations` are what people and programs read of it.
A pattern is a model of its regular expression: the set of `Subjects` it is
found in. `RecordPatternMatch` keys a match by the type of the resource, as the
code does, wherever the pattern is defined.

`run[a]` is one process: `Analyze` (what-if, the patterns, the output),
`LoadStats`, `OpenStats` (which empties the file), `DumpStats`, `Warn`;
`FailToSave` is a logged `OSError`, `Interrupt` the end of the process anywhere.
Dates are kept as ages in whole days that saturate at `Days + 1`. A pattern older
than `Days` is named as unused; one of exactly that age may be, as `get_unused_patterns`
compares times and not days. No analysis outlasts a day.

The observers are written when something happens, whether or not it is ever saved:
`seen` is the age of the last analysis that had a change sorted by a pattern under
its own definition, set by `Analyze`; `unsaved` has the keys of which a match was in
an analysis that could not save or was cut short (all of them, if the file had
been emptied); `stays` those that were of use and that each analysis since has found
defined; `overlapped` says whether two analyses ever did. The statistics can be
right about `Recordable` patterns only: matches of common patterns go under keys
that are removed as stale, and those that tell a Create to be none are not recorded.

### 2.7 BicepSearch

Operators only. Of a line the search sees the name it starts with, the names
that occur in it, the resource type it declares, and its brackets in their
order, by name (`"lbrace"` is `{`, `"rbracket"` is `]`); a directory is a sequence of files, a file a sequence of lines.
`ExtractSearchTerms`, `FindResourceBlockRange`, `IsInsideParentBlock`,
`FindArrayElementRange` (with `Walked`, the walk over the brackets from the array's
own on, line by line) and
`IsInsideArrayElement` are the functions of those names, and
`FindBicepDefinition` puts them together.

`BicepFiles` is an author who writes the files line by line and keeps what is
open in mind (`BlocksAt`); `MCBicepSearch` adds the symmetry of the types. `Leads` is the reference: it decides by the blocks
around a line whether a path leads there. `Plain` names the files the search is
made for; outside of them it answers wrongly, in the ways listed below.

### 2.8 PostEditHook

One file, its content reduced to a revision of its text, the form a tool has
brought it into, and its line ends. The hook is `HookBegins` (the read of the
file as it was), then commands, then `HookReadsFormatted` and `HookRestoresEol`
for Bicep, then `HookCompares`. A command reads, writes and ends, or ends
without (`CommandReads`, `CommandWrites`, `CommandEnds`), and is given
`CommandTimeout` by `subprocess.run` (`CommandTimesOut`); `RunnerKills` is the
end of the hook after `HookTimeout`. What either kills is the process it
started, so a child may still write what it had read (`OrphanWrites`). `Tick`
passes time while a command runs. The agent edits when the hook is done; a user
saves and deletes at any moment.

`view` and `told` are what the agent knows. `others` and `unsaid` are observers:
who but the hook's own commands wrote the file where the hook cannot notice (`Outside`:
before its first read, after its last, and once line ends are restored), a user
or a formatter that outlived its parent, told apart; and that the hook changed the
file without a word. What is written while the hook is at work is noted nowhere, and
the properties hold all the same.

## 3. Runs

`Mistake:` definitions in the modules are plausible bugs; each property is
violated when one of them takes the place of the definition after it.

| Run | Question | Bounds, and why they are enough |
|---|---|---|
| `publisher_serial` | Is every window counted once, in sound ratios, and does the backlog drain, with one run at a time that may fail anywhere? | `MaxTime` 10, `Step` 2, `MaxCatchup` 2, `MaxAborts` 2: a backlog longer than a batch, a failure before and one after the write |
| `publisher_overlap` | Are windows skipped, early, or never published when two runs overlap? Refinement and liveness. | deployed at 8 with `NotBefore` 3, two windows behind, a third closing at 10; one failure |
| `chaosapp_health` | Are health answers recent, and does readiness recover? | two requests: the smallest number at which an older ping overwrites a newer one; `TTL` 2, `CallMax` 2 let the two ages differ |
| `chaosapp_root` | Is the gauge exact and the sampled counter bounded? | two requests, four counted roots, one retry, so two INCRs overlap |
| `cleanup` | Are only owned resources deleted, whatever fails? As long as reads are answered, does the hook keep its order, mean its success, and finish? | two failing reads or deletes, two polls of each loop, each setting changed alone |
| `cleanup_dcra_unread` | *violation*: the association goes before the resource group | one failing read is enough |
| `cleanup_foreign_group` | *violation*: a foreign resource group skips the resource-group steps | no failure |
| `approved_index_serial` | Is what is used complete and of its lock, and does a sync repair everything? | one task; two good locks and three that are refused for different reasons; two interruptions. `ExportCheckIsExact`: the expected export of each lock and up to four other lines, enough for a requirement, its hash and what may stand between and around them |
| `azd_up_repeated` | Is what each step of `azd up` needs there, and does repeating it get through, but for the race with the autoscaler? | one permission beside the answer of the API, two attempts of each wait, three pods (an old and a new one, and one on its way), two mishaps; the autoscaler's race is not bounded |
| `what_if_analyzer` | Do the outputs agree and hide nothing; are the statistics true? | two processes, which are interchangeable (`SYMMETRY`; there is no liveness); patterns of every category, common and typed; two results that between them use every rule; `Days` 1, so that ages are new, on the edge and unused; one mishap, two edits, so that a pattern goes and comes back |
| `bicep_search` | Does the search find what the path leads to, and nothing else? | every directory of up to 10 lines with two resource types, an object's name, an array's and a leaf's: two resources in one file or in two, an array with two elements or one in an object, an object in an element, and lines after each |
| `post_edit_hook` | Is the agent told of what its hook changes, and are line ends kept, whoever else writes while the hook is at work? | `CommandTimeout` 2 and `HookTimeout` 3: a command alone ends in time, two may not, as with 45 s and 60; two revisions, so that an edit follows one |

Deadlock is checked in every run.

### What the violations show

* `cleanup_dcra_unread`: a failed read of the cluster or the association reads
  as "already deleted", and the resource group is deleted with the association
  in place, which `docs/workarounds.md` says strands the managed group. The same
  reading makes `BaseRecordGoesLast` false without its premise `~unread`: a failed
  `az group exists` lets the base record go while the group exists. A failed read
  can also end the hook in success with nothing done, so
  `SuccessMeansClean` and `TeardownCompletes` have the premise as well.
* `cleanup_foreign_group`: `main` replaces a foreign resource group by `""`, and
  `delete_base_resource_group_sync` takes `""` for a missing setting and deletes
  the group whose name it makes from the environment's.

Other disagreements met while modelling, which the models follow the code in:

* With a backlog longer than `max_catchup` a batch ends before the latest closed
  window, and the probe just made counts as the result of a window long closed.
  `docs/observability.md` says the probe is for the latest closed window.
* With two syncs at a time, the first writes ready over the in-progress state of
  the second; when the second is interrupted in clearing the environment, the
  state and the marker still say ready, although `docs/deployment.md` says that
  an environment whose sync was interrupted is not used. `TrustedIsBuilt` is
  therefore checked and proved for one task at a time. One task alone can be
  deceived as well, if `uv.lock` is changed and changed back between its two
  hashes (`Reverts = TRUE`), so the property is stated for a lock that does not
  return to an earlier content.
* The post-edit hook says of itself that it emits a message when its checks modify a
  file. Two `ruff` commands may take 90 s, and `hooks.json` gives the hook 60:
  it is killed with the file changed and nothing said. And the message comes last in
  a text that is cut at 4000 characters, of which two failures may take nearly all.
  Both concern Python files only (`BicepIsNeverKilled`). And a formatter that is
  killed with its parent's time-out is a grandchild that goes on: it may write the
  file, a Bicep file too, when the hook is over, and nobody tells the agent.
  `AgentIsCurrent` excepts these three cases, and a user's write before the hook's
  first read or after its last.
* The same hook writes line ends back without looking whether the file is still
  what it read, so a user's save in between is lost.
* `find_bicep_definition` answers wrongly in files that are not `Plain`: a
  parent given as a variable (`sku: skuParam`) is taken for the block that is
  opened on the next line; a term counts wherever it occurs in a line; of two
  arrays of one name in a resource, the first is searched; an index in a nested
  array is looked for from the resource's beginning; brackets in comments and
  strings count.
* The what-if analyzer keeps no history of a common pattern that matches a
  resource with a type, nor of patterns for read-only properties and ARM
  references: each match is recorded under a key that the same `save_stats`
  removes as stale. Those that tell a Create to be none are recorded nowhere.
  `SKILL.md` promises statistics of what matched; no property here speaks of these
  patterns.
* A match that is not saved, because the write fails or another analysis writes
  over it, never counts: the next analysis may name a pattern as unused that was
  of use the day before. `WarningsAreRight`, `HistoryIsTrue` and `HistoryIsKept` except
  matches that went unsaved, and say in their comments that they do.
* It removes the whole history when the pattern file does not parse, because
  that loads as an empty one; and a write that is cut short leaves a file that
  the next analysis takes for no history.
* `get_reference_info` does not ask the patterns for ARM references, which
  `pattern-guide.md` says are shown with a lock: the text shows as unclassified
  what the JSON confirms as noise. `hidden_effective_count` is always 0.
* `check-injected` looks at the pods once: an evicted one fails a deployment that is
  sound, and so does the second pod the autoscaler asks for after every deployment
  (`deployment.yaml` has one replica, `hpa.yaml` two at least), if it is not running
  yet. Repeating `azd up` runs the same race again: `[]<>(up.pc = "done")` alone is
  violated.

### Fairness

* Publisher: the clock goes on and the timer goes on firing (weak fairness of
  `Tick` and `Begin`), and a started run ends. Nothing keeps it from failing;
  only the number of failures is bounded.
* ChaosApp: the event loop runs ready coroutines, a call ends by its timeout,
  the lifespan starts, and the kubelet and the publisher go on asking. `Arrive`
  needs strong fairness because a request's slot is not always free. Nothing
  makes Redis recover or the process stop; the properties have that as premises.
* SliCleanup: the script goes on, Azure finishes deletions it accepted, and
  the operator runs the hook again until it succeeds, as its messages ask for.
* ApprovedIndex: a task goes on, and the sync is started now and then, as the
  messages of the other targets ask for (strong fairness: another task
  may be running). Interruptions are bounded, edits are bounded by the locks.
* AzdUp: the run goes on and the operator repeats it; Azure, Kubernetes and the
  publisher do their work, and failed pods are deleted some time. `CommandFails`,
  the other mishaps, the autoscaler and the operator's changes of context are never
  required. All but the autoscaler's steps and the changes of context are bounded.
* WhatIfAnalyzer, BicepSearch and PostEditHook have safety properties only.

## 4. Proofs

Every module of proofs is checked by `tlapm` to the last leaf.

`ExternalSliPublisherProofs`, for any number of overlapping runs, any window
length, cap and outcomes of probes:

* Lemmas on windows and samples come first: a floor is below its argument, a
  batch fits between its start and the target, sums of sound samples are sound.
* `TypeCorrect`, with `HasWindow`: from the probe on a run has a window.
  `WindowCount` counts the windows the code's loop appends; `WindowCountIs` gives it
  as a quotient, from which the bounds of a batch follow.
* `NoWindowIsSkipped`. The cursor alone is not inductive: a run carries a start
  it read long ago. `CoverInv` says that time is covered up to the start of every
  run and, for one about to save, up to its end.
* `NothingIsPublishedEarly` (`ClosedInv` bounds what runs carry by the clock) and
  `RatiosAreRatios`.
* `LedgerIsBalanced`, for one run at a time: nobody moves the cursor between a
  run's load and its save, so its windows start at it (`BalanceInv`).
* `FinishedRunsDrain`, of a run that is alone: `DrainInv` keeps the cursor and every
  start on the window grid, remembers how many windows a run was to publish, and
  that its plan is still the one its clock and the cursor ask for.
* `PublisherImplementsLedger`, with `not_before` set: `RemoteWrite` is the
  ledger's `Account`, `Save` its `Commit`, all others stutter or pass time.

`SliCleanupProofs`, for every set of Service Groups, settings and bounds:

* `CleanupTypeCorrect`; `OnlyOwnIsDeleted` and `DryRunIsDry`, whatever reads fail.
  The first rests on `OwnedIsOwn`: a name with the prefix and no further "-" is
  the environment's, because tokens have no "-".
* `ServiceGroupsDieEmpty`, `BaseRecordIsLast`, `DcraIsFirst`, `SuccessIsClean`:
  as long as no read has failed, which is part of each property, and
  `UnreadStays` says that it holds of the past as well. They need to know what
  each place in the script has established (`EmptyInv`, `OrderInv`, `WetInv`,
  `CleanInv`): past the DCRA step the association is gone, at the base records
  the group is, and so on.

`ApprovedIndexProofs`, for every set of locks and any number of interruptions:

* `ApprovedIndexTypeCorrect`, for any number of tasks.
* `StandardSyncKeepsOut`, for one task at a time: `KeptInv` says who may write
  what at each place.
* `OnlyBuiltIsUsed` and `OnlyBuiltIsTrusted`, for one task at a time and a lock
  that does not revert. `BuiltInv` is the argument of the two hashes: while
  `uv.lock` is what the task hashed, it has been nothing else since, so what
  was validated and exported in between was of that lock; and a marker that
  agrees with a ready state stands in an environment built from it.
  Neither assumption can be left out (see the disagreements above).
* `CheckIsExact` and `ExportPasses`, for files of any length and locks of any size:
  the check, which remembers one requirement and whether it has its hash, agrees
  with `PinnedWithHash`, and what `uv export` should write passes exactly if every
  package is `Exportable`. `FoldIsRun` turns a fold over a sequence into the run of
  its steps, and what it has computed (`Told`, `Read`) follows line by line.
* `ExportIsChecked` puts both into the workflow, and `OnlyVettedIsUsed` (with
  `OnlyBuiltIsUsed`, under its two assumptions) says that targets run with packages
  of the workspace, or pinned and hashed ones of the public index.

`AzdUpProofs`, for any permissions, bounds and numbers of pods:

* `AzdUpTypeCorrect`; in particular no wait makes more attempts than it has time
  for.
* `NothingIsAppliedEarly`: `ReadyInv` says what each place in the workflow may rely
  on, beginning with `kubectl` talking to the environment's own cluster, unless the
  hook could not read its name; the API is deployed to its own cluster even then.
* `CheckedIsInjected`: in `CheckedInv`, a pod of the current template has the
  variables if and only if the template has them, and the template has them when
  the pods are read; so neither a pod created since nor one of the
  template before is without them after the check.
* `SignalsAreThere`: in `SightedInv`, what is in the range is sighted, and while no
  query of the attempt has missed, all asked about so far are.

`ChaosAppProofs`, for any number of requests, cache lifetime and patience of the
client:

* `ChaosAppIsTyped`. `OpsFit` relates the place of a coroutine to its
  outstanding call, and `RoomLeft` leaves the counters room for what is
  outstanding.
* `GaugeIsExact` and `SampleIsBounded`, both inductive with those two: the sampled
  counter because a retry is counted when it may have been applied.
* `HealthIsNews`. What is served from the cache is as old as the ping it rests
  on and the cache's age together, and pings overtake each other:
  `AnswersAreNews` bounds the age of each outstanding answer, `CacheIsNews` that
  of the cache's entry, both in terms of `upAge` and `downAge`, whichever ping
  wrote it.

`WhatIfAnalyzerProofs`, for every set of pattern files and results:

* `AnalyzerIsTyped`; `OutputsAgree` and `NothingIsHidden`, which follow from the
  rules alone, for every result and every pattern file.
* `StatisticsAreTrue`, with any number of processes: what a process has in memory is
  never younger than `seen`, and as old as that, without overlaps (`Alone`), for what
  it has matched itself or what nobody failed to save (`SeenOf`, `InMemory`). For
  that a match must be recorded exactly if the pattern sorted a change
  (`UsedAreRecorded`, `RecordedAreUsed`), which is why common patterns are left out.
* `HistoryStays`: without overlaps, `KeptInv` follows what was of use from the
  analysis that finds it defined (`Defined`) into memory (`InTheMemory`) and into the
  file again. Failures, interruptions and edits may come in between; a match
  that never got saved is excepted until it is matched and saved again.
* `UnusedAreUnused`: its first half holds with any number of processes, its second
  without overlaps. Both follow from `InMemory` at the moment of the warning.

`BicepSearchProofs`, for any number of files of any length, any types and names:

* `SearchFindsWhatLeads`. `FilesInv` says that every file is written by the rules
  and that all but the last are complete; all else is about one file, and goes by
  induction over its lines. A line is in the block another line opens exactly
  until the line that closes it (`Stays`, `Encloses`, `HasOpener`, `HasExit`), and
  the depth counted from the opening line is the number of blocks above it on the
  stack (`DepthIs`, `DepthTells`). So the parents found are the blocks around the
  line (`ParentIsBlock`), and a resource ends where its block does (`BlockEndIs`,
  `ResourceIsBlock`). Within an array the walk knows how many elements have begun,
  and is before, in, or behind the one it looks for (`LooksOn`, `IsInOn`,
  `HasEndedOn`, `ElementIsFound`); it starts at the right array because the name is
  given once where it is looked for (`ArrayIsFound`). With what the terms of a path
  are (`TermsAre`), a line is found exactly if the path leads there (`LeadsIs`,
  `FoundIsPlaces`), and the answer follows from how many there are.

`PostEditHookProofs`, for every pair of timeouts of which the hook's is the longer:

* `HookIsTyped`, and `BicepIsNeverKilled`: a Bicep file's one command is over before
  the hook is killed (`BicepIsInTime`).
* `AgentEditsWhatItSaw`: `BeforeIsSeen` says that the hook compares with what the
  agent saw, whoever writes in between, unless a user, or a formatter that outlived
  its parent, wrote before the hook's first read; the theorem excepts their
  writes after its last as well.
* `LineEndsAreKept`: `EolIsRestored` on the way from a successful command to the
  comparison, unless somebody wrote once line ends were restored.

`NothingIsPublishedEarly`, `DryRunIsDry`, `OnlyVettedIsUsed`, `HookIsTyped` and
`BicepIsNeverKilled` are proved and in no run: the ledger's refinement,
`SuccessMeansClean`, `TrustedIsBuilt` with `ExportCheckIsExact`, and `AgentIsCurrent`
exercise the same code.

Induction is over sets of numbers: `NatSetInduction` and `IntervalInduction` follow
from `WFMin`, which takes a set and no operator, and `RunExists` and `Recursion`
show from them that a function defined step by step exists. What a recursive
function computes is then proved for sequences of any length.

Assumptions on constants are named in the modules and evaluated by TLC in every
run that extends them.

Only model-checked: all liveness, since fairness and ENABLED are out of the
prover's reach. Every safety property of the passing runs has a theorem.

## 5. What is left out

### Of the modelled parts

* Publisher: the remote-write encoding, the endpoints, retries within one HTTP
  client call; that it starts without `not_before` is covered by the theorems
  and not by a run; rates, the timer's period against the window length.
* API: request ids, error bodies, tracing, and `reset_connections`, which no handler
  calls. Telemetry is set up once, at import, before there is another actor.
* Teardown: the second page of a listing, and how the appended token is computed.
* Task runner: what makes a uv configuration an approved one, and the container
  image's build.
* Around `azd up`: the wait for destination metrics, which `azd up` never calls
  (it is run by hand, `docs/deployment.md`), `azd deploy` of a single service,
  hooks called by hand, and a change of `kubectl`'s context during a run.
* What-if analyzer: its command line, `azure.yaml`'s layers and the parameters, from
  which it builds one call of `az`; wording and layout of the output.
* Post-edit hook: one hook at a time, as the agent waits for it; the time `uv`
  takes to start it; lengths of texts, but for the message that may be cut off;
  a file that is deleted between `exists` and the read, which ends the hook with
  an exception as if the file had been gone before.

### Not modelled

* Legacy cleanup: one pass of deletes, made by hand once, each of which takes an
  absent resource for a deleted one. It keeps nothing between its steps, ends at
  the first failure and can be repeated; the order and the failures that matter
  are those of the teardown, which is modelled.
* Other targets of the task runner: each starts one tool and passes on its exit
  code.
* Settings and models, Bicep, manifests, dashboards, load tests: declarations.
  What Azure and Kubernetes make of them is in the external actions of `AzdUp`
  and `SliCleanup`.

## 6. Plan

Done: every part that keeps state or waits for another is modelled, and each
model has theorems, one for every safety property its runs check.

What would come next:

1. `EnvironmentLifecycle`: `AzdUp` and `SliCleanup` composed, up after down after
   up, with what an incomplete teardown leaves for the next `azd up`.
2. In the publisher, the window length changed between two runs, and `NotBefore` as
   a choice of the initial state.
3. Lengths in `PostEditHook`, so that a path's decides whether the message fits.
