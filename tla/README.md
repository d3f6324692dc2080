# KubeFisher in TLA+

KubeFisher attributes GPU spend to inference workloads on Kubernetes. It scrapes
prices and utilisation into Prometheus, writes the resulting cost as annotations
on the workloads that caused it, shows it in a CLI, and (with the operator)
gives teams budgets: a `TeamInferenceQuota` is evaluated every minute, and pods
of a namespace that is over budget are refused.

This directory holds TLA+ models of the parts of KubeFisher that run
concurrently with a cluster, TLC configurations that check them on small
instances, and TLAPS proofs that carry the most important properties over to
every instance. All paths below are relative to the repository. `PROJECT.json`
maps every definition to the lines it models, lists the hazards of the code with
the properties that watch them, and for every checked property a mutant: a
plausible bug in the code under which the property fails.

    tlc -workers 2 -config QuotaController.cfg MCQuotaController
    tlapm QuotaControllerProofs.tla

## 1. Inventory

| Component | Code | State | Operations | Correct when |
|---|---|---|---|---|
| TeamInferenceQuota reconciler | `operator/internal/controller` | none of its own besides the gauge registry; reads objects through an informer cache, writes their status with a merge patch | reconcile a key: read, two Prometheus queries, events, patch, gauges, requeue after 60s | status converges to what spend and spec demand; no quota is forgotten; gauges say what status says; no gauges of deleted quotas |
| Phase arithmetic, gauges | `phase.go`, `metrics.go`, helpers of the controller | none | phase, remaining percentages, rounding, parsing | more spend never improves the phase; the figures agree with the phase |
| Quota API types | `operator/api/v1alpha1` | the stored object | CRD validation | part of the above |
| Pod admission webhook | `operator/internal/webhook` | none; lists quotas from the manager's cache | `ValidateCreate` | a verdict follows from the set of quotas, never denies without an overspent enforced quota |
| Operator process | `operator/cmd` | shared cache, work queue, registry | start, restart | restarts lose nothing |
| Prometheus client | `pkg/promclient` | none | instant query | used by both loops |
| Cost patcher loop | `internal/costpatcher/app.go`, `reconcile.go` | the tick in progress | list pods, per pod: resolve owner, query, write or remove annotations; then zero the idle InferenceServices | annotations settle to the prices; a training job's total is written once |
| Platform adapters, annotation patches | `internal/costpatcher/platform`, `internal/adapters/registry.go`, `internal/costpatcher/contract` | annotations on owners | detect, look up owner, count GPUs and replicas, build and patch annotations | the two names of the rate always agree |
| Kubernetes client | `internal/kubeclient`, manager in `app.go` | informer cache of Deployments and StatefulSets; other reads are live | get, list, patch | |
| GPU pricing, exporter | `internal/costpatcher/pricing`, refresh in `app.go` | pricing document, node prices, label keys ever seen | refresh document and nodes, collect on scrape | a scrape shows the document in force under its own label keys only, and is refused just when two of its rules say the same; rules and node prices belong together in the end |
| Cost table | `internal/cost`, `cost_cmd.go` | the rows so far | discover the kinds installed, list them one after the other, keep a row of each priced or GPU workload; `--watch` | a table that is shown is complete and fresh |
| Workload discovery | `internal/workload` | the kinds still to ask | find a name kind by kind, then the pods behind it | what is found was there, what comes before it was not; the pods are those of the workload |
| Deploy | `internal/deploy`, `deploy_cmd.go` | objects created so far | create Deployment/Service or InferenceService, wait for readiness | ready means what was asked for; runs with a timeout end; repetition gets there (on KServe) |
| Install | `internal/install` | Helm releases and namespaces | detect, preflight, install charts in order | nothing is installed twice; a reported success is complete; repetition installs everything |
| CLI commands | `internal/cli` | none | `cost`, `status`, `logs`, `quota`, `install`, `deploy`, `version`; flags, rendering | |
| Charts, rules, dashboards | `charts`, `config`, `deployments` | manifests | | |
| Test harness | `internal/adapters/testharness` | test code | | |

### How they interact

    GPU nodes, pricing document --> exporter --scrape--> Prometheus --+
                                                                      |
        owners' annotations <-- cost patcher <----- queries ----------+
             |                                                        |
             v                                                        |
        cost table (CLI)          TeamInferenceQuota <-- reconciler <-+
                                       |  (status)
                                       v  shared informer cache
        pod CREATE --> API server --> admission webhook --> verdict

- The reconciler and the webhook share nothing but the API server and the
  manager's informer cache: the webhook decides on phases the reconciler wrote up
  to an interval ago and the watch has delivered.
- The cost patcher and the reconciler read the same recording rules of
  Prometheus. Neither calls the other.
- The webhook sits behind a namespace label and `failurePolicy: Ignore`: when it
  does not answer, pods pass.

### What is hard

- *Stale bases.* Both loops read an object from a cache, spend seconds in
  Prometheus, and send the *difference* between what they computed and what they
  read, without a resource version. Applied to a newer object the patch mixes
  two evaluations.
- *Environment between any two calls.* Users edit, delete and recreate objects,
  pods come and go, and prices change in the middle of an evaluation or a tick.
- *Ambiguous failures.* A patch may be applied although its answer is an error.
- *Restarts* lose the queue, the registry, the caches and the tick in progress.
- *Queries without timeout* hold the only worker.
- *Unordered lists.* Admission walks a list that comes from a map; ticks visit
  pods in list order and the last visited pod of an owner wins.
- *Torn sequences.* `deploy` creates two objects and then waits, `install` runs three
  charts and two applies; each can break off anywhere and is then repeated by
  hand, on whatever the first run left and beside other people's work.
- *Reads that are no snapshot.* The table and the search make one call per kind while
  workloads change, and an API group may drop out of the discovery.
- *Boundaries.* Zero budgets, rounding at a limit, replica counts of zero.

The full list, line by line, is in `PROJECT.json` under `hazards`.

## 2. Modules

    QuotaPolicy  <--implements--  QuotaAdmission <--INSTANCE--+
    QuotaPhase <-- QuotaController <------------------------ QuotaSystem
        ^                ^                                        ^
    QuotaSpend     MCQuotaController                        MCQuotaSystem

    Platform <-- CostPatcher <-- MCCostPatcher
    PriceBoard <--implements--  Pricing <-- MCPricing
    Install        Deploy <-- MCDeploy

    Workloads <-- CostTable <--+
        ^                      +-- Commands <-- MCCommands
        +-------- Lookup <-----+

`...Proofs` modules extend the module they prove about and `TLAPS`.

### QuotaPhase, QuotaSpend

`QuotaPhase` holds the pure operators: `ComputePhase` (`phase.go`), the two
percentages, `FormatUSD`, the gauge values of `metrics.go`. Money is counted in
thirds of a cent and tokens in half tokens, so that values on both sides of every
rounding exist; a limit below zero stands for a string that does not parse.
`QuotaSpend` lets spend grow step by step under any spec, to check the arithmetic.

### QuotaController

One quota object per name. `api` is what the server stores, `watch` the
versions on their way, `cache` what `Get` and `List` answer. `queue` is the work
queue of controller-runtime: a key is absent, `delayed` (RequeueAfter), in
`backoff`, or `ready`; a ready key stays ready when it is added once more. There
is one worker (`SetupWithManager` sets no concurrency). `worker` is the
reconcile in progress and the values it holds across calls:

| Code (`teaminferencequota_controller.go`) | Action |
|---|---|
| `Get`, NotFound: drop gauges | `ReconcileDeleted` |
| limit does not parse: Unknown, event | `ReconcileInvalidSpec` |
| otherwise | `ReconcileValidSpec` |
| token query (an error is kept, the cost query follows anyway) | `QueryTokens` |
| cost query, phase, status, events | `QueryCost` |
| `patchStatus` | `PatchStatus`, `PatchNotFound`, `PatchFails` (an error, applied or not) |
| gauges, `RequeueAfter` | `ExportGauges` |

`Merge` is the merge patch: fields in which the new status differs from the base,
and the condition list as a whole. `lastEvaluationTime` has the resolution of a
second: a patch that changes nothing else may or may not make a new version.
The environment (`ApplySpec`, `Delete`, `ChangeUsage`, `ChangeProm`,
`PatchFails`, `Restart`) may step between any two actions.

What a quota settles to, as state predicates that the loop reaches one after the
other and does not leave while the quota is `Undisturbed` (spec, spend and Prometheus
stay; other quotas may do as they like):

- `OnTrack(q)`: the operator knows the stored version and the evaluation in progress set
  out from it (`CaughtUp`, `OnCourse`); or the status that is `Due`, the one spec, spend
  and Prometheus demand, is stored, and only older statuses may still be cached, on
  their way, or the base of the evaluation in progress (`Evaluated`).
- `Settled(q)`: the status due is stored and the gauges say so.
- `Steady(q)`: settled, the cache has caught up, and nothing under way can unsettle it.

`OneEvaluationSettles` says that a quota on track stays so, that the first evaluation that
finishes settles it, and that later ones, from stale bases too, keep it settled;
`SettledStaysQuiet` that for a steady quota the endless re-evaluations change neither
status nor events; `Convergence` that all quotas become steady.

### QuotaPolicy, QuotaAdmission

`QuotaPolicy` is the promise: a pod is denied only if some quota is overspent and
enforced, and passes only if none is, spend of some quota is unknown, or
admission is not in force. `QuotaAdmission` is `ValidateCreate` with what the API
server does around it. The order of the list is a `rank` chosen anew for every
pod. The walk ends at the first Unknown or enforced Exceeded quota; quotas in
Audit mode leave an event and the walk goes on. The cache changes one quota at a time
(`CacheUpdate`), or as a whole when the operator restarts (`Relist`).

### QuotaSystem

The operator as one process: `QuotaController` plus the webhook as an INSTANCE
of `QuotaAdmission` over the controller's cache. Verdicts have no state of their
own, so the composition adds definitions and properties only. `WebhookEnvironment`
says that what the reconciler does to the cache is what `QuotaAdmission` allows for:
without it, the properties of the webhook would be about a cache of its own.

### Platform, CostPatcher

`Platform` holds what the adapters compute without calling anything: which
adapter claims a pod (`Chosen`), under which name it looks for the owner, GPU
and replica counts, the duration of a TrainJob, and annotations as records
(`Written`, `Removed`, `MergePatch`). `CostPatcher` is the loop: `worker` is the
position in the tick, with the pods still to visit and the pod, owner object and
prices in hand.

| Code | Action |
|---|---|
| `tick`: list GPU pods (`reconcile.go`) | `StartTick` |
| `ResolveTarget` of the adapter; not found | `ResolveTarget`, `SkipPod` |
| cost query (an error ends the tick; no series: remove) | `QueryCost`, `RemoveCost` |
| token query, skipped while the pod loads | `QueryToken` |
| `PatchTargetAnnotations` (`patch.go`) | `WriteCost` |
| `patchTrainJobTotalCostIfComplete` (`kubeflow_trainer.go`) | `WriteJobTotal` |
| `ReconcileOwners` of KServe (`kserve.go`) | `ListOwners`, `CheckOwner`, `WriteZero`, `EndTick` |
| the object is gone, the call fails | `WriteRefused`, `ZeroRefused`, `ApiFails` |

An owner is `AtRest` when every visit would find the annotations it is to write. The
patcher `Knows` it when the cache, the events under way and the tick have its spec, status,
pods and prices as they are; its annotations may be older there, because a Deployment or
StatefulSet is read from a cache that lags behind the patcher's own writes. `UpToDate`
says that they are not older. `Steady` is all three. The pods of an owner are `Agreed`
when they do not contradict each other, and the owner is `OnTrack` when the patcher knows it
and it is at rest, or its pods agree and what is in hand is up to date. `OneVisitSettles`:
the first visit that reaches its end (`Visited`) brings an owner on track to rest, and no
later one changes it, although that may set out from the annotations before the first.

Deployments and StatefulSets are read from a cache that lags, custom resources
from the server: `Read` makes that distinction. Pods are visited in any order, the
order of the list.

### Pricing

`collector` is the `GaugeCollector`: document, label keys seen by this process, node
prices. A refresh (`app.go`) is two steps, because the collector is locked for each
of the two writes and not between them: `Fetch` (`FetchConfigMap`, `SetDocument`) and
`SetNodePrices` or `ListFails`. A missing or invalid document changes nothing.
`Scrape` is `Collect` as the registry and Prometheus see it: empty labels vanish,
two rules with the same labels make the whole scrape fail, and two label keys
that sanitise to one name make `MustNewConstMetric` panic (`ScrapeCrashes`).

`PriceBoard` is the promise behind it, without label keys: a document and prices are
replaced (`NewDocument`, `NewPrices`), a scrape shows each rule under the labels the rule
itself gives (`Show`) and is refused just when two rules of the document say the same
(`Refuse`), and a new process knows nothing (`Forget`). `KeepsBoard` says that
`Pricing` implements it. `InForce(doc)` is a document that scrapes show and refreshes find.

### Install

`run` holds the position of `Run` and what detection found; `releases` the helm
releases, `workloads` and `foreign` the labelled workloads that detection looks
for, ours and other people's.

| Code (`internal/install`) | Action |
|---|---|
| `detectPrometheus`, `detectDCGM`, `detectKubeFisher`, `countGPUNodes` | `Probe` three times, `CountGPUNodes`; a list that fails counts as not found |
| the skip conditions of the three steps | `StepSkips` |
| `HelmInstallIfAbsent` | `HelmDryRun`; `HelmStarts`, then `HelmDeploys` or `HelmFails` (`--atomic`: the release is rolled back, namespaces and CRDs stay) |
| `ApplyAssets` | `ApplyPrices`, `ApplyRules`, `ApplyFails` |
| the process is killed, helm with it | `Interrupt`: a pending release stays |

`torn` and `unseen` are history variables: charts of which an installation was
ever broken off, and charts which detection could not have seen. Properties
refer to them, no action's guard does. `NothingToDo` says that all is installed by what
lasts (`Lasting`: a release with its workloads, or somebody else's chart) and that the run
in progress has seen as much.

### Deploy

Several users run the command in one namespace, each with options of their own.

| Code | Action |
|---|---|
| validation, `DetectServingPlatform` (`detect.go`), `Build`, `--dry-run` | `StartRun` |
| `createObject` (`deploy_cmd.go`) for each object in turn | `CreateDeployment`, `CreateService`, `CreateKServe`, `CreateFails` (applied or not) |
| `WaitReady`: read the Deployment or InferenceService | `Poll`, `ReadFails` |
| `checkSchedulingFailure`: the list of the pods, then the list of events of each pending one | `ListPods`, `ListEvents` |
| `PollUntilReady`: ticker or context | `Wait`; `Expire` is the clock |

Which models share a name (`Slug`), which are label values for the API server
(`LabelValues`) and which names a Service may have (`ServiceNames`) are parameters;
the last two are the API server's. The pods' states record whether a pod has an
event `FailedScheduling` (`unschedulable`, `resumed`, `late`), which outlives its cause.

Every read is a step of its own, and the cluster and other runs may do anything
between two of them: what `ListPods` found pending is kept in `listed`, and when
`ListEvents` asks for a pod's events the pod may have found a node (`resumed`) or be
available (`late`). `short` is a history variable: the users during whose run, or
last run, there was no room at some moment. No action's guard refers to it.
`OptionsOf` says which options each user may give.

### Workloads, CostTable, Lookup, Commands

The commands of the CLI that read: `Workloads` is the cluster and the API
discovery, `CostTable` and `Lookup` what the commands do with them, `Commands` one
command beside a cluster that changes between its calls. A *source* is what one
call lists or gets from: Deployment, StatefulSet, or a resource of an API group; two
groups may serve BentoDeployments. `cmd` is the command in progress, with the
sources still `todo`, the rows so far, and the groups `lost` to discovery. `seen` is
a history variable, the versions every workload has had since the command or the
refresh began; only properties read it.

| Code | Action |
|---|---|
| `discoverCRDs`, `discoverResources`: one call, repeated when it fails for some groups, the second error dropped | `Discover`, `Rediscover` |
| `collectDeployments`, `collectStatefulSets`, `collectUnstructured` (`collect.go`), in the order of `CollectCostRows` | `List` |
| rendering; the ticker of `--watch` (`cost_cmd.go`) | `RenderTable`, `Tick` |
| `FindResource` (`find.go`): one Get per kind | `Get`, `NotFound`, `Found` |
| `podLabelSelector`, `FindPodsForResource` (`pods.go`) | `PodLabelSelector`, `FindPods` |
| any other call fails | `CallFails` |

`Row`, `Included`, `Replicas` and `GPUsPerPod` are computed from one version of a
workload. `limits` and `requests` of a version are the GPUs the code finds in it,
which for most places of a custom resource reads the limits only.
`Selector` is the labels `logs` wants a pod to have, `podLabelSelector` kind by
kind. Which pods a workload really has is stated apart from it, in `Backs`: by the
label selector of a Deployment or StatefulSet as Kubernetes applies it, matchLabels
and matchExpressions (`IsSelected`), and for an InferenceService or BentoDeployment
by the labels from which the cost patcher finds the owner of a pod (`kserve.go`,
`bentoml.go`). `LogsFollowTheWorkload` compares the two, across versions that
replace each other between the search, the second read and the list of pods. It asks
this of workloads that select by labels only (`ByLabelsOnly`). Of the others the code does
not keep it; see *Seen while modelling*.

## 3. Runs

### That pass

| Run | Question | Bounds |
|---|---|---|
| `controller` | Does any interleaving of reconciles, watch events, edits, failures and restarts forget a quota, leave gauges behind, export a status other than the stored one, change a stored phase without an event, or disturb a settled quota? | 1 quota, 3 specs, 3 usages, 4 disturbances, 2 events in flight |
| `system` | Do status, gauges and verdicts settle to what spend demands, for good? | 2 quotas, 3 specs, 2 usages, 3 disturbances, 1 event in flight |
| `spend` | Is the arithmetic monotone, and do the percentages fit the phase? | budgets to 3 tokens, limits to 4 cents, thresholds 0, 1, 50, 80, 100 |
| `admission` | Does the walk over an unordered list keep the policy? | 2 quotas, every phase and mode, 4 pods |
| `cost_patcher` | Do annotations settle, for good where pods agree, do the two keys of the rate agree at every moment, and is a job's total final? | a Deployment with 2 pods, an InferenceService, a TrainJob and a RayService with one each; 2 disturbances, 1 event in flight |
| `pricing` | Is every scrape what `PriceBoard` promises, whatever documents the process has seen, and do scrapes settle to the current prices? | 3 label keys, two of which collide, 6 documents, 2 nodes with 3 label sets, 3 changes |
| `install` | Whatever fails, is killed or installed by others, is anything installed twice, is success ever reported for less, does repetition install everything and then leave nothing to do? | the 3 charts, any of them installed by others, 2 faults or changes |
| `deploy` | Is ready what was asked for, does a run give up only over a shortage it met itself, do runs end, is a shortage reported, do retries succeed? | 2 users, 4 models on 3 names, up to 2 replicas, 1 fault or change |
| `commands` | Does a table that is shown leave out workloads that change while it is read, or show what they were before; is what a search reports true of some moment; whose pods are logged? | 1 name in 6 sources, 2 of them serving one kind; 5 pods, 2 changes |

Why these bounds suffice. Quotas do not share state except the worker, so one
quota meets every interleaving of safety; the two quotas of `system` share the
worker and the verdict. Four disturbances allow create, edit, failure and
deletion or restart in one behaviour, two events in flight a base two versions
old. Three cents and three tokens put values on both sides of every threshold
and of every rounding. The Deployment with two pods gives two writers to one
owner through a stale cache, the InferenceService starts at zero so that idling
and waking both occur, the TrainJob can finish, be deleted and come back, and the
RayService is upgraded to another cluster before or after that cluster's pod comes,
in the middle of a tick too. BentoML owners go through the same actions and are not in
the instance. The documents of `pricing` hold an
override before its general rule, another currency, colliding keys, a duplicate
rule, and a price of zero; three changes suffice for a bad document between two
good ones with a failed list. Two faults in `install` allow a broken-off run and
another disturbance of the run that repeats it. In `deploy`, two models share a
name, one name is not a Service's and one model is no label value; each user has two
or three of the four to ask for, and the name shared is asked for by both, and under two
models by one of them. One fault allows a kill or a failure between any two creations with
the other user's run interleaved, or a node that comes or goes between any two reads. In `commands` one name in every source meets all conflicts of name and
kind, and rows of different names do not interact; two changes let a workload move from one
source to another between two calls, or be replaced between the search and
the selector. One shape has a selector of expressions only, for which the code
falls back to the name, and every key the code asks for is on some pod. A refresh of `--watch` starts anew from any cluster.

`CHECK_DEADLOCK FALSE` is set where a run may stop by its bounds: with every
disturbance spent and Prometheus hung, no step is left (this is the real
behaviour of the code, see `hung_prometheus`), `spend` ends at its maximum, and a command ends.

### That find a disagreement

Each checks one sentence of the repository and TLC shows the code breaking it.

| Run | The sentence | What happens |
|---|---|---|
| `hung_prometheus` | when Prometheus is unreachable the webhook "must not block blind" (`docs/security.md`) | a query that never returns keeps the worker, the phase stays Exceeded, pods stay refused |
| `sibling_pod` | annotations are cleared "when Prometheus returns no series for a previously-annotated owner" (`patch.go`) | one unpriced pod removes what its priced sibling wrote, every tick |
| `edited_prices` | "Running `install` twice is safe" (`docs/cli.md`), and users edit `gpu-pricing` in place (`docs/faq.md`) | the second run applies the default list with `ForceOwnership` over the user's prices |

### Fairness

Safety is checked without fairness. The liveness runs assume: the watch delivers
what is stored, timers of the queue fire, and the worker goes on once it may
(weak fairness of `Deliver`, `TimerFires`, `ReconcileStep`). `StartReconcile` of a
key has strong fairness because one worker serves all keys, and the queue of
controller-runtime is first-in first-out: a ready key is enabled again and again
while others are being reconciled, and cannot be passed over for ever. In the
cost patcher one weak fairness condition covers the whole tick: it is one
goroutine behind a ticker, and both its loops run over finite lists (`TicksEnd`). A hung
query disables the step, so fairness never makes Prometheus answer; the
premises `<>[](prom # "hung")` and `<>[](prom = "up")` say what has to be true
of it. In `pricing` the ticker refreshes and Prometheus
scrapes again and again. In `install` and `deploy` a run in progress goes on and
users repeat the command, operators, garbage collection, KServe, the scheduler
and the kubelet work, and the clock of a `--timeout` runs out. That users repeat
the command is what "repetition" in these properties means; it is not asked of
the code. The bound on disturbances makes the environment stop, which is the "once
the world stands still" in every liveness property. `commands` states no fairness: no
call has a deadline, so nothing in the code makes a command end.

## 4. Proofs

All theorems hold for every value of the constants that the named assumption
(`ControllerAssumption`, `AdmissionAssumption`, `SpendAssumption`,
`PatcherAssumption`, `PricingAssumption`, `InstallAssumption`, `DeployAssumption`,
`WorkloadsAssumption`, `SystemAssumption`: mostly the types of the parameters, that `None` and
`Absent` are not objects, and that quotas are finitely many) allows. TLC evaluates the assumptions on its instances.

| Theorem | Says | Argument |
|---|---|---|
| `TypeCorrect`, `AdmissionTypeCorrect`, `PatcherTypeCorrect`, `PricingTypeCorrect`, `InstallTypeCorrect`, `DeployTypeCorrect`, `TypeCorrect` of `CommandsProofs` | `[]TypeOK` | inductive, for pricing after adding that documents in use are valid (prices are positive). The percentages are within 0..100 for any numbers; in the patcher `WorkerOK` adds that every stage has the object and price it needs |
| `NothingForgotten`, `OrphansAreCollected` | `[]NeverForgotten`, `[]NoOrphanSeries` | every action that takes a key from the queue hands it to the worker, puts it back, or has just removed object and gauges |
| `ExportsAreCurrent`, `GaugesAgree` | `[]ExportIsCurrent`, `[]GaugesMirrorStatus` | the second is not inductive: the gauges come from the object in the worker's hands. The strengthening is the first (that object is the stored one, unless a newer version is about to schedule another evaluation), and that at rest the status of the server is the one in the cache |
| `FreshPatchesAreExact` | `FreshPatchIsExact`: a patch from an up-to-date base stores what was computed | a merge against an equal base changes exactly the differing fields, and the token count that is sent without being different is equal on both sides |
| `TransitionsAreAnnounced` | `NoSilentTransition` | the event is chosen against the base: a merge that changes the stored phase sends one that differs from the base's, and then the event of the new phase was emitted, unless the base had no phase and the new one is Active. The strengthening carries that from `QueryCost` to the patch |
| `SettledIsQuiet` | `SettledStaysQuiet` | an evaluation of a steady quota reads the stored version, computes the stored status, emits no event because the phase is the base's, and merges nothing. One case per action, and the actions of other quotas touch nothing of this one (`OwnStepOrElsewhere`) |
| `EvaluationsSettle` | `OneEvaluationSettles` | `OnTrack` is inductive under undisturbed steps. The status computed is `Due`, which depends on spec and spend only, not on the base's status; merging it into a version with the base's status, or a version that already has it, gives `Due` again. All versions the operator may still read differ in status alone (`SameSpec`) |
| `SettledForGood` | an `OnTrack` and settled quota, undisturbed from some moment on, is settled for ever | the step of `EvaluationsSettle`, for ever; a steady quota is on track and settled |
| `ConvergenceEnforces`, `ConvergenceAllows`, `VerdictsStand` | `Convergence` implies `EnforcementFollowsSpend` and `UnmeasuredSpendAllows`; verdicts on steady quotas stay | on steady quotas the cache shows the phases that are due; with none Unknown the walk refuses in every order if an enforced one is Exceeded (`OrderIsIrrelevant`), and with all Unknown it lets the pod pass. So of the liveness properties of `system` only `Convergence` rests on TLC alone |
| `ControllerFeedsWebhook` | `Spec => WebhookEnvironment` | every step of the reconciler is a `CacheUpdate`, a `Relist` or a stutter of the webhook's specification |
| `OrderIsIrrelevant` | for any finite set of quotas | if no quota is Unknown, the enforced quota of least rank is reached; with none enforced, all audited ones are |
| `WalkKeepsPolicy` | `QuotaAdmission` implements `QuotaPolicy` | step simulation: `CreatePod` is `Admit`, cache updates and faults are `QuotasChange` and `ForceChanges` |
| `SpendNeverImproves`, `PercentagesAgree` | for every spec and any spend | case analysis over the branches of `ComputePhase` and the bounds of the rounded quotients |
| `KeysAgree` | `[]DualKeysAgree` | not inductive as stated: a patch leaves out a key that equals the base's. The strengthening asks that *every* version agrees: stored, in flight, cached, in the worker's hands, and in the list of owners |
| `JobTotalsAreFinal` | `JobTotalIsFinal` | a TrainJob is read from the server, and only the tick writes totals: if the worker holds a job without total and is about to write one, the server has none. An edit keeps the annotations, and a deletion makes the write fail |
| `HistoryIsInvisible` | `[]OldDocumentsLeaveNoTrace` | the keys of the document in force are among the keys held; a key the document does not use gives every rule the same empty label, which separates no two rules and is not stored |
| `PricingKeepsBoard` | `KeepsBoard`: `Pricing` implements `PriceBoard` | step simulation. Padding a rule's labels for keys of other documents adds empty ones only (`PaddingSaysNothing`), and two padded rules are equal just when they say the same (`SamePaddingSameSaying`) |
| `PricesStayInForce`, `FirstMatchWins` | `PricesInForceStay`; a node's price is that of the first rule that matches | a refresh of the document in force replaces it by itself and adds no key; the least index of a set of naturals (`MinIsLeast`) |
| `VisitsSettle` | `OneVisitSettles` | `AtRest` alone is not inductive: an old price in the worker's hands would undo it. `Knows` is the strengthening, one lemma per stage of the tick. A write from an up-to-date base stores what was computed (`MergeFresh`), and computing it again changes nothing (`WrittenTwice`, `RemovedTwice`, `TotalTwice`). A write from an older base sends only keys whose value is the one stored already (`MergeWritten`, `MergeRemoved`) |
| `SteadyOwners` | `SteadyOwnersAreLeftAlone` | the same lemmas, and that nothing falls behind an owner that does not change (`CurrentStep`) |
| `SettledOwnersStaySettled` | an owner on track and at rest, undisturbed from some moment on, is settled for ever | `OnTrack` and `AtRest` are inductive together under undisturbed steps |
| `InstallIsIdempotent`, `SuccessLeavesNothingToDo` | `RunningTwiceIsSafe`; a successful run reaches `NothingToDo` | detection finds what lasts, so every step of a run skips; that the run in progress has already found it is part of `NothingToDo` |
| `TicksEnd`, `RunsEnd` | `TicksAreFinite` (for finitely many pods and owners), `RunsAreFinite`: a tick or a run of `install` repeats nothing | a variant, `StepsAhead(worker)` and `CallsAhead`, that every step of its own and every failure or kill lowers and that nothing else touches. In the patcher it is five for each pod left and two for each owner; taking one off the list lowers the cardinality by one (`OneLess`) |
| `RunsGoForward` | `RunsAdvance`: a run of `deploy` loops only where it polls and its clock has not run out | the variant `StepsAhead(u)`, untouched by other users' runs; polling keeps it, the clock and everything else lowers it |
| `NoDuplicates` | `[]NothingDuplicated` | strengthened by what the run knows: a chart that is foreign, and was not found by a run past its probe, is in `unseen` |
| `SuccessMeansComplete` | `[]SuccessIsComplete` | four invariants together: workloads and namespaces of ours without a deployed release are explained by `torn`, what was found is present, a chart the run has passed is present or was not due, and assets passed are applied |
| `ReportsWhatWasAsked` | `[]ReadyIsAsked` | a run between its two creations owns the Deployment it made; at most one run is between them for a name; and a Service has its Deployment beside it. So the Service a run makes completes its own pair, and no other run can make either object |
| `RowsAreFresh`, `TablesAreComplete` | the invariants of the table | every row is that of a version in `seen`, which only grows during a refresh; and a workload of a source no longer `todo` has a row, or was at some moment absent or did not qualify |
| `LookupsAreHonest` | `[]LookupIsHonest` | a source no longer `todo` was without the name at some moment; the source that answers is first among those left, so all before it are no longer `todo` |
| `LogsAreOfTheWorkload` | `[]LogsFollowTheWorkload` | first, the labels asked for are those of a version in `seen`: the one read again for a Deployment or StatefulSet, any version for the other kinds, whose labels do not depend on it. That one exists follows from `LookupIsHonest`. Then `LabelsTellPods`: with all versions selecting by labels only, a pod with these labels backs that version |
| `GivesUpOnOwnShortage` | `[]GivesUpForWantOfRoom` | while there is no room every user counts as having met it (`RoomMet`), and the Deployment a run polls is one it made itself (from the proof of `ReportsWhatWasAsked`): an event on one of its pods was caused during this run (`OwnShortage`), at whatever moment pods and events are read |

### Only model-checked

`Convergence`, `AnnotationsSettle`, `ScrapesSettle`, `RepeatedRunsInstall`,
`DeployEnds`, `RetriesSucceed` and `ShortageIsReported` are liveness under fairness, which the prover does not
reach: that the state is reached rests on TLC. That it is not left again is proved for
quotas, owners, prices and installations, and that ticks and runs cannot go in circles by
the variants of `TicksEnd`, `RunsEnd` and `RunsGoForward`. `EnforcementFollowsSpend` and
`UnmeasuredSpendAllows` are proved from `Convergence`. The violation runs are
counterexamples and need no proof.

`OneEvaluationSettles`, `FreshPatchIsExact`, `OldDocumentsLeaveNoTrace`,
`PricesInForceStay`, `OneVisitSettles`, `SteadyOwnersAreLeftAlone`, `RunningTwiceIsSafe`,
`TicksAreFinite`, `RunsAreFinite`, `RunsAdvance` and `WebhookEnvironment` are proved and are in no run's configuration; each
can be added to the one of its module, where TLC finds it to hold.

## 5. What is not modelled

Out of scope: the CLI's arguments and rendering, `quota list`, `quota get` and
`version`, which print what one call returns (`quota set` is `ApplySpec`), charts and dashboards (the recording
rules run inside Prometheus: here their results are the series), construction of
clients, TLS, health endpoints, test code.

Within the modelled parts:

- `last-updated-at` and `lastEvaluationTime` are left out: they accompany other
  writes. Their effect on versions is kept.
- The operator never runs with a nil Prometheus client, so that branch of
  `Reconcile` is not an action.
- The walk over controller references from a pod to its Deployment or
  StatefulSet is a label of the pod.
- A kind whose CRD is missing behaves as an owner that is not found.
- The 60 seconds between evaluations are an order, not a time. The reconciler's
  own status write enqueues its key, so an evaluation can follow at once.
- `install`: the printed summary and the detection of serving platforms that
  feeds it; the price list and the rules in the chart itself, which the assets
  overwrite a moment later.
- `deploy`: options that decide nothing about the steps (image, team, GPU), the
  cost annotation read for the final message.

- The commands: platform tokens, sorting and rendering; the fields of `status`,
  computed from the one object found, and its endpoint, guessed from a Service of
  that name; the log stream itself; the end of `--watch` by a signal.

### Seen while modelling

None of these has a run: where a document speaks of it, the sentence is quoted.

The operator:

- A merge patch against a stale base can store the phase of one evaluation
  beside the conditions of another, although the phase is documented as
  "Unknown if Prometheus failed"; and events, emitted before the patch and
  relative to the stale phase, can announce a transition twice.
- An event is documented for every phase transition but "the noisy first transition
  `"" → Active`" (`docs/teaminferencequota-operator.md`). A base read before the first status was
  delivered has no phase: an evaluation that finds Active then writes it over a
  stored Warning, Exceeded or Unknown without an event. `NoSilentTransition`
  excepts exactly this.
- Enforce and Exceeded "causes new GPU pod CREATE requests to be denied"
  (`docs/security.md`). With a second quota that is Unknown, for instance one last
  evaluated while Prometheus was down, the walk may return at that one, and the pod passes:
  the verdict depends on the order of a list that has none.
- The gauge for the percentage "already consumed" (`metrics.go`) reads 100 while
  spend is unknown, beside a cost of 0.
- The phase compares unrounded tokens, status shows rounded ones.
- A cost limit of zero is never exceeded, a token budget of zero is exceeded by
  the first token.
- An audit event is emitted for a pod that a later quota of the list refuses.

The cost patcher:

- The fleet's total is documented as the rate "x current replica count"
  (`contract/annotations.go`); an InferenceService scaled to zero keeps the last
  total beside a rate of 0.
- The replica total of an InferenceService assumes one replica: the counts of
  `ReplicasFromTarget` are top-level status fields, which KServe does not set.
- Totals of a Deployment whose pods have different prices may belong to another
  pod than the rate, for the time a stale base hides the difference.
- GPU limits given directly at the predictor of an InferenceService are never
  read (`internal/costpatcher/platform/gpu.go`): their path has the length of
  neither form the walk follows.
- A job whose pods lose their cost series before a tick has seen it finished
  gets no total.
- When the list of nodes fails, node prices of the old document are exported
  with the currency of the new one.

The commands:

- A generic deploy that breaks off between Deployment and Service is not finished
  by repeating it: the second run fails on the Deployment that exists
  (`deploy_cmd.go`).
- A Service's name begins with a letter. For a model whose name does not, the
  Deployment is made and the Service refused.
- The documented model IDs contain a slash, and `--model` becomes a label value
  (`generic.go`, `kserve.go`), which may not: the API server refuses the object.
- An InferenceService of that name is taken as it is, whatever its model, and
  reported ready (`kserve.go`).
- Scheduling failures are taken for "errors that will never self-resolve"
  (`wait.go:59`), and an event of any age counts. A node that is added resolves them:
  a pod that has its node and still pulls its image ends the wait with the old event
  (`generic.go`), and since pods and events are listed in two calls, even a pod that has
  become available in between does. `GivesUpForWantOfRoom` is what remains true.
- A workload deleted while a run without timeout polls it is waited for for ever.
- When discovery fails for an API group twice, `cost` leaves out its kinds and
  exits with success, and the Deployments behind an InferenceService or a
  BentoDeployment with them, for they are left to the row of their parent; `status`
  and `logs` report a workload of that kind as not found, or take a
  Deployment of the same name.
- One failed call ends `cost --watch`.
- The table's replicas of a custom resource are at least 1, also when its spec says 0.
- A container that states GPU limits and requests counts twice in the JSON output (`collect.go`).
- `logs` streams "from the pods backing a GPU workload" (`docs/cli.md`), but it asks for
  the pods of a `TrainJob` by `training.kubeflow.org/job-name`. The trainer marks them
  with `trainer.kubeflow.org/trainjob-name` or `jobset.sigs.k8s.io/jobset-name`
  (`docs/contract.md`, "Kubeflow Trainer v2"; `kubeflow_trainer.go`): `logs` finds none of them,
  and streams from those of a training job of another kind with the same name. For a
  `RayService` it compares `ray.io/serve-deployment` with the service's name, where the cost
  patcher goes by the cluster it runs on (`ray_serve.go`).
- `logs` does not look at matchExpressions (`pods.go:51`, `:59`): a selector with
  both lets pods through that the workload does not have, and one with expressions only is
  replaced by the label `app.kubernetes.io/name`.
- `docs/cli.md` says that `cost` reads `total-job-cost-usd` of finished jobs and that
  `status` has a JSON output; the code does neither.
- `install` does not leave two states by repetition: a release whose helm was
  killed stays pending, and the namespace `gpu-operator` of a rolled-back chart
  counts as an installation.

## 6. Plan

Done, in this order: `QuotaPhase`, `QuotaController`, `QuotaPolicy` and
`QuotaAdmission`, `QuotaSystem`, `QuotaSpend`, `Platform`, `CostPatcher`, `Pricing`,
`Install`, `Deploy`, `Workloads` with `CostTable`, `Lookup` and `Commands`, with
the proofs above.

Open, in order of importance:

1. **Theorems about `Platform`**: the adapter chosen, GPU and replica counts, and that a
   merge against an equal base is exact.
2. **Abstract specifications** for `install` (a set of charts that grows until it
   is complete) and `deploy` (a name is claimed by at most one model), and proofs
   that the detailed modules implement them.
