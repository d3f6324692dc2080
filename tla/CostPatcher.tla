---------------------------- MODULE CostPatcher ----------------------------
(***************************************************************************)
(* The reconcile loop of the cost patcher (internal/costpatcher): every    *)
(* tick visits the GPU pods one by one, asks Prometheus what each costs,   *)
(* and writes the answer as annotations on the pod's owner; afterwards     *)
(* KServe's InferenceServices without pods are set to zero.  The loop      *)
(* holds no lock and no resource version across its API calls, so pods,    *)
(* owners, prices and Prometheus change between any two of its steps.      *)
(* Deployments and StatefulSets are read from an informer cache that lags  *)
(* behind the server, custom resources from the server itself.             *)
(***************************************************************************)
EXTENDS Platform

CONSTANTS
  Owners,      \* names of the objects annotations go to
  KindOf,      \* [Owners -> Adapters], the adapter an owner belongs to
  OwnerSpecs,  \* [Owners -> GPU limits in the spec], used for KServe
  Worlds,      \* [Owners -> sets of specs and statuses others give an owner]
  Pods,        \* names of pods
  Labels,      \* [Pods -> label records]
  PodSpecs,    \* [Pods -> containers]
  Phases,      \* the pod statuses that occur
  Rates,       \* values of kubefisher:cost_per_hour
  TokenRates,  \* values of kubefisher:cost_per_token
  Starts,      \* the owners, pods and series the patcher may find at first
  MaxChanges,  \* bound on the steps of users, cluster, metrics, faults
  MaxLag       \* bound on undelivered watch events per owner

VARIABLES
  api,      \* [Owners -> Objects or Absent], what the server stores
  watch,    \* [Owners -> Seq], versions not yet delivered to the cache
  cache,    \* [Owners -> Objects or Absent], typed reads
  pods,     \* [Pods -> PodStatuses or Absent], the pods a List returns
  cost,     \* [Pods -> Rates or Absent], the cost_per_hour series
  tokens,   \* [Pods -> TokenRates or Absent], the cost_per_token series
  prom,     \* "up", "down" (queries fail) or "hung" (they never return)
  worker,   \* where the tick is and what it holds
  changes   \* environment steps taken so far

ownerVars == <<api, watch, cache>>
worldVars == <<pods, cost, tokens, prom>>
vars      == <<ownerVars, worldVars, worker, changes>>

-----------------------------------------------------------------------------
Annotations == [Keys -> Nat \cup {Absent}]

(* What users, the cluster and other controllers keep in an owner.         *)
AllWorlds == UNION {Worlds[o] : o \in Owners}

Objects == [world: AllWorlds, anns: Annotations]

GPUs == [p \in Pods |-> GPUCountFromPod(PodSpecs[p])]

AdapterOf == [p \in Pods |-> Chosen(Labels[p])]

NameOf == [p \in Pods |-> OwnerName(AdapterOf[p], Labels[p])]

PatcherAssumption ==
  /\ KindOf \in [Owners -> Adapters]
  /\ Phases \subseteq PodStatuses
  /\ Rates \subseteq Nat /\ TokenRates \subseteq Nat
  /\ Starts \subseteq [worlds: [Owners -> AllWorlds],
                       pods: [Pods -> Phases \cup {Absent}],
                       cost: [Pods -> Rates \cup {Absent}],
                       tokens: [Pods -> TokenRates \cup {Absent}]]
  /\ MaxChanges \in Nat /\ MaxLag \in Nat
  /\ Absent \notin Nat /\ Absent \notin Objects /\ Absent \notin Owners
  /\ Absent \notin PodStatuses /\ Absent \notin Pods
  /\ \A p \in Pods : GPUs[p] \in Nat
  /\ \A o \in Owners : GPUCountFromUnstructured(OwnerSpecs[o]) \in Nat
  /\ \A w \in AllWorlds : /\ {w.ready, w.running, w.wanted} \subseteq Nat \cup {Absent}
                           /\ TrainJobDuration(w.job) \in Nat

ASSUME PatcherAssumption

Stages == {"idle", "pods", "cost", "remove", "token", "write", "total",
           "owners", "zero"}

Idle == [pc |-> "idle", todo |-> {}, loading |-> {}, pod |-> Absent,
         owner |-> Absent, base |-> Absent, perHour |-> Absent,
         perToken |-> Absent, listed |-> [o \in Owners |-> Absent]]

(* The loop over pods goes on, whatever became of the last pod.            *)
NextPod == [Idle EXCEPT !.pc = "pods", !.todo = worker.todo,
                        !.loading = worker.loading]

NextOwner == [worker EXCEPT !.pc = "owners", !.owner = Absent,
                            !.listed[worker.owner] = Absent]

-----------------------------------------------------------------------------
(* The API server and the cache.                                           *)

Typed(o) == KindOf[o] = "generic"

Read == [o \in Owners |-> IF Typed(o) THEN cache[o] ELSE api[o]]

(* Only typed owners are watched: their informer receives every version.   *)
Store(o, version) ==
  /\ Typed(o) => Len(watch[o]) < MaxLag
  /\ api'   = [api EXCEPT ![o] = version]
  /\ watch' = IF Typed(o) THEN [watch EXCEPT ![o] = Append(@, version)] ELSE watch
  /\ UNCHANGED cache

Deliver(o) ==
  /\ watch[o] # <<>>
  /\ cache' = [cache EXCEPT ![o] = Head(watch[o])]
  /\ watch' = [watch EXCEPT ![o] = Tail(@)]
  /\ UNCHANGED <<api, worldVars, worker, changes>>

Patched(o, base, new) ==
  [api[o] EXCEPT !.anns = MergePatch(@, base.anns, new)]

(* Nothing to change, or a merge patch the server applies.                 *)
Patch(o, base, new) ==
  IF new = base.anns THEN UNCHANGED ownerVars
  ELSE api[o] # Absent /\ Store(o, Patched(o, base, new))

(* The object is gone: the patch is answered with an error.                *)
PatchRefused(o, base, new) == new # base.anns /\ api[o] = Absent

-----------------------------------------------------------------------------
(* One tick.                                                               *)

StartTick ==
  /\ worker.pc = "idle"
  /\ LET found == {p \in Pods : pods[p] # Absent /\ GPUs[p] > 0}
     IN worker' = [Idle EXCEPT !.pc = "pods", !.todo = found,
                               !.loading = {p \in found : IsPodLoading(pods[p])}]
  /\ UNCHANGED <<ownerVars, worldVars, changes>>

(* A RayService is found by the cluster it has active.                     *)
RayServices(cluster, view) ==
  {o \in Owners : /\ KindOf[o] = "ray-serve" /\ view[o] # Absent
                  /\ view[o].world.cluster = cluster}

(* All other owners are fetched by name.                                   *)
NamedOwners(kind, name, view) ==
  {o \in Owners : o = name /\ KindOf[o] = kind /\ view[o] # Absent}

(* The owners the pod may resolve to.                                      *)
Targets(p, view) ==
  IF NameOf[p] = Absent THEN {}
  ELSE IF AdapterOf[p] = "ray-serve" THEN RayServices(NameOf[p], view)
  ELSE NamedOwners(AdapterOf[p], NameOf[p], view)

ResolveTarget(p) ==
  /\ worker.pc = "pods" /\ p \in worker.todo
  /\ \E o \in Targets(p, Read) :
       worker' = [NextPod EXCEPT !.pc = "cost", !.todo = @ \ {p}, !.pod = p,
                                 !.owner = o, !.base = Read[o]]
  /\ UNCHANGED <<ownerVars, worldVars, changes>>

SkipPod(p) ==
  /\ worker.pc = "pods" /\ p \in worker.todo
  /\ Targets(p, Read) = {}
  /\ worker' = [worker EXCEPT !.todo = @ \ {p}]
  /\ UNCHANGED <<ownerVars, worldVars, changes>>

(* A failed query ends the whole tick.                                     *)
QueryCost ==
  /\ worker.pc = "cost" /\ prom # "hung"
  /\ worker' =
       IF prom = "down" THEN Idle
       ELSE IF cost[worker.pod] = Absent THEN [worker EXCEPT !.pc = "remove"]
       ELSE [worker EXCEPT !.perHour = cost[worker.pod],
                           !.pc = IF worker.pod \in worker.loading THEN "write" ELSE "token"]
  /\ UNCHANGED <<ownerVars, worldVars, changes>>

QueryToken ==
  /\ worker.pc = "token" /\ prom # "hung"
  /\ worker' = IF prom = "down" THEN Idle
               ELSE [worker EXCEPT !.pc = "write", !.perToken = tokens[worker.pod]]
  /\ UNCHANGED <<ownerVars, worldVars, changes>>

RemoveCost ==
  /\ worker.pc = "remove"
  /\ Patch(worker.owner, worker.base, Removed(worker.base.anns))
  /\ worker' = NextPod
  /\ UNCHANGED <<worldVars, changes>>

NewAnnotations ==
  Written(worker.base.anns,
          [perHour  |-> worker.perHour,
           perToken |-> worker.perToken,
           gpus     |-> GPUs[worker.pod],
           replicas |-> ReplicasFromTarget(KindOf[worker.owner], worker.base.world)])

(* Mutant: the job's total is based on what the server holds in any case.  *)
WriteCostRereads ==
  /\ worker.pc = "write"
  /\ Patch(worker.owner, worker.base, NewAnnotations)
  /\ worker' = IF KindOf[worker.owner] # "kubeflow-trainer" THEN NextPod
               ELSE [worker EXCEPT !.pc = "total", !.base = api'[worker.owner]]
  /\ UNCHANGED <<worldVars, changes>>

(* A TrainJob goes on to its total, with the object the patch returned.    *)
WriteCost ==
  /\ worker.pc = "write"
  /\ Patch(worker.owner, worker.base, NewAnnotations)
  /\ worker' =
       IF KindOf[worker.owner] # "kubeflow-trainer" THEN NextPod
       ELSE [worker EXCEPT
               !.pc   = "total",
               !.base = IF NewAnnotations = @.anns THEN @ ELSE api'[worker.owner]]
  /\ UNCHANGED <<worldVars, changes>>

(* Mutant: the total is recomputed on every visit of a finished job.       *)
TotalJobCostAgain(base, perHour) ==
  LET job == base.world.job
  IN IF Terminal(job.conditions) /\ TrainJobDuration(job) > 0
     THEN [base.anns EXCEPT !.job = perHour * TrainJobDuration(job)]
     ELSE base.anns

(* Written once, when the job is over and its duration is known.           *)
TotalJobCost(base, perHour) ==
  LET job == base.world.job
  IN IF /\ base.anns.job = Absent
        /\ Terminal(job.conditions) /\ TrainJobDuration(job) > 0
     THEN [base.anns EXCEPT !.job = perHour * TrainJobDuration(job)]
     ELSE base.anns

WriteJobTotal ==
  /\ worker.pc = "total"
  /\ Patch(worker.owner, worker.base, TotalJobCost(worker.base, worker.perHour))
  /\ worker' = NextPod
  /\ UNCHANGED <<worldVars, changes>>

(* A write to an owner that was deleted is logged, and the loop goes on.   *)
WriteRefused ==
  /\ \/ worker.pc = "remove"
        /\ PatchRefused(worker.owner, worker.base, Removed(worker.base.anns))
     \/ worker.pc = "write" /\ PatchRefused(worker.owner, worker.base, NewAnnotations)
     \/ worker.pc = "total"
        /\ PatchRefused(worker.owner, worker.base, TotalJobCost(worker.base, worker.perHour))
  /\ worker' = NextPod
  /\ UNCHANGED <<ownerVars, worldVars, changes>>

(* ReconcileOwners: only KServe's adapter has one.                         *)
ListOwners ==
  /\ worker.pc = "pods" /\ worker.todo = {}
  /\ worker' = [Idle EXCEPT
                  !.pc = "owners",
                  !.listed = [o \in Owners |-> IF KindOf[o] = "kserve" THEN api[o] ELSE Absent]]
  /\ UNCHANGED <<ownerVars, worldVars, changes>>

HasActivePods(o) ==
  \E p \in Pods : Labels[p].isvc = o /\ pods[p] # Absent /\ Active(pods[p])

(* Mutant: pods that are still starting are not looked for.                *)
CheckOwnerByReadiness(o) ==
  /\ worker.pc = "owners" /\ worker.listed[o] # Absent
  /\ worker' = IF PredictorReadyReplicas(worker.listed[o].world) = {0}
               THEN [worker EXCEPT !.pc = "zero", !.owner = o]
               ELSE [worker EXCEPT !.listed[o] = Absent]
  /\ UNCHANGED <<ownerVars, worldVars, changes>>

CheckOwner(o) ==
  /\ worker.pc = "owners" /\ worker.listed[o] # Absent
  /\ worker' = IF /\ PredictorReadyReplicas(worker.listed[o].world) = {0}
                  /\ ~HasActivePods(o)
               THEN [worker EXCEPT !.pc = "zero", !.owner = o]
               ELSE [worker EXCEPT !.listed[o] = Absent]
  /\ UNCHANGED <<ownerVars, worldVars, changes>>

Zeroed(o, anns) ==
  LET gpus == GPUCountFromUnstructured(OwnerSpecs[o])
  IN Written(anns, [perHour |-> 0, perToken |-> Absent, replicas |-> Absent,
                    gpus |-> IF gpus > 0 THEN gpus ELSE Absent])

ZeroAnnotations == Zeroed(worker.owner, worker.listed[worker.owner].anns)

WriteZero ==
  /\ worker.pc = "zero"
  /\ Patch(worker.owner, worker.listed[worker.owner], ZeroAnnotations)
  /\ worker' = NextOwner
  /\ UNCHANGED <<worldVars, changes>>

(* An error for one owner ends the loop over owners.                       *)
ZeroRefused ==
  /\ worker.pc = "zero"
  /\ PatchRefused(worker.owner, worker.listed[worker.owner], ZeroAnnotations)
  /\ worker' = Idle
  /\ UNCHANGED <<ownerVars, worldVars, changes>>

EndTick ==
  /\ worker.pc = "owners" /\ \A o \in Owners : worker.listed[o] = Absent
  /\ worker' = Idle
  /\ UNCHANGED <<ownerVars, worldVars, changes>>

TickStep ==
  \/ StartTick \/ QueryCost \/ QueryToken \/ RemoveCost \/ WriteCost
  \/ WriteJobTotal \/ WriteRefused \/ ListOwners \/ WriteZero \/ ZeroRefused \/ EndTick
  \/ \E p \in Pods : ResolveTarget(p) \/ SkipPod(p)
  \/ \E o \in Owners : CheckOwner(o)

-----------------------------------------------------------------------------
(* Users, the cluster, the metrics pipeline and faults.                    *)

Change == changes < MaxChanges /\ changes' = changes + 1

ChangeOwner(o, w) ==
  /\ Change
  /\ IF api[o] = Absent THEN Store(o, [world |-> w, anns |-> NoAnnotations])
     ELSE api[o].world # w /\ Store(o, [api[o] EXCEPT !.world = w])
  /\ UNCHANGED <<worldVars, worker>>

DeleteOwner(o) ==
  /\ Change
  /\ api[o] # Absent
  /\ Store(o, Absent)
  /\ UNCHANGED <<worldVars, worker>>

ChangePod(p, s) ==
  /\ Change
  /\ pods[p] # s
  /\ pods' = [pods EXCEPT ![p] = s]
  /\ UNCHANGED <<ownerVars, cost, tokens, prom, worker>>

ChangeCost(p, rate) ==
  /\ Change
  /\ cost[p] # rate
  /\ cost' = [cost EXCEPT ![p] = rate]
  /\ UNCHANGED <<ownerVars, pods, tokens, prom, worker>>

ChangeTokens(p, rate) ==
  /\ Change
  /\ tokens[p] # rate
  /\ tokens' = [tokens EXCEPT ![p] = rate]
  /\ UNCHANGED <<ownerVars, pods, cost, prom, worker>>

ChangeProm(status) ==
  /\ Change
  /\ prom # status
  /\ prom' = status
  /\ UNCHANGED <<ownerVars, pods, cost, tokens, worker>>

(* A call to the API server fails, possibly after a write took effect.     *)
ApiFails ==
  /\ Change
  /\ UNCHANGED worldVars
  /\ \/ /\ worker.pc = "pods"
        /\ \/ \E p \in worker.todo : worker' = [worker EXCEPT !.todo = @ \ {p}]
           \/ worker.todo = {} /\ worker' = Idle
        /\ UNCHANGED ownerVars
     \/ /\ worker.pc = "remove" /\ worker' = NextPod
        /\ UNCHANGED ownerVars \/ Patch(worker.owner, worker.base, Removed(worker.base.anns))
     \/ /\ worker.pc = "write" /\ worker' = NextPod
        /\ UNCHANGED ownerVars \/ Patch(worker.owner, worker.base, NewAnnotations)
     \/ /\ worker.pc = "total" /\ worker' = NextPod
        /\ \/ UNCHANGED ownerVars
           \/ Patch(worker.owner, worker.base, TotalJobCost(worker.base, worker.perHour))
     \/ /\ worker.pc = "zero" /\ worker' = Idle
        /\ \/ UNCHANGED ownerVars
           \/ Patch(worker.owner, worker.listed[worker.owner], ZeroAnnotations)

(* The process restarts: no tick in progress, caches listed anew.          *)
Restart ==
  /\ Change
  /\ worker' = Idle
  /\ cache'  = [o \in Owners |-> IF Typed(o) THEN api[o] ELSE Absent]
  /\ watch'  = [o \in Owners |-> <<>>]
  /\ UNCHANGED <<api, worldVars>>

Environment ==
  \/ \E o \in Owners : DeleteOwner(o) \/ \E w \in Worlds[o] : ChangeOwner(o, w)
  \/ \E p \in Pods : \/ \E s \in Phases \cup {Absent} : ChangePod(p, s)
                     \/ \E r \in Rates \cup {Absent} : ChangeCost(p, r)
                     \/ \E r \in TokenRates \cup {Absent} : ChangeTokens(p, r)
  \/ \E s \in {"up", "down", "hung"} : ChangeProm(s)
  \/ ApiFails
  \/ Restart

Init ==
  /\ \E start \in Starts :
       /\ api = [o \in Owners |-> [world |-> start.worlds[o], anns |-> NoAnnotations]]
       /\ pods = start.pods /\ cost = start.cost /\ tokens = start.tokens
  /\ cache  = [o \in Owners |-> IF Typed(o) THEN api[o] ELSE Absent]
  /\ watch  = [o \in Owners |-> <<>>]
  /\ prom   = "up"
  /\ worker = Idle
  /\ changes = 0

Next == (\E o \in Owners : Deliver(o)) \/ TickStep \/ Environment

Spec == Init /\ [][Next]_vars

(* The watch delivers, the tick goes on, and its loops reach their end:    *)
(* each step takes a pod or an owner off a finite list.                    *)
Fairness == (\A o \in Owners : WF_vars(Deliver(o))) /\ WF_vars(TickStep)

FairSpec == Spec /\ Fairness

-----------------------------------------------------------------------------
OwnersOK ==
  /\ api   \in [Owners -> Objects \cup {Absent}]
  /\ watch \in [Owners -> Seq(Objects \cup {Absent})]
  /\ cache \in [Owners -> Objects \cup {Absent}]

WorldOK ==
  /\ pods   \in [Pods -> Phases \cup {Absent}]
  /\ cost   \in [Pods -> Rates \cup {Absent}]
  /\ tokens \in [Pods -> TokenRates \cup {Absent}]
  /\ prom   \in {"up", "down", "hung"}
  /\ changes \in 0..MaxChanges

Workers == [pc: Stages, todo: SUBSET Pods, loading: SUBSET Pods,
            pod: Pods \cup {Absent}, owner: Owners \cup {Absent},
            base: Objects \cup {Absent}, perHour: Rates \cup {Absent},
            perToken: TokenRates \cup {Absent},
            listed: [Owners -> Objects \cup {Absent}]]

(* Every stage has what it works on.                                       *)
WorkerOK ==
  /\ worker \in Workers
  /\ worker.pc \in {"cost", "remove", "token", "write", "total"}
       => worker.pod # Absent /\ worker.owner # Absent /\ worker.base # Absent
  /\ worker.pc \in {"token", "write", "total"} => worker.perHour # Absent
  /\ worker.pc = "zero" => worker.owner # Absent /\ worker.listed[worker.owner] # Absent

TypeOK == OwnersOK /\ WorldOK /\ WorkerOK

(* Readers of the deprecated key and of its successor never see different  *)
(* rates, although patches leave out what a stale base already had.        *)
DualKeysAgree ==
  \A o \in Owners : api[o] # Absent => api[o].anns.old = api[o].anns.perReplica

(* What a job cost is written once: neither a later tick, nor another pod  *)
(* of the job, a retry or a restart changes or removes it.                 *)
JobTotalIsFinal ==
  [][\A o \in Owners :
       api[o] # Absent /\ api'[o] # Absent /\ api[o].anns.job # Absent
         => api'[o].anns.job = api[o].anns.job]_vars

-----------------------------------------------------------------------------
(* What annotations settle to.                                             *)

PodsOf(o) ==
  {p \in Pods : pods[p] # Absent /\ GPUs[p] > 0 /\ o \in Targets(p, api)}

Priced(o) == {p \in PodsOf(o) : cost[p] # Absent}

(* An InferenceService scaled to zero.                                     *)
Idled(o) == /\ KindOf[o] = "kserve"
            /\ PredictorReadyReplicas(api[o].world) = {0}
            /\ ~HasActivePods(o)

Quoted(o) ==
  LET anns     == api[o].anns
      job      == api[o].world.job
      replicas == ReplicasFromTarget(KindOf[o], api[o].world)
  IN /\ anns.perReplica \in {cost[p] : p \in PodsOf(o)}
     /\ (\A p, q \in PodsOf(o) : cost[p] = cost[q]) /\ replicas > 0
          => anns.total = anns.perReplica * replicas
     /\ anns.gpus \in {GPUs[p] : p \in PodsOf(o)}
     /\ anns.token \in {IF IsPodLoading(pods[p]) THEN Absent ELSE tokens[p] : p \in PodsOf(o)}
     /\ KindOf[o] = "kubeflow-trainer" /\ Terminal(job.conditions)
        /\ TrainJobDuration(job) > 0 => anns.job # Absent

(* An owner whose pods all have a price carries the price of one of them,  *)
(* the fleet's price if they agree and, once its job is over, the total;   *)
(* one whose pods have none carries none; an idle InferenceService zero.   *)
Settled(o) ==
  api[o] # Absent =>
    /\ ~Idled(o) /\ PodsOf(o) # {} /\ Priced(o) = PodsOf(o) => Quoted(o)
    /\ ~Idled(o) /\ PodsOf(o) # {} /\ Priced(o) = {}
         => api[o].anns = Removed(api[o].anns)
    /\ Idled(o) /\ PodsOf(o) = {}
         => api[o].anns.perReplica = 0 /\ api[o].anns.token = Absent

(* What a visit of pod p finds now.                                        *)
RateOf(o, p) ==
  [perHour  |-> cost[p],
   perToken |-> IF IsPodLoading(pods[p]) THEN Absent ELSE tokens[p],
   gpus     |-> GPUs[p],
   replicas |-> ReplicasFromTarget(KindOf[o], api[o].world)]

(* Nothing is left to write: each visit would find what it is to write.    *)
AtRest(o) ==
  /\ \A p \in PodsOf(o) :
       IF cost[p] = Absent THEN Removed(api[o].anns) = api[o].anns
       ELSE /\ Written(api[o].anns, RateOf(o, p)) = api[o].anns
            /\ KindOf[o] = "kubeflow-trainer" => TotalJobCost(api[o], cost[p]) = api[o].anns
  /\ Idled(o) => Zeroed(o, api[o].anns) = api[o].anns

(* The cache, the events under way and the tick know the owner and its     *)
(* pods as they are, except perhaps the annotations: a typed owner may be  *)
(* read as it was before the patcher's own last writes.                    *)
SameWorld(version, o) == version # Absent /\ version.world = api[o].world

CacheKnows(o) ==
  Typed(o) => SameWorld(cache[o], o) /\ \A i \in DOMAIN watch[o] : SameWorld(watch[o][i], o)

ListsKnow(o) ==
  /\ \A p \in worker.todo :
       o \in Targets(p, api) =>
         p \in PodsOf(o) /\ (p \in worker.loading <=> IsPodLoading(pods[p]))
  /\ worker.listed[o] # Absent => worker.listed[o] = api[o] /\ KindOf[o] = "kserve"

Visiting(o) == worker.pc \in {"cost", "remove", "token", "write", "total"} /\ worker.owner = o

VisitKnows(o) ==
  LET p == worker.pod
  IN /\ SameWorld(worker.base, o) /\ (Typed(o) \/ worker.base = api[o])
     /\ p \in PodsOf(o)
     /\ p \in worker.loading <=> IsPodLoading(pods[p])
     /\ worker.pc = "remove" => cost[p] = Absent
     /\ worker.pc = "token" => p \notin worker.loading
     /\ worker.pc \in {"token", "write", "total"} => worker.perHour = cost[p]
     /\ worker.perToken = IF worker.pc \in {"write", "total"} /\ p \notin worker.loading
                          THEN tokens[p] ELSE Absent
     /\ worker.pc = "total" => /\ KindOf[o] = "kubeflow-trainer"
                               /\ Written(worker.base.anns, RateOf(o, p)) = worker.base.anns

Knows(o) ==
  /\ CacheKnows(o) /\ ListsKnow(o)
  /\ Visiting(o) => VisitKnows(o)
  /\ worker.pc = "zero" /\ worker.owner = o => Idled(o)

(* No older annotations are cached, under way or in the worker's hands.    *)
CacheUpToDate(o) ==
  Typed(o) => cache[o] = api[o] /\ \A i \in DOMAIN watch[o] : watch[o][i] = api[o]

UpToDate(o) == CacheUpToDate(o) /\ (Visiting(o) => worker.base = api[o])

Steady(o) == api[o] # Absent /\ AtRest(o) /\ Knows(o) /\ UpToDate(o)

(* Nothing changes that the annotations of the owner depend on.            *)
Undisturbed(o) ==
  /\ api'[o] # Absent /\ api'[o].world = api[o].world
  /\ \A p \in Pods : o \in Targets(p, api) => UNCHANGED <<pods[p], cost[p], tokens[p]>>
  /\ \A p \in Pods : Labels[p].isvc = o => UNCHANGED pods[p]

(* An owner whose annotations say what its pods do is left alone: ticks,   *)
(* failed calls and queries, restarts and what becomes of other owners do  *)
(* not change them, or what the patcher knows, while its own pods and      *)
(* their prices stay.                                                      *)
SteadyOwnersAreLeftAlone ==
  [][\A o \in Owners :
       Steady(o) /\ Undisturbed(o) => Steady(o)' /\ api'[o] = api[o]]_vars

(* Pods that do not contradict each other, or the owner loop.              *)
Agreed(o) ==
  /\ \A p, q \in PodsOf(o) :
       /\ cost[p] = cost[q] /\ GPUs[p] = GPUs[q]
       /\ RateOf(o, p).perToken = RateOf(o, q).perToken
  /\ Idled(o) => PodsOf(o) = {}

(* The next visit to its end will write the right annotations, or they are *)
(* there and none will undo them.                                          *)
OnTrack(o) ==
  /\ api[o] # Absent /\ Knows(o)
  /\ AtRest(o) \/ (UpToDate(o) /\ Agreed(o))

(* The step that ends a visit, of one of the owner's pods or of its own.   *)
Visited(o) ==
  /\ worker.owner = o
  /\ \/ RemoveCost \/ WriteJobTotal \/ WriteZero
     \/ WriteCost /\ KindOf[o] # "kubeflow-trainer"

(* One visit is enough: an owner the patcher knows, with pods that agree,  *)
(* is at rest after the first visit that reaches its end, and later ones   *)
(* do not take that back, although they may set out from the annotations   *)
(* before it.                                                              *)
OneVisitSettles ==
  [][\A o \in Owners :
       OnTrack(o) /\ Undisturbed(o)
         => /\ OnTrack(o)'
            /\ Visited(o) => AtRest(o)'
            /\ AtRest(o) => AtRest(o)' /\ api'[o] = api[o]]_vars

(* The steps a tick may still take: five for each pod it has to visit, two *)
(* for each owner, and its own.                                            *)
StepsAhead(w) ==
  LET owners == 2 * Cardinality({o \in Owners : w.listed[o] # Absent})
      visit  == [pods |-> 0, cost |-> 4, token |-> 3, write |-> 2, total |-> 1, remove |-> 1]
  IN CASE w.pc = "idle"   -> 0
       [] w.pc = "owners" -> owners + 1
       [] w.pc = "zero"   -> owners
       [] OTHER -> visit[w.pc] + 5 * Cardinality(w.todo) + 2 * Cardinality(Owners) + 2

(* No tick goes round in circles, whatever pods, owners and prices do      *)
(* meanwhile: each of its steps leaves fewer to come, and what is no step  *)
(* of it breaks it off or leaves it where it is.  So a tick that does not  *)
(* end waits for an answer of Prometheus.                                  *)
TicksAreFinite ==
  [][worker.pc # "idle" =>
       \/ StepsAhead(worker') \in 0..(StepsAhead(worker) - 1)
       \/ worker' = worker /\ ~TickStep]_vars

(* Annotations settle once the cluster stands still and Prometheus         *)
(* answers, after any failed queries, failed writes, restarts, and patches *)
(* computed from stale objects; where pods agree, for good.                *)
AnnotationsSettle ==
  <>[](prom = "up") =>
    <>[](\A o \in Owners :
           Settled(o) /\ (api[o] # Absent /\ Agreed(o) => Steady(o)))

-----------------------------------------------------------------------------
(* What documents and comments say and the code does not do.               *)

(* platform/patch.go: annotations are cleared "when Prometheus returns no  *)
(* series for a previously-annotated owner".  An owner of which some pod   *)
(* has a series would keep its annotations.                                *)
PricedOwnersStayAnnotated ==
  <>[](prom = "up") =>
    <>[](\A o \in Owners :
           api[o] # Absent /\ Priced(o) # {} => api[o].anns.perReplica # Absent)
=============================================================================
