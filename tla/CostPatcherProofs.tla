------------------------- MODULE CostPatcherProofs -------------------------
(***************************************************************************)
(* Proofs about the cost patcher, for every set of owners and pods, every  *)
(* price, any lag of the cache and any number of changes: types, the       *)
(* agreement of the two keys of the rate, the finality of job totals, and  *)
(* that one visit settles an owner, which is left alone from then on.      *)
(***************************************************************************)
EXTENDS CostPatcher, FiniteSetTheorems, TLAPS

-----------------------------------------------------------------------------
(* Annotations.                                                            *)

(* An owner starts without annotations.                                    *)
LEMMA NoAnnotationsType == NoAnnotations \in Annotations
BY DEF NoAnnotations, Annotations

(* Replica counts are natural numbers.                                     *)
LEMMA ReplicasType ==
  ASSUME NEW kind, NEW w \in AllWorlds
  PROVE  ReplicasFromTarget(kind, w) \in Nat
<1>1. w.ready \in Nat \cup {Absent} /\ w.running \in Nat \cup {Absent}
      /\ w.wanted \in Nat \cup {Absent}
  BY PatcherAssumption DEF PatcherAssumption
<1> QED
  BY <1>1 DEF ReplicasFromTarget, Positive

(* A result written over well-formed annotations leaves them well-formed,  *)
(* the two keys of the rate equal, and a job's total alone.                *)
LEMMA WrittenType ==
  ASSUME NEW anns \in Annotations, NEW perHour \in Nat,
         NEW perToken \in Nat \cup {Absent}, NEW gpus \in Nat \cup {Absent},
         NEW replicas \in Nat \cup {Absent},
         NEW new, new = Written(anns, [perHour |-> perHour, perToken |-> perToken,
                                       gpus |-> gpus, replicas |-> replicas])
  PROVE  new \in Annotations /\ new.old = new.perReplica /\ new.job = anns.job
<1>1. Positive(replicas) => perHour * replicas \in Nat
  BY DEF Positive
<1>2. DOMAIN anns = Keys
  BY DEF Annotations
<1> QED
  BY <1>1, <1>2 DEF Written, Annotations, Keys

(* So does the removal of all but a job's total.                           *)
LEMMA RemovedType ==
  ASSUME NEW anns \in Annotations
  PROVE  /\ Removed(anns) \in Annotations
         /\ Removed(anns).old = Removed(anns).perReplica
         /\ Removed(anns).job = anns.job
BY DEF Removed, NoAnnotations, Annotations, Keys

(* And the total of a job, which leaves the rate alone.                    *)
LEMMA TotalJobCostType ==
  ASSUME NEW base \in Objects, NEW perHour \in Nat
  PROVE  /\ TotalJobCost(base, perHour) \in Annotations
         /\ TotalJobCost(base, perHour).old = base.anns.old
         /\ TotalJobCost(base, perHour).perReplica = base.anns.perReplica
         /\ base.anns.job # Absent => TotalJobCost(base, perHour).job = base.anns.job
<1>1. base.anns \in Annotations /\ TrainJobDuration(base.world.job) \in Nat
  BY PatcherAssumption DEF PatcherAssumption, Objects
<1>2. perHour * TrainJobDuration(base.world.job) \in Nat
  BY <1>1
<1> HIDE DEF TrainJobDuration
<1> QED
  BY <1>1, <1>2 DEF TotalJobCost, Annotations, Keys

(* A merge patch keeps annotations well-formed.                            *)
LEMMA MergePatchType ==
  ASSUME NEW server \in Annotations, NEW base \in Annotations, NEW new \in Annotations
  PROVE  /\ MergePatch(server, base, new) \in Annotations
         /\ server.old = server.perReplica /\ base.old = base.perReplica
            /\ new.old = new.perReplica
              => MergePatch(server, base, new).old = MergePatch(server, base, new).perReplica
         /\ new.job = base.job => MergePatch(server, base, new).job = server.job
BY DEF MergePatch, Annotations, Keys

-----------------------------------------------------------------------------
(* The server and the cache.                                               *)

(* A version stored is well-formed wherever it shows up.                   *)
LEMMA StoreType ==
  ASSUME OwnersOK, NEW o \in Owners, NEW version \in Objects \cup {Absent},
         Store(o, version)
  PROVE  OwnersOK'
<1>1. Append(watch[o], version) \in Seq(Objects \cup {Absent})
  BY DEF OwnersOK
<1> QED
  BY <1>1 DEF Store, OwnersOK

(* An object under a patch keeps its other fields.                         *)
LEMMA PatchedType ==
  ASSUME OwnersOK, NEW o \in Owners, api[o] # Absent,
         NEW base \in Objects, NEW new \in Annotations
  PROVE  /\ Patched(o, base, new) \in Objects
         /\ Patched(o, base, new).world = api[o].world
         /\ Patched(o, base, new).anns = MergePatch(api[o].anns, base.anns, new)
<1>1. api[o] \in Objects
  BY DEF OwnersOK
<1>2. MergePatch(api[o].anns, base.anns, new) \in Annotations
  BY <1>1, MergePatchType DEF Objects
<1> QED
  BY <1>1, <1>2 DEF Patched, Objects

(* A patch, sent or not, leaves well-formed objects.                       *)
LEMMA PatchType ==
  ASSUME OwnersOK, NEW o \in Owners, NEW base \in Objects, NEW new \in Annotations,
         Patch(o, base, new)
  PROVE  OwnersOK'
<1>1. CASE UNCHANGED ownerVars
  BY <1>1 DEF OwnersOK, ownerVars
<1>2. CASE api[o] # Absent /\ Store(o, Patched(o, base, new))
  BY <1>2, PatchedType, StoreType
<1> QED
  BY <1>1, <1>2 DEF Patch

(* The watch delivers well-formed objects.                                 *)
LEMMA DeliverType == ASSUME OwnersOK, NEW o \in Owners, Deliver(o) PROVE OwnersOK'
<1>1. watch[o] \in Seq(Objects \cup {Absent}) /\ watch[o] # <<>>
  BY DEF OwnersOK, Deliver
<1>2. /\ Head(watch[o]) \in Objects \cup {Absent}
      /\ Tail(watch[o]) \in Seq(Objects \cup {Absent})
  BY <1>1
<1> QED
  BY <1>2 DEF OwnersOK, Deliver

(* So do reads, from the server or from the cache.                         *)
LEMMA ReadType == ASSUME OwnersOK PROVE Read \in [Owners -> Objects \cup {Absent}]
BY DEF OwnersOK, Read

-----------------------------------------------------------------------------
(* The tick.                                                               *)

(* A patcher between ticks.                                                *)
LEMMA IdleType == Idle \in Workers /\ Idle.pc = "idle"
BY DEF Idle, Workers, Stages

(* What an idle InferenceService is given is well-formed; the two keys of  *)
(* the rate agree and a job's total is left alone.                         *)
LEMMA ZeroAnnotationsType ==
  ASSUME worker.owner \in Owners,
         worker.listed[worker.owner].anns \in Annotations
  PROVE  /\ ZeroAnnotations \in Annotations
         /\ ZeroAnnotations.old = ZeroAnnotations.perReplica
         /\ ZeroAnnotations.job = worker.listed[worker.owner].anns.job
<1> DEFINE gpus == GPUCountFromUnstructured(OwnerSpecs[worker.owner])
<1>1. gpus \in Nat
  BY PatcherAssumption DEF PatcherAssumption
<1> HIDE DEF gpus
<1>2. (IF gpus > 0 THEN gpus ELSE Absent) \in Nat \cup {Absent}
  BY <1>1
<1> DEFINE shown == IF gpus > 0 THEN gpus ELSE Absent
<1>3. ZeroAnnotations = Written(worker.listed[worker.owner].anns,
                                [perHour |-> 0, perToken |-> Absent,
                                 gpus |-> shown, replicas |-> Absent])
  BY DEF ZeroAnnotations, Zeroed, gpus
<1>4. shown \in Nat \cup {Absent}
  BY <1>2
<1> HIDE DEF shown
<1> DEFINE anns == worker.listed[worker.owner].anns
<1>5. anns \in Annotations /\ DOMAIN anns = Keys
  BY DEF Annotations
<1> HIDE DEF anns
<1> QED
  BY <1>3, <1>4, <1>5 DEF anns, Written, Positive, Annotations, Keys

(* What the patcher writes is well-formed, at every stage that writes.     *)
LEMMA WriteTypes ==
  ASSUME TypeOK
  PROVE  /\ worker.pc \in {"remove", "write", "total"}
              => worker.owner \in Owners /\ worker.base \in Objects
         /\ worker.pc = "remove" => Removed(worker.base.anns) \in Annotations
         /\ worker.pc = "write" => NewAnnotations \in Annotations
         /\ worker.pc = "total"
              => TotalJobCost(worker.base, worker.perHour) \in Annotations
         /\ worker.pc = "zero"
              => /\ worker.owner \in Owners /\ worker.listed[worker.owner] \in Objects
                 /\ ZeroAnnotations \in Annotations
<1>1. worker.pc \in {"remove", "write", "total"}
        => /\ worker.owner \in Owners /\ worker.base \in Objects /\ worker.pod \in Pods
           /\ worker.base.anns \in Annotations /\ worker.base.world \in AllWorlds
  BY DEF TypeOK, WorkerOK, Workers, Objects
<1>2. worker.pc \in {"write", "total"}
        => worker.perHour \in Nat /\ worker.perToken \in Nat \cup {Absent}
  BY PatcherAssumption DEF TypeOK, WorkerOK, Workers, PatcherAssumption
<1>3. worker.pc = "write" => NewAnnotations \in Annotations
  <2> SUFFICES ASSUME worker.pc = "write" PROVE NewAnnotations \in Annotations
    OBVIOUS
  <2>1. GPUs[worker.pod] \in Nat
    BY <1>1, PatcherAssumption DEF PatcherAssumption
  <2>2. ReplicasFromTarget(KindOf[worker.owner], worker.base.world) \in Nat
    BY <1>1, ReplicasType
  <2> QED
    BY <1>1, <1>2, <2>1, <2>2, WrittenType DEF NewAnnotations
<1>4. worker.pc = "zero"
        => /\ worker.owner \in Owners /\ worker.listed[worker.owner] \in Objects
           /\ worker.listed[worker.owner].anns \in Annotations
  BY DEF TypeOK, WorkerOK, Workers, Objects
<1>5. worker.pc = "zero" => ZeroAnnotations \in Annotations
  BY <1>4, ZeroAnnotationsType
<1> QED
  BY <1>1, <1>2, <1>3, <1>4, <1>5, RemovedType, TotalJobCostType

(* The loops over pods and owners go on with a well-formed worker.         *)
LEMMA NextWorkers ==
  ASSUME TypeOK
  PROVE  /\ NextPod \in Workers /\ NextPod.pc = "pods"
         /\ worker.pc = "zero" => NextOwner \in Workers /\ NextOwner.pc = "owners"
BY IdleType DEF TypeOK, WorkerOK, NextPod, NextOwner, Idle, Workers, Stages

(* Where a stage begins nothing is in hand yet.                            *)
LEMMA LoopWorkerOK ==
  ASSUME worker' \in Workers, worker'.pc \in {"idle", "pods", "owners"}
  PROVE  WorkerOK'
BY DEF WorkerOK

(* Taking up the pods keeps types.                                         *)
LEMMA StartTickType == ASSUME TypeOK, StartTick PROVE WorkerOK'
BY IdleType, LoopWorkerOK DEF StartTick, Idle, Workers, Stages

(* Finding the owner of a pod keeps types.                                 *)
LEMMA ResolveTargetType == ASSUME TypeOK, NEW p \in Pods, ResolveTarget(p) PROVE WorkerOK'
<1>1. PICK o \in Targets(p, Read) :
        worker' = [NextPod EXCEPT !.pc = "cost", !.todo = @ \ {p}, !.pod = p,
                                  !.owner = o, !.base = Read[o]]
  BY DEF ResolveTarget
<1>2. o \in Owners /\ Read[o] \in Objects
  BY <1>1, ReadType DEF Targets, RayServices, NamedOwners, TypeOK
<1>3. /\ worker' \in Workers
      /\ worker'.pc = "cost" /\ worker'.pod = p /\ worker'.owner = o /\ worker'.base = Read[o]
  BY <1>1, <1>2, NextWorkers DEF Workers, Stages
<1> QED
  BY <1>2, <1>3, PatcherAssumption DEF WorkerOK, PatcherAssumption

(* Passing over a pod keeps types.                                         *)
LEMMA SkipPodType ==
  ASSUME TypeOK, NEW p, worker.pc = "pods",
         worker' = [worker EXCEPT !.todo = @ \ {p}]
  PROVE  WorkerOK'
<1>1. worker' \in Workers /\ worker'.pc = "pods"
  BY DEF TypeOK, WorkerOK, Workers
<1> QED
  BY <1>1, LoopWorkerOK

(* The query of a pod's price keeps types.                                 *)
LEMMA QueryCostType == ASSUME TypeOK, QueryCost PROVE WorkerOK'
<1>1. CASE prom = "down"
  BY <1>1, IdleType, LoopWorkerOK DEF QueryCost
<1>2. worker \in Workers /\ worker.pod \in Pods /\ worker.owner # Absent /\ worker.base # Absent
  BY DEF QueryCost, TypeOK, WorkerOK, Workers
<1>3. CASE prom # "down" /\ cost[worker.pod] = Absent
  BY <1>2, <1>3, PatcherAssumption DEF QueryCost, WorkerOK, Workers, Stages, PatcherAssumption
<1>4. CASE prom # "down" /\ cost[worker.pod] # Absent
  <2>1. cost[worker.pod] \in Rates
    BY <1>2, <1>4 DEF TypeOK, WorldOK
  <2> QED
    BY <1>2, <1>4, <2>1, PatcherAssumption
    DEF QueryCost, WorkerOK, Workers, Stages, PatcherAssumption
<1> QED
  BY <1>1, <1>3, <1>4

(* The query of its token price keeps types.                               *)
LEMMA QueryTokenType == ASSUME TypeOK, QueryToken PROVE WorkerOK'
<1>1. CASE prom = "down"
  BY <1>1, IdleType, LoopWorkerOK DEF QueryToken
<1>2. CASE prom # "down"
  <2>1. /\ worker \in Workers /\ worker.pod \in Pods /\ worker.owner # Absent
        /\ worker.base # Absent /\ worker.perHour # Absent
    BY DEF QueryToken, TypeOK, WorkerOK, Workers
  <2>2. tokens[worker.pod] \in TokenRates \cup {Absent}
    BY <2>1 DEF TypeOK, WorldOK
  <2>3. worker' = [worker EXCEPT !.pc = "write", !.perToken = tokens[worker.pod]]
    BY <1>2 DEF QueryToken
  <2>4. /\ worker' \in Workers /\ worker'.pc = "write"
        /\ worker'.pod = worker.pod /\ worker'.owner = worker.owner
        /\ worker'.base = worker.base /\ worker'.perHour = worker.perHour
    BY <2>1, <2>2, <2>3 DEF Workers, Stages
  <2> QED
    BY <2>1, <2>4, PatcherAssumption DEF WorkerOK, PatcherAssumption
<1> QED
  BY <1>1, <1>2

(* Writing a pod's price keeps types: the object a job's total is based on *)
(* is the one read, or the one the patch was applied to.                   *)
LEMMA WriteCostType == ASSUME TypeOK, WriteCost PROVE OwnersOK' /\ WorkerOK'
<1>1. /\ worker \in Workers /\ worker.pc = "write"
      /\ worker.owner \in Owners /\ worker.base \in Objects
      /\ worker.pod # Absent /\ worker.perHour # Absent
  BY WriteTypes DEF WriteCost, TypeOK, WorkerOK
<1>2. NewAnnotations \in Annotations /\ Patch(worker.owner, worker.base, NewAnnotations)
  BY WriteTypes DEF WriteCost
<1>3. OwnersOK'
  BY <1>1, <1>2, PatchType DEF TypeOK
<1>4. CASE KindOf[worker.owner] # "kubeflow-trainer"
  BY <1>3, <1>4, NextWorkers, LoopWorkerOK DEF WriteCost
<1>5. CASE KindOf[worker.owner] = "kubeflow-trainer"
  <2> DEFINE base == IF NewAnnotations = worker.base.anns THEN worker.base
                     ELSE api'[worker.owner]
  <2>1. NewAnnotations # worker.base.anns => api'[worker.owner] \in Objects
    <3> SUFFICES ASSUME NewAnnotations # worker.base.anns
                 PROVE  api'[worker.owner] \in Objects
      OBVIOUS
    <3>1. /\ api[worker.owner] # Absent
          /\ Store(worker.owner, Patched(worker.owner, worker.base, NewAnnotations))
      BY <1>2 DEF Patch
    <3> QED
      BY <1>1, <1>2, <3>1, PatchedType DEF Store, TypeOK, OwnersOK
  <2>2. base \in Objects
    BY <1>1, <2>1
  <2>3. worker' = [worker EXCEPT !.pc = "total", !.base = base]
    BY <1>1, <1>5 DEF WriteCost, Workers
  <2> HIDE DEF base
  <2> QED
    BY <1>1, <1>3, <2>2, <2>3, PatcherAssumption
    DEF WorkerOK, Workers, Stages, PatcherAssumption
<1> QED
  BY <1>4, <1>5, <1>3

(* Reading the owners, and looking for pods of one of them, keep types.    *)
LEMMA OwnerLoopType ==
  ASSUME TypeOK, ListOwners \/ EndTick \/ \E o \in Owners : CheckOwner(o)
  PROVE  WorkerOK'
<1>1. CASE ListOwners
  <2>1. worker' \in Workers /\ worker'.pc = "owners"
    BY <1>1, IdleType DEF ListOwners, Idle, Workers, Stages, TypeOK, OwnersOK
  <2> QED
    BY <2>1, LoopWorkerOK
<1>2. CASE EndTick
  BY <1>2, IdleType, LoopWorkerOK DEF EndTick
<1>3. ASSUME NEW o \in Owners, CheckOwner(o) PROVE WorkerOK'
  <2>1. worker \in Workers /\ worker.pc = "owners" /\ worker.listed[o] # Absent
    BY <1>3 DEF CheckOwner, TypeOK, WorkerOK
  <2>2. CASE worker' = [worker EXCEPT !.pc = "zero", !.owner = o]
    <3>1. /\ worker' \in Workers /\ worker'.pc = "zero" /\ worker'.owner = o
          /\ worker'.listed = worker.listed
      BY <2>1, <2>2 DEF Workers, Stages
    <3> QED
      BY <2>1, <3>1, PatcherAssumption DEF WorkerOK, PatcherAssumption
  <2>3. CASE worker' = [worker EXCEPT !.listed[o] = Absent]
    <3>1. worker' \in Workers /\ worker'.pc = "owners"
      BY <2>1, <2>3 DEF Workers, Stages
    <3> QED
      BY <3>1, LoopWorkerOK
  <2> QED
    BY <1>3, <2>2, <2>3 DEF CheckOwner
<1> QED
  BY <1>1, <1>2, <1>3

(* The writes after which a loop goes on.                                  *)
Writes ==
  \/ worker.pc = "remove" /\ Patch(worker.owner, worker.base, Removed(worker.base.anns))
  \/ worker.pc = "write" /\ Patch(worker.owner, worker.base, NewAnnotations)
  \/ worker.pc = "total"
     /\ Patch(worker.owner, worker.base, TotalJobCost(worker.base, worker.perHour))
  \/ worker.pc = "zero"
     /\ Patch(worker.owner, worker.listed[worker.owner], ZeroAnnotations)

(* They keep the objects well-formed.                                      *)
LEMMA WritesType == ASSUME TypeOK, Writes PROVE OwnersOK'
BY WriteTypes, PatchType DEF Writes, TypeOK

(* A step that leaves pods, prices and Prometheus alone.                   *)
LEMMA SameWorldType == ASSUME TypeOK, UNCHANGED <<worldVars, changes>> PROVE WorldOK'
BY DEF TypeOK, WorldOK, worldVars

(* A step that leaves the owners alone.                                    *)
LEMMA SameOwnersType == ASSUME TypeOK, UNCHANGED ownerVars PROVE OwnersOK'
BY DEF TypeOK, OwnersOK, ownerVars

(* Every step of a tick keeps types.                                       *)
LEMMA TickStepType == ASSUME TypeOK, TickStep PROVE TypeOK'
<1>1. UNCHANGED <<worldVars, changes>>
  BY DEF TickStep, StartTick, QueryCost, QueryToken, RemoveCost, WriteCost, WriteJobTotal,
         WriteRefused, ListOwners, WriteZero, ZeroRefused, EndTick, ResolveTarget, SkipPod,
         CheckOwner
<1>2. WorldOK'
  BY <1>1, SameWorldType
<1>3. CASE StartTick
  BY <1>2, <1>3, StartTickType, SameOwnersType DEF StartTick, TypeOK
<1>4. CASE QueryCost
  BY <1>2, <1>4, QueryCostType, SameOwnersType DEF QueryCost, TypeOK
<1>5. CASE QueryToken
  BY <1>2, <1>5, QueryTokenType, SameOwnersType DEF QueryToken, TypeOK
<1>6. CASE RemoveCost \/ WriteJobTotal
  BY <1>2, <1>6, WritesType, NextWorkers, LoopWorkerOK
  DEF RemoveCost, WriteJobTotal, Writes, TypeOK
<1>7. CASE WriteCost
  BY <1>2, <1>7, WriteCostType DEF TypeOK
<1>8. CASE WriteRefused
  BY <1>2, <1>8, NextWorkers, LoopWorkerOK, SameOwnersType DEF WriteRefused, TypeOK
<1>9. CASE ListOwners \/ EndTick
  BY <1>2, <1>9, OwnerLoopType, SameOwnersType DEF ListOwners, EndTick, TypeOK
<1>10. CASE WriteZero
  BY <1>2, <1>10, WritesType, NextWorkers, LoopWorkerOK DEF WriteZero, Writes, TypeOK
<1>11. CASE ZeroRefused
  BY <1>2, <1>11, IdleType, LoopWorkerOK, SameOwnersType DEF ZeroRefused, TypeOK
<1>12. ASSUME NEW p \in Pods, ResolveTarget(p) PROVE TypeOK'
  BY <1>2, <1>12, ResolveTargetType, SameOwnersType DEF ResolveTarget, TypeOK
<1>13. ASSUME NEW p \in Pods, SkipPod(p) PROVE TypeOK'
  BY <1>2, <1>13, SkipPodType, SameOwnersType DEF SkipPod, TypeOK
<1>14. ASSUME NEW o \in Owners, CheckOwner(o) PROVE TypeOK'
  BY <1>2, <1>14, OwnerLoopType, SameOwnersType DEF CheckOwner, TypeOK
<1> QED
  BY <1>3, <1>4, <1>5, <1>6, <1>7, <1>8, <1>9, <1>10, <1>11, <1>12, <1>13, <1>14 DEF TickStep

(* The number of changes stays within its bound.                           *)
LEMMA ChangeType == ASSUME TypeOK, Change PROVE changes' \in 0..MaxChanges
BY PatcherAssumption DEF TypeOK, WorldOK, Change, PatcherAssumption

(* So does every step of users and cluster.                                *)
LEMMA OwnerChangeType ==
  ASSUME TypeOK, NEW o \in Owners,
         DeleteOwner(o) \/ \E w \in Worlds[o] : ChangeOwner(o, w)
  PROVE  TypeOK'
<1>1. PICK version \in Objects \cup {Absent} : Store(o, version)
  <2>1. CASE DeleteOwner(o)
    BY <2>1 DEF DeleteOwner
  <2>2. ASSUME NEW w \in Worlds[o], ChangeOwner(o, w)
        PROVE  \E version \in Objects \cup {Absent} : Store(o, version)
    <3>1. w \in AllWorlds
      BY DEF AllWorlds
    <3>2. [world |-> w, anns |-> NoAnnotations] \in Objects
      BY <3>1, NoAnnotationsType DEF Objects
    <3>3. api[o] # Absent => [api[o] EXCEPT !.world = w] \in Objects
      BY <3>1 DEF TypeOK, OwnersOK, Objects
    <3> QED
      BY <2>2, <3>2, <3>3 DEF ChangeOwner
  <2> QED
    BY <2>1, <2>2
<1>2. OwnersOK'
  BY <1>1, StoreType DEF TypeOK
<1>3. UNCHANGED <<worldVars, worker>> /\ Change
  BY DEF DeleteOwner, ChangeOwner
<1> QED
  BY <1>2, <1>3, ChangeType DEF TypeOK, WorldOK, WorkerOK, worldVars

(* A failed call of the API server keeps types, whether or not the write   *)
(* it carried took effect.                                                 *)
LEMMA ApiFailsType == ASSUME TypeOK, ApiFails PROVE TypeOK'
<1>1. WorldOK'
  BY ChangeType DEF ApiFails, TypeOK, WorldOK, worldVars
<1>2. UNCHANGED ownerVars \/ Writes
  BY DEF ApiFails, Writes
<1>3. OwnersOK'
  BY <1>2, WritesType, SameOwnersType
<1>4. WorkerOK'
  <2>1. CASE worker' = Idle
    BY <2>1, IdleType, LoopWorkerOK
  <2>2. CASE worker' = NextPod
    BY <2>2, NextWorkers, LoopWorkerOK
  <2>3. CASE worker.pc = "pods" /\ \E p \in worker.todo : worker' = [worker EXCEPT !.todo = @ \ {p}]
    BY <2>3, SkipPodType
  <2> QED
    BY <2>1, <2>2, <2>3 DEF ApiFails
<1> QED
  BY <1>1, <1>3, <1>4 DEF TypeOK

(* Every step of the environment keeps types.                              *)
LEMMA EnvironmentType == ASSUME TypeOK, Environment PROVE TypeOK'
<1>1. CASE \E p \in Pods : \/ \E s \in Phases \cup {Absent} : ChangePod(p, s)
                          \/ \E r \in Rates \cup {Absent} : ChangeCost(p, r)
                          \/ \E t \in TokenRates \cup {Absent} : ChangeTokens(p, t)
  <2>1. /\ pods' \in [Pods -> Phases \cup {Absent}]
        /\ cost' \in [Pods -> Rates \cup {Absent}]
        /\ tokens' \in [Pods -> TokenRates \cup {Absent}]
    BY <1>1 DEF ChangePod, ChangeCost, ChangeTokens, TypeOK, WorldOK
  <2>2. Change /\ UNCHANGED <<ownerVars, prom, worker>>
    BY <1>1 DEF ChangePod, ChangeCost, ChangeTokens
  <2> QED
    BY <2>1, <2>2, ChangeType DEF TypeOK, OwnersOK, WorldOK, WorkerOK, ownerVars
<1>2. CASE \E s \in {"up", "down", "hung"} : ChangeProm(s)
  BY <1>2, ChangeType DEF ChangeProm, TypeOK, OwnersOK, WorldOK, WorkerOK, ownerVars
<1>3. CASE Restart
  <2>1. WorldOK' /\ WorkerOK'
    BY <1>3, ChangeType, IdleType, LoopWorkerOK DEF Restart, TypeOK, WorldOK, worldVars
  <2>2. OwnersOK'
    BY <1>3 DEF Restart, TypeOK, OwnersOK
  <2> QED
    BY <2>1, <2>2 DEF TypeOK
<1> QED
  BY <1>1, <1>2, <1>3, OwnerChangeType, ApiFailsType DEF Environment

(* The patcher starts well-typed.                                          *)
LEMMA InitType == Init => TypeOK
<1> SUFFICES ASSUME Init PROVE TypeOK
  OBVIOUS
<1>1. PICK start \in Starts :
        /\ api = [o \in Owners |-> [world |-> start.worlds[o], anns |-> NoAnnotations]]
        /\ pods = start.pods /\ cost = start.cost /\ tokens = start.tokens
  BY DEF Init
<1>2. /\ start.worlds \in [Owners -> AllWorlds]
      /\ start.pods \in [Pods -> Phases \cup {Absent}]
      /\ start.cost \in [Pods -> Rates \cup {Absent}]
      /\ start.tokens \in [Pods -> TokenRates \cup {Absent}]
  BY PatcherAssumption DEF PatcherAssumption
<1>3. api \in [Owners -> Objects]
  BY <1>1, <1>2, NoAnnotationsType DEF Objects
<1>4. OwnersOK
  BY <1>3 DEF Init, OwnersOK
<1>5. WorldOK
  BY <1>1, <1>2, PatcherAssumption DEF Init, WorldOK, PatcherAssumption
<1>6. WorkerOK
  BY IdleType DEF Init, WorkerOK
<1> QED
  BY <1>4, <1>5, <1>6 DEF TypeOK

(* Every step keeps types.                                                 *)
LEMMA NextType == TypeOK /\ [Next]_vars => TypeOK'
<1> SUFFICES ASSUME TypeOK, [Next]_vars PROVE TypeOK'
  OBVIOUS
<1>1. CASE UNCHANGED vars
  BY <1>1 DEF vars, ownerVars, worldVars, TypeOK, OwnersOK, WorldOK, WorkerOK
<1>2. ASSUME NEW o \in Owners, Deliver(o) PROVE TypeOK'
  BY <1>2, DeliverType DEF Deliver, TypeOK, WorldOK, WorkerOK, worldVars
<1> QED
  BY <1>1, <1>2, TickStepType, EnvironmentType DEF Next

(* Every variable keeps its type, and every stage of the tick has in hand  *)
(* what it works on, whatever fails or changes in between.                 *)
THEOREM PatcherTypeCorrect == Spec => []TypeOK
BY InitType, NextType, PTL DEF Spec
-----------------------------------------------------------------------------
(* The two keys of the rate.                                               *)

(* The objects of which the keys agree, and the claim that there are no    *)
(* others: not on the server, not on their way to the cache or in it, and  *)
(* not in the hands of the worker, who computes its patches from them.     *)
AgreeingObjects == {v \in Objects : v.anns.old = v.anns.perReplica}

OwnersAgree ==
  /\ api   \in [Owners -> AgreeingObjects \cup {Absent}]
  /\ watch \in [Owners -> Seq(AgreeingObjects \cup {Absent})]
  /\ cache \in [Owners -> AgreeingObjects \cup {Absent}]

WorkerAgrees ==
  /\ worker.base \in AgreeingObjects \cup {Absent}
  /\ worker.listed \in [Owners -> AgreeingObjects \cup {Absent}]

KeysInv == OwnersAgree /\ WorkerAgrees

(* A version stored agrees wherever it shows up.                           *)
LEMMA StoreAgrees ==
  ASSUME OwnersAgree, NEW o \in Owners, NEW version \in AgreeingObjects \cup {Absent},
         Store(o, version)
  PROVE  OwnersAgree'
<1>1. Append(watch[o], version) \in Seq(AgreeingObjects \cup {Absent})
  BY DEF OwnersAgree
<1> QED
  BY <1>1 DEF Store, OwnersAgree

(* A patch from an agreeing base to agreeing annotations, applied to an    *)
(* agreeing object, leaves an agreeing object: it names both keys, or none.*)
LEMMA PatchAgrees ==
  ASSUME OwnersOK, OwnersAgree, NEW o \in Owners, NEW base \in AgreeingObjects,
         NEW new \in Annotations, new.old = new.perReplica, Patch(o, base, new)
  PROVE  OwnersAgree'
<1>1. CASE UNCHANGED ownerVars
  BY <1>1 DEF OwnersAgree, ownerVars
<1>2. CASE api[o] # Absent /\ Store(o, Patched(o, base, new))
  <2>1. api[o] \in Objects /\ api[o].anns \in Annotations
        /\ api[o].anns.old = api[o].anns.perReplica
    BY <1>2 DEF OwnersAgree, AgreeingObjects, Objects
  <2>2. base \in Objects /\ base.anns \in Annotations /\ base.anns.old = base.anns.perReplica
    BY DEF AgreeingObjects, Objects
  <2>3. MergePatch(api[o].anns, base.anns, new).old
          = MergePatch(api[o].anns, base.anns, new).perReplica
    BY <2>1, <2>2, MergePatchType
  <2>4. Patched(o, base, new) \in AgreeingObjects
    BY <1>2, <2>2, <2>3, PatchedType DEF AgreeingObjects
  <2> QED
    BY <1>2, <2>4, StoreAgrees
<1> QED
  BY <1>1, <1>2 DEF Patch

(* What the patcher writes agrees, at every stage that writes.             *)
LEMMA WritesAgree ==
  ASSUME TypeOK, KeysInv, Writes
  PROVE  OwnersAgree'
<1>1. OwnersOK /\ OwnersAgree
  BY DEF KeysInv, TypeOK
<1>2. worker.pc \in {"remove", "write", "total"}
        => /\ worker.owner \in Owners /\ worker.base \in AgreeingObjects
           /\ worker.base \in Objects /\ worker.base.anns \in Annotations
  BY WriteTypes, PatcherAssumption
  DEF KeysInv, WorkerAgrees, AgreeingObjects, PatcherAssumption, Objects
<1>3. CASE worker.pc = "remove"
  BY <1>1, <1>2, <1>3, RemovedType, PatchAgrees DEF Writes
<1>4. worker.pc \in {"write", "total"}
        => worker.perHour \in Nat /\ worker.perToken \in Nat \cup {Absent}
  BY PatcherAssumption DEF TypeOK, WorkerOK, Workers, PatcherAssumption
<1>5. CASE worker.pc = "write"
  <2>1. worker.pod \in Pods /\ worker.base.world \in AllWorlds
    BY <1>2, <1>5 DEF TypeOK, WorkerOK, Workers, Objects
  <2>2. GPUs[worker.pod] \in Nat
    BY <2>1, PatcherAssumption DEF PatcherAssumption
  <2>3. ReplicasFromTarget(KindOf[worker.owner], worker.base.world) \in Nat
    BY <2>1, ReplicasType
  <2>4. NewAnnotations \in Annotations /\ NewAnnotations.old = NewAnnotations.perReplica
    BY <1>2, <1>4, <1>5, <2>2, <2>3, WrittenType DEF NewAnnotations
  <2> QED
    BY <1>1, <1>2, <1>5, <2>4, PatchAgrees DEF Writes
<1>6. CASE worker.pc = "total"
  <2>1. worker.base.anns.old = worker.base.anns.perReplica
    BY <1>2, <1>6 DEF AgreeingObjects
  <2> QED
    BY <1>1, <1>2, <1>4, <1>6, <2>1, TotalJobCostType, PatchAgrees DEF Writes
<1>7. CASE worker.pc = "zero"
  <2>1. /\ worker.owner \in Owners /\ worker.listed[worker.owner] \in AgreeingObjects
        /\ worker.listed[worker.owner].anns \in Annotations
    BY <1>7, WriteTypes, PatcherAssumption
    DEF KeysInv, WorkerAgrees, PatcherAssumption, Objects, AgreeingObjects
  <2>2. ZeroAnnotations \in Annotations /\ ZeroAnnotations.old = ZeroAnnotations.perReplica
    BY <1>7, <2>1, ZeroAnnotationsType
  <2> QED
    BY <1>1, <1>7, <2>1, <2>2, PatchAgrees DEF Writes
<1> QED
  BY <1>3, <1>5, <1>6, <1>7 DEF Writes

(* An idle patcher holds nothing.                                          *)
LEMMA IdleAgrees == ASSUME worker' = Idle \/ worker' = NextPod PROVE WorkerAgrees'
<1>1. Idle.base = Absent /\ Idle.listed = [o \in Owners |-> Absent]
  BY DEF Idle
<1>2. NextPod.base = Idle.base /\ NextPod.listed = Idle.listed
  BY IdleType DEF NextPod, Workers
<1>3. worker'.base = Absent /\ worker'.listed = [o \in Owners |-> Absent]
  BY <1>1, <1>2
<1> QED
  BY <1>3 DEF WorkerAgrees

(* The worker's objects keep agreeing: it reads agreeing ones, and the     *)
(* object a job's total is based on is the one read or the one stored.     *)
LEMMA TickStepAgrees == ASSUME TypeOK, KeysInv, TickStep PROVE KeysInv'
<1>1. worker \in Workers /\ OwnersAgree /\ WorkerAgrees
  BY DEF TypeOK, WorkerOK, KeysInv
<1>2. UNCHANGED ownerVars => OwnersAgree'
  BY <1>1 DEF OwnersAgree, ownerVars
<1>3. Writes => OwnersAgree'
  BY WritesAgree
<1>4. CASE StartTick \/ EndTick \/ ZeroRefused \/ WriteRefused \/ RemoveCost \/ WriteJobTotal
  <2>1. WorkerAgrees'
    <3>1. CASE StartTick
      BY <3>1 DEF StartTick, Idle, WorkerAgrees
    <3> QED
      BY <1>4, <3>1, IdleAgrees DEF EndTick, ZeroRefused, WriteRefused, RemoveCost, WriteJobTotal
  <2>2. UNCHANGED ownerVars \/ Writes
    BY <1>4 DEF StartTick, EndTick, ZeroRefused, WriteRefused, RemoveCost, WriteJobTotal, Writes
  <2> QED
    BY <1>2, <1>3, <2>1, <2>2 DEF KeysInv
<1>5. CASE QueryCost \/ QueryToken \/ \E p \in Pods : SkipPod(p)
  <2>1. \/ worker' = Idle
        \/ worker'.base = worker.base /\ worker'.listed = worker.listed
    BY <1>1, <1>5 DEF QueryCost, QueryToken, SkipPod, Workers
  <2>2. worker'.base = worker.base /\ worker'.listed = worker.listed => WorkerAgrees'
    BY <1>1 DEF WorkerAgrees
  <2>3. WorkerAgrees'
    BY <2>1, <2>2, IdleAgrees
  <2> QED
    BY <1>2, <1>5, <2>3 DEF QueryCost, QueryToken, SkipPod, KeysInv
<1>6. ASSUME NEW p \in Pods, ResolveTarget(p) PROVE KeysInv'
  <2>1. PICK o \in Targets(p, Read) :
          worker' = [NextPod EXCEPT !.pc = "cost", !.todo = @ \ {p}, !.pod = p,
                                    !.owner = o, !.base = Read[o]]
    BY <1>6 DEF ResolveTarget
  <2>2. o \in Owners /\ Read[o] \in AgreeingObjects \cup {Absent}
    BY <1>1, <2>1 DEF Targets, RayServices, NamedOwners, Read, OwnersAgree
  <2>3. WorkerAgrees'
    BY <2>1, <2>2 DEF NextPod, Idle, WorkerAgrees
  <2> QED
    BY <1>2, <1>6, <2>3 DEF ResolveTarget, KeysInv
<1>7. CASE WriteCost
  <2>1. OwnersAgree'
    BY <1>3, <1>7 DEF WriteCost, Writes
  <2>2. worker.owner \in Owners
    BY <1>7, WriteTypes DEF WriteCost
  <2>3. WorkerAgrees'
    <3>1. CASE worker' = NextPod
      BY <3>1, IdleAgrees
    <3>2. CASE worker' # NextPod
      <4>1. /\ worker'.base \in {worker.base, api'[worker.owner]}
            /\ worker'.listed = worker.listed
        BY <1>1, <1>7, <3>2 DEF WriteCost, Workers
      <4> QED
        BY <1>1, <2>1, <2>2, <4>1 DEF WorkerAgrees, OwnersAgree
    <3> QED
      BY <3>1, <3>2
  <2> QED
    BY <2>1, <2>3 DEF KeysInv
<1>8. CASE ListOwners
  <2>1. WorkerAgrees'
    BY <1>1, <1>8 DEF ListOwners, Idle, WorkerAgrees, OwnersAgree
  <2> QED
    BY <1>2, <1>8, <2>1 DEF ListOwners, KeysInv
<1>9. CASE WriteZero \/ \E o \in Owners : CheckOwner(o)
  <2>1. /\ worker'.base = worker.base
        /\ \/ worker'.listed = worker.listed
           \/ \E o \in Owners : worker'.listed = [worker.listed EXCEPT ![o] = Absent]
    BY <1>1, <1>9, WriteTypes DEF WriteZero, CheckOwner, NextOwner, Workers
  <2>2. WorkerAgrees'
    BY <1>1, <2>1 DEF WorkerAgrees
  <2>3. UNCHANGED ownerVars \/ Writes
    BY <1>9 DEF WriteZero, CheckOwner, Writes
  <2> QED
    BY <1>2, <1>3, <2>2, <2>3 DEF KeysInv
<1> QED
  BY <1>4, <1>5, <1>6, <1>7, <1>8, <1>9 DEF TickStep

(* No step of the environment breaks the agreement: users and clusters     *)
(* leave annotations alone, and a failed call wrote what the tick would.   *)
LEMMA EnvironmentAgrees == ASSUME TypeOK, KeysInv, Environment PROVE KeysInv'
<1>1. OwnersAgree /\ WorkerAgrees
  BY DEF KeysInv
<1>2. CASE UNCHANGED <<ownerVars, worker>>
  BY <1>1, <1>2 DEF KeysInv, OwnersAgree, WorkerAgrees, ownerVars
<1>3. ASSUME NEW o \in Owners, DeleteOwner(o) \/ \E w \in Worlds[o] : ChangeOwner(o, w)
      PROVE  KeysInv'
  <2>1. PICK version \in AgreeingObjects \cup {Absent} : Store(o, version)
    <3>1. CASE DeleteOwner(o)
      BY <3>1 DEF DeleteOwner
    <3>2. ASSUME NEW w \in Worlds[o], ChangeOwner(o, w)
          PROVE  \E version \in AgreeingObjects \cup {Absent} : Store(o, version)
      <4>1. w \in AllWorlds
        BY DEF AllWorlds
      <4>2. [world |-> w, anns |-> NoAnnotations] \in AgreeingObjects
        BY <4>1, NoAnnotationsType DEF Objects, AgreeingObjects, NoAnnotations, Keys
      <4>3. api[o] # Absent => [api[o] EXCEPT !.world = w] \in AgreeingObjects
        BY <1>1, <4>1 DEF OwnersAgree, Objects, AgreeingObjects
      <4> QED
        BY <3>2, <4>2, <4>3 DEF ChangeOwner
    <3> QED
      BY <1>3, <3>1, <3>2
  <2>2. UNCHANGED worker
    BY <1>3 DEF DeleteOwner, ChangeOwner
  <2> QED
    BY <1>1, <2>1, <2>2, StoreAgrees DEF KeysInv, WorkerAgrees
<1>4. CASE ApiFails
  <2>1. UNCHANGED ownerVars \/ Writes
    BY <1>4 DEF ApiFails, Writes
  <2>2. OwnersAgree'
    BY <1>1, <2>1, WritesAgree DEF OwnersAgree, ownerVars
  <2>3. CASE worker' = Idle \/ worker' = NextPod
    BY <2>2, <2>3, IdleAgrees DEF KeysInv
  <2>4. CASE \E p \in worker.todo : worker' = [worker EXCEPT !.todo = @ \ {p}]
    BY <1>1, <2>2, <2>4 DEF KeysInv, WorkerAgrees, TypeOK, WorkerOK, Workers
  <2> QED
    BY <1>4, <2>3, <2>4 DEF ApiFails
<1>5. CASE Restart
  <2>1. WorkerAgrees'
    BY <1>5, IdleAgrees DEF Restart
  <2>2. OwnersAgree'
    BY <1>1, <1>5 DEF Restart, OwnersAgree
  <2> QED
    BY <2>1, <2>2 DEF KeysInv
<1> QED
  BY <1>2, <1>3, <1>4, <1>5
  DEF Environment, ChangePod, ChangeCost, ChangeTokens, ChangeProm

(* The keys agree at first, and after every step.                          *)
LEMMA KeysInductive == Spec => []KeysInv
<1>1. Init => KeysInv
  <2> SUFFICES ASSUME Init PROVE KeysInv
    OBVIOUS
  <2>1. \A o \in Owners : api[o].anns = NoAnnotations
    BY DEF Init
  <2>2. api \in [Owners -> AgreeingObjects \cup {Absent}]
    BY <2>1, InitType DEF TypeOK, OwnersOK, AgreeingObjects, NoAnnotations, Keys
  <2> QED
    BY <2>2 DEF Init, Idle, KeysInv, OwnersAgree, WorkerAgrees
<1>2. TypeOK /\ KeysInv /\ [Next]_vars => KeysInv'
  <2> SUFFICES ASSUME TypeOK, KeysInv, [Next]_vars PROVE KeysInv'
    OBVIOUS
  <2>1. CASE UNCHANGED vars
    BY <2>1 DEF vars, ownerVars, KeysInv, OwnersAgree, WorkerAgrees
  <2>2. ASSUME NEW o \in Owners, Deliver(o) PROVE KeysInv'
    <3>1. watch[o] \in Seq(AgreeingObjects \cup {Absent}) /\ watch[o] # <<>>
      BY <2>2 DEF KeysInv, OwnersAgree, Deliver
    <3>2. /\ Head(watch[o]) \in AgreeingObjects \cup {Absent}
          /\ Tail(watch[o]) \in Seq(AgreeingObjects \cup {Absent})
      BY <3>1
    <3> QED
      BY <2>2, <3>2 DEF Deliver, KeysInv, OwnersAgree, WorkerAgrees
  <2> QED
    BY <2>1, <2>2, TickStepAgrees, EnvironmentAgrees DEF Next
<1> QED
  BY <1>1, <1>2, PatcherTypeCorrect, PTL DEF Spec

(* Whatever a patch leaves out because a stale base had it already, the    *)
(* deprecated key and its successor show the same rate.                    *)
THEOREM KeysAgree == Spec => []DualKeysAgree
<1>1. KeysInv => DualKeysAgree
  BY DEF KeysInv, OwnersAgree, AgreeingObjects, DualKeysAgree
<1> QED
  BY <1>1, KeysInductive, PTL
-----------------------------------------------------------------------------
(* The total of a job.                                                     *)

Holding == {"cost", "remove", "token", "write", "total"}

(* Nobody but the patcher writes totals: while it holds a TrainJob without *)
(* one, the server has none for it either.                                 *)
JobInv ==
  worker.pc \in Holding =>
    /\ worker.pc = "total" => KindOf[worker.owner] = "kubeflow-trainer"
    /\ /\ KindOf[worker.owner] = "kubeflow-trainer"
       /\ worker.base.anns.job = Absent /\ api[worker.owner] # Absent
       => api[worker.owner].anns.job = Absent

(* A step that creates no total, changes none and removes none.            *)
SameJobs ==
  \A o \in Owners :
    api'[o] # Absent =>
      IF api[o] = Absent THEN api'[o].anns.job = Absent
      ELSE api'[o].anns.job = api[o].anns.job

(* A step that finishes no total.                                          *)
KeptJobs ==
  \A o \in Owners :
    api[o] # Absent /\ api'[o] # Absent /\ api[o].anns.job # Absent
      => api'[o].anns.job = api[o].anns.job

(* A patch that is not about the total keeps it.                           *)
LEMMA PatchSameJobs ==
  ASSUME OwnersOK, NEW o \in Owners, NEW base \in Objects, NEW new \in Annotations,
         new.job = base.anns.job, Patch(o, base, new)
  PROVE  SameJobs
<1>1. CASE UNCHANGED ownerVars
  BY <1>1, PatcherAssumption DEF ownerVars, SameJobs
<1>2. CASE api[o] # Absent /\ Store(o, Patched(o, base, new))
  <2>1. api[o] \in Objects /\ api[o].anns \in Annotations /\ base.anns \in Annotations
    BY <1>2 DEF OwnersOK, Objects
  <2>2. MergePatch(api[o].anns, base.anns, new).job = api[o].anns.job
    BY <2>1, MergePatchType
  <2>3. Patched(o, base, new).anns.job = api[o].anns.job
    BY <1>2, <2>2, PatchedType
  <2> QED
    BY <1>2, <2>3 DEF Store, OwnersOK, SameJobs
<1> QED
  BY <1>1, <1>2 DEF Patch

(* Every write of the patcher keeps a total that is there: the one write   *)
(* that brings a total brings it only where the server has none.           *)
LEMMA WritesKeepJobs ==
  ASSUME TypeOK, JobInv, Writes
  PROVE  KeptJobs /\ (worker.pc # "total" => SameJobs)
<1>1. OwnersOK
  BY DEF TypeOK
<1>2. worker.pc \in {"remove", "write", "total"}
        => /\ worker.owner \in Owners /\ worker.base \in Objects
           /\ worker.base.anns \in Annotations /\ worker.base.world \in AllWorlds
  BY WriteTypes DEF Objects
<1>3. SameJobs => KeptJobs
  BY DEF SameJobs, KeptJobs
<1>4. CASE worker.pc = "remove"
  BY <1>1, <1>2, <1>3, <1>4, RemovedType, PatchSameJobs DEF Writes
<1>5. worker.pc \in {"write", "total"}
        => worker.perHour \in Nat /\ worker.perToken \in Nat \cup {Absent}
  BY PatcherAssumption DEF TypeOK, WorkerOK, Workers, PatcherAssumption
<1>6. CASE worker.pc = "write"
  <2>1. worker.pod \in Pods
    BY <1>6 DEF TypeOK, WorkerOK, Workers
  <2>2. GPUs[worker.pod] \in Nat
    BY <2>1, PatcherAssumption DEF PatcherAssumption
  <2>3. ReplicasFromTarget(KindOf[worker.owner], worker.base.world) \in Nat
    BY <1>2, <1>6, ReplicasType
  <2>4. NewAnnotations \in Annotations /\ NewAnnotations.job = worker.base.anns.job
    BY <1>2, <1>5, <1>6, <2>2, <2>3, WrittenType DEF NewAnnotations
  <2> QED
    BY <1>1, <1>2, <1>3, <1>6, <2>4, PatchSameJobs DEF Writes
<1>7. CASE worker.pc = "zero"
  <2>1. /\ worker.owner \in Owners /\ worker.listed[worker.owner] \in Objects
        /\ worker.listed[worker.owner].anns \in Annotations
    BY <1>7, WriteTypes DEF Objects
  <2> QED
    BY <1>1, <1>3, <1>7, <2>1, ZeroAnnotationsType, PatchSameJobs DEF Writes
<1>8. CASE worker.pc = "total"
  <2> DEFINE new == TotalJobCost(worker.base, worker.perHour)
  <2>1. new \in Annotations /\ Patch(worker.owner, worker.base, new)
    BY <1>2, <1>5, <1>8, TotalJobCostType DEF Writes
  <2>2. worker.base.anns.job # Absent => new.job = worker.base.anns.job
    BY <1>2, <1>5, <1>8, TotalJobCostType
  <2>3. CASE worker.base.anns.job # Absent
    <3> HIDE DEF new
    <3> QED
      BY <1>1, <1>2, <1>3, <1>8, <2>1, <2>2, <2>3, PatchSameJobs
  <2>4. CASE worker.base.anns.job = Absent
    <3>1. api[worker.owner] # Absent => api[worker.owner].anns.job = Absent
      BY <1>8, <2>4 DEF JobInv, Holding
    <3>2. \A o \in Owners : o # worker.owner => api'[o] = api[o]
      BY <1>1, <1>2, <1>8, <2>1 DEF Patch, Store, OwnersOK, ownerVars
    <3> QED
      BY <1>8, <3>1, <3>2 DEF KeptJobs
  <2> QED
    BY <2>3, <2>4
<1> QED
  BY <1>4, <1>6, <1>7, <1>8 DEF Writes

(* A step that leaves the owners alone leaves their totals alone.          *)
LEMMA SameOwnersSameJobs == ASSUME TypeOK, UNCHANGED api PROVE SameJobs /\ KeptJobs
BY PatcherAssumption DEF SameJobs, KeptJobs

(* Every step of a tick keeps the totals there are.                        *)
LEMMA TickStepKeepsJobs ==
  ASSUME TypeOK, JobInv, TickStep
  PROVE  KeptJobs /\ (SameJobs \/ WriteJobTotal)
<1>1. UNCHANGED api \/ (Writes /\ (worker.pc = "total" => WriteJobTotal))
  BY DEF TickStep, StartTick, QueryCost, QueryToken, RemoveCost, WriteCost, WriteJobTotal,
         WriteRefused, ListOwners, WriteZero, ZeroRefused, EndTick, ResolveTarget, SkipPod,
         CheckOwner, Writes, ownerVars
<1> QED
  BY <1>1, SameOwnersSameJobs, WritesKeepJobs
(* A step of anybody else, or one that only takes the tick a stage further *)
(* with the object in hand, keeps the claim about that object.             *)
LEMMA SameHands ==
  ASSUME TypeOK, JobInv, SameJobs,
         worker'.owner = worker.owner, worker'.base = worker.base,
         worker'.pc \in Holding => worker.pc \in Holding,
         worker'.pc = "total" => worker.pc = "total"
  PROVE  JobInv'
<1>1. worker.pc \in Holding => worker.owner \in Owners
  BY DEF Holding, TypeOK, WorkerOK, Workers
<1> QED
  BY <1>1 DEF JobInv, SameJobs

(* Every step of a tick keeps the claim.                                   *)
LEMMA TickStepJobInv == ASSUME TypeOK, JobInv, TickStep PROVE JobInv'
<1>1. worker \in Workers
  BY DEF TypeOK, WorkerOK
<1>2. worker'.pc \notin Holding => JobInv'
  BY DEF JobInv
<1>3. CASE \/ StartTick \/ EndTick \/ ZeroRefused \/ WriteRefused \/ RemoveCost \/ WriteJobTotal
           \/ ListOwners
  <2>1. worker'.pc \in {"idle", "pods", "owners"}
    BY <1>3, NextWorkers, IdleType
    DEF StartTick, EndTick, ZeroRefused, WriteRefused, RemoveCost, WriteJobTotal, ListOwners, Idle
  <2> QED
    BY <1>2, <2>1 DEF Holding
<1>4. CASE WriteZero \/ \E o \in Owners : CheckOwner(o)
  <2>1. worker'.pc \in {"owners", "zero"}
    BY <1>1, <1>4, NextWorkers DEF WriteZero, CheckOwner, Workers
  <2> QED
    BY <1>2, <2>1 DEF Holding
<1>5. CASE QueryCost \/ QueryToken \/ \E p \in Pods : SkipPod(p)
  <2>1. SameJobs
    BY <1>5, SameOwnersSameJobs DEF QueryCost, QueryToken, SkipPod, ownerVars
  <2>2. CASE worker' = Idle
    BY <1>2, <2>2 DEF Idle, Holding
  <2>3. CASE worker' # Idle
    BY <1>1, <1>5, <2>1, <2>3, SameHands
    DEF QueryCost, QueryToken, SkipPod, Workers, Holding
  <2> QED
    BY <2>2, <2>3
<1>6. ASSUME NEW p \in Pods, ResolveTarget(p) PROVE JobInv'
  <2>1. PICK o \in Targets(p, Read) :
          worker' = [NextPod EXCEPT !.pc = "cost", !.todo = @ \ {p}, !.pod = p,
                                    !.owner = o, !.base = Read[o]]
    BY <1>6 DEF ResolveTarget
  <2>2. o \in Owners /\ (KindOf[o] = "kubeflow-trainer" => Read[o] = api[o])
    BY <2>1 DEF Targets, RayServices, NamedOwners, Read, Typed
  <2>3. worker'.pc = "cost" /\ worker'.owner = o /\ worker'.base = Read[o]
    BY <2>1, NextWorkers DEF Workers
  <2>4. UNCHANGED api
    BY <1>6 DEF ResolveTarget, ownerVars
  <2> QED
    BY <2>2, <2>3, <2>4 DEF JobInv
<1>7. CASE WriteCost
  <2>1. SameJobs /\ worker.pc = "write"
    BY <1>7, WritesKeepJobs DEF WriteCost, Writes
  <2>2. CASE KindOf[worker.owner] # "kubeflow-trainer"
    BY <1>2, <1>7, <2>2, NextWorkers DEF WriteCost, Holding
  <2>3. CASE KindOf[worker.owner] = "kubeflow-trainer"
    <3>1. /\ worker'.pc = "total" /\ worker'.owner = worker.owner
          /\ worker'.base = worker.base \/ worker'.base = api'[worker.owner]
      BY <1>1, <1>7, <2>3 DEF WriteCost, Workers
    <3>2. worker.owner \in Owners
      BY <2>1, WriteTypes
    <3> QED
      BY <2>1, <2>3, <3>1, <3>2 DEF JobInv, SameJobs, Holding
  <2> QED
    BY <2>2, <2>3
<1> QED
  BY <1>3, <1>4, <1>5, <1>6, <1>7 DEF TickStep

(* Users and clusters create owners without a total and leave totals       *)
(* alone; a failed call wrote at most what the tick would.                 *)
LEMMA EnvironmentKeepsJobs ==
  ASSUME TypeOK, JobInv, Environment
  PROVE  KeptJobs /\ JobInv'
<1>1. SameJobs => KeptJobs
  BY DEF SameJobs, KeptJobs
<1>2. UNCHANGED worker /\ SameJobs => JobInv'
  BY SameHands
<1>3. CASE UNCHANGED <<ownerVars, worker>>
  BY <1>1, <1>2, <1>3, SameOwnersSameJobs DEF ownerVars
<1>4. ASSUME NEW o \in Owners, DeleteOwner(o) \/ \E w \in Worlds[o] : ChangeOwner(o, w)
      PROVE  SameJobs /\ UNCHANGED worker
  <2>1. CASE DeleteOwner(o)
    BY <2>1, PatcherAssumption DEF DeleteOwner, Store, SameJobs, TypeOK, OwnersOK
  <2>2. ASSUME NEW w \in Worlds[o], ChangeOwner(o, w) PROVE SameJobs /\ UNCHANGED worker
    <3>1. PICK v : /\ Store(o, v)
                   /\ IF api[o] = Absent THEN v = [world |-> w, anns |-> NoAnnotations]
                      ELSE v = [api[o] EXCEPT !.world = w]
      BY <2>2 DEF ChangeOwner
    <3>2. IF api[o] = Absent THEN v.anns.job = Absent ELSE v.anns = api[o].anns
      BY <3>1 DEF NoAnnotations, Keys, TypeOK, OwnersOK, Objects
    <3>3. api' = [api EXCEPT ![o] = v] /\ api \in [Owners -> Objects \cup {Absent}]
      BY <3>1 DEF Store, TypeOK, OwnersOK
    <3>4. UNCHANGED worker
      BY <2>2 DEF ChangeOwner
    <3> QED
      BY <3>2, <3>3, <3>4, PatcherAssumption DEF SameJobs
  <2> QED
    BY <1>4, <2>1, <2>2 DEF DeleteOwner
<1>5. CASE ApiFails
  <2>1. UNCHANGED ownerVars \/ Writes
    BY <1>5 DEF ApiFails, Writes
  <2>2. KeptJobs
    BY <2>1, SameOwnersSameJobs, WritesKeepJobs DEF ownerVars
  <2>3. worker'.pc \in {"idle", "pods"}
    BY <1>5, NextWorkers, IdleType DEF ApiFails, TypeOK, WorkerOK, Workers
  <2> QED
    BY <2>2, <2>3 DEF JobInv, Holding
<1>6. CASE Restart
  BY <1>1, <1>6, SameOwnersSameJobs, IdleType DEF Restart, JobInv, Holding
<1> QED
  BY <1>1, <1>2, <1>3, <1>4, <1>5, <1>6
  DEF Environment, ChangePod, ChangeCost, ChangeTokens, ChangeProm

(* No interleaving of ticks, failures, restarts and edits changes or       *)
(* removes the total a job was given.                                      *)
THEOREM JobTotalsAreFinal == Spec => JobTotalIsFinal
<1>1. Init => JobInv
  BY DEF Init, Idle, JobInv, Holding
<1>2. TypeOK /\ JobInv /\ [Next]_vars => JobInv' /\ [KeptJobs]_vars
  <2> SUFFICES ASSUME TypeOK, JobInv, [Next]_vars PROVE JobInv' /\ [KeptJobs]_vars
    OBVIOUS
  <2>1. CASE UNCHANGED vars
    BY <2>1 DEF vars, ownerVars, JobInv
  <2>2. ASSUME NEW o \in Owners, Deliver(o) PROVE JobInv' /\ KeptJobs
    BY <2>2, SameOwnersSameJobs, SameHands DEF Deliver
  <2> QED
    BY <2>1, <2>2, TickStepKeepsJobs, TickStepJobInv, EnvironmentKeepsJobs DEF Next
<1> QED
  BY <1>1, <1>2, PatcherTypeCorrect, PTL DEF Spec, JobTotalIsFinal, KeptJobs
-----------------------------------------------------------------------------
(* What patches do to annotations that are right already, or fresh.        *)

(* A patch from an up-to-date base stores what was computed.               *)
LEMMA MergeFresh ==
  ASSUME NEW anns \in Annotations, NEW new \in Annotations
  PROVE  MergePatch(anns, anns, new) = new
BY DEF MergePatch, Annotations

(* Removing leaves alone what is removed, from whatever base it sets out.  *)
LEMMA MergeRemoved ==
  ASSUME NEW anns \in Annotations, NEW base \in Annotations, Removed(anns) = anns
  PROVE  MergePatch(anns, base, Removed(base)) = anns
<1>1. \A k \in Keys : Removed(base)[k] = IF k = "job" THEN base[k] ELSE Absent
  BY DEF Removed, NoAnnotations, Keys
<1>2. \A k \in Keys \ {"job"} : anns[k] = Absent
  BY DEF Removed, NoAnnotations, Keys
<1>3. \A k \in Keys : (IF Removed(base)[k] # base[k] THEN Removed(base)[k] ELSE anns[k]) = anns[k]
  BY <1>1, <1>2
<1>4. anns = [k \in Keys |-> anns[k]]
  BY DEF Annotations
<1> QED
  BY <1>3, <1>4 DEF MergePatch

(* Writing sets what the result has a value for, and nothing else.         *)
LEMMA WrittenFields ==
  ASSUME NEW anns \in Annotations, NEW res
  PROVE  /\ Written(anns, res) = [k \in Keys |-> Written(anns, res)[k]]
         /\ Written(anns, res).perReplica = res.perHour
         /\ Written(anns, res).old = res.perHour
         /\ Written(anns, res).total = IF Positive(res.replicas) THEN res.perHour * res.replicas
                                       ELSE anns.total
         /\ Written(anns, res).token = res.perToken
         /\ Written(anns, res).gpus = IF res.gpus = Absent THEN anns.gpus ELSE res.gpus
         /\ Written(anns, res).job = anns.job
<1> DEFINE total == IF Positive(res.replicas) THEN res.perHour * res.replicas ELSE anns.total
           gpus == IF res.gpus = Absent THEN anns.gpus ELSE res.gpus
           perHour == res.perHour  perToken == res.perToken
<1>1. Written(anns, res) = [anns EXCEPT !.perReplica = perHour, !.old = perHour, !.total = total,
                                        !.token = perToken, !.gpus = gpus]
  BY DEF Written
<1>2. DOMAIN anns = Keys
  BY DEF Annotations
<1> HIDE DEF total, gpus, perHour, perToken
<1>3. /\ Written(anns, res) = [k \in Keys |-> Written(anns, res)[k]]
      /\ Written(anns, res).perReplica = perHour /\ Written(anns, res).old = perHour
      /\ Written(anns, res).total = total /\ Written(anns, res).token = perToken
      /\ Written(anns, res).gpus = gpus /\ Written(anns, res).job = anns.job
  BY <1>1, <1>2 DEF Keys
<1> QED
  BY <1>3 DEF total, gpus, perHour, perToken

(* It is a function, and two of its kind that agree on all keys are equal. *)
LEMMA WrittenIs ==
  ASSUME NEW anns \in Annotations, NEW res, NEW other, other = [k \in Keys |-> other[k]],
         other.perReplica = res.perHour, other.old = res.perHour,
         other.total = IF Positive(res.replicas) THEN res.perHour * res.replicas ELSE anns.total,
         other.token = res.perToken,
         other.gpus = IF res.gpus = Absent THEN anns.gpus ELSE res.gpus,
         other.job = anns.job
  PROVE  Written(anns, res) = other
<1>1. \A k \in Keys : Written(anns, res)[k] = other[k]
  BY WrittenFields DEF Keys
<1>2. Written(anns, res) = [k \in Keys |-> Written(anns, res)[k]]
  BY WrittenFields
<1> QED
  BY <1>1, <1>2

(* So annotations that are as a result has them say what it says.          *)
LEMMA FixedFields ==
  ASSUME NEW anns \in Annotations, NEW res, Written(anns, res) = anns
  PROVE  /\ anns.perReplica = res.perHour /\ anns.old = res.perHour
         /\ anns.total = IF Positive(res.replicas) THEN res.perHour * res.replicas
                         ELSE anns.total
         /\ anns.token = res.perToken
         /\ anns.gpus = IF res.gpus = Absent THEN anns.gpus ELSE res.gpus
<1> DEFINE new == Written(anns, res)
<1>1. /\ new.perReplica = res.perHour /\ new.old = res.perHour
      /\ new.total = IF Positive(res.replicas) THEN res.perHour * res.replicas ELSE anns.total
      /\ new.token = res.perToken
      /\ new.gpus = IF res.gpus = Absent THEN anns.gpus ELSE res.gpus
  BY WrittenFields
<1>2. new = anns
  OBVIOUS
<1> HIDE DEF new
<1> QED
  BY <1>1, <1>2

(* Writing what is there already changes nothing, from whatever base.      *)
LEMMA MergeWritten ==
  ASSUME NEW anns \in Annotations, NEW base \in Annotations, NEW res, res.gpus # Absent,
         Written(anns, res) = anns
  PROVE  MergePatch(anns, base, Written(base, res)) = anns
<1> DEFINE new == Written(base, res)
<1>1. \A k \in Keys : new[k] # base[k] => new[k] = anns[k]
  <2>1. /\ anns.perReplica = res.perHour /\ anns.old = res.perHour
        /\ Positive(res.replicas) => anns.total = res.perHour * res.replicas
        /\ anns.token = res.perToken /\ anns.gpus = res.gpus
    BY FixedFields
  <2>2. /\ new.perReplica = res.perHour /\ new.old = res.perHour
        /\ new.total = IF Positive(res.replicas) THEN res.perHour * res.replicas ELSE base.total
        /\ new.token = res.perToken /\ new.gpus = res.gpus /\ new.job = base.job
    BY WrittenFields
  <2> QED
    BY <2>1, <2>2 DEF Keys
<1> HIDE DEF new
<1>2. anns = [k \in Keys |-> anns[k]]
  BY DEF Annotations
<1>3. \A k \in Keys : (IF new[k] # base[k] THEN new[k] ELSE anns[k]) = anns[k]
  BY <1>1
<1>4. MergePatch(anns, base, new) = [k \in Keys |-> anns[k]]
  BY <1>3 DEF MergePatch
<1> QED
  BY <1>2, <1>4 DEF new

(* What is written stays when it is written again.                         *)
LEMMA WrittenTwice ==
  ASSUME NEW anns \in Annotations, NEW res, Written(anns, res) \in Annotations
  PROVE  Written(Written(anns, res), res) = Written(anns, res)
<1> DEFINE new == Written(anns, res)
<1>1. new = [k \in Keys |-> new[k]]
  <2>1. new \in Annotations
    OBVIOUS
  <2> HIDE DEF new
  <2> QED
    BY <2>1 DEF Annotations
<1>2. /\ new.perReplica = res.perHour /\ new.old = res.perHour
      /\ Positive(res.replicas) => new.total = res.perHour * res.replicas
      /\ new.token = res.perToken /\ (res.gpus # Absent => new.gpus = res.gpus)
  BY WrittenFields
<1>3. new \in Annotations
  OBVIOUS
<1> HIDE DEF new
<1>4. Written(new, res) = new
  BY <1>1, <1>2, <1>3, WrittenIs
<1> QED
  BY <1>4 DEF new

LEMMA RemovedTwice ==
  ASSUME NEW anns \in Annotations
  PROVE  Removed(Removed(anns)) = Removed(anns)
BY DEF Removed, NoAnnotations, Keys

(* A job's total is written once, and leaves what is written in place.     *)
LEMMA TotalTwice ==
  ASSUME NEW base \in Objects, NEW next \in Objects, NEW perHour \in Nat,
         next.world = base.world, next.anns = TotalJobCost(base, perHour)
  PROVE  /\ TotalJobCost(next, perHour) = next.anns
         /\ \A res : Written(base.anns, res) = base.anns => Written(next.anns, res) = next.anns
<1> DEFINE sum == perHour * TrainJobDuration(base.world.job)
           due == /\ base.anns.job = Absent
                  /\ Terminal(base.world.job.conditions) /\ TrainJobDuration(base.world.job) > 0
<1>1. base.anns \in Annotations /\ next.anns \in Annotations
  BY DEF Objects
<1>2. TrainJobDuration(base.world.job) \in Nat /\ base.world \in AllWorlds
  BY PatcherAssumption DEF PatcherAssumption, Objects
<1>3. sum \in Nat
  BY <1>2
<1>4. sum # Absent
  BY <1>3, PatcherAssumption DEF PatcherAssumption
<1>5. next.anns = IF due THEN [base.anns EXCEPT !.job = sum] ELSE base.anns
  BY DEF TotalJobCost
<1>6. TotalJobCost(next, perHour) = next.anns
  <2>1. CASE due
    <3> HIDE DEF sum
    <3>1. next.anns.job = sum
      BY <1>1, <1>5, <2>1 DEF Annotations, Keys
    <3> QED
      BY <1>4, <3>1 DEF TotalJobCost
  <2>2. CASE ~due
    BY <1>5, <2>2 DEF TotalJobCost
  <2> QED
    BY <2>1, <2>2
<1>7. ASSUME NEW res, Written(base.anns, res) = base.anns
      PROVE  Written(next.anns, res) = next.anns
  <2> HIDE DEF sum, due
  <2>1. \A k \in Keys \ {"job"} : next.anns[k] = base.anns[k]
    BY <1>1, <1>5 DEF Annotations, Keys
  <2>2. next.anns = [k \in Keys |-> next.anns[k]]
    BY <1>1 DEF Annotations
  <2>3. /\ base.anns.perReplica = res.perHour /\ base.anns.old = res.perHour
        /\ base.anns.total = IF Positive(res.replicas) THEN res.perHour * res.replicas
                             ELSE base.anns.total
        /\ base.anns.token = res.perToken
        /\ base.anns.gpus = IF res.gpus = Absent THEN base.anns.gpus ELSE res.gpus
    <3> DEFINE anns == base.anns
    <3>1. anns \in Annotations /\ Written(anns, res) = anns
      BY <1>1, <1>7
    <3> HIDE DEF anns
    <3>2. /\ anns.perReplica = res.perHour /\ anns.old = res.perHour
          /\ anns.total = IF Positive(res.replicas) THEN res.perHour * res.replicas
                          ELSE anns.total
          /\ anns.token = res.perToken
          /\ anns.gpus = IF res.gpus = Absent THEN anns.gpus ELSE res.gpus
      BY <3>1, FixedFields
    <3> QED
      BY <3>2 DEF anns
  <2>4. /\ next.anns.perReplica = base.anns.perReplica /\ next.anns.old = base.anns.old
        /\ next.anns.total = base.anns.total /\ next.anns.token = base.anns.token
        /\ next.anns.gpus = base.anns.gpus
    BY <2>1 DEF Keys
  <2> QED
    BY <1>1, <2>2, <2>3, <2>4, WrittenIs
<1> QED
  BY <1>6, <1>7

-----------------------------------------------------------------------------
(* Owners that nothing disturbs.                                           *)

(* Whether a pod resolves to an owner depends on the owner's world alone.  *)
LEMMA TargetsAreLocal ==
  ASSUME NEW o \in Owners, NEW p, NEW view, NEW other,
         view[o] # Absent, other[o] # Absent, view[o].world = other[o].world
  PROVE  o \in Targets(p, view) <=> o \in Targets(p, other)
BY DEF Targets, RayServices, NamedOwners

(* So it keeps its pods, and they what they cost.                          *)
LEMMA PodsAreKept ==
  ASSUME NEW o \in Owners, api[o] # Absent, Undisturbed(o)
  PROVE  /\ \A p \in Pods : o \in Targets(p, api)' <=> o \in Targets(p, api)
         /\ PodsOf(o)' = PodsOf(o)
         /\ \A p \in PodsOf(o) : /\ pods'[p] = pods[p] /\ cost'[p] = cost[p]
                                 /\ tokens'[p] = tokens[p] /\ RateOf(o, p)' = RateOf(o, p)
         /\ Idled(o)' <=> Idled(o)
         /\ Agreed(o) => Agreed(o)'
<1>1. \A p \in Pods : o \in Targets(p, api)' <=> o \in Targets(p, api)
  <2>1. /\ api'[o] # Absent /\ api'[o].world = api[o].world
    BY DEF Undisturbed
  <2>2. \A p \in Pods : o \in Targets(p, api') <=> o \in Targets(p, api)
    BY <2>1, TargetsAreLocal
  <2> QED
    BY <2>2 DEF Targets, RayServices, NamedOwners
<1>2. PodsOf(o)' = PodsOf(o)
  BY <1>1 DEF Undisturbed, PodsOf
<1>3. ASSUME NEW p \in PodsOf(o)
      PROVE  /\ pods'[p] = pods[p] /\ cost'[p] = cost[p]
             /\ tokens'[p] = tokens[p] /\ RateOf(o, p)' = RateOf(o, p)
  <2>1. p \in Pods /\ o \in Targets(p, api)
    BY DEF PodsOf
  <2>2. pods'[p] = pods[p] /\ cost'[p] = cost[p] /\ tokens'[p] = tokens[p]
    BY <2>1 DEF Undisturbed
  <2> QED
    BY <2>2 DEF Undisturbed, RateOf
<1>4. Idled(o)' <=> Idled(o)
  BY DEF Undisturbed, Idled, HasActivePods
<1>5. Agreed(o) => Agreed(o)'
  BY <1>2, <1>3, <1>4 DEF Agreed
<1> QED
  BY <1>1, <1>2, <1>3, <1>4, <1>5

(* It is at rest after a step if its new annotations are what each visit   *)
(* would find to write.                                                    *)
LEMMA RestAfter ==
  ASSUME NEW o \in Owners, api[o] # Absent, Undisturbed(o),
         \A p \in PodsOf(o) :
           IF cost[p] = Absent THEN Removed(api'[o].anns) = api'[o].anns
           ELSE /\ Written(api'[o].anns, RateOf(o, p)) = api'[o].anns
                /\ KindOf[o] = "kubeflow-trainer"
                     => TotalJobCost(api'[o], cost[p]) = api'[o].anns,
         Idled(o) => Zeroed(o, api'[o].anns) = api'[o].anns
  PROVE  AtRest(o)'
<1>1. PodsOf(o)' = PodsOf(o) /\ (Idled(o)' <=> Idled(o))
  BY PodsAreKept
<1>2. \A p \in PodsOf(o) : cost'[p] = cost[p] /\ RateOf(o, p)' = RateOf(o, p)
  BY PodsAreKept
<1>3. ASSUME NEW p \in PodsOf(o)
      PROVE  IF cost'[p] = Absent THEN Removed(api'[o].anns) = api'[o].anns
             ELSE /\ Written(api'[o].anns, RateOf(o, p)') = api'[o].anns
                  /\ KindOf[o] = "kubeflow-trainer"
                       => TotalJobCost(api'[o], cost'[p]) = api'[o].anns
  BY <1>2
<1> QED
  BY <1>1, <1>3 DEF AtRest

LEMMA RestIsKept ==
  ASSUME NEW o \in Owners, api[o] # Absent, Undisturbed(o), AtRest(o), api'[o] = api[o]
  PROVE  AtRest(o)'
<1>1. /\ \A p \in PodsOf(o) :
           IF cost[p] = Absent THEN Removed(api'[o].anns) = api'[o].anns
           ELSE /\ Written(api'[o].anns, RateOf(o, p)) = api'[o].anns
                /\ KindOf[o] = "kubeflow-trainer"
                     => TotalJobCost(api'[o], cost[p]) = api'[o].anns
      /\ Idled(o) => Zeroed(o, api'[o].anns) = api'[o].anns
  BY DEF AtRest
<1> QED
  BY <1>1, RestAfter

(* What a write to the owner does to its object; to the events under way   *)
(* it adds that version at most.                                           *)
Follows(o) ==
  /\ cache'[o] = cache[o]
  /\ watch'[o] = watch[o] \/ watch'[o] = Append(watch[o], api'[o])

LEMMA PatchEffect ==
  ASSUME OwnersOK, NEW o \in Owners, api[o] # Absent,
         NEW base \in Objects, NEW new \in Annotations, Patch(o, base, new)
  PROVE  /\ Follows(o) /\ api'[o] \in Objects /\ api'[o].world = api[o].world
         /\ api'[o].anns = MergePatch(api[o].anns, base.anns, new)
<1>1. api[o] \in Objects /\ api[o].anns \in Annotations /\ base.anns \in Annotations
  BY DEF OwnersOK, Objects
<1>2. CASE new = base.anns
  <2>1. UNCHANGED ownerVars
    BY <1>2 DEF Patch
  <2>2. MergePatch(api[o].anns, base.anns, new) = api[o].anns
    BY <1>1, <1>2 DEF MergePatch, Annotations
  <2> QED
    BY <1>1, <2>1, <2>2 DEF ownerVars, Follows
<1>3. CASE new # base.anns
  <2> DEFINE version == Patched(o, base, new)
  <2>1. Store(o, version)
    BY <1>3 DEF Patch
  <2>2. /\ version \in Objects /\ version.world = api[o].world
        /\ version.anns = MergePatch(api[o].anns, base.anns, new)
    BY PatchedType
  <2> HIDE DEF version
  <2>3. api'[o] = version
    BY <2>1 DEF Store, OwnersOK
  <2>4. Follows(o)
    BY <2>1, <2>3 DEF Store, OwnersOK, Follows
  <2> QED
    BY <2>2, <2>3, <2>4
<1> QED
  BY <1>2, <1>3

(* A patch of one owner leaves all others as they are.                     *)
LEMMA PatchElsewhere ==
  ASSUME OwnersOK, NEW o \in Owners, NEW other \in Owners, other # o,
         NEW base, NEW new, Patch(other, base, new)
  PROVE  api'[o] = api[o] /\ Follows(o)
BY DEF OwnersOK, Patch, Store, ownerVars, Follows

LEMMA WritesElsewhere ==
  ASSUME TypeOK, NEW o \in Owners, Writes, worker.owner # o
  PROVE  api'[o] = api[o] /\ Follows(o)
<1>1. worker.pc \in {"remove", "write", "total", "zero"} => worker.owner \in Owners
  BY WriteTypes
<1> QED
  BY <1>1, PatchElsewhere DEF Writes, TypeOK

(* What the cache and the events know stays true with such a version.      *)
LEMMA FollowsKeeps ==
  ASSUME OwnersOK, NEW o \in Owners, api[o] # Absent, Follows(o),
         api'[o] # Absent, api'[o].world = api[o].world
  PROVE  /\ CacheKnows(o) => CacheKnows(o)'
         /\ CacheUpToDate(o) /\ api'[o] = api[o] => CacheUpToDate(o)'
<1>1. watch[o] \in Seq(Objects \cup {Absent})
  BY DEF OwnersOK
<1>2. \A i \in DOMAIN watch'[o] :
        \/ i \in DOMAIN watch[o] /\ watch'[o][i] = watch[o][i]
        \/ watch'[o][i] = api'[o]
  <2>1. CASE watch'[o] = watch[o]
    BY <2>1
  <2>2. CASE watch'[o] = Append(watch[o], api'[o])
    <3> DEFINE old == watch[o]  new == api'[o]
    <3>1. old \in Seq(Objects \cup {Absent})
      BY <1>1
    <3> HIDE DEF old, new
    <3>2. \A i \in DOMAIN Append(old, new) :
            (i \in DOMAIN old /\ Append(old, new)[i] = old[i]) \/ Append(old, new)[i] = new
      BY <3>1
    <3> QED
      BY <2>2, <3>2 DEF old, new
  <2> QED
    BY <2>1, <2>2 DEF Follows
<1>3. CacheKnows(o) => CacheKnows(o)'
  BY <1>2 DEF Follows, CacheKnows, SameWorld
<1>4. CacheUpToDate(o) /\ api'[o] = api[o] => CacheUpToDate(o)'
  BY <1>2 DEF Follows, CacheUpToDate
<1> QED
  BY <1>3, <1>4

-----------------------------------------------------------------------------
(* What the tick writes to an owner it knows.                              *)

(* In hand it has the owner, older annotations apart, and the true prices. *)
LEMMA WriteInHand ==
  ASSUME TypeOK, NEW o \in Owners, api[o] # Absent, Knows(o), worker.owner = o,
         worker.pc \in {"remove", "write", "total", "zero"}
  PROVE  /\ worker.pc # "zero" =>
              /\ worker.base \in Objects /\ worker.base.world = api[o].world
              /\ worker.base = api[o] \/ Typed(o)
              /\ worker.pod \in PodsOf(o)
         /\ worker.pc = "remove" => cost[worker.pod] = Absent
         /\ worker.pc = "write" =>
              /\ cost[worker.pod] \in Nat
              /\ NewAnnotations = Written(worker.base.anns, RateOf(o, worker.pod))
         /\ worker.pc = "total" =>
              /\ worker.perHour = cost[worker.pod] /\ cost[worker.pod] \in Nat
              /\ KindOf[o] = "kubeflow-trainer" /\ worker.base = api[o]
              /\ Written(api[o].anns, RateOf(o, worker.pod)) = api[o].anns
         /\ worker.pc = "zero" =>
              /\ worker.listed[o] = api[o] /\ KindOf[o] = "kserve" /\ Idled(o)
              /\ ZeroAnnotations = Zeroed(o, api[o].anns)
<1>1. worker.pc # "zero" => Visiting(o) /\ VisitKnows(o) /\ worker.base \in Objects
  BY WriteTypes DEF Visiting, Knows
<1>2. worker.pc \in {"write", "total"} => worker.perHour \in Nat /\ worker.perHour = cost[worker.pod]
  BY <1>1, PatcherAssumption DEF TypeOK, WorkerOK, Workers, VisitKnows, PatcherAssumption
<1>3. ASSUME worker.pc = "write"
      PROVE  NewAnnotations = Written(worker.base.anns, RateOf(o, worker.pod))
  <2>1. worker.perToken = IF IsPodLoading(pods[worker.pod]) THEN Absent
                          ELSE tokens[worker.pod]
    BY <1>1, <1>3 DEF VisitKnows
  <2>2. worker.base.world = api[o].world
    BY <1>1, <1>3 DEF VisitKnows, SameWorld
  <2> QED
    BY <1>2, <1>3, <2>1, <2>2 DEF NewAnnotations, RateOf
<1>4. ASSUME worker.pc = "total"
      PROVE  /\ KindOf[o] = "kubeflow-trainer" /\ worker.base = api[o]
             /\ Written(api[o].anns, RateOf(o, worker.pod)) = api[o].anns
  BY <1>1, <1>4 DEF VisitKnows, Typed
<1>5. ASSUME worker.pc = "zero"
      PROVE  /\ worker.listed[o] = api[o] /\ KindOf[o] = "kserve" /\ Idled(o)
             /\ ZeroAnnotations = Zeroed(o, api[o].anns)
  BY <1>5 DEF TypeOK, WorkerOK, Knows, ListsKnow, ZeroAnnotations
<1>6. worker.pc # "zero" => /\ worker.base.world = api[o].world
                            /\ worker.base = api[o] \/ Typed(o)
                            /\ worker.pod \in PodsOf(o)
                            /\ worker.pc = "remove" => cost[worker.pod] = Absent
  BY <1>1 DEF VisitKnows, SameWorld
<1> QED
  BY <1>1, <1>2, <1>3, <1>4, <1>5, <1>6

(* The object after the write, computed from what was in hand.             *)
LEMMA WriteEffect ==
  ASSUME TypeOK, NEW o \in Owners, api[o] # Absent, Knows(o), worker.owner = o, Writes
  PROVE  /\ Follows(o) /\ api'[o] \in Objects /\ api'[o].world = api[o].world
         /\ worker.pc \in {"remove", "write", "total", "zero"}
         /\ worker.pc = "remove" =>
              api'[o].anns = MergePatch(api[o].anns, worker.base.anns, Removed(worker.base.anns))
         /\ worker.pc = "write" =>
              api'[o].anns = MergePatch(api[o].anns, worker.base.anns,
                                        Written(worker.base.anns, RateOf(o, worker.pod)))
         /\ worker.pc = "total" => api'[o].anns = TotalJobCost(api[o], cost[worker.pod])
         /\ worker.pc = "zero"  => api'[o].anns = Zeroed(o, api[o].anns)
<1>1. OwnersOK /\ api[o] \in Objects /\ api[o].anns \in Annotations
  BY DEF TypeOK, OwnersOK, Objects
<1>2. CASE worker.pc = "remove" /\ Patch(worker.owner, worker.base, Removed(worker.base.anns))
  BY <1>1, <1>2, WriteTypes, PatchEffect
<1>3. CASE worker.pc = "write" /\ Patch(worker.owner, worker.base, NewAnnotations)
  <2>1. NewAnnotations = Written(worker.base.anns, RateOf(o, worker.pod))
    BY <1>3, WriteInHand
  <2>2. worker.base \in Objects /\ NewAnnotations \in Annotations
    BY <1>3, WriteTypes
  <2>3. /\ Follows(o) /\ api'[o] \in Objects /\ api'[o].world = api[o].world
        /\ api'[o].anns = MergePatch(api[o].anns, worker.base.anns, NewAnnotations)
    BY <1>1, <1>3, <2>2, PatchEffect
  <2> QED
    BY <1>3, <2>1, <2>3
<1>4. CASE worker.pc = "total"
           /\ Patch(worker.owner, worker.base, TotalJobCost(worker.base, worker.perHour))
  <2> DEFINE new == TotalJobCost(worker.base, worker.perHour)
  <2>1. worker.base = api[o] /\ worker.perHour = cost[worker.pod]
    BY <1>4, WriteInHand
  <2>2. new \in Annotations
    BY <1>4, WriteTypes
  <2> HIDE DEF new
  <2>3. /\ Follows(o) /\ api'[o] \in Objects /\ api'[o].world = api[o].world
        /\ api'[o].anns = MergePatch(api[o].anns, api[o].anns, new)
    BY <1>1, <1>4, <2>1, <2>2, PatchEffect DEF new
  <2>4. api'[o].anns = new
    BY <1>1, <2>2, <2>3, MergeFresh
  <2> QED
    BY <1>4, <2>1, <2>3, <2>4 DEF new
<1>5. CASE worker.pc = "zero"
           /\ Patch(worker.owner, worker.listed[worker.owner], ZeroAnnotations)
  <2>1. worker.listed[o] = api[o] /\ ZeroAnnotations = Zeroed(o, api[o].anns)
    BY <1>5, WriteInHand
  <2>2. ZeroAnnotations \in Annotations
    BY <1>5, WriteTypes
  <2>3. /\ Follows(o) /\ api'[o] \in Objects /\ api'[o].world = api[o].world
        /\ api'[o].anns = MergePatch(api[o].anns, api[o].anns, ZeroAnnotations)
    BY <1>1, <1>5, <2>1, <2>2, PatchEffect
  <2>4. api'[o].anns = ZeroAnnotations
    BY <1>1, <2>2, <2>3, MergeFresh
  <2> QED
    BY <1>5, <2>1, <2>3, <2>4
<1> QED
  BY <1>2, <1>3, <1>4, <1>5 DEF Writes

(* To an owner at rest it writes what is there already, even if it sets    *)
(* out from older annotations.                                             *)
LEMMA WriteAtRest ==
  ASSUME TypeOK, NEW o \in Owners, api[o] # Absent, Knows(o), AtRest(o),
         worker.owner = o, Writes
  PROVE  api'[o] = api[o]
<1>1. api[o] \in Objects /\ api[o].anns \in Annotations
  BY DEF TypeOK, OwnersOK, Objects
<1>2. api'[o] \in Objects /\ api'[o].world = api[o].world
  BY WriteEffect
<1>3. worker.pc # "zero" => worker.base.anns \in Annotations /\ worker.pod \in PodsOf(o)
  BY WriteEffect, WriteInHand DEF Objects
<1>4. CASE worker.pc = "remove"
  <2>1. Removed(api[o].anns) = api[o].anns
    BY <1>3, <1>4, WriteInHand DEF AtRest
  <2> QED
    BY <1>1, <1>2, <1>3, <1>4, <2>1, WriteEffect, MergeRemoved DEF Objects
<1>5. CASE worker.pc = "write"
  <2> DEFINE res == RateOf(o, worker.pod)
  <2>1. cost[worker.pod] \in Nat
    BY <1>5, WriteInHand
  <2>2. cost[worker.pod] # Absent
    BY <2>1, PatcherAssumption DEF PatcherAssumption
  <2>3. Written(api[o].anns, res) = api[o].anns
    BY <1>3, <1>5, <2>2 DEF AtRest
  <2>4. res.gpus # Absent
    BY <1>3, <1>5, PatcherAssumption DEF PatcherAssumption, RateOf, PodsOf
  <2>5. api'[o].anns = MergePatch(api[o].anns, worker.base.anns, Written(worker.base.anns, res))
    BY <1>5, WriteEffect
  <2> HIDE DEF res
  <2>6. api'[o].anns = api[o].anns
    BY <1>1, <1>3, <1>5, <2>3, <2>4, <2>5, MergeWritten
  <2> QED
    BY <1>1, <1>2, <2>6 DEF Objects
<1>6. CASE worker.pc = "total"
  <2>1. cost[worker.pod] \in Nat /\ KindOf[o] = "kubeflow-trainer"
    BY <1>6, WriteInHand
  <2>2. cost[worker.pod] # Absent
    BY <2>1, PatcherAssumption DEF PatcherAssumption
  <2>3. TotalJobCost(api[o], cost[worker.pod]) = api[o].anns
    BY <1>3, <1>6, <2>1, <2>2 DEF AtRest
  <2> QED
    BY <1>1, <1>2, <1>6, <2>3, WriteEffect DEF Objects
<1>7. CASE worker.pc = "zero"
  <2>1. Zeroed(o, api[o].anns) = api[o].anns
    BY <1>7, WriteInHand DEF AtRest
  <2> QED
    BY <1>1, <1>2, <1>7, <2>1, WriteEffect DEF Objects
<1> QED
  BY <1>4, <1>5, <1>6, <1>7, WriteEffect

(* Pods that agree have the same rate.                                     *)
LEMMA AgreedRates ==
  ASSUME NEW o \in Owners, Agreed(o), NEW p \in PodsOf(o), NEW q \in PodsOf(o)
  PROVE  cost[p] = cost[q] /\ RateOf(o, p) = RateOf(o, q)
<1>1. cost[p] = cost[q] /\ GPUs[p] = GPUs[q] /\ RateOf(o, p).perToken = RateOf(o, q).perToken
  BY DEF Agreed
<1> QED
  BY <1>1 DEF RateOf

(* Where they do, a write from an up-to-date base brings the owner to      *)
(* rest, unless a job's total is still to come.                            *)
LEMMA WriteSettles ==
  ASSUME TypeOK, NEW o \in Owners, api[o] # Absent, Knows(o), UpToDate(o), Agreed(o),
         worker.owner = o, Writes, Undisturbed(o),
         worker.pc = "write" => KindOf[o] # "kubeflow-trainer"
  PROVE  AtRest(o)'
<1>1. /\ api[o] \in Objects /\ api[o].anns \in Annotations
      /\ api'[o] \in Objects /\ api'[o].anns \in Annotations /\ api'[o].world = api[o].world
  BY WriteEffect DEF TypeOK, OwnersOK, Objects
<1> DEFINE p == worker.pod  new == api'[o].anns
<1>2. worker.pc # "zero" =>
        worker.base = api[o] /\ p \in PodsOf(o) /\ ~Idled(o)
  BY WriteEffect, WriteInHand DEF UpToDate, Visiting, Agreed
<1>3. \A q \in PodsOf(o) : worker.pc # "zero" =>
        cost[q] = cost[p] /\ RateOf(o, q) = RateOf(o, p)
  BY <1>2, AgreedRates
<1>4. CASE worker.pc = "remove"
  <2>1. new = Removed(api[o].anns) /\ cost[p] = Absent
    <3>1. Removed(api[o].anns) \in Annotations
      BY <1>1, RemovedType
    <3> QED
      BY <1>1, <1>2, <1>4, <3>1, WriteEffect, WriteInHand, MergeFresh
  <2>2. Removed(new) = new
    BY <1>1, <2>1, RemovedTwice
  <2> QED
    BY <1>2, <1>3, <1>4, <2>1, <2>2, RestAfter
<1>5. CASE worker.pc = "write"
  <2> DEFINE res == RateOf(o, p)
  <2>1. cost[p] \in Nat
    BY <1>5, WriteInHand
  <2>2. cost[p] # Absent
    BY <2>1, PatcherAssumption DEF PatcherAssumption
  <2>3. Written(api[o].anns, res) \in Annotations
    <3>1. NewAnnotations \in Annotations
      BY <1>5, WriteTypes
    <3> QED
      BY <1>2, <1>5, <3>1, WriteInHand
  <2>4. new = Written(api[o].anns, res)
    <3>1. new = MergePatch(api[o].anns, api[o].anns, Written(api[o].anns, res))
      BY <1>2, <1>5, WriteEffect
    <3> HIDE DEF new, res
    <3> QED
      BY <1>1, <2>3, <3>1, MergeFresh
  <2>5. Written(new, res) = new
    <3> HIDE DEF new, res
    <3> QED
      BY <1>1, <2>3, <2>4, WrittenTwice
  <2> QED
    BY <1>2, <1>3, <1>5, <2>2, <2>5, RestAfter
<1>6. CASE worker.pc = "total"
  <2>1. /\ cost[p] \in Nat /\ new = TotalJobCost(api[o], cost[p])
        /\ Written(api[o].anns, RateOf(o, p)) = api[o].anns
    BY <1>6, WriteEffect, WriteInHand
  <2>2. cost[p] # Absent
    BY <2>1, PatcherAssumption DEF PatcherAssumption
  <2>3. TotalJobCost(api'[o], cost[p]) = new /\ Written(new, RateOf(o, p)) = new
    BY <1>1, <2>1, TotalTwice
  <2> QED
    BY <1>2, <1>3, <1>6, <2>2, <2>3, RestAfter
<1>7. CASE worker.pc = "zero"
  <2>1. new = Zeroed(o, api[o].anns) /\ PodsOf(o) = {}
    BY <1>7, WriteEffect, WriteInHand DEF Agreed
  <2>2. Zeroed(o, new) = new
    BY <1>1, <2>1, WrittenTwice DEF Zeroed
  <2> QED
    BY <2>1, <2>2, RestAfter
<1> QED
  BY <1>4, <1>5, <1>6, <1>7, WriteEffect


-----------------------------------------------------------------------------
(* What the patcher knows.                                                 *)

(* A step of the patcher that touches the server is a write.               *)
LEMMA TickWrites == ASSUME TickStep PROVE UNCHANGED ownerVars \/ Writes
<1>1. CASE RemoveCost \/ WriteCost \/ WriteJobTotal \/ WriteZero
  BY <1>1 DEF RemoveCost, WriteCost, WriteJobTotal, WriteZero, Writes
<1> DEFINE still == UNCHANGED <<ownerVars, worldVars, changes>>
<1>2. StartTick \/ QueryCost \/ QueryToken \/ WriteRefused \/ ListOwners \/ ZeroRefused
        \/ EndTick => still
  BY Zenon DEF StartTick, QueryCost, QueryToken, WriteRefused, ListOwners, ZeroRefused, EndTick
<1>3. \A p \in Pods : ResolveTarget(p) \/ SkipPod(p) => still
  BY Zenon DEF ResolveTarget, SkipPod
<1>4. \A o \in Owners : CheckOwner(o) => still
  BY Zenon DEF CheckOwner
<1>5. still => UNCHANGED ownerVars
  OBVIOUS
<1> HIDE DEF still
<1> QED
  BY <1>1, <1>2, <1>3, <1>4, <1>5 DEF TickStep

LEMMA FailureWrites == ASSUME ApiFails PROVE UNCHANGED ownerVars \/ Writes
BY DEF ApiFails, Writes

(* It leaves an owner as it is, or writes to it.                           *)
LEMMA PatcherStep ==
  ASSUME TypeOK, TickStep \/ ApiFails, NEW o \in Owners, api[o] # Absent, Knows(o)
  PROVE  Follows(o) /\ (api'[o] = api[o] \/ (Writes /\ worker.owner = o))
<1>1. UNCHANGED ownerVars \/ Writes
  BY TickWrites, FailureWrites
<1>2. CASE UNCHANGED ownerVars
  BY <1>2 DEF ownerVars, Follows
<1>3. CASE Writes /\ worker.owner = o
  BY <1>3, WriteEffect
<1>4. CASE Writes /\ worker.owner # o
  BY <1>4, WritesElsewhere
<1> QED
  BY <1>1, <1>2, <1>3, <1>4

(* The steps of others leave it as it is, and the cache no further behind. *)
LEMMA OthersStep ==
  ASSUME TypeOK, NEW o \in Owners, api[o] # Absent, Undisturbed(o),
         [Next]_vars, ~TickStep, ~ApiFails
  PROVE  /\ api'[o] = api[o]
         /\ CacheKnows(o) => CacheKnows(o)'
         /\ CacheUpToDate(o) => CacheUpToDate(o)'
         /\ Restart \/ worker' = worker
<1>1. OwnersOK
  BY DEF TypeOK
<1>2. CASE api'[o] = api[o] /\ Follows(o) /\ worker' = worker
  BY <1>1, <1>2, FollowsKeeps
<1>3. ASSUME NEW other \in Owners,
             DeleteOwner(other) \/ \E w \in Worlds[other] : ChangeOwner(other, w)
      PROVE  api'[o] = api[o] /\ Follows(o) /\ worker' = worker
  <2>1. CASE other = o
    <3>1. CASE DeleteOwner(o)
      BY <1>1, <3>1 DEF DeleteOwner, Store, Undisturbed, OwnersOK
    <3>2. ASSUME NEW w \in Worlds[o], ChangeOwner(o, w) PROVE FALSE
      <4>1. api[o] \in Objects
        BY <1>1 DEF OwnersOK
      <4>2. api[o].world # w /\ api' = [api EXCEPT ![o] = [api[o] EXCEPT !.world = w]]
        BY <3>2, <4>1 DEF ChangeOwner, Store
      <4>3. api'[o].world = w
        BY <1>1, <4>1, <4>2 DEF OwnersOK, Objects
      <4> QED
        BY <4>2, <4>3 DEF Undisturbed
    <3> QED
      BY <1>3, <2>1, <3>1, <3>2
  <2>2. CASE other # o
    BY <1>1, <1>3, <2>2 DEF DeleteOwner, ChangeOwner, Store, OwnersOK, Follows
  <2> QED
    BY <2>1, <2>2
<1>4. CASE Restart
  BY <1>4 DEF Restart, CacheKnows, CacheUpToDate, SameWorld
<1>5. ASSUME NEW other \in Owners, Deliver(other), other # o
      PROVE  api'[o] = api[o] /\ Follows(o) /\ worker' = worker
  BY <1>1, <1>5 DEF Deliver, OwnersOK, Follows
<1>6. CASE Deliver(o)
  <2>1. /\ watch[o] # <<>> /\ watch[o] \in Seq(Objects \cup {Absent})
        /\ cache'[o] = Head(watch[o]) /\ watch'[o] = Tail(watch[o])
    BY <1>1, <1>6 DEF Deliver, OwnersOK
  <2>2. /\ Head(watch[o]) = watch[o][1] /\ 1 \in DOMAIN watch[o]
        /\ \A i \in DOMAIN Tail(watch[o]) :
             i + 1 \in DOMAIN watch[o] /\ Tail(watch[o])[i] = watch[o][i + 1]
    BY <2>1
  <2>3. api'[o] = api[o] /\ worker' = worker
    BY <1>6 DEF Deliver
  <2>4. CacheKnows(o) => CacheKnows(o)'
    BY <2>1, <2>2, <2>3 DEF CacheKnows, SameWorld
  <2>5. CacheUpToDate(o) => CacheUpToDate(o)'
    BY <2>1, <2>2, <2>3 DEF CacheUpToDate
  <2> QED
    BY <2>3, <2>4, <2>5
<1>7. CASE \/ \E p \in Pods : \/ \E s \in Phases \cup {Absent} : ChangePod(p, s)
                              \/ \E r \in Rates \cup {Absent} : ChangeCost(p, r)
                              \/ \E r \in TokenRates \cup {Absent} : ChangeTokens(p, r)
           \/ \E s \in {"up", "down", "hung"} : ChangeProm(s)
           \/ UNCHANGED vars
  <2>1. UNCHANGED <<ownerVars, worker>>
    BY <1>7 DEF ChangePod, ChangeCost, ChangeTokens, ChangeProm, vars
  <2> QED
    BY <1>2, <2>1 DEF ownerVars, Follows
<1> QED
  BY <1>2, <1>3, <1>4, <1>5, <1>6, <1>7 DEF Next, Environment

(* What the patcher knows of an owner survives a step that takes the tick  *)
(* to a point between visits, if it keeps no list the step made untrue.    *)
LEMMA KnowsBetween ==
  ASSUME TypeOK, NEW o \in Owners, api[o] # Absent, Knows(o), Undisturbed(o), CacheKnows(o)',
         worker'.pc \in {"idle", "pods", "owners"},
         \/ worker'.todo = {}
         \/ worker'.todo \subseteq worker.todo /\ worker'.loading = worker.loading,
         \/ worker'.listed[o] = Absent
         \/ worker'.listed[o] = worker.listed[o] /\ api'[o] = api[o]
  PROVE  Knows(o)'
<1>1. /\ PodsOf(o)' = PodsOf(o)
      /\ \A p \in Pods : o \in Targets(p, api)' <=> o \in Targets(p, api)
  BY PodsAreKept
<1>2. ASSUME NEW p \in worker'.todo, o \in Targets(p, api)'
      PROVE  p \in PodsOf(o)' /\ (p \in worker'.loading <=> IsPodLoading(pods'[p]))
  <2>1. p \in worker.todo /\ worker'.loading = worker.loading /\ p \in Pods
    BY <1>2 DEF TypeOK, WorkerOK, Workers
  <2>2. o \in Targets(p, api)
    BY <1>1, <1>2, <2>1
  <2>3. p \in PodsOf(o) /\ (p \in worker.loading <=> IsPodLoading(pods[p]))
    BY <2>1, <2>2 DEF Knows, ListsKnow
  <2>4. pods'[p] = pods[p]
    BY <2>1, <2>2 DEF Undisturbed
  <2> QED
    BY <1>1, <2>1, <2>3, <2>4
<1>3. worker'.listed[o] # Absent => worker'.listed[o] = api'[o] /\ KindOf[o] = "kserve"
  BY DEF Knows, ListsKnow
<1>4. ListsKnow(o)'
  BY <1>2, <1>3 DEF ListsKnow
<1> QED
  BY <1>4 DEF Knows, Visiting

(* It survives a step that leaves the tick where it is.                    *)
LEMMA KnowsMid ==
  ASSUME TypeOK, NEW o \in Owners, api[o] # Absent, Knows(o), Undisturbed(o), CacheKnows(o)',
         worker' = worker, api'[o] = api[o]
  PROVE  Knows(o)'
<1>1. /\ PodsOf(o)' = PodsOf(o) /\ (Idled(o)' <=> Idled(o))
      /\ \A p \in Pods : o \in Targets(p, api)' <=> o \in Targets(p, api)
  BY PodsAreKept
<1>2. \A p \in worker.todo : p \in Pods
  BY DEF TypeOK, WorkerOK, Workers
<1>3. ListsKnow(o)'
  BY <1>1, <1>2 DEF Knows, ListsKnow, Undisturbed
<1>4. ASSUME VisitKnows(o) PROVE VisitKnows(o)'
  <2>1. worker.pod \in PodsOf(o)
    BY <1>4 DEF VisitKnows
  <2>2. /\ pods'[worker.pod] = pods[worker.pod] /\ cost'[worker.pod] = cost[worker.pod]
        /\ tokens'[worker.pod] = tokens[worker.pod]
        /\ RateOf(o, worker.pod)' = RateOf(o, worker.pod)
    BY <2>1, PodsAreKept
  <2> QED
    BY <1>1, <1>4, <2>2 DEF VisitKnows, SameWorld
<1> QED
  BY <1>1, <1>3, <1>4 DEF Knows, Visiting

(* It survives a step into a visit, or on within one, that knows the       *)
(* owner.                                                                  *)
LEMMA KnowsVisit ==
  ASSUME TypeOK, NEW o \in Owners, api[o] # Absent, Knows(o),
         UNCHANGED <<ownerVars, worldVars>>,
         worker'.pc \in {"cost", "remove", "token", "write", "total"},
         worker'.todo \subseteq worker.todo, worker'.loading = worker.loading,
         worker'.listed[o] \in {worker.listed[o], Absent},
         worker'.owner = o => VisitKnows(o)'
  PROVE  Knows(o)'
<1>1. CacheKnows(o)'
  BY DEF Knows, CacheKnows, SameWorld, ownerVars
<1>2. ListsKnow(o)'
  BY DEF Knows, ListsKnow, Targets, RayServices, NamedOwners, PodsOf, ownerVars, worldVars
<1> QED
  BY <1>1, <1>2 DEF Knows, Visiting

(* The stages of a tick, one by one.                                       *)
LEMMA ResolveKnows ==
  ASSUME TypeOK, NEW o \in Owners, NEW p \in Pods, ResolveTarget(p),
         api[o] # Absent, Knows(o)
  PROVE  Knows(o)'
<1>1. PICK owner \in Targets(p, Read) :
        worker' = [NextPod EXCEPT !.pc = "cost", !.todo = @ \ {p}, !.pod = p,
                                  !.owner = owner, !.base = Read[owner]]
  BY Zenon DEF ResolveTarget
<1>2. NextPod \in Workers
  BY NextWorkers
<1>3. /\ worker'.pc = "cost" /\ worker'.pod = p /\ worker'.owner = owner
      /\ worker'.base = Read[owner] /\ worker'.todo = worker.todo \ {p}
      /\ worker'.loading = worker.loading /\ worker'.perToken = Absent
      /\ worker'.listed[o] = Absent
  BY <1>1, <1>2 DEF NextPod, Idle, Workers
<1>4. UNCHANGED <<ownerVars, worldVars>> /\ p \in worker.todo
  BY DEF ResolveTarget
<1>5. ASSUME owner = o PROVE VisitKnows(o)'
  <2>1. SameWorld(Read[o], o) /\ (Typed(o) \/ Read[o] = api[o])
    BY DEF Read, Knows, CacheKnows, SameWorld
  <2>2. o \in Targets(p, api)
    BY <1>5, <2>1, TargetsAreLocal DEF SameWorld
  <2>3. p \in PodsOf(o) /\ (p \in worker.loading <=> IsPodLoading(pods[p]))
    BY <1>4, <2>2 DEF Knows, ListsKnow
  <2>4. p \in PodsOf(o)'
    BY <1>4, <2>3 DEF PodsOf, Targets, RayServices, NamedOwners, ownerVars, worldVars
  <2>5. /\ SameWorld(worker.base, o)' /\ (Typed(o) \/ worker'.base = api'[o])
        /\ p \in worker'.loading <=> IsPodLoading(pods'[p])
    BY <1>3, <1>4, <1>5, <2>1, <2>3 DEF SameWorld, ownerVars, worldVars
  <2> QED
    BY <1>3, <2>4, <2>5 DEF VisitKnows, SameWorld
<1> QED
  BY <1>3, <1>4, <1>5, KnowsVisit

LEMMA QueryKnows ==
  ASSUME TypeOK, NEW o \in Owners, api[o] # Absent, Knows(o), Undisturbed(o),
         QueryCost \/ QueryToken
  PROVE  Knows(o)'
<1>1. worker \in Workers /\ UNCHANGED <<ownerVars, worldVars>>
  BY DEF TypeOK, WorkerOK, QueryCost, QueryToken
<1>2. CacheKnows(o)' /\ api'[o] = api[o]
  BY <1>1 DEF Knows, CacheKnows, SameWorld, ownerVars
<1>3. CASE worker' = Idle
  <2>1. worker'.pc = "idle" /\ worker'.todo = {} /\ worker'.listed[o] = Absent
    BY <1>3 DEF Idle
  <2> QED
    BY <1>2, <2>1, KnowsBetween
<1>4. CASE worker' # Idle
  <2>1. /\ worker.pc \in {"cost", "token"}
        /\ worker'.pc \in {"remove", "token", "write"}
        /\ worker'.todo = worker.todo /\ worker'.loading = worker.loading
        /\ worker'.listed = worker.listed /\ worker'.pod = worker.pod
        /\ worker'.owner = worker.owner /\ worker'.base = worker.base
    BY <1>1, <1>4 DEF QueryCost, QueryToken, Workers
  <2>2. /\ worker'.pc = "remove" => cost[worker.pod] = Absent
        /\ worker'.pc \in {"token", "write"}
             => worker'.perHour = IF worker.pc = "cost" THEN cost[worker.pod] ELSE worker.perHour
        /\ worker'.perToken = IF worker.pc = "token" THEN tokens[worker.pod] ELSE worker.perToken
        /\ worker.pc = "cost" => worker'.pc \in {"remove", "token", "write"}
        /\ worker.pc = "cost" /\ worker'.pc = "write" => worker.pod \in worker.loading
        /\ worker.pc = "token" => worker'.pc = "write"
        /\ worker'.pc = "token" => worker.pod \notin worker.loading
    BY <1>1, <1>4 DEF QueryCost, QueryToken, Workers
  <2>3. ASSUME worker.owner = o PROVE VisitKnows(o)'
    <3>1. VisitKnows(o)
      BY <2>1, <2>3 DEF Knows, Visiting
    <3>2. PodsOf(o)' = PodsOf(o)
      BY PodsAreKept
    <3>3. worker.pc = "token" => worker.pod \notin worker.loading
      BY <3>1 DEF VisitKnows
    <3>4. SameWorld(worker.base, o)' /\ (Typed(o) \/ worker'.base = api'[o])
      BY <1>2, <2>1, <3>1 DEF VisitKnows, SameWorld
    <3> QED
      BY <1>1, <2>1, <2>2, <2>3, <3>1, <3>2, <3>3, <3>4 DEF VisitKnows, SameWorld, worldVars
  <2> QED
    BY <1>1, <2>1, <2>3, KnowsVisit
<1> QED
  BY <1>3, <1>4

(* A job's price is written from an object read from the server, and the   *)
(* object that write returns goes on to the job's total.                   *)
LEMMA JobWritten ==
  ASSUME TypeOK, NEW o \in Owners, api[o] # Absent, Knows(o), WriteCost, worker.owner = o,
         KindOf[o] = "kubeflow-trainer"
  PROVE  /\ worker'.base = api'[o]
         /\ Written(api'[o].anns, RateOf(o, worker.pod)) = api'[o].anns
<1>1. Writes /\ worker \in Workers /\ worker.pc = "write"
  BY DEF WriteCost, Writes, TypeOK, WorkerOK
<1>2. /\ api[o] \in Objects /\ api[o].anns \in Annotations
      /\ api'[o] \in Objects /\ api'[o].anns \in Annotations
  BY <1>1, WriteEffect DEF TypeOK, OwnersOK, Objects
<1>3. worker.base = api[o]
  BY <1>1, WriteInHand DEF Typed
<1> DEFINE res == RateOf(o, worker.pod)  new == Written(api[o].anns, res)
<1>4. NewAnnotations = new /\ NewAnnotations \in Annotations
  BY <1>1, <1>3, WriteInHand, WriteTypes
<1>5. api'[o].anns = MergePatch(api[o].anns, api[o].anns, new)
  BY <1>1, <1>3, WriteEffect
<1>6. api'[o].anns = new
  <2>1. new \in Annotations
    BY <1>4
  <2> HIDE DEF new
  <2> QED
    BY <1>2, <1>5, <2>1, MergeFresh
<1>7. worker'.base = api'[o]
  <2>1. worker'.base = IF NewAnnotations = worker.base.anns THEN worker.base ELSE api'[o]
    BY <1>1 DEF WriteCost, Workers
  <2>2. NewAnnotations = worker.base.anns => api' = api
    BY DEF WriteCost, Patch, ownerVars
  <2> QED
    BY <1>3, <2>1, <2>2
<1>8. Written(new, res) = new
  <2>1. Written(api[o].anns, res) \in Annotations
    BY <1>4
  <2> HIDE DEF res
  <2> QED
    BY <1>2, <2>1, WrittenTwice
<1> QED
  BY <1>6, <1>7, <1>8

LEMMA WriteKnows ==
  ASSUME TypeOK, NEW o \in Owners, api[o] # Absent, Knows(o), Undisturbed(o),
         CacheKnows(o)', api'[o] = api[o] \/ worker.owner = o, WriteCost
  PROVE  Knows(o)'
<1>1. worker \in Workers /\ UNCHANGED worldVars /\ worker.pc = "write"
  BY DEF TypeOK, WorkerOK, WriteCost
<1>2. CASE KindOf[worker.owner] # "kubeflow-trainer"
  <2>1. /\ worker'.pc = "pods" /\ worker'.todo = worker.todo
        /\ worker'.loading = worker.loading /\ worker'.listed[o] = Absent
    BY <1>2 DEF WriteCost, NextPod, Idle
  <2> QED
    BY <2>1, KnowsBetween
<1>3. CASE KindOf[worker.owner] = "kubeflow-trainer"
  <2>1. /\ worker'.pc = "total" /\ worker'.todo = worker.todo
        /\ worker'.loading = worker.loading /\ worker'.listed = worker.listed
        /\ worker'.pod = worker.pod /\ worker'.owner = worker.owner
        /\ worker'.perHour = worker.perHour /\ worker'.perToken = worker.perToken
    BY <1>1, <1>3 DEF WriteCost, Workers
  <2>2. /\ PodsOf(o)' = PodsOf(o)
        /\ \A p \in Pods : o \in Targets(p, api)' <=> o \in Targets(p, api)
    BY PodsAreKept
  <2>3. \A p \in worker.todo : p \in Pods
    BY <1>1 DEF Workers
  <2>4. worker.listed[o] # Absent => KindOf[o] = "kserve" /\ worker.listed[o] = api[o]
    BY DEF Knows, ListsKnow
  <2>5. ListsKnow(o)'
    BY <1>1, <1>3, <2>1, <2>2, <2>3, <2>4 DEF Knows, ListsKnow, worldVars
  <2>6. ASSUME worker.owner = o PROVE VisitKnows(o)'
    <3>1. VisitKnows(o)
      BY <1>1, <2>6 DEF Knows, Visiting
    <3>2. /\ worker'.base = api'[o]
          /\ Written(api'[o].anns, RateOf(o, worker.pod)) = api'[o].anns
      BY <1>3, <2>6, JobWritten
    <3>3. worker.pod \in PodsOf(o)
      BY <3>1 DEF VisitKnows
    <3>4. RateOf(o, worker.pod)' = RateOf(o, worker.pod)
      BY <1>1, <2>1 DEF RateOf, Undisturbed, worldVars
    <3>5. SameWorld(worker.base, o)'
      BY <3>2 DEF SameWorld, Undisturbed
    <3>6. Written(worker'.base.anns, RateOf(o, worker.pod)') = worker'.base.anns
      BY <3>2, <3>4
    <3>7. /\ worker.perHour = cost[worker.pod]
          /\ worker.pod \in worker.loading <=> IsPodLoading(pods[worker.pod])
          /\ worker.perToken = IF worker.pod \notin worker.loading THEN tokens[worker.pod]
                               ELSE Absent
      BY <1>1, <3>1 DEF VisitKnows
    <3> HIDE DEF RateOf
    <3> QED
      BY <1>1, <1>3, <2>1, <2>2, <2>6, <3>2, <3>3, <3>5, <3>6, <3>7
      DEF VisitKnows, worldVars
  <2> QED
    BY <2>1, <2>5, <2>6 DEF Knows, Visiting
<1> QED
  BY <1>2, <1>3

LEMMA StartKnows ==
  ASSUME TypeOK, NEW o \in Owners, api[o] # Absent, Knows(o), Undisturbed(o),
         StartTick \/ ListOwners
  PROVE  Knows(o)'
<1>1. UNCHANGED <<ownerVars, worldVars>>
  BY DEF StartTick, ListOwners
<1>2. CacheKnows(o)'
  BY <1>1 DEF Knows, CacheKnows, SameWorld, ownerVars
<1>3. worker'.pc \in {"pods", "owners"}
  BY DEF StartTick, ListOwners, Idle
<1>4. ListsKnow(o)'
  <2>1. CASE StartTick
    <3>1. /\ worker'.todo = {p \in Pods : pods[p] # Absent /\ GPUs[p] > 0}
          /\ worker'.loading = {p \in worker'.todo : IsPodLoading(pods[p])}
          /\ worker'.listed[o] = Absent
      BY <2>1 DEF StartTick, Idle
    <3>2. \A p \in Pods : o \in Targets(p, api)' <=> o \in Targets(p, api)
      BY PodsAreKept
    <3> QED
      BY <1>1, <3>1, <3>2 DEF ListsKnow, PodsOf, worldVars
  <2>2. CASE ListOwners
    <3>1. /\ worker'.todo = {}
          /\ worker'.listed[o] = IF KindOf[o] = "kserve" THEN api[o] ELSE Absent
      BY <2>2 DEF ListOwners, Idle
    <3> QED
      BY <1>1, <3>1 DEF ListsKnow, ownerVars
  <2> QED
    BY <2>1, <2>2
<1> QED
  BY <1>2, <1>3, <1>4 DEF Knows, Visiting

LEMMA CheckKnows ==
  ASSUME TypeOK, NEW o \in Owners, api[o] # Absent, Knows(o), Undisturbed(o),
         NEW owner \in Owners, CheckOwner(owner)
  PROVE  Knows(o)'
<1>1. worker \in Workers /\ UNCHANGED <<ownerVars, worldVars>>
  BY DEF TypeOK, WorkerOK, CheckOwner
<1>2. CacheKnows(o)' /\ api'[o] = api[o]
  BY <1>1 DEF Knows, CacheKnows, SameWorld, ownerVars
<1>3. CASE worker' = [worker EXCEPT !.listed[owner] = Absent]
  <2>1. /\ worker'.pc = "owners" /\ worker'.todo = worker.todo
        /\ worker'.loading = worker.loading
        /\ worker'.listed[o] \in {worker.listed[o], Absent}
    BY <1>1, <1>3 DEF CheckOwner, Workers
  <2> QED
    BY <1>2, <2>1, KnowsBetween
<1>4. CASE /\ worker' = [worker EXCEPT !.pc = "zero", !.owner = owner]
           /\ PredictorReadyReplicas(worker.listed[owner].world) = {0}
           /\ ~HasActivePods(owner)
  <2>1. /\ worker'.pc = "zero" /\ worker'.owner = owner /\ worker'.todo = worker.todo
        /\ worker'.loading = worker.loading /\ worker'.listed = worker.listed
    BY <1>1, <1>4 DEF Workers
  <2>2. Idled(o)' <=> Idled(o)
    BY PodsAreKept
  <2>3. ListsKnow(o)'
    BY <1>1, <2>1 DEF Knows, ListsKnow, Targets, RayServices, NamedOwners,
                      PodsOf, ownerVars, worldVars
  <2>4. owner = o => Idled(o)
    BY <1>4 DEF CheckOwner, Knows, ListsKnow, Idled
  <2> QED
    BY <1>2, <2>1, <2>2, <2>3, <2>4 DEF Knows, Visiting
<1> QED
  BY <1>3, <1>4 DEF CheckOwner

(* What the patcher knows of an owner that nothing disturbs stays true     *)
(* through ticks, failed calls, restarts and the changes of all others.    *)
LEMMA TickKnows ==
  ASSUME TypeOK, NEW o \in Owners, api[o] # Absent, Knows(o), Undisturbed(o), TickStep
  PROVE  Knows(o)'
<1>1. /\ Follows(o) /\ (api'[o] = api[o] \/ worker.owner = o)
      /\ UNCHANGED ownerVars => api'[o] = api[o]
  BY PatcherStep DEF ownerVars
<1>2. CacheKnows(o)'
  BY <1>1, FollowsKeeps DEF TypeOK, Knows, Undisturbed
<1>3. worker \in Workers
  BY DEF TypeOK, WorkerOK
<1>4. CASE RemoveCost \/ WriteJobTotal \/ WriteRefused
  <2>1. worker' = NextPod
    BY <1>4 DEF RemoveCost, WriteJobTotal, WriteRefused
  <2>2. /\ worker'.pc = "pods" /\ worker'.todo = worker.todo
        /\ worker'.loading = worker.loading /\ worker'.listed[o] = Absent
    BY <2>1 DEF NextPod, Idle
  <2> QED
    BY <1>2, <2>2, KnowsBetween
<1>5. CASE ZeroRefused \/ EndTick
  <2>1. worker'.pc = "idle" /\ worker'.todo = {} /\ worker'.listed[o] = Absent
    BY <1>5 DEF ZeroRefused, EndTick, Idle
  <2> QED
    BY <1>2, <2>1, KnowsBetween
<1>6. CASE WriteZero
  <2>1. /\ worker'.pc = "owners" /\ worker'.todo = worker.todo
        /\ worker'.loading = worker.loading
        /\ worker'.listed[o] = IF worker.owner = o THEN Absent ELSE worker.listed[o]
    BY <1>3, <1>6 DEF WriteZero, NextOwner, Workers
  <2> QED
    BY <1>1, <1>2, <2>1, KnowsBetween
<1>7. ASSUME NEW p \in Pods, SkipPod(p) PROVE Knows(o)'
  <2>1. /\ worker'.pc = "pods" /\ worker'.todo \subseteq worker.todo
        /\ worker'.loading = worker.loading /\ worker'.listed = worker.listed
        /\ UNCHANGED ownerVars
    BY <1>3, <1>7 DEF SkipPod, Workers
  <2> QED
    BY <1>1, <1>2, <2>1, KnowsBetween
<1>8. CASE WriteCost
  BY <1>1, <1>2, <1>8, WriteKnows
<1>9. CASE QueryCost \/ QueryToken
  BY <1>9, QueryKnows
<1>10. CASE StartTick \/ ListOwners
  BY <1>10, StartKnows
<1>11. ASSUME NEW owner \in Owners, CheckOwner(owner) PROVE Knows(o)'
  BY <1>11, CheckKnows
<1>12. ASSUME NEW p \in Pods, ResolveTarget(p) PROVE Knows(o)'
  BY <1>12, ResolveKnows
<1> QED
  BY <1>4, <1>5, <1>6, <1>7, <1>8, <1>9, <1>10, <1>11, <1>12 DEF TickStep

LEMMA FailureKnows ==
  ASSUME TypeOK, NEW o \in Owners, api[o] # Absent, Knows(o), Undisturbed(o), ApiFails
  PROVE  Knows(o)'
<1>1. Follows(o)
  BY PatcherStep
<1>2. CacheKnows(o)'
  BY <1>1, FollowsKeeps DEF TypeOK, Knows, Undisturbed
<1>3. CASE worker' = Idle
  <2>1. worker'.pc = "idle" /\ worker'.todo = {} /\ worker'.listed[o] = Absent
    BY <1>3 DEF Idle
  <2> QED
    BY <1>2, <2>1, KnowsBetween
<1>4. CASE worker' = NextPod
  <2>1. /\ worker'.pc = "pods" /\ worker'.todo = worker.todo
        /\ worker'.loading = worker.loading /\ worker'.listed[o] = Absent
    BY <1>4 DEF NextPod, Idle
  <2> QED
    BY <1>2, <2>1, KnowsBetween
<1>5. CASE /\ worker.pc = "pods" /\ UNCHANGED ownerVars
           /\ \E p \in worker.todo : worker' = [worker EXCEPT !.todo = @ \ {p}]
  <2>1. /\ worker'.pc = "pods" /\ worker'.todo \subseteq worker.todo
        /\ worker'.loading = worker.loading /\ worker'.listed = worker.listed
    BY <1>5 DEF TypeOK, WorkerOK, Workers
  <2>2. api'[o] = api[o]
    BY <1>5 DEF ownerVars
  <2> QED
    BY <1>2, <2>1, <2>2, KnowsBetween
<1> QED
  BY <1>3, <1>4, <1>5 DEF ApiFails

LEMMA KnowsStep ==
  ASSUME TypeOK, [Next]_vars, NEW o \in Owners, api[o] # Absent, Knows(o), Undisturbed(o)
  PROVE  Knows(o)'
<1>1. CASE TickStep
  BY <1>1, TickKnows
<1>2. CASE ApiFails
  BY <1>2, FailureKnows
<1>3. CASE ~TickStep /\ ~ApiFails
  <2>1. api'[o] = api[o] /\ CacheKnows(o)' /\ (Restart \/ worker' = worker)
    BY <1>3, OthersStep DEF Knows
  <2>2. CASE Restart
    <3>1. worker'.pc = "idle" /\ worker'.todo = {} /\ worker'.listed[o] = Absent
      BY <2>2 DEF Restart, Idle
    <3> QED
      BY <2>1, <3>1, KnowsBetween
  <2> QED
    BY <2>1, <2>2, KnowsMid
<1> QED
  BY <1>1, <1>2, <1>3

-----------------------------------------------------------------------------
(* Visits.                                                                 *)

(* Whoever changes the owner is the patcher, which has it in hand.         *)
LEMMA OwnerStep ==
  ASSUME TypeOK, [Next]_vars, NEW o \in Owners, api[o] # Absent, Knows(o), Undisturbed(o)
  PROVE  /\ api'[o] = api[o] \/ (Writes /\ worker.owner = o)
         /\ CacheUpToDate(o) /\ api'[o] = api[o] => CacheUpToDate(o)'
<1>1. CASE TickStep \/ ApiFails
  BY <1>1, PatcherStep, FollowsKeeps DEF TypeOK, Undisturbed
<1>2. CASE ~TickStep /\ ~ApiFails
  BY <1>2, OthersStep
<1> QED
  BY <1>1, <1>2

(* An owner at rest is not changed, and stays at rest.                     *)
LEMMA RestStep ==
  ASSUME TypeOK, [Next]_vars, NEW o \in Owners, api[o] # Absent, Knows(o), Undisturbed(o),
         AtRest(o)
  PROVE  AtRest(o)' /\ api'[o] = api[o]
<1>1. api'[o] = api[o]
  BY OwnerStep, WriteAtRest
<1> QED
  BY <1>1, RestIsKept

(* A visit goes on with the object it has, with what it reads, or with     *)
(* what it wrote.                                                          *)
LEMMA VisitBase ==
  ASSUME TypeOK, [Next]_vars, NEW o \in Owners, Visiting(o)'
  PROVE  \/ Visiting(o) /\ worker'.base = worker.base
         \/ worker'.base = Read[o] /\ UNCHANGED ownerVars
         \/ worker'.base = api'[o]
<1>1. worker \in Workers
  BY DEF TypeOK, WorkerOK
<1>2. CASE worker' = worker
  BY <1>2 DEF Visiting
<1>3. CASE worker' = Idle \/ worker' = NextPod
  <2>1. worker'.pc \in {"idle", "pods"}
    BY <1>3, IdleType, NextWorkers
  <2> QED
    BY <2>1 DEF Visiting
<1>4. CASE QueryCost \/ QueryToken
  BY <1>1, <1>3, <1>4 DEF QueryCost, QueryToken, Workers, Visiting
<1>5. CASE WriteCost
  <2>1. CASE KindOf[worker.owner] # "kubeflow-trainer"
    BY <1>3, <1>5, <2>1 DEF WriteCost
  <2>2. CASE KindOf[worker.owner] = "kubeflow-trainer"
    <3>1. /\ worker.pc = "write" /\ worker'.owner = worker.owner
          /\ worker'.base \in {worker.base, api'[worker.owner]}
      BY <1>1, <1>5, <2>2 DEF WriteCost, Workers
    <3> QED
      BY <3>1 DEF Visiting
  <2> QED
    BY <2>1, <2>2
<1>6. ASSUME NEW p \in Pods, ResolveTarget(p)
      PROVE  worker'.base = Read[o] /\ UNCHANGED ownerVars
  <2>1. PICK owner \in Targets(p, Read) :
          worker' = [NextPod EXCEPT !.pc = "cost", !.todo = @ \ {p}, !.pod = p,
                                    !.owner = owner, !.base = Read[owner]]
    BY <1>6, Zenon DEF ResolveTarget
  <2>2. worker'.owner = owner /\ worker'.base = Read[owner]
    BY <2>1 DEF NextPod, Idle
  <2>3. UNCHANGED ownerVars
    BY <1>6 DEF ResolveTarget
  <2> QED
    BY <2>2, <2>3 DEF Visiting
<1>7. CASE StartTick \/ ListOwners
  BY <1>7 DEF StartTick, ListOwners, Idle, Visiting
<1>8. ASSUME NEW p \in Pods, SkipPod(p) PROVE FALSE
  BY <1>1, <1>8 DEF SkipPod, Workers, Visiting
<1>9. CASE WriteZero
  BY <1>1, <1>9 DEF WriteZero, NextOwner, Workers, Visiting
<1>10. ASSUME NEW owner \in Owners, CheckOwner(owner) PROVE FALSE
  BY <1>1, <1>10 DEF CheckOwner, Workers, Visiting
<1>11. CASE RemoveCost \/ WriteJobTotal \/ WriteRefused \/ ZeroRefused \/ EndTick
  BY <1>3, <1>11 DEF RemoveCost, WriteJobTotal, WriteRefused, ZeroRefused, EndTick
<1>12. CASE TickStep
  BY <1>4, <1>5, <1>6, <1>7, <1>8, <1>9, <1>10, <1>11, <1>12 DEF TickStep
<1>13. CASE ApiFails
  <2>1. CASE /\ worker.pc = "pods"
             /\ \E p \in worker.todo : worker' = [worker EXCEPT !.todo = @ \ {p}]
    BY <1>1, <2>1 DEF Workers, Visiting
  <2> QED
    BY <1>3, <1>13, <2>1 DEF ApiFails
<1>14. CASE Environment /\ ~ApiFails
  BY <1>2, <1>3, <1>14
  DEF Environment, DeleteOwner, ChangeOwner, ChangePod, ChangeCost, ChangeTokens, ChangeProm,
      Restart
<1>15. CASE (\E owner \in Owners : Deliver(owner)) \/ UNCHANGED vars
  BY <1>2, <1>15 DEF Deliver, vars
<1> QED
  BY <1>12, <1>13, <1>14, <1>15 DEF Next

(* So nothing falls behind an owner that does not change.                  *)
LEMMA CurrentStep ==
  ASSUME TypeOK, [Next]_vars, NEW o \in Owners, api[o] # Absent, Knows(o), Undisturbed(o),
         UpToDate(o), api'[o] = api[o]
  PROVE  UpToDate(o)'
<1>1. CacheUpToDate(o)'
  BY OwnerStep DEF UpToDate
<1>2. Read[o] = api[o]
  BY DEF Read, UpToDate, CacheUpToDate
<1>3. Visiting(o)' => worker'.base = api'[o]
  BY <1>2, VisitBase DEF UpToDate
<1> QED
  BY <1>1, <1>3 DEF UpToDate

(* A write from an up-to-date base brings the owner to rest, or goes on to *)
(* the total of its job with an up-to-date base again.                     *)
LEMMA VisitStep ==
  ASSUME TypeOK, [Next]_vars, NEW o \in Owners, api[o] # Absent, Knows(o), Undisturbed(o),
         UpToDate(o), Agreed(o)
  PROVE  /\ AtRest(o)' \/ UpToDate(o)'
         /\ Visited(o) => AtRest(o)'
<1>1. api'[o] = api[o] => UpToDate(o)'
  BY CurrentStep
<1>2. ASSUME Writes, worker.owner = o, worker.pc = "write" => KindOf[o] # "kubeflow-trainer"
      PROVE  AtRest(o)'
  BY <1>2, WriteSettles
<1>3. ASSUME api'[o] # api[o], worker.pc = "write", KindOf[o] = "kubeflow-trainer"
      PROVE  UpToDate(o)'
  <2>1. worker.owner = o
    BY <1>3, OwnerStep
  <2>2. CacheUpToDate(o)'
    BY <1>3 DEF CacheUpToDate, Typed
  <2>3. Visiting(o)' => worker'.base = api'[o]
    <3>1. CASE TickStep
      <4>1. WriteCost \/ WriteRefused
        BY <1>3, <3>1 DEF TickStep, StartTick, QueryCost, QueryToken, RemoveCost,
                          WriteJobTotal, ListOwners, WriteZero, ZeroRefused, EndTick,
                          ResolveTarget, SkipPod, CheckOwner
      <4>2. CASE WriteCost
        BY <1>3, <2>1, <4>2, JobWritten
      <4>3. CASE WriteRefused
        BY <4>3 DEF WriteRefused, NextPod, Idle, Visiting
      <4> QED
        BY <4>1, <4>2, <4>3
    <3>2. CASE ApiFails
      BY <1>3, <3>2 DEF ApiFails, NextPod, Idle, Visiting
    <3>3. CASE ~TickStep /\ ~ApiFails
      BY <1>3, <3>3, OthersStep
    <3> QED
      BY <3>1, <3>2, <3>3
  <2> QED
    BY <2>2, <2>3 DEF UpToDate
<1>4. Visited(o) =>
        Writes /\ worker.owner = o /\ (worker.pc = "write" => KindOf[o] # "kubeflow-trainer")
  BY DEF Visited, RemoveCost, WriteJobTotal, WriteZero, WriteCost, Writes
<1>5. Visited(o) => AtRest(o)'
  BY <1>2, <1>4
<1>6. api'[o] # api[o] => Writes /\ worker.owner = o
  BY OwnerStep
<1> QED
  BY <1>1, <1>2, <1>3, <1>5, <1>6

(* The steps of owners on track, all together.                             *)
LEMMA TrackStep ==
  ASSUME TypeOK, [Next]_vars, NEW o \in Owners, OnTrack(o), Undisturbed(o)
  PROVE  /\ OnTrack(o)'
         /\ Visited(o) => AtRest(o)'
         /\ AtRest(o) => AtRest(o)' /\ api'[o] = api[o]
<1>1. api[o] # Absent /\ Knows(o) /\ api'[o] # Absent /\ Knows(o)'
  BY KnowsStep DEF OnTrack, Undisturbed
<1>2. AtRest(o) => AtRest(o)' /\ api'[o] = api[o]
  BY <1>1, RestStep
<1>3. ASSUME ~AtRest(o)
      PROVE  (AtRest(o)' \/ (UpToDate(o)' /\ Agreed(o)')) /\ (Visited(o) => AtRest(o)')
  <2>1. UpToDate(o) /\ Agreed(o)
    BY <1>3 DEF OnTrack
  <2> QED
    BY <1>1, <2>1, VisitStep, PodsAreKept
<1> QED
  BY <1>1, <1>2, <1>3 DEF OnTrack

(* One visit that reaches its end is enough to write the right annotations *)
(* of an owner the patcher knows and whose pods agree; later visits write  *)
(* nothing else, even from an older base.                                  *)
THEOREM VisitsSettle == Spec => OneVisitSettles
<1>1. TypeOK /\ [Next]_vars =>
        \A o \in Owners :
          OnTrack(o) /\ Undisturbed(o)
            => /\ OnTrack(o)'
               /\ Visited(o) => AtRest(o)'
               /\ AtRest(o) => AtRest(o)' /\ api'[o] = api[o]
  BY TrackStep
<1> QED
  BY <1>1, PatcherTypeCorrect, PTL DEF Spec, OneVisitSettles

LEMMA SteadyIsKept ==
  ASSUME TypeOK, [Next]_vars, NEW o \in Owners, Steady(o), Undisturbed(o)
  PROVE  Steady(o)' /\ api'[o] = api[o]
<1>1. api[o] # Absent /\ Knows(o) /\ AtRest(o) /\ UpToDate(o) /\ api'[o] # Absent
  BY DEF Steady, Undisturbed
<1> QED
  BY <1>1, RestStep, KnowsStep, CurrentStep DEF Steady

(* An owner whose annotations say what its pods do is left alone, and what *)
(* the patcher knows of it stays true, however the patcher is interrupted. *)
THEOREM SteadyOwners == Spec => SteadyOwnersAreLeftAlone
<1>1. TypeOK /\ [Next]_vars =>
        \A o \in Owners : Steady(o) /\ Undisturbed(o) => Steady(o)' /\ api'[o] = api[o]
  BY SteadyIsKept
<1> QED
  BY <1>1, PatcherTypeCorrect, PTL DEF Spec, SteadyOwnersAreLeftAlone

(* Annotations at rest are settled: the price of its pods, the fleet's, the    *)
(* job's total when it is due, none or zero where that is what is due.     *)
LEMMA RestIsSettled ==
  ASSUME TypeOK, NEW o \in Owners, api[o] # Absent, AtRest(o)
  PROVE  Settled(o)
<1>1. AtRest(o) /\ api[o] \in Objects
  BY DEF TypeOK, OwnersOK
<1>2. api[o].anns \in Annotations /\ api[o].world \in AllWorlds
  BY <1>1 DEF Objects
<1>3. ASSUME NEW p \in PodsOf(o), cost[p] # Absent
      PROVE  /\ api[o].anns.perReplica = cost[p]
             /\ api[o].anns.gpus = GPUs[p]
             /\ api[o].anns.token = IF IsPodLoading(pods[p]) THEN Absent ELSE tokens[p]
             /\ Positive(ReplicasFromTarget(KindOf[o], api[o].world))
                  => api[o].anns.total = cost[p] * ReplicasFromTarget(KindOf[o], api[o].world)
  <2>1. Written(api[o].anns, RateOf(o, p)) = api[o].anns
    BY <1>1, <1>3 DEF AtRest
  <2>2. GPUs[p] # Absent
    BY PatcherAssumption DEF PatcherAssumption, PodsOf
  <2> QED
    BY <1>2, <2>1, <2>2 DEF Written, RateOf, Annotations, Keys
<1>4. ASSUME NEW p \in PodsOf(o), cost[p] # Absent, KindOf[o] = "kubeflow-trainer",
             Terminal(api[o].world.job.conditions), TrainJobDuration(api[o].world.job) > 0
      PROVE  api[o].anns.job # Absent
  <2>1. TotalJobCost(api[o], cost[p]) = api[o].anns
    BY <1>1, <1>4 DEF AtRest
  <2>2. cost[p] \in Nat /\ TrainJobDuration(api[o].world.job) \in Nat
    BY <1>2, <1>4, PatcherAssumption DEF PatcherAssumption, TypeOK, WorldOK, PodsOf
  <2>3. cost[p] * TrainJobDuration(api[o].world.job) \in Nat
    BY <2>2
  <2>4. cost[p] * TrainJobDuration(api[o].world.job) # Absent
    BY <2>3, PatcherAssumption DEF PatcherAssumption
  <2> DEFINE sum == cost[p] * TrainJobDuration(api[o].world.job)
  <2>5. api[o].anns.job = Absent => api[o].anns = [api[o].anns EXCEPT !.job = sum]
    BY <1>4, <2>1 DEF TotalJobCost
  <2> HIDE DEF sum
  <2>6. api[o].anns.job = Absent => api[o].anns.job = sum
    BY <1>2, <2>5 DEF Annotations, Keys
  <2> QED
    BY <2>4, <2>6 DEF sum
<1>5. PodsOf(o) # {} /\ Priced(o) = PodsOf(o) => Quoted(o)
  <2> SUFFICES ASSUME PodsOf(o) # {}, Priced(o) = PodsOf(o) PROVE Quoted(o)
    OBVIOUS
  <2>1. PICK p \in PodsOf(o) : cost[p] # Absent
    BY DEF Priced
  <2>2. ReplicasFromTarget(KindOf[o], api[o].world) \in Nat
    BY <1>2, ReplicasType
  <2>3. ReplicasFromTarget(KindOf[o], api[o].world) > 0
          => Positive(ReplicasFromTarget(KindOf[o], api[o].world))
    BY <2>2, PatcherAssumption DEF PatcherAssumption, Positive
  <2> QED
    BY <1>3, <1>4, <2>1, <2>3 DEF Quoted
<1>6. PodsOf(o) # {} /\ Priced(o) = {} => api[o].anns = Removed(api[o].anns)
  BY <1>1 DEF AtRest, Priced
<1>7. Idled(o) => api[o].anns.perReplica = 0 /\ api[o].anns.token = Absent
  <2> SUFFICES ASSUME Idled(o) PROVE api[o].anns.perReplica = 0 /\ api[o].anns.token = Absent
    OBVIOUS
  <2> DEFINE anns == api[o].anns
  <2>1. anns \in Annotations /\ Zeroed(o, anns) = anns
    BY <1>1, <1>2 DEF AtRest
  <2> HIDE DEF anns
  <2>2. anns.perReplica = 0 /\ anns.token = Absent
    BY <2>1, FixedFields DEF Zeroed
  <2> QED
    BY <2>2 DEF anns
<1> QED
  BY <1>5, <1>6, <1>7 DEF Settled

(* Once an owner the patcher knows is at rest its annotations are settled  *)
(* for good, for as long as its pods, their prices and the owner itself    *)
(* stay what they are: what AnnotationsSettle reaches is never left again  *)
(* by the patcher.                                                         *)
THEOREM SettledOwnersStaySettled ==
  ASSUME NEW o \in Owners
  PROVE  Spec => [](OnTrack(o) /\ AtRest(o) /\ [][Undisturbed(o)]_vars => []Settled(o))
<1>1. TypeOK /\ [Next]_vars /\ OnTrack(o) /\ AtRest(o) /\ Undisturbed(o)
        => OnTrack(o)' /\ AtRest(o)'
  BY TrackStep
<1>2. UNCHANGED vars /\ OnTrack(o) => Undisturbed(o)
  BY DEF vars, ownerVars, worldVars, OnTrack, Undisturbed
<1>3. TypeOK /\ OnTrack(o) /\ AtRest(o) => Settled(o)
  BY RestIsSettled DEF OnTrack
<1> QED
  BY <1>1, <1>2, <1>3, PatcherTypeCorrect, PTL DEF Spec

-----------------------------------------------------------------------------
(* The variant of a tick.                                                  *)

(* The owners the loop over owners has not yet done with.                  *)
Open(w) == {o \in Owners : w.listed[o] # Absent}

(* What the variant is at each stage.                                      *)
LEMMA StepsAt ==
  ASSUME NEW w
  PROVE  /\ w.pc = "idle" => StepsAhead(w) = 0
         /\ w.pc = "owners" => StepsAhead(w) = 2 * Cardinality(Open(w)) + 1
         /\ w.pc = "zero" => StepsAhead(w) = 2 * Cardinality(Open(w))
         /\ w.pc = "pods" =>
              StepsAhead(w) = 0 + 5 * Cardinality(w.todo) + 2 * Cardinality(Owners) + 2
         /\ w.pc = "cost" =>
              StepsAhead(w) = 4 + 5 * Cardinality(w.todo) + 2 * Cardinality(Owners) + 2
         /\ w.pc = "token" =>
              StepsAhead(w) = 3 + 5 * Cardinality(w.todo) + 2 * Cardinality(Owners) + 2
         /\ w.pc = "write" =>
              StepsAhead(w) = 2 + 5 * Cardinality(w.todo) + 2 * Cardinality(Owners) + 2
         /\ w.pc \in {"total", "remove"} =>
              StepsAhead(w) = 1 + 5 * Cardinality(w.todo) + 2 * Cardinality(Owners) + 2
BY DEF StepsAhead, Open

(* Pods to visit and owners to check are finitely many.                    *)
LEMMA CountsType ==
  ASSUME IsFiniteSet(Pods), IsFiniteSet(Owners), NEW w \in Workers
  PROVE  /\ IsFiniteSet(w.todo) /\ IsFiniteSet(Open(w))
         /\ Cardinality(w.todo) \in Nat /\ Cardinality(Open(w)) \in Nat
         /\ Cardinality(Owners) \in Nat /\ Cardinality(Open(w)) <= Cardinality(Owners)
<1>1. w.todo \in SUBSET Pods /\ Open(w) \in SUBSET Owners
  BY DEF Workers, Open
<1> QED
  BY <1>1, FS_Subset, FS_CardinalityType

(* One thing less to do.                                                   *)
LEMMA OneLess ==
  ASSUME NEW S, IsFiniteSet(S), NEW x \in S
  PROVE  Cardinality(S \ {x}) = Cardinality(S) - 1 /\ Cardinality(S) \in Nat \ {0}
<1>1. Cardinality(S) \in Nat
  BY FS_CardinalityType
<1>2. Cardinality(S) # 0
  BY FS_EmptySet
<1>3. Cardinality(S \ {x}) = Cardinality(S) - 1
  BY FS_RemoveElement
<1> QED
  BY <1>1, <1>2, <1>3

(* The variant is positive while a tick lasts.                             *)
LEMMA StepsType ==
  ASSUME TypeOK, IsFiniteSet(Pods), IsFiniteSet(Owners), worker.pc # "idle"
  PROVE  StepsAhead(worker) \in Nat \ {0}
<1>1. worker \in Workers /\ worker.pc \in Stages
  BY DEF TypeOK, WorkerOK, Workers
<1>2. CASE worker.pc = "zero"
  <2>1. worker.owner \in Open(worker)
    BY <1>2, WriteTypes, PatcherAssumption DEF TypeOK, WorkerOK, Open
  <2>2. Cardinality(Open(worker)) \in Nat \ {0}
    BY <1>1, <2>1, CountsType, OneLess
  <2> QED
    BY <1>2, <2>2, StepsAt
<1>3. CASE worker.pc = "owners"
  BY <1>1, <1>3, CountsType, StepsAt
<1>4. CASE worker.pc \in {"pods", "cost", "token", "write", "total", "remove"}
  BY <1>1, <1>4, CountsType, StepsAt
<1> QED
  BY <1>1, <1>2, <1>3, <1>4 DEF Stages

(* Giving up the tick leaves nothing to do.                                *)
LEMMA IdleEnds ==
  ASSUME TypeOK, IsFiniteSet(Pods), IsFiniteSet(Owners), worker.pc # "idle", worker' = Idle
  PROVE  StepsAhead(worker') \in 0..(StepsAhead(worker) - 1)
<1>1. StepsAhead(Idle) = 0
  BY IdleType, StepsAt
<1> QED
  BY <1>1, StepsType

(* A pod done with: back to the loop with the pods that remain.            *)
LEMMA PodDone ==
  ASSUME TypeOK, IsFiniteSet(Pods), IsFiniteSet(Owners),
         worker.pc \in {"cost", "token", "write", "total", "remove"}, worker' = NextPod
  PROVE  StepsAhead(worker') \in 0..(StepsAhead(worker) - 1)
<1>1. NextPod.pc = "pods" /\ NextPod.todo = worker.todo
  BY DEF NextPod, Idle
<1>2. worker \in Workers
  BY DEF TypeOK, WorkerOK
<1> QED
  BY <1>1, <1>2, CountsType, StepsAt

(* One stage of a visit further.                                           *)
LEMMA VisitGoesOn ==
  ASSUME TypeOK, IsFiniteSet(Pods), IsFiniteSet(Owners), worker'.todo = worker.todo,
         \/ worker.pc = "cost" /\ worker'.pc \in {"remove", "write", "token"}
         \/ worker.pc = "token" /\ worker'.pc = "write"
         \/ worker.pc = "write" /\ worker'.pc = "total"
  PROVE  StepsAhead(worker') \in 0..(StepsAhead(worker) - 1)
<1>1. worker \in Workers
  BY DEF TypeOK, WorkerOK
<1> QED
  BY <1>1, CountsType, StepsAt

(* A pod taken off the list, to be visited or passed over.                 *)
LEMMA PodTaken ==
  ASSUME TypeOK, IsFiniteSet(Pods), IsFiniteSet(Owners), worker.pc = "pods",
         NEW p \in worker.todo, worker'.todo = worker.todo \ {p},
         worker'.pc \in {"pods", "cost"}
  PROVE  StepsAhead(worker') \in 0..(StepsAhead(worker) - 1)
<1>1. worker \in Workers
  BY DEF TypeOK, WorkerOK
<1>2. /\ Cardinality(worker'.todo) = Cardinality(worker.todo) - 1
      /\ Cardinality(worker.todo) \in Nat \ {0}
  BY <1>1, CountsType, OneLess
<1>3. Cardinality(Owners) \in Nat
  BY <1>1, CountsType
<1>4. /\ StepsAhead(worker) = 0 + 5 * Cardinality(worker.todo) + 2 * Cardinality(Owners) + 2
      /\ \E n \in {0, 4} : StepsAhead(worker') =
           n + 5 * Cardinality(worker'.todo) + 2 * Cardinality(Owners) + 2
  BY StepsAt
<1> QED
  BY <1>2, <1>3, <1>4

(* An owner taken off the list.                                            *)
LEMMA OwnerTaken ==
  ASSUME TypeOK, IsFiniteSet(Pods), IsFiniteSet(Owners), worker.pc \in {"owners", "zero"},
         NEW o \in Owners, worker.listed[o] # Absent,
         worker'.pc = "owners", worker'.listed = [worker.listed EXCEPT ![o] = Absent]
  PROVE  StepsAhead(worker') \in 0..(StepsAhead(worker) - 1)
<1>1. worker \in Workers /\ worker.listed \in [Owners -> Objects \cup {Absent}]
  BY DEF TypeOK, WorkerOK, Workers
<1>2. o \in Open(worker) /\ Open(worker') = Open(worker) \ {o}
  BY <1>1 DEF Open
<1>3. /\ Cardinality(Open(worker')) = Cardinality(Open(worker)) - 1
      /\ Cardinality(Open(worker)) \in Nat \ {0}
  BY <1>1, <1>2, CountsType, OneLess
<1> QED
  BY <1>3, StepsAt

(* Every step of a tick but the first leaves fewer.                        *)
LEMMA TickStepAdvances ==
  ASSUME TypeOK, IsFiniteSet(Pods), IsFiniteSet(Owners), worker.pc # "idle", TickStep
  PROVE  StepsAhead(worker') \in 0..(StepsAhead(worker) - 1)
<1>1. worker \in Workers
  BY DEF TypeOK, WorkerOK
<1>2. ASSUME NEW p \in Pods, ResolveTarget(p)
      PROVE  StepsAhead(worker') \in 0..(StepsAhead(worker) - 1)
  <2>1. worker'.todo = worker.todo \ {p} /\ worker'.pc = "cost"
    BY <1>2 DEF ResolveTarget, NextPod, Idle
  <2> QED
    BY <1>2, <2>1, PodTaken DEF ResolveTarget
<1>3. ASSUME NEW p \in Pods, SkipPod(p)
      PROVE  StepsAhead(worker') \in 0..(StepsAhead(worker) - 1)
  <2>1. worker'.todo = worker.todo \ {p} /\ worker'.pc = "pods"
    BY <1>1, <1>3 DEF SkipPod, Workers
  <2> QED
    BY <1>3, <2>1, PodTaken DEF SkipPod
<1>4. CASE QueryCost
  <2>1. CASE prom = "down"
    BY <1>4, <2>1, IdleEnds DEF QueryCost
  <2>2. CASE prom # "down"
    <3>1. worker'.todo = worker.todo /\ worker'.pc \in {"remove", "write", "token"}
      BY <1>1, <1>4, <2>2 DEF QueryCost, Workers
    <3> QED
      BY <1>4, <3>1, VisitGoesOn DEF QueryCost
  <2> QED
    BY <2>1, <2>2
<1>5. CASE QueryToken
  <2>1. CASE prom = "down"
    BY <1>5, <2>1, IdleEnds DEF QueryToken
  <2>2. CASE prom # "down"
    <3>1. worker'.todo = worker.todo /\ worker'.pc = "write"
      BY <1>1, <1>5, <2>2 DEF QueryToken, Workers
    <3> QED
      BY <1>5, <3>1, VisitGoesOn DEF QueryToken
  <2> QED
    BY <2>1, <2>2
<1>6. CASE RemoveCost \/ WriteJobTotal \/ WriteRefused
  BY <1>6, PodDone DEF RemoveCost, WriteJobTotal, WriteRefused
<1>7. CASE WriteCost
  <2>1. CASE worker' = NextPod
    BY <1>7, <2>1, PodDone DEF WriteCost
  <2>2. CASE KindOf[worker.owner] = "kubeflow-trainer"
    <3>1. worker'.todo = worker.todo /\ worker'.pc = "total"
      BY <1>1, <1>7, <2>2 DEF WriteCost, Workers
    <3> QED
      BY <1>7, <3>1, VisitGoesOn DEF WriteCost
  <2> QED
    BY <1>7, <2>1, <2>2 DEF WriteCost
<1>8. CASE ListOwners
  <2>1. worker.pc = "pods" /\ worker'.pc = "owners"
    BY <1>8 DEF ListOwners, Idle
  <2>2. worker' \in Workers
    BY <1>8, OwnerLoopType DEF WorkerOK
  <2>3. /\ Cardinality(Open(worker')) \in Nat /\ Cardinality(Owners) \in Nat
        /\ Cardinality(Open(worker')) <= Cardinality(Owners)
        /\ Cardinality(worker.todo) \in Nat
    BY <1>1, <2>2, CountsType
  <2>4. /\ StepsAhead(worker') = 2 * Cardinality(Open(worker')) + 1
        /\ StepsAhead(worker) = 0 + 5 * Cardinality(worker.todo) + 2 * Cardinality(Owners) + 2
    BY <2>1, StepsAt
  <2> QED
    BY <2>3, <2>4
<1>9. ASSUME NEW o \in Owners, CheckOwner(o)
      PROVE  StepsAhead(worker') \in 0..(StepsAhead(worker) - 1)
  <2>1. worker.pc = "owners" /\ worker.listed[o] # Absent
    BY <1>9 DEF CheckOwner
  <2>2. CASE worker' = [worker EXCEPT !.pc = "zero", !.owner = o]
    <3>1. worker'.pc = "zero" /\ worker'.listed = worker.listed
      BY <1>1, <2>2 DEF Workers
    <3>2. Open(worker') = Open(worker)
      BY <3>1 DEF Open
    <3> QED
      BY <1>1, <2>1, <3>1, <3>2, CountsType, StepsAt
  <2>3. CASE worker' = [worker EXCEPT !.listed[o] = Absent]
    <3>1. worker'.pc = "owners" /\ worker'.listed = [worker.listed EXCEPT ![o] = Absent]
      BY <1>1, <2>1, <2>3 DEF Workers
    <3> QED
      BY <2>1, <3>1, OwnerTaken
  <2> QED
    BY <1>9, <2>2, <2>3 DEF CheckOwner
<1>10. CASE WriteZero
  <2>1. worker.pc = "zero" /\ worker.owner \in Owners /\ worker.listed[worker.owner] # Absent
    BY <1>10, WriteTypes DEF WriteZero, TypeOK, WorkerOK
  <2>2. /\ worker'.pc = "owners"
        /\ worker'.listed = [worker.listed EXCEPT ![worker.owner] = Absent]
    BY <1>1, <1>10 DEF WriteZero, NextOwner, Workers
  <2> QED
    BY <2>1, <2>2, OwnerTaken
<1>11. CASE ZeroRefused \/ EndTick
  BY <1>11, IdleEnds DEF ZeroRefused, EndTick
<1>12. ~StartTick
  BY DEF StartTick
<1> QED
  BY <1>2, <1>3, <1>4, <1>5, <1>6, <1>7, <1>8, <1>9, <1>10, <1>11, <1>12 DEF TickStep

(* A call that fails, or a restart, does too; all else leaves the tick.    *)
LEMMA OthersAdvanceOrWait ==
  ASSUME TypeOK, IsFiniteSet(Pods), IsFiniteSet(Owners), worker.pc # "idle",
         [Next]_vars, ~TickStep
  PROVE  StepsAhead(worker') \in 0..(StepsAhead(worker) - 1) \/ worker' = worker
<1>1. CASE ApiFails
  <2>1. CASE worker' = Idle
    BY <2>1, IdleEnds
  <2>2. CASE worker.pc \in {"remove", "write", "total"} /\ worker' = NextPod
    BY <2>2, PodDone
  <2>3. ASSUME worker.pc = "pods", NEW p \in worker.todo,
               worker' = [worker EXCEPT !.todo = @ \ {p}]
        PROVE  StepsAhead(worker') \in 0..(StepsAhead(worker) - 1)
    <3>1. worker'.todo = worker.todo \ {p} /\ worker'.pc = "pods"
      BY <2>3 DEF TypeOK, WorkerOK, Workers
    <3> QED
      BY <2>3, <3>1, PodTaken
  <2> QED
    BY <1>1, <2>1, <2>2, <2>3 DEF ApiFails
<1>2. CASE Restart
  BY <1>2, IdleEnds DEF Restart
<1>3. ASSUME NEW o \in Owners, DeleteOwner(o) \/ \E w \in Worlds[o] : ChangeOwner(o, w)
      PROVE  worker' = worker
  BY <1>3 DEF DeleteOwner, ChangeOwner
<1>4. ASSUME NEW p \in Pods,
             \/ \E s \in Phases \cup {Absent} : ChangePod(p, s)
             \/ \E r \in Rates \cup {Absent} : ChangeCost(p, r)
             \/ \E r \in TokenRates \cup {Absent} : ChangeTokens(p, r)
      PROVE  worker' = worker
  BY <1>4 DEF ChangePod, ChangeCost, ChangeTokens
<1>5. CASE \E s \in {"up", "down", "hung"} : ChangeProm(s)
  BY <1>5 DEF ChangeProm
<1>6. ASSUME NEW o \in Owners, Deliver(o) PROVE worker' = worker
  BY <1>6 DEF Deliver
<1>7. CASE UNCHANGED vars
  BY <1>7 DEF vars
<1> QED
  BY <1>1, <1>2, <1>3, <1>4, <1>5, <1>6, <1>7 DEF Next, Environment

(* reconcile goes through the pods it listed and the owners it listed, one *)
(* after another and none of them twice: with finitely many of either, no  *)
(* order of changes, failed calls and refused patches keeps a tick going.  *)
THEOREM TicksEnd ==
  ASSUME IsFiniteSet(Pods), IsFiniteSet(Owners)
  PROVE  Spec => TicksAreFinite
<1>1. TypeOK /\ [Next]_vars =>
        (worker.pc # "idle" =>
           \/ StepsAhead(worker') \in 0..(StepsAhead(worker) - 1)
           \/ worker' = worker /\ ~TickStep)
  BY TickStepAdvances, OthersAdvanceOrWait
<1> QED
  BY <1>1, PatcherTypeCorrect, PTL DEF Spec, TicksAreFinite
=============================================================================
