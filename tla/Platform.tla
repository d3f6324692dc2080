----------------------------- MODULE Platform -----------------------------
(***************************************************************************)
(* What the platform adapters of the cost patcher                          *)
(* (internal/costpatcher/platform, internal/adapters) compute without      *)
(* touching the cluster: which adapter claims a pod, how many GPUs it      *)
(* asks for, how many replicas its owner has, what a training job cost,    *)
(* and which annotations a cost result turns into.                         *)
(* Money is counted in the smallest step formatCost can print.             *)
(***************************************************************************)
EXTENDS Integers, Sequences, FiniteSetsExt, SequencesExt

CONSTANT Absent   \* a missing label, field, annotation, object or series

Positive(n) == n # Absent /\ n > 0

-----------------------------------------------------------------------------
(* Pods: their labels, their containers, their status.                     *)

(* A label record holds the contract platform token, the owner or cluster  *)
(* names in the labels of each platform, and the Deployment or StatefulSet *)
(* reached over controller references.                                     *)
LabelKeys == {"platform", "isvc", "step", "trainjob", "jobset", "serve",
              "cluster", "bento", "controller"}

DetectKServe(labels) == labels.platform = "kserve" \/ labels.isvc # Absent

DetectTrainer(labels) ==
  labels.platform = "kubeflow-trainer" \/ labels.step # Absent \/ labels.trainjob # Absent

DetectRay(labels) == labels.platform = "ray-serve" \/ labels.serve # Absent

DetectBento(labels) == labels.platform = "bentoml" \/ labels.bento # Absent

Registry == <<"kserve", "kubeflow-trainer", "ray-serve", "bentoml", "generic">>

Adapters == {"kserve", "kubeflow-trainer", "ray-serve", "bentoml", "generic"}

(* The first adapter of the registry that detects the pod.                 *)
Chosen(labels) ==
  LET detected == <<DetectKServe(labels), DetectTrainer(labels), DetectRay(labels),
                    DetectBento(labels), TRUE>>
  IN Registry[Min({i \in 1..5 : detected[i]})]

(* The JobSet of a TrainJob has its name.                                  *)
TrainJobName(labels) ==
  IF labels.trainjob # Absent THEN labels.trainjob ELSE labels.jobset

(* The name by which the chosen adapter looks for the owner.               *)
OwnerName(adapter, labels) ==
  CASE adapter = "kserve"           -> labels.isvc
    [] adapter = "kubeflow-trainer" -> TrainJobName(labels)
    [] adapter = "ray-serve"        -> labels.cluster
    [] adapter = "bentoml"          -> labels.bento
    [] adapter = "generic"          -> labels.controller

(* A container is [limit, request], each a number or Absent.               *)
ContainerGPUs(c) ==
  IF c.limit # Absent /\ c.limit # 0 THEN c.limit
  ELSE IF c.request # Absent THEN c.request ELSE 0

Total(containers) ==
  FoldSeq(LAMBDA c, sum : sum + ContainerGPUs(c), 0, containers)

(* Init containers count only if no container asks for a GPU.              *)
GPUCountFromPod(spec) ==
  IF Total(spec.main) > 0 THEN Total(spec.main) ELSE Total(spec.init)

(* The limit an InferenceService states for its model, else the largest of *)
(* its worker containers.  The path of the predictor's own limits has the  *)
(* length of neither and is never followed.                                *)
GPUCountFromUnstructured(spec) ==
  IF spec.model > 0 THEN spec.model ELSE Max(spec.workers \cup {0})

PodStatuses == [phase: {"Pending", "Running", "Succeeded", "Failed"},
                waiting: BOOLEAN,       \* a container waits for its image or sandbox
                terminating: BOOLEAN]

IsPodLoading(status) ==
  status.phase # "Running" /\ (status.waiting \/ status.phase = "Pending")

Active(status) == ~status.terminating /\ status.phase \in {"Running", "Pending"}

-----------------------------------------------------------------------------
(* Owners: replica counts and training jobs.                               *)

(* Deployments and StatefulSets trust a wanted count of 0, custom          *)
(* resources, which report more counts, do not.                            *)
ReplicasFromTarget(kind, world) ==
  IF kind = "generic"
  THEN IF Positive(world.ready) THEN world.ready
       ELSE IF world.wanted # Absent THEN world.wanted ELSE 1
  ELSE IF Positive(world.ready) THEN world.ready
       ELSE IF Positive(world.running) THEN world.running
       ELSE IF Positive(world.wanted) THEN world.wanted ELSE 1

(* The set holding the ready replicas of a predictor, empty if unknown:    *)
(* "predictor" is Absent without status.components.predictor, and {} if    *)
(* that map has no readyReplicas.                                          *)
PredictorReadyReplicas(world) ==
  IF world.predictor # Absent THEN world.predictor
  ELSE IF world.ready # Absent THEN {world.ready} ELSE {}

(* A job condition is [type, holds, at], at Absent if it has no valid time.*)
Terminal(conditions) ==
  \E c \in conditions : c.holds /\ c.type \in {"Complete", "Succeeded", "Failed"}

DurationFromConditions(conditions) ==
  LET dated == {c \in conditions : c.at # Absent}
      ends  == {c.at : c \in {d \in dated : Terminal({d})}}
      start == Min({c.at : c \in dated})
  IN IF ends # {} /\ Max(ends) > start THEN Max(ends) - start ELSE 0

(* In hours; 0 when the job's times say nothing.                           *)
TrainJobDuration(job) ==
  IF job.start # Absent /\ job.end # Absent /\ job.end > job.start
  THEN job.end - job.start
  ELSE DurationFromConditions(job.conditions)

-----------------------------------------------------------------------------
(* Annotations: the rate per replica under its new and its old key, the    *)
(* rate of the whole fleet, and so on.  last-updated-at is left out: it    *)
(* accompanies every write and decides none.                               *)

Keys == {"perReplica", "old", "total", "token", "gpus", "job"}

NoAnnotations == [k \in Keys |-> Absent]

(* Mutant: the deprecated key is written on first contact only.            *)
WrittenOldOnce(anns, res) ==
  [anns EXCEPT
     !.perReplica = res.perHour,
     !.old        = IF @ = Absent THEN res.perHour ELSE @,
     !.total      = IF Positive(res.replicas) THEN res.perHour * res.replicas ELSE @,
     !.token      = res.perToken,
     !.gpus       = IF res.gpus = Absent THEN @ ELSE res.gpus]

(* buildAnnotations merged into what is there; a missing token price is    *)
(* deleted.  shouldPatchCostAnnotations holds iff this changes anything.   *)
Written(anns, res) ==
  [anns EXCEPT
     !.perReplica = res.perHour,
     !.old        = res.perHour,
     !.total      = IF Positive(res.replicas) THEN res.perHour * res.replicas ELSE @,
     !.token      = res.perToken,
     !.gpus       = IF res.gpus = Absent THEN @ ELSE res.gpus]

(* RemoveCostAnnotations, with the keys the tick passes.                   *)
Removed(anns) == [NoAnnotations EXCEPT !.job = anns.job]

(* The merge patch from base to new, applied to what the server holds.     *)
MergePatch(server, base, new) ==
  [k \in Keys |-> IF new[k] # base[k] THEN new[k] ELSE server[k]]
=============================================================================
