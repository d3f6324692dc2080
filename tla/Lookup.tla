------------------------------- MODULE Lookup -------------------------------
(***************************************************************************)
(* kubefisher status and kubefisher logs: FindResource asks for the name   *)
(* kind by kind and takes the first object there is; logs then selects the *)
(* pods behind it, for which it reads a Deployment or a StatefulSet once   *)
(* more.                                                                   *)
(***************************************************************************)
EXTENDS Workloads

CONSTANTS
  Pods,      \* pods there may be
  LabelsOf   \* [Pods -> the set of their labels, <<key, value>>]

LookupOrder == [c \in Classes |-> CASE c = "kserve"      -> 1
                                    [] c = "bento"       -> 2
                                    [] c = "training"    -> 3
                                    [] c = "ray"         -> 4
                                    [] c = "Deployment"  -> 5
                                    [] c = "StatefulSet" -> 6]

Lookup == cmd.op \in {"status", "logs"}

(* Mutant: whichever kind answers first.                                   *)
GetInAnyOrder(s) ==
  /\ Lookup /\ cmd.pc = "read"
  /\ s \in cmd.todo
  /\ cmd' = IF objects[<<s, cmd.name>>] = Absent THEN [cmd EXCEPT !.todo = @ \ {s}]
            ELSE [cmd EXCEPT !.pc = "found", !.source = s]
  /\ UNCHANGED clusterVars

(* getUnstructured, and the Gets of Deployment and StatefulSet: the first  *)
(* object found is the answer.                                             *)
Get(s) ==
  /\ Lookup /\ cmd.pc = "read"
  /\ s \in First(LookupOrder)
  /\ cmd' = IF objects[<<s, cmd.name>>] = Absent THEN [cmd EXCEPT !.todo = @ \ {s}]
            ELSE [cmd EXCEPT !.pc = "found", !.source = s]
  /\ UNCHANGED clusterVars

NotFound ==
  /\ Lookup /\ cmd.pc = "read" /\ cmd.todo = {}
  /\ cmd' = [cmd EXCEPT !.pc = "notfound"]
  /\ UNCHANGED clusterVars

(* status prints what it has, logs goes on to the pods.                    *)
Found ==
  /\ cmd.pc = "found"
  /\ cmd' = [cmd EXCEPT !.pc = IF cmd.op = "status" THEN "shown" ELSE "selector"]
  /\ UNCHANGED clusterVars

-----------------------------------------------------------------------------
(* The pods of logs.                                                       *)

ByName(name) == {<<"app.kubernetes.io/name", name>>}

JobKinds == {"TrainJob", "PyTorchJob", "TFJob", "XGBoostJob", "MPIJob", "PaddleJob"}

(* podLabelSelector for version v of a workload: the labels logs wants a   *)
(* pod to have.  The matchExpressions of a selector are not looked at.     *)
Selector(s, name, v) ==
  CASE s \in BuiltIn -> IF v.selector # Absent THEN v.selector ELSE ByName(name)
    [] Kind(s) = "InferenceService" -> {<<"serving.kserve.io/inferenceservice", name>>}
    [] Kind(s) = "BentoDeployment"  -> {<<"yatai.bentoml.com/bento-deployment", name>>}
    [] Kind(s) \in JobKinds -> {<<"training.kubeflow.org/job-name", name>>}
    [] Kind(s) = "RayService" -> {<<"ray.io/serve-deployment", name>>}
    [] Kind(s) = "RayJob"     -> {<<"ray.io/job-name", name>>}
    [] Kind(s) = "RayCluster" -> {<<"ray.io/cluster-name", name>>}
    [] OTHER -> ByName(name)

(* Mutant: the fallback for every kind.                                    *)
SelectByName ==
  /\ cmd.pc = "selector"
  /\ cmd' = [cmd EXCEPT !.pc = "pods", !.labels = ByName(cmd.name)]
  /\ UNCHANGED clusterVars

(* A Deployment or StatefulSet is read again and may be gone by now; the   *)
(* other kinds have fixed labels.                                          *)
PodLabelSelector ==
  /\ cmd.pc = "selector"
  /\ LET v == objects[<<cmd.source, cmd.name>>]
     IN cmd' = IF cmd.source \in BuiltIn /\ v = Absent
               THEN [cmd EXCEPT !.pc = "failed"]
               ELSE [cmd EXCEPT !.pc = "pods", !.labels = Selector(cmd.source, cmd.name, v)]
  /\ UNCHANGED clusterVars

(* FindPodsForResource: any of the pods with the labels, one of which      *)
(* --pod may name, that happens to be running or pending; there may be     *)
(* none.                                                                   *)
FindPods ==
  /\ cmd.pc = "pods"
  /\ \/ \E p \in Pods : /\ cmd.labels \subseteq LabelsOf[p]
                        /\ cmd' = [cmd EXCEPT !.pc = "shown", !.pod = p]
     \/ cmd' = [cmd EXCEPT !.pc = "failed"]
  /\ UNCHANGED clusterVars

-----------------------------------------------------------------------------
(* Which pods a workload has, whatever logs takes for its labels.          *)

(* The name a pod has under a key.                                         *)
Named(p, key, name) == <<key, name>> \in LabelsOf[p]

(* inferenceServiceNameFromPod and bentoDeploymentNameFromPod, by which    *)
(* the cost patcher finds the workload a pod belongs to.                   *)
IsOfInferenceService(p, name) == Named(p, "serving.kserve.io/inferenceservice", name)
IsOfBentoDeployment(p, name)  == Named(p, "yatai.bentoml.com/bento-deployment", name)

(* Kubernetes: matchLabels and matchExpressions must both let a pod        *)
(* through; admits are the pods the expressions let through.               *)
IsSelected(p, v) ==
  /\ v.selector = Absent \/ v.selector \subseteq LabelsOf[p]
  /\ p \in v.admits

(* p is a pod of version v of a workload.                                  *)
Backs(p, s, name, v) ==
  \/ s \in BuiltIn /\ IsSelected(p, v)
  \/ Kind(s) = "InferenceService" /\ IsOfInferenceService(p, name)
  \/ Kind(s) = "BentoDeployment" /\ IsOfBentoDeployment(p, name)

(* Selected by labels only, and marked with those that logs asks for: not  *)
(* so the pods of a TrainJob or a RayService, and nothing is known of the  *)
(* kinds the cost patcher has no adapter for.                              *)
ByLabelsOnly(s, v) ==
  \/ s \in BuiltIn /\ v.selector # Absent /\ v.admits = Pods
  \/ Kind(s) \in {"InferenceService", "BentoDeployment"}

-----------------------------------------------------------------------------
(* The workload a lookup has decided on is one that was there, and a kind  *)
(* of higher priority was missing at some moment of the search; a name     *)
(* reported as not found was at some moment missing in every kind.  Only   *)
(* an API group the discovery lost twice may hold one.                     *)
LookupIsHonest ==
  LET Searched == Catalog(cmd.lost) \cup BuiltIn
  IN /\ Lookup /\ cmd.source # Absent =>
          /\ seen[<<cmd.source, cmd.name>>] # {Absent}
          /\ \A s \in Searched :
               LookupOrder[Class(s)] < LookupOrder[Class(cmd.source)]
                 => Absent \in seen[<<s, cmd.name>>]
     /\ cmd.pc = "notfound" => \A s \in Searched : Absent \in seen[<<s, cmd.name>>]

SeenOfFound == seen[<<cmd.source, cmd.name>>] \ {Absent}

LogsShown == cmd.op = "logs" /\ cmd.pc = "shown"

(* The pod whose log is streamed backs a version of the workload found,    *)
(* which may have been replaced since it was found, if every version there *)
(* was selects by labels only: those of an InferenceService, of a          *)
(* BentoDeployment, or a selector of a Deployment or a StatefulSet without *)
(* matchExpressions.                                                       *)
LogsFollowTheWorkload ==
  LogsShown /\ (\A v \in SeenOfFound : ByLabelsOnly(cmd.source, v)) =>
    \E v \in SeenOfFound : Backs(cmd.pod, cmd.source, cmd.name, v)
=============================================================================
