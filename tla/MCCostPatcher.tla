--------------------------- MODULE MCCostPatcher ---------------------------
(* Small instances of CostPatcher for TLC.                                 *)
EXTENDS CostPatcher

CONSTANTS dep, isvc, tjob, rsvc, d1, d2, k1, t1, r1

(* A Deployment, an InferenceService, a TrainJob and a RayService.         *)
MCKindOf == [o \in Owners |-> CASE o = isvc -> "kserve"
                               [] o = tjob -> "kubeflow-trainer"
                               [] o = rsvc -> "ray-serve"
                               [] o = dep  -> "generic"]

MCOwnerSpecs == [o \in Owners |-> [model |-> 0, workers |-> {1}]]

NoJob == [start |-> Absent, end |-> Absent, conditions |-> {}]

World(ready, wanted, predictor, jobState) ==
  [ready |-> ready, running |-> Absent, wanted |-> wanted, predictor |-> predictor,
   cluster |-> Absent, job |-> jobState]

Complete == [type |-> "Complete", holds |-> TRUE, at |-> 5]
Created  == [type |-> "Created", holds |-> TRUE, at |-> 3]

RayWorld(active) == [World(1, 1, Absent, NoJob) EXCEPT !.cluster = active]

Serving(o)  == CASE o = isvc -> World(Absent, Absent, {1}, NoJob)
                 [] o = tjob -> World(Absent, Absent, Absent, NoJob)
                 [] o = rsvc -> RayWorld("blue")
                 [] o = dep  -> World(1, 2, Absent, NoJob)

(* One replica of two; scaled to zero; finished after two hours; upgraded  *)
(* to another cluster.                                                     *)
Finished(o) == CASE o = isvc -> World(Absent, Absent, {0}, NoJob)
                 [] o = tjob -> World(Absent, Absent, Absent,
                                      [NoJob EXCEPT !.conditions = {Created, Complete}])
                 [] o = rsvc -> RayWorld("green")
                 [] o = dep  -> World(0, 2, Absent, NoJob)

MCWorlds == [o \in Owners |-> {Serving(o), Finished(o)}]

NoLabels == [k \in LabelKeys |-> Absent]

MCLabels ==
  [p \in Pods |-> CASE p = k1 -> [NoLabels EXCEPT !.isvc = isvc, !.controller = dep]
                    [] p = t1 -> [NoLabels EXCEPT !.step = "trainer", !.jobset = tjob]
                    [] p = r1 -> [NoLabels EXCEPT !.serve = "app", !.cluster = "green"]
                    [] p \in {d1, d2} -> [NoLabels EXCEPT !.controller = dep]]

MCPodSpecs ==
  [p \in Pods |-> [main |-> <<[limit |-> 1, request |-> 1]>>, init |-> <<>>]]

Running == [phase |-> "Running", waiting |-> FALSE, terminating |-> FALSE]
Pending == [phase |-> "Pending", waiting |-> TRUE, terminating |-> FALSE]
MCPhases == {Running, Pending}

(* The InferenceService is scaled to zero, the cluster to which the        *)
(* RayService will be upgraded has no pod yet, the other pods run; all     *)
(* prices are known, those of pods that are not there included.            *)
MCStarts == {[worlds |-> [o \in Owners |-> IF o = isvc THEN Finished(o) ELSE Serving(o)],
              pods   |-> [p \in Pods |-> IF p \in {k1, r1} THEN Absent ELSE Running],
              cost   |-> [p \in Pods |-> 2],
              tokens |-> [p \in Pods |-> Absent]]}
=============================================================================
