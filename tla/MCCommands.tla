----------------------------- MODULE MCCommands -----------------------------
(* A small cluster for the commands of the CLI.                            *)
EXTENDS Commands, TLC

(* BentoDeployments are served by two groups, and there are TrainJobs and  *)
(* InferenceServices.                                                      *)
MCGroupOf  == "bento.ai" :> "bento.ai" @@ "yatai.ai" :> "yatai.ai" @@
              "trainjobs" :> "kubeflow" @@ "isvcs" :> "kserve.io"
MCFamilyOf == "bento.ai" :> "bento" @@ "yatai.ai" :> "bento" @@
              "trainjobs" :> "training" @@ "isvcs" :> "kserve"
MCKindOf   == "bento.ai" :> "BentoDeployment" @@ "yatai.ai" :> "BentoDeployment" @@
              "trainjobs" :> "TrainJob" @@ "isvcs" :> "InferenceService"
MCResources == DOMAIN MCKindOf

Shape(limits, replicas, child, perReplica, old, total, selector, admits) ==
  [limits |-> limits, requests |-> limits, replicas |-> replicas, child |-> child,
   perReplica |-> perReplica, old |-> old, total |-> total, token |-> Absent,
   selector |-> selector, admits |-> admits]

(* A workload scaled to zero, with a rate somebody broke and a total that  *)
(* is left over; one that is not priced yet, the child of a                *)
(* BentoDeployment if it is a Deployment; and one with a selector of       *)
(* expressions only.                                                       *)
Idle   == Shape(1, 0, FALSE, Malformed, 3, 6, {<<"app", "a">>, <<"tier", "gpu">>}, Pods)
Served == Shape(1, 2, TRUE, Absent, Absent, Absent, {<<"app", "a">>}, Pods)
Picked == Shape(1, 1, FALSE, Absent, Absent, Absent, Absent, {"p1"})

MCShapes == [s \in MCResources \cup {"Deployment", "StatefulSet"} |->
               CASE s \in {"trainjobs", "isvcs"} -> {Idle}
                 [] s = "StatefulSet" -> {Picked}
                 [] s = "bento.ai" -> {Served}
                 [] OTHER -> {Idle, Served}]

MCPods == {"p1", "p2", "p3", "p4", "p5"}

(* All but p1 have the name n1 under some key.                             *)
MCLabels == [p \in MCPods |->
               CASE p = "p1" -> {<<"app", "a">>, <<"tier", "gpu">>}
                 [] p = "p2" -> {<<"app", "a">>, <<"app.kubernetes.io/name", "n1">>}
                 [] p = "p3" -> {<<"yatai.bentoml.com/bento-deployment", "n1">>}
                 [] p = "p4" -> {<<"serving.kserve.io/inferenceservice", "n1">>}
                 [] p = "p5" -> {<<"training.kubeflow.org/job-name", "n1">>}]
=============================================================================
