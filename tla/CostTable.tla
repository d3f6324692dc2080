----------------------------- MODULE CostTable -----------------------------
(***************************************************************************)
(* kubefisher cost: CollectCostRows lists every kind of workload in turn   *)
(* and keeps a row of each that has cost annotations or asks for GPUs;     *)
(* with --watch it does so every ten seconds until a refresh fails.        *)
(***************************************************************************)
EXTENDS Workloads

TableOrder == [c \in Classes |-> CASE c = "Deployment"  -> 1
                                   [] c = "StatefulSet" -> 2
                                   [] c = "kserve"      -> 3
                                   [] c = "bento"       -> 4
                                   [] c = "training"    -> 5
                                   [] c = "ray"         -> 6]

(* hasCostAnnotation, gpusPerPod and shouldIncludeWorkload.  limits and    *)
(* requests are the GPUs podSpecFromUnstructured finds, which for most     *)
(* places of a custom resource reads the limits only.                      *)
HasCostAnnotation(v) == v.perReplica # Absent \/ v.old # Absent \/ v.token # Absent
GPUsPerPod(v)        == v.limits + v.requests

(* A Deployment whose pods belong to an InferenceService or to a           *)
(* BentoDeployment is left to the row of its parent.                       *)
Included(s, v) ==
  /\ HasCostAnnotation(v) \/ GPUsPerPod(v) > 0
  /\ ~(s = "Deployment" /\ v.child)

(* replicaCount and replicasFromUnstructured.                              *)
Replicas(s, v) == IF v.replicas = Absent \/ (s \notin BuiltIn /\ v.replicas = 0) THEN 1
                  ELSE v.replicas

(* addWorkloadRow, with costAnnotationsFromMap and MonthlyEst: the old key *)
(* counts only where the new one is missing, even if that is no number,    *)
(* and the estimate is that of the fleet if there is one.                  *)
Parsed(annotation) == IF annotation = Malformed THEN Absent ELSE annotation

Row(s, n, v) ==
  LET rate  == Parsed(IF v.perReplica # Absent THEN v.perReplica ELSE v.old)
      total == Parsed(v.total)
  IN [kind |-> Kind(s), name |-> n, gpus |-> Replicas(s, v) * GPUsPerPod(v),
      rate |-> rate, estimate |-> IF total # Absent THEN total ELSE rate]

(* Mutant: the key of a row is its name only.                              *)
AddedByName(s) ==
  {Row(s, n, objects[<<s, n>>]) :
     n \in {m \in Names : /\ objects[<<s, m>>] # Absent
                          /\ Included(s, objects[<<s, m>>])
                          /\ ~\E r \in cmd.rows : r.name = m}}

HasRow(rows, kind, n) == \E r \in rows : r.kind = kind /\ r.name = n

(* The rows a list adds: the first object of a kind and name counts.       *)
Added(s) ==
  {Row(s, n, objects[<<s, n>>]) :
     n \in {m \in Names : /\ objects[<<s, m>>] # Absent
                          /\ Included(s, objects[<<s, m>>])
                          /\ ~HasRow(cmd.rows, Kind(s), m)}}

Table == cmd.op \in {"cost", "watch"}

(* collectDeployments, collectStatefulSets, collectUnstructured.           *)
List(s) ==
  /\ Table /\ cmd.pc = "read"
  /\ s \in First(TableOrder)
  /\ cmd' = [cmd EXCEPT !.todo = @ \ {s}, !.rows = @ \cup Added(s)]
  /\ UNCHANGED clusterVars

RenderTable ==
  /\ Table /\ cmd.pc = "read" /\ cmd.todo = {}
  /\ cmd' = [cmd EXCEPT !.pc = "shown"]
  /\ UNCHANGED clusterVars

(* Mutant: the rows of the last refresh are kept.                          *)
TickKeepsRows ==
  /\ cmd.op = "watch" /\ cmd.pc = "shown"
  /\ cmd' = [cmd EXCEPT !.pc = "discover", !.lost = {}]
  /\ seen' = Now
  /\ UNCHANGED <<objects, changes>>

(* The ticker of --watch.                                                  *)
Tick ==
  /\ cmd.op = "watch" /\ cmd.pc = "shown"
  /\ cmd' = [cmd EXCEPT !.pc = "discover", !.lost = {}, !.rows = {}]
  /\ seen' = Now
  /\ UNCHANGED <<objects, changes>>

-----------------------------------------------------------------------------
Shown == Table /\ cmd.pc = "shown"

(* Every row shows the workload as it was at some moment of this refresh,  *)
(* also in a table that is watched while workloads come and go.            *)
RowsAreOfThisRefresh ==
  Shown =>
    \A r \in cmd.rows :
      \E id \in Ids : \E v \in seen[id] \ {Absent} :
        Included(id[1], v) /\ r = Row(id[1], id[2], v)

(* A table that is shown leaves nothing out: a workload that was there and *)
(* qualified from the first call to the last has a row, whatever else      *)
(* changed meanwhile, unless the discovery had lost its API group twice.   *)
TableIsComplete ==
  Shown =>
    \A s \in Catalog(cmd.lost) \cup BuiltIn, n \in Names :
      (\A v \in seen[<<s, n>>] : v # Absent /\ Included(s, v))
        => HasRow(cmd.rows, Kind(s), n)
=============================================================================
