----------------------------- MODULE Workloads -----------------------------
(***************************************************************************)
(* The cluster as the read-only commands of the CLI see it: workloads of   *)
(* built-in kinds and of custom resources, which others create, change and *)
(* delete while a command reads them call by call, and the API discovery   *)
(* that tells which custom resources there are.  cost and status each have *)
(* their own copy of the discovery code; both do the same.                 *)
(*                                                                         *)
(* A source is what one call lists or gets from: a resource of an API      *)
(* group, or a built-in kind.  Two groups may serve the same kind.         *)
(***************************************************************************)
EXTENDS Naturals

CONSTANTS
  Resources,    \* the custom resources installed that the commands know
  GroupOf,      \* [Resources -> the API group]
  FamilyOf,     \* [Resources -> Families]
  KindOf,       \* [Resources -> the kind of its objects]
  Names,        \* names, each in its namespace
  Shapes,       \* [Sources -> what its objects may look like]
  Absent,       \* stands for a missing object, annotation or answer
  Malformed,    \* stands for an annotation that is not a number
  MaxChanges    \* bound on what users and controllers change

VARIABLES
  objects,   \* [Ids -> Shapes or Absent]
  cmd,       \* the command that runs
  seen,      \* history: the versions each object has had since the command,
             \* or the refresh of a watched table, began
  changes    \* bound: the changes so far

Families == {"kserve", "bento", "training", "ray"}
BuiltIn  == {"Deployment", "StatefulSet"}
Classes  == Families \cup BuiltIn
Groups   == {GroupOf[r] : r \in Resources}
Sources  == Resources \cup BuiltIn
Ids      == Sources \X Names

ASSUME WorkloadsAssumption ==
  /\ Resources \cap BuiltIn = {}
  /\ FamilyOf \in [Resources -> Families]
  /\ \A r \in Resources : KindOf[r] \notin BuiltIn
  /\ Absent \notin Sources
  /\ \A s \in Sources : Absent \notin Shapes[s]
  /\ MaxChanges \in Nat

Versions(s) == Shapes[s] \cup {Absent}

Kind(s)  == IF s \in BuiltIn THEN s ELSE KindOf[s]
Class(s) == IF s \in BuiltIn THEN s ELSE FamilyOf[s]

clusterVars == <<objects, seen, changes>>
vars        == <<objects, cmd, seen, changes>>

-----------------------------------------------------------------------------
(* Users and controllers, for as long as the command runs.                 *)

Ended == \/ cmd.pc \in {"failed", "notfound"}
         \/ cmd.pc = "shown" /\ cmd.op # "watch"

Change(id, version) ==
  /\ changes < MaxChanges /\ ~Ended
  /\ version # objects[id]
  /\ objects' = [objects EXCEPT ![id] = version]
  /\ seen'    = [seen EXCEPT ![id] = @ \cup {version}]
  /\ changes' = changes + 1
  /\ UNCHANGED cmd

(* From here on a command is answerable for what it shows.                 *)
Now == [id \in Ids |-> {objects[id]}]

-----------------------------------------------------------------------------
(* discoverCRDs and discoverResources.                                     *)

(* The resources the commands know, of the groups that answered.           *)
Catalog(lost) == {r \in Resources : GroupOf[r] \notin lost}

(* Mutant: the resources of groups that failed are asked for all the same. *)
ReadAll(lost) ==
  cmd' = [cmd EXCEPT !.pc = "read", !.lost = lost, !.todo = Sources]

Read(lost) ==
  cmd' = [cmd EXCEPT !.pc = "read", !.lost = lost, !.todo = Catalog(lost) \cup BuiltIn]

(* ServerPreferredResources: when it fails for some groups it is called    *)
(* once more.                                                              *)
Discover ==
  /\ cmd.pc = "discover"
  /\ Read({}) \/ cmd' = [cmd EXCEPT !.pc = "rediscover"]
  /\ UNCHANGED clusterVars

(* The error of the second call is dropped: what it did not return, some   *)
(* groups or all, is taken for not installed.                              *)
Rediscover ==
  /\ cmd.pc = "rediscover"
  /\ \E lost \in SUBSET Groups : Read(lost)
  /\ UNCHANGED clusterVars

(* Any other call that fails, but for a Get that finds nothing, ends the   *)
(* command.                                                                *)
CallFails ==
  /\ cmd.pc \in {"discover", "read", "selector", "pods"}
  /\ cmd.pc = "read" => cmd.todo # {}
  /\ cmd' = [cmd EXCEPT !.pc = "failed"]
  /\ UNCHANGED clusterVars

(* The sources of cmd.todo an order of classes puts first; discovery       *)
(* decides among the resources of one class.                               *)
First(order) ==
  {s \in cmd.todo : \A t \in cmd.todo : order[Class(s)] <= order[Class(t)]}
=============================================================================
