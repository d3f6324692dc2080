------------------------------ MODULE Commands ------------------------------
(***************************************************************************)
(* One read-only command of the CLI, cost, cost --watch, status or logs,   *)
(* beside the users and controllers that change what it reads.             *)
(***************************************************************************)
EXTENDS CostTable, Lookup

Ops    == {"cost", "watch", "status", "logs"}
Stages == {"discover", "rediscover", "read", "found", "selector", "pods",
           "shown", "notfound", "failed"}

Init ==
  /\ objects \in {o \in [Ids -> UNION {Versions(s) : s \in Sources}] :
                   \A id \in Ids : o[id] \in Versions(id[1])}
  /\ \E op \in Ops, n \in Names :
       cmd = [op |-> op, pc |-> "discover", lost |-> {}, todo |-> {}, name |-> n,
              rows |-> {}, source |-> Absent, labels |-> {}, pod |-> Absent]
  /\ seen = Now
  /\ changes = 0

Command ==
  \/ Discover \/ Rediscover \/ CallFails
  \/ \E s \in Sources : List(s) \/ Get(s)
  \/ RenderTable \/ Tick
  \/ NotFound \/ Found \/ PodLabelSelector \/ FindPods

Next == Command \/ \E id \in Ids : \E version \in Versions(id[1]) : Change(id, version)

Spec == Init /\ [][Next]_vars

-----------------------------------------------------------------------------
TypeOK ==
  /\ DOMAIN objects = Ids /\ DOMAIN seen = Ids
  /\ changes \in 0..MaxChanges
  /\ DOMAIN cmd = {"op", "pc", "lost", "todo", "name", "rows", "source", "labels", "pod"}
  /\ cmd.op \in Ops /\ cmd.pc \in Stages /\ cmd.name \in Names
  /\ cmd.lost \subseteq Groups
  /\ cmd.todo \subseteq Catalog(cmd.lost) \cup BuiltIn
  /\ cmd.source \in Sources \cup {Absent}
  /\ cmd.pod \in Pods \cup {Absent}
  /\ \A id \in Ids : objects[id] \in seen[id] /\ seen[id] \subseteq Versions(id[1])
=============================================================================
