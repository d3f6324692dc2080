--------------------------- MODULE CommandsProofs ---------------------------
(***************************************************************************)
(* What cost, status and logs report, for any resources, names and         *)
(* changes made while they read.                                           *)
(***************************************************************************)
EXTENDS Commands, TLAPS

CmdOK ==
  /\ DOMAIN cmd = {"op", "pc", "lost", "todo", "name", "rows", "source", "labels", "pod"}
  /\ cmd.op \in Ops /\ cmd.pc \in Stages /\ cmd.name \in Names
  /\ cmd.lost \subseteq Groups
  /\ cmd.todo \subseteq Catalog(cmd.lost) \cup BuiltIn
  /\ cmd.source \in Sources \cup {Absent}
  /\ cmd.pod \in Pods \cup {Absent}

ClusterOK ==
  /\ DOMAIN objects = Ids /\ DOMAIN seen = Ids
  /\ changes \in 0..MaxChanges
  /\ \A id \in Ids : objects[id] \in seen[id] /\ seen[id] \subseteq Versions(id[1])

(* What a change of the cluster does to versions.                          *)
LEMMA ChangeGrows ==
  ASSUME ClusterOK, NEW i \in Ids, NEW version \in Versions(i[1]), Change(i, version)
  PROVE  /\ ClusterOK' /\ cmd' = cmd
         /\ \A id \in Ids : seen[id] \subseteq seen'[id]
<1>1. /\ DOMAIN objects' = Ids /\ DOMAIN seen' = Ids
      /\ changes' \in 0..MaxChanges
  BY WorkloadsAssumption DEF Change, ClusterOK
<1>2. ASSUME NEW id \in Ids
      PROVE  /\ seen[id] \subseteq seen'[id]
             /\ objects'[id] \in seen'[id] /\ seen'[id] \subseteq Versions(id[1])
  <2>1. CASE id = i
    <3>1. objects'[id] = version /\ seen'[id] = seen[id] \cup {version}
      BY <2>1 DEF Change, ClusterOK
    <3> QED
      BY <2>1, <3>1 DEF ClusterOK
  <2>2. CASE id # i
    <3>1. objects'[id] = objects[id] /\ seen'[id] = seen[id]
      BY <2>2 DEF Change, ClusterOK
    <3> QED
      BY <3>1 DEF ClusterOK
  <2> QED
    BY <2>1, <2>2
<1> QED
  BY <1>1, <1>2 DEF ClusterOK, Change

(* A step of the command leaves the cluster alone; only a new refresh      *)
(* starts the history anew.                                                *)
LEMMA CommandKeepsCluster ==
  ASSUME ClusterOK, Command
  PROVE  ClusterOK' /\ (UNCHANGED clusterVars \/ Tick)
<1>1. CASE Tick
  <2>1. objects' = objects /\ changes' = changes /\ seen' = [id \in Ids |-> {objects[id]}]
    BY <1>1 DEF Tick, Now
  <2>2. \A id \in Ids : objects[id] \in Versions(id[1])
    BY DEF ClusterOK
  <2> QED
    BY <1>1, <2>1, <2>2 DEF ClusterOK
<1>2. CASE ~Tick
  <2>1. UNCHANGED clusterVars
    BY <1>2 DEF Command, Discover, Rediscover, CallFails, List, Get, RenderTable, NotFound,
                Found, PodLabelSelector, FindPods
  <2> QED
    BY <2>1 DEF ClusterOK, clusterVars
<1> QED
  BY <1>1, <1>2

(* Every step of a command keeps the command well formed.                  *)
LEMMA CommandKeepsCmd ==
  ASSUME CmdOK, Command PROVE CmdOK'
<1>1. CASE Discover
  <2>1. CASE Read({})
    BY <2>1 DEF Read, CmdOK, Stages, Catalog, Groups
  <2>2. CASE cmd' = [cmd EXCEPT !.pc = "rediscover"]
    BY <2>2 DEF CmdOK, Stages
  <2> QED
    BY <1>1, <2>1, <2>2 DEF Discover
<1>2. CASE Rediscover
  <2>1. PICK lost \in SUBSET Groups : Read(lost)
    BY <1>2 DEF Rediscover
  <2> QED
    BY <2>1 DEF Read, CmdOK, Stages
<1>3. CASE \E s \in Sources : List(s)
  BY <1>3 DEF List, CmdOK
<1>4. CASE \E s \in Sources : Get(s)
  <2>1. PICK s \in Sources : Get(s)
    BY <1>4
  <2>2. CASE cmd' = [cmd EXCEPT !.todo = @ \ {s}]
    BY <2>2 DEF CmdOK
  <2>3. CASE cmd' = [cmd EXCEPT !.pc = "found", !.source = s]
    BY <2>3 DEF CmdOK, Stages
  <2> QED
    BY <2>1, <2>2, <2>3 DEF Get
<1>5. CASE FindPods
  BY <1>5 DEF FindPods, CmdOK, Stages
<1>6. CASE Tick
  <2>1. cmd' = [cmd EXCEPT !.pc = "discover", !.lost = {}, !.rows = {}]
        /\ cmd.pc = "shown" /\ cmd.op = "watch"
    BY <1>6 DEF Tick
  <2>2. Catalog(cmd.lost) \subseteq Catalog({})
    BY DEF Catalog
  <2> QED
    BY <2>1, <2>2 DEF CmdOK, Stages
<1>7. CASE CallFails \/ RenderTable \/ NotFound \/ Found \/ PodLabelSelector
  BY <1>7 DEF CallFails, RenderTable, NotFound, Found, PodLabelSelector, CmdOK, Stages
<1> QED
  BY <1>1, <1>2, <1>3, <1>4, <1>5, <1>6, <1>7 DEF Command

LEMMA InitType == Init => TypeOK
<1> SUFFICES ASSUME Init PROVE ClusterOK /\ CmdOK
  BY DEF TypeOK, ClusterOK, CmdOK
<1>1. DOMAIN objects = Ids /\ \A id \in Ids : objects[id] \in Versions(id[1])
  BY DEF Init
<1>2. ClusterOK
  BY <1>1, WorkloadsAssumption DEF Init, ClusterOK, Now
<1>3. CmdOK
  BY DEF Init, CmdOK, Ops, Stages
<1> QED
  BY <1>2, <1>3

(* Nothing a command or the cluster does breaks the types.                 *)
LEMMA NextType == TypeOK /\ [Next]_vars => TypeOK'
<1> SUFFICES ASSUME ClusterOK, CmdOK, [Next]_vars PROVE ClusterOK' /\ CmdOK'
  BY DEF TypeOK, ClusterOK, CmdOK
<1>1. CASE Command
  BY <1>1, CommandKeepsCluster, CommandKeepsCmd
<1>2. ASSUME NEW id \in Ids, NEW version \in Versions(id[1]), Change(id, version)
      PROVE  ClusterOK' /\ CmdOK'
  BY <1>2, ChangeGrows DEF CmdOK
<1>3. CASE UNCHANGED vars
  BY <1>3 DEF vars, ClusterOK, CmdOK
<1> QED
  BY <1>1, <1>2, <1>3 DEF Next

(* Type correctness.                                                       *)
THEOREM TypeCorrect == Spec => []TypeOK
BY InitType, NextType, PTL DEF Spec

-----------------------------------------------------------------------------
(* The table.                                                              *)

(* What the cluster and the other steps leave of a table in the making.    *)
LEMMA RowsChange ==
  ASSUME TypeOK, Command
  PROVE  \/ UNCHANGED <<seen, objects>> /\ cmd'.rows = cmd.rows
         \/ cmd'.rows = {}
         \/ \E s \in Sources : List(s)
<1>1. CASE Tick
  BY <1>1 DEF Tick, TypeOK
<1>2. CASE ~Tick /\ ~\E s \in Sources : List(s)
  BY <1>2 DEF Command, Discover, Rediscover, Read, CallFails, Get, RenderTable, NotFound,
              Found, PodLabelSelector, FindPods, clusterVars, TypeOK
<1> QED
  BY <1>1, <1>2

(* Where a row comes from.                                                 *)
Traced(r, versions) ==
  \E id \in Ids : \E v \in versions[id] \ {Absent} :
    Included(id[1], v) /\ r = Row(id[1], id[2], v)

RowsTraced == \A r \in cmd.rows : Traced(r, seen)

LEMMA TracedGrows ==
  ASSUME NEW before, NEW after, NEW r, \A id \in Ids : before[id] \subseteq after[id],
         Traced(r, before)
  PROVE  Traced(r, after)
BY DEF Traced

LEMMA TracedKept == TypeOK /\ RowsTraced /\ [Next]_vars => RowsTraced'
<1> SUFFICES ASSUME TypeOK, RowsTraced, [Next]_vars PROVE RowsTraced'
  OBVIOUS
<1>1. ASSUME NEW id \in Ids, NEW version \in Versions(id[1]), Change(id, version)
      PROVE  RowsTraced'
  <2>1. cmd' = cmd /\ \A i \in Ids : seen[i] \subseteq seen'[i]
    BY <1>1, ChangeGrows DEF TypeOK, ClusterOK
  <2> QED
    BY <2>1, TracedGrows DEF RowsTraced
<1>2. ASSUME NEW s \in Sources, List(s) PROVE RowsTraced'
  <2>1. cmd'.rows = cmd.rows \cup Added(s) /\ seen' = seen
    BY <1>2 DEF List, clusterVars, TypeOK
  <2>2. ASSUME NEW r \in Added(s) PROVE Traced(r, seen)
    <3>1. PICK n \in Names : /\ r = Row(s, n, objects[<<s, n>>])
                             /\ objects[<<s, n>>] # Absent
                             /\ Included(s, objects[<<s, n>>])
      BY <2>2 DEF Added
    <3>2. /\ <<s, n>> \in Ids /\ <<s, n>>[1] = s /\ <<s, n>>[2] = n
          /\ objects[<<s, n>>] \in seen[<<s, n>>]
      BY DEF Ids, TypeOK
    <3> QED
      BY <3>1, <3>2 DEF Traced
  <2> QED
    BY <2>1, <2>2 DEF RowsTraced
<1>3. CASE UNCHANGED vars
  BY <1>3 DEF vars, RowsTraced
<1>4. CASE Command /\ ~\E s \in Sources : List(s)
  BY <1>4, RowsChange DEF RowsTraced
<1> QED
  BY <1>1, <1>2, <1>3, <1>4 DEF Next

(* However workloads change while the table is read, and from one refresh  *)
(* to the next, a row shows a version of this refresh.                     *)
THEOREM RowsAreFresh == Spec => []RowsAreOfThisRefresh
<1>1. Init => RowsTraced
  BY DEF Init, RowsTraced
<1>2. RowsTraced => RowsAreOfThisRefresh
  BY DEF RowsTraced, Traced, RowsAreOfThisRefresh
<1> QED
  BY <1>1, <1>2, TracedKept, TypeCorrect, PTL DEF Spec

LEMMA RowKey ==
  ASSUME NEW s, NEW n, NEW v
  PROVE  Row(s, n, v).kind = Kind(s) /\ Row(s, n, v).name = n
BY DEF Row

(* Which commands reach which stages, and from where on the search has an  *)
(* answer.                                                                 *)
StagesOK ==
  /\ cmd.pc \in {"found", "selector", "pods", "notfound"} => Lookup
  /\ cmd.pc \in {"found", "selector", "pods"} => cmd.source \in Sources
  /\ Lookup /\ cmd.pc = "shown" => cmd.source \in Sources
  /\ Table \/ cmd.pc \in {"discover", "rediscover", "read"} => cmd.source = Absent

LEMMA StagesKept == TypeOK /\ StagesOK /\ [Next]_vars => StagesOK'
<1> SUFFICES ASSUME TypeOK, StagesOK, [Next]_vars PROVE StagesOK'
  OBVIOUS
<1>1. CASE Discover \/ Rediscover
  <2>1. /\ cmd'.op = cmd.op /\ cmd'.source = cmd.source
        /\ cmd'.pc \in {"rediscover", "read"}
        /\ cmd.pc \in {"discover", "rediscover"}
    BY <1>1 DEF Discover, Rediscover, Read, TypeOK
  <2> QED
    BY <2>1 DEF StagesOK, Lookup, Table
<1>2. CASE \E s \in Sources : List(s) \/ Get(s)
  <2>1. PICK s \in Sources : List(s) \/ Get(s)
    BY <1>2
  <2>2. CASE List(s)
    BY <2>2 DEF List, StagesOK, Lookup, Table, TypeOK
  <2>3. CASE Get(s)
    <3>1. Lookup /\ ~Table /\ cmd.pc = "read"
      BY <2>3 DEF Get, Lookup, Table
    <3>2. cmd' = [cmd EXCEPT !.todo = @ \ {s}] \/ cmd' = [cmd EXCEPT !.pc = "found", !.source = s]
      BY <2>3 DEF Get
    <3> QED
      BY <3>1, <3>2 DEF StagesOK, Lookup, Table, TypeOK
  <2> QED
    BY <2>1, <2>2, <2>3
<1>3. CASE CallFails \/ RenderTable \/ Tick \/ NotFound
  BY <1>3 DEF CallFails, RenderTable, Tick, NotFound, StagesOK, Lookup, Table, TypeOK
<1>4. CASE Found \/ PodLabelSelector \/ FindPods
  <2>1. /\ cmd'.op = cmd.op /\ cmd'.source = cmd.source
        /\ cmd'.pc \in {"shown", "selector", "pods", "failed"}
        /\ cmd.pc \in {"found", "selector", "pods"}
    BY <1>4 DEF Found, PodLabelSelector, FindPods, TypeOK
  <2> QED
    BY <2>1 DEF StagesOK, Lookup, Table
<1>5. CASE UNCHANGED cmd
  BY <1>5 DEF StagesOK, Lookup, Table
<1> QED
  BY <1>1, <1>2, <1>3, <1>4, <1>5 DEF Next, Command, Change, vars

LEMMA StagesHold == Spec => [](TypeOK /\ StagesOK)
<1>1. Init => StagesOK
  BY DEF Init, StagesOK
<1> QED
  BY <1>1, StagesKept, TypeCorrect, PTL DEF Spec

(* What has been listed is complete.                                       *)
Covered(s, n, versions, rows) ==
  (\A v \in versions[<<s, n>>] : v # Absent /\ Included(s, v)) => HasRow(rows, Kind(s), n)

ListedSoFar ==
  /\ Table /\ cmd.pc \in {"read", "shown"} =>
       \A s \in Catalog(cmd.lost) \cup BuiltIn, n \in Names :
         s \in cmd.todo \/ Covered(s, n, seen, cmd.rows)
  /\ Table /\ cmd.pc = "shown" => cmd.todo = {}

LEMMA CoveredGrows ==
  ASSUME NEW s \in Sources, NEW n \in Names, NEW before, NEW after, NEW rows, NEW more,
         \A id \in Ids : before[id] \subseteq after[id], rows \subseteq more,
         Covered(s, n, before, rows)
  PROVE  Covered(s, n, after, more)
<1>1. before[<<s, n>>] \subseteq after[<<s, n>>]
  BY DEF Ids
<1> QED
  BY <1>1 DEF Covered, HasRow

LEMMA ListedKept == TypeOK /\ StagesOK /\ ListedSoFar /\ [Next]_vars => ListedSoFar'
<1> SUFFICES ASSUME TypeOK, StagesOK, ListedSoFar, [Next]_vars PROVE ListedSoFar'
  OBVIOUS
<1> Catalog(cmd.lost) \cup BuiltIn \subseteq Sources
  BY DEF Catalog, Sources
<1>1. ASSUME NEW id \in Ids, NEW version \in Versions(id[1]), Change(id, version)
      PROVE  ListedSoFar'
  <2>1. cmd' = cmd /\ \A i \in Ids : seen[i] \subseteq seen'[i]
    BY <1>1, ChangeGrows DEF TypeOK, ClusterOK
  <2> QED
    BY <2>1, CoveredGrows DEF ListedSoFar, Table
<1>2. ASSUME NEW s \in Sources, List(s) PROVE ListedSoFar'
  <2>1. /\ cmd'.rows = cmd.rows \cup Added(s) /\ seen' = seen
        /\ cmd'.todo = cmd.todo \ {s} /\ cmd'.lost = cmd.lost
        /\ cmd'.pc = "read" /\ cmd.pc = "read" /\ Table
    BY <1>2 DEF List, clusterVars, TypeOK
  <2>2. ASSUME NEW n \in Names PROVE Covered(s, n, seen, cmd'.rows)
    <3> SUFFICES ASSUME \A v \in seen[<<s, n>>] : v # Absent /\ Included(s, v),
                        ~HasRow(cmd.rows, Kind(s), n)
                 PROVE  HasRow(cmd'.rows, Kind(s), n)
      BY <2>1 DEF Covered, HasRow
    <3>1. objects[<<s, n>>] \in seen[<<s, n>>]
      BY DEF Ids, TypeOK
    <3>2. Row(s, n, objects[<<s, n>>]) \in Added(s)
      BY <3>1 DEF Added
    <3> QED
      BY <2>1, <3>2, RowKey DEF HasRow
  <2>3. ASSUME NEW t \in Catalog(cmd.lost) \cup BuiltIn, NEW n \in Names
        PROVE  t \in cmd'.todo \/ Covered(t, n, seen, cmd'.rows)
    <3>1. CASE t = s
      BY <2>2, <3>1
    <3>2. CASE t # s
      BY <2>1, <3>2, CoveredGrows DEF ListedSoFar
    <3> QED
      BY <3>1, <3>2
  <2> QED
    BY <2>1, <2>3 DEF ListedSoFar
<1>3. CASE RenderTable
  BY <1>3 DEF RenderTable, ListedSoFar, clusterVars, Table, TypeOK
<1>4. ASSUME NEW lost \in SUBSET Groups, Read(lost), cmd.pc # "shown" PROVE ListedSoFar'
  BY <1>4 DEF Read, ListedSoFar, TypeOK
<1>5. CASE Discover \/ Rediscover
  <2>1. CASE cmd' = [cmd EXCEPT !.pc = "rediscover"]
    BY <2>1 DEF ListedSoFar, TypeOK
  <2> QED
    BY <1>4, <1>5, <2>1 DEF Discover, Rediscover
<1>6. CASE CallFails \/ Tick
  BY <1>6 DEF CallFails, Tick, ListedSoFar, TypeOK
<1>7. CASE NotFound \/ Found \/ PodLabelSelector \/ FindPods \/ \E s \in Sources : Get(s)
  <2>1. ~Table'
    <3>1. Lookup /\ cmd'.op = cmd.op
      BY <1>7 DEF NotFound, Found, PodLabelSelector, FindPods, Get, StagesOK, TypeOK
    <3> QED
      BY <3>1 DEF Lookup, Table
  <2> QED
    BY <2>1 DEF ListedSoFar
<1>8. CASE UNCHANGED vars
  BY <1>8 DEF vars, ListedSoFar, Table
<1> QED
  BY <1>1, <1>2, <1>3, <1>5, <1>6, <1>7, <1>8 DEF Next, Command

(* A table leaves nothing out that was there and qualified all along.      *)
THEOREM TablesAreComplete == Spec => []TableIsComplete
<1>1. Init => ListedSoFar
  BY DEF Init, ListedSoFar
<1>2. ListedSoFar => TableIsComplete
  BY DEF ListedSoFar, Covered, TableIsComplete, Shown
<1> QED
  BY <1>1, <1>2, ListedKept, StagesHold, PTL DEF Spec

-----------------------------------------------------------------------------
(* The search.                                                             *)

SearchedSoFar ==
  Lookup /\ cmd.pc = "read" =>
    \A s \in Catalog(cmd.lost) \cup BuiltIn :
      s \in cmd.todo \/ Absent \in seen[<<s, cmd.name>>]

SearchOK == TypeOK /\ StagesOK /\ SearchedSoFar /\ LookupIsHonest

LEMMA RankIsNumber ==
  ASSUME NEW s \in Sources
  PROVE  LookupOrder[Class(s)] \in Nat
<1>1. Class(s) \in Classes
  BY WorkloadsAssumption DEF Class, Sources, Classes
<1> QED
  BY <1>1 DEF LookupOrder, Classes, Families, BuiltIn

(* A Get that finds the object decides, one that does not goes on.         *)
LEMMA GetSearches ==
  ASSUME SearchOK, NEW s \in Sources, Get(s)
  PROVE  SearchedSoFar' /\ LookupIsHonest'
<1> DEFINE Searched == Catalog(cmd.lost) \cup BuiltIn
<1>1. /\ Lookup /\ cmd.pc = "read" /\ cmd.source = Absent
      /\ s \in First(LookupOrder) /\ s \in cmd.todo
      /\ seen' = seen
  BY DEF Get, First, SearchOK, StagesOK, clusterVars
<1>2. /\ <<s, cmd.name>> \in Ids
      /\ objects[<<s, cmd.name>>] \in seen[<<s, cmd.name>>]
  BY DEF SearchOK, TypeOK, Ids
<1>3. Searched \subseteq Sources
  BY DEF Catalog, Sources
<1>4. CASE objects[<<s, cmd.name>>] = Absent
  <2>1. cmd' = [cmd EXCEPT !.todo = @ \ {s}]
    BY <1>4 DEF Get
  <2>2. /\ cmd'.lost = cmd.lost /\ cmd'.name = cmd.name /\ cmd'.op = cmd.op
        /\ cmd'.pc = cmd.pc /\ cmd'.source = cmd.source /\ cmd'.todo = cmd.todo \ {s}
    BY <2>1 DEF SearchOK, TypeOK
  <2>3. SearchedSoFar'
    BY <1>1, <1>2, <1>4, <2>2 DEF SearchedSoFar, SearchOK
  <2>4. LookupIsHonest'
    BY <1>1, <2>2 DEF LookupIsHonest
  <2> QED
    BY <2>3, <2>4
<1>5. CASE objects[<<s, cmd.name>>] # Absent
  <2>1. cmd' = [cmd EXCEPT !.pc = "found", !.source = s]
    BY <1>5 DEF Get
  <2>2. /\ cmd'.lost = cmd.lost /\ cmd'.name = cmd.name
        /\ cmd'.pc = "found" /\ cmd'.source = s
    BY <2>1 DEF SearchOK, TypeOK
  <2>3. ASSUME NEW t \in Searched, LookupOrder[Class(t)] < LookupOrder[Class(s)]
        PROVE  Absent \in seen[<<t, cmd.name>>]
    <3>1. LookupOrder[Class(t)] \in Nat /\ LookupOrder[Class(s)] \in Nat
      BY <1>3, RankIsNumber
    <3>2. ~(LookupOrder[Class(s)] <= LookupOrder[Class(t)])
      BY <2>3, <3>1
    <3>3. t \notin cmd.todo
      BY <1>1, <3>2 DEF First
    <3> QED
      BY <1>1, <3>3 DEF SearchOK, SearchedSoFar
  <2>4. seen[<<s, cmd.name>>] # {Absent}
    BY <1>2, <1>5
  <2> QED
    BY <1>1, <2>2, <2>3, <2>4 DEF SearchedSoFar, LookupIsHonest
<1> QED
  BY <1>4, <1>5

(* A command that has not read anything since its discovery.               *)
LEMMA DiscoverySearches ==
  ASSUME SearchOK, Discover \/ Rediscover
  PROVE  SearchedSoFar' /\ LookupIsHonest'
<1>1. cmd'.source = Absent /\ cmd'.pc \in {"rediscover", "read"}
  BY DEF SearchOK, StagesOK, TypeOK, Discover, Rediscover, Read
<1>2. LookupIsHonest'
  BY <1>1 DEF LookupIsHonest
<1>3. cmd'.pc = "read" => cmd'.todo = Catalog(cmd'.lost) \cup BuiltIn
  <2>1. CASE cmd' = [cmd EXCEPT !.pc = "rediscover"]
    BY <2>1 DEF SearchOK, TypeOK
  <2>2. ASSUME NEW lost \in SUBSET Groups, Read(lost)
        PROVE  cmd'.todo = Catalog(cmd'.lost) \cup BuiltIn
    BY <2>2 DEF Read, SearchOK, TypeOK
  <2> QED
    BY <2>1, <2>2 DEF Discover, Rediscover
<1>4. SearchedSoFar'
  BY <1>3 DEF SearchedSoFar
<1> QED
  BY <1>2, <1>4

LEMMA SearchKept == SearchOK /\ [Next]_vars => SearchOK'
<1> SUFFICES ASSUME SearchOK, [Next]_vars PROVE SearchedSoFar' /\ LookupIsHonest'
  BY NextType, StagesKept DEF SearchOK
<1> DEFINE Searched == Catalog(cmd.lost) \cup BuiltIn
<1>1. ASSUME NEW id \in Ids, NEW version \in Versions(id[1]), Change(id, version)
      PROVE  SearchedSoFar' /\ LookupIsHonest'
  <2>1. /\ cmd' = cmd /\ \A i \in Ids : seen[i] \subseteq seen'[i]
        /\ \A i \in Ids : objects[i] \in seen[i]
    BY <1>1, ChangeGrows DEF SearchOK, TypeOK, ClusterOK
  <2>2. \A s \in Sources : <<s, cmd.name>> \in Ids
    BY DEF SearchOK, TypeOK, Ids
  <2>3. Searched \subseteq Sources
    BY DEF Catalog, Sources
  <2>4. SearchedSoFar'
    BY <2>1, <2>2, <2>3 DEF SearchOK, SearchedSoFar, Lookup
  <2>5. ASSUME Lookup, cmd.source # Absent
        PROVE  /\ seen'[<<cmd.source, cmd.name>>] # {Absent}
               /\ \A s \in Searched :
                    LookupOrder[Class(s)] < LookupOrder[Class(cmd.source)]
                      => Absent \in seen'[<<s, cmd.name>>]
    <3>1. <<cmd.source, cmd.name>> \in Ids
      BY <2>2, <2>5 DEF SearchOK, TypeOK
    <3>2. /\ seen[<<cmd.source, cmd.name>>] # {Absent}
          /\ \A s \in Searched :
               LookupOrder[Class(s)] < LookupOrder[Class(cmd.source)]
                 => Absent \in seen[<<s, cmd.name>>]
      BY <2>5 DEF SearchOK, LookupIsHonest
    <3> QED
      BY <2>1, <2>2, <2>3, <3>1, <3>2
  <2>6. ASSUME cmd.pc = "notfound"
        PROVE  \A s \in Searched : Absent \in seen'[<<s, cmd.name>>]
    <3>1. \A s \in Searched : Absent \in seen[<<s, cmd.name>>]
      BY <2>6 DEF SearchOK, LookupIsHonest
    <3> QED
      BY <2>1, <2>2, <2>3, <3>1
  <2>7. LookupIsHonest'
    BY <2>1, <2>5, <2>6 DEF LookupIsHonest, Lookup
  <2> QED
    BY <2>4, <2>7
<1>2. ASSUME NEW s \in Sources, Get(s) PROVE SearchedSoFar' /\ LookupIsHonest'
  BY <1>2, GetSearches
<1>3. CASE Discover \/ Rediscover
  BY <1>3, DiscoverySearches
<1>4. CASE NotFound
  <2>1. /\ Lookup /\ cmd.pc = "read" /\ cmd.todo = {} /\ cmd.source = Absent
        /\ cmd' = [cmd EXCEPT !.pc = "notfound"] /\ seen' = seen
    BY <1>4 DEF NotFound, SearchOK, StagesOK, clusterVars
  <2>2. \A s \in Searched : Absent \in seen[<<s, cmd.name>>]
    BY <2>1 DEF SearchOK, SearchedSoFar
  <2>3. /\ cmd'.lost = cmd.lost /\ cmd'.name = cmd.name /\ cmd'.source = Absent
        /\ cmd'.pc = "notfound"
    BY <2>1 DEF SearchOK, TypeOK
  <2> QED
    BY <2>1, <2>2, <2>3 DEF SearchedSoFar, LookupIsHonest
<1>5. CASE CallFails \/ Found \/ PodLabelSelector \/ FindPods
  <2>1. /\ cmd'.lost = cmd.lost /\ cmd'.name = cmd.name /\ cmd'.source = cmd.source
        /\ cmd'.op = cmd.op /\ cmd'.pc \in {"failed", "shown", "selector", "pods"}
        /\ seen' = seen
    BY <1>5 DEF CallFails, Found, PodLabelSelector, FindPods, SearchOK, TypeOK, clusterVars
  <2> QED
    BY <2>1 DEF SearchOK, SearchedSoFar, LookupIsHonest, Lookup
<1>6. CASE RenderTable \/ Tick \/ \E s \in Sources : List(s)
  <2>1. ~Lookup' /\ cmd'.pc \in {"shown", "discover", "read"}
    BY <1>6 DEF RenderTable, Tick, List, Table, Lookup, SearchOK, TypeOK
  <2> QED
    BY <2>1 DEF SearchedSoFar, LookupIsHonest
<1>7. CASE UNCHANGED vars
  BY <1>7 DEF vars, SearchOK, SearchedSoFar, LookupIsHonest, Lookup
<1> QED
  BY <1>1, <1>2, <1>3, <1>4, <1>5, <1>6, <1>7 DEF Next, Command

LEMMA SearchHolds == Spec => []SearchOK
<1>1. Init => StagesOK /\ SearchedSoFar /\ LookupIsHonest
  BY DEF Init, StagesOK, SearchedSoFar, LookupIsHonest
<1>2. Init => SearchOK
  BY <1>1, InitType DEF SearchOK
<1> QED
  BY <1>2, SearchKept, PTL DEF Spec

(* What is found was there, and what comes before it, or all of it when    *)
(* nothing is found, was missing at some moment of the search.             *)
THEOREM LookupsAreHonest == Spec => []LookupIsHonest
<1>1. SearchOK => LookupIsHonest
  BY DEF SearchOK
<1> QED
  BY <1>1, SearchHolds, PTL

-----------------------------------------------------------------------------
(* The pods of logs.                                                       *)

(* The labels include those a version of the found workload selects by.    *)
Selects(labels) ==
  \E v \in seen[<<cmd.source, cmd.name>>] :
    v # Absent /\ Selector(cmd.source, cmd.name, v) \subseteq labels

LabelOK ==
  /\ cmd.pc = "pods" => Selects(cmd.labels)
  /\ LogsShown => cmd.pod \in Pods /\ Selects(LabelsOf[cmd.pod])

(* Only the built-in kinds state their selector.                           *)
LEMMA FixedSelector ==
  ASSUME NEW s \in Sources \ BuiltIn, NEW n, NEW v, NEW w
  PROVE  Selector(s, n, v) = Selector(s, n, w)
BY DEF Selector

LEMMA SelectorIsOfTheWorkload ==
  ASSUME SearchOK, PodLabelSelector
  PROVE  LabelOK'
<1> DEFINE id == <<cmd.source, cmd.name>>
           v  == objects[id]
<1>1. /\ cmd.source \in Sources /\ cmd.pc = "selector" /\ Lookup /\ seen' = seen
      /\ cmd.source # Absent
  BY WorkloadsAssumption DEF PodLabelSelector, SearchOK, StagesOK, clusterVars
<1>2. id \in Ids /\ v \in seen[id]
  BY <1>1 DEF SearchOK, TypeOK, Ids
<1>3. CASE cmd' = [cmd EXCEPT !.pc = "failed"]
  BY <1>3 DEF LabelOK, LogsShown, SearchOK, TypeOK
<1>4. CASE /\ cmd' = [cmd EXCEPT !.pc = "pods", !.labels = Selector(cmd.source, cmd.name, v)]
           /\ cmd.source \in BuiltIn => v # Absent
  <2>1. /\ cmd'.pc = "pods" /\ cmd'.source = cmd.source /\ cmd'.name = cmd.name
        /\ cmd'.labels = Selector(cmd.source, cmd.name, v)
    BY <1>4 DEF SearchOK, TypeOK
  <2>2. \E w \in seen[id] : w # Absent /\ cmd'.labels = Selector(cmd.source, cmd.name, w)
    <3>1. CASE v # Absent
      BY <1>2, <2>1, <3>1
    <3>2. CASE v = Absent
      <4>1. seen[id] # {Absent}
        BY <1>1 DEF SearchOK, LookupIsHonest
      <4>2. PICK w \in seen[id] : w # Absent
        BY <1>2, <4>1
      <4>3. cmd'.labels = Selector(cmd.source, cmd.name, w)
        BY <1>1, <1>4, <2>1, <3>2, FixedSelector
      <4> QED
        BY <4>2, <4>3
    <3> QED
      BY <3>1, <3>2
  <2> QED
    BY <1>1, <2>1, <2>2 DEF LabelOK, LogsShown, Selects
<1> QED
  BY <1>3, <1>4 DEF PodLabelSelector

LEMMA LabelKept == SearchOK /\ LabelOK /\ [Next]_vars => LabelOK'
<1> SUFFICES ASSUME SearchOK, LabelOK, [Next]_vars PROVE LabelOK'
  OBVIOUS
<1>1. ASSUME NEW id \in Ids, NEW version \in Versions(id[1]), Change(id, version)
      PROVE  LabelOK'
  <2>1. /\ cmd' = cmd /\ \A i \in Ids : seen[i] \subseteq seen'[i]
    BY <1>1, ChangeGrows DEF SearchOK, TypeOK, ClusterOK
  <2>2. cmd.source \in Sources => <<cmd.source, cmd.name>> \in Ids
    BY DEF SearchOK, TypeOK, Ids
  <2>3. /\ cmd.pc = "pods" => cmd.source \in Sources
        /\ cmd.op = "logs" /\ cmd.pc = "shown" => cmd.source \in Sources
    BY DEF SearchOK, StagesOK, Lookup
  <2>4. ASSUME NEW l, Selects(l), cmd.source \in Sources PROVE Selects(l)'
    BY <2>1, <2>2, <2>4 DEF Selects
  <2> QED
    BY <2>1, <2>3, <2>4 DEF LabelOK, LogsShown, Selects
<1>2. CASE PodLabelSelector
  BY <1>2, SelectorIsOfTheWorkload
<1>3. CASE FindPods
  <2>1. seen' = seen /\ cmd.pc = "pods" /\ Selects(cmd.labels)
    BY <1>3 DEF FindPods, clusterVars, LabelOK, LogsShown
  <2>2. ASSUME NEW p \in Pods, cmd.labels \subseteq LabelsOf[p],
               cmd' = [cmd EXCEPT !.pc = "shown", !.pod = p]
        PROVE  LabelOK'
    <3>1. /\ cmd'.pc = "shown" /\ cmd'.pod = p
          /\ cmd'.source = cmd.source /\ cmd'.name = cmd.name
      BY <2>2 DEF SearchOK, TypeOK
    <3> QED
      BY <2>1, <2>2, <3>1 DEF LabelOK, LogsShown, Selects
  <2>3. CASE cmd' = [cmd EXCEPT !.pc = "failed"]
    BY <2>3 DEF LabelOK, LogsShown, SearchOK, TypeOK
  <2> QED
    BY <1>3, <2>2, <2>3 DEF FindPods
<1>4. CASE Found
  <2>1. /\ cmd'.pc \in {"shown", "selector"}
        /\ cmd'.op = "logs" => cmd'.pc = "selector"
    BY <1>4 DEF Found, SearchOK, StagesOK, Lookup, TypeOK
  <2> QED
    BY <2>1 DEF LabelOK, LogsShown
<1>5. CASE RenderTable
  BY <1>5 DEF RenderTable, Table, LabelOK, LogsShown, SearchOK, TypeOK
<1>6. CASE \/ Discover \/ Rediscover \/ CallFails \/ NotFound \/ Tick
           \/ \E s \in Sources : List(s) \/ Get(s)
  <2>1. cmd'.pc \in {"discover", "rediscover", "read", "found", "notfound", "failed"}
    BY <1>6 DEF Discover, Rediscover, Read, CallFails, NotFound, Tick, List, Get, SearchOK, TypeOK
  <2> QED
    BY <2>1 DEF LabelOK, LogsShown
<1>7. CASE UNCHANGED vars
  BY <1>7 DEF vars, LabelOK, LogsShown, Selects
<1> QED
  BY <1>1, <1>2, <1>3, <1>4, <1>5, <1>6, <1>7 DEF Next, Command

(* Where a workload selects by labels only, what logs asks a pod for makes *)
(* it a pod of that workload.                                              *)
LEMMA LabelsTellPods ==
  ASSUME NEW s \in Sources, NEW n, NEW v, NEW p \in Pods,
         ByLabelsOnly(s, v), Selector(s, n, v) \subseteq LabelsOf[p]
  PROVE  Backs(p, s, n, v)
<1>1. CASE s \in BuiltIn
  <2>1. Kind(s) \in BuiltIn /\ v.selector # Absent /\ v.admits = Pods
    BY <1>1 DEF Kind, ByLabelsOnly, BuiltIn
  <2>2. Selector(s, n, v) = v.selector
    BY <1>1, <2>1 DEF Selector, BuiltIn, JobKinds
  <2> QED
    BY <1>1, <2>1, <2>2 DEF Backs, IsSelected
<1>2. CASE s \notin BuiltIn /\ Kind(s) = "InferenceService"
  <2>1. Selector(s, n, v) = {<<"serving.kserve.io/inferenceservice", n>>}
    BY <1>2 DEF Selector, JobKinds
  <2> QED
    BY <1>2, <2>1 DEF Backs, IsOfInferenceService, Named
<1>3. CASE s \notin BuiltIn /\ Kind(s) = "BentoDeployment"
  <2>1. Selector(s, n, v) = {<<"yatai.bentoml.com/bento-deployment", n>>}
    BY <1>3 DEF Selector, JobKinds
  <2> QED
    BY <1>3, <2>1 DEF Backs, IsOfBentoDeployment, Named
<1> QED
  BY <1>1, <1>2, <1>3 DEF ByLabelsOnly

(* However the found workload is replaced or deleted, and whoever labels   *)
(* pods as he likes, a pod whose log is streamed backs a version of it     *)
(* there was, unless one of them does not select by labels only.           *)
THEOREM LogsAreOfTheWorkload == Spec => []LogsFollowTheWorkload
<1>1. Init => LabelOK
  BY DEF Init, LabelOK, LogsShown
<1>2. SearchOK /\ LabelOK => LogsFollowTheWorkload
  <2> SUFFICES ASSUME SearchOK, LabelOK, LogsShown,
                      \A v \in SeenOfFound : ByLabelsOnly(cmd.source, v)
               PROVE  \E v \in SeenOfFound : Backs(cmd.pod, cmd.source, cmd.name, v)
    BY DEF LogsFollowTheWorkload
  <2>1. cmd.source \in Sources /\ cmd.pod \in Pods
    BY DEF SearchOK, StagesOK, Lookup, LogsShown, LabelOK
  <2>2. PICK v \in SeenOfFound : Selector(cmd.source, cmd.name, v) \subseteq LabelsOf[cmd.pod]
    BY DEF LabelOK, Selects, SeenOfFound
  <2> QED
    BY <2>1, <2>2, LabelsTellPods
<1> QED
  BY <1>1, <1>2, LabelKept, SearchHolds, PTL DEF Spec
=============================================================================
