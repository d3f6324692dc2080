---------------------------- MODULE DeployProofs ----------------------------
(***************************************************************************)
(* Theorems about Deploy, for every number of users, every set of models   *)
(* and names, every mapping between them and every bound.                  *)
(***************************************************************************)
EXTENDS Deploy, TLAPS

Stages == {"create", "service"} \cup Polling \cup Ended

(* What TypeOK says of the runs, and of the objects.                       *)
RunsOK ==
  /\ run \in [Users -> Runs]
  /\ \A u \in Users : Active(u) => /\ run[u].opts.replicas \in Replicas
                                   /\ run[u].kserve => run[u].stage # "service"

ObjectsOK ==
  /\ deployments \in [Names -> [model: Models, replicas: Replicas] \cup {None}]
  /\ services \in [Names -> Models \cup {None}]
  /\ pods \in [Names -> [Replicas -> PodStates]]
  /\ isvcs \in [Names -> IsvcStates]
  /\ \A n \in Names, i \in Replicas :
       pods[n][i] # "none" <=> deployments[n] # None /\ i <= deployments[n].replicas

RestOK ==
  /\ crd \in BOOLEAN /\ room \in BOOLEAN /\ deleted \in SUBSET Names /\ faults \in 0..MaxFaults
  /\ listed \in [Users -> SUBSET Replicas] /\ short \in SUBSET Users

LEMMA TypeParts == TypeOK <=> RunsOK /\ ObjectsOK /\ RestOK
BY DEF TypeOK, RunsOK, ObjectsOK, RestOK

LEMMA PartsType == ASSUME RunsOK', ObjectsOK', RestOK' PROVE TypeOK'
BY DEF TypeOK, RunsOK, ObjectsOK, RestOK

LEMMA FaultType ==
  ASSUME faults \in 0..MaxFaults, faults' = faults \/ Fault PROVE faults' \in 0..MaxFaults
BY DeployAssumption DEF Fault

LEMMA NameType == ASSUME TypeOK, NEW u \in Users PROVE Name(u) \in Names
BY DeployAssumption DEF TypeOK, Runs, Name, PrimaryName

(* What a step of a run does to the runs.                                  *)
LEMMA GoesKeeps ==
  ASSUME TypeOK, NEW u \in Users, NEW s \in Stages, Goes(u, s)
  PROVE  /\ run' \in [Users -> Runs]
         /\ run'[u].stage = s /\ run'[u].opts = run[u].opts
         /\ run'[u].kserve = run[u].kserve
         /\ Name(u)' = Name(u)
         /\ \A v \in Users : v # u => run'[v] = run[v] /\ Name(v)' = Name(v)
<1>1. run[u] \in Runs
  BY DEF TypeOK
<1>2. [run[u] EXCEPT !.stage = s] \in Runs
  BY <1>1 DEF Runs, Stages
<1>3. run' = [run EXCEPT ![u] = [run[u] EXCEPT !.stage = s]]
  BY DEF Goes
<1>4. /\ run' \in [Users -> Runs]
      /\ run'[u] = [run[u] EXCEPT !.stage = s]
      /\ \A v \in Users : v # u => run'[v] = run[v]
  BY <1>2, <1>3 DEF TypeOK
<1> QED
  BY <1>1, <1>4 DEF Runs, Name

LEMMA GoesType ==
  ASSUME TypeOK, NEW u \in Users, Active(u), NEW s \in Stages, Goes(u, s),
         s = "service" => ~run[u].kserve
  PROVE  RunsOK'
BY GoesKeeps DEF TypeOK, RunsOK, Active

LEMMA NewDeploymentType ==
  ASSUME TypeOK, NEW u \in Users, Active(u), NewDeployment(u) PROVE ObjectsOK'
<1>1. Name(u) \in Names
  BY NameType
<1>2. run[u] \in Runs /\ run[u].opts \in Options /\ run[u].opts.replicas \in Replicas
  BY DEF TypeOK, Runs
<1>3. run[u].opts.model \in Models
  BY <1>2, DeployAssumption
<1>4. Build(run[u].opts) \in [model: Models, replicas: Replicas]
  BY <1>2, <1>3 DEF Build
<1> DEFINE new == [i \in Replicas |-> IF i <= run[u].opts.replicas THEN "unscheduled" ELSE "none"]
<1>5. new \in [Replicas -> PodStates]
  BY DEF PodStates, Pending
<1>6. /\ deployments' \in [Names -> [model: Models, replicas: Replicas] \cup {None}]
      /\ pods' \in [Names -> [Replicas -> PodStates]]
      /\ services' = services /\ isvcs' = isvcs
  BY <1>4, <1>5 DEF NewDeployment, TypeOK
<1>7. \A n \in Names, i \in Replicas :
        pods'[n][i] # "none" <=> deployments'[n] # None /\ i <= deployments'[n].replicas
  <2> SUFFICES ASSUME NEW n \in Names, NEW i \in Replicas
               PROVE  pods'[n][i] # "none" <=>
                        deployments'[n] # None /\ i <= deployments'[n].replicas
    OBVIOUS
  <2>1. CASE n = Name(u)
    <3>1. deployments'[n] = Build(run[u].opts) /\ pods'[n] = new
      BY <1>1, <2>1 DEF NewDeployment, TypeOK
    <3>2. Build(run[u].opts) # None /\ Build(run[u].opts).replicas = run[u].opts.replicas
      BY <1>4, DeployAssumption DEF Build, Replicas
    <3> QED
      BY <3>1, <3>2
  <2>2. CASE n # Name(u)
    BY <2>2 DEF NewDeployment, TypeOK
  <2> QED
    BY <2>1, <2>2
<1> QED
  BY <1>6, <1>7 DEF ObjectsOK, TypeOK

LEMMA NewServiceType ==
  ASSUME TypeOK, NEW u \in Users, NewService(u) PROVE ObjectsOK'
<1>1. run[u].opts.model \in Models
  BY DeployAssumption DEF TypeOK, Runs
<1> QED
  BY <1>1 DEF NewService, TypeOK, ObjectsOK

LEMMA NewInferenceServiceType ==
  ASSUME TypeOK, NEW u \in Users, NewInferenceService(u) PROVE ObjectsOK'
BY DEF NewInferenceService, TypeOK, ObjectsOK, IsvcStates

LEMMA ObjectsStay == ASSUME TypeOK, UNCHANGED objects PROVE ObjectsOK'
BY DEF objects, TypeOK, ObjectsOK

LEMMA TypeInit == Init => TypeOK
<1> SUFFICES ASSUME Init PROVE TypeOK
  OBVIOUS
<1>1. (CHOOSE o \in Options : TRUE) \in Options
  BY DeployAssumption
<1>2. RunsOK
  BY <1>1 DEF Init, RunsOK, Runs, Active, Ended
<1>3. ObjectsOK
  BY DEF Init, ObjectsOK, PodStates, IsvcStates
<1>4. RestOK
  BY DeployAssumption DEF Init, RestOK
<1> QED
  BY <1>2, <1>3, <1>4, TypeParts

LEMMA StartType ==
  ASSUME TypeOK, NEW u \in Users, NEW o \in Options, StartRun(u, o) PROVE TypeOK'
<1>1. PICK kserve \in BOOLEAN :
        /\ faults' = faults \/ Fault
        /\ run' = [run EXCEPT ![u] = [stage |-> Opening(o), opts |-> o,
                                      kserve |-> kserve, expired |-> FALSE]]
  BY DEF StartRun
<1>3. [stage |-> Opening(o), opts |-> o, kserve |-> kserve, expired |-> FALSE] \in Runs
  BY DEF Opening, Runs, Ended
<1>4. /\ run' \in [Users -> Runs]
      /\ run'[u] = [stage |-> Opening(o), opts |-> o, kserve |-> kserve, expired |-> FALSE]
      /\ \A v \in Users : v # u => run'[v] = run[v]
  BY <1>1, <1>3 DEF TypeOK
<1>5. o.replicas \in 0..MaxReplicas
  BY DeployAssumption
<1>6. Active(u)' => o.replicas \in Replicas /\ run'[u].stage = "create" /\ run'[u].opts = o
  BY <1>4, <1>5, DeployAssumption DEF Active, Opening, Ended, Replicas
<1>7. RunsOK'
  BY <1>4, <1>6 DEF TypeOK, RunsOK, Active
<1>8. ObjectsOK'
  BY ObjectsStay DEF StartRun
<1>9. RestOK'
  BY <1>1, FaultType DEF StartRun, RestOK, TypeOK
<1> QED
  BY <1>7, <1>8, <1>9, PartsType

(* Where a step of the polling takes a run, and what it lists.             *)
LEMMA PollingGoes ==
  ASSUME NEW u \in Users,
         Poll(u) \/ ListPods(u) \/ ListEvents(u) \/ ReadFails(u) \/ Wait(u)
  PROVE  /\ run[u].stage \in Polling
         /\ \E s \in Polling \cup {"ready", "scheduling", "timeout"} :
              /\ Goes(u, s)
              /\ run[u].expired => \/ run[u].stage # "wait" /\ s = "wait"
                                   \/ s = "timeout"
<1>1. CASE Poll(u)
  BY <1>1 DEF Poll, Polling
<1>2. CASE ListPods(u)
  BY <1>2 DEF ListPods, Polling
<1>3. CASE ListEvents(u)
  BY <1>3 DEF ListEvents, NextPod, Polling
<1>4. CASE ReadFails(u)
  BY <1>4 DEF ReadFails, NextPod, Polling
<1>5. CASE Wait(u)
  BY <1>5 DEF Wait, Polling
<1> QED
  BY <1>1, <1>2, <1>3, <1>4, <1>5

LEMMA ListedType ==
  ASSUME TypeOK, NEW u \in Users,
         Poll(u) \/ ListPods(u) \/ ListEvents(u) \/ ReadFails(u) \/ Wait(u)
  PROVE  listed' \in [Users -> SUBSET Replicas]
<1>1. listed \in [Users -> SUBSET Replicas]
  BY DEF TypeOK
<1>2. listed' = listed \/ \E some \in SUBSET Replicas : listed' = [listed EXCEPT ![u] = some]
  <2>1. CASE Poll(u) \/ Wait(u)
    BY <2>1 DEF Poll, Wait
  <2>2. CASE ListPods(u)
    BY <2>2 DEF ListPods, PendingPods
  <2>3. ASSUME NEW i, NextPod(u, i)
        PROVE  \E some \in SUBSET Replicas : listed' = [listed EXCEPT ![u] = some]
    BY <1>1, <2>3 DEF NextPod
  <2>4. CASE ListEvents(u)
    BY <2>3, <2>4 DEF ListEvents
  <2>5. CASE ReadFails(u)
    BY <2>3, <2>5 DEF ReadFails
  <2> QED
    BY <2>1, <2>2, <2>4, <2>5
<1> QED
  BY <1>1, <1>2

LEMMA StepType ==
  ASSUME TypeOK, NEW u \in Users, Step(u) PROVE TypeOK'
<1>0. RunsOK /\ ObjectsOK /\ RestOK /\ Name(u) \in Names /\ run[u] \in Runs
  BY TypeParts, NameType DEF TypeOK
<1>1. CASE CreateDeployment(u)
  <2>1. Active(u) /\ ~run[u].kserve /\ RestOK'
    BY <1>0, <1>1 DEF CreateDeployment, Creating, Active, Ended, RestOK
  <2>2. PICK s \in Stages : Goes(u, s)
    BY <1>1 DEF CreateDeployment, Stages, Ended
  <2>3. UNCHANGED objects \/ NewDeployment(u)
    BY <1>1 DEF CreateDeployment
  <2> QED
    BY <2>1, <2>2, <2>3, GoesType, ObjectsStay, NewDeploymentType, PartsType
<1>2. CASE CreateService(u)
  <2>1. Active(u) /\ ~run[u].kserve /\ RestOK'
    BY <1>0, <1>2 DEF CreateService, Creating, Active, Ended, RestOK, RunsOK
  <2>2. PICK s \in Stages : Goes(u, s)
    BY <1>2 DEF CreateService, Stages, Ended, Polling
  <2>3. UNCHANGED objects \/ NewService(u)
    BY <1>2 DEF CreateService
  <2> QED
    BY <2>1, <2>2, <2>3, GoesType, ObjectsStay, NewServiceType, PartsType
<1>3. CASE CreateKServe(u)
  <2>1. Active(u) /\ RestOK'
    BY <1>0, <1>3 DEF CreateKServe, Creating, Active, Ended, RestOK
  <2>2. PICK s \in Stages \ {"service"} : Goes(u, s)
    BY <1>3 DEF CreateKServe, Stages, Ended, Polling
  <2>3. UNCHANGED objects \/ NewInferenceService(u)
    BY <1>3 DEF CreateKServe
  <2> QED
    BY <2>1, <2>2, <2>3, GoesType, ObjectsStay, NewInferenceServiceType, PartsType
<1>4. CASE CreateFails(u)
  <2>1. Active(u) /\ "refused" \in Stages \ {"service"} /\ Goes(u, "refused")
    BY <1>4 DEF CreateFails, Active, Ended, Stages
  <2>2. RestOK'
    BY <1>0, <1>4, FaultType DEF CreateFails, RestOK
  <2>3. \/ UNCHANGED objects \/ NewDeployment(u)
        \/ NewInferenceService(u) \/ NewService(u)
    BY <1>4 DEF CreateFails
  <2> QED
    BY <2>1, <2>2, <2>3, GoesType, ObjectsStay, NewDeploymentType, NewServiceType,
       NewInferenceServiceType, PartsType
<1>5. CASE Poll(u) \/ ListPods(u) \/ ListEvents(u) \/ ReadFails(u) \/ Wait(u)
  <2>1. Active(u) /\ UNCHANGED objects
    BY <1>5 DEF Poll, ListPods, ListEvents, ReadFails, Wait, Active, Ended, Polling
  <2>2. PICK s \in Stages \ {"service"} : Goes(u, s)
    BY <1>5, PollingGoes DEF Stages, Ended, Polling
  <2>3. listed' \in [Users -> SUBSET Replicas]
    BY <1>5, ListedType
  <2>4. /\ UNCHANGED <<crd, room, short, deleted>>
        /\ faults' = faults \/ Fault
    BY <1>5 DEF Poll, ListPods, ListEvents, ReadFails, Wait
  <2>5. RestOK'
    BY <1>0, <2>3, <2>4, FaultType DEF RestOK
  <2> QED
    BY <2>1, <2>2, <2>5, GoesType, ObjectsStay, PartsType
<1> QED
  BY <1>1, <1>2, <1>3, <1>4, <1>5 DEF Step

LEMMA ClusterType ==
  ASSUME TypeOK, NEW n \in Names, Cluster(n) PROVE TypeOK'
<1>1. CASE Serve(n)
  BY <1>1 DEF Serve, TypeOK, Active, IsvcStates
<1>2. ASSUME NEW i \in Replicas, NEW s \in PodStates \ {"none"}, pods[n][i] # "none",
             pods' = [pods EXCEPT ![n][i] = s],
             UNCHANGED <<run, listed, crd, room, short, deployments, services, isvcs, deleted, faults>>
      PROVE  TypeOK'
  <2>1. pods' \in [Names -> [Replicas -> PodStates]]
    BY <1>2 DEF TypeOK
  <2>2. \A m \in Names, j \in Replicas : pods'[m][j] = "none" <=> pods[m][j] = "none"
    BY <1>2 DEF TypeOK
  <2>3. RunsOK' /\ RestOK'
    BY <1>2 DEF TypeOK, RunsOK, RestOK, Active
  <2>4. ObjectsOK'
    BY <1>2, <2>1, <2>2 DEF TypeOK, ObjectsOK
  <2> QED
    BY <2>3, <2>4, PartsType
<1>3. ASSUME NEW i \in Replicas, Schedule(n, i) \/ PodRuns(n, i) PROVE TypeOK'
  <2>1. PICK s \in PodStates \ {"none"} : pods' = [pods EXCEPT ![n][i] = s]
    <3>1. CASE Schedule(n, i)
      BY <3>1 DEF Schedule, PodStates, Pending
    <3>2. CASE PodRuns(n, i)
      <4>1. CASE pods[n][i] = "starting"
        <5>1. pods' = [pods EXCEPT ![n][i] = "available"]
          BY <3>2, <4>1 DEF PodRuns
        <5> QED
          BY <5>1 DEF PodStates, Available
      <4>2. CASE pods[n][i] # "starting"
        <5>1. pods' = [pods EXCEPT ![n][i] = "late"]
          BY <3>2, <4>2 DEF PodRuns
        <5> QED
          BY <5>1 DEF PodStates, Available
      <4> QED
        BY <4>1, <4>2
    <3> QED
      BY <1>3, <3>1, <3>2
  <2>2. /\ pods[n][i] # "none"
        /\ UNCHANGED <<run, listed, crd, room, short, deployments, services, isvcs, deleted, faults>>
    BY <1>3 DEF Schedule, PodRuns
  <2> QED
    BY <1>2, <2>1, <2>2
<1> QED
  BY <1>1, <1>3 DEF Cluster

LEMMA DeleteType ==
  ASSUME TypeOK, NEW n \in Names, Delete(n) PROVE TypeOK'
<1>1. RunsOK' /\ RestOK'
  BY FaultType DEF Delete, TypeOK, RunsOK, RestOK, Active
<1>2. CASE /\ deployments' = [deployments EXCEPT ![n] = None]
           /\ pods' = [pods EXCEPT ![n] = [i \in Replicas |-> "none"]]
           /\ UNCHANGED <<services, isvcs>>
  <2>1. /\ deployments' \in [Names -> [model: Models, replicas: Replicas] \cup {None}]
        /\ pods' \in [Names -> [Replicas -> PodStates]]
        /\ deployments'[n] = None /\ \A i \in Replicas : pods'[n][i] = "none"
        /\ \A m \in Names : m # n => deployments'[m] = deployments[m] /\ pods'[m] = pods[m]
    BY <1>2 DEF TypeOK, PodStates
  <2>2. \A m \in Names, i \in Replicas :
          pods'[m][i] # "none" <=> deployments'[m] # None /\ i <= deployments'[m].replicas
    <3> SUFFICES ASSUME NEW m \in Names, NEW i \in Replicas
                 PROVE  pods'[m][i] # "none" <=>
                          deployments'[m] # None /\ i <= deployments'[m].replicas
      OBVIOUS
    <3>1. CASE m = n
      BY <2>1, <3>1
    <3>2. CASE m # n
      <4>1. deployments'[m] = deployments[m] /\ pods'[m] = pods[m]
        BY <2>1, <3>2
      <4>2. pods[m][i] # "none" <=> deployments[m] # None /\ i <= deployments[m].replicas
        BY DEF TypeOK
      <4> QED
        BY <4>1, <4>2
    <3> QED
      BY <3>1, <3>2
  <2> QED
    BY <1>1, <1>2, <2>1, <2>2, PartsType DEF ObjectsOK, TypeOK
<1>3. CASE \/ /\ services' = [services EXCEPT ![n] = None]
              /\ UNCHANGED <<deployments, pods, isvcs>>
           \/ /\ isvcs' = [isvcs EXCEPT ![n] = "absent"]
              /\ UNCHANGED <<deployments, services, pods>>
  BY <1>1, <1>3, PartsType DEF TypeOK, ObjectsOK, IsvcStates
<1> QED
  BY <1>2, <1>3 DEF Delete

LEMMA ExpireKeeps ==
  ASSUME TypeOK, NEW u \in Users, Expire(u)
  PROVE  /\ run' \in [Users -> Runs]
         /\ \A v \in Users : /\ run'[v].stage = run[v].stage /\ run'[v].opts = run[v].opts
                             /\ run'[v].kserve = run[v].kserve
<1>1. run[u] \in Runs /\ [run[u] EXCEPT !.expired = TRUE] \in Runs
  <2>1. run[u] \in Runs
    BY DEF TypeOK
  <2> QED
    BY <2>1 DEF Runs
<1>2. run' = [run EXCEPT ![u] = [run[u] EXCEPT !.expired = TRUE]]
  BY DEF Expire
<1>3. /\ run' \in [Users -> Runs]
      /\ run'[u] = [run[u] EXCEPT !.expired = TRUE]
      /\ \A v \in Users : v # u => run'[v] = run[v]
  BY <1>1, <1>2 DEF TypeOK
<1> QED
  BY <1>1, <1>3 DEF Runs

LEMMA TypeStep == ASSUME TypeOK, [Next]_vars PROVE TypeOK'
<1>0. RunsOK /\ ObjectsOK /\ RestOK
  BY TypeParts
<1>1. ASSUME NEW u \in Users, Start(u) PROVE TypeOK'
  BY <1>1, DeployAssumption, StartType DEF Start
<1>2. ASSUME NEW u \in Users, Expire(u) PROVE TypeOK'
  <2> QED
    BY <1>0, <1>2, ExpireKeeps, ObjectsStay, PartsType DEF Expire, RunsOK, RestOK, Active
<1>3. ASSUME NEW u \in Users, Kill(u) PROVE TypeOK'
  <2>1. Active(u) /\ "killed" \in Stages \ {"service"} /\ Goes(u, "killed") /\ UNCHANGED objects
    BY <1>3 DEF Kill, Stages, Ended
  <2>2. RestOK'
    BY <1>0, <1>3, FaultType DEF Kill, RestOK
  <2> QED
    BY <2>1, <2>2, GoesType, ObjectsStay, PartsType
<1>4. CASE ChangeRoom \/ InstallKServe
  <2>1. RestOK'
    BY <1>0, <1>4, FaultType DEF ChangeRoom, InstallKServe, RestOK
  <2> QED
    BY <1>0, <1>4, <2>1, ObjectsStay, PartsType DEF ChangeRoom, InstallKServe, RunsOK, Active
<1>5. CASE UNCHANGED vars
  BY <1>5 DEF vars, objects, TypeOK, Active
<1> QED
  BY <1>1, <1>2, <1>3, <1>4, <1>5, StepType, ClusterType, DeleteType DEF Next

(* Runs, objects and pods keep their types; a Deployment has exactly the   *)
(* pods it asks for.                                                       *)
THEOREM DeployTypeCorrect == Spec => []TypeOK
<1> QED
  BY TypeInit, TypeStep, PTL DEF Spec

-----------------------------------------------------------------------------
(* A run between its two objects has the name to itself: its Deployment    *)
(* keeps the others out, and no Service outlives a Deployment.             *)

Between(u) == run[u].stage = "service"
Waiting(u) == run[u].stage \in Polling \cup {"ready"} /\ ~run[u].kserve

HalfIsAsked ==
  \A u \in Users : Between(u) /\ Name(u) \notin deleted =>
    deployments[Name(u)] = Build(run[u].opts) /\ services[Name(u)] = None

OneBetween ==
  \A u, v \in Users :
    Between(u) /\ Between(v) /\ Name(u) = Name(v) /\ Name(u) \notin deleted => u = v

NoServiceAlone ==
  \A n \in Names \ deleted : services[n] # None => deployments[n] # None

AskedInv == HalfIsAsked /\ OneBetween /\ NoServiceAlone /\ ReadyIsAsked

LEMMA BuildIsSomething ==
  ASSUME TypeOK, NEW u \in Users
  PROVE  Build(run[u].opts) # None /\ run[u].opts.model # None
<1>1. run[u].opts \in Options
  BY DEF TypeOK, Runs
<1>2. run[u].opts.model \in Models /\ run[u].opts.replicas \in 0..MaxReplicas
  BY <1>1, DeployAssumption
<1> QED
  BY <1>2, DeployAssumption DEF Build

(* A name that has no Deployment belongs to no run.                        *)
LEMMA FreeName ==
  ASSUME TypeOK, AskedInv, NEW v \in Users, Between(v) \/ Waiting(v), Name(v) \notin deleted
  PROVE  deployments[Name(v)] = Build(run[v].opts) /\ deployments[Name(v)] # None
BY BuildIsSomething DEF AskedInv, HalfIsAsked, ReadyIsAsked, Waiting

(* Steps that leave Deployments and Services alone, and in which no run    *)
(* begins to wait or to stand between its objects.                         *)
LEMMA QuietStep ==
  ASSUME AskedInv, deployments' = deployments, services' = services,
         deleted' = deleted,
         \A v \in Users : Between(v)' \/ Waiting(v)' =>
           /\ run'[v].opts = run[v].opts
           /\ Between(v)' => Between(v)
           /\ Waiting(v)' => Waiting(v)
  PROVE  AskedInv'
<1>1. \A v \in Users : Between(v)' \/ Waiting(v)' => Name(v)' = Name(v)
  BY DEF Name
<1>2. HalfIsAsked'
  BY <1>1 DEF AskedInv, HalfIsAsked
<1>3. OneBetween'
  BY <1>1 DEF AskedInv, OneBetween
<1>4. NoServiceAlone'
  BY DEF AskedInv, NoServiceAlone
<1>5. ReadyIsAsked'
  BY <1>1 DEF AskedInv, ReadyIsAsked, Waiting
<1> QED
  BY <1>2, <1>3, <1>4, <1>5 DEF AskedInv

(* One run goes on, others stay where they are.                            *)
LEMMA QuietGoes ==
  ASSUME TypeOK, AskedInv, NEW u \in Users, NEW s \in Stages \ {"service"}, Goes(u, s),
         s \in Polling \cup {"ready"} => Waiting(u) \/ run[u].kserve,
         deployments' = deployments, services' = services, deleted' = deleted
  PROVE  AskedInv'
<1>1. \A v \in Users : Between(v)' \/ Waiting(v)' =>
        /\ run'[v].opts = run[v].opts
        /\ Between(v)' => Between(v)
        /\ Waiting(v)' => Waiting(v)
  <2> SUFFICES ASSUME NEW v \in Users, Between(v)' \/ Waiting(v)'
               PROVE  /\ run'[v].opts = run[v].opts
                      /\ Between(v)' => Between(v)
                      /\ Waiting(v)' => Waiting(v)
    OBVIOUS
  <2>1. CASE v = u
    BY <2>1, GoesKeeps DEF Between, Waiting
  <2>2. CASE v # u
    BY <2>2, GoesKeeps DEF Between, Waiting
  <2> QED
    BY <2>1, <2>2
<1> QED
  BY <1>1, QuietStep

(* The Deployment is created, and perhaps the answer lost.                 *)
LEMMA DeploymentMade ==
  ASSUME TypeOK, AskedInv, NEW u \in Users, deployments[Name(u)] = None, NewDeployment(u),
         NEW s \in {"service", "refused"}, Goes(u, s), deleted' = deleted
  PROVE  AskedInv'
<1> USE GoesKeeps DEF Stages, Ended
<1>1. PICK n \in Names : n = Name(u)
  BY NameType
<1>2. /\ deployments'[n] = Build(run[u].opts) /\ services' = services
      /\ \A m \in Names : m # n => deployments'[m] = deployments[m]
  BY <1>1 DEF NewDeployment, TypeOK
<1>3. \A v \in Users : v # u /\ (Between(v)' \/ Waiting(v)') /\ Name(v)' \notin deleted =>
        /\ Between(v)' <=> Between(v)
        /\ Waiting(v)' <=> Waiting(v)
        /\ Name(v)' = Name(v) /\ Name(v) # n /\ Name(v) \in Names /\ run'[v] = run[v]
  <2> SUFFICES ASSUME NEW v \in Users, v # u, Between(v)' \/ Waiting(v)', Name(v)' \notin deleted
               PROVE  /\ Between(v)' <=> Between(v)
                      /\ Waiting(v)' <=> Waiting(v)
                      /\ Name(v)' = Name(v) /\ Name(v) # n /\ Name(v) \in Names
                      /\ run'[v] = run[v]
    OBVIOUS
  <2>1. run'[v] = run[v] /\ Name(v)' = Name(v) /\ Name(v) \in Names
    BY NameType
  <2>2. (Between(v)' <=> Between(v)) /\ (Waiting(v)' <=> Waiting(v))
    BY <2>1 DEF Between, Waiting
  <2>3. Name(v) # n
    BY <1>1, <2>1, <2>2, FreeName
  <2> QED
    BY <2>1, <2>2, <2>3
<1>4. ~Waiting(u)' /\ Name(u)' = n /\ run'[u].opts = run[u].opts
  BY <1>1 DEF Waiting, Polling
<1>5. n \notin deleted => services[n] = None
  BY <1>1 DEF AskedInv, NoServiceAlone
<1>6. HalfIsAsked'
  BY <1>2, <1>3, <1>4, <1>5 DEF AskedInv, HalfIsAsked
<1>7. OneBetween'
  BY <1>3, <1>4 DEF AskedInv, OneBetween
<1>8. NoServiceAlone'
  BY <1>2, BuildIsSomething DEF AskedInv, NoServiceAlone
<1>9. ReadyIsAsked'
  BY <1>2, <1>3, <1>4 DEF AskedInv, ReadyIsAsked, Waiting
<1> QED
  BY <1>6, <1>7, <1>8, <1>9 DEF AskedInv

(* The Service is created, and perhaps the answer lost.                    *)
LEMMA ServiceMade ==
  ASSUME TypeOK, AskedInv, NEW u \in Users, Between(u), NewService(u),
         NEW s \in {"poll", "refused"}, Goes(u, s), deleted' = deleted
  PROVE  AskedInv'
<1> USE GoesKeeps DEF Stages, Ended, Polling
<1>1. PICK n \in Names : n = Name(u)
  BY NameType
<1>2. /\ services'[n] = run[u].opts.model /\ deployments' = deployments
      /\ \A m \in Names : m # n => services'[m] = services[m]
  BY <1>1 DEF NewService, TypeOK
<1>3. n \notin deleted => deployments[n] = Build(run[u].opts) /\ services[n] = None
  BY <1>1 DEF AskedInv, HalfIsAsked
<1>4. \A v \in Users : v # u /\ (Between(v)' \/ Waiting(v)') /\ Name(v)' \notin deleted =>
        /\ Between(v)' <=> Between(v)
        /\ Waiting(v)' <=> Waiting(v)
        /\ Name(v)' = Name(v) /\ Name(v) # n /\ Name(v) \in Names /\ run'[v] = run[v]
  <2> SUFFICES ASSUME NEW v \in Users, v # u, Between(v)' \/ Waiting(v)', Name(v)' \notin deleted
               PROVE  /\ Between(v)' <=> Between(v)
                      /\ Waiting(v)' <=> Waiting(v)
                      /\ Name(v)' = Name(v) /\ Name(v) # n /\ Name(v) \in Names
                      /\ run'[v] = run[v]
    OBVIOUS
  <2>1. run'[v] = run[v] /\ Name(v)' = Name(v) /\ Name(v) \in Names
    BY NameType
  <2>2. (Between(v)' <=> Between(v)) /\ (Waiting(v)' <=> Waiting(v))
    BY <2>1 DEF Between, Waiting
  <2>3. Name(v) # n
    <3> SUFFICES ASSUME Name(v) = n PROVE FALSE
      OBVIOUS
    <3>1. ~Between(v)
      BY <1>1, <2>1 DEF AskedInv, OneBetween
    <3>2. Waiting(v)
      BY <2>2, <3>1
    <3>3. services[n] = run[v].opts.model
      BY <2>1, <3>2 DEF AskedInv, ReadyIsAsked, Waiting
    <3> QED
      BY <1>3, <2>1, <3>3, BuildIsSomething
  <2> QED
    BY <2>1, <2>2, <2>3
<1>5. ~Between(u)' /\ Name(u)' = n /\ run'[u].opts = run[u].opts
  BY <1>1 DEF Between
<1>6. HalfIsAsked'
  BY <1>2, <1>4, <1>5 DEF AskedInv, HalfIsAsked
<1>7. OneBetween'
  BY <1>4, <1>5 DEF AskedInv, OneBetween
<1>8. NoServiceAlone'
  BY <1>2, <1>3, BuildIsSomething DEF AskedInv, NoServiceAlone
<1>9. ReadyIsAsked'
  BY <1>2, <1>3, <1>4, <1>5 DEF AskedInv, ReadyIsAsked, Waiting
<1> QED
  BY <1>6, <1>7, <1>8, <1>9 DEF AskedInv

LEMMA AskedRunStep ==
  ASSUME TypeOK, AskedInv, NEW u \in Users, Step(u) PROVE AskedInv'
<1>1. CASE CreateDeployment(u)
  <2>1. deleted' = deleted
    BY <1>1 DEF CreateDeployment
  <2>2. CASE (Goes(u, "refused") \/ Goes(u, "exists")) /\ UNCHANGED objects
    BY <2>1, <2>2, QuietGoes DEF objects, Stages, Ended, Polling
  <2>3. CASE Goes(u, "service") /\ NewDeployment(u) /\ deployments[Name(u)] = None
    BY <2>1, <2>3, DeploymentMade
  <2> QED
    BY <1>1, <2>2, <2>3 DEF CreateDeployment
<1>2. CASE CreateService(u)
  <2>1. deleted' = deleted /\ Between(u)
    BY <1>2 DEF CreateService, Creating, Between
  <2>2. CASE (Goes(u, "refused") \/ Goes(u, "exists")) /\ UNCHANGED objects
    BY <2>1, <2>2, QuietGoes DEF objects, Stages, Ended, Polling
  <2>3. CASE Goes(u, "poll") /\ NewService(u)
    BY <2>1, <2>3, ServiceMade
  <2> QED
    BY <1>2, <2>2, <2>3 DEF CreateService
<1>3. CASE CreateKServe(u)
  <2>1. /\ deleted' = deleted /\ run[u].kserve
        /\ deployments' = deployments /\ services' = services
        /\ Goes(u, "refused") \/ Goes(u, "poll")
    BY <1>3 DEF CreateKServe, NewInferenceService, objects
  <2> QED
    BY <2>1, QuietGoes DEF Stages, Ended, Polling
<1>4. CASE CreateFails(u)
  <2>1. Goes(u, "refused") /\ deleted' = deleted
    BY <1>4 DEF CreateFails
  <2>2. CASE deployments' = deployments /\ services' = services
    BY <2>1, <2>2, QuietGoes DEF Stages, Ended, Polling
  <2>3. CASE deployments[Name(u)] = None /\ NewDeployment(u)
    BY <2>1, <2>3, DeploymentMade
  <2>4. CASE Between(u) /\ NewService(u)
    BY <2>1, <2>4, ServiceMade
  <2> QED
    BY <1>4, <2>2, <2>3, <2>4 DEF CreateFails, Creating, Between, NewInferenceService, objects
<1>5. CASE Poll(u) \/ ListPods(u) \/ ListEvents(u) \/ ReadFails(u) \/ Wait(u)
  <2>1. /\ deleted' = deleted /\ deployments' = deployments /\ services' = services
        /\ Waiting(u) \/ run[u].kserve
    BY <1>5 DEF Poll, ListPods, ListEvents, ReadFails, Wait, Waiting, Polling, objects
  <2>2. PICK s \in Stages \ {"service"} : Goes(u, s)
    BY <1>5, PollingGoes DEF Stages, Ended, Polling
  <2> QED
    BY <2>1, <2>2, QuietGoes
<1> QED
  BY <1>1, <1>2, <1>3, <1>4, <1>5 DEF Step

LEMMA AskedStep == ASSUME TypeOK, AskedInv, [Next]_vars PROVE AskedInv'
<1>1. ASSUME NEW u \in Users, Start(u) PROVE AskedInv'
  <2>1. PICK o \in Options : StartRun(u, o)
    BY <1>1, DeployAssumption DEF Start
  <2>2. PICK kserve \in BOOLEAN :
          run' = [run EXCEPT ![u] = [stage |-> Opening(o), opts |-> o,
                                     kserve |-> kserve, expired |-> FALSE]]
    BY <2>1 DEF StartRun
  <2>3. /\ run'[u].stage = Opening(o)
        /\ \A v \in Users : v # u => run'[v] = run[v]
        /\ deployments' = deployments /\ services' = services /\ deleted' = deleted
    BY <2>1, <2>2 DEF TypeOK, StartRun, objects
  <2>4. ~Between(u)' /\ ~Waiting(u)'
    BY <2>3 DEF Between, Waiting, Opening, Polling
  <2>5. \A v \in Users : v # u => (Between(v)' <=> Between(v)) /\ (Waiting(v)' <=> Waiting(v))
    BY <2>3 DEF Between, Waiting
  <2> QED
    BY <2>3, <2>4, <2>5, QuietStep
<1>2. ASSUME NEW u \in Users, Kill(u) PROVE AskedInv'
  BY <1>2, QuietGoes DEF Kill, objects, Stages, Ended, Polling
<1>3. ASSUME run' = run \/ \E u \in Users : Expire(u),
             deployments' = deployments, services' = services, deleted' = deleted
      PROVE  AskedInv'
  <2>1. \A v \in Users : /\ run'[v].stage = run[v].stage /\ run'[v].opts = run[v].opts
                        /\ run'[v].kserve = run[v].kserve
    BY <1>3, ExpireKeeps
  <2>2. \A v \in Users : (Between(v)' <=> Between(v)) /\ (Waiting(v)' <=> Waiting(v))
    BY <2>1 DEF Between, Waiting
  <2> QED
    BY <1>3, <2>1, <2>2, QuietStep
<1>4. ASSUME NEW u \in Users, Expire(u) PROVE AskedInv'
  BY <1>3, <1>4 DEF Expire, objects
<1>5. ASSUME NEW n \in Names, Cluster(n) PROVE AskedInv'
  BY <1>3, <1>5 DEF Cluster, Serve, Schedule, PodRuns
<1>6. ASSUME NEW n \in Names, Delete(n) PROVE AskedInv'
  <2>1. /\ run' = run /\ deleted' = deleted \cup {n}
        /\ \A m \in Names : m # n => deployments'[m] = deployments[m] /\ services'[m] = services[m]
    BY <1>6 DEF Delete, TypeOK
  <2>2. \A v \in Users : Name(v)' \notin deleted' =>
          /\ Name(v)' = Name(v) /\ Name(v) \notin deleted
          /\ deployments'[Name(v)] = deployments[Name(v)]
          /\ services'[Name(v)] = services[Name(v)]
    BY <2>1, NameType DEF Name
  <2>3. \A v \in Users : Between(v)' <=> Between(v)
    BY <2>1 DEF Between
  <2>4. HalfIsAsked' /\ OneBetween'
    BY <2>1, <2>2, <2>3 DEF AskedInv, HalfIsAsked, OneBetween
  <2>5. NoServiceAlone'
    BY <2>1 DEF AskedInv, NoServiceAlone
  <2>6. ReadyIsAsked'
    BY <2>1, <2>2 DEF AskedInv, ReadyIsAsked
  <2> QED
    BY <2>4, <2>5, <2>6 DEF AskedInv
<1>7. CASE ChangeRoom \/ InstallKServe \/ UNCHANGED vars
  BY <1>3, <1>7 DEF ChangeRoom, InstallKServe, vars, objects
<1> QED
  BY <1>1, <1>2, <1>4, <1>5, <1>6, <1>7, AskedRunStep DEF Next

(* A generic run waits for and reports what it was asked for, whatever     *)
(* other runs do under the same name and wherever they break off.          *)
THEOREM ReportsWhatWasAsked == Spec => []ReadyIsAsked
<1>1. Init => AskedInv
  BY DEF Init, AskedInv, HalfIsAsked, OneBetween, NoServiceAlone, ReadyIsAsked, Between, Polling
<1>2. TypeOK /\ AskedInv /\ [Next]_vars => AskedInv'
  BY AskedStep
<1>3. AskedInv => ReadyIsAsked
  BY DEF AskedInv
<1> QED
  BY <1>1, <1>2, <1>3, DeployTypeCorrect, PTL DEF Spec

-----------------------------------------------------------------------------
(* A run gives up over an event, and the events it can read are those of   *)
(* pods it made itself, since nobody else has a Deployment of that name    *)
(* meanwhile.  So it has met the lack of room they tell of.                *)

RoomMet == room \/ short = Users

OwnShortage ==
  \A u \in Users : (Between(u) \/ Waiting(u)) /\ Name(u) \notin deleted =>
    \A i \in Replicas : pods[Name(u)][i] \in Failed => u \in short

GenericLooks == \A u \in Users : run[u].stage \in {"look", "events"} => ~run[u].kserve

ShortInv == RoomMet /\ OwnShortage /\ GenericLooks /\ GivesUpForWantOfRoom

(* Steps in which runs stay and pods find no new lack of room.             *)
LEMMA ShortStays ==
  ASSUME TypeOK, ShortInv, room' = room \/ room', short' = short,
         deleted \subseteq deleted',
         \A v \in Users : /\ run'[v].stage = run[v].stage /\ run'[v].opts = run[v].opts
                          /\ run'[v].kserve = run[v].kserve,
         \A n \in Names \ deleted', i \in Replicas :
           pods'[n][i] \in Failed => pods[n][i] \in Failed \/ ~room
  PROVE  ShortInv'
<1>1. \A v \in Users : /\ Name(v)' = Name(v) /\ Name(v) \in Names
                       /\ Between(v)' <=> Between(v)
                       /\ Waiting(v)' <=> Waiting(v)
  BY NameType DEF Name, Between, Waiting
<1>2. RoomMet'
  BY DEF ShortInv, RoomMet
<1>3. OwnShortage'
  <2> SUFFICES ASSUME NEW v \in Users, Between(v)' \/ Waiting(v)', Name(v)' \notin deleted',
                      NEW i \in Replicas, pods'[Name(v)'][i] \in Failed
               PROVE  v \in short'
    BY DEF OwnShortage, Failed
  <2>1. Name(v) \in Names \ deleted' /\ pods'[Name(v)][i] \in Failed
    BY <1>1
  <2>2. CASE pods[Name(v)][i] \in Failed
    BY <1>1, <2>1, <2>2 DEF ShortInv, OwnShortage
  <2>3. CASE ~room
    BY <2>3 DEF ShortInv, RoomMet
  <2> QED
    BY <2>1, <2>2, <2>3
<1>4. GenericLooks'
  BY DEF ShortInv, GenericLooks
<1>5. GivesUpForWantOfRoom'
  BY <1>1 DEF ShortInv, GivesUpForWantOfRoom
<1> QED
  BY <1>2, <1>3, <1>4, <1>5 DEF ShortInv

(* One run goes on; its pods are the old ones, or it has none with an      *)
(* event.                                                                  *)
LEMMA ShortGoes ==
  ASSUME TypeOK, ShortInv, NEW u \in Users, NEW s \in Stages, Goes(u, s),
         s \in {"look", "events"} => ~run[u].kserve,
         s \in Polling \cup {"ready"} => Between(u) \/ Waiting(u) \/ run[u].kserve,
         s = "scheduling" /\ Name(u) \notin deleted => u \in short,
         room' = room, short' = short, deleted' = deleted,
         s = "service" => \A i \in Replicas : pods'[Name(u)][i] \notin Failed,
         \A v \in Users : /\ Between(v) \/ Waiting(v)
                          /\ Name(v) \notin deleted
                          => pods'[Name(v)] = pods[Name(v)]
  PROVE  ShortInv'
<1> USE GoesKeeps
<1>1. RoomMet'
  BY DEF ShortInv, RoomMet
<1>2. OwnShortage'
  <2> SUFFICES ASSUME NEW v \in Users, Between(v)' \/ Waiting(v)', Name(v)' \notin deleted',
                      NEW i \in Replicas, pods'[Name(v)'][i] \in Failed
               PROVE  v \in short'
    BY DEF OwnShortage, Failed
  <2>1. Name(v)' = Name(v) /\ Name(v) \notin deleted /\ pods'[Name(v)][i] \in Failed
    <3>1. CASE v = u
      BY <3>1
    <3>2. CASE v # u
      BY <3>2
    <3> QED
      BY <3>1, <3>2
  <2>2. CASE v = u /\ s = "service"
    BY <2>1, <2>2
  <2>3. CASE v = u /\ s # "service"
    <3>1. ~Between(v)' /\ run'[v].stage = s /\ run'[v].kserve = run[v].kserve
      BY <2>3 DEF Between
    <3>2. s \in Polling \cup {"ready"} /\ ~run[v].kserve
      BY <3>1 DEF Waiting
    <3> QED
      BY <2>1, <2>3, <3>2 DEF ShortInv, OwnShortage
  <2>4. CASE v # u
    <3>1. (Between(v)' <=> Between(v)) /\ (Waiting(v)' <=> Waiting(v))
      BY <2>4 DEF Between, Waiting
    <3> QED
      BY <2>1, <3>1 DEF ShortInv, OwnShortage
  <2> QED
    BY <2>2, <2>3, <2>4
<1>3. GenericLooks'
  <2> SUFFICES ASSUME NEW v \in Users, run'[v].stage \in {"look", "events"}
               PROVE  ~run'[v].kserve
    BY DEF GenericLooks
  <2>1. CASE v = u
    BY <2>1
  <2>2. CASE v # u
    BY <2>2 DEF ShortInv, GenericLooks
  <2> QED
    BY <2>1, <2>2
<1>4. GivesUpForWantOfRoom'
  <2> SUFFICES ASSUME NEW v \in Users, run'[v].stage = "scheduling", Name(v)' \notin deleted'
               PROVE  v \in short'
    BY DEF GivesUpForWantOfRoom
  <2>1. CASE v = u
    BY <2>1
  <2>2. CASE v # u
    BY <2>2 DEF ShortInv, GivesUpForWantOfRoom
  <2> QED
    BY <2>1, <2>2
<1> QED
  BY <1>1, <1>2, <1>3, <1>4 DEF ShortInv

(* A Deployment is made: the name was nobody's, and its pods are new.      *)
LEMMA ShortMade ==
  ASSUME TypeOK, AskedInv, ShortInv, NEW u \in Users, deployments[Name(u)] = None,
         NewDeployment(u), NEW s \in {"service", "refused"}, Goes(u, s),
         room' = room, short' = short, deleted' = deleted
  PROVE  ShortInv'
<1>1. PICK n \in Names : n = Name(u)
  BY NameType
<1> DEFINE new == [i \in Replicas |-> IF i <= run[u].opts.replicas THEN "unscheduled" ELSE "none"]
<1>2. pods'[n] = new /\ \A m \in Names : m # n => pods'[m] = pods[m]
  BY <1>1 DEF NewDeployment, TypeOK
<1>3. \A i \in Replicas : new[i] \notin Failed
  BY DEF Failed
<1>4. \A v \in Users : (Between(v) \/ Waiting(v)) /\ Name(v) \notin deleted =>
        pods'[Name(v)] = pods[Name(v)]
  BY <1>1, <1>2, FreeName, NameType
<1> HIDE DEF new
<1>5. \A i \in Replicas : pods'[Name(u)][i] \notin Failed
  BY <1>1, <1>2, <1>3
<1> QED
  BY <1>4, <1>5, ShortGoes DEF Stages, Ended, Polling

LEMMA ShortRunStep ==
  ASSUME TypeOK, AskedInv, ShortInv, NEW u \in Users, Step(u) PROVE ShortInv'
<1>0. room' = room /\ short' = short /\ deleted' = deleted
  BY DEF Step, CreateDeployment, CreateService, CreateKServe, CreateFails, Poll, ListPods,
         ListEvents, ReadFails, Wait
<1>1. CASE CreateDeployment(u)
  <2>1. CASE (Goes(u, "refused") \/ Goes(u, "exists")) /\ UNCHANGED objects
    BY <1>0, <2>1, ShortGoes DEF objects, Stages, Ended, Polling
  <2>2. CASE Goes(u, "service") /\ NewDeployment(u) /\ deployments[Name(u)] = None
    BY <1>0, <2>2, ShortMade
  <2> QED
    BY <1>1, <2>1, <2>2 DEF CreateDeployment
<1>2. CASE CreateService(u)
  <2>1. pods' = pods /\ Between(u)
    BY <1>2 DEF CreateService, Creating, Between, NewService, objects
  <2>2. Goes(u, "refused") \/ Goes(u, "exists") \/ Goes(u, "poll")
    BY <1>2 DEF CreateService
  <2> QED
    BY <1>0, <2>1, <2>2, ShortGoes DEF Stages, Ended, Polling
<1>3. CASE CreateKServe(u)
  <2>1. pods' = pods /\ run[u].kserve
    BY <1>3 DEF CreateKServe, NewInferenceService, objects
  <2>2. Goes(u, "refused") \/ Goes(u, "poll")
    BY <1>3 DEF CreateKServe
  <2> QED
    BY <1>0, <2>1, <2>2, ShortGoes DEF Stages, Ended, Polling
<1>4. CASE CreateFails(u)
  <2>1. Goes(u, "refused")
    BY <1>4 DEF CreateFails
  <2>2. CASE pods' = pods
    BY <1>0, <2>1, <2>2, ShortGoes DEF Stages, Ended, Polling
  <2>3. CASE deployments[Name(u)] = None /\ NewDeployment(u)
    BY <1>0, <2>1, <2>3, ShortMade
  <2> QED
    BY <1>4, <2>2, <2>3 DEF CreateFails, NewInferenceService, NewService, objects
<1>5. CASE Poll(u) \/ ListPods(u) \/ ReadFails(u) \/ Wait(u)
  <2>1. pods' = pods /\ (Waiting(u) \/ run[u].kserve)
    BY <1>5, PollingGoes DEF Poll, ListPods, ReadFails, Wait, Waiting, objects
  <2>2. PICK s \in Stages \ {"service", "scheduling"} :
          Goes(u, s) /\ (s \in {"look", "events"} => ~run[u].kserve)
    <3>1. CASE Poll(u)
      BY <3>1 DEF Poll, Stages, Ended, Polling
    <3>2. CASE ListPods(u)
      BY <3>2 DEF ListPods, ShortInv, GenericLooks, Stages, Polling
    <3>3. CASE ReadFails(u)
      BY <3>3 DEF ReadFails, NextPod, ShortInv, GenericLooks, Stages, Polling
    <3>4. CASE Wait(u)
      BY <3>4 DEF Wait, Stages, Ended, Polling
    <3> QED
      BY <1>5, <3>1, <3>2, <3>3, <3>4
  <2> QED
    BY <1>0, <2>1, <2>2, ShortGoes
<1>6. CASE ListEvents(u)
  <2>1. pods' = pods /\ ~run[u].kserve /\ Waiting(u)
    BY <1>6 DEF ListEvents, ShortInv, GenericLooks, Waiting, Polling, objects
  <2>2. CASE Goes(u, "scheduling") /\ \E i \in listed[u] : pods[Name(u)][i] \in Failed
    <3>1. PICK i \in Replicas : pods[Name(u)][i] \in Failed
      BY <2>2 DEF TypeOK
    <3>2. Name(u) \notin deleted => u \in short
      BY <2>1, <3>1 DEF ShortInv, OwnShortage
    <3> QED
      BY <1>0, <2>1, <2>2, <3>2, ShortGoes DEF Stages, Ended, Polling
  <2>3. CASE Goes(u, "scheduling") /\ Name(u) \in deleted
    BY <1>0, <2>1, <2>3, ShortGoes DEF Stages, Ended, Polling
  <2>4. CASE Goes(u, "wait") \/ Goes(u, "events")
    BY <1>0, <2>1, <2>4, ShortGoes DEF Stages, Ended, Polling
  <2> QED
    BY <1>6, <2>2, <2>3, <2>4 DEF ListEvents, NextPod
<1> QED
  BY <1>1, <1>2, <1>3, <1>4, <1>5, <1>6 DEF Step

LEMMA ShortStart ==
  ASSUME TypeOK, ShortInv, NEW u \in Users, NEW o \in Options, StartRun(u, o) PROVE ShortInv'
<1>1. PICK kserve \in BOOLEAN :
        run' = [run EXCEPT ![u] = [stage |-> Opening(o), opts |-> o,
                                   kserve |-> kserve, expired |-> FALSE]]
  BY DEF StartRun
<1>2. /\ run'[u].stage = Opening(o)
      /\ \A v \in Users : v # u => run'[v] = run[v]
      /\ pods' = pods /\ room' = room /\ deleted' = deleted
      /\ short' = IF room THEN short \ {u} ELSE short \cup {u}
  BY <1>1 DEF TypeOK, StartRun, objects
<1>3. run'[u].stage \in {"create", "refused", "printed"}
  BY <1>2 DEF Opening
<1>4. \A v \in Users : v # u => /\ Name(v)' = Name(v)
                                /\ Between(v)' <=> Between(v)
                                /\ Waiting(v)' <=> Waiting(v)
                                /\ v \in short' <=> v \in short
  BY <1>2 DEF Name, Between, Waiting
<1>5. RoomMet'
  BY <1>2 DEF ShortInv, RoomMet
<1>6. ~Between(u)' /\ ~Waiting(u)'
  BY <1>3 DEF Between, Waiting, Polling
<1>7. OwnShortage'
  BY <1>2, <1>4, <1>6 DEF ShortInv, OwnShortage
<1>8. GenericLooks'
  BY <1>2, <1>3 DEF ShortInv, GenericLooks
<1>9. GivesUpForWantOfRoom'
  BY <1>2, <1>3, <1>4 DEF ShortInv, GivesUpForWantOfRoom
<1> QED
  BY <1>5, <1>7, <1>8, <1>9 DEF ShortInv

LEMMA ShortStep == ASSUME TypeOK, AskedInv, ShortInv, [Next]_vars PROVE ShortInv'
<1>1. ASSUME NEW u \in Users, Start(u) PROVE ShortInv'
  BY <1>1, DeployAssumption, ShortStart DEF Start
<1>2. ASSUME NEW u \in Users, Kill(u) PROVE ShortInv'
  BY <1>2, ShortGoes DEF Kill, objects, Stages, Ended, Polling
<1>3. ASSUME NEW u \in Users, Expire(u) PROVE ShortInv'
  <2>1. pods' = pods /\ room' = room /\ short' = short /\ deleted' = deleted
    BY <1>3 DEF Expire, objects
  <2> QED
    BY <1>3, <2>1, ExpireKeeps, ShortStays
<1>4. ASSUME NEW n \in Names, Cluster(n) PROVE ShortInv'
  <2>1. run' = run /\ room' = room /\ short' = short /\ deleted' = deleted
    BY <1>4 DEF Cluster, Serve, Schedule, PodRuns
  <2>2. \A m \in Names, j \in Replicas :
          pods'[m][j] \in Failed => pods[m][j] \in Failed \/ ~room
    <3>1. CASE Serve(n)
      BY <3>1 DEF Serve
    <3>2. ASSUME NEW i \in Replicas, Schedule(n, i) \/ PodRuns(n, i),
                 NEW m \in Names, NEW j \in Replicas, pods'[m][j] \in Failed
          PROVE  pods[m][j] \in Failed \/ ~room
      <4>1. CASE m = n /\ j = i
        <5>1. pods \in [Names -> [Replicas -> PodStates]]
          BY DEF TypeOK
        <5>2. CASE Schedule(n, i)
          BY <3>2, <4>1, <5>1, <5>2 DEF Schedule, Failed
        <5>3. CASE PodRuns(n, i)
          BY <3>2, <4>1, <5>1, <5>3 DEF PodRuns, Failed
        <5> QED
          BY <3>2, <5>2, <5>3
      <4>2. CASE ~(m = n /\ j = i)
        <5>1. pods'[m][j] = pods[m][j]
          BY <3>2, <4>2 DEF Schedule, PodRuns, TypeOK
        <5> QED
          BY <3>2, <5>1
      <4> QED
        BY <4>1, <4>2
    <3> QED
      BY <1>4, <3>1, <3>2 DEF Cluster
  <2> QED
    BY <2>1, <2>2, ShortStays
<1>5. ASSUME NEW n \in Names, Delete(n) PROVE ShortInv'
  <2>1. /\ run' = run /\ room' = room /\ short' = short /\ deleted' = deleted \cup {n}
        /\ \A m \in Names : m # n => pods'[m] = pods[m]
    BY <1>5 DEF Delete, TypeOK
  <2> QED
    BY <2>1, ShortStays
<1>6. CASE ChangeRoom
  <2>1. run' = run /\ pods' = pods /\ deleted' = deleted /\ room' = ~room
    BY <1>6 DEF ChangeRoom, objects
  <2>2. CASE room
    <3>1. short' = Users
      BY <1>6, <2>2 DEF ChangeRoom
    <3>2. RoomMet' /\ OwnShortage' /\ GivesUpForWantOfRoom'
      BY <3>1 DEF RoomMet, OwnShortage, GivesUpForWantOfRoom
    <3>3. GenericLooks'
      BY <2>1 DEF ShortInv, GenericLooks
    <3> QED
      BY <3>2, <3>3 DEF ShortInv
  <2>3. CASE ~room
    <3>1. room' /\ short' = short
      BY <1>6, <2>1, <2>3 DEF ChangeRoom
    <3> QED
      BY <2>1, <3>1, ShortStays
  <2> QED
    BY <2>2, <2>3
<1>7. CASE InstallKServe \/ UNCHANGED vars
  <2>1. /\ run' = run /\ pods' = pods /\ room' = room /\ short' = short /\ deleted' = deleted
    BY <1>7 DEF InstallKServe, vars, objects
  <2> QED
    BY <2>1, ShortStays
<1> QED
  BY <1>1, <1>2, <1>3, <1>4, <1>5, <1>6, <1>7, ShortRunStep DEF Next

(* A generic run gives up for want of a node only if there was none at     *)
(* some moment since it began, whatever other runs under the same name     *)
(* have met, and whatever changes between the reads that lead it to it.    *)
THEOREM GivesUpOnOwnShortage == Spec => []GivesUpForWantOfRoom
<1>1. Init => AskedInv
  BY DEF Init, AskedInv, HalfIsAsked, OneBetween, NoServiceAlone, ReadyIsAsked, Between, Polling
<1>2. TypeOK /\ AskedInv /\ [Next]_vars => AskedInv'
  BY AskedStep
<1>3. Init => ShortInv
  BY DEF Init, ShortInv, RoomMet, OwnShortage, GenericLooks, GivesUpForWantOfRoom,
         Between, Waiting, Polling
<1>4. TypeOK /\ AskedInv /\ ShortInv /\ [Next]_vars => ShortInv'
  BY ShortStep
<1>5. ShortInv => GivesUpForWantOfRoom
  BY DEF ShortInv
<1> QED
  BY <1>1, <1>2, <1>3, <1>4, <1>5, DeployTypeCorrect, PTL DEF Spec

-----------------------------------------------------------------------------
(* The variant of a run.                                                   *)

LEMMA StepsOfRun ==
  ASSUME TypeOK, NEW u \in Users, Active(u)
  PROVE  /\ StepsAhead(u) \in 1..5
         /\ run[u].stage = "create" => StepsAhead(u) = 5
         /\ run[u].stage = "service" => StepsAhead(u) = 4
         /\ run[u].stage \in Polling /\ ~run[u].expired => StepsAhead(u) = 3
         /\ run[u].stage \in {"poll", "look", "events"} /\ run[u].expired => StepsAhead(u) = 2
         /\ run[u].stage = "wait" /\ run[u].expired => StepsAhead(u) = 1
<1>1. run[u].stage \in {"create", "service"} \cup Polling /\ run[u].expired \in BOOLEAN
  BY DEF TypeOK, Runs, Active
<1> QED
  BY <1>1 DEF StepsAhead, Polling

LEMMA StepsAfter ==
  ASSUME NEW u \in Users
  PROVE  /\ run'[u].stage \in Ended => StepsAhead(u)' = 0
         /\ run'[u].stage = "service" => StepsAhead(u)' = 4
         /\ run'[u].stage \in Polling /\ ~run'[u].expired => StepsAhead(u)' = 3
         /\ run'[u].stage \in {"poll", "look", "events"} /\ run'[u].expired => StepsAhead(u)' = 2
         /\ run'[u].stage = "wait" /\ run'[u].expired => StepsAhead(u)' = 1
BY DEF StepsAhead, Ended, Polling

LEMMA GoesClock ==
  ASSUME TypeOK, NEW u \in Users, NEW s \in Stages, Goes(u, s)
  PROVE  run'[u].expired = run[u].expired /\ run'[u].stage = s
BY DEF Goes, TypeOK, Runs

LEMMA EndOfRun ==
  ASSUME TypeOK, NEW u \in Users, Active(u), NEW s \in Ended, Goes(u, s)
  PROVE  StepsAhead(u)' \in 0..(StepsAhead(u) - 1)
<1>1. run'[u].stage \in Ended
  BY GoesClock DEF Stages
<1> QED
  BY <1>1, StepsOfRun, StepsAfter

(* The creations come first, and are not made again.                       *)
LEMMA CreationAdvances ==
  ASSUME TypeOK, NEW u \in Users, run[u].stage \in {"create", "service"},
         NEW s \in {"service", "poll"}, Goes(u, s), s = "service" => run[u].stage = "create"
  PROVE  StepsAhead(u)' \in 0..(StepsAhead(u) - 1)
<1>1. Active(u)
  BY DEF Active, Ended
<1>2. s \in Stages
  BY DEF Stages, Polling
<1>3. run'[u].stage = s
  BY <1>2, GoesClock
<1>4. CASE s = "service"
  BY <1>1, <1>3, <1>4, StepsOfRun, StepsAfter
<1>5. CASE s = "poll"
  <2>1. StepsAhead(u)' \in {2, 3}
    BY <1>3, <1>5, StepsAfter DEF Polling
  <2>2. StepsAhead(u) \in {4, 5}
    BY <1>1, StepsOfRun
  <2> QED
    BY <2>1, <2>2
<1> QED
  BY <1>4, <1>5

Loops(u) ==
  /\ run[u].stage \in Polling /\ ~run[u].expired
  /\ \E s \in Polling : Goes(u, s)

LEMMA PollingAdvances ==
  ASSUME TypeOK, NEW u \in Users,
         Poll(u) \/ ListPods(u) \/ ListEvents(u) \/ ReadFails(u) \/ Wait(u)
  PROVE  StepsAhead(u)' \in 0..(StepsAhead(u) - 1) \/ Loops(u)
<1>1. Active(u) /\ run[u].stage \in Polling
  BY PollingGoes DEF Active, Ended, Polling
<1>2. PICK s \in Polling \cup {"ready", "scheduling", "timeout"} :
        /\ Goes(u, s)
        /\ run[u].expired => \/ run[u].stage # "wait" /\ s = "wait"
                             \/ s = "timeout"
  BY PollingGoes
<1>3. CASE s \in Ended
  BY <1>1, <1>2, <1>3, EndOfRun
<1>4. CASE s \in Polling /\ ~run[u].expired
  BY <1>1, <1>2, <1>4 DEF Loops
<1>5. CASE run[u].stage # "wait" /\ s = "wait" /\ run[u].expired
  <2>0. run[u].stage \in {"poll", "look", "events"}
    BY <1>1, <1>5 DEF Polling
  <2>1. s \in Stages
    BY <1>5 DEF Stages, Polling
  <2>2. run'[u].stage = "wait" /\ run'[u].expired
    BY <1>2, <1>5, <2>1, GoesClock
  <2> QED
    BY <1>1, <1>5, <2>0, <2>2, StepsOfRun, StepsAfter
<1> QED
  BY <1>2, <1>3, <1>4, <1>5 DEF Ended, Polling

LEMMA StepGoes ==
  ASSUME NEW u \in Users, Step(u)
  PROVE  \/ \E s \in Ended : Goes(u, s)
         \/ /\ run[u].stage \in {"create", "service"}
            /\ \E s \in {"service", "poll"} :
                 Goes(u, s) /\ (s = "service" => run[u].stage = "create")
         \/ Poll(u) \/ ListPods(u) \/ ListEvents(u) \/ ReadFails(u) \/ Wait(u)
<1>1. CASE CreateDeployment(u)
  BY <1>1 DEF CreateDeployment, Creating, Ended
<1>2. CASE CreateService(u)
  BY <1>2 DEF CreateService, Creating, Ended
<1>3. CASE CreateKServe(u)
  BY <1>3 DEF CreateKServe, Creating, Ended
<1>4. CASE CreateFails(u)
  BY <1>4 DEF CreateFails, Ended
<1>5. CASE Poll(u) \/ ListPods(u) \/ ListEvents(u) \/ ReadFails(u) \/ Wait(u)
  BY <1>5
<1> QED
  BY <1>1, <1>2, <1>3, <1>4, <1>5 DEF Step

LEMMA StepAdvances ==
  ASSUME TypeOK, NEW u \in Users, Active(u), Step(u)
  PROVE  StepsAhead(u)' \in 0..(StepsAhead(u) - 1) \/ Loops(u)
BY StepGoes, EndOfRun, CreationAdvances, PollingAdvances

LEMMA ExpiryAdvances ==
  ASSUME TypeOK, NEW u \in Users, Expire(u)
  PROVE  StepsAhead(u)' \in 0..(StepsAhead(u) - 1)
<1>1. run[u] \in Runs /\ run[u].stage \in Polling /\ ~run[u].expired
  BY DEF Expire, TypeOK
<1>2. run'[u].stage = run[u].stage /\ run'[u].expired
  BY <1>1 DEF Expire, TypeOK, Runs
<1>3. Active(u)
  BY <1>1 DEF Active, Polling, Ended
<1>4. StepsAhead(u) = 3
  BY <1>1, <1>3, StepsOfRun
<1>5. StepsAhead(u)' \in {1, 2}
  BY <1>1, <1>2, StepsAfter DEF Polling
<1> QED
  BY <1>4, <1>5

(* Other people's runs and the cluster leave a run where it is.            *)
LEMMA OthersLeaveRun ==
  ASSUME TypeOK, NEW u \in Users, Active(u), [Next]_vars,
         ~Step(u), ~Expire(u), ~Kill(u)
  PROVE  run'[u] = run[u]
<1>1. ASSUME NEW v \in Users, v # u, NEW s \in Stages, Goes(v, s)
      PROVE  run'[u] = run[u]
  BY <1>1, GoesKeeps
<1>2. ASSUME NEW v \in Users, Start(v)
      PROVE  run'[u] = run[u]
  <2>1. v # u
    BY <1>2 DEF Start, StartRun
  <2> QED
    BY <1>2, <2>1 DEF Start, StartRun, TypeOK
<1>3. ASSUME NEW v \in Users, v # u, Step(v)
      PROVE  \E s \in Stages : Goes(v, s)
  <2>1. CASE Poll(v) \/ ListPods(v) \/ ListEvents(v) \/ ReadFails(v) \/ Wait(v)
    BY <2>1, PollingGoes DEF Stages, Ended
  <2> QED
    BY <1>3, <2>1, StepGoes DEF Stages, Polling
<1>4. ASSUME NEW v \in Users, v # u, Expire(v)
      PROVE  run'[u] = run[u]
  BY <1>4 DEF Expire, TypeOK
<1>5. ASSUME NEW v \in Users, v # u, Kill(v)
      PROVE  run'[u] = run[u]
  BY <1>1, <1>5 DEF Kill, Stages, Ended
<1>6. ASSUME NEW n \in Names, Cluster(n) \/ Delete(n)
      PROVE  run'[u] = run[u]
  BY <1>6 DEF Cluster, Serve, Schedule, PodRuns, Delete
<1>7. CASE ChangeRoom \/ InstallKServe \/ UNCHANGED vars
  BY <1>7 DEF ChangeRoom, InstallKServe, vars
<1> QED
  BY <1>1, <1>2, <1>3, <1>4, <1>5, <1>6, <1>7 DEF Next

(* deploy.go creates once and then only polls, and nothing sends it back:  *)
(* with a timeout, what remains of a run is bounded from the moment its    *)
(* context is done, however often the cluster fails or changes.            *)
THEOREM RunsGoForward == Spec => RunsAdvance
<1>1. ASSUME TypeOK, [Next]_vars, NEW u \in Users, Active(u)
      PROVE  \/ StepsAhead(u)' \in 0..(StepsAhead(u) - 1)
             \/ run'[u] = run[u] /\ ~Step(u)
             \/ Loops(u)
  <2>1. CASE Step(u)
    BY <1>1, <2>1, StepAdvances
  <2>2. CASE Expire(u)
    BY <1>1, <2>2, ExpiryAdvances
  <2>3. CASE Kill(u)
    <3>1. Goes(u, "killed") /\ "killed" \in Ended
      BY <2>3 DEF Kill, Ended
    <3> QED
      BY <1>1, <3>1, EndOfRun
  <2> QED
    BY <1>1, <2>1, <2>2, <2>3, OthersLeaveRun
<1>2. TypeOK /\ [Next]_vars =>
        \A u \in Users : Active(u) =>
          \/ StepsAhead(u)' \in 0..(StepsAhead(u) - 1)
          \/ run'[u] = run[u] /\ ~Step(u)
          \/ /\ run[u].stage \in Polling /\ ~run[u].expired
             /\ \E s \in Polling : Goes(u, s)
  BY <1>1 DEF Loops
<1> QED
  BY <1>2, DeployTypeCorrect, PTL DEF Spec, RunsAdvance
=============================================================================
