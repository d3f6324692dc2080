------------------------------- MODULE Deploy -------------------------------
(***************************************************************************)
(* `kubefisher deploy` (internal/deploy): runs of several users in one     *)
(* namespace, each with its own options.  A run picks a strategy, creates  *)
(* a Deployment and then a Service, or an InferenceService, under a name   *)
(* made from the model, and polls that name until it is ready.             *)
(***************************************************************************)
EXTENDS Integers

CONSTANTS
  Users, Models, Names,
  Options,       \* DeployOptions and --timeout (timed: not 0)
  OptionsOf,     \* [Users -> the Options each may give]
  Slug,          \* ModelSlug as [Models -> Names]; models may share a name
  LabelValues,   \* external: models the API server takes as a label value
  ServiceNames,  \* external: names for a Service or an InferenceService (a letter first)
  MaxReplicas,   \* bound on --replicas
  MaxFaults,     \* bound on failures, kills and changes by other people
  None           \* no such object

VARIABLES
  run,          \* [Users -> the run in progress or the last one]
  listed,       \* [Users -> the pending pods whose events the run asks for]
  crd,          \* InferenceService is installed
  room,         \* a node with the GPU asked for has room
  deployments,  \* [Names -> what the Deployment runs, or None]
  services,     \* [Names -> the model the Service was made for, or None]
  pods,         \* [Names -> states of the Deployment's pods]
  isvcs,        \* [Names -> state of the InferenceService]
  short,        \* history: users whose run, or last run, met a lack of room
  deleted,      \* names of which somebody deleted an object, ever
  faults        \* faults and changes so far

objects == <<deployments, services, pods, isvcs>>
vars    == <<run, listed, crd, room, short, objects, deleted, faults>>

Replicas  == 1..MaxReplicas
Pending   == {"unscheduled", "unschedulable", "starting", "resumed"}
Available == {"available", "late"}
\* Their pods have an event FailedScheduling, new or old; "resumed" and then
\* "late" have found a node since.
Failed    == {"unschedulable", "resumed", "late"}
PodStates == {"none"} \cup Pending \cup Available
IsvcStates == {"absent", "pending", "unaddressed", "ready"}
Polling   == {"poll", "look", "events", "wait"}
Ended     == {"printed", "refused", "exists", "scheduling", "timeout", "killed", "ready"}

ASSUME DeployAssumption ==
  /\ Options # {}
  /\ Options \subseteq [model: Models, replicas: 0..MaxReplicas, dryRun: BOOLEAN, timed: BOOLEAN]
  /\ OptionsOf \in [Users -> SUBSET Options]
  /\ Slug \in [Models -> Names]
  /\ LabelValues \subseteq Models /\ ServiceNames \subseteq Names
  /\ MaxReplicas \in Nat \ {0} /\ MaxFaults \in Nat
  /\ None \notin Models /\ None \notin [model: Models, replicas: 0..MaxReplicas]

Runs == [stage: {"create", "service"} \cup Polling \cup Ended, opts: Options,
         kserve: BOOLEAN, expired: BOOLEAN]

Active(u) == run[u].stage \notin Ended

PrimaryName(o) == Slug[o.model]

Name(u) == PrimaryName(run[u].opts)

Goes(u, stage) == run' = [run EXCEPT ![u].stage = stage]

Fault == faults < MaxFaults /\ faults' = faults + 1

-----------------------------------------------------------------------------
(* The options are validated and a dry run ends before anything is made.   *)
Opening(o) ==
  IF o.replicas < 1 THEN "refused" ELSE IF o.dryRun THEN "printed" ELSE "create"

(* Discovery that fails, twice where only a group is concerned, means the  *)
(* generic strategy.                                                       *)
StartRun(u, o) ==
  /\ ~Active(u)
  /\ \E kserve \in BOOLEAN :
       /\ kserve => crd
       /\ IF kserve = crd THEN UNCHANGED faults ELSE Fault
       /\ run' = [run EXCEPT ![u] = [stage |-> Opening(o), opts |-> o,
                                     kserve |-> kserve, expired |-> FALSE]]
  /\ short' = IF room THEN short \ {u} ELSE short \cup {u}
  /\ UNCHANGED <<listed, crd, room, objects, deleted>>

(* Replicas is the generic strategy's alone.                               *)
Build(o) == [model |-> o.model, replicas |-> o.replicas]

(* Mutant: --replicas is ignored.                                          *)
NewDeploymentAtMost(u) ==
  /\ deployments' = [deployments EXCEPT ![Name(u)] = Build(run[u].opts)]
  /\ pods' = [pods EXCEPT ![Name(u)] = [i \in Replicas |-> "unscheduled"]]
  /\ UNCHANGED <<services, isvcs>>

NewDeployment(u) ==
  /\ deployments' = [deployments EXCEPT ![Name(u)] = Build(run[u].opts)]
  /\ pods' = [pods EXCEPT ![Name(u)] =
       [i \in Replicas |-> IF i <= run[u].opts.replicas THEN "unscheduled" ELSE "none"]]
  /\ UNCHANGED <<services, isvcs>>

NewService(u) ==
  /\ services' = [services EXCEPT ![Name(u)] = run[u].opts.model]
  /\ UNCHANGED <<deployments, pods, isvcs>>

NewInferenceService(u) ==
  /\ isvcs' = [isvcs EXCEPT ![Name(u)] = "pending"]
  /\ UNCHANGED <<deployments, services, pods>>

Creating(u, stage) == run[u].stage = stage

(* The model is a label of every object.                                   *)
Labelled(u) == run[u].opts.model \in LabelValues
Served(u) == crd /\ Labelled(u) /\ Name(u) \in ServiceNames

(* Mutant: createObject takes what is there, as for KServe.                *)
CreateDeploymentOrTake(u) ==
  /\ Creating(u, "create") /\ ~run[u].kserve
  /\ IF ~Labelled(u) THEN Goes(u, "refused") /\ UNCHANGED objects
     ELSE /\ Goes(u, "service")
          /\ IF deployments[Name(u)] # None THEN UNCHANGED objects ELSE NewDeployment(u)
  /\ UNCHANGED <<listed, crd, room, short, deleted, faults>>

CreateDeployment(u) ==
  /\ Creating(u, "create") /\ ~run[u].kserve
  /\ IF ~Labelled(u) THEN Goes(u, "refused") /\ UNCHANGED objects
     ELSE IF deployments[Name(u)] # None THEN Goes(u, "exists") /\ UNCHANGED objects
     ELSE Goes(u, "service") /\ NewDeployment(u)
  /\ UNCHANGED <<listed, crd, room, short, deleted, faults>>

CreateService(u) ==
  /\ Creating(u, "service")
  /\ IF Name(u) \notin ServiceNames THEN Goes(u, "refused") /\ UNCHANGED objects
     ELSE IF services[Name(u)] # None THEN Goes(u, "exists") /\ UNCHANGED objects
     ELSE Goes(u, "poll") /\ NewService(u)
  /\ UNCHANGED <<listed, crd, room, short, deleted, faults>>

(* Mutant: an InferenceService that exists is an error.                    *)
CreateKServeOnce(u) ==
  /\ Creating(u, "create") /\ run[u].kserve
  /\ IF ~Served(u) THEN Goes(u, "refused") /\ UNCHANGED objects
     ELSE IF isvcs[Name(u)] # "absent" THEN Goes(u, "exists") /\ UNCHANGED objects
     ELSE Goes(u, "poll") /\ NewInferenceService(u)
  /\ UNCHANGED <<listed, crd, room, short, deleted, faults>>

(* One that exists is left as it is, whatever its model.                   *)
CreateKServe(u) ==
  /\ Creating(u, "create") /\ run[u].kserve
  /\ IF ~Served(u) THEN Goes(u, "refused") /\ UNCHANGED objects
     ELSE /\ Goes(u, "poll")
          /\ IF isvcs[Name(u)] # "absent" THEN UNCHANGED objects ELSE NewInferenceService(u)
  /\ UNCHANGED <<listed, crd, room, short, deleted, faults>>

(* The call fails, perhaps only after it took effect.                      *)
CreateFails(u) ==
  /\ run[u].stage \in {"create", "service"}
  /\ Fault /\ Goes(u, "refused")
  /\ \/ UNCHANGED objects
     \/ /\ Creating(u, "create") /\ ~run[u].kserve /\ Labelled(u)
        /\ deployments[Name(u)] = None /\ NewDeployment(u)
     \/ /\ Creating(u, "create") /\ run[u].kserve /\ Served(u)
        /\ isvcs[Name(u)] = "absent" /\ NewInferenceService(u)
     \/ /\ Creating(u, "service") /\ Name(u) \in ServiceNames
        /\ services[Name(u)] = None /\ NewService(u)
  /\ UNCHANGED <<listed, crd, room, short, deleted>>

-----------------------------------------------------------------------------
(* PollUntilReady.                                                         *)

Ready(n) ==
  /\ deployments[n] # None
  /\ \A i \in 1..deployments[n].replicas : pods[n][i] \in Available

(* The first read of WaitReady.                                            *)
Poll(u) ==
  /\ run[u].stage = "poll" /\ ~run[u].expired
  /\ Goes(u, IF run[u].kserve THEN IF isvcs[Name(u)] = "ready" THEN "ready" ELSE "wait"
             ELSE IF deployments[Name(u)] = None THEN "wait"
             ELSE IF Ready(Name(u)) THEN "ready" ELSE "look")
  /\ UNCHANGED <<listed, crd, room, short, objects, deleted, faults>>

(* checkSchedulingFailure.                                                 *)
PendingPods(n) == {i \in Replicas : pods[n][i] \in Pending}

(* Mutant: the phase is tested the wrong way round.                        *)
ListOtherPods(u) ==
  LET found == {i \in Replicas : pods[Name(u)][i] \in Available}
  IN /\ run[u].stage = "look" /\ ~run[u].expired
     /\ Goes(u, IF found = {} THEN "wait" ELSE "events")
     /\ listed' = [listed EXCEPT ![u] = found]
     /\ UNCHANGED <<crd, room, short, objects, deleted, faults>>

(* The pods are listed in one call, and those that are pending kept.       *)
ListPods(u) ==
  LET found == PendingPods(Name(u))
  IN /\ run[u].stage = "look" /\ ~run[u].expired
     /\ Goes(u, IF found = {} THEN "wait" ELSE "events")
     /\ listed' = [listed EXCEPT ![u] = found]
     /\ UNCHANGED <<crd, room, short, objects, deleted, faults>>

(* What the loop does after a pod that gave no verdict.                    *)
NextPod(u, i) ==
  /\ Goes(u, IF listed[u] = {i} THEN "wait" ELSE "events")
  /\ listed' = [listed EXCEPT ![u] = @ \ {i}]

(* The events of each of them are listed in a call of their own, when the  *)
(* pod may be pending no more; one FailedScheduling decides, of whatever   *)
(* age.  Nothing here tells whether a pod that is gone has left one.       *)
ListEvents(u) ==
  /\ run[u].stage = "events" /\ ~run[u].expired
  /\ \E i \in listed[u] :
       \/ /\ pods[Name(u)][i] \in Failed \/ Name(u) \in deleted
          /\ Goes(u, "scheduling") /\ listed' = [listed EXCEPT ![u] = {}]
       \/ /\ pods[Name(u)][i] \notin Failed \/ Name(u) \in deleted
          /\ NextPod(u, i)
  /\ UNCHANGED <<crd, room, short, objects, deleted, faults>>

(* No read succeeds once the context is done.  Failed reads are no         *)
(* verdict: of the events of one pod, and the loop goes on to the next.    *)
ReadFails(u) ==
  /\ run[u].stage \in {"poll", "look", "events"}
  /\ IF run[u].expired THEN UNCHANGED faults ELSE Fault
  /\ IF run[u].stage = "events" /\ ~run[u].expired
     THEN \E i \in listed[u] : NextPod(u, i)
     ELSE Goes(u, "wait") /\ listed' = [listed EXCEPT ![u] = {}]
  /\ UNCHANGED <<crd, room, short, objects, deleted>>

(* Mutant: the loop waits for its ticker only.                             *)
WaitTicksOnly(u) ==
  /\ run[u].stage = "wait"
  /\ Goes(u, "poll")
  /\ UNCHANGED <<listed, crd, room, short, objects, deleted, faults>>

(* Done or the ticker; a tick at the very moment of Done only adds a read  *)
(* that fails.                                                             *)
Wait(u) ==
  /\ run[u].stage = "wait"
  /\ Goes(u, IF run[u].expired THEN "timeout" ELSE "poll")
  /\ UNCHANGED <<listed, crd, room, short, objects, deleted, faults>>

Expire(u) ==
  /\ run[u].stage \in Polling /\ run[u].opts.timed /\ ~run[u].expired
  /\ run' = [run EXCEPT ![u].expired = TRUE]
  /\ UNCHANGED <<listed, crd, room, short, objects, deleted, faults>>

Step(u) ==
  \/ CreateDeployment(u) \/ CreateService(u) \/ CreateKServe(u) \/ CreateFails(u)
  \/ Poll(u) \/ ListPods(u) \/ ListEvents(u) \/ ReadFails(u) \/ Wait(u)

-----------------------------------------------------------------------------
(* Users and the cluster.                                                  *)

Start(u) == \E o \in OptionsOf[u] : StartRun(u, o)

Kill(u) ==
  /\ Active(u) /\ Fault /\ Goes(u, "killed")
  /\ UNCHANGED <<listed, crd, room, short, objects, deleted>>

Schedule(n, i) ==
  /\ \/ pods[n][i] = "unscheduled" /\ room
        /\ pods' = [pods EXCEPT ![n][i] = "starting"]
     \/ pods[n][i] = "unschedulable" /\ room
        /\ pods' = [pods EXCEPT ![n][i] = "resumed"]
     \/ pods[n][i] = "unscheduled" /\ ~room
        /\ pods' = [pods EXCEPT ![n][i] = "unschedulable"]
  /\ UNCHANGED <<run, listed, crd, room, short, deployments, services, isvcs, deleted, faults>>

PodRuns(n, i) ==
  /\ pods[n][i] \in {"starting", "resumed"}
  /\ pods' = [pods EXCEPT ![n][i] = IF @ = "starting" THEN "available" ELSE "late"]
  /\ UNCHANGED <<run, listed, crd, room, short, deployments, services, isvcs, deleted, faults>>

(* A node goes or comes: drained, taken by others, added by the autoscaler. *)
ChangeRoom ==
  /\ Fault /\ room' = ~room
  /\ short' = IF room THEN Users ELSE short
  /\ UNCHANGED <<run, listed, crd, objects, deleted>>

(* KServe: Ready and the address may come one after the other.             *)
Serve(n) ==
  /\ isvcs[n] \in {"pending", "unaddressed"}
  /\ isvcs' = [isvcs EXCEPT ![n] = IF @ = "pending" THEN "unaddressed" ELSE "ready"]
  /\ UNCHANGED <<run, listed, crd, room, short, deployments, services, pods, deleted, faults>>

InstallKServe ==
  /\ Fault /\ ~crd /\ crd' = TRUE
  /\ UNCHANGED <<run, listed, room, short, objects, deleted>>

Delete(n) ==
  /\ Fault
  /\ \/ /\ deployments[n] # None
        /\ deployments' = [deployments EXCEPT ![n] = None]
        /\ pods' = [pods EXCEPT ![n] = [i \in Replicas |-> "none"]]
        /\ UNCHANGED <<services, isvcs>>
     \/ /\ services[n] # None
        /\ services' = [services EXCEPT ![n] = None]
        /\ UNCHANGED <<deployments, pods, isvcs>>
     \/ /\ isvcs[n] # "absent"
        /\ isvcs' = [isvcs EXCEPT ![n] = "absent"]
        /\ UNCHANGED <<deployments, services, pods>>
  /\ deleted' = deleted \cup {n}
  /\ UNCHANGED <<run, listed, crd, room, short>>

Cluster(n) == Serve(n) \/ \E i \in Replicas : Schedule(n, i) \/ PodRuns(n, i)

Init ==
  /\ run = [u \in Users |-> [stage |-> "killed", opts |-> CHOOSE o \in Options : TRUE,
                             kserve |-> FALSE, expired |-> FALSE]]
  /\ listed = [u \in Users |-> {}]
  /\ crd \in BOOLEAN /\ room \in BOOLEAN
  /\ short = IF room THEN {} ELSE Users
  /\ deployments = [n \in Names |-> None] /\ services = [n \in Names |-> None]
  /\ pods = [n \in Names |-> [i \in Replicas |-> "none"]]
  /\ isvcs = [n \in Names |-> "absent"]
  /\ deleted = {} /\ faults = 0

Next ==
  \/ \E u \in Users : Start(u) \/ Step(u) \/ Expire(u) \/ Kill(u)
  \/ \E n \in Names : Cluster(n) \/ Delete(n)
  \/ ChangeRoom \/ InstallKServe

Spec == Init /\ [][Next]_vars

(* Runs go on and are repeated, the clock too, and the cluster works.      *)
Fairness ==
  /\ \A u \in Users : WF_vars(Step(u) \/ Start(u)) /\ WF_vars(Expire(u))
  /\ WF_vars(\E n \in Names : Cluster(n))

FairSpec == Spec /\ Fairness

-----------------------------------------------------------------------------
(* Pods come and go with their Deployment; only a KServe run skips the     *)
(* Service, and it does so on a cluster with KServe.                       *)
TypeOK ==
  /\ run \in [Users -> Runs]
  /\ listed \in [Users -> SUBSET Replicas] /\ short \in SUBSET Users
  /\ crd \in BOOLEAN /\ room \in BOOLEAN
  /\ deployments \in [Names -> [model: Models, replicas: Replicas] \cup {None}]
  /\ services \in [Names -> Models \cup {None}]
  /\ pods \in [Names -> [Replicas -> PodStates]]
  /\ isvcs \in [Names -> IsvcStates]
  /\ deleted \in SUBSET Names /\ faults \in 0..MaxFaults
  /\ \A u \in Users : Active(u) => /\ run[u].opts.replicas \in Replicas
                                   /\ run[u].kserve => run[u].stage # "service"
  /\ \A n \in Names, i \in Replicas :
       pods[n][i] # "none" <=> deployments[n] # None /\ i <= deployments[n].replicas

(* What a generic run waits for and reports ready is the model it was      *)
(* asked for, with the replicas asked for, behind a Service of its own,    *)
(* although another model may have the same name and other runs failed or  *)
(* were killed half-way: unless somebody deleted objects of that name.     *)
ReadyIsAsked ==
  \A u \in Users :
    run[u].stage \in Polling \cup {"ready"} /\ ~run[u].kserve /\ Name(u) \notin deleted =>
      /\ deployments[Name(u)] = Build(run[u].opts)
      /\ services[Name(u)] = run[u].opts.model

(* A generic run gives up only if there was no room at some moment since   *)
(* it began: never over what other runs met under the same name, although  *)
(* it reads the pods and their events one call after the other and takes   *)
(* an event of any age.                                                    *)
GivesUpForWantOfRoom ==
  \A u \in Users :
    run[u].stage = "scheduling" /\ Name(u) \notin deleted => u \in short

Starves(u) ==
  /\ run[u].stage \in Polling /\ ~run[u].kserve /\ Name(u) \notin deleted
  /\ \E i \in Replicas : pods[Name(u)][i] = "unschedulable"

(* Without a timeout too, a generic run does not wait for ever for a pod   *)
(* that finds no node: it gives up, is killed, or the pod finds one.       *)
ShortageIsReported == \A u \in Users : []<>~Starves(u)

(* The steps a run may still take, once its clock has run out.             *)
StepsAhead(u) ==
  CASE run[u].stage = "create"                             -> 5
    [] run[u].stage = "service"                            -> 4
    [] run[u].stage \in Polling /\ ~run[u].expired         -> 3
    [] run[u].stage \in {"poll", "look", "events"} /\ run[u].expired -> 2
    [] run[u].stage = "wait" /\ run[u].expired             -> 1
    [] OTHER                                               -> 0

(* Nothing takes a run back, and the only loop it can be in is the polling *)
(* before its clock runs out, at any moment of which that may happen.      *)
RunsAdvance ==
  [][\A u \in Users : Active(u) =>
       \/ StepsAhead(u)' \in 0..(StepsAhead(u) - 1)
       \/ run'[u] = run[u] /\ ~Step(u)
       \/ /\ run[u].stage \in Polling /\ ~run[u].expired
          /\ \E s \in Polling : Goes(u, s)]_vars

(* With a timeout every run ends.                                          *)
DeployEnds == \A u \in Users : Active(u) /\ run[u].opts.timed ~> ~Active(u)

Willing(u) ==
  /\ run[u].opts.replicas > 0 /\ ~run[u].opts.dryRun /\ ~run[u].opts.timed
  /\ Served(u)

(* On a cluster with KServe, users who repeat the command and wait get     *)
(* their endpoint, whatever failed or was killed before: unless somebody   *)
(* deleted the InferenceService, for which a run then waits in vain.       *)
RetriesSucceed ==
  \A u \in Users :
    <>[](Willing(u) /\ Name(u) \notin deleted) => []<>(run[u].stage = "ready")
=============================================================================
