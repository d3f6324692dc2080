------------------------------ MODULE Install ------------------------------
(***************************************************************************)
(* `kubefisher install` (internal/install): a run asks the cluster what is *)
(* there, installs the charts that are not with helm, one after the other, *)
(* and applies two embedded assets.  Lists and helm may fail, a run may be *)
(* killed anywhere, and the user runs the command again.  A chart that was *)
(* broken off leaves things behind, and the next run takes them for an     *)
(* installation.                                                           *)
(***************************************************************************)
EXTENDS Integers, FiniteSets

CONSTANTS
  MaxFaults,   \* bound on the failures, kills and changes by other people
  Foreigns     \* subset of Charts: what other people may install

VARIABLES
  run,         \* the run in progress or the last one
  releases,    \* [Charts -> state of the helm release]
  workloads,   \* charts whose labelled workloads stem from our release
  foreign,     \* charts for which somebody else's workloads are there
  namespaces,  \* charts whose target namespace exists
  ruleKind,    \* the CRD of PrometheusRule is there
  gpuNodes,    \* some node has GPUs
  prices,      \* ConfigMap gpu-pricing: "absent", "default" or "edited"
  rules,       \* the PrometheusRule of the assets is there
  torn,        \* charts of which an installation was broken off, ever
  unseen,      \* charts others installed during a run, or whose list failed
  faults       \* faults and changes so far

cluster == <<releases, workloads, foreign, namespaces, ruleKind, gpuNodes, prices, rules>>
history == <<torn, unseen, faults>>
vars    == <<run, cluster, history>>

Charts   == {"prometheus", "gpu-operator", "kubefisher"}
Chart    == <<"prometheus", "gpu-operator", "kubefisher">>
Pending  == {"installing", "upgrading"}
Ended    == {"succeeded", "failed"}

ASSUME InstallAssumption == MaxFaults \in Nat /\ Foreigns \subseteq Charts

(* InstalledState and the position in Run: the next of the four probes, or *)
(* the chart at hand.                                                      *)
Runs == [stage: {"probe", "step", "helm", "prices", "rules"} \cup Ended, at: 1..4,
         found: SUBSET Charts, gpu: BOOLEAN, dryRun: BOOLEAN, skipPrometheus: BOOLEAN]

Active == run.stage \notin Ended
InHelm(c) == run.stage = "helm" /\ Chart[run.at] = c

Fault == faults < MaxFaults /\ faults' = faults + 1

Fails == run' = [run EXCEPT !.stage = "failed"]

(* The next chart, or the assets, which a dry run leaves alone.            *)
NextStep ==
  run' = IF run.at < 3 THEN [run EXCEPT !.stage = "step", !.at = run.at + 1]
         ELSE [run EXCEPT !.stage = IF run.dryRun THEN "succeeded" ELSE "prices"]

-----------------------------------------------------------------------------
(* Detection.                                                              *)

(* Mutant: only workloads in our own namespace count.                      *)
FoundInOwnNamespace(c) ==
  c \in workloads \/ (c = "gpu-operator" /\ "gpu-operator" \in namespaces)

(* Mutant: the namespace will do for every chart.                          *)
FoundByNamespace(c) == c \in workloads \cup foreign \cup namespaces

(* Labelled workloads in any namespace; the namespace gpu-operator will do *)
(* for its chart.                                                          *)
Found(c) ==
  \/ c \in workloads \cup foreign
  \/ c = "gpu-operator" /\ "gpu-operator" \in namespaces

StartRun(dryRun, skipPrometheus) ==
  /\ ~Active
  /\ run' = [stage |-> "probe", at |-> 1, found |-> {}, gpu |-> FALSE,
             dryRun |-> dryRun, skipPrometheus |-> skipPrometheus]
  /\ UNCHANGED <<cluster, history>>

Probed(c, there) ==
  run' = [run EXCEPT !.at = @ + 1, !.found = IF there THEN @ \cup {c} ELSE @]

(* Of the two lists behind most probes the second may find it, or fail     *)
(* too: what fails counts as not found.                                    *)
Probe ==
  /\ run.stage = "probe" /\ run.at <= 3
  /\ LET c == Chart[run.at]
     IN \/ Probed(c, Found(c)) /\ UNCHANGED history
        \/ /\ Fault
           /\ \E there \in BOOLEAN : (there => Found(c)) /\ Probed(c, there)
           /\ unseen' = unseen \cup {c}
           /\ UNCHANGED torn
  /\ UNCHANGED cluster

CountGPUNodes ==
  /\ run.stage = "probe" /\ run.at = 4
  /\ \E gpu \in BOOLEAN :
       /\ gpu => gpuNodes
       /\ run' = [run EXCEPT !.stage = "step", !.at = 1, !.gpu = gpu]
       /\ IF gpu = gpuNodes THEN UNCHANGED faults ELSE Fault
  /\ UNCHANGED <<cluster, torn, unseen>>

-----------------------------------------------------------------------------
(* Charts.                                                                 *)

Skips(c) ==
  \/ c \in run.found
  \/ c = "prometheus" /\ run.skipPrometheus
  \/ c = "gpu-operator" /\ ~run.gpu

(* Mutant: a chart that is there ends the step, assets and all.            *)
StepSkipsAssets ==
  /\ run.stage = "step" /\ Skips(Chart[run.at])
  /\ IF run.at = 3 THEN run' = [run EXCEPT !.stage = "succeeded"] ELSE NextStep
  /\ UNCHANGED <<cluster, history>>

StepSkips ==
  /\ run.stage = "step" /\ Skips(Chart[run.at])
  /\ NextStep
  /\ UNCHANGED <<cluster, history>>

HelmDryRun ==
  /\ run.stage = "step" /\ ~Skips(Chart[run.at]) /\ run.dryRun
  /\ \/ NextStep /\ releases[Chart[run.at]] \notin Pending /\ UNCHANGED faults
     \/ Fails /\ releases[Chart[run.at]] \in Pending /\ UNCHANGED faults
     \/ Fails /\ Fault
  /\ UNCHANGED <<cluster, torn, unseen>>

(* helm upgrade --install --create-namespace: another operation in         *)
(* progress makes it refuse.                                               *)
HelmStarts ==
  /\ run.stage = "step" /\ ~Skips(Chart[run.at]) /\ ~run.dryRun
  /\ LET c == Chart[run.at]
     IN IF releases[c] \in Pending
        THEN Fails /\ UNCHANGED cluster
        ELSE /\ run' = [run EXCEPT !.stage = "helm"]
             /\ releases' = [releases EXCEPT
                  ![c] = IF @ = "absent" THEN "installing" ELSE "upgrading"]
             /\ namespaces' = namespaces \cup {c}
             /\ ruleKind' = (ruleKind \/ c = "prometheus")
             /\ UNCHANGED <<workloads, foreign, gpuNodes, prices, rules>>
  /\ UNCHANGED history

(* The chart of kubefisher holds a PrometheusRule.  Its Deployment is      *)
(* there when helm returns (--wait); the workloads probed for the other    *)
(* charts are made later, by their operators.  The prices and rules it     *)
(* holds itself are left out: the assets overwrite them a moment later.    *)
HelmDeploys ==
  /\ run.stage = "helm"
  /\ LET c == Chart[run.at]
     IN /\ c = "kubefisher" => ruleKind
        /\ releases' = [releases EXCEPT ![c] = "deployed"]
        /\ workloads' = workloads \cup ({c} \cap {"kubefisher"})
  /\ NextStep
  /\ UNCHANGED <<foreign, namespaces, ruleKind, gpuNodes, prices, rules, history>>

(* Mutant: without --atomic nothing is rolled back.                        *)
HelmFailsNotAtomic ==
  /\ run.stage = "helm"
  /\ LET c == Chart[run.at]
     IN /\ IF c = "kubefisher" /\ ~ruleKind THEN UNCHANGED faults ELSE Fault
        /\ releases' = [releases EXCEPT ![c] = "failed"]
        /\ torn' = torn \cup {c}
  /\ Fails
  /\ UNCHANGED <<workloads, foreign, namespaces, ruleKind, gpuNodes, prices, rules, unseen>>

(* --atomic: the release is rolled back; namespaces and CRDs stay.         *)
HelmFails ==
  /\ run.stage = "helm"
  /\ LET c == Chart[run.at]
     IN /\ IF c = "kubefisher" /\ ~ruleKind THEN UNCHANGED faults ELSE Fault
        /\ releases' = [releases EXCEPT
             ![c] = IF @ = "installing" THEN "absent" ELSE "deployed"]
        /\ workloads' = IF releases[c] = "installing" THEN workloads \ ({c} \cap {"kubefisher"})
                        ELSE workloads
        /\ torn' = torn \cup {c}
  /\ Fails
  /\ UNCHANGED <<foreign, namespaces, ruleKind, gpuNodes, prices, rules, unseen>>

-----------------------------------------------------------------------------
(* Embedded assets, by server-side apply with ForceOwnership.              *)

ApplyPrices ==
  /\ run.stage = "prices"
  /\ IF "kubefisher" \in namespaces
     THEN prices' = "default" /\ run' = [run EXCEPT !.stage = "rules"]
     ELSE UNCHANGED prices /\ Fails
  /\ UNCHANGED <<releases, workloads, foreign, namespaces, ruleKind, gpuNodes, rules, history>>

ApplyRules ==
  /\ run.stage = "rules"
  /\ IF ruleKind
     THEN rules' = TRUE /\ run' = [run EXCEPT !.stage = "succeeded"]
     ELSE UNCHANGED rules /\ Fails
  /\ UNCHANGED <<releases, workloads, foreign, namespaces, ruleKind, gpuNodes, prices, history>>

ApplyFails ==
  /\ run.stage \in {"prices", "rules"}
  /\ Fault /\ Fails
  /\ UNCHANGED <<cluster, torn, unseen>>

Step ==
  \/ Probe \/ CountGPUNodes
  \/ StepSkips \/ HelmDryRun \/ HelmStarts \/ HelmDeploys \/ HelmFails
  \/ ApplyPrices \/ ApplyRules \/ ApplyFails

-----------------------------------------------------------------------------
(* The cluster, users and other people.                                    *)

(* Helm is killed with the run: its release stays pending.                 *)
Interrupt ==
  /\ Active
  /\ Fault /\ Fails
  /\ torn' = IF run.stage = "helm" THEN torn \cup {Chart[run.at]} ELSE torn
  /\ UNCHANGED <<cluster, unseen>>

WorkloadAppears(c) ==
  /\ releases[c] # "absent" /\ c \notin workloads
  /\ workloads' = workloads \cup {c}
  /\ UNCHANGED <<run, releases, foreign, namespaces, ruleKind, gpuNodes, prices, rules, history>>

WorkloadGoes(c) ==
  /\ releases[c] = "absent" /\ c \in workloads
  /\ workloads' = workloads \ {c}
  /\ UNCHANGED <<run, releases, foreign, namespaces, ruleKind, gpuNodes, prices, rules, history>>

(* Somebody else's Prometheus may or may not bring the CRDs.               *)
ForeignInstall(c) ==
  /\ Fault
  /\ c \notin foreign /\ releases[c] = "absent"
  /\ foreign' = foreign \cup {c}
  /\ ruleKind' \in BOOLEAN
  /\ (ruleKind => ruleKind') /\ (ruleKind' => ruleKind \/ c = "prometheus")
  /\ unseen' = IF Active THEN unseen \cup {c} ELSE unseen
  /\ UNCHANGED <<run, releases, workloads, namespaces, gpuNodes, prices, rules, torn>>

ChangeNodes ==
  /\ Fault
  /\ gpuNodes' = ~gpuNodes
  /\ UNCHANGED <<run, releases, workloads, foreign, namespaces, ruleKind, prices, rules,
                 torn, unseen>>

EditPrices ==
  /\ Fault
  /\ prices = "default" /\ prices' = "edited"
  /\ UNCHANGED <<run, releases, workloads, foreign, namespaces, ruleKind, gpuNodes, rules,
                 torn, unseen>>

Environment ==
  \/ Interrupt \/ ChangeNodes \/ EditPrices
  \/ \E c \in Charts : WorkloadAppears(c) \/ WorkloadGoes(c)
  \/ \E c \in Foreigns : ForeignInstall(c)

(* A cluster on which the command has never been run.                      *)
Init ==
  /\ run = [stage |-> "failed", at |-> 1, found |-> {}, gpu |-> FALSE,
            dryRun |-> FALSE, skipPrometheus |-> FALSE]
  /\ releases = [c \in Charts |-> "absent"] /\ workloads = {}
  /\ foreign \in SUBSET Foreigns
  /\ namespaces \in SUBSET foreign
  /\ ruleKind \in BOOLEAN /\ (ruleKind => "prometheus" \in foreign)
  /\ gpuNodes \in BOOLEAN
  /\ prices = "absent" /\ rules = FALSE
  /\ torn = {} /\ unseen = {} /\ faults = 0

Start == \E dryRun, skipPrometheus \in BOOLEAN : StartRun(dryRun, skipPrometheus)

Next == Start \/ Step \/ Environment

Spec == Init /\ [][Next]_vars

(* Runs go on, users repeat them, operators and garbage collection work.   *)
Fairness ==
  /\ WF_vars(Step) /\ WF_vars(Start)
  /\ \A c \in Charts : WF_vars(WorkloadAppears(c)) /\ WF_vars(WorkloadGoes(c))

FairSpec == Spec /\ Fairness

-----------------------------------------------------------------------------
(* Helm works on the release of the chart at hand and leaves no other      *)
(* state than the ones named here.                                         *)
TypeOK ==
  /\ run \in Runs
  /\ releases \in [Charts -> {"absent", "deployed"} \cup Pending]
  /\ workloads \in SUBSET Charts /\ foreign \in SUBSET Charts
  /\ namespaces \in SUBSET Charts
  /\ ruleKind \in BOOLEAN /\ gpuNodes \in BOOLEAN /\ rules \in BOOLEAN
  /\ prices \in {"absent", "default", "edited"}
  /\ torn \in SUBSET Charts /\ unseen \in SUBSET Charts
  /\ faults \in 0..MaxFaults
  /\ run.stage \in {"step", "helm"} => run.at <= 3
  /\ run.stage = "helm" => releases[Chart[run.at]] \in Pending

(* No chart is installed beside somebody else's installation of the same,  *)
(* unless a list failed or theirs came while a run was under way.          *)
NothingDuplicated ==
  \A c \in foreign : releases[c] # "absent" => c \in unseen

Wanted ==
  {c \in Charts : /\ c = "prometheus" => ~run.skipPrometheus
                  /\ c = "gpu-operator" => run.gpu}

(* A run that reports success leaves every chart it should, ours or other  *)
(* people's, and both assets: only what a broken-off installation left     *)
(* behind can deceive it.                                                  *)
SuccessIsComplete ==
  run.stage = "succeeded" /\ ~run.dryRun =>
    /\ prices # "absent" /\ rules
    /\ \A c \in Wanted \ torn : c \in foreign \/ releases[c] = "deployed"

(* What repeating the command cannot mend: a release whose helm was        *)
(* killed, and the namespace of a GPU operator that was rolled back.       *)
Stuck ==
  \/ \E c \in Charts : releases[c] \in Pending /\ ~InHelm(c)
  \/ /\ "gpu-operator" \in namespaces \ foreign
     /\ releases["gpu-operator"] = "absent"

(* Other people's installations have what the assets need.                 *)
Installable ==
  /\ "prometheus" \in foreign => ruleKind
  /\ "kubefisher" \in foreign => "kubefisher" \in namespaces

Complete ==
  /\ prices # "absent" /\ rules
  /\ \A c \in Charts : \/ c \in foreign \/ releases[c] # "absent"
                       \/ c = "gpu-operator" /\ ~gpuNodes

(* What the next run will take for installed, for good: traces that only   *)
(* go with the release, somebody else's workloads, the namespace of the    *)
(* GPU operator; and without GPUs that operator is not wanted.             *)
Lasting(c) ==
  \/ c \in foreign
  \/ c \in workloads /\ releases[c] # "absent"
  \/ c = "gpu-operator" /\ (c \in namespaces \/ ~gpuNodes)

(* All is installed, and the run under way, if any, has seen as much.      *)
NothingToDo ==
  /\ \A c \in Charts : Lasting(c)
  /\ run.stage # "helm"
  /\ run.stage = "probe" => \A i \in 1..3 : i < run.at =>
       Chart[i] \in run.found \/ (Chart[i] = "gpu-operator" /\ ~gpuNodes)
  /\ run.stage = "step" => \A i \in run.at..3 : Skips(Chart[i])

(* The calls a run has still to make, of the cluster or of helm.           *)
CallsAhead ==
  CASE run.stage = "probe"  -> 13 - run.at
    [] run.stage = "step"   -> 10 - 2 * run.at
    [] run.stage = "helm"   -> 9 - 2 * run.at
    [] run.stage = "prices" -> 2
    [] run.stage = "rules"  -> 1
    [] OTHER                -> 0

(* A run is straight: it repeats no call, and whatever happens to it or    *)
(* around it, each of its steps leaves fewer to come.  So the command ends *)
(* if each of its calls does.                                              *)
RunsAreFinite ==
  [][Active => CallsAhead' \in 0..(CallsAhead - 1) \/ (run' = run /\ ~Step)]_vars

(* Repeating the command installs everything in the end, whatever failed   *)
(* or was killed before, unless it is stuck, and then it is at rest.       *)
RepeatedRunsInstall ==
  [](~Stuck) /\ <>[](~run.dryRun /\ ~run.skipPrometheus /\ Installable)
    => <>[](Complete /\ NothingToDo)

(* docs/cli.md: running install twice is safe.  Once all is installed, no  *)
(* further run touches a release, a namespace or a CRD, none leaves torn   *)
(* charts, and none fails where the assets have what they need, unless     *)
(* something goes wrong meanwhile.                                         *)
RunningTwiceIsSafe ==
  [][NothingToDo /\ UNCHANGED faults =>
       /\ NothingToDo' /\ UNCHANGED <<releases, namespaces, foreign, ruleKind, torn>>
       /\ run'.stage = "failed" =>
            run.stage = "failed" \/ ~ruleKind \/ "kubefisher" \notin namespaces]_vars

(* docs/cli.md: running install twice is safe, nothing is broken.  Prices  *)
(* the user has set would then stay.                                       *)
EditedPricesStay == [][prices = "edited" => prices' = "edited"]_vars
=============================================================================
