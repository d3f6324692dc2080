--------------------------- MODULE InstallProofs ---------------------------
(***************************************************************************)
(* Install for any number of faults and any installations of other people: *)
(* type correctness, no duplicates, what a reported success means, and     *)
(* that the next run leaves alone what it finds.                           *)
(***************************************************************************)
EXTENDS Install, TLAPS

LEMMA ChartType == \A i \in 1..3 : Chart[i] \in Charts
BY DEF Chart, Charts

Stages == {"probe", "step", "helm", "prices", "rules"} \cup Ended

LEMMA RunUpdate ==
  ASSUME NEW stage \in Stages, NEW at \in 1..4, run \in Runs,
         run' = [run EXCEPT !.stage = stage, !.at = at]
  PROVE  run' \in Runs /\ run'.stage = stage /\ run'.at = at
BY DEF Runs, Stages

LEMMA StageUpdate ==
  ASSUME NEW stage \in Stages, run \in Runs, run' = [run EXCEPT !.stage = stage]
  PROVE  run' \in Runs /\ run'.stage = stage
BY DEF Runs, Stages

LEMMA GPUUpdate ==
  ASSUME run \in Runs, NEW gpu \in BOOLEAN,
         run' = [run EXCEPT !.stage = "step", !.at = 1, !.gpu = gpu]
  PROVE  /\ run' \in Runs /\ run'.stage = "step" /\ run'.at = 1
         /\ run'.found = run.found /\ run'.dryRun = run.dryRun
<1>1. ASSUME NEW stage \in Stages, NEW at \in 1..4
      PROVE  [run EXCEPT !.stage = stage, !.at = at, !.gpu = gpu] \in Runs
  BY DEF Runs, Stages
<1>2. "step" \in Stages /\ 1 \in 1..4
  BY DEF Stages
<1>3. run' \in Runs
  BY <1>1, <1>2
<1>4. /\ run'.stage = "step" /\ run'.at = 1
      /\ run'.found = run.found /\ run'.dryRun = run.dryRun
  BY DEF Runs
<1> QED
  BY <1>3, <1>4

LEMMA NextStepType ==
  ASSUME run \in Runs, run.at \in 1..3, NextStep
  PROVE  /\ run' \in Runs
         /\ run'.stage \in {"step", "prices", "succeeded"}
         /\ run'.stage = "step" => run'.at \in 2..3
<1>1. CASE run.at < 3
  <2>1. run' = [run EXCEPT !.stage = "step", !.at = run.at + 1]
    BY <1>1 DEF NextStep
  <2>2. run.at + 1 \in 2..3 /\ run.at + 1 \in 1..4 /\ "step" \in Stages
    BY <1>1 DEF Stages
  <2> QED
    BY <2>1, <2>2, RunUpdate
<1>2. CASE ~(run.at < 3)
  <2>1. PICK stage \in {"prices", "succeeded"} : run' = [run EXCEPT !.stage = stage]
    BY <1>2 DEF NextStep
  <2>2. run.stage \in Stages /\ stage \in Stages /\ run.at \in 1..4
    BY DEF Runs, Stages, Ended
  <2>3. run' \in Runs /\ run'.stage = stage
    BY <2>1, <2>2, StageUpdate
  <2> QED
    BY <2>3
<1> QED
  BY <1>1, <1>2

LEMMA NextStepKeeps ==
  ASSUME run \in Runs, NextStep
  PROVE  /\ run'.stage \in {"step", "prices", "succeeded"}
         /\ run'.found = run.found /\ run'.gpu = run.gpu
         /\ run'.dryRun = run.dryRun /\ run'.skipPrometheus = run.skipPrometheus
BY DEF NextStep, Runs

LEMMA FailsKeeps ==
  ASSUME run \in Runs, Fails
  PROVE  run'.stage = "failed" /\ run'.found = run.found
BY DEF Fails, Runs

LEMMA ProbedType ==
  ASSUME run \in Runs, run.stage = "probe", run.at \in 1..3,
         NEW c \in Charts, NEW there, Probed(c, there)
  PROVE  /\ run' \in Runs /\ run'.stage = "probe" /\ run'.at = run.at + 1
         /\ run'.found = IF there THEN run.found \cup {c} ELSE run.found
<1> DEFINE found == IF there THEN run.found \cup {c} ELSE run.found
<1>1. run' = [run EXCEPT !.at = run.at + 1, !.found = found]
  BY DEF Probed
<1>2. found \in SUBSET Charts
  BY DEF Runs
<1>3. run.at + 1 \in 1..4
  OBVIOUS
<1> HIDE DEF found
<1>4. run' \in Runs /\ run'.stage = "probe" /\ run'.at = run.at + 1 /\ run'.found = found
  BY <1>1, <1>2, <1>3 DEF Runs
<1> QED
  BY <1>4 DEF found

LEMMA FailsType ==
  ASSUME run \in Runs, Fails
  PROVE  run' \in Runs /\ run'.stage = "failed"
BY DEF Fails, Runs, Ended

LEMMA FaultType ==
  ASSUME faults \in 0..MaxFaults, Fault
  PROVE  faults' \in 0..MaxFaults
BY InstallAssumption DEF Fault, InstallAssumption

LEMMA TypeInit == Init => TypeOK
<1> SUFFICES ASSUME Init PROVE TypeOK
  OBVIOUS
<1>1. run \in Runs /\ run.stage = "failed"
  BY DEF Init, Runs, Ended
<1>2. foreign \in SUBSET Charts /\ namespaces \in SUBSET Charts
  BY InstallAssumption DEF Init, InstallAssumption
<1>3. ruleKind \in BOOLEAN /\ gpuNodes \in BOOLEAN /\ faults \in 0..MaxFaults
  BY InstallAssumption DEF Init, InstallAssumption
<1>4. /\ releases \in [Charts -> {"absent", "deployed"} \cup Pending]
      /\ workloads \in SUBSET Charts /\ rules \in BOOLEAN
      /\ prices \in {"absent", "default", "edited"}
      /\ torn \in SUBSET Charts /\ unseen \in SUBSET Charts
  BY DEF Init
<1> QED
  BY <1>1, <1>2, <1>3, <1>4 DEF TypeOK

LEMMA TypeStep == ASSUME TypeOK, [Next]_vars PROVE TypeOK'
<1> USE DEF TypeOK
<1>1. CASE Start
  BY <1>1 DEF Start, StartRun, cluster, history, Runs
<1>2. CASE Probe
  <2>1. run.at \in 1..3 /\ Chart[run.at] \in Charts
    BY <1>2, ChartType DEF Probe, Runs
  <2>2. run' \in Runs /\ run'.stage = "probe"
    BY <1>2, <2>1, ProbedType DEF Probe
  <2>3. unseen' \in SUBSET Charts /\ torn' \in SUBSET Charts /\ faults' \in 0..MaxFaults
    BY <1>2, <2>1, FaultType DEF Probe, history
  <2> QED
    BY <1>2, <2>2, <2>3 DEF Probe, cluster
<1>3. CASE CountGPUNodes
  <2>1. PICK gpu \in BOOLEAN : run' = [run EXCEPT !.stage = "step", !.at = 1, !.gpu = gpu]
    BY <1>3 DEF CountGPUNodes
  <2>3. run' \in Runs /\ run'.stage = "step" /\ run'.at = 1
    BY <2>1, GPUUpdate
  <2>2. faults' \in 0..MaxFaults
    BY <1>3, FaultType DEF CountGPUNodes
  <2> QED
    BY <1>3, <2>2, <2>3 DEF CountGPUNodes, cluster
<1>4. CASE StepSkips
  <2>1. run.at \in 1..3
    BY <1>4 DEF StepSkips, Runs
  <2> QED
    BY <1>4, <2>1, NextStepType DEF StepSkips, cluster, history
<1>5. CASE HelmDryRun
  <2>1. run.at \in 1..3
    BY <1>5 DEF HelmDryRun, Runs
  <2>2. run' \in Runs /\ run'.stage # "helm" /\ (run'.stage \in {"step", "helm"} => run'.at <= 3)
    BY <1>5, <2>1, NextStepType, FailsType DEF HelmDryRun
  <2>3. faults' \in 0..MaxFaults
    BY <1>5, FaultType DEF HelmDryRun
  <2> QED
    BY <1>5, <2>2, <2>3 DEF HelmDryRun, cluster
<1>6. CASE HelmStarts
  <2>1. run.at \in 1..3 /\ Chart[run.at] \in Charts
    BY <1>6, ChartType DEF HelmStarts, Runs
  <2>2. CASE releases[Chart[run.at]] \in Pending
    BY <1>6, <2>2, FailsType DEF HelmStarts, cluster, history
  <2>3. CASE releases[Chart[run.at]] \notin Pending
    <3>1. run' \in Runs /\ run'.at = run.at
      BY <1>6, <2>3 DEF HelmStarts, Runs
    <3>2. /\ releases' \in [Charts -> {"absent", "deployed"} \cup Pending]
          /\ releases'[Chart[run.at]] \in Pending
      BY <1>6, <2>1, <2>3 DEF HelmStarts, Pending
    <3> QED
      BY <1>6, <2>1, <2>3, <3>1, <3>2 DEF HelmStarts, history
  <2> QED
    BY <2>2, <2>3
<1>7. CASE HelmDeploys
  <2>1. run.at \in 1..3 /\ Chart[run.at] \in Charts
    BY <1>7, ChartType DEF HelmDeploys, Runs
  <2>2. releases' \in [Charts -> {"absent", "deployed"} \cup Pending]
    BY <1>7, <2>1 DEF HelmDeploys
  <2> QED
    BY <1>7, <2>1, <2>2, NextStepType DEF HelmDeploys, history
<1>8. CASE HelmFails
  <2>1. run.at \in 1..3 /\ Chart[run.at] \in Charts
    BY <1>8, ChartType DEF HelmFails, Runs
  <2>2. releases' \in [Charts -> {"absent", "deployed"} \cup Pending]
    BY <1>8, <2>1 DEF HelmFails
  <2>3. torn' \in SUBSET Charts /\ workloads' \in SUBSET Charts
    BY <1>8, <2>1 DEF HelmFails
  <2>4. faults' \in 0..MaxFaults
    BY <1>8, FaultType DEF HelmFails
  <2> QED
    BY <1>8, <2>2, <2>3, <2>4, FailsType DEF HelmFails
<1>9. CASE ApplyPrices \/ ApplyRules
  <2>1. Fails \/ \E stage \in {"rules", "succeeded"} : run' = [run EXCEPT !.stage = stage]
    BY <1>9 DEF ApplyPrices, ApplyRules
  <2>2. {"rules", "succeeded"} \subseteq Stages
    BY DEF Stages, Ended
  <2>3. run' \in Runs /\ run'.stage \notin {"step", "helm"}
    BY <2>1, <2>2, FailsType, StageUpdate
  <2>4. UNCHANGED <<releases, workloads, foreign, namespaces, ruleKind, gpuNodes, history>>
    BY <1>9 DEF ApplyPrices, ApplyRules
  <2>5. prices' \in {"absent", "default", "edited"} /\ rules' \in BOOLEAN
    BY <1>9 DEF ApplyPrices, ApplyRules
  <2> QED
    BY <2>3, <2>4, <2>5 DEF history
<1>10. CASE ApplyFails
  BY <1>10, FailsType, FaultType DEF ApplyFails, cluster
<1>11. CASE Interrupt
  <2>1. torn' \in SUBSET Charts
    BY <1>11, ChartType DEF Interrupt, Runs
  <2> QED
    BY <1>11, <2>1, FailsType, FaultType DEF Interrupt, cluster
<1>12. CASE \E c \in Charts : WorkloadAppears(c) \/ WorkloadGoes(c)
  BY <1>12 DEF WorkloadAppears, WorkloadGoes, history
<1>13. CASE ChangeNodes \/ EditPrices
  BY <1>13, FaultType DEF ChangeNodes, EditPrices
<1>14. CASE \E c \in Foreigns : ForeignInstall(c)
  BY <1>14, FaultType, InstallAssumption DEF ForeignInstall, InstallAssumption
<1>15. CASE UNCHANGED vars
  BY <1>15 DEF vars, cluster, history
<1> QED
  BY <1>1, <1>2, <1>3, <1>4, <1>5, <1>6, <1>7, <1>8, <1>9, <1>10, <1>11, <1>12, <1>13,
     <1>14, <1>15 DEF Next, Step, Environment

(* A run only ever holds one of its charts, a rolled-back or killed        *)
(* installation leaves nothing but the states named.                       *)
THEOREM InstallTypeCorrect == Spec => []TypeOK
BY TypeInit, TypeStep, PTL DEF Spec

-----------------------------------------------------------------------------
(* Duplicates.  A run knows of every foreign installation whose probe it   *)
(* has passed, or the installation is excused.                             *)

KnowsForeign ==
  Active =>
    \A i \in 1..3 : (run.stage = "probe" => i < run.at) =>
      (Chart[i] \in foreign => Chart[i] \in run.found \cup unseen)

DuplicateInv == NothingDuplicated /\ KnowsForeign

LEMMA DuplicateStep ==
  ASSUME TypeOK, TypeOK', DuplicateInv, [Next]_vars PROVE DuplicateInv'
<1>1. CASE Start
  BY <1>1 DEF Start, StartRun, cluster, history, DuplicateInv, NothingDuplicated, KnowsForeign
<1>2. CASE Probe
  <2>1. run.at \in 1..3 /\ Chart[run.at] \in Charts /\ run \in Runs
    BY <1>2, ChartType DEF Probe, Runs, TypeOK
  <2>2. NothingDuplicated'
    BY <1>2 DEF Probe, cluster, history, DuplicateInv, NothingDuplicated
  <2>3. /\ run'.stage = "probe" /\ run'.at = run.at + 1
        /\ run.found \subseteq run'.found /\ unseen \subseteq unseen'
    BY <1>2, <2>1, ProbedType DEF Probe, history
  <2>4. Chart[run.at] \in foreign => Chart[run.at] \in run'.found \cup unseen'
    <3>1. Chart[run.at] \in foreign => Found(Chart[run.at])
      BY DEF Found
    <3> QED
      BY <1>2, <2>1, <3>1, ProbedType DEF Probe
  <2>5. \A i \in 1..3 : i < run'.at => i < run.at \/ i = run.at
    BY <2>1, <2>3
  <2>6. foreign' = foreign /\ Active
    BY <1>2 DEF Probe, cluster, Active, Ended
  <2>7. KnowsForeign'
    BY <1>2, <2>3, <2>4, <2>5, <2>6 DEF Probe, DuplicateInv, KnowsForeign
  <2> QED
    BY <2>2, <2>7 DEF DuplicateInv
<1>3. CASE CountGPUNodes
  <2>1. NothingDuplicated'
    BY <1>3 DEF CountGPUNodes, cluster, DuplicateInv, NothingDuplicated
  <2>2. PICK gpu \in BOOLEAN : run' = [run EXCEPT !.stage = "step", !.at = 1, !.gpu = gpu]
    BY <1>3 DEF CountGPUNodes
  <2>3. run'.found = run.found
    BY <2>2 DEF TypeOK, Runs
  <2>4. KnowsForeign'
    BY <1>3, <2>3 DEF CountGPUNodes, cluster, DuplicateInv, KnowsForeign, Active, Ended
  <2> QED
    BY <2>1, <2>4 DEF DuplicateInv
<1>4. ASSUME releases' = releases, foreign' = foreign, unseen' = unseen,
             Active' => /\ run'.found = run.found /\ run'.stage # "probe"
                        /\ Active /\ run.stage # "probe"
      PROVE  DuplicateInv'
  <2>1. NothingDuplicated'
    BY <1>4 DEF DuplicateInv, NothingDuplicated
  <2>2. KnowsForeign'
    BY <1>4 DEF DuplicateInv, KnowsForeign
  <2> QED
    BY <2>1, <2>2 DEF DuplicateInv
<1>5. run \in Runs
  BY DEF TypeOK
<1>6. CASE StepSkips \/ HelmDryRun \/ ApplyFails \/ Interrupt
  <2>1. releases' = releases /\ foreign' = foreign /\ unseen' = unseen
    BY <1>6 DEF StepSkips, HelmDryRun, ApplyFails, Interrupt, cluster, history
  <2>2. NextStep \/ Fails
    BY <1>6 DEF StepSkips, HelmDryRun, ApplyFails, Interrupt
  <2>3. CASE NextStep
    <3>1. run.stage = "step" \/ run'.stage = "failed"
      BY <1>5, <1>6, <2>3, FailsKeeps DEF StepSkips, HelmDryRun, ApplyFails, Interrupt
    <3>2. run'.found = run.found /\ run'.stage # "probe"
      BY <1>5, <2>3, NextStepKeeps
    <3> QED
      BY <1>4, <2>1, <3>1, <3>2 DEF Active, Ended
  <2>4. CASE Fails
    BY <1>4, <1>5, <2>1, <2>4, FailsKeeps DEF Active, Ended
  <2> QED
    BY <2>2, <2>3, <2>4
<1>7. CASE ApplyPrices \/ ApplyRules
  <2>1. releases' = releases /\ foreign' = foreign /\ unseen' = unseen
    BY <1>7 DEF ApplyPrices, ApplyRules, history
  <2>2. run.stage \in {"prices", "rules"}
    BY <1>7 DEF ApplyPrices, ApplyRules
  <2>3. run'.stage # "probe" /\ run'.found = run.found
    <3>1. CASE Fails
      BY <1>5, <3>1, FailsKeeps
    <3>2. CASE run' = [run EXCEPT !.stage = "rules"] \/ run' = [run EXCEPT !.stage = "succeeded"]
      BY <1>5, <3>2 DEF Runs
    <3> QED
      BY <1>7, <3>1, <3>2 DEF ApplyPrices, ApplyRules
  <2> QED
    BY <1>4, <2>1, <2>2, <2>3 DEF Active, Ended
<1>8. CASE HelmStarts
  <2>1. run \in Runs /\ run.at \in 1..3 /\ Chart[run.at] \in Charts
    BY <1>8, ChartType DEF HelmStarts, Runs, TypeOK
  <2>2. CASE releases[Chart[run.at]] \in Pending
    <3>1. Fails /\ releases' = releases /\ foreign' = foreign /\ unseen' = unseen
      BY <1>8, <2>2 DEF HelmStarts, cluster, history
    <3> QED
      BY <1>4, <1>5, <3>1, FailsKeeps DEF Active, Ended
  <2>3. CASE releases[Chart[run.at]] \notin Pending
    <3>1. Chart[run.at] \in foreign => Chart[run.at] \in unseen
      BY <1>8, <2>1 DEF HelmStarts, Skips, DuplicateInv, KnowsForeign, Active, Ended
    <3>2. \A c \in Charts \ {Chart[run.at]} : releases'[c] = releases[c]
      BY <1>8, <2>3 DEF HelmStarts, TypeOK
    <3>3. NothingDuplicated'
      BY <1>8, <2>3, <3>1, <3>2 DEF HelmStarts, history, TypeOK, DuplicateInv, NothingDuplicated
    <3>4. run'.stage = "helm" /\ run'.found = run.found
      BY <1>8, <2>1, <2>3 DEF HelmStarts, Runs
    <3>5. KnowsForeign'
      BY <1>8, <2>3, <3>4 DEF HelmStarts, history, DuplicateInv, KnowsForeign, Active, Ended
    <3> QED
      BY <3>3, <3>5 DEF DuplicateInv
  <2> QED
    BY <2>2, <2>3
<1>9. ASSUME run.stage = "helm", foreign' = foreign, unseen' = unseen, run'.found = run.found,
             run'.stage # "probe",
             \A c \in Charts : releases'[c] # "absent" => releases[c] # "absent"
      PROVE  DuplicateInv'
  <2>1. NothingDuplicated'
    BY <1>9 DEF TypeOK, DuplicateInv, NothingDuplicated
  <2>2. KnowsForeign'
    BY <1>9 DEF DuplicateInv, KnowsForeign, Active, Ended
  <2> QED
    BY <2>1, <2>2 DEF DuplicateInv
<1>10. CASE HelmDeploys \/ HelmFails
  <2>1. run \in Runs /\ run.at \in 1..3 /\ Chart[run.at] \in Charts
    BY <1>10, ChartType DEF HelmDeploys, HelmFails, Runs, TypeOK
  <2>2. releases[Chart[run.at]] \in Pending
    BY <1>10 DEF HelmDeploys, HelmFails, TypeOK
  <2>3. \A c \in Charts : releases'[c] # "absent" => releases[c] # "absent"
    BY <1>10, <2>1, <2>2 DEF HelmDeploys, HelmFails, TypeOK, Pending
  <2>4. /\ run.stage = "helm" /\ foreign' = foreign /\ unseen' = unseen
        /\ NextStep \/ Fails
    BY <1>10 DEF HelmDeploys, HelmFails, history
  <2>5. run'.found = run.found /\ run'.stage # "probe"
    BY <2>1, <2>4, NextStepKeeps, FailsKeeps
  <2> QED
    BY <1>9, <2>3, <2>4, <2>5
<1>11. ASSUME NEW c \in Foreigns, ForeignInstall(c) PROVE DuplicateInv'
  <2>1. /\ run' = run /\ releases' = releases /\ releases[c] = "absent"
        /\ foreign' = foreign \cup {c} /\ unseen \subseteq unseen'
        /\ Active => c \in unseen'
    BY <1>11 DEF ForeignInstall
  <2>2. NothingDuplicated'
    BY <2>1 DEF DuplicateInv, NothingDuplicated
  <2>3. KnowsForeign'
    BY <2>1 DEF DuplicateInv, KnowsForeign, Active
  <2> QED
    BY <2>2, <2>3 DEF DuplicateInv
<1>12. CASE \/ \E c \in Charts : WorkloadAppears(c) \/ WorkloadGoes(c)
            \/ ChangeNodes \/ EditPrices \/ UNCHANGED vars
  BY <1>12 DEF WorkloadAppears, WorkloadGoes, ChangeNodes, EditPrices, vars, cluster, history,
               DuplicateInv, NothingDuplicated, KnowsForeign, Active
<1> QED
  BY <1>1, <1>2, <1>3, <1>6, <1>7, <1>8, <1>10, <1>11, <1>12 DEF Next, Step, Environment

(* However often the command is run and whatever fails, no chart is        *)
(* installed beside somebody else's, unless a list failed or theirs came   *)
(* during a run.                                                           *)
THEOREM NoDuplicates == Spec => []NothingDuplicated
<1>1. Init => DuplicateInv
  <2> SUFFICES ASSUME Init PROVE DuplicateInv
    OBVIOUS
  <2>1. foreign \subseteq Charts
    BY TypeInit DEF TypeOK
  <2>2. NothingDuplicated
    BY <2>1 DEF Init, NothingDuplicated
  <2>3. KnowsForeign
    BY DEF Init, KnowsForeign, Active, Ended
  <2> QED
    BY <2>2, <2>3 DEF DuplicateInv
<1>2. TypeOK /\ TypeOK' /\ DuplicateInv /\ [Next]_vars => DuplicateInv'
  BY DuplicateStep
<1>3. DuplicateInv => NothingDuplicated
  BY DEF DuplicateInv
<1> QED
  BY <1>1, <1>2, <1>3, InstallTypeCorrect, PTL DEF Spec

-----------------------------------------------------------------------------
(* Success.  Whatever the probes go by stems from an installation that is  *)
(* there, is in the hands of helm, or was broken off.                      *)

Present(c) == c \in foreign \cup torn \/ releases[c] = "deployed"

Trace(c) ==
  \/ c \in workloads \/ releases[c] # "absent"
  \/ c = "gpu-operator" /\ c \in namespaces

TracesExplained == \A c \in Charts : Trace(c) => Present(c) \/ InHelm(c)

FoundIsPresent == Active => \A c \in run.found : Present(c)

Passed(i) == run.stage \in {"step", "helm"} => i < run.at

PassedIsPresent ==
  ~run.dryRun /\ run.stage \in {"step", "helm", "prices", "rules", "succeeded"} =>
    \A i \in 1..3 : Passed(i) /\ Chart[i] \in Wanted => Present(Chart[i])

AssetsApplied ==
  /\ run.stage \in {"prices", "rules"} => ~run.dryRun
  /\ ~run.dryRun => /\ run.stage \in {"rules", "succeeded"} => prices # "absent"
                    /\ run.stage = "succeeded" => rules

SuccessInv == TracesExplained /\ FoundIsPresent /\ PassedIsPresent /\ AssetsApplied

LEMMA DistinctCharts ==
  /\ \A i, j \in 1..3 : Chart[i] = Chart[j] => i = j
  /\ \A c \in Charts : \E i \in 1..3 : c = Chart[i]
<1>1. Chart[1] = "prometheus" /\ Chart[2] = "gpu-operator" /\ Chart[3] = "kubefisher"
  BY DEF Chart
<1>2. \A i \in 1..3 : i = 1 \/ i = 2 \/ i = 3
  OBVIOUS
<1>3. \A i, j \in 1..3 : Chart[i] = Chart[j] => i = j
  BY <1>1, <1>2
<1>4. \A c \in Charts : c = Chart[1] \/ c = Chart[2] \/ c = Chart[3]
  BY <1>1 DEF Charts
<1>5. 1 \in 1..3 /\ 2 \in 1..3 /\ 3 \in 1..3
  OBVIOUS
<1> QED
  BY <1>3, <1>4, <1>5

(* A run that ends without success has nothing to show for.                *)
LEMMA FailedRun ==
  ASSUME TypeOK, SuccessInv, Fails, releases' = releases, workloads' = workloads,
         foreign' = foreign, namespaces' = namespaces, torn \subseteq torn',
         \A c \in Charts : InHelm(c) => c \in torn'
  PROVE  SuccessInv'
<1>1. run'.stage = "failed"
  BY FailsKeeps DEF TypeOK
<1>2. TracesExplained'
  BY DEF SuccessInv, TracesExplained, Trace, Present
<1>3. FoundIsPresent' /\ PassedIsPresent' /\ AssetsApplied'
  BY <1>1 DEF FoundIsPresent, PassedIsPresent, AssetsApplied, Active, Ended
<1> QED
  BY <1>2, <1>3 DEF SuccessInv

(* The chart at hand is present, not wanted, or the run is dry: on to the  *)
(* next.                                                                   *)
LEMMA NextChart ==
  ASSUME TypeOK, SuccessInv, NextStep, run.at \in 1..3, run.stage \in {"step", "helm"},
         NEW at \in Charts, at = Chart[run.at],
         \A c \in Charts : Trace(c)' => Present(c)',
         \A c \in Charts : Present(c) => Present(c)',
         ~run.dryRun /\ at \in Wanted => Present(at)'
  PROVE  SuccessInv'
<1>1. /\ run'.stage \in {"step", "prices", "succeeded"}
      /\ run'.found = run.found /\ run'.gpu = run.gpu
      /\ run'.dryRun = run.dryRun /\ run'.skipPrometheus = run.skipPrometheus
  BY NextStepKeeps DEF TypeOK
<1>2. TracesExplained'
  BY DEF TracesExplained
<1>3. FoundIsPresent'
  <2>1. run.found \subseteq Charts
    BY DEF TypeOK, Runs
  <2> QED
    BY <1>1, <2>1 DEF SuccessInv, FoundIsPresent, Active, Ended
<1>4. \A i \in 1..3 : Passed(i)' => i < run.at \/ i = run.at
  BY <1>1 DEF NextStep, Passed, TypeOK, Runs
<1>5. Wanted' = Wanted
  BY <1>1 DEF Wanted
<1>6. PassedIsPresent'
  <2> SUFFICES ASSUME ~run.dryRun, NEW i \in 1..3, Passed(i)', Chart[i] \in Wanted
               PROVE  Present(Chart[i])'
    BY <1>1, <1>5 DEF PassedIsPresent
  <2>1. CASE i < run.at
    <3>1. PICK c \in Charts : c = Chart[i]
      BY ChartType
    <3>2. Present(c)
      BY <2>1, <3>1 DEF SuccessInv, PassedIsPresent, Passed
    <3>3. Present(c)'
      BY <3>2
    <3> QED
      BY <3>1, <3>3
  <2>2. CASE i = run.at
    <3>1. at = Chart[i] /\ at \in Wanted
      BY <2>2
    <3>2. Present(at)'
      BY <3>1
    <3> QED
      BY <3>1, <3>2
  <2> QED
    BY <1>4, <2>1, <2>2
<1>7. AssetsApplied'
  <2>1. /\ run'.stage = "succeeded" => run.dryRun
        /\ run'.stage = "prices" => ~run.dryRun
    BY <1>1 DEF NextStep, TypeOK, Runs
  <2> QED
    BY <1>1, <2>1 DEF AssetsApplied
<1> QED
  BY <1>2, <1>3, <1>6, <1>7 DEF SuccessInv

LEMMA SuccessStep ==
  ASSUME TypeOK, TypeOK', SuccessInv, [Next]_vars PROVE SuccessInv'
<1>0. run \in Runs /\ run' \in Runs
  BY DEF TypeOK
<1>1. CASE Start
  <2>1. /\ run'.stage = "probe" /\ run'.found = {} /\ run.stage \in Ended
        /\ UNCHANGED <<cluster, history>>
    BY <1>1 DEF Start, StartRun, Active
  <2>2. TracesExplained'
    BY <2>1 DEF SuccessInv, TracesExplained, Trace, Present, InHelm, Ended, cluster, history
  <2>3. FoundIsPresent' /\ PassedIsPresent' /\ AssetsApplied'
    BY <2>1 DEF FoundIsPresent, PassedIsPresent, AssetsApplied
  <2> QED
    BY <2>2, <2>3 DEF SuccessInv
<1>2. CASE Probe
  <2>1. run.at \in 1..3 /\ Chart[run.at] \in Charts
    BY <1>0, <1>2, ChartType DEF Probe, Runs
  <2>2. /\ run.stage = "probe" /\ run'.stage = "probe" /\ torn' = torn
        /\ UNCHANGED cluster
        /\ \A c \in run'.found : c \in run.found \/ (c = Chart[run.at] /\ Found(c))
    <3> DEFINE c == Chart[run.at]
    <3>1. ASSUME NEW there \in BOOLEAN, there => Found(c), Probed(c, there)
          PROVE  /\ run'.stage = "probe"
                 /\ \A d \in run'.found : d \in run.found \/ (d = c /\ Found(d))
      <4>1. run' = [run EXCEPT !.at = @ + 1,
                              !.found = IF there THEN @ \cup {c} ELSE @]
        BY <3>1 DEF Probed
      <4>2. /\ run'.stage = run.stage
            /\ run'.found = IF there THEN run.found \cup {c} ELSE run.found
        BY <1>0, <4>1 DEF Runs
      <4> QED
        BY <1>2, <3>1, <4>2 DEF Probe
    <3>2. run.stage = "probe" /\ torn' = torn /\ UNCHANGED cluster
      BY <1>2 DEF Probe, history
    <3>3. Found(c) \in BOOLEAN
      BY DEF Found
    <3>4. \E there \in BOOLEAN : (there => Found(c)) /\ Probed(c, there)
      BY <1>2, <3>3 DEF Probe
    <3> QED
      BY <3>1, <3>2, <3>4
  <2>3. TracesExplained'
    BY <2>2 DEF SuccessInv, TracesExplained, Trace, Present, InHelm, cluster
  <2>4. FoundIsPresent'
    <3>1. Found(Chart[run.at]) => Present(Chart[run.at])
      BY <2>1, <2>2 DEF SuccessInv, TracesExplained, Trace, Found, Present, InHelm
    <3>2. \A c \in run.found : Present(c)
      BY <2>2 DEF SuccessInv, FoundIsPresent, Active, Ended
    <3> QED
      BY <2>2, <3>1, <3>2 DEF FoundIsPresent, Present, cluster
  <2>5. PassedIsPresent' /\ AssetsApplied'
    BY <2>2 DEF PassedIsPresent, AssetsApplied
  <2> QED
    BY <2>3, <2>4, <2>5 DEF SuccessInv
<1>3. CASE CountGPUNodes
  <2>1. PICK gpu \in BOOLEAN : run' = [run EXCEPT !.stage = "step", !.at = 1, !.gpu = gpu]
    BY <1>3 DEF CountGPUNodes
  <2>2. /\ run.stage = "probe" /\ run'.stage = "step" /\ run'.at = 1
        /\ run'.found = run.found /\ torn' = torn /\ UNCHANGED cluster
    BY <1>0, <1>3, <2>1, GPUUpdate DEF CountGPUNodes
  <2>3. TracesExplained'
    BY <2>2 DEF SuccessInv, TracesExplained, Trace, Present, InHelm, cluster
  <2>4. FoundIsPresent'
    BY <2>2 DEF SuccessInv, FoundIsPresent, Present, Active, Ended, cluster
  <2>5. PassedIsPresent' /\ AssetsApplied'
    BY <2>2 DEF PassedIsPresent, Passed, AssetsApplied
  <2> QED
    BY <2>3, <2>4, <2>5 DEF SuccessInv
<1>4. ASSUME UNCHANGED cluster, torn' = torn, run.stage = "step"
      PROVE  /\ \A c \in Charts : Trace(c)' => Present(c)'
             /\ \A c \in Charts : Present(c) => Present(c)'
  BY <1>4 DEF SuccessInv, TracesExplained, Trace, Present, InHelm, cluster
<1>5. CASE StepSkips
  <2>1. run.at \in 1..3 /\ run.stage = "step" /\ torn' = torn /\ UNCHANGED cluster /\ NextStep
    BY <1>0, <1>5 DEF StepSkips, Runs, TypeOK, history
  <2>2. PICK at \in Charts : at = Chart[run.at]
    BY <2>1, ChartType
  <2>3. at \in Wanted => Present(at)
    BY <1>5, <2>1, <2>2 DEF StepSkips, Skips, Wanted, SuccessInv, FoundIsPresent, Active, Ended
  <2>4. at \in Wanted => Present(at)'
    BY <1>4, <2>1, <2>3
  <2> QED
    BY <1>4, <2>1, <2>2, <2>4, NextChart
<1>6. CASE HelmDryRun
  <2>1. /\ run.at \in 1..3 /\ run.stage = "step" /\ run.dryRun /\ torn' = torn
        /\ UNCHANGED cluster /\ (NextStep \/ Fails)
    BY <1>0, <1>6 DEF HelmDryRun, Runs, TypeOK
  <2>2. CASE NextStep
    <3>1. PICK at \in Charts : at = Chart[run.at]
      BY <2>1, ChartType
    <3> QED
      BY <1>4, <2>1, <2>2, <3>1, NextChart
  <2>3. CASE Fails
    BY <2>1, <2>3, FailedRun DEF InHelm, cluster
  <2> QED
    BY <2>1, <2>2, <2>3
<1>7. CASE HelmStarts
  <2>1. run.at \in 1..3 /\ run.stage = "step" /\ ~run.dryRun /\ torn' = torn
    BY <1>0, <1>7 DEF HelmStarts, Runs, TypeOK, history
  <2>2. CASE releases[Chart[run.at]] \in Pending
    BY <1>7, <2>1, <2>2, FailedRun DEF HelmStarts, InHelm, cluster
  <2>3. CASE releases[Chart[run.at]] \notin Pending
    <3>0. PICK at \in Charts : at = Chart[run.at]
      BY <2>1, ChartType
    <3>1. /\ run' = [run EXCEPT !.stage = "helm"]
          /\ namespaces' = namespaces \cup {at}
          /\ workloads' = workloads /\ foreign' = foreign
      BY <1>7, <2>3, <3>0 DEF HelmStarts
    <3>2. \A c \in Charts : c # at => releases'[c] = releases[c]
      BY <1>7, <2>3, <3>0 DEF HelmStarts, TypeOK
    <3>3. /\ run'.stage = "helm" /\ run'.at = run.at /\ run'.found = run.found
          /\ run'.dryRun = run.dryRun /\ Wanted' = Wanted
      BY <1>0, <3>1 DEF Runs, Wanted
    <3>4. \A c \in Charts : c # at /\ Present(c) => Present(c)'
      BY <2>1, <3>1, <3>2 DEF Present
    <3>5. TracesExplained'
      <4>1. ASSUME NEW c \in Charts, c # at, Trace(c)' PROVE Present(c)'
        BY <2>1, <3>0, <3>1, <3>2, <3>4, <4>1 DEF SuccessInv, TracesExplained, Trace, InHelm
      <4>2. InHelm(at)'
        BY <3>0, <3>3 DEF InHelm
      <4> QED
        BY <4>1, <4>2 DEF TracesExplained
    <3>6. FoundIsPresent'
      <4>1. at \notin run.found /\ run.found \subseteq Charts
        BY <1>0, <1>7, <3>0 DEF HelmStarts, Skips, Runs
      <4> QED
        BY <2>1, <3>3, <3>4, <4>1 DEF SuccessInv, FoundIsPresent, Active, Ended
    <3>7. PassedIsPresent'
      <4> SUFFICES ASSUME NEW i \in 1..3, i < run.at, Chart[i] \in Wanted
                   PROVE  Present(Chart[i])'
        BY <3>3 DEF PassedIsPresent, Passed
      <4>1. PICK c \in Charts : c = Chart[i]
        BY ChartType
      <4>2. c # at
        BY <2>1, <3>0, <4>1, DistinctCharts
      <4>3. Present(c)
        BY <2>1, <4>1 DEF SuccessInv, PassedIsPresent, Passed
      <4>4. Present(c)'
        BY <3>4, <4>2, <4>3
      <4> QED
        BY <4>1, <4>4
    <3>8. AssetsApplied'
      BY <3>3 DEF AssetsApplied
    <3> QED
      BY <3>5, <3>6, <3>7, <3>8 DEF SuccessInv
  <2> QED
    BY <2>2, <2>3
<1>8. CASE HelmDeploys
  <2>0. PICK at \in Charts : at = Chart[run.at]
    BY <1>0, <1>8, ChartType DEF HelmDeploys, Runs, TypeOK
  <2>1. run.at \in 1..3 /\ run.stage = "helm" /\ torn' = torn /\ NextStep
    BY <1>0, <1>8 DEF HelmDeploys, Runs, TypeOK, history
  <2>2. /\ releases' = [releases EXCEPT ![at] = "deployed"]
        /\ workloads' \subseteq workloads \cup {at}
        /\ foreign' = foreign /\ namespaces' = namespaces
    BY <1>8, <2>0 DEF HelmDeploys
  <2>3. /\ releases'[at] = "deployed"
        /\ \A c \in Charts : c # at => releases'[c] = releases[c]
    BY <2>1, <2>2 DEF TypeOK
  <2>4. Present(at)'
    BY <2>3 DEF Present
  <2>5. \A c \in Charts : Present(c) => Present(c)'
    BY <2>1, <2>2, <2>3, <2>4 DEF Present
  <2>6. \A c \in Charts : Trace(c)' => Present(c)'
    <3>1. ASSUME NEW c \in Charts, c # at, Trace(c)' PROVE Trace(c) /\ ~InHelm(c)
      BY <2>0, <2>1, <2>2, <2>3, <3>1 DEF Trace, InHelm
    <3> QED
      BY <2>4, <2>5, <3>1 DEF SuccessInv, TracesExplained
  <2> QED
    BY <2>0, <2>1, <2>4, <2>5, <2>6, NextChart
<1>9. CASE HelmFails
  <2>0. PICK at \in Charts : at = Chart[run.at]
    BY <1>0, <1>9, ChartType DEF HelmFails, Runs, TypeOK
  <2>1. /\ run.at \in 1..3 /\ run.stage = "helm" /\ Fails
        /\ torn' = torn \cup {at}
    BY <1>0, <1>9, <2>0 DEF HelmFails, Runs, TypeOK
  <2>2. /\ \A c \in Charts : c # at => releases'[c] = releases[c]
        /\ workloads' \subseteq workloads
        /\ foreign' = foreign /\ namespaces' = namespaces
    BY <1>9, <2>0 DEF HelmFails, TypeOK
  <2>3. run'.stage = "failed"
    BY <1>0, <2>1, FailsKeeps
  <2>4. TracesExplained'
    <3>1. Present(at)'
      BY <2>1 DEF Present
    <3>2. ASSUME NEW c \in Charts, c # at, Trace(c)' PROVE Present(c)'
      BY <2>0, <2>1, <2>2, <3>2 DEF SuccessInv, TracesExplained, Trace, Present, InHelm
    <3> QED
      BY <3>1, <3>2 DEF TracesExplained
  <2>5. FoundIsPresent' /\ PassedIsPresent' /\ AssetsApplied'
    BY <2>3 DEF FoundIsPresent, PassedIsPresent, AssetsApplied, Active, Ended
  <2> QED
    BY <2>4, <2>5 DEF SuccessInv
<1>10. ASSUME run.stage \in {"prices", "rules"}, torn' = torn, releases' = releases,
              workloads' = workloads, foreign' = foreign, namespaces' = namespaces,
              NEW stage \in {"rules", "succeeded"}, run' = [run EXCEPT !.stage = stage],
              stage = "rules" => prices' # "absent",
              stage = "succeeded" => prices' # "absent" /\ rules'
       PROVE  SuccessInv'
  <2>1. /\ run'.stage = stage /\ run'.found = run.found /\ run'.gpu = run.gpu
        /\ run'.dryRun = run.dryRun /\ run'.skipPrometheus = run.skipPrometheus
    BY <1>0, <1>10 DEF Runs
  <2>2. TracesExplained'
    BY <1>10, <2>1 DEF SuccessInv, TracesExplained, Trace, Present, InHelm
  <2>3. FoundIsPresent'
    BY <1>10, <2>1 DEF SuccessInv, FoundIsPresent, Present, Active, Ended
  <2>4. Wanted' = Wanted
    BY <2>1 DEF Wanted
  <2>5. PassedIsPresent'
    BY <1>10, <2>1, <2>4 DEF SuccessInv, PassedIsPresent, Passed, Present
  <2>6. AssetsApplied'
    BY <1>10, <2>1 DEF SuccessInv, AssetsApplied
  <2> QED
    BY <2>2, <2>3, <2>5, <2>6 DEF SuccessInv
<1>11. CASE ApplyPrices
  <2>1. /\ run.stage = "prices" /\ torn' = torn /\ releases' = releases
        /\ workloads' = workloads /\ foreign' = foreign /\ namespaces' = namespaces
        /\ (prices' = "default" /\ run' = [run EXCEPT !.stage = "rules"]) \/ Fails
    BY <1>11 DEF ApplyPrices, history
  <2>2. CASE Fails
    BY <2>1, <2>2, FailedRun DEF InHelm
  <2>3. CASE prices' = "default" /\ run' = [run EXCEPT !.stage = "rules"]
    BY <1>10, <2>1, <2>3
  <2> QED
    BY <2>1, <2>2, <2>3
<1>12. CASE ApplyRules
  <2>1. /\ run.stage = "rules" /\ torn' = torn /\ releases' = releases
        /\ workloads' = workloads /\ foreign' = foreign /\ namespaces' = namespaces
        /\ prices' = prices
        /\ (rules' /\ run' = [run EXCEPT !.stage = "succeeded"]) \/ Fails
    BY <1>12 DEF ApplyRules, history
  <2>2. CASE Fails
    BY <2>1, <2>2, FailedRun DEF InHelm
  <2>3. CASE rules' /\ run' = [run EXCEPT !.stage = "succeeded"]
    <3>1. prices' # "absent"
      BY <2>1, <1>0 DEF SuccessInv, AssetsApplied
    <3>2. "succeeded" \in {"rules", "succeeded"}
      OBVIOUS
    <3> QED
      BY <1>10, <2>1, <2>3, <3>1, <3>2
  <2> QED
    BY <2>1, <2>2, <2>3
<1>13. CASE ApplyFails
  BY <1>13, FailedRun DEF ApplyFails, InHelm, cluster
<1>14. CASE Interrupt
  <2>1. torn \subseteq torn' /\ \A c \in Charts : InHelm(c) => c \in torn'
    BY <1>14 DEF Interrupt, InHelm
  <2> QED
    BY <1>14, <2>1, FailedRun DEF Interrupt, cluster
<1>15. ASSUME run' = run, torn' = torn, releases' = releases, foreign \subseteq foreign',
              namespaces' = namespaces,
              \A c \in Charts : c \in workloads' => c \in workloads \/ releases[c] # "absent",
              prices # "absent" => prices' # "absent", rules' = rules
       PROVE  SuccessInv'
  BY <1>15 DEF SuccessInv, TracesExplained, FoundIsPresent, PassedIsPresent, AssetsApplied,
               Trace, Present, InHelm, Passed, Wanted, Active
<1>16. CASE \/ \E c \in Charts : WorkloadAppears(c) \/ WorkloadGoes(c)
            \/ ChangeNodes \/ EditPrices
  BY <1>15, <1>16 DEF WorkloadAppears, WorkloadGoes, ChangeNodes, EditPrices, history
<1>17. ASSUME NEW c \in Foreigns, ForeignInstall(c) PROVE SuccessInv'
  BY <1>15, <1>17 DEF ForeignInstall
<1>18. CASE UNCHANGED vars
  BY <1>15, <1>18 DEF vars, cluster, history
<1> QED
  BY <1>1, <1>2, <1>3, <1>5, <1>6, <1>7, <1>8, <1>9, <1>11, <1>12, <1>13, <1>14, <1>16,
     <1>17, <1>18 DEF Next, Step, Environment

(* A reported success means that every chart that was due is installed, by *)
(* us or others, with both assets, unless an earlier installation of the   *)
(* chart was broken off and left its traces.                               *)
THEOREM SuccessMeansComplete == Spec => []SuccessIsComplete
<1>1. Init => SuccessInv
  <2> SUFFICES ASSUME Init PROVE SuccessInv
    OBVIOUS
  <2>1. TracesExplained
    BY DEF Init, TracesExplained, Trace, Present
  <2>2. FoundIsPresent /\ PassedIsPresent /\ AssetsApplied
    BY DEF Init, FoundIsPresent, PassedIsPresent, AssetsApplied, Active, Ended
  <2> QED
    BY <2>1, <2>2 DEF SuccessInv
<1>2. TypeOK /\ TypeOK' /\ SuccessInv /\ [Next]_vars => SuccessInv'
  BY SuccessStep
<1>3. SuccessInv => SuccessIsComplete
  <2> SUFFICES ASSUME SuccessInv, run.stage = "succeeded", ~run.dryRun
               PROVE  /\ prices # "absent" /\ rules
                      /\ \A c \in Wanted \ torn : c \in foreign \/ releases[c] = "deployed"
    BY DEF SuccessIsComplete
  <2>1. prices # "absent" /\ rules
    BY DEF SuccessInv, AssetsApplied
  <2>2. ASSUME NEW c \in Wanted \ torn PROVE c \in foreign \/ releases[c] = "deployed"
    <3>1. PICK i \in 1..3 : c = Chart[i]
      BY DistinctCharts DEF Wanted
    <3>2. Present(c)
      BY <3>1 DEF SuccessInv, PassedIsPresent, Passed
    <3> QED
      BY <3>2 DEF Present
  <2> QED
    BY <2>1, <2>2
<1> QED
  BY <1>1, <1>2, <1>3, InstallTypeCorrect, PTL DEF Spec

-----------------------------------------------------------------------------
(* Repeated runs.  What one run leaves installed the next one skips.       *)

(* A step that only takes the run further leaves all that lasts.           *)
LEMMA LastingKept ==
  ASSUME releases' = releases, foreign' = foreign, namespaces' = namespaces,
         gpuNodes' = gpuNodes,
         \A c \in Charts : c \in workloads /\ releases[c] # "absent" => c \in workloads',
         NEW c \in Charts, Lasting(c)
  PROVE  Lasting(c)'
BY DEF Lasting

LEMMA LastingIsFound ==
  ASSUME NEW c \in Charts, Lasting(c)
  PROVE  Found(c) \/ (c = "gpu-operator" /\ ~gpuNodes)
BY DEF Lasting, Found

Idle == run.stage \notin {"probe", "step", "helm"}

Quiet ==
  /\ NothingToDo'
  /\ UNCHANGED <<releases, namespaces, foreign, ruleKind, torn>>
  /\ run'.stage = "failed" =>
       run.stage = "failed" \/ ~ruleKind \/ "kubefisher" \notin namespaces

LEMMA QuietStep ==
  ASSUME TypeOK, NothingToDo, [Next]_vars, UNCHANGED faults
  PROVE  Quiet
<1>0. run \in Runs /\ faults \in Nat
  BY InstallAssumption DEF TypeOK, InstallAssumption
<1>1. ~Fault
  BY <1>0 DEF Fault
<1>2. ASSUME releases' = releases, foreign' = foreign, namespaces' = namespaces,
             gpuNodes' = gpuNodes,
             \A c \in Charts : c \in workloads /\ releases[c] # "absent" => c \in workloads'
      PROVE  \A c \in Charts : Lasting(c)'
  <2> SUFFICES ASSUME NEW c \in Charts PROVE Lasting(c)'
    OBVIOUS
  <2>1. Lasting(c)
    BY DEF NothingToDo
  <2> QED
    BY <1>2, <2>1, LastingKept
<1>3. CASE Start
  <2>1. /\ run'.stage = "probe" /\ run'.at = 1
        /\ UNCHANGED <<cluster, history>>
    BY <1>3 DEF Start, StartRun
  <2>2. ~\E i \in 1..3 : i < run'.at
    BY <2>1
  <2> QED
    BY <1>2, <2>1, <2>2 DEF cluster, history, Quiet, NothingToDo
<1>4. CASE Probe
  <2>1. run.stage = "probe" /\ run.at \in 1..3 /\ Chart[run.at] \in Charts
    BY <1>0, <1>4, ChartType DEF Probe, Runs
  <2>2. Probed(Chart[run.at], Found(Chart[run.at])) /\ UNCHANGED <<cluster, history>>
    BY <1>1, <1>4 DEF Probe
  <2>3. /\ run'.stage = "probe" /\ run'.at = run.at + 1 /\ run.found \subseteq run'.found
        /\ Found(Chart[run.at]) => Chart[run.at] \in run'.found
    BY <1>0, <2>1, <2>2, ProbedType
  <2>4. ASSUME NEW i \in 1..3, i < run'.at
        PROVE  Chart[i] \in run'.found \/ (Chart[i] = "gpu-operator" /\ ~gpuNodes)
    <3>1. CASE i < run.at
      BY <2>1, <2>3, <3>1 DEF NothingToDo
    <3>2. CASE i = run.at
      BY <2>1, <2>3, <3>2, LastingIsFound DEF NothingToDo
    <3> QED
      BY <2>1, <2>3, <2>4, <3>1, <3>2
  <2> QED
    BY <1>2, <2>2, <2>3, <2>4 DEF cluster, history, Quiet, NothingToDo
<1>5. CASE CountGPUNodes
  <2>1. PICK gpu \in BOOLEAN :
           /\ run' = [run EXCEPT !.stage = "step", !.at = 1, !.gpu = gpu]
           /\ gpu = gpuNodes
    BY <1>1, <1>5 DEF CountGPUNodes
  <2>2. /\ run'.stage = "step" /\ run'.at = 1 /\ run'.found = run.found
        /\ run'.gpu = gpuNodes /\ run.stage = "probe" /\ run.at = 4
    BY <1>0, <1>5, <2>1 DEF CountGPUNodes, Runs
  <2>3. \A i \in 1..3 : Chart[i] \in run.found \/ (Chart[i] = "gpu-operator" /\ ~gpuNodes)
    BY <2>2 DEF NothingToDo
  <2>4. \A i \in 1..3 : Skips(Chart[i])'
    BY <2>2, <2>3 DEF Skips
  <2>5. UNCHANGED <<cluster, torn, unseen>>
    BY <1>5 DEF CountGPUNodes
  <2> QED
    BY <1>2, <2>2, <2>4, <2>5 DEF cluster, Quiet, NothingToDo
<1>6. ASSUME run.stage = "step" PROVE Skips(Chart[run.at]) /\ run.at \in 1..3
  <2>1. run.at \in 1..3
    BY <1>0, <1>6 DEF TypeOK, Runs
  <2> QED
    BY <1>6, <2>1 DEF NothingToDo
<1>7. CASE StepSkips
  <2>1. run.stage = "step" /\ run.at \in 1..3 /\ NextStep /\ UNCHANGED <<cluster, history>>
    BY <1>6, <1>7 DEF StepSkips
  <2>2. /\ run'.stage \in {"step", "prices", "succeeded"}
        /\ run'.found = run.found /\ run'.gpu = run.gpu
        /\ run'.skipPrometheus = run.skipPrometheus
    BY <1>0, <2>1, NextStepKeeps
  <2>3. run'.stage = "step" => run'.at \in 1..3 /\ run'.at = run.at + 1
    BY <1>0, <2>1 DEF NextStep, Runs
  <2>4. run'.stage = "step" => \A i \in run'.at..3 : Skips(Chart[i])'
    <3> SUFFICES ASSUME run'.stage = "step", NEW i \in run'.at..3 PROVE Skips(Chart[i])'
      OBVIOUS
    <3>1. i \in run.at..3
      BY <2>1, <2>3
    <3>2. Skips(Chart[i])
      BY <2>1, <3>1 DEF NothingToDo
    <3> QED
      BY <2>2, <3>2 DEF Skips
  <2> QED
    BY <1>2, <2>1, <2>2, <2>4 DEF cluster, history, Quiet, NothingToDo
<1>8. ~HelmDryRun /\ ~HelmStarts /\ ~HelmDeploys /\ ~HelmFails
  BY <1>6 DEF HelmDryRun, HelmStarts, HelmDeploys, HelmFails, NothingToDo
<1>9. ASSUME Idle, Idle', releases' = releases, foreign' = foreign, namespaces' = namespaces,
             gpuNodes' = gpuNodes, workloads' = workloads, ruleKind' = ruleKind, torn' = torn,
             run'.stage = "failed" => ~ruleKind \/ "kubefisher" \notin namespaces
      PROVE  Quiet
  BY <1>2, <1>9 DEF Idle, Quiet, NothingToDo
<1>10. CASE ApplyPrices \/ ApplyRules
  <2>1. PICK stage \in {"failed", "rules", "succeeded"} :
           /\ run' = [run EXCEPT !.stage = stage]
           /\ stage = "failed" => ~ruleKind \/ "kubefisher" \notin namespaces
    BY <1>10 DEF ApplyPrices, ApplyRules, Fails
  <2>2. run'.stage = stage
    BY <1>0, <2>1 DEF Runs
  <2>3. /\ run.stage \in {"prices", "rules"}
        /\ UNCHANGED <<releases, workloads, foreign, namespaces, ruleKind, gpuNodes, history>>
    BY <1>10 DEF ApplyPrices, ApplyRules
  <2> QED
    BY <1>9, <2>1, <2>2, <2>3 DEF Idle, history
<1>11. ASSUME run' = run, releases' = releases, foreign' = foreign, namespaces' = namespaces,
              gpuNodes' = gpuNodes, ruleKind' = ruleKind, torn' = torn,
              \A c \in Charts : c \in workloads /\ releases[c] # "absent" => c \in workloads'
       PROVE  Quiet
  BY <1>2, <1>11 DEF Quiet, NothingToDo, Skips
<1>12. CASE \E c \in Charts : WorkloadAppears(c) \/ WorkloadGoes(c)
  BY <1>11, <1>12 DEF WorkloadAppears, WorkloadGoes, history
<1>13. CASE UNCHANGED vars
  BY <1>11, <1>13 DEF vars, cluster, history
<1>14. /\ ~ApplyFails /\ ~Interrupt /\ ~ChangeNodes /\ ~EditPrices
       /\ \A c \in Foreigns : ~ForeignInstall(c)
  BY <1>1 DEF ApplyFails, Interrupt, ChangeNodes, EditPrices, ForeignInstall
<1> QED
  BY <1>3, <1>4, <1>5, <1>7, <1>8, <1>10, <1>12, <1>13, <1>14 DEF Next, Step, Environment

(* Once everything is installed, running the command again is safe: no run *)
(* asks helm for anything, and none fails for want of what it installed.   *)
THEOREM InstallIsIdempotent == Spec => RunningTwiceIsSafe
<1>1. TypeOK /\ [Next]_vars
        => (NothingToDo /\ UNCHANGED faults =>
              /\ NothingToDo' /\ UNCHANGED <<releases, namespaces, foreign, ruleKind, torn>>
              /\ run'.stage = "failed" =>
                   run.stage = "failed" \/ ~ruleKind \/ "kubefisher" \notin namespaces)
  BY QuietStep DEF Quiet
<1> QED
  BY <1>1, InstallTypeCorrect, PTL DEF Spec, RunningTwiceIsSafe

(* That is the state a successful run leaves: with every chart wanted, the *)
(* workloads of its releases up, and no installation broken off before.    *)
THEOREM SuccessLeavesNothingToDo ==
  Spec => [](/\ run.stage = "succeeded" /\ ~run.dryRun /\ ~run.skipPrometheus
             /\ run.gpu = gpuNodes /\ torn = {}
             /\ \A c \in Charts : releases[c] # "absent" => c \in workloads
             => NothingToDo)
<1>1. ASSUME TypeOK, SuccessIsComplete, run.stage = "succeeded", ~run.dryRun,
             ~run.skipPrometheus, run.gpu = gpuNodes, torn = {},
             \A c \in Charts : releases[c] # "absent" => c \in workloads
      PROVE  NothingToDo
  <2>1. \A c \in Charts : Lasting(c)
    <3> SUFFICES ASSUME NEW c \in Charts PROVE Lasting(c)
      OBVIOUS
    <3>1. (c = "gpu-operator" /\ ~gpuNodes) \/ c \in Wanted
      BY <1>1 DEF Wanted
    <3>2. c \in Wanted => c \in foreign \/ releases[c] = "deployed"
      BY <1>1 DEF SuccessIsComplete
    <3> QED
      BY <1>1, <3>1, <3>2 DEF Lasting
  <2> QED
    BY <1>1, <2>1 DEF NothingToDo
<1> QED
  BY <1>1, InstallTypeCorrect, SuccessMeansComplete, PTL

-----------------------------------------------------------------------------
(* The variant of a run: what it still has to call.                        *)

LEMMA CallsOfRun ==
  ASSUME TypeOK, Active
  PROVE  /\ CallsAhead \in 1..12
         /\ run.stage = "probe" => CallsAhead = 13 - run.at
         /\ run.stage = "step" => CallsAhead = 10 - 2 * run.at
         /\ run.stage = "helm" => CallsAhead = 9 - 2 * run.at
         /\ run.stage = "prices" => CallsAhead = 2
         /\ run.stage = "rules" => CallsAhead = 1
<1>1. run.stage \in {"probe", "step", "helm", "prices", "rules"} /\ run.at \in 1..4
  BY DEF TypeOK, Runs, Active
<1>2. run.stage \in {"step", "helm"} => run.at \in 1..3
  BY <1>1 DEF TypeOK
<1> QED
  BY <1>1, <1>2 DEF CallsAhead

LEMMA CallsAfter ==
  /\ run'.stage \in Ended => CallsAhead' = 0
  /\ run'.stage = "probe" => CallsAhead' = 13 - run'.at
  /\ run'.stage = "step" => CallsAhead' = 10 - 2 * run'.at
  /\ run'.stage = "helm" => CallsAhead' = 9 - 2 * run'.at
  /\ run'.stage = "prices" => CallsAhead' = 2
  /\ run'.stage = "rules" => CallsAhead' = 1
BY DEF CallsAhead, Ended

LEMMA FailureEndsRun ==
  ASSUME TypeOK, Active, Fails
  PROVE  CallsAhead' \in 0..(CallsAhead - 1)
<1>1. run'.stage \in Ended
  BY FailsType DEF TypeOK, Ended
<1> QED
  BY <1>1, CallsOfRun, CallsAfter

(* The three charts, then the assets, if it is no dry run.                 *)
LEMMA NextStepAdvances ==
  ASSUME TypeOK, Active, run.stage \in {"step", "helm"}, NextStep
  PROVE  CallsAhead' \in 0..(CallsAhead - 1)
<1>1. run \in Runs /\ run.at \in 1..3
  BY DEF TypeOK, Runs
<1>2. CallsAhead \in {10 - 2 * run.at, 9 - 2 * run.at}
  BY CallsOfRun
<1>3. CASE run.at < 3
  <2>1. run' = [run EXCEPT !.stage = "step", !.at = run.at + 1]
    BY <1>3 DEF NextStep
  <2>2. "step" \in Stages /\ run.at + 1 \in 1..4
    BY <1>1 DEF Stages
  <2>3. run'.stage = "step" /\ run'.at = run.at + 1
    BY <1>1, <2>1, <2>2, RunUpdate
  <2>4. CallsAhead' = 10 - 2 * (run.at + 1)
    BY <2>3, CallsAfter
  <2> QED
    BY <1>1, <1>2, <1>3, <2>4
<1>4. CASE ~(run.at < 3)
  <2>1. run'.stage \in {"prices", "succeeded"}
    BY <1>1, <1>4 DEF NextStep, Runs
  <2>2. CallsAhead' \in {0, 2}
    BY <2>1, CallsAfter DEF Ended
  <2>3. run.at = 3
    BY <1>1, <1>4
  <2> QED
    BY <1>2, <2>2, <2>3
<1> QED
  BY <1>3, <1>4

LEMMA StepAdvances ==
  ASSUME TypeOK, Active, Step
  PROVE  CallsAhead' \in 0..(CallsAhead - 1)
<1>1. CASE Probe
  <2>1. run \in Runs /\ run.at \in 1..3 /\ run.stage = "probe" /\ Chart[run.at] \in Charts
    BY <1>1, ChartType DEF Probe, TypeOK, Runs
  <2>2. run'.stage = "probe" /\ run'.at = run.at + 1
    BY <1>1, <2>1, ProbedType DEF Probe
  <2>3. CallsAhead = 13 - run.at /\ CallsAhead' = 13 - (run.at + 1)
    BY <2>1, <2>2, CallsOfRun, CallsAfter
  <2> QED
    BY <2>1, <2>3
<1>2. CASE CountGPUNodes
  <2>1. run \in Runs /\ run.stage = "probe" /\ run.at = 4
    BY <1>2 DEF CountGPUNodes, TypeOK
  <2>2. PICK gpu \in BOOLEAN : run' = [run EXCEPT !.stage = "step", !.at = 1, !.gpu = gpu]
    BY <1>2 DEF CountGPUNodes
  <2>3. run'.stage = "step" /\ run'.at = 1
    BY <2>1, <2>2, GPUUpdate
  <2> QED
    BY <2>1, <2>3, CallsOfRun, CallsAfter
<1>3. CASE StepSkips
  BY <1>3, NextStepAdvances DEF StepSkips
<1>4. CASE HelmDryRun
  BY <1>4, NextStepAdvances, FailureEndsRun DEF HelmDryRun
<1>5. CASE HelmStarts
  <2>1. run \in Runs /\ run.stage = "step" /\ run.at \in 1..3
    BY <1>5 DEF HelmStarts, TypeOK, Runs
  <2>2. CASE Fails
    BY <2>2, FailureEndsRun
  <2>3. CASE run' = [run EXCEPT !.stage = "helm"]
    <3>1. run'.stage = "helm" /\ run'.at = run.at
      BY <2>1, <2>3 DEF Runs
    <3>2. CallsAhead = 10 - 2 * run.at /\ CallsAhead' = 9 - 2 * run.at
      BY <2>1, <3>1, CallsOfRun, CallsAfter
    <3> QED
      BY <2>1, <3>2
  <2> QED
    BY <1>5, <2>2, <2>3 DEF HelmStarts
<1>6. CASE HelmDeploys
  BY <1>6, NextStepAdvances DEF HelmDeploys
<1>7. CASE HelmFails
  BY <1>7, FailureEndsRun DEF HelmFails
<1>8. CASE ApplyPrices
  <2>1. run \in Runs /\ run.stage = "prices"
    BY <1>8 DEF ApplyPrices, TypeOK
  <2>2. CASE run' = [run EXCEPT !.stage = "rules"]
    <3>1. run'.stage = "rules"
      BY <2>1, <2>2 DEF Runs
    <3> QED
      BY <2>1, <3>1, CallsOfRun, CallsAfter
  <2> QED
    BY <1>8, <2>2, FailureEndsRun DEF ApplyPrices
<1>9. CASE ApplyRules
  <2>1. run \in Runs /\ run.stage = "rules"
    BY <1>9 DEF ApplyRules, TypeOK
  <2>2. CASE run' = [run EXCEPT !.stage = "succeeded"]
    <3>1. run'.stage \in Ended
      BY <2>1, <2>2 DEF Runs, Ended
    <3> QED
      BY <2>1, <3>1, CallsOfRun, CallsAfter
  <2> QED
    BY <1>9, <2>2, FailureEndsRun DEF ApplyRules
<1>10. CASE ApplyFails
  BY <1>10, FailureEndsRun DEF ApplyFails
<1> QED
  BY <1>1, <1>2, <1>3, <1>4, <1>5, <1>6, <1>7, <1>8, <1>9, <1>10 DEF Step

LEMMA OtherStepsWait ==
  ASSUME TypeOK, Active, [Next]_vars, ~Step
  PROVE  CallsAhead' \in 0..(CallsAhead - 1) \/ run' = run
<1>1. CASE Interrupt
  BY <1>1, FailureEndsRun DEF Interrupt
<1>2. CASE ChangeNodes \/ EditPrices
  BY <1>2 DEF ChangeNodes, EditPrices
<1>3. ASSUME NEW c \in Charts, WorkloadAppears(c) \/ WorkloadGoes(c)
      PROVE  run' = run
  BY <1>3 DEF WorkloadAppears, WorkloadGoes
<1>4. ASSUME NEW c \in Foreigns, ForeignInstall(c)
      PROVE  run' = run
  BY <1>4 DEF ForeignInstall
<1>5. ~Start
  BY DEF Start, StartRun
<1>6. CASE UNCHANGED vars
  BY <1>6 DEF vars
<1> QED
  BY <1>1, <1>2, <1>3, <1>4, <1>5, <1>6 DEF Next, Environment

(* install.go makes its calls one after another and none of them twice: as *)
(* long as each returns, Run returns, whatever it finds and whatever fails *)
(* or is changed meanwhile.                                                *)
THEOREM RunsEnd == Spec => RunsAreFinite
<1>1. TypeOK /\ [Next]_vars =>
        (Active => CallsAhead' \in 0..(CallsAhead - 1) \/ (run' = run /\ ~Step))
  BY StepAdvances, OtherStepsWait
<1> QED
  BY <1>1, InstallTypeCorrect, PTL DEF Spec, RunsAreFinite
=============================================================================
