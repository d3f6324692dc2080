----------------------- MODULE QuotaControllerProofs -----------------------
(***************************************************************************)
(* Proofs about QuotaController, for any set of quotas, specs and spend,   *)
(* any lag of the watch and any number of disturbances; and, at the end,   *)
(* about its composition with the webhook in QuotaSystem.                  *)
(***************************************************************************)
EXTENDS QuotaSystem, TLAPS

-----------------------------------------------------------------------------
(* The operators of QuotaPhase.                                            *)

(* A remaining percentage is a percentage, whatever was spent.             *)
LEMMA RemainingPctType ==
  ASSUME NEW used \in Int, NEW full \in Int
  PROVE  RemainingPct(used, full) \in 0..100
BY DEF RemainingPct

(* computePhase never answers Unknown.                                     *)
LEMMA ComputePhaseType ==
  ASSUME NEW spec, NEW tokens, NEW cost
  PROVE  ComputePhase(spec, tokens, cost) \in {"Active", "Warning", "Exceeded"}
BY DEF ComputePhase

(* Rounding for display keeps amounts natural numbers.                     *)
LEMMA RoundingType ==
  ASSUME NEW n \in Nat
  PROVE  RoundTokens(n) \in Nat /\ FormatUSD(n) \in Nat
BY DEF RoundTokens, FormatUSD, TokenUnit, CentUnit

(* Gauge values lie in their ranges.                                       *)
LEMMA GaugeTypes ==
  ASSUME NEW status \in Statuses
  PROVE  /\ ParseCostUsedUSD(status.cost) \in Nat
         /\ GaugeUsedPct(status) \in 0..100
         /\ PhaseToFloat(status.phase) \in 0..3
<1>1. status.cost \in Int /\ status.costPct \in 0..100
  BY DEF Statuses
<1>2. PhaseToFloat(status.phase) \in 0..3
  BY DEF PhaseToFloat
<1> QED
  BY <1>1, <1>2 DEF ParseCostUsedUSD, GaugeUsedPct

-----------------------------------------------------------------------------
(* The statuses Reconcile computes, stores and exports.                    *)

(* The status of an object no reconcile has written is well-formed.        *)
LEMMA NoStatusType == NoStatus \in Statuses
BY DEF NoStatus, Statuses, Conditions, NoCost

(* A status put together from well-typed fields is well-formed.            *)
LEMMA StatusType ==
  ASSUME NEW phase \in Phases, NEW tokens \in Nat, NEW cost \in Int,
         NEW tokenPct \in 0..100, NEW costPct \in 0..100, NEW conditions \in Conditions
  PROVE  [phase |-> phase, tokens |-> tokens, cost |-> cost, tokenPct |-> tokenPct,
          costPct |-> costPct, conditions |-> conditions] \in Statuses
BY DEF Statuses

(* A failed evaluation yields a well-formed status.                        *)
LEMMA UnknownStatusType ==
  ASSUME NEW object \in Objects, NEW display \in Int,
         NEW specOK \in {"True", "False"}, NEW promCondition \in {"False", "Unknown"}
  PROVE  UnknownStatus(object, display, specOK, promCondition) \in Statuses
<1>1. [gen |-> object.gen, spec |-> specOK, prom |-> promCondition] \in Conditions
  BY DEF Objects, Conditions
<1> QED
  BY <1>1 DEF UnknownStatus, Statuses, Phases

(* A measured evaluation yields a well-formed status.                      *)
LEMMA MeasuredStatusType ==
  ASSUME NEW object \in Objects, NEW tokens \in Nat, NEW cost \in Nat
  PROVE  MeasuredStatus(object, tokens, cost) \in Statuses
<1>1. object.spec.budget \in Nat /\ object.spec.limit \in Int /\ object.gen \in Nat
  BY ControllerAssumption DEF Objects
<1>2. RoundTokens(tokens) \in Nat /\ FormatUSD(cost) \in Nat
  BY RoundingType
<1>3. TokenBudgetRemainingPct(tokens, object.spec.budget) \in 0..100
  <2>1. RoundTokens(tokens) \in Int /\ object.spec.budget \in Int
    BY <1>1, <1>2
  <2> HIDE DEF RoundTokens, RemainingPct
  <2>2. RemainingPct(RoundTokens(tokens), object.spec.budget) \in 0..100
    BY <2>1, RemainingPctType
  <2> QED
    BY <2>2 DEF TokenBudgetRemainingPct
<1>4. CostBudgetRemainingPct(cost, object.spec.limit) \in 0..100
  <2> DEFINE full == CentUnit * object.spec.limit
  <2>1. full \in Int /\ cost \in Int
    BY <1>1 DEF CentUnit
  <2> HIDE DEF full
  <2>2. RemainingPct(cost, full) \in 0..100
    BY <2>1, RemainingPctType
  <2> QED
    BY <2>2 DEF CostBudgetRemainingPct, full
<1>5. ComputePhase(object.spec, tokens, cost) \in Phases
  BY ComputePhaseType DEF Phases
<1>6. [gen |-> object.gen, spec |-> "True", prom |-> "True"] \in Conditions
  BY <1>1 DEF Conditions
<1>7. FormatUSD(cost) \in Int
  BY <1>2
<1> QED
  BY <1>2, <1>3, <1>4, <1>5, <1>6, <1>7, StatusType, Zenon DEF MeasuredStatus

(* A merge patch leaves a well-formed status, from whatever base.          *)
LEMMA MergeType ==
  ASSUME NEW server \in Statuses, NEW base \in Statuses, NEW new \in Statuses
  PROVE  Merge(server, base, new) \in Statuses
BY DEF Merge, Statuses

(* A merge patch onto the status it was computed from stores the new one.  *)
LEMMA MergeOntoBase ==
  ASSUME NEW base \in Statuses, NEW new \in Statuses
  PROVE  Merge(base, base, new) = new
BY DEF Merge, Statuses

(* updateTIQMetrics sets gauges within their ranges.                       *)
LEMMA UpdatedGaugesType ==
  ASSUME NEW old \in Gauges \cup {None}, NEW object \in Objects
  PROVE  UpdatedGauges(old, object) \in Gauges
<1>1. object.status \in Statuses /\ object.spec.limit \in Int
  BY ControllerAssumption DEF Objects
<1> QED
  BY <1>1, GaugeTypes DEF UpdatedGauges, Gauges

-----------------------------------------------------------------------------
(* What the worker holds in each stage of Reconcile.                       *)
LEMMA WorkerStages ==
  ASSUME TypeOK
  PROVE  /\ worker.pc = "tokens" => worker.base \in Objects
         /\ worker.pc = "cost"   => /\ worker.base \in Objects
                                    /\ worker.tokens \in Nat
                                    /\ worker.failed \in BOOLEAN
         /\ worker.pc = "patch"  => /\ worker.base \in Objects
                                    /\ worker.status \in Statuses
         /\ worker.pc = "export" => worker.object \in Objects
<1>1. worker \in Workers
  BY DEF TypeOK
<1> QED
  BY <1>1 DEF Workers, Idle

(* The object the server stores for a patch is well-formed.                *)
LEMMA PatchedType ==
  ASSUME TypeOK, NEW q \in Quotas, worker.pc = "patch", api[q] # None
  PROVE  Patched(q) \in Objects
<1>1. api[q] \in Objects
  BY DEF TypeOK
<1>2. worker.base.status \in Statuses /\ worker.status \in Statuses
  BY WorkerStages DEF Objects
<1>3. Merge(api[q].status, worker.base.status, worker.status) \in Statuses
  BY <1>1, <1>2, MergeType DEF Objects
<1> QED
  BY <1>1, <1>3 DEF Patched, Objects

(* A write leaves well-formed objects in the store and on the watch.       *)
LEMMA StoreType ==
  ASSUME TypeOK, NEW q \in Quotas, NEW version \in Objects \cup {None},
         Store(q, version)
  PROVE  /\ api'   \in [Quotas -> Objects \cup {None}]
         /\ watch' \in [Quotas -> Seq(Objects \cup {None})]
<1>1. Append(watch[q], version) \in Seq(Objects \cup {None})
  BY DEF TypeOK
<1> QED
  BY <1>1 DEF TypeOK, Store

(* So does the patch of a reconcile, accepted or without effect.           *)
LEMMA ServerAppliesPatchType ==
  ASSUME TypeOK, NEW q \in Quotas, ServerAppliesPatch(q)
  PROVE  /\ api'   \in [Quotas -> Objects \cup {None}]
         /\ watch' \in [Quotas -> Seq(Objects \cup {None})]
         /\ cache' = cache
<1>1. Patched(q) \in Objects
  BY PatchedType DEF ServerAppliesPatch
<1>2. CASE Store(q, Patched(q))
  BY <1>1, <1>2, StoreType DEF ServerAppliesPatch
<1>3. CASE UNCHANGED <<api, watch>>
  BY <1>3 DEF ServerAppliesPatch, TypeOK
<1> QED
  BY <1>2, <1>3 DEF ServerAppliesPatch

(* An event recorded for a phase change is well-formed.                    *)
LEMMA EmitEventsType ==
  ASSUME TypeOK, NEW q \in Quotas, NEW base \in Objects, NEW cur \in Phases,
         EmitEvents(q, base, cur)
  PROVE  events' \in [Quotas -> Events \cup {None}]
BY DEF TypeOK, EmitEvents, Events, Objects, Statuses

-----------------------------------------------------------------------------
(* Type correctness.                                                       *)

(* The initial state is well-typed.                                        *)
LEMMA InitType == Init => TypeOK
BY ControllerAssumption DEF Init, TypeOK, QueueStates, Workers

(* A stuttering step keeps types.                                          *)
LEMMA StutterType == TypeOK /\ UNCHANGED vars => TypeOK'
BY DEF TypeOK, vars, apiVars, controllerVars, envVars

(* The informer and the timers keep types.                                 *)
LEMMA DeliverType == ASSUME TypeOK, NEW q \in Quotas, Deliver(q) PROVE TypeOK'
<1>1. watch[q] \in Seq(Objects \cup {None}) /\ watch[q] # <<>>
  BY DEF TypeOK, Deliver
<1>2. Head(watch[q]) \in Objects \cup {None} /\ Tail(watch[q]) \in Seq(Objects \cup {None})
  BY <1>1
<1> QED
  BY <1>2 DEF TypeOK, Deliver, QueueStates, envVars

(* A timer of the work queue keeps types.                                  *)
LEMMA TimerFiresType == ASSUME TypeOK, NEW q \in Quotas, TimerFires(q) PROVE TypeOK'
BY DEF TypeOK, TimerFires, QueueStates, apiVars, envVars

(* So does every stage of Reconcile.                                       *)
LEMMA StartReconcileType ==
  ASSUME TypeOK, NEW q \in Quotas, StartReconcile(q) PROVE TypeOK'
<1>1. cache[q] \in Objects \cup {None}
  BY DEF TypeOK
<1>2. queue' \in [Quotas -> QueueStates]
  BY DEF StartReconcile, ReconcileDeleted, ReconcileInvalidSpec, ReconcileValidSpec,
         TakeKey, TypeOK, QueueStates
<1>3. UNCHANGED <<api, watch, cache, usage, prom, disturbances>>
  BY DEF StartReconcile, ReconcileDeleted, ReconcileInvalidSpec, ReconcileValidSpec,
         TakeKey, apiVars, envVars
<1>4. CASE ReconcileDeleted(q)
  BY <1>2, <1>3, <1>4 DEF ReconcileDeleted, TypeOK
<1>5. CASE ReconcileInvalidSpec(q)
  <2>1. UnknownStatus(cache[q], PlainZero, "False", "Unknown") \in Statuses
    BY <1>1, <1>5, UnknownStatusType DEF ReconcileInvalidSpec, PlainZero
  <2>2. worker' \in Workers
    BY <1>1, <1>5, <2>1 DEF ReconcileInvalidSpec, Workers
  <2>3. events' \in [Quotas -> Events \cup {None}]
    BY <1>1, <1>5, EmitEventsType DEF ReconcileInvalidSpec, Phases
  <2> QED
    BY <1>2, <1>3, <1>5, <2>2, <2>3 DEF ReconcileInvalidSpec, TypeOK
<1>6. CASE ReconcileValidSpec(q)
  <2>1. worker' \in Workers
    BY <1>1, <1>6 DEF ReconcileValidSpec, Workers
  <2> QED
    BY <1>2, <1>3, <1>6, <2>1 DEF ReconcileValidSpec, TypeOK
<1> QED
  BY <1>4, <1>5, <1>6 DEF StartReconcile

(* The token query keeps types.                                            *)
LEMMA QueryTokensType == ASSUME TypeOK, NEW q \in Quotas, QueryTokens(q) PROVE TypeOK'
<1>1. worker.base \in Objects
  BY WorkerStages DEF QueryTokens
<1>2. usage[q].tokens \in Nat
  BY ControllerAssumption DEF TypeOK
<1>3. worker' \in Workers
  BY <1>1, <1>2 DEF QueryTokens, Workers
<1> QED
  BY <1>3 DEF QueryTokens, TypeOK, apiVars, envVars

(* The cost query and the status computed from it keep types.              *)
LEMMA QueryCostType == ASSUME TypeOK, NEW q \in Quotas, QueryCost(q) PROVE TypeOK'
<1> DEFINE failed == worker.failed \/ prom = "down"
           status == IF failed
                     THEN UnknownStatus(worker.base, FormatUSD(0), "True", "False")
                     ELSE MeasuredStatus(worker.base, worker.tokens, usage[q].cost)
<1>1. worker.base \in Objects /\ worker.tokens \in Nat
  BY WorkerStages DEF QueryCost
<1>2. usage[q].cost \in Nat
  BY ControllerAssumption DEF TypeOK
<1>3. UnknownStatus(worker.base, FormatUSD(0), "True", "False") \in Statuses
  BY <1>1, RoundingType, UnknownStatusType
<1>4. status \in Statuses
  BY <1>1, <1>2, <1>3, MeasuredStatusType
<1>5. status.phase \in Phases
  <2>1. CASE failed
    BY <2>1 DEF UnknownStatus, Phases
  <2>2. CASE ~failed
    BY <2>2, ComputePhaseType DEF MeasuredStatus, Phases
  <2> QED
    BY <2>1, <2>2
<1>6. worker' = [pc |-> "patch", key |-> q, base |-> worker.base, status |-> status]
      /\ EmitEvents(q, worker.base, status.phase)
  BY DEF QueryCost
<1> HIDE DEF status
<1>7. worker' \in Workers
  BY <1>1, <1>4, <1>6 DEF Workers
<1>8. events' \in [Quotas -> Events \cup {None}]
  BY <1>1, <1>5, <1>6, EmitEventsType
<1> QED
  BY <1>7, <1>8 DEF QueryCost, TypeOK, apiVars, envVars

(* The status patch keeps types.                                           *)
LEMMA PatchStatusType == ASSUME TypeOK, NEW q \in Quotas, PatchStatus(q) PROVE TypeOK'
<1>1. ServerAppliesPatch(q)
  BY DEF PatchStatus
<1>2. Patched(q) \in Objects
  BY <1>1, PatchedType DEF ServerAppliesPatch
<1>3. worker' \in Workers
  BY <1>2 DEF PatchStatus, Workers
<1> QED
  BY <1>1, <1>3, ServerAppliesPatchType DEF PatchStatus, TypeOK, envVars

(* A reconcile that ends in an error keeps the queue and worker typed.     *)
LEMMA ReturnErrorType ==
  ASSUME TypeOK, NEW q \in Quotas, ReturnError(q)
  PROVE  /\ queue' \in [Quotas -> QueueStates]
         /\ worker' \in Workers
         /\ UNCHANGED <<series, events, usage, prom>>
BY DEF ReturnError, AddAfter, TypeOK, QueueStates, Workers, envVars

(* A patch of an object that is gone keeps types.                          *)
LEMMA PatchNotFoundType == ASSUME TypeOK, NEW q \in Quotas, PatchNotFound(q) PROVE TypeOK'
BY ReturnErrorType DEF PatchNotFound, TypeOK, apiVars

(* Exporting the gauges keeps types.                                       *)
LEMMA ExportGaugesType == ASSUME TypeOK, NEW q \in Quotas, ExportGauges(q) PROVE TypeOK'
<1>1. UpdatedGauges(series[q], worker.object) \in Gauges
  BY WorkerStages, UpdatedGaugesType DEF ExportGauges, TypeOK
<1>2. series' \in [Quotas -> Gauges \cup {None}]
  BY <1>1 DEF ExportGauges, TypeOK
<1>3. queue' \in [Quotas -> QueueStates]
  BY DEF ExportGauges, AddAfter, TypeOK, QueueStates
<1> QED
  BY <1>2, <1>3 DEF ExportGauges, TypeOK, Workers, apiVars, envVars

(* And so do users, the metrics backend and faults.                        *)
LEMMA DisturbType == ASSUME TypeOK, Disturb PROVE disturbances' \in 0..MaxDisturbances
BY ControllerAssumption DEF TypeOK, Disturb

(* A user's edit keeps types.                                              *)
LEMMA ApplySpecType ==
  ASSUME TypeOK, NEW q \in Quotas, NEW spec \in Specs, ApplySpec(q, spec) PROVE TypeOK'
<1>1. api' \in [Quotas -> Objects \cup {None}] /\ watch' \in [Quotas -> Seq(Objects \cup {None})]
  <2>1. CASE api[q] = None
    <3>1. [spec |-> spec, gen |-> 1, status |-> NoStatus] \in Objects
      BY NoStatusType DEF Objects
    <3> QED
      BY <2>1, <3>1, StoreType DEF ApplySpec
  <2>2. CASE api[q] # None
    <3>1. api[q] \in Objects /\ api[q].gen + 1 \in Nat
      BY <2>2 DEF TypeOK, Objects
    <3>2. [api[q] EXCEPT !.spec = spec, !.gen = @ + 1] \in Objects
      BY <3>1 DEF Objects
    <3> QED
      BY <2>2, <3>2, StoreType DEF ApplySpec
  <2> QED
    BY <2>1, <2>2
<1> QED
  BY <1>1, DisturbType DEF ApplySpec, TypeOK, controllerVars, envVars

(* A user's deletion keeps types.                                          *)
LEMMA DeleteType == ASSUME TypeOK, NEW q \in Quotas, Delete(q) PROVE TypeOK'
<1>1. api' \in [Quotas -> Objects \cup {None}] /\ watch' \in [Quotas -> Seq(Objects \cup {None})]
  BY StoreType DEF Delete
<1> QED
  BY <1>1, DisturbType DEF Delete, TypeOK, controllerVars, envVars

(* A failed patch, applied or not, keeps types.                            *)
LEMMA PatchFailsType == ASSUME TypeOK, NEW q \in Quotas, PatchFails(q) PROVE TypeOK'
<1>1. /\ api' \in [Quotas -> Objects \cup {None}]
      /\ watch' \in [Quotas -> Seq(Objects \cup {None})]
      /\ cache' = cache
  BY ServerAppliesPatchType DEF PatchFails, TypeOK, apiVars
<1> QED
  BY <1>1, ReturnErrorType, DisturbType DEF PatchFails, TypeOK

(* So do all steps of the environment.                                     *)
LEMMA EnvironmentType == ASSUME TypeOK, Environment PROVE TypeOK'
<1>1. CASE \E q \in Quotas : \E u \in Usages : ChangeUsage(q, u)
  BY <1>1, DisturbType DEF ChangeUsage, TypeOK, apiVars, controllerVars
<1>2. CASE \E p \in {"up", "down", "hung"} : ChangeProm(p)
  BY <1>2, DisturbType DEF ChangeProm, TypeOK, apiVars, controllerVars
<1>3. CASE Restart
  <2>1. watch' \in [Quotas -> Seq(Objects \cup {None})]
    BY <1>3 DEF Restart
  <2>2. queue' \in [Quotas -> QueueStates]
    BY <1>3 DEF Restart, QueueStates
  <2> QED
    BY <1>3, <2>1, <2>2, DisturbType DEF Restart, TypeOK, Workers, envVars
<1> QED
  BY <1>1, <1>2, <1>3, ApplySpecType, DeleteType, PatchFailsType DEF Environment

(* Every step keeps types.                                                 *)
LEMMA NextType == TypeOK /\ [Next]_vars => TypeOK'
BY StutterType, DeliverType, TimerFiresType, StartReconcileType, QueryTokensType,
   QueryCostType, PatchStatusType, PatchNotFoundType, ExportGaugesType, EnvironmentType
DEF Next, ReconcileStep

(* Every variable keeps its type: in particular, stored percentages stay   *)
(* percentages and gauges stay in range, whatever patches are merged.      *)
THEOREM TypeCorrect == Spec => []TypeOK
BY InitType, NextType, PTL DEF Spec

-----------------------------------------------------------------------------
(* The work queue never loses a key.                                       *)

(* A scheduled quota stays scheduled, except that the reconcile of a       *)
(* deleted quota and a restart may drop it.                                *)
LEMMA StaysScheduled ==
  ASSUME TypeOK, [Next]_vars, NEW q \in Quotas, Scheduled(q)
  PROVE  Scheduled(q)' \/ ReconcileDeleted(q) \/ Restart
<1> USE DEF Scheduled, InProgress, TypeOK
<1>1. CASE UNCHANGED vars
  BY <1>1 DEF vars, controllerVars
<1>2. ASSUME NEW p \in Quotas, Deliver(p) \/ TimerFires(p) PROVE Scheduled(q)'
  BY <1>2 DEF Deliver, TimerFires
<1>3. ASSUME NEW p \in Quotas, StartReconcile(p), ~ReconcileDeleted(q)
      PROVE  Scheduled(q)'
  <2>1. worker = Idle /\ queue' = [queue EXCEPT ![p] = "none"]
    BY <1>3 DEF StartReconcile, ReconcileDeleted, ReconcileInvalidSpec, ReconcileValidSpec,
                TakeKey
  <2>2. CASE p = q
    BY <1>3, <2>2 DEF StartReconcile, ReconcileInvalidSpec, ReconcileValidSpec
  <2>3. CASE p # q
    BY <2>1, <2>3 DEF Idle
  <2> QED
    BY <2>2, <2>3
<1>4. ASSUME NEW p \in Quotas, QueryTokens(p) \/ QueryCost(p) \/ PatchStatus(p)
      PROVE  Scheduled(q)'
  BY <1>4 DEF QueryTokens, QueryCost, PatchStatus, ServerAppliesPatch
<1>5. ASSUME NEW p \in Quotas, ReturnError(p) \/ ExportGauges(p)
      PROVE  Scheduled(q)'
  BY <1>5 DEF ReturnError, ExportGauges, AddAfter, Idle
<1>6. ASSUME Environment, ~Restart
      PROVE  Scheduled(q)'
  <2>1. (\E p \in Quotas : ReturnError(p)) \/ UNCHANGED <<queue, worker>>
    BY <1>6 DEF Environment, ApplySpec, ChangeUsage, Delete, PatchFails, ChangeProm,
                controllerVars
  <2> QED
    BY <1>5, <2>1
<1> QED
  BY <1>1, <1>2, <1>3, <1>4, <1>5, <1>6 DEF Next, ReconcileStep, PatchNotFound

(* The cache of a quota changes only when an event of it is delivered,     *)
(* which enqueues its key, or at a restart.                                *)
LEMMA CacheChanges ==
  ASSUME TypeOK, [Next]_vars, NEW q \in Quotas, ~Restart
  PROVE  cache'[q] = cache[q] \/ Scheduled(q)'
<1>1. ASSUME NEW p \in Quotas, Deliver(p) PROVE cache'[q] = cache[q] \/ Scheduled(q)'
  BY <1>1 DEF Deliver, TypeOK, Scheduled
<1>2. ASSUME NEW p \in Quotas, StartReconcile(p) \/ TimerFires(p) PROVE cache' = cache
  BY <1>2 DEF StartReconcile, ReconcileDeleted, ReconcileInvalidSpec, ReconcileValidSpec,
              TakeKey, TimerFires, apiVars
<1>3. ASSUME NEW p \in Quotas, ReconcileStep(p) PROVE cache' = cache
  BY <1>3 DEF ReconcileStep, QueryTokens, QueryCost, PatchStatus, ServerAppliesPatch,
              PatchNotFound, ExportGauges, apiVars
<1>4. ASSUME Environment PROVE cache' = cache
  BY <1>4 DEF Environment, ApplySpec, ChangeUsage, Delete, PatchFails, ChangeProm,
              ServerAppliesPatch, apiVars
<1> QED
  BY <1>1, <1>2, <1>3, <1>4 DEF Next, vars, apiVars

(* The series of a quota changes only when its reconcile exports, which    *)
(* schedules the next one, when it is dropped, or at a restart.            *)
LEMMA SeriesChanges ==
  ASSUME TypeOK, [Next]_vars, NEW q \in Quotas, ~Restart
  PROVE  series'[q] = series[q] \/ series'[q] = None \/ Scheduled(q)'
<1>1. ASSUME NEW p \in Quotas, StartReconcile(p)
      PROVE  series'[q] = series[q] \/ series'[q] = None
  BY <1>1 DEF StartReconcile, ReconcileDeleted, ReconcileInvalidSpec, ReconcileValidSpec,
              TypeOK
<1>2. ASSUME NEW p \in Quotas, ExportGauges(p)
      PROVE  series'[q] = series[q] \/ Scheduled(q)'
  BY <1>2 DEF ExportGauges, AddAfter, TypeOK, Scheduled
<1>3. ASSUME NEW p \in Quotas, Deliver(p) \/ TimerFires(p) \/ ReconcileStep(p), ~ExportGauges(p)
      PROVE  series' = series
  BY <1>3 DEF Deliver, TimerFires, ReconcileStep, QueryTokens, QueryCost, PatchStatus,
              PatchNotFound, ReturnError
<1>4. ASSUME Environment PROVE series' = series
  BY <1>4 DEF Environment, ApplySpec, ChangeUsage, Delete, PatchFails, ReturnError,
              ChangeProm, controllerVars
<1> QED
  BY <1>1, <1>2, <1>3, <1>4 DEF Next, vars, controllerVars

(* After a restart the cache lists what is enqueued, and there is no       *)
(* series.                                                                 *)
LEMMA RestartForgetsNothing ==
  ASSUME TypeOK, Restart PROVE NeverForgotten' /\ NoOrphanSeries'
BY DEF TypeOK, Restart, NeverForgotten, NoOrphanSeries, Scheduled

(* Whatever is interleaved, lost or refused, a quota in the cache is       *)
(* scheduled for another evaluation.                                       *)
THEOREM NothingForgotten == Spec => []NeverForgotten
<1>1. Init => NeverForgotten
  BY DEF Init, NeverForgotten
<1>2. TypeOK /\ NeverForgotten /\ [Next]_vars => NeverForgotten'
  <2> SUFFICES ASSUME TypeOK, NeverForgotten, [Next]_vars, ~Restart,
                      NEW q \in Quotas, cache'[q] # None
               PROVE  Scheduled(q)'
    BY RestartForgetsNothing DEF NeverForgotten
  <2>1. CASE cache'[q] = cache[q]
    <3>1. Scheduled(q)
      BY <2>1 DEF NeverForgotten
    <3>2. ~ReconcileDeleted(q)
      BY <2>1 DEF ReconcileDeleted
    <3> QED
      BY <3>1, <3>2, StaysScheduled
  <2> QED
    BY <2>1, CacheChanges
<1> QED
  BY <1>1, <1>2, TypeCorrect, PTL DEF Spec

(* Whatever overtakes a deletion, the gauges of a deleted quota are        *)
(* dropped or about to be.                                                 *)
THEOREM OrphansAreCollected == Spec => []NoOrphanSeries
<1>1. Init => NoOrphanSeries
  BY DEF Init, NoOrphanSeries
<1>2. TypeOK /\ NoOrphanSeries /\ [Next]_vars => NoOrphanSeries'
  <2> SUFFICES ASSUME TypeOK, NoOrphanSeries, [Next]_vars, ~Restart,
                      NEW q \in Quotas, cache'[q] = None, series'[q] # None
               PROVE  Scheduled(q)'
    BY RestartForgetsNothing DEF NoOrphanSeries
  <2>1. CASE cache'[q] = cache[q] /\ series'[q] = series[q]
    <3>1. Scheduled(q)
      BY <2>1 DEF NoOrphanSeries
    <3>2. ~ReconcileDeleted(q)
      BY DEF ReconcileDeleted, TypeOK
    <3> QED
      BY <3>1, <3>2, StaysScheduled
  <2> QED
    BY <2>1, CacheChanges, SeriesChanges
<1> QED
  BY <1>1, <1>2, TypeCorrect, PTL DEF Spec

-----------------------------------------------------------------------------
(* Gauges and stored status.                                               *)

(* A write of another quota, or one whose event is still under way.        *)
LEMMA StoreMarks ==
  ASSUME TypeOK, NEW p \in Quotas, NEW version \in Objects \cup {None}, Store(p, version),
         NEW q \in Quotas
  PROVE  (api'[q] = api[q] /\ watch'[q] = watch[q]) \/ watch'[q] # <<>>
<1>1. watch[p] \in Seq(Objects \cup {None})
  BY DEF TypeOK
<1>2. Append(watch[p], version) # <<>>
  BY <1>1
<1> QED
  BY <1>2 DEF Store, TypeOK

(* The stored object of a quota changes only together with its watch.      *)
LEMMA WritesAreWatched ==
  ASSUME TypeOK, [Next]_vars, NEW q \in Quotas, ~Deliver(q), ~Restart
  PROVE  (api'[q] = api[q] /\ watch'[q] = watch[q]) \/ watch'[q] # <<>>
<1> DEFINE Marked == (api'[q] = api[q] /\ watch'[q] = watch[q]) \/ watch'[q] # <<>>
<1>1. ASSUME NEW p \in Quotas, Deliver(p) PROVE Marked
  BY <1>1 DEF Deliver, TypeOK
<1>2. ASSUME NEW p \in Quotas, StartReconcile(p) \/ TimerFires(p) PROVE Marked
  BY <1>2 DEF StartReconcile, ReconcileDeleted, ReconcileInvalidSpec, ReconcileValidSpec,
              TakeKey, TimerFires, apiVars
<1>3. ASSUME NEW p \in Quotas, ServerAppliesPatch(p) PROVE Marked
  <2>1. Patched(p) \in Objects
    BY <1>3, PatchedType DEF ServerAppliesPatch
  <2> QED
    BY <1>3, <2>1, StoreMarks DEF ServerAppliesPatch
<1>4. ASSUME NEW p \in Quotas, ReconcileStep(p) PROVE Marked
  BY <1>3, <1>4 DEF ReconcileStep, QueryTokens, QueryCost, PatchStatus, PatchNotFound,
                    ExportGauges, apiVars
<1>5. ASSUME NEW p \in Quotas, NEW spec \in Specs, ApplySpec(p, spec) PROVE Marked
  <2>1. \E version \in Objects \cup {None} : Store(p, version)
    <3>1. CASE api[p] = None
      <4>1. [spec |-> spec, gen |-> 1, status |-> NoStatus] \in Objects
        BY NoStatusType DEF Objects
      <4> QED
        BY <1>5, <3>1, <4>1 DEF ApplySpec
    <3>2. CASE api[p] # None
      <4>1. api[p] \in Objects /\ api[p].gen + 1 \in Nat
        BY <3>2 DEF TypeOK, Objects
      <4>2. [api[p] EXCEPT !.spec = spec, !.gen = @ + 1] \in Objects
        BY <4>1 DEF Objects
      <4> QED
        BY <1>5, <3>2, <4>2 DEF ApplySpec
    <3> QED
      BY <3>1, <3>2
  <2> QED
    BY <2>1, StoreMarks
<1>6. ASSUME NEW p \in Quotas, Delete(p) PROVE Marked
  BY <1>6, StoreMarks DEF Delete
<1>7. ASSUME NEW p \in Quotas, PatchFails(p) PROVE Marked
  BY <1>3, <1>7 DEF PatchFails, apiVars
<1>8. ASSUME Environment PROVE Marked
  <2>1. (\E p \in Quotas : \E u \in Usages : ChangeUsage(p, u))
        \/ (\E p \in {"up", "down", "hung"} : ChangeProm(p))
        => UNCHANGED <<api, watch>>
    BY DEF ChangeUsage, ChangeProm, apiVars
  <2> QED
    BY <1>5, <1>6, <1>7, <1>8, <2>1 DEF Environment
<1> QED
  BY <1>1, <1>2, <1>4, <1>8 DEF Next, vars, apiVars

(* An evaluation enters its last stage only with the server's answer.      *)
LEMMA ExportStageEntry ==
  ASSUME TypeOK, [Next]_vars, NEW q \in Quotas, worker'.pc = "export", worker'.key = q
  PROVE  PatchStatus(q) \/ worker' = worker
<1>1. ASSUME NEW p \in Quotas, StartReconcile(p) PROVE FALSE
  BY <1>1 DEF StartReconcile, ReconcileDeleted, ReconcileInvalidSpec, ReconcileValidSpec,
              TakeKey, Idle
<1>2. ASSUME NEW p \in Quotas, Deliver(p) \/ TimerFires(p) PROVE worker' = worker
  BY <1>2 DEF Deliver, TimerFires
<1>3. ASSUME NEW p \in Quotas, ReconcileStep(p) PROVE PatchStatus(q)
  BY <1>3 DEF ReconcileStep, QueryTokens, QueryCost, PatchStatus, PatchNotFound,
              ReturnError, ExportGauges, Idle
<1>4. ASSUME Environment PROVE worker' = worker
  <2>1. worker' = worker \/ worker' = Idle
    BY <1>4 DEF Environment, ApplySpec, ChangeUsage, Delete, PatchFails, ReturnError,
                ChangeProm, Restart, controllerVars
  <2> QED
    BY <2>1 DEF Idle
<1> QED
  BY <1>1, <1>2, <1>3, <1>4 DEF Next, vars, controllerVars

(* A key stops being ready only when the worker takes it or at a restart.  *)
LEMMA ReadyStays ==
  ASSUME TypeOK, [Next]_vars, NEW q \in Quotas, queue[q] = "ready"
  PROVE  queue'[q] = "ready" \/ worker = Idle \/ worker' = Idle
<1>1. ASSUME NEW p \in Quotas, StartReconcile(p) PROVE worker = Idle
  BY <1>1 DEF StartReconcile, ReconcileDeleted, ReconcileInvalidSpec, ReconcileValidSpec,
              TakeKey
<1>2. ASSUME NEW p \in Quotas, Deliver(p) \/ TimerFires(p) PROVE queue'[q] = "ready"
  BY <1>2 DEF Deliver, TimerFires, TypeOK
<1>3. ASSUME NEW p \in Quotas, ReconcileStep(p)
      PROVE queue'[q] = "ready" \/ worker' = Idle
  BY <1>3 DEF ReconcileStep, QueryTokens, QueryCost, PatchStatus, PatchNotFound,
              ReturnError, ExportGauges
<1>4. ASSUME Environment PROVE queue'[q] = "ready" \/ worker' = Idle
  BY <1>4 DEF Environment, ApplySpec, ChangeUsage, Delete, PatchFails, ReturnError,
              ChangeProm, Restart, controllerVars
<1> QED
  BY <1>1, <1>2, <1>3, <1>4 DEF Next, vars, controllerVars

(* What is exported is what is stored, or another evaluation is certain.   *)
THEOREM ExportsAreCurrent == Spec => []ExportIsCurrent
<1>1. Init => ExportIsCurrent
  BY DEF Init, ExportIsCurrent, Idle
<1>2. TypeOK /\ ExportIsCurrent /\ [Next]_vars => ExportIsCurrent'
  <2> SUFFICES ASSUME TypeOK, ExportIsCurrent, [Next]_vars, NEW q \in Quotas,
                      worker'.pc = "export", worker'.key = q, queue'[q] # "ready",
                      watch'[q] = <<>>, api'[q] # None
               PROVE  worker'.object.status = api'[q].status
    BY DEF ExportIsCurrent
  <2>1. ~Deliver(q) /\ ~Restart
    BY DEF Deliver, Restart, TypeOK, Idle
  <2>2. api'[q] = api[q] /\ watch'[q] = watch[q]
    BY <2>1, WritesAreWatched
  <2>3. CASE PatchStatus(q)
    <3>1. api[q] = Patched(q)
      BY <2>2, <2>3, PatchedType DEF PatchStatus, ServerAppliesPatch, Store, TypeOK
    <3> QED
      BY <2>2, <2>3, <3>1 DEF PatchStatus
  <2>4. CASE worker' = worker
    <3>1. worker # Idle /\ worker' # Idle
      BY <2>4 DEF Idle
    <3>2. queue[q] # "ready"
      BY <3>1, ReadyStays
    <3> QED
      BY <2>2, <2>4, <3>2 DEF ExportIsCurrent
  <2> QED
    BY <2>3, <2>4, ExportStageEntry
<1> QED
  BY <1>1, <1>2, TypeCorrect, PTL DEF Spec

(* Only a finished evaluation puts a key to rest; every other step that    *)
(* leaves it at rest found it at rest and does not touch its gauges.       *)
LEMMA RestingStays ==
  ASSUME TypeOK, [Next]_vars, NEW q \in Quotas, queue'[q] = "delayed",
         ~ExportGauges(q), ~Restart
  PROVE  /\ queue[q] = "delayed"
         /\ series'[q] = series[q]
         /\ InProgress(q) => InProgress(q)'
<1> DEFINE Still == /\ queue[q] = "delayed"
                    /\ series'[q] = series[q]
                    /\ InProgress(q) => InProgress(q)'
<1>1. ASSUME NEW p \in Quotas, StartReconcile(p) PROVE Still
  <2>1. worker = Idle /\ queue' = [queue EXCEPT ![p] = "none"]
        /\ (series' = series \/ series' = [series EXCEPT ![p] = None])
    BY <1>1 DEF StartReconcile, ReconcileDeleted, ReconcileInvalidSpec,
                ReconcileValidSpec, TakeKey
  <2>2. p # q
    BY <2>1 DEF TypeOK
  <2> QED
    BY <2>1, <2>2 DEF TypeOK, InProgress, Idle
<1>2. ASSUME NEW p \in Quotas, Deliver(p) \/ TimerFires(p) PROVE Still
  BY <1>2 DEF Deliver, TimerFires, TypeOK, InProgress
<1>3. ASSUME NEW p \in Quotas, QueryTokens(p) \/ QueryCost(p) \/ PatchStatus(p) PROVE Still
  BY <1>3 DEF QueryTokens, QueryCost, PatchStatus, ServerAppliesPatch, InProgress
<1>4. ASSUME NEW p \in Quotas, ReturnError(p) PROVE Still
  <2>1. p # q
    BY <1>4 DEF ReturnError, AddAfter, TypeOK
  <2> QED
    BY <1>4, <2>1 DEF ReturnError, AddAfter, TypeOK, InProgress
<1>5. ASSUME NEW p \in Quotas, ExportGauges(p) PROVE Still
  BY <1>5 DEF ExportGauges, AddAfter, TypeOK, InProgress
<1>6. ASSUME Environment PROVE Still
  <2>1. (\E p \in Quotas : ReturnError(p)) \/ UNCHANGED controllerVars
    BY <1>6 DEF Environment, ApplySpec, ChangeUsage, Delete, PatchFails, ChangeProm
  <2> QED
    BY <1>4, <2>1 DEF controllerVars, InProgress
<1> QED
  BY <1>1, <1>2, <1>3, <1>4, <1>5, <1>6
  DEF Next, ReconcileStep, PatchNotFound, vars, controllerVars, InProgress

(* Between evaluations the gauges say what the stored status says.         *)
THEOREM GaugesAgree == Spec => []GaugesMirrorStatus
<1>1. Init => GaugesMirrorStatus
  BY DEF Init, GaugesMirrorStatus, AtRest
<1>2. TypeOK /\ ExportIsCurrent /\ GaugesMirrorStatus /\ [Next]_vars => GaugesMirrorStatus'
  <2> SUFFICES ASSUME TypeOK, ExportIsCurrent, GaugesMirrorStatus, [Next]_vars,
                      NEW q \in Quotas, AtRest(q)', api'[q] # None
               PROVE  /\ series'[q] # None
                      /\ series'[q].phase = PhaseToFloat(api'[q].status.phase)
                      /\ series'[q].cost = ParseCostUsedUSD(api'[q].status.cost)
                      /\ series'[q].usedPct = GaugeUsedPct(api'[q].status)
    BY DEF GaugesMirrorStatus
  <2>1. queue'[q] = "delayed" /\ ~InProgress(q)' /\ watch'[q] = <<>>
    BY DEF AtRest
  <2>2. ~Deliver(q) /\ ~Restart
    BY <2>1 DEF Deliver, Restart, TypeOK
  <2>3. api'[q] = api[q] /\ watch[q] = <<>>
    BY <2>1, <2>2, WritesAreWatched
  <2>4. CASE ExportGauges(q)
    <3>1. queue[q] # "ready"
      BY <2>1, <2>4 DEF ExportGauges, AddAfter, TypeOK
    <3>2. worker.object.status = api[q].status
      BY <2>3, <2>4, <3>1 DEF ExportGauges, ExportIsCurrent
    <3>3. series'[q] = UpdatedGauges(series[q], worker.object)
      BY <2>4 DEF ExportGauges, TypeOK
    <3>4. series'[q] # None
      <4>1. worker.object \in Objects /\ series[q] \in Gauges \cup {None}
        BY <2>4, WorkerStages DEF ExportGauges, TypeOK
      <4>2. UpdatedGauges(series[q], worker.object) \in Gauges
        BY <4>1, UpdatedGaugesType
      <4> QED
        BY <3>3, <4>2, ControllerAssumption
    <3> QED
      BY <2>3, <3>2, <3>3, <3>4 DEF UpdatedGauges
  <2>5. CASE ~ExportGauges(q)
    <3>1. AtRest(q) /\ series'[q] = series[q]
      BY <2>1, <2>2, <2>3, <2>5, RestingStays DEF AtRest
    <3> QED
      BY <2>3, <3>1 DEF GaugesMirrorStatus
  <2> QED
    BY <2>4, <2>5
<1> QED
  BY <1>1, <1>2, TypeCorrect, ExportsAreCurrent, PTL DEF Spec

(* A patch onto the status it was computed from stores the computed status.*)
THEOREM FreshPatchesAreExact == Spec => FreshPatchIsExact
<1>1. ASSUME TypeOK, NEW q \in Quotas, PatchStatus(q), worker.base.status = api[q].status
      PROVE  api'[q].status = worker.status
  <2>1. api[q] \in Objects /\ worker.status \in Statuses
    BY <1>1, WorkerStages DEF PatchStatus, ServerAppliesPatch, TypeOK
  <2>2. Patched(q).status = worker.status
    BY <1>1, <2>1, MergeOntoBase DEF Patched, Objects
  <2>3. api'[q] = Patched(q)
    BY <1>1 DEF PatchStatus, ServerAppliesPatch, Store, TypeOK
  <2> QED
    BY <2>2, <2>3
<1>2. TypeOK /\ [Next]_vars =>
        [\A q \in Quotas : PatchStatus(q) /\ worker.base.status = api[q].status
           => api'[q].status = worker.status]_vars
  BY <1>1
<1> QED
  BY <1>2, TypeCorrect, PTL DEF Spec, FreshPatchIsExact

-----------------------------------------------------------------------------
(* Announcements of phases.                                                *)

(* The cost query ends with a proper phase.                                *)
LEMMA QueryCostPhase ==
  ASSUME TypeOK, NEW q \in Quotas, QueryCost(q) PROVE worker'.status.phase \in Phases
<1>1. worker'.status.phase \in {"Unknown"} \/
      \E tokens, cost : worker'.status = MeasuredStatus(worker.base, tokens, cost)
  BY DEF QueryCost, UnknownStatus
<1>2. ASSUME NEW tokens, NEW cost
      PROVE  MeasuredStatus(worker.base, tokens, cost).phase \in Phases
  BY ComputePhaseType DEF MeasuredStatus, Phases
<1> QED
  BY <1>1, <1>2 DEF Phases

(* Every write but a status patch leaves the status of an object that      *)
(* stays as it was.                                                        *)
LEMMA OtherWritesKeepStatus ==
  ASSUME TypeOK, [Next]_vars, NEW q \in Quotas, ~ServerAppliesPatch(q),
         api[q] # None, api'[q] # None
  PROVE  api'[q].status.phase = api[q].status.phase
<1>1. ASSUME NEW p \in Quotas, NEW version, Store(p, version), p # q
      PROVE  api'[q] = api[q]
  BY <1>1 DEF Store, TypeOK
<1>2. ASSUME NEW p \in Quotas, ServerAppliesPatch(p) PROVE api'[q] = api[q]
  BY <1>1, <1>2 DEF ServerAppliesPatch
<1>3. ASSUME NEW p \in Quotas, NEW spec \in Specs, ApplySpec(p, spec)
      PROVE  api'[q].status.phase = api[q].status.phase
  <2>1. CASE p = q
    <3>1. api'[q] = [api[q] EXCEPT !.spec = spec, !.gen = @ + 1]
      BY <1>3, <2>1 DEF ApplySpec, Store, TypeOK
    <3>2. api[q] \in Objects
      BY DEF TypeOK
    <3> QED
      BY <3>1, <3>2 DEF Objects
  <2>2. CASE p # q
    BY <1>1, <1>3, <2>2 DEF ApplySpec
  <2> QED
    BY <2>1, <2>2
<1>4. ASSUME NEW p \in Quotas, Delete(p) PROVE api'[q] = api[q]
  <2>1. p # q
    BY <1>4 DEF Delete, Store, TypeOK
  <2> QED
    BY <1>1, <1>4, <2>1 DEF Delete
<1>5. ASSUME NEW p \in Quotas, PatchFails(p) PROVE api'[q] = api[q]
  BY <1>2, <1>5 DEF PatchFails, apiVars
<1>6. CASE Environment
  BY <1>3, <1>4, <1>5, <1>6 DEF Environment, ChangeUsage, ChangeProm, Restart, apiVars
<1>7. ASSUME NEW p \in Quotas, Deliver(p) \/ TimerFires(p) \/ StartReconcile(p)
      PROVE  api' = api
  BY <1>7 DEF Deliver, TimerFires, StartReconcile, ReconcileDeleted, ReconcileInvalidSpec,
              ReconcileValidSpec, TakeKey, apiVars
<1>8. ASSUME NEW p \in Quotas, ReconcileStep(p) PROVE api'[q] = api[q]
  BY <1>2, <1>8 DEF ReconcileStep, QueryTokens, QueryCost, PatchStatus, PatchNotFound,
                    ExportGauges, apiVars
<1> QED
  BY <1>6, <1>7, <1>8 DEF Next, vars, apiVars

(* The events of an evaluation name the phase it found, unless that is the *)
(* phase it started from or the first one and Active.                      *)
LEMMA EmitAnnounces ==
  ASSUME TypeOK, NEW q \in Quotas, NEW base \in Objects, NEW cur \in Phases,
         EmitEvents(q, base, cur)
  PROVE  \/ cur = base.status.phase
         \/ base.status.phase = "" /\ cur = "Active"
         \/ events'[q] # None /\ events'[q].to = cur
<1> DEFINE audited == base.spec.mode = "Audit" /\ cur \in {"Warning", "Exceeded"}
           event == [from |-> base.status.phase, to |-> cur, audit |-> audited]
<1>1. base.status.phase \in Phases \cup {""}
  BY DEF Objects, Statuses
<1>2. audited \in BOOLEAN
  OBVIOUS
<1>3. event \in Events
  <2> HIDE DEF audited
  <2> QED
    BY <1>1, <1>2 DEF Events
<1>4. event # None
  BY <1>3, ControllerAssumption
<1>5. \/ cur = base.status.phase
      \/ base.status.phase = "" /\ cur = "Active"
      \/ events' = [events EXCEPT ![q] = event]
  <2> DEFINE silent == \/ base.status.phase = cur
                       \/ base.status.phase = "" /\ cur = "Active"
  <2>1. events' = IF silent THEN events ELSE [events EXCEPT ![q] = event]
    BY Zenon DEF EmitEvents
  <2>2. CASE silent
    BY <2>2
  <2>3. CASE ~silent
    <3> HIDE DEF event, silent
    <3> QED
      BY <2>1, <2>3
  <2> QED
    BY <2>2, <2>3
<1>6. events' = [events EXCEPT ![q] = event] => events'[q] = event
  BY DEF TypeOK
<1>7. event.to = cur
  OBVIOUS
<1> HIDE DEF event
<1> QED
  BY <1>4, <1>5, <1>6, <1>7

(* A status on its way to the server has been announced.                   *)
Announced ==
  worker.pc = "patch" =>
    \/ worker.status.phase = worker.base.status.phase
    \/ worker.base.status.phase = "" /\ worker.status.phase = "Active"
    \/ /\ events[worker.key] # None
       /\ events[worker.key].to = worker.status.phase

(* Only the two stages that compute a status lead to the patch, and both   *)
(* announce the phase; while the worker waits to patch no event leaves.    *)
LEMMA AnnouncedKept == TypeOK /\ Announced /\ [Next]_vars => Announced'
<1> SUFFICES ASSUME TypeOK, Announced, [Next]_vars PROVE Announced'
  OBVIOUS
<1>1. ASSUME NEW q \in Quotas, ReconcileInvalidSpec(q) PROVE Announced'
  <2>1. cache[q] \in Objects /\ "Unknown" \in Phases
    BY <1>1 DEF ReconcileInvalidSpec, TypeOK, Phases
  <2>2. \/ "Unknown" = cache[q].status.phase
        \/ events'[q] # None /\ events'[q].to = "Unknown"
    BY <1>1, <2>1, EmitAnnounces DEF ReconcileInvalidSpec
  <2>3. /\ worker'.pc = "patch" /\ worker'.key = q /\ worker'.base = cache[q]
        /\ worker'.status.phase = "Unknown"
    BY <1>1 DEF ReconcileInvalidSpec, UnknownStatus
  <2> QED
    BY <2>2, <2>3 DEF Announced
<1>2. ASSUME NEW q \in Quotas, QueryCost(q) PROVE Announced'
  <2>1. worker.base \in Objects
    BY <1>2, WorkerStages DEF QueryCost
  <2>2. PICK status : /\ worker' = [pc |-> "patch", key |-> q, base |-> worker.base,
                                    status |-> status]
                      /\ EmitEvents(q, worker.base, status.phase)
    BY <1>2 DEF QueryCost
  <2>3. status.phase \in Phases
    <3>1. worker' \in Workers /\ worker'.pc = "patch" /\ worker'.status = status
      BY <1>2, <2>2, QueryCostType DEF TypeOK
    <3>2. status \in Statuses
      BY <3>1 DEF Workers, Idle
    <3> QED
      BY <1>2, <2>2, <3>1, QueryCostPhase
  <2>4. \/ status.phase = worker.base.status.phase
        \/ worker.base.status.phase = "" /\ status.phase = "Active"
        \/ events'[q] # None /\ events'[q].to = status.phase
    BY <2>1, <2>2, <2>3, EmitAnnounces
  <2> QED
    BY <2>2, <2>4 DEF Announced
<1>3. ASSUME worker'.pc # "patch" PROVE Announced'
  BY <1>3 DEF Announced
<1>4. ASSUME UNCHANGED <<worker, events>> PROVE Announced'
  BY <1>4 DEF Announced
<1>5. ASSUME NEW q \in Quotas, Deliver(q) \/ TimerFires(q) PROVE Announced'
  BY <1>4, <1>5 DEF Deliver, TimerFires, TakeKey
<1>6. ASSUME NEW q \in Quotas, ReconcileDeleted(q) \/ ReconcileValidSpec(q) PROVE Announced'
  BY <1>3, <1>4, <1>6 DEF ReconcileDeleted, ReconcileValidSpec, TakeKey
<1>7. ASSUME NEW q \in Quotas,
             QueryTokens(q) \/ PatchStatus(q) \/ PatchNotFound(q) \/ ExportGauges(q)
      PROVE  Announced'
  BY <1>3, <1>7 DEF QueryTokens, PatchStatus, PatchNotFound, ReturnError, ExportGauges, Idle
<1>8. ASSUME worker' = Idle PROVE Announced'
  BY <1>3, <1>8 DEF Idle
<1>9. ASSUME Environment PROVE Announced'
  BY <1>4, <1>8, <1>9 DEF Environment, ApplySpec, ChangeUsage, Delete, PatchFails,
                          ReturnError, ChangeProm, Restart, controllerVars
<1> QED
  BY <1>1, <1>2, <1>4, <1>5, <1>6, <1>7, <1>9
  DEF Next, StartReconcile, ReconcileStep, vars, controllerVars

(* Whatever is repeated, torn or stale, the phase a patch stores had been  *)
(* announced before, but for the first evaluation that finds a quota       *)
(* Active.                                                                 *)
THEOREM TransitionsAreAnnounced == Spec => NoSilentTransition
<1>1. Init => Announced
  <2>1. Idle.pc # "patch"
    BY DEF Idle
  <2> QED
    BY <2>1 DEF Init, Announced
<1>2. ASSUME TypeOK, NEW q \in Quotas, ~ServerAppliesPatch(q), [Next]_vars,
             api[q] # None, api'[q] # None
      PROVE  api'[q].status.phase = api[q].status.phase
  BY <1>2, OtherWritesKeepStatus
<1>3. ASSUME TypeOK, Announced, [Next]_vars, NEW q \in Quotas, ServerAppliesPatch(q),
             api'[q].status.phase # api[q].status.phase
      PROVE  \/ events[q] # None /\ events[q].to = api'[q].status.phase
             \/ worker.base.status.phase = "" /\ api'[q].status.phase = "Active"
  <2>1. api'[q] = Patched(q) /\ api[q] \in Objects
    BY <1>3 DEF ServerAppliesPatch, Store, TypeOK
  <2>2. /\ api'[q].status.phase = worker.status.phase
        /\ worker.status.phase # worker.base.status.phase
    BY <1>3, <2>1 DEF Patched, Merge, Objects
  <2>3. worker.pc = "patch" /\ worker.key = q
    BY <1>3 DEF ServerAppliesPatch
  <2> QED
    BY <1>3, <2>2, <2>3 DEF Announced
<1>4. TypeOK /\ Announced /\ [Next]_vars =>
        [\A q \in Quotas :
           /\ api[q] # None /\ api'[q] # None
           /\ api'[q].status.phase # api[q].status.phase
           => \/ events[q] # None /\ events[q].to = api'[q].status.phase
              \/ worker.base.status.phase = "" /\ api'[q].status.phase = "Active"]_vars
  BY <1>2, <1>3
<1> QED
  BY <1>1, <1>4, AnnouncedKept, TypeCorrect, PTL DEF Spec, NoSilentTransition

-----------------------------------------------------------------------------
(* Settled quotas.                                                         *)

(* A step after which the pieces of a settled quota are again in place.    *)
LEMMA SteadyAgain ==
  ASSUME NEW q \in Quotas, Steady(q),
         api'[q] = api[q], prom' = prom, usage'[q] = usage[q], cache'[q] = cache[q],
         \A i \in DOMAIN watch'[q] : watch'[q][i] = api[q],
         series'[q] = series[q], InProgress(q)' => OnCourse(q)'
  PROVE  Steady(q)'
<1>1. Settled(q)'
  BY DEF Steady, CaughtUp, Settled, Due
<1> QED
  BY <1>1 DEF Steady, CaughtUp

(* What the worker may keep while the quota stands still.                  *)
LEMMA WorkerStaysAbreast ==
  ASSUME NEW q \in Quotas, Abreast(q), worker' = worker,
         api'[q] = api[q], prom' = prom, usage'[q] = usage[q]
  PROVE  Abreast(q)'
BY DEF Abreast, SameSpec, Due

LEMMA WorkerStaysOnCourse ==
  ASSUME NEW q \in Quotas, OnCourse(q), worker' = worker,
         api'[q] = api[q], prom' = prom, usage'[q] = usage[q]
  PROVE  OnCourse(q)'
BY WorkerStaysAbreast DEF OnCourse

(* A step that does not touch q; the worker may be busy with other quotas. *)
Elsewhere(q) ==
  /\ api'[q] = api[q] /\ watch'[q] = watch[q] /\ cache'[q] = cache[q]
  /\ series'[q] = series[q] /\ events'[q] = events[q]
  /\ prom' = prom /\ usage'[q] = usage[q]
  /\ worker' = worker \/ ~InProgress(q)'

(* Work on another quota is elsewhere.                                     *)
LEMMA OthersAreElsewhere ==
  ASSUME TypeOK, NEW q \in Quotas, NEW p \in Quotas, p # q,
         Deliver(p) \/ TimerFires(p) \/ StartReconcile(p) \/ ReconcileStep(p)
  PROVE  Elsewhere(q)
<1>1. /\ api'[q] = api[q] /\ watch'[q] = watch[q] /\ cache'[q] = cache[q]
      /\ series'[q] = series[q] /\ events'[q] = events[q]
      /\ prom' = prom /\ usage'[q] = usage[q]
  <2>1. CASE Deliver(p) \/ TimerFires(p)
    BY <2>1 DEF Deliver, TimerFires, TypeOK, apiVars, envVars
  <2>2. CASE StartReconcile(p)
    BY <2>2 DEF StartReconcile, ReconcileDeleted, ReconcileInvalidSpec, ReconcileValidSpec,
                TakeKey, EmitEvents, TypeOK, apiVars, envVars
  <2>3. CASE QueryTokens(p) \/ PatchNotFound(p) \/ ExportGauges(p)
    BY <2>3 DEF QueryTokens, PatchNotFound, ReturnError, ExportGauges, TypeOK, apiVars, envVars
  <2>4. CASE QueryCost(p)
    BY <2>4 DEF QueryCost, EmitEvents, TypeOK, apiVars, envVars
  <2>5. CASE PatchStatus(p)
    BY <2>5 DEF PatchStatus, ServerAppliesPatch, Store, TypeOK, envVars
  <2> QED
    BY <2>1, <2>2, <2>3, <2>4, <2>5 DEF ReconcileStep
<1>2. worker' = worker \/ ~InProgress(q)'
  <2>1. CASE Deliver(p) \/ TimerFires(p)
    BY <2>1 DEF Deliver, TimerFires
  <2>2. CASE StartReconcile(p)
    BY <2>2 DEF StartReconcile, ReconcileDeleted, ReconcileInvalidSpec, ReconcileValidSpec,
                InProgress
  <2>3. CASE ReconcileStep(p)
    BY <2>3 DEF ReconcileStep, QueryTokens, QueryCost, PatchStatus, PatchNotFound,
                ReturnError, ExportGauges, InProgress, Idle
  <2> QED
    BY <2>1, <2>2, <2>3
<1> QED
  BY <1>1, <1>2 DEF Elsewhere

(* So is what users and the world do while q is undisturbed, but for a     *)
(* patch of q that fails.                                                  *)
LEMMA EnvironmentIsElsewhere ==
  ASSUME TypeOK, NEW q \in Quotas, Undisturbed(q), Environment
  PROVE  Elsewhere(q) \/ PatchFails(q)
<1>1. prom' = prom /\ usage'[q] = usage[q] /\ ~Restart
  BY DEF Undisturbed
<1>2. ASSUME NEW p \in Quotas, p # q, NEW version, Store(p, version), cache' = cache,
             UNCHANGED controllerVars
      PROVE  Elsewhere(q)
  BY <1>1, <1>2 DEF Store, TypeOK, controllerVars, Elsewhere
<1>3. ASSUME NEW p \in Quotas, NEW spec \in Specs, ApplySpec(p, spec)
      PROVE  Elsewhere(q)
  <2>1. CASE p = q
    <3>1. CASE api[q] = None
      <4>1. api'[q] = [spec |-> spec, gen |-> 1, status |-> NoStatus]
        BY <1>3, <2>1, <3>1 DEF ApplySpec, Store, TypeOK
      <4>2. [spec |-> spec, gen |-> 1, status |-> NoStatus] \in Objects
        BY NoStatusType DEF Objects
      <4> QED
        BY <3>1, <4>1, <4>2, ControllerAssumption DEF Undisturbed
    <3>2. CASE api[q] # None
      <4>1. api'[q] = [api[q] EXCEPT !.spec = spec, !.gen = @ + 1] /\ spec # api[q].spec
        BY <1>3, <2>1, <3>2 DEF ApplySpec, Store, TypeOK
      <4>2. api'[q].spec = spec
        BY <3>2, <4>1 DEF TypeOK, Objects
      <4> QED
        BY <3>2, <4>1, <4>2 DEF Undisturbed
    <3> QED
      BY <3>1, <3>2
  <2>2. CASE p # q
    BY <1>2, <1>3, <2>2 DEF ApplySpec
  <2> QED
    BY <2>1, <2>2
<1>4. ASSUME NEW p \in Quotas, Delete(p)
      PROVE  Elsewhere(q)
  <2>1. p # q
    BY <1>4 DEF Delete, Store, Undisturbed, TypeOK
  <2> QED
    BY <1>2, <1>4, <2>1 DEF Delete
<1>5. ASSUME NEW p \in Quotas, p # q, PatchFails(p)
      PROVE  Elsewhere(q)
  <2>1. api'[q] = api[q] /\ watch'[q] = watch[q] /\ cache'[q] = cache[q]
    BY <1>5 DEF PatchFails, ServerAppliesPatch, Store, apiVars, TypeOK
  <2>2. worker' = Idle /\ series' = series /\ events' = events
    BY <1>5 DEF PatchFails, ReturnError
  <2> QED
    BY <1>1, <2>1, <2>2 DEF Elsewhere, InProgress, Idle
<1>6. ASSUME UNCHANGED <<apiVars, controllerVars>> PROVE Elsewhere(q)
  BY <1>1, <1>6 DEF apiVars, controllerVars, Elsewhere
<1> QED
  BY <1>1, <1>3, <1>4, <1>5, <1>6 DEF Environment, ChangeUsage, ChangeProm

(* The steps left to consider.                                             *)
LEMMA OwnStepOrElsewhere ==
  ASSUME TypeOK, [Next]_vars, NEW q \in Quotas, [Undisturbed(q)]_vars
  PROVE  \/ Elsewhere(q)
         \/ Deliver(q) \/ TimerFires(q) \/ StartReconcile(q)
         \/ ReconcileStep(q) \/ PatchFails(q)
<1>1. CASE UNCHANGED vars
  BY <1>1 DEF vars, apiVars, controllerVars, envVars, Elsewhere
<1>2. CASE Undisturbed(q) /\ Environment
  BY <1>2, EnvironmentIsElsewhere
<1>3. ASSUME NEW p \in Quotas,
             Deliver(p) \/ TimerFires(p) \/ StartReconcile(p) \/ ReconcileStep(p), p # q
      PROVE  Elsewhere(q)
  BY <1>3, OthersAreElsewhere
<1> QED
  BY <1>1, <1>2, <1>3 DEF Next

LEMMA ElsewhereKeepsSteady ==
  ASSUME NEW q \in Quotas, Steady(q), Elsewhere(q)
  PROVE  Steady(q)' /\ api'[q] = api[q] /\ events'[q] = events[q]
<1>1. worker' = worker /\ InProgress(q)' => InProgress(q)
  BY DEF InProgress
<1>2. InProgress(q)' => OnCourse(q)'
  BY <1>1, WorkerStaysOnCourse DEF Steady, Elsewhere
<1>3. \A i \in DOMAIN watch'[q] : watch'[q][i] = api[q]
  BY DEF Steady, CaughtUp, Elsewhere
<1> QED
  BY <1>2, <1>3, SteadyAgain DEF Elsewhere

(* An event that arrives is of the version the cache has already.          *)
LEMMA DeliverKeepsSteady ==
  ASSUME TypeOK, NEW q \in Quotas, Steady(q), Deliver(q) \/ TimerFires(q)
  PROVE  Steady(q)' /\ api'[q] = api[q] /\ events'[q] = events[q]
<1>1. /\ api'[q] = api[q] /\ worker' = worker /\ prom' = prom /\ usage'[q] = usage[q]
      /\ series'[q] = series[q] /\ events'[q] = events[q]
  BY DEF Deliver, TimerFires, apiVars, envVars
<1>2. /\ cache'[q] = cache[q]
      /\ \A i \in DOMAIN watch'[q] : watch'[q][i] = api[q]
  <2>1. CASE Deliver(q)
    <3> DEFINE events_ == watch[q]
    <3>1. events_ \in Seq(Objects \cup {None}) /\ events_ # <<>>
      BY <2>1 DEF Deliver, TypeOK
    <3>2. \A i \in DOMAIN events_ : events_[i] = api[q]
      BY DEF Steady, CaughtUp
    <3>3. cache'[q] = Head(events_) /\ watch'[q] = Tail(events_)
      BY <2>1 DEF Deliver, TypeOK
    <3> HIDE DEF events_
    <3>4. Head(events_) = api[q] /\ \A i \in DOMAIN Tail(events_) : Tail(events_)[i] = api[q]
      BY <3>1, <3>2
    <3> QED
      BY <3>3, <3>4 DEF Steady, CaughtUp
  <2>2. CASE TimerFires(q)
    BY <2>2 DEF TimerFires, Steady, CaughtUp, apiVars
  <2> QED
    BY <2>1, <2>2
<1>3. InProgress(q)' => OnCourse(q)'
  BY <1>1, WorkerStaysOnCourse DEF Steady, CaughtUp, InProgress
<1> QED
  BY <1>1, <1>2, <1>3, SteadyAgain

(* The events of an evaluation that finds the stored phase: none.          *)
LEMMA SamePhaseIsSilent ==
  ASSUME NEW q \in Quotas, NEW base, EmitEvents(q, base, base.status.phase)
  PROVE  events' = events
BY DEF EmitEvents

(* A new evaluation starts from the object the server has.                 *)
LEMMA StartKeepsSteady ==
  ASSUME TypeOK, NEW q \in Quotas, Steady(q), StartReconcile(q)
  PROVE  Steady(q)' /\ api'[q] = api[q] /\ events'[q] = events[q]
<1>1. /\ api'[q] = api[q] /\ watch'[q] = watch[q] /\ cache'[q] = cache[q]
      /\ prom' = prom /\ usage'[q] = usage[q] /\ cache[q] = api[q]
  BY DEF StartReconcile, ReconcileDeleted, ReconcileInvalidSpec, ReconcileValidSpec,
         TakeKey, apiVars, envVars, Steady, CaughtUp
<1>2. \A i \in DOMAIN watch'[q] : watch'[q][i] = api[q]
  BY <1>1 DEF Steady, CaughtUp
<1>3. CASE ReconcileDeleted(q)
  <2>1. series'[q] = None /\ api[q] = None /\ worker' = Idle /\ events' = events
    BY <1>1, <1>3 DEF ReconcileDeleted, TakeKey, TypeOK
  <2>2. series[q] = None /\ ~InProgress(q)'
    BY <2>1 DEF Steady, CaughtUp, Settled, InProgress, Idle
  <2> QED
    BY <1>1, <1>2, <2>1, <2>2, SteadyAgain
<1>4. CASE ReconcileInvalidSpec(q)
  <2>1. /\ api[q] # None /\ ~LimitParses(api[q].spec.limit)
        /\ worker' = [pc |-> "patch", key |-> q, base |-> api[q],
                      status |-> UnknownStatus(api[q], PlainZero, "False", "Unknown")]
        /\ EmitEvents(q, api[q], "Unknown") /\ series' = series
    BY <1>1, <1>4 DEF ReconcileInvalidSpec
  <2>2. Due(q) = UnknownStatus(api[q], PlainZero, "False", "Unknown") /\ Due(q)' = Due(q)
    BY <1>1, <2>1 DEF Due
  <2>3. OnCourse(q)'
    BY <1>1, <2>1, <2>2 DEF OnCourse, Abreast, SameSpec
  <2>4. api[q].status.phase = "Unknown"
    BY <2>1, <2>2 DEF Steady, CaughtUp, Settled, UnknownStatus
  <2>5. events' = events
    BY <2>1, <2>4, SamePhaseIsSilent
  <2> QED
    BY <1>1, <1>2, <2>1, <2>3, <2>5, SteadyAgain
<1>5. CASE ReconcileValidSpec(q)
  <2>1. OnCourse(q)' /\ series' = series /\ events' = events
    BY <1>1, <1>5 DEF ReconcileValidSpec, OnCourse, Abreast, SameSpec
  <2> QED
    BY <1>1, <1>2, <2>1, SteadyAgain
<1> QED
  BY <1>3, <1>4, <1>5 DEF StartReconcile

(* The queries leave an evaluation abreast of the world.                   *)
LEMMA QueriesStayAbreast ==
  ASSUME TypeOK, NEW q \in Quotas, api[q] # None, Abreast(q), QueryTokens(q) \/ QueryCost(q)
  PROVE  Abreast(q)' /\ (QueryCost(q) => worker'.status = Due(q))
<1>1. /\ api'[q] = api[q] /\ prom' = prom /\ usage'[q] = usage[q] /\ prom # "hung"
      /\ SameSpec(worker.base, q) /\ LimitParses(api[q].spec.limit)
  BY DEF QueryTokens, QueryCost, apiVars, envVars, Abreast
<1>2. CASE QueryTokens(q)
  <2>1. worker'.pc = "cost" /\ worker'.base = worker.base /\ worker'.failed = (prom = "down")
    BY <1>2 DEF QueryTokens
  <2>2. prom # "down" => worker'.tokens = usage[q].tokens
    BY <1>1, <1>2 DEF QueryTokens, TypeOK
  <2> QED
    BY <1>1, <1>2, <2>1, <2>2 DEF Abreast, SameSpec, QueryTokens, QueryCost
<1>3. CASE QueryCost(q)
  <2>1. /\ worker.failed = (prom = "down")
        /\ ~worker.failed => worker.tokens = usage[q].tokens
    BY <1>3 DEF Abreast, QueryCost
  <2>2. worker'.pc = "patch" /\ worker'.base = worker.base /\ worker'.status = Due(q)
    <3>1. CASE prom = "down"
      BY <1>1, <1>3, <2>1, <3>1 DEF QueryCost, Due, UnknownStatus, SameSpec
    <3>2. CASE prom # "down"
      BY <1>1, <1>3, <2>1, <3>2 DEF QueryCost, Due, MeasuredStatus, SameSpec
    <3> QED
      BY <3>1, <3>2
  <2>3. Due(q)' = Due(q)
    BY <1>1 DEF Due
  <2> QED
    BY <1>1, <2>2, <2>3 DEF Abreast, SameSpec
<1> QED
  BY <1>2, <1>3

(* The queries find what was found before.                                 *)
LEMMA QueriesKeepSteady ==
  ASSUME TypeOK, NEW q \in Quotas, Steady(q), QueryTokens(q) \/ QueryCost(q)
  PROVE  Steady(q)' /\ api'[q] = api[q] /\ (api[q] # None => events'[q] = events[q])
<1>1. /\ api'[q] = api[q] /\ watch'[q] = watch[q] /\ cache'[q] = cache[q]
      /\ prom' = prom /\ usage'[q] = usage[q] /\ series' = series
      /\ prom # "hung" /\ OnCourse(q)
  BY DEF QueryTokens, QueryCost, apiVars, envVars, Steady, CaughtUp, InProgress
<1>2. \A i \in DOMAIN watch'[q] : watch'[q][i] = api[q]
  BY <1>1 DEF Steady, CaughtUp
<1>3. OnCourse(q)' /\ (api[q] # None => events' = events)
  <2>1. CASE api[q] = None
    BY <1>1, <2>1 DEF OnCourse, QueryTokens, QueryCost
  <2>2. CASE api[q] # None
    <3>1. Abreast(q)' /\ worker'.base = api[q]
      BY <1>1, <2>2, QueriesStayAbreast DEF OnCourse, QueryTokens, QueryCost
    <3>2. OnCourse(q)'
      BY <1>1, <2>2, <3>1 DEF OnCourse
    <3>3. CASE QueryTokens(q)
      BY <3>2, <3>3 DEF QueryTokens
    <3>4. CASE QueryCost(q)
      <4>1. worker'.status = Due(q) /\ worker.base = api[q]
        BY <1>1, <2>2, <3>4, QueriesStayAbreast DEF OnCourse, QueryCost
      <4>2. EmitEvents(q, api[q], Due(q).phase)
        BY <3>4, <4>1 DEF QueryCost
      <4>3. api[q].status = Due(q)
        BY <2>2 DEF Steady, Settled
      <4> QED
        BY <3>2, <4>2, <4>3, SamePhaseIsSilent
    <3> QED
      BY <3>3, <3>4
  <2> QED
    BY <2>1, <2>2
<1> QED
  BY <1>1, <1>2, <1>3, SteadyAgain

(* A patch of the stored status stores nothing new, whether it is answered *)
(* or not.                                                                 *)
LEMMA PatchOfSteady ==
  ASSUME TypeOK, NEW q \in Quotas, Steady(q), ServerAppliesPatch(q)
  PROVE  /\ Patched(q) = api[q] /\ api' = api /\ cache' = cache
         /\ \A i \in DOMAIN watch'[q] : watch'[q][i] = api[q]
<1>1. api[q] # None /\ api[q] \in Objects /\ worker.base = api[q] /\ worker.status = Due(q)
  BY DEF ServerAppliesPatch, Steady, CaughtUp, InProgress, OnCourse, Abreast, SameSpec, TypeOK
<1>2. api[q].status = Due(q) /\ api[q].status \in Statuses
  BY <1>1 DEF Steady, CaughtUp, Settled, Objects
<1>3. Merge(api[q].status, api[q].status, api[q].status) = api[q].status
  BY <1>2, MergeOntoBase
<1>4. Patched(q) = api[q]
  BY <1>1, <1>2, <1>3 DEF Patched, Objects
<1>5. CASE Store(q, Patched(q))
  <2>1. watch'[q] = Append(watch[q], api[q]) /\ api' = api
    BY <1>4, <1>5 DEF Store, TypeOK
  <2>2. watch[q] \in Seq(Objects \cup {None}) /\ \A i \in DOMAIN watch[q] : watch[q][i] = api[q]
    BY DEF TypeOK, Steady, CaughtUp
  <2>3. \A i \in DOMAIN watch'[q] : watch'[q][i] = api[q]
    BY <2>1, <2>2
  <2> QED
    BY <1>4, <2>1, <2>3 DEF ServerAppliesPatch
<1>6. CASE UNCHANGED <<api, watch>>
  BY <1>4, <1>6 DEF ServerAppliesPatch, Steady, CaughtUp
<1> QED
  BY <1>5, <1>6 DEF ServerAppliesPatch

(* Nor do the end of an evaluation, successful or not, and a failed call.  *)
LEMMA EndKeepsSteady ==
  ASSUME TypeOK, NEW q \in Quotas, Steady(q),
         PatchStatus(q) \/ PatchNotFound(q) \/ ExportGauges(q) \/ PatchFails(q)
  PROVE  Steady(q)' /\ api'[q] = api[q] /\ events'[q] = events[q]
<1>1. prom' = prom /\ usage'[q] = usage[q] /\ events' = events
  BY DEF PatchStatus, PatchNotFound, ExportGauges, PatchFails, ReturnError, envVars
<1>2. /\ api' = api /\ cache' = cache
      /\ \A i \in DOMAIN watch'[q] : watch'[q][i] = api[q]
  <2>1. CASE ServerAppliesPatch(q)
    BY <2>1, PatchOfSteady
  <2>2. CASE UNCHANGED apiVars
    BY <2>2 DEF apiVars, Steady, CaughtUp
  <2> QED
    BY <2>1, <2>2 DEF PatchStatus, PatchNotFound, ExportGauges, PatchFails
<1>3. CASE PatchStatus(q)
  <2>1. Patched(q) = api[q] /\ api[q] # None
    BY <1>3, PatchOfSteady DEF PatchStatus, ServerAppliesPatch
  <2>2. worker' = [pc |-> "export", key |-> q, object |-> api[q]] /\ series' = series
    BY <1>3, <2>1 DEF PatchStatus
  <2>3. OnCourse(q)'
    BY <1>2, <2>1, <2>2 DEF OnCourse, Abreast, SameSpec
  <2> QED
    BY <1>1, <1>2, <2>2, <2>3, SteadyAgain
<1>4. CASE PatchNotFound(q) \/ PatchFails(q)
  <2>1. ~InProgress(q)' /\ series' = series
    BY <1>4 DEF PatchNotFound, PatchFails, ReturnError, InProgress, Idle
  <2> QED
    BY <1>1, <1>2, <2>1, SteadyAgain
<1>5. CASE ExportGauges(q)
  <2>1. api[q] # None /\ worker.object = api[q] /\ ~InProgress(q)'
    BY <1>5 DEF ExportGauges, Steady, CaughtUp, OnCourse, Abreast, SameSpec, InProgress, Idle
  <2>2. series'[q] = UpdatedGauges(series[q], api[q])
    BY <1>5, <2>1 DEF ExportGauges, TypeOK
  <2>3. series'[q] # None
    <3>1. api[q] \in Objects /\ series[q] \in Gauges \cup {None}
      BY <2>1 DEF TypeOK
    <3>2. UpdatedGauges(series[q], api[q]) \in Gauges
      BY <3>1, UpdatedGaugesType
    <3> QED
      BY <2>2, <3>2, ControllerAssumption
  <2>4. Due(q)' = Due(q)
    BY <1>1, <1>2 DEF Due
  <2>5. Settled(q)'
    BY <1>2, <2>1, <2>2, <2>3, <2>4 DEF Steady, CaughtUp, Settled, UpdatedGauges
  <2> QED
    BY <1>1, <1>2, <2>1, <2>5 DEF Steady, CaughtUp
<1> QED
  BY <1>3, <1>4, <1>5

LEMMA SteadyStep ==
  ASSUME TypeOK, [Next]_vars, NEW q \in Quotas, Steady(q), [Undisturbed(q)]_vars
  PROVE  /\ Steady(q)' /\ api'[q] = api[q]
         /\ api[q] # None => events'[q] = events[q]
<1>1. CASE Elsewhere(q)
  BY <1>1, ElsewhereKeepsSteady
<1>2. CASE \/ Deliver(q) \/ TimerFires(q) \/ StartReconcile(q)
           \/ ReconcileStep(q) \/ PatchFails(q)
  BY <1>2, DeliverKeepsSteady, StartKeepsSteady, QueriesKeepSteady, EndKeepsSteady
  DEF ReconcileStep
<1> QED
  BY <1>1, <1>2, OwnStepOrElsewhere

(* Re-evaluating a settled quota changes nothing and announces nothing.    *)
THEOREM SettledIsQuiet == Spec => SettledStaysQuiet
<1>1. TypeOK /\ [Next]_vars =>
        [\A q \in Quotas :
           Steady(q) /\ Undisturbed(q)
             => /\ Steady(q)' /\ api'[q] = api[q]
                /\ api[q] # None => events'[q] = events[q]]_vars
  BY SteadyStep
<1> QED
  BY <1>1, TypeCorrect, PTL DEF Spec, SettledStaysQuiet

-----------------------------------------------------------------------------
(* The rungs of Convergence: quotas on track.                              *)

LEMMA SteadyIsOnTrack ==
  ASSUME NEW q \in Quotas, Steady(q) PROVE OnTrack(q) /\ Settled(q)
<1>1. CASE InProgress(q) /\ worker.pc = "export"
  BY <1>1 DEF Steady, CaughtUp, Settled, OnCourse, OnTrack, Evaluated, SameSpec
<1>2. CASE ~(InProgress(q) /\ worker.pc = "export")
  BY <1>2 DEF Steady, OnTrack
<1> QED
  BY <1>1, <1>2

(* What is due depends on the spec, not on the stored status.              *)
LEMMA DueStands ==
  ASSUME NEW q \in Quotas, api'[q].spec = api[q].spec, api'[q].gen = api[q].gen,
         prom' = prom, usage'[q] = usage[q]
  PROVE  Due(q)' = Due(q)
BY DEF Due, UnknownStatus, MeasuredStatus

LEMMA ElsewhereKeepsOnTrack ==
  ASSUME NEW q \in Quotas, OnTrack(q), Elsewhere(q)
  PROVE  OnTrack(q)' /\ (Settled(q) => Settled(q)')
<1>1. worker' = worker /\ InProgress(q)' => InProgress(q)
  BY DEF InProgress
<1>2. Due(q)' = Due(q)
  BY DueStands DEF Elsewhere
<1>3. Settled(q) => Settled(q)'
  BY <1>2 DEF Elsewhere, Settled
<1>4. CASE CaughtUp(q) /\ (InProgress(q) => OnCourse(q) /\ worker.pc # "export")
  <2>1. CaughtUp(q)'
    BY <1>4 DEF CaughtUp, Elsewhere
  <2>2. InProgress(q)' => OnCourse(q)' /\ worker'.pc # "export"
    BY <1>1, <1>4, WorkerStaysOnCourse DEF Elsewhere
  <2> QED
    BY <1>3, <2>1, <2>2 DEF OnTrack
<1>5. CASE Evaluated(q)
  <2>1. InProgress(q)' => Abreast(q)'
    BY <1>1, <1>5, WorkerStaysAbreast DEF Elsewhere, Evaluated
  <2> QED
    BY <1>2, <1>3, <1>5, <2>1 DEF OnTrack, Evaluated, Elsewhere, SameSpec
<1> QED
  BY <1>4, <1>5 DEF OnTrack

LEMMA DeliverKeepsOnTrack ==
  ASSUME TypeOK, NEW q \in Quotas, OnTrack(q), Deliver(q) \/ TimerFires(q)
  PROVE  OnTrack(q)' /\ (Settled(q) => Settled(q)')
<1>1. /\ api'[q] = api[q] /\ worker' = worker /\ prom' = prom /\ usage'[q] = usage[q]
      /\ series'[q] = series[q]
  BY DEF Deliver, TimerFires, apiVars, envVars
<1>2. Due(q)' = Due(q) /\ (InProgress(q)' <=> InProgress(q))
  BY <1>1, DueStands DEF InProgress
<1>3. Settled(q) => Settled(q)'
  BY <1>1, <1>2 DEF Settled
<1>4. \/ cache'[q] = cache[q] /\ watch'[q] = watch[q]
      \/ /\ watch[q] \in Seq(Objects \cup {None}) /\ watch[q] # <<>>
         /\ cache'[q] = Head(watch[q]) /\ watch'[q] = Tail(watch[q])
  BY DEF Deliver, TimerFires, apiVars, TypeOK
<1>5. CASE CaughtUp(q) /\ (InProgress(q) => OnCourse(q) /\ worker.pc # "export")
  <2>1. cache'[q] = api[q] /\ \A i \in DOMAIN watch'[q] : watch'[q][i] = api[q]
    <3> DEFINE events_ == watch[q]
    <3>1. \A i \in DOMAIN events_ : events_[i] = api[q]
      BY <1>5 DEF CaughtUp
    <3>2. CASE cache'[q] = cache[q] /\ watch'[q] = watch[q]
      BY <1>5, <3>2 DEF CaughtUp
    <3>3. CASE /\ events_ \in Seq(Objects \cup {None}) /\ events_ # <<>>
               /\ cache'[q] = Head(events_) /\ watch'[q] = Tail(events_)
      <4> HIDE DEF events_
      <4> QED
        BY <3>1, <3>3
    <3> QED
      BY <1>4, <3>2, <3>3
  <2>2. CaughtUp(q)'
    BY <1>1, <2>1 DEF CaughtUp
  <2>3. InProgress(q)' => OnCourse(q)' /\ worker'.pc # "export"
    BY <1>1, <1>2, <1>5, WorkerStaysOnCourse
  <2> QED
    BY <1>3, <2>2, <2>3 DEF OnTrack
<1>6. CASE Evaluated(q)
  <2>1. /\ SameSpec(cache'[q], q)
        /\ \A i \in DOMAIN watch'[q] : SameSpec(watch'[q][i], q)
    <3> DEFINE events_ == watch[q]
    <3>1. \A i \in DOMAIN events_ : SameSpec(events_[i], q)
      BY <1>6 DEF Evaluated
    <3>2. CASE cache'[q] = cache[q] /\ watch'[q] = watch[q]
      BY <1>6, <3>2 DEF Evaluated
    <3>3. CASE /\ events_ \in Seq(Objects \cup {None}) /\ events_ # <<>>
               /\ cache'[q] = Head(events_) /\ watch'[q] = Tail(events_)
      <4> HIDE DEF events_
      <4>1. 1 \in DOMAIN events_ /\ Head(events_) = events_[1]
        BY <3>3
      <4>2. \A i \in DOMAIN Tail(events_) :
              i + 1 \in DOMAIN events_ /\ Tail(events_)[i] = events_[i + 1]
        BY <3>3
      <4> QED
        BY <3>1, <3>3, <4>1, <4>2
    <3> QED
      BY <1>4, <3>2, <3>3
  <2>2. InProgress(q)' => Abreast(q)'
    BY <1>1, <1>2, <1>6, WorkerStaysAbreast DEF Evaluated
  <2> QED
    BY <1>1, <1>2, <1>3, <1>6, <2>1, <2>2 DEF OnTrack, Evaluated, SameSpec
<1> QED
  BY <1>5, <1>6 DEF OnTrack

(* A new evaluation starts from the stored spec, if not from the stored    *)
(* status.                                                                 *)
LEMMA StartKeepsOnTrack ==
  ASSUME TypeOK, NEW q \in Quotas, OnTrack(q), StartReconcile(q)
  PROVE  /\ OnTrack(q)'
         /\ Settled(q) \/ ReconcileDeleted(q) => Settled(q)'
<1>1. /\ api'[q] = api[q] /\ watch'[q] = watch[q] /\ cache'[q] = cache[q]
      /\ prom' = prom /\ usage'[q] = usage[q]
  BY DEF StartReconcile, ReconcileDeleted, ReconcileInvalidSpec, ReconcileValidSpec,
         TakeKey, apiVars, envVars
<1>2. Due(q)' = Due(q)
  BY <1>1, DueStands
<1>3. CASE ReconcileDeleted(q)
  <2>1. cache[q] = None /\ series'[q] = None /\ ~InProgress(q)'
    BY <1>3 DEF ReconcileDeleted, TakeKey, TypeOK, InProgress, Idle
  <2>2. CaughtUp(q) /\ api[q] = None
    BY <2>1 DEF OnTrack, CaughtUp, Evaluated, SameSpec
  <2> QED
    BY <1>1, <2>1, <2>2 DEF OnTrack, CaughtUp, Settled
<1>4. CASE ReconcileInvalidSpec(q) \/ ReconcileValidSpec(q)
  <2>1. /\ cache[q] # None /\ worker'.base = cache[q] /\ worker'.pc \in {"tokens", "patch"}
        /\ worker'.pc = "tokens" => LimitParses(cache[q].spec.limit)
        /\ worker'.pc = "patch" => 
             /\ ~LimitParses(cache[q].spec.limit)
             /\ worker'.status = UnknownStatus(cache[q], PlainZero, "False", "Unknown")
        /\ series' = series
    BY <1>4 DEF ReconcileInvalidSpec, ReconcileValidSpec
  <2>2. api[q] # None /\ SameSpec(cache[q], q)
    BY <2>1 DEF OnTrack, CaughtUp, Evaluated, SameSpec
  <2>3. Abreast(q)'
    BY <1>1, <1>2, <2>1, <2>2 DEF Abreast, SameSpec, Due, UnknownStatus
  <2>4. CaughtUp(q) => OnCourse(q)' /\ CaughtUp(q)'
    BY <1>1, <2>1, <2>3 DEF OnCourse, CaughtUp
  <2>5. Evaluated(q) => Evaluated(q)'
    BY <1>1, <1>2, <2>3 DEF Evaluated, SameSpec
  <2> QED
    BY <1>1, <1>2, <1>4, <2>1, <2>4, <2>5 
    DEF OnTrack, Settled, ReconcileInvalidSpec, ReconcileValidSpec, ReconcileDeleted
<1> QED
  BY <1>3, <1>4 DEF StartReconcile

LEMMA QueriesKeepOnTrack ==
  ASSUME TypeOK, NEW q \in Quotas, OnTrack(q), QueryTokens(q) \/ QueryCost(q)
  PROVE  OnTrack(q)' /\ (Settled(q) => Settled(q)')
<1>1. /\ api'[q] = api[q] /\ watch'[q] = watch[q] /\ cache'[q] = cache[q]
      /\ prom' = prom /\ usage'[q] = usage[q] /\ series' = series
      /\ worker'.base = worker.base /\ worker.pc \in {"tokens", "cost"}
      /\ worker'.pc \in {"cost", "patch"}
      /\ InProgress(q)
  BY DEF QueryTokens, QueryCost, apiVars, envVars, InProgress
<1>2. Due(q)' = Due(q)
  BY <1>1, DueStands
<1>3. Settled(q) => Settled(q)'
  BY <1>1, <1>2 DEF Settled
<1>4. CASE CaughtUp(q) /\ OnCourse(q)
  <2>1. OnCourse(q)'
    <3>1. CASE api[q] = None
      BY <1>1, <3>1 DEF OnCourse
    <3>2. CASE api[q] # None
      BY <1>1, <1>4, <3>2, QueriesStayAbreast DEF OnCourse
    <3> QED
      BY <3>1, <3>2
  <2> QED
    BY <1>1, <1>3, <1>4, <2>1 DEF OnTrack, CaughtUp
<1>5. CASE Evaluated(q)
  <2>1. Abreast(q)'
    BY <1>1, <1>5, QueriesStayAbreast DEF Evaluated
  <2> QED
    BY <1>1, <1>2, <1>3, <1>5, <2>1 DEF OnTrack, Evaluated, SameSpec
<1> QED
  BY <1>1, <1>4, <1>5 DEF OnTrack

(* A patch on track stores the status due, whatever its base leaves out.   *)
LEMMA PatchOnTrack ==
  ASSUME TypeOK, NEW q \in Quotas, OnTrack(q), ServerAppliesPatch(q),
         prom' = prom, usage'[q] = usage[q]
  PROVE  /\ api'[q] = Patched(q) /\ Due(q)' = Due(q)
         /\ api'[q] # None /\ api'[q].status = Due(q)
         /\ SameSpec(cache[q], q)' /\ \A i \in DOMAIN watch'[q] : SameSpec(watch[q][i], q)'
         /\ api[q].status = Due(q) => api'[q] = api[q]
<1>1. /\ api[q] # None /\ api[q] \in Objects /\ worker.pc = "patch" /\ InProgress(q)
      /\ cache' = cache
  BY DEF ServerAppliesPatch, InProgress, TypeOK
<1>2. /\ Abreast(q) /\ worker.status = Due(q)
      /\ SameSpec(cache[q], q) /\ \A i \in DOMAIN watch[q] : SameSpec(watch[q][i], q)
      /\ worker.base.status = api[q].status \/ api[q].status = Due(q)
  BY <1>1 DEF OnTrack, Evaluated, CaughtUp, OnCourse, Abreast, SameSpec
<1>3. worker.status \in Statuses /\ api[q].status \in Statuses
  BY <1>1 DEF TypeOK, Workers, Idle, Objects
<1>4. Merge(api[q].status, worker.base.status, worker.status) = Due(q)
  <2>1. CASE worker.base.status = api[q].status
    BY <1>2, <1>3, <2>1, MergeOntoBase
  <2>2. CASE api[q].status = worker.status
    BY <1>2, <1>3, <2>2 DEF Merge, Statuses
  <2> QED
    BY <1>2, <2>1, <2>2
<1>5. /\ Patched(q).status = Due(q) /\ Patched(q) \in Objects
      /\ Patched(q).spec = api[q].spec /\ Patched(q).gen = api[q].gen
      /\ api[q].status = Due(q) => Patched(q) = api[q]
  BY <1>1, <1>2, <1>3, <1>4 DEF Patched, Objects
<1>6. api'[q] = Patched(q)
  BY DEF ServerAppliesPatch, Store, TypeOK
<1>7. Patched(q) # None
  BY <1>5, ControllerAssumption
<1>8. \A version : SameSpec(version, q)' <=> 
        version' # None /\ version'.spec = api[q].spec /\ version'.gen = api[q].gen
  BY <1>5, <1>6 DEF SameSpec
<1>9. SameSpec(cache[q], q)'
  BY <1>1, <1>2, <1>5, <1>6 DEF SameSpec
<1>10. \A i \in DOMAIN watch'[q] : SameSpec(watch[q][i], q)'
  <2>1. CASE Store(q, Patched(q))
    <3> DEFINE events_ == watch[q]
               Same(version) == version # None /\ version.spec = api[q].spec
                                /\ version.gen = api[q].gen
    <3>1. watch'[q] = Append(events_, Patched(q)) /\ events_ \in Seq(Objects \cup {None})
      BY <2>1 DEF Store, TypeOK
    <3>2. (\A i \in DOMAIN events_ : Same(events_[i])) /\ Same(Patched(q))
      BY <1>2, <1>5, <1>7 DEF SameSpec
    <3>3. \A i \in DOMAIN Append(events_, Patched(q)) : Same(Append(events_, Patched(q))[i])
      <4> HIDE DEF events_, Same
      <4> QED
        BY <1>5, <3>1, <3>2
    <3> QED
      BY <1>5, <1>6, <3>1, <3>3 DEF SameSpec
  <2>2. CASE UNCHANGED <<api, watch>>
    BY <1>2, <2>2 DEF SameSpec
  <2> QED
    BY <2>1, <2>2 DEF ServerAppliesPatch
<1>11. Due(q)' = Due(q)
  BY <1>5, <1>6, DueStands
<1> QED
  BY <1>5, <1>6, <1>7, <1>9, <1>10, <1>11

LEMMA EndKeepsOnTrack ==
  ASSUME TypeOK, NEW q \in Quotas, OnTrack(q),
         PatchStatus(q) \/ PatchNotFound(q) \/ ExportGauges(q) \/ PatchFails(q)
  PROVE  OnTrack(q)' /\ (Settled(q) \/ ExportGauges(q) => Settled(q)')
<1>1. prom' = prom /\ usage'[q] = usage[q]
  BY DEF PatchStatus, PatchNotFound, ExportGauges, PatchFails, ReturnError, envVars
<1>2. CASE ServerAppliesPatch(q) /\ (PatchStatus(q) \/ PatchFails(q))
  <2>1. /\ api'[q] = Patched(q) /\ api'[q].status = Due(q)' /\ api'[q] # None
        /\ SameSpec(cache[q], q)' /\ \A i \in DOMAIN watch'[q] : SameSpec(watch[q][i], q)'
    BY <1>1, <1>2, PatchOnTrack
  <2>2. series' = series
    BY <1>2 DEF PatchStatus, PatchFails, ReturnError
  <2>3. InProgress(q)' => worker' = [pc |-> "export", key |-> q, object |-> Patched(q)]
    BY <1>2 DEF PatchStatus, PatchFails, ReturnError, InProgress, Idle
  <2>4. InProgress(q)' => Abreast(q)'
    BY <2>1, <2>3 DEF Abreast
  <2>5. Evaluated(q)'
    BY <2>1, <2>4 DEF Evaluated
  <2>6. Settled(q) => Settled(q)'
    <3>1. api[q] # None
      BY <1>2 DEF ServerAppliesPatch
    <3>2. api[q].status = Due(q) => api'[q] = api[q] /\ Due(q)' = Due(q)
      BY <1>1, <1>2, PatchOnTrack
    <3> QED
      BY <2>2, <3>1, <3>2 DEF Settled
  <2>7. ~ExportGauges(q)
    BY <1>2 DEF ServerAppliesPatch, ExportGauges
  <2> QED
    BY <2>5, <2>6, <2>7 DEF OnTrack
<1>3. CASE UNCHANGED apiVars /\ (PatchNotFound(q) \/ PatchFails(q))
  <2>1. ~InProgress(q)' /\ series' = series /\ ~ExportGauges(q)
    BY <1>3 DEF PatchNotFound, PatchFails, ReturnError, InProgress, Idle, ExportGauges
  <2>2. Due(q)' = Due(q)
    BY <1>1, <1>3, DueStands DEF apiVars
  <2> QED
    BY <1>3, <2>1, <2>2 DEF apiVars, OnTrack, CaughtUp, Evaluated, SameSpec, Settled
<1>4. CASE ExportGauges(q)
  <2>1. /\ InProgress(q) /\ worker.pc = "export" /\ ~InProgress(q)'
        /\ UNCHANGED apiVars
    BY <1>4 DEF ExportGauges, InProgress, Idle
  <2>2. Evaluated(q)
    BY <2>1 DEF OnTrack
  <2>3. api[q] # None /\ worker.object = api[q] /\ api[q].status = Due(q)
    BY <2>1, <2>2 DEF Evaluated, Abreast
  <2>4. series'[q] = UpdatedGauges(series[q], api[q])
    BY <1>4, <2>3 DEF ExportGauges, TypeOK
  <2>5. series'[q] # None
    <3>1. api[q] \in Objects /\ series[q] \in Gauges \cup {None}
      BY <2>3 DEF TypeOK
    <3> QED
      BY <2>4, <3>1, UpdatedGaugesType, ControllerAssumption
  <2>6. Due(q)' = Due(q)
    BY <1>1, <2>1, DueStands DEF apiVars
  <2>7. Settled(q)'
    BY <2>1, <2>3, <2>4, <2>5, <2>6 DEF apiVars, Settled, UpdatedGauges
  <2>8. Evaluated(q)'
    BY <2>1, <2>2, <2>6 DEF Evaluated, apiVars, SameSpec
  <2> QED
    BY <2>7, <2>8 DEF OnTrack
<1> QED
  BY <1>2, <1>3, <1>4 DEF PatchStatus, PatchNotFound, PatchFails

LEMMA OnTrackStep ==
  ASSUME TypeOK, [Next]_vars, NEW q \in Quotas, OnTrack(q), [Undisturbed(q)]_vars
  PROVE  /\ OnTrack(q)'
         /\ Settled(q) \/ ExportGauges(q) \/ ReconcileDeleted(q) => Settled(q)'
<1>1. CASE Elsewhere(q) /\ ~ExportGauges(q) /\ ~ReconcileDeleted(q)
  BY <1>1, ElsewhereKeepsOnTrack
<1>2. CASE Deliver(q) \/ TimerFires(q)
  <2>1. ~ReconcileDeleted(q) /\ ~ExportGauges(q)
    BY <1>2 DEF Deliver, TimerFires, ReconcileDeleted, TakeKey, ExportGauges, TypeOK, Idle
  <2> QED
    BY <1>2, <2>1, DeliverKeepsOnTrack
<1>3. CASE StartReconcile(q)
  BY <1>3, StartKeepsOnTrack DEF StartReconcile, TakeKey, ReconcileDeleted, ReconcileInvalidSpec,
     ReconcileValidSpec, ExportGauges, Idle
<1>4. CASE QueryTokens(q) \/ QueryCost(q)
  BY <1>4, QueriesKeepOnTrack DEF QueryTokens, QueryCost, ReconcileDeleted, TakeKey, ExportGauges,
     Idle
<1>5. CASE PatchStatus(q) \/ PatchNotFound(q) \/ ExportGauges(q) \/ PatchFails(q)
  BY <1>5, EndKeepsOnTrack DEF PatchStatus, ServerAppliesPatch, PatchNotFound, ReturnError,
     ExportGauges, PatchFails, ReconcileDeleted, TakeKey, Idle
<1> QED
  BY <1>1, <1>2, <1>3, <1>4, <1>5, OwnStepOrElsewhere DEF ReconcileStep, StartReconcile

(* Each rung of Convergence: a quota once on track stays there, and the    *)
(* first evaluation that finishes settles it.                              *)
THEOREM EvaluationsSettle == Spec => OneEvaluationSettles
<1>1. TypeOK /\ [Next]_vars =>
        [\A q \in Quotas :
           OnTrack(q) /\ Undisturbed(q)
             => /\ OnTrack(q)'
                /\ Settled(q) \/ ExportGauges(q) \/ ReconcileDeleted(q) => Settled(q)']_vars
  BY OnTrackStep
<1> QED
  BY <1>1, TypeCorrect, PTL DEF Spec, OneEvaluationSettles

(* A settled quota on track stays settled for as long as nothing disturbs  *)
(* it: what Convergence says is reached is never left again.               *)
THEOREM SettledForGood ==
  ASSUME NEW q \in Quotas
  PROVE  Spec => []((OnTrack(q) /\ Settled(q)) \/ Steady(q)
                      => ([][Undisturbed(q)]_vars => []Settled(q)))
<1>1. TypeOK /\ OnTrack(q) /\ Settled(q) /\ [Next]_vars /\ [Undisturbed(q)]_vars
        => OnTrack(q)' /\ Settled(q)'
  BY OnTrackStep
<1>2. Steady(q) => OnTrack(q) /\ Settled(q)
  BY SteadyIsOnTrack
<1> QED
  BY <1>1, <1>2, TypeCorrect, PTL DEF Spec

-----------------------------------------------------------------------------
(* The operator as one: verdicts on settled quotas.                        *)

(* What is proved of the webhook alone.                                    *)
Webhook == INSTANCE QuotaAdmissionProofs WITH
  Pods <- {}, listed <- ListedQuotas, optedIn <- TRUE, serving <- TRUE,
  listFails <- FALSE, decision <- [gpu |-> FALSE, denied |-> FALSE, audited |-> {}]

(* The assumptions those proofs make hold here.                            *)
LEMMA WebhookAssumption == Webhook!AdmissionAssumption!:
BY SystemAssumption DEF SystemAssumption, Admission!Entries, Admission!Phases,
   Webhook!Entries, Webhook!Phases, IsFiniteSet, Webhook!IsFiniteSet

(* The reconciler is an environment the proofs about the webhook allow:    *)
(* an event delivered is one quota listed differently, a restart lists     *)
(* them all anew, and every phase and mode listed is one they know.        *)
THEOREM ControllerFeedsWebhook == Spec => WebhookEnvironment
<1>1. Init => Admission!Init
  BY DEF Init, Admission!Init, Admission!NoDecision, ListedQuotas
<1>2. TypeOK /\ TypeOK' /\ [Next]_vars => [Admission!Next]_(Admission!vars)
  <2> SUFFICES ASSUME TypeOK, TypeOK', [Next]_vars PROVE [Admission!Next]_(Admission!vars)
    OBVIOUS
  <2>1. ListedQuotas' \in [Quotas -> Admission!Entries \cup {None}]
    <3>1. ASSUME NEW q \in Quotas, cache'[q] # None
          PROVE  [phase |-> cache'[q].status.phase, mode |-> cache'[q].spec.mode]
                   \in Admission!Entries
      <4>1. cache'[q] \in Objects
        BY <3>1 DEF TypeOK
      <4>2. cache'[q].status.phase \in Phases \cup {""} /\ cache'[q].spec.mode \in Modes
        BY <4>1, ControllerAssumption DEF ControllerAssumption, Objects, Statuses
      <4> QED
        BY <4>2 DEF Admission!Entries, Admission!Phases, Phases, Modes
    <3> QED
      BY <3>1 DEF ListedQuotas
  <2>2. ASSUME NEW q \in Quotas, Deliver(q)
        PROVE  Admission!CacheUpdate(q, ListedQuotas'[q])
    <3>1. \A r \in Quotas : r # q => cache'[r] = cache[r]
      BY <2>2 DEF Deliver, TypeOK
    <3>2. ListedQuotas' = [ListedQuotas EXCEPT ![q] = ListedQuotas'[q]]
      BY <3>1 DEF ListedQuotas
    <3> QED
      BY <3>2 DEF Admission!CacheUpdate
  <2>3. CASE Restart
    BY <2>1 DEF Admission!Next, Admission!Relist
  <2>4. ASSUME UNCHANGED cache PROVE UNCHANGED Admission!vars
    BY <2>4 DEF Admission!vars, ListedQuotas
  <2>5. (\E q \in Quotas : Deliver(q)) \/ Restart \/ UNCHANGED cache
    <3>1. ASSUME NEW q \in Quotas,
                 TimerFires(q) \/ StartReconcile(q) \/ ReconcileStep(q) \/ PatchFails(q)
          PROVE  UNCHANGED cache
      BY <3>1 DEF TimerFires, StartReconcile, ReconcileDeleted, ReconcileInvalidSpec,
         ReconcileValidSpec, TakeKey, ReconcileStep, QueryTokens, QueryCost, PatchStatus,
         ServerAppliesPatch, PatchNotFound, ExportGauges, PatchFails, apiVars
    <3>2. ASSUME NEW q \in Quotas,
                 \/ Delete(q)
                 \/ \E spec \in Specs : ApplySpec(q, spec)
                 \/ \E u \in Usages : ChangeUsage(q, u)
          PROVE  UNCHANGED cache
      BY <3>2 DEF Delete, ApplySpec, ChangeUsage, apiVars
    <3> QED
      BY <3>1, <3>2 DEF Next, Environment, ChangeProm, vars, apiVars
  <2> QED
    BY <2>1, <2>2, <2>3, <2>4, <2>5 DEF Admission!Next
<1> QED
  BY <1>1, <1>2, TypeCorrect, PTL DEF Spec, WebhookEnvironment, Admission!Spec

LEMMA SomeListedFirst ==
  ASSUME NEW rank \in Admission!Ranks, NEW S \in SUBSET Quotas, S # {}
  PROVE  \E q \in S : \A r \in S : rank[q] <= rank[r]
<1>1. rank \in Webhook!Ranks
  BY DEF Admission!Ranks, Webhook!Ranks, Admission!Cardinality, Webhook!Cardinality
<1> QED
  BY <1>1, WebhookAssumption, Webhook!SomeQuotaIsFirst

(* The phases spend demands.                                               *)
LEMMA IdealPhases ==
  ASSUME TypeOK, NEW q \in Quotas, api[q] # None
  PROVE  /\ IdealPhase(q) \in Phases
         /\ prom # "down" /\ LimitParses(api[q].spec.limit) => IdealPhase(q) # "Unknown"
         /\ prom = "down" => IdealPhase(q) = "Unknown"
<1>1. ComputePhase(api[q].spec, usage[q].tokens, usage[q].cost)
        \in {"Active", "Warning", "Exceeded"}
  BY ComputePhaseType
<1> QED
  BY <1>1 DEF IdealPhase, Due, MeasuredStatus, UnknownStatus, Phases

(* What the webhook lists once all quotas are settled.                     *)
LEMMA SteadyListing ==
  ASSUME TypeOK, \A q \in Quotas : Steady(q), NEW q \in Quotas
  PROVE  /\ q \in Admission!Listed <=> api[q] # None
         /\ api[q] # None => /\ ListedQuotas[q].phase = IdealPhase(q)
                             /\ ListedQuotas[q].mode = api[q].spec.mode
<1>1. cache[q] = api[q] /\ (api[q] # None => api[q].status = Due(q))
  BY DEF Steady, CaughtUp, Settled
<1>2. CASE api[q] = None
  BY <1>1, <1>2 DEF ListedQuotas, Admission!Listed
<1>3. CASE api[q] # None
  <2> DEFINE entry == [phase |-> IdealPhase(q), mode |-> api[q].spec.mode]
  <2>1. ListedQuotas[q] = entry
    BY <1>1, <1>3 DEF ListedQuotas, IdealPhase
  <2>2. api[q].spec.mode \in Modes
    BY <1>3, ControllerAssumption DEF ControllerAssumption, TypeOK, Objects
  <2>3. entry \in Admission!Entries
    BY <1>3, <2>2, IdealPhases DEF Admission!Entries, Admission!Phases, Phases, Modes
  <2>4. entry # None
    BY <2>3, SystemAssumption DEF SystemAssumption
  <2> QED
    BY <1>3, <2>1, <2>4 DEF Admission!Listed
<1> QED
  BY <1>2, <1>3

(* Settled quotas make the webhook refuse GPU pods exactly if one of them  *)
(* is overspent and enforced, in whatever order they are listed, and none  *)
(* while Prometheus refuses queries.                                       *)
LEMMA SteadyVerdict ==
  ASSUME TypeOK, \A q \in Quotas : Steady(q)
  PROVE  /\ prom = "up" /\ AllLimitsParse => IF Overspent THEN AllDenied ELSE NoneDenied
         /\ prom = "down" => NoneDenied
<1>1. Admission!Enforced = {q \in Quotas : /\ api[q] # None /\ api[q].spec.mode # "Audit"
                                           /\ IdealPhase(q) = "Exceeded"}
  BY SteadyListing DEF Admission!Enforced, Admission!Exceeded, Admission!Audited,
                       Admission!Listed
<1>2. Overspent <=> Admission!Enforced # {}
  BY <1>1 DEF Overspent
<1>3. Admission!Enforced = {} => NoneDenied
  BY DEF NoneDenied, Admission!Denied
<1>4. prom = "up" /\ AllLimitsParse => Admission!Unmeasured = {}
  BY SteadyListing, IdealPhases DEF Admission!Unmeasured, Admission!Listed, AllLimitsParse
<1>5. ASSUME Admission!Unmeasured = {}, Admission!Enforced # {} PROVE AllDenied
  <2> SUFFICES ASSUME NEW rank \in Admission!Ranks PROVE Admission!Denied(rank)
    BY DEF AllDenied
  <2>1. PICK q \in Admission!Enforced : \A r \in Admission!Enforced : rank[q] <= rank[r]
    BY <1>1, <1>5, SomeListedFirst
  <2> QED
    BY <1>5, <2>1 DEF Admission!Denied, Admission!Reached
<1>6. prom = "down" => Admission!Enforced = {}
  BY <1>1, IdealPhases
<1> QED
  BY <1>2, <1>3, <1>4, <1>5, <1>6

(* However many quotas a namespace has: if they all settle, as Convergence *)
(* says they do, then in the end the webhook refuses GPU pods exactly if   *)
(* an enforced quota is overspent.                                         *)
THEOREM ConvergenceEnforces == Spec /\ Convergence => EnforcementFollowsSpend
<1>1. TypeOK /\ (\A q \in Quotas : Steady(q)) /\ prom = "up" /\ AllLimitsParse
        => IF Overspent THEN AllDenied ELSE NoneDenied
  BY SteadyVerdict
<1>2. prom = "up" /\ AllLimitsParse => prom # "hung"
  OBVIOUS
<1> QED
  BY <1>1, <1>2, TypeCorrect, PTL DEF Convergence, EnforcementFollowsSpend

(* And it refuses none while Prometheus refuses queries.                   *)
THEOREM ConvergenceAllows == Spec /\ Convergence => UnmeasuredSpendAllows
<1>1. TypeOK /\ (\A q \in Quotas : Steady(q)) /\ prom = "down" => NoneDenied
  BY SteadyVerdict
<1>2. prom = "down" => prom # "hung"
  OBVIOUS
<1> QED
  BY <1>1, <1>2, TypeCorrect, PTL DEF Convergence, UnmeasuredSpendAllows

(* While settled quotas are left undisturbed no verdict changes, whatever  *)
(* the reconciler goes on doing.                                           *)
THEOREM VerdictsStand ==
  Spec => [][(\A q \in Quotas : Steady(q) /\ Undisturbed(q))
             => (AllDenied' <=> AllDenied) /\ (NoneDenied' <=> NoneDenied)]_vars
<1>1. ASSUME TypeOK, [Next]_vars, \A q \in Quotas : Steady(q) /\ Undisturbed(q)
      PROVE  (AllDenied' <=> AllDenied) /\ (NoneDenied' <=> NoneDenied)
  <2>1. \A q \in Quotas : Steady(q)' /\ api'[q] = api[q]
    BY <1>1, SteadyStep
  <2>2. ASSUME NEW q \in Quotas PROVE cache'[q] = cache[q]
    BY <1>1, <2>1 DEF Steady, CaughtUp
  <2>3. ListedQuotas' = ListedQuotas
    BY <2>2 DEF ListedQuotas
  <2> QED
    BY <2>3 DEF AllDenied, NoneDenied, Admission!Ranks, Admission!Denied, Admission!Reached,
                Admission!Enforced, Admission!Unmeasured, Admission!Exceeded,
                Admission!Audited, Admission!Listed
<1> QED
  BY <1>1, TypeCorrect, PTL DEF Spec
=============================================================================
