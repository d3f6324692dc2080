-------------------------- MODULE QuotaController --------------------------
(***************************************************************************)
(* The TeamInferenceQuota reconciler of the operator                       *)
(* (operator/internal/controller) together with the parts of               *)
(* controller-runtime and of the API server its correctness leans on: the  *)
(* informer cache the reconciler reads, which lags behind the API, the     *)
(* deduplicating work queue with its delayed entries, and the merge patch  *)
(* of the status subresource.  One worker, as SetupWithManager configures. *)
(***************************************************************************)
EXTENDS QuotaPhase, Sequences

CONSTANTS
  Quotas,           \* names of the TeamInferenceQuota objects
  Specs,            \* the specs a user may apply
  Usages,           \* what Prometheus may report of a namespace
  None,             \* stands for a missing object, series or event
  MaxDisturbances,  \* bound on the steps of users, metrics, faults
  MaxLag            \* bound on undelivered watch events per object

VARIABLES
  api,           \* [Quotas -> Objects or None], the objects the server stores
  watch,         \* [Quotas -> Seq], versions not yet delivered to the cache
  cache,         \* [Quotas -> Objects or None], what Get and List return
  queue,         \* [Quotas -> QueueStates], the work queue
  worker,        \* the reconcile in progress
  series,        \* [Quotas -> gauges or None], this process's registry
  events,        \* [Quotas -> event or None], last phase event of an object
  usage,         \* [Quotas -> Usages], true spend of the quota's namespace
  prom,          \* "up", "down" (queries fail) or "hung" (they never return)
  disturbances   \* environment steps taken so far

controllerVars == <<queue, worker, series, events>>
apiVars        == <<api, watch, cache>>
envVars        == <<usage, prom>>
vars           == <<apiVars, controllerVars, envVars, disturbances>>

-----------------------------------------------------------------------------
(* Objects and their status.  The two conditions are one field: a merge    *)
(* patch replaces the list as a whole.                                     *)

Conditions == [gen: Nat, spec: {"", "True", "False"},
               prom: {"", "True", "False", "Unknown"}]

Statuses == [phase: Phases \cup {""}, tokens: Nat, cost: Int,
             tokenPct: 0..100, costPct: 0..100, conditions: Conditions]

Objects == [spec: Specs, gen: Nat, status: Statuses]

Gauges == [limit: Int, cost: Nat, usedPct: 0..100, phase: 0..3]

Events == [from: Phases \cup {""}, to: Phases, audit: BOOLEAN]

QueueStates == {"none", "delayed", "backoff", "ready"}

Idle == [pc |-> "idle"]

Workers ==
  {Idle}
  \cup [pc: {"tokens"}, key: Quotas, base: Objects]
  \cup [pc: {"cost"}, key: Quotas, base: Objects, tokens: Nat, failed: BOOLEAN]
  \cup [pc: {"patch"}, key: Quotas, base: Objects, status: Statuses]
  \cup [pc: {"export"}, key: Quotas, object: Objects]

ASSUME ControllerAssumption ==
  /\ Specs \subseteq [budget: Nat, limit: Int, threshold: Int, mode: Modes]
  /\ Usages \subseteq [tokens: Nat, cost: Nat]
  /\ MaxDisturbances \in Nat
  /\ MaxLag \in Nat
  /\ None \notin Objects
  /\ None \notin Gauges
  /\ None \notin Events

NoStatus == [phase |-> "", tokens |-> 0, cost |-> NoCost, tokenPct |-> 0,
             costPct |-> 0, conditions |-> [gen |-> 0, spec |-> "", prom |-> ""]]

(* Mutant: only the figures are cleared, the last phase is kept.           *)
UnknownKeepsPhase(object, display, specOK, promCondition) ==
  [phase |-> IF object.status.phase = "" THEN "Unknown" ELSE object.status.phase,
   tokens |-> 0, cost |-> display, tokenPct |-> 0, costPct |-> 0,
   conditions |-> [gen |-> object.gen, spec |-> specOK, prom |-> promCondition]]

(* applyUnknownStatus, after the conditions have been set.                 *)
UnknownStatus(object, display, specOK, promCondition) ==
  [phase |-> "Unknown", tokens |-> 0, cost |-> display,
   tokenPct |-> 0, costPct |-> 0,
   conditions |-> [gen |-> object.gen, spec |-> specOK, prom |-> promCondition]]

MeasuredStatus(object, tokens, cost) ==
  [phase      |-> ComputePhase(object.spec, tokens, cost),
   tokens     |-> RoundTokens(tokens),
   cost       |-> FormatUSD(cost),
   tokenPct   |-> TokenBudgetRemainingPct(tokens, object.spec.budget),
   costPct    |-> CostBudgetRemainingPct(cost, object.spec.limit),
   conditions |-> [gen |-> object.gen, spec |-> "True", prom |-> "True"]]

(* Mutant: a token count that fell to zero is left out of the patch.       *)
MergeOmitsZero(server, base, new) ==
  [f \in DOMAIN new |-> IF new[f] = base[f] \/ (f = "tokens" /\ new[f] = 0)
                        THEN server[f] ELSE new[f]]

(* client.MergeFrom(base): the patch holds the fields in which the new     *)
(* status differs from the base the reconcile read, nothing else, and no   *)
(* resource version.  tokensUsedToday has no omitempty, so it is also sent *)
(* when the base had no status at all.                                     *)
Merge(server, base, new) ==
  LET Field(was, now, stored) == IF now # was THEN now ELSE stored
  IN [phase      |-> Field(base.phase, new.phase, server.phase),
      tokens     |-> IF base = NoStatus THEN new.tokens
                     ELSE Field(base.tokens, new.tokens, server.tokens),
      cost       |-> Field(base.cost, new.cost, server.cost),
      tokenPct   |-> Field(base.tokenPct, new.tokenPct, server.tokenPct),
      costPct    |-> Field(base.costPct, new.costPct, server.costPct),
      conditions |-> Field(base.conditions, new.conditions, server.conditions)]

(* Mutant: an unparseable limit makes the function return at once.         *)
UpdatedGaugesIfValid(old, object) ==
  IF ~LimitParses(object.spec.limit) /\ old # None THEN old
  ELSE [limit   |-> object.spec.limit,
        cost    |-> ParseCostUsedUSD(object.status.cost),
        usedPct |-> GaugeUsedPct(object.status),
        phase   |-> PhaseToFloat(object.status.phase)]

(* updateTIQMetrics.  The limit gauge keeps its value when the limit does  *)
(* not parse; -1 is a gauge never set.                                     *)
UpdatedGauges(old, object) ==
  [limit   |-> IF LimitParses(object.spec.limit) THEN object.spec.limit
               ELSE IF old = None THEN -1 ELSE old.limit,
   cost    |-> ParseCostUsedUSD(object.status.cost),
   usedPct |-> GaugeUsedPct(object.status),
   phase   |-> PhaseToFloat(object.status.phase)]

-----------------------------------------------------------------------------
(* The work queue and the informer (controller-runtime).                   *)

InProgress(q) == worker.pc # "idle" /\ worker.key = q

(* RequeueAfter ("delayed") and the rate-limited retry of a failed         *)
(* reconcile ("backoff"): the key comes back later, unless an event has    *)
(* made it ready in the meantime.                                          *)
AddAfter(q, wait) ==
  queue' = [queue EXCEPT ![q] = IF @ = "ready" THEN @ ELSE wait]

(* The server stores a version of q and sends it to the watchers.          *)
Store(q, version) ==
  /\ Len(watch[q]) < MaxLag
  /\ api'   = [api EXCEPT ![q] = version]
  /\ watch' = [watch EXCEPT ![q] = Append(@, version)]

(* Mutant: an event that arrives during the key's reconcile is not kept.   *)
DeliverUnlessInProgress(q) ==
  /\ watch[q] # <<>>
  /\ cache' = [cache EXCEPT ![q] = Head(watch[q])]
  /\ watch' = [watch EXCEPT ![q] = Tail(@)]
  /\ queue' = IF InProgress(q) THEN queue ELSE [queue EXCEPT ![q] = "ready"]
  /\ UNCHANGED <<api, worker, series, events, envVars, disturbances>>

(* The informer applies one event; For() without predicates enqueues the   *)
(* key of every event, the reconciler's own status writes included.        *)
Deliver(q) ==
  /\ watch[q] # <<>>
  /\ cache' = [cache EXCEPT ![q] = Head(watch[q])]
  /\ watch' = [watch EXCEPT ![q] = Tail(@)]
  /\ queue' = [queue EXCEPT ![q] = "ready"]
  /\ UNCHANGED <<api, worker, series, events, envVars, disturbances>>

TimerFires(q) ==
  /\ queue[q] \in {"delayed", "backoff"}
  /\ queue' = [queue EXCEPT ![q] = "ready"]
  /\ UNCHANGED <<apiVars, worker, series, events, envVars, disturbances>>

-----------------------------------------------------------------------------
(* Reconcile, one action per stretch between two calls to the outside.     *)

(* Mutant: every evaluation but an Active one leaves an event.             *)
EmitEventsEachTime(q, base, cur) ==
  events' = IF cur = "Active" THEN events
            ELSE [events EXCEPT ![q] =
              [from |-> base.status.phase, to |-> cur,
               audit |-> base.spec.mode = "Audit" /\ cur \in {"Warning", "Exceeded"}]]

(* Mutant: the first evaluation of a quota is never announced.             *)
EmitEventsOfKnown(q, base, cur) ==
  LET prev == base.status.phase
  IN events' = IF prev = cur \/ prev = "" THEN events
               ELSE [events EXCEPT ![q] =
                 [from |-> prev, to |-> cur,
                  audit |-> base.spec.mode = "Audit" /\ cur \in {"Warning", "Exceeded"}]]

(* emitPhaseEventIfNeeded and emitAuditEventIfNeeded: events leave before  *)
(* the patch is attempted.                                                 *)
EmitEvents(q, base, cur) ==
  LET prev == base.status.phase
  IN events' = IF prev = cur \/ (prev = "" /\ cur = "Active") THEN events
               ELSE [events EXCEPT ![q] =
                 [from |-> prev, to |-> cur,
                  audit |-> base.spec.mode = "Audit" /\ cur \in {"Warning", "Exceeded"}]]

TakeKey(q) ==
  /\ worker = Idle
  /\ queue[q] = "ready"
  /\ queue' = [queue EXCEPT ![q] = "none"]
  /\ UNCHANGED <<apiVars, envVars, disturbances>>

(* Mutant: the gauges of a deleted quota stay.                             *)
ReconcileDeletedKeepsSeries(q) ==
  TakeKey(q) /\ cache[q] = None /\ UNCHANGED <<worker, series, events>>

(* Get answers NotFound: the gauges are dropped and nothing is requeued.   *)
ReconcileDeleted(q) ==
  /\ TakeKey(q)
  /\ cache[q] = None
  /\ series' = [series EXCEPT ![q] = None]
  /\ UNCHANGED <<worker, events>>

ReconcileInvalidSpec(q) ==
  /\ TakeKey(q)
  /\ cache[q] # None
  /\ ~LimitParses(cache[q].spec.limit)
  /\ worker' = [pc |-> "patch", key |-> q, base |-> cache[q],
                status |-> UnknownStatus(cache[q], PlainZero, "False", "Unknown")]
  /\ EmitEvents(q, cache[q], "Unknown")
  /\ UNCHANGED series

ReconcileValidSpec(q) ==
  /\ TakeKey(q)
  /\ cache[q] # None
  /\ LimitParses(cache[q].spec.limit)
  /\ worker' = [pc |-> "tokens", key |-> q, base |-> cache[q]]
  /\ UNCHANGED <<series, events>>

StartReconcile(q) ==
  ReconcileDeleted(q) \/ ReconcileInvalidSpec(q) \/ ReconcileValidSpec(q)

(* The token query; the cost query follows even when this one failed.      *)
QueryTokens(q) ==
  /\ worker.pc = "tokens" /\ worker.key = q
  /\ prom # "hung"
  /\ worker' = [pc |-> "cost", key |-> q, base |-> worker.base,
                tokens |-> IF prom = "up" THEN usage[q].tokens ELSE 0,
                failed |-> prom = "down"]
  /\ UNCHANGED <<apiVars, queue, series, events, envVars, disturbances>>

QueryCost(q) ==
  /\ worker.pc = "cost" /\ worker.key = q
  /\ prom # "hung"
  /\ LET failed == worker.failed \/ prom = "down"
         status == IF failed
                   THEN UnknownStatus(worker.base, FormatUSD(0), "True", "False")
                   ELSE MeasuredStatus(worker.base, worker.tokens, usage[q].cost)
     IN /\ worker' = [pc |-> "patch", key |-> q, base |-> worker.base,
                      status |-> status]
        /\ EmitEvents(q, worker.base, status.phase)
  /\ UNCHANGED <<apiVars, queue, series, envVars, disturbances>>

(* What the server stores when it accepts the patch.                       *)
Patched(q) ==
  [api[q] EXCEPT !.status = Merge(api[q].status, worker.base.status, worker.status)]

(* The server applies the patch.  lastEvaluationTime has the resolution of *)
(* a second: when it moved, or any other field did, there is a new version *)
(* to watch; otherwise the patch changes nothing.                          *)
ServerAppliesPatch(q) ==
  /\ worker.pc = "patch" /\ worker.key = q
  /\ api[q] # None
  /\ \/ Store(q, Patched(q))
     \/ Patched(q) = api[q] /\ UNCHANGED <<api, watch>>
  /\ UNCHANGED cache

(* Status().Patch succeeds: the answer, the object as the server now has   *)
(* it, replaces the local copy.                                            *)
PatchStatus(q) ==
  /\ ServerAppliesPatch(q)
  /\ worker' = [pc |-> "export", key |-> q, object |-> Patched(q)]
  /\ UNCHANGED <<queue, series, events, envVars, disturbances>>

(* Mutant: the error is logged and not returned, so nothing is retried.    *)
SwallowError(q) ==
  /\ worker.pc = "patch" /\ worker.key = q
  /\ worker' = Idle
  /\ UNCHANGED <<queue, series, events, envVars>>

(* Reconcile returns an error: no gauge is touched, the key is retried.    *)
ReturnError(q) ==
  /\ worker.pc = "patch" /\ worker.key = q
  /\ worker' = Idle
  /\ AddAfter(q, "backoff")
  /\ UNCHANGED <<series, events, envVars>>

PatchNotFound(q) ==
  /\ api[q] = None
  /\ ReturnError(q)
  /\ UNCHANGED <<apiVars, disturbances>>

(* Mutant: Reconcile returns an empty Result.                              *)
ExportWithoutRequeue(q) ==
  /\ worker.pc = "export" /\ worker.key = q
  /\ series' = [series EXCEPT ![q] = UpdatedGauges(@, worker.object)]
  /\ worker' = Idle
  /\ UNCHANGED <<apiVars, queue, events, envVars, disturbances>>

(* updateTIQMetrics and the return with RequeueAfter.                      *)
ExportGauges(q) ==
  /\ worker.pc = "export" /\ worker.key = q
  /\ series' = [series EXCEPT ![q] = UpdatedGauges(@, worker.object)]
  /\ worker' = Idle
  /\ AddAfter(q, "delayed")
  /\ UNCHANGED <<apiVars, events, envVars, disturbances>>

ReconcileStep(q) ==
  \/ QueryTokens(q) \/ QueryCost(q)
  \/ PatchStatus(q) \/ PatchNotFound(q) \/ ExportGauges(q)

-----------------------------------------------------------------------------
(* Users, the metrics backend and faults; MaxDisturbances in all.          *)

Disturb ==
  /\ disturbances < MaxDisturbances
  /\ disturbances' = disturbances + 1

(* kubefisher quota set, or another tool, applies a whole spec; the one     *)
(* that is stored already makes no new version.                            *)
ApplySpec(q, spec) ==
  /\ Disturb
  /\ IF api[q] = None
     THEN Store(q, [spec |-> spec, gen |-> 1, status |-> NoStatus])
     ELSE /\ spec # api[q].spec
          /\ Store(q, [api[q] EXCEPT !.spec = spec, !.gen = @ + 1])
  /\ UNCHANGED <<cache, controllerVars, envVars>>

Delete(q) ==
  /\ Disturb
  /\ api[q] # None
  /\ Store(q, None)
  /\ UNCHANGED <<cache, controllerVars, envVars>>

ChangeUsage(q, u) ==
  /\ Disturb
  /\ u # usage[q]
  /\ usage' = [usage EXCEPT ![q] = u]
  /\ UNCHANGED <<apiVars, controllerVars, prom>>

ChangeProm(p) ==
  /\ Disturb
  /\ p # prom
  /\ prom' = p
  /\ UNCHANGED <<apiVars, controllerVars, usage>>

(* Status().Patch fails, or its answer is lost after the server applied it.*)
PatchFails(q) ==
  /\ Disturb
  /\ ReturnError(q)
  /\ ServerAppliesPatch(q) \/ UNCHANGED apiVars

(* The operator process restarts: the cache is listed anew, every object   *)
(* listed is enqueued, and the gauge registry starts empty.                *)
Restart ==
  /\ Disturb
  /\ cache'  = api
  /\ watch'  = [q \in Quotas |-> <<>>]
  /\ queue'  = [q \in Quotas |-> IF api[q] = None THEN "none" ELSE "ready"]
  /\ worker' = Idle
  /\ series' = [q \in Quotas |-> None]
  /\ UNCHANGED <<api, events, envVars>>

Environment ==
  \/ \E q \in Quotas : \/ \E spec \in Specs : ApplySpec(q, spec)
                       \/ \E u \in Usages : ChangeUsage(q, u)
                       \/ Delete(q) \/ PatchFails(q)
  \/ \E p \in {"up", "down", "hung"} : ChangeProm(p)
  \/ Restart

-----------------------------------------------------------------------------
Init ==
  /\ api    = [q \in Quotas |-> None]
  /\ watch  = [q \in Quotas |-> <<>>]
  /\ cache  = [q \in Quotas |-> None]
  /\ queue  = [q \in Quotas |-> "none"]
  /\ worker = Idle
  /\ series = [q \in Quotas |-> None]
  /\ events = [q \in Quotas |-> None]
  /\ usage  \in [Quotas -> Usages]
  /\ prom   = "up"
  /\ disturbances = 0

Next ==
  \/ \E q \in Quotas : Deliver(q) \/ TimerFires(q) \/ StartReconcile(q)
                       \/ ReconcileStep(q)
  \/ Environment

Spec == Init /\ [][Next]_vars

(* The watch and the timers make progress, the worker runs, and the queue  *)
(* hands out its ready keys in turn (strong fairness: a key is not         *)
(* available while the single worker is busy).                             *)
Fairness ==
  \A q \in Quotas : /\ WF_vars(Deliver(q))
                    /\ WF_vars(TimerFires(q))
                    /\ WF_vars(ReconcileStep(q))
                    /\ SF_vars(StartReconcile(q))

FairSpec == Spec /\ Fairness

-----------------------------------------------------------------------------
TypeOK ==
  /\ api    \in [Quotas -> Objects \cup {None}]
  /\ watch  \in [Quotas -> Seq(Objects \cup {None})]
  /\ cache  \in [Quotas -> Objects \cup {None}]
  /\ queue  \in [Quotas -> QueueStates]
  /\ worker \in Workers
  /\ series \in [Quotas -> Gauges \cup {None}]
  /\ events \in [Quotas -> Events \cup {None}]
  /\ usage  \in [Quotas -> Usages]
  /\ prom   \in {"up", "down", "hung"}
  /\ disturbances \in 0..MaxDisturbances

(* A key that will be looked at again: it is queued, delayed, or being     *)
(* reconciled.                                                             *)
Scheduled(q) == queue[q] # "none" \/ InProgress(q)

(* The 60s loop never loses a quota: whatever failed or was interrupted,   *)
(* a quota the operator knows of is scheduled for another evaluation.      *)
NeverForgotten == \A q \in Quotas : cache[q] # None => Scheduled(q)

(* Gauges of a deleted quota are never left behind: while the cache has no *)
(* quota and a series of it is still exported, the reconcile that deletes  *)
(* the series is scheduled, even when the deletion overtook a reconcile    *)
(* that was about to export.                                               *)
NoOrphanSeries ==
  \A q \in Quotas : cache[q] = None /\ series[q] # None => Scheduled(q)

(* The last evaluation of the quota succeeded, and nothing that happened   *)
(* since is known to the server only.                                      *)
AtRest(q) == queue[q] = "delayed" /\ ~InProgress(q) /\ watch[q] = <<>>

(* The status about to be exported is the stored one, unless an event of a *)
(* newer version is on its way or has already scheduled the next           *)
(* evaluation: no patch of this or of an earlier process went unnoticed.   *)
ExportIsCurrent ==
  \A q \in Quotas :
    worker.pc = "export" /\ worker.key = q /\ queue[q] # "ready"
    /\ watch[q] = <<>> /\ api[q] # None
      => worker.object.status = api[q].status

(* Between evaluations the gauges of a quota say what its stored status    *)
(* says, also after patches that were torn, refused or whose answer was    *)
(* lost, and after the quota was deleted and created again.                *)
GaugesMirrorStatus ==
  \A q \in Quotas :
    AtRest(q) /\ api[q] # None
      => /\ series[q] # None
         /\ series[q].phase = PhaseToFloat(api[q].status.phase)
         /\ series[q].cost = ParseCostUsedUSD(api[q].status.cost)
         /\ series[q].usedPct = GaugeUsedPct(api[q].status)

(* A patch computed from an up-to-date base stores exactly the status that *)
(* was computed, whatever it leaves out.                                   *)
FreshPatchIsExact ==
  [][\A q \in Quotas :
       PatchStatus(q) /\ worker.base.status = api[q].status
         => api'[q].status = worker.status]_vars

(* No silent transition: whenever a patch changes the phase the server     *)
(* stores, an event that names the new phase left before it, whatever was  *)
(* lost, refused, torn or repeated on the way.  The one exception is the   *)
(* code's own: an evaluation that took the quota for a new one and found   *)
(* it Active.                                                              *)
NoSilentTransition ==
  [][\A q \in Quotas :
       /\ api[q] # None /\ api'[q] # None
       /\ api'[q].status.phase # api[q].status.phase
       => \/ events[q] # None /\ events[q].to = api'[q].status.phase
          \/ worker.base.status.phase = "" /\ api'[q].status.phase = "Active"]_vars

(* The status an evaluation stores that nothing disturbs: Unknown when     *)
(* spend cannot be measured.                                               *)
Due(q) ==
  IF ~LimitParses(api[q].spec.limit) THEN UnknownStatus(api[q], PlainZero, "False", "Unknown")
  ELSE IF prom = "down" THEN UnknownStatus(api[q], FormatUSD(0), "True", "False")
  ELSE MeasuredStatus(api[q], usage[q].tokens, usage[q].cost)

IdealPhase(q) == Due(q).phase

(* A quota's status and gauges are right: they are the ones its spec and   *)
(* spend demand, and a deleted quota has no series.                        *)
Settled(q) ==
  IF api[q] = None THEN series[q] = None
  ELSE /\ api[q].status = Due(q)
       /\ series[q] # None
       /\ series[q].phase = PhaseToFloat(Due(q).phase)
       /\ series[q].cost = ParseCostUsedUSD(Due(q).cost)
       /\ series[q].usedPct = GaugeUsedPct(Due(q))

(* A version of the quota that differs from the stored one in status alone.*)
SameSpec(version, q) ==
  version # None /\ version.spec = api[q].spec /\ version.gen = api[q].gen

(* What an evaluation in progress has read and measured is still true,     *)
(* except perhaps the status in its base.                                  *)
Abreast(q) ==
  /\ worker.pc \in {"tokens", "cost", "patch"} => SameSpec(worker.base, q)
  /\ worker.pc \in {"tokens", "cost"} => LimitParses(api[q].spec.limit)
  /\ worker.pc = "cost" => /\ worker.failed = (prom = "down")
                           /\ ~worker.failed => worker.tokens = usage[q].tokens
  /\ worker.pc = "patch" => worker.status = Due(q)
  /\ worker.pc = "export" => worker.object = api[q]

(* What it has read is what the server holds.                              *)
OnCourse(q) ==
  IF api[q] = None THEN worker.pc # "export"
  ELSE /\ Abreast(q)
       /\ worker.pc \in {"tokens", "cost", "patch"} => worker.base = api[q]

(* The operator knows the stored version and none other is on its way.     *)
CaughtUp(q) == cache[q] = api[q] /\ \A i \in DOMAIN watch[q] : watch[q][i] = api[q]

(* Settled, and nothing is under way that could unsettle it.               *)
Steady(q) ==
  /\ Settled(q)
  /\ CaughtUp(q)
  /\ InProgress(q) => OnCourse(q)

(* Once the world stands still every quota settles for good, if Prometheus *)
(* answers or refuses in the end.                                          *)
Convergence ==
  <>[](prom # "hung") => <>[](\A q \in Quotas : Steady(q))

(* A step that leaves a quota's spec, its spend and Prometheus alone and   *)
(* is no restart: other quotas may change, calls may fail.                 *)
Undisturbed(q) ==
  /\ ~Restart
  /\ prom' = prom /\ usage'[q] = usage[q]
  /\ api[q] = None <=> api'[q] = None
  /\ api[q] # None => api'[q].spec = api[q].spec /\ api'[q].gen = api[q].gen

(* The endless re-evaluations of a settled quota do nothing: its own       *)
(* writes come back as events, patches fail or are repeated, and yet       *)
(* status, gauges and the last phase event stay as they are until its      *)
(* spec, its spend or Prometheus change.                                   *)
SettledStaysQuiet ==
  [][\A q \in Quotas :
       Steady(q) /\ Undisturbed(q)
         => /\ Steady(q)' /\ api'[q] = api[q]
            /\ api[q] # None => events'[q] = events[q]]_vars

(* The stored status is the one due; older statuses may still be cached,   *)
(* on their way, or the base of the evaluation in progress.                *)
Evaluated(q) ==
  /\ api[q] # None /\ api[q].status = Due(q)
  /\ SameSpec(cache[q], q) /\ \A i \in DOMAIN watch[q] : SameSpec(watch[q][i], q)
  /\ InProgress(q) => Abreast(q)

(* The evaluation in progress, or else the next one, will get q right.     *)
OnTrack(q) ==
  \/ CaughtUp(q) /\ (InProgress(q) => OnCourse(q) /\ worker.pc # "export")
  \/ Evaluated(q)

(* The rungs of Convergence: a quota the operator is informed of stays on  *)
(* track until something disturbs it, the first evaluation that finishes   *)
(* settles it, and later ones, from stale bases too, keep it settled.      *)
OneEvaluationSettles ==
  [][\A q \in Quotas :
       OnTrack(q) /\ Undisturbed(q)
         => /\ OnTrack(q)'
            /\ Settled(q) \/ ExportGauges(q) \/ ReconcileDeleted(q) => Settled(q)']_vars

-----------------------------------------------------------------------------
(* What documents and comments say and the code does not do.               *)

(* docs/security.md: when spend cannot be measured "the webhook must not   *)
(* block blind".  With Prometheus out of service for good no quota would   *)
(* stay Exceeded, the phase the webhook denies pods for.                   *)
NeverBlocksBlind ==
  <>[](prom # "up") =>
    <>[](\A q \in Quotas : api[q] # None => api[q].status.phase # "Exceeded")
=============================================================================
