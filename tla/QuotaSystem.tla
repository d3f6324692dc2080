---------------------------- MODULE QuotaSystem ----------------------------
(***************************************************************************)
(* The operator process as one: the reconciler of QuotaController writes   *)
(* phases, the webhook of QuotaAdmission reads them back from the cache    *)
(* both share (operator/cmd/main.go gives both the manager's client).  A   *)
(* verdict is a function of that cache, so the composition has no state of *)
(* its own; its properties relate verdicts to true spend.                  *)
(***************************************************************************)
EXTENDS QuotaController, FiniteSets

(* What the webhook's List returns.                                        *)
ListedQuotas ==
  [q \in Quotas |->
     IF cache[q] = None THEN None
     ELSE [phase |-> cache[q].status.phase, mode |-> cache[q].spec.mode]]

(* A labelled namespace and a webhook that answers.                        *)
Admission == INSTANCE QuotaAdmission WITH
  Pods <- {}, listed <- ListedQuotas, optedIn <- TRUE, serving <- TRUE,
  listFails <- FALSE, decision <- [gpu |-> FALSE, denied |-> FALSE, audited |-> {}]

ASSUME SystemAssumption ==
  /\ IsFiniteSet(Quotas)
  /\ None \notin Admission!Entries

(* What the reconciler does to the cache is what the webhook can expect.   *)
WebhookEnvironment == Admission!Spec

AllDenied  == \A rank \in Admission!Ranks : Admission!Denied(rank)
NoneDenied == \A rank \in Admission!Ranks : ~Admission!Denied(rank)

Overspent ==
  \E q \in Quotas : /\ api[q] # None
                    /\ api[q].spec.mode # "Audit"
                    /\ IdealPhase(q) = "Exceeded"

AllLimitsParse == \A q \in Quotas : api[q] # None => LimitParses(api[q].spec.limit)

(* While Prometheus answers, GPU pods end up refused exactly if some quota *)
(* with mode Enforce is overspent, in whatever order the quotas are listed,*)
(* once users have stopped editing and spend has stopped changing.  (An    *)
(* unparseable limit keeps its quota Unknown, which lets pods pass.)       *)
EnforcementFollowsSpend ==
  <>[](prom = "up" /\ AllLimitsParse) =>
    <>[](IF Overspent THEN AllDenied ELSE NoneDenied)

(* While Prometheus refuses queries no GPU pod is refused for long.        *)
UnmeasuredSpendAllows == <>[](prom = "down") => <>[]NoneDenied
=============================================================================
