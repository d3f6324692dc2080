----------------------------- MODULE QuotaSpend -----------------------------
(***************************************************************************)
(* Spend of one namespace grows from nothing, in steps of the measuring    *)
(* unit, under every small spec: the arithmetic of QuotaPhase is checked   *)
(* along the way.                                                          *)
(***************************************************************************)
EXTENDS QuotaPhase

CONSTANTS
  MaxBudget,   \* bound on dailyTokenBudget
  MaxLimit,    \* bound on monthlyCostLimitUSD, in cents
  Thresholds   \* values of alertThresholdPct, valid or not

ASSUME SpendAssumption ==
  MaxBudget \in Nat /\ MaxLimit \in Nat /\ Thresholds \subseteq Int

VARIABLES spec, tokens, cost

vars == <<spec, tokens, cost>>

Init ==
  /\ spec \in [budget: 0..MaxBudget, limit: 0..MaxLimit, threshold: Thresholds]
  /\ tokens = 0
  /\ cost = 0

SpendToken ==
  /\ tokens < TokenUnit * (MaxBudget + 1)
  /\ tokens' = tokens + 1
  /\ UNCHANGED <<spec, cost>>

SpendCost ==
  /\ cost < CentUnit * (MaxLimit + 1)
  /\ cost' = cost + 1
  /\ UNCHANGED <<spec, tokens>>

Next == SpendToken \/ SpendCost

Spec == Init /\ [][Next]_vars

Phase    == ComputePhase(spec, tokens, cost)
TokenPct == TokenBudgetRemainingPct(tokens, spec.budget)
CostPct  == CostBudgetRemainingPct(cost, spec.limit)

(* More spend under the same spec never improves the phase: no rounding,   *)
(* threshold or zero budget lets a quota that was over its limit (or past  *)
(* its warning) look better because more was spent.                        *)
SpendNeverImprovesPhase ==
  [][PhaseToFloat(ComputePhase(spec, tokens, cost)) <=
     PhaseToFloat(ComputePhase(spec', tokens', cost'))]_vars

(* What status shows agrees with the phase: a quota that is Exceeded shows *)
(* a remaining percentage of 0, and an Active quota with a cost limit      *)
(* shows more of it left than the alert threshold leaves, up to rounding.  *)
PercentagesAgreeWithPhase ==
  /\ Phase = "Exceeded" => TokenPct = 0 \/ CostPct = 0
  /\ Phase = "Active" /\ spec.limit > 0 =>
       CostPct >= 100 - EffectiveAlertThreshold(spec.threshold)
=============================================================================
