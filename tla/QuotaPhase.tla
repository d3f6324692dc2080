----------------------------- MODULE QuotaPhase -----------------------------
(***************************************************************************)
(* The arithmetic of the TeamInferenceQuota operator: how measured spend   *)
(* and a spec become a phase, two remaining percentages and four gauges.   *)
(* Pure operators, translated from operator/internal/controller/phase.go,  *)
(* metrics.go and the parsing and formatting helpers of the controller.    *)
(*                                                                         *)
(* Units.  Prometheus answers are floats.  Tokens are measured here in     *)
(* half tokens and cost in thirds of a cent, so that rounding to a whole   *)
(* token or to a cent is visible; budgets are whole tokens, limits cents.  *)
(***************************************************************************)
EXTENDS Integers

TokenUnit == 2
CentUnit  == 3

Phases == {"Unknown", "Active", "Warning", "Exceeded"}
Modes  == {"Enforce", "Audit"}

(* monthlyCostLimitUSD is a string: a value below zero stands for one that *)
(* does not parse (empty, out of float range, negative).                   *)
LimitParses(limit) == limit >= 0

(* status.costUsedThisMonth is a string too: "" before the first           *)
(* evaluation, "0.00" on the early Unknown paths, "$x.yz" otherwise.       *)
NoCost    == -2
PlainZero == -1
FormatUSD(cost) == (cost + 1) \div CentUnit
ParseCostUsedUSD(display) == IF display < 0 THEN 0 ELSE display

RoundTokens(tokens) == (tokens + 1) \div TokenUnit

EffectiveAlertThreshold(pct) == IF pct \in 1..100 THEN pct ELSE 80

TokenExceeded(tokens, budget) ==
  \/ budget = 0 /\ tokens > 0
  \/ budget > 0 /\ tokens >= TokenUnit * budget

(* Mutant: the amount shown, rounded to a cent, is compared.               *)
CostExceededAsShown(cost, limit) == limit > 0 /\ FormatUSD(cost) >= limit

CostExceeded(cost, limit) == limit > 0 /\ cost >= CentUnit * limit

(* 100 * used / full >= threshold; a utilization over nothing is zero.     *)
AtThreshold(used, full, threshold) ==
  full > 0 /\ 100 * used >= threshold * full

(* Mutant: the alert threshold is looked at first.                         *)
ComputePhaseWarnsFirst(spec, tokens, cost) ==
  LET threshold == EffectiveAlertThreshold(spec.threshold)
  IN  IF \/ AtThreshold(tokens, TokenUnit * spec.budget, threshold)
         \/ AtThreshold(cost, CentUnit * spec.limit, threshold)
      THEN "Warning"
      ELSE IF TokenExceeded(tokens, spec.budget) \/ CostExceeded(cost, spec.limit)
           THEN "Exceeded" ELSE "Active"

ComputePhase(spec, tokens, cost) ==
  LET threshold == EffectiveAlertThreshold(spec.threshold)
      warned    == \/ AtThreshold(tokens, TokenUnit * spec.budget, threshold)
                   \/ AtThreshold(cost, CentUnit * spec.limit, threshold)
  IN  IF TokenExceeded(tokens, spec.budget) \/ CostExceeded(cost, spec.limit)
      THEN "Exceeded"
      ELSE IF warned THEN "Warning" ELSE "Active"

(* Mutant: the clamps are missing.                                         *)
UnclampedPct(used, full) ==
  IF full <= 0 THEN 0 ELSE (200 * (full - used) + full) \div (2 * full)

(* 100 - 100 * used / full, rounded half away from zero, within 0..100.    *)
RemainingPct(used, full) ==
  LET left    == IF used > full THEN 0 ELSE full - used
      rounded == (200 * left + full) \div (2 * full)
  IN  IF full <= 0 \/ rounded < 0 THEN 0
      ELSE IF rounded > 100 THEN 100 ELSE rounded

TokenBudgetRemainingPct(tokens, budget) == RemainingPct(RoundTokens(tokens), budget)
CostBudgetRemainingPct(cost, limit)     == RemainingPct(cost, CentUnit * limit)

PhaseToFloat(phase) ==
  CASE phase = "Active"   -> 1
    [] phase = "Warning"  -> 2
    [] phase = "Exceeded" -> 3
    [] OTHER              -> 0

GaugeUsedPct(status) == 100 - status.costPct
=============================================================================
