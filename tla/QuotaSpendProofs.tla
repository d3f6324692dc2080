-------------------------- MODULE QuotaSpendProofs --------------------------
(***************************************************************************)
(* Proofs about the arithmetic of QuotaPhase, for any budget, limit and    *)
(* threshold, along any growth of spend.                                   *)
(***************************************************************************)
EXTENDS QuotaSpend, TLAPS

SpendType ==
  /\ spec \in [budget: Nat, limit: Nat, threshold: Int]
  /\ tokens \in Nat
  /\ cost \in Nat

(* A threshold out of range counts as 80.                                  *)
LEMMA ThresholdRange ==
  ASSUME NEW pct \in Int
  PROVE  EffectiveAlertThreshold(pct) \in 1..100
BY DEF EffectiveAlertThreshold

(* The tests computePhase makes are monotone in what was used.             *)
LEMMA TokenExceededGrows ==
  ASSUME NEW a \in Nat, NEW b \in Nat, a <= b, NEW budget \in Nat, TokenExceeded(a, budget)
  PROVE  TokenExceeded(b, budget)
BY DEF TokenExceeded, TokenUnit

(* A cost limit once exceeded stays exceeded as cost grows.                *)
LEMMA CostExceededGrows ==
  ASSUME NEW a \in Nat, NEW b \in Nat, a <= b, NEW limit \in Nat, CostExceeded(a, limit)
  PROVE  CostExceeded(b, limit)
BY DEF CostExceeded, CentUnit

(* An alert threshold once reached stays reached as spend grows.           *)
LEMMA AtThresholdGrows ==
  ASSUME NEW a \in Nat, NEW b \in Nat, a <= b, NEW full \in Nat, NEW threshold \in Nat,
         AtThreshold(a, full, threshold)
  PROVE  AtThreshold(b, full, threshold)
<1> DEFINE bar == threshold * full
<1>1. bar \in Nat
  OBVIOUS
<1>2. full > 0 /\ 100 * a >= bar
  BY DEF AtThreshold
<1> HIDE DEF bar
<1>3. 100 * b >= bar
  BY <1>1, <1>2
<1> QED
  BY <1>2, <1>3 DEF AtThreshold, bar

(* Hence the phase is monotone, for all amounts of spend.                  *)
LEMMA PhaseGrows ==
  ASSUME NEW s \in [budget: Nat, limit: Nat, threshold: Int],
         NEW t1 \in Nat, NEW t2 \in Nat, t1 <= t2,
         NEW c1 \in Nat, NEW c2 \in Nat, c1 <= c2
  PROVE  PhaseToFloat(ComputePhase(s, t1, c1)) <= PhaseToFloat(ComputePhase(s, t2, c2))
<1> DEFINE th == EffectiveAlertThreshold(s.threshold)
           Over(t, c) == TokenExceeded(t, s.budget) \/ CostExceeded(c, s.limit)
           Warned(t, c) == \/ AtThreshold(t, TokenUnit * s.budget, th)
                           \/ AtThreshold(c, CentUnit * s.limit, th)
<1>1. th \in Nat /\ s.budget \in Nat /\ s.limit \in Nat
  BY ThresholdRange
<1>2. TokenUnit * s.budget \in Nat /\ CentUnit * s.limit \in Nat
  BY <1>1 DEF TokenUnit, CentUnit
<1>3. Over(t1, c1) => Over(t2, c2)
  BY <1>1, TokenExceededGrows, CostExceededGrows
<1>4. Warned(t1, c1) => Warned(t2, c2)
  <2> HIDE DEF th
  <2> QED
    BY <1>1, <1>2, AtThresholdGrows
<1>5. /\ ComputePhase(s, t1, c1) =
           IF Over(t1, c1) THEN "Exceeded" ELSE IF Warned(t1, c1) THEN "Warning" ELSE "Active"
      /\ ComputePhase(s, t2, c2) =
           IF Over(t2, c2) THEN "Exceeded" ELSE IF Warned(t2, c2) THEN "Warning" ELSE "Active"
  BY DEF ComputePhase
<1> HIDE DEF Over, Warned
<1>6. PhaseToFloat("Active") = 1 /\ PhaseToFloat("Warning") = 2 /\ PhaseToFloat("Exceeded") = 3
  BY DEF PhaseToFloat
<1>7. CASE Over(t2, c2)
  BY <1>5, <1>6, <1>7
<1>8. CASE ~Over(t2, c2)
  BY <1>3, <1>4, <1>5, <1>6, <1>8
<1> QED
  BY <1>7, <1>8

(* Spend is measured in natural numbers, and the spec does not change.     *)
LEMMA SpendTypeCorrect == Spec => []SpendType
<1>1. Init => SpendType
  <2> SUFFICES ASSUME Init PROVE spec \in [budget: Nat, limit: Nat, threshold: Int]
    BY DEF Init, SpendType
  <2>1. spec \in [budget: 0..MaxBudget, limit: 0..MaxLimit, threshold: Thresholds]
    BY DEF Init
  <2>2. 0..MaxBudget \subseteq Nat /\ 0..MaxLimit \subseteq Nat /\ Thresholds \subseteq Int
    BY SpendAssumption
  <2> QED
    BY <2>1, <2>2
<1>2. SpendType /\ [Next]_vars => SpendType'
  BY DEF SpendType, Next, SpendToken, SpendCost, vars
<1> QED
  BY <1>1, <1>2, PTL DEF Spec

(* More spend never improves the phase, under any spec.                    *)
THEOREM SpendNeverImproves == Spec => SpendNeverImprovesPhase
<1>1. SpendType /\ [Next]_vars =>
        [PhaseToFloat(ComputePhase(spec, tokens, cost)) <=
         PhaseToFloat(ComputePhase(spec', tokens', cost'))]_vars
  <2> SUFFICES ASSUME SpendType, Next
               PROVE  PhaseToFloat(ComputePhase(spec, tokens, cost)) <=
                      PhaseToFloat(ComputePhase(spec', tokens', cost'))
    OBVIOUS
  <2>1. /\ spec' = spec
        /\ tokens' \in Nat /\ tokens <= tokens'
        /\ cost' \in Nat /\ cost <= cost'
    BY DEF SpendType, Next, SpendToken, SpendCost
  <2> QED
    BY <2>1, PhaseGrows DEF SpendType
<1> QED
  BY <1>1, SpendTypeCorrect, PTL DEF Spec, SpendNeverImprovesPhase

-----------------------------------------------------------------------------
(* Percentages and phase.                                                  *)

(* A quotient is at least every factor that fits.                          *)
LEMMA QuotientBound ==
  ASSUME NEW a \in Int, NEW b \in Nat \ {0}, NEW k \in Int, k * b <= a
  PROVE  k <= a \div b
<1> DEFINE n == a \div b
<1>1. n \in Int /\ a < b * (n + 1)
  BY Z3
<1> HIDE DEF n
<1>2. ASSUME n + 1 <= k PROVE FALSE
  <2>1. b * (n + 1) <= b * k
    BY <1>1, <1>2, Z3
  <2> QED
    BY <1>1, <2>1, Z3
<1> QED
  BY <1>1, <1>2 DEF n

(* Nothing remains of a budget that is used up.                            *)
LEMMA NothingRemains ==
  ASSUME NEW used \in Nat, NEW full \in Nat, used >= full
  PROVE  RemainingPct(used, full) = 0
<1>1. CASE full = 0
  BY <1>1 DEF RemainingPct
<1>2. CASE full > 0
  <2>1. full \div (2 * full) = 0
    BY <1>2, Z3
  <2>2. (IF used > full THEN 0 ELSE full - used) = 0
    BY <1>2
  <2> QED
    BY <1>2, <2>1, <2>2 DEF RemainingPct
<1> QED
  BY <1>1, <1>2

(* Below the alert threshold, more remains than the threshold leaves.      *)
LEMMA MuchRemains ==
  ASSUME NEW used \in Nat, NEW full \in Nat \ {0}, NEW threshold \in 1..100,
         100 * used < threshold * full
  PROVE  RemainingPct(used, full) >= 100 - threshold
<1> DEFINE bar == threshold * full
           left == full - used
           rounded == (200 * left + full) \div (2 * full)
<1>1. bar \in Nat /\ bar <= 100 * full
  BY Z3
<1>2. used < full
  BY <1>1
<1>3. (100 - threshold) * (2 * full) = 200 * full - 2 * bar
  BY Z3
<1>4. (100 - threshold) * (2 * full) <= 200 * left + full
  <2> HIDE DEF bar
  <2> QED
    BY <1>1, <1>2, <1>3 DEF bar
<1>5. rounded \in Int /\ 100 - threshold <= rounded
  <2>1. 200 * left + full \in Int /\ 2 * full \in Nat \ {0} /\ 100 - threshold \in Int
    OBVIOUS
  <2> QED
    BY <1>4, <2>1, QuotientBound
<1> HIDE DEF rounded
<1>6. RemainingPct(used, full) =
        IF full <= 0 \/ rounded < 0 THEN 0 ELSE IF rounded > 100 THEN 100 ELSE rounded
  BY <1>2 DEF RemainingPct, rounded
<1> QED
  BY <1>5, <1>6

(* What status shows agrees with the phase, for every spec and spend.      *)
THEOREM PercentagesAgree == Spec => []PercentagesAgreeWithPhase
<1>1. SpendType => PercentagesAgreeWithPhase
  <2> SUFFICES ASSUME SpendType PROVE PercentagesAgreeWithPhase
    OBVIOUS
  <2>1. spec.budget \in Nat /\ spec.limit \in Nat /\ tokens \in Nat /\ cost \in Nat
        /\ EffectiveAlertThreshold(spec.threshold) \in 1..100
    BY ThresholdRange DEF SpendType
  <2>2. ASSUME Phase = "Exceeded" PROVE TokenPct = 0 \/ CostPct = 0
    <3>1. CASE TokenExceeded(tokens, spec.budget)
      <4>1. RoundTokens(tokens) \in Nat /\ RoundTokens(tokens) >= spec.budget
        BY <2>1, <3>1 DEF TokenExceeded, RoundTokens, TokenUnit
      <4> QED
        BY <2>1, <4>1, NothingRemains DEF TokenPct, TokenBudgetRemainingPct
    <3>2. CASE CostExceeded(cost, spec.limit)
      <4>1. CentUnit * spec.limit \in Nat /\ cost >= CentUnit * spec.limit
        BY <2>1, <3>2 DEF CostExceeded, CentUnit
      <4> QED
        BY <2>1, <4>1, NothingRemains DEF CostPct, CostBudgetRemainingPct
    <3> QED
      BY <2>2, <3>1, <3>2 DEF Phase, ComputePhase
  <2>3. ASSUME Phase = "Active", spec.limit > 0
        PROVE  CostPct >= 100 - EffectiveAlertThreshold(spec.threshold)
    <3>1. ~AtThreshold(cost, CentUnit * spec.limit, EffectiveAlertThreshold(spec.threshold))
      BY <2>3 DEF Phase, ComputePhase
    <3>2. CentUnit * spec.limit \in Nat \ {0}
      BY <2>1, <2>3 DEF CentUnit
    <3> DEFINE full == CentUnit * spec.limit
               threshold == EffectiveAlertThreshold(spec.threshold)
    <3>3. full \in Nat \ {0} /\ threshold \in 1..100 /\ ~AtThreshold(cost, full, threshold)
      BY <2>1, <3>1, <3>2
    <3> HIDE DEF full, threshold
    <3>4. threshold * full \in Int
      BY <3>3
    <3>5. 100 * cost < threshold * full
      BY <2>1, <3>3, <3>4 DEF AtThreshold
    <3>6. RemainingPct(cost, full) >= 100 - threshold
      BY <2>1, <3>3, <3>5, MuchRemains
    <3> QED
      BY <3>6 DEF full, threshold, CostPct, CostBudgetRemainingPct
  <2> QED
    BY <2>2, <2>3 DEF PercentagesAgreeWithPhase
<1> QED
  BY <1>1, SpendTypeCorrect, PTL
=============================================================================
