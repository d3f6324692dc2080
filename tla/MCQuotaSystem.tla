--------------------------- MODULE MCQuotaSystem ---------------------------
(* A small instance of QuotaSystem for TLC: two quotas of one namespace.   *)
EXTENDS QuotaSystem

Quota(budget, limit, mode) ==
  [budget |-> budget, limit |-> limit, threshold |-> 50, mode |-> mode]

MCSpecs  == {Quota(2, 10, "Enforce"), Quota(2, 10, "Audit"), Quota(2, -1, "Enforce")}
MCUsages == {[tokens |-> 0, cost |-> 0], [tokens |-> 5, cost |-> 0]}
=============================================================================
