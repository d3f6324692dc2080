------------------------- MODULE MCQuotaController -------------------------
(* Small instances of QuotaController for TLC.                             *)
EXTENDS QuotaController

Quota(budget, limit, mode) ==
  [budget |-> budget, limit |-> limit, threshold |-> 50, mode |-> mode]

Usage(tokens, cost) == [tokens |-> TokenUnit * tokens, cost |-> CentUnit * cost]

(* A tight budget, a wide one in Audit mode, and a limit that is no number.*)
MCSpecs == {Quota(2, 10, "Enforce"), Quota(8, 10, "Audit"), Quota(2, -1, "Enforce")}

(* Idle, over the tight token budget, over the cost limit.                 *)
MCUsages == {Usage(0, 0), Usage(3, 1), Usage(1, 12)}

(* Fewer choices, for the runs that look for one behaviour.                *)
TwoSpecs  == {Quota(2, 10, "Enforce"), Quota(2, -1, "Enforce")}
TwoUsages == {Usage(0, 0), Usage(1, 12)}
=============================================================================
