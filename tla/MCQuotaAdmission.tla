-------------------------- MODULE MCQuotaAdmission --------------------------
(* A small instance of QuotaAdmission for TLC.                             *)
EXTENDS QuotaAdmission

C(requests, limits) == [requests |-> requests, limits |-> limits]

(* No GPU, an explicit zero, a GPU limit, a GPU in an init container only. *)
MCPods == { [init |-> {}, main |-> {C(Missing, Missing)}],
            [init |-> {}, main |-> {C(0, 0)}],
            [init |-> {}, main |-> {C(Missing, Missing), C(Missing, 1)}],
            [init |-> {C(1, 1)}, main |-> {C(Missing, Missing)}] }
=============================================================================
