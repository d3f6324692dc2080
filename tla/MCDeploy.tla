------------------------------ MODULE MCDeploy ------------------------------
(* Deploy for TLC: a and b are models with one name; the name of d begins  *)
(* with a digit; e is the id of a repository of an organisation.           *)
EXTENDS Deploy, TLC

CONSTANTS a, b, d, e, x, y, z

MCModels == {a, b, d, e}
MCNames == {x, y, z}
MCSlug == a :> x @@ b :> x @@ d :> y @@ e :> z
MCLabelValues == {a, b, d}
MCServiceNames == {x, z}

Asking(model, replicas, dryRun, timed) ==
  [model |-> model, replicas |-> replicas, dryRun |-> dryRun, timed |-> timed]

MCOptionsOf ==
  "u" :> {Asking(a, 1, FALSE, FALSE), Asking(d, 1, FALSE, FALSE)} @@
  "v" :> {Asking(a, 1, FALSE, FALSE), Asking(b, 2, FALSE, TRUE), Asking(e, 1, FALSE, TRUE)}
MCOptions == MCOptionsOf["u"] \cup MCOptionsOf["v"]
=============================================================================
