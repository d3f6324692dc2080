---------------------------- MODULE QuotaPolicy ----------------------------
(***************************************************************************)
(* What GPU pod admission promises, without saying how it is decided: the  *)
(* verdict on a pod depends on the set of quotas of its namespace, never   *)
(* on the order in which they are read.  QuotaAdmission implements it.     *)
(***************************************************************************)
CONSTANTS
  Quotas,   \* names of quotas in the pod's namespace
  None      \* a quota that does not exist

VARIABLES
  listed,    \* [Quotas -> Entry or None], the quotas admission knows of
  inForce,   \* the webhook is asked about this namespace and can answer
  decision   \* the last verdict

vars == <<listed, inForce, decision>>

Entries == [phase: {"", "Unknown", "Active", "Warning", "Exceeded"},
            mode: {"", "Enforce", "Audit"}]

WithPhase(phase) == {q \in Quotas : listed[q] # None /\ listed[q].phase = phase}

Unmeasured == WithPhase("Unknown")
AuditedSet == {q \in WithPhase("Exceeded") : listed[q].mode = "Audit"}
Blocking   == WithPhase("Exceeded") \ AuditedSet

NoDecision == [gpu |-> FALSE, denied |-> FALSE, audited |-> {}]

Init ==
  /\ listed  = [q \in Quotas |-> None]
  /\ inForce \in BOOLEAN
  /\ decision = NoDecision

(* A pod is refused only when a quota is overspent and enforced; it passes *)
(* only when none is, or spend is not known, or admission is out of force. *)
(* The audit trail names overspent audit quotas, and all of them when      *)
(* nothing cuts the inspection short.                                      *)
Admit(gpu, denied, audited) ==
  /\ denied  => gpu /\ inForce /\ Blocking # {}
  /\ ~denied => ~gpu \/ ~inForce \/ Blocking = {} \/ Unmeasured # {}
  /\ audited \subseteq AuditedSet
  /\ audited # {} => gpu /\ inForce
  /\ gpu /\ inForce /\ Blocking \cup Unmeasured = {} => audited = AuditedSet
  /\ decision' = [gpu |-> gpu, denied |-> denied, audited |-> audited]
  /\ UNCHANGED <<listed, inForce>>

QuotasChange ==
  /\ listed' \in [Quotas -> Entries \cup {None}]
  /\ UNCHANGED <<inForce, decision>>

ForceChanges ==
  /\ inForce' \in BOOLEAN
  /\ UNCHANGED <<listed, decision>>

Next ==
  \/ \E gpu, denied \in BOOLEAN, audited \in SUBSET Quotas : Admit(gpu, denied, audited)
  \/ QuotasChange
  \/ ForceChanges

Spec == Init /\ [][Next]_vars
=============================================================================
