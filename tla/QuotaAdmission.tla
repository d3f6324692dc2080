--------------------------- MODULE QuotaAdmission ---------------------------
(***************************************************************************)
(* The validating webhook on Pod CREATE                                    *)
(* (operator/internal/webhook/pod_webhook.go) and what the API server puts *)
(* in front of it: the namespace selector and failurePolicy Ignore.        *)
(*                                                                         *)
(* ValidateCreate lists the quotas of the pod's namespace from the         *)
(* manager's cache and walks the list, in an order the cache does not      *)
(* promise (it iterates over a map).  A walk is described by the rank of   *)
(* each quota in the list: the walk returns at the quota of lowest rank    *)
(* whose phase makes it return.                                            *)
(***************************************************************************)
EXTENDS Integers, FiniteSets

CONSTANTS
  Quotas,   \* names of quotas in the namespace
  None,     \* a quota that does not exist
  Pods      \* the pods users create

VARIABLES
  listed,     \* [Quotas -> Entry or None], what List returns
  optedIn,    \* the namespace carries the enforcement label
  serving,    \* the webhook is reachable
  listFails,  \* List returns an error
  decision    \* the last verdict

vars == <<listed, optedIn, serving, listFails, decision>>

Phases  == {"Unknown", "Active", "Warning", "Exceeded"}
Entries == [phase: Phases \cup {""}, mode: {"", "Enforce", "Audit"}]

Missing == -1
Containers == [requests: Int, limits: Int]

ASSUME AdmissionAssumption ==
  /\ IsFiniteSet(Quotas)
  /\ None \notin Entries
  /\ Pods \subseteq [init: SUBSET Containers, main: SUBSET Containers]

ContainerRequestsGPU(c) == c.requests > 0 \/ c.limits > 0

PodRequestsGPU(pod) == \E c \in pod.init \cup pod.main : ContainerRequestsGPU(c)

Listed == {q \in Quotas : listed[q] # None}

Ranks == {rank \in [Quotas -> 1..Cardinality(Quotas)] :
            \A q, r \in Quotas : rank[q] = rank[r] => q = r}

-----------------------------------------------------------------------------
(* The walk over the list.                                                 *)

Unmeasured == {q \in Listed : listed[q].phase = "Unknown"}
Exceeded   == {q \in Listed : listed[q].phase = "Exceeded"}
Audited    == {q \in Exceeded : listed[q].mode = "Audit"}

(* Mutant: the default of an empty mode is forgotten.                      *)
EnforcedByName == {q \in Exceeded : listed[q].mode = "Enforce"}

Enforced == Exceeded \ Audited      \* an empty mode means Enforce

(* Mutant: an Active quota ends the walk too.                              *)
ReachedBeforeActive(rank, q) ==
  \A r \in Listed : listed[r].phase = "Active" \/ r \in Unmeasured \cup Enforced
                      => rank[q] <= rank[r]

(* Unknown and enforced Exceeded quotas end the walk.                      *)
Reached(rank, q) == \A r \in Unmeasured \cup Enforced : rank[q] <= rank[r]

(* Mutant: only the first quota of the list is looked at.                  *)
DeniedByFirst(rank) == \E q \in Enforced : \A r \in Listed : rank[q] <= rank[r]

Denied(rank) == \E q \in Enforced : Reached(rank, q)

AuditEvents(rank) == {q \in Audited : Reached(rank, q)}

ValidateCreate(pod, rank) ==
  IF ~PodRequestsGPU(pod) \/ listFails
  THEN [gpu |-> PodRequestsGPU(pod), denied |-> FALSE, audited |-> {}]
  ELSE [gpu |-> TRUE, denied |-> Denied(rank), audited |-> AuditEvents(rank)]

(* The API server asks the webhook only for labelled namespaces, and       *)
(* treats a webhook that does not answer as one that allows.               *)
CreatePod(pod, rank) ==
  /\ decision' = IF optedIn /\ serving THEN ValidateCreate(pod, rank)
                 ELSE [gpu |-> PodRequestsGPU(pod), denied |-> FALSE, audited |-> {}]
  /\ UNCHANGED <<listed, optedIn, serving, listFails>>

(* Mutant: a deleted quota leaves an entry behind.                         *)
CacheUpdateLeavesTombstone(q, entry) ==
  /\ listed' = [listed EXCEPT ![q] = IF entry = None THEN [phase |-> "Deleted", mode |-> ""]
                                     ELSE entry]
  /\ UNCHANGED <<optedIn, serving, listFails, decision>>

(* The cache learns a new version of a quota, or that it is gone.          *)
CacheUpdate(q, entry) ==
  /\ listed' = [listed EXCEPT ![q] = entry]
  /\ UNCHANGED <<optedIn, serving, listFails, decision>>

(* A restart of the operator lists all quotas anew.                        *)
Relist ==
  /\ listed' \in [Quotas -> Entries \cup {None}]
  /\ UNCHANGED <<optedIn, serving, listFails, decision>>

Relabel ==
  /\ optedIn' = ~optedIn
  /\ UNCHANGED <<listed, serving, listFails, decision>>

WebhookUpOrDown ==
  /\ serving' = ~serving
  /\ UNCHANGED <<listed, optedIn, listFails, decision>>

ListBreaksOrHeals ==
  /\ listFails' = ~listFails
  /\ UNCHANGED <<listed, optedIn, serving, decision>>

NoDecision == [gpu |-> FALSE, denied |-> FALSE, audited |-> {}]

Init ==
  /\ listed = [q \in Quotas |-> None]
  /\ optedIn \in BOOLEAN
  /\ serving \in BOOLEAN
  /\ listFails \in BOOLEAN
  /\ decision = NoDecision

Next ==
  \/ \E pod \in Pods, rank \in Ranks : CreatePod(pod, rank)
  \/ \E q \in Quotas, entry \in Entries \cup {None} : CacheUpdate(q, entry)
  \/ Relist \/ Relabel \/ WebhookUpOrDown \/ ListBreaksOrHeals

Spec == Init /\ [][Next]_vars

-----------------------------------------------------------------------------
TypeOK ==
  /\ listed \in [Quotas -> Entries \cup {None}]
  /\ optedIn \in BOOLEAN /\ serving \in BOOLEAN /\ listFails \in BOOLEAN
  /\ decision \in [gpu: BOOLEAN, denied: BOOLEAN, audited: SUBSET Quotas]

(* The walk keeps the promise of QuotaPolicy, whatever the list order.     *)
Policy == INSTANCE QuotaPolicy WITH inForce <- optedIn /\ serving /\ ~listFails
KeepsPolicy == Policy!Spec

(* When spend of every quota is known, the order of the list cannot change *)
(* a verdict or lose an audit event.                                       *)
OrderIrrelevantWhenMeasured ==
  Unmeasured = {} =>
    \A rank, other \in Ranks :
      /\ Denied(rank) = Denied(other)
      /\ ~Denied(rank) => AuditEvents(rank) = AuditEvents(other)
=============================================================================
