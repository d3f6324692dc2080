------------------------ MODULE QuotaAdmissionProofs ------------------------
(***************************************************************************)
(* Proofs about QuotaAdmission, for any finite set of quotas and any pods: *)
(* the walk over an unordered list keeps the promise of QuotaPolicy.       *)
(***************************************************************************)
EXTENDS QuotaAdmission, TLAPS, WellFoundedInduction, FiniteSetTheorems

(* Some quota of a set comes first in the list.                            *)
LEMMA SomeQuotaIsFirst ==
  ASSUME NEW rank \in Ranks, NEW S \in SUBSET Quotas, S # {}
  PROVE  \E q \in S : \A r \in S : rank[q] <= rank[r]
<1> DEFINE Before(q) == {r \in S : rank[r] < rank[q]}
           T == {Before(q) : q \in S}
<1>1. \A q \in Quotas : rank[q] \in Int
  <2>1. Cardinality(Quotas) \in Nat
    BY AdmissionAssumption, FS_CardinalityType
  <2>2. rank \in [Quotas -> 1..Cardinality(Quotas)]
    BY DEF Ranks
  <2> QED
    BY <2>1, <2>2
<1>2. T \subseteq FiniteSubsetsOf(Quotas) /\ T # {}
  <2>1. ASSUME NEW q \in S PROVE Before(q) \in FiniteSubsetsOf(Quotas)
    <3>1. Before(q) \subseteq Quotas
      OBVIOUS
    <3>2. IsFiniteSet(Before(q))
      BY <3>1, AdmissionAssumption, FS_Subset
    <3> QED
      BY <3>1, <3>2 DEF FiniteSubsetsOf
  <2> HIDE DEF Before
  <2> QED
    BY <2>1
<1>3. PICK X \in T : \A Y \in T : ~(<<Y, X>> \in StrictSubsetOrdering(Quotas))
  <2> HIDE DEF T
  <2> QED
    BY <1>2, AdmissionAssumption, FS_StrictSubsetOrderingWellFounded, WFMin
<1>4. PICK q \in S : X = Before(q)
  OBVIOUS
<1>5. ASSUME NEW r \in Before(q) PROVE FALSE
  <2>1. Before(r) \subseteq Before(q) /\ r \notin Before(r)
    BY <1>1, <1>5
  <2>2. <<Before(r), Before(q)>> \in StrictSubsetOrdering(Quotas)
    BY <2>1, <1>5 DEF StrictSubsetOrdering
  <2> QED
    BY <1>3, <1>4, <2>2
<1> QED
  BY <1>1, <1>5

(* A quota that ends the walk is reached if there is one at all.           *)
LEMMA SomeEndIsReached ==
  ASSUME TypeOK, NEW rank \in Ranks, Unmeasured \cup Enforced # {}
  PROVE  \E q \in Unmeasured \cup Enforced : Reached(rank, q)
<1>1. Unmeasured \cup Enforced \in SUBSET Quotas
  BY DEF Unmeasured, Enforced, Exceeded, Listed
<1> QED
  BY <1>1, SomeQuotaIsFirst DEF Reached

(* The verdict when spend of every quota is known.                         *)
LEMMA MeasuredVerdict ==
  ASSUME TypeOK, NEW rank \in Ranks, Unmeasured = {}
  PROVE  /\ Denied(rank) <=> Enforced # {}
         /\ ~Denied(rank) => AuditEvents(rank) = Audited
<1>1. Enforced # {} => Denied(rank)
  BY SomeEndIsReached DEF Denied
<1>2. Enforced = {} => AuditEvents(rank) = Audited
  BY DEF AuditEvents, Reached
<1> QED
  BY <1>1, <1>2 DEF Denied

(* Every variable keeps its type.                                          *)
THEOREM AdmissionTypeCorrect == Spec => []TypeOK
<1>1. Init => TypeOK
  BY DEF Init, TypeOK, NoDecision
<1>2. TypeOK /\ [Next]_vars => TypeOK'
  <2> SUFFICES ASSUME TypeOK, [Next]_vars PROVE TypeOK'
    OBVIOUS
  <2>1. ASSUME NEW pod \in Pods, NEW rank \in Ranks, CreatePod(pod, rank) PROVE TypeOK'
    <3>1. /\ PodRequestsGPU(pod) \in BOOLEAN
          /\ Denied(rank) \in BOOLEAN
          /\ AuditEvents(rank) \in SUBSET Quotas
      BY DEF PodRequestsGPU, Denied, AuditEvents, Audited, Exceeded, Listed
    <3> QED
      BY <2>1, <3>1 DEF CreatePod, ValidateCreate, TypeOK
  <2>2. ASSUME NEW q \in Quotas, NEW entry \in Entries \cup {None}, CacheUpdate(q, entry)
        PROVE  TypeOK'
    BY <2>2 DEF CacheUpdate, TypeOK
  <2>3. CASE Relist \/ Relabel \/ WebhookUpOrDown \/ ListBreaksOrHeals
    BY <2>3 DEF Relist, Relabel, WebhookUpOrDown, ListBreaksOrHeals, TypeOK
  <2>4. CASE UNCHANGED vars
    BY <2>4 DEF vars, TypeOK
  <2> QED
    BY <2>1, <2>2, <2>3, <2>4 DEF Next
<1> QED
  BY <1>1, <1>2, PTL DEF Spec

(* When spend is known, no order of the list changes a verdict or loses an *)
(* audit event.                                                            *)
THEOREM OrderIsIrrelevant == Spec => []OrderIrrelevantWhenMeasured
<1>1. TypeOK => OrderIrrelevantWhenMeasured
  <2> SUFFICES ASSUME TypeOK, Unmeasured = {}, NEW rank \in Ranks, NEW other \in Ranks
               PROVE  /\ Denied(rank) = Denied(other)
                      /\ ~Denied(rank) => AuditEvents(rank) = AuditEvents(other)
    BY DEF OrderIrrelevantWhenMeasured
  <2>1. Denied(rank) \in BOOLEAN /\ Denied(other) \in BOOLEAN
    BY DEF Denied
  <2> QED
    BY <2>1, MeasuredVerdict
<1> QED
  BY <1>1, AdmissionTypeCorrect, PTL

(* The walk over the list implements the policy: the verdict depends on    *)
(* the set of quotas only, whatever the order of the list.                 *)
THEOREM WalkKeepsPolicy == Spec => KeepsPolicy
<1> DEFINE inForce == optedIn /\ serving /\ ~listFails
<1>1. Init => Policy!Init
  BY DEF Init, Policy!Init, NoDecision, Policy!NoDecision
<1>2. TypeOK /\ [Next]_vars => [Policy!Next]_Policy!vars
  <2> SUFFICES ASSUME TypeOK, [Next]_vars PROVE [Policy!Next]_Policy!vars
    OBVIOUS
  <2>1. ASSUME NEW pod \in Pods, NEW rank \in Ranks, CreatePod(pod, rank)
        PROVE  Policy!Next
    <3> DEFINE gpu == PodRequestsGPU(pod)
               asked == gpu /\ inForce
               denied == asked /\ Denied(rank)
               audited == IF asked THEN AuditEvents(rank) ELSE {}
    <3>1. /\ Policy!Unmeasured = Unmeasured
          /\ Policy!Blocking = Enforced
          /\ Policy!AuditedSet = Audited
      BY DEF Policy!Unmeasured, Policy!Blocking, Policy!AuditedSet, Policy!WithPhase,
             Unmeasured, Enforced, Audited, Exceeded, Listed
    <3>2. gpu \in BOOLEAN /\ denied \in BOOLEAN /\ audited \in SUBSET Quotas
      BY DEF PodRequestsGPU, AuditEvents, Audited, Exceeded, Listed
    <3>3. decision' = [gpu |-> gpu, denied |-> denied, audited |-> audited]
      <4>1. CASE inForce /\ gpu
        <5>1. decision' = [gpu |-> TRUE, denied |-> Denied(rank), audited |-> AuditEvents(rank)]
          BY <2>1, <4>1 DEF CreatePod, ValidateCreate
        <5>2. gpu = TRUE /\ denied = Denied(rank) /\ audited = AuditEvents(rank)
          BY <3>2, <4>1 DEF Denied
        <5> QED
          BY <5>1, <5>2
      <4>2. CASE ~(inForce /\ gpu)
        BY <2>1, <3>2, <4>2 DEF CreatePod, ValidateCreate
      <4> QED
        BY <4>1, <4>2
    <3>4. denied => Enforced # {}
      BY DEF Denied
    <3>5. ~denied => ~gpu \/ ~inForce \/ Enforced = {} \/ Unmeasured # {}
      BY MeasuredVerdict
    <3>6. audited \subseteq Audited
      BY DEF AuditEvents
    <3>7. asked /\ Enforced \cup Unmeasured = {} => audited = Audited
      BY DEF AuditEvents, Reached
    <3>8. UNCHANGED <<listed, inForce>>
      BY <2>1 DEF CreatePod
    <3> HIDE DEF gpu
    <3>9. Policy!Admit(gpu, denied, audited)
      BY <3>1, <3>3, <3>4, <3>5, <3>6, <3>7, <3>8 DEF Policy!Admit
    <3> QED
      BY <3>2, <3>9 DEF Policy!Next
  <2>2. ASSUME NEW q \in Quotas, NEW entry \in Entries \cup {None}, CacheUpdate(q, entry)
        PROVE  Policy!Next
    <3>1. listed' \in [Quotas -> Entries \cup {None}]
      BY <2>2 DEF CacheUpdate, TypeOK
    <3> QED
      BY <2>2, <3>1 DEF CacheUpdate, Policy!Next, Policy!QuotasChange, Policy!Entries,
                        Entries, Phases
  <2>3. CASE Relabel \/ WebhookUpOrDown \/ ListBreaksOrHeals
    BY <2>3 DEF Relabel, WebhookUpOrDown, ListBreaksOrHeals, Policy!Next, Policy!ForceChanges
  <2>4. CASE Relist
    BY <2>4 DEF Relist, Policy!Next, Policy!QuotasChange, Policy!Entries, Entries, Phases
  <2>5. CASE UNCHANGED vars
    BY <2>5 DEF vars, Policy!vars
  <2> QED
    BY <2>1, <2>2, <2>3, <2>4, <2>5 DEF Next
<1> QED
  BY <1>1, <1>2, AdmissionTypeCorrect, PTL DEF Spec, KeepsPolicy, Policy!Spec
=============================================================================
