--------------------------- MODULE PricingProofs ---------------------------
(***************************************************************************)
(* Pricing for every set of documents, keys and nodes: type correctness,   *)
(* that label keys of earlier documents do not change a scrape, and that   *)
(* every scrape is one that PriceBoard allows.                             *)
(***************************************************************************)
EXTENDS Pricing, WellFoundedInduction, TLAPS

(* Min is what it is called for sets of naturals.                          *)
LEMMA MinIsLeast ==
  ASSUME NEW S \in SUBSET Nat, S # {}
  PROVE  Min(S) \in S /\ \A n \in S : Min(S) <= n
<1>1. PICK m \in S : \A n \in S : <<n, m>> \notin OpToRel(<, Nat)
  BY NatLessThanWellFounded, WFMin
<1>2. \A n \in S : ~(n < m)
  BY <1>1 DEF OpToRel
<1>3. \A n \in S : m <= n
  BY <1>2
<1> QED
  BY <1>3 DEF Min

LEMMA RuleType ==
  ASSUME NEW doc \in Documents, NEW i \in DOMAIN doc.rules
  PROVE  i \in Nat /\ doc.rules[i] \in Rules
<1> DEFINE rules == doc.rules
<1>1. rules \in Seq(Rules)
  BY PricingAssumption DEF PricingAssumption
<1>2. DOMAIN rules = 1..Len(rules) /\ rules \in [1..Len(rules) -> Rules]
  <2> HIDE DEF rules
  <2> QED
    BY <1>1
<1> QED
  BY <1>1, <1>2

(* A valid document prices nodes above zero or not at all.                 *)
LEMMA PricesPositive ==
  ASSUME NEW doc \in Documents, Valid(doc)
  PROVE  NodePrices(doc) \in [Nodes -> (Nat \ {0}) \cup {Absent}]
<1>1. \A i \in DOMAIN doc.rules : i \in Nat /\ doc.rules[i] \in Rules
  BY RuleType
<1>2. ASSUME NEW labels PROVE PriceForNode(doc, labels) \in (Nat \ {0}) \cup {Absent}
  <2> DEFINE hits == {i \in DOMAIN doc.rules : MatchAll(labels, doc.rules[i].match)}
  <2>1. CASE hits = {}
    BY <2>1 DEF PriceForNode
  <2>2. CASE hits # {}
    <3>1. hits \in SUBSET Nat
      BY <1>1
    <3>2. Min(hits) \in hits
      BY <2>2, <3>1, MinIsLeast
    <3>3. doc.rules[Min(hits)] \in Rules
      BY <1>1, <3>2
    <3>4. doc.rules[Min(hits)].price \in Int /\ doc.rules[Min(hits)].price > 0
      BY <3>2, <3>3 DEF Valid, Rules
    <3> QED
      BY <2>2, <3>4 DEF PriceForNode
  <2> QED
    BY <2>1, <2>2
<1> QED
  BY <1>2 DEF NodePrices

(* The collector keeps its shape, and its document and the one of the      *)
(* refresh are valid.                                                      *)
UsesValid ==
  /\ collector.doc # Absent => Valid(collector.doc)
  /\ refreshing # Absent => Valid(refreshing)

(* The keys of the current document are among those of the collector.      *)
KnowsKeys == collector.doc # Absent => KeysOf(collector.doc) \subseteq collector.keys

PricingInv == TypeOK /\ UsesValid /\ KnowsKeys

LEMMA NewCollectorType ==
  NewCollector \in [doc: Documents \cup {Absent}, keys: SUBSET Keys,
                    prices: [Nodes -> (Nat \ {0}) \cup {Absent}]]
BY DEF NewCollector

LEMMA KeysAreKeys == ASSUME NEW doc \in Documents PROVE KeysOf(doc) \subseteq Keys
<1>1. \A i \in DOMAIN doc.rules : doc.rules[i] \in Rules
  BY RuleType
<1>2. ASSUME NEW i \in DOMAIN doc.rules PROVE DOMAIN doc.rules[i].match \subseteq Keys
  <2>1. doc.rules[i].match \in Matches
    BY <1>1 DEF Rules
  <2> QED
    BY <2>1 DEF Matches
<1> QED
  BY <1>2 DEF KeysOf

LEMMA InitInv == Init => PricingInv
BY NewCollectorType, PricingAssumption
   DEF Init, PricingInv, TypeOK, UsesValid, KnowsKeys, NewCollector, PricingAssumption

LEMMA StepInv == ASSUME PricingInv, [Next]_vars PROVE PricingInv'
<1>1. CASE Fetch
  <2>1. configMap \in Documents /\ Valid(configMap)
    BY <1>1 DEF Fetch, PricingInv, TypeOK
  <2>2. collector' \in [doc: Documents \cup {Absent}, keys: SUBSET Keys,
                        prices: [Nodes -> (Nat \ {0}) \cup {Absent}]]
    BY <1>1, <2>1, KeysAreKeys DEF Fetch, SetDocument, PricingInv, TypeOK
  <2>3. collector'.doc = configMap /\ KeysOf(configMap) \subseteq collector'.keys
    BY <1>1 DEF Fetch, SetDocument, PricingInv, TypeOK
  <2>4. TypeOK'
    BY <1>1, <2>1, <2>2 DEF Fetch, PricingInv, TypeOK, worldVars
  <2>5. UsesValid' /\ KnowsKeys'
    BY <1>1, <2>1, <2>3 DEF Fetch, UsesValid, KnowsKeys, worldVars, Valid, KeysOf
  <2> QED
    BY <2>4, <2>5 DEF PricingInv
<1>2. CASE SetNodePrices
  <2>1. refreshing \in Documents /\ Valid(refreshing)
    BY <1>2 DEF SetNodePrices, PricingInv, TypeOK, UsesValid
  <2>2. /\ collector' \in [doc: Documents \cup {Absent}, keys: SUBSET Keys,
                           prices: [Nodes -> (Nat \ {0}) \cup {Absent}]]
        /\ collector'.doc = collector.doc /\ collector'.keys = collector.keys
    <3> DEFINE Docs == Documents \cup {Absent}
               Tables == [Nodes -> (Nat \ {0}) \cup {Absent}]
               table == NodePrices(refreshing)
    <3>1. collector' = [collector EXCEPT !.prices = table]
      BY <1>2 DEF SetNodePrices
    <3>2. table \in Tables
      BY <2>1, PricesPositive DEF PricingInv
    <3>3. collector \in [doc: Docs, keys: SUBSET Keys, prices: Tables]
      BY DEF PricingInv, TypeOK
    <3> HIDE DEF Docs, Tables, table
    <3>4. collector' = [doc |-> collector.doc, keys |-> collector.keys, prices |-> table]
      BY <3>1, <3>3
    <3>5. collector.doc \in Docs /\ collector.keys \in SUBSET Keys
      BY <3>3
    <3>6. collector' \in [doc: Docs, keys: SUBSET Keys, prices: Tables]
      BY <3>2, <3>4, <3>5
    <3> QED
      BY <3>4, <3>6 DEF Docs, Tables
  <2>3. TypeOK'
    BY <1>2, <2>2 DEF SetNodePrices, PricingInv, TypeOK, worldVars
  <2>4. UsesValid' /\ KnowsKeys'
    <3>1. /\ collector'.doc = collector.doc /\ collector'.keys = collector.keys
          /\ refreshing' = Absent
      BY <1>2, <2>2 DEF SetNodePrices
    <3>2. collector.doc # Absent => Valid(collector.doc)
      BY DEF PricingInv, UsesValid
    <3>3. UsesValid'
      BY <3>1, <3>2 DEF UsesValid, Valid
    <3>4. KnowsKeys'
      BY <3>1 DEF PricingInv, KnowsKeys, KeysOf
    <3> QED
      BY <3>3, <3>4
  <2> QED
    BY <2>3, <2>4 DEF PricingInv
<1>3. CASE ListFails \/ Scrape \/ UNCHANGED vars
  BY <1>3 DEF ListFails, Scrape, PricingInv, TypeOK, UsesValid, KnowsKeys, worldVars, vars,
              Valid, KeysOf
<1>4. ASSUME collector' = NewCollector, refreshing' = Absent, UNCHANGED worldVars,
             changes' \in 0..MaxChanges
      PROVE  PricingInv'
  <2>1. TypeOK'
    BY <1>4, NewCollectorType DEF PricingInv, TypeOK, worldVars
  <2>2. UsesValid' /\ KnowsKeys'
    BY <1>4 DEF UsesValid, KnowsKeys, NewCollector
  <2> QED
    BY <2>1, <2>2 DEF PricingInv
<1>5. Change => changes' \in 0..MaxChanges
  BY PricingAssumption DEF Change, PricingInv, TypeOK, PricingAssumption
<1>6. CASE ScrapeCrashes \/ Restart
  BY <1>4, <1>5, <1>6 DEF ScrapeCrashes, Restart, PricingInv, TypeOK
<1>7. CASE \/ \E doc \in Documents \cup {Absent} : EditDocument(doc)
           \/ \E n \in Nodes, labels \in NodeLabels \cup {Absent} : ChangeNode(n, labels)
           \/ \E how \in {"works", "fails", "blocks"} : ChangeListing(how)
  <2>1. TypeOK'
    BY <1>5, <1>7 DEF EditDocument, ChangeNode, ChangeListing, PricingInv, TypeOK
  <2>2. UNCHANGED <<collector, refreshing>>
    BY <1>7 DEF EditDocument, ChangeNode, ChangeListing
  <2>3. UsesValid' /\ KnowsKeys'
    BY <2>2 DEF PricingInv, UsesValid, KnowsKeys, Valid, KeysOf
  <2> QED
    BY <2>1, <2>3 DEF PricingInv
<1> QED
  BY <1>1, <1>2, <1>3, <1>6, <1>7 DEF Next, Refresh, Environment

(* Documents, prices and keys in use are always well-formed: invalid       *)
(* documents never reach the collector, and no price is zero.              *)
THEOREM PricingTypeCorrect == Spec => []TypeOK
<1>1. PricingInv => TypeOK
  BY DEF PricingInv
<1> QED
  BY <1>1, InitInv, StepInv, PTL DEF Spec

(* A key that a rule does not name is empty in its series and not stored.  *)
LEMMA ExtraKeysAreEmpty ==
  ASSUME NEW own, NEW keys, own \subseteq keys, NEW match, DOMAIN match \subseteq own
  PROVE  /\ \A k \in own : Labels(keys, match)[k] = Labels(own, match)[k]
         /\ Stored(keys, match) = Stored(own, match)
<1>1. \A k \in own : Labels(keys, match)[k] = Labels(own, match)[k]
  BY DEF Labels
<1>2. \A k \in keys \ own : Labels(keys, match)[k] = Empty
  BY DEF Labels
<1>3. {l \in keys : Labels(keys, match)[l] # Empty}
        = {l \in own : Labels(own, match)[l] # Empty}
  BY <1>1, <1>2
<1>4. Stored(keys, match) = Stored(own, match)
  BY <1>1, <1>3 DEF Stored
<1> QED
  BY <1>1, <1>4

(* Whatever documents a process has seen, a scrape shows the series that a *)
(* new process would show for the current one, and is refused only if that *)
(* one's would be.                                                         *)
THEOREM HistoryIsInvisible == Spec => []OldDocumentsLeaveNoTrace
<1>1. PricingInv => OldDocumentsLeaveNoTrace
  <2> SUFFICES ASSUME PricingInv, collector.doc # Absent PROVE OldDocumentsLeaveNoTrace
    BY DEF OldDocumentsLeaveNoTrace
  <2> DEFINE doc == collector.doc  keys == collector.keys
  <2>1. KeysOf(doc) \subseteq keys
    BY DEF PricingInv, KnowsKeys
  <2>2. ASSUME NEW i \in DOMAIN doc.rules
        PROVE  LET match == doc.rules[i].match
               IN /\ \A k \in KeysOf(doc) : Labels(keys, match)[k] = Labels(KeysOf(doc), match)[k]
                  /\ Stored(keys, match) = Stored(KeysOf(doc), match)
    <3> DEFINE match == doc.rules[i].match
    <3>1. DOMAIN match \subseteq KeysOf(doc)
      BY DEF KeysOf
    <3> HIDE DEF doc, keys, match
    <3>2. /\ \A k \in KeysOf(doc) : Labels(keys, match)[k] = Labels(KeysOf(doc), match)[k]
          /\ Stored(keys, match) = Stored(KeysOf(doc), match)
      BY <2>1, <3>1, ExtraKeysAreEmpty
    <3> QED
      BY <3>2 DEF match
  <2>3. Ambiguous(doc, keys) => Ambiguous(doc, KeysOf(doc))
    <3> SUFFICES ASSUME NEW i \in DOMAIN doc.rules, NEW j \in DOMAIN doc.rules, i # j,
                        Labels(keys, doc.rules[i].match) = Labels(keys, doc.rules[j].match)
                 PROVE  Labels(KeysOf(doc), doc.rules[i].match)
                          = Labels(KeysOf(doc), doc.rules[j].match)
      BY DEF Ambiguous
    <3>1. \A k \in KeysOf(doc) : Labels(KeysOf(doc), doc.rules[i].match)[k]
                                   = Labels(KeysOf(doc), doc.rules[j].match)[k]
      BY <2>2
    <3> QED
      BY <3>1 DEF Labels
  <2>4. \A i \in DOMAIN doc.rules :
          Stored(keys, doc.rules[i].match) = Stored(KeysOf(doc), doc.rules[i].match)
    BY <2>2
  <2>5. Series(doc, keys, collector.prices) = Series(doc, KeysOf(doc), collector.prices)
    BY <2>4 DEF Series
  <2> QED
    BY <2>3, <2>5 DEF OldDocumentsLeaveNoTrace
<1> QED
  BY <1>1, InitInv, StepInv, PTL DEF Spec

-----------------------------------------------------------------------------
(* Documents in force.                                                     *)

(* A scrape of the document in force is neither refused nor changed by the *)
(* label keys of documents before it.                                      *)
LEMMA ScrapeShowsInForce ==
  ASSUME OldDocumentsLeaveNoTrace, NEW doc \in Documents, InForce(doc), Scrape
  PROVE  scraped' = Series(doc, KeysOf(doc), NodePrices(doc))
<1>1. doc # Absent /\ collector.doc = doc
  BY PricingAssumption DEF PricingAssumption, InForce
<1>2. ~Ambiguous(doc, collector.keys)
  BY <1>1 DEF OldDocumentsLeaveNoTrace, InForce, Exportable
<1>3. Series(doc, collector.keys, collector.prices)
        = Series(doc, KeysOf(doc), NodePrices(doc))
  BY <1>1 DEF OldDocumentsLeaveNoTrace, InForce
<1> QED
  BY <1>1, <1>2, <1>3 DEF Scrape

(* A refresh of the document in force replaces it by itself.               *)
LEMMA RefreshKeepsInForce ==
  ASSUME TypeOK, KnowsKeys, NEW doc \in Documents, InForce(doc), Refresh
  PROVE  InForce(doc)' /\ scraped' = scraped
<1>1. doc # Absent /\ nodes' = nodes /\ configMap' = configMap /\ scraped' = scraped
  BY PricingAssumption
  DEF PricingAssumption, Refresh, Fetch, SetNodePrices, ListFails, worldVars
<1>2. NodePrices(doc)' = NodePrices(doc)
  BY <1>1 DEF NodePrices
<1>3. /\ collector'.doc = doc /\ collector'.keys = collector.keys
      /\ collector'.prices = NodePrices(doc) /\ refreshing' \in {Absent, doc}
  <2>1. CASE Fetch
    <3>1. configMap = doc /\ refreshing' = doc
      BY <2>1 DEF Fetch, InForce
    <3>2. collector.keys \cup KeysOf(doc) = collector.keys
      BY <1>1 DEF KnowsKeys, InForce
    <3>3. /\ collector'.doc = doc /\ collector'.prices = collector.prices
          /\ collector'.keys = collector.keys \cup KeysOf(doc)
      BY <2>1, <3>1 DEF Fetch, SetDocument, TypeOK
    <3> QED
      BY <3>1, <3>2, <3>3 DEF InForce
  <2>2. CASE SetNodePrices
    <3>1. refreshing = doc
      BY <2>2 DEF SetNodePrices, InForce
    <3>2. collector' = [collector EXCEPT !.prices = NodePrices(doc)] /\ refreshing' = Absent
      BY <2>2, <3>1 DEF SetNodePrices
    <3>3. DOMAIN collector = {"doc", "keys", "prices"}
      BY DEF TypeOK
    <3> QED
      BY <3>2, <3>3 DEF InForce
  <2>3. CASE ListFails
    BY <2>3 DEF ListFails, InForce
  <2> QED
    BY <2>1, <2>2, <2>3 DEF Refresh
<1> QED
  BY <1>1, <1>2, <1>3 DEF InForce, Exportable, Valid, Collide, KeysOf, Ambiguous

(* Every step that is not a disturbance keeps the document in force.       *)
LEMMA InForceStep ==
  ASSUME PricingInv, OldDocumentsLeaveNoTrace, [Next]_vars,
         NEW doc \in Documents, InForce(doc), Undisturbed(doc)
  PROVE  /\ InForce(doc)'
         /\ scraped' # scraped => scraped' = Series(doc, KeysOf(doc), NodePrices(doc))
<1>1. ASSUME UNCHANGED <<collector, refreshing>>
      PROVE  InForce(doc)'
  BY <1>1
  DEF InForce, Undisturbed, NodePrices, Exportable, Valid, Collide, KeysOf, Ambiguous
<1>2. CASE Refresh
  BY <1>2, RefreshKeepsInForce DEF PricingInv
<1>3. CASE Scrape
  BY <1>1, <1>3, ScrapeShowsInForce DEF Scrape
<1>4. CASE ScrapeCrashes
  BY <1>4 DEF ScrapeCrashes, InForce
<1>5. CASE Environment
  <2>1. UNCHANGED <<collector, refreshing, scraped>>
    BY <1>5 DEF Environment, EditDocument, ChangeNode, ChangeListing, Undisturbed
  <2> QED
    BY <1>1, <2>1
<1>6. CASE UNCHANGED vars
  BY <1>1, <1>6 DEF vars
<1> QED
  BY <1>2, <1>3, <1>4, <1>5, <1>6 DEF Next

(* Nothing but nodes, another valid document or a restart changes what     *)
(* scrapes show.                                                           *)
THEOREM PricesStayInForce == Spec => PricesInForceStay
<1>1. PricingInv /\ OldDocumentsLeaveNoTrace /\ [Next]_vars =>
        [\A doc \in Documents :
           InForce(doc) /\ Undisturbed(doc)
             => /\ InForce(doc)'
                /\ scraped' # scraped
                     => scraped' = Series(doc, KeysOf(doc), NodePrices(doc))]_vars
  BY InForceStep
<1> QED
  BY <1>1, InitInv, StepInv, HistoryIsInvisible, PTL DEF Spec, PricesInForceStay

-----------------------------------------------------------------------------
(* The board.                                                              *)

(* Padding a rule's labels with empty ones for other keys changes nothing  *)
(* that the rule says.                                                     *)
LEMMA PaddingSaysNothing ==
  ASSUME NEW keys, NEW match, DOMAIN match \subseteq keys
  PROVE  Stored(keys, match) = Board!ShownLabels(match)
<1>1. {l \in keys : Labels(keys, match)[l] # Empty} = {l \in DOMAIN match : match[l] # Empty}
  BY DEF Labels
<1>2. \A k \in DOMAIN match : Labels(keys, match)[k] = match[k]
  BY DEF Labels
<1> DEFINE named == {l \in DOMAIN match : match[l] # Empty}
<1>3. Stored(keys, match) = {<<LabelName[k], match[k]>> : k \in named}
  BY <1>1, <1>2 DEF Stored
<1>4. Board!Saying(match) = {<<k, match[k]>> : k \in named}
  BY DEF Board!Saying
<1>5. Board!ShownLabels(match) = {<<LabelName[k], match[k]>> : k \in named}
  <2> DEFINE shown == Board!ShownLabels(match)
             pairs == {<<LabelName[k], match[k]>> : k \in named}
  <2>1. \A k \in named : <<LabelName[k], match[k]>> \in shown
    <3> TAKE k \in named
    <3>1. <<k, match[k]>> \in Board!Saying(match)
      BY <1>4
    <3>2. <<k, match[k]>>[1] = k /\ <<k, match[k]>>[2] = match[k]
      OBVIOUS
    <3> QED
      BY <3>1, <3>2 DEF Board!ShownLabels
  <2>2. ASSUME NEW x \in shown PROVE x \in pairs
    <3>1. PICK says \in Board!Saying(match) : x = <<LabelName[says[1]], says[2]>>
      BY DEF Board!ShownLabels
    <3>2. PICK k \in named : says = <<k, match[k]>>
      BY <3>1, <1>4
    <3>3. says[1] = k /\ says[2] = match[k]
      BY <3>2
    <3> QED
      BY <3>1, <3>3
  <2> HIDE DEF named, shown
  <2> QED
    BY <2>1, <2>2 DEF shown
<1> QED
  BY <1>3, <1>5

(* Two rules get the same padded labels just when they say the same.       *)
LEMMA SamePaddingSameSaying ==
  ASSUME NEW keys, NEW m1, NEW m2, DOMAIN m1 \subseteq keys, DOMAIN m2 \subseteq keys
  PROVE  Labels(keys, m1) = Labels(keys, m2) <=> Board!Saying(m1) = Board!Saying(m2)
<1>1. ASSUME NEW m, DOMAIN m \subseteq keys, NEW k, NEW v
      PROVE  <<k, v>> \in Board!Saying(m) <=>
               k \in keys /\ v # Empty /\ Labels(keys, m)[k] = v
  BY <1>1 DEF Board!Saying, Labels
<1>2. ASSUME Board!Saying(m1) = Board!Saying(m2)
      PROVE  Labels(keys, m1) = Labels(keys, m2)
  <2>1. ASSUME NEW k \in keys PROVE Labels(keys, m1)[k] = Labels(keys, m2)[k]
    <3> DEFINE v == Labels(keys, m1)[k]  w == Labels(keys, m2)[k]
    <3>1. v # Empty => w = v
      BY <1>1, <1>2
    <3>2. w # Empty => v = w
      BY <1>1, <1>2
    <3> QED
      BY <3>1, <3>2
  <2> QED
    BY <2>1 DEF Labels
<1>3. ASSUME Labels(keys, m1) = Labels(keys, m2)
      PROVE  Board!Saying(m1) = Board!Saying(m2)
  <2>1. \A k, v : <<k, v>> \in Board!Saying(m1) <=> <<k, v>> \in Board!Saying(m2)
    BY <1>1, <1>3
  <2>2. \A m, pair : pair \in Board!Saying(m) => \E k, v : pair = <<k, v>>
    BY DEF Board!Saying
  <2> QED
    BY <2>1, <2>2
<1> QED
  BY <1>2, <1>3

(* What the process shows and refuses is what the board does.              *)
LEMMA ScrapeIsTheBoards ==
  ASSUME KnowsKeys, collector.doc # Absent
  PROVE  /\ Ambiguous(collector.doc, collector.keys) <=> Board!RepeatsItself
         /\ Series(collector.doc, collector.keys, collector.prices)
              = [rules |-> Board!RulesShown, nodes |-> Board!PricesShown]
<1> DEFINE rules == collector.doc.rules  keys == collector.keys
<1>1. \A i \in DOMAIN rules : DOMAIN rules[i].match \subseteq keys
  BY DEF KnowsKeys, KeysOf
<1>2. Ambiguous(collector.doc, keys) <=> Board!RepeatsItself
  BY <1>1, SamePaddingSameSaying DEF Ambiguous, Board!RepeatsItself
<1>3. \A i \in DOMAIN rules :
        Stored(keys, rules[i].match) = Board!ShownLabels(rules[i].match)
  BY <1>1, PaddingSaysNothing
<1> QED
  BY <1>2, <1>3 DEF Series, Board!RulesShown, Board!PricesShown

LEMMA BoardStep ==
  ASSUME PricingInv, [Next]_vars
  PROVE  [Board!Next]_(Board!vars)
<1>1. CASE Fetch
  <2>1. configMap \in Documents
    BY <1>1 DEF Fetch, PricingInv, TypeOK
  <2>2. collector'.doc = configMap /\ collector'.prices = collector.prices
    BY <1>1 DEF Fetch, SetDocument, PricingInv, TypeOK
  <2> QED
    BY <1>1, <2>1, <2>2 DEF Fetch, Board!Next, Board!NewDocument
<1>2. CASE SetNodePrices
  <2>1. refreshing \in Documents /\ Valid(refreshing)
    BY <1>2 DEF SetNodePrices, PricingInv, TypeOK, UsesValid
  <2>2. NodePrices(refreshing) \in [Nodes -> (Nat \ {0}) \cup {Absent}]
    BY <2>1, PricesPositive
  <2>3. DOMAIN collector = {"doc", "keys", "prices"}
    BY DEF PricingInv, TypeOK
  <2>4. collector'.doc = collector.doc /\ collector'.prices = NodePrices(refreshing)
    BY <1>2, <2>3 DEF SetNodePrices
  <2> QED
    BY <1>2, <2>2, <2>4 DEF SetNodePrices, Board!Next, Board!NewPrices, Board!PriceTables
<1>3. CASE Scrape
  <2>1. UNCHANGED <<collector.doc, collector.prices>>
    BY <1>3 DEF Scrape
  <2>2. CASE collector.doc = Absent
    BY <1>3, <2>1, <2>2 DEF Scrape, NoSeries, Board!Next, Board!Show, Board!Nothing
  <2>3. CASE collector.doc # Absent
    <3>1. /\ Ambiguous(collector.doc, collector.keys) <=> Board!RepeatsItself
          /\ Series(collector.doc, collector.keys, collector.prices)
               = [rules |-> Board!RulesShown, nodes |-> Board!PricesShown]
      BY <2>3, ScrapeIsTheBoards DEF PricingInv
    <3> QED
      BY <1>3, <2>1, <2>3, <3>1 DEF Scrape, Board!Next, Board!Show, Board!Refuse
  <2> QED
    BY <2>2, <2>3
<1>4. CASE ScrapeCrashes \/ Restart
  <2>1. collector'.doc = Absent /\ collector'.prices = Board!NoPrices
    BY <1>4 DEF ScrapeCrashes, Restart, NewCollector, Board!NoPrices
  <2>2. scraped' \in {scraped, Absent}
    BY <1>4 DEF ScrapeCrashes, Restart
  <2> QED
    BY <2>1, <2>2 DEF Board!Next, Board!Forget
<1>5. CASE \/ ListFails \/ UNCHANGED vars
           \/ \E doc \in Documents \cup {Absent} : EditDocument(doc)
           \/ \E n \in Nodes, labels \in NodeLabels \cup {Absent} : ChangeNode(n, labels)
           \/ \E how \in {"works", "fails", "blocks"} : ChangeListing(how)
  <2>1. UNCHANGED <<collector, scraped>>
    BY <1>5 DEF ListFails, EditDocument, ChangeNode, ChangeListing, vars
  <2> QED
    BY <2>1 DEF Board!vars
<1> QED
  BY <1>1, <1>2, <1>3, <1>4, <1>5 DEF Next, Refresh, Environment

(* Whatever documents, failed lists, restarts and crashes a process has    *)
(* behind it, each scrape shows the document in force under the labels its *)
(* own rules give, and is refused just when two of those say the same.     *)
THEOREM PricingKeepsBoard == Spec => KeepsBoard
<1>1. Init => Board!Init
  BY DEF Init, NewCollector, Board!Init, Board!NoPrices
<1> QED
  BY <1>1, InitInv, StepInv, BoardStep, PTL DEF Spec, KeepsBoard, Board!Spec

(* A node's price is that of the first rule of the document that matches   *)
(* its labels, and there is none only if no rule matches.                  *)
THEOREM FirstMatchWins ==
  ASSUME NEW doc \in Documents, NEW labels
  PROVE  LET Hit(i) == MatchAll(labels, doc.rules[i].match)
         IN \/ /\ \A i \in DOMAIN doc.rules : ~Hit(i)
               /\ PriceForNode(doc, labels) = Absent
            \/ \E i \in DOMAIN doc.rules :
                 /\ Hit(i) /\ \A j \in DOMAIN doc.rules : j < i => ~Hit(j)
                 /\ PriceForNode(doc, labels) = doc.rules[i].price
<1> DEFINE Hit(i) == MatchAll(labels, doc.rules[i].match)
           hits == {i \in DOMAIN doc.rules : Hit(i)}
<1>1. CASE hits = {}
  BY <1>1 DEF PriceForNode
<1>2. CASE hits # {}
  <2>1. hits \in SUBSET Nat
    BY RuleType
  <2>2. Min(hits) \in hits /\ \A j \in hits : Min(hits) <= j
    BY <1>2, <2>1, MinIsLeast
  <2>3. PriceForNode(doc, labels) = doc.rules[Min(hits)].price
    BY <1>2 DEF PriceForNode
  <2>4. \A j \in DOMAIN doc.rules : j < Min(hits) => ~Hit(j)
    <3> SUFFICES ASSUME NEW j \in DOMAIN doc.rules, j < Min(hits), Hit(j) PROVE FALSE
      OBVIOUS
    <3>1. j \in hits /\ j \in Nat /\ Min(hits) \in Nat /\ Min(hits) <= j
      BY <2>1, <2>2
    <3> QED
      BY <3>1
  <2> QED
    BY <2>2, <2>3, <2>4
<1> QED
  BY <1>1, <1>2
=============================================================================
