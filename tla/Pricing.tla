------------------------------ MODULE Pricing ------------------------------
(***************************************************************************)
(* GPU list prices in the cost patcher (internal/costpatcher/pricing): one *)
(* goroutine reads the pricing document and prices the nodes, Prometheus   *)
(* scrapes what is there.  A refresh replaces the document first and the   *)
(* node prices after it has listed the nodes, so that a scrape may fall    *)
(* between the two; and the label keys of earlier documents stay part of   *)
(* every series for as long as the process lives.                          *)
(***************************************************************************)
EXTENDS Integers, Sequences, FiniteSetsExt

CONSTANTS
  Keys,        \* Kubernetes label keys
  LabelName,   \* [Keys -> Prometheus label names], see KSMLabelName
  Values,      \* label values
  Empty,       \* the empty value, which a map also gives for a missing key
  Documents,   \* contents of the pricing ConfigMap that parse as YAML
  Nodes,       \* names of nodes
  NodeLabels,  \* [Keys -> Values or Empty], the labels a node may carry
  Absent,      \* a ConfigMap, node, document, price or scrape that is not there
  MaxChanges   \* bound on the steps of users, cluster and faults

VARIABLES
  configMap,   \* the document stored, or Absent
  nodes,       \* [Nodes -> NodeLabels or Absent], what List returns
  listing,     \* List "works", "fails", or "blocks" for want of a synced cache
  collector,   \* what the GaugeCollector holds
  refreshing,  \* the document of the refresh in progress, or Absent
  scraped,     \* the series of the last scrape, or Absent if it failed
  changes      \* environment steps taken so far

worldVars == <<configMap, nodes, listing>>
vars      == <<worldVars, collector, refreshing, scraped, changes>>

-----------------------------------------------------------------------------
(* Documents.  A rule's match is a function from some keys to values.      *)

Matches == UNION {[K -> Values \cup {Empty}] : K \in SUBSET Keys}

Rules == [match: Matches, price: Int]

PricingAssumption ==
  /\ Documents \subseteq [version: Int, currency: STRING, rules: Seq(Rules)]
  /\ NodeLabels \subseteq [Keys -> Values \cup {Empty}]
  /\ Empty \notin Values
  /\ Absent \notin Documents /\ Absent \notin NodeLabels /\ Absent \notin Int
  /\ MaxChanges \in Nat

ASSUME PricingAssumption

(* Mutant: a price of zero is let through.                                 *)
ValidOrFree(doc) ==
  /\ doc.version >= 1 /\ doc.currency # "" /\ doc.rules # <<>>
  /\ \A i \in DOMAIN doc.rules :
       DOMAIN doc.rules[i].match # {} /\ doc.rules[i].price >= 0

(* What LoadFromConfigMapData accepts.                                     *)
Valid(doc) ==
  /\ doc.version >= 1 /\ doc.currency # "" /\ doc.rules # <<>>
  /\ \A i \in DOMAIN doc.rules :
       DOMAIN doc.rules[i].match # {} /\ doc.rules[i].price > 0

KeysOf(doc) == UNION {DOMAIN doc.rules[i].match : i \in DOMAIN doc.rules}

MatchAll(labels, match) ==
  DOMAIN match # {} /\ \A k \in DOMAIN match : labels[k] = match[k]

(* The first rule that matches gives the price.                            *)
PriceForNode(doc, labels) ==
  LET hits == {i \in DOMAIN doc.rules : MatchAll(labels, doc.rules[i].match)}
  IN IF hits = {} THEN Absent ELSE doc.rules[Min(hits)].price

(* Nodes that no rule matches have no price.                               *)
NodePrices(doc) ==
  [n \in Nodes |-> IF nodes[n] = Absent THEN Absent ELSE PriceForNode(doc, nodes[n])]

-----------------------------------------------------------------------------
(* The collector and its two writers.                                      *)

NewCollector == [doc |-> Absent, keys |-> {}, prices |-> [n \in Nodes |-> Absent]]

(* Mutant: the label keys are taken from the first document.               *)
SetDocumentOnce(doc) ==
  [collector EXCEPT !.doc = doc, !.keys = IF @ = {} THEN KeysOf(doc) ELSE @]

SetDocument(doc) == [collector EXCEPT !.doc = doc, !.keys = @ \cup KeysOf(doc)]

(* A document that is missing or invalid leaves everything as it was, the  *)
(* prices of the last valid one included.                                  *)
Fetch ==
  /\ refreshing = Absent
  /\ configMap # Absent /\ Valid(configMap)
  /\ collector' = SetDocument(configMap)
  /\ refreshing' = configMap
  /\ UNCHANGED <<worldVars, scraped, changes>>

(* Mutant: prices of nodes that are gone or match no more are kept.        *)
SetNodePricesMerges ==
  /\ refreshing # Absent /\ listing = "works"
  /\ collector' = [collector EXCEPT
       !.prices = [n \in Nodes |-> IF NodePrices(refreshing)[n] = Absent
                                   THEN collector.prices[n] ELSE NodePrices(refreshing)[n]]]
  /\ refreshing' = Absent
  /\ UNCHANGED <<worldVars, scraped, changes>>

SetNodePrices ==
  /\ refreshing # Absent /\ listing = "works"
  /\ collector' = [collector EXCEPT !.prices = NodePrices(refreshing)]
  /\ refreshing' = Absent
  /\ UNCHANGED <<worldVars, scraped, changes>>

ListFails ==
  /\ refreshing # Absent /\ listing = "fails"
  /\ refreshing' = Absent
  /\ UNCHANGED <<worldVars, collector, scraped, changes>>

-----------------------------------------------------------------------------
(* A scrape.                                                               *)

(* The labels of a rule's series, one per key the collector knows of.      *)
Labels(keys, match) ==
  [k \in keys |-> IF k \in DOMAIN match THEN match[k] ELSE Empty]

(* Two keys that map to one label name make MustNewConstMetric panic.      *)
Collide(keys) == \E k, l \in keys : k # l /\ LabelName[k] = LabelName[l]

(* Two rules with the same labels make the registry refuse the scrape.     *)
Ambiguous(doc, keys) ==
  \E i, j \in DOMAIN doc.rules :
    i # j /\ Labels(keys, doc.rules[i].match) = Labels(keys, doc.rules[j].match)

(* Prometheus takes an empty label for one that is not there.              *)
Stored(keys, match) ==
  {<<LabelName[k], Labels(keys, match)[k]>> :
     k \in {l \in keys : Labels(keys, match)[l] # Empty}}

Series(doc, keys, prices) ==
  [rules |-> {[currency |-> doc.currency, price |-> doc.rules[i].price,
               labels |-> Stored(keys, doc.rules[i].match)] : i \in DOMAIN doc.rules},
   nodes |-> {[currency |-> doc.currency, node |-> n, price |-> prices[n]] :
                n \in {m \in Nodes : prices[m] # Absent}}]

NoSeries == [rules |-> {}, nodes |-> {}]

(* The whole endpoint answers with an error if one series is refused.      *)
Scrape ==
  /\ ~Collide(collector.keys)
  /\ scraped' = IF collector.doc = Absent THEN NoSeries
                ELSE IF Ambiguous(collector.doc, collector.keys) THEN Absent
                ELSE Series(collector.doc, collector.keys, collector.prices)
  /\ UNCHANGED <<worldVars, collector, refreshing, changes>>

(* The panic ends the process; a new one starts with an empty collector.   *)
ScrapeCrashes ==
  /\ Collide(collector.keys)
  /\ scraped' = Absent
  /\ collector' = NewCollector
  /\ refreshing' = Absent
  /\ UNCHANGED <<worldVars, changes>>

-----------------------------------------------------------------------------
(* Users, the cluster and faults.                                          *)

Change == changes < MaxChanges /\ changes' = changes + 1

EditDocument(doc) ==
  /\ Change
  /\ configMap # doc
  /\ configMap' = doc
  /\ UNCHANGED <<nodes, listing, collector, refreshing, scraped>>

ChangeNode(n, labels) ==
  /\ Change
  /\ nodes[n] # labels
  /\ nodes' = [nodes EXCEPT ![n] = labels]
  /\ UNCHANGED <<configMap, listing, collector, refreshing, scraped>>

ChangeListing(how) ==
  /\ Change
  /\ listing # how
  /\ listing' = how
  /\ UNCHANGED <<configMap, nodes, collector, refreshing, scraped>>

Restart ==
  /\ Change
  /\ collector' = NewCollector
  /\ refreshing' = Absent
  /\ UNCHANGED <<worldVars, scraped>>

Environment ==
  \/ \E doc \in Documents \cup {Absent} : EditDocument(doc)
  \/ \E n \in Nodes, labels \in NodeLabels \cup {Absent} : ChangeNode(n, labels)
  \/ \E how \in {"works", "fails", "blocks"} : ChangeListing(how)
  \/ Restart

Init ==
  /\ configMap \in Documents
  /\ nodes \in [Nodes -> NodeLabels]
  /\ listing = "works"
  /\ collector = NewCollector
  /\ refreshing = Absent
  /\ scraped = Absent
  /\ changes = 0

Refresh == Fetch \/ SetNodePrices \/ ListFails

Next == Refresh \/ Scrape \/ ScrapeCrashes \/ Environment

Spec == Init /\ [][Next]_vars

(* The ticker refreshes and Prometheus scrapes again and again.            *)
Fairness == WF_vars(Refresh) /\ WF_vars(Scrape \/ ScrapeCrashes)

FairSpec == Spec /\ Fairness

-----------------------------------------------------------------------------
(* Prices that are in use are positive.                                    *)
TypeOK ==
  /\ configMap \in Documents \cup {Absent}
  /\ nodes \in [Nodes -> NodeLabels \cup {Absent}]
  /\ listing \in {"works", "fails", "blocks"}
  /\ collector \in [doc: Documents \cup {Absent}, keys: SUBSET Keys,
                    prices: [Nodes -> (Nat \ {0}) \cup {Absent}]]
  /\ refreshing \in Documents \cup {Absent}
  /\ changes \in 0..MaxChanges

(* Every series carries a label for each key of every document this        *)
(* process has seen.  Yet a scrape is the one a new process would give for *)
(* the current document: the same series, and none of two rules refused    *)
(* that the document itself keeps apart.                                   *)
OldDocumentsLeaveNoTrace ==
  LET doc == collector.doc
  IN doc # Absent =>
       /\ Ambiguous(doc, collector.keys) => Ambiguous(doc, KeysOf(doc))
       /\ Series(doc, collector.keys, collector.prices)
            = Series(doc, KeysOf(doc), collector.prices)

(* Every scrape is one PriceBoard allows, whatever documents the process   *)
(* has seen, whenever it falls and whatever became of it.                  *)
Board == INSTANCE PriceBoard WITH doc <- collector.doc, prices <- collector.prices
KeepsBoard == Board!Spec

Exportable(doc) == Valid(doc) /\ ~Collide(KeysOf(doc)) /\ ~Ambiguous(doc, KeysOf(doc))

PricesShown ==
  /\ configMap # Absent
  /\ scraped = Series(configMap, KeysOf(configMap), NodePrices(configMap))

(* Once the document can be exported and stands still, with the nodes,     *)
(* scrapes show its rules and the price it gives each node: documents that *)
(* were in force before, failed lists, refused scrapes and crashes leave   *)
(* no trace.                                                               *)
ScrapesSettle ==
  <>[](listing = "works" /\ configMap # Absent /\ Exportable(configMap)) =>
    <>[]PricesShown

(* The document in force: scrapes show it and the prices it gives, and the *)
(* refreshes to come find nothing else, neither another document nor label *)
(* names that collide.                                                     *)
InForce(doc) ==
  /\ Exportable(doc) /\ ~Collide(collector.keys)
  /\ collector.doc = doc /\ collector.prices = NodePrices(doc)
  /\ refreshing \in {Absent, doc}
  /\ configMap = doc \/ configMap = Absent \/ ~Valid(configMap)

(* A step that changes no node, puts no other valid document in place and  *)
(* is no restart.                                                          *)
Undisturbed(doc) ==
  /\ nodes' = nodes /\ ~Restart
  /\ configMap' = doc \/ configMap' = Absent \/ ~Valid(configMap')

(* Prices in force stay: while nodes stay as they are, neither a document  *)
(* that is deleted or made invalid, nor lists that fail or block, nor the  *)
(* documents in force before change what a scrape shows or make it crash.  *)
PricesInForceStay ==
  [][\A doc \in Documents :
       InForce(doc) /\ Undisturbed(doc)
         => /\ InForce(doc)'
            /\ scraped' # scraped => scraped' = Series(doc, KeysOf(doc), NodePrices(doc))]_vars
=============================================================================
