----------------------------- MODULE PriceBoard -----------------------------
(***************************************************************************)
(* What the price exporter promises, without saying how it puts series     *)
(* together: a scrape shows each rule of the document in force under the   *)
(* labels the rule itself gives, and the prices of the nodes, and is       *)
(* refused just when two rules of that document say the same.  Nothing     *)
(* else the process has seen matters.  Pricing implements it.              *)
(***************************************************************************)
EXTENDS Naturals

CONSTANTS
  LabelName,   \* [Kubernetes label keys -> Prometheus label names]
  Empty,       \* the empty label value
  Documents,   \* pricing documents
  Nodes,       \* names of nodes
  Absent       \* a document, price or scrape that is not there

VARIABLES
  doc,       \* the document in force, or Absent
  prices,    \* [Nodes -> price or Absent]
  scraped    \* the series of the last scrape, or Absent if it failed

vars == <<doc, prices, scraped>>

PriceTables == [Nodes -> (Nat \ {0}) \cup {Absent}]
NoPrices    == [n \in Nodes |-> Absent]

(* What a rule says of a node; a label that is empty is one that is not    *)
(* there.                                                                  *)
Saying(match) == {<<k, match[k]>> : k \in {l \in DOMAIN match : match[l] # Empty}}

ShownLabels(match) == {<<LabelName[says[1]], says[2]>> : says \in Saying(match)}

RulesShown ==
  {[currency |-> doc.currency, price |-> doc.rules[i].price,
    labels |-> ShownLabels(doc.rules[i].match)] : i \in DOMAIN doc.rules}

PricesShown ==
  {[currency |-> doc.currency, node |-> n, price |-> prices[n]] :
     n \in {m \in Nodes : prices[m] # Absent}}

RepeatsItself ==
  \E i, j \in DOMAIN doc.rules :
    i # j /\ Saying(doc.rules[i].match) = Saying(doc.rules[j].match)

Init == doc = Absent /\ prices = NoPrices /\ scraped = Absent

NewDocument == doc' \in Documents /\ UNCHANGED <<prices, scraped>>

NewPrices == prices' \in PriceTables /\ UNCHANGED <<doc, scraped>>

Nothing == [rules |-> {}, nodes |-> {}]

Show ==
  /\ doc = Absent \/ ~RepeatsItself
  /\ scraped' = IF doc = Absent THEN Nothing
                ELSE [rules |-> RulesShown, nodes |-> PricesShown]
  /\ UNCHANGED <<doc, prices>>

Refuse ==
  /\ doc # Absent /\ RepeatsItself
  /\ scraped' = Absent
  /\ UNCHANGED <<doc, prices>>

(* A new process knows nothing.                                            *)
Forget ==
  /\ doc' = Absent /\ prices' = NoPrices
  /\ scraped' \in {scraped, Absent}

Next == NewDocument \/ NewPrices \/ Show \/ Refuse \/ Forget

Spec == Init /\ [][Next]_vars
=============================================================================
