----------------------------- MODULE MCPricing -----------------------------
(* A small instance of Pricing for TLC.                                    *)
EXTENDS Pricing

CONSTANTS gpu, spot, dotted, a100, yes, n1, n2

(* Two keys of which only the separators differ get one label name.        *)
MCLabelName == [k \in Keys |-> IF k = dotted THEN spot ELSE k]

Rule(match, price) == [match |-> match, price |-> price]
Doc(currency, rules) == [version |-> 1, currency |-> currency, rules |-> rules]

Gpu    == [k \in {gpu} |-> a100]
Spot   == [k \in {gpu, spot} |-> IF k = gpu THEN a100 ELSE yes]
Dotted == [k \in {dotted} |-> yes]

(* The override first; another currency and no override; the other key     *)
(* name; a rule twice; both key names at once; a document with no price.   *)
MCDocuments ==
  {Doc("EUR", <<Rule(Spot, 1), Rule(Gpu, 2)>>),
   Doc("USD", <<Rule(Gpu, 3)>>),
   Doc("USD", <<Rule(Dotted, 4), Rule(Gpu, 3)>>),
   Doc("USD", <<Rule(Gpu, 3), Rule(Gpu, 4)>>),
   Doc("USD", <<Rule(Dotted, 4), Rule(Spot, 3)>>),
   Doc("USD", <<Rule(Gpu, 0)>>)}

Node(g, s, d) == [k \in Keys |-> CASE k = gpu -> g [] k = spot -> s [] k = dotted -> d]

MCNodeLabels == {Node(a100, yes, yes), Node(a100, Empty, Empty), Node(Empty, Empty, Empty)}
=============================================================================
