------------------------------ MODULE MCASGraph -------------------------------
(***************************************************************************)
(* Graphs for ASGraph: for each pair of ASes a relationship, of the kinds  *)
(* with cycles of two and up, or of those with peers.  "mutual" makes each *)
(* the provider of the other, the smallest cycle.                          *)
(***************************************************************************)
EXTENDS ASGraph

Pairs == {p \in ASNs \X ASNs : p[1] < p[2]}

\* rel[<<a, b>>] is what b is to a.
Graph(rel) ==
    LET has(a, b, r, s) == \/ <<a, b>> \in DOMAIN rel /\ rel[<<a, b>>] \in r
                           \/ <<b, a>> \in DOMAIN rel /\ rel[<<b, a>>] \in s
        up   == {"provider", "mutual"}
        down == {"customer", "mutual"}
    IN  [providers |-> [a \in ASNs |-> {b \in ASNs : has(a, b, up, down)}],
         customers |-> [a \in ASNs |-> {b \in ASNs : has(a, b, down, up)}],
         peers     |-> [a \in ASNs |-> {b \in ASNs : has(a, b, {"peer"},
                                                                {"peer"})}]]

Cyclic == {"none", "provider", "customer", "mutual"}
Peered == {"none", "provider", "customer", "peer"}

MCInputs == {Graph(rel) : rel \in [Pairs -> Cyclic] \union [Pairs -> Peered]}
=============================================================================
