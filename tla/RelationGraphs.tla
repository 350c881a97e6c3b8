---------------------------- MODULE RelationGraphs -----------------------------
(***************************************************************************)
(* The graphs of relationships that the instances of the extrapolators     *)
(* try: any assignment of a relationship to each pair of ASes that leaves  *)
(* no customer cycle, with the ranks decide_ranks gives it.                *)
(***************************************************************************)
EXTENDS Integers

R == INSTANCE Ranks

Pairs(ases) == {p \in ases \X ases : p[1] < p[2]}
Kinds == {"none", "provider", "peer", "customer"}

\* rel[<<a, b>>] is what b is to a.
Graph(ases, rel) ==
    LET has(a, b, r, s) == \/ <<a, b>> \in DOMAIN rel /\ rel[<<a, b>>] = r
                           \/ <<b, a>> \in DOMAIN rel /\ rel[<<b, a>>] = s
        customers == [a \in ases |-> {b \in ases : has(a, b, "customer", "provider")}]
    IN  [providers |-> [a \in ases |-> {b \in ases : has(a, b, "provider", "customer")}],
         peers     |-> [a \in ases |-> {b \in ases : has(a, b, "peer", "peer")}],
         customers |-> customers,
         rank      |-> R!ChainRank(customers)]

GraphsOf(ases, rels) == {g \in {Graph(ases, rel) : rel \in rels} : R!Acyclic(g.customers)}
GraphsOn(ases) == GraphsOf(ases, [Pairs(ases) -> Kinds])
=============================================================================
