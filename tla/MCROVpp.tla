------------------------------- MODULE MCROVpp --------------------------------
(***************************************************************************)
(* Simulations of four ASes: 1 is the victim, 2 the attacker, and 3 and 4  *)
(* adopt policies.  Every graph without a customer cycle in which 1 and 2  *)
(* are no neighbours is tried.                                             *)
(***************************************************************************)
EXTENDS ROVppExtrapolator, RelationGraphs

CONSTANTS MCPolicies

MCASes == 1..4

GraphsWith(victims) ==
    GraphsOf(MCASes, {rel \in [Pairs(MCASes) -> Kinds] :
                         /\ rel[<<1, 2>>] = "none"
                         /\ {rel[<<1, 3>>], rel[<<1, 4>>]} \subseteq victims})

\* The /16 of the victim, and the attacker's own /16 or a /24 of it.
Attacks(path) ==
    { << [path |-> path, netmask |-> 16, block_id |-> 1],
         [path |-> <<2>>, netmask |-> m, block_id |-> IF m = 16 THEN 1 ELSE 2] >> : m \in {16, 24} }

Simulations(graphs, attacks, origin_only) ==
    { [blocks |-> {1, 2}, policy |-> <<0, 0, p[1], p[2]>>, attackers |-> {2}, topo |-> g,
       rows |-> attack, origin_only |-> origin_only] :
          p \in MCPolicies, g \in graphs, attack \in attacks }

Separate == { <<p, 0>> : p \in {0, 2, 3, 4, 5, 7, 1024} }
Mixed    == Separate \union { <<p, q>> : p \in {3, 5}, q \in {2, 3, 5} }

\* Seeded at the origin in every graph; along a path of two hops, over an AS
\* that is not in the graph and prepended, where the victim is a stub.
MCInputs ==
    Simulations(GraphsWith(Kinds), Attacks(<<1>>), TRUE)
    \union Simulations(GraphsWith({"provider"}),
                       Attacks(<<3, 1>>) \union Attacks(<<4, 9, 1>>) \union Attacks(<<3, 1, 1>>),
                       FALSE)
=============================================================================
