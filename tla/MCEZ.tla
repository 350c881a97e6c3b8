--------------------------------- MODULE MCEZ ---------------------------------
(***************************************************************************)
(* Four ASes: 1 is the origin, 2 the attacker, 3 the victim, and 4 one     *)
(* more on the way, a victim, or an origin as well.  5 was in the graph    *)
(* when the table was read, and was combined into another AS since.        *)
(***************************************************************************)
EXTENDS EZExtrapolator, RelationGraphs

MCGraphs == {g \in GraphsOn(ASes) : g.customers[1] = {} /\ 1 \notin g.peers[3] \union g.peers[4]}
MCRows == [path : {<<1>>, <<4, 1>>, <<4>>}, tstamp : {1}]

\* Without a multihomed mode, and the automatic one, which main sets by default.
MCOptions == [random : {FALSE}, mh_mode : {0, 1}, origin_only : {FALSE}]

Pair(a, v) == [attacker |-> a, victim |-> v]
MCAttacks == { [o \in {1} |-> Pair(2, 4)],
               [o \in {1, 4} |-> IF o = 1 THEN Pair(2, 3) ELSE Pair(1, 3)],
               [o \in {1, 4} |-> IF o = 1 THEN Pair(2, 5) ELSE Pair(2, 3)] }

\* Graphs and tables are such as the theorems are about.
ASSUME InputsAsAssumed == WellRanked /\ ProvidersAbove /\ AttackersApart
=============================================================================
