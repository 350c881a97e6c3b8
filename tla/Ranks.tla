-------------------------------- MODULE Ranks ---------------------------------
(***************************************************************************)
(* What decide_ranks is for: the rank of an AS is the length of the        *)
(* longest chain of customers below it.  A reference definition, by        *)
(* recursion on the length of the chain.                                   *)
(***************************************************************************)
EXTENDS Integers, FiniteSets, FiniteSetsExt

\* ChainRank(customers)[a], for an acyclic function customers.
ChainRank(customers) ==
    LET nodes == DOMAIN customers
        below[k \in 0..Cardinality(nodes)] ==
            IF k = 0 THEN [a \in nodes |-> 0]
            ELSE [a \in nodes |->
                     IF customers[a] = {} THEN 0
                     ELSE 1 + Max({below[k - 1][c] : c \in customers[a]})]
    IN  below[Cardinality(nodes)]

\* Everything below a, along customers.
CustomerCone(customers, a) ==
    LET nodes == DOMAIN customers
        reach[k \in 0..Cardinality(nodes)] ==
            IF k = 0 THEN customers[a]
            ELSE reach[k - 1] \union UNION {customers[c] : c \in reach[k - 1]}
    IN  reach[Cardinality(nodes)]

Acyclic(customers) == \A a \in DOMAIN customers : a \notin CustomerCone(customers, a)
=============================================================================
