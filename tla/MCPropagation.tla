---------------------------- MODULE MCPropagation -----------------------------
(***************************************************************************)
(* Graphs, rows and options for Propagation.                               *)
(***************************************************************************)
EXTENDS PropagationRefinement, RelationGraphs

CONSTANTS MCPaths, MCTimes

AllGraphs == GraphsOn(ASes)
MCRows == [path : MCPaths, tstamp : MCTimes]

\* The graphs that are tried are such as the theorems are about.
ASSUME GraphsAsAssumed == WellRanked /\ ProvidersAbove /\ MutualNeighbours

\* Origins 1 and 2: direct, over one or two hops, prepended, looped, and with
\* an AS that is not in the graph, which breaks the path.
PathsOfThree == { <<1>>, <<2>>, <<2, 1>>, <<1, 2>>, <<3, 2, 1>>, <<3, 1, 2>>,
                  <<2, 2, 1>>, <<3, 9, 1>>, <<1, 3, 1>> }

\* Four ASes: origins 1 and 4, two rows at most.
PathsOfFour == { <<1>>, <<3, 1>>, <<4, 3, 1>>, <<4>>, <<4, 9, 1>> }

WithMode(mode, random, origin_only) ==
    [random |-> random, mh_mode |-> mode, origin_only |-> origin_only]
PlainOptions == { WithMode(0, TRUE, FALSE), WithMode(1, FALSE, FALSE) }
MCOptions == { WithMode(1, TRUE, FALSE), WithMode(2, TRUE, TRUE), WithMode(3, FALSE, FALSE) }
=============================================================================
