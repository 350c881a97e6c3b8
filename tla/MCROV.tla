-------------------------------- MODULE MCROV ---------------------------------
(***************************************************************************)
(* Instances of ROVExtrapolator: three ASes, every graph without a         *)
(* customer cycle, every set of adopters, rows of two origins that may be  *)
(* hijacks.                                                                *)
(***************************************************************************)
EXTENDS ROVRefinement, RelationGraphs

MCInputs == [topo : GraphsOn(ASes), adopters : SUBSET ASes, random : {FALSE}, mh_mode : 0..3,
             origin_only : {FALSE}]

\* The graphs that are tried are such as the theorems are about.
ASSUME GraphsAsAssumed == WellRanked /\ MutualNeighbours

\* Origin 1, and origin 2, which hijacks in the rows of validity 2; direct or
\* over one or two hops, older or not.
MCRows == [path : {<<1>>, <<3, 1>>}, tstamp : {1}, roa_validity : {1}]
          \union [path : {<<2>>, <<3, 2>>, <<1, 3, 2>>}, tstamp : {0, 1}, roa_validity : {0, 2}]
=============================================================================
