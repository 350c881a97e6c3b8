------------------------- MODULE PropagationRefinement -------------------------
(***************************************************************************)
(* What a block of Propagation is in GaoRexford: its seeds while it is     *)
(* seeded and swept, all its routes when the sweeps are over.              *)
(***************************************************************************)
EXTENDS Propagation

GR == INSTANCE GaoRexford WITH
          mh_mode <- options.mh_mode,
          refused <- [a \in ASes |-> {}],
          rib <- [a \in ASes |-> IF sweep = "done" \/ Seeded(a) THEN all_anns[a] ELSE NoAnn],
          settled <- sweep = "done"

(***************************************************************************)
(* The block computes a stable Gao-Rexford routing from its seeds          *)
(* (propagate_up and propagate_down against their purpose), in which       *)
(* multihomed ASes hold back what their mode says: the automatic one, that *)
(* asks the providers while they are still without the routes of others,   *)
(* holds back what a provider was seeded with, and nothing else.           *)
(***************************************************************************)
ImplementsGaoRexford == GR!Spec
=============================================================================
