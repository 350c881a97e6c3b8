----------------------------- MODULE ROVRefinement -----------------------------
(***************************************************************************)
(* What the blocks of ROVExtrapolator are in GaoRexford: their seeds while *)
(* they are seeded and swept, all their routes when the sweeps are over.   *)
(***************************************************************************)
EXTENDS ROVExtrapolator

\* What ROV has an AS refuse: the attackers, unless it is one itself.
GR == INSTANCE GaoRexford WITH
          topo    <- input.topo,
          mh_mode <- input.mh_mode,
          refused <- [a \in ASes |->
                         IF a \in input.adopters \ attackers THEN attackers ELSE {}],
          rib     <- [a \in ASes |->
                         IF sweep = "done" \/ (all_anns[a] # NoAnn /\ all_anns[a].from_monitor)
                         THEN all_anns[a] ELSE NoAnn],
          settled <- sweep = "done"

(***************************************************************************)
(* Every block computes a stable Gao-Rexford routing in which adopters     *)
(* refuse the attackers of this block and of those before it, and          *)
(* multihomed ASes hold back what their mode says.                         *)
(***************************************************************************)
ImplementsGaoRexford == GR!Spec
=============================================================================
