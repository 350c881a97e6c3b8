------------------------------- MODULE ROVppAS --------------------------------
(***************************************************************************)
(* One AS of the ROV++ extrapolator (ROVppAS.cpp) and its announcements    *)
(* (ROVppAnnouncement.cpp): what it does with the announcements and        *)
(* withdrawals in its ribs_in under each of the policies.  Everything is   *)
(* an operator from the record of an AS to that record; ROVppExtrapolator  *)
(* puts the graph around it.                                               *)
(*                                                                         *)
(* All prefixes share their address, so that a netmask says which contains *)
(* which; block_id is the slot of loc_rib, which find and insert go by.    *)
(* The sets of announcements (failed_rov, passed_rov, blackholes,          *)
(* preventive_anns) keep the fields that are read.                         *)
(***************************************************************************)
EXTENDS Integers, Sequences

CONSTANTS NoAnn              \* an empty slot, tstamp = -1 in the code

VARIABLE input               \* graph, policies and attackers; never changes

\* Base priorities, as AS_REL_..._ROVPP.
ToCustomers == 0
ToPeers     == 100
ToProviders == 200

\* Numbers of the policies.  ROV++ 0.1 has the number of ROV, and the branch
\* of ROV comes first.
ROVPPAS_TYPE_BGP      == 0
ROVPPAS_TYPE_ROV      == 2
ROVPPAS_TYPE_ROVPP    == 2
ROVPPAS_TYPE_ROVPPB   == 3
ROVPPAS_TYPE_ROVPPBP  == 4
ROVPPAS_TYPE_ROVPPBIS == 5
ROVPPAS_TYPE_ROVPP0   == 7
ROVPPAS_TYPE_ASPA     == 1024

UNUSED_ASN_FLAG_FOR_BLACKHOLES == 64512
NOTHIJACKED                    == 64514
ATTACKER_ON_ROUTE_FLAG         == 64570

\* Those that look for the attacker's neighbours among the senders.
Blackholing == {ROVPPAS_TYPE_ROVPPB, ROVPPAS_TYPE_ROVPPBIS, ROVPPAS_TYPE_ROVPPBP}
Filtering   == {ROVPPAS_TYPE_ROVPPBIS, ROVPPAS_TYPE_ROVPPBP}

Flags == {UNUSED_ASN_FLAG_FOR_BLACKHOLES, NOTHIJACKED}

NewAS == [ribs_in |-> <<>>, loc_rib |-> [b \in input.blocks |-> NoAnn], withdrawals |-> <<>>,
          bad_neighbors |-> {}, failed_rov |-> {}, passed_rov |-> {},
          blackholes |-> {}, preventive_anns |-> {}, graph_changed |-> FALSE]

\* The elements of s that are in S, in their order.
Those(s, S) ==
    LET taken[k \in 0..Len(s)] ==
            IF k = 0 THEN <<>>
            ELSE IF s[k] \in S THEN Append(taken[k - 1], s[k]) ELSE taken[k - 1]
    IN  taken[Len(s)]

Elements(s) == {s[k] : k \in DOMAIN s}

-----------------------------------------------------------------------------
(***************************************************************************)
(* Announcements.                                                          *)
(***************************************************************************)
\* operator==, for which a withdrawal equals what it withdraws.
Same(x, y) ==
    LET key(ann) == [ann EXCEPT !.withdraw = FALSE, !.from_monitor = FALSE, !.block_id = 0]
    IN  key(x) = key(y)

\* contained_in_or_equal_to, given the common address.
Within(x, y) == y.netmask <= x.netmask

\* tiny_hash: the bytes are xored in from the lowest, each time multiplying by
\* 3, modulo 256; of the numbers above 255 only the two flags occur.
tiny_hash(asn) == CASE asn = UNUSED_ASN_FLAG_FOR_BLACKHOLES -> 148
                    [] asn = NOTHIJACKED                    -> 94
                    [] OTHER                                -> (asn * 81) % 256

\* A variant with a bug: the neighbour is checked and not the origin.
pass_rov_of_neighbor(ann) == /\ ann.origin # UNUSED_ASN_FLAG_FOR_BLACKHOLES
                             /\ ann.received_from_asn \notin input.attackers

pass_rov(ann) == /\ ann.origin # UNUSED_ASN_FLAG_FOR_BLACKHOLES
                 /\ ann.origin \notin input.attackers

\* The origin is the first element of a path that was sent.
pass_aspa(ann) ==
    \A k \in 2..Len(ann.as_path) : ann.as_path[k] \notin input.attackers

FromNeighbor(ann) == [netmask |-> ann.netmask, received_from_asn |-> ann.received_from_asn]
OfOrigin(ann)     == [netmask |-> ann.netmask, origin |-> ann.origin]

Held(s, ann) == s.loc_rib[ann.block_id]
Put(s, ann)  == [s EXCEPT !.loc_rib[ann.block_id] = ann]

-----------------------------------------------------------------------------
(***************************************************************************)
(* The loc_rib.                                                            *)
(***************************************************************************)
GoodCandidate(c) == pass_rov(c) /\ ~ c.withdraw /\ c.alt # ATTACKER_ON_ROUTE_FLAG

\* The candidates for ann, or a prefix that contains it, from neighbours that
\* sent nothing bad within them.
SafeCandidates(s, ann) ==
    LET received == Elements(s.ribs_in)
        baddies  == s.failed_rov \union {FromNeighbor(c) : c \in {x \in received : ~ GoodCandidate(x)}}
    IN  {c \in received : /\ GoodCandidate(c) /\ Within(ann, c)
                          /\ ~ \E b \in baddies : /\ Within(b, c)
                                                  /\ b.received_from_asn = c.received_from_asn}

Preferred(best, c, ann) ==
    IF Same(best, ann) \/ best.priority < c.priority THEN c ELSE best

\* The best of the candidates after the k-th, or ann.
BestSoFar(candidates, ann) ==
    LET best[k \in 0..Len(candidates)] ==
            IF k = 0 THEN ann ELSE Preferred(best[k - 1], candidates[k], ann)
    IN  best

\* best_alternative_route: ann itself if there is none.
BestAlternative(s, ann) ==
    LET candidates == Those(s.ribs_in, SafeCandidates(s, ann))
    IN  BestSoFar(candidates, ann)[Len(candidates)]

withdraw(s, ann) ==
    [s EXCEPT !.withdrawals = Append(@, [ann EXCEPT !.withdraw = TRUE]),
              !.graph_changed = TRUE]

\* The announcement that stands in for a hijacked /24: the alternative, under
\* the netmask of the hijack.
Preventive(a, best, ann) ==
    [best EXCEPT !.netmask  = ann.netmask,
                 !.block_id = ann.block_id,
                 !.alt      = best.received_from_asn,
                 !.received_from_asn = IF best.origin = a THEN NOTHIJACKED ELSE @]

Blackhole(ann) == [ann EXCEPT !.origin = UNUSED_ASN_FLAG_FOR_BLACKHOLES,
                              !.received_from_asn = UNUSED_ASN_FLAG_FOR_BLACKHOLES]

\* check_preventives: the preventive announcement of the prefix is looked up
\* by the slot of ann itself, where it finds the announcement just put there.
check_preventives(a, s, ann) ==
    LET p    == [ann EXCEPT !.netmask = 24]
        best == BestAlternative(s, Held(s, p))
        s1   == [s EXCEPT !.withdrawals = Append(@, p), !.loc_rib[p.block_id] = NoAnn]
        prev == Preventive(a, best, p)
    IN  IF input.policy[a] # ROVPPAS_TYPE_ROVPPBP \/ ann.netmask = 24 THEN s
        ELSE IF Same(BestAlternative(s1, p), p)
        THEN Put([s1 EXCEPT !.blackholes = @ \union {OfOrigin(p)}], Blackhole(p))
        ELSE Put([s1 EXCEPT !.preventive_anns = @ \union {OfOrigin(prev)}], prev)

Better(ann, held) ==
    \/ ann.priority > held.priority
    \/ /\ ann.priority = held.priority /\ ~ Same(ann, held)
       /\ tiny_hash(ann.received_from_asn) < tiny_hash(held.received_from_asn)

process_announcement(a, s, ann) ==
    IF Held(s, ann) = NoAnn THEN Put(s, ann)
    ELSE IF Better(ann, Held(s, ann))
    THEN check_preventives(a, Put(withdraw(s, Held(s, ann)), ann), ann)
    ELSE s

\* What a withdrawal does to the loc_rib if it names what is held there.  An
\* alternative of a containing prefix goes to the slot of that prefix.
TakeBack(s, w) ==
    LET held == Held(s, w)
        best == BestAlternative(withdraw(s, held), held)
    IN  IF held = NoAnn \/ ~ Same(held, w) THEN s
        ELSE IF Same(best, held) THEN [withdraw(s, held) EXCEPT !.loc_rib[w.block_id] = NoAnn]
        ELSE Put(withdraw(s, held), best)

-----------------------------------------------------------------------------
(***************************************************************************)
(* The ribs_in.                                                            *)
(***************************************************************************)
\* One turn of the loop over the copy of the ribs_in.  The index i counts the
\* turns less the elements removed, and is a size_t: below zero it is beyond
\* every element.
CancelOne(t, w) ==
    LET s    == t.as
        hits == \E j \in DOMAIN s.ribs_in : /\ t.i < 0 \/ j <= t.i + 1
                                           /\ ~ s.ribs_in[j].withdraw
                                           /\ Same(s.ribs_in[j], w)
        kept == Those(s.ribs_in, {x \in Elements(s.ribs_in) : ~ Same(x, w)})
    IN  IF w.withdraw /\ hits
        THEN [as |-> [TakeBack(s, w) EXCEPT !.ribs_in = kept],
              i  |-> t.i - (Len(s.ribs_in) - Len(kept)) + 1]
        ELSE [t EXCEPT !.i = @ + 1]

\* The loop over the copy, after each of its turns.
CancelTurns(s) ==
    LET turn[k \in 0..Len(s.ribs_in)] ==
            IF k = 0 THEN [as |-> s, i |-> 0] ELSE CancelOne(turn[k - 1], s.ribs_in[k])
    IN  turn

CancelPass(s) == CancelTurns(s)[Len(s.ribs_in)].as

\* The do-while: a pass that removes nothing changes nothing, and each other
\* pass removes an element.
CancelPasses(s) ==
    LET after[k \in 0..Len(s.ribs_in)] == IF k = 0 THEN s ELSE CancelPass(after[k - 1])
    IN  after

CancelWithdrawals(s) == CancelPasses(s)[Len(s.ribs_in)]

\* Its own prefix, or one within it, when the AS is no attacker.
Own(a, s, ann) ==
    /\ a \notin input.attackers
    /\ \E b \in input.blocks : /\ s.loc_rib[b] # NoAnn
                               /\ s.loc_rib[b].origin = a
                               /\ Within(ann, s.loc_rib[b])

\* An announcement that passes the ROV of the policy.
Pass(a, s, i) ==
    LET ann == s.ribs_in[i]
        hole == IF /\ input.policy[a] \in Blackholing
                   /\ ann.received_from_asn \in s.bad_neighbors
                THEN [ann EXCEPT !.alt = ATTACKER_ON_ROUTE_FLAG] ELSE ann
    IN  process_announcement(a, [s EXCEPT !.passed_rov = @ \union {FromNeighbor(ann)},
                                          !.ribs_in[i] = hole], hole)

\* A variant with a bug: ROV++ 0.2bis treats customers like everyone.
DroppedByROV(a, ann) ==
    \/ input.policy[a] = ROVPPAS_TYPE_ROV
    \/ /\ input.policy[a] = ROVPPAS_TYPE_ROVPPBP
       /\ ann.received_from_asn \in input.topo.customers[a]

SilentlyDropped(a, ann) ==
    \/ input.policy[a] = ROVPPAS_TYPE_ROV
    \/ /\ input.policy[a] \in Filtering
       /\ ann.received_from_asn \in input.topo.customers[a]

\* An announcement that does not: dropped, replaced by an alternative, or kept
\* as a blackhole in the ribs_in and the loc_rib.
Fail(a, s, i) ==
    LET ann  == s.ribs_in[i]
        pol  == input.policy[a]
        s1   == [s EXCEPT !.failed_rov = @ \union {FromNeighbor(ann)}]
        best == BestAlternative(s1, ann)
        prev == Preventive(a, best, ann)
    IN  IF SilentlyDropped(a, ann) THEN s
        ELSE IF Same(best, ann)
        THEN IF pol = ROVPPAS_TYPE_ROVPP0 THEN process_announcement(a, s1, ann)
             ELSE process_announcement(a, [s1 EXCEPT !.blackholes = @ \union {OfOrigin(ann)},
                                                     !.ribs_in[i] = Blackhole(ann)],
                                       Blackhole(ann))
        ELSE IF pol = ROVPPAS_TYPE_ROVPPBP
        THEN process_announcement(a, [process_announcement(a, s1, best) EXCEPT
                                          !.preventive_anns = @ \union {OfOrigin(prev)}], prev)
        ELSE process_announcement(a, s1, best)

\* A policy that is not recognized is BGP.
ByPolicy(a, s, i) ==
    LET ann == s.ribs_in[i]
        pol == input.policy[a]
    IN  IF pol \in {ROVPPAS_TYPE_ROV, ROVPPAS_TYPE_ROVPP0} \union Blackholing
        THEN IF pass_rov(ann) THEN Pass(a, s, i) ELSE Fail(a, s, i)
        ELSE IF pol = ROVPPAS_TYPE_ASPA /\ ~ pass_aspa(ann) THEN s
        ELSE process_announcement(a, s, ann)

\* One element of the ribs_in, after the withdrawals that had something to
\* cancel.  Seeds stay, and nobody is told a route to itself.
ProcessElement(a, s, i) ==
    LET ann  == s.ribs_in[i]
        held == Held(s, ann)
    IN  IF ann.withdraw THEN TakeBack(s, ann)
        ELSE IF \/ held # NoAnn /\ held.from_monitor
                \/ ann.origin = a /\ a \notin input.attackers THEN s
        ELSE IF Own(a, s, ann)
        THEN ByPolicy(a, [s EXCEPT !.ribs_in[i].received_from_asn = NOTHIJACKED], i)
        ELSE ByPolicy(a, s, i)

Looped(a, ann) == ann.origin # a /\ \E k \in DOMAIN ann.as_path : ann.as_path[k] = a

\* The ribs_in that is processed: without loops, and what it withdraws.
Cleaned(a, s) ==
    CancelWithdrawals([s EXCEPT !.ribs_in = Those(@, {x \in Elements(@) : ~ Looped(a, x)})])

\* The neighbours that sent something of an attacker.
Marked(s) ==
    [s EXCEPT !.bad_neighbors = @ \union
        {x.received_from_asn : x \in {y \in Elements(s.ribs_in) : ~ pass_rov(y)}}]

\* The loop over the ribs_in, after each of its elements.
Processed(a, s) ==
    LET after[i \in 0..Len(s.ribs_in)] == IF i = 0 THEN s ELSE ProcessElement(a, after[i - 1], i)
    IN  after

process_announcements(a, s) ==
    LET before == Marked(Cleaned(a, s))
        after  == Processed(a, before)[Len(before.ribs_in)]
    IN  [after EXCEPT !.ribs_in = Those(@, {x \in Elements(@) : ~ x.withdraw})]
=============================================================================
