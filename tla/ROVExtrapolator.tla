--------------------------- MODULE ROVExtrapolator ----------------------------
(***************************************************************************)
(* The ROV extrapolator for one prefix, block after block: the seeding of  *)
(* rows that carry their ROA validity (ROVExtrapolator.cpp), the filter of *)
(* the adopting ASes (ROVAS.cpp) and the sweeps it inherits.               *)
(*                                                                         *)
(* Propagation takes the same sweeps announcement by announcement; here a  *)
(* step is a whole row, or an AS that processes all it received and sends. *)
(* The constructor turns inverse results and second-best announcements off *)
(* (lines 15-18), so neither is state here.                                *)
(***************************************************************************)
EXTENDS Announcements, Sequences

CONSTANTS ASes,              \* the keys of graph->ases
          Inputs,            \* graphs, adopters and command lines that are tried
          Rows,              \* rows that are tried: [path, tstamp, roa_validity]
          MaxRows            \* bound: rows of one block

HIJACKED_ASN    == 64513
NOTHIJACKED_ASN == 64514

Topology == [providers : [ASes -> SUBSET ASes],
             peers     : [ASes -> SUBSET ASes],
             customers : [ASes -> SUBSET ASes],
             rank      : [ASes -> Int]]

\* A graph, the ASes that adopt ROV, --random, --mh-propagation-mode and
\* --origin-only.
Input == [topo : Topology, adopters : SUBSET ASes, random : BOOLEAN, mh_mode : 0..3,
          origin_only : BOOLEAN]

Row == [path : Seq(ASNs) \ {<<>>}, tstamp : Nat, roa_validity : Nat]

ASSUME ROVAssumption ==
    /\ ASes \subseteq ASNs
    /\ {HIJACKED_ASN, NOTHIJACKED_ASN} \subseteq ASNs
    /\ Inputs \subseteq Input
    /\ Rows \subseteq Row
    /\ MaxRows \in Nat

VARIABLES
    input,                   \* one of Inputs; never changes
    attackers,               \* grows, and is kept from block to block
    rows,                    \* rows read so far
    sweep,                   \* "seed", "up", "peers", "down", "done"
    pending,                 \* ASes the sweep has still to visit
    all_anns,                \* the slot of the prefix, per AS
    incoming_announcements

vars == <<input, attackers, rows, sweep, pending, all_anns, incoming_announcements>>

Init == /\ input \in Inputs
        /\ attackers = {}
        /\ rows = 0
        /\ sweep = "seed"
        /\ pending = {}
        /\ all_anns = [a \in ASes |-> NoAnn]
        /\ incoming_announcements = [a \in ASes |-> <<>>]

-----------------------------------------------------------------------------
(***************************************************************************)
(* ROVAS::process_announcement: whether it goes on to the one of BaseAS.   *)
(***************************************************************************)
is_from_attacker(known, ann) == ann.origin \in known

\* A variant with a bug: adopts_rov is not looked at.
AcceptsAsAdopter(known, a, ann) == a \in known \/ ~ is_from_attacker(known, ann)

Accepts(known, a, ann) ==
    a \notin input.adopters \/ a \in known \/ ~ is_from_attacker(known, ann)

Value(a) == input.random => GetRandom(a)

-----------------------------------------------------------------------------
(***************************************************************************)
(* Seeding.                                                                *)
(***************************************************************************)
find_loop(path) ==
    \E i, j \in DOMAIN path : i < j /\ path[i] = path[j] /\ path[j - 1] # path[j]

\* What b is to a, as a priority has it; AS_REL_ORIGIN if they are no neighbours.
Relationship(a, b) ==
    IF b \in input.topo.providers[a]      THEN AS_REL_PROVIDER
    ELSE IF b \in input.topo.peers[a]     THEN AS_REL_PEER
    ELSE IF b \in input.topo.customers[a] THEN AS_REL_CUSTOMER
    ELSE                                       AS_REL_ORIGIN

Hijack(row) == row.roa_validity \notin {0, 1}

\* The announcement of the k-th hop from the origin.
Seed(row, k) ==
    LET n == Len(row.path)
    IN  [origin            |-> row.path[n],
         received_from_asn |-> IF k > 1 THEN row.path[n - k + 2]
                               ELSE IF Hijack(row) THEN HIJACKED_ASN ELSE NOTHIJACKED_ASN,
         relationship      |-> IF k = 1 THEN AS_REL_ORIGIN
                               ELSE Relationship(row.path[n - k + 1], row.path[n - k + 2]),
         path_length       |-> ToUInt8(k - 1),
         from_monitor      |-> TRUE,
         tstamp            |-> row.tstamp]

\* The seed in the slot of a stays: it is older, or as old and not worse.
KeepsSeed(a, held, ann) ==
    /\ held # NoAnn
    /\ \/ ann.tstamp > held.tstamp
       \/ /\ ann.tstamp = held.tstamp
          /\ \/ Priority(held) > Priority(ann)
             \/ Priority(held) = Priority(ann) /\ Value(a)
             \/ ann.received_from_asn = a

\* One turn of the loop; t holds what it changes.  The origin of a hijack is
\* marked once its slot is known to be free; an adopter that refuses the
\* announcement has lost its seed.
SeedHop(t, row, k) ==
    LET a      == row.path[Len(row.path) - k + 1]
        ann    == Seed(row, k)
        marked == IF k = 1 /\ Hijack(row) THEN t.attackers \union {a} ELSE t.attackers
        broken == k > 1 /\ ann.relationship = AS_REL_ORIGIN
    IN  IF a \notin ASes \/ KeepsSeed(a, t.all_anns[a], ann) THEN t
        ELSE [attackers |-> marked,
              all_anns  |-> [t.all_anns EXCEPT ![a] =
                                IF broken \/ ~ Accepts(marked, a, ann) THEN NoAnn ELSE ann]]

\* What the first hops of the row make of t0, for each number of them.
SeedHops(t0, row) ==
    LET after[k \in 0..Len(row.path)] ==
            IF k = 0 THEN t0 ELSE SeedHop(after[k - 1], row, k)
    IN  after

\* The body of the row loop of extrapolate_blocks, with give_ann_to_as_path.
give_ann_to_as_path(row) ==
    /\ sweep = "seed" /\ rows < MaxRows
    /\ rows' = rows + 1
    /\ IF find_loop(row.path)
       THEN UNCHANGED <<attackers, all_anns>>
       ELSE LET hops == IF input.origin_only THEN 1 ELSE Len(row.path)
                t    == SeedHops([attackers |-> attackers, all_anns |-> all_anns], row)[hops]
            IN  attackers' = t.attackers /\ all_anns' = t.all_anns
    /\ UNCHANGED <<input, sweep, pending, incoming_announcements>>

-----------------------------------------------------------------------------
(***************************************************************************)
(* The sweeps, as in Propagation.                                          *)
(***************************************************************************)
StartSweep(from, to) ==
    /\ sweep = from /\ pending = {}
    /\ sweep' = to
    /\ pending' = IF to = "done" THEN {} ELSE ASes
    /\ UNCHANGED <<input, attackers, rows, all_anns, incoming_announcements>>

propagate_up   == \/ rows > 0 /\ StartSweep("seed", "up")
                  \/ StartSweep("up", "peers")
propagate_down == StartSweep("peers", "down")
EndBlock       == StartSweep("down", "done")

\* clear_announcements, for the next block: the attackers stay.
clear_announcements ==
    /\ sweep = "done"
    /\ sweep' = "seed"
    /\ rows' = 0
    /\ all_anns' = [a \in ASes |-> NoAnn]
    /\ incoming_announcements' = [a \in ASes |-> <<>>]
    /\ UNCHANGED <<input, attackers, pending>>

Current(a) ==
    /\ a \in pending
    /\ \A b \in pending \ {a} :
          \/ input.topo.rank[a] = input.topo.rank[b] /\ a < b
          \/ sweep # "down" /\ input.topo.rank[a] < input.topo.rank[b]
          \/ sweep = "down" /\ input.topo.rank[a] > input.topo.rank[b]

\* process_announcements on one announcement: seeds are not replaced.
Process(a, best, ann) ==
    IF (best # NoAnn /\ best.from_monitor) \/ ~ Accepts(attackers, a, ann) THEN best
    ELSE BestAfter(best, ann, Value(a))

\* What the first of the announcements a has received make of its slot, for
\* each number of them.
Processed(a) ==
    LET queue == incoming_announcements[a]
        after[k \in 0..Len(queue)] ==
            IF k = 0 THEN all_anns[a] ELSE Process(a, after[k - 1], queue[k])
    IN  after

\* The multihomed modes of send_all_announcements, for an AS with the route
\* best: the automatic one asks the providers.
KnownUpstream(a, best) ==
    \E p \in input.topo.providers[a] : all_anns[p] # NoAnn /\ all_anns[p].origin = best.origin

HeldBack(a, best) ==
    /\ input.topo.customers[a] = {}
    /\ \/ input.mh_mode = 2
       \/ sweep = "up" /\ input.mh_mode = 3
       \/ sweep = "up" /\ input.mh_mode = 1 /\ KnownUpstream(a, best)

SendsTo(a, best) ==
    IF best = NoAnn THEN {}
    ELSE IF sweep = "down" THEN input.topo.customers[a]
    ELSE IF best.relationship < AS_REL_CUSTOMER \/ HeldBack(a, best) THEN {}
    ELSE IF sweep = "up" THEN input.topo.providers[a] ELSE input.topo.peers[a]

SentAs == IF sweep = "up" THEN AS_REL_CUSTOMER
          ELSE IF sweep = "peers" THEN AS_REL_PEER
          ELSE AS_REL_PROVIDER

\* process_announcements and send_all_announcements of one AS of a level.
Visit(a) ==
    /\ Current(a)
    /\ pending' = pending \ {a}
    /\ LET best == Processed(a)[Len(incoming_announcements[a])]
       IN  /\ all_anns' = [all_anns EXCEPT ![a] = best]
           /\ incoming_announcements' =
                  [b \in ASes |->
                      LET left == IF b = a THEN <<>> ELSE incoming_announcements[b]
                      IN  IF b \in SendsTo(a, best)
                          THEN Append(left, Export(best, SentAs, a)) ELSE left]
    /\ UNCHANGED <<input, attackers, rows, sweep>>

-----------------------------------------------------------------------------
Next == \/ \E row \in Rows : give_ann_to_as_path(row)
        \/ propagate_up \/ propagate_down \/ EndBlock \/ clear_announcements
        \/ \E a \in ASes : Visit(a)

Spec == Init /\ [][Next]_vars

-----------------------------------------------------------------------------
(***************************************************************************)
(* What some theorems assume of the graphs: ranks are what decide_ranks    *)
(* makes of a graph without customer cycles; and if one AS has another as  *)
(* its neighbour, so has the other.                                        *)
(***************************************************************************)
WellRanked ==
    \A i \in Inputs : \A a \in ASes : \A c \in i.topo.customers[a] :
        i.topo.rank[c] < i.topo.rank[a]

MutualNeighbours ==
    \A i \in Inputs : \A a, b \in ASes :
        /\ a \in i.topo.customers[b] <=> b \in i.topo.providers[a]
        /\ a \in i.topo.peers[b] <=> b \in i.topo.peers[a]

=============================================================================
