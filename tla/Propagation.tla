----------------------------- MODULE Propagation ------------------------------
(***************************************************************************)
(* One block of the extrapolator, for one prefix: seeding the rows along   *)
(* their AS paths (BlockedExtrapolator::give_ann_to_as_path) and the       *)
(* three sweeps of propagate_up and propagate_down over the ranked graph   *)
(* (BaseExtrapolator.cpp), with send_all_announcements between the ASes.   *)
(*                                                                         *)
(* The code is sequential.  A step is one element of a seeded path, one    *)
(* queued announcement, or one AS sending; the rows and their order are    *)
(* the database's choice.                                                  *)
(***************************************************************************)
EXTENDS Announcements, Sequences, FiniteSets

CONSTANTS ASes,              \* the keys of graph->ases
          NonStubs,          \* graph->non_stubs
          Topologies,        \* the graphs that are tried
          Rows,              \* the rows that are tried: [path, tstamp]
          MaxRows,           \* bound: rows of one block
          Options,           \* the command lines that are tried
          NoRow

Topology == [providers : [ASes -> SUBSET ASes],
             peers     : [ASes -> SUBSET ASes],
             customers : [ASes -> SUBSET ASes],
             rank      : [ASes -> Int]]

\* --random, --mh-propagation-mode and --origin-only.
Option == [random : BOOLEAN, mh_mode : 0..3, origin_only : BOOLEAN]

Row == [path : Seq(ASNs) \ {<<>>}, tstamp : Nat]

ASSUME PropagationAssumption ==
    /\ ASes \subseteq NonStubs /\ NonStubs \subseteq ASNs
    /\ IsFiniteSet(ASes)
    /\ Topologies \subseteq Topology
    /\ Rows \subseteq Row
    /\ NoRow \notin Rows
    /\ MaxRows \in Nat
    /\ Options \subseteq Option

VARIABLES
    options,                 \* one of Options; never changes
    topo,                    \* the graph; never changes
    row,                     \* the row being seeded, or NoRow
    hop,                     \* the variable i of give_ann_to_as_path
    rows,                    \* rows read so far
    sweep,                   \* "seed", "up", "peers", "down", "done"
    pending,                 \* ASes the current sweep has still to visit
    all_anns,                \* the slot of the prefix, per AS
    depref_anns,
    incoming_announcements,
    inverse_results          \* origin -> the ASNs without a route to it

seedVars == <<row, hop, rows>>
vars == <<options, topo, row, hop, rows, sweep, pending, all_anns, depref_anns,
          incoming_announcements, inverse_results>>

Value(a) == options.random => GetRandom(a)

Init == /\ options \in Options
        /\ topo \in Topologies
        /\ row = NoRow
        /\ hop = 0
        /\ rows = 0
        /\ sweep = "seed"
        /\ pending = {}
        /\ all_anns = [a \in ASes |-> NoAnn]
        /\ depref_anns = [a \in ASes |-> NoAnn]
        /\ incoming_announcements = [a \in ASes |-> <<>>]
        /\ inverse_results = << >>

-----------------------------------------------------------------------------
(***************************************************************************)
(* Seeding.                                                                *)
(***************************************************************************)
\* An ASN that occurs twice with another one between: prepending is no loop.
find_loop(path) ==
    \E i, j \in DOMAIN path : i < j /\ path[i] = path[j] /\ path[j - 1] # path[j]

\* What the path ends with, as read in an announcement.  The row has it in a
\* column as well, which makes the key of a new inverse set (line 375): the
\* table is assumed to hold there what the path ends with.
Origin(r) == r.path[Len(r.path)]

\* A variant of SelectRow with a bug: the walk begins one element too early.
SelectRowEarly(r) ==
    /\ sweep = "seed" /\ row = NoRow /\ rows < MaxRows
    /\ rows' = rows + 1
    /\ row' = r /\ hop' = 0
    /\ UNCHANGED <<options, topo, sweep, pending, all_anns, depref_anns,
                   incoming_announcements, inverse_results>>

\* The body of the row loop of extrapolate_blocks, before the path is walked.
SelectRow(r) ==
    /\ sweep = "seed" /\ row = NoRow /\ rows < MaxRows
    /\ rows' = rows + 1
    /\ IF find_loop(r.path)
       THEN UNCHANGED <<row, hop, inverse_results>>
       ELSE /\ row' = r
            /\ hop' = 1
            /\ inverse_results' =
                   [o \in DOMAIN inverse_results \union {Origin(r)} |->
                       IF o \in DOMAIN inverse_results THEN inverse_results[o]
                                                       ELSE NonStubs]
    /\ UNCHANGED <<options, topo, sweep, pending, all_anns, depref_anns,
                   incoming_announcements>>

\* The element the walk has reached, counted from the origin, and the one
\* before it: *it and *(it - 1).
OnPath == row.path[Len(row.path) - hop + 1]
Before == row.path[Len(row.path) - hop + 2]

\* received_from, which keeps its initial 3 on a broken path.
ReceivedFrom(a) ==
    IF hop = 1                         THEN AS_REL_ORIGIN
    ELSE IF Before \in topo.providers[a] THEN AS_REL_PROVIDER
    ELSE IF Before \in topo.peers[a]     THEN AS_REL_PEER
    ELSE IF Before \in topo.customers[a] THEN AS_REL_CUSTOMER
    ELSE                                    AS_REL_ORIGIN

BrokenPath(a) == hop > 1 /\ ReceivedFrom(a) = AS_REL_ORIGIN

Seed(a) == [origin            |-> Origin(row),
            received_from_asn |-> IF hop = 1 THEN OnPath ELSE Before,
            relationship      |-> ReceivedFrom(a),
            path_length       |-> ToUInt8(hop - 1),
            from_monitor      |-> TRUE,
            tstamp            |-> row.tstamp]

\* The cases in which the seed already there is kept: it is older, or as old
\* and not worse, or as old and placed by the AS prepending itself.
KeepsSeed(a) ==
    /\ all_anns[a] # NoAnn
    /\ \/ row.tstamp > all_anns[a].tstamp
       \/ /\ row.tstamp = all_anns[a].tstamp
          /\ \/ Priority(all_anns[a]) > Priority(Seed(a))
             \/ Priority(all_anns[a]) = Priority(Seed(a)) /\ Value(a)
             \/ hop > 1 /\ Before = a

\* One turn of the loop of give_ann_to_as_path that is not the end of the row.
Walking == /\ row # NoRow
           /\ hop <= (IF options.origin_only THEN 1 ELSE Len(row.path))
           /\ hop' = hop + 1
           /\ UNCHANGED <<options, topo, row, rows, sweep, pending, depref_anns,
                          incoming_announcements>>

\* Not an AS of the graph, or its seed stays.
PassHop ==
    /\ Walking
    /\ OnPath \in ASes => KeepsSeed(OnPath)
    /\ UNCHANGED <<all_anns, inverse_results>>

\* The slot is emptied if need be and the announcement of the row put there.
SeedHop ==
    /\ Walking
    /\ OnPath \in ASes /\ ~ KeepsSeed(OnPath) /\ ~ BrokenPath(OnPath)
    /\ all_anns' = [all_anns EXCEPT ![OnPath] = Seed(OnPath)]
    /\ inverse_results' = SwapInverse(inverse_results, OnPath, NoAnn, Seed(OnPath))

\* The slot is emptied and nothing is put there.
BreakHop ==
    /\ Walking
    /\ OnPath \in ASes /\ ~ KeepsSeed(OnPath) /\ BrokenPath(OnPath)
    /\ all_anns' = [all_anns EXCEPT ![OnPath] = NoAnn]
    /\ UNCHANGED inverse_results

\* A variant with a bug: the row is walked again.
EndRowAgain ==
    /\ row # NoRow
    /\ hop > (IF options.origin_only THEN 1 ELSE Len(row.path))
    /\ hop' = 1
    /\ UNCHANGED <<options, topo, row, rows, sweep, pending, all_anns, depref_anns,
                   incoming_announcements, inverse_results>>

EndRow ==
    /\ row # NoRow
    /\ hop > (IF options.origin_only THEN 1 ELSE Len(row.path))
    /\ row' = NoRow
    /\ hop' = 0
    /\ UNCHANGED <<options, topo, rows, sweep, pending, all_anns, depref_anns,
                   incoming_announcements, inverse_results>>

-----------------------------------------------------------------------------
(***************************************************************************)
(* The sweeps.  ases_by_rank holds every AS whose rank decide_ranks set;   *)
(* a level is visited in ascending order of ASN.                           *)
(***************************************************************************)
\* A variant with a bug: the lowest level is left out.
RankedAboveZero == {a \in ASes : topo.rank[a] > 0}
Ranked == {a \in ASes : topo.rank[a] >= 0}

StartSweep(from, to) ==
    /\ sweep = from /\ pending = {}
    /\ sweep' = to
    /\ pending' = IF to = "done" THEN {} ELSE Ranked
    /\ UNCHANGED <<options, topo, seedVars, all_anns, depref_anns,
                   incoming_announcements, inverse_results>>

propagate_up   == \/ row = NoRow /\ rows > 0 /\ StartSweep("seed", "up")
                  \/ StartSweep("up", "peers")
propagate_down == StartSweep("peers", "down")
EndBlock       == StartSweep("down", "done")

\* A variant with a bug: depref_anns is not cleared.
clear_but_depref ==
    /\ sweep = "done"
    /\ sweep' = "seed"
    /\ rows' = 0
    /\ all_anns' = [a \in ASes |-> NoAnn]
    /\ incoming_announcements' = [a \in ASes |-> <<>>]
    /\ inverse_results' = << >>
    /\ UNCHANGED <<options, topo, row, hop, pending, depref_anns>>

\* BaseGraph::clear_announcements, once the results of the block are on disk.
clear_announcements ==
    /\ sweep = "done"
    /\ sweep' = "seed"
    /\ rows' = 0
    /\ all_anns' = [a \in ASes |-> NoAnn]
    /\ depref_anns' = [a \in ASes |-> NoAnn]
    /\ incoming_announcements' = [a \in ASes |-> <<>>]
    /\ inverse_results' = << >>
    /\ UNCHANGED <<options, topo, row, hop, pending>>

\* A variant with a bug: the sweeps go by the number of the AS.
CurrentByNumber(a) == a \in pending /\ \A b \in pending \ {a} : a < b

\* The AS a sweep has reached.
Current(a) ==
    /\ a \in pending
    /\ \A b \in pending \ {a} :
          \/ topo.rank[a] = topo.rank[b] /\ a < b
          \/ sweep # "down" /\ topo.rank[a] < topo.rank[b]
          \/ sweep = "down" /\ topo.rank[a] > topo.rank[b]

\* A variant with a bug: seeds are not protected.
process_over_seeds(a) ==
    /\ Current(a)
    /\ incoming_announcements[a] # <<>>
    /\ incoming_announcements' = [incoming_announcements EXCEPT ![a] = Tail(@)]
    /\ LET ann  == Head(incoming_announcements[a])
           best == all_anns[a]
       IN  /\ all_anns' = [all_anns EXCEPT ![a] = BestAfter(best, ann, Value(a))]
           /\ depref_anns' = [depref_anns EXCEPT
                  ![a] = DeprefAfter(best, depref_anns[a], ann, Value(a))]
           /\ inverse_results' =
                  InverseAfter(inverse_results, a, best, ann, Value(a))
    /\ UNCHANGED <<options, topo, seedVars, sweep, pending>>

\* One turn of the loop of process_announcements.
process_announcements(a) ==
    /\ Current(a)
    /\ incoming_announcements[a] # <<>>
    /\ incoming_announcements' = [incoming_announcements EXCEPT ![a] = Tail(@)]
    /\ LET ann  == Head(incoming_announcements[a])
           best == all_anns[a]
       IN  IF best = NoAnn \/ ~ best.from_monitor
           THEN /\ all_anns' = [all_anns EXCEPT ![a] = BestAfter(best, ann, Value(a))]
                /\ depref_anns' = [depref_anns EXCEPT
                       ![a] = DeprefAfter(best, depref_anns[a], ann, Value(a))]
                /\ inverse_results' =
                       InverseAfter(inverse_results, a, best, ann, Value(a))
           ELSE UNCHANGED <<all_anns, depref_anns, inverse_results>>
    /\ UNCHANGED <<options, topo, seedVars, sweep, pending>>

-----------------------------------------------------------------------------
(***************************************************************************)
(* send_all_announcements(asn, to_providers, to_peers, to_customers): a    *)
(* sweep sets exactly one of the flags.                                    *)
(***************************************************************************)
Multihomed(a) == topo.customers[a] = {}

\* Automatic mode: a provider holds the prefix with this origin already.
KnownUpstream(a) ==
    \E p \in topo.providers[a] :
        all_anns[p] # NoAnn /\ all_anns[p].origin = all_anns[a].origin

\* A variant with a bug: the automatic mode asks nobody, and no mode holds
\* anything back from peers.
HeldBackUnasked(a) == Multihomed(a) /\ sweep = "up" /\ options.mh_mode # 0

\* A multihomed AS holds its announcement back from providers and peers.
HeldBack(a) ==
    /\ Multihomed(a)
    /\ \/ options.mh_mode = 2
       \/ sweep = "up" /\ options.mh_mode = 3
       \/ sweep = "up" /\ options.mh_mode = 1 /\ KnownUpstream(a)

\* A variant with a bug: the routes of peers go to everyone.
SendsPeerRoutes(a) ==
    IF all_anns[a] = NoAnn THEN {}
    ELSE IF sweep = "down" THEN topo.customers[a]
    ELSE IF all_anns[a].relationship < AS_REL_PEER \/ HeldBack(a) THEN {}
    ELSE IF sweep = "up" THEN topo.providers[a] ELSE topo.peers[a]

\* Routes of peers and providers go to customers only.
SendsTo(a) ==
    IF all_anns[a] = NoAnn THEN {}
    ELSE IF sweep = "down" THEN topo.customers[a]
    ELSE IF all_anns[a].relationship < AS_REL_CUSTOMER \/ HeldBack(a) THEN {}
    ELSE IF sweep = "up" THEN topo.providers[a] ELSE topo.peers[a]

\* A variant with a bug: what the receiver is to the sender.
SentAsReceiver == IF sweep = "up" THEN AS_REL_PROVIDER
                  ELSE IF sweep = "peers" THEN AS_REL_PEER
                  ELSE AS_REL_CUSTOMER

\* The relationship in the priority the sender writes.
SentAs == IF sweep = "up" THEN AS_REL_CUSTOMER
          ELSE IF sweep = "peers" THEN AS_REL_PEER
          ELSE AS_REL_PROVIDER

send_all_announcements(a) ==
    /\ Current(a)
    /\ incoming_announcements[a] = <<>>
    /\ pending' = pending \ {a}
    /\ incoming_announcements' =
           [b \in ASes |->
               IF b \in SendsTo(a)
               THEN Append(incoming_announcements[b], Export(all_anns[a], SentAs, a))
               ELSE incoming_announcements[b]]
    /\ UNCHANGED <<options, topo, seedVars, sweep, all_anns, depref_anns, inverse_results>>

-----------------------------------------------------------------------------
(***************************************************************************)
(* stream_as_path: the AS path that is printed for a full-path ASN.  An AS *)
(* without the prefix is dereferenced all the same: from there the walk is *)
(* undefined.                                                              *)
(***************************************************************************)
\* A variant with a bug: the origin is no end.
TraceStepPastOrigin(t) ==
    LET b == t.ann.received_from_asn
    IN  IF t.end # "none" THEN t
        ELSE IF b \notin ASes THEN [t EXCEPT !.end = "origin"]
        ELSE IF \E k \in DOMAIN t.as_path : t.as_path[k] = b THEN [t EXCEPT !.end = "loop"]
        ELSE IF all_anns[b] = NoAnn THEN [t EXCEPT !.end = "undefined"]
        ELSE [t EXCEPT !.as_path = Append(@, b), !.ann = all_anns[b]]

\* One turn of the while loop; the last AS is printed as well.
TraceStep(t) ==
    LET b == t.ann.received_from_asn
    IN  IF t.end # "none" THEN t
        ELSE IF t.ann.origin = b \/ b \notin ASes THEN [t EXCEPT !.end = "origin"]
        ELSE IF \E k \in DOMAIN t.as_path : t.as_path[k] = b THEN [t EXCEPT !.end = "loop"]
        ELSE IF all_anns[b] = NoAnn THEN [t EXCEPT !.end = "undefined"]
        ELSE [t EXCEPT !.as_path = Append(@, b), !.ann = all_anns[b]]

\* The walk before each turn, and after the last: no AS is printed twice.
TraceFrom(a) ==
    LET at[k \in 0..(Cardinality(ASes) + 1)] ==
            IF k = 0 THEN [ann |-> all_anns[a], as_path |-> <<>>, end |-> "none"]
                     ELSE TraceStep(at[k - 1])
    IN  at

stream_as_path(a) == TraceFrom(a)[Cardinality(ASes) + 1]

-----------------------------------------------------------------------------
Next == \/ \E r \in Rows : SelectRow(r)
        \/ PassHop \/ SeedHop \/ BreakHop \/ EndRow
        \/ propagate_up \/ propagate_down \/ EndBlock \/ clear_announcements
        \/ \E a \in ASes : process_announcements(a) \/ send_all_announcements(a)

Spec == Init /\ [][Next]_vars

\* The extrapolator is one thread that never waits: if it can move, it does.
FairSpec == Spec /\ WF_vars(Next)

-----------------------------------------------------------------------------
Slot == Announcement \union {NoAnn}

TypeOK ==
    /\ options \in Option
    /\ topo \in Topology
    /\ row \in Rows \union {NoRow}
    /\ hop \in Nat /\ rows \in Nat
    /\ row # NoRow => hop \in 1..(Len(row.path) + 1)
    /\ sweep \in {"seed", "up", "peers", "down", "done"}
    /\ pending \subseteq ASes
    /\ all_anns \in [ASes -> Slot]
    /\ depref_anns \in [ASes -> Slot]
    /\ incoming_announcements \in [ASes -> Seq(Announcement)]
    /\ DOMAIN inverse_results \subseteq ASNs
    /\ \A o \in DOMAIN inverse_results : inverse_results[o] \subseteq NonStubs

\* The three ways a slot can be looked at.
Seeded(a)  == all_anns[a] # NoAnn /\ all_anns[a].from_monitor
Learned(a) == all_anns[a] # NoAnn /\ ~ all_anns[a].from_monitor
Queued(a)  == {incoming_announcements[a][k] : k \in DOMAIN incoming_announcements[a]}

-----------------------------------------------------------------------------
(***************************************************************************)
(* Seeds come from monitors and "are not replaced later during             *)
(* propagation" (BlockedExtrapolator.h 84-85): no sweep touches one,       *)
(* although process_announcement itself would.                             *)
(***************************************************************************)
SeedsKept ==
    [][sweep \notin {"seed", "done"} =>
           \A a \in ASes : Seeded(a) => all_anns'[a] = all_anns[a]]_vars

\* Announcements an AS got from a neighbour, in its slot or still queued.
FromNeighbours(a) ==
    Queued(a) \union (IF Learned(a) THEN {all_anns[a]} ELSE {})

(***************************************************************************)
(* The relationship in a priority is the one the two ASes have: what came  *)
(* from a customer is never booked as a provider's, in whichever sweep it  *)
(* was sent and in whichever it is processed.                              *)
(***************************************************************************)
RelationshipHonest ==
    \A a \in ASes : \A ann \in FromNeighbours(a) :
        /\ ann.received_from_asn \in ASes
        /\ ann.relationship = AS_REL_CUSTOMER => a \in topo.providers[ann.received_from_asn]
        /\ ann.relationship = AS_REL_PEER     => a \in topo.peers[ann.received_from_asn]
        /\ ann.relationship = AS_REL_PROVIDER => a \in topo.customers[ann.received_from_asn]
        /\ ann.relationship # AS_REL_ORIGIN

(***************************************************************************)
(* Valley-freedom, one hop at a time: what a neighbour sent to a provider  *)
(* or a peer it uses as its own or a customer's route, when it sent it and *)
(* ever after, although it may have changed its route since.               *)
(***************************************************************************)
ValleyFree ==
    \A a \in ASes : \A ann \in FromNeighbours(a) :
        ann.relationship >= AS_REL_PEER =>
            LET b == ann.received_from_asn
            IN  all_anns[b] # NoAnn /\ all_anns[b].relationship >= AS_REL_CUSTOMER

(***************************************************************************)
(* The comment of propagate_up has ASes left with unprocessed              *)
(* announcements and promises that propagate_down catches up: after it no  *)
(* queue holds anything.                                                   *)
(***************************************************************************)
NothingUnprocessed ==
    sweep = "done" => \A a \in ASes : incoming_announcements[a] = <<>>

(***************************************************************************)
(* When the sweeps are over every route an AS learned is what the          *)
(* neighbour it came from would send now: no AS uses a route its           *)
(* neighbour has since replaced, so stream_as_path retraces it.            *)
(***************************************************************************)
RoutesCurrent ==
    sweep = "done" =>
        \A a \in ASes : Learned(a) =>
            LET ann == all_anns[a]
                b   == ann.received_from_asn
            IN  all_anns[b] # NoAnn /\ ann = Export(all_anns[b], ann.relationship, b)

(***************************************************************************)
(* The printed AS path is one: from every AS with a route stream_as_path   *)
(* comes to the origin (or out of the graph) and meets neither the loop it *)
(* warns of nor an AS without the prefix, whatever rows replaced or        *)
(* deleted the seeds it passes.  Only seeds that do not fit together lead  *)
(* it astray: one names an AS that was given none (a path broken there),   *)
(* or whose seed is newer (its own was deleted, and another row came), or  *)
(* whose seed, as old, is one that AS does not tell to this one (a path    *)
(* with a valley).                                                         *)
(***************************************************************************)
SeedsFit ==
    \A a \in ASes :
        LET ann == all_anns[a]
            b   == ann.received_from_asn
        IN  Seeded(a) /\ b \in ASes \ {ann.origin} =>
                /\ Seeded(b)
                /\ \/ all_anns[b].tstamp < ann.tstamp
                   \/ /\ all_anns[b].tstamp = ann.tstamp
                      /\ \/ ann.relationship = AS_REL_PROVIDER
                         \/ all_anns[b].relationship >= AS_REL_CUSTOMER

PathsTraced ==
    sweep = "done" /\ SeedsFit =>
        \A a \in ASes : all_anns[a] # NoAnn => stream_as_path(a).end = "origin"

(***************************************************************************)
(* An AS that holds a route to an origin is not among the ASes without one *)
(* (README.md line 86), through replacements, ties and changes of origin.  *)
(***************************************************************************)
InverseSound ==
    \A a \in ASes : all_anns[a] # NoAnn =>
        /\ all_anns[a].origin \in DOMAIN inverse_results
        /\ a \notin inverse_results[all_anns[a].origin]

(***************************************************************************)
(* The second-best announcement never beats the one in use, and seeding    *)
(* leaves none behind when it deletes a seed.                              *)
(***************************************************************************)
DeprefNotBetter ==
    \A a \in ASes : depref_anns[a] # NoAnn =>
        /\ sweep # "seed"
        /\ all_anns[a] # NoAnn
        /\ Priority(depref_anns[a]) <= Priority(all_anns[a])

(***************************************************************************)
(* The automatic multihomed mode saves announcements, not reachability: a  *)
(* multihomed AS that has a route of its own or of a customer to send ends *)
(* with a provider that has the prefix.                                    *)
(***************************************************************************)
MultihomedHeard ==
    sweep = "done" /\ options.mh_mode \in {0, 1} =>
        \A a \in Ranked :
            /\ all_anns[a] # NoAnn /\ all_anns[a].relationship >= AS_REL_CUSTOMER
            /\ topo.providers[a] # {}
            => \E p \in topo.providers[a] : all_anns[p] # NoAnn

(***************************************************************************)
(* In mode 2 a multihomed AS is heard by no one, in mode 3 by its peers    *)
(* only (send_all_announcements 605-625).                                  *)
(***************************************************************************)
MultihomedSilent ==
    options.mh_mode \in {2, 3} =>
        \A a \in ASes : \A ann \in FromNeighbours(a) :
            Multihomed(ann.received_from_asn) =>
                options.mh_mode = 3 /\ ann.relationship = AS_REL_PEER

(***************************************************************************)
(* Every block is propagated to the end, whatever its rows and the graph.  *)
(***************************************************************************)
BlockEnds == rows > 0 ~> sweep = "done"

-----------------------------------------------------------------------------
(***************************************************************************)
(* What some theorems assume of the graphs: ranks are what decide_ranks    *)
(* makes of a graph without customer cycles, every AS having one that is   *)
(* greater than those of its customers and lower than those of its         *)
(* providers; and if one AS has another as its neighbour, so has the other.*)
(***************************************************************************)
WellRanked ==
    \A t \in Topologies : \A a \in ASes :
        t.rank[a] >= 0 /\ \A c \in t.customers[a] : t.rank[c] < t.rank[a]

ProvidersAbove ==
    \A t \in Topologies : \A a \in ASes : \A p \in t.providers[a] : t.rank[a] < t.rank[p]

MutualNeighbours ==
    \A t \in Topologies : \A a, b \in ASes :
        /\ a \in t.customers[b] <=> b \in t.providers[a]
        /\ a \in t.peers[b] <=> b \in t.peers[a]

=============================================================================
