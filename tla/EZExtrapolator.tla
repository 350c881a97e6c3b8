---------------------------- MODULE EZExtrapolator ----------------------------
(***************************************************************************)
(* The first block of an ezBGPsec run (EZExtrapolator.cpp): the block of   *)
(* Propagation in which an attacker announces the prefix of an origin as   *)
(* well, ASes record the path of that attack and refuse it when they are   *)
(* on it (EZAS.cpp), and the override of save_results only counts whose    *)
(* announcement the victims use.                                           *)
(*                                                                         *)
(* The paths are kept beside the announcements they are fields of, those   *)
(* that are queued in the order of the queue.  The ASes of an ezBGPsec run *)
(* keep neither depref_anns nor inverse results (EZAS.cpp 3): what         *)
(* Propagation has of them is read by nothing here.                        *)
(*                                                                         *)
(* The override runs in save_res_thread like the original, but posts       *)
(* nothing on csvs_written, for which the main thread waits when the       *)
(* block is not empty; nothing after that wait is ever reached, so the     *)
(* module ends there.                                                      *)
(***************************************************************************)
EXTENDS Propagation

CONSTANTS Attacks,           \* the tables good_customer_pairs that are tried
          NumBetween         \* the values of --ezBGPsec-intermediate

\* An origin has an attacker and a victim.
ASSUME EZAssumption ==
    /\ \A t \in Attacks : /\ DOMAIN t \subseteq ASNs
                          /\ t \in [DOMAIN t -> [attacker : ASNs, victim : ASNs]]
    /\ NumBetween \subseteq Nat

VARIABLES
    as_path,                     \* of the announcement in the slot; empty if unmarked
    incoming_paths,              \* as_path of each queued announcement
    origin_to_attacker_victim,   \* origin -> [attacker, victim]; never changes
    num_between,                 \* never changes
    victim_to_prefixes,          \* the victims for which this prefix is attacked
    uncounted,                   \* those the loop has still to count
    calls,                       \* the ASes getPathNeighborOfAttacker is called for
    attacker_edge_removal,       \* pairs <<attacker, neighbour>>
    statistics,                  \* successful_attacks, successful_connections, disconnections
    main,                        \* "extrapolate", "wait" (sem_wait), "finished"
    save_res_thread              \* "none", "running", "ended"

pathVars == <<as_path, incoming_paths>>
ezVars == <<origin_to_attacker_victim, num_between, victim_to_prefixes, uncounted, calls,
            attacker_edge_removal, statistics, main, save_res_thread>>
allVars == <<vars, pathVars, ezVars>>

EZInit == /\ Init
          /\ as_path = [a \in ASes |-> <<>>]
          /\ incoming_paths = [a \in ASes |-> <<>>]
          /\ origin_to_attacker_victim \in Attacks
          /\ num_between \in NumBetween
          /\ victim_to_prefixes = {} /\ uncounted = {} /\ calls = <<>>
          /\ attacker_edge_removal = <<>>
          /\ statistics = [attacks |-> 0, connections |-> 0, disconnections |-> 0]
          /\ main = "extrapolate"
          /\ save_res_thread = "none"

-----------------------------------------------------------------------------
(***************************************************************************)
(* EZAS::process_announcement.                                             *)
(***************************************************************************)
\* The attack's announcement is the only one with a field from_attacker: the
\* copies that are sent on keep it.
FromAttacker(ann) == "from_attacker" \in DOMAIN ann

\* The as_path of an attack has a already.
Visited(a, path) == \E k \in DOMAIN path : path[k] = a

\* A variant with a bug: the AS does not put itself on the path.
UnchangedPath(a, path) == path

PathThrough(a, path) == <<a>> \o path

\* The path of the slot when a took the announcement, or kept what it had.
PathAfter(a, ann, path) ==
    IF ~ Replaces(all_anns[a], ann, Value(a)) THEN as_path[a]
    ELSE IF FromAttacker(ann) THEN PathThrough(a, path) ELSE <<>>

\* One turn of the loop of process_announcements: an attack whose path has the
\* AS is passed over, others are handed to the BaseAS.
NextIsVisited(a) ==
    FromAttacker(Head(incoming_announcements[a])) /\ Visited(a, Head(incoming_paths[a]))

PassOver(a) ==
    /\ Current(a)
    /\ incoming_announcements[a] # <<>>
    /\ NextIsVisited(a)
    /\ incoming_announcements' = [incoming_announcements EXCEPT ![a] = Tail(@)]
    /\ incoming_paths' = [incoming_paths EXCEPT ![a] = Tail(@)]
    /\ UNCHANGED <<options, topo, seedVars, sweep, pending, all_anns, depref_anns,
                   inverse_results, as_path>>

HandOver(a) ==
    /\ process_announcements(a)
    /\ ~ NextIsVisited(a)
    /\ as_path' =
           [as_path EXCEPT ![a] =
               IF Seeded(a) THEN @
               ELSE PathAfter(a, Head(incoming_announcements[a]), Head(incoming_paths[a]))]
    /\ incoming_paths' = [incoming_paths EXCEPT ![a] = Tail(@)]

\* The copy that is sent has the path of the slot.
SendOn(a) ==
    /\ send_all_announcements(a)
    /\ incoming_paths' =
           [b \in ASes |-> IF b \in SendsTo(a) THEN Append(incoming_paths[b], as_path[a])
                                               ELSE incoming_paths[b]]
    /\ UNCHANGED as_path

-----------------------------------------------------------------------------
(***************************************************************************)
(* Seeding.                                                                *)
(***************************************************************************)
AttackAnnouncement ==
    [origin |-> Origin(row), received_from_asn |-> Origin(row),
     relationship |-> AS_REL_CUSTOMER, path_length |-> ToUInt8(1 + num_between),
     from_monitor |-> TRUE, tstamp |-> row.tstamp, from_attacker |-> TRUE]

\* What the override of give_ann_to_as_path does after the one it overrides:
\* nothing, unless the origin is in the table, its victim has no prefix yet
\* and the attacker is in the graph.
Attacked ==
    /\ Origin(row) \in DOMAIN origin_to_attacker_victim
    /\ origin_to_attacker_victim[Origin(row)].victim \notin victim_to_prefixes
    /\ origin_to_attacker_victim[Origin(row)].attacker \in ASes

\* The attacker processes its own announcement, whose path is empty, seed or
\* no seed.
give_ann_to_as_path ==
    /\ row # NoRow
    /\ hop > (IF options.origin_only THEN 1 ELSE Len(row.path))
    /\ row' = NoRow /\ hop' = 0
    /\ IF Attacked
       THEN LET pair == origin_to_attacker_victim[Origin(row)]
            IN  /\ victim_to_prefixes' = victim_to_prefixes \union {pair.victim}
                /\ all_anns' = [all_anns EXCEPT ![pair.attacker] =
                                   BestAfter(@, AttackAnnouncement, Value(pair.attacker))]
                /\ as_path' = [as_path EXCEPT ![pair.attacker] =
                                  PathAfter(pair.attacker, AttackAnnouncement, <<>>)]
       ELSE UNCHANGED <<victim_to_prefixes, all_anns, as_path>>
    /\ UNCHANGED <<options, topo, rows, sweep, pending, depref_anns, incoming_announcements,
                   inverse_results, incoming_paths, origin_to_attacker_victim, num_between,
                   uncounted, calls, attacker_edge_removal, statistics, main, save_res_thread>>

\* The seeds of a row are not marked.
SeedsOfRow ==
    /\ SeedHop \/ BreakHop
    /\ as_path' = [as_path EXCEPT ![OnPath] = <<>>]
    /\ UNCHANGED incoming_paths

\* The rest of the block is as ever.
Block ==
    /\ main = "extrapolate"
    /\ \/ \E a \in ASes : PassOver(a) \/ HandOver(a) \/ SendOn(a)
       \/ SeedsOfRow
       \/ /\ (\E r \in Rows : SelectRow(r)) \/ PassHop \/ propagate_up \/ propagate_down
          /\ UNCHANGED pathVars
    /\ UNCHANGED ezVars

-----------------------------------------------------------------------------
(***************************************************************************)
(* The end of the block.                                                   *)
(***************************************************************************)
\* extrapolate_blocks starts save_res_thread and waits for csvs_written.
EndOfBlock ==
    /\ EndBlock
    /\ main = "extrapolate"
    /\ main' = "wait"
    /\ save_res_thread' = "running"
    /\ uncounted' = victim_to_prefixes
    /\ UNCHANGED <<pathVars, origin_to_attacker_victim, num_between, victim_to_prefixes, calls,
                   attacker_edge_removal, statistics>>

\* An empty block ends extrapolate_blocks, no attack ends the rounds.
NoAnnouncements ==
    /\ main = "extrapolate" /\ rows = 0
    /\ main' = "finished"
    /\ UNCHANGED <<vars, pathVars, origin_to_attacker_victim, num_between, victim_to_prefixes,
                   uncounted, calls, attacker_edge_removal, statistics, save_res_thread>>

\* calculate_successful_attacks looks at one victim after the other; the
\* order of the unordered_map is any.
Counting == /\ save_res_thread = "running"
            /\ UNCHANGED <<vars, pathVars, origin_to_attacker_victim, num_between, main>>

Counts(victim, field) ==
    /\ uncounted' = uncounted \ {victim}
    /\ statistics' = [statistics EXCEPT ![field] = @ + 1]

\* A variant with a bug: any route to an origin that is attacked.
UsesAttackedOrigin(a) ==
    a \in ASes /\ all_anns[a] # NoAnn /\ all_anns[a].origin \in DOMAIN origin_to_attacker_victim

UsesAttack(a) == a \in ASes /\ all_anns[a] # NoAnn /\ FromAttacker(all_anns[a])

CountVictim(victim) ==
    /\ Counting /\ calls = <<>>
    /\ victim \in uncounted
    /\ \/ /\ victim \notin ASes
          /\ uncounted' = uncounted \ {victim}
          /\ UNCHANGED statistics
       \/ /\ victim \in ASes /\ all_anns[victim] = NoAnn
          /\ Counts(victim, "disconnections")
       \/ /\ victim \in ASes /\ all_anns[victim] # NoAnn /\ ~ UsesAttack(victim)
          /\ Counts(victim, "connections")
       \/ /\ UsesAttack(victim) /\ num_between # 0
          /\ Counts(victim, "attacks")
    /\ UNCHANGED <<victim_to_prefixes, calls, attacker_edge_removal, save_res_thread>>

\* The edge of the attack is looked for first.
TraceVictim(victim) ==
    /\ Counting /\ calls = <<>>
    /\ victim \in uncounted /\ UsesAttack(victim) /\ num_between = 0
    /\ calls' = <<victim>>
    /\ UNCHANGED <<victim_to_prefixes, uncounted, statistics, attacker_edge_removal,
                   save_res_thread>>

\* One call of getPathNeighborOfAttacker, which dereferences what is found
\* for an AS that is not there or has no announcement.
Called   == calls[Len(calls)]
Sender   == all_anns[Called].received_from_asn
Attacker == origin_to_attacker_victim[all_anns[calls[1]].origin].attacker

Calling == /\ Counting /\ calls # <<>>
           /\ Called \in ASes /\ all_anns[Called] # NoAnn
           /\ UNCHANGED <<victim_to_prefixes, save_res_thread>>

getPathNeighborOfAttacker ==
    /\ Calling /\ Sender # Attacker
    /\ calls' = Append(calls, Sender)
    /\ UNCHANGED <<uncounted, statistics, attacker_edge_removal>>

\* A variant with a bug: the victim is taken for the neighbor.
ReturnVictim ==
    /\ Calling /\ Sender = Attacker
    /\ attacker_edge_removal' = Append(attacker_edge_removal, <<Attacker, calls[1]>>)
    /\ Counts(calls[1], "attacks")
    /\ calls' = <<>>

\* All calls return at once, with the neighbor.
ReturnNeighbor ==
    /\ Calling /\ Sender = Attacker
    /\ attacker_edge_removal' = Append(attacker_edge_removal, <<Attacker, Called>>)
    /\ Counts(calls[1], "attacks")
    /\ calls' = <<>>

EndCount ==
    /\ Counting /\ uncounted = {}
    /\ victim_to_prefixes' = {}
    /\ save_res_thread' = "ended"
    /\ UNCHANGED <<uncounted, calls, attacker_edge_removal, statistics>>

calculate_successful_attacks ==
    \/ \E victim \in uncounted : CountVictim(victim) \/ TraceVictim(victim)
    \/ getPathNeighborOfAttacker \/ ReturnNeighbor
    \/ EndCount

-----------------------------------------------------------------------------
EZNext == Block \/ give_ann_to_as_path \/ EndOfBlock \/ NoAnnouncements
              \/ calculate_successful_attacks

EZSpec == EZInit /\ [][EZNext]_allVars

\* Both threads run on whenever they can.
EZFairSpec == EZSpec /\ WF_allVars(EZNext)

-----------------------------------------------------------------------------
(***************************************************************************)
(* What is taken for the edge of a successful attack is one: the traceback *)
(* from the victim (EZExtrapolator.cpp 181-188) never leaves the graph or  *)
(* runs in a circle, and ends at a neighbour of the attacker that uses the *)
(* attack right from it, though ASes on the way changed their routes while *)
(* the block was propagated.                                               *)
(***************************************************************************)
EdgesTraced ==
    /\ \A k \in DOMAIN calls :
          /\ calls[k] \in ASes /\ all_anns[calls[k]] # NoAnn
          /\ \A j \in DOMAIN calls : calls[j] = calls[k] => j = k
    /\ \A k \in DOMAIN attacker_edge_removal :
          LET attacker == attacker_edge_removal[k][1]
              neighbor == attacker_edge_removal[k][2]
          IN  /\ neighbor \in topo.providers[attacker] \union topo.peers[attacker]
                                  \union topo.customers[attacker]
              /\ UsesAttack(neighbor)
              /\ all_anns[neighbor].received_from_asn = attacker

(***************************************************************************)
(* The as_path is the path of the attack: that of an AS which uses it is   *)
(* the AS itself before the path of the sender, as that is now, whatever   *)
(* was replaced on the way; so it is the traceback that                    *)
(* getPathNeighborOfAttacker "will likely get removed" for                 *)
(* (EZExtrapolator.h 94).  And "Don't accept if already on the path"       *)
(* (EZAS.cpp 10) costs nobody a route: what comes back to an AS is worse   *)
(* than what the AS has.                                                   *)
(***************************************************************************)
AttackPaths ==
    /\ \A a \in ASes : all_anns[a] # NoAnn /\ FromAttacker(all_anns[a]) =>
          as_path[a] = <<a>> \o (IF Seeded(a) THEN <<>>
                                 ELSE as_path[all_anns[a].received_from_asn])
    /\ \A a \in ASes : \A k \in DOMAIN incoming_announcements[a] :
          LET ann == incoming_announcements[a][k]
          IN  FromAttacker(ann) /\ Visited(a, incoming_paths[a][k]) =>
                  all_anns[a] # NoAnn /\ Priority(ann) < Priority(all_anns[a])

\* The ASes the traffic of a for the prefix visits, from sender to sender.
Onward(a) == IF a \in ASes /\ all_anns[a] # NoAnn THEN all_anns[a].received_from_asn ELSE a
Traffic(a) ==
    {b \in ASNs : \A S \in SUBSET ASNs : a \in S /\ (\A c \in S : Onward(c) \in S) => b \in S}

(***************************************************************************)
(* "Attacker gets the traffic: successful attack; Nobody gets the traffic: *)
(* disconnection" (EZExtrapolator.h 45-48): an AS that uses the attack on  *)
(* an origin sends its traffic to the attacker of that origin, and every   *)
(* victim that was attacked is counted once, as what became of it.         *)
(***************************************************************************)
Outcome ==
    save_res_thread = "running" =>
        LET counted == (victim_to_prefixes \ uncounted) \intersect ASes
            routed  == {v \in counted : all_anns[v] # NoAnn}
            misled  == {v \in counted : UsesAttack(v)}
        IN  /\ \A a \in ASes : UsesAttack(a) =>
                  origin_to_attacker_victim[all_anns[a].origin].attacker \in Traffic(a)
            /\ statistics.attacks = Cardinality(misled)
            /\ statistics.connections = Cardinality(routed \ misled)
            /\ statistics.disconnections = Cardinality(counted \ routed)

(***************************************************************************)
(* "Runs until no more attacks (guaranteed to terminate since the edge to  *)
(* the neighebor is removed after an attack)" (EZExtrapolator.cpp 70).     *)
(***************************************************************************)
RoundsEnd == <>(main = "finished")

\* What some theorems assume of the table: who attacks is nobody's victim.
AttackersApart ==
    \A t \in Attacks : \A o, q \in DOMAIN t : t[o].victim # t[q].attacker
=============================================================================
