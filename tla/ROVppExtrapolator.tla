-------------------------- MODULE ROVppExtrapolator ---------------------------
(***************************************************************************)
(* The ROV++ extrapolator: seeding the simulation table, then sweeps up,   *)
(* between peers and down again and again until no AS has withdrawn        *)
(* anything, at most MaxCycles times (ROVppExtrapolator.cpp).              *)
(*                                                                         *)
(* The program is sequential and has no choices of its own: all choices    *)
(* are in the input.  A step seeds one row or lets one AS process what it  *)
(* received and send.                                                      *)
(***************************************************************************)
EXTENDS ROVppAS

CONSTANTS Inputs,            \* the simulations that are tried
          MaxCycles          \* 100 in the code

\* A simulation: the slots of loc_rib, a policy for each AS of the graph, the
\* attackers, the graph, the rows of the table and the option of seeding.  Both
\* ends of a link know of it (ROVppASGraph::create_graph_from_db).
Simulation(i) ==
    LET A == DOMAIN i.policy
    IN  /\ i.blocks \subseteq Nat /\ \E n \in {0} \union i.blocks : i.blocks = 1..n
        /\ A \subseteq Nat \ Flags
        /\ i.policy \in [A -> Nat]
        /\ i.attackers \subseteq Nat \ Flags
        /\ i.topo \in [providers : [A -> SUBSET A], peers : [A -> SUBSET A],
                       customers : [A -> SUBSET A], rank : [A -> Nat]]
        /\ \A a, b \in A : b \in i.topo.providers[a] => a \in i.topo.customers[b]
        /\ i.rows \in Seq([path : Seq(Nat) \ {<<>>}, netmask : Nat, block_id : i.blocks])
        /\ i.origin_only \in BOOLEAN

ASSUME ROVppAssumption == (\A i \in Inputs : Simulation(i)) /\ MaxCycles \in Nat

VARIABLES rows,              \* rows of the simulation table still to be seeded
          sweep,             \* "seed", "up", "peers", "down", "done"
          pending,           \* ASes the sweep has still to visit
          count,             \* cycles of the do-while that are finished
          ases               \* the record of each AS

vars == <<input, rows, sweep, pending, count, ases>>

ASes == DOMAIN input.policy

Init == /\ input \in Inputs
        /\ rows = input.rows
        /\ sweep = "seed"
        /\ pending = {}
        /\ count = 0
        /\ ases = [a \in ASes |-> NewAS]

-----------------------------------------------------------------------------
(***************************************************************************)
(* give_ann_to_as_path.                                                    *)
(***************************************************************************)
\* received_from for the k-th hop from the origin, or -1 for a broken path.
\* The path holds its prefixes last; hop k is next to hop k - 1.
ReceivedFrom(a, prior, k) ==
    IF k = 1                                  THEN 300
    ELSE IF prior \in input.topo.providers[a] THEN ToCustomers
    ELSE IF prior \in input.topo.peers[a]     THEN ToPeers
    ELSE IF prior \in input.topo.customers[a] THEN ToProviders
    ELSE -1

\* back() of a path.
OriginOf(path) == path[Len(path)]

\* One hop of the walk; t holds the ASes and cur_path.
SeedHop(t, row, k) ==
    LET n     == Len(row.path)
        a     == row.path[n - k + 1]
        prior == IF k = 1 THEN NOTHIJACKED ELSE row.path[n - k + 2]
        path  == <<a>> \o t.cur_path
        from  == ReceivedFrom(a, prior, k)
        broken == from = -1
        priority == (IF broken THEN 300 ELSE from) + 100 - (k - 1)
        held  == t.ases[a].loc_rib[row.block_id]
        ann   == [origin |-> OriginOf(path), netmask |-> row.netmask, block_id |-> row.block_id,
                  as_path |-> path, priority |-> priority, received_from_asn |-> prior,
                  alt |-> 0, withdraw |-> FALSE, from_monitor |-> TRUE]
    IN  IF a \notin ASes THEN t
        ELSE IF held # NoAnn /\ (OriginOf(path) = a \/ held.priority > priority \/ prior = a)
        THEN [t EXCEPT !.cur_path = path]
        ELSE [cur_path |-> path,
              ases |-> [t.ases EXCEPT ![a].loc_rib[row.block_id] =
                           IF broken THEN NoAnn ELSE ann]]

\* The ASes and cur_path after each hop of the row.
SeedHops(row) ==
    LET after[k \in 0..Len(row.path)] ==
            IF k = 0 THEN [ases |-> ases, cur_path |-> <<>>] ELSE SeedHop(after[k - 1], row, k)
    IN  after

give_ann_to_as_path ==
    /\ sweep = "seed" /\ rows # <<>>
    /\ rows' = Tail(rows)
    /\ LET row  == Head(rows)
           hops == IF input.origin_only THEN 1 ELSE Len(row.path)
       IN  ases' = SeedHops(row)[hops].ases
    /\ UNCHANGED <<input, sweep, pending, count>>

-----------------------------------------------------------------------------
(***************************************************************************)
(* send_all_announcements.                                                 *)
(***************************************************************************)
\* get_priority: the weight of the path length is one less at each hop.
get_priority(ann, base) ==
    base + (IF ann.priority % 100 = 0 THEN 99 ELSE (ann.priority % 100) - 1)

Sent(a, ann, base) ==
    [ann EXCEPT !.received_from_asn = a,
                !.from_monitor = FALSE,
                !.priority = get_priority(ann, base),
                !.as_path = IF @ # <<>> /\ OriginOf(@) = a THEN @ ELSE Append(@, a)]

\* is_filtered, for the policies that filter.
is_filtered(a, s, ann) ==
    /\ input.policy[a] \in Filtering
    /\ OfOrigin(ann) \in s.blackholes \union s.preventive_anns

\* The base priority of the sweep's flag.
SweepBase == IF sweep = "up" THEN ToProviders ELSE IF sweep = "peers" THEN ToPeers ELSE ToCustomers

\* A variant with a bug: the routes of peers go to peers and providers too.
ExportedFromPeers(ann, base) == base = ToCustomers \/ ann.priority >= 100

\* Routes of peers and providers go to customers only.
Exported(ann, base) == base = ToCustomers \/ ann.priority >= 200

\* What goes to the neighbours of one kind: the withdrawals in every sweep,
\* the loc_rib in the sweep of that kind.
Outgoing(a, s, base) ==
    LET told  == {w \in Elements(s.withdrawals) : w.withdraw /\ Exported(w, base)}
        shown == {ann \in Elements(s.loc_rib) \ {NoAnn} :
                     /\ Exported(ann, base)
                     /\ base # ToCustomers => ~ is_filtered(a, s, ann)
                     /\ ~ (/\ ann.origin = UNUSED_ASN_FLAG_FOR_BLACKHOLES
                           /\ input.policy[a] = ROVPPAS_TYPE_ROVPP)}
        anns  == Those(s.withdrawals, told)
                     \o (IF base = SweepBase THEN Those(s.loc_rib, shown) ELSE <<>>)
    IN  [k \in DOMAIN anns |-> Sent(a, anns[k], base)]

\* ROV++ 0.3 takes the preventive announcements back at once from a customer
\* that sent it a /16: of each the first that goes to customers.
PreventiveWithdrawals(a, s, b) ==
    LET anns  == Outgoing(a, s, ToCustomers)
        first == {k \in DOMAIN anns : /\ OfOrigin(anns[k]) \in s.preventive_anns
                                      /\ \A j \in 1..(k - 1) : OfOrigin(anns[j]) # OfOrigin(anns[k])}
        hit   == Those([k \in DOMAIN anns |-> k], first)
    IN  IF /\ input.policy[a] = ROVPPAS_TYPE_ROVPPBP
           /\ [netmask |-> 16, received_from_asn |-> b] \in s.passed_rov
        THEN [i \in DOMAIN hit |-> [anns[hit[i]] EXCEPT !.withdraw = TRUE]]
        ELSE <<>>

ToNeighbor(a, s, b) ==
    IF b \in input.topo.providers[a]      THEN Outgoing(a, s, ToProviders)
    ELSE IF b \in input.topo.peers[a]     THEN Outgoing(a, s, ToPeers)
    ELSE IF b \in input.topo.customers[a] THEN Outgoing(a, s, ToCustomers) \o PreventiveWithdrawals(a, s, b)
    ELSE <<>>

\* The AS a sweep has reached: by rank, and by ASN within a rank.
Current(a) ==
    /\ a \in pending
    /\ \A b \in pending \ {a} :
          \/ input.topo.rank[a] = input.topo.rank[b] /\ a < b
          \/ sweep # "down" /\ input.topo.rank[a] < input.topo.rank[b]
          \/ sweep = "down" /\ input.topo.rank[a] > input.topo.rank[b]

\* process_announcements and send_all_announcements for one AS of a level.
Visit(a) ==
    /\ Current(a)
    /\ pending' = pending \ {a}
    /\ LET s == process_announcements(a, ases[a])
       IN  ases' = [b \in ASes |->
                       IF b = a THEN [s EXCEPT !.withdrawals = <<>>]
                       ELSE [ases[b] EXCEPT !.ribs_in = @ \o ToNeighbor(a, s, b)]]
    /\ UNCHANGED <<input, rows, sweep, count>>

-----------------------------------------------------------------------------
graph_changed == \E a \in ASes : ases[a].graph_changed

StartSweep(from, to) ==
    /\ sweep = from /\ pending = {}
    /\ sweep' = to
    /\ pending' = IF to = "done" THEN {} ELSE ASes
    /\ UNCHANGED <<input, rows>>

\* A variant with a bug: graph_changed keeps its value.
StartCycleChanged(from) == StartSweep(from, "up") /\ UNCHANGED ases

\* The do of the do-while resets graph_changed.
StartCycle(from) ==
    /\ StartSweep(from, "up")
    /\ ases' = [a \in ASes |-> [ases[a] EXCEPT !.graph_changed = FALSE]]

propagate_up == \/ rows = <<>> /\ StartCycle("seed") /\ UNCHANGED count
                \/ StartSweep("up", "peers") /\ UNCHANGED <<count, ases>>
propagate_down == StartSweep("peers", "down") /\ UNCHANGED <<count, ases>>

Repeat == /\ graph_changed /\ count + 1 < MaxCycles
          /\ count' = count + 1
          /\ StartCycle("down")
Finish == /\ ~ (graph_changed /\ count + 1 < MaxCycles)
          /\ count' = count + 1
          /\ StartSweep("down", "done")
          /\ UNCHANGED ases

Next == \/ give_ann_to_as_path
        \/ propagate_up \/ propagate_down \/ Repeat \/ Finish
        \/ \E a \in ASes : Visit(a)

Spec == Init /\ [][Next]_vars

-----------------------------------------------------------------------------
Done == sweep = "done"
Adopts(policies) == {a \in ASes : input.policy[a] \in policies}
Learned(a, b) == ases[a].loc_rib[b] # NoAnn /\ ~ ases[a].loc_rib[b].from_monitor

(***************************************************************************)
(* What the neighbours of a would send it for slot b now: their own and    *)
(* their customers' routes, and everything if they are providers; less     *)
(* what a drops as looped or, with ROV or ASPA, as an attacker's.          *)
(***************************************************************************)
Offers(a, b) ==
    LET from(n) == IF n \in input.topo.customers[a]  THEN {ToProviders}
                   ELSE IF n \in input.topo.peers[a] THEN {ToPeers}
                   ELSE IF n \in input.topo.providers[a] THEN {ToCustomers} ELSE {}
        sent == UNION {{Sent(n, ases[n].loc_rib[b], base) : base \in from(n)} :
                          n \in {m \in ASes : /\ ases[m].loc_rib[b] # NoAnn
                                              /\ \/ m \in input.topo.providers[a]
                                                 \/ ases[m].loc_rib[b].priority >= 200}}
    IN  {o \in sent : /\ a \notin {o.as_path[k] : k \in DOMAIN o.as_path}
                      /\ a \in Adopts({ROVPPAS_TYPE_ROV}) => o.origin \notin input.attackers
                      /\ a \in Adopts({ROVPPAS_TYPE_ASPA}) =>
                             \A k \in 2..Len(o.as_path) : o.as_path[k] \notin input.attackers}

(***************************************************************************)
(* When the sweeps are over and every AS runs BGP, ROV or ASPA, routing is *)
(* stable: an AS uses one of the announcements its neighbours would send   *)
(* it now, none of them has a higher priority, and it has a route whenever *)
(* a neighbour has one for it (send_all_announcements against              *)
(* process_announcements, through ribs_in, withdrawals and cycles).        *)
(***************************************************************************)
StableRouting ==
    Done /\ ASes = Adopts({ROVPPAS_TYPE_BGP, ROVPPAS_TYPE_ROV, ROVPPAS_TYPE_ASPA}) =>
        \A a \in ASes : \A b \in input.blocks :
            LET held == ases[a].loc_rib[b]
            IN  /\ held = NoAnn => Offers(a, b) = {}
                /\ Learned(a, b) /\ held.received_from_asn \in ASes =>
                       /\ \E o \in Offers(a, b) : Same(held, o)
                       /\ \A o \in Offers(a, b) : o.priority <= held.priority

(***************************************************************************)
(* "This will propogate up and down until the graph no longer changes"     *)
(* (ROVppExtrapolator.cpp 119): the cycles do not run into their bound     *)
(* while an AS still withdraws something, unless some AS adopts ROV++ 0.3, *)
(* which withdraws in every cycle.                                         *)
(***************************************************************************)
Converges ==
    Done /\ Adopts({ROVPPAS_TYPE_ROVPPBP}) = {} => ~ graph_changed

(***************************************************************************)
(* An AS with ROV or a ROV++ that blackholes never uses the hijack, and    *)
(* one with ASPA none that an attacker passed on: not as the alternative   *)
(* of something else either, nor once it took another route back.  (A seed *)
(* is put into the loc_rib past the policy.  Of an alternative only the    *)
(* origin is asked (best_alternative_route), so that ASPA may take a true  *)
(* route through the attacker back.)                                       *)
(***************************************************************************)
NoHijackAdopted ==
    \A a \in ASes : \A b \in input.blocks : Learned(a, b) =>
        LET held == ases[a].loc_rib[b]
        IN  /\ a \in Adopts({ROVPPAS_TYPE_ROV} \union Blackholing) =>
                   held.origin \notin input.attackers
            /\ a \in Adopts({ROVPPAS_TYPE_ASPA}) =>
                   pass_aspa(held) \/ held.origin \notin input.attackers

\* An AS that no row of the table makes a victim or a helper of the attacker:
\* where it is on a path, the origin is another AS and no attacker.
OnTheSide(a) ==
    \A k \in DOMAIN input.rows :
        LET path == input.rows[k].path
        IN  a \in Elements(path) => OriginOf(path) \in ASes \ ({a} \union input.attackers)

(***************************************************************************)
(* ROV++ 0.2bis and 0.3 drop what customers hijack, and 0.2bis forwards "a *)
(* blackhole ann to customers" (ROVppAS.cpp 366): providers and peers get  *)
(* no hijack from such an AS, nor a blackhole of 0.2bis, if it is on the   *)
(* side.  (0.3 may put a blackhole with a customer's priority into a slot, *)
(* check_preventives.)                                                     *)
(***************************************************************************)
HolesGoDown ==
    \A a \in Adopts(Filtering) : \A b \in input.topo.providers[a] \union input.topo.peers[a] :
        \A k \in DOMAIN ases[b].ribs_in :
            LET ann == ases[b].ribs_in[k]
            IN  OnTheSide(a) /\ ann.received_from_asn = a =>
                    /\ ann.origin \notin input.attackers
                    /\ input.policy[a] = ROVPPAS_TYPE_ROVPPBIS =>
                           ann.origin # UNUSED_ASN_FLAG_FOR_BLACKHOLES
=============================================================================
