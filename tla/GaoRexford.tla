----------------------------- MODULE GaoRexford ------------------------------
(***************************************************************************)
(* What a block is to compute, without saying how: from seeds that do not  *)
(* change, routes that are stable under the Gao-Rexford export and         *)
(* preference rules, when every AS refuses the announcements of some       *)
(* origins and multihomed ASes hold some of theirs back.  Seeds, and what  *)
(* is refused, may come and go until the routes settle; they settle in one *)
(* step.                                                                   *)
(***************************************************************************)
EXTENDS Announcements

CONSTANT ASes

VARIABLES topo,      \* providers, peers and customers of each AS
          mh_mode,   \* what multihomed ASes hold back
          refused,   \* the origins each AS takes no announcement of
          rib,       \* the route of each AS, or NoAnn
          settled

vars == <<topo, mh_mode, refused, rib, settled>>

IsSeed(slot) == slot # NoAnn /\ slot.from_monitor

Init == /\ rib = [a \in ASes |-> NoAnn]
        /\ settled = FALSE

\* A row of the block seeds some ASes, takes the seeds of others away, and
\* may have an origin refused from now on, or no longer.
Seed ==
    /\ ~ settled
    /\ \A a \in ASes : rib'[a] # rib[a] => rib'[a] = NoAnn \/ IsSeed(rib'[a])
    /\ UNCHANGED <<topo, mh_mode, settled>>

\* Routes of one's own and of customers go to everyone, others to customers.
ForAll(routes, senders) ==
    {b \in senders : routes[b] # NoAnn /\ routes[b].relationship >= AS_REL_CUSTOMER}
ForCustomers(routes, senders) == {b \in senders : routes[b] # NoAnn}

\* An AS without customers tells its peers nothing in mode 2, and its providers
\* nothing in the modes 2 and 3, nor in mode 1 (the automatic one) when one of
\* them was given a route to the same origin.
Multihomed(b) == topo.customers[b] = {}

HeldFromProviders(routes, b) ==
    /\ Multihomed(b)
    /\ \/ mh_mode \in {2, 3}
       \/ mh_mode = 1 /\ \E p \in topo.providers[b] :
                            IsSeed(routes[p]) /\ routes[p].origin = routes[b].origin

HeldFromPeers(b) == Multihomed(b) /\ mh_mode = 2

ToProviders(routes, senders) ==
    {b \in ForAll(routes, senders) : ~ HeldFromProviders(routes, b)}
ToPeers(routes, senders) == {b \in ForAll(routes, senders) : ~ HeldFromPeers(b)}

Offers(routes, a) ==
    {offer \in {Export(routes[b], AS_REL_CUSTOMER, b)
                    : b \in ToProviders(routes, topo.customers[a])}
         \union {Export(routes[b], AS_REL_PEER, b) : b \in ToPeers(routes, topo.peers[a])}
         \union {Export(routes[b], AS_REL_PROVIDER, b)
                     : b \in ForCustomers(routes, topo.providers[a])} :
        offer.origin \notin refused[a]}

\* An AS without a seed uses the best offer there is, or has no route.
Stable(routes) ==
    \A a \in ASes :
        \/ IsSeed(routes[a])
        \/ Offers(routes, a) = {} /\ routes[a] = NoAnn
        \/ /\ routes[a] \in Offers(routes, a)
           /\ \A offer \in Offers(routes, a) : Priority(offer) <= Priority(routes[a])

Settle ==
    /\ ~ settled
    /\ settled' = TRUE
    /\ \A a \in ASes : IsSeed(rib[a]) \/ IsSeed(rib'[a]) => rib'[a] = rib[a]
    /\ Stable(rib')
    /\ UNCHANGED <<topo, mh_mode, refused>>

\* The next block starts from nothing.
Clear == /\ settled
         /\ settled' = FALSE
         /\ rib' = [a \in ASes |-> NoAnn]
         /\ UNCHANGED <<topo, mh_mode, refused>>

Next == Seed \/ Settle \/ Clear

Spec == Init /\ [][Next]_vars
=============================================================================
