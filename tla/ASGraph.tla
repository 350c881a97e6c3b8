------------------------------- MODULE ASGraph --------------------------------
(***************************************************************************)
(* Building the graph (BaseGraph.cpp, process): stubs are removed, Tarjan's*)
(* algorithm finds the strongly connected components of the provider       *)
(* relation, each component of two or more ASes becomes one supernode, and *)
(* every AS gets its rank.                                                 *)
(*                                                                         *)
(* The sets of neighbours are std::set and are iterated in ascending       *)
(* order; the map of ASes is an unordered_map, whose order is arbitrary.   *)
(***************************************************************************)
EXTENDS Integers, Sequences, FiniteSets, FiniteSetsExt, SequencesExt

CONSTANTS ASNs,       \* the AS numbers of the relationship tables
          Inputs      \* the graphs that create_graph_from_db may have read

Neighbours == [ASNs -> SUBSET ASNs]
NotVisited == -1      \* index before Tarjan, rank before decide_ranks

ASSUME ASGraphAssumption ==
    /\ ASNs \subseteq Nat /\ IsFiniteSet(ASNs)
    /\ Inputs \subseteq [providers : Neighbours, peers : Neighbours, customers : Neighbours]
    /\ \A g \in Inputs : \A a, b \in ASNs :
          /\ b \in g.providers[a] <=> a \in g.customers[b]
          /\ b \in g.peers[a] <=> a \in g.peers[b]
          /\ a \notin g.providers[a] \union g.peers[a]

VARIABLES
    input,                              \* the graph as it was read
    step,                               \* the call of process that runs
    ases,                               \* the keys of the map
    providers, peers, customers,        \* per AS
    stubs_to_parents, non_stubs,
    index, lowlink, stack,              \* Tarjan: per AS, per AS, the variable s
    calls,                              \* frames of tarjan_helper, [as, todo]
    components,                         \* sequences of ASNs, in the order found
    left,                               \* members of the component in work
    supernode,                          \* combined_AS: [asn, the three sets]
    component_translation,
    rank, ases_by_rank,                 \* per AS; per level, from rank 0 on
    level, cursor                       \* decide_ranks: i, and the last AS visited

edges      == <<providers, peers, customers>>
stubVars   == <<stubs_to_parents, non_stubs>>
tarjanVars == <<index, lowlink, stack, calls>>
superVars  == <<left, supernode, component_translation>>
rankVars   == <<rank, ases_by_rank, level, cursor>>
vars == <<input, step, ases, edges, stubVars, tarjanVars, components, superVars, rankVars>>

NoSupernode == [asn |-> -1, providers |-> {}, peers |-> {}, customers |-> {}]

\* create_graph_from_db: an AS exists when a table names it.
Init == /\ input \in Inputs
        /\ step = "stubs"
        /\ ases = {a \in ASNs : input.providers[a] \union input.peers[a]
                                    \union input.customers[a] # {}}
        /\ providers = input.providers
        /\ peers = input.peers
        /\ customers = input.customers
        /\ stubs_to_parents = << >> /\ non_stubs = {}
        /\ index = [a \in ASNs |-> NotVisited]
        /\ lowlink = [a \in ASNs |-> NotVisited]
        /\ stack = <<>> /\ calls = <<>>
        /\ components = <<>>
        /\ left = <<>> /\ supernode = NoSupernode
        /\ component_translation = << >>
        /\ rank = [a \in ASNs |-> NotVisited]
        /\ ases_by_rank = <<>> /\ level = 0 /\ cursor = -1

-----------------------------------------------------------------------------
IsStub(a) == peers[a] = {} /\ Cardinality(providers[a]) = 1 /\ customers[a] = {}

remove_stubs ==
    LET stubs == {a \in ases : IsStub(a)}
    IN  /\ step = "stubs"
        /\ step' = "tarjan"
        /\ non_stubs' = ases \ stubs
        /\ customers' = [a \in ASNs |-> customers[a] \ stubs]
        /\ stubs_to_parents' = [a \in stubs |-> CHOOSE p \in providers[a] : TRUE]
        /\ ases' = ases \ stubs
        /\ UNCHANGED <<input, providers, peers, tarjanVars, components, superVars, rankVars>>

-----------------------------------------------------------------------------
(***************************************************************************)
(* tarjan and tarjan_helper.                                               *)
(***************************************************************************)
\* The beginning of tarjan_helper(a), called with the frames below it.
Enter(a, frames) ==
    LET counter == Cardinality({b \in ASNs : index[b] # NotVisited})
    IN  /\ index' = [index EXCEPT ![a] = counter]
        /\ lowlink' = [lowlink EXCEPT ![a] = counter]
        /\ stack' = Append(stack, a)
        /\ calls' = Append(frames, [as |-> a, todo |-> providers[a]])

\* A variant with a bug: the AS has been visited, on the stack or not.
Visited(a) == index[a] # NotVisited

OnStack(a) == \E k \in DOMAIN stack : stack[k] = a

TarjanNext ==
    /\ step = "tarjan" /\ calls = <<>>
    /\ \E a \in ases : index[a] = NotVisited /\ Enter(a, <<>>)
    /\ UNCHANGED <<input, step, ases, edges, stubVars, components, superVars, rankVars>>

\* The next provider of the AS of the innermost call.
TarjanNeighbor ==
    /\ calls # <<>> /\ Last(calls).todo # {}
    /\ LET as     == Last(calls).as
           n      == Min(Last(calls).todo)
           frames == Append(Front(calls), [as |-> as, todo |-> Last(calls).todo \ {n}])
       IN  IF index[n] = NotVisited THEN Enter(n, frames)
           ELSE /\ calls' = frames
                /\ lowlink' = IF OnStack(n)
                              THEN [lowlink EXCEPT ![as] = Min({@, index[n]})]
                              ELSE lowlink
                /\ UNCHANGED <<index, stack>>
    /\ UNCHANGED <<input, step, ases, edges, stubVars, components, superVars, rankVars>>

\* The end of a call: the component of its AS, if it is the root of one, and
\* the lowlink of the caller.
TarjanReturn ==
    /\ calls # <<>> /\ Last(calls).todo = {}
    /\ LET as     == Last(calls).as
           frames == Front(calls)
           bottom == CHOOSE k \in DOMAIN stack : stack[k] = as
       IN  /\ calls' = frames
           /\ IF lowlink[as] = index[as]
              THEN /\ components' = Append(components,
                          Reverse(SubSeq(stack, bottom, Len(stack))))
                   /\ stack' = SubSeq(stack, 1, bottom - 1)
              ELSE UNCHANGED <<components, stack>>
           /\ lowlink' = IF frames = <<>> THEN lowlink
                         ELSE [lowlink EXCEPT
                                  ![Last(frames).as] = Min({@, lowlink[as]})]
    /\ UNCHANGED <<input, step, ases, edges, stubVars, index, superVars, rankVars>>

TarjanEnd ==
    /\ step = "tarjan" /\ calls = <<>>
    /\ \A a \in ases : index[a] # NotVisited
    /\ step' = "combine"
    /\ UNCHANGED <<input, ases, edges, stubVars, tarjanVars, components, superVars, rankVars>>

-----------------------------------------------------------------------------
(***************************************************************************)
(* combine_components, a step for each member of each component.           *)
(***************************************************************************)
Supernodes == {c \in ToSet(components) : Len(c) > 1}

\* A variant of Uncombined with a bug: a component is never left behind.
CombinedAgain == {k \in DOMAIN components : Len(components[k]) > 1}

\* Where the components are that have not been combined.
Uncombined == {k \in DOMAIN components :
                  /\ Len(components[k]) > 1
                  /\ ToSet(components[k]) \intersect DOMAIN component_translation = {}}

\* combined_AS is created under the lowest ASN of the component.
StartSupernode ==
    /\ step = "combine" /\ supernode = NoSupernode /\ Uncombined # {}
    /\ left' = components[Min(Uncombined)]
    /\ supernode' = [NoSupernode EXCEPT !.asn = Min(ToSet(left'))]
    /\ UNCHANGED <<input, step, ases, edges, stubVars, tarjanVars, components,
                   component_translation, rankVars>>

\* The component that is being combined.
Working == UNION {ToSet(c) : c \in {c \in Supernodes : Min(ToSet(c)) = supernode.asn}}

\* A variant of Exchanged with a bug: the member stays.
Joined(set) == set \union {supernode.asn}

\* An external neighbour x gets the supernode and then loses the member: of
\* the member with the lowest ASN nothing stays.
Exchanged(set) == (set \union {supernode.asn}) \ {Head(left)}

External(set) == set \ Working

\* A variant of Gathered with a bug: combined_AS is made anew for each member.
GatheredAnew(up, down, safe) ==
    [asn |-> supernode.asn, providers |-> up, customers |-> down, peers |-> safe]

\* What combined_AS knows after the member.
Gathered(up, down, safe) ==
    [supernode EXCEPT !.providers = @ \union up,
                      !.customers = @ \union down,
                      !.peers     = (@ \ (up \union down)) \union safe]

CombineMember ==
    LET member == Head(left)
        up     == External(providers[member])
        down   == External(customers[member])
        across == External(peers[member])
        safe   == across \ (supernode.providers \union up
                                \union supernode.customers \union down)
    IN  /\ step = "combine" /\ left # <<>>
        /\ providers' = [x \in ASNs |-> IF x \in down THEN Exchanged(providers[x])
                                                      ELSE providers[x]]
        /\ customers' = [x \in ASNs |-> IF x \in up THEN Exchanged(customers[x])
                                                    ELSE customers[x]]
        /\ peers' = [x \in ASNs |->
               IF x \in safe THEN Exchanged(peers[x])
               ELSE IF x \in up \union down \union across THEN peers[x] \ {member}
               ELSE peers[x]]
        /\ supernode' = Gathered(up, down, safe)
        /\ component_translation' =
               [a \in DOMAIN component_translation \union {member} |->
                   IF a = member THEN supernode.asn ELSE component_translation[a]]
        /\ ases' = ases \ {member}
        /\ left' = Tail(left)
        /\ UNCHANGED <<input, step, stubVars, tarjanVars, components, rankVars>>

\* A variant with a bug: the finished supernode is not inserted.
EndSupernodeOutside ==
    /\ step = "combine" /\ left = <<>> /\ supernode # NoSupernode
    /\ providers' = [providers EXCEPT ![supernode.asn] = supernode.providers]
    /\ customers' = [customers EXCEPT ![supernode.asn] = supernode.customers]
    /\ peers' = [peers EXCEPT ![supernode.asn] = supernode.peers]
    /\ supernode' = NoSupernode
    /\ UNCHANGED <<input, step, ases, stubVars, tarjanVars, components, left,
                   component_translation, rankVars>>

\* The finished supernode enters the graph.
EndSupernode ==
    /\ step = "combine" /\ left = <<>> /\ supernode # NoSupernode
    /\ ases' = ases \union {supernode.asn}
    /\ providers' = [providers EXCEPT ![supernode.asn] = supernode.providers]
    /\ customers' = [customers EXCEPT ![supernode.asn] = supernode.customers]
    /\ peers' = [peers EXCEPT ![supernode.asn] = supernode.peers]
    /\ supernode' = NoSupernode
    /\ UNCHANGED <<input, step, stubVars, tarjanVars, components, left,
                   component_translation, rankVars>>

\* save_supernodes_to_db writes components as they are.
EndCombine ==
    /\ step = "combine" /\ supernode = NoSupernode /\ Uncombined = {}
    /\ step' = "ranks"
    /\ UNCHANGED <<input, ases, edges, stubVars, tarjanVars, components, superVars, rankVars>>

-----------------------------------------------------------------------------
(***************************************************************************)
(* decide_ranks, a step for each AS of each level.                         *)
(***************************************************************************)
Translate(a) == IF a \in DOMAIN component_translation THEN component_translation[a] ELSE a

Leaves == {a \in ases : customers[a] = {}}

StartRanks ==
    /\ step = "ranks" /\ ases_by_rank = <<>>
    /\ rank' = [a \in ASNs |-> IF a \in Leaves THEN 0 ELSE rank[a]]
    /\ ases_by_rank' = IF Leaves = {} THEN <<{}>> ELSE <<Leaves, {}>>
    /\ UNCHANGED <<input, step, ases, edges, stubVars, tarjanVars, components, superVars,
                   level, cursor>>

\* Level i is the element i + 1 of ases_by_rank.
Level(i) == ases_by_rank[i + 1]
Ahead == {a \in Level(level) : a > cursor}

\* A variant of Raised with a bug: an AS gets its rank once.
RaisedOnce(asn) == {p \in providers[asn] : rank[Translate(p)] = NotVisited}

\* The providers of asn that are not above the level already.
Raised(asn) == {p \in providers[asn] : rank[Translate(p)] < level + 1}

\* The levels after `raised` went from theirs to the next one.
Moved(raised) ==
    [i \in DOMAIN ases_by_rank |->
        (ases_by_rank[i] \ {p \in raised : rank[Translate(p)] = i - 1})
            \union (IF i = level + 2 THEN raised ELSE {})]

\* The providers of the next AS of the level move up.
RaiseProviders ==
    /\ step = "ranks" /\ ases_by_rank # <<>> /\ Ahead # {}
    /\ LET raised == Raised(Min(Ahead))
       IN  /\ rank' = [a \in ASNs |-> IF \E p \in raised : Translate(p) = a
                                      THEN level + 1 ELSE rank[a]]
           /\ ases_by_rank' = Moved(raised)
           /\ cursor' = Min(Ahead)
    /\ UNCHANGED <<input, step, ases, edges, stubVars, tarjanVars, components, superVars,
                   level>>

\* The test of the while loop: the next level has ASes, or the loop ends.
NextLevel ==
    /\ step = "ranks" /\ ases_by_rank # <<>> /\ Ahead = {}
    /\ IF level + 1 < Len(ases_by_rank) /\ Level(level + 1) # {}
       THEN /\ level' = level + 1 /\ cursor' = -1
            /\ ases_by_rank' = Append(ases_by_rank, {})
            /\ UNCHANGED step
       ELSE /\ step' = "done"
            /\ UNCHANGED <<ases_by_rank, level, cursor>>
    /\ UNCHANGED <<input, ases, edges, stubVars, tarjanVars, components, superVars, rank>>

\* The graph is ready and the extrapolator goes on with it.
Ready == step = "done" /\ UNCHANGED vars

-----------------------------------------------------------------------------
Next == \/ remove_stubs
        \/ TarjanNext \/ TarjanNeighbor \/ TarjanReturn \/ TarjanEnd
        \/ StartSupernode \/ CombineMember \/ EndSupernode \/ EndCombine
        \/ StartRanks \/ RaiseProviders \/ NextLevel
        \/ Ready

Spec == Init /\ [][Next]_vars

\* One thread that never waits.
FairSpec == Spec /\ WF_vars(Next)

-----------------------------------------------------------------------------
(***************************************************************************)
(* No AS has a neighbour that is gone.  combine_components dereferences    *)
(* ases->find(...) of every external neighbour without a test: for the     *)
(* member it works on each of them is in the graph, however many stubs and *)
(* members were removed before.  At its end, lines 364 and 384, "Remove    *)
(* old subnode ...", nobody has a member as a neighbour, when one          *)
(* component at most was combined: of two next to each other the removal   *)
(* is one-sided.                                                           *)
(***************************************************************************)
NeighboursOf(a) == providers[a] \union customers[a] \union peers[a]

NeighboursExist ==
    /\ left # <<>> => External(NeighboursOf(Head(left))) \subseteq ases
    /\ step = "ranks" /\ Cardinality(Supernodes) <= 1 =>
           \A a \in ases : NeighboursOf(a) \subseteq ases

(***************************************************************************)
(* Tarjan's algorithm finds the strongly connected components: two ASes    *)
(* are in one component exactly if each is a provider of the other,        *)
(* directly or through others.                                             *)
(***************************************************************************)
ClosedUpward(S) == \A a \in S : input.providers[a] \subseteq S

\* The AS itself, its providers, theirs, and so on: the least closed set.
Above(a) == {b \in non_stubs : \A S \in SUBSET non_stubs :
                                  a \in S /\ ClosedUpward(S) => b \in S}

MutuallyAbove(a) == {b \in Above(a) : a \in Above(b)}

ComponentsAreStrong ==
    step = "combine" =>
        {ToSet(c) : c \in ToSet(components)} = {MutuallyAbove(a) : a \in non_stubs}

(***************************************************************************)
(* No ASN of the tables is lost: it is in the graph, translated to an AS   *)
(* of the graph, or a stub whose parent is one of the two.                 *)
(***************************************************************************)
Resolved(a) == Translate(a) \in ases
EveryAsnResolves ==
    step \in {"ranks", "done"} =>
        \A a \in ASNs : input.providers[a] \union input.peers[a] \union input.customers[a] # {}
            => IF a \in DOMAIN stubs_to_parents THEN a \notin ases /\ Resolved(stubs_to_parents[a])
               ELSE a \in non_stubs /\ Resolved(a)

(***************************************************************************)
(* What add_relationship said of two ASes that are now apart is still      *)
(* known to at least one of the two, when one component at most was        *)
(* combined.  Two that are next to each other may lose it on both sides.   *)
(***************************************************************************)
RelationsKept ==
    step \in {"ranks", "done"} /\ Cardinality(Supernodes) <= 1 =>
        \A a \in non_stubs : \A p \in input.providers[a] :
            LET b == Translate(a)
                q == Translate(p)
            IN  b # q => q \in providers[b] \/ b \in customers[q]

(***************************************************************************)
(* The level an AS is in and the rank it has agree at every step, although *)
(* decide_ranks moves an AS between levels while it iterates one of them.  *)
(* The levels hold ASNs that are not translated, and yet ASes of the graph *)
(* only: Tarjan finds providers before their customers, so that no AS      *)
(* keeps a provider that was combined away.  A provider is above its       *)
(* ranked customers; without cycles the rank of an AS is the length of the *)
(* longest chain of customers below it, so every AS has one.               *)
(***************************************************************************)
\* No chain is longer: customers have lower ranks.  One is as long: it goes on
\* at a customer of the rank below.
LongestChain(a) ==
    /\ rank[a] >= 0
    /\ \A c \in customers[a] : rank[c] < rank[a]
    /\ rank[a] > 0 => \E c \in customers[a] : rank[c] = rank[a] - 1

LevelsMatchRanks ==
    ases_by_rank # <<>> =>
        /\ \A i \in DOMAIN ases_by_rank : ases_by_rank[i] = {a \in ases : rank[a] = i - 1}
        /\ step = "done" => \A a \in ases : \A p \in providers[a] :
               rank[a] >= 0 => rank[p] > rank[a]
        /\ step = "done" /\ Supernodes = {} => \A a \in ases : LongestChain(a)

(***************************************************************************)
(* The graph is built in the end: Tarjan returns from every call and the   *)
(* levels come to an end.                                                  *)
(***************************************************************************)
GraphEnds == <>(step = "done")

=============================================================================
