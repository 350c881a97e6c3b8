---------------------------- MODULE ASGraphProofs -----------------------------
(***************************************************************************)
(* Theorems about ASGraph, for every graph.                                *)
(*                                                                         *)
(* First Tarjan's algorithm, as tarjan and tarjan_helper have it: it finds *)
(* the strongly connected components of the providers, and finds the       *)
(* component of a provider no later than that of its customer.             *)
(*                                                                         *)
(* Then combine_components and decide_ranks, which rest on it: no ASN and  *)
(* no neighbour is lost, and the levels are the ranks.                     *)
(***************************************************************************)
EXTENDS ASGraph, FiniteSetTheorems, SequenceTheorems, WellFoundedInduction, TLAPS

Numbered  == {a \in ASNs : index[a] # NotVisited}
OnTheStack == ToSet(stack)

\* The providers of a that its call has been through: all, if it is over.
Taken(a) == {p \in input.providers[a] :
                \A i \in DOMAIN calls : calls[i].as = a => p \notin calls[i].todo}

-----------------------------------------------------------------------------
(***************************************************************************)
(* The invariant, in named parts.                                          *)
(***************************************************************************)
\* Providers of an AS that is no stub are none: they have a customer.
GraphKnown ==
    /\ input \in Inputs
    /\ step \in {"stubs", "tarjan", "combine", "ranks", "done"}
    /\ step \in {"stubs", "tarjan"} => providers = input.providers
    /\ step = "stubs" => /\ non_stubs = {}
                         /\ customers = input.customers
                         /\ ases \subseteq ASNs
                         /\ \A a \in ases : input.providers[a] \subseteq ases
    /\ step = "tarjan" => ases = non_stubs
    /\ non_stubs \subseteq ASNs
    /\ \A a \in non_stubs : input.providers[a] \subseteq non_stubs

TarjanTypes ==
    /\ index \in [ASNs -> Int]
    /\ lowlink \in [ASNs -> Int]
    /\ stack \in Seq(non_stubs)
    /\ calls \in Seq([as : non_stubs, todo : SUBSET non_stubs])
    /\ components \in Seq(Seq(non_stubs))
    /\ step # "tarjan" => calls = <<>>
    /\ step = "stubs" => Numbered = {} /\ stack = <<>> /\ components = <<>>
    /\ step \notin {"stubs", "tarjan"} => non_stubs \subseteq Numbered

\* The counter of Enter is above all numbers that were given.
Numbering ==
    /\ Numbered \subseteq non_stubs
    /\ \A a \in Numbered : index[a] \in 0..(Cardinality(Numbered) - 1)
    /\ \A a, b \in Numbered : index[a] = index[b] => a = b

StackOrder ==
    /\ OnTheStack \subseteq Numbered
    /\ \A i, j \in DOMAIN stack : i < j => index[stack[i]] < index[stack[j]]
    /\ \A i \in DOMAIN calls : calls[i].as \in OnTheStack
    /\ \A i, j \in DOMAIN calls : i < j => index[calls[i].as] < index[calls[j].as]

Explored ==
    /\ \A i \in DOMAIN calls : calls[i].todo \subseteq input.providers[calls[i].as]
    /\ \A a \in Numbered : Taken(a) \subseteq Numbered

\* Up the stack every AS is above those below it, and from each AS on the
\* stack one leads back to the AS of a call no further up.
StackReaches ==
    /\ \A a, b \in OnTheStack : index[a] <= index[b] => b \in Above(a)
    /\ \A a \in OnTheStack : \E i \in DOMAIN calls :
          index[calls[i].as] <= index[a] /\ calls[i].as \in Above(a)

\* lowlink is the number of an AS above ...
LowIsReached ==
    \A i \in DOMAIN calls :
        /\ lowlink[calls[i].as] <= index[calls[i].as]
        /\ \E b \in OnTheStack : b \in Above(calls[i].as) /\ index[b] = lowlink[calls[i].as]

\* ... and no greater than that of any AS on the stack that is a provider of
\* the AS or of those its finished calls left on the stack.
Segment(i) ==
    {a \in OnTheStack : /\ index[calls[i].as] <= index[a]
                        /\ i < Len(calls) => index[a] < index[calls[i + 1].as]}
LowIsLowest ==
    \A i \in DOMAIN calls : \A a \in Segment(i) : \A p \in Taken(a) \intersect OnTheStack :
        lowlink[calls[i].as] <= index[p]

\* The components that were found.
Members(k) == ToSet(components[k])

ComponentsFound ==
    /\ \A k \in DOMAIN components :
          /\ components[k] # <<>>
          /\ \A i, j \in DOMAIN components[k] : components[k][i] = components[k][j] => i = j
          /\ Members(k) \subseteq Numbered \ OnTheStack
          /\ \A a \in Members(k) :
                /\ Members(k) = MutuallyAbove(a)
                /\ \A p \in input.providers[a] : \E l \in 1..k : p \in Members(l)
    /\ \A a \in Numbered \ OnTheStack : \E k \in DOMAIN components : a \in Members(k)
    /\ \A k, l \in DOMAIN components : k # l => Members(k) \intersect Members(l) = {}

TarjanInv ==
    /\ GraphKnown /\ TarjanTypes /\ Numbering /\ StackOrder /\ Explored
    /\ StackReaches /\ LowIsReached /\ LowIsLowest /\ ComponentsFound

-----------------------------------------------------------------------------
(***************************************************************************)
(* What holds of Above: it is reflexive and transitive, has the providers  *)
(* of whom it has, and lies within every closed set.                       *)
(***************************************************************************)
LEMMA AboveItself ==
    ASSUME NEW a \in non_stubs
    PROVE  a \in Above(a)
  BY DEF Above

\* Who is above a provider of an AS is above the AS.
LEMMA AboveStep ==
    ASSUME NEW a, NEW b \in Above(a), NEW p \in input.providers[b], GraphKnown
    PROVE  p \in Above(a)
<1>1. b \in non_stubs
  BY DEF Above
<1>2. p \in non_stubs
  BY <1>1 DEF GraphKnown
<1>3. ASSUME NEW S \in SUBSET non_stubs, a \in S, ClosedUpward(S)
      PROVE  p \in S
  BY <1>3 DEF Above, ClosedUpward
<1> QED
  BY <1>2, <1>3 DEF Above

\* Above is transitive.
LEMMA AboveTransitive ==
    ASSUME NEW a, NEW b \in Above(a), NEW c \in Above(b)
    PROVE  c \in Above(a)
  BY DEF Above

\* Above stays within every closed set.
LEMMA AboveInClosed ==
    ASSUME NEW S \in SUBSET non_stubs, ClosedUpward(S), NEW a \in S
    PROVE  Above(a) \subseteq S
  BY DEF Above

\* The graph does not change any more once the stubs are removed.
LEMMA AboveStays ==
    ASSUME UNCHANGED <<input, non_stubs>>
    PROVE  \A a : Above(a)' = Above(a) /\ MutuallyAbove(a)' = MutuallyAbove(a)
  BY DEF Above, ClosedUpward, MutuallyAbove

(***************************************************************************)
(* Sequences and numbers as the actions use them.                          *)
(***************************************************************************)
LEMMA SmallestExists ==
    ASSUME NEW S \in SUBSET Nat, S # {}
    PROVE  \E x \in S : \A y \in S : x <= y
<1>1. PICK x \in S : \A y \in S : <<y, x>> \notin OpToRel(<, Nat)
  BY NatLessThanWellFounded, WFMin
<1>2. ASSUME NEW y \in S
      PROVE  x <= y
  <2>1. x \in Nat /\ y \in Nat /\ <<y, x>> \notin OpToRel(<, Nat)
    BY <1>1
  <2> QED
    BY <2>1 DEF OpToRel
<1> QED
  BY <1>2

\* Min of the community modules, on natural numbers.
LEMMA MinIsSmallest ==
    ASSUME NEW S \in SUBSET Nat, S # {}
    PROVE  Min(S) \in S /\ \A x \in S : Min(S) <= x
  BY SmallestExists DEF Min

\* The smaller of two, as tarjan_helper updates lowlink.
LEMMA MinOfTwo ==
    ASSUME NEW m \in Int, NEW n \in Int
    PROVE  /\ Min({m, n}) \in {m, n}
           /\ Min({m, n}) <= m /\ Min({m, n}) <= n
<1>1. \E x \in {m, n} : \A y \in {m, n} : x <= y
  <2>1. CASE m <= n
    BY <2>1
  <2>2. CASE ~ (m <= n)
    BY <2>2
  <2> QED
    BY <2>1, <2>2
<1> QED
  BY <1>1 DEF Min

\* The beginning of a sequence, as the stack is cut.
LEMMA SubSeqFromOne ==
    ASSUME NEW S, NEW s \in Seq(S), NEW n \in Nat, n <= Len(s)
    PROVE  /\ SubSeq(s, 1, n) \in Seq(S)
           /\ Len(SubSeq(s, 1, n)) = n
           /\ \A i \in 1..n : SubSeq(s, 1, n)[i] = s[i]
<1>1. \A i \in 1..n : s[i] \in S
  BY ElementOfSeq
<1>2. /\ SubSeq(s, 1, n) \in Seq(S)
      /\ Len(SubSeq(s, 1, n)) = IF 1 <= n THEN n - 1 + 1 ELSE 0
      /\ \A i \in 1..(n - 1 + 1) : SubSeq(s, 1, n)[i] = s[1 + i - 1]
  BY <1>1, SubSeqProperties
<1> QED
  BY <1>2

\* A sequence is its front and its last element.
LEMMA FrontLast ==
    ASSUME NEW S, NEW s \in Seq(S), s # <<>>
    PROVE  /\ Len(s) \in Nat \ {0}
           /\ Front(s) \in Seq(S)
           /\ Len(Front(s)) = Len(s) - 1
           /\ \A i \in 1..(Len(s) - 1) : Front(s)[i] = s[i]
           /\ Last(s) = s[Len(s)]
           /\ Last(s) \in S
<1>1. Len(s) \in Nat \ {0} /\ \A i \in 1..Len(s) : s[i] \in S
  BY EmptySeq, ElementOfSeq
<1>2. PICK n \in Nat : n = Len(s) - 1
  BY <1>1
<1>3. Front(s) = SubSeq(s, 1, n)
  BY <1>2 DEF Front
<1>4. Last(s) = s[Len(s)] /\ s[Len(s)] \in S
  BY <1>1 DEF Last
<1> QED
  BY <1>1, <1>2, <1>3, <1>4, SubSeqFromOne

\* A sequence with one more element, as push_back leaves it.
LEMMA Appended ==
    ASSUME NEW S, NEW s \in Seq(S), NEW e \in S
    PROVE  /\ Append(s, e) \in Seq(S)
           /\ Len(Append(s, e)) = Len(s) + 1
           /\ \A i \in 1..Len(s) : Append(s, e)[i] = s[i]
           /\ Append(s, e)[Len(s) + 1] = e
           /\ ToSet(Append(s, e)) = ToSet(s) \union {e}
<1>1. /\ Append(s, e) \in Seq(S)
      /\ Len(Append(s, e)) = Len(s) + 1
      /\ \A i \in 1..Len(s) : Append(s, e)[i] = s[i]
      /\ Append(s, e)[Len(s) + 1] = e
  BY AppendProperties
<1>2. DOMAIN s = 1..Len(s) /\ DOMAIN Append(s, e) = 1..(Len(s) + 1) /\ Len(s) \in Nat
  BY <1>1, LenProperties
<1> QED
  BY <1>1, <1>2 DEF ToSet

\* What Tarjan pops off the stack, from position b on.
LEMMA ReversedRest ==
    ASSUME NEW S, NEW s \in Seq(S), NEW b \in 1..Len(s),
           NEW found, found = Reverse(SubSeq(s, b, Len(s)))
    PROVE  /\ found \in Seq(S)
           /\ DOMAIN found = 1..(Len(s) - b + 1)
           /\ \A i \in 1..(Len(s) - b + 1) : found[i] = s[Len(s) - i + 1]
           /\ \A x : x \in ToSet(found) <=> \E i \in b..Len(s) : x = s[i]
<1> DEFINE n == Len(s)
           t == SubSeq(s, b, n)
           rest == Reverse(t)
           m == n - b + 1
<1>1. n \in Nat /\ \A i \in b..n : s[i] \in S
  BY ElementOfSeq, LenProperties
<1>2. n \in Int /\ b \in Int /\ b <= n
  BY <1>1
<1> HIDE DEF n
<1>3. /\ t \in Seq(S)
      /\ Len(t) = IF b <= n THEN n - b + 1 ELSE 0
      /\ \A i \in 1..(n - b + 1) : t[i] = s[b + i - 1]
  BY <1>1, <1>2, SubSeqProperties
<1>4. m \in Nat /\ Len(t) = m /\ \A i \in 1..m : t[i] = s[b + i - 1] /\ s[b + i - 1] \in S
  BY <1>1, <1>2, <1>3
<1> HIDE DEF t
<1>5. rest = [i \in 1..m |-> t[m - i + 1]]
  BY <1>4 DEF Reverse
<1>6. \A i \in 1..m : rest[i] = s[n - i + 1] /\ rest[i] \in S
  <2> SUFFICES ASSUME NEW i \in 1..m
               PROVE  rest[i] = s[n - i + 1] /\ rest[i] \in S
    OBVIOUS
  <2>1. m - i + 1 \in 1..m /\ rest[i] = t[m - i + 1]
    BY <1>4, <1>5
  <2>2. t[m - i + 1] = s[b + (m - i + 1) - 1] /\ s[b + (m - i + 1) - 1] \in S
    BY <1>4, <2>1
  <2>3. b + (m - i + 1) - 1 = n - i + 1
    BY <1>1, <1>2
  <2> QED
    BY <2>1, <2>2, <2>3
<1>7. rest \in Seq(S) /\ Len(rest) = m /\ DOMAIN rest = 1..m
  <2>1. rest \in [1..m -> S]
    BY <1>5, <1>6
  <2> QED
    BY <1>4, <2>1, SeqDef
<1>8. ToSet(rest) = {s[i] : i \in b..n}
  <2>1. ASSUME NEW i \in 1..m
        PROVE  rest[i] \in {s[j] : j \in b..n}
    <3>1. n - i + 1 \in b..n
      BY <1>1, <1>2
    <3> QED
      BY <1>6, <3>1
  <2>2. ASSUME NEW j \in b..n
        PROVE  \E i \in 1..m : rest[i] = s[j]
    <3>1. n - j + 1 \in 1..m /\ n - (n - j + 1) + 1 = j
      BY <1>1, <1>2
    <3> QED
      BY <1>6, <3>1
  <2> QED
    BY <1>7, <2>1, <2>2 DEF ToSet
<1> HIDE DEF rest
<1>9. QED
  BY <1>6, <1>7, <1>8 DEF n, t, rest, m

\* The frames after the innermost one has moved on.
LEMMA ReplacedLast ==
    ASSUME NEW S, NEW s \in Seq(S), s # <<>>, NEW e \in S
    PROVE  /\ Append(Front(s), e) \in Seq(S)
           /\ Len(Append(Front(s), e)) = Len(s)
           /\ \A i \in 1..(Len(s) - 1) : Append(Front(s), e)[i] = s[i]
           /\ Append(Front(s), e)[Len(s)] = e
<1>1. /\ Len(s) \in Nat \ {0}
      /\ Front(s) \in Seq(S)
      /\ Len(Front(s)) = Len(s) - 1
      /\ \A i \in 1..(Len(s) - 1) : Front(s)[i] = s[i]
  BY FrontLast
<1>2. /\ Append(Front(s), e) \in Seq(S)
      /\ Len(Append(Front(s), e)) = Len(Front(s)) + 1
      /\ \A i \in 1..Len(Front(s)) : Append(Front(s), e)[i] = Front(s)[i]
      /\ Append(Front(s), e)[Len(Front(s)) + 1] = e
  BY <1>1, Appended
<1> QED
  BY <1>1, <1>2

-----------------------------------------------------------------------------
(***************************************************************************)
(* Before the search.                                                      *)
(***************************************************************************)
LEMMA InputType ==
    ASSUME NEW g \in Inputs
    PROVE  /\ g.providers \in [ASNs -> SUBSET ASNs]
           /\ g.customers \in [ASNs -> SUBSET ASNs]
           /\ g.peers \in [ASNs -> SUBSET ASNs]
           /\ \A a, b \in ASNs : b \in g.providers[a] <=> a \in g.customers[b]
           /\ \A a, b \in ASNs : b \in g.peers[a] <=> a \in g.peers[b]
           /\ \A a \in ASNs : a \notin g.providers[a] \union g.peers[a]
  BY ASGraphAssumption DEF ASGraphAssumption, Neighbours

\* The invariant holds when the tables have been read.
LEMMA TarjanStarts == Init => TarjanInv
<1> SUFFICES ASSUME Init
             PROVE  TarjanInv
  OBVIOUS
<1> USE DEF Init, NotVisited
<1>1. Numbered = {} /\ OnTheStack = {}
  BY DEF Numbered, OnTheStack, ToSet
<1>2. GraphKnown
  <2>1. ASSUME NEW a \in ases, NEW p \in input.providers[a]
        PROVE  p \in ases
    <3>1. p \in ASNs /\ a \in input.customers[p]
      BY InputType
    <3> QED
      BY <3>1
  <2> QED
    BY <2>1 DEF GraphKnown
<1>3. TarjanTypes
  BY <1>1 DEF TarjanTypes
<1>4. Numbering /\ StackOrder /\ Explored /\ StackReaches /\ LowIsReached /\ LowIsLowest
  BY <1>1 DEF Numbering, StackOrder, Explored, StackReaches, LowIsReached, LowIsLowest
<1>5. ComponentsFound
  BY <1>1 DEF ComponentsFound
<1> QED
  BY <1>2, <1>3, <1>4, <1>5 DEF TarjanInv

\* What remove_stubs removes has no customer, so it is nobody's provider.
LEMMA StubsAreNoProviders ==
    ASSUME TarjanInv, remove_stubs
    PROVE  TarjanInv'
<1> USE DEF TarjanInv
<1>1. /\ input \in Inputs /\ input' = input
      /\ step = "stubs" /\ step' = "tarjan"
      /\ ases \subseteq ASNs /\ ases' = non_stubs' /\ non_stubs' \subseteq ases
      /\ providers = input.providers /\ providers' = input.providers
      /\ customers = input.customers
      /\ \A a \in ases : input.providers[a] \subseteq ases
      /\ \A a \in ases \ non_stubs' : customers[a] = {}
      /\ UNCHANGED <<index, lowlink, stack, calls, components>>
  BY DEF remove_stubs, GraphKnown, tarjanVars, IsStub
<1>2. Numbered' = {} /\ stack = <<>> /\ calls = <<>> /\ components = <<>>
  BY <1>1 DEF TarjanTypes, Numbered
<1>3. GraphKnown'
  <2>1. ASSUME NEW a \in non_stubs', NEW p \in input.providers[a]
        PROVE  p \in non_stubs'
    <3>1. a \in ASNs /\ p \in ases /\ p \in ASNs
      BY <1>1
    <3>2. a \in customers[p]
      BY <1>1, <3>1, InputType
    <3> QED
      BY <1>1, <3>1, <3>2
  <2> QED
    BY <1>1, <2>1 DEF GraphKnown
<1>4. OnTheStack' = {}
  BY <1>1, <1>2 DEF OnTheStack, ToSet
<1>5. TarjanTypes'
  BY <1>1, <1>2 DEF TarjanTypes
<1>6. /\ Numbering' /\ StackOrder' /\ Explored' /\ StackReaches'
      /\ LowIsReached' /\ LowIsLowest' /\ ComponentsFound'
  BY <1>1, <1>2, <1>4 DEF Numbering, StackOrder, Explored, StackReaches, LowIsReached,
                          LowIsLowest, ComponentsFound
<1> QED
  BY <1>3, <1>5, <1>6

-----------------------------------------------------------------------------
(***************************************************************************)
(* The search.                                                             *)
(***************************************************************************)
Frames == [as : non_stubs, todo : SUBSET non_stubs]

\* The innermost call: its AS is on the stack, and is the last one entered.
LEMMA TopFrame ==
    ASSUME TarjanInv, calls # <<>>
    PROVE  /\ step = "tarjan"
           /\ Len(calls) \in Nat \ {0} /\ DOMAIN calls = 1..Len(calls)
           /\ Last(calls) = calls[Len(calls)]
           /\ Last(calls) \in Frames
           /\ Last(calls).as \in OnTheStack
           /\ \A i \in DOMAIN calls : /\ calls[i] \in Frames
                                      /\ index[calls[i].as] \in Int
                                      /\ index[calls[i].as] <= index[Last(calls).as]
<1> USE DEF TarjanInv
<1>1. step = "tarjan" /\ calls \in Seq(Frames)
  BY DEF TarjanTypes, Frames
<1>2. /\ Len(calls) \in Nat \ {0} /\ DOMAIN calls = 1..Len(calls)
      /\ Last(calls) = calls[Len(calls)]
      /\ Last(calls) \in Frames
  BY <1>1, FrontLast, LenProperties
<1>3. Last(calls).as \in OnTheStack
  BY <1>2 DEF StackOrder
<1>4. ASSUME NEW i \in DOMAIN calls
      PROVE  /\ calls[i] \in Frames
             /\ index[calls[i].as] \in Int
             /\ index[calls[i].as] <= index[Last(calls).as]
  <2>1. calls[i] \in Frames
    BY <1>1, <1>2, ElementOfSeq
  <2>2. calls[i].as \in ASNs /\ Last(calls).as \in ASNs
    BY <1>2, <2>1 DEF Frames, GraphKnown
  <2>3. index[calls[i].as] \in Int /\ index[Last(calls).as] \in Int
    BY <2>2 DEF TarjanTypes
  <2>4. CASE i = Len(calls)
    BY <1>2, <2>1, <2>3, <2>4
  <2>5. CASE i # Len(calls)
    <3>1. i < Len(calls) /\ Len(calls) \in DOMAIN calls
      BY <1>2, <2>5
    <3>2. index[calls[i].as] < index[calls[Len(calls)].as]
      BY <3>1 DEF StackOrder
    <3> QED
      BY <1>2, <2>1, <2>3, <3>2
  <2> QED
    BY <2>4, <2>5
<1> QED
  BY <1>1, <1>2, <1>3, <1>4

\* Without calls the stack is empty.
LEMMA NoCallsNoStack ==
    ASSUME TarjanInv, calls = <<>>
    PROVE  OnTheStack = {}
  BY DEF TarjanInv, StackReaches

\* The ASes with a number are finitely many, so the counter of Enter counts.
LEMMA Finite ==
    ASSUME TarjanInv
    PROVE  IsFiniteSet(Numbered) /\ Cardinality(Numbered) \in Nat
<1>1. IsFiniteSet(Numbered)
  BY ASGraphAssumption, FS_Subset DEF ASGraphAssumption, Numbered
<1> QED
  BY <1>1, FS_CardinalityType

\* A call begins, for an AS without a number: a provider of the AS of the
\* innermost call, or any if no call runs.  The frames below are those of the
\* state, but that the provider is not to be taken any more.
LEMMA EnterKeepsInv ==
    ASSUME TarjanInv, step = "tarjan",
           NEW n \in non_stubs, index[n] = NotVisited,
           NEW frames \in Seq(Frames), Len(frames) = Len(calls),
           \A i \in DOMAIN calls : /\ frames[i].as = calls[i].as
                                   /\ frames[i].todo \subseteq calls[i].todo
                                   /\ calls[i].todo \subseteq frames[i].todo \union {n},
           calls # <<>> => n \in input.providers[Last(calls).as],
           Enter(n, frames),
           UNCHANGED <<input, step, ases, providers, non_stubs, components>>
    PROVE  TarjanInv'
<1> USE DEF TarjanInv
<1> DEFINE counter == Cardinality(Numbered)
           L == Len(calls)
<1>1. /\ n \in ASNs /\ n \notin Numbered
      /\ index \in [ASNs -> Int] /\ lowlink \in [ASNs -> Int]
      /\ non_stubs \subseteq ASNs
      /\ providers = input.providers /\ input \in Inputs
      /\ input.providers[n] \subseteq non_stubs
  BY DEF GraphKnown, TarjanTypes, Numbered
<1>2. /\ index' = [index EXCEPT ![n] = counter]
      /\ lowlink' = [lowlink EXCEPT ![n] = counter]
      /\ stack' = Append(stack, n)
      /\ calls' = Append(frames, [as |-> n, todo |-> input.providers[n]])
  BY <1>1 DEF Enter, Numbered
<1>3. counter \in Nat /\ IsFiniteSet(Numbered)
  BY Finite
<1> HIDE DEF counter
<1>4. /\ index' \in [ASNs -> Int] /\ index'[n] = counter
      /\ lowlink' \in [ASNs -> Int] /\ lowlink'[n] = counter
      /\ \A a \in ASNs \ {n} : index'[a] = index[a] /\ lowlink'[a] = lowlink[a]
  BY <1>1, <1>2, <1>3
<1>5. Numbered' = Numbered \union {n} /\ Cardinality(Numbered') = counter + 1
  <2>1. Numbered' = Numbered \union {n}
    BY <1>1, <1>3, <1>4 DEF Numbered, NotVisited
  <2> QED
    BY <1>1, <1>3, <2>1, FS_AddElement DEF counter
<1>6. \A a \in Numbered : index'[a] = index[a] /\ index[a] \in Int /\ index[a] < counter
                          /\ index[a] >= 0
  BY <1>1, <1>3, <1>4 DEF Numbering, Numbered, counter
<1>7. stack' \in Seq(non_stubs) /\ OnTheStack' = OnTheStack \union {n}
      /\ Len(stack') = Len(stack) + 1 /\ Len(stack) \in Nat
      /\ DOMAIN stack = 1..Len(stack) /\ DOMAIN stack' = 1..(Len(stack) + 1)
      /\ stack'[Len(stack) + 1] = n /\ \A i \in 1..Len(stack) : stack'[i] = stack[i]
  BY <1>2, Appended, LenProperties DEF TarjanTypes, OnTheStack
<1>8. /\ calls' \in Seq(Frames) /\ Len(calls') = L + 1 /\ L \in Nat
      /\ DOMAIN calls = 1..L /\ DOMAIN calls' = 1..(L + 1)
      /\ calls'[L + 1] = [as |-> n, todo |-> input.providers[n]]
      /\ \A i \in 1..L : /\ calls'[i].as = calls[i].as
                         /\ calls'[i].todo \subseteq calls[i].todo
                         /\ calls[i].todo \subseteq calls'[i].todo \union {n}
  <2>1. [as |-> n, todo |-> input.providers[n]] \in Frames
    BY <1>1 DEF Frames
  <2>2. L \in Nat /\ DOMAIN calls = 1..L
    BY LenProperties DEF TarjanTypes
  <2>3. /\ calls' \in Seq(Frames) /\ Len(calls') = L + 1
        /\ calls'[L + 1] = [as |-> n, todo |-> input.providers[n]]
        /\ \A i \in 1..L : calls'[i] = frames[i]
    BY <1>2, <2>1, Appended
  <2>4. DOMAIN calls' = 1..(L + 1)
    BY <2>3, LenProperties
  <2> QED
    BY <2>2, <2>3, <2>4
<1>9. \A a \in Numbered : Taken(a)' \subseteq Taken(a) \union {n}
  <2> SUFFICES ASSUME NEW a \in Numbered, NEW p \in Taken(a)', p # n,
                      NEW i \in DOMAIN calls, calls[i].as = a
               PROVE  p \notin calls[i].todo
    BY DEF Taken
  <2>1. i \in DOMAIN calls' /\ calls'[i].as = a
    BY <1>8
  <2>2. p \notin calls'[i].todo
    BY <2>1 DEF Taken
  <2> QED
    BY <1>8, <2>2
<1>10. Taken(n)' = {}
  <2> SUFFICES ASSUME NEW p \in Taken(n)'
               PROVE  FALSE
    OBVIOUS
  <2>1. L + 1 \in DOMAIN calls' /\ calls'[L + 1].as = n /\ calls'[L + 1].todo = input.providers[n]
    BY <1>8
  <2> QED
    BY <2>1 DEF Taken
<1>11. \A a : Above(a)' = Above(a) /\ MutuallyAbove(a)' = MutuallyAbove(a)
  BY AboveStays
<1>12. OnTheStack \subseteq Numbered /\ n \notin OnTheStack
       /\ \A i \in 1..L : calls[i].as \in OnTheStack
  BY <1>1, <1>8 DEF StackOrder
<1> HIDE DEF L
<1>13. GraphKnown'
  BY DEF GraphKnown
<1>14. TarjanTypes'
  BY <1>4, <1>5, <1>7, <1>8 DEF TarjanTypes, Frames
<1>15. Numbering'
  BY <1>1, <1>3, <1>4, <1>5, <1>6 DEF Numbering, counter
<1>16. StackOrder'
  <2>1. OnTheStack' \subseteq Numbered'
    BY <1>5, <1>7, <1>12
  <2>2. ASSUME NEW i \in DOMAIN stack', NEW j \in DOMAIN stack', i < j
        PROVE  index'[stack'[i]] < index'[stack'[j]]
    <3>1. i \in 1..Len(stack) /\ stack'[i] = stack[i] /\ stack[i] \in OnTheStack
      BY <1>7, <2>2 DEF OnTheStack, ToSet
    <3>2. CASE j = Len(stack) + 1
      BY <1>4, <1>6, <1>7, <1>12, <3>1, <3>2
    <3>3. CASE j # Len(stack) + 1
      <4>1. j \in 1..Len(stack) /\ stack'[j] = stack[j] /\ stack[j] \in OnTheStack
        BY <1>7, <3>3 DEF OnTheStack, ToSet
      <4> QED
        BY <1>6, <1>7, <1>12, <2>2, <3>1, <4>1 DEF StackOrder
    <3> QED
      BY <3>2, <3>3
  <2>3. \A i \in DOMAIN calls' : calls'[i].as \in OnTheStack'
    BY <1>7, <1>8, <1>12
  <2>4. ASSUME NEW i \in DOMAIN calls', NEW j \in DOMAIN calls', i < j
        PROVE  index'[calls'[i].as] < index'[calls'[j].as]
    <3>1. i \in 1..L /\ calls'[i].as = calls[i].as /\ calls[i].as \in OnTheStack
      BY <1>8, <1>12, <2>4
    <3>2. CASE j = L + 1
      <4>1. calls'[j].as = n
        BY <1>8, <3>2
      <4>2. calls[i].as \in Numbered
        BY <1>12, <3>1
      <4> QED
        BY <1>4, <1>6, <3>1, <4>1, <4>2
    <3>3. CASE j # L + 1
      <4>1. j \in 1..L /\ calls'[j].as = calls[j].as /\ calls[j].as \in OnTheStack
        BY <1>8, <1>12, <3>3
      <4> QED
        BY <1>6, <1>8, <1>12, <2>4, <3>1, <4>1 DEF StackOrder
    <3> QED
      BY <3>2, <3>3
  <2> QED
    BY <2>1, <2>2, <2>3, <2>4 DEF StackOrder
<1>17. Explored'
  <2>1. ASSUME NEW i \in DOMAIN calls'
        PROVE  calls'[i].todo \subseteq input.providers[calls'[i].as]
    <3>1. CASE i = L + 1
      BY <1>8, <3>1
    <3>2. CASE i # L + 1
      BY <1>8, <3>2 DEF Explored
    <3> QED
      BY <3>1, <3>2
  <2> QED
    BY <1>5, <1>9, <1>10, <2>1 DEF Explored
<1>18. StackReaches'
  <2>1. ASSUME NEW a \in OnTheStack'
        PROVE  n \in Above(a)
    <3>1. CASE a = n
      BY <3>1, AboveItself
    <3>2. CASE a # n
      <4>1. a \in OnTheStack
        BY <1>7, <3>2
      <4>2. PICK i \in DOMAIN calls : index[calls[i].as] <= index[a] /\ calls[i].as \in Above(a)
        BY <4>1 DEF StackReaches
      <4>3. calls # <<>>
        BY <1>8, <4>2 DEF L
      <4>4. index[calls[i].as] <= index[Last(calls).as] /\ calls[i].as \in OnTheStack
            /\ Last(calls).as \in OnTheStack
        BY <1>8, <1>12, <4>2, <4>3, TopFrame
      <4>5. Last(calls).as \in Above(calls[i].as)
        BY <4>4 DEF StackReaches
      <4>6. Last(calls).as \in Above(a)
        BY <4>2, <4>5, AboveTransitive
      <4> QED
        BY <4>3, <4>6, AboveStep
    <3> QED
      BY <3>1, <3>2
  <2>2. ASSUME NEW a \in OnTheStack', NEW b \in OnTheStack', index'[a] <= index'[b]
        PROVE  b \in Above(a)
    <3>1. CASE b = n
      BY <2>1, <3>1
    <3>2. CASE b # n
      <4>1. b \in OnTheStack /\ b \in Numbered
        BY <1>7, <1>12, <3>2
      <4>2. a # n
        BY <1>3, <1>4, <1>6, <2>2, <4>1
      <4>3. a \in OnTheStack /\ a \in Numbered
        BY <1>7, <1>12, <4>2
      <4> QED
        BY <1>6, <2>2, <4>1, <4>3 DEF StackReaches
    <3> QED
      BY <3>1, <3>2
  <2>3. ASSUME NEW a \in OnTheStack'
        PROVE  \E i \in DOMAIN calls' : index'[calls'[i].as] <= index'[a]
                                        /\ calls'[i].as \in Above(a)
    <3>1. CASE a = n
      <4>1. L + 1 \in DOMAIN calls' /\ calls'[L + 1].as = n
        BY <1>8
      <4> QED
        BY <1>3, <1>4, <2>1, <3>1, <4>1
    <3>2. CASE a # n
      <4>1. a \in OnTheStack
        BY <1>7, <3>2
      <4>2. PICK i \in DOMAIN calls : index[calls[i].as] <= index[a] /\ calls[i].as \in Above(a)
        BY <4>1 DEF StackReaches
      <4>3. i \in DOMAIN calls' /\ calls'[i].as = calls[i].as /\ calls[i].as \in Numbered
            /\ a \in Numbered
        BY <1>8, <1>12, <4>1, <4>2
      <4> QED
        BY <1>6, <4>2, <4>3
    <3> QED
      BY <3>1, <3>2
  <2> QED
    BY <1>11, <2>2, <2>3 DEF StackReaches
<1>19. LowIsReached'
  <2> SUFFICES ASSUME NEW i \in DOMAIN calls'
               PROVE  /\ lowlink'[calls'[i].as] <= index'[calls'[i].as]
                      /\ \E b \in OnTheStack' : b \in Above(calls'[i].as)
                                                /\ index'[b] = lowlink'[calls'[i].as]
    BY <1>11 DEF LowIsReached
  <2>1. CASE i = L + 1
    <3>1. calls'[i].as = n
      BY <1>8, <2>1
    <3> QED
      BY <1>3, <1>4, <1>7, <3>1, AboveItself
  <2>2. CASE i # L + 1
    <3>1. i \in DOMAIN calls /\ calls'[i].as = calls[i].as /\ calls[i].as \in Numbered
      BY <1>8, <1>12, <2>2
    <3>2. lowlink'[calls[i].as] = lowlink[calls[i].as]
      BY <1>1, <1>4, <3>1 DEF Numbered
    <3>3. PICK b \in OnTheStack : b \in Above(calls[i].as) /\ index[b] = lowlink[calls[i].as]
      BY <3>1 DEF LowIsReached
    <3>4. b \in OnTheStack' /\ index'[b] = index[b]
      BY <1>6, <1>7, <1>12, <3>3
    <3> QED
      BY <1>6, <3>1, <3>2, <3>3, <3>4 DEF LowIsReached
  <2> QED
    BY <2>1, <2>2
<1>20. LowIsLowest'
  <2> SUFFICES ASSUME NEW i \in DOMAIN calls', NEW a \in Segment(i)',
                      NEW p \in Taken(a)', p \in OnTheStack'
               PROVE  lowlink'[calls'[i].as] <= index'[p]
    BY DEF LowIsLowest
  <2>1. a # n /\ a \in OnTheStack /\ a \in Numbered
    BY <1>7, <1>10, <1>12 DEF Segment
  <2>2. i # L + 1
    <3>1. index'[calls'[i].as] <= index'[a]
      BY DEF Segment
    <3>2. ASSUME i = L + 1
          PROVE  calls'[i].as = n
      BY <1>8, <3>2
    <3>3. index'[a] < counter /\ index'[a] \in Int
      BY <1>6, <2>1
    <3> QED
      BY <1>3, <1>4, <3>1, <3>2, <3>3
  <2>3. /\ i \in DOMAIN calls /\ calls'[i].as = calls[i].as
        /\ calls[i].as \in Numbered /\ calls[i].as \in ASNs \ {n}
    BY <1>1, <1>8, <1>12, <2>2 DEF Numbered
  <2>4. lowlink'[calls'[i].as] = lowlink[calls[i].as]
    BY <1>4, <2>3
  <2>5. CASE p = n
    <3>1. lowlink[calls[i].as] <= index[calls[i].as] /\ lowlink[calls[i].as] \in Int
      BY <1>1, <2>3 DEF LowIsReached
    <3> QED
      BY <1>3, <1>4, <1>6, <2>3, <2>4, <2>5, <3>1
  <2>6. CASE p # n
    <3>1. p \in OnTheStack /\ p \in Taken(a) /\ index'[p] = index[p]
      BY <1>6, <1>7, <1>9, <1>12, <2>1, <2>6
    <3>2. a \in Segment(i)
      <4>1. index[calls[i].as] <= index[a]
        BY <1>6, <2>1, <2>3 DEF Segment
      <4>2. ASSUME i < Len(calls)
            PROVE  index[a] < index[calls[i + 1].as]
        <5>1. i + 1 \in 1..L /\ i < Len(calls')
          BY <1>8, <2>3, <4>2 DEF L
        <5>2. calls'[i + 1].as = calls[i + 1].as /\ calls[i + 1].as \in Numbered
          BY <1>8, <1>12, <5>1
        <5>3. index'[a] < index'[calls'[i + 1].as]
          BY <5>1 DEF Segment
        <5> QED
          BY <1>6, <2>1, <5>2, <5>3
      <4> QED
        BY <2>1, <4>1, <4>2 DEF Segment
    <3> QED
      BY <2>3, <2>4, <3>1, <3>2 DEF LowIsLowest
  <2> QED
    BY <2>5, <2>6
<1>21. ComponentsFound'
  <2>1. Numbered' \ OnTheStack' = Numbered \ OnTheStack
    BY <1>1, <1>5, <1>7
  <2> QED
    BY <1>11, <2>1 DEF ComponentsFound, Members
<1> QED
  BY <1>13, <1>14, <1>15, <1>16, <1>17, <1>18, <1>19, <1>20, <1>21

\* The next AS of the map that has no number is entered.
LEMMA NextKeepsInv ==
    ASSUME TarjanInv, TarjanNext
    PROVE  TarjanInv'
<1> USE DEF TarjanInv
<1>1. PICK n \in ases : index[n] = NotVisited /\ Enter(n, <<>>)
  BY DEF TarjanNext
<1>2. step = "tarjan" /\ calls = <<>> /\ n \in non_stubs
      /\ UNCHANGED <<input, step, ases, providers, non_stubs, components>>
  BY DEF TarjanNext, GraphKnown, edges, stubVars
<1>3. <<>> \in Seq(Frames) /\ Len(<<>>) = Len(calls) /\ DOMAIN calls = {}
  BY <1>2
<1> QED
  BY <1>1, <1>2, <1>3, EnterKeepsInv

\* The innermost call takes the next provider.
LEMMA NeighborKeepsInv ==
    ASSUME TarjanInv, TarjanNeighbor
    PROVE  TarjanInv'
<1> USE DEF TarjanInv
<1>0. PICK c, n, frames, L :
          /\ c = Last(calls).as /\ n = Min(Last(calls).todo) /\ L = Len(calls)
          /\ frames = Append(Front(calls), [as |-> c, todo |-> Last(calls).todo \ {n}])
  OBVIOUS
<1>1. /\ calls # <<>> /\ Last(calls).todo # {}
      /\ UNCHANGED <<input, step, ases, providers, non_stubs, components>>
  BY DEF TarjanNeighbor, edges, stubVars
<1>2. /\ n \in non_stubs
      /\ n \in input.providers[c]
      /\ frames \in Seq(Frames) /\ Len(frames) = L
      /\ \A i \in DOMAIN calls : /\ frames[i].as = calls[i].as
                                 /\ frames[i].todo \subseteq calls[i].todo
                                 /\ calls[i].todo \subseteq frames[i].todo \union {n}
      /\ \A i \in DOMAIN calls : i # L => frames[i] = calls[i]
  <2>1. /\ Len(calls) \in Nat \ {0} /\ DOMAIN calls = 1..Len(calls)
        /\ Last(calls) = calls[Len(calls)] /\ Last(calls) \in Frames
    BY <1>0, <1>1, TopFrame
  <2>2. Last(calls).todo \in SUBSET Nat
    BY <1>0, <2>1, ASGraphAssumption DEF ASGraphAssumption, Frames, GraphKnown
  <2>3. n \in Last(calls).todo
    BY <1>0, <1>1, <2>2, MinIsSmallest
  <2>4. n \in non_stubs /\ n \in input.providers[Last(calls).as]
    BY <1>0, <2>1, <2>3 DEF Frames, Explored
  <2>5. [as |-> c, todo |-> Last(calls).todo \ {n}] \in Frames
    BY <1>0, <2>1 DEF Frames
  <2>6. /\ frames \in Seq(Frames) /\ Len(frames) = Len(calls)
        /\ \A i \in 1..(Len(calls) - 1) : frames[i] = calls[i]
        /\ frames[Len(calls)] = [as |-> c, todo |-> Last(calls).todo \ {n}]
    <3>1. calls \in Seq(Frames)
      BY DEF TarjanTypes, Frames
    <3> QED
      BY <1>0, <1>1, <2>5, <3>1, ReplacedLast
  <2>7. ASSUME NEW i \in DOMAIN calls
        PROVE  /\ frames[i].as = calls[i].as
               /\ frames[i].todo \subseteq calls[i].todo
               /\ calls[i].todo \subseteq frames[i].todo \union {n}
    <3>1. CASE i = Len(calls)
      BY <1>0, <2>1, <2>6, <3>1
    <3>2. CASE i # Len(calls)
      BY <1>0, <2>1, <2>6, <3>2
    <3> QED
      BY <3>1, <3>2
  <2>8. \A i \in DOMAIN calls : i # Len(calls) => frames[i] = calls[i]
    BY <1>0, <2>1, <2>6
  <2> QED
    BY <1>0, <2>3, <2>4, <2>6, <2>7, <2>8
<1>3. /\ step = "tarjan"
      /\ L \in Nat \ {0} /\ DOMAIN calls = 1..L
      /\ c = calls[L].as /\ c \in OnTheStack /\ c \in non_stubs
      /\ \A i \in DOMAIN calls : /\ calls[i].as \in non_stubs
                                 /\ index[calls[i].as] \in Int
                                 /\ index[calls[i].as] <= index[c]
  BY <1>0, <1>1, TopFrame DEF Frames
<1>4. CASE index[n] = NotVisited
  <2>1. Enter(n, frames)
    BY <1>0, <1>4 DEF TarjanNeighbor
  <2> QED
    <3>1. /\ step = "tarjan" /\ Len(frames) = Len(calls) /\ frames \in Seq(Frames)
          /\ n \in non_stubs /\ n \in input.providers[Last(calls).as]
          /\ \A i \in DOMAIN calls : /\ frames[i].as = calls[i].as
                                     /\ frames[i].todo \subseteq calls[i].todo
                                     /\ calls[i].todo \subseteq frames[i].todo \union {n}
      BY <1>0, <1>2, <1>3
    <3> HIDE DEF TarjanInv
    <3> QED
      BY <1>1, <1>4, <2>1, <3>1, EnterKeepsInv
<1>5. CASE index[n] # NotVisited
  <2>1. /\ calls' = frames
        /\ lowlink' = IF OnStack(n) THEN [lowlink EXCEPT ![c] = Min({@, index[n]})]
                      ELSE lowlink
        /\ UNCHANGED <<index, stack>>
    BY <1>0, <1>5 DEF TarjanNeighbor
  <2>2. n \in Numbered /\ n \in ASNs /\ index[n] \in Int /\ c \in ASNs
        /\ lowlink \in [ASNs -> Int] /\ index \in [ASNs -> Int] /\ non_stubs \subseteq ASNs
    BY <1>2, <1>3, <1>5 DEF Numbered, GraphKnown, TarjanTypes
  <2>0. lowlink[c] \in Int /\ index[c] \in Int
    BY <2>2
  <2>3. OnStack(n) <=> n \in OnTheStack
    BY DEF OnStack, OnTheStack, ToSet
  <2>4. /\ Numbered' = Numbered /\ OnTheStack' = OnTheStack
        /\ \A a : Above(a)' = Above(a) /\ MutuallyAbove(a)' = MutuallyAbove(a)
    BY <1>1, <2>1, AboveStays DEF Numbered, OnTheStack
  <2>5. /\ calls' \in Seq(Frames) /\ Len(calls') = L /\ DOMAIN calls' = DOMAIN calls
        /\ \A i \in DOMAIN calls : calls'[i].as = calls[i].as
    BY <1>2, <1>3, <2>1, LenProperties
  <2>6. \A a : Taken(a)' \subseteq Taken(a) \union {n}
    BY <1>1, <1>2, <2>1, <2>5 DEF Taken
  <2>7. \A a : a # c => Taken(a)' \subseteq Taken(a)
    <3> SUFFICES ASSUME NEW a, a # c, NEW p \in Taken(a)', NEW i \in DOMAIN calls,
                        calls[i].as = a
                 PROVE  p \notin calls[i].todo
      BY <1>1 DEF Taken
    <3>1. i # L
      BY <1>3
    <3>2. calls'[i] = calls[i]
      BY <1>2, <2>1, <3>1
    <3> QED
      BY <2>5, <3>2 DEF Taken
  <2>8. /\ lowlink' \in [ASNs -> Int]
        /\ \A a \in ASNs \ {c} : lowlink'[a] = lowlink[a]
        /\ lowlink'[c] \in {lowlink[c], index[n]}
        /\ lowlink'[c] <= lowlink[c]
        /\ n \in OnTheStack => lowlink'[c] <= index[n]
        /\ n \notin OnTheStack => lowlink'[c] = lowlink[c]
    <3>1. /\ Min({lowlink[c], index[n]}) \in {lowlink[c], index[n]}
          /\ Min({lowlink[c], index[n]}) <= lowlink[c]
          /\ Min({lowlink[c], index[n]}) <= index[n]
      BY <2>2, MinOfTwo
    <3>2. CASE OnStack(n)
      <4>1. lowlink' = [lowlink EXCEPT ![c] = Min({lowlink[c], index[n]})]
        BY <2>1, <3>2
      <4>2. Min({lowlink[c], index[n]}) \in Int
        BY <2>2, <3>1
      <4> QED
        BY <2>2, <2>3, <3>1, <3>2, <4>1, <4>2
    <3>3. CASE ~ OnStack(n)
      <4>1. lowlink' = lowlink /\ n \notin OnTheStack
        BY <2>1, <2>3, <3>3
      <4> HIDE DEF TarjanInv
      <4> QED
        BY <2>0, <2>2, <4>1
    <3> QED
      BY <3>2, <3>3
  <2>9. \A i \in DOMAIN calls : calls[i].as \in OnTheStack
    BY DEF StackOrder
  <2>10. GraphKnown'
    BY <1>1, <1>3 DEF GraphKnown
  <2>11. TarjanTypes'
    BY <1>1, <1>3, <2>1, <2>4, <2>5, <2>8 DEF TarjanTypes, Frames
  <2>12. Numbering'
    BY <1>1, <2>1, <2>4 DEF Numbering
  <2>13. StackOrder'
    BY <2>1, <2>4, <2>5 DEF StackOrder
  <2>14. Explored'
    <3>1. \A i \in DOMAIN calls : calls'[i].todo \subseteq calls[i].todo
      BY <1>2, <2>1
    <3> QED
      BY <1>1, <2>2, <2>4, <2>5, <2>6, <3>1 DEF Explored
  <2>15. StackReaches'
    BY <2>1, <2>4, <2>5 DEF StackReaches
  <2>16. LowIsReached'
    <3> SUFFICES ASSUME NEW i \in DOMAIN calls'
                 PROVE  /\ lowlink'[calls'[i].as] <= index'[calls'[i].as]
                        /\ \E b \in OnTheStack' : b \in Above(calls'[i].as)
                                                  /\ index'[b] = lowlink'[calls'[i].as]
      BY <2>4 DEF LowIsReached
    <3>0. /\ i \in DOMAIN calls /\ calls'[i].as = calls[i].as /\ calls[i].as \in ASNs
          /\ index' = index
      BY <1>3, <2>1, <2>2, <2>5
    <3>1. /\ lowlink[calls[i].as] <= index[calls[i].as]
          /\ lowlink[calls[i].as] \in Int /\ index[calls[i].as] \in Int
      BY <1>3, <2>2, <3>0 DEF LowIsReached
    <3>2. PICK b \in OnTheStack : b \in Above(calls[i].as) /\ index[b] = lowlink[calls[i].as]
      BY <3>0 DEF LowIsReached
    <3>3. CASE lowlink'[calls[i].as] = lowlink[calls[i].as]
      BY <2>4, <3>0, <3>1, <3>2, <3>3
    <3>4. CASE lowlink'[calls[i].as] # lowlink[calls[i].as]
      <4>1. calls[i].as = c /\ n \in OnTheStack /\ lowlink'[c] = index[n]
        BY <2>8, <3>0, <3>4
      <4>2. n \in Above(c)
        BY <1>2, <1>3, AboveItself, AboveStep
      <4>3. lowlink'[c] <= index[c]
        <5>1. lowlink[c] <= index[c] /\ lowlink'[c] <= lowlink[c] /\ lowlink'[c] \in Int
          BY <2>2, <2>8, <3>1, <4>1
        <5> HIDE DEF TarjanInv
        <5> QED
          BY <2>0, <5>1
      <4> QED
        BY <2>4, <3>0, <4>1, <4>2, <4>3
    <3> QED
      BY <3>3, <3>4
  <2>17. LowIsLowest'
    <3> SUFFICES ASSUME NEW i \in DOMAIN calls', NEW a \in Segment(i)',
                        NEW p \in Taken(a)', p \in OnTheStack'
                 PROVE  lowlink'[calls'[i].as] <= index'[p]
      BY DEF LowIsLowest
    <3>0. /\ i \in DOMAIN calls /\ p \in OnTheStack
          /\ calls'[i].as = calls[i].as /\ index'[p] = index[p]
      BY <2>1, <2>4, <2>5
    <3>1. a \in Segment(i)
      <4>1. a \in OnTheStack /\ index[calls[i].as] <= index[a]
        BY <2>1, <2>4, <3>0 DEF Segment
      <4>2. ASSUME i < Len(calls)
            PROVE  index[a] < index[calls[i + 1].as]
        <5>1. i + 1 \in DOMAIN calls /\ i < Len(calls')
          BY <1>3, <2>5, <3>0, <4>2
        <5>2. index'[a] < index'[calls'[i + 1].as]
          BY <5>1 DEF Segment
        <5> QED
          BY <2>1, <2>5, <5>1, <5>2
      <4> QED
        BY <4>1, <4>2 DEF Segment
    <3>2. /\ lowlink'[calls[i].as] <= lowlink[calls[i].as]
          /\ lowlink'[calls[i].as] \in Int /\ lowlink[calls[i].as] \in Int
          /\ index[p] \in Int
      <4>1. p \in ASNs /\ calls[i].as \in ASNs
        BY <1>3, <2>2, <3>0 DEF StackOrder, Numbered
      <4>2. lowlink[calls[i].as] \in Int /\ lowlink'[calls[i].as] \in Int /\ index[p] \in Int
        BY <2>2, <2>8, <4>1
      <4>3. CASE calls[i].as = c
        BY <2>8, <4>2, <4>3
      <4>4. CASE calls[i].as # c
        <5>1. lowlink'[calls[i].as] = lowlink[calls[i].as]
          BY <2>8, <4>1, <4>4
        <5> QED
          BY <4>2, <5>1
      <4> QED
        BY <4>2, <4>3, <4>4
    <3>3. CASE p \in Taken(a)
      <4>1. lowlink[calls[i].as] <= index[p]
        BY <3>0, <3>1, <3>3 DEF LowIsLowest
      <4> QED
        BY <3>0, <3>2, <4>1
    <3>4. CASE p \notin Taken(a)
      <4>1. a = c /\ p = n
        BY <2>6, <2>7, <3>4
      <4>2. i = L
        <5> SUFFICES ASSUME i # L
                     PROVE  FALSE
          OBVIOUS
        <5>1. i < Len(calls) /\ i + 1 \in DOMAIN calls
          BY <1>3, <3>0
        <5>2. index[c] < index[calls[i + 1].as]
          BY <3>1, <4>1, <5>1 DEF Segment
        <5> QED
          BY <1>3, <2>2, <5>1, <5>2
      <4> QED
        BY <1>3, <2>8, <3>0, <4>1, <4>2
    <3> QED
      BY <3>3, <3>4
  <2>18. ComponentsFound'
    BY <1>1, <2>4 DEF ComponentsFound, Members
  <2> QED
    BY <2>10, <2>11, <2>12, <2>13, <2>14, <2>15, <2>16, <2>17, <2>18
<1> QED
  BY <1>4, <1>5

\* A call returns; its frame has no providers left to take.
LEMMA ReturnFrames ==
    ASSUME TarjanInv, calls # <<>>, Last(calls).todo = {}, calls' = Front(calls),
           UNCHANGED <<input, non_stubs, index>>
    PROVE  /\ calls' \in Seq(Frames) /\ DOMAIN calls' = 1..(Len(calls) - 1)
           /\ Len(calls') = Len(calls) - 1
           /\ \A i \in DOMAIN calls' : /\ i \in DOMAIN calls /\ i < Len(calls)
                                       /\ calls'[i] = calls[i]
                                       /\ index[calls[i].as] < index[Last(calls).as]
           /\ \A a : Taken(a)' = Taken(a)
           /\ Numbered' = Numbered
           /\ \A a : Above(a)' = Above(a) /\ MutuallyAbove(a)' = MutuallyAbove(a)
<1>1. /\ Len(calls) \in Nat \ {0} /\ DOMAIN calls = 1..Len(calls)
      /\ Last(calls) = calls[Len(calls)]
  BY TopFrame
<1>2. calls \in Seq(Frames)
  BY DEF TarjanInv, TarjanTypes, Frames
<1>3. /\ calls' \in Seq(Frames) /\ Len(calls') = Len(calls) - 1
      /\ \A i \in 1..(Len(calls) - 1) : calls'[i] = calls[i]
  BY <1>2, FrontLast
<1>4. DOMAIN calls' = 1..(Len(calls) - 1)
  BY <1>3, LenProperties
<1>5. ASSUME NEW i \in DOMAIN calls'
      PROVE  /\ i \in DOMAIN calls /\ i < Len(calls) /\ calls'[i] = calls[i]
             /\ index[calls[i].as] < index[Last(calls).as]
  <2>1. i \in DOMAIN calls /\ i < Len(calls) /\ Len(calls) \in DOMAIN calls
    BY <1>1, <1>4
  <2> QED
    BY <1>1, <1>3, <1>4, <2>1 DEF TarjanInv, StackOrder
<1>6. ASSUME NEW a
      PROVE  Taken(a)' = Taken(a)
  <2>1. ASSUME NEW p \in Taken(a)', NEW i \in DOMAIN calls, calls[i].as = a
        PROVE  p \notin calls[i].todo
    <3>1. CASE i = Len(calls)
      BY <1>1, <3>1
    <3>2. CASE i # Len(calls)
      <4>1. i \in DOMAIN calls'
        BY <1>1, <1>4, <3>2
      <4> QED
        BY <1>5, <2>1, <4>1 DEF Taken
    <3> QED
      BY <3>1, <3>2
  <2>2. ASSUME NEW p \in Taken(a), NEW i \in DOMAIN calls', calls'[i].as = a
        PROVE  p \notin calls'[i].todo
    BY <1>5, <2>2 DEF Taken
  <2> QED
    BY <2>1, <2>2 DEF Taken
<1>7. Numbered' = Numbered
  BY DEF Numbered
<1>8. \A a : Above(a)' = Above(a) /\ MutuallyAbove(a)' = MutuallyAbove(a)
  BY AboveStays
<1> QED
  BY <1>3, <1>4, <1>5, <1>6, <1>7, <1>8

\* The call that returns found a way down to one of its callers, which will
\* find it from there.
LEMMA InnerReturns ==
    ASSUME TarjanInv, TarjanReturn, lowlink[Last(calls).as] # index[Last(calls).as]
    PROVE  TarjanInv'
<1>0. PICK c, L : c = Last(calls).as /\ L = Len(calls)
  OBVIOUS
<1>1. /\ calls # <<>> /\ Last(calls).todo = {} /\ calls' = Front(calls)
      /\ lowlink' = IF Front(calls) = <<>> THEN lowlink
                    ELSE [lowlink EXCEPT ![Last(Front(calls)).as] = Min({@, lowlink[c]})]
      /\ UNCHANGED <<input, step, ases, providers, non_stubs, index, stack, components>>
  BY <1>0 DEF TarjanReturn, edges, stubVars
<1>2. /\ step = "tarjan" /\ L \in Nat \ {0} /\ DOMAIN calls = 1..L
      /\ c = calls[L].as /\ c \in OnTheStack /\ c \in non_stubs
      /\ \A i \in DOMAIN calls : calls[i].as \in non_stubs /\ index[calls[i].as] \in Int
  BY <1>0, <1>1, TopFrame DEF Frames
<1>3. /\ calls' \in Seq(Frames) /\ DOMAIN calls' = 1..(L - 1) /\ Len(calls') = L - 1
      /\ \A i \in DOMAIN calls' : /\ i \in DOMAIN calls /\ i < L /\ calls'[i] = calls[i]
                                  /\ index[calls[i].as] < index[c]
      /\ \A a : Taken(a)' = Taken(a)
      /\ Numbered' = Numbered /\ OnTheStack' = OnTheStack
      /\ \A a : Above(a)' = Above(a) /\ MutuallyAbove(a)' = MutuallyAbove(a)
  BY <1>0, <1>1, ReturnFrames DEF OnTheStack
<1>4. /\ index \in [ASNs -> Int] /\ lowlink \in [ASNs -> Int] /\ non_stubs \subseteq ASNs
      /\ OnTheStack \subseteq ASNs
      /\ \A i \in DOMAIN calls : calls[i].as \in OnTheStack /\ calls[i].as \in ASNs
  BY <1>2 DEF TarjanInv, TarjanTypes, GraphKnown, StackOrder, Numbered
<1>5. PICK b \in OnTheStack : b \in Above(c) /\ index[b] = lowlink[c] /\ index[b] < index[c]
  <2>1. PICK b \in OnTheStack : b \in Above(c) /\ index[b] = lowlink[c]
    BY <1>2 DEF TarjanInv, LowIsReached
  <2>2. index[b] <= index[c] /\ index[b] # index[c] /\ index[b] \in Int /\ index[c] \in Int
    BY <1>0, <1>2, <1>4, <2>1 DEF TarjanInv, LowIsReached
  <2> QED
    BY <2>1, <2>2
<1>6. PICK j \in DOMAIN calls : index[calls[j].as] <= index[b] /\ calls[j].as \in Above(b)
  BY <1>5 DEF TarjanInv, StackReaches
<1>7. j \in DOMAIN calls' /\ index[calls[j].as] < index[c] /\ calls[j].as \in Above(c)
  <2>1. index[calls[j].as] < index[c]
    BY <1>2, <1>4, <1>5, <1>6
  <2>2. j # L
    BY <1>2, <2>1
  <2> QED
    BY <1>2, <1>3, <1>5, <1>6, <2>1, <2>2, AboveTransitive
<1>8. PICK e : /\ L - 1 \in DOMAIN calls' /\ e = calls[L - 1].as
               /\ e \in OnTheStack /\ e \in ASNs /\ index[e] < index[c]
               /\ lowlink' = [lowlink EXCEPT ![e] = Min({lowlink[e], lowlink[c]})]
  <2>1. L - 1 \in DOMAIN calls' /\ calls' # <<>>
    BY <1>2, <1>3, <1>7, EmptySeq
  <2>2. Last(calls') = calls'[L - 1]
    BY <1>3, <2>1, FrontLast
  <2> QED
    BY <1>1, <1>3, <1>4, <2>1, <2>2
<1>9. /\ lowlink' \in [ASNs -> Int]
      /\ \A a \in ASNs \ {e} : lowlink'[a] = lowlink[a]
      /\ lowlink'[e] \in {lowlink[e], lowlink[c]}
      /\ lowlink'[e] <= lowlink[e] /\ lowlink'[e] <= lowlink[c]
  <2>1. lowlink[e] \in Int /\ lowlink[c] \in Int
    BY <1>2, <1>4, <1>8
  <2>2. /\ Min({lowlink[e], lowlink[c]}) \in {lowlink[e], lowlink[c]}
        /\ Min({lowlink[e], lowlink[c]}) <= lowlink[e]
        /\ Min({lowlink[e], lowlink[c]}) <= lowlink[c]
    BY <2>1, MinOfTwo
  <2>3. Min({lowlink[e], lowlink[c]}) \in Int
    BY <2>1, <2>2
  <2> QED
    BY <1>4, <1>8, <2>2, <2>3
<1>10. GraphKnown'
  BY <1>1, <1>2 DEF TarjanInv, GraphKnown
<1>11. TarjanTypes'
  BY <1>1, <1>2, <1>3, <1>9 DEF TarjanInv, TarjanTypes, Frames
<1>12. Numbering'
  BY <1>1, <1>3 DEF TarjanInv, Numbering
<1>13. StackOrder'
  BY <1>1, <1>3 DEF TarjanInv, StackOrder
<1>14. Explored'
  BY <1>1, <1>3 DEF TarjanInv, Explored
<1>15. StackReaches'
  <2>1. ASSUME NEW a \in OnTheStack
        PROVE  \E i \in DOMAIN calls' : index[calls[i].as] <= index[a] /\ calls[i].as \in Above(a)
    <3>1. PICK i \in DOMAIN calls : index[calls[i].as] <= index[a] /\ calls[i].as \in Above(a)
      BY DEF TarjanInv, StackReaches
    <3>2. CASE i = L
      <4>1. calls[j].as \in Above(a)
        BY <1>2, <1>7, <3>1, <3>2, AboveTransitive
      <4>2. index[calls[j].as] <= index[a]
        BY <1>2, <1>4, <1>7, <3>1, <3>2
      <4> QED
        BY <1>7, <4>1, <4>2
    <3>3. CASE i # L
      BY <1>2, <1>3, <3>1, <3>3
    <3> QED
      BY <3>2, <3>3
  <2> QED
    BY <1>1, <1>3, <2>1 DEF TarjanInv, StackReaches
<1>16. LowIsReached'
  <2> SUFFICES ASSUME NEW i \in DOMAIN calls'
               PROVE  /\ lowlink'[calls[i].as] <= index[calls[i].as]
                      /\ \E d \in OnTheStack : d \in Above(calls[i].as)
                                               /\ index[d] = lowlink'[calls[i].as]
    <3> SUFFICES ASSUME NEW k \in DOMAIN calls'
                 PROVE  /\ lowlink'[calls'[k].as] <= index'[calls'[k].as]
                        /\ \E d \in OnTheStack' : d \in Above(calls'[k].as)
                                                  /\ index'[d] = lowlink'[calls'[k].as]
      BY <1>3 DEF LowIsReached
    <3>1. calls'[k] = calls[k] /\ index' = index /\ OnTheStack' = OnTheStack
      BY <1>1, <1>3
    <3> QED
      BY <3>1
  <2>1. /\ i \in DOMAIN calls /\ lowlink[calls[i].as] <= index[calls[i].as]
        /\ calls[i].as \in ASNs /\ calls[i].as \in OnTheStack
    BY <1>3, <1>4 DEF TarjanInv, LowIsReached
  <2>2. CASE lowlink'[calls[i].as] = lowlink[calls[i].as]
    BY <2>1, <2>2 DEF TarjanInv, LowIsReached
  <2>3. CASE lowlink'[calls[i].as] # lowlink[calls[i].as]
    <3>1. calls[i].as = e /\ lowlink'[e] = lowlink[c]
      BY <1>9, <2>1, <2>3
    <3>2. c \in Above(e)
      BY <1>2, <1>4, <1>8 DEF TarjanInv, StackReaches
    <3>3. b \in Above(e)
      BY <1>5, <3>2, AboveTransitive
    <3>4. lowlink'[e] <= index[e]
      <4>1. lowlink'[e] \in Int /\ lowlink[e] \in Int /\ index[e] \in Int
        BY <1>4, <1>8, <1>9
      <4> QED
        BY <1>9, <2>1, <3>1, <4>1
    <3> QED
      BY <1>5, <3>1, <3>3, <3>4
  <2> QED
    BY <2>2, <2>3
<1>17. LowIsLowest'
  <2> SUFFICES ASSUME NEW i \in DOMAIN calls', NEW a \in Segment(i)',
                      NEW p \in Taken(a), p \in OnTheStack
               PROVE  lowlink'[calls[i].as] <= index[p]
    BY <1>1, <1>3 DEF LowIsLowest
  <2>1. /\ i \in DOMAIN calls /\ i < L /\ i \in Nat /\ calls[i].as \in ASNs
        /\ a \in OnTheStack /\ index[calls[i].as] <= index[a]
        /\ i < L - 1 => index[a] < index[calls'[i + 1].as]
    BY <1>1, <1>2, <1>3, <1>4 DEF Segment
  <2>2. /\ lowlink[calls[i].as] \in Int /\ lowlink'[calls[i].as] \in Int
        /\ index[a] \in Int /\ index[c] \in Int /\ index[p] \in Int /\ lowlink[c] \in Int
        /\ lowlink'[calls[i].as] <= lowlink[calls[i].as]
    <3>1. /\ lowlink[calls[i].as] \in Int /\ lowlink'[calls[i].as] \in Int
          /\ index[a] \in Int /\ index[c] \in Int /\ index[p] \in Int /\ lowlink[c] \in Int
      BY <1>2, <1>4, <1>9, <2>1
    <3>2. lowlink'[calls[i].as] <= lowlink[calls[i].as]
      <4>1. CASE calls[i].as = e
        BY <1>9, <4>1
      <4>2. CASE calls[i].as # e
        <5>1. lowlink'[calls[i].as] = lowlink[calls[i].as]
          BY <1>9, <2>1, <4>2
        <5> QED
          BY <3>1, <5>1
      <4> QED
        BY <4>1, <4>2
    <3> QED
      BY <3>1, <3>2
  <2>3. CASE a \in Segment(i)
    <3>1. lowlink[calls[i].as] <= index[p]
      BY <2>1, <2>3 DEF TarjanInv, LowIsLowest
    <3> QED
      BY <2>2, <3>1
  <2>4. CASE a \notin Segment(i)
    <3>1. i = L - 1
      <4>1. SUFFICES ASSUME i # L - 1
                     PROVE  FALSE
        OBVIOUS
      <4>2. i < L - 1 /\ i + 1 \in DOMAIN calls'
        BY <1>2, <1>3, <2>1, <4>1
      <4>3. index[a] < index[calls[i + 1].as]
        BY <1>3, <2>1, <4>2
      <4> QED
        BY <2>1, <2>4, <4>3 DEF Segment
    <3>2. ~ (index[a] < index[c])
      BY <1>0, <1>2, <2>1, <2>4, <3>1 DEF Segment
    <3>3. a \in Segment(L)
      BY <1>0, <1>2, <2>1, <2>2, <3>2 DEF Segment
    <3>4. lowlink[c] <= index[p]
      BY <1>2, <3>3 DEF TarjanInv, LowIsLowest
    <3> QED
      BY <1>8, <1>9, <2>2, <3>1, <3>4
  <2> QED
    BY <2>3, <2>4
<1>18. ComponentsFound'
  BY <1>1, <1>3 DEF TarjanInv, ComponentsFound, Members
<1> QED
  BY <1>10, <1>11, <1>12, <1>13, <1>14, <1>15, <1>16, <1>17, <1>18 DEF TarjanInv

\* What left the stack leads nowhere else.
LEMMA FinishedIsClosed ==
    ASSUME TarjanInv
    PROVE  /\ Numbered \ OnTheStack \subseteq non_stubs
           /\ ClosedUpward(Numbered \ OnTheStack)
<1>1. Numbered \ OnTheStack \subseteq non_stubs
  BY DEF TarjanInv, Numbering
<1>2. ASSUME NEW a \in Numbered \ OnTheStack, NEW p \in input.providers[a]
      PROVE  p \in Numbered \ OnTheStack
  <2>1. components \in Seq(Seq(non_stubs)) /\ DOMAIN components = 1..Len(components)
        /\ Len(components) \in Nat
    BY LenProperties DEF TarjanInv, TarjanTypes
  <2>2. PICK k \in DOMAIN components : a \in Members(k)
    BY DEF TarjanInv, ComponentsFound
  <2>3. PICK l \in 1..k : p \in Members(l)
    BY <2>2 DEF TarjanInv, ComponentsFound
  <2>4. l \in DOMAIN components
    BY <2>1, <2>2, <2>3
  <2> QED
    BY <2>3, <2>4 DEF TarjanInv, ComponentsFound
<1> QED
  BY <1>1, <1>2 DEF ClosedUpward

\* The call of a root returns: what is on the stack from its AS on is closed
\* together with what left the stack before ...
LEMMA PoppedIsClosed ==
    ASSUME TarjanInv, calls # <<>>, Last(calls).todo = {},
           lowlink[Last(calls).as] = index[Last(calls).as]
    PROVE  /\ Segment(Len(calls)) \union (Numbered \ OnTheStack) \subseteq non_stubs
           /\ ClosedUpward(Segment(Len(calls)) \union (Numbered \ OnTheStack))
<1>0. PICK c, L : c = Last(calls).as /\ L = Len(calls)
  OBVIOUS
<1>1. /\ L \in Nat \ {0} /\ DOMAIN calls = 1..L /\ L \in DOMAIN calls
      /\ c = calls[L].as /\ calls[L].todo = {} /\ c \in OnTheStack
  BY <1>0, TopFrame
<1>2. OnTheStack \subseteq Numbered /\ Numbered \subseteq non_stubs
  BY DEF TarjanInv, StackOrder, Numbering
<1>3. \A a \in OnTheStack : index[a] \in Int
  BY <1>2 DEF TarjanInv, TarjanTypes, Numbered
<1>4. Segment(L) = {a \in OnTheStack : index[c] <= index[a]}
  BY <1>0, <1>1 DEF Segment
<1>5. ASSUME NEW a \in Segment(L), NEW p \in input.providers[a]
      PROVE  p \in Segment(L) \union (Numbered \ OnTheStack)
  <2>1. ASSUME NEW i \in DOMAIN calls, calls[i].as = a
        PROVE  calls[i].todo = {}
    <3>1. index[c] <= index[calls[i].as]
      BY <1>4, <2>1
    <3>2. ASSUME i # L
          PROVE  FALSE
      <4>1. i < L
        BY <1>1, <3>2
      <4>2. index[calls[i].as] < index[c]
        BY <1>1, <4>1 DEF TarjanInv, StackOrder
      <4> QED
        BY <1>1, <1>3, <1>4, <2>1, <3>1, <4>2
    <3> QED
      BY <1>1, <3>2
  <2>2. p \in Taken(a)
    BY <2>1 DEF Taken
  <2>3. p \in Numbered
    BY <1>2, <1>4, <2>2 DEF TarjanInv, Explored
  <2>4. CASE p \in OnTheStack
    <3>1. lowlink[c] <= index[p]
      BY <1>1, <2>2, <2>4 DEF TarjanInv, LowIsLowest
    <3> QED
      BY <1>0, <1>4, <2>4, <3>1
  <2> QED
    BY <2>3, <2>4
<1>6. ClosedUpward(Segment(L) \union (Numbered \ OnTheStack))
  BY <1>5, FinishedIsClosed DEF ClosedUpward
<1> QED
  BY <1>0, <1>2, <1>4, <1>6

\* ... and is a strongly connected component.
LEMMA PoppedIsStrong ==
    ASSUME TarjanInv, calls # <<>>, Last(calls).todo = {},
           lowlink[Last(calls).as] = index[Last(calls).as],
           NEW a \in Segment(Len(calls))
    PROVE  Segment(Len(calls)) = MutuallyAbove(a)
<1>0. PICK c, P : c = Last(calls).as /\ P = Segment(Len(calls))
  OBVIOUS
<1>1. /\ c = calls[Len(calls)].as /\ c \in OnTheStack /\ Len(calls) \in DOMAIN calls
      /\ Len(calls) \in Nat
  BY <1>0, TopFrame
<1>2. OnTheStack \subseteq Numbered /\ Numbered \subseteq non_stubs
  BY DEF TarjanInv, StackOrder, Numbering
<1>3. \A x \in OnTheStack : index[x] \in Int
  BY <1>2 DEF TarjanInv, TarjanTypes, Numbered
<1>4. P = {x \in OnTheStack : index[c] <= index[x]} /\ a \in P
  BY <1>0, <1>1 DEF Segment
<1>5. \A x \in P : x \in Above(c)
  BY <1>1, <1>4 DEF TarjanInv, StackReaches
<1>6. ASSUME NEW x \in P
      PROVE  c \in Above(x)
  <2>1. PICK i \in DOMAIN calls : index[calls[i].as] <= index[x] /\ calls[i].as \in Above(x)
    BY <1>4 DEF TarjanInv, StackReaches
  <2>2. index[calls[i].as] <= index[c] /\ calls[i].as \in OnTheStack
    BY <1>0, <2>1, TopFrame DEF TarjanInv, StackOrder
  <2>3. c \in Above(calls[i].as)
    BY <1>1, <2>2 DEF TarjanInv, StackReaches
  <2> QED
    BY <2>1, <2>3, AboveTransitive
<1>7. ASSUME NEW b \in P
      PROVE  b \in MutuallyAbove(a)
  BY <1>4, <1>5, <1>6, AboveTransitive DEF MutuallyAbove
<1>8. ASSUME NEW b \in MutuallyAbove(a)
      PROVE  b \in P
  <2>1. b \in Above(a) /\ a \in Above(b)
    BY DEF MutuallyAbove
  <2>2. P \union (Numbered \ OnTheStack) \in SUBSET non_stubs
        /\ ClosedUpward(P \union (Numbered \ OnTheStack))
    BY <1>0, PoppedIsClosed
  <2>3. b \in P \union (Numbered \ OnTheStack)
    BY <1>4, <2>1, <2>2, AboveInClosed
  <2>4. ASSUME b \in Numbered \ OnTheStack
        PROVE  FALSE
    <3>1. Numbered \ OnTheStack \in SUBSET non_stubs /\ ClosedUpward(Numbered \ OnTheStack)
      BY FinishedIsClosed
    <3>2. a \in Numbered \ OnTheStack
      BY <2>1, <2>4, <3>1, AboveInClosed
    <3> QED
      BY <1>4, <3>2
  <2> QED
    BY <2>3, <2>4
<1> QED
  BY <1>0, <1>7, <1>8

\* What TarjanReturn pops.
LEMMA Popped ==
    ASSUME TarjanInv, calls # <<>>,
           NEW bottom \in DOMAIN stack, stack[bottom] = Last(calls).as
    PROVE  \E found, rest :
               /\ found = Reverse(SubSeq(stack, bottom, Len(stack)))
               /\ rest = SubSeq(stack, 1, bottom - 1)
               /\ found \in Seq(non_stubs) /\ found # <<>>
               /\ ToSet(found) = Segment(Len(calls))
               /\ \A i, j \in DOMAIN found : found[i] = found[j] => i = j
               /\ rest \in Seq(non_stubs)
               /\ ToSet(rest) = OnTheStack \ Segment(Len(calls))
               /\ \A i, j \in DOMAIN rest : i < j => index[rest[i]] < index[rest[j]]
<1>0. PICK c, n : c = Last(calls).as /\ n = Len(stack)
  OBVIOUS
<1>f. PICK found, rest : /\ found = Reverse(SubSeq(stack, bottom, Len(stack)))
                         /\ rest = SubSeq(stack, 1, bottom - 1)
  OBVIOUS
<1>1. stack \in Seq(non_stubs) /\ n \in Nat /\ DOMAIN stack = 1..n
  BY <1>0, LenProperties DEF TarjanInv, TarjanTypes
<1>2. c \in OnTheStack /\ Segment(Len(calls)) = {a \in OnTheStack : index[c] <= index[a]}
  <2>1. c = calls[Len(calls)].as /\ c \in OnTheStack /\ Len(calls) \in Nat
    BY <1>0, TopFrame
  <2> QED
    BY <2>1 DEF Segment
<1>3. bottom \in 1..n /\ stack[bottom] = c
  BY <1>0, <1>1
<1>4. /\ \A i \in 1..n : stack[i] \in OnTheStack /\ index[stack[i]] \in Int
      /\ \A i, j \in 1..n : i < j => index[stack[i]] < index[stack[j]]
      /\ \A a \in OnTheStack : \E i \in 1..n : a = stack[i]
  <2>1. \A i \in 1..n : stack[i] \in OnTheStack
    BY <1>1 DEF OnTheStack, ToSet
  <2>2. \A a \in OnTheStack : index[a] \in Int
    BY DEF TarjanInv, StackOrder, Numbered, TarjanTypes
  <2> QED
    BY <1>1, <2>1, <2>2 DEF TarjanInv, StackOrder, OnTheStack, ToSet
<1>5. \A i, j \in 1..n : stack[i] = stack[j] => i = j
  BY <1>1, <1>4
<1>6. \A i \in 1..n : index[c] <= index[stack[i]] <=> i \in bottom..n
  <2> SUFFICES ASSUME NEW i \in 1..n
               PROVE  index[c] <= index[stack[i]] <=> i \in bottom..n
    OBVIOUS
  <2>1. CASE i < bottom
    BY <1>3, <1>4, <2>1
  <2>2. CASE i = bottom
    BY <1>1, <1>3, <1>4, <2>2
  <2>3. CASE i > bottom
    BY <1>1, <1>3, <1>4, <2>3
  <2> QED
    BY <1>1, <1>3, <2>1, <2>2, <2>3
<1>7. /\ found \in Seq(non_stubs) /\ DOMAIN found = 1..(n - bottom + 1)
      /\ \A i \in 1..(n - bottom + 1) : found[i] = stack[n - i + 1]
      /\ \A x : x \in ToSet(found) <=> \E i \in bottom..n : x = stack[i]
  <2>1. bottom \in 1..Len(stack) /\ stack \in Seq(non_stubs)
    BY <1>0, <1>1, <1>3
  <2>2. /\ found \in Seq(non_stubs) /\ DOMAIN found = 1..(Len(stack) - bottom + 1)
        /\ \A i \in 1..(Len(stack) - bottom + 1) : found[i] = stack[Len(stack) - i + 1]
        /\ \A x : x \in ToSet(found) <=> \E i \in bottom..Len(stack) : x = stack[i]
    <3>1. found \in Seq(non_stubs)
      BY <1>f, <2>1, ReversedRest
    <3>2. DOMAIN found = 1..(Len(stack) - bottom + 1)
      BY <1>f, <2>1, ReversedRest
    <3>3. \A i \in 1..(Len(stack) - bottom + 1) : found[i] = stack[Len(stack) - i + 1]
      BY <1>f, <2>1, ReversedRest
    <3>4. \A x : x \in ToSet(found) <=> \E i \in bottom..Len(stack) : x = stack[i]
      BY <1>f, <2>1, ReversedRest
    <3> QED
      BY <3>1, <3>2, <3>3, <3>4
  <2> QED
    BY <1>0, <2>2
<1>8. rest \in Seq(non_stubs) /\ Len(rest) = bottom - 1
      /\ \A i \in 1..(bottom - 1) : rest[i] = stack[i]
  BY <1>f, <1>0, <1>1, <1>3, SubSeqFromOne
<1>9. DOMAIN found = 1..(n - bottom + 1) /\ DOMAIN rest = 1..(bottom - 1)
  BY <1>7, <1>8, LenProperties
<1>10. found # <<>>
  BY <1>1, <1>3, <1>7
<1>11. ToSet(found) = Segment(Len(calls))
  BY <1>2, <1>3, <1>4, <1>6, <1>7
<1>12. ASSUME NEW i \in DOMAIN found, NEW j \in DOMAIN found, found[i] = found[j]
       PROVE  i = j
  <2>1. n - i + 1 \in 1..n /\ n - j + 1 \in 1..n
    BY <1>1, <1>3, <1>9
  <2>2. n - i + 1 = n - j + 1
    BY <1>5, <1>7, <1>9, <1>12, <2>1
  <2> QED
    BY <1>1, <1>9, <2>2
<1>13. ToSet(rest) = OnTheStack \ Segment(Len(calls))
  <2>1. ToSet(rest) = {stack[i] : i \in 1..(bottom - 1)}
    BY <1>8, <1>9 DEF ToSet
  <2>2. \A i \in 1..n : i \in 1..(bottom - 1) <=> ~ (i \in bottom..n)
    BY <1>1, <1>3
  <2>3. \A i \in 1..(bottom - 1) : i \in 1..n
    BY <1>1, <1>3
  <2> QED
    BY <1>2, <1>4, <1>6, <2>1, <2>2, <2>3
<1>14. ASSUME NEW i \in DOMAIN rest, NEW j \in DOMAIN rest, i < j
       PROVE  index[rest[i]] < index[rest[j]]
  <2>1. i \in 1..n /\ j \in 1..n
    BY <1>1, <1>3, <1>9
  <2> QED
    BY <1>4, <1>8, <1>9, <1>14, <2>1
<1> QED
  BY <1>f, <1>7, <1>8, <1>10, <1>11, <1>12, <1>13, <1>14

\* The call of a root returns.
LEMMA RootReturns ==
    ASSUME TarjanInv, TarjanReturn, lowlink[Last(calls).as] = index[Last(calls).as]
    PROVE  TarjanInv'
<1>0. PICK c, L, P : c = Last(calls).as /\ L = Len(calls) /\ P = Segment(Len(calls))
  OBVIOUS
<1>1. /\ calls # <<>> /\ Last(calls).todo = {} /\ calls' = Front(calls)
      /\ lowlink' = IF Front(calls) = <<>> THEN lowlink
                    ELSE [lowlink EXCEPT ![Last(Front(calls)).as] = Min({@, lowlink[c]})]
      /\ UNCHANGED <<input, step, ases, providers, non_stubs, index>>
  BY <1>0 DEF TarjanReturn, edges, stubVars
<1>2. /\ step = "tarjan" /\ L \in Nat \ {0} /\ DOMAIN calls = 1..L
      /\ c = calls[L].as /\ c \in OnTheStack /\ c \in non_stubs
      /\ \A i \in DOMAIN calls : calls[i].as \in non_stubs /\ index[calls[i].as] \in Int
  BY <1>0, <1>1, TopFrame DEF Frames
<1>3. /\ calls' \in Seq(Frames) /\ DOMAIN calls' = 1..(L - 1) /\ Len(calls') = L - 1
      /\ \A i \in DOMAIN calls' : /\ i \in DOMAIN calls /\ i < L /\ calls'[i] = calls[i]
                                  /\ index[calls[i].as] < index[c]
      /\ \A a : Taken(a)' = Taken(a)
      /\ Numbered' = Numbered
      /\ \A a : Above(a)' = Above(a) /\ MutuallyAbove(a)' = MutuallyAbove(a)
  BY <1>0, <1>1, ReturnFrames
<1>4. /\ index \in [ASNs -> Int] /\ lowlink \in [ASNs -> Int] /\ non_stubs \subseteq ASNs
      /\ OnTheStack \subseteq Numbered /\ Numbered \subseteq ASNs
      /\ \A i \in DOMAIN calls : calls[i].as \in OnTheStack /\ calls[i].as \in ASNs
  BY <1>2 DEF TarjanInv, TarjanTypes, GraphKnown, StackOrder, Numbered
<1>5. P = {a \in OnTheStack : index[c] <= index[a]}
  BY <1>0, <1>2 DEF Segment
<1>6. PICK found :
         /\ found \in Seq(non_stubs) /\ found # <<>> /\ ToSet(found) = P
         /\ \A i, j \in DOMAIN found : found[i] = found[j] => i = j
         /\ components' = Append(components, found)
         /\ stack' \in Seq(non_stubs)
         /\ OnTheStack' = OnTheStack \ P
         /\ \A i, j \in DOMAIN stack' : i < j => index[stack'[i]] < index[stack'[j]]
  <2>1. PICK bottom : bottom = CHOOSE k \in DOMAIN stack : stack[k] = Last(calls).as
    OBVIOUS
  <2>2. bottom \in DOMAIN stack /\ stack[bottom] = Last(calls).as
    <3>1. \E k \in DOMAIN stack : stack[k] = Last(calls).as
      BY <1>0, <1>2 DEF OnTheStack, ToSet
    <3> QED
      BY <2>1, <3>1
  <2>3. /\ components' = Append(components, Reverse(SubSeq(stack, bottom, Len(stack))))
        /\ stack' = SubSeq(stack, 1, bottom - 1)
    BY <2>1 DEF TarjanReturn
  <2> QED
    BY <1>0, <1>1, <2>2, <2>3, Popped DEF OnTheStack
<1>7. \A a \in OnTheStack' : a \in OnTheStack /\ index[a] \in Int /\ index[a] < index[c]
  BY <1>2, <1>4, <1>5, <1>6
<1>8. \A i \in DOMAIN calls' : calls[i].as \in OnTheStack'
  BY <1>2, <1>3, <1>4, <1>5, <1>6
<1>9. lowlink' \in [ASNs -> Int] /\ \A a \in ASNs : lowlink'[a] = lowlink[a]
  <2>1. CASE Front(calls) = <<>>
    BY <1>1, <1>4, <2>1
  <2>2. CASE Front(calls) # <<>>
    <3>1. L - 1 \in DOMAIN calls' /\ calls' # <<>>
      BY <1>1, <1>2, <1>3, <2>2, EmptySeq
    <3>2. Last(calls') = calls'[L - 1]
      BY <1>3, <3>1, FrontLast
    <3>3. PICK e : /\ e = calls[L - 1].as /\ e \in ASNs /\ index[e] < index[c]
                   /\ lowlink[e] <= index[e]
                   /\ lowlink' = [lowlink EXCEPT ![e] = Min({lowlink[e], lowlink[c]})]
      <4>1. L - 1 \in DOMAIN calls /\ calls'[L - 1] = calls[L - 1]
            /\ index[calls[L - 1].as] < index[c]
        BY <1>3, <3>1
      <4>2. calls[L - 1].as \in ASNs /\ lowlink[calls[L - 1].as] <= index[calls[L - 1].as]
        BY <1>4, <4>1 DEF TarjanInv, LowIsReached
      <4>3. Last(Front(calls)).as = calls[L - 1].as
        BY <1>1, <3>2, <4>1
      <4> QED
        BY <1>1, <2>2, <4>1, <4>2, <4>3
    <3>4. lowlink[e] \in Int /\ index[e] \in Int /\ lowlink[c] \in Int /\ index[c] \in Int
          /\ lowlink[c] = index[c]
      BY <1>0, <1>2, <1>4, <3>3
    <3>5. lowlink[e] < lowlink[c]
      BY <3>3, <3>4
    <3>6. /\ Min({lowlink[e], lowlink[c]}) \in {lowlink[e], lowlink[c]}
          /\ Min({lowlink[e], lowlink[c]}) <= lowlink[e]
      BY <3>4, MinOfTwo
    <3>7. Min({lowlink[e], lowlink[c]}) = lowlink[e]
      BY <3>4, <3>5, <3>6
    <3> QED
      BY <1>4, <3>3, <3>4, <3>7
  <2> QED
    BY <2>1, <2>2
<1>10. GraphKnown'
  BY <1>1, <1>2 DEF TarjanInv, GraphKnown
<1>11. TarjanTypes'
  <2>1. components' \in Seq(Seq(non_stubs))
    BY <1>6, Appended DEF TarjanInv, TarjanTypes
  <2> QED
    BY <1>1, <1>2, <1>3, <1>6, <1>9, <2>1 DEF TarjanInv, TarjanTypes, Frames
<1>12. Numbering'
  BY <1>1, <1>3 DEF TarjanInv, Numbering
<1>13. StackOrder'
  <2>1. OnTheStack' \subseteq Numbered'
    BY <1>3, <1>4, <1>7
  <2>2. \A i, j \in DOMAIN stack' : i < j => index'[stack'[i]] < index'[stack'[j]]
    BY <1>1, <1>6
  <2>3. \A i \in DOMAIN calls' : calls'[i].as \in OnTheStack'
    BY <1>3, <1>8
  <2>4. \A i, j \in DOMAIN calls' : i < j => index'[calls'[i].as] < index'[calls'[j].as]
    BY <1>1, <1>3 DEF TarjanInv, StackOrder
  <2> QED
    BY <2>1, <2>2, <2>3, <2>4 DEF StackOrder
<1>14. Explored'
  BY <1>1, <1>3 DEF TarjanInv, Explored
<1>15. StackReaches'
  <2>1. ASSUME NEW a \in OnTheStack'
        PROVE  \E i \in DOMAIN calls' : index[calls[i].as] <= index[a] /\ calls[i].as \in Above(a)
    <3>1. PICK i \in DOMAIN calls : index[calls[i].as] <= index[a] /\ calls[i].as \in Above(a)
      BY <1>7 DEF TarjanInv, StackReaches
    <3>2. i # L
      BY <1>2, <1>7, <3>1
    <3> QED
      BY <1>2, <1>3, <3>1, <3>2
  <2>2. ASSUME NEW a \in OnTheStack', NEW b \in OnTheStack', index[a] <= index[b]
        PROVE  b \in Above(a)
    BY <1>7, <2>2 DEF TarjanInv, StackReaches
  <2> QED
    BY <1>1, <1>3, <2>1, <2>2 DEF StackReaches
<1>16. LowIsReached'
  <2> SUFFICES ASSUME NEW i \in DOMAIN calls'
               PROVE  /\ lowlink'[calls'[i].as] <= index'[calls'[i].as]
                      /\ \E b \in OnTheStack' : b \in Above(calls'[i].as)
                                                /\ index'[b] = lowlink'[calls'[i].as]
    BY <1>3 DEF LowIsReached
  <2>1. /\ i \in DOMAIN calls /\ calls'[i].as = calls[i].as /\ calls[i].as \in ASNs
        /\ index[calls[i].as] < index[c] /\ index' = index
        /\ lowlink[calls[i].as] <= index[calls[i].as]
        /\ lowlink'[calls[i].as] = lowlink[calls[i].as]
    BY <1>1, <1>3, <1>4, <1>9 DEF TarjanInv, LowIsReached
  <2>2. PICK b \in OnTheStack : b \in Above(calls[i].as) /\ index[b] = lowlink[calls[i].as]
    BY <2>1 DEF TarjanInv, LowIsReached
  <2>3. ~ (index[c] <= index[b])
    <3>1. index[b] \in Int /\ index[c] \in Int /\ index[calls[i].as] \in Int
      BY <1>2, <1>4, <2>1
    <3> QED
      BY <2>1, <2>2, <3>1
  <2>4. b \in OnTheStack'
    BY <1>5, <1>6, <2>3
  <2> QED
    BY <2>1, <2>2, <2>4
<1>17. LowIsLowest'
  <2> SUFFICES ASSUME NEW i \in DOMAIN calls', NEW a \in Segment(i)',
                      NEW p \in Taken(a), p \in OnTheStack'
               PROVE  lowlink'[calls'[i].as] <= index'[p]
    BY <1>3 DEF LowIsLowest
  <2>1. /\ i \in DOMAIN calls /\ i < L /\ i \in Nat
        /\ calls'[i].as = calls[i].as /\ calls[i].as \in ASNs
        /\ lowlink'[calls[i].as] = lowlink[calls[i].as] /\ index' = index
    <3>1. /\ i \in DOMAIN calls /\ i < L /\ calls'[i] = calls[i] /\ index' = index
      BY <1>1, <1>3
    <3>2. i \in Nat /\ calls[i].as \in ASNs
      BY <1>2, <1>4, <3>1
    <3> QED
      BY <1>9, <3>1, <3>2
  <2>2. a \in OnTheStack' /\ index[calls[i].as] <= index[a]
    BY <2>1 DEF Segment
  <2>3. ASSUME i < Len(calls)
        PROVE  index[a] < index[calls[i + 1].as]
    <3>1. CASE i = L - 1
      BY <1>2, <1>7, <2>2, <3>1
    <3>2. CASE i # L - 1
      <4>1. i < L - 1 /\ i + 1 \in DOMAIN calls'
        BY <1>2, <1>3, <2>1, <3>2
      <4>2. index'[a] < index'[calls'[i + 1].as]
        BY <1>3, <4>1 DEF Segment
      <4> QED
        BY <1>3, <2>1, <4>1, <4>2
    <3> QED
      BY <3>1, <3>2
  <2>4. a \in Segment(i) /\ p \in OnTheStack
    BY <1>7, <2>2, <2>3 DEF Segment
  <2>5. lowlink[calls[i].as] <= index[p]
    BY <2>1, <2>4 DEF TarjanInv, LowIsLowest
  <2> QED
    BY <2>1, <2>5
<1>18. ComponentsFound'
  <2>0. PICK K : K = Len(components)
    OBVIOUS
  <2>1. /\ K \in Nat /\ DOMAIN components = 1..K /\ DOMAIN components' = 1..(K + 1)
        /\ \A k \in 1..K : components'[k] = components[k]
        /\ components'[K + 1] = found
    <3>1. components \in Seq(Seq(non_stubs))
      BY DEF TarjanInv, TarjanTypes
    <3>2. /\ K \in Nat /\ DOMAIN components = 1..K
          /\ components' \in Seq(Seq(non_stubs)) /\ Len(components') = K + 1
          /\ \A k \in 1..K : components'[k] = components[k]
          /\ components'[K + 1] = found
      BY <1>6, <2>0, <3>1, Appended, LenProperties
    <3>3. DOMAIN components' = 1..(K + 1)
      BY <3>2, LenProperties
    <3> QED
      BY <3>2, <3>3
  <2>2. /\ \A k \in 1..K : Members(k)' = Members(k)
        /\ Members(K + 1)' = P
    BY <1>6, <2>1 DEF Members
  <2>3. /\ Numbered' \ OnTheStack' = (Numbered \ OnTheStack) \union P
        /\ P \intersect (Numbered \ OnTheStack) = {}
    BY <1>3, <1>4, <1>5, <1>6
  <2>4. \A k \in 1..K : Members(k) \subseteq Numbered \ OnTheStack
    BY <2>1 DEF TarjanInv, ComponentsFound
  <2>5. \A a \in Numbered \ OnTheStack : \E k \in 1..K : a \in Members(k)
    BY <2>1 DEF TarjanInv, ComponentsFound
  <2>6. ASSUME NEW k \in DOMAIN components'
        PROVE  /\ components'[k] # <<>>
               /\ \A i, j \in DOMAIN components'[k] :
                     components'[k][i] = components'[k][j] => i = j
               /\ Members(k)' \subseteq Numbered' \ OnTheStack'
               /\ \A a \in Members(k)' :
                     /\ Members(k)' = MutuallyAbove(a)
                     /\ \A p \in input.providers[a] : \E l \in 1..k : p \in Members(l)'
    <3>1. CASE k = K + 1
      <4>1. components'[k] = found /\ Members(k)' = P
        BY <2>1, <2>2, <3>1
      <4>2. ASSUME NEW a \in P
            PROVE  P = MutuallyAbove(a)
        BY <1>0, <1>1, PoppedIsStrong
      <4>3. ASSUME NEW a \in P, NEW p \in input.providers[a]
            PROVE  \E l \in 1..k : p \in Members(l)'
        <5>1. p \in P \union (Numbered \ OnTheStack)
          BY <1>0, <1>1, PoppedIsClosed DEF ClosedUpward
        <5>2. CASE p \in P
          BY <2>1, <3>1, <4>1, <5>2
        <5>3. CASE p \in Numbered \ OnTheStack
          <6>1. PICK l \in 1..K : p \in Members(l)
            BY <2>5, <5>3
          <6> QED
            BY <2>1, <2>2, <3>1, <6>1
        <5> QED
          BY <5>1, <5>2, <5>3
      <4> QED
        BY <1>6, <2>3, <4>1, <4>2, <4>3
    <3>2. CASE k # K + 1
      <4>1. k \in 1..K /\ components'[k] = components[k] /\ Members(k)' = Members(k)
        BY <2>1, <2>2, <3>2
      <4>2. ASSUME NEW a \in Members(k), NEW p \in input.providers[a]
            PROVE  \E l \in 1..k : p \in Members(l)'
        <5>1. PICK l \in 1..k : p \in Members(l)
          BY <2>1, <4>1 DEF TarjanInv, ComponentsFound
        <5>2. l \in 1..K
          BY <2>1, <4>1
        <5> QED
          BY <2>2, <5>1, <5>2
      <4>3. /\ components[k] # <<>>
            /\ \A i, j \in DOMAIN components[k] : components[k][i] = components[k][j] => i = j
            /\ \A a \in Members(k) : Members(k) = MutuallyAbove(a)
        BY <2>1, <4>1 DEF TarjanInv, ComponentsFound
      <4>4. Members(k) \subseteq Numbered' \ OnTheStack'
        BY <2>3, <2>4, <4>1
      <4> QED
        BY <4>1, <4>2, <4>3, <4>4
    <3> QED
      BY <3>1, <3>2
  <2>7. ASSUME NEW a \in Numbered' \ OnTheStack'
        PROVE  \E k \in DOMAIN components' : a \in Members(k)'
    <3>1. CASE a \in P
      BY <2>1, <2>2, <3>1
    <3>2. CASE a \in Numbered \ OnTheStack
      <4>1. PICK k \in 1..K : a \in Members(k)
        BY <2>5, <3>2
      <4> QED
        BY <2>1, <2>2, <4>1
    <3> QED
      BY <2>3, <3>1, <3>2
  <2>8. ASSUME NEW k \in DOMAIN components', NEW l \in DOMAIN components', k # l
        PROVE  Members(k)' \intersect Members(l)' = {}
    <3>1. CASE k = K + 1
      <4>1. l \in 1..K
        BY <2>1, <2>8, <3>1
      <4> QED
        BY <2>2, <2>3, <2>4, <3>1, <4>1
    <3>2. CASE l = K + 1
      <4>1. k \in 1..K
        BY <2>1, <2>8, <3>2
      <4> QED
        BY <2>2, <2>3, <2>4, <3>2, <4>1
    <3>3. CASE k # K + 1 /\ l # K + 1
      <4>1. k \in 1..K /\ l \in 1..K
        BY <2>1, <3>3
      <4>2. Members(k) \intersect Members(l) = {}
        BY <2>1, <2>8, <4>1 DEF TarjanInv, ComponentsFound
      <4> QED
        BY <2>2, <4>1, <4>2
    <3> QED
      BY <3>1, <3>2, <3>3
  <2> QED
    BY <1>1, <1>3, <2>6, <2>7, <2>8 DEF ComponentsFound
<1> QED
  BY <1>10, <1>11, <1>12, <1>13, <1>14, <1>15, <1>16, <1>17, <1>18 DEF TarjanInv

\* The end of a call, with a component or without.
LEMMA ReturnKeepsInv ==
    ASSUME TarjanInv, TarjanReturn
    PROVE  TarjanInv'
  BY InnerReturns, RootReturns

-----------------------------------------------------------------------------
(***************************************************************************)
(* After the search.                                                       *)
(***************************************************************************)
\* What the later calls of process leave alone.
LEMMA TarjanOver ==
    ASSUME TarjanInv, step \notin {"stubs", "tarjan"},
           step' \in {"combine", "ranks", "done"},
           UNCHANGED <<input, non_stubs, tarjanVars, components>>
    PROVE  TarjanInv'
<1>1. /\ UNCHANGED <<index, lowlink, stack, calls>>
      /\ Numbered' = Numbered /\ OnTheStack' = OnTheStack
      /\ \A a : Taken(a)' = Taken(a)
      /\ \A i : Segment(i)' = Segment(i) /\ Members(i)' = Members(i)
      /\ \A a : Above(a)' = Above(a) /\ MutuallyAbove(a)' = MutuallyAbove(a)
  BY AboveStays DEF tarjanVars, Numbered, OnTheStack, Taken, Segment, Members
<1>2. GraphKnown'
  BY DEF TarjanInv, GraphKnown
<1>3. TarjanTypes'
  BY <1>1 DEF TarjanInv, TarjanTypes
<1>4. Numbering' /\ StackOrder' /\ Explored'
  BY <1>1 DEF TarjanInv, Numbering, StackOrder, Explored
<1>5. StackReaches' /\ LowIsReached' /\ LowIsLowest'
  BY <1>1 DEF TarjanInv, StackReaches, LowIsReached, LowIsLowest
<1>6. ComponentsFound'
  BY <1>1 DEF TarjanInv, ComponentsFound
<1> QED
  BY <1>2, <1>3, <1>4, <1>5, <1>6 DEF TarjanInv

\* The end of tarjan.
LEMMA EndKeepsInv ==
    ASSUME TarjanInv, TarjanEnd
    PROVE  TarjanInv'
<1>1. /\ step = "tarjan" /\ step' = "combine" /\ calls = <<>>
      /\ UNCHANGED <<input, non_stubs, index, lowlink, stack, calls, components>>
  BY DEF TarjanEnd, stubVars, tarjanVars
<1>2. /\ Numbered' = Numbered /\ OnTheStack' = OnTheStack
      /\ \A a : Taken(a)' = Taken(a)
      /\ \A i : Segment(i)' = Segment(i) /\ Members(i)' = Members(i)
      /\ \A a : Above(a)' = Above(a) /\ MutuallyAbove(a)' = MutuallyAbove(a)
  BY <1>1, AboveStays DEF Numbered, OnTheStack, Taken, Segment, Members
<1>3. GraphKnown'
  BY <1>1 DEF TarjanInv, GraphKnown
<1>4. TarjanTypes'
  <2>1. non_stubs \subseteq Numbered
    BY <1>1 DEF TarjanEnd, TarjanInv, GraphKnown, Numbered
  <2> QED
    BY <1>1, <1>2, <2>1 DEF TarjanInv, TarjanTypes
<1>5. Numbering' /\ StackOrder' /\ Explored'
  BY <1>1, <1>2 DEF TarjanInv, Numbering, StackOrder, Explored
<1>6. StackReaches' /\ LowIsReached' /\ LowIsLowest'
  BY <1>1, <1>2 DEF TarjanInv, StackReaches, LowIsReached, LowIsLowest
<1>7. ComponentsFound'
  BY <1>1, <1>2 DEF TarjanInv, ComponentsFound
<1> QED
  BY <1>3, <1>4, <1>5, <1>6, <1>7 DEF TarjanInv

\* Stuttering keeps the invariant of the search.
LEMMA TarjanStutters ==
    ASSUME TarjanInv, UNCHANGED vars
    PROVE  TarjanInv'
<1>1. UNCHANGED <<input, step, ases, providers, customers, non_stubs,
                  index, lowlink, stack, calls, components>>
  BY DEF vars, edges, stubVars, tarjanVars
<1>2. /\ Numbered' = Numbered /\ OnTheStack' = OnTheStack
      /\ \A a : Taken(a)' = Taken(a)
      /\ \A i : Segment(i)' = Segment(i) /\ Members(i)' = Members(i)
      /\ \A a : Above(a)' = Above(a) /\ MutuallyAbove(a)' = MutuallyAbove(a)
  BY <1>1, AboveStays DEF Numbered, OnTheStack, Taken, Segment, Members
<1>3. GraphKnown' /\ TarjanTypes'
  BY <1>1, <1>2 DEF TarjanInv, GraphKnown, TarjanTypes
<1>4. Numbering' /\ StackOrder' /\ Explored'
  BY <1>1, <1>2 DEF TarjanInv, Numbering, StackOrder, Explored
<1>5. StackReaches' /\ LowIsReached' /\ LowIsLowest'
  BY <1>1, <1>2 DEF TarjanInv, StackReaches, LowIsReached, LowIsLowest
<1>6. ComponentsFound'
  BY <1>1, <1>2 DEF TarjanInv, ComponentsFound
<1> QED
  BY <1>3, <1>4, <1>5, <1>6 DEF TarjanInv

\* The invariant is inductive.
LEMMA TarjanInductive == TarjanInv /\ [Next]_vars => TarjanInv'
<1> SUFFICES ASSUME TarjanInv, [Next]_vars
             PROVE  TarjanInv'
  OBVIOUS
<1>1. CASE remove_stubs
  BY <1>1, StubsAreNoProviders
<1>2. CASE TarjanNext
  BY <1>2, NextKeepsInv
<1>3. CASE TarjanNeighbor
  BY <1>3, NeighborKeepsInv
<1>4. CASE TarjanReturn
  BY <1>4, ReturnKeepsInv
<1>5. CASE TarjanEnd
  BY <1>5, EndKeepsInv
<1>6. CASE StartSupernode
  BY <1>6, TarjanOver DEF StartSupernode, stubVars
<1>7. CASE CombineMember
  BY <1>7, TarjanOver DEF CombineMember, stubVars
<1>8. CASE EndSupernode
  BY <1>8, TarjanOver DEF EndSupernode, stubVars
<1>9. CASE EndCombine
  BY <1>9, TarjanOver DEF EndCombine, stubVars
<1>10. CASE StartRanks
  BY <1>10, TarjanOver DEF StartRanks, stubVars
<1>11. CASE RaiseProviders
  BY <1>11, TarjanOver DEF RaiseProviders, stubVars
<1>12. CASE NextLevel
  BY <1>12, TarjanOver DEF NextLevel, stubVars
<1>13. CASE UNCHANGED vars
  BY <1>13, TarjanStutters
<1> QED
  BY <1>1, <1>2, <1>3, <1>4, <1>5, <1>6, <1>7, <1>8, <1>9, <1>10, <1>11, <1>12, <1>13
  DEF Next, Ready

-----------------------------------------------------------------------------
\* The search keeps to its invariant on every graph.
THEOREM TarjanKeepsOrder == Spec => []TarjanInv
  BY TarjanStarts, TarjanInductive, PTL DEF Spec

\* The components of an explored graph are the strongly connected ones.
LEMMA ComponentsStrong == TarjanInv => ComponentsAreStrong
<1> SUFFICES ASSUME TarjanInv, step = "combine"
             PROVE  {ToSet(c) : c \in ToSet(components)} = {MutuallyAbove(a) : a \in non_stubs}
  BY DEF ComponentsAreStrong
<1>1. Numbered = non_stubs /\ OnTheStack = {}
  <2>1. calls = <<>> /\ non_stubs \subseteq Numbered
    BY DEF TarjanInv, TarjanTypes
  <2> QED
    BY <2>1, NoCallsNoStack DEF TarjanInv, Numbering
<1>2. {ToSet(c) : c \in ToSet(components)} = {Members(k) : k \in DOMAIN components}
  BY DEF ToSet, Members
<1>3. ASSUME NEW k \in DOMAIN components
      PROVE  \E a \in non_stubs : Members(k) = MutuallyAbove(a)
  <2>1. components[k] # <<>> /\ components[k] \in Seq(non_stubs)
    BY ElementOfSeq, LenProperties DEF TarjanInv, TarjanTypes, ComponentsFound
  <2>2. PICK i : i \in DOMAIN components[k]
    <3>1. Len(components[k]) \in Nat \ {0} /\ DOMAIN components[k] = 1..Len(components[k])
      BY <2>1, EmptySeq, LenProperties
    <3> QED
      BY <3>1
  <2>3. components[k][i] \in Members(k)
    BY <2>2 DEF Members, ToSet
  <2> QED
    BY <1>1, <2>3 DEF TarjanInv, ComponentsFound
<1>4. ASSUME NEW a \in non_stubs
      PROVE  \E k \in DOMAIN components : Members(k) = MutuallyAbove(a)
  <2>1. PICK k \in DOMAIN components : a \in Members(k)
    BY <1>1 DEF TarjanInv, ComponentsFound
  <2> QED
    BY <2>1 DEF TarjanInv, ComponentsFound
<1> QED
  BY <1>2, <1>3, <1>4

\* When tarjan is over, the components it leaves (BaseGraph.cpp) are the strongly
\* connected components of the graph without stubs.
THEOREM TarjanIsRight == Spec => []ComponentsAreStrong
  BY TarjanKeepsOrder, ComponentsStrong, PTL

-----------------------------------------------------------------------------
(***************************************************************************)
(* From here on the components are combined and ranked.                    *)
(***************************************************************************)
Named == {a \in ASNs : input.providers[a] \union input.peers[a]
                          \union input.customers[a] # {}}
Combined  == DOMAIN component_translation
Lowest(k) == Min(Members(k))

\* The component of p was found no later than that of x.
NoLater(p, x) ==
    \A k, l \in DOMAIN components : p \in Members(k) /\ x \in Members(l) => k <= l

-----------------------------------------------------------------------------
(***************************************************************************)
(* Until the components are known.                                         *)
(***************************************************************************)
StubsKnown ==
    /\ step = "stubs" => /\ ases = Named /\ stubs_to_parents = << >>
                         /\ peers = input.peers /\ customers = input.customers
    /\ step # "stubs" => /\ non_stubs \subseteq Named
                         /\ DOMAIN stubs_to_parents = Named \ non_stubs
                         /\ \A a \in Named \ non_stubs : stubs_to_parents[a] \in non_stubs

NotCombinedYet ==
    step \in {"stubs", "tarjan"} =>
        /\ component_translation = << >> /\ supernode = NoSupernode /\ left = <<>>

Restricted ==
    step = "tarjan" =>
        /\ peers = input.peers
        /\ customers \in [ASNs -> SUBSET ASNs]
        /\ \A a \in non_stubs : /\ customers[a] = input.customers[a] \intersect non_stubs
                                /\ peers[a] \subseteq non_stubs

NotRankedYet ==
    /\ step \in {"stubs", "tarjan", "combine"} => ases_by_rank = <<>>
    /\ ases_by_rank = <<>> => /\ step # "done" /\ level = 0 /\ cursor = -1
                              /\ rank = [a \in ASNs |-> NotVisited]

Beforehand == StubsKnown /\ NotCombinedYet /\ Restricted /\ NotRankedYet

-----------------------------------------------------------------------------
(***************************************************************************)
(* While they are combined and ever after.                                 *)
(***************************************************************************)
Later == step \in {"combine", "ranks", "done"}

EdgeTypes ==
    /\ providers \in [ASNs -> SUBSET ASNs] /\ customers \in [ASNs -> SUBSET ASNs]
    /\ peers \in [ASNs -> SUBSET ASNs]
    /\ supernode \in [asn : ASNs \union {-1}, providers : SUBSET ASNs,
                      peers : SUBSET ASNs, customers : SUBSET ASNs]
    /\ left \in Seq(non_stubs)
    /\ \A a \in non_stubs : NeighboursOf(a) \subseteq non_stubs

\* An AS is in the graph until it is combined, and one of each component after.
Translated ==
    /\ non_stubs \ Combined \subseteq ases /\ ases \subseteq non_stubs
    /\ \A a \in Combined : \E k \in DOMAIN components :
          /\ Len(components[k]) > 1 /\ a \in Members(k)
          /\ component_translation[a] = Lowest(k)
          /\ supernode.asn # Lowest(k) => Lowest(k) \in ases
          /\ a \in ases => a = Lowest(k) /\ supernode.asn # Lowest(k)

\* Components are combined in their order, each at once.
InOrder ==
    /\ step # "combine" => supernode = NoSupernode
    /\ supernode.asn = -1 => supernode = NoSupernode /\ left = <<>>
    /\ \A k, l \in DOMAIN components :
          k < l /\ Len(components[k]) > 1 /\ Members(l) \intersect Combined # {}
              => Members(k) \subseteq Combined
    /\ \A k \in DOMAIN components :
          supernode.asn # Lowest(k) =>
              Members(k) \subseteq Combined \/ Members(k) \intersect Combined = {}

\* The component in work.
InWork ==
    supernode.asn # -1 =>
        \E w \in DOMAIN components :
            /\ Len(components[w]) > 1 /\ supernode.asn = Lowest(w)
            /\ ToSet(left) = Members(w) \ Combined
            /\ \A i, j \in DOMAIN left : left[i] = left[j] => i = j
            /\ \A k \in DOMAIN components :
                  k < w /\ Len(components[k]) > 1 => Members(k) \subseteq Combined
            /\ supernode.providers \union supernode.customers \union supernode.peers
                  \subseteq ases \ Members(w)
            /\ \A p \in supernode.providers : NoLater(p, supernode.asn)
            /\ \A c \in supernode.customers : NoLater(supernode.asn, c)

\* Customers are never in an earlier component than their providers.
Ordered ==
    \A a \in non_stubs : /\ \A p \in providers[a] : NoLater(p, a)
                         /\ \A c \in customers[a] : NoLater(a, c)

\* Who is left knows whoever knows it, but for the supernode in work.
Mutual ==
    \A x \in non_stubs \ Combined : \A y \in non_stubs \ (Combined \union {supernode.asn}) :
        /\ y \in providers[x] => x \in customers[y]
        /\ y \in customers[x] => x \in providers[y]
        /\ y \in peers[x] => x \in peers[y]

\* Nobody who is left has a neighbour that is gone.
Present ==
    \A x \in non_stubs \ Combined : \A y \in NeighboursOf(x) :
        y \in ases \/ y = supernode.asn \/ {x, y} \subseteq Working

ProvidersStay == \A a \in ases \intersect Combined : providers[a] \subseteq ases

\* What the tables said of two that are left is known to both, and nobody who
\* is left got to be its own provider.
KnownToBoth ==
    \A a \in non_stubs \ Combined :
        /\ a \notin providers[a]
        /\ \A p \in input.providers[a] \ Combined : p \in providers[a] /\ a \in customers[p]

\* What holds when there is one supernode at most.
Single == \A c, d \in Supernodes : c = d
SingleKnows ==
    Single =>
        /\ \A a \in ases \intersect Combined : NeighboursOf(a) \subseteq ases
        /\ \A a \in non_stubs : \A p \in input.providers[a] :
              /\ a \in Combined /\ supernode.asn # -1 /\ p \notin Working
                    => p \in supernode.providers
              /\ p \in Combined /\ supernode.asn # -1 /\ a \notin Working
                    => a \in supernode.customers
              /\ a \in Combined /\ supernode.asn = -1 /\ p \notin Combined
                    => p \in providers[component_translation[a]]
              /\ p \in Combined /\ supernode.asn = -1 /\ a \notin Combined
                    => a \in customers[component_translation[p]]

CombineInv ==
    Later => /\ EdgeTypes /\ Translated /\ InOrder /\ InWork
             /\ Ordered /\ Mutual /\ Present /\ ProvidersStay
             /\ KnownToBoth /\ SingleKnows

-----------------------------------------------------------------------------
(***************************************************************************)
(* While the ASes are ranked.                                              *)
(***************************************************************************)
\* Who has nothing to raise any more.
Passed(a) == rank[a] >= 0 /\ (rank[a] < level \/ (rank[a] = level /\ a <= cursor))

RankTypes ==
    /\ rank \in [ASNs -> Int] /\ level \in Nat /\ cursor \in Int
    /\ ases_by_rank \in Seq(SUBSET ASNs)
    /\ \A a \in ases : rank[a] \in -1..(level + 1)
    /\ \/ Len(ases_by_rank) = level + 2
       \/ Len(ases_by_rank) = 1 /\ level = 0 /\ \A a \in ases : rank[a] = NotVisited

LevelsAreRanks ==
    \A i \in DOMAIN ases_by_rank : ases_by_rank[i] = {a \in ases : rank[a] = i - 1}

ProvidersAbove == \A a \in ases : Passed(a) => \A p \in providers[a] : rank[p] > rank[a]

AllPassed == step = "done" => \A a \in ases : rank[a] >= 0 => Passed(a)

LeavesRanked == \A a \in Leaves : rank[a] >= 0

\* Who was raised was raised by a customer.
RaisedByCustomer ==
    Supernodes = {} =>
        \A a \in ases : rank[a] > 0 => \E c \in customers[a] : rank[c] >= rank[a] - 1

RankInv ==
    ases_by_rank # <<>> =>
        /\ RankTypes /\ LevelsAreRanks /\ ProvidersAbove
        /\ AllPassed /\ LeavesRanked /\ RaisedByCustomer

GraphInv == TarjanInv /\ Beforehand /\ CombineInv /\ RankInv

-----------------------------------------------------------------------------
(***************************************************************************)
(* What tarjan left: the components part the ASes, and come in order.      *)
(***************************************************************************)
Found ==
    /\ ASNs \subseteq Nat /\ non_stubs \subseteq ASNs /\ DOMAIN components \subseteq Nat
    /\ step \notin {"stubs", "tarjan"} /\ calls = <<>>
    /\ \A k \in DOMAIN components :
          /\ components[k] \in Seq(non_stubs) /\ Members(k) \subseteq non_stubs
          /\ Lowest(k) \in Members(k)
          /\ \A i, j \in DOMAIN components[k] : components[k][i] = components[k][j] => i = j
    /\ \A a \in non_stubs : \E k \in DOMAIN components : a \in Members(k)
    /\ \A k, l \in DOMAIN components : k # l => Members(k) \intersect Members(l) = {}
    /\ \A a \in non_stubs : \A p \in input.providers[a] : p \in non_stubs /\ NoLater(p, a)

\* Found holds from the end of tarjan on.
LEMMA WhatTarjanFound ==
    ASSUME TarjanInv, Later
    PROVE  Found
<1>1. /\ ASNs \subseteq Nat /\ non_stubs \subseteq ASNs
      /\ step \notin {"stubs", "tarjan"} /\ calls = <<>> /\ Numbered = non_stubs
      /\ components \in Seq(Seq(non_stubs))
  BY ASGraphAssumption
  DEF ASGraphAssumption, TarjanInv, GraphKnown, TarjanTypes, Numbering, Later
<1>2. OnTheStack = {}
  BY <1>1, NoCallsNoStack
<1>3. /\ DOMAIN components = 1..Len(components) /\ Len(components) \in Nat
      /\ \A k \in DOMAIN components : components[k] \in Seq(non_stubs)
  BY <1>1, LenProperties, ElementOfSeq
<1>4. ASSUME NEW k \in DOMAIN components
      PROVE  Members(k) \subseteq non_stubs /\ Lowest(k) \in Members(k)
  <2>1. components[k] # <<>> /\ Members(k) \subseteq non_stubs
    BY <1>1, <1>2 DEF TarjanInv, ComponentsFound
  <2>2. Members(k) # {}
    <3>1. 1 \in DOMAIN components[k]
      BY <1>3, <2>1, EmptySeq, LenProperties
    <3> QED
      BY <3>1 DEF Members, ToSet
  <2> QED
    BY <1>1, <2>1, <2>2, MinIsSmallest DEF Lowest
<1>5. /\ \A a \in non_stubs : \E k \in DOMAIN components : a \in Members(k)
      /\ \A k, l \in DOMAIN components : k # l => Members(k) \intersect Members(l) = {}
      /\ \A k \in DOMAIN components : \A i, j \in DOMAIN components[k] :
            components[k][i] = components[k][j] => i = j
  BY <1>1, <1>2 DEF TarjanInv, ComponentsFound
<1>6. ASSUME NEW a \in non_stubs, NEW p \in input.providers[a]
      PROVE  p \in non_stubs /\ NoLater(p, a)
  <2>1. p \in non_stubs
    BY DEF TarjanInv, GraphKnown
  <2>2. ASSUME NEW k \in DOMAIN components, NEW l \in DOMAIN components,
               p \in Members(k), a \in Members(l)
        PROVE  k <= l
    <3>1. PICK j \in 1..l : p \in Members(j)
      BY <2>2 DEF TarjanInv, ComponentsFound
    <3>2. j \in DOMAIN components
      BY <1>3, <3>1
    <3>3. j = k
      BY <1>5, <2>2, <3>1, <3>2
    <3> QED
      BY <1>3, <3>1, <3>3
  <2> QED
    BY <2>1, <2>2 DEF NoLater
<1> QED
  BY <1>1, <1>3, <1>4, <1>5, <1>6 DEF Found

\* The calls after tarjan leave the components as they are.
LEMMA FoundStays ==
    ASSUME UNCHANGED <<input, non_stubs, components>>
    PROVE  /\ \A k : Members(k)' = Members(k) /\ Lowest(k)' = Lowest(k)
           /\ \A p, x : NoLater(p, x)' = NoLater(p, x)
           /\ Supernodes' = Supernodes /\ Single' = Single /\ Named' = Named
<1>1. \A k : Members(k)' = Members(k) /\ Lowest(k)' = Lowest(k)
  BY DEF Members, Lowest
<1> QED
  BY <1>1 DEF NoLater, Supernodes, Single, Named

\* An AS is in one component.
LEMMA SameComponent ==
    ASSUME Found, NEW k \in DOMAIN components, NEW l \in DOMAIN components,
           NEW a \in Members(k), a \in Members(l)
    PROVE  k = l
  BY DEF Found

\* A component is known by its lowest ASN.
LEMMA SameLowest ==
    ASSUME Found, NEW k \in DOMAIN components, NEW l \in DOMAIN components,
           Lowest(k) = Lowest(l)
    PROVE  k = l
  BY DEF Found

\* Working is the component in work, if one is.
LEMMA WorkingIs ==
    ASSUME Found, NEW w \in DOMAIN components, Len(components[w]) > 1,
           supernode.asn = Lowest(w)
    PROVE  Working = Members(w)
<1>1. components[w] \in Supernodes /\ Min(ToSet(components[w])) = supernode.asn
  BY DEF Supernodes, ToSet, Lowest, Members
<1>2. ASSUME NEW c \in Supernodes, Min(ToSet(c)) = supernode.asn
      PROVE  c = components[w]
  <2>1. PICK k \in DOMAIN components : c = components[k]
    BY DEF Supernodes, ToSet
  <2>2. Lowest(k) = Lowest(w)
    BY <1>2, <2>1 DEF Lowest, Members
  <2> QED
    BY <2>1, <2>2, SameLowest
<1> QED
  BY <1>1, <1>2 DEF Working, Members

\* Between two supernodes there is no component in work.
LEMMA NoWorking ==
    ASSUME Found, supernode.asn = -1
    PROVE  Working = {}
<1>1. ASSUME NEW c \in Supernodes
      PROVE  Min(ToSet(c)) # supernode.asn
  <2>1. PICK k \in DOMAIN components : c = components[k]
    BY DEF Supernodes, ToSet
  <2>2. Min(ToSet(c)) \in Nat
    BY <2>1 DEF Found, Lowest, Members
  <2> QED
    BY <2>2
<1> QED
  BY <1>1 DEF Working

-----------------------------------------------------------------------------
(***************************************************************************)
(* Until the components are known.                                         *)
(***************************************************************************)
LEMMA BeforehandStarts == Init => Beforehand
<1> SUFFICES ASSUME Init
             PROVE  Beforehand
  OBVIOUS
<1> QED
  BY DEF Init, Beforehand, StubsKnown, NotCombinedYet, Restricted, NotRankedYet, Named

\* Every stub has its one provider as its parent, and that one is no stub.
LEMMA StubsKnownAfter ==
    ASSUME TarjanInv, Beforehand, remove_stubs
    PROVE  Beforehand'
<1>0. PICK stubs : stubs = {a \in ases : IsStub(a)}
  OBVIOUS
<1>1. /\ input \in Inputs /\ input' = input
      /\ step = "stubs" /\ step' = "tarjan"
      /\ ases = Named /\ ases \subseteq ASNs
      /\ \A a \in ases : input.providers[a] \subseteq ases
      /\ providers = input.providers /\ customers = input.customers /\ peers = input.peers
      /\ peers' = input.peers
      /\ non_stubs' = Named \ stubs
      /\ customers' = [a \in ASNs |-> input.customers[a] \ stubs]
      /\ stubs_to_parents' = [a \in stubs |-> CHOOSE p \in providers[a] : TRUE]
      /\ UNCHANGED <<component_translation, supernode, left, rank, ases_by_rank, level, cursor>>
  BY <1>0 DEF remove_stubs, TarjanInv, GraphKnown, Beforehand, StubsKnown, superVars, rankVars
<1>2. /\ \A a \in ASNs : input.customers[a] \subseteq ASNs /\ input.peers[a] \subseteq ASNs
      /\ \A a, b \in ASNs : b \in input.providers[a] <=> a \in input.customers[b]
      /\ \A a, b \in ASNs : b \in input.peers[a] <=> a \in input.peers[b]
  BY <1>1, InputType
<1>3. Named' = Named /\ stubs \subseteq Named
  BY <1>0, <1>1 DEF Named
<1>4. ASSUME NEW a \in stubs
      PROVE  stubs_to_parents'[a] \in non_stubs'
  <2>1. a \in ases /\ a \in ASNs /\ Cardinality(input.providers[a]) = 1
    BY <1>0, <1>1, <1>4 DEF IsStub
  <2>2. input.providers[a] # {}
    BY <2>1, FS_EmptySet
  <2>3. PICK p : p = stubs_to_parents'[a] /\ p \in input.providers[a]
    BY <1>1, <2>2
  <2>4. p \in Named /\ p \in ASNs /\ a \in input.customers[p]
    BY <1>1, <1>2, <2>1, <2>3
  <2>5. p \notin stubs
    BY <1>0, <1>1, <2>4 DEF IsStub
  <2> QED
    BY <1>1, <2>3, <2>4, <2>5
<1>5. StubsKnown'
  <2>1. Named \ non_stubs' = stubs
    BY <1>1, <1>3
  <2> QED
    BY <1>1, <1>3, <1>4, <2>1 DEF StubsKnown
<1>6. NotCombinedYet' /\ NotRankedYet'
  BY <1>1 DEF Beforehand, NotCombinedYet, NotRankedYet
<1>7. Restricted'
  <2>1. customers' \in [ASNs -> SUBSET ASNs]
    BY <1>1, <1>2
  <2>2. ASSUME NEW a \in non_stubs'
        PROVE  customers'[a] = input.customers[a] \intersect non_stubs'
               /\ input.peers[a] \subseteq non_stubs'
    <3>1. a \in ASNs /\ customers'[a] = input.customers[a] \ stubs
      BY <1>1
    <3>2. input.customers[a] \subseteq Named
      BY <1>1, <1>2, <3>1 DEF Named
    <3>3. ASSUME NEW b \in input.peers[a]
          PROVE  b \in Named /\ b \notin stubs
      <4>1. b \in ASNs /\ a \in input.peers[b]
        BY <1>2, <3>1
      <4> QED
        BY <1>0, <1>1, <4>1 DEF IsStub, Named
    <3> QED
      BY <1>1, <3>1, <3>2, <3>3
  <2> QED
    BY <1>1, <2>1, <2>2 DEF Restricted
<1> QED
  BY <1>5, <1>6, <1>7 DEF Beforehand

\* Steps of tarjan and ends of calls.
LEMMA BeforehandStays ==
    ASSUME Beforehand, UNCHANGED <<input, edges, stubVars, superVars, rankVars>>,
           \/ UNCHANGED <<step, ases>>
           \/ step = "tarjan" /\ step' = "combine"
           \/ step = "combine" /\ step' = "ranks"
    PROVE  Beforehand'
<1>1. /\ UNCHANGED <<input, providers, customers, peers, stubs_to_parents, non_stubs>>
      /\ UNCHANGED <<left, supernode, component_translation>>
      /\ UNCHANGED <<rank, ases_by_rank, level, cursor>>
  BY DEF edges, stubVars, superVars, rankVars
<1>2. Named' = Named
  BY DEF Named
<1>3. StubsKnown' /\ NotCombinedYet' /\ Restricted'
  BY <1>1, <1>2 DEF Beforehand, StubsKnown, NotCombinedYet, Restricted
<1>4. NotRankedYet'
  BY <1>1 DEF Beforehand, NotRankedYet
<1> QED
  BY <1>3, <1>4 DEF Beforehand

\* combine_components and decide_ranks.
LEMMA BeforehandOver ==
    ASSUME Beforehand, Later, Later', NotRankedYet', UNCHANGED <<input, stubVars>>
    PROVE  Beforehand'
<1>1. UNCHANGED <<input, stubs_to_parents, non_stubs>> /\ Named' = Named
  BY DEF stubVars, Named
<1>2. step \notin {"stubs", "tarjan"} /\ step' \notin {"stubs", "tarjan"}
  BY DEF Later
<1>3. StubsKnown' /\ NotCombinedYet' /\ Restricted'
  BY <1>1, <1>2 DEF Beforehand, StubsKnown, NotCombinedYet, Restricted
<1> QED
  BY <1>3 DEF Beforehand

-----------------------------------------------------------------------------
(***************************************************************************)
(* The components are combined.                                            *)
(***************************************************************************)
LEMMA FoundInvariantly == TarjanInv /\ Later => Found
  BY WhatTarjanFound

\* The graph that combine_components starts from.
LEMMA CombineStarts ==
    ASSUME TarjanInv, Beforehand, TarjanEnd
    PROVE  CombineInv'
<1>1. /\ step = "tarjan" /\ step' = "combine" /\ input \in Inputs
      /\ ases = non_stubs /\ providers = input.providers /\ peers = input.peers
      /\ customers \in [ASNs -> SUBSET ASNs] /\ non_stubs \subseteq ASNs
      /\ UNCHANGED <<input, ases, providers, customers, peers, non_stubs, components,
                     left, supernode, component_translation>>
  BY DEF TarjanEnd, TarjanInv, GraphKnown, Beforehand, Restricted, edges, stubVars, superVars
<1>2. component_translation = << >> /\ supernode = NoSupernode /\ left = <<>> /\ Combined = {}
  BY <1>1 DEF Beforehand, NotCombinedYet, Combined
<1>3. Found'
  <2>1. TarjanInv' /\ Later'
    BY <1>1, EndKeepsInv DEF Later
  <2> QED
    BY <2>1, FoundInvariantly, PTL
<1>4. /\ \A k : Members(k)' = Members(k) /\ Lowest(k)' = Lowest(k)
      /\ \A p, x : NoLater(p, x)' = NoLater(p, x)
      /\ Single' = Single /\ Combined' = Combined
  BY <1>1, FoundStays DEF Combined
<1>5. ASSUME NEW a \in non_stubs
      PROVE  /\ providers[a] \subseteq non_stubs /\ peers[a] \subseteq non_stubs
             /\ customers[a] = input.customers[a] \intersect non_stubs
  BY <1>1 DEF TarjanInv, GraphKnown, Beforehand, Restricted
<1>6. /\ input.providers \in [ASNs -> SUBSET ASNs] /\ input.peers \in [ASNs -> SUBSET ASNs]
      /\ \A a, b \in ASNs : b \in input.providers[a] <=> a \in input.customers[b]
      /\ \A a, b \in ASNs : b \in input.peers[a] <=> a \in input.peers[b]
      /\ \A a \in ASNs : a \notin input.providers[a]
  BY <1>1, InputType
<1>7. EdgeTypes'
  <2>1. supernode' \in [asn : ASNs \union {-1}, providers : SUBSET ASNs,
                        peers : SUBSET ASNs, customers : SUBSET ASNs]
    BY <1>1, <1>2 DEF NoSupernode
  <2>2. left' \in Seq(non_stubs')
    BY <1>1, <1>2, EmptySeq
  <2>3. \A a \in non_stubs' : NeighboursOf(a)' \subseteq non_stubs'
    BY <1>1, <1>5 DEF NeighboursOf
  <2> QED
    BY <1>1, <1>6, <2>1, <2>2, <2>3 DEF EdgeTypes
<1>8. Translated'
  BY <1>1, <1>2, <1>4 DEF Translated
<1>9. InOrder' /\ InWork'
  BY <1>1, <1>2, <1>4 DEF InOrder, InWork, NoSupernode
<1>10. Ordered'
  <2>1. ASSUME NEW a \in non_stubs, NEW p \in providers[a]
        PROVE  NoLater(p, a)
    BY <1>1, <1>3, <1>4 DEF Found
  <2>2. ASSUME NEW a \in non_stubs, NEW c \in customers[a]
        PROVE  NoLater(a, c)
    <3>1. c \in non_stubs /\ a \in input.providers[c]
      BY <1>1, <1>5, <1>6
    <3> QED
      BY <1>1, <1>3, <1>4, <3>1 DEF Found
  <2> QED
    BY <1>1, <1>4, <2>1, <2>2 DEF Ordered
<1>11. Mutual'
  <2>1. ASSUME NEW x \in non_stubs, NEW y \in non_stubs
        PROVE  /\ y \in providers[x] => x \in customers[y]
               /\ y \in customers[x] => x \in providers[y]
               /\ y \in peers[x] => x \in peers[y]
    BY <1>1, <1>5, <1>6
  <2> QED
    BY <1>1, <2>1 DEF Mutual
<1>12. Present'
  <2>1. \A x \in non_stubs : NeighboursOf(x) \subseteq ases
    BY <1>1, <1>5 DEF NeighboursOf
  <2>2. \A x : NeighboursOf(x)' = NeighboursOf(x)
    BY <1>1 DEF NeighboursOf
  <2> QED
    BY <1>1, <2>1, <2>2 DEF Present
<1>13. ProvidersStay' /\ SingleKnows'
  BY <1>1, <1>2, <1>4 DEF ProvidersStay, SingleKnows
<1>14. KnownToBoth'
  <2>1. ASSUME NEW a \in non_stubs, NEW p \in input.providers[a]
        PROVE  p \in providers[a] /\ a \in customers[p]
    <3>1. p \in non_stubs /\ a \in ASNs /\ p \in ASNs
      BY <1>1, <1>5
    <3> QED
      BY <1>1, <1>5, <1>6, <3>1
  <2>2. \A a \in non_stubs : a \notin providers[a]
    BY <1>1, <1>6
  <2> QED
    BY <1>1, <2>1, <2>2 DEF KnownToBoth
<1> QED
  BY <1>7, <1>8, <1>9, <1>10, <1>11, <1>12, <1>13, <1>14 DEF CombineInv

\* Whatever comes after combine_components, or only looks.
LEMMA CombineOver ==
    ASSUME CombineInv, Later, UNCHANGED <<input, ases, edges, stubVars, components, superVars>>,
           step' # step => supernode = NoSupernode
    PROVE  CombineInv'
<1>1. UNCHANGED <<input, ases, providers, customers, peers, non_stubs, components,
                  left, supernode, component_translation>>
  BY DEF edges, stubVars, superVars
<1>2. /\ \A k : Members(k)' = Members(k) /\ Lowest(k)' = Lowest(k)
      /\ \A p, x : NoLater(p, x)' = NoLater(p, x)
      /\ Single' = Single /\ Combined' = Combined /\ Working' = Working
      /\ \A x : NeighboursOf(x)' = NeighboursOf(x)
  BY <1>1, FoundStays DEF Combined, Working, NeighboursOf
<1>3. EdgeTypes' /\ Translated'
  BY <1>1, <1>2 DEF CombineInv, EdgeTypes, Translated
<1>4. InOrder' /\ InWork'
  BY <1>1, <1>2 DEF CombineInv, InOrder, InWork
<1>5. Ordered' /\ Mutual' /\ Present'
  BY <1>1, <1>2 DEF CombineInv, Ordered, Mutual, Present
<1>6. ProvidersStay' /\ KnownToBoth' /\ SingleKnows'
  BY <1>1, <1>2 DEF CombineInv, ProvidersStay, KnownToBoth, SingleKnows
<1> QED
  BY <1>3, <1>4, <1>5, <1>6 DEF CombineInv

WorkingRight ==
    Found => \A w \in DOMAIN components :
                Len(components[w]) > 1 /\ supernode.asn = Lowest(w) => Working = Members(w)

\* WorkingIs, as a fact of every state.
LEMMA WorkingInvariantly == WorkingRight
  BY WorkingIs DEF WorkingRight

\* The frame of the steps of combine_components.
LEMMA CombineFrame ==
    ASSUME Found, UNCHANGED <<input, step, stubVars, tarjanVars, components>>
    PROVE  /\ Found' /\ non_stubs' = non_stubs
           /\ \A k : Members(k)' = Members(k) /\ Lowest(k)' = Lowest(k)
           /\ \A p, x : NoLater(p, x)' = NoLater(p, x)
           /\ Single' = Single
<1>1. UNCHANGED <<input, step, non_stubs, components, calls>>
  BY DEF stubVars, tarjanVars
<1>2. /\ \A k : Members(k)' = Members(k) /\ Lowest(k)' = Lowest(k)
      /\ \A p, x : NoLater(p, x)' = NoLater(p, x)
      /\ Single' = Single
  BY <1>1, FoundStays
<1>3. Found'
  BY <1>1, <1>2 DEF Found
<1> QED
  BY <1>1, <1>2, <1>3

\* With one supernode at most, the component in work is all there is.
LEMMA OneComponent ==
    ASSUME Found, Translated, Single,
           NEW w \in DOMAIN components, Len(components[w]) > 1
    PROVE  Combined \subseteq Members(w)
<1> SUFFICES ASSUME NEW a \in Combined
             PROVE  a \in Members(w)
  OBVIOUS
<1>1. PICK k \in DOMAIN components : Len(components[k]) > 1 /\ a \in Members(k)
  BY DEF Translated
<1>2. components[k] = components[w]
  BY <1>1 DEF Single, Supernodes, ToSet
<1> QED
  BY <1>1, <1>2 DEF Members

\* combined_AS is created for the first component that is not combined.
LEMMA StartKeepsInv ==
    ASSUME TarjanInv, CombineInv, StartSupernode
    PROVE  CombineInv'
<1>1. /\ step = "combine" /\ Later /\ supernode = NoSupernode /\ supernode.asn = -1
      /\ Found /\ Working = {}
      /\ EdgeTypes /\ Translated /\ InOrder /\ Ordered /\ Mutual /\ Present
      /\ ProvidersStay /\ KnownToBoth
      /\ UNCHANGED <<input, step, ases, providers, customers, peers, stubVars, tarjanVars,
                     components, component_translation>>
  BY WhatTarjanFound, NoWorking DEF StartSupernode, CombineInv, Later, NoSupernode, edges
<1>2. PICK w : /\ w \in DOMAIN components /\ Len(components[w]) > 1
               /\ Members(w) \intersect Combined = {}
               /\ \A k \in Uncombined : w <= k
               /\ left' = components[w]
               /\ supernode' = [NoSupernode EXCEPT !.asn = Min(ToSet(left'))]
  <2>1. Uncombined \subseteq DOMAIN components /\ Uncombined \in SUBSET Nat /\ Uncombined # {}
    BY <1>1 DEF StartSupernode, Uncombined, Found
  <2>2. Min(Uncombined) \in Uncombined /\ \A k \in Uncombined : Min(Uncombined) <= k
    BY <2>1, MinIsSmallest
  <2> QED
    BY <2>1, <2>2 DEF StartSupernode, Uncombined, Members, Combined
<1>3. /\ supernode'.asn = Lowest(w) /\ Lowest(w) \in ASNs /\ Lowest(w) \in Nat
      /\ supernode'.providers = {} /\ supernode'.customers = {} /\ supernode'.peers = {}
      /\ supernode' \in [asn : ASNs \union {-1}, providers : SUBSET ASNs,
                         peers : SUBSET ASNs, customers : SUBSET ASNs]
  <2>1. Min(ToSet(left')) = Lowest(w) /\ Lowest(w) \in ASNs /\ Lowest(w) \in Nat
    BY <1>1, <1>2 DEF Lowest, Members, Found
  <2> QED
    BY <1>2, <2>1 DEF NoSupernode
<1>4. /\ Found' /\ non_stubs' = non_stubs
      /\ \A k : Members(k)' = Members(k) /\ Lowest(k)' = Lowest(k)
      /\ \A p, x : NoLater(p, x)' = NoLater(p, x)
      /\ Single' = Single /\ Combined' = Combined
      /\ \A x : NeighboursOf(x)' = NeighboursOf(x)
  BY <1>1, CombineFrame DEF Combined, NeighboursOf
<1>5. ASSUME NEW k \in DOMAIN components
      PROVE  Lowest(k) # -1 /\ Lowest(k) \in Nat /\ k \in Nat
  <2>1. Lowest(k) \in Nat /\ k \in Nat
    BY <1>1 DEF Found
  <2> QED
    BY <2>1
<1>6. EdgeTypes'
  <2>1. left' \in Seq(non_stubs')
    BY <1>1, <1>2, <1>4 DEF Found
  <2> QED
    BY <1>1, <1>3, <1>4, <2>1 DEF EdgeTypes
<1>7. Translated'
  <2>1. ASSUME NEW a \in Combined
        PROVE  \E k \in DOMAIN components :
                  /\ Len(components[k]) > 1 /\ a \in Members(k)
                  /\ component_translation[a] = Lowest(k)
                  /\ Lowest(w) # Lowest(k) => Lowest(k) \in ases
                  /\ a \in ases => a = Lowest(k) /\ Lowest(w) # Lowest(k)
    <3>1. PICK k \in DOMAIN components :
             /\ Len(components[k]) > 1 /\ a \in Members(k)
             /\ component_translation[a] = Lowest(k) /\ Lowest(k) \in ases
             /\ a \in ases => a = Lowest(k)
      BY <1>1, <1>5 DEF Translated
    <3>2. Lowest(w) # Lowest(k)
      BY <1>1, <1>2, <3>1, SameLowest
    <3> QED
      BY <3>1, <3>2
  <2> QED
    BY <1>1, <1>3, <1>4, <2>1 DEF Translated
<1>8. InOrder'
  <2>1. \A k \in DOMAIN components : Members(k) \subseteq Combined
                                     \/ Members(k) \intersect Combined = {}
    BY <1>1, <1>5 DEF InOrder
  <2> QED
    BY <1>1, <1>3, <1>4, <2>1 DEF InOrder
<1>9. InWork'
  <2>1. ToSet(left') = Members(w) \ Combined
    BY <1>2 DEF Members
  <2>2. \A i, j \in DOMAIN left' : left'[i] = left'[j] => i = j
    BY <1>1, <1>2 DEF Found
  <2>3. ASSUME NEW k \in DOMAIN components, k < w, Len(components[k]) > 1
        PROVE  Members(k) \subseteq Combined
    <3>1. k \notin Uncombined
      BY <1>2, <1>5, <2>3
    <3>2. Members(k) \intersect Combined # {}
      BY <2>3, <3>1 DEF Uncombined, Members, Combined
    <3> QED
      BY <1>1, <1>5, <3>2 DEF InOrder
  <2> QED
    BY <1>1, <1>2, <1>3, <1>4, <2>1, <2>2, <2>3 DEF InWork
<1>10. Ordered' /\ ProvidersStay' /\ KnownToBoth'
  BY <1>1, <1>4 DEF Ordered, ProvidersStay, KnownToBoth
<1>11. Mutual'
  <2>1. ASSUME NEW x \in non_stubs \ Combined, NEW y \in non_stubs \ Combined
        PROVE  /\ y \in providers[x] => x \in customers[y]
               /\ y \in customers[x] => x \in providers[y]
               /\ y \in peers[x] => x \in peers[y]
    <3>1. y # supernode.asn
      BY <1>1 DEF Found
    <3> QED
      BY <1>1, <3>1 DEF Mutual
  <2> QED
    BY <1>1, <1>4, <2>1 DEF Mutual
<1>12. Present'
  <2>1. ASSUME NEW x \in non_stubs \ Combined, NEW y \in NeighboursOf(x)
        PROVE  y \in ases
    <3>1. y \in non_stubs /\ y # -1
      BY <1>1 DEF EdgeTypes, Found
    <3> QED
      BY <1>1, <3>1 DEF Present
  <2> QED
    BY <1>1, <1>4, <2>1 DEF Present
<1>13. SingleKnows'
  <2>1. ASSUME Single
        PROVE  Combined = {}
    BY <1>1, <1>2, <2>1, OneComponent
  <2> QED
    BY <1>1, <1>4, <2>1 DEF SingleKnows
<1> QED
  BY <1>6, <1>7, <1>8, <1>9, <1>10, <1>11, <1>12, <1>13 DEF CombineInv

\* The component in work and the part of it that is left.
LEMMA ComponentInWork ==
    ASSUME TarjanInv, CombineInv, Later, supernode # NoSupernode
    PROVE  /\ Found /\ supernode.asn # -1
           /\ EdgeTypes /\ Translated /\ InOrder /\ Ordered /\ Mutual /\ Present
           /\ ProvidersStay /\ KnownToBoth /\ SingleKnows
           /\ \E w \in DOMAIN components :
                 /\ Len(components[w]) > 1
                 /\ supernode.asn = Lowest(w) /\ Working = Members(w)
                 /\ supernode.asn \in Members(w) /\ Members(w) \subseteq non_stubs
                 /\ ToSet(left) = Members(w) \ Combined
                 /\ \A i, j \in DOMAIN left : left[i] = left[j] => i = j
                 /\ \A k \in DOMAIN components :
                       k < w /\ Len(components[k]) > 1 => Members(k) \subseteq Combined
                 /\ supernode.providers \union supernode.customers \union supernode.peers
                       \subseteq ases \ Members(w)
                 /\ \A p \in supernode.providers : NoLater(p, supernode.asn)
                 /\ \A c \in supernode.customers : NoLater(supernode.asn, c)
<1>1. Found /\ InOrder /\ InWork /\ supernode.asn # -1
  BY WhatTarjanFound DEF CombineInv, InOrder
<1>2. PICK w \in DOMAIN components :
            /\ Len(components[w]) > 1 /\ supernode.asn = Lowest(w)
            /\ ToSet(left) = Members(w) \ Combined
            /\ \A i, j \in DOMAIN left : left[i] = left[j] => i = j
            /\ \A k \in DOMAIN components :
                  k < w /\ Len(components[k]) > 1 => Members(k) \subseteq Combined
            /\ supernode.providers \union supernode.customers \union supernode.peers
                  \subseteq ases \ Members(w)
            /\ \A p \in supernode.providers : NoLater(p, supernode.asn)
            /\ \A c \in supernode.customers : NoLater(supernode.asn, c)
  BY <1>1 DEF InWork
<1>3. Working = Members(w) /\ supernode.asn \in Members(w) /\ Members(w) \subseteq non_stubs
  BY <1>1, <1>2, WorkingIs DEF Found
<1> QED
  BY <1>1, <1>2, <1>3 DEF CombineInv

\* combined_AS is inserted.
LEMMA EndKeepsCombined ==
    ASSUME TarjanInv, CombineInv, EndSupernode
    PROVE  CombineInv'
<1>0. PICK s : s = supernode.asn
  OBVIOUS
<1>1. /\ step = "combine" /\ Later /\ left = <<>> /\ supernode # NoSupernode
      /\ ases' = ases \union {s}
      /\ providers' = [providers EXCEPT ![s] = supernode.providers]
      /\ customers' = [customers EXCEPT ![s] = supernode.customers]
      /\ peers' = [peers EXCEPT ![s] = supernode.peers]
      /\ supernode' = NoSupernode /\ supernode'.asn = -1
      /\ UNCHANGED <<input, step, stubVars, tarjanVars, components, left, component_translation>>
  BY <1>0 DEF EndSupernode, Later, NoSupernode
<1>2. /\ Found /\ s # -1
      /\ EdgeTypes /\ Translated /\ InOrder /\ Ordered /\ Mutual /\ Present
      /\ ProvidersStay /\ KnownToBoth /\ SingleKnows
  BY <1>0, <1>1, ComponentInWork
<1>3. PICK w \in DOMAIN components :
         /\ Len(components[w]) > 1
         /\ s = Lowest(w) /\ Working = Members(w) /\ s \in Members(w)
         /\ Members(w) \subseteq non_stubs /\ Members(w) \subseteq Combined
         /\ supernode.providers \union supernode.customers \union supernode.peers
               \subseteq ases \ Members(w)
         /\ \A p \in supernode.providers : NoLater(p, s)
         /\ \A c \in supernode.customers : NoLater(s, c)
  <2>1. ToSet(left) = {}
    BY <1>1 DEF ToSet
  <2> QED
    BY <1>0, <1>1, <2>1, ComponentInWork
<1>4. /\ Found' /\ non_stubs' = non_stubs
      /\ \A k : Members(k)' = Members(k) /\ Lowest(k)' = Lowest(k)
      /\ \A p, x : NoLater(p, x)' = NoLater(p, x)
      /\ Single' = Single /\ Combined' = Combined
  BY <1>1, <1>2, CombineFrame DEF Combined
<1>5. /\ s \in ASNs /\ s \in non_stubs /\ s \in Combined
      /\ ases \subseteq non_stubs /\ non_stubs \subseteq ASNs
      /\ providers \in [ASNs -> SUBSET ASNs] /\ customers \in [ASNs -> SUBSET ASNs]
      /\ peers \in [ASNs -> SUBSET ASNs]
  BY <1>2, <1>3 DEF Found, Translated, EdgeTypes
<1>6. /\ providers' \in [ASNs -> SUBSET ASNs] /\ customers' \in [ASNs -> SUBSET ASNs]
      /\ peers' \in [ASNs -> SUBSET ASNs]
      /\ providers'[s] = supernode.providers /\ customers'[s] = supernode.customers
      /\ peers'[s] = supernode.peers
      /\ \A a \in ASNs \ {s} : /\ providers'[a] = providers[a] /\ customers'[a] = customers[a]
                               /\ peers'[a] = peers[a]
  <2>1. /\ supernode.providers \in SUBSET ASNs /\ supernode.customers \in SUBSET ASNs
        /\ supernode.peers \in SUBSET ASNs
    BY <1>2 DEF EdgeTypes
  <2> QED
    BY <1>1, <1>5, <2>1
<1>7. /\ NeighboursOf(s)' \subseteq ases \ Members(w)
      /\ \A a \in ASNs \ {s} : NeighboursOf(a)' = NeighboursOf(a)
  BY <1>3, <1>6 DEF NeighboursOf
<1>8. EdgeTypes'
  <2>1. supernode' \in [asn : ASNs \union {-1}, providers : SUBSET ASNs,
                        peers : SUBSET ASNs, customers : SUBSET ASNs]
    BY <1>1 DEF NoSupernode
  <2>2. ASSUME NEW a \in non_stubs
        PROVE  NeighboursOf(a)' \subseteq non_stubs
    BY <1>2, <1>5, <1>7 DEF EdgeTypes
  <2> QED
    BY <1>1, <1>2, <1>4, <1>6, <2>1, <2>2 DEF EdgeTypes
<1>9. Translated'
  <2>1. ASSUME NEW a \in Combined
        PROVE  \E k \in DOMAIN components :
                  /\ Len(components[k]) > 1 /\ a \in Members(k)
                  /\ component_translation[a] = Lowest(k)
                  /\ Lowest(k) \in ases'
                  /\ a \in ases' => a = Lowest(k) /\ -1 # Lowest(k)
    <3>1. PICK k \in DOMAIN components :
             /\ Len(components[k]) > 1 /\ a \in Members(k)
             /\ component_translation[a] = Lowest(k)
             /\ s # Lowest(k) => Lowest(k) \in ases
             /\ a \in ases => a = Lowest(k)
      BY <1>0, <1>2 DEF Translated
    <3>2. Lowest(k) \in Nat /\ Lowest(k) \in ases'
      BY <1>1, <1>2, <3>1 DEF Found
    <3>3. ASSUME a = s
          PROVE  a = Lowest(k)
      BY <1>2, <1>3, <3>1, <3>3, SameComponent
    <3> QED
      BY <1>1, <3>1, <3>2, <3>3
  <2> QED
    BY <1>1, <1>2, <1>4, <1>5, <2>1 DEF Translated
<1>10. InOrder' /\ InWork'
  <2>1. ASSUME NEW k \in DOMAIN components
        PROVE  Members(k) \subseteq Combined \/ Members(k) \intersect Combined = {}
    <3>1. CASE s = Lowest(k)
      BY <1>2, <1>3, <3>1, SameLowest
    <3>2. CASE s # Lowest(k)
      BY <1>0, <1>2, <3>2 DEF InOrder
    <3> QED
      BY <3>1, <3>2
  <2> QED
    BY <1>1, <1>2, <1>4, <2>1 DEF InOrder, InWork
<1>11. Ordered'
  <2>1. ASSUME NEW a \in non_stubs
        PROVE  /\ \A p \in providers'[a] : NoLater(p, a)
               /\ \A c \in customers'[a] : NoLater(a, c)
    <3>1. CASE a = s
      BY <1>3, <1>6, <3>1
    <3>2. CASE a # s
      BY <1>2, <1>5, <1>6, <3>2 DEF Ordered
    <3> QED
      BY <3>1, <3>2
  <2> QED
    BY <1>4, <2>1 DEF Ordered
<1>12. Mutual'
  <2>1. ASSUME NEW x \in non_stubs \ Combined, NEW y \in non_stubs \ Combined
        PROVE  /\ y \in providers'[x] => x \in customers'[y]
               /\ y \in customers'[x] => x \in providers'[y]
               /\ y \in peers'[x] => x \in peers'[y]
    <3>1. x # s /\ y # s /\ x \in ASNs /\ y \in ASNs
      BY <1>5
    <3> QED
      BY <1>0, <1>2, <1>6, <3>1 DEF Mutual
  <2> QED
    BY <1>4, <2>1 DEF Mutual
<1>13. Present'
  <2>1. ASSUME NEW x \in non_stubs \ Combined, NEW y \in NeighboursOf(x)'
        PROVE  y \in ases'
    <3>1. x # s /\ y \in NeighboursOf(x)
      BY <1>5, <1>7
    <3>2. x \notin Working
      BY <1>3
    <3> QED
      BY <1>0, <1>1, <1>2, <3>1, <3>2 DEF Present
  <2> QED
    BY <1>4, <2>1 DEF Present
<1>14. ProvidersStay'
  <2>1. ASSUME NEW a \in ases' \intersect Combined
        PROVE  providers'[a] \subseteq ases'
    <3>1. CASE a = s
      BY <1>1, <1>3, <1>6, <3>1
    <3>2. CASE a # s
      BY <1>1, <1>2, <1>5, <1>6, <3>2 DEF ProvidersStay
    <3> QED
      BY <3>1, <3>2
  <2> QED
    BY <1>4, <2>1 DEF ProvidersStay
<1>15. KnownToBoth'
  <2>1. ASSUME NEW a \in non_stubs \ Combined, NEW p \in input.providers[a] \ Combined
        PROVE  p \in providers'[a] /\ a \in customers'[p]
    <3>1. a # s /\ p # s /\ a \in ASNs /\ p \in ASNs
      BY <1>2, <1>5 DEF Found
    <3> QED
      BY <1>2, <1>6, <3>1 DEF KnownToBoth
  <2>2. ASSUME NEW a \in non_stubs \ Combined
        PROVE  a \notin providers'[a]
    BY <1>2, <1>5, <1>6 DEF KnownToBoth
  <2> QED
    BY <1>1, <1>4, <2>1, <2>2 DEF KnownToBoth
<1>16. SingleKnows'
  <2>1. ASSUME Single, NEW a \in ases' \intersect Combined
        PROVE  NeighboursOf(a)' \subseteq ases'
    <3>1. CASE a = s
      BY <1>1, <1>7, <3>1
    <3>2. CASE a # s
      BY <1>1, <1>2, <1>5, <1>7, <2>1, <3>2 DEF SingleKnows
    <3> QED
      BY <3>1, <3>2
  <2>2. ASSUME Single, NEW a \in Combined
        PROVE  component_translation[a] = s
    <3>1. PICK k \in DOMAIN components : a \in Members(k) /\ component_translation[a] = Lowest(k)
      BY <1>2 DEF Translated
    <3>2. a \in Members(w)
      BY <1>2, <1>3, <2>2, OneComponent
    <3> QED
      BY <1>2, <1>3, <3>1, <3>2, SameComponent
  <2>3. ASSUME Single, NEW a \in non_stubs, NEW p \in input.providers[a]
        PROVE  /\ a \in Combined /\ p \notin Combined => p \in providers'[component_translation[a]]
               /\ p \in Combined /\ a \notin Combined => a \in customers'[component_translation[p]]
    <3>1. ASSUME a \in Combined, p \notin Combined
          PROVE  p \in providers'[component_translation[a]]
      <4>1. p \notin Working
        BY <1>3, <3>1
      <4>2. p \in supernode.providers
        BY <1>0, <1>2, <2>3, <3>1, <4>1 DEF SingleKnows
      <4> QED
        BY <1>6, <2>2, <2>3, <3>1, <4>2
    <3>2. ASSUME p \in Combined, a \notin Combined
          PROVE  a \in customers'[component_translation[p]]
      <4>1. a \notin Working
        BY <1>3, <3>2
      <4>2. a \in supernode.customers
        BY <1>0, <1>2, <2>3, <3>2, <4>1 DEF SingleKnows
      <4> QED
        BY <1>6, <2>2, <2>3, <3>2, <4>2
    <3> QED
      BY <3>1, <3>2
  <2> QED
    BY <1>1, <1>4, <2>1, <2>3 DEF SingleKnows
<1> QED
  BY <1>8, <1>9, <1>10, <1>11, <1>12, <1>13, <1>14, <1>15, <1>16 DEF CombineInv

\* The rest of a sequence without duplicates.
LEMMA HeadTail ==
    ASSUME NEW S, NEW s \in Seq(S), s # <<>>,
           \A i, j \in DOMAIN s : s[i] = s[j] => i = j
    PROVE  /\ Head(s) \in ToSet(s) /\ Tail(s) \in Seq(S)
           /\ ToSet(Tail(s)) = ToSet(s) \ {Head(s)}
           /\ \A i, j \in DOMAIN Tail(s) : Tail(s)[i] = Tail(s)[j] => i = j
<1>0. PICK t, n : t = Tail(s) /\ n = Len(s)
  OBVIOUS
<1>1. n \in Nat \ {0} /\ DOMAIN s = 1..n
  BY <1>0, EmptySeq, LenProperties
<1>2. /\ Head(s) = s[1] /\ t \in Seq(S) /\ DOMAIN t = 1..(n - 1)
      /\ \A i \in 1..(n - 1) : t[i] = s[i + 1]
  <2>1. Head(s) = s[1] /\ t \in Seq(S) /\ Len(t) = n - 1 /\ \A i \in 1..Len(t) : t[i] = s[i + 1]
    BY <1>0, HeadTailProperties
  <2> QED
    BY <2>1, LenProperties
<1>3. Head(s) \in ToSet(s)
  BY <1>1, <1>2 DEF ToSet
<1>4. ASSUME NEW i \in DOMAIN t
      PROVE  t[i] \in ToSet(s) \ {Head(s)}
  <2>1. i + 1 \in DOMAIN s /\ 1 \in DOMAIN s /\ i + 1 # 1 /\ t[i] = s[i + 1]
    BY <1>1, <1>2
  <2> QED
    BY <1>2, <2>1 DEF ToSet
<1>5. ASSUME NEW x \in ToSet(s) \ {Head(s)}
      PROVE  \E i \in DOMAIN t : t[i] = x
  <2>1. PICK j \in DOMAIN s : s[j] = x
    BY DEF ToSet
  <2>2. j # 1
    BY <1>2, <2>1
  <2>3. j - 1 \in 1..(n - 1) /\ (j - 1) + 1 = j
    BY <1>1, <2>2
  <2> QED
    BY <1>2, <2>1, <2>3
<1>6. ToSet(t) = ToSet(s) \ {Head(s)}
  BY <1>4, <1>5 DEF ToSet
<1>7. ASSUME NEW i \in DOMAIN t, NEW j \in DOMAIN t, t[i] = t[j]
      PROVE  i = j
  <2>1. i + 1 \in DOMAIN s /\ j + 1 \in DOMAIN s /\ s[i + 1] = s[j + 1]
    BY <1>1, <1>2, <1>7
  <2>2. i + 1 = j + 1
    BY <2>1
  <2> QED
    BY <1>2, <2>2
<1> QED
  BY <1>0, <1>2, <1>3, <1>6, <1>7

\* What one step does, for a member m of the component w that has the
\* supernode s: to the graph, ...
MemberMoves(m, w, s, up, down, across, safe) ==
    /\ m \in Members(w) \ Combined /\ m \in non_stubs
    /\ up = providers[m] \ Members(w) /\ down = customers[m] \ Members(w)
    /\ across = peers[m] \ Members(w)
    /\ safe \subseteq across /\ \A x \in across : x \in safe \union up \union down
                                                   \/ x \in supernode.providers \union supernode.customers
    /\ up \union down \union across \subseteq ases \ Members(w)
    /\ ToSet(left') = Members(w) \ (Combined \union {m})
    /\ left' \in Seq(non_stubs)
    /\ \A i, j \in DOMAIN left' : left'[i] = left'[j] => i = j
    /\ Combined' = Combined \union {m}
    /\ ases' = ases \ {m}
    /\ component_translation'[m] = s
    /\ \A a \in Combined : component_translation'[a] = component_translation[a]
    \* ... to the edges of the others, ...
    /\ providers' \in [ASNs -> SUBSET ASNs] /\ customers' \in [ASNs -> SUBSET ASNs]
    /\ peers' \in [ASNs -> SUBSET ASNs]
    /\ \A x \in ASNs : /\ x \in down => providers'[x] = (providers[x] \union {s}) \ {m}
                       /\ x \notin down => providers'[x] = providers[x]
                       /\ x \in up => customers'[x] = (customers[x] \union {s}) \ {m}
                       /\ x \notin up => customers'[x] = customers[x]
                       /\ x \in safe => peers'[x] = (peers[x] \union {s}) \ {m}
                       /\ x \notin safe => peers'[x] = peers[x] \/ peers'[x] = peers[x] \ {m}
                       /\ x \in across => m \notin peers'[x]
    \* ... and to the supernode.
    /\ supernode'.asn = s
    /\ supernode'.providers = supernode.providers \union up
    /\ supernode'.customers = supernode.customers \union down
    /\ supernode'.peers = (supernode.peers \ (up \union down)) \union safe
    /\ supernode' \in [asn : ASNs \union {-1}, providers : SUBSET ASNs,
                       peers : SUBSET ASNs, customers : SUBSET ASNs]

\* CombineMember is such a step.
LEMMA MemberMovesSo ==
    ASSUME TarjanInv, CombineInv, CombineMember
    PROVE  \E m, s, up, down, across, safe : \E w \in DOMAIN components :
              /\ s = supernode.asn /\ s = Lowest(w) /\ Working = Members(w)
              /\ MemberMoves(m, w, s, up, down, across, safe)
<1>0. PICK m, s, up, down, across, safe :
         /\ m = Head(left) /\ s = supernode.asn
         /\ up = External(providers[m]) /\ down = External(customers[m])
         /\ across = External(peers[m])
         /\ safe = across \ (supernode.providers \union up
                                 \union supernode.customers \union down)
  OBVIOUS
<1>1. /\ step = "combine" /\ Later /\ left # <<>>
      /\ providers' = [x \in ASNs |-> IF x \in down THEN Exchanged(providers[x])
                                                    ELSE providers[x]]
      /\ customers' = [x \in ASNs |-> IF x \in up THEN Exchanged(customers[x])
                                                  ELSE customers[x]]
      /\ peers' = [x \in ASNs |->
             IF x \in safe THEN Exchanged(peers[x])
             ELSE IF x \in up \union down \union across THEN peers[x] \ {m}
             ELSE peers[x]]
      /\ supernode' = Gathered(up, down, safe)
      /\ component_translation' =
             [a \in DOMAIN component_translation \union {m} |->
                 IF a = m THEN supernode.asn ELSE component_translation[a]]
      /\ ases' = ases \ {m}
      /\ left' = Tail(left)
  BY <1>0 DEF CombineMember, Later
<1>2. supernode # NoSupernode
  BY <1>1 DEF CombineInv, InOrder, NoSupernode
<1>3. EdgeTypes /\ Present /\ Found
  BY <1>1, <1>2, ComponentInWork
<1>4. PICK w \in DOMAIN components :
         /\ s = Lowest(w) /\ Working = Members(w) /\ s \in Members(w)
         /\ Members(w) \subseteq non_stubs
         /\ ToSet(left) = Members(w) \ Combined
         /\ \A i, j \in DOMAIN left : left[i] = left[j] => i = j
  BY <1>0, <1>1, <1>2, ComponentInWork
<1>5. /\ m \in Members(w) \ Combined /\ m \in non_stubs /\ m \in ASNs
      /\ s \in ASNs /\ non_stubs \subseteq ASNs
      /\ left' \in Seq(non_stubs) /\ ToSet(left') = Members(w) \ (Combined \union {m})
      /\ \A i, j \in DOMAIN left' : left'[i] = left'[j] => i = j
  <2>1. left \in Seq(non_stubs) /\ non_stubs \subseteq ASNs
    BY <1>3 DEF EdgeTypes, Found
  <2>2. /\ m \in ToSet(left) /\ left' \in Seq(non_stubs) /\ ToSet(left') = ToSet(left) \ {m}
        /\ \A i, j \in DOMAIN left' : left'[i] = left'[j] => i = j
    BY <1>0, <1>1, <1>4, <2>1, HeadTail
  <2> QED
    BY <1>4, <2>1, <2>2
<1>6. /\ up = providers[m] \ Members(w) /\ down = customers[m] \ Members(w)
      /\ across = peers[m] \ Members(w)
      /\ \A set : Exchanged(set) = (set \union {s}) \ {m}
  BY <1>0, <1>4 DEF External, Exchanged
<1>7. up \union down \union across \subseteq ases \ Members(w)
  <2>1. ASSUME NEW y \in NeighboursOf(m), y \notin Members(w)
        PROVE  y \in ases
    BY <1>0, <1>3, <1>4, <1>5, <2>1 DEF Present
  <2> QED
    BY <1>6, <2>1 DEF NeighboursOf
<1>8. /\ providers \in [ASNs -> SUBSET ASNs] /\ customers \in [ASNs -> SUBSET ASNs]
      /\ peers \in [ASNs -> SUBSET ASNs]
      /\ up \subseteq ASNs /\ down \subseteq ASNs /\ across \subseteq ASNs /\ safe \subseteq across
      /\ \A x \in across : x \in safe \union up \union down
                              \/ x \in supernode.providers \union supernode.customers
  BY <1>0, <1>3, <1>5, <1>6 DEF EdgeTypes
<1>9. /\ providers' \in [ASNs -> SUBSET ASNs] /\ customers' \in [ASNs -> SUBSET ASNs]
      /\ peers' \in [ASNs -> SUBSET ASNs]
      /\ \A x \in ASNs : /\ x \in down => providers'[x] = (providers[x] \union {s}) \ {m}
                         /\ x \notin down => providers'[x] = providers[x]
                         /\ x \in up => customers'[x] = (customers[x] \union {s}) \ {m}
                         /\ x \notin up => customers'[x] = customers[x]
                         /\ x \in safe => peers'[x] = (peers[x] \union {s}) \ {m}
                         /\ x \notin safe => peers'[x] = peers[x] \/ peers'[x] = peers[x] \ {m}
                         /\ x \in across => m \notin peers'[x]
  BY <1>1, <1>5, <1>6, <1>8
<1>10. /\ Combined' = Combined \union {m}
       /\ component_translation'[m] = s
       /\ \A a \in Combined : component_translation'[a] = component_translation[a]
  BY <1>0, <1>1, <1>5 DEF Combined
<1>11. /\ supernode'.asn = s
       /\ supernode'.providers = supernode.providers \union up
       /\ supernode'.customers = supernode.customers \union down
       /\ supernode'.peers = (supernode.peers \ (up \union down)) \union safe
       /\ supernode' \in [asn : ASNs \union {-1}, providers : SUBSET ASNs,
                          peers : SUBSET ASNs, customers : SUBSET ASNs]
  <2>1. supernode \in [asn : ASNs \union {-1}, providers : SUBSET ASNs,
                       peers : SUBSET ASNs, customers : SUBSET ASNs]
    BY <1>3 DEF EdgeTypes
  <2>2. PICK ps, cs, es : /\ ps = supernode.providers \union up
                          /\ cs = supernode.customers \union down
                          /\ es = (supernode.peers \ (up \union down)) \union safe
    OBVIOUS
  <2>3. supernode' = [supernode EXCEPT !.providers = ps, !.customers = cs, !.peers = es]
    BY <1>1, <2>1, <2>2 DEF Gathered
  <2>4. ps \in SUBSET ASNs /\ cs \in SUBSET ASNs /\ es \in SUBSET ASNs
    BY <1>8, <2>1, <2>2
  <2>5. /\ supernode'.asn = supernode.asn /\ supernode'.providers = ps
        /\ supernode'.customers = cs /\ supernode'.peers = es
    BY <2>1, <2>3
  <2>6. supernode' \in [asn : ASNs \union {-1}, providers : SUBSET ASNs,
                        peers : SUBSET ASNs, customers : SUBSET ASNs]
    BY <2>1, <2>3, <2>4
  <2> QED
    BY <1>0, <2>2, <2>5, <2>6
<1>12. MemberMoves(m, w, s, up, down, across, safe)
  BY <1>1, <1>5, <1>6, <1>7, <1>8, <1>9, <1>10, <1>11 DEF MemberMoves
<1> QED
  BY <1>0, <1>4, <1>12


\* A member of the component gives its neighbours to combined_AS.
LEMMA MemberKeepsInv ==
    ASSUME TarjanInv, CombineInv, CombineMember
    PROVE  CombineInv'
<1>1. /\ step = "combine" /\ Later /\ supernode # NoSupernode
      /\ UNCHANGED <<input, step, stubVars, tarjanVars, components, non_stubs>>
  <2>1. left # <<>> /\ step = "combine" /\ Later
        /\ UNCHANGED <<input, step, stubVars, tarjanVars, components, non_stubs>>
    BY DEF CombineMember, Later, stubVars
  <2> QED
    BY <2>1 DEF CombineInv, InOrder, NoSupernode
<1>2. /\ Found /\ supernode.asn # -1
      /\ EdgeTypes /\ Translated /\ InOrder /\ Ordered /\ Mutual /\ Present
      /\ ProvidersStay /\ KnownToBoth /\ SingleKnows
  BY <1>1, ComponentInWork
<1>3. PICK m, s, up, down, across, safe : \E w \in DOMAIN components :
         /\ s = supernode.asn /\ s = Lowest(w) /\ Working = Members(w)
         /\ MemberMoves(m, w, s, up, down, across, safe)
  BY MemberMovesSo
<1>4. PICK w \in DOMAIN components :
         /\ s = supernode.asn /\ s = Lowest(w) /\ Working = Members(w)
         /\ MemberMoves(m, w, s, up, down, across, safe)
  BY <1>3
<1>5. /\ Len(components[w]) > 1
      /\ \A k \in DOMAIN components :
            k < w /\ Len(components[k]) > 1 => Members(k) \subseteq Combined
      /\ supernode.providers \union supernode.customers \union supernode.peers
            \subseteq ases \ Members(w)
      /\ \A p \in supernode.providers : NoLater(p, s)
      /\ \A c \in supernode.customers : NoLater(s, c)
  <2>1. PICK v \in DOMAIN components :
           /\ Len(components[v]) > 1 /\ supernode.asn = Lowest(v)
           /\ \A k \in DOMAIN components :
                 k < v /\ Len(components[k]) > 1 => Members(k) \subseteq Combined
           /\ supernode.providers \union supernode.customers \union supernode.peers
                 \subseteq ases \ Members(v)
           /\ \A p \in supernode.providers : NoLater(p, supernode.asn)
           /\ \A c \in supernode.customers : NoLater(supernode.asn, c)
    BY <1>1, ComponentInWork
  <2>2. v = w
    BY <1>2, <1>4, <2>1, SameLowest
  <2> QED
    BY <1>4, <2>1, <2>2
<1>6. /\ Found' /\ non_stubs' = non_stubs
      /\ \A k : Members(k)' = Members(k) /\ Lowest(k)' = Lowest(k)
      /\ \A p, x : NoLater(p, x)' = NoLater(p, x)
      /\ Single' = Single
  BY <1>1, <1>2, CombineFrame
\* What the step does, in parts.
<1>7. /\ m \in Members(w) \ Combined /\ m \in non_stubs
      /\ ToSet(left') = Members(w) \ (Combined \union {m}) /\ left' \in Seq(non_stubs)
      /\ \A i, j \in DOMAIN left' : left'[i] = left'[j] => i = j
      /\ Combined' = Combined \union {m}
      /\ ases' = ases \ {m}
      /\ component_translation'[m] = s
      /\ \A a \in Combined : component_translation'[a] = component_translation[a]
  BY <1>4 DEF MemberMoves
<1>8. /\ up = providers[m] \ Members(w) /\ down = customers[m] \ Members(w)
      /\ across = peers[m] \ Members(w) /\ safe \subseteq across
      /\ up \union down \union across \subseteq ases \ Members(w)
  BY <1>4 DEF MemberMoves
<1>9. /\ providers' \in [ASNs -> SUBSET ASNs] /\ customers' \in [ASNs -> SUBSET ASNs]
      /\ peers' \in [ASNs -> SUBSET ASNs]
      /\ \A x \in ASNs : /\ x \in down => providers'[x] = (providers[x] \union {s}) \ {m}
                         /\ x \notin down => providers'[x] = providers[x]
                         /\ x \in up => customers'[x] = (customers[x] \union {s}) \ {m}
                         /\ x \notin up => customers'[x] = customers[x]
                         /\ x \in safe => peers'[x] = (peers[x] \union {s}) \ {m}
                         /\ x \notin safe => peers'[x] = peers[x] \/ peers'[x] = peers[x] \ {m}
                         /\ x \in across => m \notin peers'[x]
  BY <1>4 DEF MemberMoves
<1>10. /\ supernode'.asn = s
       /\ supernode'.providers = supernode.providers \union up
       /\ supernode'.customers = supernode.customers \union down
       /\ supernode'.peers = (supernode.peers \ (up \union down)) \union safe
       /\ supernode' \in [asn : ASNs \union {-1}, providers : SUBSET ASNs,
                          peers : SUBSET ASNs, customers : SUBSET ASNs]
  BY <1>4 DEF MemberMoves
\* The member and the supernode are in one component.
<1>11. /\ s \in Members(w) /\ s \in non_stubs /\ non_stubs \subseteq ASNs /\ s \in Nat
       /\ ases \subseteq non_stubs
       /\ \A x \in non_stubs : x \in ASNs
       /\ \A k \in DOMAIN components : m \in Members(k) => k = w
       /\ \A k \in DOMAIN components : Lowest(k) = s => k = w
  <2>1. /\ s \in Members(w) /\ Members(w) \subseteq non_stubs
        /\ non_stubs \subseteq ASNs /\ ASNs \subseteq Nat
    BY <1>2, <1>4 DEF Found
  <2>2. ases \subseteq non_stubs
    BY <1>2 DEF Translated
  <2>3. \A k \in DOMAIN components : m \in Members(k) => k = w
    BY <1>2, <1>7, SameComponent
  <2>4. \A k \in DOMAIN components : Lowest(k) = s => k = w
    BY <1>2, <1>4, SameLowest
  <2> QED
    BY <2>1, <2>2, <2>3, <2>4
<1>12. /\ \A p : NoLater(p, m) => NoLater(p, s)
       /\ \A c : NoLater(m, c) => NoLater(s, c)
  BY <1>2, <1>4, <1>7, <1>11, SameComponent DEF NoLater
<1>13. Working' = Members(w)
  <2>1. Len(components'[w]) > 1 /\ supernode'.asn = Lowest(w)' /\ w \in DOMAIN components'
    BY <1>1, <1>4, <1>5, <1>6, <1>10
  <2>2. WorkingRight'
    BY WorkingInvariantly, PTL
  <2> QED
    BY <1>6, <2>1, <2>2 DEF WorkingRight
\* An AS gets no other neighbour than s, and loses no other than m.
<1>14. ASSUME NEW x \in ASNs
       PROVE  /\ providers'[x] \subseteq providers[x] \union {s}
              /\ customers'[x] \subseteq customers[x] \union {s}
              /\ peers'[x] \subseteq peers[x] \union {s}
              /\ providers[x] \subseteq providers'[x] \union {m}
              /\ customers[x] \subseteq customers'[x] \union {m}
              /\ peers[x] \subseteq peers'[x] \union {m}
  BY <1>9
<1>15. EdgeTypes'
  <2>1. ASSUME NEW x \in non_stubs
        PROVE  NeighboursOf(x)' \subseteq non_stubs
    <3>1. NeighboursOf(x)' \subseteq NeighboursOf(x) \union {s}
      BY <1>11, <1>14 DEF NeighboursOf
    <3> QED
      BY <1>2, <1>11, <3>1 DEF EdgeTypes
  <2> QED
    BY <1>6, <1>7, <1>9, <1>10, <2>1 DEF EdgeTypes
<1>16. Translated'
  <2>1. ASSUME NEW a \in Combined'
        PROVE  \E k \in DOMAIN components :
                  /\ Len(components[k]) > 1 /\ a \in Members(k)
                  /\ component_translation'[a] = Lowest(k)
                  /\ s # Lowest(k) => Lowest(k) \in ases'
                  /\ a \in ases' => a = Lowest(k) /\ s # Lowest(k)
    <3>1. CASE a = m
      BY <1>4, <1>5, <1>7, <3>1
    <3>2. CASE a # m
      <4>1. a \in Combined
        BY <1>7, <3>2
      <4>2. PICK k \in DOMAIN components :
               /\ Len(components[k]) > 1 /\ a \in Members(k)
               /\ component_translation[a] = Lowest(k)
               /\ s # Lowest(k) => Lowest(k) \in ases
               /\ a \in ases => a = Lowest(k) /\ s # Lowest(k)
        BY <1>2, <1>4, <4>1 DEF Translated
      <4>3. s # Lowest(k) => Lowest(k) # m
        BY <1>2, <1>4, <1>11, <4>2 DEF Found
      <4> QED
        BY <1>7, <4>1, <4>2, <4>3
    <3> QED
      BY <3>1, <3>2
  <2>2. non_stubs \ Combined' \subseteq ases' /\ ases' \subseteq non_stubs
    BY <1>2, <1>7 DEF Translated
  <2> QED
    BY <1>1, <1>6, <1>10, <2>1, <2>2 DEF Translated
<1>17. InOrder'
  <2>1. ASSUME NEW k \in DOMAIN components, NEW l \in DOMAIN components,
               k < l, Len(components[k]) > 1, Members(l) \intersect Combined' # {}
        PROVE  Members(k) \subseteq Combined
    <3>1. CASE l = w
      BY <1>5, <2>1, <3>1
    <3>2. CASE l # w
      <4>1. Members(l) \intersect Combined # {}
        BY <1>7, <1>11, <2>1, <3>2
      <4> QED
        BY <1>2, <2>1, <4>1 DEF InOrder
    <3> QED
      BY <3>1, <3>2
  <2>2. ASSUME NEW k \in DOMAIN components, s # Lowest(k)
        PROVE  Members(k) \subseteq Combined' \/ Members(k) \intersect Combined' = {}
    <3>1. m \notin Members(k)
      BY <1>4, <1>11, <2>2
    <3>2. Members(k) \subseteq Combined \/ Members(k) \intersect Combined = {}
      BY <1>2, <1>4, <2>2 DEF InOrder
    <3> QED
      BY <1>7, <3>1, <3>2
  <2>3. s # -1 /\ Combined \subseteq Combined'
    BY <1>7, <1>11
  <2> QED
    BY <1>1, <1>6, <1>10, <2>1, <2>2, <2>3 DEF InOrder
<1>18. InWork'
  <2>1. supernode'.providers \union supernode'.customers \union supernode'.peers
           \subseteq ases' \ Members(w)
    BY <1>5, <1>7, <1>8, <1>10
  <2>2. ASSUME NEW p \in supernode'.providers
        PROVE  NoLater(p, s)
    <3>1. p \in up => NoLater(p, m)
      BY <1>2, <1>7, <1>8 DEF Ordered
    <3> QED
      BY <1>5, <1>10, <1>12, <3>1
  <2>3. ASSUME NEW c \in supernode'.customers
        PROVE  NoLater(s, c)
    <3>1. c \in down => NoLater(m, c)
      BY <1>2, <1>7, <1>8 DEF Ordered
    <3> QED
      BY <1>5, <1>10, <1>12, <3>1
  <2>4. ToSet(left') = Members(w) \ Combined'
    BY <1>7
  <2>5. \A k \in DOMAIN components :
           k < w /\ Len(components[k]) > 1 => Members(k) \subseteq Combined'
    BY <1>5, <1>7
  <2> QED
    BY <1>1, <1>4, <1>5, <1>6, <1>7, <1>10, <2>1, <2>2, <2>3, <2>4, <2>5 DEF InWork
<1>19. Ordered'
  <2>1. ASSUME NEW a \in non_stubs, NEW p \in providers'[a]
        PROVE  NoLater(p, a)
    <3>1. CASE p \in providers[a]
      BY <1>2, <3>1 DEF Ordered
    <3>2. CASE p \notin providers[a]
      <4>1. p = s /\ a \in customers[m]
        BY <1>8, <1>9, <1>11, <3>2
      <4> QED
        BY <1>2, <1>7, <1>12, <4>1 DEF Ordered
    <3> QED
      BY <3>1, <3>2
  <2>2. ASSUME NEW a \in non_stubs, NEW c \in customers'[a]
        PROVE  NoLater(a, c)
    <3>1. CASE c \in customers[a]
      BY <1>2, <3>1 DEF Ordered
    <3>2. CASE c \notin customers[a]
      <4>1. c = s /\ a \in providers[m]
        BY <1>8, <1>9, <1>11, <3>2
      <4> QED
        BY <1>2, <1>7, <1>12, <4>1 DEF Ordered
    <3> QED
      BY <3>1, <3>2
  <2> QED
    BY <1>6, <2>1, <2>2 DEF Ordered
<1>20. Mutual'
  <2>1. ASSUME NEW x \in non_stubs \ Combined', NEW y \in non_stubs \ (Combined' \union {s})
        PROVE  /\ y \in providers'[x] => x \in customers'[y]
               /\ y \in customers'[x] => x \in providers'[y]
               /\ y \in peers'[x] => x \in peers'[y]
    <3>1. x \in non_stubs \ Combined /\ y \in non_stubs \ (Combined \union {s}) /\ x # m
      BY <1>7
    <3>2. /\ y \in providers[x] => x \in customers[y]
          /\ y \in customers[x] => x \in providers[y]
          /\ y \in peers[x] => x \in peers[y]
      BY <1>2, <1>4, <3>1 DEF Mutual
    <3>3. x \in ASNs /\ y \in ASNs /\ y # s
      BY <1>11
    <3> QED
      BY <1>14, <3>1, <3>2, <3>3
  <2> QED
    BY <1>6, <1>10, <2>1 DEF Mutual
<1>21. Present'
  <2>1. ASSUME NEW x \in non_stubs \ Combined', NEW y \in NeighboursOf(x)', y # s
        PROVE  y \in ases' \/ {x, y} \subseteq Members(w)
    <3>1. x \in non_stubs \ Combined /\ x \in ASNs
      BY <1>7, <1>11
    <3>2. y \in NeighboursOf(x)
      BY <1>14, <2>1, <3>1 DEF NeighboursOf
    <3>3. CASE y = m /\ x \notin Members(w)
      <4>1. /\ m \in providers[x] => x \in customers[m]
            /\ m \in customers[x] => x \in providers[m]
            /\ m \in peers[x] => x \in peers[m]
        BY <1>2, <1>4, <1>7, <2>1, <3>1, <3>3 DEF Mutual
      <4>2. s # m
        BY <2>1, <3>3
      <4>3. m \notin providers'[x] /\ m \notin customers'[x] /\ m \notin peers'[x]
        <5>1. m \notin providers'[x]
          BY <1>8, <1>9, <1>14, <3>1, <3>3, <4>1, <4>2
        <5>2. m \notin customers'[x]
          BY <1>8, <1>9, <1>14, <3>1, <3>3, <4>1, <4>2
        <5>3. m \notin peers'[x]
          BY <1>8, <1>9, <1>14, <3>1, <3>3, <4>1, <4>2
        <5> QED
          BY <5>1, <5>2, <5>3
      <4> QED
        BY <3>3, <4>3 DEF NeighboursOf
    <3>4. CASE y = m /\ x \in Members(w)
      BY <1>7, <3>4
    <3>5. CASE y # m
      BY <1>2, <1>4, <1>7, <2>1, <3>1, <3>2, <3>5 DEF Present
    <3> QED
      BY <3>3, <3>4, <3>5
  <2> QED
    BY <1>6, <1>10, <1>13, <2>1 DEF Present
<1>22. ProvidersStay'
  <2>1. ASSUME NEW a \in ases' \intersect Combined'
        PROVE  providers'[a] \subseteq ases'
    <3>1. a \in ases \intersect Combined /\ a \in ASNs /\ a \in non_stubs
      BY <1>7, <1>11
    <3>2. PICK k \in DOMAIN components :
             Len(components[k]) > 1 /\ a \in Members(k) /\ s # Lowest(k)
      BY <1>2, <1>4, <3>1 DEF Translated
    <3>3. k # w /\ k \in Nat /\ w \in Nat
      BY <1>2, <1>4, <3>2 DEF Found
    <3>4. ~(w < k)
      BY <1>2, <1>5, <1>7, <3>1, <3>2 DEF InOrder
    <3>5. k < w
      BY <3>3, <3>4
    <3>6. ~NoLater(m, a)
      BY <1>7, <3>2, <3>5, <3>3 DEF NoLater
    <3>7. a \notin down /\ m \notin providers[a]
      BY <1>2, <1>7, <1>8, <3>1, <3>6 DEF Ordered
    <3> QED
      BY <1>2, <1>7, <1>9, <3>1, <3>7 DEF ProvidersStay
  <2> QED
    BY <2>1 DEF ProvidersStay
<1>23. KnownToBoth'
  <2>1. ASSUME NEW a \in non_stubs \ Combined', NEW p \in input.providers[a] \ Combined'
        PROVE  p \in providers'[a] /\ a \in customers'[p]
    <3>1. a # m /\ p # m /\ a \in ASNs /\ p \in ASNs
      BY <1>2, <1>7, <1>11 DEF Found
    <3>2. p \in providers[a] /\ a \in customers[p]
      BY <1>2, <1>7 DEF KnownToBoth
    <3> QED
      BY <1>14, <3>1, <3>2
  <2>2. ASSUME NEW a \in non_stubs \ Combined'
        PROVE  a \notin providers'[a]
    <3>1. a \in ASNs /\ a \notin providers[a] /\ (a \in down => a # s)
      BY <1>2, <1>7, <1>8, <1>11 DEF KnownToBoth
    <3> QED
      BY <1>9, <3>1
  <2> QED
    BY <1>1, <1>6, <2>1, <2>2 DEF KnownToBoth
<1>24. SingleKnows'
  <2>1. ASSUME Single
        PROVE  Combined \subseteq Members(w) /\ Combined' \subseteq Members(w)
    BY <1>2, <1>5, <1>7, <2>1, OneComponent
  <2>2. ASSUME Single
        PROVE  ases' \intersect Combined' = {}
    <3> SUFFICES ASSUME NEW a \in ases' \intersect Combined'
                 PROVE  FALSE
      OBVIOUS
    <3>1. a \in ases \intersect Combined
      BY <1>7
    <3>2. PICK k \in DOMAIN components : a \in Members(k) /\ s # Lowest(k)
      BY <1>2, <1>4, <3>1 DEF Translated
    <3>3. a \in Members(w)
      BY <2>1, <2>2, <3>1
    <3> QED
      BY <1>2, <1>4, <3>2, <3>3, SameComponent
  <2>3. ASSUME Single, NEW a \in non_stubs, NEW p \in input.providers[a]
        PROVE  /\ a \in Combined' /\ p \notin Members(w) => p \in supernode'.providers
               /\ p \in Combined' /\ a \notin Members(w) => a \in supernode'.customers
    <3>1. ASSUME a \in Combined', p \notin Members(w)
          PROVE  p \in supernode'.providers
      <4>1. CASE a = m
        <5>1. p \in providers[m]
          BY <1>2, <1>7, <2>1, <2>3, <3>1, <4>1 DEF KnownToBoth
        <5> QED
          BY <1>8, <1>10, <3>1, <5>1
      <4>2. CASE a # m
        <5>1. a \in Combined
          BY <1>7, <3>1, <4>2
        <5>2. p \in supernode.providers
          BY <1>2, <1>4, <2>3, <3>1, <5>1 DEF SingleKnows
        <5> QED
          BY <1>10, <5>2
      <4> QED
        BY <4>1, <4>2
    <3>2. ASSUME p \in Combined', a \notin Members(w)
          PROVE  a \in supernode'.customers
      <4>1. CASE p = m
        <5>1. a \in customers[m]
          BY <1>2, <1>7, <2>1, <2>3, <3>2, <4>1 DEF KnownToBoth
        <5> QED
          BY <1>8, <1>10, <3>2, <5>1
      <4>2. CASE p # m
        <5>1. p \in Combined
          BY <1>7, <3>2, <4>2
        <5>2. a \in supernode.customers
          BY <1>2, <1>4, <2>3, <3>2, <5>1 DEF SingleKnows
        <5> QED
          BY <1>10, <5>2
      <4> QED
        BY <4>1, <4>2
    <3> QED
      BY <3>1, <3>2
  <2>4. s # -1
    BY <1>11
  <2> QED
    BY <1>1, <1>6, <1>10, <1>13, <2>2, <2>3, <2>4 DEF SingleKnows
<1> QED
  BY <1>15, <1>16, <1>17, <1>18, <1>19, <1>20, <1>21, <1>22, <1>23, <1>24 DEF CombineInv

-----------------------------------------------------------------------------
(***************************************************************************)
(* The ASes are ranked.                                                    *)
(***************************************************************************)
\* The graph that decide_ranks walks is closed under providers, and the ASes
\* in it are translated to themselves.
LEMMA GraphIsClosed ==
    ASSUME TarjanInv, CombineInv, step \in {"ranks", "done"}
    PROVE  /\ Found /\ EdgeTypes /\ Translated /\ Working = {} /\ supernode.asn = -1
           /\ ases \subseteq non_stubs /\ ases \subseteq ASNs
           /\ \A a \in ases : /\ providers[a] \subseteq ases /\ providers[a] \subseteq ASNs
                              /\ Translate(a) = a
           /\ \A x \in non_stubs \ Combined : NeighboursOf(x) \subseteq ases
<1>1. /\ Later /\ Found /\ EdgeTypes /\ Translated /\ Present /\ ProvidersStay
      /\ supernode.asn = -1
  BY WhatTarjanFound DEF Later, CombineInv, InOrder, NoSupernode
<1>2. Working = {}
  BY <1>1, NoWorking
<1>3. ases \subseteq non_stubs /\ ases \subseteq ASNs
  BY <1>1 DEF Translated, Found
<1>4. ASSUME NEW x \in non_stubs \ Combined, NEW y \in NeighboursOf(x)
      PROVE  y \in ases
  <2>1. y # -1
    BY <1>1 DEF EdgeTypes, Found
  <2> QED
    BY <1>1, <1>2, <2>1 DEF Present
<1>5. ASSUME NEW a \in ases
      PROVE  providers[a] \subseteq ases
  <2>1. CASE a \in Combined
    BY <1>1, <2>1 DEF ProvidersStay
  <2>2. CASE a \notin Combined
    BY <1>3, <1>4, <2>2 DEF NeighboursOf
  <2> QED
    BY <2>1, <2>2
<1>6. ASSUME NEW a \in ases
      PROVE  Translate(a) = a
  <2>1. a \in Combined => component_translation[a] = a
    BY <1>1 DEF Translated
  <2> QED
    BY <2>1 DEF Translate, Combined
<1> QED
  BY <1>1, <1>2, <1>3, <1>4, <1>5, <1>6

\* The leaves of the graph get rank 0.
LEMMA StartRanksKeepsInv ==
    ASSUME TarjanInv, Beforehand, CombineInv, StartRanks
    PROVE  RankInv'
<1>0. PICK L : L = Leaves
  OBVIOUS
<1>1. /\ step = "ranks" /\ ases_by_rank = <<>>
      /\ rank' = [a \in ASNs |-> IF a \in L THEN 0 ELSE rank[a]]
      /\ \/ L = {} /\ ases_by_rank' = <<{}>>
         \/ ases_by_rank' = <<L, {}>>
      /\ UNCHANGED <<step, ases, providers, customers, components, level, cursor>>
  BY <1>0 DEF StartRanks, edges
<1>2. ases \subseteq ASNs /\ ASNs \subseteq Nat /\ L \subseteq ases
  BY <1>0, <1>1, GraphIsClosed DEF Found, Leaves
<1>3. level' = 0 /\ cursor' = -1 /\ rank = [a \in ASNs |-> -1]
  BY <1>1 DEF Beforehand, NotRankedYet, NotVisited
<1>4. /\ rank' \in [ASNs -> Int]
      /\ \A a \in ases : rank'[a] = IF a \in L THEN 0 ELSE -1
  BY <1>1, <1>2, <1>3
<1>5. \/ L = {} /\ Len(ases_by_rank') = 1 /\ ases_by_rank'[1] = {}
         /\ DOMAIN ases_by_rank' = {1}
      \/ Len(ases_by_rank') = 2 /\ ases_by_rank'[1] = L /\ ases_by_rank'[2] = {}
         /\ DOMAIN ases_by_rank' = {1, 2}
  BY <1>1
<1>6. RankTypes'
  <2>1. ases_by_rank' \in Seq(SUBSET ASNs)
    <3>1. L \in SUBSET ASNs /\ {} \in SUBSET ASNs
      BY <1>2
    <3>2. <<{}>> \in Seq(SUBSET ASNs) /\ <<L, {}>> \in Seq(SUBSET ASNs)
      BY <3>1
    <3> QED
      BY <1>1, <3>2
  <2>2. \A a \in ases : rank'[a] \in -1..(level' + 1)
    BY <1>3, <1>4
  <2>3. \/ Len(ases_by_rank') = level' + 2
        \/ Len(ases_by_rank') = 1 /\ level' = 0 /\ \A a \in ases : rank'[a] = -1
    BY <1>3, <1>4, <1>5
  <2> QED
    BY <1>1, <1>3, <1>4, <2>1, <2>2, <2>3 DEF RankTypes, NotVisited
<1>7. LevelsAreRanks'
  <2>1. ASSUME NEW i \in DOMAIN ases_by_rank'
        PROVE  ases_by_rank'[i] = {a \in ases : rank'[a] = i - 1}
    <3>1. ASSUME NEW a \in ases
          PROVE  /\ rank'[a] = 0 <=> a \in L
                 /\ rank'[a] # 1
      BY <1>4
    <3>2. \/ i = 1 /\ ases_by_rank'[i] = L /\ i - 1 = 0
          \/ i = 2 /\ ases_by_rank'[i] = {} /\ i - 1 = 1
      BY <1>5
    <3> QED
      BY <1>2, <3>1, <3>2
  <2> QED
    BY <1>1, <2>1 DEF LevelsAreRanks
<1>8. ProvidersAbove'
  <2>1. ASSUME NEW a \in ases
        PROVE  ~ Passed(a)'
    <3>1. a \in Nat /\ rank'[a] \in {0, -1}
      BY <1>2, <1>4
    <3> QED
      BY <1>3, <3>1 DEF Passed
  <2> QED
    BY <1>1, <2>1 DEF ProvidersAbove
<1>9. AllPassed'
  BY <1>1 DEF AllPassed
<1>10. LeavesRanked'
  <2>1. Leaves' = L
    BY <1>0, <1>1 DEF Leaves
  <2> QED
    BY <1>2, <1>4, <2>1 DEF LeavesRanked
<1>11. RaisedByCustomer'
  <2>1. ASSUME NEW a \in ases
        PROVE  ~ (rank'[a] > 0)
    <3>1. rank'[a] \in {0, -1}
      BY <1>4
    <3> QED
      BY <3>1
  <2> QED
    BY <1>1, <2>1 DEF RaisedByCustomer
<1> QED
  BY <1>6, <1>7, <1>8, <1>9, <1>10, <1>11 DEF RankInv

\* Without supernodes, who is a provider of another has it as a customer.
LEMMA NothingCombined ==
    ASSUME TarjanInv, CombineInv, step \in {"ranks", "done"}, Supernodes = {}
    PROVE  /\ Combined = {} /\ ases = non_stubs
           /\ \A x, y \in ases : y \in providers[x] <=> x \in customers[y]
           /\ \A x \in ases : x \notin providers[x] /\ customers[x] \subseteq ases
           /\ \A k \in DOMAIN components : ~ (Len(components[k]) > 1)
<1>1. /\ Found /\ Translated /\ supernode.asn = -1 /\ Mutual /\ KnownToBoth
      /\ \A x \in non_stubs \ Combined : NeighboursOf(x) \subseteq ases
  BY GraphIsClosed DEF CombineInv, Later
<1>2. \A k \in DOMAIN components : ~ (Len(components[k]) > 1)
  BY DEF Supernodes, ToSet
<1>3. Combined = {} /\ ases = non_stubs
  BY <1>1, <1>2 DEF Translated
<1>4. ASSUME NEW x \in ases, NEW y \in ases
      PROVE  y \in providers[x] <=> x \in customers[y]
  <2>1. x # -1 /\ y # -1
    BY <1>1, <1>3 DEF Found
  <2> QED
    BY <1>1, <1>3, <2>1 DEF Mutual
<1>5. ASSUME NEW x \in ases
      PROVE  x \notin providers[x] /\ customers[x] \subseteq ases
  BY <1>1, <1>3 DEF KnownToBoth, NeighboursOf
<1> QED
  BY <1>2, <1>3, <1>4, <1>5

\* The next AS of the level, its providers that move up, and the levels.
LEMMA RaiseKeepsInv ==
    ASSUME TarjanInv, CombineInv, RankInv, RaiseProviders
    PROVE  RankInv'
<1>0. PICK m, up : m = Min(Ahead) /\ up = Raised(m)
  OBVIOUS
<1>1. /\ step = "ranks" /\ ases_by_rank # <<>> /\ Ahead # {}
      /\ rank' = [a \in ASNs |-> IF \E p \in up : Translate(p) = a THEN level + 1 ELSE rank[a]]
      /\ ases_by_rank' = Moved(up)
      /\ cursor' = m
      /\ UNCHANGED <<step, ases, providers, customers, components, level>>
  BY <1>0 DEF RaiseProviders, edges
<1>2. /\ RankTypes /\ LevelsAreRanks /\ ProvidersAbove /\ LeavesRanked /\ RaisedByCustomer
      /\ ases_by_rank' # <<>>
  <2>1. DOMAIN ases_by_rank' = DOMAIN ases_by_rank /\ DOMAIN ases_by_rank # {}
    BY <1>1, EmptySeq, LenProperties DEF RankInv, RankTypes, Moved
  <2> QED
    BY <1>1, <2>1, EmptySeq DEF RankInv
<1>3. /\ ases \subseteq ASNs /\ ASNs \subseteq Nat
      /\ \A a \in ases : providers[a] \subseteq ases /\ Translate(a) = a
  BY <1>1, GraphIsClosed DEF Found
<1>4. /\ rank \in [ASNs -> Int] /\ level \in Nat /\ cursor \in Int
      /\ ases_by_rank \in Seq(SUBSET ASNs)
      /\ \A a \in ases : rank[a] \in Int /\ rank[a] >= -1 /\ rank[a] <= level + 1
      /\ \/ Len(ases_by_rank) = level + 2
         \/ Len(ases_by_rank) = 1 /\ level = 0 /\ \A a \in ases : rank[a] = NotVisited
  BY <1>2, <1>3 DEF RankTypes
<1>5. /\ Len(ases_by_rank) = level + 2 /\ DOMAIN ases_by_rank = 1..(level + 2)
      /\ \A a : a \in Ahead <=> a \in ases /\ rank[a] = level /\ a > cursor
  <2>1. level + 1 \in DOMAIN ases_by_rank
    BY <1>1, <1>2, <1>4, LenProperties DEF RankTypes
  <2>2. ases_by_rank[level + 1] = {a \in ases : rank[a] = level}
    <3>1. (level + 1) - 1 = level
      BY <1>4
    <3> QED
      BY <1>2, <2>1, <3>1 DEF LevelsAreRanks
  <2>3. \A a : a \in Ahead <=> a \in ases /\ rank[a] = level /\ a > cursor
    BY <2>2 DEF Ahead, Level
  <2>4. ~ \A a \in ases : rank[a] = NotVisited
    BY <1>1, <1>4, <2>3 DEF NotVisited
  <2>5. Len(ases_by_rank) = level + 2
    BY <1>4, <2>4, Zenon
  <2>6. DOMAIN ases_by_rank = 1..Len(ases_by_rank)
    BY <1>4, LenProperties
  <2> QED
    BY <2>3, <2>5, <2>6
<1>6. /\ m \in ases /\ m \in Nat /\ rank[m] = level
      /\ \A a \in ases : rank[a] = level /\ a > cursor => m <= a
  <2>1. Ahead \in SUBSET Nat
    BY <1>3, <1>5
  <2>2. m \in Ahead /\ \A a \in Ahead : m <= a
    BY <1>0, <1>1, <2>1, MinIsSmallest
  <2> QED
    BY <1>3, <1>5, <2>2
<1>7. /\ up \subseteq ases
      /\ \A p : p \in up <=> p \in providers[m] /\ rank[p] < level + 1
  BY <1>0, <1>3, <1>6 DEF Raised
<1>8. /\ rank' \in [ASNs -> Int]
      /\ \A a \in ASNs : a \in up => rank'[a] = level + 1
      /\ \A a \in ASNs : a \notin up => rank'[a] = rank[a]
  <2>1. \A a \in ASNs : (\E p \in up : Translate(p) = a) <=> a \in up
    BY <1>3, <1>7
  <2> QED
    BY <1>1, <1>4, <2>1
<1>9. ASSUME NEW a \in ASNs
      PROVE  rank'[a] \in Int /\ rank[a] \in Int /\ rank'[a] >= rank[a]
  BY <1>4, <1>7, <1>8
<1>10. /\ ases_by_rank' \in Seq(SUBSET ASNs) /\ Len(ases_by_rank') = level + 2
       /\ DOMAIN ases_by_rank' = 1..(level + 2)
       /\ \A i \in 1..(level + 2) :
             ases_by_rank'[i] = (ases_by_rank[i] \ {p \in up : rank[p] = i - 1})
                                   \union (IF i = level + 2 THEN up ELSE {})
  <2>1. \A p \in up : Translate(p) = p
    BY <1>3, <1>7
  <2>2. ases_by_rank' = [i \in 1..(level + 2) |->
            (ases_by_rank[i] \ {p \in up : rank[p] = i - 1})
                \union (IF i = level + 2 THEN up ELSE {})]
    BY <1>1, <1>5, <2>1 DEF Moved
  <2>3. \A i \in 1..(level + 2) : ases_by_rank[i] \in SUBSET ASNs
    BY <1>4, <1>5
  <2>4. up \in SUBSET ASNs /\ level + 2 \in Nat
    BY <1>3, <1>4, <1>7
  <2>5. ases_by_rank' \in [1..(level + 2) -> SUBSET ASNs]
    BY <2>2, <2>3, <2>4
  <2> QED
    BY <2>2, <2>4, <2>5, LenProperties
<1>11. RankTypes'
  <2>1. ASSUME NEW a \in ases
        PROVE  rank'[a] \in -1..(level + 1)
    <3>1. a \in ASNs
      BY <1>3
    <3> QED
      BY <1>4, <1>8, <3>1
  <2>2. level' \in Nat /\ cursor' \in Int /\ Len(ases_by_rank') = level' + 2
    BY <1>1, <1>4, <1>6, <1>10
  <2>3. ases_by_rank' \in Seq(SUBSET ASNs) /\ rank' \in [ASNs -> Int]
    BY <1>8, <1>10
  <2>4. \A a \in ases' : rank'[a] \in -1..(level' + 1)
    BY <1>1, <2>1
  <2> QED
    BY <2>2, <2>3, <2>4, Zenon DEF RankTypes
<1>12. LevelsAreRanks'
  <2>1. ASSUME NEW i \in 1..(level + 2)
        PROVE  ases_by_rank'[i] = {a \in ases : rank'[a] = i - 1}
    <3>1. ases_by_rank[i] = {a \in ases : rank[a] = i - 1}
      BY <1>2, <1>5 DEF LevelsAreRanks
    <3>2. ASSUME NEW a \in ases
          PROVE  a \in ases_by_rank'[i] <=> rank'[a] = i - 1
      <4>1. a \in ASNs /\ i \in Int /\ rank[a] \in Int
        BY <1>3, <1>4
      <4>2. CASE a \in up
        <5>1. rank'[a] = level + 1
          BY <1>8, <4>1, <4>2
        <5>2. a \in ases_by_rank'[i] <=> i = level + 2
          BY <1>10, <3>1, <4>2
        <5> QED
          BY <1>4, <4>1, <5>1, <5>2
      <4>3. CASE a \notin up
        <5>1. rank'[a] = rank[a]
          BY <1>8, <4>1, <4>3
        <5>2. a \in ases_by_rank'[i] <=> rank[a] = i - 1
          BY <1>10, <3>1, <4>3
        <5> QED
          BY <5>1, <5>2
      <4> QED
        BY <4>2, <4>3
    <3>3. ases_by_rank'[i] \subseteq ases
      BY <1>7, <1>10, <3>1
    <3> QED
      BY <3>2, <3>3
  <2> QED
    BY <1>1, <1>10, <2>1 DEF LevelsAreRanks
<1>13. ProvidersAbove'
  <2>1. ASSUME NEW a \in ases, Passed(a)', NEW p \in providers[a]
        PROVE  rank'[p] > rank'[a]
    <3>1. /\ a \in ASNs /\ p \in ASNs /\ p \in ases /\ a \in Nat
          /\ rank'[a] >= 0 /\ (rank'[a] < level \/ (rank'[a] = level /\ a <= m))
      BY <1>1, <1>3, <2>1 DEF Passed
    <3>2. rank'[a] = rank[a] /\ rank[a] \in Int /\ rank[p] \in Int /\ rank'[p] \in Int
          /\ rank'[p] >= rank[p]
      BY <1>4, <1>8, <1>9, <3>1
    <3>3. CASE Passed(a)
      <4>1. rank[p] > rank[a]
        BY <1>2, <3>3 DEF ProvidersAbove
      <4> QED
        BY <3>2, <4>1
    <3>4. CASE ~ Passed(a)
      <4>1. rank[a] = level /\ ~ (a <= cursor) /\ a <= m
        BY <3>1, <3>2, <3>4 DEF Passed
      <4>2. a > cursor
        BY <1>4, <3>1, <4>1
      <4>3. m <= a
        BY <1>6, <4>1, <4>2
      <4>4. a = m
        BY <1>6, <3>1, <4>1, <4>3
      <4>5. CASE p \in up
        BY <1>4, <1>8, <3>1, <3>2, <4>1, <4>5
      <4>6. CASE p \notin up
        <5>1. ~ (rank[p] < level + 1)
          BY <1>7, <2>1, <4>4, <4>6
        <5> QED
          BY <1>4, <3>2, <4>1, <5>1
      <4> QED
        BY <4>5, <4>6
    <3> QED
      BY <3>3, <3>4
  <2> QED
    BY <1>1, <2>1 DEF ProvidersAbove
<1>14. AllPassed'
  BY <1>1 DEF AllPassed
<1>15. LeavesRanked'
  <2>1. Leaves' = Leaves /\ Leaves \subseteq ASNs
    BY <1>1, <1>3 DEF Leaves
  <2>2. ASSUME NEW a \in Leaves
        PROVE  rank'[a] >= 0
    <3>1. rank[a] >= 0 /\ a \in ASNs
      BY <1>2, <2>1 DEF LeavesRanked
    <3> QED
      BY <1>9, <3>1
  <2> QED
    BY <2>1, <2>2 DEF LeavesRanked
<1>16. RaisedByCustomer'
  <2>1. Supernodes' = Supernodes
    BY <1>1 DEF Supernodes
  <2>2. ASSUME Supernodes = {}, NEW a \in ases, rank'[a] > 0
        PROVE  \E c \in customers[a] : rank'[c] >= rank'[a] - 1
    <3>1. /\ \A x, y \in ases : y \in providers[x] <=> x \in customers[y]
          /\ customers[a] \subseteq ases /\ a \in ASNs
      BY <1>1, <1>3, <2>2, NothingCombined
    <3>2. CASE a \in up
      <4>1. m \in customers[a] /\ m \in ASNs
        BY <1>3, <1>6, <1>7, <3>1, <3>2
      <4>2. rank'[a] = level + 1 /\ rank'[m] >= level /\ rank'[m] \in Int
        <5>1. rank'[a] = level + 1
          BY <1>8, <3>1, <3>2
        <5>2. rank'[m] >= rank[m] /\ rank'[m] \in Int
          BY <1>9, <4>1
        <5> QED
          BY <1>6, <5>1, <5>2
      <4> QED
        BY <1>4, <4>1, <4>2
    <3>3. CASE a \notin up
      <4>1. rank'[a] = rank[a]
        BY <1>8, <3>1, <3>3
      <4>2. PICK c \in customers[a] : rank[c] >= rank[a] - 1
        BY <1>2, <2>2, <4>1 DEF RaisedByCustomer
      <4>3. c \in ASNs /\ rank'[c] \in Int /\ rank[c] \in Int /\ rank'[c] >= rank[c]
            /\ rank[a] \in Int
        BY <1>3, <1>9, <3>1
      <4>4. rank'[c] >= rank'[a] - 1
        BY <4>1, <4>2, <4>3
      <4> QED
        BY <4>4
    <3> QED
      BY <3>2, <3>3
  <2> QED
    BY <1>1, <2>1, <2>2 DEF RaisedByCustomer
<1> QED
  BY <1>11, <1>12, <1>13, <1>14, <1>15, <1>16 DEF RankInv

\* The level is finished.
LEMMA NextLevelKeepsInv ==
    ASSUME TarjanInv, CombineInv, RankInv, NextLevel
    PROVE  RankInv'
<1>1. /\ step = "ranks" /\ ases_by_rank # <<>> /\ Ahead = {}
      /\ UNCHANGED <<ases, providers, customers, components, rank>>
  BY DEF NextLevel, edges
<1>2. RankTypes /\ LevelsAreRanks /\ ProvidersAbove /\ LeavesRanked /\ RaisedByCustomer
  BY <1>1 DEF RankInv
<1>3. /\ ases \subseteq ASNs /\ ASNs \subseteq Nat
  BY <1>1, GraphIsClosed DEF Found
<1>4. /\ rank \in [ASNs -> Int] /\ level \in Nat /\ cursor \in Int
      /\ ases_by_rank \in Seq(SUBSET ASNs)
      /\ \A a \in ases : rank[a] \in Int /\ rank[a] >= -1 /\ rank[a] <= level + 1
      /\ \/ Len(ases_by_rank) = level + 2
         \/ Len(ases_by_rank) = 1 /\ level = 0 /\ \A a \in ases : rank[a] = -1
  BY <1>2, <1>3 DEF RankTypes, NotVisited
<1>5. ASSUME NEW a \in ases, rank[a] >= 0, rank[a] <= level
      PROVE  Passed(a)
  <2>1. level + 1 \in DOMAIN ases_by_rank /\ (level + 1) - 1 = level
    BY <1>4, LenProperties
  <2>2. ases_by_rank[level + 1] = {b \in ases : rank[b] = level}
    BY <1>2, <2>1 DEF LevelsAreRanks
  <2>3. rank[a] = level => ~ (a > cursor)
    BY <1>1, <2>2 DEF Ahead, Level
  <2>4. a \in Nat /\ rank[a] \in Int
    BY <1>3, <1>4
  <2> QED
    BY <1>4, <1>5, <2>3, <2>4 DEF Passed
<1>6. /\ Leaves' = Leaves /\ Supernodes' = Supernodes
  BY <1>1 DEF Leaves, Supernodes
<1>7. LeavesRanked' /\ RaisedByCustomer'
  BY <1>1, <1>2, <1>6 DEF LeavesRanked, RaisedByCustomer
<1>8. CASE level + 1 < Len(ases_by_rank) /\ Level(level + 1) # {}
  <2>1. /\ level' = level + 1 /\ cursor' = -1 /\ step' = "ranks"
        /\ ases_by_rank' = Append(ases_by_rank, {})
    BY <1>1, <1>8 DEF NextLevel
  <2>2. Len(ases_by_rank) = level + 2
    <3>1. level + 1 < Len(ases_by_rank)
      BY <1>8, Zenon
    <3>2. level = 0 => ~ (level + 1 < 1)
      OBVIOUS
    <3>3. Len(ases_by_rank) = level + 2 \/ (Len(ases_by_rank) = 1 /\ level = 0)
      BY <1>4, Zenon
    <3> QED
      BY <3>1, <3>2, <3>3, Zenon
  <2>3. /\ ases_by_rank' \in Seq(SUBSET ASNs)
        /\ Len(ases_by_rank') = level + 3 /\ DOMAIN ases_by_rank' = 1..(level + 3)
        /\ DOMAIN ases_by_rank = 1..(level + 2)
        /\ \A i \in 1..(level + 2) : ases_by_rank'[i] = ases_by_rank[i]
        /\ ases_by_rank'[level + 3] = {}
    <3>1. {} \in SUBSET ASNs
      OBVIOUS
    <3>2. (level + 2) + 1 = level + 3
      BY <1>4
    <3>3. /\ ases_by_rank' \in Seq(SUBSET ASNs) /\ Len(ases_by_rank') = (level + 2) + 1
          /\ \A i \in 1..(level + 2) : ases_by_rank'[i] = ases_by_rank[i]
          /\ ases_by_rank'[(level + 2) + 1] = {}
      BY <1>4, <2>1, <2>2, <3>1, AppendProperties
    <3> QED
      BY <1>4, <2>2, <3>2, <3>3, LenProperties
  <2>4. RankTypes'
    <3>1. /\ level' \in Nat /\ cursor' \in Int /\ Len(ases_by_rank') = level' + 2
          /\ \A a \in ases : rank[a] \in -1..(level' + 1)
      BY <1>4, <2>1, <2>3
    <3>2. rank' \in [ASNs -> Int] /\ \A a \in ases' : rank'[a] \in -1..(level' + 1)
      BY <1>1, <1>4, <3>1
    <3>3. ases_by_rank' \in Seq(SUBSET ASNs)
      BY <2>3
    <3> QED
      BY <3>1, <3>2, <3>3, Zenon DEF RankTypes
  <2>5. LevelsAreRanks'
    <3>1. ASSUME NEW i \in 1..(level + 3)
          PROVE  ases_by_rank'[i] = {a \in ases : rank[a] = i - 1}
      <4>1. CASE i = level + 3
        <5>1. ~ \E a \in ases : rank[a] = i - 1
          BY <1>4, <4>1
        <5> QED
          BY <2>3, <4>1, <5>1
      <4>2. CASE i # level + 3
        <5>1. i \in 1..(level + 2)
          BY <1>4, <4>2
        <5> QED
          BY <1>2, <2>3, <5>1 DEF LevelsAreRanks
      <4> QED
        BY <4>1, <4>2
    <3> QED
      BY <1>1, <2>3, <3>1 DEF LevelsAreRanks
  <2>6. ProvidersAbove'
    <3>1. ASSUME NEW a \in ases, Passed(a)'
          PROVE  Passed(a)
      <4>1. /\ rank[a] >= 0 /\ rank[a] \in Int /\ a \in Nat
            /\ (rank[a] < level + 1 \/ (rank[a] = level + 1 /\ a <= -1))
        BY <1>1, <1>3, <1>4, <2>1, <3>1 DEF Passed
      <4>2. rank[a] <= level
        BY <1>4, <4>1
      <4> QED
        BY <1>5, <4>1, <4>2
    <3> QED
      BY <1>1, <1>2, <3>1 DEF ProvidersAbove
  <2>7. AllPassed'
    BY <2>1 DEF AllPassed
  <2> QED
    BY <1>7, <2>4, <2>5, <2>6, <2>7 DEF RankInv
<1>9. CASE ~ (level + 1 < Len(ases_by_rank) /\ Level(level + 1) # {})
  <2>1. UNCHANGED <<ases_by_rank, level, cursor>>
    BY <1>9 DEF NextLevel
  <2>2. \A a : Passed(a)' <=> Passed(a)
    BY <1>1, <2>1 DEF Passed
  <2>3. RankTypes' /\ LevelsAreRanks' /\ ProvidersAbove'
    BY <1>1, <1>2, <2>1, <2>2 DEF RankTypes, LevelsAreRanks, ProvidersAbove
  <2>4. ASSUME NEW a \in ases, rank[a] >= 0
        PROVE  Passed(a)
    <3>1. Len(ases_by_rank) = level + 2
      BY <1>4, <2>4
    <3>2. level + 2 \in DOMAIN ases_by_rank /\ (level + 2) - 1 = level + 1
          /\ (level + 1) + 1 = level + 2
      BY <1>4, <3>1, LenProperties
    <3>3. Level(level + 1) = {}
      BY <1>4, <1>9, <3>1
    <3>4. ases_by_rank[level + 2] = {b \in ases : rank[b] = level + 1}
      BY <1>2, <3>2 DEF LevelsAreRanks
    <3>5. rank[a] # level + 1
      BY <3>2, <3>3, <3>4 DEF Level
    <3>6. rank[a] <= level
      BY <1>4, <3>5
    <3> QED
      BY <1>5, <2>4, <3>6
  <2>5. AllPassed'
    BY <1>1, <2>2, <2>4 DEF AllPassed
  <2> QED
    BY <1>7, <2>3, <2>5 DEF RankInv
<1> QED
  BY <1>8, <1>9

-----------------------------------------------------------------------------
(***************************************************************************)
(* Every call of process keeps all of it.                                  *)
(***************************************************************************)
\* Nothing is ranked before decide_ranks.
LEMMA NothingRanked ==
    ASSUME Beforehand, step \in {"stubs", "tarjan", "combine"}, step' # "done",
           UNCHANGED rankVars
    PROVE  RankInv' /\ NotRankedYet'
<1>1. ases_by_rank = <<>> /\ UNCHANGED <<rank, ases_by_rank, level, cursor>>
  BY DEF Beforehand, NotRankedYet, rankVars
<1> QED
  BY <1>1 DEF Beforehand, NotRankedYet, RankInv

\* The steps of tarjan.
LEMMA SearchKeepsInv ==
    ASSUME GraphInv, TarjanNext \/ TarjanNeighbor \/ TarjanReturn
    PROVE  Beforehand' /\ CombineInv' /\ RankInv'
<1>1. /\ step = "tarjan" /\ Beforehand
      /\ UNCHANGED <<input, step, ases, edges, stubVars, superVars, rankVars>>
  BY DEF GraphInv, TarjanInv, TarjanTypes, TarjanNext, TarjanNeighbor, TarjanReturn
<1>2. Beforehand'
  BY <1>1, BeforehandStays
<1>3. RankInv'
  BY <1>1, NothingRanked
<1>4. CombineInv'
  BY <1>1 DEF CombineInv, Later
<1> QED
  BY <1>2, <1>3, <1>4

\* The steps of combine_components.
LEMMA CombiningKeepsInv ==
    ASSUME GraphInv, StartSupernode \/ CombineMember \/ EndSupernode \/ EndCombine
    PROVE  Beforehand' /\ CombineInv' /\ RankInv'
<1>1. /\ step = "combine" /\ step' \in {"combine", "ranks"} /\ Later /\ Later'
      /\ TarjanInv /\ Beforehand /\ CombineInv
      /\ UNCHANGED <<input, stubVars, rankVars>>
  BY DEF GraphInv, StartSupernode, CombineMember, EndSupernode, EndCombine, Later
<1>2. RankInv' /\ NotRankedYet'
  BY <1>1, NothingRanked
<1>3. Beforehand'
  BY <1>1, <1>2, BeforehandOver
<1>4. CombineInv'
  <2>1. CASE StartSupernode
    BY <1>1, <2>1, StartKeepsInv
  <2>2. CASE CombineMember
    BY <1>1, <2>2, MemberKeepsInv
  <2>3. CASE EndSupernode
    BY <1>1, <2>3, EndKeepsCombined
  <2>4. CASE EndCombine
    BY <1>1, <2>4, CombineOver DEF EndCombine
  <2> QED
    BY <2>1, <2>2, <2>3, <2>4
<1> QED
  BY <1>2, <1>3, <1>4

\* The steps of decide_ranks.
LEMMA RankingKeepsInv ==
    ASSUME GraphInv, StartRanks \/ RaiseProviders \/ NextLevel
    PROVE  Beforehand' /\ CombineInv' /\ RankInv'
<1>1. /\ step = "ranks" /\ step' \in {"ranks", "done"} /\ Later /\ Later'
      /\ TarjanInv /\ Beforehand /\ CombineInv /\ RankInv
      /\ UNCHANGED <<input, ases, edges, stubVars, components, superVars>>
  BY DEF GraphInv, StartRanks, RaiseProviders, NextLevel, Later
<1>2. CombineInv'
  <2>1. supernode = NoSupernode
    BY <1>1 DEF CombineInv, InOrder
  <2> QED
    BY <1>1, <2>1, CombineOver
<1>3. RankInv'
  BY <1>1, StartRanksKeepsInv, RaiseKeepsInv, NextLevelKeepsInv
<1>4. ases_by_rank' # <<>>
  <2>1. CASE StartRanks
    BY <2>1 DEF StartRanks
  <2>2. CASE RaiseProviders
    <3>1. DOMAIN ases_by_rank' = DOMAIN ases_by_rank
      BY <2>2 DEF RaiseProviders, Moved
    <3>2. ases_by_rank # <<>> /\ ases_by_rank \in Seq(SUBSET ASNs)
      BY <1>1, <2>2 DEF RaiseProviders, RankInv, RankTypes
    <3>3. 1 \in DOMAIN ases_by_rank
      <4>1. Len(ases_by_rank) \in Nat \ {0} /\ DOMAIN ases_by_rank = 1..Len(ases_by_rank)
        BY <3>2, EmptySeq, LenProperties
      <4> QED
        BY <4>1
    <3> QED
      BY <3>1, <3>3
  <2>3. CASE NextLevel
    <3>1. ases_by_rank # <<>> /\ ases_by_rank \in Seq(SUBSET ASNs)
      BY <1>1, <2>3 DEF NextLevel, RankInv, RankTypes
    <3>2. ases_by_rank' = ases_by_rank \/ ases_by_rank' = Append(ases_by_rank, {})
      BY <2>3 DEF NextLevel
    <3>3. Append(ases_by_rank, {}) # <<>>
      BY <3>1
    <3> QED
      BY <3>1, <3>2, <3>3
  <2> QED
    BY <1>1, <2>1, <2>2, <2>3
<1>5. Beforehand'
  <2>1. NotRankedYet'
    BY <1>1, <1>4 DEF NotRankedYet
  <2> QED
    BY <1>1, <2>1, BeforehandOver
<1> QED
  BY <1>2, <1>3, <1>5

\* The program goes on with the graph, or does something else.
LEMMA ElsewhereKeepsInv ==
    ASSUME GraphInv, UNCHANGED vars
    PROVE  Beforehand' /\ CombineInv' /\ RankInv'
<1>1. /\ UNCHANGED <<input, step, ases, edges, stubVars, components, superVars, rankVars>>
      /\ UNCHANGED <<ases, providers, customers, components, rank, ases_by_rank, level, cursor>>
      /\ step' = step
      /\ Beforehand /\ CombineInv /\ RankInv
  BY DEF vars, edges, rankVars, GraphInv
<1>2. Beforehand'
  BY <1>1, BeforehandStays
<1>3. CombineInv'
  <2>1. CASE Later
    BY <1>1, <2>1, CombineOver
  <2>2. CASE ~Later
    BY <1>1, <2>2 DEF Later, CombineInv
  <2> QED
    BY <2>1, <2>2
<1>4. RankInv'
  <2>1. /\ \A a : Passed(a)' <=> Passed(a)
        /\ Leaves' = Leaves /\ Supernodes' = Supernodes
    BY <1>1 DEF Passed, Leaves, Supernodes
  <2>2. CASE ases_by_rank = <<>>
    BY <1>1, <2>2 DEF RankInv
  <2>3. CASE ases_by_rank # <<>>
    <3>1. RankTypes' /\ LevelsAreRanks'
      BY <1>1, <2>3 DEF RankInv, RankTypes, LevelsAreRanks
    <3>2. ProvidersAbove' /\ AllPassed'
      BY <1>1, <2>1, <2>3 DEF RankInv, ProvidersAbove, AllPassed
    <3>3. LeavesRanked' /\ RaisedByCustomer'
      BY <1>1, <2>1, <2>3 DEF RankInv, LeavesRanked, RaisedByCustomer
    <3> QED
      BY <3>1, <3>2, <3>3 DEF RankInv
  <2> QED
    BY <2>2, <2>3
<1> QED
  BY <1>2, <1>3, <1>4

\* The invariant holds when the tables have been read.
LEMMA GraphStarts == Init => GraphInv
<1> SUFFICES ASSUME Init
             PROVE  GraphInv
  OBVIOUS
<1>1. TarjanInv /\ Beforehand
  BY TarjanStarts, BeforehandStarts
<1>2. CombineInv /\ RankInv
  BY DEF Init, CombineInv, Later, RankInv
<1> QED
  BY <1>1, <1>2 DEF GraphInv

\* The invariant is inductive.
LEMMA GraphInductive == GraphInv /\ [Next]_vars => GraphInv'
<1> SUFFICES ASSUME GraphInv, [Next]_vars
             PROVE  GraphInv'
  OBVIOUS
<1>1. TarjanInv'
  BY TarjanInductive DEF GraphInv
<1>2. TarjanInv /\ Beforehand /\ CombineInv /\ RankInv
  BY DEF GraphInv
<1>3. CASE remove_stubs
  <2>1. /\ step = "stubs" /\ step' = "tarjan" /\ UNCHANGED rankVars
    BY <1>3 DEF remove_stubs
  <2>2. Beforehand'
    BY <1>2, <1>3, StubsKnownAfter
  <2>3. CombineInv'
    BY <2>1 DEF CombineInv, Later
  <2>4. RankInv'
    BY <1>2, <2>1, NothingRanked
  <2> QED
    BY <1>1, <2>2, <2>3, <2>4 DEF GraphInv
<1>4. CASE TarjanNext \/ TarjanNeighbor \/ TarjanReturn
  BY <1>1, <1>4, SearchKeepsInv DEF GraphInv
<1>5. CASE TarjanEnd
  <2>1. /\ step = "tarjan" /\ step' = "combine"
        /\ UNCHANGED <<input, edges, stubVars, superVars, rankVars>> /\ UNCHANGED rankVars
    BY <1>5 DEF TarjanEnd
  <2>2. Beforehand'
    BY <1>2, <2>1, BeforehandStays
  <2>3. CombineInv'
    BY <1>2, <1>5, CombineStarts
  <2>4. RankInv'
    BY <1>2, <2>1, NothingRanked
  <2> QED
    BY <1>1, <2>2, <2>3, <2>4 DEF GraphInv
<1>6. CASE StartSupernode \/ CombineMember \/ EndSupernode \/ EndCombine
  BY <1>1, <1>6, CombiningKeepsInv DEF GraphInv
<1>7. CASE StartRanks \/ RaiseProviders \/ NextLevel
  BY <1>1, <1>7, RankingKeepsInv DEF GraphInv
<1>8. CASE Ready \/ UNCHANGED vars
  <2>1. UNCHANGED vars
    BY <1>8 DEF Ready
  <2> QED
    BY <1>1, <2>1, ElsewhereKeepsInv DEF GraphInv
<1> QED
  BY <1>3, <1>4, <1>5, <1>6, <1>7, <1>8 DEF Next

\* Removing stubs, combining components and ranking keep to the invariant
\* (process, BaseGraph.cpp), whatever the tables say.
THEOREM GraphIsKept == Spec => []GraphInv
  BY GraphStarts, GraphInductive, PTL DEF Spec

-----------------------------------------------------------------------------
(***************************************************************************)
(* What the runs check, from the invariant.                                *)
(***************************************************************************)
\* Each member of a component is translated to its lowest ASN, and that one
\* entered the graph.
LEMMA ResolvedInGraph == GraphInv => EveryAsnResolves
<1> SUFFICES ASSUME GraphInv, step \in {"ranks", "done"}
             PROVE  EveryAsnResolves
  BY DEF EveryAsnResolves
<1>1. /\ TarjanInv /\ CombineInv /\ Translated /\ ases \subseteq non_stubs
      /\ supernode.asn = -1 /\ Found
  BY GraphIsClosed DEF GraphInv
<1>2. /\ DOMAIN stubs_to_parents = Named \ non_stubs
      /\ \A a \in Named \ non_stubs : stubs_to_parents[a] \in non_stubs
  BY DEF GraphInv, Beforehand, StubsKnown
<1>3. ASSUME NEW a \in non_stubs
      PROVE  Resolved(a)
  <2>1. CASE a \in Combined
    <3>1. PICK k \in DOMAIN components :
             /\ component_translation[a] = Lowest(k)
             /\ supernode.asn # Lowest(k) => Lowest(k) \in ases
      BY <1>1, <2>1 DEF Translated
    <3>2. Lowest(k) # -1
      BY <1>1 DEF Found
    <3> QED
      BY <1>1, <2>1, <3>1, <3>2 DEF Resolved, Translate, Combined
  <2>2. CASE a \notin Combined
    BY <1>1, <2>2 DEF Resolved, Translate, Translated, Combined
  <2> QED
    BY <2>1, <2>2
<1>4. ASSUME NEW a \in Named
      PROVE  IF a \in DOMAIN stubs_to_parents THEN a \notin ases /\ Resolved(stubs_to_parents[a])
             ELSE a \in non_stubs /\ Resolved(a)
  BY <1>1, <1>2, <1>3
<1> QED
  BY <1>4 DEF EveryAsnResolves, Named

\* One supernode at most: no two of them differ.
LEMMA OneSupernode ==
    ASSUME TarjanInv, Later, Cardinality(Supernodes) <= 1
    PROVE  Single
<1>1. components \in Seq(Seq(non_stubs))
  BY DEF TarjanInv, TarjanTypes
<1>2. IsFiniteSet(Supernodes)
  <2>1. IsFiniteSet(1..Len(components)) /\ DOMAIN components = 1..Len(components)
    BY <1>1, LenProperties, FS_Interval
  <2>2. IsFiniteSet(ToSet(components))
    <3>1. components \in Surjection(DOMAIN components, ToSet(components))
      BY <1>1, LenProperties DEF Surjection, ToSet
    <3> QED
      BY <2>1, <3>1, FS_Surjection
  <2> QED
    BY <2>2, FS_Subset DEF Supernodes
<1>3. ASSUME NEW c \in Supernodes, NEW d \in Supernodes, c # d
      PROVE  FALSE
  <2>1. IsFiniteSet({c}) /\ Cardinality({c}) = 1
    BY FS_Singleton
  <2>2. IsFiniteSet({c} \union {d}) /\ Cardinality({c} \union {d}) = 2
    BY <1>3, <2>1, FS_AddElement
  <2>3. Cardinality({c} \union {d}) <= Cardinality(Supernodes)
    BY <1>2, FS_Subset
  <2>4. Cardinality(Supernodes) \in Nat
    BY <1>2, FS_CardinalityType
  <2> QED
    BY <2>2, <2>3, <2>4
<1> QED
  BY <1>3 DEF Single

\* Who is left has no neighbour that is gone, and with one supernode at most
\* combined_AS has none either.
LEMMA NeighboursAreThere == GraphInv => NeighboursExist
<1> SUFFICES ASSUME GraphInv
             PROVE  NeighboursExist
  OBVIOUS
<1>0. TarjanInv /\ Beforehand /\ CombineInv
  BY DEF GraphInv
<1>1. ASSUME left # <<>>
      PROVE  External(NeighboursOf(Head(left))) \subseteq ases
  <2>1. Later
    <3>1. step \in {"stubs", "tarjan", "combine", "ranks", "done"}
      BY <1>0 DEF TarjanInv, GraphKnown
    <3>2. step \notin {"stubs", "tarjan"}
      BY <1>0, <1>1 DEF Beforehand, NotCombinedYet
    <3> QED
      BY <3>1, <3>2 DEF Later
  <2>2. supernode # NoSupernode /\ left \in Seq(non_stubs)
    <3>1. InOrder /\ EdgeTypes
      BY <1>0, <2>1 DEF CombineInv
    <3>2. supernode.asn # -1
      BY <1>1, <3>1 DEF InOrder
    <3> QED
      BY <3>1, <3>2 DEF EdgeTypes, NoSupernode
  <2>3. Present
    BY <1>0, <2>1 DEF CombineInv
  <2>4. PICK w \in DOMAIN components :
           /\ supernode.asn \in Members(w) /\ Members(w) \subseteq non_stubs
           /\ Working = Members(w)
           /\ ToSet(left) = Members(w) \ Combined
    BY <1>0, <2>1, <2>2, ComponentInWork
  <2>5. Head(left) \in ToSet(left)
    <3>1. 1 \in DOMAIN left /\ Head(left) = left[1]
      BY <1>1, <2>2, EmptySeq, LenProperties, HeadTailProperties
    <3> QED
      BY <3>1 DEF ToSet
  <2>6. Head(left) \in non_stubs \ Combined
    BY <2>4, <2>5
  <2>7. ASSUME NEW y \in NeighboursOf(Head(left)), y \notin Working
        PROVE  y \in ases
    BY <2>3, <2>4, <2>6, <2>7 DEF Present
  <2> QED
    BY <2>7 DEF External
<1>2. ASSUME step = "ranks", Cardinality(Supernodes) <= 1, NEW a \in ases
      PROVE  NeighboursOf(a) \subseteq ases
  <2>1. /\ Single /\ ases \subseteq non_stubs /\ SingleKnows
        /\ \A x \in non_stubs \ Combined : NeighboursOf(x) \subseteq ases
    BY <1>0, <1>2, OneSupernode, GraphIsClosed DEF Later, CombineInv
  <2>2. CASE a \in Combined
    BY <2>1, <2>2 DEF SingleKnows
  <2>3. CASE a \notin Combined
    BY <2>1, <2>3
  <2> QED
    BY <2>2, <2>3
<1> QED
  BY <1>1, <1>2 DEF NeighboursExist

\* combined_AS gathered the relations of its members before they went.
LEMMA RelationsGathered == GraphInv => RelationsKept
<1> SUFFICES ASSUME GraphInv, step \in {"ranks", "done"}, Cardinality(Supernodes) <= 1,
                    NEW a \in non_stubs, NEW p \in input.providers[a],
                    Translate(a) # Translate(p)
             PROVE  Translate(p) \in providers[Translate(a)]
                       \/ Translate(a) \in customers[Translate(p)]
  BY DEF RelationsKept
<1>1. /\ Found /\ Translated /\ Single /\ Working = {} /\ supernode.asn = -1
      /\ KnownToBoth /\ SingleKnows
  BY OneSupernode, GraphIsClosed DEF GraphInv, Later, CombineInv
<1>2. p \in non_stubs
  BY <1>1 DEF Found
<1>3. CASE a \notin Combined /\ p \notin Combined
  BY <1>1, <1>3 DEF KnownToBoth, Translate, Combined
<1>4. CASE a \in Combined /\ p \notin Combined
  <2>1. p \in providers[component_translation[a]]
    BY <1>1, <1>4 DEF SingleKnows
  <2> QED
    BY <1>4, <2>1 DEF Translate, Combined
<1>5. CASE a \notin Combined /\ p \in Combined
  <2>1. a \in customers[component_translation[p]]
    BY <1>1, <1>5 DEF SingleKnows
  <2> QED
    BY <1>5, <2>1 DEF Translate, Combined
<1>6. CASE a \in Combined /\ p \in Combined
  <2>1. PICK k \in DOMAIN components :
           Len(components[k]) > 1 /\ a \in Members(k) /\ component_translation[a] = Lowest(k)
    BY <1>1, <1>6 DEF Translated
  <2>2. PICK l \in DOMAIN components :
           p \in Members(l) /\ component_translation[p] = Lowest(l)
    BY <1>1, <1>6 DEF Translated
  <2>3. p \in Members(k)
    BY <1>1, <1>6, <2>1, OneComponent
  <2>4. k = l
    BY <1>1, <2>2, <2>3, SameComponent
  <2> QED
    BY <1>6, <2>1, <2>2, <2>4 DEF Translate, Combined
<1> QED
  BY <1>3, <1>4, <1>5, <1>6

\* Without a cycle nobody is left out of the ranks: of those who were, one
\* whose component was found last would have a customer left out as well, in
\* a component found later.
LEMMA NobodyUnranked ==
    ASSUME GraphInv, step = "done", ases_by_rank # <<>>, Supernodes = {}
    PROVE  \A a \in ases : rank[a] >= 0
<1>1. /\ Found /\ Ordered /\ ases \subseteq ASNs
      /\ RankTypes /\ ProvidersAbove /\ AllPassed /\ LeavesRanked
      /\ components \in Seq(Seq(non_stubs))
  BY GraphIsClosed DEF GraphInv, CombineInv, Later, RankInv, TarjanInv, TarjanTypes
<1>2. /\ ases = non_stubs
      /\ \A x, y \in ases : y \in providers[x] <=> x \in customers[y]
      /\ \A x \in ases : x \notin providers[x] /\ customers[x] \subseteq ases
      /\ \A k \in DOMAIN components : ~ (Len(components[k]) > 1)
  BY NothingCombined DEF GraphInv
<1>3. \A a \in ases : rank[a] \in Int
  BY <1>1 DEF RankTypes
<1>4. ASSUME NEW a \in ases, ~ (rank[a] >= 0)
      PROVE  \E c \in customers[a] : c \in ases /\ ~ (rank[c] >= 0)
  <2>1. customers[a] # {} /\ customers[a] \subseteq ases
    BY <1>1, <1>2, <1>4 DEF LeavesRanked, Leaves
  <2>2. ASSUME NEW c \in customers[a], rank[c] >= 0
        PROVE  FALSE
    <3>1. c \in ases /\ a \in providers[c]
      BY <1>2, <2>1
    <3>2. rank[a] > rank[c]
      BY <1>1, <2>2, <3>1 DEF AllPassed, ProvidersAbove
    <3> QED
      BY <1>3, <1>4, <2>2, <3>1, <3>2
  <2> QED
    BY <2>1, <2>2
\* No two ASes share a component.
<1>5. ASSUME NEW k \in DOMAIN components, NEW a \in Members(k), NEW b \in Members(k)
      PROVE  a = b
  <2>1. DOMAIN components[k] \subseteq {1}
    <3>1. components[k] \in Seq(non_stubs)
      BY <1>1 DEF Found
    <3>2. Len(components[k]) \in Nat /\ DOMAIN components[k] = 1..Len(components[k])
      BY <3>1, LenProperties
    <3>3. Len(components[k]) <= 1
      BY <1>2, <3>2
    <3> QED
      BY <3>2, <3>3
  <2> QED
    BY <2>1 DEF Members, ToSet
\* How many components were found after one that has an unranked AS.
<1> DEFINE After == {n \in Nat : \E a \in ases : \E k \in DOMAIN components :
                        a \in Members(k) /\ ~ (rank[a] >= 0) /\ n = Len(components) - k}
<1> SUFFICES ASSUME NEW a \in ases, ~ (rank[a] >= 0)
             PROVE  FALSE
  OBVIOUS
<1>6. Len(components) \in Nat /\ DOMAIN components = 1..Len(components)
  BY <1>1, LenProperties
<1>7. After # {}
  <2>1. PICK k \in DOMAIN components : a \in Members(k)
    BY <1>1, <1>2 DEF Found
  <2>2. Len(components) - k \in Nat
    BY <1>6, <2>1
  <2>3. Len(components) - k \in After
    BY <2>1, <2>2
  <2> QED
    BY <2>3
<1>8. PICK n \in After : \A m \in After : n <= m
  <2>1. After \in SUBSET Nat
    OBVIOUS
  <2> HIDE DEF After
  <2> QED
    BY <1>7, <2>1, SmallestExists
<1>9. PICK b \in ases, k \in DOMAIN components :
         b \in Members(k) /\ ~ (rank[b] >= 0) /\ n = Len(components) - k
  BY <1>8
<1>10. PICK c \in customers[b] : c \in ases /\ ~ (rank[c] >= 0)
  BY <1>4, <1>9
<1>11. PICK l \in DOMAIN components : c \in Members(l)
  BY <1>1, <1>2, <1>10 DEF Found
<1>12. k <= l
  BY <1>1, <1>2, <1>9, <1>10, <1>11 DEF Ordered, NoLater
<1>13. k # l
  <2>1. b # c
    BY <1>2, <1>10
  <2> QED
    BY <1>5, <1>9, <1>11, <2>1
<1>14. Len(components) - l \in After
  <2>1. Len(components) - l \in Nat
    BY <1>6, <1>11
  <2> QED
    BY <1>10, <1>11, <2>1
<1>15. n <= Len(components) - l
  BY <1>8, <1>14
<1> QED
  BY <1>6, <1>9, <1>11, <1>12, <1>13, <1>15

\* The levels are the ranks, and the ranks of a graph without cycles are the
\* lengths of its chains.
LEMMA LevelsMatch == GraphInv => LevelsMatchRanks
<1> SUFFICES ASSUME GraphInv, ases_by_rank # <<>>
             PROVE  LevelsMatchRanks
  BY DEF LevelsMatchRanks
<1>1. RankTypes /\ LevelsAreRanks /\ ProvidersAbove /\ AllPassed /\ RaisedByCustomer
  BY DEF GraphInv, RankInv
<1>2. \A a \in ases : rank[a] \in Int
  BY <1>1 DEF RankTypes
<1>3. ASSUME step = "done", NEW a \in ases, NEW p \in providers[a], rank[a] >= 0
      PROVE  rank[p] > rank[a]
  BY <1>1, <1>3 DEF AllPassed, ProvidersAbove
<1>4. ASSUME step = "done", Supernodes = {}, NEW a \in ases
      PROVE  LongestChain(a)
  <2>1. rank[a] >= 0 /\ \A c \in ases : rank[c] >= 0
    BY <1>4, NobodyUnranked
  <2>2. ASSUME NEW c \in customers[a]
        PROVE  rank[c] < rank[a] /\ rank[c] \in Int
    <3>1. c \in ases /\ a \in providers[c]
      BY <1>4, NothingCombined DEF GraphInv
    <3>2. rank[a] > rank[c] /\ rank[c] \in Int /\ rank[a] \in Int
      BY <1>2, <1>3, <1>4, <2>1, <3>1
    <3> QED
      BY <3>2
  <2>3. ASSUME rank[a] > 0
        PROVE  \E c \in customers[a] : rank[c] = rank[a] - 1
    <3>1. PICK c \in customers[a] : rank[c] >= rank[a] - 1
      BY <1>1, <1>4, <2>3 DEF RaisedByCustomer
    <3>2. rank[c] = rank[a] - 1
      BY <1>2, <2>2, <3>1
    <3> QED
      BY <3>2
  <2> QED
    BY <2>1, <2>2, <2>3 DEF LongestChain
<1> QED
  BY <1>1, <1>3, <1>4 DEF LevelsMatchRanks, LevelsAreRanks

\* No ASN of the tables is lost by the stub removal or by the supernodes
\* (remove_stubs, combine_components).
THEOREM NoAsnIsLost == Spec => []EveryAsnResolves
  BY GraphIsKept, ResolvedInGraph, PTL

\* combine_components never looks for a neighbour that is gone.
THEOREM NoNeighbourIsGone == Spec => []NeighboursExist
  BY GraphIsKept, NeighboursAreThere, PTL

\* With one component to combine at most, no relation of the tables is lost.
THEOREM NoRelationIsLost == Spec => []RelationsKept
  BY GraphIsKept, RelationsGathered, PTL

\* The levels of decide_ranks and the ranks agree at every step, and are the
\* lengths of the customer chains in the end.
THEOREM RanksAreRight == Spec => []LevelsMatchRanks
  BY GraphIsKept, LevelsMatch, PTL
===============================================================================
