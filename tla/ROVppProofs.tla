------------------------------ MODULE ROVppProofs ------------------------------
(***************************************************************************)
(* Theorems about ROVppExtrapolator, for every simulation: any graph, any  *)
(* mix of policies, any rows and any number of prefixes.                   *)
(***************************************************************************)
EXTENDS ROVppExtrapolator, SequenceTheorems, WellFoundedInduction, TLAPS

Announcement ==
    [origin : Nat, netmask : Nat, block_id : input.blocks, as_path : Seq(Nat),
     priority : Int, received_from_asn : Nat, alt : Nat,
     withdraw : BOOLEAN, from_monitor : BOOLEAN]

Senders == [netmask : Nat, received_from_asn : Nat]
Origins == [netmask : Nat, origin : Nat]

\* The record of an AS that has elements of R in its ribs_in and of L in its
\* slots and withdrawals.
ASRecord(R, L) ==
    [ribs_in : Seq(R), loc_rib : [input.blocks -> L \union {NoAnn}], withdrawals : Seq(L),
     bad_neighbors : SUBSET Nat, failed_rov : SUBSET Senders, passed_rov : SUBSET Senders,
     blackholes : SUBSET Origins, preventive_anns : SUBSET Origins, graph_changed : BOOLEAN]

ControlOK ==
    /\ input \in Inputs
    /\ rows \in Seq(Elements(input.rows))
    /\ sweep \in {"seed", "up", "peers", "down", "done"}
    /\ pending \subseteq ASes
    /\ count \in Nat

TypeOK == /\ ControlOK
          /\ ases \in [ASes -> ASRecord(Announcement, Announcement)]

-----------------------------------------------------------------------------
(***************************************************************************)
(* The inductive invariant: what the ribs_in and the slots of an AS hold.  *)
(***************************************************************************)
\* The adopters HolesGoDown speaks of.
Side == {a \in Adopts(Filtering) : OnTheSide(a)}

\* What an AS a on the side has not told its providers and peers.
Withheld(a) ==
    input.attackers \union
        (IF input.policy[a] = ROVPPAS_TYPE_ROVPPBIS THEN {UNUSED_ASN_FLAG_FOR_BLACKHOLES} ELSE {})

\* An AS on the side has made up no route, sent nothing up that it withholds,
\* and got with the priority of a customer's route only what customers sent
\* or passes ROV.
InRibs(b) ==
    {ann \in Announcement :
        /\ ann.origin \notin Side
        /\ \A a \in Side : /\ b \in input.topo.providers[a] \union input.topo.peers[a]
                           /\ ann.received_from_asn = a
                           => ann.origin \notin Withheld(a)
        /\ b \in Side /\ ann.priority >= 200 /\ ~ pass_rov(ann) =>
               ann.received_from_asn \in input.topo.customers[b]}

\* An AS on the side holds no hijack, and with 0.2bis no blackhole it exports;
\* an adopter holds no hijack it learned.
InSlots(b) ==
    {ann \in Announcement :
        /\ ann.origin \notin Side
        /\ b \in Side => /\ ann.origin \notin input.attackers
                         /\ ann.priority >= 200 => ann.origin \notin Withheld(b)
        /\ ~ ann.from_monitor =>
               /\ b \in Adopts({ROVPPAS_TYPE_ROV} \union Blackholing) =>
                      ann.origin \notin input.attackers
               /\ b \in Adopts({ROVPPAS_TYPE_ASPA}) =>
                      pass_aspa(ann) \/ ann.origin \notin input.attackers}

IInv == /\ ControlOK
        /\ ases \in [ASes -> ASRecord(Announcement, Announcement)]
        /\ \A b \in ASes : ases[b] \in ASRecord(InRibs(b), InSlots(b))

-----------------------------------------------------------------------------
(***************************************************************************)
(* Loops.                                                                  *)
(***************************************************************************)
\* Every nonempty set of natural numbers has a least element.
LEMMA LeastExists ==
    ASSUME NEW S \in SUBSET Nat, S # {}
    PROVE  \E x \in S : \A y \in S : x <= y
<1>1. PICK x \in S : \A y \in S : <<y, x>> \notin OpToRel(<, Nat)
  BY NatLessThanWellFounded, WFMin
<1>2. ASSUME NEW y \in S
      PROVE  x <= y
  <2>1. x \in Nat /\ y \in Nat /\ <<y, x>> \notin OpToRel(<, Nat)
    BY <1>1
  <2>2. QED
    BY <2>1 DEF OpToRel
<1>3. QED
  BY <1>2

\* What holds before the first turn of a loop of n, and after each turn if
\* before it.
LEMMA UpTo ==
    ASSUME NEW n \in Nat, NEW S, 0 \in S, \A k \in 1..n : k - 1 \in S => k \in S
    PROVE  \A k \in 0..n : k \in S
<1> DEFINE Out == {k \in 0..n : k \notin S}
<1>1. SUFFICES ASSUME Out # {} PROVE FALSE
  OBVIOUS
<1>2. PICK k \in Out : \A l \in Out : k <= l
  <2>1. Out \in SUBSET Nat
    OBVIOUS
  <2>2. QED
    BY <1>1, <2>1, LeastExists
<1>3. k \in 1..n /\ k - 1 \in 0..n /\ ~ (k <= k - 1)
  BY <1>2
<1>4. k - 1 \in S
  BY <1>2, <1>3
<1>5. QED
  BY <1>2, <1>3, <1>4

\* The turns of a loop whose body is step.
Loop(n, base, step, f) ==
    /\ f = [k \in 0..n |-> f[k]]
    /\ f[0] = base
    /\ \A k \in 1..n : f[k] = step[<<f[k - 1], k>>]

\* A loop has its turns.
LEMMA LoopExists ==
    ASSUME NEW n \in Nat, NEW base, NEW step
    PROVE  \E f : Loop(n, base, step, f)
<1> DEFINE S == {m \in Nat : \E f : Loop(m, base, step, f)}
<1>1. 0 \in S
  <2> DEFINE f == [k \in 0..0 |-> base]
  <2>1. f = [k \in 0..0 |-> f[k]] /\ f[0] = base
    OBVIOUS
  <2> HIDE DEF f
  <2>2. Loop(0, base, step, f)
    BY <2>1 DEF Loop
  <2>3. QED
    BY <2>2
<1>2. ASSUME NEW m \in 1..n, m - 1 \in S
      PROVE  m \in S
  <2>1. PICK g : Loop(m - 1, base, step, g)
    BY <1>2
  <2>2. /\ g[0] = base
        /\ \A k \in 1..(m - 1) : g[k] = step[<<g[k - 1], k>>]
    BY <2>1 DEF Loop
  <2> DEFINE f == [k \in 0..m |-> IF k = m THEN step[<<g[m - 1], m>>] ELSE g[k]]
  <2>3. \A k \in 0..(m - 1) : f[k] = g[k]
    OBVIOUS
  <2>4. f[0] = base
    BY <2>2, <2>3
  <2>5. f[m] = step[<<f[m - 1], m>>]
    BY <2>3
  <2>6. ASSUME NEW k \in 1..m
        PROVE  f[k] = step[<<f[k - 1], k>>]
    <3>1. CASE k = m
      BY <2>5, <3>1
    <3>2. CASE k # m
      <4>1. k \in 1..(m - 1) /\ k - 1 \in 0..(m - 1) /\ k \in 0..(m - 1)
        BY <3>2
      <4>2. f[k] = g[k] /\ f[k - 1] = g[k - 1]
        BY <2>3, <4>1
      <4>3. QED
        BY <2>2, <4>1, <4>2
    <3>3. QED
      BY <3>1, <3>2
  <2>7. f = [k \in 0..m |-> f[k]]
    OBVIOUS
  <2> HIDE DEF f
  <2>8. Loop(m, base, step, f)
    BY <2>4, <2>6, <2>7 DEF Loop
  <2>9. QED
    BY <2>8
<1> HIDE DEF S
<1>3. n \in S
  BY <1>1, <1>2, UpTo
<1>4. QED
  BY <1>3 DEF S

LoopWithin(n, X, base, step, f) ==
    /\ f \in [0..n -> X]
    /\ f[0] = base
    /\ \A k \in 1..n : f[k] = step[<<f[k - 1], k>>]

\* The turns of a loop whose body stays within a set stay within it.
LEMMA LoopIn ==
    ASSUME NEW n \in Nat, NEW X, NEW base \in X, NEW step \in [X \X (1..n) -> X]
    PROVE  \E f : LoopWithin(n, X, base, step, f)
<1>1. PICK f : Loop(n, base, step, f)
  BY LoopExists
<1>2. /\ f = [k \in 0..n |-> f[k]] /\ f[0] = base
      /\ \A k \in 1..n : f[k] = step[<<f[k - 1], k>>]
  BY <1>1 DEF Loop
<1> DEFINE S == {k \in 0..n : f[k] \in X}
<1>3. 0 \in S
  BY <1>2
<1>4. ASSUME NEW k \in 1..n, k - 1 \in S
      PROVE  k \in S
  <2>1. <<f[k - 1], k>> \in X \X (1..n)
    BY <1>4
  <2>2. f[k] \in X
    BY <1>2, <2>1
  <2>3. QED
    BY <2>2
<1> HIDE DEF S
<1>5. \A k \in 0..n : k \in S
  BY <1>3, <1>4, UpTo
<1>6. \A k \in 0..n : f[k] \in X
  BY <1>5 DEF S
<1>7. f \in [0..n -> X]
  BY <1>2, <1>6
<1>8. LoopWithin(n, X, base, step, f)
  BY <1>2, <1>7 DEF LoopWithin
<1>9. QED
  BY <1>8

-----------------------------------------------------------------------------
(***************************************************************************)
(* The elements of a sequence that are in a set.                           *)
(***************************************************************************)
Taken(s, S, f) ==
    f = [k \in 0..Len(s) |-> IF k = 0 THEN <<>>
                             ELSE IF s[k] \in S THEN Append(f[k - 1], s[k]) ELSE f[k - 1]]

\* Those are elements of the sequence and of the set.
LEMMA ThoseType ==
    ASSUME NEW X, NEW s \in Seq(X), NEW S
    PROVE  Those(s, S) \in Seq(X \intersect S)
<1> DEFINE n == Len(s)
           Y == Seq(X \intersect S)
           step == [p \in Y \X (1..n) |-> IF s[p[2]] \in S THEN Append(p[1], s[p[2]]) ELSE p[1]]
<1>1. n \in Nat /\ <<>> \in Y /\ \A k \in 1..n : s[k] \in X
  OBVIOUS
<1>2. \A t \in Y, k \in 1..n : (IF s[k] \in S THEN Append(t, s[k]) ELSE t) \in Y
  BY <1>1
<1>3. step \in [Y \X (1..n) -> Y]
  BY <1>2
<1>4. \A t \in Y, k \in 1..n :
         step[<<t, k>>] = IF s[k] \in S THEN Append(t, s[k]) ELSE t
  OBVIOUS
<1>5. Those(s, S) = (CHOOSE f : Taken(s, S, f))[n]
  BY DEF Those, Taken
<1>6. n = Len(s)
  OBVIOUS
<1> HIDE DEF Y, step, n
<1>7. PICK g : LoopWithin(n, Y, <<>>, step, g)
  BY <1>1, <1>3, LoopIn
<1>8. \A k \in 1..n : g[k] = IF s[k] \in S THEN Append(g[k - 1], s[k]) ELSE g[k - 1]
  <2>1. \A k \in 1..n : k - 1 \in 0..n /\ g[k - 1] \in Y
    BY <1>1, <1>7 DEF LoopWithin
  <2>2. QED
    BY <1>4, <1>7, <2>1 DEF LoopWithin
<1>9. Taken(s, S, g)
  <2>1. g = [k \in 0..n |-> g[k]] /\ \A k \in 0..n : k = 0 \/ (k # 0 /\ k \in 1..n)
    BY <1>1, <1>7 DEF LoopWithin
  <2>2. \A k \in 0..n : g[k] = IF k = 0 THEN <<>>
                               ELSE IF s[k] \in S THEN Append(g[k - 1], s[k]) ELSE g[k - 1]
    BY <1>7, <1>8, <2>1 DEF LoopWithin
  <2>3. QED
    BY <1>6, <2>1, <2>2 DEF Taken
<1> DEFINE f == CHOOSE f : Taken(s, S, f)
<1>10. Taken(s, S, f)
  BY <1>9
<1>11. Those(s, S) = f[n]
  BY <1>5
<1> HIDE DEF f
<1>12. /\ f[0] = <<>>
       /\ \A k \in 1..n : f[k] = IF s[k] \in S THEN Append(f[k - 1], s[k]) ELSE f[k - 1]
  <2>1. f = [k \in 0..n |-> IF k = 0 THEN <<>>
                            ELSE IF s[k] \in S THEN Append(f[k - 1], s[k]) ELSE f[k - 1]]
    BY <1>6, <1>10 DEF Taken
  <2> HIDE DEF f
  <2>2. \A k \in 0..n : f[k] = IF k = 0 THEN <<>>
                               ELSE IF s[k] \in S THEN Append(f[k - 1], s[k]) ELSE f[k - 1]
    BY <2>1
  <2>3. QED
    BY <1>1, <2>2
<1> DEFINE K == {k \in 0..n : f[k] \in Y}
<1>13. 0 \in K
  BY <1>1, <1>12
<1>14. ASSUME NEW k \in 1..n, k - 1 \in K
       PROVE  k \in K
  BY <1>1, <1>2, <1>12, <1>14
<1>15. n \in K
  <2>1. n \in Nat /\ n \in 0..n
    BY <1>1
  <2> HIDE DEF K
  <2>2. QED
    BY <1>13, <1>14, <2>1, UpTo
<1>16. QED
  BY <1>11, <1>15 DEF Y

\* What holds before the loop and is kept by its turns holds after each.
LEMMA LoopStays ==
    ASSUME NEW n \in Nat, NEW X, NEW f, f[0] \in X, \A k \in 1..n : f[k - 1] \in X => f[k] \in X
    PROVE  \A k \in 0..n : f[k] \in X
<1> DEFINE K == {k \in 0..n : f[k] \in X}
<1>1. 0 \in K /\ \A k \in 1..n : k - 1 \in K => k \in K
  OBVIOUS
<1> HIDE DEF K
<1>2. \A k \in 0..n : k \in K
  BY <1>1, UpTo
<1>3. QED
  BY <1>2 DEF K

-----------------------------------------------------------------------------
(***************************************************************************)
(* The loops of the program: what their bodies keep holds at each turn.    *)
(***************************************************************************)
BestTurns(candidates, ann, f) ==
    f = [k \in 0..Len(candidates) |-> IF k = 0 THEN ann ELSE Preferred(f[k - 1], candidates[k], ann)]

\* best_alternative_route over its candidates.
LEMMA BestSoFarIn ==
    ASSUME NEW candidates, NEW ann, NEW X, Len(candidates) \in Nat, ann \in X,
           \A t \in X, k \in 1..Len(candidates) : Preferred(t, candidates[k], ann) \in X
    PROVE  \A k \in 0..Len(candidates) : BestSoFar(candidates, ann)[k] \in X
<1> DEFINE n == Len(candidates)
           step == [p \in X \X (1..n) |-> Preferred(p[1], candidates[p[2]], ann)]
<1>1. n \in Nat /\ step \in [X \X (1..n) -> X]
  OBVIOUS
<1>2. \A t \in X, k \in 1..n : step[<<t, k>>] = Preferred(t, candidates[k], ann)
  OBVIOUS
<1>3. BestSoFar(candidates, ann) = (CHOOSE f : BestTurns(candidates, ann, f))
  BY DEF BestSoFar, BestTurns
<1>4. n = Len(candidates)
  OBVIOUS
<1> HIDE DEF step, n
<1>5. PICK g : LoopWithin(n, X, ann, step, g)
  BY <1>1, LoopIn
<1>6. BestTurns(candidates, ann, g)
  <2>1. \A k \in 1..n : k - 1 \in 0..n /\ g[k - 1] \in X
    BY <1>1, <1>5 DEF LoopWithin
  <2>2. \A k \in 1..n : g[k] = Preferred(g[k - 1], candidates[k], ann)
    BY <1>2, <1>5, <2>1 DEF LoopWithin
  <2>3. g = [k \in 0..n |-> g[k]] /\ \A k \in 0..n : k = 0 \/ (k # 0 /\ k \in 1..n)
    BY <1>1, <1>5 DEF LoopWithin
  <2>4. \A k \in 0..n : g[k] = IF k = 0 THEN ann ELSE Preferred(g[k - 1], candidates[k], ann)
    BY <1>5, <2>2, <2>3 DEF LoopWithin
  <2>5. QED
    BY <1>4, <2>3, <2>4 DEF BestTurns
<1> DEFINE f == BestSoFar(candidates, ann)
<1>7. BestTurns(candidates, ann, f)
  BY <1>3, <1>6
<1> HIDE DEF f
<1>8. f[0] = ann /\ \A k \in 1..n : f[k] = Preferred(f[k - 1], candidates[k], ann)
  <2>1. f = [k \in 0..n |-> IF k = 0 THEN ann ELSE Preferred(f[k - 1], candidates[k], ann)]
    BY <1>4, <1>7 DEF BestTurns
  <2>2. \A k \in 0..n : f[k] = IF k = 0 THEN ann ELSE Preferred(f[k - 1], candidates[k], ann)
    BY <2>1
  <2>3. 0 \in 0..n /\ \A k \in 1..n : k \in 0..n /\ k # 0
    BY <1>1
  <2>4. QED
    BY <2>2, <2>3
<1>9. \A k \in 1..n : f[k - 1] \in X => f[k] \in X
  BY <1>4, <1>8
<1>10. \A k \in 0..n : f[k] \in X
  BY <1>1, <1>8, <1>9, LoopStays
<1>11. QED
  BY <1>4, <1>10 DEF f

CopyTurns(s, f) ==
    f = [k \in 0..Len(s.ribs_in) |-> IF k = 0 THEN [as |-> s, i |-> 0] ELSE CancelOne(f[k - 1], s.ribs_in[k])]

\* The loop over the copy of the ribs_in.
LEMMA CancelTurnsIn ==
    ASSUME NEW s, NEW X, Len(s.ribs_in) \in Nat, [as |-> s, i |-> 0] \in X,
           \A t \in X, k \in 1..Len(s.ribs_in) : CancelOne(t, s.ribs_in[k]) \in X
    PROVE  \A k \in 0..Len(s.ribs_in) : CancelTurns(s)[k] \in X
<1> DEFINE n == Len(s.ribs_in)
           step == [p \in X \X (1..n) |-> CancelOne(p[1], s.ribs_in[p[2]])]
<1>1. n \in Nat /\ step \in [X \X (1..n) -> X]
  OBVIOUS
<1>2. \A t \in X, k \in 1..n : step[<<t, k>>] = CancelOne(t, s.ribs_in[k])
  OBVIOUS
<1>3. CancelTurns(s) = (CHOOSE f : CopyTurns(s, f))
  BY DEF CancelTurns, CopyTurns
<1>4. n = Len(s.ribs_in)
  OBVIOUS
<1> HIDE DEF step, n
<1>5. PICK g : LoopWithin(n, X, [as |-> s, i |-> 0], step, g)
  BY <1>1, LoopIn
<1>6. CopyTurns(s, g)
  <2>1. \A k \in 1..n : k - 1 \in 0..n /\ g[k - 1] \in X
    BY <1>1, <1>5 DEF LoopWithin
  <2>2. \A k \in 1..n : g[k] = CancelOne(g[k - 1], s.ribs_in[k])
    BY <1>2, <1>5, <2>1 DEF LoopWithin
  <2>3. g = [k \in 0..n |-> g[k]] /\ \A k \in 0..n : k = 0 \/ (k # 0 /\ k \in 1..n)
    BY <1>1, <1>5 DEF LoopWithin
  <2>4. \A k \in 0..n : g[k] = IF k = 0 THEN [as |-> s, i |-> 0] ELSE CancelOne(g[k - 1], s.ribs_in[k])
    BY <1>5, <2>2, <2>3 DEF LoopWithin
  <2>5. QED
    BY <1>4, <2>3, <2>4 DEF CopyTurns
<1> DEFINE f == CancelTurns(s)
<1>7. CopyTurns(s, f)
  BY <1>3, <1>6
<1> HIDE DEF f
<1>8. f[0] = [as |-> s, i |-> 0] /\ \A k \in 1..n : f[k] = CancelOne(f[k - 1], s.ribs_in[k])
  <2>1. f = [k \in 0..n |-> IF k = 0 THEN [as |-> s, i |-> 0] ELSE CancelOne(f[k - 1], s.ribs_in[k])]
    BY <1>4, <1>7 DEF CopyTurns
  <2>2. \A k \in 0..n : f[k] = IF k = 0 THEN [as |-> s, i |-> 0] ELSE CancelOne(f[k - 1], s.ribs_in[k])
    BY <2>1
  <2>3. 0 \in 0..n /\ \A k \in 1..n : k \in 0..n /\ k # 0
    BY <1>1
  <2>4. QED
    BY <2>2, <2>3
<1>9. \A k \in 1..n : f[k - 1] \in X => f[k] \in X
  BY <1>4, <1>8
<1>10. \A k \in 0..n : f[k] \in X
  BY <1>1, <1>8, <1>9, LoopStays
<1>11. QED
  BY <1>4, <1>10 DEF f

PassTurns(s, f) ==
    f = [k \in 0..Len(s.ribs_in) |-> IF k = 0 THEN s ELSE CancelPass(f[k - 1])]

\* The do-while around it.
LEMMA CancelPassesIn ==
    ASSUME NEW s, NEW X, Len(s.ribs_in) \in Nat, s \in X,
           \A t \in X, k \in 1..Len(s.ribs_in) : CancelPass(t) \in X
    PROVE  \A k \in 0..Len(s.ribs_in) : CancelPasses(s)[k] \in X
<1> DEFINE n == Len(s.ribs_in)
           step == [p \in X \X (1..n) |-> CancelPass(p[1])]
<1>1. n \in Nat /\ step \in [X \X (1..n) -> X]
  OBVIOUS
<1>2. \A t \in X, k \in 1..n : step[<<t, k>>] = CancelPass(t)
  OBVIOUS
<1>3. CancelPasses(s) = (CHOOSE f : PassTurns(s, f))
  BY DEF CancelPasses, PassTurns
<1>4. n = Len(s.ribs_in)
  OBVIOUS
<1> HIDE DEF step, n
<1>5. PICK g : LoopWithin(n, X, s, step, g)
  BY <1>1, LoopIn
<1>6. PassTurns(s, g)
  <2>1. \A k \in 1..n : k - 1 \in 0..n /\ g[k - 1] \in X
    BY <1>1, <1>5 DEF LoopWithin
  <2>2. \A k \in 1..n : g[k] = CancelPass(g[k - 1])
    BY <1>2, <1>5, <2>1 DEF LoopWithin
  <2>3. g = [k \in 0..n |-> g[k]] /\ \A k \in 0..n : k = 0 \/ (k # 0 /\ k \in 1..n)
    BY <1>1, <1>5 DEF LoopWithin
  <2>4. \A k \in 0..n : g[k] = IF k = 0 THEN s ELSE CancelPass(g[k - 1])
    BY <1>5, <2>2, <2>3 DEF LoopWithin
  <2>5. QED
    BY <1>4, <2>3, <2>4 DEF PassTurns
<1> DEFINE f == CancelPasses(s)
<1>7. PassTurns(s, f)
  BY <1>3, <1>6
<1> HIDE DEF f
<1>8. f[0] = s /\ \A k \in 1..n : f[k] = CancelPass(f[k - 1])
  <2>1. f = [k \in 0..n |-> IF k = 0 THEN s ELSE CancelPass(f[k - 1])]
    BY <1>4, <1>7 DEF PassTurns
  <2>2. \A k \in 0..n : f[k] = IF k = 0 THEN s ELSE CancelPass(f[k - 1])
    BY <2>1
  <2>3. 0 \in 0..n /\ \A k \in 1..n : k \in 0..n /\ k # 0
    BY <1>1
  <2>4. QED
    BY <2>2, <2>3
<1>9. \A k \in 1..n : f[k - 1] \in X => f[k] \in X
  BY <1>4, <1>8
<1>10. \A k \in 0..n : f[k] \in X
  BY <1>1, <1>8, <1>9, LoopStays
<1>11. QED
  BY <1>4, <1>10 DEF f

RibsTurns(a, s, f) ==
    f = [k \in 0..Len(s.ribs_in) |-> IF k = 0 THEN s ELSE ProcessElement(a, f[k - 1], k)]

\* The loop over the ribs_in.
LEMMA ProcessedIn ==
    ASSUME NEW a, NEW s, NEW X, Len(s.ribs_in) \in Nat, s \in X,
           \A t \in X, k \in 1..Len(s.ribs_in) : ProcessElement(a, t, k) \in X
    PROVE  \A k \in 0..Len(s.ribs_in) : Processed(a, s)[k] \in X
<1> DEFINE n == Len(s.ribs_in)
           step == [p \in X \X (1..n) |-> ProcessElement(a, p[1], p[2])]
<1>1. n \in Nat /\ step \in [X \X (1..n) -> X]
  OBVIOUS
<1>2. \A t \in X, k \in 1..n : step[<<t, k>>] = ProcessElement(a, t, k)
  OBVIOUS
<1>3. Processed(a, s) = (CHOOSE f : RibsTurns(a, s, f))
  BY DEF Processed, RibsTurns
<1>4. n = Len(s.ribs_in)
  OBVIOUS
<1> HIDE DEF step, n
<1>5. PICK g : LoopWithin(n, X, s, step, g)
  BY <1>1, LoopIn
<1>6. RibsTurns(a, s, g)
  <2>1. \A k \in 1..n : k - 1 \in 0..n /\ g[k - 1] \in X
    BY <1>1, <1>5 DEF LoopWithin
  <2>2. \A k \in 1..n : g[k] = ProcessElement(a, g[k - 1], k)
    BY <1>2, <1>5, <2>1 DEF LoopWithin
  <2>3. g = [k \in 0..n |-> g[k]] /\ \A k \in 0..n : k = 0 \/ (k # 0 /\ k \in 1..n)
    BY <1>1, <1>5 DEF LoopWithin
  <2>4. \A k \in 0..n : g[k] = IF k = 0 THEN s ELSE ProcessElement(a, g[k - 1], k)
    BY <1>5, <2>2, <2>3 DEF LoopWithin
  <2>5. QED
    BY <1>4, <2>3, <2>4 DEF RibsTurns
<1> DEFINE f == Processed(a, s)
<1>7. RibsTurns(a, s, f)
  BY <1>3, <1>6
<1> HIDE DEF f
<1>8. f[0] = s /\ \A k \in 1..n : f[k] = ProcessElement(a, f[k - 1], k)
  <2>1. f = [k \in 0..n |-> IF k = 0 THEN s ELSE ProcessElement(a, f[k - 1], k)]
    BY <1>4, <1>7 DEF RibsTurns
  <2>2. \A k \in 0..n : f[k] = IF k = 0 THEN s ELSE ProcessElement(a, f[k - 1], k)
    BY <2>1
  <2>3. 0 \in 0..n /\ \A k \in 1..n : k \in 0..n /\ k # 0
    BY <1>1
  <2>4. QED
    BY <2>2, <2>3
<1>9. \A k \in 1..n : f[k - 1] \in X => f[k] \in X
  BY <1>4, <1>8
<1>10. \A k \in 0..n : f[k] \in X
  BY <1>1, <1>8, <1>9, LoopStays
<1>11. QED
  BY <1>4, <1>10 DEF f

-----------------------------------------------------------------------------
(***************************************************************************)
(* Processing keeps what the ribs_in and the slots of an AS hold, for any  *)
(* sets R and L that the steps of its policy do not lead out of.           *)
(***************************************************************************)
Closed(a, R, L) ==
    /\ R \subseteq Announcement /\ L \subseteq Announcement
    /\ \A ann \in L : [ann EXCEPT !.withdraw = TRUE] \in L
    /\ \A ann \in R : [ann EXCEPT !.alt = ATTACKER_ON_ROUTE_FLAG] \in R
    /\ \A ann \in R : pass_rov(ann) => ann \in L
    /\ \A ann \in R : (\E held \in L : held.origin = a) =>
           [ann EXCEPT !.received_from_asn = NOTHIJACKED] \in R
    /\ \A best \in L, ann \in Announcement : Preventive(a, best, ann) \in L
    /\ input.policy[a] = ROVPPAS_TYPE_ROVPPBP =>
           \A ann \in L : /\ [ann EXCEPT !.netmask = 24] \in L
                          /\ Blackhole([ann EXCEPT !.netmask = 24]) \in L
    /\ input.policy[a] \in Blackholing =>
           \A ann \in R : ~ pass_rov(ann) /\ ~ SilentlyDropped(a, ann) =>
                              Blackhole(ann) \in R /\ Blackhole(ann) \in L
    /\ input.policy[a] = ROVPPAS_TYPE_ROVPP0 => R \subseteq L
    /\ input.policy[a] \notin {ROVPPAS_TYPE_ROV, ROVPPAS_TYPE_ROVPP0} \union Blackholing =>
           \A ann \in R : (input.policy[a] = ROVPPAS_TYPE_ASPA => pass_aspa(ann)) => ann \in L

\* The fields of the record of an AS.
LEMMA Fields ==
    ASSUME NEW R, NEW L, NEW s \in ASRecord(R, L)
    PROVE  /\ s.ribs_in \in Seq(R) /\ s.loc_rib \in [input.blocks -> L \union {NoAnn}]
           /\ s.withdrawals \in Seq(L)
           /\ s.failed_rov \subseteq Senders /\ s.passed_rov \subseteq Senders
           /\ s.blackholes \subseteq Origins /\ s.preventive_anns \subseteq Origins
           /\ s.bad_neighbors \subseteq Nat /\ s.graph_changed \in BOOLEAN
BY DEF ASRecord

\* What is kept of an announcement in the sets.
LEMMA KeptFields ==
    ASSUME NEW ann \in Announcement
    PROVE  FromNeighbor(ann) \in Senders /\ OfOrigin(ann) \in Origins /\ ann.block_id \in input.blocks
BY DEF Announcement, FromNeighbor, OfOrigin, Senders, Origins

\* An announcement put into its slot.
LEMMA PutType ==
    ASSUME NEW R, NEW L, L \subseteq Announcement, NEW s \in ASRecord(R, L), NEW ann \in L
    PROVE  /\ Put(s, ann) \in ASRecord(R, L)
           /\ Put(s, ann).ribs_in = s.ribs_in
           /\ Held(Put(s, ann), ann) = ann
BY KeptFields DEF ASRecord, Put, Held

\* A withdrawal of what was held.
LEMMA WithdrawType ==
    ASSUME NEW a, NEW R, NEW L, Closed(a, R, L), NEW s \in ASRecord(R, L), NEW ann \in L
    PROVE  /\ withdraw(s, ann) \in ASRecord(R, L)
           /\ withdraw(s, ann).ribs_in = s.ribs_in
           /\ withdraw(s, ann).loc_rib = s.loc_rib
<1>1. [ann EXCEPT !.withdraw = TRUE] \in L
  BY DEF Closed
<1>2. Append(s.withdrawals, [ann EXCEPT !.withdraw = TRUE]) \in Seq(L)
  BY <1>1, Fields
<1>3. QED
  BY <1>2 DEF ASRecord, withdraw

\* The alternative is a good announcement in the ribs_in, if there is one.
LEMMA BestAlternativeIn ==
    ASSUME NEW R, NEW L, NEW s \in ASRecord(R, L), NEW ann
    PROVE  \/ BestAlternative(s, ann) = ann
           \/ BestAlternative(s, ann) \in R /\ GoodCandidate(BestAlternative(s, ann))
<1> DEFINE safe == SafeCandidates(s, ann)
           candidates == Those(s.ribs_in, safe)
           X == {ann} \union {c \in R : GoodCandidate(c)}
<1>1. \A c \in safe : GoodCandidate(c)
  BY DEF SafeCandidates
<1>2. candidates \in Seq(R \intersect safe)
  BY Fields, ThoseType
<1>3. Len(candidates) \in Nat /\ \A k \in 1..Len(candidates) : candidates[k] \in R /\ candidates[k] \in safe
  <2> HIDE DEF candidates
  <2>1. QED
    BY <1>2
<1>4. BestAlternative(s, ann) = BestSoFar(candidates, ann)[Len(candidates)]
  BY DEF BestAlternative
<1> HIDE DEF candidates, safe
<1>5. ann \in X
  OBVIOUS
<1>6. \A t \in X, k \in 1..Len(candidates) : Preferred(t, candidates[k], ann) \in X
  BY <1>1, <1>3 DEF Preferred
<1> HIDE DEF X
<1>7. BestSoFar(candidates, ann)[Len(candidates)] \in X
  BY <1>3, <1>5, <1>6, BestSoFarIn
<1>8. QED
  BY <1>4, <1>7 DEF X

\* check_preventives, after ann was put into its slot.
LEMMA CheckPreventivesType ==
    ASSUME NEW a, NEW R, NEW L, Closed(a, R, L), NEW s \in ASRecord(R, L), NEW ann \in L,
           Held(s, ann) = ann
    PROVE  /\ check_preventives(a, s, ann) \in ASRecord(R, L)
           /\ check_preventives(a, s, ann).ribs_in = s.ribs_in
<1> DEFINE p    == [ann EXCEPT !.netmask = 24]
           best == BestAlternative(s, Held(s, p))
           s1   == [s EXCEPT !.withdrawals = Append(@, p), !.loc_rib[p.block_id] = NoAnn]
           prev == Preventive(a, best, p)
<1>1. CASE input.policy[a] # ROVPPAS_TYPE_ROVPPBP \/ ann.netmask = 24
  BY <1>1 DEF check_preventives
<1>2. CASE input.policy[a] = ROVPPAS_TYPE_ROVPPBP /\ ann.netmask # 24
  <2>1. ann \in Announcement /\ p \in L /\ p \in Announcement /\ Blackhole(p) \in L /\ L \subseteq Announcement
    BY <1>2 DEF Closed
  <2>2. best \in L
    <3>1. Held(s, p) = ann
      BY <2>1 DEF Held, Announcement
    <3>2. best = BestAlternative(s, ann)
      BY <3>1
    <3> HIDE DEF best
    <3>3. best = ann \/ (best \in R /\ GoodCandidate(best))
      BY <3>2, BestAlternativeIn
    <3>4. QED
      BY <3>3 DEF Closed, GoodCandidate
  <2>3. prev \in L
    BY <2>1, <2>2 DEF Closed
  <2>4. s1 \in ASRecord(R, L) /\ s1.ribs_in = s.ribs_in
    <3>1. Append(s.withdrawals, p) \in Seq(L) /\ p.block_id \in input.blocks
      BY <2>1, Fields, KeptFields
    <3> HIDE DEF p
    <3>2. [s.loc_rib EXCEPT ![p.block_id] = NoAnn] \in [input.blocks -> L \union {NoAnn}]
      BY <3>1, Fields
    <3> DEFINE v == [s EXCEPT !.withdrawals = Append(@, p)]
    <3>3. v \in ASRecord(R, L) /\ v.ribs_in = s.ribs_in /\ v.loc_rib = s.loc_rib
      BY <3>1 DEF ASRecord
    <3>4. s1 = [v EXCEPT !.loc_rib[p.block_id] = NoAnn]
      OBVIOUS
    <3> HIDE DEF v, s1
    <3>5. QED
      BY <3>2, <3>3, <3>4 DEF ASRecord
  <2>5. OfOrigin(p) \in Origins /\ OfOrigin(prev) \in Origins
    BY <2>1, <2>3, KeptFields
  <2> DEFINE s2 == [s1 EXCEPT !.blackholes = @ \union {OfOrigin(p)}]
             s3 == [s1 EXCEPT !.preventive_anns = @ \union {OfOrigin(prev)}]
  <2>6. /\ s2 \in ASRecord(R, L) /\ s2.ribs_in = s.ribs_in
        /\ s3 \in ASRecord(R, L) /\ s3.ribs_in = s.ribs_in
    <3> HIDE DEF p, prev, s1
    <3>1. QED
      BY <2>4, <2>5 DEF ASRecord
  <2>7. check_preventives(a, s, ann) = Put(s2, Blackhole(p)) \/ check_preventives(a, s, ann) = Put(s3, prev)
    BY <1>2 DEF check_preventives
  <2>8. /\ Put(s2, Blackhole(p)) \in ASRecord(R, L) /\ Put(s2, Blackhole(p)).ribs_in = s.ribs_in
        /\ Put(s3, prev) \in ASRecord(R, L) /\ Put(s3, prev).ribs_in = s.ribs_in
    <3> HIDE DEF p, prev, s1, s2, s3
    <3>1. QED
      BY <2>1, <2>3, <2>6, PutType
  <2> HIDE DEF p, prev, s1, s2, s3
  <2>9. QED
    BY <2>7, <2>8
<1>3. QED
  BY <1>1, <1>2

\* process_announcement with something that may be held.
LEMMA ProcessType ==
    ASSUME NEW a, NEW R, NEW L, Closed(a, R, L), NEW s \in ASRecord(R, L), NEW ann \in L
    PROVE  /\ process_announcement(a, s, ann) \in ASRecord(R, L)
           /\ process_announcement(a, s, ann).ribs_in = s.ribs_in
<1>1. L \subseteq Announcement /\ ann.block_id \in input.blocks
  BY KeptFields DEF Closed
<1>2. CASE Held(s, ann) = NoAnn
  BY <1>1, <1>2, PutType DEF process_announcement
<1>3. CASE Held(s, ann) # NoAnn
  <2>1. Held(s, ann) \in L
    BY <1>1, <1>3, Fields DEF Held
  <2> DEFINE t == withdraw(s, Held(s, ann))
             u == Put(t, ann)
  <2>2. t \in ASRecord(R, L) /\ t.ribs_in = s.ribs_in
    BY <2>1, WithdrawType
  <2> HIDE DEF t
  <2>3. u \in ASRecord(R, L) /\ u.ribs_in = s.ribs_in /\ Held(u, ann) = ann
    BY <1>1, <2>2, PutType
  <2> HIDE DEF u
  <2>4. /\ check_preventives(a, u, ann) \in ASRecord(R, L)
        /\ check_preventives(a, u, ann).ribs_in = s.ribs_in
    BY <2>3, CheckPreventivesType
  <2>5. process_announcement(a, s, ann) \in {s, check_preventives(a, u, ann)}
    BY <1>3 DEF process_announcement, t, u
  <2>6. QED
    BY <2>4, <2>5
<1>4. QED
  BY <1>2, <1>3

\* What a withdrawal does to the slots.
LEMMA TakeBackType ==
    ASSUME NEW a, NEW R, NEW L, Closed(a, R, L), NEW s \in ASRecord(R, L), NEW w \in Announcement
    PROVE  TakeBack(s, w) \in ASRecord(R, L) /\ TakeBack(s, w).ribs_in = s.ribs_in
<1> DEFINE held == Held(s, w)
           t == withdraw(s, held)
           best == BestAlternative(t, held)
<1>1. w.block_id \in input.blocks
  BY KeptFields
<1>2. CASE held = NoAnn \/ ~ Same(held, w)
  BY <1>2 DEF TakeBack
<1>3. CASE held # NoAnn /\ Same(held, w)
  <2>1. held \in L
    BY <1>1, <1>3, Fields DEF Held
  <2>2. t \in ASRecord(R, L) /\ t.ribs_in = s.ribs_in /\ t.loc_rib = s.loc_rib
    <3> HIDE DEF held
    <3>1. QED
      BY <2>1, WithdrawType
  <2>3. best \in L
    <3> HIDE DEF t, held
    <3>1. best = held \/ (best \in R /\ GoodCandidate(best))
      BY <2>2, BestAlternativeIn
    <3>2. QED
      BY <2>1, <3>1 DEF Closed, GoodCandidate
  <2>4. TakeBack(s, w) \in {[t EXCEPT !.loc_rib[w.block_id] = NoAnn], Put(t, best)}
    BY <1>3 DEF TakeBack
  <2> HIDE DEF best, t, held
  <2>5. Put(t, best) \in ASRecord(R, L) /\ Put(t, best).ribs_in = s.ribs_in
    <3>1. L \subseteq Announcement
      BY DEF Closed
    <3>2. QED
      BY <2>2, <2>3, <3>1, PutType
  <2> DEFINE u == [t EXCEPT !.loc_rib[w.block_id] = NoAnn]
  <2>6. u \in ASRecord(R, L) /\ u.ribs_in = s.ribs_in
    BY <1>1, <2>2 DEF ASRecord
  <2>7. QED
    BY <2>4, <2>5, <2>6
<1>4. QED
  BY <1>2, <1>3

\* Another ribs_in.
LEMMA WithRibs ==
    ASSUME NEW R, NEW L, NEW s \in ASRecord(R, L), NEW q \in Seq(R)
    PROVE  [s EXCEPT !.ribs_in = q] \in ASRecord(R, L) /\ [s EXCEPT !.ribs_in = q].ribs_in = q
BY DEF ASRecord

\* Some of the ribs_in.
LEMMA FewerRibs ==
    ASSUME NEW R, NEW L, NEW s \in ASRecord(R, L), NEW S
    PROVE  [s EXCEPT !.ribs_in = Those(s.ribs_in, S)] \in ASRecord(R, L)
<1>1. Those(s.ribs_in, S) \in Seq(R \intersect S)
  BY Fields, ThoseType
<1> DEFINE q == Those(s.ribs_in, S)
<1>2. q \in Seq(R)
  <2>1. \A x \in Seq(R \intersect S) : x \in Seq(R)
    OBVIOUS
  <2>2. QED
    BY <1>1, <2>1
<1> HIDE DEF q
<1>3. [s EXCEPT !.ribs_in = q] \in ASRecord(R, L)
  BY <1>2, WithRibs
<1>4. QED
  BY <1>3 DEF q

\* One turn of the loop that cancels.
LEMMA CancelOneType ==
    ASSUME NEW a, NEW R, NEW L, Closed(a, R, L), NEW w \in Announcement,
           NEW t \in [as : ASRecord(R, L), i : Int]
    PROVE  CancelOne(t, w) \in [as : ASRecord(R, L), i : Int]
<1> DEFINE s == t.as
           S == {x \in Elements(s.ribs_in) : ~ Same(x, w)}
           kept == Those(s.ribs_in, S)
           u == TakeBack(s, w)
<1>1. s \in ASRecord(R, L) /\ t.i \in Int
  OBVIOUS
<1>2. u \in ASRecord(R, L) /\ u.ribs_in = s.ribs_in
  <2> HIDE DEF s
  <2>1. QED
    BY <1>1, TakeBackType
<1>3. s.ribs_in \in Seq(R) /\ kept \in Seq(R \intersect S)
  <2> HIDE DEF s, S
  <2>1. QED
    BY <1>1, Fields, ThoseType
<1>4. [u EXCEPT !.ribs_in = kept] \in ASRecord(R, L)
  <2>1. [u EXCEPT !.ribs_in = Those(u.ribs_in, S)] \in ASRecord(R, L)
    <3> HIDE DEF u, S
    <3>1. QED
      BY <1>2, FewerRibs
  <2>2. QED
    BY <1>2, <2>1
<1>5. Len(s.ribs_in) \in Nat /\ Len(kept) \in Nat
  <2> HIDE DEF s, kept, S
  <2>1. QED
    BY <1>3
<1> DEFINE r == [as |-> [u EXCEPT !.ribs_in = kept],
                 i  |-> t.i - (Len(s.ribs_in) - Len(kept)) + 1]
<1>6. r \in [as : ASRecord(R, L), i : Int]
  <2> HIDE DEF u, kept, S, s
  <2>1. QED
    BY <1>1, <1>4, <1>5
<1>7. [t EXCEPT !.i = @ + 1] \in [as : ASRecord(R, L), i : Int]
  OBVIOUS
<1>8. CancelOne(t, w) \in {r, [t EXCEPT !.i = @ + 1]}
  BY DEF CancelOne
<1> HIDE DEF r
<1>9. QED
  BY <1>6, <1>7, <1>8

\* The withdrawals that have something to cancel.
LEMMA CancelWithdrawalsType ==
    ASSUME NEW a, NEW R, NEW L, Closed(a, R, L), NEW s \in ASRecord(R, L)
    PROVE  CancelWithdrawals(s) \in ASRecord(R, L)
<1>1. R \subseteq Announcement
  BY DEF Closed
<1>2. ASSUME NEW u \in ASRecord(R, L)
      PROVE  CancelPass(u) \in ASRecord(R, L)
  <2> DEFINE X == [as : ASRecord(R, L), i : Int]
             base == [as |-> u, i |-> 0]
  <2>1. base \in X
    OBVIOUS
  <2>2. u.ribs_in \in Seq(R)
    BY Fields
  <2>3. Len(u.ribs_in) \in Nat /\ \A k \in 1..Len(u.ribs_in) : u.ribs_in[k] \in Announcement
    BY <1>1, <2>2
  <2>4. \A t \in X, k \in 1..Len(u.ribs_in) : CancelOne(t, u.ribs_in[k]) \in X
    BY <2>3, CancelOneType
  <2> HIDE DEF X
  <2>5. CancelTurns(u)[Len(u.ribs_in)] \in X
    BY <2>1, <2>3, <2>4, CancelTurnsIn
  <2>6. QED
    BY <2>5 DEF X, CancelPass
<1>3. Len(s.ribs_in) \in Nat
  <2>1. s.ribs_in \in Seq(R)
    BY Fields
  <2>2. QED
    BY <2>1
<1>4. CancelPasses(s)[Len(s.ribs_in)] \in ASRecord(R, L)
  BY <1>2, <1>3, CancelPassesIn
<1>5. QED
  BY <1>4 DEF CancelWithdrawals

\* One element of the ribs_in changed.
LEMMA WithRib ==
    ASSUME NEW R, NEW L, NEW s \in ASRecord(R, L), NEW i \in DOMAIN s.ribs_in, NEW x \in R
    PROVE  /\ [s EXCEPT !.ribs_in[i] = x] \in ASRecord(R, L)
           /\ DOMAIN [s EXCEPT !.ribs_in[i] = x].ribs_in = DOMAIN s.ribs_in
           /\ [s EXCEPT !.ribs_in[i] = x].ribs_in[i] = x
<1> DEFINE q == [s.ribs_in EXCEPT ![i] = x]
<1>1. s.ribs_in \in Seq(R)
  BY Fields
<1>2. q \in Seq(R) /\ DOMAIN q = DOMAIN s.ribs_in /\ q[i] = x
  <2>1. s.ribs_in \in [1..Len(s.ribs_in) -> R] /\ Len(s.ribs_in) \in Nat
    BY <1>1
  <2>2. q \in [1..Len(s.ribs_in) -> R]
    BY <2>1
  <2>3. DOMAIN q = DOMAIN s.ribs_in /\ q[i] = x
    OBVIOUS
  <2> HIDE DEF q
  <2>4. QED
    BY <2>1, <2>2, <2>3, SeqDef
<1>3. [s EXCEPT !.ribs_in[i] = x] = [s EXCEPT !.ribs_in = q]
  OBVIOUS
<1> HIDE DEF q
<1>4. QED
  BY <1>2, <1>3, WithRibs

\* An element that passes ROV.
LEMMA PassType ==
    ASSUME NEW a, NEW R, NEW L, Closed(a, R, L), NEW s \in ASRecord(R, L),
           NEW i \in DOMAIN s.ribs_in, pass_rov(s.ribs_in[i])
    PROVE  /\ Pass(a, s, i) \in ASRecord(R, L)
           /\ DOMAIN Pass(a, s, i).ribs_in = DOMAIN s.ribs_in
<1> DEFINE ann  == s.ribs_in[i]
           flagged == [ann EXCEPT !.alt = ATTACKER_ON_ROUTE_FLAG]
           hole == IF /\ input.policy[a] \in Blackholing
                      /\ ann.received_from_asn \in s.bad_neighbors
                   THEN flagged ELSE ann
           known == s.passed_rov \union {FromNeighbor(ann)}
           t == [s EXCEPT !.passed_rov = known]
           u == [s EXCEPT !.passed_rov = known, !.ribs_in[i] = hole]
<1>1. ann \in R /\ ann \in Announcement
  <2>1. s.ribs_in \in Seq(R)
    BY Fields
  <2>2. QED
    BY <2>1 DEF Closed
<1>2. hole \in R /\ hole \in L
  <2>1. pass_rov(flagged)
    BY <1>1 DEF pass_rov, Announcement
  <2>2. QED
    BY <1>1, <2>1 DEF Closed
<1>3. t \in ASRecord(R, L) /\ t.ribs_in = s.ribs_in
  <2>1. known \subseteq Senders
    BY <1>1, Fields, KeptFields
  <2> HIDE DEF known
  <2>2. QED
    BY <2>1 DEF ASRecord
<1>4. u = [t EXCEPT !.ribs_in[i] = hole]
  OBVIOUS
<1>5. Pass(a, s, i) = process_announcement(a, u, hole)
  BY DEF Pass
<1> HIDE DEF hole, known, t, u
<1>6. u \in ASRecord(R, L) /\ DOMAIN u.ribs_in = DOMAIN s.ribs_in
  BY <1>2, <1>3, <1>4, WithRib
<1>7. QED
  BY <1>2, <1>5, <1>6, ProcessType

\* An element that does not.
LEMMA FailType ==
    ASSUME NEW a, NEW R, NEW L, Closed(a, R, L), NEW s \in ASRecord(R, L),
           NEW i \in DOMAIN s.ribs_in, ~ pass_rov(s.ribs_in[i]),
           input.policy[a] \in {ROVPPAS_TYPE_ROV, ROVPPAS_TYPE_ROVPP0} \union Blackholing
    PROVE  /\ Fail(a, s, i) \in ASRecord(R, L)
           /\ DOMAIN Fail(a, s, i).ribs_in = DOMAIN s.ribs_in
<1> DEFINE ann  == s.ribs_in[i]
           pol  == input.policy[a]
           bad  == s.failed_rov \union {FromNeighbor(ann)}
           s1   == [s EXCEPT !.failed_rov = bad]
           best == BestAlternative(s1, ann)
           prev == Preventive(a, best, ann)
           s2   == process_announcement(a, s1, best)
           s3   == [s2 EXCEPT !.preventive_anns = @ \union {OfOrigin(prev)}]
           s4   == [s1 EXCEPT !.blackholes = @ \union {OfOrigin(ann)}]
           s5   == [s1 EXCEPT !.blackholes = @ \union {OfOrigin(ann)}, !.ribs_in[i] = Blackhole(ann)]
<1>1. CASE SilentlyDropped(a, ann)
  BY <1>1 DEF Fail
<1>2. CASE ~ SilentlyDropped(a, ann)
  <2>1. ann \in R /\ ann \in Announcement /\ L \subseteq Announcement
    <3>1. s.ribs_in \in Seq(R)
      BY Fields
    <3>2. QED
      BY <3>1 DEF Closed
  <2>2. s1 \in ASRecord(R, L) /\ s1.ribs_in = s.ribs_in
    <3>1. bad \subseteq Senders
      BY <2>1, Fields, KeptFields
    <3> HIDE DEF bad
    <3>2. QED
      BY <3>1 DEF ASRecord
  <2>3. CASE Same(best, ann)
    <3>1. CASE pol = ROVPPAS_TYPE_ROVPP0
      <4>1. Fail(a, s, i) = process_announcement(a, s1, ann)
        BY <1>2, <2>3, <3>1 DEF Fail
      <4>2. ann \in L
        BY <2>1, <3>1 DEF Closed
      <4> HIDE DEF s1
      <4>3. QED
        BY <2>2, <4>1, <4>2, ProcessType
    <3>2. CASE pol # ROVPPAS_TYPE_ROVPP0
      <4>1. Fail(a, s, i) = process_announcement(a, s5, Blackhole(ann))
        BY <1>2, <2>3, <3>2 DEF Fail
      <4>2. pol \in Blackholing
        BY <1>2, <3>2 DEF SilentlyDropped
      <4>3. Blackhole(ann) \in R /\ Blackhole(ann) \in L
        BY <1>2, <2>1, <4>2 DEF Closed
      <4>4. s4 \in ASRecord(R, L) /\ s4.ribs_in = s.ribs_in
        <5>1. OfOrigin(ann) \in Origins
          BY <2>1, KeptFields
        <5> HIDE DEF s1
        <5>2. QED
          BY <2>2, <5>1 DEF ASRecord
      <4>5. s5 = [s4 EXCEPT !.ribs_in[i] = Blackhole(ann)]
        OBVIOUS
      <4> HIDE DEF s4, s5
      <4>6. s5 \in ASRecord(R, L) /\ DOMAIN s5.ribs_in = DOMAIN s.ribs_in
        BY <4>3, <4>4, <4>5, WithRib
      <4>7. QED
        BY <4>1, <4>3, <4>6, ProcessType
    <3>3. QED
      BY <3>1, <3>2
  <2>4. CASE ~ Same(best, ann)
    <3>1. best \in L
      <4> HIDE DEF s1
      <4>1. best = ann \/ (best \in R /\ GoodCandidate(best))
        BY <2>2, BestAlternativeIn
      <4>2. best # ann
        BY <2>4 DEF Same
      <4>3. QED
        BY <4>1, <4>2 DEF Closed, GoodCandidate
    <3>2. s2 \in ASRecord(R, L) /\ s2.ribs_in = s.ribs_in
      <4> HIDE DEF s1, best
      <4>1. QED
        BY <2>2, <3>1, ProcessType
    <3>3. prev \in L
      <4> HIDE DEF best
      <4>1. QED
        BY <2>1, <3>1 DEF Closed
    <3>4. s3 \in ASRecord(R, L) /\ s3.ribs_in = s.ribs_in
      <4>1. OfOrigin(prev) \in Origins
        BY <2>1, <3>3, KeptFields
      <4> HIDE DEF s2, prev
      <4>2. QED
        BY <3>2, <4>1 DEF ASRecord
    <3>5. Fail(a, s, i) \in {s2, process_announcement(a, s3, prev)}
      BY <1>2, <2>4 DEF Fail
    <3> HIDE DEF s2, s3, prev
    <3>6. /\ process_announcement(a, s3, prev) \in ASRecord(R, L)
          /\ process_announcement(a, s3, prev).ribs_in = s.ribs_in
      BY <3>3, <3>4, ProcessType
    <3>7. QED
      BY <3>2, <3>5, <3>6
  <2>5. QED
    BY <2>3, <2>4
<1>3. QED
  BY <1>1, <1>2

\* An element under the policy of the AS.
LEMMA ByPolicyType ==
    ASSUME NEW a, NEW R, NEW L, Closed(a, R, L), NEW s \in ASRecord(R, L),
           NEW i \in DOMAIN s.ribs_in
    PROVE  /\ ByPolicy(a, s, i) \in ASRecord(R, L)
           /\ DOMAIN ByPolicy(a, s, i).ribs_in = DOMAIN s.ribs_in
<1> DEFINE ann == s.ribs_in[i]
           pol == input.policy[a]
           rov == {ROVPPAS_TYPE_ROV, ROVPPAS_TYPE_ROVPP0} \union Blackholing
<1>1. CASE pol \in rov
  BY <1>1, PassType, FailType DEF ByPolicy
<1>2. CASE pol \notin rov /\ pol = ROVPPAS_TYPE_ASPA /\ ~ pass_aspa(ann)
  BY <1>2 DEF ByPolicy
<1>3. CASE pol \notin rov /\ ~ (pol = ROVPPAS_TYPE_ASPA /\ ~ pass_aspa(ann))
  <2>1. ann \in R
    <3>1. s.ribs_in \in Seq(R)
      BY Fields
    <3>2. QED
      BY <3>1
  <2>2. ann \in L
    BY <1>3, <2>1 DEF Closed
  <2>3. ByPolicy(a, s, i) = process_announcement(a, s, ann)
    BY <1>3 DEF ByPolicy
  <2>4. QED
    BY <2>2, <2>3, ProcessType
<1>4. QED
  BY <1>1, <1>2, <1>3

\* One element of the ribs_in.
LEMMA ElementType ==
    ASSUME NEW a, NEW R, NEW L, Closed(a, R, L), NEW s \in ASRecord(R, L),
           NEW i \in DOMAIN s.ribs_in
    PROVE  /\ ProcessElement(a, s, i) \in ASRecord(R, L)
           /\ DOMAIN ProcessElement(a, s, i).ribs_in = DOMAIN s.ribs_in
<1> DEFINE ann == s.ribs_in[i]
           own == [ann EXCEPT !.received_from_asn = NOTHIJACKED]
           t   == [s EXCEPT !.ribs_in[i].received_from_asn = NOTHIJACKED]
<1>1. ann \in R /\ ann \in Announcement
  <2>1. s.ribs_in \in Seq(R)
    BY Fields
  <2>2. QED
    BY <2>1 DEF Closed
<1>2. TakeBack(s, ann) \in ASRecord(R, L) /\ TakeBack(s, ann).ribs_in = s.ribs_in
  BY <1>1, TakeBackType
<1>3. CASE Own(a, s, ann)
  <2>1. PICK b \in input.blocks : s.loc_rib[b] # NoAnn /\ s.loc_rib[b].origin = a
    BY <1>3 DEF Own
  <2>2. s.loc_rib[b] \in L
    BY <2>1, Fields
  <2>3. own \in R
    BY <1>1, <2>1, <2>2 DEF Closed
  <2>4. t = [s EXCEPT !.ribs_in[i] = own]
    OBVIOUS
  <2> HIDE DEF own, t
  <2>5. t \in ASRecord(R, L) /\ DOMAIN t.ribs_in = DOMAIN s.ribs_in
    BY <2>3, <2>4, WithRib
  <2>6. ByPolicy(a, t, i) \in ASRecord(R, L) /\ DOMAIN ByPolicy(a, t, i).ribs_in = DOMAIN s.ribs_in
    BY <2>5, ByPolicyType
  <2>7. ProcessElement(a, s, i) \in {s, TakeBack(s, ann), ByPolicy(a, t, i)}
    BY <1>3 DEF ProcessElement, t
  <2>8. QED
    BY <1>2, <2>6, <2>7
<1>4. CASE ~ Own(a, s, ann)
  <2>1. ProcessElement(a, s, i) \in {s, TakeBack(s, ann), ByPolicy(a, s, i)}
    BY <1>4 DEF ProcessElement
  <2>2. QED
    BY <1>2, <2>1, ByPolicyType
<1>5. QED
  BY <1>3, <1>4

\* process_announcements.
LEMMA ProcessedType ==
    ASSUME NEW a, NEW R, NEW L, Closed(a, R, L), NEW s \in ASRecord(R, L)
    PROVE  process_announcements(a, s) \in ASRecord(R, L)
<1> DEFINE looped == {x \in Elements(s.ribs_in) : ~ Looped(a, x)}
           s0 == [s EXCEPT !.ribs_in = Those(s.ribs_in, looped)]
           s1 == Cleaned(a, s)
           s2 == Marked(s1)
           n  == Len(s2.ribs_in)
           s3 == Processed(a, s2)[n]
           X  == {t \in ASRecord(R, L) : DOMAIN t.ribs_in = 1..n}
<1>1. s1 \in ASRecord(R, L)
  <2>1. s1 = CancelWithdrawals(s0)
    BY DEF Cleaned
  <2>2. s0 \in ASRecord(R, L)
    <3> HIDE DEF looped
    <3>1. QED
      BY FewerRibs
  <2> HIDE DEF s0, s1
  <2>3. QED
    BY <2>1, <2>2, CancelWithdrawalsType
<1>2. s2 \in ASRecord(R, L)
  <2> DEFINE from == {x.received_from_asn : x \in {y \in Elements(s1.ribs_in) : ~ pass_rov(y)}}
             bad  == s1.bad_neighbors \union from
  <2>1. s2 = [s1 EXCEPT !.bad_neighbors = bad]
    BY DEF Marked
  <2>2. \A x \in Elements(s1.ribs_in) : x \in Announcement
    <3> HIDE DEF s1
    <3>1. s1.ribs_in \in Seq(R)
      BY <1>1, Fields
    <3>2. QED
      BY <3>1 DEF Elements, Closed
  <2>3. from \subseteq Nat
    BY <2>2 DEF Announcement
  <2>4. bad \subseteq Nat
    <3> HIDE DEF s1, from
    <3>1. QED
      BY <1>1, <2>3, Fields
  <2> HIDE DEF s1, s2, bad
  <2>5. QED
    BY <1>1, <2>1, <2>4 DEF ASRecord
<1>3. process_announcements(a, s) =
         [s3 EXCEPT !.ribs_in = Those(s3.ribs_in, {x \in Elements(s3.ribs_in) : ~ x.withdraw})]
  BY DEF process_announcements
<1> HIDE DEF s1, s2
<1>4. n \in Nat /\ s2 \in X
  <2>1. s2.ribs_in \in Seq(R)
    BY <1>2, Fields
  <2>2. QED
    BY <1>2, <2>1
<1>5. \A t \in X, i \in 1..n : ProcessElement(a, t, i) \in X
  BY ElementType
<1>6. s3 \in X
  <2> HIDE DEF X
  <2>1. QED
    BY <1>4, <1>5, ProcessedIn
<1>7. s3 \in ASRecord(R, L)
  BY <1>6
<1> HIDE DEF s3
<1>8. QED
  BY <1>3, <1>7, FewerRibs

-----------------------------------------------------------------------------
(***************************************************************************)
(* The invariant is kept by processing.                                    *)
(***************************************************************************)
\* What the assumption says of the simulation.
LEMMA SimulationType ==
    ASSUME input \in Inputs
    PROVE  /\ ASes \subseteq Nat \ Flags
           /\ input.attackers \subseteq Nat \ Flags
           /\ \E n \in Nat : input.blocks = 1..n
           /\ input.topo.providers \in [ASes -> SUBSET ASes]
           /\ input.topo.peers \in [ASes -> SUBSET ASes]
           /\ input.topo.customers \in [ASes -> SUBSET ASes]
           /\ \A a, b \in ASes : b \in input.topo.providers[a] => a \in input.topo.customers[b]
           /\ input.rows \in Seq([path : Seq(Nat) \ {<<>>}, netmask : Nat, block_id : input.blocks])
           /\ input.origin_only \in BOOLEAN
<1>1. Simulation(input)
  BY ROVppAssumption
<1>2. QED
  BY <1>1 DEF Simulation, ASes

\* The flags are apart from the attackers and the ASes.
LEMMA FlagsApart ==
    ASSUME input \in Inputs
    PROVE  /\ UNUSED_ASN_FLAG_FOR_BLACKHOLES \notin input.attackers \union Side
           /\ NOTHIJACKED \notin Side
<1>1. Side \subseteq ASes
  BY DEF Side, Adopts
<1>2. {UNUSED_ASN_FLAG_FOR_BLACKHOLES, NOTHIJACKED} \intersect (ASes \union input.attackers) = {}
  BY SimulationType DEF Flags
<1>3. QED
  BY <1>1, <1>2

\* The policy of an AS on the side filters.
LEMMA SidePolicy ==
    ASSUME NEW a \in Side
    PROVE  a \in ASes /\ input.policy[a] \in Filtering /\ input.policy[a] \in Blackholing
BY DEF Side, Adopts, Filtering, Blackholing

\* The numbers are numbers.
LEMMA FlagNumbers ==
    /\ UNUSED_ASN_FLAG_FOR_BLACKHOLES \in Nat
    /\ NOTHIJACKED \in Nat
    /\ ATTACKER_ON_ROUTE_FLAG \in Nat
BY DEF UNUSED_ASN_FLAG_FOR_BLACKHOLES, NOTHIJACKED, ATTACKER_ON_ROUTE_FLAG

\* An announcement with one field changed is one.
LEMMA Edited ==
    ASSUME NEW ann \in Announcement, NEW v \in Nat
    PROVE  /\ [ann EXCEPT !.origin = v] \in Announcement
           /\ [ann EXCEPT !.netmask = v] \in Announcement
           /\ [ann EXCEPT !.received_from_asn = v] \in Announcement
           /\ [ann EXCEPT !.alt = v] \in Announcement
           /\ \A c \in input.blocks : [ann EXCEPT !.block_id = c] \in Announcement
           /\ \A w \in BOOLEAN : [ann EXCEPT !.withdraw = w] \in Announcement
<1>1. [ann EXCEPT !.origin = v] \in Announcement
  BY DEF Announcement
<1>2. [ann EXCEPT !.netmask = v] \in Announcement
  BY DEF Announcement
<1>3. [ann EXCEPT !.received_from_asn = v] \in Announcement
  BY DEF Announcement
<1>4. [ann EXCEPT !.alt = v] \in Announcement
  BY DEF Announcement
<1>5. ASSUME NEW c \in input.blocks PROVE [ann EXCEPT !.block_id = c] \in Announcement
  BY DEF Announcement
<1>6. ASSUME NEW w \in BOOLEAN PROVE [ann EXCEPT !.withdraw = w] \in Announcement
  BY DEF Announcement
<1>7. QED
  BY <1>1, <1>2, <1>3, <1>4, <1>5, <1>6

\* The fields of an announcement.
LEMMA AnnFields ==
    ASSUME NEW ann \in Announcement
    PROVE  /\ ann.origin \in Nat /\ ann.netmask \in Nat /\ ann.block_id \in input.blocks
           /\ ann.as_path \in Seq(Nat) /\ ann.priority \in Int /\ ann.received_from_asn \in Nat
           /\ ann.alt \in Nat /\ ann.withdraw \in BOOLEAN /\ ann.from_monitor \in BOOLEAN
           /\ DOMAIN ann = {"origin", "netmask", "block_id", "as_path", "priority",
                            "received_from_asn", "alt", "withdraw", "from_monitor"}
BY DEF Announcement

\* An announcement in the ribs_in with a flag or a sender's number changed.
LEMMA RibsChanged ==
    ASSUME NEW b \in ASes, NEW ann \in InRibs(b)
    PROVE  [ann EXCEPT !.alt = ATTACKER_ON_ROUTE_FLAG] \in InRibs(b)
<1> DEFINE x == [ann EXCEPT !.alt = ATTACKER_ON_ROUTE_FLAG]
<1>1. ann \in Announcement
  BY DEF InRibs
<1>2. /\ x \in Announcement /\ x.origin = ann.origin /\ x.priority = ann.priority
      /\ x.received_from_asn = ann.received_from_asn
  BY <1>1, Edited, FlagNumbers, AnnFields
<1> HIDE DEF x
<1>3. pass_rov(x) <=> pass_rov(ann)
  BY <1>2 DEF pass_rov
<1>4. x \in InRibs(b)
  BY <1>2, <1>3 DEF InRibs
<1>5. QED
  BY <1>4 DEF x

\* A route of its own makes no AS on the side look like a victim.
LEMMA OwnKept ==
    ASSUME input \in Inputs, NEW b \in ASes, NEW ann \in InRibs(b), NEW held \in InSlots(b),
           held.origin = b
    PROVE  [ann EXCEPT !.received_from_asn = NOTHIJACKED] \in InRibs(b)
<1> DEFINE x == [ann EXCEPT !.received_from_asn = NOTHIJACKED]
<1>1. ann \in Announcement /\ b \notin Side
  BY DEF InRibs, InSlots
<1>2. /\ x \in Announcement /\ x.origin = ann.origin /\ x.priority = ann.priority
      /\ x.received_from_asn = NOTHIJACKED
  BY <1>1, Edited, FlagNumbers, AnnFields
<1> HIDE DEF x
<1>3. NOTHIJACKED \notin Side /\ ann.origin \notin Side
  BY FlagsApart DEF InRibs
<1>4. \A a \in Side : x.received_from_asn # a
  BY <1>2, <1>3
<1>5. x \in InRibs(b)
  BY <1>1, <1>2, <1>3, <1>4 DEF InRibs
<1>6. QED
  BY <1>5 DEF x

\* The slots may hold what passes ROV.
LEMMA PassedHeld ==
    ASSUME input \in Inputs, NEW b \in ASes, NEW ann \in InRibs(b), pass_rov(ann)
    PROVE  ann \in InSlots(b)
<1>1. /\ ann \in Announcement /\ ann.origin \notin Side
      /\ ann.origin \notin input.attackers /\ ann.origin # UNUSED_ASN_FLAG_FOR_BLACKHOLES
  BY DEF InRibs, pass_rov
<1>2. \A a : ann.origin \notin Withheld(a)
  BY <1>1 DEF Withheld
<1>3. QED
  BY <1>1, <1>2 DEF InSlots

\* The slots may hold a preventive announcement.
LEMMA PreventiveHeld ==
    ASSUME NEW b \in ASes, NEW best \in InSlots(b), NEW ann \in Announcement
    PROVE  Preventive(b, best, ann) \in InSlots(b)
<1> DEFINE x == Preventive(b, best, ann)
<1>1. best \in Announcement
  BY DEF InSlots
<1>2. /\ x \in Announcement /\ x.origin = best.origin /\ x.priority = best.priority
      /\ x.from_monitor = best.from_monitor /\ x.as_path = best.as_path
  <2> DEFINE from == IF best.origin = b THEN NOTHIJACKED ELSE best.received_from_asn
             x1 == [best EXCEPT !.netmask = ann.netmask]
             x2 == [x1 EXCEPT !.block_id = ann.block_id]
             x3 == [x2 EXCEPT !.alt = best.received_from_asn]
             x4 == [x3 EXCEPT !.received_from_asn = from]
  <2>1. /\ from \in Nat /\ ann.netmask \in Nat /\ ann.block_id \in input.blocks
        /\ best.received_from_asn \in Nat
    BY <1>1, AnnFields, FlagNumbers
  <2>2. x1 \in Announcement
    BY <1>1, <2>1, Edited
  <2>3. x2 \in Announcement
    <3> HIDE DEF x1
    <3>1. QED
      BY <2>1, <2>2, Edited
  <2>4. x3 \in Announcement
    <3> HIDE DEF x2
    <3>1. QED
      BY <2>1, <2>3, Edited
  <2>5. x4 \in Announcement
    <3> HIDE DEF x3, from
    <3>1. QED
      BY <2>1, <2>4, Edited
  <2>6. x = x4
    BY <1>1, AnnFields DEF Preventive
  <2>7. /\ x.origin = best.origin /\ x.priority = best.priority
        /\ x.from_monitor = best.from_monitor /\ x.as_path = best.as_path
    BY <1>1, AnnFields DEF Preventive
  <2>8. QED
    BY <2>5, <2>6, <2>7
<1> HIDE DEF x
<1>3. pass_aspa(x) <=> pass_aspa(best)
  BY <1>2 DEF pass_aspa
<1>4. x \in InSlots(b)
  BY <1>2, <1>3 DEF InSlots
<1>5. QED
  BY <1>4 DEF x

\* The slots may hold the withdrawal of what they hold, and with ROV++ 0.3 the
\* /24 of it.
LEMMA HeldChanged ==
    ASSUME NEW b \in ASes, NEW ann \in InSlots(b)
    PROVE  /\ [ann EXCEPT !.withdraw = TRUE] \in InSlots(b)
           /\ [ann EXCEPT !.netmask = 24] \in InSlots(b)
<1> DEFINE x == [ann EXCEPT !.withdraw = TRUE]
           y == [ann EXCEPT !.netmask = 24]
<1>1. ann \in Announcement
  BY DEF InSlots
<1>2. /\ x \in Announcement /\ x.origin = ann.origin /\ x.priority = ann.priority
      /\ x.from_monitor = ann.from_monitor /\ x.as_path = ann.as_path
      /\ y \in Announcement /\ y.origin = ann.origin /\ y.priority = ann.priority
      /\ y.from_monitor = ann.from_monitor /\ y.as_path = ann.as_path
  BY <1>1 DEF Announcement
<1> HIDE DEF x, y
<1>3. (pass_aspa(x) <=> pass_aspa(ann)) /\ (pass_aspa(y) <=> pass_aspa(ann))
  BY <1>2 DEF pass_aspa
<1>4. x \in InSlots(b) /\ y \in InSlots(b)
  BY <1>2, <1>3 DEF InSlots
<1>5. QED
  BY <1>4 DEF x, y

\* What a blackhole keeps.
LEMMA BlackholeFields ==
    ASSUME NEW ann \in Announcement
    PROVE  /\ Blackhole(ann) \in Announcement
           /\ Blackhole(ann).origin = UNUSED_ASN_FLAG_FOR_BLACKHOLES
           /\ Blackhole(ann).received_from_asn = UNUSED_ASN_FLAG_FOR_BLACKHOLES
           /\ Blackhole(ann).priority = ann.priority
<1> DEFINE x1 == [ann EXCEPT !.origin = UNUSED_ASN_FLAG_FOR_BLACKHOLES]
           x2 == [x1 EXCEPT !.received_from_asn = UNUSED_ASN_FLAG_FOR_BLACKHOLES]
<1>1. x1 \in Announcement
  BY Edited, FlagNumbers
<1>2. x2 \in Announcement
  <2> HIDE DEF x1
  <2>1. QED
    BY <1>1, Edited, FlagNumbers
<1>3. Blackhole(ann) = x2
  BY AnnFields DEF Blackhole
<1>4. /\ x2.origin = UNUSED_ASN_FLAG_FOR_BLACKHOLES
      /\ x2.received_from_asn = UNUSED_ASN_FLAG_FOR_BLACKHOLES
      /\ x2.priority = ann.priority
  BY AnnFields
<1> HIDE DEF x2
<1>5. QED
  BY <1>2, <1>3, <1>4

\* A blackhole takes the place of what no customer sent.
LEMMA BlackholeKept ==
    ASSUME input \in Inputs, NEW b \in ASes, NEW ann \in InRibs(b),
           input.policy[b] \in Blackholing, ~ pass_rov(ann), ~ SilentlyDropped(b, ann)
    PROVE  Blackhole(ann) \in InRibs(b) /\ Blackhole(ann) \in InSlots(b)
<1> DEFINE x == Blackhole(ann)
<1>1. /\ x \in Announcement /\ x.origin = UNUSED_ASN_FLAG_FOR_BLACKHOLES
      /\ x.received_from_asn = UNUSED_ASN_FLAG_FOR_BLACKHOLES /\ x.priority = ann.priority
  BY BlackholeFields DEF InRibs
<1> HIDE DEF x
<1>2. /\ x.origin \notin Side /\ x.origin \notin input.attackers /\ x.received_from_asn \notin Side
  BY <1>1, FlagsApart
<1>3. b \in Side => ~ (ann.priority >= 200)
  BY SidePolicy DEF InRibs, SilentlyDropped
<1>4. b \notin Adopts({ROVPPAS_TYPE_ASPA})
  BY DEF Adopts, Blackholing, ROVPPAS_TYPE_ASPA, ROVPPAS_TYPE_ROVPPB, ROVPPAS_TYPE_ROVPPBP,
         ROVPPAS_TYPE_ROVPPBIS
<1>5. x \in InRibs(b)
  BY <1>1, <1>2, <1>3 DEF InRibs
<1>6. x \in InSlots(b)
  BY <1>1, <1>2, <1>3, <1>4 DEF InSlots
<1>7. QED
  BY <1>5, <1>6 DEF x

\* check_preventives of ROV++ 0.3 puts a blackhole into a slot.
LEMMA BlackholeHeld ==
    ASSUME input \in Inputs, NEW b \in ASes, NEW ann \in Announcement,
           input.policy[b] = ROVPPAS_TYPE_ROVPPBP
    PROVE  Blackhole(ann) \in InSlots(b)
<1> DEFINE x == Blackhole(ann)
<1>1. x \in Announcement /\ x.origin = UNUSED_ASN_FLAG_FOR_BLACKHOLES
  BY BlackholeFields
<1> HIDE DEF x
<1>2. x.origin \notin Side /\ x.origin \notin input.attackers
  BY <1>1, FlagsApart
<1>3. Withheld(b) = input.attackers
  BY DEF Withheld, ROVPPAS_TYPE_ROVPPBP, ROVPPAS_TYPE_ROVPPBIS
<1>4. x \in InSlots(b)
  BY <1>1, <1>2, <1>3 DEF InSlots
<1>5. QED
  BY <1>4 DEF x

\* What an AS of the invariant holds is closed under its policy.
LEMMA InvClosed ==
    ASSUME input \in Inputs, NEW b \in ASes
    PROVE  Closed(b, InRibs(b), InSlots(b))
<1> DEFINE R == InRibs(b)
           L == InSlots(b)
           pol == input.policy[b]
           rov == {ROVPPAS_TYPE_ROV, ROVPPAS_TYPE_ROVPP0} \union Blackholing
<1>1. R \subseteq Announcement /\ L \subseteq Announcement
  BY DEF InRibs, InSlots
<1>2. pol \notin {ROVPPAS_TYPE_ROV} \union Blackholing =>
         /\ b \notin Side
         /\ b \notin Adopts({ROVPPAS_TYPE_ROV} \union Blackholing)
  BY SidePolicy DEF Adopts
<1>3. ASSUME pol \notin {ROVPPAS_TYPE_ROV} \union Blackholing, NEW ann \in R,
             b \in Adopts({ROVPPAS_TYPE_ASPA}) => pass_aspa(ann)
      PROVE  ann \in L
  BY <1>1, <1>2, <1>3 DEF InRibs, InSlots
<1>4. pol = ROVPPAS_TYPE_ROVPP0 => R \subseteq L
  <2>1. pol = ROVPPAS_TYPE_ROVPP0 =>
           /\ pol \notin {ROVPPAS_TYPE_ROV} \union Blackholing
           /\ b \notin Adopts({ROVPPAS_TYPE_ASPA})
    BY DEF Adopts, Blackholing, ROVPPAS_TYPE_ROVPP0, ROVPPAS_TYPE_ROV, ROVPPAS_TYPE_ASPA,
           ROVPPAS_TYPE_ROVPPB, ROVPPAS_TYPE_ROVPPBP, ROVPPAS_TYPE_ROVPPBIS
  <2>2. QED
    BY <1>3, <2>1
<1>5. pol \notin rov => \A ann \in R : (pol = ROVPPAS_TYPE_ASPA => pass_aspa(ann)) => ann \in L
  BY <1>3 DEF Adopts
<1>6. /\ \A ann \in L : [ann EXCEPT !.withdraw = TRUE] \in L
      /\ \A ann \in R : [ann EXCEPT !.alt = ATTACKER_ON_ROUTE_FLAG] \in R
      /\ \A ann \in R : pass_rov(ann) => ann \in L
      /\ \A best \in L, ann \in Announcement : Preventive(b, best, ann) \in L
  BY HeldChanged, RibsChanged, PassedHeld, PreventiveHeld
<1>7. \A ann \in R : (\E held \in L : held.origin = b) =>
          [ann EXCEPT !.received_from_asn = NOTHIJACKED] \in R
  BY OwnKept
<1>8. pol = ROVPPAS_TYPE_ROVPPBP =>
          \A ann \in L : /\ [ann EXCEPT !.netmask = 24] \in L
                         /\ Blackhole([ann EXCEPT !.netmask = 24]) \in L
  <2>1. ASSUME pol = ROVPPAS_TYPE_ROVPPBP, NEW ann \in L
        PROVE  [ann EXCEPT !.netmask = 24] \in L /\ Blackhole([ann EXCEPT !.netmask = 24]) \in L
    <3> DEFINE p == [ann EXCEPT !.netmask = 24]
    <3>1. p \in L
      BY HeldChanged
    <3> HIDE DEF p
    <3>2. Blackhole(p) \in L
      BY <1>1, <2>1, <3>1, BlackholeHeld
    <3>3. QED
      BY <3>1, <3>2 DEF p
  <2>2. QED
    BY <2>1
<1>9. pol \in Blackholing =>
          \A ann \in R : ~ pass_rov(ann) /\ ~ SilentlyDropped(b, ann) =>
                             Blackhole(ann) \in R /\ Blackhole(ann) \in L
  BY BlackholeKept
<1> HIDE DEF R, L
<1>10. Closed(b, R, L)
  BY <1>1, <1>4, <1>5, <1>6, <1>7, <1>8, <1>9 DEF Closed
<1>11. QED
  BY <1>10 DEF R, L

-----------------------------------------------------------------------------
(***************************************************************************)
(* Seeding.                                                                *)
(***************************************************************************)
\* The records of the ASes, as the invariant has them.
Kept == {f \in [ASes -> ASRecord(Announcement, Announcement)] :
            \A b \in ASes : f[b] \in ASRecord(InRibs(b), InSlots(b))}

TableRow == Elements(input.rows)

HopTurns(row, f) ==
    f = [k \in 0..Len(row.path) |-> IF k = 0 THEN [ases |-> ases, cur_path |-> <<>>] ELSE SeedHop(f[k - 1], row, k)]

\* The hops of a row, one from the other.
LEMMA HopByHop ==
    ASSUME NEW row, NEW X, Len(row.path) \in Nat, [ases |-> ases, cur_path |-> <<>>] \in X,
           \A t \in X, k \in 1..Len(row.path) : SeedHop(t, row, k) \in X
    PROVE  /\ SeedHops(row)[0] = [ases |-> ases, cur_path |-> <<>>]
           /\ \A k \in 1..Len(row.path) : SeedHops(row)[k] = SeedHop(SeedHops(row)[k - 1], row, k)
<1> DEFINE n == Len(row.path)
           step == [p \in X \X (1..n) |-> SeedHop(p[1], row, p[2])]
<1>1. n \in Nat /\ step \in [X \X (1..n) -> X]
  OBVIOUS
<1>2. \A t \in X, k \in 1..n : step[<<t, k>>] = SeedHop(t, row, k)
  OBVIOUS
<1>3. SeedHops(row) = (CHOOSE f : HopTurns(row, f))
  BY DEF SeedHops, HopTurns
<1>4. n = Len(row.path)
  OBVIOUS
<1> HIDE DEF step, n
<1>5. PICK g : LoopWithin(n, X, [ases |-> ases, cur_path |-> <<>>], step, g)
  BY <1>1, LoopIn
<1>6. HopTurns(row, g)
  <2>1. \A k \in 1..n : k - 1 \in 0..n /\ g[k - 1] \in X
    BY <1>1, <1>5 DEF LoopWithin
  <2>2. \A k \in 1..n : g[k] = SeedHop(g[k - 1], row, k)
    BY <1>2, <1>5, <2>1 DEF LoopWithin
  <2>3. g = [k \in 0..n |-> g[k]] /\ \A k \in 0..n : k = 0 \/ (k # 0 /\ k \in 1..n)
    BY <1>1, <1>5 DEF LoopWithin
  <2>4. \A k \in 0..n : g[k] = IF k = 0 THEN [ases |-> ases, cur_path |-> <<>>] ELSE SeedHop(g[k - 1], row, k)
    BY <1>5, <2>2, <2>3 DEF LoopWithin
  <2>5. QED
    BY <1>4, <2>3, <2>4 DEF HopTurns
<1> DEFINE f == SeedHops(row)
<1>7. HopTurns(row, f)
  BY <1>3, <1>6
<1> HIDE DEF f
<1>8. f[0] = [ases |-> ases, cur_path |-> <<>>] /\ \A k \in 1..n : f[k] = SeedHop(f[k - 1], row, k)
  <2>1. f = [k \in 0..n |-> IF k = 0 THEN [ases |-> ases, cur_path |-> <<>>] ELSE SeedHop(f[k - 1], row, k)]
    BY <1>4, <1>7 DEF HopTurns
  <2>2. \A k \in 0..n : f[k] = IF k = 0 THEN [ases |-> ases, cur_path |-> <<>>] ELSE SeedHop(f[k - 1], row, k)
    BY <2>1
  <2>3. 0 \in 0..n /\ \A k \in 1..n : k \in 0..n /\ k # 0
    BY <1>1
  <2>4. QED
    BY <2>2, <2>3
<1>9. QED
  BY <1>4, <1>8 DEF f

\* A row of the table.
LEMMA RowFields ==
    ASSUME input \in Inputs, NEW row \in TableRow
    PROVE  /\ row.path \in Seq(Nat) /\ row.path # <<>>
           /\ Len(row.path) \in Nat /\ Len(row.path) >= 1
           /\ \A k \in 1..Len(row.path) : row.path[k] \in Nat /\ row.path[k] \in Elements(row.path)
           /\ row.netmask \in Nat /\ row.block_id \in input.blocks
           /\ row \in {input.rows[k] : k \in DOMAIN input.rows}
<1> DEFINE Row == [path : Seq(Nat) \ {<<>>}, netmask : Nat, block_id : input.blocks]
<1>1. input.rows \in Seq(Row)
  BY SimulationType
<1>2. \A k \in DOMAIN input.rows : input.rows[k] \in Row
  <2> HIDE DEF Row
  <2>1. QED
    BY <1>1
<1>3. row \in {input.rows[k] : k \in DOMAIN input.rows}
  BY DEF TableRow, Elements
<1>4. row \in Row
  BY <1>2, <1>3
<1>5. row.path \in Seq(Nat) /\ row.path # <<>> /\ row.netmask \in Nat /\ row.block_id \in input.blocks
  BY <1>4
<1>6. Len(row.path) \in Nat /\ Len(row.path) >= 1
  BY <1>5, EmptySeq
<1>7. \A k \in 1..Len(row.path) : row.path[k] \in Nat /\ row.path[k] \in Elements(row.path)
  BY <1>5 DEF Elements
<1>8. QED
  BY <1>3, <1>5, <1>6, <1>7

\* The seed of a hop.
Seed(row, k, from, path) ==
    LET n     == Len(row.path)
        prior == IF k = 1 THEN NOTHIJACKED ELSE row.path[n - k + 2]
    IN  [origin |-> OriginOf(path), netmask |-> row.netmask, block_id |-> row.block_id,
         as_path |-> path, priority |-> from + 100 - (k - 1), received_from_asn |-> prior,
         alt |-> 0, withdraw |-> FALSE, from_monitor |-> TRUE]

\* A path with another AS in front.
LEMMA InFront ==
    ASSUME NEW path \in Seq(Nat), NEW a \in Nat
    PROVE  /\ <<a>> \o path \in Seq(Nat) /\ <<a>> \o path # <<>>
           /\ path = <<>> => OriginOf(<<a>> \o path) = a
           /\ path # <<>> => OriginOf(<<a>> \o path) = OriginOf(path)
           /\ OriginOf(<<a>> \o path) \in Nat
<1> DEFINE q == <<a>> \o path
<1>1. <<a>> \in Seq(Nat) /\ Len(<<a>>) = 1 /\ <<a>>[1] = a
  OBVIOUS
<1>2. /\ q \in Seq(Nat) /\ Len(q) = 1 + Len(path)
      /\ \A k \in 1..(1 + Len(path)) : q[k] = IF k <= 1 THEN a ELSE path[k - 1]
  BY <1>1
<1>3. Len(path) \in Nat /\ (path # <<>> => Len(path) >= 1) /\ (path = <<>> => Len(path) = 0)
  OBVIOUS
<1> HIDE DEF q
<1>4. q # <<>>
  BY <1>2, <1>3
<1>5. path = <<>> => q[Len(q)] = a
  BY <1>2, <1>3
<1>6. path # <<>> => q[Len(q)] = path[Len(path)]
  BY <1>2, <1>3
<1>7. q[Len(q)] \in Nat
  BY <1>2, <1>3
<1>8. QED
  BY <1>2, <1>4, <1>5, <1>6, <1>7 DEF q, OriginOf

\* What a hop does: nothing, or it extends the path, and may set the slot.
LEMMA SeedHopCases ==
    ASSUME input \in Inputs, NEW row \in TableRow, NEW k \in 1..Len(row.path),
           NEW t \in [ases : [ASes -> ASRecord(Announcement, Announcement)], cur_path : Seq(Nat)]
    PROVE  LET a    == row.path[Len(row.path) - k + 1]
               path == <<a>> \o t.cur_path
           IN  \/ a \notin ASes /\ SeedHop(t, row, k) = t
               \/ a \in ASes /\ SeedHop(t, row, k) = [ases |-> t.ases, cur_path |-> path]
               \/ /\ a \in ASes
                  /\ \E seed \in {NoAnn} \union {Seed(row, k, from, path) : from \in Int} :
                        SeedHop(t, row, k) =
                            [cur_path |-> path,
                             ases |-> [t.ases EXCEPT ![a].loc_rib[row.block_id] = seed]]
<1> DEFINE n     == Len(row.path)
           a     == row.path[n - k + 1]
           path  == <<a>> \o t.cur_path
           prior == IF k = 1 THEN NOTHIJACKED ELSE row.path[n - k + 2]
           from  == ReceivedFrom(a, prior, k)
           f     == IF from = -1 THEN 300 ELSE from
           seed  == Seed(row, k, f, path)
<1>1. CASE a \notin ASes
  BY <1>1 DEF SeedHop
<1>2. CASE a \in ASes
  <2>1. from \in Int
    BY DEF ReceivedFrom, ToCustomers, ToPeers, ToProviders
  <2>2. f \in Int
    <3> HIDE DEF from
    <3>1. QED
      BY <2>1
  <2>3. SeedHop(t, row, k) \in
           {[t EXCEPT !.cur_path = path],
            [cur_path |-> path,
             ases |-> [t.ases EXCEPT ![a].loc_rib[row.block_id] = IF from = -1 THEN NoAnn ELSE seed]]}
    <3> DEFINE priority == f + 100 - (k - 1)
               held == t.ases[a].loc_rib[row.block_id]
               ann  == [origin |-> OriginOf(path), netmask |-> row.netmask, block_id |-> row.block_id,
                        as_path |-> path, priority |-> priority, received_from_asn |-> prior,
                        alt |-> 0, withdraw |-> FALSE, from_monitor |-> TRUE]
               kept == held # NoAnn /\ (OriginOf(path) = a \/ held.priority > priority \/ prior = a)
    <3>1. SeedHop(t, row, k) =
             IF a \notin ASes THEN t
             ELSE IF kept THEN [t EXCEPT !.cur_path = path]
             ELSE [cur_path |-> path,
                   ases |-> [t.ases EXCEPT ![a].loc_rib[row.block_id] = IF from = -1 THEN NoAnn ELSE ann]]
      BY DEF SeedHop
    <3>2. ann = seed
      BY DEF Seed
    <3> HIDE DEF ann, kept, seed, from, path, a
    <3>3. QED
      BY <1>2, <3>1, <3>2
  <2>4. [t EXCEPT !.cur_path = path] = [ases |-> t.ases, cur_path |-> path]
    <3> HIDE DEF path
    <3>1. t = [ases |-> t.ases, cur_path |-> t.cur_path]
      OBVIOUS
    <3>2. QED
      BY <3>1
  <2>5. (IF from = -1 THEN NoAnn ELSE seed) \in {NoAnn} \union {Seed(row, k, g, path) : g \in Int}
    <3> HIDE DEF from, f, path
    <3>1. QED
      BY <2>2
  <2> HIDE DEF from, f, seed, path
  <2>6. QED
    BY <1>2, <2>3, <2>4, <2>5 DEF path
<1>3. QED
  BY <1>1, <1>2

\* What the walk over a row has after k hops: the invariant, and a path that
\* ends in an AS on the path of the row, in its last one if that is in the graph.
Walked(row, k) ==
    {t \in [ases : Kept, cur_path : Seq(Nat)] :
        /\ k = 0 => t.cur_path = <<>>
        /\ t.cur_path # <<>> => OriginOf(t.cur_path) \in ASes \intersect Elements(row.path)
        /\ OriginOf(row.path) \in ASes =>
               /\ k > 0 => t.cur_path # <<>>
               /\ t.cur_path # <<>> => OriginOf(t.cur_path) = OriginOf(row.path)}

\* One slot changed.
LEMMA WithSlot ==
    ASSUME NEW L, NEW R, NEW s \in ASRecord(R, L), NEW c \in input.blocks, NEW x \in L \union {NoAnn}
    PROVE  [s EXCEPT !.loc_rib[c] = x] \in ASRecord(R, L)
<1> DEFINE q == [s.loc_rib EXCEPT ![c] = x]
<1>1. q \in [input.blocks -> L \union {NoAnn}]
  BY Fields
<1>2. [s EXCEPT !.loc_rib[c] = x] = [s EXCEPT !.loc_rib = q]
  OBVIOUS
<1> HIDE DEF q
<1>3. QED
  BY <1>1, <1>2 DEF ASRecord

\* A seed is an announcement.
LEMMA SeedType ==
    ASSUME input \in Inputs, NEW row \in TableRow, NEW k \in 1..Len(row.path),
           NEW from \in Int, NEW path \in Seq(Nat), path # <<>>
    PROVE  /\ Seed(row, k, from, path) \in Announcement
           /\ Seed(row, k, from, path).origin = OriginOf(path)
           /\ Seed(row, k, from, path).from_monitor
<1> DEFINE n     == Len(row.path)
           prior == IF k = 1 THEN NOTHIJACKED ELSE row.path[n - k + 2]
           pr    == from + 100 - (k - 1)
           o     == OriginOf(path)
<1>1. prior \in Nat
  <2>1. CASE k = 1
    BY <2>1, FlagNumbers
  <2>2. CASE k # 1
    <3>1. n - k + 2 \in 1..n
      BY <2>2, RowFields
    <3>2. QED
      BY <2>2, <3>1, RowFields
  <2>3. QED
    BY <2>1, <2>2
<1>2. pr \in Int /\ row.netmask \in Nat /\ row.block_id \in input.blocks
  BY RowFields
<1>3. o \in Nat
  BY DEF OriginOf
<1>4. Seed(row, k, from, path) =
         [origin |-> o, netmask |-> row.netmask, block_id |-> row.block_id,
          as_path |-> path, priority |-> pr, received_from_asn |-> prior,
          alt |-> 0, withdraw |-> FALSE, from_monitor |-> TRUE]
  BY DEF Seed
<1> HIDE DEF o, pr, prior
<1>5. QED
  BY <1>1, <1>2, <1>3, <1>4 DEF Announcement, o

\* A hop keeps the invariant.
LEMMA HopWalked ==
    ASSUME input \in Inputs, NEW row \in TableRow, NEW k \in 1..Len(row.path),
           NEW t \in Walked(row, k - 1)
    PROVE  SeedHop(t, row, k) \in Walked(row, k)
<1> DEFINE n    == Len(row.path)
           a    == row.path[n - k + 1]
           path == <<a>> \o t.cur_path
           o    == OriginOf(path)
           last == OriginOf(row.path)
<1>1. /\ t.ases \in Kept /\ t.cur_path \in Seq(Nat)
      /\ t \in [ases : [ASes -> ASRecord(Announcement, Announcement)], cur_path : Seq(Nat)]
  BY DEF Walked, Kept
<1>2. n \in Nat /\ n - k + 1 \in 1..n /\ a \in Nat /\ a \in Elements(row.path)
  <2>1. n \in Nat /\ n - k + 1 \in 1..n
    BY RowFields
  <2>2. QED
    BY <2>1, RowFields
<1>3. /\ path \in Seq(Nat) /\ path # <<>> /\ o \in Nat
      /\ t.cur_path = <<>> => o = a
      /\ t.cur_path # <<>> => o = OriginOf(t.cur_path)
  <2> HIDE DEF a
  <2>1. QED
    BY <1>1, <1>2, InFront
<1>4. k = 1 => a = last
  BY <1>2 DEF OriginOf
<1>5. t.cur_path # <<>> => /\ OriginOf(t.cur_path) \in ASes \intersect Elements(row.path)
                           /\ last \in ASes => OriginOf(t.cur_path) = last
  BY DEF Walked
<1>6. last \in ASes /\ k > 1 => t.cur_path # <<>>
  BY DEF Walked
<1> HIDE DEF a, path, o, last, n
<1>7. CASE a \notin ASes
  <2>1. SeedHop(t, row, k) = t
    BY <1>1, <1>7, SeedHopCases DEF a, path, n
  <2>2. last \in ASes => k > 1
    BY <1>4, <1>7
  <2>3. QED
    BY <2>1, <2>2, <1>5, <1>6 DEF Walked, last
<1>8. CASE a \in ASes
  <2>1. o \in ASes \intersect Elements(row.path)
    BY <1>2, <1>3, <1>5, <1>8
  <2>2. last \in ASes => o = last
    BY <1>3, <1>4, <1>5, <1>6
  <2>3. ASSUME NEW f \in Kept
        PROVE  [ases |-> f, cur_path |-> path] \in Walked(row, k)
    BY <1>3, <2>1, <2>2 DEF Walked, o, last
  <2>4. ASSUME NEW from \in Int
        PROVE  Seed(row, k, from, path) \in InSlots(a)
    <3> DEFINE seed == Seed(row, k, from, path)
    <3>1. seed \in Announcement /\ seed.origin = o /\ seed.from_monitor
      BY <1>3, SeedType DEF o
    <3> HIDE DEF seed
    <3>2. ASSUME NEW c \in Side, c \in Elements(row.path)
          PROVE  last \in ASes \ ({c} \union input.attackers)
      <4>1. OnTheSide(c)
        BY DEF Side
      <4>2. PICK j \in DOMAIN input.rows : row = input.rows[j]
        BY RowFields
      <4>3. QED
        BY <3>2, <4>1, <4>2 DEF OnTheSide, last
    <3>3. o \notin Side
      BY <2>1, <2>2, <3>2
    <3>4. a \in Side => o \notin input.attackers
      BY <1>2, <2>2, <3>2
    <3>5. o # UNUSED_ASN_FLAG_FOR_BLACKHOLES
      BY <2>1, SimulationType DEF Flags
    <3>6. a \in Side => o \notin Withheld(a)
      BY <3>4, <3>5 DEF Withheld
    <3>7. seed \in InSlots(a)
      BY <3>1, <3>3, <3>4, <3>6 DEF InSlots
    <3>8. QED
      BY <3>7 DEF seed
  <2>5. ASSUME NEW seed \in InSlots(a) \union {NoAnn}
        PROVE  [t.ases EXCEPT ![a].loc_rib[row.block_id] = seed] \in Kept
    <3> DEFINE s == t.ases[a]
               u == [s EXCEPT !.loc_rib[row.block_id] = seed]
               g == [t.ases EXCEPT ![a] = u]
    <3>1. /\ s \in ASRecord(Announcement, Announcement) /\ s \in ASRecord(InRibs(a), InSlots(a))
          /\ row.block_id \in input.blocks /\ seed \in Announcement \union {NoAnn}
      BY <1>1, <1>8, <2>5, RowFields DEF Kept, InSlots
    <3> HIDE DEF s
    <3>2. u \in ASRecord(Announcement, Announcement) /\ u \in ASRecord(InRibs(a), InSlots(a))
      BY <2>5, <3>1, WithSlot
    <3> HIDE DEF u
    <3>3. g \in Kept
      BY <1>1, <1>8, <3>2 DEF Kept
    <3>4. [t.ases EXCEPT ![a].loc_rib[row.block_id] = seed] = g
      BY DEF u, s
    <3>5. QED
      BY <3>3, <3>4
  <2>6. \/ SeedHop(t, row, k) = [ases |-> t.ases, cur_path |-> path]
        \/ \E seed \in {NoAnn} \union {Seed(row, k, from, path) : from \in Int} :
              SeedHop(t, row, k) =
                  [cur_path |-> path,
                   ases |-> [t.ases EXCEPT ![a].loc_rib[row.block_id] = seed]]
    BY <1>1, <1>8, SeedHopCases DEF a, path, n
  <2>7. CASE SeedHop(t, row, k) = [ases |-> t.ases, cur_path |-> path]
    BY <1>1, <2>3, <2>7
  <2>8. CASE \E seed \in {NoAnn} \union {Seed(row, k, from, path) : from \in Int} :
                SeedHop(t, row, k) =
                    [cur_path |-> path,
                     ases |-> [t.ases EXCEPT ![a].loc_rib[row.block_id] = seed]]
    <3>1. PICK seed \in {NoAnn} \union {Seed(row, k, from, path) : from \in Int} :
              SeedHop(t, row, k) =
                  [cur_path |-> path,
                   ases |-> [t.ases EXCEPT ![a].loc_rib[row.block_id] = seed]]
      BY <2>8
    <3>2. seed \in InSlots(a) \union {NoAnn}
      BY <2>4, <3>1
    <3> DEFINE f == [t.ases EXCEPT ![a].loc_rib[row.block_id] = seed]
    <3>3. f \in Kept
      BY <2>5, <3>2
    <3>4. SeedHop(t, row, k) = [ases |-> f, cur_path |-> path]
      BY <3>1
    <3> HIDE DEF f
    <3>5. QED
      BY <2>3, <3>3, <3>4
  <2>9. QED
    BY <2>6, <2>7, <2>8
<1>9. QED
  BY <1>7, <1>8

\* A hop of any kind leaves records and a path.
LEMMA HopType ==
    ASSUME input \in Inputs, NEW row \in TableRow, NEW k \in 1..Len(row.path),
           NEW t \in [ases : [ASes -> ASRecord(Announcement, Announcement)], cur_path : Seq(Nat)]
    PROVE  SeedHop(t, row, k) \in
               [ases : [ASes -> ASRecord(Announcement, Announcement)], cur_path : Seq(Nat)]
<1> DEFINE n    == Len(row.path)
           a    == row.path[n - k + 1]
           path == <<a>> \o t.cur_path
           All  == [ASes -> ASRecord(Announcement, Announcement)]
<1>1. n \in Nat /\ n - k + 1 \in 1..n /\ a \in Nat
  BY RowFields
<1>2. path \in Seq(Nat) /\ path # <<>>
  <2> HIDE DEF a
  <2>1. t.cur_path \in Seq(Nat)
    OBVIOUS
  <2>2. QED
    BY <1>1, <2>1, InFront
<1> HIDE DEF a, path, n
<1>3. ASSUME a \in ASes, NEW seed \in {NoAnn} \union {Seed(row, k, from, path) : from \in Int}
      PROVE  [t.ases EXCEPT ![a].loc_rib[row.block_id] = seed] \in All
  <2> DEFINE s == t.ases[a]
             u == [s EXCEPT !.loc_rib[row.block_id] = seed]
  <2>1. /\ s \in ASRecord(Announcement, Announcement) /\ row.block_id \in input.blocks
        /\ seed \in Announcement \union {NoAnn}
    BY <1>2, <1>3, RowFields, SeedType
  <2> HIDE DEF s
  <2>2. u \in ASRecord(Announcement, Announcement)
    BY <2>1, WithSlot
  <2>3. [t.ases EXCEPT ![a].loc_rib[row.block_id] = seed] = [t.ases EXCEPT ![a] = u]
    BY DEF s
  <2> HIDE DEF u
  <2>4. QED
    BY <2>2, <2>3
<1>4. CASE SeedHop(t, row, k) = t
  BY <1>4
<1>5. CASE SeedHop(t, row, k) = [ases |-> t.ases, cur_path |-> path]
  BY <1>2, <1>5
<1>6. CASE /\ a \in ASes
           /\ \E seed \in {NoAnn} \union {Seed(row, k, from, path) : from \in Int} :
                 SeedHop(t, row, k) =
                     [cur_path |-> path,
                      ases |-> [t.ases EXCEPT ![a].loc_rib[row.block_id] = seed]]
  <2>1. PICK seed \in {NoAnn} \union {Seed(row, k, from, path) : from \in Int} :
            SeedHop(t, row, k) =
                [cur_path |-> path,
                 ases |-> [t.ases EXCEPT ![a].loc_rib[row.block_id] = seed]]
    BY <1>6
  <2> DEFINE f == [t.ases EXCEPT ![a].loc_rib[row.block_id] = seed]
  <2>2. f \in All
    BY <1>3, <1>6
  <2>3. SeedHop(t, row, k) = [cur_path |-> path, ases |-> f]
    BY <2>1
  <2> HIDE DEF f
  <2>4. QED
    BY <1>2, <2>2, <2>3
<1>7. QED
  BY <1>4, <1>5, <1>6, SeedHopCases DEF a, path, n

\* Seeding a row keeps the invariant.
LEMMA RowKept ==
    ASSUME input \in Inputs, NEW row \in TableRow, ases \in Kept,
           NEW hops \in 0..Len(row.path)
    PROVE  SeedHops(row)[hops].ases \in Kept
<1> DEFINE X    == [ases : [ASes -> ASRecord(Announcement, Announcement)], cur_path : Seq(Nat)]
           base == [ases |-> ases, cur_path |-> <<>>]
           n    == Len(row.path)
           f    == SeedHops(row)
           K    == {k \in 0..n : f[k] \in Walked(row, k)}
<1>1. n \in Nat
  BY RowFields
<1>2. base \in X
  BY DEF Kept
<1>3. \A t \in X, k \in 1..n : SeedHop(t, row, k) \in X
  BY HopType
<1>4. f[0] = base /\ \A k \in 1..n : f[k] = SeedHop(f[k - 1], row, k)
  <2> HIDE DEF X
  <2>1. QED
    BY <1>1, <1>2, <1>3, HopByHop
<1>5. base \in Walked(row, 0)
  BY DEF Walked
<1> HIDE DEF f, base
<1>6. 0 \in K
  BY <1>1, <1>4, <1>5
<1>7. ASSUME NEW k \in 1..n, k - 1 \in K
      PROVE  k \in K
  BY <1>1, <1>4, <1>7, HopWalked
<1> HIDE DEF K
<1>8. \A k \in 0..n : k \in K
  BY <1>1, <1>6, <1>7, UpTo
<1>9. f[hops] \in Walked(row, hops)
  BY <1>8 DEF K
<1>10. QED
  BY <1>9 DEF f, Walked

-----------------------------------------------------------------------------
(***************************************************************************)
(* Sending.                                                                *)
(***************************************************************************)
\* What is sent.
LEMMA SentFields ==
    ASSUME NEW a \in Nat, NEW ann \in Announcement, NEW base \in {ToCustomers, ToPeers, ToProviders}
    PROVE  /\ Sent(a, ann, base) \in Announcement
           /\ Sent(a, ann, base).origin = ann.origin
           /\ Sent(a, ann, base).received_from_asn = a
           /\ Sent(a, ann, base).priority >= 200 => base = ToProviders
<1> DEFINE pr   == get_priority(ann, base)
           path == IF ann.as_path # <<>> /\ OriginOf(ann.as_path) = a
                   THEN ann.as_path ELSE Append(ann.as_path, a)
<1>1. pr \in Int /\ (pr >= 200 => base = ToProviders)
  <2> DEFINE r == ann.priority % 100
             w == IF r = 0 THEN 99 ELSE r - 1
  <2>1. r \in 0..99
    <3>1. ann.priority \in Int
      BY AnnFields
    <3>2. \A n \in Int : n % 100 \in 0..99
      OBVIOUS
    <3>3. QED
      BY <3>1, <3>2
  <2>2. pr = base + w
    BY DEF get_priority
  <2> HIDE DEF r, pr
  <2>3. w \in 0..99
    BY <2>1
  <2> HIDE DEF w
  <2>4. QED
    BY <2>2, <2>3 DEF ToCustomers, ToPeers, ToProviders
<1>2. path \in Seq(Nat)
  BY AnnFields
<1>3. Sent(a, ann, base) = [ann EXCEPT !.received_from_asn = a, !.from_monitor = FALSE,
                                       !.priority = pr, !.as_path = path]
  BY DEF Sent
<1> HIDE DEF pr, path
<1> DEFINE x == [ann EXCEPT !.received_from_asn = a, !.from_monitor = FALSE,
                            !.priority = pr, !.as_path = path]
<1>4. x \in Announcement
  <2> DEFINE x1 == [ann EXCEPT !.received_from_asn = a]
             x2 == [x1 EXCEPT !.from_monitor = FALSE]
             x3 == [x2 EXCEPT !.priority = pr]
             x4 == [x3 EXCEPT !.as_path = path]
  <2>1. x1 \in Announcement
    BY Edited
  <2>2. x2 \in Announcement
    <3> HIDE DEF x1
    <3>1. QED
      BY <2>1 DEF Announcement
  <2>3. x3 \in Announcement
    <3> HIDE DEF x2
    <3>1. QED
      BY <1>1, <2>2 DEF Announcement
  <2>4. x4 \in Announcement
    <3> HIDE DEF x3
    <3>1. QED
      BY <1>2, <2>3 DEF Announcement
  <2>5. x = x4
    BY AnnFields
  <2>6. QED
    BY <2>4, <2>5
<1>5. x.origin = ann.origin /\ x.received_from_asn = a /\ x.priority = pr
  BY AnnFields
<1> HIDE DEF x
<1>6. QED
  BY <1>1, <1>3, <1>4, <1>5 DEF x

\* Everything that goes out is a slot or a withdrawal that is exported.
LEMMA OutgoingType ==
    ASSUME input \in Inputs, NEW a, NEW R, NEW L, NEW s \in ASRecord(R, L), NEW base
    PROVE  Outgoing(a, s, base) \in Seq({Sent(a, ann, base) : ann \in {x \in L : Exported(x, base)}})
<1> DEFINE told  == {w \in Elements(s.withdrawals) : w.withdraw /\ Exported(w, base)}
           shown == {ann \in Elements(s.loc_rib) \ {NoAnn} :
                        /\ Exported(ann, base)
                        /\ base # ToCustomers => ~ is_filtered(a, s, ann)
                        /\ ~ (/\ ann.origin = UNUSED_ASN_FLAG_FOR_BLACKHOLES
                              /\ input.policy[a] = ROVPPAS_TYPE_ROVPP)}
           E     == {x \in L : Exported(x, base)}
           q     == Those(s.withdrawals, told)
           r     == IF base = SweepBase THEN Those(s.loc_rib, shown) ELSE <<>>
           anns  == q \o r
<1>1. s.withdrawals \in Seq(L) /\ s.loc_rib \in Seq(L \union {NoAnn})
  <2>1. PICK n \in Nat : input.blocks = 1..n
    BY SimulationType
  <2>2. s.loc_rib \in [1..n -> L \union {NoAnn}] /\ s.withdrawals \in Seq(L)
    BY <2>1, Fields
  <2>3. QED
    BY <2>2, SeqDef
<1>2. q \in Seq(E)
  <2>1. q \in Seq(L \intersect told)
    <3> HIDE DEF told
    <3>1. QED
      BY <1>1, ThoseType
  <2>2. L \intersect told \subseteq E
    OBVIOUS
  <2> HIDE DEF q, told, E
  <2>3. QED
    BY <2>1, <2>2
<1>3. r \in Seq(E)
  <2>1. Those(s.loc_rib, shown) \in Seq((L \union {NoAnn}) \intersect shown)
    <3> HIDE DEF shown
    <3>1. QED
      BY <1>1, ThoseType
  <2>2. (L \union {NoAnn}) \intersect shown \subseteq E
    OBVIOUS
  <2> DEFINE v == Those(s.loc_rib, shown)
  <2>3. v \in Seq(E)
    <3> HIDE DEF v, shown, E
    <3>1. v \in Seq((L \union {NoAnn}) \intersect shown)
      BY <2>1 DEF v
    <3>2. QED
      BY <2>2, <3>1
  <2> HIDE DEF v, E
  <2>4. r = IF base = SweepBase THEN v ELSE <<>>
    BY DEF v
  <2>5. QED
    BY <2>3, <2>4
<1>4. anns \in Seq(E)
  <2> HIDE DEF q, r, E
  <2>1. QED
    BY <1>2, <1>3
<1>5. Outgoing(a, s, base) = [k \in DOMAIN anns |-> Sent(a, anns[k], base)]
  BY DEF Outgoing
<1> DEFINE S == {Sent(a, ann, base) : ann \in E}
<1>6. [k \in DOMAIN anns |-> Sent(a, anns[k], base)] \in Seq(S)
  <2> HIDE DEF anns, E
  <2>1. Len(anns) \in Nat /\ DOMAIN anns = 1..Len(anns) /\ \A k \in 1..Len(anns) : anns[k] \in E
    BY <1>4
  <2>2. [k \in 1..Len(anns) |-> Sent(a, anns[k], base)] \in [1..Len(anns) -> S]
    BY <2>1
  <2>3. QED
    BY <2>1, <2>2, SeqDef
<1>7. QED
  BY <1>5, <1>6

\* What the preventive withdrawals take back was sent.
LEMMA PreventiveWithdrawalsType ==
    ASSUME input \in Inputs, NEW a, NEW R, NEW L, NEW s \in ASRecord(R, L), NEW b
    PROVE  PreventiveWithdrawals(a, s, b) \in
               Seq({[Sent(a, ann, ToCustomers) EXCEPT !.withdraw = TRUE] : ann \in L})
<1> DEFINE anns  == Outgoing(a, s, ToCustomers)
           first == {k \in DOMAIN anns : /\ OfOrigin(anns[k]) \in s.preventive_anns
                                         /\ \A j \in 1..(k - 1) : OfOrigin(anns[j]) # OfOrigin(anns[k])}
           keys  == [k \in DOMAIN anns |-> k]
           hit   == Those(keys, first)
           taken == [i \in DOMAIN hit |-> [anns[hit[i]] EXCEPT !.withdraw = TRUE]]
           S     == {[Sent(a, ann, ToCustomers) EXCEPT !.withdraw = TRUE] : ann \in L}
<1>1. anns \in Seq({Sent(a, ann, ToCustomers) : ann \in {x \in L : Exported(x, ToCustomers)}})
  BY OutgoingType
<1> HIDE DEF anns
<1>2. /\ Len(anns) \in Nat /\ DOMAIN anns = 1..Len(anns)
      /\ \A k \in DOMAIN anns : \E ann \in L : anns[k] = Sent(a, ann, ToCustomers)
  BY <1>1
<1>3. keys \in Seq(DOMAIN anns)
  <2>1. keys \in [1..Len(anns) -> DOMAIN anns]
    BY <1>2
  <2> HIDE DEF keys
  <2>2. QED
    BY <1>2, <2>1, SeqDef
<1>4. hit \in Seq(DOMAIN anns \intersect first)
  <2> HIDE DEF keys, first
  <2>1. QED
    BY <1>3, ThoseType
<1> HIDE DEF hit, keys, first
<1>5. Len(hit) \in Nat /\ DOMAIN hit = 1..Len(hit) /\ \A i \in DOMAIN hit : hit[i] \in DOMAIN anns
  BY <1>4
<1>6. \A i \in DOMAIN hit : [anns[hit[i]] EXCEPT !.withdraw = TRUE] \in S
  BY <1>2, <1>5
<1>7. taken \in Seq(S)
  <2> HIDE DEF S
  <2>1. taken \in [1..Len(hit) -> S]
    BY <1>5, <1>6
  <2>2. QED
    BY <1>5, <2>1, SeqDef
<1>8. PreventiveWithdrawals(a, s, b) \in {taken, <<>>}
  BY DEF PreventiveWithdrawals, anns, hit, first, keys
<1> DEFINE p == PreventiveWithdrawals(a, s, b)
<1>9. p = taken \/ p = <<>>
  BY <1>8
<1> HIDE DEF taken, S, p
<1>10. p \in Seq(S)
  <2>1. <<>> \in Seq(S)
    OBVIOUS
  <2>2. QED
    BY <1>7, <1>9, <2>1, Zenon
<1>11. QED
  BY <1>10 DEF S, p

\* What an AS sends to a neighbour, the neighbour may have in its ribs_in: only
\* a customer sends with a customer's priority, and an AS on the side nothing
\* it withholds.
LEMMA SentRight ==
    ASSUME input \in Inputs, NEW a \in ASes, NEW b \in ASes,
           NEW base \in {ToCustomers, ToPeers, ToProviders},
           NEW ann \in InSlots(a), Exported(ann, base),
           base = ToProviders => b \in input.topo.providers[a],
           base = ToCustomers => b \notin input.topo.providers[a] \union input.topo.peers[a]
    PROVE  /\ Sent(a, ann, base) \in InRibs(b)
           /\ [Sent(a, ann, base) EXCEPT !.withdraw = TRUE] \in InRibs(b)
<1> DEFINE x == Sent(a, ann, base)
           y == [x EXCEPT !.withdraw = TRUE]
<1>1. ann \in Announcement /\ a \in Nat
  BY SimulationType DEF InSlots
<1>2. /\ x \in Announcement /\ x.origin = ann.origin /\ x.received_from_asn = a
      /\ (x.priority >= 200 => base = ToProviders)
  <2>1. a \in Nat /\ ann \in Announcement /\ base \in {ToCustomers, ToPeers, ToProviders}
    BY <1>1
  <2> HIDE DEF x
  <2>2. QED
    BY ONLY <2>1, SentFields DEF x
<1> HIDE DEF x
<1>3. /\ y \in Announcement /\ y.origin = x.origin /\ y.received_from_asn = a
      /\ y.priority = x.priority
  BY <1>2, Edited, AnnFields
<1> HIDE DEF y
<1>4. ann.origin \notin Side
  BY DEF InSlots
<1>5. ASSUME NEW c \in Side, b \in input.topo.providers[c] \union input.topo.peers[c], a = c
      PROVE  ann.origin \notin Withheld(c)
  <2>1. base # ToCustomers
    BY <1>5
  <2>2. ann.priority >= 200
    BY <2>1 DEF Exported
  <2>3. QED
    BY <1>5, <2>2 DEF InSlots
<1>6. base = ToProviders => a \in input.topo.customers[b]
  BY SimulationType
<1>7. x \in InRibs(b)
  BY <1>2, <1>4, <1>5, <1>6 DEF InRibs
<1>8. y \in InRibs(b)
  BY <1>2, <1>3, <1>4, <1>5, <1>6 DEF InRibs
<1>9. QED
  BY <1>7, <1>8 DEF x, y

\* So for all it sends there.
LEMMA ToNeighborType ==
    ASSUME input \in Inputs, NEW a \in ASes, NEW b \in ASes,
           NEW s \in ASRecord(InRibs(a), InSlots(a))
    PROVE  ToNeighbor(a, s, b) \in Seq(InRibs(b))
<1> DEFINE L == InSlots(a)
           R == InRibs(a)
           out(base) == {Sent(a, ann, base) : ann \in {x \in L : Exported(x, base)}}
<1>1. ASSUME NEW base \in {ToCustomers, ToPeers, ToProviders},
             base = ToProviders => b \in input.topo.providers[a],
             base = ToCustomers => b \notin input.topo.providers[a] \union input.topo.peers[a]
      PROVE  Outgoing(a, s, base) \in Seq(InRibs(b))
  <2> DEFINE S == out(base)
             o == Outgoing(a, s, base)
  <2>1. S \subseteq InRibs(b)
    <3>1. ASSUME NEW ann \in L, Exported(ann, base)
          PROVE  Sent(a, ann, base) \in InRibs(b)
      BY <1>1, <3>1, SentRight
    <3>2. QED
      BY <3>1
  <2>2. o \in Seq(S)
    BY OutgoingType
  <2> HIDE DEF S, o
  <2>3. o \in Seq(InRibs(b))
    BY <2>1, <2>2
  <2>4. QED
    BY <2>3 DEF o
<1>2. ASSUME b \notin input.topo.providers[a] \union input.topo.peers[a]
      PROVE  PreventiveWithdrawals(a, s, b) \in Seq(InRibs(b))
  <2> DEFINE S == {[Sent(a, ann, ToCustomers) EXCEPT !.withdraw = TRUE] : ann \in L}
             o == PreventiveWithdrawals(a, s, b)
  <2>1. \A ann \in L : Exported(ann, ToCustomers)
    BY DEF Exported
  <2>2. ToCustomers # ToProviders
    BY DEF ToCustomers, ToProviders
  <2>3. S \subseteq InRibs(b)
    BY <1>2, <2>1, <2>2, SentRight
  <2>4. o \in Seq(S)
    BY PreventiveWithdrawalsType
  <2> HIDE DEF S, o
  <2>5. o \in Seq(InRibs(b))
    BY <2>3, <2>4
  <2>6. QED
    BY <2>5 DEF o
<1>3. CASE b \in input.topo.providers[a]
  <2>1. ToNeighbor(a, s, b) = Outgoing(a, s, ToProviders)
    BY <1>3 DEF ToNeighbor
  <2>2. ToProviders # ToCustomers
    BY DEF ToCustomers, ToProviders
  <2>3. QED
    BY <1>1, <1>3, <2>1, <2>2
<1>4. CASE b \notin input.topo.providers[a] /\ b \in input.topo.peers[a]
  <2>1. ToNeighbor(a, s, b) = Outgoing(a, s, ToPeers)
    BY <1>4 DEF ToNeighbor
  <2>2. ToPeers # ToCustomers /\ ToPeers # ToProviders
    BY DEF ToCustomers, ToProviders, ToPeers
  <2>3. QED
    BY <1>1, <1>4, <2>1, <2>2
<1>5. CASE b \notin input.topo.providers[a] \union input.topo.peers[a]
  <2> DEFINE o == Outgoing(a, s, ToCustomers)
             p == PreventiveWithdrawals(a, s, b)
  <2>1. ToNeighbor(a, s, b) \in {o \o p, <<>>}
    BY <1>5 DEF ToNeighbor
  <2>2. o \in Seq(InRibs(b)) /\ p \in Seq(InRibs(b))
    <3>1. ToProviders # ToCustomers
      BY DEF ToCustomers, ToProviders
    <3>2. QED
      BY <1>1, <1>2, <1>5, <3>1
  <2> HIDE DEF o, p
  <2>3. o \o p \in Seq(InRibs(b)) /\ <<>> \in Seq(InRibs(b))
    BY <2>2
  <2>4. QED
    BY <2>1, <2>3
<1>6. QED
  BY <1>3, <1>4, <1>5

-----------------------------------------------------------------------------
(***************************************************************************)
(* The steps.                                                              *)
(***************************************************************************)
\* The input does not change, and what it says neither.
LEMMA SameInput ==
    ASSUME input' = input
    PROVE  ASes' = ASes /\ Kept' = Kept
<1>1. ASes' = ASes /\ Announcement' = Announcement
  BY DEF ASes, Announcement
<1>2. ASSUME NEW P PROVE Adopts(P)' = Adopts(P)
  BY <1>1 DEF Adopts
<1>3. ASSUME NEW a PROVE OnTheSide(a)' <=> OnTheSide(a)
  BY <1>1 DEF OnTheSide
<1>4. Side' = Side
  BY <1>2, <1>3 DEF Side, Adopts, ASes
<1>5. ASSUME NEW a PROVE Withheld(a)' = Withheld(a)
  BY DEF Withheld
<1>6. ASSUME NEW x PROVE (pass_rov(x)' <=> pass_rov(x)) /\ (pass_aspa(x)' <=> pass_aspa(x))
  BY DEF pass_rov, pass_aspa
<1>7. ASSUME NEW b PROVE InRibs(b)' = InRibs(b)
  BY <1>1, <1>4, <1>5, <1>6 DEF InRibs
<1>8. ASSUME NEW b PROVE InSlots(b)' = InSlots(b)
  BY <1>1, <1>2, <1>4, <1>5, <1>6 DEF InSlots
<1>9. Kept' = Kept
  BY <1>1, <1>7, <1>8 DEF Kept, ASRecord
<1>10. QED
  BY <1>1, <1>9

\* The record of an AS that keeps the invariant has its type.
LEMMA RecordType ==
    ASSUME NEW b, NEW r \in ASRecord(InRibs(b), InSlots(b))
    PROVE  r \in ASRecord(Announcement, Announcement)
<1>1. InRibs(b) \subseteq Announcement /\ InSlots(b) \subseteq Announcement
  BY DEF InRibs, InSlots
<1> DEFINE R == InRibs(b)
           L == InSlots(b)
<1> HIDE DEF R, L
<1>2. r.ribs_in \in Seq(R) /\ r.withdrawals \in Seq(L)
      /\ r.loc_rib \in [input.blocks -> L \union {NoAnn}]
  BY Fields DEF R, L
<1>3. R \subseteq Announcement /\ L \subseteq Announcement
  BY <1>1 DEF R, L
<1>4. r.ribs_in \in Seq(Announcement) /\ r.withdrawals \in Seq(Announcement)
  BY <1>2, <1>3
<1>5. r.loc_rib \in [input.blocks -> Announcement \union {NoAnn}]
  BY <1>2, <1>3
<1>6. r \in ASRecord(R, L)
  BY DEF R, L
<1>7. QED
  BY <1>4, <1>5, <1>6 DEF ASRecord

\* Functions of such records.
LEMMA KeptBy ==
    ASSUME NEW f, f = [b \in ASes |-> f[b]],
           \A b \in ASes : f[b] \in ASRecord(InRibs(b), InSlots(b))
    PROVE  f \in Kept
<1>1. \A b \in ASes : f[b] \in ASRecord(Announcement, Announcement)
  BY RecordType
<1>2. QED
  BY <1>1 DEF Kept

\* At the start.
LEMMA InitKept ==
    ASSUME Init
    PROVE  IInv
<1>1. input \in Inputs
  BY DEF Init
<1>2. \A b \in ASes : NewAS \in ASRecord(InRibs(b), InSlots(b))
  <2>1. ASSUME NEW R, NEW L PROVE NewAS \in ASRecord(R, L)
    BY DEF NewAS, ASRecord
  <2>2. QED
    BY <2>1
<1>3. ases \in Kept
  <2>1. ases = [b \in ASes |-> NewAS]
    BY DEF Init
  <2>2. ases = [b \in ASes |-> ases[b]] /\ \A b \in ASes : ases[b] = NewAS
    BY <2>1
  <2>3. QED
    BY <1>2, <2>2, KeptBy
<1>4. rows \in Seq(Elements(input.rows))
  <2> DEFINE r == input.rows
  <2>1. r \in Seq([path : Seq(Nat) \ {<<>>}, netmask : Nat, block_id : input.blocks])
    BY <1>1, SimulationType
  <2> HIDE DEF r
  <2>2. r \in Seq(Elements(r))
    <3>1. Len(r) \in Nat /\ r \in [1..Len(r) -> Elements(r)]
      BY <2>1 DEF Elements
    <3>2. QED
      BY <3>1, SeqDef
  <2>3. rows = r
    BY DEF Init, r
  <2>4. QED
    BY <2>2, <2>3 DEF r
<1>5. ControlOK
  BY <1>1, <1>4 DEF Init, ControlOK
<1>6. QED
  BY <1>3, <1>5 DEF IInv, Kept

\* A visit: one AS processes, the others get what it sends them.
LEMMA VisitKept ==
    ASSUME input \in Inputs, ases \in Kept, NEW a \in ASes, Visit(a)
    PROVE  ases' \in Kept
<1> DEFINE s == process_announcements(a, ases[a])
           f == [b \in ASes |-> IF b = a THEN [s EXCEPT !.withdrawals = <<>>]
                                ELSE [ases[b] EXCEPT !.ribs_in = @ \o ToNeighbor(a, s, b)]]
<1>1. s \in ASRecord(InRibs(a), InSlots(a))
  <2>1. ases[a] \in ASRecord(InRibs(a), InSlots(a))
    BY DEF Kept
  <2>2. Closed(a, InRibs(a), InSlots(a))
    BY InvClosed
  <2> DEFINE R == InRibs(a)
             L == InSlots(a)
  <2> HIDE DEF R, L
  <2>3. Closed(a, R, L) /\ ases[a] \in ASRecord(R, L)
    BY <2>1, <2>2 DEF R, L
  <2>4. s \in ASRecord(R, L)
    BY <2>3, ProcessedType
  <2>5. QED
    BY <2>4 DEF R, L
<1>2. ases' = f
  BY DEF Visit
<1> HIDE DEF s
<1>3. ASSUME NEW b \in ASes
      PROVE  f[b] \in ASRecord(InRibs(b), InSlots(b))
  <2>1. CASE b = a
    <3>1. f[b] = [s EXCEPT !.withdrawals = <<>>]
      BY <2>1
    <3> HIDE DEF f
    <3> DEFINE R == InRibs(a)
               L == InSlots(a)
    <3> HIDE DEF R, L
    <3>2. s \in ASRecord(R, L)
      BY <1>1 DEF R, L
    <3>3. [s EXCEPT !.withdrawals = <<>>] \in ASRecord(R, L)
      <4>1. <<>> \in Seq(L)
        OBVIOUS
      <4> DEFINE e == <<>>
      <4> HIDE DEF e
      <4>2. e \in Seq(L)
        BY <4>1 DEF e
      <4>3. [s EXCEPT !.withdrawals = e] \in ASRecord(R, L)
        BY <3>2, <4>2 DEF ASRecord
      <4>4. QED
        BY <4>3 DEF e
    <3>4. QED
      BY <2>1, <3>1, <3>3 DEF R, L
  <2>2. CASE b # a
    <3> DEFINE r == ases[b]
               q == r.ribs_in \o ToNeighbor(a, s, b)
    <3>1. f[b] = [r EXCEPT !.ribs_in = q]
      BY <2>2
    <3> HIDE DEF f
    <3> DEFINE R == InRibs(b)
               L == InSlots(b)
               t == ToNeighbor(a, s, b)
    <3>2. t \in Seq(R)
      BY <1>1, ToNeighborType
    <3> HIDE DEF R, L, t
    <3>3. r \in ASRecord(R, L)
      BY DEF R, L, Kept
    <3> HIDE DEF r
    <3>4. q = r.ribs_in \o t
      BY DEF t
    <3>5. q \in Seq(R)
      BY <3>2, <3>3, <3>4, Fields
    <3> HIDE DEF q
    <3>6. [r EXCEPT !.ribs_in = q] \in ASRecord(R, L)
      BY <3>3, <3>5 DEF ASRecord
    <3>7. QED
      BY <3>1, <3>6 DEF R, L
  <2>3. QED
    BY <2>1, <2>2
<1>4. f = [b \in ASes |-> f[b]]
  OBVIOUS
<1> HIDE DEF f
<1>5. f \in Kept
  BY <1>3, <1>4, KeptBy
<1>6. QED
  BY <1>2, <1>5

\* A cycle starts.
LEMMA CycleKept ==
    ASSUME ases \in Kept, NEW from, StartCycle(from)
    PROVE  ases' \in Kept
<1> DEFINE f == [b \in ASes |-> [ases[b] EXCEPT !.graph_changed = FALSE]]
<1>1. ases' = f
  BY DEF StartCycle
<1>2. ASSUME NEW b \in ASes
      PROVE  f[b] \in ASRecord(InRibs(b), InSlots(b))
  <2> DEFINE R == InRibs(b)
             L == InSlots(b)
             r == ases[b]
  <2>1. f[b] = [r EXCEPT !.graph_changed = FALSE]
    OBVIOUS
  <2> HIDE DEF f, R, L
  <2>2. r \in ASRecord(R, L)
    BY DEF R, L, Kept
  <2> HIDE DEF r
  <2>3. [r EXCEPT !.graph_changed = FALSE] \in ASRecord(R, L)
    BY <2>2 DEF ASRecord
  <2>4. QED
    BY <2>1, <2>3 DEF R, L
<1>3. f = [b \in ASes |-> f[b]]
  OBVIOUS
<1> HIDE DEF f
<1>4. f \in Kept
  BY <1>2, <1>3, KeptBy
<1>5. QED
  BY <1>1, <1>4

\* Seeding a row of the table.
LEMMA RowStep ==
    ASSUME IInv, give_ann_to_as_path
    PROVE  ases' \in Kept /\ rows' \in Seq(TableRow)
<1> DEFINE row  == Head(rows)
           hops == IF input.origin_only THEN 1 ELSE Len(row.path)
<1>1. input \in Inputs /\ rows \in Seq(TableRow) /\ ases \in Kept
  BY DEF IInv, ControlOK, Kept, TableRow
<1>2. /\ rows # <<>> /\ rows' = Tail(rows) /\ ases' = SeedHops(row)[hops].ases
  BY DEF give_ann_to_as_path
<1>3. row \in TableRow /\ Tail(rows) \in Seq(TableRow)
  <2> DEFINE T == TableRow
  <2> HIDE DEF T
  <2>1. rows \in Seq(T)
    BY <1>1 DEF T
  <2>2. Head(rows) \in T /\ Tail(rows) \in Seq(T)
    BY <1>2, <2>1
  <2>3. QED
    BY <2>2 DEF T
<1> HIDE DEF row
<1>4. hops \in 0..Len(row.path)
  BY <1>1, <1>3, RowFields
<1> HIDE DEF hops
<1>5. SeedHops(row)[hops].ases \in Kept
  BY <1>1, <1>3, <1>4, RowKept
<1>6. QED
  BY <1>2, <1>3, <1>5

\* A sweep starts.
LEMMA SweepStep ==
    ASSUME ControlOK, NEW from, NEW to \in {"up", "peers", "down", "done"}, StartSweep(from, to),
           count' \in Nat
    PROVE  ControlOK' /\ input' = input
<1>1. input' = input /\ rows' = rows /\ sweep' = to /\ pending' \subseteq ASes
  BY DEF StartSweep
<1>2. ASes' = ASes
  BY <1>1, SameInput
<1>3. rows' \in Seq(Elements(input'.rows))
  BY <1>1 DEF ControlOK
<1>4. Elements(input.rows)' = Elements(input'.rows)
  BY DEF Elements
<1>5. QED
  BY <1>1, <1>2, <1>3, <1>4 DEF ControlOK

\* The invariant as a step leaves it.
LEMMA KeptInv ==
    ASSUME ControlOK', input' = input, ases' \in Kept
    PROVE  IInv'
<1>1. ases' \in Kept'
  BY SameInput
<1>2. QED
  BY <1>1 DEF IInv, Kept

\* Every step keeps the invariant.
LEMMA StepKept ==
    ASSUME IInv, [Next]_vars
    PROVE  IInv'
<1>1. input \in Inputs /\ ases \in Kept /\ ControlOK
  BY DEF IInv, ControlOK, Kept
<1>2. CASE UNCHANGED vars
  <2>1. input' = input /\ rows' = rows /\ sweep' = sweep /\ pending' = pending /\ count' = count
    BY <1>2 DEF vars
  <2>2. ases' \in Kept
    BY <1>1, <1>2 DEF vars
  <2>3. ControlOK'
    BY <1>1, <2>1, SameInput DEF ControlOK, Elements
  <2>4. QED
    BY <2>1, <2>2, <2>3, KeptInv
<1>3. CASE give_ann_to_as_path
  <2>1. ases' \in Kept /\ rows' \in Seq(TableRow)
    BY <1>3, RowStep
  <2>2. input' = input /\ sweep' = sweep /\ pending' = pending /\ count' = count
    BY <1>3 DEF give_ann_to_as_path
  <2>3. ControlOK'
    <3>1. ASes' = ASes
      BY <2>2, SameInput
    <3>2. rows' \in Seq(Elements(input'.rows))
      BY <2>1, <2>2 DEF TableRow
    <3>3. Elements(input.rows)' = Elements(input'.rows)
      BY DEF Elements
    <3>4. QED
      BY <1>1, <2>2, <3>1, <3>2, <3>3 DEF ControlOK
  <2>4. QED
    BY <2>1, <2>2, <2>3, KeptInv
<1>4. ASSUME NEW from, NEW to \in {"up", "peers", "down", "done"}, StartSweep(from, to),
             UNCHANGED ases, count' \in Nat
      PROVE  IInv'
  <2>1. ControlOK' /\ input' = input
    BY <1>1, <1>4, SweepStep
  <2>2. ases' \in Kept
    BY <1>1, <1>4
  <2>3. QED
    BY <2>1, <2>2, KeptInv
<1>5. ASSUME NEW from, StartCycle(from), count' \in Nat
      PROVE  IInv'
  <2>1. StartSweep(from, "up")
    BY <1>5 DEF StartCycle
  <2>2. ControlOK' /\ input' = input
    BY <1>1, <1>5, <2>1, SweepStep
  <2>3. ases' \in Kept
    BY <1>1, <1>5, CycleKept
  <2>4. QED
    BY <2>2, <2>3, KeptInv
<1>6. count \in Nat /\ count + 1 \in Nat
  BY <1>1 DEF ControlOK
<1>7. CASE propagate_up
  BY <1>4, <1>5, <1>6, <1>7 DEF propagate_up
<1>8. CASE propagate_down
  BY <1>4, <1>6, <1>8 DEF propagate_down
<1>9. CASE Repeat
  BY <1>5, <1>6, <1>9 DEF Repeat
<1>10. CASE Finish
  BY <1>4, <1>6, <1>10 DEF Finish
<1>11. ASSUME NEW a \in ASes, Visit(a)
       PROVE  IInv'
  <2>1. ases' \in Kept
    BY <1>1, <1>11, VisitKept
  <2>2. input' = input /\ rows' = rows /\ sweep' = sweep /\ count' = count
        /\ pending' = pending \ {a}
    BY <1>11 DEF Visit
  <2>3. ControlOK'
    BY <1>1, <2>2, SameInput DEF ControlOK, Elements
  <2>4. QED
    BY <2>1, <2>2, <2>3, KeptInv
<1>12. QED
  BY <1>2, <1>3, <1>7, <1>8, <1>9, <1>10, <1>11 DEF Next

-----------------------------------------------------------------------------
(***************************************************************************)
(* Theorems.                                                               *)
(***************************************************************************)
\* The inductive invariant is one.
THEOREM InvHolds ==
    Spec => []IInv
<1>1. Init => IInv
  BY InitKept
<1>2. IInv /\ [Next]_vars => IInv'
  BY StepKept
<1>3. QED
  BY <1>1, <1>2, PTL DEF Spec

\* Type correctness: among others no hop of a row and no withdrawal or
\* alternative puts anything but an announcement of the table into a slot
\* (give_ann_to_as_path, process_announcements, send_all_announcements).
THEOREM TypeCorrect ==
    Spec => []TypeOK
<1>1. IInv => TypeOK
  BY DEF IInv, TypeOK
<1>2. QED
  BY <1>1, InvHolds, PTL

\* Whatever the graph, the rows and the mix of policies, an AS with ROV or a
\* ROV++ that blackholes never uses a hijack it learned, and one with ASPA none
\* that an attacker passed on.
THEOREM NoHijackIsAdopted ==
    Spec => []NoHijackAdopted
<1>1. IInv => NoHijackAdopted
  <2> SUFFICES ASSUME IInv, NEW a \in ASes, NEW b \in input.blocks, Learned(a, b)
               PROVE  LET held == ases[a].loc_rib[b]
                      IN  /\ a \in Adopts({ROVPPAS_TYPE_ROV} \union Blackholing) =>
                                 held.origin \notin input.attackers
                          /\ a \in Adopts({ROVPPAS_TYPE_ASPA}) =>
                                 pass_aspa(held) \/ held.origin \notin input.attackers
    BY DEF NoHijackAdopted
  <2> DEFINE held == ases[a].loc_rib[b]
             L    == InSlots(a)
             R    == InRibs(a)
  <2>1. held # NoAnn /\ ~ held.from_monitor
    BY DEF Learned
  <2>2. held \in L
    <3> HIDE DEF L, R
    <3>1. ases[a] \in ASRecord(R, L)
      BY DEF IInv, L, R
    <3>2. ases[a].loc_rib \in [input.blocks -> L \union {NoAnn}]
      BY <3>1, Fields
    <3>3. QED
      BY <2>1, <3>2
  <2> HIDE DEF held
  <2>3. /\ a \in Adopts({ROVPPAS_TYPE_ROV} \union Blackholing) => held.origin \notin input.attackers
        /\ a \in Adopts({ROVPPAS_TYPE_ASPA}) => pass_aspa(held) \/ held.origin \notin input.attackers
    BY <2>1, <2>2 DEF InSlots
  <2>4. QED
    BY <2>3 DEF held
<1>2. QED
  BY <1>1, InvHolds, PTL

\* Providers and peers get no hijack from an AS on the side that adopts 0.2bis
\* or 0.3, and no blackhole of 0.2bis.
THEOREM HolesDoGoDown ==
    Spec => []HolesGoDown
<1>1. IInv => HolesGoDown
  <2> SUFFICES ASSUME IInv, NEW a \in Adopts(Filtering),
                      NEW b \in input.topo.providers[a] \union input.topo.peers[a],
                      NEW k \in DOMAIN ases[b].ribs_in,
                      OnTheSide(a), ases[b].ribs_in[k].received_from_asn = a
               PROVE  /\ ases[b].ribs_in[k].origin \notin input.attackers
                      /\ input.policy[a] = ROVPPAS_TYPE_ROVPPBIS =>
                             ases[b].ribs_in[k].origin # UNUSED_ASN_FLAG_FOR_BLACKHOLES
    BY DEF HolesGoDown
  <2> DEFINE ann == ases[b].ribs_in[k]
             L   == InSlots(b)
             R   == InRibs(b)
  <2>1. a \in ASes /\ a \in Side
    BY DEF Side, Adopts
  <2>2. b \in ASes
    BY <2>1, SimulationType DEF IInv, ControlOK
  <2>3. ann \in R
    <3> HIDE DEF L, R
    <3>1. ases[b] \in ASRecord(R, L)
      BY <2>2 DEF IInv, L, R
    <3>2. ases[b].ribs_in \in Seq(R)
      BY <3>1, Fields
    <3>3. QED
      BY <3>2
  <2>4. ann.received_from_asn = a
    OBVIOUS
  <2> HIDE DEF ann
  <2>5. ann.origin \notin Withheld(a)
    BY <2>1, <2>3, <2>4 DEF InRibs
  <2>6. QED
    BY <2>5 DEF Withheld, ann
<1>2. QED
  BY <1>1, InvHolds, PTL

=============================================================================
