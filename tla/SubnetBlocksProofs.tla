-------------------------- MODULE SubnetBlocksProofs ---------------------------
(***************************************************************************)
(* Theorems about SubnetBlocks, for addresses of any width and tables of   *)
(* any rows: the blocks partition the rows, and the stack overflows on a   *)
(* host with the rows of a full block and on nothing else.                 *)
(***************************************************************************)
EXTENDS SubnetBlocks, FiniteSetTheorems, SequenceTheorems, TLAPS

Rows  == [prefix : Prefixes, number : Nat]
Calls == [subnet : Prefixes, frames : Nat]

ControlOK ==
    /\ table \in Tables
    /\ step \in {"populate", "overflow", "prefixes", "subnets", "done"}
    /\ calls \in Seq(Calls)
    /\ prefix_vector \in Seq(Prefixes)
    /\ bloc_vector \in Seq(Prefixes)
    /\ position \in Nat \ {0}
    /\ extrapolated \in [table -> Nat]

-----------------------------------------------------------------------------
(***************************************************************************)
(* The inductive invariant: until the recursion is at a host with too many *)
(* rows, which it does not leave, every row has one place: among the calls *)
(* to be made, in a prefix block or in a subnet block.                     *)
(***************************************************************************)
InCalls(r)    == {i \in DOMAIN calls : Within(r.prefix, calls[i].subnet)}
InPrefixes(r) == {i \in DOMAIN prefix_vector : r.prefix = prefix_vector[i]}
InBlocs(r)    == {i \in DOMAIN bloc_vector : Within(r.prefix, bloc_vector[i])}

One(S) == \E x \in S : S = {x}

OnePlace(r) ==
    \/ One(InCalls(r)) /\ InPrefixes(r) = {} /\ InBlocs(r) = {}
    \/ InCalls(r) = {} /\ One(InPrefixes(r)) /\ InBlocs(r) = {}
    \/ InCalls(r) = {} /\ InPrefixes(r) = {} /\ One(InBlocs(r))

Stuck == /\ step \in {"populate", "overflow"} /\ calls # <<>>
         /\ Subnet \in Hosts /\ ~ FitsBlock(Subnet)

\* The frames a call finds are the bits it has gone down.
Partition ==
    /\ \A r \in table : OnePlace(r)
    /\ \A i \in DOMAIN calls : calls[i].frames = Cardinality(calls[i].subnet.netmask) + 1
    /\ \A i \in DOMAIN prefix_vector : prefix_vector[i] \notin Hosts
    /\ step = "overflow" => \E i \in DOMAIN calls : /\ calls[i].subnet \notin Hosts
                                                    /\ calls[i].frames = StackSize

\* What was extrapolated are the blocks before the iterator.
Selections ==
    /\ step \in {"populate", "overflow"} => position = 1 /\ \A r \in table : extrapolated[r] = 0
    /\ step \notin {"populate", "overflow"} => calls = <<>>
    /\ step = "prefixes" =>
           \A r \in table : extrapolated[r] = IF \E i \in InPrefixes(r) : i < position THEN 1 ELSE 0
    /\ step = "subnets" =>
           \A r \in table : extrapolated[r] = IF \/ InPrefixes(r) # {}
                                                 \/ \E i \in InBlocs(r) : i < position THEN 1 ELSE 0
    /\ step = "done" => \A r \in table : extrapolated[r] = 1

\* With a full host the recursion does not return.
HostStops == FullHost => step \in {"populate", "overflow"}

IInv == ControlOK /\ (Stuck \/ Partition) /\ BlocksManageable /\ Selections /\ HostStops

-----------------------------------------------------------------------------
(***************************************************************************)
(* Prefixes and their halves.                                              *)
(***************************************************************************)
\* A netmask of len bits has len bits.
LEMMA MaskSize ==
    ASSUME NEW len \in 0..Width
    PROVE  IsFiniteSet(Netmask(len)) /\ Cardinality(Netmask(len)) = len
<1>1. Width \in Nat
  BY SubnetBlocksAssumption
<1>2. Width - len \in Int /\ Width - 1 \in Int
  BY <1>1
<1>3. IsFiniteSet((Width - len)..(Width - 1))
      /\ Cardinality((Width - len)..(Width - 1)) =
             IF Width - len > Width - 1 THEN 0 ELSE (Width - 1) - (Width - len) + 1
  BY <1>2, FS_Interval
<1>4. QED
  BY <1>1, <1>3 DEF Netmask

\* A longer netmask has one bit more, below the others.
LEMMA LongerMask ==
    ASSUME NEW len \in 0..(Width - 1)
    PROVE  /\ Netmask(len + 1) = Netmask(len) \union {Width - len - 1}
           /\ Width - len - 1 \notin Netmask(len)
           /\ NewMask(Netmask(len)) = Netmask(len + 1)
<1>1. Width \in Nat \ {0} /\ len \in Nat /\ len < Width
  BY SubnetBlocksAssumption
<1>2. /\ Netmask(len + 1) = Netmask(len) \union {Width - len - 1}
      /\ Width - len - 1 \notin Netmask(len)
  BY <1>1 DEF Netmask
<1>3. CASE len = 0
  <2>1. Netmask(len) = {}
    BY <1>1, <1>3 DEF Netmask
  <2>2. QED
    BY <1>1, <1>2, <1>3, <2>1 DEF NewMask
<1>4. CASE len # 0
  <2>1. Width - 1 \in Netmask(len) /\ 0 \notin Netmask(len)
    BY <1>1, <1>4 DEF Netmask
  <2>2. ShiftRight(Netmask(len)) = (Width - len - 1)..(Width - 2)
    <3>1. ASSUME NEW i \in (Width - len - 1)..(Width - 2)
          PROVE  i \in ShiftRight(Netmask(len))
      <4>1. i + 1 \in Netmask(len) \ {0} /\ i = (i + 1) - 1
        BY <1>1, <1>4, <3>1 DEF Netmask
      <4>2. QED
        BY <4>1 DEF ShiftRight
    <3>2. ASSUME NEW i \in ShiftRight(Netmask(len))
          PROVE  i \in (Width - len - 1)..(Width - 2)
      BY <1>1, <3>2 DEF ShiftRight, Netmask
    <3>3. QED
      BY <3>1, <3>2
  <2>3. NewMask(Netmask(len)) = ShiftRight(Netmask(len)) \union Netmask(len)
    BY <2>1 DEF NewMask
  <2>4. (Width - len - 1)..(Width - 2) \union Netmask(len) = Netmask(len + 1)
    BY <1>1, <1>4 DEF Netmask
  <2>5. QED
    BY <1>2, <2>2, <2>3, <2>4
<1>5. QED
  BY <1>3, <1>4

\* The length of a prefix.
LEMMA Length ==
    ASSUME NEW p \in Prefixes
    PROVE  \E len \in 0..Width : /\ p \in [addr : SUBSET Netmask(len), netmask : {Netmask(len)}]
                                 /\ p.netmask = Netmask(len) /\ p.addr \subseteq Netmask(len)
                                 /\ Cardinality(p.netmask) = len
                                 /\ p \notin Hosts => len \in 0..(Width - 1)
<1>1. PICK len \in 0..Width : p \in [addr : SUBSET Netmask(len), netmask : {Netmask(len)}]
  BY DEF Prefixes
<1>2. p.netmask = Netmask(len) /\ p.addr \subseteq Netmask(len)
  BY <1>1
<1>3. p \notin Hosts => len # Width
  BY <1>2 DEF Hosts
<1>4. p \notin Hosts => len \in 0..(Width - 1)
  BY <1>3, SubnetBlocksAssumption
<1>5. QED
  BY <1>1, <1>2, <1>4, MaskSize

\* What has an address and a netmask that fit is a prefix.
LEMMA Fitting ==
    ASSUME NEW len \in 0..Width, NEW addr \in SUBSET Netmask(len)
    PROVE  [addr |-> addr, netmask |-> Netmask(len)] \in Prefixes
BY DEF Prefixes

\* The halves of a prefix that is no host.
LEMMA HalvesOf ==
    ASSUME NEW p \in Prefixes \ Hosts, NEW len \in 0..(Width - 1), p.netmask = Netmask(len),
           p.addr \subseteq Netmask(len)
    PROVE  /\ FirstHalf(p)  = [addr |-> p.addr, netmask |-> Netmask(len + 1)]
           /\ SecondHalf(p) = [addr |-> p.addr \union {Width - len - 1}, netmask |-> Netmask(len + 1)]
           /\ FirstHalf(p) \in Prefixes /\ SecondHalf(p) \in Prefixes
           /\ Cardinality(FirstHalf(p).netmask) = len + 1
           /\ Cardinality(SecondHalf(p).netmask) = len + 1
<1>1. Width \in Nat /\ len \in 0..Width /\ len + 1 \in 0..Width /\ len < Width
  BY SubnetBlocksAssumption
<1>2. Cardinality(p.netmask) = len
  BY <1>1, MaskSize
<1>3. FlippedBit(p) = {Width - len - 1}
  BY <1>1, <1>2 DEF FlippedBit
<1>4. NewMask(p.netmask) = Netmask(len + 1)
  BY LongerMask
<1>5. /\ FirstHalf(p)  = [addr |-> p.addr, netmask |-> Netmask(len + 1)]
      /\ SecondHalf(p) = [addr |-> p.addr \union {Width - len - 1}, netmask |-> Netmask(len + 1)]
  BY <1>3, <1>4 DEF FirstHalf, SecondHalf
<1>6. /\ p.addr \in SUBSET Netmask(len + 1)
      /\ p.addr \union {Width - len - 1} \in SUBSET Netmask(len + 1)
  BY LongerMask
<1>7. FirstHalf(p) \in Prefixes /\ SecondHalf(p) \in Prefixes
  BY <1>1, <1>5, <1>6, Fitting
<1>8. Cardinality(Netmask(len + 1)) = len + 1
  BY <1>1, MaskSize
<1>9. QED
  BY <1>5, <1>7, <1>8

\* The first half of a host is the host.
LEMMA HostHalf ==
    ASSUME NEW p \in Hosts
    PROVE  FirstHalf(p) = p /\ SecondHalf(p) \in Prefixes
<1>1. Width \in Nat \ {0} /\ Width \in 0..Width
  BY SubnetBlocksAssumption
<1>2. p \in Prefixes /\ p.netmask = Netmask(Width)
  BY DEF Hosts
<1>3. Netmask(Width) = 0..(Width - 1)
  BY <1>1 DEF Netmask
<1>4. p = [addr |-> p.addr, netmask |-> Netmask(Width)] /\ p.addr \subseteq Netmask(Width)
  <2>1. PICK len \in 0..Width : p \in [addr : SUBSET Netmask(len), netmask : {Netmask(len)}]
    BY <1>2 DEF Prefixes
  <2>2. p = [addr |-> p.addr, netmask |-> p.netmask] /\ p.addr \subseteq p.netmask
    BY <2>1
  <2>3. QED
    BY <1>2, <2>2
<1>5. NewMask(Netmask(Width)) = Netmask(Width)
  <2>1. ShiftRight(Netmask(Width)) \subseteq Netmask(Width)
    BY <1>1, <1>3 DEF ShiftRight
  <2>2. Netmask(Width) # {}
    BY <1>1, <1>3
  <2>3. QED
    BY <2>1, <2>2 DEF NewMask
<1>6. FlippedBit(p) \subseteq Netmask(Width)
  <2>1. Cardinality(p.netmask) = Width
    BY <1>1, <1>2, MaskSize
  <2>2. FlippedBit(p) = IF Width = 128 THEN {Width - 1} ELSE {}
    BY <1>1, <2>1 DEF FlippedBit
  <2>3. QED
    BY <1>1, <1>3, <2>2
<1>7. FirstHalf(p) = p
  BY <1>2, <1>4, <1>5 DEF FirstHalf
<1>8. SecondHalf(p) = [addr |-> p.addr \union FlippedBit(p), netmask |-> Netmask(Width)]
  BY <1>2, <1>5 DEF SecondHalf
<1>9. SecondHalf(p) \in Prefixes
  BY <1>1, <1>4, <1>6, <1>8, Fitting
<1>10. QED
  BY <1>7, <1>9

\* A prefix within another is that one or within one of its halves, and only
\* one of the three.
LEMMA Cut ==
    ASSUME NEW p \in Prefixes \ Hosts, NEW q \in Prefixes
    PROVE  /\ Within(q, p) <=> q = p \/ Within(q, FirstHalf(p)) \/ Within(q, SecondHalf(p))
           /\ ~ Within(p, FirstHalf(p)) /\ ~ Within(p, SecondHalf(p))
           /\ ~ (Within(q, FirstHalf(p)) /\ Within(q, SecondHalf(p)))
<1>1. PICK len \in 0..(Width - 1) : p.netmask = Netmask(len) /\ p.addr \subseteq Netmask(len)
  BY Length
<1>2. PICK ql \in 0..Width : /\ q.netmask = Netmask(ql) /\ q.addr \subseteq Netmask(ql)
                             /\ q = [addr |-> q.addr, netmask |-> q.netmask]
  BY Length
<1> DEFINE bit == Width - len - 1
           M == Netmask(len)
           N == Netmask(len + 1)
<1>3. N = M \union {bit} /\ bit \notin M
  BY LongerMask
<1>4. FirstHalf(p) = [addr |-> p.addr, netmask |-> N]
      /\ SecondHalf(p) = [addr |-> p.addr \union {bit}, netmask |-> N]
  BY <1>1, HalvesOf
<1>5. p = [addr |-> p.addr, netmask |-> M]
  BY <1>1, Length
<1>6. M \subseteq q.netmask => q.netmask = M \/ N \subseteq q.netmask
  <2>1. Width \in Nat
    BY SubnetBlocksAssumption
  <2>2. CASE ql < len
    <3>1. Width - len \in M /\ Width - len \notin q.netmask
      BY <1>2, <2>1, <2>2 DEF Netmask
    <3>2. QED
      BY <3>1
  <2>3. CASE ql = len
    BY <1>2, <2>3
  <2>4. CASE ql > len
    BY <1>2, <2>1, <2>4 DEF Netmask
  <2>5. QED
    BY <2>1, <2>2, <2>3, <2>4
<1> HIDE DEF bit, M, N
<1>7. p.addr \subseteq M /\ p.netmask = M
  BY <1>1 DEF M
<1>8. q.addr \subseteq q.netmask
  BY <1>2
<1>9. Within(q, p) <=> M \subseteq q.netmask /\ q.addr \intersect M = p.addr
  BY <1>7 DEF Within
<1>10. Within(q, FirstHalf(p)) <=> N \subseteq q.netmask /\ q.addr \intersect N = p.addr
  BY <1>3, <1>4, <1>7 DEF Within
<1>11. Within(q, SecondHalf(p)) <=> N \subseteq q.netmask /\ q.addr \intersect N = p.addr \union {bit}
  BY <1>3, <1>4, <1>7 DEF Within
<1>12. ~ N \subseteq p.netmask
  BY <1>3, <1>7
<1>13. q.addr \intersect N = (q.addr \intersect M) \union (q.addr \intersect {bit})
  BY <1>3
<1>14. ASSUME Within(q, p)
       PROVE  q = p \/ Within(q, FirstHalf(p)) \/ Within(q, SecondHalf(p))
  <2>1. CASE q.netmask = M
    <3>1. q.addr = p.addr
      BY <1>8, <1>9, <1>14, <2>1
    <3>2. QED
      BY <1>2, <1>5, <2>1, <3>1
  <2>2. CASE N \subseteq q.netmask
    <3>1. q.addr \intersect {bit} = {} \/ q.addr \intersect {bit} = {bit}
      OBVIOUS
    <3>2. QED
      BY <1>9, <1>10, <1>11, <1>13, <1>14, <2>2, <3>1
  <2>3. QED
    BY <1>6, <1>9, <1>14, <2>1, <2>2
<1>15. q = p => Within(q, p)
  BY <1>7, <1>9
<1>16. Within(q, FirstHalf(p)) \/ Within(q, SecondHalf(p)) => Within(q, p)
  <2>1. N \subseteq q.netmask => M \subseteq q.netmask
    BY <1>3
  <2>2. (p.addr \union {bit}) \intersect M = p.addr /\ p.addr \intersect M = p.addr
    BY <1>3, <1>7
  <2>3. q.addr \intersect M = (q.addr \intersect N) \intersect M
    BY <1>3
  <2>4. QED
    BY <1>9, <1>10, <1>11, <2>1, <2>2, <2>3
<1>17. ~ Within(p, FirstHalf(p)) /\ ~ Within(p, SecondHalf(p))
  BY <1>4, <1>12 DEF Within
<1>18. bit \notin p.addr
  BY <1>3, <1>7
<1>19. ~ (Within(q, FirstHalf(p)) /\ Within(q, SecondHalf(p)))
  BY <1>10, <1>11, <1>18
<1>20. QED
  BY <1>14, <1>15, <1>16, <1>17, <1>19

-----------------------------------------------------------------------------
(***************************************************************************)
(* The recursion.                                                          *)
(***************************************************************************)
\* Counting rows.
LEMMA Counted ==
    ASSUME table \in Tables, NEW T \in SUBSET table
    PROVE  IsFiniteSet(T) /\ Cardinality(T) \in Nat /\ (Cardinality(T) > 0 <=> T # {})
<1>1. IsFiniteSet(table)
  BY SubnetBlocksAssumption
<1>2. IsFiniteSet(T)
  BY <1>1, FS_Subset
<1>3. Cardinality(T) \in Nat /\ (Cardinality(T) = 0 <=> T = {})
  BY <1>2, FS_CardinalityType, FS_EmptySet
<1>4. QED
  BY <1>2, <1>3

\* The call that comes next and the others.
LEMMA NextCall ==
    ASSUME ControlOK, calls # <<>>
    PROVE  /\ Len(calls) \in Nat \ {0} /\ DOMAIN calls = 1..Len(calls)
           /\ Call \in Calls /\ Subnet \in Prefixes /\ Call.frames \in Nat
           /\ Others \in Seq(Calls) /\ Len(Others) = Len(calls) - 1
           /\ DOMAIN Others = 1..(Len(calls) - 1)
           /\ \A i \in 1..(Len(calls) - 1) : Others[i] = calls[i]
<1> DEFINE n == Len(calls)
<1>1. calls \in Seq(Calls)
  BY DEF ControlOK
<1>2. n \in Nat \ {0} /\ DOMAIN calls = 1..n /\ \A i \in 1..n : calls[i] \in Calls
  BY <1>1, EmptySeq
<1>3. Call \in Calls
  BY <1>2 DEF Call
<1>4. Subnet \in Prefixes /\ Call.frames \in Nat
  BY <1>3 DEF Subnet, Calls
<1> DEFINE o == SubSeq(calls, 1, n - 1)
<1>5. /\ o \in Seq(Calls) /\ Len(o) = IF 1 <= n - 1 THEN n - 1 - 1 + 1 ELSE 0
      /\ \A i \in 1..(n - 1 - 1 + 1) : o[i] = calls[1 + i - 1]
  <2>1. 1 \in Int /\ n - 1 \in Int /\ \A i \in 1..(n - 1) : calls[i] \in Calls
    BY <1>2
  <2> HIDE DEF n
  <2>2. QED
    BY <2>1, SubSeqProperties
<1> HIDE DEF o
<1>6. Len(o) = n - 1 /\ \A i \in 1..(n - 1) : o[i] = calls[i]
  <2> HIDE DEF n
  <2>1. n - 1 - 1 + 1 = n - 1 /\ (1 <= n - 1 \/ n - 1 = 0)
    BY <1>2
  <2>2. \A i \in 1..(n - 1) : o[i] = calls[1 + i - 1] /\ 1 + i - 1 = i
    BY <1>2, <1>5, <2>1
  <2>3. QED
    BY <1>5, <2>1, <2>2
<1>7. DOMAIN o = 1..(n - 1)
  BY <1>5, <1>6
<1>8. Others = o
  BY DEF Others, o
<1>9. QED
  BY <1>2, <1>3, <1>4, <1>5, <1>6, <1>7, <1>8

\* The calls with the halves.
LEMMA HalvesCalled ==
    ASSUME ControlOK, calls # <<>>, FirstHalf(Subnet) \in Prefixes, SecondHalf(Subnet) \in Prefixes
    PROVE  LET n == Len(calls)
               c == CallsWithHalves
           IN  /\ c \in Seq(Calls) /\ Len(c) = n + 1 /\ DOMAIN c = 1..(n + 1) /\ c # <<>>
               /\ \A i \in 1..(n - 1) : c[i] = calls[i]
               /\ c[n] = [subnet |-> SecondHalf(Subnet), frames |-> Call.frames + 1]
               /\ c[n + 1] = [subnet |-> FirstHalf(Subnet), frames |-> Call.frames + 1]
<1> DEFINE n == Len(calls)
           x == [subnet |-> SecondHalf(Subnet), frames |-> Call.frames + 1]
           y == [subnet |-> FirstHalf(Subnet), frames |-> Call.frames + 1]
           c == Others \o <<x, y>>
<1>1. n \in Nat \ {0} /\ Others \in Seq(Calls) /\ Len(Others) = n - 1
      /\ \A i \in 1..(n - 1) : Others[i] = calls[i]
  BY NextCall
<1>2. x \in Calls /\ y \in Calls
  BY NextCall DEF Calls
<1> HIDE DEF x, y, n
<1>3. <<x, y>> \in Seq(Calls) /\ Len(<<x, y>>) = 2
  BY <1>2
<1>4. /\ c \in Seq(Calls) /\ Len(c) = Len(Others) + 2
      /\ \A i \in 1..(Len(Others) + 2) : c[i] = IF i <= Len(Others) THEN Others[i]
                                                ELSE <<x, y>>[i - Len(Others)]
  BY <1>1, <1>3, ConcatProperties
<1> HIDE DEF c
<1>5. Len(c) = n + 1 /\ \A i \in 1..(n + 1) : c[i] = IF i <= n - 1 THEN Others[i]
                                                       ELSE <<x, y>>[i - (n - 1)]
  BY <1>1, <1>4
<1>6. \A i \in 1..(n - 1) : c[i] = calls[i]
  BY <1>1, <1>5
<1>7. c[n] = x
  <2>1. c[n] = <<x, y>>[n - (n - 1)]
    BY <1>1, <1>5
  <2>2. n - (n - 1) = 1
    BY <1>1
  <2>3. QED
    BY <2>1, <2>2
<1>8. c[n + 1] = y
  <2>1. c[n + 1] = <<x, y>>[(n + 1) - (n - 1)]
    BY <1>1, <1>5
  <2>2. (n + 1) - (n - 1) = 2
    BY <1>1
  <2>3. QED
    BY <2>1, <2>2
<1>9. DOMAIN c = 1..(n + 1) /\ c # <<>>
  <2>1. DOMAIN c = 1..Len(c)
    BY <1>4
  <2>2. Len(c) # 0
    BY <1>1, <1>5
  <2>3. QED
    BY <1>5, <2>1, <2>2
<1>10. CallsWithHalves = c
  BY DEF CallsWithHalves, c, x, y
<1>11. QED
  BY <1>4, <1>5, <1>6, <1>7, <1>8, <1>9, <1>10 DEF n, x, y

\* The next call is done with: what it does not contain stays where it is.
LEMMA Placed ==
    ASSUME NEW n, NEW S, NEW P, NEW B, NEW m,
           \/ One(S) /\ P = {} /\ B = {}
           \/ S = {} /\ One(P) /\ B = {}
           \/ S = {} /\ P = {} /\ One(B)
    PROVE  /\ n \in S => S = {n} /\ P = {} /\ B = {}
           /\ n \notin S => S \ {n} = S
           /\ One({m})
BY DEF One

\* A block takes the rows of the call.
LEMMA BlockKept ==
    ASSUME ControlOK, Partition, PopulateBlock
    PROVE  Partition'
<1> DEFINE n == Len(calls)
           m == Len(bloc_vector)
<1>1. calls # <<>> /\ step = "populate" /\ step' = step /\ table' = table
      /\ calls' = Others /\ prefix_vector' = prefix_vector
      /\ bloc_vector' = IF select_subnet_count(Subnet) > 0
                        THEN Append(bloc_vector, Subnet) ELSE bloc_vector
  BY DEF PopulateBlock, Populating
<1>2. /\ n \in Nat \ {0} /\ DOMAIN calls = 1..n /\ DOMAIN calls' = 1..(n - 1)
      /\ \A i \in 1..(n - 1) : calls'[i] = calls[i]
  BY <1>1, NextCall
<1>3. m \in Nat /\ DOMAIN bloc_vector = 1..m /\ bloc_vector \in Seq(Prefixes)
  BY DEF ControlOK
<1>4. Subnet = calls[n].subnet /\ Subnet \in Prefixes
  BY <1>1, NextCall DEF Subnet, Call
<1>5. ASSUME NEW r \in table
      PROVE  OnePlace(r)'
  <2>1. OnePlace(r)
    BY DEF Partition
  <2>2. InPrefixes(r)' = InPrefixes(r)
    BY <1>1 DEF InPrefixes
  <2>3. InCalls(r)' = InCalls(r) \ {n}
    BY <1>2 DEF InCalls
  <2>4. CASE Within(r.prefix, Subnet)
    <3>1. n \in InCalls(r)
      BY <1>2, <1>4, <2>4 DEF InCalls
    <3>2. InCalls(r) = {n} /\ InPrefixes(r) = {} /\ InBlocs(r) = {}
      BY <2>1, <3>1, Placed DEF OnePlace
    <3>3. select_subnet_count(Subnet) > 0
      <4>1. Inside(Subnet) # {} /\ Inside(Subnet) \in SUBSET table
        BY <2>4 DEF Inside
      <4>2. QED
        BY <4>1, Counted DEF select_subnet_count, ControlOK
    <3>4. /\ DOMAIN bloc_vector' = 1..(m + 1)
          /\ \A i \in 1..m : bloc_vector'[i] = bloc_vector[i]
          /\ bloc_vector'[m + 1] = Subnet
      BY <1>1, <1>3, <1>4, <3>3
    <3>5. InBlocs(r)' = {m + 1}
      <4>1. \A i \in 1..m : ~ Within(r.prefix, bloc_vector[i])
        BY <1>3, <3>2 DEF InBlocs
      <4>2. \A i \in DOMAIN bloc_vector' : Within(r.prefix, bloc_vector'[i]) <=> i = m + 1
        BY <1>3, <2>4, <3>4, <4>1
      <4>3. m + 1 \in DOMAIN bloc_vector'
        BY <1>3, <3>4
      <4>4. QED
        BY <4>2, <4>3 DEF InBlocs
    <3>6. QED
      BY <2>2, <2>3, <3>2, <3>5 DEF OnePlace, One
  <2>5. CASE ~ Within(r.prefix, Subnet)
    <3>1. n \notin InCalls(r)
      BY <1>4, <2>5 DEF InCalls
    <3>2. InCalls(r)' = InCalls(r)
      BY <2>3, <3>1
    <3>3. InBlocs(r)' = InBlocs(r)
      <4>1. CASE select_subnet_count(Subnet) > 0
        <5>1. /\ DOMAIN bloc_vector' = 1..(m + 1)
              /\ \A i \in 1..m : bloc_vector'[i] = bloc_vector[i]
              /\ bloc_vector'[m + 1] = Subnet
          BY <1>1, <1>3, <1>4, <4>1
        <5>2. QED
          BY <1>3, <2>5, <5>1 DEF InBlocs
      <4>2. CASE ~ select_subnet_count(Subnet) > 0
        BY <1>1, <4>2 DEF InBlocs
      <4>3. QED
        BY <4>1, <4>2
    <3>4. QED
      BY <2>1, <2>2, <3>2, <3>3 DEF OnePlace, One
  <2>6. QED
    BY <2>4, <2>5
<1>6. \A i \in DOMAIN calls' : calls'[i].frames = Cardinality(calls'[i].subnet.netmask) + 1
  BY <1>2 DEF Partition
<1>7. \A i \in DOMAIN prefix_vector' : prefix_vector'[i] \notin Hosts
  BY <1>1 DEF Partition
<1>8. QED
  BY <1>1, <1>5, <1>6, <1>7 DEF Partition

\* The rows of the subnet go to a prefix block, those of its halves to the
\* calls for these.
LEMMA HalvesKept ==
    ASSUME ControlOK, Partition, PopulateHalves, Subnet \notin Hosts
    PROVE  Partition'
<1> DEFINE n == Len(calls)
           m == Len(prefix_vector)
<1>1. calls # <<>> /\ step = "populate" /\ step' = step /\ table' = table
      /\ calls' = CallsWithHalves /\ bloc_vector' = bloc_vector
      /\ prefix_vector' = IF select_prefix_count(Subnet) > 0
                          THEN Append(prefix_vector, Subnet) ELSE prefix_vector
  BY DEF PopulateHalves, Populating
<1>2. n \in Nat \ {0} /\ DOMAIN calls = 1..n /\ Subnet = calls[n].subnet /\ Subnet \in Prefixes
      /\ Call = calls[n] /\ Call.frames \in Nat
  BY <1>1, NextCall DEF Subnet, Call
<1>3. PICK len \in 0..(Width - 1) : /\ Subnet.netmask = Netmask(len) /\ Subnet.addr \subseteq Netmask(len)
                                    /\ Cardinality(Subnet.netmask) = len
  BY <1>2, Length
<1>4. /\ FirstHalf(Subnet) \in Prefixes /\ SecondHalf(Subnet) \in Prefixes
      /\ Cardinality(FirstHalf(Subnet).netmask) = len + 1
      /\ Cardinality(SecondHalf(Subnet).netmask) = len + 1
  BY <1>2, <1>3, HalvesOf
<1>5. /\ DOMAIN calls' = 1..(n + 1)
      /\ \A i \in 1..(n - 1) : calls'[i] = calls[i]
      /\ calls'[n] = [subnet |-> SecondHalf(Subnet), frames |-> Call.frames + 1]
      /\ calls'[n + 1] = [subnet |-> FirstHalf(Subnet), frames |-> Call.frames + 1]
  BY <1>1, <1>4, HalvesCalled
<1>6. m \in Nat /\ DOMAIN prefix_vector = 1..m /\ prefix_vector \in Seq(Prefixes)
  BY DEF ControlOK
<1>7. ASSUME NEW r \in table
      PROVE  OnePlace(r)'
  <2> DEFINE q     == r.prefix
             first == Within(q, FirstHalf(Subnet))
             secnd == Within(q, SecondHalf(Subnet))
  <2>1. OnePlace(r) /\ q \in Prefixes
    BY SubnetBlocksAssumption DEF Partition, ControlOK
  <2>2. /\ Within(q, Subnet) <=> q = Subnet \/ first \/ secnd
        /\ ~ (q = Subnet /\ first) /\ ~ (q = Subnet /\ secnd) /\ ~ (first /\ secnd)
    BY <1>2, <2>1, Cut
  <2>3. InBlocs(r)' = InBlocs(r)
    BY <1>1 DEF InBlocs
  <2> HIDE DEF first, secnd
  <2>4. InCalls(r)' = (InCalls(r) \ {n}) \union (IF secnd THEN {n} ELSE {})
                                         \union (IF first THEN {n + 1} ELSE {})
    <3>1. calls'[n].subnet = SecondHalf(Subnet) /\ calls'[n + 1].subnet = FirstHalf(Subnet)
      BY <1>5
    <3>2. /\ \A i \in 1..(n - 1) : i \in InCalls(r)' <=> i \in InCalls(r)
          /\ n \in InCalls(r)' <=> secnd
          /\ n + 1 \in InCalls(r)' <=> first
      <4> HIDE DEF n
      <4>1. \A i \in 1..(n - 1) : i \in InCalls(r)' <=> i \in InCalls(r)
        BY <1>2, <1>5 DEF InCalls
      <4>2. n \in 1..(n + 1) /\ n + 1 \in 1..(n + 1)
        BY <1>2
      <4>3. n \in InCalls(r)' <=> secnd
        BY <1>5, <3>1, <4>2 DEF InCalls, secnd
      <4>4. n + 1 \in InCalls(r)' <=> first
        BY <1>5, <3>1, <4>2 DEF InCalls, first
      <4>5. QED
        BY <4>1, <4>3, <4>4
    <3>3. InCalls(r)' \subseteq 1..(n + 1) /\ InCalls(r) \subseteq 1..n
      BY <1>2, <1>5 DEF InCalls
    <3> DEFINE S == InCalls(r)
               T == InCalls(r)'
    <3>4. /\ \A i \in 1..(n - 1) : i \in T <=> i \in S
          /\ n \in T <=> secnd
          /\ n + 1 \in T <=> first
          /\ T \subseteq 1..(n + 1) /\ S \subseteq 1..n /\ n \in Nat \ {0}
      BY <1>2, <3>2, <3>3
    <3> HIDE DEF S, T, n
    <3>5. T = (S \ {n}) \union (IF secnd THEN {n} ELSE {}) \union (IF first THEN {n + 1} ELSE {})
      <4>1. \A i \in 1..(n + 1) : i \in 1..(n - 1) \/ i = n \/ i = n + 1
        BY <3>4
      <4>2. \A i \in 1..n : i \in 1..(n + 1) /\ (i \in 1..(n - 1) \/ i = n)
        BY <3>4
      <4>3. ASSUME NEW i \in T
            PROVE  i \in (S \ {n}) \union (IF secnd THEN {n} ELSE {})
                                  \union (IF first THEN {n + 1} ELSE {})
        <5>1. CASE i \in 1..(n - 1)
          BY <3>4, <4>3, <5>1
        <5>2. CASE i = n
          BY <3>4, <4>3, <5>2
        <5>3. CASE i = n + 1
          BY <3>4, <4>3, <5>3
        <5>4. QED
          BY <3>4, <4>1, <4>3, <5>1, <5>2, <5>3
      <4>4. \A i \in S \ {n} : i \in T
        BY <3>4, <4>2
      <4>5. (IF secnd THEN {n} ELSE {}) \subseteq T /\ (IF first THEN {n + 1} ELSE {}) \subseteq T
        BY <3>4
      <4>6. QED
        BY <4>3, <4>4, <4>5
    <3>6. QED
      BY <3>5 DEF S, T
  <2>5. InPrefixes(r)' = InPrefixes(r) \union (IF q = Subnet THEN {m + 1} ELSE {})
    <3>1. CASE select_prefix_count(Subnet) > 0
      <4>1. /\ DOMAIN prefix_vector' = 1..(m + 1)
            /\ \A i \in 1..m : prefix_vector'[i] = prefix_vector[i]
            /\ prefix_vector'[m + 1] = Subnet
        BY <1>1, <1>2, <1>6, <3>1
      <4>2. QED
        BY <1>6, <4>1 DEF InPrefixes
    <3>2. CASE ~ select_prefix_count(Subnet) > 0
      <4>1. Of(Subnet) = {}
        BY <3>2, Counted DEF select_prefix_count, ControlOK, Of
      <4>2. q # Subnet
        BY <4>1 DEF Of
      <4>3. QED
        BY <1>1, <3>2, <4>2 DEF InPrefixes
    <3>3. QED
      BY <3>1, <3>2
  <2>6. CASE Within(q, Subnet)
    <3>1. n \in InCalls(r)
      BY <1>2, <2>6 DEF InCalls
    <3>2. InCalls(r) = {n} /\ InPrefixes(r) = {} /\ InBlocs(r) = {}
      BY <2>1, <3>1, Placed DEF OnePlace
    <3>3. CASE q = Subnet
      BY <2>2, <2>3, <2>4, <2>5, <3>2, <3>3 DEF OnePlace, One
    <3>4. CASE first
      <4>1. InCalls(r)' = {n + 1} /\ InPrefixes(r)' = {} /\ InBlocs(r)' = {}
        BY <2>2, <2>3, <2>4, <2>5, <3>2, <3>4
      <4>2. QED
        BY <4>1 DEF OnePlace, One
    <3>5. CASE secnd
      <4>1. InCalls(r)' = {n} /\ InPrefixes(r)' = {} /\ InBlocs(r)' = {}
        BY <2>2, <2>3, <2>4, <2>5, <3>2, <3>5
      <4>2. QED
        BY <4>1 DEF OnePlace, One
    <3>6. QED
      BY <2>2, <2>6, <3>3, <3>4, <3>5
  <2>7. CASE ~ Within(q, Subnet)
    <3>1. n \notin InCalls(r)
      BY <1>2, <2>7 DEF InCalls
    <3>2. InCalls(r)' = InCalls(r) /\ InPrefixes(r)' = InPrefixes(r)
      BY <2>2, <2>4, <2>5, <2>7, <3>1
    <3>3. QED
      BY <2>1, <2>3, <3>2 DEF OnePlace, One
  <2>8. QED
    BY <2>6, <2>7
<1>8. \A i \in DOMAIN calls' : calls'[i].frames = Cardinality(calls'[i].subnet.netmask) + 1
  <2>1. Call.frames = len + 1
    BY <1>2, <1>3 DEF Partition
  <2>2. ASSUME NEW i \in 1..(n + 1)
        PROVE  calls'[i].frames = Cardinality(calls'[i].subnet.netmask) + 1
    <3>1. CASE i \in 1..(n - 1)
      BY <1>2, <1>5, <3>1 DEF Partition
    <3>2. CASE i = n
      BY <1>4, <1>5, <2>1, <3>2
    <3>3. CASE i = n + 1
      BY <1>4, <1>5, <2>1, <3>3
    <3>4. i \in 1..(n - 1) \/ i = n \/ i = n + 1
      <4> HIDE DEF n
      <4>1. QED
        BY <1>2, <2>2
    <3>5. QED
      BY <3>1, <3>2, <3>3, <3>4
  <2>3. QED
    BY <1>5, <2>2
<1>9. \A i \in DOMAIN prefix_vector' : prefix_vector'[i] \notin Hosts
  BY <1>1, <1>2, <1>6 DEF Partition
<1>10. QED
  BY <1>1, <1>7, <1>8, <1>9 DEF Partition

\* The blocks stay manageable.
LEMMA BlocksStay ==
    ASSUME ControlOK, BlocksManageable, PopulateBlock \/ PopulateHalves
    PROVE  BlocksManageable'
<1> DEFINE Ins(p) == {r \in table : Within(r.prefix, p)}
<1>1. calls # <<>> /\ table' = table /\ Subnet \in Prefixes
  BY NextCall DEF PopulateBlock, PopulateHalves, Populating
<1>2. bloc_vector \in Seq(Prefixes) /\ prefix_vector \in Seq(Prefixes) /\ table \in Tables
  BY DEF ControlOK
<1>3. \A i \in DOMAIN bloc_vector : Cardinality(Ins(bloc_vector[i])) \in 1..(iteration_size - 1)
  BY DEF BlocksManageable, select_subnet_count, Inside
<1>4. \A i \in DOMAIN prefix_vector : \E r \in table : r.prefix = prefix_vector[i]
  BY DEF BlocksManageable, Of
<1>5. \A i \in DOMAIN bloc_vector' : Cardinality(Ins(bloc_vector'[i])) \in 1..(iteration_size - 1)
  <2>1. CASE PopulateBlock /\ select_subnet_count(Subnet) > 0
    <3>1. bloc_vector' = Append(bloc_vector, Subnet)
      BY <2>1 DEF PopulateBlock
    <3>2. Cardinality(Ins(Subnet)) \in 1..(iteration_size - 1)
      <4>1. /\ select_subnet_count(Subnet) > 0 /\ select_subnet_count(Subnet) < iteration_size
            /\ select_subnet_count(Subnet) = Cardinality(Ins(Subnet))
        BY <2>1 DEF PopulateBlock, FitsBlock, select_subnet_count, Inside
      <4>2. Ins(Subnet) \in SUBSET table
        OBVIOUS
      <4> HIDE DEF Ins
      <4>3. Cardinality(Ins(Subnet)) \in Nat /\ iteration_size \in Nat
        BY <1>2, <4>2, Counted, SubnetBlocksAssumption
      <4>4. QED
        BY <4>1, <4>3
    <3> HIDE DEF Ins
    <3>3. \A i \in DOMAIN bloc_vector' : \/ bloc_vector'[i] = Subnet
                                         \/ i \in DOMAIN bloc_vector /\ bloc_vector'[i] = bloc_vector[i]
      BY <1>1, <1>2, <3>1
    <3>4. QED
      BY <1>3, <3>2, <3>3
  <2>2. CASE ~ (PopulateBlock /\ select_subnet_count(Subnet) > 0)
    <3>1. bloc_vector' = bloc_vector
      BY <2>2 DEF PopulateBlock, PopulateHalves
    <3>2. QED
      BY <1>3, <3>1
  <2>3. QED
    BY <2>1, <2>2
<1>6. \A i \in DOMAIN prefix_vector' : \E r \in table : r.prefix = prefix_vector'[i]
  <2>1. CASE PopulateHalves /\ select_prefix_count(Subnet) > 0
    <3>1. prefix_vector' = Append(prefix_vector, Subnet)
      BY <2>1 DEF PopulateHalves
    <3>2. \E r \in table : r.prefix = Subnet
      <4>1. Of(Subnet) \in SUBSET table /\ Cardinality(Of(Subnet)) > 0
        BY <2>1 DEF select_prefix_count, Of
      <4>2. Of(Subnet) # {}
        BY <1>2, <4>1, Counted
      <4>3. QED
        BY <4>2 DEF Of
    <3>3. \A i \in DOMAIN prefix_vector' :
              \/ prefix_vector'[i] = Subnet
              \/ i \in DOMAIN prefix_vector /\ prefix_vector'[i] = prefix_vector[i]
      BY <1>1, <1>2, <3>1
    <3>4. QED
      BY <1>4, <3>2, <3>3
  <2>2. CASE ~ (PopulateHalves /\ select_prefix_count(Subnet) > 0)
    <3>1. prefix_vector' = prefix_vector
      BY <2>2 DEF PopulateBlock, PopulateHalves
    <3>2. QED
      BY <1>4, <3>1
  <2>3. QED
    BY <2>1, <2>2
<1>7. \A i \in DOMAIN prefix_vector' : {r \in table : r.prefix = prefix_vector'[i]} # {}
  BY <1>6
<1>8. QED
  BY <1>1, <1>5, <1>7 DEF BlocksManageable, select_subnet_count, Inside, Of

\* A host contains only itself.
LEMMA WithinHost ==
    ASSUME NEW h \in Hosts, NEW q \in Prefixes, Within(q, h)
    PROVE  q = h
<1>1. h \in Prefixes /\ h.netmask = Netmask(Width)
  BY DEF Hosts
<1>2. PICK k \in 0..Width : h \in [addr : SUBSET Netmask(k), netmask : {Netmask(k)}]
  BY <1>1 DEF Prefixes
<1>3. PICK l \in 0..Width : q \in [addr : SUBSET Netmask(l), netmask : {Netmask(l)}]
  BY DEF Prefixes
<1>4. Netmask(l) \subseteq Netmask(Width)
  BY SubnetBlocksAssumption DEF Netmask
<1>5. q.netmask = h.netmask
  BY <1>1, <1>3, <1>4 DEF Within
<1>6. q.addr \subseteq q.netmask /\ h.addr \subseteq h.netmask
  BY <1>2, <1>3
<1>7. q.addr = h.addr
  BY <1>5, <1>6 DEF Within
<1>8. QED
  BY <1>2, <1>3, <1>5, <1>7

\* When every call was made, the rows of each host have found a block.
LEMMA HostsPlaced ==
    ASSUME ControlOK, Partition, BlocksManageable, calls = <<>>
    PROVE  ~ FullHost
<1>1. SUFFICES ASSUME NEW h \in Hosts, ~ FitsBlock(h) PROVE FALSE
  BY DEF FullHost
<1>2. table \in Tables /\ iteration_size \in Nat \ {0} /\ table \subseteq Rows
  BY SubnetBlocksAssumption DEF ControlOK, Rows
<1>3. Inside(h) \in SUBSET table
  BY DEF Inside
<1>4. Cardinality(Inside(h)) \in Nat /\ Cardinality(Inside(h)) >= iteration_size
  <2>1. Cardinality(Inside(h)) \in Nat
    BY <1>2, <1>3, Counted
  <2>2. QED
    BY <1>1, <1>2, <2>1 DEF FitsBlock, select_subnet_count
<1>5. \A r \in Inside(h) : r \in table /\ r.prefix = h
  BY <1>2, WithinHost DEF Inside, Rows
<1>6. PICK r \in Inside(h) : TRUE
  BY <1>2, <1>3, <1>4, Counted
<1>7. r \in table /\ r.prefix = h /\ OnePlace(r)
  BY <1>5, <1>6 DEF Partition
<1>8. InCalls(r) = {}
  BY DEF InCalls
<1>9. InPrefixes(r) = {}
  BY <1>7 DEF InPrefixes, Partition
<1>10. PICK i \in DOMAIN bloc_vector : Within(r.prefix, bloc_vector[i])
  BY <1>7, <1>8, <1>9 DEF OnePlace, One, InBlocs
<1>11. Inside(h) \subseteq Inside(bloc_vector[i])
  BY <1>5, <1>7, <1>10 DEF Inside
<1> DEFINE T == Inside(bloc_vector[i])
<1>12. T \in SUBSET table /\ Cardinality(T) \in 1..(iteration_size - 1)
  BY <1>10 DEF Inside, BlocksManageable, select_subnet_count
<1> HIDE DEF T
<1>13. IsFiniteSet(T)
  BY <1>2, <1>12, Counted
<1>14. Cardinality(Inside(h)) <= Cardinality(T)
  BY <1>11, <1>13, FS_Subset DEF T
<1>15. QED
  BY <1>2, <1>4, <1>12, <1>14

\* The full hosts are those of the table, which does not change.
LEMMA SameTable ==
    ASSUME table' = table
    PROVE  (FullHost' <=> FullHost) /\ \A p : (FitsBlock(p)' <=> FitsBlock(p))
<1>1. ASSUME NEW p PROVE FitsBlock(p)' <=> FitsBlock(p)
  BY DEF FitsBlock, select_subnet_count, Inside
<1>2. QED
  BY <1>1 DEF FullHost

\* A step of the recursion.
LEMMA PopulateKept ==
    ASSUME IInv, PopulateBlock \/ PopulateHalves
    PROVE  IInv'
<1>1. calls # <<>> /\ step = "populate" /\ step' = step /\ table' = table
      /\ position' = position /\ extrapolated' = extrapolated
  BY DEF PopulateBlock, PopulateHalves, Populating
<1>2. ControlOK /\ BlocksManageable /\ Selections /\ HostStops /\ (Stuck \/ Partition)
  BY DEF IInv
<1>3. Subnet \in Prefixes /\ Others \in Seq(Calls)
  BY <1>1, <1>2, NextCall
<1>4. FirstHalf(Subnet) \in Prefixes /\ SecondHalf(Subnet) \in Prefixes
  <2>1. CASE Subnet \in Hosts
    BY <1>3, <2>1, HostHalf
  <2>2. CASE Subnet \notin Hosts
    BY <1>3, <2>2, Length, HalvesOf
  <2>3. QED
    BY <2>1, <2>2
<1>5. calls' \in Seq(Calls)
  BY <1>1, <1>2, <1>3, <1>4, HalvesCalled DEF PopulateBlock, PopulateHalves
<1>6. prefix_vector' \in Seq(Prefixes) /\ bloc_vector' \in Seq(Prefixes)
  <2>1. /\ prefix_vector' \in {prefix_vector, Append(prefix_vector, Subnet)}
        /\ bloc_vector' \in {bloc_vector, Append(bloc_vector, Subnet)}
    BY DEF PopulateBlock, PopulateHalves
  <2>2. prefix_vector \in Seq(Prefixes) /\ bloc_vector \in Seq(Prefixes)
    BY <1>2 DEF ControlOK
  <2>3. Append(prefix_vector, Subnet) \in Seq(Prefixes) /\ Append(bloc_vector, Subnet) \in Seq(Prefixes)
    BY <1>3, <2>2, AppendProperties
  <2>4. QED
    BY <2>1, <2>2, <2>3
<1>7. ControlOK'
  BY <1>1, <1>2, <1>5, <1>6 DEF ControlOK
<1>8. (Stuck \/ Partition)'
  <2>1. CASE PopulateBlock
    <3>1. ~ Stuck
      BY <2>1 DEF Stuck, PopulateBlock
    <3>2. QED
      BY <1>2, <2>1, <3>1, BlockKept
  <2>2. CASE PopulateHalves /\ Subnet \notin Hosts
    <3>1. ~ Stuck
      BY <2>2 DEF Stuck
    <3>2. QED
      BY <1>2, <2>2, <3>1, HalvesKept
  <2>3. CASE PopulateHalves /\ Subnet \in Hosts
    <3> DEFINE n == Len(calls)
    <3>1. /\ calls' # <<>> /\ Len(calls') = n + 1
          /\ calls'[n + 1] = [subnet |-> FirstHalf(Subnet), frames |-> Call.frames + 1]
      BY <1>1, <1>2, <1>4, <2>3, HalvesCalled DEF PopulateHalves
    <3>2. Subnet' = FirstHalf(Subnet)
      BY <3>1 DEF Subnet, Call
    <3>3. Subnet' = Subnet
      BY <2>3, <3>2, HostHalf
    <3>4. ~ FitsBlock(Subnet)
      BY <2>3 DEF PopulateHalves
    <3>5. (~ FitsBlock(Subnet))'
      BY <1>1, <3>3, <3>4 DEF FitsBlock, select_subnet_count, Inside
    <3>6. QED
      BY <1>1, <2>3, <3>1, <3>3, <3>5 DEF Stuck
  <2>4. QED
    BY <2>1, <2>2, <2>3
<1>9. BlocksManageable'
  BY <1>2, BlocksStay
<1>10. Selections'
  BY <1>1, <1>2 DEF Selections
<1>11. HostStops'
  BY <1>1 DEF HostStops
<1>12. QED
  BY <1>7, <1>8, <1>9, <1>10, <1>11 DEF IInv

\* The blocks do not change any more.
LEMMA BlocksUnchanged ==
    ASSUME UNCHANGED <<table, populateVars>>
    PROVE  /\ BlocksManageable' <=> BlocksManageable
           /\ step' # "overflow" /\ Partition => Partition'
           /\ \A r : InPrefixes(r)' = InPrefixes(r) /\ InBlocs(r)' = InBlocs(r)
<1>1. table' = table /\ calls' = calls /\ prefix_vector' = prefix_vector /\ bloc_vector' = bloc_vector
  BY DEF populateVars
<1>2. ASSUME NEW r
      PROVE  InPrefixes(r)' = InPrefixes(r) /\ InBlocs(r)' = InBlocs(r) /\ InCalls(r)' = InCalls(r)
  BY <1>1 DEF InPrefixes, InBlocs, InCalls
<1>3. ASSUME NEW r PROVE OnePlace(r)' <=> OnePlace(r)
  BY <1>2 DEF OnePlace, One
<1>4. step' # "overflow" /\ Partition => Partition'
  BY <1>1, <1>3 DEF Partition
<1>5. BlocksManageable' <=> BlocksManageable
  BY <1>1 DEF BlocksManageable, select_subnet_count, Inside, Of
<1>6. QED
  BY <1>2, <1>4, <1>5

\* The recursion ends, well or not.
LEMMA PopulateOver ==
    ASSUME IInv, StackOverflow \/ PopulateReturn
    PROVE  IInv'
<1>1. UNCHANGED <<table, populateVars>> /\ position' = position /\ extrapolated' = extrapolated
      /\ step = "populate"
  BY DEF StackOverflow, PopulateReturn, Populating
<1>2. ControlOK /\ BlocksManageable /\ Selections /\ HostStops /\ (Stuck \/ Partition)
  BY DEF IInv
<1>3. ControlOK'
  BY <1>1, <1>2 DEF ControlOK, populateVars, StackOverflow, PopulateReturn
<1>4. BlocksManageable'
  BY <1>1, <1>2, BlocksUnchanged
<1>5. CASE StackOverflow
  <2>1. step' = "overflow" /\ calls # <<>> /\ ~ FitsBlock(Subnet) /\ Call.frames = StackSize
        /\ calls' = calls /\ table' = table
    BY <1>1, <1>5 DEF StackOverflow, Populating, populateVars
  <2>2. (Stuck \/ Partition)'
    <3>1. CASE Subnet \in Hosts
      <4>1. Subnet' = Subnet
        BY <2>1 DEF Subnet, Call
      <4>2. (~ FitsBlock(Subnet))'
        BY <2>1, <4>1 DEF FitsBlock, select_subnet_count, Inside
      <4>3. QED
        BY <2>1, <3>1, <4>1, <4>2 DEF Stuck
    <3>2. CASE Subnet \notin Hosts
      <4>1. Partition
        BY <1>2, <3>2 DEF Stuck
      <4>2. Len(calls) \in DOMAIN calls
        BY <1>2, <2>1, NextCall
      <4>3. calls[Len(calls)].subnet \notin Hosts /\ calls[Len(calls)].frames = StackSize
        BY <2>1, <3>2 DEF Subnet, Call
      <4>4. \E i \in DOMAIN calls' : calls'[i].subnet \notin Hosts /\ calls'[i].frames = StackSize
        BY <2>1, <4>2, <4>3
      <4>5. \A r \in table : OnePlace(r)'
        BY <1>1, <4>1 DEF Partition, OnePlace, One, InCalls, InPrefixes, InBlocs, populateVars
      <4>6. QED
        BY <1>1, <4>1, <4>4, <4>5 DEF Partition, populateVars
    <3>3. QED
      BY <3>1, <3>2
  <2>3. Selections' /\ HostStops'
    BY <1>1, <1>2, <2>1 DEF Selections, HostStops
  <2>4. QED
    BY <1>3, <1>4, <2>2, <2>3 DEF IInv
<1>6. CASE PopulateReturn
  <2>1. calls = <<>> /\ step' = "prefixes" /\ calls' = calls /\ table' = table
    BY <1>1, <1>6 DEF PopulateReturn, populateVars
  <2>2. Partition
    BY <1>2, <2>1 DEF Stuck
  <2>3. (Stuck \/ Partition)'
    BY <1>1, <2>1, <2>2, BlocksUnchanged
  <2>4. ~ FullHost
    BY <1>2, <2>1, <2>2, HostsPlaced
  <2>5. HostStops'
    BY <2>1, <2>4, SameTable DEF HostStops
  <2>6. Selections'
    <3>1. position' = 1 /\ \A r \in table : extrapolated'[r] = 0
      BY <1>1, <1>2 DEF Selections
    <3>2. \A r : \A i \in InPrefixes(r) : ~ (i < 1)
      <4>1. DOMAIN prefix_vector = 1..Len(prefix_vector) /\ Len(prefix_vector) \in Nat
        BY <1>2 DEF ControlOK
      <4>2. QED
        BY <4>1 DEF InPrefixes
    <3>3. \A r \in table' :
              extrapolated'[r] = IF \E i \in InPrefixes(r)' : i < position' THEN 1 ELSE 0
      BY <1>1, <2>1, <3>1, <3>2, BlocksUnchanged
    <3>4. QED
      BY <2>1, <3>3 DEF Selections
  <2>7. QED
    BY <1>3, <1>4, <2>3, <2>5, <2>6 DEF IInv
<1>7. QED
  BY <1>5, <1>6

-----------------------------------------------------------------------------
(***************************************************************************)
(* The loop over the blocks.                                               *)
(***************************************************************************)
\* What the invariant says once the recursion is over.
LEMMA BlocksKnown ==
    ASSUME IInv, step \notin {"populate", "overflow"}
    PROVE  /\ Partition
           /\ \A r \in table : \/ One(InPrefixes(r)) /\ InBlocs(r) = {}
                               \/ InPrefixes(r) = {} /\ One(InBlocs(r))
           /\ Len(prefix_vector) \in Nat /\ DOMAIN prefix_vector = 1..Len(prefix_vector)
           /\ Len(bloc_vector) \in Nat /\ DOMAIN bloc_vector = 1..Len(bloc_vector)
           /\ position \in Nat \ {0}
           /\ \A i \in DOMAIN prefix_vector : Of(prefix_vector[i]) # {}
           /\ \A i \in DOMAIN bloc_vector : Inside(bloc_vector[i]) # {}
<1>1. ControlOK /\ Partition /\ BlocksManageable /\ calls = <<>>
  BY DEF IInv, Stuck, Selections
<1>2. \A r : InCalls(r) = {}
  BY <1>1 DEF InCalls
<1>3. \A r \in table : \/ One(InPrefixes(r)) /\ InBlocs(r) = {}
                       \/ InPrefixes(r) = {} /\ One(InBlocs(r))
  BY <1>1, <1>2 DEF Partition, OnePlace, One
<1>4. /\ Len(prefix_vector) \in Nat /\ DOMAIN prefix_vector = 1..Len(prefix_vector)
      /\ Len(bloc_vector) \in Nat /\ DOMAIN bloc_vector = 1..Len(bloc_vector)
      /\ position \in Nat \ {0}
  BY <1>1 DEF ControlOK
<1>5. ASSUME NEW i \in DOMAIN bloc_vector PROVE Inside(bloc_vector[i]) # {}
  <2> DEFINE T == Inside(bloc_vector[i])
  <2>1. T \in SUBSET table /\ Cardinality(T) \in 1..(iteration_size - 1)
    BY <1>1, <1>5 DEF BlocksManageable, select_subnet_count, Inside
  <2> HIDE DEF T
  <2>2. T # {}
    BY <1>1, <2>1, Counted DEF ControlOK
  <2>3. QED
    BY <2>2 DEF T
<1>6. QED
  BY <1>1, <1>3, <1>4, <1>5 DEF BlocksManageable

\* A block is extrapolated.
LEMMA ExtrapolateKept ==
    ASSUME IInv, ExtrapolateBlock
    PROVE  IInv'
<1>1. /\ UNCHANGED <<table, populateVars>> /\ step' = step /\ position' = position + 1
      /\ step \in {"prefixes", "subnets"} /\ position <= Len(Blocks)
      /\ extrapolated' = [r \in table |-> IF r \in Selected(Blocks[position])
                                          THEN extrapolated[r] + 1 ELSE extrapolated[r]]
  BY DEF ExtrapolateBlock
<1>2. ControlOK /\ BlocksManageable /\ Selections /\ HostStops /\ calls = <<>>
  BY <1>1 DEF IInv, Selections
<1>3. /\ Partition
      /\ \A r \in table : \/ One(InPrefixes(r)) /\ InBlocs(r) = {}
                          \/ InPrefixes(r) = {} /\ One(InBlocs(r))
      /\ Len(prefix_vector) \in Nat /\ DOMAIN prefix_vector = 1..Len(prefix_vector)
      /\ Len(bloc_vector) \in Nat /\ DOMAIN bloc_vector = 1..Len(bloc_vector)
      /\ position \in Nat \ {0}
  BY <1>1, BlocksKnown
<1>4. extrapolated \in [table -> Nat]
  BY <1>2 DEF ControlOK
<1>5. extrapolated' \in [table' -> Nat]
  <2>1. \A r \in table : extrapolated'[r] \in Nat
    BY <1>1, <1>4
  <2>2. QED
    BY <1>1, <2>1
<1>6. ControlOK'
  BY <1>1, <1>2, <1>3, <1>5 DEF ControlOK, populateVars
<1>7. BlocksManageable' /\ Partition'
  BY <1>1, <1>2, <1>3, BlocksUnchanged
<1>8. CASE step = "prefixes"
  <2>1. position \in DOMAIN prefix_vector
    BY <1>1, <1>3, <1>8 DEF Blocks
  <2>2. ASSUME NEW r \in table
        PROVE  extrapolated'[r] = IF \E i \in InPrefixes(r) : i < position + 1 THEN 1 ELSE 0
    <3>1. extrapolated[r] = IF \E i \in InPrefixes(r) : i < position THEN 1 ELSE 0
      BY <1>2, <1>8 DEF Selections
    <3>2. r \in Selected(Blocks[position]) <=> position \in InPrefixes(r)
      BY <1>8, <2>1 DEF Selected, Blocks, Of, InPrefixes
    <3>3. position \in InPrefixes(r) => InPrefixes(r) = {position}
      BY <1>3 DEF One
    <3>4. InPrefixes(r) \subseteq Nat
      BY <1>3 DEF InPrefixes
    <3>5. CASE position \in InPrefixes(r)
      <4>1. extrapolated[r] = 0 /\ extrapolated'[r] = extrapolated[r] + 1
        BY <1>1, <1>3, <3>1, <3>2, <3>3, <3>5
      <4>2. \E i \in InPrefixes(r) : i < position + 1
        BY <1>3, <3>5
      <4>3. QED
        BY <4>1, <4>2
    <3>6. CASE position \notin InPrefixes(r)
      <4>1. \A i \in InPrefixes(r) : i < position + 1 <=> i < position
        BY <1>3, <3>4, <3>6
      <4>2. QED
        BY <1>1, <3>1, <3>2, <3>6, <4>1
    <3>7. QED
      BY <3>5, <3>6
  <2>3. Selections'
    BY <1>1, <1>2, <1>8, <2>2, BlocksUnchanged DEF Selections, populateVars
  <2>4. HostStops'
    BY <1>1, <1>2, SameTable DEF HostStops
  <2>5. QED
    BY <1>6, <1>7, <2>3, <2>4 DEF IInv
<1>9. CASE step = "subnets"
  <2>1. position \in DOMAIN bloc_vector
    BY <1>1, <1>3, <1>9 DEF Blocks
  <2>2. ASSUME NEW r \in table
        PROVE  extrapolated'[r] = IF \/ InPrefixes(r) # {}
                                     \/ \E i \in InBlocs(r) : i < position + 1 THEN 1 ELSE 0
    <3>1. extrapolated[r] = IF \/ InPrefixes(r) # {}
                               \/ \E i \in InBlocs(r) : i < position THEN 1 ELSE 0
      BY <1>2, <1>9 DEF Selections
    <3>2. r \in Selected(Blocks[position]) <=> position \in InBlocs(r)
      BY <1>9, <2>1 DEF Selected, Blocks, Inside, InBlocs
    <3>3. position \in InBlocs(r) => InBlocs(r) = {position} /\ InPrefixes(r) = {}
      BY <1>3 DEF One
    <3>4. InBlocs(r) \subseteq Nat
      BY <1>3 DEF InBlocs
    <3>5. CASE position \in InBlocs(r)
      <4>1. extrapolated[r] = 0 /\ extrapolated'[r] = extrapolated[r] + 1
        BY <1>1, <1>3, <3>1, <3>2, <3>3, <3>5
      <4>2. \E i \in InBlocs(r) : i < position + 1
        BY <1>3, <3>5
      <4>3. QED
        BY <4>1, <4>2
    <3>6. CASE position \notin InBlocs(r)
      <4>1. \A i \in InBlocs(r) : i < position + 1 <=> i < position
        BY <1>3, <3>4, <3>6
      <4>2. QED
        BY <1>1, <3>1, <3>2, <3>6, <4>1
    <3>7. QED
      BY <3>5, <3>6
  <2>3. Selections'
    BY <1>1, <1>2, <1>9, <2>2, BlocksUnchanged DEF Selections, populateVars
  <2>4. HostStops'
    BY <1>1, <1>2, SameTable DEF HostStops
  <2>5. QED
    BY <1>6, <1>7, <2>3, <2>4 DEF IInv
<1>10. QED
  BY <1>1, <1>8, <1>9

\* The loop ends behind the last block: none is empty.
LEMMA EndKept ==
    ASSUME IInv, EndBlocks
    PROVE  IInv'
<1>1. /\ UNCHANGED <<table, populateVars>> /\ position' = 1 /\ extrapolated' = extrapolated
      /\ step' = IF step = "prefixes" THEN "subnets" ELSE "done"
      /\ step \in {"prefixes", "subnets"}
      /\ position <= Len(Blocks) => Selected(Blocks[position]) = {}
  BY DEF EndBlocks
<1>2. ControlOK /\ BlocksManageable /\ Selections /\ HostStops /\ calls = <<>>
  BY <1>1 DEF IInv, Selections
<1>3. /\ Partition
      /\ \A r \in table : \/ One(InPrefixes(r)) /\ InBlocs(r) = {}
                          \/ InPrefixes(r) = {} /\ One(InBlocs(r))
      /\ Len(prefix_vector) \in Nat /\ DOMAIN prefix_vector = 1..Len(prefix_vector)
      /\ Len(bloc_vector) \in Nat /\ DOMAIN bloc_vector = 1..Len(bloc_vector)
      /\ position \in Nat \ {0}
      /\ \A i \in DOMAIN prefix_vector : Of(prefix_vector[i]) # {}
      /\ \A i \in DOMAIN bloc_vector : Inside(bloc_vector[i]) # {}
  BY <1>1, BlocksKnown
<1>4. ControlOK'
  BY <1>1, <1>2 DEF ControlOK, populateVars
<1>5. BlocksManageable' /\ Partition' /\ HostStops'
  BY <1>1, <1>2, <1>3, BlocksUnchanged, SameTable DEF HostStops
<1>6. CASE step = "prefixes"
  <2>1. position > Len(prefix_vector)
    BY <1>1, <1>3, <1>6 DEF Blocks, Selected
  <2>2. ASSUME NEW r \in table
        PROVE  extrapolated'[r] = IF \/ InPrefixes(r) # {}
                                     \/ \E i \in InBlocs(r) : i < 1 THEN 1 ELSE 0
    <3>1. extrapolated[r] = IF \E i \in InPrefixes(r) : i < position THEN 1 ELSE 0
      BY <1>2, <1>6 DEF Selections
    <3>2. \A i \in InPrefixes(r) : i < position
      BY <1>3, <2>1 DEF InPrefixes
    <3>3. \A i \in InBlocs(r) : ~ (i < 1)
      BY <1>3 DEF InBlocs
    <3>4. QED
      BY <1>1, <3>1, <3>2, <3>3
  <2>3. Selections'
    BY <1>1, <1>2, <1>6, <2>2, BlocksUnchanged DEF Selections, populateVars
  <2>4. QED
    BY <1>4, <1>5, <2>3 DEF IInv
<1>7. CASE step = "subnets"
  <2>1. position > Len(bloc_vector)
    BY <1>1, <1>3, <1>7 DEF Blocks, Selected
  <2>2. ASSUME NEW r \in table
        PROVE  extrapolated'[r] = 1
    <3>1. extrapolated[r] = IF \/ InPrefixes(r) # {}
                               \/ \E i \in InBlocs(r) : i < position THEN 1 ELSE 0
      BY <1>2, <1>7 DEF Selections
    <3>2. \A i \in InBlocs(r) : i < position
      BY <1>3, <2>1 DEF InBlocs
    <3>3. InPrefixes(r) # {} \/ InBlocs(r) # {}
      BY <1>3 DEF One
    <3>4. QED
      BY <1>1, <3>1, <3>2, <3>3
  <2>3. Selections'
    BY <1>1, <1>2, <1>7, <2>2 DEF Selections, populateVars
  <2>4. QED
    BY <1>4, <1>5, <2>3 DEF IInv
<1>8. QED
  BY <1>1, <1>6, <1>7

-----------------------------------------------------------------------------
(***************************************************************************)
(* Theorems.                                                               *)
(***************************************************************************)
\* At the start every row is in the call for everything.
LEMMA InitKept ==
    ASSUME Init
    PROVE  IInv
<1>1. /\ table \in Tables /\ step = "populate" /\ calls = <<[subnet |-> Everything, frames |-> 1]>>
      /\ prefix_vector = <<>> /\ bloc_vector = <<>> /\ position = 1
      /\ extrapolated = [r \in table |-> 0]
  BY DEF Init
<1>2. Width \in Nat \ {0} /\ 0 \in 0..Width /\ table \subseteq Rows
  BY <1>1, SubnetBlocksAssumption DEF Rows
<1>3. Netmask(0) = {}
  BY <1>2 DEF Netmask
<1>4. Everything \in Prefixes
  BY <1>2, <1>3, Fitting DEF Everything
<1>5. Cardinality(Everything.netmask) = 0
  BY FS_EmptySet DEF Everything
<1>6. ControlOK
  <2>1. [subnet |-> Everything, frames |-> 1] \in Calls
    BY <1>4 DEF Calls
  <2>2. calls \in Seq(Calls)
    BY <1>1, <2>1
  <2>3. QED
    BY <1>1, <2>2 DEF ControlOK
<1>7. DOMAIN calls = {1} /\ calls[1].subnet = Everything /\ calls[1].frames = 1
  BY <1>1
<1>8. ASSUME NEW r \in table PROVE OnePlace(r)
  <2>1. Within(r.prefix, Everything)
    BY DEF Within, Everything
  <2>2. InCalls(r) = {1}
    BY <1>7, <2>1 DEF InCalls
  <2>3. InPrefixes(r) = {} /\ InBlocs(r) = {}
    BY <1>1 DEF InPrefixes, InBlocs
  <2>4. QED
    BY <2>2, <2>3 DEF OnePlace, One
<1>9. Partition
  BY <1>1, <1>5, <1>7, <1>8 DEF Partition
<1>10. BlocksManageable
  BY <1>1 DEF BlocksManageable
<1>11. Selections /\ HostStops
  BY <1>1 DEF Selections, HostStops
<1>12. QED
  BY <1>6, <1>9, <1>10, <1>11 DEF IInv

\* Nothing happens.
LEMMA StutterKept ==
    ASSUME IInv, UNCHANGED vars
    PROVE  IInv'
<1>1. /\ table' = table /\ step' = step /\ calls' = calls /\ prefix_vector' = prefix_vector
      /\ bloc_vector' = bloc_vector /\ position' = position /\ extrapolated' = extrapolated
  BY DEF vars, populateVars
<1>2. UNCHANGED <<table, populateVars>>
  BY <1>1 DEF populateVars
<1>3. ControlOK' /\ BlocksManageable' /\ HostStops'
  BY <1>1, <1>2, BlocksUnchanged, SameTable DEF IInv, ControlOK, HostStops
<1>4. Selections'
  BY <1>1, <1>2, BlocksUnchanged DEF IInv, Selections
<1>5. Stuck => Stuck'
  <2>1. Subnet' = Subnet
    BY <1>1 DEF Subnet, Call
  <2>2. QED
    BY <1>1, <2>1 DEF Stuck, FitsBlock, select_subnet_count, Inside
<1>6. Partition => Partition'
  BY <1>1 DEF Partition, OnePlace, One, InCalls, InPrefixes, InBlocs
<1>7. QED
  BY <1>3, <1>4, <1>5, <1>6 DEF IInv

\* The inductive invariant is one.
THEOREM InvHolds ==
    Spec => []IInv
<1>1. Init => IInv
  BY InitKept
<1>2. IInv /\ [Next]_vars => IInv'
  BY PopulateKept, PopulateOver, ExtrapolateKept, EndKept, StutterKept DEF Next
<1>3. QED
  BY <1>1, <1>2, PTL DEF Spec

\* populate_blocks cuts the table so that no row is seeded twice and, when all
\* blocks are extrapolated, none was left out; rows of one prefix go together.
THEOREM RowsAreExtrapolatedOnce ==
    Spec => []ExtrapolatedOnce
<1>1. IInv => ExtrapolatedOnce
  <2> SUFFICES ASSUME IInv PROVE ExtrapolatedOnce
    OBVIOUS
  <2>1. Selections /\ step \in {"populate", "overflow", "prefixes", "subnets", "done"}
    BY DEF IInv, ControlOK
  <2>2. \A r \in table : extrapolated[r] \in {0, 1}
    BY <2>1 DEF Selections
  <2>3. ASSUME NEW r \in table, NEW o \in table, r.prefix = o.prefix
        PROVE  extrapolated[r] = extrapolated[o]
    <3>1. InPrefixes(r) = InPrefixes(o) /\ InBlocs(r) = InBlocs(o)
      BY <2>3 DEF InPrefixes, InBlocs
    <3>2. CASE step \in {"populate", "overflow", "done"}
      BY <2>1, <3>2 DEF Selections
    <3>3. CASE step = "prefixes"
      BY <2>1, <3>1, <3>3 DEF Selections
    <3>4. CASE step = "subnets"
      BY <2>1, <3>1, <3>4 DEF Selections
    <3>5. QED
      BY <2>1, <3>2, <3>3, <3>4
  <2>4. step = "done" => \A r \in table : extrapolated[r] = 1
    BY <2>1 DEF Selections
  <2>5. QED
    BY <2>2, <2>3, <2>4 DEF ExtrapolatedOnce
<1>2. QED
  BY <1>1, InvHolds, PTL

\* Every subnet block has rows, and fewer than iteration_size; every prefix
\* block has rows.
THEOREM BlocksAreManageable ==
    Spec => []BlocksManageable
<1>1. IInv => BlocksManageable
  BY DEF IInv
<1>2. QED
  BY <1>1, InvHolds, PTL

\* A host with the rows of a full block keeps populate_blocks from returning:
\* nothing is ever extrapolated.
THEOREM FullHostStopsAll ==
    Spec => [](FullHost => /\ step \in {"populate", "overflow"}
                           /\ \A r \in table : extrapolated[r] = 0)
<1>1. IInv => (FullHost => /\ step \in {"populate", "overflow"}
                           /\ \A r \in table : extrapolated[r] = 0)
  BY DEF IInv, HostStops, Selections
<1>2. QED
  BY <1>1, InvHolds, PTL

\* And nothing else makes the recursion overflow a stack that holds a call for
\* each length of a prefix.
THEOREM OnlyFullHostsOverflow ==
    ASSUME StackSize > Width
    PROVE  Spec => [](step = "overflow" => FullHost)
<1>1. ASSUME IInv, step = "overflow"
      PROVE  FullHost
  <2>1. Stuck \/ Partition
    BY <1>1 DEF IInv
  <2>2. CASE Stuck
    BY <2>2 DEF Stuck, FullHost
  <2>3. CASE Partition
    <3>1. PICK i \in DOMAIN calls : calls[i].subnet \notin Hosts /\ calls[i].frames = StackSize
      BY <1>1, <2>3 DEF Partition
    <3>2. calls[i].subnet \in Prefixes
      <4>1. calls \in Seq(Calls)
        BY <1>1 DEF IInv, ControlOK
      <4>2. calls[i] \in Calls
        BY <3>1, <4>1
      <4>3. QED
        BY <4>2 DEF Calls
    <3>3. calls[i].frames = Cardinality(calls[i].subnet.netmask) + 1
      BY <2>3, <3>1 DEF Partition
    <3>4. Cardinality(calls[i].subnet.netmask) \in 0..(Width - 1)
      BY <3>1, <3>2, Length
    <3>5. QED
      BY <3>1, <3>3, <3>4, SubnetBlocksAssumption
  <2>4. QED
    BY <2>1, <2>2, <2>3
<1>2. IInv => (step = "overflow" => FullHost)
  BY <1>1
<1>3. QED
  BY <1>2, InvHolds, PTL

=============================================================================
