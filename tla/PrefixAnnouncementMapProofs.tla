--------------------- MODULE PrefixAnnouncementMapProofs ---------------------
(***************************************************************************)
(* Proofs about PrefixAnnouncementMap, for blocks of any size.             *)
(***************************************************************************)
EXTENDS PrefixAnnouncementMap, FiniteSetTheorems, TLAPS

(***************************************************************************)
(* The variables keep their types, and the counter counts.  The one needs  *)
(* the other: that the counter stays between 0 and Capacity is because it  *)
(* counts the slots that are filled.                                       *)
(***************************************************************************)
Counted == TypeOK /\ SizeIsCount

\* A set of slots has a size, and the sizes change by one with each slot.
LEMMA BlockIsFinite ==
    /\ IsFiniteSet(BlockIds) /\ Cardinality(BlockIds) = Capacity
    /\ \A S \in SUBSET BlockIds :
          /\ IsFiniteSet(S) /\ Cardinality(S) \in 0..Capacity
          /\ \A id \in BlockIds :
                /\ id \in S => Cardinality(S \ {id}) = Cardinality(S) - 1
                /\ id \notin S => Cardinality(S \union {id}) = Cardinality(S) + 1
<1>1. Capacity \in Nat
  BY MapAssumption
<1>2. IsFiniteSet(BlockIds) /\ Cardinality(BlockIds) = Capacity
  <2>1. 0 \in Int /\ Capacity - 1 \in Int
    BY <1>1
  <2>2. IsFiniteSet(0..(Capacity - 1))
    BY <2>1, FS_Interval
  <2>3. Cardinality(0..(Capacity - 1)) = IF 0 > Capacity - 1 THEN 0 ELSE (Capacity - 1) - 0 + 1
    BY <2>1, FS_Interval
  <2>4. (IF 0 > Capacity - 1 THEN 0 ELSE (Capacity - 1) - 0 + 1) = Capacity
    BY <1>1
  <2> QED
    BY <2>2, <2>3, <2>4 DEF BlockIds
<1>3. ASSUME NEW S \in SUBSET BlockIds
      PROVE  /\ IsFiniteSet(S) /\ Cardinality(S) \in 0..Capacity
             /\ \A id \in BlockIds :
                   /\ id \in S => Cardinality(S \ {id}) = Cardinality(S) - 1
                   /\ id \notin S => Cardinality(S \union {id}) = Cardinality(S) + 1
  <2>1. IsFiniteSet(S) /\ Cardinality(S) <= Cardinality(BlockIds)
    BY <1>2, FS_Subset
  <2>2. Cardinality(S) \in Nat
    BY <2>1, FS_CardinalityType
  <2>3. Cardinality(S) \in 0..Capacity
    BY <1>1, <1>2, <2>1, <2>2
  <2>4. ASSUME NEW id \in BlockIds, id \in S
        PROVE  Cardinality(S \ {id}) = Cardinality(S) - 1
    BY <2>1, <2>4, FS_RemoveElement
  <2>5. ASSUME NEW id \in BlockIds, id \notin S
        PROVE  Cardinality(S \union {id}) = Cardinality(S) + 1
    BY <2>1, <2>5, FS_AddElement
  <2> QED
    BY <2>1, <2>3, <2>4, <2>5
<1> QED
  BY <1>2, <1>3

-----------------------------------------------------------------------------
\* The three ways the set of filled slots changes.
LEMMA FilledAfterInsert ==
    ASSUME TypeOK, NEW id \in BlockIds, NEW ann \in Slots, insert(id, ann)
    PROVE  Filled' = IF ann.tstamp = Empty THEN Filled \ {id} ELSE Filled \union {id}
BY DEF TypeOK, insert, Filled, filled

LEMMA FilledAfterErase ==
    ASSUME TypeOK, NEW id \in BlockIds, erase(id)
    PROVE  Filled' = Filled \ {id}
BY DEF TypeOK, erase, Filled, filled, Slots, Emptied

LEMMA FilledAfterClear ==
    ASSUME TypeOK, clear
    PROVE  Filled' = {}
BY DEF TypeOK, clear, Filled, filled, Slots, Emptied

LEMMA CountedInit == Init => Counted
<1> SUFFICES ASSUME Init PROVE Counted
  OBVIOUS
<1>1. Filled = {}
  BY DEF Init, Filled, filled
<1>2. SizeIsCount
  BY <1>1, FS_EmptySet DEF Init, SizeIsCount
<1>3. TypeOK
  BY MapAssumption DEF Init, TypeOK, Slots
<1> QED
  BY <1>2, <1>3 DEF Counted

LEMMA CountedNext == Counted /\ [Next]_vars => Counted'
<1> SUFFICES ASSUME Counted, [Next]_vars PROVE Counted'
  OBVIOUS
<1> USE DEF Counted
<1>0. /\ Filled \in SUBSET BlockIds /\ Filled' \in SUBSET BlockIds
      /\ Capacity \in Nat
  BY MapAssumption DEF Filled
<1>1. SizeIsCount' /\ announcements' \in [BlockIds -> Slots] => filled_size' \in 0..Capacity
  BY <1>0, BlockIsFinite DEF SizeIsCount
<1>2. ASSUME NEW id \in BlockIds, NEW annId \in BlockIds, insert_mismatch(id, annId)
      PROVE  Counted'
  BY <1>2 DEF insert_mismatch, vars, TypeOK, SizeIsCount, Filled, filled
<1>3. ASSUME NEW id \in BlockIds, NEW ann \in Slots, insert(id, ann)
      PROVE  Counted'
  <2>1. Filled' = IF ann.tstamp = Empty THEN Filled \ {id} ELSE Filled \union {id}
    BY <1>3, FilledAfterInsert
  <2>2. id \in Filled <=> filled(id)
    BY DEF Filled
  <2>3. Filled \ {id} = Filled \/ id \in Filled
    OBVIOUS
  <2>4. Filled \union {id} = Filled \/ id \notin Filled
    OBVIOUS
  <2>5. SizeIsCount'
    <3>1. CASE ann.tstamp = Empty /\ id \in Filled
      <4>1. Cardinality(Filled') = Cardinality(Filled) - 1
        BY <2>1, <3>1, <1>0, BlockIsFinite
      <4>2. filled_size' = filled_size - 1
        BY <1>3, <2>2, <3>1 DEF insert
      <4> QED
        BY <4>1, <4>2 DEF SizeIsCount
    <3>2. CASE ann.tstamp # Empty /\ id \notin Filled
      <4>1. Cardinality(Filled') = Cardinality(Filled) + 1
        BY <2>1, <3>2, <1>0, BlockIsFinite
      <4>2. filled_size' = filled_size + 1
        BY <1>3, <2>2, <3>2 DEF insert
      <4> QED
        BY <4>1, <4>2 DEF SizeIsCount
    <3>3. CASE ~ (ann.tstamp = Empty /\ id \in Filled) /\ ~ (ann.tstamp # Empty /\ id \notin Filled)
      <4>1. Filled' = Filled
        BY <2>1, <3>3
      <4>2. filled_size' = filled_size
        BY <1>3, <2>2, <3>3 DEF insert
      <4> QED
        BY <4>1, <4>2 DEF SizeIsCount
    <3> QED
      BY <3>1, <3>2, <3>3
  <2>6. announcements' \in [BlockIds -> Slots]
    BY <1>3 DEF insert, TypeOK
  <2> QED
    BY <1>1, <1>3, <2>5, <2>6 DEF insert, Changed, TypeOK
<1>4. ASSUME NEW id \in BlockIds, erase(id)
      PROVE  Counted'
  <2>1. Filled' = Filled \ {id}
    BY <1>4, FilledAfterErase
  <2>2. SizeIsCount'
    <3>1. CASE filled(id)
      <4>1. Cardinality(Filled') = Cardinality(Filled) - 1
        BY <2>1, <3>1, <1>0, BlockIsFinite DEF Filled
      <4> QED
        BY <1>4, <3>1, <4>1 DEF erase, SizeIsCount
    <3>2. CASE ~ filled(id)
      <4>1. Filled' = Filled
        BY <2>1, <3>2 DEF Filled
      <4> QED
        BY <1>4, <3>2, <4>1 DEF erase, SizeIsCount
    <3> QED
      BY <3>1, <3>2
  <2>3. announcements' \in [BlockIds -> Slots]
    BY <1>4 DEF erase, TypeOK, Slots, Emptied
  <2> QED
    BY <1>1, <1>4, <2>2, <2>3 DEF erase, Changed, TypeOK
<1>5. CASE clear
  <2>1. SizeIsCount'
    BY <1>5, FilledAfterClear, FS_EmptySet DEF clear, SizeIsCount
  <2>2. announcements' \in [BlockIds -> Slots]
    BY <1>5 DEF clear, TypeOK, Slots, Emptied
  <2> QED
    BY <1>1, <1>5, <2>1, <2>2 DEF clear, Changed, TypeOK
<1>6. CASE begin
  <2>1. SizeIsCount'
    BY <1>6 DEF begin, SizeIsCount, Filled, filled
  <2> QED
    BY <1>6, <2>1 DEF begin, TypeOK
<1>7. CASE increment
  <2>1. SizeIsCount'
    BY <1>7 DEF increment, SizeIsCount, Filled, filled
  <2>2. iterator' \in 0..Capacity /\ visited' \subseteq BlockIds
    BY <1>7 DEF increment, TypeOK, BlockIds
  <2> QED
    BY <1>7, <2>1, <2>2 DEF increment, TypeOK
<1>8. CASE UNCHANGED vars
  BY <1>8 DEF vars, TypeOK, SizeIsCount, Filled, filled
<1> QED
  BY <1>2, <1>3, <1>4, <1>5, <1>6, <1>7, <1>8 DEF Next

(***************************************************************************)
(* TypeOK: in particular, the unsigned counter never passes below 0 nor    *)
(* above the number of slots.                                              *)
(***************************************************************************)
THEOREM TypeCorrect == Spec => []TypeOK
<1>1. Counted => TypeOK
  BY DEF Counted
<1> QED
  BY <1>1, CountedInit, CountedNext, PTL DEF Spec

(***************************************************************************)
(* SizeIsCount: size() and empty() are right after every sequence of       *)
(* insertions, erasures and clears.                                        *)
(***************************************************************************)
THEOREM SizeIsRight == Spec => []SizeIsCount
<1>1. Counted => SizeIsCount
  BY DEF Counted
<1> QED
  BY <1>1, CountedInit, CountedNext, PTL DEF Spec

-----------------------------------------------------------------------------
LEMMA IterationInit == Init => IterationComplete
BY DEF Init, IterationComplete

LEMMA IterationNext ==
    TypeOK /\ IterationComplete /\ [Next]_vars => IterationComplete'
<1> SUFFICES ASSUME TypeOK, IterationComplete, [Next]_vars PROVE IterationComplete'
  OBVIOUS
<1>0. Capacity \in Nat /\ NotWalking \notin Nat
  BY MapAssumption
<1>1. CASE Changed
  BY <1>1 DEF Changed, IterationComplete
<1>2. CASE UNCHANGED vars
  BY <1>2 DEF vars, IterationComplete, Filled, filled
<1>3. CASE begin
  <2>1. PICK stop \in 0..Capacity : IsStop(0, stop) /\ iterator' = stop
    BY <1>3 DEF begin
  <2>2. Filled' = Filled /\ visited' = {} /\ \A id : filled(id)' = filled(id)
    BY <1>3 DEF begin, Filled, filled
  <2>3. {id \in Filled' : id < stop} = {}
    BY <1>0, <2>1, <2>2 DEF IsStop, Filled, BlockIds
  <2> QED
    BY <2>1, <2>2, <2>3 DEF IterationComplete, IsStop
<1>4. CASE increment
  <2>1. PICK stop \in 0..Capacity : IsStop(iterator + 1, stop) /\ iterator' = stop
    BY <1>4 DEF increment
  <2>2. Filled' = Filled /\ visited' = visited \union {iterator}
        /\ \A id : filled(id)' = filled(id)
    BY <1>4 DEF increment, Filled, filled
  <2>3. /\ iterator \in 0..(Capacity - 1) /\ iterator # NotWalking
        /\ visited = {id \in Filled : id < iterator} /\ iterator \in Filled
    BY <1>0, <1>4 DEF increment, IterationComplete, Filled, BlockIds
  <2>4. {id \in Filled : id < stop} = {id \in Filled : id < iterator} \union {iterator}
    BY <1>0, <2>1, <2>3 DEF IsStop, Filled, BlockIds
  <2> QED
    BY <2>1, <2>2, <2>3, <2>4 DEF IterationComplete, IsStop
<1> QED
  BY <1>1, <1>2, <1>3, <1>4 DEF Next, insert_mismatch, insert, erase, clear

(***************************************************************************)
(* IterationComplete: a loop over the map visits every filled slot in      *)
(* order and stands on no empty one.                                       *)
(***************************************************************************)
THEOREM IterationsAreComplete == Spec => []IterationComplete
<1>1. Counted /\ [Next]_vars => TypeOK
  BY DEF Counted
<1> QED
  BY <1>1, CountedInit, CountedNext, IterationInit, IterationNext, PTL DEF Spec, Counted

-----------------------------------------------------------------------------
StoreMap == [id \in Filled |-> announcements[id]]

LEMMA StoreInit == Init => Store!Init
<1> SUFFICES ASSUME Init PROVE Store!Init
  OBVIOUS
<1>1. Filled = {}
  BY DEF Init, Filled, filled
<1> QED
  BY <1>1 DEF Init, Store!Init

LEMMA StoreNext ==
    Counted /\ Counted' /\ IterationComplete /\ [Next]_vars => [Store!Next]_(Store!vars)
<1> SUFFICES ASSUME Counted, Counted', IterationComplete, [Next]_vars
             PROVE  [Store!Next]_(Store!vars)
  OBVIOUS
<1>0. filled_size' = Store!Cardinality(DOMAIN StoreMap')
  <2>1. \A S : Store!Cardinality(S) = Cardinality(S)
    BY DEF Store!Cardinality, Cardinality
  <2> QED
    BY <2>1 DEF Counted, SizeIsCount, StoreMap
<1>1. Capacity \in Nat /\ NotWalking \notin Nat
  BY MapAssumption
<1>2. ASSUME NEW id \in BlockIds, NEW ann \in Slots, insert(id, ann)
      PROVE  Store!Next
  <2>1. Filled' = IF ann.tstamp = Empty THEN Filled \ {id} ELSE Filled \union {id}
    BY <1>2, FilledAfterInsert DEF Counted
  <2>2. announcements' = [announcements EXCEPT ![id] = ann] /\ visited' = {}
    BY <1>2 DEF insert, Changed
  <2>3. CASE ann.tstamp = Empty
    <3>1. StoreMap' = [i \in DOMAIN StoreMap \ {id} |-> StoreMap[i]]
      BY <2>1, <2>2, <2>3 DEF StoreMap, Counted, TypeOK, Filled
    <3>2. Store!Remove({id})
      BY <2>2, <3>1 DEF Store!Remove, StoreMap
    <3> QED
      BY <1>0, <3>2 DEF Store!Next, StoreMap
  <2>4. CASE ann.tstamp # Empty
    <3>1. StoreMap' = [i \in DOMAIN StoreMap \union {id} |-> IF i = id THEN ann ELSE StoreMap[i]]
      BY <2>1, <2>2, <2>4 DEF StoreMap, Counted, TypeOK, Filled
    <3>2. ann \in [tstamp : Tstamps, content : Contents]
      BY <2>4 DEF Slots
    <3>3. Store!Put(id, ann)
      BY <2>2, <3>1 DEF Store!Put, StoreMap
    <3> QED
      BY <1>0, <3>2, <3>3 DEF Store!Next, StoreMap
  <2> QED
    BY <2>3, <2>4
<1>3. ASSUME NEW id \in BlockIds, erase(id)
      PROVE  Store!Next
  <2>1. Filled' = Filled \ {id} /\ visited' = {}
    BY <1>3, FilledAfterErase DEF erase, Changed, Counted
  <2>2. \A i \in Filled' : announcements'[i] = announcements[i]
    BY <1>3, <2>1 DEF erase, Counted, TypeOK, Filled
  <2>3. StoreMap' = [i \in DOMAIN StoreMap \ {id} |-> StoreMap[i]]
    BY <2>1, <2>2 DEF StoreMap
  <2>4. Store!Remove({id})
    BY <2>1, <2>3 DEF Store!Remove, StoreMap
  <2> QED
    BY <1>0, <2>4 DEF Store!Next, StoreMap
<1>4. ASSUME clear
      PROVE  Store!Next
  <2>1. Filled' = {} /\ visited' = {} /\ Filled \ BlockIds = {}
    BY <1>4, FilledAfterClear DEF clear, Changed, Counted, Filled
  <2>2. StoreMap' = [i \in DOMAIN StoreMap \ BlockIds |-> StoreMap[i]]
    BY <2>1 DEF StoreMap
  <2>3. Store!Remove(BlockIds)
    BY <2>1, <2>2 DEF Store!Remove, StoreMap
  <2> QED
    BY <1>0, <2>3 DEF Store!Next, StoreMap
<1>5. ASSUME begin
      PROVE  Store!Next
  <2>1. StoreMap' = StoreMap /\ visited' = {}
    BY <1>5 DEF begin, StoreMap, Filled, filled
  <2>2. Store!StartWalk
    BY <2>1 DEF Store!StartWalk, StoreMap
  <2> QED
    BY <1>0, <2>2 DEF Store!Next, StoreMap
<1>6. ASSUME increment
      PROVE  Store!Next
  <2>1. StoreMap' = StoreMap /\ visited' = visited \union {iterator}
    BY <1>6 DEF increment, StoreMap, Filled, filled
  <2>2. /\ iterator \in Filled /\ iterator \in Nat
        /\ visited = {id \in Filled : id < iterator}
    BY <1>1, <1>6 DEF increment, IterationComplete, Filled, BlockIds
  <2>3. \A other \in Filled \ visited : iterator <= other
    BY <1>1, <2>2 DEF Filled, BlockIds
  <2>4. Store!Walk
    BY <2>1, <2>2, <2>3 DEF Store!Walk, StoreMap
  <2> QED
    BY <1>0, <2>4 DEF Store!Next, StoreMap
<1>7. CASE UNCHANGED vars
  BY <1>7 DEF vars, Store!vars, Filled, filled
<1> QED
  BY <1>2, <1>3, <1>4, <1>5, <1>6, <1>7 DEF Next, insert_mismatch

(***************************************************************************)
(* ImplementsStore: the vector with its flags and its counter implements   *)
(* the map from prefixes to announcements that its users rely on.          *)
(***************************************************************************)
THEOREM MapImplementsStore == Spec => ImplementsStore
<1>1. Counted => TypeOK
  BY DEF Counted
<1> QED
  BY <1>1, CountedInit, CountedNext, IterationInit, IterationNext, StoreInit, StoreNext, PTL
     DEF Spec, ImplementsStore, Store!Spec
=============================================================================
