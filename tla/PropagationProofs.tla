--------------------------- MODULE PropagationProofs ---------------------------
(***************************************************************************)
(* Theorems about the sweeps, for every graph, every choice and order of   *)
(* rows, every option and any number of ASes.                              *)
(*                                                                         *)
(* First what holds while the sweeps run: types, relationships, valley-    *)
(* free paths and the priorities of what is stored.                        *)
(*                                                                         *)
(* Then what the three sweeps leave behind, for every graph that is ranked *)
(* as decide_ranks ranks one without cycles: the refinement of GaoRexford, *)
(* the routes' currency, and their traceback.                              *)
(*                                                                         *)
(* At the end the attacks of EZExtrapolator in such a block: whom they     *)
(* reach, how they are counted, what the traceback finds, and the paths    *)
(* they carry.                                                             *)
(***************************************************************************)
EXTENDS PropagationRefinement, EZExtrapolator, FiniteSetTheorems, WellFoundedInduction, TLAPS

-----------------------------------------------------------------------------
(***************************************************************************)
(* Lemmas about announcements.                                             *)
(***************************************************************************)
\* The fields every announcement has, marked or not.
LEMMA FieldTypes ==
    ASSUME NEW ann \in Announcement
    PROVE  /\ ann.origin \in ASNs /\ ann.received_from_asn \in ASNs
           /\ ann.relationship \in 0..3 /\ ann.path_length \in 0..255
           /\ ann.from_monitor \in BOOLEAN /\ ann.tstamp \in Nat
BY DEF Announcement, PlainAnnouncement, EZAnnouncement, UInt8

\* Exporting keeps an announcement an announcement: the path length wraps.
LEMMA ExportType ==
    ASSUME NEW ann \in Announcement, NEW rel \in 0..3, NEW sender \in ASNs
    PROVE  Export(ann, rel, sender) \in Announcement
<1>1. ToUInt8(ann.path_length + 1) \in UInt8
  BY FieldTypes DEF ToUInt8, UInt8
<1>2. QED
  BY <1>1 DEF Export, Announcement, PlainAnnouncement, EZAnnouncement

\* What the sender wrote into an exported announcement.
LEMMA ExportFields ==
    ASSUME NEW ann \in Announcement, NEW rel, NEW sender
    PROVE  /\ Export(ann, rel, sender).relationship = rel
           /\ Export(ann, rel, sender).received_from_asn = sender
           /\ Export(ann, rel, sender).from_monitor = FALSE
           /\ Export(ann, rel, sender).origin = ann.origin
BY DEF Export, Announcement, PlainAnnouncement, EZAnnouncement

\* The relationship decides before the path length does.
LEMMA PriorityOrder ==
    ASSUME NEW x \in Announcement, NEW y \in Announcement, Priority(x) <= Priority(y)
    PROVE  x.relationship <= y.relationship
<1>1. PICK r \in 0..3, s \in 0..3, k \in 0..255, l \in 0..255 :
          /\ x.relationship = r /\ x.path_length = k
          /\ y.relationship = s /\ y.path_length = l
  BY FieldTypes
<1>2. r * (256 * 256 * 256) + (255 - k) * 256
          <= s * (256 * 256 * 256) + (255 - l) * 256
  BY <1>1, SMT DEF Priority
<1>3. r <= s
  BY <1>2, SMT
<1>4. QED
  BY <1>1, <1>3

\* An AS only ever trades up: whatever it processes, it has a route
\* afterwards, and if it had one before, not one of a lesser relationship.
LEMMA BestAfterGrows ==
    ASSUME NEW best \in Slot, NEW ann \in Announcement, NEW value
    PROVE  /\ BestAfter(best, ann, value) \in Announcement
           /\ BestAfter(best, ann, value) \in {best, ann}
           /\ best # NoAnn =>
                best.relationship <= BestAfter(best, ann, value).relationship
<1>1. CASE best = NoAnn
  BY <1>1 DEF BestAfter, Replaces
<1>2. CASE best # NoAnn /\ Replaces(best, ann, value)
  <2>1. best \in Announcement
    BY <1>2 DEF Slot
  <2>2. Priority(best) \in Int /\ Priority(ann) \in Int
    <3>1. \A x \in Announcement : x.relationship \in Int /\ x.path_length \in Int
      BY FieldTypes
    <3>2. QED
      BY <2>1, <3>1 DEF Priority
  <2>3. Priority(best) <= Priority(ann)
    BY <1>2, <2>2 DEF Replaces
  <2>4. best.relationship <= ann.relationship
    BY <2>1, <2>3, PriorityOrder
  <2>5. QED
    BY <1>2, <2>4 DEF BestAfter
<1>3. CASE best # NoAnn /\ ~ Replaces(best, ann, value)
  BY <1>3, FieldTypes DEF BestAfter, Slot
<1>4. QED
  BY <1>1, <1>2, <1>3

LEMMA DeprefAfterType ==
    ASSUME NEW best \in Slot, NEW depref \in Slot, NEW ann \in Announcement, NEW value
    PROVE  DeprefAfter(best, depref, ann, value) \in Slot
BY DEF DeprefAfter, Slot, Replaces

LEMMA InverseAfterType ==
    ASSUME NEW inverse, DOMAIN inverse \subseteq ASNs,
           \A o \in DOMAIN inverse : inverse[o] \subseteq NonStubs,
           NEW asn \in ASes, NEW best, NEW ann, NEW value
    PROVE  /\ DOMAIN InverseAfter(inverse, asn, best, ann, value) = DOMAIN inverse
           /\ \A o \in DOMAIN inverse :
                 InverseAfter(inverse, asn, best, ann, value)[o] \subseteq NonStubs
<1>1. asn \in NonStubs
  BY PropagationAssumption
<1>2. CASE Replaces(best, ann, value)
  BY <1>1, <1>2 DEF InverseAfter, SwapInverse
<1>3. CASE ~ Replaces(best, ann, value)
  BY <1>3 DEF InverseAfter, SwapInverse
<1>4. QED
  BY <1>2, <1>3

\* The walk stands on an element of the path, and the seed is well formed.
LEMMA SeedType ==
    ASSUME TypeOK, row # NoRow, hop <= Len(row.path), NEW a \in ASes
    PROVE  /\ Seed(a) \in Announcement
           /\ Seed(a).origin = Origin(row)
           /\ Seed(a).from_monitor = TRUE
<1>1. /\ row \in Rows /\ row.path \in Seq(ASNs) /\ row.path # <<>>
      /\ row.tstamp \in Nat /\ hop \in 1..Len(row.path)
  BY PropagationAssumption DEF TypeOK, Row
<1>2. Origin(row) \in ASNs /\ OnPath \in ASNs
  BY <1>1 DEF Origin, OnPath
<1>3. hop > 1 => Before \in ASNs
  BY <1>1 DEF Before
<1>4. ReceivedFrom(a) \in 0..3
  BY DEF ReceivedFrom, AS_REL_PROVIDER, AS_REL_PEER, AS_REL_CUSTOMER, AS_REL_ORIGIN
<1>5. ToUInt8(hop - 1) \in UInt8
  BY <1>1 DEF ToUInt8, UInt8
<1>6. Seed(a) \in PlainAnnouncement
  BY <1>1, <1>2, <1>3, <1>4, <1>5 DEF Seed, PlainAnnouncement
<1>7. QED
  BY <1>6 DEF Seed, Announcement

-----------------------------------------------------------------------------
(***************************************************************************)
(* Type correctness.                                                       *)
(***************************************************************************)
\* Every row that is tried is a path with a time, its last AS an AS number.
LEMMA RowType ==
    ASSUME NEW r \in Rows
    PROVE  /\ r.path \in Seq(ASNs) /\ Len(r.path) \in Nat \ {0}
           /\ r.tstamp \in Nat /\ Origin(r) \in ASNs
<1>1. r \in Row
  BY PropagationAssumption
<1>2. r.path \in Seq(ASNs) /\ r.path # <<>> /\ r.tstamp \in Nat
  BY <1>1 DEF Row
<1>3. QED
  BY <1>2 DEF Origin

\* One queued announcement processed.
LEMMA ProcessType ==
    ASSUME TypeOK, NEW a \in ASes, process_announcements(a)
    PROVE  /\ Head(incoming_announcements[a]) \in Announcement
           /\ incoming_announcements' \in [ASes -> Seq(Announcement)]
           /\ all_anns' \in [ASes -> Slot]
           /\ depref_anns' \in [ASes -> Slot]
           /\ DOMAIN inverse_results' = DOMAIN inverse_results
           /\ \A o \in DOMAIN inverse_results' : inverse_results'[o] \subseteq NonStubs
<1> DEFINE ann == Head(incoming_announcements[a])
<1>1. incoming_announcements[a] \in Seq(Announcement) /\ incoming_announcements[a] # <<>>
  BY DEF TypeOK, process_announcements
<1>2. ann \in Announcement /\ Tail(incoming_announcements[a]) \in Seq(Announcement)
  BY <1>1
<1>3. incoming_announcements' \in [ASes -> Seq(Announcement)]
  BY <1>2 DEF TypeOK, process_announcements
<1>4. CASE all_anns[a] = NoAnn \/ ~ all_anns[a].from_monitor
  <2>1. all_anns[a] \in Slot /\ depref_anns[a] \in Slot
    BY DEF TypeOK
  <2>2. BestAfter(all_anns[a], ann, Value(a)) \in Slot
    BY <1>2, <2>1, BestAfterGrows DEF Slot
  <2>3. DeprefAfter(all_anns[a], depref_anns[a], ann, Value(a)) \in Slot
    BY <1>2, <2>1, DeprefAfterType
  <2>4. /\ all_anns' = [all_anns EXCEPT ![a] = BestAfter(all_anns[a], ann, Value(a))]
        /\ depref_anns' = [depref_anns EXCEPT
               ![a] = DeprefAfter(all_anns[a], depref_anns[a], ann, Value(a))]
        /\ inverse_results' = InverseAfter(inverse_results, a, all_anns[a], ann, Value(a))
    BY <1>4 DEF process_announcements
  <2> DEFINE inverse == InverseAfter(inverse_results, a, all_anns[a], ann, Value(a))
  <2>5. /\ DOMAIN inverse = DOMAIN inverse_results
        /\ \A o \in DOMAIN inverse_results : inverse[o] \subseteq NonStubs
    <3>1. /\ DOMAIN inverse_results \subseteq ASNs
          /\ \A o \in DOMAIN inverse_results : inverse_results[o] \subseteq NonStubs
      BY DEF TypeOK
    <3>2. QED
      BY <3>1, InverseAfterType
  <2>7. inverse_results' = inverse
    BY <2>4
  <2> HIDE DEF inverse
  <2>6. QED
    BY <1>2, <1>3, <2>2, <2>3, <2>4, <2>5, <2>7 DEF TypeOK
<1>5. CASE ~ (all_anns[a] = NoAnn \/ ~ all_anns[a].from_monitor)
  <2>1. UNCHANGED <<all_anns, depref_anns, inverse_results>>
    BY <1>5 DEF process_announcements
  <2>2. QED
    BY <1>2, <1>3, <2>1 DEF TypeOK
<1>6. QED
  BY <1>4, <1>5

\* Where an AS sends, it has a route; the receivers are ASes.
LEMMA SendsToType ==
    ASSUME TypeOK, NEW a \in ASes
    PROVE  /\ SendsTo(a) \subseteq ASes
           /\ SendsTo(a) # {} => all_anns[a] \in Announcement
           /\ SentAs \in 0..3
BY DEF TypeOK, Topology, SendsTo, SentAs, Slot, AS_REL_PROVIDER, AS_REL_PEER, AS_REL_CUSTOMER

\* One AS sending.
LEMMA SendType ==
    ASSUME TypeOK, NEW a \in ASes, send_all_announcements(a)
    PROVE  incoming_announcements' \in [ASes -> Seq(Announcement)]
<1>1. ASSUME NEW b \in ASes, b \in SendsTo(a)
      PROVE  Append(incoming_announcements[b], Export(all_anns[a], SentAs, a))
                 \in Seq(Announcement)
  <2>1. a \in ASNs
    BY PropagationAssumption
  <2>2. Export(all_anns[a], SentAs, a) \in Announcement
    BY <1>1, <2>1, SendsToType, ExportType
  <2>3. QED
    BY <2>2 DEF TypeOK
<1>2. QED
  BY <1>1 DEF TypeOK, send_all_announcements

\* The walk stays within the path.
LEMMA WalkType ==
    ASSUME TypeOK, Walking
    PROVE  /\ row' \in Rows \union {NoRow}
           /\ hop' \in Nat
           /\ hop' \in 1..(Len(row'.path) + 1)
           /\ hop <= Len(row.path)
<1>1. /\ row # NoRow /\ row \in Rows /\ row' = row /\ hop' = hop + 1
      /\ hop \in 1..(Len(row.path) + 1)
  BY DEF TypeOK, Walking
<1>2. Len(row.path) \in Nat \ {0}
  BY <1>1, RowType
<1>3. hop <= Len(row.path)
  BY <1>1, <1>2 DEF Walking
<1>4. hop + 1 \in 1..(Len(row.path) + 1)
  BY <1>1, <1>2, <1>3
<1>5. QED
  BY <1>1, <1>3, <1>4

LEMMA TypeInit == Init => TypeOK
<1> SUFFICES ASSUME Init PROVE TypeOK
  OBVIOUS
<1>1. options \in Option /\ topo \in Topology
  BY PropagationAssumption DEF Init
<1>2. DOMAIN inverse_results = {}
  BY DEF Init
<1>3. QED
  BY <1>1, <1>2 DEF Init, TypeOK, Slot

LEMMA TypeStep ==
    ASSUME TypeOK, [Next]_vars
    PROVE  TypeOK'
<1>1. ASSUME NEW r \in Rows, SelectRow(r) PROVE TypeOK'
  <2>1. CASE find_loop(r.path)
    BY <1>1, <2>1 DEF SelectRow, TypeOK
  <2>2. CASE ~ find_loop(r.path)
    <3>1. Origin(r) \in ASNs /\ Len(r.path) \in Nat \ {0}
      BY RowType
    <3>2. /\ row' = r /\ hop' = 1
          /\ inverse_results' =
                 [o \in DOMAIN inverse_results \union {Origin(r)} |->
                     IF o \in DOMAIN inverse_results THEN inverse_results[o]
                                                     ELSE NonStubs]
      BY <1>1, <2>2 DEF SelectRow
    <3>3. /\ DOMAIN inverse_results' \subseteq ASNs
          /\ \A o \in DOMAIN inverse_results' : inverse_results'[o] \subseteq NonStubs
      BY <3>1, <3>2 DEF TypeOK
    <3>4. QED
      BY <1>1, <3>1, <3>2, <3>3 DEF SelectRow, TypeOK
  <2>3. QED
    BY <2>1, <2>2
<1>2. CASE PassHop
  <2>1. Walking
    BY <1>2 DEF PassHop
  <2>2. QED
    BY <1>2, <2>1, WalkType DEF PassHop, Walking, TypeOK
<1>3. CASE SeedHop
  <2>1. Walking /\ row # NoRow /\ OnPath \in ASes
    BY <1>3 DEF SeedHop, Walking
  <2>2. Seed(OnPath) \in Announcement
    BY <2>1, WalkType, SeedType
  <2>3. all_anns' \in [ASes -> Slot]
    BY <1>3, <2>1, <2>2 DEF SeedHop, TypeOK, Slot
  <2>4. /\ DOMAIN inverse_results' \subseteq ASNs
        /\ \A o \in DOMAIN inverse_results' : inverse_results'[o] \subseteq NonStubs
    BY <1>3, PropagationAssumption DEF SeedHop, SwapInverse, TypeOK
  <2>5. QED
    BY <2>1, <2>3, <2>4, WalkType DEF Walking, TypeOK
<1>4. CASE BreakHop
  <2>1. Walking
    BY <1>4 DEF BreakHop
  <2>2. all_anns' \in [ASes -> Slot]
    BY <1>4 DEF BreakHop, TypeOK, Slot
  <2>3. QED
    BY <1>4, <2>1, <2>2, WalkType DEF BreakHop, Walking, TypeOK
<1>5. CASE EndRow
  BY <1>5 DEF EndRow, TypeOK
<1>6. CASE propagate_up \/ propagate_down \/ EndBlock
  BY <1>6 DEF propagate_up, propagate_down, EndBlock, StartSweep, Ranked, seedVars, TypeOK
<1>7. CASE clear_announcements
  BY <1>7 DEF clear_announcements, TypeOK, Slot
<1>8. ASSUME NEW a \in ASes, process_announcements(a) PROVE TypeOK'
  BY <1>8, ProcessType DEF process_announcements, seedVars, TypeOK
<1>9. ASSUME NEW a \in ASes, send_all_announcements(a) PROVE TypeOK'
  BY <1>9, SendType DEF send_all_announcements, seedVars, TypeOK
<1>10. CASE UNCHANGED vars
  BY <1>10 DEF vars, TypeOK
<1>11. QED
  BY <1>1, <1>2, <1>3, <1>4, <1>5, <1>6, <1>7, <1>8, <1>9, <1>10 DEF Next

\* The type invariant holds for every value of the constants.
THEOREM TypeCorrect == Spec => []TypeOK
<1>1. TypeOK /\ [Next]_vars => TypeOK'
  BY TypeStep
<1>2. QED
  BY <1>1, TypeInit, PTL DEF Spec

-----------------------------------------------------------------------------
(***************************************************************************)
(* The phases of a block.  Rows are seeded before the sweeps; no AS is     *)
(* pending outside them; while rows are seeded, slots hold seeds only and  *)
(* nothing is queued or second best.                                       *)
(***************************************************************************)
Phases ==
    /\ row # NoRow => sweep = "seed"
    /\ sweep \in {"seed", "done"} => pending = {}
    /\ sweep = "seed" =>
          \A a \in ASes : /\ incoming_announcements[a] = <<>>
                          /\ depref_anns[a] = NoAnn
                          /\ all_anns[a] = NoAnn \/ all_anns[a].from_monitor

\* An AS that a sweep has reached: the block is past its seeds.
LEMMA Sweeping ==
    ASSUME Phases, NEW a \in ASes, Current(a)
    PROVE  sweep \notin {"seed", "done"}
BY DEF Phases, Current

LEMMA PhasesInit == Init => Phases
BY DEF Init, Phases

LEMMA PhasesStep ==
    ASSUME TypeOK, Phases, [Next]_vars
    PROVE  Phases'
<1>1. ASSUME NEW r \in Rows, SelectRow(r) PROVE Phases'
  BY <1>1 DEF SelectRow, Phases
<1>2. CASE PassHop
  BY <1>2 DEF PassHop, Walking, Phases
<1>3. CASE SeedHop
  <2>1. Walking /\ row # NoRow /\ OnPath \in ASes
    BY <1>3 DEF SeedHop, Walking
  <2>2. Seed(OnPath).from_monitor = TRUE
    BY <2>1, WalkType, SeedType
  <2>3. QED
    BY <1>3, <2>1, <2>2 DEF SeedHop, Walking, Phases, TypeOK
<1>4. CASE BreakHop
  BY <1>4 DEF BreakHop, Walking, Phases, TypeOK
<1>5. CASE EndRow
  BY <1>5 DEF EndRow, Phases
<1>6. CASE propagate_up \/ propagate_down \/ EndBlock
  BY <1>6 DEF propagate_up, propagate_down, EndBlock, StartSweep, seedVars, Phases
<1>7. CASE clear_announcements
  BY <1>7 DEF clear_announcements, Phases
<1>8. ASSUME NEW a \in ASes, process_announcements(a) PROVE Phases'
  BY <1>8, Sweeping DEF process_announcements, seedVars, Phases
<1>9. ASSUME NEW a \in ASes, send_all_announcements(a) PROVE Phases'
  BY <1>9, Sweeping DEF send_all_announcements, seedVars, Phases
<1>10. CASE UNCHANGED vars
  BY <1>10 DEF vars, Phases
<1>11. QED
  BY <1>1, <1>2, <1>3, <1>4, <1>5, <1>6, <1>7, <1>8, <1>9, <1>10 DEF Next

-----------------------------------------------------------------------------
(***************************************************************************)
(* Seeds are kept: for every graph, every rows and every option.           *)
(***************************************************************************)
LEMMA SeedsKeptStep ==
    ASSUME TypeOK, Phases, Next, sweep \notin {"seed", "done"},
           NEW a \in ASes, Seeded(a)
    PROVE  all_anns'[a] = all_anns[a]
<1>1. row = NoRow
  BY DEF Phases
<1>2. ASSUME NEW b \in ASes, process_announcements(b)
      PROVE  all_anns'[a] = all_anns[a]
  BY <1>2 DEF process_announcements, Seeded, TypeOK
<1>3. QED
  BY <1>1, <1>2 DEF Next, SelectRow, PassHop, SeedHop, BreakHop, Walking, EndRow,
         propagate_up, propagate_down, EndBlock, StartSweep, clear_announcements,
         send_all_announcements

\* No sweep touches a route that came from a monitor.
THEOREM SeedsAreKept == Spec => SeedsKept
<1>1. Init => TypeOK /\ Phases
  BY TypeInit, PhasesInit
<1>2. TypeOK /\ Phases /\ [Next]_vars => (TypeOK /\ Phases)'
  BY TypeStep, PhasesStep
<1>3. TypeOK /\ Phases /\ [Next]_vars =>
          [sweep \notin {"seed", "done"} =>
               \A a \in ASes : Seeded(a) => all_anns'[a] = all_anns[a]]_vars
  BY SeedsKeptStep
<1>4. QED
  BY <1>1, <1>2, <1>3, PTL DEF Spec, SeedsKept
-----------------------------------------------------------------------------
(***************************************************************************)
(* Where an announcement of a neighbour comes from: it was there before,   *)
(* or the AS whose turn it is sent it in this step.                        *)
(***************************************************************************)
Sent(a, x, ann) ==
    /\ a \in ASes /\ send_all_announcements(a)
    /\ x \in SendsTo(a)
    /\ ann = Export(all_anns[a], SentAs, a)

\* No AS has heard anything while rows are seeded.
LEMMA NothingHeard ==
    ASSUME TypeOK, Phases, sweep = "seed", NEW x \in ASes
    PROVE  FromNeighbours(x) = {}
BY DEF Phases, FromNeighbours, Queued, Learned

\* Processing only moves an announcement from the queue to the slot.
LEMMA ProcessSources ==
    ASSUME TypeOK, NEW a \in ASes, process_announcements(a), NEW x \in ASes
    PROVE  FromNeighbours(x)' \subseteq FromNeighbours(x)
<1> DEFINE ann == Head(incoming_announcements[a])
<1>1. /\ incoming_announcements[a] \in Seq(Announcement)
      /\ incoming_announcements[a] # <<>>
      /\ incoming_announcements' = [incoming_announcements EXCEPT ![a] = Tail(@)]
  BY DEF TypeOK, process_announcements
<1>2. Queued(x)' \subseteq Queued(x)
  <2>1. CASE x = a
    <3>1. Queued(a)' = {Tail(incoming_announcements[a])[k] :
                            k \in DOMAIN Tail(incoming_announcements[a])}
      BY <1>1 DEF Queued, TypeOK
    <3>2. ASSUME NEW k \in DOMAIN Tail(incoming_announcements[a])
          PROVE  Tail(incoming_announcements[a])[k] \in Queued(a)
      <4>1. /\ k + 1 \in DOMAIN incoming_announcements[a]
            /\ Tail(incoming_announcements[a])[k] = incoming_announcements[a][k + 1]
        BY <1>1
      <4>2. QED
        BY <4>1 DEF Queued
    <3>3. QED
      BY <2>1, <3>1, <3>2
  <2>2. CASE x # a
    BY <1>1, <2>2 DEF Queued, TypeOK
  <2>3. QED
    BY <2>1, <2>2
<1>3. ann \in Queued(a)
  <2>1. 1 \in DOMAIN incoming_announcements[a] /\ ann = incoming_announcements[a][1]
    BY <1>1
  <2>2. QED
    BY <2>1 DEF Queued
<1>4. all_anns'[x] \in {all_anns[x]} \union (IF x = a THEN {ann} ELSE {})
  <2>1. BestAfter(all_anns[a], ann, Value(a)) \in {all_anns[a], ann}
    BY DEF BestAfter
  <2>2. QED
    BY <2>1 DEF process_announcements, TypeOK
<1>5. QED
  BY <1>2, <1>3, <1>4 DEF FromNeighbours, Learned

\* Sending appends one announcement to the queue of each receiver.
LEMMA SendSources ==
    ASSUME TypeOK, NEW a \in ASes, send_all_announcements(a),
           NEW x \in ASes, NEW ann \in FromNeighbours(x)'
    PROVE  ann \in FromNeighbours(x) \/ Sent(a, x, ann)
<1>1. all_anns' = all_anns
  BY DEF send_all_announcements
<1>2. CASE x \in SendsTo(a)
  <2> DEFINE sent == Export(all_anns[a], SentAs, a)
             queue == incoming_announcements[x]
  <2>1. incoming_announcements'[x] = Append(queue, sent) /\ queue \in Seq(Announcement)
    BY <1>2 DEF send_all_announcements, TypeOK
  <2>2. ASSUME NEW k \in DOMAIN Append(queue, sent)
        PROVE  Append(queue, sent)[k] \in Queued(x) \union {sent}
    <3>1. CASE k = Len(queue) + 1
      BY <2>1, <3>1
    <3>2. CASE k # Len(queue) + 1
      <4>1. k \in DOMAIN queue /\ Append(queue, sent)[k] = queue[k]
        BY <2>1, <3>2
      <4>2. QED
        BY <4>1 DEF Queued
    <3>3. QED
      BY <3>1, <3>2
  <2>3. Queued(x)' \subseteq Queued(x) \union {sent}
    BY <2>1, <2>2 DEF Queued
  <2>4. QED
    BY <1>1, <1>2, <2>3 DEF FromNeighbours, Learned, Sent
<1>3. CASE x \notin SendsTo(a)
  <2>1. incoming_announcements'[x] = incoming_announcements[x]
    BY <1>3 DEF send_all_announcements
  <2>2. QED
    BY <1>1, <2>1 DEF FromNeighbours, Learned, Queued
<1>4. QED
  BY <1>2, <1>3

\* A route is only replaced by one of no lesser relationship.
Grows(b) ==
    all_anns[b] # NoAnn =>
        all_anns'[b] # NoAnn /\ all_anns[b].relationship <= all_anns'[b].relationship

LEMMA KeptGrows ==
    ASSUME TypeOK, NEW b \in ASes, all_anns'[b] = all_anns[b]
    PROVE  Grows(b)
<1>1. all_anns[b] \in Slot
  BY DEF TypeOK
<1>2. all_anns[b] # NoAnn => all_anns[b].relationship \in 0..3
  BY <1>1, FieldTypes DEF Slot
<1>3. QED
  BY <1>2 DEF Grows

LEMMA ProcessGrows ==
    ASSUME TypeOK, NEW a \in ASes, process_announcements(a), NEW b \in ASes
    PROVE  Grows(b)
<1>1. all_anns[b] \in Slot /\ Head(incoming_announcements[a]) \in Announcement
  BY ProcessType DEF TypeOK
<1>2. NoAnn \notin Announcement
  BY AnnouncementsAssumption
<1>3. CASE all_anns'[b] = all_anns[b]
  BY <1>3, KeptGrows
<1>4. CASE all_anns'[b] # all_anns[b]
  <2>1. /\ a = b
        /\ all_anns'[b] = BestAfter(all_anns[b], Head(incoming_announcements[a]), Value(a))
    BY <1>4 DEF process_announcements, TypeOK
  <2>2. QED
    BY <1>1, <1>2, <2>1, BestAfterGrows DEF Grows
<1>5. QED
  BY <1>3, <1>4

\* Every step either leaves nothing heard from neighbours, or adds at most
\* what one AS sends while routes grow.
LEMMA Sources ==
    ASSUME TypeOK, Phases, [Next]_vars
    PROVE  \/ \A x \in ASes : FromNeighbours(x)' = {}
           \/ /\ \A x \in ASes : \A ann \in FromNeighbours(x)' :
                     \/ ann \in FromNeighbours(x)
                     \/ \E a \in ASes : Sent(a, x, ann)
              /\ \A b \in ASes : Grows(b)
<1> DEFINE Unheard == \A x \in ASes : FromNeighbours(x)' = {}
           Carried == /\ \A x \in ASes : \A ann \in FromNeighbours(x)' :
                            \/ ann \in FromNeighbours(x)
                            \/ \E a \in ASes : Sent(a, x, ann)
                      /\ \A b \in ASes : Grows(b)
<1>1. TypeOK' /\ Phases'
  BY TypeStep, PhasesStep
<1>2. CASE sweep' = "seed"
  <2>1. Unheard
    BY <1>1, <1>2 DEF Phases, FromNeighbours, Queued, Learned
  <2>2. QED
    BY <2>1
<1>3. CASE UNCHANGED <<all_anns, incoming_announcements>>
  <2>1. \A x \in ASes : FromNeighbours(x)' = FromNeighbours(x)
    BY <1>3 DEF FromNeighbours, Learned, Queued
  <2>2. \A b \in ASes : Grows(b)
    BY <1>3, KeptGrows
  <2>3. QED
    BY <2>1, <2>2
<1>4. ASSUME NEW a \in ASes, process_announcements(a) PROVE Carried
  BY <1>4, ProcessSources, ProcessGrows
<1>5. ASSUME NEW a \in ASes, send_all_announcements(a) PROVE Carried
  <2>1. \A b \in ASes : Grows(b)
    BY <1>5, KeptGrows DEF send_all_announcements
  <2>2. QED
    BY <1>5, <2>1, SendSources
<1>6. SeedHop \/ BreakHop \/ clear_announcements => sweep' = "seed"
  BY DEF SeedHop, BreakHop, Walking, Phases, clear_announcements
<1>7. QED
  BY <1>2, <1>3, <1>4, <1>5, <1>6 DEF Next, SelectRow, PassHop, Walking, EndRow,
         propagate_up, propagate_down, EndBlock, StartSweep, vars
-----------------------------------------------------------------------------
(***************************************************************************)
(* Valley-freedom, honest relationships and silent multihomed ASes.        *)
(***************************************************************************)
\* What a sender has and what it may send, sweep by sweep.
LEMMA SentFields ==
    ASSUME TypeOK, NEW a, NEW x, NEW ann, Sent(a, x, ann)
    PROVE  /\ a \in ASes /\ all_anns[a] # NoAnn /\ all_anns[a] \in Announcement
           /\ ann.relationship = SentAs
           /\ ann.received_from_asn = a
           /\ ann.origin = all_anns[a].origin
           /\ sweep = "up" => x \in topo.providers[a]
           /\ sweep = "down" => x \in topo.customers[a]
           /\ sweep \notin {"up", "down"} => x \in topo.peers[a]
           /\ sweep # "down" => /\ all_anns[a].relationship >= AS_REL_CUSTOMER
                               /\ ~ HeldBack(a)
<1>1. /\ a \in ASes /\ x \in SendsTo(a) /\ ann = Export(all_anns[a], SentAs, a)
  BY DEF Sent
<1>2. all_anns[a] # NoAnn /\ all_anns[a] \in Announcement
  BY <1>1, SendsToType DEF SendsTo
<1>3. all_anns[a].relationship \in 0..3
  BY <1>2, FieldTypes
<1>4. /\ ann.relationship = SentAs
      /\ ann.received_from_asn = a
      /\ ann.origin = all_anns[a].origin
  BY <1>1, <1>2 DEF Export, Announcement, PlainAnnouncement, EZAnnouncement
<1>5. sweep = "down" => x \in topo.customers[a]
  BY <1>1, <1>2 DEF SendsTo
<1>6. CASE sweep # "down"
  <2>1. ~ (all_anns[a].relationship < AS_REL_CUSTOMER \/ HeldBack(a))
    BY <1>1, <1>2, <1>6 DEF SendsTo
  <2>2. x \in IF sweep = "up" THEN topo.providers[a] ELSE topo.peers[a]
    BY <1>1, <1>2, <1>6, <2>1 DEF SendsTo
  <2>3. all_anns[a].relationship >= AS_REL_CUSTOMER
    BY <1>3, <2>1 DEF AS_REL_CUSTOMER
  <2>4. QED
    BY <1>1, <1>2, <1>4, <1>6, <2>1, <2>2, <2>3
<1>7. QED
  BY <1>1, <1>2, <1>4, <1>5, <1>6

LEMMA RelationshipHonestStep ==
    ASSUME TypeOK, Phases, RelationshipHonest, [Next]_vars
    PROVE  RelationshipHonest'
<1> DEFINE Honest(x, ann) ==
        /\ ann.received_from_asn \in ASes
        /\ ann.relationship = AS_REL_CUSTOMER => x \in topo.providers[ann.received_from_asn]
        /\ ann.relationship = AS_REL_PEER     => x \in topo.peers[ann.received_from_asn]
        /\ ann.relationship = AS_REL_PROVIDER => x \in topo.customers[ann.received_from_asn]
        /\ ann.relationship # AS_REL_ORIGIN
<1>1. topo' = topo
  BY DEF Next, SelectRow, PassHop, SeedHop, BreakHop, Walking, EndRow, propagate_up,
         propagate_down, EndBlock, StartSweep, clear_announcements,
         process_announcements, send_all_announcements, vars
<1>2. ASSUME NEW x \in ASes, NEW ann \in FromNeighbours(x)' PROVE Honest(x, ann)
  <2>1. CASE ann \in FromNeighbours(x)
    BY <2>1 DEF RelationshipHonest
  <2>2. ASSUME NEW a \in ASes, Sent(a, x, ann) PROVE Honest(x, ann)
    <3>1. /\ ann.relationship = SentAs /\ ann.received_from_asn = a
          /\ sweep = "up" => x \in topo.providers[a]
          /\ sweep = "down" => x \in topo.customers[a]
          /\ sweep \notin {"up", "down"} => x \in topo.peers[a]
      BY <2>2, SentFields
    <3>2. sweep \in {"up", "peers", "down"}
      BY <2>2, Sweeping DEF Sent, send_all_announcements, TypeOK
    <3>3. QED
      BY <3>1, <3>2
         DEF SentAs, AS_REL_CUSTOMER, AS_REL_PEER, AS_REL_PROVIDER, AS_REL_ORIGIN
  <2>3. QED
    BY <1>2, <2>1, <2>2, Sources
<1>3. QED
  BY <1>1, <1>2 DEF RelationshipHonest

LEMMA ValleyFreeStep ==
    ASSUME TypeOK, Phases, RelationshipHonest, ValleyFree, [Next]_vars
    PROVE  ValleyFree'
<1>1. CASE \A x \in ASes : FromNeighbours(x)' = {}
  BY <1>1 DEF ValleyFree
<1>2. CASE /\ \A x \in ASes : \A ann \in FromNeighbours(x)' :
                 ann \in FromNeighbours(x) \/ \E a \in ASes : Sent(a, x, ann)
           /\ \A b \in ASes : Grows(b)
  <2> SUFFICES ASSUME NEW x \in ASes, NEW ann \in FromNeighbours(x)',
                      ann.relationship >= AS_REL_PEER
               PROVE  /\ all_anns'[ann.received_from_asn] # NoAnn
                      /\ all_anns'[ann.received_from_asn].relationship >= AS_REL_CUSTOMER
    BY DEF ValleyFree
  <2> DEFINE b == ann.received_from_asn
  <2>1. /\ b \in ASes /\ all_anns[b] # NoAnn
        /\ all_anns[b].relationship >= AS_REL_CUSTOMER
    <3>1. CASE ann \in FromNeighbours(x)
      BY <3>1 DEF ValleyFree, RelationshipHonest
    <3>2. ASSUME NEW a \in ASes, Sent(a, x, ann)
          PROVE  /\ b \in ASes /\ all_anns[b] # NoAnn
                 /\ all_anns[b].relationship >= AS_REL_CUSTOMER
      BY <3>2, SentFields DEF SentAs, AS_REL_PEER, AS_REL_PROVIDER
    <3>3. QED
      BY <1>2, <3>1, <3>2
  <2>2. Grows(b) /\ all_anns[b] \in Announcement /\ all_anns'[b] \in Slot
    BY <1>2, <2>1, TypeStep DEF TypeOK, Slot
  <2>3. QED
    BY <2>1, <2>2, FieldTypes DEF Grows, Slot, AS_REL_CUSTOMER
<1>3. QED
  BY <1>1, <1>2, Sources

LEMMA MultihomedSilentStep ==
    ASSUME TypeOK, Phases, MultihomedSilent, [Next]_vars
    PROVE  MultihomedSilent'
<1>1. topo' = topo /\ options' = options
  BY DEF Next, SelectRow, PassHop, SeedHop, BreakHop, Walking, EndRow, propagate_up,
         propagate_down, EndBlock, StartSweep, clear_announcements,
         process_announcements, send_all_announcements, vars
<1>2. ASSUME options.mh_mode \in {2, 3}, NEW x \in ASes, NEW ann \in FromNeighbours(x)',
             Multihomed(ann.received_from_asn)
      PROVE  options.mh_mode = 3 /\ ann.relationship = AS_REL_PEER
  <2>1. CASE ann \in FromNeighbours(x)
    BY <1>2, <2>1 DEF MultihomedSilent
  <2>2. ASSUME NEW a \in ASes, Sent(a, x, ann)
        PROVE  options.mh_mode = 3 /\ ann.relationship = AS_REL_PEER
    <3>1. Multihomed(a)
      BY <1>2, <2>2, SentFields
    <3>2. sweep # "down"
      BY <2>2, <3>1, SentFields DEF Multihomed
    <3>3. ~ HeldBack(a)
      BY <2>2, <3>2, SentFields
    <3>4. sweep # "up" /\ options.mh_mode = 3
      BY <1>2, <3>1, <3>3 DEF HeldBack
    <3>5. QED
      <4>1. ann.relationship = SentAs
        BY <2>2, SentFields
      <4>2. sweep = "peers"
        BY <2>2, <3>2, <3>4, Sweeping DEF Sent, send_all_announcements, TypeOK
      <4>3. QED
        BY <3>4, <4>1, <4>2 DEF SentAs
  <2>3. QED
    BY <1>2, <2>1, <2>2, Sources
<1>3. QED
  BY <1>1, <1>2 DEF MultihomedSilent, Multihomed

\* Nothing is heard of a neighbour at first.
LEMMA HeardInit ==
    ASSUME Init
    PROVE  RelationshipHonest /\ ValleyFree /\ MultihomedSilent
<1>1. \A x \in ASes : FromNeighbours(x) = {}
  BY DEF Init, FromNeighbours, Queued, Learned
<1>2. QED
  BY <1>1 DEF RelationshipHonest, ValleyFree, MultihomedSilent

\* A route is used only as what it is: in every graph, whatever rows come in
\* whatever order, a relationship in a priority is the one the ASes have.
THEOREM RelationshipsAreHonest == Spec => []RelationshipHonest
<1>1. Init => TypeOK /\ Phases /\ RelationshipHonest
  BY TypeInit, PhasesInit, HeardInit
<1>2. TypeOK /\ Phases /\ RelationshipHonest /\ [Next]_vars
          => (TypeOK /\ Phases /\ RelationshipHonest)'
  BY TypeStep, PhasesStep, RelationshipHonestStep
<1>3. QED
  BY <1>1, <1>2, PTL DEF Spec

\* Propagation is valley-free, in every graph.  That routes only grow
\* (ProcessGrows) is what keeps it so after the sender changes its route.
THEOREM PropagationIsValleyFree == Spec => []ValleyFree
<1> DEFINE Inv == TypeOK /\ Phases /\ RelationshipHonest /\ ValleyFree
<1>1. Init => Inv
  BY TypeInit, PhasesInit, HeardInit
<1>2. Inv /\ [Next]_vars => Inv'
  BY TypeStep, PhasesStep, RelationshipHonestStep, ValleyFreeStep
<1>3. Inv => ValleyFree
  OBVIOUS
<1> HIDE DEF Inv
<1>4. QED
  BY <1>1, <1>2, <1>3, PTL DEF Spec

\* The multihomed modes 2 and 3 silence what they are to silence.
THEOREM MultihomedAreSilent == Spec => []MultihomedSilent
<1>1. Init => TypeOK /\ Phases /\ MultihomedSilent
  BY TypeInit, PhasesInit, HeardInit
<1>2. TypeOK /\ Phases /\ MultihomedSilent /\ [Next]_vars
          => (TypeOK /\ Phases /\ MultihomedSilent)'
  BY TypeStep, PhasesStep, MultihomedSilentStep
<1>3. QED
  BY <1>1, <1>2, PTL DEF Spec
-----------------------------------------------------------------------------
(***************************************************************************)
(* Inverse results.  The pair of every row, of every route and of every    *)
(* announcement still queued exists, so that swap_inverse_result finds it. *)
(***************************************************************************)
PairsExist ==
    /\ row # NoRow => Origin(row) \in DOMAIN inverse_results
    /\ \A x \in ASes : \A ann \in FromNeighbours(x) : ann.origin \in DOMAIN inverse_results

LEMMA SwapInverseSound ==
    ASSUME NEW inverse, NEW a, NEW best, NEW ann, ann.origin \in DOMAIN inverse
    PROVE  /\ DOMAIN SwapInverse(inverse, a, best, ann) = DOMAIN inverse
           /\ a \notin SwapInverse(inverse, a, best, ann)[ann.origin]
           /\ \A b, o : /\ b # a /\ o \in DOMAIN inverse /\ b \notin inverse[o]
                       => b \notin SwapInverse(inverse, a, best, ann)[o]
BY DEF SwapInverse

\* The pairs are forgotten only with the announcements.
LEMMA PairsStay ==
    ASSUME TypeOK, [Next]_vars, ~ clear_announcements
    PROVE  DOMAIN inverse_results \subseteq DOMAIN inverse_results'
<1>1. ASSUME NEW r \in Rows, SelectRow(r)
      PROVE  DOMAIN inverse_results \subseteq DOMAIN inverse_results'
  BY <1>1 DEF SelectRow
<1>2. ASSUME SeedHop
      PROVE  DOMAIN inverse_results \subseteq DOMAIN inverse_results'
  BY <1>2 DEF SeedHop, SwapInverse
<1>3. ASSUME NEW a \in ASes, process_announcements(a)
      PROVE  DOMAIN inverse_results \subseteq DOMAIN inverse_results'
  BY <1>3, ProcessType
<1>4. QED
  BY <1>1, <1>2, <1>3 DEF Next, PassHop, BreakHop, EndRow, propagate_up, propagate_down,
         EndBlock, StartSweep, send_all_announcements, vars

LEMMA PairsExistStep ==
    ASSUME TypeOK, Phases, PairsExist, InverseSound, [Next]_vars
    PROVE  PairsExist'
<1>1. CASE clear_announcements
  <2>1. row' = NoRow
    BY <1>1 DEF clear_announcements, Phases
  <2>2. \A x \in ASes : FromNeighbours(x)' = {}
    BY <1>1 DEF clear_announcements, FromNeighbours, Queued, Learned
  <2>3. QED
    BY <2>1, <2>2 DEF PairsExist
<1>2. CASE ~ clear_announcements
  <2>1. DOMAIN inverse_results \subseteq DOMAIN inverse_results'
    BY <1>2, PairsStay
  <2>2. row' # NoRow => Origin(row') \in DOMAIN inverse_results'
    <3>1. ASSUME NEW r \in Rows, SelectRow(r), row' # NoRow
          PROVE  Origin(row') \in DOMAIN inverse_results'
      BY <3>1 DEF SelectRow
    <3>2. CASE row' \in {row, NoRow}
      BY <2>1, <3>2 DEF PairsExist
    <3>3. QED
      BY <1>2, <3>1, <3>2 DEF Next, PassHop, SeedHop, BreakHop, Walking, EndRow,
             propagate_up, propagate_down, EndBlock, StartSweep, seedVars,
             process_announcements, send_all_announcements, vars
  <2>3. ASSUME NEW x \in ASes, NEW ann \in FromNeighbours(x)'
        PROVE  ann.origin \in DOMAIN inverse_results'
    <3>1. ASSUME NEW a \in ASes, Sent(a, x, ann)
          PROVE  ann.origin \in DOMAIN inverse_results
      <4>1. a \in ASes /\ all_anns[a] # NoAnn /\ ann.origin = all_anns[a].origin
        BY <3>1, SentFields
      <4>2. QED
        BY <4>1 DEF InverseSound
    <3>2. ann \in FromNeighbours(x) => ann.origin \in DOMAIN inverse_results
      BY DEF PairsExist
    <3>3. QED
      BY <2>1, <2>3, <3>1, <3>2, Sources
  <2>4. QED
    BY <2>2, <2>3 DEF PairsExist
<1>3. QED
  BY <1>1, <1>2

LEMMA InverseSoundStep ==
    ASSUME TypeOK, Phases, PairsExist, InverseSound, [Next]_vars
    PROVE  InverseSound'
<1>1. ASSUME NEW r \in Rows, SelectRow(r) PROVE InverseSound'
  <2>1. CASE find_loop(r.path)
    BY <1>1, <2>1 DEF SelectRow, InverseSound
  <2>2. CASE ~ find_loop(r.path)
    BY <1>1, <2>2 DEF SelectRow, InverseSound
  <2>3. QED
    BY <2>1, <2>2
<1>2. CASE SeedHop
  <2> DEFINE seed == Seed(OnPath)
  <2>1. Walking /\ row # NoRow /\ OnPath \in ASes
    BY <1>2 DEF SeedHop, Walking
  <2>2. seed.origin \in DOMAIN inverse_results
    BY <2>1, WalkType, SeedType DEF PairsExist
  <2>3. /\ all_anns' = [all_anns EXCEPT ![OnPath] = seed]
        /\ inverse_results' = SwapInverse(inverse_results, OnPath, NoAnn, seed)
    BY <1>2 DEF SeedHop
  <2>4. QED
    BY <2>1, <2>2, <2>3, SwapInverseSound DEF InverseSound, TypeOK
<1>3. CASE BreakHop
  BY <1>3 DEF BreakHop, InverseSound, TypeOK
<1>4. CASE clear_announcements
  BY <1>4 DEF clear_announcements, InverseSound
<1>5. ASSUME NEW a \in ASes, process_announcements(a) PROVE InverseSound'
  <2> DEFINE ann == Head(incoming_announcements[a])
  <2>1. ann.origin \in DOMAIN inverse_results
    <3>1. 1 \in DOMAIN incoming_announcements[a] /\ ann = incoming_announcements[a][1]
      BY <1>5 DEF process_announcements, TypeOK
    <3>2. ann \in FromNeighbours(a)
      BY <3>1 DEF FromNeighbours, Queued
    <3>3. QED
      BY <3>2 DEF PairsExist
  <2>2. CASE /\ all_anns[a] = NoAnn \/ ~ all_anns[a].from_monitor
             /\ Replaces(all_anns[a], ann, Value(a))
    <3>1. /\ all_anns' = [all_anns EXCEPT ![a] = ann]
          /\ inverse_results' = SwapInverse(inverse_results, a, all_anns[a], ann)
      BY <1>5, <2>2 DEF process_announcements, BestAfter, InverseAfter
    <3>2. QED
      BY <2>1, <3>1, SwapInverseSound DEF InverseSound, TypeOK
  <2>3. CASE ~ ( /\ all_anns[a] = NoAnn \/ ~ all_anns[a].from_monitor
                 /\ Replaces(all_anns[a], ann, Value(a)) )
    <3>1. all_anns' = all_anns /\ inverse_results' = inverse_results
      BY <1>5, <2>3 DEF process_announcements, BestAfter, InverseAfter, TypeOK
    <3>2. QED
      BY <3>1 DEF InverseSound
  <2>4. QED
    BY <2>2, <2>3
<1>6. CASE UNCHANGED <<all_anns, inverse_results>>
  BY <1>6 DEF InverseSound
<1>7. QED
  BY <1>1, <1>2, <1>3, <1>4, <1>5, <1>6 DEF Next, PassHop, EndRow, propagate_up,
         propagate_down, EndBlock, StartSweep, send_all_announcements, vars

\* An AS with a route to an origin is never listed as having none.
THEOREM InverseIsSound == Spec => []InverseSound
<1> DEFINE Inv == TypeOK /\ Phases /\ PairsExist /\ InverseSound
<1>1. Init => PairsExist /\ InverseSound
  BY DEF Init, PairsExist, InverseSound, FromNeighbours, Queued, Learned
<1>2. Init => Inv
  BY <1>1, TypeInit, PhasesInit
<1>3. Inv /\ [Next]_vars => Inv'
  BY TypeStep, PhasesStep, PairsExistStep, InverseSoundStep
<1>4. Inv => InverseSound
  OBVIOUS
<1> HIDE DEF Inv
<1>5. QED
  BY <1>2, <1>3, <1>4, PTL DEF Spec
-----------------------------------------------------------------------------
(***************************************************************************)
(* The second-best slot.                                                   *)
(***************************************************************************)
LEMMA DeprefAfterNotBetter ==
    ASSUME NEW best \in Slot, NEW depref \in Slot, NEW ann \in Announcement, NEW value,
           depref # NoAnn => best # NoAnn /\ Priority(depref) <= Priority(best),
           DeprefAfter(best, depref, ann, value) # NoAnn
    PROVE  Priority(DeprefAfter(best, depref, ann, value))
               <= Priority(BestAfter(best, ann, value))
<1>1. \A x \in Announcement : Priority(x) \in Int
  BY FieldTypes DEF Priority
<1>2. best # NoAnn
  BY DEF DeprefAfter
<1>3. best \in Announcement /\ Priority(best) \in Int /\ Priority(ann) \in Int
  BY <1>1, <1>2 DEF Slot
<1>4. CASE Replaces(best, ann, value)
  BY <1>2, <1>3, <1>4 DEF DeprefAfter, BestAfter, Replaces
<1>5. CASE ~ Replaces(best, ann, value)
  <2>1. Priority(ann) <= Priority(best)
    BY <1>3, <1>5 DEF Replaces
  <2>2. DeprefAfter(best, depref, ann, value) \in {ann, best, depref}
    BY <1>2, <1>5 DEF DeprefAfter
  <2>3. QED
    BY <1>2, <1>3, <1>5, <2>1, <2>2 DEF BestAfter
<1>6. QED
  BY <1>4, <1>5

LEMMA DeprefNotBetterStep ==
    ASSUME TypeOK, Phases, DeprefNotBetter, [Next]_vars
    PROVE  DeprefNotBetter'
<1>1. CASE sweep = "seed" /\ depref_anns' = depref_anns
  BY <1>1 DEF Phases, DeprefNotBetter
<1>2. CASE clear_announcements
  BY <1>2 DEF clear_announcements, DeprefNotBetter
<1>3. ASSUME NEW a \in ASes, process_announcements(a) PROVE DeprefNotBetter'
  <2> DEFINE ann  == Head(incoming_announcements[a])
             best == BestAfter(all_anns[a], ann, Value(a))
             depref == DeprefAfter(all_anns[a], depref_anns[a], ann, Value(a))
  <2>1. /\ ann \in Announcement /\ all_anns[a] \in Slot /\ depref_anns[a] \in Slot
        /\ sweep' # "seed"
    BY <1>3, ProcessType, Sweeping DEF process_announcements, TypeOK
  <2>2. CASE all_anns[a] = NoAnn \/ ~ all_anns[a].from_monitor
    <3>1. /\ all_anns' = [all_anns EXCEPT ![a] = best]
          /\ depref_anns' = [depref_anns EXCEPT ![a] = depref]
      BY <1>3, <2>2 DEF process_announcements
    <3>2. depref # NoAnn => Priority(depref) <= Priority(best)
      BY <2>1, DeprefAfterNotBetter DEF DeprefNotBetter
    <3>3. best # NoAnn
      BY <2>1, BestAfterGrows, AnnouncementsAssumption
    <3>4. QED
      BY <2>1, <3>1, <3>2, <3>3 DEF DeprefNotBetter, TypeOK
  <2>3. CASE ~ (all_anns[a] = NoAnn \/ ~ all_anns[a].from_monitor)
    BY <1>3, <2>1, <2>3 DEF process_announcements, DeprefNotBetter
  <2>4. QED
    BY <2>2, <2>3
<1>4. CASE sweep' # "seed" /\ UNCHANGED <<all_anns, depref_anns>>
  BY <1>4 DEF DeprefNotBetter, Phases
<1>5. ASSUME NEW a \in ASes, send_all_announcements(a) PROVE DeprefNotBetter'
  BY <1>5, Sweeping DEF send_all_announcements, DeprefNotBetter
<1>6. CASE UNCHANGED vars
  BY <1>6 DEF vars, DeprefNotBetter
<1>7. QED
  BY <1>1, <1>2, <1>3, <1>4, <1>5, <1>6 DEF Next, Phases, SelectRow, PassHop, SeedHop,
         BreakHop, Walking, EndRow, propagate_up, propagate_down, EndBlock, StartSweep

\* The second-best announcement never beats the one in use.
THEOREM DeprefIsNotBetter == Spec => []DeprefNotBetter
<1> DEFINE Inv == TypeOK /\ Phases /\ DeprefNotBetter
<1>1. Init => Inv
  BY TypeInit, PhasesInit DEF Init, DeprefNotBetter
<1>2. Inv /\ [Next]_vars => Inv'
  BY TypeStep, PhasesStep, DeprefNotBetterStep
<1>3. Inv => DeprefNotBetter
  OBVIOUS
<1> HIDE DEF Inv
<1>4. QED
  BY <1>1, <1>2, <1>3, PTL DEF Spec

-----------------------------------------------------------------------------
(***************************************************************************)
(* Nothing is left unprocessed, when the graph is well ranked.             *)
(***************************************************************************)
\* Going down, the ASes visited are the highest ones and have empty queues.
DownSwept ==
    /\ topo \in Topologies
    /\ sweep = "down" =>
          \A a \in ASes \ pending :
              /\ incoming_announcements[a] = <<>>
              /\ \A b \in pending : topo.rank[a] >= topo.rank[b]
    /\ NothingUnprocessed

LEMMA DownSweptStep ==
    ASSUME WellRanked, TypeOK, Phases, DownSwept, [Next]_vars
    PROVE  DownSwept'
<1> USE DEF DownSwept, NothingUnprocessed
<1>1. topo' = topo
  BY DEF Next, SelectRow, PassHop, SeedHop, BreakHop, Walking, EndRow, propagate_up,
         propagate_down, EndBlock, StartSweep, clear_announcements,
         process_announcements, send_all_announcements, vars
<1>2. CASE sweep' \notin {"down", "done"}
  BY <1>1, <1>2
<1>3. CASE propagate_down
  <2>1. Ranked = ASes
    BY DEF Ranked, WellRanked
  <2>2. QED
    BY <1>1, <1>3, <2>1 DEF propagate_down, StartSweep
<1>4. CASE EndBlock
  BY <1>1, <1>4 DEF EndBlock, StartSweep
<1>5. ASSUME NEW a \in ASes, process_announcements(a) PROVE DownSwept'
  <2>1. sweep' = sweep /\ pending' = pending /\ sweep # "done" /\ a \in pending
    BY <1>5, Sweeping DEF process_announcements, Current
  <2>2. \A b \in ASes \ {a} : incoming_announcements'[b] = incoming_announcements[b]
    BY <1>5 DEF process_announcements, TypeOK
  <2>3. QED
    BY <1>1, <2>1, <2>2
<1>6. ASSUME NEW a \in ASes, send_all_announcements(a), sweep = "down" PROVE DownSwept'
  <2>1. /\ sweep' = "down" /\ a \in pending /\ pending' = pending \ {a}
        /\ incoming_announcements[a] = <<>>
    BY <1>6 DEF send_all_announcements, Current
  <2>2. \A b \in ASes : topo.rank[b] \in Int
    BY DEF TypeOK, Topology
  <2>3. pending \subseteq ASes /\ \A b \in pending : topo.rank[a] >= topo.rank[b]
    <3>1. pending \subseteq ASes
      BY DEF TypeOK
    <3>2. ASSUME NEW b \in pending \ {a}
          PROVE  topo.rank[a] = topo.rank[b] \/ topo.rank[a] > topo.rank[b]
      BY <1>6, <3>2 DEF send_all_announcements, Current
    <3>3. QED
      BY <2>2, <3>1, <3>2
  <2>4. SendsTo(a) \subseteq pending \ {a}
    <3>1. ASSUME NEW b \in SendsTo(a) PROVE b \in pending \ {a}
      <4>1. b \in topo.customers[a] /\ b \in ASes
        BY <1>6, SendsToType DEF SendsTo
      <4>2. topo.rank[b] < topo.rank[a]
        BY <4>1 DEF WellRanked
      <4>3. QED
        BY <1>6, <2>1, <2>2, <4>1, <4>2
    <3>2. QED
      BY <3>1
  <2>5. \A b \in ASes \ pending' : incoming_announcements'[b] = <<>>
    BY <1>6, <2>1, <2>4 DEF send_all_announcements
  <2>6. \A b \in ASes \ pending', c \in pending' : topo.rank[b] >= topo.rank[c]
    BY <1>6, <2>1, <2>3
  <2>7. QED
    BY <1>1, <2>1, <2>5, <2>6
<1>7. CASE UNCHANGED vars
  BY <1>1, <1>7 DEF vars
<1>8. ASSUME NEW a \in ASes, send_all_announcements(a)
      PROVE  sweep' = sweep /\ sweep # "done"
  BY <1>8, Sweeping DEF send_all_announcements
<1>9. QED
  BY <1>2, <1>3, <1>4, <1>5, <1>6, <1>7, <1>8 DEF Next, Phases, SelectRow, PassHop,
         SeedHop, BreakHop, Walking, EndRow, propagate_up, StartSweep, seedVars,
         clear_announcements

\* propagate_down catches up with everything that propagate_up left queued.
THEOREM NothingIsUnprocessed ==
    ASSUME WellRanked
    PROVE  Spec => []NothingUnprocessed
<1> DEFINE Inv == TypeOK /\ Phases /\ DownSwept
<1>1. Init => Inv
  BY TypeInit, PhasesInit DEF Init, DownSwept, NothingUnprocessed
<1>2. Inv /\ [Next]_vars => Inv'
  BY TypeStep, PhasesStep, DownSweptStep
<1>3. Inv => NothingUnprocessed
  BY DEF DownSwept
<1> HIDE DEF Inv
<1>4. QED
  BY <1>1, <1>2, <1>3, PTL DEF Spec

-----------------------------------------------------------------------------
(***************************************************************************)
(* From here on, what the sweeps leave behind.                             *)
(***************************************************************************)
(***************************************************************************)
(* What is heard in which sweep.  Going up, only customers' announcements  *)
(* are heard, of ASes that were visited; the last sweep alone has          *)
(* providers' announcements, of ASes that were visited.                    *)
(***************************************************************************)
HeardInTurn ==
    \A x \in ASes : \A ann \in FromNeighbours(x) :
        /\ sweep = "up" => /\ ann.relationship = AS_REL_CUSTOMER
                           /\ ann.received_from_asn \notin pending
        /\ sweep = "peers" => ann.relationship # AS_REL_PROVIDER
        /\ sweep = "down" /\ ann.relationship = AS_REL_PROVIDER
               => ann.received_from_asn \notin pending

(***************************************************************************)
(* Going up, the ASes visited are the lowest ones and have empty queues:   *)
(* after that sweep no customer's announcement is queued any more.         *)
(***************************************************************************)
UpSwept ==
    /\ topo \in Topologies
    /\ sweep = "up" =>
          \A a \in ASes \ pending :
              /\ incoming_announcements[a] = <<>>
              /\ \A b \in pending : topo.rank[a] <= topo.rank[b]
    /\ sweep \in {"peers", "down"} =>
          \A x \in ASes : \A ann \in Queued(x) : ann.relationship # AS_REL_CUSTOMER

\* What is heard from a neighbour is what the neighbour would send now.
HeardIsCurrent ==
    \A x \in ASes : \A ann \in FromNeighbours(x) :
        LET b == ann.received_from_asn
        IN  all_anns[b] # NoAnn /\ ann = Export(all_anns[b], ann.relationship, b)

Heard == TypeOK /\ Phases /\ RelationshipHonest /\ ValleyFree /\ HeardInTurn /\ UpSwept

-----------------------------------------------------------------------------
(***************************************************************************)
(* The queues.                                                             *)
(***************************************************************************)
\* What is processed leaves the front of one queue.
LEMMA ProcessQueues ==
    ASSUME TypeOK, NEW a \in ASes, process_announcements(a)
    PROVE  /\ Head(incoming_announcements[a]) \in Queued(a)
           /\ \A x \in ASes : Queued(x)' \subseteq Queued(x)
           /\ \A x \in ASes \ {a} : incoming_announcements'[x] = incoming_announcements[x]
<1>1. /\ incoming_announcements[a] \in Seq(Announcement)
      /\ incoming_announcements[a] # <<>>
      /\ incoming_announcements' = [incoming_announcements EXCEPT ![a] = Tail(@)]
  BY DEF TypeOK, process_announcements
<1>2. \A x \in ASes \ {a} : incoming_announcements'[x] = incoming_announcements[x]
  BY <1>1 DEF TypeOK
<1>3. Head(incoming_announcements[a]) \in Queued(a)
  <2>1. /\ 1 \in DOMAIN incoming_announcements[a]
        /\ Head(incoming_announcements[a]) = incoming_announcements[a][1]
    BY <1>1
  <2>2. QED
    BY <2>1 DEF Queued
<1>4. Queued(a)' \subseteq Queued(a)
  <2>1. Queued(a)' = {Tail(incoming_announcements[a])[k] :
                          k \in DOMAIN Tail(incoming_announcements[a])}
    BY <1>1 DEF Queued, TypeOK
  <2>2. ASSUME NEW k \in DOMAIN Tail(incoming_announcements[a])
        PROVE  Tail(incoming_announcements[a])[k] \in Queued(a)
    <3>1. /\ k + 1 \in DOMAIN incoming_announcements[a]
          /\ Tail(incoming_announcements[a])[k] = incoming_announcements[a][k + 1]
      BY <1>1
    <3>2. QED
      BY <3>1 DEF Queued
  <2>3. QED
    BY <2>1, <2>2
<1>5. QED
  BY <1>2, <1>3, <1>4 DEF Queued

\* What is sent goes to the end of the queues of the receivers.
LEMMA SendQueues ==
    ASSUME TypeOK, NEW a \in ASes, send_all_announcements(a), NEW x \in ASes
    PROVE  /\ Queued(x)' \subseteq Queued(x) \union {Export(all_anns[a], SentAs, a)}
           /\ x \in SendsTo(a) \/ incoming_announcements[x] # <<>>
                  => incoming_announcements'[x] # <<>>
           /\ x \notin SendsTo(a) => incoming_announcements'[x] = incoming_announcements[x]
<1> DEFINE sent == Export(all_anns[a], SentAs, a)
           queue == incoming_announcements[x]
<1>1. CASE x \in SendsTo(a)
  <2>1. incoming_announcements'[x] = Append(queue, sent) /\ queue \in Seq(Announcement)
    BY <1>1 DEF send_all_announcements, TypeOK
  <2>2. ASSUME NEW k \in DOMAIN Append(queue, sent)
        PROVE  Append(queue, sent)[k] \in Queued(x) \union {sent}
    <3>1. CASE k = Len(queue) + 1
      BY <2>1, <3>1
    <3>2. CASE k # Len(queue) + 1
      <4>1. k \in DOMAIN queue /\ Append(queue, sent)[k] = queue[k]
        BY <2>1, <3>2
      <4>2. QED
        BY <4>1 DEF Queued
    <3>3. QED
      BY <3>1, <3>2
  <2>3. Queued(x)' \subseteq Queued(x) \union {sent}
    BY <2>1, <2>2 DEF Queued
  <2>4. Append(queue, sent) # <<>>
    BY <2>1
  <2>5. QED
    BY <1>1, <2>1, <2>3, <2>4
<1>2. CASE x \notin SendsTo(a)
  BY <1>2 DEF send_all_announcements, Queued
<1>3. QED
  BY <1>1, <1>2

\* Nothing but the sweeps' own steps happens between seeding and clearing.
LEMMA SweepSteps ==
    ASSUME Phases, [Next]_vars, sweep # "seed", sweep' # "seed"
    PROVE  \/ \E a \in ASes : process_announcements(a)
           \/ \E a \in ASes : send_all_announcements(a)
           \/ /\ UNCHANGED <<all_anns, incoming_announcements>>
              /\ \/ sweep = "up" /\ pending = {} /\ sweep' = "peers"
                 \/ sweep = "peers" /\ pending = {} /\ sweep' = "down"
                 \/ sweep = "down" /\ pending = {} /\ sweep' = "done"
                 \/ UNCHANGED <<sweep, pending>>
BY DEF Next, Phases, SelectRow, PassHop, SeedHop, BreakHop, Walking, EndRow, propagate_up,
       propagate_down, EndBlock, StartSweep, clear_announcements, vars

\* The graph and the command line never change.
LEMMA SameTopology ==
    ASSUME [Next]_vars
    PROVE  topo' = topo /\ options' = options
BY DEF Next, SelectRow, PassHop, SeedHop, BreakHop, Walking, EndRow, propagate_up,
       propagate_down, EndBlock, StartSweep, clear_announcements,
       process_announcements, send_all_announcements, vars

-----------------------------------------------------------------------------
(***************************************************************************)
(* The order of the sweeps.                                                *)
(***************************************************************************)
LEMMA HeardInTurnStep ==
    ASSUME TypeOK, Phases, HeardInTurn, RelationshipHonest, [Next]_vars
    PROVE  HeardInTurn'
<1>1. CASE sweep' = "seed"
  BY <1>1 DEF HeardInTurn
<1>2. CASE sweep = "seed" /\ sweep' # "seed"
  <2>1. UNCHANGED <<all_anns, incoming_announcements>>
    BY <1>2 DEF Next, Phases, SelectRow, PassHop, SeedHop, BreakHop, Walking, EndRow,
           propagate_up, propagate_down, EndBlock, StartSweep, clear_announcements,
           process_announcements, send_all_announcements, vars, Current
  <2>2. \A x \in ASes : FromNeighbours(x)' = FromNeighbours(x)
    BY <2>1 DEF FromNeighbours, Learned, Queued
  <2>3. QED
    BY <1>2, <2>2, NothingHeard DEF HeardInTurn
<1>3. CASE sweep # "seed" /\ sweep' # "seed"
  <2>1. ASSUME NEW a \in ASes, process_announcements(a) PROVE HeardInTurn'
    <3>1. UNCHANGED <<sweep, pending>>
      BY <2>1 DEF process_announcements
    <3>2. QED
      BY <2>1, <3>1, ProcessSources DEF HeardInTurn
  <2>2. ASSUME NEW a \in ASes, send_all_announcements(a) PROVE HeardInTurn'
    <3>1. sweep' = sweep /\ pending' = pending \ {a} /\ sweep \in {"up", "peers", "down"}
      BY <2>2, Sweeping DEF send_all_announcements, TypeOK
    <3>2. ASSUME NEW x \in ASes, NEW ann, Sent(a, x, ann)
          PROVE  ann.relationship = SentAs /\ ann.received_from_asn = a
      BY <3>2, SentFields
    <3>3. QED
      BY <2>2, <3>1, <3>2, SendSources
         DEF HeardInTurn, SentAs, AS_REL_CUSTOMER, AS_REL_PEER, AS_REL_PROVIDER
  <2>3. ASSUME UNCHANGED <<all_anns, incoming_announcements>>,
               \/ sweep = "up" /\ pending = {} /\ sweep' = "peers"
               \/ sweep = "peers" /\ pending = {} /\ sweep' = "down"
               \/ sweep = "down" /\ pending = {} /\ sweep' = "done"
               \/ UNCHANGED <<sweep, pending>>
        PROVE  HeardInTurn'
    <3>1. \A x \in ASes : FromNeighbours(x)' = FromNeighbours(x)
      BY <2>3 DEF FromNeighbours, Learned, Queued
    <3>2. QED
      BY <2>3, <3>1 DEF HeardInTurn, AS_REL_CUSTOMER, AS_REL_PROVIDER
  <2>4. QED
    BY <1>3, <2>1, <2>2, <2>3, SweepSteps
<1>4. QED
  BY <1>1, <1>2, <1>3

\* Each level of the first sweep is complete before the next one begins.
LEMMA UpSweptStep ==
    ASSUME WellRanked, ProvidersAbove, TypeOK, Phases, UpSwept, [Next]_vars
    PROVE  UpSwept'
<1>1. topo' = topo
  BY SameTopology
<1>2. CASE sweep' \in {"seed", "done"}
  BY <1>1, <1>2 DEF UpSwept
<1>3. CASE sweep = "seed" /\ sweep' # "seed"
  <2>1. sweep' = "up" /\ pending' = Ranked
    BY <1>3 DEF Next, Phases, SelectRow, PassHop, SeedHop, BreakHop, Walking, EndRow,
           propagate_up, propagate_down, EndBlock, StartSweep, clear_announcements,
           process_announcements, send_all_announcements, vars, Current
  <2>2. Ranked = ASes
    BY DEF Ranked, WellRanked, UpSwept
  <2>3. QED
    BY <1>1, <2>1, <2>2 DEF UpSwept
<1>4. ASSUME NEW a \in ASes, process_announcements(a) PROVE UpSwept'
  <2>1. sweep' = sweep /\ pending' = pending /\ a \in pending
    BY <1>4 DEF process_announcements, Current
  <2>2. QED
    BY <1>1, <1>4, <2>1, ProcessQueues DEF UpSwept
<1>5. ASSUME NEW a \in ASes, send_all_announcements(a) PROVE UpSwept'
  <2>1. /\ sweep' = sweep /\ a \in pending /\ pending' = pending \ {a}
        /\ incoming_announcements[a] = <<>>
    BY <1>5 DEF send_all_announcements, Current
  <2>2. CASE sweep = "up"
    <3>1. \A b \in ASes : topo.rank[b] \in Int
      BY DEF TypeOK, Topology
    <3>2. pending \subseteq ASes /\ \A b \in pending : topo.rank[a] <= topo.rank[b]
      <4>1. pending \subseteq ASes
        BY DEF TypeOK
      <4>2. ASSUME NEW b \in pending \ {a}
            PROVE  topo.rank[a] = topo.rank[b] \/ topo.rank[a] < topo.rank[b]
        BY <1>5, <2>2, <4>2 DEF send_all_announcements, Current
      <4>3. QED
        BY <3>1, <4>1, <4>2
    <3>3. ASSUME NEW b \in ASes \ pending' PROVE b \notin SendsTo(a)
      <4>1. b \in SendsTo(a) => b \in topo.providers[a]
        BY <2>2 DEF SendsTo
      <4>2. b \in topo.providers[a] => topo.rank[a] < topo.rank[b]
        BY DEF ProvidersAbove, UpSwept
      <4>3. b = a \/ topo.rank[b] <= topo.rank[a]
        BY <2>1, <2>2, <3>3 DEF UpSwept
      <4>4. QED
        BY <3>1, <4>1, <4>2, <4>3
    <3>4. \A b \in ASes \ pending' : incoming_announcements'[b] = <<>>
      BY <1>5, <2>1, <2>2, <3>3 DEF send_all_announcements, UpSwept
    <3>5. \A b \in ASes \ pending', c \in pending' : topo.rank[b] <= topo.rank[c]
      BY <2>1, <2>2, <3>2 DEF UpSwept
    <3>6. QED
      BY <1>1, <2>1, <2>2, <3>4, <3>5 DEF UpSwept
  <2>3. CASE sweep \in {"peers", "down"}
    <3>1. ASSUME NEW x \in ASes, NEW ann \in Queued(x)'
          PROVE  ann.relationship # AS_REL_CUSTOMER
      <4>1. CASE ann \in Queued(x)
        BY <2>3, <4>1 DEF UpSwept
      <4>2. CASE x \in SendsTo(a) /\ ann = Export(all_anns[a], SentAs, a)
        <5>1. Sent(a, x, ann)
          BY <1>5, <4>2 DEF Sent
        <5>2. QED
          BY <2>3, <5>1, SentFields DEF SentAs, AS_REL_CUSTOMER, AS_REL_PEER, AS_REL_PROVIDER
      <4>3. QED
        BY <1>5, <3>1, <4>1, <4>2, SendQueues DEF Queued
    <3>2. QED
      BY <1>1, <2>1, <2>3, <3>1 DEF UpSwept
  <2>4. QED
    BY <1>2, <2>1, <2>2, <2>3 DEF TypeOK
<1>6. CASE /\ UNCHANGED <<all_anns, incoming_announcements>>
           /\ \/ sweep = "up" /\ pending = {} /\ sweep' = "peers"
              \/ sweep = "peers" /\ pending = {} /\ sweep' = "down"
              \/ UNCHANGED <<sweep, pending>>
  <2>1. \A x \in ASes : Queued(x)' = Queued(x)
    BY <1>6 DEF Queued
  <2>2. ASSUME sweep = "up", pending = {}, NEW x \in ASes PROVE Queued(x) = {}
    BY <2>2 DEF UpSwept, Queued
  <2>3. QED
    BY <1>1, <1>6, <2>1, <2>2 DEF UpSwept
<1>7. QED
  BY <1>2, <1>3, <1>4, <1>5, <1>6, SweepSteps

\* The invariant the outcome rests on.
LEMMA HeardStep ==
    ASSUME WellRanked, ProvidersAbove, Heard, [Next]_vars
    PROVE  Heard'
BY TypeStep, PhasesStep, RelationshipHonestStep, ValleyFreeStep, HeardInTurnStep, UpSweptStep
   DEF Heard

\* Before the first row nothing has been heard.
LEMMA HeardAtFirst == Init => Heard
<1> SUFFICES ASSUME Init PROVE Heard
  OBVIOUS
<1>1. TypeOK /\ Phases /\ RelationshipHonest /\ ValleyFree
  BY TypeInit, PhasesInit, HeardInit
<1>2. HeardInTurn /\ UpSwept
  BY DEF Init, HeardInTurn, UpSwept
<1>3. QED
  BY <1>1, <1>2 DEF Heard

-----------------------------------------------------------------------------
(***************************************************************************)
(* Who was heard does not change its mind.                                 *)
(***************************************************************************)
\* After the first sweep what is queued is worth less than any route an AS
\* has of its own or of a customer.
LEMMA QueuedIsLesser ==
    ASSUME Heard, sweep \in {"peers", "down"}, NEW b \in ASes, NEW ann \in Queued(b),
           all_anns[b] # NoAnn, all_anns[b].relationship >= AS_REL_CUSTOMER
    PROVE  /\ ~ Replaces(all_anns[b], ann, Value(b))
           /\ BestAfter(all_anns[b], ann, Value(b)) = all_anns[b]
<1>1. ann \in Announcement /\ all_anns[b] \in Announcement
  BY DEF Heard, TypeOK, Queued, Slot
<1>2. ann.relationship \notin {AS_REL_CUSTOMER, AS_REL_ORIGIN}
  BY DEF Heard, UpSwept, RelationshipHonest, FromNeighbours
<1>3. ann.relationship \in 0..3 /\ all_anns[b].relationship \in 0..3
  BY <1>1, FieldTypes
<1>4. ann.relationship < all_anns[b].relationship
  BY <1>2, <1>3 DEF AS_REL_CUSTOMER, AS_REL_ORIGIN
<1>5. ~ (Priority(all_anns[b]) <= Priority(ann))
  BY <1>1, <1>3, <1>4, PriorityOrder
<1>6. Priority(ann) \in Int /\ Priority(all_anns[b]) \in Int
  <2>1. \A x \in Announcement : Priority(x) \in Int
    BY FieldTypes DEF Priority
  <2>2. QED
    BY <1>1, <2>1
<1>7. QED
  BY <1>5, <1>6 DEF BestAfter, Replaces

\* What reaches an AS whose announcement someone has is no better than that.
LEMMA SenderKeepsOut ==
    ASSUME Heard, NEW x \in ASes, NEW ann \in FromNeighbours(x),
           NEW a \in ASes, process_announcements(a), ann.received_from_asn = a
    PROVE  LET next == Head(incoming_announcements[a])
           IN  /\ ~ Replaces(all_anns[a], next, Value(a))
               /\ BestAfter(all_anns[a], next, Value(a)) = all_anns[a]
<1>1. a \in pending /\ sweep \in {"up", "peers", "down"}
  BY Sweeping DEF process_announcements, Current, Heard, TypeOK
<1>2. sweep # "up" /\ ann.relationship # AS_REL_PROVIDER
  BY <1>1 DEF Heard, HeardInTurn
<1>3. all_anns[a] # NoAnn /\ all_anns[a].relationship >= AS_REL_CUSTOMER
  <2>1. ann \in Announcement
    BY DEF Heard, TypeOK, FromNeighbours, Queued, Learned, Slot
  <2>2. ann.relationship >= AS_REL_PEER
    BY <1>2, <2>1, FieldTypes DEF AS_REL_PROVIDER, AS_REL_PEER
  <2>3. QED
    BY <2>2 DEF Heard, ValleyFree
<1>4. Head(incoming_announcements[a]) \in Queued(a)
  BY ProcessQueues DEF Heard
<1>5. QED
  BY <1>1, <1>2, <1>3, <1>4, QueuedIsLesser

\* So it does not replace its route.
LEMMA SenderKeepsRoute ==
    ASSUME Heard, NEW x \in ASes, NEW ann \in FromNeighbours(x),
           NEW a \in ASes, process_announcements(a)
    PROVE  all_anns'[ann.received_from_asn] = all_anns[ann.received_from_asn]
<1> DEFINE b == ann.received_from_asn
<1>1. CASE b # a
  <2>1. b \in ASes
    BY DEF Heard, RelationshipHonest
  <2>2. all_anns \in [ASes -> Slot]
    BY DEF Heard, TypeOK
  <2>3. QED
    BY <1>1, <2>1, <2>2 DEF process_announcements
<1>2. CASE b = a
  <2>1. BestAfter(all_anns[a], Head(incoming_announcements[a]), Value(a)) = all_anns[a]
    BY <1>2, SenderKeepsOut
  <2>2. QED
    BY <1>2, <2>1 DEF process_announcements, Heard, TypeOK
<1>3. QED
  BY <1>1, <1>2

\* What was heard stays what its sender would send.
LEMMA HeardIsCurrentStep ==
    ASSUME Heard, HeardIsCurrent, [Next]_vars
    PROVE  HeardIsCurrent'
<1>1. TypeOK /\ Phases /\ Phases'
  BY PhasesStep DEF Heard
<1>2. CASE sweep' = "seed"
  <2>1. \A x \in ASes : FromNeighbours(x)' = {}
    BY <1>1, <1>2 DEF Phases, FromNeighbours, Queued, Learned
  <2>2. QED
    BY <2>1 DEF HeardIsCurrent
<1>3. ASSUME NEW a \in ASes, process_announcements(a) PROVE HeardIsCurrent'
  <2>1. \A x \in ASes : FromNeighbours(x)' \subseteq FromNeighbours(x)
    BY <1>1, <1>3, ProcessSources
  <2>2. QED
    BY <1>3, <2>1, SenderKeepsRoute DEF HeardIsCurrent
<1>4. ASSUME NEW a \in ASes, send_all_announcements(a) PROVE HeardIsCurrent'
  <2>1. all_anns' = all_anns
    BY <1>4 DEF send_all_announcements
  <2>2. ASSUME NEW x \in ASes, NEW ann, Sent(a, x, ann)
        PROVE  /\ all_anns[ann.received_from_asn] # NoAnn
               /\ ann = Export(all_anns[ann.received_from_asn], ann.relationship,
                               ann.received_from_asn)
    BY <1>1, <2>2, SentFields DEF Sent
  <2>3. QED
    BY <1>1, <1>4, <2>1, <2>2, SendSources DEF HeardIsCurrent
<1>5. CASE UNCHANGED <<all_anns, incoming_announcements>>
  <2>1. \A x \in ASes : FromNeighbours(x)' = FromNeighbours(x)
    BY <1>5 DEF FromNeighbours, Learned, Queued
  <2>2. QED
    BY <1>5, <2>1 DEF HeardIsCurrent
<1>6. QED
  BY <1>1, <1>2, <1>3, <1>4, <1>5 DEF Next, Phases, SelectRow, PassHop, SeedHop, BreakHop,
     Walking, EndRow, propagate_up, propagate_down, EndBlock, StartSweep,
     clear_announcements, vars

(***************************************************************************)
(* No AS ends with a route that its neighbour has replaced since: in every *)
(* ranked graph, whatever was seeded.                                      *)
(***************************************************************************)
THEOREM RoutesAreCurrent ==
    ASSUME WellRanked, ProvidersAbove
    PROVE  Spec => []RoutesCurrent
<1> DEFINE Inv == Heard /\ HeardIsCurrent
<1>1. Init => Inv
  BY HeardAtFirst DEF Init, HeardIsCurrent, FromNeighbours, Queued, Learned
<1>2. Inv /\ [Next]_vars => Inv'
  BY HeardStep, HeardIsCurrentStep
<1>3. Inv => RoutesCurrent
  BY DEF HeardIsCurrent, RoutesCurrent, FromNeighbours
<1> HIDE DEF Inv
<1>4. QED
  BY <1>1, <1>2, <1>3, PTL DEF Spec

-----------------------------------------------------------------------------
(***************************************************************************)
(* The automatic multihomed mode.  An AS that had its turn in the first    *)
(* sweep, and has a route to send, has told one of its providers, who has  *)
(* the prefix or will have it when it comes to its queue.                  *)
(***************************************************************************)
Hears(p) == all_anns[p] # NoAnn \/ incoming_announcements[p] # <<>>
SendsUp(a) == all_anns[a] # NoAnn /\ all_anns[a].relationship >= AS_REL_CUSTOMER
HasTold(a) == topo.providers[a] # {} => \E p \in topo.providers[a] : Hears(p)

ProvidersTold ==
    options.mh_mode \in {0, 1} /\ sweep # "seed" =>
        \A a \in ASes :
            (sweep = "up" => a \notin pending) /\ SendsUp(a) => HasTold(a)

\* Who hears the prefix goes on hearing it.
LEMMA HearsStill ==
    ASSUME TypeOK, NEW a \in ASes, process_announcements(a) \/ send_all_announcements(a),
           NEW p \in ASes, Hears(p)
    PROVE  Hears(p)'
<1>1. CASE send_all_announcements(a)
  BY <1>1, SendQueues DEF Hears, send_all_announcements
<1>2. CASE process_announcements(a) /\ p # a
  BY <1>2 DEF Hears, process_announcements, TypeOK
<1>3. CASE process_announcements(a) /\ p = a
  <2>1. Head(incoming_announcements[a]) \in Announcement /\ all_anns[a] \in Slot
    BY <1>3, ProcessType DEF TypeOK
  <2>2. BestAfter(all_anns[a], Head(incoming_announcements[a]), Value(a)) # NoAnn
    BY <2>1, BestAfterGrows, AnnouncementsAssumption
  <2>3. all_anns'[a] # NoAnn
    BY <1>3, <2>2 DEF process_announcements, TypeOK
  <2>4. QED
    BY <1>3, <2>3 DEF Hears
<1>4. QED
  BY <1>1, <1>2, <1>3

\* After its turn in the first sweep no AS gains a route it would send up.
LEMMA NoneGained ==
    ASSUME Heard, NEW a \in ASes, process_announcements(a), NEW b \in ASes,
           sweep = "up" => b \notin pending, SendsUp(b)'
    PROVE  SendsUp(b)
<1>1. CASE b # a
  BY <1>1 DEF process_announcements, SendsUp, Heard, TypeOK
<1>2. CASE b = a
  <2>1. a \in pending /\ sweep \in {"peers", "down"}
    BY <1>2, Sweeping DEF process_announcements, Current, Heard, TypeOK
  <2> DEFINE ann == Head(incoming_announcements[a])
  <2>2. ann \in Queued(a) /\ ann \in Announcement
    BY ProcessQueues, ProcessType DEF Heard
  <2>3. ann.relationship \notin {AS_REL_CUSTOMER, AS_REL_ORIGIN}
    BY <2>1, <2>2 DEF Heard, UpSwept, RelationshipHonest, FromNeighbours
  <2>4. ~ (ann.relationship >= AS_REL_CUSTOMER)
    BY <2>2, <2>3, FieldTypes DEF AS_REL_CUSTOMER, AS_REL_ORIGIN
  <2>5. all_anns'[a] \in {all_anns[a], ann}
    BY DEF process_announcements, BestAfter, Heard, TypeOK
  <2>6. QED
    BY <1>2, <2>4, <2>5 DEF SendsUp
<1>3. QED
  BY <1>1, <1>2

\* Having its turn in the first sweep, an AS tells its providers, or holds
\* back because one of them knows.
LEMMA TurnTells ==
    ASSUME TypeOK, NEW a \in ASes, send_all_announcements(a), sweep = "up",
           options.mh_mode \in {0, 1}, SendsUp(a), topo.providers[a] # {}
    PROVE  \E p \in topo.providers[a] : Hears(p)'
<1>1. topo.providers[a] \subseteq ASes /\ all_anns' = all_anns
  BY DEF TypeOK, Topology, send_all_announcements
<1>2. CASE HeldBack(a)
  <2>1. KnownUpstream(a)
    BY <1>2 DEF HeldBack
  <2>2. QED
    BY <1>1, <2>1 DEF KnownUpstream, Hears
<1>3. CASE ~ HeldBack(a)
  <2>1. ~ (all_anns[a].relationship < AS_REL_CUSTOMER)
    <3>1. all_anns[a] \in Announcement
      BY DEF SendsUp, TypeOK, Slot
    <3>2. all_anns[a].relationship \in 0..3
      BY <3>1, FieldTypes
    <3>3. QED
      BY <3>2 DEF SendsUp, AS_REL_CUSTOMER
  <2>2. SendsTo(a) = topo.providers[a]
    BY <1>3, <2>1 DEF SendsTo, SendsUp
  <2>3. QED
    BY <1>1, <2>2, SendQueues DEF Hears
<1>4. QED
  BY <1>2, <1>3

\* Who told a provider stays known there, and who has had its turn told one.
LEMMA ProvidersToldStep ==
    ASSUME WellRanked, Heard, ProvidersTold, [Next]_vars
    PROVE  ProvidersTold'
<1>1. TypeOK /\ Phases /\ topo' = topo /\ options' = options
  BY SameTopology DEF Heard
<1>2. CASE sweep' = "seed"
  BY <1>2 DEF ProvidersTold
<1>3. CASE sweep = "seed" /\ sweep' # "seed"
  <2>1. sweep' = "up" /\ pending' = Ranked
    BY <1>1, <1>3 DEF Next, Phases, SelectRow, PassHop, SeedHop, BreakHop, Walking, EndRow,
           propagate_up, propagate_down, EndBlock, StartSweep, clear_announcements,
           process_announcements, send_all_announcements, vars, Current
  <2>2. Ranked = ASes
    BY DEF Ranked, WellRanked, Heard, UpSwept
  <2>3. QED
    BY <2>1, <2>2 DEF ProvidersTold
<1>4. \A b \in ASes : topo.providers[b] \subseteq ASes
  BY <1>1 DEF TypeOK, Topology
<1>5. ASSUME NEW a \in ASes, process_announcements(a), sweep # "seed" PROVE ProvidersTold'
  <2>1. sweep' = sweep /\ pending' = pending
    BY <1>5 DEF process_announcements
  <2>2. \A p \in ASes : Hears(p) => Hears(p)'
    BY <1>1, <1>5, HearsStill
  <2>3. \A b \in ASes : HasTold(b) => HasTold(b)'
    BY <1>1, <1>4, <2>2 DEF HasTold
  <2>4. \A b \in ASes : (sweep = "up" => b \notin pending) /\ SendsUp(b)' => SendsUp(b)
    BY <1>5, NoneGained
  <2>5. QED
    BY <1>1, <1>5, <2>1, <2>3, <2>4 DEF ProvidersTold
<1>6. ASSUME NEW a \in ASes, send_all_announcements(a), sweep # "seed" PROVE ProvidersTold'
  <2>1. sweep' = sweep /\ pending' = pending \ {a} /\ all_anns' = all_anns
    BY <1>6 DEF send_all_announcements
  <2>2. \A p \in ASes : Hears(p) => Hears(p)'
    BY <1>1, <1>6, HearsStill
  <2>3. \A b \in ASes : HasTold(b) => HasTold(b)'
    BY <1>1, <1>4, <2>2 DEF HasTold
  <2>4. sweep = "up" /\ options.mh_mode \in {0, 1} /\ SendsUp(a) => HasTold(a)'
    BY <1>1, <1>6, TurnTells DEF HasTold
  <2>5. \A b \in ASes : SendsUp(b)' = SendsUp(b)
    BY <2>1 DEF SendsUp
  <2>6. QED
    BY <1>1, <1>6, <2>1, <2>3, <2>4, <2>5 DEF ProvidersTold
<1>7. CASE /\ UNCHANGED <<all_anns, incoming_announcements>>
           /\ sweep # "seed" /\ (sweep' = "up" => sweep = "up" /\ UNCHANGED pending)
           /\ (sweep = "up" /\ sweep' # "up" => pending = {})
  BY <1>1, <1>7 DEF ProvidersTold, HasTold, Hears, SendsUp
<1>8. QED
  BY <1>1, <1>2, <1>3, <1>5, <1>6, <1>7, SweepSteps

(***************************************************************************)
(* The automatic multihomed mode silences no AS that no one else speaks    *)
(* for: a provider has the prefix in the end.                              *)
(***************************************************************************)
THEOREM MultihomedAreHeard ==
    ASSUME WellRanked, ProvidersAbove
    PROVE  Spec => []MultihomedHeard
<1> DEFINE Inv == Heard /\ DownSwept /\ ProvidersTold
<1>1. Init => Inv
  BY HeardAtFirst DEF Init, DownSwept, NothingUnprocessed, ProvidersTold
<1>2. Inv /\ [Next]_vars => Inv'
  BY HeardStep, DownSweptStep, ProvidersToldStep DEF Heard
<1>3. Inv => MultihomedHeard
  <2> SUFFICES ASSUME Inv, sweep = "done", options.mh_mode \in {0, 1}, NEW a \in Ranked,
                      SendsUp(a), topo.providers[a] # {}
               PROVE  \E p \in topo.providers[a] : all_anns[p] # NoAnn
    BY DEF MultihomedHeard, SendsUp
  <2>1. a \in ASes /\ topo.providers[a] \subseteq ASes
    BY DEF Ranked, Heard, TypeOK, Topology
  <2>2. \E p \in topo.providers[a] : Hears(p)
    BY <2>1 DEF ProvidersTold, HasTold
  <2>3. QED
    BY <2>1, <2>2 DEF DownSwept, NothingUnprocessed, Hears
<1> HIDE DEF Inv
<1>4. QED
  BY <1>1, <1>2, <1>3, PTL DEF Spec

-----------------------------------------------------------------------------
(***************************************************************************)
(* The traceback.  A seed says what the AS before it on the row's path is  *)
(* to its AS, or that the row began here.                                  *)
(***************************************************************************)
SeedsHonest ==
    \A a \in ASes : Seeded(a) =>
        LET ann == all_anns[a]
            b   == ann.received_from_asn
        IN  \/ ann.relationship = AS_REL_PROVIDER /\ b \in topo.providers[a]
            \/ ann.relationship = AS_REL_PEER     /\ b \in topo.peers[a]
            \/ ann.relationship = AS_REL_CUSTOMER /\ b \in topo.customers[a]
            \/ ann.relationship = AS_REL_ORIGIN   /\ b = ann.origin

\* A new seed is honest: on a broken path the code puts none.
LEMMA NewSeedHonest ==
    ASSUME TypeOK, SeedHop
    PROVE  LET ann == Seed(OnPath)
               b   == ann.received_from_asn
           IN  \/ ann.relationship = AS_REL_PROVIDER /\ b \in topo.providers[OnPath]
               \/ ann.relationship = AS_REL_PEER     /\ b \in topo.peers[OnPath]
               \/ ann.relationship = AS_REL_CUSTOMER /\ b \in topo.customers[OnPath]
               \/ ann.relationship = AS_REL_ORIGIN   /\ b = ann.origin
<1>1. row # NoRow /\ row \in Rows /\ hop \in Nat
  BY DEF SeedHop, Walking, TypeOK
<1>2. hop = 1 => OnPath = Origin(row)
  <2>1. Len(row.path) \in Nat
    BY <1>1, RowType
  <2>2. Len(row.path) - 1 + 1 = Len(row.path)
    BY <2>1
  <2>3. QED
    BY <2>2 DEF OnPath, Origin
<1>3. CASE hop = 1
  BY <1>2, <1>3 DEF Seed, ReceivedFrom
<1>4. CASE hop # 1
  <2>1. hop > 1
    BY <1>1, <1>4 DEF SeedHop, Walking, TypeOK
  <2>2. ReceivedFrom(OnPath) # AS_REL_ORIGIN
    BY <2>1 DEF SeedHop, BrokenPath
  <2>3. /\ Seed(OnPath).relationship = ReceivedFrom(OnPath)
        /\ Seed(OnPath).received_from_asn = Before
    BY <1>4 DEF Seed
  <2>4. QED
    BY <1>4, <2>2, <2>3 DEF ReceivedFrom
<1>5. QED
  BY <1>3, <1>4

\* Seeds stay honest: only SeedHop puts one into a slot.
LEMMA SeedsHonestStep ==
    ASSUME Heard, HeardIsCurrent, SeedsHonest, [Next]_vars
    PROVE  SeedsHonest'
<1>1. TypeOK /\ all_anns \in [ASes -> Slot] /\ topo' = topo
  BY SameTopology DEF Heard, TypeOK
<1>2. CASE SeedHop
  <2>1. ASSUME NEW a \in ASes, Seeded(a)', a # OnPath
        PROVE  Seeded(a) /\ all_anns'[a] = all_anns[a]
    BY <1>1, <1>2, <2>1 DEF SeedHop, Seeded
  <2>2. OnPath \in ASes /\ all_anns'[OnPath] = Seed(OnPath)
    BY <1>1, <1>2 DEF SeedHop
  <2>3. QED
    BY <1>1, <1>2, <2>1, <2>2, NewSeedHonest DEF SeedsHonest
<1>3. ASSUME NEW a \in ASes, process_announcements(a) PROVE SeedsHonest'
  <2> DEFINE ann == Head(incoming_announcements[a])
  <2>1. ann.from_monitor = FALSE
    <3>1. ann \in FromNeighbours(a)
      BY <1>1, <1>3, ProcessQueues DEF FromNeighbours
    <3>2. /\ ann.received_from_asn \in ASes /\ all_anns[ann.received_from_asn] # NoAnn
          /\ ann = Export(all_anns[ann.received_from_asn], ann.relationship,
                          ann.received_from_asn)
      BY <3>1 DEF HeardIsCurrent, Heard, RelationshipHonest
    <3>3. all_anns[ann.received_from_asn] \in Announcement
      BY <1>1, <3>2 DEF Slot
    <3>4. \A s \in Announcement : \A rel, b : Export(s, rel, b).from_monitor = FALSE
      BY DEF Export, Announcement, PlainAnnouncement, EZAnnouncement
    <3>5. Export(all_anns[ann.received_from_asn], ann.relationship,
                 ann.received_from_asn).from_monitor = FALSE
      BY <3>3, <3>4
    <3> HIDE DEF ann
    <3>6. QED
      BY <3>2, <3>5, Zenon
  <2>2. \A x \in ASes : all_anns'[x] \in {all_anns[x], ann}
    BY <1>1, <1>3 DEF process_announcements, BestAfter
  <2>3. \A x \in ASes : Seeded(x)' => Seeded(x) /\ all_anns'[x] = all_anns[x]
    BY <2>1, <2>2 DEF Seeded
  <2>4. QED
    BY <1>1, <2>3 DEF SeedsHonest
<1>4. CASE BreakHop
  <2>1. ASSUME NEW a \in ASes, Seeded(a)'
        PROVE  Seeded(a) /\ all_anns'[a] = all_anns[a]
    BY <1>1, <1>4, <2>1 DEF BreakHop, Seeded
  <2>2. QED
    BY <1>1, <2>1 DEF SeedsHonest
<1>5. CASE clear_announcements
  BY <1>5 DEF clear_announcements, SeedsHonest, Seeded
<1>6. CASE all_anns' = all_anns
  BY <1>1, <1>6 DEF SeedsHonest, Seeded
<1>7. QED
  BY <1>2, <1>3, <1>4, <1>5, <1>6 DEF Next, SelectRow, PassHop, EndRow, propagate_up,
     propagate_down, EndBlock, StartSweep, send_all_announcements, vars

(***************************************************************************)
(* What brings the walk nearer to an origin, in this order: from learned   *)
(* routes to seeds, to older ones, from providers' routes over peers' to   *)
(* customers', up in the ranks while they are providers' and down after.   *)
(***************************************************************************)
Stage(x)  == IF all_anns[x].from_monitor THEN 1 ELSE 0
Leg(x)    == IF all_anns[x].relationship < AS_REL_CUSTOMER
             THEN all_anns[x].relationship ELSE AS_REL_CUSTOMER
Height(x) == IF all_anns[x].relationship < AS_REL_CUSTOMER
             THEN topo.rank[x] ELSE 0 - topo.rank[x]

LaterLeg(x, y) == \/ Leg(x) < Leg(y)
                  \/ Leg(x) = Leg(y) /\ Height(x) < Height(y)

Nearer(x, y) ==
    \/ Stage(x) < Stage(y)
    \/ /\ Stage(x) = Stage(y)
       /\ \/ all_anns[y].tstamp < all_anns[x].tstamp
          \/ all_anns[y].tstamp = all_anns[x].tstamp /\ LaterLeg(x, y)

HasRoute == {x \in ASes : all_anns[x] # NoAnn}

\* Nearer is a strict order, so a walk that follows it meets no AS twice.
LEMMA NearerOrders ==
    ASSUME TypeOK, NEW x \in HasRoute
    PROVE  /\ ~ Nearer(x, x)
           /\ \A y, z \in HasRoute : Nearer(x, y) /\ Nearer(y, z) => Nearer(x, z)
<1>1. \A y \in HasRoute : /\ all_anns[y].tstamp \in Int
                          /\ Stage(y) \in Int /\ Leg(y) \in Int /\ Height(y) \in Int
  <2> SUFFICES ASSUME NEW y \in HasRoute
               PROVE  /\ all_anns[y].tstamp \in Int
                      /\ Stage(y) \in Int /\ Leg(y) \in Int /\ Height(y) \in Int
    OBVIOUS
  <2>1. all_anns[y] \in Announcement /\ topo.rank[y] \in Int
    BY DEF HasRoute, TypeOK, Slot, Topology
  <2>2. all_anns[y].tstamp \in Int /\ all_anns[y].relationship \in Int
    BY <2>1, FieldTypes
  <2>3. QED
    BY <2>1, <2>2 DEF Stage, Leg, Height, AS_REL_CUSTOMER
<1>2. QED
  BY <1>1 DEF Nearer, LaterLeg

\* A learned route leads to its sender, whose route it is, and nearer.
LEMMA SenderIsNearer ==
    ASSUME WellRanked, ProvidersAbove, Heard, HeardIsCurrent, NEW x \in ASes, Learned(x)
    PROVE  LET ann == all_anns[x]
               y   == ann.received_from_asn
           IN  /\ y \in HasRoute /\ Nearer(x, y)
               /\ ann = Export(all_anns[y], ann.relationship, y)
               /\ x \in topo.providers[y] \union topo.peers[y] \union topo.customers[y]
<1> DEFINE ann == all_anns[x]
           y   == ann.received_from_asn
           next == all_anns[y]
<1>1. ann \in FromNeighbours(x) /\ ann # NoAnn /\ ~ ann.from_monitor
  BY DEF FromNeighbours, Learned
<1>2. ann \in Announcement /\ ann.relationship \in 0..3 /\ ann.tstamp \in Nat
  BY <1>1, FieldTypes DEF Heard, TypeOK, Slot
<1>3. /\ y \in ASes /\ ann.relationship # AS_REL_ORIGIN
      /\ ann.relationship = AS_REL_CUSTOMER => x \in topo.providers[y]
      /\ ann.relationship = AS_REL_PEER     => x \in topo.peers[y]
      /\ ann.relationship = AS_REL_PROVIDER => x \in topo.customers[y]
  BY <1>1 DEF Heard, RelationshipHonest
<1>4. /\ topo \in Topologies /\ topo.rank[x] \in Int /\ topo.rank[y] \in Int
      /\ x \in topo.customers[y] => topo.rank[x] < topo.rank[y]
      /\ x \in topo.providers[y] => topo.rank[y] < topo.rank[x]
  BY <1>3 DEF Heard, UpSwept, TypeOK, Topology, WellRanked, ProvidersAbove
<1>5. next # NoAnn /\ ann = Export(next, ann.relationship, y)
  BY <1>1 DEF HeardIsCurrent
<1>6. next \in Announcement /\ next.relationship \in 0..3 /\ next.tstamp \in Nat
  BY <1>3, <1>5, FieldTypes DEF Heard, TypeOK, Slot
<1>7. ann.tstamp = next.tstamp
  BY <1>5, <1>6 DEF Export, Announcement, PlainAnnouncement, EZAnnouncement
<1>8. ann.relationship >= AS_REL_PEER => next.relationship >= AS_REL_CUSTOMER
  BY <1>1 DEF Heard, ValleyFree
<1>9. LaterLeg(x, y)
  BY <1>2, <1>3, <1>4, <1>6, <1>8 DEF LaterLeg, Leg, Height, AS_REL_PROVIDER,
     AS_REL_PEER, AS_REL_CUSTOMER, AS_REL_ORIGIN
<1>10. Stage(x) = 0 /\ Stage(y) \in {0, 1}
  BY <1>1 DEF Stage
<1>11. Nearer(x, y) /\ y \in HasRoute
  BY <1>3, <1>5, <1>7, <1>9, <1>10 DEF Nearer, HasRoute
<1>12. ann.relationship \in {AS_REL_PROVIDER, AS_REL_PEER, AS_REL_CUSTOMER}
  BY <1>2, <1>3 DEF AS_REL_PROVIDER, AS_REL_PEER, AS_REL_CUSTOMER, AS_REL_ORIGIN
<1>13. QED
  BY <1>3, <1>5, <1>11, <1>12

\* A turn of the walk that does not end it leads to a route, and nearer.
LEMMA NextIsNearer ==
    ASSUME WellRanked, ProvidersAbove, Heard, HeardIsCurrent, SeedsHonest, SeedsFit,
           NEW x \in HasRoute,
           all_anns[x].received_from_asn \in ASes \ {all_anns[x].origin}
    PROVE  /\ all_anns[x].received_from_asn \in HasRoute
           /\ Nearer(x, all_anns[x].received_from_asn)
<1> DEFINE ann == all_anns[x]
           y   == ann.received_from_asn
           next == all_anns[y]
<1>1. x \in ASes /\ y \in ASes /\ y # ann.origin
  BY DEF HasRoute
<1>2. ann \in Announcement /\ ann.relationship \in 0..3 /\ ann.tstamp \in Nat
  BY FieldTypes DEF HasRoute, Heard, TypeOK, Slot
<1>3. /\ topo \in Topologies /\ topo.rank[x] \in Int /\ topo.rank[y] \in Int
      /\ y \in topo.customers[x] => topo.rank[y] < topo.rank[x]
      /\ x \in topo.customers[y] => topo.rank[x] < topo.rank[y]
      /\ y \in topo.providers[x] => topo.rank[x] < topo.rank[y]
      /\ x \in topo.providers[y] => topo.rank[y] < topo.rank[x]
  BY <1>1 DEF Heard, UpSwept, TypeOK, Topology, WellRanked, ProvidersAbove
<1>4. CASE ann.from_monitor
  <2>1. Seeded(x)
    BY <1>1, <1>4 DEF Seeded, HasRoute
  <2>2. Seeded(y) /\ next # NoAnn /\ next.from_monitor
    BY <1>1, <2>1 DEF SeedsFit, Seeded
  <2>3. next \in Announcement /\ next.relationship \in 0..3 /\ next.tstamp \in Nat
    BY <1>1, <2>2, FieldTypes DEF Heard, TypeOK, Slot
  <2>4. \/ next.tstamp < ann.tstamp
        \/ /\ next.tstamp = ann.tstamp
           /\ \/ ann.relationship = AS_REL_PROVIDER
              \/ next.relationship >= AS_REL_CUSTOMER
    BY <1>1, <2>1 DEF SeedsFit
  <2>5. /\ ann.relationship # AS_REL_ORIGIN
        /\ ann.relationship = AS_REL_PROVIDER => topo.rank[x] < topo.rank[y]
        /\ ann.relationship = AS_REL_CUSTOMER => topo.rank[y] < topo.rank[x]
    BY <1>1, <1>3, <2>1 DEF SeedsHonest, AS_REL_PROVIDER, AS_REL_PEER, AS_REL_CUSTOMER, AS_REL_ORIGIN
  <2>6. Stage(x) = 1 /\ Stage(y) = 1
    BY <1>4, <2>2 DEF Stage
  <2>7. next.tstamp = ann.tstamp => LaterLeg(x, y)
    BY <1>2, <1>3, <2>3, <2>4, <2>5 DEF LaterLeg, Leg, Height, AS_REL_PROVIDER,
       AS_REL_PEER, AS_REL_CUSTOMER, AS_REL_ORIGIN
  <2>8. QED
    BY <1>1, <1>2, <2>2, <2>3, <2>4, <2>6, <2>7 DEF Nearer, HasRoute
<1>5. CASE ~ ann.from_monitor
  BY <1>1, <1>5, SenderIsNearer DEF Learned, HasRoute
<1>6. QED
  BY <1>4, <1>5

-----------------------------------------------------------------------------
(***************************************************************************)
(* The walk, turn by turn.                                                 *)
(***************************************************************************)
\* Every nonempty set of natural numbers has a least element.
LEMMA LeastExists ==
    ASSUME NEW S \in SUBSET Nat, S # {}
    PROVE  \E x \in S : \A y \in S : x <= y
<1>1. PICK x \in S : \A y \in S : <<y, x>> \notin OpToRel(<, Nat)
  BY NatLessThanWellFounded, WFMin
<1>2. ASSUME NEW y \in S
      PROVE  x <= y
  <2>1. x \in Nat /\ y \in Nat /\ <<y, x>> \notin OpToRel(<, Nat)
    BY <1>1
  <2>2. QED
    BY <2>1 DEF OpToRel
<1>3. QED
  BY <1>2

TraceStart(a) == [ann |-> all_anns[a], as_path |-> <<>>, end |-> "none"]
Turns(a, n, f) ==
    f = [k \in 0..n |-> IF k = 0 THEN TraceStart(a) ELSE TraceStep(f[k - 1])]

\* There is such a walk of any length: the definition of TraceFrom is sound.
LEMMA TurnsExist ==
    ASSUME NEW a, NEW n \in Nat
    PROVE  \E f : Turns(a, n, f)
<1> DEFINE Without == {m \in Nat : ~ \E f : Turns(a, m, f)}
<1>1. SUFFICES ASSUME Without # {}
               PROVE  FALSE
  OBVIOUS
<1>2. PICK m \in Without : \A l \in Without : m <= l
  BY <1>1, LeastExists
<1>3. CASE m = 0
  <2> DEFINE f == [k \in 0..0 |-> TraceStart(a)]
  <2>1. f = [k \in 0..0 |-> IF k = 0 THEN TraceStart(a) ELSE TraceStep(f[k - 1])]
    OBVIOUS
  <2>2. Turns(a, m, f)
    BY <1>3, <2>1 DEF Turns
  <2>3. QED
    BY <2>2
<1>4. CASE m # 0
  <2>1. m \in Nat /\ m - 1 \in Nat /\ m - 1 \notin Without
    BY <1>2, <1>4
  <2>2. PICK g : Turns(a, m - 1, g)
    BY <2>1
  <2>3. /\ g[0] = TraceStart(a)
        /\ \A k \in 1..(m - 1) : g[k] = TraceStep(g[k - 1])
    BY <2>1, <2>2 DEF Turns
  <2> DEFINE f == [k \in 0..m |-> IF k = m THEN TraceStep(g[m - 1]) ELSE g[k]]
  <2>4. /\ f[0] = TraceStart(a)
        /\ f[m - 1] = g[m - 1]
        /\ \A k \in 1..m : f[k] = TraceStep(f[k - 1])
    <3>1. f[0] = TraceStart(a)
      BY <1>4, <2>1, <2>3
    <3>2. \A k \in 0..(m - 1) : f[k] = g[k]
      BY <2>1
    <3>3. f[m] = TraceStep(f[m - 1])
      BY <2>1, <3>2
    <3>4. ASSUME NEW k \in 1..(m - 1)
          PROVE  f[k] = TraceStep(f[k - 1])
      <4>1. k \in 0..(m - 1) /\ k - 1 \in 0..(m - 1)
        BY <2>1
      <4>2. f[k] = g[k] /\ f[k - 1] = g[k - 1]
        BY <3>2, <4>1
      <4>3. QED
        BY <2>3, <4>2
    <3>5. \A k \in 1..m : k = m \/ k \in 1..(m - 1)
      BY <2>1
    <3>6. m - 1 \in 0..(m - 1)
      BY <2>1
    <3> HIDE DEF f
    <3>7. QED
      BY <3>1, <3>2, <3>3, <3>4, <3>5, <3>6
  <2>5. /\ f = [k \in 0..m |-> f[k]]
        /\ \A k \in 0..m : k = 0 \/ k \in 1..m
    BY <2>1
  <2> HIDE DEF f
  <2>6. Turns(a, m, f)
    <3>1. \A k \in 0..m : f[k] = IF k = 0 THEN TraceStart(a) ELSE TraceStep(f[k - 1])
      BY <2>4, <2>5
    <3>2. QED
      BY <2>5, <3>1 DEF Turns
  <2>7. QED
    BY <2>6
<1>5. QED
  BY <1>3, <1>4

\* Each turn of the walk is one TraceStep from the turn before.
LEMMA TraceTurns ==
    ASSUME NEW a, Cardinality(ASes) \in Nat
    PROVE  /\ TraceFrom(a)[0] = TraceStart(a)
           /\ \A k \in 1..(Cardinality(ASes) + 1) :
                 TraceFrom(a)[k] = TraceStep(TraceFrom(a)[k - 1])
<1> DEFINE last == Cardinality(ASes) + 1
<1>1. last \in Nat
  OBVIOUS
<1>5. \E f : Turns(a, last, f)
  BY <1>1, TurnsExist
<1>2. TraceFrom(a) = CHOOSE f : Turns(a, last, f)
  BY DEF TraceFrom, Turns, TraceStart
<1>3. Turns(a, last, TraceFrom(a))
  BY <1>5, <1>2
<1>4. QED
  BY <1>3 DEF Turns

\* The walk so far: every AS printed is nearer than those before it, and the
\* last one's route is the one to be followed.
OnTheWay(t, k) ==
    /\ t \in [ann : Announcement, as_path : Seq(HasRoute), end : {"none", "origin"}]
    /\ t.end = "none" =>
          /\ Len(t.as_path) = k
          /\ \A i, j \in 1..k : i < j => Nearer(t.as_path[i], t.as_path[j])
          /\ \E x \in HasRoute :
                /\ t.ann = all_anns[x]
                /\ \A i \in 1..k : t.as_path[i] = x \/ Nearer(t.as_path[i], x)

\* A turn prints an AS that is nearer than all printed before, or ends the walk.
LEMMA TurnOnTheWay ==
    ASSUME WellRanked, ProvidersAbove, Heard, HeardIsCurrent, SeedsHonest, SeedsFit,
           NEW t, NEW k \in Nat, OnTheWay(t, k)
    PROVE  OnTheWay(TraceStep(t), k + 1)
<1> DEFINE b == t.ann.received_from_asn
<1>1. t \in [ann : Announcement, as_path : Seq(HasRoute), end : {"none", "origin"}]
  BY DEF OnTheWay
<1>2. CASE t.end # "none"
  <2>1. TraceStep(t) = t
    BY <1>2 DEF TraceStep
  <2>2. QED
    BY <1>1, <1>2, <2>1 DEF OnTheWay
<1>3. CASE t.end = "none" /\ (t.ann.origin = b \/ b \notin ASes)
  <2>1. TraceStep(t) = [t EXCEPT !.end = "origin"]
    BY <1>3 DEF TraceStep
  <2>2. /\ TraceStep(t) \in [ann : Announcement, as_path : Seq(HasRoute),
                             end : {"none", "origin"}]
        /\ TraceStep(t).end = "origin"
    BY <1>1, <2>1
  <2>3. QED
    BY <2>2 DEF OnTheWay
<1>4. CASE t.end = "none" /\ t.ann.origin # b /\ b \in ASes
  <2> DEFINE path == t.as_path
  <2>1. /\ path \in Seq(HasRoute) /\ Len(path) = k /\ DOMAIN path = 1..k
        /\ \A i, j \in 1..k : i < j => Nearer(path[i], path[j])
        /\ \A i \in 1..k : path[i] \in HasRoute
    BY <1>1, <1>4 DEF OnTheWay
  <2>2. PICK x \in HasRoute :
            /\ t.ann = all_anns[x]
            /\ \A i \in 1..k : path[i] = x \/ Nearer(path[i], x)
    BY <1>4 DEF OnTheWay
  <2>3. b \in HasRoute /\ Nearer(x, b)
    BY <1>4, <2>2, NextIsNearer
  <2>4. TypeOK
    BY DEF Heard
  <2>5. \A i \in 1..k : Nearer(path[i], b)
    BY <2>1, <2>2, <2>3, <2>4, NearerOrders
  <2>6. \A i \in 1..k : path[i] # b
    BY <2>3, <2>4, <2>5, NearerOrders
  <2>7. all_anns[b] # NoAnn /\ all_anns[b] \in Announcement
    BY <2>3, <2>4 DEF HasRoute, TypeOK, Slot
  <2>8. TraceStep(t) = [t EXCEPT !.as_path = Append(path, b), !.ann = all_anns[b]]
    BY <1>4, <2>1, <2>6, <2>7 DEF TraceStep
  <2>9. /\ TraceStep(t) \in [ann : Announcement, as_path : Seq(HasRoute),
                             end : {"none", "origin"}]
        /\ TraceStep(t).end = "none"
        /\ TraceStep(t).ann = all_anns[b]
        /\ TraceStep(t).as_path = Append(path, b)
    <3>1. Append(path, b) \in Seq(HasRoute)
      BY <2>1, <2>3
    <3>2. \A r \in [ann : Announcement, as_path : Seq(HasRoute), end : {"none", "origin"}] :
             \A p \in Seq(HasRoute) : \A n \in Announcement :
                 LET s == [r EXCEPT !.as_path = p, !.ann = n]
                 IN  /\ s \in [ann : Announcement, as_path : Seq(HasRoute),
                               end : {"none", "origin"}]
                     /\ s.end = r.end /\ s.ann = n /\ s.as_path = p
      OBVIOUS
    <3> DEFINE s == [t EXCEPT !.as_path = Append(path, b), !.ann = all_anns[b]]
    <3>3. /\ s \in [ann : Announcement, as_path : Seq(HasRoute), end : {"none", "origin"}]
          /\ s.end = t.end /\ s.ann = all_anns[b] /\ s.as_path = Append(path, b)
      BY <1>1, <2>7, <3>1, <3>2, Zenon
    <3>4. QED
      BY <1>4, <2>8, <3>3, Zenon
  <2> DEFINE longer == Append(path, b)
  <2>10. /\ Len(longer) = k + 1
         /\ longer[k + 1] = b
         /\ \A i \in 1..k : longer[i] = path[i]
         /\ \A i \in 1..(k + 1) : i = k + 1 \/ i \in 1..k
    BY <2>1
  <2> HIDE DEF longer
  <2>11. \A i \in 1..(k + 1) : longer[i] = b \/ Nearer(longer[i], b)
    BY <2>5, <2>10
  <2>12. ASSUME NEW i \in 1..(k + 1), NEW j \in 1..(k + 1), i < j
         PROVE  Nearer(longer[i], longer[j])
    <3>1. i \in 1..k
      BY <2>12
    <3>2. CASE j = k + 1
      BY <2>5, <2>10, <3>1, <3>2
    <3>3. CASE j # k + 1
      BY <2>1, <2>10, <2>12, <3>1, <3>3
    <3>4. QED
      BY <3>2, <3>3
  <2>13. QED
    BY <2>3, <2>9, <2>10, <2>11, <2>12 DEF longer, OnTheWay
<1>5. QED
  BY <1>1, <1>2, <1>3, <1>4

\* However many turns it has had, the walk is on its way to an origin.
LEMMA AlwaysOnTheWay ==
    ASSUME WellRanked, ProvidersAbove, Heard, HeardIsCurrent, SeedsHonest, SeedsFit,
           NEW a \in HasRoute, Cardinality(ASes) \in Nat
    PROVE  \A k \in 0..(Cardinality(ASes) + 1) : OnTheWay(TraceFrom(a)[k], k)
<1> DEFINE last == Cardinality(ASes) + 1
           Lost == {k \in 0..last : ~ OnTheWay(TraceFrom(a)[k], k)}
<1>1. SUFFICES ASSUME Lost # {}
               PROVE  FALSE
  OBVIOUS
<1>2. Lost \in SUBSET Nat
  OBVIOUS
<1>3. PICK k \in Lost : \A l \in Lost : k <= l
  BY <1>1, <1>2, LeastExists
<1>4. k # 0
  <2>1. all_anns[a] \in Announcement
    BY DEF HasRoute, Heard, TypeOK, Slot
  <2>2. TraceStart(a) \in [ann : Announcement, as_path : Seq(HasRoute),
                           end : {"none", "origin"}]
    BY <2>1 DEF TraceStart
  <2>3. OnTheWay(TraceStart(a), 0)
    BY <2>2 DEF OnTheWay, TraceStart
  <2>4. OnTheWay(TraceFrom(a)[0], 0)
    BY <2>3, TraceTurns
  <2>5. QED
    BY <1>3, <2>4
<1>5. k - 1 \in Nat /\ k \in 1..last /\ k - 1 \in 0..last /\ ~ (k <= k - 1)
  BY <1>3, <1>4
<1>6. OnTheWay(TraceFrom(a)[k - 1], k - 1)
  BY <1>3, <1>5
<1>7. TraceFrom(a)[k] = TraceStep(TraceFrom(a)[k - 1])
  BY <1>5, TraceTurns
<1>8. (k - 1) + 1 = k
  BY <1>5
<1>9. OnTheWay(TraceFrom(a)[k], k)
  BY <1>5, <1>6, <1>7, <1>8, TurnOnTheWay
<1>10. QED
  BY <1>3, <1>9

\* A walk that is still on its way has printed no AS twice, so not for long.
LEMMA WalkEnds ==
    ASSUME TypeOK, NEW t, OnTheWay(t, Cardinality(ASes) + 1), Cardinality(ASes) \in Nat
    PROVE  t.end = "origin"
<1> DEFINE k == Cardinality(ASes) + 1
<1>1. SUFFICES ASSUME t.end = "none"
               PROVE  FALSE
  BY DEF OnTheWay
<1>2. /\ t.as_path \in Seq(HasRoute) /\ Len(t.as_path) = k
      /\ \A i, j \in 1..k : i < j => Nearer(t.as_path[i], t.as_path[j])
  BY <1>1 DEF OnTheWay
<1>3. k \in Nat
  OBVIOUS
<1>4. HasRoute \subseteq ASes
  BY DEF HasRoute
<1>5. \A i \in 1..k : t.as_path[i] \in HasRoute
  BY <1>2, <1>3
<1>6. t.as_path \in [1..k -> ASes]
  BY <1>2, <1>3, <1>4, <1>5
<1>7. ASSUME NEW i \in 1..k, NEW j \in 1..k, t.as_path[i] = t.as_path[j]
      PROVE  i = j
  <2>1. t.as_path[i] \in HasRoute /\ t.as_path[j] \in HasRoute
    BY <1>5
  <2>2. ~ Nearer(t.as_path[i], t.as_path[j]) /\ ~ Nearer(t.as_path[j], t.as_path[i])
    BY <1>7, <2>1, NearerOrders
  <2>3. ~ (i < j) /\ ~ (j < i)
    BY <1>2, <2>2
  <2>4. QED
    BY <1>3, <2>3
<1>8. t.as_path \in Injection(1..k, ASes)
  BY <1>6, <1>7 DEF Injection, IsInjective
<1>9. IsFiniteSet(ASes)
  BY PropagationAssumption
<1>10. Cardinality(1..k) <= Cardinality(ASes)
  BY <1>8, <1>9, FS_Injection
<1>11. Cardinality(1..k) = k
  BY <1>3, FS_Interval
<1>12. QED
  BY <1>3, <1>10, <1>11

(***************************************************************************)
(* The printed path is one: in every ranked graph, whatever was seeded, as *)
(* long as the seeds fit together, the walk of stream_as_path comes to its *)
(* end within as many turns as there are ASes and one.                     *)
(***************************************************************************)
THEOREM PathsAreTraced ==
    ASSUME WellRanked, ProvidersAbove
    PROVE  Spec => []PathsTraced
<1> DEFINE Inv == Heard /\ HeardIsCurrent /\ SeedsHonest
<1>1. Init => Inv
  BY HeardAtFirst DEF Init, HeardIsCurrent, SeedsHonest, FromNeighbours, Queued, Learned, Seeded
<1>2. Inv /\ [Next]_vars => Inv'
  BY HeardStep, HeardIsCurrentStep, SeedsHonestStep
<1>3. Inv => PathsTraced
  <2> SUFFICES ASSUME Inv, SeedsFit, NEW a \in ASes, all_anns[a] # NoAnn
               PROVE  stream_as_path(a).end = "origin"
    BY DEF PathsTraced
  <2> DEFINE last == Cardinality(ASes) + 1
  <2>1. Cardinality(ASes) \in Nat
    BY PropagationAssumption, FS_CardinalityType
  <2>2. a \in HasRoute /\ last \in 0..last
    BY <2>1 DEF HasRoute
  <2>3. OnTheWay(TraceFrom(a)[last], last)
    BY <2>1, <2>2, AlwaysOnTheWay
  <2>4. QED
    BY <2>1, <2>3, WalkEnds DEF stream_as_path, Heard
<1> HIDE DEF Inv
<1>4. QED
  BY <1>1, <1>2, <1>3, PTL DEF Spec

-----------------------------------------------------------------------------
(***************************************************************************)
(* The three sweeps implement GaoRexford: they compute a stable routing    *)
(* from the seeds, in every graph that is ranked as decide_ranks ranks one *)
(* without cycles, for all rows and any number of ASes.                    *)
(***************************************************************************)
Premises == WellRanked /\ MutualNeighbours

-----------------------------------------------------------------------------
(***************************************************************************)
(* What multihomed ASes hold back.  The automatic mode asks providers that *)
(* have not had their turn, so all it learns of are seeds.                 *)
(***************************************************************************)
\* What an AS holds back from its providers and from its peers, by the seeds.
HeldAbove(b) ==
    /\ Multihomed(b)
    /\ \/ options.mh_mode \in {2, 3}
       \/ options.mh_mode = 1 /\ \E p \in topo.providers[b] :
                                    Seeded(p) /\ all_anns[p].origin = all_anns[b].origin

HeldBeside(b) == Multihomed(b) /\ options.mh_mode = 2

\* Going up, an AS has no route but its seed before its turn.
SeedsOnly ==
    sweep = "up" =>
        \A p \in pending : all_anns[p] = NoAnn \/ Seeded(p) \/ Current(p)

\* Nobody hears what is held back.
HeldUnheard ==
    \A x \in ASes : \A ann \in FromNeighbours(x) :
        /\ ann.relationship = AS_REL_CUSTOMER => ~ HeldAbove(ann.received_from_asn)
        /\ ann.relationship = AS_REL_PEER => ~ HeldBeside(ann.received_from_asn)

HoldsBack == SeedsOnly /\ HeldUnheard

\* What is queued is no seed.
LEMMA QueuedIsNoSeed ==
    ASSUME Heard, HeardIsCurrent, NEW x \in ASes, NEW ann \in Queued(x)
    PROVE  ann.from_monitor = FALSE
<1>1. /\ ann.received_from_asn \in ASes /\ all_anns[ann.received_from_asn] # NoAnn
      /\ ann = Export(all_anns[ann.received_from_asn], ann.relationship,
                      ann.received_from_asn)
  BY DEF Heard, RelationshipHonest, HeardIsCurrent, FromNeighbours
<1>2. all_anns[ann.received_from_asn] \in Announcement
  BY <1>1 DEF Heard, TypeOK, Slot
<1>3. \A s \in Announcement : \A rel, b : Export(s, rel, b).from_monitor = FALSE
  BY DEF Export, Announcement, PlainAnnouncement, EZAnnouncement
<1>4. QED
  BY <1>1, <1>2, <1>3

\* Seeds stay in the sweeps, and nothing else becomes one.
LEMMA SeedsStay ==
    ASSUME Heard, HeardIsCurrent,
           NEW a \in ASes, process_announcements(a) \/ send_all_announcements(a),
           NEW p \in ASes
    PROVE  /\ Seeded(p) => all_anns'[p] = all_anns[p]
           /\ Seeded(p)' = Seeded(p)
<1>1. TypeOK
  BY DEF Heard
<1>2. CASE send_all_announcements(a)
  BY <1>2 DEF send_all_announcements, Seeded
<1>3. CASE process_announcements(a) /\ (p # a \/ Seeded(p))
  BY <1>1, <1>3 DEF process_announcements, TypeOK, Seeded
<1>4. CASE process_announcements(a) /\ p = a /\ ~ Seeded(a)
  <2>1. Head(incoming_announcements[a]).from_monitor = FALSE
    BY <1>1, <1>4, ProcessQueues, QueuedIsNoSeed
  <2>2. all_anns'[a] \in {all_anns[a], Head(incoming_announcements[a])}
    BY <1>1, <1>4 DEF process_announcements, BestAfter, TypeOK
  <2>3. QED
    BY <1>4, <2>1, <2>2 DEF Seeded
<1>5. QED
  BY <1>2, <1>3, <1>4

\* What an AS holds back does not change while it keeps its route.
LEMMA HeldStill ==
    ASSUME Heard, HeardIsCurrent,
           NEW a \in ASes, process_announcements(a) \/ send_all_announcements(a),
           NEW b \in ASes, all_anns'[b] = all_anns[b]
    PROVE  HeldAbove(b)' = HeldAbove(b) /\ HeldBeside(b)' = HeldBeside(b)
<1>1. topo' = topo /\ options' = options /\ topo.providers[b] \subseteq ASes
  BY DEF process_announcements, send_all_announcements, Heard, TypeOK, Topology
<1>2. \A p \in topo.providers[b] :
          (Seeded(p) /\ all_anns[p].origin = all_anns[b].origin)'
              = (Seeded(p) /\ all_anns[p].origin = all_anns[b].origin)
  BY <1>1, SeedsStay
<1>3. QED
  BY <1>1, <1>2 DEF HeldAbove, HeldBeside, Multihomed

\* One AS has its turn at a time.
LEMMA OneTurn ==
    ASSUME TypeOK, NEW a \in ASes, Current(a), NEW p \in ASes, Current(p)
    PROVE  p = a
<1>1. topo.rank[a] \in Int /\ topo.rank[p] \in Int /\ a \in Int /\ p \in Int
  BY PropagationAssumption, AnnouncementsAssumption DEF TypeOK, Topology
<1>2. QED
  BY <1>1 DEF Current

\* What send_all_announcements holds back is what the seeds say.
LEMMA HeldByTurn ==
    ASSUME ProvidersAbove, Heard, SeedsOnly, NEW a \in ASes, send_all_announcements(a)
    PROVE  /\ sweep = "up" => HeldBack(a) = HeldAbove(a)
           /\ sweep # "up" => HeldBack(a) = HeldBeside(a)
<1>1. Current(a) /\ a \in pending /\ TypeOK
  BY DEF send_all_announcements, Current, Heard
<1>2. ASSUME sweep = "up", NEW p \in topo.providers[a]
      PROVE  all_anns[p] # NoAnn <=> Seeded(p)
  <2>1. /\ p \in ASes /\ topo.rank[a] \in Int /\ topo.rank[p] \in Int
        /\ topo.rank[a] < topo.rank[p]
    BY <1>1 DEF TypeOK, Topology, ProvidersAbove, Heard, UpSwept
  <2>2. p # a /\ p \in pending
    BY <1>1, <1>2, <2>1 DEF Heard, UpSwept
  <2>3. ~ Current(p)
    BY <1>1, <2>1, <2>2, OneTurn
  <2>4. QED
    BY <1>2, <2>2, <2>3 DEF SeedsOnly, Seeded
<1>3. sweep = "up" => HeldBack(a) = HeldAbove(a)
  BY <1>2 DEF HeldBack, KnownUpstream, HeldAbove
<1>4. QED
  BY <1>3 DEF HeldBack, HeldBeside

LEMMA SeedsOnlyStep ==
    ASSUME Heard, HeardIsCurrent, SeedsOnly, [Next]_vars
    PROVE  SeedsOnly'
<1>1. TypeOK /\ Phases /\ topo' = topo /\ pending \subseteq ASes
  BY SameTopology DEF Heard, TypeOK
<1>2. CASE sweep' # "up"
  BY <1>2 DEF SeedsOnly
<1>3. CASE sweep = "seed" /\ sweep' = "up"
  <2>1. all_anns' = all_anns /\ pending' \subseteq ASes
    BY <1>1, <1>3, TypeStep DEF Next, Phases, SelectRow, PassHop, SeedHop, BreakHop, Walking,
           EndRow, propagate_up, propagate_down, EndBlock, StartSweep, clear_announcements,
           process_announcements, send_all_announcements, vars, Current, TypeOK
  <2>2. QED
    BY <1>1, <1>3, <2>1 DEF Phases, SeedsOnly, Seeded
<1>4. ASSUME NEW a \in ASes, process_announcements(a) PROVE SeedsOnly'
  <2>1. /\ sweep' = sweep /\ pending' = pending /\ Current(a)
        /\ \A p \in ASes : p # a => all_anns'[p] = all_anns[p]
    BY <1>1, <1>4 DEF process_announcements, TypeOK
  <2>2. \A p \in ASes : Current(p)' = Current(p)
    BY <1>1, <2>1 DEF Current
  <2>3. QED
    BY <1>1, <2>1, <2>2 DEF SeedsOnly, Seeded
<1>5. ASSUME NEW a \in ASes, send_all_announcements(a) PROVE SeedsOnly'
  <2>1. /\ sweep' = sweep /\ pending' = pending \ {a} /\ Current(a) /\ all_anns' = all_anns
    BY <1>5 DEF send_all_announcements
  <2>2. QED
    BY <1>1, <2>1, OneTurn DEF SeedsOnly, Seeded
<1>6. CASE UNCHANGED <<sweep, pending, all_anns>>
  BY <1>1, <1>6 DEF SeedsOnly, Seeded, Current
<1>7. QED
  BY <1>1, <1>2, <1>3, <1>4, <1>5, <1>6 DEF Next, Phases, SelectRow, PassHop, SeedHop,
     BreakHop, Walking, EndRow, propagate_up, propagate_down, EndBlock, StartSweep,
     clear_announcements, vars

\* A neighbour that told something then does not hold it back now.
LEMMA HeldUnheardStep ==
    ASSUME ProvidersAbove, Heard, HeardIsCurrent, HoldsBack, [Next]_vars
    PROVE  HeldUnheard'
<1>1. TypeOK /\ Phases /\ Phases' /\ topo' = topo /\ options' = options
  BY PhasesStep, SameTopology DEF Heard
<1>2. CASE sweep' = "seed"
  <2>1. \A x \in ASes : FromNeighbours(x)' = {}
    BY <1>1, <1>2 DEF Phases, FromNeighbours, Queued, Learned
  <2>2. QED
    BY <2>1 DEF HeldUnheard
<1>3. ASSUME NEW a \in ASes, process_announcements(a) PROVE HeldUnheard'
  <2>1. SUFFICES ASSUME NEW x \in ASes, NEW ann \in FromNeighbours(x)'
                 PROVE  (/\ ann.relationship = AS_REL_CUSTOMER => ~ HeldAbove(ann.received_from_asn)
                         /\ ann.relationship = AS_REL_PEER => ~ HeldBeside(ann.received_from_asn))'
    BY DEF HeldUnheard
  <2>2. ann \in FromNeighbours(x) /\ ann.received_from_asn \in ASes
    BY <1>1, <1>3, ProcessSources DEF Heard, RelationshipHonest
  <2>3. all_anns'[ann.received_from_asn] = all_anns[ann.received_from_asn]
    BY <1>3, <2>2, SenderKeepsRoute
  <2>4. QED
    BY <1>3, <2>2, <2>3, HeldStill DEF HoldsBack, HeldUnheard
<1>4. ASSUME NEW a \in ASes, send_all_announcements(a) PROVE HeldUnheard'
  <2>1. \A b : HeldAbove(b)' = HeldAbove(b) /\ HeldBeside(b)' = HeldBeside(b)
    BY <1>1, <1>4 DEF send_all_announcements, HeldAbove, HeldBeside, Multihomed, Seeded
  <2>2. sweep \in {"up", "peers", "down"}
    BY <1>1, <1>4, Sweeping DEF send_all_announcements, TypeOK
  <2>3. ASSUME NEW x \in ASes, NEW ann, Sent(a, x, ann)
        PROVE  /\ ann.relationship = AS_REL_CUSTOMER => ~ HeldAbove(ann.received_from_asn)
               /\ ann.relationship = AS_REL_PEER => ~ HeldBeside(ann.received_from_asn)
    <3>1. /\ ann.relationship = SentAs /\ ann.received_from_asn = a
          /\ sweep # "down" => ~ HeldBack(a)
      BY <1>1, <2>3, SentFields
    <3>2. QED
      BY <1>4, <2>2, <3>1, HeldByTurn
         DEF HoldsBack, SentAs, AS_REL_CUSTOMER, AS_REL_PEER, AS_REL_PROVIDER
  <2>4. QED
    BY <1>1, <1>4, <2>1, <2>3, SendSources DEF HoldsBack, HeldUnheard
<1>5. CASE UNCHANGED <<all_anns, incoming_announcements>>
  <2>1. \A x \in ASes : FromNeighbours(x)' = FromNeighbours(x)
    BY <1>5 DEF FromNeighbours, Learned, Queued
  <2>2. \A b : HeldAbove(b)' = HeldAbove(b) /\ HeldBeside(b)' = HeldBeside(b)
    BY <1>1, <1>5 DEF HeldAbove, HeldBeside, Multihomed, Seeded
  <2>3. QED
    BY <2>1, <2>2 DEF HoldsBack, HeldUnheard
<1>6. QED
  BY <1>1, <1>2, <1>3, <1>4, <1>5 DEF Next, Phases, SelectRow, PassHop, SeedHop, BreakHop,
     Walking, EndRow, propagate_up, propagate_down, EndBlock, StartSweep,
     clear_announcements, vars

-----------------------------------------------------------------------------
(***************************************************************************)
(* What an AS has offered to a neighbour is still in the queue there, or   *)
(* is no better than what the neighbour has.                               *)
(***************************************************************************)
Considered(x, offer) ==
    \/ offer \in Queued(x)
    \/ Seeded(x)
    \/ all_anns[x] # NoAnn /\ Priority(offer) <= Priority(all_anns[x])

SentInUp(b)    == (sweep = "up" /\ b \notin pending) \/ sweep \in {"peers", "down"}
SentInPeers(b) == (sweep = "peers" /\ b \notin pending) \/ sweep = "down"
SentInDown(b)  == sweep = "down" /\ b \notin pending

ConsideredAbove ==
    \A b \in ASes : SentInUp(b) /\ SendsUp(b) /\ ~ HeldAbove(b) =>
        \A x \in topo.providers[b] : Considered(x, Export(all_anns[b], AS_REL_CUSTOMER, b))
ConsideredBeside ==
    \A b \in ASes : SentInPeers(b) /\ SendsUp(b) /\ ~ HeldBeside(b) =>
        \A x \in topo.peers[b] : Considered(x, Export(all_anns[b], AS_REL_PEER, b))
ConsideredBelow ==
    \A b \in ASes : SentInDown(b) /\ all_anns[b] # NoAnn =>
        \A x \in topo.customers[b] : Considered(x, Export(all_anns[b], AS_REL_PROVIDER, b))

OffersConsidered == ConsideredAbove /\ ConsideredBeside /\ ConsideredBelow

-----------------------------------------------------------------------------
\* Ranked graphs with mutual neighbours have their providers above.
LEMMA PremisesOrder == ASSUME Premises PROVE ProvidersAbove
<1> SUFFICES ASSUME NEW t \in Topologies, NEW a \in ASes, NEW p \in t.providers[a]
             PROVE  t.rank[a] < t.rank[p]
  BY DEF ProvidersAbove
<1>1. p \in ASes
  BY PropagationAssumption DEF Topology
<1>2. a \in t.customers[p]
  BY <1>1 DEF Premises, MutualNeighbours
<1>3. QED
  BY <1>1, <1>2 DEF Premises, WellRanked

\* A queue loses its head only.
LEMMA OthersStayQueued ==
    ASSUME TypeOK, NEW a \in ASes, process_announcements(a), NEW x \in ASes,
           NEW ann \in Queued(x), ~ (x = a /\ ann = Head(incoming_announcements[a]))
    PROVE  ann \in Queued(x)'
<1>1. CASE x # a
  BY <1>1, ProcessQueues DEF Queued
<1>2. CASE x = a
  <2>1. /\ incoming_announcements[a] \in Seq(Announcement)
        /\ incoming_announcements[a] # <<>>
        /\ incoming_announcements'[a] = Tail(incoming_announcements[a])
    BY DEF TypeOK, process_announcements
  <2>2. PICK k \in DOMAIN incoming_announcements[a] : ann = incoming_announcements[a][k]
    BY <1>2 DEF Queued
  <2>3. k # 1
    BY <1>2, <2>1, <2>2
  <2>4. /\ k - 1 \in DOMAIN Tail(incoming_announcements[a])
        /\ Tail(incoming_announcements[a])[k - 1] = ann
    BY <2>1, <2>2, <2>3
  <2>5. QED
    BY <1>2, <2>1, <2>4 DEF Queued
<1>3. QED
  BY <1>1, <1>2

\* Sending takes nothing from a queue, and the offer is in it.
LEMMA SentIsQueued ==
    ASSUME TypeOK, NEW a \in ASes, send_all_announcements(a), NEW x \in ASes
    PROVE  /\ Queued(x) \subseteq Queued(x)'
           /\ x \in SendsTo(a) => Export(all_anns[a], SentAs, a) \in Queued(x)'
<1> DEFINE sent == Export(all_anns[a], SentAs, a)
           queue == incoming_announcements[x]
<1>1. CASE x \in SendsTo(a)
  <2>1. incoming_announcements'[x] = Append(queue, sent) /\ queue \in Seq(Announcement)
    BY <1>1 DEF send_all_announcements, TypeOK
  <2>2. ASSUME NEW k \in DOMAIN queue PROVE queue[k] \in Queued(x)'
    <3>1. k \in DOMAIN Append(queue, sent) /\ Append(queue, sent)[k] = queue[k]
      BY <2>1
    <3>2. QED
      BY <2>1, <3>1 DEF Queued
  <2>3. sent \in Queued(x)'
    <3>1. /\ Len(queue) + 1 \in DOMAIN Append(queue, sent)
          /\ Append(queue, sent)[Len(queue) + 1] = sent
      BY <2>1
    <3>2. QED
      BY <2>1, <3>1 DEF Queued
  <2>4. QED
    BY <2>2, <2>3 DEF Queued
<1>2. CASE x \notin SendsTo(a)
  BY <1>2 DEF send_all_announcements, Queued
<1>3. QED
  BY <1>1, <1>2

\* An AS ends with something no worse than what it had and than what it
\* processed.
LEMMA BestAfterBest ==
    ASSUME NEW best \in Slot, NEW ann \in Announcement, NEW value
    PROVE  LET after == BestAfter(best, ann, value)
           IN  /\ after \in Announcement
               /\ Priority(ann) <= Priority(after)
               /\ best # NoAnn => Priority(best) <= Priority(after)
<1>1. \A y \in Announcement : Priority(y) \in Int
  BY FieldTypes DEF Priority
<1>2. BestAfter(best, ann, value) \in Announcement
  BY BestAfterGrows
<1>3. CASE Replaces(best, ann, value)
  <2>1. BestAfter(best, ann, value) = ann
    BY <1>3 DEF BestAfter
  <2>2. best # NoAnn => best \in Announcement
    BY DEF Slot
  <2>3. QED
    BY <1>1, <1>2, <1>3, <2>1, <2>2 DEF Replaces
<1>4. CASE ~ Replaces(best, ann, value)
  <2>1. BestAfter(best, ann, value) = best /\ best # NoAnn /\ best \in Announcement
    BY <1>4 DEF BestAfter, Replaces, Slot
  <2>2. QED
    BY <1>1, <1>2, <1>4, <2>1 DEF Replaces
<1>5. QED
  BY <1>3, <1>4

\* What was considered stays so.
LEMMA ConsideredStill ==
    ASSUME TypeOK, NEW a \in ASes, process_announcements(a) \/ send_all_announcements(a),
           NEW x \in ASes, NEW offer \in Announcement, Considered(x, offer)
    PROVE  Considered(x, offer)'
<1>1. CASE send_all_announcements(a)
  BY <1>1, SentIsQueued DEF Considered, Seeded, send_all_announcements
<1>2. CASE process_announcements(a) /\ x # a
  <2>1. all_anns'[x] = all_anns[x]
    BY <1>2 DEF process_announcements, TypeOK
  <2>2. QED
    BY <1>2, <2>1, OthersStayQueued DEF Considered, Seeded
<1>3. CASE process_announcements(a) /\ x = a
  <2> DEFINE ann == Head(incoming_announcements[a])
             best == all_anns[a]
  <2>1. ann \in Announcement /\ best \in Slot
    BY <1>3, ProcessType DEF TypeOK
  <2>2. CASE Seeded(a)
    BY <1>3, <2>2 DEF Considered, Seeded, process_announcements
  <2>3. CASE ~ Seeded(a)
    <3> DEFINE after == BestAfter(best, ann, Value(a))
    <3>1. all_anns'[a] = after
      BY <1>3, <2>3 DEF Seeded, process_announcements, TypeOK
    <3>2. /\ after \in Announcement /\ after # NoAnn
          /\ Priority(ann) <= Priority(after)
          /\ best # NoAnn => Priority(best) <= Priority(after)
      BY <2>1, BestAfterBest, AnnouncementsAssumption
    <3>3. CASE offer = ann
      BY <1>3, <3>1, <3>2, <3>3 DEF Considered
    <3>4. CASE offer \in Queued(a) /\ offer # ann
      BY <1>3, <3>4, OthersStayQueued DEF Considered
    <3>5. CASE best # NoAnn /\ Priority(offer) <= Priority(best)
      <4>1. \A y \in Announcement : Priority(y) \in Int
        BY FieldTypes DEF Priority
      <4>2. best \in Announcement
        BY <2>1, <3>5 DEF Slot
      <4>3. Priority(offer) <= Priority(after)
        BY <3>2, <3>5, <4>1, <4>2
      <4>4. QED
        BY <1>3, <3>1, <3>2, <4>3 DEF Considered
    <3>6. QED
      BY <1>3, <2>3, <3>3, <3>4, <3>5 DEF Considered
  <2>4. QED
    BY <2>2, <2>3
<1>4. QED
  BY <1>1, <1>2, <1>3

\* Who has made an offer keeps the route it offered.
LEMMA OffererKeepsRoute ==
    ASSUME Heard, NEW a \in ASes, process_announcements(a), NEW b \in ASes,
           SentInUp(b), SendsUp(b)'
    PROVE  SendsUp(b) /\ all_anns'[b] = all_anns[b]
<1>1. SendsUp(b)
  BY NoneGained DEF SentInUp
<1>2. CASE b # a
  BY <1>1, <1>2 DEF process_announcements, Heard, TypeOK
<1>3. CASE b = a
  <2>1. a \in pending /\ sweep \in {"peers", "down"}
    BY <1>3 DEF process_announcements, Current, SentInUp
  <2>2. Head(incoming_announcements[a]) \in Queued(a)
    BY ProcessQueues DEF Heard
  <2>3. BestAfter(all_anns[a], Head(incoming_announcements[a]), Value(a)) = all_anns[a]
    BY <1>1, <1>3, <2>1, <2>2, QueuedIsLesser DEF SendsUp
  <2>4. QED
    BY <1>1, <1>3, <2>3 DEF process_announcements, Heard, TypeOK
<1>4. QED
  BY <1>2, <1>3

\* An offer is an announcement.
LEMMA OfferType ==
    ASSUME TypeOK, NEW b \in ASes, all_anns[b] # NoAnn, NEW rel \in 0..3
    PROVE  Export(all_anns[b], rel, b) \in Announcement
<1>1. all_anns[b] \in Announcement /\ b \in ASNs
  BY PropagationAssumption DEF TypeOK, Slot
<1>2. QED
  BY <1>1, ExportType

\* An AS whose turn it is sends to all its neighbours on that side, unless it is
\* multihomed and holds back what it has.
LEMMA TurnSends ==
    ASSUME Premises, Heard, SeedsOnly, NEW a \in ASes, send_all_announcements(a)
    PROVE  /\ sweep \in {"up", "peers", "down"}
           /\ sweep = "up" /\ SendsUp(a) /\ ~ HeldAbove(a) => SendsTo(a) = topo.providers[a]
           /\ sweep = "peers" /\ SendsUp(a) /\ ~ HeldBeside(a) => SendsTo(a) = topo.peers[a]
           /\ sweep = "down" /\ all_anns[a] # NoAnn => SendsTo(a) = topo.customers[a]
<1>1. sweep \in {"up", "peers", "down"}
  BY Sweeping DEF send_all_announcements, Heard, TypeOK
<1>2. /\ sweep = "up" /\ ~ HeldAbove(a) => ~ HeldBack(a)
      /\ sweep = "peers" /\ ~ HeldBeside(a) => ~ HeldBack(a)
  BY PremisesOrder, HeldByTurn
<1>3. SendsUp(a) => ~ (all_anns[a].relationship < AS_REL_CUSTOMER)
  <2>1. SendsUp(a) => all_anns[a] \in Announcement
    BY DEF SendsUp, Heard, TypeOK, Slot
  <2>2. SendsUp(a) => all_anns[a].relationship \in 0..3
    BY <2>1, FieldTypes
  <2>3. QED
    BY <2>2 DEF SendsUp, AS_REL_CUSTOMER
<1>4. QED
  BY <1>1, <1>2, <1>3 DEF SendsTo, SendsUp

\* The three parts at once, for one sender and receiver in a step of a sweep.
LEMMA ConsideredProcess ==
    ASSUME Premises, Heard, HeardIsCurrent, OffersConsidered, NEW a \in ASes, process_announcements(a)
    PROVE  (ConsideredAbove /\ ConsideredBeside /\ ConsideredBelow)'
<1>1. /\ TypeOK /\ sweep' = sweep /\ pending' = pending /\ topo' = topo /\ a \in pending
      /\ topo \in Topology
  BY DEF Heard, TypeOK, process_announcements, Current
<1>2. \A b \in ASes :
          /\ SentInUp(b)' = SentInUp(b) /\ SentInPeers(b)' = SentInPeers(b)
          /\ SentInDown(b)' = SentInDown(b)
          /\ SentInPeers(b) => SentInUp(b)
  BY <1>1 DEF SentInUp, SentInPeers, SentInDown
<1>3. ASSUME NEW b \in ASes, SentInUp(b), SendsUp(b)'
      PROVE  SendsUp(b) /\ all_anns'[b] = all_anns[b]
  BY <1>3, OffererKeepsRoute
<1>4. ASSUME NEW b \in ASes, SentInDown(b) PROVE all_anns'[b] = all_anns[b]
  BY <1>1, <1>4 DEF process_announcements, TypeOK, SentInDown
<1>5. ASSUME NEW b \in ASes, all_anns[b] # NoAnn, NEW x \in ASes, NEW rel \in 0..3,
             Considered(x, Export(all_anns[b], rel, b))
      PROVE  Considered(x, Export(all_anns[b], rel, b))'
             \/ all_anns'[b] # all_anns[b]
  <2> DEFINE offer == Export(all_anns[b], rel, b)
  <2>1. offer \in Announcement
    BY <1>1, <1>5, OfferType
  <2>2. \/ offer \in Queued(x)' \/ Seeded(x)'
        \/ all_anns'[x] # NoAnn /\ Priority(offer) <= Priority(all_anns'[x])
    <3> HIDE DEF offer
    <3>1. ASSUME NEW o \in Announcement, Considered(x, o)
          PROVE  \/ o \in Queued(x)' \/ Seeded(x)'
                 \/ all_anns'[x] # NoAnn /\ Priority(o) <= Priority(all_anns'[x])
      BY <1>1, <3>1, ConsideredStill DEF Considered
    <3>2. QED
      BY <1>5, <2>1, <3>1 DEF offer
  <2>3. QED
    BY <2>2 DEF Considered
<1>6. {AS_REL_CUSTOMER, AS_REL_PEER, AS_REL_PROVIDER} \subseteq 0..3
  BY DEF AS_REL_CUSTOMER, AS_REL_PEER, AS_REL_PROVIDER
<1>7. \A b \in ASes : /\ topo.providers[b] \subseteq ASes /\ topo.peers[b] \subseteq ASes
                      /\ topo.customers[b] \subseteq ASes
  BY <1>1 DEF Topology
<1>8. ConsideredAbove'
  <2> SUFFICES ASSUME NEW b \in ASes, SentInUp(b), SendsUp(b)', ~ HeldAbove(b)',
                      NEW x \in topo.providers[b]
               PROVE  Considered(x, Export(all_anns[b], AS_REL_CUSTOMER, b))'
    BY <1>1, <1>2 DEF ConsideredAbove
  <2>1. SendsUp(b) /\ all_anns'[b] = all_anns[b] /\ x \in ASes /\ ~ HeldAbove(b)
    BY <1>3, <1>7, HeldStill
  <2>2. Considered(x, Export(all_anns[b], AS_REL_CUSTOMER, b))
    BY <2>1 DEF OffersConsidered, ConsideredAbove
  <2>3. QED
    BY <1>5, <1>6, <2>1, <2>2 DEF SendsUp
<1>9. ConsideredBeside'
  <2> SUFFICES ASSUME NEW b \in ASes, SentInPeers(b), SendsUp(b)', ~ HeldBeside(b)',
                      NEW x \in topo.peers[b]
               PROVE  Considered(x, Export(all_anns[b], AS_REL_PEER, b))'
    BY <1>1, <1>2 DEF ConsideredBeside
  <2>1. SendsUp(b) /\ all_anns'[b] = all_anns[b] /\ x \in ASes /\ ~ HeldBeside(b)
    BY <1>2, <1>3, <1>7, HeldStill
  <2>2. Considered(x, Export(all_anns[b], AS_REL_PEER, b))
    BY <2>1 DEF OffersConsidered, ConsideredBeside
  <2>3. QED
    BY <1>5, <1>6, <2>1, <2>2 DEF SendsUp
<1>10. ConsideredBelow'
  <2> SUFFICES ASSUME NEW b \in ASes, SentInDown(b), all_anns'[b] # NoAnn,
                      NEW x \in topo.customers[b]
               PROVE  Considered(x, Export(all_anns[b], AS_REL_PROVIDER, b))'
    BY <1>1, <1>2 DEF ConsideredBelow
  <2>1. all_anns'[b] = all_anns[b] /\ x \in ASes
    BY <1>4, <1>7
  <2>2. Considered(x, Export(all_anns[b], AS_REL_PROVIDER, b))
    BY <2>1 DEF OffersConsidered, ConsideredBelow
  <2>3. QED
    BY <1>5, <1>6, <2>1, <2>2
<1>11. QED
  BY <1>8, <1>9, <1>10

\* What is sent waits in the neighbour's queue, so it is considered.
LEMMA ConsideredSend ==
    ASSUME Premises, Heard, SeedsOnly, OffersConsidered, NEW a \in ASes, send_all_announcements(a)
    PROVE  (ConsideredAbove /\ ConsideredBeside /\ ConsideredBelow)'
<1>1. /\ TypeOK /\ sweep' = sweep /\ pending' = pending \ {a} /\ topo' = topo
      /\ all_anns' = all_anns /\ topo \in Topology
  BY DEF Heard, TypeOK, send_all_announcements
<1>2. \A b \in ASes : /\ SendsUp(b)' = SendsUp(b)
                      /\ HeldAbove(b)' = HeldAbove(b) /\ HeldBeside(b)' = HeldBeside(b)
                      /\ SentInUp(b)' => SentInUp(b) \/ (sweep = "up" /\ b = a)
                      /\ SentInPeers(b)' => SentInPeers(b) \/ (sweep = "peers" /\ b = a)
                      /\ SentInDown(b)' => SentInDown(b) \/ (sweep = "down" /\ b = a)
  BY <1>1 DEF SendsUp, SentInUp, SentInPeers, SentInDown, HeldAbove, HeldBeside, Multihomed,
              Seeded, send_all_announcements
<1>3. ASSUME NEW b \in ASes, all_anns[b] # NoAnn, NEW x \in ASes, NEW rel \in 0..3,
             \/ Considered(x, Export(all_anns[b], rel, b))
             \/ b = a /\ rel = SentAs /\ x \in SendsTo(a)
      PROVE  Considered(x, Export(all_anns[b], rel, b))'
  <2>1. CASE Considered(x, Export(all_anns[b], rel, b))
    BY <1>1, <2>1, SentIsQueued DEF Considered, Seeded
  <2>2. CASE b = a /\ rel = SentAs /\ x \in SendsTo(a)
    BY <1>1, <2>2, SentIsQueued DEF Considered
  <2>3. QED
    BY <1>3, <2>1, <2>2
<1>4. {AS_REL_CUSTOMER, AS_REL_PEER, AS_REL_PROVIDER} \subseteq 0..3
  BY DEF AS_REL_CUSTOMER, AS_REL_PEER, AS_REL_PROVIDER
<1>5. \A b \in ASes : /\ topo.providers[b] \subseteq ASes /\ topo.peers[b] \subseteq ASes
                      /\ topo.customers[b] \subseteq ASes
  BY <1>1 DEF Topology
<1>6. ConsideredAbove'
  <2> SUFFICES ASSUME NEW b \in ASes, SentInUp(b)', SendsUp(b), ~ HeldAbove(b),
                      NEW x \in topo.providers[b]
               PROVE  Considered(x, Export(all_anns[b], AS_REL_CUSTOMER, b))'
    BY <1>1, <1>2 DEF ConsideredAbove
  <2>1. \/ Considered(x, Export(all_anns[b], AS_REL_CUSTOMER, b))
        \/ b = a /\ AS_REL_CUSTOMER = SentAs /\ x \in SendsTo(a)
    BY <1>2, TurnSends DEF OffersConsidered, ConsideredAbove, SentAs
  <2>2. QED
    BY <1>3, <1>4, <1>5, <2>1 DEF SendsUp
<1>7. ConsideredBeside'
  <2> SUFFICES ASSUME NEW b \in ASes, SentInPeers(b)', SendsUp(b), ~ HeldBeside(b),
                      NEW x \in topo.peers[b]
               PROVE  Considered(x, Export(all_anns[b], AS_REL_PEER, b))'
    BY <1>1, <1>2 DEF ConsideredBeside
  <2>1. \/ Considered(x, Export(all_anns[b], AS_REL_PEER, b))
        \/ b = a /\ AS_REL_PEER = SentAs /\ x \in SendsTo(a)
    BY <1>2, TurnSends DEF OffersConsidered, ConsideredBeside, SentAs
  <2>2. QED
    BY <1>3, <1>4, <1>5, <2>1 DEF SendsUp
<1>8. ConsideredBelow'
  <2> SUFFICES ASSUME NEW b \in ASes, SentInDown(b)', all_anns[b] # NoAnn,
                      NEW x \in topo.customers[b]
               PROVE  Considered(x, Export(all_anns[b], AS_REL_PROVIDER, b))'
    BY <1>1 DEF ConsideredBelow
  <2>1. \/ Considered(x, Export(all_anns[b], AS_REL_PROVIDER, b))
        \/ b = a /\ AS_REL_PROVIDER = SentAs /\ x \in SendsTo(a)
    BY <1>2, TurnSends DEF OffersConsidered, ConsideredBelow, SentAs
  <2>2. QED
    BY <1>3, <1>4, <1>5, <2>1
<1>9. QED
  BY <1>6, <1>7, <1>8

\* Every step keeps what was offered considered.
LEMMA OffersConsideredStep ==
    ASSUME Premises, Heard, HeardIsCurrent, SeedsOnly, OffersConsidered, [Next]_vars
    PROVE  OffersConsidered'
<1>1. TypeOK /\ Phases /\ topo' = topo /\ options' = options
  BY SameTopology DEF Heard
<1>2. CASE sweep' \in {"seed", "done"}
  BY <1>1, <1>2 DEF OffersConsidered, ConsideredAbove, ConsideredBeside, ConsideredBelow,
                    SentInUp, SentInPeers, SentInDown
<1>3. CASE sweep = "seed" /\ sweep' # "seed"
  <2>1. sweep' = "up" /\ pending' = Ranked
    BY <1>1, <1>3 DEF Next, Phases, SelectRow, PassHop, SeedHop, BreakHop, Walking, EndRow,
           propagate_up, propagate_down, EndBlock, StartSweep, clear_announcements,
           process_announcements, send_all_announcements, vars, Current
  <2>2. Ranked = ASes
    BY DEF Ranked, Premises, WellRanked, Heard, UpSwept
  <2>3. QED
    BY <1>1, <2>1, <2>2 DEF OffersConsidered, ConsideredAbove, ConsideredBeside,
           ConsideredBelow, SentInUp, SentInPeers, SentInDown
<1>4. ASSUME NEW a \in ASes, process_announcements(a) \/ send_all_announcements(a)
      PROVE  OffersConsidered'
  BY <1>1, <1>4, ConsideredProcess, ConsideredSend DEF OffersConsidered
<1>5. CASE /\ UNCHANGED <<all_anns, incoming_announcements>>
           /\ \/ sweep = "up" /\ pending = {} /\ sweep' = "peers"
              \/ sweep = "peers" /\ pending = {} /\ sweep' = "down"
              \/ UNCHANGED <<sweep, pending>>
  <2>1. \A x, offer : Considered(x, offer)' = Considered(x, offer)
    BY <1>5 DEF Considered, Queued, Seeded
  <2>2. \A b \in ASes : /\ SendsUp(b)' = SendsUp(b)
                        /\ HeldAbove(b)' = HeldAbove(b) /\ HeldBeside(b)' = HeldBeside(b)
    BY <1>1, <1>5 DEF SendsUp, HeldAbove, HeldBeside, Multihomed, Seeded
  <2>3. UNCHANGED <<sweep, pending>> \/ pending' = Ranked
    BY <1>1, <1>5 DEF Next, Phases, SelectRow, PassHop, SeedHop, BreakHop, Walking, EndRow,
           propagate_up, propagate_down, EndBlock, StartSweep, clear_announcements,
           process_announcements, send_all_announcements, vars, Current
  <2>4. Ranked = ASes
    BY DEF Ranked, Premises, WellRanked, Heard, UpSwept
  <2>5. \A b \in ASes : /\ SentInUp(b)' => SentInUp(b)
                        /\ SentInPeers(b)' => SentInPeers(b)
                        /\ SentInDown(b)' => SentInDown(b)
    BY <1>5, <2>3, <2>4 DEF SentInUp, SentInPeers, SentInDown
  <2>6. QED
    BY <1>1, <1>5, <2>1, <2>2, <2>5
       DEF OffersConsidered, ConsideredAbove, ConsideredBeside, ConsideredBelow
<1>6. QED
  BY <1>2, <1>3, <1>4, <1>5, SweepSteps DEF Heard

-----------------------------------------------------------------------------
(***************************************************************************)
(* The routes of the last sweep are stable.                                *)
(***************************************************************************)
\* The operators on announcements are the same in both modules.
LEMMA SameOperators ==
    /\ GR!AS_REL_PROVIDER = AS_REL_PROVIDER /\ GR!AS_REL_PEER = AS_REL_PEER
    /\ GR!AS_REL_CUSTOMER = AS_REL_CUSTOMER
    /\ \A ann : GR!Priority(ann) = Priority(ann)
    /\ \A ann, rel, b : GR!Export(ann, rel, b) = Export(ann, rel, b)
    /\ \A routes, senders :
          /\ GR!ForCustomers(routes, senders) = {b \in senders : routes[b] # NoAnn}
          /\ GR!ForAll(routes, senders) =
                {b \in senders : routes[b] # NoAnn
                                 /\ routes[b].relationship >= AS_REL_CUSTOMER}
    /\ \A b : /\ GR!HeldFromProviders(all_anns, b) = HeldAbove(b)
              /\ GR!HeldFromPeers(b) = HeldBeside(b)
BY DEF GR!AS_REL_PROVIDER, GR!AS_REL_PEER, GR!AS_REL_CUSTOMER, AS_REL_PROVIDER, AS_REL_PEER,
       AS_REL_CUSTOMER, GR!Priority, Priority, GR!Export, Export, GR!ToUInt8, ToUInt8,
       GR!ForCustomers, GR!ForAll, GR!HeldFromProviders, GR!HeldFromPeers, GR!Multihomed,
       GR!IsSeed, Seeded, HeldAbove, HeldBeside, Multihomed

\* b offers something to a, which sees b as rel.
Offers(b, a, rel) ==
    \/ rel = AS_REL_CUSTOMER /\ b \in topo.customers[a] /\ SendsUp(b) /\ ~ HeldAbove(b)
    \/ rel = AS_REL_PEER /\ b \in topo.peers[a] /\ SendsUp(b) /\ ~ HeldBeside(b)
    \/ rel = AS_REL_PROVIDER /\ b \in topo.providers[a] /\ all_anns[b] # NoAnn

\* The offers of GaoRexford, one neighbour and relationship at a time.
LEMMA OffersOf ==
    ASSUME NEW a \in ASes, NEW offer
    PROVE  offer \in GR!Offers(all_anns, a)
               <=> \E b, rel : Offers(b, a, rel) /\ offer = Export(all_anns[b], rel, b)
<1>1. GR!Offers(all_anns, a) =
          {Export(all_anns[b], AS_REL_CUSTOMER, b)
               : b \in {c \in topo.customers[a] : SendsUp(c) /\ ~ HeldAbove(c)}}
          \union {Export(all_anns[b], AS_REL_PEER, b)
                      : b \in {c \in topo.peers[a] : SendsUp(c) /\ ~ HeldBeside(c)}}
          \union {Export(all_anns[b], AS_REL_PROVIDER, b)
                      : b \in {c \in topo.providers[a] : all_anns[c] # NoAnn}}
  BY SameOperators DEF GR!Offers, GR!ToProviders, GR!ToPeers, SendsUp
<1>2. QED
  BY <1>1 DEF Offers

\* When the last sweep is over, seeds and routes are a stable routing.
LEMMA RoutesAreStable ==
    ASSUME Premises, Heard, HeardIsCurrent, HoldsBack, OffersConsidered, DownSwept,
           sweep = "down", pending = {}
    PROVE  GR!Stable(all_anns)
<1>1. /\ TypeOK /\ topo \in Topology /\ topo \in Topologies
      /\ \A x \in ASes : Queued(x) = {}
  BY DEF Heard, TypeOK, DownSwept, Queued
<1>2. ASSUME NEW a \in ASes, Learned(a) PROVE all_anns[a] \in GR!Offers(all_anns, a)
  <2> DEFINE ann == all_anns[a]
             b == ann.received_from_asn
  <2>1. ann \in FromNeighbours(a) /\ ann \in Announcement
    BY <1>1, <1>2 DEF FromNeighbours, Learned, TypeOK, Slot
  <2>2. all_anns[b] # NoAnn /\ ann = Export(all_anns[b], ann.relationship, b)
    BY <2>1 DEF HeardIsCurrent
  <2>3. /\ b \in ASes /\ ann.relationship # AS_REL_ORIGIN
        /\ ann.relationship = AS_REL_CUSTOMER => a \in topo.providers[b]
        /\ ann.relationship = AS_REL_PEER     => a \in topo.peers[b]
        /\ ann.relationship = AS_REL_PROVIDER => a \in topo.customers[b]
    BY <2>1 DEF Heard, RelationshipHonest
  <2>4. ann.relationship \in 0..3
    BY <2>1, FieldTypes
  <2>5. ann.relationship >= AS_REL_PEER => SendsUp(b)
    BY <2>1 DEF Heard, ValleyFree, SendsUp
  <2>6. /\ ann.relationship = AS_REL_CUSTOMER => ~ HeldAbove(b)
        /\ ann.relationship = AS_REL_PEER     => ~ HeldBeside(b)
    BY <2>1 DEF HoldsBack, HeldUnheard
  <2>7. Offers(b, a, ann.relationship)
    BY <1>1, <2>2, <2>3, <2>4, <2>5, <2>6 DEF Offers, Premises, MutualNeighbours,
       AS_REL_CUSTOMER, AS_REL_PEER, AS_REL_PROVIDER, AS_REL_ORIGIN
  <2>8. QED
    BY <2>2, <2>7, OffersOf
<1>3. ASSUME NEW a \in ASes, ~ Seeded(a), NEW offer \in GR!Offers(all_anns, a)
      PROVE  all_anns[a] # NoAnn /\ Priority(offer) <= Priority(all_anns[a])
  <2>1. PICK b, rel : Offers(b, a, rel) /\ offer = Export(all_anns[b], rel, b)
    BY <1>3, OffersOf
  <2>2. /\ b \in ASes
        /\ rel = AS_REL_CUSTOMER => a \in topo.providers[b]
        /\ rel = AS_REL_PEER => a \in topo.peers[b]
        /\ rel = AS_REL_PROVIDER => a \in topo.customers[b]
    <3>1. b \in ASes
      BY <1>1, <2>1 DEF Offers, Topology
    <3>2. QED
      BY <1>1, <2>1, <3>1 DEF Offers, Premises, MutualNeighbours,
         AS_REL_CUSTOMER, AS_REL_PEER, AS_REL_PROVIDER
  <2>3. SentInUp(b) /\ SentInPeers(b) /\ SentInDown(b)
    BY DEF SentInUp, SentInPeers, SentInDown
  <2>4. Considered(a, offer)
    BY <2>1, <2>2, <2>3 DEF Offers, OffersConsidered, ConsideredAbove, ConsideredBeside,
       ConsideredBelow
  <2>5. QED
    BY <1>1, <1>3, <2>4 DEF Considered
<1>4. ASSUME NEW a \in ASes
      PROVE  \/ GR!IsSeed(all_anns[a])
             \/ GR!Offers(all_anns, a) = {} /\ all_anns[a] = NoAnn
             \/ /\ all_anns[a] \in GR!Offers(all_anns, a)
                /\ \A offer \in GR!Offers(all_anns, a) :
                      GR!Priority(offer) <= GR!Priority(all_anns[a])
  <2>1. CASE Seeded(a)
    BY <2>1 DEF Seeded, GR!IsSeed
  <2>2. CASE all_anns[a] = NoAnn
    BY <1>3, <2>2 DEF Seeded
  <2>3. CASE Learned(a)
    BY <1>2, <1>3, <2>3, SameOperators DEF Learned, Seeded
  <2>4. QED
    BY <2>1, <2>2, <2>3 DEF Seeded, Learned
<1>5. QED
  BY <1>4 DEF GR!Stable

-----------------------------------------------------------------------------
(***************************************************************************)
(* The steps of a block are steps of GaoRexford.                           *)
(***************************************************************************)
Rib == [a \in ASes |-> IF sweep = "done" \/ Seeded(a) THEN all_anns[a] ELSE NoAnn]
Refined == Heard /\ HeardIsCurrent /\ HoldsBack /\ OffersConsidered /\ DownSwept

\* What is queued is no seed, and what it replaces is none either.
LEMMA ProcessKeepsSeeds ==
    ASSUME Refined, NEW a \in ASes, process_announcements(a)
    PROVE  Rib' = Rib
<1>1. sweep' = sweep /\ sweep # "done"
  BY Sweeping DEF Refined, Heard, process_announcements
<1>2. \A x \in ASes : /\ Seeded(x) => all_anns'[x] = all_anns[x]
                      /\ Seeded(x)' = Seeded(x)
  BY SeedsStay DEF Refined
<1>3. QED
  BY <1>1, <1>2 DEF Rib

\* A first block starts as GaoRexford does: without seeds, not settled.
LEMMA RefinedInit == Init => GR!Init
BY DEF Init, GR!Init, Seeded

\* Every step seeds, settles or clears in GaoRexford, or changes nothing there.
LEMMA RefinedStep ==
    ASSUME Premises, Refined, [Next]_vars
    PROVE  [GR!Next]_(GR!vars)
<1>1. TypeOK /\ Phases /\ topo' = topo /\ options' = options
  BY SameTopology DEF Refined, Heard
<1>2. Rib' = Rib /\ (sweep' = "done") = (sweep = "done") => UNCHANGED GR!vars
  BY <1>1 DEF GR!vars, Rib
<1>3. ASSUME NEW r \in Rows, SelectRow(r) PROVE UNCHANGED GR!vars
  BY <1>2, <1>3 DEF SelectRow, Rib, Seeded
<1>4. CASE PassHop \/ EndRow \/ UNCHANGED vars
  BY <1>2, <1>4 DEF PassHop, Walking, EndRow, vars, Rib, Seeded
<1>5. CASE SeedHop \/ BreakHop
  <2>1. /\ Walking /\ OnPath \in ASes /\ sweep = "seed" /\ sweep' = sweep
        /\ \/ all_anns' = [all_anns EXCEPT ![OnPath] = Seed(OnPath)]
           \/ all_anns' = [all_anns EXCEPT ![OnPath] = NoAnn]
    BY <1>1, <1>5 DEF SeedHop, BreakHop, Walking, Phases
  <2>2. \A a \in ASes : all_anns'[a] # all_anns[a] =>
                            all_anns'[a] = NoAnn \/ all_anns'[a].from_monitor = TRUE
    <3>1. Seed(OnPath).from_monitor = TRUE
      BY DEF Seed
    <3>2. QED
      BY <1>1, <2>1, <3>1 DEF TypeOK
  <2>3. \A a \in ASes : Rib'[a] # Rib[a] => Rib'[a] = NoAnn \/ GR!IsSeed(Rib'[a])
    BY <2>1, <2>2 DEF Rib, Seeded, GR!IsSeed
  <2>4. GR!Seed
    BY <1>1, <2>1, <2>3 DEF GR!Seed, Rib
  <2>5. QED
    BY <2>4 DEF GR!Next
<1>6. CASE propagate_up \/ propagate_down
  BY <1>2, <1>6 DEF propagate_up, propagate_down, StartSweep, Rib, Seeded
<1>7. CASE EndBlock
  <2>1. /\ sweep = "down" /\ pending = {} /\ sweep' = "done" /\ all_anns' = all_anns
    BY <1>7 DEF EndBlock, StartSweep
  <2>2. GR!Stable(all_anns)
    BY <2>1, RoutesAreStable DEF Refined
  <2>3. Rib' = all_anns
    BY <1>1, <2>1 DEF Rib, TypeOK
  <2>4. \A a \in ASes : GR!IsSeed(Rib[a]) \/ GR!IsSeed(Rib'[a]) => Rib'[a] = Rib[a]
    BY <2>1, <2>3 DEF Rib, Seeded, GR!IsSeed
  <2>5. GR!Settle
    BY <1>1, <2>1, <2>2, <2>3, <2>4 DEF GR!Settle, Rib
  <2>6. QED
    BY <2>5 DEF GR!Next
<1>8. CASE clear_announcements
  <2>1. /\ sweep = "done" /\ sweep' = "seed" /\ all_anns' = [a \in ASes |-> NoAnn]
    BY <1>8 DEF clear_announcements
  <2>2. GR!Clear
    BY <1>1, <2>1 DEF GR!Clear, Seeded
  <2>3. QED
    BY <2>2 DEF GR!Next
<1>9. ASSUME NEW a \in ASes, process_announcements(a) PROVE UNCHANGED GR!vars
  BY <1>2, <1>9, ProcessKeepsSeeds DEF process_announcements
<1>10. ASSUME NEW a \in ASes, send_all_announcements(a) PROVE UNCHANGED GR!vars
  BY <1>2, <1>10 DEF send_all_announcements, Rib, Seeded
<1>11. QED
  BY <1>3, <1>4, <1>5, <1>6, <1>7, <1>8, <1>9, <1>10 DEF Next

(***************************************************************************)
(* The sweeps compute a stable Gao-Rexford routing from the seeds: in      *)
(* every ranked graph with mutual neighbours, for all rows, both ways of   *)
(* breaking ties and all multihomed modes.                                 *)
(***************************************************************************)
THEOREM PropagationIsGaoRexford ==
    ASSUME Premises
    PROVE  Spec => ImplementsGaoRexford
<1>1. Init => Refined
  BY HeardAtFirst DEF Init, Refined, HeardIsCurrent, FromNeighbours, Queued, Learned,
     HoldsBack, SeedsOnly, HeldUnheard, OffersConsidered, ConsideredAbove, ConsideredBeside,
     ConsideredBelow, SentInUp, SentInPeers, SentInDown, DownSwept, NothingUnprocessed
<1>2. Refined /\ [Next]_vars => Refined'
  BY PremisesOrder, HeardStep, HeardIsCurrentStep, SeedsOnlyStep, HeldUnheardStep,
     OffersConsideredStep, DownSweptStep DEF Refined, Premises, Heard, HoldsBack
<1>3. Refined /\ [Next]_vars => [GR!Next]_(GR!vars)
  BY RefinedStep
<1>4. QED
  BY <1>1, <1>2, <1>3, RefinedInit, PTL DEF Spec, ImplementsGaoRexford, GR!Spec

-----------------------------------------------------------------------------
(***************************************************************************)
(* EZExtrapolator.  What is marked as an attack is one: it names an origin *)
(* that is attacked, and where it is a seed, the AS is that attacker.      *)
(***************************************************************************)
AttackOn(ann) == FromAttacker(ann) => ann.origin \in DOMAIN origin_to_attacker_victim

AttacksKnown ==
    \A a \in ASes :
        /\ \A ann \in FromNeighbours(a) : AttackOn(ann)
        /\ Seeded(a) => AttackOn(all_anns[a])
        /\ Seeded(a) /\ FromAttacker(all_anns[a]) =>
               a = origin_to_attacker_victim[all_anns[a].origin].attacker

\* The block and the attacks in it.
InBlock == Heard /\ HeardIsCurrent /\ AttacksKnown

(***************************************************************************)
(* The two threads: the block is over when the victims are counted, and    *)
(* what is to be counted are victims of the table.                         *)
(***************************************************************************)
Threads ==
    /\ origin_to_attacker_victim \in Attacks
    /\ num_between \in Nat
    /\ main \in {"extrapolate", "wait", "finished"}
    /\ save_res_thread \in {"none", "running", "ended"}
    /\ save_res_thread # "none" => sweep = "done" /\ main = "wait"
    /\ save_res_thread # "running" => calls = <<>>
    /\ save_res_thread = "none" =>
           statistics = [attacks |-> 0, connections |-> 0, disconnections |-> 0]
    /\ statistics \in [attacks : Nat, connections : Nat, disconnections : Nat]
    /\ uncounted \subseteq victim_to_prefixes
    /\ \A v \in victim_to_prefixes : \E o \in DOMAIN origin_to_attacker_victim :
           v = origin_to_attacker_victim[o].victim

\* They begin with a victim that has an attack and is still to be counted.
VictimCalled ==
    /\ calls \in Seq(ASNs)
    /\ calls # <<>> => calls[1] \in uncounted /\ UsesAttack(calls[1])

\* The calls of getPathNeighborOfAttacker lead nearer and nearer to the
\* attacker, all along ASes that learned the attack on the same origin.
Tracing ==
    /\ calls \in Seq(ASes)
    /\ \A k \in DOMAIN calls :
          /\ Learned(calls[k]) /\ UsesAttack(calls[k])
          /\ all_anns[calls[k]].origin = all_anns[calls[1]].origin
          /\ \A j \in 1..(k - 1) : Nearer(calls[j], calls[k])

\* An edge leads from an attacker to a neighbour that has the attack from it.
IsEdge(attacker, neighbor) ==
    /\ neighbor \in topo.providers[attacker] \union topo.peers[attacker]
                        \union topo.customers[attacker]
    /\ UsesAttack(neighbor)
    /\ all_anns[neighbor].received_from_asn = attacker

Edges ==
    /\ attacker_edge_removal \in Seq(ASNs \X ASNs)
    /\ save_res_thread = "none" => attacker_edge_removal = <<>>
    /\ \A k \in DOMAIN attacker_edge_removal :
          IsEdge(attacker_edge_removal[k][1], attacker_edge_removal[k][2])

\* The victims that are counted, by what became of them.
Counted == (victim_to_prefixes \ uncounted) \intersect ASes
Misled  == {v \in Counted : UsesAttack(v)}
Reached == {v \in Counted : all_anns[v] # NoAnn /\ ~ UsesAttack(v)}
CutOff  == {v \in Counted : all_anns[v] = NoAnn}

Tally ==
    save_res_thread = "running" =>
        /\ statistics.attacks = Cardinality(Misled)
        /\ statistics.connections = Cardinality(Reached)
        /\ statistics.disconnections = Cardinality(CutOff)
-----------------------------------------------------------------------------
\* The mark goes with what is sent on.
LEMMA MarkIsSent ==
    ASSUME NEW ann \in Announcement, NEW rel, NEW sender
    PROVE  /\ FromAttacker(Export(ann, rel, sender)) <=> FromAttacker(ann)
           /\ Export(ann, rel, sender).origin = ann.origin
           /\ Export(ann, rel, sender).from_monitor = FALSE
BY DEF FromAttacker, Export, Announcement, PlainAnnouncement, EZAnnouncement

\* What the victim's attacker announces, and what it puts into its slot.
LEMMA AttackType ==
    ASSUME TypeOK, row # NoRow, num_between \in Nat
    PROVE  /\ AttackAnnouncement \in Announcement
           /\ FromAttacker(AttackAnnouncement)
           /\ AttackAnnouncement.origin = Origin(row)
           /\ AttackAnnouncement.from_monitor = TRUE
<1>1. /\ Origin(row) \in ASNs /\ row.tstamp \in Nat
  BY RowType DEF TypeOK
<1>2. ToUInt8(1 + num_between) \in UInt8
  BY DEF ToUInt8, UInt8
<1>3. AttackAnnouncement \in EZAnnouncement
  BY <1>1, <1>2 DEF AttackAnnouncement, EZAnnouncement, AS_REL_CUSTOMER
<1>4. QED
  BY <1>3 DEF AttackAnnouncement, Announcement, FromAttacker

\* The override of give_ann_to_as_path changes a seed at most.
LEMMA AttackerSeeds ==
    ASSUME Heard, num_between \in Nat, give_ann_to_as_path
    PROVE  /\ sweep = "seed" /\ sweep' = "seed"
           /\ all_anns' \in [ASes -> Slot]
           /\ \A a \in ASes :
                 \/ all_anns'[a] = all_anns[a]
                 \/ /\ all_anns'[a] = AttackAnnouncement
                    /\ Origin(row) \in DOMAIN origin_to_attacker_victim
                    /\ a = origin_to_attacker_victim[Origin(row)].attacker
<1>1. TypeOK /\ Phases /\ row # NoRow /\ sweep = "seed" /\ sweep' = sweep
  BY DEF Heard, Phases, give_ann_to_as_path
<1>2. AttackAnnouncement \in Announcement
  BY <1>1, AttackType
<1>3. CASE Attacked
  <2> DEFINE attacker == origin_to_attacker_victim[Origin(row)].attacker
             after == BestAfter(all_anns[attacker], AttackAnnouncement, Value(attacker))
  <2>1. attacker \in ASes /\ Origin(row) \in DOMAIN origin_to_attacker_victim
    BY <1>3 DEF Attacked
  <2>2. all_anns \in [ASes -> Slot]
    BY <1>1 DEF TypeOK
  <2>3. all_anns' = [all_anns EXCEPT ![attacker] = after]
    BY <1>3 DEF give_ann_to_as_path
  <2>4. after \in Announcement /\ after \in {all_anns[attacker], AttackAnnouncement}
    BY <1>2, <2>1, <2>2, BestAfterGrows
  <2>5. after \in Slot
    BY <2>4 DEF Slot
  <2> HIDE DEF after, attacker
  <2>6. /\ all_anns' \in [ASes -> Slot]
        /\ \A a \in ASes : \/ all_anns'[a] = all_anns[a]
                           \/ a = attacker /\ all_anns'[a] = AttackAnnouncement
    BY <2>1, <2>2, <2>3, <2>4, <2>5
  <2>7. QED
    BY <1>1, <2>1, <2>6 DEF attacker
<1>4. CASE ~ Attacked
  <2>1. all_anns' = all_anns /\ all_anns \in [ASes -> Slot]
    BY <1>1, <1>4 DEF give_ann_to_as_path, TypeOK
  <2>2. QED
    BY <1>1, <2>1
<1>5. QED
  BY <1>3, <1>4

\* And so nobody has heard anything yet.
LEMMA AttackKeepsHeard ==
    ASSUME Heard, num_between \in Nat, give_ann_to_as_path
    PROVE  Heard' /\ \A x \in ASes : FromNeighbours(x)' = {}
<1>1. TypeOK /\ Phases /\ topo \in Topologies
  BY DEF Heard, UpSwept
<1>2. /\ sweep = "seed" /\ sweep' = "seed" /\ all_anns' \in [ASes -> Slot]
      /\ \A a \in ASes : all_anns'[a] \in {all_anns[a], AttackAnnouncement}
  BY AttackerSeeds
<1>3. AttackAnnouncement.from_monitor = TRUE
  BY <1>1, AttackType DEF give_ann_to_as_path
<1>4. /\ row' = NoRow /\ hop' = 0
      /\ UNCHANGED <<options, topo, rows, sweep, pending, depref_anns,
                     incoming_announcements, inverse_results>>
  BY DEF give_ann_to_as_path
<1>5. TypeOK'
  BY <1>1, <1>2, <1>4 DEF TypeOK
<1>6. Phases'
  BY <1>1, <1>2, <1>3, <1>4 DEF Phases
<1>7. \A x \in ASes : FromNeighbours(x)' = {}
  BY <1>2, <1>5, <1>6 DEF Phases, FromNeighbours, Queued, Learned
<1>8. (RelationshipHonest /\ ValleyFree /\ HeardInTurn)'
  BY <1>7 DEF RelationshipHonest, ValleyFree, HeardInTurn
<1>9. UpSwept'
  BY <1>1, <1>2, <1>4 DEF UpSwept
<1>10. QED
  BY <1>5, <1>6, <1>7, <1>8, <1>9 DEF Heard

\* The sweeps pass an attack on as what it is, and make none.
LEMMA AttacksKnownStep ==
    ASSUME InBlock, [Next]_vars, origin_to_attacker_victim' = origin_to_attacker_victim
    PROVE  AttacksKnown'
<1>1. TypeOK /\ Phases /\ all_anns \in [ASes -> Slot]
  BY DEF InBlock, Heard, TypeOK
<1>2. ASSUME NEW a, NEW x, NEW ann, Sent(a, x, ann)
      PROVE  AttackOn(ann)
  <2>1. /\ a \in ASes /\ all_anns[a] # NoAnn /\ all_anns[a] \in Announcement
        /\ ann = Export(all_anns[a], SentAs, a)
    BY <1>1, <1>2, SentFields DEF Sent
  <2>2. AttackOn(all_anns[a])
    BY <2>1 DEF InBlock, AttacksKnown, FromNeighbours, Learned, Seeded
  <2>3. QED
    BY <2>1, <2>2, MarkIsSent DEF AttackOn
<1>3. \A x \in ASes : \A ann \in FromNeighbours(x)' : AttackOn(ann)
  BY <1>1, <1>2, Sources DEF InBlock, AttacksKnown
<1>4. ASSUME NEW b \in ASes, Seeded(b)'
      PROVE  \/ all_anns'[b] = all_anns[b]
             \/ ~ FromAttacker(all_anns'[b])
  <2>1. CASE SeedHop
    <3>1. all_anns' = [all_anns EXCEPT ![OnPath] = Seed(OnPath)]
      BY <2>1 DEF SeedHop
    <3>2. ~ FromAttacker(Seed(OnPath))
      BY DEF Seed, FromAttacker
    <3>3. QED
      BY <1>1, <3>1, <3>2
  <2>2. CASE BreakHop
    BY <1>1, <1>4, <2>2 DEF BreakHop, Seeded
  <2>3. CASE clear_announcements
    BY <1>4, <2>3 DEF clear_announcements, Seeded
  <2>4. ASSUME NEW a \in ASes, process_announcements(a)
        PROVE  all_anns'[b] = all_anns[b]
    <3> DEFINE ann == Head(incoming_announcements[a])
    <3>1. SUFFICES ASSUME a = b, all_anns'[b] = BestAfter(all_anns[b], ann, Value(b)),
                          all_anns'[b] # all_anns[b]
                   PROVE  FALSE
      BY <1>1, <2>4 DEF process_announcements
    <3>2. ann \in FromNeighbours(b) /\ ann \in Announcement
      BY <1>1, <2>4, <3>1, ProcessQueues, ProcessType DEF FromNeighbours
    <3>3. all_anns'[b] = ann
      BY <3>1 DEF BestAfter
    <3> DEFINE sender == ann.received_from_asn
               sent == Export(all_anns[sender], ann.relationship, sender)
    <3>4. sender \in ASes /\ all_anns[sender] # NoAnn /\ ann = sent
      BY <3>2 DEF InBlock, HeardIsCurrent, Heard, RelationshipHonest
    <3>5. all_anns[sender] \in Announcement
      BY <1>1, <3>4 DEF Slot
    <3>6. sent.from_monitor = FALSE
      <4> DEFINE before == all_anns[sender]
                 rel == ann.relationship
      <4>1. before \in Announcement
        BY <3>5
      <4> HIDE DEF ann, before, rel
      <4>2. \A r, z : Export(before, r, z).from_monitor = FALSE
        BY <4>1, MarkIsSent
      <4>3. QED
        BY <4>2 DEF before, rel
    <3>7. QED
      BY <1>4, <3>3, <3>4, <3>6 DEF Seeded
  <2>5. QED
    BY <2>1, <2>2, <2>3, <2>4 DEF Next, SelectRow, PassHop, Walking, EndRow, propagate_up,
       propagate_down, EndBlock, StartSweep, send_all_announcements, vars
<1>5. ASSUME NEW b \in ASes, Seeded(b)', FromAttacker(all_anns'[b])
      PROVE  Seeded(b) /\ all_anns'[b] = all_anns[b]
  BY <1>4, <1>5 DEF Seeded
<1>6. QED
  <2>1. ASSUME NEW a \in ASes, Seeded(a)'
        PROVE  /\ AttackOn(all_anns'[a])
               /\ FromAttacker(all_anns'[a]) =>
                      a = origin_to_attacker_victim[all_anns'[a].origin].attacker
    BY <1>5, <2>1 DEF InBlock, AttacksKnown, AttackOn
  <2>2. \A ann : AttackOn(ann)' <=> AttackOn(ann)
    BY DEF AttackOn, FromAttacker
  <2>3. QED
    BY <1>3, <2>1 DEF AttacksKnown, AttackOn, FromAttacker

\* The attack that is seeded is the attacker's.
LEMMA AttackIsKnown ==
    ASSUME InBlock, num_between \in Nat, give_ann_to_as_path
    PROVE  InBlock'
<1>1. Heard /\ Heard' /\ \A x \in ASes : FromNeighbours(x)' = {}
  BY AttackKeepsHeard DEF InBlock
<1>2. HeardIsCurrent'
  BY <1>1 DEF HeardIsCurrent
<1>3. origin_to_attacker_victim' = origin_to_attacker_victim
  BY DEF give_ann_to_as_path
<1>4. FromAttacker(AttackAnnouncement) /\ AttackAnnouncement.origin = Origin(row)
  BY <1>1, AttackType DEF Heard, give_ann_to_as_path
<1>5. ASSUME NEW a \in ASes, Seeded(a)'
      PROVE  /\ AttackOn(all_anns'[a])
             /\ FromAttacker(all_anns'[a]) =>
                    a = origin_to_attacker_victim[all_anns'[a].origin].attacker
  <2>1. CASE all_anns'[a] = all_anns[a]
    BY <1>5, <2>1 DEF InBlock, AttacksKnown, Seeded
  <2>2. CASE all_anns'[a] # all_anns[a]
    BY <1>1, <1>4, <2>2, AttackerSeeds DEF AttackOn
  <2>3. QED
    BY <2>1, <2>2
<1>6. AttacksKnown'
  BY <1>1, <1>3, <1>5 DEF AttacksKnown, AttackOn, FromAttacker
<1>7. QED
  BY <1>1, <1>2, <1>6 DEF InBlock
\* What an AS passes over is gone from its queue, and nothing else changes.
LEMMA PassedOver ==
    ASSUME TypeOK, NEW a \in ASes, PassOver(a)
    PROVE  /\ a \in pending
           /\ UNCHANGED <<options, topo, row, hop, rows, sweep, pending, all_anns, depref_anns,
                          inverse_results>>
           /\ incoming_announcements' \in [ASes -> Seq(Announcement)]
           /\ \A x \in ASes \ {a} : incoming_announcements'[x] = incoming_announcements[x]
           /\ \A x \in ASes : Queued(x)' \subseteq Queued(x)
           /\ \A x \in ASes : FromNeighbours(x)' \subseteq FromNeighbours(x)
<1> DEFINE queue == incoming_announcements[a]
<1>1. /\ queue \in Seq(Announcement) /\ queue # <<>>
      /\ incoming_announcements' = [incoming_announcements EXCEPT ![a] = Tail(@)]
      /\ UNCHANGED <<options, topo, row, hop, rows, sweep, pending, all_anns, depref_anns,
                     inverse_results>>
      /\ a \in pending
  BY DEF PassOver, Current, seedVars, TypeOK
<1>2. Tail(queue) \in Seq(Announcement)
  BY <1>1
<1>3. /\ incoming_announcements' \in [ASes -> Seq(Announcement)]
      /\ incoming_announcements'[a] = Tail(queue)
      /\ \A x \in ASes \ {a} : incoming_announcements'[x] = incoming_announcements[x]
  <2> HIDE DEF queue
  <2>1. incoming_announcements' = [incoming_announcements EXCEPT ![a] = Tail(queue)]
    BY <1>1 DEF queue
  <2>2. QED
    BY <1>2, <2>1 DEF TypeOK
<1>4. Queued(a)' \subseteq Queued(a)
  <2>1. ASSUME NEW k \in DOMAIN Tail(queue) PROVE Tail(queue)[k] \in Queued(a)
    <3>1. k + 1 \in DOMAIN queue /\ Tail(queue)[k] = queue[k + 1]
      BY <1>1
    <3>2. QED
      BY <3>1 DEF Queued
  <2>2. QED
    BY <1>3, <2>1 DEF Queued
<1>5. \A x \in ASes : Queued(x)' \subseteq Queued(x)
  BY <1>3, <1>4 DEF Queued
<1>6. QED
  BY <1>1, <1>3, <1>5 DEF FromNeighbours, Learned

\* An attack that is passed over leaves what was heard as it is.
LEMMA PassOverKeepsHeard ==
    ASSUME InBlock, NEW a \in ASes, PassOver(a),
           origin_to_attacker_victim' = origin_to_attacker_victim
    PROVE  InBlock'
<1>1. TypeOK /\ Phases /\ Current(a)
  BY DEF InBlock, Heard, PassOver
<1>2. /\ UNCHANGED <<options, topo, row, hop, rows, sweep, pending, all_anns, depref_anns,
                     inverse_results>>
      /\ incoming_announcements' \in [ASes -> Seq(Announcement)]
      /\ \A x \in ASes : FromNeighbours(x)' \subseteq FromNeighbours(x)
  BY <1>1, PassedOver
<1>3. TypeOK' /\ Phases'
  BY <1>1, <1>2, Sweeping DEF TypeOK, Phases
<1>4. (RelationshipHonest /\ ValleyFree /\ HeardInTurn)'
  BY <1>2 DEF InBlock, Heard, RelationshipHonest, ValleyFree, HeardInTurn
<1>5. UpSwept'
  BY <1>1, <1>2, PassedOver DEF InBlock, Heard, UpSwept
<1>6. HeardIsCurrent'
  BY <1>2 DEF InBlock, HeardIsCurrent
<1>7. AttacksKnown'
  BY <1>2 DEF InBlock, AttacksKnown, AttackOn, FromAttacker, Seeded
<1>8. QED
  BY <1>3, <1>4, <1>5, <1>6, <1>7 DEF InBlock, Heard

\* What the block's own steps and the main thread's do.
LEMMA BlockSteps ==
    ASSUME Block \/ EndOfBlock
    PROVE  /\ [Next]_vars \/ \E a \in ASes : PassOver(a)
           /\ main = "extrapolate"
           /\ UNCHANGED <<origin_to_attacker_victim, num_between, victim_to_prefixes, calls,
                          attacker_edge_removal, statistics>>
BY DEF Block, EndOfBlock, HandOver, SendOn, SeedsOfRow, Next, ezVars

\* The steps after the block leave the block as it is.
LEMMA CountSteps ==
    ASSUME calculate_successful_attacks \/ NoAnnouncements \/ UNCHANGED allVars
    PROVE  UNCHANGED vars /\ UNCHANGED <<origin_to_attacker_victim, num_between>>
BY DEF calculate_successful_attacks, NoAnnouncements, CountVictim, TraceVictim, Counting,
       getPathNeighborOfAttacker, ReturnNeighbor, Calling, EndCount, allVars, ezVars

\* What holds of the block's announcements holds of the attacks in it.
LEMMA InBlockStep ==
    ASSUME WellRanked, ProvidersAbove, InBlock, num_between \in Nat, [EZNext]_allVars
    PROVE  InBlock'
<1>1. ASSUME [Next]_vars, origin_to_attacker_victim' = origin_to_attacker_victim
      PROVE  InBlock'
  BY <1>1, HeardStep, HeardIsCurrentStep, AttacksKnownStep DEF InBlock
<1>2. CASE give_ann_to_as_path
  BY <1>2, AttackIsKnown
<1>3. CASE Block \/ EndOfBlock
  BY <1>1, <1>3, BlockSteps, PassOverKeepsHeard
<1>4. CASE calculate_successful_attacks \/ NoAnnouncements \/ UNCHANGED allVars
  BY <1>1, <1>4, CountSteps
<1>5. QED
  BY <1>2, <1>3, <1>4 DEF EZNext

\* At first nothing is attacked, traced or counted.
LEMMA EZAtFirst ==
    ASSUME EZInit
    PROVE  InBlock /\ Threads /\ VictimCalled /\ Tracing /\ Edges /\ Tally
<1>1. Heard /\ Init
  BY HeardAtFirst DEF EZInit
<1>2. /\ \A x \in ASes : FromNeighbours(x) = {}
      /\ \A x \in ASes : ~ Seeded(x)
  BY <1>1 DEF Init, FromNeighbours, Queued, Learned, Seeded
<1>3. InBlock
  BY <1>1, <1>2 DEF InBlock, HeardIsCurrent, AttacksKnown
<1>4. Threads
  BY EZAssumption DEF EZInit, Threads
<1>5. VictimCalled /\ Tracing /\ Edges /\ Tally
  BY DEF EZInit, VictimCalled, Tracing, Edges, Tally
<1>6. QED
  BY <1>3, <1>4, <1>5

\* While rows are seeded and swept nobody counts.
LEMMA ThreadsStep ==
    ASSUME Phases, Threads, VictimCalled, [EZNext]_allVars
    PROVE  Threads'
<1>1. CASE Block
  BY <1>1, BlockSteps DEF Threads, Block, ezVars
<1>2. CASE EndOfBlock
  <2>1. sweep' = "done"
    BY <1>2 DEF EndOfBlock, EndBlock, StartSweep
  <2>2. QED
    BY <1>2, <2>1, BlockSteps DEF Threads, EndOfBlock
<1>3. CASE give_ann_to_as_path
  <2>1. sweep = "seed" /\ sweep' = "seed" /\ save_res_thread = "none"
    BY <1>3 DEF give_ann_to_as_path, Phases, Threads
  <2>2. ASSUME NEW v \in victim_to_prefixes'
        PROVE  \E o \in DOMAIN origin_to_attacker_victim :
                   v = origin_to_attacker_victim[o].victim
    BY <1>3, <2>2 DEF give_ann_to_as_path, Attacked, Threads
  <2>3. uncounted' \subseteq victim_to_prefixes'
    BY <1>3 DEF give_ann_to_as_path, Threads
  <2>4. QED
    BY <1>3, <2>1, <2>2, <2>3 DEF give_ann_to_as_path, Threads
<1>4. CASE NoAnnouncements
  BY <1>4 DEF NoAnnouncements, Threads, vars
<1>5. CASE UNCHANGED allVars
  BY <1>5 DEF allVars, ezVars, vars, Threads
<1>6. ASSUME NEW victim \in uncounted, CountVictim(victim) PROVE Threads'
  <2>1. \/ UNCHANGED statistics
        \/ \E field \in {"attacks", "connections", "disconnections"} :
               statistics' = [statistics EXCEPT ![field] = @ + 1]
    BY <1>6 DEF CountVictim, Counts
  <2>2. statistics' \in [attacks : Nat, connections : Nat, disconnections : Nat]
    BY <2>1 DEF Threads
  <2>3. uncounted' \subseteq uncounted
    BY <1>6 DEF CountVictim, Counts
  <2>4. QED
    BY <1>6, <2>2, <2>3 DEF CountVictim, Counting, vars, Threads
<1>7. ASSUME NEW victim \in uncounted, TraceVictim(victim) PROVE Threads'
  BY <1>7 DEF TraceVictim, Counting, vars, Threads
<1>8. CASE getPathNeighborOfAttacker
  BY <1>8 DEF getPathNeighborOfAttacker, Calling, Counting, vars, Threads
<1>9. CASE ReturnNeighbor
  <2>1. /\ statistics' \in [attacks : Nat, connections : Nat, disconnections : Nat]
        /\ uncounted' \subseteq uncounted
    BY <1>9 DEF ReturnNeighbor, Counts, Threads
  <2>2. QED
    BY <1>9, <2>1 DEF ReturnNeighbor, Calling, Counting, vars, Threads
<1>10. CASE EndCount
  <2>1. calls = <<>>
    BY <1>10 DEF EndCount, VictimCalled
  <2>2. QED
    BY <1>10, <2>1 DEF EndCount, Counting, vars, Threads
<1>11. QED
  BY <1>1, <1>2, <1>3, <1>4, <1>5, <1>6, <1>7, <1>8, <1>9, <1>10
     DEF EZNext, calculate_successful_attacks
\* A learned attack came from an AS that uses the same attack: the attacker,
\* or one that learned it as well.
LEMMA AttackCameFrom ==
    ASSUME WellRanked, ProvidersAbove, InBlock, NEW x \in ASes, Learned(x), UsesAttack(x)
    PROVE  LET y == all_anns[x].received_from_asn
               o == all_anns[x].origin
           IN  /\ y \in HasRoute /\ Nearer(x, y) /\ UsesAttack(y)
               /\ all_anns[y].origin = o
               /\ y # origin_to_attacker_victim[o].attacker => Learned(y)
               /\ x \in topo.providers[y] \union topo.peers[y] \union topo.customers[y]
<1> DEFINE ann == all_anns[x]
           y   == ann.received_from_asn
<1>1. /\ y \in HasRoute /\ Nearer(x, y)
      /\ ann = Export(all_anns[y], ann.relationship, y)
      /\ x \in topo.providers[y] \union topo.peers[y] \union topo.customers[y]
  BY SenderIsNearer DEF InBlock
<1>2. y \in ASes /\ all_anns[y] # NoAnn /\ all_anns[y] \in Announcement
  BY <1>1 DEF HasRoute, InBlock, Heard, TypeOK, Slot
<1>3. FromAttacker(ann)
  BY DEF UsesAttack
<1> DEFINE before == all_anns[y]
<1>4. before.origin = ann.origin /\ FromAttacker(before)
  <2>1. \A rel, z : /\ Export(before, rel, z).origin = before.origin
                    /\ FromAttacker(Export(before, rel, z)) => FromAttacker(before)
    <3>1. before \in Announcement
      BY <1>2
    <3> HIDE DEF before
    <3>2. QED
      BY <3>1, MarkIsSent
  <2>2. ann = Export(before, ann.relationship, y)
    BY <1>1
  <2> HIDE DEF before, ann, y
  <2>3. QED
    BY <1>3, <2>1, <2>2
<1>5. UsesAttack(y)
  BY <1>2, <1>4 DEF UsesAttack
<1>6. Seeded(y) => y = origin_to_attacker_victim[ann.origin].attacker
  BY <1>2, <1>4 DEF InBlock, AttacksKnown
<1>7. y # origin_to_attacker_victim[ann.origin].attacker => Learned(y)
  BY <1>2, <1>6 DEF Seeded, Learned
<1>8. QED
  BY <1>1, <1>4, <1>5, <1>7

\* An attack that is used is one of the table.
LEMMA AttackIsOfTable ==
    ASSUME InBlock, Threads, NEW x, UsesAttack(x)
    PROVE  /\ x \in HasRoute
           /\ all_anns[x].origin \in DOMAIN origin_to_attacker_victim
           /\ origin_to_attacker_victim[all_anns[x].origin].attacker \in ASNs
           /\ Seeded(x) => x = origin_to_attacker_victim[all_anns[x].origin].attacker
<1>1. x \in ASes /\ all_anns[x] # NoAnn /\ FromAttacker(all_anns[x])
  BY DEF UsesAttack
<1>2. AttackOn(all_anns[x])
  BY <1>1 DEF InBlock, AttacksKnown, FromNeighbours, Learned, Seeded
<1>3. all_anns[x].origin \in DOMAIN origin_to_attacker_victim
  BY <1>1, <1>2 DEF AttackOn
<1>4. origin_to_attacker_victim[all_anns[x].origin].attacker \in ASNs
  BY <1>3, EZAssumption DEF Threads
<1>5. QED
  BY <1>1, <1>3, <1>4 DEF HasRoute, InBlock, AttacksKnown

\* A victim has no attack but one that it learned: none is its own.
LEMMA VictimLearned ==
    ASSUME AttackersApart, InBlock, Threads, NEW v \in victim_to_prefixes, UsesAttack(v)
    PROVE  v \in ASes /\ Learned(v)
<1>1. PICK o \in DOMAIN origin_to_attacker_victim : v = origin_to_attacker_victim[o].victim
  BY DEF Threads
<1>2. ~ Seeded(v)
  BY <1>1, AttackIsOfTable DEF AttackersApart, Threads
<1>3. QED
  BY <1>2 DEF UsesAttack, Seeded, Learned

\* One victim's calls at a time, which go on from announcement to announcement.
LEMMA VictimCalledStep ==
    ASSUME InBlock, Threads, VictimCalled, [EZNext]_allVars
    PROVE  VictimCalled'
<1>1. CASE calls' = <<>>
  BY <1>1 DEF VictimCalled
<1>2. CASE Block \/ EndOfBlock \/ give_ann_to_as_path
  <2>1. save_res_thread = "none" /\ calls' = calls
    BY <1>2, BlockSteps DEF give_ann_to_as_path, InBlock, Heard, Phases, Threads
  <2>2. QED
    BY <1>1, <2>1 DEF Threads
<1>3. CASE NoAnnouncements \/ UNCHANGED allVars
  BY <1>3 DEF NoAnnouncements, allVars, ezVars, vars, VictimCalled, UsesAttack
<1>4. ASSUME NEW victim \in uncounted, CountVictim(victim) PROVE VictimCalled'
  BY <1>1, <1>4 DEF CountVictim
<1>5. ASSUME NEW victim \in uncounted, TraceVictim(victim) PROVE VictimCalled'
  <2>1. /\ calls' = <<victim>> /\ victim \in uncounted'
        /\ victim \in ASes /\ UsesAttack(victim)'
    BY <1>5 DEF TraceVictim, Counting, vars, UsesAttack
  <2>2. QED
    BY <2>1, PropagationAssumption DEF VictimCalled
<1>6. CASE getPathNeighborOfAttacker
  <2>1. /\ calls # <<>> /\ UNCHANGED <<vars, uncounted>>
        /\ Called \in ASes /\ all_anns[Called] # NoAnn
        /\ calls' = Append(calls, Sender)
    BY <1>6 DEF getPathNeighborOfAttacker, Calling, Counting
  <2>2. all_anns[Called] \in Announcement
    BY <2>1 DEF InBlock, Heard, TypeOK, Slot
  <2>3. Sender \in ASNs
    BY <2>2, FieldTypes DEF Sender
  <2>4. calls' \in Seq(ASNs) /\ calls'[1] = calls[1]
    BY <2>1, <2>3 DEF VictimCalled
  <2>5. UsesAttack(calls[1])'
    BY <2>1, <2>4 DEF vars, UsesAttack, VictimCalled
  <2>6. QED
    BY <2>1, <2>4, <2>5 DEF VictimCalled
<1>7. CASE ReturnNeighbor
  BY <1>1, <1>7 DEF ReturnNeighbor
<1>8. CASE EndCount
  <2>1. calls' = <<>>
    BY <1>8 DEF EndCount, VictimCalled
  <2>2. QED
    BY <1>1, <2>1
<1>9. QED
  BY <1>2, <1>3, <1>4, <1>5, <1>6, <1>7, <1>8 DEF EZNext, calculate_successful_attacks

\* The traceback.
LEMMA TracingStep ==
    ASSUME WellRanked, ProvidersAbove, AttackersApart, InBlock, Threads, VictimCalled,
           Tracing, [EZNext]_allVars
    PROVE  Tracing'
<1>1. CASE calls' = <<>>
  BY <1>1 DEF Tracing
<1>2. CASE Block \/ EndOfBlock \/ give_ann_to_as_path
  <2>1. save_res_thread = "none" /\ calls' = calls
    BY <1>2, BlockSteps DEF give_ann_to_as_path, InBlock, Heard, Phases, Threads
  <2>2. QED
    BY <1>1, <2>1 DEF Threads
<1>3. CASE NoAnnouncements \/ UNCHANGED allVars
  BY <1>3 DEF NoAnnouncements, allVars, ezVars, vars, Tracing, Learned, UsesAttack, Nearer,
     Stage, LaterLeg, Leg, Height
<1>4. ASSUME NEW victim \in uncounted, CountVictim(victim) PROVE Tracing'
  BY <1>1, <1>4 DEF CountVictim
<1>5. ASSUME NEW victim \in uncounted, TraceVictim(victim) PROVE Tracing'
  <2>1. /\ calls' = <<victim>> /\ UNCHANGED vars
        /\ UsesAttack(victim)
    BY <1>5 DEF TraceVictim, Counting
  <2>2. victim \in ASes /\ Learned(victim)
    BY <2>1, VictimLearned DEF Threads
  <2>3. calls' \in Seq(ASes) /\ DOMAIN calls' = {1} /\ calls'[1] = victim
    BY <2>1, <2>2
  <2>4. UsesAttack(victim)' /\ Learned(victim)'
    BY <2>1, <2>2 DEF vars, UsesAttack, Learned
  <2>5. QED
    BY <2>3, <2>4 DEF Tracing
<1>6. CASE getPathNeighborOfAttacker
  <2> DEFINE n == Len(calls)
             x == calls[n]
             y == all_anns[x].received_from_asn
             o == all_anns[calls[1]].origin
  <2>1. /\ calls # <<>> /\ UNCHANGED vars
        /\ y # origin_to_attacker_victim[o].attacker
        /\ calls' = Append(calls, y)
    BY <1>6 DEF getPathNeighborOfAttacker, Calling, Counting, Called, Sender, Attacker
  <2>2. /\ calls \in Seq(ASes) /\ n \in Nat /\ n > 0 /\ DOMAIN calls = 1..n
        /\ x \in ASes /\ calls[1] \in ASes
    BY <2>1 DEF Tracing
  <2>3. Learned(x) /\ UsesAttack(x) /\ all_anns[x].origin = o
    BY <2>2 DEF Tracing
  <2>4. /\ y \in HasRoute /\ Nearer(x, y) /\ UsesAttack(y)
        /\ all_anns[y].origin = o /\ Learned(y)
    BY <2>1, <2>2, <2>3, AttackCameFrom
  <2>5. \A j \in 1..n : calls[j] \in HasRoute /\ (j < n => Nearer(calls[j], x))
    BY <2>2 DEF Tracing, Learned, HasRoute
  <2>6. \A j \in 1..n : Nearer(calls[j], y)
    <3>1. TypeOK
      BY DEF InBlock, Heard
    <3> HIDE DEF y
    <3>2. SUFFICES ASSUME NEW j \in 1..n, j < n PROVE Nearer(calls[j], y)
      BY <2>2, <2>4
    <3>3. QED
      BY <2>2, <2>4, <2>5, <3>1, <3>2, NearerOrders
  <2>7. /\ calls' \in Seq(ASes) /\ DOMAIN calls' = 1..(n + 1)
        /\ calls'[n + 1] = y /\ \A j \in 1..n : calls'[j] = calls[j]
    BY <2>1, <2>2, <2>4 DEF HasRoute
  <2> HIDE DEF y, n
  <2>8. ASSUME NEW k \in 1..(n + 1)
        PROVE  /\ Learned(calls'[k]) /\ UsesAttack(calls'[k])
               /\ all_anns[calls'[k]].origin = o
               /\ \A j \in 1..(k - 1) : Nearer(calls'[j], calls'[k])
    <3>1. CASE k = n + 1
      BY <2>2, <2>4, <2>6, <2>7, <3>1
    <3>2. CASE k \in 1..n
      BY <2>2, <2>7, <3>2 DEF Tracing
    <3>3. QED
      BY <2>2, <3>1, <3>2
  <2>9. \A z, w : /\ Learned(z)' <=> Learned(z)
                  /\ UsesAttack(z)' <=> UsesAttack(z)
                  /\ Nearer(z, w)' <=> Nearer(z, w)
    BY <2>1 DEF vars, Learned, UsesAttack, Nearer, Stage, LaterLeg, Leg, Height
  <2>10. all_anns' = all_anns /\ calls'[1] = calls[1]
    BY <2>1, <2>2, <2>7 DEF vars
  <2>11. QED
    BY <2>7, <2>8, <2>9, <2>10 DEF Tracing
<1>7. CASE ReturnNeighbor
  BY <1>1, <1>7 DEF ReturnNeighbor
<1>8. CASE EndCount
  <2>1. calls' = <<>>
    BY <1>8 DEF EndCount, VictimCalled
  <2>2. QED
    BY <1>1, <2>1
<1>9. QED
  BY <1>2, <1>3, <1>4, <1>5, <1>6, <1>7, <1>8 DEF EZNext, calculate_successful_attacks
\* The edges that are found.
LEMMA EdgesStep ==
    ASSUME WellRanked, ProvidersAbove, InBlock, Threads, Tracing, Edges, [EZNext]_allVars
    PROVE  Edges'
<1>1. CASE attacker_edge_removal' = <<>>
  BY <1>1 DEF Edges
<1>2. CASE Block \/ EndOfBlock \/ give_ann_to_as_path
  <2>1. save_res_thread = "none" /\ attacker_edge_removal' = attacker_edge_removal
    BY <1>2, BlockSteps DEF give_ann_to_as_path, InBlock, Heard, Phases, Threads
  <2>2. QED
    BY <1>1, <2>1 DEF Edges
<1>3. ASSUME UNCHANGED <<vars, attacker_edge_removal>>,
             save_res_thread' = "none" => save_res_thread = "none"
      PROVE  Edges'
  BY <1>3 DEF vars, Edges, IsEdge, UsesAttack
<1>4. CASE ReturnNeighbor
  <2> DEFINE n == Len(calls)
             x == calls[n]
             attacker == all_anns[x].received_from_asn
  <2>1. /\ calls # <<>> /\ UNCHANGED vars /\ save_res_thread' = "running"
        /\ attacker_edge_removal' = Append(attacker_edge_removal, <<attacker, x>>)
    BY <1>4 DEF ReturnNeighbor, Calling, Counting, Called, Sender, Attacker
  <2>2. n \in DOMAIN calls /\ x \in ASes
    BY <2>1 DEF Tracing
  <2>3. Learned(x) /\ UsesAttack(x)
    BY <2>2 DEF Tracing
  <2>4. attacker \in ASes /\ IsEdge(attacker, x)
    <3>1. /\ attacker \in HasRoute
          /\ x \in topo.providers[attacker] \union topo.peers[attacker]
                       \union topo.customers[attacker]
      BY <2>2, <2>3, AttackCameFrom
    <3>2. QED
      BY <2>3, <3>1 DEF HasRoute, IsEdge
  <2> HIDE DEF x, attacker
  <2>5. <<attacker, x>> \in ASNs \X ASNs
    BY <2>2, <2>4, PropagationAssumption
  <2> DEFINE m == Len(attacker_edge_removal)
  <2>6. /\ attacker_edge_removal' \in Seq(ASNs \X ASNs)
        /\ m \in Nat /\ DOMAIN attacker_edge_removal = 1..m
        /\ DOMAIN attacker_edge_removal' = 1..(m + 1)
        /\ attacker_edge_removal'[m + 1] = <<attacker, x>>
        /\ \A k \in 1..m : attacker_edge_removal'[k] = attacker_edge_removal[k]
    BY <2>1, <2>5 DEF Edges
  <2> HIDE DEF m
  <2>7. ASSUME NEW k \in 1..(m + 1)
        PROVE  IsEdge(attacker_edge_removal'[k][1], attacker_edge_removal'[k][2])
    <3>1. CASE k = m + 1
      BY <2>4, <2>6, <3>1
    <3>2. CASE k \in 1..m
      BY <2>6, <3>2 DEF Edges
    <3>3. QED
      BY <2>6, <3>1, <3>2
  <2>8. \A z, w : IsEdge(z, w)' <=> IsEdge(z, w)
    BY <2>1 DEF vars, IsEdge, UsesAttack
  <2>9. QED
    BY <2>1, <2>6, <2>7, <2>8 DEF Edges
<1>5. CASE NoAnnouncements \/ UNCHANGED allVars
  BY <1>3, <1>5 DEF NoAnnouncements, allVars, ezVars
<1>6. ASSUME NEW victim \in uncounted, CountVictim(victim) \/ TraceVictim(victim)
      PROVE  Edges'
  BY <1>3, <1>6 DEF CountVictim, TraceVictim, Counting
<1>7. CASE getPathNeighborOfAttacker \/ EndCount
  BY <1>3, <1>7 DEF getPathNeighborOfAttacker, Calling, EndCount, Counting
<1>8. QED
  BY <1>2, <1>4, <1>5, <1>6, <1>7 DEF EZNext, calculate_successful_attacks

\* Counting a victim adds it to those that fared like it.
LEMMA CountOne ==
    ASSUME NEW v \in uncounted \intersect ASes, uncounted \subseteq victim_to_prefixes,
           uncounted' = uncounted \ {v}, UNCHANGED <<vars, victim_to_prefixes>>
    PROVE  /\ Misled' = IF UsesAttack(v) THEN Misled \union {v} ELSE Misled
           /\ Reached' = IF all_anns[v] # NoAnn /\ ~ UsesAttack(v)
                         THEN Reached \union {v} ELSE Reached
           /\ CutOff' = IF all_anns[v] = NoAnn THEN CutOff \union {v} ELSE CutOff
           /\ v \notin Misled \union Reached \union CutOff
<1>1. Counted' = Counted \union {v} /\ v \notin Counted
  BY DEF Counted
<1>2. all_anns' = all_anns /\ \A x : UsesAttack(x)' <=> UsesAttack(x)
  BY DEF vars, UsesAttack
<1>3. QED
  BY <1>1, <1>2 DEF Misled, Reached, CutOff

\* There are finitely many victims in the graph.
LEMMA CountsAreFinite ==
    /\ IsFiniteSet(Misled) /\ IsFiniteSet(Reached) /\ IsFiniteSet(CutOff)
    /\ \A v : /\ v \notin Misled  => Cardinality(Misled \union {v}) = Cardinality(Misled) + 1
              /\ v \notin Reached => Cardinality(Reached \union {v}) = Cardinality(Reached) + 1
              /\ v \notin CutOff  => Cardinality(CutOff \union {v}) = Cardinality(CutOff) + 1
<1>1. Misled \subseteq ASes /\ Reached \subseteq ASes /\ CutOff \subseteq ASes
  BY DEF Misled, Reached, CutOff, Counted
<1>2. IsFiniteSet(Misled) /\ IsFiniteSet(Reached) /\ IsFiniteSet(CutOff)
  BY <1>1, FS_Subset, PropagationAssumption
<1>3. QED
  BY <1>2, FS_AddElement

\* The statistics.
LEMMA TallyStep ==
    ASSUME InBlock, Threads, VictimCalled, Tally, [EZNext]_allVars
    PROVE  Tally'
<1>1. CASE Block \/ give_ann_to_as_path \/ NoAnnouncements
  <2>1. save_res_thread' = "none"
    BY <1>1 DEF Block, ezVars, give_ann_to_as_path, NoAnnouncements, InBlock, Heard,
       Phases, Threads
  <2>2. QED
    BY <2>1 DEF Tally
<1>2. CASE EndOfBlock
  <2>1. /\ uncounted' = victim_to_prefixes /\ UNCHANGED <<victim_to_prefixes, statistics>>
        /\ save_res_thread = "none"
    BY <1>2 DEF EndOfBlock, Threads
  <2>2. statistics' = [attacks |-> 0, connections |-> 0, disconnections |-> 0]
    BY <2>1 DEF Threads
  <2>3. Misled' = {} /\ Reached' = {} /\ CutOff' = {}
    BY <2>1 DEF Misled, Reached, CutOff, Counted
  <2>4. QED
    BY <2>2, <2>3, FS_EmptySet DEF Tally
<1>3. ASSUME UNCHANGED <<vars, statistics>>, save_res_thread' = save_res_thread,
             Counted' = Counted
      PROVE  Tally'
  <2>1. all_anns' = all_anns /\ \A x : UsesAttack(x)' <=> UsesAttack(x)
    BY <1>3 DEF vars, UsesAttack
  <2>2. Misled' = Misled /\ Reached' = Reached /\ CutOff' = CutOff
    BY <1>3, <2>1 DEF Misled, Reached, CutOff
  <2>3. QED
    BY <1>3, <2>2 DEF Tally
<1>4. ASSUME NEW v \in uncounted \intersect ASes, save_res_thread = "running",
             UNCHANGED <<vars, victim_to_prefixes>>,
             \/ all_anns[v] = NoAnn /\ Counts(v, "disconnections")
             \/ all_anns[v] # NoAnn /\ ~ UsesAttack(v) /\ Counts(v, "connections")
             \/ UsesAttack(v) /\ Counts(v, "attacks")
      PROVE  Tally'
  <2>1. uncounted' = uncounted \ {v}
    BY <1>4 DEF Counts
  <2>2. /\ Misled' = IF UsesAttack(v) THEN Misled \union {v} ELSE Misled
        /\ Reached' = IF all_anns[v] # NoAnn /\ ~ UsesAttack(v)
                      THEN Reached \union {v} ELSE Reached
        /\ CutOff' = IF all_anns[v] = NoAnn THEN CutOff \union {v} ELSE CutOff
        /\ v \notin Misled \union Reached \union CutOff
    BY <1>4, <2>1, CountOne DEF Threads
  <2>3. /\ statistics \in [attacks : Nat, connections : Nat, disconnections : Nat]
        /\ statistics.attacks = Cardinality(Misled)
        /\ statistics.connections = Cardinality(Reached)
        /\ statistics.disconnections = Cardinality(CutOff)
    BY <1>4 DEF Threads, Tally
  <2>4. CASE all_anns[v] = NoAnn /\ Counts(v, "disconnections")
    <3>1. ~ UsesAttack(v)
      BY <2>4 DEF UsesAttack
    <3>2. Misled' = Misled /\ Reached' = Reached /\ CutOff' = CutOff \union {v}
      BY <2>2, <2>4, <3>1
    <3>3. /\ statistics'.attacks = statistics.attacks
          /\ statistics'.connections = statistics.connections
          /\ statistics'.disconnections = statistics.disconnections + 1
      BY <2>3, <2>4 DEF Counts
    <3>4. QED
      BY <2>2, <2>3, <3>2, <3>3, CountsAreFinite DEF Tally
  <2>5. CASE all_anns[v] # NoAnn /\ ~ UsesAttack(v) /\ Counts(v, "connections")
    <3>1. Misled' = Misled /\ Reached' = Reached \union {v} /\ CutOff' = CutOff
      BY <2>2, <2>5
    <3>2. /\ statistics'.attacks = statistics.attacks
          /\ statistics'.connections = statistics.connections + 1
          /\ statistics'.disconnections = statistics.disconnections
      BY <2>3, <2>5 DEF Counts
    <3>3. QED
      BY <2>2, <2>3, <3>1, <3>2, CountsAreFinite DEF Tally
  <2>6. CASE UsesAttack(v) /\ Counts(v, "attacks")
    <3>1. all_anns[v] # NoAnn
      BY <2>6 DEF UsesAttack
    <3>2. Misled' = Misled \union {v} /\ Reached' = Reached /\ CutOff' = CutOff
      BY <2>2, <2>6, <3>1
    <3>3. /\ statistics'.attacks = statistics.attacks + 1
          /\ statistics'.connections = statistics.connections
          /\ statistics'.disconnections = statistics.disconnections
      BY <2>3, <2>6 DEF Counts
    <3>4. QED
      BY <2>2, <2>3, <3>2, <3>3, CountsAreFinite DEF Tally
  <2>7. QED
    BY <1>4, <2>4, <2>5, <2>6
<1>5. ASSUME NEW v \in uncounted, CountVictim(v) PROVE Tally'
  <2>1. /\ UNCHANGED vars /\ UNCHANGED <<victim_to_prefixes, save_res_thread>>
        /\ save_res_thread = "running"
    BY <1>5 DEF CountVictim, Counting
  <2>2. CASE v \notin ASes /\ uncounted' = uncounted \ {v} /\ UNCHANGED statistics
    <3>1. Counted' = Counted
      BY <2>1, <2>2 DEF Counted
    <3>2. QED
      BY <1>3, <2>1, <2>2, <3>1
  <2>3. CASE v \in ASes
    <3>1. \/ all_anns[v] = NoAnn /\ Counts(v, "disconnections")
          \/ all_anns[v] # NoAnn /\ ~ UsesAttack(v) /\ Counts(v, "connections")
          \/ UsesAttack(v) /\ Counts(v, "attacks")
      BY <1>5, <2>3 DEF CountVictim
    <3>2. QED
      BY <1>4, <1>5, <2>1, <2>3, <3>1
  <2>4. QED
    BY <1>5, <2>2, <2>3 DEF CountVictim, UsesAttack
<1>6. CASE ReturnNeighbor
  <2>1. /\ UNCHANGED <<vars, victim_to_prefixes>> /\ save_res_thread = "running"
        /\ calls # <<>> /\ Counts(calls[1], "attacks")
    BY <1>6 DEF ReturnNeighbor, Calling, Counting
  <2>2. calls[1] \in uncounted \intersect ASes /\ UsesAttack(calls[1])
    BY <2>1 DEF VictimCalled, UsesAttack
  <2>3. QED
    BY <1>4, <2>1, <2>2
<1>7. CASE EndCount
  BY <1>7 DEF EndCount, Tally
<1>8. ASSUME NEW v \in uncounted, TraceVictim(v) PROVE Tally'
  BY <1>3, <1>8 DEF TraceVictim, Counting, Counted
<1>9. CASE getPathNeighborOfAttacker \/ UNCHANGED allVars
  BY <1>3, <1>9 DEF getPathNeighborOfAttacker, Calling, Counting, allVars, ezVars, Counted
<1>10. QED
  BY <1>1, <1>2, <1>5, <1>6, <1>7, <1>8, <1>9 DEF EZNext, calculate_successful_attacks
\* The route of an AS that uses an attack leads to the attacker: among those
\* on it, none has a route that leads no further.
LEMMA TrafficGoesToAttacker ==
    ASSUME WellRanked, ProvidersAbove, InBlock, Threads, NEW a \in ASes, UsesAttack(a)
    PROVE  origin_to_attacker_victim[all_anns[a].origin].attacker \in Traffic(a)
<1> DEFINE o == all_anns[a].origin
           attacker == origin_to_attacker_victim[o].attacker
<1>1. attacker \in ASNs
  BY AttackIsOfTable
<1>2. SUFFICES ASSUME NEW S \in SUBSET ASNs, a \in S, \A c \in S : Onward(c) \in S,
                      attacker \notin S
               PROVE  FALSE
  BY <1>1 DEF Traffic
<1> DEFINE Users == {x \in S \intersect ASes : UsesAttack(x) /\ all_anns[x].origin = o}
           Ahead(x) == {y \in HasRoute : Nearer(x, y)}
           Sizes == {Cardinality(Ahead(x)) : x \in Users}
<1>3. \A x : IsFiniteSet(Ahead(x)) /\ Cardinality(Ahead(x)) \in Nat
  <2>1. \A x : Ahead(x) \subseteq ASes
    BY DEF HasRoute
  <2> HIDE DEF Ahead
  <2>2. QED
    BY <2>1, FS_Subset, FS_CardinalityType, PropagationAssumption
<1>4. ASSUME NEW x \in Users
      PROVE  \E y \in Users : Cardinality(Ahead(y)) < Cardinality(Ahead(x))
  <2> DEFINE y == all_anns[x].received_from_asn
  <2>1. x \in HasRoute /\ ~ Seeded(x)
    BY <1>2, AttackIsOfTable
  <2>2. Learned(x)
    BY <2>1 DEF Seeded, Learned, HasRoute
  <2>3. /\ y \in HasRoute /\ Nearer(x, y) /\ UsesAttack(y)
        /\ all_anns[y].origin = o
    BY <2>2, AttackCameFrom
  <2>4. y \in S
    BY <1>2, <2>1 DEF Onward, HasRoute
  <2> HIDE DEF y
  <2>5. y \in Users
    BY <2>3, <2>4 DEF HasRoute
  <2>6. Ahead(y) \subseteq Ahead(x) /\ y \in Ahead(x) /\ y \notin Ahead(y)
    <3>1. TypeOK
      BY DEF InBlock, Heard
    <3>2. \A z \in HasRoute : Nearer(y, z) => Nearer(x, z)
      BY <2>1, <2>3, <3>1, NearerOrders
    <3>3. ~ Nearer(y, y)
      BY <2>3, <3>1, NearerOrders
    <3>4. QED
      BY <2>3, <3>2, <3>3
  <2> HIDE DEF Ahead
  <2>7. Cardinality(Ahead(y)) < Cardinality(Ahead(x))
    <3>1. /\ Cardinality(Ahead(y)) <= Cardinality(Ahead(x))
          /\ Cardinality(Ahead(y)) = Cardinality(Ahead(x)) => Ahead(y) = Ahead(x)
      BY <1>3, <2>6, FS_Subset
    <3>2. QED
      BY <1>3, <2>6, <3>1
  <2>8. QED
    BY <2>5, <2>7
<1> HIDE DEF Ahead
<1>5. Sizes \in SUBSET Nat /\ Sizes # {}
  <2>1. a \in Users
    BY <1>2
  <2>2. QED
    BY <1>3, <2>1
<1>6. PICK n \in Sizes : \A m \in Sizes : n <= m
  BY <1>5, LeastExists
<1>7. QED
  BY <1>3, <1>4, <1>6

\* What the threads do, whoever attacks whom.
EZSafe == InBlock /\ Threads /\ VictimCalled /\ Tally

\* Every step of the two threads preserves it.
LEMMA EZSafeStep ==
    ASSUME WellRanked, ProvidersAbove, EZSafe, [EZNext]_allVars
    PROVE  EZSafe'
BY InBlockStep, ThreadsStep, VictimCalledStep, TallyStep
   DEF EZSafe, InBlock, Heard, Threads

(***************************************************************************)
(* In every ranked graph, for every table in which no attacker is attacked *)
(* itself, the traceback from a victim comes to the AS that has the attack *)
(* right from the attacker: no dereference of a missing announcement, no   *)
(* endless recursion, and the edge removed is one the attack came over.    *)
(***************************************************************************)
THEOREM EdgesAreTraced ==
    ASSUME WellRanked, ProvidersAbove, AttackersApart
    PROVE  EZSpec => []EdgesTraced
<1> DEFINE Inv == EZSafe /\ Tracing /\ Edges
<1>1. EZInit => Inv
  BY EZAtFirst DEF EZSafe
<1>2. Inv /\ [EZNext]_allVars => Inv'
  BY EZSafeStep, TracingStep, EdgesStep DEF EZSafe
<1>3. Inv => EdgesTraced
  <2> SUFFICES ASSUME Inv PROVE EdgesTraced
    OBVIOUS
  <2>1. ASSUME NEW k \in DOMAIN calls
        PROVE  /\ calls[k] \in ASes /\ all_anns[calls[k]] # NoAnn
               /\ \A j \in DOMAIN calls : calls[j] = calls[k] => j = k
    <3>1. \A j \in DOMAIN calls : calls[j] \in HasRoute /\ ~ Nearer(calls[j], calls[j])
      <4>1. \A j \in DOMAIN calls : calls[j] \in HasRoute
        BY DEF Tracing, Learned, HasRoute
      <4>2. QED
        BY <4>1, NearerOrders DEF EZSafe, InBlock, Heard
    <3>2. Len(calls) \in Nat /\ DOMAIN calls = 1..Len(calls)
      BY DEF Tracing
    <3>3. \A i, j \in DOMAIN calls : j < i => Nearer(calls[j], calls[i])
      BY <3>2 DEF Tracing
    <3>4. \A i, j \in DOMAIN calls : calls[j] = calls[i] => ~ (j < i) /\ ~ (i < j)
      BY <3>1, <3>3
    <3>5. \A j \in DOMAIN calls : calls[j] = calls[k] => j = k
      BY <3>2, <3>4
    <3>6. QED
      BY <3>1, <3>5 DEF HasRoute
  <2>2. ASSUME NEW k \in DOMAIN attacker_edge_removal
        PROVE  LET attacker == attacker_edge_removal[k][1]
                   neighbor == attacker_edge_removal[k][2]
               IN  /\ neighbor \in topo.providers[attacker] \union topo.peers[attacker]
                                       \union topo.customers[attacker]
                   /\ UsesAttack(neighbor)
                   /\ all_anns[neighbor].received_from_asn = attacker
    BY DEF Edges, IsEdge
  <2>3. QED
    BY <2>1, <2>2 DEF EdgesTraced
<1> HIDE DEF Inv
<1>4. QED
  BY <1>1, <1>2, <1>3, PTL DEF EZSpec

(***************************************************************************)
(* In every ranked graph, for every table, an AS that uses an attack sends *)
(* its traffic to the attacker, and the statistics say what became of the  *)
(* victims that were counted so far, each once.                            *)
(***************************************************************************)
THEOREM OutcomeIsCounted ==
    ASSUME WellRanked, ProvidersAbove
    PROVE  EZSpec => []Outcome
<1>1. EZInit => EZSafe
  BY EZAtFirst DEF EZSafe
<1>2. EZSafe /\ [EZNext]_allVars => EZSafe'
  BY EZSafeStep
<1>3. EZSafe => Outcome
  <2> DEFINE counted == (victim_to_prefixes \ uncounted) \intersect ASes
             routed  == {v \in counted : all_anns[v] # NoAnn}
             misled  == {v \in counted : UsesAttack(v)}
  <2>1. misled = Misled /\ routed \ misled = Reached /\ counted \ routed = CutOff
    BY DEF Misled, Reached, CutOff, Counted
  <2>2. EZSafe => \A a \in ASes : UsesAttack(a) =>
            origin_to_attacker_victim[all_anns[a].origin].attacker \in Traffic(a)
    BY TrafficGoesToAttacker DEF EZSafe
  <2>3. QED
    BY <2>1, <2>2 DEF EZSafe, Tally, Outcome
<1>4. QED
  BY <1>1, <1>2, <1>3, PTL DEF EZSpec

-----------------------------------------------------------------------------
(***************************************************************************)
(* The paths of the attacks.                                               *)
(***************************************************************************)
IsAttack(a) == all_anns[a] # NoAnn /\ FromAttacker(all_anns[a])

PathTypes ==
    /\ as_path \in [ASes -> Seq(ASNs)]
    /\ incoming_paths \in [ASes -> Seq(Seq(ASNs))]
    /\ \A x \in ASes : Len(incoming_paths[x]) = Len(incoming_announcements[x])

\* What is queued has the path of its sender, as it is now.
PathsToldRight ==
    \A x \in ASes : \A k \in DOMAIN incoming_announcements[x] :
        LET ann == incoming_announcements[x][k]
        IN  FromAttacker(ann) => incoming_paths[x][k] = as_path[ann.received_from_asn]

RecordedPath(a) ==
    <<a>> \o (IF Seeded(a) THEN <<>> ELSE as_path[all_anns[a].received_from_asn])

PathsRecorded == \A a \in ASes : IsAttack(a) => as_path[a] = RecordedPath(a)

\* Where the ASes on the path of b are: each sent the attack up, from below b if
\* b does so too, or is higher than b, to which it sent it down.
Behind(b, c) ==
    /\ c \in ASes
    /\ IF SendsUp(b) THEN SendsUp(c) /\ topo.rank[c] <= topo.rank[b]
       ELSE \/ c = b \/ SendsUp(c)
            \/ all_anns[b].relationship = AS_REL_PROVIDER /\ topo.rank[b] < topo.rank[c]

PathsBehind ==
    \A b \in ASes : IsAttack(b) => \A k \in DOMAIN as_path[b] : Behind(b, as_path[b][k])

Paths == PathTypes /\ PathsToldRight /\ PathsRecorded /\ PathsBehind

-----------------------------------------------------------------------------
\* A path that goes through one more AS.
LEMMA LongerPath ==
    ASSUME NEW a \in ASNs, NEW path \in Seq(ASNs)
    PROVE  /\ <<a>> \o path \in Seq(ASNs)
           /\ \A k \in DOMAIN (<<a>> \o path) :
                 \/ (<<a>> \o path)[k] = a
                 \/ \E j \in DOMAIN path : (<<a>> \o path)[k] = path[j]
<1>1. /\ <<a>> \in Seq(ASNs) /\ Len(<<a>>) = 1 /\ <<a>>[1] = a
      /\ <<a>> \o path \in Seq(ASNs) /\ Len(<<a>> \o path) = 1 + Len(path)
  OBVIOUS
<1>2. ASSUME NEW k \in DOMAIN (<<a>> \o path), k # 1
      PROVE  k - 1 \in DOMAIN path /\ (<<a>> \o path)[k] = path[k - 1]
  BY <1>1, <1>2
<1>3. (<<a>> \o path)[1] = a
  BY <1>1
<1>4. QED
  BY <1>1, <1>2, <1>3

\* A route that grows is still sent up if it was.
LEMMA SendsUpStill ==
    ASSUME TypeOK, TypeOK', NEW c \in ASes, Grows(c), SendsUp(c)
    PROVE  SendsUp(c)'
<1>1. all_anns[c] \in Announcement /\ all_anns'[c] # NoAnn /\ all_anns'[c] \in Announcement
  BY DEF TypeOK, Slot, SendsUp, Grows
<1>2. /\ all_anns[c].relationship \in 0..3 /\ all_anns'[c].relationship \in 0..3
      /\ all_anns[c].relationship <= all_anns'[c].relationship
  BY <1>1, FieldTypes DEF SendsUp, Grows
<1>3. QED
  BY <1>1, <1>2 DEF SendsUp, AS_REL_CUSTOMER

\* The ASes on a path stay behind it while routes grow.
LEMMA BehindStill ==
    ASSUME TypeOK, TypeOK', topo' = topo, \A c \in ASes : Grows(c),
           NEW b \in ASes, all_anns'[b] = all_anns[b], NEW c, Behind(b, c)
    PROVE  Behind(b, c)'
<1>1. c \in ASes /\ (SendsUp(c) => SendsUp(c)') /\ SendsUp(b)' = SendsUp(b)
  BY SendsUpStill DEF Behind, SendsUp
<1>2. QED
  BY <1>1 DEF Behind

\* Those on the path of a neighbour are behind whoever takes its attack.
LEMMA BehindNext ==
    ASSUME WellRanked, ProvidersAbove, TypeOK, RelationshipHonest, ValleyFree,
           topo \in Topologies, NEW x \in ASes, NEW ann \in FromNeighbours(x),
           NEW c, Behind(ann.received_from_asn, c)
    PROVE  /\ ann.relationship = AS_REL_CUSTOMER =>
                  c \in ASes /\ SendsUp(c) /\ topo.rank[c] < topo.rank[x]
           /\ ann.relationship = AS_REL_PEER => c \in ASes /\ SendsUp(c)
           /\ ann.relationship = AS_REL_PROVIDER =>
                  c \in ASes /\ (SendsUp(c) \/ topo.rank[x] < topo.rank[c])
<1> DEFINE y == ann.received_from_asn
<1>1. /\ y \in ASes /\ c \in ASes
      /\ ann.relationship = AS_REL_CUSTOMER => x \in topo.providers[y]
      /\ ann.relationship = AS_REL_PROVIDER => x \in topo.customers[y]
  BY DEF RelationshipHonest, Behind
<1>2. topo.rank[y] \in Int /\ topo.rank[c] \in Int /\ topo.rank[x] \in Int
  BY <1>1 DEF TypeOK, Topology
<1>3. /\ ann.relationship = AS_REL_CUSTOMER => topo.rank[y] < topo.rank[x]
      /\ ann.relationship = AS_REL_PROVIDER => topo.rank[x] < topo.rank[y]
  BY <1>1 DEF WellRanked, ProvidersAbove
<1>4. ann.relationship \in {AS_REL_PEER, AS_REL_CUSTOMER} => SendsUp(y)
  BY DEF ValleyFree, SendsUp, AS_REL_PEER, AS_REL_CUSTOMER
<1> HIDE DEF y
<1>5. Behind(y, c)
  BY DEF y
<1>6. QED
  BY <1>1, <1>2, <1>3, <1>4, <1>5 DEF Behind

\* The path of what an AS with a route to send up, or below the sender, gets
\* back: what comes back is worse than what it has.
LEMMA VisitedIsWorse ==
    ASSUME WellRanked, ProvidersAbove, InBlock, Paths, NEW x \in ASes,
           NEW k \in DOMAIN incoming_announcements[x],
           FromAttacker(incoming_announcements[x][k]), Visited(x, incoming_paths[x][k])
    PROVE  /\ all_anns[x] # NoAnn
           /\ Priority(incoming_announcements[x][k]) < Priority(all_anns[x])
<1> DEFINE ann == incoming_announcements[x][k]
           y   == ann.received_from_asn
<1>1. ann \in FromNeighbours(x) /\ ann \in Announcement
  BY DEF FromNeighbours, Queued, InBlock, Heard, TypeOK
<1>2. y \in ASes /\ all_anns[y] # NoAnn /\ ann = Export(all_anns[y], ann.relationship, y)
      /\ ann.relationship # AS_REL_ORIGIN
  BY <1>1 DEF InBlock, Heard, RelationshipHonest, HeardIsCurrent
<1>3. FromAttacker(all_anns[y])
  <2> DEFINE before == all_anns[y]
             rel == ann.relationship
  <2>1. before \in Announcement /\ FromAttacker(ann) /\ ann = Export(before, rel, y)
    BY <1>2 DEF InBlock, Heard, TypeOK, Slot
  <2> HIDE DEF before, rel, ann, y
  <2>2. FromAttacker(before)
    BY <2>1, MarkIsSent
  <2>3. QED
    BY <2>2 DEF before
<1>4. incoming_paths[x][k] = as_path[y]
  BY DEF Paths, PathsToldRight
<1>5. Behind(y, x)
  <2>1. PICK j \in DOMAIN as_path[y] : as_path[y][j] = x
    BY <1>4 DEF Visited
  <2>2. QED
    BY <1>2, <1>3, <2>1 DEF Paths, PathsBehind, IsAttack
<1>6. topo.rank[x] \in Int
  BY DEF InBlock, Heard, TypeOK, Topology
<1>7. SendsUp(x) /\ ann.relationship \in {AS_REL_PEER, AS_REL_PROVIDER}
  <2>1. /\ ann.relationship = AS_REL_CUSTOMER => SendsUp(x) /\ topo.rank[x] < topo.rank[x]
        /\ ann.relationship = AS_REL_PEER => SendsUp(x)
        /\ ann.relationship = AS_REL_PROVIDER => SendsUp(x) \/ topo.rank[x] < topo.rank[x]
    BY <1>1, <1>5, BehindNext DEF InBlock, Heard, UpSwept
  <2>2. ann.relationship \in 0..3
    BY <1>1, FieldTypes
  <2> HIDE DEF ann
  <2>3. QED
    BY <1>2, <1>6, <2>1, <2>2
       DEF AS_REL_PEER, AS_REL_PROVIDER, AS_REL_CUSTOMER, AS_REL_ORIGIN
<1>8. all_anns[x] \in Announcement /\ all_anns[x] # NoAnn
  BY <1>7 DEF SendsUp, InBlock, Heard, TypeOK, Slot
<1>9. ~ (all_anns[x].relationship <= ann.relationship)
  BY <1>1, <1>7, <1>8, FieldTypes DEF SendsUp, AS_REL_PEER, AS_REL_PROVIDER, AS_REL_CUSTOMER
<1>10. ~ (Priority(all_anns[x]) <= Priority(ann))
  BY <1>1, <1>8, <1>9, PriorityOrder
<1>11. Priority(all_anns[x]) \in Int /\ Priority(ann) \in Int
  <2>1. \A z \in Announcement : Priority(z) \in Int
    BY FieldTypes DEF Priority
  <2>2. QED
    BY <1>1, <1>8, <2>1
<1>12. QED
  BY <1>8, <1>10, <1>11

\* Who tells an attack uses it, and it is not a seed of whoever hears of it.
LEMMA AttackIsTold ==
    ASSUME InBlock, NEW x \in ASes, NEW ann \in FromNeighbours(x), FromAttacker(ann)
    PROVE  /\ ann.received_from_asn \in ASes /\ IsAttack(ann.received_from_asn)
           /\ ann.from_monitor = FALSE
<1> DEFINE y      == ann.received_from_asn
           before == all_anns[y]
           rel    == ann.relationship
<1>1. y \in ASes /\ before # NoAnn /\ ann = Export(before, rel, y)
  BY DEF InBlock, Heard, RelationshipHonest, HeardIsCurrent
<1>2. before \in Announcement
  BY <1>1 DEF InBlock, Heard, TypeOK, Slot
<1> HIDE DEF y, before, rel
<1>3. FromAttacker(before) /\ ann.from_monitor = FALSE
  BY <1>1, <1>2, MarkIsSent
<1>4. QED
  BY <1>1, <1>3 DEF IsAttack, y, before

\* What is left of a queue.
LEMMA TailElements ==
    ASSUME NEW S, NEW q \in Seq(S), q # <<>>
    PROVE  /\ Tail(q) \in Seq(S) /\ Len(Tail(q)) = Len(q) - 1 /\ Len(q) \in Nat \ {0}
           /\ DOMAIN Tail(q) = 1..(Len(q) - 1) /\ DOMAIN q = 1..Len(q)
           /\ \A k \in 1..(Len(q) - 1) : Tail(q)[k] = q[k + 1]
           /\ Head(q) \in S /\ Head(q) = q[1]
OBVIOUS

\* The queue and its paths lose the same element.
LEMMA TailPaths ==
    ASSUME TypeOK, PathTypes, NEW a \in ASes, incoming_announcements[a] # <<>>,
           incoming_announcements' = [incoming_announcements EXCEPT ![a] = Tail(@)],
           incoming_paths' = [incoming_paths EXCEPT ![a] = Tail(@)]
    PROVE  /\ incoming_paths' \in [ASes -> Seq(Seq(ASNs))]
           /\ \A x \in ASes :
                 /\ Len(incoming_paths'[x]) = Len(incoming_announcements'[x])
                 /\ \A k \in DOMAIN incoming_announcements'[x] :
                       \E j \in DOMAIN incoming_announcements[x] :
                           /\ incoming_announcements'[x][k] = incoming_announcements[x][j]
                           /\ incoming_paths'[x][k] = incoming_paths[x][j]
<1> DEFINE queue == incoming_announcements[a]
           paths == incoming_paths[a]
<1>1. /\ queue \in Seq(Announcement) /\ paths \in Seq(Seq(ASNs)) /\ queue # <<>>
      /\ Len(paths) = Len(queue)
      /\ incoming_announcements' = [incoming_announcements EXCEPT ![a] = Tail(queue)]
      /\ incoming_paths' = [incoming_paths EXCEPT ![a] = Tail(paths)]
      /\ incoming_announcements \in [ASes -> Seq(Announcement)]
      /\ incoming_paths \in [ASes -> Seq(Seq(ASNs))]
  BY DEF TypeOK, PathTypes
<1> HIDE DEF queue, paths
<1>2. paths # <<>>
  BY <1>1
<1>3. /\ Tail(paths) \in Seq(Seq(ASNs)) /\ Len(Tail(paths)) = Len(Tail(queue))
      /\ \A k \in DOMAIN Tail(queue) : /\ k + 1 \in DOMAIN queue
                                       /\ Tail(queue)[k] = queue[k + 1]
                                       /\ Tail(paths)[k] = paths[k + 1]
  <2>1. /\ Tail(queue) \in Seq(Announcement) /\ Len(Tail(queue)) = Len(queue) - 1
        /\ DOMAIN Tail(queue) = 1..(Len(queue) - 1) /\ DOMAIN queue = 1..Len(queue)
        /\ \A k \in 1..(Len(queue) - 1) : Tail(queue)[k] = queue[k + 1]
        /\ Len(queue) \in Nat
    BY <1>1, TailElements
  <2>2. /\ Tail(paths) \in Seq(Seq(ASNs)) /\ Len(Tail(paths)) = Len(paths) - 1
        /\ \A k \in 1..(Len(paths) - 1) : Tail(paths)[k] = paths[k + 1]
    BY <1>1, <1>2, TailElements
  <2>3. Len(paths) = Len(queue)
    BY <1>1
  <2> DEFINE n  == Len(queue)
             q2 == Tail(queue)
             p2 == Tail(paths)
  <2> HIDE DEF n, q2, p2
  <2>4. /\ DOMAIN q2 = 1..(n - 1) /\ DOMAIN queue = 1..n /\ n \in Nat /\ Len(q2) = n - 1
        /\ \A k \in 1..(n - 1) : q2[k] = queue[k + 1]
        /\ p2 \in Seq(Seq(ASNs)) /\ Len(p2) = n - 1
        /\ \A k \in 1..(n - 1) : p2[k] = paths[k + 1]
    BY <2>1, <2>2, <2>3 DEF n, q2, p2
  <2>5. \A k \in 1..(n - 1) : k + 1 \in 1..n
    BY <2>4
  <2>6. QED
    BY <2>4, <2>5 DEF q2, p2
<1>4. ASSUME NEW x \in ASes
      PROVE  /\ Len(incoming_paths'[x]) = Len(incoming_announcements'[x])
             /\ \A k \in DOMAIN incoming_announcements'[x] :
                   \E j \in DOMAIN incoming_announcements[x] :
                       /\ incoming_announcements'[x][k] = incoming_announcements[x][j]
                       /\ incoming_paths'[x][k] = incoming_paths[x][j]
  <2>1. CASE x = a
    BY <1>1, <1>3, <2>1 DEF queue, paths
  <2>2. CASE x # a
    BY <1>1, <2>2 DEF PathTypes
  <2>3. QED
    BY <2>1, <2>2
<1>5. QED
  BY <1>1, <1>3, <1>4

\* What an AS passes over leaves every path as it is.
LEMMA PassOverKeepsPaths ==
    ASSUME InBlock, Paths, NEW a \in ASes, PassOver(a)
    PROVE  Paths'
<1>1. /\ UNCHANGED <<topo, all_anns, as_path>>
      /\ incoming_announcements[a] # <<>>
      /\ incoming_announcements' = [incoming_announcements EXCEPT ![a] = Tail(@)]
      /\ incoming_paths' = [incoming_paths EXCEPT ![a] = Tail(@)]
  BY DEF PassOver
<1>2. PathTypes'
  BY <1>1, TailPaths DEF InBlock, Heard, Paths, PathTypes
<1>3. PathsToldRight'
  <2>1. ASSUME NEW x \in ASes, NEW k \in DOMAIN incoming_announcements'[x]
        PROVE  FromAttacker(incoming_announcements'[x][k]) =>
                   incoming_paths'[x][k] =
                       as_path'[incoming_announcements'[x][k].received_from_asn]
    <3>1. PICK j \in DOMAIN incoming_announcements[x] :
              /\ incoming_announcements'[x][k] = incoming_announcements[x][j]
              /\ incoming_paths'[x][k] = incoming_paths[x][j]
      BY <1>1, TailPaths DEF InBlock, Heard, Paths
    <3>2. QED
      BY <1>1, <3>1 DEF Paths, PathsToldRight
  <2>2. QED
    BY <2>1 DEF PathsToldRight, FromAttacker
<1>4. PathsRecorded'
  BY <1>1 DEF Paths, PathsRecorded, RecordedPath, IsAttack, FromAttacker, Seeded
<1>5. PathsBehind'
  BY <1>1 DEF Paths, PathsBehind, IsAttack, FromAttacker, Behind, SendsUp
<1>6. QED
  BY <1>2, <1>3, <1>4, <1>5 DEF Paths

\* Nor does an AS replace the path of what someone has of it.
LEMMA SenderKeepsPath ==
    ASSUME Heard, PathTypes, NEW x \in ASes, NEW ann \in FromNeighbours(x),
           NEW a \in ASes, HandOver(a)
    PROVE  as_path'[ann.received_from_asn] = as_path[ann.received_from_asn]
<1> DEFINE b    == ann.received_from_asn
           next == Head(incoming_announcements[a])
           kept == IF Seeded(a) THEN as_path[a]
                   ELSE PathAfter(a, next, Head(incoming_paths[a]))
<1>1. b \in ASes /\ as_path \in [ASes -> Seq(ASNs)]
  BY DEF Heard, RelationshipHonest, PathTypes
<1>2. as_path' = [as_path EXCEPT ![a] = kept]
  BY DEF HandOver
<1>3. b = a => kept = as_path[a]
  BY SenderKeepsOut DEF HandOver, PathAfter
<1> HIDE DEF b, kept
<1>4. as_path'[b] = as_path[b]
  BY <1>1, <1>2, <1>3
<1>5. QED
  BY <1>4 DEF b

\* The slot and the path of an AS that is handed an announcement.
LEMMA HandOverSlot ==
    ASSUME InBlock, PathTypes, NEW a \in ASes, HandOver(a)
    PROVE  LET ann == Head(incoming_announcements[a])
           IN  /\ \A b \in ASes \ {a} : all_anns'[b] = all_anns[b] /\ as_path'[b] = as_path[b]
               /\ \/ all_anns'[a] = all_anns[a] /\ as_path'[a] = as_path[a]
                  \/ /\ all_anns'[a] = ann
                     /\ FromAttacker(ann) =>
                            as_path'[a] = <<a>> \o Head(incoming_paths[a])
               /\ as_path'[a] \in Seq(ASNs)
<1> DEFINE ann  == Head(incoming_announcements[a])
           path == Head(incoming_paths[a])
           best == all_anns[a]
           kept == IF Seeded(a) THEN as_path[a] ELSE PathAfter(a, ann, path)
<1>1. /\ all_anns \in [ASes -> Slot] /\ as_path \in [ASes -> Seq(ASNs)]
      /\ incoming_paths[a] \in Seq(Seq(ASNs)) /\ incoming_announcements[a] \in Seq(Announcement)
      /\ incoming_announcements[a] # <<>>
      /\ Len(incoming_paths[a]) = Len(incoming_announcements[a])
  BY DEF InBlock, Heard, TypeOK, PathTypes, HandOver, process_announcements
<1>2. path \in Seq(ASNs)
  BY <1>1
<1>3. as_path' = [as_path EXCEPT ![a] = kept]
  BY DEF HandOver
<1>4. /\ Seeded(a) => all_anns' = all_anns
      /\ ~ Seeded(a) => all_anns' = [all_anns EXCEPT ![a] = BestAfter(best, ann, Value(a))]
  BY DEF HandOver, process_announcements, Seeded
<1>5. kept \in Seq(ASNs)
  <2>1. a \in ASNs
    BY PropagationAssumption
  <2>2. as_path[a] \in Seq(ASNs) /\ <<>> \in Seq(ASNs)
    BY <1>1
  <2>3. PathThrough(a, path) \in Seq(ASNs)
    BY <1>2, <2>1, LongerPath DEF PathThrough
  <2>4. QED
    BY <2>2, <2>3 DEF PathAfter
<1>6. CASE Seeded(a) \/ ~ Replaces(best, ann, Value(a))
  <2>1. kept = as_path[a] /\ all_anns'[a] = all_anns[a]
    BY <1>1, <1>4, <1>6 DEF PathAfter, BestAfter
  <2> HIDE DEF kept
  <2>2. QED
    BY <1>1, <1>3, <1>4, <1>5, <2>1
<1>7. CASE ~ Seeded(a) /\ Replaces(best, ann, Value(a))
  <2>1. /\ all_anns'[a] = ann
        /\ FromAttacker(ann) => kept = <<a>> \o path
    BY <1>1, <1>4, <1>7 DEF PathAfter, BestAfter, PathThrough
  <2> HIDE DEF kept, ann
  <2>2. QED
    BY <1>1, <1>3, <1>4, <1>5, <2>1 DEF ann
<1>8. QED
  BY <1>6, <1>7

\* A path is behind whoever takes the attack of the AS that recorded it.
LEMMA BehindTaker ==
    ASSUME WellRanked, ProvidersAbove, InBlock, Paths, TypeOK', topo' = topo,
           \A z \in ASes : Grows(z), NEW a \in ASes, NEW ann \in FromNeighbours(a),
           FromAttacker(ann), all_anns'[a] = ann, NEW c,
           \E k \in DOMAIN as_path[ann.received_from_asn] :
               c = as_path[ann.received_from_asn][k]
    PROVE  Behind(a, c)'
<1> DEFINE y == ann.received_from_asn
<1>1. y \in ASes /\ IsAttack(y)
  BY AttackIsTold
<1>2. Behind(y, c)
  BY <1>1 DEF Paths, PathsBehind
<1>3. /\ ann.relationship = AS_REL_CUSTOMER =>
             c \in ASes /\ SendsUp(c) /\ topo.rank[c] < topo.rank[a]
      /\ ann.relationship = AS_REL_PEER => c \in ASes /\ SendsUp(c)
      /\ ann.relationship = AS_REL_PROVIDER =>
             c \in ASes /\ (SendsUp(c) \/ topo.rank[a] < topo.rank[c])
  BY <1>2, BehindNext DEF InBlock, Heard, UpSwept
<1>4. c \in ASes
  BY <1>2 DEF Behind
<1>5. SendsUp(c) => SendsUp(c)'
  BY <1>4, SendsUpStill DEF InBlock, Heard
<1>6. topo.rank[c] \in Int /\ topo.rank[a] \in Int
  BY <1>4 DEF InBlock, Heard, TypeOK, Topology
<1>7. /\ ann.relationship \in {AS_REL_PROVIDER, AS_REL_PEER, AS_REL_CUSTOMER}
      /\ ann # NoAnn
  <2>1. ann \in Announcement /\ ann.relationship # AS_REL_ORIGIN
    BY DEF InBlock, Heard, RelationshipHonest, TypeOK, FromNeighbours, Queued, Learned, Slot
  <2>2. QED
    BY <2>1, FieldTypes, AnnouncementsAssumption
       DEF AS_REL_PROVIDER, AS_REL_PEER, AS_REL_CUSTOMER, AS_REL_ORIGIN
<1>8. SendsUp(a)' <=> ann.relationship = AS_REL_CUSTOMER
  BY <1>7 DEF SendsUp, AS_REL_PROVIDER, AS_REL_PEER, AS_REL_CUSTOMER
<1>9. CASE ann.relationship = AS_REL_CUSTOMER
  BY <1>3, <1>4, <1>5, <1>6, <1>8, <1>9 DEF Behind
<1>10. CASE ann.relationship = AS_REL_PEER
  BY <1>3, <1>4, <1>5, <1>8, <1>10 DEF Behind, AS_REL_PEER, AS_REL_CUSTOMER
<1>11. CASE ann.relationship = AS_REL_PROVIDER
  BY <1>3, <1>4, <1>5, <1>8, <1>11 DEF Behind, AS_REL_PROVIDER, AS_REL_CUSTOMER
<1>12. QED
  BY <1>7, <1>9, <1>10, <1>11

\* What an AS is handed extends the path of the sender.
LEMMA HandOverKeepsPaths ==
    ASSUME WellRanked, ProvidersAbove, InBlock, Paths, NEW a \in ASes, HandOver(a), TypeOK'
    PROVE  Paths'
<1> DEFINE ann == Head(incoming_announcements[a])
           y   == ann.received_from_asn
<1>1. /\ process_announcements(a) /\ topo' = topo
      /\ incoming_announcements[a] # <<>>
      /\ incoming_announcements' = [incoming_announcements EXCEPT ![a] = Tail(@)]
      /\ incoming_paths' = [incoming_paths EXCEPT ![a] = Tail(@)]
  BY DEF HandOver, process_announcements
<1>2. TypeOK /\ PathTypes /\ PathsToldRight /\ PathsRecorded /\ PathsBehind
  BY DEF InBlock, Heard, Paths
<1>3. /\ \A b \in ASes \ {a} : all_anns'[b] = all_anns[b] /\ as_path'[b] = as_path[b]
      /\ \/ all_anns'[a] = all_anns[a] /\ as_path'[a] = as_path[a]
         \/ /\ all_anns'[a] = ann
            /\ FromAttacker(ann) => as_path'[a] = <<a>> \o Head(incoming_paths[a])
      /\ as_path'[a] \in Seq(ASNs)
  BY <1>2, HandOverSlot
<1>4. \A x \in ASes : \A heard \in FromNeighbours(x) :
          /\ heard.received_from_asn \in ASes
          /\ as_path'[heard.received_from_asn] = as_path[heard.received_from_asn]
  BY <1>2, SenderKeepsPath DEF InBlock, Heard, RelationshipHonest
<1>5. ann \in FromNeighbours(a)
  BY <1>1, <1>2, ProcessQueues DEF FromNeighbours
<1>6. FromAttacker(ann) => Head(incoming_paths[a]) = as_path[y]
  <2>1. /\ incoming_announcements[a] \in Seq(Announcement)
        /\ incoming_paths[a] \in Seq(Seq(ASNs)) /\ incoming_paths[a] # <<>>
    BY <1>1, <1>2 DEF TypeOK, PathTypes
  <2>2. /\ 1 \in DOMAIN incoming_announcements[a] /\ ann = incoming_announcements[a][1]
        /\ Head(incoming_paths[a]) = incoming_paths[a][1]
    BY <1>1, <2>1
  <2>3. QED
    BY <1>2, <2>2 DEF PathsToldRight
<1>7. PathTypes'
  <2>1. as_path' \in [ASes -> Seq(ASNs)]
    <3>1. \A b \in ASes : as_path'[b] \in Seq(ASNs)
      BY <1>2, <1>3 DEF PathTypes
    <3>2. as_path' = [b \in ASes |-> as_path'[b]]
      BY <1>2 DEF HandOver, PathTypes
    <3>3. QED
      BY <3>1, <3>2
  <2>2. QED
    BY <1>1, <1>2, <2>1, TailPaths DEF PathTypes
<1>8. PathsToldRight'
  <2>1. ASSUME NEW x \in ASes, NEW k \in DOMAIN incoming_announcements'[x]
        PROVE  FromAttacker(incoming_announcements'[x][k]) =>
                   incoming_paths'[x][k] =
                       as_path'[incoming_announcements'[x][k].received_from_asn]
    <3>1. PICK j \in DOMAIN incoming_announcements[x] :
              /\ incoming_announcements'[x][k] = incoming_announcements[x][j]
              /\ incoming_paths'[x][k] = incoming_paths[x][j]
      BY <1>1, <1>2, TailPaths
    <3>2. incoming_announcements[x][j] \in FromNeighbours(x)
      BY DEF FromNeighbours, Queued
    <3>3. QED
      BY <1>2, <1>4, <3>1, <3>2 DEF PathsToldRight
  <2>2. QED
    BY <2>1 DEF PathsToldRight, FromAttacker
<1>9. ASSUME NEW b \in ASes, all_anns'[b] = all_anns[b], as_path'[b] = as_path[b], IsAttack(b)'
      PROVE  /\ as_path'[b] = RecordedPath(b)'
             /\ \A k \in DOMAIN as_path'[b] : Behind(b, as_path[b][k])'
  <2>1. IsAttack(b) /\ (Seeded(b)' <=> Seeded(b))
    BY <1>9 DEF IsAttack, FromAttacker, Seeded
  <2>2. ~ Seeded(b) => all_anns[b] \in FromNeighbours(b)
    BY <2>1 DEF IsAttack, FromNeighbours, Seeded, Learned
  <2>3. RecordedPath(b)' = RecordedPath(b)
    BY <1>4, <1>9, <2>1, <2>2 DEF RecordedPath
  <2>4. \A z \in ASes : Grows(z)
    BY <1>1, <1>2, ProcessGrows
  <2>5. ASSUME NEW k \in DOMAIN as_path'[b]
        PROVE  Behind(b, as_path[b][k])'
    <3>1. PICK c : c = as_path[b][k]
      OBVIOUS
    <3>2. Behind(b, c)
      BY <1>2, <1>9, <2>1, <3>1 DEF PathsBehind
    <3>3. Behind(b, c)'
      BY <1>1, <1>2, <1>9, <2>4, <3>2, BehindStill
    <3>4. as_path'[b][k] = c
      BY <1>9, <3>1
    <3>5. QED
      BY <3>3, <3>4 DEF Behind
  <2>6. QED
    BY <1>2, <1>9, <2>1, <2>3, <2>5 DEF PathsRecorded
<1>10. ASSUME all_anns'[a] = ann, FromAttacker(ann), as_path'[a] = <<a>> \o Head(incoming_paths[a])
       PROVE  /\ as_path'[a] = RecordedPath(a)'
              /\ \A k \in DOMAIN as_path'[a] : Behind(a, as_path[a][k])'
  <2>1. as_path'[a] = <<a>> \o as_path[y] /\ as_path'[y] = as_path[y]
    BY <1>4, <1>5, <1>6, <1>10
  <2>2. y \in ASes /\ ann.from_monitor = FALSE
    BY <1>5, <1>10, AttackIsTold
  <2>3. ~ Seeded(a)'
    BY <1>10, <2>2 DEF Seeded
  <2>4. RecordedPath(a)' = <<a>> \o as_path'[y]
    <3> HIDE DEF ann
    <3>1. RecordedPath(a)' = <<a>> \o as_path'[all_anns'[a].received_from_asn]
      BY <2>3 DEF RecordedPath
    <3>2. QED
      BY <1>10, <3>1
  <2>5. ASSUME NEW k \in DOMAIN as_path'[a]
        PROVE  Behind(a, as_path[a][k])'
    <3>1. PICK c : c = as_path'[a][k]
      OBVIOUS
    <3>2. a \in ASNs /\ as_path[y] \in Seq(ASNs)
      BY <1>2, <2>2, PropagationAssumption DEF PathTypes
    <3>3. c = a \/ \E j \in DOMAIN as_path[y] : c = as_path[y][j]
      <4> DEFINE path == as_path[y]
      <4> HIDE DEF path
      <4>1. as_path'[a] = <<a>> \o path /\ path \in Seq(ASNs)
        BY <2>1, <3>2 DEF path
      <4>2. c = a \/ \E j \in DOMAIN path : c = path[j]
        BY <3>1, <3>2, <4>1, LongerPath
      <4>3. QED
        BY <4>2 DEF path
    <3>4. \A z \in ASes : Grows(z)
      BY <1>1, <1>2, ProcessGrows
    <3>5. CASE c = a
      <4>1. Behind(a, a)'
        <5>1. topo.rank[a] \in Int
          BY <1>2 DEF TypeOK, Topology
        <5>2. QED
          BY <1>1, <5>1 DEF Behind
      <4>2. QED
        BY <3>1, <3>5, <4>1 DEF Behind
    <3>6. CASE \E j \in DOMAIN as_path[y] : c = as_path[y][j]
      <4>1. Behind(a, c)'
        BY <1>1, <1>5, <1>10, <3>4, <3>6, BehindTaker
      <4>2. QED
        BY <3>1, <4>1 DEF Behind
    <3>7. QED
      BY <3>3, <3>5, <3>6
  <2>6. QED
    BY <2>1, <2>4, <2>5
<1>11. ASSUME NEW b \in ASes, IsAttack(b)'
       PROVE  /\ as_path'[b] = RecordedPath(b)'
              /\ \A k \in DOMAIN as_path'[b] : Behind(b, as_path[b][k])'
  <2>1. CASE all_anns'[b] = all_anns[b] /\ as_path'[b] = as_path[b]
    BY <1>9, <1>11, <2>1
  <2>2. CASE ~ (all_anns'[b] = all_anns[b] /\ as_path'[b] = as_path[b])
    <3>1. b = a /\ all_anns'[a] = ann
      BY <1>3, <2>2
    <3>2. FromAttacker(ann)
      BY <1>11, <3>1 DEF IsAttack, FromAttacker
    <3>3. QED
      BY <1>3, <1>10, <2>2, <3>1, <3>2
  <2>3. QED
    BY <2>1, <2>2
<1>12. PathsRecorded' /\ PathsBehind'
  BY <1>11 DEF PathsRecorded, PathsBehind
<1>13. QED
  BY <1>7, <1>8, <1>12 DEF Paths

\* What is sent has the path of the sender.
LEMMA SendOnKeepsPaths ==
    ASSUME InBlock, Paths, NEW a \in ASes, SendOn(a)
    PROVE  Paths'
<1> DEFINE sent == Export(all_anns[a], SentAs, a)
<1>1. /\ UNCHANGED <<topo, all_anns, as_path>>
      /\ incoming_announcements' =
             [b \in ASes |-> IF b \in SendsTo(a) THEN Append(incoming_announcements[b], sent)
                                                 ELSE incoming_announcements[b]]
      /\ incoming_paths' =
             [b \in ASes |-> IF b \in SendsTo(a) THEN Append(incoming_paths[b], as_path[a])
                                                 ELSE incoming_paths[b]]
  BY DEF SendOn, send_all_announcements
<1>2. TypeOK /\ PathTypes /\ PathsToldRight /\ PathsRecorded /\ PathsBehind
  BY DEF InBlock, Heard, Paths
<1>3. \A x \in SendsTo(a) : sent.received_from_asn = a
  <2>1. SendsTo(a) # {} => all_anns[a] \in Announcement
    BY <1>2, SendsToType
  <2>2. ASSUME SendsTo(a) # {} PROVE sent.received_from_asn = a
    <3> DEFINE before == all_anns[a]
    <3>1. before \in Announcement
      BY <2>1, <2>2
    <3> HIDE DEF before
    <3>2. Export(before, SentAs, a).received_from_asn = a
      BY <3>1 DEF Export, Announcement, PlainAnnouncement, EZAnnouncement
    <3>3. QED
      BY <3>2 DEF before
  <2>3. QED
    BY <2>2
<1> HIDE DEF sent
<1>4. ASSUME NEW x \in ASes
      PROVE  /\ incoming_paths'[x] \in Seq(Seq(ASNs))
             /\ Len(incoming_paths'[x]) = Len(incoming_announcements'[x])
             /\ \A k \in DOMAIN incoming_announcements'[x] :
                   \/ /\ k \in DOMAIN incoming_announcements[x]
                      /\ incoming_announcements'[x][k] = incoming_announcements[x][k]
                      /\ incoming_paths'[x][k] = incoming_paths[x][k]
                   \/ /\ x \in SendsTo(a)
                      /\ incoming_announcements'[x][k] = sent
                      /\ incoming_paths'[x][k] = as_path[a]
  <2> DEFINE queue == incoming_announcements[x]
             paths == incoming_paths[x]
  <2>1. /\ queue \in Seq(Announcement) /\ paths \in Seq(Seq(ASNs)) /\ Len(paths) = Len(queue)
        /\ as_path[a] \in Seq(ASNs)
    BY <1>2 DEF TypeOK, PathTypes
  <2>2. CASE x \in SendsTo(a)
    <3>1. /\ incoming_announcements'[x] = Append(queue, sent)
          /\ incoming_paths'[x] = Append(paths, as_path[a])
      BY <1>1, <2>2
    <3> DEFINE path == as_path[a]
    <3> HIDE DEF queue, paths, path
    <3>2. Len(queue) \in Nat
      BY <2>1
    <3>3. /\ Append(paths, path) \in Seq(Seq(ASNs))
          /\ Len(Append(paths, path)) = Len(Append(queue, sent))
          /\ DOMAIN Append(queue, sent) = 1..(Len(queue) + 1) /\ DOMAIN queue = 1..Len(queue)
      BY <2>1 DEF path
    <3>4. ASSUME NEW k \in 1..(Len(queue) + 1)
          PROVE  \/ /\ k \in 1..Len(queue)
                    /\ Append(queue, sent)[k] = queue[k]
                    /\ Append(paths, path)[k] = paths[k]
                 \/ Append(queue, sent)[k] = sent /\ Append(paths, path)[k] = path
      <4>1. CASE k \in 1..Len(queue)
        BY <2>1, <4>1
      <4>2. CASE k = Len(queue) + 1
        BY <2>1, <4>2
      <4>3. k \in 1..Len(queue) \/ k = Len(queue) + 1
        BY <3>2
      <4>4. QED
        BY <4>1, <4>2, <4>3
    <3>5. QED
      BY <2>2, <3>1, <3>3, <3>4 DEF queue, paths, path
  <2>3. CASE x \notin SendsTo(a)
    BY <1>1, <2>1, <2>3
  <2>4. QED
    BY <2>2, <2>3
<1>5. PathTypes'
  <2>1. incoming_paths' \in [ASes -> Seq(Seq(ASNs))]
    <3>1. incoming_paths' = [b \in ASes |-> incoming_paths'[b]]
      BY <1>1
    <3>2. QED
      BY <1>4, <3>1
  <2>2. QED
    BY <1>1, <1>2, <1>4, <2>1 DEF PathTypes
<1>6. PathsToldRight'
  <2>1. ASSUME NEW x \in ASes, NEW k \in DOMAIN incoming_announcements'[x]
        PROVE  FromAttacker(incoming_announcements'[x][k]) =>
                   incoming_paths'[x][k] =
                       as_path'[incoming_announcements'[x][k].received_from_asn]
    BY <1>1, <1>2, <1>3, <1>4 DEF PathsToldRight
  <2>2. QED
    BY <2>1 DEF PathsToldRight, FromAttacker
<1>7. PathsRecorded'
  BY <1>1, <1>2 DEF PathsRecorded, RecordedPath, IsAttack, FromAttacker, Seeded
<1>8. PathsBehind'
  BY <1>1, <1>2 DEF PathsBehind, IsAttack, FromAttacker, Behind, SendsUp
<1>9. QED
  BY <1>5, <1>6, <1>7, <1>8 DEF Paths

\* While rows are seeded, an AS that uses an attack is the attacker, alone on
\* its path.
LEMMA SeedsKeepPaths ==
    ASSUME InBlock, Paths, Phases', TypeOK', sweep = "seed", sweep' = "seed",
           UNCHANGED <<topo, incoming_announcements, incoming_paths>>,
           as_path' \in [ASes -> Seq(ASNs)],
           \A b \in ASes : IsAttack(b)' =>
               \/ all_anns'[b] = all_anns[b] /\ as_path'[b] = as_path[b]
               \/ as_path'[b] = <<b>> \o <<>>
    PROVE  Paths'
<1>1. TypeOK /\ Phases /\ PathTypes /\ PathsRecorded
  BY DEF InBlock, Heard, Paths
<1>2. PathTypes'
  BY <1>1 DEF PathTypes
<1>3. PathsToldRight'
  <2>1. \A x \in ASes : incoming_announcements'[x] = <<>>
    BY DEF Phases
  <2>2. QED
    BY <2>1 DEF PathsToldRight
<1>4. ASSUME NEW b \in ASes, IsAttack(b)'
      PROVE  /\ as_path'[b] = RecordedPath(b)'
             /\ \A k \in DOMAIN as_path'[b] : Behind(b, as_path[b][k])'
  <2>1. Seeded(b)'
    BY <1>4 DEF Phases, IsAttack, Seeded
  <2>2. as_path'[b] = <<b>> \o <<>>
    <3>1. CASE all_anns'[b] = all_anns[b] /\ as_path'[b] = as_path[b]
      <4>1. IsAttack(b) /\ Seeded(b)
        BY <1>4, <2>1, <3>1 DEF IsAttack, FromAttacker, Seeded
      <4>2. QED
        BY <1>1, <3>1, <4>1 DEF PathsRecorded, RecordedPath
    <3>2. QED
      BY <1>4, <3>1
  <2>3. ASSUME NEW k \in DOMAIN as_path'[b]
        PROVE  Behind(b, as_path[b][k])'
    <3>1. as_path'[b][k] = b
      <4>1. b \in ASNs /\ <<>> \in Seq(ASNs)
        BY PropagationAssumption
      <4>2. QED
        BY <2>2, <4>1, LongerPath
    <3>2. topo'.rank[b] \in Int
      BY <1>1 DEF TypeOK, Topology
    <3>3. QED
      BY <3>1, <3>2 DEF Behind
  <2>4. RecordedPath(b)' = <<b>> \o <<>>
    BY <2>1 DEF RecordedPath
  <2>5. QED
    BY <2>2, <2>3, <2>4
<1>5. PathsRecorded' /\ PathsBehind'
  BY <1>4 DEF PathsRecorded, PathsBehind
<1>6. QED
  BY <1>2, <1>3, <1>5 DEF Paths

\* A seed of a row has no mark.
LEMMA SeedsOfRowKeepPaths ==
    ASSUME InBlock, Paths, SeedsOfRow, TypeOK', Phases'
    PROVE  Paths'
<1>1. /\ all_anns \in [ASes -> Slot] /\ as_path \in [ASes -> Seq(ASNs)]
      /\ row # NoRow /\ sweep = "seed"
  BY DEF InBlock, Heard, TypeOK, Phases, Paths, PathTypes, SeedsOfRow, SeedHop, BreakHop, Walking
<1>2. UNCHANGED <<topo, sweep, incoming_announcements, incoming_paths>>
  BY DEF SeedsOfRow, SeedHop, BreakHop, Walking
<1>3. /\ as_path' = [as_path EXCEPT ![OnPath] = <<>>]
      /\ \/ all_anns' = [all_anns EXCEPT ![OnPath] = Seed(OnPath)]
         \/ all_anns' = [all_anns EXCEPT ![OnPath] = NoAnn]
  BY DEF SeedsOfRow, SeedHop, BreakHop
<1>4. as_path' \in [ASes -> Seq(ASNs)]
  <2>1. <<>> \in Seq(ASNs)
    OBVIOUS
  <2>2. QED
    BY <1>1, <1>3, <2>1
<1>5. ASSUME NEW b \in ASes, IsAttack(b)'
      PROVE  all_anns'[b] = all_anns[b] /\ as_path'[b] = as_path[b]
  <2>1. b # OnPath
    <3>1. ~ FromAttacker(Seed(OnPath))
      BY DEF Seed, FromAttacker
    <3>2. b = OnPath => all_anns'[b] = Seed(OnPath) \/ all_anns'[b] = NoAnn
      BY <1>1, <1>3
    <3>3. QED
      BY <1>5, <3>1, <3>2 DEF IsAttack, FromAttacker
  <2>2. QED
    BY <1>1, <1>3, <2>1
<1>6. QED
  BY <1>1, <1>2, <1>4, <1>5, SeedsKeepPaths

\* The attacker's announcement starts a path.
LEMMA AttackKeepsPaths ==
    ASSUME InBlock, Paths, num_between \in Nat, give_ann_to_as_path
    PROVE  Paths'
<1>1. /\ all_anns \in [ASes -> Slot] /\ as_path \in [ASes -> Seq(ASNs)]
      /\ sweep = "seed" /\ sweep' = "seed" /\ TypeOK' /\ Phases'
  BY AttackerSeeds, AttackKeepsHeard DEF InBlock, Heard, TypeOK, Paths, PathTypes
<1>2. UNCHANGED <<topo, incoming_announcements, incoming_paths>>
  BY DEF give_ann_to_as_path
<1>3. CASE ~ Attacked
  BY <1>1, <1>2, <1>3, SeedsKeepPaths DEF give_ann_to_as_path
<1>4. CASE Attacked
  <2> DEFINE attacker == origin_to_attacker_victim[Origin(row)].attacker
             after == BestAfter(all_anns[attacker], AttackAnnouncement, Value(attacker))
             path == PathAfter(attacker, AttackAnnouncement, <<>>)
  <2>1. attacker \in ASes
    BY <1>4 DEF Attacked
  <2>2. /\ all_anns' = [all_anns EXCEPT ![attacker] = after]
        /\ as_path' = [as_path EXCEPT ![attacker] = path]
    BY <1>4 DEF give_ann_to_as_path
  <2>3. \/ after = all_anns[attacker] /\ path = as_path[attacker]
        \/ path = <<attacker>> \o <<>>
    <3>1. FromAttacker(AttackAnnouncement)
      BY DEF AttackAnnouncement, FromAttacker
    <3>2. QED
      BY <3>1 DEF BestAfter, PathAfter, PathThrough
  <2> HIDE DEF after, path, attacker
  <2>4. path \in Seq(ASNs)
    <3>1. attacker \in ASNs /\ <<>> \in Seq(ASNs)
      BY <2>1, PropagationAssumption
    <3>2. <<attacker>> \o <<>> \in Seq(ASNs)
      BY <3>1, LongerPath
    <3>3. QED
      BY <1>1, <2>1, <2>3, <3>2
  <2>5. as_path' \in [ASes -> Seq(ASNs)]
    BY <1>1, <2>2, <2>4
  <2>6. \A b \in ASes : \/ all_anns'[b] = all_anns[b] /\ as_path'[b] = as_path[b]
                        \/ as_path'[b] = <<b>> \o <<>>
    BY <1>1, <2>1, <2>2, <2>3
  <2>7. QED
    BY <1>1, <1>2, <2>5, <2>6, SeedsKeepPaths
<1>5. QED
  BY <1>3, <1>4

\* No path is touched by the other steps.
LEMMA OthersKeepPaths ==
    ASSUME Paths, UNCHANGED <<topo, all_anns, incoming_announcements, pathVars>>
    PROVE  Paths'
BY DEF Paths, pathVars, PathTypes, PathsToldRight, PathsRecorded, RecordedPath, PathsBehind,
       IsAttack, FromAttacker, Seeded, Behind, SendsUp

\* The steps of the block and of the counting.
LEMMA PathsStep ==
    ASSUME WellRanked, ProvidersAbove, InBlock, Paths, num_between \in Nat, [EZNext]_allVars
    PROVE  Paths'
<1>1. TypeOK' /\ Phases'
  BY InBlockStep DEF InBlock, Heard
<1>2. CASE give_ann_to_as_path
  BY <1>2, AttackKeepsPaths
<1>3. CASE calculate_successful_attacks \/ NoAnnouncements \/ UNCHANGED allVars
  <2>1. UNCHANGED vars
    BY <1>3, CountSteps
  <2>2. UNCHANGED pathVars
    BY <1>3 DEF calculate_successful_attacks, NoAnnouncements, CountVictim, TraceVictim, Counting,
                getPathNeighborOfAttacker, ReturnNeighbor, Calling, EndCount, allVars
  <2>3. QED
    BY <2>1, <2>2, OthersKeepPaths DEF vars
<1>4. CASE EndOfBlock
  BY <1>4, OthersKeepPaths DEF EndOfBlock, EndBlock, StartSweep
<1>5. CASE Block
  <2>1. ASSUME NEW a \in ASes, PassOver(a) \/ HandOver(a) \/ SendOn(a)
        PROVE  Paths'
    BY <1>1, <2>1, PassOverKeepsPaths, HandOverKeepsPaths, SendOnKeepsPaths
  <2>2. CASE SeedsOfRow
    BY <1>1, <2>2, SeedsOfRowKeepPaths
  <2>3. CASE /\ (\E r \in Rows : SelectRow(r)) \/ PassHop \/ propagate_up \/ propagate_down
             /\ UNCHANGED pathVars
    BY <2>3, OthersKeepPaths
       DEF SelectRow, PassHop, Walking, propagate_up, propagate_down, StartSweep
  <2>4. QED
    BY <1>5, <2>1, <2>2, <2>3 DEF Block
<1>6. QED
  BY <1>2, <1>3, <1>4, <1>5 DEF EZNext

(***************************************************************************)
(* In every ranked graph, for every table and in every mode: the as_path   *)
(* of an AS that uses an attack is the way its traffic takes, as the ASes  *)
(* on it are now, and what the check for it (EZAS.cpp 9-13) keeps out was  *)
(* no better than what the AS has.                                         *)
(***************************************************************************)
THEOREM AttackPathsAreHonest ==
    ASSUME WellRanked, ProvidersAbove
    PROVE  EZSpec => []AttackPaths
<1> DEFINE Inv == EZSafe /\ Paths
<1>1. EZInit => Inv
  <2> SUFFICES ASSUME EZInit PROVE Inv
    OBVIOUS
  <2>1. /\ as_path = [a \in ASes |-> <<>>] /\ incoming_paths = [a \in ASes |-> <<>>]
        /\ all_anns = [a \in ASes |-> NoAnn]
        /\ incoming_announcements = [a \in ASes |-> <<>>]
    BY DEF EZInit, Init
  <2>2. PathTypes
    BY <2>1 DEF PathTypes
  <2>3. PathsToldRight /\ PathsRecorded /\ PathsBehind
    BY <2>1 DEF PathsToldRight, PathsRecorded, PathsBehind, IsAttack
  <2>4. QED
    BY <2>2, <2>3, EZAtFirst DEF EZSafe, Paths
<1>2. Inv /\ [EZNext]_allVars => Inv'
  BY EZSafeStep, PathsStep DEF EZSafe, Threads
<1>3. Inv => AttackPaths
  <2> SUFFICES ASSUME Inv PROVE AttackPaths
    OBVIOUS
  <2>1. \A a \in ASes : IsAttack(a) => as_path[a] = RecordedPath(a)
    BY DEF Paths, PathsRecorded
  <2>2. ASSUME NEW a \in ASes, NEW k \in DOMAIN incoming_announcements[a],
               FromAttacker(incoming_announcements[a][k]), Visited(a, incoming_paths[a][k])
        PROVE  /\ all_anns[a] # NoAnn
               /\ Priority(incoming_announcements[a][k]) < Priority(all_anns[a])
    BY <2>2, VisitedIsWorse DEF EZSafe
  <2>3. QED
    BY <2>1, <2>2 DEF AttackPaths, IsAttack, RecordedPath
<1> HIDE DEF Inv
<1>4. QED
  BY <1>1, <1>2, <1>3, PTL DEF EZSpec

===============================================================================
