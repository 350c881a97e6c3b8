------------------------------- MODULE ROVProofs --------------------------------
(***************************************************************************)
(* Theorems about ROVExtrapolator, for every graph, every set of adopters  *)
(* and of rows, and any number of blocks.                                  *)
(***************************************************************************)
EXTENDS ROVRefinement, WellFoundedInduction, TLAPS

Slot == Announcement \union {NoAnn}

Seeded(a)  == all_anns[a] # NoAnn /\ all_anns[a].from_monitor
Learned(a) == all_anns[a] # NoAnn /\ ~ all_anns[a].from_monitor
Queued(a)  == {incoming_announcements[a][k] : k \in DOMAIN incoming_announcements[a]}

TypeOK ==
    /\ input \in Inputs
    /\ attackers \subseteq ASes
    /\ rows \in Nat
    /\ sweep \in {"seed", "up", "peers", "down", "done"}
    /\ pending \subseteq ASes
    /\ all_anns \in [ASes -> Slot]
    /\ incoming_announcements \in [ASes -> Seq(Announcement)]

-----------------------------------------------------------------------------
(***************************************************************************)
(* Recursive definitions over the natural numbers.                         *)
(***************************************************************************)
\* The fields every announcement has, marked or not.
LEMMA FieldTypes ==
    ASSUME NEW ann \in Announcement
    PROVE  /\ ann.origin \in ASNs /\ ann.received_from_asn \in ASNs
           /\ ann.relationship \in 0..3 /\ ann.path_length \in 0..255
           /\ ann.from_monitor \in BOOLEAN /\ ann.tstamp \in Nat
BY DEF Announcement, PlainAnnouncement, EZAnnouncement, UInt8

\* Every nonempty set of natural numbers has a least element.
LEMMA LeastExists ==
    ASSUME NEW S \in SUBSET Nat, S # {}
    PROVE  \E x \in S : \A y \in S : x <= y
<1>1. PICK x \in S : \A y \in S : <<y, x>> \notin OpToRel(<, Nat)
  BY NatLessThanWellFounded, WFMin
<1>2. ASSUME NEW y \in S
      PROVE  x <= y
  <2>1. x \in Nat /\ y \in Nat /\ <<y, x>> \notin OpToRel(<, Nat)
    BY <1>1
  <2>2. QED
    BY <2>1 DEF OpToRel
<1>3. QED
  BY <1>2

\* What holds of 0, and of a number below n if of the one before it.
LEMMA UpTo ==
    ASSUME NEW n \in Nat, NEW S, 0 \in S, \A k \in 1..n : k - 1 \in S => k \in S
    PROVE  \A k \in 0..n : k \in S
<1> DEFINE Out == {k \in 0..n : k \notin S}
<1>1. SUFFICES ASSUME Out # {} PROVE FALSE
  OBVIOUS
<1>2. PICK k \in Out : \A l \in Out : k <= l
  <2>1. Out \in SUBSET Nat
    OBVIOUS
  <2>2. QED
    BY <1>1, <2>1, LeastExists
<1>3. k \in 1..n /\ k - 1 \in 0..n /\ ~ (k <= k - 1)
  BY <1>2
<1>4. k - 1 \in S
  BY <1>2, <1>3
<1>5. QED
  BY <1>2, <1>3, <1>4

Hops(t0, row, n, f) ==
    f = [k \in 0..n |-> IF k = 0 THEN t0 ELSE SeedHop(f[k - 1], row, k)]

\* The definition of SeedHops is sound.
LEMMA HopsExist ==
    ASSUME NEW t0, NEW row, NEW n \in Nat
    PROVE  \E f : Hops(t0, row, n, f)
<1> DEFINE S == {m \in Nat : \E f : Hops(t0, row, m, f)}
<1>1. 0 \in S
  <2> DEFINE f == [k \in 0..0 |-> t0]
  <2>1. f = [k \in 0..0 |-> IF k = 0 THEN t0 ELSE SeedHop(f[k - 1], row, k)]
    OBVIOUS
  <2>2. Hops(t0, row, 0, f)
    BY <2>1 DEF Hops
  <2>3. QED
    BY <2>2
<1>2. ASSUME NEW m \in 1..n, m - 1 \in S
      PROVE  m \in S
  <2>1. PICK g : Hops(t0, row, m - 1, g)
    BY <1>2
  <2>2. /\ g[0] = t0
        /\ \A k \in 1..(m - 1) : g[k] = SeedHop(g[k - 1], row, k)
    BY <2>1 DEF Hops
  <2> DEFINE f == [k \in 0..m |-> IF k = m THEN SeedHop(g[m - 1], row, m) ELSE g[k]]
  <2>3. \A k \in 0..(m - 1) : f[k] = g[k]
    OBVIOUS
  <2>4. f[0] = t0
    BY <2>2, <2>3
  <2>5. f[m] = SeedHop(f[m - 1], row, m)
    BY <2>3
  <2>6. ASSUME NEW k \in 1..m
        PROVE  f[k] = SeedHop(f[k - 1], row, k)
    <3>1. CASE k = m
      BY <2>5, <3>1
    <3>2. CASE k # m
      <4>1. k \in 1..(m - 1) /\ k - 1 \in 0..(m - 1) /\ k \in 0..(m - 1)
        BY <3>2
      <4>2. f[k] = g[k] /\ f[k - 1] = g[k - 1]
        BY <2>3, <4>1
      <4>3. QED
        BY <2>2, <4>1, <4>2
    <3>3. QED
      BY <3>1, <3>2
  <2>7. f = [k \in 0..m |-> f[k]] /\ \A k \in 0..m : k = 0 \/ k \in 1..m
    OBVIOUS
  <2> HIDE DEF f
  <2>8. \A k \in 0..m : f[k] = IF k = 0 THEN t0 ELSE SeedHop(f[k - 1], row, k)
    BY <2>4, <2>6, <2>7
  <2>9. Hops(t0, row, m, f)
    BY <2>7, <2>8 DEF Hops
  <2>10. QED
    BY <2>9
<1> HIDE DEF S
<1>3. n \in S
  BY <1>1, <1>2, UpTo
<1>4. QED
  BY <1>3 DEF S

\* Each hop of a row is one SeedHop from the hop before.
LEMMA HopByHop ==
    ASSUME NEW t0, NEW row, Len(row.path) \in Nat
    PROVE  /\ SeedHops(t0, row)[0] = t0
           /\ \A k \in 1..Len(row.path) :
                 SeedHops(t0, row)[k] = SeedHop(SeedHops(t0, row)[k - 1], row, k)
<1>1. \E f : Hops(t0, row, Len(row.path), f)
  BY HopsExist
<1>2. SeedHops(t0, row) = CHOOSE f : Hops(t0, row, Len(row.path), f)
  BY DEF SeedHops, Hops
<1>3. Hops(t0, row, Len(row.path), SeedHops(t0, row))
  BY <1>1, <1>2
<1>4. ASSUME NEW n \in Nat, NEW f, Hops(t0, row, n, f)
      PROVE  f[0] = t0 /\ \A k \in 1..n : f[k] = SeedHop(f[k - 1], row, k)
  <2>1. f = [k \in 0..n |-> IF k = 0 THEN t0 ELSE SeedHop(f[k - 1], row, k)]
    BY <1>4 DEF Hops
  <2>2. QED
    BY <2>1
<1>5. QED
  BY <1>3, <1>4

Turns(a, n, f) ==
    f = [k \in 0..n |-> IF k = 0 THEN all_anns[a]
                         ELSE Process(a, f[k - 1], incoming_announcements[a][k])]

\* So is that of Processed.
LEMMA TurnsExist ==
    ASSUME NEW a, NEW n \in Nat
    PROVE  \E f : Turns(a, n, f)
<1> DEFINE S == {m \in Nat : \E f : Turns(a, m, f)}
<1>1. 0 \in S
  <2> DEFINE f == [k \in 0..0 |-> all_anns[a]]
  <2>1. f = [k \in 0..0 |-> IF k = 0 THEN all_anns[a]
                             ELSE Process(a, f[k - 1], incoming_announcements[a][k])]
    OBVIOUS
  <2>2. Turns(a, 0, f)
    BY <2>1 DEF Turns
  <2>3. QED
    BY <2>2
<1>2. ASSUME NEW m \in 1..n, m - 1 \in S
      PROVE  m \in S
  <2>1. PICK g : Turns(a, m - 1, g)
    BY <1>2
  <2>2. /\ g[0] = all_anns[a]
        /\ \A k \in 1..(m - 1) : g[k] = Process(a, g[k - 1], incoming_announcements[a][k])
    BY <2>1 DEF Turns
  <2> DEFINE f == [k \in 0..m |-> IF k = m THEN Process(a, g[m - 1], incoming_announcements[a][m])
                                  ELSE g[k]]
  <2>3. \A k \in 0..(m - 1) : f[k] = g[k]
    OBVIOUS
  <2>4. f[0] = all_anns[a]
    BY <2>2, <2>3
  <2>5. f[m] = Process(a, f[m - 1], incoming_announcements[a][m])
    BY <2>3
  <2>6. ASSUME NEW k \in 1..m
        PROVE  f[k] = Process(a, f[k - 1], incoming_announcements[a][k])
    <3>1. CASE k = m
      BY <2>5, <3>1
    <3>2. CASE k # m
      <4>1. k \in 1..(m - 1) /\ k - 1 \in 0..(m - 1) /\ k \in 0..(m - 1)
        BY <3>2
      <4>2. f[k] = g[k] /\ f[k - 1] = g[k - 1]
        BY <2>3, <4>1
      <4>3. QED
        BY <2>2, <4>1, <4>2
    <3>3. QED
      BY <3>1, <3>2
  <2>7. f = [k \in 0..m |-> f[k]] /\ \A k \in 0..m : k = 0 \/ k \in 1..m
    OBVIOUS
  <2> HIDE DEF f
  <2>8. \A k \in 0..m : f[k] = IF k = 0 THEN all_anns[a]
                                 ELSE Process(a, f[k - 1], incoming_announcements[a][k])
    BY <2>4, <2>6, <2>7
  <2>9. Turns(a, m, f)
    BY <2>7, <2>8 DEF Turns
  <2>10. QED
    BY <2>9
<1> HIDE DEF S
<1>3. n \in S
  BY <1>1, <1>2, UpTo
<1>4. QED
  BY <1>3 DEF S

\* Each announcement an AS has received is processed once.
LEMMA OneByOne ==
    ASSUME NEW a, Len(incoming_announcements[a]) \in Nat
    PROVE  /\ Processed(a)[0] = all_anns[a]
           /\ \A k \in 1..Len(incoming_announcements[a]) :
                 Processed(a)[k] = Process(a, Processed(a)[k - 1], incoming_announcements[a][k])
<1>1. \E f : Turns(a, Len(incoming_announcements[a]), f)
  BY TurnsExist
<1>2. Processed(a) = CHOOSE f : Turns(a, Len(incoming_announcements[a]), f)
  BY DEF Processed, Turns
<1>3. Turns(a, Len(incoming_announcements[a]), Processed(a))
  BY <1>1, <1>2
<1>4. QED
  BY <1>3 DEF Turns

-----------------------------------------------------------------------------
(***************************************************************************)
(* Seeding.  What the hops of a row work on: the slots hold seeds only.    *)
(***************************************************************************)
Sown(t) ==
    /\ t.attackers \subseteq ASes
    /\ t.all_anns \in [ASes -> Slot]
    /\ \A a \in ASes : t.all_anns[a] # NoAnn => t.all_anns[a].from_monitor

\* A row has an origin and a path of AS numbers.
LEMMA RowType ==
    ASSUME NEW row \in Rows
    PROVE  /\ row.path \in Seq(ASNs) /\ row.tstamp \in Nat
           /\ Len(row.path) \in Nat \ {0}
           /\ \A k \in 1..Len(row.path) : row.path[k] \in ASNs
<1>1. row \in Row
  BY ROVAssumption
<1>2. row.path \in Seq(ASNs) /\ row.path # <<>> /\ row.tstamp \in Nat
  BY <1>1 DEF Row
<1>3. QED
  BY <1>2

\* What is seeded is an announcement of a monitor, of the origin of the row.
LEMMA SeedType ==
    ASSUME NEW row \in Rows, NEW k \in 1..Len(row.path)
    PROVE  /\ Seed(row, k) \in Announcement
           /\ Seed(row, k).from_monitor = TRUE
           /\ Seed(row, k).origin = row.path[Len(row.path)]
<1> DEFINE n == Len(row.path)
<1>1. n \in Nat \ {0} /\ row.tstamp \in Nat /\ \A i \in 1..n : row.path[i] \in ASNs
  BY RowType
<1>2. row.path[n] \in ASNs
  BY <1>1
<1>3. k > 1 => row.path[n - k + 2] \in ASNs
  <2>1. k > 1 => n - k + 2 \in 1..n
    BY <1>1
  <2>2. QED
    BY <1>1, <2>1
<1>4. {HIJACKED_ASN, NOTHIJACKED_ASN} \subseteq ASNs
  BY ROVAssumption
<1>5. \A x, y : Relationship(x, y) \in 0..3
  BY DEF Relationship, AS_REL_PROVIDER, AS_REL_PEER, AS_REL_CUSTOMER, AS_REL_ORIGIN
<1>6. AS_REL_ORIGIN \in 0..3
  BY DEF AS_REL_ORIGIN
<1>7. ToUInt8(k - 1) \in UInt8
  <2>1. \A m \in Nat : m % 256 \in 0..255
    OBVIOUS
  <2>2. k - 1 \in Nat
    BY <1>1
  <2>3. QED
    BY <2>1, <2>2 DEF ToUInt8, UInt8
<1>8. QED
  BY <1>1, <1>2, <1>3, <1>4, <1>5, <1>6, <1>7
     DEF Seed, Announcement, PlainAnnouncement, EZAnnouncement

\* One hop: it empties a slot or puts a seed there.
LEMMA SeedHopSown ==
    ASSUME NEW row \in Rows, NEW k \in 1..Len(row.path), NEW t, Sown(t)
    PROVE  Sown(SeedHop(t, row, k))
<1> DEFINE a      == row.path[Len(row.path) - k + 1]
           ann    == Seed(row, k)
           marked == IF k = 1 /\ Hijack(row) THEN t.attackers \union {a} ELSE t.attackers
           broken == k > 1 /\ ann.relationship = AS_REL_ORIGIN
           after  == IF broken \/ ~ Accepts(marked, a, ann) THEN NoAnn ELSE ann
           slots  == [t.all_anns EXCEPT ![a] = after]
<1>1. CASE a \notin ASes \/ KeepsSeed(a, t.all_anns[a], ann)
  BY <1>1 DEF SeedHop
<1>2. CASE a \in ASes /\ ~ KeepsSeed(a, t.all_anns[a], ann)
  <2>1. SeedHop(t, row, k) = [attackers |-> marked, all_anns |-> slots]
    BY <1>2 DEF SeedHop
  <2>2. ann \in Announcement /\ ann.from_monitor = TRUE
    BY SeedType
  <2>3. after \in Slot /\ (after # NoAnn => after.from_monitor)
    BY <2>2 DEF Slot
  <2>4. marked \subseteq ASes
    BY <1>2 DEF Sown
  <2>5. /\ slots \in [ASes -> Slot] /\ slots[a] = after
        /\ \A x \in ASes \ {a} : slots[x] = t.all_anns[x]
    BY <1>2, <2>3 DEF Sown
  <2> HIDE DEF slots, after, marked
  <2>6. \A x \in ASes : slots[x] # NoAnn => slots[x].from_monitor
    BY <2>3, <2>5 DEF Sown
  <2>7. QED
    BY <2>1, <2>4, <2>5, <2>6 DEF Sown
<1>3. QED
  BY <1>1, <1>2

\* All hops of a row.
LEMMA RowSown ==
    ASSUME NEW row \in Rows, NEW t0, Sown(t0), NEW hops \in 0..Len(row.path)
    PROVE  Sown(SeedHops(t0, row)[hops])
<1> DEFINE n == Len(row.path)
           S == {k \in 0..n : Sown(SeedHops(t0, row)[k])}
<1>1. n \in Nat
  BY RowType
<1>2. /\ SeedHops(t0, row)[0] = t0
      /\ \A k \in 1..n : SeedHops(t0, row)[k] = SeedHop(SeedHops(t0, row)[k - 1], row, k)
  BY <1>1, HopByHop
<1>3. 0 \in S
  BY <1>1, <1>2
<1>4. ASSUME NEW k \in 1..n, k - 1 \in S PROVE k \in S
  <2>1. Sown(SeedHop(SeedHops(t0, row)[k - 1], row, k))
    BY <1>4, SeedHopSown
  <2>2. k \in 0..n
    BY <1>1
  <2>3. QED
    BY <1>2, <2>1, <2>2
<1> HIDE DEF S
<1>5. hops \in S
  BY <1>1, <1>3, <1>4, UpTo
<1>6. QED
  BY <1>5 DEF S

-----------------------------------------------------------------------------
(***************************************************************************)
(* Announcements.                                                          *)
(***************************************************************************)
\* An exported announcement has the fields of one.
LEMMA ExportType ==
    ASSUME NEW ann \in Announcement, NEW rel \in 0..3, NEW sender \in ASNs
    PROVE  Export(ann, rel, sender) \in Announcement
<1>1. ToUInt8(ann.path_length + 1) \in UInt8
  BY FieldTypes DEF ToUInt8, UInt8
<1>2. QED
  BY <1>1 DEF Export, Announcement, PlainAnnouncement, EZAnnouncement

\* What the sender writes into an exported announcement, and what it leaves.
LEMMA ExportFields ==
    ASSUME NEW ann \in Announcement, NEW rel, NEW sender
    PROVE  /\ Export(ann, rel, sender).relationship = rel
           /\ Export(ann, rel, sender).received_from_asn = sender
           /\ Export(ann, rel, sender).origin = ann.origin
           /\ ~ Export(ann, rel, sender).from_monitor
BY DEF Export, Announcement, PlainAnnouncement, EZAnnouncement

\* A priority is a number, and the relationship decides before the path
\* length does.
LEMMA PriorityOrder ==
    ASSUME NEW x \in Announcement, NEW y \in Announcement
    PROVE  /\ Priority(x) \in Int
           /\ Priority(x) <= Priority(y) => x.relationship <= y.relationship
<1>1. PICK r \in 0..3, s \in 0..3, k \in 0..255, l \in 0..255 :
          /\ x.relationship = r /\ x.path_length = k
          /\ y.relationship = s /\ y.path_length = l
  BY FieldTypes
<1>2. /\ Priority(x) = r * (256 * 256 * 256) + (255 - k) * 256
      /\ Priority(y) = s * (256 * 256 * 256) + (255 - l) * 256
  BY <1>1 DEF Priority
<1>3. r * (256 * 256 * 256) + (255 - k) * 256
          <= s * (256 * 256 * 256) + (255 - l) * 256 => r <= s
  BY SMT
<1>4. r * (256 * 256 * 256) + (255 - k) * 256 \in Int
  BY SMT
<1>5. QED
  BY <1>1, <1>2, <1>3, <1>4

\* An AS ends with something no worse than what it had and than what it
\* processed.
LEMMA BestAfterBest ==
    ASSUME NEW best \in Slot, NEW ann \in Announcement, NEW value
    PROVE  LET after == BestAfter(best, ann, value)
           IN  /\ after \in Announcement /\ after \in {best, ann}
               /\ Priority(ann) <= Priority(after)
               /\ best # NoAnn => Priority(best) <= Priority(after)
<1>1. \A y \in Announcement : Priority(y) \in Int
  BY PriorityOrder
<1>2. CASE Replaces(best, ann, value)
  <2>1. BestAfter(best, ann, value) = ann
    BY <1>2 DEF BestAfter
  <2>2. best # NoAnn => best \in Announcement
    BY DEF Slot
  <2>3. QED
    BY <1>1, <1>2, <2>1, <2>2 DEF Replaces
<1>3. CASE ~ Replaces(best, ann, value)
  <2>1. BestAfter(best, ann, value) = best /\ best # NoAnn /\ best \in Announcement
    BY <1>3 DEF BestAfter, Replaces, Slot
  <2>2. QED
    BY <1>1, <1>3, <2>1 DEF Replaces
<1>4. QED
  BY <1>2, <1>3

-----------------------------------------------------------------------------
(***************************************************************************)
(* What an AS makes of the announcements it has received.                  *)
(***************************************************************************)
\* A queue holds announcements.
LEMMA QueueType ==
    ASSUME TypeOK, NEW a \in ASes
    PROVE  /\ Len(incoming_announcements[a]) \in Nat
           /\ \A k \in 1..Len(incoming_announcements[a]) :
                 /\ incoming_announcements[a][k] \in Announcement
                 /\ incoming_announcements[a][k] \in Queued(a)
           /\ \A ann \in Queued(a) : ann \in Announcement
<1>1. incoming_announcements[a] \in Seq(Announcement)
  BY DEF TypeOK
<1>2. QED
  BY <1>1 DEF Queued

\* The route of an AS after its turn.
Best(a) == Processed(a)[Len(incoming_announcements[a])]

\* It is one of what was there and what was queued.
LEMMA BestType ==
    ASSUME TypeOK, NEW a \in ASes
    PROVE  Best(a) \in Slot
<1> DEFINE n == Len(incoming_announcements[a])
           S == {k \in 0..n : Processed(a)[k] \in Slot}
<1>1. /\ n \in Nat
      /\ \A k \in 1..n : incoming_announcements[a][k] \in Announcement
  BY QueueType
<1>2. /\ Processed(a)[0] = all_anns[a]
      /\ \A k \in 1..n : Processed(a)[k] = Process(a, Processed(a)[k - 1],
                                                   incoming_announcements[a][k])
  BY <1>1, OneByOne
<1>3. 0 \in S
  BY <1>1, <1>2 DEF TypeOK
<1>4. ASSUME NEW k \in 1..n, k - 1 \in S PROVE k \in S
  <2>1. Process(a, Processed(a)[k - 1], incoming_announcements[a][k]) \in Slot
    BY <1>1, <1>4 DEF Process, BestAfter, Slot
  <2>2. k \in 0..n
    BY <1>1
  <2>3. QED
    BY <1>2, <2>1, <2>2
<1> HIDE DEF S
<1>5. \A k \in 0..n : k \in S
  BY <1>1, <1>3, <1>4, UpTo
<1>6. n \in 0..n
  BY <1>1
<1>7. QED
  BY <1>5, <1>6 DEF S, Best

\* A turn empties one queue, and what is sent goes to the end of others.
LEMMA VisitQueues ==
    ASSUME TypeOK, NEW a \in ASes, Visit(a), Best(a) \in Slot, NEW x \in ASes
    PROVE  /\ incoming_announcements'[x] \in Seq(Announcement)
           /\ Queued(x)' = (IF x = a THEN {} ELSE Queued(x))
                  \union (IF x \in SendsTo(a, Best(a)) THEN {Export(Best(a), SentAs, a)} ELSE {})
           /\ x \notin SendsTo(a, Best(a)) =>
                  incoming_announcements'[x] = IF x = a THEN <<>> ELSE incoming_announcements[x]
<1> DEFINE left == IF x = a THEN <<>> ELSE incoming_announcements[x]
           sent == Export(Best(a), SentAs, a)
<1>1. incoming_announcements'[x] =
          IF x \in SendsTo(a, Best(a)) THEN Append(left, sent) ELSE left
  BY DEF Visit, Best
<1>2. left \in Seq(Announcement)
  BY DEF TypeOK
<1>3. {left[k] : k \in DOMAIN left} = IF x = a THEN {} ELSE Queued(x)
  <2>1. DOMAIN << >> = {}
    OBVIOUS
  <2>2. QED
    BY <2>1 DEF Queued
<1>4. CASE x \in SendsTo(a, Best(a))
  <2>1. sent \in Announcement
    <3>1. Best(a) # NoAnn
      BY <1>4 DEF SendsTo
    <3>2. SentAs \in 0..3 /\ a \in ASNs
      BY ROVAssumption DEF SentAs, AS_REL_CUSTOMER, AS_REL_PEER, AS_REL_PROVIDER
    <3>3. QED
      BY <3>1, <3>2, ExportType DEF Slot
  <2> HIDE DEF left, sent
  <2>2. Append(left, sent) \in Seq(Announcement)
    BY <1>2, <2>1
  <2>3. {Append(left, sent)[k] : k \in DOMAIN Append(left, sent)}
            = {left[k] : k \in DOMAIN left} \union {sent}
    <3>1. /\ Len(left) \in Nat /\ DOMAIN left = 1..Len(left)
          /\ DOMAIN Append(left, sent) = 1..(Len(left) + 1)
          /\ \A k \in 1..Len(left) : Append(left, sent)[k] = left[k]
          /\ Append(left, sent)[Len(left) + 1] = sent
      BY <1>2, <2>1
    <3>2. 1..(Len(left) + 1) = 1..Len(left) \union {Len(left) + 1}
      BY <3>1
    <3>3. QED
      BY <3>1, <3>2
  <2>4. incoming_announcements'[x] = Append(left, sent)
    BY <1>1, <1>4
  <2>5. QED
    BY <1>3, <1>4, <2>2, <2>3, <2>4 DEF Queued, sent
<1>5. CASE x \notin SendsTo(a, Best(a))
  <2>1. incoming_announcements'[x] = left
    BY <1>1, <1>5
  <2> HIDE DEF left
  <2>2. Queued(x)' = {left[k] : k \in DOMAIN left}
    BY <2>1 DEF Queued
  <2>3. QED
    BY <1>2, <1>3, <1>5, <2>1, <2>2 DEF left
<1>6. QED
  BY <1>4, <1>5

-----------------------------------------------------------------------------
(***************************************************************************)
(* Types, and what is under way in the phases of a block.                  *)
(***************************************************************************)
\* Between the blocks and while seeding nothing is under way.
Phases ==
    /\ sweep \in {"seed", "done"} => pending = {}
    /\ sweep = "seed" =>
          \A a \in ASes : /\ incoming_announcements[a] = <<>>
                          /\ all_anns[a] # NoAnn => all_anns[a].from_monitor

Sound == TypeOK /\ Phases

\* A row puts seeds into slots, or empties them.
LEMMA RowStep ==
    ASSUME Sound, NEW row \in Rows, give_ann_to_as_path(row)
    PROVE  Sound'
<1> DEFINE hops == IF input.origin_only THEN 1 ELSE Len(row.path)
           t0   == [attackers |-> attackers, all_anns |-> all_anns]
           t1   == SeedHops(t0, row)[hops]
<1>1. /\ sweep = "seed" /\ sweep' = "seed" /\ rows' = rows + 1
      /\ UNCHANGED <<input, pending, incoming_announcements>>
  BY DEF give_ann_to_as_path
<1>2. CASE find_loop(row.path)
  <2>1. UNCHANGED <<attackers, all_anns>>
    BY <1>2 DEF give_ann_to_as_path
  <2>2. QED
    BY <1>1, <2>1 DEF Sound, TypeOK, Phases
<1>3. CASE ~ find_loop(row.path)
  <2>1. attackers' = t1.attackers /\ all_anns' = t1.all_anns
    BY <1>3 DEF give_ann_to_as_path
  <2>2. hops \in 0..Len(row.path)
    BY RowType
  <2>3. Sown(t0)
    BY <1>1 DEF Sown, Sound, TypeOK, Phases
  <2> HIDE DEF hops, t0
  <2>4. Sown(t1)
    BY <2>2, <2>3, RowSown
  <2> HIDE DEF t1
  <2>5. TypeOK'
    BY <1>1, <2>1, <2>4 DEF Sown, Sound, TypeOK
  <2>6. Phases'
    BY <1>1, <2>1, <2>4 DEF Sown, Sound, Phases
  <2>7. QED
    BY <2>5, <2>6 DEF Sound
<1>4. QED
  BY <1>2, <1>3

\* The turn of an AS in a sweep.
LEMMA VisitStep ==
    ASSUME Sound, NEW a \in ASes, Visit(a)
    PROVE  Sound'
<1>1. /\ UNCHANGED <<input, attackers, rows, sweep>>
      /\ pending' = pending \ {a} /\ a \in pending
      /\ all_anns' = [all_anns EXCEPT ![a] = Best(a)]
  BY DEF Visit, Current, Best
<1>2. Best(a) \in Slot
  BY BestType DEF Sound
<1>3. TypeOK'
  <2>1. all_anns' \in [ASes -> Slot]
    BY <1>1, <1>2 DEF Sound, TypeOK
  <2>2. incoming_announcements' \in [ASes -> Seq(Announcement)]
    <3>1. \A x \in ASes : incoming_announcements'[x] \in Seq(Announcement)
      BY <1>2, VisitQueues DEF Sound
    <3>2. incoming_announcements' = [x \in ASes |-> incoming_announcements'[x]]
      BY DEF Visit
    <3>3. QED
      BY <3>1, <3>2
  <2>3. QED
    BY <1>1, <2>1, <2>2 DEF Sound, TypeOK
<1>4. Phases'
  BY <1>1 DEF Sound, Phases
<1>5. QED
  BY <1>3, <1>4 DEF Sound

\* The other steps move no announcement, or take them all.
LEMMA SoundStep ==
    ASSUME Sound, [Next]_vars
    PROVE  Sound'
<1>1. ASSUME NEW from \in {"seed", "up", "peers", "down"},
             NEW to \in {"up", "peers", "down", "done"}, StartSweep(from, to)
      PROVE  Sound'
  <2>1. /\ sweep' = to /\ pending' \subseteq ASes /\ (to = "done" => pending' = {})
        /\ UNCHANGED <<input, attackers, rows, all_anns, incoming_announcements>>
    BY <1>1 DEF StartSweep
  <2>2. QED
    BY <2>1 DEF Sound, TypeOK, Phases
<1>2. CASE clear_announcements
  <2>1. /\ all_anns' = [a \in ASes |-> NoAnn]
        /\ incoming_announcements' = [a \in ASes |-> <<>>]
        /\ sweep = "done" /\ sweep' = "seed" /\ rows' = 0 /\ UNCHANGED <<input, attackers, pending>>
    BY <1>2 DEF clear_announcements
  <2>2. /\ all_anns' \in [ASes -> Slot]
        /\ incoming_announcements' \in [ASes -> Seq(Announcement)]
    BY <2>1 DEF Slot
  <2>3. QED
    BY <2>1, <2>2 DEF Sound, TypeOK, Phases
<1>3. CASE UNCHANGED vars
  BY <1>3 DEF Sound, TypeOK, Phases, vars
<1>4. QED
  BY <1>1, <1>2, <1>3, RowStep, VisitStep DEF Next, propagate_up, propagate_down, EndBlock

\* The program starts with empty slots and queues.
LEMMA SoundInit == Init => Sound
BY DEF Init, Sound, TypeOK, Phases, Slot

(***************************************************************************)
(* Every variable keeps its type, for every graph, adopters and rows.      *)
(***************************************************************************)
THEOREM TypeCorrect == Spec => []TypeOK
<1>1. Sound => TypeOK
  BY DEF Sound
<1>2. QED
  BY <1>1, SoundInit, SoundStep, PTL DEF Spec

-----------------------------------------------------------------------------
(***************************************************************************)
(* The best of what is queued.                                             *)
(***************************************************************************)
\* What an AS has in its slot after k announcements: its seed if it has one,
\* otherwise one of those it accepts that is no worse than any it accepts.
Chosen(a, best, k) ==
    /\ best \in Slot
    /\ best = all_anns[a] \/ (best \in Queued(a) /\ Accepts(attackers, a, best))
    /\ Seeded(a) => best = all_anns[a]
    /\ all_anns[a] # NoAnn => best # NoAnn /\ Priority(all_anns[a]) <= Priority(best)
    /\ ~ Seeded(a) =>
          \A j \in 1..k : Accepts(attackers, a, incoming_announcements[a][j]) =>
              /\ best # NoAnn
              /\ Priority(incoming_announcements[a][j]) <= Priority(best)

\* One announcement more.
LEMMA ProcessChosen ==
    ASSUME TypeOK, NEW a \in ASes, \A ann \in Queued(a) : ~ ann.from_monitor,
           NEW was, NEW k \in 1..Len(incoming_announcements[a]), Chosen(a, was, k - 1)
    PROVE  Chosen(a, Process(a, was, incoming_announcements[a][k]), k)
<1> DEFINE queue == incoming_announcements[a]
           ann   == queue[k]
           after == Process(a, was, ann)
<1>1. ann \in Announcement /\ ann \in Queued(a) /\ ~ ann.from_monitor
  BY QueueType
<1>2. \A j \in 1..k : j = k \/ j \in 1..(k - 1)
  BY QueueType
<1>3. \A j \in 1..k : queue[j] \in Announcement
  BY QueueType
<1>4. all_anns[a] \in Slot /\ (all_anns[a] # NoAnn => all_anns[a] \in Announcement)
  BY DEF TypeOK, Slot
<1>5. \A y \in Announcement : Priority(y) \in Int
  BY PriorityOrder
<1>6. was \in Slot /\ (was # NoAnn => was \in Announcement)
  BY DEF Chosen, Slot
<1>7. CASE Seeded(a)
  <2>1. was = all_anns[a]
    BY <1>7 DEF Chosen
  <2>2. was # NoAnn /\ was.from_monitor
    BY <1>7, <2>1 DEF Seeded
  <2>3. after = was
    BY <2>2 DEF Process
  <2>4. Chosen(a, was, k)
    BY <1>7 DEF Chosen
  <2>5. QED
    BY <2>3, <2>4
<1>8. CASE ~ Seeded(a) /\ ~ Accepts(attackers, a, ann)
  <2>1. after = was
    BY <1>8 DEF Process
  <2>2. Chosen(a, was, k)
    BY <1>2, <1>8 DEF Chosen
  <2>3. QED
    BY <2>1, <2>2
<1>9. CASE ~ Seeded(a) /\ Accepts(attackers, a, ann)
  <2>1. ~ (was # NoAnn /\ was.from_monitor)
    BY <1>9 DEF Chosen, Seeded
  <2> DEFINE best == BestAfter(was, ann, Value(a))
  <2>2. after = best
    BY <1>9, <2>1 DEF Process
  <2>3. /\ best \in Announcement /\ best \in {was, ann}
        /\ Priority(ann) <= Priority(best)
        /\ was # NoAnn => Priority(was) <= Priority(best)
    BY <1>1, <1>6, BestAfterBest
  <2> HIDE DEF best, after
  <2>4. best # NoAnn /\ best \in Slot
    BY <2>3, AnnouncementsAssumption DEF Slot
  <2>5. best = all_anns[a] \/ (best \in Queued(a) /\ Accepts(attackers, a, best))
    BY <1>1, <1>9, <2>3 DEF Chosen
  <2>6. ASSUME NEW y \in Announcement, was # NoAnn, Priority(y) <= Priority(was)
        PROVE  Priority(y) <= Priority(best)
    BY <1>5, <1>6, <2>3, <2>6
  <2>7. all_anns[a] # NoAnn => Priority(all_anns[a]) <= Priority(best)
    BY <1>4, <2>6 DEF Chosen
  <2>8. ASSUME NEW j \in 1..k, Accepts(attackers, a, queue[j])
        PROVE  Priority(queue[j]) <= Priority(best)
    <3>1. CASE j = k
      BY <2>3, <3>1
    <3>2. CASE j \in 1..(k - 1)
      <4>1. was # NoAnn /\ Priority(queue[j]) <= Priority(was)
        BY <1>9, <2>8, <3>2 DEF Chosen
      <4>2. QED
        BY <1>3, <2>6, <4>1
    <3>3. QED
      BY <1>2, <3>1, <3>2
  <2>9. Chosen(a, best, k)
    BY <1>9, <2>4, <2>5, <2>7, <2>8 DEF Chosen
  <2>10. QED
    BY <2>2, <2>9 DEF after
<1>10. QED
  BY <1>7, <1>8, <1>9

\* All of them.
LEMMA AllChosen ==
    ASSUME TypeOK, NEW a \in ASes, \A ann \in Queued(a) : ~ ann.from_monitor
    PROVE  Chosen(a, Best(a), Len(incoming_announcements[a]))
<1> DEFINE n == Len(incoming_announcements[a])
           S == {k \in 0..n : Chosen(a, Processed(a)[k], k)}
<1>1. n \in Nat
  BY QueueType
<1>2. /\ Processed(a)[0] = all_anns[a]
      /\ \A k \in 1..n : Processed(a)[k] = Process(a, Processed(a)[k - 1],
                                                   incoming_announcements[a][k])
  BY <1>1, OneByOne
<1>3. 0 \in S
  <2>1. all_anns[a] # NoAnn => Priority(all_anns[a]) \in Int
    BY PriorityOrder DEF TypeOK, Slot
  <2>2. Chosen(a, all_anns[a], 0)
    BY <2>1 DEF Chosen, TypeOK
  <2>3. QED
    BY <1>1, <1>2, <2>2
<1>4. ASSUME NEW k \in 1..n, k - 1 \in S PROVE k \in S
  <2>1. Chosen(a, Process(a, Processed(a)[k - 1], incoming_announcements[a][k]), k)
    BY <1>4, ProcessChosen
  <2>2. k \in 0..n
    BY <1>1
  <2>3. QED
    BY <1>2, <2>1, <2>2
<1> HIDE DEF S
<1>5. \A k \in 0..n : k \in S
  BY <1>1, <1>3, <1>4, UpTo
<1>6. n \in 0..n
  BY <1>1
<1>7. QED
  BY <1>5, <1>6 DEF S, Best

-----------------------------------------------------------------------------
(***************************************************************************)
(* What an AS has heard from its neighbours, in graphs that are ranked as  *)
(* decide_ranks ranks one without customer cycles and in which, if one AS  *)
(* has another as its neighbour, so has the other.                         *)
(***************************************************************************)
Premises == WellRanked /\ MutualNeighbours

SendsUp(b) == all_anns[b] # NoAnn /\ all_anns[b].relationship >= AS_REL_CUSTOMER

FromNeighbours(x) == Queued(x) \union (IF Learned(x) THEN {all_anns[x]} ELSE {})

\* What a multihomed AS holds back from its providers and from its peers, by
\* the seeds alone.
HeldAbove(b) ==
    /\ input.topo.customers[b] = {}
    /\ \/ input.mh_mode \in {2, 3}
       \/ input.mh_mode = 1 /\ \E p \in input.topo.providers[b] :
                                  Seeded(p) /\ all_anns[p].origin = all_anns[b].origin

HeldBeside(b) == input.topo.customers[b] = {} /\ input.mh_mode = 2

\* It is what the neighbour would send now, as what the neighbour is to x, and
\* was sent in the sweep that it belongs to.
HeardRight(x, ann) ==
    LET b == ann.received_from_asn
    IN  /\ b \in ASes /\ all_anns[b] # NoAnn
        /\ ann = Export(all_anns[b], ann.relationship, b)
        /\ \/ /\ ann.relationship = AS_REL_CUSTOMER /\ x \in input.topo.providers[b]
              /\ SendsUp(b) /\ ~ HeldAbove(b)
           \/ /\ ann.relationship = AS_REL_PEER /\ x \in input.topo.peers[b]
              /\ SendsUp(b) /\ ~ HeldBeside(b)
           \/ ann.relationship = AS_REL_PROVIDER /\ x \in input.topo.customers[b]
        /\ sweep = "up" => ann.relationship = AS_REL_CUSTOMER /\ b \notin pending
        /\ sweep = "peers" => ann.relationship # AS_REL_PROVIDER
        /\ sweep = "down" /\ ann.relationship = AS_REL_PROVIDER => b \notin pending

HeardFromNeighbours == \A x \in ASes : \A ann \in FromNeighbours(x) : HeardRight(x, ann)

\* Who learned a route did not refuse it, and would not now.
LearnedAccepted == \A x \in ASes : Learned(x) => Accepts(attackers, x, all_anns[x])

\* Going up, the ASes visited are the lowest ones and have empty queues, and the
\* others have no routes but their seeds: after that sweep no customer's
\* announcement is queued any more.
UpSwept ==
    /\ sweep = "up" =>
          \A a \in ASes \ pending :
              /\ incoming_announcements[a] = <<>>
              /\ \A b \in pending : input.topo.rank[a] <= input.topo.rank[b]
    /\ sweep = "up" => \A b \in pending : all_anns[b] # NoAnn => Seeded(b)
    /\ sweep \in {"peers", "down"} =>
          \A x \in ASes : \A ann \in Queued(x) : ann.relationship # AS_REL_CUSTOMER

\* Going down, they are the highest ones.
DownSwept ==
    sweep = "down" =>
        \A a \in ASes \ pending :
            /\ incoming_announcements[a] = <<>>
            /\ \A b \in pending : input.topo.rank[b] <= input.topo.rank[a]

Heard == TypeOK /\ Phases /\ HeardFromNeighbours /\ LearnedAccepted /\ UpSwept /\ DownSwept

\* The neighbours of an AS are ASes of the graph.
LEMMA TopologyType ==
    ASSUME TypeOK, NEW a \in ASes
    PROVE  /\ input.topo.providers[a] \subseteq ASes /\ input.topo.peers[a] \subseteq ASes
           /\ input.topo.customers[a] \subseteq ASes /\ input.topo.rank[a] \in Int
<1>1. input \in Input
  BY ROVAssumption DEF TypeOK
<1>2. input.topo \in Topology
  BY <1>1 DEF Input
<1>3. QED
  BY <1>2 DEF Topology

\* A provider outranks its customers, from either side.
LEMMA ProvidersAbove ==
    ASSUME Premises, TypeOK, NEW a \in ASes
    PROVE  /\ \A p \in input.topo.providers[a] : input.topo.rank[a] < input.topo.rank[p]
           /\ \A c \in input.topo.customers[a] : input.topo.rank[c] < input.topo.rank[a]
<1>1. input \in Inputs
  BY DEF TypeOK
<1>2. \A c \in input.topo.customers[a] : input.topo.rank[c] < input.topo.rank[a]
  BY <1>1 DEF Premises, WellRanked
<1>3. ASSUME NEW p \in input.topo.providers[a]
      PROVE  input.topo.rank[a] < input.topo.rank[p]
  <2>1. p \in ASes
    BY TopologyType
  <2>2. a \in input.topo.customers[p]
    BY <1>1, <2>1 DEF Premises, MutualNeighbours
  <2>3. QED
    BY <1>1, <2>1, <2>2 DEF Premises, WellRanked
<1>4. QED
  BY <1>2, <1>3

\* What is queued comes from no monitor.
LEMMA QueuedIsNoSeed ==
    ASSUME TypeOK, HeardFromNeighbours, NEW x \in ASes, NEW ann \in Queued(x)
    PROVE  ~ ann.from_monitor
<1> DEFINE b == ann.received_from_asn
<1>1. HeardRight(x, ann)
  BY DEF HeardFromNeighbours, FromNeighbours
<1>2. b \in ASes /\ all_anns[b] # NoAnn /\ ann = Export(all_anns[b], ann.relationship, b)
  BY <1>1 DEF HeardRight
<1>3. all_anns[b] \in Announcement
  BY <1>2 DEF TypeOK, Slot
<1>4. ~ Export(all_anns[b], ann.relationship, b).from_monitor
  BY <1>3, ExportFields
<1>5. QED
  BY <1>2, <1>4

\* What a turn leaves in the slots.
LEMMA VisitSlots ==
    ASSUME Heard, NEW a \in ASes, Visit(a)
    PROVE  /\ Chosen(a, Best(a), Len(incoming_announcements[a]))
           /\ Best(a) \in Slot
           /\ \A x \in ASes : all_anns'[x] = IF x = a THEN Best(a) ELSE all_anns[x]
           /\ UNCHANGED <<input, attackers, rows, sweep>>
           /\ a \in pending /\ pending' = pending \ {a}
           /\ sweep \in {"up", "peers", "down"}
<1>1. Chosen(a, Best(a), Len(incoming_announcements[a]))
  BY AllChosen, QueuedIsNoSeed DEF Heard
<1>2. all_anns' = [all_anns EXCEPT ![a] = Best(a)]
  BY DEF Visit, Best
<1>3. /\ UNCHANGED <<input, attackers, rows, sweep>>
      /\ a \in pending /\ pending' = pending \ {a}
  BY DEF Visit, Current
<1>4. sweep \in {"up", "peers", "down"}
  BY <1>3 DEF Heard, TypeOK, Phases
<1>5. QED
  BY <1>1, <1>2, <1>3, <1>4 DEF Chosen, Heard, TypeOK

SentInUp(b)    == (sweep = "up" /\ b \notin pending) \/ sweep \in {"peers", "down"}
SentInPeers(b) == (sweep = "peers" /\ b \notin pending) \/ sweep = "down"
SentInDown(b)  == sweep = "down" /\ b \notin pending

\* After its turn in the first sweep an AS neither replaces a route it sends
\* up, nor gains one.
LEMMA TurnKeeps ==
    ASSUME Heard, NEW a \in ASes, Visit(a), NEW b \in ASes, SentInUp(b)
    PROVE  /\ SendsUp(b) => all_anns'[b] = all_anns[b]
           /\ SendsUp(b)' => SendsUp(b)
<1>1. CASE b # a
  BY <1>1, VisitSlots DEF SendsUp
<1>2. CASE b = a
  <2>1. sweep \in {"peers", "down"}
    BY <1>2, VisitSlots DEF SentInUp
  <2>2. /\ all_anns'[a] = Best(a)
        /\ Chosen(a, Best(a), Len(incoming_announcements[a]))
    BY VisitSlots
  <2>3. CASE Best(a) = all_anns[a]
    BY <1>2, <2>2, <2>3 DEF SendsUp
  <2>4. CASE Best(a) \in Queued(a)
    <3> DEFINE best == Best(a)
    <3>1. best \in Announcement /\ best.relationship # AS_REL_CUSTOMER
      BY <2>1, <2>4, QueueType DEF Heard, UpSwept
    <3>2. HeardRight(a, best)
      BY <2>4 DEF Heard, HeardFromNeighbours, FromNeighbours
    <3>3. best.relationship \in {AS_REL_PEER, AS_REL_PROVIDER}
      BY <3>1, <3>2 DEF HeardRight
    <3>4. ~ (best.relationship >= AS_REL_CUSTOMER)
      BY <3>3 DEF AS_REL_CUSTOMER, AS_REL_PEER, AS_REL_PROVIDER
    <3>5. ~ SendsUp(a)
      <4>1. SUFFICES ASSUME SendsUp(a) PROVE FALSE
        OBVIOUS
      <4>2. /\ all_anns[a] \in Announcement /\ all_anns[a].relationship >= AS_REL_CUSTOMER
            /\ Priority(all_anns[a]) <= Priority(best)
        BY <2>2, <4>1 DEF SendsUp, Heard, TypeOK, Slot, Chosen
      <4>3. all_anns[a].relationship <= best.relationship
        BY <3>1, <4>2, PriorityOrder
      <4>4. all_anns[a].relationship \in 0..3 /\ best.relationship \in 0..3
        BY <3>1, <4>2, FieldTypes
      <4>5. QED
        BY <3>4, <4>2, <4>3, <4>4 DEF AS_REL_CUSTOMER
    <3>6. ~ SendsUp(a)'
      BY <2>2, <3>4 DEF SendsUp
    <3>7. QED
      BY <1>2, <3>5, <3>6
  <2>5. QED
    BY <2>2, <2>3, <2>4 DEF Chosen
<1>3. QED
  BY <1>1, <1>2

\* Nobody replaces a route that another has heard of.
LEMMA SenderKeepsRoute ==
    ASSUME Heard, NEW a \in ASes, Visit(a), NEW x \in ASes, NEW ann \in FromNeighbours(x)
    PROVE  all_anns'[ann.received_from_asn] = all_anns[ann.received_from_asn]
<1> DEFINE b == ann.received_from_asn
<1>1. HeardRight(x, ann)
  BY DEF Heard, HeardFromNeighbours
<1>2. b \in ASes
  BY <1>1 DEF HeardRight
<1>3. CASE b # a
  BY <1>2, <1>3, VisitSlots
<1>4. CASE b = a
  <2>1. a \in pending /\ sweep \in {"up", "peers", "down"}
    BY VisitSlots
  <2>2. sweep \in {"peers", "down"} /\ SendsUp(b)
    BY <1>1, <1>4, <2>1 DEF HeardRight
  <2>3. SentInUp(b)
    BY <2>2 DEF SentInUp
  <2>4. QED
    BY <1>2, <2>2, <2>3, TurnKeeps
<1>5. QED
  BY <1>3, <1>4

\* Seeds stay, and nothing else becomes one.
LEMMA SeedsStay ==
    ASSUME Heard, NEW a \in ASes, Visit(a), NEW p \in ASes
    PROVE  /\ Seeded(p)' = Seeded(p)
           /\ Seeded(p) => all_anns'[p] = all_anns[p]
<1>1. /\ all_anns'[p] = IF p = a THEN Best(a) ELSE all_anns[p]
      /\ Chosen(a, Best(a), Len(incoming_announcements[a]))
  BY VisitSlots
<1>2. \A ann \in Queued(a) : ~ ann.from_monitor
  BY QueuedIsNoSeed DEF Heard
<1>3. QED
  BY <1>1, <1>2 DEF Chosen, Seeded

\* What an AS holds back does not change while it keeps its route.
LEMMA HeldStill ==
    ASSUME Heard, NEW a \in ASes, Visit(a), NEW b \in ASes, all_anns'[b] = all_anns[b]
    PROVE  HeldAbove(b)' = HeldAbove(b) /\ HeldBeside(b)' = HeldBeside(b)
<1>1. input' = input /\ input.topo.providers[b] \subseteq ASes
  BY VisitSlots, TopologyType DEF Heard
<1>2. \A p \in input.topo.providers[b] :
          (Seeded(p) /\ all_anns[p].origin = all_anns[b].origin)'
              = (Seeded(p) /\ all_anns[p].origin = all_anns[b].origin)
  BY <1>1, SeedsStay
<1>3. QED
  BY <1>1, <1>2 DEF HeldAbove, HeldBeside

\* The automatic mode asks providers that have not had their turn, so it learns
\* of their seeds: what send_all_announcements holds back is what the seeds say.
LEMMA HeldByTurn ==
    ASSUME Premises, Heard, NEW a \in ASes, Visit(a)
    PROVE  /\ sweep = "up" => HeldBack(a, Best(a)) = HeldAbove(a)'
           /\ sweep = "peers" => HeldBack(a, Best(a)) = HeldBeside(a)'
<1>1. /\ input' = input /\ all_anns'[a] = Best(a) /\ a \in pending /\ TypeOK
      /\ \A x \in ASes : x # a => all_anns'[x] = all_anns[x]
  BY VisitSlots DEF Heard
<1>2. ASSUME sweep = "up", NEW p \in input.topo.providers[a]
      PROVE  (all_anns[p] # NoAnn /\ all_anns[p].origin = Best(a).origin)
                 = (Seeded(p) /\ all_anns[p].origin = all_anns[a].origin)'
  <2>1. /\ p \in ASes /\ input.topo.rank[a] \in Int /\ input.topo.rank[p] \in Int
        /\ input.topo.rank[a] < input.topo.rank[p]
    BY <1>1, TopologyType, ProvidersAbove
  <2>2. p # a /\ p \in pending
    BY <1>1, <1>2, <2>1 DEF Heard, UpSwept
  <2>3. all_anns[p] # NoAnn <=> Seeded(p)
    BY <1>2, <2>2 DEF Heard, UpSwept, Seeded
  <2>4. QED
    BY <1>1, <2>1, <2>2, <2>3 DEF Seeded
<1>3. sweep = "up" => HeldBack(a, Best(a)) = HeldAbove(a)'
  BY <1>1, <1>2 DEF HeldBack, KnownUpstream, HeldAbove
<1>4. sweep = "peers" => HeldBack(a, Best(a)) = HeldBeside(a)'
  BY <1>1 DEF HeldBack, HeldBeside
<1>5. QED
  BY <1>3, <1>4

\* What a neighbour was told on a turn.
Told(a, x, ann) == x \in SendsTo(a, Best(a)) /\ ann = Export(Best(a), SentAs, a)

\* All that is heard after a turn was heard before it or is told on it.
LEMMA VisitSources ==
    ASSUME Heard, NEW a \in ASes, Visit(a), NEW x \in ASes, NEW ann \in FromNeighbours(x)'
    PROVE  ann \in FromNeighbours(x) \/ Told(a, x, ann)
<1>1. CASE ann \in Queued(x)'
  <2>1. Queued(x)' = (IF x = a THEN {} ELSE Queued(x))
            \union (IF x \in SendsTo(a, Best(a)) THEN {Export(Best(a), SentAs, a)} ELSE {})
    BY VisitQueues, VisitSlots DEF Heard
  <2>2. ann \in Queued(x) \/ Told(a, x, ann)
    BY <1>1, <2>1 DEF Told
  <2>3. QED
    BY <2>2 DEF FromNeighbours
<1>2. CASE Learned(x)' /\ ann = all_anns'[x]
  <2>1. CASE x # a
    BY <1>2, <2>1, VisitSlots DEF Learned, FromNeighbours
  <2>2. CASE x = a
    <3>1. ann = Best(a) /\ (Best(a) = all_anns[a] \/ Best(a) \in Queued(a))
      BY <1>2, <2>2, VisitSlots DEF Chosen
    <3>2. QED
      BY <1>2, <2>2, <3>1 DEF Learned, FromNeighbours
  <2>3. QED
    BY <2>1, <2>2
<1>3. QED
  BY <1>1, <1>2 DEF FromNeighbours

\* What is told is right.
LEMMA ToldRight ==
    ASSUME Premises, Heard, NEW a \in ASes, Visit(a), NEW x \in ASes, NEW ann, Told(a, x, ann)
    PROVE  /\ ann.relationship = SentAs
           /\ HeardRight(x, ann)'
<1> DEFINE best == Best(a)
<1>1. /\ all_anns'[a] = best /\ best \in Slot /\ sweep' = sweep /\ input' = input
      /\ a \notin pending' /\ sweep \in {"up", "peers", "down"}
  BY VisitSlots
<1>2. best # NoAnn /\ best \in Announcement /\ best.relationship \in 0..3
  <2>1. best # NoAnn
    BY DEF Told, SendsTo
  <2>2. best \in Announcement
    BY <1>1, <2>1 DEF Slot
  <2>3. QED
    BY <2>1, <2>2, FieldTypes
<1>3. /\ ann = Export(best, SentAs, a) /\ x \in SendsTo(a, best)
  BY DEF Told
<1>4. ann.relationship = SentAs /\ ann.received_from_asn = a
  BY <1>2, <1>3, ExportFields
<1> HIDE DEF best
<1>5. CASE sweep = "up"
  <2>1. SentAs = AS_REL_CUSTOMER
    BY <1>5 DEF SentAs
  <2>2. x \in input.topo.providers[a] /\ SendsUp(a)' /\ ~ HeldAbove(a)'
    BY <1>1, <1>2, <1>3, <1>5, HeldByTurn DEF SendsTo, SendsUp, AS_REL_CUSTOMER, best
  <2>3. QED
    BY <1>1, <1>2, <1>3, <1>4, <1>5, <2>1, <2>2 DEF HeardRight
<1>6. CASE sweep = "peers"
  <2>1. SentAs = AS_REL_PEER /\ SentAs # AS_REL_PROVIDER
    BY <1>6 DEF SentAs, AS_REL_PEER, AS_REL_PROVIDER
  <2>2. x \in input.topo.peers[a] /\ SendsUp(a)' /\ ~ HeldBeside(a)'
    BY <1>1, <1>2, <1>3, <1>6, HeldByTurn DEF SendsTo, SendsUp, AS_REL_CUSTOMER, best
  <2>3. QED
    BY <1>1, <1>2, <1>3, <1>4, <1>6, <2>1, <2>2 DEF HeardRight
<1>7. CASE sweep = "down"
  <2>1. SentAs = AS_REL_PROVIDER
    BY <1>7 DEF SentAs
  <2>2. x \in input.topo.customers[a]
    BY <1>2, <1>3, <1>7 DEF SendsTo
  <2>3. QED
    BY <1>1, <1>2, <1>3, <1>4, <1>7, <2>1, <2>2 DEF HeardRight
<1>8. QED
  BY <1>1, <1>5, <1>6, <1>7

\* A turn leaves what was heard right, and tells what is right.
LEMMA VisitHeard ==
    ASSUME Premises, Heard, NEW a \in ASes, Visit(a)
    PROVE  HeardFromNeighbours'
<1> SUFFICES ASSUME NEW x \in ASes, NEW ann \in FromNeighbours(x)'
             PROVE  HeardRight(x, ann)'
  BY DEF HeardFromNeighbours
<1>1. CASE ann \in FromNeighbours(x)
  <2> DEFINE b == ann.received_from_asn
  <2>1. HeardRight(x, ann)
    BY <1>1 DEF Heard, HeardFromNeighbours
  <2>2. all_anns'[b] = all_anns[b]
    BY <1>1, SenderKeepsRoute
  <2>3. sweep' = sweep /\ input' = input /\ pending' \subseteq pending
    BY VisitSlots
  <2>4. SendsUp(b)' = SendsUp(b)
    BY <2>2 DEF SendsUp
  <2>5. HeldAbove(b)' = HeldAbove(b) /\ HeldBeside(b)' = HeldBeside(b)
    BY <2>1, <2>2, HeldStill DEF HeardRight
  <2>6. QED
    BY <2>1, <2>2, <2>3, <2>4, <2>5 DEF HeardRight
<1>2. CASE Told(a, x, ann)
  BY <1>2, ToldRight
<1>3. QED
  BY <1>1, <1>2, VisitSources

\* A turn has an AS learn only what it accepts.
LEMMA VisitAccepted ==
    ASSUME Heard, NEW a \in ASes, Visit(a)
    PROVE  LearnedAccepted'
<1> SUFFICES ASSUME NEW x \in ASes, Learned(x)'
             PROVE  Accepts(attackers, x, all_anns[x])'
  BY DEF LearnedAccepted
<1>1. input' = input /\ attackers' = attackers
  BY VisitSlots
<1>2. \A y, ann : Accepts(attackers, y, ann)' = Accepts(attackers, y, ann)
  BY <1>1 DEF Accepts, is_from_attacker
<1>3. CASE all_anns'[x] = all_anns[x]
  BY <1>2, <1>3 DEF Learned, Heard, LearnedAccepted
<1>4. CASE x = a /\ all_anns'[a] # all_anns[a]
  <2>1. Accepts(attackers, a, all_anns'[a])
    BY <1>4, VisitSlots DEF Chosen
  <2>2. QED
    BY <1>1, <1>4, <2>1 DEF Accepts, is_from_attacker
<1>5. QED
  BY <1>3, <1>4, VisitSlots

\* Each level is complete before the next one begins, up and down.
LEMMA VisitSwept ==
    ASSUME Premises, Heard, NEW a \in ASes, Visit(a)
    PROVE  UpSwept' /\ DownSwept'
<1>1. /\ sweep' = sweep /\ input' = input /\ a \in pending /\ pending' = pending \ {a}
      /\ pending \subseteq ASes /\ TypeOK
  BY VisitSlots DEF Heard, TypeOK
<1>2. \A b \in ASes : input.topo.rank[b] \in Int
  BY <1>1, TopologyType
<1>3. \A x \in ASes : x \notin SendsTo(a, Best(a)) =>
          incoming_announcements'[x] = IF x = a THEN <<>> ELSE incoming_announcements[x]
  BY <1>1, VisitQueues, VisitSlots
<1>4. CASE sweep = "up"
  <2>1. ASSUME NEW b \in pending PROVE input.topo.rank[a] <= input.topo.rank[b]
    <3>1. b # a => \/ input.topo.rank[a] = input.topo.rank[b]
                   \/ input.topo.rank[a] < input.topo.rank[b]
      BY <1>4 DEF Visit, Current
    <3>2. QED
      BY <1>1, <1>2, <3>1
  <2>2. ASSUME NEW b \in ASes \ pending' PROVE b \notin SendsTo(a, Best(a))
    <3>1. b \in SendsTo(a, Best(a)) => b \in input.topo.providers[a]
      BY <1>4 DEF SendsTo
    <3>2. b \in input.topo.providers[a] => input.topo.rank[a] < input.topo.rank[b]
      BY <1>1, ProvidersAbove
    <3>3. b = a \/ input.topo.rank[b] <= input.topo.rank[a]
      BY <1>1, <1>4, <2>2 DEF Heard, UpSwept
    <3>4. QED
      BY <1>2, <3>1, <3>2, <3>3
  <2>3. \A b \in ASes \ pending' : incoming_announcements'[b] = <<>>
    BY <1>1, <1>3, <1>4, <2>2 DEF Heard, UpSwept
  <2>4. \A b \in ASes \ pending', c \in pending' : input.topo.rank[b] <= input.topo.rank[c]
    BY <1>1, <1>4, <2>1 DEF Heard, UpSwept
  <2>5. \A b \in pending' : all_anns'[b] # NoAnn => Seeded(b)'
    BY <1>1, <1>4, VisitSlots DEF Heard, UpSwept, Seeded
  <2>6. QED
    BY <1>1, <1>4, <2>3, <2>4, <2>5 DEF UpSwept, DownSwept
<1>5. CASE sweep \in {"peers", "down"}
  <2>1. ASSUME NEW x \in ASes, NEW ann \in Queued(x)'
        PROVE  ann.relationship # AS_REL_CUSTOMER
    <3>1. Queued(x)' = (IF x = a THEN {} ELSE Queued(x))
              \union (IF x \in SendsTo(a, Best(a)) THEN {Export(Best(a), SentAs, a)} ELSE {})
      BY <1>1, VisitQueues, VisitSlots
    <3>2. CASE ann \in Queued(x)
      BY <1>5, <3>2 DEF Heard, UpSwept
    <3>3. CASE Told(a, x, ann)
      BY <1>5, <3>3, ToldRight DEF SentAs, AS_REL_CUSTOMER, AS_REL_PEER, AS_REL_PROVIDER
    <3>4. QED
      BY <3>1, <3>2, <3>3 DEF Told
  <2>2. UpSwept'
    BY <1>1, <1>5, <2>1 DEF UpSwept
  <2>3. CASE sweep = "peers"
    BY <1>1, <2>2, <2>3 DEF DownSwept
  <2>4. CASE sweep = "down"
    <3>1. ASSUME NEW b \in pending PROVE input.topo.rank[b] <= input.topo.rank[a]
      <4>1. b # a => \/ input.topo.rank[a] = input.topo.rank[b]
                     \/ input.topo.rank[a] > input.topo.rank[b]
        BY <2>4 DEF Visit, Current
      <4>2. QED
        BY <1>1, <1>2, <4>1
    <3>2. ASSUME NEW b \in ASes \ pending' PROVE b \notin SendsTo(a, Best(a))
      <4>1. b \in SendsTo(a, Best(a)) => b \in input.topo.customers[a]
        BY <2>4 DEF SendsTo
      <4>2. b \in input.topo.customers[a] => input.topo.rank[b] < input.topo.rank[a]
        BY <1>1, ProvidersAbove
      <4>3. b = a \/ input.topo.rank[a] <= input.topo.rank[b]
        BY <1>1, <2>4, <3>2 DEF Heard, DownSwept
      <4>4. QED
        BY <1>2, <4>1, <4>2, <4>3
    <3>3. \A b \in ASes \ pending' : incoming_announcements'[b] = <<>>
      BY <1>1, <1>3, <2>4, <3>2 DEF Heard, DownSwept
    <3>4. \A b \in ASes \ pending', c \in pending' : input.topo.rank[c] <= input.topo.rank[b]
      BY <1>1, <2>4, <3>1 DEF Heard, DownSwept
    <3>5. DownSwept'
      BY <1>1, <2>4, <3>3, <3>4 DEF DownSwept
    <3>6. QED
      BY <2>2, <3>5
  <2>5. QED
    BY <1>5, <2>2, <2>3, <2>4
<1>6. QED
  BY <1>4, <1>5, VisitSlots

-----------------------------------------------------------------------------
(***************************************************************************)
(* The steps between the sweeps.                                           *)
(***************************************************************************)
\* The sweep that begins when one is over.
LEMMA SweepSteps ==
    ASSUME Phases, [Next]_vars
    PROVE  \/ \E row \in Rows : give_ann_to_as_path(row)
           \/ \E a \in ASes : Visit(a)
           \/ clear_announcements
           \/ UNCHANGED vars
           \/ /\ UNCHANGED <<input, attackers, rows, all_anns, incoming_announcements>>
              /\ pending = {}
              /\ \/ sweep = "seed" /\ sweep' = "up" /\ pending' = ASes
                 \/ sweep = "up" /\ sweep' = "peers" /\ pending' = ASes
                 \/ sweep = "peers" /\ sweep' = "down" /\ pending' = ASes
                 \/ sweep = "down" /\ sweep' = "done" /\ pending' = {}
BY DEF Next, propagate_up, propagate_down, EndBlock, StartSweep

\* Nothing is heard while a block is seeded.
LEMMA NothingHeard ==
    ASSUME Phases, sweep = "seed", NEW x \in ASes
    PROVE  FromNeighbours(x) = {} /\ Queued(x) = {}
BY DEF Phases, FromNeighbours, Queued, Learned

\* Seeding leaves nothing to say about what is heard.
LEMMA SeedingHeard ==
    ASSUME Phases, sweep = "seed"
    PROVE  HeardFromNeighbours /\ LearnedAccepted /\ UpSwept /\ DownSwept
<1>1. \A x \in ASes : FromNeighbours(x) = {} /\ ~ Learned(x)
  BY NothingHeard DEF Phases, Learned
<1>2. QED
  BY <1>1 DEF HeardFromNeighbours, LearnedAccepted, UpSwept, DownSwept

\* The invariant the outcome rests on.
LEMMA HeardStep ==
    ASSUME Premises, Sound, Heard, [Next]_vars
    PROVE  Heard'
<1>1. TypeOK' /\ Phases'
  BY SoundStep DEF Sound
<1>2. CASE sweep' = "seed"
  <2>1. (HeardFromNeighbours /\ LearnedAccepted /\ UpSwept /\ DownSwept)'
    <3>1. (Phases /\ sweep = "seed" => HeardFromNeighbours /\ LearnedAccepted /\ UpSwept /\ DownSwept)'
      BY SeedingHeard, PTL
    <3>2. QED
      BY <1>1, <1>2, <3>1
  <2>2. QED
    BY <1>1, <2>1 DEF Heard
<1>3. ASSUME NEW a \in ASes, Visit(a) PROVE Heard'
  BY <1>1, <1>3, VisitHeard, VisitAccepted, VisitSwept DEF Heard
<1>4. CASE UNCHANGED vars
  BY <1>4 DEF vars, Heard, TypeOK, Phases, HeardFromNeighbours, HeardRight, FromNeighbours,
     Queued, Learned, SendsUp, HeldAbove, HeldBeside, Seeded, LearnedAccepted, Accepts, is_from_attacker, UpSwept, DownSwept
<1>5. CASE /\ UNCHANGED <<input, attackers, rows, all_anns, incoming_announcements>>
           /\ pending = {}
           /\ \/ sweep = "seed" /\ sweep' = "up" /\ pending' = ASes
              \/ sweep = "up" /\ sweep' = "peers" /\ pending' = ASes
              \/ sweep = "peers" /\ sweep' = "down" /\ pending' = ASes
              \/ sweep = "down" /\ sweep' = "done" /\ pending' = {}
  <2>1. \A x \in ASes : /\ FromNeighbours(x)' = FromNeighbours(x) /\ Queued(x)' = Queued(x)
                        /\ Learned(x)' = Learned(x) /\ SendsUp(x)' = SendsUp(x)
    BY <1>5 DEF FromNeighbours, Queued, Learned, SendsUp
  <2>2. ASSUME NEW x \in ASes, NEW ann \in FromNeighbours(x)
        PROVE  HeardRight(x, ann)'
    <3>1. HeardRight(x, ann) /\ sweep # "seed"
      BY <2>2, NothingHeard DEF Heard, HeardFromNeighbours
    <3>2. /\ SendsUp(ann.received_from_asn)' = SendsUp(ann.received_from_asn)
          /\ HeldAbove(ann.received_from_asn)' = HeldAbove(ann.received_from_asn)
          /\ HeldBeside(ann.received_from_asn)' = HeldBeside(ann.received_from_asn)
      BY <1>5 DEF SendsUp, HeldAbove, HeldBeside, Seeded
    <3>3. QED
      BY <1>5, <3>1, <3>2 DEF HeardRight, AS_REL_CUSTOMER, AS_REL_PROVIDER
  <2>3. HeardFromNeighbours'
    BY <2>1, <2>2 DEF HeardFromNeighbours
  <2>4. LearnedAccepted'
    BY <1>5, <2>1 DEF Heard, LearnedAccepted, Accepts, is_from_attacker
  <2>5. UpSwept'
    <3>1. sweep = "up" => \A x \in ASes : Queued(x) = {}
      BY <1>5 DEF Heard, UpSwept, Queued
    <3>2. sweep = "seed" => \A b \in ASes : all_anns'[b] # NoAnn => Seeded(b)'
      BY <1>5 DEF Heard, Phases, Seeded
    <3>3. QED
      BY <1>5, <2>1, <3>1, <3>2 DEF Heard, UpSwept
  <2>6. DownSwept'
    BY <1>5 DEF DownSwept
  <2>7. QED
    BY <1>1, <2>3, <2>4, <2>5, <2>6 DEF Heard
<1>6. ASSUME NEW row \in Rows, give_ann_to_as_path(row) PROVE Heard'
  BY <1>2, <1>6 DEF give_ann_to_as_path
<1>7. CASE clear_announcements
  BY <1>2, <1>7 DEF clear_announcements
<1>8. QED
  BY <1>3, <1>4, <1>5, <1>6, <1>7, SweepSteps DEF Heard

-----------------------------------------------------------------------------
(***************************************************************************)
(* What an AS has offered to a neighbour is still in the queue there, is   *)
(* refused, or is no better than what the neighbour has.                   *)
(***************************************************************************)
Considered(x, offer) ==
    \/ offer \in Queued(x)
    \/ Seeded(x)
    \/ ~ Accepts(attackers, x, offer)
    \/ all_anns[x] # NoAnn /\ Priority(offer) <= Priority(all_anns[x])

ConsideredAbove ==
    \A b \in ASes : SentInUp(b) /\ SendsUp(b) /\ ~ HeldAbove(b) =>
        \A x \in input.topo.providers[b] :
            Considered(x, Export(all_anns[b], AS_REL_CUSTOMER, b))
ConsideredBeside ==
    \A b \in ASes : SentInPeers(b) /\ SendsUp(b) /\ ~ HeldBeside(b) =>
        \A x \in input.topo.peers[b] :
            Considered(x, Export(all_anns[b], AS_REL_PEER, b))
ConsideredBelow ==
    \A b \in ASes : SentInDown(b) /\ all_anns[b] # NoAnn =>
        \A x \in input.topo.customers[b] :
            Considered(x, Export(all_anns[b], AS_REL_PROVIDER, b))

OffersConsidered == ConsideredAbove /\ ConsideredBeside /\ ConsideredBelow

\* An offer is an announcement.
LEMMA OfferType ==
    ASSUME TypeOK, NEW b \in ASes, all_anns[b] # NoAnn, NEW rel \in 0..3
    PROVE  Export(all_anns[b], rel, b) \in Announcement
<1>1. all_anns[b] \in Announcement /\ b \in ASNs
  BY ROVAssumption DEF TypeOK, Slot
<1>2. QED
  BY <1>1, ExportType

\* What was considered stays so.
LEMMA ConsideredStill ==
    ASSUME Heard, NEW a \in ASes, Visit(a), NEW x \in ASes, NEW offer \in Announcement,
           Considered(x, offer)
    PROVE  Considered(x, offer)'
<1>1. /\ input' = input /\ attackers' = attackers
      /\ all_anns'[x] = IF x = a THEN Best(a) ELSE all_anns[x]
      /\ Chosen(a, Best(a), Len(incoming_announcements[a]))
  BY VisitSlots
<1>2. Accepts(attackers, x, offer)' = Accepts(attackers, x, offer)
  BY <1>1 DEF Accepts, is_from_attacker
<1>3. CASE x # a
  <2>1. Queued(x) \subseteq Queued(x)'
    BY <1>3, VisitQueues, VisitSlots DEF Heard
  <2>2. QED
    BY <1>1, <1>2, <1>3, <2>1 DEF Considered, Seeded
<1>4. CASE x = a
  <2>1. CASE Seeded(a)
    BY <1>1, <1>4, <2>1 DEF Considered, Seeded, Chosen
  <2>2. CASE ~ Accepts(attackers, a, offer)
    BY <1>2, <1>4, <2>2 DEF Considered
  <2>3. CASE offer \in Queued(a) /\ ~ Seeded(a) /\ Accepts(attackers, a, offer)
    <3>1. PICK j \in 1..Len(incoming_announcements[a]) : offer = incoming_announcements[a][j]
      <4>1. incoming_announcements[a] \in Seq(Announcement)
        BY DEF Heard, TypeOK
      <4>2. QED
        BY <2>3, <4>1 DEF Queued
    <3>2. Best(a) # NoAnn /\ Priority(offer) <= Priority(Best(a))
      BY <1>1, <2>3, <3>1 DEF Chosen
    <3>3. QED
      BY <1>1, <1>4, <3>2 DEF Considered
  <2>4. CASE all_anns[a] # NoAnn /\ Priority(offer) <= Priority(all_anns[a])
    <3>1. Best(a) # NoAnn /\ Priority(all_anns[a]) <= Priority(Best(a))
      BY <1>1, <2>4 DEF Chosen
    <3>2. all_anns[a] \in Announcement /\ Best(a) \in Announcement
      BY <1>1, <2>4, <3>1 DEF Heard, TypeOK, Slot, Chosen
    <3>3. Priority(offer) <= Priority(Best(a))
      <4>1. \A y \in Announcement : Priority(y) \in Int
        BY PriorityOrder
      <4>2. QED
        BY <2>4, <3>1, <3>2, <4>1
    <3>4. QED
      BY <1>1, <1>4, <3>1, <3>3 DEF Considered
  <2>5. QED
    BY <1>4, <2>1, <2>2, <2>3, <2>4 DEF Considered
<1>5. QED
  BY <1>3, <1>4

\* What an AS sends on its turn is queued.
LEMMA SentIsQueued ==
    ASSUME Heard, NEW a \in ASes, Visit(a), NEW x \in ASes, x \in SendsTo(a, Best(a))
    PROVE  Considered(x, Export(all_anns[a], SentAs, a))'
<1>1. all_anns'[a] = Best(a) /\ SentAs' = SentAs
  BY VisitSlots DEF SentAs
<1>2. Export(Best(a), SentAs, a) \in Queued(x)'
  BY VisitQueues, VisitSlots DEF Heard
<1>3. Export(all_anns[a], SentAs, a)' = Export(Best(a), SentAs, a)
  BY <1>1 DEF Export
<1>4. QED
  BY <1>2, <1>3 DEF Considered

\* An AS whose turn it is sends to all its neighbours on that side, unless it is
\* multihomed and holds back what it has.
LEMMA TurnSends ==
    ASSUME Premises, Heard, NEW a \in ASes, Visit(a)
    PROVE  /\ sweep = "up" /\ SendsUp(a)' /\ ~ HeldAbove(a)' =>
                  SendsTo(a, Best(a)) = input.topo.providers[a]
           /\ sweep = "peers" /\ SendsUp(a)' /\ ~ HeldBeside(a)' =>
                  SendsTo(a, Best(a)) = input.topo.peers[a]
           /\ sweep = "down" /\ all_anns'[a] # NoAnn =>
                  SendsTo(a, Best(a)) = input.topo.customers[a]
<1>1. all_anns'[a] = Best(a) /\ Best(a) \in Slot
  BY VisitSlots
<1>2. SendsUp(a)' => Best(a) # NoAnn /\ ~ (Best(a).relationship < AS_REL_CUSTOMER)
  <2>1. SUFFICES ASSUME SendsUp(a)'
                 PROVE  Best(a) # NoAnn /\ ~ (Best(a).relationship < AS_REL_CUSTOMER)
    OBVIOUS
  <2>2. Best(a) # NoAnn /\ Best(a).relationship >= AS_REL_CUSTOMER
    BY <1>1, <2>1 DEF SendsUp
  <2>3. Best(a) \in Announcement
    BY <1>1, <2>2 DEF Slot
  <2>4. Best(a).relationship \in 0..3
    BY <2>3, FieldTypes
  <2>5. QED
    BY <2>2, <2>4 DEF AS_REL_CUSTOMER
<1>3. /\ sweep = "up" /\ ~ HeldAbove(a)' => ~ HeldBack(a, Best(a))
      /\ sweep = "peers" /\ ~ HeldBeside(a)' => ~ HeldBack(a, Best(a))
  BY HeldByTurn
<1>4. QED
  BY <1>1, <1>2, <1>3 DEF SendsTo

\* The three parts at once, for a turn: who made an offer keeps the route it
\* offered, and who has its turn has its offers queued.
LEMMA ConsideredVisit ==
    ASSUME Premises, Heard, OffersConsidered, NEW a \in ASes, Visit(a)
    PROVE  OffersConsidered'
<1>1. /\ sweep' = sweep /\ input' = input /\ pending' = pending \ {a} /\ a \in pending
      /\ sweep \in {"up", "peers", "down"} /\ TypeOK
  BY VisitSlots DEF Heard
<1>2. \A b \in ASes :
          /\ SentInUp(b)' => SentInUp(b) \/ (sweep = "up" /\ b = a)
          /\ SentInPeers(b)' => SentInPeers(b) \/ (sweep = "peers" /\ b = a)
          /\ SentInDown(b)' => SentInDown(b) \/ (sweep = "down" /\ b = a)
          /\ SentInPeers(b) => SentInUp(b)
          /\ SentInDown(b) => b # a
  BY <1>1 DEF SentInUp, SentInPeers, SentInDown
<1>3. ASSUME NEW b \in ASes, SentInUp(b), SendsUp(b)'
      PROVE  SendsUp(b) /\ all_anns'[b] = all_anns[b]
  BY <1>3, TurnKeeps
<1>4. {AS_REL_CUSTOMER, AS_REL_PEER, AS_REL_PROVIDER} \subseteq 0..3
  BY DEF AS_REL_CUSTOMER, AS_REL_PEER, AS_REL_PROVIDER
<1>5. ASSUME NEW b \in ASes, all_anns[b] # NoAnn, all_anns'[b] = all_anns[b], NEW x \in ASes,
             NEW rel \in 0..3, Considered(x, Export(all_anns[b], rel, b))
      PROVE  Considered(x, Export(all_anns[b], rel, b))'
  <2> DEFINE offer == Export(all_anns[b], rel, b)
  <2>1. offer \in Announcement
    BY <1>1, <1>5, OfferType
  <2>2. PICK o \in Announcement : o = offer
    BY <2>1
  <2>3. Considered(x, o)'
    BY <1>5, <2>2, ConsideredStill
  <2>4. o = offer'
    BY <1>5, <2>2 DEF Export
  <2>5. QED
    BY <2>3, <2>4 DEF Considered
<1>6. \A b \in ASes : /\ input.topo.providers[b] \subseteq ASes
                      /\ input.topo.peers[b] \subseteq ASes
                      /\ input.topo.customers[b] \subseteq ASes
  BY <1>1, TopologyType
<1>7. ConsideredAbove'
  <2> SUFFICES ASSUME NEW b \in ASes, SentInUp(b)', SendsUp(b)', ~ HeldAbove(b)',
                      NEW x \in input.topo.providers[b]
               PROVE  Considered(x, Export(all_anns[b], AS_REL_CUSTOMER, b))'
    BY <1>1 DEF ConsideredAbove
  <2>1. x \in ASes
    BY <1>6
  <2>2. CASE sweep = "up" /\ b = a
    <3>1. x \in SendsTo(a, Best(a)) /\ SentAs = AS_REL_CUSTOMER /\ SentAs' = SentAs
      BY <1>1, <2>2, TurnSends DEF SentAs
    <3>2. QED
      BY <2>1, <2>2, <3>1, SentIsQueued
  <2>3. CASE SentInUp(b)
    <3>1. SendsUp(b) /\ all_anns'[b] = all_anns[b] /\ ~ HeldAbove(b)
      BY <1>3, <2>3, HeldStill
    <3>2. Considered(x, Export(all_anns[b], AS_REL_CUSTOMER, b))
      BY <2>3, <3>1 DEF OffersConsidered, ConsideredAbove
    <3>3. QED
      BY <1>4, <1>5, <2>1, <3>1, <3>2 DEF SendsUp
  <2>4. QED
    BY <1>2, <2>2, <2>3
<1>8. ConsideredBeside'
  <2> SUFFICES ASSUME NEW b \in ASes, SentInPeers(b)', SendsUp(b)', ~ HeldBeside(b)',
                      NEW x \in input.topo.peers[b]
               PROVE  Considered(x, Export(all_anns[b], AS_REL_PEER, b))'
    BY <1>1 DEF ConsideredBeside
  <2>1. x \in ASes
    BY <1>6
  <2>2. CASE sweep = "peers" /\ b = a
    <3>1. x \in SendsTo(a, Best(a)) /\ SentAs = AS_REL_PEER /\ SentAs' = SentAs
      BY <1>1, <2>2, TurnSends DEF SentAs
    <3>2. QED
      BY <2>1, <2>2, <3>1, SentIsQueued
  <2>3. CASE SentInPeers(b)
    <3>1. SendsUp(b) /\ all_anns'[b] = all_anns[b] /\ ~ HeldBeside(b)
      BY <1>2, <1>3, <2>3, HeldStill
    <3>2. Considered(x, Export(all_anns[b], AS_REL_PEER, b))
      BY <2>3, <3>1 DEF OffersConsidered, ConsideredBeside
    <3>3. QED
      BY <1>4, <1>5, <2>1, <3>1, <3>2 DEF SendsUp
  <2>4. QED
    BY <1>2, <2>2, <2>3
<1>9. ConsideredBelow'
  <2> SUFFICES ASSUME NEW b \in ASes, SentInDown(b)', all_anns'[b] # NoAnn,
                      NEW x \in input.topo.customers[b]
               PROVE  Considered(x, Export(all_anns[b], AS_REL_PROVIDER, b))'
    BY <1>1 DEF ConsideredBelow
  <2>1. x \in ASes
    BY <1>6
  <2>2. CASE sweep = "down" /\ b = a
    <3>1. x \in SendsTo(a, Best(a)) /\ SentAs = AS_REL_PROVIDER /\ SentAs' = SentAs
      BY <1>1, <2>2, TurnSends DEF SentAs
    <3>2. QED
      BY <2>1, <2>2, <3>1, SentIsQueued
  <2>3. CASE SentInDown(b)
    <3>1. all_anns'[b] = all_anns[b]
      BY <1>2, <2>3, VisitSlots
    <3>2. Considered(x, Export(all_anns[b], AS_REL_PROVIDER, b))
      BY <2>3, <3>1 DEF OffersConsidered, ConsideredBelow
    <3>3. QED
      BY <1>4, <1>5, <2>1, <3>1, <3>2
  <2>4. QED
    BY <1>2, <2>2, <2>3
<1>10. QED
  BY <1>7, <1>8, <1>9 DEF OffersConsidered

\* Between the sweeps no offer is made and none forgotten.
LEMMA OffersConsideredStep ==
    ASSUME Premises, Heard, OffersConsidered, [Next]_vars
    PROVE  OffersConsidered'
<1>1. CASE sweep' \in {"seed", "done"}
  BY <1>1 DEF OffersConsidered, ConsideredAbove, ConsideredBeside, ConsideredBelow,
              SentInUp, SentInPeers, SentInDown
<1>2. ASSUME NEW a \in ASes, Visit(a) PROVE OffersConsidered'
  BY <1>2, ConsideredVisit
<1>3. CASE /\ UNCHANGED <<input, attackers, rows, all_anns, incoming_announcements>>
           /\ \/ UNCHANGED <<sweep, pending>>
              \/ /\ pending = {}
                 /\ \/ sweep = "seed" /\ sweep' = "up" /\ pending' = ASes
                    \/ sweep = "up" /\ sweep' = "peers" /\ pending' = ASes
                    \/ sweep = "peers" /\ sweep' = "down" /\ pending' = ASes
  <2>1. \A x, offer : Considered(x, offer)' = Considered(x, offer)
    BY <1>3 DEF Considered, Queued, Seeded, Accepts, is_from_attacker
  <2>2. \A b \in ASes : /\ SendsUp(b)' = SendsUp(b)
                        /\ HeldAbove(b)' = HeldAbove(b) /\ HeldBeside(b)' = HeldBeside(b)
    BY <1>3 DEF SendsUp, HeldAbove, HeldBeside, Seeded
  <2>3. \A b \in ASes : /\ SentInUp(b)' => SentInUp(b)
                        /\ SentInPeers(b)' => SentInPeers(b)
                        /\ SentInDown(b)' => SentInDown(b)
    BY <1>3 DEF SentInUp, SentInPeers, SentInDown
  <2>4. QED
    BY <1>3, <2>1, <2>2, <2>3
       DEF OffersConsidered, ConsideredAbove, ConsideredBeside, ConsideredBelow
<1>4. CASE UNCHANGED vars
  BY <1>3, <1>4 DEF vars
<1>5. ASSUME NEW row \in Rows, give_ann_to_as_path(row) PROVE OffersConsidered'
  BY <1>1, <1>5 DEF give_ann_to_as_path
<1>6. CASE clear_announcements
  BY <1>1, <1>6 DEF clear_announcements
<1>7. QED
  BY <1>1, <1>2, <1>3, <1>4, <1>5, <1>6, SweepSteps DEF Heard

-----------------------------------------------------------------------------
(***************************************************************************)
(* The routes of the last sweep are stable.                                *)
(***************************************************************************)
\* The operators on announcements are the same in both modules.
LEMMA SameOperators ==
    /\ GR!AS_REL_PROVIDER = AS_REL_PROVIDER /\ GR!AS_REL_PEER = AS_REL_PEER
    /\ GR!AS_REL_CUSTOMER = AS_REL_CUSTOMER
    /\ \A ann : GR!Priority(ann) = Priority(ann)
    /\ \A ann, rel, b : GR!Export(ann, rel, b) = Export(ann, rel, b)
    /\ \A routes, senders :
          /\ GR!ForCustomers(routes, senders) = {b \in senders : routes[b] # NoAnn}
          /\ GR!ForAll(routes, senders) =
                {b \in senders : routes[b] # NoAnn
                                 /\ routes[b].relationship >= AS_REL_CUSTOMER}
    /\ \A b : /\ GR!HeldFromProviders(all_anns, b) = HeldAbove(b)
              /\ GR!HeldFromPeers(b) = HeldBeside(b)
BY DEF GR!AS_REL_PROVIDER, GR!AS_REL_PEER, GR!AS_REL_CUSTOMER, AS_REL_PROVIDER, AS_REL_PEER,
       AS_REL_CUSTOMER, GR!Priority, Priority, GR!Export, Export, GR!ToUInt8, ToUInt8,
       GR!ForCustomers, GR!ForAll, GR!HeldFromProviders, GR!HeldFromPeers, GR!Multihomed,
       GR!IsSeed, Seeded, HeldAbove, HeldBeside

\* The origins an AS takes no announcement of.
Refused == [a \in ASes |-> IF a \in input.adopters \ attackers THEN attackers ELSE {}]

\* An adopter that is no attacker refuses what comes from one.
LEMMA RefusesAttackers ==
    ASSUME NEW a \in ASes, NEW ann
    PROVE  Accepts(attackers, a, ann) <=> ann.origin \notin Refused[a]
BY DEF Accepts, is_from_attacker, Refused

\* b offers something to a, which sees b as rel.
Offers(b, a, rel) ==
    \/ rel = AS_REL_CUSTOMER /\ b \in input.topo.customers[a] /\ SendsUp(b) /\ ~ HeldAbove(b)
    \/ rel = AS_REL_PEER     /\ b \in input.topo.peers[a]     /\ SendsUp(b) /\ ~ HeldBeside(b)
    \/ rel = AS_REL_PROVIDER /\ b \in input.topo.providers[a] /\ all_anns[b] # NoAnn

\* The offers of GaoRexford, one by one.
LEMMA OffersOf ==
    ASSUME NEW a \in ASes, NEW offer
    PROVE  offer \in GR!Offers(all_anns, a)
               <=> /\ \E b, rel : Offers(b, a, rel) /\ offer = Export(all_anns[b], rel, b)
                   /\ Accepts(attackers, a, offer)
<1> DEFINE all ==
          {Export(all_anns[b], AS_REL_CUSTOMER, b)
              : b \in {c \in input.topo.customers[a] : SendsUp(c) /\ ~ HeldAbove(c)}}
          \union {Export(all_anns[b], AS_REL_PEER, b)
                      : b \in {c \in input.topo.peers[a] : SendsUp(c) /\ ~ HeldBeside(c)}}
          \union {Export(all_anns[b], AS_REL_PROVIDER, b)
                      : b \in {c \in input.topo.providers[a] : all_anns[c] # NoAnn}}
<1>1. GR!Offers(all_anns, a) = {o \in all : o.origin \notin Refused[a]}
  BY SameOperators DEF GR!Offers, GR!ToProviders, GR!ToPeers, SendsUp, Refused
<1>2. offer \in all <=> \E b, rel : Offers(b, a, rel) /\ offer = Export(all_anns[b], rel, b)
  BY DEF Offers
<1> HIDE DEF all
<1>3. QED
  BY <1>1, <1>2, RefusesAttackers

\* When the last sweep is over, who learned a route uses one of the offers it
\* accepts, and every offer was considered.
LEMMA RoutesAreStable ==
    ASSUME Premises, Heard, OffersConsidered, sweep = "down", pending = {}
    PROVE  GR!Stable(all_anns)
<1>1. /\ TypeOK /\ input \in Inputs
      /\ \A x \in ASes : Queued(x) = {}
  BY DEF Heard, TypeOK, DownSwept, Queued
<1>2. ASSUME NEW a \in ASes, Learned(a) PROVE all_anns[a] \in GR!Offers(all_anns, a)
  <2> DEFINE ann == all_anns[a]
             b == ann.received_from_asn
  <2>1. HeardRight(a, ann) /\ Accepts(attackers, a, ann)
    BY <1>2 DEF Heard, HeardFromNeighbours, FromNeighbours, LearnedAccepted
  <2>2. b \in ASes /\ all_anns[b] # NoAnn /\ ann = Export(all_anns[b], ann.relationship, b)
    BY <2>1 DEF HeardRight
  <2>3. Offers(b, a, ann.relationship)
    BY <1>1, <2>1, <2>2 DEF HeardRight, Offers, Premises, MutualNeighbours
  <2>4. QED
    BY <2>1, <2>2, <2>3, OffersOf
<1>3. ASSUME NEW a \in ASes, ~ Seeded(a), NEW offer \in GR!Offers(all_anns, a)
      PROVE  all_anns[a] # NoAnn /\ Priority(offer) <= Priority(all_anns[a])
  <2>1. PICK b, rel : Offers(b, a, rel) /\ offer = Export(all_anns[b], rel, b)
    BY <1>3, OffersOf
  <2>2. Accepts(attackers, a, offer)
    BY <1>3, OffersOf
  <2>3. b \in ASes
    BY <1>1, <2>1, TopologyType DEF Offers
  <2>4. /\ rel = AS_REL_CUSTOMER => a \in input.topo.providers[b]
        /\ rel = AS_REL_PEER => a \in input.topo.peers[b]
        /\ rel = AS_REL_PROVIDER => a \in input.topo.customers[b]
    BY <1>1, <2>1, <2>3 DEF Offers, Premises, MutualNeighbours,
       AS_REL_CUSTOMER, AS_REL_PEER, AS_REL_PROVIDER
  <2>5. SentInUp(b) /\ SentInPeers(b) /\ SentInDown(b)
    BY DEF SentInUp, SentInPeers, SentInDown
  <2>6. Considered(a, offer)
    BY <2>1, <2>3, <2>4, <2>5 DEF Offers, OffersConsidered, ConsideredAbove, ConsideredBeside,
       ConsideredBelow
  <2>7. QED
    BY <1>1, <1>3, <2>2, <2>6 DEF Considered
<1>4. ASSUME NEW a \in ASes
      PROVE  \/ GR!IsSeed(all_anns[a])
             \/ GR!Offers(all_anns, a) = {} /\ all_anns[a] = NoAnn
             \/ /\ all_anns[a] \in GR!Offers(all_anns, a)
                /\ \A offer \in GR!Offers(all_anns, a) :
                      GR!Priority(offer) <= GR!Priority(all_anns[a])
  <2>1. CASE Seeded(a)
    BY <2>1 DEF Seeded, GR!IsSeed
  <2>2. CASE all_anns[a] = NoAnn
    BY <1>3, <2>2 DEF Seeded
  <2>3. CASE Learned(a)
    BY <1>2, <1>3, <2>3, SameOperators DEF Learned, Seeded
  <2>4. QED
    BY <2>1, <2>2, <2>3 DEF Seeded, Learned
<1>5. QED
  BY <1>4 DEF GR!Stable

-----------------------------------------------------------------------------
(***************************************************************************)
(* The steps of a block are steps of GaoRexford.                           *)
(***************************************************************************)
Rib == [a \in ASes |-> IF sweep = "done" \/ (all_anns[a] # NoAnn /\ all_anns[a].from_monitor)
                       THEN all_anns[a] ELSE NoAnn]

\* Before the routes settle there are seeds only.
LEMMA SeedingRefines ==
    ASSUME sweep # "done", sweep' # "done", input' = input
    PROVE  [GR!Next]_(GR!vars)
<1>1. \A a \in ASes : Rib'[a] = NoAnn \/ GR!IsSeed(Rib'[a])
  BY DEF Rib, GR!IsSeed
<1>2. GR!Seed
  BY <1>1 DEF GR!Seed, Rib
<1>3. QED
  BY <1>2 DEF GR!Next

\* The end of the last sweep settles the routes, clearing them begins the next
\* block, and every other step is one of seeding.
LEMMA RefinedStep ==
    ASSUME Premises, Heard, OffersConsidered, [Next]_vars
    PROVE  [GR!Next]_(GR!vars)
<1>1. TypeOK /\ Phases
  BY DEF Heard
<1>2. CASE /\ UNCHANGED <<input, attackers, all_anns>>
           /\ sweep = "down" /\ pending = {} /\ sweep' = "done"
  <2>1. GR!Stable(all_anns)
    BY <1>2, RoutesAreStable
  <2>2. Rib' = all_anns
    BY <1>1, <1>2 DEF Rib, TypeOK
  <2>3. \A a \in ASes : GR!IsSeed(Rib[a]) \/ GR!IsSeed(Rib'[a]) => Rib'[a] = Rib[a]
    BY <1>2, <2>2 DEF Rib, GR!IsSeed
  <2>4. Refused' = Refused
    BY <1>2 DEF Refused
  <2>5. GR!Settle
    BY <1>2, <2>1, <2>2, <2>3, <2>4 DEF GR!Settle, Rib, Refused
  <2>6. QED
    BY <2>5 DEF GR!Next
<1>3. CASE clear_announcements
  <2>1. /\ sweep = "done" /\ sweep' = "seed" /\ all_anns' = [a \in ASes |-> NoAnn]
        /\ UNCHANGED <<input, attackers>>
    BY <1>3 DEF clear_announcements
  <2>2. GR!Clear
    BY <2>1 DEF GR!Clear
  <2>3. QED
    BY <2>2 DEF GR!Next
<1>4. CASE UNCHANGED vars
  BY <1>4 DEF vars, GR!vars
<1>5. ASSUME NEW row \in Rows, give_ann_to_as_path(row) PROVE [GR!Next]_(GR!vars)
  BY <1>5, SeedingRefines DEF give_ann_to_as_path
<1>6. ASSUME NEW a \in ASes, Visit(a) PROVE [GR!Next]_(GR!vars)
  BY <1>6, VisitSlots, SeedingRefines
<1>7. CASE /\ input' = input
           /\ sweep # "done" /\ sweep' # "done"
  BY <1>7, SeedingRefines
<1>8. QED
  BY <1>1, <1>2, <1>3, <1>4, <1>5, <1>6, <1>7, SweepSteps

Inv == Sound /\ Heard /\ OffersConsidered

\* It holds of every reachable state.
LEMMA InvAlways ==
    ASSUME Premises
    PROVE  Spec => []Inv
<1>1. Init => Inv
  <2> SUFFICES ASSUME Init PROVE Inv
    OBVIOUS
  <2>1. Sound
    BY SoundInit
  <2>2. sweep = "seed"
    BY DEF Init
  <2>3. Heard
    BY <2>1, <2>2, SeedingHeard DEF Sound, Heard
  <2>4. OffersConsidered
    BY <2>2 DEF OffersConsidered, ConsideredAbove, ConsideredBeside, ConsideredBelow,
       SentInUp, SentInPeers, SentInDown
  <2>5. QED
    BY <2>1, <2>3, <2>4 DEF Inv
<1>2. Inv /\ [Next]_vars => Inv'
  BY SoundStep, HeardStep, OffersConsideredStep DEF Inv
<1>3. QED
  BY <1>1, <1>2, PTL DEF Spec

\* An adopter that is no attacker holds no route to a known attacker (ROVAS.cpp 16-51)
\* but what it was seeded with.
NoHijackLearned ==
    \A x \in input.adopters \ attackers :
        Learned(x) => all_anns[x].origin \notin attackers

(***************************************************************************)
(* An adopter of ROV that is no attacker itself never learns a route to an *)
(* attacker from a neighbour, at no time of any block; what it is seeded   *)
(* with is another matter, for a later row may make an attacker of the     *)
(* origin.                                                                 *)
(***************************************************************************)
THEOREM AdoptersLearnNoHijack ==
    ASSUME Premises
    PROVE  Spec => []NoHijackLearned
<1>1. Inv => input.adopters \subseteq ASes
  <2>1. Inv => input \in Input
    BY ROVAssumption DEF Inv, Heard, TypeOK
  <2>2. QED
    BY <2>1 DEF Input
<1>2. Inv => NoHijackLearned
  BY <1>1 DEF Inv, Heard, LearnedAccepted, Accepts, is_from_attacker, NoHijackLearned
<1>3. QED
  BY <1>2, InvAlways, PTL

(***************************************************************************)
(* Every block computes a stable Gao-Rexford routing from its seeds, in    *)
(* which the adopters refuse the attackers of this block and of those      *)
(* before it and multihomed ASes hold back what their mode says: for every *)
(* ranked graph with mutual neighbours, all adopters, rows, numbers of     *)
(* blocks and multihomed modes.                                            *)
(***************************************************************************)
THEOREM ROVIsGaoRexford ==
    ASSUME Premises
    PROVE  Spec => ImplementsGaoRexford
<1>1. Inv /\ [Next]_vars => [GR!Next]_(GR!vars)
  BY RefinedStep DEF Inv
<1>2. Init => GR!Init
  BY DEF Init, GR!Init
<1>3. QED
  BY <1>1, <1>2, InvAlways, PTL DEF Spec, ImplementsGaoRexford, GR!Spec

=============================================================================
