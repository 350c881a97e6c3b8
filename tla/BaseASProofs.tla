----------------------------- MODULE BaseASProofs ------------------------------
(***************************************************************************)
(* Theorems about BaseAS, for every set of announcements that may be       *)
(* seeded or received, any length of the queue and of the history, and     *)
(* either way to break ties.                                               *)
(***************************************************************************)
EXTENDS BaseAS, TLAPS

\* The type of the variables, which BestIsWinner needs to compare priorities.
Typed ==
    /\ log \in Seq(Announcement)
    /\ incoming_announcements \in Seq(Announcement)

Inv == Typed /\ BestIsWinner

-----------------------------------------------------------------------------
(***************************************************************************)
(* Lemmas.                                                                 *)
(***************************************************************************)
\* The fields every announcement has, marked or not.
LEMMA FieldTypes ==
    ASSUME NEW ann \in Announcement
    PROVE  /\ ann.origin \in ASNs /\ ann.received_from_asn \in ASNs
           /\ ann.relationship \in 0..3 /\ ann.path_length \in 0..255
           /\ ann.from_monitor \in BOOLEAN /\ ann.tstamp \in Nat
BY DEF Announcement, PlainAnnouncement, EZAnnouncement, UInt8

\* The priority of an announcement is a number.
LEMMA PriorityType ==
    ASSUME NEW ann \in Announcement
    PROVE  Priority(ann) \in Int
<1>1. ann.relationship \in Int /\ ann.path_length \in Int
  BY FieldTypes
<1>2. QED
  BY <1>1 DEF Priority

\* An AS holds an announcement exactly if it has processed one since it was
\* emptied.
LEMMA EmptyTogether ==
    ASSUME Inv
    PROVE  all_anns = NoAnn <=> log = <<>>
<1>1. CASE log = <<>>
  BY <1>1 DEF Inv, BestIsWinner
<1>2. CASE log # <<>>
  <2>1. PICK i \in DOMAIN log : all_anns = log[i]
    BY <1>2 DEF Inv, BestIsWinner
  <2>2. log[i] \in Announcement
    BY DEF Inv, Typed
  <2>3. QED
    BY <1>2, <2>1, <2>2, AnnouncementsAssumption
<1>3. QED
  BY <1>1, <1>2

\* The tie-break of an AS is its own: no step changes it.
LEMMA ValueStays ==
    ASSUME asn' = asn
    PROVE  Value' = Value
BY DEF Value

(***************************************************************************)
(* The step that decides: whoever wins the first n announcements and the   *)
(* comparison with the next one wins all n + 1.                            *)
(***************************************************************************)
LEMMA ProcessedWinner ==
    ASSUME Inv, NEW ann \in Announcement, process_announcement(ann), asn' = asn
    PROVE  log' \in Seq(Announcement) /\ BestIsWinner'
<1>0. PICK n \in Nat : n = Len(log)
  BY DEF Inv, Typed
<1>1. /\ log \in Seq(Announcement) /\ log' = Append(log, ann)
      /\ all_anns' = BestAfter(all_anns, ann, Value)
  BY DEF Inv, Typed, process_announcement
<1>2. /\ log' \in Seq(Announcement) /\ log' # <<>>
      /\ DOMAIN log' = 1..(n + 1) /\ DOMAIN log = 1..n
      /\ log'[n + 1] = ann
      /\ \A i \in 1..n : log'[i] = log[i]
  BY <1>0, <1>1
<1>3. \A i \in 1..(n + 1) : Priority(log'[i]) \in Int
  BY <1>2, PriorityType
<1>4. Value' = Value
  BY ValueStays
<1>5. CASE all_anns = NoAnn
  <2>1. log = <<>> /\ n = 0
    BY <1>0, <1>5, EmptyTogether
  <2>2. all_anns' = log'[1] /\ DOMAIN log' = {1}
    BY <1>1, <1>2, <1>5, <2>1 DEF BestAfter, Replaces
  <2>3. (Wins(1))'
    BY <1>3, <2>1, <2>2 DEF Wins
  <2>4. QED
    BY <1>2, <2>2, <2>3 DEF BestIsWinner
<1>6. CASE all_anns # NoAnn
  <2>1. PICK i \in 1..n : all_anns = log[i] /\ Wins(i)
    BY <1>2, <1>6, EmptyTogether DEF Inv, BestIsWinner
  <2>2. \A j \in 1..n : /\ Priority(log'[j]) <= Priority(log'[i])
                        /\ Priority(log'[j]) = Priority(log'[i])
                               => IF Value THEN j <= i ELSE i <= j
    BY <1>2, <2>1 DEF Wins
  <2>3. Priority(all_anns) = Priority(log'[i]) /\ Priority(ann) = Priority(log'[n + 1])
    BY <1>2, <2>1
  <2>4. CASE Replaces(all_anns, ann, Value)
    <3>1. all_anns' = log'[n + 1]
      BY <1>1, <1>2, <2>4 DEF BestAfter
    <3>2. \/ Priority(log'[n + 1]) > Priority(log'[i])
          \/ Priority(log'[n + 1]) = Priority(log'[i]) /\ Value
      BY <1>6, <2>3, <2>4 DEF Replaces
    <3>3. ASSUME NEW j \in 1..(n + 1)
          PROVE  /\ Priority(log'[j]) <= Priority(log'[n + 1])
                 /\ Priority(log'[j]) = Priority(log'[n + 1])
                        => IF Value THEN j <= n + 1 ELSE n + 1 <= j
      <4>1. CASE j = n + 1
        BY <1>3, <4>1
      <4>2. CASE j \in 1..n
        BY <1>3, <2>2, <3>2, <4>2
      <4>3. QED
        BY <4>1, <4>2
    <3>4. (Wins(n + 1))'
      BY <1>2, <1>4, <3>3 DEF Wins
    <3>5. QED
      BY <1>2, <3>1, <3>4 DEF BestIsWinner
  <2>5. CASE ~ Replaces(all_anns, ann, Value)
    <3>1. all_anns' = log'[i]
      BY <1>1, <1>2, <2>1, <2>5 DEF BestAfter
    <3>2. /\ ~ Priority(log'[n + 1]) > Priority(log'[i])
          /\ Priority(log'[n + 1]) = Priority(log'[i]) => ~ Value
      BY <1>6, <2>3, <2>5 DEF Replaces
    <3>3. ASSUME NEW j \in 1..(n + 1)
          PROVE  /\ Priority(log'[j]) <= Priority(log'[i])
                 /\ Priority(log'[j]) = Priority(log'[i])
                        => IF Value THEN j <= i ELSE i <= j
      <4>1. CASE j = n + 1
        <5>1. Priority(log'[n + 1]) \in Int /\ Priority(log'[i]) \in Int
          BY <1>3
        <5>2. Priority(log'[n + 1]) <= Priority(log'[i])
          BY <3>2, <5>1
        <5>3. i <= n + 1
          OBVIOUS
        <5>4. QED
          BY <3>2, <4>1, <5>2, <5>3
      <4>2. CASE j \in 1..n
        BY <2>2, <4>2
      <4>3. QED
        BY <4>1, <4>2
    <3>4. (Wins(i))'
      BY <1>2, <1>4, <3>3 DEF Wins
    <3>5. QED
      BY <1>2, <3>1, <3>4 DEF BestIsWinner
  <2>6. QED
    BY <2>4, <2>5
<1>7. QED
  BY <1>2, <1>5, <1>6

-----------------------------------------------------------------------------
(***************************************************************************)
(* Whatever is seeded, deleted, received and processed, and in whichever   *)
(* order, the AS holds the winner of all it processed: the highest         *)
(* priority, and among equals the last or the first, as its hash decides.  *)
(***************************************************************************)
THEOREM HoldsTheWinner == Spec => []BestIsWinner
<1>1. Init => Inv
  BY DEF Init, Inv, Typed, BestIsWinner
<1>2. Inv /\ [Next]_vars => Inv'
  <2> SUFFICES ASSUME Inv, [Next]_vars PROVE Inv'
    OBVIOUS
  <2>1. ASSUME NEW ann \in Seeds, SeedEmpty(ann) PROVE Inv'
    <3>1. ann \in Announcement
      BY BaseASAssumption
    <3>2. log' \in Seq(Announcement) /\ BestIsWinner'
      BY <2>1, <3>1, ProcessedWinner DEF SeedEmpty
    <3>3. QED
      BY <2>1, <3>2 DEF SeedEmpty, Inv, Typed
  <2>2. CASE delete_ann
    BY <2>2 DEF delete_ann, Inv, Typed, BestIsWinner
  <2>3. ASSUME NEW ann \in Received, receive_announcements(ann) PROVE Inv'
    <3>1. ann \in Announcement
      BY BaseASAssumption
    <3>2. Typed'
      BY <2>3, <3>1 DEF receive_announcements, Inv, Typed
    <3>3. BestIsWinner'
      BY <2>3 DEF receive_announcements, Inv, BestIsWinner, Wins, Value
    <3>4. QED
      BY <3>2, <3>3 DEF Inv
  <2>4. CASE process_announcements
    <3>1. /\ Head(incoming_announcements) \in Announcement
          /\ incoming_announcements' \in Seq(Announcement)
          /\ asn' = asn
      BY <2>4 DEF process_announcements, Inv, Typed
    <3>2. CASE all_anns = NoAnn \/ ~ all_anns.from_monitor
      <4>1. process_announcement(Head(incoming_announcements))
        BY <2>4, <3>2 DEF process_announcements
      <4>2. QED
        BY <3>1, <4>1, ProcessedWinner DEF Inv, Typed
    <3>3. CASE ~ (all_anns = NoAnn \/ ~ all_anns.from_monitor)
      <4>1. UNCHANGED <<all_anns, depref_anns, log>>
        BY <2>4, <3>3 DEF process_announcements
      <4>2. QED
        BY <3>1, <4>1 DEF Inv, Typed, BestIsWinner, Wins, Value
    <3>4. QED
      BY <3>2, <3>3
  <2>5. CASE clear_announcements
    BY <2>5 DEF clear_announcements, Inv, Typed, BestIsWinner
  <2>6. CASE UNCHANGED vars
    BY <2>6 DEF vars, Inv, Typed, BestIsWinner, Wins, Value
  <2>7. QED
    BY <2>1, <2>2, <2>3, <2>4, <2>5, <2>6 DEF Next
<1>3. Inv => BestIsWinner
  BY DEF Inv
<1>4. QED
  BY <1>1, <1>2, <1>3, PTL DEF Spec
=============================================================================
