------------------------------- MODULE BaseAS --------------------------------
(***************************************************************************)
(* One AS and one prefix through the life of a block: the AS is seeded     *)
(* from the rows of the block, then receives and processes announcements   *)
(* of its neighbours, and is cleared for the next block (BaseAS.cpp).      *)
(*                                                                         *)
(* The neighbours and the rows are the environment: any announcement of    *)
(* Received may be queued and any of Seeds may be seeded, in any order.    *)
(* process_announcements works through the queue in one call; here it is   *)
(* one step per queued announcement, which changes nothing, because a      *)
(* receipt between two of them appends behind those still waiting.         *)
(***************************************************************************)
EXTENDS Announcements, Sequences

CONSTANTS Selves,             \* the ASes that are tried
          RandomTiebraking,   \* option --random
          Seeds,              \* what give_ann_to_as_path may seed here
          Received,           \* what a neighbour may send
          MaxQueue, MaxLog    \* bounds: queued, and processed in one block

ASSUME BaseASAssumption ==
    /\ Selves \subseteq ASNs
    /\ RandomTiebraking \in BOOLEAN
    /\ Seeds \subseteq {a \in Announcement : a.from_monitor}
    /\ Received \subseteq {a \in Announcement : ~ a.from_monitor}
    /\ MaxQueue \in Nat /\ MaxLog \in Nat

VARIABLES
    asn,                      \* the AS; never changes
    all_anns,                 \* the slot of the prefix in all_anns
    depref_anns,              \* and in depref_anns
    incoming_announcements,
    seeding,                  \* the block is still being seeded
    log                       \* history: what was processed since the slot
                              \* was last emptied

vars == <<asn, all_anns, depref_anns, incoming_announcements, seeding, log>>

\* The tie-break flag of process_announcement.
Value == RandomTiebraking => GetRandom(asn)

Init == /\ asn \in Selves
        /\ all_anns = NoAnn
        /\ depref_anns = NoAnn
        /\ incoming_announcements = <<>>
        /\ seeding = TRUE
        /\ log = <<>>

-----------------------------------------------------------------------------
process_announcement(ann) ==
    /\ Len(log) < MaxLog
    /\ all_anns' = BestAfter(all_anns, ann, Value)
    /\ depref_anns' = DeprefAfter(all_anns, depref_anns, ann, Value)
    /\ log' = Append(log, ann)

\* A row seeds an empty slot.
SeedEmpty(ann) ==
    /\ seeding
    /\ all_anns = NoAnn
    /\ process_announcement(ann)
    /\ UNCHANGED <<asn, incoming_announcements, seeding>>

\* delete_ann, the first half of replacing a seed; on a broken path the
\* second half never comes.
delete_ann ==
    /\ seeding
    /\ all_anns # NoAnn
    /\ all_anns' = NoAnn
    /\ log' = <<>>
    /\ UNCHANGED <<asn, depref_anns, incoming_announcements, seeding>>

receive_announcements(ann) ==
    /\ Len(incoming_announcements) < MaxQueue
    /\ incoming_announcements' = Append(incoming_announcements, ann)
    /\ seeding' = FALSE
    /\ UNCHANGED <<asn, all_anns, depref_anns, log>>

\* One turn of the loop of process_announcements.
process_announcements ==
    /\ incoming_announcements # <<>>
    /\ incoming_announcements' = Tail(incoming_announcements)
    /\ IF all_anns = NoAnn \/ ~ all_anns.from_monitor
       THEN process_announcement(Head(incoming_announcements))
       ELSE UNCHANGED <<all_anns, depref_anns, log>>
    /\ UNCHANGED <<asn, seeding>>

clear_announcements ==
    /\ all_anns' = NoAnn
    /\ depref_anns' = NoAnn
    /\ incoming_announcements' = <<>>
    /\ seeding' = TRUE
    /\ log' = <<>>
    /\ UNCHANGED asn

Next == \/ \E ann \in Seeds : SeedEmpty(ann)
        \/ delete_ann
        \/ \E ann \in Received : receive_announcements(ann)
        \/ process_announcements
        \/ clear_announcements

Spec == Init /\ [][Next]_vars

-----------------------------------------------------------------------------
\* The i-th announcement of the log beats every other: no other has a higher
\* priority, and of those that equal it, it came last when the tie-break flag
\* is TRUE and first when it is FALSE.
Wins(i) == \A j \in DOMAIN log :
    /\ Priority(log[j]) <= Priority(log[i])
    /\ Priority(log[j]) = Priority(log[i]) => IF Value THEN j <= i ELSE i <= j

(***************************************************************************)
(* Whatever the order in which announcements arrive, the AS ends with the  *)
(* winner of all it processed, not of the last pair it compared            *)
(* (process_announcement, BaseAS.cpp 113-223).                             *)
(***************************************************************************)
BestIsWinner ==
    IF log = <<>> THEN all_anns = NoAnn
    ELSE \E i \in DOMAIN log : all_anns = log[i] /\ Wins(i)

=============================================================================
