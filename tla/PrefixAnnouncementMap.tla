------------------------ MODULE PrefixAnnouncementMap -------------------------
(***************************************************************************)
(* PrefixAnnouncementMap: announcements in a vector indexed by the number  *)
(* of their prefix in the block; a slot is empty when its timestamp is -1, *)
(* and whatever else it held stays in it.                                  *)
(***************************************************************************)
EXTENDS Integers, FiniteSets

CONSTANTS Capacity,     \* max_block_prefix_id, the size of the vector
          Contents,     \* announcements without prefix and timestamp
          Tstamps,      \* timestamps of announcements
          NotWalking

BlockIds == 0..(Capacity - 1)
Empty == -1

ASSUME MapAssumption == /\ Capacity \in Nat
                        /\ Tstamps \subseteq Nat
                        /\ NotWalking \notin Nat

Slots == [tstamp : Tstamps \union {Empty}, content : Contents]

Emptied(slot) == [tstamp |-> Empty, content |-> slot.content]

VARIABLES announcements, filled_size,
          iterator,     \* the index of the iterator of a loop, or NotWalking
          visited       \* history: the indices that loop has visited

vars == <<announcements, filled_size, iterator, visited>>

\* filled(prefix).
filled(id) == announcements[id].tstamp # Empty
Filled == {id \in BlockIds : filled(id)}

\* The constructor: default announcements, timestamp -1.
Init == /\ announcements \in [BlockIds -> [tstamp : {Empty}, content : Contents]]
        /\ filled_size = 0
        /\ iterator = NotWalking
        /\ visited = {}

\* A loop over the map does not outlive a change of the map.
Changed == iterator' = NotWalking /\ visited' = {}

-----------------------------------------------------------------------------
\* insert(prefix, ann) with a prefix of another number than ann.prefix.
insert_mismatch(id, annId) ==
    /\ id # annId
    /\ UNCHANGED vars

\* insert(prefix, ann); the timestamp of ann may be -1.  insert(Iterator)
\* ends here as well, with the prefix and the announcement of the other map.
insert(id, ann) ==
    /\ filled_size' =
           IF filled(id) /\ ann.tstamp = Empty THEN filled_size - 1
           ELSE IF ~ filled(id) /\ ann.tstamp # Empty THEN filled_size + 1
           ELSE filled_size
    /\ announcements' = [announcements EXCEPT ![id] = ann]
    /\ Changed

erase(id) ==
    /\ IF filled(id)
       THEN /\ filled_size' = filled_size - 1
            /\ announcements' = [announcements EXCEPT ![id] = Emptied(@)]
       ELSE UNCHANGED <<announcements, filled_size>>
    /\ Changed

\* A variant with a bug: the slots keep their timestamps.
clear_count ==
    /\ filled_size' = 0
    /\ UNCHANGED announcements
    /\ Changed

clear ==
    /\ announcements' = [id \in BlockIds |-> Emptied(announcements[id])]
    /\ filled_size' = 0
    /\ Changed

-----------------------------------------------------------------------------
\* A variant of IsStop with a bug: the last slot is not looked at.
StopsEarly(index, stop) ==
    /\ stop \in index..Capacity
    /\ \A id \in index..(stop - 1) : ~ filled(id)
    /\ stop < Capacity - 1 => filled(stop)

\* Where begin and operator++ stop: the first filled slot from `index` on, or
\* the end.
IsStop(index, stop) ==
    /\ stop \in index..Capacity
    /\ \A id \in index..(stop - 1) : ~ filled(id)
    /\ stop < Capacity => filled(stop)

begin ==
    /\ \E stop \in 0..Capacity : IsStop(0, stop) /\ iterator' = stop
    /\ visited' = {}
    /\ UNCHANGED <<announcements, filled_size>>

\* operator++, in a loop that ends at end().
increment ==
    /\ iterator \in 0..(Capacity - 1)
    /\ \E stop \in 0..Capacity : IsStop(iterator + 1, stop) /\ iterator' = stop
    /\ visited' = visited \union {iterator}
    /\ UNCHANGED <<announcements, filled_size>>

-----------------------------------------------------------------------------
Next == \/ \E id, annId \in BlockIds : insert_mismatch(id, annId)
        \/ \E id \in BlockIds : \E ann \in Slots : insert(id, ann)
        \/ \E id \in BlockIds : erase(id)
        \/ clear
        \/ begin
        \/ increment

Spec == Init /\ [][Next]_vars

-----------------------------------------------------------------------------
TypeOK == /\ announcements \in [BlockIds -> Slots]
          /\ filled_size \in 0..Capacity
          /\ iterator \in 0..Capacity \union {NotWalking}
          /\ visited \subseteq BlockIds

(***************************************************************************)
(* size() and empty() count without looking at the slots; whatever was     *)
(* inserted over what, erased twice or cleared, they are right, and the    *)
(* unsigned counter never passes below 0.                                  *)
(***************************************************************************)
SizeIsCount == filled_size = Cardinality(Filled)

(***************************************************************************)
(* A loop from begin() to end() stands on filled slots only and visits     *)
(* each of them: save_results misses no announcement and dereferences no   *)
(* empty slot.                                                             *)
(***************************************************************************)
IterationComplete ==
    iterator # NotWalking =>
        /\ iterator < Capacity => filled(iterator)
        /\ visited = {id \in Filled : id < iterator}

\* The map is a store of announcements, the slots with a timestamp.
Store == INSTANCE AnnouncementStore WITH
             Values <- [tstamp : Tstamps, content : Contents],
             map    <- [id \in Filled |-> announcements[id]],
             size   <- filled_size,
             walked <- visited

(***************************************************************************)
(* The vector with its flags and its counter behaves as the map it stands  *)
(* for, through every sequence of calls.                                   *)
(***************************************************************************)
ImplementsStore == Store!Spec
=============================================================================
