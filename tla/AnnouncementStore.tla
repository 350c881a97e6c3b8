-------------------------- MODULE AnnouncementStore ---------------------------
(***************************************************************************)
(* What the users of a PrefixAnnouncementMap rely on: a map from some of   *)
(* the prefixes of a block to announcements, that knows its size, and that *)
(* can be walked through from the lowest prefix to the highest.            *)
(***************************************************************************)
EXTENDS Integers, FiniteSets

CONSTANTS BlockIds,       \* what Prefix::block_id may be
          Values          \* announcements

VARIABLES map,            \* prefix -> announcement, for the prefixes that have one
          size,
          walked          \* prefixes the current walk has passed

vars == <<map, size, walked>>

Put(id, ann) ==
    /\ map' = [i \in DOMAIN map \union {id} |-> IF i = id THEN ann ELSE map[i]]
    /\ walked' = {}

Remove(ids) ==
    /\ map' = [i \in DOMAIN map \ ids |-> map[i]]
    /\ walked' = {}

\* The walk passes the lowest prefix that is ahead of it.
Walk ==
    /\ \E id \in DOMAIN map \ walked :
          /\ \A other \in DOMAIN map \ walked : id <= other
          /\ walked' = walked \union {id}
    /\ UNCHANGED map

StartWalk == walked' = {} /\ UNCHANGED map

Init == /\ map \in [{} -> Values]
        /\ size = 0
        /\ walked = {}

Next == /\ \/ \E id \in BlockIds : \E ann \in Values : Put(id, ann)
           \/ \E ids \in SUBSET BlockIds : Remove(ids)
           \/ Walk \/ StartWalk
        /\ size' = Cardinality(DOMAIN map')

Spec == Init /\ [][Next]_vars
=============================================================================
