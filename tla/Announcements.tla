---------------------------- MODULE Announcements ----------------------------
(***************************************************************************)
(* The announcement of one prefix (Announcement.h), its priority           *)
(* (Priority.h), and the decisions an AS takes when it is handed one       *)
(* (BaseAS::process_announcement).  Everything here is an operator on      *)
(* values; BaseAS and Propagation put state around it.                     *)
(*                                                                         *)
(* The prefix itself is not a field: no operation of the program relates   *)
(* the announcements of two prefixes, so every module that uses this one   *)
(* follows a single prefix.                                                *)
(***************************************************************************)
EXTENDS Integers

CONSTANTS ASNs,    \* the AS numbers that occur in the graph or in a path
          NoAnn    \* an empty slot, tstamp = -1 in the code

AS_REL_PROVIDER == 0
AS_REL_PEER     == 1
AS_REL_CUSTOMER == 2
AS_REL_ORIGIN   == 3    \* the code writes the literal 3

\* The values a uint8_t keeps: path_length is one, and so wraps.
UInt8 == 0..255
ToUInt8(n) == n % 256

PlainAnnouncement ==
    [origin            : ASNs,
     received_from_asn : ASNs,
     relationship      : 0..3,
     path_length       : UInt8,
     from_monitor      : BOOLEAN,
     tstamp            : Nat]

\* What an attacker of ezBGPsec announces is marked (EZAnnouncement.h); the
\* mark FALSE of the others is no field here.  EZExtrapolator keeps the as_path
\* of those that are marked in variables of its own.
EZAnnouncement ==
    [origin            : ASNs,
     received_from_asn : ASNs,
     relationship      : 0..3,
     path_length       : UInt8,
     from_monitor      : BOOLEAN,
     tstamp            : Nat,
     from_attacker     : {TRUE}]

Announcement == PlainAnnouncement \union EZAnnouncement

ASSUME AnnouncementsAssumption == /\ ASNs \subseteq Nat
                                  /\ NoAnn \notin Announcement

-----------------------------------------------------------------------------
\* Priority::operator uint64_t.
Priority(a) == a.relationship * (256 * 256 * 256) + (255 - a.path_length) * 256

\* BaseAS::get_random.  Multiplying by 3 keeps the parity of tiny_hash, so
\* the coin of an AS is the parity of the four bytes of its number.
GetRandom(asn) == ( asn + (asn \div 256) + (asn \div (256 * 256))
                        + (asn \div (256 * 256 * 256)) ) % 2 = 0

\* The announcement a sender hands to a neighbour that sees it as `rel`.
Export(a, rel, sender) ==
    [a EXCEPT !.relationship      = rel,
              !.path_length       = ToUInt8(a.path_length + 1),
              !.from_monitor      = FALSE,
              !.received_from_asn = sender]

-----------------------------------------------------------------------------
(***************************************************************************)
(* process_announcement, for an AS whose slot in all_anns holds best and   *)
(* whose slot in depref_anns holds depref.  The flag value decides ties:   *)
(* TRUE takes the new announcement.                                        *)
(***************************************************************************)
\* Variants with a bug, which the mutants of PROJECT.json put in the place of
\* Replaces: the path length is forgotten; a tie always goes to the newcomer.
ReplacesByRelationship(best, ann, value) ==
    \/ best = NoAnn
    \/ ann.relationship > best.relationship
    \/ ann.relationship = best.relationship /\ value

ReplacesOnTie(best, ann, value) ==
    best = NoAnn \/ Priority(ann) >= Priority(best)

Replaces(best, ann, value) ==
    \/ best = NoAnn
    \/ Priority(ann) > Priority(best)
    \/ Priority(ann) = Priority(best) /\ value

BestAfter(best, ann, value) == IF Replaces(best, ann, value) THEN ann ELSE best

\* Line 217 of BaseAS.cpp stores the best announcement, not the new one.
DeprefAfter(best, depref, ann, value) ==
    IF best = NoAnn THEN depref
    ELSE IF Replaces(best, ann, value) THEN best
    ELSE IF Priority(ann) = Priority(best) \/ depref = NoAnn THEN ann
    ELSE IF Priority(ann) > Priority(depref) THEN best ELSE depref

\* A variant with a bug: when the origin stays, the ASN is put back.
SwapInverseBack(inverse, asn, best, ann) ==
    [o \in DOMAIN inverse |->
        IF best # NoAnn /\ o = best.origin THEN inverse[o] \union {asn}
        ELSE IF o = ann.origin THEN inverse[o] \ {asn}
        ELSE inverse[o]]

\* swap_inverse_result.  The pairs of the prefix are keyed by their origin;
\* the sets hold the ASNs without a route to it.
SwapInverse(inverse, asn, best, ann) ==
    [o \in DOMAIN inverse |->
        IF o = ann.origin THEN inverse[o] \ {asn}
        ELSE IF best # NoAnn /\ o = best.origin THEN inverse[o] \union {asn}
        ELSE inverse[o]]

InverseAfter(inverse, asn, best, ann, value) ==
    IF Replaces(best, ann, value) THEN SwapInverse(inverse, asn, best, ann)
                                  ELSE inverse
=============================================================================
