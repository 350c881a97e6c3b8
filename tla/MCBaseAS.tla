------------------------------ MODULE MCBaseAS -------------------------------
(* One AS, two origins, four priorities a neighbour can give and a tie. *)
EXTENDS BaseAS

CONSTANTS MCLengths    \* path lengths that are sent

Ann(o, rel, len, monitor) ==
    [origin |-> o, received_from_asn |-> o, relationship |-> rel,
     path_length |-> len, from_monitor |-> monitor, tstamp |-> 0]

MCSeeds == {Ann(o, rel, 0, TRUE) : o \in ASNs \ Selves, rel \in {0, 3}}
MCReceived == {Ann(o, rel, len, FALSE) :
                  o \in ASNs \ Selves, rel \in {0, 2}, len \in MCLengths}
=============================================================================
