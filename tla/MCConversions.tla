---------------------------- MODULE MCConversions -----------------------------
(***************************************************************************)
(* Instances of Conversions: addresses of four groups of two bits, every   *)
(* text of up to two delimiters more than an address has, and every path   *)
(* of up to five ASes.                                                     *)
(***************************************************************************)
EXTENDS Conversions

\* One past a group, and numbers that uint32_t cuts to a group or to none.
MCV4Texts == SeqOf({Empty, Garbage, 0, 3, 4, 257, 260}, 5) \ {<<>>}

MCV6Texts == (SeqOf({Empty, 1, 2, 3}, 7) \union SeqOf({Empty, Garbage, 0, 2, 4, 5}, 5)) \ {<<>>}

MCPathTexts == [open : BOOLEAN, close : BOOLEAN, tokens : SeqOf({Garbage, 1, 2, 3}, 5)]

MCComparedPrefixes == [addr : {0, 1, 3, 64, 127, 128, 129, 255}, netmask : Masks]
=============================================================================
