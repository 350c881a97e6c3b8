--------------------------- MODULE MCSubnetBlocks ----------------------------
(***************************************************************************)
(* Announcements tables for SubnetBlocks: a few prefixes with a few rows.  *)
(***************************************************************************)
EXTENDS SubnetBlocks

CONSTANTS MCPrefixes,    \* bound: how many prefixes of the table have rows
          MCRows         \* bound: how many rows a prefix has

NumbersOfRows ==
    UNION {[ps -> 1..MCRows] : ps \in {s \in SUBSET Prefixes : Cardinality(s) <= MCPrefixes}}

AllTables ==
    {UNION {[prefix : {p}, number : 1..rows[p]] : p \in DOMAIN rows} : rows \in NumbersOfRows}
=============================================================================
