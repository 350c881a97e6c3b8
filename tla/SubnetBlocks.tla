---------------------------- MODULE SubnetBlocks -----------------------------
(***************************************************************************)
(* How the announcements table is cut into blocks (populate_blocks) and    *)
(* how the blocks are taken one after the other (extrapolate and the loop  *)
(* of extrapolate_blocks), in BlockedExtrapolator.cpp.                     *)
(*                                                                         *)
(* A subnet with fewer rows than iteration_size is a block.  Any other is  *)
(* cut in two halves, and its own rows, those of exactly this prefix, are  *)
(* a block of their own.  What a block does with its rows is the module    *)
(* Propagation; here it is enough that it was selected.                    *)
(*                                                                         *)
(* An address and a netmask are unsigned integers of Width bits, and       *)
(* everything the code does with them is done to their bits: they are the  *)
(* set of the bits that are 1, the lowest is 0.                            *)
(***************************************************************************)
EXTENDS Integers, Sequences, FiniteSets

CONSTANTS Width,             \* bits of an address: 32 or 128 in the code
          iteration_size,
          Tables,            \* the announcements tables that are tried
          StackSize          \* calls of populate_blocks the stack can hold

Netmask(len) == (Width - len)..(Width - 1)

\* The prefixes of the table: no ones behind the first zero of the netmask,
\* and no ones in the address behind it.
Prefixes == UNION {[addr : SUBSET Netmask(len), netmask : {Netmask(len)}] : len \in 0..Width}

\* A table is a finite set of rows; rows of the same prefix have numbers.
ASSUME SubnetBlocksAssumption ==
    /\ Width \in Nat \ {0}
    /\ iteration_size \in Nat \ {0}
    /\ \A t \in Tables : t \subseteq [prefix : Prefixes, number : Nat] /\ IsFiniteSet(t)
    /\ StackSize \in Nat \ {0}

VARIABLES
    table,            \* the rows; never changes
    step,             \* what perform_propagation does
    calls,            \* the calls of populate_blocks that are still to be made,
                      \* the next one last, and the frames there will be then
    prefix_vector, bloc_vector,
    position,         \* the iterator over the vector that is extrapolated
    extrapolated      \* history: how often a row was selected

populateVars == <<calls, prefix_vector, bloc_vector>>
vars == <<table, step, populateVars, position, extrapolated>>

Everything == [addr |-> {}, netmask |-> {}]

Init == /\ table \in Tables
        /\ step = "populate"
        /\ calls = <<[subnet |-> Everything, frames |-> 1]>>
        /\ prefix_vector = <<>> /\ bloc_vector = <<>>
        /\ position = 1
        /\ extrapolated = [r \in table |-> 0]

-----------------------------------------------------------------------------
\* prefix <<= subnet, as PostgreSQL has it: no shorter, and equal in all the
\* bits of the subnet's netmask.
Within(p, subnet) ==
    /\ subnet.netmask \subseteq p.netmask
    /\ p.addr \intersect subnet.netmask = subnet.addr \intersect subnet.netmask

Inside(subnet) == {r \in table : Within(r.prefix, subnet)}
Of(p)          == {r \in table : r.prefix = p}

select_subnet_count(subnet) == Cardinality(Inside(subnet))
select_prefix_count(p)      == Cardinality(Of(p))

-----------------------------------------------------------------------------
(***************************************************************************)
(* populate_blocks                                                         *)
(***************************************************************************)
ShiftRight(bits) == {i - 1 : i \in bits \ {0}}

\* A variant with a bug: the netmask 0 is no special case.
ShiftedMask(netmask) == ShiftRight(netmask) \union netmask

\* One bit longer, for both halves.
NewMask(netmask) ==
    IF netmask = {} THEN {Width - 1} ELSE ShiftRight(netmask) \union netmask

\* The bit that tells the second half.  For a host the code shifts by -1,
\* which the processor takes modulo 64 or 128: the bit is outside of the 32
\* bits that are kept, or the highest of 128.
FlippedBit(p) ==
    LET sz == Cardinality(p.netmask)
    IN  IF sz < Width THEN {Width - sz - 1}
        ELSE IF Width = 128 THEN {Width - 1} ELSE {}

FirstHalf(p)  == [addr |-> p.addr, netmask |-> NewMask(p.netmask)]
SecondHalf(p) == [addr |-> p.addr \union FlippedBit(p), netmask |-> NewMask(p.netmask)]

\* The call that comes next, and the others.
Call   == calls[Len(calls)]
Subnet == Call.subnet
Others == SubSeq(calls, 1, Len(calls) - 1)

\* The subnet calls for itself with its first half, then with the second.
CallsWithHalves ==
    Others \o << [subnet |-> SecondHalf(Subnet), frames |-> Call.frames + 1],
                 [subnet |-> FirstHalf(Subnet),  frames |-> Call.frames + 1] >>

Populating == /\ step = "populate" /\ calls # <<>>
              /\ UNCHANGED <<table, position, extrapolated>>

\* A variant with a bug: a full block is taken for a small one.
FitsExactly(p) == select_subnet_count(p) <= iteration_size

FitsBlock(p) == select_subnet_count(p) < iteration_size

PopulateBlock ==
    /\ Populating /\ FitsBlock(Subnet)
    /\ calls' = Others
    /\ bloc_vector' = IF select_subnet_count(Subnet) > 0
                      THEN Append(bloc_vector, Subnet) ELSE bloc_vector
    /\ UNCHANGED <<step, prefix_vector>>

\* A variant with a bug: the rows of the subnet itself are forgotten.
PopulateHalvesOnly ==
    /\ Populating /\ ~ FitsBlock(Subnet) /\ Call.frames < StackSize
    /\ calls' = CallsWithHalves
    /\ UNCHANGED <<step, prefix_vector, bloc_vector>>

PopulateHalves ==
    /\ Populating /\ ~ FitsBlock(Subnet) /\ Call.frames < StackSize
    /\ prefix_vector' = IF select_prefix_count(Subnet) > 0
                        THEN Append(prefix_vector, Subnet) ELSE prefix_vector
    /\ calls' = CallsWithHalves
    /\ UNCHANGED <<step, bloc_vector>>

\* The process ends on a segmentation fault.
StackOverflow ==
    /\ Populating /\ ~ FitsBlock(Subnet) /\ Call.frames = StackSize
    /\ step' = "overflow"
    /\ UNCHANGED populateVars

\* The outermost call returns.
PopulateReturn ==
    /\ step = "populate" /\ calls = <<>>
    /\ step' = "prefixes"
    /\ UNCHANGED <<table, populateVars, position, extrapolated>>

-----------------------------------------------------------------------------
(***************************************************************************)
(* extrapolate: first the prefix blocks, then the subnet blocks.           *)
(***************************************************************************)
Blocks == IF step = "prefixes" THEN prefix_vector ELSE bloc_vector

\* select_prefix_ann or select_subnet_ann.
Selected(p) == IF step = "prefixes" THEN Of(p) ELSE Inside(p)

ExtrapolateBlock ==
    /\ step \in {"prefixes", "subnets"} /\ position <= Len(Blocks)
    /\ Selected(Blocks[position]) # {}
    /\ extrapolated' = [r \in table |->
           IF r \in Selected(Blocks[position]) THEN extrapolated[r] + 1 ELSE extrapolated[r]]
    /\ position' = position + 1
    /\ UNCHANGED <<table, step, populateVars>>

\* The end of the vector, or an empty block, ends the loop.
EndBlocks ==
    /\ step \in {"prefixes", "subnets"}
    /\ position <= Len(Blocks) => Selected(Blocks[position]) = {}
    /\ step' = IF step = "prefixes" THEN "subnets" ELSE "done"
    /\ position' = 1
    /\ UNCHANGED <<table, populateVars, extrapolated>>

Next == \/ PopulateBlock \/ PopulateHalves \/ StackOverflow \/ PopulateReturn
        \/ ExtrapolateBlock \/ EndBlocks

Spec == Init /\ [][Next]_vars

\* One thread that never waits.
FairSpec == Spec /\ WF_vars(Next)

-----------------------------------------------------------------------------
(***************************************************************************)
(* Every row is seeded in exactly one block, with all the other rows of    *)
(* its prefix: the comparison of seeds in give_ann_to_as_path sees all the *)
(* rows of a prefix or it would decide between some of them only, and the  *)
(* results of a prefix would be saved twice.                               *)
(***************************************************************************)
ExtrapolatedOnce ==
    /\ \A r \in table : extrapolated[r] <= 1
    /\ \A r, o \in table : r.prefix = o.prefix => extrapolated[r] = extrapolated[o]
    /\ step = "done" => \A r \in table : extrapolated[r] = 1

(***************************************************************************)
(* A subnet block has fewer rows than iteration_size, which bounds the     *)
(* memory of a block; and none is empty, which would end the loop and lose *)
(* the blocks behind it.                                                   *)
(***************************************************************************)
BlocksManageable ==
    /\ \A i \in DOMAIN bloc_vector :
          select_subnet_count(bloc_vector[i]) \in 1..(iteration_size - 1)
    /\ \A i \in DOMAIN prefix_vector : Of(prefix_vector[i]) # {}

\* A host with too many rows is cut in two halves that are the host itself.
Hosts == {p \in Prefixes : p.netmask = Netmask(Width)}
FullHost == \E p \in Hosts : ~ FitsBlock(p)

(***************************************************************************)
(* "Recursive function to break the input mrt_announcements into           *)
(* manageable blocks" (BlockedExtrapolator.h 66): as long as no host alone *)
(* has the rows of a full block, the recursion ends before the stack does, *)
(* and the blocks are extrapolated to the last.  With such a host the      *)
(* stack overflows, and not even the blocks the recursion found before it  *)
(* came to the host are extrapolated.                                      *)
(***************************************************************************)
PopulateEnds == /\ ~ FullHost ~> step = "done"
                /\ FullHost ~> step = "overflow" /\ \A r \in table : extrapolated[r] = 0

=============================================================================
