------------------------------ MODULE Conversions ------------------------------
(***************************************************************************)
(* What the program reads and prints: IPv4 and IPv6 texts to integers and  *)
(* back, the order and the containment of prefixes (Prefix.h), and the AS  *)
(* path of a row with its loop check (BaseExtrapolator.cpp).               *)
(*                                                                         *)
(* A text is the sequence of what stands between its delimiters: numbers,  *)
(* Empty or Garbage.  An address has Groups groups of Base values: 4 of    *)
(* 256 for IPv4, 8 of 65536 for IPv6.                                      *)
(***************************************************************************)
EXTENDS Integers, Bitwise, FiniteSets, Sequences, SequencesExt, FiniteSetsExt

CONSTANTS GroupBits,         \* 8 (IPv4) or 16 (IPv6) in the code
          Groups,            \* 4 (IPv4) or 8 (IPv6) in the code
          V4Texts, V6Texts,  \* texts that are read
          PathTexts,         \* [open, close, tokens]: AS paths that are read
          ComparedPrefixes   \* [addr, netmask]: prefixes that are compared

Empty   == -1                \* nothing between two delimiters
Garbage == -2                \* stoul and stoi throw

Base == 2^GroupBits
Word == Base^Groups          \* 2^32, 2^128

NoResult  == [kind |-> "none"]
Malformed == [kind |-> "exit"]       \* the error branch ends the program
Address(n) == [kind |-> "addr", addr |-> n]

VARIABLES call, result
vars == <<call, result>>

NoCall == [op |-> "none"]
Init == call = NoCall /\ result = NoResult

-----------------------------------------------------------------------------
(***************************************************************************)
(* ipv4_to_int.  stoul gives 64 bits, of which uint32_t keeps 32.          *)
(***************************************************************************)
Stoul(token) == token % Word

V4Group(t, token) ==
    IF t.error THEN t
    ELSE IF t.counter > Groups - 1 \/ token < 0 \/ Stoul(token) >= Base
    THEN [t EXCEPT !.error = TRUE]
    ELSE [t EXCEPT !.addr    = ((@ + Stoul(token)) * Base) % Word,
                   !.counter = @ + 1]

\* A variant with a bug: a text that is too short is not caught.
V4IntOfAnyLength(text) ==
    LET last == Last(text)
        t    == FoldLeft(V4Group, [addr |-> 0, counter |-> 0, error |-> FALSE], Front(text))
    IN  IF t.error \/ last < 0 \/ Stoul(last) >= Base
        THEN Malformed
        ELSE Address((t.addr + Stoul(last)) % Word)

ipv4_to_int(text) ==
    LET last == Last(text)
        t    == FoldLeft(V4Group, [addr |-> 0, counter |-> 0, error |-> FALSE], Front(text))
    IN  IF t.error \/ t.counter # Groups - 1 \/ last < 0 \/ Stoul(last) >= Base
        THEN Malformed
        ELSE Address((t.addr + Stoul(last)) % Word)

-----------------------------------------------------------------------------
(***************************************************************************)
(* ipv6_to_int.  Only too many groups are caught, the bound of the last    *)
(* group is one too high, and the last "::" is the one that counts.        *)
(***************************************************************************)
V6Group(t, token) ==
    IF t.error THEN t
    ELSE IF t.counter > Groups - 1 THEN [t EXCEPT !.error = TRUE]
    ELSE IF token = Empty THEN [t EXCEPT !.omit_zeros_pos = t.counter]
    ELSE IF token = Garbage \/ token > Base - 1 THEN [t EXCEPT !.error = TRUE]
    ELSE [t EXCEPT !.addr    = ((@ + token) * Base) % Word,
                   !.counter = @ + 1]

\* Where the omitted zeros go: the groups from omit_zeros_pos on stay in
\* place, those before it move left.  A shift by the whole width is
\* undefined: it leaves the number, or nothing of it.
\* A variant with a bug: the group after the last delimiter is forgotten.
InsertZerosOneShort(addr, counter, omit_zeros_pos) ==
    LET omit_blocks == Groups - counter
        shift       == Groups - (omit_blocks + omit_zeros_pos)
        left        == addr - (addr % Base^shift)
    IN  {((left * Base^omit_blocks) % Word) + (addr - left)}

InsertZeros(addr, counter, omit_zeros_pos) ==
    LET omit_blocks == Groups - 1 - counter
        shift       == Groups - (omit_blocks + omit_zeros_pos)
        left_halfs  == IF shift = Groups THEN {0, addr} ELSE {addr - (addr % Base^shift)}
    IN  {((left * Base^omit_blocks) % Word) + (addr - left) : left \in left_halfs}

ipv6_to_int(text) ==
    LET last == Last(text)
        t    == FoldLeft(V6Group,
                         [addr |-> 0, counter |-> 0, omit_zeros_pos |-> -1, error |-> FALSE],
                         Front(text))
        addr == IF last = Empty THEN t.addr ELSE (t.addr + last) % Word
    IN  IF t.error \/ t.counter > Groups - 1 \/ last = Garbage \/ last > Base
        THEN {Malformed}
        ELSE IF t.omit_zeros_pos = -1 THEN {Address(addr)}
        ELSE {Address(n) : n \in InsertZeros(addr, t.counter, t.omit_zeros_pos)}

-----------------------------------------------------------------------------
(***************************************************************************)
(* to_cidr: the groups from the highest down, and the ones of the netmask. *)
(***************************************************************************)
Ones(netmask) == Cardinality({i \in 0 .. GroupBits * Groups - 1 : (netmask \div 2^i) % 2 = 1})

\* A variant with a bug: the groups come lowest first.
CidrFromLowest(p) ==
    [quads |-> [k \in 1..Groups |-> (p.addr \div Base^(k - 1)) % Base],
     len   |-> Ones(p.netmask)]

to_cidr(p) ==
    [quads |-> [k \in 1..Groups |-> (p.addr \div Base^(Groups - k)) % Base],
     len   |-> Ones(p.netmask)]

(***************************************************************************)
(* The comparisons of prefixes.                                            *)
(***************************************************************************)
Less(p, q) == p.addr * Word + p.netmask < q.addr * Word + q.netmask

\* A variant with a bug: the mask of this prefix is applied, not the other's.
ContainedByOwnMask(p, q) ==
    /\ q.netmask <= p.netmask
    /\ (p.addr & p.netmask) = (q.addr & p.netmask)

contained_in_or_equal_to(p, q) ==
    /\ q.netmask <= p.netmask
    /\ (p.addr & q.netmask) = (q.addr & q.netmask)

-----------------------------------------------------------------------------
(***************************************************************************)
(* parse_path and find_loop.  When a bracket is missing, find returns end() *)
(* and erase is undefined: libstdc++ moves SIZE_MAX characters and the     *)
(* program crashes.  Garbage is logged and skipped.                        *)
(***************************************************************************)
parse_path(text) ==
    IF text.open /\ text.close
    THEN [kind |-> "path", as_path |-> SelectSeq(text.tokens, LAMBDA token : token >= 0)]
    ELSE [kind |-> "crash"]

\* A variant with a bug: an AS that prepends itself is a loop.
FindRepetition(as_path) == \E i, j \in DOMAIN as_path : i < j /\ as_path[i] = as_path[j]

find_loop(as_path) ==
    \E i, j \in DOMAIN as_path :
        i < j /\ as_path[i] = as_path[j] /\ as_path[j - 1] # as_path[j]

-----------------------------------------------------------------------------
(***************************************************************************)
(* The calls: a prefix is built from two texts and printed, two prefixes   *)
(* are compared, a path is parsed and searched.                            *)
(***************************************************************************)
Mask(len) == Word - 2^(GroupBits * Groups - len)
Masks == {Mask(len) : len \in 0 .. GroupBits * Groups}

Idle == call = NoCall
Returns(op, text, outcome) == call' = [op |-> op, text |-> text] /\ result' = outcome

ReadIPv4 == Idle /\ \E text \in V4Texts : Returns("ipv4", text, ipv4_to_int(text))
ReadIPv6 == Idle /\ \E text \in V6Texts : \E outcome \in ipv6_to_int(text) :
                       Returns("ipv6", text, outcome)
ReadPath == Idle /\ \E text \in PathTexts : Returns("path", text, parse_path(text))

\* An address that was read is printed with a netmask.
Show(mask) ==
    /\ result.kind = "addr"
    /\ result' = [kind |-> "cidr", cidr |-> to_cidr([addr |-> result.addr, netmask |-> mask]),
                  mask |-> mask]
    /\ UNCHANGED call

Compare ==
    /\ Idle
    /\ \E p, q \in ComparedPrefixes :
          /\ call' = [op |-> "compare", p |-> p, q |-> q]
          /\ result' = [kind      |-> "order",
                        less      |-> Less(p, q),
                        contained |-> contained_in_or_equal_to(p, q)]

Search ==
    /\ result.kind = "path"
    /\ result' = [kind |-> "loop", found |-> find_loop(result.as_path)]
    /\ UNCHANGED call

Return == ~ Idle /\ call' = NoCall /\ result' = NoResult

Next == \/ ReadIPv4 \/ ReadIPv6 \/ ReadPath \/ Compare \/ Search \/ Return
        \/ \E mask \in Masks : Show(mask)

Spec == Init /\ [][Next]_vars

-----------------------------------------------------------------------------
(***************************************************************************)
(* What the texts mean: the groups of an address, none if it is malformed. *)
(***************************************************************************)
InRange(groups) == \A k \in DOMAIN groups : groups[k] \in 0 .. Base - 1

IPv4Groups(text) == IF Len(text) = Groups /\ InRange(text) THEN {text} ELSE {}

\* RFC 4291: all the groups, or fewer with one "::"; next to an end of the
\* text "::" leaves two tokens empty, alone it leaves three.
IPv6Groups(text) ==
    LET n        == Len(text)
        zeros(k) == [i \in 1..k |-> 0]
        expand(left, right) ==
            IF InRange(left) /\ InRange(right) /\ Len(left) + Len(right) < Groups
            THEN {left \o zeros(Groups - Len(left) - Len(right)) \o right} ELSE {}
    IN  IF Len(text) = Groups /\ InRange(text) THEN {text}
        ELSE IF text = <<Empty, Empty, Empty>> THEN {zeros(Groups)}
        ELSE UNION {CASE k = 2 /\ text[1] = Empty -> expand(<<>>, SubSeq(text, 3, n))
                      [] k = n /\ k > 1 /\ text[k - 1] = Empty ->
                             expand(SubSeq(text, 1, n - 2), <<>>)
                      [] 1 < k /\ k < n /\ text[1] # Empty /\ text[n] # Empty ->
                             expand(SubSeq(text, 1, k - 1), SubSeq(text, k + 1, n))
                      [] OTHER -> {}
                    : k \in {i \in 1..n : text[i] = Empty}}

ValueOf(groups) == FoldLeft(LAMBDA v, g : v * Base + g, 0, groups)

(***************************************************************************)
(* An IPv4 text is taken exactly if it has the four groups, each modulo    *)
(* 2^32, and gives their value; any other ends the program                 *)
(* (Prefix.h:128-133, 148, 173, 189).                                      *)
(***************************************************************************)
IPv4Exact ==
    ~ Idle /\ call.op = "ipv4" /\ result.kind # "cidr" =>
        LET groups == IPv4Groups([k \in DOMAIN call.text |->
                          IF call.text[k] < 0 THEN call.text[k] ELSE Stoul(call.text[k])])
        IN  IF groups = {} THEN result = Malformed
            ELSE \A g \in groups : result = Address(ValueOf(g))

(***************************************************************************)
(* A well-formed IPv6 text gives its value, wherever the "::" stands and   *)
(* however many groups it omits, and a text of more than eight groups is   *)
(* not taken (Prefix.h:201-206, 223, 275-288).                             *)
(***************************************************************************)
IPv6Exact ==
    ~ Idle /\ call.op = "ipv6" /\ result.kind # "cidr" =>
        /\ \A g \in IPv6Groups(call.text) : result = Address(ValueOf(g))
        /\ Len(SelectSeq(call.text, LAMBDA token : token >= 0)) > Groups => result = Malformed

(***************************************************************************)
(* A prefix prints as the groups it was read from, zeros filled in, and    *)
(* the length of its netmask (Prefix.h:306-309).                           *)
(***************************************************************************)
CidrRoundTrips ==
    result.kind = "cidr" =>
        /\ \A g \in IF call.op = "ipv4" THEN IPv4Groups(call.text) ELSE IPv6Groups(call.text) :
              result.cidr.quads = g
        /\ result.mask = Mask(result.cidr.len)

(***************************************************************************)
(* A prefix is contained in another exactly if its addresses are among the *)
(* other's, and is then the greater one, unless they are equal or the      *)
(* other has host bits (Prefix.h:385-391, 421-425): the tables of blocks   *)
(* and the ROV++ withdrawals rely on both.                                 *)
(***************************************************************************)
Size(p) == Word - p.netmask
AddressesOf(p) == {n \in 0 .. Word - 1 : n \div Size(p) = p.addr \div Size(p)}

ContainedAndGreater ==
    ~ Idle /\ call.op = "compare" =>
        LET p == call.p
            q == call.q
        IN  /\ result.contained <=> AddressesOf(p) \subseteq AddressesOf(q)
            /\ result.contained /\ p # q /\ q.addr % Size(q) = 0 =>
                   Less(q, p) /\ ~ result.less

(***************************************************************************)
(* A path is a loop exactly if an AS comes back after another one, the     *)
(* prepending that repeats it in place set aside; the path is that of the  *)
(* text without what is no number (BaseExtrapolator.cpp:68-81).            *)
(***************************************************************************)
Unprepended(as_path) ==
    FoldLeft(LAMBDA s, asn : IF s # <<>> /\ Last(s) = asn THEN s ELSE Append(s, asn),
             <<>>, as_path)

LoopsFound ==
    result.kind = "loop" =>
        LET path == Unprepended(SelectSeq(call.text.tokens, LAMBDA token : token # Garbage))
        IN  result.found <=> Cardinality(ToSet(path)) < Len(path)
=============================================================================
