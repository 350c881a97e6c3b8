# A verification of BGPExtrapolator in TLA+

BGPExtrapolator seeds the announcements that route collectors saw at the ASes on
their paths and propagates them over a graph of AS relationships, to estimate
which route every other AS has. Three more extrapolators simulate attacks and
defences on the same graph. This directory models what decides their results in
TLA+, checks the models with TLC on small instances and proves theorems with
TLAPS. Line numbers are those of the sources this directory is kept beside.

## 1. Inventory

| Component | State | Operations | Interacts with | What makes it correct |
|---|---|---|---|---|
| `Priority`, `Announcement` | relationship, 8-bit path length, timestamp, received-from, from-monitor | compare as a 64-bit number, copy for export | everything | longer paths and worse relationships compare lower |
| `PrefixAnnouncementMap` | a vector of slots, a counter | insert, erase, clear, find, size, begin, ++ | owned by each AS, twice | behaves as a map; the counter is the number of filled slots |
| `BaseAS` | `all_anns`, `depref_anns`, `incoming_announcements`, three neighbour sets | receive, process, delete, clear | called by the extrapolator | holds the best of what it processed; a seed is never replaced in a sweep |
| `BaseGraph` | `ases`, neighbours, `components`, `component_translation`, `ases_by_rank`, `stubs_to_parents`, `non_stubs`, `inverse_results` | read the tables, remove stubs, Tarjan, combine components, decide ranks, clear | built once (by `EZExtrapolator`: once per round), read by the sweeps | components are the cycles of providers; no AS is lost; no neighbour dangles; a provider outranks its customers |
| Block partition (`populate_blocks`, `extrapolate`, `extrapolate_by_block_id`) | two vectors of prefixes, the call stack | count, split, select | `SQLQuerier` | every row in exactly one block; blocks are small; the recursion ends |
| Seeding (`give_ann_to_as_path`) | the row and the hop | seed, replace, delete, skip | `BaseAS`, inverse results | the newest-first rules; inverse results follow |
| Propagation (`propagate_up`, `propagate_down`, `send_all_announcements`) | the position in the ranks | process then send, per AS and sweep | `BaseAS` queues | a stable Gao-Rexford routing; no valleys; nothing left in a queue |
| Saving (`save_results`, `save_results_thread`) | threads, two semaphores, CSV files, tables | spawn, stream, post, copy, remove | reads all announcements while main waits | rows are of their block, once each; the run ends |
| `stream_as_path` | none | trace a path back | reads all announcements | it reaches the origin: no loop, and every announcement it follows exists |
| `Prefix`, `parse_path`, `find_loop` | numbers | text to number and back, order, containment, loop check | rows of the tables | well-formed text is read exactly; a loop is an AS that comes back |
| `EZExtrapolator` | attackers and victims, counters, edges to remove | seed attacks, count what victims use, remove edges, rebuild the graph | overrides `give_ann_to_as_path` and `save_results` | a victim is counted as what became of it; the edge is one the attack came through; rounds end (they do not) |
| `ROVExtrapolator`, `ROVAS` | attackers, adopters | seed two tables, mark attackers, filter | inherits the sweeps | adopters hold no route of a known attacker; the rest is Gao-Rexford as before |
| `ROVppExtrapolator`, `ROVppAS` | `ribs_in`, `loc_rib`, withdrawals, blackholes, preventive announcements, policies | cycles of sweeps; process by policy | several prefixes of one address | routing is stable; the cycles converge; no adopter uses a hijack; holes go down only |
| `SQLQuerier` | a connection | build queries | PostgreSQL | failures are noticed |
| `main`, `Logger`, `RanGraph`, tests | options | | | |

The program is sequential but for saving: `extrapolate_blocks` starts a thread
that saves a block, with a worker thread for each share, and computes the next
block meanwhile. Its other difficulties are long sequences: rows of one prefix in
any order, the order in which a sweep visits ASes, components combined one after
the other, withdrawals and alternatives that chase each other over several
cycles, a recursion over prefixes. `hazards` in `PROJECT.json` lists each
difficulty with its line and the properties that would show it going wrong.

## 2. Plan

The order puts what decides the results first; all of it is done. What could
still be proved: the stable routing of `ROVppExtrapolator` where every AS has BGP.
Section 5 says what it takes.

1. `Announcements`, `BaseAS`: one AS.
2. `Propagation`, abstract `GaoRexford`, `Ranks`; `PropagationProofs`.
3. `SaveResults`: the threads; `SaveResultsProofs`.
4. `ASGraph`: building the graph.
5. `PrefixAnnouncementMap`, abstract `AnnouncementStore`; `PrefixAnnouncementMapProofs`.
6. `SubnetBlocks`: the partition.
7. `Conversions`: addresses, prefixes, paths.
8. `stream_as_path`, as an operator of `Propagation`.
9. `EZExtrapolator`, on top of `Propagation`.
10. `ROVExtrapolator`, whose abstract specification is `GaoRexford` as well.
11. `ROVppAS`, `ROVppExtrapolator`: two nested prefixes, every policy.
12. `BaseASProofs`; `PropagationRefinement` and the refinement of `GaoRexford`, in
    `PropagationProofs`.
13. `ASGraphProofs`: Tarjan and the graph. The traceback, in `PropagationProofs`.
14. `ROVRefinement`, `ROVProofs`.
15. `ROVppProofs`: who adopts a hijack, who passes it on.
16. `SubnetBlocksProofs`: the blocks partition the table.
17. The traceback, the counts and the paths of `EZExtrapolator`, in `PropagationProofs`.

Abstract specifications: `GaoRexford` (a stable routing from seeds, with origins
that are refused), implemented by `Propagation` and by `ROVExtrapolator`;
`AnnouncementStore` (a map with a size and a walk), implemented by
`PrefixAnnouncementMap`.

## 3. The modules

**Announcements** has what a route is and what one AS does with a route for one
prefix, as operators: `Priority`, `Export` (the copy with a new relationship, one
more hop modulo 256, no monitor flag), `Replaces`, `BestAfter`, `DeprefAfter`,
`SwapInverse`. Prefixes are independent in `BaseAS`, so the models built on it have
one. `GetRandom` is the hash of the AS number, of which only the last bit matters.
In a module a CONSTANT with the inputs that are tried (`Selves`, `Options`,
`Stores`, `Topologies`, `Inputs`, `Tables`) goes with a variable that `Init` takes
from it and no step changes, so that one run covers several configurations of the
program.

**BaseAS** is one AS in the hands of the extrapolator: seeds into an empty slot,
deletions while the block is seeded, received announcements, processing, clear.
`log` is a history variable; `BestIsWinner` compares the slot with all of it. `asn`,
the number of the AS, decides by its hash how it breaks ties.
`process_announcements` takes one element of the queue per step, here and in
`Propagation`: no other thread sees the queue in between.

**Propagation** is one block for one prefix. `SelectRow` is the loop over rows
(with `find_loop` and the new inverse set), `PassHop`, `SeedHop`, `BreakHop` and
`EndRow` are the turns of `give_ann_to_as_path`, `propagate_up` and
`propagate_down` start the three sweeps, `process_announcements(a)` and
`send_all_announcements(a)` are the two halves of one AS's visit. The sweep goes
by `rank`, ascending or descending, and by ASN in a level, as the sets of
`ases_by_rank` do; ASes of rank -1 are not visited. `clear_announcements` starts
another block. `stream_as_path` is the walk of the traceback with its three ends:
the origin, the loop it warns of, an AS without the prefix. A row has its origin twice in
the database, as the last AS of its path and in a column, which is the key of a new
inverse set (`BlockedExtrapolator.cpp` 375); the model reads it off the path (`Origin`), so
the table is assumed to be consistent in this. **GaoRexford** says
what the result must be: at every AS a seed, or the best offer its neighbours make
by the export rules, of what they have now and of what is not refused.
The export rules include the four multihomed modes; in the automatic one an AS without
customers asks what its providers were *seeded* with: it asks in the sweep up, when its
providers, which are ranked above it, have not had their turn, so that all they can have
is seeds.
**PropagationRefinement** maps the one to the other: the seeds while a block is
swept, all routes when it is over. **RelationGraphs** has the graphs that are tried,
by this and the other extrapolators.

**ASGraph** is `process`: `remove_stubs`; Tarjan with its call stack as data, one
provider per step; `combine_components`, one member per step; `decide_ranks`, one
AS per step. The order of the `unordered_map` is arbitrary, that of the sets
ascending. What the components and the ranks must be is said without recursion: the
ASes above one are the least set closed under providers, the rank is that of a
chain of customers no chain exceeds. **Ranks** has what the graphs that are tried
for the extrapolators need, the longest chain and the customer cone.

**SaveResults** has main, the saver thread and the workers as processes. The
announcements of all ASes are one variable, `rib`, that names the block they
belong to; a CSV row is a record that says which block, worker and item it came
from. `worker_thread_count` and `csvs_written` are the semaphores. Between two
steps of a thread is what it shares with others: a semaphore, the announcements,
the files. A run has two loops over blocks, or one with `--select-block-id`.

**PrefixAnnouncementMap** is the vector with its counter and one iterator;
**AnnouncementStore** the map it stands for.

**SubnetBlocks** is `populate_blocks`, then the loop over the two vectors. The
recursion is a stack of the calls that are still to be made, each with the number of
frames there will be when it is: a call replaces itself by its two halves, the first
on top. The table is a set of rows, each a prefix and a number that tells rows of the
same prefix apart. All the code does with an address or a netmask is shift, join and
test bits, so either is the set of its bits that are 1, of `Width`; `<<=` is external
and modelled as PostgreSQL has it. A bit shifted by -1 (undefined in C++) falls outside of 32
bits on the machines the code is built for, and is the highest of 128; its value
does not matter, as the halves of a host have the host's netmask whatever it is.

**Conversions** is `Prefix`, `parse_path` and `find_loop`. A text is the sequence
of what stands between its delimiters: a number, nothing, or what `stoul` throws
at. An action reads a text, prints what was read, or compares two prefixes. What
the texts mean (`IPv4Groups`, `IPv6Groups` after RFC 4291) is defined apart, and
the properties compare. A shift by the whole width is undefined in C++ and has
both outcomes a build can give.

**EZExtrapolator** extends `Propagation`: its `give_ann_to_as_path` replaces
`EndRow` and seeds the attack behind the row, `EndOfBlock` starts the saving
thread, `calculate_successful_attacks` is the override it runs: a step counts one
victim (`CountVictim`), or begins its traceback (`TraceVictim`), which is one call of
`getPathNeighborOfAttacker` a step, on the stack `calls`, until `ReturnNeighbor`. A
call whose `find` would return `end()` is dereferenced in the code and has no step
here: `EdgesTraced` says that there is none. Two things set the attack's announcement
apart. `from_attacker` is a field only it has, and that `Export` keeps. Its `as_path` is
kept beside it: `as_path` has that of the announcement in each slot, `incoming_paths`
those of what is queued. `PassOver`, `HandOver` and `SendOn` are `EZAS::process_announcement`
around the steps of `Propagation`: an AS that is on the path already passes the
announcement over (`NextIsVisited`), any other puts itself before the path
(`PathThrough`), and what is sent has the path of the slot. Main waits for
`csvs_written` for ever, so the module ends there.

**ROVExtrapolator** has the sweeps of `Propagation` in larger steps (a row, an AS)
with the seeding of rows that carry their validity and the filter of `ROVAS`, block
after block: `attackers` is kept between them. All four multihomed modes are those of
`Propagation` (`HeldBack`). There are no inverse results and no second-best
announcements: the constructor hands `false` for both to `BlockedExtrapolator`
(`ROVExtrapolator.cpp` 15), so `inverse_results` is NULL and lines 80-96 never run.
The loop over a path and the one over
a queue are functions of the number of their turns (`SeedHops`, `Processed`).
**ROVRefinement** maps it to `GaoRexford`: an adopter refuses `attackers`, as they
are at that moment, unless it is one of them.

**ROVppAS** has the policies as operators from the record of an AS to that record
(`process_announcements` and what it calls); **ROVppExtrapolator** puts seeding,
sweeps, the neighbours and the do-while of cycles around it. A step is a row, or the
visit of an AS. A loop over a queue, a path or the withdrawals is a function of the
number of its turns (`Processed`, `SeedHops`, `CancelTurns`). All prefixes share
their address, so that a netmask says which contains which.

## 4. What the runs show

| Run | Bounds | Shows |
|---|---|---|
| `BaseAS_ops` | 4 ASNs, 2 of them the AS itself with either hash, 2 queued, 3 processed | the slot holds the winner of all that was processed: the last of the best if the hash says so, else the first |
| `Propagation_gao` | every acyclic graph of 3 ASes, up to 3 of 18 rows (prepending, loops, broken paths, 2 timestamps), with `--random` and no multihomed mode, without `--random` and in the automatic mode | all safety properties of the sweeps; seeds are kept; paths can be traced back where seeds fit together; a block ends; the refinement of `GaoRexford` |
| `Propagation_options` | every acyclic graph of 4 ASes, up to 2 rows; the options as `main` sets them, mode 2 with origin-only seeding, mode 3 | what automatic multihomed mode holds back is known to a provider at the end; no AS keeps a route its neighbour has replaced |
| `ASGraph_all` | 4 ASes; every graph with mutual providers (cycles of 2, 3 and 4, up to two supernodes) and every graph with peers | components, dereferences, relations, translations, levels and ranks; termination |
| `SaveResults_all` | 2 workers, 3 ASes, 2 pairs, 1 full path, 2 blocks, one or two loops; three choices of what to store; any COPY may fail | rows are of their own block, once each, files removed, the run ends |
| `PrefixAnnouncementMap_ops` | 3 slots, 2 contents, 2 timestamps | the refinement of `AnnouncementStore`, the walk |
| `SubnetBlocks_tables` | 3 bits, up to 3 prefixes with up to 3 rows each, blocks below 3 rows, 6 frames of stack | no row twice, none lost, no full or empty block; the recursion ends, unless a host alone fills a block: then the stack overflows before any block is extrapolated |
| `Conversions` | 4 groups of 2 bits; IPv4 texts of up to 5 tokens, IPv6 texts of up to 7, 8 addresses with all masks, paths of up to 5 ASes | reading, printing, containment and the loop check are exact |
| `EZ_block` | 4 ASes, graphs in which origin 1 is at the end; up to 2 rows, 0 or 1 ASes between, multihomed modes 0 and 1; three tables: attacker 2 on a victim on the way, two origins with the same victim, a victim that was combined into another AS | the counts are what became of each victim; the traceback goes nowhere but to the attacker; the edge to remove is one the attack came through; the `as_path` of an attack is the way its traffic goes, and the check against it keeps out only what is worse than what the AS has |
| `ROV_blocks` | every acyclic graph of 3 ASes, every set of adopters, all four multihomed modes, up to 2 rows in each of any number of blocks, two origins, hijacks of either age | each block a stable Gao-Rexford routing in which adopters refuse the attackers known so far |
| `ROVpp_policies` | every acyclic graph of 4 ASes in which victim 1 and attacker 2 are no neighbours; a /16 against a /16 or a /24; 7 policies at one adopter, 6 pairs at two; 3 cycles instead of 100 | stable routing under BGP, ROV and ASPA; convergence but for ROV++ 0.3; no learned hijack at adopters; from an adopter on the side (`OnTheSide`) hijacks, and blackholes of 0.2bis, are not sent up |

Why the bounds are enough. Three ASes have every pattern of a relationship chain
up, across and down that the export rules tell apart, and a third row can delete
what the second replaced. The fourth AS is needed for a multihomed AS between two
providers, for an attack with a way around it, and for two adopters between victim
and attacker. A third prefix slot is one between two others. Two supernodes of two
members need four ASes. Two workers are enough to overtake each other, and their
shares of 3 ASes and 2 pairs do not divide evenly, so the running counters differ
from loop to loop; one full path makes one worker copy it and the other skip it.
The second block is computed while the first is saved, and the second call of
`extrapolate_blocks` joins what the first left. With three bits the recursion
passes every case of the netmask: empty, partly and full; four frames are all a
table without full hosts needs, so the fifth and sixth are spare. An address of
four groups has a "::" at either end, inside, over one group and over all; the
tokens beyond are one group and one delimiter too many. Without ROV++ 0.3
every simulation ends before the bound of three cycles stops it (`Converges`), so
the bound of 100 would give the same states; with 0.3 it cuts the repetition off.

One run shows where the program and what it says of itself part; `findings` in
`PROJECT.json` quotes it.

| Run | What happens |
|---|---|
| `EZ_rounds` | (with one row a block) the rounds of ezBGPsec, "guaranteed to terminate", do not get past their first block: the override of `save_results` posts nothing on `csvs_written`, and main waits |

Other places where code and words part, or where the code does what a reader may
not expect, met while modelling. The models follow the code in each.

| Source | What the code does |
|---|---|
| `BaseAS.cpp` 136 | without `--random` the last of equal announcements is kept; the comment in line 146 says the first |
| `BaseAS.cpp` 219 | the best announcement may be stored as its own second best; `README.md` line 88 calls the table that of the second best |
| `BlockedExtrapolator.cpp` 647 | mode 1 sends to peers, and to providers that do not know the origin; `README.md` line 97 says it sends nothing |
| `BlockedExtrapolator.cpp` 542 | a seed is deleted before the code tests whether the newer path is broken here, and nothing may be seeded instead; line 541 says "proceed with seeding"; the AS then has no route and is missing from the inverse results, which `README.md` line 86 describes as the ASes without one |
| `BaseExtrapolator.cpp` 288 | the traceback dereferences what `find` returns for the received-from AS, and may go in a circle. It is led astray by seeds that do not fit together: next to a break of a path is an AS without the announcement; a seed that an older, broken row deleted comes back from a newer row, whose path may lead to where the walk came from; of equally old rows one may have a path with a valley. `PathsTraced` is about the other seeds (`SeedsFit`), and is proved for those |
| `BaseExtrapolator.cpp` 218 | full paths are traced after the worker posted `csvs_written`, while main clears the announcements (`BlockedExtrapolator.cpp` 408) |
| `BaseExtrapolator.cpp` 52 | `parse_path` erases what `find` returned, `end()` when a bracket is missing |
| `BlockedExtrapolator.cpp` 485, 667 | the 8-bit path length wraps at 256; `Priority.h` line 7 says longer paths have lower priority |
| `BaseExtrapolator.cpp` 198 | `copy_inverse_results_to_db` gets the file of the results, not of the inverse results, and the inverse file is removed: nothing reaches the table (`CopyInverse`) |
| `BaseExtrapolator.cpp` 268 | full paths are copied through `this->querier`, which main and the other workers use at the same time; line 192 says a copy is made to avoid that |
| `BaseGraph.cpp` 249 | an AS above a supernode may be neither a leaf nor reached from one; it gets no rank and takes part in no sweep; `ASGraphTest.cpp` line 132 calls that an error |
| `BaseGraph.cpp` 359, 365 | the relations of the lowest member of a component are kept on one side only, and two adjacent supernodes may lose theirs on both, or keep the number of an erased member: `RelationsKept` and the end of `NeighboursExist` are about one supernode at most |
| `Prefix.h` 156, 267, 258 | an IPv4 group is cut to 32 bits before it is tested, so 4294967297 reads as 1; an IPv6 group may be 10000, which carries; a short IPv6 text without "::", or with two, is accepted |
| `EZExtrapolator.cpp` 72 | with `num_between` no edge is removed, so rounds would not end by it |
| `EZExtrapolator.cpp` 187 | the traceback ends at an AS that has the attack from the attacker, so it starts behind its end where the victim is itself the attacker of another origin and keeps its own announcement, whose received-from is the origin: from there it finds nothing, or goes round. TLC shows it with the table {1: (2, 3), 4: (3, 2)}. `EdgesTraced` is checked, and proved, for tables in which no attacker is a victim (`AttackersApart`) |
| `EZASGraph.cpp` 58 | looking up the three ASes of an attack is to "ensure that none of them are in a component", but `distributeAttackersVictims` runs before components are combined: a victim may be gone from the graph by the time it is counted |
| `ROVExtrapolator.cpp` 228 | an origin whose slot keeps an older seed is not marked as an attacker; a route that was seeded before the mark stays; attackers are never forgotten between blocks |
| `ROVAS.cpp` 23 | an adopter that refuses a seed has lost the seed before it: `delete_ann` comes before the filter |
| `ROVExtrapolator.cpp` 80-96, 246 | guarded by `inverse_results != NULL`, which never holds: the constructor (15) turns inverse results off |
| `EZAS.cpp` 11 | the check for the AS on the path keeps out only what would lose anyway: `AttackPaths`, checked and proved for ranked graphs |
| `ROVppAS.cpp` 297 | ROV++ 0.1 has the number of ROV, whose branch comes first |
| `ROVppAS.cpp` 505 | `check_preventives` looks up the slot of the announcement that was just inserted; with ROV++ 0.3 something is withdrawn in every cycle, up to the bound of 100 |
| `ROVppAS.cpp` 189-207 | entries of `ribs_in` that were changed in place are equal to no withdrawal and stay; the alternative to a withdrawn /24 may be the route of the /16 around it, and the /24 stays; a blackhole stays when a safe alternative of lower priority arrives |
| `ROVppExtrapolator.cpp` 510 | a blackhole has lost the origin by which `is_filtered` would know it; what keeps it from going up is the rule about providers' and peers' routes (`HolesGoDown`) |
| `ROVppAS.cpp` 366 | 0.2bis forwards its blackhole "to customers", but sends it up where it has a customer's priority: an AS that adopts 0.2bis and is the victim itself has the received-from of what hijacks its own prefix set to 64514 (266-271), so a hijack by its customer passes for none in line 376 and is blackholed, with a priority of 200 or more. Likewise an adopter that the table of announcements seeds with the attacker's row sends that up, as seeds pass no policy. `HolesGoDown` is about the other adopters (`OnTheSide`), and is proved for those |
| `ROVppAS.cpp` 514-519 | 0.3 may put a blackhole with a customer's priority into the slot of a /16, and send it to providers and peers |
| `ROVppAS.cpp` 426 | ASPA is to "reject if the attacker is on the path at all"; `best_alternative_route` asks only for the origin, so an AS with ASPA takes back a true route that the attacker passed on: `NoHijackAdopted` asks of ASPA that no hijack comes by the attacker |
| `ROVppAS.cpp` 28 | an AS has twenty slots, whatever the number of prefixes |

Fairness. `Propagation`, `ASGraph` and `SubnetBlocks` are each one thread that
never waits, so weak fairness of its next step is that of any running program.
`SaveResults` has weak fairness for each thread: the operating system runs a
thread that is not blocked, and a `sem_wait` that stays enabled is served. No
strong fairness is assumed: a semaphore has as many places as there are workers.
`EZFairSpec` has weak fairness of every step of either thread together: a step is
taken as long as one can, and still the rounds do not end.

Deadlock is checked in `BaseAS`, `Propagation`, `ASGraph`, `Conversions`,
`ROVExtrapolator` and `PrefixAnnouncementMap`. In `SaveResults`, `SubnetBlocks`
and `ROVppExtrapolator` the program ends; `RunEnds`, `PopulateEnds` and the bound on
cycles say that it does not stop before. In `EZExtrapolator` it hangs, which
`RoundsEnd` shows.

## 5. What is proved

All theorems hold for every value of the constants the modules' assumptions
allow: any number of ASes, any set of rows, any set of graphs.

**PropagationProofs**: `TypeCorrect`, `SeedsAreKept`, `RelationshipsAreHonest`,
`PropagationIsValleyFree`, `MultihomedAreSilent`, `InverseIsSound`,
`DeprefIsNotBetter`, for every graph and option, and `NothingIsUnprocessed`, which
assumes `WellRanked`. (What `MultihomedAreSilent` and `NothingIsUnprocessed` state
is checked by no run of its own: the proof covers it.)

The argument. `Phases` ties the row and the queue to the sweep: rows are seeded
before the first sweep, queues are empty while they are. It gives that a sweep
changes an announcement only in `process_announcements`, whose guard spares seeds.
`ValleyFree` is not inductive by itself: a sender must still have a customer route
when its announcement is processed. What makes it so is that in a sweep an
announcement is replaced only by one of higher priority, and that priority orders
relationships first. `InverseSound` needs `PairsExist`: every route and every
queued announcement names an origin that has an inverse set, or the erase of
`SwapInverse` would fail silently. `NothingUnprocessed` needs `DownSwept`: in the
last sweep the ASes that were visited have empty queues, as whoever could still
send to them ranks above them and was visited before.

Behind that: `RoutesAreCurrent` and `MultihomedAreHeard`, from
`WellRanked` and `ProvidersAbove` (every AS has a rank, above those of its
customers, below those of its providers). That an AS uses no route its neighbour
has replaced is not inductive: it has to be known that no sender replaces its
route. `HeardInTurn` says of whom something can have been heard in each sweep: of
those that had their turn in it. `UpSwept` says that after the first sweep no
customer's announcement is left in a queue. So a route that was sent up or across
is never beaten by what is processed later (`QueuedIsLesser`), and one that was
sent down was sent after its owner's last change (`SenderKeepsRoute`). The same
invariant bears `MultihomedAreHeard`: after its turn no AS gains a route it would
have sent up (`NoneGained`), and at its turn it told a provider or found one that
knew (`TurnTells`).

The refinement: `PropagationIsGaoRexford`, which the run `Propagation_gao` checks on
three ASes, from `Premises`, `WellRanked` and `MutualNeighbours`, in every multihomed
mode. `OffersConsidered` is added to the
invariants above: what an AS has offered to a neighbour is still queued there, or
no better than what the neighbour has, or the neighbour has a seed. At the end of
the last sweep the queues are empty, so no offer beats a route; that the route is
itself an offer made now is `HeardIsCurrent` with `RelationshipHonest` and
`ValleyFree`. The other steps stutter, seed or clear. What a multihomed AS holds back is
no offer, and the abstract specification says so of the routes as they end, while the
code looks at its providers when the AS has its turn. `HoldsBack` closes the gap:
whoever is told to hold its route back while its providers still have their seeds only
(`SeedsOnly`) has not been heard above or beside (`HeldUnheard`), and a seed stays.

The traceback: `PathsAreTraced`, from `WellRanked` and `ProvidersAbove`. The walk
of `stream_as_path` ends because every turn brings it nearer to an origin
(`NextIsNearer`), in an order that no graph and no rows can close to a circle:
from learned routes to seeds, among seeds to older ones, from providers' routes over
peers' to customers', up in the ranks while they are providers' and down after.
Between learned routes this is `HeardIsCurrent`, `ValleyFree` and
`RelationshipHonest`. Between seeds it needs the invariant `SeedsHonest`, that a
seed's relationship is that of its AS to the AS before it, and the premise of the
property, `SeedsFit`. So no AS is printed twice, and there are no more turns than
ASes and one. `stream_as_path` is a recursive function over the turns; that there is
such a function is the lemma `TurnsExist`, by the least number for which there is none.
The attempt to prove the property as it stood, with the first of the three cases of
section 4 as its only exception, failed and showed the other two, which need a third
timestamp or a fourth AS: more than the run has.

The block of `EZExtrapolator` takes every step of `Propagation` but `EndRow`; what it
takes instead puts a seed into the slot of the attacker, at a time when nobody has
heard anything, so `Heard` and `HeardIsCurrent` go on holding (`AttackKeepsHeard`), and
with them all that follows. `OutcomeIsCounted` and `EdgesAreTraced` add to that
`AttacksKnown`, that what is marked names an origin of the table and, where it is a
seed, is at its attacker; `Threads`, that nothing is counted while the block is
propagated; `VictimCalled` and `Tally`, for the counts; and, for the traceback,
`Tracing`, that each call is `Nearer` the attacker than those before it, along ASes
that learned the attack on the same origin, and `Edges`. The order `Nearer` is that of
`PathsAreTraced`; that the traffic of whoever uses an attack goes to its attacker is an
argument about the least number of ASes that are nearer. Both theorems assume
`WellRanked` and `ProvidersAbove`; `EdgesAreTraced` also `AttackersApart`, without which it
fails (section 4, `EZExtrapolator.cpp` 187). `OutcomeIsCounted` holds for every table.
A recursion that never ends would leave its victim uncounted, which a safety property
allows; `EdgesAreTraced` says that there is none.

`AttackPathsAreHonest` is about the paths the ASes record, for every table and mode, from
`WellRanked` and `ProvidersAbove`. The invariant is `Paths`: what is queued has the path
its sender has now (`PathsToldRight`), and each recorded path is the AS before that of its
sender (`PathsRecorded`). It holds because a sender that was heard is handed nothing it
would use any more (`SenderKeepsOut`). That the check of `EZAS.cpp` costs nobody a route
needs to know where the ASes on a path are: `PathsBehind` says that each of them has a route
it sends up, or is higher than the AS whose path it is. So an attack comes back to an AS
only from a peer or a provider, and finds the AS with a route of a customer or its own
(`VisitedIsWorse`).

`WellRanked` is what `RanksAreRight` proves of the ranks `ASGraph` computes
where no component was combined; `MutualNeighbours` is what a relationships table
yields before components are combined. With a supernode either may fail, as the
table of section 4 says, and the theorems that assume them say nothing then. TLC
evaluates the assumptions on the graphs of the runs (`GraphsAsAssumed`), of
`ROV_blocks` as well, and on the graphs and tables of `EZ_block`
(`InputsAsAssumed`), so the theorems are about those too.

**ROVProofs**, for every graph, every set of adopters and of rows and any number of
blocks: `TypeCorrect`, without further premises, and `AdoptersLearnNoHijack` and
`ROVIsGaoRexford`, for graphs that are `WellRanked` and have `MutualNeighbours`, in every
multihomed mode. A step of the module is a whole row or a whole visit, so what
happens in it is a lemma about the function of the loop: `HopsExist` and `TurnsExist`
say that there is such a function, `HopByHop` and the lemmas behind it that what holds
of one turn holds of all (`UpTo`). The invariant has three parts. `Sound` is
what holds in any graph: the types, and `Phases`, that nothing is learned or queued
before the sweeps. `Heard` says what was learned and is queued:
`HeardFromNeighbours`, that it is what the neighbour it came from would send now, in
the sweep it belongs to; `LearnedAccepted`, that no AS holds what it would refuse
now; `UpSwept` and `DownSwept`, that the ASes behind the sweep have nothing queued that
could change them. `LearnedAccepted` holds because the attackers are all known when
the sweeps begin: `attackers` grows in rows only, while nothing is learned.
`OffersConsidered` is that of `Propagation`, with one more way for an offer to be
considered: it is refused. What a multihomed AS holds back is no offer; for that
`HeldAbove` and `HeldBeside`, which ask what an AS holds back in terms of the routes at the
end, must be what `HeldBack` answered in its turn, and they are (`HeldByTurn`), because in
the sweep up its providers have nothing but the seeds they keep. What an adopter is seeded with is not covered, and not true:
the origin of a seed may be marked as an attacker by a later row (`GaoRexford` takes
seeds as they are).

**BaseASProofs**: `HoldsTheWinner`, for any AS, announcements and order of calls.
The invariant is the property together with the types of the log and the queue;
the lemma `ProcessedWinner` is about one more element behind a log of any length.

**SaveResultsProofs**, for any number of workers, ASes, pairs and blocks, whatever
is stored and whichever file the database refuses:

- `StreamsAreUndisturbed`. `Handshake` ties the places of main, saver and workers
  to `csvs_written`: what main has waited for and what it has still to take add up
  to the number of workers that have posted, so that main goes on only when all of
  them have. Cardinalities of sets of workers do the counting.
- `RowsAreOfTheirBlock`. `Files` says which file exists while a worker is where,
  and so that none exists without a worker at work.
- `ResultsAreSaved`. `Counters` gives the value of each worker's running counter in
  each loop; the lemma `OneMultiple`, that of m numbers in a row exactly one makes
  a given sum a multiple of m, then gives each AS to one worker. `Sound` and
  `Complete` say which rows exist by the time a worker has passed its loops, and
  `Progress` that when main is over every block has passed them.

**PrefixAnnouncementMapProofs**, for every capacity: `TypeCorrect`, `SizeIsRight`,
`IterationsAreComplete` and the refinement `MapImplementsStore`. The type of the
counter (it stays within 0..Capacity, the unsigned number never wraps) is not
inductive without what it counts, so the invariant is `Counted`, the two together;
the lemmas say how the number of filled slots changes with each operation.

**ASGraphProofs**, for every graph, first: `TarjanIsRight`, the components are the strongly
connected components of the providers. The invariant `TarjanInv` has the state of
an iterative Tarjan in named parts. `StackOrder`: the stack is in the order of the
numbers, and the ASes of the open calls are on it. `Explored`: the providers a call
has been through are numbered. `StackReaches`: up the stack every AS is above those
below it, and each leads back to an open call. `LowIsReached` and `LowIsLowest`:
`lowlink` is the number of an AS above, and no greater than that of any provider on
the stack which the call or its finished calls met. `ComponentsFound`: every
component is the set of ASes mutually above each of its members, and a provider's
component is found no later than its customer's. The step that matters is the end of a call
whose `lowlink` is its own number: no AS from it to the top of the stack leads below it
(`LowIsLowest`), so what is popped is closed but for what was found before, and it
is mutually above (`StackReaches`).

Then, for every order of combining as well: `NoAsnIsLost`,
`NoNeighbourIsGone`, `NoRelationIsLost`, `RanksAreRight`, all from `GraphInv`, which
is `TarjanInv` with three more groups. `Beforehand` is what holds of the
translations, stubs and ranks until they are made. `CombineInv` is about components
combined one member at a time: who is in the graph and what everything translates
to (`Translated`), in which order (`InOrder`, `InWork`), that ASes not yet combined
know each other mutually (`Mutual`) and have no neighbour that is gone (`Present`),
and what the tables said of two of them (`KnownToBoth`; with one supernode also what
the supernode took over, `SingleKnows`). `Ordered` is what joins it to Tarjan:
components come providers first, so no AS can keep a provider that is combined later
than itself (`ProvidersStay`). That makes `decide_ranks` safe, which looks providers
up without translating them. `RankInv` is about the levels: an AS whose turn has
come is below its providers (`ProvidersAbove`), and whoever was raised was raised by
a customer one level down (`RaisedByCustomer`). That without cycles nobody stays
unranked follows from Tarjan once more: of the ASes without a rank take one whose
component was found last; its customers, found later, have ranks, and would have
raised it, or it has none and is a leaf, which `LeavesRanked` gives a rank.

**ROVppProofs**, for every graph, every mix of policies, any rows and any number of
prefixes and cycles: `TypeCorrect`, `NoHijackIsAdopted`, `HolesDoGoDown`. The invariant
says of each AS what its `ribs_in` and its slots and withdrawals hold (`InRibs`,
`InSlots`), and a visit is shown to keep an AS within such sets, `ASRecord`, policy by
policy, alternative by alternative; how many turns a loop makes does not matter
(`Loop`, `LoopWithin`). `NoHijackAdopted` is inductive with the types: whatever puts a
route into a slot, be it a policy, the alternative to a withdrawn route or a preventive
announcement, asked `pass_rov` of it or made it up with an origin that is no attacker.
`HolesGoDown` is not, for two ASes are needed to break it: an adopter would have to hold a
hijack or a blackhole as a customer's route to send it up, and the invariant needs why it
has none. `InRibs` says so: what an AS on the side got with a customer's priority was sent
by a customer, or passes ROV. So 0.2bis does not blackhole it but drops it, and the
blackholes it makes have a lower priority. That the received-from of such an announcement
was not rewritten is the first conjunct, that nothing has an AS on the side for its origin,
and where `OnTheSide` is needed. `ROVppAssumption` says only
what a simulation is (`Simulation`).

**SubnetBlocksProofs**, for every table, width and block size: `RowsAreExtrapolatedOnce`,
`BlocksAreManageable`, `FullHostStopsAll`, and `OnlyFullHostsOverflow`, which assumes a
stack of more frames than a prefix has bits. The invariant `Partition` gives every row one
place: one call that is still to be made, one prefix block or one subnet block, and
that by its index, so that no block is there twice (`OnePlace`). A cut keeps it because the
bit that `FlippedBit` sets is the one `NewMask` adds: a row within the subnet is of
exactly the subnet, in its first half or in the second. That fails at a host, whose
halves are the host itself; so at a host with too many rows, `Stuck` takes the place of
`Partition`, and is never left. `Selections` says which rows the loops have come
to, by the position of the iterator; it needs `BlocksManageable`, as an empty block
would end the loop early. The frames of a call are one more than the bits of its netmask,
and there are no more bits than `Width`: the stack overflows only at a host. That the
recursion ends at all is liveness, and left to TLC.

Only model-checked:

- liveness (`BlockEnds`, `RunEnds`, `GraphEnds`, `PopulateEnds`) and the
  counterexample to `RoundsEnd`: fairness is out of the prover's reach;
- `Conversions`, which uses the bitwise operators the prover cannot read;
- `StableRouting` and `Converges` of `ROVppExtrapolator`. Withdrawals may undo what
  an earlier cycle did, and the entries they fail to cancel stay: why the result is
  stable all the same, on the graphs of the run, and how many cycles it takes, is a
  matter of the order of the withdrawals of all ASes. We have no invariant for it.

## 6. What is not modelled

- `EZExtrapolator` behind its first block (further blocks,
  `disconnectAttackerEdges`, further rounds): main hangs before them.
- `ROVppExtrapolator::save_results` (637-664), which writes the tables when all is
  over, and `process_withdrawals`, which nothing calls.
- Which rows carry which `block_id`, for `extrapolate_by_block_id`: it is decided
  outside the repository. The loop over them is that of `SaveResults`.
- The database connection as something that two threads share: what libpqxx does
  then is undefined, and any outcome would follow. `hazards` names the line.
- A graph and its propagation in one model: the sweeps run on graphs without
  cycles, `ASGraph` checks how cycles are combined, and no run propagates over a
  graph with a supernode.
- The SQL text, the command line, the logger, the random graphs and the tests: no
  property is about their wording, and the models enumerate what they would
  provide.
