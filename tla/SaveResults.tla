----------------------------- MODULE SaveResults ------------------------------
(***************************************************************************)
(* The threads that save one block while the next is computed.             *)
(*                                                                         *)
(*   main     extrapolate_blocks: selects and propagates a block, starts   *)
(*            save_results in a thread, waits until every CSV is written,  *)
(*            clears the announcements                                     *)
(*   saver    save_results: starts the workers and joins them              *)
(*   worker   save_results_thread: writes its share of the CSVs, posts     *)
(*            csvs_written, copies the files to the database               *)
(*                                                                         *)
(* The announcements of all ASes are one variable that names the block     *)
(* they belong to: what matters is who reads them while they change.  A    *)
(* row is an AS (results, depref, full) or a prefix-origin pair (inverse). *)
(***************************************************************************)
EXTENDS Integers, FiniteSets

CONSTANTS MaxWorkers,      \* max_workers
          NumASes,         \* graph->ases->size()
          NumPairs,        \* graph->inverse_results->size()
          NumFullPath,     \* full_path_asns->size(), 0 for NULL
          Stores,          \* what the options may ask to store: sets of
                           \* "results", "inverse" and "depref"
          DbMayFail,       \* a COPY may fail; SQLQuerier::execute swallows it
          MaxBlocks        \* bound: blocks of one run

Workers == 0..(MaxWorkers - 1)
Calls == 2         \* extrapolate calls extrapolate_blocks for both block lists
NoBlock == -1      \* no announcements in the ASes

ASSUME SaveResultsAssumption ==
    /\ MaxWorkers \in Nat \ {0}
    /\ NumASes \in Nat /\ NumPairs \in Nat /\ NumFullPath \in Nat
    /\ Stores \subseteq SUBSET {"results", "inverse", "depref"}
    /\ DbMayFail \in BOOLEAN
    /\ MaxBlocks \in Nat

VARIABLES
    stores,        \* store_results, store_invert_results, store_depref_results
    main,          \* where the main thread is
    calls,         \* calls of extrapolate_blocks begun
    iteration,
    awaited,       \* the loop counter around sem_wait(&csvs_written)
    rib,           \* the block whose announcements the ASes hold
    saver,         \* save_res_thread
    saving,        \* the iteration given to it
    worker,        \* where each worker is
    counter,       \* the local variable of save_results_thread
    worker_thread_count, csvs_written,   \* semaphores
    csv,           \* rows in /dev/shm/bgp
    table,         \* rows in the database
    refused        \* history: rows of the files whose COPY failed

\* perform_propagation: a loop for each block list, or with --select-block-id
\* one loop over the block ids, which is the last at once.  That loop, too,
\* joins, saves, waits and clears, and passes over an empty block.
FirstCall == {1, Calls}

mainVars   == <<main, calls, iteration, awaited, rib>>
dbVars     == <<table, refused>>
workerVars == <<worker, counter, worker_thread_count, csvs_written>>
vars == <<stores, mainVars, saver, saving, workerVars, csv, dbVars>>

Init == /\ stores \in Stores
        /\ main = "select" /\ calls \in FirstCall /\ iteration = 0 /\ awaited = 0
        /\ rib = NoBlock
        /\ saver = "none" /\ saving = 0
        /\ worker = [w \in Workers |-> "none"]
        /\ counter = [w \in Workers |-> 0]
        /\ worker_thread_count = MaxWorkers
        /\ csvs_written = 0
        /\ csv = {} /\ table = {} /\ refused = {}

-----------------------------------------------------------------------------
(***************************************************************************)
(* main                                                                    *)
(***************************************************************************)
\* The block is selected through this->querier, then seeded and propagated.
SelectBlock ==
    /\ main = "select" /\ iteration < MaxBlocks
    /\ main' = "propagate"
    /\ rib' = iteration
    /\ UNCHANGED <<stores, calls, iteration, awaited, saver, saving,
                   workerVars, csv, dbVars>>

\* The list of blocks ends, or an empty block breaks the loop.
NoMoreBlocks ==
    /\ main = "select"
    /\ main' = "final"
    /\ UNCHANGED <<stores, calls, iteration, awaited, rib, saver, saving,
                   workerVars, csv, dbVars>>

Propagate ==
    /\ main = "propagate"
    /\ main' = "join"
    /\ UNCHANGED <<stores, calls, iteration, awaited, rib, saver, saving,
                   workerVars, csv, dbVars>>

\* save_res_thread.join(), if the thread is joinable.
JoinSaver(from, to) ==
    /\ main = from /\ saver \in {"none", "finished"}
    /\ main' = to
    /\ saver' = "none"
    /\ UNCHANGED <<stores, iteration, awaited, rib, saving, workerVars, csv,
                   dbVars>>

JoinPrevious == JoinSaver("join", "start") /\ UNCHANGED calls

\* A variant with a bug: the iteration is counted before the thread starts.
StartSaverLate ==
    /\ main = "start"
    /\ main' = "wait" /\ awaited' = 0
    /\ saver' = "spawn" /\ saving' = iteration + 1
    /\ UNCHANGED <<stores, calls, iteration, rib, workerVars, csv, dbVars>>

StartSaver ==
    /\ main = "start"
    /\ main' = "wait" /\ awaited' = 0
    /\ saver' = "spawn" /\ saving' = iteration
    /\ UNCHANGED <<stores, calls, iteration, rib, workerVars, csv, dbVars>>

\* A variant with a bug: main waits for one worker only.
WaitFirstCsv ==
    /\ main = "wait" /\ csvs_written > 0
    /\ csvs_written' = csvs_written - 1
    /\ awaited' = awaited + 1
    /\ main' = "clear"
    /\ UNCHANGED <<stores, calls, iteration, rib, saver, saving, worker,
                   counter,
                   worker_thread_count, csv, dbVars>>

\* One turn of the loop of sem_wait(&csvs_written).
WaitCsv ==
    /\ main = "wait" /\ csvs_written > 0
    /\ csvs_written' = csvs_written - 1
    /\ awaited' = awaited + 1
    /\ main' = IF awaited' = MaxWorkers THEN "clear" ELSE "wait"
    /\ UNCHANGED <<stores, calls, iteration, rib, saver, saving, worker,
                   counter,
                   worker_thread_count, csv, dbVars>>

ClearAnnouncements ==
    /\ main = "clear"
    /\ main' = "select"
    /\ rib' = NoBlock
    /\ iteration' = iteration + 1
    /\ UNCHANGED <<stores, calls, awaited, saver, saving, workerVars, csv,
                   dbVars>>

\* The join at the end of extrapolate_blocks, then the second list or the end.
JoinLast ==
    \/ calls < Calls  /\ JoinSaver("final", "select") /\ calls' = calls + 1
    \/ calls = Calls  /\ JoinSaver("final", "done")   /\ UNCHANGED calls

-----------------------------------------------------------------------------
(***************************************************************************)
(* saver.  With one worker it runs save_results_thread itself; the worker  *)
(* then stands for that call.                                              *)
(***************************************************************************)
\* A variant with a bug: every worker counts from 0.
SpawnAlike ==
    /\ saver = "spawn"
    /\ saver' = "joining"
    /\ worker' = [w \in Workers |-> "start"]
    /\ counter' = [w \in Workers |-> 0]
    /\ UNCHANGED <<stores, mainVars, saving, worker_thread_count, csvs_written,
                   csv, dbVars>>

SpawnWorkers ==
    /\ saver = "spawn"
    /\ saver' = "joining"
    /\ worker' = [w \in Workers |-> "start"]
    /\ counter' = [w \in Workers |-> w]
    /\ UNCHANGED <<stores, mainVars, saving, worker_thread_count, csvs_written,
                   csv, dbVars>>

JoinWorkers ==
    /\ saver = "joining"
    /\ \A w \in Workers : worker[w] = "ended"
    /\ saver' = "finished"
    /\ UNCHANGED <<stores, mainVars, saving, workerVars, csv, dbVars>>

-----------------------------------------------------------------------------
(***************************************************************************)
(* worker                                                                  *)
(***************************************************************************)
WorkerStart(w) ==
    /\ worker[w] = "start" /\ worker_thread_count > 0
    /\ worker_thread_count' = worker_thread_count - 1
    /\ worker' = [worker EXCEPT ![w] = "results"]
    /\ UNCHANGED <<stores, mainVars, saver, saving, counter, csvs_written, csv,
                   dbVars>>

\* The n items of a loop that `counter++ % num_threads == 0` leaves to w.
Share(w, n) == {k \in 0..(n - 1) : (counter[w] + k) % MaxWorkers = 0}

\* The rows w streams now: they come from the announcements as they are now.
Stream(w, kind, n) ==
    IF rib = NoBlock THEN {}
    ELSE [kind : {kind}, iteration : {saving}, thread : {w}, block : {rib},
          item : Share(w, n)]

WriteResults(w) ==
    /\ worker[w] = "results"
    /\ worker' = [worker EXCEPT ![w] = "inverse"]
    /\ IF "results" \in stores
       THEN /\ csv' = csv \union Stream(w, "results", NumASes)
            /\ counter' = [counter EXCEPT ![w] = @ + NumASes]
       ELSE UNCHANGED <<csv, counter>>
    /\ UNCHANGED <<stores, mainVars, saver, saving, worker_thread_count,
                   csvs_written, dbVars>>

\* Without inverse results the ASes are streamed into a file that is closed:
\* only the counter moves.
WriteInverse(w) ==
    /\ worker[w] = "inverse"
    /\ worker' = [worker EXCEPT ![w] = "depref"]
    /\ csv' = IF "inverse" \in stores THEN csv \union Stream(w, "inverse", NumPairs) ELSE csv
    /\ counter' = [counter EXCEPT ![w] = @ + (IF "inverse" \in stores THEN NumPairs ELSE NumASes)]
    /\ UNCHANGED <<stores, mainVars, saver, saving, worker_thread_count,
                   csvs_written, dbVars>>

WriteDepref(w) ==
    /\ worker[w] = "depref"
    /\ worker' = [worker EXCEPT ![w] = "post"]
    /\ IF "depref" \in stores
       THEN /\ csv' = csv \union Stream(w, "depref", NumASes)
            /\ counter' = [counter EXCEPT ![w] = @ + NumASes]
       ELSE UNCHANGED <<csv, counter>>
    /\ UNCHANGED <<stores, mainVars, saver, saving, worker_thread_count,
                   csvs_written, dbVars>>

\* A variant with a bug: no sem_post.
PostNothing(w) ==
    /\ worker[w] = "post"
    /\ worker' = [worker EXCEPT ![w] = "copy_inverse"]
    /\ UNCHANGED <<stores, mainVars, saver, saving, counter,
                   worker_thread_count,
                   csvs_written, csv, dbVars>>

PostCsv(w) ==
    /\ worker[w] = "post"
    /\ worker' = [worker EXCEPT ![w] = "copy_inverse"]
    /\ csvs_written' = csvs_written + 1
    /\ UNCHANGED <<stores, mainVars, saver, saving, counter,
                   worker_thread_count, csv, dbVars>>

\* The file of one kind that w wrote in this iteration.
File(w, kind) ==
    {r \in csv : r.kind = kind /\ r.iteration = saving /\ r.thread = w}

\* COPY file to a table, then std::remove(removed).  A COPY of a file with
\* other columns, of no file, or that the database refuses loads nothing.
CopyToDb(w, from, to, removed, stored) ==
    /\ worker[w] = from
    /\ worker' = [worker EXCEPT ![w] = to]
    /\ IF stored
       THEN /\ csv' = csv \ File(w, removed)
            /\ \/ /\ table' = table \union File(w, removed)
                  /\ UNCHANGED refused
               \/ /\ DbMayFail
                  /\ refused' = refused \union File(w, removed)
                  /\ UNCHANGED table
       ELSE UNCHANGED <<csv, dbVars>>
    /\ UNCHANGED <<stores, mainVars, saver, saving, counter,
                   worker_thread_count, csvs_written>>

\* copy_inverse_results_to_db is given the file of the results, whose six
\* columns do not fit the inverse table; the inverse file is removed.
CopyInverse(w) ==
    /\ worker[w] = "copy_inverse"
    /\ worker' = [worker EXCEPT ![w] = "copy_results"]
    /\ csv' = IF "inverse" \in stores THEN csv \ File(w, "inverse") ELSE csv
    /\ UNCHANGED <<stores, mainVars, saver, saving, counter,
                   worker_thread_count,
                   csvs_written, dbVars>>

CopyResults(w) == CopyToDb(w, "copy_results", "copy_depref", "results", "results" \in stores)
CopyDepref(w)  == CopyToDb(w, "copy_depref", "full_path", "depref", "depref" \in stores)

\* save_results_at_asn for the share of w of full_path_asns: the AS paths are
\* traced through the announcements of all ASes, which may be gone by now.
WriteFullPath(w) ==
    /\ worker[w] = "full_path"
    /\ IF Share(w, NumFullPath) = {}
       THEN worker' = [worker EXCEPT ![w] = "release"] /\ UNCHANGED csv
       ELSE /\ worker' = [worker EXCEPT ![w] = "copy_full_path"]
            /\ csv' = csv \union Stream(w, "full", NumFullPath)
    /\ counter' = [counter EXCEPT ![w] = @ + NumFullPath]
    /\ UNCHANGED <<stores, mainVars, saver, saving, worker_thread_count,
                   csvs_written, dbVars>>

\* Through this->querier, not the copy made for the worker.
CopyFullPath(w) == CopyToDb(w, "copy_full_path", "release", "full", TRUE)

WorkerEnd(w) ==
    /\ worker[w] = "release"
    /\ worker' = [worker EXCEPT ![w] = "ended"]
    /\ worker_thread_count' = worker_thread_count + 1
    /\ UNCHANGED <<stores, mainVars, saver, saving, counter, csvs_written, csv,
                   dbVars>>

-----------------------------------------------------------------------------
MainStep == \/ SelectBlock \/ NoMoreBlocks \/ Propagate \/ JoinPrevious
            \/ StartSaver \/ WaitCsv \/ ClearAnnouncements \/ JoinLast

SaverStep == SpawnWorkers \/ JoinWorkers

WorkerStep(w) == \/ WorkerStart(w) \/ WriteResults(w) \/ WriteInverse(w)
                 \/ WriteDepref(w) \/ PostCsv(w) \/ CopyInverse(w)
                 \/ CopyResults(w) \/ CopyDepref(w) \/ WriteFullPath(w)
                 \/ CopyFullPath(w) \/ WorkerEnd(w)

Next == MainStep \/ SaverStep \/ \E w \in Workers : WorkerStep(w)

Spec == Init /\ [][Next]_vars

\* The operating system runs every thread that is not blocked.
FairSpec == /\ Spec
            /\ WF_vars(MainStep) /\ WF_vars(SaverStep)
            /\ \A w \in 0..(MaxWorkers - 1) : WF_vars(WorkerStep(w))

-----------------------------------------------------------------------------
\* Workers that read the announcements for a CSV.
Streaming(w) == worker[w] \in {"start", "results", "inverse", "depref", "post"}

(***************************************************************************)
(* While any worker has a CSV of the block still to write, main waits: it  *)
(* neither propagates nor clears.  This is what the semaphore csvs_written *)
(* is for ("the next iteration starts only after all csvs were written",   *)
(* BaseExtrapolator.h 170).                                                *)
(***************************************************************************)
StreamsUndisturbed ==
    \A w \in Workers : Streaming(w) => main = "wait" /\ rib = saving

(***************************************************************************)
(* Every saved row belongs to the block it is saved for, and the files     *)
(* there are belong to the block that is being saved.                      *)
(***************************************************************************)
RowsOfOwnBlock ==
    /\ \A r \in csv \union table \union refused :
          r.kind # "full" => r.block = r.iteration
    /\ \A r \in csv : r.iteration = saving

\* Every item of a kind, in every block, was copied by exactly one worker.
Saved(kind, n) ==
    \A b \in 0..(iteration - 1), k \in 0..(n - 1) :
        Cardinality({r \in table \union refused :
                        r.kind = kind /\ r.block = b /\ r.item = k}) = 1

(***************************************************************************)
(* When the run is over, each AS of each block is once in the results and  *)
(* once in the second-best table, but for the files that the database      *)
(* refused: the shares of the workers, whose counters run on from loop to  *)
(* loop, neither overlap nor leave a gap, whatever is stored in between.   *)
(* No CSV is left in /dev/shm/bgp, also when the database refused it.      *)
(***************************************************************************)
ResultsSaved ==
    main = "done" => /\ "results" \in stores => Saved("results", NumASes)
                     /\ "depref" \in stores  => Saved("depref", NumASes)
                     /\ csv = {}

(***************************************************************************)
(* Main ends, whatever the threads do: no semaphore is waited for that no  *)
(* one will post.                                                          *)
(***************************************************************************)
RunEnds == <>(main = "done")

=============================================================================
