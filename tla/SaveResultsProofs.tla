--------------------------- MODULE SaveResultsProofs ---------------------------
(***************************************************************************)
(* Theorems about SaveResults, for any number of workers, ASes, pairs,     *)
(* full paths and blocks, whatever is stored and whichever files the       *)
(* database refuses.                                                       *)
(***************************************************************************)
EXTENDS SaveResults, FiniteSetTheorems, TLAPS

StreamStates == {"start", "results", "inverse", "depref", "post"}
PostedStates == {"copy_inverse", "copy_results", "copy_depref", "full_path",
                 "copy_full_path", "release", "ended"}

Posted == {w \in Workers : worker[w] \in PostedStates}

Typed ==
    /\ main \in {"select", "propagate", "join", "start", "wait", "clear", "final", "done"}
    /\ saver \in {"none", "spawn", "joining", "finished"}
    /\ worker \in [Workers -> {"none"} \union StreamStates \union PostedStates]
    /\ iteration \in Nat /\ saving \in Nat
    /\ awaited \in Nat /\ csvs_written \in Nat

(***************************************************************************)
(* How far main and saver are tells where the workers are, and what main   *)
(* has waited for together with what is left in csvs_written is the number *)
(* of workers that have posted.                                            *)
(***************************************************************************)
WorkersOfSaver ==
    /\ saver # "joining" => \A w \in Workers : worker[w] \in {"none", "ended"}
    /\ saver \in {"joining", "finished"} => \A w \in Workers : worker[w] # "none"

BlockOfMain ==
    /\ main \in {"propagate", "join", "start", "wait"} => rib = iteration
    /\ main \in {"wait", "clear"} => saving = iteration /\ saver # "none"
    /\ main \in {"start", "done"} => saver = "none"
    /\ saver = "spawn" => main = "wait"

PostsAwaited ==
    /\ main # "wait" => csvs_written = 0 /\ \A w \in Workers : ~ Streaming(w)
    /\ main = "wait" =>
           awaited + csvs_written = IF saver = "spawn" THEN 0 ELSE Cardinality(Posted)

Handshake == Typed /\ WorkersOfSaver /\ BlockOfMain /\ PostsAwaited

-----------------------------------------------------------------------------
(***************************************************************************)
(* Lemmas about the workers.                                               *)
(***************************************************************************)
LEMMA WorkersFinite ==
    /\ IsFiniteSet(Workers) /\ Cardinality(Workers) = MaxWorkers
    /\ IsFiniteSet(Posted) /\ Cardinality(Posted) \in Nat
    /\ Cardinality(Posted) <= MaxWorkers
    /\ Cardinality(Posted) = MaxWorkers => Posted = Workers
<1>1. MaxWorkers \in Nat /\ MaxWorkers > 0
  BY SaveResultsAssumption
<1>2. IsFiniteSet(Workers) /\ Cardinality(Workers) = MaxWorkers
  BY <1>1, FS_Interval DEF Workers
<1>3. Posted \in SUBSET Workers
  BY DEF Posted
<1>4. QED
  BY <1>2, <1>3, FS_Subset, FS_CardinalityType

\* A worker that moves within what it has posted, or has not, does not change
\* the handshake.
LEMMA WorkerMoves ==
    ASSUME Handshake, NEW w \in Workers, NEW s \in StreamStates \union PostedStates,
           worker[w] \notin {"none", "ended"},
           worker' = [worker EXCEPT ![w] = s],
           s \in StreamStates <=> worker[w] \in StreamStates,
           UNCHANGED <<main, iteration, awaited, rib, saver, saving, csvs_written>>
    PROVE  Handshake'
<1>1. saver = "joining"
  BY DEF Handshake, WorkersOfSaver
<1>2. StreamStates \intersect PostedStates = {} /\ "none" \notin StreamStates \union PostedStates
  BY DEF StreamStates, PostedStates
<1>3. worker[w] \in StreamStates \union PostedStates
  BY DEF Handshake, Typed
<1>4. \A v \in Workers : worker'[v] = IF v = w THEN s ELSE worker[v]
  BY DEF Handshake, Typed
<1>5. Posted' = Posted
  BY <1>2, <1>3, <1>4 DEF Posted
<1>6. \A v \in Workers : Streaming(v)' <=> Streaming(v)
  BY <1>4 DEF Streaming, StreamStates
<1>7. Typed'
  BY DEF Handshake, Typed
<1>8. WorkersOfSaver'
  BY <1>1, <1>2, <1>4 DEF Handshake, WorkersOfSaver
<1>9. BlockOfMain' /\ PostsAwaited'
  BY <1>5, <1>6 DEF Handshake, BlockOfMain, PostsAwaited
<1>10. QED
  BY <1>7, <1>8, <1>9 DEF Handshake

-----------------------------------------------------------------------------
(***************************************************************************)
(* The handshake is kept.                                                  *)
(***************************************************************************)
LEMMA HandshakeInit == Init => Handshake
BY SaveResultsAssumption
   DEF Init, Handshake, Typed, WorkersOfSaver, BlockOfMain, PostsAwaited, Streaming

LEMMA HandshakeMain ==
    ASSUME Handshake, MainStep
    PROVE  Handshake'
<1> USE DEF mainVars, workerVars, dbVars
<1>1. CASE UNCHANGED worker /\ saver \in {"none", "finished"} /\ saver' = "none"
           /\ main \in {"join", "final"} /\ main' \in {"start", "select", "done"}
           /\ UNCHANGED <<iteration, awaited, rib, saving, csvs_written>>
           /\ (main' = "start" <=> main = "join")
  <2>1. \A v \in Workers : Streaming(v)' <=> Streaming(v)
    BY <1>1 DEF Streaming
  <2>2. QED
    BY <1>1, <2>1 DEF Handshake, Typed, WorkersOfSaver, BlockOfMain, PostsAwaited
<1>2. CASE SelectBlock \/ NoMoreBlocks \/ Propagate
  BY <1>2 DEF SelectBlock, NoMoreBlocks, Propagate, Handshake, Typed, WorkersOfSaver,
              BlockOfMain, PostsAwaited, Streaming
<1>3. CASE JoinPrevious
  BY <1>1, <1>3 DEF JoinPrevious, JoinSaver
<1>4. CASE JoinLast
  BY <1>1, <1>4 DEF JoinLast, JoinSaver
<1>5. CASE StartSaver
  BY <1>5 DEF StartSaver, Handshake, Typed, WorkersOfSaver, BlockOfMain, PostsAwaited, Streaming
<1>6. CASE WaitCsv
  <2>1. /\ main = "wait" /\ saver # "spawn"
        /\ awaited + csvs_written = Cardinality(Posted)
        /\ awaited' = awaited + 1 /\ csvs_written' = csvs_written - 1 /\ csvs_written > 0
        /\ awaited \in Nat /\ csvs_written \in Nat
    BY <1>6 DEF WaitCsv, Handshake, Typed, PostsAwaited
  <2>2. UNCHANGED <<worker, saver, saving, iteration, rib>>
    BY <1>6 DEF WaitCsv
  <2>3. Posted' = Posted /\ \A v \in Workers : Streaming(v)' <=> Streaming(v)
    BY <2>2 DEF Posted, Streaming
  <2>4. CASE awaited' = MaxWorkers
    <3>1. csvs_written' = 0 /\ Cardinality(Posted) = MaxWorkers
      BY <2>1, <2>4, WorkersFinite, SaveResultsAssumption
    <3>2. \A v \in Workers : worker[v] \in PostedStates
      BY <3>1, WorkersFinite DEF Posted
    <3>3. \A v \in Workers : ~ Streaming(v)
      BY <3>2 DEF Streaming, PostedStates
    <3>4. main' = "clear"
      BY <1>6, <2>4 DEF WaitCsv
    <3>5. QED
      BY <2>1, <2>2, <2>3, <3>1, <3>3, <3>4
         DEF Handshake, Typed, WorkersOfSaver, BlockOfMain, PostsAwaited
  <2>5. CASE awaited' # MaxWorkers
    <3>1. main' = "wait"
      BY <1>6, <2>5 DEF WaitCsv
    <3>2. awaited' + csvs_written' = Cardinality(Posted)'
      BY <2>1, <2>3
    <3>3. QED
      BY <2>1, <2>2, <3>1, <3>2
         DEF Handshake, Typed, WorkersOfSaver, BlockOfMain, PostsAwaited
  <2>6. QED
    BY <2>4, <2>5
<1>7. CASE ClearAnnouncements
  BY <1>7 DEF ClearAnnouncements, Handshake, Typed, WorkersOfSaver, BlockOfMain,
              PostsAwaited, Streaming
<1>8. QED
  BY <1>2, <1>3, <1>4, <1>5, <1>6, <1>7 DEF MainStep

LEMMA HandshakeSaver ==
    ASSUME Handshake, SaverStep
    PROVE  Handshake'
<1> USE DEF mainVars, workerVars, dbVars
<1>1. CASE SpawnWorkers
  <2>1. /\ saver = "spawn" /\ saver' = "joining" /\ main = "wait"
        /\ worker' = [w \in Workers |-> "start"]
        /\ UNCHANGED <<main, iteration, awaited, rib, saving, csvs_written>>
        /\ awaited + csvs_written = 0
    BY <1>1 DEF SpawnWorkers, Handshake, BlockOfMain, PostsAwaited
  <2>2. Posted' = {}
    BY <2>1 DEF Posted, PostedStates
  <2>3. Cardinality(Posted') = 0
    BY <2>2, FS_EmptySet
  <2>4. QED
    BY <2>1, <2>3 DEF Handshake, Typed, StreamStates, WorkersOfSaver, BlockOfMain, PostsAwaited
<1>2. CASE JoinWorkers
  <2>1. Posted' = Posted /\ \A v \in Workers : Streaming(v)' <=> Streaming(v)
    BY <1>2 DEF JoinWorkers, Posted, Streaming
  <2>2. QED
    BY <1>2, <2>1 DEF JoinWorkers, Handshake, Typed, WorkersOfSaver, BlockOfMain, PostsAwaited
<1>3. QED
  BY <1>1, <1>2 DEF SaverStep

LEMMA HandshakeWorker ==
    ASSUME Handshake, NEW w \in Workers, WorkerStep(w)
    PROVE  Handshake'
<1> USE DEF mainVars, workerVars, dbVars
<1>1. CASE PostCsv(w)
  <2>1. /\ worker[w] = "post" /\ worker' = [worker EXCEPT ![w] = "copy_inverse"]
        /\ csvs_written' = csvs_written + 1
        /\ UNCHANGED <<main, iteration, awaited, rib, saver, saving>>
        /\ csvs_written \in Nat /\ awaited \in Nat
    BY <1>1 DEF PostCsv, Handshake, Typed
  <2>2. main = "wait" /\ saver = "joining"
    BY <2>1 DEF Handshake, WorkersOfSaver, PostsAwaited, Streaming
  <2>3. \A v \in Workers : worker'[v] = IF v = w THEN "copy_inverse" ELSE worker[v]
    BY <2>1 DEF Handshake, Typed
  <2>4. w \notin Posted /\ Posted' = Posted \union {w}
    BY <2>1, <2>3 DEF Posted, PostedStates
  <2>5. Cardinality(Posted') = Cardinality(Posted) + 1
    BY <2>4, WorkersFinite, FS_AddElement
  <2>6. PostsAwaited'
    <3>1. awaited' + csvs_written' = Cardinality(Posted')
      BY <2>1, <2>2, <2>5, WorkersFinite DEF Handshake, PostsAwaited
    <3>2. QED
      BY <2>1, <2>2, <3>1 DEF PostsAwaited
  <2>7. Typed' /\ WorkersOfSaver' /\ BlockOfMain'
    BY <2>1, <2>2, <2>3 DEF Handshake, Typed, PostedStates, WorkersOfSaver, BlockOfMain
  <2>8. QED
    BY <2>6, <2>7 DEF Handshake
<1>2. CASE WorkerStart(w) \/ WriteResults(w) \/ WriteInverse(w) \/ WriteDepref(w)
  <2>1. PICK s \in {"results", "inverse", "depref", "post"} :
            /\ worker' = [worker EXCEPT ![w] = s]
            /\ worker[w] \in {"start", "results", "inverse", "depref"}
            /\ UNCHANGED <<main, iteration, awaited, rib, saver, saving, csvs_written>>
    BY <1>2 DEF WorkerStart, WriteResults, WriteInverse, WriteDepref
  <2>2. QED
    BY <2>1, WorkerMoves DEF StreamStates, PostedStates
<1>3. CASE CopyInverse(w) \/ CopyResults(w) \/ CopyDepref(w) \/ WriteFullPath(w)
           \/ CopyFullPath(w) \/ WorkerEnd(w)
  <2>1. PICK s \in PostedStates :
            /\ worker' = [worker EXCEPT ![w] = s]
            /\ worker[w] \in PostedStates \ {"ended"}
            /\ UNCHANGED <<main, iteration, awaited, rib, saver, saving, csvs_written>>
    BY <1>3 DEF CopyInverse, CopyResults, CopyDepref, WriteFullPath, CopyFullPath,
                WorkerEnd, CopyToDb, PostedStates
  <2>2. QED
    BY <2>1, WorkerMoves DEF StreamStates, PostedStates
<1>4. QED
  BY <1>1, <1>2, <1>3 DEF WorkerStep

LEMMA HandshakeStep ==
    ASSUME Handshake, [Next]_vars
    PROVE  Handshake'
<1>1. CASE UNCHANGED vars
  BY <1>1 DEF vars, mainVars, workerVars, Handshake, Typed, WorkersOfSaver, BlockOfMain,
              PostsAwaited, Posted, Streaming
<1>2. QED
  BY <1>1, HandshakeMain, HandshakeSaver, HandshakeWorker DEF Next

(***************************************************************************)
(* With any number of workers, main neither clears nor propagates while a  *)
(* worker streams: the posts and waits of csvs_written are as many as the  *)
(* workers, none of a block is left over for the next.                     *)
(***************************************************************************)
THEOREM StreamsAreUndisturbed == Spec => []StreamsUndisturbed
<1>1. Handshake => StreamsUndisturbed
  <2> SUFFICES ASSUME Handshake, NEW w \in Workers, Streaming(w)
               PROVE  main = "wait" /\ rib = saving
    BY DEF StreamsUndisturbed
  <2>1. QED
    BY DEF Handshake, PostsAwaited, BlockOfMain
<1>2. QED
  BY <1>1, HandshakeInit, HandshakeStep, PTL DEF Spec

-----------------------------------------------------------------------------
(***************************************************************************)
(* Rows and files.                                                         *)
(***************************************************************************)
\* Where a worker is while its file of one kind exists.
HasFile(kind, s) ==
    \/ kind = "results" /\ s \in {"inverse", "depref", "post", "copy_inverse", "copy_results"}
    \/ kind = "inverse" /\ s \in {"depref", "post", "copy_inverse"}
    \/ kind = "depref"  /\ s \in {"post", "copy_inverse", "copy_results", "copy_depref"}
    \/ kind = "full"    /\ s = "copy_full_path"

FilesOfWorkers ==
    \A r \in csv : /\ r.thread \in Workers /\ r.iteration = saving
                   /\ r.kind \in stores \union {"full"}
                   /\ HasFile(r.kind, worker[r.thread])

OwnBlocks ==
    \A r \in csv \union table \union refused : r.kind # "full" => r.block = r.iteration

Files == FilesOfWorkers /\ OwnBlocks

LEMMA StreamedRows ==
    ASSUME NEW w, NEW kind, NEW n, NEW r \in Stream(w, kind, n)
    PROVE  /\ r = [kind |-> kind, iteration |-> saving, thread |-> w, block |-> rib,
                   item |-> r.item]
           /\ r.item \in Share(w, n)
           /\ r.kind = kind /\ r.iteration = saving /\ r.thread = w /\ r.block = rib
BY DEF Stream

\* Without a worker at work there is no file.
LEMMA NoFilesAtRest ==
    ASSUME Handshake, Files, saver # "joining"
    PROVE  csv = {}
BY DEF Handshake, WorkersOfSaver, Files, FilesOfWorkers, HasFile

\* A worker writes its file of a kind; but for full paths, main waits.
LEMMA FilesWritten ==
    ASSUME Handshake, Files, NEW w \in Workers,
           NEW kind \in stores \union {"full"}, kind = "full" \/ Streaming(w), NEW n, NEW s,
           worker' = [worker EXCEPT ![w] = s],
           csv' = csv \union Stream(w, kind, n),
           HasFile(kind, s),
           \A k \in stores \union {"full"} : HasFile(k, worker[w]) => HasFile(k, s),
           UNCHANGED <<stores, saving, rib, table, refused>>
    PROVE  Files'
<1>1. kind # "full" => rib = saving
  BY DEF Handshake, PostsAwaited, BlockOfMain
<1>2. \A v \in Workers : worker'[v] = IF v = w THEN s ELSE worker[v]
  BY DEF Handshake, Typed
<1>3. FilesOfWorkers'
  <2> SUFFICES ASSUME NEW r \in csv'
               PROVE  /\ r.thread \in Workers /\ r.iteration = saving
                      /\ r.kind \in stores \union {"full"}
                      /\ HasFile(r.kind, worker'[r.thread])
    BY DEF FilesOfWorkers, HasFile, Workers
  <2>1. CASE r \in csv
    BY <1>2, <2>1 DEF Files, FilesOfWorkers
  <2>2. CASE r \in Stream(w, kind, n)
    BY <1>2, <2>2, StreamedRows
  <2>3. QED
    BY <2>1, <2>2
<1>4. OwnBlocks'
  BY <1>1, StreamedRows DEF Files, OwnBlocks
<1>5. QED
  BY <1>3, <1>4 DEF Files

\* A worker moves on, with the files it has.
LEMMA FilesKept ==
    ASSUME Handshake, Files, NEW w \in Workers, NEW s,
           worker' = [worker EXCEPT ![w] = s],
           \A k \in stores \union {"full"} : HasFile(k, worker[w]) => HasFile(k, s),
           UNCHANGED <<stores, saving, csv, table, refused>>
    PROVE  Files'
<1>1. \A v \in Workers : worker'[v] = IF v = w THEN s ELSE worker[v]
  BY DEF Handshake, Typed
<1>2. FilesOfWorkers'
  BY <1>1 DEF Files, FilesOfWorkers, HasFile, Workers
<1>3. QED
  BY <1>2 DEF Files, OwnBlocks

\* A worker removes its file of a kind, copied or not.
LEMMA FilesRemoved ==
    ASSUME Handshake, Files, NEW w \in Workers, NEW kind, NEW s,
           worker' = [worker EXCEPT ![w] = s],
           csv' = csv \ File(w, kind),
           table' \union refused' \subseteq table \union refused \union csv,
           \A k \in stores \union {"full"} :
               k # kind /\ HasFile(k, worker[w]) => HasFile(k, s),
           UNCHANGED <<stores, saving>>
    PROVE  Files'
<1>1. \A v \in Workers : worker'[v] = IF v = w THEN s ELSE worker[v]
  BY DEF Handshake, Typed
<1>2. FilesOfWorkers'
  <2> SUFFICES ASSUME NEW r \in csv'
               PROVE  /\ r.thread \in Workers /\ r.iteration = saving
                      /\ r.kind \in stores \union {"full"}
                      /\ HasFile(r.kind, worker'[r.thread])
    BY DEF FilesOfWorkers, HasFile, Workers
  <2>1. r \in csv /\ ~ (r.kind = kind /\ r.thread = w)
    BY DEF File, Files, FilesOfWorkers
  <2>2. QED
    BY <1>1, <2>1 DEF Files, FilesOfWorkers
<1>3. OwnBlocks'
  BY DEF Files, OwnBlocks
<1>4. QED
  BY <1>2, <1>3 DEF Files

\* A worker copies and removes its file of a kind, or has none.
CopiesFile(w, kind) ==
    \/ /\ csv' = csv \ File(w, kind)
       /\ \/ table' = table \union File(w, kind) /\ refused' = refused
          \/ refused' = refused \union File(w, kind) /\ table' = table
    \/ kind \notin stores \union {"full"} /\ UNCHANGED <<csv, table, refused>>

LEMMA Copying ==
    ASSUME NEW w, WorkerStep(w),
           NEW from \in {"copy_results", "copy_depref", "copy_full_path"}, worker[w] = from
    PROVE  \E to, kind :
               /\ \/ from = "copy_results" /\ to = "copy_depref" /\ kind = "results"
                  \/ from = "copy_depref" /\ to = "full_path" /\ kind = "depref"
                  \/ from = "copy_full_path" /\ to = "release" /\ kind = "full"
               /\ worker' = [worker EXCEPT ![w] = to]
               /\ CopiesFile(w, kind)
               /\ UNCHANGED <<stores, saving, counter, saver>>
<1> USE DEF mainVars, dbVars
<1>1. CASE from = "copy_results"
  <2>1. CopyResults(w)
    BY <1>1 DEF WorkerStep, WorkerStart, WriteResults, WriteInverse, WriteDepref, PostCsv,
                CopyInverse, CopyDepref, WriteFullPath, CopyFullPath, WorkerEnd, CopyToDb
  <2>2. /\ worker' = [worker EXCEPT ![w] = "copy_depref"] /\ CopiesFile(w, "results")
        /\ UNCHANGED <<stores, saving, counter, saver>>
    BY <2>1 DEF CopyResults, CopyToDb, CopiesFile
  <2>3. QED
    BY <1>1, <2>2
<1>2. CASE from = "copy_depref"
  <2>1. CopyDepref(w)
    BY <1>2 DEF WorkerStep, WorkerStart, WriteResults, WriteInverse, WriteDepref, PostCsv,
                CopyInverse, CopyResults, WriteFullPath, CopyFullPath, WorkerEnd, CopyToDb
  <2>2. /\ worker' = [worker EXCEPT ![w] = "full_path"] /\ CopiesFile(w, "depref")
        /\ UNCHANGED <<stores, saving, counter, saver>>
    BY <2>1 DEF CopyDepref, CopyToDb, CopiesFile
  <2>3. QED
    BY <1>2, <2>2
<1>3. CASE from = "copy_full_path"
  <2>1. CopyFullPath(w)
    BY <1>3 DEF WorkerStep, WorkerStart, WriteResults, WriteInverse, WriteDepref, PostCsv,
                CopyInverse, CopyResults, CopyDepref, WriteFullPath, WorkerEnd, CopyToDb
  <2>2. /\ worker' = [worker EXCEPT ![w] = "release"] /\ CopiesFile(w, "full")
        /\ UNCHANGED <<stores, saving, counter, saver>>
    BY <2>1 DEF CopyFullPath, CopyToDb, CopiesFile
  <2>3. QED
    BY <1>3, <2>2
<1>4. QED
  BY <1>1, <1>2, <1>3

\* Such a step keeps the files of the others in order.
LEMMA FilesCopied ==
    ASSUME Handshake, Files, NEW w \in Workers, WorkerStep(w),
           worker[w] \in {"copy_results", "copy_depref", "copy_full_path"}
    PROVE  Files'
<1>1. PICK to, kind :
          /\ \/ worker[w] = "copy_results" /\ to = "copy_depref" /\ kind = "results"
             \/ worker[w] = "copy_depref" /\ to = "full_path" /\ kind = "depref"
             \/ worker[w] = "copy_full_path" /\ to = "release" /\ kind = "full"
          /\ worker' = [worker EXCEPT ![w] = to]
          /\ CopiesFile(w, kind)
          /\ UNCHANGED <<stores, saving, counter, saver>>
  BY Copying
<1>2. \A k \in stores \union {"full"} : k # kind /\ HasFile(k, worker[w]) => HasFile(k, to)
  BY <1>1 DEF HasFile
<1>3. CASE UNCHANGED <<csv, table, refused>> /\ kind \notin stores \union {"full"}
  BY <1>1, <1>2, <1>3, FilesKept
<1>4. CASE csv' = csv \ File(w, kind)
           /\ table' \union refused' = table \union refused \union File(w, kind)
  <2>1. table' \union refused' \subseteq table \union refused \union csv
    BY <1>4 DEF File
  <2>2. QED
    BY <1>1, <1>2, <1>4, <2>1, FilesRemoved
<1>5. QED
  BY <1>1, <1>3, <1>4 DEF CopiesFile

LEMMA FilesStep ==
    ASSUME Handshake, Files, [Next]_vars
    PROVE  Files'
<1> USE DEF mainVars, workerVars, dbVars
<1>1. CASE StartSaver
  <2>1. csv = {}
    BY <1>1, NoFilesAtRest DEF StartSaver, Handshake, BlockOfMain
  <2>2. QED
    BY <1>1, <2>1 DEF StartSaver, Files, FilesOfWorkers, OwnBlocks
<1>2. CASE SelectBlock \/ NoMoreBlocks \/ Propagate \/ JoinPrevious \/ WaitCsv
           \/ ClearAnnouncements \/ JoinLast \/ JoinWorkers \/ UNCHANGED vars
  <2>1. UNCHANGED <<stores, worker, saving, csv, table, refused>>
    BY <1>2 DEF SelectBlock, NoMoreBlocks, Propagate, JoinPrevious, WaitCsv,
                ClearAnnouncements, JoinLast, JoinSaver, JoinWorkers, vars
  <2>2. QED
    BY <2>1 DEF Files, FilesOfWorkers, OwnBlocks, HasFile, Workers
<1>3. CASE SpawnWorkers
  <2>1. csv = {}
    BY <1>3, NoFilesAtRest DEF SpawnWorkers
  <2>2. QED
    BY <1>3, <2>1 DEF SpawnWorkers, Files, FilesOfWorkers, OwnBlocks
<1>4. ASSUME NEW w \in Workers, WorkerStep(w) PROVE Files'
  <2>1. CASE WorkerStart(w) \/ PostCsv(w) \/ WorkerEnd(w)
    <3>1. PICK t \in {"results", "copy_inverse", "ended"} :
              /\ worker' = [worker EXCEPT ![w] = t]
              /\ worker[w] = IF t = "results" THEN "start"
                             ELSE IF t = "ended" THEN "release" ELSE "post"
              /\ UNCHANGED <<stores, saving, csv, table, refused>>
      BY <2>1 DEF WorkerStart, PostCsv, WorkerEnd
    <3>2. QED
      BY <3>1, FilesKept DEF HasFile
  <2>2. CASE WriteResults(w)
    <3>1. CASE "results" \in stores
      BY <2>2, <3>1, FilesWritten DEF WriteResults, HasFile, Streaming
    <3>2. CASE "results" \notin stores
      BY <2>2, <3>2, FilesKept DEF WriteResults, HasFile
    <3>3. QED
      BY <3>1, <3>2
  <2>3. CASE WriteInverse(w)
    <3>1. CASE "inverse" \in stores
      BY <2>3, <3>1, FilesWritten DEF WriteInverse, HasFile, Streaming
    <3>2. CASE "inverse" \notin stores
      BY <2>3, <3>2, FilesKept DEF WriteInverse, HasFile
    <3>3. QED
      BY <3>1, <3>2
  <2>4. CASE WriteDepref(w)
    <3>1. CASE "depref" \in stores
      BY <2>4, <3>1, FilesWritten DEF WriteDepref, HasFile, Streaming
    <3>2. CASE "depref" \notin stores
      BY <2>4, <3>2, FilesKept DEF WriteDepref, HasFile
    <3>3. QED
      BY <3>1, <3>2
  <2>5. CASE WriteFullPath(w)
    <3>1. CASE Share(w, NumFullPath) # {}
      BY <2>5, <3>1, FilesWritten DEF WriteFullPath, HasFile
    <3>2. CASE Share(w, NumFullPath) = {}
      BY <2>5, <3>2, FilesKept DEF WriteFullPath, HasFile
    <3>3. QED
      BY <3>1, <3>2
  <2>6. CASE CopyInverse(w)
    <3>1. CASE "inverse" \in stores
      BY <2>6, <3>1, FilesRemoved DEF CopyInverse, HasFile
    <3>2. CASE "inverse" \notin stores
      BY <2>6, <3>2, FilesKept DEF CopyInverse, HasFile
    <3>3. QED
      BY <3>1, <3>2
  <2>7. CASE CopyResults(w) \/ CopyDepref(w) \/ CopyFullPath(w)
    BY <1>4, <2>7, FilesCopied DEF CopyResults, CopyDepref, CopyFullPath, CopyToDb
  <2>8. QED
    BY <1>4, <2>1, <2>2, <2>3, <2>4, <2>5, <2>6, <2>7 DEF WorkerStep
<1>5. QED
  BY <1>1, <1>2, <1>3, <1>4 DEF Next, MainStep, SaverStep

(***************************************************************************)
(* Every row is of the block it is saved for, whatever happens meanwhile,  *)
(* and no file outlives the iteration it was written in.                   *)
(***************************************************************************)
THEOREM RowsAreOfTheirBlock == Spec => []RowsOfOwnBlock
<1>1. Init => Handshake /\ Files
  BY HandshakeInit DEF Init, Files, FilesOfWorkers, OwnBlocks
<1>2. Handshake /\ Files /\ [Next]_vars => (Handshake /\ Files)'
  BY HandshakeStep, FilesStep
<1>3. Files => RowsOfOwnBlock
  BY DEF Files, FilesOfWorkers, OwnBlocks, RowsOfOwnBlock
<1>4. QED
  BY <1>1, <1>2, <1>3, PTL DEF Spec

-----------------------------------------------------------------------------
(***************************************************************************)
(* The shares of the workers.                                              *)
(***************************************************************************)
\* To leave no remainder is to be a multiple.
LEMMA Multiple ==
    ASSUME NEW m \in Nat \ {0}, NEW y \in Nat
    PROVE  y % m = 0 <=> \E q \in Int : y = m * q
<1>1. PICK d \in Int, e \in 0..(m - 1) : y = m * d + e /\ y \div m = d /\ y % m = e
  <2>1. /\ y = m * (y \div m) + (y % m) /\ y \div m \in Int /\ y % m \in 0..(m - 1)
    OBVIOUS
  <2>2. QED
    BY <2>1
<1>2. QED
  <2>1. y % m = 0 => \E q \in Int : y = m * q
    <3>1. y % m = 0 => y = m * d
      BY <1>1
    <3>2. QED
      BY <3>1
  <2>2. ASSUME NEW q \in Int, y = m * q PROVE y % m = 0
    <3>1. m * (q - d) = e
      BY <1>1, <2>2
    <3>2. q - d > 0 => m * (q - d) >= m
      BY <1>1
    <3>3. q - d < 0 => m * (q - d) < 0
      BY <1>1
    <3>4. QED
      BY <1>1, <3>1, <3>2, <3>3
  <2>3. QED
    BY <2>1, <2>2

\* Of m numbers in a row exactly one makes the sum with x a multiple of m.
LEMMA OneMultiple ==
    ASSUME NEW m \in Nat \ {0}, NEW x \in Nat
    PROVE  \E w \in 0..(m - 1) : \A v \in 0..(m - 1) : (v + x) % m = 0 <=> v = w
<1>1. PICK d \in Int, e \in 0..(m - 1) : x = m * d + e
  <2>1. /\ x = m * (x \div m) + (x % m) /\ x \div m \in Int /\ x % m \in 0..(m - 1)
    OBVIOUS
  <2>2. QED
    BY <2>1
<1> DEFINE w == IF e = 0 THEN 0 ELSE m - e
<1>2. w \in 0..(m - 1)
  BY <1>1
<1>3. (w + x) % m = 0
  <2>1. CASE e = 0
    <3>1. w + x = m * d /\ w + x \in Nat
      BY <1>1, <2>1
    <3>2. QED
      BY <3>1, Multiple
  <2>2. CASE e # 0
    <3>1. w + x = m * (d + 1) /\ w + x \in Nat /\ d + 1 \in Int
      BY <1>1, <2>2
    <3>2. QED
      BY <3>1, Multiple
  <2>3. QED
    BY <2>1, <2>2
<1>4. ASSUME NEW v \in 0..(m - 1), (v + x) % m = 0 PROVE v = w
  <2>1. PICK q \in Int : v + x = m * q
    BY <1>4, Multiple
  <2>2. PICK p \in Int : w + x = m * p
    BY <1>2, <1>3, Multiple
  <2>3. v - w = m * (q - p)
    BY <1>2, <2>1, <2>2
  <2>4. v - w > 0 - m /\ v - w < m
    BY <1>2
  <2>5. q - p > 0 => m * (q - p) >= m
    OBVIOUS
  <2>6. q - p < 0 => m * (q - p) <= 0 - m
    OBVIOUS
  <2>7. q - p = 0
    BY <2>3, <2>4, <2>5, <2>6
  <2>8. QED
    BY <1>2, <2>3, <2>7
<1>5. QED
  BY <1>2, <1>3, <1>4

Tabled == {"results", "depref"}

\* What the loops before the one of a kind add to the counter.
ResultsMove == IF "results" \in stores THEN NumASes ELSE 0
DeprefMove  == ResultsMove + (IF "inverse" \in stores THEN NumPairs ELSE NumASes)
MoveBefore(kind) == IF kind = "results" THEN 0 ELSE DeprefMove

\* The ASes worker w writes, and its row of one of them.
Chosen(kind, w) ==
    {k \in 0..(NumASes - 1) : (w + MoveBefore(kind) + k) % MaxWorkers = 0}
Row(kind, i, w, k) ==
    [kind |-> kind, iteration |-> i, thread |-> w, block |-> i, item |-> k]

Counters ==
    /\ counter \in [Workers -> Nat]
    /\ \A w \in Workers :
        /\ worker[w] \in {"start", "results"} => counter[w] = w
        /\ worker[w] = "inverse" => counter[w] = w + ResultsMove
        /\ worker[w] = "depref" => counter[w] = w + DeprefMove

(***************************************************************************)
(* The iteration main is at is the one that is saved, or the one behind.   *)
(***************************************************************************)
Progress ==
    main \notin {"wait", "clear"} =>
        \/ iteration = saving + 1 /\ \A w \in Workers : worker[w] # "none"
        \/ iteration = 0 /\ saving = 0 /\ \A w \in Workers : worker[w] = "none"

\* Worker w has written its file of a kind for iteration i.
Wrote(kind, s) ==
    \/ kind = "results" /\ s \in {"inverse", "depref", "post"} \union PostedStates
    \/ kind = "depref"  /\ s \in {"post"} \union PostedStates

Written(kind, i, w) ==
    i < saving \/ (i = saving /\ saver # "spawn" /\ Wrote(kind, worker[w]))

AllRows == csv \union table \union refused

Sound ==
    \A r \in AllRows : r.kind \in Tabled =>
        /\ r.thread \in Workers /\ r.item \in Chosen(r.kind, r.thread)
        /\ r = Row(r.kind, r.iteration, r.thread, r.item)

Complete ==
    \A kind \in Tabled \intersect stores : \A i \in Nat : \A w \in Workers :
        Written(kind, i, w) => \A k \in Chosen(kind, w) : Row(kind, i, w, k) \in AllRows

Shares == Counters /\ Progress /\ Sound /\ Complete

-----------------------------------------------------------------------------
LEMMA SharesInit == Init => Shares
BY SaveResultsAssumption
   DEF Init, Shares, Counters, Progress, Sound, Complete, Written, Wrote, PostedStates, AllRows

\* What a step of a worker to the place t does to its counter.
Moved(w, t) ==
    /\ worker' = [worker EXCEPT ![w] = t]
    /\ \/ /\ worker[w] = "start" /\ t = "results"
          /\ counter'[w] = counter[w]
       \/ /\ worker[w] = "results" /\ t = "inverse"
          /\ counter'[w] = counter[w] + ResultsMove
       \/ /\ worker[w] = "inverse" /\ t = "depref"
          /\ counter'[w] = counter[w] + (IF "inverse" \in stores THEN NumPairs ELSE NumASes)
       \/ /\ worker[w] \in {"depref", "post"} \union PostedStates
          /\ t \in {"post"} \union PostedStates

LEMMA WorkerEffect ==
    ASSUME Counters, NEW w \in Workers, WorkerStep(w)
    PROVE  /\ worker[w] \notin {"none", "ended"}
           /\ UNCHANGED <<stores, main, iteration, rib, saver, saving>>
           /\ counter' \in [Workers -> Nat]
           /\ \A v \in Workers : v # w => counter'[v] = counter[v]
           /\ \E t : Moved(w, t)
<1> USE SaveResultsAssumption DEF mainVars, workerVars, dbVars
<1>1. CASE WorkerStart(w)
  <2>1. Moved(w, "results")
    BY <1>1 DEF WorkerStart, Moved
  <2>2. QED
    BY <1>1, <2>1 DEF WorkerStart, Counters
<1>2. CASE WriteResults(w)
  <2>1. \/ counter' = [counter EXCEPT ![w] = @ + ResultsMove]
        \/ ResultsMove = 0 /\ counter' = counter
    BY <1>2 DEF WriteResults, ResultsMove
  <2>2. ResultsMove \in Nat
    BY DEF ResultsMove
  <2>3. /\ counter' \in [Workers -> Nat]
        /\ counter'[w] = counter[w] + ResultsMove
        /\ \A v \in Workers : v # w => counter'[v] = counter[v]
    BY <2>1, <2>2 DEF Counters
  <2>4. /\ worker[w] = "results" /\ worker' = [worker EXCEPT ![w] = "inverse"]
        /\ UNCHANGED <<stores, main, iteration, rib, saver, saving>>
    BY <1>2 DEF WriteResults
  <2>5. Moved(w, "inverse")
    BY <2>3, <2>4 DEF Moved
  <2>6. QED
    BY <2>3, <2>4, <2>5
<1>3. CASE WriteInverse(w)
  <2> DEFINE n == IF "inverse" \in stores THEN NumPairs ELSE NumASes
  <2>1. counter' = [counter EXCEPT ![w] = @ + n]
    BY <1>3 DEF WriteInverse
  <2>2. n \in Nat
    OBVIOUS
  <2>3. /\ counter' \in [Workers -> Nat]
        /\ counter'[w] = counter[w] + n
        /\ \A v \in Workers : v # w => counter'[v] = counter[v]
    <3> HIDE DEF n
    <3>1. QED
      BY <2>1, <2>2 DEF Counters
  <2>4. /\ worker[w] = "inverse" /\ worker' = [worker EXCEPT ![w] = "depref"]
        /\ UNCHANGED <<stores, main, iteration, rib, saver, saving>>
    BY <1>3 DEF WriteInverse
  <2>5. Moved(w, "depref")
    BY <2>3, <2>4 DEF Moved
  <2>6. QED
    BY <2>3, <2>4, <2>5
<1>4. CASE WriteDepref(w)
  <2>1. counter' = [counter EXCEPT ![w] = @ + NumASes] \/ counter' = counter
    BY <1>4 DEF WriteDepref
  <2>2. /\ counter' \in [Workers -> Nat]
        /\ \A v \in Workers : v # w => counter'[v] = counter[v]
    BY <2>1 DEF Counters
  <2>3. /\ worker[w] = "depref" /\ worker' = [worker EXCEPT ![w] = "post"]
        /\ UNCHANGED <<stores, main, iteration, rib, saver, saving>>
    BY <1>4 DEF WriteDepref
  <2>4. Moved(w, "post")
    BY <2>3 DEF Moved
  <2>5. QED
    BY <2>2, <2>3, <2>4
<1>5. CASE WriteFullPath(w)
  <2>1. counter' = [counter EXCEPT ![w] = @ + NumFullPath]
    BY <1>5 DEF WriteFullPath
  <2>2. /\ counter' \in [Workers -> Nat]
        /\ \A v \in Workers : v # w => counter'[v] = counter[v]
    BY <2>1 DEF Counters
  <2>3. /\ worker[w] = "full_path"
        /\ \/ worker' = [worker EXCEPT ![w] = "release"]
           \/ worker' = [worker EXCEPT ![w] = "copy_full_path"]
        /\ UNCHANGED <<stores, main, iteration, rib, saver, saving>>
    BY <1>5 DEF WriteFullPath
  <2>4. Moved(w, "release") \/ Moved(w, "copy_full_path")
    BY <2>3 DEF Moved, PostedStates
  <2>5. QED
    BY <2>2, <2>3, <2>4
<1>6. CASE PostCsv(w) \/ CopyInverse(w) \/ WorkerEnd(w)
  <2>1. \/ Moved(w, "copy_inverse") \/ Moved(w, "copy_results") \/ Moved(w, "ended")
    BY <1>6 DEF PostCsv, CopyInverse, WorkerEnd, Moved, PostedStates
  <2>2. QED
    BY <1>6, <2>1 DEF PostCsv, CopyInverse, WorkerEnd, Counters
<1>7. CASE CopyResults(w) \/ CopyDepref(w) \/ CopyFullPath(w)
  <2>1. \/ Moved(w, "copy_depref") \/ Moved(w, "full_path") \/ Moved(w, "release")
    BY <1>7 DEF CopyResults, CopyDepref, CopyFullPath, CopyToDb, Moved, PostedStates
  <2>2. QED
    BY <1>7, <2>1 DEF CopyResults, CopyDepref, CopyFullPath, CopyToDb, Counters
<1>8. QED
  BY <1>1, <1>2, <1>3, <1>4, <1>5, <1>6, <1>7 DEF WorkerStep

LEMMA CountersStep ==
    ASSUME Handshake, Counters, [Next]_vars
    PROVE  Counters'
<1> USE DEF mainVars, workerVars, dbVars
<1>1. CASE SpawnWorkers
  <2>1. Workers \subseteq Nat
    BY SaveResultsAssumption DEF Workers
  <2>2. QED
    BY <1>1, <2>1 DEF SpawnWorkers, Counters
<1>2. CASE MainStep \/ JoinWorkers \/ UNCHANGED vars
  <2>1. UNCHANGED <<stores, worker, counter>>
    BY <1>2 DEF MainStep, SelectBlock, NoMoreBlocks, Propagate, JoinPrevious, StartSaver, WaitCsv,
                ClearAnnouncements, JoinLast, JoinSaver, JoinWorkers, vars
  <2>2. QED
    BY <2>1 DEF Counters, ResultsMove, DeprefMove
<1>3. ASSUME NEW w \in Workers, WorkerStep(w) PROVE Counters'
  <2>1. PICK t : Moved(w, t)
    BY <1>3, WorkerEffect
  <2>2. /\ UNCHANGED stores /\ counter' \in [Workers -> Nat]
        /\ \A v \in Workers : v # w => counter'[v] = counter[v]
    BY <1>3, WorkerEffect
  <2>3. \A v \in Workers : worker'[v] = IF v = w THEN t ELSE worker[v]
    BY <2>1 DEF Handshake, Typed, Moved
  <2>4. ResultsMove' = ResultsMove /\ DeprefMove' = DeprefMove
    BY <2>2 DEF ResultsMove, DeprefMove
  <2>5. \A v \in Workers \ {w} :
            /\ worker'[v] \in {"start", "results"} => counter'[v] = v
            /\ worker'[v] = "inverse" => counter'[v] = v + ResultsMove
            /\ worker'[v] = "depref" => counter'[v] = v + DeprefMove
    BY <2>2, <2>3 DEF Counters
  <2>6. /\ worker'[w] \in {"start", "results"} => counter'[w] = w
        /\ worker'[w] = "inverse" => counter'[w] = w + ResultsMove
        /\ worker'[w] = "depref" => counter'[w] = w + DeprefMove
    <3>1. w \in Int /\ ResultsMove \in Int
      BY SaveResultsAssumption DEF Workers, ResultsMove
    <3>2. QED
      BY <2>1, <2>3, <3>1, SaveResultsAssumption DEF Counters, DeprefMove, PostedStates, Moved
  <2>7. QED
    BY <2>2, <2>4, <2>5, <2>6 DEF Counters
<1>4. QED
  BY <1>1, <1>2, <1>3 DEF Next, SaverStep

LEMMA ProgressStep ==
    ASSUME Handshake, Counters, Progress, [Next]_vars
    PROVE  Progress'
<1> USE DEF mainVars, workerVars, dbVars
<1>1. CASE MainStep
  BY <1>1 DEF MainStep, SelectBlock, NoMoreBlocks, Propagate, JoinPrevious, StartSaver, WaitCsv,
              ClearAnnouncements, JoinLast, JoinSaver, Progress, Handshake, Typed,
              WorkersOfSaver, BlockOfMain
<1>2. CASE SaverStep
  BY <1>2 DEF SaverStep, SpawnWorkers, JoinWorkers, Progress, Handshake, BlockOfMain
<1>3. ASSUME NEW w \in Workers, WorkerStep(w) PROVE Progress'
  <2>1. PICK t : worker' = [worker EXCEPT ![w] = t] /\ t # "none"
    BY <1>3, WorkerEffect DEF PostedStates, Moved
  <2>2. worker[w] # "none" /\ UNCHANGED <<main, iteration, saving>>
    BY <1>3, WorkerEffect
  <2>3. \A v \in Workers : worker'[v] = IF v = w THEN t ELSE worker[v]
    BY <2>1 DEF Handshake, Typed
  <2>4. QED
    BY <2>1, <2>2, <2>3 DEF Progress
<1>4. CASE UNCHANGED vars
  BY <1>4 DEF vars, Progress
<1>5. QED
  BY <1>1, <1>2, <1>3, <1>4 DEF Next

-----------------------------------------------------------------------------
(***************************************************************************)
(* The rows of the results and second-best files.                          *)
(***************************************************************************)
\* What worker w streams of a kind is its row of each AS it has to write.
LEMMA TabledStream ==
    ASSUME Handshake, Counters, NEW w \in Workers, NEW kind \in Tabled, worker[w] = kind
    PROVE  Stream(w, kind, NumASes) = {Row(kind, saving, w, k) : k \in Chosen(kind, w)}
<1>1. rib = saving /\ saving \in Nat
  BY DEF Handshake, Typed, PostsAwaited, BlockOfMain, Streaming, Tabled
<1>2. Share(w, NumASes) = Chosen(kind, w)
  <2>1. counter[w] = w + MoveBefore(kind)
    <3>1. kind = "results" => counter[w] = w /\ MoveBefore(kind) = 0
      BY DEF Counters, MoveBefore
    <3>2. kind = "depref" => counter[w] = w + DeprefMove /\ MoveBefore(kind) = DeprefMove
      BY DEF Counters, MoveBefore
    <3>3. w + 0 = w
      BY SaveResultsAssumption DEF Workers
    <3>4. QED
      BY <3>1, <3>2, <3>3 DEF Tabled
  <2>2. QED
    BY <2>1 DEF Share, Chosen
<1>3. rib # NoBlock
  BY <1>1 DEF NoBlock
<1>4. Stream(w, kind, NumASes) =
          [kind : {kind}, iteration : {saving}, thread : {w}, block : {saving},
           item : Chosen(kind, w)]
  <2>1. Stream(w, kind, NumASes) =
            [kind : {kind}, iteration : {saving}, thread : {w}, block : {rib},
             item : Share(w, NumASes)]
    BY <1>3 DEF Stream
  <2>2. QED
    BY <1>1, <1>2, <2>1
<1>5. ASSUME NEW r \in Stream(w, kind, NumASes)
      PROVE  r = Row(kind, saving, w, r.item) /\ r.item \in Chosen(kind, w)
  BY <1>1, <1>2, StreamedRows DEF Row
<1>6. ASSUME NEW k \in Chosen(kind, w) PROVE Row(kind, saving, w, k) \in Stream(w, kind, NumASes)
  BY <1>4 DEF Row
<1>7. QED
  BY <1>5, <1>6

\* The rows worker w now writes for good.
Streamed(w) ==
    {r \in {Row(worker[w], saving, w, k) : k \in Chosen(worker[w], w)} :
        worker[w] \in Tabled \intersect stores}

\* A step of a worker adds what it streams and loses nothing else.
LEMMA RowsOfStep ==
    ASSUME Handshake, Counters, NEW w \in Workers, WorkerStep(w), NEW r, r.kind \in Tabled
    PROVE  r \in AllRows' <=> r \in AllRows \/ r \in Streamed(w)
<1> USE DEF mainVars, dbVars, Tabled
<1>1. CASE WorkerStart(w) \/ PostCsv(w) \/ WorkerEnd(w)
  BY <1>1 DEF WorkerStart, PostCsv, WorkerEnd, AllRows, Streamed
<1>2. CASE WriteResults(w)
  <2>1. CASE "results" \in stores
    <3>1. csv' = csv \union Streamed(w)
      BY <1>2, <2>1, TabledStream DEF WriteResults, Streamed
    <3>2. QED
      BY <1>2, <3>1 DEF WriteResults, AllRows
  <2>2. CASE "results" \notin stores
    BY <1>2, <2>2 DEF WriteResults, AllRows, Streamed
  <2>3. QED
    BY <2>1, <2>2
<1>3. CASE WriteDepref(w)
  <2>1. CASE "depref" \in stores
    <3>1. csv' = csv \union Streamed(w)
      BY <1>3, <2>1, TabledStream DEF WriteDepref, Streamed
    <3>2. QED
      BY <1>3, <3>1 DEF WriteDepref, AllRows
  <2>2. CASE "depref" \notin stores
    BY <1>3, <2>2 DEF WriteDepref, AllRows, Streamed
  <2>3. QED
    BY <2>1, <2>2
<1>4. CASE WriteInverse(w)
  <2>1. r \notin Stream(w, "inverse", NumPairs)
    BY DEF Stream
  <2>2. worker[w] = "inverse" /\ UNCHANGED <<table, refused>>
    BY <1>4 DEF WriteInverse
  <2>3. csv' = csv \/ csv' = csv \union Stream(w, "inverse", NumPairs)
    BY <1>4 DEF WriteInverse
  <2>4. QED
    BY <2>1, <2>2, <2>3 DEF AllRows, Streamed
<1>5. CASE WriteFullPath(w)
  <2>1. r \notin Stream(w, "full", NumFullPath)
    BY DEF Stream
  <2>2. worker[w] = "full_path" /\ UNCHANGED <<table, refused>>
    BY <1>5 DEF WriteFullPath
  <2>3. csv' = csv \/ csv' = csv \union Stream(w, "full", NumFullPath)
    BY <1>5 DEF WriteFullPath
  <2>4. QED
    BY <2>1, <2>2, <2>3 DEF AllRows, Streamed
<1>6. CASE CopyInverse(w)
  BY <1>6 DEF CopyInverse, File, AllRows, Streamed
<1>7. CASE CopyResults(w) \/ CopyDepref(w) \/ CopyFullPath(w)
  <2>1. AllRows' = AllRows
    BY <1>7 DEF CopyResults, CopyDepref, CopyFullPath, CopyToDb, File, AllRows
  <2>2. worker[w] \notin Tabled
    BY <1>7 DEF CopyResults, CopyDepref, CopyFullPath, CopyToDb
  <2>3. QED
    BY <2>1, <2>2 DEF Streamed
<1>8. QED
  BY <1>1, <1>2, <1>3, <1>4, <1>5, <1>6, <1>7 DEF WorkerStep

\* No one else touches a row.
LEMMA RowsOfOthers ==
    ASSUME MainStep \/ SaverStep \/ UNCHANGED vars
    PROVE  AllRows' = AllRows /\ stores' = stores
BY DEF MainStep, SelectBlock, NoMoreBlocks, Propagate, JoinPrevious, StartSaver, WaitCsv,
       ClearAnnouncements, JoinLast, JoinSaver, SaverStep, SpawnWorkers, JoinWorkers,
       mainVars, workerVars, dbVars, vars, AllRows

\* Which AS is whose depends on what is stored only.
LEMMA ChosenStays ==
    ASSUME stores' = stores
    PROVE  \A kind, w : Chosen(kind, w)' = Chosen(kind, w)
BY DEF Chosen, MoveBefore, DeprefMove, ResultsMove

LEMMA SoundStep ==
    ASSUME Handshake, Counters, Sound, [Next]_vars
    PROVE  Sound'
<1>1. CASE MainStep \/ SaverStep \/ UNCHANGED vars
  <2>1. AllRows' = AllRows /\ stores' = stores
    BY <1>1, RowsOfOthers
  <2>2. QED
    BY <2>1, ChosenStays DEF Sound, Row
<1>2. ASSUME NEW w \in Workers, WorkerStep(w) PROVE Sound'
  <2>1. stores' = stores
    BY <1>2, WorkerEffect
  <2>2. SUFFICES ASSUME NEW r \in AllRows', r.kind \in Tabled
                 PROVE  /\ r.thread \in Workers /\ r.item \in Chosen(r.kind, r.thread)
                        /\ r = Row(r.kind, r.iteration, r.thread, r.item)
    BY <2>1, ChosenStays DEF Sound, Row, Workers, Tabled
  <2>3. r \in AllRows \/ r \in Streamed(w)
    BY <1>2, <2>2, RowsOfStep
  <2>4. ASSUME r \in Streamed(w)
        PROVE  /\ r.thread \in Workers /\ r.item \in Chosen(r.kind, r.thread)
               /\ r = Row(r.kind, r.iteration, r.thread, r.item)
    <3>1. PICK k \in Chosen(worker[w], w) : r = Row(worker[w], saving, w, k)
      BY <2>4 DEF Streamed
    <3>2. r.kind = worker[w] /\ r.iteration = saving /\ r.thread = w /\ r.item = k
      BY <3>1 DEF Row
    <3>3. QED
      BY <3>1, <3>2
  <2>5. QED
    BY <2>2, <2>3, <2>4 DEF Sound
<1>3. QED
  BY <1>1, <1>2 DEF Next

\* The saver's main step: what it was given before is written.
LEMMA WrittenByOthers ==
    ASSUME Handshake, Progress, MainStep \/ SaverStep \/ UNCHANGED vars,
           NEW kind \in Tabled, NEW i \in Nat, NEW w \in Workers, Written(kind, i, w)'
    PROVE  Written(kind, i, w)
<1> USE DEF mainVars, workerVars, dbVars, Tabled
<1>1. CASE StartSaver
  <2>1. i < iteration /\ main = "start"
    BY <1>1 DEF StartSaver, Written
  <2>2. saver = "none" /\ worker[w] \in {"none", "ended"}
    BY <2>1 DEF Handshake, BlockOfMain, WorkersOfSaver
  <2>3. CASE iteration = saving + 1 /\ worker[w] # "none"
    BY <2>1, <2>2, <2>3 DEF Written, Wrote, PostedStates, Handshake, Typed
  <2>4. CASE iteration = 0
    BY <2>1, <2>4
  <2>5. QED
    BY <2>1, <2>3, <2>4 DEF Progress
<1>2. CASE SpawnWorkers
  <2>1. worker'[w] = "start" /\ saving' = saving
    BY <1>2 DEF SpawnWorkers
  <2>2. QED
    BY <2>1 DEF Written, Wrote, PostedStates
<1>3. CASE MainStep /\ ~ StartSaver
  <2>1. UNCHANGED <<saving, worker>> /\ (saver' = saver \/ saver \in {"none", "finished"})
    BY <1>3 DEF MainStep, SelectBlock, NoMoreBlocks, Propagate, JoinPrevious, WaitCsv,
                ClearAnnouncements, JoinLast, JoinSaver
  <2>2. QED
    BY <2>1 DEF Written, Wrote
<1>4. CASE JoinWorkers \/ UNCHANGED vars
  BY <1>4 DEF JoinWorkers, vars, Written, Wrote
<1>5. QED
  BY <1>1, <1>2, <1>3, <1>4 DEF SaverStep

LEMMA CompleteStep ==
    ASSUME Handshake, Counters, Progress, Complete, [Next]_vars
    PROVE  Complete'
<1>1. CASE MainStep \/ SaverStep \/ UNCHANGED vars
  <2>1. AllRows' = AllRows /\ stores' = stores
    BY <1>1, RowsOfOthers
  <2>2. SUFFICES ASSUME NEW kind \in Tabled \intersect stores, NEW i \in Nat,
                        NEW w \in Workers, Written(kind, i, w)'
                 PROVE  \A k \in Chosen(kind, w) : Row(kind, i, w, k) \in AllRows
    BY <2>1, ChosenStays DEF Complete, Row, Workers, Tabled
  <2>3. Written(kind, i, w)
    BY <1>1, <2>2, WrittenByOthers
  <2>4. QED
    BY <2>2, <2>3 DEF Complete
<1>2. ASSUME NEW v \in Workers, WorkerStep(v) PROVE Complete'
  <2>1. UNCHANGED <<stores, saver, saving>>
    BY <1>2, WorkerEffect
  <2>2. SUFFICES ASSUME NEW kind \in Tabled \intersect stores, NEW i \in Nat,
                        NEW w \in Workers, Written(kind, i, w)',
                        NEW k \in Chosen(kind, w)
                 PROVE  Row(kind, i, w, k) \in AllRows'
    BY <2>1, ChosenStays DEF Complete, Row, Workers, Tabled
  <2>3. Row(kind, i, w, k).kind \in Tabled
    BY DEF Row
  <2>4. CASE Written(kind, i, w)
    BY <1>2, <2>3, <2>4, RowsOfStep DEF Complete
  <2>5. CASE ~ Written(kind, i, w)
    <3>1. PICK t : Moved(v, t)
      BY <1>2, WorkerEffect
    <3>2. worker'[w] = IF w = v THEN t ELSE worker[w]
      BY <3>1 DEF Handshake, Typed, Moved
    <3>3. i = saving /\ Wrote(kind, worker'[w]) /\ ~ Wrote(kind, worker[w])
      BY <2>1, <2>2, <2>5 DEF Written, Wrote
    <3>4. w = v
      BY <3>2, <3>3
    <3>5. worker[w] = kind
      BY <3>1, <3>2, <3>3, <3>4 DEF Moved, Wrote, Tabled, PostedStates
    <3>6. Row(kind, i, w, k) \in Streamed(w)
      BY <2>2, <3>3, <3>5 DEF Streamed
    <3>7. QED
      BY <1>2, <2>3, <3>4, <3>6, RowsOfStep
  <2>6. QED
    BY <2>4, <2>5
<1>3. QED
  BY <1>1, <1>2 DEF Next

-----------------------------------------------------------------------------
\* When main is done, one worker has saved each AS in each block.
LEMMA SavedAtTheEnd ==
    ASSUME Handshake, Shares, main = "done", NEW kind \in Tabled \intersect stores, csv = {}
    PROVE  Saved(kind, NumASes)
<1>1. SUFFICES ASSUME NEW b \in 0..(iteration - 1), NEW k \in 0..(NumASes - 1)
               PROVE  Cardinality({r \in table \union refused :
                                      r.kind = kind /\ r.block = b /\ r.item = k}) = 1
  BY DEF Saved
<1>2. iteration = saving + 1 /\ \A w \in Workers : worker[w] = "ended" /\ saver = "none"
  <2>1. saver = "none" /\ \A w \in Workers : worker[w] \in {"none", "ended"}
    BY DEF Handshake, BlockOfMain, WorkersOfSaver
  <2>2. iteration # 0
    BY <1>1 DEF Handshake, Typed
  <2>3. QED
    BY <2>1, <2>2 DEF Shares, Progress
<1>3. \A w \in Workers : Written(kind, b, w)
  BY <1>1, <1>2 DEF Written, Wrote, PostedStates, Tabled, Handshake, Typed
<1>4. MoveBefore(kind) + k \in Nat
  BY SaveResultsAssumption DEF MoveBefore, DeprefMove, ResultsMove
<1>5. PICK w \in Workers :
          \A v \in Workers : (v + (MoveBefore(kind) + k)) % MaxWorkers = 0 <=> v = w
  BY <1>4, OneMultiple, SaveResultsAssumption DEF Workers
<1>6. \A v \in Workers : k \in Chosen(kind, v) <=> v = w
  <2>1. \A v \in Workers : v + MoveBefore(kind) + k = v + (MoveBefore(kind) + k)
    BY SaveResultsAssumption DEF Workers, MoveBefore, DeprefMove, ResultsMove
  <2>2. QED
    BY <1>5, <2>1 DEF Chosen
<1>7. {r \in table \union refused : r.kind = kind /\ r.block = b /\ r.item = k} =
          {Row(kind, b, w, k)}
  <2>1. Row(kind, b, w, k) \in table \union refused
    BY <1>1, <1>3, <1>6 DEF Shares, Complete, AllRows
  <2>2. ASSUME NEW r \in table \union refused, r.kind = kind, r.block = b, r.item = k
        PROVE  r = Row(kind, b, w, k)
    <3>1. r.thread \in Workers /\ k \in Chosen(kind, r.thread)
          /\ r = Row(kind, r.iteration, r.thread, k)
      BY <2>2 DEF Shares, Sound, AllRows
    <3>2. r.thread = w
      BY <1>6, <3>1
    <3>3. r.iteration = b
      BY <2>2, <3>1 DEF Row
    <3>4. QED
      BY <3>1, <3>2, <3>3
  <2>3. Row(kind, b, w, k).kind = kind /\ Row(kind, b, w, k).block = b
        /\ Row(kind, b, w, k).item = k
    BY DEF Row
  <2>4. QED
    BY <2>1, <2>2, <2>3
<1>8. QED
  BY <1>7, FS_Singleton

(***************************************************************************)
(* When the run is over, each AS of each block is once in the results and  *)
(* once in the second-best table, if they are stored and but for refused   *)
(* files, whatever else is stored; and no file is left.                    *)
(***************************************************************************)
THEOREM ResultsAreSaved == Spec => []ResultsSaved
<1>1. Init => Handshake /\ Files /\ Shares
  BY HandshakeInit, SharesInit DEF Init, Files, FilesOfWorkers, OwnBlocks
<1>2. Handshake /\ Files /\ Shares /\ [Next]_vars => (Handshake /\ Files /\ Shares)'
  BY HandshakeStep, FilesStep, CountersStep, ProgressStep, SoundStep, CompleteStep DEF Shares
<1>3. Handshake /\ Files /\ Shares => ResultsSaved
  <2> SUFFICES ASSUME Handshake, Files, Shares, main = "done"
               PROVE  /\ "results" \in stores => Saved("results", NumASes)
                      /\ "depref" \in stores  => Saved("depref", NumASes)
                      /\ csv = {}
    BY DEF ResultsSaved
  <2>1. csv = {}
    BY NoFilesAtRest DEF Handshake, BlockOfMain
  <2>2. QED
    BY <2>1, SavedAtTheEnd DEF Tabled
<1>4. QED
  BY <1>1, <1>2, <1>3, PTL DEF Spec

=============================================================================
