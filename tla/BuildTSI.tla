------------------------------ MODULE BuildTSI ------------------------------
(***************************************************************************)
(* The buildtsi index rebuild of one retention policy (src/unnamed/       *)
(* part_000, package buildtsi).                                            *)
(*                                                                         *)
(* processRetentionPolicy starts Concurrency worker goroutines that claim  *)
(* shards from a shared atomic cursor (maxi) and run IndexShard on each,   *)
(* sending one result per shard on the buffered channel errC.  The        *)
(* calling goroutine drains errC and returns at the first error; the       *)
(* deferred sfile.Close() of processDatabase then runs and the process     *)
(* exits.                                                                  *)
(*                                                                         *)
(* IndexShard is modelled step by step: the "index" existence check, the   *)
(* clean-up and open of the temporary ".index", the TSM files enumerated   *)
(* key by key into batches of BatchSize (IndexTSMFile), the WAL replayed   *)
(* into the cache whose keys are batched the same way, compaction and      *)
(* close, and the final rename of ".index" to "index".                     *)
(*                                                                         *)
(* Data is abstracted to series: a composite key stands for itself and    *)
(* SeriesOf gives the series key that SeriesAndFieldFromCompositeKey       *)
(* extracts.  The on-disk directories are sets of series.  Any I/O call    *)
(* may fail (bounded by MaxFailures) and the process may be killed at any  *)
(* point and re-run (bounded by MaxRuns); only the directories survive.    *)
(***************************************************************************)
EXTENDS Naturals, Sequences, FiniteSets, SequencesExt

CONSTANTS
    NumShards,     \* shard directories found by processRetentionPolicy
    Concurrency,   \* opt.concurrency, the number of worker goroutines
    BatchSize,     \* opt.batchSize
    Keys,          \* composite series+field keys
    Series,        \* series keys
    SeriesOf,      \* [Keys -> Series], SeriesAndFieldFromCompositeKey
    TSMFiles,      \* [Shards -> Seq([ok : BOOLEAN, keys : Seq(Keys)])]
    WAL,           \* [Shards -> SUBSET Keys \cup {NoWAL}], keys replayed from the WAL
    NoWAL,         \* the shard has no WAL directory
    Absent,        \* a directory that does not exist
    StatErrors,    \* whether os.Stat(indexPath) may fail with an error other than NotExist
    MaxFailures,   \* bound on injected I/O errors
    MaxRuns        \* bound on runs of the command (first run, crash re-runs, re-runs)

Shards == 1..NumShards
Workers == 1..Concurrency

ASSUME
    /\ NumShards \in Nat \ {0}
    /\ Concurrency \in Nat
    /\ BatchSize \in Nat \ {0}
    /\ SeriesOf \in [Keys -> Series]
    /\ \A s \in Shards : WAL[s] \in SUBSET Keys \cup {NoWAL}
    /\ MaxFailures \in Nat /\ MaxRuns \in Nat \ {0}

VARIABLES
    indexDir,   \* [Shards -> SUBSET Series \cup {Absent}]  <shard>/index
    tmpDir,     \* [Shards -> SUBSET Series \cup {Absent}]  <shard>/.index
    maxi,       \* the shared claim cursor of processRetentionPolicy
    errC,       \* the buffered result channel, a sequence of "ok" / "err"
    pc,         \* [Workers -> step of the worker]
    shard,      \* [Workers -> shard being indexed]
    fidx,       \* [Workers -> current TSM file]
    kidx,       \* [Workers -> current key of the file or of the cache]
    batch,      \* [Workers -> keysBatch, a sequence of series keys]
    drv,        \* the draining goroutine: "drain", "return", "closed", "exited"
    drained,    \* results received without error
    result,     \* what processRetentionPolicy returned
    sfileOpen,  \* the series file shared by all workers is open
    failures,   \* I/O errors injected so far
    runs        \* runs of the command so far

disk == <<indexDir, tmpDir>>
mem == <<maxi, errC, pc, shard, fidx, kidx, batch, drv, drained, result, sfileOpen>>
vars == <<disk, mem, failures, runs>>

Dir == SUBSET Series \cup {Absent}

\* The series a complete index of shard s holds: those of every TSM file that
\* parses, and those of every key replayed from the WAL into the cache.
TSMSeries(s) == UNION {{SeriesOf[f.keys[i]] : i \in DOMAIN f.keys} :
                        f \in {TSMFiles[s][j] : j \in {j \in DOMAIN TSMFiles[s] : TSMFiles[s][j].ok}}}
Expected(s) == TSMSeries(s) \cup (IF WAL[s] = NoWAL THEN {} ELSE {SeriesOf[k] : k \in WAL[s]})

\* cache.Keys(): the deduplicated keys of the replayed cache, in one fixed order.
CacheKeys(s) == SetToSeq(WAL[s])

\* The steps inside IndexShard, where the worker uses the series file.
InIndexShard == {"stat", "open", "collect", "tsmfile", "tsmkey", "tsmflush",
                 "wal", "cachekey", "cacheflush", "compact", "rename"}

----------------------------------------------------------------------------
\* The in-memory state of a fresh run of the command: run() opens the series
\* file, processRetentionPolicy creates errC, the cursor and the workers.
FreshMem == <<0, <<>>, [w \in Workers |-> "claim"], [w \in Workers |-> 1],
              [w \in Workers |-> 1], [w \in Workers |-> 1], [w \in Workers |-> <<>>],
              "drain", 0, "none", TRUE>>

FreshRun ==
    /\ maxi = FreshMem[1] /\ errC = FreshMem[2] /\ pc = FreshMem[3]
    /\ shard = FreshMem[4] /\ fidx = FreshMem[5] /\ kidx = FreshMem[6]
    /\ batch = FreshMem[7] /\ drv = FreshMem[8] /\ drained = FreshMem[9]
    /\ result = FreshMem[10] /\ sfileOpen = FreshMem[11]

Init ==
    \* a shard is either already indexed or has no index yet
    /\ indexDir \in {[s \in Shards |-> IF s \in B THEN Expected(s) ELSE Absent] :
                        B \in SUBSET Shards}
    /\ tmpDir = [s \in Shards |-> Absent]
    /\ FreshRun
    /\ failures = 0
    /\ runs = 1

Alive == drv # "exited"

\* The worker leaves IndexShard with result r and sends it on errC.
Send(w, r) ==
    /\ errC' = Append(errC, r)
    /\ pc' = [pc EXCEPT ![w] = "claim"]

\* An I/O call of IndexShard fails; IndexShard returns the error.
Fail(w) ==
    /\ failures < MaxFailures
    /\ failures' = failures + 1
    /\ Send(w, "err")

Goto(w, p) == pc' = [pc EXCEPT ![w] = p]

\* The worker loop: i := atomic.AddUint32(&maxi, 1) - 1; stop when i >= len(shards).
Claim(w) ==
    /\ pc[w] = "claim"
    /\ maxi' = maxi + 1
    /\ IF maxi >= NumShards
          THEN Goto(w, "exit") /\ UNCHANGED shard
          ELSE Goto(w, "stat") /\ shard' = [shard EXCEPT ![w] = maxi + 1]
    /\ UNCHANGED <<disk, errC, fidx, kidx, batch, failures>>

\* if _, err := os.Stat(indexPath); !os.IsNotExist(err) { return nil }
StatIndex(w) ==
    LET s == shard[w] IN
    /\ pc[w] = "stat"
    /\ \/ indexDir[s] # Absent /\ Send(w, "ok") /\ UNCHANGED failures
       \/ StatErrors /\ indexDir[s] = Absent
          /\ failures < MaxFailures /\ failures' = failures + 1
          /\ Send(w, "ok")
       \/ indexDir[s] = Absent /\ Goto(w, "open") /\ UNCHANGED <<errC, failures>>
    /\ UNCHANGED <<disk, maxi, shard, fidx, kidx, batch>>

\* os.RemoveAll(tmpPath), then tsi1.NewIndex(... WithPath(tmpPath)).Open().
OpenIndex(w) ==
    LET s == shard[w] IN
    /\ pc[w] = "open"
    /\ \/ tmpDir' = [tmpDir EXCEPT ![s] = {}] /\ Goto(w, "collect")
          /\ UNCHANGED <<errC, failures>>
       \/ Fail(w) /\ UNCHANGED tmpDir
    /\ UNCHANGED <<indexDir, maxi, shard, fidx, kidx, batch>>

\* tsmPaths, err := collectTSMFiles(dataDir)
CollectTSM(w) ==
    /\ pc[w] = "collect"
    /\ \/ Goto(w, "tsmfile") /\ fidx' = [fidx EXCEPT ![w] = 1]
          /\ UNCHANGED <<errC, failures>>
       \/ Fail(w) /\ UNCHANGED fidx
    /\ UNCHANGED <<disk, maxi, shard, kidx, batch>>

\* index.CreateSeriesListIfNotExists(keysBatch, ...): on success the batch is
\* in the temporary index and the worker goes on at step p; the call fails
\* on an I/O error or once the series file has been closed.
InsertBatch(w, b, p) ==
    \/ sfileOpen /\ tmpDir' = [tmpDir EXCEPT ![shard[w]] = @ \cup ToSet(b)]
       /\ Goto(w, p) /\ UNCHANGED <<errC, failures>>
    \/ ~sfileOpen /\ Send(w, "err") /\ UNCHANGED <<tmpDir, failures>>
    \/ Fail(w) /\ UNCHANGED tmpDir

\* Faulty variant: the batch is flushed only once it exceeds batchSize.
NextKey_flushLate(w, k) ==
    LET b == Append(batch[w], SeriesOf[k]) IN
    /\ kidx' = [kidx EXCEPT ![w] = @ + 1]
    /\ IF Len(b) > BatchSize
          THEN InsertBatch(w, b, pc[w]) /\ batch' = [batch EXCEPT ![w] = <<>>]
          ELSE batch' = [batch EXCEPT ![w] = b]
               /\ UNCHANGED <<tmpDir, errC, pc, failures>>

\* One iteration of the key loop: append the series of key k to keysBatch
\* and flush the batch when it holds batchSize series.
NextKey(w, k) ==
    LET b == Append(batch[w], SeriesOf[k]) IN
    /\ kidx' = [kidx EXCEPT ![w] = @ + 1]
    /\ IF Len(b) = BatchSize
          THEN InsertBatch(w, b, pc[w]) /\ batch' = [batch EXCEPT ![w] = <<>>]
          ELSE batch' = [batch EXCEPT ![w] = b]
               /\ UNCHANGED <<tmpDir, errC, pc, failures>>

\* Faulty variant: the series left in the batch after the loop are not flushed.
FlushRest_dropRest(w, p) ==
    Goto(w, p) /\ UNCHANGED <<tmpDir, errC, failures>>

\* After the loop: flush any remaining series in the batch, then go to p.
FlushRest(w, p) ==
    IF Len(batch[w]) > 0
       THEN InsertBatch(w, batch[w], p)
       ELSE Goto(w, p) /\ UNCHANGED <<tmpDir, errC, failures>>

\* IndexTSMFile(path): os.Open fails -> the error aborts the shard;
\* tsm1.NewTSMReader fails -> the file is skipped; otherwise its keys are
\* enumerated from the first one with an empty batch.
OpenTSMFile(w) ==
    LET files == TSMFiles[shard[w]] IN
    /\ pc[w] = "tsmfile"
    /\ \/ fidx[w] > Len(files) /\ Goto(w, "wal")
          /\ UNCHANGED <<fidx, kidx, batch, errC, failures>>
       \/ fidx[w] <= Len(files) /\ ~files[fidx[w]].ok
          /\ fidx' = [fidx EXCEPT ![w] = @ + 1]
          /\ UNCHANGED <<pc, kidx, batch, errC, failures>>
       \/ fidx[w] <= Len(files) /\ files[fidx[w]].ok /\ Goto(w, "tsmkey")
          /\ kidx' = [kidx EXCEPT ![w] = 1] /\ batch' = [batch EXCEPT ![w] = <<>>]
          /\ UNCHANGED <<fidx, errC, failures>>
       \/ fidx[w] <= Len(files) /\ Fail(w) /\ UNCHANGED <<fidx, kidx, batch>>
    /\ UNCHANGED <<disk, maxi, shard>>

\* for i := 0; i < r.KeyCount(); i++ { key, _ := r.KeyAt(i); ... }
TSMKey(w) ==
    LET keys == TSMFiles[shard[w]][fidx[w]].keys IN
    /\ pc[w] = "tsmkey"
    /\ \/ kidx[w] > Len(keys) /\ Goto(w, "tsmflush")
          /\ UNCHANGED <<tmpDir, kidx, batch, errC, failures>>
       \/ kidx[w] <= Len(keys) /\ NextKey(w, keys[kidx[w]])
    /\ UNCHANGED <<indexDir, maxi, shard, fidx>>

\* The final flush of IndexTSMFile; the loop over tsmPaths moves on.
TSMFlush(w) ==
    /\ pc[w] = "tsmflush"
    /\ FlushRest(w, "tsmfile")
    /\ fidx' = [fidx EXCEPT ![w] = @ + 1]
    /\ UNCHANGED <<indexDir, maxi, shard, kidx, batch>>

\* walPaths, err := collectWALFiles(walDir): a missing WAL directory is no
\* unflushed data; otherwise NewCache + CacheLoader.Load, and the cache keys
\* are enumerated from the first one with an empty batch.
CollectWAL(w) ==
    LET s == shard[w] IN
    /\ pc[w] = "wal"
    /\ \/ WAL[s] = NoWAL /\ Goto(w, "compact") /\ UNCHANGED <<kidx, batch, errC, failures>>
       \/ WAL[s] # NoWAL /\ Goto(w, "cachekey")
          /\ kidx' = [kidx EXCEPT ![w] = 1] /\ batch' = [batch EXCEPT ![w] = <<>>]
          /\ UNCHANGED <<errC, failures>>
       \/ WAL[s] # NoWAL /\ Fail(w) /\ UNCHANGED <<kidx, batch>>
    /\ UNCHANGED <<disk, maxi, shard, fidx>>

\* for _, key := range cache.Keys() { ... }
CacheKey(w) ==
    LET keys == CacheKeys(shard[w]) IN
    /\ pc[w] = "cachekey"
    /\ \/ kidx[w] > Len(keys) /\ Goto(w, "cacheflush")
          /\ UNCHANGED <<tmpDir, kidx, batch, errC, failures>>
       \/ kidx[w] <= Len(keys) /\ NextKey(w, keys[kidx[w]])
    /\ UNCHANGED <<indexDir, maxi, shard, fidx>>

\* Flush any remaining series of the cache.
CacheFlush(w) ==
    /\ pc[w] = "cacheflush"
    /\ FlushRest(w, "compact")
    /\ UNCHANGED <<indexDir, maxi, shard, fidx, kidx, batch>>

\* tsiIndex.Compact(); tsiIndex.Wait(); tsiIndex.Close()
CloseIndex(w) ==
    /\ pc[w] = "compact"
    /\ \/ Goto(w, "rename") /\ UNCHANGED <<errC, failures>>
       \/ Fail(w)
    /\ UNCHANGED <<disk, maxi, shard, fidx, kidx, batch>>

\* return os.Rename(tmpPath, indexPath)
RenameIndex(w) ==
    LET s == shard[w] IN
    /\ pc[w] = "rename"
    /\ \/ indexDir' = [indexDir EXCEPT ![s] = tmpDir[s]]
          /\ tmpDir' = [tmpDir EXCEPT ![s] = Absent]
          /\ Send(w, "ok") /\ UNCHANGED failures
       \/ Fail(w) /\ UNCHANGED disk
    /\ UNCHANGED <<maxi, shard, fidx, kidx, batch>>

Worker(w) ==
    /\ Alive
    /\ \/ Claim(w) \/ StatIndex(w) \/ OpenIndex(w) \/ CollectTSM(w)
       \/ OpenTSMFile(w) \/ TSMKey(w) \/ TSMFlush(w)
       \/ CollectWAL(w) \/ CacheKey(w) \/ CacheFlush(w)
       \/ CloseIndex(w) \/ RenameIndex(w)
    /\ UNCHANGED <<drv, drained, result, sfileOpen, runs>>

----------------------------------------------------------------------------
\* Faulty variants of the drain loop: one result too few (i < cap(errC)-1),
\* one result too many (i <= cap(errC)).
DrainUntil(n) ==
    /\ drv = "drain"
    /\ errC # <<>>
    /\ errC' = Tail(errC)
    /\ IF Head(errC) = "err"
          THEN drv' = "return" /\ result' = "err" /\ UNCHANGED drained
          ELSE /\ drained' = drained + 1
               /\ IF drained + 1 = n
                     THEN drv' = "return" /\ result' = "ok"
                     ELSE UNCHANGED <<drv, result>>
    /\ UNCHANGED <<disk, maxi, pc, shard, fidx, kidx, batch, sfileOpen, failures, runs>>
Drain_waitExtra == DrainUntil(NumShards + 1)

\* for i := 0; i < cap(errC); i++ { if err := <-errC; err != nil { return err } }
Drain ==
    /\ drv = "drain"
    /\ errC # <<>>
    /\ errC' = Tail(errC)
    /\ IF Head(errC) = "err"
          THEN drv' = "return" /\ result' = "err" /\ UNCHANGED drained
          ELSE /\ drained' = drained + 1
               /\ IF drained + 1 = NumShards
                     THEN drv' = "return" /\ result' = "ok"
                     ELSE UNCHANGED <<drv, result>>
    /\ UNCHANGED <<disk, maxi, pc, shard, fidx, kidx, batch, sfileOpen, failures, runs>>

\* processDatabase returns: its deferred sfile.Close() runs.
CloseSeriesFile ==
    /\ drv = "return"
    /\ drv' = "closed"
    /\ sfileOpen' = FALSE
    /\ UNCHANGED <<disk, maxi, errC, pc, shard, fidx, kidx, batch, drained, result, failures, runs>>

\* run returns to main and the process exits, ending every worker.
Exit ==
    /\ drv = "closed"
    /\ drv' = "exited"
    /\ UNCHANGED <<disk, maxi, errC, pc, shard, fidx, kidx, batch, drained, result, sfileOpen, failures, runs>>

\* The process is killed at any point, or has exited, and buildtsi is run
\* again: only the shard directories survive.
Restart ==
    /\ runs < MaxRuns
    /\ runs' = runs + 1
    /\ maxi' = FreshMem[1] /\ errC' = FreshMem[2] /\ pc' = FreshMem[3]
    /\ shard' = FreshMem[4] /\ fidx' = FreshMem[5] /\ kidx' = FreshMem[6]
    /\ batch' = FreshMem[7] /\ drv' = FreshMem[8] /\ drained' = FreshMem[9]
    /\ result' = FreshMem[10] /\ sfileOpen' = FreshMem[11]
    /\ UNCHANGED <<disk, failures>>

Next ==
    \/ \E w \in Workers : Worker(w)
    \/ Drain \/ CloseSeriesFile \/ Exit
    \/ Restart

\* Goroutines are scheduled preemptively by the Go runtime, so every
\* goroutine that can take a step eventually does; a crash or a re-run is
\* never assumed to happen.
Fairness ==
    /\ \A w \in Workers : WF_vars(Worker(w))
    /\ WF_vars(Drain \/ CloseSeriesFile \/ Exit)

Spec == Init /\ [][Next]_vars /\ Fairness

----------------------------------------------------------------------------
TypeOK ==
    /\ indexDir \in [Shards -> Dir]
    /\ tmpDir \in [Shards -> Dir]
    /\ maxi \in 0..(NumShards + Concurrency)
    /\ errC \in Seq({"ok", "err"}) /\ Len(errC) <= NumShards
    /\ pc \in [Workers -> InIndexShard \cup {"claim", "exit"}]
    /\ shard \in [Workers -> Shards]
    /\ batch \in [Workers -> Seq(Series)]
    /\ \A w \in Workers : Len(batch[w]) < BatchSize
    /\ drv \in {"drain", "return", "closed", "exited"}
    /\ drained \in 0..NumShards
    /\ result \in {"none", "ok", "err"}
    /\ sfileOpen \in BOOLEAN
    /\ failures \in 0..MaxFailures
    /\ runs \in 1..MaxRuns

\* At-most-once visibility: whatever runs crashed, failed or were re-run,
\* a shard's "index" directory, once it exists, holds exactly the series of
\* its parsable TSM files and of its WAL: never a partial index and never a
\* series dropped at a batch boundary (IndexShard, IndexTSMFile).
PublishedIndexComplete ==
    \A s \in Shards : indexDir[s] # Absent => indexDir[s] = Expected(s)

\* When processRetentionPolicy returns nil, every shard has its "index"
\* directory: no result is still outstanding when the drain loop ends.
SuccessImpliesAllIndexed ==
    (drv # "drain" /\ result = "ok") => \A s \in Shards : indexDir[s] # Absent

\* The command eventually exits for good.
Termination == <>[](drv = "exited")

\* The series file is not closed while a worker is still inside IndexShard
\* (processDatabase's deferred sfile.Close() after an early return).
SeriesFileNotClosedInUse ==
    ~sfileOpen => \A w \in Workers : pc[w] \notin InIndexShard

====
