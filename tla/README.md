# TLA+ models of cnosdb: index rebuild, TSM block reads, server lifecycle

This directory holds TLA+ specifications of the concurrent parts of the
cnosdb sources under `src/`, the TLC configurations that check them, and
`PROJECT.json`, which maps every definition to the source lines it models.

## 1. The system (inventory)

| Part | Source | State | Operations | Interacts with |
|---|---|---|---|---|
| **buildtsi** (offline TSI index rebuild) | `src/unnamed/part_000` 289–706 | On disk, per shard: `index/` (published), `.index/` (staging). In memory: series file `sfile`, channel `errC` (cap = #shards), cursor `maxi`, one goroutine per `--concurrency` | `run`, `processDatabase`, `processRetentionPolicy`, `IndexShard`, `IndexTSMFile`, `collectTSMFiles`, `collectWALFiles` | tsi1.Index, SeriesFile, TSMReader, CacheLoader (libraries) |
| **TSM reader read path** | `src/unnamed/part_000` 1–284 | `t.mu`, `m.mu` (RWMutex), `m.b` (mapped file) | ten `Read*BlockAt` wrappers and ten `mmapAccessor.read*Block` | Close and rename (not under `src/`; from spec §4.2/§5) |
| **Server lifecycle** | `src/server/server.go` 60–462 | `Node` (ID, Peers, persisted), `NewNode`, services, listeners, `metaClient` | `NewServer`, `Open`, `Close`, `initMetaStore`, `initMetaClient`, `startNodeServer`, `joinCluster` | meta service, node-server goroutine, HTTP server |
| HTTP error helpers, `Response` | `server.go` 464–593 | none | JSON conversion, `Response.Error` | HTTP handlers, clients |
| Prometheus conversion | `src/unnamed/part_004` | none (pure) | `WriteRequestToPoints`, `nodeFromMatchers` (recursive), tag conversion | remote read/write handlers |
| Test harness | `src/unnamed/part_001..003` | `ParallelFlag`, `Results` | `Suite.Run`, `Row.Equal`, `Results.Equal` | integration tests |

Hard behaviours found in the survey (each listed with its line in
`PROJECT.json` "hazards"):

* buildtsi: workers race on `maxi`; the drain loop returns at the first error
  while siblings still run, and `processDatabase`'s deferred `sfile.Close()`
  then runs under them; `--concurrency 0` leaves the drain loop waiting
  forever; any `os.Stat` error other than NotExist skips the shard; a crash
  between `RemoveAll(.index)` and `os.Rename` must not publish a partial
  index; batch flush at `len == batchSize` and the remainder flush;
  `--batch-size 0` panics.
* TSM reader: reads racing Close/rename (lock order t.mu → m.mu); entries
  with `Size < 4` panic; `Offset+Size` overflow; Close starved by readers.
* server.go: `initMetaClient` polls `s.Node.Peers`, which `joinCluster`
  writes from the node-server goroutine without synchronization;
  `CreateDataNode` is retried forever; a failed `Node.Save` leaves `NewNode`
  set; the Accept "connection closed" branch falls through to a nil
  connection; `Close` leaves the coordinator and other services open and
  dereferences a nil `httpListener` after a failed `Open`.
* test harness: `Row.Equal`'s numeric branch never returns false.

## 2. Modules

### BuildTSI.tla / MCBuildTSI.tla — one retention policy of buildtsi

*State.* `indexDir[s]` and `tmpDir[s]` are the `index` and `.index`
directories of shard `s`, as the set of series they hold, or `Absent`. These
survive a crash. The in-memory state is `maxi`, `errC` (a sequence of `"ok"`
and `"err"`), each worker's program counter `pc[w]` and its shard, file and
key cursors, `batch[w]` (keysBatch), the drainer's state `drv`, `drained`,
`result` and `sfileOpen`.

*Actions.* Each step of `IndexShard` is one action. `Claim` is the
`atomic.AddUint32` loop head. `StatIndex`, `OpenIndex` (RemoveAll + Open)
and `CollectTSM` follow. `OpenTSMFile` covers os.Open failure, a corrupt
file, or a readable one. `TSMKey`/`NextKey` form the key loop with its
flush at `len == batchSize`, and `TSMFlush`/`FlushRest` flush the remainder.
The WAL side is `CollectWAL` (NotExist, Load failure, or data), then
`CacheKey` and `CacheFlush`. `CloseIndex` is Compact/Wait/Close and
`RenameIndex` is os.Rename. `InsertBatch` models
`CreateSeriesListIfNotExists`: it succeeds, fails on I/O, or fails because
the series file is closed. `Drain` is the receive loop of
`processRetentionPolicy`. `CloseSeriesFile` is the deferred `sfile.Close()`
and `Exit` is the process exit. `Restart` is a crash (or exit) followed by a
re-run, keeping only the directories.

*Failures.* `Fail(w)` injects an I/O error at any failing call; there are at
most `MaxFailures` of them.

*Constants.* The MC module fixes the shards' contents:

* shard 1 has a good TSM file with 3 keys over 2 series, a corrupt file, and
  a WAL adding a new series;
* shard 2 has one key and no WAL.

`BatchSize = 2` makes both the full-batch flush and the remainder flush
happen. `Concurrency = 2` with 2 shards makes workers race for shards and
lets a worker run past the end of the shard list.

### TSMReader.tla / ReadContract.tla / MCTSMReader.tla — block reads

*Locks.* `tmu` and `mmu` are RWMutexes `[readers, writer, pending]`. A
pending writer blocks new readers, as Go's `sync.RWMutex` does.

*Reads.* A read is `CallRead`, then `RLockT`, then the accessor:

* `RLockM` (incAccess + RLock);
* `CheckBounds` (`len(m.b) < off+size` gives ErrTSMClosed);
* `DecodeBlock`, which panics if `Size < 4` or `m.b` is unmapped, and
  otherwise decodes the block; the result is data, or corrupt for a type
  mismatch.

Then `RUnlockT` returns.

*Close and rename.* These are modelled from the spec, because their code is
not under `src/`:

* Close is `CallClose`/`LockT`/`CloseLockM`/`CloseUnmap`/`UnlockT`;
* rename is `CallRename`/`RenameLockM`/`RenameUnmap` (`m.b` stale)/`RenameMap`.

`ReadContract` is the abstract promise of the reader. A call is pending and
is then served with `closed` if the file is closed, or with `data` or
`corrupt` according to the entry and the method. The call then returns.
`TSMReader` implements it through `INSTANCE ReadContract WITH` a mapping of
`open`, `call` and `req`.

### Server.tla / MCServer.tla: server start, node join, Close

*Processes.* The model has three goroutines and an environment:

* `Main` is the goroutine that runs `Open` and then `Close`.
  * `Open` is one action per step: `InitMetaStore`, `InitTCPServer`,
    `InitMetaClient`, `MetaClientOpen`, `WaitForDataChanged`,
    `InitTSDBStore`, `InitHTTPServer` and `OpenServices`.
  * `Close` closes one component of `CloseOrder` per step, in the code's
    order, and skips a nil one. `httpListener` and `httpMux` are closed
    without the nil check, so when they are nil the step panics.
* `NodeServer` is the `startNodeServer` goroutine:
  * `Accept` and `HandleRequest`;
  * then `joinCluster`, as `JoinOpen`, `JoinWait`, `JoinCheck` (any
    `DataNode` error, a failed RPC as well as "not found", goes on to
    CreateDataNode),
    `JoinCreate` (with its one-second retry loop), `JoinAssign` (ID, then
    Peers), `JoinSave` and `JoinReply`.
* `HTTPServer` is the goroutine `Open` starts last:
  * `StartHTTPServer` starts it, and it returns at once if the mux is
    already closed;
  * `HTTPServeReturn` is the return of `httpMux.Serve`;
  * `HTTPHandle` ends a request handler that reads or writes the store
    through the query executor and points writer. It is modelled from how
    `initHTTPServer` wires the handler, which is not under `src/`.
* The environment does the following:
  * `Send` sends requests to the node server (at most `MaxRequests`);
  * `HTTPRequest` sends HTTP requests, accepted while `httpListener` is
    open (at most `MaxHandlers` at once);
  * `CallClose` calls `Close`;
  * `Fail` makes any failing call fail (at most `MaxFailures`);
  * `Restart` crashes and restarts the process (at most `MaxRestarts`).

*State.* Only two things survive a restart:

* `disk`, the node file, is `NoFile` or `[id, peers]`;
* the meta service's registry is `meta` (the data-node IDs) and its
  `nextID`.

The in-memory state is:

* `node` (`s.Node`) and `newNode`;
* each service's state `svc[x]` (nil, created, open or closed);
* the program counters `mpc` and `npc`;
* the request being served, `req`, and `jid`, the ID CreateDataNode
  returned;
* the HTTP goroutine's state `hpc`, the running handlers `handlers` and
  Close's position `ci`.

`remote` is whether `-join`/MetaServers names a remote meta service.
`Open`'s error returns set `mpc` to `"failed"`. A nil dereference in `Close`
sets it to `"panicked"`, which ends the process.

*Constants.* MCServer's requests are a join with peers, a join without
peers, and another request. There are 3 requests, 2 failures, 1 restart
and 1 HTTP handler.
This is enough for the following to happen:

* a join that fails and is retried;
* a Save that fails, followed by a second join;
* a crash at every step of `joinCluster`, followed by a re-join.

### NodeIdentity.tla: what the server promises about its identity

NodeIdentity abstracts away the steps of Open, the retries and the
goroutines. Its state is:

* `registered`, the meta service's data nodes;
* `file`, the ID in the node file;
* `held`, the ID the process holds;
* `acked`, whether a peer was answered.

Its actions are:

* `Load`, which is initMetaStore;
* `Register`, a fresh data node registered while there is no node file;
  it replaces any ID the process held, so the contract admits a second
  registration after a crash, or after a failed Save followed by a failed
  `DataNode` RPC (both are the duplicate data node that
  `OneDataNodePerServer` rules out and `server_crash_duplicate` shows);
* `Persist`, a write-once save of the held, registered ID;
* `Ack`, which happens only with the saved ID;
* `Crash`.

Server instantiates it as `Identity` and maps it as follows:

* `registered` is `meta`;
* `file` is the ID in `disk`;
* `held` is `HeldID`, CreateDataNode's answer until joinCluster has copied
  it into `s.Node.ID`;
* `acked` is `replied`.

`JoinContract` is `Identity!Spec`, checked as a PROPERTY.

### Response.tla / MCResponse.tla: the HTTP response

The state of this module is a single response, `resp`, chosen from every
response of up to 3 results over two error messages, nil results included.
`response_empty_error` takes the messages `""` (`errors.New("")`) and
`"e1"`; `response_first_error` takes two non-empty ones, so that its trace
is not confused with the empty-message case. `MarshalJSON`,
`UnmarshalJSON` and `Error` are operators. `FirstError` is
the reference definition that `Response.Error`'s doc comment describes.

## 3. Runs

| Run | cfg | Expect | Shows |
|---|---|---|---|
| buildtsi_rebuild | MCBuildTSI.cfg | pass | With I/O and stat failures, crashes and a re-run, a published index is complete (`PublishedIndexComplete`), batches stay below batchSize (`TypeOK`), and the command exits (`Termination`). |
| buildtsi_sfile_closed | MCBuildTSI_sfile.cfg | violation | `sfile.Close()` runs while a worker is still inside IndexShard. |
| buildtsi_stat_error | MCBuildTSI_stat.cfg | violation | A stat error reports success for an unindexed shard. |
| tsmreader_read_close | MCTSMReader.cfg | pass | Reads never decode unmapped memory, the reader refines ReadContract, and Close always returns. |
| tsmreader_short_entry | MCTSMReader_short.cfg | violation | An entry with Size < 4 panics. |
| server_lifecycle | MCServer.cfg | pass | These properties hold with failures, repeated and malformed joins, and a crash. A join that was answered is durable (`ReplyImpliesDurable`). Open passes its wait for peers only as a registered data node (`RegisteredBeforeMetaClient`). Open returns once a join has been answered (`OpenFinishes`). After Close, the HTTP server goroutine ends, also when it was scheduled after Close (`HTTPServerStops`). The server also refines NodeIdentity (`JoinContract`), with crashes, failed `DataNode` RPCs and retries: no data node is registered once a node file exists, the node file never changes once written, and a peer is answered only with the saved ID. |
| server_crash_duplicate | MCServer_dup.cfg | violation | A crash between CreateDataNode and Save registers a second data node. |
| server_id_not_persisted | MCServer_persist.cfg | violation | After a failed Save, the ID is never written to the node file. |
| server_close_store | MCServer_store.cfg | violation | Close closes the store while services writing to it, the HTTP listener and running handlers can still use it. |
| server_close_nil | MCServer_nil.cfg | violation | Close after an Open that failed early panics. |
| response_empty_error | MCResponse.cfg | violation | An error with an empty message does not survive MarshalJSON and UnmarshalJSON: the client decodes no error (`ErrorSurvivesJSON`). |
| response_first_error | MCResponse_first.cfg | violation | Response.Error hides a later statement's error. |

*Bounds.* Each bound is chosen so that its interesting case happens:

* buildtsi: 2 shards, 2 workers, 1 injected failure, 2 runs. This covers a
  failure with a sibling still running, and a crash at every step followed
  by a re-run over a partial `.index`.
* TSM reader: 2 readers, 2 entries, 2 methods, 2 Closes and 1 rename. This
  gives a read in flight during each kind of writer, a second Close on a
  nil `m.b`, and a type mismatch.

* server: 3 requests, 2 failures and 1 restart (see the module section).
  `server_crash_duplicate` needs the restart. The other violation runs use
  smaller bounds, enough for their counterexample.

The `buildtsi` and server runs disable the deadlock check: the command exits, and at
`MaxRuns` nothing more happens. The server stops after Close or a panic.
The Response module's state has no successor.

*Fairness.* Every goroutine gets weak fairness: each buildtsi worker, the
drainer, each reader, and the Close and rename goroutines once called.
Go's scheduler is preemptive, and sync.RWMutex wakes its waiters, so a
goroutine that can step eventually does. Starting a read, a Close or a
rename, and a crash, are never forced.

In the server model, `Main`, `NodeServer` and `HTTPServer` are weakly fair,
because they are goroutines. `Send`, `HTTPRequest`, `CallClose` and
`Restart` are left to the environment.
`OpenFinishes` therefore says that Open returns once a join with peers has
been answered, never that a join arrives.

## 4. Findings

* **Series file closed under running workers.** `processRetentionPolicy`
  returns at the first error without draining (`part_000:488`).
  `sfile.Close()` then runs while other workers use the series file.
* **`--concurrency 0` hangs.** The drain loop waits forever
  (`part_000:486`).
* **Stat errors skip shards.** Any stat error except NotExist reports the
  shard done without an index (`part_000:500`).
* **Short entries panic.** An entry with `Size < 4` panics the typed block
  readers (`part_000:125`).
* **Duplicate data node after a crash.** `joinCluster` calls CreateDataNode
  before `Node.Save` (`server.go:441`). A crash between the two makes the
  next join register a second data node for the same server.
* **A failed Save is never retried.** The ID stays only in memory, and
  later joins return at the DataNode check before Save (`server.go:436`).
  If that `DataNode` RPC fails instead, the join treats the node as
  unregistered and registers a second data node.
* **Close leaves writers open.** Close closes the store under "no more reads
  or writes", but the coordinator, snapshotter, hinted handoff and
  subscriber are never closed (`server.go:143`). The HTTP listener is
  closed only after the store, and the http.Server is never shut down, so
  requests and handlers also reach the closed store.
* **Close panics after a failed Open.** It calls `httpListener.Close()`
  without the nil check the other services get (`server.go:152`).
* **An empty error message is lost.** `MarshalJSON` writes
  `errors.New("")` as `""`, which `omitempty` drops (`server.go:557`), and
  `UnmarshalJSON` creates an error only for a non-empty string
  (`server.go:575`). So `writeError(w, "")` answers 400 with a body that a
  client reads as success.
* **Response.Error hides errors.** It returns the first non-nil result's
  `Err`, even when that is nil (`server.go:588`).

`--concurrency 0` also makes buildtsi's drain loop wait forever
(`part_000:486`). This is listed as a hazard and not checked by a run.

## 5. Open questions the runs do not settle

Each item below is listed in `PROJECT.json` "hazards". Each would need a
violation run of its own, or a model of code that is not under `src/`.

* `--batch-size 0` panics, and `--concurrency 0` hangs the drain loop. The
  runs use 2 for both.
* `Offset+Size` can overflow int64 for a corrupt index entry.
* Torn reads of `s.Node.Peers`, which is a data race.
* A lost CreateDataNode answer followed by a retry.
* The node server running on after Close, because `tcpMux` is never closed.

## 6. Not modelled

* The Prometheus conversion (`part_004`). It is a stateless conversion that
  spec.md places outside the core. Its results depend on `models.NewPoint`
  and on the storage engine's predicate evaluation, neither of which is
  under `src/`. It has no concurrency, persistence or failure handling for a
  model checker to reach.
* The integration test harness (`part_001..003`). It is test code, not
  part of the system. Its `Row.Equal` defect is listed as a hazard.

* The root prompt and the directory listing of `run`, which are terminal and
  file I/O.
* The contents of the tsi1 index, series file and cache. Only the set of
  series each holds is modelled.
* Block decoding, which is abstracted to a type check.
* `incAccess`/`free`, which nothing under `src/` reads.
* `writeHeader`, `writeJson`, the 1024-byte cut of the error header,
  `Statistics`, `Err` and the address getters. They format output or read
  state, and change nothing the properties observe.
* What a request handler does beyond using the store. The handler is not
  under `src/`.
* The meta client's internals and the TSDB services' own work, which are
  not under `src/`. The model keeps only whether each service is open.
* The Accept "connection closed" branch (`server.go:383`). Nothing in
  `server.go` closes the node listener, so the branch is never reached.
