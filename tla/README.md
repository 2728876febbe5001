# File Router in TLA+

TLA+ models, TLC configurations and TLAPS proofs for this repository: the File Router itself
(`src/backend`, `src/frontend`) and the stateful core of the `pi-mono` packages beside it
(`src/pi-mono/packages/durable`, `server`, `client`, `chord`). The File Router takes in batches of
uploaded files, keeps every original once, records it in a SQLite registry and serves lists, details
and downloads. `pi-mono` is a code base of its own that File Router does not call
(`src/README.md:144`); of it the storage that must survive crashes, the router of Sessions and the
replication of service state are modelled, because that is where its hard states are.

Contents: the system, the modules, the modelling decisions, the runs, the mutants, the theorems,
disagreements between documents and code, what is not modelled, the plan.

## 1. The system

### File Router

| Component | State it keeps | Operations | Hard behaviour |
|---|---|---|---|
| Intake endpoint and orchestrator (`api/routes/intake.py`, `application/intake/orchestrator.py`) | the local variables of a request: batch id, upload it is at, bytes consumed, counts, duplicates met | `POST /intake/batches`: validate, replay or create, process each upload, clean up, settle, answer | many requests interleave at every `await`; retries; failures inside failure handling |
| Original file store (`infrastructure/storage/local_original_file_store.py`) | `staging/<batch>/<file>.upload`, `originals/sha256/..` | `store`, `_promote`, the `except` clause of `store`, `cleanup_batch`, `resolve` | content addressing makes requests share files; partial failures; kills |
| File registry (`infrastructure/database/registry_repository.py`, `tables.py`) | tables `ingest_batches`, `file_records`, `original_blobs` and their unique constraints | `create_batch`, `register_file`, `record_failed_file`, `complete_batch`, `delete_empty_batch`; reads | read-then-insert across processes; multi-statement reads |
| Query API (`api/routes/files.py`, the GET of `intake.py`) | none of its own | batch, file detail, download | synchronous handlers run in threads beside the event loop: torn reads, a file gone between check and use |
| Keyset pagination (`list_files`) | a cursor held by the client | next page | inserts between pages in another order than their times, equal creation times |
| Migrations (`alembic/versions`, `migrations.py`) | the schema and rows of older versions | 0001 to 0005 at start-up | deletion of rows; a kill between statements, some of which are durable at once |
| Frontend file list (`src/frontend/src/App.tsx`, `api/client.ts`) | the list shown, local rows of uploads in progress | upload, refresh, reset duplicates | overlapping uploads whose late answers replace the whole list |
| Assembly, settings, errors, health | settings, the container | start-up, mapping of errors to problem documents | no recovery of what a kill left behind |
| Inspector, Router, Review, Dispatcher, Handlers | - | - | only described in `specs/`; there is no code yet |

The endpoint builds a command and awaits `IntakeOrchestrator.execute`. The orchestrator calls the
registry synchronously (on the event loop, so no other task of the same worker comes between) and
awaits the store, whose file-system calls run in worker threads. Store and registry share only the
content hash: an original exists before its record is written, and nothing deletes an original (spec
section 7.3 accepts an original without a record after a failed transaction). The query API sees
rows and originals from other threads, the migrations run before any of this, and the frontend sees
answers only.

What makes each of them correct:

- *orchestrator*: every upload of a batch ends as exactly one record or one duplicate; counts, status
  and answer agree with that; a key stands for one batch; every request ends and settles its batch;
- *store*: an original is complete when it appears and is never taken away by another upload's failure;
  staging is left empty; size limits hold across the batch;
- *registry*: one record per content, one live batch per key, a record only with its blob row;
- *query API*: an answer describes a state the registry was in; a reported original can be read;
- *pagination*: no row skipped or repeated, whatever is inserted meanwhile;
- *migrations*: what was taken in first is kept, and the result is a database the current code can
  work on, or the server does not come up;
- *frontend*: the list ends up as the server's, and no upload stays in progress for ever.

### pi-mono

| Component | State it keeps | Operations | Hard behaviour |
|---|---|---|---|
| Durable JSONL storage (`durable/src/storage/jsonl`) | `main.jsonl`, a sidecar file per live task and per document, a copy in memory | `open` with recovery, `commit`, `close` | a commit spans several files; appends fail, are cut short, are lost with the machine; recovery can be killed too |
| Session router (`server/src/session-router.ts`) | hosted Sessions, openings, attachments with their leases and calls, a queue of operations per connection | attach, detach, switch, call, disconnect, remove a Session, invalidate, close | every operation awaits hosts it does not control, and the world has changed when they answer |
| Server connections and application line (`server/src/server.ts`, `coding-agent/src/experimental/services/server.ts`) | connections, requests under way, the tail of the application's line | requests of peers, loss of a connection, shutdown | a request outlives its connection; one line for all connections; shutdown meets everything half-way |
| Chord services (`chord/src/services`) and the subscription side of server and client | a provider's state and its subscribers; encoders and request handlers of a connection; listeners and the revision of a binding | subscribe with a snapshot, publish, unsubscribe, rebind, dispose | updates overtake the snapshot they follow; a subscription is answered when nobody wants it any more |

The application receives requests over connections, runs them one at a time and asks the router. The
router obtains a handle per Session from its host and a lease per attachment from the handle. State
that services replicate reaches a client through the endpoint of its connection: a snapshot in the
answer to the subscription, then updates. Records are kept by the durable storage, which has one owner.

What makes each of them correct:

- *storage*: a commit is found as a whole or not at all, in order, after any failure; opening never
  refuses what such a failure left; a poisoned store does not answer;
- *router*: no lease is lost sight of; a connection gives its lease back after its calls; a removed
  Session is out of use; shutdown takes back everything; nobody waits for ever;
- *connections*: a lost one leaves nothing attached;
- *subscriptions*: what a facade shows plus what is under way is the provider's state; nothing is left
  behind on either side; the facade catches up.

## 2. Modules

| Module | What it is |
|---|---|
| `Intake` | the endpoint, orchestrator, store and writing side of the registry, one action per step another process can come between; failures, kills, damaged disks |
| `IntakeProperties` | its safety, liveness, a sentence of the documents, and the inductive invariant |
| `IntakeService`, `IntakeRefinement` | what intake promises without requests, threads or disks, and the mapping to it |
| `IntakeProofs`, `IntakeAnswerProofs` | theorems about `Intake`: registry and originals; answers, staging, limits, failure codes and the refinement |
| `IntakeQueries`, `QueryProofs` | readers in threads beside `Intake`: GET of a batch, of a file, download; theorems |
| `Pagination` | a client walking through the list of files while others register |
| `Migrations`, `Startup` | the upgrade from revision 0002 to 0005; its composition with `Pagination`: upgrade, then serve |
| `StartupProofs` | theorems about `Pagination`, `Migrations` and `Startup` |
| `FrontendFiles`, `FrontendProofs` | the page: overlapping uploads and the refresh; theorems |
| `JsonlStorage`, `JsonlProperties` | JSONL storage with recovery and its faults; properties and inductive invariant |
| `DurableStore` | the abstract store it implements |
| `JsonlProofs` | theorems about `JsonlStorage`, the refinement among them |
| `SessionRouter` | the operations of the router and of the hosts behind it |
| `SessionServer` | connections, the application's line, loss and shutdown around `SessionRouter`; properties |
| `SessionServerProofs` | theorems about `SessionServer` with the router in it |
| `Subscriptions` | one replicated state over one connection at a time: provider, server, wire, client, binding; properties and inductive invariant |
| `SubscriptionProofs` | theorems about `Subscriptions` |
| `MCIntake`, `MCIntakeQueries`, `MCStartup`, `MCFrontendFiles`, `MCJsonlStorage`, `MCSessionServer`, `MCSubscriptions` | values of the constants for TLC |

### `Intake` and `IntakeQueries`

| Variable | In the code |
|---|---|
| `originals`, `decayed` | `originals/sha256/..`: absent, intact or damaged (of another size than its content); `decayed` remembers who was harmed from outside |
| `staging`, `dirs` | `staging/<batch>/<file>.upload` and `staging/<batch>` |
| `batches`, `files`, `blobs` | the rows of `ingest_batches`, `file_records`, `original_blobs` |
| `loop` | the request whose task runs on each worker's event loop; `None` when every task is suspended |
| `cmd`, `host` | what a client sent and the worker it reached |
| `pc`, `cur`, `local`, `answer` | the position, loop index, local variables and HTTP answer of each request |
| `faults`, `crashes` | how often something went wrong so far (bounded) |
| `view` (`IntakeQueries`) | what the query of each reader has read so far |

| Action | Code |
|---|---|
| `Receive` | `create_batch` route, `_validate` |
| `LookupKey`, `Replay` | `get_batch_by_idempotency_key`, fingerprint check, `get_batch_detail` of the existing batch |
| `CreateBatch` | `create_batch` with its unique index on the key |
| `Admit` | the checks of `_process_file` and the `mkdir` of `store` |
| `OpenStaging`, `WriteChunk`, `EndOfUpload` | `open_file`, the chunk loop, the test for an empty file |
| `Promote`, `Tidy` | `_promote`: `os.link` or the size check of what is there; the unlink of the temporary name |
| `Discard` | the `except` clause of `store` |
| `RegisterRead`, `RegisterWrite` | `register_file` up to the first `INSERT`, and from it to the commit |
| `RecordFailure` | `_record_failure` |
| `LeaveLoop`, `Sweep`, `Unwind` | the `finally` clause (`cleanup_batch`), without and with an exception under way |
| `CompleteBatch`, `AnswerBatch` | the status and counts, `complete_batch`; the answer and `delete_empty_batch` |
| `RegistryFault`, `StorageFault` | a SQLAlchemy or file-system call raises where it may |
| `Crash` | a worker is killed; its next start-up repairs nothing |
| `Decay` | an original is truncated or removed from outside |
| `GetBatch` | the two statements of `get_batch_detail` |
| `FindFile`, `FindOwner`, `FindBlob`, `FindBlobToSend` | the three statements of `get_file_detail`, for the detail and for a download |
| `CheckOriginal`, `SendOriginal` | the check of `download_file` and the later opening of the file |

### `Pagination`, `Migrations`, `Startup`, `FrontendFiles`

`Pagination` keeps the committed `rows`, those stamped and not committed (`coming`), the clock, and
the walk of one client (`at`, `cursor`, `given`). `Stamp` and `Commit` are intake as the list sees it;
`FetchPage` is `list_files`: the keyset condition (`After`), `LIMIT limit + 1`, and the cursor of the
last row of a full page.

`Migrations` keeps what is committed (`db`), what the connection sees (`draft`), whether it is in a
transaction (`open`), the step of the upgrade and the contents 0003 fetched once and has still to clean
(`groups`). Each action is a statement or a group of statements of a revision:
`AddDetectedColumn`, `CleanGroup`, `CreateUniqueIndex` (0003), `DropColumns` (0004),
`DeleteEmptyBatches` (0005), `RecordRevision` (Alembic's version row and commit), `Start`, `Kill`.
`Startup` runs it, hands the surviving rows to `Pagination` and lets a client walk through them.

`FrontendFiles` keeps what the page shows, the position of each `addFiles` (`call`) and of the initial
`refresh`, the answers under way, and of the server its records. `AddFiles`, `Uploaded`, `Listed` and
`Failed` are the parts of `addFiles` between its awaits; `Refreshed` and `ResetDuplicates` the rest of
`App.tsx`; `Intake`, `List` and `ListForRefresh` are the server's answers.

### `JsonlStorage`

| Variable | In the code |
|---|---|
| `main`, `side`, `torn` | the complete lines of `main.jsonl` and of each sidecar, and the files that end in an incomplete one |
| `kept` | how many records of each sidecar have been flushed |
| `phase`, `todo`, `pending`, `written` | where `open` or `commit` is, which sidecars its loop has left, the commit under way |
| `memory` | the commits applied to `MemoryStorage` |
| `committed` | ghost: the commits whose line was appended and not lost since |

| Action | Code |
|---|---|
| `Prepare` | `prepareCommit` of `MemoryStorage` and `encodeCommit`; a rejected commit is not an action |
| `AppendRecord`, `Flush`, `AppendMarker`, `Apply` | the append of each sidecar's records, their `fsync`, the line of `main.jsonl`, `prepared.apply()` |
| `Fail` | `poison()` |
| `ReadMain`, `ReadSide`, `Replay`, `Trim`, `Opened`, `OpenFails` | the steps of `recover()` |
| `Close` | `close()` |
| `Crash`, `PowerFailure` | the process, or the machine, stops |

### `SessionRouter` and `SessionServer`

| Variable | In the code |
|---|---|
| `handles`, `hosted`, `opening`, `catalog` | every `HostedSession` made, `hostedSessions`, `openingSessions`, and the Sessions the application still resolves |
| `attachments`, `route`, `told` | every `ClientAttachment` with its lease, calls and release; `attachmentsByClient`; the last published route |
| `queue`, `step`, `current`, `found`, `mine` | `clientOperations` and the locals of the operation at the head |
| `disconnected`, `closing`, `shutdown`, `draining` | `disconnectedClients`, `isClosing`, `closeInternal` and what it waits for |
| `removal` | `removeSession`, per connection that asked for it |
| `serial`, `asked`, `line`, `connected` | whether the application serialises, each connection's request, `mutationTail`, the live connections |

`AttachStart`, `Acquired`, `Left`, `Leased` are the four parts of `attachClientNow`; `ReleaseStart`,
`ReleaseLease`, `Clear`, `ReleaseEnd` those of `detachClient`, `disconnect` and `releaseAttachment`;
`CallStart` and `CallSettles` a service call; `RemoveStart`, `RemoveClose`, `RemoveEnd`
`removeSession`; `Invalidate` `invalidate`; `ShutdownReleases`, `ShutdownCloses`, `ShutdownEnds`
`closeInternal`. `Opens`, `OpenFails`, `Grant`, `HandleCloses` and `Terminates` are the hosts. In
`SessionServer`, `Ask`, `AskRouter`, `RouterAnswers`, `AskRemoval`, `Delete` are a request's way
through the application, `Call`, `Lost`, `Close`, `CloseState` the connections.

### `Subscriptions`

`current` is the provider's state, as the number of its implementation and its sequence;
`subscribed`, `encoders`, `served` and `closing` are what endpoint and connection keep on the server;
`toServer` and `toClient` the wire; `listener` the client's listeners and subscription handles;
`open`, `revision` and `facade` the binding. `Change` and `Replace` are the provider,
`TakeSubscribe`, `Respond`, `Drain`, `TakeUnsubscribe`, `AnswerUnsubscribe` the request handlers of
`server.ts`, `Receive` the client's `message` handler, `Install`, `Discard`, `Deliver` the
continuations in `consumer.ts`, `Open`, `Dispose` the binding, `Lose`, `Connect` the connection.

## 3. Modelling decisions

### Intake

- **Atomicity.** A coroutine owns its event loop between two `await`s. `loop` says who runs: a step on
  the loop needs it free or its own, and holds it until the next suspension point. Steps in threads
  (`open`, `write`, `promote`, ...) need nothing and interleave with everything. With one worker, which
  is what the documents prescribe for the MVP, registry calls are therefore serialised; two workers
  show what the database alone guarantees.
- **Transactions.** The connection is SQLite in WAL mode and pysqlite opens a transaction at the first
  `INSERT`. So `register_file` reads the blob row outside of any lock (`RegisterRead`) and writes under
  the write lock (`RegisterWrite`), where the primary key may refuse it. The other writing calls are
  one action. The unique index on `file_records.sha256` has no guard of its own: with the primary key
  of `original_blobs` checked first, it could refuse only a content whose record and blob row had come
  apart, and `BlobsOwned`, a part of the proved invariant, says they never do.
- **Data.** A content is a model value and stands for its SHA-256; `Size` gives its bytes. A name
  matters by whether its extension is allowed, and by being part of the fingerprint. The fingerprint
  keeps what the code hashes, form fields and names, and not the bytes. Blank keys and projects are one
  value. Identifiers are unique (uuid4): a batch is named by its request, a file by request and index.
- **Damage** means another size than the content's, the only damage `_promote` can notice.
- **A client** may send any of `Commands`, in any order, also the same one again while the first is at
  work, which is what a timeout with a retry is. A disconnected client changes nothing: the handler
  runs on.
- **Answers.** A 201 carries the batch row, its records and the duplicates of the call, as the code
  reads them. A replay reads the row and the records in one action, since both statements run on the
  event loop; with a second worker the same tearing is possible as in `GetBatch`, which has a reader
  of its own.
- **Queries** run in FastAPI's threads and in no snapshot: for the reason above a `SELECT` opens no
  transaction. Each statement is an action, and intake may take any step between two of them.

### Lists, migrations, page

- **Pagination.** `created_at` is taken before the transaction, so `Stamp` and `Commit` are two actions
  and rows become visible in another order than that of their times. Filters only choose the rows. The
  cursor's text encoding loses nothing and is left out.
- **Migrations.** Alembic commits after every revision. A DDL statement before the first `UPDATE` or
  `DELETE` of a revision is outside any transaction and durable at once (`Ddl`); later ones are rolled
  back with it. A kill between two durable DDL statements makes the next upgrade fail at the column
  that is already there or gone, and `FailureIsCutDdl` says that nothing else makes it fail. Old rows
  are any consistent subset of `OldFiles`. 0001 and 0002 are represented by their result. Uuids make a new
  row's id differ from every old one's.
- **Page.** The server is its records and the first page of its list; an upload is taken in by one
  action (`Intake` shows why that is allowed), also after the page gave up waiting. The order of rows
  on the page is left out.

### Durable storage

- The parts of a record that matter are the commit's number, its place in the commit and its content.
  Places are numbered by position in the commit, not by counting sidecar records: the order is the
  same, and order and identity are all recovery uses.
- `MemoryStorage` is the list of commits applied, and `Admissible` what `prepareCommit` checks of it:
  ids used once, the life cycle of documents, one content per document and commit. The base or delta
  form of a content with its versions, and the uniqueness of document addresses, are left out.
- One owner uses a directory and commits one after the other (`durable/README.md:28`).
- A process that is killed leaves what it handed to the system, the last append possibly cut short. A
  failing operation has done all, part or none of its work. A power failure happens only when every
  opening asks for `fsync`, keeps of each file a prefix that contains what was flushed, and may cut a
  line anywhere; without the option nothing is promised for it. Truncations are durable at once.
- Sidecars are read in any order. The reclamation of old sidecars that the design document describes
  is not in the code.

### Router and connections

- JavaScript runs on one thread: an action is the code between two awaits, and everything awaited
  (opening, lease, release, close, a call) ends in an action of its own that may succeed or fail.
- Promise jobs that follow each other without waiting for anyone else are one action.
- `serial` chooses the application: the coding agent's, which runs one request after the other, or one
  that does not, so that requests overlap in the router itself.
- A host may refuse a lease, fail to open, fail to close, or die. A reconnecting peer is a new
  connection. The attachment a call names is the one its client was last told of.
- Left out: framing, handshake, cancellation of requests, payloads, creating Sessions.

### Subscriptions

- One singleton service with one replicated state; changes are numbered. Server services answer
  through an endpoint per connection in the same process; the Session route adds a worker in between,
  which is not modelled.
- An update is published at once to every subscriber, and what is sent is received in order. When a
  connection is lost both sides clean up in the same event, and what was under way is lost; jobs
  that the event itself queues are taken with it.
- Left out: publications nested in a listener, withdrawal, keyed instances, method invocation, the
  contents of deltas, aborts of a subscription (the binding never aborts one), and the failure of a
  connection that cannot keep up, which is a loss.

## 4. Runs

| Run | Instance | Question |
|---|---|---|
| `intake_faults` | 2 requests on 1 or 2 workers, 1 failing call, 1 kill, 1 damaged original | does the inductive invariant hold (`RegistryInv`), do records stay readable (`RegisteredReadable`), is there one record per content (`UniqueContent`), do counts and status agree with the records (`SettledSummary`), does the answer report every upload once (`FirstAnswerComplete`) and stay true (`AnswerStands`), does staging keep nothing but what the failing call left there (`StagingReclaimed`) |
| `intake_retries` | 3 requests that repeat keys on 1 or 2 workers, or one with any list of up to 3 uploads out of 8 kinds | do retries agree on the batch (`RetryAgrees`), do the limits hold over a whole batch (`WithinBudget`), does each failure carry its true reason (`FailureCodeTruth`) |
| `intake_service` | 2 requests, 1 worker, 1 failing call, 1 kill, 1 damaged original | does `Intake` implement `IntakeService` (`ServiceSpec`), does every request end (`EveryRequestEnds`) and every batch settle (`EveryBatchSettles`) |
| `intake_queries` | 2 requests, 1 worker, 1 reader, 1 failing call, 1 damaged original | is a batch reported as settled reported in full (`SettledAnswerComplete`), can a file that was found be answered (`FoundFileAnswered`), is a download spoiled only from outside (`DownloadIntact`), do queries keep to their kind (`ViewsOK`) |
| `startup` | every consistent subset of 6 old records in 4 batches, 2 kills, then pages of 2 with new rows | is what was first taken in kept (`FirstRecordKept`), is the database current when the server is up (`HeadIsCurrent`), what makes an upgrade fail (`FailureIsCutDdl`), is what is committed always what whole revisions make of the old rows (`RevisionsWhole`), are pages without gap or repetition (`NothingTwice`, `NothingSkipped`), is each old content listed once (`OldContentsOnce`) |
| `frontend_files` | 3 uploads that share contents, page of 3 | does an answer show its upload (`AnswerShowsUpload`), does the page agree with the server when nothing overlapped (`SequentialUseAgrees`), does no upload stay in progress (`UploadingEnds`), `TypeOK` |
| `jsonl_storage` | up to 4 lines, 1 task and 2 documents, 2 failing operations, 3 crashes or power failures, `fsync` on and off | does opening ever refuse the directory (`NeverCorrupt`), do the files hold the commits (`FilesHoldCommits`), is an open store clean (`OpenIsClean`), is it a `DurableStore` (`StoreSpec`) |
| `session_server` | 2 connections, 2 Sessions, 2 attachments, 2 handles, 1 call, 1 fault; 3 requests in line or 2 in parallel | is every lease accounted for (`LeaseAccounted`), does a connection that switches or is lost give its lease back after its calls (`OwnReleaseAfterCalls`), is a deleted Session out of use (`DeletedSessionUnused`), does shutdown release all (`ShutdownReleasesAll`), does nobody wait for ever (`NothingStuck`) |
| `subscriptions` | 3 subscriptions, 2 changes or replacements, 1 loss, 2 bindings | is there no gap between facade and provider (`NoGap`), is nothing left behind (`NoneLeftBehind`), does the facade catch up (`CatchesUp`) |
| `retry_after_duplicates`, `duplicates_stay`, `lost_connection` | 3 requests without faults; as `frontend_files`; as `session_server` | sentences of the documents that the code does not keep (section 7) |

Why the bounds are enough to make the interesting cases happen:

- *Intake.* `MaxFilesPerBatch = 3`, `MaxFileBytes = 3`, `MaxBatchBytes = 4`, `ChunkBytes = 2`; contents
  of 3, 1, 4 and 0 bytes: a file of two chunks, one over the file limit, one over what is left of the
  batch, a batch filled exactly, an empty file, in every order. Two requests give every interleaving over
  one content or key; a third is needed only for a retry across a batch that was withdrawn in between.
  One of each of `MaxFaults`, `MaxCrashes`, `MaxDecays` reaches every error path, also a failure while a
  failure is handled. The limits do not depend on who else runs, so the requests beside the one that
  tries them in `intake_retries` are turned away.
- *Queries.* One reader suffices, readers share nothing. Contents of one byte keep the writers short;
  a kill is left out, since for a reader it is a request that never goes on.
- *Start-up.* Six records hold a group of three with a tie in time, a group across batches, a failed
  upload, a batch that becomes empty, one that stays half and one that was empty; every consistent subset is tried. Two kills hit two
  revisions, or one twice. `MaxTime = 3` leaves the clock room for new rows tied with old ones and after
  them; ids 0 and 7 sort before and after all others.
- *Page.* Three uploads: two that overlap and one whose answer meets both; a first page of 3 is too
  small for all of them.
- *Storage.* Two faults and three crashes: a commit that fails, a recovery that fails or is killed, and
  a commit that reuses the number. One commit alternates between two sidecars; others need what the
  first created.
- *Router.* Two connections on two Sessions are a switch, a removal under somebody else's attachment
  and a loss; more attachments or handles than two repeat those. `MaxRequests` is larger in line, where
  requests do not multiply.
- *Subscriptions.* Three subscriptions: one under way, one bound again after a loss, one of the next
  binding; two changes are the least that can be reordered or skipped.

Symmetry of requests, connections and Sessions is declared where no definition, initial state or
property tells them apart, and in no run with liveness. Deadlock is checked except in `session_server`,
`lost_connection` and `subscriptions`, where the system rests when peers ask for nothing more; that such a rest leaves
nothing waiting is `NothingStuck` and `NoneLeftBehind`. In `Intake`, `FrontendFiles`, `Migrations` and
`Pagination` a named action (`Idle`, `Rest`, `Done`) is the state in which all is done.

**Fairness.** *Intake*: weak fairness of each request's own next step once it has been received. The
event loop runs every ready task and the thread pool every call; a request waiting for the loop gets
it, because every other one has finitely many steps and releases it at each suspension point.
`EveryRequestEnds` allows a kill, and `EveryBatchSettles` a kill and a failing call, since the code
then does leave the batch in `receiving`: nothing recovers it at start-up. *Page*: a fetch that was
sent is answered or fails. *Subscriptions*: promise jobs run and a connection that is up delivers. Nothing is assumed of clients, users, providers, faults,
kills, losses and reconnections. `NothingStuck` is an invariant: a state in which neither router nor
host nor application can do anything (`Quiet`, through `ENABLED`) has nobody waiting.

## 5. Mutants

Each property of each passing run has, in `PROJECT.json`, a mutated form of a definition of the code
under which TLC finds it violated. The mutated operators stand before the definitions they replace,
with a comment that says which bug they are: a forgotten hash comparison, a batch whose files are read
before its row, a line that goes out before its records are flushed, a lease that goes back while
calls run, an answer discarded without telling the server, and so on.

## 6. Theorems

For every value of the constants that satisfies the named assumptions of the modules:

| Module | Theorem | Statement |
|---|---|---|
| `IntakeProofs` | `TypeCorrect` | `Spec => []TypeOK` |
| | `RegistryInvariant` | `Spec => []RegistryInv` |
| | `ReadableAlways` | `Spec => []RegisteredReadable` |
| | `UniqueAlways` | `Spec => []UniqueContent` |
| | `KeysAlwaysUnique` | `Spec => []LiveKeyUnique` |
| `IntakeAnswerProofs` | `LedgerAlways` | `Spec => []Ledger` |
| | `SummaryAlways` | `Spec => []SettledSummary` |
| | `FirstAnswerAlways` | `Spec => []FirstAnswerComplete` |
| | `AnswerStandsAlways` | `Spec => []AnswerStands` |
| | `RetryAgreesAlways` | `Spec => []RetryAgrees` |
| | `StagingAlwaysReclaimed` | `Spec => []StagingReclaimed` |
| | `ImplementsService` | `Spec => ServiceSpec` |
| | `BudgetAlways` | `Spec => []BudgetInv` |
| | `WithinBudgetAlways` | `Spec => []WithinBudget` |
| | `FailureCodesAlwaysTrue` | `Spec => []FailureCodeTruth` |
| `QueryProofs` | `ViewsAlwaysOK` | `SpecQueries => []ViewsOK` |
| | `SettledAnswersComplete` | `SpecQueries => []SettledAnswerComplete` |
| | `FoundFilesAnswered` | `SpecQueries => []FoundFileAnswered` |
| | `DownloadsIntact` | `SpecQueries => DownloadIntact` |
| `StartupProofs` | `Walk` | `Spec => []WalkInv` |
| | `NothingRepeated` | `Spec => []NothingTwice` |
| | `WalkComplete` | `Spec => []NothingSkipped` |
| | `StartupAlways` | `SpecStartup => []StartupInv` |
| | `FirstRecordAlwaysKept` | `SpecStartup => []FirstRecordKept` |
| | `HeadAlwaysCurrent` | `SpecStartup => []HeadIsCurrent` |
| | `OnlyCutDdlFails` | `SpecStartup => []FailureIsCutDdl` |
| | `RevisionsAlwaysWhole` | `SpecStartup => []RevisionsWhole` |
| | `OldContentsListedOnce` | `SpecStartup => []OldContentsOnce` |
| | `NothingRepeatedAfterStart`, `WalkCompleteAfterStart` | `SpecStartup => []NothingTwice`, `SpecStartup => []NothingSkipped` |
| `FrontendProofs` | `PageAlways` | `Spec => []PageInv` |
| | `TypeAlwaysCorrect` | `Spec => []TypeOK` |
| | `SequentialUseAlwaysAgrees` | `Spec => []SequentialUseAgrees` |
| | `AnswersAlwaysShown` | `Spec => AnswerShowsUpload` |
| `JsonlProofs` | `Inductive` | `Spec => []Ind` |
| | `NeverCorrupts` | `Spec => []NeverCorrupt` |
| | `HoldsCommits` | `Spec => []FilesHoldCommits` |
| | `CleanWhenOpen` | `Spec => []OpenIsClean` |
| | `ImplementsStore` | `Spec => StoreSpec` |
| `SessionServerProofs` | `ServerAlways` | `Spec => []ServerInv` |
| | `LeasesAlwaysAccounted` | `Spec => []LeaseAccounted` |
| | `OwnReleasesAwaitCalls` | `Spec => []OwnReleaseAfterCalls` |
| | `DeletedSessionsUnused` | `Spec => []DeletedSessionUnused` |
| | `ShutdownAlwaysReleases` | `Spec => []ShutdownReleasesAll` |
| `SubscriptionProofs` | `SubscriptionsAlways` | `Spec => []SubscriptionInv` |
| | `NoGapAlways` | `Spec => []NoGap` |
| | `NoneLeftBehindAlways` | `Spec => []NoneLeftBehind` |
| | `ShowsCurrentAlways` | `Spec => []ShowsCurrent` |
| | `NeverClearedAlways` | `Spec => [][NeverCleared]_vars` |

So they hold for any number of requests, workers, readers, uploads, contents, limits, rows, page sizes,
tasks, documents, commits, connections, Sessions, handles, calls, subscriptions, changes, bindings, lost
connections, failing operations, kills, crashes and power failures.

**Intake.** From: sizes and limits are natural numbers, `ChunkBytes` is positive, commands are well
typed, `None` and `Blank` are fresh. Neither readability nor uniqueness is inductive. `UniqueContent` alone does not
survive `RegisterWrite` on the `insert` branch: the absence of a blob row must imply the absence of a
record, hence `BlobsOwned`, blob rows and registered records come together. `RegisteredReadable` does
not survive registration unless the request that registers still has its original, hence `Promoted`:
from `_promote` to the commit the content is in `originals`, or was harmed from outside. Both need to
know that a request beyond validation has the upload it speaks of and, inside the batch, a row:
`Located`. With `TypeOK` and the uniqueness of keys these are `RegistryInv`. Typing and `Located` are proved together, since the
type of the rows `CompleteBatch` and `AnswerBatch` write depends on the row being there; the remaining
conjuncts have a step per group of actions, and actions that change neither registry nor disk are
dealt with once. `LiveKeyUnique`, the last conjunct of `RegistryInv`, needs only typing and `Located`: one action inserts rows, and its guard is the
unique index; `CompleteBatch` keeps keys and `AnswerBatch` only removes rows.

*Answers.* What a 201 says follows from two invariants. `Ledger` is what a request knows of its own
batch: each upload before `cur` has one verdict (`VerdictsAt`), the two counters are the sizes of the
sets of records and duplicates (`CountsAt`), and the row is there from `create_batch` on, `receiving`
until `complete_batch` and then what the counters said (`RowAt`). That a batch is never empty
(`Uploads(r) > 0`) is part of it: `Summary` of nothing would be "completed". `Answers` relates what was sent to it: the batch an answer names has the
request's key, its records are still records of that batch, and a first answer came after the last
upload. `AnswerStands` then follows because only the request that made a batch writes its row or
records, and it has nothing left to write once the row is settled; `RetryAgrees` because a batch with a
record keeps its row (`FilesOf(r) # {}` in `RowAt`), so that two batches with records and one key would
be two live ones, which `LiveKeyUnique` excludes.

*Staging.* How much answered requests leave behind is not inductive, since what will be left is there
before the answer is. `StagingInv` counts the `Debris`: staging files no request is using any more, and
the directories of requests beyond their sweep that left no file. No step that succeeds adds to it: a
file is used from `OpenStaging` until `Tidy` or `Discard` unlinks it, and `rmdir` refuses only a
directory with a file in it. A failing clean-up adds one thing and is one failing call, so that the debris never has
more members than calls have failed (`DebrisStep`). A killed request's file is not counted: nothing ever
removes it (`Crash`).

*Refinement.* `IntakeRefinement` gives the abstract variables names of their own. Each abstract step has
one concrete action: `Promote` is `Store`, `RegisterWrite` `Register`, `RecordFailure` `Refuse`,
`CreateBatch` `Open`, `CompleteBatch` `Settle`, and the 201 that takes its batch back (`AnswerBatch`)
`Withdraw`; every other step leaves all four mapped values as they are. The proof needs the ledger (a slot is free until its
verdict), `RegistryInv` (one owner of a content, so that `CHOOSE` in the mapping has one choice) and
`Answers` (a batch without a row whose own 201 was sent was withdrawn).

*Limits.* `BudgetInv` ties the local `consumed` to the sum of what the accepted uploads before `cur`
have spent, holds each phase of an upload to the limit it was admitted with, and says of each failure
code, at the place where the code chooses it, that its reason holds. The sum is a recursive function
(`SumTo`) over the uploads, and the sets of accepted ones change while it is used, so it must be shown
to exist, to unfold and to depend on the accepted uploads below the bound only. The induction is over the
least counterexample, with the well-foundedness of `<` on the naturals from the library. Where the code
cannot know the reason, a content that another process registered between read and insert, the error
is `storage-unavailable`, and `InsertAt` shows that this takes a second worker: on one event loop
nobody comes between the two.

**Queries.** From intake's assumptions, and that `None` is no record. What must be kept is that what a
reader has read stays true (`Knows`): a record found is still a record, so its batch is never withdrawn
(from the ledger), and after a settled row no record is added (`Ended`). The action property
`DownloadIntact` uses that an original disappears or is damaged only by `Decay`, which leaves its
mark in `decayed`.

**Pagination and start-up.** From: ids are integers, the limit is positive, `None` is no row, the old
records are finitely many with distinct ids. Rows
are never removed, so what has to be kept through a walk is that each row of the beginning is given or
still older than the cursor, and that everything given is the cursor or newer (`WalkInv`). It rests on
the strictness of the order on (time, id): `OlderIsTransitive`, `OlderIsAsymmetric`. Rows that become
visible late, at times before the cursor or after it, do not matter to it.

`UpgradeInv` follows the upgrade statement by statement: each group of equal contents is as it was or
reduced to its oldest record (`GroupsKept`), in what is committed and in what the transaction sees;
both agree outside a transaction, and in it on columns and revision (`OpenInv`); the place of the
program and the revision on record tell which columns and rows there are; while 0003 cleans, what it
fetched is what is still duplicated (`GroupsInv`); and the batches on record are the old ones until 0005
is (`CommitInv`). `RevisionsWhole` follows: with one record per content left, each group was either single
or reduced to its oldest. That the
oldest record exists is proved, not assumed: a finite set of records that are totally ordered by time
and id has a least element (induction over the cardinality, again by least counterexample). `ListInv`
hands the result over: the list begins with the records the upgrade left and new rows never carry
their ids, so `WalkInv` gives each old content once.

**Page.** From: uploads are lists of contents, the page size is positive, `"refresh"` is no upload.
`TypeOK` contains a real claim, that a row is "uploading" only while its upload is under way; for the
step that fails it needs to know that such a row is of a file of its upload (`LocalRowsInv`).
`AnswerShowsUpload` rests on the server: after it took an upload each file has a record or is a duplicate
(`AnsweredAt`), which the list shows unless the first page is full. A full page has `PageSize`
records because no two have the same id (`RecordsInv`), and that holds because an upload is taken once.
`SequentialInv` says that without overlap or failure at most one call is under way and a list that has
arrived is still the server's. The server's loop is a recursive function, treated as `SumTo` is.

**Router and connections.** From: `None` is no request. None of the four properties is inductive. `ServerInv` has the pieces: `ClientAt`
(where an operation is tells which attachments its locals hold), `AttachmentAt` (the life of a lease; a lease
that is held and not being released is leased just now, or is the route to a hosted handle, or
its handle failed to close), `OwnCallsAt` (a release that a connection's own operation began has all
calls in what it waits for, because that operation holds the queue and no call overtakes it),
`HostInv` (one opening or hosted handle per Session), `ShutdownInv` (what is
left in each phase of shutdown), `RequestAt` (what runs in the router was asked for and is the head
of the line), and for the application that serialises `DeletionInv`: while it removes a Session nobody
attaches to it, so what it waits for is all there is. Each action has a lemma per part it
can disturb.

**JSONL storage.** From: ids of entries, tasks and documents are apart, and commits are lists of writes.
That opening finds what was committed is not inductive: it says nothing of records beyond the last
line, and these are what a later commit under the same number could be mixed up with. `DiskInv` adds
what holds of the files in every phase: lines are those of the commits, sidecars are sorted, every
record a line refers to is there (`Present`), every record with a line's number is one it refers to
(`Known`), and with `fsync` it is flushed (`Safe`). `PhaseInv` adds what the phases guarantee: while a
commit is being written its records are the only ones beyond the last line (`Writing`), and when the
store is open there are none, because recovery trimmed each sidecar. The refinement to `DurableStore`
then needs only that memory and files agree when the store is usable.

**Subscriptions.** From: the bounds are natural numbers. `NoGap` speaks of one path from what is shown to
the provider, cut up between client, wire and server; it holds only together with the rest of
`SubscriptionInv`. `RevisionInv`: revisions tell subscriptions apart, so that of all that are still
answered, delivered or closed one at most is wanted, and each rebinding makes strangers of the others.
`ListenerAt`: which parts of a listener are in use in which phase; in particular nothing waits in the wire's form (`wire`),
since the snapshot comes first. `ServedAt` ties the handler on the server to the listener through what is
on the way in both directions: a subscription is asked for once (`AskedOnce`), mentioned to the client
only from its response on, and then its snapshot comes before everything else and once
(`SnapshotFirst`); one that the server holds for a listener that ended has its unsubscribe on the way
(`Leaving`). With that, each step moves an update from one part of the path to the next, puts one at its end, or
takes the first away and shows it. The path is a concatenation (`PathIs`) of what the client keeps, the
updates in the queue (`UpdatesIn`, a recursive function, treated as `SumTo` is) and what waits at the
server. What a broadcast sends, in any order (`SetToSeq`), is shown to hold one update for each
subscription (`SentToEach`). `NothingLeft` reads
`NoneLeftBehind` off the invariant. Two consequences have no run of their own: when nothing is under way
an open binding shows the provider's state (`ShowsCurrent`, the safety half of `CatchesUp`), and an update
out of sequence, at which the replica would clear itself, never arrives (`NeverCleared`).

**Only model-checked.** Liveness and `ENABLED` (`EveryRequestEnds`, `EveryBatchSettles`, `UploadingEnds`,
`CatchesUp`, `NothingStuck`) are out of the prover's reach and stay with TLC. Every other
property of a passing run is a theorem.

## 7. Where documents and code disagree

1. `retry_after_duplicates`: a batch of duplicates only is deleted with its key, so a retry creates a
   new batch (spec line 249: a retry returns the first result and creates no new batch).
2. `duplicates_stay`: the answer to an upload replaces the whole list and with it the duplicates of
   earlier uploads (`frontend/README.md:18`: they stay in the page's state until Reset;
   `App.tsx:122`).
3. `lost_connection`: an attach that reaches the router only after the release of its lost connection
   was over gets a lease that nothing gives back before its Session is removed or the server closes
   (`server/README.md:15` and the test at `conformance.test.ts:383`: losing a connection releases its
   attachment; `session-router.ts:161` looks at `disconnectedClients`, which line 99 has emptied again,
   and nothing on the way looks at the aborted context). What holds the attach up is the application's
   line in the coding agent; in an application that does not serialise, it is the work between a request's
   arrival and its call of the router. TLC's shortest trace is of the second kind (`serial = FALSE`); the
   first differs only in where the request waits.

*One record per content, or one per submission.* The documents contradict each other here, and the
models take the side of the code. `specs/第一阶段后端-spec.md` has a `FileRecord` for every submission:
lines 120-128 ("系统保留两个 FileRecord", the system keeps two records of a content submitted twice), 78
and 286-294 (the second is kept as `registered`, with `duplicate_of_file_id`), and 809 among the
acceptance criteria ("每次提交都保留独立 FileRecord", each submission keeps a record of its own). The
code keeps one: `register_file` returns a duplicate without inserting, migration 0003 deletes the
further records of old databases and makes `file_records.sha256` unique, and 0005 deletes the batches
this leaves empty. `backend/README.md:29` ("同一内容只保留一条 `file_records` 记录"),
`frontend/README.md:18` and the test at `test_intake_api.py:47` describe that. So `UniqueContent`, with
it `RegistryInv`, `HeadIsCurrent` and `RevisionsWhole`, and `OldContentsOnce` state what the code and
the two READMEs promise, and are the opposite of what that specification asks for; by it the second record of a
content should exist, and each of the two old ones be listed. No run states the specification's sentence: one
upload after another, without any interleaving, already violates it, and the test at
`test_intake_api.py:47` shows it.

Met while modelling, without a run of their own: the batch id in a 201 of duplicates only answers 404
(spec line 438 has the GET for recovery after an upload); a retry during the first request gets status
`receiving`, which the type in `client.ts:29` does not have; a duplicate counts in `failed_count` and
can make a batch `failed` (spec line 294: a duplicate keeps its record with status `registered` and is no
failure; the integration tests expect the code's behaviour); a connection whose switch failed after
the old route was released is not told that it has none (`server/README.md:10`, `session-router.ts:166`).

Facts about the router that its properties had to allow: calls admitted while a removal or an
invalidation is already releasing are not waited for; `removeSession` returns at once for a Session
that is still opening; a second removal after a failed close deletes the Session although its handle
is in an unknown state; one Session call that never settles holds up a detach, and with it every
request in the application's line.

## 8. Not modelled

- Of File Router: logging, CORS, the request id header, health checks (stateless), the wording of
  problem documents, path safety checks (they cannot fail on identifiers the server makes), power loss
  (its code syncs nothing, so nothing is promised), downgrades (not run by the program), theme, fonts
  and navigation of the page, and the components that exist only in `specs/`.
- Of `pi-mono`: the agent loop and the harness with its lanes, the worker manager behind the Sessions
  (the router sees it as a handle that grants, refuses, closes, fails or dies), the coding agent's
  sessions and modes, the SQLite storage (its engine gives the atomicity `DurableStore` asks for),
  facets, bundler and delta algebra of Chord, wire codecs, telemetry. Model providers, terminal
  interface and evaluations are input and output without shared state.

## 9. Plan

Done: intake with its refinement; queries in threads; pagination, migrations and start-up; the page;
durable JSONL storage with its refinement; the session router with connections and the application's
line; subscriptions; all of these with proofs of their safety properties. Next, in this order:

1. The session worker manager: processes, coordination files and discovery, composed with
   `SessionRouter` in the place of its free handles.
2. The agent loop and the lanes of the harness on top of `DurableStore`: queues of steering and
   follow-up messages, what a restart resumes.
3. The delta algebra of Chord as pure functions against "apply the difference and get the new value".
