# TLA+ model of arangodb-data-tools-rs

`arangox` moves data in and out of ArangoDB: import, export, dump, restore, RDF
loading. This directory specifies the parts of it whose correctness depends on
the order in which concurrent tasks, crashes and retries happen, model-checks
them with TLC, and proves the main results with TLAPS.

All source paths below are relative to `src/crates/`.

## 1. Inventory

| Component | State it keeps | Operations | Interacts with | What makes it correct |
|---|---|---|---|---|
| Adaptive governor, `arangodb-import/src/adaptive.rs` | `limit`, `in_flight`, time of last congestion, a `Notify` | `acquire`, `record_success`, `record_error` | called by every import worker | no lost wake-up, one release per acquire, never more sends than the ceiling, the limit recovers |
| Batcher, `arangodb-import/src/batch.rs` | body, count, index | `into_batches` | readers → batcher → producer | no document lost or reordered, caps respected, batches a function of input and caps |
| Import pipeline, `arangodb-import/src/sender.rs` | byte semaphore, batch channel, workers, checkpoint channel, contiguous prefix | `run_import_with_checkpoint`, `checkpoint_task`, `persist_checkpoint`, `load_checkpoint` | governor, client, object store | checkpoint behind the server, Ok means complete and counted once, bounded memory, no deadlock, resumable after a kill |
| Store backends, `arangodb-storage/src/{store,local,object_store_backend,uri}.rs` | objects | `put_stream`, `put_if_absent`, `get_stream`, `head`, `delete`, `list` | checkpoints, dump, restore, export | a reader sees a whole object |
| Multipart upload, `arangodb-storage/src/resumable.rs` | part objects, `state.json` | `upload_resumable`, `open_resumable`, `delete_resumable` | store | the marker names only complete, matching parts |
| Client, `arangodb-client/src/` | connection, cached token | import, cursors, replication batches, DDL | every command | retries do not lose or repeat results, a refused token is replaced, a final 401 has a reason |
| Retry, `arangodb-tools-core/src/retry.rs` | attempt number | `retry`, `backoff` | client | bounded attempts, delays grow and are capped |
| Manifests and checkpoints, `arangodb-tools-core/src/manifest.rs` | on-disk formats | (de)serialize, fingerprint | import, dump, restore | never applied to something else |
| Dump, `arangodb-dump/src/lib.rs` | lock and manifest objects, server-side batch | claim, dump per database, manifest, release | client, store | one writer per destination, manifest last, batches released |
| Restore, `arangodb-restore/src/lib.rs` | checkpoint of completed units | four phases: collections, views, data and indexes, search-alias views | client, store | a rerun completes what is missing, never applied to another dump |
| Export, `arangodb-export/src/` | open cursor, current part | cursor stream, split writer, encoders | client, store | every document once, framed parts, no cursor left open |
| Readers, edges (`arangodb-import/src/reader/`, `edge.rs`, `format.rs`) | scanner state, position | parse, reshape, check | feed the batcher | what the source says is handed on, whatever the chunks; input that is cut short or malformed is an error, but for commas missing or repeated in an array |
| RDF, `arangodb-rdf/src/` | prefixes and base, open nodes, vertex and edge buffers | parse, map, load | two import streams of one command | Ok means understood, and stored but for what the server refused, both loaders included |
| CLI, progress, redaction, configuration, Python binding | none that outlives a command | wiring and reporting | all of the above | not about ordering |

Components interact in one process through bounded `mpsc` channels, a semaphore,
a mutex-protected receiver and a `Notify`; across processes only through the
server and the object store. The hard behaviours are: workers finishing out of
order; the window between a check and an await; a full channel behind a slow
store; workers that die while batches are buffered; a kill between an
acknowledgement and its checkpoint; a request executed although its response
was lost; several runs of one command sharing a checkpoint; several dumps sharing a
destination; a snapshot that expires under its dump; a cursor, a token or a part
object that somebody else changed since it was read. `PROJECT.json`
lists each hazard at its line, with the properties that cover it or the reason
none does.

## 2. Modules

```
AdaptiveLimiter --(INSTANCE Governor)--> ImportPipeline --(implements)--> ResumableImport
Batcher <--(EXTENDS)-- Readers           fixes the batches that the pipeline numbers
Client  <--(EXTENDS)-- Export            one task's calls among those of other callers
RdfTerms <-(EXTENDS)-- Turtle, Rdf       terms; the parser; the import of what it yields
Turtle  <--(EXTENDS)-- RdfMeaning        what documents mean
Dump    Restore    ResumableUpload       commands over a server and a store of their own
```

Each has an `MC` module with its instance; `AdaptiveLimiterProofs`,
`ImportPipelineProofs`, `DumpProofs`, `ExportProofs`, `RestoreProofs`,
`ResumableUploadProofs` and `InputProofs` (batcher, readers, RDF) hold the
proofs, and `Induction` the lemmas about sums and concatenations that several of
them need. The commands meet only at the server and the store, so every command is modelled
together with the part of the server and of the store that it reads and writes,
in operators named for the request (`CreateBatch`, `AddView`, `Advance`).

`AdaptiveLimiter` - the governor. `gate[t]` is the program point of a task:
`out`, `checking` (its `Notified` exists), `deferred` (the check failed, the
lock is released, the `Notified` is not polled yet), `waiting`, `holding` a
slot, `notifying` (the slot is released, `notify_waiters` not yet called). The
critical sections of `inner` are the actions; what happens outside the lock is
an action of its own. `quiet` abstracts the clock comparison
`last_congestion.elapsed() >= recover_after`.

`Batcher` - `into_batches`. A document is its position; its line is a length.

`Readers` - extends `Batcher` with what feeds it: the JSON-array scanner one
byte at a time in chunks of any size (`ReadChunk`, `NextElement`), JSON lines,
delimited rows with types, merges, renames and removals in the order of the
code, and the edge check with its qualification and its skipped rows. A byte
without meaning to the scanner is any other byte; JSON texts, numerals and
qualified identifiers are given by constants.

`ImportPipeline` - one command, run up to `MaxRuns` times against one
collection and one checkpoint object. The producer is the body of
`run_import_with_checkpoint` (`NextBatch`, `AcquirePermits`, `PushBatch`,
`PushRefused`, `ParseError`); a worker receives, passes the governor, has its
request executed by the server (any number of times: retries), and then sees a
success or an error; `Acknowledge` and `GiveUp` are the code after the
governor's notification; `Report` is `done.send` followed by `drop(permit)`.
The checkpoint task is `Collect`, `DoneClosed` and the write, which is one step
(`AtomicPut`, object stores) or a truncation and a write (`LocalFileSystem`).
`Crash` kills the process in any state and may let requests on the wire be
executed; `Start` and `Refuse` are the rerun. The governor's actions are
conjoined with the worker's, so the composition checks the calls the pipeline
really makes.

`ResumableImport` - what the user is promised: batches reach the collection in
any order, the claim of the checkpoint covers only stored batches and never
shrinks, Ok only when everything is stored. `ImportPipeline` refines it with
`stored <- server`, `claimed <- disk.committed`, `outcome` from `phase`.

`Dump` - invocations of `run_dump_with_progress` aimed at one destination. `pc`
is the program point; `claiming` to `locking` are `claim_destination`, `opening`
and `creating` the loop over databases with the batch of each (`NextDatabase`,
`CreateBatch`), `reading` to `publishing` are `dump_db_into_manifest`, `unlocking` is
`release_destination`. The destination is the lock object, the manifest and the
artifacts by path, each with its writer and its state: `partial` while it is put,
`whole`, or `cut` when a chunk answer without its headers passed for the last one
(`Answers`, `Continues`). The server is the set of pinned replication batches,
each with whether its id reached the dump: the POST that creates a batch may be
executed and its answer lost, and is then sent again (`CreateUnanswered`). `Fail`
is any request that fails, with the error path of that program point; `Crash`
kills the process; `Expire` is the TTL. `AtomicPut` tells object stores from local directories.

`Restore` - runs of the command for one of several dumps. A manifest is a
sequence of artifacts; grouping, the order of units, the split of views and the
fingerprint are operators on it. `pc` is the phase, `at` the position in its
work, `stage` the recording of an item: after the effect, before the write of
the checkpoint, during it. `Fail` stands for errors, kills, and an answer lost
after the server acted (creating a view or a collection again is refused, so
the retry of such a request ends the run).

`ResumableUpload` - `upload_resumable`, `delete_resumable` and a reader
(`open_resumable`) over the keys of a bucket or a directory. A put on a local
directory is a truncation and a write, on an object store one step. An object
store's key is the path behind the prefix with percent escapes (`Encode`);
a listing returns keys as they are stored, without the prefix only where they
begin with it as it was given (`Stripped`), and a path from a listing is escaped
again when it is used. Bytes of the source are their positions, so
a stale part is told from a fresh one.

`Client` - the attempts of calls: obtaining a token, sending, the answer's
class, refresh, retry. All callers share the cache. Tokens are numbers in order
of issue; `expiring` and `dead` are the marks below which tokens are about to
expire and are refused. What a request does on the server is conjoined by the
module that makes it.

`Export` - `document_stream`'s task with its cursor calls, the bounded channel,
and the consumer that frames documents and writes one object or parts and a
manifest. `ServedInSilence` is an answer lost after the request took effect;
`CursorExpires` is the server dropping a cursor that waits for a slow consumer,
since `collection_query` sets no ttl, and the next PUT is then answered 404
(`CursorGone`).
The other callers of the client race with the task for the token.

`Turtle` - the parser of `turtle.rs` over tokens, its `?` being `Then` (prefixes, base, blank node
labels, anonymous nodes, property lists, collections) and the line formats of
`parser.rs`. `RdfMeaning` states what a document means without parsing it: a
tree of statements, its serialization and its triples. `Rdf` - given the
statements read of each document (`Statements`, which `MCRdf` defines by running
the parser of `Turtle` over its input), the mapping to
vertices and edges in its two models, the literal and graph options, the
buffers, the concurrent edge loader behind its channel, collection creation,
and the vertex phase; a failed import may leave its loader running (`orphans`).
`ImportPipeline` covers how a loader's stream reaches the server, so a loader
here stores documents one by one, has one refused in an answer of success
(`Refuse`), or fails. A stored vertex remembers the document it was built from and
whether from all of it: an edge loader that fails ends the parse, and the vertices
built until then are saved.

Operators commented `FAULTY` are variants of the definition below them, each
the kind of slip a patch could introduce. No specification uses them; they
record, for every property, a change of the code that the property detects
(`mutants` in `PROJECT.json`).

Abstractions of the import model: documents inside a batch, byte and document totals of the
checkpoint, metrics, progress events and the ticker are left out. A batch is
applied by the server in one step. Channel capacities are parameters (the code
uses 2 and 4 slots per worker; small ones are harder). A client that gives up
on a request which the server executes only after the run has ended is not
modelled; without overwrite such a request can only add documents. A sender
that panics, and dropping the future half-way, are not modelled.

## 3. Runs

| Run | Instance | Checks |
|---|---|---|
| `limiter` | 3 tasks, limits 1..3 | types and range of the limit, `NoLostWakeup`, `InFlightExact`; with fairness `WaiterRechecks`, `LimitRecovers` |
| `batcher` | every source of `MCBatcher` in chunks of every size; lines of length 1, 2 or 4; byte caps 0, 1, 3, 4, 6; document caps 0..3 | `InputUnderstood`, `NoDocumentLost`, `BatchesBounded`, `BatchesMaximal` |
| `import_resume` | 2 workers, 4 batches, 3 runs, all faults, atomic store | `TypeOK`, `CheckpointBehindServer`, `SuccessIsComplete`, `SummaryExact`, refinement of `ResumableImport` |
| `import_backpressure` | 2 workers, 4 batches of 2, 6, 2, 2 bytes under a cap of 4, channels of one slot, governor on, truncating store, 2 runs | `FinalCheckpointTight`, `PermitsConserved`, `MemoryBounded`, `LimiterSound`; with fairness `RunTerminates` |
| `import_overwrite` | overwrite, 2 batches, no faults | violation of `SuccessIsComplete` |
| `dump` | a single-database dump without `--overwrite` and an `--all-databases` dump with or without it; 2 databases, 2 chunks per collection, local directory; every answer may lack a header, every create may go unanswered | `TypeOK`, `OneWriter`, `ManifestComplete`, `BatchReleased`, `PublishedIntact` |
| `dump_race` | two single-database dumps, object store | violation of `ManifestBacked` |
| `restore` | 4 dumps, 3 runs, all combinations of overwrite, checkpoint, empty and occupied server; truncating store | `TypeOK`, `CheckpointBehindServer`, `RestoreComplete`, `NeverRefused` |
| `upload` | 5 bytes in parts of 2, up to 4 calls, a reader; local, object store; no prefix, a plain and an escaped one; a plain and an escaped base name | `TypeOK`, `UploadFaithful`, `ReadExact`, `DeleteLeavesNothing` |
| `export` | results of 0, 2 and 4 documents in 1, 1 and 3 batches; 3 formats, split or not; 2 attempts, 2 faults, a static credential or a login; channel of 2 | `TypeOK`, `ExportFaithful`, `CursorReleased`, `RefusalExcused`; with fairness `ExportEnds` |
| `export_skip` | the same results, an answer to a cursor PUT may be lost after it took effect | violation of `ExportFaithful` |
| `rdf` | 4 sound documents, 1 with text behind its dots and 2 malformed ones in three formats, 2 imports, 4 mappings, edge channel of 1, at most 1 refused document an import | `TypeOK`, `RdfComplete`; before it starts, `MeaningRead` of 14 documents, 5 sound, 1 with text behind its dots, 8 malformed |

Why these bounds: with three tasks a throttle to one leaves two waiters at
once, the least that distinguishes waking one from waking all. Two workers and
four batches give out-of-order completion with a gap of more than one, a
non-empty resume point and a batch after it; three runs give a resumed run that
is itself interrupted. The sizes make two small batches fit, a small and the
oversized one not, and the oversized one exceed the cap. The byte and document
caps of `batcher` run from "no room" to "never reached", and its sources meet
every state of the scanner at a chunk end.

`dump`: two dumpers are enough for a race, and one of each kind lets the batch
of one be released where the other's is not; a collection that is filtered out
and a view that spans it, a system collection in the second database, and two
chunks, so that a snapshot can expire and an answer be misread between them. Only
one of the two may overwrite, which keeps the instance small: the properties
that admit `--overwrite` follow the course of one dump. `restore`: the large dump
has an edge collection listed first, a collection in two parts, a view of each
type and one collection name in two databases; `later` differs from `small` in
its stamp alone, and the stamps of a database's dumps are assumed to differ
where the dumps do (see below); the third run sees what an interrupted rerun
left. `upload`: 5 bytes give full parts and a short tail; escapes
matter in the prefix and in the base name, separately and together. `export`: a full
channel needs more batches than it has slots; two faults are a loss and an
expiry in one call. `MaxPart` is 3, so parts are cut inside a batch and at its
end. Callers other than the task race with it for the token during the export
of the empty result only (`Shared`), once each (`Racing`); the framing of the
output, which is what the other results exercise, does not depend on the token.
Lost answers after an effect are explored for opening and deleting a cursor
(`SilentOnce`); for fetching they are `export_skip`. `rdf`: vertices
are stored in the order of their buffer; a second import sees the vertices and
the orphaned loader of the first; collections of the wrong kind may be there
from the start. The documents that are not imported differ from those that are
only in how they are parsed.

Fairness. Each task spawned on the runtime is polled while it is ready (weak
fairness per task and kind of step); a request returns because the client has a
timeout and a bounded number of retries; a store write returns. The user, the
clock and the faults are under no obligation: a run may never be restarted, an
error may never or always happen. In `AdaptiveLimiter` no task has to acquire
again, since the input may have ended, and `QuietElapses` is fair because
wall-clock time passes. `WF(w \notin reached /\ ServerExecutes(w))` says that
an attempt is eventually executed; without it a worker could only fail.

In `Export` the task, the consumer and the server of the task's calls keep
going (weak fairness of `TaskStep` and `ConsumerStep`); faults, kills and the
other callers are under no obligation.

### Disagreements the runs show

`import_overwrite`: `ImportOptions::overwrite` is documented as meaningful on
the first request only, but `import_documents` sends it with every batch, and
each one empties the collection. The theorems about the server's content
therefore assume `~Overwrite`.

`export_skip`: the cursor PUT goes through the retry loop like an idempotent
call. When its answer is lost after the server advanced, the retry fetches the
batch after the lost one and the export returns Ok without it.

`dump_race`: a destination is claimed so that two dumps cannot interleave their
artifacts, but the manifest is looked for before the lock is created and not
again after. A dump that looked before another one published and released the
lock writes over the finished dump without `--overwrite`. What `OneWriter` and
`PublishedIntact` say, one writer at a time and a manifest that is true when it
lands, holds nevertheless.

### Known disagreements without a run of their own

The models reproduce each of these; the property named leaves the case out or
excuses it, and TLC finds the case when the exception is dropped from it.

- **Deletes that miss.** `resumable.rs:280` says that `delete_resumable` deletes
  every part object and the completion marker. `object_store_backend.rs:165`
  percent-encodes keys; `list` returns them encoded and strips the prefix as it
  was given. With a prefix or a base name that needs escapes the listed paths
  name other objects when they are used, deleting a missing object is no error,
  and the call returns Ok with every object left. `DeleteLeavesNothing` is about
  prefixes and names that keys spell as they are given (`Legible`).
- **Refused RDF documents.** A document that the server refuses inside an answer of
  success is counted in the summary of its stream, but `RdfImportSummary`
  (`arangodb-rdf/src/lib.rs:333-341`) has no such count, and
  `commands/rdf.rs:240-288` prints `"status": "ok"`. (The import command fails
  when its summary has errors, `commands/import.rs:307`.) `RdfComplete` excepts what
  was refused, and says that nothing else is missing.
- **RDF imports that failed early.** "Keys are derived deterministically, so
  re-importing is idempotent" (`arangodb-rdf/src/lib.rs:33`). When the edge loader
  fails while the parser runs, the vertices built until then are saved and the
  import fails. A rerun of the whole document succeeds, but it ignores vertices that
  exist, and the literals of the statements not read before are never added. In
  the same way a vertex shared by two documents keeps the literals of the first.
  `RdfComplete` speaks of the literals of a vertex only when it was saved from a
  whole reading of the same document.
- **Rerunning a restore.** `docs/resume.md:3-6` and `:44-47` have the *same* command
  rerun to pick up where it left off. Without `--overwrite` the rerun creates the
  collections of its unfinished units again, which the server refuses because
  the interrupted run had created them: only a run with `--overwrite` can be
  resumed. `NeverRefused` is about views, and about runs with `--overwrite`.
- **Batches left pinned.** `run_dump_body` says that the batch is released
  regardless of how the dump finishes. That is true of a batch whose id the dump
  received, without `--all-databases`; with it an error leaves the batch of the
  current database to the TTL. The create itself is a POST that is retried: a batch
  whose answer was lost is known to nobody. `BatchReleased` says of all dumps
  that no other batch is left.
- **Data that ends early.** A chunk answer without a readable
  `x-arango-replication-checkmore` or last-included tick counts as the last one
  (`arangodb-dump/src/lib.rs:690`), so that a manifest can name data that is cut
  short. `PublishedIntact` accepts such an object: it was put to its end. What
  it excludes is an object that an expired snapshot, a failure or another dump
  left unfinished.

### Behaviour worth knowing

- `LocalFileSystem::put_stream` truncates before it writes. A kill in between
  leaves a checkpoint that an identical rerun refuses, for imports and restores,
  until the file is removed (`Refuse`, `LoadCheckpoint`).
- With `--overwrite` a dump deletes the lock and the manifest of another dump,
  running or not; `OneWriter`, `PublishedIntact` and `ManifestBacked` are about
  dumps without it.
- A memory cap above 4 GiB: a request for permits is clamped to `u32::MAX`
  (`PermitsFor`, `MaxPermits`), so that two batches beyond that size can be in
  flight under a cap that has room for one. `MemoryBounded` is about smaller caps.
- `upload_resumable` trusts a part by its length alone. After a change of the
  part size (an argument of the call) a stale part of the right length stays,
  and the upload returns Ok over corrupt content: `UploadFaithful` fails with
  `PartSizes = {2, 3}` and holds for one part size, which the run uses.
- `DumpOptions::default` has an empty `created_at`. Two dumps of one database
  with the same artifacts then have equal fingerprints, although the comment in
  `manifest.rs` calls them enough to tell dumps apart. The command line and the
  Python binding set `created_at`; `MCRestore`'s stamps assume it.
- Creating a view or a collection is retried after a lost answer; the second
  attempt is refused, and the command fails although the object is there.
- The 401 refresh does not cover `list_databases`, `server_role` and
  `replication_dump_chunk`, which apply the token themselves (`direct` calls).
- `columns.rs` says that a leading zero is lost when a number is merged into a
  key; the code and its test keep it. An endpoint merged from a template with
  an empty column (`"c/"`) is not empty, so the row is not skipped.
- The JSON-array scanner accepts missing and repeated commas (the verdict `any` of
  a source), and the parser of N-Triples and N-Quads ignores what follows the dot
  (`trailing` documents); elements that were complete in a chunk
  that turns out malformed are dropped with it.
- Without a blank node scope the labels the parser generates for two files are
  the same, and their anonymous nodes merge.

## 4. Proofs

For every value of the constants that satisfies the named assumption of the
module. `LimiterAssumption` (the floor is
at least one and at most the ceiling, as `AdaptiveConfig::new` builds it) and
`PipelineAssumption` (finitely many workers, at least one, as the code
validates; positive sizes and capacities) are the code's own checks;
`DumpAssumption` asks that `Nobody` is no dumper and that a collection has at
least one chunk, `ClientAssumption` for at least
one attempt, and `ExportAssumption` for results of at least one batch and one
slot in the channel; `BatcherAssumption` says that a line has at least its
newline, `RdfAssumption` that the parser yields triples. A theorem that takes
more as given says so in its statement, and below.

`AdaptiveLimiterProofs` - `TypeCorrect` is inductive as stated (halving with
the floor and growing below the ceiling stay in range). `NoLostWakeupCorrect`
rests on it: a release leaves a task in `notifying`, and that notification
reaches every registered task, polled or not. `InFlightExactCorrect` counts
holders by adding and removing one element of a finite set, and bounds them by
the ceiling, since the limit they were admitted under never exceeds it.

`ImportPipelineProofs` - `TypeCorrect`, component by component.
`CheckpointBehindServerCorrect`: the checkpoint alone is not inductive, because
what is written comes from `nextExpected`, that from `pending`, that from the
channel, and that from a worker's hand. `AcknowledgedIsStored` says that
everything on this path is stored; without overwrite the collection only grows.
`SuccessIsCompleteCorrect`: `NothingDropped` adds that, while no send has
failed, every batch behind the producer is acknowledged, queued or with a
worker (`AllAccounted`), that a worker which stopped without an error saw the
end of the input (`StoppedAtEnd`), and that idle hands are empty
(`HandsClean`). At `Finish` nothing is queued or held, so everything is
acknowledged, hence stored. `NothingDropped` and `AcknowledgedIsStored` were
also checked by TLC on the `import_resume` instance.
`SummaryExactCorrect`: `BeyondResumePoint` says that nothing of the committed
prefix gets past the producer's skip, into the queue, a hand or the summary;
with `AllAccounted` at `Finish`, exactly the rest is recorded. `CountedOnce`
makes it a count: a batch enters the summary when its worker lays it down, and
is then in no other hand and no slot of the channel, so it is not counted again.
`FinalCheckpointTightCorrect`: every acknowledged batch is `Tracked` - below
`nextExpected`, pending, in the done channel or with a worker about to report
it - and the checkpoint task stops only when every worker has exited and the
channel is drained. `CheckpointCurrent` adds that, while the store works and nothing
is dirty, the object holds `Committed`. This theorem needs no hypothesis on `--overwrite`.
`ImplementsResumableImportCorrect`: the claim only grows within a run and from
one to the next (`ClaimGrows`), it is backed by `AcknowledgedIsStored`, and an
outcome of Ok by `NothingDropped`; every step is then a step of
`ResumableImport` or a stutter. It assumes no `--overwrite` and a store that
replaces objects in one step: with a torn object the claim falls back to
nothing. `LimiterSoundCorrect` composes the governor with the pipeline: a slot
is held only by a worker that sends (`SlotInSend`), each call keeps the count
and the waiters, and a start or a crash resets both.
`PermitsConservedCorrect`: a batch in flight is in one place, in the queue once,
in one hand or with the producer at its push (`Placed`), so that `Balanced`, the
permits left and the needs of all of them, changes only by a purchase, a return
or a reset (`BudgetStep`). `MemoryBoundedCorrect` follows, as a batch needs its
size or the whole budget. It assumes `MaxInFlight # 0`, since the code accepts a
budget of zero, and the batches then need no permits at all; and
`MaxInFlight <= MaxPermits`, that one request for permits can name the budget.

`DumpProofs` - every property of the `dump` run. `OneWriterCorrect`: whoever
works holds the lock (`WorkerHoldsLock`), which the conditional create gives and
only the owner's release takes away. `PublishedIntactCorrect`: an entry of the
manifest in the making must not be opened for writing again, on a store that
truncates. That follows from the order of the work: `OtherDatabases` (entries
are of databases that are not to come) and `Unwritten` (the data of a
collection to come is no entry yet). With the lock, the objects behind the
entries are then the dumper's own and put to their end (`EntriesBacked`).
`ManifestCompleteCorrect`: `Collected` states the entries exactly at each
program point, as those of the past databases and of the collections and views
already handled. `BatchReleasedCorrect`: by `BatchesAccounted` every batch whose
id a dump has received is the one it works with or one it tried to delete, for no
database is left before its batch has been given up. TLC checked these invariants on the `dump`
instance before they were proved.

`ExportProofs` - `RefusalExcusedCorrect`, for any number of callers. Every step
of the export is, to the client, a step of one caller or of the server
(`StepShape`). While a call runs without an excuse no token has been withdrawn,
so nobody is about to cache a dead one, and after its refresh neither the cache
nor the call holds one (`Unrefused`). The excuse of a call that began while
another caller was about to store a dead token is necessary: the refreshed call
may take that token from the cache.

`CursorReleasedCorrect`: `Fetching` ties the batch in the task's hand to the
cursor it came with and to the call in progress, and `OneCursor` says that only
that cursor can be open, and that it is gone once a DELETE has been answered.
The caller of the export is the only one that opens cursors, which `Aloof`
states of the others. `TypeCorrect` bounds the channel by its slots and the
batch numbers by the result.

`ExportFaithfulCorrect`, for any result, format, part size and channel.
`Ahead`: what was sent, what is in the channel and what the task still holds
make up the result from its beginning. `Written` and `Feed`: the tokens in the
objects and in the buffer frame exactly the documents taken from the channel
(`Taken`), each finished part on its own. `Attended`: the consumer sees the end
of the stream only when the task has ended without an error. The theorem assumes
`"fetching" \notin SilentOnce`, that no answer to a fetch is lost after it took
effect; `export_skip` shows that it is necessary.

`ResumableUploadProofs` - every property of the `upload` run.
`DeleteLeavesNothingCorrect`, for calls of any part sizes, prefixes and base names
whose key is the path as given (`Legible`): a delete still has in hand every
object that is there (`DeleteShape`), because its listing gives back the paths
the objects were put under. `UploadFaithfulCorrect`: the parts behind a call's
position are whole (`UploadShape`), for a part of the expected length is the part
of this source. `ReadExactCorrect`: until a delete, a marker, torn or not, stands
beside whole parts (`MarkerLast`), so that the reader has returned the beginning
of the source (`ReaderShape`), and a part more is a longer beginning. All but
the delete assume `OnePartSize`: all calls ask for parts of one length. Section 3
says what happens otherwise.

`InputProofs` - the batcher as the readers drive it. To the batcher every step of
the readers is `Document`, `EndOfInput`, `InputError` or nothing (`BatcherStep`),
so its three theorems hold of any input, well-formed or not. `BatchInv`: what was
yielded and what is in the body count the documents (`InOrderSoFar`), each batch
respects the caps and ends where one forced it (`Fine`, `CutByCap`), and the body
is below both (`Ready`).

`InputUnderstoodCorrect`, for any sources, chunks and commands, compares the stream
with the source read in one piece. The scanner's steps do not look at what it has
yielded (`FeedSince`), so a chunk is scanned as it is in one piece (`ChunkScanned`),
and what was yielded stays, as does an error (`ScanKeeps`). `ArrayInv`: between two
reads the scanner is where that scan is, and what is in hand is what it yielded
after the elements handled. `PassedInv`: the records passed were acceptable, and the
values handled are exactly those in them; the next record is then the next value
(`NextValue`). `HandedInv` and `ValuesInv` are the documents and the skipped edges;
that a row keeps the reserved attributes as strings is `RowReserved`, that an
edge sent has both ends `EdgeEnds`. The theorem assumes of every source that in one
piece it is read as its verdict says (`ReadWhole`): what a text means is given by
constants. `WholeSources`, an assumption of `MCBatcher` that TLC evaluates,
says so of the sources of the run. `ReadersAssumption` says that a source is a sequence.

`RdfTypeCorrect` and `RdfCompleteCorrect` rest on three invariants. `Flow` is
where the import, its loader and the edges between them are; only the parser adds
an edge and only with room (`PendingBounded`). `KindsInv`: nothing is stored before its
collection exists with the right kind, also by loaders that outlive their import.
`WorkInv`: of the statements behind the position the vertices are in hand
(`Folded`), one for each place, and the edges are stored, refused or on their way
(`Accounted`) unless the loader failed; once the vertices are done each is stored
or was refused (`Settled`); and whichever import stored a vertex from a whole
document, it has the literals of that document (`Complete`, from `StoredWhole`). That
folding one statement loses nothing of another is `FoldedMore`, which needs keys to be
injective (`PlacementInjective`). `RdfCompleteCorrect` assumes of every document
that the parser reads it as it is meant (`ReadAsMeant`); `MeaningRead`, an
assumption of `MCRdf` that TLC evaluates, says so of its documents. TLC also checked `KindsInv` and `WorkInv` there.

`RestoreProofs` - every property of the `restore` run.
`CheckpointBehindServerCorrect`: phase 1 must not recreate what the checkpoint
claims, also after runs of another dump. `RunBacked`: in the phases, what the
run knows contains what the object says, of the same dump, and is complete.
What gets recorded is complete (`Recordable`) because a unit that is not was
created empty by this very run and has exactly what it has loaded since
(`CreatedAfresh`). `RestoreCompleteCorrect`: `Walked` follows the position
through the four phases, resumable or not - behind it everything is complete,
ahead of it what is not done is as it was created. `NeverRefusedCorrect` reads
off `Walked` that the collections of a view exist in phase 2 and have their
indexes in phase 4; `DroppedAbsent` covers the drop before a create. The
hypotheses: `Distinguished` (equal fingerprints, equal dumps: they hold the
creation time, see section 3), `Orderly` (what the folds of `Units`,
`PlainViews` and `LateViews` compute has no repetition, loses no view and
separates the two kinds: a manifest lists each view once) and, for the refusals
only, `SelfContained` (a dump holds the collections of its views: the dump leaves
out the others, which `ManifestComplete` states and `DumpProofs` proves). They
hold of the instance of the `restore` run, where TLC also checked the invariants.

Sums and concatenations. The prover cannot instantiate the library's induction
theorems, so `Induction` does induction with sets: the least number of a set of
numbers (`LeastNumber`, from the well-foundedness of `<` and its minimal elements),
hence `NatSetInduction` and `FiniteSetInduction`, which take a set instead of a
predicate. The folds of the community modules are then characterised by the
functions that accumulate them (`AccumulatesUnique`, `SumsUnique`), which gives
`FlattenAppend`, `SumAdd` and `SumRemove` for sequences and finite sets of any size.

Only model-checked: what the scanner makes of a whole array and the parsers of
their texts (`WholeSources`, `MeaningRead`), as it is a fold or a recursion over
the input. Liveness under fairness (`WaiterRechecks`, `LimitRecovers`,
`RunTerminates`, `ExportEnds`) is out of the prover's reach and stays with TLC.
So does the grouping of a manifest, of which `RestoreProofs` assumes `Orderly`.

## 5. Plan

Proofs to add: that the scanner yields the elements of any well-formed array, which
needs an induction over its grammar; the property list of `Orderly` for any manifest.

Smaller steps on the models: a sender that panics while it holds a slot; an
import without a checkpoint in a passing run.

### Not modelled

- Compression: stateless wrapping of streams by third-party codecs.
- Progress, redaction, error texts, the Python binding, argument parsing and
  output: formatting, or wiring without state.
- Of the client: `drop_database`, graph definitions and counts, which no other
  command depends on; a login that is itself answered 401; delays, jitter and
  `Retry-After`, which only delay a retry; TLS and connection settings.
- Of the stores: byte ranges, path validation, and the multipart transfers of
  the `object_store` crate.
- Of the readers: decoding of text, number syntax and CSV quoting (libraries),
  and two columns renamed to one attribute.
- Of RDF: characters, escapes and hashes (keys are equal for equal input only),
  and the counts of the summary.
- A `FilePartSource` whose file changes while it is uploaded, and what the
  server does to a view whose collection is replaced.

## 6. Running

```
tlc -workers 2 -config MCImportResume.cfg MCImportPipeline.tla
tlc -workers 2 -config MCDump.cfg MCDump.tla
tlapm DumpProofs.tla
```

The module and the `.cfg` of every run are in `PROJECT.json`; the longest run
takes a little over a minute.
