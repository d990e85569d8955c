-------------------------------- MODULE Dump --------------------------------
(***************************************************************************)
(* Dumps aimed at one destination (crates/arangodb-dump/src/lib.rs):       *)
(* claim_destination with its lock object, replication batches pinned on   *)
(* the server, the artifacts of every selected collection and view, the    *)
(* manifest written last, release_destination.  Each dumper is one         *)
(* invocation of run_dump_with_progress; the store and the server are      *)
(* shared.  An artifact's payload is abstracted to who wrote it and how    *)
(* far it got; a collection's data to a number of chunks.                  *)
(***************************************************************************)
EXTENDS Integers, FiniteSets

CONSTANTS
  Dumpers,         \* invocations of the command
  Nobody,          \* no owner
  AllDatabases,    \* the dumpers run with --all-databases
  Overwriters,     \* those that may run with --overwrite
  Databases,       \* what list_databases returns
  Home,            \* the database of a dump without --all-databases
  Root,            \* the empty path prefix of such a dump
  Collections,     \* Collections[db]: the inventory's collections
  Views,           \* Views[db]: the inventory's views
  Targets,         \* Targets[v]: collections a view's links and indexes name
  System,          \* collections whose name starts with an underscore
  IncludeSystem,   \* DumpOptions::include_system
  Included, Excluded, \* collections matching the include and exclude pattern
  Chunks,          \* dump chunks the server needs for a collection
  AtomicPut        \* put_stream shows nothing before it completes (object stores)

ASSUME DumpAssumption ==
  /\ Nobody \notin Dumpers /\ IsFiniteSet(Dumpers)
  /\ AllDatabases \subseteq Dumpers /\ Overwriters \subseteq Dumpers
  /\ Home \in Databases /\ Chunks \in Nat \ {0}
  /\ IncludeSystem \in BOOLEAN /\ AtomicPut \in BOOLEAN

VARIABLES
  overwriting, \* the dumpers run with --overwrite; fixed from the start
  \* the destination
  lock,      \* owner of dump.in-progress.json, or Nobody
  manifest,  \* dump.manifest.json: who wrote it, whole or not, its entries
  objects,   \* the artifacts: [by, state] of every path present
  \* the server
  pinned,    \* replication batches alive: for whom, on which database, and
             \* whether the answer with its id arrived
  undeleted, \* batches whose delete request failed
  \* each dumper
  pc, dbs, db, colls, views, dumped, entries, current, tick

store == <<overwriting, lock, manifest, objects>>
progress == <<dbs, db, colls, views, dumped, entries, current, tick>>
batches == <<pinned, undeleted>>
vars == <<store, batches, pc, progress>>

NoManifest == [by |-> Nobody, whole |-> FALSE, entries |-> {}]

Init ==
  /\ overwriting \in SUBSET Overwriters
  /\ lock = Nobody /\ manifest = NoManifest /\ objects = << >> /\ pinned = {} /\ undeleted = {}
  /\ pc = [d \in Dumpers |-> "idle"]
  /\ dbs = [d \in Dumpers |-> {}] /\ db = [d \in Dumpers |-> Home]
  /\ colls = [d \in Dumpers |-> {}] /\ views = [d \in Dumpers |-> {}]
  /\ dumped = [d \in Dumpers |-> {}] /\ entries = [d \in Dumpers |-> {}]
  /\ current = [d \in Dumpers |-> Home] /\ tick = [d \in Dumpers |-> 0]

Goto(d, from, to) == pc[d] = from /\ pc' = [pc EXCEPT ![d] = to]

Prefix(d) == IF d \in AllDatabases THEN db[d] ELSE Root
Path(d, name, kind) == <<Prefix(d), name, kind>>

\* put_stream of a finished artifact and manifest.push.
\* The object is "whole"; or "cut", its stream having ended in an answer that
\* lacked a header; or "partial", its stream being open or broken off.
Put(d, path, state) ==
  objects' = [p \in DOMAIN objects \cup {path} |->
                IF p = path THEN [by |-> d, state |-> state] ELSE objects[p]]

Batch(d, base, known) == [by |-> d, base |-> base, known |-> known]

\* The batch whose id the dump has.
Mine(d) == Batch(d, db[d], TRUE)
Alive(d) == Mine(d) \in pinned

(***************************************************************************)
(* What the requests do on the server.                                     *)
(***************************************************************************)

\* list_databases, as far as the credentials reach.
Accessible == Databases

\* A batch that has expired is no error; the result is ignored.
DeleteBatch(d) ==
  \/ pinned' = pinned \ {Mine(d)} /\ UNCHANGED undeleted
  \/ pinned' = pinned /\ undeleted' = undeleted \cup {Mine(d)}

\* A chunk that ends before the last tick says that there is more.
HasMore(from) == from + 1 < Chunks

\* The answers to a request for the chunk after `from`, as the client reads
\* them: a header that is absent or unparsable reads FALSE or 0.
Answers(from) ==
  {[more |-> HasMore(from), next |-> from + 1],
   [more |-> FALSE, next |-> from + 1],
   [more |-> HasMore(from), next |-> 0]}

\* dump_data_stream goes on while the server has more and the tick advances.
Continues(from, answer) == answer.more /\ answer.next # 0 /\ answer.next > from

\* What has been streamed when an answer after `from` ends the data.
Streamed(from) == IF HasMore(from) THEN "cut" ELSE "whole"

\* What /_admin/server/role may answer, or that the probe failed.
Probes == {"SINGLE", "COORDINATOR", "DBSERVER", "PRIMARY", "AGENT", "UNDEFINED", "failed"}
IsCluster(role) == role \in {"COORDINATOR", "DBSERVER", "PRIMARY", "AGENT"}

(***************************************************************************)
(* preflight_topology and claim_destination.                               *)
(***************************************************************************)

\* A cluster is refused; a failed probe is only a warning.
Preflight(d) ==
  /\ \E probe \in Probes : Goto(d, "idle", IF IsCluster(probe) THEN "refused" ELSE "claiming")
  /\ UNCHANGED <<store, batches, progress>>

\* --overwrite: the result of either delete is ignored.
ClearLock(d) ==
  /\ d \in overwriting /\ Goto(d, "claiming", "clearing")
  /\ lock' \in {lock, Nobody}
  /\ UNCHANGED <<overwriting, manifest, objects, batches, progress>>

ClearManifest(d) ==
  /\ Goto(d, "clearing", "locking")
  /\ manifest' \in {manifest, NoManifest}
  /\ UNCHANGED <<overwriting, lock, objects, batches, progress>>

\* Without --overwrite a finished dump at the destination is refused.
CheckManifest(d) ==
  /\ d \notin overwriting
  /\ Goto(d, "claiming", IF manifest = NoManifest THEN "locking" ELSE "refused")
  /\ UNCHANGED <<store, batches, progress>>

\* FAULTY: an unconditional put of the lock object.
TakeLockBlindly(d) ==
  /\ Goto(d, "locking", IF d \in AllDatabases THEN "listing" ELSE "opening")
  /\ lock' = d
  /\ dbs' = [dbs EXCEPT ![d] = {Home}]
  /\ UNCHANGED <<overwriting, manifest, objects, batches, db, colls, views, dumped, entries, current, tick>>

\* A conditional create: the existence check and the creation are one step.
PutIfAbsent(d) == lock = Nobody /\ lock' = d

TakeLock(d) ==
  /\ PutIfAbsent(d)
  /\ Goto(d, "locking", IF d \in AllDatabases THEN "listing" ELSE "opening")
  /\ dbs' = [dbs EXCEPT ![d] = {Home}]
  /\ UNCHANGED <<overwriting, manifest, objects, batches, db, colls, views, dumped, entries, current, tick>>

LockTaken(d) ==
  /\ lock # Nobody /\ Goto(d, "locking", "refused")
  /\ UNCHANGED <<store, batches, progress>>

(***************************************************************************)
(* run_dump_body and dump_db_into_manifest.                                *)
(***************************************************************************)

ListDatabases(d) ==
  /\ Goto(d, "listing", "opening")
  /\ dbs' = [dbs EXCEPT ![d] = Accessible]
  /\ UNCHANGED <<store, batches, db, colls, views, dumped, entries, current, tick>>

NextDatabase(d) ==
  \E next \in dbs[d] :
    /\ Goto(d, "opening", "creating")
    /\ db' = [db EXCEPT ![d] = next]
    /\ dbs' = [dbs EXCEPT ![d] = @ \ {next}]
    /\ UNCHANGED <<store, batches, colls, views, dumped, entries, current, tick>>

\* replication_batch_create.
CreateBatch(d) ==
  /\ Goto(d, "creating", "reading")
  /\ pinned' = pinned \cup {Mine(d)} /\ UNCHANGED undeleted
  /\ UNCHANGED <<store, progress>>

\* The server creates the batch and the answer is lost, or has no id: execute
\* sends the POST again, or the dump fails, and nobody knows that batch.
CreateUnanswered(d) ==
  /\ Goto(d, "creating", "creating")
  /\ pinned' = pinned \cup {Batch(d, db[d], FALSE)} /\ UNCHANGED undeleted
  /\ UNCHANGED <<store, progress>>

ReadInventory(d) ==
  /\ Alive(d) /\ Goto(d, "reading", "dumping")
  /\ colls' = [colls EXCEPT ![d] = Collections[db[d]]]
  /\ views' = [views EXCEPT ![d] = Views[db[d]]]
  /\ dumped' = [dumped EXCEPT ![d] = {}]
  /\ UNCHANGED <<store, batches, dbs, db, entries, current, tick>>

IsSystem(c) == c \in System

\* System collections bypass the filters.
Selected(c) ==
  IF IsSystem(c) THEN IncludeSystem ELSE c \in Included \ Excluded

SkipCollection(d, c) ==
  /\ c \in colls[d] /\ ~Selected(c) /\ Goto(d, "dumping", "dumping")
  /\ colls' = [colls EXCEPT ![d] = @ \ {c}]
  /\ UNCHANGED <<store, batches, dbs, db, views, dumped, entries, current, tick>>

\* replication_batch_extend fails when the batch's TTL has run out.
ExtendBatch(d, c) ==
  /\ c \in colls[d] /\ Selected(c) /\ Alive(d) /\ Goto(d, "dumping", "extended")
  /\ colls' = [colls EXCEPT ![d] = @ \ {c}]
  /\ current' = [current EXCEPT ![d] = c]
  /\ UNCHANGED <<store, batches, dbs, db, views, dumped, entries, tick>>

WriteStructure(d) ==
  LET path == Path(d, current[d], "structure") IN
    /\ Goto(d, "extended", "structured")
    /\ Put(d, path, "whole")
    /\ entries' = [entries EXCEPT ![d] = @ \cup {path}]
    /\ UNCHANGED <<overwriting, lock, manifest, batches, dbs, db, colls, views, dumped, current, tick>>

\* put_stream starts to consume dump_data_stream; a local file is truncated.
OpenData(d) ==
  /\ Goto(d, "structured", "streaming")
  /\ tick' = [tick EXCEPT ![d] = 0]
  /\ IF AtomicPut THEN UNCHANGED objects
                  ELSE Put(d, Path(d, current[d], "data"), "partial")
  /\ UNCHANGED <<overwriting, lock, manifest, batches, dbs, db, colls, views, dumped, entries, current>>

\* FAULTY: one request too many.
ReadChunkPastEnd(d) ==
  /\ Alive(d) /\ tick[d] < Chunks /\ Goto(d, "streaming", "streaming")
  /\ tick' = [tick EXCEPT ![d] = @ + 1]
  /\ UNCHANGED <<store, batches, dbs, db, colls, views, dumped, entries, current>>

\* A chunk with more to come: the next request starts after its last tick.
ReadChunk(d) ==
  /\ Alive(d) /\ Goto(d, "streaming", "streaming")
  /\ \E answer \in Answers(tick[d]) :
       Continues(tick[d], answer) /\ tick' = [tick EXCEPT ![d] = answer.next]
  /\ UNCHANGED <<store, batches, dbs, db, colls, views, dumped, entries, current>>

\* FAULTY: a chunk request on an expired batch ends the data like a last chunk.
FinishDataAnyway(d) ==
  LET path == Path(d, current[d], "data") IN
    /\ Goto(d, "streaming", "dumping")
    /\ Put(d, path, IF Alive(d) THEN Streamed(tick[d]) ELSE "partial")
    /\ entries' = [entries EXCEPT ![d] = @ \cup {path}]
    /\ dumped' = [dumped EXCEPT ![d] = @ \cup {current[d]}]
    /\ UNCHANGED <<overwriting, lock, manifest, batches, dbs, db, colls, views, current, tick>>

\* The last chunk, or one that passes for it, ends the stream with Ok: the
\* object is put and joins the manifest.
FinishData(d) ==
  LET path == Path(d, current[d], "data") IN
    /\ Alive(d) /\ Goto(d, "streaming", "dumping")
    /\ \E answer \in Answers(tick[d]) : ~Continues(tick[d], answer)
    /\ Put(d, path, Streamed(tick[d]))
    /\ entries' = [entries EXCEPT ![d] = @ \cup {path}]
    /\ dumped' = [dumped EXCEPT ![d] = @ \cup {current[d]}]
    /\ UNCHANGED <<overwriting, lock, manifest, batches, dbs, db, colls, views, current, tick>>

\* FAULTY: one collection of the view's targets is enough.
RestorableWithAny(v, present) == Targets[v] \cap present # {}

\* write_views_with_prefix omits a view whose targets were filtered out.
Restorable(v, present) == Targets[v] \subseteq present

WriteView(d, v) ==
  LET path == Path(d, v, "view") IN
    /\ v \in views[d] /\ colls[d] = {} /\ Goto(d, "dumping", "dumping")
    /\ views' = [views EXCEPT ![d] = @ \ {v}]
    /\ IF Restorable(v, dumped[d])
         THEN Put(d, path, "whole") /\ entries' = [entries EXCEPT ![d] = @ \cup {path}]
         ELSE UNCHANGED <<objects, entries>>
    /\ UNCHANGED <<overwriting, lock, manifest, batches, dbs, db, colls, dumped, current, tick>>

Inventoried(d) == colls[d] = {} /\ views[d] = {}

\* --all-databases: the batch is deleted, then the next database is opened.
FinishDatabase(d) ==
  /\ d \in AllDatabases /\ Inventoried(d) /\ Goto(d, "dumping", "opening")
  /\ DeleteBatch(d)
  /\ UNCHANGED <<store, progress>>

\* put_stream of the manifest begins: a local file is truncated.
OpenManifest(d) ==
  /\ IF d \in AllDatabases THEN dbs[d] = {} /\ Goto(d, "opening", "publishing")
                           ELSE Inventoried(d) /\ Goto(d, "dumping", "publishing")
  /\ manifest' = IF AtomicPut THEN manifest ELSE [by |-> d, whole |-> FALSE, entries |-> {}]
  /\ UNCHANGED <<overwriting, lock, objects, batches, progress>>

Publish(d) ==
  /\ Goto(d, "publishing", IF d \in AllDatabases THEN "unlocking" ELSE "closing")
  /\ manifest' = [by |-> d, whole |-> TRUE, entries |-> entries[d]]
  /\ UNCHANGED <<overwriting, lock, objects, batches, progress>>

(***************************************************************************)
(* The ends of a dump.                                                     *)
(***************************************************************************)

\* Without --all-databases the batch is deleted whatever the result was.
CloseBatch(d) ==
  /\ \/ Goto(d, "closing", "unlocking")
     \/ Goto(d, "aborting", "failed")
  /\ DeleteBatch(d)
  /\ UNCHANGED <<store, progress>>

\* release_destination deletes the lock object; a failure is only logged.
Unlock(d) ==
  /\ Goto(d, "unlocking", "done")
  /\ lock' \in {Nobody, lock}
  /\ UNCHANGED <<overwriting, manifest, objects, batches, progress>>

\* Program points at which a request to the server or the store may fail.
Claiming == {"claiming", "locking"}
Unpinned == {"listing", "opening", "creating"}
Batched == {"reading", "dumping", "extended", "structured", "streaming", "publishing"}

\* FAULTY: the error returns before the batch is deleted.
AfterError(d) == "failed"

\* Where an error leads: only a single-database dump has its batch to delete.
ErrorTarget(d) ==
  IF pc[d] \in Batched /\ d \notin AllDatabases THEN "aborting" ELSE "failed"

\* The lock is not released: the destination holds a partial dump.
Fail(d) ==
  /\ pc[d] \in Claiming \cup Unpinned \cup Batched
  /\ pc' = [pc EXCEPT ![d] = ErrorTarget(d)]
  /\ UNCHANGED <<store, batches, progress>>

Crash(d) ==
  /\ pc[d] \notin {"idle", "refused", "failed", "done", "dead"}
  /\ pc' = [pc EXCEPT ![d] = "dead"]
  /\ UNCHANGED <<store, batches, progress>>

\* The server drops a batch whose TTL has run out, as far as a dump notices:
\* the others only take up room until then.
Expire(d) ==
  /\ Alive(d) /\ pinned' = pinned \ {Mine(d)}
  /\ UNCHANGED undeleted
  /\ UNCHANGED <<store, pc, progress>>

Ended == \A d \in Dumpers : pc[d] \in {"refused", "failed", "done", "dead"}
Stopped == Ended /\ UNCHANGED vars

Claim(d) ==
  Preflight(d) \/ ClearLock(d) \/ ClearManifest(d) \/ CheckManifest(d)
    \/ TakeLock(d) \/ LockTaken(d)

DumpDatabase(d) ==
  \/ ListDatabases(d) \/ NextDatabase(d) \/ CreateBatch(d) \/ CreateUnanswered(d)
  \/ ReadInventory(d)
  \/ \E c \in colls[d] : SkipCollection(d, c) \/ ExtendBatch(d, c)
  \/ WriteStructure(d) \/ OpenData(d) \/ ReadChunk(d) \/ FinishData(d)
  \/ \E v \in views[d] : WriteView(d, v)
  \/ FinishDatabase(d)

Finish(d) == OpenManifest(d) \/ Publish(d) \/ CloseBatch(d) \/ Unlock(d)

Next ==
  \/ \E d \in Dumpers :
       Claim(d) \/ DumpDatabase(d) \/ Finish(d) \/ Fail(d) \/ Crash(d) \/ Expire(d)
  \/ Stopped

Spec == Init /\ [][Next]_vars

(***************************************************************************)
(* Properties                                                              *)
(***************************************************************************)

\* Between claim_destination and release_destination.
Working == {"listing", "opening", "creating", "reading", "dumping", "extended", "structured",
            "streaming", "publishing", "closing", "aborting", "unlocking"}

Points == Working \cup Claiming
            \cup {"idle", "clearing", "refused", "failed", "done", "dead"}

BatchType == [by : Dumpers, base : Databases, known : BOOLEAN]

\* Types.
TypeOK ==
  /\ overwriting \subseteq Dumpers
  /\ lock \in Dumpers \cup {Nobody}
  /\ manifest.by \in Dumpers \cup {Nobody}
  /\ pinned \subseteq BatchType /\ undeleted \subseteq BatchType
  /\ pc \in [Dumpers -> Points]
  /\ dbs \in [Dumpers -> SUBSET Databases] /\ db \in [Dumpers -> Databases]
  /\ tick \in [Dumpers -> 0..(Chunks - 1)]

\* Without --overwrite two dumps never write to one destination at the same
\* time: the conditional create of the lock object is the real gate
\* (claim_destination, "two dumps aimed at one prefix cannot interleave").
OneWriter ==
  overwriting = {} =>
    \A d, e \in Dumpers : pc[d] \in Working /\ pc[e] \in Working => d = e

\* The artifacts that one dump of d must contain.
Wanted(d, base, prefix) ==
  LET present == {c \in Collections[base] : Selected(c)}
      kept == {v \in Views[base] : Targets[v] \subseteq present}
  IN {<<prefix, c, kind>> : c \in present, kind \in {"structure", "data"}}
       \cup {<<prefix, v, "view">> : v \in kept}

Promised(d) ==
  IF d \in AllDatabases THEN UNION {Wanted(d, base, base) : base \in Databases}
                        ELSE Wanted(d, Home, Root)

\* Dump d has put the object to its end: it is whole, unless an answer without
\* its headers passed for the last one.
Landed(path, d) ==
  path \in DOMAIN objects /\ objects[path].by = d /\ objects[path].state \in {"whole", "cut"}

\* When a manifest lands, every artifact it names is at the destination, put to
\* its end by the same dump, whatever other dumps failed, died or had their
\* snapshot expire there before (module doc: the manifest is written last).
PublishedIntact ==
  [][manifest'.whole /\ manifest' # manifest /\ overwriting = {} =>
       \A path \in manifest'.entries : Landed(path, manifest'.by)]_vars

\* A manifest names both artifacts of every selected collection and exactly the
\* views that can be restored from it, so a restore never meets a view whose
\* collections are missing.
ManifestComplete ==
  manifest.whole => manifest.entries = Promised(manifest.by)

\* A dump that returns leaves no batch pinned that it knows of, but one it tried
\* to delete in vain and, with --all-databases, the one of the database it failed
\* in (run_dump_body: "Ensure the batch is released regardless of how the dump
\* finishes" is said, and true, of a single database).  A batch whose answer was
\* lost is out of its reach and waits for its TTL.
BatchReleased ==
  \A batch \in pinned :
    batch.known /\ pc[batch.by] \in {"refused", "failed", "done"} =>
      \/ batch \in undeleted
      \/ /\ batch.by \in AllDatabases /\ pc[batch.by] = "failed"
         /\ batch.base = db[batch.by]

\* What a whole manifest names stays as its dump wrote it: "two dumps aimed at
\* one prefix cannot interleave their artifacts" (run_dump_with_progress).  A
\* dump that checked for a manifest before another one published and unlocked
\* still takes the lock.
ManifestBacked ==
  overwriting = {} /\ manifest.whole =>
    \A path \in manifest.entries : Landed(path, manifest.by)

=============================================================================
