----------------------------- MODULE DumpProofs -----------------------------
(***************************************************************************)
(* Proofs about dumps aimed at one destination, for any dumpers, databases, *)
(* collections, views and patterns, and for stores with and without atomic *)
(* puts.                                                                   *)
(***************************************************************************)
EXTENDS Dump, TLAPS

-----------------------------------------------------------------------------
(* The type invariant *)

LEMMA TypeInitial == Init => TypeOK
BY DumpAssumption DEF Init, TypeOK, NoManifest, Points, Claiming

LEMMA BatchTyped ==
  ASSUME NEW d \in Dumpers, db[d] \in Databases
  PROVE  Mine(d) \in BatchType /\ Batch(d, db[d], FALSE) \in BatchType
BY DEF Mine, Batch, BatchType

\* The claim of the destination.
LEMMA ClaimTypes ==
  ASSUME TypeOK, NEW d \in Dumpers, Claim(d)
  PROVE  TypeOK'
<1>1. CASE Preflight(d)
  BY <1>1 DEF Preflight, Goto, TypeOK, store, batches, progress, Points, Working, Claiming
<1>2. CASE ClearLock(d)
  BY <1>2 DEF ClearLock, Goto, TypeOK, batches, progress, Points, Working, Claiming
<1>3. CASE ClearManifest(d)
  BY <1>3 DEF ClearManifest, NoManifest, Goto, TypeOK, batches, progress, Points, Working, Claiming
<1>4. CASE CheckManifest(d)
  BY <1>4 DEF CheckManifest, Goto, TypeOK, store, batches, progress, Points, Working, Claiming
<1>5. CASE TakeLock(d)
  BY <1>5, DumpAssumption
     DEF TakeLock, PutIfAbsent, Goto, TypeOK, batches, Points, Working, Claiming
<1>6. CASE LockTaken(d)
  BY <1>6 DEF LockTaken, Goto, TypeOK, store, batches, progress, Points, Working, Claiming
<1> QED
  BY <1>1, <1>2, <1>3, <1>4, <1>5, <1>6 DEF Claim

LEMMA DumpDatabaseTypes ==
  ASSUME TypeOK, NEW d \in Dumpers, DumpDatabase(d)
  PROVE  TypeOK'
<1> USE DEF Goto, TypeOK, Points, Working, Claiming
<1>1. CASE ListDatabases(d)
  BY <1>1 DEF ListDatabases, Accessible, store, batches
<1>2. CASE NextDatabase(d) \/ CreateBatch(d) \/ CreateUnanswered(d)
  <2>1. CASE NextDatabase(d)
    BY <2>1 DEF NextDatabase, store, batches
  <2>2. CASE CreateBatch(d) \/ CreateUnanswered(d)
    BY <2>2, BatchTyped DEF CreateBatch, CreateUnanswered, store, progress
  <2> QED
    BY <1>2, <2>1, <2>2
<1>3. CASE ReadInventory(d)
  BY <1>3 DEF ReadInventory, store, batches
<1>4. ASSUME NEW c \in colls[d], SkipCollection(d, c) PROVE TypeOK'
  BY <1>4 DEF SkipCollection, store, batches
<1>5. ASSUME NEW c \in colls[d], ExtendBatch(d, c) PROVE TypeOK'
  BY <1>5 DEF ExtendBatch, store, batches
<1>6. CASE WriteStructure(d)
  BY <1>6 DEF WriteStructure, batches
<1>7. CASE OpenData(d)
  BY <1>7, DumpAssumption DEF OpenData, batches
<1>8. CASE ReadChunk(d)
  <2>1. PICK answer \in Answers(tick[d]) :
          Continues(tick[d], answer) /\ tick' = [tick EXCEPT ![d] = answer.next]
    BY <1>8 DEF ReadChunk
  <2>2. HasMore(tick[d]) /\ answer.next = tick[d] + 1
    BY <2>1 DEF Answers, Continues
  <2>3. tick[d] + 1 \in 0..(Chunks - 1)
    BY <2>2, DumpAssumption DEF HasMore
  <2> QED
    BY <1>8, <2>1, <2>2, <2>3 DEF ReadChunk, store, batches
<1>9. CASE FinishData(d)
  BY <1>9 DEF FinishData, batches
<1>10. ASSUME NEW v \in views[d], WriteView(d, v) PROVE TypeOK'
  BY <1>10 DEF WriteView, batches
<1>11. CASE FinishDatabase(d)
  BY <1>11, BatchTyped DEF FinishDatabase, DeleteBatch, store, progress
<1> QED
  BY <1>1, <1>2, <1>3, <1>4, <1>5, <1>6, <1>7, <1>8, <1>9, <1>10, <1>11 DEF DumpDatabase

LEMMA FinishTypes ==
  ASSUME TypeOK, NEW d \in Dumpers, Finish(d)
  PROVE  TypeOK'
<1> USE DEF Goto, TypeOK, Points, Working, Claiming
<1>1. CASE OpenManifest(d)
  BY <1>1 DEF OpenManifest, batches, progress
<1>2. CASE Publish(d)
  BY <1>2 DEF Publish, batches, progress
<1>3. CASE CloseBatch(d)
  BY <1>3, BatchTyped DEF CloseBatch, DeleteBatch, store, progress
<1>4. CASE Unlock(d)
  BY <1>4 DEF Unlock, batches, progress
<1> QED
  BY <1>1, <1>2, <1>3, <1>4 DEF Finish

LEMMA TypePreserved == TypeOK /\ [Next]_vars => TypeOK'
<1> SUFFICES ASSUME TypeOK, [Next]_vars PROVE TypeOK'
  OBVIOUS
<1>1. ASSUME NEW d \in Dumpers, Claim(d) PROVE TypeOK'
  BY <1>1, ClaimTypes
<1>2. ASSUME NEW d \in Dumpers, DumpDatabase(d) PROVE TypeOK'
  BY <1>2, DumpDatabaseTypes
<1>3. ASSUME NEW d \in Dumpers, Finish(d) PROVE TypeOK'
  BY <1>3, FinishTypes
<1>4. ASSUME NEW d \in Dumpers, Fail(d) PROVE TypeOK'
  BY <1>4 DEF Fail, ErrorTarget, TypeOK, Points, Working, store, batches, progress
<1>5. ASSUME NEW d \in Dumpers, Crash(d) PROVE TypeOK'
  BY <1>5 DEF Crash, TypeOK, Points, store, batches, progress
<1>6. ASSUME NEW d \in Dumpers, Expire(d) PROVE TypeOK'
  BY <1>6 DEF Expire, TypeOK, store, progress
<1>7. CASE Stopped \/ UNCHANGED vars
  BY <1>7 DEF Stopped, TypeOK, vars, store, batches, progress
<1> QED
  BY <1>1, <1>2, <1>3, <1>4, <1>5, <1>6, <1>7 DEF Next

\* Every variable stays in its type; a data stream never asks for a chunk after
\* the last one.
THEOREM TypeCorrect == Spec => []TypeOK
BY TypeInitial, TypePreserved, PTL DEF Spec

-----------------------------------------------------------------------------
(* One writer *)

\* The strengthening of OneWriter: whoever works holds the lock.
WorkerHoldsLock ==
  overwriting = {} => \A d \in Dumpers : pc[d] \in Working => lock = d

\* Without --overwrite the lock is taken when it is free and freed by its owner
\* alone.
LEMMA LockPreserved ==
  TypeOK /\ WorkerHoldsLock /\ [Next]_vars => WorkerHoldsLock'
<1> SUFFICES ASSUME TypeOK, WorkerHoldsLock, [Next]_vars, overwriting' = {}
             PROVE  \A e \in Dumpers : pc'[e] \in Working => lock' = e
  BY DEF WorkerHoldsLock
<1>0. overwriting = {}
  BY DEF Next, Claim, DumpDatabase, Finish, Preflight, ClearLock, ClearManifest, CheckManifest,
         TakeLock, LockTaken, ListDatabases, NextDatabase, CreateBatch,
         CreateUnanswered, ReadInventory, SkipCollection, ExtendBatch,
         WriteStructure, OpenData, ReadChunk, FinishData, WriteView, FinishDatabase,
         OpenManifest, Publish, CloseBatch, Unlock, Fail, Crash, Expire, Stopped, store, vars
<1> DEFINE Held == \A e \in Dumpers : pc'[e] \in Working => lock' = e
<1>1. \A e \in Dumpers : pc[e] \in Working => lock = e
  BY <1>0 DEF WorkerHoldsLock
<1>2. pc \in [Dumpers -> Points]
  BY DEF TypeOK
\* A step of d that leaves the lock alone and starts no work.
<1>3. ASSUME NEW d \in Dumpers, NEW to, pc' = [pc EXCEPT ![d] = to], lock' = lock,
             to \in Working => pc[d] \in Working
      PROVE  Held
  BY <1>1, <1>2, <1>3
<1>4. ASSUME NEW d \in Dumpers, Claim(d) PROVE Held
  <2>1. CASE TakeLock(d)
    <3>1. lock = Nobody /\ lock' = d
      BY <2>1 DEF TakeLock, PutIfAbsent
    <3>2. \A e \in Dumpers : pc[e] \notin Working
      BY <1>1, <3>1, DumpAssumption
    <3> QED
      BY <1>2, <2>1, <3>1, <3>2 DEF TakeLock, Goto
  <2>2. CASE Preflight(d) \/ CheckManifest(d) \/ LockTaken(d)
    BY <1>3, <2>2 DEF Preflight, CheckManifest, LockTaken, Goto, store, Working
  <2>3. CASE ClearLock(d)
    BY <1>0, <2>3 DEF ClearLock
  <2>4. CASE ClearManifest(d)
    BY <1>3, <2>4 DEF ClearManifest, Goto, Working
  <2> QED
    BY <1>4, <2>1, <2>2, <2>3, <2>4 DEF Claim
<1>5. ASSUME NEW d \in Dumpers, DumpDatabase(d) PROVE Held
  <2>1. pc[d] \in Working /\ lock' = lock /\ \E to : pc' = [pc EXCEPT ![d] = to]
    BY <1>5 DEF DumpDatabase, ListDatabases, NextDatabase, CreateBatch,
         CreateUnanswered, ReadInventory, SkipCollection, ExtendBatch,
         WriteStructure, OpenData, ReadChunk, FinishData, WriteView, FinishDatabase,
         Goto, Working, store
  <2> QED
    BY <1>3, <2>1
<1>6. ASSUME NEW d \in Dumpers, Finish(d) PROVE Held
  <2>1. CASE OpenManifest(d) \/ Publish(d) \/ CloseBatch(d)
    BY <1>3, <2>1 DEF OpenManifest, Publish, CloseBatch, Goto, Working, store
  <2>2. CASE Unlock(d)
    <3>1. pc[d] \in Working /\ pc' = [pc EXCEPT ![d] = "done"] /\ lock' \in {Nobody, lock}
      BY <2>2 DEF Unlock, Goto, Working
    <3>2. \A e \in Dumpers : pc'[e] \notin Working
      BY <1>1, <1>2, <3>1 DEF Working
    <3> QED
      BY <3>2
  <2> QED
    BY <1>6, <2>1, <2>2 DEF Finish
<1>7. ASSUME NEW d \in Dumpers, Fail(d) PROVE Held
  <2>1. CASE ErrorTarget(d) = "failed"
    BY <1>3, <1>7, <2>1 DEF Fail, Working, store
  <2>2. CASE pc[d] \in Batched
    BY <1>3, <1>7, <2>2 DEF Fail, Batched, Working, store
  <2> QED
    BY <2>1, <2>2 DEF ErrorTarget
<1>8. ASSUME NEW d \in Dumpers, Crash(d) PROVE Held
  BY <1>3, <1>8 DEF Crash, Working, store
<1>9. ASSUME NEW d \in Dumpers, Expire(d) PROVE Held
  BY <1>1, <1>9 DEF Expire, store
<1>10. CASE Stopped \/ UNCHANGED vars
  BY <1>1, <1>10 DEF Stopped, vars, store
<1> QED
  BY <1>4, <1>5, <1>6, <1>7, <1>8, <1>9, <1>10 DEF Next

LEMMA LockInvariant == Spec => []WorkerHoldsLock
<1>1. Init => WorkerHoldsLock
  BY DEF Init, WorkerHoldsLock, Working
<1> QED
  BY <1>1, LockPreserved, TypeCorrect, PTL DEF Spec

\* Without --overwrite two dumps never write to one destination at the same
\* time, whatever fails, dies or expires (claim_destination).
THEOREM OneWriterCorrect == Spec => []OneWriter
<1>1. WorkerHoldsLock => OneWriter
  BY DEF WorkerHoldsLock, OneWriter
<1> QED
  BY <1>1, LockInvariant, PTL


-----------------------------------------------------------------------------
(* What is published is intact *)

DataPath(d, c) == Path(d, c, "data")

\* Before the first batch is open a dump has no entries; those it has
\* are of databases it does not come back to.
OtherDatabases(d) ==
  /\ pc[d] \in {"idle", "claiming", "clearing", "locking", "listing"} => entries[d] = {}
  /\ d \notin AllDatabases /\ pc[d] \in {"opening", "creating", "reading"} => entries[d] = {}
  /\ d \in AllDatabases /\ pc[d] \in Working =>
       \A path \in entries[d] : path[1] \notin dbs[d]
  /\ d \in AllDatabases /\ pc[d] \in {"creating"} \cup Batched => db[d] \notin dbs[d]
  /\ pc[d] \in {"creating", "reading"} => \A path \in entries[d] : path[1] # Prefix(d)

\* The data of a collection that is still to come is not in the manifest yet,
\* so opening the object spoils nothing.
Unwritten(d) ==
  /\ pc[d] \in {"dumping", "extended", "structured", "streaming"} =>
       \A c \in colls[d] : DataPath(d, c) \notin entries[d]
  /\ pc[d] \in {"extended", "structured", "streaming"} =>
       current[d] \notin colls[d] /\ DataPath(d, current[d]) \notin entries[d]

\* Every entry of a dump that works is at the destination, put by it to its end.
Backed(d) ==
  overwriting = {} /\ pc[d] \in Working => \A path \in entries[d] : Landed(path, d)

WriteOnce == \A d \in Dumpers : OtherDatabases(d) /\ Unwritten(d)

EntriesBacked == \A d \in Dumpers : Backed(d)

\* The functions the steps update have a value for every dumper.
PerDumper ==
  /\ DOMAIN colls = Dumpers /\ DOMAIN entries = Dumpers /\ DOMAIN current = Dumpers
  /\ DOMAIN views = Dumpers /\ DOMAIN dumped = Dumpers

DumperStep(d) ==
  Claim(d) \/ DumpDatabase(d) \/ Finish(d) \/ Fail(d) \/ Crash(d) \/ Expire(d)

\* A step of one dumper leaves the progress of the others alone.
LEMMA OthersUntouched ==
  ASSUME TypeOK, PerDumper, NEW d \in Dumpers, DumperStep(d)
  PROVE  /\ PerDumper' /\ overwriting' = overwriting
         /\ \A e \in Dumpers \ {d} :
              /\ pc'[e] = pc[e] /\ dbs'[e] = dbs[e] /\ db'[e] = db[e]
              /\ colls'[e] = colls[e] /\ entries'[e] = entries[e] /\ current'[e] = current[e]
              /\ views'[e] = views[e] /\ dumped'[e] = dumped[e]
<1> DEFINE Kept ==
      /\ PerDumper' /\ overwriting' = overwriting
      /\ \A e \in Dumpers \ {d} :
           /\ pc'[e] = pc[e] /\ dbs'[e] = dbs[e] /\ db'[e] = db[e]
           /\ colls'[e] = colls[e] /\ entries'[e] = entries[e] /\ current'[e] = current[e]
           /\ views'[e] = views[e] /\ dumped'[e] = dumped[e]
<1> USE DEF TypeOK, PerDumper, Goto, store, batches, progress
<1>1. CASE Claim(d)
  BY <1>1 DEF Claim, Preflight, ClearLock, ClearManifest, CheckManifest, TakeLock, LockTaken
<1>2. CASE DumpDatabase(d)
  <2>1. CASE \/ ListDatabases(d) \/ NextDatabase(d) \/ CreateBatch(d) \/ CreateUnanswered(d)
            \/ ReadInventory(d)
    BY <2>1 DEF ListDatabases, NextDatabase, CreateBatch, CreateUnanswered, ReadInventory
  <2>2. CASE \E c \in colls[d] : SkipCollection(d, c) \/ ExtendBatch(d, c)
    BY <2>2 DEF SkipCollection, ExtendBatch
  <2>3. CASE WriteStructure(d)
    BY <2>3 DEF WriteStructure
  <2>4. CASE OpenData(d) \/ ReadChunk(d)
    BY <2>4 DEF OpenData, ReadChunk
  <2>5. CASE FinishData(d)
    BY <2>5 DEF FinishData
  <2>6. ASSUME NEW v \in views[d], WriteView(d, v) PROVE Kept
    <3>1. entries' = entries \/ entries' = [entries EXCEPT ![d] = @ \cup {Path(d, v, "view")}]
      BY <2>6 DEF WriteView
    <3> QED
      BY <2>6, <3>1 DEF WriteView
  <2>7. CASE FinishDatabase(d)
    BY <2>7 DEF FinishDatabase
  <2> QED
    BY <1>2, <2>1, <2>2, <2>3, <2>4, <2>5, <2>6, <2>7 DEF DumpDatabase
<1>3. CASE Finish(d)
  BY <1>3 DEF Finish, OpenManifest, Publish, CloseBatch, Unlock
<1>4. CASE Fail(d) \/ Crash(d) \/ Expire(d)
  BY <1>4 DEF Fail, Crash, Expire
<1> QED
  BY <1>1, <1>2, <1>3, <1>4 DEF DumperStep

\* What a step of d does to the order in which d writes its own artifacts.
LEMMA WriteOnceKept ==
  ASSUME TypeOK, PerDumper, NEW d \in Dumpers, OtherDatabases(d), Unwritten(d), DumperStep(d)
  PROVE  OtherDatabases(d)' /\ Unwritten(d)'
<1> DEFINE Kept == OtherDatabases(d)' /\ Unwritten(d)'
<1> USE DEF TypeOK, PerDumper, Goto, store, batches, progress,
        OtherDatabases, Unwritten, DataPath, Path, Prefix, Working, Batched
<1>1. CASE Claim(d)
  <2>1. CASE TakeLock(d)
    BY <2>1 DEF TakeLock
  <2>2. CASE ~TakeLock(d)
    BY <1>1, <2>2 DEF Claim, Preflight, ClearLock, ClearManifest, CheckManifest, LockTaken
  <2> QED
    BY <2>1, <2>2
<1>2. CASE ListDatabases(d)
  BY <1>2 DEF ListDatabases
<1>3. CASE NextDatabase(d) \/ CreateBatch(d) \/ CreateUnanswered(d)
  <2>1. CASE NextDatabase(d)
    <3>1. PICK next \in dbs[d] :
            /\ pc[d] = "opening" /\ pc'[d] = "creating" /\ entries' = entries
            /\ db'[d] = next /\ dbs'[d] = dbs[d] \ {next}
      BY <2>1 DEF NextDatabase
    <3> QED
      BY <3>1
  <2>2. CASE CreateBatch(d) \/ CreateUnanswered(d)
    BY <2>2 DEF CreateBatch, CreateUnanswered
  <2> QED
    BY <1>3, <2>1, <2>2
<1>4. CASE ReadInventory(d)
  BY <1>4 DEF ReadInventory
<1>5. ASSUME NEW c \in colls[d], SkipCollection(d, c) PROVE Kept
  BY <1>5 DEF SkipCollection
<1>6. ASSUME NEW c \in colls[d], ExtendBatch(d, c) PROVE Kept
  BY <1>6 DEF ExtendBatch
<1>7. CASE WriteStructure(d)
  BY <1>7 DEF WriteStructure
<1>8. CASE OpenData(d) \/ ReadChunk(d)
  BY <1>8 DEF OpenData, ReadChunk
<1>9. CASE FinishData(d)
  BY <1>9 DEF FinishData
<1>10. ASSUME NEW v \in views[d], WriteView(d, v) PROVE Kept
  <2>1. entries'[d] \subseteq entries[d] \cup {Path(d, v, "view")}
    BY <1>10 DEF WriteView
  <2>2. pc[d] = "dumping" /\ pc' = pc /\ colls' = colls /\ dbs' = dbs /\ db' = db
    BY <1>10 DEF WriteView
  <2> QED
    BY <2>1, <2>2
<1>11. CASE FinishDatabase(d)
  BY <1>11 DEF FinishDatabase
<1>12. CASE Finish(d)
  BY <1>12 DEF Finish, OpenManifest, Publish, CloseBatch, Unlock
<1>13. CASE Fail(d)
  BY <1>13 DEF Fail, ErrorTarget, Claiming, Unpinned
<1>14. CASE Crash(d) \/ Expire(d)
  BY <1>14 DEF Crash, Expire
<1> QED
  BY <1>1, <1>2, <1>3, <1>4, <1>5, <1>6, <1>7, <1>8, <1>9, <1>10, <1>11, <1>12, <1>13, <1>14
     DEF DumperStep, DumpDatabase

LEMMA WriteOncePreserved ==
  TypeOK /\ PerDumper /\ WriteOnce /\ [Next]_vars => PerDumper' /\ WriteOnce'
<1> SUFFICES ASSUME TypeOK, PerDumper, WriteOnce, [Next]_vars PROVE PerDumper' /\ WriteOnce'
  OBVIOUS
<1>1. ASSUME NEW d \in Dumpers, DumperStep(d) PROVE PerDumper' /\ WriteOnce'
  <2>1. PerDumper' /\ OtherDatabases(d)' /\ Unwritten(d)'
    BY <1>1, OthersUntouched, WriteOnceKept DEF WriteOnce
  <2>2. ASSUME NEW e \in Dumpers \ {d} PROVE OtherDatabases(e)' /\ Unwritten(e)'
    <3>1. /\ pc'[e] = pc[e] /\ dbs'[e] = dbs[e] /\ db'[e] = db[e]
          /\ colls'[e] = colls[e] /\ entries'[e] = entries[e] /\ current'[e] = current[e]
      BY <1>1, OthersUntouched
    <3>2. OtherDatabases(e) /\ Unwritten(e)
      BY DEF WriteOnce
    <3> QED
      BY <3>1, <3>2 DEF OtherDatabases, Unwritten, DataPath, Path, Prefix
  <2> QED
    BY <2>1, <2>2 DEF WriteOnce
<1>2. CASE Stopped \/ UNCHANGED vars
  BY <1>2 DEF Stopped, vars, store, progress, PerDumper, WriteOnce, OtherDatabases, Unwritten,
              DataPath, Path, Prefix
<1> QED
  BY <1>1, <1>2 DEF Next, DumperStep

\* A dump starts to work without entries.
LEMMA StartsEmpty ==
  ASSUME TypeOK, NEW d \in Dumpers, DumperStep(d), OtherDatabases(d),
         pc[d] \notin Working, pc'[d] \in Working
  PROVE  entries'[d] = {}
<1> USE DEF Goto, TypeOK, Working, Claiming, Batched, Unpinned
<1>1. ~(DumpDatabase(d) \/ Finish(d))
  BY DEF DumpDatabase, ListDatabases, NextDatabase, CreateBatch,
         CreateUnanswered, ReadInventory, SkipCollection, ExtendBatch,
         WriteStructure, OpenData, ReadChunk, FinishData, WriteView, FinishDatabase,
         Finish, OpenManifest, Publish, CloseBatch, Unlock
<1>2. ~(Fail(d) \/ Crash(d) \/ Expire(d))
  BY DEF Fail, ErrorTarget, Crash, Expire
<1>3. ~(Preflight(d) \/ ClearLock(d) \/ ClearManifest(d) \/ CheckManifest(d) \/ LockTaken(d))
  BY DEF Preflight, ClearLock, ClearManifest, CheckManifest, LockTaken
<1>4. TakeLock(d)
  BY <1>1, <1>2, <1>3 DEF DumperStep, Claim
<1> QED
  BY <1>4 DEF TakeLock, OtherDatabases

\* Only a dump that works writes artifacts, and only under its own name; it
\* never opens the object of an entry again.
LEMMA Writes ==
  ASSUME TypeOK, PerDumper, NEW d \in Dumpers, DumperStep(d), OtherDatabases(d), Unwritten(d)
  PROVE  \/ objects' = objects /\ entries'[d] \in {entries[d], {}}
         \/ /\ pc[d] \in Working
            /\ \E path, state :
                 /\ Put(d, path, state)
                 /\ \/ state \in {"whole", "cut"} /\ entries'[d] = entries[d] \cup {path}
                    \/ path \notin entries[d] /\ entries'[d] = entries[d]
<1> DEFINE Written ==
      \/ objects' = objects /\ entries'[d] \in {entries[d], {}}
      \/ /\ pc[d] \in Working
         /\ \E path, state :
              /\ Put(d, path, state)
              /\ \/ state \in {"whole", "cut"} /\ entries'[d] = entries[d] \cup {path}
                 \/ path \notin entries[d] /\ entries'[d] = entries[d]
<1> USE DEF Goto, store, batches, progress, PerDumper
<1>1. CASE Claim(d)
  BY <1>1 DEF Claim, Preflight, ClearLock, ClearManifest, CheckManifest, TakeLock, LockTaken
<1>2. CASE \/ ListDatabases(d) \/ NextDatabase(d) \/ CreateBatch(d) \/ CreateUnanswered(d)
           \/ ReadInventory(d) \/ ReadChunk(d) \/ FinishDatabase(d)
  BY <1>2 DEF ListDatabases, NextDatabase, CreateBatch, CreateUnanswered, ReadInventory, ReadChunk,
              FinishDatabase
<1>3. ASSUME NEW c \in colls[d], SkipCollection(d, c) \/ ExtendBatch(d, c) PROVE Written
  BY <1>3 DEF SkipCollection, ExtendBatch
<1>4. CASE WriteStructure(d)
  BY <1>4 DEF WriteStructure, Working
<1>5. CASE OpenData(d)
  <2>1. pc[d] = "structured" /\ entries' = entries
    BY <1>5 DEF OpenData
  <2>2. DataPath(d, current[d]) \notin entries[d]
    BY <2>1 DEF Unwritten
  <2>3. objects' = objects \/ Put(d, DataPath(d, current[d]), "partial")
    BY <1>5 DEF OpenData, DataPath
  <2> QED
    BY <2>1, <2>2, <2>3 DEF Working
<1>6. CASE FinishData(d)
  BY <1>6 DEF FinishData, Streamed, Working
<1>7. ASSUME NEW v \in views[d], WriteView(d, v) PROVE Written
  <2>1. CASE Restorable(v, dumped[d])
    BY <1>7, <2>1 DEF WriteView, Working
  <2>2. CASE ~Restorable(v, dumped[d])
    BY <1>7, <2>2 DEF WriteView
  <2> QED
    BY <2>1, <2>2
<1>8. CASE Finish(d) \/ Fail(d) \/ Crash(d) \/ Expire(d)
  BY <1>8 DEF Finish, OpenManifest, Publish, CloseBatch, Unlock, Fail, Crash, Expire
<1> QED
  BY <1>1, <1>2, <1>3, <1>4, <1>5, <1>6, <1>7, <1>8 DEF DumperStep, DumpDatabase

LEMMA BackedPreserved ==
  TypeOK /\ PerDumper /\ WorkerHoldsLock /\ WriteOnce /\ EntriesBacked /\ [Next]_vars
    => EntriesBacked'
<1> SUFFICES ASSUME TypeOK, PerDumper, WorkerHoldsLock, WriteOnce, EntriesBacked, [Next]_vars
             PROVE  EntriesBacked'
  OBVIOUS
<1>1. ASSUME NEW d \in Dumpers, DumperStep(d), overwriting = {}, NEW e \in Dumpers,
             pc'[e] \in Working, NEW p \in entries'[e]
      PROVE  Landed(p, e)'
  <2>1. \/ objects' = objects /\ entries'[d] \in {entries[d], {}}
        \/ /\ pc[d] \in Working
           /\ \E path, state :
                /\ Put(d, path, state)
                /\ \/ state \in {"whole", "cut"} /\ entries'[d] = entries[d] \cup {path}
                   \/ path \notin entries[d] /\ entries'[d] = entries[d]
    BY <1>1, Writes DEF WriteOnce
  <2>2. \A f \in Dumpers : pc[f] \in Working => lock = f
    BY <1>1 DEF WorkerHoldsLock
  <2>3. \A f \in Dumpers : pc[f] \in Working => \A q \in entries[f] : Landed(q, f)
    BY <1>1 DEF EntriesBacked, Backed
  <2>4. CASE e # d
    <3>1. pc[e] \in Working /\ entries'[e] = entries[e]
      BY <1>1, <2>4, OthersUntouched
    <3>2. objects' = objects
      BY <2>1, <2>2, <2>4, <3>1
    <3> QED
      BY <1>1, <2>3, <3>1, <3>2 DEF Landed
  <2>5. CASE e = d /\ pc[d] \notin Working
    <3>1. entries'[d] = {}
      BY <1>1, <2>5, StartsEmpty DEF WriteOnce
    <3> QED
      BY <1>1, <2>5, <3>1
  <2>6. CASE e = d /\ pc[d] \in Working
    <3>1. CASE objects' = objects /\ entries'[d] \in {entries[d], {}}
      BY <1>1, <2>3, <2>6, <3>1 DEF Landed
    <3>2. ASSUME NEW path, NEW state, Put(d, path, state),
                 \/ state \in {"whole", "cut"} /\ entries'[d] = entries[d] \cup {path}
                 \/ path \notin entries[d] /\ entries'[d] = entries[d]
          PROVE  Landed(p, e)'
      <4>1. p \in DOMAIN objects'
        BY <1>1, <2>3, <2>6, <3>2 DEF Put, Landed
      <4>2. CASE p = path
        BY <1>1, <2>6, <3>2, <4>1, <4>2 DEF Put, Landed
      <4>3. CASE p # path
        BY <1>1, <2>3, <2>6, <3>2, <4>1, <4>3 DEF Put, Landed
      <4> QED
        BY <4>2, <4>3
    <3> QED
      BY <2>1, <3>1, <3>2
  <2> QED
    BY <2>4, <2>5, <2>6
<1>2. ASSUME NEW d \in Dumpers, DumperStep(d) PROVE EntriesBacked'
  <2>1. overwriting' = overwriting
    BY <1>2, OthersUntouched
  <2> QED
    BY <1>1, <1>2, <2>1 DEF EntriesBacked, Backed
<1>3. CASE Stopped \/ UNCHANGED vars
  BY <1>3 DEF Stopped, vars, store, progress, EntriesBacked, Backed, Landed
<1> QED
  BY <1>2, <1>3 DEF Next, DumperStep

\* A manifest becomes whole by the hand of a dump that works, with its entries.
LEMMA Published ==
  ASSUME TypeOK, [Next]_vars, manifest'.whole, manifest' # manifest
  PROVE  \E d \in Dumpers :
           pc[d] = "publishing" /\ manifest' = [by |-> d, whole |-> TRUE, entries |-> entries[d]]
<1> USE DEF Goto, store, batches, progress
<1>1. PICK d \in Dumpers : DumperStep(d)
  BY DEF Next, DumperStep, Stopped, vars
<1>2. ~Claim(d)
  BY DEF Claim, Preflight, ClearLock, ClearManifest, NoManifest, CheckManifest, TakeLock, LockTaken
<1>3. ~DumpDatabase(d)
  BY DEF DumpDatabase, ListDatabases, NextDatabase, CreateBatch,
         CreateUnanswered, ReadInventory, SkipCollection, ExtendBatch,
         WriteStructure, OpenData, ReadChunk, FinishData, WriteView, FinishDatabase
<1>4. ~(Fail(d) \/ Crash(d) \/ Expire(d))
  BY DEF Fail, Crash, Expire
<1>5. ~(OpenManifest(d) \/ CloseBatch(d) \/ Unlock(d))
  BY DEF OpenManifest, CloseBatch, Unlock
<1>6. Publish(d)
  BY <1>1, <1>2, <1>3, <1>4, <1>5 DEF DumperStep, Finish
<1> QED
  BY <1>6 DEF Publish

\* Without --overwrite, at the moment a manifest lands every artifact it names
\* is at the destination, put to its end by the same dump (the manifest is
\* written last, under the lock).
THEOREM PublishedIntactCorrect == Spec => PublishedIntact
<1> DEFINE IInv == PerDumper /\ WorkerHoldsLock /\ WriteOnce /\ EntriesBacked
<1>1. Init => IInv
  BY DEF Init, PerDumper, WorkerHoldsLock, WriteOnce, OtherDatabases, Unwritten, EntriesBacked,
         Backed, Working, Batched
<1>2. TypeOK /\ IInv /\ [Next]_vars => IInv'
  BY LockPreserved, WriteOncePreserved, BackedPreserved
<1>3. ASSUME TypeOK, IInv, [Next]_vars, manifest'.whole, manifest' # manifest, overwriting = {},
             NEW path \in manifest'.entries
      PROVE  Landed(path, manifest'.by)
  <2>1. PICK d \in Dumpers :
          pc[d] = "publishing" /\ manifest' = [by |-> d, whole |-> TRUE, entries |-> entries[d]]
    BY <1>3, Published
  <2> QED
    BY <1>3, <2>1 DEF EntriesBacked, Backed, Working
<1>4. TypeOK /\ IInv /\ [Next]_vars =>
        [manifest'.whole /\ manifest' # manifest /\ overwriting = {} =>
           \A path \in manifest'.entries : Landed(path, manifest'.by)]_vars
  BY <1>3
<1> QED
  BY <1>1, <1>2, <1>4, TypeCorrect, PTL DEF Spec, PublishedIntact

-----------------------------------------------------------------------------
(* Batches are released *)

\* While these points last the batch of db[d] is the dump's to delete; an
\* all-databases dump that failed there has left it behind, a dead one has left
\* whatever it had.
HasBatch(d) ==
  \/ pc[d] \in {"reading", "dumping", "extended", "structured", "streaming", "dead"}
  \/ d \notin AllDatabases /\ pc[d] \in {"publishing", "closing", "aborting"}
  \/ d \in AllDatabases /\ pc[d] = "failed"

\* Every batch of d that d knows of is the one it works with, or one it tried to
\* delete: no database is left before its batch has been given up.
BatchAccounted(d) ==
  \A batch \in pinned :
    batch.by = d /\ batch.known /\ pc[d] # "dead" =>
      batch \in undeleted \/ (HasBatch(d) /\ batch.base = db[d])

BatchesAccounted == \A d \in Dumpers : BatchAccounted(d)

LEMMA BatchesPreserved ==
  TypeOK /\ BatchesAccounted /\ [Next]_vars => BatchesAccounted'
<1> SUFFICES ASSUME TypeOK, BatchesAccounted, [Next]_vars PROVE BatchesAccounted'
  OBVIOUS
<1> USE DEF TypeOK, Goto, store, batches, progress
<1>1. ASSUME NEW d \in Dumpers, DumperStep(d), BatchAccounted(d) PROVE BatchAccounted(d)'
  <2> USE DEF BatchAccounted, HasBatch
  <2>1. CASE Claim(d)
    <3>1. CASE TakeLock(d)
      BY <1>1, <3>1 DEF TakeLock
    <3>2. CASE ~TakeLock(d)
      BY <1>1, <2>1, <3>2
         DEF Claim, Preflight, ClearLock, ClearManifest, CheckManifest, LockTaken
    <3> QED
      BY <3>1, <3>2
  <2>2. CASE ListDatabases(d) \/ NextDatabase(d)
    BY <1>1, <2>2 DEF ListDatabases, NextDatabase
  <2>3. CASE CreateBatch(d) \/ CreateUnanswered(d)
    <3>1. /\ pc[d] = "creating" /\ UNCHANGED <<undeleted, db>>
          /\ \/ pc'[d] = "creating" /\ pinned' = pinned \cup {Batch(d, db[d], FALSE)}
             \/ pc'[d] = "reading" /\ pinned' = pinned \cup {Batch(d, db[d], TRUE)}
      BY <2>3 DEF CreateBatch, CreateUnanswered, Mine
    <3> QED
      BY <1>1, <3>1 DEF Batch
  <2>4. CASE FinishDatabase(d) \/ CloseBatch(d)
    <3>1. /\ db' = db /\ pc[d] \notin {"dead", "failed"}
          /\ \/ pinned' = pinned \ {Mine(d)} /\ undeleted' = undeleted
             \/ pinned' = pinned /\ undeleted' = undeleted \cup {Mine(d)}
      BY <2>4 DEF FinishDatabase, CloseBatch, DeleteBatch
    <3>2. \A batch \in pinned : batch.by = d /\ batch.known /\ batch.base = db[d] => batch = Mine(d)
      BY DEF Mine, Batch, BatchType
    <3> QED
      BY <1>1, <3>1, <3>2
  <2>5. CASE \/ ReadInventory(d) \/ WriteStructure(d) \/ OpenData(d) \/ ReadChunk(d) \/ FinishData(d)
             \/ \E c \in colls[d] : SkipCollection(d, c) \/ ExtendBatch(d, c)
             \/ \E v \in views[d] : WriteView(d, v)
    <3>1. /\ UNCHANGED <<pinned, undeleted, db>>
          /\ pc[d] \in {"reading", "dumping", "extended", "structured", "streaming"}
          /\ pc'[d] \in {"reading", "dumping", "extended", "structured", "streaming"}
      BY <2>5 DEF ReadInventory, SkipCollection, ExtendBatch, WriteStructure, OpenData, ReadChunk,
                  FinishData, WriteView
    <3> QED
      BY <1>1, <3>1
  <2>6. CASE OpenManifest(d)
    <3>1. /\ UNCHANGED <<pinned, undeleted, db>> /\ pc'[d] = "publishing"
          /\ pc[d] = IF d \in AllDatabases THEN "opening" ELSE "dumping"
      BY <2>6 DEF OpenManifest
    <3> QED
      BY <1>1, <3>1
  <2>7. CASE Publish(d) \/ Unlock(d)
    BY <1>1, <2>7 DEF Publish, Unlock
  <2>8. CASE Fail(d)
    <3>1. /\ UNCHANGED <<pinned, undeleted, db>> /\ pc[d] \in Claiming \cup Unpinned \cup Batched
          /\ pc'[d] = IF pc[d] \in Batched /\ d \notin AllDatabases THEN "aborting" ELSE "failed"
      BY <2>8 DEF Fail, ErrorTarget
    <3> QED
      BY <1>1, <3>1 DEF Claiming, Unpinned, Batched
  <2>9. CASE Crash(d) \/ Expire(d)
    BY <1>1, <2>9 DEF Crash, Expire
  <2> QED
    BY <1>1, <2>1, <2>2, <2>3, <2>4, <2>5, <2>6, <2>7, <2>8, <2>9 DEF DumperStep, DumpDatabase, Finish
<1>2. ASSUME NEW d \in Dumpers, DumperStep(d) PROVE BatchesAccounted'
  <2>1. \A e \in Dumpers \ {d} : pc'[e] = pc[e] /\ db'[e] = db[e]
    BY <1>2 DEF DumperStep, Claim, Preflight, ClearLock, ClearManifest, CheckManifest, TakeLock,
         LockTaken, DumpDatabase, ListDatabases, NextDatabase, CreateBatch, CreateUnanswered,
         ReadInventory, SkipCollection, ExtendBatch, WriteStructure, OpenData, ReadChunk, FinishData,
         WriteView, FinishDatabase, Finish, OpenManifest, Publish, CloseBatch, Unlock, Fail, Crash,
         Expire
  <2>2. /\ \A batch \in pinned' : batch.by # d => batch \in pinned
        /\ undeleted \subseteq undeleted'
    BY <1>2 DEF DumperStep, Claim, Preflight, ClearLock, ClearManifest, CheckManifest, TakeLock,
         LockTaken, DumpDatabase, ListDatabases, NextDatabase, CreateBatch, CreateUnanswered,
         ReadInventory, SkipCollection, ExtendBatch, WriteStructure, OpenData, ReadChunk, FinishData,
         WriteView, FinishDatabase, Finish, OpenManifest, Publish, CloseBatch, Unlock, Fail, Crash,
         Expire, DeleteBatch, Mine, Batch
  <2>3. ASSUME NEW e \in Dumpers \ {d} PROVE BatchAccounted(e)'
    BY <2>1, <2>2, <2>3 DEF BatchesAccounted, BatchAccounted, HasBatch
  <2> QED
    BY <1>1, <1>2, <2>3 DEF BatchesAccounted
<1>3. CASE Stopped \/ UNCHANGED vars
  BY <1>3 DEF Stopped, vars, BatchesAccounted, BatchAccounted, HasBatch
<1> QED
  BY <1>2, <1>3 DEF Next, DumperStep

\* A dump that returns leaves no batch it knows of on the server but one it
\* tried to delete and the one of the database an all-databases dump failed in,
\* whatever became of the answers to its creations (run_dump_body).
THEOREM BatchReleasedCorrect == Spec => []BatchReleased
<1>1. Init => BatchesAccounted
  BY DEF Init, BatchesAccounted, BatchAccounted
<1>2. TypeOK /\ BatchesAccounted => BatchReleased
  BY DEF TypeOK, BatchType, BatchesAccounted, BatchAccounted, HasBatch, BatchReleased
<1> QED
  BY <1>1, <1>2, BatchesPreserved, TypeCorrect, PTL DEF Spec

-----------------------------------------------------------------------------
(* What is published is complete *)

Present(d) == {c \in Collections[db[d]] : Selected(c)}
Streaming == {"extended", "structured", "streaming"}

\* The entries of the databases that are done.
PastEntries(d, past) ==
  IF d \in AllDatabases THEN UNION {Wanted(d, base, base) : base \in past} ELSE {}

\* The entries of the database under way.
CurrentEntries(d) ==
  {<<Prefix(d), c, kind>> : c \in dumped[d], kind \in {"structure", "data"}}
    \cup {<<Prefix(d), v, "view">> :
            v \in {w \in Views[db[d]] \ views[d] : Restorable(w, Present(d))}}
    \cup (IF pc[d] \in {"structured", "streaming"} THEN {Path(d, current[d], "structure")} ELSE {})

\* The entries of a dump are those of the databases and collections it is done with.
Collected(d) ==
  /\ pc[d] = "listing" => d \in AllDatabases
  /\ d \notin AllDatabases /\ pc[d] = "opening" => dbs[d] \subseteq {Home}
  /\ d \notin AllDatabases /\ pc[d] \in {"creating"} \cup Batched => db[d] = Home
  /\ pc[d] = "opening" => entries[d] = PastEntries(d, Databases \ dbs[d])
  /\ pc[d] \in {"creating", "reading"} => entries[d] = PastEntries(d, Databases \ (dbs[d] \cup {db[d]}))
  /\ pc[d] \in {"dumping"} \cup Streaming =>
       /\ entries[d] = PastEntries(d, Databases \ (dbs[d] \cup {db[d]})) \cup CurrentEntries(d)
       /\ colls[d] \subseteq Collections[db[d]] /\ views[d] \subseteq Views[db[d]]
       /\ colls[d] # {} => views[d] = Views[db[d]]
  /\ pc[d] = "dumping" => dumped[d] = Present(d) \ colls[d]
  /\ pc[d] \in Streaming =>
       /\ views[d] = Views[db[d]]
       /\ current[d] \in Present(d) \ colls[d]
       /\ dumped[d] = Present(d) \ (colls[d] \cup {current[d]})
  /\ pc[d] = "publishing" => entries[d] = Promised(d)

AllCollected == \A d \in Dumpers : Collected(d)

LEMMA PastMember ==
  ASSUME NEW d \in AllDatabases, NEW past, NEW path
  PROVE  path \in PastEntries(d, past) <=> \E base \in past : path \in Wanted(d, base, base)
<1>1. PastEntries(d, past) = UNION {Wanted(d, base, base) : base \in past}
  BY DEF PastEntries
<1> QED
  BY <1>1, Zenon

\* One database more is done.
LEMMA OneMoreDatabase ==
  ASSUME NEW d \in AllDatabases, NEW past, NEW next
  PROVE  PastEntries(d, past \cup {next}) = PastEntries(d, past) \cup Wanted(d, next, next)
BY PastMember

\* What a step of d adds to its own entries.
LEMMA CollectedKept ==
  ASSUME TypeOK, PerDumper, NEW d \in Dumpers, OtherDatabases(d), Collected(d), DumperStep(d)
  PROVE  Collected(d)'
<1> USE DEF TypeOK, PerDumper, Goto, store, batches, progress, Collected, Batched, Streaming
<1>1. CASE Claim(d)
  <2>1. CASE TakeLock(d)
    <3>1. /\ pc'[d] \in {"listing", "opening"} /\ (d \notin AllDatabases => dbs'[d] = {Home})
          /\ pc'[d] = "opening" <=> d \notin AllDatabases
          /\ entries'[d] = {}
      BY <2>1 DEF TakeLock, OtherDatabases
    <3> QED
      BY <3>1 DEF PastEntries
  <2>2. CASE ~TakeLock(d)
    BY <1>1, <2>2
       DEF Claim, Preflight, ClearLock, ClearManifest, CheckManifest, LockTaken
  <2> QED
    BY <2>1, <2>2
<1>2. CASE ListDatabases(d)
  <2>1. pc'[d] = "opening" /\ dbs'[d] = Databases /\ entries'[d] = {}
    BY <1>2 DEF ListDatabases, Accessible, OtherDatabases
  <2>2. d \in AllDatabases
    BY <1>2 DEF ListDatabases
  <2> QED
    BY <2>1, <2>2 DEF PastEntries
<1>3. CASE NextDatabase(d)
  <2>1. PICK next \in dbs[d] :
          /\ pc[d] = "opening" /\ pc'[d] = "creating" /\ entries' = entries
          /\ db'[d] = next /\ dbs'[d] = dbs[d] \ {next}
    BY <1>3 DEF NextDatabase
  <2>2. Databases \ (dbs'[d] \cup {db'[d]}) = Databases \ dbs[d]
    BY <2>1
  <2>3. entries'[d] = PastEntries(d, Databases \ (dbs'[d] \cup {db'[d]}))
    BY <2>1, <2>2
  <2>4. d \notin AllDatabases => db'[d] = Home
    BY <2>1
  <2> QED
    BY <2>1, <2>3, <2>4 DEF PastEntries
<1>18. CASE CreateBatch(d) \/ CreateUnanswered(d)
  <2>1. /\ pc[d] = "creating" /\ pc'[d] \in {"creating", "reading"} /\ UNCHANGED progress
    BY <1>18 DEF CreateBatch, CreateUnanswered
  <2> QED
    BY <2>1 DEF PastEntries
<1>4. CASE ReadInventory(d)
  <2>1. /\ pc[d] = "reading" /\ pc'[d] = "dumping" /\ entries' = entries /\ dbs' = dbs /\ db' = db
        /\ colls'[d] = Collections[db[d]] /\ views'[d] = Views[db[d]] /\ dumped'[d] = {}
    BY <1>4 DEF ReadInventory
  <2>2. CurrentEntries(d)' = {}
    BY <2>1 DEF CurrentEntries
  <2>3. dumped'[d] = Present(d)' \ colls'[d]
    BY <2>1 DEF Present
  <2> QED
    BY <2>1, <2>2, <2>3 DEF PastEntries
<1>5. ASSUME NEW c \in colls[d], SkipCollection(d, c) PROVE Collected(d)'
  <2>1. /\ ~Selected(c) /\ pc[d] = "dumping" /\ pc' = pc /\ UNCHANGED <<dbs, db, views, dumped, entries, current>>
        /\ colls'[d] = colls[d] \ {c}
    BY <1>5 DEF SkipCollection
  <2>2. CurrentEntries(d)' = CurrentEntries(d)
    BY <2>1 DEF CurrentEntries, Present, Prefix, Path
  <2>3. dumped'[d] = Present(d)' \ colls'[d]
    BY <2>1 DEF Present
  <2> QED
    BY <1>5, <2>1, <2>2, <2>3 DEF PastEntries
<1>6. ASSUME NEW c \in colls[d], ExtendBatch(d, c) PROVE Collected(d)'
  <2>1. /\ Selected(c) /\ pc[d] = "dumping" /\ pc'[d] = "extended"
        /\ UNCHANGED <<dbs, db, views, dumped, entries>>
        /\ colls'[d] = colls[d] \ {c} /\ current'[d] = c
    BY <1>6 DEF ExtendBatch
  <2>2. CurrentEntries(d)' = CurrentEntries(d)
    BY <2>1 DEF CurrentEntries, Present, Prefix, Path
  <2>3. c \in Present(d)' /\ dumped'[d] = Present(d)' \ (colls'[d] \cup {c})
    BY <1>6, <2>1 DEF Present
  <2> QED
    BY <1>6, <2>1, <2>2, <2>3 DEF PastEntries
<1>7. CASE WriteStructure(d)
  <2>1. /\ pc[d] = "extended" /\ pc'[d] = "structured"
        /\ UNCHANGED <<dbs, db, colls, views, dumped, current>>
        /\ entries'[d] = entries[d] \cup {Path(d, current[d], "structure")}
    BY <1>7 DEF WriteStructure
  <2>2. CurrentEntries(d)' = CurrentEntries(d) \cup {Path(d, current[d], "structure")}
    BY <2>1 DEF CurrentEntries, Present, Prefix, Path
  <2> QED
    BY <2>1, <2>2 DEF PastEntries, Present
<1>8. CASE OpenData(d) \/ ReadChunk(d)
  <2>1. /\ pc[d] \in {"structured", "streaming"} /\ pc'[d] = "streaming"
        /\ UNCHANGED <<dbs, db, colls, views, dumped, entries, current>>
    BY <1>8 DEF OpenData, ReadChunk
  <2>2. Prefix(d)' = Prefix(d) /\ Present(d)' = Present(d)
    BY <2>1 DEF Prefix, Present
  <2>3. CurrentEntries(d)' = CurrentEntries(d)
    BY <2>1, <2>2 DEF CurrentEntries, Path
  <2> QED
    BY <2>1, <2>2, <2>3 DEF PastEntries
<1>9. CASE FinishData(d)
  <2>1. /\ pc[d] = "streaming" /\ pc'[d] = "dumping" /\ UNCHANGED <<dbs, db, colls, views, current>>
        /\ entries'[d] = entries[d] \cup {Path(d, current[d], "data")}
        /\ dumped'[d] = dumped[d] \cup {current[d]}
    BY <1>9 DEF FinishData
  <2>2. CurrentEntries(d)' = CurrentEntries(d) \cup {Path(d, current[d], "data")}
    <3>1. {<<Prefix(d), c, kind>> : c \in dumped'[d], kind \in {"structure", "data"}}
            = {<<Prefix(d), c, kind>> : c \in dumped[d], kind \in {"structure", "data"}}
                \cup {<<Prefix(d), current[d], "structure">>, <<Prefix(d), current[d], "data">>}
      BY <2>1
    <3>2. Prefix(d)' = Prefix(d) /\ Present(d)' = Present(d)
      BY <2>1 DEF Prefix, Present
    <3> QED
      BY <2>1, <3>1, <3>2 DEF CurrentEntries, Path
  <2>3. dumped'[d] = Present(d)' \ colls'[d]
    BY <2>1 DEF Present
  <2> QED
    BY <2>1, <2>2, <2>3 DEF PastEntries
<1>10. ASSUME NEW v \in views[d], WriteView(d, v) PROVE Collected(d)'
  <2>1. /\ pc[d] = "dumping" /\ pc' = pc /\ UNCHANGED <<dbs, db, colls, dumped, current>>
        /\ colls[d] = {} /\ views'[d] = views[d] \ {v}
    BY <1>10 DEF WriteView
  <2>2. Present(d)' = Present(d) /\ dumped[d] = Present(d)
    BY <2>1 DEF Present
  <2>3. CASE Restorable(v, Present(d))
    <3>1. entries'[d] = entries[d] \cup {Path(d, v, "view")}
      BY <1>10, <2>2, <2>3 DEF WriteView
    <3>2. {w \in Views[db[d]] \ views'[d] : Restorable(w, Present(d))}
            = {w \in Views[db[d]] \ views[d] : Restorable(w, Present(d))} \cup {v}
      BY <1>10, <2>1, <2>3
    <3>3. CurrentEntries(d)' = CurrentEntries(d) \cup {Path(d, v, "view")}
      BY <2>1, <2>2, <3>2 DEF CurrentEntries, Prefix, Path
    <3> QED
      BY <2>1, <2>2, <3>1, <3>3 DEF PastEntries
  <2>4. CASE ~Restorable(v, Present(d))
    <3>1. entries'[d] = entries[d]
      BY <1>10, <2>2, <2>4 DEF WriteView
    <3>2. {w \in Views[db[d]] \ views'[d] : Restorable(w, Present(d))}
            = {w \in Views[db[d]] \ views[d] : Restorable(w, Present(d))}
      BY <1>10, <2>1, <2>4
    <3>3. CurrentEntries(d)' = CurrentEntries(d)
      BY <2>1, <2>2, <3>2 DEF CurrentEntries, Prefix, Path
    <3> QED
      BY <2>1, <2>2, <3>1, <3>3 DEF PastEntries
  <2> QED
    BY <2>3, <2>4
\* The database is done: its entries are all it can have.
<1>11. ASSUME pc[d] = "dumping", Inventoried(d)
       PROVE  CurrentEntries(d) = Wanted(d, db[d], Prefix(d))
  <2>1. dumped[d] = Present(d) /\ views[d] = {}
    BY <1>11 DEF Inventoried
  <2> QED
    BY <1>11, <2>1 DEF CurrentEntries, Wanted, Present, Restorable
<1>12. CASE FinishDatabase(d)
  <2>1. /\ d \in AllDatabases /\ Inventoried(d) /\ pc[d] = "dumping" /\ pc'[d] = "opening"
        /\ UNCHANGED <<dbs, db, colls, views, entries>>
    BY <1>12 DEF FinishDatabase
  <2>2. db[d] \in Databases /\ db[d] \notin dbs[d] /\ Prefix(d) = db[d]
    BY <2>1 DEF OtherDatabases, Prefix
  <2>3. entries[d] = PastEntries(d, Databases \ (dbs[d] \cup {db[d]})) \cup Wanted(d, db[d], db[d])
    <3>1. CurrentEntries(d) = Wanted(d, db[d], db[d])
      BY <1>11, <2>1, <2>2
    <3>2. entries[d] = PastEntries(d, Databases \ (dbs[d] \cup {db[d]})) \cup CurrentEntries(d)
      BY <2>1
    <3> QED
      BY <3>1, <3>2
  <2>4. Databases \ dbs[d] = (Databases \ (dbs[d] \cup {db[d]})) \cup {db[d]}
    BY <2>2
  <2>5. entries[d] = PastEntries(d, Databases \ dbs[d])
    <3> DEFINE past == Databases \ (dbs[d] \cup {db[d]})
    <3>1. PastEntries(d, past \cup {db[d]}) = PastEntries(d, past) \cup Wanted(d, db[d], db[d])
      <4> DEFINE next == db[d]
      <4>1. d \in AllDatabases
        BY <2>1
      <4> HIDE DEF past, next, TypeOK, PerDumper, Collected
      <4> QED
        BY <4>1, OneMoreDatabase DEF next
    <3>2. entries[d] = PastEntries(d, past) \cup Wanted(d, db[d], db[d])
      BY <2>3
    <3>3. Databases \ dbs[d] = past \cup {db[d]}
      BY <2>4
    <3> HIDE DEF past, Collected
    <3> QED
      BY <3>1, <3>2, <3>3
  <2>6. PastEntries(d, Databases \ dbs[d])' = PastEntries(d, Databases \ dbs[d])
    BY <2>1 DEF PastEntries
  <2> QED
    BY <2>1, <2>5, <2>6
<1>13. CASE OpenManifest(d)
  <2>1. CASE d \in AllDatabases
    <3>1. dbs[d] = {} /\ pc[d] = "opening" /\ pc'[d] = "publishing" /\ entries' = entries
      BY <1>13, <2>1 DEF OpenManifest
    <3>2. entries[d] = Promised(d)
      BY <2>1, <3>1 DEF PastEntries, Promised
    <3> QED
      BY <2>1, <3>1, <3>2 DEF Promised
  <2>2. CASE d \notin AllDatabases
    <3>1. /\ Inventoried(d) /\ pc[d] = "dumping" /\ pc'[d] = "publishing"
          /\ entries' = entries /\ db' = db
      BY <1>13, <2>2 DEF OpenManifest
    <3>2. entries[d] = Wanted(d, Home, Root)
      BY <1>11, <2>2, <3>1 DEF PastEntries, Prefix
    <3> QED
      BY <2>2, <3>1, <3>2 DEF Promised
  <2> QED
    BY <2>1, <2>2
<1>14. CASE Publish(d) \/ CloseBatch(d) \/ Unlock(d)
  BY <1>14 DEF Publish, CloseBatch, Unlock
<1>15. CASE Fail(d)
  BY <1>15 DEF Fail, ErrorTarget
<1>16. CASE Crash(d)
  BY <1>16 DEF Crash
<1>17. CASE Expire(d)
  <2>1. UNCHANGED <<pc, progress>>
    BY <1>17 DEF Expire
  <2>2. CurrentEntries(d)' = CurrentEntries(d) /\ Present(d)' = Present(d)
    BY <2>1 DEF CurrentEntries, Present, Prefix, Path
  <2> QED
    BY <2>1, <2>2 DEF PastEntries
<1> QED
  BY <1>1, <1>2, <1>3, <1>4, <1>5, <1>6, <1>7, <1>8, <1>9, <1>10, <1>12, <1>13, <1>14, <1>15,
     <1>16, <1>17, <1>18 DEF DumperStep, DumpDatabase, Finish

LEMMA CollectedPreserved ==
  TypeOK /\ PerDumper /\ WriteOnce /\ AllCollected /\ [Next]_vars => AllCollected'
<1> SUFFICES ASSUME TypeOK, PerDumper, WriteOnce, AllCollected, [Next]_vars PROVE AllCollected'
  OBVIOUS
<1>1. ASSUME NEW d \in Dumpers, DumperStep(d) PROVE AllCollected'
  <2>1. Collected(d)'
    BY <1>1, CollectedKept DEF WriteOnce, AllCollected
  <2>2. ASSUME NEW e \in Dumpers \ {d} PROVE Collected(e)'
    <3>1. /\ pc'[e] = pc[e] /\ dbs'[e] = dbs[e] /\ db'[e] = db[e]
          /\ colls'[e] = colls[e] /\ entries'[e] = entries[e] /\ current'[e] = current[e]
          /\ views'[e] = views[e] /\ dumped'[e] = dumped[e]
      BY <1>1, OthersUntouched
    <3>2. Collected(e)
      BY DEF AllCollected
    <3>3. CurrentEntries(e)' = CurrentEntries(e) /\ Present(e)' = Present(e)
      BY <3>1 DEF CurrentEntries, Present, Prefix, Path
    <3> QED
      BY <3>1, <3>2, <3>3 DEF Collected, PastEntries
  <2> QED
    BY <2>1, <2>2 DEF AllCollected
<1>2. CASE Stopped \/ UNCHANGED vars
  <2>1. UNCHANGED <<pc, progress>>
    BY <1>2 DEF Stopped, vars
  <2>2. ASSUME NEW e \in Dumpers PROVE Collected(e)'
    <3>1. CurrentEntries(e)' = CurrentEntries(e) /\ Present(e)' = Present(e)
      BY <2>1 DEF progress, CurrentEntries, Present, Prefix, Path
    <3> QED
      BY <2>1, <3>1 DEF progress, AllCollected, Collected, PastEntries
  <2> QED
    BY <2>2 DEF AllCollected
<1> QED
  BY <1>1, <1>2 DEF Next, DumperStep

\* A manifest that is whole names both artifacts of every selected collection
\* and exactly the views that can be restored from them
\* (dump_db_into_manifest, write_views_with_prefix).
THEOREM ManifestCompleteCorrect == Spec => []ManifestComplete
<1> DEFINE IInv == PerDumper /\ WriteOnce /\ AllCollected /\ ManifestComplete
<1>1. Init => IInv
  BY DEF Init, PerDumper, WriteOnce, OtherDatabases, Unwritten, AllCollected, Collected, Batched,
         Streaming, Working, ManifestComplete, NoManifest
<1>2. ASSUME TypeOK, IInv, [Next]_vars PROVE ManifestComplete'
  <2>1. CASE manifest' = manifest
    BY <1>2, <2>1 DEF ManifestComplete, Promised, Wanted
  <2>2. CASE manifest'.whole /\ manifest' # manifest
    <3>1. PICK d \in Dumpers :
            /\ pc[d] = "publishing"
            /\ manifest' = [by |-> d, whole |-> TRUE, entries |-> entries[d]]
      BY <1>2, <2>2, Published
    <3> QED
      BY <1>2, <3>1 DEF AllCollected, Collected, ManifestComplete
  <2> QED
    BY <2>1, <2>2 DEF ManifestComplete
<1>3. TypeOK /\ IInv /\ [Next]_vars => IInv'
  BY <1>2, WriteOncePreserved, CollectedPreserved
<1> QED
  BY <1>1, <1>3, TypeCorrect, PTL DEF Spec

=============================================================================
