--------------------------- MODULE ImportPipeline ---------------------------
(***************************************************************************)
(* One resumable import (crates/arangodb-import/src/sender.rs,             *)
(* run_import_with_checkpoint): a producer takes batches from the          *)
(* deterministic batcher, buys in-flight bytes from a semaphore and pushes *)
(* them on a bounded channel; workers send them through the adaptive       *)
(* limiter; a checkpoint task persists the contiguous acknowledged prefix. *)
(* The process may be killed at any point and the same command rerun.      *)
(*                                                                         *)
(* A batch is its index.  The collection on the server is the set of       *)
(* batches stored in it.                                                   *)
(***************************************************************************)
EXTENDS Integers, Sequences, FiniteSetsExt

CONSTANTS
  Workers,        \* the sender tasks
  NBatches,       \* number of batches the input yields
  Size,           \* byte length of each batch
  MaxInFlight,    \* ConcurrencyConfig::max_in_flight_bytes
  MaxPermits,     \* the largest number of permits one request can name (u32::MAX)
  ChannelSlots,   \* capacity of the batch channel (workers * 2)
  DoneSlots,      \* capacity of the checkpoint channel (workers * 4)
  Adaptive,       \* ConcurrencyConfig::adaptive
  Checkpointing,  \* whether a CheckpointConfig is given
  AtomicPut,      \* the store replaces an object in one step (object stores)
                  \* or truncates it and then writes (LocalFileSystem)
  Overwrite,      \* ImportOptions::overwrite
  SendFaults,     \* sends may fail after retries
  ParseFaults,    \* the input stream may yield an error
  StoreFaults,    \* checkpoint writes may fail
  MaxRuns         \* bound on the number of times the command is run

Batches == 1..NBatches

ASSUME PipelineAssumption ==
  /\ Workers # {} /\ IsFiniteSet(Workers)
  /\ NBatches \in Nat
  /\ Size \in [Batches -> Nat \ {0}]
  /\ MaxInFlight \in Nat
  /\ MaxPermits \in Nat \ {0}
  /\ ChannelSlots \in Nat \ {0}
  /\ DoneSlots \in Nat \ {0}
  /\ MaxRuns \in Nat
  /\ {Adaptive, Checkpointing, AtomicPut, Overwrite,
      SendFaults, ParseFaults, StoreFaults} \subseteq BOOLEAN

VARIABLES
  \* the command
  phase,       \* "idle", "running", or how the last run ended
  runs,        \* runs started so far
  resumeFrom,  \* committed_batches loaded at the start of the run
  \* the producer (the body of run_import_with_checkpoint)
  producer,    \* "batch", "acquire", "push" or "done"
  nextBatch,   \* index of the batch the batcher yields next
  parseFailed, \* `produced` is an error
  permits,     \* permits left in the byte semaphore
  queue,       \* the batch channel
  \* the workers
  worker,      \* "recv", "send", "succeeded", "failed", "report" or "exited"
  holds,       \* the batch a worker holds together with its permits, 0 if none
  sendFailed,  \* workers that returned an error
  acked,       \* batches the workers' summaries have recorded in this run
  counted,     \* ImportSummary::batches, over all the workers
  limit, inFlight, quiet, gate, woken,  \* the limiter
  \* the checkpoint task
  keeper,      \* "off", "recv", "write" (interval), "final" or "closed"
  doneQueue,   \* the checkpoint channel
  pending,     \* completed out of order
  nextExpected,\* lowest batch not known committed
  dirty,       \* progress not yet written
  \* what outlives the process
  disk,        \* the checkpoint object
  reached,     \* workers whose current request the server has executed
  server       \* batches stored in the collection

Governor == INSTANCE AdaptiveLimiter WITH
  Tasks <- Workers, MaxConcurrency <- Cardinality(Workers),
  MinConcurrency <- 1, Enabled <- Adaptive

commandVars  == <<phase, runs, resumeFrom>>
producerVars == <<producer, nextBatch, parseFailed>>
workerVars   == <<worker, holds, sendFailed, acked, counted>>
limiterVars  == <<limit, inFlight, quiet, gate, woken>>
keeperVars   == <<keeper, doneQueue, pending, nextExpected, dirty>>
remoteVars   == <<reached, server>>
vars == <<commandVars, producerVars, permits, queue, workerVars,
          limiterVars, keeperVars, disk, remoteVars>>

(***************************************************************************)
(* Helpers                                                                 *)
(***************************************************************************)

\* FAULTY: one permit per batch, whatever its size.
PermitPerBatch(b) == 1

\* FAULTY: no clamp, so a batch above the cap asks for more than there is.
PermitsUnclamped(b) == Size[b]

\* permits_for: the batch's bytes, clamped to the cap and to the permit type.
PermitsFor(b) ==
  LET clamped == IF Size[b] < MaxInFlight THEN Size[b] ELSE MaxInFlight IN
    IF clamped <= MaxPermits THEN clamped ELSE MaxPermits

\* Every worker owns a clone of the receiver; the last one to exit closes it.
ReceiverOpen == \E w \in Workers : worker[w] # "exited"

\* The producer's sender half has been dropped.
SenderDropped == producer = "done"

\* FAULTY: takes next_expected itself for the committed count.
CommittedOneMore == nextExpected

Committed == nextExpected - 1

\* FAULTY: skips one batch more than the checkpoint covers.
SkippedOneMore(b) == b <= resumeFrom + 1

\* FAULTY: sends the committed prefix again.
SkippedNever(b) == b < 1

\* Whether the producer drops batch b because a previous run committed it.
Skipped(b) == b <= resumeFrom

\* FAULTY: advances to the highest completed index, over the gaps.
HighWaterMark(n, completed) ==
  /\ \A b \in completed : b < n
  /\ n = nextExpected \/ n - 1 \in completed

\* Whether advancing over the completed batches stops at n.
Frontier(n, completed) ==
  nextExpected..(n - 1) \subseteq completed /\ n \notin completed

\* FAULTY: forgets what the workers returned.
OutcomeOfProducer == IF parseFailed THEN "parse error" ELSE "ok"

\* first_error: the producer's, else a worker's.
Outcome ==
  IF parseFailed THEN "parse error"
  ELSE IF sendFailed # {} THEN "send error" ELSE "ok"

\* FAULTY: relies on the interval writes alone.
NoFinalWrite == "closed"

\* What the checkpoint task does when its channel closes.
LastWrite == IF dirty THEN "final" ELSE "closed"

Sending(w) == worker[w] = "send" /\ gate[w] = "holding"

\* What the collection may hold once the server has executed the requests of
\* some workers; overwrite=true, which every request carries, empties it first.
AfterExecuting(ws) ==
  IF ws = {} THEN {server}
  ELSE IF Overwrite THEN {{holds[w]} : w \in ws}
  ELSE {server \cup {holds[w] : w \in ws}}

\* load_checkpoint on an object that is absent, whole or torn.
Absent == [state |-> "absent", committed |-> 0]
Torn   == [state |-> "torn", committed |-> 0]
Whole(c) == [state |-> "whole", committed |-> c]

\* The process-local state at the start of a run, or with no run at all.
Fresh(prod, work, keep, next) ==
  /\ producer' = prod /\ nextBatch' = 1 /\ parseFailed' = FALSE
  /\ permits' = MaxInFlight /\ queue' = <<>>
  /\ worker' = [w \in Workers |-> work]
  /\ holds' = [w \in Workers |-> 0]
  /\ sendFailed' = {} /\ acked' = {} /\ counted' = 0
  /\ limit' = Cardinality(Workers) /\ inFlight' = 0 /\ quiet' = FALSE
  /\ gate' = [w \in Workers |-> "out"] /\ woken' = {}
  /\ keeper' = keep /\ doneQueue' = <<>> /\ pending' = {}
  /\ nextExpected' = next /\ dirty' = FALSE
  /\ reached' = {}

Init ==
  /\ phase = "idle" /\ runs = 0 /\ resumeFrom = 0
  /\ producer = "done" /\ nextBatch = 1 /\ parseFailed = FALSE
  /\ permits = MaxInFlight /\ queue = <<>>
  /\ worker = [w \in Workers |-> "exited"]
  /\ holds = [w \in Workers |-> 0]
  /\ sendFailed = {} /\ acked = {} /\ counted = 0
  /\ Governor!Init
  /\ keeper = "off" /\ doneQueue = <<>> /\ pending = {}
  /\ nextExpected = 1 /\ dirty = FALSE
  /\ disk = Absent
  /\ reached = {} /\ server = {}

(***************************************************************************)
(* Starting, ending and killing a run                                      *)
(***************************************************************************)

\* The checkpoint is loaded, the tasks are spawned.
Start ==
  /\ phase # "running" /\ runs < MaxRuns
  /\ ~(Checkpointing /\ disk.state = "torn")
  /\ resumeFrom' = IF Checkpointing THEN disk.committed ELSE 0
  /\ Fresh("batch", "recv", IF Checkpointing THEN "recv" ELSE "off", resumeFrom' + 1)
  /\ phase' = "running" /\ runs' = runs + 1
  /\ UNCHANGED <<disk, server>>

\* load_checkpoint fails on an object that does not parse.
Refuse ==
  /\ phase # "running" /\ runs < MaxRuns
  /\ Checkpointing /\ disk.state = "torn"
  /\ phase' = "refused" /\ runs' = runs + 1
  /\ UNCHANGED <<resumeFrom, producerVars, permits, queue, workerVars,
                 limiterVars, keeperVars, disk, remoteVars>>

\* The workers are joined and the checkpoint task has landed its last write;
\* a producer error is returned before any worker's.
Finish ==
  /\ phase = "running"
  /\ producer = "done" /\ ~ReceiverOpen /\ queue = <<>>
  /\ keeper \in {"off", "closed"}
  /\ phase' = Outcome
  /\ UNCHANGED <<runs, resumeFrom, producerVars, permits, queue,
                 workerVars, limiterVars, keeperVars, disk, remoteVars>>

\* The process is killed; requests on the wire may still be executed.
Crash ==
  /\ phase = "running"
  /\ phase' = "idle"
  /\ Fresh("done", "exited", "off", 1)
  /\ \E late \in SUBSET {w \in Workers : Sending(w)} : server' \in AfterExecuting(late)
  /\ UNCHANGED <<runs, resumeFrom, disk>>

(***************************************************************************)
(* The producer                                                            *)
(***************************************************************************)

\* The batcher yields the next batch, or the end of the input; batches of the
\* committed prefix are skipped.
NextBatch ==
  /\ phase = "running" /\ producer = "batch"
  /\ IF nextBatch > NBatches
       THEN producer' = "done" /\ UNCHANGED nextBatch
     ELSE IF Skipped(nextBatch)
       THEN nextBatch' = nextBatch + 1 /\ UNCHANGED producer
     ELSE producer' = "acquire" /\ UNCHANGED nextBatch
  /\ UNCHANGED <<commandVars, parseFailed, permits, queue, workerVars,
                 limiterVars, keeperVars, disk, remoteVars>>

\* `batch?`: the input stream fails and production ends.
ParseError ==
  /\ phase = "running" /\ producer = "batch" /\ ParseFaults
  /\ producer' = "done" /\ parseFailed' = TRUE
  /\ UNCHANGED <<commandVars, nextBatch, permits, queue, workerVars, limiterVars,
                 keeperVars, disk, remoteVars>>

AcquirePermits ==
  /\ phase = "running" /\ producer = "acquire"
  /\ permits >= PermitsFor(nextBatch)
  /\ permits' = permits - PermitsFor(nextBatch)
  /\ producer' = "push"
  /\ UNCHANGED <<commandVars, nextBatch, parseFailed, queue, workerVars,
                 limiterVars, keeperVars, disk, remoteVars>>

PushBatch ==
  /\ phase = "running" /\ producer = "push"
  /\ ReceiverOpen /\ Len(queue) < ChannelSlots
  /\ queue' = Append(queue, nextBatch)
  /\ nextBatch' = nextBatch + 1 /\ producer' = "batch"
  /\ UNCHANGED <<commandVars, parseFailed, permits, workerVars,
                 limiterVars, keeperVars, disk, remoteVars>>

\* tx.send fails: every worker has exited.
PushRefused ==
  /\ phase = "running" /\ producer = "push"
  /\ ~ReceiverOpen
  /\ permits' = permits + PermitsFor(nextBatch)
  /\ producer' = "done"
  /\ UNCHANGED <<commandVars, nextBatch, parseFailed, queue, workerVars,
                 limiterVars, keeperVars, disk, remoteVars>>

\* FAULTY: permits of buffered batches are forgotten instead of dropped.
ForgetBuffered ==
  /\ phase = "running" /\ ~ReceiverOpen /\ queue # <<>>
  /\ queue' = Tail(queue)
  /\ UNCHANGED <<commandVars, producerVars, permits, workerVars, limiterVars,
                 keeperVars, disk, remoteVars>>

\* Dropping the receiver drops the batches it buffers, one by one, and each
\* gives its permits back.
DropBuffered ==
  /\ phase = "running" /\ ~ReceiverOpen /\ queue # <<>>
  /\ permits' = permits + PermitsFor(Head(queue))
  /\ queue' = Tail(queue)
  /\ UNCHANGED <<commandVars, producerVars, workerVars, limiterVars,
                 keeperVars, disk, remoteVars>>

(***************************************************************************)
(* The workers                                                             *)
(***************************************************************************)

\* recv under the receiver's mutex, then the first turn of acquire's loop.
Receive(w) ==
  /\ phase = "running" /\ worker[w] = "recv" /\ queue # <<>>
  /\ holds' = [holds EXCEPT ![w] = Head(queue)]
  /\ queue' = Tail(queue)
  /\ worker' = [worker EXCEPT ![w] = "send"]
  /\ Governor!Register(w)
  /\ UNCHANGED <<commandVars, producerVars, permits, sendFailed, acked, counted,
                 keeperVars, disk, remoteVars>>

\* recv returns None: the channel is empty and the producer's half is gone.
ReceiveClosed(w) ==
  /\ phase = "running" /\ worker[w] = "recv" /\ queue = <<>> /\ SenderDropped
  /\ worker' = [worker EXCEPT ![w] = "exited"]
  /\ UNCHANGED <<commandVars, producerVars, permits, queue, holds,
                 sendFailed, acked, counted, limiterVars, keeperVars, disk, remoteVars>>

\* The rest of limiter.acquire().
PassGate(w) ==
  /\ phase = "running" /\ worker[w] = "send"
  /\ Governor!Claim(w) \/ Governor!Defer(w) \/ Governor!Await(w) \/ Governor!Recheck(w)
  /\ UNCHANGED <<commandVars, producerVars, permits, queue, workerVars,
                 keeperVars, disk, remoteVars>>

\* The server executes an attempt of the POST; a retried attempt is executed
\* again.
ServerExecutes(w) ==
  /\ phase = "running" /\ Sending(w)
  /\ server' \in AfterExecuting({w})
  /\ reached' = reached \cup {w}
  /\ UNCHANGED <<commandVars, producerVars, permits, queue, workerVars,
                 limiterVars, keeperVars, disk>>

\* send() returns Ok and the limiter records it.
SendSucceeds(w, slow) ==
  /\ phase = "running" /\ Sending(w) /\ w \in reached
  /\ Governor!RecordSuccess(w, slow)
  /\ reached' = reached \ {w}
  /\ worker' = [worker EXCEPT ![w] = "succeeded"]
  /\ UNCHANGED <<commandVars, producerVars, permits, queue, holds, sendFailed, acked, counted,
                 keeperVars, disk, server>>

\* send() returns Err, whether or not an attempt was executed.
SendFails(w, congested) ==
  /\ phase = "running" /\ Sending(w) /\ SendFaults
  /\ Governor!RecordError(w, congested)
  /\ reached' = reached \ {w}
  /\ worker' = [worker EXCEPT ![w] = "failed"]
  /\ UNCHANGED <<commandVars, producerVars, permits, queue, holds, sendFailed, acked, counted,
                 keeperVars, disk, server>>

\* record_success has notified; summary.record.  Without a checkpoint task the
\* permits are dropped at once.
Acknowledge(w) ==
  /\ phase = "running" /\ worker[w] = "succeeded"
  /\ Governor!NotifyWaiters(w)
  /\ acked' = acked \cup {holds[w]} /\ counted' = counted + 1
  /\ IF Checkpointing
       THEN /\ worker' = [worker EXCEPT ![w] = "report"]
            /\ UNCHANGED <<holds, permits>>
       ELSE /\ worker' = [worker EXCEPT ![w] = "recv"]
            /\ holds' = [holds EXCEPT ![w] = 0]
            /\ permits' = permits + PermitsFor(holds[w])
  /\ UNCHANGED <<commandVars, producerVars, queue, sendFailed,
                 keeperVars, disk, remoteVars>>

\* record_error has notified; `result?` ends the worker, which drops its batch
\* and permits.
GiveUp(w) ==
  /\ phase = "running" /\ worker[w] = "failed"
  /\ Governor!NotifyWaiters(w)
  /\ worker' = [worker EXCEPT ![w] = "exited"]
  /\ sendFailed' = sendFailed \cup {w}
  /\ holds' = [holds EXCEPT ![w] = 0]
  /\ permits' = permits + PermitsFor(holds[w])
  /\ UNCHANGED <<commandVars, producerVars, queue, acked, counted, keeperVars, disk, remoteVars>>

\* done.send(BatchDone), then drop(permit).
Report(w) ==
  /\ phase = "running" /\ worker[w] = "report"
  /\ Len(doneQueue) < DoneSlots
  /\ doneQueue' = Append(doneQueue, holds[w])
  /\ permits' = permits + PermitsFor(holds[w])
  /\ holds' = [holds EXCEPT ![w] = 0]
  /\ worker' = [worker EXCEPT ![w] = "recv"]
  /\ UNCHANGED <<commandVars, producerVars, queue, sendFailed, acked, counted,
                 limiterVars, keeper, pending, nextExpected, dirty, disk, remoteVars>>

QuietElapses ==
  /\ phase = "running"
  /\ Governor!QuietElapses
  /\ UNCHANGED <<commandVars, producerVars, permits, queue, workerVars,
                 keeperVars, disk, remoteVars>>

(***************************************************************************)
(* The checkpoint task                                                     *)
(***************************************************************************)

\* One BatchDone: the prefix advances over every pending batch that has become
\* contiguous, and is written if persist_interval has elapsed.
Collect(elapsed) ==
  /\ phase = "running" /\ keeper = "recv" /\ doneQueue # <<>>
  /\ doneQueue' = Tail(doneQueue)
  /\ LET completed == pending \cup {Head(doneQueue)} IN
       \E n \in nextExpected..(NBatches + 1) :
         /\ Frontier(n, completed)
         /\ nextExpected' = n
         /\ pending' = completed \ (nextExpected..(n - 1))
         /\ dirty' = (dirty \/ n > nextExpected)
  /\ keeper' = IF dirty' /\ elapsed THEN "write" ELSE "recv"
  /\ UNCHANGED <<commandVars, producerVars, permits, queue, workerVars,
                 limiterVars, disk, remoteVars>>

\* The channel is closed and drained once every worker has exited.
DoneClosed ==
  /\ phase = "running" /\ keeper = "recv" /\ doneQueue = <<>> /\ ~ReceiverOpen
  /\ keeper' = LastWrite
  /\ UNCHANGED <<commandVars, producerVars, permits, queue, workerVars,
                 limiterVars, doneQueue, pending, nextExpected, dirty, disk, remoteVars>>

\* persist_checkpoint returns, with the write done or failed and logged.
Persisted ==
  /\ keeper' = IF keeper = "write" THEN "recv" ELSE "closed"
  /\ dirty' = FALSE
  /\ UNCHANGED <<commandVars, producerVars, permits, queue, workerVars,
                 limiterVars, doneQueue, pending, nextExpected, remoteVars>>

\* File::create has truncated the object and the bytes are not yet written.
TruncateCheckpoint ==
  /\ phase = "running" /\ keeper \in {"write", "final"}
  /\ ~AtomicPut /\ disk.state # "torn"
  /\ disk' = Torn
  /\ UNCHANGED <<commandVars, producerVars, permits, queue, workerVars,
                 limiterVars, keeperVars, remoteVars>>

WriteCheckpoint ==
  /\ phase = "running" /\ keeper \in {"write", "final"}
  /\ AtomicPut \/ disk.state = "torn"
  /\ disk' = Whole(Committed)
  /\ Persisted

\* put_stream fails and leaves the object as far as it got.
WriteFails ==
  /\ phase = "running" /\ keeper \in {"write", "final"} /\ StoreFaults
  /\ UNCHANGED disk
  /\ Persisted

\* Bounding the runs: nothing happens after the last one.
Exhausted ==
  /\ phase # "running" /\ runs = MaxRuns
  /\ UNCHANGED vars

WorkerSteps(w) ==
  \/ Receive(w) \/ ReceiveClosed(w) \/ PassGate(w) \/ ServerExecutes(w)
  \/ Acknowledge(w) \/ GiveUp(w) \/ Report(w)
  \/ \E signal \in BOOLEAN : SendSucceeds(w, signal) \/ SendFails(w, signal)

ProducerSteps == NextBatch \/ ParseError \/ AcquirePermits \/ PushBatch \/ PushRefused

KeeperSteps ==
  \/ \E elapsed \in BOOLEAN : Collect(elapsed)
  \/ DoneClosed \/ TruncateCheckpoint \/ WriteCheckpoint \/ WriteFails

Next ==
  \/ Start \/ Refuse \/ Finish \/ Crash
  \/ ProducerSteps \/ DropBuffered
  \/ \E w \in Workers : WorkerSteps(w)
  \/ QuietElapses
  \/ KeeperSteps
  \/ Exhausted

\* Every task the runtime has spawned is polled while it is ready; requests
\* return (timeout and bounded retries), store writes return.  Nothing is
\* assumed of faults, of the user or of the clock.
Fairness ==
  /\ WF_vars(Finish)
  /\ WF_vars(NextBatch \/ ParseError) /\ WF_vars(AcquirePermits)
  /\ WF_vars(PushBatch \/ PushRefused) /\ WF_vars(DropBuffered)
  /\ \A w \in Workers :
       /\ WF_vars(Receive(w)) /\ WF_vars(ReceiveClosed(w)) /\ WF_vars(PassGate(w))
       /\ WF_vars(w \notin reached /\ ServerExecutes(w))
       /\ WF_vars(\E signal \in BOOLEAN : SendSucceeds(w, signal) \/ SendFails(w, signal))
       /\ WF_vars(Acknowledge(w) \/ GiveUp(w)) /\ WF_vars(Report(w))
  /\ WF_vars(\E elapsed \in BOOLEAN : Collect(elapsed))
  /\ WF_vars(DoneClosed) /\ WF_vars(TruncateCheckpoint)
  /\ WF_vars(WriteCheckpoint \/ WriteFails)

Spec == Init /\ [][Next]_vars
FairSpec == Spec /\ Fairness

(***************************************************************************)
(* Properties                                                              *)
(***************************************************************************)

CommandTypes ==
  /\ phase \in {"idle", "running", "ok", "parse error", "send error", "refused"}
  /\ runs \in 0..MaxRuns
  /\ resumeFrom \in 0..NBatches

ProducerTypes ==
  /\ producer \in {"batch", "acquire", "push", "done"}
  /\ nextBatch \in 1..(NBatches + 1)
  /\ producer \in {"acquire", "push"} => nextBatch \in Batches
  /\ parseFailed \in BOOLEAN
  /\ permits \in Int
  /\ queue \in Seq(Batches)

WorkerTypes ==
  /\ worker \in [Workers -> {"recv", "send", "succeeded", "failed", "report", "exited"}]
  /\ holds \in [Workers -> 0..NBatches]
  /\ \A w \in Workers : worker[w] \in {"send", "succeeded", "failed", "report"} => holds[w] \in Batches
  /\ sendFailed \in SUBSET Workers
  /\ acked \in SUBSET Batches
  /\ counted \in Nat

KeeperTypes ==
  /\ keeper \in {"off", "recv", "write", "final", "closed"}
  /\ doneQueue \in Seq(Batches)
  /\ pending \in SUBSET Batches
  /\ nextExpected \in 1..(NBatches + 1)
  /\ dirty \in BOOLEAN

RemoteTypes ==
  /\ disk \in [state : {"absent", "torn", "whole"}, committed : 0..NBatches]
  /\ reached \in SUBSET Workers
  /\ server \in SUBSET Batches

TypeOK ==
  /\ CommandTypes /\ ProducerTypes /\ WorkerTypes
  /\ Governor!TypeOK /\ KeeperTypes /\ RemoteTypes

\* checkpoint_task: "a checkpoint never claims an uncommitted batch", over
\* workers that finish out of order, failed writes, crashes and resumed runs.
CheckpointBehindServer == 1..disk.committed \subseteq server

\* A run that returns Ok has the whole input in the collection: what it sent
\* itself and what it skipped on the word of the checkpoint.
SuccessIsComplete == phase = "ok" => Batches \subseteq server

\* A returned summary records the batches after the resume point, every one of
\* them and once: none twice over the workers' partial summaries, none that the
\* run skipped.
SummaryExact ==
  phase = "ok" =>
    /\ acked = (resumeFrom + 1)..NBatches
    /\ counted = NBatches - resumeFrom

\* The final write of an ended run, failed or not, covers the whole contiguous
\* prefix of acknowledged batches.
Ended == phase \in {"ok", "parse error", "send error"}
FinalCheckpointTight ==
  Ended /\ Checkpointing /\ ~StoreFaults =>
    /\ disk.committed >= resumeFrom
    /\ (disk.committed + 1) \notin acked

\* Batches between the semaphore and the end of their send, each with its
\* permits: in the producer's hand, queued, with a worker.
InFlightBatches ==
  {queue[i] : i \in DOMAIN queue}
    \cup ({holds[w] : w \in Workers} \ {0})
    \cup (IF producer = "push" THEN {nextBatch} ELSE {})

\* No path (success, error, closed channel, dropped buffer) loses or invents
\* permits.
PermitsConserved ==
  phase # "idle" =>
    permits + MapThenSumSet(PermitsFor, InFlightBatches) = MaxInFlight

\* sender.rs module comment: memory stays bounded by max_in_flight_bytes; a
\* batch larger than the cap travels alone.  True of the caps one request for
\* permits can name (MaxInFlight <= MaxPermits).
MemoryBounded ==
  \/ MapThenSumSet(LAMBDA b : Size[b], InFlightBatches) <= MaxInFlight
  \/ Cardinality(InFlightBatches) = 1

\* The limiter's own guarantees, under the calls the workers make: a slot is
\* held exactly while a send is in progress, whatever way it ends.
LimiterSound ==
  /\ inFlight = Cardinality({w \in Workers : Sending(w)})
  /\ Governor!InFlightExact
  /\ Governor!NoLostWakeup

\* The pipeline implements the user's view of a resumable import: delivery at
\* least once, claims that only grow and only cover what is stored, Ok only
\* when everything is stored.
Abstract == INSTANCE ResumableImport WITH
  stored <- server,
  claimed <- disk.committed,
  outcome <- IF phase \in {"idle", "running"} THEN "none"
             ELSE IF phase = "ok" THEN "ok" ELSE "failed"
ImplementsResumableImport == Abstract!Spec

\* No interleaving of a full channel, exhausted permits, a throttled limiter,
\* dead workers and a slow checkpoint store wedges a run.
RunTerminates == phase = "running" ~> phase # "running"

=============================================================================
