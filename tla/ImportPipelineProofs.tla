----------------------- MODULE ImportPipelineProofs -----------------------
(***************************************************************************)
(* Proofs about the import pipeline, for any workers, batches, sizes,      *)
(* capacities, faults and number of runs.                                  *)
(***************************************************************************)
EXTENDS ImportPipeline, Induction

-----------------------------------------------------------------------------
(* The type invariant *)

LEMMA PoolSize == Cardinality(Workers) \in Nat \ {0}
BY PipelineAssumption, FS_CardinalityType, FS_EmptySet

\* The governor's actions keep the governor's types, whoever calls them.
LEMMA GovernorTypes ==
  ASSUME Governor!TypeOK, NEW w \in Workers, NEW signal \in BOOLEAN,
         \/ Governor!Register(w) \/ Governor!Claim(w) \/ Governor!Defer(w)
         \/ Governor!Await(w) \/ Governor!Recheck(w) \/ Governor!NotifyWaiters(w)
         \/ Governor!QuietElapses
         \/ Governor!RecordSuccess(w, signal) \/ Governor!RecordError(w, signal)
  PROVE  Governor!TypeOK'
<1>0. /\ Cardinality(Workers) \in Nat \ {0}
      /\ limit \in 1..Cardinality(Workers)
      /\ inFlight \in Nat
      /\ gate \in [Workers -> {"out", "checking", "deferred", "waiting", "holding", "notifying"}]
      /\ woken \in SUBSET Workers
  BY PoolSize DEF Governor!TypeOK
<1>1. quiet \in BOOLEAN
  BY DEF Governor!TypeOK
<1>2. CASE \/ Governor!Register(w) \/ Governor!Claim(w) \/ Governor!Defer(w)
           \/ Governor!Await(w) \/ Governor!Recheck(w) \/ Governor!NotifyWaiters(w)
  BY <1>2 DEF Governor!TypeOK, Governor!Register, Governor!Claim, Governor!Defer,
              Governor!Await, Governor!Recheck, Governor!NotifyWaiters, Governor!Registered
<1>3. CASE Governor!QuietElapses
  BY <1>3 DEF Governor!TypeOK, Governor!QuietElapses
<1>4. CASE Governor!RecordSuccess(w, signal) \/ Governor!RecordError(w, signal)
  <2>1. /\ Governor!Release(w)
        /\ Governor!Throttle \/ Governor!MaybeRecover \/ UNCHANGED <<limit, quiet>>
        /\ woken' \in {woken, woken \cup Governor!Registered}
    BY <1>4 DEF Governor!RecordSuccess, Governor!RecordError, Governor!MaybeRecover
  <2>2. /\ inFlight' \in Nat
        /\ gate' \in [Workers -> {"out", "checking", "deferred", "waiting", "holding", "notifying"}]
        /\ woken' \in SUBSET Workers
    BY <1>0, <2>1 DEF Governor!Release, Governor!Registered, Governor!Larger
  <2>3. limit' = limit \/ limit' = Governor!Larger(limit \div 2, 1)
          \/ (limit < Cardinality(Workers) /\ limit' = limit + 1)
    BY <2>1, Zenon DEF Governor!Throttle, Governor!MaybeRecover
  <2>4. limit' \in 1..Cardinality(Workers)
    <3>1. limit \div 2 \in Int /\ limit \div 2 <= limit
      BY <1>0
    <3> QED
      BY <1>0, <2>3, <3>1 DEF Governor!Larger
  <2>5. quiet' \in BOOLEAN
    BY <1>1, <2>1, Zenon DEF Governor!Throttle, Governor!MaybeRecover
  <2> QED
    BY <2>2, <2>4, <2>5 DEF Governor!TypeOK
<1> QED
  BY <1>2, <1>3, <1>4

\* The part of the assumption the steps need.
LEMMA Bounds == NBatches \in Nat /\ MaxRuns \in Nat /\ MaxInFlight \in Nat
BY PipelineAssumption

LEMMA PermitsForIsNat == \A b \in Batches : PermitsFor(b) \in Nat
BY PipelineAssumption DEF PermitsFor

\* What a set of executed requests may leave in the collection is a set of
\* batches.
LEMMA AfterExecutingTypes ==
  ASSUME WorkerTypes, RemoteTypes, NEW ws \in SUBSET {w \in Workers : Sending(w)},
         NEW after \in AfterExecuting(ws)
  PROVE  after \in SUBSET Batches
<1>1. \A w \in ws : holds[w] \in Batches
  BY DEF WorkerTypes, Sending
<1>2. server \in SUBSET Batches
  BY DEF RemoteTypes
<1> QED
  BY <1>1, <1>2 DEF AfterExecuting

\* The state a run starts from, and the one a killed run leaves, is well typed.
LEMMA FreshTypes ==
  ASSUME NEW prod \in {"batch", "done"}, NEW work \in {"recv", "exited"},
         NEW keep \in {"recv", "off"}, NEW next \in 1..(NBatches + 1),
         Fresh(prod, work, keep, next)
  PROVE  /\ ProducerTypes' /\ WorkerTypes' /\ Governor!TypeOK' /\ KeeperTypes'
         /\ reached' = {}
<1> USE Bounds DEF Fresh
<1>1. ProducerTypes'
  <2>1. /\ producer' \in {"batch", "acquire", "push", "done"}
        /\ producer' \notin {"acquire", "push"}
        /\ nextBatch' \in 1..(NBatches + 1)
    OBVIOUS
  <2>2. parseFailed' \in BOOLEAN
    OBVIOUS
  <2>3. permits' \in Int /\ queue' \in Seq(Batches)
    OBVIOUS
  <2> QED
    BY <2>1, <2>2, <2>3 DEF ProducerTypes
<1>2. WorkerTypes'
  BY DEF WorkerTypes
<1>3. Governor!TypeOK'
  <2>1. /\ limit' = Cardinality(Workers) /\ inFlight' = 0 /\ quiet' = FALSE
        /\ gate' = [w \in Workers |-> "out"] /\ woken' = {}
    OBVIOUS
  <2>2. limit' \in 1..Cardinality(Workers)
    BY <2>1, PoolSize
  <2>3. /\ inFlight' \in Nat /\ woken' \in SUBSET Workers
        /\ gate' \in [Workers -> {"out", "checking", "deferred", "waiting", "holding", "notifying"}]
    BY <2>1
  <2>4. quiet' \in BOOLEAN
    BY <2>1
  <2> QED
    BY <2>2, <2>3, <2>4 DEF Governor!TypeOK
<1>4. KeeperTypes'
  <2>1. keeper' \in {"off", "recv", "write", "final", "closed"}
    OBVIOUS
  <2>2. doneQueue' \in Seq(Batches) /\ pending' \in SUBSET Batches
    OBVIOUS
  <2>3. nextExpected' \in 1..(NBatches + 1)
    OBVIOUS
  <2>4. dirty' \in BOOLEAN
    OBVIOUS
  <2> QED
    BY <2>1, <2>2, <2>3, <2>4 DEF KeeperTypes
<1> QED
  BY <1>1, <1>2, <1>3, <1>4

LEMMA TypeInitial == Init => TypeOK
<1> SUFFICES ASSUME Init PROVE TypeOK
  OBVIOUS
<1> USE Bounds DEF Init
<1>1. CommandTypes
  BY DEF CommandTypes
<1>2. ProducerTypes
  <2>1. /\ producer = "done" /\ nextBatch \in 1..(NBatches + 1)
    OBVIOUS
  <2>2. parseFailed \in BOOLEAN
    OBVIOUS
  <2>3. permits \in Int /\ queue \in Seq(Batches)
    OBVIOUS
  <2> QED
    BY <2>1, <2>2, <2>3 DEF ProducerTypes
<1>3. WorkerTypes
  BY DEF WorkerTypes
<1>4. Governor!TypeOK
  <2>1. limit = Cardinality(Workers)
    BY PoolSize DEF Governor!Init, Governor!Larger
  <2>2. limit \in 1..Cardinality(Workers)
    BY <2>1, PoolSize
  <2>3. /\ inFlight = 0 /\ quiet = FALSE
        /\ gate = [w \in Workers |-> "out"] /\ woken = {}
    BY DEF Governor!Init
  <2> QED
    BY <2>2, <2>3 DEF Governor!TypeOK
<1>5. KeeperTypes
  <2>1. keeper = "off" /\ doneQueue \in Seq(Batches) /\ pending \in SUBSET Batches
    OBVIOUS
  <2>2. nextExpected \in 1..(NBatches + 1)
    OBVIOUS
  <2>3. dirty \in BOOLEAN
    OBVIOUS
  <2> QED
    BY <2>1, <2>2, <2>3 DEF KeeperTypes
<1>6. RemoteTypes
  BY DEF RemoteTypes, Absent
<1> QED
  BY <1>1, <1>2, <1>3, <1>4, <1>5, <1>6 DEF TypeOK

\* The steps of the command keep its types: the bound on the runs and the
\* range of the resume point.
LEMMA StartTypes ==
  ASSUME CommandTypes, RemoteTypes, Start
  PROVE  /\ CommandTypes'
         /\ resumeFrom' + 1 \in 1..(NBatches + 1)
<1>1. runs \in 0..MaxRuns /\ runs < MaxRuns /\ runs' = runs + 1 /\ phase' = "running"
  BY DEF CommandTypes, Start
<1>2. runs' \in 0..MaxRuns
  BY <1>1, Bounds
<1>3. disk.committed \in 0..NBatches
  BY DEF RemoteTypes
<1>4. resumeFrom' = disk.committed \/ resumeFrom' = 0
  BY DEF Start
<1>5. resumeFrom' \in 0..NBatches /\ resumeFrom' + 1 \in 1..(NBatches + 1)
  BY <1>3, <1>4, Bounds
<1> QED
  BY <1>1, <1>2, <1>5 DEF CommandTypes

LEMMA RefuseTypes ==
  ASSUME CommandTypes, Refuse
  PROVE  CommandTypes'
<1>1. /\ runs \in 0..MaxRuns /\ runs < MaxRuns /\ runs' = runs + 1
      /\ phase' = "refused" /\ resumeFrom' = resumeFrom
  BY DEF CommandTypes, Refuse
<1>2. runs' \in 0..MaxRuns
  BY <1>1, Bounds
<1> QED
  BY <1>1, <1>2 DEF CommandTypes

\* A step keeps the types of the components it leaves alone.
LEMMA FrameTypes ==
  ASSUME TypeOK
  PROVE  /\ UNCHANGED commandVars => CommandTypes'
         /\ UNCHANGED <<producerVars, permits, queue>> => ProducerTypes'
         /\ UNCHANGED workerVars => WorkerTypes'
         /\ UNCHANGED limiterVars => Governor!TypeOK'
         /\ UNCHANGED keeperVars => KeeperTypes'
         /\ UNCHANGED <<disk, remoteVars>> => RemoteTypes'
<1> USE DEF TypeOK
<1>1. UNCHANGED commandVars => CommandTypes'
  BY DEF commandVars, CommandTypes
<1>2. UNCHANGED <<producerVars, permits, queue>> => ProducerTypes'
  BY DEF producerVars, ProducerTypes
<1>3. UNCHANGED workerVars => WorkerTypes'
  BY DEF workerVars, WorkerTypes
<1>4. UNCHANGED limiterVars => Governor!TypeOK'
  BY DEF limiterVars, Governor!TypeOK
<1>5. UNCHANGED keeperVars => KeeperTypes'
  BY DEF keeperVars, KeeperTypes
<1>6. UNCHANGED <<disk, remoteVars>> => RemoteTypes'
  BY DEF remoteVars, RemoteTypes
<1> QED
  BY <1>1, <1>2, <1>3, <1>4, <1>5, <1>6

LEMMA TypePreserved == TypeOK /\ [Next]_vars => TypeOK'
<1> SUFFICES ASSUME TypeOK, [Next]_vars
             PROVE  TypeOK'
  OBVIOUS
<1> USE Bounds, PermitsForIsNat
    DEF TypeOK, commandVars, producerVars, workerVars, limiterVars, keeperVars, remoteVars,
        Batches
<1>1. CASE Start
  <2>1. CommandTypes' /\ resumeFrom' + 1 \in 1..(NBatches + 1)
    BY <1>1, StartTypes
  <2>2. PICK keep \in {"recv", "off"} : Fresh("batch", "recv", keep, resumeFrom' + 1)
    BY <1>1 DEF Start
  <2>3. /\ ProducerTypes' /\ WorkerTypes' /\ Governor!TypeOK' /\ KeeperTypes'
        /\ reached' = {}
    BY <2>1, <2>2, FreshTypes
  <2>4. RemoteTypes'
    BY <1>1, <2>3 DEF Start, RemoteTypes
  <2> QED
    BY <2>1, <2>3, <2>4
<1>2. CASE Crash
  <2>1. /\ ProducerTypes' /\ WorkerTypes' /\ Governor!TypeOK' /\ KeeperTypes'
        /\ reached' = {}
    BY <1>2, FreshTypes DEF Crash
  <2>2. CommandTypes'
    BY <1>2 DEF Crash, CommandTypes
  <2>3. server' \in SUBSET Batches
    BY <1>2, AfterExecutingTypes DEF Crash
  <2>4. RemoteTypes'
    BY <1>2, <2>1, <2>3 DEF Crash, RemoteTypes
  <2> QED
    BY <2>1, <2>2, <2>4
<1>3. CASE Refuse
  <2>1. CommandTypes'
    BY <1>3, RefuseTypes
  <2> QED
    BY FrameTypes, <1>3, <2>1 DEF Refuse
<1>4. CASE Finish
  <2>1. CommandTypes'
    BY <1>4 DEF Finish, Outcome, CommandTypes
  <2> QED
    BY FrameTypes, <1>4, <2>1 DEF Finish
<1>5. CASE NextBatch
  <2>1. ProducerTypes'
    BY <1>5 DEF NextBatch, ProducerTypes
  <2> QED
    BY FrameTypes, <1>5, <2>1 DEF NextBatch
<1>6. CASE ParseError
  <2>1. ProducerTypes'
    BY <1>6 DEF ParseError, ProducerTypes
  <2> QED
    BY FrameTypes, <1>6, <2>1 DEF ParseError
<1>7. CASE AcquirePermits
  <2>1. ProducerTypes'
    BY <1>7 DEF AcquirePermits, ProducerTypes
  <2> QED
    BY FrameTypes, <1>7, <2>1 DEF AcquirePermits
<1>8. CASE PushBatch
  <2>1. ProducerTypes'
    BY <1>8 DEF PushBatch, ProducerTypes
  <2> QED
    BY FrameTypes, <1>8, <2>1 DEF PushBatch
<1>9. CASE PushRefused
  <2>1. ProducerTypes'
    BY <1>9 DEF PushRefused, ProducerTypes
  <2> QED
    BY FrameTypes, <1>9, <2>1 DEF PushRefused
<1>10. CASE DropBuffered
  <2>1. ProducerTypes'
    BY <1>10 DEF DropBuffered, ProducerTypes
  <2> QED
    BY FrameTypes, <1>10, <2>1 DEF DropBuffered
<1>11. ASSUME NEW w \in Workers, Receive(w)
      PROVE  TypeOK'
  <2>1. ProducerTypes'
    BY <1>11 DEF Receive, ProducerTypes, WorkerTypes
  <2>2. WorkerTypes'
    BY <1>11 DEF Receive, ProducerTypes, WorkerTypes
  <2>3. Governor!TypeOK'
    BY <1>11, GovernorTypes DEF Receive
  <2> QED
    BY FrameTypes, <1>11, <2>1, <2>2, <2>3 DEF Receive
<1>12. ASSUME NEW w \in Workers, ReceiveClosed(w)
      PROVE  TypeOK'
  <2>1. WorkerTypes'
    BY <1>12 DEF ReceiveClosed, WorkerTypes
  <2> QED
    BY FrameTypes, <1>12, <2>1 DEF ReceiveClosed
<1>13. ASSUME NEW w \in Workers, PassGate(w)
      PROVE  TypeOK'
  <2>1. Governor!TypeOK'
    BY <1>13, GovernorTypes DEF PassGate
  <2> QED
    BY FrameTypes, <1>13, <2>1 DEF PassGate
<1>14. ASSUME NEW w \in Workers, ServerExecutes(w)
      PROVE  TypeOK'
  <2>1. RemoteTypes'
    BY <1>14, AfterExecutingTypes DEF ServerExecutes, RemoteTypes
  <2> QED
    BY FrameTypes, <1>14, <2>1 DEF ServerExecutes
<1>15. ASSUME NEW w \in Workers, NEW signal \in BOOLEAN,
              SendSucceeds(w, signal) \/ SendFails(w, signal)
       PROVE  TypeOK'
  <2>1. WorkerTypes'
    BY <1>15 DEF SendSucceeds, SendFails, Sending, WorkerTypes
  <2>2. Governor!TypeOK'
    BY <1>15, GovernorTypes DEF SendSucceeds, SendFails
  <2>3. RemoteTypes'
    BY <1>15 DEF SendSucceeds, SendFails, RemoteTypes
  <2> QED
    BY FrameTypes, <1>15, <2>1, <2>2, <2>3 DEF SendSucceeds, SendFails
<1>16. ASSUME NEW w \in Workers, Acknowledge(w)
       PROVE  TypeOK'
  <2>1. holds[w] \in Batches
    BY <1>16 DEF Acknowledge, WorkerTypes
  <2>2. ProducerTypes'
    BY <1>16, <2>1 DEF Acknowledge, ProducerTypes
  <2>3. WorkerTypes'
    <3>1. sendFailed' \in SUBSET Workers /\ acked' \in SUBSET Batches
      BY <1>16, <2>1 DEF Acknowledge, WorkerTypes
    <3>2. CASE Checkpointing
      BY <1>16, <2>1, <3>1, <3>2 DEF Acknowledge, WorkerTypes
    <3>3. CASE ~Checkpointing
      BY <1>16, <2>1, <3>1, <3>3 DEF Acknowledge, WorkerTypes
    <3> QED
      BY <3>2, <3>3
  <2>4. Governor!TypeOK'
    BY <1>16, GovernorTypes DEF Acknowledge
  <2> QED
    BY FrameTypes, <1>16, <2>2, <2>3, <2>4 DEF Acknowledge
<1>25. ASSUME NEW w \in Workers, GiveUp(w)
       PROVE  TypeOK'
  <2>1. ProducerTypes'
    BY <1>25 DEF GiveUp, ProducerTypes, WorkerTypes
  <2>2. WorkerTypes'
    BY <1>25 DEF GiveUp, WorkerTypes
  <2>3. Governor!TypeOK'
    BY <1>25, GovernorTypes DEF GiveUp
  <2> QED
    BY FrameTypes, <1>25, <2>1, <2>2, <2>3 DEF GiveUp
<1>17. ASSUME NEW w \in Workers, Report(w)
      PROVE  TypeOK'
  <2>1. ProducerTypes'
    BY <1>17 DEF Report, ProducerTypes, WorkerTypes
  <2>2. WorkerTypes'
    BY <1>17 DEF Report, WorkerTypes
  <2>3. KeeperTypes'
    BY <1>17 DEF Report, KeeperTypes, WorkerTypes
  <2> QED
    BY FrameTypes, <1>17, <2>1, <2>2, <2>3 DEF Report
<1>18. CASE QuietElapses
  <2>1. Governor!TypeOK'
    <3>1. PICK w \in Workers : TRUE
      BY PipelineAssumption
    <3> QED
      BY <1>18, <3>1, GovernorTypes DEF QuietElapses
  <2> QED
    BY FrameTypes, <1>18, <2>1 DEF QuietElapses
<1>19. ASSUME NEW elapsed \in BOOLEAN, Collect(elapsed)
      PROVE  TypeOK'
  <2>1. nextExpected' \in 1..(NBatches + 1)
    BY <1>19 DEF Collect, KeeperTypes
  <2>2. doneQueue' \in Seq(Batches) /\ Head(doneQueue) \in Batches
    BY <1>19 DEF Collect, KeeperTypes
  <2>3. pending' \in SUBSET Batches
    BY <1>19, <2>2 DEF Collect, KeeperTypes
  <2>4. dirty' \in BOOLEAN
    BY <1>19 DEF Collect, KeeperTypes
  <2>5. keeper' \in {"off", "recv", "write", "final", "closed"}
    BY <1>19 DEF Collect
  <2> QED
    BY FrameTypes, <1>19, <2>1, <2>2, <2>3, <2>4, <2>5 DEF Collect, KeeperTypes
<1>20. CASE DoneClosed
  <2>1. KeeperTypes'
    BY <1>20 DEF DoneClosed, LastWrite, KeeperTypes
  <2> QED
    BY FrameTypes, <1>20, <2>1 DEF DoneClosed
<1>21. CASE TruncateCheckpoint
  <2>1. RemoteTypes'
    BY <1>21 DEF TruncateCheckpoint, Torn, RemoteTypes
  <2> QED
    BY FrameTypes, <1>21, <2>1 DEF TruncateCheckpoint
<1>22. CASE WriteCheckpoint
  <2>1. KeeperTypes'
    BY <1>22 DEF WriteCheckpoint, Persisted, Whole, Committed, KeeperTypes
  <2>2. RemoteTypes'
    BY <1>22 DEF WriteCheckpoint, Persisted, Whole, Committed, KeeperTypes, RemoteTypes
  <2> QED
    BY FrameTypes, <1>22, <2>1, <2>2 DEF WriteCheckpoint, Persisted
<1>23. CASE WriteFails
  <2>1. KeeperTypes'
    BY <1>23 DEF WriteFails, Persisted, KeeperTypes
  <2> QED
    BY FrameTypes, <1>23, <2>1 DEF WriteFails, Persisted
<1>24. CASE Exhausted \/ UNCHANGED vars
  BY FrameTypes, <1>24 DEF Exhausted, vars
<1> QED
  BY <1>1, <1>2, <1>3, <1>4, <1>5, <1>6, <1>7, <1>8, <1>9, <1>10, <1>11, <1>12, <1>13, <1>14, <1>15, <1>16, <1>17, <1>18, <1>19, <1>20, <1>21, <1>22, <1>23, <1>24, <1>25
     DEF Next, ProducerSteps, WorkerSteps, KeeperSteps

\* Every variable stays in its type, in particular the indices of batches.
THEOREM TypeCorrect == Spec => []TypeOK
BY TypeInitial, TypePreserved, PTL DEF Spec

-----------------------------------------------------------------------------
(* The checkpoint never claims a batch that is not stored. *)

\* Strengthening: everything on its way from an acknowledgement to the
\* checkpoint object is in the collection.
AcknowledgedIsStored ==
  /\ 1..disk.committed \subseteq server
  /\ 1..Committed \subseteq server
  /\ pending \subseteq server
  /\ \A i \in DOMAIN doneQueue : doneQueue[i] \in server
  /\ acked \subseteq server
  /\ \A w \in Workers : worker[w] \in {"succeeded", "report"} => holds[w] \in server
  /\ \A w \in reached : Sending(w) /\ holds[w] \in server

\* Without overwrite the server only ever adds to the collection.
LEMMA ExecutingAdds ==
  ASSUME ~Overwrite, NEW ws \in SUBSET {w \in Workers : Sending(w)},
         NEW after \in AfterExecuting(ws)
  PROVE  server \subseteq after /\ \A w \in ws : holds[w] \in after
BY DEF AfterExecuting

\* A step that leaves the acknowledgement path alone keeps the invariant.
LEMMA AckFrame ==
  ASSUME AcknowledgedIsStored, server \subseteq server',
         UNCHANGED <<disk, nextExpected, pending, doneQueue, acked, worker, holds, reached, gate>>
  PROVE  AcknowledgedIsStored'
BY DEF AcknowledgedIsStored, Committed, Sending

LEMMA AckPreserved ==
  ASSUME ~Overwrite, TypeOK, AcknowledgedIsStored, [Next]_vars
  PROVE  AcknowledgedIsStored'
<1> USE DEF commandVars, producerVars, workerVars, limiterVars, keeperVars, remoteVars
<1>1. CASE Start
  <2>1. /\ disk' = disk /\ server' = server
        /\ pending' = {} /\ doneQueue' = <<>> /\ acked' = {} /\ reached' = {}
        /\ worker' = [w \in Workers |-> "recv"]
        /\ nextExpected' = resumeFrom' + 1
        /\ resumeFrom' = disk.committed \/ resumeFrom' = 0
    BY <1>1 DEF Start, Fresh
  <2>2. disk.committed \in Nat
    BY Bounds DEF TypeOK, RemoteTypes
  <2>3. 1..(nextExpected' - 1) \subseteq 1..disk.committed
    BY <2>1, <2>2
  <2> QED
    BY <2>1, <2>3 DEF AcknowledgedIsStored, Committed
<1>2. CASE Crash
  <2>1. /\ disk' = disk
        /\ pending' = {} /\ doneQueue' = <<>> /\ acked' = {} /\ reached' = {}
        /\ worker' = [w \in Workers |-> "exited"]
        /\ nextExpected' = 1
    BY <1>2 DEF Crash, Fresh
  <2>2. server \subseteq server'
    BY <1>2, ExecutingAdds DEF Crash
  <2> QED
    BY <2>1, <2>2 DEF AcknowledgedIsStored, Committed
<1>3. CASE Refuse \/ Finish \/ NextBatch \/ ParseError \/ AcquirePermits \/ PushBatch
           \/ PushRefused \/ DropBuffered \/ DoneClosed \/ WriteFails
  BY <1>3, AckFrame DEF Refuse, Finish, NextBatch, ParseError, AcquirePermits, PushBatch,
                        PushRefused, DropBuffered, DoneClosed, WriteFails, Persisted
<1>4. CASE QuietElapses
  BY <1>4, AckFrame DEF QuietElapses, Governor!QuietElapses
<1>5. CASE Exhausted \/ UNCHANGED vars
  BY <1>5, AckFrame DEF Exhausted, vars
<1>6. ASSUME NEW w \in Workers, Receive(w)
      PROVE  AcknowledgedIsStored'
  <2>1. w \notin reached
    BY <1>6 DEF Receive, AcknowledgedIsStored, Sending
  <2>2. /\ \A v \in Workers : v # w => worker'[v] = worker[v] /\ holds'[v] = holds[v]
                                        /\ gate'[v] = gate[v]
        /\ worker'[w] = "send"
    BY <1>6 DEF Receive, Governor!Register, TypeOK, WorkerTypes, Governor!TypeOK
  <2>3. UNCHANGED <<disk, nextExpected, pending, doneQueue, acked, reached, server>>
    BY <1>6 DEF Receive
  <2> QED
    BY <2>1, <2>2, <2>3 DEF AcknowledgedIsStored, Committed, Sending, TypeOK, RemoteTypes
<1>7. ASSUME NEW w \in Workers, ReceiveClosed(w)
      PROVE  AcknowledgedIsStored'
  <2>1. w \notin reached
    BY <1>7 DEF ReceiveClosed, AcknowledgedIsStored, Sending
  <2>2. /\ \A v \in Workers : v # w => worker'[v] = worker[v]
        /\ worker'[w] = "exited"
    BY <1>7 DEF ReceiveClosed, TypeOK, WorkerTypes
  <2>3. UNCHANGED <<disk, nextExpected, pending, doneQueue, acked, reached, server, holds, gate>>
    BY <1>7 DEF ReceiveClosed
  <2> QED
    BY <2>1, <2>2, <2>3 DEF AcknowledgedIsStored, Committed, Sending, TypeOK, RemoteTypes
<1>8. ASSUME NEW w \in Workers, PassGate(w)
      PROVE  AcknowledgedIsStored'
  <2>1. /\ gate[w] # "holding"
        /\ \A v \in Workers : v # w => gate'[v] = gate[v]
    BY <1>8 DEF PassGate, Governor!Claim, Governor!Defer, Governor!Await, Governor!Recheck,
                TypeOK, Governor!TypeOK
  <2>2. w \notin reached
    BY <2>1 DEF AcknowledgedIsStored, Sending
  <2>3. UNCHANGED <<disk, nextExpected, pending, doneQueue, acked, reached, server, worker, holds>>
    BY <1>8 DEF PassGate
  <2> QED
    BY <2>1, <2>2, <2>3 DEF AcknowledgedIsStored, Committed, Sending, TypeOK, RemoteTypes
<1>9. ASSUME NEW w \in Workers, ServerExecutes(w)
      PROVE  AcknowledgedIsStored'
  <2>1. Sending(w) /\ server' \in AfterExecuting({w}) /\ reached' = reached \cup {w}
    BY <1>9 DEF ServerExecutes
  <2>2. server \subseteq server' /\ holds[w] \in server'
    BY <2>1, ExecutingAdds
  <2>3. UNCHANGED <<disk, nextExpected, pending, doneQueue, acked, worker, holds, gate>>
    BY <1>9 DEF ServerExecutes
  <2> QED
    BY <2>1, <2>2, <2>3 DEF AcknowledgedIsStored, Committed, Sending
<1>10. ASSUME NEW w \in Workers, NEW signal \in BOOLEAN,
              SendSucceeds(w, signal) \/ SendFails(w, signal)
       PROVE  AcknowledgedIsStored'
  <2>1. /\ reached' = reached \ {w}
        /\ UNCHANGED <<disk, nextExpected, pending, doneQueue, server, holds, acked>>
    BY <1>10 DEF SendSucceeds, SendFails
  <2>2. \A v \in Workers : v # w => gate'[v] = gate[v]
    BY <1>10 DEF SendSucceeds, SendFails, Governor!RecordSuccess, Governor!RecordError,
                 Governor!Release, TypeOK, Governor!TypeOK
  <2>3. \A v \in Workers : v # w => worker'[v] = worker[v]
    BY <1>10 DEF SendSucceeds, SendFails, TypeOK, WorkerTypes
  <2>4. worker'[w] \in {"succeeded", "report"} => w \in reached
    BY <1>10 DEF SendSucceeds, SendFails, TypeOK, WorkerTypes
  <2> QED
    BY <2>1, <2>2, <2>3, <2>4
       DEF AcknowledgedIsStored, Committed, Sending, TypeOK, RemoteTypes
<1>11. ASSUME NEW w \in Workers, Acknowledge(w) \/ GiveUp(w)
       PROVE  AcknowledgedIsStored'
  <2>1. /\ worker[w] \in {"succeeded", "failed"}
        /\ UNCHANGED <<disk, nextExpected, pending, doneQueue, server, reached>>
    BY <1>11 DEF Acknowledge, GiveUp
  <2>2. acked' \subseteq server
    BY <1>11 DEF Acknowledge, GiveUp, AcknowledgedIsStored
  <2>3. \A v \in Workers : v # w => gate'[v] = gate[v]
    BY <1>11 DEF Acknowledge, GiveUp, Governor!NotifyWaiters, TypeOK, Governor!TypeOK
  <2>4. \A v \in Workers : v # w => worker'[v] = worker[v] /\ holds'[v] = holds[v]
    BY <1>11 DEF Acknowledge, GiveUp, TypeOK, WorkerTypes
  <2>5. worker'[w] \in {"succeeded", "report"} => worker[w] = "succeeded" /\ holds'[w] = holds[w]
    <3>1. CASE Acknowledge(w) /\ Checkpointing
      BY <3>1 DEF Acknowledge
    <3>2. CASE Acknowledge(w) /\ ~Checkpointing
      <4>1. worker'[w] = "recv"
        BY <3>2 DEF Acknowledge, TypeOK, WorkerTypes
      <4> QED
        BY <4>1
    <3>3. CASE GiveUp(w)
      <4>1. worker'[w] = "exited"
        BY <3>3 DEF GiveUp, TypeOK, WorkerTypes
      <4> QED
        BY <4>1
    <3> QED
      BY <1>11, <3>1, <3>2, <3>3
  <2>6. w \notin reached
    BY <2>1 DEF AcknowledgedIsStored, Sending
  <2> QED
    BY <2>1, <2>2, <2>3, <2>4, <2>5, <2>6
       DEF AcknowledgedIsStored, Committed, Sending, TypeOK, RemoteTypes
<1>12. ASSUME NEW w \in Workers, Report(w)
       PROVE  AcknowledgedIsStored'
  <2>1. /\ holds[w] \in server /\ holds[w] \in Batches
        /\ worker[w] = "report"
    BY <1>12 DEF Report, AcknowledgedIsStored, TypeOK, WorkerTypes
  <2>2. doneQueue \in Seq(Batches) /\ doneQueue' = Append(doneQueue, holds[w])
    BY <1>12 DEF Report, TypeOK, KeeperTypes
  <2>3. \A i \in DOMAIN doneQueue' : doneQueue'[i] \in server
    BY <2>1, <2>2 DEF AcknowledgedIsStored
  <2>4. /\ \A v \in Workers : v # w => worker'[v] = worker[v] /\ holds'[v] = holds[v]
        /\ worker'[w] = "recv"
    BY <1>12 DEF Report, TypeOK, WorkerTypes
  <2>5. UNCHANGED <<disk, nextExpected, pending, acked, reached, server, gate>>
    BY <1>12 DEF Report
  <2>6. w \notin reached
    BY <2>1 DEF AcknowledgedIsStored, Sending
  <2> QED
    BY <2>3, <2>4, <2>5, <2>6
       DEF AcknowledgedIsStored, Committed, Sending, TypeOK, RemoteTypes
<1>13. ASSUME NEW elapsed \in BOOLEAN, Collect(elapsed)
       PROVE  AcknowledgedIsStored'
  <2>1. doneQueue \in Seq(Batches) /\ doneQueue # <<>> /\ doneQueue' = Tail(doneQueue)
    BY <1>13 DEF Collect, TypeOK, KeeperTypes
  <2>2. Head(doneQueue) \in server
    BY <2>1 DEF AcknowledgedIsStored
  <2>3. \A i \in DOMAIN doneQueue' : doneQueue'[i] \in server
    BY <2>1 DEF AcknowledgedIsStored
  <2> DEFINE completed == pending \cup {Head(doneQueue)}
  <2>4. completed \subseteq server
    BY <2>2 DEF AcknowledgedIsStored
  <2>5. PICK n \in nextExpected..(NBatches + 1) :
          /\ nextExpected..(n - 1) \subseteq completed
          /\ nextExpected' = n
          /\ pending' = completed \ (nextExpected..(n - 1))
    BY <1>13 DEF Collect, Frontier
  <2>6. nextExpected \in 1..(NBatches + 1) /\ NBatches \in Nat
    BY Bounds DEF TypeOK, KeeperTypes
  <2>7. 1..(nextExpected' - 1) \subseteq server
    <3> SUFFICES ASSUME NEW b \in 1..(nextExpected' - 1)
                 PROVE  b \in server
      OBVIOUS
    <3>1. b \in 1..(nextExpected - 1) \/ b \in nextExpected..(n - 1)
      BY <2>5, <2>6
    <3> QED
      BY <2>4, <2>5, <3>1 DEF AcknowledgedIsStored, Committed
  <2>8. pending' \subseteq server
    BY <2>4, <2>5
  <2>9. UNCHANGED <<disk, acked, reached, server, worker, holds, gate>>
    BY <1>13 DEF Collect
  <2> QED
    BY <2>3, <2>7, <2>8, <2>9 DEF AcknowledgedIsStored, Committed, Sending
<1>14. CASE TruncateCheckpoint
  <2>1. disk'.committed = 0
    BY <1>14 DEF TruncateCheckpoint, Torn
  <2>2. UNCHANGED <<nextExpected, pending, doneQueue, acked, reached, server, worker, holds, gate>>
    BY <1>14 DEF TruncateCheckpoint
  <2> QED
    BY <2>1, <2>2 DEF AcknowledgedIsStored, Committed, Sending
<1>15. CASE WriteCheckpoint
  <2>1. disk'.committed = Committed
    BY <1>15 DEF WriteCheckpoint, Whole
  <2>2. UNCHANGED <<nextExpected, pending, doneQueue, acked, reached, server, worker, holds, gate>>
    BY <1>15 DEF WriteCheckpoint, Persisted
  <2> QED
    BY <2>1, <2>2 DEF AcknowledgedIsStored, Committed, Sending
<1> QED
  BY <1>1, <1>2, <1>3, <1>4, <1>5, <1>6, <1>7, <1>8, <1>9, <1>10, <1>11, <1>12, <1>13,
     <1>14, <1>15
     DEF Next, ProducerSteps, WorkerSteps, KeeperSteps

\* checkpoint_task's promise, for every schedule of workers, crashes, failed
\* writes and resumed runs: the durable prefix is in the collection.  Overwrite
\* is excluded because each of its requests empties the collection.
THEOREM CheckpointBehindServerCorrect ==
  ASSUME ~Overwrite
  PROVE  Spec => []CheckpointBehindServer
<1>1. Init => AcknowledgedIsStored
  BY DEF Init, AcknowledgedIsStored, Committed, Absent, Sending
<1>2. TypeOK /\ AcknowledgedIsStored /\ [Next]_vars => AcknowledgedIsStored'
  BY AckPreserved
<1>3. AcknowledgedIsStored => CheckpointBehindServer
  BY DEF AcknowledgedIsStored, CheckpointBehindServer
<1> QED
  BY <1>1, <1>2, <1>3, TypeCorrect, PTL DEF Spec

-----------------------------------------------------------------------------
(* A run that returns Ok has imported the whole input. *)

\* A batch the producer has passed is acknowledged or still on its way.
Accounted(b) ==
  \/ b \in acked
  \/ \E i \in DOMAIN queue : queue[i] = b
  \/ \E w \in Workers : holds[w] = b

\* A worker holds a batch only while it works on it, and reports only what has
\* been acknowledged.
HandsClean ==
  \A w \in Workers :
    /\ worker[w] \in {"recv", "exited"} => holds[w] = 0
    /\ worker[w] = "report" => holds[w] \in acked

\* A worker that stopped without an error saw the end of the input.
StoppedAtEnd ==
  \A w \in Workers :
    worker[w] = "exited" /\ w \notin sendFailed => producer = "done" /\ queue = <<>>

\* As long as no send has failed nothing is lost, and a producer that is done
\* without an error has read the whole input.
AllAccounted ==
  sendFailed = {} =>
    /\ \A b \in (resumeFrom + 1)..(nextBatch - 1) : Accounted(b)
    /\ producer = "done" /\ ~parseFailed => nextBatch = NBatches + 1

\* Strengthening of SuccessIsComplete.
NothingDropped ==
  /\ 1..resumeFrom \subseteq server
  /\ phase = "running" => HandsClean /\ StoppedAtEnd /\ AllAccounted
  /\ SuccessIsComplete

\* Without overwrite no step removes a batch from the collection.
LEMMA ServerGrows ==
  ASSUME ~Overwrite, [Next]_vars
  PROVE  server \subseteq server'
<1> USE DEF remoteVars
<1>1. CASE Crash
  BY <1>1, ExecutingAdds DEF Crash
<1>2. ASSUME NEW w \in Workers, ServerExecutes(w)
      PROVE  server \subseteq server'
  <2>1. Sending(w) /\ server' \in AfterExecuting({w})
    BY <1>2 DEF ServerExecutes
  <2> QED
    BY <2>1, ExecutingAdds
<1>3. CASE \E w \in Workers :
             \/ Receive(w) \/ ReceiveClosed(w) \/ PassGate(w)
             \/ Acknowledge(w) \/ GiveUp(w) \/ Report(w)
             \/ \E signal \in BOOLEAN : SendSucceeds(w, signal) \/ SendFails(w, signal)
  BY <1>3 DEF Receive, ReceiveClosed, PassGate, Acknowledge, GiveUp, Report,
              SendSucceeds, SendFails
<1>4. CASE KeeperSteps \/ QuietElapses \/ DropBuffered \/ ProducerSteps
  BY <1>4 DEF KeeperSteps, Collect, DoneClosed, TruncateCheckpoint, WriteCheckpoint, WriteFails,
              Persisted, QuietElapses, DropBuffered, ProducerSteps, NextBatch, ParseError,
              AcquirePermits, PushBatch, PushRefused
<1>5. CASE Start \/ Refuse \/ Finish \/ Exhausted \/ UNCHANGED vars
  BY <1>5 DEF Start, Refuse, Finish, Exhausted, vars
<1> QED
  BY <1>1, <1>2, <1>3, <1>4, <1>5 DEF Next, WorkerSteps

\* A step within a run that keeps the three parts keeps the whole.
LEMMA WithinRun ==
  ASSUME NothingDropped, phase = "running", server \subseteq server', UNCHANGED commandVars,
         HandsClean', StoppedAtEnd', AllAccounted'
  PROVE  NothingDropped'
BY DEF NothingDropped, SuccessIsComplete, commandVars

\* So does a step that leaves the producer and the workers alone.
LEMMA DroppedFrame ==
  ASSUME NothingDropped, server \subseteq server',
         UNCHANGED <<commandVars, producerVars, queue, workerVars>>
  PROVE  NothingDropped'
BY DEF NothingDropped, SuccessIsComplete, HandsClean, StoppedAtEnd, AllAccounted, Accounted,
       commandVars, producerVars, workerVars

\* The ranges the index arithmetic rests on.
LEMMA IndexRanges ==
  ASSUME TypeOK
  PROVE  /\ NBatches \in Nat /\ resumeFrom \in Nat
         /\ nextBatch \in 1..(NBatches + 1) /\ queue \in Seq(Batches)
<1>1. CommandTypes /\ ProducerTypes
  BY DEF TypeOK
<1>2. NBatches \in Nat /\ resumeFrom \in Nat
  <2>1. resumeFrom \in 0..NBatches
    BY <1>1 DEF CommandTypes
  <2> QED
    BY <2>1, Bounds
<1>3. nextBatch \in 1..(NBatches + 1)
  BY <1>1 DEF ProducerTypes
<1>4. queue \in Seq(Batches)
  BY <1>1 DEF ProducerTypes
<1> QED
  BY <1>2, <1>3, <1>4

\* No step loses a batch without an error, and none reports Ok too early.
LEMMA DroppedPreserved ==
  ASSUME ~Overwrite, TypeOK, AcknowledgedIsStored, NothingDropped, [Next]_vars
  PROVE  NothingDropped'
<1> USE DEF commandVars, producerVars, workerVars, limiterVars, keeperVars, remoteVars
<1>0. server \subseteq server'
  BY ServerGrows
<1>1. CASE Start
  <2>1. /\ phase' = "running" /\ server' = server
        /\ resumeFrom' = disk.committed \/ resumeFrom' = 0
        /\ producer' = "batch" /\ nextBatch' = 1 /\ sendFailed' = {}
        /\ worker' = [w \in Workers |-> "recv"] /\ holds' = [w \in Workers |-> 0]
    BY <1>1 DEF Start, Fresh
  <2>2. disk.committed \in Nat /\ 1..disk.committed \subseteq server
    BY Bounds DEF TypeOK, RemoteTypes, AcknowledgedIsStored
  <2>3. 1..resumeFrom' \subseteq server' /\ (resumeFrom' + 1)..(nextBatch' - 1) = {}
    BY <2>1, <2>2
  <2>4. HandsClean' /\ StoppedAtEnd'
    BY <2>1 DEF HandsClean, StoppedAtEnd
  <2>5. AllAccounted'
    BY <2>1, <2>3 DEF AllAccounted
  <2> QED
    BY <2>1, <2>3, <2>4, <2>5 DEF NothingDropped, SuccessIsComplete
<1>2. CASE Crash \/ Refuse
  <2>1. phase' \in {"idle", "refused"} /\ resumeFrom' = resumeFrom
    BY <1>2 DEF Crash, Refuse
  <2> QED
    BY <1>0, <2>1 DEF NothingDropped, SuccessIsComplete
<1>3. CASE Finish
  <2>1. /\ phase = "running" /\ producer = "done" /\ ~ReceiverOpen /\ queue = <<>>
        /\ phase' = IF parseFailed THEN "parse error"
                    ELSE IF sendFailed # {} THEN "send error" ELSE "ok"
        /\ UNCHANGED <<resumeFrom, server>>
    BY <1>3 DEF Finish, Outcome
  <2>2. ASSUME phase' = "ok" PROVE Batches \subseteq server
    <3>1. ~parseFailed /\ sendFailed = {}
      BY <2>1, <2>2
    <3>2. \A w \in Workers : holds[w] = 0
      BY <2>1 DEF NothingDropped, HandsClean, ReceiverOpen
    <3>3. nextBatch = NBatches + 1 /\ resumeFrom \in Nat /\ NBatches \in Nat
      BY <2>1, <3>1, Bounds DEF NothingDropped, AllAccounted, TypeOK, CommandTypes
    <3> SUFFICES ASSUME NEW b \in Batches
                 PROVE  b \in server
      OBVIOUS
    <3>4. CASE b \in 1..resumeFrom
      BY <3>4 DEF NothingDropped
    <3>5. CASE b \in (resumeFrom + 1)..(nextBatch - 1)
      <4>1. Accounted(b) /\ b # 0
        BY <2>1, <3>1, <3>5, <3>3 DEF NothingDropped, AllAccounted
      <4>2. ~\E i \in DOMAIN queue : queue[i] = b
        <5>1. queue = <<>>
          BY <2>1, Zenon
        <5>2. queue \in Seq(Batches)
          BY IndexRanges
        <5>3. Len(queue) = 0 /\ DOMAIN queue = 1..Len(queue)
          BY <5>1, <5>2
        <5> QED
          BY <5>3
      <4>3. ~\E w \in Workers : holds[w] = b
        BY <3>2, <4>1
      <4>4. b \in acked
        BY <4>1, <4>2, <4>3 DEF Accounted
      <4> QED
        BY <4>4 DEF AcknowledgedIsStored
    <3> QED
      BY <3>3, <3>4, <3>5 DEF Batches
  <2>3. phase' # "running"
    BY <2>1
  <2> QED
    BY <2>1, <2>2, <2>3 DEF NothingDropped, SuccessIsComplete
<1>4. CASE NextBatch
  <2>1. /\ phase = "running" /\ producer = "batch"
        /\ UNCHANGED <<commandVars, parseFailed, queue, workerVars>>
    BY <1>4 DEF NextBatch
  <2>2. HandsClean' /\ StoppedAtEnd'
    BY <2>1 DEF NothingDropped, HandsClean, StoppedAtEnd
  <2>3. nextBatch \in 1..(NBatches + 1) /\ resumeFrom \in Nat /\ NBatches \in Nat
    BY IndexRanges
  <2>4. \/ nextBatch' = nextBatch /\ (producer' = "done" => nextBatch = NBatches + 1)
        \/ producer' = "batch" /\ (resumeFrom + 1)..(nextBatch' - 1) = {}
    BY <1>4, <2>3 DEF NextBatch, Skipped
  <2>5. AllAccounted'
    BY <2>1, <2>4 DEF NothingDropped, AllAccounted, Accounted
  <2> QED
    BY <1>0, <2>1, <2>2, <2>5, WithinRun
<1>5. CASE ParseError \/ AcquirePermits
  <2>1. /\ phase = "running" /\ producer # "done"
        /\ producer' = "done" => parseFailed'
        /\ UNCHANGED <<commandVars, nextBatch, queue, workerVars>>
    BY <1>5 DEF ParseError, AcquirePermits
  <2>2. HandsClean' /\ StoppedAtEnd' /\ AllAccounted'
    BY <2>1 DEF NothingDropped, HandsClean, StoppedAtEnd, AllAccounted, Accounted
  <2> QED
    BY <1>0, <2>1, <2>2, WithinRun
<1>6. CASE PushBatch
  <2>1. /\ phase = "running" /\ producer = "push" /\ producer' = "batch"
        /\ queue' = Append(queue, nextBatch) /\ nextBatch' = nextBatch + 1
        /\ UNCHANGED <<commandVars, workerVars>>
    BY <1>6 DEF PushBatch
  <2>2. queue \in Seq(Batches) /\ nextBatch \in Int /\ resumeFrom \in Int
    BY IndexRanges
  <2>3. HandsClean' /\ StoppedAtEnd'
    BY <2>1 DEF NothingDropped, HandsClean, StoppedAtEnd
  <2>4. Len(queue') = Len(queue) + 1 /\ queue'[Len(queue')] = nextBatch
        /\ \A i \in DOMAIN queue : i \in DOMAIN queue' /\ queue'[i] = queue[i]
    BY <2>1, <2>2
  <2>5. \A b : Accounted(b) \/ b = nextBatch => Accounted(b)'
    BY <2>1, <2>2, <2>4 DEF Accounted
  <2>6. \A b \in (resumeFrom' + 1)..(nextBatch' - 1) :
           b \in (resumeFrom + 1)..(nextBatch - 1) \/ b = nextBatch
    BY <2>1, <2>2
  <2>7. AllAccounted'
    BY <2>1, <2>5, <2>6 DEF NothingDropped, AllAccounted
  <2> QED
    BY <1>0, <2>1, <2>3, <2>7, WithinRun
<1>7. CASE PushRefused
  <2>1. /\ phase = "running" /\ producer = "push" /\ ~ReceiverOpen
        /\ UNCHANGED <<commandVars, workerVars>>
    BY <1>7 DEF PushRefused
  <2>2. sendFailed # {} /\ Workers \subseteq sendFailed
    BY <2>1, PipelineAssumption DEF NothingDropped, StoppedAtEnd, ReceiverOpen
  <2>3. HandsClean' /\ StoppedAtEnd' /\ AllAccounted'
    BY <2>1, <2>2 DEF NothingDropped, HandsClean, StoppedAtEnd, AllAccounted
  <2> QED
    BY <1>0, <2>1, <2>3, WithinRun
<1>8. CASE DropBuffered
  <2>1. /\ phase = "running" /\ queue # <<>> /\ ~ReceiverOpen
        /\ UNCHANGED <<commandVars, workerVars, producerVars>>
    BY <1>8 DEF DropBuffered
  <2>2. sendFailed # {} /\ Workers \subseteq sendFailed
    BY <2>1, PipelineAssumption DEF NothingDropped, StoppedAtEnd, ReceiverOpen
  <2>3. HandsClean' /\ StoppedAtEnd' /\ AllAccounted'
    BY <2>1, <2>2 DEF NothingDropped, HandsClean, StoppedAtEnd, AllAccounted
  <2> QED
    BY <1>0, <2>1, <2>3, WithinRun
<1>9. ASSUME NEW w \in Workers, Receive(w)
      PROVE  NothingDropped'
  <2>1. /\ phase = "running" /\ worker[w] = "recv" /\ queue # <<>>
        /\ queue' = Tail(queue)
        /\ UNCHANGED <<commandVars, producerVars, sendFailed, acked>>
    BY <1>9 DEF Receive
  <2>2. /\ \A v \in Workers : v # w => worker'[v] = worker[v] /\ holds'[v] = holds[v]
        /\ worker'[w] = "send" /\ holds'[w] = Head(queue)
    BY <1>9 DEF Receive, TypeOK, WorkerTypes
  <2>3. queue \in Seq(Batches) /\ NBatches \in Nat /\ resumeFrom \in Nat
    BY IndexRanges
  <2>4. HandsClean'
    BY <2>1, <2>2 DEF NothingDropped, HandsClean
  <2>5. StoppedAtEnd'
    BY <2>1, <2>2 DEF NothingDropped, StoppedAtEnd
  <2>6. holds[w] = 0
    BY <2>1 DEF NothingDropped, HandsClean
  <2>7. ASSUME NEW b, b # 0, Accounted(b) PROVE Accounted(b)'
    <3>1. CASE b \in acked
      BY <2>1, <3>1 DEF Accounted
    <3>2. ASSUME NEW i \in DOMAIN queue, queue[i] = b PROVE Accounted(b)'
      <4>1. CASE i = 1
        BY <2>2, <2>3, <3>2, <4>1 DEF Accounted
      <4>2. CASE i # 1
        <5>1. i - 1 \in DOMAIN queue' /\ queue'[i - 1] = b
          BY <2>1, <2>3, <3>2, <4>2
        <5> QED
          BY <5>1 DEF Accounted
      <4> QED
        BY <4>1, <4>2
    <3>3. ASSUME NEW v \in Workers, holds[v] = b PROVE Accounted(b)'
      BY <2>2, <2>6, <2>7, <3>3 DEF Accounted
    <3> QED
      BY <2>7, <3>1, <3>2, <3>3 DEF Accounted
  <2>8. 0 \notin (resumeFrom + 1)..(nextBatch - 1)
    BY <2>3
  <2>9. AllAccounted'
    BY <2>1, <2>7, <2>8 DEF NothingDropped, AllAccounted
  <2> QED
    BY <1>0, <2>1, <2>4, <2>5, <2>9, WithinRun
<1>10. ASSUME NEW w \in Workers, ReceiveClosed(w)
       PROVE  NothingDropped'
  <2>1. /\ phase = "running" /\ worker[w] = "recv" /\ queue = <<>> /\ producer = "done"
        /\ UNCHANGED <<commandVars, producerVars, queue, holds, sendFailed, acked>>
    BY <1>10 DEF ReceiveClosed, SenderDropped
  <2>2. \A v \in Workers : v # w => worker'[v] = worker[v]
    BY <1>10 DEF ReceiveClosed, TypeOK, WorkerTypes
  <2>3. worker'[w] = "exited"
    BY <1>10 DEF ReceiveClosed, TypeOK, WorkerTypes
  <2>4. HandsClean'
    BY <2>1, <2>2, <2>3 DEF NothingDropped, HandsClean
  <2>5. StoppedAtEnd' /\ AllAccounted'
    BY <2>1 DEF NothingDropped, StoppedAtEnd, AllAccounted, Accounted
  <2> QED
    BY <1>0, <2>1, <2>4, <2>5, WithinRun
<1>11. ASSUME NEW w \in Workers, PassGate(w) \/ ServerExecutes(w)
       PROVE  NothingDropped'
  BY <1>0, <1>11, DroppedFrame DEF PassGate, ServerExecutes
<1>12. ASSUME NEW w \in Workers, NEW signal \in BOOLEAN,
              SendSucceeds(w, signal) \/ SendFails(w, signal)
       PROVE  NothingDropped'
  <2>1. /\ phase = "running" /\ UNCHANGED <<commandVars, producerVars, queue, holds, sendFailed, acked>>
        /\ \A v \in Workers : v # w => worker'[v] = worker[v]
        /\ worker'[w] \in {"succeeded", "failed"}
    BY <1>12 DEF SendSucceeds, SendFails, TypeOK, WorkerTypes
  <2>2. HandsClean'
    BY <2>1 DEF NothingDropped, HandsClean
  <2>3. StoppedAtEnd' /\ AllAccounted'
    BY <2>1 DEF NothingDropped, StoppedAtEnd, AllAccounted, Accounted
  <2> QED
    BY <1>0, <2>1, <2>2, <2>3, WithinRun
<1>13. ASSUME NEW w \in Workers, Acknowledge(w)
       PROVE  NothingDropped'
  <2>1. /\ phase = "running" /\ acked' = acked \cup {holds[w]}
        /\ UNCHANGED <<commandVars, producerVars, queue, sendFailed>>
    BY <1>13 DEF Acknowledge
  <2>2. \A v \in Workers : v # w => worker'[v] = worker[v] /\ holds'[v] = holds[v]
    BY <1>13 DEF Acknowledge, TypeOK, WorkerTypes
  <2>3. \/ worker'[w] = "report" /\ holds'[w] = holds[w]
        \/ worker'[w] = "recv" /\ holds'[w] = 0
    <3>1. CASE Checkpointing
      BY <1>13, <3>1 DEF Acknowledge, TypeOK, WorkerTypes
    <3>2. CASE ~Checkpointing
      BY <1>13, <3>2 DEF Acknowledge, TypeOK, WorkerTypes
    <3> QED
      BY <3>1, <3>2
  <2>4. HandsClean'
    BY <2>1, <2>2, <2>3 DEF NothingDropped, HandsClean
  <2>5. StoppedAtEnd'
    BY <2>1, <2>2, <2>3 DEF NothingDropped, StoppedAtEnd
  <2>6. \A b : Accounted(b) => Accounted(b)'
    BY <2>1, <2>2 DEF Accounted
  <2>7. AllAccounted'
    BY <2>1, <2>6 DEF NothingDropped, AllAccounted
  <2> QED
    BY <1>0, <2>1, <2>4, <2>5, <2>7, WithinRun
<1>16. ASSUME NEW w \in Workers, GiveUp(w)
       PROVE  NothingDropped'
  <2>1. /\ phase = "running" /\ sendFailed' = sendFailed \cup {w}
        /\ UNCHANGED <<commandVars, producerVars, queue, acked>>
    BY <1>16 DEF GiveUp
  <2>2. /\ \A v \in Workers : v # w => worker'[v] = worker[v] /\ holds'[v] = holds[v]
        /\ worker'[w] = "exited" /\ holds'[w] = 0
    BY <1>16 DEF GiveUp, TypeOK, WorkerTypes
  <2>3. HandsClean'
    BY <2>1, <2>2 DEF NothingDropped, HandsClean
  <2>4. StoppedAtEnd' /\ AllAccounted'
    BY <2>1, <2>2 DEF NothingDropped, StoppedAtEnd, AllAccounted
  <2> QED
    BY <1>0, <2>1, <2>3, <2>4, WithinRun
<1>14. ASSUME NEW w \in Workers, Report(w)
       PROVE  NothingDropped'
  <2>1. /\ phase = "running" /\ worker[w] = "report"
        /\ UNCHANGED <<commandVars, producerVars, queue, sendFailed, acked>>
    BY <1>14 DEF Report
  <2>2. /\ \A v \in Workers : v # w => worker'[v] = worker[v] /\ holds'[v] = holds[v]
        /\ worker'[w] = "recv" /\ holds'[w] = 0
    BY <1>14 DEF Report, TypeOK, WorkerTypes
  <2>3. holds[w] \in acked
    BY <2>1 DEF NothingDropped, HandsClean
  <2>4. HandsClean' /\ StoppedAtEnd'
    BY <2>1, <2>2 DEF NothingDropped, HandsClean, StoppedAtEnd
  <2>5. \A b : Accounted(b) => Accounted(b)'
    BY <2>1, <2>2, <2>3 DEF Accounted
  <2>6. AllAccounted'
    BY <2>1, <2>5 DEF NothingDropped, AllAccounted
  <2> QED
    BY <1>0, <2>1, <2>4, <2>6, WithinRun
<1>15. CASE KeeperSteps \/ QuietElapses \/ Exhausted \/ UNCHANGED vars
  BY <1>0, <1>15, DroppedFrame
     DEF KeeperSteps, Collect, DoneClosed, TruncateCheckpoint, WriteCheckpoint, WriteFails,
         Persisted, QuietElapses, Exhausted, vars
<1> QED
  BY <1>1, <1>2, <1>3, <1>4, <1>5, <1>6, <1>7, <1>8, <1>9, <1>10, <1>11, <1>12, <1>13,
     <1>14, <1>15, <1>16
     DEF Next, ProducerSteps, WorkerSteps

\* Ok means everything: whatever the schedule, the faults, the number of
\* killed runs before this one and the point each was killed at, a run that
\* returns Ok leaves the whole input in the collection.
THEOREM SuccessIsCompleteCorrect ==
  ASSUME ~Overwrite
  PROVE  Spec => []SuccessIsComplete
<1>1. Init => AcknowledgedIsStored
  BY DEF Init, AcknowledgedIsStored, Committed, Absent, Sending
<1>2. TypeOK /\ AcknowledgedIsStored /\ [Next]_vars => AcknowledgedIsStored'
  BY AckPreserved
<1>3. Init => NothingDropped
  BY DEF Init, NothingDropped, SuccessIsComplete
<1>4. TypeOK /\ AcknowledgedIsStored /\ NothingDropped /\ [Next]_vars => NothingDropped'
  BY DroppedPreserved
<1>5. NothingDropped => SuccessIsComplete
  BY DEF NothingDropped
<1> QED
  BY <1>1, <1>2, <1>3, <1>4, <1>5, TypeCorrect, PTL DEF Spec

-----------------------------------------------------------------------------
(* The pipeline implements the user's view of a resumable import. *)

\* On a store that replaces objects in one step the checkpoint always parses,
\* and a run only ever has more to claim than it says.
ClaimGrows ==
  /\ disk.state # "torn"
  /\ phase = "running" /\ keeper # "off" => disk.committed <= Committed

LEMMA OutcomeEnds == Outcome \notin {"idle", "running"}
<1>1. CASE parseFailed
  BY <1>1, Zenon DEF Outcome
<1>2. CASE ~parseFailed
  BY <1>2, Zenon DEF Outcome
<1> QED
  BY <1>1, <1>2

LEMMA ClaimGrowsPreserved ==
  ASSUME AtomicPut, TypeOK, ClaimGrows, [Next]_vars
  PROVE  ClaimGrows'
<1> USE DEF commandVars, producerVars, workerVars, limiterVars, keeperVars, remoteVars
<1>t. nextExpected \in 1..(NBatches + 1) /\ disk.committed \in Nat /\ NBatches \in Nat
  BY Bounds DEF TypeOK, KeeperTypes, RemoteTypes
<1>1. CASE Start
  <2>1. disk' = disk /\ nextExpected' = resumeFrom' + 1
    BY <1>1 DEF Start, Fresh
  <2>2. CASE Checkpointing
    <3>1. resumeFrom' = disk.committed
      BY <1>1, <2>2 DEF Start
    <3> QED
      BY <1>t, <2>1, <3>1 DEF ClaimGrows, Committed
  <2>3. CASE ~Checkpointing
    <3>1. keeper' = "off"
      BY <1>1, <2>3 DEF Start, Fresh
    <3> QED
      BY <2>1, <3>1 DEF ClaimGrows
  <2> QED
    BY <2>2, <2>3
<1>2. CASE Refuse \/ Finish \/ Crash
  <2>1. disk' = disk /\ phase' # "running"
    BY <1>2, OutcomeEnds DEF Refuse, Finish, Crash
  <2> QED
    BY <2>1 DEF ClaimGrows
<1>3. ASSUME NEW elapsed \in BOOLEAN, Collect(elapsed)
      PROVE  ClaimGrows'
  <2>1. disk' = disk /\ phase = "running" /\ keeper = "recv" /\ nextExpected' \in nextExpected..(NBatches + 1)
    BY <1>3 DEF Collect
  <2> QED
    BY <1>t, <2>1 DEF ClaimGrows, Committed
<1>4. CASE WriteCheckpoint
  <2>1. disk' = Whole(Committed) /\ nextExpected' = nextExpected
    BY <1>4 DEF WriteCheckpoint, Persisted
  <2> QED
    BY <1>t, <2>1 DEF ClaimGrows, Committed, Whole
<1>5. CASE DoneClosed \/ WriteFails
  <2>1. disk' = disk /\ nextExpected' = nextExpected /\ phase = "running" /\ keeper # "off"
    BY <1>5 DEF DoneClosed, WriteFails, Persisted
  <2> QED
    BY <2>1 DEF ClaimGrows, Committed
<1>6. CASE TruncateCheckpoint
  BY <1>6 DEF TruncateCheckpoint
<1>7. CASE \/ ProducerSteps \/ DropBuffered \/ QuietElapses \/ Exhausted \/ UNCHANGED vars
           \/ \E w \in Workers : WorkerSteps(w)
  <2>1. UNCHANGED <<disk, phase, keeper, nextExpected>>
    BY <1>7 DEF ProducerSteps, NextBatch, ParseError, AcquirePermits, PushBatch, PushRefused,
                DropBuffered, QuietElapses, Exhausted, vars, WorkerSteps, Receive, ReceiveClosed,
                PassGate, ServerExecutes, Acknowledge, GiveUp, Report, SendSucceeds, SendFails
  <2> QED
    BY <2>1 DEF ClaimGrows, Committed
<1> QED
  BY <1>1, <1>2, <1>3, <1>4, <1>5, <1>6, <1>7 DEF Next, KeeperSteps

\* What the user sees of a step of the pipeline.
LEMMA StepRefines ==
  ASSUME ~Overwrite, AtomicPut, TypeOK, TypeOK', AcknowledgedIsStored, NothingDropped',
         ClaimGrows, [Next]_vars
  PROVE  [Abstract!Next]_(Abstract!abstractVars)
<1> USE DEF commandVars, producerVars, workerVars, limiterVars, keeperVars, remoteVars,
            Abstract!abstractVars
<1>t. /\ server \in SUBSET Batches /\ server' \in SUBSET Batches /\ server \subseteq server'
      /\ disk.committed \in Nat /\ nextExpected \in 1..(NBatches + 1) /\ NBatches \in Nat
  BY Bounds, ServerGrows DEF TypeOK, KeeperTypes, RemoteTypes
\* The bookkeeping of a run is invisible.
<1>s. ASSUME UNCHANGED <<server, disk, phase>>
      PROVE  UNCHANGED Abstract!abstractVars
  BY <1>s
<1>1. CASE Start
  <2>1. UNCHANGED <<server, disk>> /\ phase # "running" /\ phase' = "running"
    BY <1>1 DEF Start
  <2> QED
    BY <2>1 DEF Abstract!Next, Abstract!Rerun
<1>2. CASE Refuse
  BY <1>2 DEF Refuse, ClaimGrows
<1>3. CASE Finish
  <2>1. UNCHANGED <<server, disk>> /\ phase = "running" /\ phase' \notin {"idle", "running"}
    BY <1>3, OutcomeEnds DEF Finish
  <2>2. phase' = "ok" => server = Batches
    BY <1>t, <2>1 DEF NothingDropped, SuccessIsComplete
  <2>3. CASE phase' = "ok"
    BY <2>1, <2>2, <2>3 DEF Abstract!Next, Abstract!Succeed, Abstract!Batches, Batches
  <2>4. CASE phase' # "ok"
    BY <2>1, <2>4 DEF Abstract!Next, Abstract!Fail
  <2> QED
    BY <2>3, <2>4
<1>4. CASE Crash
  <2>1. UNCHANGED disk /\ phase = "running" /\ phase' = "idle"
    BY <1>4 DEF Crash
  <2> QED
    BY <1>t, <2>1 DEF Abstract!Next, Abstract!Store, Abstract!Batches, Batches
<1>5. ASSUME NEW w \in Workers, ServerExecutes(w)
      PROVE  Abstract!Next
  <2>1. UNCHANGED <<disk, phase>> /\ phase = "running"
    BY <1>5 DEF ServerExecutes
  <2> QED
    BY <1>t, <2>1 DEF Abstract!Next, Abstract!Store, Abstract!Batches, Batches
<1>6. CASE WriteCheckpoint
  <2>1. /\ disk' = Whole(Committed) /\ UNCHANGED <<server, phase>>
        /\ phase = "running" /\ keeper # "off"
    BY <1>6 DEF WriteCheckpoint, Persisted
  <2>2. Committed \in disk.committed..NBatches /\ 1..Committed \subseteq server
    BY <1>t, <2>1 DEF ClaimGrows, AcknowledgedIsStored, Committed
  <2>3. disk'.committed = Committed
    BY <2>1 DEF Whole
  <2> QED
    BY <2>1, <2>2, <2>3 DEF Abstract!Next, Abstract!Claim
<1>7. CASE TruncateCheckpoint
  BY <1>7 DEF TruncateCheckpoint
<1>8. CASE \/ ProducerSteps \/ DropBuffered \/ QuietElapses \/ Exhausted \/ UNCHANGED vars
           \/ \E elapsed \in BOOLEAN : Collect(elapsed)
           \/ DoneClosed \/ WriteFails
           \/ \E w \in Workers :
                \/ Receive(w) \/ ReceiveClosed(w) \/ PassGate(w)
                \/ Acknowledge(w) \/ GiveUp(w) \/ Report(w)
                \/ \E signal \in BOOLEAN : SendSucceeds(w, signal) \/ SendFails(w, signal)
  <2>1. UNCHANGED <<server, disk, phase>>
    BY <1>8 DEF ProducerSteps, NextBatch, ParseError, AcquirePermits, PushBatch, PushRefused,
                DropBuffered, QuietElapses, Exhausted, vars, Collect, DoneClosed, WriteFails, Persisted,
                Receive, ReceiveClosed, PassGate, Acknowledge, GiveUp, Report, SendSucceeds, SendFails
  <2> QED
    BY <1>s, <2>1
<1> QED
  BY <1>1, <1>2, <1>3, <1>4, <1>5, <1>6, <1>7, <1>8 DEF Next, KeeperSteps, WorkerSteps

\* run_import_with_checkpoint does what docs/resume.md says of it, for every
\* schedule, fault and kill: batches are delivered at least once, claims grow
\* and cover stored batches only, and Ok comes with everything stored.  Needed:
\* a store that replaces objects in one step, and no overwrite.
THEOREM ImplementsResumableImportCorrect ==
  ASSUME ~Overwrite, AtomicPut
  PROVE  Spec => ImplementsResumableImport
<1>1. Init => /\ AcknowledgedIsStored /\ NothingDropped /\ ClaimGrows
              /\ Abstract!Init
  BY DEF Init, AcknowledgedIsStored, Committed, Absent, Sending, NothingDropped, SuccessIsComplete,
         ClaimGrows, Abstract!Init
<1>2. TypeOK /\ AcknowledgedIsStored /\ [Next]_vars => AcknowledgedIsStored'
  BY AckPreserved
<1>3. TypeOK /\ AcknowledgedIsStored /\ NothingDropped /\ [Next]_vars => NothingDropped'
  BY DroppedPreserved
<1>4. TypeOK /\ ClaimGrows /\ [Next]_vars => ClaimGrows'
  BY ClaimGrowsPreserved
<1>5. TypeOK /\ TypeOK' /\ AcknowledgedIsStored /\ NothingDropped' /\ ClaimGrows /\ [Next]_vars
        => [Abstract!Next]_(Abstract!abstractVars)
  BY StepRefines
<1> QED
  BY <1>1, <1>2, <1>3, <1>4, <1>5, TypeCorrect, PTL DEF Spec, ImplementsResumableImport, Abstract!Spec

-----------------------------------------------------------------------------
(* What a run that returned has counted, and what it has written down. *)

\* Nothing of the committed prefix gets past the producer's skip.
BeyondResumePoint ==
  phase = "running" =>
    /\ \A b \in acked : b > resumeFrom
    /\ \A i \in DOMAIN queue : queue[i] > resumeFrom
    /\ \A w \in Workers : holds[w] # 0 => holds[w] > resumeFrom
    /\ producer \in {"acquire", "push"} => nextBatch > resumeFrom

LEMMA BeyondPreserved ==
  ASSUME TypeOK, BeyondResumePoint, [Next]_vars
  PROVE  BeyondResumePoint'
<1> USE DEF commandVars, producerVars, workerVars, limiterVars, keeperVars, remoteVars
<1>t. resumeFrom \in Nat /\ nextBatch \in Nat /\ queue \in Seq(Batches)
  BY IndexRanges
<1>1. CASE Start
  <2>1. acked' = {} /\ queue' = <<>> /\ holds' = [w \in Workers |-> 0] /\ producer' = "batch"
    BY <1>1 DEF Start, Fresh
  <2> QED
    BY <2>1 DEF BeyondResumePoint
<1>2. CASE Refuse \/ Finish \/ Crash
  <2>1. phase' # "running"
    BY <1>2, OutcomeEnds DEF Refuse, Finish, Crash
  <2> QED
    BY <2>1 DEF BeyondResumePoint
<1>3. CASE NextBatch
  <2>1. /\ UNCHANGED <<phase, resumeFrom, acked, queue, holds>> /\ phase = "running"
        /\ producer' = "acquire" => nextBatch' = nextBatch /\ nextBatch > resumeFrom
        /\ producer' # "push"
    BY <1>t, <1>3 DEF NextBatch, Skipped
  <2> QED
    BY <2>1 DEF BeyondResumePoint
<1>4. CASE ParseError \/ AcquirePermits \/ PushRefused
  BY <1>4 DEF BeyondResumePoint, ParseError, AcquirePermits, PushRefused
<1>5. CASE PushBatch
  <2>1. /\ UNCHANGED <<phase, resumeFrom, acked, holds>> /\ phase = "running"
        /\ producer' = "batch" /\ queue' = Append(queue, nextBatch) /\ nextBatch > resumeFrom
    BY <1>5 DEF PushBatch, BeyondResumePoint
  <2>2. nextBatch \in Batches
    BY <1>5 DEF PushBatch, TypeOK, ProducerTypes
  <2>3. /\ DOMAIN queue' = 1..(Len(queue) + 1) /\ queue'[Len(queue) + 1] = nextBatch
        /\ DOMAIN queue = 1..Len(queue) /\ Len(queue) \in Nat
        /\ \A i \in 1..Len(queue) : queue'[i] = queue[i]
    BY <1>t, <2>1, <2>2
  <2>4. \A i \in DOMAIN queue' : queue'[i] > resumeFrom
    BY <2>1, <2>3 DEF BeyondResumePoint
  <2> QED
    BY <2>1, <2>4 DEF BeyondResumePoint
<1>6. CASE DropBuffered
  <2>1. /\ UNCHANGED <<phase, resumeFrom, acked, holds, producer, nextBatch>> /\ phase = "running"
        /\ queue # <<>> /\ queue' = Tail(queue)
    BY <1>6 DEF DropBuffered
  <2>2. \A i \in DOMAIN queue' : i + 1 \in DOMAIN queue /\ queue'[i] = queue[i + 1]
    BY <1>t, <2>1
  <2> QED
    BY <2>1, <2>2 DEF BeyondResumePoint
<1>7. ASSUME NEW w \in Workers, Receive(w)
      PROVE  BeyondResumePoint'
  <2>1. /\ UNCHANGED <<phase, resumeFrom, acked, producer, nextBatch>> /\ phase = "running"
        /\ queue # <<>> /\ queue' = Tail(queue) /\ holds' = [holds EXCEPT ![w] = Head(queue)]
    BY <1>7 DEF Receive
  <2>2. /\ \A i \in DOMAIN queue' : i + 1 \in DOMAIN queue /\ queue'[i] = queue[i + 1]
        /\ 1 \in DOMAIN queue /\ Head(queue) = queue[1]
    BY <1>t, <2>1
  <2>3. \A v \in Workers : holds'[v] = holds[v] \/ holds'[v] = queue[1]
    BY <2>1, <2>2 DEF TypeOK, WorkerTypes
  <2> QED
    BY <2>1, <2>2, <2>3 DEF BeyondResumePoint
<1>8. ASSUME NEW w \in Workers, Acknowledge(w)
      PROVE  BeyondResumePoint'
  <2>1. /\ UNCHANGED <<phase, resumeFrom, queue, producer, nextBatch>> /\ phase = "running"
        /\ worker[w] = "succeeded" /\ acked' = acked \cup {holds[w]}
    BY <1>8 DEF Acknowledge
  <2>2. holds[w] # 0
    BY <2>1 DEF TypeOK, WorkerTypes, Batches
  <2>3. \A v \in Workers : holds'[v] = holds[v] \/ holds'[v] = 0
    BY <1>8 DEF Acknowledge, TypeOK, WorkerTypes
  <2> QED
    BY <2>1, <2>2, <2>3 DEF BeyondResumePoint
<1>9. ASSUME NEW w \in Workers, GiveUp(w) \/ Report(w)
      PROVE  BeyondResumePoint'
  <2>1. UNCHANGED <<phase, resumeFrom, queue, producer, nextBatch, acked>> /\ phase = "running"
    BY <1>9 DEF GiveUp, Report
  <2>2. \A v \in Workers : holds'[v] = holds[v] \/ holds'[v] = 0
    BY <1>9 DEF GiveUp, Report, TypeOK, WorkerTypes
  <2> QED
    BY <2>1, <2>2 DEF BeyondResumePoint
<1>10. CASE \/ KeeperSteps \/ QuietElapses \/ Exhausted \/ UNCHANGED vars
            \/ \E w \in Workers :
                 \/ ReceiveClosed(w) \/ PassGate(w) \/ ServerExecutes(w)
                 \/ \E signal \in BOOLEAN : SendSucceeds(w, signal) \/ SendFails(w, signal)
  <2>1. UNCHANGED <<phase, resumeFrom, queue, producer, nextBatch, acked, holds>>
    BY <1>10 DEF KeeperSteps, Collect, DoneClosed, TruncateCheckpoint, WriteCheckpoint, WriteFails,
                 Persisted, QuietElapses, Exhausted, vars, ReceiveClosed, PassGate, ServerExecutes,
                 SendSucceeds, SendFails
  <2> QED
    BY <2>1 DEF BeyondResumePoint
<1> QED
  BY <1>1, <1>2, <1>3, <1>4, <1>5, <1>6, <1>7, <1>8, <1>9, <1>10
     DEF Next, ProducerSteps, WorkerSteps

\* Where an acknowledged batch is until the checkpoint covers it.
Tracked(b) ==
  \/ b < nextExpected \/ b \in pending
  \/ \E i \in DOMAIN doneQueue : doneQueue[i] = b
  \/ \E w \in Workers : worker[w] = "report" /\ holds[w] = b

\* The checkpoint task stops only when it has seen every acknowledgement, and
\* what is not dirty is in the object.
CheckpointCurrent ==
  phase = "running" /\ Checkpointing =>
    /\ keeper # "off"
    /\ nextExpected > resumeFrom /\ nextExpected \notin pending
    /\ \A b \in acked : Tracked(b)
    /\ keeper \in {"write", "final"} => dirty
    /\ keeper = "closed" => ~dirty
    /\ keeper \in {"final", "closed"} => doneQueue = <<>> /\ ~ReceiverOpen
    /\ ~StoreFaults /\ ~dirty => disk.committed = Committed

\* A step that concerns neither the acknowledgements nor the task.
LEMMA CurrentFrame ==
  ASSUME CheckpointCurrent, UNCHANGED <<phase, resumeFrom, acked, worker, holds, keeperVars, disk>>
  PROVE  CheckpointCurrent'
BY DEF CheckpointCurrent, Tracked, ReceiverOpen, Committed, keeperVars

\* A step of a worker that keeps track of every acknowledged batch.
LEMMA CurrentWorker ==
  ASSUME CheckpointCurrent, NEW w \in Workers, worker[w] # "exited", phase = "running",
         UNCHANGED <<phase, resumeFrom, keeper, pending, nextExpected, dirty, disk>>,
         Checkpointing => \A b \in acked' : Tracked(b)'
  PROVE  CheckpointCurrent'
<1>1. ReceiverOpen
  BY DEF ReceiverOpen
<1> QED
  BY <1>1 DEF CheckpointCurrent, Committed

LEMMA CurrentPreserved ==
  ASSUME TypeOK, CheckpointCurrent, [Next]_vars
  PROVE  CheckpointCurrent'
<1> USE DEF commandVars, producerVars, workerVars, limiterVars, keeperVars, remoteVars
<1>t. /\ nextExpected \in 1..(NBatches + 1) /\ pending \in SUBSET Batches
      /\ doneQueue \in Seq(Batches) /\ disk.committed \in Nat /\ NBatches \in Nat
  BY Bounds DEF TypeOK, KeeperTypes, RemoteTypes
<1>w. ASSUME NEW w \in Workers, worker[w] # "report",
             \A v \in Workers : v # w => worker'[v] = worker[v] /\ holds'[v] = holds[v],
             UNCHANGED <<acked, nextExpected, pending, doneQueue>>, CheckpointCurrent,
             phase = "running", Checkpointing
      PROVE  \A b \in acked' : Tracked(b)'
  BY <1>w DEF CheckpointCurrent, Tracked
<1>1. CASE Start
  <2>1. /\ disk' = disk /\ nextExpected' = resumeFrom' + 1 /\ acked' = {} /\ pending' = {}
        /\ doneQueue' = <<>> /\ dirty' = FALSE
        /\ keeper' = IF Checkpointing THEN "recv" ELSE "off"
        /\ resumeFrom' = IF Checkpointing THEN disk.committed ELSE 0
    BY <1>1 DEF Start, Fresh
  <2> QED
    BY <1>t, <2>1 DEF CheckpointCurrent, Committed
<1>2. CASE Refuse \/ Finish \/ Crash
  <2>1. phase' # "running"
    BY <1>2, OutcomeEnds DEF Refuse, Finish, Crash
  <2> QED
    BY <2>1 DEF CheckpointCurrent
<1>3. ASSUME NEW elapsed \in BOOLEAN, Collect(elapsed)
      PROVE  CheckpointCurrent'
  <2>1. /\ phase = "running" /\ keeper = "recv" /\ doneQueue # <<>> /\ doneQueue' = Tail(doneQueue)
        /\ UNCHANGED <<phase, resumeFrom, acked, worker, holds, disk>>
        /\ keeper' = IF dirty' /\ elapsed THEN "write" ELSE "recv"
    BY <1>3 DEF Collect
  <2>2. PICK n \in nextExpected..(NBatches + 1) :
          /\ n \notin pending \cup {Head(doneQueue)}
          /\ nextExpected' = n
          /\ pending' = (pending \cup {Head(doneQueue)}) \ (nextExpected..(n - 1))
          /\ dirty' = (dirty \/ n > nextExpected)
    BY <1>3 DEF Collect, Frontier
  <2>3. /\ Head(doneQueue) \in Batches /\ Head(doneQueue) = doneQueue[1]
        /\ \A i \in DOMAIN doneQueue :
             i # 1 => i - 1 \in DOMAIN doneQueue' /\ doneQueue'[i - 1] = doneQueue[i]
    <3>1. Head(doneQueue) \in Batches /\ Head(doneQueue) = doneQueue[1]
      BY <1>t, <2>1
    <3>2. /\ DOMAIN doneQueue = 1..Len(doneQueue) /\ DOMAIN doneQueue' = 1..(Len(doneQueue) - 1)
          /\ Len(doneQueue) \in Nat
          /\ \A i \in 1..(Len(doneQueue) - 1) : doneQueue'[i] = doneQueue[i + 1]
      BY <1>t, <2>1
    <3> SUFFICES ASSUME NEW i \in 1..Len(doneQueue), i # 1
                 PROVE  i - 1 \in 1..(Len(doneQueue) - 1) /\ doneQueue'[i - 1] = doneQueue[(i - 1) + 1]
      BY <3>1, <3>2
    <3> QED
      BY <3>2
  <2>4. ASSUME NEW b \in pending \cup {Head(doneQueue)}
        PROVE  b < nextExpected' \/ b \in pending'
    BY <1>t, <2>2, <2>3 DEF Batches
  <2>5. ASSUME NEW b \in Batches, Tracked(b)
        PROVE  Tracked(b)'
    <3>1. CASE b < nextExpected
      BY <1>t, <2>2, <3>1 DEF Tracked, Batches
    <3>2. CASE b \in pending
      BY <2>4, <3>2 DEF Tracked
    <3>3. CASE \E i \in DOMAIN doneQueue : doneQueue[i] = b
      <4> PICK i \in DOMAIN doneQueue : doneQueue[i] = b
        BY <3>3
      <4>1. CASE i = 1
        BY <2>3, <2>4, <4>1 DEF Tracked
      <4>2. CASE i # 1
        BY <2>3, <4>2 DEF Tracked
      <4> QED
        BY <4>1, <4>2
    <3>4. CASE \E w \in Workers : worker[w] = "report" /\ holds[w] = b
      BY <2>1, <3>4 DEF Tracked
    <3> QED
      BY <2>5, <3>1, <3>2, <3>3, <3>4 DEF Tracked
  <2>6. acked \in SUBSET Batches
    BY DEF TypeOK, WorkerTypes
  <2>7. ~dirty' => ~dirty /\ nextExpected' = nextExpected
    <3>1. ~dirty' => ~dirty /\ ~(n > nextExpected)
      BY <2>2, Zenon
    <3>2. ~(n > nextExpected) => n = nextExpected
      BY <1>t
    <3> QED
      BY <2>2, <3>1, <3>2
  <2>8. nextExpected' > resumeFrom' \/ ~Checkpointing
    <3>1. resumeFrom \in Nat
      BY IndexRanges
    <3> QED
      BY <1>t, <2>1, <2>2, <3>1 DEF CheckpointCurrent
  <2>9. nextExpected' \notin pending'
    BY <2>2
  <2> QED
    BY <2>1, <2>5, <2>6, <2>7, <2>8, <2>9 DEF CheckpointCurrent, Committed
<1>4. CASE DoneClosed
  <2>1. /\ keeper' \in {"final", "closed"} /\ (keeper' = "final" <=> dirty)
        /\ doneQueue = <<>> /\ ~ReceiverOpen
        /\ UNCHANGED <<phase, resumeFrom, acked, worker, holds, disk, doneQueue, pending,
                       nextExpected, dirty>>
    BY <1>4 DEF DoneClosed, LastWrite
  <2> QED
    BY <2>1 DEF CheckpointCurrent, Tracked, ReceiverOpen, Committed
<1>5. CASE WriteCheckpoint
  <2>1. /\ disk' = Whole(Committed) /\ keeper \in {"write", "final"}
        /\ keeper' = IF keeper = "write" THEN "recv" ELSE "closed"
        /\ dirty' = FALSE
        /\ UNCHANGED <<phase, resumeFrom, acked, worker, holds, doneQueue, pending, nextExpected>>
    BY <1>5 DEF WriteCheckpoint, Persisted
  <2>2. disk'.committed = Committed
    BY <2>1 DEF Whole
  <2> QED
    BY <2>1, <2>2 DEF CheckpointCurrent, Tracked, ReceiverOpen, Committed
<1>6. CASE WriteFails
  <2>1. /\ StoreFaults /\ keeper \in {"write", "final"}
        /\ keeper' = IF keeper = "write" THEN "recv" ELSE "closed"
        /\ dirty' = FALSE
        /\ UNCHANGED <<phase, resumeFrom, acked, worker, holds, doneQueue, pending, nextExpected>>
    BY <1>6 DEF WriteFails, Persisted
  <2> QED
    BY <2>1 DEF CheckpointCurrent, Tracked, ReceiverOpen
<1>7. CASE TruncateCheckpoint
  <2>1. /\ phase = "running" /\ keeper \in {"write", "final"}
        /\ UNCHANGED <<phase, resumeFrom, acked, worker, holds, keeperVars>>
    BY <1>7 DEF TruncateCheckpoint
  <2> QED
    BY <2>1 DEF CheckpointCurrent, Tracked, ReceiverOpen
<1>8. ASSUME NEW w \in Workers, Acknowledge(w)
      PROVE  CheckpointCurrent'
  <2>1. /\ phase = "running" /\ worker[w] = "succeeded" /\ acked' = acked \cup {holds[w]}
        /\ UNCHANGED <<phase, resumeFrom, keeperVars, disk>>
    BY <1>8 DEF Acknowledge
  <2>2. ASSUME Checkpointing PROVE \A b \in acked' : Tracked(b)'
    <3>1. /\ holds' = holds /\ worker'[w] = "report"
          /\ \A v \in Workers : v # w => worker'[v] = worker[v]
      BY <1>8, <2>2 DEF Acknowledge, TypeOK, WorkerTypes
    <3> QED
      BY <2>1, <2>2, <3>1 DEF CheckpointCurrent, Tracked
  <2> QED
    BY <2>1, <2>2, CurrentWorker
<1>9. ASSUME NEW w \in Workers, Report(w)
      PROVE  CheckpointCurrent'
  <2>1. /\ phase = "running" /\ worker[w] = "report" /\ doneQueue' = Append(doneQueue, holds[w])
        /\ UNCHANGED <<phase, resumeFrom, acked, keeper, pending, nextExpected, dirty, disk>>
    BY <1>9 DEF Report
  <2>2. \A v \in Workers : v # w => worker'[v] = worker[v] /\ holds'[v] = holds[v]
    BY <1>9 DEF Report, TypeOK, WorkerTypes
  <2>3. holds[w] \in Batches
    BY <2>1 DEF TypeOK, WorkerTypes
  <2>4. /\ DOMAIN doneQueue' = 1..(Len(doneQueue) + 1) /\ doneQueue'[Len(doneQueue) + 1] = holds[w]
        /\ DOMAIN doneQueue = 1..Len(doneQueue) /\ Len(doneQueue) \in Nat
        /\ \A i \in 1..Len(doneQueue) : doneQueue'[i] = doneQueue[i]
    BY <1>t, <2>1, <2>3
  <2>5. /\ \A i \in DOMAIN doneQueue : i \in DOMAIN doneQueue' /\ doneQueue'[i] = doneQueue[i]
        /\ \E i \in DOMAIN doneQueue' : doneQueue'[i] = holds[w]
    BY <2>4
  <2>6. \A b : Tracked(b) => Tracked(b)'
    BY <2>1, <2>2, <2>5 DEF Tracked
  <2> QED
    BY <2>1, <2>6, CurrentWorker DEF CheckpointCurrent
<1>10. ASSUME NEW w \in Workers, Receive(w) \/ GiveUp(w) \/ ReceiveClosed(w)
       PROVE  CheckpointCurrent'
  <2>1. /\ phase = "running" /\ worker[w] \in {"recv", "failed"}
        /\ UNCHANGED <<phase, resumeFrom, acked, keeperVars, disk>>
    BY <1>10 DEF Receive, GiveUp, ReceiveClosed
  <2>2. \A v \in Workers : v # w => worker'[v] = worker[v] /\ holds'[v] = holds[v]
    BY <1>10 DEF Receive, GiveUp, ReceiveClosed, TypeOK, WorkerTypes
  <2> QED
    BY <1>w, <2>1, <2>2, CurrentWorker
<1>11. ASSUME NEW w \in Workers, NEW signal \in BOOLEAN,
              SendSucceeds(w, signal) \/ SendFails(w, signal)
       PROVE  CheckpointCurrent'
  <2>1. /\ phase = "running" /\ worker[w] = "send"
        /\ UNCHANGED <<phase, resumeFrom, acked, holds, keeperVars, disk>>
    BY <1>11 DEF SendSucceeds, SendFails, Sending
  <2>2. \A v \in Workers : v # w => worker'[v] = worker[v] /\ holds'[v] = holds[v]
    BY <1>11, <2>1 DEF SendSucceeds, SendFails, TypeOK, WorkerTypes
  <2> QED
    BY <1>w, <2>1, <2>2, CurrentWorker
<1>12. CASE \/ ProducerSteps \/ DropBuffered \/ QuietElapses \/ Exhausted \/ UNCHANGED vars
            \/ \E w \in Workers : PassGate(w) \/ ServerExecutes(w)
  <2>1. UNCHANGED <<phase, resumeFrom, acked, worker, holds, keeperVars, disk>>
    BY <1>12 DEF ProducerSteps, NextBatch, ParseError, AcquirePermits, PushBatch, PushRefused,
                 DropBuffered, QuietElapses, Exhausted, vars, PassGate, ServerExecutes
  <2> QED
    BY <2>1, CurrentFrame
<1> QED
  BY <1>1, <1>2, <1>3, <1>4, <1>5, <1>6, <1>7, <1>8, <1>9, <1>10, <1>11, <1>12
     DEF Next, WorkerSteps, KeeperSteps

\* The run ends when the task has closed: everything acknowledged is covered
\* or behind the first gap.
LEMMA TightPreserved ==
  ASSUME TypeOK, CheckpointCurrent, FinalCheckpointTight, [Next]_vars
  PROVE  FinalCheckpointTight'
<1> USE DEF commandVars, producerVars, workerVars, limiterVars, keeperVars, remoteVars
<1>1. CASE Finish
  <2>1. /\ phase = "running" /\ ~ReceiverOpen /\ keeper \in {"off", "closed"}
        /\ UNCHANGED <<resumeFrom, acked, disk>>
    BY <1>1 DEF Finish
  <2> SUFFICES ASSUME Checkpointing, ~StoreFaults
               PROVE  disk.committed >= resumeFrom /\ (disk.committed + 1) \notin acked
    BY <2>1 DEF FinalCheckpointTight
  <2>2. /\ nextExpected > resumeFrom /\ nextExpected \notin pending
        /\ \A b \in acked : Tracked(b)
        /\ doneQueue = <<>> /\ disk.committed = nextExpected - 1
    BY <2>1 DEF CheckpointCurrent, Committed
  <2>3. nextExpected \in Nat /\ resumeFrom \in Nat /\ doneQueue \in Seq(Batches)
    BY IndexRanges, Bounds DEF TypeOK, KeeperTypes
  <2>4. DOMAIN doneQueue = {}
    BY <2>2, <2>3
  <2>5. ~Tracked(nextExpected)
    BY <2>1, <2>2, <2>3, <2>4 DEF Tracked, ReceiverOpen
  <2> QED
    BY <2>2, <2>3, <2>5
<1>2. CASE Start \/ Refuse \/ Crash
  <2>1. phase' = "running" \/ phase' = "refused" \/ phase' = "idle"
    BY <1>2 DEF Start, Refuse, Crash
  <2>2. phase' # "ok" /\ phase' # "parse error" /\ phase' # "send error"
    BY <2>1, Zenon
  <2> QED
    BY <2>2, Zenon DEF FinalCheckpointTight, Ended
<1>3. CASE Exhausted \/ UNCHANGED vars
  <2>1. phase' = phase /\ disk' = disk /\ resumeFrom' = resumeFrom /\ acked' = acked
    BY <1>3 DEF Exhausted, vars
  <2> QED
    BY <2>1, Zenon DEF FinalCheckpointTight, Ended
<1>4. CASE \/ ProducerSteps \/ DropBuffered \/ QuietElapses \/ KeeperSteps
           \/ \E w \in Workers : WorkerSteps(w)
  <2>1. phase = "running" /\ phase' = phase
    BY <1>4 DEF ProducerSteps, NextBatch, ParseError, AcquirePermits, PushBatch, PushRefused,
                DropBuffered, QuietElapses, KeeperSteps, Collect, DoneClosed, TruncateCheckpoint,
                WriteCheckpoint, WriteFails, Persisted, WorkerSteps, Receive, ReceiveClosed,
                PassGate, ServerExecutes, Acknowledge, GiveUp, Report, SendSucceeds, SendFails
  <2> QED
    BY <2>1, Zenon DEF FinalCheckpointTight, Ended
<1> QED
  BY <1>1, <1>2, <1>3, <1>4 DEF Next

\* checkpoint_task writes once more when its channel closes: on a store that
\* works, the checkpoint of a run that ended, well or not, covers every
\* acknowledged batch up to the first gap and never falls back.
THEOREM FinalCheckpointTightCorrect == Spec => []FinalCheckpointTight
<1>1. Init => CheckpointCurrent /\ FinalCheckpointTight
  BY Zenon DEF Init, CheckpointCurrent, FinalCheckpointTight, Ended
<1>2. TypeOK /\ CheckpointCurrent /\ [Next]_vars => CheckpointCurrent'
  BY CurrentPreserved
<1>3. TypeOK /\ CheckpointCurrent /\ FinalCheckpointTight /\ [Next]_vars => FinalCheckpointTight'
  BY TightPreserved
<1> QED
  BY <1>1, <1>2, <1>3, TypeCorrect, PTL DEF Spec

-----------------------------------------------------------------------------
(* The limiter under the calls the workers make *)

\* A slot is held by a worker that is in send.
SlotInSend == \A w \in Workers : gate[w] = "holding" => worker[w] = "send"

LimiterInv == SlotInSend /\ Governor!InFlightExact /\ Governor!NoLostWakeup

\* The instance counts with its own copy of the standard operator.
LEMMA SameCount == ASSUME NEW S PROVE Governor!Cardinality(S) = Cardinality(S)
BY DEF Governor!Cardinality, Cardinality

\* Each worker holds one slot at most, so the pool never holds more than its
\* ceiling, which is its size.
SlotsFit == Governor!Cardinality(Governor!Holders) <= Cardinality(Workers)

LEMMA HoldersFit == SlotsFit /\ SlotsFit'
<1>1. IsFiniteSet(Workers) /\ Governor!Holders \subseteq Workers /\ Governor!Holders' \subseteq Workers
  BY PipelineAssumption DEF Governor!Holders
<1>2. /\ Cardinality(Governor!Holders) <= Cardinality(Workers)
      /\ Cardinality(Governor!Holders') <= Cardinality(Workers)
  BY <1>1, FS_Subset
<1>3. /\ Governor!Cardinality(Governor!Holders) = Cardinality(Governor!Holders)
      /\ Governor!Cardinality(Governor!Holders') = Cardinality(Governor!Holders')
  BY SameCount
<1> QED
  BY <1>2, <1>3 DEF SlotsFit

\* Every call keeps the count exact and strands nobody.
LEMMA GovernorPreserved ==
  ASSUME Governor!TypeOK, Governor!InFlightExact, Governor!NoLostWakeup,
         NEW w \in Workers, NEW signal \in BOOLEAN,
         \/ Governor!Register(w) \/ Governor!Claim(w) \/ Governor!Defer(w)
         \/ Governor!Await(w) \/ Governor!Recheck(w) \/ Governor!NotifyWaiters(w)
         \/ Governor!QuietElapses
         \/ Governor!RecordSuccess(w, signal) \/ Governor!RecordError(w, signal)
  PROVE  Governor!InFlightExact' /\ Governor!NoLostWakeup'
<1> DEFINE Excused == inFlight >= limit \/ \E v \in Workers : gate[v] = "notifying"
<1>0. /\ limit \in Nat /\ inFlight \in Nat
      /\ gate \in [Workers -> {"out", "checking", "deferred", "waiting", "holding", "notifying"}]
      /\ \A u \in Workers : gate[u] \in {"deferred", "waiting"} /\ u \notin woken => Excused
  BY PoolSize DEF Governor!TypeOK, Governor!NoLostWakeup
<1>1. IsFiniteSet(Governor!Holders) /\ inFlight = Cardinality(Governor!Holders)
  BY PipelineAssumption, FS_Subset, SameCount DEF Governor!Holders, Governor!InFlightExact
<1>2. CASE Governor!Register(w) \/ Governor!Defer(w) \/ Governor!Await(w) \/ Governor!Recheck(w)
             \/ Governor!QuietElapses
  <2>1. Governor!Holders' = Governor!Holders /\ inFlight' = inFlight
    BY <1>0, <1>2 DEF Governor!Holders, Governor!Register, Governor!Defer, Governor!Await,
                      Governor!Recheck, Governor!QuietElapses
  <2>2. ASSUME NEW u \in Workers, gate'[u] \in {"deferred", "waiting"}, u \notin woken'
        PROVE  Excused'
    BY <1>0, <1>2, <2>2 DEF Governor!Register, Governor!Defer, Governor!Await,
                            Governor!Recheck, Governor!QuietElapses
  <2> QED
    BY <1>1, <2>1, <2>2 DEF Governor!InFlightExact, Governor!NoLostWakeup
<1>3. CASE Governor!Claim(w)
  <2>1. w \notin Governor!Holders /\ Governor!Holders' = Governor!Holders \cup {w}
    BY <1>0, <1>3 DEF Governor!Holders, Governor!Claim
  <2>2. Cardinality(Governor!Holders') = Cardinality(Governor!Holders) + 1
    BY <1>1, <2>1, FS_AddElement
  <2>3. inFlight' = inFlight + 1
    BY <1>3 DEF Governor!Claim
  <2>4. ASSUME NEW u \in Workers, gate'[u] \in {"deferred", "waiting"}, u \notin woken'
        PROVE  Excused'
    BY <1>0, <1>3, <2>4 DEF Governor!Claim
  <2> QED
    BY <1>1, <2>2, <2>3, <2>4, SameCount, HoldersFit DEF SlotsFit, Governor!InFlightExact, Governor!NoLostWakeup
<1>4. CASE Governor!NotifyWaiters(w)
  <2>1. Governor!Holders' = Governor!Holders /\ inFlight' = inFlight
    BY <1>0, <1>4 DEF Governor!Holders, Governor!NotifyWaiters
  <2>2. ASSUME NEW u \in Workers, gate'[u] \in {"deferred", "waiting"} PROVE u \in woken'
    BY <1>0, <1>4, <2>2 DEF Governor!NotifyWaiters, Governor!Registered
  <2> QED
    BY <1>1, <2>1, <2>2 DEF Governor!InFlightExact, Governor!NoLostWakeup
<1>5. CASE Governor!RecordSuccess(w, signal) \/ Governor!RecordError(w, signal)
  <2>1. gate[w] = "holding" /\ gate' = [gate EXCEPT ![w] = "notifying"]
        /\ inFlight' = Governor!Larger(inFlight - 1, 0)
    BY <1>5 DEF Governor!RecordSuccess, Governor!RecordError, Governor!Release
  <2>2. w \in Governor!Holders /\ Governor!Holders' = Governor!Holders \ {w}
    BY <1>0, <2>1 DEF Governor!Holders
  <2>3. Cardinality(Governor!Holders') = Cardinality(Governor!Holders) - 1
    BY <1>1, <2>2, FS_RemoveElement
  <2>4. Cardinality(Governor!Holders) # 0
    BY <1>1, <2>2, FS_EmptySet
  <2>5. inFlight' = Cardinality(Governor!Holders')
    BY <1>0, <1>1, <2>1, <2>3, <2>4 DEF Governor!Larger
  <2>6. gate'[w] = "notifying"
    BY <1>0, <2>1
  <2> QED
    BY <2>5, <2>6, SameCount, HoldersFit DEF SlotsFit, Governor!InFlightExact, Governor!NoLostWakeup
<1> QED
  BY <1>2, <1>3, <1>4, <1>5

\* Nobody is at the gate when a run starts or the process is gone.
LEMMA LimiterFresh ==
  ASSUME gate' = [w \in Workers |-> "out"], inFlight' = 0 PROVE LimiterInv'
<1>1. Governor!Holders' = {}
  BY DEF Governor!Holders
<1>2. Governor!InFlightExact'
  BY <1>1, FS_EmptySet, SameCount, HoldersFit DEF SlotsFit, Governor!InFlightExact
<1>3. SlotInSend' /\ Governor!NoLostWakeup'
  BY DEF SlotInSend, Governor!NoLostWakeup
<1> QED
  BY <1>2, <1>3 DEF LimiterInv

LEMMA LimiterFrame ==
  ASSUME LimiterInv, UNCHANGED limiterVars,
         \A w \in Workers : gate[w] = "holding" => worker'[w] = "send"
  PROVE  LimiterInv'
BY DEF LimiterInv, SlotInSend, limiterVars, Governor!InFlightExact, Governor!Holders,
       Governor!NoLostWakeup

LEMMA LimiterPreserved ==
  ASSUME TypeOK, LimiterInv, [Next]_vars PROVE LimiterInv'
<1>0. /\ Governor!TypeOK /\ SlotInSend /\ Governor!InFlightExact /\ Governor!NoLostWakeup
      /\ worker \in [Workers -> {"recv", "send", "succeeded", "failed", "report", "exited"}]
      /\ gate \in [Workers -> {"out", "checking", "deferred", "waiting", "holding", "notifying"}]
  BY DEF TypeOK, WorkerTypes, Governor!TypeOK, LimiterInv
<1>1. CASE Start \/ Crash
  BY <1>1, LimiterFresh DEF Start, Crash, Fresh
<1>2. CASE \/ Refuse \/ Finish \/ ProducerSteps \/ DropBuffered \/ KeeperSteps \/ Exhausted
           \/ UNCHANGED vars
  <2>1. UNCHANGED <<limiterVars, worker>>
    BY <1>2 DEF Refuse, Finish, ProducerSteps, NextBatch, ParseError, AcquirePermits, PushBatch,
                PushRefused, DropBuffered, KeeperSteps, Collect, DoneClosed, TruncateCheckpoint,
                WriteCheckpoint, WriteFails, Persisted, Exhausted, vars, workerVars
  <2> QED
    BY <1>0, <2>1, LimiterFrame DEF SlotInSend
<1>3. ASSUME NEW w \in Workers, Receive(w) PROVE LimiterInv'
  <2>1. Governor!InFlightExact' /\ Governor!NoLostWakeup'
    BY <1>0, <1>3, GovernorPreserved DEF Receive
  <2>2. SlotInSend'
    BY <1>0, <1>3 DEF Receive, SlotInSend, Governor!Register
  <2> QED
    BY <2>1, <2>2 DEF LimiterInv
<1>4. ASSUME NEW w \in Workers, ReceiveClosed(w) \/ ServerExecutes(w) \/ Report(w)
      PROVE  LimiterInv'
  <2>1. /\ UNCHANGED limiterVars
        /\ \/ UNCHANGED worker
           \/ worker[w] \in {"recv", "report"} /\ \E to \in {"recv", "exited"} :
                worker' = [worker EXCEPT ![w] = to]
    BY <1>4 DEF ReceiveClosed, ServerExecutes, Report, workerVars
  <2>2. \A u \in Workers : gate[u] = "holding" => worker'[u] = "send"
    BY <1>0, <2>1 DEF SlotInSend
  <2> QED
    BY <2>1, <2>2, LimiterFrame
<1>5. ASSUME NEW w \in Workers, PassGate(w) PROVE LimiterInv'
  <2>1. Governor!InFlightExact' /\ Governor!NoLostWakeup'
    BY <1>0, <1>5, GovernorPreserved DEF PassGate
  <2>2. worker[w] = "send" /\ worker' = worker
        /\ \A u \in Workers : u # w => gate'[u] = gate[u]
    BY <1>0, <1>5 DEF PassGate, workerVars, Governor!Claim, Governor!Defer, Governor!Await,
                      Governor!Recheck
  <2>3. SlotInSend'
    BY <1>0, <2>2 DEF SlotInSend
  <2> QED
    BY <2>1, <2>3 DEF LimiterInv
<1>6. ASSUME NEW w \in Workers, NEW signal \in BOOLEAN,
             SendSucceeds(w, signal) \/ SendFails(w, signal)
      PROVE  LimiterInv'
  <2>1. Governor!InFlightExact' /\ Governor!NoLostWakeup'
    BY <1>0, <1>6, GovernorPreserved DEF SendSucceeds, SendFails
  <2>2. /\ gate' = [gate EXCEPT ![w] = "notifying"]
        /\ \A u \in Workers : u # w => worker'[u] = worker[u]
    BY <1>0, <1>6 DEF SendSucceeds, SendFails, Governor!RecordSuccess, Governor!RecordError,
                      Governor!Release
  <2>3. SlotInSend'
    BY <1>0, <2>2 DEF SlotInSend
  <2> QED
    BY <2>1, <2>3 DEF LimiterInv
<1>7. ASSUME NEW w \in Workers, Acknowledge(w) \/ GiveUp(w) PROVE LimiterInv'
  <2>1. Governor!InFlightExact' /\ Governor!NoLostWakeup'
    BY <1>0, <1>7, GovernorPreserved DEF Acknowledge, GiveUp
  <2>2. /\ gate' = [gate EXCEPT ![w] = "out"]
        /\ \A u \in Workers : u # w => worker'[u] = worker[u]
    BY <1>0, <1>7 DEF Acknowledge, GiveUp, Governor!NotifyWaiters
  <2>3. SlotInSend'
    BY <1>0, <2>2 DEF SlotInSend
  <2> QED
    BY <2>1, <2>3 DEF LimiterInv
<1>8. CASE QuietElapses
  <2>1. PICK w \in Workers : TRUE
    BY PipelineAssumption, PoolSize, FS_EmptySet
  <2>2. Governor!InFlightExact' /\ Governor!NoLostWakeup'
    BY <1>0, <1>8, <2>1, GovernorPreserved DEF QuietElapses
  <2>3. UNCHANGED <<gate, worker>>
    BY <1>8 DEF QuietElapses, Governor!QuietElapses, workerVars
  <2> QED
    BY <1>0, <2>2, <2>3 DEF LimiterInv, SlotInSend
<1> QED
  BY <1>1, <1>2, <1>3, <1>4, <1>5, <1>6, <1>7, <1>8 DEF Next, WorkerSteps

\* In any pool and under any schedule the limiter counts exactly the sends in
\* progress, however they end, and strands no worker that waits for a slot
\* (sender.rs, the worker loop; adaptive.rs, acquire and record_*).
THEOREM LimiterSoundCorrect == Spec => []LimiterSound
<1>1. Init => LimiterInv
  <2> SUFFICES ASSUME Init PROVE LimiterInv
    OBVIOUS
  <2>1. gate = [w \in Workers |-> "out"] /\ inFlight = 0
    BY DEF Init, Governor!Init
  <2>2. Governor!Holders = {}
    BY <2>1 DEF Governor!Holders
  <2> QED
    BY <2>1, <2>2, FS_EmptySet, SameCount, HoldersFit
       DEF LimiterInv, SlotInSend, SlotsFit, Governor!InFlightExact, Governor!NoLostWakeup
<1>2. TypeOK /\ LimiterInv /\ [Next]_vars => LimiterInv'
  BY LimiterPreserved
<1>3. LimiterInv => LimiterSound
  <2> SUFFICES ASSUME LimiterInv PROVE LimiterSound
    OBVIOUS
  <2>1. {w \in Workers : Sending(w)} = Governor!Holders
    BY DEF LimiterInv, SlotInSend, Sending, Governor!Holders
  <2> QED
    BY <2>1, SameCount DEF LimiterInv, LimiterSound, Governor!InFlightExact
<1> QED
  BY <1>1, <1>2, <1>3, TypeCorrect, PTL DEF Spec

-----------------------------------------------------------------------------
(* The byte budget *)

\* A batch is in one place at a time: the producer's hand, one slot of the
\* channel, or one worker's hand.  Those past the producer are numbered below
\* its next one, and a worker that waits for a batch or has exited has none.
QueuePlaced ==
  \A i \in DOMAIN queue :
    /\ queue[i] < nextBatch
    /\ \A j \in DOMAIN queue : queue[i] = queue[j] => i = j
    /\ \A w \in Workers : queue[i] # holds[w]

HandsPlaced ==
  \A w \in Workers :
    /\ holds[w] < nextBatch
    /\ worker[w] \in {"recv", "exited"} => holds[w] = 0
    /\ \A v \in Workers : holds[v] = holds[w] => v = w \/ holds[w] = 0

Placed == QueuePlaced /\ HandsPlaced

\* The batches that hold permits, by where they are.
Queued == {queue[i] : i \in DOMAIN queue}
Held == {holds[w] : w \in Workers} \ {0}
AtPush == IF producer = "push" THEN {nextBatch} ELSE {}

LEMMA FlightParts == InFlightBatches = Queued \cup Held \cup AtPush
BY DEF InFlightBatches, Queued, Held, AtPush

LEMMA FlightPartsNext == InFlightBatches' = Queued' \cup Held' \cup AtPush'
BY DEF InFlightBatches, Queued, Held, AtPush

\* The typing facts the steps use.
LEMMA PlaceTypes ==
  ASSUME TypeOK
  PROVE  /\ NBatches \in Nat /\ nextBatch \in Nat /\ nextBatch >= 1
         /\ producer \in {"acquire", "push"} => nextBatch \in Batches
         /\ queue \in Seq(Batches)
         /\ holds \in [Workers -> 0..NBatches]
         /\ worker \in [Workers -> {"recv", "send", "succeeded", "failed", "report", "exited"}]
         /\ \A w \in Workers : worker[w] \in {"send", "succeeded", "failed", "report"} => holds[w] \in Batches
<1>1. ProducerTypes /\ WorkerTypes
  BY DEF TypeOK
<1>2. nextBatch \in 1..(NBatches + 1) /\ NBatches \in Nat
  BY <1>1, Bounds DEF ProducerTypes
<1>3. nextBatch \in Nat /\ nextBatch >= 1
  BY <1>2
<1> QED BY <1>1, <1>2, <1>3 DEF ProducerTypes, WorkerTypes

FlightTyped == InFlightBatches \in SUBSET Batches

LEMMA FlightTypes == TypeOK => FlightTyped
<1> SUFFICES ASSUME TypeOK PROVE FlightTyped
  OBVIOUS
<1>1. \A i \in DOMAIN queue : queue[i] \in Batches
  BY PlaceTypes
<1>2. \A w \in Workers : holds[w] \in Batches \cup {0}
  BY PlaceTypes DEF Batches
<1>3. producer = "push" => nextBatch \in Batches
  BY PlaceTypes
<1> QED BY <1>1, <1>2, <1>3 DEF FlightTyped, InFlightBatches

LEMMA FiniteBatches == IsFiniteSet(Batches)
BY Bounds, FS_Interval DEF Batches

\* What a step does to the batches in flight and to the permits left: nothing,
\* buys one batch its permits, gives one batch's back, or starts over.
Bought ==
  \E b \in Batches \ InFlightBatches :
    /\ InFlightBatches' = InFlightBatches \cup {b}
    /\ permits >= PermitsFor(b) /\ permits' = permits - PermitsFor(b)
GivenBack ==
  \E b \in InFlightBatches :
    /\ InFlightBatches' = InFlightBatches \ {b}
    /\ permits' = permits + PermitsFor(b)
Emptied == InFlightBatches' = {} /\ permits' = MaxInFlight
Untouched == InFlightBatches' = InFlightBatches /\ permits' = permits
BudgetStep == Untouched \/ Bought \/ GivenBack \/ Emptied

\* The head of the queue leaves it, and the others stay apart from it.
LEMMA QueuedTail ==
  ASSUME TypeOK, Placed, queue # <<>>, queue' = Tail(queue)
  PROVE  /\ Head(queue) \in Queued /\ Queued' = Queued \ {Head(queue)}
         /\ Head(queue) \in Batches /\ Head(queue) < nextBatch
         /\ \A w \in Workers : Head(queue) # holds[w]
         /\ \A i \in DOMAIN queue' : /\ i + 1 \in DOMAIN queue /\ queue'[i] = queue[i + 1]
                                     /\ queue'[i] # Head(queue)
<1>1. queue \in Seq(Batches)
  BY PlaceTypes
<1>2. /\ Len(queue) \in Nat /\ Len(queue) > 0 /\ DOMAIN queue = 1..Len(queue)
      /\ DOMAIN queue' = 1..(Len(queue) - 1) /\ Head(queue) = queue[1]
      /\ \A i \in 1..(Len(queue) - 1) : queue'[i] = queue[i + 1]
  BY <1>1
<1>3. 1 \in DOMAIN queue /\ queue[1] \in Batches
  BY <1>1, <1>2
<1>4. ASSUME NEW i \in DOMAIN queue'
      PROVE  i + 1 \in DOMAIN queue /\ queue'[i] = queue[i + 1] /\ queue'[i] # queue[1]
  <2>1. i + 1 \in DOMAIN queue /\ i + 1 # 1
    BY <1>2, <1>4
  <2>2. queue[i + 1] # queue[1]
    BY <1>3, <2>1 DEF Placed, QueuePlaced
  <2> QED BY <1>2, <1>4, <2>1, <2>2
<1>5. ASSUME NEW i \in DOMAIN queue, queue[i] # queue[1]
      PROVE  i - 1 \in DOMAIN queue' /\ queue'[i - 1] = queue[i]
  <2>1. i # 1
    BY <1>5
  <2> QED BY <1>2, <1>5, <2>1
<1>6. Queued' = Queued \ {queue[1]}
  <2>1. ASSUME NEW b \in Queued' PROVE b \in Queued \ {queue[1]}
    <3>1. PICK i \in DOMAIN queue' : queue'[i] = b
      BY <2>1 DEF Queued
    <3> QED BY <1>4, <3>1 DEF Queued
  <2>2. ASSUME NEW b \in Queued, b # queue[1] PROVE b \in Queued'
    <3>1. PICK i \in DOMAIN queue : queue[i] = b
      BY <2>2 DEF Queued
    <3>2. i - 1 \in DOMAIN queue' /\ queue'[i - 1] = b
      BY <1>5, <2>2, <3>1
    <3> QED BY <3>2 DEF Queued
  <2> QED BY <2>1, <2>2
<1>7. queue[1] < nextBatch /\ \A w \in Workers : queue[1] # holds[w]
  BY <1>3 DEF Placed, QueuePlaced
<1> QED BY <1>2, <1>3, <1>4, <1>6, <1>7 DEF Queued

\* A worker that lays its batch down leaves the others theirs.
LEMMA HeldDrop ==
  ASSUME TypeOK, Placed, NEW w \in Workers, holds[w] \in Batches,
         holds' = [holds EXCEPT ![w] = 0]
  PROVE  /\ holds[w] \in Held /\ Held' = Held \ {holds[w]}
         /\ holds[w] \notin Queued /\ holds[w] < nextBatch
<1>1. holds \in [Workers -> 0..NBatches] /\ holds[w] # 0
  BY PlaceTypes DEF Batches
<1>2. \A v \in Workers : holds'[v] = IF v = w THEN 0 ELSE holds[v]
  BY <1>1
<1>3. \A v \in Workers : v # w => holds[v] # holds[w]
  BY <1>1 DEF Placed, HandsPlaced
<1>4. Held' = Held \ {holds[w]}
  BY <1>1, <1>2, <1>3 DEF Held
<1>5. holds[w] \notin Queued
  BY DEF Placed, QueuePlaced, Queued
<1> QED BY <1>1, <1>4, <1>5 DEF Held, Placed, HandsPlaced

LEMMA FreshFlight ==
  ASSUME NEW prod \in {"batch", "done"}, NEW work \in {"recv", "exited"}, NEW keep, NEW next,
         Fresh(prod, work, keep, next)
  PROVE  Placed' /\ Emptied
<1>1. /\ queue' = <<>> /\ nextBatch' = 1 /\ producer' # "push" /\ permits' = MaxInFlight
      /\ \A w \in Workers : holds'[w] = 0
  BY DEF Fresh
<1>2. DOMAIN queue' = {}
  BY <1>1
<1> QED BY <1>1, <1>2 DEF Placed, QueuePlaced, HandsPlaced, Emptied, InFlightBatches

\* A step that moves no batch.
LEMMA StayPut ==
  ASSUME TypeOK, Placed, UNCHANGED <<queue, holds, nextBatch, permits>>,
         producer' = "push" <=> producer = "push",
         \A w \in Workers : worker'[w] \in {"recv", "exited"} => holds[w] = 0
  PROVE  Placed' /\ Untouched
<1>1. Placed'
  BY DEF Placed, QueuePlaced, HandsPlaced
<1>2. Queued' = Queued /\ Held' = Held /\ AtPush' = AtPush
  BY DEF Queued, Held, AtPush
<1>3. InFlightBatches' = InFlightBatches
  BY <1>2, FlightParts, FlightPartsNext
<1> QED BY <1>1, <1>3 DEF Untouched

\* The producer's steps.
LEMMA NextBatchBudget ==
  ASSUME TypeOK, Placed, NextBatch
  PROVE  Placed' /\ BudgetStep
<1>1. /\ producer = "batch" /\ producer' # "push" /\ nextBatch' \in {nextBatch, nextBatch + 1}
      /\ UNCHANGED <<queue, holds, worker, permits>>
  BY DEF NextBatch, workerVars
<1>2. \A i \in DOMAIN queue : queue[i] \in Int
  BY PlaceTypes DEF Batches
<1>3. nextBatch \in Int /\ \A w \in Workers : holds[w] \in Int
  BY PlaceTypes
<1>4. (\A i \in DOMAIN queue : queue[i] < nextBatch') /\ \A w \in Workers : holds[w] < nextBatch'
  BY <1>1, <1>2, <1>3 DEF Placed, QueuePlaced, HandsPlaced
<1>5. Placed'
  BY <1>1, <1>4 DEF Placed, QueuePlaced, HandsPlaced
<1>6. Queued' = Queued /\ Held' = Held /\ AtPush' = AtPush
  BY <1>1 DEF Queued, Held, AtPush
<1>7. InFlightBatches' = InFlightBatches
  BY <1>6, FlightParts, FlightPartsNext
<1> QED BY <1>1, <1>5, <1>7 DEF BudgetStep, Untouched

\* The batch about to be pushed is nowhere yet.
LEMMA NextIsNew ==
  ASSUME TypeOK, Placed, producer \in {"acquire", "push"}
  PROVE  nextBatch \in Batches /\ nextBatch \notin Queued /\ nextBatch \notin Held
<1>1. nextBatch \in Batches /\ nextBatch \in Nat
  BY PlaceTypes
<1>2. \A i \in DOMAIN queue : queue[i] # nextBatch
  BY <1>1 DEF Placed, QueuePlaced
<1>3. \A w \in Workers : holds[w] # nextBatch
  BY <1>1 DEF Placed, HandsPlaced
<1> QED BY <1>1, <1>2, <1>3 DEF Queued, Held

LEMMA AcquireBudget ==
  ASSUME TypeOK, Placed, AcquirePermits
  PROVE  Placed' /\ BudgetStep
<1>1. /\ producer = "acquire" /\ producer' = "push"
      /\ permits >= PermitsFor(nextBatch) /\ permits' = permits - PermitsFor(nextBatch)
      /\ UNCHANGED <<queue, holds, worker, nextBatch>>
  BY DEF AcquirePermits, workerVars
<1>2. Placed'
  BY <1>1 DEF Placed, QueuePlaced, HandsPlaced
<1>3. Queued' = Queued /\ Held' = Held /\ AtPush = {} /\ AtPush' = {nextBatch}
  BY <1>1 DEF Queued, Held, AtPush
<1>4. /\ InFlightBatches' = InFlightBatches \cup {nextBatch}
      /\ nextBatch \in Batches \ InFlightBatches
  BY <1>1, <1>3, FlightParts, FlightPartsNext, NextIsNew
<1>5. Bought
  BY <1>1, <1>4 DEF Bought
<1> QED BY <1>2, <1>5 DEF BudgetStep

LEMMA PushBudget ==
  ASSUME TypeOK, Placed, PushBatch
  PROVE  Placed' /\ BudgetStep
<1>1. /\ producer = "push" /\ producer' = "batch"
      /\ queue' = Append(queue, nextBatch) /\ nextBatch' = nextBatch + 1
      /\ UNCHANGED <<holds, worker, permits>>
  BY DEF PushBatch, workerVars
<1>2. /\ queue \in Seq(Batches) /\ nextBatch \in Batches /\ nextBatch \in Nat
      /\ \A w \in Workers : holds[w] \in Int
  BY <1>1, PlaceTypes
<1>3. nextBatch \notin Queued /\ nextBatch \notin Held
  BY <1>1, NextIsNew
<1> DEFINE n == Len(queue)
<1>4. /\ n \in Nat /\ DOMAIN queue = 1..n /\ DOMAIN queue' = 1..(n + 1)
      /\ queue'[n + 1] = nextBatch /\ \A i \in 1..n : queue'[i] = queue[i]
  BY <1>1, <1>2
<1> HIDE DEF n
<1>5. \A i \in DOMAIN queue' : \/ i \in DOMAIN queue /\ queue'[i] = queue[i]
                               \/ i = n + 1 /\ queue'[i] = nextBatch
  BY <1>4
<1>6. \A i \in DOMAIN queue : queue[i] \in Int /\ queue[i] # nextBatch
  <2>1. \A i \in DOMAIN queue : queue[i] \in Batches
    BY <1>2
  <2> QED BY <1>3, <2>1 DEF Queued, Batches
<1>7. QueuePlaced'
  <2>1. ASSUME NEW i \in DOMAIN queue' PROVE queue'[i] < nextBatch'
    BY <1>1, <1>2, <1>5, <1>6 DEF Placed, QueuePlaced
  <2>2. ASSUME NEW i \in DOMAIN queue', NEW j \in DOMAIN queue', queue'[i] = queue'[j] PROVE i = j
    BY <1>5, <1>6, <2>2 DEF Placed, QueuePlaced
  <2>3. ASSUME NEW i \in DOMAIN queue', NEW w \in Workers PROVE queue'[i] # holds'[w]
    <3>1. queue'[i] = nextBatch => holds[w] # nextBatch
      <4>1. holds[w] < nextBatch
        BY DEF Placed, HandsPlaced
      <4> QED BY <1>2, <4>1
    <3> QED BY <1>1, <1>5, <3>1 DEF Placed, QueuePlaced
  <2> QED BY <2>1, <2>2, <2>3 DEF QueuePlaced
<1>8. HandsPlaced'
  <2>1. \A w \in Workers : holds[w] < nextBatch'
    BY <1>1, <1>2 DEF Placed, HandsPlaced
  <2> QED BY <1>1, <2>1 DEF Placed, HandsPlaced
<1>9. Queued' = Queued \cup {nextBatch}
  <2>1. n + 1 \in DOMAIN queue'
    BY <1>4
  <2>2. \A i \in DOMAIN queue : i \in DOMAIN queue' /\ queue'[i] = queue[i]
    BY <1>4
  <2> QED BY <1>4, <1>5, <2>1, <2>2 DEF Queued
<1>10. Held' = Held /\ AtPush = {nextBatch} /\ AtPush' = {}
  BY <1>1 DEF Held, AtPush
<1>11. InFlightBatches' = InFlightBatches
  BY <1>9, <1>10, FlightParts, FlightPartsNext
<1> QED BY <1>1, <1>7, <1>8, <1>11 DEF Placed, BudgetStep, Untouched

LEMMA RefusedBudget ==
  ASSUME TypeOK, Placed, PushRefused
  PROVE  Placed' /\ BudgetStep
<1>1. /\ producer = "push" /\ producer' = "done" /\ permits' = permits + PermitsFor(nextBatch)
      /\ UNCHANGED <<queue, holds, worker, nextBatch>>
  BY DEF PushRefused, workerVars
<1>2. Placed'
  BY <1>1 DEF Placed, QueuePlaced, HandsPlaced
<1>3. Queued' = Queued /\ Held' = Held /\ AtPush = {nextBatch} /\ AtPush' = {}
  BY <1>1 DEF Queued, Held, AtPush
<1>4. nextBatch \in InFlightBatches /\ InFlightBatches' = InFlightBatches \ {nextBatch}
  BY <1>1, <1>3, FlightParts, FlightPartsNext, NextIsNew
<1>5. GivenBack
  BY <1>1, <1>4 DEF GivenBack
<1> QED BY <1>2, <1>5 DEF BudgetStep

\* The queue's steps.
LEMMA DropBudget ==
  ASSUME TypeOK, Placed, DropBuffered
  PROVE  Placed' /\ BudgetStep
<1>1. /\ queue # <<>> /\ queue' = Tail(queue) /\ permits' = permits + PermitsFor(Head(queue))
      /\ UNCHANGED <<holds, worker, nextBatch, producer>>
  BY DEF DropBuffered, workerVars, producerVars
<1> DEFINE b == Head(queue)
<1>2. /\ b \in Queued /\ Queued' = Queued \ {b} /\ b \in Batches /\ b < nextBatch
      /\ \A w \in Workers : b # holds[w]
      /\ \A i \in DOMAIN queue' : i + 1 \in DOMAIN queue /\ queue'[i] = queue[i + 1]
  BY <1>1, QueuedTail
<1>3. permits' = permits + PermitsFor(b)
  BY <1>1
<1> HIDE DEF b
<1>4. \A i \in DOMAIN queue' : i \in Int
  <2>1. queue' \in Seq(Batches)
    BY <1>1, PlaceTypes
  <2> QED BY <2>1
<1>5. QueuePlaced'
  BY <1>1, <1>2, <1>4 DEF Placed, QueuePlaced
<1>6. HandsPlaced'
  BY <1>1 DEF Placed, HandsPlaced
<1>7. Held' = Held /\ AtPush' = AtPush
  BY <1>1 DEF Held, AtPush
<1>8. b \notin Held /\ b \notin AtPush
  <2>1. nextBatch \in Nat
    BY PlaceTypes
  <2> QED BY <1>2, <2>1 DEF Held, AtPush
<1>9. b \in InFlightBatches /\ InFlightBatches' = InFlightBatches \ {b}
  BY <1>2, <1>7, <1>8, FlightParts, FlightPartsNext
<1>10. GivenBack
  BY <1>3, <1>9 DEF GivenBack
<1> QED BY <1>5, <1>6, <1>10 DEF BudgetStep, Placed

LEMMA ReceiveBudget ==
  ASSUME TypeOK, Placed, NEW w \in Workers, Receive(w)
  PROVE  Placed' /\ BudgetStep
<1>1. /\ queue # <<>> /\ queue' = Tail(queue) /\ worker[w] = "recv"
      /\ holds' = [holds EXCEPT ![w] = Head(queue)] /\ worker' = [worker EXCEPT ![w] = "send"]
      /\ UNCHANGED <<permits, nextBatch, producer>>
  BY DEF Receive, producerVars
<1> DEFINE b == Head(queue)
<1>2. /\ b \in Queued /\ Queued' = Queued \ {b} /\ b \in Batches /\ b < nextBatch
      /\ \A v \in Workers : b # holds[v]
      /\ \A i \in DOMAIN queue' : /\ i + 1 \in DOMAIN queue /\ queue'[i] = queue[i + 1]
                                  /\ queue'[i] # b
  BY <1>1, QueuedTail
<1>3. /\ holds[w] = 0
      /\ \A v \in Workers : holds'[v] = IF v = w THEN b ELSE holds[v]
      /\ \A v \in Workers : worker'[v] = IF v = w THEN "send" ELSE worker[v]
  BY <1>1, PlaceTypes DEF Placed, HandsPlaced
<1> HIDE DEF b
<1>4. \A i \in DOMAIN queue' : i \in Int
  <2>1. queue' \in Seq(Batches)
    BY <1>1, PlaceTypes
  <2> QED BY <2>1
<1>5. QueuePlaced'
  BY <1>1, <1>2, <1>3, <1>4 DEF Placed, QueuePlaced
<1>6. HandsPlaced'
  BY <1>1, <1>2, <1>3 DEF Placed, HandsPlaced
<1>7. Held' = Held \cup {b} /\ AtPush' = AtPush
  <2>1. b # 0
    BY <1>2 DEF Batches
  <2> QED BY <1>1, <1>3, <2>1 DEF Held, AtPush
<1>8. InFlightBatches' = InFlightBatches
  BY <1>2, <1>7, FlightParts, FlightPartsNext
<1> QED BY <1>1, <1>5, <1>6, <1>8 DEF BudgetStep, Untouched, Placed

\* A worker's batch leaves its hand with its permits.
LEMMA LayDownBudget ==
  ASSUME TypeOK, Placed, NEW w \in Workers, holds[w] \in Batches,
         holds' = [holds EXCEPT ![w] = 0], permits' = permits + PermitsFor(holds[w]),
         \A v \in Workers : v # w => worker'[v] = worker[v],
         UNCHANGED <<queue, nextBatch, producer>>
  PROVE  Placed' /\ BudgetStep
<1> DEFINE b == holds[w]
<1>1. b \in Held /\ Held' = Held \ {b} /\ b \notin Queued /\ b < nextBatch /\ b \in Batches
  BY HeldDrop
<1>2. permits' = permits + PermitsFor(b)
  OBVIOUS
<1>3. \A v \in Workers : holds'[v] = IF v = w THEN 0 ELSE holds[v]
  BY PlaceTypes
<1>4. /\ nextBatch \in Nat /\ nextBatch >= 1
      /\ \A i \in DOMAIN queue : queue[i] # 0
  <2>1. \A i \in DOMAIN queue : queue[i] \in Batches
    BY PlaceTypes
  <2> QED BY <2>1, PlaceTypes DEF Batches
<1> HIDE DEF b
<1>5. Placed'
  BY <1>3, <1>4 DEF Placed, QueuePlaced, HandsPlaced
<1>6. Queued' = Queued /\ AtPush' = AtPush /\ b \notin AtPush
  BY <1>1, <1>4 DEF Queued, AtPush
<1>7. b \in InFlightBatches /\ InFlightBatches' = InFlightBatches \ {b}
  BY <1>1, <1>6, FlightParts, FlightPartsNext
<1>8. GivenBack
  BY <1>2, <1>7 DEF GivenBack
<1> QED BY <1>5, <1>8 DEF BudgetStep

\* Every step keeps batches in their places and the account balanced.
LEMMA BudgetSteps ==
  ASSUME TypeOK, Placed, [Next]_vars
  PROVE  Placed' /\ BudgetStep
<1>0. /\ worker \in [Workers -> {"recv", "send", "succeeded", "failed", "report", "exited"}]
      /\ \A w \in Workers : worker[w] \in {"send", "succeeded", "failed", "report"} => holds[w] \in Batches
  BY PlaceTypes
<1>1. CASE Start \/ Crash
  BY <1>1, FreshFlight DEF Start, Crash, BudgetStep
<1>2. CASE Refuse \/ Finish \/ ParseError \/ KeeperSteps \/ QuietElapses \/ Exhausted \/ UNCHANGED vars
  <2>1. /\ UNCHANGED <<queue, holds, nextBatch, permits, worker>>
        /\ producer' = "push" <=> producer = "push"
    BY <1>2 DEF Refuse, Finish, ParseError, KeeperSteps, Collect, DoneClosed, TruncateCheckpoint,
                WriteCheckpoint, WriteFails, Persisted, QuietElapses, Exhausted, vars,
                producerVars, workerVars
  <2> QED BY <2>1, StayPut DEF BudgetStep, Placed, HandsPlaced
<1>3. CASE NextBatch \/ AcquirePermits \/ PushBatch \/ PushRefused
  BY <1>3, NextBatchBudget, AcquireBudget, PushBudget, RefusedBudget
<1>4. CASE DropBuffered
  BY <1>4, DropBudget
<1>5. ASSUME NEW w \in Workers, Receive(w) PROVE Placed' /\ BudgetStep
  BY <1>5, ReceiveBudget
<1>6. ASSUME NEW w \in Workers, ReceiveClosed(w) \/ PassGate(w) \/ ServerExecutes(w)
      PROVE  Placed' /\ BudgetStep
  <2>1. /\ UNCHANGED <<queue, holds, nextBatch, permits, producer>>
        /\ \/ UNCHANGED worker
           \/ worker[w] = "recv" /\ worker' = [worker EXCEPT ![w] = "exited"]
    BY <1>6 DEF ReceiveClosed, PassGate, ServerExecutes, workerVars, producerVars
  <2>2. \A v \in Workers : worker'[v] \in {"recv", "exited"} => holds[v] = 0
    BY <1>0, <2>1 DEF Placed, HandsPlaced
  <2> QED BY <2>1, <2>2, StayPut DEF BudgetStep
<1>7. ASSUME NEW w \in Workers, NEW signal \in BOOLEAN, SendSucceeds(w, signal) \/ SendFails(w, signal)
      PROVE  Placed' /\ BudgetStep
  <2>1. /\ UNCHANGED <<queue, holds, nextBatch, permits, producer>>
        /\ worker' = [worker EXCEPT ![w] = "succeeded"] \/ worker' = [worker EXCEPT ![w] = "failed"]
    BY <1>7 DEF SendSucceeds, SendFails, producerVars
  <2>2. \A v \in Workers : worker'[v] \in {"recv", "exited"} => holds[v] = 0
    BY <1>0, <2>1 DEF Placed, HandsPlaced
  <2> QED BY <2>1, <2>2, StayPut DEF BudgetStep
<1>8. ASSUME NEW w \in Workers, Acknowledge(w) PROVE Placed' /\ BudgetStep
  <2>1. worker[w] = "succeeded" /\ UNCHANGED <<queue, nextBatch, producer>>
    BY <1>8 DEF Acknowledge, producerVars
  <2>2. CASE Checkpointing
    <3>1. worker' = [worker EXCEPT ![w] = "report"] /\ UNCHANGED <<holds, permits>>
      BY <1>8, <2>2 DEF Acknowledge
    <3>2. \A v \in Workers : worker'[v] \in {"recv", "exited"} => holds[v] = 0
      BY <1>0, <3>1 DEF Placed, HandsPlaced
    <3> QED BY <2>1, <3>1, <3>2, StayPut DEF BudgetStep
  <2>3. CASE ~Checkpointing
    <3>1. /\ worker' = [worker EXCEPT ![w] = "recv"] /\ holds' = [holds EXCEPT ![w] = 0]
          /\ permits' = permits + PermitsFor(holds[w])
      BY <1>8, <2>3 DEF Acknowledge
    <3>2. \A v \in Workers : v # w => worker'[v] = worker[v]
      BY <1>0, <3>1
    <3> QED BY <1>0, <2>1, <3>1, <3>2, LayDownBudget
  <2> QED BY <2>2, <2>3
<1>9. ASSUME NEW w \in Workers, GiveUp(w) \/ Report(w) PROVE Placed' /\ BudgetStep
  <2>1. /\ worker[w] \in {"failed", "report"} /\ UNCHANGED <<queue, nextBatch, producer>>
        /\ holds' = [holds EXCEPT ![w] = 0] /\ permits' = permits + PermitsFor(holds[w])
        /\ worker' = [worker EXCEPT ![w] = "exited"] \/ worker' = [worker EXCEPT ![w] = "recv"]
    BY <1>9 DEF GiveUp, Report, producerVars
  <2>2. \A v \in Workers : v # w => worker'[v] = worker[v]
    BY <1>0, <2>1
  <2> QED BY <1>0, <2>1, <2>2, LayDownBudget
<1> QED
  BY <1>1, <1>2, <1>3, <1>4, <1>5, <1>6, <1>7, <1>8, <1>9 DEF Next, ProducerSteps, WorkerSteps

-----------------------------------------------------------------------------
(* What the account adds up to *)

\* Each batch's permits, as a function.
Needs == [b \in Batches |-> PermitsFor(b)]

LEMMA NeedsType == Needs \in [Batches -> Nat] /\ Needs \in [Batches -> Int]
<1>1. \A b \in Batches : PermitsFor(b) \in Nat /\ PermitsFor(b) \in Int
  BY PermitsForIsNat
<1> QED BY <1>1 DEF Needs

\* The sum the property takes is the sum of that function.
LEMMA PermitSum ==
  ASSUME NEW S \in SUBSET Batches
  PROVE  MapThenSumSet(PermitsFor, S) = Sum(Needs, S)
<1> DEFINE Step(h) == [s \in SUBSET S |-> IF s = {} THEN 0
                                          ELSE PermitsFor(CHOOSE x \in s : TRUE)
                                                 + h[s \ {CHOOSE x \in s : TRUE}]]
           sums == CHOOSE h : h = Step(h)
<1>1. PICK g \in [SUBSET Batches -> Int] : SumsUp(g, Needs, Batches)
  BY FiniteBatches, NeedsType, SumsExist
<1> DEFINE part == [s \in SUBSET S |-> g[s]]
<1>2. ASSUME NEW h PROVE h = Step(h) <=> SumsUp(h, Needs, S)
  <2>1. \A s \in SUBSET S : s # {} => Needs[CHOOSE x \in s : TRUE] = PermitsFor(CHOOSE x \in s : TRUE)
    <3>1. ASSUME NEW s \in SUBSET S, s # {}
          PROVE  Needs[CHOOSE x \in s : TRUE] = PermitsFor(CHOOSE x \in s : TRUE)
      <4>1. (CHOOSE x \in s : TRUE) \in Batches
        BY <3>1, Chosen
      <4> QED BY <4>1 DEF Needs
    <3> QED BY <3>1
  <2>2. \A s \in SUBSET S :
          SumStep(h, Needs, s) = IF s = {} THEN 0
                                 ELSE PermitsFor(CHOOSE x \in s : TRUE)
                                        + h[s \ {CHOOSE x \in s : TRUE}]
    BY <2>1 DEF SumStep
  <2>3. Step(h) = [s \in SUBSET S |-> SumStep(h, Needs, s)]
    BY <2>2
  <2> QED BY <2>3 DEF SumsUp
<1>3. SumsUp(part, Needs, S)
  BY <1>1, SumsRestrict
<1>4. SumsUp(sums, Needs, S)
  BY <1>2, <1>3
<1>5. MapThenSumSet(PermitsFor, S) = sums[S]
  BY DEF MapThenSumSet, MapThenFoldSet
<1>6. Sum(Needs, S) = sums[S]
  <2>1. IsFiniteSet(S)
    BY FiniteBatches, FS_Subset
  <2>2. S \in SUBSET S
    OBVIOUS
  <2> HIDE DEF sums
  <2> QED BY <1>4, <2>1, <2>2, SumIs
<1> QED BY <1>5, <1>6

\* The permits of the batches in flight and those left make up the cap, and
\* the semaphore is never overdrawn.
Balanced == permits \in Nat /\ permits + Sum(Needs, InFlightBatches) = MaxInFlight

LEMMA BalancedPreserved ==
  ASSUME FlightTyped, FlightTyped', Balanced, BudgetStep
  PROVE  Balanced'
<1> DEFINE S == InFlightBatches
           T == InFlightBatches'
           spent == Sum(Needs, S)
           spentNext == Sum(Needs, T)
<1>1. S \in SUBSET Batches /\ T \in SUBSET Batches
  BY DEF FlightTyped
<1>2. spent \in Nat /\ MaxInFlight \in Nat
  BY <1>1, FiniteBatches, NeedsType, SumNatural, Bounds
<1>3. \A b \in Batches : Needs[b] = PermitsFor(b) /\ PermitsFor(b) \in Nat
  BY PermitsForIsNat DEF Needs
<1>4. permits \in Nat /\ permits + spent = MaxInFlight
  BY DEF Balanced
<1>5. permits' \in Nat /\ permits' + spentNext = MaxInFlight
  <2>1. CASE Untouched
    <3>1. T = S /\ permits' = permits
      BY <2>1 DEF Untouched
    <3> QED BY <1>4, <3>1
  <2>2. CASE Emptied
    <3>1. T = {} /\ permits' = MaxInFlight
      BY <2>2 DEF Emptied
    <3>2. spentNext = 0
      BY <3>1, SumEmpty
    <3> QED BY <1>2, <3>1, <3>2
  <2>3. CASE Bought
    <3>1. PICK b \in Batches \ S :
            T = S \cup {b} /\ permits >= PermitsFor(b) /\ permits' = permits - PermitsFor(b)
      BY <2>3 DEF Bought
    <3>2. spentNext = PermitsFor(b) + spent
      <4> HIDE DEF S, T
      <4>1. Sum(Needs, S \cup {b}) = Needs[b] + Sum(Needs, S)
        BY <1>1, <3>1, FiniteBatches, NeedsType, SumAdd
      <4> QED BY <1>3, <3>1, <4>1
    <3>3. PermitsFor(b) \in Nat
      BY <1>3, <3>1
    <3> HIDE DEF spent, spentNext
    <3> QED BY <1>2, <1>4, <3>1, <3>2, <3>3
  <2>4. CASE GivenBack
    <3>1. PICK b \in S : T = S \ {b} /\ permits' = permits + PermitsFor(b)
      BY <2>4 DEF GivenBack
    <3>2. spent = PermitsFor(b) + spentNext
      <4> HIDE DEF S, T
      <4>1. Sum(Needs, S) = Needs[b] + Sum(Needs, S \ {b})
        BY <1>1, <3>1, FiniteBatches, NeedsType, SumRemove
      <4>2. Needs[b] = PermitsFor(b)
        BY <1>1, <1>3, <3>1
      <4> QED BY <3>1, <4>1, <4>2
    <3>3. PermitsFor(b) \in Nat /\ spentNext \in Nat
      <4>1. spentNext \in Nat
        BY <1>1, FiniteBatches, NeedsType, SumNatural
      <4> QED BY <1>1, <1>3, <3>1, <4>1
    <3> HIDE DEF spent, spentNext
    <3> QED BY <1>2, <1>4, <3>1, <3>2, <3>3
  <2> QED BY <2>1, <2>2, <2>3, <2>4 DEF BudgetStep
<1> QED BY <1>5 DEF Balanced

LEMMA BudgetInitial == Init => Placed /\ Balanced
<1> SUFFICES ASSUME Init PROVE Placed /\ Balanced
  OBVIOUS
<1>1. /\ queue = <<>> /\ nextBatch = 1 /\ producer = "done" /\ permits = MaxInFlight
      /\ \A w \in Workers : holds[w] = 0
  BY DEF Init
<1>2. DOMAIN queue = {}
  BY <1>1
<1>3. Placed
  BY <1>1, <1>2 DEF Placed, QueuePlaced, HandsPlaced
<1>4. InFlightBatches = {}
  BY <1>1, <1>2 DEF InFlightBatches
<1>5. Sum(Needs, InFlightBatches) = 0
  BY <1>4, SumEmpty
<1>6. MaxInFlight \in Nat /\ MaxInFlight + 0 = MaxInFlight
  BY Bounds
<1> QED BY <1>1, <1>3, <1>5, <1>6 DEF Balanced

\* A batch costs at least one permit, and all its bytes unless it is larger
\* than the cap, when it costs the whole cap.
LEMMA PermitsForBytes ==
  ASSUME MaxInFlight # 0, MaxInFlight <= MaxPermits, NEW b \in Batches
  PROVE  /\ PermitsFor(b) >= 1 /\ Size[b] \in Nat
         /\ Size[b] <= MaxInFlight => PermitsFor(b) = Size[b]
         /\ ~(Size[b] <= MaxInFlight) => PermitsFor(b) = MaxInFlight
<1>1. Size[b] \in Nat \ {0} /\ MaxInFlight \in Nat /\ MaxPermits \in Nat
  BY PipelineAssumption
<1> DEFINE n == Size[b]
           least == IF n < MaxInFlight THEN n ELSE MaxInFlight
<1>2. n \in Nat \ {0} /\ PermitsFor(b) = least
  <2>1. PermitsFor(b) = IF least <= MaxPermits THEN least ELSE MaxPermits
    BY DEF PermitsFor
  <2> HIDE DEF n
  <2>2. n \in Nat
    BY <1>1 DEF n
  <2>3. least <= MaxPermits
    BY <1>1, <2>2
  <2> HIDE DEF least
  <2>4. PermitsFor(b) = least
    BY <2>1, <2>3
  <2> QED BY <1>1, <2>4 DEF n
<1> HIDE DEF n
<1>3. /\ PermitsFor(b) >= 1 /\ n \in Nat
      /\ n <= MaxInFlight => PermitsFor(b) = n
      /\ ~(n <= MaxInFlight) => PermitsFor(b) = MaxInFlight
  BY <1>1, <1>2
<1> QED BY <1>3 DEF n

LEMMA BalancedBounds ==
  ASSUME MaxInFlight # 0, MaxInFlight <= MaxPermits, TypeOK, Balanced
  PROVE  MemoryBounded
<1> DEFINE S == InFlightBatches
<1>1. S \in SUBSET Batches /\ IsFiniteSet(S) /\ IsFiniteSet(Batches)
  BY FlightTypes, FiniteBatches, FS_Subset DEF FlightTyped
<1>2. Sum(Needs, S) \in Nat /\ permits \in Nat /\ permits + Sum(Needs, S) = MaxInFlight
  BY <1>1, NeedsType, SumNatural DEF Balanced
<1>3. Sum(Needs, S) <= MaxInFlight
  BY <1>2
<1> HIDE DEF S
<1>4. CASE \A b \in S : Size[b] <= MaxInFlight
  <2>1. \A b \in S : Size[b] = Needs[b]
    BY <1>1, <1>4, PermitsForBytes DEF Needs
  <2>2. Size \in [Batches -> Int]
    BY PipelineAssumption
  <2>3. Sum(Size, S) = Sum(Needs, S)
    BY <1>1, <2>1, <2>2, NeedsType, SumAgree
  <2>4. MapThenSumSet(LAMBDA b : Size[b], S) <= MaxInFlight
    BY <1>3, <2>3 DEF Sum
  <2> QED BY <2>4 DEF MemoryBounded, S
<1>5. ASSUME NEW b \in S, ~(Size[b] <= MaxInFlight) PROVE MemoryBounded
  <2>1. Needs[b] = MaxInFlight /\ MaxInFlight \in Nat
    BY <1>1, <1>5, PermitsForBytes, Bounds DEF Needs
  <2>2. ASSUME NEW c \in S \ {b} PROVE FALSE
    <3>1. Needs[b] + Needs[c] <= Sum(Needs, S)
      BY <1>1, NeedsType, SumAtLeast
    <3>2. Needs[c] \in Nat /\ Needs[c] >= 1
      <4>1. c \in Batches
        BY <1>1
      <4> QED BY <4>1, PermitsForBytes, PermitsForIsNat DEF Needs
    <3> QED BY <1>2, <1>3, <2>1, <3>1, <3>2
  <2>3. S = {b}
    BY <2>2
  <2>4. Cardinality(S) = 1
    BY <2>3, FS_Singleton
  <2> QED BY <2>4 DEF MemoryBounded, S
<1> QED BY <1>4, <1>5

\* The account balances in every reachable state: however many workers there
\* are, in whatever order sends end and whichever way, permits are neither
\* lost nor invented (sender.rs, the OwnedSemaphorePermit that travels with
\* its batch).
LEMMA BudgetAlways == Spec => [](TypeOK /\ Placed /\ Balanced)
<1>1. Init => Placed /\ Balanced
  BY BudgetInitial
<1>2. /\ TypeOK /\ FlightTyped /\ FlightTyped' /\ (Placed /\ Balanced) /\ [Next]_vars
      => (Placed /\ Balanced)'
  BY BudgetSteps, BalancedPreserved
<1> QED
  BY <1>1, <1>2, FlightTypes, TypeCorrect, PTL DEF Spec

\* For any workers, sizes and cap, the permits left and those of the batches
\* in flight make up max_in_flight_bytes (sender.rs, run_import_with_checkpoint).
THEOREM PermitsConservedCorrect == Spec => []PermitsConserved
<1>1. TypeOK /\ Placed /\ Balanced => PermitsConserved
  BY FlightTypes, PermitSum DEF FlightTyped, Balanced, PermitsConserved
<1> QED
  BY <1>1, BudgetAlways, PTL

\* With a positive cap that one request for permits can name, the bytes in
\* flight never exceed it, except for one batch larger than the cap, which is
\* then in flight alone (sender.rs, the module comment and permits_for).
THEOREM MemoryBoundedCorrect ==
  ASSUME MaxInFlight # 0, MaxInFlight <= MaxPermits
  PROVE  Spec => []MemoryBounded
<1>1. TypeOK /\ Placed /\ Balanced => MemoryBounded
  BY BalancedBounds
<1> QED
  BY <1>1, BudgetAlways, PTL

-----------------------------------------------------------------------------
(* What the summary counts *)

\* A batch enters the summary when its worker lays it down: until then it is in
\* no other hand and in no slot of the channel, so it is not counted again.
CountedOnce ==
  /\ counted = Cardinality(acked)
  /\ \A b \in acked :
       /\ b < nextBatch
       /\ \A i \in DOMAIN queue : queue[i] # b
       /\ \A w \in Workers : worker[w] \in {"send", "succeeded"} => holds[w] # b

LEMMA CountedFrame ==
  ASSUME CountedOnce, UNCHANGED <<acked, counted>>, nextBatch \in Int, nextBatch' \in Int,
         nextBatch <= nextBatch', acked \in SUBSET Batches,
         \A i \in DOMAIN queue' : \E j \in DOMAIN queue : queue'[i] = queue[j],
         \A w \in Workers : worker'[w] \in {"send", "succeeded"} =>
           worker[w] \in {"send", "succeeded"} /\ holds'[w] = holds[w]
  PROVE  CountedOnce'
<1>1. \A b \in acked : b \in Int
  BY DEF Batches
<1> QED
  BY <1>1 DEF CountedOnce

LEMMA CountedPreserved ==
  ASSUME TypeOK, Placed, CountedOnce, [Next]_vars
  PROVE  CountedOnce'
<1> USE DEF commandVars, producerVars, workerVars, limiterVars, keeperVars, remoteVars
<1>0. /\ acked \in SUBSET Batches /\ IsFiniteSet(acked) /\ nextBatch \in Nat /\ queue \in Seq(Batches)
      /\ holds \in [Workers -> 0..NBatches]
      /\ worker \in [Workers -> {"recv", "send", "succeeded", "failed", "report", "exited"}]
      /\ \A w \in Workers : worker[w] = "succeeded" => holds[w] \in Batches
  <2>1. acked \in SUBSET Batches
    BY DEF TypeOK, WorkerTypes
  <2> QED BY <2>1, PlaceTypes, FiniteBatches, FS_Subset
<1>1. CASE Start \/ Crash
  <2>1. acked' = {} /\ counted' = 0
    BY <1>1 DEF Start, Crash, Fresh
  <2> QED BY <2>1, FS_EmptySet DEF CountedOnce
<1>2. CASE \/ Refuse \/ Finish \/ ParseError \/ NextBatch \/ AcquirePermits \/ PushRefused
           \/ KeeperSteps \/ QuietElapses \/ Exhausted \/ UNCHANGED vars
  <2>1. /\ UNCHANGED <<queue, holds, worker, acked, counted>>
        /\ nextBatch' \in {nextBatch, nextBatch + 1}
    BY <1>2 DEF Refuse, Finish, ParseError, NextBatch, AcquirePermits, PushRefused, KeeperSteps,
                Collect, DoneClosed, TruncateCheckpoint, WriteCheckpoint, WriteFails, Persisted,
                QuietElapses, Exhausted, vars
  <2> QED BY <1>0, <2>1, CountedFrame
<1>3. CASE PushBatch
  <2>1. /\ queue' = Append(queue, nextBatch) /\ nextBatch' = nextBatch + 1
        /\ UNCHANGED <<holds, worker, acked, counted>>
    BY <1>3 DEF PushBatch
  <2>2. \A i \in DOMAIN queue' : \/ i \in DOMAIN queue /\ queue'[i] = queue[i]
                                 \/ queue'[i] = nextBatch
    BY <1>0, <2>1
  <2>3. \A b \in acked : b \in Nat /\ b < nextBatch
    BY <1>0 DEF CountedOnce, Batches
  <2>4. \A b \in acked : b # nextBatch /\ b < nextBatch'
    BY <1>0, <2>1, <2>3
  <2> QED BY <2>1, <2>2, <2>4 DEF CountedOnce
<1>4. CASE DropBuffered
  <2>1. queue # <<>> /\ queue' = Tail(queue) /\ UNCHANGED <<nextBatch, holds, worker, acked, counted>>
    BY <1>4 DEF DropBuffered
  <2>2. \A i \in DOMAIN queue' : i + 1 \in DOMAIN queue /\ queue'[i] = queue[i + 1]
    BY <2>1, QueuedTail
  <2> QED BY <1>0, <2>1, <2>2, CountedFrame
<1>5. ASSUME NEW w \in Workers, Receive(w) PROVE CountedOnce'
  <2>1. /\ queue # <<>> /\ queue' = Tail(queue) /\ holds' = [holds EXCEPT ![w] = Head(queue)]
        /\ worker' = [worker EXCEPT ![w] = "send"] /\ UNCHANGED <<nextBatch, acked, counted>>
    BY <1>5 DEF Receive
  <2>2. \A i \in DOMAIN queue' : i + 1 \in DOMAIN queue /\ queue'[i] = queue[i + 1]
    BY <2>1, QueuedTail
  <2>3. \A b \in acked : Head(queue) # b
    <3>1. Head(queue) \in Queued
      BY <2>1, QueuedTail
    <3> QED BY <3>1 DEF Queued, CountedOnce
  <2>4. \A v \in Workers : /\ holds'[v] = IF v = w THEN Head(queue) ELSE holds[v]
                           /\ worker'[v] = IF v = w THEN "send" ELSE worker[v]
    BY <1>0, <2>1
  <2> HIDE DEF Batches
  <2> QED BY <2>1, <2>2, <2>3, <2>4 DEF CountedOnce
<1>6. ASSUME NEW w \in Workers, \/ ReceiveClosed(w) \/ PassGate(w) \/ ServerExecutes(w)
                                \/ GiveUp(w) \/ Report(w)
      PROVE  CountedOnce'
  <2>1. /\ UNCHANGED <<queue, nextBatch, acked, counted>>
        /\ \/ UNCHANGED <<worker, holds>>
           \/ worker' = [worker EXCEPT ![w] = "exited"] /\ UNCHANGED holds
           \/ worker' = [worker EXCEPT ![w] = "exited"] /\ holds' = [holds EXCEPT ![w] = 0]
           \/ worker' = [worker EXCEPT ![w] = "recv"] /\ holds' = [holds EXCEPT ![w] = 0]
    <3>1. CASE ReceiveClosed(w) \/ PassGate(w) \/ ServerExecutes(w)
      BY <3>1 DEF ReceiveClosed, PassGate, ServerExecutes
    <3>2. CASE GiveUp(w) \/ Report(w)
      BY <3>2 DEF GiveUp, Report
    <3> QED BY <1>6, <3>1, <3>2
  <2>2. \A v \in Workers : worker'[v] \in {"send", "succeeded"} =>
          worker[v] \in {"send", "succeeded"} /\ holds'[v] = holds[v]
    BY <1>0, <2>1
  <2> QED BY <1>0, <2>1, <2>2, CountedFrame
<1>7. ASSUME NEW w \in Workers, NEW signal \in BOOLEAN, SendSucceeds(w, signal) \/ SendFails(w, signal)
      PROVE  CountedOnce'
  <2>1. /\ UNCHANGED <<queue, nextBatch, acked, counted, holds>> /\ worker[w] = "send"
        /\ \/ worker' = [worker EXCEPT ![w] = "succeeded"]
           \/ worker' = [worker EXCEPT ![w] = "failed"]
    BY <1>7 DEF SendSucceeds, SendFails, Sending
  <2>2. \A v \in Workers : worker'[v] \in {"send", "succeeded"} =>
          worker[v] \in {"send", "succeeded"} /\ holds'[v] = holds[v]
    BY <1>0, <2>1
  <2> QED BY <1>0, <2>1, <2>2, CountedFrame
<1>8. ASSUME NEW w \in Workers, Acknowledge(w) PROVE CountedOnce'
  <2>1. /\ worker[w] = "succeeded" /\ UNCHANGED <<queue, nextBatch>>
        /\ acked' = acked \cup {holds[w]} /\ counted' = counted + 1
        /\ \/ worker' = [worker EXCEPT ![w] = "report"] /\ UNCHANGED holds
           \/ worker' = [worker EXCEPT ![w] = "recv"] /\ holds' = [holds EXCEPT ![w] = 0]
    BY <1>8 DEF Acknowledge
  <2>2. holds[w] \notin acked /\ holds[w] \in Batches /\ holds[w] < nextBatch
    BY <1>0, <2>1 DEF CountedOnce, Placed, HandsPlaced
  <2>3. counted' = Cardinality(acked')
    BY <1>0, <2>1, <2>2, FS_AddElement DEF CountedOnce
  <2>4. \A i \in DOMAIN queue : queue[i] # holds[w]
    BY DEF Placed, QueuePlaced
  <2>5. \A v \in Workers : worker'[v] \in {"send", "succeeded"} =>
          v # w /\ worker[v] \in {"send", "succeeded"} /\ holds'[v] = holds[v]
    BY <1>0, <2>1
  <2>6. \A v \in Workers : v # w => holds[v] # holds[w]
    <3>1. holds[w] # 0
      BY <2>2 DEF Batches
    <3> QED BY <3>1 DEF Placed, HandsPlaced
  <2>7. \A v \in Workers : worker'[v] \in {"send", "succeeded"} => holds'[v] # holds[w]
    BY <2>5, <2>6
  <2> QED BY <2>1, <2>2, <2>3, <2>4, <2>5, <2>7 DEF CountedOnce
<1> QED
  BY <1>1, <1>2, <1>3, <1>4, <1>5, <1>6, <1>7, <1>8 DEF Next, ProducerSteps, WorkerSteps

\* At the end of a successful run nothing is left between the producer and the
\* summary, so it counts what the producer read after the resume point.
LEMMA SummaryPreserved ==
  ASSUME TypeOK, NothingDropped, BeyondResumePoint, CountedOnce, SummaryExact, [Next]_vars
  PROVE  SummaryExact'
<1> USE DEF commandVars, producerVars, workerVars, limiterVars, keeperVars, remoteVars
<1>1. CASE Finish
  <2>1. /\ phase = "running" /\ producer = "done" /\ ~ReceiverOpen /\ queue = <<>>
        /\ phase' = Outcome /\ UNCHANGED <<resumeFrom, acked, counted>>
    BY <1>1 DEF Finish
  <2> SUFFICES ASSUME phase' = "ok"
               PROVE  /\ acked = (resumeFrom + 1)..NBatches
                      /\ counted = NBatches - resumeFrom
    BY <2>1 DEF SummaryExact
  <2>2. ~parseFailed /\ sendFailed = {}
    BY <2>1, Zenon DEF Outcome
  <2>3. \A w \in Workers : holds[w] = 0
    BY <2>1 DEF NothingDropped, HandsClean, ReceiverOpen
  <2>4. nextBatch = NBatches + 1 /\ resumeFrom \in Nat /\ NBatches \in Nat
    BY <2>1, <2>2, IndexRanges DEF NothingDropped, AllAccounted
  <2>5. DOMAIN queue = {}
    <3>1. queue = <<>> /\ queue \in Seq(Batches)
      BY <2>1, IndexRanges
    <3> QED
      BY <3>1
  <2>6. ASSUME NEW b \in (resumeFrom + 1)..NBatches
        PROVE  b \in acked
    <3>1. Accounted(b) /\ b # 0
      BY <2>1, <2>2, <2>4, <2>6 DEF NothingDropped, AllAccounted
    <3> QED
      BY <2>3, <2>5, <3>1 DEF Accounted
  <2>7. ASSUME NEW b \in acked
        PROVE  b \in (resumeFrom + 1)..NBatches
    <3>1. b \in Batches /\ b > resumeFrom
      BY <2>1, <2>7 DEF BeyondResumePoint, TypeOK, WorkerTypes
    <3> QED
      BY <2>4, <3>1 DEF Batches
  <2>8. acked = (resumeFrom + 1)..NBatches
    BY <2>6, <2>7
  <2>9. resumeFrom <= NBatches
    <3>1. resumeFrom \in 0..NBatches
      BY DEF TypeOK, CommandTypes
    <3> QED BY <2>4, <3>1
  <2>10. Cardinality((resumeFrom + 1)..NBatches) = NBatches - resumeFrom
    <3>1. resumeFrom + 1 <= NBatches + 1
      BY <2>4, <2>9
    <3>2. IF resumeFrom + 1 > NBatches
            THEN Cardinality((resumeFrom + 1)..NBatches) = 0
            ELSE Cardinality((resumeFrom + 1)..NBatches) = NBatches - (resumeFrom + 1) + 1
      BY <2>4, FS_Interval
    <3> QED BY <2>4, <2>9, <3>2
  <2> QED
    BY <2>8, <2>10 DEF CountedOnce
<1>2. CASE Start \/ Refuse \/ Crash
  BY <1>2 DEF Start, Refuse, Crash, SummaryExact
<1>3. CASE Exhausted \/ UNCHANGED vars
  BY <1>3 DEF Exhausted, vars, SummaryExact
<1>4. CASE \/ ProducerSteps \/ DropBuffered \/ QuietElapses \/ KeeperSteps
           \/ \E w \in Workers : WorkerSteps(w)
  <2>1. phase = "running" /\ phase' = phase
    BY <1>4 DEF ProducerSteps, NextBatch, ParseError, AcquirePermits, PushBatch, PushRefused,
                DropBuffered, QuietElapses, KeeperSteps, Collect, DoneClosed, TruncateCheckpoint,
                WriteCheckpoint, WriteFails, Persisted, WorkerSteps, Receive, ReceiveClosed,
                PassGate, ServerExecutes, Acknowledge, GiveUp, Report, SendSucceeds, SendFails
  <2> QED
    BY <2>1 DEF SummaryExact
<1> QED
  BY <1>1, <1>2, <1>3, <1>4 DEF Next

\* The summary of a run that returns Ok counts each batch after the resume
\* point once, and no batch that the run skipped (sender.rs, the worker loop and
\* the merge of the partial summaries).
THEOREM SummaryExactCorrect ==
  ASSUME ~Overwrite
  PROVE  Spec => []SummaryExact
<1>0. Init => CountedOnce
  <2> SUFFICES ASSUME Init PROVE CountedOnce
    OBVIOUS
  <2>1. acked = {} /\ counted = 0
    BY DEF Init
  <2> QED BY <2>1, FS_EmptySet DEF CountedOnce
<1>1. Init => AcknowledgedIsStored /\ NothingDropped /\ BeyondResumePoint /\ SummaryExact
  BY DEF Init, AcknowledgedIsStored, Committed, Absent, Sending, NothingDropped, SuccessIsComplete,
         BeyondResumePoint, SummaryExact
<1>2. TypeOK /\ AcknowledgedIsStored /\ [Next]_vars => AcknowledgedIsStored'
  BY AckPreserved
<1>3. TypeOK /\ AcknowledgedIsStored /\ NothingDropped /\ [Next]_vars => NothingDropped'
  BY DroppedPreserved
<1>4. TypeOK /\ BeyondResumePoint /\ [Next]_vars => BeyondResumePoint'
  BY BeyondPreserved
<1>5. TypeOK /\ Placed /\ CountedOnce /\ [Next]_vars => CountedOnce'
  BY CountedPreserved
<1>6. /\ TypeOK /\ NothingDropped /\ BeyondResumePoint /\ CountedOnce /\ SummaryExact /\ [Next]_vars
      => SummaryExact'
  BY SummaryPreserved
<1> QED
  BY <1>0, <1>1, <1>2, <1>3, <1>4, <1>5, <1>6, BudgetAlways, PTL DEF Spec

=============================================================================
