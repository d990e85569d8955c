------------------------------- MODULE Export -------------------------------
(***************************************************************************)
(* Exporting the result of a query (crates/arangodb-export): a task drives *)
(* the server-side cursor and feeds batches through a bounded channel; the *)
(* consumer frames the documents and writes one object, or parts and a     *)
(* manifest.  The task's requests are calls of Client, whose other callers *)
(* share the token.                                                        *)
(***************************************************************************)
EXTENDS Client, Sequences, SequencesExt

CONSTANTS
  Docs,           \* the documents a result may hold
  Task,           \* the caller that drives the cursor
  Queries,        \* results: sequences of batches, each a sequence of documents
  Shared,         \* bound: results during whose export the other callers call too
  Prefetch,       \* PREFETCH, the capacity of the channel
  MaxPart,        \* max_part_bytes; a framing token and a document count one
  SilentOnce      \* cursor requests whose answer may be lost after they took effect

Requests == {"opening", "fetching", "deleting"}

Framing == {"open", "close", "comma", "header"}  \* the tokens of a part that are no documents

ASSUME ExportAssumption ==
  /\ Task \in Callers /\ Prefetch \in Nat \ {0} /\ MaxPart \in Nat
  /\ Docs \cap Framing = {}
  /\ \A q \in Queries : q \in Seq(Seq(Docs)) /\ Len(q) \in Nat \ {0}
  /\ Shared \subseteq Queries
  /\ SilentOnce \subseteq Requests

VARIABLES
  query, format, fields, split,   \* what is exported, and how
  cursors,    \* server: next batch of each cursor opened; 0 once it is gone
  batch,      \* the task's batch: [number, id, more]; id 0 for none
  task, chan, listening,   \* the task, the channel, whether its receiver lives
  leaky,      \* a call of the task failed, or the answer of an open was lost
  consumer, inbox, buffer, records, objects, manifest

options == <<query, format, fields, split>>
fetch == <<cursors, batch, task, leaky>>
channel == <<chan, listening>>
output == <<consumer, inbox, buffer, records, objects, manifest>>
vars == <<clientVars, options, fetch, channel, output>>

Formats == {"jsonl", "array", "csv"}
Failed == 0  \* the item of the channel that is an error

Init ==
  /\ ClientInit
  /\ query \in Queries /\ format \in Formats
  /\ fields \in BOOLEAN /\ split \in BOOLEAN /\ (fields \/ format = "csv")
  /\ cursors = << >> /\ batch = [number |-> 0, id |-> 0, more |-> FALSE]
  /\ task = "spawned" /\ leaky = FALSE
  /\ chan = << >> /\ listening = TRUE
  /\ consumer = "starting" /\ inbox = << >>
  /\ buffer = << >> /\ records = 0 /\ objects = << >> /\ manifest = << >>

(***************************************************************************)
(* The server's cursor.                                                    *)
(***************************************************************************)

Batch(n, id) == [number |-> n, id |-> IF n < Len(query) THEN id ELSE 0, more |-> n < Len(query)]

\* POST: a result of one batch leaves no cursor behind.
Open(b) ==
  IF Len(query) > 1
    THEN cursors' = Append(cursors, 2) /\ b = Batch(1, Len(cursors) + 1)
    ELSE cursors' = cursors /\ b = Batch(1, 0)

\* PUT: the batch after the one answered last, whatever the client saw of it.
Advance(b) ==
  LET n == cursors[batch.id] IN
    /\ n # 0
    /\ cursors' = [cursors EXCEPT ![batch.id] = IF n < Len(query) THEN n + 1 ELSE 0]
    /\ b = Batch(n, batch.id)

\* DELETE: a 404 is no error.
Dispose(b) == cursors' = [cursors EXCEPT ![batch.id] = 0] /\ b = batch

Effect(b) ==
  CASE task = "opening" -> Open(b) [] task = "fetching" -> Advance(b) [] task = "deleting" -> Dispose(b)

Batches == [number : 1..Len(query), id : 0..Len(cursors) + 1, more : BOOLEAN]

Served ==
  /\ Authorized(Task) /\ task \in Requests
  /\ \E b \in Batches : Effect(b) /\ batch' = b
  /\ Answer(Task, "ok")
  /\ UNCHANGED <<options, task, leaky, channel, output>>

ServedInSilence ==
  /\ Authorized(Task) /\ task \in SilentOnce
  /\ \E b \in Batches : Effect(b)
  /\ Lose(Task)
  /\ leaky' = (leaky \/ task = "opening")
  /\ UNCHANGED <<options, batch, task, channel, output>>

CursorGone ==
  /\ Authorized(Task) /\ task = "fetching" /\ cursors[batch.id] = 0
  /\ Answer(Task, "refused")
  /\ UNCHANGED <<options, fetch, channel, output>>

\* No request sets a ttl: the server drops a cursor that nobody asks for long
\* enough, as while the channel is full.
CursorExpires ==
  /\ task = "sending" /\ batch.id # 0 /\ cursors[batch.id] # 0
  /\ cursors' = [cursors EXCEPT ![batch.id] = 0]
  /\ UNCHANGED <<clientVars, options, batch, task, leaky, channel, output>>

(***************************************************************************)
(* document_stream: the task.                                              *)
(***************************************************************************)

Spawned ==
  /\ task = "spawned" /\ task' = "opening" /\ Begin(Task, FALSE)
  /\ UNCHANGED <<options, cursors, batch, leaky, channel, output>>

Over(reply) == call[Task].pc = "over" /\ call[Task].reply = reply

Fetched ==
  /\ task \in {"opening", "fetching"} /\ Over("ok") /\ task' = "sending"
  /\ UNCHANGED <<clientVars, options, cursors, batch, leaky, channel, output>>

FetchFailed ==
  /\ task \in {"opening", "fetching"} /\ call[Task].pc = "over" /\ ~Over("ok")
  /\ task' = "failing" /\ leaky' = TRUE
  /\ UNCHANGED <<clientVars, options, cursors, batch, channel, output>>

\* FAULTY: the channel takes one batch too many.
RoomForOneMore == listening /\ Len(chan) <= Prefetch

Room == listening /\ Len(chan) < Prefetch

\* hasMore without an id does not happen: Batch gives both or neither.
SendBatch ==
  /\ task = "sending" /\ Room
  /\ chan' = Append(chan, batch.number)
  /\ IF batch.more THEN task' = "fetching" /\ Begin(Task, FALSE)
                   ELSE task' = "ended" /\ UNCHANGED clientVars
  /\ UNCHANGED <<options, cursors, batch, leaky, listening, output>>

\* FAULTY: the task ends as soon as nobody listens.
NobodyListensLeaves ==
  /\ task = "sending" /\ ~listening /\ task' = "ended"
  /\ UNCHANGED <<clientVars, options, cursors, batch, leaky, channel, output>>

\* The consumer dropped the stream: release the cursor and stop.
NobodyListens ==
  /\ task = "sending" /\ ~listening
  /\ IF batch.id # 0 THEN task' = "deleting" /\ Begin(Task, FALSE)
                     ELSE task' = "ended" /\ UNCHANGED clientVars
  /\ UNCHANGED <<options, cursors, batch, leaky, channel, output>>

Disposed ==
  /\ task = "deleting" /\ call[Task].pc = "over" /\ task' = "ended"
  /\ leaky' = (leaky \/ ~Over("ok"))
  /\ UNCHANGED <<clientVars, options, cursors, batch, channel, output>>

SendError ==
  /\ task = "failing" /\ (Room \/ ~listening)
  /\ chan' = IF listening THEN Append(chan, Failed) ELSE chan
  /\ task' = "ended"
  /\ UNCHANGED <<clientVars, options, cursors, batch, leaky, listening, output>>

\* The runtime is dropped once the command has failed, and the task with it.
Exit ==
  /\ consumer = "failed" /\ task \notin {"ended", "killed"} /\ task' = "killed"
  /\ call' = [call EXCEPT ![Task] = Idle]
  /\ UNCHANGED <<auth, token, faults, options, cursors, batch, leaky, channel, output>>

(***************************************************************************)
(* encode and PartFramer: the framing of a part.                           *)
(***************************************************************************)

\* csv_header and csv_row: a record each, in the order of the fields.
Header == <<"header">>

\* encode, PartFramer::new: CSV wants its fields.
Encodable == format = "csv" => fields

Opening == CASE format = "array" -> <<"open">> [] format = "csv" -> Header [] OTHER -> << >>

\* FAULTY: array_first survives from part to part.
FramedAcross(doc) == IF format = "array" /\ records + Len(objects) > 0 THEN <<"comma", doc>> ELSE <<doc>>

\* array_first is reset when a part is opened: it is TRUE as long as the part
\* holds no record.
Framed(doc) == IF format = "array" /\ records > 0 THEN <<"comma", doc>> ELSE <<doc>>

Closing == IF format = "array" THEN <<"close">> ELSE << >>

Threshold == IF MaxPart > 1 THEN MaxPart ELSE 1

\* The stream is over: the receiver has drained what the senders left.
Drained == inbox = << >> /\ chan = << >> /\ task \in {"ended", "killed"}

(***************************************************************************)
(* run_export and run_split_export: the consumer.                          *)
(***************************************************************************)

\* FAULTY: the failed consumer holds on to the stream.
DropLater == consumer' = "failed" /\ UNCHANGED listening

Drop == consumer' = "failed" /\ listening' = FALSE

\* The task runs already.
Start ==
  /\ consumer = "starting"
  /\ IF Encodable
       THEN consumer' = "reading" /\ buffer' = Opening /\ UNCHANGED listening
       ELSE Drop /\ UNCHANGED buffer
  /\ UNCHANGED <<clientVars, options, fetch, chan, inbox, records, objects, manifest>>

Receive ==
  /\ consumer = "reading" /\ inbox = << >> /\ chan # << >>
  /\ chan' = Tail(chan)
  /\ IF Head(chan) = Failed
       THEN Drop /\ UNCHANGED inbox
       ELSE inbox' = query[Head(chan)] /\ UNCHANGED <<consumer, listening>>
  /\ UNCHANGED <<clientVars, options, fetch, buffer, records, objects, manifest>>

Record ==
  /\ consumer = "reading" /\ inbox # << >>
  /\ inbox' = Tail(inbox)
  /\ buffer' = buffer \o Framed(Head(inbox)) /\ records' = records + 1
  /\ consumer' = IF split /\ Len(buffer') >= Threshold THEN "cutting" ELSE "reading"
  /\ UNCHANGED <<clientVars, options, fetch, channel, objects, manifest>>

\* write_part: one object, complete in itself.
WritePart == objects' = Append(objects, buffer \o Closing)

\* In the loop, with the next part opened.
CutPart ==
  /\ consumer = "cutting" /\ WritePart
  /\ buffer' = Opening /\ records' = 0 /\ consumer' = "reading"
  /\ UNCHANGED <<clientVars, options, fetch, channel, inbox, manifest>>

\* The one object of a run that does not split is complete with its stream.
Trailing == records > 0 \/ objects = << >>

LastPart ==
  /\ consumer = "reading" /\ Drained
  /\ IF Trailing THEN WritePart ELSE UNCHANGED objects
  /\ consumer' = IF split THEN "publishing" ELSE "done"
  /\ UNCHANGED <<clientVars, options, fetch, channel, inbox, buffer, records, manifest>>

WriteManifest ==
  /\ consumer = "publishing"
  /\ manifest' = [p \in DOMAIN objects |-> p - 1] /\ consumer' = "done"
  /\ UNCHANGED <<clientVars, options, fetch, channel, inbox, buffer, records, objects>>

\* An error of the encoder or of the store.
ConsumerFails ==
  /\ consumer \in {"reading", "cutting", "publishing"} /\ Drop
  /\ UNCHANGED <<clientVars, options, fetch, chan, inbox, buffer, records, objects, manifest>>

(***************************************************************************)
(* The other callers.                                                      *)
(***************************************************************************)

Others == Callers \ {Task}
Aside == <<options, fetch, channel, output>>

\* One call each is enough to race with the task; how the export writes its
\* result makes no difference to that.
Racing(c) == query \in Shared /\ format = "jsonl" /\ ~split /\ call[c].pc = "idle"

OtherCall(c) ==
  \/ Racing(c) /\ \E direct \in BOOLEAN : Begin(c, direct)
  \/ Authorized(c) /\ Answer(c, "ok")

TaskStep ==
  \/ CallStep(Task) /\ UNCHANGED Aside
  \/ Served \/ CursorGone
  \/ Spawned \/ Fetched \/ FetchFailed \/ SendBatch \/ NobodyListens \/ Disposed \/ SendError

ConsumerStep == Start \/ Receive \/ Record \/ CutPart \/ LastPart \/ WriteManifest

Next ==
  \/ TaskStep \/ ConsumerStep
  \/ ServedInSilence \/ CursorExpires \/ Exit \/ ConsumerFails
  \/ (\E c \in Others : CallStep(c) \/ OtherCall(c)) /\ UNCHANGED Aside
  \/ Disturbance /\ UNCHANGED Aside

\* The task, the consumer and the server keep going; the other callers need not.
Fairness == WF_vars(TaskStep) /\ WF_vars(ConsumerStep)

Spec == Init /\ [][Next]_vars /\ Fairness

(***************************************************************************)
(* Properties                                                              *)
(***************************************************************************)

\* Types.
TypeOK ==
  /\ ClientTypeOK
  /\ query \in Queries /\ format \in Formats /\ fields \in BOOLEAN /\ split \in BOOLEAN
  /\ \A k \in DOMAIN cursors : cursors[k] \in 0..Len(query)
  /\ batch \in [number : 0..Len(query), id : 0..Len(cursors), more : BOOLEAN]
  /\ task \in Requests \cup {"spawned", "sending", "failing", "ended", "killed"}
  /\ Len(chan) <= Prefetch /\ ToSet(chan) \subseteq (1..Len(query)) \cup {Failed}
  /\ listening \in BOOLEAN /\ leaky \in BOOLEAN
  /\ consumer \in {"starting", "reading", "cutting", "publishing", "done", "failed"}
  /\ records \in Nat

\* The documents of a part, and of several, in order.
Documents(object) ==
  FlattenSeq([k \in DOMAIN object |-> IF object[k] \in Framing THEN << >> ELSE <<object[k]>>])
Contents(parts) == FlattenSeq([p \in DOMAIN parts |-> Documents(parts[p])])

\* A reader accepts the object by itself.
Standalone(object) ==
  CASE format = "jsonl" -> \A k \in DOMAIN object : object[k] \notin Framing
    [] format = "csv"   -> object # << >> /\ object[1] = "header"
                             /\ \A k \in 2..Len(object) : object[k] \notin Framing
    [] OTHER -> LET n == Len(object) IN
                  /\ n >= 2 /\ object[1] = "open" /\ object[n] = "close"
                  /\ \A k \in 2..n - 1 : (object[k] = "comma") <=> (k % 2 = 1)
                  /\ n > 2 => n % 2 = 1

\* "Every part is a standalone, valid document ... and concatenating the
\* records across parts reproduces the export" (split.rs): an export that
\* returns Ok has written every document of the result once, in order, and its
\* manifest lists its parts, at least one and none of several without records.
ExportFaithful ==
  consumer = "done" =>
    /\ Contents(objects) = FlattenSeq(query)
    /\ \A p \in DOMAIN objects : Standalone(objects[p])
    /\ objects # << >>
    /\ Len(objects) > 1 => \A p \in DOMAIN objects : Documents(objects[p]) # << >>
    /\ split => manifest = [p \in DOMAIN objects |-> p - 1]

\* "If the consumer drops early, the cursor is disposed server-side"
\* (cursor_stream.rs): when the task has ended by itself none of its cursors is
\* left open, unless one of its calls failed or the answer to an open was lost.
CursorReleased ==
  task = "ended" /\ ~leaky => \A k \in DOMAIN cursors : cursors[k] = 0

\* The channel between task and consumer holds neither of them up for good:
\* the export ends, and so does its task.
ExportEnds == <>(consumer \in {"done", "failed"} /\ task \in {"ended", "killed"})

=============================================================================
