-------------------------- MODULE ResumableUpload --------------------------
(***************************************************************************)
(* Restart-resumable uploads (crates/arangodb-storage/src/resumable.rs)    *)
(* over a local directory (local.rs) or an object store with a key prefix  *)
(* (object_store_backend.rs): part objects, a state.json marker written    *)
(* last, readers that open the marker and stream the parts, and deletion.  *)
(* One process uploads or deletes at a time and may die; one reader runs   *)
(* at any time.  Byte number n of the source has the value n.              *)
(***************************************************************************)
EXTENDS Integers, FiniteSets, Sequences, SequencesExt

CONSTANTS
  Roots,       \* the key prefixes of one segment a storage URL may name
  Names,       \* the base names uploads are given
  Special,     \* those of both that OsPath::from writes with percent escapes
  Total,       \* PartSource::len of the one source
  PartSizes,   \* the part sizes calls of upload_resumable ask for
  MaxCalls     \* bound on the calls of upload and delete

ASSUME ResumableUploadAssumption ==
  /\ Total \in Nat /\ MaxCalls \in Nat /\ PartSizes \subseteq Nat

Source == [n \in 1..Total |-> n]

VARIABLES
  atomic,    \* the backend is an object store; fixed from the start
  prefix,    \* its key prefix, segments as they are given; fixed from the start
  base,      \* the base name of the upload; fixed from the start
  objects,   \* the bucket or directory: key to content
  calls, pc, size, index, queue,  \* the call that uploads or deletes
  deleted,   \* history: a delete has begun
  reader, opened, next, output    \* the reader

caller == <<calls, pc, size, index, queue, deleted>>
reading == <<reader, opened, next, output>>
vars == <<atomic, prefix, base, objects, caller, reading>>

(***************************************************************************)
(* The store.  A path or a key is a directory, which is a sequence of      *)
(* segments, and the object's name in it.                                  *)
(***************************************************************************)

\* A segment: the text it was given as and how often that text was escaped.
Raw(text) == [text |-> text, escapes |-> 0]

\* OsPath::from of a segment.  The escapes' own percent sign is a character to
\* escape: encoding twice is not encoding once.
Encode(segment) ==
  IF segment.text \in Special THEN [segment EXCEPT !.escapes = @ + 1] ELSE segment

\* location, and the local store's resolve: the key of a backend-relative path.
Directory(dir) ==
  IF atomic THEN [i \in DOMAIN (prefix \o dir) |-> Encode((prefix \o dir)[i])] ELSE prefix \o dir
Located(path) == <<Directory(path[1]), path[2]>>

Written(path, content) ==
  [key \in DOMAIN objects \cup {Located(path)} |->
     IF key = Located(path) THEN content ELSE objects[key]]

Exists(path) == Located(path) \in DOMAIN objects
Content(path) == objects[Located(path)]

Size(path) == IF Exists(path) THEN Len(Content(path)) ELSE -1

\* Removing what is not there is no error.
Removed(path) == [key \in DOMAIN objects \ {Located(path)} |-> objects[key]]

\* FAULTY: the keys as the backend knows them.
ListWithPrefix(dir) == {key \in DOMAIN objects : IsPrefix(Directory(dir), key[1])}

\* strip_prefix of the prefix as it was given: a key that does not begin with
\* that text is returned whole.
Stripped(dir) ==
  IF IsPrefix(prefix, dir) THEN SubSeq(dir, Len(prefix) + 1, Len(dir)) ELSE dir

\* What list returns for a directory: keys, escapes included, as relative paths.
List(dir) ==
  {<<Stripped(key[1]), key[2]>> :
     key \in {k \in DOMAIN objects : IsPrefix(Directory(dir), k[1])}}

\* The directory walk sorts what it found.
Sorted(paths) ==
  CHOOSE s \in [1..Cardinality(paths) -> paths] :
    \A i, j \in DOMAIN s : i < j => Last(s[i]) < Last(s[j])

(***************************************************************************)
(* The representation.                                                     *)
(***************************************************************************)

\* A name counts as its rank in a sorted listing: "00000000.part" and its
\* successors, of which there are at most Total, come before "state.json".
MarkerName == Total + 1
Upload == <<base>>
StateObject == <<Upload, MarkerName>>
PartObject(n) == <<Upload, n>>

Larger(a, b) == IF a > b THEN a ELSE b
Smaller(a, b) == IF a < b THEN a ELSE b
PartSize == Larger(size, 1)
Ceiling(a, b) == (a + b - 1) \div b
Parts == Ceiling(Total, PartSize)

\* FAULTY: one byte of the next part as well.
WideWindow(n) == SubSeq(Source, n * PartSize + 1, Smaller(n * PartSize + PartSize + 1, Total))

\* The window of part n: its offset, and its length cut at the end.
Window(n) == SubSeq(Source, n * PartSize + 1, Smaller(n * PartSize + PartSize, Total))

Marker == <<PartSize, Total, Parts>>

\* A marker parses when all of it was written.
Parses(content) == Len(content) = 3

Init ==
  /\ atomic \in BOOLEAN
  /\ prefix \in {<< >>} \cup {<<Raw(text)>> : text \in Roots}
  /\ base \in {Raw(text) : text \in Names}
  /\ objects = << >>
  /\ calls = 0 /\ pc = "idle" /\ size = 0 /\ index = 0 /\ queue = << >> /\ deleted = FALSE
  /\ reader = "idle" /\ opened = 0 /\ next = 0 /\ output = << >>

(***************************************************************************)
(* upload_resumable                                                        *)
(***************************************************************************)

Busy == pc \notin {"idle", "uploaded", "removed", "failed"}

BeginUpload(asked) ==
  /\ ~Busy /\ calls < MaxCalls
  /\ calls' = calls + 1 /\ size' = asked /\ index' = 0 /\ pc' = "checking"
  /\ UNCHANGED <<atomic, prefix, base, objects, queue, deleted, reading>>

\* FAULTY: any object at the part's path is trusted.
PresentAtAll(n) == Size(PartObject(n)) >= 0

\* A part of the expected size is trusted, whatever is in it.
Present(n) == Size(PartObject(n)) = Len(Window(n))

SkipPart ==
  /\ pc = "checking" /\ index < Parts /\ Present(index)
  /\ index' = index + 1
  /\ UNCHANGED <<atomic, prefix, base, objects, calls, pc, size, queue, deleted, reading>>

\* read_part, then put_stream of the part; a local file is truncated first.
PutPart ==
  /\ pc = "checking" /\ index < Parts /\ ~Present(index)
  /\ IF atomic
       THEN objects' = Written(PartObject(index), Window(index)) /\ index' = index + 1 /\ UNCHANGED pc
       ELSE objects' = Written(PartObject(index), << >>) /\ pc' = "writing part" /\ UNCHANGED index
  /\ UNCHANGED <<atomic, prefix, base, calls, size, queue, deleted, reading>>

\* FAULTY: the marker is written first.
PutMarkerEarly ==
  /\ pc = "checking"
  /\ objects' = Written(StateObject, Marker)
  /\ pc' = IF index = Parts THEN "uploaded" ELSE pc
  /\ UNCHANGED <<atomic, prefix, base, calls, size, index, queue, deleted, reading>>

PutMarker ==
  /\ pc = "checking" /\ index = Parts
  /\ IF atomic THEN objects' = Written(StateObject, Marker) /\ pc' = "uploaded"
               ELSE objects' = Written(StateObject, << >>) /\ pc' = "writing marker"
  /\ UNCHANGED <<atomic, prefix, base, calls, size, index, queue, deleted, reading>>

\* write_all: the bytes of a local file arrive one after another.
WriteByte(path, content) ==
  /\ Size(path) < Len(content)
  /\ objects' = Written(path, SubSeq(content, 1, Size(path) + 1))

WritePart ==
  /\ pc = "writing part"
  /\ \/ WriteByte(PartObject(index), Window(index)) /\ UNCHANGED <<pc, index>>
     \/ /\ Present(index) /\ pc' = "checking" /\ index' = index + 1 /\ UNCHANGED objects
  /\ UNCHANGED <<atomic, prefix, base, calls, size, queue, deleted, reading>>

WriteMarker ==
  /\ pc = "writing marker"
  /\ \/ WriteByte(StateObject, Marker) /\ UNCHANGED pc
     \/ Size(StateObject) = Len(Marker) /\ pc' = "uploaded" /\ UNCHANGED objects
  /\ UNCHANGED <<atomic, prefix, base, calls, size, index, queue, deleted, reading>>

(***************************************************************************)
(* delete_resumable                                                        *)
(***************************************************************************)

\* list, in its order.
BeginDelete ==
  /\ ~Busy /\ calls < MaxCalls
  /\ calls' = calls + 1 /\ pc' = "deleting" /\ deleted' = TRUE
  /\ queue' = Sorted(List(Upload))
  /\ UNCHANGED <<atomic, prefix, base, objects, size, index, reading>>

DeleteNext ==
  /\ pc = "deleting"
  /\ IF queue = << >>
       THEN pc' = "removed" /\ UNCHANGED <<objects, queue>>
       ELSE objects' = Removed(Head(queue)) /\ queue' = Tail(queue) /\ UNCHANGED pc
  /\ UNCHANGED <<atomic, prefix, base, calls, size, index, deleted, reading>>

\* A failing request, an unreadable source or a kill.
Fail ==
  /\ Busy /\ pc' = "failed"
  /\ UNCHANGED <<atomic, prefix, base, objects, calls, size, index, queue, deleted, reading>>

(***************************************************************************)
(* open_resumable and read_resumable                                       *)
(***************************************************************************)

Open ==
  /\ reader \in {"idle", "ok", "error"}
  /\ output' = << >> /\ next' = 0
  /\ IF Exists(StateObject) /\ Parses(Content(StateObject))
       THEN reader' = "reading" /\ opened' = Content(StateObject)[3]
       ELSE reader' = "error" /\ opened' = 0
  /\ UNCHANGED <<atomic, prefix, base, objects, caller>>

\* Parts are read in order; a missing one ends the stream with an error.
ReadPart ==
  /\ reader = "reading" /\ next < opened
  /\ IF Exists(PartObject(next))
       THEN output' = output \o Content(PartObject(next)) /\ next' = next + 1 /\ UNCHANGED reader
       ELSE reader' = "error" /\ UNCHANGED <<output, next>>
  /\ UNCHANGED <<atomic, prefix, base, objects, caller, opened>>

EndOfParts ==
  /\ reader = "reading" /\ next = opened /\ reader' = "ok"
  /\ UNCHANGED <<atomic, prefix, base, objects, caller, opened, next, output>>

Next ==
  \/ \E asked \in PartSizes : BeginUpload(asked)
  \/ SkipPart \/ PutPart \/ WritePart \/ PutMarker \/ WriteMarker
  \/ BeginDelete \/ DeleteNext \/ Fail
  \/ Open \/ ReadPart \/ EndOfParts

Spec == Init /\ [][Next]_vars

(***************************************************************************)
(* Properties                                                              *)
(***************************************************************************)

\* Types, and no object longer than what it stands for.
TypeOK ==
  /\ atomic \in BOOLEAN /\ deleted \in BOOLEAN
  /\ pc \in {"idle", "checking", "writing part", "writing marker", "deleting",
             "uploaded", "removed", "failed"}
  /\ calls \in 0..MaxCalls /\ index \in 0..Parts
  /\ \A key \in DOMAIN objects :
       Len(objects[key]) <= IF Last(key) = MarkerName THEN 3 ELSE PartSize
  /\ reader \in {"idle", "reading", "ok", "error"} /\ next \in 0..opened

\* What the part objects of a finished upload add up to.
Reconstructed == FlattenSeq([n \in 1..Parts |-> objects[Located(PartObject(n - 1))]])

\* An upload that returns Ok has stored exactly the source, whatever parts and
\* torn objects earlier uploads and deletes left behind
\* (upload_resumable, "Safe to call repeatedly").
UploadFaithful ==
  pc = "uploaded" =>
    /\ \A n \in 0..(Parts - 1) : Located(PartObject(n)) \in DOMAIN objects
    /\ Reconstructed = Source
    /\ objects[Located(StateObject)] = Marker

\* A read that ends without an error returned the whole source, even while
\* uploads fail and run again: the marker is written last ("open_resumable
\* never observes a torn upload").  A delete removes the parts before the
\* marker; only on a local directory can a later upload then show a reader that
\* opened the old marker a part still being written.
ReadExact == reader = "ok" /\ (atomic \/ ~deleted) => output = Source

\* The encoding of keys leaves the prefix and the base name as they are.
Legible == Directory(Upload) = prefix \o Upload

\* A delete that returns Ok leaves no object of the upload, under a prefix and a
\* base name that keys spell as they are given ("Deletes every part object and
\* the completion marker").  With others the listing returns escaped paths, the
\* deletes of these miss, and the call returns Ok with every object left.
DeleteLeavesNothing ==
  pc = "removed" /\ Legible => \A key \in DOMAIN objects : ~IsPrefix(Directory(Upload), key[1])

=============================================================================
