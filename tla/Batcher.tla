------------------------------ MODULE Batcher ------------------------------
(***************************************************************************)
(* into_batches (crates/arangodb-import/src/batch.rs): documents arrive    *)
(* one by one, are appended to a request body, and the body is flushed by  *)
(* the byte cap, by the document cap, or by the end of the input.  A       *)
(* document is its position in the input; of its JSON line only the        *)
(* length, newline included, matters.  The steps are those of the stream:  *)
(* Readers, which feeds it, takes them.                                    *)
(***************************************************************************)
EXTENDS Integers, SequencesExt

CONSTANTS
  LineLengths,   \* possible lengths of a document's line, newline included
  MaxBytesRange, \* values of BatchConfig::max_bytes
  MaxDocsRange,  \* values of BatchConfig::max_docs
  MaxInput       \* bound on the number of documents

ASSUME BatcherAssumption ==
  /\ LineLengths \subseteq Nat \ {0}
  /\ MaxBytesRange \subseteq Nat /\ MaxDocsRange \subseteq Nat
  /\ MaxInput \in Nat

VARIABLES
  maxBytes, maxDocs,  \* the BatchConfig, fixed for the import
  lines,              \* line length of every document read so far
  body,               \* documents in the buffer
  yielded,            \* the batches yielded; batch i has index i
  state               \* "open", "ended" or "failed"

config == <<maxBytes, maxDocs>>
vars == <<config, lines, body, yielded, state>>

Bytes(docs, length) == SumFunction([i \in DOMAIN docs |-> length[docs[i]]])

Init ==
  /\ maxBytes \in MaxBytesRange /\ maxDocs \in MaxDocsRange
  /\ lines = <<>> /\ body = <<>> /\ yielded = <<>> /\ state = "open"

\* FAULTY: looks at the body before the line is added to it.
OverflowTooLate(length) == body # <<>> /\ Bytes(body, lines) > maxBytes

\* FAULTY: cuts a batch that the line would have filled exactly.
OverflowAtCap(length) == body # <<>> /\ Bytes(body, lines) + length >= maxBytes

\* Whether the next line would push a non-empty body over the byte cap.
WouldOverflow(length) == body # <<>> /\ Bytes(body, lines) + length > maxBytes

\* FAULTY: numbers documents from zero.
NextFromZero == Len(lines)

\* The document about to be appended.
NextDocument == Len(lines) + 1

Document(length) ==
  /\ state = "open" /\ Len(lines) < MaxInput
  /\ LET flushed  == IF WouldOverflow(length) THEN <<body>> ELSE <<>>
         filled  == Append(IF WouldOverflow(length) THEN <<>> ELSE body, NextDocument)
         full    == Len(filled) >= maxDocs
     IN /\ yielded' = yielded \o flushed \o (IF full THEN <<filled>> ELSE <<>>)
        /\ body' = IF full THEN <<>> ELSE filled
  /\ lines' = Append(lines, length)
  /\ UNCHANGED <<config, state>>

\* FAULTY: drops the last, partial batch.
EndWithoutFlush ==
  /\ state = "open"
  /\ body' = <<>> /\ state' = "ended"
  /\ UNCHANGED <<config, lines, yielded>>

EndOfInput ==
  /\ state = "open"
  /\ yielded' = IF body = <<>> THEN yielded ELSE Append(yielded, body)
  /\ body' = <<>> /\ state' = "ended"
  /\ UNCHANGED <<config, lines>>

\* The input stream yields an error: it is propagated, the partial body dropped.
InputError ==
  /\ state = "open"
  /\ state' = "failed" /\ body' = <<>>
  /\ UNCHANGED <<config, lines, yielded>>

(***************************************************************************)
(* Properties                                                              *)
(***************************************************************************)

\* Every document is in exactly one batch, in input order, when the input ends
\* well; after an error the batches are still a prefix of the input, so that
\* the indices of a checkpoint keep their meaning.
NoDocumentLost ==
  LET delivered == FlattenSeq(yielded) \o body
  IN /\ delivered = [i \in 1..Len(delivered) |-> i]
     /\ state # "failed" => Len(delivered) = Len(lines)

\* Batches respect both caps, except that a single document may exceed the
\* byte cap alone; none is empty.
BatchesBounded ==
  \A i \in DOMAIN yielded :
    LET batch == yielded[i] IN
      /\ batch # <<>>
      /\ Len(batch) > 1 => Bytes(batch, lines) <= maxBytes /\ Len(batch) <= maxDocs

\* A batch is cut only where a cap forces it.  With the two properties above
\* this fixes the batches as a function of the documents and the config: the
\* determinism that index-based resume relies on (doc of Batch).
BatchesMaximal ==
  \A i \in DOMAIN yielded :
    LET following == Last(yielded[i]) + 1 IN
      \/ Len(yielded[i]) >= maxDocs
      \/ following > Len(lines) /\ state = "ended"
      \/ Bytes(yielded[i], lines) + lines[following] > maxBytes

=============================================================================
