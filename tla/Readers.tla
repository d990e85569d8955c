------------------------------ MODULE Readers ------------------------------
(***************************************************************************)
(* The input side of an import (crates/arangodb-import/src/reader and      *)
(* edge.rs): a source is read as a JSON array scanned byte by byte in      *)
(* chunks of any size, as JSON lines, or as delimited rows reshaped by     *)
(* column; edges are checked; what is left goes to the Batcher, whose      *)
(* steps these are.                                                        *)
(*                                                                         *)
(* A byte that is not structural to the scanner is any other character.  A *)
(* value is <<"str", text>>, <<"num", text>>, <<"bool", text>>,            *)
(* <<"null", "">>, or <<"object", [attribute |-> value]>>.  How two        *)
(* columns renamed to one attribute override each other is not modelled.   *)
(***************************************************************************)
EXTENDS Batcher, FiniteSets, TLC

CONSTANTS
  Sources,       \* [format, units, verdict, values, command]: see below
  JsonOf(_),     \* the value of a JSON text, or Invalid
  Numerals,      \* text of a number -> its value's text
  LeadingZero,   \* those whose integer part starts with a spare zero
  Qualified      \* the texts with a '/'

\* units: the bytes of an array, or the lines, or the rows after the header.
\* command: [edge, prefixed, header, types, renames, merges, removals], the merges
\* by target, as templates; prefixed: the ends of edges the server qualifies.
\* verdict: "good" (values is what it holds), "bad", or "any".
ASSUME ReadersAssumption == \A s \in Sources : s.units \in Seq(Range(s.units)) /\ s.values \in Seq(Range(s.values))

Invalid == <<"invalid", "">>
Null == <<"null", "">>
Str(text) == <<"str", text>>

VARIABLES
  source, opened,
  at,                   \* the next unit
  scanner, completed,   \* ArrayScanner, and the elements of the chunk in hand
  documents, skipped,   \* what was handed on, [ordinal, value]; edgeless ordinals
  fault                 \* "none", or why the stream failed

readerVars == <<source, opened, at, scanner, completed, documents, skipped, fault>>
ingestVars == <<vars, readerVars>>

(***************************************************************************)
(* ArrayScanner                                                            *)
(***************************************************************************)

\* The bytes that are structural to the scanner.
Space == " "
Comma == ","
Quote == "\""
Backslash == "\\"
ArrayStart == "["
ArrayEnd == "]"
Opening == {"{", "["}
Closing == {"}", "]"}

NewScanner ==
  [started |-> FALSE, finished |-> FALSE, inElement |-> FALSE, depth |-> 0,
   inString |-> FALSE, escaped |-> FALSE, current |-> << >>, error |-> FALSE, out |-> << >>]

BeginElement(s) ==
  [s EXCEPT !.inElement = TRUE, !.depth = 0, !.inString = FALSE, !.escaped = FALSE, !.current = << >>]

InString(s, byte) ==
  [s EXCEPT !.current = Append(@, byte),
            !.escaped = ~s.escaped /\ byte = Backslash,
            !.inString = s.escaped \/ byte # Quote]

OutOfString(s, byte) ==
  [s EXCEPT !.current = Append(@, byte),
            !.inString = byte = Quote,
            !.depth = IF byte \in Opening THEN @ + 1 ELSE IF byte \in Closing THEN @ - 1 ELSE @]

\* The ',' or ']' that ends an element is not part of it.
EndElement(s, byte) ==
  [s EXCEPT !.inElement = FALSE, !.finished = byte = ArrayEnd, !.out = Append(@, s.current), !.current = << >>]

ConsumeElementByte(s, byte) ==
  IF s.inString THEN InString(s, byte)
  ELSE IF s.depth = 0 /\ byte \in {Comma, ArrayEnd} THEN EndElement(s, byte)
  ELSE OutOfString(s, byte)

FeedByte(s, byte) ==
  IF s.error THEN s
  ELSE IF s.finished THEN [s EXCEPT !.error = byte # Space]
  ELSE IF ~s.started THEN [s EXCEPT !.started = byte = ArrayStart, !.error = byte \notin {Space, ArrayStart}]
  ELSE IF s.inElement THEN ConsumeElementByte(s, byte)
  ELSE IF byte \in {Space, Comma} THEN s
  ELSE IF byte = ArrayEnd THEN [s EXCEPT !.finished = TRUE]
  ELSE ConsumeElementByte(BeginElement(s), byte)

\* FAULTY: a chunk that begins inside a string is read as if outside.
FeedOutside(s, bytes) == FoldLeft(FeedByte, [s EXCEPT !.out = << >>, !.inString = FALSE], bytes)

Feed(s, bytes) == FoldLeft(FeedByte, [s EXCEPT !.out = << >>], bytes)

(***************************************************************************)
(* Delimited rows                                                          *)
(***************************************************************************)

Reserved == {"_key", "_from", "_to", "_id"}

InferScalar(field) ==
  CASE field \in {"", "null"} -> Null
    [] field \in {"true", "false"} -> <<"bool", field>>
    [] field \in DOMAIN Numerals \ LeadingZero -> <<"num", Numerals[field]>>
    [] OTHER -> Str(field)

Coerce(field, kind) ==
  CASE kind = "string" -> Str(field)
    [] field = "" -> Null
    [] kind = "number" -> IF field \in DOMAIN Numerals THEN <<"num", Numerals[field]>> ELSE Invalid
    [] field \in {"true", "1"} -> <<"bool", "true">>
    [] field \in {"false", "0"} -> <<"bool", "false">>
    [] OTHER -> Invalid

TargetName(c, name) == IF name \in DOMAIN c.renames THEN c.renames[name] ELSE name

KeepsText(c, name) == TargetName(c, name) \in Reserved

SourceValue(c, name, field) ==
  IF KeepsText(c, name) THEN Str(field)
  ELSE IF name \in DOMAIN c.types THEN Coerce(field, c.types[name]) ELSE InferScalar(field)

\* The row by column; fields and columns without the other are dropped.
SourceRow(c, row) ==
  LET columns == {i \in DOMAIN c.header : i \in DOMAIN row}
      field(name) == row[CHOOSE i \in columns : c.header[i] = name]
  IN [name \in {c.header[i] : i \in columns} |-> SourceValue(c, name, field(name))]

\* A merge template is a sequence of "[", "]" and texts.  Its segments are <<"text",
\* t>> and <<"column", name>>; bad when a bracket is empty or open, or there is none.
TemplateStep(s, token) ==
  CASE s.inside /\ token = "]" ->
         [s EXCEPT !.inside = FALSE, !.column = "", !.literal = "", !.bad = @ \/ s.column = "",
                   !.segments = @ \o (IF s.literal = "" THEN << >> ELSE << <<"text", s.literal>> >>)
                                  \o << <<"column", s.column>> >>]
    [] s.inside -> [s EXCEPT !.column = @ \o token]
    [] token = "[" -> [s EXCEPT !.inside = TRUE]
    [] OTHER -> [s EXCEPT !.literal = @ \o token]

ParseTemplate(template) ==
  LET s == FoldLeft(TemplateStep,
                    [segments |-> << >>, literal |-> "", column |-> "", inside |-> FALSE, bad |-> FALSE], template)
      segments == Append(s.segments, <<"text", s.literal>>)
  IN [segments |-> segments, ok |-> ~s.bad /\ ~s.inside /\ s.segments # << >>]

\* ColumnTransforms::new, which refuses what it does not understand.
Understood(c) ==
  /\ \A name \in DOMAIN c.types : c.types[name] \in {"string", "number", "boolean"}
  /\ \A name \in DOMAIN c.renames : c.renames[name] # ""
  /\ \A target \in DOMAIN c.merges : ParseTemplate(c.merges[target]).ok

Merged(values, template) ==
  LET piece(segment) == IF segment[1] = "text" THEN segment[2]
                        ELSE IF segment[2] \in DOMAIN values THEN values[segment[2]][2] ELSE ""
  IN FoldLeft(LAMBDA built, segment : built \o piece(segment), "", ParseTemplate(template).segments)

\* Rename and remove, then what was merged from the columns by their own names.
Reshaped(c, values) ==
  LET kept == DOMAIN values \ c.removals
  IN [target \in DOMAIN c.merges \cup {TargetName(c, name) : name \in kept} |->
        IF target \in DOMAIN c.merges THEN Str(Merged(values, c.merges[target]))
                                      ELSE values[CHOOSE name \in kept : TargetName(c, name) = target]]

RowValue(c, row) ==
  LET values == SourceRow(c, row) IN
    IF \E name \in DOMAIN values : values[name] = Invalid THEN Invalid ELSE <<"object", Reshaped(c, values)>>

(***************************************************************************)
(* Edges                                                                   *)
(***************************************************************************)

Endpoint(value, has_prefix) ==
  IF value \in {Null, Str("")} THEN "empty"
  ELSE IF value[1] = "str" /\ (has_prefix \/ value[2] \in Qualified) THEN "present" ELSE "bad"

CheckEdge(c, value) ==
  LET end(field) == IF field \in DOMAIN value[2] THEN Endpoint(value[2][field], field \in c.prefixed) ELSE "bad"
      ends == IF value[1] = "object" THEN {end("_from"), end("_to")} ELSE {"bad"}
  IN IF "bad" \in ends THEN "bad" ELSE IF "empty" \in ends THEN "empty" ELSE "present"

(***************************************************************************)
(* The stream of documents                                                 *)
(***************************************************************************)

Ordinal == Len(documents) + Cardinality(skipped) + 1

FailWith(why) ==
  /\ InputError
  /\ fault' = why
  /\ UNCHANGED <<source, opened, documents, skipped>>

\* A value read: checked when it must be an edge, and batched.
Deliver(value) ==
  LET verdict == IF source.command.edge THEN CheckEdge(source.command, value) ELSE "present" IN
    CASE value = Invalid \/ verdict = "bad" -> FailWith("parse")
      [] verdict = "empty" ->
           /\ skipped' = skipped \cup {Ordinal}
           /\ UNCHANGED <<vars, source, opened, documents, fault>>
      [] OTHER ->
           /\ \E length \in LineLengths : Document(length)
           /\ documents' = Append(documents, [ordinal |-> Ordinal, value |-> value])
           /\ UNCHANGED <<source, opened, skipped, fault>>

ReadersInit ==
  /\ Init
  /\ source \in Sources /\ opened = FALSE /\ at = 1
  /\ scanner = NewScanner /\ completed = << >>
  /\ documents = << >> /\ skipped = {} /\ fault = "none"

Reshapes(c) == DOMAIN c.types \cup DOMAIN c.renames \cup DOMAIN c.merges \cup c.removals # {}

\* The import command opens its input; columns are reshaped in rows only.
Open ==
  /\ ~opened /\ state = "open"
  /\ IF ~Understood(source.command) \/ (Reshapes(source.command) /\ source.format # "csv")
       THEN InputError /\ fault' = "config" /\ UNCHANGED opened
       ELSE opened' = TRUE /\ UNCHANGED <<vars, fault>>
  /\ UNCHANGED <<source, at, scanner, completed, documents, skipped>>

Reading(format) == opened /\ state = "open" /\ source.format = format
More == at <= Len(source.units)

\* A chunk whose bytes are in error yields none of its elements.
ReadChunk ==
  /\ Reading("array") /\ completed = << >> /\ More
  /\ \E last \in at..Len(source.units) :
       LET fed == Feed(scanner, SubSeq(source.units, at, last)) IN
         /\ at' = last + 1 /\ scanner' = fed
         /\ IF fed.error
              THEN FailWith("parse") /\ UNCHANGED completed
              ELSE /\ completed' = fed.out
                   /\ UNCHANGED <<vars, source, opened, documents, skipped, fault>>

NextElement ==
  /\ Reading("array") /\ completed # << >>
  /\ completed' = Tail(completed)
  /\ Deliver(JsonOf(Head(completed)))
  /\ UNCHANGED <<at, scanner>>

EndOfArray ==
  /\ Reading("array") /\ completed = << >> /\ ~More
  /\ IF scanner.started /\ scanner.finished
       THEN EndOfInput /\ UNCHANGED <<source, opened, documents, skipped, fault>>
       ELSE FailWith("parse")
  /\ UNCHANGED <<at, scanner, completed>>

\* A line of blanks is no document.
NextLine ==
  /\ Reading("lines") /\ More /\ at' = at + 1
  /\ IF source.units[at] = << >> THEN UNCHANGED <<vars, source, opened, documents, skipped, fault>>
                                 ELSE Deliver(JsonOf(source.units[at]))
  /\ UNCHANGED <<scanner, completed>>

NextRow ==
  /\ Reading("csv") /\ More /\ at' = at + 1
  /\ Deliver(RowValue(source.command, source.units[at]))
  /\ UNCHANGED <<scanner, completed>>

EndOfRecords ==
  /\ Reading("lines") \/ Reading("csv")
  /\ ~More /\ EndOfInput
  /\ UNCHANGED readerVars

\* Opening or reading the input fails.
ReadFails ==
  /\ state = "open" /\ FailWith("read")
  /\ UNCHANGED <<at, scanner, completed>>

Finished == state # "open" /\ UNCHANGED ingestVars

ReadersNext ==
  \/ Open \/ ReadChunk \/ NextElement \/ EndOfArray
  \/ NextLine \/ NextRow \/ EndOfRecords \/ ReadFails
  \/ Finished

ReadersSpec == ReadersInit /\ [][ReadersNext]_ingestVars

(***************************************************************************)
(* Properties                                                              *)
(***************************************************************************)

\* A source read in one piece: the texts or rows in it, those that hold a value,
\* and whether the import takes it.
Whole(s) == Feed(NewScanner, s.units)
Records(s) == IF s.format = "array" THEN Whole(s).out ELSE s.units
Holding(s) == {k \in DOMAIN Records(s) : s.format = "lines" => Records(s)[k] # << >>}
ValueAt(s, k) ==
  IF s.format = "csv" THEN RowValue(s.command, Records(s)[k]) ELSE JsonOf(Records(s)[k])

Accepted(c, value) == value # Invalid /\ (c.edge => CheckEdge(c, value) # "bad")
Sound(s) ==
  /\ Understood(s.command) /\ (Reshapes(s.command) => s.format = "csv")
  /\ s.format = "array" => LET end == Whole(s) IN ~end.error /\ end.started /\ end.finished
  /\ \A k \in Holding(s) : Accepted(s.command, ValueAt(s, k))

\* place[i] is where the i-th value of the source is.
Placed(s, place) ==
  /\ \A i, j \in DOMAIN s.values : i < j => place[i] < place[j]
  /\ {place[i] : i \in DOMAIN s.values} = Holding(s)
  /\ \A i \in DOMAIN s.values : s.values[i] = ValueAt(s, place[i])

\* In one piece, the source is read as its verdict says.
ReadWhole(s) ==
  /\ s.verdict = "good" => Sound(s) /\ \E place \in [DOMAIN s.values -> DOMAIN Records(s)] : Placed(s, place)
  /\ s.verdict = "bad" => ~Sound(s)

\* The documents are values of the source in its order, none skipped but for an
\* edge without an end; at the end of a sound source, all of them.
InOrder ==
  /\ \A i, j \in DOMAIN documents : i < j => documents[i].ordinal < documents[j].ordinal
  /\ source.verdict = "good" => \A i \in DOMAIN documents : documents[i].value = source.values[documents[i].ordinal]
  /\ \A k \in skipped : \E field \in {"_from", "_to"} :
       source.verdict = "good" => source.values[k][2][field] \in {Null, Str("")}
  /\ state = "ended" /\ source.verdict = "good" => Len(documents) + Cardinality(skipped) = Len(source.values)

\* An attribute the server wants as a string is one in any row, and an edge that
\* is sent has both its ends.
ServerTakes ==
  \A i \in DOMAIN documents : LET value == documents[i].value IN
    /\ source.format = "csv" => \A a \in Reserved \cap DOMAIN value[2] : value[2][a][1] = "str"
    /\ source.command.edge => \A field \in {"_from", "_to"} : value[2][field] \notin {Null, Str("")}

\* What a source says is what is batched, however its bytes are cut into chunks:
\* a document for each of its values, and a parse error only where it is unsound.
InputUnderstood ==
  /\ Len(documents) = Len(lines)
  /\ InOrder /\ ServerTakes
  /\ fault = "parse" => source.verdict # "good"
  /\ source.verdict = "bad" => state # "ended"
=============================================================================
