----------------------------- MODULE MCBatcher -----------------------------
\* Readers and Batcher: both caps from "no room at all" to "never reached",
\* lines shorter than, equal to and longer than the byte cap, under sources of
\* every format.
EXTENDS Readers

SomeLengths   == {1, 2, 4}
SomeMaxBytes  == {0, 1, 3, 4, 6}
SomeMaxDocs   == 0..3

MCNumerals == "7" :> "7" @@ "1" :> "1" @@ "007" :> "7"
MCLeadingZero == {"007"}
MCQualified == {"c/1", "c/2", "c/", "c/7", "c/007"}

Texts ==
  <<"7">> :> <<"num", "7">> @@
  <<"\"", ",", "]", "\"">> :> <<"str", "comma">> @@
  <<"\"", "\\", "\"", ",", "\"">> :> <<"str", "quote">> @@
  <<"[", "7", ",", "{", "}", "]">> :> <<"list", "nested">> @@
  <<"{", "to", "}">> :> <<"object", ("_from" :> Str("c/1") @@ "_to" :> Str("c/2"))>> @@
  <<"{", "none", "}">> :> <<"object", ("_from" :> Str("c/1") @@ "_to" :> Null)>> @@
  <<"{", "bare", "}">> :> <<"object", ("_from" :> Str("c/1") @@ "_to" :> Str("1"))>> @@
  <<"{", "half", "}">> :> <<"object", ("_from" :> Str("c/1"))>>

MCJsonOf(text) ==
  LET ends == {i \in DOMAIN text : text[i] # " "}
      trimmed == IF ends = {} THEN << >> ELSE SubSeq(text, 1, CHOOSE i \in ends : \A j \in ends : j <= i)
  IN IF trimmed \in DOMAIN Texts THEN Texts[trimmed] ELSE Invalid

(***************************************************************************)
(* Commands and sources                                                    *)
(***************************************************************************)

Plain == [edge |-> FALSE, prefixed |-> {}, header |-> << >>, types |-> << >>, renames |-> << >>,
          merges |-> << >>, removals |-> {}]
Edges == [Plain EXCEPT !.edge = TRUE]

Source(format, units, verdict, values, command) ==
  [format |-> format, units |-> units, verdict |-> verdict, values |-> values, command |-> command]

Elements == {<<"7">>, <<"\"", ",", "]", "\"">>, <<"\"", "\\", "\"", ",", "\"">>, <<"[", "7", ",", "{", "}", "]">>}

Written(elements, gap) ==
  gap \o <<"[">> \o
    FoldLeft(LAMBDA text, e : IF text = << >> THEN e \o gap ELSE text \o <<",">> \o gap \o e \o gap, << >>, elements)
    \o <<"]">> \o gap

Valued(texts) == [i \in DOMAIN texts |-> Texts[texts[i]]]

Arrays ==
  {Source("array", Written(e, gap), "good", Valued(e), Plain) :
     e \in {<< >>} \cup {<<x, y>> : x, y \in Elements}, gap \in {<< >>, <<" ">>}}

Some == Written(<< <<"[", "7", ",", "{", "}", "]">>, <<"\"", ",", "]", "\"">> >>, << >>)
BrokenArrays ==
  {Source("array", text, "bad", << >>, Plain) :
     text \in {SubSeq(Some, 1, n) : n \in 0..Len(Some) - 1}
                \cup {Some \o <<",">>, <<"7">>, <<"[", "7", " ", "7", "]">>, <<"[", "7", ",", "}", "]">>}}
OddArrays == {Source("array", <<"[", ",", "7", ",", ",", "7", ",", "]">>, "any", << >>, Plain)}

To == <<"{", "to", "}">>
NoEdge == <<"{", "none", "}">>
Lines ==
  {Source("lines", <<To, << >>, NoEdge, To, NoEdge, << >> >>, "good", Valued(<<To, NoEdge, To, NoEdge>>), Edges),
   Source("lines", <<To, NoEdge, <<"7">>, To, NoEdge>>, "good", Valued(<<To, NoEdge, <<"7">>, To, NoEdge>>), Plain),
   Source("lines", <<To, <<"7">> >>, "bad", << >>, Edges),
   Source("lines", <<To, <<"{", "half", "}">> >>, "bad", << >>, Edges),
   Source("lines", <<To, <<"{", "bare", "}">> >>, "bad", << >>, Edges),
   Source("lines", << <<"{", "bare", "}">> >>, "good", Valued(<< <<"{", "bare", "}">> >>), [Edges EXCEPT !.prefixed = {"_from", "_to"}]),
   Source("lines", << <<"{", "bare", "}">> >>, "bad", << >>, [Edges EXCEPT !.prefixed = {"_from"}]),
   Source("lines", <<To>>, "good", Valued(<<To>>), [Edges EXCEPT !.prefixed = {"_to"}]),
   Source("lines", <<To, <<"{">> >>, "bad", << >>, Plain),
   Source("lines", <<To>>, "bad", << >>, [Plain EXCEPT !.removals = {"x"}])}

Fields == {"", "7", "007", "true", "c/1", "null"}
Header == <<"id", "to">>
Commands ==
  {[Plain EXCEPT !.header = Header, !.renames = "id" :> "_key", !.merges = "_id" :> <<"[", "id", "]", "-", "[", "to", "]">>],
   [Plain EXCEPT !.header = Header, !.types = ("id" :> "number" @@ "to" :> "boolean"), !.merges = "_key" :> <<"[", "id", "]">>, !.removals = {"id"}],
   [Edges EXCEPT !.header = Header, !.renames = "to" :> "_to", !.merges = "_from" :> <<"c/", "[", "id", "]">>]}

Row(command, row, verdict, values) == Source("csv", <<row>>, verdict, values, command)
Rows ==
  {Row(c, row, "any", << >>) : c \in Commands, row \in {<<x, y>> : x, y \in Fields} \cup {<<x>> : x \in Fields}}
    \cup
  {Row([Plain EXCEPT !.header = Header, !.renames = "id" :> "_key"], <<"007", "7">>, "good",
       << <<"object", ("_key" :> Str("007") @@ "to" :> <<"num", "7">>)>> >>),
   Row([Plain EXCEPT !.header = Header, !.merges = "_key" :> <<"c/", "[", "id", "]">>], <<"007", "null", "7">>, "good",
       << <<"object", ("_key" :> Str("c/007") @@ "id" :> Str("007") @@ "to" :> Null)>> >>),
   Row([Plain EXCEPT !.header = Header, !.types = "id" :> "number", !.merges = "_key" :> <<"[", "id", "]">>], <<"007">>, "good",
       << <<"object", ("_key" :> Str("7") @@ "id" :> <<"num", "7">>)>> >>),
   Row([Plain EXCEPT !.header = Header, !.types = "to" :> "boolean"], <<"", "7">>, "bad", << >>)}

BadCommands ==
  {Row([Plain EXCEPT !.header = Header, !.merges = "_key" :> template], <<"7">>, "bad", << >>) :
     template \in {<<"c/">>, <<"[", "id">>, <<"[", "]">>, <<"c/", "]">>, <<"[", "id", "]", "[">>}}
    \cup {Row([Plain EXCEPT !.header = Header, !.types = "id" :> "float"], <<"7">>, "bad", << >>),
          Row([Plain EXCEPT !.header = Header, !.renames = "id" :> ""], <<"7">>, "bad", << >>)}

MCSources == BadCommands \cup Arrays \cup BrokenArrays \cup OddArrays \cup Lines \cup Rows

\* Every source that is read in one piece is read as its verdict says.
ASSUME WholeSources == \A s \in Sources : ReadWhole(s)
=============================================================================
