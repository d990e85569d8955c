------------------------------- MODULE MCRdf -------------------------------
EXTENDS Rdf, RdfMeaning

S == Iri("s")
P == Iri("p")
Q == Iri("q")
O == Iri("o")
L1 == Literal("1", "integer")
L2 == <<"tagged", "1", "@en">>
Name(local, prefix) == <<"pname", local, prefix>>

TurtleDocument(items) ==
  [format |-> "turtle", input |-> Written(items), wellformed |-> TRUE, trailing |-> FALSE, meaning |-> Says(items)]

LineDocument(format, triples) ==
  [format |-> format, wellformed |-> TRUE, trailing |-> FALSE, meaning |-> ToSet(triples),
   input |-> [n \in DOMAIN triples |->
                <<triples[n].subject, triples[n].predicate, triples[n].object>>
                  \o (IF triples[n].graph = NoGraph THEN << >> ELSE <<triples[n].graph>>) \o Mark(".")]]

\* The same lines with more behind their dots.
Dotted(document) ==
  [document EXCEPT !.wellformed = FALSE, !.trailing = TRUE,
                   !.input = [n \in DOMAIN @ |-> @[n] \o <<Q, <<"[", "">> >>]]

Malformed(format, input) ==
  [format |-> format, input |-> input, wellformed |-> FALSE, trailing |-> FALSE, meaning |-> {}]

\* Nested nodes and collections, and a label the parser generates too.
Nested ==
  << <<"statement", <<"blank", "_bnl1">>,
       << <<P, << <<"anon", << <<Q, << <<"list", <<L1, <<"anon", << >> >> >> >> >> >> >> >> >> >>,
          << <<"a", "">>, <<O>> >> >> >> >>

\* Prefixes bound twice, a base, and a label used twice.
Named ==
  << <<"prefix", "x", Iri("one#")>>, <<"base", Iri("base#")>>,
     <<"statement", Name("s", "x"), << <<Name("p", "x"), << <<"rel", "o">>, <<"blank", "b">> >> >> >> >>,
     <<"PREFIX", "x", <<"rel", "two#">> >>,
     <<"statement", <<"blank", "b">>, << <<Name("p", "x"), << <<"typed", "1", Name("t", "x")>> >> >> >> >> >>

\* One predicate with two values, and the same statement twice.
Valued ==
  << <<"statement", S, << <<P, <<L1, L2>> >>, <<Q, << <<"string", "1">> >> >> >> >>,
     <<"statement", S, << <<P, << <<"list", << >> >>, <<"list", << >> >> >> >> >> >> >>

AllDocuments ==
  [nested |-> TurtleDocument(Nested),
   named |-> TurtleDocument(Named),
   valued |-> TurtleDocument(Valued),
   lines |-> LineDocument("ntriples", <<Triple(S, P, Blank("b"), NoGraph), Triple(Blank("b"), Q, L1, NoGraph)>>),
   quads |-> LineDocument("nquads", <<Triple(S, P, O, Iri("g")), Triple(S, P, O, Iri("h")),
                                      Triple(O, P, S, NoGraph), Triple(S, P, L1, Blank("b"))>>),
   dotted |-> Dotted(LineDocument("nquads", <<Triple(S, P, L1, NoGraph), Triple(S, Q, O, Iri("g"))>>)),
   cut |-> Malformed("ntriples", << <<S, P, O, <<".", "">> >>, <<S, P>> >>),
   quad |-> Malformed("ntriples", << <<S, P, O, O, <<".", "">> >> >>),
   open |-> Malformed("turtle", <<S, P, O, <<".", "">>, S, P, <<"[", "">>, Q, O, <<".", "">> >>),
   list |-> Malformed("turtle", <<S, P, <<"(", "">>, O, O>>),
   unbound |-> Malformed("turtle", <<S, P, Name("o", "x"), <<".", "">> >>),
   type |-> Malformed("turtle", <<S, P, <<"string", "1">>, <<"^^", "">>, Name("t", "x"), <<".", "">> >>),
   verb |-> Malformed("turtle", <<S, <<"blank", "b">>, O, <<".", "">> >>),
   bound |-> Malformed("turtle", << <<"@prefix", "">>, Name("n", "x"), O, <<".", "">> >>)]

AllStatements == [d \in DOMAIN AllDocuments |-> Read(AllDocuments[d].format, AllDocuments[d].input)]

\* The parser takes every document for what it is, however it is written: it
\* accepts the well-formed ones, and those with text behind dots, and reads what
\* they say.
ASSUME MeaningRead ==
  \A d \in DOMAIN AllDocuments :
    /\ ReadAsMeant(AllDocuments[d], AllStatements[d])
    /\ AllDocuments[d].wellformed \/ AllDocuments[d].trailing => AllStatements[d].ok

\* Those to import: "nested" has the same kinds of statements as these, more of
\* them, and the others fail like "cut" and "open".
Imported == {"named", "valued", "lines", "quads", "dotted", "cut", "open"}
MCDocuments == [d \in Imported |-> AllDocuments[d]]
MCStatements == [d \in Imported |-> AllStatements[d]]

MCOptions ==
  {[model |-> "pgt", literals |-> "materialize", graphs |-> "property", scoped |-> TRUE],
   [model |-> "pgt", literals |-> "property", graphs |-> "ignore", scoped |-> TRUE],
   [model |-> "pgt", literals |-> "none", graphs |-> "property", scoped |-> FALSE],
   [model |-> "rpt", literals |-> "none", graphs |-> "collection", scoped |-> FALSE]}
=============================================================================
