------------------------------- MODULE Turtle -------------------------------
(***************************************************************************)
(* The RDF parsers (crates/arangodb-rdf/src/turtle.rs and parser.rs) over  *)
(* tokens: the Turtle grammar with its prefixes, base, nested blank nodes  *)
(* and collections, and the line formats.  An operator stands for each     *)
(* function of the recursive descent and maps a parser state to the next.  *)
(*                                                                         *)
(* A token is <<kind, text>>, <<"pname", local, prefix>>, or for a number  *)
(* or boolean, and for any literal of the line formats, the literal.  How  *)
(* characters become tokens, escapes included, is not modelled.            *)
(***************************************************************************)
EXTENDS RdfTerms, Sequences, SequencesExt, TLC

RDF_TYPE == Iri("rdf:type")
RDF_FIRST == Iri("rdf:first")
RDF_REST == Iri("rdf:rest")
RDF_NIL == Iri("rdf:nil")

(***************************************************************************)
(* The parser state; out is what the last function returned.               *)
(***************************************************************************)

New(input) ==
  [tokens |-> input, pos |-> 1, base |-> "", prefixes |-> << >>, counter |-> 0,
   triples |-> << >>, out |-> << >>, bad |-> FALSE]

Peek(s) == IF s.pos \in DOMAIN s.tokens THEN s.tokens[s.pos][1] ELSE "end"
Text(s) == s.tokens[s.pos][2]
Error(s) == [s EXCEPT !.bad = TRUE]
Advance(s) == [s EXCEPT !.pos = @ + 1]
Return(s, value) == [s EXCEPT !.out = value]
Expect(s, kind) == IF ~s.bad /\ Peek(s) = kind THEN Advance(s) ELSE Error(s)

\* The code's `?`: once the state is bad nothing else happens.
Then(s, F(_)) == IF s.bad THEN s ELSE F(s)

Push(s, subject, predicate, object) ==
  [s EXCEPT !.triples = Append(@, Triple(subject, predicate, object, NoGraph))]

FreshBlank(s) ==
  [s EXCEPT !.counter = @ + 1, !.out = Blank("_bnl" \o ToString(s.counter + 1))]

(***************************************************************************)
(* Terms                                                                   *)
(***************************************************************************)

ReadIriRef(s) ==
  CASE Peek(s) = "iri" -> Return(Advance(s), Iri(Text(s)))
    [] Peek(s) = "rel" -> Return(Advance(s), Iri(s.base \o Text(s)))
    [] OTHER -> Error(s)

ReadPrefixedName(s) ==
  LET prefix == s.tokens[s.pos][3] IN
    IF prefix \in DOMAIN s.prefixes
      THEN Return(Advance(s), Iri(s.prefixes[prefix] \o Text(s)))
      ELSE Error(s)

ReadBlankLabel(s) == Return(Advance(s), Blank("u_" \o Text(s)))

NamedNode(s) == IF Peek(s) = "pname" THEN ReadPrefixedName(s) ELSE ReadIriRef(s)

IriOrBlank(s) ==
  CASE s.bad -> s
    [] Peek(s) = "blank" -> ReadBlankLabel(s)
    [] OTHER -> NamedNode(s)

\* A string takes a language tag or a datatype with it.
StringLiteral(s) ==
  LET body == Advance(s) IN
    CASE Peek(body) = "@" -> Return(Advance(body), Literal(Text(s), Text(body)))
      [] Peek(body) = "^^" ->
           Then(NamedNode(Advance(body)), LAMBDA kind : Return(kind, Literal(Text(s), kind.out[2])))
      [] OTHER -> Return(body, Literal(Text(s), ""))

Verb(s) ==
  IF ~s.bad /\ Peek(s) = "a"
    THEN Return(Advance(s), RDF_TYPE)
    ELSE Then(IriOrBlank(s), LAMBDA verb : IF verb.out[1] = "blank" THEN Error(verb) ELSE verb)

(***************************************************************************)
(* Objects, lists and statements                                           *)
(***************************************************************************)

RECURSIVE Object(_), ObjectList(_, _, _), PredicateObjectList(_, _), Items(_, _), ParseDocument(_)

ObjectList(s, subject, predicate) ==
  Then(Object(s), LAMBDA object :
    LET next == Push(object, subject, predicate, object.out) IN
      IF Peek(next) = "," THEN ObjectList(Advance(next), subject, predicate) ELSE next)

\* A trailing ';' is allowed before '.' and ']'.
PredicateObjectList(s, subject) ==
  Then(Then(Verb(s), LAMBDA verb : ObjectList(verb, subject, verb.out)), LAMBDA list :
    CASE Peek(list) # ";" -> list
      [] Peek(Advance(list)) \in {".", "]", "end"} -> Advance(list)
      [] OTHER -> PredicateObjectList(Advance(list), subject))

BlankNodePropertyList(s) ==
  LET node == FreshBlank(Advance(s)) IN
    IF Peek(node) = "]"
      THEN Advance(node)
      ELSE Return(Expect(PredicateObjectList(node, node.out), "]"), node.out)

Items(s, items) ==
  CASE s.bad \/ Peek(s) = "end" -> Error(s)
    [] Peek(s) = ")" -> Return(Advance(s), items)
    [] OTHER -> Then(Object(s), LAMBDA object : Items(object, Append(items, object.out)))

\* One cell of a collection: rdf:first its item, rdf:rest the next cell or nil.
Cell(s, items, i) ==
  LET current == s.out
      first == Push(s, current, RDF_FIRST, items[i])
      rest == IF i = Len(items) THEN Return(first, RDF_NIL) ELSE FreshBlank(first)
  IN Push(rest, current, RDF_REST, rest.out)

Collection(s) ==
  Then(Items(Advance(s), << >>), LAMBDA read :
    LET head == FreshBlank(read)
        done == FoldLeft(LAMBDA t, i : Cell(t, read.out, i), head, [i \in DOMAIN read.out |-> i])
    IN IF read.out = << >> THEN Return(read, RDF_NIL) ELSE Return(done, head.out))

Object(s) ==
  CASE s.bad -> s
    [] Peek(s) = "[" -> BlankNodePropertyList(s)
    [] Peek(s) = "(" -> Collection(s)
    [] Peek(s) = "string" -> StringLiteral(s)
    [] Peek(s) = "lit" -> Return(Advance(s), s.tokens[s.pos])
    [] OTHER -> IriOrBlank(s)

Subject(s) ==
  CASE Peek(s) = "[" -> BlankNodePropertyList(s)
    [] Peek(s) = "(" -> Collection(s)
    [] OTHER -> IriOrBlank(s)

Statement(s) ==
  Then(Subject(s), LAMBDA subject : Expect(PredicateObjectList(subject, subject.out), "."))

ReadBase(s) ==
  Then(ReadIriRef(s), LAMBDA iri : [iri EXCEPT !.base = iri.out[2]])

ReadPrefixBinding(s) ==
  IF Peek(s) # "pname" \/ Text(s) # ""
    THEN Error(s)
    ELSE Then(ReadIriRef(Advance(s)), LAMBDA iri :
           [iri EXCEPT !.prefixes = (s.tokens[s.pos][3] :> iri.out[2]) @@ @])

\* The SPARQL forms have no '.'.
Directive(s) ==
  CASE Peek(s) = "@prefix" -> Expect(ReadPrefixBinding(Advance(s)), ".")
    [] Peek(s) = "@base" -> Expect(ReadBase(Advance(s)), ".")
    [] Peek(s) = "PREFIX" -> ReadPrefixBinding(Advance(s))
    [] Peek(s) = "BASE" -> ReadBase(Advance(s))

ParseDocument(s) ==
  CASE s.bad \/ Peek(s) = "end" -> s
    [] Peek(s) \in {"@prefix", "@base", "PREFIX", "BASE"} -> ParseDocument(Directive(s))
    [] OTHER -> ParseDocument(Statement(s))

(***************************************************************************)
(* parse_statement: a line of N-Triples or N-Quads.  What follows the '.'  *)
(* is not looked at.                                                       *)
(***************************************************************************)

LineTerm(token, kinds) == token[1] \in kinds

Resources == {"iri", "blank"}

ParseStatement(line, quads) ==
  LET full == Len(line) >= 4 /\ LineTerm(line[1], Resources) /\ LineTerm(line[2], {"iri"})
                /\ LineTerm(line[3], Resources \cup {"lit"})
      named == quads /\ full /\ Len(line) >= 5 /\ LineTerm(line[4], Resources) /\ line[5][1] = "."
  IN CASE full /\ line[4][1] = "." -> [ok |-> TRUE, triple |-> Triple(line[1], line[2], line[3], NoGraph)]
       [] named -> [ok |-> TRUE, triple |-> Triple(line[1], line[2], line[3], line[4])]
       [] OTHER -> [ok |-> FALSE, triple |-> << >>]

(***************************************************************************)
(* read_rdf_triples: what the stream yields, and whether it ends with an   *)
(* error.  Turtle is parsed whole, the lines one by one.                   *)
(***************************************************************************)

ReadTurtle(tokens) ==
  LET s == ParseDocument(New(tokens)) IN
    [triples |-> IF s.bad THEN << >> ELSE s.triples, ok |-> ~s.bad]

ReadLines(lines, quads) ==
  LET good(n) == ParseStatement(lines[n], quads).ok
      last == Max({n \in 0..Len(lines) : \A k \in 1..n : good(k)})
  IN [triples |-> [n \in 1..last |-> ParseStatement(lines[n], quads).triple],
      ok |-> last = Len(lines)]

Read(format, input) ==
  IF format = "turtle" THEN ReadTurtle(input) ELSE ReadLines(input, format = "nquads")
=============================================================================
