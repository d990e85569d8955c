------------------------------ MODULE RdfTerms ------------------------------
(***************************************************************************)
(* The terms and triples that the RDF parsers yield and the import reads   *)
(* (RdfTerm and RdfTriple, crates/arangodb-rdf/src/parser.rs).             *)
(***************************************************************************)
EXTENDS Integers

Iri(text) == <<"iri", text>>
Blank(label) == <<"blank", label>>
Literal(text, kind) == <<"lit", text, kind>>    \* kind: "", a datatype or a language

NoGraph == <<"none", "">>
Triple(s, p, o, g) == [subject |-> s, predicate |-> p, object |-> o, graph |-> g]

Nodes == {"iri", "blank"} \X STRING
Literals == {"lit"} \X STRING \X STRING
Triples ==
  [subject : Nodes, predicate : {"iri"} \X STRING, object : Nodes \cup Literals, graph : Nodes \cup {NoGraph}]
=============================================================================
