-------------------------------- MODULE Rdf --------------------------------
(***************************************************************************)
(* Bulk import of RDF (crates/arangodb-rdf/src/lib.rs and model.rs): the   *)
(* statements of a document are folded into vertices, buffered and         *)
(* deduplicated, and edges, streamed to a loader of their own while the    *)
(* rest is parsed -- or buffered too when every named graph has its own    *)
(* edge collection.  Vertices are loaded after the input, then the edges   *)
(* are awaited.  The import may fail anywhere and be run again; an edge    *)
(* loader whose import failed in the vertex phase carries on alone.        *)
(*                                                                         *)
(* How the import pipeline sends a stream is the subject of                *)
(* ImportPipeline: here a loader stores its documents one by one, vertices *)
(* in their order and edges in any order of those in hand, or fails.  An   *)
(* answer of success may refuse single documents; the import counts them   *)
(* and drops the count.                                                    *)
(***************************************************************************)
EXTENDS RdfTerms, Sequences, SequencesExt, FiniteSets

CONSTANTS
  Documents,      \* by name: [wellformed, trailing, meaning]; trailing: well-formed
                  \* but for text behind the dots of its lines, no part of its meaning
  Statements,     \* by name: [triples, ok], what read_rdf_triples makes of it
  AllOptions,     \* [model, literals, graphs, scoped]: the RdfOptions to consider
  Capacity,       \* EDGE_CHANNEL_CAP and what the loader has in hand
  MaxRefused,     \* bound on the documents refused in one import
  MaxRuns         \* bound on the imports

ASSUME RdfAssumption ==
  /\ Capacity \in Nat \ {0} /\ MaxRefused \in Nat /\ MaxRuns \in Nat \ {0}
  /\ \A d \in DOMAIN Documents : Statements[d].triples \in Seq(Triples)

VARIABLES
  options,                      \* fixed from the start
  collections, stored, edges,   \* the server
  run, doc, pc, position,       \* the import and its position in the statements
  vertices, buffered,           \* DocStore: vertices, and edges when routed
  loader, pending,              \* the edge task and its unsent edges
  refused,                      \* history: what the server refused in this import
  orphans                       \* edges of loaders whose imports have failed

server == <<collections, stored, edges>>
tail == <<loader, pending>>
rdfVars == <<options, server, run, doc, pc, position, vertices, buffered, tail, refused, orphans>>

RdfInit ==
  /\ options \in AllOptions
  /\ collections \in {{}, {<<"links", "document">>}, {<<"links_g", "document">>}}
  /\ stored = {} /\ edges = {}
  /\ run = 0 /\ doc = "none" /\ pc = "idle" /\ position = 1
  /\ vertices = {} /\ buffered = {}
  /\ loader = "none" /\ pending = {} /\ refused = {} /\ orphans = {}

(***************************************************************************)
(* The graph model.  A vertex is [at, properties]; its place is            *)
(* <<collection, key>>.  Keys are hashes: equal for equal inputs only.  On *)
(* the server it also has, as history, the document it was built from and  *)
(* whether from all of it: [at, properties, by, whole].                    *)
(***************************************************************************)

VertexCollections == IF options.model = "pgt" THEN <<"nodes">> ELSE <<"BNode", "Literal", "URIRef">>

VertexCollection(term) ==
  IF options.model = "pgt"
    THEN "nodes"
    ELSE CASE term[1] = "iri" -> "URIRef" [] term[1] = "blank" -> "BNode" [] OTHER -> "Literal"

\* blank_node_key: labels are salted with the scope, if there is one.
TermKey(term) == <<IF term[1] = "blank" /\ options.scoped THEN doc ELSE "", term>>

Placement(term) == <<VertexCollection(term), TermKey(term)>>

EdgeGraph(graph) == IF options.graphs = "ignore" THEN NoGraph ELSE graph

EdgeCollection(graph) ==
  IF options.graphs = "collection" /\ graph # NoGraph THEN "links_" \o graph[2] ELSE "links"

EdgeDocument(t) ==
  [in |-> EdgeCollection(t.graph), from |-> Placement(t.subject), to |-> Placement(t.object),
   predicate |-> t.predicate, graph |-> EdgeGraph(t.graph)]

Places(docs) == {v.at : v \in docs}
StoreVertex(docs, place) ==
  IF place \in Places(docs) THEN docs ELSE docs \cup {[at |-> place, properties |-> {}]}

\* The last value of a predicate wins.
AddProperty(docs, place, predicate, value) ==
  LET old == CHOOSE v \in docs : v.at = place
      kept == {p \in old.properties : p[1] # predicate}
  IN (docs \ {old}) \cup {[at |-> place, properties |-> kept \cup {<<predicate, value>>}]}

Materialized == options.model = "rpt" \/ options.literals = "materialize"
HasEdge(t) == t.object[1] # "lit" \/ Materialized

\* FAULTY: only subjects become vertices.
FoldSubject(docs, t) == StoreVertex(docs, Placement(t.subject))

\* fold_triple, but for the edge.
Fold(docs, t) ==
  LET seen == StoreVertex(docs, Placement(t.subject)) IN
    CASE HasEdge(t) -> StoreVertex(seen, Placement(t.object))
      [] ~HasEdge(t) /\ options.literals = "property" -> AddProperty(seen, Placement(t.subject), t.predicate, t.object[2])
      [] OTHER -> seen

(***************************************************************************)
(* The import                                                              *)
(***************************************************************************)

Running == {"ensuring", "parsing", "winding", "vertices", "joining"}
Routed == options.graphs = "collection"
Parsed == Statements[doc]

Begin(d) ==
  /\ pc \notin Running /\ run < MaxRuns
  /\ run' = run + 1 /\ doc' = d /\ pc' = "ensuring" /\ position' = 1
  /\ vertices' = {} /\ buffered' = {} /\ loader' = "none" /\ pending' = {}
  /\ refused' = {}
  /\ UNCHANGED <<options, server, orphans>>

\* collection_info, create_collection: one of another kind is refused.
Suits(name, kind) == \A c \in collections : c[1] = name => c[2] = kind
Create(name, kind) == collections' = collections \cup {<<name, kind>>}

\* The vertex collections, then the base edge collection.
Wanted == Append([k \in DOMAIN VertexCollections |-> <<VertexCollections[k], "document">>], <<"links", "edge">>)

EnsureCollection(name, kind) == Suits(name, kind) /\ Create(name, kind)

Ensure ==
  /\ pc = "ensuring" /\ position <= Len(Wanted)
  /\ \/ EnsureCollection(Wanted[position][1], Wanted[position][2]) /\ position' = position + 1 /\ UNCHANGED pc
     \/ ~Suits(Wanted[position][1], Wanted[position][2]) /\ pc' = "failed" /\ UNCHANGED <<collections, position>>
  /\ UNCHANGED <<options, stored, edges, run, doc, vertices, buffered, tail, refused, orphans>>

\* The edge task starts with the parser.
Parse ==
  /\ pc = "ensuring" /\ position > Len(Wanted)
  /\ pc' = "parsing" /\ position' = 1 /\ loader' = IF Routed THEN "none" ELSE "running"
  /\ UNCHANGED <<options, server, run, doc, vertices, buffered, pending, refused, orphans>>

Next1 == position <= Len(Parsed.triples)
Current == Parsed.triples[position]

\* FAULTY: the channel is unbounded.
RoomAlways == loader = "running"

Room == loader = "running" /\ Cardinality(pending) < Capacity

\* buffer_doc: an edge is kept once, its key being a hash of the rest.
Buffer(edge) == buffered' = buffered \cup {edge}

Consume ==
  /\ pc = "parsing" /\ Next1
  /\ vertices' = Fold(vertices, Current)
  /\ position' = position + 1
  /\ CASE ~HasEdge(Current) -> pc' = pc /\ UNCHANGED <<buffered, pending>>
       [] HasEdge(Current) /\ Routed -> Buffer(EdgeDocument(Current)) /\ UNCHANGED <<pc, pending>>
       [] OTHER -> \/ Room /\ pending' = pending \cup {EdgeDocument(Current)} /\ UNCHANGED <<pc, buffered>>
                   \* The loader stopped early: its error surfaces on join.
                   \/ loader = "failed" /\ pc' = "vertices" /\ UNCHANGED <<buffered, pending>>
  /\ UNCHANGED <<options, server, run, doc, loader, refused, orphans>>

\* The end of the input, or its first error, drops the sender.
EndInput ==
  /\ pc = "parsing" /\ ~Next1
  /\ pc' = IF Parsed.ok THEN "vertices" ELSE "winding"
  /\ UNCHANGED <<options, server, run, doc, position, vertices, buffered, tail, refused, orphans>>

SenderDropped == pc \notin {"ensuring", "parsing"}

\* A parse error waits for the loader.
Wind ==
  /\ pc = "winding" /\ loader # "running" /\ pc' = "failed"
  /\ UNCHANGED <<options, server, run, doc, position, vertices, buffered, tail, refused, orphans>>

\* One document refused in an answer of success.
Refuse(kind, which) ==
  Cardinality(refused) < MaxRefused /\ refused' = refused \cup {<<kind, which>>}

\* onDuplicate=ignore: a document whose key is there is left alone.
Unsaved == {v \in vertices : v.at \notin Places(stored) /\ <<"vertex", v.at>> \notin refused}

\* Collections in the order of their names, and the documents of one in that of
\* their keys, which are hashes.
Due == {k \in DOMAIN VertexCollections : \E v \in Unsaved : v.at[1] = VertexCollections[k]}
Turn == CHOOSE k \in Due : \A l \in Due : k <= l
NextVertex == CHOOSE v \in Unsaved : v.at[1] = VertexCollections[Turn]

\* A loader that failed while the parser was running cut the document short.
OnServer(v) == [at |-> v.at, properties |-> v.properties, by |-> doc, whole |-> ~Next1]

SaveVertex ==
  /\ pc = "vertices" /\ Due # {}
  /\ \/ stored' = stored \cup {OnServer(NextVertex)} /\ UNCHANGED refused
     \/ Refuse("vertex", NextVertex.at) /\ UNCHANGED stored
  /\ UNCHANGED <<options, collections, edges, run, doc, pc, position, vertices, buffered, tail, orphans>>

VerticesDone ==
  /\ pc = "vertices" /\ Due = {} /\ pc' = "joining"
  /\ UNCHANGED <<options, server, run, doc, position, vertices, buffered, tail, refused, orphans>>

\* Err at once: the edge task is detached and goes on by itself.
VerticesFail ==
  /\ pc = "vertices" /\ vertices # {} /\ pc' = "failed"
  /\ orphans' = orphans \cup pending /\ pending' = {} /\ loader' = "none"
  /\ UNCHANGED <<options, server, run, doc, position, vertices, buffered, refused>>

SaveEdge(e) ==
  /\ loader = "running" /\ e \in pending
  /\ pending' = pending \ {e}
  /\ \/ edges' = edges \cup {e} /\ UNCHANGED refused
     \/ Refuse("edge", e) /\ UNCHANGED edges
  /\ UNCHANGED <<options, collections, stored, run, doc, pc, position, vertices, buffered, loader, orphans>>

LoaderEnds ==
  /\ loader = "running" /\ SenderDropped /\ pending = {} /\ loader' = "ok"
  /\ UNCHANGED <<options, server, run, doc, pc, position, vertices, buffered, pending, refused, orphans>>

LoaderFails ==
  /\ loader = "running" /\ pending # {} /\ loader' = "failed" /\ pending' = {}
  /\ UNCHANGED <<options, server, run, doc, pc, position, vertices, buffered, refused, orphans>>

Join ==
  /\ pc = "joining" /\ ~Routed /\ loader # "running"
  /\ pc' = IF loader = "ok" THEN "done" ELSE "failed"
  /\ UNCHANGED <<options, server, run, doc, position, vertices, buffered, tail, refused, orphans>>

\* Routed edges: each collection is ensured and loaded.
SaveRouted(e) ==
  /\ pc = "joining" /\ Routed /\ e \in buffered
  /\ EnsureCollection(e.in, "edge")
  /\ buffered' = buffered \ {e}
  /\ \/ edges' = edges \cup {e} /\ UNCHANGED refused
     \/ Refuse("edge", e) /\ UNCHANGED edges
  /\ UNCHANGED <<options, stored, run, doc, pc, position, vertices, tail, orphans>>

RoutedDone ==
  /\ pc = "joining" /\ Routed /\ buffered = {} /\ pc' = "done"
  /\ UNCHANGED <<options, server, run, doc, position, vertices, buffered, tail, refused, orphans>>

Fail ==
  /\ pc = "ensuring" \/ (pc = "joining" /\ Routed /\ buffered # {})
  /\ pc' = "failed"
  /\ UNCHANGED <<options, server, run, doc, position, vertices, buffered, tail, refused, orphans>>

\* A detached loader stores an edge, loses it to a refusal, or stops with those
\* it has left.
Orphan ==
  /\ orphans # {}
  /\ \/ \E e \in orphans : orphans' = orphans \ {e} /\ edges' \in {edges, edges \cup {e}}
     \/ orphans' = {} /\ UNCHANGED edges
  /\ UNCHANGED <<options, collections, stored, run, doc, pc, position, vertices, buffered, tail, refused>>

RdfNext ==
  \/ \E d \in DOMAIN Documents : Begin(d)
  \/ Ensure \/ Parse \/ Consume \/ EndInput \/ Wind
  \/ SaveVertex \/ VerticesDone \/ VerticesFail
  \/ (\E e \in pending : SaveEdge(e)) \/ LoaderEnds \/ LoaderFails \/ Join
  \/ (\E e \in buffered : SaveRouted(e)) \/ RoutedDone
  \/ Fail \/ Orphan

RdfSpec == RdfInit /\ [][RdfNext]_rdfVars

(***************************************************************************)
(* Properties                                                              *)
(***************************************************************************)

\* Types, the bound on what waits between the parser and the loader, and the
\* kind of the collections: a vertex is in a document collection, an edge in an
\* edge collection.
TypeOK ==
  /\ pc \in Running \cup {"idle", "done", "failed"}
  /\ run \in 0..MaxRuns /\ position \in Nat \ {0}
  /\ loader \in {"none", "running", "ok", "failed"}
  /\ Cardinality(pending) <= Capacity
  /\ \A v, w \in stored : v.at = w.at => v = w
  /\ \A v \in stored : <<v.at[1], "document">> \in collections
  /\ \A e \in edges : <<e.in, "edge">> \in collections

Ends(t) == {t.subject, t.object, t.graph}
Labels(triples) == {x \in UNION {Ends(t) : t \in triples} : x[1] \in {"blank", "node"}}
Renamed(t, name) ==
  LET put(x) == IF x \in DOMAIN name THEN name[x] ELSE x IN
    Triple(put(t.subject), t.predicate, put(t.object), put(t.graph))

\* The parser took a document for what it is: it accepts one only that is
\* well-formed, but for text behind the dots of lines, and what it reads of it
\* is, under some naming of its blank nodes, one label for one node, what it
\* says.
ReadAsMeant(document, read) ==
  read.ok =>
    /\ document.wellformed \/ document.trailing
    /\ \E name \in [Labels(document.meaning) -> Labels(ToSet(read.triples))] :
         IsInjective(name) /\ {Renamed(t, name) : t \in document.meaning} = ToSet(read.triples)

\* What a statement of the document leaves on the server, with what the server
\* refused.  A vertex that was there is left alone, so that its new literals are
\* lost: nothing is said of the properties of a vertex that another document's
\* import left, or one cut short by its edge loader.
Kept(t, triples) ==
  LET settled == Places(stored) \cup {p[2] : p \in {q \in refused : q[1] = "vertex"}} IN
  /\ Placement(t.subject) \in settled
  /\ HasEdge(t) =>
       /\ Placement(t.object) \in settled
       /\ EdgeDocument(t) \in edges \/ <<"edge", EdgeDocument(t)>> \in refused
  /\ ~HasEdge(t) /\ options.literals = "property" =>
       \A v \in stored :
         v.at = Placement(t.subject) /\ v.by = doc /\ v.whole =>
           \E u \in triples :
             u.subject = t.subject /\ u.predicate = t.predicate /\ <<u.predicate, u.object[2]>> \in v.properties

\* An import that reports success has read its document to the end, one that is
\* well-formed but for text behind dots, and all it says is on the server but
\* for the documents the server refused: the vertices, the edges, and for a
\* literal kept as a property, one of its values, also on a vertex that an
\* earlier import of the same document had left ("re-importing is idempotent").
RdfComplete ==
  pc = "done" =>
    /\ Documents[doc].wellformed \/ Documents[doc].trailing
    /\ LET says == Documents[doc].meaning
           used == Labels(ToSet(Parsed.triples))
       IN \E name \in [Labels(says) -> used] :
            /\ IsInjective(name)
            /\ LET triples == {Renamed(t, name) : t \in says} IN \A t \in triples : Kept(t, triples)

=============================================================================
