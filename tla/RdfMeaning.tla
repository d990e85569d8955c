----------------------------- MODULE RdfMeaning -----------------------------
(***************************************************************************)
(* What a Turtle document says, defined on its abstract syntax and with no *)
(* use of the parser, and how the document is written.  The reference the  *)
(* parsers of Turtle are checked against.                                  *)
(*                                                                         *)
(* A document is a sequence of <<"prefix", p, iri>>, <<"PREFIX", p, iri>>, *)
(* <<"base", iri>>, <<"BASE", iri>> and <<"statement", subject, pairs>>,   *)
(* with pairs a sequence of <<verb, objects>>.  A term is a token,         *)
(* <<"anon", pairs>>, <<"list", items>>, <<"typed", text, datatype>>, or   *)
(* <<"tagged", text, language>>.                                           *)
(***************************************************************************)
EXTENDS Turtle

RECURSIVE WriteTerm(_), WritePairs(_), Denotes(_, _, _), TermSays(_, _, _), PairsSay(_, _, _, _)

Joined(parts, separator) ==
  FoldLeft(LAMBDA text, part : IF text = << >> THEN part ELSE text \o separator \o part, << >>, parts)

Mark(kind) == << <<kind, "">> >>

WriteTerm(term) ==
  CASE term[1] = "anon" -> Mark("[") \o WritePairs(term[2]) \o Mark("]")
    [] term[1] = "list" -> Mark("(") \o Joined([i \in DOMAIN term[2] |-> WriteTerm(term[2][i])], << >>) \o Mark(")")
    [] term[1] = "typed" -> << <<"string", term[2]>>, <<"^^", "">>, term[3]>>
    [] term[1] = "tagged" -> << <<"string", term[2]>>, <<"@", term[3]>> >>
    [] OTHER -> <<term>>

WritePairs(pairs) ==
  Joined([i \in DOMAIN pairs |->
            <<pairs[i][1]>> \o Joined([j \in DOMAIN pairs[i][2] |-> WriteTerm(pairs[i][2][j])], Mark(","))],
         Mark(";"))

WriteItem(item) ==
  CASE item[1] = "statement" -> WriteTerm(item[2]) \o WritePairs(item[3]) \o Mark(".")
    [] item[1] = "prefix" -> << <<"@prefix", "">>, <<"pname", "", item[2]>>, item[3]>> \o Mark(".")
    [] item[1] = "PREFIX" -> << <<"PREFIX", "">>, <<"pname", "", item[2]>>, item[3]>>
    [] item[1] = "base" -> << <<"@base", "">>, item[2]>> \o Mark(".")
    [] item[1] = "BASE" -> << <<"BASE", "">>, item[2]>>

Written(items) == Joined([i \in DOMAIN items |-> WriteItem(items[i])], << >>)

(***************************************************************************)
(* The node a term at a path denotes, and the triples written inside it.   *)
(* An anonymous node is named by the path of its term.                     *)
(***************************************************************************)

Denotes(term, env, path) ==
  CASE term[1] = "a" -> RDF_TYPE
    [] term[1] = "rel" -> Iri(env.base \o term[2])
    [] term[1] = "pname" -> Iri(env.prefixes[term[3]] \o term[2])
    [] term[1] = "anon" -> <<"node", path>>
    [] term[1] = "list" -> IF term[2] = << >> THEN RDF_NIL ELSE <<"node", Append(path, 1)>>
    [] term[1] = "string" -> Literal(term[2], "")
    [] term[1] = "typed" -> Literal(term[2], Denotes(term[3], env, << >>)[2])
    [] term[1] = "tagged" -> Literal(term[2], term[3])
    [] OTHER -> term

PairsSay(subject, pairs, env, path) ==
  UNION {LET object == pairs[at[1]][2][at[2]]
             there == path \o at
         IN {Triple(subject, Denotes(pairs[at[1]][1], env, << >>), Denotes(object, env, there), NoGraph)}
              \cup TermSays(object, env, there) :
           at \in UNION {{<<k, l>> : l \in DOMAIN pairs[k][2]} : k \in DOMAIN pairs}}

TermSays(term, env, path) ==
  CASE term[1] = "anon" -> PairsSay(<<"node", path>>, term[2], env, path)
    [] term[1] = "list" ->
         UNION {LET cell == <<"node", Append(path, i)>>
                    there == path \o <<i, 0>>
                    rest == IF i = Len(term[2]) THEN RDF_NIL ELSE <<"node", Append(path, i + 1)>>
                IN {Triple(cell, RDF_FIRST, Denotes(term[2][i], env, there), NoGraph),
                    Triple(cell, RDF_REST, rest, NoGraph)}
                     \cup TermSays(term[2][i], env, there) : i \in DOMAIN term[2]}
    [] OTHER -> {}

Resolve(iri, env) == Denotes(iri, env, << >>)[2]

\* The directives in force before item n.
EnvironmentAt(items, n) ==
  FoldLeft(LAMBDA env, item :
             CASE item[1] \in {"base", "BASE"} -> [env EXCEPT !.base = Resolve(item[2], env)]
               [] item[1] \in {"prefix", "PREFIX"} ->
                    [env EXCEPT !.prefixes = (item[2] :> Resolve(item[3], env)) @@ @]
               [] OTHER -> env,
           [base |-> "", prefixes |-> << >>], SubSeq(items, 1, n - 1))

Says(items) ==
  UNION {LET env == EnvironmentAt(items, n)
             subject == Denotes(items[n][2], env, <<n>>)
         IN TermSays(items[n][2], env, <<n>>) \cup PairsSay(subject, items[n][3], env, <<n, 0>>) :
           n \in {k \in DOMAIN items : items[k][1] = "statement"}}
=============================================================================
