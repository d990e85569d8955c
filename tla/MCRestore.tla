----------------------------- MODULE MCRestore -----------------------------
\* Bounded instance of Restore: a dump of two databases whose manifest lists an
\* edge collection first and a collection in two parts, with one view of each
\* kind and the same collection name in both databases; another dump of one of
\* its collections and a later one with the same artifacts; a dump that is refused.
EXTENDS Restore

Docs == <<"A", "docs">>
Other == <<"B", "docs">>
Edges == <<"A", "edges">>

Structure(u) == [kind |-> "structure", db |-> u[1], name |-> u[2]]
Data(u) == [kind |-> "data", db |-> u[1], name |-> u[2]]
View(name) == [kind |-> "view", db |-> "A", name |-> name]

TheArtifacts ==
  [full |-> <<Structure(Edges), Data(Edges), Structure(Docs), Data(Docs), Data(Docs), Structure(Other), Data(Other),
              View("alias"), View("search")>>,
   small |-> <<Structure(Docs), Data(Docs)>>,
   later |-> <<Structure(Docs), Data(Docs)>>,
   bare |-> <<Data(Docs)>>]

TheStamps == [m \in DOMAIN TheArtifacts |-> IF m = "later" THEN 2 ELSE 1]

TheTargets == [v \in {<<"A", "alias">>, <<"A", "search">>} |->
                 IF v[2] = "alias" THEN {Docs} ELSE {Docs, Edges}]
=============================================================================
