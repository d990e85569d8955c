------------------------------ MODULE Restore ------------------------------
(***************************************************************************)
(* Restoring a dump (crates/arangodb-restore/src/lib.rs): the manifest     *)
(* grouped into units, the databases, the resume checkpoint, and the four  *)
(* phases -- collections, arangosearch views, data and indexes,            *)
(* search-alias views -- each of which records what it completes.  The     *)
(* command may fail or be killed anywhere and be run again, for the same   *)
(* dump or another one.  A response lost after the server acted is a       *)
(* failure right after the action.                                         *)
(***************************************************************************)
EXTENDS Integers, Sequences, SequencesExt

CONSTANTS
  Dumps,          \* dumps the command is pointed at
  Artifacts,      \* Artifacts[m]: manifest order, [kind, db, name]
  Stamp,          \* Stamp[m]: the source database and created_at of the manifest
  Unsupported,    \* dumps that are encrypted or hold VelocyPack data
  EdgeNames,      \* collections whose structure says type 3
  AliasViews,     \* views of type search-alias
  Targets,        \* Targets[<<db, view>>]: the units a view depends on
  NoDatabase,     \* database of an artifact of a single-database dump
  Nothing,        \* no dump: an absent object, an absent checkpoint
  Foreign,        \* objects somebody else left on the server
  AtomicPut,      \* the checkpoint store shows nothing before a put completes
  MaxRuns         \* bound on the runs of the command

ASSUME RestoreAssumption ==
  /\ Unsupported \subseteq Dumps
  /\ {Nothing, Foreign} \cap Dumps = {} /\ Nothing # Foreign
  /\ AtomicPut \in BOOLEAN /\ MaxRuns \in Nat \ {0}

(***************************************************************************)
(* What a manifest means.                                                  *)
(***************************************************************************)

Key(a) == <<a.db, a.name>>

\* group_by_collection: one group per (database, collection), in the order of
\* first appearance; a view is no collection.
Groups(m) ==
  FoldLeft(LAMBDA seen, a :
             IF a.kind = "view" \/ Key(a) \in ToSet(seen) THEN seen ELSE Append(seen, Key(a)),
           << >>, Artifacts[m])

PartsOf(m, u) == {n \in DOMAIN Artifacts[m] :
                    Artifacts[m][n].kind = "data" /\ Key(Artifacts[m][n]) = u}

HasStructure(m, u) == \E n \in DOMAIN Artifacts[m] :
                         Artifacts[m][n].kind = "structure" /\ Key(Artifacts[m][n]) = u

DatabaseOrder(m) ==
  FoldLeft(LAMBDA seen, u : IF u[1] \in ToSet(seen) THEN seen ELSE Append(seen, u[1]),
           << >>, Groups(m))

IsEdge(u) == u[2] \in EdgeNames

\* The stable sort by database, then documents before edges.
Units(m) ==
  FlattenSeq([n \in DOMAIN DatabaseOrder(m) |->
    LET mine == SelectSeq(Groups(m), LAMBDA u : u[1] = DatabaseOrder(m)[n]) IN
      SelectSeq(mine, LAMBDA u : ~IsEdge(u)) \o SelectSeq(mine, IsEdge)])

ViewsOf(m) == LET found == SelectSeq(Artifacts[m], LAMBDA a : a.kind = "view") IN
                [n \in DOMAIN found |-> Key(found[n])]
IsAlias(v) == v[2] \in AliasViews
\* FAULTY: every view is created before the data.
AllViewsEarly(m) == ViewsOf(m)

PlainViews(m) == SelectSeq(ViewsOf(m), LAMBDA v : ~IsAlias(v))
LateViews(m) == SelectSeq(ViewsOf(m), IsAlias)

\* validate and read_structure.
Restorable(m) == m \notin Unsupported /\ \A u \in ToSet(Units(m)) : HasStructure(m, u)

\* FAULTY: the artifact paths alone.
FingerprintOfPaths(m) == Artifacts[m]

\* fingerprint: database, creation time and the artifact paths in their order.
Fingerprint(m) == <<Stamp[m], Artifacts[m]>>

UnitId(u) == <<"unit", u>>
ViewId(v) == <<"view", v>>

(***************************************************************************)
(* State                                                                   *)
(***************************************************************************)

VARIABLES
  overwrite, resumable,      \* the options; fixed from the start
  databases, colls, views,   \* the server
  saved,                     \* the checkpoint object: [of, ids], or torn
  run, pc, stage, dump, completed, at, part   \* the command

server == <<databases, colls, views>>
position == <<at, part>>
vars == <<overwrite, resumable, server, saved, run, pc, stage, dump, completed, position>>

AllUnits == UNION {ToSet(Units(m)) : m \in Dumps}
AllViews == UNION {ToSet(ViewsOf(m)) : m \in Dumps}

Fresh(m) == [of |-> m, parts |-> {}, indexed |-> FALSE]
NoCheckpoint == [of |-> Nothing, ids |-> {}]
Torn == [of |-> Foreign, ids |-> {}]

Init ==
  /\ overwrite \in BOOLEAN /\ resumable \in BOOLEAN
  /\ databases = {} /\ saved = NoCheckpoint
  /\ \E owner \in {Nothing, Foreign} :
       colls = [u \in AllUnits |-> Fresh(owner)] /\ views = [v \in AllViews |-> owner]
  /\ run = 0 /\ pc = "idle" /\ stage = "doing" /\ dump = Nothing
  /\ completed = {} /\ at = 1 /\ part = {}

Phases == <<"creating", "viewing", "loading", "aliasing", "done">>
Running == {"opening", "preparing"} \cup {Phases[n] : n \in 1..4}

\* What a phase walks through.
Work(phase) ==
  CASE phase \in {"creating", "loading"} -> Units(dump)
    [] phase = "viewing" -> PlainViews(dump)
    [] phase = "aliasing" -> LateViews(dump)
    [] OTHER -> << >>

Id(phase, item) == IF phase \in {"viewing", "aliasing"} THEN ViewId(item) ELSE UnitId(item)

\* FAULTY: the checkpoint is only consulted when data is loaded.
DoneWhenLoading(id) == resumable /\ pc # "creating" /\ id \in completed

Done(id) == resumable /\ id \in completed

(***************************************************************************)
(* What the requests do on the server.                                     *)
(***************************************************************************)

\* restore_collection replaces an existing collection only with overwrite.
Recreatable(u) == overwrite \/ colls[u].of = Nothing
Recreate(u) == colls' = [colls EXCEPT ![u] = Fresh(dump)]

\* restore_data appends the documents of one artifact.
Insert(u, n) == colls' = [colls EXCEPT ![u].parts = @ \cup {n}]

\* create_index, of one after the other.
BuildIndexes(u) == colls' = [colls EXCEPT ![u].indexed = TRUE]

\* create_database: one that exists is no error.
AddDatabase(name) == databases' = databases \cup {name}

\* drop_view: one that is absent is no error.
RemoveView(v) == views' = [views EXCEPT ![v] = Nothing]

\* create_view leaves the order to its caller: the server wants a view's
\* collections (error 1203) and, for a search-alias view, their indexes (a 400).
Ready(v) == \A u \in Targets[v] : colls[u].of # Nothing /\ (IsAlias(v) => colls[u].indexed)
AddView(v) == views' = [views EXCEPT ![v] = dump]

(***************************************************************************)
(* The start of a run.                                                     *)
(***************************************************************************)

Begin(m) ==
  /\ pc \notin Running /\ run < MaxRuns
  /\ run' = run + 1 /\ pc' = "opening" /\ dump' = m
  /\ stage' = "doing" /\ completed' = {} /\ at' = 1 /\ part' = {}
  /\ UNCHANGED <<overwrite, resumable, server, saved>>

\* read_manifest, validate, read_structure and read_views touch nothing.
Open ==
  /\ pc = "opening"
  /\ pc' = IF Restorable(dump) THEN "preparing" ELSE "failed"
  /\ UNCHANGED <<overwrite, resumable, server, saved, run, stage, dump, completed, position>>

Wanted == ToSet(DatabaseOrder(dump)) \ {NoDatabase}

CreateDatabase(name) ==
  /\ pc = "preparing" /\ name \in Wanted \ databases
  /\ AddDatabase(name)
  /\ UNCHANGED <<overwrite, resumable, colls, views, saved, run, pc, stage, dump, completed, position>>

Matches == saved.of \in Dumps => Fingerprint(saved.of) = Fingerprint(dump)

LoadCheckpoint ==
  /\ pc = "preparing" /\ Wanted \subseteq databases
  /\ IF resumable => saved # Torn /\ Matches
       THEN pc' = "creating" /\ completed' = IF resumable THEN saved.ids ELSE {}
       ELSE pc' = "failed" /\ UNCHANGED completed
  /\ UNCHANGED <<overwrite, resumable, server, saved, run, stage, dump, position>>

(***************************************************************************)
(* The phases.                                                             *)
(***************************************************************************)

Doing(phase) == pc = phase /\ stage = "doing" /\ at <= Len(Work(phase))
Item == Work(pc)[at]
Turn(phase) == Doing(phase) /\ ~Done(Id(phase, Item))
Step == at' = at + 1 /\ part' = {}

Skip ==
  /\ \E n \in 1..4 : Doing(Phases[n]) /\ Done(Id(pc, Item))
  /\ Step
  /\ UNCHANGED <<overwrite, resumable, server, saved, run, pc, stage, dump, completed>>

EndPhase ==
  /\ \E n \in 1..4 : pc = Phases[n] /\ stage = "doing" /\ at > Len(Work(pc)) /\ pc' = Phases[n + 1]
  /\ at' = 1 /\ part' = {}
  /\ UNCHANGED <<overwrite, resumable, server, saved, run, stage, dump, completed>>

CreateCollection ==
  /\ Turn("creating")
  /\ IF Recreatable(Item)
       THEN Recreate(Item) /\ Step /\ UNCHANGED pc
       ELSE pc' = "conflict" /\ UNCHANGED <<colls, position>>
  /\ UNCHANGED <<overwrite, resumable, databases, views, saved, run, stage, dump, completed>>

\* load_collection_data: the data artifacts in manifest order.
LoadPart ==
  LET left == PartsOf(dump, Item) \ part
      next == CHOOSE n \in left : \A k \in left : n <= k
  IN /\ Turn("loading") /\ left # {}
     /\ part' = part \cup {next}
     /\ Insert(Item, next)
     /\ UNCHANGED <<overwrite, resumable, databases, views, saved, run, pc, stage, dump, completed, at>>

\* Then its non-implicit indexes.
CreateIndexes ==
  /\ Turn("loading") /\ PartsOf(dump, Item) = part
  /\ BuildIndexes(Item) /\ stage' = "recording"
  /\ UNCHANGED <<overwrite, resumable, databases, views, saved, run, pc, dump, completed, position>>

ViewTurn == Turn("viewing") \/ Turn("aliasing")

\* part tells that the view was dropped.
DropView ==
  /\ ViewTurn /\ overwrite /\ part = {}
  /\ RemoveView(Item) /\ part' = {0}
  /\ UNCHANGED <<overwrite, resumable, databases, colls, saved, run, pc, stage, dump, completed, at>>

CreateView ==
  /\ ViewTurn /\ (overwrite => part # {})
  /\ IF views[Item] = Nothing /\ Ready(Item)
       THEN AddView(Item) /\ stage' = "recording" /\ UNCHANGED pc
       ELSE /\ pc' = IF Ready(Item) THEN "conflict" ELSE "premature"
            /\ UNCHANGED <<views, stage>>
  /\ UNCHANGED <<overwrite, resumable, databases, colls, saved, run, dump, completed, position>>

(***************************************************************************)
(* record and persist_restore_checkpoint.  A failed write is only logged.  *)
(***************************************************************************)

\* FAULTY: the position moves on before the write, and again after it.
RecordAndStep ==
  /\ stage = "recording" /\ pc \in Running
  /\ completed' = completed \cup {Id(pc, Item)}
  /\ stage' = IF resumable THEN "writing" ELSE "doing"
  /\ Step
  /\ UNCHANGED <<overwrite, resumable, server, saved, run, pc, dump>>

Record ==
  /\ stage = "recording" /\ pc \in Running
  /\ completed' = IF resumable THEN completed \cup {Id(pc, Item)} ELSE completed
  /\ stage' = IF resumable THEN "writing" ELSE "doing"
  /\ IF resumable THEN UNCHANGED position ELSE Step
  /\ UNCHANGED <<overwrite, resumable, server, saved, run, pc, dump>>

\* LocalFileSystem truncates the object before it writes it.
Truncate ==
  /\ stage = "writing" /\ pc \in Running /\ ~AtomicPut /\ saved # Torn
  /\ saved' = Torn
  /\ UNCHANGED <<overwrite, resumable, server, run, pc, stage, dump, completed, position>>

Persist ==
  /\ stage = "writing" /\ pc \in Running /\ (AtomicPut \/ saved = Torn)
  /\ saved' = [of |-> dump, ids |-> completed]
  /\ stage' = "doing" /\ Step
  /\ UNCHANGED <<overwrite, resumable, server, run, pc, dump, completed>>

PersistFails ==
  /\ stage = "writing" /\ pc \in Running
  /\ stage' = "doing" /\ Step
  /\ UNCHANGED <<overwrite, resumable, server, saved, run, pc, dump, completed>>

(***************************************************************************)
(* Failures, and what the user does between runs.                          *)
(***************************************************************************)

\* An error of the server or of the dump's store, or a kill.
Fail ==
  /\ pc \in Running /\ pc' = "failed"
  /\ UNCHANGED <<overwrite, resumable, server, saved, run, stage, dump, completed, position>>

\* "Use a fresh checkpoint path."
DiscardCheckpoint ==
  /\ pc \notin Running /\ saved # NoCheckpoint /\ saved' = NoCheckpoint
  /\ UNCHANGED <<overwrite, resumable, server, run, pc, stage, dump, completed, position>>

Next ==
  \/ \E m \in Dumps : Begin(m)
  \/ Open \/ (\E u \in AllUnits : CreateDatabase(u[1])) \/ LoadCheckpoint
  \/ Skip \/ EndPhase \/ CreateCollection \/ LoadPart \/ CreateIndexes
  \/ DropView \/ CreateView
  \/ Record \/ Truncate \/ Persist \/ PersistFails
  \/ Fail \/ DiscardCheckpoint

Spec == Init /\ [][Next]_vars

(***************************************************************************)
(* Properties                                                              *)
(***************************************************************************)

\* Types.
TypeOK ==
  /\ overwrite \in BOOLEAN /\ resumable \in BOOLEAN
  /\ saved.of \in Dumps \cup {Nothing, Foreign}
  /\ \A u \in AllUnits : colls[u].of \in Dumps \cup {Nothing, Foreign}
  /\ \A v \in AllViews : views[v] \in Dumps \cup {Nothing, Foreign}
  /\ run \in 0..MaxRuns
  /\ pc \in Running \cup {"idle", "done", "failed", "conflict", "premature"}
  /\ stage \in {"doing", "recording", "writing"}
  /\ at \in Nat \ {0} /\ (stage # "doing" /\ pc \in Running => at <= Len(Work(pc)))

UnitComplete(m, u) ==
  colls[u] = [of |-> m, parts |-> PartsOf(m, u), indexed |-> TRUE]

Complete(m, ids) ==
  /\ \A u \in AllUnits : UnitId(u) \in ids => UnitComplete(m, u)
  /\ \A v \in AllViews : ViewId(v) \in ids => views[v] = m

\* What the checkpoint on the store calls complete is on the server with all
\* its data, its indexes or its definition, and stays there through every
\* later run: nothing a resumed run skips is missing or was truncated by it
\* (phase 1, "recreating one here would truncate data").
CheckpointBehindServer == saved.of \in Dumps => Complete(saved.of, saved.ids)

\* A run that returns Ok leaves every collection and view of its dump complete
\* on the server, however many runs, of this dump or another, ended early
\* before it.
RestoreComplete ==
  pc = "done" =>
    Complete(dump, {UnitId(u) : u \in ToSet(Units(dump))}
                     \cup {ViewId(v) : v \in ToSet(ViewsOf(dump))})

\* The order of the phases spares every view the server's refusals (1203 for a
\* missing collection, 400 for a missing index), resumed or not; and with
\* --overwrite no run is refused because of what an earlier one left behind.
NeverRefused == pc # "premature" /\ (overwrite => pc # "conflict")

=============================================================================
