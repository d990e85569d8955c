---------------------------- MODULE RestoreProofs ----------------------------
(***************************************************************************)
(* Proofs about the checkpoint of a restore, for any dumps and artifacts,  *)
(* any views, any store and any number of runs that end anywhere.          *)
(*                                                                         *)
(* The theorems name what they take as given of the dumps.  Distinguished: *)
(* a fingerprint tells dumps apart, as it holds the creation time.         *)
(* Orderly: the lists of units and views, which folds compute and which    *)
(* would need induction, hold each item once.  SelfContained, for the      *)
(* refusals alone: a dump holds the collections of its views, as the dump  *)
(* command sees to.                                                        *)
(***************************************************************************)
EXTENDS Restore, TLAPS

Distinguished ==
  /\ \A m1, m2 \in Dumps : Fingerprint(m1) = Fingerprint(m2) => m1 = m2
  /\ \A m \in Dumps : Len(Units(m)) \in Nat

PhaseNames == {"creating", "viewing", "loading", "aliasing"}

Shape ==
  /\ DOMAIN colls = AllUnits /\ DOMAIN views = AllViews
  /\ at \in Nat \ {0}
  /\ pc \in Running => dump \in Dumps
  /\ pc \in {"opening", "preparing", "creating"} => stage = "doing"
  /\ pc \in {"opening", "preparing"} => at = 1
  /\ stage \in {"doing", "recording", "writing"}
  /\ stage = "writing" => resumable

-----------------------------------------------------------------------------
(* The inductive invariant *)

\* The checkpoint is absent, torn, or one of a dump, and then backed by the
\* server.
SavedBacked ==
  /\ saved.of \in Dumps \/ saved = NoCheckpoint \/ saved = Torn
  /\ ~resumable => saved = NoCheckpoint
  /\ CheckpointBehindServer

\* In the phases the run knows at least what the checkpoint says, and what it
\* knows to be complete is.
RunBacked ==
  resumable /\ pc \in PhaseNames =>
    /\ saved.of \in Dumps => saved.of = dump /\ saved.ids \subseteq completed
    /\ Complete(dump, completed)

Pending(n, u) == u = Units(dump)[n] /\ UnitId(u) \notin completed

\* Units that are not complete have been created empty by the run itself, up
\* to its position in the first phase, and have what it has loaded since.
CreatedAfresh ==
  resumable =>
    /\ pc = "creating" =>
         \A n \in 1..Len(Units(dump)) : n < at =>
           \A u \in AllUnits : Pending(n, u) => colls[u] = Fresh(dump)
    /\ pc = "viewing" =>
         \A n \in 1..Len(Units(dump)) :
           \A u \in AllUnits : Pending(n, u) => colls[u] = Fresh(dump)
    /\ pc = "loading" =>
         \A n \in 1..Len(Units(dump)) : \A u \in AllUnits : Pending(n, u) =>
           IF u = Units(dump)[at]
             THEN stage = "doing" => colls[u] = [of |-> dump, parts |-> part, indexed |-> FALSE]
             ELSE colls[u] = Fresh(dump)

\* What is about to be recorded is complete, what is being written is recorded.
Recordable ==
  resumable /\ pc \in PhaseNames =>
    /\ stage = "recording" =>
         /\ pc = "loading" /\ Item \in AllUnits => UnitComplete(dump, Item)
         /\ pc \in {"viewing", "aliasing"} /\ Item \in AllViews => views[Item] = dump
    /\ stage = "writing" => Id(pc, Item) \in completed

RestoreInv == Shape /\ SavedBacked /\ RunBacked /\ CreatedAfresh /\ Recordable

-----------------------------------------------------------------------------

LEMMA PhaseShape ==
  /\ Running = {"opening", "preparing"} \cup PhaseNames
  /\ Phases[1] = "creating" /\ Phases[2] = "viewing" /\ Phases[3] = "loading"
  /\ Phases[4] = "aliasing" /\ Phases[5] = "done"
<1>1. /\ Phases[1] = "creating" /\ Phases[2] = "viewing" /\ Phases[3] = "loading"
      /\ Phases[4] = "aliasing" /\ Phases[5] = "done"
  BY DEF Phases
<1>2. 1..4 = {1, 2, 3, 4}
  OBVIOUS
<1>3. {Phases[n] : n \in 1..4} = PhaseNames
  BY <1>1, <1>2 DEF PhaseNames
<1> QED
  BY <1>1, <1>3 DEF Running

\* Where a run is when it works on an item.
LEMMA WorkShape ==
  /\ \A phase \in {"creating", "loading"} : Work(phase) = Units(dump)
  /\ \A x : \A phase \in {"creating", "loading"} : Id(phase, x) = UnitId(x)
  /\ \A x : \A phase \in {"viewing", "aliasing"} : Id(phase, x) = ViewId(x)
BY DEF Work, Id

LEMMA IdsDistinct ==
  /\ \A x, y : UnitId(x) = UnitId(y) => x = y
  /\ \A x, y : ViewId(x) = ViewId(y) => x = y
  /\ \A x, y : UnitId(x) # ViewId(y)
BY DEF UnitId, ViewId

\* What the updates of a unit make of it.
LEMMA UnitLoaded ==
  ASSUME NEW unit, NEW m, NEW parts, NEW more, NEW indexed, NEW result,
         unit = [of |-> m, parts |-> parts, indexed |-> indexed],
         result = [unit EXCEPT !.parts = @ \cup more]
  PROVE  result = [of |-> m, parts |-> parts \cup more, indexed |-> indexed]
OBVIOUS

LEMMA UnitIndexed ==
  ASSUME NEW unit, NEW m, NEW parts, NEW before, NEW after, NEW result,
         unit = [of |-> m, parts |-> parts, indexed |-> before],
         result = [unit EXCEPT !.indexed = after]
  PROVE  result = [of |-> m, parts |-> parts, indexed |-> after]
OBVIOUS

\* A run in a phase that still knows what it knew.
LEMMA InPhase ==
  ASSUME SavedBacked, RunBacked, pc \in PhaseNames, resumable => Complete(dump, completed)',
         UNCHANGED <<resumable, saved, dump, completed>>
  PROVE  SavedBacked' /\ RunBacked'
<1>1. CASE resumable
  <2>1. saved.of \in Dumps => saved.of = dump /\ saved.ids \subseteq completed
    BY <1>1 DEF RunBacked
  <2>2. ASSUME saved.of \in Dumps PROVE Complete(dump, saved.ids)'
    BY <1>1, <2>1, <2>2 DEF Complete
  <2>3. CheckpointBehindServer'
    BY <2>1, <2>2 DEF CheckpointBehindServer
  <2> QED
    BY <2>1, <2>3 DEF SavedBacked, RunBacked, NoCheckpoint, Torn
<1>2. CASE ~resumable
  <2>1. saved = NoCheckpoint /\ saved.of = Nothing
    BY <1>2 DEF SavedBacked, NoCheckpoint
  <2> QED
    BY <1>2, <2>1, RestoreAssumption DEF SavedBacked, RunBacked, NoCheckpoint, CheckpointBehindServer
<1> QED
  BY <1>1, <1>2

LEMMA RestoreInitial == Init => RestoreInv
<1> SUFFICES ASSUME Init PROVE RestoreInv
  OBVIOUS
<1>1. /\ saved = NoCheckpoint /\ pc = "idle" /\ stage = "doing" /\ at = 1
      /\ \E owner \in {Nothing, Foreign} :
           colls = [u \in AllUnits |-> Fresh(owner)] /\ views = [v \in AllViews |-> owner]
  BY DEF Init
<1>2. pc \notin Running /\ pc \notin PhaseNames
  BY <1>1, PhaseShape DEF PhaseNames
<1>3. saved.of \notin Dumps
  BY <1>1, RestoreAssumption DEF NoCheckpoint
<1>4. Shape
  BY <1>1, <1>2 DEF Shape
<1>5. SavedBacked
  BY <1>1, <1>3 DEF SavedBacked, CheckpointBehindServer
<1>6. RunBacked /\ CreatedAfresh /\ Recordable
  BY <1>1, <1>2 DEF RunBacked, CreatedAfresh, Recordable, PhaseNames
<1> QED
  BY <1>4, <1>5, <1>6 DEF RestoreInv

\* Before the phases, after them and between runs nothing is claimed anew.
LEMMA OutsidePhases ==
  ASSUME SavedBacked, pc' \notin PhaseNames, Shape',
         UNCHANGED <<resumable, saved, colls, views>>, pc' \in Running => stage' = "doing"
  PROVE  RestoreInv'
<1>1. SavedBacked'
  BY DEF SavedBacked, CheckpointBehindServer, Complete, UnitComplete, NoCheckpoint, Torn
<1>2. RunBacked' /\ CreatedAfresh' /\ Recordable'
  BY DEF RunBacked, CreatedAfresh, Recordable, PhaseNames
<1> QED
  BY <1>1, <1>2 DEF RestoreInv

LEMMA StartPreserved ==
  ASSUME Distinguished, RestoreInv,
         (\E m \in Dumps : Begin(m)) \/ Open \/ (\E u \in AllUnits : CreateDatabase(u[1]))
           \/ LoadCheckpoint \/ Fail \/ DiscardCheckpoint
  PROVE  RestoreInv'
<1> USE PhaseShape DEF server, position
<1>1. ASSUME NEW m \in Dumps, Begin(m) PROVE RestoreInv'
  <2>1. /\ pc' = "opening" /\ dump' = m /\ stage' = "doing" /\ at' = 1
        /\ UNCHANGED <<resumable, saved, colls, views>>
    BY <1>1 DEF Begin
  <2>2. Shape' /\ pc' \notin PhaseNames
    BY <2>1 DEF Shape, RestoreInv, PhaseNames
  <2> QED
    BY <2>1, <2>2, OutsidePhases DEF RestoreInv
<1>2. CASE Open \/ (\E u \in AllUnits : CreateDatabase(u[1]))
  <2>1. /\ pc \in {"opening", "preparing"} /\ pc' \in {"preparing", "failed"}
        /\ UNCHANGED <<resumable, saved, colls, views, dump, stage, at>>
    BY <1>2 DEF Open, CreateDatabase
  <2>2. Shape' /\ pc' \notin PhaseNames /\ stage' = "doing"
    BY <2>1 DEF Shape, RestoreInv, PhaseNames
  <2> QED
    BY <2>1, <2>2, OutsidePhases DEF RestoreInv
<1>3. CASE LoadCheckpoint
  <2>1. /\ pc = "preparing" /\ UNCHANGED <<resumable, saved, colls, views, dump, stage, at>>
        /\ \/ pc' = "failed"
           \/ /\ pc' = "creating"
              /\ resumable => saved # Torn /\ Matches
              /\ completed' = IF resumable THEN saved.ids ELSE {}
    BY <1>3 DEF LoadCheckpoint
  <2>2. dump \in Dumps /\ stage = "doing" /\ at \in Nat \ {0}
    BY <2>1 DEF RestoreInv, Shape
  <2>3. CASE pc' = "failed"
    <3>1. Shape' /\ pc' \notin PhaseNames /\ pc' \notin Running
      BY <2>1, <2>2, <2>3 DEF Shape, RestoreInv, PhaseNames
    <3> QED
      BY <2>1, <3>1, OutsidePhases DEF RestoreInv
  <2>4. CASE pc' # "failed"
    <3>1. Shape'
      BY <2>1, <2>2 DEF Shape, RestoreInv
    <3>2. SavedBacked'
      BY <2>1 DEF RestoreInv, SavedBacked, CheckpointBehindServer, Complete, UnitComplete,
                  NoCheckpoint, Torn
    <3>3. ASSUME resumable
          PROVE  /\ saved.of \in Dumps => saved.of = dump /\ saved.ids \subseteq completed'
                 /\ Complete(dump, completed')
      <4>1. completed' = saved.ids /\ saved # Torn /\ Matches
        BY <2>1, <2>4, <3>3
      <4>2. CASE saved.of \in Dumps
        <5>1. saved.of = dump
          BY <2>2, <4>1, <4>2 DEF Matches, Distinguished
        <5>2. Complete(dump, saved.ids)
          BY <4>2, <5>1 DEF RestoreInv, SavedBacked, CheckpointBehindServer
        <5> QED
          BY <4>1, <5>1, <5>2
      <4>3. CASE saved.of \notin Dumps
        <5>1. saved.ids = {}
          BY <4>1, <4>3 DEF RestoreInv, SavedBacked, NoCheckpoint
        <5> QED
          BY <4>1, <4>3, <5>1 DEF Complete
      <4> QED
        BY <4>2, <4>3
    <3>4. RunBacked'
      BY <2>1, <3>3 DEF RunBacked, Complete, UnitComplete
    <3>5. pc' = "creating" /\ stage' = "doing"
      BY <2>1, <2>2, <2>4
    <3>6. CreatedAfresh'
      <4>1. at' = 1
        BY <2>1 DEF RestoreInv, Shape
      <4> QED
        BY <3>5, <4>1 DEF CreatedAfresh
    <3>7. Recordable'
      BY <3>5 DEF Recordable
    <3> QED
      BY <3>1, <3>2, <3>4, <3>6, <3>7 DEF RestoreInv
  <2> QED
    BY <2>3, <2>4
<1>4. CASE Fail
  <2>1. pc' = "failed" /\ UNCHANGED <<resumable, saved, colls, views, dump, stage, at>>
    BY <1>4 DEF Fail
  <2>2. Shape' /\ pc' \notin PhaseNames /\ pc' \notin Running
    BY <2>1 DEF Shape, RestoreInv, PhaseNames
  <2> QED
    BY <2>1, <2>2, OutsidePhases DEF RestoreInv
<1>5. CASE DiscardCheckpoint
  <2>1. /\ pc \notin Running /\ saved' = NoCheckpoint
        /\ UNCHANGED <<resumable, pc, colls, views, dump, stage, at>>
    BY <1>5 DEF DiscardCheckpoint
  <2>2. Shape' /\ pc' \notin PhaseNames
    BY <2>1 DEF Shape, RestoreInv, PhaseNames
  <2>3. SavedBacked'
    <3>1. saved'.of \notin Dumps
      BY <2>1, RestoreAssumption DEF NoCheckpoint
    <3> QED
      BY <2>1, <3>1 DEF SavedBacked, CheckpointBehindServer, NoCheckpoint
  <2>4. RunBacked' /\ CreatedAfresh' /\ Recordable'
    BY <2>1, <2>2 DEF RunBacked, CreatedAfresh, Recordable, PhaseNames
  <2> QED
    BY <2>2, <2>3, <2>4 DEF RestoreInv
<1> QED
  BY <1>1, <1>2, <1>3, <1>4, <1>5

\* Where a step of a phase is: it has an item, which is not complete.
LEMMA AtWork ==
  ASSUME RestoreInv, Distinguished, NEW phase \in PhaseNames, Turn(phase)
  PROVE  /\ pc = phase /\ stage = "doing" /\ dump \in Dumps
         /\ resumable => Id(phase, Item) \notin completed
         /\ phase \in {"creating", "loading"} =>
              /\ Item = Units(dump)[at] /\ at \in 1..Len(Units(dump))
              /\ resumable => UnitId(Item) \notin completed
         /\ phase \in {"viewing", "aliasing"} /\ resumable => ViewId(Item) \notin completed
<1>1. /\ pc = phase /\ stage = "doing" /\ at <= Len(Work(phase))
      /\ resumable => Id(phase, Item) \notin completed
  BY DEF Turn, Doing, Done
<1>2. dump \in Dumps /\ at \in Nat \ {0} /\ Len(Units(dump)) \in Nat
  BY <1>1, PhaseShape DEF RestoreInv, Shape, Distinguished
<1>3. ASSUME phase \in {"creating", "loading"}
      PROVE  Item = Units(dump)[at] /\ at \in 1..Len(Units(dump)) /\ Id(phase, Item) = UnitId(Item)
  <2>1. Work(phase) = Units(dump) /\ Id(phase, Item) = UnitId(Item)
    BY <1>3, WorkShape
  <2> QED
    BY <1>1, <1>2, <2>1 DEF Item
<1>4. phase \in {"viewing", "aliasing"} => Id(phase, Item) = ViewId(Item)
  BY WorkShape
<1> QED
  BY <1>1, <1>2, <1>3, <1>4

LEMMA CreatePreserved ==
  ASSUME Distinguished, RestoreInv, CreateCollection PROVE RestoreInv'
<1> USE PhaseShape DEF server, position, RestoreInv
<1>1. /\ pc = "creating" /\ stage = "doing" /\ dump \in Dumps
      /\ Item = Units(dump)[at] /\ at \in 1..Len(Units(dump))
      /\ resumable => UnitId(Item) \notin completed
  BY AtWork DEF CreateCollection, PhaseNames
<1>2. UNCHANGED <<resumable, views, saved, stage, dump, completed>>
  BY DEF CreateCollection
<1>3. CASE Recreatable(Item)
  <2>1. Recreate(Item) /\ at' = at + 1 /\ pc' = pc
    BY <1>3 DEF CreateCollection, Step
  <2>2. /\ DOMAIN colls' = DOMAIN colls
        /\ \A u \in AllUnits : u # Item => colls'[u] = colls[u]
        /\ Item \in AllUnits => colls'[Item] = Fresh(dump)
    BY <2>1 DEF Recreate, Shape
  <2>3. Shape'
    BY <1>1, <1>2, <2>1, <2>2 DEF Shape
  <2>4. resumable => Complete(dump, completed)'
    <3>1. resumable => Complete(dump, completed)
      BY <1>1 DEF RunBacked, PhaseNames
    <3> HIDE DEF RestoreInv
    <3>2. ASSUME resumable PROVE Complete(dump, completed)'
      <4>1. ASSUME NEW u \in AllUnits, UnitId(u) \in completed PROVE colls'[u] = colls[u]
        BY <1>1, <2>2, <3>2, <4>1, IdsDistinct
      <4> QED
        BY <1>2, <3>1, <3>2, <4>1 DEF Complete, UnitComplete
    <3> QED
      BY <3>2
  <2>5. SavedBacked' /\ RunBacked'
    BY <1>1, <1>2, <2>1, <2>4, InPhase DEF PhaseNames
  <2>6. CreatedAfresh'
    <3> SUFFICES ASSUME resumable, NEW n \in 1..Len(Units(dump)), n < at + 1,
                        NEW u \in AllUnits, Pending(n, u)
                 PROVE  colls'[u] = Fresh(dump)
      BY <1>1, <1>2, <2>1 DEF CreatedAfresh, Pending, Fresh
    <3>1. CASE u = Item
      BY <2>2, <3>1
    <3>2. CASE u # Item
      <4>1. n < at
        <5>1. n # at
          BY <1>1, <3>2 DEF Pending
        <5>2. n \in Int /\ at \in Int
          BY DEF Shape
        <5> QED
          BY <5>1, <5>2
      <4> QED
        BY <1>1, <2>2, <3>2, <4>1 DEF CreatedAfresh
    <3> QED
      BY <3>1, <3>2
  <2>7. Recordable'
    BY <1>1, <1>2 DEF Recordable
  <2> QED
    BY <2>3, <2>5, <2>6, <2>7
<1>4. CASE ~Recreatable(Item)
  <2>1. pc' = "conflict" /\ UNCHANGED <<colls, at>>
    BY <1>4 DEF CreateCollection
  <2>2. Shape' /\ pc' \notin PhaseNames /\ pc' \notin Running
    BY <1>1, <1>2, <2>1 DEF Shape, PhaseNames
  <2> QED
    BY <1>2, <2>1, <2>2, OutsidePhases
<1> QED
  BY <1>3, <1>4

LEMMA LoadPreserved ==
  ASSUME Distinguished, RestoreInv, LoadPart \/ CreateIndexes PROVE RestoreInv'
<1> USE PhaseShape DEF server, position, RestoreInv
<1>1. /\ pc = "loading" /\ stage = "doing" /\ dump \in Dumps
      /\ Item = Units(dump)[at] /\ at \in 1..Len(Units(dump))
      /\ resumable => UnitId(Item) \notin completed
  BY AtWork DEF LoadPart, CreateIndexes, PhaseNames
<1>2. UNCHANGED <<resumable, views, saved, pc, at, dump, completed>>
  BY DEF LoadPart, CreateIndexes
\* The item has what this run has loaded.
<1>3. resumable /\ Item \in AllUnits =>
        colls[Item] = [of |-> dump, parts |-> part, indexed |-> FALSE]
  BY <1>1 DEF CreatedAfresh, Pending
<1>4. /\ DOMAIN colls' = DOMAIN colls
      /\ \A u \in AllUnits : u # Item => colls'[u] = colls[u]
  BY DEF LoadPart, CreateIndexes, Insert, BuildIndexes, Shape
<1>5. /\ LoadPart => stage' = stage
      /\ CreateIndexes => stage' = "recording" /\ part' = part /\ part = PartsOf(dump, Item)
  BY DEF LoadPart, CreateIndexes
<1>6. Shape'
  BY <1>1, <1>2, <1>4, <1>5 DEF Shape
<1>7. resumable => Complete(dump, completed)'
  <2>1. resumable => Complete(dump, completed)
    BY <1>1 DEF RunBacked, PhaseNames
  <2> HIDE DEF RestoreInv
  <2>2. ASSUME resumable PROVE Complete(dump, completed)'
    <3>1. ASSUME NEW u \in AllUnits, UnitId(u) \in completed PROVE colls'[u] = colls[u]
      BY <1>1, <1>4, <2>2, <3>1
    <3> QED
      BY <1>2, <2>1, <2>2, <3>1 DEF Complete, UnitComplete
  <2> QED
    BY <2>2
<1>8. SavedBacked' /\ RunBacked'
  BY <1>1, <1>2, <1>7, InPhase DEF PhaseNames
<1>9. CASE LoadPart
  <2>1. resumable /\ Item \in AllUnits =>
          colls'[Item] = [of |-> dump, parts |-> part', indexed |-> FALSE]
    <3> SUFFICES ASSUME resumable, Item \in AllUnits
                 PROVE  colls'[Item] = [of |-> dump, parts |-> part', indexed |-> FALSE]
      OBVIOUS
    <3>1. PICK next : /\ colls' = [colls EXCEPT ![Item].parts = @ \cup {next}]
                      /\ part' = part \cup {next}
      BY <1>9 DEF LoadPart, Insert
    <3>2. colls'[Item] = [colls[Item] EXCEPT !.parts = @ \cup {next}]
      BY <3>1 DEF Shape
    <3>3. colls[Item] = [of |-> dump, parts |-> part, indexed |-> FALSE]
      BY <1>3
    <3> HIDE DEF RestoreInv
    <3>4. colls'[Item] = [of |-> dump, parts |-> part \cup {next}, indexed |-> FALSE]
      <4> SUFFICES ASSUME NEW unit, unit = colls[Item], NEW result, result = colls'[Item]
                   PROVE  result = [of |-> dump, parts |-> part \cup {next}, indexed |-> FALSE]
        OBVIOUS
      <4>1. unit = [of |-> dump, parts |-> part, indexed |-> FALSE]
        BY <3>3
      <4>2. result = [unit EXCEPT !.parts = @ \cup {next}]
        BY <3>2
      <4> QED
        BY ONLY <4>1, <4>2, UnitLoaded
    <3> QED
      BY <3>1, <3>4
  <2>2. CreatedAfresh'
    BY <1>1, <1>2, <1>4, <2>1 DEF CreatedAfresh, Pending, Fresh
  <2>3. Recordable'
    BY <1>1, <1>5, <1>9 DEF Recordable
  <2> QED
    BY <1>6, <1>8, <2>2, <2>3
<1>10. CASE CreateIndexes
  <2>1. stage' = "recording" /\ part = PartsOf(dump, Item)
    BY <1>5, <1>10
  <2>2. Item' = Item
    BY <1>2 DEF Item, Work
  <2>3. resumable /\ Item \in AllUnits => UnitComplete(dump, Item)'
    <3> SUFFICES ASSUME resumable, Item \in AllUnits
                 PROVE  colls'[Item] = [of |-> dump, parts |-> PartsOf(dump, Item), indexed |-> TRUE]
      BY <1>2, <2>2 DEF UnitComplete
    <3>1. colls'[Item] = [colls[Item] EXCEPT !.indexed = TRUE]
      BY <1>10 DEF CreateIndexes, BuildIndexes, Shape
    <3> HIDE DEF RestoreInv
    <3>2. colls[Item] = [of |-> dump, parts |-> PartsOf(dump, Item), indexed |-> FALSE]
      BY <1>3, <2>1
    <3> SUFFICES ASSUME NEW unit, unit = colls[Item], NEW result, result = colls'[Item]
                 PROVE  result = [of |-> dump, parts |-> PartsOf(dump, Item), indexed |-> TRUE]
      OBVIOUS
    <3>3. unit = [of |-> dump, parts |-> PartsOf(dump, Item), indexed |-> FALSE]
      BY <3>2
    <3>4. result = [unit EXCEPT !.indexed = TRUE]
      BY <3>1
    <3> QED
      BY ONLY <3>3, <3>4, UnitIndexed
  <2>4. CreatedAfresh'
    BY <1>1, <1>2, <1>4, <2>1 DEF CreatedAfresh, Pending, Fresh
  <2>5. Recordable'
    BY <1>1, <1>2, <2>1, <2>2, <2>3 DEF Recordable, UnitComplete
  <2> QED
    BY <1>6, <1>8, <2>4, <2>5
<1> QED
  BY <1>9, <1>10

\* Leaving an item that is complete.
LEMMA MoveOn ==
  ASSUME Distinguished, RestoreInv, pc \in PhaseNames, stage' = "doing", Step,
         resumable => Id(pc, Item) \in completed,
         UNCHANGED <<resumable, colls, views, dump, pc, completed>>
  PROVE  Shape' /\ CreatedAfresh' /\ Recordable'
<1>1. at \in Nat \ {0} /\ at' = at + 1 /\ part' = {}
  BY DEF RestoreInv, Shape, Step
<1>2. Shape'
  BY <1>1 DEF RestoreInv, Shape, PhaseNames
<1>3. ASSUME resumable, pc \in {"creating", "loading"} PROVE UnitId(Units(dump)[at]) \in completed
  BY <1>3, WorkShape DEF Item
<1>4. ASSUME resumable, pc = "creating", NEW n \in 1..Len(Units(dump)), n < at + 1,
             NEW u \in AllUnits, Pending(n, u)
      PROVE  colls[u] = Fresh(dump)
  <2>1. n # at
    BY <1>3, <1>4 DEF Pending
  <2>2. n < at
    <3>1. n \in Int
      OBVIOUS
    <3> QED
      BY <1>1, <1>4, <2>1, <3>1
  <2> QED
    BY <1>4, <2>2 DEF RestoreInv, CreatedAfresh
<1>5. ASSUME resumable, pc = "loading", NEW n \in 1..Len(Units(dump)),
             NEW u \in AllUnits, Pending(n, u)
      PROVE  colls[u] = Fresh(dump)
  <2>1. u # Units(dump)[at]
    BY <1>3, <1>5 DEF Pending
  <2> QED
    BY <1>5, <2>1 DEF RestoreInv, CreatedAfresh
<1>6. CreatedAfresh'
  <2>1. resumable /\ pc = "creating" =>
          \A n \in 1..Len(Units(dump)) : n < at + 1 =>
            \A u \in AllUnits : Pending(n, u) => colls[u] = Fresh(dump)
    BY <1>4
  <2>2. resumable /\ pc = "viewing" =>
          \A n \in 1..Len(Units(dump)) :
            \A u \in AllUnits : Pending(n, u) => colls[u] = Fresh(dump)
    BY DEF RestoreInv, CreatedAfresh
  <2>3. resumable /\ pc = "loading" =>
          \A n \in 1..Len(Units(dump)) :
            \A u \in AllUnits : Pending(n, u) => colls[u] = Fresh(dump)
    BY <1>5
  <2> HIDE DEF RestoreInv
  <2> QED
    BY <1>1, <2>1, <2>2, <2>3 DEF CreatedAfresh, Pending, Fresh
<1>7. Recordable'
  BY DEF Recordable
<1> QED
  BY <1>2, <1>6, <1>7

LEMMA MovePreserved ==
  ASSUME Distinguished, RestoreInv, Skip \/ EndPhase PROVE RestoreInv'
<1> USE PhaseShape DEF server, position
<1>1. CASE Skip
  <2>1. /\ pc \in PhaseNames /\ stage = "doing" /\ resumable /\ Id(pc, Item) \in completed
        /\ Step /\ UNCHANGED <<resumable, colls, views, saved, pc, stage, dump, completed>>
    <3>1. PICK n \in 1..4 : pc = Phases[n] /\ stage = "doing"
      BY <1>1 DEF Skip, Doing
    <3>2. n = 1 \/ n = 2 \/ n = 3 \/ n = 4
      OBVIOUS
    <3>3. pc \in PhaseNames
      BY <3>1, <3>2 DEF PhaseNames
    <3> QED
      BY <1>1, <3>1, <3>3 DEF Skip, Done
  <2>2. Shape' /\ CreatedAfresh' /\ Recordable'
    BY <2>1, MoveOn
  <2>3. resumable => Complete(dump, completed)'
    BY <2>1 DEF RestoreInv, RunBacked, Complete, UnitComplete
  <2>4. SavedBacked' /\ RunBacked'
    BY <2>1, <2>3, InPhase DEF RestoreInv
  <2> QED
    BY <2>2, <2>4 DEF RestoreInv
<1>2. CASE EndPhase
  <2>1. /\ stage = "doing" /\ at > Len(Work(pc)) /\ at' = 1 /\ part' = {}
        /\ UNCHANGED <<resumable, colls, views, saved, stage, dump, completed>>
    BY <1>2 DEF EndPhase
  <2>2. \/ pc = "creating" /\ pc' = "viewing"
        \/ pc = "viewing" /\ pc' = "loading"
        \/ pc = "loading" /\ pc' = "aliasing"
        \/ pc = "aliasing" /\ pc' = "done"
    <3>1. PICK n \in 1..4 : pc = Phases[n] /\ pc' = Phases[n + 1]
      BY <1>2 DEF EndPhase
    <3>2. n = 1 \/ n = 2 \/ n = 3 \/ n = 4
      OBVIOUS
    <3> QED
      BY <3>1, <3>2
  <2>3. pc \in PhaseNames /\ pc \in Running /\ dump \in Dumps /\ at \in Nat \ {0}
    BY <2>2 DEF PhaseNames, RestoreInv, Shape
  <2>4. Shape'
    BY <2>1, <2>2, <2>3 DEF RestoreInv, Shape
  <2>5. CASE pc' = "done"
    <3>1. pc' \notin PhaseNames
      BY <2>5 DEF PhaseNames
    <3> QED
      BY <2>1, <2>4, <3>1, OutsidePhases DEF RestoreInv
  <2>6. CASE pc' # "done"
    <3>1. pc' \in PhaseNames
      BY <2>2, <2>6 DEF PhaseNames
    <3>2. resumable => Complete(dump, completed)'
      BY <2>1, <2>3 DEF RestoreInv, RunBacked, Complete, UnitComplete
    <3>3. SavedBacked' /\ RunBacked'
      BY <2>1, <2>3, <3>2, InPhase DEF RestoreInv
    <3>4. Recordable'
      BY <2>1 DEF Recordable
    <3>5. ASSUME resumable, pc' \in {"viewing", "loading"}, NEW n \in 1..Len(Units(dump)),
                 NEW u \in AllUnits, Pending(n, u)
          PROVE  colls[u] = Fresh(dump)
      <4>1. CASE pc = "creating"
        <5>1. n < at
          <6>1. at > Len(Units(dump))
            BY <2>1, <4>1, WorkShape
          <6>2. Len(Units(dump)) \in Nat /\ n \in Int
            BY <2>3 DEF Distinguished
          <6> QED
            BY <2>3, <6>1, <6>2
        <5> QED
          BY <3>5, <4>1, <5>1 DEF RestoreInv, CreatedAfresh
      <4>2. CASE pc = "viewing"
        BY <3>5, <4>2 DEF RestoreInv, CreatedAfresh
      <4> QED
        BY <2>2, <3>5, <4>1, <4>2
    <3>6. CreatedAfresh'
      <4>1. resumable /\ pc' \in {"viewing", "loading"} =>
              \A n \in 1..Len(Units(dump)) : \A u \in AllUnits :
                Pending(n, u) => colls[u] = Fresh(dump)
        BY <3>5
      <4>2. pc' # "creating"
        BY <2>2
      <4> QED
        BY <2>1, <4>1, <4>2 DEF CreatedAfresh, Pending, Fresh
    <3> QED
      BY <2>4, <3>3, <3>4, <3>6 DEF RestoreInv
  <2> QED
    BY <2>5, <2>6
<1> QED
  BY <1>1, <1>2

LEMMA ViewPreserved ==
  ASSUME Distinguished, RestoreInv, DropView \/ CreateView PROVE RestoreInv'
<1> USE PhaseShape DEF server, position
<1>1. /\ pc \in {"viewing", "aliasing"} /\ stage = "doing" /\ dump \in Dumps
      /\ resumable => ViewId(Item) \notin completed
  BY AtWork DEF DropView, CreateView, ViewTurn, PhaseNames
<1>2. /\ UNCHANGED <<resumable, colls, saved, at, dump, completed>>
      /\ DOMAIN views' = DOMAIN views
      /\ \A v \in AllViews : v # Item => views'[v] = views[v]
  BY DEF DropView, CreateView, RemoveView, AddView, RestoreInv, Shape
<1>3. \/ pc' = pc /\ stage' = "doing"
      \/ /\ pc' = pc /\ stage' = "recording"
         /\ Item \in AllViews => views'[Item] = dump
      \/ pc' \in {"conflict", "premature"} /\ stage' = "doing" /\ views' = views
  BY <1>1 DEF DropView, CreateView, AddView, RestoreInv, Shape
<1>4. Shape'
  BY <1>1, <1>2, <1>3 DEF RestoreInv, Shape, PhaseNames
<1>5. CASE pc' = pc
  <2>1. pc \in PhaseNames
    BY <1>1 DEF PhaseNames
  <2>2. ASSUME resumable PROVE Complete(dump, completed)'
    <3>1. Complete(dump, completed) /\ ViewId(Item) \notin completed
      BY <1>1, <2>1, <2>2 DEF RestoreInv, RunBacked
    <3>2. \A v \in AllViews : ViewId(v) \in completed => views'[v] = dump
      BY <1>2, <3>1 DEF Complete
    <3>3. \A u \in AllUnits : UnitId(u) \in completed => UnitComplete(dump, u)'
      BY <1>2, <3>1 DEF Complete, UnitComplete
    <3> QED
      BY <1>2, <3>2, <3>3 DEF Complete, UnitComplete
  <2>3. SavedBacked' /\ RunBacked'
    BY <1>2, <1>5, <2>1, <2>2, InPhase DEF RestoreInv
  <2>4. CreatedAfresh'
    BY <1>1, <1>2, <1>5 DEF RestoreInv, CreatedAfresh, Pending, Fresh
  <2>5. Item' = Item
    BY <1>2, <1>5 DEF Item, Work
  <2>6. Recordable'
    BY <1>1, <1>2, <1>3, <1>5, <2>5 DEF Recordable
  <2> QED
    BY <1>4, <2>3, <2>4, <2>6 DEF RestoreInv
<1>6. CASE pc' # pc
  <2>1. pc' \notin PhaseNames /\ pc' \notin Running /\ views' = views
    BY <1>3, <1>6 DEF PhaseNames
  <2> QED
    BY <1>2, <1>4, <2>1, OutsidePhases DEF RestoreInv
<1> QED
  BY <1>5, <1>6

LEMMA RecordPreserved ==
  ASSUME Distinguished, RestoreInv, Record PROVE RestoreInv'
<1> USE PhaseShape DEF server, position
<1>1. /\ stage = "recording" /\ pc \in {"viewing", "loading", "aliasing"} /\ dump \in Dumps
      /\ UNCHANGED <<resumable, colls, views, saved, pc, dump>>
  BY DEF Record, RestoreInv, Shape, PhaseNames
<1>2. pc \in PhaseNames
  BY <1>1 DEF PhaseNames
<1>3. CASE resumable
  <2>1. /\ completed' = completed \cup {Id(pc, Item)} /\ stage' = "writing"
        /\ UNCHANGED <<at, part>>
    BY <1>3 DEF Record
  <2>2. Shape'
    BY <1>1, <1>3, <2>1 DEF RestoreInv, Shape
  <2>3. /\ Complete(dump, completed)
        /\ saved.of \in Dumps => saved.of = dump /\ saved.ids \subseteq completed
    BY <1>2, <1>3 DEF RestoreInv, RunBacked
  <2>4. ASSUME NEW u \in AllUnits, UnitId(u) \in completed' PROVE UnitComplete(dump, u)
    <3>1. CASE UnitId(u) \in completed
      BY <2>3, <3>1 DEF Complete
    <3>2. CASE UnitId(u) = Id(pc, Item)
      <4>1. pc = "loading" /\ Item = u
        BY <1>1, <3>2, WorkShape, IdsDistinct
      <4> QED
        BY <1>1, <1>2, <1>3, <4>1 DEF RestoreInv, Recordable
    <3> QED
      BY <2>1, <2>4, <3>1, <3>2
  <2>5. ASSUME NEW v \in AllViews, ViewId(v) \in completed' PROVE views[v] = dump
    <3>1. CASE ViewId(v) \in completed
      BY <2>3, <3>1 DEF Complete
    <3>2. CASE ViewId(v) = Id(pc, Item)
      <4>1. pc \in {"viewing", "aliasing"} /\ Item = v
        BY <1>1, <3>2, WorkShape, IdsDistinct
      <4> QED
        BY <1>1, <1>2, <1>3, <4>1 DEF RestoreInv, Recordable
    <3> QED
      BY <2>1, <2>5, <3>1, <3>2
  <2>6. Complete(dump, completed)'
    BY <1>1, <2>4, <2>5 DEF Complete, UnitComplete
  <2>7. RunBacked'
    BY <1>1, <2>1, <2>3, <2>6 DEF RunBacked
  <2>8. SavedBacked'
    BY <1>1 DEF RestoreInv, SavedBacked, CheckpointBehindServer, Complete, UnitComplete,
                NoCheckpoint, Torn
  <2>9. CreatedAfresh'
    <3>1. pc \notin {"creating"} /\ stage' # "doing"
      BY <1>1, <2>1
    <3>2. ASSUME pc = "viewing", NEW n \in 1..Len(Units(dump)), NEW u \in AllUnits,
                 u = Units(dump)[n], UnitId(u) \notin completed'
          PROVE  colls[u] = Fresh(dump)
      BY <1>3, <2>1, <3>2 DEF RestoreInv, CreatedAfresh, Pending
    <3>3. ASSUME pc = "loading", NEW n \in 1..Len(Units(dump)), NEW u \in AllUnits,
                 u = Units(dump)[n], UnitId(u) \notin completed', u # Units(dump)[at]
          PROVE  colls[u] = Fresh(dump)
      BY <1>3, <2>1, <3>3 DEF RestoreInv, CreatedAfresh, Pending
    <3> QED
      BY <1>1, <2>1, <3>1, <3>2, <3>3 DEF CreatedAfresh, Pending, Fresh
  <2>10. Recordable'
    <3>1. Item' = Item
      BY <1>1, <2>1 DEF Item, Work
    <3> QED
      BY <1>1, <2>1, <3>1 DEF Recordable, Id
  <2> QED
    BY <2>2, <2>7, <2>8, <2>9, <2>10 DEF RestoreInv
<1>4. CASE ~resumable
  <2>1. completed' = completed /\ stage' = "doing" /\ Step
    BY <1>4 DEF Record
  <2>2. Shape' /\ CreatedAfresh' /\ Recordable'
    BY <1>1, <1>2, <1>4, <2>1, MoveOn
  <2>3. SavedBacked' /\ RunBacked'
    BY <1>1, <1>2, <1>4, <2>1, InPhase DEF RestoreInv
  <2> QED
    BY <2>2, <2>3 DEF RestoreInv
<1> QED
  BY <1>3, <1>4

LEMMA WritePreserved ==
  ASSUME Distinguished, RestoreInv, Truncate \/ Persist \/ PersistFails PROVE RestoreInv'
<1> USE PhaseShape DEF server, position
<1>1. /\ stage = "writing" /\ pc \in PhaseNames /\ dump \in Dumps /\ resumable
      /\ UNCHANGED <<resumable, colls, views, pc, dump, completed>>
  BY DEF Truncate, Persist, PersistFails, RestoreInv, Shape, PhaseNames
<1>2. Id(pc, Item) \in completed
  BY <1>1 DEF RestoreInv, Recordable
<1>3. /\ Complete(dump, completed)
      /\ saved.of \in Dumps => saved.of = dump /\ saved.ids \subseteq completed
  BY <1>1 DEF RestoreInv, RunBacked
<1>4. Complete(dump, completed)'
  BY <1>1, <1>3 DEF Complete, UnitComplete
<1>5. CASE Truncate
  <2>1. saved' = Torn /\ UNCHANGED <<stage, at, part>>
    BY <1>5 DEF Truncate
  <2>2. saved'.of \notin Dumps
    BY <2>1, RestoreAssumption DEF Torn
  <2>3. SavedBacked' /\ RunBacked'
    BY <1>1, <1>4, <2>1, <2>2 DEF SavedBacked, RunBacked, CheckpointBehindServer, Torn
  <2>4. Shape'
    BY <1>1, <2>1 DEF RestoreInv, Shape
  <2>5. CreatedAfresh'
    BY <1>1, <2>1 DEF RestoreInv, CreatedAfresh, Pending, Fresh
  <2>6. Recordable'
    <3>1. Item' = Item
      BY <1>1, <2>1 DEF Item, Work
    <3> QED
      BY <1>1, <1>2, <2>1, <3>1 DEF Recordable, Id
  <2> QED
    BY <2>3, <2>4, <2>5, <2>6 DEF RestoreInv
<1>6. CASE Persist \/ PersistFails
  <2>1. stage' = "doing" /\ Step
    BY <1>6 DEF Persist, PersistFails
  <2>2. Shape' /\ CreatedAfresh' /\ Recordable'
    BY <1>1, <1>2, <2>1, MoveOn
  <2>3. CASE Persist
    <3>1. saved' = [of |-> dump, ids |-> completed]
      BY <2>3 DEF Persist
    <3>2. CheckpointBehindServer'
      BY <1>1, <1>4, <3>1 DEF CheckpointBehindServer, Complete, UnitComplete
    <3>3. SavedBacked' /\ RunBacked'
      BY <1>1, <1>4, <3>1, <3>2 DEF SavedBacked, RunBacked
    <3> QED
      BY <2>2, <3>3 DEF RestoreInv
  <2>4. CASE PersistFails
    <3>1. UNCHANGED saved
      BY <2>4 DEF PersistFails
    <3>2. SavedBacked' /\ RunBacked'
      BY <1>1, <1>4, <3>1, InPhase DEF RestoreInv
    <3> QED
      BY <2>2, <3>2 DEF RestoreInv
  <2> QED
    BY <1>6, <2>3, <2>4
<1> QED
  BY <1>5, <1>6

-----------------------------------------------------------------------------

LEMMA RestorePreserved ==
  ASSUME Distinguished, RestoreInv, [Next]_vars PROVE RestoreInv'
<1>1. CASE Next
  BY <1>1, StartPreserved, MovePreserved, CreatePreserved, LoadPreserved, ViewPreserved,
     RecordPreserved, WritePreserved DEF Next
<1>2. CASE UNCHANGED vars
  <2>1. UNCHANGED <<resumable, colls, views, saved, pc, stage, dump, completed, at, part>>
    BY <1>2 DEF vars, server, position
  <2>2. Shape'
    BY <2>1 DEF RestoreInv, Shape
  <2>3. SavedBacked'
    BY <2>1 DEF RestoreInv, SavedBacked, CheckpointBehindServer, Complete, UnitComplete,
                NoCheckpoint, Torn
  <2>4. RunBacked'
    BY <2>1 DEF RestoreInv, RunBacked, Complete, UnitComplete
  <2>5. CreatedAfresh'
    BY <2>1 DEF RestoreInv, CreatedAfresh, Pending, Fresh
  <2>6. Item' = Item
    BY <2>1 DEF Item, Work
  <2>7. Recordable'
    BY <2>1, <2>6 DEF RestoreInv, Recordable, UnitComplete, Id
  <2> QED
    BY <2>2, <2>3, <2>4, <2>5, <2>7 DEF RestoreInv
<1> QED
  BY <1>1, <1>2

\* What the checkpoint object calls complete is complete on the server and
\* stays so, for any dumps a fingerprint tells apart, any artifacts in any
\* order, with and without --overwrite, a store that tears its writes or not,
\* and runs that fail or are killed between any two requests
\* (crates/arangodb-restore/src/lib.rs, execute_restore and record).
THEOREM CheckpointBehindServerCorrect ==
  ASSUME Distinguished PROVE Spec => []CheckpointBehindServer
<1>1. Init => RestoreInv
  BY RestoreInitial
<1>2. RestoreInv /\ [Next]_vars => RestoreInv'
  BY RestorePreserved
<1>3. RestoreInv => CheckpointBehindServer
  BY DEF RestoreInv, SavedBacked
<1> QED
  BY <1>1, <1>2, <1>3, PTL DEF Spec

-----------------------------------------------------------------------------
(* A run that returns Ok *)

\* The lists a run walks through hold each unit and each view once, and all of
\* the dump's views.
Orderly ==
  \A m \in Dumps :
    /\ Units(m) \in Seq(AllUnits) /\ PlainViews(m) \in Seq(AllViews) /\ LateViews(m) \in Seq(AllViews)
    /\ \A i, j \in 1..Len(Units(m)) : Units(m)[i] = Units(m)[j] => i = j
    /\ \A i, j \in 1..Len(PlainViews(m)) : PlainViews(m)[i] = PlainViews(m)[j] => i = j
    /\ \A i, j \in 1..Len(LateViews(m)) : LateViews(m)[i] = LateViews(m)[j] => i = j
    /\ \A i \in 1..Len(PlainViews(m)) : ~IsAlias(PlainViews(m)[i])
    /\ \A i \in 1..Len(LateViews(m)) : IsAlias(LateViews(m)[i])
    /\ ToSet(ViewsOf(m)) = ToSet(PlainViews(m)) \cup ToSet(LateViews(m))

Positions == 1..Len(Units(dump))
PlainPositions == 1..Len(PlainViews(dump))
LatePositions == 1..Len(LateViews(dump))

\* A unit the run has to load is as it was created; one it has loaded is complete.
Untouched(n) == ~Done(UnitId(Units(dump)[n])) => colls[Units(dump)[n]] = Fresh(dump)
Partial(n) ==
  ~Done(UnitId(Units(dump)[n])) =>
    colls[Units(dump)[n]] = [of |-> dump, parts |-> part, indexed |-> FALSE]
Finished(n) == UnitComplete(dump, Units(dump)[n])

UnitsWalked ==
  /\ pc = "creating" => \A n \in Positions : n < at => Untouched(n)
  /\ pc = "viewing" => \A n \in Positions : Untouched(n)
  /\ pc = "loading" => \A n \in Positions :
       /\ n < at => Finished(n)
       /\ n = at /\ stage = "doing" => Partial(n)
       /\ n = at /\ stage # "doing" => Finished(n)
       /\ n > at => Untouched(n)
  /\ pc \in {"aliasing", "done"} => \A n \in Positions : Finished(n)

Handled(n) == n < at \/ (n = at /\ stage # "doing")

ViewsWalked ==
  /\ pc = "viewing" =>
       \A n \in PlainPositions : Handled(n) => views[PlainViews(dump)[n]] = dump
  /\ pc \in {"loading", "aliasing", "done"} =>
       \A n \in PlainPositions : views[PlainViews(dump)[n]] = dump
  /\ pc = "aliasing" =>
       \A n \in LatePositions : Handled(n) => views[LateViews(dump)[n]] = dump
  /\ pc = "done" =>
       \A n \in LatePositions : views[LateViews(dump)[n]] = dump

Walked == (pc = "done" => dump \in Dumps) /\ UnitsWalked /\ ViewsWalked

LEMMA NotWalking ==
  ASSUME pc' \notin PhaseNames, pc' # "done" PROVE Walked'
BY DEF Walked, UnitsWalked, ViewsWalked, PhaseNames

LEMMA WalkedFrame ==
  ASSUME Walked, UNCHANGED <<resumable, pc, stage, dump, colls, views, completed, at, part>>
  PROVE  Walked'
<1>1. (pc = "done" => dump \in Dumps)'
  BY DEF Walked
<1>2. UnitsWalked'
  BY DEF Walked, UnitsWalked, Positions, Untouched, Partial, Finished, Done, Fresh, UnitComplete
<1>3. ViewsWalked'
  BY DEF Walked, ViewsWalked, PlainPositions, LatePositions, Handled
<1> QED
  BY <1>1, <1>2, <1>3 DEF Walked

\* The run leaves an item that needs no more.
LEMMA WalkOn ==
  ASSUME Distinguished, Orderly, RestoreInv, Walked, pc \in PhaseNames, stage' = "doing", Step,
         UNCHANGED <<resumable, pc, dump, colls, views, completed>>,
         pc = "creating" /\ at \in Positions => Untouched(at),
         pc = "loading" /\ at \in Positions => Finished(at),
         pc = "viewing" /\ at \in PlainPositions => views[PlainViews(dump)[at]] = dump,
         pc = "aliasing" /\ at \in LatePositions => views[LateViews(dump)[at]] = dump
  PROVE  Walked'
<1>0. /\ at \in Nat \ {0} /\ at' = at + 1 /\ part' = {} /\ pc # "done"
      /\ Positions \subseteq Int /\ PlainPositions \subseteq Int /\ LatePositions \subseteq Int
  BY DEF RestoreInv, Shape, Step, PhaseNames, Positions, PlainPositions, LatePositions
<1>1. ASSUME NEW n \in Int
      PROVE  /\ n < at + 1 <=> n < at \/ n = at
             /\ n = at + 1 => n > at
             /\ n > at + 1 => n > at
  BY <1>0
<1>2. pc = "creating" => \A n \in Positions : n < at + 1 => Untouched(n)
  BY <1>0, <1>1 DEF Walked, UnitsWalked
<1>3. pc = "loading" => \A n \in Positions :
        /\ n < at + 1 => Finished(n)
        /\ n = at + 1 => Untouched(n)
        /\ n > at + 1 => Untouched(n)
  BY <1>0, <1>1 DEF Walked, UnitsWalked
<1>4. pc = "viewing" => \A n \in PlainPositions : n < at + 1 => views[PlainViews(dump)[n]] = dump
  BY <1>0, <1>1 DEF Walked, ViewsWalked, Handled
<1>5. pc = "aliasing" => \A n \in LatePositions : n < at + 1 => views[LateViews(dump)[n]] = dump
  BY <1>0, <1>1 DEF Walked, ViewsWalked, Handled
<1>6. UnitsWalked'
  BY <1>0, <1>2, <1>3 DEF Walked, UnitsWalked, Positions, Untouched, Partial, Finished, Done,
                          Fresh, UnitComplete
<1>7. ViewsWalked'
  BY <1>0, <1>4, <1>5 DEF Walked, ViewsWalked, PlainPositions, LatePositions, Handled
<1> QED
  BY <1>0, <1>6, <1>7 DEF Walked

\* What the resume checkpoint claims needs no more.
LEMMA DoneIsFinished ==
  ASSUME Orderly, RestoreInv, pc \in PhaseNames
  PROVE  /\ dump \in Dumps
         /\ \A n \in Positions : Done(UnitId(Units(dump)[n])) => Finished(n)
         /\ \A n \in PlainPositions : Done(ViewId(PlainViews(dump)[n])) => views[PlainViews(dump)[n]] = dump
         /\ \A n \in LatePositions : Done(ViewId(LateViews(dump)[n])) => views[LateViews(dump)[n]] = dump
         /\ \A n \in Positions : Units(dump)[n] \in AllUnits
         /\ \A n \in PlainPositions : PlainViews(dump)[n] \in AllViews
         /\ \A n \in LatePositions : LateViews(dump)[n] \in AllViews
<1>1. dump \in Dumps
  BY PhaseShape DEF RestoreInv, Shape
<1>2. /\ \A n \in Positions : Units(dump)[n] \in AllUnits
      /\ \A n \in PlainPositions : PlainViews(dump)[n] \in AllViews
      /\ \A n \in LatePositions : LateViews(dump)[n] \in AllViews
  BY <1>1 DEF Orderly, Positions, PlainPositions, LatePositions
<1>3. resumable => Complete(dump, completed)
  BY DEF RestoreInv, RunBacked
<1> QED
  BY <1>1, <1>2, <1>3 DEF Complete, Done, Finished

LEMMA WalkedAcrossRuns ==
  ASSUME RestoreInv, Walked,
         \/ (\E m \in Dumps : Begin(m)) \/ Open \/ (\E u \in AllUnits : CreateDatabase(u[1]))
         \/ LoadCheckpoint \/ Fail \/ DiscardCheckpoint
  PROVE  Walked'
<1> USE DEF server, position
<1>1. CASE \/ (\E m \in Dumps : Begin(m)) \/ Open \/ (\E u \in AllUnits : CreateDatabase(u[1])) \/ Fail
  <2>1. pc' \in {"opening", "preparing", "failed"}
    BY <1>1 DEF Begin, Open, CreateDatabase, Fail
  <2> QED
    BY <2>1, NotWalking DEF PhaseNames
<1>2. CASE LoadCheckpoint
  <2>1. pc' = "failed" \/ (pc' = "creating" /\ at' = 1)
    BY <1>2 DEF LoadCheckpoint, RestoreInv, Shape
  <2>2. CASE pc' = "creating" /\ at' = 1
    <3>1. Positions' \subseteq Nat \ {0}
      BY DEF Positions
    <3> QED
      BY <2>2, <3>1 DEF Walked, UnitsWalked, ViewsWalked
  <2> QED
    BY <2>1, <2>2, NotWalking DEF PhaseNames
<1>3. CASE DiscardCheckpoint
  BY <1>3, WalkedFrame DEF DiscardCheckpoint
<1> QED
  BY <1>1, <1>2, <1>3

LEMMA WalkedSkip ==
  ASSUME Distinguished, Orderly, RestoreInv, Walked, Skip PROVE Walked'
<1>1. /\ pc \in PhaseNames /\ stage = "doing" /\ Done(Id(pc, Item))
      /\ Step /\ UNCHANGED <<resumable, pc, stage, dump, colls, views, completed>>
  <2>1. PICK n \in 1..4 : pc = Phases[n] /\ stage = "doing"
    BY DEF Skip, Doing
  <2>2. n = 1 \/ n = 2 \/ n = 3 \/ n = 4
    OBVIOUS
  <2>3. pc \in PhaseNames
    BY <2>1, <2>2, PhaseShape DEF PhaseNames
  <2> QED
    BY <2>1, <2>3 DEF Skip, server
<1>2. /\ pc \in {"creating", "loading"} => Done(UnitId(Units(dump)[at]))
      /\ pc = "viewing" => Done(ViewId(PlainViews(dump)[at]))
      /\ pc = "aliasing" => Done(ViewId(LateViews(dump)[at]))
  BY <1>1 DEF Id, Item, Work
<1>3. /\ pc = "creating" /\ at \in Positions => Untouched(at)
      /\ pc = "loading" /\ at \in Positions => Finished(at)
      /\ pc = "viewing" /\ at \in PlainPositions => views[PlainViews(dump)[at]] = dump
      /\ pc = "aliasing" /\ at \in LatePositions => views[LateViews(dump)[at]] = dump
  BY <1>1, <1>2, DoneIsFinished DEF Untouched
<1> QED
  BY <1>1, <1>3, WalkOn

LEMMA WalkedEndPhase ==
  ASSUME Distinguished, Orderly, RestoreInv, Walked, EndPhase PROVE Walked'
<1>1. /\ stage = "doing" /\ at > Len(Work(pc)) /\ at' = 1 /\ part' = {}
      /\ UNCHANGED <<resumable, colls, views, stage, dump, completed>>
  BY DEF EndPhase, server
<1>2. \/ pc = "creating" /\ pc' = "viewing"
      \/ pc = "viewing" /\ pc' = "loading"
      \/ pc = "loading" /\ pc' = "aliasing"
      \/ pc = "aliasing" /\ pc' = "done"
  <2>1. PICK n \in 1..4 : pc = Phases[n] /\ pc' = Phases[n + 1]
    BY DEF EndPhase
  <2>2. n = 1 \/ n = 2 \/ n = 3 \/ n = 4
    OBVIOUS
  <2> QED
    BY <2>1, <2>2, PhaseShape
<1>3. /\ dump \in Dumps /\ at \in Nat \ {0}
      /\ Len(Units(dump)) \in Nat /\ Len(PlainViews(dump)) \in Nat /\ Len(LateViews(dump)) \in Nat
  <2>1. dump \in Dumps /\ at \in Nat \ {0}
    BY <1>2, PhaseShape DEF RestoreInv, Shape, PhaseNames
  <2> QED
    BY <2>1 DEF Orderly
<1>4. /\ pc \in {"creating", "loading"} => \A n \in Positions : n < at
      /\ pc = "viewing" => \A n \in PlainPositions : n < at
      /\ pc = "aliasing" => \A n \in LatePositions : n < at
  <2>1. /\ pc \in {"creating", "loading"} => at > Len(Units(dump))
        /\ pc = "viewing" => at > Len(PlainViews(dump))
        /\ pc = "aliasing" => at > Len(LateViews(dump))
    BY <1>1 DEF Work
  <2> QED
    BY <1>3, <2>1 DEF Positions, PlainPositions, LatePositions
<1>5. /\ Positions \subseteq Nat \ {0} /\ PlainPositions \subseteq Nat \ {0}
      /\ LatePositions \subseteq Nat \ {0}
  BY DEF Positions, PlainPositions, LatePositions
<1>6. CASE pc = "creating"
  <2>1. \A n \in Positions : Untouched(n)
    BY <1>4, <1>6 DEF Walked, UnitsWalked
  <2>2. UnitsWalked'
    BY <1>1, <1>2, <1>6, <2>1 DEF UnitsWalked, Positions, Untouched, Done, Fresh
  <2>3. ViewsWalked'
    BY <1>1, <1>2, <1>5, <1>6 DEF ViewsWalked, PlainPositions, Handled
  <2> QED
    BY <1>2, <1>6, <2>2, <2>3 DEF Walked
<1>7. CASE pc = "viewing"
  <2>1. \A n \in Positions : Untouched(n)
    BY <1>7 DEF Walked, UnitsWalked
  <2>2. UnitsWalked'
    <3>1. pc' = "loading" /\ at' = 1 /\ Positions' = Positions
      BY <1>1, <1>2, <1>7 DEF Positions
    <3>2. \A n \in Positions : Untouched(n)' /\ Partial(n)'
      BY <1>1, <2>1 DEF Untouched, Partial, Done, Fresh
    <3>3. \A n \in Positions : ~(n < 1)
      BY <1>5
    <3> QED
      BY <1>1, <3>1, <3>2, <3>3 DEF UnitsWalked
  <2>3. \A n \in PlainPositions : views[PlainViews(dump)[n]] = dump
    BY <1>4, <1>7 DEF Walked, ViewsWalked, Handled
  <2>4. ViewsWalked'
    BY <1>1, <1>2, <1>7, <2>3 DEF ViewsWalked, PlainPositions
  <2> QED
    BY <1>2, <1>7, <2>2, <2>4 DEF Walked
<1>8. CASE pc = "loading"
  <2>1. /\ \A n \in Positions : Finished(n)
        /\ \A n \in PlainPositions : views[PlainViews(dump)[n]] = dump
    BY <1>4, <1>8 DEF Walked, UnitsWalked, ViewsWalked
  <2>2. UnitsWalked'
    BY <1>1, <1>2, <1>8, <2>1 DEF UnitsWalked, Positions, Finished, UnitComplete
  <2>3. ViewsWalked'
    BY <1>1, <1>2, <1>5, <1>8, <2>1 DEF ViewsWalked, PlainPositions, LatePositions, Handled
  <2> QED
    BY <1>2, <1>8, <2>2, <2>3 DEF Walked
<1>9. CASE pc = "aliasing"
  <2>1. /\ \A n \in Positions : Finished(n)
        /\ \A n \in PlainPositions : views[PlainViews(dump)[n]] = dump
        /\ \A n \in LatePositions : views[LateViews(dump)[n]] = dump
    BY <1>4, <1>9 DEF Walked, UnitsWalked, ViewsWalked, Handled
  <2>2. UnitsWalked'
    BY <1>1, <1>2, <1>9, <2>1 DEF UnitsWalked, Positions, Finished, UnitComplete
  <2>3. ViewsWalked'
    BY <1>1, <1>2, <1>9, <2>1 DEF ViewsWalked, PlainPositions, LatePositions
  <2> QED
    BY <1>1, <1>3, <2>2, <2>3 DEF Walked
<1> QED
  BY <1>2, <1>6, <1>7, <1>8, <1>9

\* The unit at the run's position, and the others.
LEMMA UnitsApart ==
  ASSUME Orderly, dump \in Dumps, at \in Positions, Item = Units(dump)[at]
  PROVE  /\ Item \in AllUnits
         /\ \A n \in Positions : n # at => Units(dump)[n] # Item
BY DEF Orderly, Positions

LEMMA WalkedCreate ==
  ASSUME Distinguished, Orderly, RestoreInv, Walked, CreateCollection PROVE Walked'
<1>1. /\ pc = "creating" /\ stage = "doing" /\ dump \in Dumps
      /\ Item = Units(dump)[at] /\ at \in Positions
  BY AtWork DEF CreateCollection, PhaseNames, Positions
<1>2. CASE Recreatable(Item)
  <2>1. /\ Recreate(Item) /\ at' = at + 1
        /\ UNCHANGED <<pc, resumable, stage, dump, completed, views>>
    BY <1>2 DEF CreateCollection, Step
  <2>2. /\ colls'[Item] = Fresh(dump)
        /\ \A n \in Positions : n # at => colls'[Units(dump)[n]] = colls[Units(dump)[n]]
    BY <1>1, <2>1, UnitsApart DEF Recreate, RestoreInv, Shape
  <2>3. ASSUME NEW n \in Positions, n < at + 1, ~Done(UnitId(Units(dump)[n]))
        PROVE  colls'[Units(dump)[n]] = Fresh(dump)
    <3>1. CASE n = at
      BY <1>1, <2>2, <3>1
    <3>2. CASE n # at
      <4>1. n \in Int /\ at \in Int
        BY <1>1 DEF Positions
      <4>2. n < at
        BY <2>3, <3>2, <4>1
      <4> QED
        BY <1>1, <2>2, <2>3, <3>2, <4>2 DEF Walked, UnitsWalked, Untouched
    <3> QED
      BY <3>1, <3>2
  <2>4. UnitsWalked'
    BY <1>1, <2>1, <2>3 DEF UnitsWalked, Positions, Untouched, Done, Fresh
  <2>5. ViewsWalked' /\ pc' # "done"
    BY <1>1, <2>1 DEF ViewsWalked
  <2> QED
    BY <2>4, <2>5 DEF Walked
<1>3. CASE ~Recreatable(Item)
  BY <1>3, NotWalking DEF CreateCollection, PhaseNames
<1> QED
  BY <1>2, <1>3

LEMMA WalkedLoad ==
  ASSUME Distinguished, Orderly, RestoreInv, Walked, LoadPart \/ CreateIndexes PROVE Walked'
<1>1. /\ pc = "loading" /\ stage = "doing" /\ dump \in Dumps
      /\ Item = Units(dump)[at] /\ at \in Positions
      /\ ~Done(UnitId(Item))
  <2>1. /\ pc = "loading" /\ stage = "doing" /\ dump \in Dumps
        /\ Item = Units(dump)[at] /\ at \in Positions
    BY AtWork DEF LoadPart, CreateIndexes, PhaseNames, Positions
  <2>2. ~Done(Id("loading", Item))
    BY DEF LoadPart, CreateIndexes, Turn
  <2> QED
    BY <2>1, <2>2, WorkShape
<1>2. UNCHANGED <<pc, resumable, views, dump, completed, at>>
  BY DEF LoadPart, CreateIndexes, position
<1>3. /\ Item \in AllUnits
      /\ \A n \in Positions : n # at => colls'[Units(dump)[n]] = colls[Units(dump)[n]]
  <2>1. /\ Item \in AllUnits
        /\ \A n \in Positions : Units(dump)[n] \in AllUnits
        /\ \A n \in Positions : n # at => Units(dump)[n] # Item
    BY <1>1, UnitsApart DEF Orderly, Positions
  <2>2. \A u \in AllUnits : u # Item => colls'[u] = colls[u]
    BY DEF LoadPart, CreateIndexes, Insert, BuildIndexes, RestoreInv, Shape
  <2> QED
    BY <2>1, <2>2
<1>4. colls[Item] = [of |-> dump, parts |-> part, indexed |-> FALSE]
  BY <1>1 DEF Walked, UnitsWalked, Partial
\* The other units are as they were.
<1>5. \A n \in Positions :
        /\ n < at => n # at /\ Finished(n)'
        /\ n > at => n # at /\ Untouched(n)'
  <2>1. \A n \in Positions : n \in Int /\ at \in Int
    BY <1>1 DEF Positions
  <2>2. \A n \in Positions : (n < at => Finished(n)) /\ (n > at => Untouched(n))
    BY <1>1 DEF Walked, UnitsWalked
  <2>3. \A n \in Positions : (n < at => n # at) /\ (n > at => n # at)
    BY <2>1
  <2> QED
    BY <1>2, <1>3, <2>2, <2>3 DEF Finished, Untouched, Done, Fresh, UnitComplete
<1>6. ViewsWalked' /\ pc' # "done"
  BY <1>1, <1>2 DEF Walked, ViewsWalked, PlainPositions
<1>7. CASE LoadPart
  <2>1. stage' = stage
    BY <1>7 DEF LoadPart
  <2>2. PICK next : /\ colls' = [colls EXCEPT ![Item].parts = @ \cup {next}]
                    /\ part' = part \cup {next}
    BY <1>7 DEF LoadPart, Insert
  <2>3. colls'[Item] = [colls[Item] EXCEPT !.parts = @ \cup {next}]
    BY <1>3, <2>2 DEF RestoreInv, Shape
  <2>4. colls'[Item] = [of |-> dump, parts |-> part \cup {next}, indexed |-> FALSE]
    <3> SUFFICES ASSUME NEW unit, unit = colls[Item], NEW result, result = colls'[Item]
                 PROVE  result = [of |-> dump, parts |-> part \cup {next}, indexed |-> FALSE]
      OBVIOUS
    <3>1. unit = [of |-> dump, parts |-> part, indexed |-> FALSE]
      BY <1>4
    <3>2. result = [unit EXCEPT !.parts = @ \cup {next}]
      BY <2>3
    <3> QED
      BY ONLY <3>1, <3>2, UnitLoaded
  <2>5. Partial(at)'
    BY <1>1, <1>2, <2>2, <2>4 DEF Partial
  <2>6. UnitsWalked'
    BY <1>1, <1>2, <1>5, <2>1, <2>5 DEF UnitsWalked, Positions
  <2> QED
    BY <1>6, <2>6 DEF Walked
<1>8. CASE CreateIndexes
  <2>1. stage' = "recording" /\ part = PartsOf(dump, Item)
    BY <1>8 DEF CreateIndexes
  <2>2. colls'[Item] = [colls[Item] EXCEPT !.indexed = TRUE]
    BY <1>3, <1>8 DEF CreateIndexes, BuildIndexes, RestoreInv, Shape
  <2>3. colls'[Item] = [of |-> dump, parts |-> PartsOf(dump, Item), indexed |-> TRUE]
    <3> SUFFICES ASSUME NEW unit, unit = colls[Item], NEW result, result = colls'[Item]
                 PROVE  result = [of |-> dump, parts |-> PartsOf(dump, Item), indexed |-> TRUE]
      OBVIOUS
    <3>1. unit = [of |-> dump, parts |-> PartsOf(dump, Item), indexed |-> FALSE]
      BY <1>4, <2>1
    <3>2. result = [unit EXCEPT !.indexed = TRUE]
      BY <2>2
    <3> QED
      BY ONLY <3>1, <3>2, UnitIndexed
  <2>4. Finished(at)'
    BY <1>1, <1>2, <2>3 DEF Finished, UnitComplete
  <2>5. UnitsWalked'
    BY <1>1, <1>2, <1>5, <2>1, <2>4 DEF UnitsWalked, Positions
  <2> QED
    BY <1>6, <2>5 DEF Walked
<1> QED
  BY <1>7, <1>8

LEMMA WalkedView ==
  ASSUME Distinguished, Orderly, RestoreInv, Walked, DropView \/ CreateView PROVE Walked'
<1>1. /\ pc \in {"viewing", "aliasing"} /\ stage = "doing" /\ dump \in Dumps
      /\ Item = Work(pc)[at]
  BY AtWork DEF DropView, CreateView, ViewTurn, PhaseNames, Item
<1>2. /\ at \in Nat \ {0} /\ DOMAIN views = AllViews
      /\ pc = "viewing" => at \in PlainPositions /\ Item = PlainViews(dump)[at]
      /\ pc = "aliasing" => at \in LatePositions /\ Item = LateViews(dump)[at]
  <2>1. at \in Nat \ {0} /\ DOMAIN views = AllViews
    BY DEF RestoreInv, Shape
  <2>2. at <= Len(Work(pc))
    BY <1>1 DEF DropView, CreateView, ViewTurn, Turn, Doing
  <2>3. Len(PlainViews(dump)) \in Nat /\ Len(LateViews(dump)) \in Nat
    BY <1>1 DEF Orderly
  <2> QED
    BY <1>1, <2>1, <2>2, <2>3 DEF Work, PlainPositions, LatePositions
<1>3. /\ UNCHANGED <<colls, resumable, dump, completed, at>>
      /\ \A v \in AllViews : v # Item => views'[v] = views[v]
  BY <1>2 DEF DropView, CreateView, RemoveView, AddView, position
<1>4. \/ pc' = pc /\ stage' = "doing"
      \/ pc' = pc /\ stage' = "recording" /\ (Item \in AllViews => views'[Item] = dump)
      \/ pc' \in {"conflict", "premature"}
  BY <1>1, <1>2 DEF DropView, CreateView, AddView
<1>5. CASE pc' = pc
  <2>1. UnitsWalked'
    <3>1. pc = "viewing" => \A n \in Positions : Untouched(n)
      BY DEF Walked, UnitsWalked
    <3>2. pc = "aliasing" => \A n \in Positions : Finished(n)
      BY DEF Walked, UnitsWalked
    <3> QED
      BY <1>1, <1>3, <1>5, <3>1, <3>2
        DEF UnitsWalked, Positions, Untouched, Finished, Done, Fresh, UnitComplete
  <2>2. /\ \A n \in PlainPositions : PlainViews(dump)[n] \in AllViews
        /\ \A n \in LatePositions : LateViews(dump)[n] \in AllViews
    BY <1>1 DEF Orderly, PlainPositions, LatePositions
  <2>3. \A n \in PlainPositions : n # at \/ pc = "aliasing" =>
          views'[PlainViews(dump)[n]] = views[PlainViews(dump)[n]]
    <3> SUFFICES ASSUME NEW n \in PlainPositions, n # at \/ pc = "aliasing"
                 PROVE  PlainViews(dump)[n] # Item
      BY <1>3, <2>2
    <3>1. CASE pc = "viewing"
      BY <1>1, <1>2, <3>1 DEF Orderly, PlainPositions
    <3>2. CASE pc = "aliasing"
      BY <1>1, <1>2, <3>2 DEF Orderly, PlainPositions, LatePositions
    <3> QED
      BY <1>1, <3>1, <3>2
  <2>4. \A n \in LatePositions : n # at /\ pc = "aliasing" =>
          views'[LateViews(dump)[n]] = views[LateViews(dump)[n]]
    <3> SUFFICES ASSUME NEW n \in LatePositions, n # at, pc = "aliasing"
                 PROVE  LateViews(dump)[n] # Item
      BY <1>3, <2>2
    <3> QED
      BY <1>1, <1>2 DEF Orderly, LatePositions
  <2>5. \A n \in PlainPositions \cup LatePositions : n < at => n # at
    BY <1>2 DEF PlainPositions, LatePositions
  <2>6. /\ pc = "viewing" => \A n \in PlainPositions : n < at => views[PlainViews(dump)[n]] = dump
        /\ pc = "aliasing" =>
             /\ \A n \in PlainPositions : views[PlainViews(dump)[n]] = dump
             /\ \A n \in LatePositions : n < at => views[LateViews(dump)[n]] = dump
    BY <1>1 DEF Walked, ViewsWalked, Handled
  <2>7. stage' # "doing" => /\ pc = "viewing" => views'[PlainViews(dump)[at]] = dump
                            /\ pc = "aliasing" => views'[LateViews(dump)[at]] = dump
    BY <1>2, <1>4, <1>5, <2>2
  <2>8. pc = "viewing" =>
          \A n \in PlainPositions : n < at \/ (n = at /\ stage' # "doing") =>
            views'[PlainViews(dump)[n]] = dump
    BY <2>3, <2>5, <2>6, <2>7
  <2>9. pc = "aliasing" =>
          /\ \A n \in PlainPositions : views'[PlainViews(dump)[n]] = dump
          /\ \A n \in LatePositions : n < at \/ (n = at /\ stage' # "doing") =>
               views'[LateViews(dump)[n]] = dump
    BY <2>3, <2>4, <2>5, <2>6, <2>7
  <2>10. ViewsWalked'
    BY <1>1, <1>3, <1>5, <2>8, <2>9 DEF ViewsWalked, Handled, PlainPositions, LatePositions
  <2> QED
    BY <1>1, <1>5, <2>1, <2>10 DEF Walked
<1>6. CASE pc' # pc
  BY <1>4, <1>6, NotWalking DEF PhaseNames
<1> QED
  BY <1>5, <1>6

LEMMA WalkedRecord ==
  ASSUME Distinguished, Orderly, RestoreInv, Walked,
         Record \/ Truncate \/ Persist \/ PersistFails
  PROVE  Walked'
<1>1. /\ stage \in {"recording", "writing"} /\ pc \in {"viewing", "loading", "aliasing"}
      /\ UNCHANGED <<resumable, colls, views, pc, dump>>
  <2>1. /\ stage \in {"recording", "writing"} /\ pc \in Running
        /\ UNCHANGED <<resumable, colls, views, pc, dump>>
    BY DEF Record, Truncate, Persist, PersistFails, server
  <2> QED
    BY <2>1, PhaseShape DEF RestoreInv, Shape, PhaseNames
<1>2. pc \in PhaseNames /\ pc # "creating" /\ stage # "doing"
  BY <1>1 DEF PhaseNames
<1>3. /\ pc = "loading" /\ at \in Positions => Finished(at)
      /\ pc = "viewing" /\ at \in PlainPositions => views[PlainViews(dump)[at]] = dump
      /\ pc = "aliasing" /\ at \in LatePositions => views[LateViews(dump)[at]] = dump
  BY <1>2 DEF Walked, UnitsWalked, ViewsWalked, Handled
<1>4. CASE stage' = "doing" /\ Step /\ UNCHANGED completed
  BY <1>1, <1>2, <1>3, <1>4, WalkOn
<1>5. CASE UNCHANGED <<at, part>> /\ stage' # "doing" /\ completed \subseteq completed'
  <2>1. \A id : Done(id) => Done(id)'
    BY <1>1, <1>5 DEF Done
  <2>2. \A n \in Positions : (Untouched(n) => Untouched(n)') /\ (Finished(n) => Finished(n)')
    BY <1>1, <2>1 DEF Untouched, Finished, Fresh, UnitComplete
  <2>3. Positions' = Positions
    BY <1>1 DEF Positions
  <2>4. UnitsWalked'
    BY <1>1, <1>2, <1>5, <2>2, <2>3 DEF Walked, UnitsWalked
  <2>5. ViewsWalked'
    BY <1>1, <1>2, <1>5 DEF Walked, ViewsWalked, Handled, PlainPositions, LatePositions
  <2> QED
    BY <1>1, <2>4, <2>5 DEF Walked
<1>6. CASE Truncate
  BY <1>2, <1>5, <1>6 DEF Truncate, position
<1>7. CASE Record
  <2>1. CASE resumable
    BY <1>5, <1>7, <2>1 DEF Record, position
  <2>2. CASE ~resumable
    BY <1>4, <1>7, <2>2 DEF Record
  <2> QED
    BY <2>1, <2>2
<1>8. CASE Persist \/ PersistFails
  BY <1>4, <1>8 DEF Persist, PersistFails
<1> QED
  BY <1>6, <1>7, <1>8

LEMMA WalkedPreserved ==
  ASSUME Distinguished, Orderly, RestoreInv, Walked, [Next]_vars PROVE Walked'
<1>1. CASE Next
  BY <1>1, WalkedAcrossRuns, WalkedSkip, WalkedEndPhase, WalkedCreate, WalkedLoad, WalkedView,
     WalkedRecord DEF Next
<1>2. CASE UNCHANGED vars
  BY <1>2, WalkedFrame DEF vars, server, position
<1> QED
  BY <1>1, <1>2

\* A restore that returns Ok has every collection with all its parts and
\* indexes and every view of its dump on the server, resumable or not, with and
\* without --overwrite, after any runs of this dump or another that ended early
\* (crates/arangodb-restore/src/lib.rs, execute_restore).
THEOREM RestoreCompleteCorrect ==
  ASSUME Distinguished, Orderly PROVE Spec => []RestoreComplete
<1>1. Init => RestoreInv /\ Walked
  <2>1. Init => pc = "idle"
    BY DEF Init
  <2>2. pc = "idle" => Walked
    BY DEF Walked, UnitsWalked, ViewsWalked
  <2> QED
    BY <2>1, <2>2, RestoreInitial
<1>2. RestoreInv /\ Walked /\ [Next]_vars => RestoreInv' /\ Walked'
  BY RestorePreserved, WalkedPreserved
<1>3. Walked => RestoreComplete
  <2> SUFFICES ASSUME Walked, pc = "done"
               PROVE  Complete(dump, {UnitId(u) : u \in ToSet(Units(dump))}
                                       \cup {ViewId(v) : v \in ToSet(ViewsOf(dump))})
    BY DEF RestoreComplete
  <2>1. dump \in Dumps
    BY DEF Walked
  <2>2. /\ \A n \in Positions : Finished(n)
        /\ \A n \in PlainPositions : views[PlainViews(dump)[n]] = dump
        /\ \A n \in LatePositions : views[LateViews(dump)[n]] = dump
    BY DEF Walked, UnitsWalked, ViewsWalked
  <2>3. \A u \in ToSet(Units(dump)) : UnitComplete(dump, u)
    <3>1. DOMAIN Units(dump) = Positions
      BY <2>1 DEF Orderly, Positions
    <3> QED
      BY <2>2, <3>1 DEF ToSet, Finished
  <2>4. \A v \in ToSet(ViewsOf(dump)) : views[v] = dump
    <3>1. /\ DOMAIN PlainViews(dump) = PlainPositions /\ DOMAIN LateViews(dump) = LatePositions
          /\ ToSet(ViewsOf(dump)) = ToSet(PlainViews(dump)) \cup ToSet(LateViews(dump))
      BY <2>1 DEF Orderly, PlainPositions, LatePositions
    <3> QED
      BY <2>2, <3>1 DEF ToSet
  <2> QED
    BY <2>3, <2>4, IdsDistinct DEF Complete
<1> QED
  BY <1>1, <1>2, <1>3, PTL DEF Spec

-----------------------------------------------------------------------------
(* What the server refuses *)

\* The collections a view depends on are in its dump: write_views_with_prefix
\* leaves out a view whose targets are not.
SelfContained ==
  \A m \in Dumps : \A v \in ToSet(ViewsOf(m)) : Targets[v] \subseteq ToSet(Units(m))

\* A view that the run has dropped is absent until the run creates it.
DroppedAbsent ==
  overwrite /\ pc \in {"viewing", "aliasing"} /\ stage = "doing" /\ part # {} =>
    views[Item] = Nothing

LEMMA ViewWork ==
  ASSUME Distinguished, Orderly, RestoreInv, ViewTurn
  PROVE  /\ pc \in {"viewing", "aliasing"} /\ stage = "doing" /\ dump \in Dumps
         /\ Item \in AllViews /\ Item \in ToSet(ViewsOf(dump))
         /\ pc = "viewing" => ~IsAlias(Item)
<1>1. pc \in {"viewing", "aliasing"} /\ stage = "doing" /\ dump \in Dumps
  BY AtWork DEF ViewTurn, PhaseNames
<1>2. at \in Nat \ {0} /\ at <= Len(Work(pc))
  BY <1>1 DEF ViewTurn, Turn, Doing, RestoreInv, Shape
<1>3. CASE pc = "viewing"
  <2>1. Item = PlainViews(dump)[at] /\ at \in DOMAIN PlainViews(dump)
    BY <1>1, <1>2, <1>3 DEF Item, Work, Orderly
  <2>2. Item \in ToSet(PlainViews(dump))
    BY <2>1 DEF ToSet
  <2>3. Item \in ToSet(ViewsOf(dump)) /\ Item \in AllViews
    BY <1>1, <2>2 DEF Orderly, AllViews
  <2>4. ~IsAlias(Item)
    BY <1>1, <1>3, <2>1 DEF Orderly
  <2> QED
    BY <1>1, <2>3, <2>4
<1>4. CASE pc = "aliasing"
  <2>1. Item = LateViews(dump)[at] /\ at \in DOMAIN LateViews(dump)
    BY <1>1, <1>2, <1>4 DEF Item, Work, Orderly
  <2>2. Item \in ToSet(LateViews(dump))
    BY <2>1 DEF ToSet
  <2>3. Item \in ToSet(ViewsOf(dump)) /\ Item \in AllViews
    BY <1>1, <2>2 DEF Orderly, AllViews
  <2>4. pc # "viewing"
    BY <1>1, <1>4, <2>1 DEF Orderly
  <2> QED
    BY <1>1, <2>3, <2>4
<1> QED
  BY <1>1, <1>3, <1>4

\* The server wants a view's collections, and the indexes of an alias's.
LEMMA ViewsReady ==
  ASSUME Distinguished, Orderly, SelfContained, RestoreInv, Walked, ViewTurn PROVE Ready(Item)
<1>1. /\ pc \in {"viewing", "aliasing"} /\ dump \in Dumps /\ Item \in ToSet(ViewsOf(dump))
      /\ pc = "viewing" => ~IsAlias(Item)
  BY ViewWork
<1> SUFFICES ASSUME NEW u \in Targets[Item]
             PROVE  colls[u].of # Nothing /\ (IsAlias(Item) => colls[u].indexed)
  BY DEF Ready
<1>2. PICK n \in Positions : u = Units(dump)[n]
  <2>1. u \in ToSet(Units(dump))
    BY <1>1 DEF SelfContained
  <2>2. DOMAIN Units(dump) = Positions
    BY <1>1 DEF Orderly, Positions
  <2> QED
    BY <2>1, <2>2 DEF ToSet
<1>3. dump # Nothing
  BY <1>1, RestoreAssumption
<1>4. Finished(n) => colls[u].of = dump /\ colls[u].indexed
  BY <1>2 DEF Finished, UnitComplete
<1>5. CASE pc = "viewing"
  <2>1. Untouched(n) /\ (Done(UnitId(u)) => Finished(n))
    BY <1>2, <1>5, DoneIsFinished DEF Walked, UnitsWalked, PhaseNames
  <2>2. colls[u].of = dump
    BY <1>2, <1>4, <2>1 DEF Untouched, Fresh
  <2> QED
    BY <1>1, <1>3, <1>5, <2>2
<1>6. CASE pc = "aliasing"
  BY <1>2, <1>3, <1>4, <1>6 DEF Walked, UnitsWalked
<1> QED
  BY <1>1, <1>5, <1>6

LEMMA RefusalsPreserved ==
  ASSUME Distinguished, Orderly, SelfContained, RestoreInv, Walked, NeverRefused, DroppedAbsent,
         [Next]_vars
  PROVE  NeverRefused' /\ DroppedAbsent'
<1> USE DEF server, position
<1>0. overwrite' = overwrite
  BY DEF Next, vars, Begin, Open, CreateDatabase, LoadCheckpoint, Skip, EndPhase, CreateCollection,
         LoadPart, CreateIndexes, DropView, CreateView, Record, Truncate, Persist, PersistFails,
         Fail, DiscardCheckpoint
<1>1. CASE DropView
  <2>1. Item \in AllViews /\ pc \in {"viewing", "aliasing"}
    BY <1>1, ViewWork DEF DropView
  <2>2. /\ views'[Item] = Nothing /\ UNCHANGED <<pc, dump, at>>
    BY <1>1, <2>1 DEF DropView, RemoveView, RestoreInv, Shape
  <2>3. Item' = Item
    BY <2>2 DEF Item, Work
  <2> QED
    BY <1>0, <2>2, <2>3 DEF NeverRefused, DroppedAbsent
<1>2. CASE CreateView
  <2>1. /\ Ready(Item) /\ pc \in {"viewing", "aliasing"} /\ stage = "doing"
    BY <1>2, ViewsReady, ViewWork DEF CreateView
  <2>2. overwrite => views[Item] = Nothing
    BY <1>2, <2>1 DEF CreateView, DroppedAbsent
  <2>3. \/ stage' = "recording" /\ pc' = pc
        \/ pc' = "conflict" /\ ~overwrite
    BY <1>2, <2>1, <2>2 DEF CreateView
  <2> QED
    BY <1>0, <2>1, <2>3 DEF NeverRefused, DroppedAbsent
<1>3. CASE CreateCollection
  <2>1. pc = "creating"
    BY <1>3 DEF CreateCollection, Turn, Doing
  <2>2. pc' = pc \/ (pc' = "conflict" /\ ~overwrite)
    BY <1>3 DEF CreateCollection, Recreatable
  <2> QED
    BY <1>0, <2>1, <2>2 DEF NeverRefused, DroppedAbsent
<1>4. CASE \/ Skip \/ EndPhase \/ Record \/ Persist \/ PersistFails
  <2>1. \/ part' = {}
        \/ stage' # "doing"
    BY <1>4 DEF Skip, EndPhase, Record, Persist, PersistFails, Step
  <2>2. pc' \notin {"conflict", "premature"}
    <3>1. ASSUME NEW n \in 1..4, pc' = Phases[n + 1] PROVE pc' \in PhaseNames \cup {"done"}
      <4>1. n = 1 \/ n = 2 \/ n = 3 \/ n = 4
        OBVIOUS
      <4> QED
        BY <3>1, <4>1, PhaseShape DEF PhaseNames
    <3>2. CASE EndPhase
      BY <3>1, <3>2 DEF EndPhase, PhaseNames
    <3>3. CASE Skip
      <4>1. PICK n \in 1..4 : pc = Phases[n]
        BY <3>3 DEF Skip, Doing
      <4>2. n = 1 \/ n = 2 \/ n = 3 \/ n = 4
        OBVIOUS
      <4> QED
        BY <3>3, <4>1, <4>2, PhaseShape DEF Skip
    <3>4. CASE Record \/ Persist \/ PersistFails
      BY <3>4, PhaseShape DEF Record, Persist, PersistFails, PhaseNames
    <3> QED
      BY <1>4, <3>2, <3>3, <3>4
  <2> QED
    BY <2>1, <2>2 DEF NeverRefused, DroppedAbsent
<1>5. CASE LoadPart \/ CreateIndexes \/ Truncate
  <2>1. pc' = pc /\ (pc = "loading" \/ stage' = "writing")
    BY <1>5 DEF LoadPart, CreateIndexes, Truncate, Turn, Doing
  <2> QED
    BY <1>0, <2>1 DEF NeverRefused, DroppedAbsent
<1>6. CASE \/ (\E m \in Dumps : Begin(m)) \/ Open \/ (\E u \in AllUnits : CreateDatabase(u[1]))
           \/ LoadCheckpoint \/ Fail
  <2>1. pc' \in {"opening", "preparing", "creating", "failed"}
    BY <1>6 DEF Begin, Open, CreateDatabase, LoadCheckpoint, Fail
  <2> QED
    BY <2>1 DEF NeverRefused, DroppedAbsent
<1>7. CASE DiscardCheckpoint \/ UNCHANGED vars
  <2>1. UNCHANGED <<pc, stage, dump, views, at, part>>
    BY <1>7 DEF DiscardCheckpoint, vars
  <2>2. Item' = Item
    BY <2>1 DEF Item, Work
  <2> QED
    BY <1>0, <2>1, <2>2 DEF NeverRefused, DroppedAbsent
<1> QED
  BY <1>1, <1>2, <1>3, <1>4, <1>5, <1>6, <1>7 DEF Next

\* No view is created before what it depends on, in a fresh run or one that
\* resumes anywhere, and with --overwrite nothing an earlier run left behind
\* stands in the way (crates/arangodb-restore/src/lib.rs, the order of the
\* phases and restore_view).
THEOREM NeverRefusedCorrect ==
  ASSUME Distinguished, Orderly, SelfContained PROVE Spec => []NeverRefused
<1>1. Init => RestoreInv /\ Walked /\ NeverRefused /\ DroppedAbsent
  <2>1. Init => pc = "idle"
    BY DEF Init
  <2>2. pc = "idle" => Walked /\ NeverRefused /\ DroppedAbsent
    BY DEF Walked, UnitsWalked, ViewsWalked, NeverRefused, DroppedAbsent
  <2> QED
    BY <2>1, <2>2, RestoreInitial
<1>2. /\ RestoreInv /\ Walked /\ NeverRefused /\ DroppedAbsent /\ [Next]_vars
      => (RestoreInv /\ Walked /\ NeverRefused /\ DroppedAbsent)'
  BY RestorePreserved, WalkedPreserved, RefusalsPreserved
<1> QED
  BY <1>1, <1>2, PTL DEF Spec

-----------------------------------------------------------------------------
(* Types *)

Owners == Dumps \cup {Nothing, Foreign}

ServerTypes ==
  /\ saved.of \in Owners
  /\ \A u \in AllUnits : "of" \in DOMAIN colls[u] /\ colls[u].of \in Owners
  /\ \A v \in AllViews : views[v] \in Owners

CommandTypes ==
  /\ overwrite \in BOOLEAN /\ resumable \in BOOLEAN
  /\ run \in 0..MaxRuns
  /\ pc \in Running \cup {"idle", "done", "failed", "conflict", "premature"}
  /\ stage # "doing" /\ pc \in Running => at <= Len(Work(pc))

LEMMA ServerTypesPreserved ==
  ASSUME Distinguished, RestoreInv, ServerTypes, [Next]_vars PROVE ServerTypes'
<1> USE DEF server, position, Owners
<1>0. DOMAIN colls = AllUnits /\ DOMAIN views = AllViews
  BY DEF RestoreInv, Shape
<1>1. CASE CreateCollection
  <2>1. dump \in Dumps /\ UNCHANGED <<saved, views>>
    BY <1>1, AtWork DEF CreateCollection, PhaseNames
  <2>2. \A u \in AllUnits : colls'[u] = colls[u] \/ colls'[u] = Fresh(dump)
    BY <1>0, <1>1 DEF CreateCollection, Recreate
  <2>3. \A u \in AllUnits : "of" \in DOMAIN colls'[u] /\ colls'[u].of \in Owners
    BY <2>1, <2>2 DEF ServerTypes, Fresh
  <2> QED
    BY <2>1, <2>3 DEF ServerTypes
<1>2. CASE LoadPart \/ CreateIndexes
  <2>1. UNCHANGED <<saved, views>>
    BY <1>2 DEF LoadPart, CreateIndexes
  <2>2. PICK item, parts, value : \/ colls' = [colls EXCEPT ![item].parts = parts]
                                  \/ colls' = [colls EXCEPT ![item].indexed = value]
    <3>1. CASE LoadPart
      <4>1. PICK n : Insert(Item, n)
        BY <3>1 DEF LoadPart
      <4> QED
        BY <4>1 DEF Insert
    <3>2. CASE CreateIndexes
      BY <3>2 DEF CreateIndexes, BuildIndexes
    <3> QED
      BY <1>2, <3>1, <3>2
  <2>3. ASSUME NEW u \in AllUnits
        PROVE  "of" \in DOMAIN colls'[u] /\ colls'[u].of = colls[u].of
    <3>1. \/ colls'[u] = colls[u]
          \/ colls'[u] = [colls[u] EXCEPT !.parts = parts]
          \/ colls'[u] = [colls[u] EXCEPT !.indexed = value]
      BY <1>0, <2>2
    <3>2. "of" \in DOMAIN colls[u]
      BY DEF ServerTypes
    <3> SUFFICES ASSUME NEW unit, unit = colls[u], NEW result, result = colls'[u]
                 PROVE  "of" \in DOMAIN result /\ result.of = unit.of
      OBVIOUS
    <3>3. \/ result = unit \/ result = [unit EXCEPT !.parts = parts]
          \/ result = [unit EXCEPT !.indexed = value]
      BY <3>1
    <3> QED
      BY <3>2, <3>3
  <2> QED
    BY <2>1, <2>3 DEF ServerTypes
<1>3. CASE DropView \/ CreateView
  <2>1. dump \in Dumps /\ UNCHANGED <<saved, colls>>
    BY <1>3, AtWork DEF DropView, CreateView, ViewTurn, PhaseNames
  <2>2. \A v \in AllViews : views'[v] \in {views[v], Nothing, dump}
    BY <1>0, <1>3 DEF DropView, CreateView, RemoveView, AddView
  <2> QED
    BY <2>1, <2>2 DEF ServerTypes
<1>4. CASE Truncate \/ Persist \/ DiscardCheckpoint
  <2>1. saved' \in {Torn, NoCheckpoint, [of |-> dump, ids |-> completed]} /\ UNCHANGED <<colls, views>>
    BY <1>4 DEF Truncate, Persist, DiscardCheckpoint
  <2>2. Persist => dump \in Dumps
    BY DEF Persist, RestoreInv, Shape
  <2>3. saved'.of \in Owners
    BY <1>4, <2>1, <2>2 DEF Truncate, Persist, DiscardCheckpoint, Torn, NoCheckpoint
  <2> QED
    BY <2>1, <2>3 DEF ServerTypes
<1>5. CASE \/ (\E m \in Dumps : Begin(m)) \/ Open \/ (\E u \in AllUnits : CreateDatabase(u[1]))
           \/ LoadCheckpoint \/ Skip \/ EndPhase \/ Record \/ PersistFails \/ Fail \/ UNCHANGED vars
  <2>1. UNCHANGED <<saved, colls, views>>
    BY <1>5 DEF Begin, Open, CreateDatabase, LoadCheckpoint, Skip, EndPhase, Record, PersistFails,
                Fail, vars
  <2> QED
    BY <2>1 DEF ServerTypes
<1> QED
  BY <1>1, <1>2, <1>3, <1>4, <1>5 DEF Next

LEMMA CommandTypesPreserved ==
  ASSUME Distinguished, RestoreInv, CommandTypes, [Next]_vars PROVE CommandTypes'
<1> USE DEF server, position
<1>1. overwrite' = overwrite /\ resumable' = resumable
  BY DEF Next, vars, Begin, Open, CreateDatabase, LoadCheckpoint, Skip, EndPhase, CreateCollection,
         LoadPart, CreateIndexes, DropView, CreateView, Record, Truncate, Persist, PersistFails,
         Fail, DiscardCheckpoint
<1>2. run' = run \/ (run < MaxRuns /\ run' = run + 1)
  BY DEF Next, vars, Begin, Open, CreateDatabase, LoadCheckpoint, Skip, EndPhase, CreateCollection,
         LoadPart, CreateIndexes, DropView, CreateView, Record, Truncate, Persist, PersistFails,
         Fail, DiscardCheckpoint
<1>3. run' \in 0..MaxRuns
  BY <1>2, RestoreAssumption DEF CommandTypes
<1>4. pc' \in Running \cup {"idle", "done", "failed", "conflict", "premature"}
  <2>1. \A n \in 1..4 : Phases[n + 1] \in PhaseNames \cup {"done"}
    <3> SUFFICES ASSUME NEW n \in 1..4 PROVE Phases[n + 1] \in PhaseNames \cup {"done"}
      OBVIOUS
    <3>1. n = 1 \/ n = 2 \/ n = 3 \/ n = 4
      OBVIOUS
    <3> QED
      BY <3>1, PhaseShape DEF PhaseNames
  <2>2. CASE EndPhase
    BY <2>1, <2>2, PhaseShape DEF EndPhase
  <2>3. CASE ~EndPhase
    <3>1. pc' \in {pc, "opening", "preparing", "failed", "creating", "conflict", "premature"}
      BY <2>3 DEF Next, vars, Begin, Open, CreateDatabase, LoadCheckpoint, Skip, CreateCollection,
                  LoadPart, CreateIndexes, DropView, CreateView, Record, Truncate, Persist,
                  PersistFails, Fail, DiscardCheckpoint
    <3> QED
      BY <3>1, PhaseShape DEF CommandTypes, PhaseNames
  <2> QED
    BY <2>2, <2>3
\* What is recorded is an item of the phase.
<1>5. ASSUME stage' # "doing", pc' \in Running PROVE (at <= Len(Work(pc)))'
  <2>1. CASE CreateIndexes \/ CreateView
    <3>1. UNCHANGED <<dump, at>> /\ at <= Len(Work(pc)) /\ (pc' = pc \/ pc' \in {"conflict", "premature"})
      BY <2>1 DEF CreateIndexes, CreateView, ViewTurn, Turn, Doing
    <3>2. pc' = pc
      BY <1>5, <3>1, PhaseShape DEF PhaseNames
    <3> QED
      BY <3>1, <3>2 DEF Work
  <2>2. CASE Record \/ Truncate \/ DiscardCheckpoint \/ UNCHANGED vars
    <3>1. UNCHANGED <<dump, pc>> /\ stage # "doing" /\ UNCHANGED at
      BY <1>5, <2>2 DEF Record, Truncate, DiscardCheckpoint, vars
    <3> QED
      BY <1>5, <3>1 DEF CommandTypes, Work
  <2>3. CASE ~(\/ CreateIndexes \/ CreateView \/ Record \/ Truncate \/ DiscardCheckpoint
               \/ UNCHANGED vars)
    <3>1. stage' = "doing" \/ pc' = "failed"
      <4>1. pc \in {"opening", "preparing", "creating"} => stage = "doing"
        BY DEF RestoreInv, Shape
      <4> QED
        BY <2>3, <4>1 DEF Next, vars, Begin, Open, CreateDatabase, LoadCheckpoint, Skip, EndPhase,
           CreateCollection, LoadPart, DropView, ViewTurn, Turn, Doing, Persist, PersistFails, Fail
    <3> QED
      BY <1>5, <3>1, PhaseShape DEF PhaseNames
  <2> QED
    BY <2>1, <2>2, <2>3
<1> QED
  BY <1>1, <1>3, <1>4, <1>5 DEF CommandTypes

\* Every variable of the restore stays in its type, and what is recorded is an
\* item of the phase (crates/arangodb-restore/src/lib.rs, execute_restore).
THEOREM TypeCorrect == ASSUME Distinguished PROVE Spec => []TypeOK
<1>1. Init => RestoreInv /\ ServerTypes /\ CommandTypes
  <2> SUFFICES ASSUME Init PROVE ServerTypes /\ CommandTypes
    BY RestoreInitial
  <2>1. ServerTypes
    BY DEF Init, ServerTypes, Owners, Fresh, NoCheckpoint
  <2>2. CommandTypes
    BY RestoreAssumption DEF Init, CommandTypes
  <2> QED
    BY <2>1, <2>2
<1>2. RestoreInv /\ ServerTypes /\ CommandTypes /\ [Next]_vars
      => (RestoreInv /\ ServerTypes /\ CommandTypes)'
  BY RestorePreserved, ServerTypesPreserved, CommandTypesPreserved
<1>3. RestoreInv /\ ServerTypes /\ CommandTypes => TypeOK
  BY DEF RestoreInv, Shape, ServerTypes, CommandTypes, TypeOK, Owners
<1> QED
  BY <1>1, <1>2, <1>3, PTL DEF Spec

=============================================================================
