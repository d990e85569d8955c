----------------------- MODULE AdaptiveLimiterProofs -----------------------
(***************************************************************************)
(* Proofs about the governor, for any set of tasks and any limits.         *)
(***************************************************************************)
EXTENDS AdaptiveLimiter, FiniteSetTheorems, TLAPS

\* Halving with a floor, and growing by one below the ceiling, both keep the
\* limit between the floor and the ceiling.
LEMMA LimitStaysInRange ==
  ASSUME TypeOK, Throttle \/ MaybeRecover \/ UNCHANGED <<limit, quiet>>
  PROVE  /\ limit' \in MinConcurrency..MaxConcurrency
         /\ quiet' \in BOOLEAN
<1>1. /\ limit \in MinConcurrency..MaxConcurrency
      /\ quiet \in BOOLEAN
      /\ MinConcurrency \in Nat /\ MaxConcurrency \in Nat
  BY LimiterAssumption DEF TypeOK
<1>2. CASE Throttle
  <2>1. /\ limit \div 2 \in Int
        /\ limit \div 2 <= limit
    BY <1>1
  <2>2. Larger(limit \div 2, MinConcurrency) \in MinConcurrency..MaxConcurrency
    BY <1>1, <2>1 DEF Larger
  <2> QED
    BY <1>1, <1>2, <2>2 DEF Throttle
<1>3. CASE MaybeRecover
  <2>1. CASE Enabled /\ limit < MaxConcurrency /\ quiet
    <3>1. limit' = limit + 1 /\ quiet' = FALSE
      BY <1>3, <2>1, Zenon DEF MaybeRecover
    <3>2. limit < MaxConcurrency
      BY <2>1
    <3>3. limit' \in MinConcurrency..MaxConcurrency
      BY <1>1, <3>1, <3>2
    <3> QED
      BY <3>1, <3>3, Zenon
  <2>2. CASE ~(Enabled /\ limit < MaxConcurrency /\ quiet)
    <3>1. limit' = limit /\ quiet' = quiet
      BY <1>3, <2>2, Zenon DEF MaybeRecover
    <3> QED
      BY <1>1, <3>1
  <2> QED
    BY <2>1, <2>2
<1>4. CASE UNCHANGED <<limit, quiet>>
  BY <1>1, <1>4
<1> QED
  BY <1>2, <1>3, <1>4

\* The outcomes of a send all release the slot and adapt the limit; only a
\* recovery wakes anyone under the lock.
LEMMA OutcomeShape ==
  ASSUME NEW t \in Tasks, NEW signal \in BOOLEAN,
         RecordSuccess(t, signal) \/ RecordError(t, signal)
  PROVE  /\ Release(t)
         /\ Throttle \/ MaybeRecover \/ UNCHANGED <<limit, quiet>>
         /\ woken' \in {woken, woken \cup Registered}
BY DEF RecordSuccess, RecordError, MaybeRecover

LEMMA TypeInitial == Init => TypeOK
<1> SUFFICES ASSUME Init PROVE TypeOK
  OBVIOUS
<1>1. MaxConcurrency \in Nat /\ MinConcurrency \in 1..MaxConcurrency
  BY LimiterAssumption
<1>2. limit \in MinConcurrency..MaxConcurrency
  <2>1. limit = Larger(MaxConcurrency, MinConcurrency)
    BY DEF Init
  <2> QED
    BY <1>1, <2>1 DEF Larger
<1>3. /\ inFlight \in Nat /\ quiet \in BOOLEAN /\ woken \in SUBSET Tasks
      /\ gate \in [Tasks -> {"out", "checking", "deferred", "waiting", "holding", "notifying"}]
  BY DEF Init
<1> QED
  BY <1>2, <1>3 DEF TypeOK

LEMMA TypePreserved == TypeOK /\ [Next]_limiterVars => TypeOK'
<1> SUFFICES ASSUME TypeOK, [Next]_limiterVars
             PROVE  TypeOK'
  OBVIOUS
<1> USE DEF TypeOK
<1>1. ASSUME NEW t \in Tasks, Register(t) PROVE TypeOK'
  BY <1>1 DEF Register
<1>2. ASSUME NEW t \in Tasks, Claim(t) PROVE TypeOK'
  BY <1>2 DEF Claim
<1>3. ASSUME NEW t \in Tasks, Defer(t) PROVE TypeOK'
  BY <1>3 DEF Defer
<1>4. ASSUME NEW t \in Tasks, Await(t) \/ Recheck(t) \/ NotifyWaiters(t) PROVE TypeOK'
  BY <1>4 DEF Await, Recheck, NotifyWaiters, Registered
<1>5. ASSUME NEW t \in Tasks, NEW signal \in BOOLEAN,
             RecordSuccess(t, signal) \/ RecordError(t, signal)
      PROVE  TypeOK'
  <2>1. /\ Release(t)
        /\ Throttle \/ MaybeRecover \/ UNCHANGED <<limit, quiet>>
        /\ woken' \in {woken, woken \cup Registered}
    BY <1>5, OutcomeShape
  <2>2. limit' \in MinConcurrency..MaxConcurrency /\ quiet' \in BOOLEAN
    BY <2>1, LimitStaysInRange
  <2>3. inFlight' \in Nat
    BY <2>1 DEF Release, Larger
  <2>4. gate' \in [Tasks -> {"out", "checking", "deferred", "waiting", "holding", "notifying"}]
    BY <2>1 DEF Release
  <2>5. woken' \in SUBSET Tasks
    BY <2>1 DEF Registered
  <2> QED
    BY <2>2, <2>3, <2>4, <2>5
<1>6. ASSUME QuietElapses PROVE TypeOK'
  BY <1>6 DEF QuietElapses
<1>7. CASE UNCHANGED limiterVars
  BY <1>7 DEF limiterVars
<1> QED
  BY <1>1, <1>2, <1>3, <1>4, <1>5, <1>6, <1>7 DEF Next

\* The limit never leaves [min_concurrency, max_concurrency].
THEOREM TypeCorrect == Spec => []TypeOK
<1>1. Init => TypeOK
  BY TypeInitial
<1>2. TypeOK /\ [Next]_limiterVars => TypeOK'
  BY TypePreserved
<1> QED
  BY <1>1, <1>2, PTL DEF Spec

-----------------------------------------------------------------------------

\* No task waits for a wake-up that will not come: acquire creates its
\* Notified before it checks, and every release is followed by a notification
\* that reaches it.
THEOREM NoLostWakeupCorrect == Spec => []NoLostWakeup
<1>1. Init => NoLostWakeup
  BY DEF Init, NoLostWakeup
<1>2. TypeOK /\ NoLostWakeup /\ [Next]_limiterVars => NoLostWakeup'
  <2> DEFINE Excused == inFlight >= limit \/ \E v \in Tasks : gate[v] = "notifying"
  <2> SUFFICES ASSUME TypeOK, NoLostWakeup, [Next]_limiterVars,
                      NEW u \in Tasks, gate'[u] \in {"deferred", "waiting"}, u \notin woken'
               PROVE  Excused'
    BY DEF NoLostWakeup
  <2>0. /\ limit \in Nat /\ inFlight \in Nat
        /\ gate \in [Tasks -> {"out", "checking", "deferred", "waiting", "holding", "notifying"}]
        /\ gate[u] \in {"deferred", "waiting"} /\ u \notin woken => Excused
    BY LimiterAssumption DEF TypeOK, NoLostWakeup
  <2>1. ASSUME NEW t \in Tasks, Register(t) PROVE Excused'
    BY <2>0, <2>1 DEF Register
  <2>2. ASSUME NEW t \in Tasks, Claim(t) PROVE Excused'
    BY <2>0, <2>2 DEF Claim
  <2>3. ASSUME NEW t \in Tasks, Defer(t) PROVE Excused'
    BY <2>0, <2>3 DEF Defer
  <2>4. ASSUME NEW t \in Tasks, Await(t) \/ Recheck(t) PROVE Excused'
    BY <2>0, <2>4 DEF Await, Recheck
  <2>5. ASSUME NEW t \in Tasks, NEW signal \in BOOLEAN,
               RecordSuccess(t, signal) \/ RecordError(t, signal)
        PROVE  Excused'
    <3>1. Release(t)
      BY <2>5, OutcomeShape
    <3> QED
      BY <2>0, <3>1 DEF Release
  <2>6. ASSUME NEW t \in Tasks, NotifyWaiters(t) PROVE Excused'
    <3>1. u # t /\ gate'[u] = gate[u]
      BY <2>0, <2>6 DEF NotifyWaiters
    <3>2. u \in woken'
      BY <2>6, <3>1 DEF NotifyWaiters, Registered
    <3> QED
      BY <3>2
  <2>7. ASSUME QuietElapses PROVE Excused'
    BY <2>0, <2>7 DEF QuietElapses
  <2>8. CASE UNCHANGED limiterVars
    BY <2>0, <2>8 DEF limiterVars
  <2> QED
    BY <2>1, <2>2, <2>3, <2>4, <2>5, <2>6, <2>7, <2>8 DEF Next
<1> QED
  BY <1>1, <1>2, TypeCorrect, PTL DEF Spec

-----------------------------------------------------------------------------

\* The counter is the number of tasks that hold a slot, so saturating_sub
\* never saturates and no slot leaks, and never exceeds max_concurrency, for any
\* finite pool.
THEOREM InFlightExactCorrect ==
  ASSUME IsFiniteSet(Tasks)
  PROVE  Spec => []InFlightExact
<1> DEFINE Exact == inFlight = Cardinality(Holders)
           Bounded == inFlight <= MaxConcurrency
<1>1. Init => Exact /\ Bounded
  <2> SUFFICES ASSUME Init PROVE Exact /\ Bounded
    OBVIOUS
  <2>1. Holders = {}
    BY DEF Init, Holders
  <2> QED
    BY <2>1, FS_EmptySet, LimiterAssumption DEF Init
<1>2. TypeOK /\ Exact /\ [Next]_limiterVars => Exact'
  <2> SUFFICES ASSUME TypeOK, Exact, [Next]_limiterVars
               PROVE  inFlight' = Cardinality(Holders')
    OBVIOUS
  <2> USE DEF TypeOK
  <2>0. IsFiniteSet(Holders) /\ inFlight = Cardinality(Holders)
    BY FS_Subset DEF Holders
  <2>1. ASSUME NEW t \in Tasks, Register(t) \/ Defer(t) \/ Await(t) \/ Recheck(t)
                               \/ NotifyWaiters(t)
        PROVE  inFlight' = Cardinality(Holders')
    <3>1. Holders' = Holders
      BY <2>1 DEF Register, Defer, Await, Recheck, NotifyWaiters, Holders
    <3>2. inFlight' = inFlight
      BY <2>1 DEF Register, Defer, Await, Recheck, NotifyWaiters
    <3> QED
      BY <2>0, <3>1, <3>2
  <2>2. ASSUME NEW t \in Tasks, Claim(t)
        PROVE  inFlight' = Cardinality(Holders')
    <3>1. t \notin Holders /\ Holders' = Holders \cup {t}
      BY <2>2 DEF Claim, Holders
    <3>2. Cardinality(Holders') = Cardinality(Holders) + 1
      BY <2>0, <3>1, FS_AddElement
    <3> QED
      BY <2>0, <2>2, <3>2 DEF Claim
  <2>3. ASSUME NEW t \in Tasks, NEW signal \in BOOLEAN,
               RecordSuccess(t, signal) \/ RecordError(t, signal)
        PROVE  inFlight' = Cardinality(Holders')
    <3>1. Release(t)
      BY <2>3, OutcomeShape
    <3>2. t \in Holders /\ Holders' = Holders \ {t}
      BY <3>1 DEF Release, Holders
    <3>3. Cardinality(Holders') = Cardinality(Holders) - 1
      BY <2>0, <3>2, FS_RemoveElement
    <3>4. Cardinality(Holders) # 0
      BY <2>0, <3>2, FS_EmptySet
    <3> QED
      BY <2>0, <3>1, <3>3, <3>4 DEF Release, Larger
  <2>4. ASSUME QuietElapses PROVE inFlight' = Cardinality(Holders')
    BY <2>0, <2>4 DEF QuietElapses, Holders
  <2>5. CASE UNCHANGED limiterVars
    BY <2>0, <2>5 DEF limiterVars, Holders
  <2> QED
    BY <2>1, <2>2, <2>3, <2>4, <2>5 DEF Next
\* A slot is claimed under the limit, which never exceeds the ceiling.
<1>3. TypeOK /\ Bounded /\ [Next]_limiterVars => Bounded'
  <2> SUFFICES ASSUME TypeOK, Bounded, [Next]_limiterVars
               PROVE  inFlight' <= MaxConcurrency
    OBVIOUS
  <2>0. inFlight \in Nat /\ limit \in Nat /\ limit <= MaxConcurrency /\ MaxConcurrency \in Nat
    BY LimiterAssumption DEF TypeOK
  <2>1. ASSUME NEW t \in Tasks, Register(t) \/ Defer(t) \/ Await(t) \/ Recheck(t)
                               \/ NotifyWaiters(t)
        PROVE  inFlight' <= MaxConcurrency
    BY <2>1 DEF Register, Defer, Await, Recheck, NotifyWaiters
  <2>2. ASSUME NEW t \in Tasks, Claim(t) PROVE inFlight' <= MaxConcurrency
    BY <2>0, <2>2 DEF Claim
  <2>3. ASSUME NEW t \in Tasks, NEW signal \in BOOLEAN,
               RecordSuccess(t, signal) \/ RecordError(t, signal)
        PROVE  inFlight' <= MaxConcurrency
    <3>1. Release(t)
      BY <2>3, OutcomeShape
    <3> QED
      BY <2>0, <3>1 DEF Release, Larger
  <2>4. CASE QuietElapses \/ UNCHANGED limiterVars
    BY <2>4 DEF QuietElapses, limiterVars
  <2> QED
    BY <2>1, <2>2, <2>3, <2>4 DEF Next
<1>4. Exact /\ Bounded => InFlightExact
  BY DEF InFlightExact
<1> QED
  BY <1>1, <1>2, <1>3, <1>4, TypeCorrect, PTL DEF Spec

=============================================================================
