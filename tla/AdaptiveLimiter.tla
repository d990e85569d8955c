-------------------------- MODULE AdaptiveLimiter --------------------------
(***************************************************************************)
(* The rate-limit-aware concurrency governor of the import sender pool     *)
(* (crates/arangodb-import/src/adaptive.rs).  A task runs the acquire      *)
(* loop, sends while it holds a slot, and releases the slot by recording   *)
(* the outcome of the send.  The mutex `inner` is never held across an     *)
(* await, so each critical section is one action; the wake-up that follows *)
(* a release happens outside it and is an action of its own.  Metrics that *)
(* no code path reads back (counters, RTT sums, min_limit_seen) are left   *)
(* out.                                                                    *)
(***************************************************************************)
EXTENDS Integers, FiniteSets

CONSTANTS
  Tasks,           \* the tasks that share the limiter
  MaxConcurrency,  \* AdaptiveConfig::max_concurrency
  MinConcurrency,  \* AdaptiveConfig::min_concurrency
  Enabled          \* AdaptiveConfig::enabled

\* AdaptiveConfig::new builds 1 <= min_concurrency <= max_concurrency.
ASSUME LimiterAssumption ==
  /\ MaxConcurrency \in Nat \ {0}
  /\ MinConcurrency \in 1..MaxConcurrency
  /\ Enabled \in BOOLEAN

VARIABLES
  limit,     \* Inner::limit
  inFlight,  \* Inner::in_flight
  quiet,     \* last_congestion.elapsed() >= recover_after
  gate,      \* where each task is in acquire / send
  woken      \* tasks whose Notified future a notify_waiters() has fired

limiterVars == <<limit, inFlight, quiet, gate, woken>>

Larger(a, b) == IF a < b THEN b ELSE a

Init ==
  /\ limit = Larger(MaxConcurrency, MinConcurrency)
  /\ inFlight = 0
  /\ quiet = FALSE
  /\ gate = [t \in Tasks |-> "out"]
  /\ woken = {}

Holders == {t \in Tasks : gate[t] = "holding"}

(***************************************************************************)
(* acquire(): register with Notify, check under the lock, claim or wait.   *)
(***************************************************************************)

\* notified() is created before the check, so that from here on a
\* notify_waiters() reaches this task.
Register(t) ==
  /\ gate[t] = "out"
  /\ gate' = [gate EXCEPT ![t] = "checking"]
  /\ woken' = woken \ {t}
  /\ UNCHANGED <<limit, inFlight, quiet>>

Claim(t) ==
  /\ gate[t] = "checking"
  /\ inFlight < limit
  /\ inFlight' = inFlight + 1
  /\ gate' = [gate EXCEPT ![t] = "holding"]
  /\ woken' = woken \ {t}
  /\ UNCHANGED <<limit, quiet>>

Defer(t) ==
  /\ gate[t] = "checking"
  /\ inFlight >= limit
  /\ gate' = [gate EXCEPT ![t] = "deferred"]
  /\ UNCHANGED <<limit, inFlight, quiet, woken>>

\* The lock is released and the Notified is polled for the first time.
Await(t) ==
  /\ gate[t] = "deferred"
  /\ gate' = [gate EXCEPT ![t] = "waiting"]
  /\ UNCHANGED <<limit, inFlight, quiet, woken>>

\* The awaited Notified completes; the loop registers anew before rechecking.
Recheck(t) ==
  /\ gate[t] = "waiting"
  /\ t \in woken
  /\ gate' = [gate EXCEPT ![t] = "checking"]
  /\ woken' = woken \ {t}
  /\ UNCHANGED <<limit, inFlight, quiet>>

(***************************************************************************)
(* record_success() and record_error(): free the slot and adapt the limit  *)
(* under the lock, then wake every registered task.                        *)
(***************************************************************************)

\* FAULTY: only the tasks that already await, as if notified() were created
\* after the check.
AwaitingOnly == {t \in Tasks : gate[t] = "waiting"}

\* Every Notified created so far, polled or not: what notify_waiters() reaches.
Registered == {t \in Tasks : gate[t] \in {"checking", "deferred", "waiting"}}

Release(t) ==
  /\ gate[t] = "holding"
  /\ inFlight' = Larger(inFlight - 1, 0)
  /\ gate' = [gate EXCEPT ![t] = "notifying"]

\* FAULTY: halves without the floor.
ThrottleToNothing ==
  /\ limit' = limit \div 2
  /\ quiet' = FALSE

Throttle ==
  IF Enabled
    THEN limit' = Larger(limit \div 2, MinConcurrency) /\ quiet' = FALSE
    ELSE UNCHANGED <<limit, quiet>>

\* FAULTY: stops one short of the ceiling.
RecoverAlmost ==
  IF Enabled /\ limit + 1 < MaxConcurrency /\ quiet
    THEN limit' = limit + 1 /\ quiet' = FALSE /\ woken' = woken \cup Registered
    ELSE UNCHANGED <<limit, quiet, woken>>

MaybeRecover ==
  IF Enabled /\ limit < MaxConcurrency /\ quiet
    THEN limit' = limit + 1 /\ quiet' = FALSE /\ woken' = woken \cup Registered
    ELSE UNCHANGED <<limit, quiet, woken>>

\* slow: the round trip reached slow_threshold.
RecordSuccess(t, slow) ==
  /\ Release(t)
  /\ IF Enabled /\ slow THEN Throttle /\ UNCHANGED woken ELSE MaybeRecover

\* FAULTY: returns early on an error that is no congestion and keeps the slot.
RecordCongestionOnly(t, congested) ==
  /\ gate[t] = "holding"
  /\ gate' = [gate EXCEPT ![t] = "notifying"]
  /\ IF congested THEN Throttle /\ inFlight' = Larger(inFlight - 1, 0)
                  ELSE UNCHANGED <<limit, inFlight, quiet>>
  /\ UNCHANGED woken

\* congested: the error carries HTTP 429 or 502..504.
RecordError(t, congested) ==
  /\ Release(t)
  /\ IF congested THEN Throttle ELSE UNCHANGED <<limit, quiet>>
  /\ UNCHANGED woken

\* The call that follows drop(inner), in either function.
NotifyWaiters(t) ==
  /\ gate[t] = "notifying"
  /\ gate' = [gate EXCEPT ![t] = "out"]
  /\ woken' = woken \cup Registered
  /\ UNCHANGED <<limit, inFlight, quiet>>

\* recover_after passes with no congestion and no growth.
QuietElapses ==
  /\ Enabled /\ ~quiet
  /\ quiet' = TRUE
  /\ UNCHANGED <<limit, inFlight, gate, woken>>

Next ==
  \/ \E t \in Tasks :
       \/ Register(t) \/ Claim(t) \/ Defer(t) \/ Await(t) \/ Recheck(t)
       \/ NotifyWaiters(t)
       \/ \E signal \in BOOLEAN : RecordSuccess(t, signal) \/ RecordError(t, signal)
  \/ QuietElapses

\* Every send returns (request timeout and bounded retries), the runtime
\* polls every ready task, and wall-clock time passes.  Nothing obliges a task
\* to acquire again: the input may have ended.
Fairness ==
  /\ \A t \in Tasks :
       /\ WF_limiterVars(Claim(t) \/ Defer(t))
       /\ WF_limiterVars(Await(t))
       /\ WF_limiterVars(Recheck(t))
       /\ WF_limiterVars(NotifyWaiters(t))
       /\ WF_limiterVars(\E signal \in BOOLEAN :
                            RecordSuccess(t, signal) \/ RecordError(t, signal))
  /\ WF_limiterVars(QuietElapses)

Spec == Init /\ [][Next]_limiterVars
FairSpec == Spec /\ Fairness

(***************************************************************************)
(* Properties                                                              *)
(***************************************************************************)

\* Types, and the limit stays between its floor and its ceiling.
TypeOK ==
  /\ limit \in MinConcurrency..MaxConcurrency
  /\ inFlight \in Nat
  /\ quiet \in BOOLEAN
  /\ gate \in [Tasks -> {"out", "checking", "deferred", "waiting", "holding", "notifying"}]
  /\ woken \in SUBSET Tasks

\* adaptive.rs acquire: "a release between the check and the await cannot be
\* missed".  A task that has found no free slot and has no wake-up pending is
\* right to wait, whatever releases, throttles and recoveries came between its
\* check and its await: every slot is taken, or a release is about to notify.
NoLostWakeup ==
  \A t \in Tasks :
    gate[t] \in {"deferred", "waiting"} /\ t \notin woken =>
      inFlight >= limit \/ \E u \in Tasks : gate[u] = "notifying"

\* Each acquire is paired with exactly one record_*: the counter is the number
\* of sends in progress (saturating_sub never hides a mismatch), and there are
\* never more of them than max_concurrency.
InFlightExact == inFlight = Cardinality(Holders) /\ Cardinality(Holders) <= MaxConcurrency

\* A task that waits is eventually woken to check again, also when no other
\* task ever acquires again: no interleaving of releases strands it.
WaiterRechecks ==
  \A t \in Tasks : gate[t] = "waiting" ~> gate[t] # "waiting"

\* Module comment: "after recover_after with no further congestion it grows the
\* limit back".  If from some point on no congestion is recorded (the limit
\* never drops, the quiet period is only ever spent on growing it) and sends
\* keep succeeding, the limit returns to max_concurrency and stays there.
NoCongestion ==
  /\ limit' >= limit
  /\ quiet /\ ~quiet' => limit' > limit

LimitRecovers ==
  /\ <>[][NoCongestion]_limiterVars
  /\ []<><<\E t \in Tasks : RecordSuccess(t, FALSE)>>_limiterVars
  => <>[](limit = MaxConcurrency)

=============================================================================
