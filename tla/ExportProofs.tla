---------------------------- MODULE ExportProofs ----------------------------
(***************************************************************************)
(* Proofs about the export of a query and the calls of the client under it,*)
(* for any number of callers, attempts and faults, any result, framing and *)
(* size of a part, and any capacity of the channel.                        *)
(***************************************************************************)
EXTENDS Export, Induction

-----------------------------------------------------------------------------
(* What a step of the export is to the client *)

\* The runtime that drives the task is dropped, and its call with it.
Abandon(c) == call' = [call EXCEPT ![c] = Idle] /\ UNCHANGED <<auth, token, faults>>

CallerStep(c) ==
  \/ CallStep(c) \/ Abandon(c)
  \/ \E direct \in BOOLEAN : Begin(c, direct)
  \/ \E reply \in {"ok", "refused"} : Authorized(c) /\ Answer(c, reply)
  \/ call[c].pc \in {"auth", "sent"} /\ Lose(c)

LEMMA StepShape ==
  [Next]_vars =>
    (\E c \in Callers : CallerStep(c)) \/ Expire \/ Lapse \/ Revoke \/ UNCHANGED clientVars
<1> SUFFICES ASSUME [Next]_vars
             PROVE  (\E c \in Callers : CallerStep(c)) \/ Expire \/ Lapse \/ Revoke
                      \/ UNCHANGED clientVars
  OBVIOUS
<1>0. Task \in Callers
  BY ExportAssumption
<1>1. CASE TaskStep
  <2>1. CASE CallStep(Task)
    BY <1>0, <2>1 DEF CallerStep
  <2>2. CASE Served \/ CursorGone
    BY <1>0, <2>2 DEF Served, CursorGone, CallerStep
  <2>3. CASE Spawned
    BY <1>0, <2>3 DEF Spawned, CallerStep
  <2>4. CASE SendBatch
    BY <1>0, <2>4 DEF SendBatch, CallerStep
  <2>5. CASE NobodyListens
    BY <1>0, <2>5 DEF NobodyListens, CallerStep
  <2>6. CASE Fetched \/ FetchFailed \/ Disposed \/ SendError
    BY <2>6 DEF Fetched, FetchFailed, Disposed, SendError
  <2> QED
    BY <1>1, <2>1, <2>2, <2>3, <2>4, <2>5, <2>6 DEF TaskStep
<1>2. CASE ConsumerStep \/ ConsumerFails
  BY <1>2 DEF ConsumerStep, Start, Receive, Record, CutPart, LastPart, WriteManifest, ConsumerFails
<1>3. CASE ServedInSilence
  BY <1>0, <1>3 DEF ServedInSilence, Authorized, CallerStep
<1>4. CASE Exit
  BY <1>0, <1>4 DEF Exit, Abandon, CallerStep
<1>5. ASSUME NEW c \in Others, CallStep(c) \/ OtherCall(c)
      PROVE  \E e \in Callers : CallerStep(e)
  BY <1>5 DEF Others, OtherCall, CallerStep
<1>6. CASE Disturbance
  BY <1>6 DEF Disturbance, Bounce, CallerStep
<1>7. CASE CursorExpires \/ UNCHANGED vars
  BY <1>7 DEF CursorExpires, vars
<1> QED
  BY <1>1, <1>2, <1>3, <1>4, <1>5, <1>6, <1>7 DEF Next

-----------------------------------------------------------------------------
(* The client's types *)

\* The records of calls when n tokens have been issued.
Calls(n) ==
  [pc : {"idle", "auth", "storing", "sent", "replied", "over"}, direct : BOOLEAN,
   attempt : 1..MaxAttempts, refreshed : BOOLEAN, token : 0..n,
   reply : Replies, excused : BOOLEAN]

LEMMA MoreTokens == ASSUME NEW n \in Nat, NEW r \in Calls(n) PROVE r \in Calls(n + 1)
BY DEF Calls

LEMMA NewCall == ASSUME NEW n \in Nat PROVE Idle \in Calls(n)
BY ClientAssumption DEF Idle, Calls, Replies

LEMMA ClientTypePreserved == ClientTypeOK /\ [Next]_vars => ClientTypeOK'
<1> SUFFICES ASSUME ClientTypeOK, [Next]_vars PROVE ClientTypeOK'
  OBVIOUS
<1>0. MaxAttempts \in Nat \ {0} /\ MaxFaults \in Nat
  BY ClientAssumption
<1>t. /\ auth \in AuthModes /\ issued \in Nat /\ cache \in 0..issued /\ expiring \in 0..issued
       /\ dead \in -1..issued /\ call \in [Callers -> Calls(issued)] /\ faults \in 0..MaxFaults
  BY DEF ClientTypeOK, Calls
<1>. DEFINE Typed == /\ auth' \in AuthModes /\ issued' \in Nat /\ cache' \in 0..issued'
                     /\ expiring' \in 0..issued' /\ dead' \in -1..issued'
                     /\ faults' \in 0..MaxFaults
\* A step that replaces the record of one call.
<1>c. ASSUME NEW c \in Callers, NEW r \in Calls(issued), call' = [call EXCEPT ![c] = r],
               UNCHANGED issued
        PROVE  call' \in [Callers -> Calls(issued')]
  BY <1>t, <1>c
<1> SUFFICES Typed /\ call' \in [Callers -> Calls(issued')]
  BY DEF ClientTypeOK, Calls
<1> USE DEF token
<1>1. ASSUME NEW c \in Callers, CallerStep(c)
      PROVE  Typed /\ call' \in [Callers -> Calls(issued')]
  <2>0. call[c] \in Calls(issued)
    BY <1>t
  <2>1. CASE UseCached(c)
    <3>1. [call[c] EXCEPT !.pc = "sent", !.token = cache] \in Calls(issued)
      BY <1>t, <2>0 DEF Calls
    <3> QED
      BY <1>t, <1>c, <2>1, <3>1 DEF UseCached
  <2>2. CASE Obtain(c)
    <3>1. [call[c] EXCEPT !.pc = "storing", !.token = issued + 1] \in Calls(issued + 1)
      <4>1. issued + 1 \in 0..(issued + 1) /\ call[c] \in Calls(issued + 1)
        BY <1>t, <2>0, MoreTokens
      <4> QED
        BY <4>1 DEF Calls
    <3>2. call \in [Callers -> Calls(issued + 1)]
      BY <1>t, MoreTokens
    <3> QED
      BY <1>t, <2>2, <3>1, <3>2 DEF Obtain, NextToken
  <2>3. CASE Store(c)
    <3>1. [call[c] EXCEPT !.pc = "sent"] \in Calls(issued) /\ call[c].token \in 0..issued
      BY <2>0 DEF Calls
    <3> QED
      BY <1>t, <1>c, <2>3, <3>1 DEF Store, Move
  <2>4. ASSUME NEW reply \in {"ok", "refused", "unauthorized"}, Answer(c, reply)
        PROVE  Typed /\ call' \in [Callers -> Calls(issued')]
    <3>1. [call[c] EXCEPT !.pc = "replied", !.reply = reply] \in Calls(issued)
      BY <2>0 DEF Calls, Replies
    <3> QED
      BY <1>t, <1>c, <2>4, <3>1 DEF Answer
  <2>5. CASE Refresh(c)
    <3>1. [call[c] EXCEPT !.pc = "auth", !.refreshed = TRUE] \in Calls(issued)
      BY <2>0 DEF Calls
    <3> QED
      BY <1>t, <1>c, <2>5, <3>1 DEF Refresh
  <2>6. CASE Retry(c)
    <3>1. [call[c] EXCEPT !.pc = "auth", !.attempt = @ + 1, !.refreshed = FALSE] \in Calls(issued)
      <4>1. call[c].attempt \in 1..MaxAttempts /\ call[c].attempt < MaxAttempts
        BY <2>0, <2>6 DEF Retry, Calls
      <4>2. call[c].attempt + 1 \in 1..MaxAttempts
        BY <1>0, <4>1
      <4> QED
        BY <2>0, <4>2 DEF Calls
    <3> QED
      BY <1>t, <1>c, <2>6, <3>1 DEF Retry
  <2>7. CASE Return(c)
    <3>1. [call[c] EXCEPT !.pc = "over"] \in Calls(issued)
      BY <2>0 DEF Calls
    <3> QED
      BY <1>t, <1>c, <2>7, <3>1 DEF Return, Move
  <2>8. CASE Abandon(c)
    BY <1>t, <1>c, <2>8, NewCall DEF Abandon
  <2>9. ASSUME NEW direct \in BOOLEAN, Begin(c, direct)
        PROVE  Typed /\ call' \in [Callers -> Calls(issued')]
    <3>1. StaleInFlight(c) \in BOOLEAN
      BY DEF StaleInFlight
    <3>2. Fresh(c, direct) \in Calls(issued)
      BY <1>t, <3>1, NewCall DEF Fresh, Calls
    <3> QED
      BY <1>t, <1>c, <2>9, <3>2 DEF Begin
  <2>10. CASE Lose(c)
    <3>1. [call[c] EXCEPT !.pc = "replied", !.reply = "transient"] \in Calls(issued)
      BY <2>0 DEF Calls, Replies
    <3> QED
      BY <1>0, <1>t, <1>c, <2>10, <3>1 DEF Lose
  <2> QED
    BY <1>1, <2>1, <2>2, <2>3, <2>4, <2>5, <2>6, <2>7, <2>8, <2>9, <2>10
       DEF CallerStep, CallStep, Unauthorized
<1>2. CASE Expire
  BY <1>0, <1>t, <1>2 DEF Expire
<1>3. CASE Lapse \/ Revoke
  <2>1. Excuse /\ issued' = issued
    BY <1>3 DEF Lapse, Revoke
  <2>2. \A c \in Callers : [call[c] EXCEPT !.excused = TRUE] \in Calls(issued)
    BY <1>t DEF Calls
  <2>3. call' \in [Callers -> Calls(issued')]
    BY <1>t, <2>1, <2>2 DEF Excuse
  <2> QED
    BY <1>0, <1>t, <1>3, <2>3 DEF Lapse, Revoke
<1>4. CASE UNCHANGED clientVars
  BY <1>t, <1>4 DEF clientVars
<1> QED
  BY <1>1, <1>2, <1>3, <1>4, StepShape

LEMMA ClientTypeCorrect == Spec => []ClientTypeOK
<1>1. Init => ClientTypeOK
  BY ClientAssumption DEF Init, ClientInit, ClientTypeOK, Idle, Replies
<1> QED
  BY <1>1, ClientTypePreserved, PTL DEF Spec

-----------------------------------------------------------------------------
(* A refused call is excused *)

UnderWay == {"auth", "storing", "sent", "replied"}

\* While a call runs without an excuse nobody is about to cache a dead token;
\* once it has refreshed, the cache holds none either, nor does the call, and it
\* is not refused again.
Unrefused(c) ==
  call[c].pc \in UnderWay /\ ~call[c].excused =>
    /\ \A d \in Callers : call[d].pc = "storing" => call[d].token > dead
    /\ call[c].refreshed =>
         /\ auth # "static"
         /\ cache = 0 \/ cache > dead
         /\ call[c].pc = "sent" => call[c].token > dead
         /\ call[c].pc = "replied" => call[c].reply # "unauthorized"

NoneRefused == \A c \in Callers : Unrefused(c)

LEMMA UnrefusedPreserved ==
  ClientTypeOK /\ NoneRefused /\ RefusalExcused /\ [Next]_vars => NoneRefused' /\ RefusalExcused'
<1> SUFFICES ASSUME ClientTypeOK, NoneRefused, RefusalExcused, [Next]_vars
             PROVE  NoneRefused' /\ RefusalExcused'
  OBVIOUS
<1>t. /\ issued \in Nat /\ cache \in 0..issued /\ dead \in -1..issued
      /\ call \in [Callers -> Calls(issued)]
  BY DEF ClientTypeOK, Calls
<1>0. \A c \in Callers : call[c] \in Calls(issued) /\ DOMAIN call = Callers
  BY <1>t
<1>n. \A c \in Callers : Unrefused(c)
  BY DEF NoneRefused
<1> DEFINE Kept == NoneRefused' /\ RefusalExcused'
<1> USE DEF token
\* It is enough to look at the caller that moves, if it leaves the others no
\* dead token and does not withdraw tokens.
<1>c. ASSUME NEW c \in Callers, NEW r \in Calls(issued'), call' = [call EXCEPT ![c] = r],
             dead' = dead, auth' = auth,
             \A d \in Callers \ {c} : call[d].pc \in UnderWay /\ ~call[d].excused =>
               cache' \in {0, cache} \/ cache' > dead,
             r.pc = "storing" => r.token > dead,
             r.pc \in UnderWay /\ ~r.excused =>
               /\ \A d \in Callers \ {c} : call[d].pc = "storing" => call[d].token > dead
               /\ r.refreshed =>
                    /\ auth # "static"
                    /\ cache' = 0 \/ cache' > dead
                    /\ r.pc = "sent" => r.token > dead
                    /\ r.pc = "replied" => r.reply # "unauthorized",
             r.pc = "over" /\ r.reply = "unauthorized" /\ auth # "static" /\ ~r.direct => r.excused
      PROVE  Kept
  <2>1. /\ call'[c] = r
        /\ \A d \in Callers \ {c} : call'[d] = call[d]
    BY <1>t, <1>c
  <2>2. Unrefused(c)'
    BY <1>c, <2>1 DEF Unrefused
  <2>3. ASSUME NEW d \in Callers \ {c} PROVE Unrefused(d)'
    BY <1>c, <1>n, <2>1, <2>3 DEF Unrefused
  <2>4. RefusalExcused'
    BY <1>c, <2>1 DEF RefusalExcused, CanRefresh
  <2> QED
    BY <2>2, <2>3, <2>4 DEF NoneRefused
<1>1. ASSUME NEW c \in Callers, CallerStep(c) PROVE Kept
  <2>0. call[c] \in Calls(issued) /\ Unrefused(c)
    BY <1>0, <1>n
  <2>t. ClientTypeOK'
    BY ClientTypePreserved
  <2>r. call' \in [Callers -> Calls(issued')] /\ call'[c] \in Calls(issued')
    BY <2>t DEF ClientTypeOK, Calls
  <2>u. call[c].pc \in UnderWay /\ ~call[c].excused =>
          \A d \in Callers : call[d].pc = "storing" => call[d].token > dead
    BY <2>0 DEF Unrefused
  <2>1. CASE UseCached(c)
    <3> DEFINE r == [call[c] EXCEPT !.pc = "sent", !.token = cache]
    <3>1. call' = [call EXCEPT ![c] = r] /\ call[c].pc = "auth" /\ Usable
      BY <1>t, <2>1 DEF UseCached
    <3>2. /\ r.pc = "sent" /\ r.token = cache
          /\ r.refreshed = call[c].refreshed /\ r.excused = call[c].excused
      BY <2>0 DEF Calls
    <3>3. r \in Calls(issued')
      BY <1>t, <2>1, <2>0 DEF UseCached, Calls
    <3> HIDE DEF r
    <3> QED
      BY <1>c, <2>0, <2>1, <2>u, <3>1, <3>2, <3>3 DEF UseCached, Usable, Unrefused, UnderWay
  <2>2. CASE Obtain(c)
    <3> DEFINE r == [call[c] EXCEPT !.pc = "storing", !.token = issued + 1]
    <3>1. call' = [call EXCEPT ![c] = r] /\ call[c].pc = "auth"
      BY <1>t, <2>2 DEF Obtain, NextToken
    <3>2. /\ r.pc = "storing" /\ r.token = issued + 1
          /\ r.refreshed = call[c].refreshed /\ r.excused = call[c].excused
      BY <2>0 DEF Calls
    <3>3. r \in Calls(issued')
      BY <2>r, <3>1, <2>0, <1>t
    <3>4. r.token > dead
      BY <1>t, <3>2
    <3> HIDE DEF r
    <3> QED
      BY <1>c, <2>0, <2>2, <2>u, <3>1, <3>2, <3>3, <3>4 DEF Obtain, NextToken, Unrefused, UnderWay
  <2>3. CASE Store(c)
    <3> DEFINE r == [call[c] EXCEPT !.pc = "sent"]
    <3>1. call' = [call EXCEPT ![c] = r] /\ call[c].pc = "storing" /\ cache' = call[c].token
      BY <1>t, <2>3 DEF Store, Move
    <3>2. /\ r.pc = "sent" /\ r.token = call[c].token
          /\ r.refreshed = call[c].refreshed /\ r.excused = call[c].excused
      BY <2>0 DEF Calls
    <3>3. r \in Calls(issued')
      BY <2>r, <3>1, <2>0, <1>t
    <3>4. \A d \in Callers : call[d].pc \in UnderWay /\ ~call[d].excused => cache' > dead
      BY <1>n, <3>1 DEF Unrefused
    <3> HIDE DEF r
    <3> QED
      BY <1>c, <2>0, <2>3, <2>u, <3>1, <3>2, <3>3, <3>4 DEF Store, Unrefused, UnderWay
  <2>4. ASSUME NEW reply, Answer(c, reply), call[c].pc = "sent",
               reply \in {"ok", "refused"} \/ (reply = "unauthorized" /\ ~(call[c].token > dead))
        PROVE  Kept
    <3> DEFINE r == [call[c] EXCEPT !.pc = "replied", !.reply = reply]
    <3>1. call' = [call EXCEPT ![c] = r]
      BY <1>t, <2>4 DEF Answer
    <3>2. /\ r.pc = "replied" /\ r.reply = reply
          /\ r.refreshed = call[c].refreshed /\ r.excused = call[c].excused
      BY <2>0 DEF Calls
    <3>3. r \in Calls(issued')
      BY <2>r, <3>1, <2>0, <1>t
    <3> HIDE DEF r
    <3> QED
      BY <1>c, <2>0, <2>4, <2>u, <3>1, <3>2, <3>3 DEF Answer, Unrefused, UnderWay
  <2>5. CASE Refresh(c)
    <3> DEFINE r == [call[c] EXCEPT !.pc = "auth", !.refreshed = TRUE]
    <3>1. call' = [call EXCEPT ![c] = r] /\ call[c].pc = "replied" /\ cache' = 0 /\ auth # "static"
      BY <1>t, <2>5 DEF Refresh, CanRefresh
    <3>2. r.pc = "auth" /\ r.excused = call[c].excused
      BY <2>0 DEF Calls
    <3>3. r \in Calls(issued')
      BY <2>r, <3>1, <2>0, <1>t
    <3> HIDE DEF r
    <3> QED
      BY <1>c, <2>0, <2>5, <2>u, <3>1, <3>2, <3>3 DEF Refresh, UnderWay
  <2>6. CASE Retry(c)
    <3> DEFINE r == [call[c] EXCEPT !.pc = "auth", !.attempt = @ + 1, !.refreshed = FALSE]
    <3>1. call' = [call EXCEPT ![c] = r] /\ call[c].pc = "replied"
      BY <1>t, <2>6 DEF Retry
    <3>2. r.pc = "auth" /\ r.refreshed = FALSE /\ r.excused = call[c].excused
      BY <2>0 DEF Calls
    <3>3. r \in Calls(issued')
      BY <2>r, <3>1, <2>0, <1>t
    <3> HIDE DEF r
    <3> QED
      BY <1>c, <2>0, <2>6, <2>u, <3>1, <3>2, <3>3 DEF Retry, UnderWay
  <2>7. CASE Return(c)
    <3> DEFINE r == [call[c] EXCEPT !.pc = "over"]
    <3>1. call' = [call EXCEPT ![c] = r] /\ call[c].pc = "replied"
      BY <1>t, <2>7 DEF Return, Move
    <3>2. /\ r.pc = "over" /\ r.reply = call[c].reply /\ r.direct = call[c].direct
          /\ r.refreshed = call[c].refreshed /\ r.excused = call[c].excused
      BY <2>0 DEF Calls
    <3>3. r \in Calls(issued')
      BY <2>r, <3>1, <2>0, <1>t
    <3>4. r.reply = "unauthorized" /\ auth # "static" /\ ~r.direct => r.refreshed
      BY <2>7, <3>2 DEF Return, CanRefresh, Retryable
    <3> HIDE DEF r
    <3> QED
      BY <1>c, <2>0, <2>7, <3>1, <3>2, <3>3, <3>4 DEF Return, Unrefused, UnderWay
  <2>8. CASE Abandon(c)
    <3>1. Idle \in Calls(issued') /\ Idle.pc = "idle"
      BY <1>t, <2>8, NewCall DEF Abandon, Idle
    <3> QED
      BY <1>c, <2>8, <3>1 DEF Abandon, UnderWay
  <2>9. ASSUME NEW direct \in BOOLEAN, Begin(c, direct) PROVE Kept
    <3>1. call' = [call EXCEPT ![c] = Fresh(c, direct)]
      BY <2>9 DEF Begin
    <3>2. /\ Fresh(c, direct).pc = "auth" /\ Fresh(c, direct).refreshed = FALSE
          /\ Fresh(c, direct).excused = StaleInFlight(c)
      BY DEF Fresh, Idle
    <3>3. Fresh(c, direct) \in Calls(issued')
      BY <2>r, <3>1, <2>0, <1>t
    <3>4. ~StaleInFlight(c) =>
            \A d \in Callers \ {c} : call[d].pc = "storing" => call[d].token > dead
      <4>1. \A d \in Callers : call[d].token \in Int
        BY <1>0, <1>t DEF Calls
      <4> QED
        BY <1>t, <4>1 DEF StaleInFlight
    <3> QED
      BY <1>c, <2>9, <3>1, <3>2, <3>3, <3>4 DEF Begin, UnderWay
  <2>10. CASE call[c].pc \in {"auth", "sent"} /\ Lose(c)
    <3> DEFINE r == [call[c] EXCEPT !.pc = "replied", !.reply = "transient"]
    <3>1. call' = [call EXCEPT ![c] = r]
      BY <1>t, <2>10 DEF Lose
    <3>2. /\ r.pc = "replied" /\ r.reply = "transient"
          /\ r.refreshed = call[c].refreshed /\ r.excused = call[c].excused
      BY <2>0 DEF Calls
    <3>3. r \in Calls(issued')
      BY <2>r, <3>1, <2>0, <1>t
    <3> HIDE DEF r
    <3> QED
      BY <1>c, <2>0, <2>10, <2>u, <3>1, <3>2, <3>3 DEF Lose, Unrefused, UnderWay
  <2> QED
    BY <1>1, <2>1, <2>2, <2>3, <2>4, <2>5, <2>6, <2>7, <2>8, <2>9, <2>10
       DEF CallerStep, CallStep, Unauthorized, Authorized
<1>2. CASE Expire \/ UNCHANGED clientVars
  BY <1>2, <1>n DEF Expire, clientVars, NoneRefused, Unrefused, RefusalExcused, CanRefresh
\* Whoever is under way when tokens are withdrawn has an excuse.
<1>3. CASE Lapse \/ Revoke
  <2>1. Excuse /\ auth' = auth
    BY <1>3 DEF Lapse, Revoke
  <2>2. ASSUME NEW c \in Callers PROVE Unrefused(c)' /\ (call'[c].pc = "over" => call'[c] = call[c])
    <3>1. CASE call[c].pc \in {"idle", "over"}
      <4>1. call'[c] = call[c]
        BY <2>1, <3>1 DEF Excuse
      <4> QED
        BY <3>1, <4>1 DEF Unrefused, UnderWay
    <3>2. CASE call[c].pc \notin {"idle", "over"}
      <4>1. call'[c] = [call[c] EXCEPT !.excused = TRUE]
        BY <2>1, <3>2 DEF Excuse
      <4>2. call'[c].excused = TRUE /\ call'[c].pc = call[c].pc
        BY <1>0, <4>1 DEF Calls
      <4> QED
        BY <3>2, <4>2 DEF Unrefused
    <3> QED
      BY <3>1, <3>2
  <2> QED
    BY <2>1, <2>2 DEF NoneRefused, RefusalExcused, CanRefresh
<1> QED
  BY <1>1, <1>2, <1>3, StepShape

\* A call that refreshes its token is refused only if tokens lapsed or were
\* withdrawn while it ran, or another caller was about to cache a dead one when
\* it began (send_body, "a second 401 is a real credential failure").
THEOREM RefusalExcusedCorrect == Spec => []RefusalExcused
<1>1. Init => NoneRefused /\ RefusalExcused
  BY DEF Init, ClientInit, NoneRefused, Unrefused, UnderWay, RefusalExcused, Idle
<1> QED
  BY <1>1, UnrefusedPreserved, ClientTypeCorrect, PTL DEF Spec

-----------------------------------------------------------------------------
(* The task and its cursor *)

\* The request of the task has succeeded and the task knows, or is about to.
Answered == call[Task].pc \in {"replied", "over"} /\ call[Task].reply = "ok"

\* What the task is doing agrees with the batch it holds.
Fetching ==
  /\ batch.more <=> batch.id # 0
  /\ task = "spawned" => ~Answered
  /\ task \in {"spawned", "opening"} /\ ~Answered =>
       batch.id = 0 /\ (leaky \/ cursors = << >>)
  /\ task = "opening" /\ Answered => batch.number # 0
  /\ task \in {"fetching", "sending", "deleting"} => batch.number # 0
  /\ task = "fetching" /\ ~Answered => batch.id # 0
  /\ task = "deleting" => batch.id # 0
  /\ task = "failing" => leaky

\* At most the cursor of that batch is open, and none once it was released.
OneCursor ==
  \/ leaky
  \/ /\ \A k \in DOMAIN cursors : cursors[k] # 0 => k = batch.id
     /\ task = "deleting" /\ Answered => cursors[batch.id] = 0
     /\ task = "ended" => \A k \in DOMAIN cursors : cursors[k] = 0

Cursors == Seq(0..Len(query))
BatchesUpTo(n) == [number : 0..Len(query), id : 0..n, more : BOOLEAN]

FetchTypes ==
  /\ query \in Queries
  /\ cursors \in Cursors
  /\ batch \in BatchesUpTo(Len(cursors))
  /\ task \in Requests \cup {"spawned", "sending", "failing", "ended", "killed"}
  /\ leaky \in BOOLEAN

Inv == FetchTypes /\ Fetching /\ OneCursor

LEMMA QueryLength == ASSUME query \in Queries PROVE Len(query) \in Nat \ {0}
BY ExportAssumption

\* A step of the client that is no answer to the task's request.
Aloof ==
  \/ CallStep(Task)
  \/ call[Task].pc = "sent" /\ Lose(Task)
  \/ call[Task].pc = "sent" /\ Answer(Task, "refused")
  \/ Disturbance
  \/ \E c \in Others : CallStep(c) \/ OtherCall(c)

LEMMA AnsweredKept ==
  ASSUME ClientTypeOK, Aloof PROVE Answered' <=> Answered
<1>t. Task \in Callers /\ call \in [Callers -> Calls(issued)] /\ call[Task] \in Calls(issued)
  BY ExportAssumption DEF ClientTypeOK, Calls
\* The steps that replace the record of the task's own call.
<1>a. ASSUME NEW r, call' = [call EXCEPT ![Task] = r],
             (r.pc \in {"replied", "over"} /\ r.reply = "ok") <=> Answered
      PROVE  Answered' <=> Answered
  BY <1>t, <1>a DEF Answered
\* Those of the others.
<1>o. ASSUME NEW c \in Callers \ {Task}, NEW r, call' = [call EXCEPT ![c] = r]
      PROVE  Answered' <=> Answered
  BY <1>t, <1>o DEF Answered
<1>1. CASE CallStep(Task)
  <2>1. CASE UseCached(Task)
    <3>1. /\ call' = [call EXCEPT ![Task] = [call[Task] EXCEPT !.pc = "sent", !.token = cache]]
          /\ ~Answered
      BY <1>t, <2>1 DEF UseCached, Answered
    <3>2. [call[Task] EXCEPT !.pc = "sent", !.token = cache].pc = "sent"
      BY <1>t DEF Calls
    <3> QED
      BY <1>a, <3>1, <3>2
  <2>2. CASE Obtain(Task)
    <3>1. /\ call' = [call EXCEPT ![Task] = [call[Task] EXCEPT !.pc = "storing", !.token = NextToken]]
          /\ ~Answered
      BY <1>t, <2>2 DEF Obtain, Answered
    <3>2. [call[Task] EXCEPT !.pc = "storing", !.token = NextToken].pc = "storing"
      BY <1>t DEF Calls
    <3> QED
      BY <1>a, <3>1, <3>2
  <2>3. CASE Store(Task)
    <3>1. /\ call' = [call EXCEPT ![Task] = [call[Task] EXCEPT !.pc = "sent"]]
          /\ ~Answered
      BY <1>t, <2>3 DEF Store, Move, Answered
    <3>2. [call[Task] EXCEPT !.pc = "sent"].pc = "sent"
      BY <1>t DEF Calls
    <3> QED
      BY <1>a, <3>1, <3>2
  <2>4. CASE Unauthorized(Task)
    <3>1. /\ call' = [call EXCEPT ![Task] = [call[Task] EXCEPT !.pc = "replied", !.reply = "unauthorized"]]
          /\ ~Answered
      BY <1>t, <2>4 DEF Unauthorized, Answer, Answered
    <3>2. [call[Task] EXCEPT !.pc = "replied", !.reply = "unauthorized"].reply = "unauthorized"
      BY <1>t DEF Calls
    <3> QED
      BY <1>a, <3>1, <3>2
  <2>5. CASE Refresh(Task)
    <3>1. /\ call' = [call EXCEPT ![Task] = [call[Task] EXCEPT !.pc = "auth", !.refreshed = TRUE]]
          /\ ~Answered
      BY <1>t, <2>5 DEF Refresh, Answered
    <3>2. [call[Task] EXCEPT !.pc = "auth", !.refreshed = TRUE].pc = "auth"
      BY <1>t DEF Calls
    <3> QED
      BY <1>a, <3>1, <3>2
  <2>6. CASE Retry(Task)
    <3> DEFINE r == [call[Task] EXCEPT !.pc = "auth", !.attempt = @ + 1, !.refreshed = FALSE]
    <3>1. call' = [call EXCEPT ![Task] = r] /\ ~Answered
      BY <1>t, <2>6 DEF Retry, Retryable, Answered
    <3>2. r.pc = "auth"
      BY <1>t DEF Calls
    <3> QED
      BY <1>a, <3>1, <3>2
  <2>7. CASE Return(Task)
    <3> DEFINE r == [call[Task] EXCEPT !.pc = "over"]
    <3>1. call' = [call EXCEPT ![Task] = r] /\ call[Task].pc = "replied"
      BY <1>t, <2>7 DEF Return, Move
    <3>2. r.pc = "over" /\ r.reply = call[Task].reply
      BY <1>t DEF Calls
    <3>3. (r.pc \in {"replied", "over"} /\ r.reply = "ok") <=> Answered
      BY <3>1, <3>2 DEF Answered
    <3> HIDE DEF r
    <3> QED
      BY <1>a, <3>1, <3>3
  <2> QED
    BY <1>1, <2>1, <2>2, <2>3, <2>4, <2>5, <2>6, <2>7 DEF CallStep
<1>2. ASSUME NEW reply \in {"refused", "transient"}, call[Task].pc \in {"sent", "auth"},
             call' = [call EXCEPT ![Task].pc = "replied", ![Task].reply = reply]
      PROVE  Answered' <=> Answered
  <2>1. call' = [call EXCEPT ![Task] = [call[Task] EXCEPT !.pc = "replied", !.reply = reply]]
        /\ ~Answered
    BY <1>t, <1>2 DEF Answered
  <2>2. [call[Task] EXCEPT !.pc = "replied", !.reply = reply].reply = reply
    BY <1>t DEF Calls
  <2> QED
    BY <1>a, <2>1, <2>2
<1>3. ASSUME NEW c \in Callers \ {Task},
             CallStep(c) \/ OtherCall(c) \/ Lose(c)
      PROVE  Answered' <=> Answered
  <2>1. \E r : call' = [call EXCEPT ![c] = r]
    <3>1. CASE CallStep(c)
      BY <1>t, <3>1 DEF CallStep, UseCached, Obtain, Store, Move, Unauthorized, Answer, Refresh,
                        Retry, Return
    <3>2. CASE OtherCall(c)
      BY <1>t, <3>2 DEF OtherCall, Begin, Answer
    <3>3. CASE Lose(c)
      BY <1>t, <3>3 DEF Lose
    <3> QED
      BY <1>3, <3>1, <3>2, <3>3
  <2> QED
    BY <1>o, <2>1
<1>4. CASE Disturbance
  <2>1. ASSUME NEW c \in Callers, Bounce(c) PROVE Answered' <=> Answered
    <3>1. CASE c = Task
      BY <1>2, <2>1, <3>1 DEF Bounce, Lose
    <3>2. CASE c # Task
      BY <1>3, <2>1, <3>2 DEF Bounce
    <3> QED
      BY <3>1, <3>2
  <2>2. CASE Expire
    BY <2>2 DEF Expire, Answered
  <2>3. CASE Excuse
    <3>1. call'[Task] = IF call[Task].pc \in {"idle", "over"} THEN call[Task]
                        ELSE [call[Task] EXCEPT !.excused = TRUE]
      BY <1>t, <2>3 DEF Excuse
    <3>2. call'[Task].pc = call[Task].pc /\ call'[Task].reply = call[Task].reply
      BY <1>t, <3>1 DEF Calls
    <3> QED
      BY <3>2 DEF Answered
  <2> QED
    BY <1>4, <2>1, <2>2, <2>3 DEF Disturbance, Lapse, Revoke
<1> QED
  BY <1>1, <1>2, <1>3, <1>4 DEF Aloof, Answer, Lose, Others

\* What a request does on the server, and what its answer says.
LEMMA EffectShape ==
  ASSUME FetchTypes, task \in Requests, NEW b \in Batches, Effect(b),
         task # "opening" => batch.id # 0
  PROVE  /\ cursors' \in Cursors /\ Len(cursors') >= Len(cursors)
         /\ b \in BatchesUpTo(Len(cursors')) /\ b.number # 0
         /\ task = "opening" /\ cursors = << >> => \A k \in DOMAIN cursors' : k = b.id
         /\ task \in {"opening", "fetching"} => (b.more <=> b.id # 0)
         /\ task \in {"fetching", "deleting"} =>
              /\ DOMAIN cursors' = DOMAIN cursors
              /\ \A k \in DOMAIN cursors : k # batch.id => cursors'[k] = cursors[k]
              /\ b.id = batch.id \/ (b.id = 0 /\ cursors'[batch.id] = 0)
         /\ task = "deleting" => b = batch /\ cursors'[batch.id] = 0
<1>n. Len(query) \in Nat \ {0} /\ cursors \in Seq(0..Len(query)) /\ Len(cursors) \in Nat
  BY QueryLength, LenProperties DEF FetchTypes, Cursors
<1>b. /\ b.number \in 1..Len(query) /\ b.more \in BOOLEAN
      /\ b = [number |-> b.number, id |-> b.id, more |-> b.more]
  BY DEF Batches
<1>c. batch.id \in 0..Len(cursors)
  BY DEF FetchTypes, BatchesUpTo
\* One cursor changes.
<1>e. ASSUME batch.id # 0, NEW v \in 0..Len(query), cursors' = [cursors EXCEPT ![batch.id] = v]
      PROVE  /\ cursors' \in Cursors /\ Len(cursors') = Len(cursors)
             /\ DOMAIN cursors' = DOMAIN cursors /\ cursors'[batch.id] = v
             /\ \A k \in DOMAIN cursors : k # batch.id => cursors'[k] = cursors[k]
  <2>1. batch.id \in 1..Len(cursors) /\ DOMAIN cursors = 1..Len(cursors)
    BY <1>n, <1>c, <1>e, LenProperties
  <2>2. cursors' \in Cursors /\ Len(cursors') = Len(cursors)
    BY <1>n, <1>e, <2>1, ExceptSeq DEF Cursors
  <2> QED
    BY <1>e, <2>1, <2>2
<1>1. CASE task = "opening"
  <2>0. Open(b)
    BY <1>1 DEF Effect
  <2>1. CASE Len(query) > 1
    <3>1. cursors' = Append(cursors, 2) /\ b = [number |-> 1, id |-> Len(cursors) + 1, more |-> TRUE]
      BY <1>n, <2>0, <2>1 DEF Open, Batch
    <3>2. /\ cursors' \in Cursors /\ Len(cursors') = Len(cursors) + 1
      BY <1>n, <2>1, <3>1, AppendProperties DEF Cursors
    <3>3. b.id = Len(cursors) + 1 /\ b.more = TRUE
      BY <3>1
    <3>4. b \in BatchesUpTo(Len(cursors'))
      BY <1>n, <1>b, <3>2, <3>3 DEF BatchesUpTo
    <3>5. cursors = << >> => DOMAIN cursors' = {1} /\ b.id = 1
      BY <1>n, <3>1, <3>2, <3>3, LenProperties, EmptySeq DEF Cursors
    <3> QED
      BY <1>1, <1>n, <1>b, <3>2, <3>3, <3>4, <3>5
  <2>2. CASE ~(Len(query) > 1)
    <3>1. cursors' = cursors /\ b = Batch(1, 0)
      BY <2>0, <2>2 DEF Open
    <3>2. b.id = 0 /\ ~b.more
      <4>1. b.id = 0 /\ (b.more <=> 1 < Len(query))
        BY <3>1 DEF Batch
      <4> QED
        BY <1>n, <2>2, <4>1
    <3>3. b \in BatchesUpTo(Len(cursors'))
      BY <1>n, <1>b, <3>1, <3>2 DEF BatchesUpTo
    <3> QED
      BY <1>1, <1>n, <1>b, <3>1, <3>2, <3>3 DEF Cursors
  <2> QED
    BY <2>1, <2>2
<1>2. CASE task = "fetching"
  <2> DEFINE n == cursors[batch.id]
  <2>0. Advance(b)
    BY <1>2 DEF Effect
  <2>1. batch.id \in 1..Len(cursors)
    BY <1>2, <1>c, <1>n
  <2>2. n \in 0..Len(query) /\ n # 0
    BY <1>n, <2>0, <2>1, ElementOfSeq DEF Advance
  <2>3. CASE n < Len(query)
    <3>1. cursors' = [cursors EXCEPT ![batch.id] = n + 1] /\ b = Batch(n, batch.id)
      BY <2>0, <2>3 DEF Advance
    <3>2. b.id = batch.id /\ b.more = TRUE
      BY <2>3, <3>1 DEF Batch
    <3>3. n + 1 \in 0..Len(query)
      BY <1>n, <2>2, <2>3
    <3>4. b \in BatchesUpTo(Len(cursors))
      <4>1. b.number \in 0..Len(query) /\ b.id \in 0..Len(cursors) /\ b.more \in BOOLEAN
        BY <1>b, <1>c, <1>n, <3>2
      <4> QED
        BY <1>b, <4>1 DEF BatchesUpTo
    <3>5. batch.id # 0
      BY <1>n, <2>1
    <3> HIDE DEF n
    <3>6. /\ cursors' \in Cursors /\ Len(cursors') = Len(cursors)
          /\ DOMAIN cursors' = DOMAIN cursors
          /\ \A k \in DOMAIN cursors : k # batch.id => cursors'[k] = cursors[k]
      BY <1>e, <3>1, <3>3, <3>5
    <3>7. (b.more <=> b.id # 0) /\ task # "opening" /\ task # "deleting"
      BY <1>2, <3>2, <3>5, Zenon
    <3>8. b.number # 0
      BY <1>b
    <3>9. b \in BatchesUpTo(Len(cursors')) /\ Len(cursors') >= Len(cursors)
      BY <1>n, <3>4, <3>6
    <3> QED
      BY <3>2, <3>6, <3>7, <3>8, <3>9, Zenon
  <2>4. CASE ~(n < Len(query))
    <3>1. cursors' = [cursors EXCEPT ![batch.id] = 0] /\ b = Batch(n, batch.id)
      BY <2>0, <2>4 DEF Advance
    <3>2. b.id = 0 /\ ~b.more
      BY <2>4, <3>1 DEF Batch
    <3>3. 0 \in 0..Len(query)
      BY <1>n
    <3>4. b \in BatchesUpTo(Len(cursors))
      BY <1>b, <1>n, <3>2 DEF BatchesUpTo
    <3>5. batch.id # 0
      BY <1>n, <2>1
    <3>6. /\ cursors' \in Cursors /\ Len(cursors') = Len(cursors)
          /\ DOMAIN cursors' = DOMAIN cursors /\ cursors'[batch.id] = 0
          /\ \A k \in DOMAIN cursors : k # batch.id => cursors'[k] = cursors[k]
      BY <1>e, <3>1, <3>3, <3>5
    <3> QED
      BY <1>2, <1>b, <1>n, <3>2, <3>4, <3>6
  <2> QED
    BY <2>3, <2>4
<1>3. CASE task = "deleting"
  <2>1. cursors' = [cursors EXCEPT ![batch.id] = 0] /\ b = batch
    BY <1>3 DEF Effect, Dispose
  <2>2. 0 \in 0..Len(query)
    BY <1>n
  <2>3. b \in BatchesUpTo(Len(cursors))
    BY <2>1 DEF FetchTypes
  <2> QED
    <3>6. /\ cursors' \in Cursors /\ Len(cursors') = Len(cursors)
          /\ DOMAIN cursors' = DOMAIN cursors /\ cursors'[batch.id] = 0
          /\ \A k \in DOMAIN cursors : k # batch.id => cursors'[k] = cursors[k]
      BY <1>3, <1>e, <2>1, <2>2
    <3> QED
      BY <1>3, <1>b, <1>n, <2>1, <2>3, <3>6
<1> QED
  BY <1>1, <1>2, <1>3 DEF Requests

LEMMA NotYetAnswered ==
  ASSUME ClientTypeOK, Begin(Task, FALSE) \/ Lose(Task) PROVE ~Answered'
<1>t. Task \in Callers /\ call \in [Callers -> Calls(issued)] /\ call[Task] \in Calls(issued)
  BY ExportAssumption DEF ClientTypeOK, Calls
<1>1. CASE Begin(Task, FALSE)
  <2>1. call'[Task] = Fresh(Task, FALSE)
    BY <1>t, <1>1 DEF Begin
  <2>2. Fresh(Task, FALSE).reply = "none"
    BY DEF Fresh, Idle
  <2> QED
    BY <2>1, <2>2 DEF Answered
<1>2. CASE Lose(Task)
  <2>1. call'[Task] = [call[Task] EXCEPT !.pc = "replied", !.reply = "transient"]
    BY <1>t, <1>2 DEF Lose
  <2>2. call'[Task].reply = "transient"
    BY <1>t, <2>1 DEF Calls
  <2> QED
    BY <2>2 DEF Answered
<1> QED
  BY <1>1, <1>2, Zenon

LEMMA InvPreserved ==
  ASSUME ClientTypeOK, Inv, [Next]_vars PROVE Inv'
<1> USE DEF Inv, options, fetch, channel, output
<1>t. /\ Len(query) \in Nat \ {0} /\ cursors \in Seq(0..Len(query)) /\ Len(cursors) \in Nat
      /\ DOMAIN cursors = 1..Len(cursors) /\ batch.id \in 0..Len(cursors)
  BY QueryLength, LenProperties DEF FetchTypes, Cursors, BatchesUpTo
\* A request that has been sent has not been answered.
<1>s. Authorized(Task) => ~Answered
  BY DEF Authorized, Answered
<1>f. UNCHANGED <<options, fetch>> /\ (Answered' <=> Answered) => Inv'
  BY DEF FetchTypes, Fetching, OneCursor, Cursors, BatchesUpTo
<1>1. ASSUME Aloof, UNCHANGED <<options, fetch>> PROVE Inv'
  BY <1>f, <1>1, AnsweredKept
<1>2. CASE Served
  <2>1. /\ Authorized(Task) /\ task \in Requests /\ Effect(batch') /\ batch' \in Batches
        /\ Answer(Task, "ok") /\ UNCHANGED <<options, task, leaky>>
    BY <1>2 DEF Served
  <2>2. Answered'
    BY <2>1, ExportAssumption DEF Answer, Answered, ClientTypeOK
  <2>3. ~Answered
    BY <1>s, <2>1
  <2>4. task # "opening" => batch.id # 0
    BY <2>1, <2>3 DEF Fetching, Requests
  <2>5. /\ cursors' \in Cursors
        /\ batch' \in BatchesUpTo(Len(cursors')) /\ batch'.number # 0
        /\ task = "opening" /\ cursors = << >> => \A k \in DOMAIN cursors' : k = batch'.id
        /\ task \in {"opening", "fetching"} => (batch'.more <=> batch'.id # 0)
        /\ task \in {"fetching", "deleting"} =>
             /\ DOMAIN cursors' = DOMAIN cursors
             /\ \A k \in DOMAIN cursors : k # batch.id => cursors'[k] = cursors[k]
             /\ batch'.id = batch.id \/ (batch'.id = 0 /\ cursors'[batch.id] = 0)
        /\ task = "deleting" => batch' = batch /\ cursors'[batch.id] = 0
    BY <2>1, <2>4, EffectShape
  <2>6. FetchTypes'
    BY <2>1, <2>5 DEF FetchTypes, Cursors, BatchesUpTo
  <2>7. Fetching'
    <3>1. batch'.more <=> batch'.id # 0
      <4>1. CASE task = "deleting"
        BY <2>5, <4>1 DEF Fetching
      <4>2. CASE task \in {"opening", "fetching"}
        BY <2>5, <4>2
      <4> QED
        BY <2>1, <4>1, <4>2 DEF Requests
    <3>2. task = "deleting" => batch'.id # 0
      BY <2>4, <2>5
    <3> QED
      BY <2>1, <2>2, <2>5, <3>1, <3>2 DEF Fetching, Requests
  <2>8. OneCursor'
    <3>1. CASE leaky
      BY <2>1, <3>1 DEF OneCursor
    <3>2. CASE ~leaky /\ task = "opening"
      <4>1. cursors = << >>
        BY <2>3, <3>2 DEF Fetching
      <4> QED
        BY <2>1, <2>5, <3>2, <4>1 DEF OneCursor
    <3>3. CASE ~leaky /\ task \in {"fetching", "deleting"}
      <4>1. \A k \in DOMAIN cursors : cursors[k] # 0 => k = batch.id
        BY <3>3 DEF OneCursor
      <4>2. \A k \in DOMAIN cursors' : cursors'[k] # 0 => k = batch'.id
        BY <2>5, <3>3, <4>1
      <4> QED
        BY <2>1, <2>5, <3>3, <4>2 DEF OneCursor
    <3> QED
      BY <2>1, <3>1, <3>2, <3>3 DEF Requests
  <2> QED
    BY <2>6, <2>7, <2>8
<1>3. CASE ServedInSilence
  <2>1. /\ Authorized(Task) /\ task \in SilentOnce
        /\ Lose(Task) /\ UNCHANGED <<options, task, batch>>
        /\ leaky' = (leaky \/ task = "opening")
    BY <1>3 DEF ServedInSilence
  <2>a. task \in Requests
    BY <2>1, ExportAssumption
  <2>b. PICK b \in Batches : Effect(b)
    BY <1>3 DEF ServedInSilence
  <2>2. ~Answered /\ ~Answered'
    BY <1>s, <2>1, NotYetAnswered
  <2>3. task # "opening" => batch.id # 0
    BY <2>a, <2>2 DEF Fetching, Requests
  <2>5. /\ cursors' \in Cursors /\ Len(cursors') >= Len(cursors)
        /\ task \in {"fetching", "deleting"} =>
             /\ DOMAIN cursors' = DOMAIN cursors
             /\ \A k \in DOMAIN cursors : k # batch.id => cursors'[k] = cursors[k]
    BY <2>a, <2>b, <2>3, EffectShape
  <2>6. FetchTypes'
    <3>1. Len(cursors') \in Nat
      BY <2>5, LenProperties DEF Cursors
    <3>2. batch \in BatchesUpTo(Len(cursors'))
      BY <1>t, <2>5, <3>1 DEF FetchTypes, BatchesUpTo
    <3>3. leaky' \in BOOLEAN
      BY <2>1 DEF FetchTypes
    <3> QED
      BY <2>1, <2>5, <3>2, <3>3 DEF FetchTypes, Cursors, BatchesUpTo
  <2>7. leaky \/ task = "opening" => leaky'
    BY <2>1, Zenon
  <2>8. Fetching'
    BY <2>1, <2>a, <2>2, <2>7 DEF Fetching, Requests
  <2>9. OneCursor'
    <3>1. CASE leaky \/ task = "opening"
      BY <2>7, <3>1 DEF OneCursor
    <3>2. CASE ~leaky /\ task \in {"fetching", "deleting"}
      BY <2>1, <2>2, <2>5, <3>2 DEF OneCursor
    <3> QED
      BY <2>a, <3>1, <3>2 DEF Requests
  <2> QED
    BY <2>6, <2>8, <2>9
<1>4. CASE CursorExpires
  <2>1. /\ task = "sending" /\ batch.id # 0 /\ cursors' = [cursors EXCEPT ![batch.id] = 0]
        /\ UNCHANGED <<clientVars, options, batch, task, leaky>>
    BY <1>4 DEF CursorExpires
  <2>2. batch.id \in 1..Len(cursors) /\ 0 \in 0..Len(query)
    BY <1>t, <2>1
  <2>3. /\ cursors' \in Cursors /\ Len(cursors') = Len(cursors)
        /\ DOMAIN cursors' = DOMAIN cursors
        /\ \A k \in DOMAIN cursors : cursors'[k] = cursors[k] \/ cursors'[k] = 0
    <3>1. cursors' \in Cursors /\ Len(cursors') = Len(cursors)
      BY <1>t, <2>1, <2>2, ExceptSeq DEF Cursors
    <3> QED
      BY <1>t, <2>1, <2>2, <3>1
  <2>4. Answered' <=> Answered
    BY <2>1 DEF clientVars, Answered
  <2>5. FetchTypes' /\ Fetching'
    BY <2>1, <2>3, <2>4 DEF FetchTypes, Fetching, Cursors, BatchesUpTo
  <2>6. OneCursor'
    BY <2>1, <2>3 DEF OneCursor
  <2> QED
    BY <2>5, <2>6
<1>5. CASE Spawned
  <2>1. /\ task = "spawned" /\ task' = "opening" /\ Begin(Task, FALSE)
        /\ UNCHANGED <<options, cursors, batch, leaky>>
    BY <1>5 DEF Spawned
  <2>2. ~Answered'
    BY <2>1, NotYetAnswered
  <2> QED
    BY <2>1, <2>2 DEF FetchTypes, Fetching, OneCursor, Cursors, BatchesUpTo, Requests
<1>6. CASE Fetched
  <2>1. /\ task \in {"opening", "fetching"} /\ task' = "sending" /\ Answered
        /\ UNCHANGED <<options, cursors, batch, leaky>>
    BY <1>6 DEF Fetched, Over, Answered
  <2> QED
    BY <2>1 DEF FetchTypes, Fetching, OneCursor, Cursors, BatchesUpTo
<1>7. CASE FetchFailed
  <2>1. task' = "failing" /\ leaky' = TRUE /\ UNCHANGED <<options, cursors, batch>>
    BY <1>7 DEF FetchFailed
  <2> QED
    BY <2>1 DEF FetchTypes, Fetching, OneCursor, Cursors, BatchesUpTo
<1>8. CASE SendBatch
  <2>1. task = "sending" /\ UNCHANGED <<options, cursors, batch, leaky>>
    BY <1>8 DEF SendBatch
  <2>2. CASE batch.more
    <3>1. task' = "fetching" /\ ~Answered'
      BY <1>8, <2>2, NotYetAnswered DEF SendBatch
    <3> QED
      BY <2>1, <2>2, <3>1 DEF FetchTypes, Fetching, OneCursor, Cursors, BatchesUpTo, Requests
  <2>3. CASE ~batch.more
    <3>1. task' = "ended" /\ batch.id = 0
      BY <1>8, <2>3 DEF SendBatch, Fetching
    <3>2. OneCursor'
      BY <1>t, <2>1, <3>1 DEF OneCursor
    <3> QED
      BY <2>1, <3>1, <3>2 DEF FetchTypes, Fetching, Cursors, BatchesUpTo
  <2> QED
    BY <2>2, <2>3
<1>9. CASE NobodyListens
  <2>1. task = "sending" /\ UNCHANGED <<options, cursors, batch, leaky>>
    BY <1>9 DEF NobodyListens
  <2>2. CASE batch.id # 0
    <3>1. task' = "deleting" /\ ~Answered'
      BY <1>9, <2>2, NotYetAnswered DEF NobodyListens
    <3> QED
      BY <2>1, <2>2, <3>1 DEF FetchTypes, Fetching, OneCursor, Cursors, BatchesUpTo, Requests
  <2>3. CASE batch.id = 0
    <3>1. task' = "ended"
      BY <1>9, <2>3 DEF NobodyListens
    <3>2. OneCursor'
      BY <1>t, <2>1, <2>3, <3>1 DEF OneCursor
    <3> QED
      BY <2>1, <3>1, <3>2 DEF FetchTypes, Fetching, Cursors, BatchesUpTo
  <2> QED
    BY <2>2, <2>3
<1>10. CASE Disposed
  <2>1. /\ task = "deleting" /\ task' = "ended" /\ UNCHANGED <<options, cursors, batch>>
        /\ leaky' = (leaky \/ ~Over("ok")) /\ (Over("ok") => Answered)
    BY <1>10 DEF Disposed, Over, Answered
  <2>2. leaky' \in BOOLEAN /\ (leaky' \/ (~leaky /\ Answered))
    BY <2>1, Zenon DEF FetchTypes
  <2>3. ASSUME ~leaky, Answered
        PROVE  \A k \in DOMAIN cursors : cursors[k] = 0
    BY <2>1, <2>3 DEF OneCursor
  <2>4. OneCursor'
    BY <2>1, <2>2, <2>3 DEF OneCursor
  <2> QED
    BY <2>1, <2>2, <2>4 DEF FetchTypes, Fetching, Cursors, BatchesUpTo
<1>11. CASE SendError \/ Exit
  <2>1. /\ (task' = "ended" /\ task = "failing") \/ task' = "killed"
        /\ UNCHANGED <<options, cursors, batch, leaky>>
    BY <1>11 DEF SendError, Exit
  <2> QED
    BY <2>1 DEF FetchTypes, Fetching, OneCursor, Cursors, BatchesUpTo
<1>12. CASE ConsumerStep \/ ConsumerFails \/ UNCHANGED vars
  <2>1. UNCHANGED <<clientVars, options, fetch>>
    BY <1>12 DEF ConsumerStep, Start, Receive, Record, CutPart, LastPart, WriteManifest,
                 ConsumerFails, vars
  <2> QED
    BY <1>f, <2>1 DEF clientVars, Answered
<1>13. CASE CursorGone
  BY <1>1, <1>13 DEF CursorGone, Authorized, Aloof
<1>14. CASE \/ CallStep(Task) /\ UNCHANGED Aside
            \/ (\E c \in Others : CallStep(c) \/ OtherCall(c)) /\ UNCHANGED Aside
            \/ Disturbance /\ UNCHANGED Aside
  BY <1>1, <1>14 DEF Aside, Aloof
<1> QED
  BY <1>2, <1>3, <1>4, <1>5, <1>6, <1>7, <1>8, <1>9, <1>10, <1>11, <1>12, <1>13, <1>14
     DEF Next, TaskStep

LEMMA InitInv == Init => Inv
<1> SUFFICES ASSUME Init PROVE Inv
  OBVIOUS
<1>1. /\ query \in Queries /\ cursors = << >> /\ task = "spawned" /\ leaky = FALSE
      /\ batch = [number |-> 0, id |-> 0, more |-> FALSE]
      /\ call = [c \in Callers |-> Idle]
  BY DEF Init, ClientInit
<1>2. ~Answered
  BY <1>1, ExportAssumption DEF Answered, Idle
<1>3. FetchTypes
  <2>1. Len(query) \in Nat \ {0}
    BY <1>1, QueryLength
  <2>2. cursors \in Cursors /\ Len(cursors) = 0
    BY <1>1, EmptySeq DEF Cursors
  <2>3. batch \in BatchesUpTo(0)
    BY <1>1, <2>1 DEF BatchesUpTo
  <2> QED
    BY <1>1, <2>2, <2>3 DEF FetchTypes
<1>4. DOMAIN cursors = {}
  BY <1>1
<1>5. batch.id = 0 /\ ~batch.more
  BY <1>1
<1>6. Fetching
  BY <1>1, <1>2, <1>5 DEF Fetching
<1>7. OneCursor
  BY <1>1, <1>4 DEF OneCursor
<1> QED
  BY <1>3, <1>6, <1>7 DEF Inv

\* document_stream's promise, for any result, any capacity of the channel and
\* any faults: whenever the task has ended by itself, whether the consumer read
\* to the end or dropped the stream, no cursor it opened is left open, unless
\* one of its own calls failed or the answer to an open was lost.
THEOREM CursorReleasedCorrect == Spec => []CursorReleased
<1>1. Inv => CursorReleased
  BY DEF Inv, OneCursor, CursorReleased
<1>2. ClientTypeOK /\ Inv /\ [Next]_vars => Inv'
  BY InvPreserved
<1> QED
  BY <1>1, <1>2, InitInv, ClientTypeCorrect, PTL DEF Spec

-----------------------------------------------------------------------------
(* The types *)

Items == (1..Len(query)) \cup {Failed}

OutputTypes ==
  /\ format \in Formats /\ fields \in BOOLEAN /\ split \in BOOLEAN
  /\ chan \in Seq(Items) /\ Len(chan) <= Prefetch
  /\ listening \in BOOLEAN
  /\ consumer \in {"starting", "reading", "cutting", "publishing", "done", "failed"}
  /\ records \in Nat

LEMMA OutputTypesPreserved ==
  ASSUME Inv, OutputTypes, [Next]_vars PROVE OutputTypes'
<1> USE DEF options, fetch, channel, output
<1>t. Len(query) \in Nat \ {0} /\ Prefetch \in Nat \ {0} /\ Len(chan) \in Nat
  BY QueryLength, ExportAssumption, LenProperties DEF Inv, FetchTypes, OutputTypes
\* One more item in the channel.
<1>a. ASSUME Room, NEW x \in Items, chan' = Append(chan, x), UNCHANGED <<options, listening, consumer, records>>
      PROVE  OutputTypes'
  <2>1. chan' \in Seq(Items) /\ Len(chan') = Len(chan) + 1
    BY <1>a, AppendProperties DEF OutputTypes
  <2>2. Len(chan') <= Prefetch
    BY <1>t, <1>a, <2>1 DEF Room
  <2> QED
    BY <1>a, <2>1, <2>2 DEF OutputTypes, Items
<1>1. CASE SendBatch
  <2>1. batch.number \in Items
    BY <1>t, <1>1 DEF SendBatch, Inv, FetchTypes, Fetching, BatchesUpTo, Items
  <2> QED
    BY <1>a, <1>1, <2>1 DEF SendBatch
<1>2. CASE SendError
  <2>1. CASE listening
    BY <1>a, <1>2, <2>1 DEF SendError, Items
  <2>2. CASE ~listening
    BY <1>2, <2>2 DEF SendError, OutputTypes, Items
  <2> QED
    BY <2>1, <2>2
<1>3. CASE Receive
  <2>1. chan' = Tail(chan) /\ chan # << >> /\ UNCHANGED <<options, records>>
    BY <1>3 DEF Receive
  <2>2. chan' \in Seq(Items) /\ Len(chan') = Len(chan) - 1
    BY <2>1, HeadTailProperties DEF OutputTypes
  <2>3. Len(chan') <= Prefetch
    BY <1>t, <2>2 DEF OutputTypes
  <2>4. /\ consumer' \in {"starting", "reading", "cutting", "publishing", "done", "failed"}
        /\ listening' \in BOOLEAN
    BY <1>3 DEF Receive, Drop, OutputTypes
  <2> QED
    BY <2>1, <2>2, <2>3, <2>4 DEF OutputTypes, Items
<1>4. CASE Start \/ Record \/ CutPart \/ LastPart \/ WriteManifest \/ ConsumerFails
  <2>1. UNCHANGED <<options, chan>>
    BY <1>4 DEF Start, Record, CutPart, LastPart, WriteManifest, ConsumerFails
  <2>2. /\ consumer' \in {"starting", "reading", "cutting", "publishing", "done", "failed"}
        /\ listening' \in BOOLEAN
    BY <1>4 DEF Start, Record, CutPart, LastPart, WriteManifest, ConsumerFails, Drop, OutputTypes
  <2>3. records' \in Nat
    BY <1>4 DEF Start, Record, CutPart, LastPart, WriteManifest, ConsumerFails, OutputTypes
  <2> QED
    BY <2>1, <2>2, <2>3 DEF OutputTypes, Items
<1>5. CASE \/ Served \/ ServedInSilence \/ CursorGone \/ CursorExpires
           \/ Spawned \/ Fetched \/ FetchFailed \/ NobodyListens \/ Disposed \/ Exit
  <2>1. UNCHANGED <<options, channel, output>>
    BY <1>5 DEF Served, ServedInSilence, CursorGone, CursorExpires, Spawned, Fetched, FetchFailed,
                NobodyListens, Disposed, Exit
  <2> QED
    BY <2>1 DEF OutputTypes, Items
<1>6. CASE \/ CallStep(Task) /\ UNCHANGED Aside
           \/ (\E c \in Others : CallStep(c) \/ OtherCall(c)) /\ UNCHANGED Aside
           \/ Disturbance /\ UNCHANGED Aside
           \/ UNCHANGED vars
  <2>1. UNCHANGED <<options, channel, output>>
    BY <1>6 DEF Aside, vars
  <2> QED
    BY <2>1 DEF OutputTypes, Items
<1> QED
  BY <1>1, <1>2, <1>3, <1>4, <1>5, <1>6 DEF Next, TaskStep, ConsumerStep

LEMMA InitOutputTypes == Init => OutputTypes
<1> SUFFICES ASSUME Init PROVE OutputTypes
  OBVIOUS
<1>1. Len(chan) = 0 /\ chan \in Seq(Items) /\ Prefetch \in Nat
  BY EmptySeq, ExportAssumption DEF Init
<1> QED
  BY <1>1 DEF Init, OutputTypes

\* Every variable of the export stays in its type: no cursor and no batch is
\* numbered beyond the result, and the channel never holds more than PREFETCH
\* batches, whatever task and consumer do.
THEOREM TypeCorrect == Spec => []TypeOK
<1>1. ASSUME ClientTypeOK, Inv, OutputTypes PROVE TypeOK
  <2>1. \A k \in DOMAIN cursors : cursors[k] \in 0..Len(query)
    BY <1>1, LenProperties, ElementOfSeq DEF Inv, FetchTypes, Cursors
  <2>2. ToSet(chan) \subseteq Items
    BY <1>1, LenProperties, ElementOfSeq DEF OutputTypes, ToSet
  <2> QED
    BY <1>1, <2>1, <2>2 DEF TypeOK, Inv, FetchTypes, BatchesUpTo, OutputTypes, Items
<1>2. ClientTypeOK /\ Inv /\ [Next]_vars => Inv'
  BY InvPreserved
<1>3. Inv /\ OutputTypes /\ [Next]_vars => OutputTypes'
  BY OutputTypesPreserved
<1> QED
  BY <1>1, <1>2, <1>3, InitInv, InitOutputTypes, ClientTypeCorrect, PTL DEF Spec

-----------------------------------------------------------------------------
(* What parts contain *)

Tokens == Docs \cup Framing

\* What a token adds to the documents of a part.
Record1(x) == IF x \in Framing THEN << >> ELSE <<x>>

LEMMA RecordType == ASSUME NEW x \in Tokens PROVE Record1(x) \in Seq(Docs)
BY DEF Tokens, Record1

LEMMA DocumentsEmpty == Documents(<< >>) = << >>
<1>1. [k \in DOMAIN << >> |-> IF << >>[k] \in Framing THEN << >> ELSE << << >>[k] >>] = << >>
  BY EmptySeq, IsASeq
<1> QED BY <1>1, FlattenEmpty DEF Documents

\* The pieces a part's documents are put together from.
Pieces(object) == [k \in DOMAIN object |-> Record1(object[k])]

LEMMA PiecesType ==
  ASSUME NEW object \in Seq(Tokens)
  PROVE  /\ Pieces(object) \in Seq(Seq(Docs)) /\ Len(Pieces(object)) = Len(object)
         /\ Documents(object) = FlattenSeq(Pieces(object))
<1> DEFINE n == Len(object)
<1>1. n \in Nat /\ DOMAIN object = 1..n /\ \A k \in 1..n : object[k] \in Tokens
  BY LenProperties, ElementOfSeq
<1>2. Pieces(object) = [k \in 1..n |-> Record1(object[k])]
  BY <1>1 DEF Pieces
<1>3. Pieces(object) = [k \in DOMAIN object |-> IF object[k] \in Framing THEN << >> ELSE <<object[k]>>]
  BY DEF Pieces, Record1
<1>4. \A k \in 1..n : Record1(object[k]) \in Seq(Docs)
  BY <1>1, RecordType
<1> HIDE DEF n
<1>5. Pieces(object) \in Seq(Seq(Docs)) /\ Len(Pieces(object)) = n
  BY <1>1, <1>2, <1>4, IsASeq
<1> QED BY <1>3, <1>5 DEF n, Documents

LEMMA DocumentsType ==
  ASSUME NEW object \in Seq(Tokens) PROVE Documents(object) \in Seq(Docs)
BY PiecesType, FlattenType

\* One more token.
LEMMA DocumentsAppend ==
  ASSUME NEW object \in Seq(Tokens), NEW x \in Tokens
  PROVE  /\ Append(object, x) \in Seq(Tokens)
         /\ Documents(Append(object, x)) = Documents(object) \o Record1(x)
<1> DEFINE longer == Append(object, x)
           n == Len(object)
<1>1. /\ longer \in Seq(Tokens) /\ Len(longer) = n + 1 /\ longer[n + 1] = x
      /\ \A k \in 1..n : longer[k] = object[k]
      /\ n \in Nat /\ DOMAIN object = 1..n /\ DOMAIN longer = 1..(n + 1)
  BY AppendProperties, LenProperties
<1>2. Record1(x) \in Seq(Docs)
  BY RecordType
<1>3. /\ Pieces(object) \in Seq(Seq(Docs)) /\ Len(Pieces(object)) = n
      /\ Documents(object) = FlattenSeq(Pieces(object))
  BY PiecesType
<1> HIDE DEF longer
<1>4. /\ Pieces(longer) \in Seq(Seq(Docs)) /\ Len(Pieces(longer)) = n + 1
      /\ Documents(longer) = FlattenSeq(Pieces(longer))
  BY <1>1, PiecesType
<1> HIDE DEF n
<1> DEFINE more == Append(Pieces(object), Record1(x))
<1>5. /\ more \in Seq(Seq(Docs)) /\ Len(more) = n + 1 /\ more[n + 1] = Record1(x)
      /\ \A k \in 1..n : more[k] = Pieces(object)[k]
  BY <1>2, <1>3, AppendProperties
<1>6. \A k \in 1..(n + 1) : Pieces(longer)[k] = more[k]
  <2>1. \A k \in 1..n : Pieces(longer)[k] = Record1(longer[k]) /\ Pieces(object)[k] = Record1(object[k])
    BY <1>1 DEF Pieces
  <2>2. Pieces(longer)[n + 1] = Record1(x)
    BY <1>1 DEF Pieces
  <2>3. \A k \in 1..(n + 1) : k \in 1..n \/ k = n + 1
    BY <1>1
  <2> HIDE DEF more
  <2> QED BY <1>1, <1>5, <2>1, <2>2, <2>3
<1> HIDE DEF more
<1>7. Pieces(longer) = more
  BY <1>4, <1>5, <1>6, SeqEqual
<1>8. FlattenSeq(more) = FlattenSeq(Pieces(object)) \o Record1(x)
  BY <1>2, <1>3, FlattenAppend DEF more
<1> QED BY <1>1, <1>3, <1>4, <1>7, <1>8 DEF longer

\* The same of several parts.
PartDocuments(parts) == [p \in DOMAIN parts |-> Documents(parts[p])]

LEMMA PartDocumentsType ==
  ASSUME NEW parts \in Seq(Seq(Tokens))
  PROVE  /\ PartDocuments(parts) \in Seq(Seq(Docs)) /\ Len(PartDocuments(parts)) = Len(parts)
         /\ Contents(parts) = FlattenSeq(PartDocuments(parts))
<1> DEFINE n == Len(parts)
<1>1. n \in Nat /\ DOMAIN parts = 1..n /\ \A p \in 1..n : parts[p] \in Seq(Tokens)
  BY LenProperties, ElementOfSeq
<1>2. PartDocuments(parts) = [p \in 1..n |-> Documents(parts[p])]
  BY <1>1 DEF PartDocuments
<1>3. \A p \in 1..n : Documents(parts[p]) \in Seq(Docs)
  BY <1>1, DocumentsType
<1>4. Contents(parts) = FlattenSeq(PartDocuments(parts))
  BY DEF Contents, PartDocuments
<1> HIDE DEF n
<1>5. PartDocuments(parts) \in Seq(Seq(Docs)) /\ Len(PartDocuments(parts)) = n
  BY <1>1, <1>2, <1>3, IsASeq
<1> QED BY <1>4, <1>5 DEF n

LEMMA ContentsType ==
  ASSUME NEW parts \in Seq(Seq(Tokens)) PROVE Contents(parts) \in Seq(Docs)
BY PartDocumentsType, FlattenType

LEMMA ContentsEmpty == Contents(<< >>) = << >>
<1>1. [p \in DOMAIN << >> |-> Documents(<< >>[p])] = << >>
  BY EmptySeq, IsASeq
<1> QED BY <1>1, FlattenEmpty DEF Contents

LEMMA ContentsAppend ==
  ASSUME NEW parts \in Seq(Seq(Tokens)), NEW object \in Seq(Tokens)
  PROVE  /\ Append(parts, object) \in Seq(Seq(Tokens))
         /\ Contents(Append(parts, object)) = Contents(parts) \o Documents(object)
<1> DEFINE longer == Append(parts, object)
           n == Len(parts)
<1>1. /\ longer \in Seq(Seq(Tokens)) /\ Len(longer) = n + 1 /\ longer[n + 1] = object
      /\ \A p \in 1..n : longer[p] = parts[p]
      /\ n \in Nat /\ DOMAIN parts = 1..n /\ DOMAIN longer = 1..(n + 1)
  BY AppendProperties, LenProperties
<1>2. Documents(object) \in Seq(Docs)
  BY DocumentsType
<1>3. /\ PartDocuments(parts) \in Seq(Seq(Docs)) /\ Len(PartDocuments(parts)) = n
      /\ Contents(parts) = FlattenSeq(PartDocuments(parts))
  BY PartDocumentsType
<1> HIDE DEF longer
<1>4. /\ PartDocuments(longer) \in Seq(Seq(Docs)) /\ Len(PartDocuments(longer)) = n + 1
      /\ Contents(longer) = FlattenSeq(PartDocuments(longer))
  BY <1>1, PartDocumentsType
<1> HIDE DEF n
<1> DEFINE more == Append(PartDocuments(parts), Documents(object))
<1>5. /\ more \in Seq(Seq(Docs)) /\ Len(more) = n + 1 /\ more[n + 1] = Documents(object)
      /\ \A p \in 1..n : more[p] = PartDocuments(parts)[p]
  BY <1>2, <1>3, AppendProperties
<1>6. \A p \in 1..(n + 1) : PartDocuments(longer)[p] = more[p]
  <2>1. \A p \in 1..n : /\ PartDocuments(longer)[p] = Documents(longer[p])
                        /\ PartDocuments(parts)[p] = Documents(parts[p])
    BY <1>1 DEF PartDocuments
  <2>2. PartDocuments(longer)[n + 1] = Documents(object)
    BY <1>1 DEF PartDocuments
  <2>3. \A p \in 1..(n + 1) : p \in 1..n \/ p = n + 1
    BY <1>1
  <2> HIDE DEF more
  <2> QED BY <1>1, <1>5, <2>1, <2>2, <2>3
<1> HIDE DEF more
<1>7. PartDocuments(longer) = more
  BY <1>4, <1>5, <1>6, SeqEqual
<1>8. FlattenSeq(more) = FlattenSeq(PartDocuments(parts)) \o Documents(object)
  BY <1>2, <1>3, FlattenAppend DEF more
<1> QED BY <1>1, <1>3, <1>4, <1>7, <1>8 DEF longer

\* The documents of the first batches of a result.
First(r) == FlattenSeq(SubSeq(query, 1, r))

LEMMA QueryType ==
  ASSUME query \in Queries
  PROVE  /\ query \in Seq(Seq(Docs)) /\ Len(query) \in Nat /\ First(0) = << >>
         /\ First(Len(query)) = FlattenSeq(query)
<1>1. query \in Seq(Seq(Docs)) /\ Len(query) \in Nat
  BY ExportAssumption
<1>2. SubSeq(query, 1, 0) = << >> /\ SubSeq(query, 1, Len(query)) = query
  BY <1>1
<1> QED BY <1>1, <1>2, FlattenEmpty DEF First

LEMMA OneMoreBatch ==
  ASSUME query \in Queries, NEW r \in 0..(Len(query) - 1)
  PROVE  /\ query[r + 1] \in Seq(Docs) /\ First(r) \in Seq(Docs)
         /\ First(r + 1) = First(r) \o query[r + 1]
<1>1. query \in Seq(Seq(Docs)) /\ Len(query) \in Nat /\ r \in Nat /\ r + 1 \in 1..Len(query)
  BY QueryType
<1>2. query[r + 1] \in Seq(Docs)
  BY <1>1, ElementOfSeq
<1> DEFINE head == SubSeq(query, 1, r)
           longer == SubSeq(query, 1, r + 1)
           more == Append(head, query[r + 1])
<1>3. head \in Seq(Seq(Docs)) /\ Len(head) = r /\ \A k \in 1..r : head[k] = query[k]
  BY <1>1
<1>4. longer \in Seq(Seq(Docs)) /\ Len(longer) = r + 1 /\ \A k \in 1..(r + 1) : longer[k] = query[k]
  BY <1>1
<1> HIDE DEF head, longer
<1>5. /\ more \in Seq(Seq(Docs)) /\ Len(more) = r + 1 /\ more[r + 1] = query[r + 1]
      /\ \A k \in 1..r : more[k] = head[k]
  BY <1>2, <1>3, AppendProperties
<1> HIDE DEF more
<1>6. \A k \in 1..(r + 1) : longer[k] = more[k]
  <2>1. \A k \in 1..(r + 1) : k \in 1..r \/ k = r + 1
    BY <1>1
  <2> QED BY <1>3, <1>4, <1>5, <2>1
<1>7. longer = more
  BY <1>4, <1>5, <1>6, SeqEqual
<1>8. FlattenSeq(more) = FlattenSeq(head) \o query[r + 1]
  BY <1>2, <1>3, FlattenAppend DEF more
<1>9. FlattenSeq(head) \in Seq(Docs)
  BY <1>3, FlattenType
<1> QED BY <1>2, <1>7, <1>8, <1>9 DEF First, head, longer

-----------------------------------------------------------------------------
(* The task sends every batch once *)

\* The batch in the task's hands has been answered and not been sent on.
Delivering == task = "sending" \/ (task \in {"opening", "fetching"} /\ Answered)

\* Batches the task has sent on.
Sent == IF Delivering THEN batch.number - 1 ELSE batch.number

\* The server's cursor is one batch ahead of the task, or gone, and the task
\* knows whether its batch is the last.
Ahead ==
  /\ batch.id # 0 => cursors[batch.id] \in {0, batch.number + 1}
  /\ batch.number # 0 => (batch.more <=> batch.number < Len(query))
  /\ task \in {"spawned", "opening"} /\ ~Answered => batch.number = 0

\* The task ends without the consumer's consent only when it has failed.
Attended ==
  /\ task \in {"deleting", "killed"} => ~listening
  /\ listening <=> consumer # "failed"

LEMMA EffectNumber ==
  ASSUME FetchTypes, Ahead, task \in Requests, NEW b \in Batches, Effect(b),
         task # "opening" => batch.id # 0
  PROVE  /\ task = "opening" => b.number = 1
         /\ task = "fetching" => b.number = batch.number + 1
         /\ b.id # 0 => cursors'[b.id] \in {0, b.number + 1}
         /\ b.number # 0 => (b.more <=> b.number < Len(query))
<1>n. Len(query) \in Nat \ {0} /\ cursors \in Seq(0..Len(query)) /\ Len(cursors) \in Nat
      /\ DOMAIN cursors = 1..Len(cursors)
  BY QueryLength, LenProperties DEF FetchTypes, Cursors
<1>1. CASE task = "opening"
  <2>0. Open(b)
    BY <1>1 DEF Effect
  <2>1. CASE Len(query) > 1
    <3>1. cursors' = Append(cursors, 2) /\ b = [number |-> 1, id |-> Len(cursors) + 1, more |-> TRUE]
      BY <1>n, <2>0, <2>1 DEF Open, Batch
    <3>2. cursors'[Len(cursors) + 1] = 2
      BY <1>n, <2>1, <3>1, AppendProperties
    <3> QED BY <1>1, <2>1, <3>1, <3>2
  <2>2. CASE ~(Len(query) > 1)
    <3>1. b = Batch(1, 0)
      BY <2>0, <2>2 DEF Open
    <3>2. b.number = 1 /\ b.id = 0 /\ (b.more <=> 1 < Len(query))
      BY <3>1 DEF Batch
    <3> QED BY <1>1, <3>2
  <2> QED BY <2>1, <2>2
<1>2. CASE task = "fetching"
  <2> DEFINE n == cursors[batch.id]
  <2>0. Advance(b)
    BY <1>2 DEF Effect
  <2>1. batch.id \in DOMAIN cursors /\ batch.id # 0
    BY <1>2, <1>n DEF FetchTypes, BatchesUpTo
  <2>2. n # 0 /\ n = batch.number + 1
    BY <2>0, <2>1 DEF Advance, Ahead
  <2>3. /\ cursors'[batch.id] = IF n < Len(query) THEN n + 1 ELSE 0
        /\ b = Batch(n, batch.id)
    BY <2>0, <2>1 DEF Advance
  <2> HIDE DEF n
  <2>4. /\ b.number = n /\ (b.more <=> n < Len(query))
        /\ b.id = IF n < Len(query) THEN batch.id ELSE 0
    BY <2>3 DEF Batch
  <2> QED BY <1>2, <2>2, <2>3, <2>4
<1>3. CASE task = "deleting"
  <2>1. cursors' = [cursors EXCEPT ![batch.id] = 0] /\ b = batch
    BY <1>3 DEF Effect, Dispose
  <2>2. batch.id \in DOMAIN cursors
    BY <1>3, <1>n DEF FetchTypes, BatchesUpTo
  <2> QED BY <1>3, <2>1, <2>2 DEF Ahead
<1> QED BY <1>1, <1>2, <1>3 DEF Requests

\* What a step is to the stream of batches: nothing, one more batch in the
\* channel, or the error that ends it.
Quiet == Sent' = Sent /\ chan' = chan /\ (task' = "ended" <=> task = "ended")
Sends ==
  /\ Sent' = Sent + 1 /\ chan' = Append(chan, Sent + 1)
  /\ task # "ended" /\ (task' = "ended" => Sent' = Len(query))
Errs == Sent' = Sent /\ chan' = Append(chan, Failed) /\ task # "ended" /\ task' = "ended"

LEMMA SentType ==
  ASSUME Inv PROVE Sent \in 0..Len(query) /\ Len(query) \in Nat /\ (Delivering => batch.number = Sent + 1)
<1>1. batch.number \in 0..Len(query) /\ Len(query) \in Nat
  BY QueryLength DEF Inv, FetchTypes, BatchesUpTo
<1>2. Delivering => batch.number # 0
  BY DEF Inv, Fetching, Delivering
<1> QED BY <1>1, <1>2 DEF Sent

TaskKeeps ==
  /\ Ahead' /\ Attended' /\ UNCHANGED <<listening, options, output>>
  /\ listening => Quiet \/ Sends \/ Errs

LEMMA ConsumerFrame ==
  ASSUME Ahead, Attended, ConsumerStep \/ ConsumerFails
  PROVE  Ahead' /\ Attended' /\ UNCHANGED <<Sent, task, options>>
<1> USE DEF options, fetch, channel, output
<1>1. UNCHANGED <<clientVars, options, fetch>>
  BY DEF ConsumerStep, Start, Receive, Record, CutPart, LastPart, WriteManifest, ConsumerFails
<1>2. \/ UNCHANGED listening /\ consumer # "failed" /\ consumer' # "failed"
      \/ listening' = FALSE /\ consumer' = "failed"
  BY DEF ConsumerStep, Start, Receive, Record, CutPart, LastPart, WriteManifest, ConsumerFails, Drop
<1>3. Answered' <=> Answered
  BY <1>1 DEF clientVars, Answered
<1>4. Ahead' /\ Sent' = Sent /\ task' = task
  BY <1>1, <1>3 DEF Ahead, Sent, Delivering
<1>5. Attended'
  BY <1>2, <1>4, Zenon DEF Attended
<1> QED BY <1>1, <1>4, <1>5

LEMMA TaskPreserved ==
  ASSUME "fetching" \notin SilentOnce, ClientTypeOK, Inv, Ahead, Attended, [Next]_vars
  PROVE  ConsumerStep \/ ConsumerFails \/ TaskKeeps
<1> SUFFICES ASSUME ~ConsumerStep, ~ConsumerFails PROVE TaskKeeps
  OBVIOUS
<1> USE DEF Inv, options, fetch, channel, output, TaskKeeps
<1>s. Authorized(Task) => ~Answered
  BY DEF Authorized, Answered
<1>n. Sent \in 0..Len(query) /\ Len(query) \in Nat /\ (Delivering => batch.number = Sent + 1)
  BY SentType
<1>1. ASSUME Answered' <=> Answered, UNCHANGED <<options, fetch, channel, output>>
      PROVE  TaskKeeps
  BY <1>1 DEF Ahead, Attended, Quiet, Sent, Delivering
<1>2. CASE Served
  <2>1. /\ Authorized(Task) /\ task \in Requests /\ Effect(batch') /\ batch' \in Batches
        /\ Answer(Task, "ok") /\ UNCHANGED <<options, task, leaky, channel, output>>
    BY <1>2 DEF Served
  <2>2. Answered'
    BY <2>1, ExportAssumption DEF Answer, Answered, ClientTypeOK
  <2>3. ~Answered
    BY <1>s, <2>1
  <2>4. task # "opening" => batch.id # 0
    BY <2>1, <2>3 DEF Fetching, Requests
  <2>5. /\ task = "opening" => batch'.number = 1
        /\ task = "fetching" => batch'.number = batch.number + 1
        /\ batch'.id # 0 => cursors'[batch'.id] \in {0, batch'.number + 1}
        /\ batch'.number # 0 => (batch'.more <=> batch'.number < Len(query))
    BY <2>1, <2>4, EffectNumber
  <2>6. Ahead' /\ Attended'
    BY <2>1, <2>2, <2>5 DEF Ahead, Attended
  <2>7. listening => task \in {"opening", "fetching"}
    BY <2>1 DEF Attended, Requests
  <2>8. listening => batch'.number = batch.number + 1
    BY <2>1, <2>3, <2>5, <2>7 DEF Ahead
  <2>9. listening => Sent' = Sent
    BY <1>n, <2>1, <2>2, <2>3, <2>7, <2>8 DEF Sent, Delivering
  <2> QED BY <2>1, <2>6, <2>9 DEF Quiet
<1>3. CASE ServedInSilence
  <2>1. /\ Authorized(Task) /\ task \in {"opening", "deleting"}
        /\ Lose(Task) /\ UNCHANGED <<options, task, batch, channel, output>>
    BY <1>3, ExportAssumption DEF ServedInSilence, Requests
  <2>b. PICK b \in Batches : Effect(b)
    BY <1>3 DEF ServedInSilence
  <2>2. ~Answered /\ ~Answered'
    BY <1>s, <2>1, NotYetAnswered
  <2>3. batch.id # 0 => task = "deleting"
    BY <2>1, <2>2 DEF Fetching
  <2>4. task = "deleting" => b = batch /\ cursors'[batch.id] = 0
    <3>1. task = "deleting" => batch.id # 0
      BY DEF Fetching
    <3> QED BY <2>1, <2>b, <3>1, EffectShape DEF Requests
  <2>5. Ahead' /\ Attended'
    BY <2>1, <2>2, <2>3, <2>4 DEF Ahead, Attended
  <2>6. Sent' = Sent
    BY <2>1, <2>2 DEF Sent, Delivering
  <2> QED BY <2>1, <2>5, <2>6 DEF Quiet
<1>4. CASE CursorExpires
  <2>1. /\ task = "sending" /\ batch.id # 0 /\ cursors' = [cursors EXCEPT ![batch.id] = 0]
        /\ UNCHANGED <<clientVars, options, batch, task, leaky, channel, output>>
    BY <1>4 DEF CursorExpires
  <2>2. batch.id \in DOMAIN cursors
    <3>1. cursors \in Seq(0..Len(query)) /\ batch.id \in 0..Len(cursors)
      BY DEF FetchTypes, Cursors, BatchesUpTo
    <3> QED BY <2>1, <3>1, LenProperties
  <2>3. Answered' <=> Answered
    BY <2>1 DEF clientVars, Answered
  <2>4. Ahead' /\ Attended'
    BY <2>1, <2>2, <2>3 DEF Ahead, Attended
  <2>5. Sent' = Sent
    BY <2>1, <2>3 DEF Sent, Delivering
  <2> QED BY <2>1, <2>4, <2>5 DEF Quiet
<1>5. CASE Spawned
  <2>1. /\ task = "spawned" /\ task' = "opening" /\ Begin(Task, FALSE)
        /\ UNCHANGED <<options, cursors, batch, leaky, channel, output>>
    BY <1>5 DEF Spawned
  <2>2. ~Answered' /\ ~Answered
    BY <2>1, NotYetAnswered DEF Fetching
  <2> QED BY <2>1, <2>2 DEF Ahead, Attended, Quiet, Sent, Delivering
<1>6. CASE Fetched \/ FetchFailed
  <2>1. /\ task \in {"opening", "fetching"} /\ UNCHANGED <<options, cursors, batch, channel, output>>
        /\ \/ task' = "sending" /\ Answered
           \/ task' = "failing" /\ ~Answered
    BY <1>6 DEF Fetched, FetchFailed, Over, Answered
  <2> QED BY <2>1 DEF Ahead, Attended, Quiet, Sent, Delivering
<1>7. CASE SendBatch
  <2>1. /\ task = "sending" /\ listening /\ chan' = Append(chan, batch.number)
        /\ UNCHANGED <<options, cursors, batch, leaky, listening, output>>
    BY <1>7 DEF SendBatch, Room
  <2>2. batch.number = Sent + 1
    BY <1>n, <2>1 DEF Delivering
  <2>3. CASE batch.more
    <3>1. task' = "fetching" /\ ~Answered'
      BY <1>7, <2>3, NotYetAnswered DEF SendBatch
    <3>2. Sent' = batch.number
      BY <2>1, <3>1 DEF Sent, Delivering
    <3> QED BY <2>1, <2>2, <3>1, <3>2 DEF Ahead, Attended, Sends
  <2>4. CASE ~batch.more
    <3>1. task' = "ended" /\ batch.number # 0
      BY <1>7, <2>1, <2>4 DEF SendBatch, Fetching
    <3>2. Sent' = batch.number
      BY <2>1, <3>1 DEF Sent, Delivering
    <3>3. batch.number = Len(query)
      <4>1. ~(batch.number < Len(query)) /\ batch.number \in 0..Len(query)
        BY <2>4, <3>1 DEF Ahead, FetchTypes, BatchesUpTo
      <4> QED BY <1>n, <4>1
    <3> QED BY <2>1, <2>2, <3>1, <3>2, <3>3 DEF Ahead, Attended, Sends
  <2> QED BY <2>3, <2>4
<1>8. CASE NobodyListens \/ Disposed \/ Exit
  <2>1. /\ ~listening /\ UNCHANGED <<batch, options, channel, output>>
        /\ task' \in {"deleting", "ended", "killed"} /\ UNCHANGED cursors
    BY <1>8 DEF NobodyListens, Disposed, Exit, Attended
  <2> QED BY <2>1 DEF Ahead, Attended
<1>9. CASE SendError
  <2>1. /\ task = "failing" /\ task' = "ended" /\ UNCHANGED <<options, cursors, batch, listening, output>>
        /\ listening => chan' = Append(chan, Failed)
    BY <1>9 DEF SendError
  <2> QED BY <2>1 DEF Ahead, Attended, Errs, Sent, Delivering
<1>11. CASE CursorGone
  <2>1. Aloof
    BY <1>11 DEF CursorGone, Authorized, Aloof
  <2>2. UNCHANGED <<options, fetch, channel, output>>
    BY <1>11 DEF CursorGone
  <2> QED BY <1>1, <2>1, <2>2, AnsweredKept
<1>12. CASE \/ CallStep(Task) /\ UNCHANGED Aside
            \/ (\E c \in Others : CallStep(c) \/ OtherCall(c)) /\ UNCHANGED Aside
            \/ Disturbance /\ UNCHANGED Aside
  BY <1>1, <1>12, AnsweredKept DEF Aside, Aloof
<1>13. CASE UNCHANGED vars
  BY <1>1, <1>13 DEF vars, clientVars, Answered
<1> QED
  BY <1>2, <1>3, <1>4, <1>5, <1>6, <1>7, <1>8, <1>9, <1>11, <1>12, <1>13
     DEF Next, TaskStep

-----------------------------------------------------------------------------
(* The framing of a part *)

\* The tokens of a part of r records before it is closed, by format: an array
\* opens with a bracket, its commas stand at the odd places after that one.
Plain(b, from) == \A k \in from..Len(b) : b[k] \notin Framing
Headed(b) == Len(b) >= 1 /\ b[1] = "header" /\ Plain(b, 2)
Lengthy(b, r) == (r = 0 => Len(b) = 1) /\ (r # 0 => Len(b) = 2 * r)
Commas(b, upto) == \A k \in 2..upto : (b[k] = "comma") <=> (k % 2 = 1)
Listed(b, r) == b[1] = "open" /\ Lengthy(b, r) /\ Commas(b, Len(b))

Growing(f, b, r) ==
  /\ f = "jsonl" => Plain(b, 1)
  /\ f = "csv" => Headed(b)
  /\ f = "array" => Listed(b, r)

\* The same once it is closed.
Closed(b) ==
  /\ Len(b) >= 2 /\ b[1] = "open" /\ b[Len(b)] = "close" /\ Commas(b, Len(b) - 1)
  /\ Len(b) > 2 => Len(b) % 2 = 1

Complete(f, object) ==
  /\ f = "jsonl" => Plain(object, 1)
  /\ f = "csv" => Headed(object)
  /\ f = "array" => Closed(object)

LEMMA FramingTokens ==
  /\ \A x \in Framing : x \in Tokens /\ Record1(x) = << >>
  /\ \A d \in Docs : d \in Tokens /\ d \notin Framing /\ Record1(d) = <<d>> /\ d # "comma"
BY ExportAssumption DEF Framing, Tokens, Record1

\* A document after documents, a document after a header.
LEMMA PlainGrows ==
  ASSUME NEW b \in Seq(Tokens), NEW d \in Docs, NEW c, c = Append(b, d), NEW from \in {1, 2},
         Plain(b, from)
  PROVE  Plain(c, from)
<1> DEFINE n == Len(b)
<1>1. d \in Tokens /\ d \notin Framing
  BY FramingTokens
<1>2. n \in Nat /\ Len(c) = n + 1 /\ c[n + 1] = d /\ \A k \in 1..n : c[k] = b[k]
  BY <1>1, AppendFacts
<1>3. \A k \in from..n : b[k] \notin Framing
  BY DEF Plain
<1> HIDE DEF n
<1>4. ASSUME NEW k \in from..(n + 1) PROVE c[k] \notin Framing
  <2>1. k = n + 1 \/ (k \in from..n /\ k \in 1..n)
    BY <1>2
  <2> QED BY <1>1, <1>2, <1>3, <2>1
<1> QED BY <1>2, <1>4 DEF Plain

\* The opening of each format is a part without records.
OpeningOf(f) == IF f = "array" THEN << "open" >> ELSE IF f = "csv" THEN << "header" >> ELSE << >>

LEMMA FramingAlone ==
  ASSUME NEW x \in Framing PROVE <<x>> \in Seq(Tokens) /\ Documents(<<x>>) = << >>
<1>1. << >> \in Seq(Tokens) /\ <<x>> = Append(<< >>, x) /\ << >> \in Seq(Docs)
  BY EmptySeq
<1>2. x \in Tokens /\ Record1(x) = << >>
  BY FramingTokens
<1>3. <<x>> \in Seq(Tokens) /\ Documents(<<x>>) = Documents(<< >>) \o << >>
  BY <1>1, <1>2, DocumentsAppend
<1> QED BY <1>1, <1>3, DocumentsEmpty, ConcatEmptySeq

LEMMA OpeningGrows ==
  ASSUME NEW f \in Formats
  PROVE  /\ OpeningOf(f) \in Seq(Tokens) /\ Documents(OpeningOf(f)) = << >>
         /\ Growing(f, OpeningOf(f), 0)
<1>1. "open" \in Framing /\ "header" \in Framing
  BY DEF Framing
<1>2. CASE f = "array"
  <2>1. Listed(<< "open" >>, 0)
    BY DEF Listed, Lengthy, Commas
  <2> QED BY <1>1, <1>2, <2>1, FramingAlone DEF OpeningOf, Growing
<1>3. CASE f = "csv"
  <2>1. Headed(<< "header" >>)
    BY DEF Headed, Plain
  <2> QED BY <1>1, <1>3, <2>1, FramingAlone DEF OpeningOf, Growing
<1>4. CASE f = "jsonl"
  <2>1. Plain(<< >>, 1)
    BY DEF Plain
  <2> QED BY <1>4, <2>1, EmptySeq, DocumentsEmpty DEF OpeningOf, Growing
<1> QED BY <1>2, <1>3, <1>4 DEF Formats

\* One more record.
LEMMA ListedGrows ==
  ASSUME NEW b \in Seq(Tokens), NEW r \in Nat \ {0}, Listed(b, r), NEW d \in Docs
  PROVE  /\ b \o <<"comma", d>> \in Seq(Tokens)
         /\ Documents(b \o <<"comma", d>>) = Documents(b) \o <<d>>
         /\ Listed(b \o <<"comma", d>>, r + 1)
<1> DEFINE n == Len(b)
           m == Append(b, "comma")
           c == b \o <<"comma", d>>
<1>1. d \in Tokens /\ Record1(d) = <<d>> /\ d # "comma"
  BY FramingTokens
<1>2. "comma" \in Tokens /\ Record1("comma") = << >>
  BY FramingTokens DEF Framing
<1>3. n \in Nat /\ m \in Seq(Tokens) /\ Len(m) = n + 1 /\ m[n + 1] = "comma" /\ \A k \in 1..n : m[k] = b[k]
  BY <1>2, AppendFacts
<1>4. Documents(m) = Documents(b)
  <2>1. Documents(m) = Documents(b) \o << >> /\ Documents(b) \in Seq(Docs)
    BY <1>2, DocumentsAppend, DocumentsType
  <2> QED BY <2>1, ConcatEmptySeq
<1>5. c = Append(m, d)
  BY <1>1, <1>2, ConcatTwo
<1> HIDE DEF m, c
<1>6. /\ c \in Seq(Tokens) /\ Len(c) = Len(m) + 1 /\ c[Len(m) + 1] = d
      /\ \A k \in 1..Len(m) : c[k] = m[k]
  BY <1>1, <1>3, <1>5, AppendFacts
<1>7. Documents(c) = Documents(b) \o <<d>>
  BY <1>1, <1>3, <1>4, <1>5, DocumentsAppend
<1>8. n = 2 * r /\ b[1] = "open" /\ \A k \in 2..n : (b[k] = "comma") <=> (k % 2 = 1)
  BY DEF Listed, Lengthy, Commas
<1> HIDE DEF n
<1>9. Len(c) = n + 2 /\ c[n + 2] = d /\ c[n + 1] = "comma" /\ \A k \in 1..n : c[k] = b[k]
  BY <1>3, <1>6
<1>10. (n + 1) % 2 = 1 /\ (n + 2) % 2 = 0 /\ n + 2 = 2 * (r + 1) /\ n >= 1
  BY <1>8
<1>11. ASSUME NEW k \in 2..(n + 2) PROVE (c[k] = "comma") <=> (k % 2 = 1)
  <2>1. (k \in 2..n /\ k \in 1..n) \/ k = n + 1 \/ k = n + 2
    BY <1>3
  <2>2. CASE k \in 2..n /\ k \in 1..n
    BY <1>8, <1>9, <2>2
  <2>3. CASE k = n + 1
    BY <1>9, <1>10, <2>3
  <2>4. CASE k = n + 2
    BY <1>1, <1>9, <1>10, <2>4
  <2> QED BY <2>1, <2>2, <2>3, <2>4
<1>12. c[1] = "open"
  BY <1>3, <1>8, <1>9, <1>10
<1>13. Lengthy(c, r + 1)
  BY <1>9, <1>10 DEF Lengthy
<1>14. Commas(c, Len(c))
  BY <1>9, <1>11 DEF Commas
<1>15. Listed(c, r + 1)
  BY <1>12, <1>13, <1>14 DEF Listed
<1> QED BY <1>6, <1>7, <1>15 DEF c

FramedOf(f, r, d) == IF f = "array" /\ r > 0 THEN << "comma", d >> ELSE <<d>>

LEMMA RecordGrows ==
  ASSUME NEW f \in Formats, NEW b \in Seq(Tokens), NEW r \in Nat, Growing(f, b, r), NEW d \in Docs
  PROVE  /\ b \o FramedOf(f, r, d) \in Seq(Tokens)
         /\ Documents(b \o FramedOf(f, r, d)) = Documents(b) \o <<d>>
         /\ Growing(f, b \o FramedOf(f, r, d), r + 1)
<1> DEFINE c == b \o FramedOf(f, r, d)
<1>1. CASE f = "array" /\ r > 0
  <2>1. Listed(b, r) /\ FramedOf(f, r, d) = <<"comma", d>> /\ r \in Nat \ {0}
    BY <1>1 DEF Growing, FramedOf
  <2> QED BY <1>1, <2>1, ListedGrows DEF Growing
<1>2. CASE ~(f = "array" /\ r > 0)
  <2> DEFINE n == Len(b)
  <2>1. d \in Tokens /\ Record1(d) = <<d>> /\ d # "comma"
    BY FramingTokens
  <2>2. c = Append(b, d)
    BY <1>2, <2>1, ConcatOne DEF FramedOf
  <2> HIDE DEF c
  <2>3. c \in Seq(Tokens) /\ Documents(c) = Documents(b) \o <<d>>
    BY <2>1, <2>2, DocumentsAppend
  <2>4. n \in Nat /\ Len(c) = n + 1 /\ c[n + 1] = d /\ \A k \in 1..n : c[k] = b[k]
    BY <2>1, <2>2, AppendFacts
  <2>5. ASSUME f = "array"
       PROVE  c \in Seq(Tokens) /\ Documents(c) = Documents(b) \o <<d>> /\ Growing(f, c, r + 1)
    <3>1. n = 1 /\ b[1] = "open" /\ r = 0
      BY <1>2, <2>5 DEF Growing, Listed, Lengthy
    <3> HIDE DEF n
    <3>2. Len(c) = 2 /\ c[1] = "open" /\ c[2] = d
      BY <2>4, <3>1
    <3>3. Commas(c, 2)
      <4>1. \A k \in 2..2 : k = 2 /\ k % 2 = 0
        OBVIOUS
      <4> QED BY <2>1, <3>2, <4>1 DEF Commas
    <3>4. Listed(c, 1)
      BY <3>2, <3>3 DEF Listed, Lengthy
    <3> QED BY <2>3, <2>5, <3>1, <3>4 DEF Growing
  <2>6. ASSUME f = "csv"
       PROVE  c \in Seq(Tokens) /\ Documents(c) = Documents(b) \o <<d>> /\ Growing(f, c, r + 1)
    <3>1. n >= 1 /\ b[1] = "header" /\ Plain(b, 2)
      BY <2>6 DEF Growing, Headed
    <3> HIDE DEF n
    <3>2. Plain(c, 2)
      BY <2>2, <3>1, PlainGrows
    <3>3. c[1] = "header" /\ Len(c) >= 1
      BY <2>4, <3>1
    <3> QED BY <2>3, <2>6, <3>2, <3>3 DEF Growing, Headed
  <2>7. ASSUME f = "jsonl"
       PROVE  c \in Seq(Tokens) /\ Documents(c) = Documents(b) \o <<d>> /\ Growing(f, c, r + 1)
    <3>1. Plain(c, 1)
      BY <2>2, <2>7, PlainGrows DEF Growing
    <3> QED BY <2>3, <2>7, <3>1 DEF Growing
  <2>8. c \in Seq(Tokens) /\ Documents(c) = Documents(b) \o <<d>> /\ Growing(f, c, r + 1)
    BY <2>5, <2>6, <2>7 DEF Formats
  <2> QED BY <2>8 DEF c
<1> QED BY <1>1, <1>2

\* The closing of each format makes the part complete.
ClosingOf(f) == IF f = "array" THEN << "close" >> ELSE << >>

LEMMA ListedCloses ==
  ASSUME NEW b \in Seq(Tokens), NEW r \in Nat, Listed(b, r)
  PROVE  /\ b \o << "close" >> \in Seq(Tokens) /\ Documents(b \o << "close" >>) = Documents(b)
         /\ Closed(b \o << "close" >>)
<1> DEFINE n == Len(b)
           c == b \o << "close" >>
<1>1. "close" \in Tokens /\ Record1("close") = << >>
  BY FramingTokens DEF Framing
<1>2. c = Append(b, "close")
  BY <1>1, ConcatOne
<1> HIDE DEF c
<1>3. n \in Nat /\ c \in Seq(Tokens) /\ Len(c) = n + 1 /\ c[n + 1] = "close" /\ \A k \in 1..n : c[k] = b[k]
  BY <1>1, <1>2, AppendFacts
<1>4. Documents(c) = Documents(b)
  <2>1. Documents(c) = Documents(b) \o << >> /\ Documents(b) \in Seq(Docs)
    BY <1>1, <1>2, DocumentsAppend, DocumentsType
  <2> QED BY <2>1, ConcatEmptySeq
<1>5. /\ (r = 0 => n = 1) /\ (r # 0 => n = 2 * r) /\ b[1] = "open"
      /\ \A k \in 2..n : (b[k] = "comma") <=> (k % 2 = 1)
  BY DEF Listed, Lengthy, Commas
<1> HIDE DEF n
<1>6. n >= 1 /\ (n + 1 > 2 => (n + 1) % 2 = 1)
  BY <1>3, <1>5
<1>7. \A k \in 2..n : c[k] = b[k]
  <2>1. \A k \in 2..n : k \in 1..n
    BY <1>3
  <2> QED BY <1>3, <2>1
<1>8. Len(c) - 1 = n /\ c[1] = "open" /\ c[Len(c)] = "close" /\ Len(c) >= 2
  BY <1>3, <1>5, <1>6
<1>9. Commas(c, Len(c) - 1)
  BY <1>5, <1>7, <1>8 DEF Commas
<1>10. Closed(c)
  BY <1>3, <1>6, <1>8, <1>9 DEF Closed
<1> QED BY <1>3, <1>4, <1>10 DEF c

LEMMA ClosingCompletes ==
  ASSUME NEW f \in Formats, NEW b \in Seq(Tokens), NEW r \in Nat, Growing(f, b, r)
  PROVE  /\ b \o ClosingOf(f) \in Seq(Tokens) /\ Documents(b \o ClosingOf(f)) = Documents(b)
         /\ Complete(f, b \o ClosingOf(f))
<1>1. CASE f = "array"
  <2>1. Listed(b, r) /\ ClosingOf(f) = << "close" >>
    BY <1>1 DEF Growing, ClosingOf
  <2> QED BY <1>1, <2>1, ListedCloses DEF Complete
<1>2. CASE f # "array"
  <2>1. b \o ClosingOf(f) = b
    BY <1>2, ConcatEmptySeq DEF ClosingOf
  <2> QED BY <1>2, <2>1 DEF Growing, Complete
<1> QED BY <1>1, <1>2

-----------------------------------------------------------------------------
(* The batches under way *)

\* The channel c holds the batches between the r the consumer has taken and the
\* s the task has sent, of l, in order; or those and the error that ends them.
Holding(c, r, s, over, l) ==
  /\ r <= s
  /\ \A i \in 1..(s - r) : c[i] = r + i
  /\ \/ Len(c) = s - r /\ (over => s = l)
     \/ Len(c) = s - r + 1 /\ c[Len(c)] = Failed /\ over

LEMMA HoldingSends ==
  ASSUME NEW c \in Seq(Nat), NEW r \in Nat, NEW s \in Nat, NEW l \in Nat, NEW over \in BOOLEAN,
         Holding(c, r, s, FALSE, l), over => s + 1 = l
  PROVE  Holding(Append(c, s + 1), r, s + 1, over, l)
<1> DEFINE d == Append(c, s + 1)
           n == s - r
<1>1. r <= s /\ Len(c) = n /\ \A i \in 1..n : c[i] = r + i
  BY DEF Holding
<1>2. n \in Nat /\ s + 1 \in Nat /\ s + 1 = r + (n + 1) /\ (s + 1) - r = n + 1
  BY <1>1
<1>3. Len(d) = n + 1 /\ d[n + 1] = s + 1 /\ \A i \in 1..n : d[i] = c[i]
  BY <1>1, <1>2, AppendFacts
<1> HIDE DEF d, n
<1>4. \A i \in 1..(n + 1) : d[i] = r + i
  <2>1. \A i \in 1..(n + 1) : i \in 1..n \/ i = n + 1
    BY <1>2
  <2> QED BY <1>1, <1>2, <1>3, <2>1
<1>5. Holding(d, r, s + 1, over, l)
  BY <1>1, <1>2, <1>3, <1>4 DEF Holding
<1> QED BY <1>5 DEF d

LEMMA HoldingFails ==
  ASSUME NEW c \in Seq(Nat), NEW r \in Nat, NEW s \in Nat, NEW l, Holding(c, r, s, FALSE, l)
  PROVE  Holding(Append(c, Failed), r, s, TRUE, l)
<1> DEFINE d == Append(c, Failed)
           n == s - r
<1>1. r <= s /\ Len(c) = n /\ \A i \in 1..n : c[i] = r + i
  BY DEF Holding
<1>2. n \in Nat /\ Failed \in Nat
  BY <1>1 DEF Failed
<1>3. Len(d) = n + 1 /\ d[n + 1] = Failed /\ \A i \in 1..n : d[i] = c[i]
  BY <1>1, <1>2, AppendFacts
<1> HIDE DEF d
<1>4. \A i \in 1..n : d[i] = r + i
  BY <1>1, <1>3
<1>5. Holding(d, r, s, TRUE, l)
  BY <1>1, <1>2, <1>3, <1>4 DEF Holding
<1> QED BY <1>5 DEF d

LEMMA HoldingTakes ==
  ASSUME NEW c \in Seq(Nat), c # << >>, NEW r \in Nat, NEW s \in Nat, NEW l, NEW over \in BOOLEAN,
         Holding(c, r, s, over, l), Head(c) # Failed
  PROVE  Head(c) = r + 1 /\ r + 1 <= s /\ Holding(Tail(c), r + 1, s, over, l)
<1> DEFINE t == Tail(c)
           n == s - r
           m == Len(c)
<1>1. /\ m \in Nat \ {0} /\ Head(c) = c[1] /\ Len(t) = m - 1
      /\ \A i \in 1..(m - 1) : t[i] = c[i + 1]
  BY EmptySeq, HeadTailProperties
<1>2. /\ r <= s /\ \A i \in 1..n : c[i] = r + i
      /\ \/ m = n /\ (over => s = l)
         \/ m = n + 1 /\ c[m] = Failed /\ over
  BY DEF Holding
<1>3. n \in Nat
  BY <1>2
<1> HIDE DEF m, t
<1>4. n # 0
  BY <1>1, <1>2
<1>5. 1 \in 1..n /\ r + 1 <= s /\ s - (r + 1) = n - 1
  BY <1>2, <1>3, <1>4
<1>6. Head(c) = r + 1
  BY <1>1, <1>2, <1>5
<1>7. ASSUME NEW i \in 1..(n - 1) PROVE t[i] = (r + 1) + i
  <2>1. i \in 1..(m - 1) /\ i + 1 \in 1..n
    BY <1>1, <1>2, <1>3
  <2>2. t[i] = c[i + 1] /\ c[i + 1] = r + (i + 1)
    BY <1>1, <1>2, <2>1
  <2> QED BY <2>2
<1>8. CASE m = n + 1 /\ c[m] = Failed /\ over
  <2>1. n \in 1..(m - 1) /\ m - 1 = n
    BY <1>3, <1>4, <1>8
  <2>2. t[n] = Failed /\ Len(t) = n
    BY <1>1, <1>8, <2>1
  <2>3. Holding(t, r + 1, s, over, l)
    BY <1>3, <1>5, <1>7, <1>8, <2>2 DEF Holding
  <2> QED BY <1>5, <1>6, <2>3 DEF t
<1>9. CASE m = n /\ (over => s = l)
  <2>1. Holding(t, r + 1, s, over, l)
    BY <1>1, <1>3, <1>5, <1>7, <1>9 DEF Holding
  <2> QED BY <1>5, <1>6, <2>1 DEF t
<1> QED BY <1>2, <1>8, <1>9

LEMMA HoldingNothing ==
  ASSUME NEW r \in Nat, NEW s \in Nat, NEW l, Holding(<< >>, r, s, TRUE, l)
  PROVE  r = l
BY DEF Holding

\* The first document of those that are left goes to the part.
Moves(p, q, rest) == (p \o (q \o <<Head(rest)>>)) \o Tail(rest) = (p \o q) \o rest

LEMMA MoveFirst ==
  ASSUME NEW S, NEW p \in Seq(S), NEW q \in Seq(S), NEW rest \in Seq(S), rest # << >>
  PROVE  Moves(p, q, rest)
<1> DEFINE h == <<Head(rest)>>
           t == Tail(rest)
<1>1. Head(rest) \in S /\ t \in Seq(S) /\ h \in Seq(S) /\ rest = h \o t
  BY HeadTailProperties
<1> HIDE DEF h, t
<1>a. \A x, y, z \in Seq(S) : (x \o y) \o z = x \o (y \o z)
  BY ConcatAssociative
<1>2. (p \o q) \o h = p \o (q \o h)
  BY <1>1, <1>a, Zenon
<1> DEFINE both == p \o q
<1>3. both \in Seq(S)
  BY ConcatProperties
<1> HIDE DEF both
<1>4. (both \o h) \o t = both \o (h \o t)
  BY <1>1, <1>3, <1>a, Zenon
<1>5. (p \o (q \o h)) \o t = both \o rest
  BY <1>1, <1>2, <1>4, Zenon DEF both
<1> QED BY <1>1, <1>5 DEF h, t, both, Moves

-----------------------------------------------------------------------------
(* The consumer writes every document once *)

OutTypes == inbox \in Seq(Docs) /\ buffer \in Seq(Tokens) /\ objects \in Seq(Seq(Tokens))

Recorded(parts) == \A p \in 1..Len(parts) : Documents(parts[p]) # << >>

\* The parts written are complete, and the one in the buffer grows; a part is
\* cut when it holds a record, and only the first may be written without one.
Written ==
  /\ \A p \in 1..Len(objects) : Complete(format, objects[p])
  /\ consumer = "starting" =>
       objects = << >> /\ buffer = << >> /\ inbox = << >> /\ records = 0
  /\ consumer \in {"reading", "cutting"} =>
       /\ Growing(format, buffer, records) /\ Recorded(objects)
       /\ records = 0 <=> Documents(buffer) = << >>
  /\ consumer = "cutting" => records # 0
  /\ consumer \in {"publishing", "done"} =>
       objects # << >> /\ (Len(objects) > 1 => Recorded(objects))
  /\ consumer = "done" /\ split => manifest = [p \in DOMAIN objects |-> p - 1]

\* What the consumer has taken from the channel.
Taken == (Contents(objects) \o Documents(buffer)) \o inbox

\* Every document of the batches taken has been written or is at hand, and the
\* batches not yet taken are still to come.
Feed ==
  /\ consumer \in {"starting", "reading", "cutting"} =>
       \E r \in 0..Len(query) :
         Taken = First(r) /\ Holding(chan, r, Sent, task = "ended", Len(query))
  /\ consumer \in {"publishing", "done"} => Contents(objects) = FlattenSeq(query)

ExportInv == Ahead /\ Attended /\ OutTypes /\ Written /\ Feed

LEMMA ChanType ==
  ASSUME Inv, OutputTypes PROVE chan \in Seq(Nat) /\ Sent \in Nat /\ Len(query) \in Nat
<1>1. Len(query) \in Nat /\ Items \subseteq Nat /\ Sent \in Nat
  BY SentType DEF Items, Failed
<1> QED BY <1>1, SeqMonotonic DEF OutputTypes

\* A step of the task or of the client leaves the documents where they are.
LEMMA TaskFeeds ==
  ASSUME Inv, OutputTypes, Ahead, Attended, OutTypes, Written, Feed, TaskKeeps
  PROVE  OutTypes' /\ Written' /\ Feed'
<1> USE DEF options, output
<1>1. UNCHANGED <<listening, options, output>>
  BY DEF TaskKeeps
<1>2. OutTypes' /\ Written'
  BY <1>1 DEF OutTypes, Written
<1>3. consumer \in {"publishing", "done"} => Contents(objects) = FlattenSeq(query)
  BY DEF Feed
<1>4. ASSUME consumer \in {"starting", "reading", "cutting"}
      PROVE  \E r \in 0..Len(query) :
               Taken = First(r) /\ Holding(chan', r, Sent', task' = "ended", Len(query))
  <2>1. PICK r \in 0..Len(query) :
               Taken = First(r) /\ Holding(chan, r, Sent, task = "ended", Len(query))
    BY <1>4 DEF Feed
  <2>2. Quiet \/ Sends \/ Errs
    BY <1>4 DEF TaskKeeps, Attended
  <2>t. chan \in Seq(Nat) /\ Sent \in Nat /\ Len(query) \in Nat /\ r \in Nat
    BY ChanType
  <2>3. CASE Quiet
    BY <2>1, <2>3 DEF Quiet, Holding
  <2>4. CASE Sends
    <3>1. /\ Sent' = Sent + 1 /\ chan' = Append(chan, Sent + 1) /\ task # "ended"
          /\ task' = "ended" => Sent + 1 = Len(query)
      BY <2>4 DEF Sends
    <3>2. Holding(chan, r, Sent, FALSE, Len(query))
      BY <2>1, <3>1 DEF Holding
    <3> DEFINE over == task' = "ended"
    <3>3. over \in BOOLEAN /\ (over => Sent + 1 = Len(query))
      BY <3>1
    <3> HIDE DEF over
    <3>4. Holding(Append(chan, Sent + 1), r, Sent + 1, over, Len(query))
      BY <2>t, <3>2, <3>3, HoldingSends
    <3> QED BY <2>1, <3>1, <3>4 DEF over
  <2>5. CASE Errs
    <3>1. Sent' = Sent /\ chan' = Append(chan, Failed) /\ task # "ended" /\ task' = "ended"
      BY <2>5 DEF Errs
    <3>2. Holding(chan, r, Sent, FALSE, Len(query))
      BY <2>1, <3>1 DEF Holding
    <3>3. Holding(Append(chan, Failed), r, Sent, TRUE, Len(query))
      BY <2>t, <3>2, HoldingFails
    <3>4. Holding(chan', r, Sent', task' = "ended", Len(query))
      BY <3>1, <3>3 DEF Holding
    <3> QED BY <2>1, <3>4
  <2> QED BY <2>2, <2>3, <2>4, <2>5
<1> QED BY <1>1, <1>2, <1>3, <1>4 DEF Feed, Taken, First

LEMMA FramingAsWritten ==
  ASSUME format \in Formats
  PROVE  /\ Opening = OpeningOf(format) /\ Closing = ClosingOf(format)
         /\ \A d : Framed(d) = FramedOf(format, records, d)
BY DEF Opening, Header, OpeningOf, Closing, ClosingOf, Framed, FramedOf

LEMMA OpeningStarts ==
  ASSUME format \in Formats
  PROVE  Opening \in Seq(Tokens) /\ Documents(Opening) = << >> /\ Growing(format, Opening, 0)
BY OpeningGrows, FramingAsWritten

\* Writing the part in the buffer moves its documents to the objects.
LEMMA PartWritten ==
  ASSUME format \in Formats, OutTypes, Growing(format, buffer, records), records \in Nat,
         \A p \in 1..Len(objects) : Complete(format, objects[p]), WritePart
  PROVE  /\ objects' \in Seq(Seq(Tokens)) /\ objects' # << >>
         /\ Contents(objects') = Contents(objects) \o Documents(buffer)
         /\ \A p \in 1..Len(objects') : Complete(format, objects'[p])
         /\ Recorded(objects) /\ Documents(buffer) # << >> => Recorded(objects')
         /\ Len(objects') > 1 => objects # << >>
<1> DEFINE part == buffer \o Closing
           n == Len(objects)
<1>1. part \in Seq(Tokens) /\ Documents(part) = Documents(buffer) /\ Complete(format, part)
  BY ClosingCompletes, FramingAsWritten DEF OutTypes
<1>2. objects' = Append(objects, part) /\ objects \in Seq(Seq(Tokens))
  BY DEF WritePart, OutTypes
<1>3. \A p \in 1..n : Complete(format, objects[p])
  OBVIOUS
<1> HIDE DEF part
<1>4. /\ objects' \in Seq(Seq(Tokens)) /\ n \in Nat /\ Len(objects') = n + 1
      /\ objects'[n + 1] = part /\ \A p \in 1..n : objects'[p] = objects[p]
  BY <1>1, <1>2, AppendFacts
<1>5. Contents(objects') = Contents(objects) \o Documents(buffer)
  BY <1>1, <1>2, ContentsAppend
<1>6. n = 0 => objects = << >>
  BY <1>2, EmptySeq
<1>7. objects = << >> => n = 0
  OBVIOUS
<1>8. Recorded(objects) => \A p \in 1..n : Documents(objects[p]) # << >>
  BY DEF Recorded
<1> HIDE DEF n
<1>9. \A p \in 1..(n + 1) : p \in 1..n \/ p = n + 1
  BY <1>4
<1>10. \A p \in 1..Len(objects') : Complete(format, objects'[p])
  BY <1>1, <1>3, <1>4, <1>9
<1>11. Recorded(objects) /\ Documents(buffer) # << >> => Recorded(objects')
  BY <1>1, <1>4, <1>8, <1>9 DEF Recorded
<1>12. objects' # << >>
  <2>1. Len(objects') # 0
    BY <1>4
  <2> QED BY <2>1
<1>13. Len(objects') > 1 => objects # << >>
  BY <1>4, <1>7
<1> QED BY <1>4, <1>5, <1>10, <1>11, <1>12, <1>13

LEMMA ConsumerFeeds ==
  ASSUME Inv, OutputTypes, Ahead, Attended, OutTypes, Written, Feed, ConsumerStep \/ ConsumerFails
  PROVE  OutTypes' /\ Written' /\ Feed'
<1> USE DEF options, output
<1>f. UNCHANGED <<Sent, task, options>>
  BY ConsumerFrame
<1>t. /\ inbox \in Seq(Docs) /\ buffer \in Seq(Tokens) /\ objects \in Seq(Seq(Tokens))
      /\ format \in Formats /\ records \in Nat /\ query \in Queries
  BY DEF OutTypes, OutputTypes, Inv, FetchTypes
<1>n. chan \in Seq(Nat) /\ Sent \in Nat /\ Len(query) \in Nat
  BY ChanType
<1>d. Documents(buffer) \in Seq(Docs) /\ Contents(objects) \in Seq(Docs)
  BY <1>t, DocumentsType, ContentsType
<1>c. \A p \in 1..Len(objects) : Complete(format, objects[p])
  BY DEF Written
\* A step that leaves the channel alone and moves documents along.
<1>m. ASSUME consumer \in {"starting", "reading", "cutting"}, chan' = chan, Taken' = Taken,
             consumer' \notin {"publishing", "done"}
      PROVE  Feed'
  <2>1. \E r \in 0..Len(query) : Taken = First(r) /\ Holding(chan, r, Sent, task = "ended", Len(query))
    BY <1>m DEF Feed
  <2>2. \E r \in 0..Len(query') :
          Taken' = First(r)' /\ Holding(chan', r, Sent', task' = "ended", Len(query'))
    BY <1>f, <1>m, <2>1 DEF First
  <2> QED BY <1>m, <2>2 DEF Feed
<1>1. ASSUME consumer' = "failed", UNCHANGED <<inbox, buffer, objects>>
      PROVE  OutTypes' /\ Written' /\ Feed'
  BY <1>1, <1>f, <1>c DEF OutTypes, Written, Feed
<1>2. CASE Start
  <2>1. CASE ~Encodable
    BY <1>1, <1>2, <2>1 DEF Start, Drop
  <2>2. CASE Encodable
    <3>1. /\ consumer = "starting" /\ consumer' = "reading" /\ buffer' = Opening
          /\ UNCHANGED <<chan, inbox, records, objects>>
      BY <1>2, <2>2 DEF Start
    <3>2. objects = << >> /\ buffer = << >> /\ records = 0
      BY <3>1 DEF Written
    <3>3. /\ buffer' \in Seq(Tokens) /\ Documents(buffer') = << >>
          /\ Growing(format, buffer', 0)
      BY <1>t, <3>1, OpeningStarts
    <3>4. Taken' = Taken
      BY <3>1, <3>2, <3>3, DocumentsEmpty DEF Taken
    <3>5. Recorded(objects)
      BY <3>2 DEF Recorded
    <3>6. Written'
      BY <1>f, <1>c, <3>1, <3>2, <3>3, <3>5 DEF Written
    <3>7. Feed'
      BY <1>m, <3>1, <3>4
    <3>8. OutTypes'
      BY <1>t, <3>1, <3>3 DEF OutTypes
    <3> QED BY <3>6, <3>7, <3>8
  <2> QED BY <2>1, <2>2
<1>3. CASE Receive
  <2>1. CASE Head(chan) = Failed
    BY <1>1, <1>3, <2>1 DEF Receive, Drop
  <2>2. CASE Head(chan) # Failed
    <3>1. /\ consumer = "reading" /\ inbox = << >> /\ chan # << >> /\ chan' = Tail(chan)
          /\ inbox' = query[Head(chan)] /\ UNCHANGED <<consumer, buffer, records, objects>>
      BY <1>3, <2>2 DEF Receive
    <3>2. PICK r \in 0..Len(query) : Taken = First(r) /\ Holding(chan, r, Sent, task = "ended", Len(query))
      BY <3>1 DEF Feed
    <3> DEFINE over == task = "ended"
    <3>3. over \in BOOLEAN /\ Holding(chan, r, Sent, over, Len(query)) /\ r \in Nat
      BY <1>n, <3>2
    <3> HIDE DEF over
    <3>4. Head(chan) = r + 1 /\ r + 1 <= Sent /\ Holding(Tail(chan), r + 1, Sent, over, Len(query))
      BY <1>n, <2>2, <3>1, <3>3, HoldingTakes
    <3>5. Sent <= Len(query)
      BY SentType
    <3>6. r \in 0..(Len(query) - 1) /\ r + 1 \in 0..Len(query)
      BY <1>n, <3>2, <3>4, <3>5
    <3>7. /\ query[r + 1] \in Seq(Docs) /\ First(r) \in Seq(Docs)
          /\ First(r + 1) = First(r) \o query[r + 1]
      BY <1>t, <3>6, OneMoreBatch
    <3>8. Contents(objects) \o Documents(buffer) = First(r)
      <4>1. Contents(objects) \o Documents(buffer) \in Seq(Docs)
        BY <1>d, ConcatProperties
      <4> QED BY <3>1, <3>2, <4>1, ConcatEmptySeq DEF Taken
    <3>9. Taken' = First(r + 1)'
      BY <1>f, <3>1, <3>4, <3>7, <3>8 DEF Taken, First
    <3>10. Feed'
      BY <1>f, <3>1, <3>4, <3>6, <3>9 DEF Feed, over
    <3>11. OutTypes' /\ Written'
      BY <1>f, <1>t, <1>c, <3>1, <3>4, <3>7 DEF OutTypes, Written
    <3> QED BY <3>10, <3>11
  <2> QED BY <2>1, <2>2
<1>4. CASE Record
  <2>1. /\ consumer = "reading" /\ inbox # << >> /\ inbox' = Tail(inbox)
        /\ buffer' = buffer \o FramedOf(format, records, Head(inbox)) /\ records' = records + 1
        /\ consumer' \in {"cutting", "reading"} /\ UNCHANGED <<chan, objects>>
    BY <1>t, <1>4, FramingAsWritten DEF Record, channel
  <2>2. /\ Head(inbox) \in Docs /\ Tail(inbox) \in Seq(Docs)
        /\ (Contents(objects) \o (Documents(buffer) \o <<Head(inbox)>>)) \o Tail(inbox)
             = (Contents(objects) \o Documents(buffer)) \o inbox
    <3> DEFINE p == Contents(objects)
               q == Documents(buffer)
    <3>1. p \in Seq(Docs) /\ q \in Seq(Docs) /\ inbox \in Seq(Docs) /\ inbox # << >>
      BY <1>t, <1>d, <2>1
    <3> HIDE DEF p, q
    <3>2. Moves(p, q, inbox)
      BY <3>1, MoveFirst
    <3>3. Head(inbox) \in Docs /\ Tail(inbox) \in Seq(Docs)
      BY <3>1, HeadTailProperties
    <3> QED BY <3>2, <3>3 DEF p, q, Moves
  <2>3. Growing(format, buffer, records) /\ Recorded(objects)
    BY <2>1 DEF Written
  <2>4. /\ buffer' \in Seq(Tokens) /\ Documents(buffer') = Documents(buffer) \o <<Head(inbox)>>
        /\ Growing(format, buffer', records + 1)
    BY <1>t, <2>1, <2>2, <2>3, RecordGrows
  <2>5. Documents(buffer') # << >> /\ records + 1 # 0
    <3>1. Documents(buffer) \o <<Head(inbox)>> # << >>
      BY <1>d, <2>2
    <3> QED BY <1>t, <2>4, <3>1
  <2>6. Taken' = Taken
    BY <2>1, <2>2, <2>4 DEF Taken
  <2>7. Feed'
    BY <1>m, <2>1, <2>6
  <2>8. Written'
    BY <1>f, <1>c, <2>1, <2>3, <2>4, <2>5 DEF Written
  <2>9. OutTypes'
    BY <1>t, <2>1, <2>2, <2>4 DEF OutTypes
  <2> QED BY <2>7, <2>8, <2>9
<1>5. CASE CutPart
  <2>1. /\ consumer = "cutting" /\ WritePart /\ buffer' = Opening /\ records' = 0
        /\ consumer' = "reading" /\ UNCHANGED <<chan, inbox>>
    BY <1>5 DEF CutPart, channel
  <2>2. Growing(format, buffer, records) /\ Recorded(objects) /\ Documents(buffer) # << >>
    BY <2>1 DEF Written
  <2>3. /\ objects' \in Seq(Seq(Tokens))
        /\ Contents(objects') = Contents(objects) \o Documents(buffer)
        /\ \A p \in 1..Len(objects') : Complete(format, objects'[p])
        /\ Recorded(objects')
    BY <1>t, <1>c, <2>1, <2>2, PartWritten DEF OutTypes
  <2>4. buffer' \in Seq(Tokens) /\ Documents(buffer') = << >> /\ Growing(format, buffer', 0)
    BY <1>t, <2>1, OpeningStarts
  <2>5. Taken' = Taken
    <3>1. Contents(objects') \in Seq(Docs)
      BY <2>3, ContentsType
    <3> QED BY <2>1, <2>3, <2>4, <3>1, ConcatEmptySeq DEF Taken
  <2>6. Feed'
    BY <1>m, <2>1, <2>5
  <2>7. Written'
    BY <1>f, <2>1, <2>3, <2>4 DEF Written
  <2>8. OutTypes'
    BY <1>t, <2>1, <2>3, <2>4 DEF OutTypes
  <2> QED BY <2>6, <2>7, <2>8
<1>6. CASE LastPart
  <2>1. /\ consumer = "reading" /\ inbox = << >> /\ chan = << >> /\ task \in {"ended", "killed"}
        /\ IF Trailing THEN WritePart ELSE UNCHANGED objects
        /\ consumer' = IF split THEN "publishing" ELSE "done"
        /\ UNCHANGED <<inbox, buffer, records, chan>>
    BY <1>6 DEF LastPart, Drained, channel
  <2>2. task = "ended"
    BY <2>1 DEF Attended
  <2>3. PICK r \in 0..Len(query) : Taken = First(r) /\ Holding(chan, r, Sent, task = "ended", Len(query))
    BY <2>1 DEF Feed
  <2>4. r = Len(query)
    <3>1. Holding(<< >>, r, Sent, TRUE, Len(query))
      BY <2>1, <2>2, <2>3 DEF Holding
    <3>2. r \in Nat
      BY <1>n
    <3> QED BY <1>n, <3>1, <3>2, HoldingNothing
  <2>5. Contents(objects) \o Documents(buffer) = FlattenSeq(query)
    <3>1. Contents(objects) \o Documents(buffer) \in Seq(Docs)
      BY <1>d, ConcatProperties
    <3>2. First(Len(query)) = FlattenSeq(query)
      BY <1>t, QueryType
    <3> QED BY <2>1, <2>3, <2>4, <3>1, <3>2, ConcatEmptySeq DEF Taken
  <2>6. /\ Growing(format, buffer, records) /\ Recorded(objects)
        /\ records = 0 <=> Documents(buffer) = << >>
    BY <2>1 DEF Written
  <2>7. /\ objects' \in Seq(Seq(Tokens)) /\ objects' # << >> /\ Contents(objects') = FlattenSeq(query)
        /\ \A p \in 1..Len(objects') : Complete(format, objects'[p])
        /\ Len(objects') > 1 => Recorded(objects')
    <3>1. CASE ~Trailing
      <4>1. objects' = objects /\ objects # << >> /\ records = 0
        BY <1>t, <2>1, <3>1 DEF Trailing
      <4>2. Contents(objects) = FlattenSeq(query)
        BY <1>d, <2>5, <2>6, <4>1, ConcatEmptySeq
      <4> QED BY <1>t, <1>c, <2>6, <4>1, <4>2
    <3>2. CASE Trailing
      <4>1. /\ objects' \in Seq(Seq(Tokens)) /\ objects' # << >>
            /\ Contents(objects') = Contents(objects) \o Documents(buffer)
            /\ \A p \in 1..Len(objects') : Complete(format, objects'[p])
            /\ Recorded(objects) /\ Documents(buffer) # << >> => Recorded(objects')
            /\ Len(objects') > 1 => objects # << >>
        BY <1>t, <1>c, <2>1, <2>6, <3>2, PartWritten DEF OutTypes
      <4>2. Len(objects') > 1 => records # 0
        BY <1>t, <3>2, <4>1 DEF Trailing
      <4> QED BY <2>5, <2>6, <4>1, <4>2
    <3> QED BY <3>1, <3>2
  <2>8. consumer' \in {"publishing", "done"} /\ (consumer' = "done" => ~split')
    BY <1>f, <2>1
  <2>9. Feed'
    BY <1>f, <2>7, <2>8 DEF Feed
  <2>10. Written'
    BY <1>f, <2>7, <2>8 DEF Written
  <2>11. OutTypes'
    BY <1>t, <2>1, <2>7 DEF OutTypes
  <2> QED BY <2>9, <2>10, <2>11
<1>7. CASE WriteManifest
  <2>1. /\ consumer = "publishing" /\ consumer' = "done"
        /\ manifest' = [p \in DOMAIN objects |-> p - 1] /\ UNCHANGED <<inbox, buffer, objects>>
    BY <1>7 DEF WriteManifest
  <2>2. OutTypes' /\ Feed'
    BY <1>f, <1>t, <2>1 DEF OutTypes, Feed
  <2>3. Written'
    BY <1>f, <2>1 DEF Written, Recorded
  <2> QED BY <2>2, <2>3
<1>8. CASE ConsumerFails
  BY <1>1, <1>8 DEF ConsumerFails, Drop
<1> QED BY <1>2, <1>3, <1>4, <1>5, <1>6, <1>7, <1>8 DEF ConsumerStep

LEMMA InitExport == Init => ExportInv
<1> SUFFICES ASSUME Init PROVE ExportInv
  OBVIOUS
<1>1. /\ query \in Queries /\ batch = [number |-> 0, id |-> 0, more |-> FALSE]
      /\ task = "spawned" /\ listening = TRUE /\ consumer = "starting"
      /\ chan = << >> /\ inbox = << >> /\ buffer = << >> /\ records = 0 /\ objects = << >>
  BY DEF Init
<1>2. Len(query) \in Nat /\ First(0) = << >>
  BY <1>1, QueryType
<1>3. Ahead /\ Attended
  BY <1>1 DEF Ahead, Attended
<1>4. OutTypes
  BY <1>1, EmptySeq DEF OutTypes
<1>5. Written
  BY <1>1 DEF Written
<1>6. Taken = << >>
  BY <1>1, DocumentsEmpty, ContentsEmpty DEF Taken
<1>7. Sent = 0
  <2>1. ~Delivering
    BY <1>1 DEF Delivering
  <2> QED BY <1>1, <2>1 DEF Sent
<1>8. Holding(chan, 0, Sent, task = "ended", Len(query))
  BY <1>1, <1>7 DEF Holding
<1>9. Feed
  BY <1>1, <1>2, <1>6, <1>8 DEF Feed
<1> QED BY <1>3, <1>4, <1>5, <1>9 DEF ExportInv

LEMMA CompleteStandsAlone ==
  ASSUME format \in Formats, NEW object \in Seq(Tokens), Complete(format, object)
  PROVE  Standalone(object)
<1> DEFINE n == Len(object)
<1>1. n \in Nat /\ DOMAIN object = 1..n
  BY LenProperties
<1>2. CASE format = "jsonl"
  BY <1>1, <1>2 DEF Complete, Plain, Standalone
<1>3. CASE format = "csv"
  <2>1. n >= 1 /\ object[1] = "header" /\ \A k \in 2..n : object[k] \notin Framing
    BY <1>3 DEF Complete, Headed, Plain
  <2>2. object # << >>
    BY <2>1
  <2> QED BY <1>3, <2>1, <2>2 DEF Standalone
<1>4. CASE format = "array"
  <2>1. Closed(object)
    BY <1>4 DEF Complete
  <2> QED BY <1>1, <1>4, <2>1 DEF Closed, Commas, Standalone
<1> QED BY <1>2, <1>3, <1>4 DEF Formats

LEMMA ExportInvPreserved ==
  "fetching" \notin SilentOnce /\ ClientTypeOK /\ Inv /\ OutputTypes /\ ExportInv /\ [Next]_vars => ExportInv'
<1> SUFFICES ASSUME "fetching" \notin SilentOnce, ClientTypeOK, Inv, OutputTypes, ExportInv, [Next]_vars
             PROVE  ExportInv'
  OBVIOUS
<1> USE DEF ExportInv
<1>1. CASE ConsumerStep \/ ConsumerFails
  BY <1>1, ConsumerFrame, ConsumerFeeds
<1>2. CASE TaskKeeps
  BY <1>2, TaskFeeds DEF TaskKeeps
<1> QED BY <1>1, <1>2, TaskPreserved

\* What run_export and run_split_export promise, for any result, any framing,
\* any size of a part, any capacity of the channel, any other callers and any
\* faults: an export that returns Ok has written every document of the result
\* once and in order, in parts that each stand alone, and its manifest lists
\* them.  The hypothesis is about the server: no batch is lost after it was
\* taken from the cursor.  Without it the export skips the batch, as the run
\* export_skip shows.
THEOREM ExportFaithfulCorrect ==
  ASSUME "fetching" \notin SilentOnce PROVE Spec => []ExportFaithful
<1>1. ASSUME OutputTypes, ExportInv PROVE ExportFaithful
  <2> SUFFICES ASSUME consumer = "done"
               PROVE  /\ Contents(objects) = FlattenSeq(query)
                      /\ \A p \in DOMAIN objects : Standalone(objects[p])
                      /\ objects # << >>
                      /\ Len(objects) > 1 => \A p \in DOMAIN objects : Documents(objects[p]) # << >>
                      /\ split => manifest = [p \in DOMAIN objects |-> p - 1]
    BY DEF ExportFaithful
  <2>1. objects \in Seq(Seq(Tokens)) /\ format \in Formats
    BY <1>1 DEF ExportInv, OutTypes, OutputTypes
  <2>2. DOMAIN objects = 1..Len(objects) /\ \A p \in 1..Len(objects) : objects[p] \in Seq(Tokens)
    BY <2>1, LenProperties, ElementOfSeq
  <2>3. \A p \in 1..Len(objects) : Complete(format, objects[p])
    BY <1>1 DEF ExportInv, Written
  <2>4. \A p \in DOMAIN objects : Standalone(objects[p])
    BY <2>1, <2>2, <2>3, CompleteStandsAlone
  <2>5. Contents(objects) = FlattenSeq(query)
    BY <1>1 DEF ExportInv, Feed
  <2>6. /\ objects # << >>
        /\ Len(objects) > 1 => \A p \in DOMAIN objects : Documents(objects[p]) # << >>
    BY <1>1, <2>2 DEF ExportInv, Written, Recorded
  <2>7. split => manifest = [p \in DOMAIN objects |-> p - 1]
    BY <1>1 DEF ExportInv, Written
  <2> QED BY <2>4, <2>5, <2>6, <2>7
<1>2. ClientTypeOK /\ Inv /\ [Next]_vars => Inv'
  BY InvPreserved
<1>3. Inv /\ OutputTypes /\ [Next]_vars => OutputTypes'
  BY OutputTypesPreserved
<1>4. ClientTypeOK /\ Inv /\ OutputTypes /\ ExportInv /\ [Next]_vars => ExportInv'
  BY ExportInvPreserved
<1> QED
  BY <1>1, <1>2, <1>3, <1>4, InitInv, InitExport, InitOutputTypes, ClientTypeCorrect, PTL DEF Spec

=============================================================================
