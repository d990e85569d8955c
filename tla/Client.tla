------------------------------- MODULE Client -------------------------------
(***************************************************************************)
(* The calls of the HTTP client (crates/arangodb-client/src/client.rs,     *)
(* auth.rs, and the retry loop of arangodb-tools-core/src/retry.rs): every *)
(* caller runs at most one call at a time, all callers share one cached    *)
(* token.  A call is a series of attempts; an attempt obtains a token,     *)
(* sends the request and has its answer classified: done, refused, refresh *)
(* the token, or try again.                                                *)
(*                                                                         *)
(* What a request does on the server is the business of the module that    *)
(* composes this one: it conjoins the effect with Answer(c, "ok"), or with *)
(* Lose(c) when the answer is lost after the server acted.                 *)
(***************************************************************************)
EXTENDS Integers

CONSTANTS
  Callers,        \* tasks that hold a clone of the client
  Auths,          \* authentication modes to consider, subset of AuthModes
  MaxAttempts,    \* RetryPolicy::max_attempts
  MaxFaults       \* bound on lost and refused requests, expiries and revocations

AuthModes == {"static", "secret", "login"}

ASSUME ClientAssumption ==
  /\ Auths \subseteq AuthModes
  /\ MaxAttempts \in Nat \ {0} /\ MaxFaults \in Nat

VARIABLES
  auth,       \* the mode; "static" stands for None, Basic and Bearer
  cache,      \* the cached token: 0 for none, else its number in order of issue
  issued,     \* tokens issued so far
  expiring,   \* tokens up to this one are within EXPIRY_SKEW of their expiry
  dead,       \* tokens up to this one are refused by the server
  call,       \* the call of each caller
  faults      \* faults so far

token == <<cache, issued, expiring, dead>>
clientVars == <<auth, token, call, faults>>

Replies == {"none", "ok", "unauthorized", "transient", "refused"}

Idle == [pc |-> "idle", direct |-> FALSE, attempt |-> 1, refreshed |-> FALSE,
         token |-> 0, reply |-> "none", excused |-> FALSE]

\* A static credential is token 0, valid until the server withdraws it.
ClientInit ==
  /\ auth \in Auths
  /\ cache = 0 /\ issued = 0 /\ expiring = 0 /\ dead = -1
  /\ call = [c \in Callers |-> Idle]
  /\ faults = 0

\* Another caller holds a token it has not cached yet, which is dead already.
StaleInFlight(c) ==
  \E d \in Callers \ {c} : call[d].pc = "storing" /\ call[d].token <= dead

Move(c, pc) == call' = [call EXCEPT ![c].pc = pc]

\* execute, send_body: through the refresh of 401s.  The direct calls --
\* list_databases, server_role, replication_dump_chunk -- apply
\* the token themselves.
Fresh(c, direct) ==
  [Idle EXCEPT !.pc = "auth", !.direct = direct, !.excused = StaleInFlight(c)]

Begin(c, direct) ==
  /\ call[c].pc \in {"idle", "over"}
  /\ call' = [call EXCEPT ![c] = Fresh(c, direct)]
  /\ UNCHANGED <<auth, token, faults>>

(***************************************************************************)
(* apply_auth and bearer_token.                                            *)
(***************************************************************************)

Usable == auth = "static" \/ (cache # 0 /\ cache > expiring)

UseCached(c) ==
  /\ call[c].pc = "auth" /\ Usable
  /\ call' = [call EXCEPT ![c].pc = "sent", ![c].token = cache]
  /\ UNCHANGED <<auth, token, faults>>

\* mint_superuser_jwt, login: a new token, with an expiry of its own.
NextToken == issued + 1

\* No lock is held meanwhile.
Obtain(c) ==
  /\ call[c].pc = "auth" /\ ~Usable
  /\ issued' = NextToken
  /\ call' = [call EXCEPT ![c].pc = "storing", ![c].token = NextToken]
  /\ UNCHANGED <<auth, cache, expiring, dead, faults>>

\* store_token: the last to store wins.
Store(c) ==
  /\ call[c].pc = "storing"
  /\ cache' = call[c].token
  /\ Move(c, "sent")
  /\ UNCHANGED <<auth, issued, expiring, dead, faults>>

(***************************************************************************)
(* The server's answers.                                                   *)
(***************************************************************************)

Authorized(c) == call[c].pc = "sent" /\ call[c].token > dead

Answer(c, reply) ==
  /\ call' = [call EXCEPT ![c].pc = "replied", ![c].reply = reply]
  /\ UNCHANGED <<auth, token, faults>>

\* The answer of a request is lost: Error::Connection.
Lose(c) ==
  /\ faults < MaxFaults /\ faults' = faults + 1
  /\ call' = [call EXCEPT ![c].pc = "replied", ![c].reply = "transient"]
  /\ UNCHANGED <<auth, token>>

Unauthorized(c) ==
  /\ call[c].pc = "sent" /\ ~Authorized(c) /\ Answer(c, "unauthorized")

\* The request, or the login, is lost on its way or answered 429, 502, 503, 504.
Bounce(c) ==
  /\ call[c].pc = "sent" \/ (call[c].pc = "auth" /\ ~Usable /\ auth = "login")
  /\ Lose(c)

\* Tokens approach their expiry, those that did lapse, the server forgets what
\* it issued: a call under way has an excuse for being refused.
Excuse == call' = [c \in Callers |-> IF call[c].pc \in {"idle", "over"} THEN call[c]
                                     ELSE [call[c] EXCEPT !.excused = TRUE]]

Expire ==
  /\ auth # "static" /\ expiring < issued
  /\ faults < MaxFaults /\ faults' = faults + 1
  /\ expiring' = issued
  /\ UNCHANGED <<auth, cache, issued, dead, call>>

Lapse ==
  /\ dead < expiring /\ dead' = expiring /\ auth # "static"
  /\ Excuse
  /\ UNCHANGED <<auth, cache, issued, expiring, faults>>

\* A rotated secret would leave the mode "secret" without valid tokens for good.
Revoke ==
  /\ auth # "secret" /\ dead < issued
  /\ faults < MaxFaults /\ faults' = faults + 1
  /\ dead' = issued
  /\ Excuse
  /\ UNCHANGED <<auth, cache, issued, expiring>>

(***************************************************************************)
(* send_request, send_body and retry.                                      *)
(***************************************************************************)

CanRefresh(c) == auth # "static" /\ ~call[c].direct

\* FAULTY: the refused token stays in the cache.
RefreshKeepsToken(c) ==
  /\ call[c].pc = "replied" /\ call[c].reply = "unauthorized"
  /\ CanRefresh(c) /\ ~call[c].refreshed
  /\ call' = [call EXCEPT ![c].pc = "auth", ![c].refreshed = TRUE]
  /\ UNCHANGED <<auth, token, faults>>

\* One refresh per attempt; a second 401 is final.
Refresh(c) ==
  /\ call[c].pc = "replied" /\ call[c].reply = "unauthorized"
  /\ CanRefresh(c) /\ ~call[c].refreshed
  /\ cache' = 0
  /\ call' = [call EXCEPT ![c].pc = "auth", ![c].refreshed = TRUE]
  /\ UNCHANGED <<auth, issued, expiring, dead, faults>>

Retryable(reply) == reply = "transient"

Retry(c) ==
  /\ call[c].pc = "replied" /\ Retryable(call[c].reply) /\ call[c].attempt < MaxAttempts
  /\ call' = [call EXCEPT ![c].pc = "auth", ![c].attempt = @ + 1, ![c].refreshed = FALSE]
  /\ UNCHANGED <<auth, token, faults>>

Return(c) ==
  /\ call[c].pc = "replied"
  /\ \/ call[c].reply \in {"ok", "refused"}
     \/ call[c].reply = "unauthorized" /\ (call[c].refreshed \/ ~CanRefresh(c))
     \/ Retryable(call[c].reply) /\ call[c].attempt >= MaxAttempts
  /\ Move(c, "over")
  /\ UNCHANGED <<auth, token, faults>>

\* Everything but the effects of accepted requests.
CallStep(c) ==
  \/ UseCached(c) \/ Obtain(c) \/ Store(c)
  \/ Unauthorized(c)
  \/ Refresh(c) \/ Retry(c) \/ Return(c)

Disturbance == (\E c \in Callers : Bounce(c)) \/ Expire \/ Lapse \/ Revoke

ClientTypeOK ==
  /\ auth \in AuthModes
  /\ issued \in Nat /\ cache \in 0..issued /\ expiring \in 0..issued /\ dead \in -1..issued
  /\ call \in [Callers ->
       [pc : {"idle", "auth", "storing", "sent", "replied", "over"}, direct : BOOLEAN,
        attempt : 1..MaxAttempts, refreshed : BOOLEAN, token : 0..issued,
        reply : Replies, excused : BOOLEAN]]
  /\ faults \in 0..MaxFaults

\* "A second 401 is a real credential failure" (send_body), as far as it is
\* true: a refreshing call is refused only if tokens lapsed or were revoked
\* while it ran, or if it began while another caller was about to cache a token
\* that was dead already and that the refreshed call then took from the cache.
RefusalExcused ==
  \A c \in Callers :
    call[c].pc = "over" /\ call[c].reply = "unauthorized" /\ CanRefresh(c) => call[c].excused
=============================================================================
