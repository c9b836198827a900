----------------------------- MODULE FinanceLookup -----------------------------
(***************************************************************************)
(* The finance MCP tool get_account_balance (app/mcp/finance_server.py),   *)
(* its OAuth2 token cache (app/mcp/oauth.py) and the finance API that      *)
(* issues and checks the tokens (internal_api/finance_api.py).  Lookups    *)
(* are coroutines of one event loop: a step runs from one await to the     *)
(* next.  Time is a clock all processes read; a POST's answer takes at     *)
(* most FetchDelay and a GET reaches the API within CallDelay, which is    *)
(* what the httpx timeouts enforce.  The API keeps its tokens in memory    *)
(* and forgets them when it restarts.                                      *)
(***************************************************************************)
EXTENDS Naturals, FiniteSets

CONSTANTS
    Callers,            \* concurrent get_account_balance calls
    TOKEN_TTL_S,        \* expires_in of an issued token
    REFRESH_MARGIN_S,   \* how early a cached token counts as stale
    FetchDelay, CallDelay,
    MaxTime, MaxTokens, MaxRestarts,   \* bounds of the explored behaviours
    None

ASSUME TimesAreNaturals ==
    {TOKEN_TTL_S, REFRESH_MARGIN_S, FetchDelay, CallDelay, MaxTime, MaxTokens, MaxRestarts}
        \subseteq Nat
\* 10 s for the POST and 10 s for the GET against a margin of 60 s and a life of 3600 s.
ASSUME MarginCoversDelays == /\ FetchDelay + CallDelay <= REFRESH_MARGIN_S
                             /\ REFRESH_MARGIN_S <= TOKEN_TTL_S
ASSUME NoneIsNoCaller == None \notin Callers
ASSUME NoneIsNoNumber == None \notin Nat
ASSUME NoneIsNoOutcome == None \notin {"ok", "error"}

VARIABLES
    now,
    issued,         \* _ISSUED: expiry of each token the API knows, or None
    last,           \* number of tokens issued so far; tokens are 1, 2, ...
    restarts,
    access_token, expires_at,   \* ClientCredentialsToken's cache
    lock,           \* the holder of its asyncio.Lock, or None
    call            \* the coroutines

vars == <<now, issued, last, restarts, access_token, expires_at, lock, call>>

Tokens == 1..MaxTokens

\* waiting: for the lock; posted: the token POST is under way; granted: the API has
\* issued, the answer is under way; sent: the GET is under way; then its answer;
\* auditing: the row is being written; and how the tool call ended.
Stages == {"idle", "waiting", "posted", "granted", "sent", "accepted", "refused", "failed",
           "auditing", "returned", "raised", "cancelled"}

CallState == [stage : Stages,
              attempt : {1, 2},
              token : Tokens \union {None},      \* the token last sent or granted
              rejected : Tokens \union {None},   \* the token that got attempt 1 a 401
              at : Nat,                          \* when it was granted or sent
              outcome : {"ok", "error", None},   \* what is to be audited
              row : {"ok", "error", None}]       \* the balance_query_events row

NewCall == [stage |-> "idle", attempt |-> 1, token |-> None, rejected |-> None, at |-> 0,
            outcome |-> None, row |-> None]

TypeOK == /\ now \in Nat /\ last \in 0..MaxTokens /\ restarts \in Nat /\ expires_at \in Nat
          /\ issued \in [Tokens -> Nat \union {None}]
          /\ access_token \in Tokens \union {None}
          /\ lock \in Callers \union {None}
          /\ call \in [Callers -> CallState]

Init == /\ now = 0 /\ last = 0 /\ restarts = 0
        /\ issued = [k \in Tokens |-> None]
        /\ access_token = None /\ expires_at = 0
        /\ lock = None
        /\ call = [c \in Callers |-> NewCall]

is_stale_NoMargin == access_token = None \/ now >= expires_at

is_stale == access_token = None \/ now + REFRESH_MARGIN_S >= expires_at

--------------------------------------------------------------------------------
\* The GET leaves with the token value() returned; nothing awaits in between.
Send(c, k) == [call[c] EXCEPT !.stage = "sent", !.token = k, !.at = now]

LockIsFree_Always(c) == TRUE

\* asyncio.Lock lets a newcomer in only if nobody holds it or queues for it.
LockIsFree(c) == lock = None /\ \A q \in Callers : call[q].stage # "waiting"

\* value() with a stale cache: take the lock and POST, or queue.
Contend(c, rec) ==
    IF LockIsFree(c)
    THEN /\ lock' = c
         /\ call' = [call EXCEPT ![c] = [rec EXCEPT !.stage = "posted"]]
    ELSE /\ call' = [call EXCEPT ![c] = [rec EXCEPT !.stage = "waiting"]]
         /\ UNCHANGED lock

\* get_account_balance -> _call_api -> value(), up to the first await.
get_account_balance(c) ==
    /\ call[c].stage = "idle"
    /\ \/ /\ ~is_stale
          /\ call' = [call EXCEPT ![c] = Send(c, access_token)]
          /\ UNCHANGED lock
       \/ /\ is_stale
          /\ Contend(c, call[c])
    /\ UNCHANGED <<now, issued, last, restarts, access_token, expires_at>>

\* The lock comes to a waiter, which looks again before it fetches.
AcquireLock(c) ==
    /\ call[c].stage = "waiting" /\ lock = None
    /\ \/ /\ ~is_stale
          /\ call' = [call EXCEPT ![c] = Send(c, access_token)]
          /\ UNCHANGED lock
       \/ /\ is_stale
          /\ lock' = c
          /\ call' = [call EXCEPT ![c].stage = "posted"]
    /\ UNCHANGED <<now, issued, last, restarts, access_token, expires_at>>

\* The finance API answers POST /oauth/token.
issue_token(c) ==
    /\ call[c].stage = "posted" /\ last < MaxTokens
    /\ last' = last + 1
    /\ issued' = [issued EXCEPT ![last + 1] = now + TOKEN_TTL_S]
    /\ call' = [call EXCEPT ![c].stage = "granted", ![c].token = last + 1, ![c].at = now]
    /\ UNCHANGED <<now, restarts, access_token, expires_at, lock>>

\* The answer arrives: _fetch stores it, the lock is released, value() returns it.
FetchReturns(c) ==
    /\ call[c].stage = "granted"
    /\ access_token' = call[c].token
    /\ expires_at' = now + TOKEN_TTL_S
    /\ lock' = None
    /\ call' = [call EXCEPT ![c] = Send(c, call[c].token)]
    /\ UNCHANGED <<now, issued, last, restarts>>

\* _call_api is over, its locals are gone; the outcome is to be audited.
Auditing(outcome) == [NewCall EXCEPT !.stage = "auditing", !.outcome = outcome]

\* The tool call is over, with the row it left.
Done(stage, row) == [NewCall EXCEPT !.stage = stage, !.row = row]

Release(c) == lock' = IF lock = c THEN None ELSE lock

FailedFetchRelease_Keeps(c) == lock' = lock

FailedFetchRelease(c) == Release(c)

\* Timeout, refused connection or error status: httpx.HTTPError leaves `async with`.
FetchFails(c) ==
    /\ call[c].stage \in {"posted", "granted"}
    /\ FailedFetchRelease(c)
    /\ call' = [call EXCEPT ![c] = Auditing("error")]
    /\ UNCHANGED <<now, issued, last, restarts, access_token, expires_at>>

\* The finance API checks the token (_require_token) and then the account.
Known(k) == issued[k] # None
Valid(k) == Known(k) /\ now <= issued[k]

Answer(k, account_exists) ==
    IF ~Valid(k) THEN "refused" ELSE IF account_exists THEN "accepted" ELSE "failed"

get_balance(c) == LET k == call[c].token IN
    /\ call[c].stage = "sent"
    /\ issued' = IF Known(k) /\ ~Valid(k) THEN [issued EXCEPT ![k] = None] ELSE issued
    /\ \E account_exists \in BOOLEAN :
          call' = [call EXCEPT ![c].stage = Answer(k, account_exists), ![c].at = 0]
    /\ UNCHANGED <<now, last, restarts, access_token, expires_at, lock>>

\* The GET or its answer is lost or times out.
CallFails(c) ==
    /\ call[c].stage = "sent"
    /\ call' = [call EXCEPT ![c].stage = "failed", ![c].at = 0]
    /\ UNCHANGED <<now, issued, last, restarts, access_token, expires_at, lock>>

force_refresh_Forgotten == UNCHANGED access_token

force_refresh_Blanks == access_token' = 0

force_refresh == access_token' = None

\* A first 401: drop the cached token, whichever it is by now, and go round again.
RetryAfter401(c) ==
    /\ call[c].stage = "refused" /\ call[c].attempt = 1
    /\ force_refresh
    /\ Contend(c, [call[c] EXCEPT !.attempt = 2, !.rejected = call[c].token])
    /\ UNCHANGED <<now, issued, last, restarts, expires_at>>

\* raise_for_status, or the answer: _call_api is over and the outcome gets audited.
CallReturns(c) ==
    /\ \/ call[c].stage \in {"accepted", "failed"}
       \/ call[c].stage = "refused" /\ call[c].attempt = 2
    /\ call' = [call EXCEPT ![c] = Auditing(IF call[c].stage = "accepted" THEN "ok" ELSE "error")]
    /\ UNCHANGED <<now, issued, last, restarts, access_token, expires_at, lock>>

Ended(c) == IF call[c].outcome = "ok" THEN "returned" ELSE "raised"

audit(c) ==
    /\ call[c].stage = "auditing"
    /\ call' = [call EXCEPT ![c] = Done(Ended(c), call[c].outcome)]
    /\ UNCHANGED <<now, issued, last, restarts, access_token, expires_at, lock>>

AuditFails_Swallowed(c) ==
    /\ call[c].stage = "auditing"
    /\ call' = [call EXCEPT ![c] = Done(Ended(c), None)]
    /\ UNCHANGED <<now, issued, last, restarts, access_token, expires_at, lock>>

\* The audit's own commit fails: that error is what the tool call raises.
AuditFails(c) ==
    /\ call[c].stage = "auditing"
    /\ call' = [call EXCEPT ![c] = Done("raised", None)]
    /\ UNCHANGED <<now, issued, last, restarts, access_token, expires_at, lock>>

\* The MCP client cancels: CancelledError is no httpx.HTTPError, so nothing is audited.
Cancel(c) ==
    /\ call[c].stage \notin {"idle", "returned", "raised", "cancelled"}
    /\ Release(c)
    /\ call' = [call EXCEPT ![c] = Done("cancelled", None)]
    /\ UNCHANGED <<now, issued, last, restarts, access_token, expires_at>>

Restart == /\ restarts < MaxRestarts
           /\ restarts' = restarts + 1
           /\ issued' = [k \in Tokens |-> None]
           /\ UNCHANGED <<now, last, access_token, expires_at, lock, call>>

\* Time passes, but not beyond the delay of a request that is under way.
Tick == /\ now < MaxTime
        /\ \A c \in Callers : /\ call[c].stage = "granted" => now < call[c].at + FetchDelay
                              /\ call[c].stage = "sent" => now < call[c].at + CallDelay
        /\ now' = now + 1
        /\ UNCHANGED <<issued, last, restarts, access_token, expires_at, lock, call>>

Proceed(c) == \/ AcquireLock(c) \/ issue_token(c) \/ FetchReturns(c) \/ FetchFails(c)
              \/ get_balance(c) \/ CallFails(c) \/ RetryAfter401(c) \/ CallReturns(c)
              \/ audit(c) \/ AuditFails(c)

Next == \/ Tick \/ Restart
        \/ \E c \in Callers : get_account_balance(c) \/ Proceed(c) \/ Cancel(c)

Spec == Init /\ [][Next]_vars

\* Every await ends: httpx times out, the database answers or fails, and the lock
\* is handed to its waiters.
FairSpec == Spec /\ \A c \in Callers : WF_vars(Proceed(c))
--------------------------------------------------------------------------------
(***************************************************************************)
(* The refresh margin does its job: while a GET is on its way, the token   *)
(* it carries has not expired at the API, although the cache measures the  *)
(* token's life from when the answer came rather than when it was issued.  *)
(* So a 401 always means that the API forgot its tokens.                   *)
(***************************************************************************)
TokensOutliveTheirCalls ==
    \A c \in Callers : call[c].stage = "sent" /\ Known(call[c].token) => Valid(call[c].token)

(***************************************************************************)
(* "retrying once after a 401": the second attempt never resends a token   *)
(* that is as old as the one just refused, even if another coroutine's     *)
(* fetch was under way when the 401 arrived.                               *)
(***************************************************************************)
RetriesUseNewerTokens ==
    \A c \in Callers : call[c].stage = "sent" /\ call[c].attempt = 2 =>
        call[c].token > call[c].rejected

(***************************************************************************)
(* "One fetch at a time": whatever mix of expiry, 401s, failures and       *)
(* cancellations, at most one token POST is under way.                     *)
(***************************************************************************)
OneFetchAtATime ==
    \A c, q \in Callers : {call[c].stage, call[q].stage} \subseteq {"posted", "granted"} => c = q

(***************************************************************************)
(* Every lookup that was started ends: a coroutine that fails or is        *)
(* cancelled with the lock in hand never leaves the others waiting.        *)
(***************************************************************************)
EveryLookupEnds ==
    \A c \in Callers : (call[c].stage # "idle") ~>
                         (call[c].stage \in {"returned", "raised", "cancelled"})

(***************************************************************************)
(* The model is told a balance only if the lookup's row is committed, and  *)
(* no row tells of a lookup that did not take place, whatever fails or is  *)
(* cancelled between the answer and the audit.  A cancelled lookup counts  *)
(* as done: the API may have answered it.                                  *)
(***************************************************************************)
LookedUp == {c \in Callers : call[c].stage \in {"auditing", "returned", "raised", "cancelled"}}
Recorded == {c \in Callers : call[c].row # None}
ToldBalance == {c \in Callers : call[c].stage = "returned"}
Trail == INSTANCE AuditTrail WITH Calls <- Callers, done <- LookedUp,
                                  recorded <- Recorded, told <- ToldBalance
ImplementsAuditTrail == Trail!Spec
================================================================================
