-------------------------- MODULE FinanceLookupProofs --------------------------
(***************************************************************************)
(* The token cache for any number of concurrent lookups and any times that *)
(* satisfy MarginCoversDelays.                                             *)
(***************************************************************************)
EXTENDS FinanceLookup, TLAPS

\* The lock is held exactly while a POST is under way.
LockIsFetch == \A c \in Callers : call[c].stage \in {"posted", "granted"} <=> lock = c

\* Tokens are numbered as they are issued.
TokensAreIssued ==
    /\ \A k \in Tokens : k > last => issued[k] = None
    /\ access_token # None => access_token <= last
    /\ \A c \in Callers : /\ call[c].token # None => call[c].token <= last
                          /\ call[c].rejected # None => call[c].rejected <= last

\* What the cache believes of a token's life is off by the delay of the answer.
CacheIsNearlyRight ==
    access_token # None /\ Known(access_token) =>
        expires_at <= issued[access_token] + FetchDelay

\* A granted token is younger than every token anybody has used or been refused.
GrantedIsNewest ==
    \A c \in Callers : call[c].stage = "granted" =>
        /\ call[c].token \in Tokens
        /\ now <= call[c].at + FetchDelay
        /\ Known(call[c].token) => issued[call[c].token] = call[c].at + TOKEN_TTL_S
        /\ access_token # None => access_token < call[c].token
        /\ \A q \in Callers :
              /\ q # c /\ call[q].token # None => call[q].token < call[c].token
              /\ call[q].rejected # None => call[q].rejected < call[c].token

\* A token that is sent lasts until the GET has arrived.
SentOutlives ==
    \A c \in Callers : call[c].stage = "sent" =>
        /\ now <= call[c].at + CallDelay
        /\ Known(call[c].token) => call[c].at + CallDelay <= issued[call[c].token]

\* Whoever was answered had sent a token.
AnsweredHaveTokens ==
    \A c \in Callers : call[c].stage \in {"sent", "accepted", "refused"} => call[c].token \in Tokens

\* After a 401 the cache holds nothing as old as the refused token.
RetryIsFresh ==
    \A c \in Callers : call[c].attempt = 2 =>
        /\ call[c].rejected \in Tokens
        /\ call[c].stage = "sent" => call[c].token > call[c].rejected
        /\ call[c].stage \in {"idle", "waiting"} /\ access_token # None =>
               access_token > call[c].rejected

Inv == /\ TypeOK /\ LockIsFetch /\ TokensAreIssued /\ CacheIsNearlyRight
       /\ GrantedIsNewest /\ SentOutlives /\ AnsweredHaveTokens /\ RetryIsFresh
--------------------------------------------------------------------------------
\* What a step of caller c does to the fields that matter, and to nobody else's.
Becomes(c, stage, attempt, token, rejected, at) ==
    /\ call' \in [Callers -> CallState]
    /\ call'[c].stage = stage /\ call'[c].attempt = attempt /\ call'[c].token = token
    /\ call'[c].rejected = rejected /\ call'[c].at = at
    /\ \A q \in Callers : q # c => call'[q] = call[q]

\* The fields of a coroutine's state have their types.
LEMMA CallFields ==
    ASSUME TypeOK, NEW c \in Callers
    PROVE  /\ call[c].stage \in Stages /\ call[c].attempt \in {1, 2}
           /\ call[c].token \in Tokens \union {None}
           /\ call[c].rejected \in Tokens \union {None}
           /\ call[c].at \in Nat /\ call[c].outcome \in {"ok", "error", None}
           /\ call[c].row \in {"ok", "error", None}
  BY DEF TypeOK, CallState

\* Replacing one coroutine's state by a well-typed one touches only that one.
LEMMA Replaced ==
    ASSUME TypeOK, NEW c \in Callers, NEW rec \in CallState, call' = [call EXCEPT ![c] = rec]
    PROVE  Becomes(c, rec.stage, rec.attempt, rec.token, rec.rejected, rec.at)
  BY DEF TypeOK, Becomes

\* A call that leaves _call_api has nothing the invariant speaks of.
LEMMA EndingKeepsInv ==
    ASSUME Inv, NEW c \in Callers, NEW s \in {"auditing", "returned", "raised", "cancelled"},
           Becomes(c, s, 1, None, None, 0), Release(c),
           UNCHANGED <<now, issued, last, restarts, access_token, expires_at>>
    PROVE  Inv'
  <1> USE NoneIsNoCaller
  <1>1. TypeOK'
    BY DEF Inv, TypeOK, Becomes, Release
  <1>2. LockIsFetch'
    BY DEF Inv, LockIsFetch, Becomes, Release
  <1>3. TokensAreIssued'
    BY DEF Inv, TokensAreIssued, Becomes
  <1>4. CacheIsNearlyRight' /\ SentOutlives' /\ AnsweredHaveTokens'
    BY DEF Inv, CacheIsNearlyRight, SentOutlives, AnsweredHaveTokens, Becomes, Known
  <1>5. GrantedIsNewest'
    BY DEF Inv, GrantedIsNewest, Becomes, Known
  <1>6. RetryIsFresh'
    BY DEF Inv, RetryIsFresh, Becomes
  <1> QED  BY <1>1, <1>2, <1>3, <1>4, <1>5, <1>6 DEF Inv

\* The times one by one, and the tokens as numbers.
LEMMA Times ==
    /\ TOKEN_TTL_S \in Nat /\ REFRESH_MARGIN_S \in Nat /\ FetchDelay \in Nat /\ CallDelay \in Nat
    /\ MaxTokens \in Nat
    /\ \A k \in Tokens : k \in Nat /\ k # None
  BY TimesAreNaturals, NoneIsNoNumber DEF Tokens

\* A cached token that is not stale lasts beyond the GET that carries it.
LEMMA SendKeepsInv ==
    ASSUME Inv, NEW c \in Callers, call[c].stage \in {"idle", "waiting"}, ~is_stale,
           call' = [call EXCEPT ![c] = Send(c, access_token)],
           UNCHANGED <<now, issued, last, restarts, access_token, expires_at, lock>>
    PROVE  Inv'
  <1>1. access_token \in Tokens /\ access_token # None /\ now + REFRESH_MARGIN_S < expires_at
    BY Times DEF is_stale, Inv, TypeOK
  <1>2. Becomes(c, "sent", call[c].attempt, access_token, call[c].rejected, now)
    <2> DEFINE rec == Send(c, access_token)
    <2>1. /\ rec \in CallState /\ rec.stage = "sent" /\ rec.attempt = call[c].attempt
          /\ rec.token = access_token /\ rec.rejected = call[c].rejected /\ rec.at = now
      BY <1>1, CallFields DEF Send, CallState, Stages, Inv, TypeOK
    <2> HIDE DEF rec
    <2>2. call' = [call EXCEPT ![c] = rec]  BY DEF rec
    <2> QED  BY <2>1, <2>2, Replaced DEF Inv
  <1>3. TypeOK'
    BY <1>2 DEF Inv, TypeOK, Becomes
  <1>4. LockIsFetch'
    BY <1>2 DEF Inv, LockIsFetch, Becomes
  <1>5. TokensAreIssued'
    BY <1>1, <1>2 DEF Inv, TokensAreIssued, Becomes
  <1>6. CacheIsNearlyRight' /\ AnsweredHaveTokens'
    BY <1>1, <1>2 DEF Inv, CacheIsNearlyRight, AnsweredHaveTokens, Becomes, Known
  <1>7. SentOutlives'
    <2>1. Known(access_token) => now + CallDelay <= issued[access_token]
      <3>1. /\ now \in Nat /\ expires_at \in Nat
            /\ Known(access_token) => issued[access_token] \in Nat
        BY <1>1 DEF Inv, TypeOK, Known
      <3> QED  BY <1>1, <3>1, Times, MarginCoversDelays DEF Inv, CacheIsNearlyRight
    <2> QED  BY <1>1, <1>2, <2>1, Times DEF Inv, TypeOK, SentOutlives, Becomes, Known
  <1>8. GrantedIsNewest'
    BY <1>1, <1>2 DEF Inv, GrantedIsNewest, Becomes, Known
  <1>9. RetryIsFresh'
    BY <1>1, <1>2 DEF Inv, RetryIsFresh, Becomes
  <1> QED  BY <1>3, <1>4, <1>5, <1>6, <1>7, <1>8, <1>9 DEF Inv

\* A waiter that finds the cache stale takes the free lock.
LEMMA PostKeepsInv ==
    ASSUME Inv, NEW c \in Callers, NEW a \in {1, 2}, NEW k \in Tokens \union {None},
           lock = None, lock' = c,
           Becomes(c, "posted", a, call[c].token, k, call[c].at),
           access_token' \in {access_token, None},
           k # None => k <= last, a = 2 => k \in Tokens,
           UNCHANGED <<now, issued, last, restarts, expires_at>>
    PROVE  Inv'
  <1> USE NoneIsNoCaller, NoneIsNoNumber
  <1>0. \A q \in Callers : call[q].stage \notin {"posted", "granted"}
    BY DEF Inv, LockIsFetch
  <1>1. TypeOK'
    BY DEF Inv, TypeOK, Becomes
  <1>2. LockIsFetch'
    BY <1>0 DEF Inv, LockIsFetch, Becomes
  <1>3. TokensAreIssued'
    BY DEF Inv, TokensAreIssued, Becomes
  <1>4. CacheIsNearlyRight' /\ SentOutlives' /\ AnsweredHaveTokens'
    BY DEF Inv, CacheIsNearlyRight, SentOutlives, AnsweredHaveTokens, Becomes, Known
  <1>5. GrantedIsNewest'
    BY <1>0 DEF GrantedIsNewest, Becomes
  <1>6. RetryIsFresh'
    BY DEF Inv, RetryIsFresh, Becomes
  <1> QED  BY <1>1, <1>2, <1>3, <1>4, <1>5, <1>6 DEF Inv

\* Queueing for the lock: a fetch that is under way will bring a newer token
\* than the one this caller was refused.
LEMMA WaitKeepsInv ==
    ASSUME Inv, NEW c \in Callers, NEW a \in {1, 2}, NEW k \in Tokens \union {None},
           call[c].stage \in {"idle", "refused"},
           Becomes(c, "waiting", a, call[c].token, k, call[c].at),
           \/ a = call[c].attempt /\ k = call[c].rejected /\ access_token' = access_token
              /\ call[c].stage = "idle"
           \/ a = 2 /\ k = call[c].token /\ access_token' = None /\ k \in Tokens,
           UNCHANGED <<now, issued, last, restarts, expires_at, lock>>
    PROVE  Inv'
  <1> USE NoneIsNoCaller, NoneIsNoNumber
  <1>1. TypeOK'
    BY DEF Inv, TypeOK, Becomes
  <1>2. LockIsFetch'
    BY DEF Inv, LockIsFetch, Becomes
  <1>3. TokensAreIssued'
    BY DEF Inv, TokensAreIssued, Becomes
  <1>4. CacheIsNearlyRight' /\ SentOutlives' /\ AnsweredHaveTokens'
    BY DEF Inv, CacheIsNearlyRight, SentOutlives, AnsweredHaveTokens, Becomes, Known
  <1>5. GrantedIsNewest'
    BY DEF Inv, GrantedIsNewest, Becomes, Known
  <1>6. RetryIsFresh'
    BY DEF Inv, RetryIsFresh, Becomes
  <1> QED  BY <1>1, <1>2, <1>3, <1>4, <1>5, <1>6 DEF Inv

\* Contending, on a first attempt or after a 401, is posting or waiting.
LEMMA ContendKeepsInv ==
    ASSUME Inv, NEW c \in Callers, NEW rec \in CallState, Contend(c, rec),
           rec.token = call[c].token, rec.at = call[c].at,
           \/ /\ call[c].stage = "idle" /\ access_token' = access_token
              /\ rec.attempt = call[c].attempt /\ rec.rejected = call[c].rejected
           \/ /\ call[c].stage = "refused" /\ access_token' = None
              /\ rec.attempt = 2 /\ rec.rejected = call[c].token,
           UNCHANGED <<now, issued, last, restarts, expires_at>>
    PROVE  Inv'
  <1>1. /\ rec.attempt \in {1, 2} /\ rec.rejected \in Tokens \union {None}
        /\ rec.rejected # None => rec.rejected <= last
        /\ rec.attempt = 2 => rec.rejected \in Tokens
        /\ call[c].stage = "refused" => call[c].token \in Tokens
    BY DEF CallState, Inv, TokensAreIssued, RetryIsFresh, AnsweredHaveTokens
  <1>2. ASSUME NEW s \in Stages
        PROVE  LET new == [rec EXCEPT !.stage = s] IN
               /\ new \in CallState /\ new.stage = s /\ new.attempt = rec.attempt
               /\ new.token = rec.token /\ new.rejected = rec.rejected /\ new.at = rec.at
    BY DEF CallState
  <1>3. ASSUME NEW s \in Stages, call' = [call EXCEPT ![c] = [rec EXCEPT !.stage = s]]
        PROVE  Becomes(c, s, rec.attempt, call[c].token, rec.rejected, call[c].at)
    <2> DEFINE new == [rec EXCEPT !.stage = s]
    <2>1. /\ new \in CallState /\ new.stage = s /\ new.attempt = rec.attempt
          /\ new.token = call[c].token /\ new.rejected = rec.rejected /\ new.at = call[c].at
      BY <1>2
    <2>2. call' = [call EXCEPT ![c] = new]  BY <1>3
    <2> HIDE DEF new
    <2> QED  BY <2>1, <2>2, Replaced DEF Inv
  <1>4. CASE LockIsFree(c)
    <2>1. Becomes(c, "posted", rec.attempt, call[c].token, rec.rejected, call[c].at)
      BY <1>3, <1>4 DEF Contend, Stages
    <2>2. lock = None /\ lock' = c  BY <1>4 DEF Contend, LockIsFree
    <2> QED  BY <1>1, <2>1, <2>2, PostKeepsInv
  <1>5. CASE ~LockIsFree(c)
    <2>1. Becomes(c, "waiting", rec.attempt, call[c].token, rec.rejected, call[c].at)
      BY <1>3, <1>5 DEF Contend, Stages
    <2>2. lock' = lock  BY <1>5 DEF Contend
    <2> QED  BY <1>1, <2>1, <2>2, WaitKeepsInv
  <1> QED  BY <1>4, <1>5

\* The token the API issues is the newest there is.
LEMMA IssueKeepsInv ==
    ASSUME Inv, NEW c \in Callers, issue_token(c)
    PROVE  Inv'
  <1> DEFINE k == last + 1
  <1>1. /\ call[c].stage = "posted" /\ k \in Tokens /\ last' = k /\ last \in Nat /\ now \in Nat
        /\ UNCHANGED <<now, restarts, access_token, expires_at, lock>>
        /\ issued' \in [Tokens -> Nat \union {None}]
        /\ issued'[k] = now + TOKEN_TTL_S
        /\ \A j \in Tokens : j # k => issued'[j] = issued[j]
    BY Times DEF issue_token, Inv, TypeOK, Tokens
  <1>2. Becomes(c, "granted", call[c].attempt, k, call[c].rejected, now)
    <2> DEFINE rec == [call[c] EXCEPT !.stage = "granted", !.token = k, !.at = now]
    <2>1. call' = [call EXCEPT ![c] = rec]
      BY DEF issue_token, Inv, TypeOK
    <2> HIDE DEF k
    <2>2. call[c] \in CallState /\ k \in Tokens /\ now \in Nat  BY <1>1 DEF Inv, TypeOK
    <2>3. /\ rec \in CallState /\ rec.stage = "granted" /\ rec.attempt = call[c].attempt
          /\ rec.token = k /\ rec.rejected = call[c].rejected /\ rec.at = now
      BY <2>2 DEF CallState, Stages
    <2> HIDE DEF rec
    <2> QED  BY <2>1, <2>3, Replaced DEF Inv
  <1> HIDE DEF k
  <1>3. lock = c /\ \A q \in Callers : q # c => call[q].stage \notin {"posted", "granted"}
    BY <1>1 DEF Inv, LockIsFetch
  <1>4. k > last /\ k # None /\ \A j \in Nat : j <= last => j < k /\ j <= k
    BY <1>1, Times DEF k
  <1>5. TypeOK'
    BY <1>1, <1>2 DEF Inv, TypeOK, Becomes, Tokens
  <1>6. LockIsFetch'
    BY <1>1, <1>2 DEF Inv, LockIsFetch, Becomes
  <1>7. TokensAreIssued'
    <2>1. \A j \in Tokens : j > k => issued'[j] = None
      BY <1>1, <1>4, Times DEF Inv, TokensAreIssued
    <2>2. access_token # None => access_token <= k
      BY <1>1, <1>4, Times DEF Inv, TypeOK, TokensAreIssued
    <2>3. \A q \in Callers : /\ call[q].token # None => call[q].token <= k
                             /\ call[q].rejected # None => call[q].rejected <= k
      BY <1>1, <1>4, Times, CallFields DEF Inv, TokensAreIssued
    <2> QED  BY <1>1, <1>2, <2>1, <2>2, <2>3, Times DEF TokensAreIssued, Becomes
  <1>8. CacheIsNearlyRight'
    <2>1. access_token # None => access_token \in Tokens /\ access_token # k
      BY <1>1, <1>4, Times DEF Inv, TypeOK, TokensAreIssued
    <2> QED  BY <1>1, <2>1 DEF Inv, CacheIsNearlyRight, Known
  <1>9. SentOutlives' /\ AnsweredHaveTokens'
    <2>1. \A q \in Callers : call[q].stage = "sent" => call[q].token \in Tokens /\ call[q].token # k
      BY <1>1, <1>4, Times DEF Inv, TokensAreIssued, AnsweredHaveTokens
    <2> QED  BY <1>1, <1>2, <2>1 DEF Inv, SentOutlives, AnsweredHaveTokens, Becomes, Known
  <1>10. GrantedIsNewest'
    <2>1. access_token # None => access_token < k
      BY <1>1, <1>4, Times DEF Inv, TypeOK, TokensAreIssued
    <2>2. \A q \in Callers : /\ call[q].token # None => call[q].token < k
                             /\ call[q].rejected # None => call[q].rejected < k
      BY <1>4, Times, CallFields DEF Inv, TokensAreIssued
    <2>3. now <= now + FetchDelay  BY <1>1, Times
    <2> QED  BY <1>1, <1>2, <1>3, <2>1, <2>2, <2>3 DEF GrantedIsNewest, Becomes
  <1>11. RetryIsFresh'
    BY <1>1, <1>2 DEF Inv, RetryIsFresh, Becomes
  <1> QED  BY <1>5, <1>6, <1>7, <1>8, <1>9, <1>10, <1>11 DEF Inv

\* The answer of a fetch brings a token newer than any that was refused, and its
\* life as the cache counts it is late by no more than the answer's delay.
LEMMA FetchReturnsKeepsInv ==
    ASSUME Inv, NEW c \in Callers, FetchReturns(c)
    PROVE  Inv'
  <1> USE NoneIsNoCaller
  <1> DEFINE k == call[c].token
  <1>1. /\ call[c].stage = "granted" /\ k \in Tokens /\ k # None /\ lock = c /\ lock' = None
        /\ access_token' = k /\ expires_at' = now + TOKEN_TTL_S
        /\ now \in Nat /\ call[c].at \in Nat
        /\ now <= call[c].at + FetchDelay
        /\ Known(k) => issued[k] = call[c].at + TOKEN_TTL_S
        /\ UNCHANGED <<now, issued, last, restarts>>
    BY Times, CallFields DEF FetchReturns, Inv, TypeOK, GrantedIsNewest, LockIsFetch
  <1>2. Becomes(c, "sent", call[c].attempt, k, call[c].rejected, now)
    <2> DEFINE rec == Send(c, k)
    <2>1. call[c] \in CallState /\ k \in Tokens /\ now \in Nat  BY <1>1 DEF Inv, TypeOK
    <2>2. call' = [call EXCEPT ![c] = rec]  BY DEF FetchReturns
    <2> HIDE DEF k
    <2>3. /\ rec \in CallState /\ rec.stage = "sent" /\ rec.attempt = call[c].attempt
          /\ rec.token = k /\ rec.rejected = call[c].rejected /\ rec.at = now
      BY <2>1 DEF Send, CallState, Stages
    <2> HIDE DEF rec
    <2> QED  BY <2>2, <2>3, Replaced DEF Inv
  <1>3. \A q \in Callers : q # c => call[q].stage \notin {"posted", "granted"}
    BY <1>1 DEF Inv, LockIsFetch
  <1>4. /\ Known(k) => now + TOKEN_TTL_S <= issued[k] + FetchDelay
        /\ Known(k) => now + CallDelay <= issued[k]
        /\ now <= now + CallDelay
    BY <1>1, Times, MarginCoversDelays
  <1>5. \A q \in Callers : call[q].rejected # None => call[q].rejected < k
    BY <1>1 DEF Inv, GrantedIsNewest
  <1>6. k <= last  BY <1>1 DEF Inv, TokensAreIssued
  <1>7. TypeOK'
    BY <1>1, <1>2, Times DEF Inv, TypeOK, Becomes
  <1>8. LockIsFetch'
    BY <1>1, <1>2, <1>3 DEF LockIsFetch, Becomes
  <1>9. TokensAreIssued'
    BY <1>1, <1>2, <1>6 DEF Inv, TokensAreIssued, Becomes
  <1>10. CacheIsNearlyRight'
    BY <1>1, <1>4 DEF CacheIsNearlyRight, Known
  <1>11. SentOutlives' /\ AnsweredHaveTokens'
    BY <1>1, <1>2, <1>4 DEF Inv, SentOutlives, AnsweredHaveTokens, Becomes, Known
  <1>12. GrantedIsNewest'
    BY <1>2, <1>3 DEF GrantedIsNewest, Becomes
  <1>13. RetryIsFresh'
    <2>1. \A q \in Callers : call[q].rejected \in Tokens => k > call[q].rejected
      BY <1>1, <1>5, Times
    <2> QED  BY <1>1, <1>2, <2>1 DEF Inv, RetryIsFresh, Becomes
  <1> QED  BY <1>7, <1>8, <1>9, <1>10, <1>11, <1>12, <1>13 DEF Inv

\* The API's answer, or the loss of it, only takes c out of "sent".
LEMMA AnswerKeepsInv ==
    ASSUME Inv, NEW c \in Callers, get_balance(c) \/ CallFails(c)
    PROVE  Inv'
  <1>1. /\ call[c].stage = "sent" /\ call[c].token \in Tokens
        /\ UNCHANGED <<now, last, restarts, access_token, expires_at, lock>>
    BY DEF get_balance, CallFails, Inv, AnsweredHaveTokens
  <1>2. /\ issued' \in [Tokens -> Nat \union {None}]
        /\ \A k \in Tokens : issued'[k] \in {issued[k], None}
    BY <1>1 DEF get_balance, CallFails, Inv, TypeOK
  <1>3. PICK s \in {"accepted", "refused", "failed"} :
           Becomes(c, s, call[c].attempt, call[c].token, call[c].rejected, 0)
    <2>1. PICK s \in {"accepted", "refused", "failed"} :
             call' = [call EXCEPT ![c].stage = s, ![c].at = 0]
      BY DEF get_balance, CallFails, Answer
    <2>2. s \in Stages  BY DEF Stages
    <2> QED  BY <2>1, <2>2, CallFields DEF Becomes, CallState, Inv, TypeOK
  <1>4. TypeOK'
    BY <1>1, <1>2, <1>3 DEF Inv, TypeOK, Becomes
  <1>5. LockIsFetch' /\ AnsweredHaveTokens' /\ RetryIsFresh'
    BY <1>1, <1>3 DEF Inv, LockIsFetch, AnsweredHaveTokens, RetryIsFresh, Becomes
  <1>6. TokensAreIssued'
    BY <1>1, <1>2, <1>3 DEF Inv, TokensAreIssued, Becomes
  <1>7. CacheIsNearlyRight'
    BY <1>1, <1>2 DEF Inv, TypeOK, CacheIsNearlyRight, Known
  <1>8. SentOutlives'
    BY <1>1, <1>2, <1>3 DEF Inv, SentOutlives, AnsweredHaveTokens, Becomes, Known
  <1>9. GrantedIsNewest'
    BY <1>1, <1>2, <1>3 DEF Inv, GrantedIsNewest, Becomes, Known
  <1> QED  BY <1>4, <1>5, <1>6, <1>7, <1>8, <1>9 DEF Inv

\* A restart forgets every token, which makes every claim about them easier.
LEMMA RestartKeepsInv ==
    ASSUME Inv, Restart
    PROVE  Inv'
  <1>1. /\ \A k \in Tokens : issued'[k] = None
        /\ UNCHANGED <<now, last, access_token, expires_at, lock, call>>
    BY DEF Restart
  <1>2. TypeOK'
    BY <1>1, TimesAreNaturals DEF Restart, Inv, TypeOK
  <1>3. TokensAreIssued' /\ CacheIsNearlyRight'
    BY <1>1 DEF Inv, TypeOK, TokensAreIssued, CacheIsNearlyRight, Known
  <1>4. SentOutlives' /\ AnsweredHaveTokens' /\ GrantedIsNewest'
    BY <1>1 DEF Inv, SentOutlives, AnsweredHaveTokens, GrantedIsNewest, Known
  <1>5. LockIsFetch' /\ RetryIsFresh'
    BY <1>1 DEF Inv, LockIsFetch, RetryIsFresh
  <1> QED  BY <1>2, <1>3, <1>4, <1>5 DEF Inv

\* Time stops at the delay of whatever is under way.
LEMMA TickKeepsInv ==
    ASSUME Inv, Tick
    PROVE  Inv'
  <1>1. /\ now' = now + 1 /\ now \in Nat
        /\ UNCHANGED <<issued, last, restarts, access_token, expires_at, lock, call>>
    BY DEF Tick, Inv, TypeOK
  <1>2. \A c \in Callers : call[c].at \in Nat  BY CallFields DEF Inv
  <1>3. TypeOK' /\ LockIsFetch' /\ TokensAreIssued' /\ CacheIsNearlyRight'
    BY <1>1 DEF Inv, TypeOK, LockIsFetch, TokensAreIssued, CacheIsNearlyRight, Known
  <1>4. AnsweredHaveTokens' /\ RetryIsFresh'
    BY <1>1 DEF Inv, AnsweredHaveTokens, RetryIsFresh
  <1>5. SentOutlives'
    <2>1. \A c \in Callers : call[c].stage = "sent" => now + 1 <= call[c].at + CallDelay
      BY <1>1, <1>2, Times DEF Tick
    <2> QED  BY <1>1, <2>1 DEF Inv, SentOutlives, Known
  <1>6. GrantedIsNewest'
    <2>1. \A c \in Callers : call[c].stage = "granted" => now + 1 <= call[c].at + FetchDelay
      BY <1>1, <1>2, Times DEF Tick
    <2> QED  BY <1>1, <2>1 DEF Inv, GrantedIsNewest, Known
  <1> QED  BY <1>3, <1>4, <1>5, <1>6 DEF Inv

\* Leaving _call_api or the tool call: the lock goes free if c had it.
LEMMA EndKeepsInv ==
    ASSUME Inv, NEW c \in Callers,
           FetchFails(c) \/ CallReturns(c) \/ audit(c) \/ AuditFails(c) \/ Cancel(c)
    PROVE  Inv'
  <1>1. UNCHANGED <<now, issued, last, restarts, access_token, expires_at>>
    BY DEF FetchFails, CallReturns, audit, AuditFails, Cancel
  <1>2. Release(c)
    BY DEF FetchFails, CallReturns, audit, AuditFails, Cancel, FailedFetchRelease, Release,
           Inv, LockIsFetch
  <1>3. PICK s \in {"auditing", "returned", "raised", "cancelled"} :
           Becomes(c, s, 1, None, None, 0)
    <2>1. CASE FetchFails(c) \/ CallReturns(c)
      <3>1. PICK o \in {"ok", "error", None} :
               call' = [call EXCEPT ![c] = [NewCall EXCEPT !.stage = "auditing", !.outcome = o]]
        BY <2>1 DEF FetchFails, CallReturns, Auditing
      <3> DEFINE rec == [NewCall EXCEPT !.stage = "auditing", !.outcome = o]
      <3>2. /\ rec \in CallState /\ rec.stage = "auditing" /\ rec.attempt = 1
            /\ rec.token = None /\ rec.rejected = None /\ rec.at = 0
        BY DEF NewCall, CallState, Stages
      <3>3. call' = [call EXCEPT ![c] = rec]  BY <3>1
      <3> HIDE DEF rec
      <3> QED  BY <3>2, <3>3, Replaced DEF Inv
    <2>2. CASE audit(c) \/ AuditFails(c) \/ Cancel(c)
      <3>1. call[c].outcome \in {"ok", "error", None}  BY CallFields DEF Inv
      <3>2. PICK s \in {"returned", "raised", "cancelled"}, w \in {"ok", "error", None} :
               call' = [call EXCEPT ![c] = [NewCall EXCEPT !.stage = s, !.row = w]]
        BY <2>2, <3>1 DEF audit, AuditFails, Cancel, Done, Ended
      <3> DEFINE rec == [NewCall EXCEPT !.stage = s, !.row = w]
      <3>3. s \in Stages  BY DEF Stages
      <3>4. /\ rec \in CallState /\ rec.stage = s /\ rec.attempt = 1
            /\ rec.token = None /\ rec.rejected = None /\ rec.at = 0
        BY <3>3 DEF NewCall, CallState
      <3>5. call' = [call EXCEPT ![c] = rec]  BY <3>2
      <3> HIDE DEF rec
      <3> QED  BY <3>4, <3>5, Replaced DEF Inv
    <2> QED  BY <2>1, <2>2
  <1> QED  BY <1>1, <1>2, <1>3, EndingKeepsInv

\* The steps that ask for a token: the first look, the look under the lock, and
\* the look after a 401.
LEMMA AskKeepsInv ==
    ASSUME Inv, NEW c \in Callers, get_account_balance(c) \/ AcquireLock(c) \/ RetryAfter401(c)
    PROVE  Inv'
  <1>1. call[c] \in CallState  BY DEF Inv, TypeOK
  <1>2. CASE get_account_balance(c)
    <2>1. CASE ~is_stale
      BY <1>2, <2>1, SendKeepsInv DEF get_account_balance
    <2>2. CASE is_stale
      BY <1>1, <1>2, <2>2, ContendKeepsInv DEF get_account_balance
    <2> QED  BY <2>1, <2>2
  <1>3. CASE AcquireLock(c)
    <2>1. CASE ~is_stale
      BY <1>3, <2>1, SendKeepsInv DEF AcquireLock
    <2>2. CASE is_stale
      <3>1. call' = [call EXCEPT ![c].stage = "posted"] /\ lock = None /\ lock' = c
        BY <1>3, <2>2 DEF AcquireLock
      <3>2. Becomes(c, "posted", call[c].attempt, call[c].token, call[c].rejected, call[c].at)
        BY <3>1, CallFields DEF Becomes, CallState, Stages, Inv, TypeOK
      <3>3. /\ call[c].rejected # None => call[c].rejected <= last
            /\ call[c].attempt = 2 => call[c].rejected \in Tokens
        BY DEF Inv, TokensAreIssued, RetryIsFresh
      <3>4. UNCHANGED <<now, issued, last, restarts, access_token, expires_at>>
        BY <1>3 DEF AcquireLock
      <3> QED  BY <3>1, <3>2, <3>3, <3>4, CallFields, PostKeepsInv DEF Inv
    <2> QED  BY <2>1, <2>2
  <1>4. CASE RetryAfter401(c)
    <2> DEFINE rec == [call[c] EXCEPT !.attempt = 2, !.rejected = call[c].token]
    <2>1. /\ rec \in CallState /\ rec.attempt = 2 /\ rec.rejected = call[c].token
          /\ rec.token = call[c].token /\ rec.at = call[c].at
      BY <1>1, CallFields DEF CallState, Inv
    <2>2. /\ call[c].stage = "refused" /\ access_token' = None /\ Contend(c, rec)
          /\ UNCHANGED <<now, issued, last, restarts, expires_at>>
      BY <1>4 DEF RetryAfter401, force_refresh
    <2> HIDE DEF rec
    <2> QED  BY <2>1, <2>2, ContendKeepsInv
  <1> QED  BY <1>2, <1>3, <1>4

\* Every step preserves the invariant.
LEMMA InvStep ==
    ASSUME Inv, [Next]_vars
    PROVE  Inv'
  <1>1. CASE UNCHANGED vars
    BY <1>1 DEF vars, Inv, TypeOK, LockIsFetch, TokensAreIssued, CacheIsNearlyRight,
                GrantedIsNewest, SentOutlives, AnsweredHaveTokens, RetryIsFresh, Known
  <1>2. CASE Next
    BY <1>2, TickKeepsInv, RestartKeepsInv, AskKeepsInv, IssueKeepsInv, FetchReturnsKeepsInv,
       AnswerKeepsInv, EndKeepsInv DEF Next, Proceed
  <1> QED  BY <1>1, <1>2

\* The invariant holds initially.
LEMMA InvInit ==
    ASSUME Init  PROVE Inv
  <1>1. NewCall \in CallState  BY DEF NewCall, CallState, Stages
  <1>2. TypeOK  BY <1>1, TimesAreNaturals DEF Init, TypeOK
  <1>3. \A c \in Callers : /\ call[c].stage = "idle" /\ call[c].attempt = 1
                           /\ call[c].token = None /\ call[c].rejected = None /\ lock # c
    BY NoneIsNoCaller DEF Init, NewCall
  <1>4. access_token = None /\ \A k \in Tokens : issued[k] = None  BY DEF Init
  <1> QED
    BY <1>2, <1>3, <1>4 DEF Inv, LockIsFetch, TokensAreIssued, CacheIsNearlyRight,
       GrantedIsNewest, SentOutlives, AnsweredHaveTokens, RetryIsFresh

\* The state of cache, API and coroutines stays well typed.
THEOREM LookupTypeCorrect == Spec => []TypeOK
  <1>1. Inv => TypeOK  BY DEF Inv
  <1> QED  BY InvInit, InvStep, <1>1, PTL DEF Spec

\* REFRESH_MARGIN_S covers the delays of POST and GET, so no token that value()
\* hands out expires before the API has seen it.
THEOREM MarginSuffices == Spec => []TokensOutliveTheirCalls
  <1>1. Inv => TokensOutliveTheirCalls
    <2> SUFFICES ASSUME Inv, NEW c \in Callers, call[c].stage = "sent", Known(call[c].token)
                 PROVE  Valid(call[c].token)
      BY DEF TokensOutliveTheirCalls
    <2>1. /\ now <= call[c].at + CallDelay
          /\ call[c].at + CallDelay <= issued[call[c].token]
      BY DEF Inv, SentOutlives
    <2>2. now \in Nat /\ call[c].at \in Nat /\ issued[call[c].token] \in Nat
      BY CallFields DEF Inv, TypeOK, AnsweredHaveTokens, Known
    <2> QED  BY <2>1, <2>2, Times DEF Valid
  <1> QED  BY InvInit, InvStep, <1>1, PTL DEF Spec

\* After a 401 the retry carries a token issued after the refused one.
THEOREM RetryIsNewer == Spec => []RetriesUseNewerTokens
  <1>1. Inv => RetriesUseNewerTokens  BY DEF Inv, RetryIsFresh, RetriesUseNewerTokens
  <1> QED  BY InvInit, InvStep, <1>1, PTL DEF Spec

\* The lock is held exactly while a POST is under way, so there is one at a time.
THEOREM SingleFetch == Spec => []OneFetchAtATime
  <1>1. Inv => OneFetchAtATime  BY DEF Inv, LockIsFetch, OneFetchAtATime
  <1> QED  BY InvInit, InvStep, <1>1, PTL DEF Spec

--------------------------------------------------------------------------------
(* The audit trail.                                                        *)

Early == {"idle", "waiting", "posted", "granted", "sent", "accepted", "refused", "failed"}
Over == {"returned", "raised", "cancelled"}

\* A row comes with the end of the tool call, and what is to be audited is known.
RowsComeLast ==
    \A c \in Callers : /\ call[c].row # None => call[c].stage \in Over
                       /\ call[c].stage = "auditing" => call[c].outcome # None

Trailed == Trail!Next \/ UNCHANGED <<LookedUp, Recorded, ToldBalance>>

\* What the trail sees of a step of c.
Leaves(c, stage, outcome, row) ==
    /\ \A q \in Callers \ {c} : call'[q] = call[q]
    /\ call'[c].stage = stage /\ call'[c].outcome = outcome /\ call'[c].row = row

LEMMA LeavesKeepsRows ==
    ASSUME RowsComeLast, NEW c \in Callers, NEW stage, NEW outcome, NEW row,
           Leaves(c, stage, outcome, row),
           row # None => stage \in Over,
           stage = "auditing" => outcome # None
    PROVE  RowsComeLast'
  BY DEF RowsComeLast, Leaves

\* Before the audit nothing is done, recorded or told.
LEMMA EarlyStep ==
    ASSUME TypeOK, RowsComeLast, NEW c \in Callers,
           \/ get_account_balance(c) \/ AcquireLock(c) \/ issue_token(c) \/ FetchReturns(c)
           \/ get_balance(c) \/ CallFails(c) \/ RetryAfter401(c)
    PROVE  RowsComeLast' /\ Trailed
  <1>1. call[c] \in CallState /\ call \in [Callers -> CallState]  BY DEF TypeOK
  <1>2. call[c].stage \in Early
    BY DEF get_account_balance, AcquireLock, issue_token, FetchReturns, get_balance, CallFails,
           RetryAfter401, Early
  <1>3. call[c].row = None  BY <1>2 DEF RowsComeLast, Early, Over
  <1>4. ASSUME NEW rec, NEW s \in Early, call' = [call EXCEPT ![c] = rec],
               rec.stage = s, rec.row = None
        PROVE  RowsComeLast' /\ Trailed
    <2>1. Leaves(c, s, rec.outcome, None)  BY <1>1, <1>4 DEF Leaves
    <2>2. RowsComeLast'  BY <2>1, LeavesKeepsRows DEF Early
    <2>3. \A q \in Callers : /\ q \in LookedUp' <=> q \in LookedUp
                             /\ q \in Recorded' <=> q \in Recorded
                             /\ q \in ToldBalance' <=> q \in ToldBalance
      BY <1>2, <1>3, <2>1 DEF LookedUp, Recorded, ToldBalance, Leaves, Early
    <2>4. UNCHANGED <<LookedUp, Recorded, ToldBalance>>
      BY <2>3 DEF LookedUp, Recorded, ToldBalance
    <2> QED  BY <2>2, <2>4 DEF Trailed
  <1>5. ASSUME NEW k, call' = [call EXCEPT ![c] = Send(c, k)]  PROVE RowsComeLast' /\ Trailed
    <2> DEFINE rec == Send(c, k)
    <2>1. rec.stage = "sent" /\ rec.row = None  BY <1>1, <1>3 DEF Send, CallState
    <2>2. call' = [call EXCEPT ![c] = rec]  BY <1>5
    <2> HIDE DEF rec
    <2> QED  BY <1>4, <2>1, <2>2 DEF Early
  <1>6. ASSUME NEW old \in CallState, Contend(c, old), old.row = None
        PROVE  RowsComeLast' /\ Trailed
    <2> DEFINE post == [old EXCEPT !.stage = "posted"]
               wait == [old EXCEPT !.stage = "waiting"]
    <2>1. post.stage = "posted" /\ post.row = None /\ wait.stage = "waiting" /\ wait.row = None
      BY <1>6 DEF CallState
    <2>2. call' = [call EXCEPT ![c] = post] \/ call' = [call EXCEPT ![c] = wait]
      BY <1>6 DEF Contend
    <2> HIDE DEF post, wait
    <2> QED  BY <1>4, <2>1, <2>2 DEF Early
  <1>7. CASE get_account_balance(c)
    BY <1>1, <1>3, <1>5, <1>6, <1>7 DEF get_account_balance
  <1>8. CASE AcquireLock(c)
    <2> DEFINE rec == [call[c] EXCEPT !.stage = "posted"]
    <2>1. rec.stage = "posted" /\ rec.row = None  BY <1>1, <1>3 DEF CallState
    <2>2. \/ call' = [call EXCEPT ![c] = Send(c, access_token)]
          \/ call' = [call EXCEPT ![c] = rec]
      BY <1>8 DEF AcquireLock
    <2> HIDE DEF rec
    <2> QED  BY <1>4, <1>5, <2>1, <2>2 DEF Early
  <1>9. CASE issue_token(c)
    <2> DEFINE rec == [call[c] EXCEPT !.stage = "granted", !.token = last + 1, !.at = now]
    <2>1. rec.stage = "granted" /\ rec.row = None  BY <1>1, <1>3 DEF CallState
    <2>2. call' = [call EXCEPT ![c] = rec]  BY <1>9 DEF issue_token
    <2> HIDE DEF rec
    <2> QED  BY <1>4, <2>1, <2>2 DEF Early
  <1>10. CASE FetchReturns(c)
    BY <1>5, <1>10 DEF FetchReturns
  <1>11. CASE get_balance(c) \/ CallFails(c)
    <2>1. PICK s \in {"accepted", "refused", "failed"} :
             call' = [call EXCEPT ![c].stage = s, ![c].at = 0]
      BY <1>11 DEF get_balance, CallFails, Answer
    <2> DEFINE rec == [call[c] EXCEPT !.stage = s, !.at = 0]
    <2>2. rec.stage = s /\ rec.row = None  BY <1>1, <1>3 DEF CallState
    <2>3. call' = [call EXCEPT ![c] = rec]  BY <2>1
    <2> HIDE DEF rec
    <2> QED  BY <1>4, <2>2, <2>3 DEF Early
  <1>12. CASE RetryAfter401(c)
    <2> DEFINE rec == [call[c] EXCEPT !.attempt = 2, !.rejected = call[c].token]
    <2>1. rec \in CallState /\ rec.row = None  BY <1>1, <1>3 DEF CallState
    <2>2. Contend(c, rec)  BY <1>12 DEF RetryAfter401
    <2> HIDE DEF rec
    <2> QED  BY <1>6, <2>1, <2>2
  <1> QED  BY <1>7, <1>8, <1>9, <1>10, <1>11, <1>12

\* _call_api ends: the deed.
LEMMA OverStep ==
    ASSUME TypeOK, RowsComeLast, NEW c \in Callers, FetchFails(c) \/ CallReturns(c)
    PROVE  RowsComeLast' /\ Trailed
  <1>1. call \in [Callers -> CallState] /\ call[c].stage \in Early
    BY DEF TypeOK, FetchFails, CallReturns, Early
  <1>2. PICK o \in {"ok", "error"} : call' = [call EXCEPT ![c] = Auditing(o)]
    BY DEF FetchFails, CallReturns
  <1> DEFINE rec == Auditing(o)
  <1>3. rec.stage = "auditing" /\ rec.outcome = o /\ rec.row = None
    BY DEF Auditing, NewCall
  <1>4. call' = [call EXCEPT ![c] = rec]  BY <1>2
  <1> HIDE DEF rec
  <1>5. Leaves(c, "auditing", o, None)  BY <1>1, <1>3, <1>4 DEF Leaves
  <1>6. o # None  BY NoneIsNoOutcome
  <1>7. RowsComeLast'  BY <1>5, <1>6, LeavesKeepsRows DEF Over
  <1>8. call[c].row = None  BY <1>1 DEF RowsComeLast, Early, Over
  <1>9. LookedUp' = LookedUp \union {c}  BY <1>5 DEF LookedUp, Leaves
  <1>10. Recorded' = Recorded /\ ToldBalance' = ToldBalance
    BY <1>1, <1>5, <1>8 DEF Recorded, ToldBalance, Leaves, Early
  <1>11. Trail!Do(c)  BY <1>9, <1>10 DEF Trail!Do
  <1> QED  BY <1>7, <1>11 DEF Trailed, Trail!Next

\* The audit's commit, its failure, and a cancellation.
LEMMA LastStep ==
    ASSUME TypeOK, RowsComeLast, NEW c \in Callers, audit(c) \/ AuditFails(c) \/ Cancel(c)
    PROVE  RowsComeLast' /\ Trailed
  <1>1. call \in [Callers -> CallState] /\ call[c].outcome \in {"ok", "error", None}
        /\ call[c].stage \in Stages
    BY DEF TypeOK, CallState
  <1>2. /\ call[c].stage \notin Over \union {"idle"} /\ call[c].row = None
    BY DEF audit, AuditFails, Cancel, Over, RowsComeLast
  <1>3. ASSUME NEW s \in Over, NEW w, call' = [call EXCEPT ![c] = Done(s, w)]
        PROVE  Leaves(c, s, None, w)
    <2> DEFINE rec == Done(s, w)
    <2>1. rec.stage = s /\ rec.outcome = None /\ rec.row = w  BY DEF Done, NewCall
    <2>2. call' = [call EXCEPT ![c] = rec]  BY <1>3
    <2> HIDE DEF rec
    <2> QED  BY <1>1, <2>1, <2>2 DEF Leaves
  <1>4. CASE audit(c)
    <2>1. PICK s \in {"returned", "raised"} :
             call' = [call EXCEPT ![c] = Done(s, call[c].outcome)]
      BY <1>4 DEF audit, Ended
    <2>2. Leaves(c, s, None, call[c].outcome)  BY <1>3, <2>1 DEF Over
    <2>3. call[c].stage = "auditing" /\ call[c].outcome # None
      BY <1>4 DEF audit, RowsComeLast
    <2>4. RowsComeLast'  BY <2>2, LeavesKeepsRows DEF Over
    <2>5. LookedUp' = LookedUp /\ c \in LookedUp  BY <2>2, <2>3 DEF LookedUp, Leaves
    <2>6. Recorded' = Recorded \union {c}  BY <2>2, <2>3 DEF Recorded, Leaves
    <2>7. ToldBalance' \in {ToldBalance, ToldBalance \union {c}}
      <3>1. CASE s = "returned"
        BY <2>2, <3>1 DEF ToldBalance, Leaves
      <3>2. CASE s = "raised"
        <4>1. ToldBalance' = ToldBalance  BY <2>2, <2>3, <3>2 DEF ToldBalance, Leaves
        <4> QED  BY <4>1
      <3> QED  BY <3>1, <3>2
    <2>8. Trail!Record(c)  BY <2>5, <2>6, <2>7 DEF Trail!Record
    <2> QED  BY <2>4, <2>8 DEF Trailed, Trail!Next
  <1>5. CASE AuditFails(c) \/ Cancel(c)
    <2>1. PICK s \in {"raised", "cancelled"} : call' = [call EXCEPT ![c] = Done(s, None)]
      BY <1>5 DEF AuditFails, Cancel
    <2>2. Leaves(c, s, None, None)  BY <1>3, <2>1 DEF Over
    <2>3. RowsComeLast'  BY <2>2, LeavesKeepsRows DEF Over
    <2>4. Recorded' = Recorded /\ ToldBalance' = ToldBalance
      BY <1>2, <2>2 DEF Recorded, ToldBalance, Leaves, Over
    <2>5. LookedUp' = LookedUp \union {c}  BY <2>2 DEF LookedUp, Leaves
    <2>6. Trail!Do(c)  BY <2>4, <2>5 DEF Trail!Do
    <2> QED  BY <2>3, <2>6 DEF Trailed, Trail!Next
  <1> QED  BY <1>4, <1>5

\* Every step is one of AuditTrail, or shows nothing to it.
LEMMA TrailStep ==
    ASSUME TypeOK, RowsComeLast, [Next]_vars
    PROVE  RowsComeLast' /\ Trailed
  <1>1. CASE UNCHANGED vars \/ Tick \/ Restart
    <2>1. call' = call  BY <1>1 DEF vars, Tick, Restart
    <2> QED  BY <2>1 DEF RowsComeLast, Trailed, LookedUp, Recorded, ToldBalance
  <1>2. CASE \E c \in Callers : get_account_balance(c) \/ Proceed(c) \/ Cancel(c)
    BY <1>2, EarlyStep, OverStep, LastStep DEF Proceed
  <1> QED  BY <1>1, <1>2 DEF Next

\* Lookups implement the audit trail: a balance the model is told has its committed
\* row, and a row a lookup that took place, for any number of concurrent lookups.
THEOREM LookupsAudited == Spec => ImplementsAuditTrail
  <1>1. Init => RowsComeLast /\ Trail!Init
    <2>1. ASSUME Init  PROVE \A c \in Callers : call[c].stage = "idle" /\ call[c].row = None
      BY <2>1 DEF Init, NewCall
    <2> QED  BY <2>1 DEF RowsComeLast, Trail!Init, LookedUp, Recorded, ToldBalance
  <1>2. TypeOK /\ RowsComeLast /\ [Next]_vars => [Trail!Next]_Trail!tvars
    BY TrailStep DEF Trailed, Trail!tvars
  <1>3. TypeOK /\ RowsComeLast /\ [Next]_vars => RowsComeLast'
    BY TrailStep
  <1> QED  BY LookupTypeCorrect, <1>1, <1>2, <1>3, PTL DEF Spec, ImplementsAuditTrail, Trail!Spec
================================================================================
