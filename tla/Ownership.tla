------------------------------- MODULE Ownership -------------------------------
(***************************************************************************)
(* Who may act on a thread (app/graph/ownership.py, require_thread_owner   *)
(* in app/api/v1/auth.py), inside the transaction get_db wraps around each *)
(* request (app/database.py).  The claim is an INSERT ... ON CONFLICT DO   *)
(* NOTHING: it waits while another open transaction holds an uncommitted   *)
(* row of the same thread, does nothing when a committed row exists, and   *)
(* is kept only if the request that made it commits.  The dependency and   *)
(* the route share one session, so the claim is open while the handler     *)
(* (possibly a whole graph run) works, and the commit comes after it.      *)
(***************************************************************************)
EXTENDS Naturals

CONSTANTS Requests,   \* requests to /admin/threads/{thread_id}/...
          Users, Threads,
          DemoUser,   \* settings.demo_username, the one admin account
          None

ASSUME NoneIsNoUser == None \notin Users
ASSUME NoneIsNoRequest == None \notin Requests

VARIABLES
    owner,   \* committed rows of thread_ownership: owner_username or None
    claim,   \* the request whose uncommitted INSERT holds the thread, or None
    req      \* what each request has reached

vars == <<owner, claim, req>>

\* insert, select: the two awaits of claim_or_check; body: the route's handler;
\* answered: returned, get_db still has to commit; raised: it has to roll back.
Stages == {"idle", "insert", "select", "body", "answered", "raised", "closed"}
RequestState == [stage : Stages, user : Users \union {None}, thread : Threads \union {None}]
Idle == [stage |-> "idle", user |-> None, thread |-> None]

TypeOK == /\ owner \in [Threads -> Users \union {None}]
          /\ claim \in [Threads -> Requests \union {None}]
          /\ req \in [Requests -> RequestState]
          /\ \A r \in Requests : req[r].stage # "idle" => /\ req[r].user \in Users
                                                         /\ req[r].thread \in Threads

is_admin(u) == u = DemoUser

Init == /\ owner = [t \in Threads |-> None]
        /\ claim = [t \in Threads |-> None]
        /\ req = [r \in Requests |-> Idle]

GoTo(r, stage) == req' = [req EXCEPT ![r].stage = stage]

\* require_thread_owner calls claim_or_check, which lets the admin through unasked.
require_thread_owner(r, u, t) ==
    /\ req[r].stage = "idle"
    /\ req' = [req EXCEPT ![r] = [stage |-> IF is_admin(u) THEN "body" ELSE "insert",
                                  user |-> u, thread |-> t]]
    /\ UNCHANGED <<owner, claim>>

InsertBlocked_Never(t) == FALSE

\* What the INSERT does once it runs, and when it can run at all.
InsertBlocked(t) == claim[t] # None
ClaimAfterInsert(r, t) == IF owner[t] = None THEN [claim EXCEPT ![t] = r] ELSE claim

InsertClaim(r) == LET t == req[r].thread IN
    /\ req[r].stage = "insert"
    /\ ~InsertBlocked(t)
    /\ claim' = ClaimAfterInsert(r, t)
    /\ GoTo(r, "select")
    /\ UNCHANGED owner

VisibleOwner_Unchecked(r, t) == req[r].user

\* The row a transaction sees: the committed one, or the one it wrote itself.
VisibleOwner(r, t) == IF claim[t] = r THEN req[r].user ELSE owner[t]

\* owner == username lets the request in; otherwise HTTPException(403).
SelectOwner(r) ==
    /\ req[r].stage = "select"
    /\ GoTo(r, IF VisibleOwner(r, req[r].thread) = req[r].user THEN "body" ELSE "raised")
    /\ UNCHANGED <<owner, claim>>

HandlerReturns(r) == /\ req[r].stage = "body"
                     /\ GoTo(r, "answered")
                     /\ UNCHANGED <<owner, claim>>

\* The route raises: 404 from /resume, 422 from /edit, a failed graph run.
HandlerRaises(r) == /\ req[r].stage = "body"
                    /\ GoTo(r, "raised")
                    /\ UNCHANGED <<owner, claim>>

DropClaim_Leaks(r) == claim' = claim

DropClaim(r) == claim' = [t \in Threads |-> IF claim[t] = r THEN None ELSE claim[t]]

\* get_db: session.commit() after the route returned.
Commit(r) == /\ req[r].stage = "answered"
             /\ owner' = [t \in Threads |-> IF claim[t] = r THEN req[r].user ELSE owner[t]]
             /\ DropClaim(r)
             /\ GoTo(r, "closed")

\* get_db: session.rollback() after the route raised, or after the commit failed.
Rollback(r) == /\ req[r].stage \in {"raised", "answered"}
               /\ DropClaim(r)
               /\ GoTo(r, "closed")
               /\ UNCHANGED owner

\* The request is cancelled (a shutdown): session.close() discards the transaction.
Cancel(r) == /\ req[r].stage \in {"insert", "select", "body"}
             /\ DropClaim(r)
             /\ GoTo(r, "closed")
             /\ UNCHANGED owner

Step(r) == \/ InsertClaim(r) \/ SelectOwner(r)
           \/ HandlerReturns(r) \/ HandlerRaises(r)
           \/ Commit(r) \/ Rollback(r)

Next == \E r \in Requests :
           \/ \E u \in Users, t \in Threads : require_thread_owner(r, u, t)
           \/ Step(r)
           \/ Cancel(r)

Spec == Init /\ [][Next]_vars

\* Every await of a request resumes: handlers end (a graph run is bounded by the
\* recursion limit) and get_db's finally always runs.
FairSpec == Spec /\ \A r \in Requests : WF_vars(Step(r))
--------------------------------------------------------------------------------
Admitted(r) == req[r].stage \in {"body", "answered"} /\ ~is_admin(req[r].user)

(***************************************************************************)
(* A request that claim_or_check let in is backed by a committed row of    *)
(* its own user, or by a row it inserted itself: it never relies on a row  *)
(* that another transaction may still take back.                           *)
(***************************************************************************)
AdmittedIsBacked ==
    \A r \in Requests : Admitted(r) =>
        \/ owner[req[r].thread] = req[r].user
        \/ owner[req[r].thread] = None /\ claim[req[r].thread] = r

(***************************************************************************)
(* "a race between two concurrent first-touches picks one winner": two     *)
(* different non-admin users are never inside handlers of the same thread  *)
(* at the same time, whatever commits and rollbacks happen in between.     *)
(***************************************************************************)
OneUserPerThread ==
    \A r, q \in Requests :
        Admitted(r) /\ Admitted(q) /\ req[r].thread = req[q].thread =>
            req[r].user = req[q].user

(***************************************************************************)
(* A committed owner is never replaced or removed, by any race of claims,  *)
(* commits and rollbacks: every call after the first insert just reads it. *)
(***************************************************************************)
OwnersAreForever ==
    [][\A t \in Threads : owner[t] # None => owner'[t] = owner[t]]_vars

(***************************************************************************)
(* No request waits for ever behind an uncommitted claim: every request    *)
(* that reached claim_or_check is answered and its session closed.         *)
(***************************************************************************)
EveryRequestCloses ==
    \A r \in Requests : (req[r].stage # "idle") ~> (req[r].stage = "closed")

(***************************************************************************)
(* The transactional claim implements the lock-free promise of             *)
(* ThreadAccess: the holder is the committed owner or else the user of the *)
(* open claim, and it is firm once committed.                              *)
(***************************************************************************)
Holder == [t \in Threads |-> IF owner[t] # None \/ claim[t] = None THEN owner[t]
                             ELSE req[claim[t]].user]
Firm == [t \in Threads |-> owner[t] # None]
Acting == [t \in Threads |->
              {p \in Requests \X Users : /\ Admitted(p[1]) /\ req[p[1]].thread = t
                                         /\ req[p[1]].user = p[2]}]
Access == INSTANCE ThreadAccess WITH holder <- Holder, firm <- Firm, acting <- Acting
ImplementsThreadAccess == Access!Spec
================================================================================
