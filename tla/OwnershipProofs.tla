---------------------------- MODULE OwnershipProofs ----------------------------
(***************************************************************************)
(* Thread ownership for any number of requests, users and threads.  The    *)
(* inductive invariant adds to AdmittedIsBacked what an open claim is: it  *)
(* belongs to a running request of a non-admin user on that very thread,   *)
(* and stands only where no committed row does.                            *)
(***************************************************************************)
EXTENDS Ownership, TLAPS

ClaimsAreOpen ==
    \A t \in Threads : claim[t] # None =>
        /\ owner[t] = None
        /\ req[claim[t]].thread = t
        /\ req[claim[t]].stage \in {"select", "body", "answered", "raised"}
        /\ ~is_admin(req[claim[t]].user)

\* The admin is let through before the INSERT, so only other users claim.
OnlyUsersClaim ==
    \A r \in Requests : req[r].stage \in {"insert", "select"} => ~is_admin(req[r].user)

Inv == TypeOK /\ ClaimsAreOpen /\ OnlyUsersClaim /\ AdmittedIsBacked

\* The fields of a request's state, for steps that do not need more of TypeOK.
LEMMA RequestFields ==
    ASSUME TypeOK, NEW r \in Requests, NEW s \in Stages
    PROVE  /\ req[r] = [stage |-> req[r].stage, user |-> req[r].user,
                        thread |-> req[r].thread]
           /\ req[r].stage \in Stages
           /\ req[r].user \in Users \union {None}
           /\ req[r].thread \in Threads \union {None}
           /\ [req[r] EXCEPT !.stage = s] =
                [stage |-> s, user |-> req[r].user, thread |-> req[r].thread]
           /\ [stage |-> s, user |-> req[r].user, thread |-> req[r].thread] \in RequestState
  BY DEF TypeOK, RequestState

\* A step that only moves r to another stage leaves every other request, and
\* r's user and thread, as they were.
LEMMA GoToMoves ==
    ASSUME TypeOK, NEW r \in Requests, NEW s \in Stages \ {"idle"},
           req[r].stage # "idle", GoTo(r, s)
    PROVE  /\ req' \in [Requests -> RequestState]
           /\ req'[r].stage = s
           /\ \A q \in Requests : /\ req'[q].user = req[q].user
                                  /\ req'[q].thread = req[q].thread
                                  /\ q # r => req'[q].stage = req[q].stage
           /\ \A q \in Requests : req'[q].stage # "idle" =>
                  req'[q].user \in Users /\ req'[q].thread \in Threads
  <1>1. \A q \in Requests : req'[q] =
           IF q = r THEN [stage |-> s, user |-> req[r].user, thread |-> req[r].thread]
           ELSE req[q]
    BY RequestFields DEF GoTo, TypeOK
  <1>2. \A q \in Requests : req'[q] \in RequestState
    <2>1. [stage |-> s, user |-> req[r].user, thread |-> req[r].thread] \in RequestState
      BY RequestFields
    <2> QED  BY <1>1, <2>1 DEF TypeOK
  <1>3. req' = [q \in Requests |-> req'[q]]
    BY DEF GoTo, TypeOK
  <1>4. req' \in [Requests -> RequestState]
    BY <1>2, <1>3
  <1> QED
    BY <1>1, <1>4 DEF TypeOK

\* Both ways of ending a transaction let go exactly of r's own claim.
LEMMA DropClaimDrops ==
    ASSUME TypeOK, NEW r \in Requests, DropClaim(r)
    PROVE  /\ claim' \in [Threads -> Requests \union {None}]
           /\ \A t \in Threads : claim'[t] = IF claim[t] = r THEN None ELSE claim[t]
  BY DEF TypeOK, DropClaim

\* What a step of a request that is under way does to req.
Moves(r, s) ==
    /\ req' \in [Requests -> RequestState]
    /\ req'[r].stage = s
    /\ \A q \in Requests : /\ req'[q].user = req[q].user
                           /\ req'[q].thread = req[q].thread
                           /\ q # r => req'[q].stage = req[q].stage
    /\ \A q \in Requests : req'[q].stage # "idle" =>
           req'[q].user \in Users /\ req'[q].thread \in Threads

\* The moves that GoTo makes, by name.
LEMMA GoToIsMove ==
    ASSUME TypeOK, NEW r \in Requests, req[r].stage # "idle"
    PROVE  \A s \in Stages \ {"idle"} : GoTo(r, s) => Moves(r, s)
  BY GoToMoves DEF Moves

\* A new request disturbs nothing: it holds no claim and has no row of its own.
LEMMA ArriveKeepsInv ==
    ASSUME Inv, NEW r \in Requests, NEW u \in Users, NEW t \in Threads,
           require_thread_owner(r, u, t)
    PROVE  Inv'
  <1>1. \A q \in Requests : req'[q] =
           IF q = r THEN [stage |-> IF is_admin(u) THEN "body" ELSE "insert",
                          user |-> u, thread |-> t] ELSE req[q]
    BY DEF require_thread_owner, Inv, TypeOK
  <1>2. TypeOK'
    BY <1>1 DEF require_thread_owner, Inv, TypeOK, RequestState, Stages
  <1>3. ClaimsAreOpen'
    BY <1>1 DEF require_thread_owner, Inv, TypeOK, ClaimsAreOpen, is_admin
  <1>4. AdmittedIsBacked'
    BY <1>1 DEF require_thread_owner, Inv, TypeOK, AdmittedIsBacked, Admitted, is_admin
  <1>5. OnlyUsersClaim'
    BY <1>1 DEF Inv, OnlyUsersClaim, is_admin
  <1> QED  BY <1>2, <1>3, <1>4, <1>5 DEF Inv

\* The INSERT finds no open claim, so the one it makes is the only one there.
LEMMA InsertKeepsInv ==
    ASSUME Inv, NEW r \in Requests, InsertClaim(r)
    PROVE  Inv'
  <1> USE NoneIsNoRequest
  <1> DEFINE t == req[r].thread
  <1>1. t \in Threads /\ claim[t] = None /\ req[r].stage = "insert" /\ owner' = owner
    BY DEF InsertClaim, InsertBlocked, Inv, TypeOK
  <1>2. GoTo(r, "select") /\ claim' = ClaimAfterInsert(r, t)
    BY DEF InsertClaim
  <1>3. \A x \in Threads : claim'[x] = IF x = t /\ owner[t] = None THEN r ELSE claim[x]
    BY <1>1, <1>2 DEF ClaimAfterInsert, Inv, TypeOK
  <1>4. claim' \in [Threads -> Requests \union {None}]
    BY <1>1, <1>2 DEF ClaimAfterInsert, Inv, TypeOK
  <1>5. Moves(r, "select")
    BY <1>1, <1>2, GoToIsMove DEF Inv, Stages
  <1>6. TypeOK'
    BY <1>1, <1>4, <1>5 DEF Inv, TypeOK, Moves
  <1>7. ~is_admin(req[r].user) /\ OnlyUsersClaim'
    BY <1>1, <1>5 DEF Inv, OnlyUsersClaim, Moves, is_admin
  <1>8. ClaimsAreOpen'
    BY <1>1, <1>3, <1>5, <1>7 DEF Inv, TypeOK, ClaimsAreOpen, Moves, is_admin
  <1>9. AdmittedIsBacked'
    BY <1>1, <1>3, <1>5 DEF Inv, TypeOK, AdmittedIsBacked, Admitted, Moves, is_admin
  <1> QED  BY <1>6, <1>7, <1>8, <1>9 DEF Inv

\* SelectOwner admits on a committed row, or on the claim r itself made.
LEMMA SelectKeepsInv ==
    ASSUME Inv, NEW r \in Requests, SelectOwner(r)
    PROVE  Inv'
  <1> DEFINE t == req[r].thread
             s == IF VisibleOwner(r, t) = req[r].user THEN "body" ELSE "raised"
  <1>1. req[r].stage = "select" /\ t \in Threads /\ owner' = owner /\ claim' = claim
    BY DEF SelectOwner, Inv, TypeOK
  <1>2. Moves(r, s)
    BY <1>1, GoToIsMove DEF SelectOwner, Inv, Stages
  <1>3. s = "body" => \/ owner[t] = req[r].user
                      \/ owner[t] = None /\ claim[t] = r
    BY <1>1, NoneIsNoRequest DEF VisibleOwner, Inv, ClaimsAreOpen
  <1>4. s \in {"body", "raised"}  OBVIOUS
  <1> HIDE DEF s
  <1>5. TypeOK' /\ OnlyUsersClaim'
    BY <1>1, <1>2, <1>4 DEF Inv, TypeOK, OnlyUsersClaim, Moves, is_admin
  <1>6. ClaimsAreOpen'
    BY <1>1, <1>2, <1>4 DEF Inv, TypeOK, ClaimsAreOpen, Moves, is_admin
  <1>7. AdmittedIsBacked'
    BY <1>1, <1>2, <1>3, <1>4 DEF Inv, AdmittedIsBacked, Admitted, Moves, is_admin
  <1> QED  BY <1>5, <1>6, <1>7 DEF Inv

\* The handler's end changes only the stage, and keeps what backs the request.
LEMMA HandlerKeepsInv ==
    ASSUME Inv, NEW r \in Requests, HandlerReturns(r) \/ HandlerRaises(r)
    PROVE  Inv'
  <1>1. req[r].stage = "body" /\ owner' = owner /\ claim' = claim
    BY DEF HandlerReturns, HandlerRaises
  <1>2. PICK s \in {"answered", "raised"} : Moves(r, s)
    BY <1>1, GoToIsMove DEF HandlerReturns, HandlerRaises, Inv, Stages
  <1>3. TypeOK' /\ OnlyUsersClaim'
    BY <1>1, <1>2 DEF Inv, TypeOK, OnlyUsersClaim, Moves, is_admin
  <1>4. ClaimsAreOpen'
    BY <1>1, <1>2 DEF Inv, TypeOK, ClaimsAreOpen, Moves, is_admin
  <1>5. AdmittedIsBacked'
    BY <1>1, <1>2 DEF Inv, AdmittedIsBacked, Admitted, Moves, is_admin
  <1> QED  BY <1>3, <1>4, <1>5 DEF Inv

\* The end of a transaction turns r's own claim into a row, or into nothing;
\* no other request was relying on it.
LEMMA CloseKeepsInv ==
    ASSUME Inv, NEW r \in Requests, Commit(r) \/ Rollback(r) \/ Cancel(r)
    PROVE  Inv'
  <1> USE NoneIsNoRequest
  <1>1. req[r].stage # "idle" /\ req[r].user \in Users
    BY DEF Commit, Rollback, Cancel, Inv, TypeOK
  <1>2. Moves(r, "closed")
    BY <1>1, GoToIsMove DEF Commit, Rollback, Cancel, Inv, Stages
  <1>3. /\ claim' \in [Threads -> Requests \union {None}]
        /\ \A t \in Threads : claim'[t] = IF claim[t] = r THEN None ELSE claim[t]
    BY DropClaimDrops DEF Commit, Rollback, Cancel, Inv
  <1>4. /\ owner' \in [Threads -> Users \union {None}]
        /\ \A t \in Threads : owner'[t] = owner[t] \/ claim[t] = r
    BY <1>1 DEF Commit, Rollback, Cancel, Inv, TypeOK
  <1>5. TypeOK' /\ OnlyUsersClaim'
    BY <1>2, <1>3, <1>4 DEF Inv, TypeOK, OnlyUsersClaim, Moves, is_admin
  <1>6. ClaimsAreOpen'
    BY <1>2, <1>3, <1>4 DEF Inv, TypeOK, ClaimsAreOpen, Moves, is_admin
  <1>7. AdmittedIsBacked'
    <2> SUFFICES ASSUME NEW q \in Requests, Admitted(q)'
                 PROVE  \/ owner'[req'[q].thread] = req'[q].user
                        \/ owner'[req'[q].thread] = None /\ claim'[req'[q].thread] = q
      BY DEF AdmittedIsBacked
    <2>1. q # r /\ Admitted(q) /\ req[q].thread \in Threads /\ req[q].user # None
      BY <1>2, NoneIsNoUser DEF Admitted, Moves, is_admin, Inv, TypeOK
    <2> QED
      BY <1>2, <1>3, <1>4, <2>1 DEF Inv, AdmittedIsBacked, ClaimsAreOpen, Moves
  <1> QED  BY <1>5, <1>6, <1>7 DEF Inv

\* Every step preserves the invariant.
LEMMA InvStep ==
    ASSUME Inv, [Next]_vars
    PROVE  Inv'
  <1>1. CASE UNCHANGED vars
    BY <1>1 DEF vars, Inv, TypeOK, ClaimsAreOpen, OnlyUsersClaim, AdmittedIsBacked,
                Admitted, is_admin
  <1>2. CASE Next
    BY <1>2, ArriveKeepsInv, InsertKeepsInv, SelectKeepsInv, HandlerKeepsInv, CloseKeepsInv
       DEF Next, Step
  <1> QED  BY <1>1, <1>2

\* The invariant holds initially.
LEMMA InvInit ==
    ASSUME Init  PROVE Inv
  BY DEF Init, Inv, TypeOK, ClaimsAreOpen, OnlyUsersClaim, AdmittedIsBacked, Admitted,
         Idle, RequestState, Stages

\* The state stays well typed: claims are requests, owners are users.
THEOREM OwnershipTypeCorrect == Spec => []TypeOK
  <1>1. Inv => TypeOK  BY DEF Inv
  <1> QED  BY InvInit, InvStep, <1>1, PTL DEF Spec

\* Whatever claim_or_check admits, for any number of concurrent requests, is
\* backed by a committed row of that user or by the request's own insert.
THEOREM Backed == Spec => []AdmittedIsBacked
  <1>1. Inv => AdmittedIsBacked  BY DEF Inv
  <1> QED  BY InvInit, InvStep, <1>1, PTL DEF Spec

\* Two users are never inside handlers of one thread together.
THEOREM OneUser == Spec => []OneUserPerThread
  <1>1. Inv => OneUserPerThread
    BY NoneIsNoUser DEF Inv, AdmittedIsBacked, OneUserPerThread, Admitted, TypeOK
  <1> QED  BY InvInit, InvStep, <1>1, PTL DEF Spec

\* The committed owner of a thread stays, whatever step is taken: a claim is open only
\* where there is none.
LEMMA OwnerStays ==
    ASSUME Inv, [Next]_vars, NEW t \in Threads, owner[t] # None
    PROVE  owner'[t] = owner[t]
  <1>1. CASE owner' = owner  BY <1>1
  <1>2. ASSUME NEW r \in Requests, Commit(r)  PROVE owner'[t] = owner[t]
    <2>1. claim[t] = None  BY DEF Inv, ClaimsAreOpen
    <2> QED  BY <1>2, <2>1, NoneIsNoRequest DEF Commit
  <1> QED
    BY <1>1, <1>2 DEF Next, Step, vars, require_thread_owner, InsertClaim,
       SelectOwner, HandlerReturns, HandlerRaises, Rollback, Cancel

\* A committed owner is never replaced.
THEOREM Forever == Spec => OwnersAreForever
  <1>1. Inv /\ [Next]_vars => [\A t \in Threads : owner[t] # None => owner'[t] = owner[t]]_vars
    BY OwnerStays
  <1> QED  BY InvInit, InvStep, <1>1, PTL DEF Spec, OwnersAreForever

\* A request that goes to a stage outside the handler leaves the acting set.
LEMMA ActingLeaves ==
    ASSUME NEW r \in Requests, NEW s \in Stages, s \notin {"body", "answered"}, Moves(r, s),
           req[r].thread \in Threads
    PROVE  Acting' = [Acting EXCEPT ![req[r].thread] = Access!Without(@, r)]
  <1> DEFINE t == req[r].thread
  <1>1. \A q \in Requests : Admitted(q)' <=> Admitted(q) /\ q # r
    BY DEF Admitted, Moves, is_admin
  <1>2. \A x \in Threads : Acting'[x] = IF x = t THEN Access!Without(Acting[x], r)
                                         ELSE Acting[x]
    <2>1. ASSUME NEW x \in Threads, NEW p \in Requests \X Users
          PROVE  p \in Acting'[x] <=> p \in Acting[x] /\ p[1] # r
      BY <1>1 DEF Acting, Moves
    <2>2. ASSUME NEW x \in Threads, x # t, NEW p \in Acting[x]  PROVE p[1] # r
      BY <2>2 DEF Acting
    <2>3. \A x \in Threads : /\ Acting[x] \subseteq Requests \X Users
                             /\ Acting'[x] \subseteq Requests \X Users
      BY DEF Acting
    <2> HIDE DEF Acting, t
    <2> QED  BY <2>1, <2>2, <2>3 DEF Access!Without
  <1>3. Acting' = [x \in Threads |-> Acting'[x]]  BY DEF Acting
  <1>4. Acting = [x \in Threads |-> Acting[x]]  BY DEF Acting
  <1> HIDE DEF Acting
  <1> QED  BY <1>2, <1>3, <1>4

\* A step that keeps who is admitted, for whom and on which thread, keeps the acting set.
LEMMA ActingStays ==
    ASSUME \A q \in Requests : /\ Admitted(q)' <=> Admitted(q)
                               /\ Admitted(q) => /\ req'[q].thread = req[q].thread
                                                 /\ req'[q].user = req[q].user
    PROVE  Acting' = Acting
  <1>1. ASSUME NEW x \in Threads, NEW p \in Requests \X Users
        PROVE  p \in Acting'[x] <=> p \in Acting[x]
    BY DEF Acting
  <1>2. \A x \in Threads : /\ Acting[x] \subseteq Requests \X Users
                           /\ Acting'[x] \subseteq Requests \X Users
    BY DEF Acting
  <1>3. Acting' = [x \in Threads |-> Acting'[x]] /\ Acting = [x \in Threads |-> Acting[x]]
    BY DEF Acting
  <1> HIDE DEF Acting
  <1>4. \A x \in Threads : Acting'[x] = Acting[x]
    BY <1>1, <1>2
  <1> QED  BY <1>3, <1>4

\* What the holder of a thread is, for each of its three cases.
LEMMA HolderIs ==
    ASSUME Inv, NEW t \in Threads
    PROVE  /\ owner[t] # None => Holder[t] = owner[t]
           /\ owner[t] = None /\ claim[t] = None => Holder[t] = None
           /\ claim[t] # None => Holder[t] = req[claim[t]].user
  BY DEF Inv, ClaimsAreOpen, Holder

\* Whoever arrives is not admitted yet, unless it is the admin, who does not count.
LEMMA ArriveStutters ==
    ASSUME Inv, NEW r \in Requests, NEW u \in Users, NEW t \in Threads,
           require_thread_owner(r, u, t)
    PROVE  UNCHANGED <<Holder, Firm, Acting>>
  <1>1. \A q \in Requests : req'[q] =
           IF q = r THEN [stage |-> IF is_admin(u) THEN "body" ELSE "insert",
                          user |-> u, thread |-> t] ELSE req[q]
    BY DEF require_thread_owner, Inv, TypeOK
  <1>2. req[r].stage = "idle" /\ owner' = owner /\ claim' = claim
    BY DEF require_thread_owner
  <1>3. \A q \in Requests : /\ Admitted(q)' <=> Admitted(q)
                            /\ Admitted(q) => /\ req'[q].thread = req[q].thread
                                                 /\ req'[q].user = req[q].user
    BY <1>1, <1>2 DEF Admitted, is_admin
  <1>4. \A x \in Threads : claim[x] # None => claim[x] \in Requests /\ claim[x] # r
    BY <1>2, NoneIsNoRequest DEF Inv, TypeOK, ClaimsAreOpen
  <1>5. Holder' = Holder
    <2>1. \A x \in Threads : claim[x] # None => req'[claim[x]].user = req[claim[x]].user
      BY <1>1, <1>4
    <2> QED  BY <1>2, <2>1 DEF Holder
  <1> QED  BY <1>2, <1>3, <1>5, ActingStays DEF Firm

\* Moving between stages changes nobody's user, so a step that keeps the rows
\* and the claims keeps every holder.
LEMMA HolderStays ==
    ASSUME Inv, NEW r \in Requests, NEW s \in Stages, Moves(r, s), owner' = owner, claim' = claim
    PROVE  Holder' = Holder /\ Firm' = Firm
  <1>1. \A x \in Threads : claim[x] # None => req'[claim[x]].user = req[claim[x]].user
    BY NoneIsNoRequest DEF Inv, TypeOK, Moves
  <1> QED  BY <1>1 DEF Holder, Firm

\* The INSERT is a claim of the abstract thread, or nothing.
LEMMA InsertSimulates ==
    ASSUME Inv, NEW r \in Requests, InsertClaim(r)
    PROVE  \/ Access!Claim(req[r].thread, req[r].user)
           \/ UNCHANGED <<Holder, Firm, Acting>>
  <1> DEFINE t == req[r].thread
  <1>1. t \in Threads /\ claim[t] = None /\ req[r].stage = "insert" /\ owner' = owner
    BY DEF InsertClaim, InsertBlocked, Inv, TypeOK
  <1>2. GoTo(r, "select") /\ claim' = ClaimAfterInsert(r, t)
    BY DEF InsertClaim
  <1>3. Moves(r, "select")
    BY <1>1, <1>2, GoToIsMove DEF Inv, Stages
  <1>4. Acting' = Acting
    <2>1. \A q \in Requests : /\ Admitted(q)' <=> Admitted(q)
                              /\ Admitted(q) => /\ req'[q].thread = req[q].thread
                                                 /\ req'[q].user = req[q].user
      BY <1>1, <1>3 DEF Admitted, Moves, is_admin
    <2> QED  BY <2>1, ActingStays
  <1>5. CASE owner[t] # None
    <2>1. claim' = claim  BY <1>2, <1>5 DEF ClaimAfterInsert
    <2> QED  BY <1>1, <1>3, <1>4, <2>1, HolderStays DEF Stages
  <1>6. CASE owner[t] = None
    <2>1. claim' = [claim EXCEPT ![t] = r]  BY <1>2, <1>6 DEF ClaimAfterInsert
    <2>2. \A x \in Threads : Holder'[x] = IF x = t THEN req[r].user ELSE Holder[x]
      <3>1. \A x \in Threads : claim[x] # None => req'[claim[x]].user = req[claim[x]].user
        BY <1>3, NoneIsNoRequest DEF Inv, TypeOK, Moves
      <3>2. req'[r].user = req[r].user  BY <1>3 DEF Moves
      <3> QED
        BY <1>1, <1>6, <2>1, <3>1, <3>2, NoneIsNoRequest DEF Inv, TypeOK, Holder
    <2>3. Holder[t] = None  BY <1>1, <1>6, HolderIs
    <2>4. Holder' = [Holder EXCEPT ![t] = req[r].user]
      <3>1. Holder' = [x \in Threads |-> Holder'[x]]  BY DEF Holder
      <3>2. Holder = [x \in Threads |-> Holder[x]]  BY DEF Holder
      <3> HIDE DEF Holder
      <3> QED  BY <2>2, <3>1, <3>2
    <2> QED  BY <1>1, <1>4, <2>3, <2>4 DEF Firm, Access!Claim
  <1> QED  BY <1>5, <1>6

\* Being admitted is entering on behalf of the holder.
LEMMA SelectSimulates ==
    ASSUME Inv, NEW r \in Requests, SelectOwner(r)
    PROVE  \/ Access!Enter(r, req[r].thread, req[r].user)
           \/ UNCHANGED <<Holder, Firm, Acting>>
  <1> DEFINE t == req[r].thread
             s == IF VisibleOwner(r, t) = req[r].user THEN "body" ELSE "raised"
  <1>1. /\ req[r].stage = "select" /\ t \in Threads /\ req[r].user \in Users
        /\ owner' = owner /\ claim' = claim
    BY DEF SelectOwner, Inv, TypeOK
  <1>2. Moves(r, s)
    BY <1>1, GoToIsMove DEF SelectOwner, Inv, Stages
  <1>3. s \in Stages  BY DEF Stages
  <1>4. Holder' = Holder /\ Firm' = Firm
    BY <1>1, <1>2, <1>3, HolderStays
  <1>5. CASE s = "raised"
    <2>1. \A q \in Requests : /\ Admitted(q)' <=> Admitted(q)
                              /\ Admitted(q) => /\ req'[q].thread = req[q].thread
                                                 /\ req'[q].user = req[q].user
      BY <1>1, <1>2, <1>5 DEF Admitted, Moves, is_admin
    <2> QED  BY <1>4, <2>1, ActingStays
  <1>6. CASE s = "body"
    <2>1. VisibleOwner(r, t) = req[r].user  BY <1>6
    <2>2. Holder[t] = req[r].user
      BY <1>1, <2>1, HolderIs, NoneIsNoRequest, NoneIsNoUser DEF VisibleOwner
    <2>3. \A q \in Requests : Admitted(q)' <=> Admitted(q) \/ q = r
      BY <1>1, <1>2, <1>6 DEF Admitted, Moves, is_admin, Inv, OnlyUsersClaim
    <2> DEFINE u == req[r].user
    <2>4. \A x \in Threads : Acting'[x] = IF x = t THEN Acting[x] \union {<<r, u>>} ELSE Acting[x]
      <3>1. ASSUME NEW x \in Threads, NEW p \in Requests \X Users
            PROVE  p \in Acting'[x] <=> p \in Acting[x] \/ (x = t /\ p = <<r, u>>)
        <4>1. req'[p[1]].thread = req[p[1]].thread /\ req'[p[1]].user = req[p[1]].user
          BY <1>2 DEF Moves
        <4>2. p = <<p[1], p[2]>> /\ p[1] \in Requests
          OBVIOUS
        <4>3. p[1] = r => (p[2] = u <=> p = <<r, u>>)
          BY <4>2
        <4> QED  BY <2>3, <4>1, <4>2, <4>3 DEF Acting
      <3>2. \A x \in Threads : /\ Acting[x] \subseteq Requests \X Users
                               /\ Acting'[x] \subseteq Requests \X Users
        BY DEF Acting
      <3>3. <<r, u>> \in Requests \X Users
        BY <1>1
      <3> HIDE DEF Acting, t, u
      <3> QED  BY <3>1, <3>2, <3>3
    <2>5. Acting' = [Acting EXCEPT ![t] = @ \union {<<r, u>>}]
      <3>1. Acting' = [x \in Threads |-> Acting'[x]]  BY DEF Acting
      <3>2. Acting = [x \in Threads |-> Acting[x]]  BY DEF Acting
      <3> HIDE DEF Acting
      <3> QED  BY <2>4, <3>1, <3>2
    <2> QED  BY <1>4, <2>2, <2>5 DEF Access!Enter
  <1> QED  BY <1>5, <1>6

\* A handler that returns still acts until its transaction ends; one that raises leaves.
LEMMA HandlerSimulates ==
    ASSUME Inv, NEW r \in Requests, HandlerReturns(r) \/ HandlerRaises(r)
    PROVE  \/ Access!Leave(r, req[r].thread)
           \/ UNCHANGED <<Holder, Firm, Acting>>
  <1>1. req[r].stage = "body" /\ owner' = owner /\ claim' = claim /\ req[r].thread \in Threads
    BY DEF HandlerReturns, HandlerRaises, Inv, TypeOK
  <1>2. CASE HandlerReturns(r)
    <2>1. Moves(r, "answered")
      BY <1>1, <1>2, GoToIsMove DEF HandlerReturns, Inv, Stages
    <2>2. Holder' = Holder /\ Firm' = Firm
      BY <1>1, <2>1, HolderStays DEF Stages
    <2>3. \A q \in Requests : /\ Admitted(q)' <=> Admitted(q)
                              /\ Admitted(q) => /\ req'[q].thread = req[q].thread
                                                 /\ req'[q].user = req[q].user
      BY <1>1, <2>1 DEF Admitted, Moves, is_admin
    <2> QED  BY <2>2, <2>3, ActingStays
  <1>3. CASE HandlerRaises(r)
    <2>1. Moves(r, "raised")
      BY <1>1, <1>3, GoToIsMove DEF HandlerRaises, Inv, Stages
    <2>2. Holder' = Holder /\ Firm' = Firm
      BY <1>1, <2>1, HolderStays DEF Stages
    <2>3. Acting' = [Acting EXCEPT ![req[r].thread] = Access!Without(@, r)]
      BY <1>1, <2>1, ActingLeaves DEF Stages
    <2> QED  BY <2>2, <2>3 DEF Access!Leave
  <1> QED  BY <1>2, <1>3

\* The end of a transaction settles the holder, lets it go, or only leaves.
LEMMA CloseSimulates ==
    ASSUME Inv, NEW r \in Requests, Commit(r) \/ Rollback(r) \/ Cancel(r)
    PROVE  \/ Access!Leave(r, req[r].thread)
           \/ Access!Confirm(r, req[r].thread)
           \/ Access!Release(r, req[r].thread)
  <1> DEFINE t == req[r].thread
  <1>1. req[r].stage # "idle" /\ req[r].user \in Users /\ t \in Threads
    BY DEF Commit, Rollback, Cancel, Inv, TypeOK
  <1>2. Moves(r, "closed")
    BY <1>1, GoToIsMove DEF Commit, Rollback, Cancel, Inv, Stages
  <1>3. Acting' = [Acting EXCEPT ![t] = Access!Without(@, r)]
    BY <1>1, <1>2, ActingLeaves DEF Stages
  <1>4. \A x \in Threads : claim'[x] = IF claim[x] = r THEN None ELSE claim[x]
    BY DropClaimDrops DEF Commit, Rollback, Cancel, Inv
  <1>5. \A x \in Threads : claim[x] = r => x = t /\ owner[x] = None
    BY NoneIsNoRequest DEF Inv, ClaimsAreOpen
  <1>6. \A x \in Threads : claim[x] # None => req'[claim[x]].user = req[claim[x]].user
    BY <1>2, NoneIsNoRequest DEF Inv, TypeOK, Moves
  <1>7. Holder = [x \in Threads |-> Holder[x]] /\ Holder' = [x \in Threads |-> Holder'[x]]
    BY DEF Holder
  <1>8. Firm = [x \in Threads |-> Firm[x]] /\ Firm' = [x \in Threads |-> Firm'[x]]
    BY DEF Firm
  <1>9. CASE claim[t] # r
    <2>1. owner' = owner
      <3>1. \A x \in Threads : owner'[x] = owner[x]
        BY <1>5, <1>9 DEF Commit, Rollback, Cancel
      <3>2. owner' = [x \in Threads |-> owner'[x]]
        BY DEF Commit, Rollback, Cancel, Inv, TypeOK
      <3>3. owner = [x \in Threads |-> owner[x]]  BY DEF Inv, TypeOK
      <3> QED  BY <3>1, <3>2, <3>3
    <2>2. \A x \in Threads : claim'[x] = claim[x]  BY <1>4, <1>5, <1>9
    <2>3. Holder' = Holder /\ Firm' = Firm  BY <1>6, <2>1, <2>2 DEF Holder, Firm
    <2> QED  BY <1>3, <2>3 DEF Access!Leave
  <1>10. CASE claim[t] = r /\ Commit(r)
    <2>1. \A x \in Threads : owner'[x] = IF x = t THEN req[r].user ELSE owner[x]
      BY <1>5, <1>10 DEF Commit
    <2>2. Holder[t] = req[r].user  BY <1>1, <1>10, HolderIs, NoneIsNoRequest
    <2>3. \A x \in Threads : Holder'[x] = Holder[x]
      BY <1>1, <1>4, <1>5, <1>6, <2>1, <2>2, NoneIsNoUser DEF Holder
    <2>4. \A x \in Threads : Firm'[x] = IF x = t THEN TRUE ELSE Firm[x]
      BY <1>1, <2>1, NoneIsNoUser DEF Firm
    <2>5. Holder' = Holder
      <3> HIDE DEF Holder
      <3> QED  BY <1>7, <2>3
    <2>6. Firm' = [Firm EXCEPT ![t] = TRUE]
      <3> HIDE DEF Firm
      <3> QED  BY <1>8, <2>4
    <2> QED  BY <1>1, <1>3, <2>2, <2>5, <2>6, NoneIsNoUser DEF Access!Confirm
  <1>11. CASE claim[t] = r /\ ~Commit(r)
    <2>1. owner' = owner  BY <1>11 DEF Rollback, Cancel
    <2>2. owner[t] = None /\ ~Firm[t] /\ Firm' = Firm
      BY <1>1, <1>5, <1>11, <2>1 DEF Firm
    <2>3. \A x \in Threads : Holder'[x] = IF x = t THEN None ELSE Holder[x]
      BY <1>1, <1>4, <1>5, <1>6, <1>11, <2>1, <2>2 DEF Holder
    <2>4. Holder' = [Holder EXCEPT ![t] = None]
      <3> HIDE DEF Holder
      <3> QED  BY <1>7, <2>3
    <2>5. Access!Without(Acting[t], r) = {}
      <3>1. ASSUME NEW q \in Requests, Admitted(q), req[q].thread = t  PROVE q = r
        BY <1>11, <2>2, <3>1, NoneIsNoUser DEF Inv, AdmittedIsBacked, Admitted, TypeOK
      <3> QED  BY <1>1, <3>1 DEF Acting, Access!Without
    <2>6. Acting' = [Acting EXCEPT ![t] = {}]
      <3> HIDE DEF Acting
      <3> QED  BY <1>3, <2>5
    <2> QED  BY <2>2, <2>4, <2>5, <2>6 DEF Access!Release
  <1> QED  BY <1>9, <1>10, <1>11

\* Ownership implements ThreadAccess: claims, admissions and the ends of
\* transactions are its steps, and everything else leaves it unchanged.
THEOREM Implements == Spec => ImplementsThreadAccess
  <1>1. ASSUME Init  PROVE Access!Init
    BY <1>1, NoneIsNoRequest DEF Init, Access!Init, Holder, Firm, Acting, Admitted, Idle
  <1>2. ASSUME Inv, [Next]_vars  PROVE [Access!Next]_Access!avars
    <2>1. CASE UNCHANGED vars
      BY <2>1 DEF vars, Access!avars, Holder, Firm, Acting, Admitted
    <2>2. ASSUME NEW r \in Requests, NEW u \in Users, NEW t \in Threads,
                 require_thread_owner(r, u, t)
          PROVE  UNCHANGED Access!avars
      BY <1>2, <2>2, ArriveStutters DEF Access!avars
    <2>3. ASSUME NEW r \in Requests, Step(r) \/ Cancel(r)
          PROVE  Access!Next \/ UNCHANGED Access!avars
      <3>1. req[r].thread \in Threads /\ req[r].user \in Users
        BY <1>2, <2>3 DEF Inv, TypeOK, Step, InsertClaim, SelectOwner, HandlerReturns,
                          HandlerRaises, Commit, Rollback, Cancel
      <3> DEFINE t == req[r].thread
                 u == req[r].user
      <3>2. \/ Access!Claim(t, u) \/ Access!Enter(r, t, u) \/ Access!Leave(r, t)
            \/ Access!Confirm(r, t) \/ Access!Release(r, t)
            \/ UNCHANGED <<Holder, Firm, Acting>>
        BY <1>2, <2>3, InsertSimulates, SelectSimulates, HandlerSimulates, CloseSimulates
           DEF Step
      <3> HIDE DEF t, u
      <3> QED  BY <3>1, <3>2 DEF Access!Next, Access!avars, t, u
    <2> QED  BY <1>2, <2>1, <2>2, <2>3 DEF Next
  <1> QED  BY <1>1, <1>2, InvInit, InvStep, PTL DEF Spec, ImplementsThreadAccess, Access!Spec
================================================================================
