-------------------------- MODULE MemoryStoreProofs --------------------------
(***************************************************************************)
(* Semantic memory for any number of requests, users and threads.  Each    *)
(* step of MemoryStore is a step of Ownership or leaves its variables      *)
(* alone, so the inductive invariant of Ownership carries over.  With what *)
(* a stored point rests on, and what the filter of a search under way was  *)
(* made of, it gives SearchStaysInside: the retriever of an admitted run   *)
(* also looks in the thread its own request has claimed, and that claim    *)
(* stands as long as the run does.  KeptMemoriesAreFound needs that what   *)
(* is due to a search is stored and inside its filter.                     *)
(***************************************************************************)
EXTENDS MemoryStore, OwnershipProofs

\* A step of MemoryStore, as Ownership sees it.
LEMMA StepIsOwnershipStep ==
    ASSUME [MemoryNext]_mvars
    PROVE  [Next]_vars
  <1>1. CASE UNCHANGED mvars  BY <1>1 DEF mvars, vars
  <1>2. ASSUME NEW r \in Requests, NEW u \in Users, NEW t \in Threads,
               remember_thread_fact(r, u, t) \/ OtherRoute(r, u, t)
        PROVE  Next
    BY <1>2 DEF remember_thread_fact, OtherRoute, Arrive, Next
  <1>3. ASSUME NEW r \in Requests, MemoryStep(r)  PROVE [Next]_vars
    <2>1. CASE ListCollections(r) \/ CreateCollection(r) \/ Upsert(r)
      BY <2>1 DEF ListCollections, CreateCollection, Upsert
    <2>5. CASE memory_retriever(r) \/ LookUp \/ query_points
      BY <2>5 DEF memory_retriever, Search, LookUp, query_points
    <2>2. CASE Leave(r)  BY <2>2 DEF Leave, Next, Step
    <2>3. CASE MemoryCommit(r)  BY <2>3 DEF MemoryCommit, Next, Step
    <2>4. CASE InsertClaim(r) \/ SelectOwner(r) \/ Rollback(r)
      BY <2>4 DEF Next, Step
    <2> QED  BY <1>3, <2>1, <2>2, <2>3, <2>4, <2>5 DEF MemoryStep
  <1>4. ASSUME NEW r \in Requests, MemoryCancel(r)  PROVE Next
    BY <1>4 DEF MemoryCancel, Next
  <1>5. ASSUME NEW u \in Users, search_memory(u)  PROVE UNCHANGED vars
    BY <1>5 DEF search_memory, Search
  <1>6. CASE LookUp \/ query_points
    BY <1>6 DEF LookUp, query_points
  <1> QED  BY <1>1, <1>2, <1>3, <1>4, <1>5, <1>6 DEF MemoryNext

\* remember and the retriever run inside the handlers Ownership speaks of.
LEMMA MemoryImplements == MemorySpec => Spec
  <1>1. MemoryInit => Init  BY DEF MemoryInit
  <1> QED  BY <1>1, StepIsOwnershipStep, PTL DEF MemorySpec, Spec

\* So a request that remembers keeps what ThreadAccess promises of a thread: the
\* refinements compose, the handlers' to Ownership and Ownership's to ThreadAccess.
THEOREM MemoryKeepsAccess == MemorySpec => ImplementsThreadAccess
  BY MemoryImplements, Implements

-----------------------------------------------------------------------------
\* What a request that stored a point rests on until it is closed, and what is
\* left of it afterwards.
Backing(p) == owner[req[p].thread] = req[p].user \/ claim[req[p].thread] = p

PointsAreBacked ==
    \A p \in points :
       /\ req[p].stage \in {"body", "answered", "raised", "closed"}
       /\ ~is_admin(req[p].user) /\ req[p].stage # "closed" => Backing(p)

KeptAreOwned ==
    \A p \in kept : /\ req[p].stage = "closed"
                    /\ ~is_admin(req[p].user) => owner[req[p].thread] = req[p].user

SearchIsFiltered ==
    /\ search.hits \subseteq points
    /\ search.by # None => /\ search.by \in Requests /\ req[search.by].stage = "body"
                           /\ req[search.by].user = search.user
    /\ ~is_admin(search.user) =>
          /\ \A t \in search.allowed :
                owner[t] = search.user \/ (search.by # None /\ claim[t] = search.by)
          /\ search.allowed # {} => search.user \in Users
          /\ \A p \in search.hits : req[p].thread \in search.allowed

MemInv == Inv /\ MemoryTypeOK /\ PointsAreBacked /\ KeptAreOwned /\ SearchIsFiltered

\* The requests with a point, and where they can be.
Stored == {"body", "answered", "raised", "closed"}

\* A request in its handler or past it keeps its user and thread, and what backs it
\* until it is closed: nobody else's commit, rollback or claim takes that away.
LEMMA RequestsGoOn ==
    ASSUME Inv, [Next]_vars, NEW p \in Requests, req[p].stage \in Stored
    PROVE  /\ req'[p].user = req[p].user /\ req'[p].thread = req[p].thread
           /\ req'[p].stage \in Stored
           /\ req[p].stage = "closed" => req'[p].stage = "closed"
           /\ Backing(p) /\ req'[p].stage # "closed" => Backing(p)'
  <1> USE NoneIsNoRequest, NoneIsNoUser DEF Stored
  <1> DEFINE t == req[p].thread
             Goal == /\ req'[p].user = req[p].user /\ req'[p].thread = t
                     /\ req'[p].stage \in Stored
                     /\ req[p].stage = "closed" => req'[p].stage = "closed"
                     /\ Backing(p) /\ req'[p].stage # "closed" => Backing(p)'
  <1>1. t \in Threads /\ req[p].user \in Users  BY DEF Inv, TypeOK
  <1>2. CASE UNCHANGED vars  BY <1>2 DEF vars, Backing
  <1>3. ASSUME NEW r \in Requests, NEW u \in Users, NEW x \in Threads,
               require_thread_owner(r, u, x)
        PROVE  Goal
    <2>1. req'[p] = req[p] /\ owner' = owner /\ claim' = claim
      BY <1>3 DEF require_thread_owner, Inv, TypeOK
    <2> QED  BY <2>1 DEF Backing
  <1>4. ASSUME NEW r \in Requests, InsertClaim(r)  PROVE Goal
    <2>1. req[r].stage = "insert" /\ req[r].thread \in Threads /\ owner' = owner
      BY <1>4 DEF InsertClaim, Inv, TypeOK
    <2>2. Moves(r, "select")
      BY <1>4, <2>1, GoToIsMove DEF InsertClaim, Inv, Stages
    <2>3. claim[t] = p => claim'[t] = p
      BY <1>1, <1>4, <2>1 DEF InsertClaim, InsertBlocked, ClaimAfterInsert, Inv, TypeOK
    <2> QED  BY <2>1, <2>2, <2>3 DEF Moves, Backing
  <1>5. ASSUME NEW r \in Requests, SelectOwner(r)  PROVE Goal
    <2>1. req[r].stage = "select" /\ owner' = owner /\ claim' = claim
      BY <1>5 DEF SelectOwner
    <2>2. PICK s \in {"body", "raised"} : Moves(r, s)
      BY <1>5, <2>1, GoToIsMove DEF SelectOwner, Inv, Stages
    <2> QED  BY <2>1, <2>2 DEF Moves, Backing
  <1>6. ASSUME NEW r \in Requests, HandlerReturns(r) \/ HandlerRaises(r)  PROVE Goal
    <2>1. req[r].stage = "body" /\ owner' = owner /\ claim' = claim
      BY <1>6 DEF HandlerReturns, HandlerRaises
    <2>2. PICK s \in {"answered", "raised"} : Moves(r, s)
      BY <1>6, <2>1, GoToIsMove DEF HandlerReturns, HandlerRaises, Inv, Stages
    <2> QED  BY <2>1, <2>2 DEF Moves, Backing
  <1>7. ASSUME NEW r \in Requests, Commit(r) \/ Rollback(r) \/ Cancel(r)  PROVE Goal
    <2>1. Moves(r, "closed")
      BY <1>7, GoToIsMove DEF Commit, Rollback, Cancel, Inv, Stages
    <2>2. claim[t] = p /\ r # p => claim'[t] = p
      BY <1>1, <1>7, DropClaimDrops DEF Commit, Rollback, Cancel, Inv
    <2>3. owner[t] = req[p].user => owner'[t] = req[p].user
      BY <1>1, OwnerStays
    <2> QED  BY <2>1, <2>2, <2>3 DEF Moves, Backing
  <1> QED
    BY <1>2, <1>3, <1>4, <1>5, <1>6, <1>7 DEF Next, Step

-----------------------------------------------------------------------------
(* The parts of MemInv, step by step.                                      *)

\* A search that begins, and one that is over.
LEMMA SearchType ==
    ASSUME MemoryTypeOK, NEW u \in Users, NEW by \in Requests \union {None}, Search(by, u)
    PROVE  search' \in SearchState
  <1>1. owned_thread_ids(by, u) \subseteq Threads  BY DEF owned_thread_ids
  <1>2. {p \in points \intersect kept : req[p].user = u} \subseteq Requests
    BY DEF MemoryTypeOK
  <1> QED  BY <1>1, <1>2 DEF Search, NoSearch, SearchState

LEMMA NoSearchType == NoSearch \in SearchState
  BY DEF NoSearch, SearchState

\* The memory's own variables stay well typed.
LEMMA MemoryTypeStep ==
    ASSUME Inv', MemoryTypeOK, [MemoryNext]_mvars
    PROVE  MemoryTypeOK'
  <1> USE DEF MemStages
  <1>1. TypeOK'  BY DEF Inv
  <1>2. CASE UNCHANGED mvars  BY <1>1, <1>2 DEF mvars, MemoryTypeOK
  <1>3. ASSUME NEW r \in Requests, NEW u \in Users, NEW t \in Threads,
               remember_thread_fact(r, u, t) \/ OtherRoute(r, u, t)
        PROVE  MemoryTypeOK'
    BY <1>1, <1>3 DEF remember_thread_fact, OtherRoute, Arrive, Await, MemoryTypeOK
  <1>6. CASE LookUp
    <2>1. search' \in SearchState
      BY <1>6 DEF LookUp, SearchState, MemoryTypeOK
    <2> QED  BY <1>1, <1>6, <2>1 DEF LookUp, MemoryTypeOK
  <1>7. CASE query_points
    <2>1. search \in SearchState /\ points \subseteq Requests  BY DEF MemoryTypeOK
    <2>2. PICK hits \in SUBSET Matches : search' = [search EXCEPT !.stage = "done", !.hits = hits]
      BY <1>7 DEF query_points
    <2>3. hits \subseteq Requests  BY <2>1 DEF Matches
    <2>4. search' \in SearchState
      BY <2>1, <2>2, <2>3 DEF SearchState
    <2> QED  BY <1>1, <1>7, <2>4 DEF query_points, MemoryTypeOK
  <1>4. ASSUME NEW r \in Requests, MemoryStep(r) \/ MemoryCancel(r)  PROVE MemoryTypeOK'
    <2>1. CASE memory_retriever(r)
      <3>1. req[r].user \in Users
        BY <2>1 DEF memory_retriever, InBody, MemoryTypeOK, TypeOK
      <3>2. search' \in SearchState
        BY <2>1, <3>1, SearchType DEF memory_retriever
      <3> QED
        BY <1>1, <2>1, <3>2 DEF memory_retriever, Search, Await, MemoryTypeOK
    <2>2. CASE Leave(r) \/ MemoryCancel(r)
      <3>1. search' \in SearchState
        BY <2>2, NoSearchType DEF Leave, MemoryCancel, EndSearch, MemoryTypeOK
      <3> QED
        BY <1>1, <2>2, <3>1 DEF Leave, MemoryCancel, Await, MemoryTypeOK
    <2>3. CASE LookUp \/ query_points
      BY <1>6, <1>7, <2>3
    <2>4. CASE (InsertClaim(r) \/ SelectOwner(r) \/ Rollback(r)) /\ UNCHANGED memory
      BY <1>1, <2>4 DEF memory, MemoryTypeOK
    <2>5. CASE ListCollections(r) \/ CreateCollection(r) \/ Upsert(r) \/ MemoryCommit(r)
      BY <1>1, <2>5 DEF ListCollections, CreateCollection, Upsert, MemoryCommit, Await, MemoryTypeOK
    <2> QED
      BY <1>4, <2>1, <2>2, <2>3, <2>4, <2>5 DEF MemoryStep
  <1>5. ASSUME NEW u \in Users, search_memory(u)  PROVE MemoryTypeOK'
    <2>1. search' \in SearchState
      BY <1>5, SearchType DEF search_memory
    <2> QED  BY <1>1, <1>5, <2>1 DEF search_memory, Search, MemoryTypeOK
  <1> QED  BY <1>2, <1>3, <1>4, <1>5, <1>6, <1>7 DEF MemoryNext

\* Which steps add a point, and that it is backed by whatever admitted its request.
LEMMA PointsStep ==
    ASSUME MemInv, [MemoryNext]_mvars
    PROVE  PointsAreBacked' /\ points \subseteq points'
  <1>1. Inv /\ [Next]_vars /\ points \subseteq Requests
    BY StepIsOwnershipStep DEF MemInv, MemoryTypeOK
  <1>2. CASE points' = points
    <2>1. PointsAreBacked  BY DEF MemInv
    <2> QED  BY <1>1, <1>2, <2>1, RequestsGoOn DEF PointsAreBacked, Stored, is_admin
  <1>3. ASSUME NEW r \in Requests, Upsert(r)
        PROVE  PointsAreBacked' /\ points \subseteq points'
    <2>1. req' = req /\ owner' = owner /\ claim' = claim /\ points' = points \union {r}
      BY <1>3 DEF Upsert, vars
    <2>2. req[r].stage = "body"  BY <1>3 DEF Upsert, InBody
    <2>3. ~is_admin(req[r].user) => Backing(r)
      BY <2>2 DEF MemInv, Inv, AdmittedIsBacked, Admitted, Backing
    <2> QED  BY <2>1, <2>2, <2>3 DEF MemInv, PointsAreBacked, Backing, is_admin
  <1> QED
    BY <1>2, <1>3 DEF MemoryNext, mvars, remember_thread_fact, OtherRoute, Arrive, MemoryStep,
       MemoryCancel, ListCollections, CreateCollection, Leave, MemoryCommit, memory,
       search_memory, memory_retriever, Search, LookUp, query_points

\* A request that commits owns its thread from then on.
LEMMA KeptStep ==
    ASSUME MemInv, [MemoryNext]_mvars
    PROVE  KeptAreOwned'
  <1>1. Inv /\ [Next]_vars /\ kept \subseteq Requests /\ KeptAreOwned
    BY StepIsOwnershipStep DEF MemInv, MemoryTypeOK
  <1>2. ASSUME NEW p \in kept
        PROVE  /\ req'[p].stage = "closed"
               /\ ~is_admin(req'[p].user) => owner'[req'[p].thread] = req'[p].user
    <2>1. req[p].stage = "closed" /\ p \in Requests
      BY <1>1, <1>2 DEF KeptAreOwned
    <2>2. req'[p].stage = "closed" /\ req'[p].user = req[p].user /\ req'[p].thread = req[p].thread
      BY <1>1, <2>1, RequestsGoOn DEF Stored
    <2>3. req[p].thread \in Threads /\ req[p].user # None
      BY <1>1, <2>1, NoneIsNoUser DEF Inv, TypeOK
    <2> QED  BY <1>1, <1>2, <2>2, <2>3, OwnerStays DEF KeptAreOwned, is_admin
  <1>3. CASE kept' = kept
    BY <1>2, <1>3 DEF KeptAreOwned
  <1>4. ASSUME NEW r \in Requests, MemoryCommit(r)  PROVE KeptAreOwned'
    <2>1. req[r].stage = "answered" /\ kept' = kept \union {r} /\ Commit(r)
      BY <1>4 DEF MemoryCommit, Commit
    <2>2. Moves(r, "closed")
      BY <1>1, <2>1, GoToIsMove DEF Commit, Inv, Stages
    <2>3. req[r].thread \in Threads /\ req[r].user \in Users
      BY <1>1, <2>1 DEF Inv, TypeOK
    <2>4. ~is_admin(req[r].user) => owner'[req[r].thread] = req[r].user
      BY <1>1, <2>1, <2>3 DEF Commit, Inv, AdmittedIsBacked, Admitted
    <2> QED  BY <1>2, <2>1, <2>2, <2>4 DEF KeptAreOwned, Moves, is_admin
  <1> QED
    BY <1>3, <1>4 DEF MemoryNext, mvars, remember_thread_fact, OtherRoute, Arrive, MemoryStep,
       MemoryCancel, ListCollections, CreateCollection, Upsert, Leave, memory,
       search_memory, memory_retriever, Search, LookUp, query_points

\* A search that goes on is the search of a handler that goes on.
LEMMA SearcherStays ==
    ASSUME MemInv, [MemoryNext]_mvars, search' = search, search.by # None
    PROVE  req'[search.by].stage = "body"
  <1> DEFINE b == search.by
  <1>0. Inv /\ TypeOK /\ b \in Requests /\ req[b].stage = "body"
    BY DEF MemInv, Inv, SearchIsFiltered
  <1> SUFFICES req'[b].stage = "body"
    OBVIOUS
  <1>1. CASE req' = req  BY <1>0, <1>1
  <1>2. ASSUME NEW r \in Requests, NEW u \in Users, NEW t \in Threads,
               require_thread_owner(r, u, t)
        PROVE  req'[b].stage = "body"
    <2>1. r # b  BY <1>0, <1>2 DEF require_thread_owner
    <2> QED  BY <1>0, <1>2, <2>1 DEF require_thread_owner, TypeOK
  <1>3. ASSUME NEW r \in Requests, NEW s \in Stages \ {"idle"}, GoTo(r, s), r # b,
               req[r].stage # "idle"
        PROVE  req'[b].stage = "body"
    BY <1>0, <1>3, GoToIsMove DEF Moves
  <1>4. ASSUME NEW r \in Requests, InsertClaim(r) \/ SelectOwner(r) \/ Rollback(r) \/ Commit(r)
        PROVE  req'[b].stage = "body"
    <2>1. /\ req[r].stage \in {"insert", "select", "raised", "answered"}
          /\ \E s \in {"select", "body", "raised", "closed"} : GoTo(r, s)
      BY <1>4 DEF InsertClaim, SelectOwner, Rollback, Commit
    <2> QED  BY <1>0, <1>3, <2>1 DEF Stages
  <1>5. ASSUME NEW r \in Requests, Leave(r) \/ MemoryCancel(r)
        PROVE  req'[b].stage = "body"
    <2>1. r # b
      <3> SUFFICES ASSUME r = b PROVE FALSE
        OBVIOUS
      <3>1. search' = NoSearch  BY <1>5 DEF Leave, MemoryCancel, EndSearch
      <3> QED  BY <3>1 DEF NoSearch
    <2>2. /\ req[r].stage \in {"insert", "select", "body"}
          /\ \E s \in {"answered", "raised", "closed"} : GoTo(r, s)
      BY <1>5 DEF Leave, MemoryCancel, HandlerReturns, HandlerRaises, Cancel
    <2> QED  BY <1>3, <2>1, <2>2 DEF Stages
  <1> HIDE DEF b
  <1> QED
    BY <1>1, <1>2, <1>4, <1>5 DEF MemoryNext, mvars, vars, remember_thread_fact, OtherRoute,
       Arrive, MemoryStep, ListCollections, CreateCollection, Upsert, MemoryCommit,
       search_memory, memory_retriever, Search, LookUp, query_points

\* A new search is filtered by what is owned and by the claim of its own session.
LEMMA SearchBegins ==
    ASSUME MemInv, NEW u \in Users, NEW by \in Requests \union {None}, Search(by, u),
           by # None => req[by].stage = "body" /\ req[by].user = u
    PROVE  SearchIsFiltered'
  <1>1. /\ search'.hits = {} /\ search'.user = u /\ search'.by = by
        /\ search'.allowed = IF is_admin(u) THEN Threads ELSE owned_thread_ids(by, u)
    BY DEF Search, NoSearch
  <1>2. req' = req /\ owner' = owner /\ claim' = claim  BY DEF Search, vars
  <1>3. \A t \in owned_thread_ids(by, u) : owner[t] = u \/ (by # None /\ claim[t] = by)
    BY DEF owned_thread_ids, VisibleOwner
  <1> QED  BY <1>1, <1>2, <1>3 DEF SearchIsFiltered, is_admin

\* The filter was right when it was made, and owners, points and the searching
\* request's claim stay.
LEMMA SearchStep ==
    ASSUME MemInv, [MemoryNext]_mvars
    PROVE  SearchIsFiltered'
  <1>1. /\ Inv /\ [Next]_vars /\ SearchIsFiltered
        /\ search \in SearchState /\ points \subseteq Requests
    BY StepIsOwnershipStep DEF MemInv, MemoryTypeOK
  <1>2. points \subseteq points'  BY PointsStep
  <1>3. \A p \in points : req'[p].thread = req[p].thread
    BY <1>1, RequestsGoOn DEF MemInv, PointsAreBacked, Stored
  <1>4. search.allowed \subseteq Threads  BY <1>1 DEF SearchState
  <1>5. CASE search' = search
    <2>1. ASSUME search.by # None
          PROVE  /\ search.by \in Requests /\ req'[search.by].stage = "body"
                 /\ req'[search.by].user = search.user
                 /\ \A t \in search.allowed : claim[t] = search.by =>
                       owner'[t] = search.user \/ claim'[t] = search.by
      <3>0. PICK b \in Requests : b = search.by
        BY <1>1, <2>1 DEF SearchIsFiltered
      <3>1. req[b].stage = "body" /\ req[b].user = search.user
        BY <1>1, <2>1, <3>0 DEF SearchIsFiltered
      <3>2. req'[b].stage = "body"  BY <1>5, <2>1, <3>0, SearcherStays
      <3>3. /\ req'[b].user = req[b].user /\ req'[b].thread = req[b].thread
            /\ Backing(b) /\ req'[b].stage # "closed" => Backing(b)'
        BY <1>1, <3>1, RequestsGoOn DEF Stored
      <3>4. ASSUME NEW t \in search.allowed, claim[t] = b
            PROVE  owner'[t] = search.user \/ claim'[t] = b
        <4>1. t = req[b].thread
          BY <1>1, <1>4, <2>1, <3>0, <3>4 DEF Inv, ClaimsAreOpen
        <4>2. owner'[req'[b].thread] = req'[b].user \/ claim'[req'[b].thread] = b
          BY <3>2, <3>3, <3>4, <4>1 DEF Backing
        <4> QED  BY <3>1, <3>3, <4>1, <4>2
      <3> QED  BY <3>0, <3>1, <3>2, <3>3, <3>4
    <2>2. \A t \in search.allowed : ~is_admin(search.user) /\ owner[t] = search.user =>
             owner'[t] = search.user
      BY <1>1, <1>4, OwnerStays, NoneIsNoUser DEF SearchIsFiltered
    <2> QED
      BY <1>1, <1>2, <1>3, <1>5, <2>1, <2>2 DEF SearchIsFiltered, is_admin
  <1>6. CASE search' = NoSearch
    BY <1>6 DEF SearchIsFiltered, NoSearch
  <1>7. ASSUME NEW u \in Users, search_memory(u)  PROVE SearchIsFiltered'
    BY <1>7, SearchBegins DEF search_memory
  <1>8. ASSUME NEW r \in Requests, memory_retriever(r)  PROVE SearchIsFiltered'
    <2>1. req[r].stage = "body" /\ req[r].user \in Users /\ Search(r, req[r].user)
      BY <1>1, <1>8 DEF memory_retriever, InBody, Inv, TypeOK
    <2> QED  BY <2>1, SearchBegins
  <1>9. CASE LookUp
    <2>1. /\ search'.hits = search.hits /\ search'.user = search.user
          /\ search'.allowed = search.allowed /\ search'.by = search.by
      BY <1>1, <1>9 DEF LookUp, SearchState
    <2>2. req' = req /\ owner' = owner /\ claim' = claim /\ points' = points
      BY <1>9 DEF LookUp, vars
    <2> QED  BY <1>1, <2>1, <2>2 DEF SearchIsFiltered, is_admin
  <1>10. CASE query_points
    <2>1. PICK hits \in SUBSET Matches : search' = [search EXCEPT !.stage = "done", !.hits = hits]
      BY <1>10 DEF query_points
    <2>2. search'.hits = hits /\ search'.user = search.user /\ search'.allowed = search.allowed
            /\ search'.by = search.by
      BY <1>1, <2>1 DEF SearchState
    <2>3. req' = req /\ owner' = owner /\ claim' = claim /\ points' = points
      BY <1>10 DEF query_points, vars
    <2>4. \A p \in hits : p \in points /\ req[p].thread \in search.allowed
      BY <2>1 DEF Matches
    <2> QED  BY <1>1, <2>2, <2>3, <2>4 DEF SearchIsFiltered, is_admin
  <1> QED
    BY <1>5, <1>6, <1>7, <1>8, <1>9, <1>10 DEF MemoryNext, mvars, remember_thread_fact, OtherRoute,
       Arrive, MemoryStep, MemoryCancel, ListCollections, CreateCollection, Upsert, Leave,
       EndSearch, MemoryCommit, memory

\* The invariant holds initially, and every step preserves it.
LEMMA MemInvInit ==
    ASSUME MemoryInit  PROVE MemInv
  <1>1. Inv  BY InvInit DEF MemoryInit
  <1>2. MemoryTypeOK
    BY <1>1 DEF MemoryInit, MemoryTypeOK, Inv, MemStages, NoSearch, SearchState
  <1>3. PointsAreBacked /\ KeptAreOwned /\ SearchIsFiltered
    BY DEF MemoryInit, PointsAreBacked, KeptAreOwned, SearchIsFiltered, NoSearch
  <1> QED  BY <1>1, <1>2, <1>3 DEF MemInv

LEMMA MemInvStep ==
    ASSUME MemInv, [MemoryNext]_mvars  PROVE MemInv'
  <1>1. Inv'  BY StepIsOwnershipStep, InvStep DEF MemInv
  <1>2. MemoryTypeOK'  BY <1>1, MemoryTypeStep DEF MemInv
  <1> QED  BY <1>1, <1>2, PointsStep, KeptStep, SearchStep DEF MemInv

\* Requests, points and searches stay well typed.
THEOREM MemoryTypeCorrect == MemorySpec => []MemoryTypeOK
  <1>1. MemInv => MemoryTypeOK  BY DEF MemInv
  <1> QED  BY MemInvInit, MemInvStep, <1>1, PTL DEF MemorySpec

\* A search shows a user only points of threads that are his, committed or claimed by
\* the searching request, and a stranger's point only if its request was closed
\* without a commit.
THEOREM SearchInside == MemorySpec => []SearchStaysInside
  <1>1. MemInv => SearchStaysInside
    <2> SUFFICES ASSUME MemInv, NEW p \in search.hits, ~is_admin(search.user)
                 PROVE  /\ \/ owner[req[p].thread] = search.user
                           \/ search.by # None /\ claim[req[p].thread] = search.by
                        /\ \/ req[p].user \in {search.user, DemoUser}
                           \/ req[p].stage = "closed" /\ p \notin kept
      BY DEF SearchStaysInside
    <2> DEFINE t == req[p].thread
    <2>1. p \in points /\ p \in Requests /\ req[p].stage \in Stored
      BY DEF MemInv, SearchIsFiltered, MemoryTypeOK, PointsAreBacked, Stored
    <2>2. /\ \/ owner[t] = search.user
             \/ search.by # None /\ claim[t] = search.by
          /\ search.user \in Users
      BY DEF MemInv, SearchIsFiltered
    <2>3. t \in Threads
      BY <2>1 DEF MemInv, Inv, TypeOK, Stored
    <2>4. claim[t] # None => owner[t] = None
      BY <2>3 DEF MemInv, Inv, ClaimsAreOpen
    <2>5. search.by # None => search.by \in Requests /\ req[search.by].user = search.user
      BY DEF MemInv, SearchIsFiltered
    <2>6. ASSUME req[p].user \notin {search.user, DemoUser}, req[p].stage # "closed"
          PROVE  FALSE
      <3>1. owner[t] = req[p].user \/ claim[t] = p
        BY <2>1, <2>6 DEF MemInv, PointsAreBacked, Backing, is_admin
      <3>2. req[p].user # None
        BY <2>1, NoneIsNoUser DEF MemInv, Inv, TypeOK, Stored
      <3> QED
        BY <2>1, <2>2, <2>4, <2>5, <2>6, <3>1, <3>2, NoneIsNoRequest, NoneIsNoUser
    <2>7. ASSUME req[p].user \notin {search.user, DemoUser}, p \in kept
          PROVE  FALSE
      <3>1. owner[t] = req[p].user
        BY <2>7 DEF MemInv, KeptAreOwned, is_admin
      <3>2. req[p].user # None
        BY <2>1, NoneIsNoUser DEF MemInv, Inv, TypeOK, Stored
      <3> QED  BY <2>2, <2>4, <2>5, <2>7, <3>1, <3>2
    <2> QED  BY <2>2, <2>6, <2>7
  <1> QED  BY MemInvInit, MemInvStep, <1>1, PTL DEF MemorySpec

-----------------------------------------------------------------------------
(* Searches find what was kept.                                            *)

\* No point without a collection, and no upsert before there is one.
CollectionIsThere == /\ points # {} => collection
                     /\ \A r \in Requests : mem[r] = "upsert" => collection

\* What a search under way owes its user is stored, in a thread its filter lets through.
DueIsInReach == search.stage \in {"list", "query"} =>
                   \A p \in search.due : p \in points /\ req[p].thread \in search.allowed

FindInv == MemInv /\ CollectionIsThere /\ DueIsInReach /\ KeptMemoriesAreFound

\* The collection is created before the first upsert and stays.
LEMMA CollectionStep ==
    ASSUME MemoryTypeOK, CollectionIsThere, [MemoryNext]_mvars
    PROVE  CollectionIsThere'
  <1> USE DEF CollectionIsThere
  <1>1. mem \in [Requests -> MemStages]  BY DEF MemoryTypeOK
  <1>2. CASE UNCHANGED <<collection, points, mem>>  BY <1>2
  <1>3. ASSUME NEW r \in Requests, NEW s \in {"list", "other", "retrieve"}, Await(r, s),
               UNCHANGED <<collection, points>>
        PROVE  CollectionIsThere'
    BY <1>1, <1>3 DEF Await
  <1>4. ASSUME NEW r \in Requests, ListCollections(r)  PROVE CollectionIsThere'
    BY <1>1, <1>4 DEF ListCollections, Await
  <1>5. ASSUME NEW r \in Requests, CreateCollection(r)  PROVE CollectionIsThere'
    BY <1>1, <1>5 DEF CreateCollection, Await
  <1>6. ASSUME NEW r \in Requests, Upsert(r)  PROVE CollectionIsThere'
    BY <1>1, <1>6 DEF Upsert, InBody, Await
  <1> HIDE DEF CollectionIsThere
  <1> QED
    BY <1>2, <1>3, <1>4, <1>5, <1>6 DEF MemoryNext, mvars, remember_thread_fact, OtherRoute,
       Arrive, MemoryStep, MemoryCancel, Leave, MemoryCommit, memory, search_memory,
       memory_retriever, Search, LookUp, query_points

\* A search begins with a filter that lets its user's kept points through, and ends
\* with them or with as many hits as it may show.
LEMMA FindStep ==
    ASSUME FindInv, [MemoryNext]_mvars
    PROVE  DueIsInReach' /\ KeptMemoriesAreFound'
  <1> DEFINE Goal == DueIsInReach' /\ KeptMemoriesAreFound'
  <1>1. /\ Inv /\ [Next]_vars /\ search \in SearchState /\ points \subseteq Requests
        /\ DueIsInReach /\ KeptMemoriesAreFound
    BY StepIsOwnershipStep DEF FindInv, MemInv, MemoryTypeOK
  <1>2. points \subseteq points'  BY PointsStep DEF FindInv
  <1>3. \A p \in points : req'[p].thread = req[p].thread
    BY <1>1, RequestsGoOn DEF FindInv, MemInv, PointsAreBacked, Stored
  <1>4. CASE search' = search
    BY <1>1, <1>2, <1>3, <1>4 DEF DueIsInReach, KeptMemoriesAreFound
  <1>8. CASE search' = NoSearch
    BY <1>8 DEF DueIsInReach, KeptMemoriesAreFound, NoSearch
  <1>5. ASSUME NEW u \in Users, NEW by \in Requests \union {None}, Search(by, u),
               by # None => req[by].user = u
        PROVE  Goal
    <2>1. /\ search'.stage = "list"
          /\ search'.due = {p \in points \intersect kept : req[p].user = u}
          /\ search'.allowed = IF is_admin(u) THEN Threads ELSE owned_thread_ids(by, u)
      BY <1>5 DEF Search, NoSearch
    <2>2. req' = req /\ points' = points  BY <1>5 DEF Search, vars
    <2>3. \A p \in points : req[p].thread \in Threads
      BY <1>1 DEF FindInv, MemInv, PointsAreBacked, Inv, TypeOK
    <2>4. \A p \in kept : ~is_admin(req[p].user) => owner[req[p].thread] = req[p].user
      BY DEF FindInv, MemInv, KeptAreOwned
    <2>5. \A t \in Threads : owner[t] = u => t \in owned_thread_ids(by, u)
      BY <1>5 DEF owned_thread_ids, VisibleOwner
    <2> QED
      BY <2>1, <2>2, <2>3, <2>4, <2>5 DEF DueIsInReach, KeptMemoriesAreFound
  <1>9. ASSUME NEW u \in Users, search_memory(u)  PROVE Goal
    BY <1>5, <1>9 DEF search_memory
  <1>10. ASSUME NEW r \in Requests, memory_retriever(r)  PROVE Goal
    <2>1. req[r].user \in Users /\ Search(r, req[r].user)
      BY <1>1, <1>10 DEF memory_retriever, InBody, Inv, TypeOK
    <2> QED  BY <1>5, <2>1
  <1>6. CASE LookUp
    <2>1. /\ search'.due = search.due /\ search'.allowed = search.allowed
          /\ search'.stage = IF NothingToFind THEN "done" ELSE "query"
      BY <1>1, <1>6 DEF LookUp, SearchState
    <2>2. req' = req /\ points' = points /\ search.stage = "list"
      BY <1>6 DEF LookUp, vars
    <2>3. NothingToFind => search.due = {}
      BY <1>1, <2>2 DEF NothingToFind, DueIsInReach, FindInv, CollectionIsThere
    <2> QED  BY <1>1, <2>1, <2>2, <2>3 DEF DueIsInReach, KeptMemoriesAreFound
  <1>7. CASE query_points
    <2>1. PICK hits \in SUBSET Matches :
             /\ hits # Matches => Cardinality(hits) = Limit
             /\ search' = [search EXCEPT !.stage = "done", !.hits = hits]
      BY <1>7 DEF query_points
    <2>2. search'.hits = hits /\ search'.due = search.due /\ search'.stage = "done"
      BY <1>1, <2>1 DEF SearchState
    <2>3. search.due \subseteq Matches
      BY <1>1, <1>7 DEF query_points, DueIsInReach, Matches
    <2> QED  BY <2>1, <2>2, <2>3 DEF DueIsInReach, KeptMemoriesAreFound
  <1> QED
    BY <1>4, <1>6, <1>7, <1>8, <1>9, <1>10 DEF MemoryNext, mvars, remember_thread_fact, OtherRoute,
       Arrive, MemoryStep, MemoryCancel, ListCollections, CreateCollection, Upsert, Leave,
       EndSearch, MemoryCommit, memory

\* What a request stored and committed is found by every later search of its user.
THEOREM KeptFound == MemorySpec => []KeptMemoriesAreFound
  <1>1. MemoryInit => FindInv
    <2> SUFFICES ASSUME MemoryInit  PROVE FindInv
      OBVIOUS
    <2>1. CollectionIsThere  BY DEF MemoryInit, CollectionIsThere
    <2>2. search.stage = "idle"  BY DEF MemoryInit, NoSearch
    <2>3. DueIsInReach /\ KeptMemoriesAreFound  BY <2>2 DEF DueIsInReach, KeptMemoriesAreFound
    <2> QED  BY <2>1, <2>3, MemInvInit DEF FindInv
  <1>2. FindInv /\ [MemoryNext]_mvars => FindInv'
    <2> SUFFICES ASSUME FindInv, [MemoryNext]_mvars  PROVE FindInv'
      OBVIOUS
    <2>1. MemInv /\ MemoryTypeOK /\ CollectionIsThere  BY DEF FindInv, MemInv
    <2>2. MemInv' /\ CollectionIsThere'  BY <2>1, MemInvStep, CollectionStep
    <2> QED  BY <2>2, FindStep DEF FindInv
  <1>3. FindInv => KeptMemoriesAreFound  BY DEF FindInv
  <1> QED  BY <1>1, <1>2, <1>3, PTL DEF MemorySpec
================================================================================
