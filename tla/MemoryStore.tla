------------------------------ MODULE MemoryStore ------------------------------
(***************************************************************************)
(* Semantic memory (app/memory/vector_store.py) behind the ownership of    *)
(* threads: POST .../memory/remember, GET /admin/memory/search and the     *)
(* same search in memory_retriever.  remember and the graph runs of /fork  *)
(* and /resume are the handlers of requests that require_thread_owner let  *)
(* in (module Ownership): the retriever of such a run reads ownership in   *)
(* the session that may have inserted the claim, the other searches (the   *)
(* route, /run, /ask) in sessions without one.  remember writes to Qdrant, *)
(* which is in no transaction: a claim that is rolled back leaves the      *)
(* point behind.  A point is named by the request that stored it, whose    *)
(* user and thread it carries.                                             *)
(***************************************************************************)
EXTENDS Ownership, FiniteSets

CONSTANT Limit          \* the caller's limit

ASSUME LimitAssumption == Limit \in Nat

VARIABLES
    collection,     \* does the Qdrant collection exist?
    points,         \* the stored points
    mem,            \* how far remember is in the body of each request
    kept,           \* history: the requests that committed
    search          \* a search, one after the other

mvars == <<owner, claim, req, collection, points, mem, kept, search>>
memory == <<collection, points, mem, kept, search>>

\* other: another route, or no handler is running; list, create, upsert: remember in
\* the await of that call; stored: its upsert took place; retrieve: the route runs the
\* graph, and the run has come to its memory_retriever.
MemStages == {"other", "list", "create", "upsert", "stored", "retrieve"}
SearchState == [stage : {"idle", "list", "query", "done"}, user : Users \union {None},
                by : Requests \union {None},   \* the request whose run searches, or None
                allowed : SUBSET Threads, hits : SUBSET Requests,
                due : SUBSET Requests]      \* history: the user's own, when it began
NoSearch == [stage |-> "idle", user |-> None, by |-> None, allowed |-> {}, hits |-> {}, due |-> {}]

MemoryTypeOK == /\ TypeOK
                /\ collection \in BOOLEAN
                /\ points \subseteq Requests /\ kept \subseteq Requests
                /\ mem \in [Requests -> MemStages]
                /\ search \in SearchState

MemoryInit == /\ Init
              /\ collection = FALSE /\ points = {} /\ kept = {}
              /\ mem = [r \in Requests |-> "other"]
              /\ search = NoSearch

InBody(r, stage) == req[r].stage = "body" /\ mem[r] = stage
Await(r, stage) == mem' = [mem EXCEPT ![r] = stage]

-----------------------------------------------------------------------------
(* The requests of Ownership, with remember as one of the handlers.        *)

\* A request for a thread, to remember or to another route.
Arrive(r, u, t, stage) == /\ require_thread_owner(r, u, t)
                          /\ Await(r, stage)
                          /\ UNCHANGED <<collection, points, kept, search>>

remember_thread_fact(r, u, t) == Arrive(r, u, t, "list")
OtherRoute(r, u, t) == Arrive(r, u, t, "other")

\* ensure_collection: get_collections().
ListCollections(r) == /\ InBody(r, "list")
                      /\ Await(r, IF collection THEN "upsert" ELSE "create")
                      /\ UNCHANGED <<vars, collection, points, kept, search>>

CreateCollection_Anew(r) == /\ InBody(r, "create")
                            /\ collection' = TRUE /\ points' = {}
                            /\ Await(r, "upsert")
                            /\ UNCHANGED <<vars, kept, search>>

\* create_collection() is refused when another request was faster.
CreateCollection(r) == /\ InBody(r, "create") /\ ~collection
                       /\ collection' = TRUE
                       /\ Await(r, "upsert")
                       /\ UNCHANGED <<vars, points, kept, search>>

Upsert_ByThread(r) == /\ InBody(r, "upsert")
                      /\ points' = points \union {req[r].thread}
                      /\ Await(r, "stored")
                      /\ UNCHANGED <<vars, collection, kept, search>>

\* A new uuid4() for every point.
Upsert(r) == /\ InBody(r, "upsert")
             /\ points' = points \union {r}
             /\ Await(r, "stored")
             /\ UNCHANGED <<vars, collection, kept, search>>

Searching(r) == search.by = r /\ search.stage \in {"list", "query"}
\* The search of a run is over with the run.
EndSearch(r) == search' = IF search.by = r THEN NoSearch ELSE search

\* The handler is over: returned, or an embedding, Qdrant or the route raised, also
\* after the point was stored.
Leave(r) == /\ \/ /\ HandlerReturns(r)
                  /\ mem[r] \in {"other", "stored", "retrieve"} /\ ~Searching(r)
               \/ HandlerRaises(r)
            /\ Await(r, "other") /\ EndSearch(r)
            /\ UNCHANGED <<collection, points, kept>>

MemoryCancel(r) == /\ Cancel(r)
                   /\ Await(r, "other") /\ EndSearch(r)
                   /\ UNCHANGED <<collection, points, kept>>

MemoryCommit(r) == /\ Commit(r)
                   /\ kept' = kept \union {r}
                   /\ UNCHANGED <<collection, points, mem, search>>

-----------------------------------------------------------------------------
(* A search: the owned threads, the collections, the query.                *)

\* What the SELECT of a session returns: the committed rows of the user, and in the
\* session of an admitted request also the row it inserted itself.
owned_thread_ids(by, u) ==
    {t \in Threads : (IF by = None THEN owner[t] ELSE VisibleOwner(by, t)) = u}

\* The admin's search carries no filter.
Search(by, u) ==
    /\ search.stage \in {"idle", "done"}
    /\ search' = [NoSearch EXCEPT !.stage = "list", !.user = u, !.by = by,
                     !.allowed = IF is_admin(u) THEN Threads ELSE owned_thread_ids(by, u),
                     !.due = {p \in points \intersect kept : req[p].user = u}]
    /\ UNCHANGED <<vars, collection, points, kept>>

\* The route, and the retriever of a run that no claim goes with (/run, /ask).
search_memory(u) == Search(None, u) /\ UNCHANGED mem

\* The retriever of /fork and /resume, once per run; a resumed run may be past it.
memory_retriever(r) == /\ InBody(r, "other")
                       /\ Search(r, req[r].user)
                       /\ Await(r, "retrieve")

NothingToFind == ~collection \/ search.allowed = {}

\* [] without a collection, and [] without a thread to look in.
LookUp == /\ search.stage = "list"
          /\ search' = [search EXCEPT !.stage = IF NothingToFind THEN "done" ELSE "query"]
          /\ UNCHANGED <<vars, collection, points, mem, kept>>

Matches_AnyThread == points

Matches == {p \in points : req[p].thread \in search.allowed}

\* The Limit nearest of the matching points, whichever they are.
query_points ==
    /\ search.stage = "query"
    /\ \E hits \in SUBSET Matches :
          /\ Cardinality(hits) <= Limit
          /\ hits # Matches => Cardinality(hits) = Limit
          /\ search' = [search EXCEPT !.stage = "done", !.hits = hits]
    /\ UNCHANGED <<vars, collection, points, mem, kept>>

MemoryStep(r) == \/ (InsertClaim(r) \/ SelectOwner(r) \/ Rollback(r)) /\ UNCHANGED memory
                 \/ ListCollections(r) \/ CreateCollection(r) \/ Upsert(r)
                 \/ memory_retriever(r) \/ (search.by = r /\ (LookUp \/ query_points))
                 \/ Leave(r) \/ MemoryCommit(r)

MemoryNext ==
    \/ \E r \in Requests :
          \/ \E u \in Users, t \in Threads : remember_thread_fact(r, u, t) \/ OtherRoute(r, u, t)
          \/ MemoryStep(r) \/ MemoryCancel(r)
    \/ \E u \in Users : search_memory(u)
    \/ search.by = None /\ (LookUp \/ query_points)

MemorySpec == MemoryInit /\ [][MemoryNext]_mvars

\* As in Ownership: every await of a request resumes.
MemoryFairSpec == MemorySpec /\ \A r \in Requests : WF_mvars(MemoryStep(r))
-----------------------------------------------------------------------------
(***************************************************************************)
(* A user other than the admin is shown points of threads that are his:    *)
(* committed, or claimed by the request whose run searches, as long as its *)
(* handler runs.  Somebody else's point is among them only if the admin    *)
(* stored it or if its request lost its claim after storing it.            *)
(***************************************************************************)
SearchStaysInside ==
    \A p \in search.hits : ~is_admin(search.user) =>
       /\ \/ owner[req[p].thread] = search.user
          \/ search.by # None /\ claim[req[p].thread] = search.by
       /\ \/ req[p].user \in {search.user, DemoUser}
          \/ req[p].stage = "closed" /\ p \notin kept

(***************************************************************************)
(* What a request stored and committed is found by every later search of   *)
(* its user, unless the limit is used up: no later remember, creation of   *)
(* the collection or change of ownership hides it.                         *)
(***************************************************************************)
KeptMemoriesAreFound ==
    search.stage = "done" => search.due \subseteq search.hits \/ Cardinality(search.hits) = Limit

(***************************************************************************)
(* "Cosine-similarity search across the caller's own remembered facts"     *)
(* (README.md:103, of the route): nobody is shown what another user, the   *)
(* admin excepted, asked to remember.  A remember that is answered with an *)
(* error or is cancelled after its upsert gives the thread back but not    *)
(* the point: the next owner of the thread finds it.                       *)
(***************************************************************************)
SearchShowsOwnFacts ==
    \A p \in search.hits :
       search.by = None /\ ~is_admin(search.user) => req[p].user \in {search.user, DemoUser}
================================================================================
