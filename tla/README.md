# Formal verification of the agentic-enterprise platform

TLA+ models of the agent platform in `src/`: what its requests do to a conversation thread, who may
touch a thread and what is remembered of it, how its tools (finance, files, sandboxed code) act and leave
their audit rows, how connections, checkpoints and processes come and go. TLC checks the models on small
instances. TLAPS proves every invariant and every refinement of the passing runs for all values of the
constants; the liveness properties are checked by TLC only.

`PROJECT.json` is the index: components, runs, the mutant that shows each property can fail, the map
from definitions to source lines, findings, hazards and theorems.

## 1. The system

| Component | Source | State it keeps | Operations |
|---|---|---|---|
| Main graph | `app/graph/engine.py` | `GraphState`: messages, route, revision count, critique, retrieved context, tool result, analysis, log | router, memory retriever, then one of: agent/tools loop, billing, general/critic loop, metrics and report |
| Runs on a thread | `app/api/v1/endpoints.py`, `app/main.py` | checkpoints of a `thread_id`, one per super-step | `/run`, `/run/stream`, `/ask`, `/analyze`, `/test/smoke` |
| Thread history | `app/graph/history.py`, `endpoints.py` | the same checkpoints, as a tree | fork, resume, edit; timeline and branches only read |
| Thread ownership | `app/graph/ownership.py`, `database.py`, `auth.py` | `thread_ownership` rows inside the request's transaction | claim-or-check, commit, rollback |
| Finance tool | `app/mcp/finance_server.py`, `app/mcp/oauth.py`, `internal_api/finance_api.py` | cached token and lock; tokens the API has issued; audit rows | token fetch, refresh, balance GET with one retry, audit |
| Execution records and connection pool | `endpoints.py`, `models.py`, `database.py` | `AgentExecution` rows, pooled connections | written by `/run` and `/run/stream`; taken by each session |
| Retention | `app/graph/gc.py`, `main.py`, `endpoints.py` | none of its own | a background task and `/admin/gc` delete the checkpoints of stale threads |
| Builders and lifespan | `engine.py`, `research.py`, `tools.py`, `main.py` | module-level singletons | start, build once, attach a checkpointer, shut down |
| Research graph | `app/graph/research.py` | its own threads | `/research`: agent/tools loop, report |
| Semantic memory | `app/memory/vector_store.py` | a Qdrant collection | ensure collection, remember, search |
| Code sandbox | `app/tools/code_executor.py` | audit rows | run a container, audit it |
| Filesystem server | `app/mcp/fs_server.py`, `paths.py` | files under a root, audit rows | read, write, list |
| Response cache | `endpoints.py`, `main.py` | Redis entries | `/ask` answers kept for 300 s |
| The rest | risk server, authentication, rate limit, logging, health, schemas, configuration, migrations | – | – |

**How they interact.** Each HTTP request is a coroutine of one event loop. It gets a database session
from `get_db`, which commits after the route returned and rolls back when it raised. A route that runs
the graph hands the session to it in the context (`/analyze` and `/test/smoke` do not). The graph reads
the thread's newest checkpoint, writes the input on top of it, and then writes one checkpoint per node.
Requests on the same thread share nothing but that store: no lock serialises them. The admin routes pass
through `require_thread_owner` first. The `tools` node calls MCP servers, which are processes of their
own; the finance server calls the finance API over HTTP. Sandboxed code runs in a worker thread of the
application and is audited in a session of its own. What a request remembers goes to Qdrant, outside its
transaction.

**What is hard here.** State that outlives the turn it was written for (every channel but `messages`
survives in the checkpoint). Requests that interleave on one thread, among them a resume of a run that is
still going. A run that stops between two nodes and is resumed, forked or edited. A loop that only a
counter, or only the recursion limit, ends. A claim that is visible to nobody until its request commits.
A token that expires, or is forgotten by a restarted API, while a call that carries it is under way.
Effects that precede their audit row or the commit of the claim they rest on. Runs that hold a connection
while their tools wait for one. A sweep that deletes what it selected earlier. Singletons that the first
requests race to build. Files two calls write at once, by paths with links in them.
`PROJECT.json` lists each of these as a hazard at its line.

## 2. Modules

| Module | Models | Role |
|---|---|---|
| `AgentGraph` | the main graph as data: `GraphState`, reducers, nodes, edges | operators only |
| `CheckpointedRuns` | one thread's checkpoint store and all requests on it | specification; executes `AgentGraph` |
| `Ownership` | `claim_or_check` within `get_db`'s transaction | specification |
| `ThreadAccess` | what ownership promises, without transactions | abstract specification |
| `MemoryStore` | semantic memory, in and beside the handlers of `Ownership` | composition: extends `Ownership` |
| `FinanceLookup` | the lookup tool, its token cache and the finance API | specification, composing the three |
| `FileTools` | the filesystem server, path resolution included | specification |
| `RunRecords` | `/run` as a user of the database: row, pool, sandbox, audit | specification |
| `AuditTrail` | what every audited tool promises | abstract specification of the last three |
| `Retention` | the sweep, its task and `/admin/gc` | specification |
| `Application` | lifespan, builders, tool list, research graph | specification |
| `CheckpointedRunsProofs`, `OwnershipProofs`, `MemoryStoreProofs`, `FinanceLookupProofs`, `FileToolsProofs`, `RunRecordsProofs`, `RetentionProofs`, `ApplicationProofs` | | theorems |
| `MC…` | | instances for TLC |

### AgentGraph and CheckpointedRuns

`store` is the sequence of checkpoints of one `thread_id`. The index of a checkpoint stands for its id,
which is time ordered; each has its parent, the graph state, the node that is next and how it came about.
`run` gives, for each request, its route and user, the checkpoint it stands on, the super-steps it has
used and its answer.

| Actions | Code |
|---|---|
| `run_agent`, `run_agent_stream`, `ask`, `analyze_investment`, `run_smoke_test`, then `Input` | an `ainvoke` or `astream`: load the newest checkpoint, later write the input onto it |
| `fork_thread`, then `Input` | the same from a chosen checkpoint |
| `resume_thread`, then `ResumeInvoke` | test `is_interrupted`, later `ainvoke(None)` on what is newest by then |
| `edit_thread_checkpoint` | `aupdate_state` on a past checkpoint, as if a node had run |
| `Router` … `FormatReport` | one super-step: the pending node runs, its result becomes a child checkpoint |
| `NodeFails`, `MemoryRetrieverLacksDb`, `OutOfSteps`, `Finish`, `Cancel` | the ways an invocation ends |

Loading and writing are two steps because an await lies between them; that is where two requests cross.
A process crash is `Cancel` of all requests that are active. A crash that loses the last checkpoint is a
crash one step earlier, so it needs no action of its own.

Abstractions. A message is its type, the set of word classes it contains (the three keyword families
`route_request` looks for, and "detail" for a text the critic accepts) and whether it asks for a tool.
Retrieved context is represented by the position of the message it was made for. Metrics, and the analysis
made from them, are represented by two positions: the question of the turn they were fetched in, and the
user message their ticker comes from. These differ, because `fetch_market_metrics` gives the model the
whole transcript (`engine.py:322`): `Tickers` is every user message of the thread, and the model may pick
any. Log lines keep their node, attempt and verdict, which is what
`merge_logs` tells apart. `question`, `edited` and `mine` are history: no action's guard reads them.
LangGraph's checkpointing, `tools_condition` and `add_messages` are external and modelled from their use.
So is its recursion limit. It is looked at before the next tasks are, so a run that would be over after
exactly so many nodes raises as well (`OutOfSteps`, whose guard does not ask what is next). Two of the
steps go to the input, so a resume, which has none, gets two more nodes than the other routes (`StepLimit`,
where `RecursionLimit` stands for the nodes an invocation with an input gets).

### Ownership and ThreadAccess

`owner` holds the committed rows, `claim` the request whose uncommitted row holds a thread, `req` the
stage of each request. `InsertClaim` is `INSERT … ON CONFLICT DO NOTHING`: it waits for another
transaction's uncommitted row, and does nothing when a committed one exists. `SelectOwner` sees committed
rows and the request's own. `HandlerReturns` and `HandlerRaises` are the route; `Commit`, `Rollback` and
`Cancel` are the three ways out of `get_db` (`answered` may also end in `Rollback`: the commit can fail).

`ThreadAccess` has no rows or transactions: a thread has at most one holder, only the holder's requests
act, a holder is let go only when nobody relies on it, and never once it is firm. The refinement mapping
takes the holder to be the committed owner, or else the user of the open claim; who acts is recorded with
the user it acts for, so admitting anybody but the holder is no step of `ThreadAccess`.

### FinanceLookup

Each lookup is a coroutine whose stage names the await it is in. `now` is one clock (the code uses
`time.time()` on both sides; a skew between hosts is not modelled). A granted token's answer takes at
most `FetchDelay` and a GET reaches the API within `CallDelay`; these stand for the two 10 s httpx
timeouts. (httpx applies a timeout to each connect, read and write; the model takes it for the whole
exchange. Two exchanges of three such phases each still fit the 60 s margin.) The API keeps its tokens in
memory, so `Restart` forgets them. Nothing awaits between `value()` and the start of the GET, nor between
a 401, `force_refresh()` and the next `value()`, so each of these is one step.

A lookup counts as done once `_call_api` is over, and as told once the tool returned: with these
`FinanceLookup` implements `AuditTrail`.

### MemoryStore

`MemoryStore` extends `Ownership`: `remember_thread_fact` is a request that `require_thread_owner` admits,
and `ListCollections`, `CreateCollection` and `Upsert` are the awaits in its handler; `OtherRoute` is any
of the other admin routes. `Leave` is the handler's end (also by an exception after the upsert), after
which `Ownership`'s `Commit`, `Rollback` and `Cancel` decide about the claim while the point stays in
Qdrant. A search reads the owned threads, then the collections, then queries; whichever points are nearest
is a free choice. `by` says in whose session the owners are read. `/admin/memory/search` and the retriever
of `/run`, `/run/stream` and `/ask` insert no claim and see committed rows (`search_memory`). The retriever
of `/fork` and `/resume` (`memory_retriever`) runs inside the request that `require_thread_owner` admitted,
in its session, and so also sees the row that request has inserted and not committed
(`owned_thread_ids(by, u)`); that search is over with the handler it runs in. Points are named by the
request that stored them: that gives a new name to each point, as `uuid4` does.

### FileTools

A location is a sequence of names from the top of the disk. A link leads to the location it finally
reaches, links to links followed. `resolve` walks a path name by name, following
links, as `Path.resolve` does; `Opened` is what the operating system reaches when it is given the result;
`resolve_in_root` is the check in between. `existed` is read before the thread is started; the thread
opens (and so empties) the file and then writes it. A cancellation reaches the coroutine when the thread
is done. A read may raise on a file that is there (it is not UTF-8, or it is a directory). A listing has the
location it read the names of, so the jail covers it too. The links are fixed, since no tool makes one.

### RunRecords

A request is at one await of `run_agent` or `run_agent_stream`. `conns` are the pool's connections that are
lent: the request's own, taken by its first statement and kept until `get_db` closes, and the one of the
sandbox's audit. `box` is the container, run by a thread that goes on when nobody awaits it: `ContainerEnds`
and the `finally` clause's `Remove` need no request. What the graph answers is left to `CheckpointedRuns`;
here a run finishes, runs out of steps, fails, loses its client or is cancelled, and what `get_db` makes
of each is the point. The status is changed only where the code changes it: an exception other than
`AgenticException` leaves `"running"`.

### AuditTrail

Three sets: what was done, what has a committed row, and whose success was reported. A row follows its
deed and a report comes with or after its row; a deed without a row is allowed, because the code audits
after the fact and a failed commit or a cancellation leaves no row.

### Retention

`ckpts` holds the times of each thread's checkpoints; `sweeps` are the background task and one request.
`find_stale_threads` is the query, `adelete_thread` one delete of its result, `Fail` an exception in
either (which ends that sweep, not the task), `Restart` a shutdown that cancels the task wherever it is.
The deployment's interval is chosen at the start among a positive, a zero and a negative one.

### Application

`life`, `main`, `research`, `cache`, `lock` are the process's globals; `Exit` forgets them. The lifespan
builds the main graph with the `InMemorySaver`, and only later gives it the Postgres saver (`Connect`).
`build_research_workflow` tests `_research_app`, awaits its tool list and then adds the node and compiles
without another await. `get_tools` is guarded by `_tools_lock`. The research loop is one super-step per
node under its own limit, and a report written by the last step the limit allows is answered with the
recursion error all the same (`AfterReport`); a transcript is abstracted to whether it ends in tool calls that have no answer
(`open`) or has a question between calls and answers (`broken`).

## 3. Runs

Where each request, lookup or file call is served once and all may have ended, the run says
`CHECK_DEADLOCK FALSE`. `retention`, `memory` and the violations of their modules check for deadlock too.

### Runs that pass

| Run | Instance | What it shows |
|---|---|---|
| `turns` | 2 requests in turn: run, smoke, analyze, fork, resume; one text per graph route, 2 revisions, limit of 7 steps | `WorkersUseThisTurnsData`, `FinishedTurnsAreAnswered`, `AttemptsAreLogged`, `DraftsWithinLimit`, `AnalysesKeepTheirTicker`, however the first turn was interrupted and the second started; `EveryRunStops` under fairness |
| `overlap` | 2 requests at once: stream, analyze, fork, resume; 1 revision, limit 5 | `RunsKeepTheirOwnTurn` for every interleaving of two runs |
| `edits` | 2 requests in turn (ask, resume) and one edit of any checkpoint as any node; 1 revision, limit 5 | `OnlyToolLoopsRunOut` also from states no run produces |
| `memory` | 2 requests, remembering or not, and searches by the route and by their own runs; 2 users and the admin, 2 threads, limit 1 | `AdmittedIsBacked`, `EveryRequestCloses`, that the requests implement `ThreadAccess`; `SearchStaysInside`, `KeptMemoriesAreFound` |
| `tokens` | 2 lookups, 4 tokens, 2 restarts, clock to 4, token life 3, margin 2, delays 1 | `TokensOutliveTheirCalls`, `RetriesUseNewerTokens`, `OneFetchAtATime`, `EveryLookupEnds`, and that it implements `AuditTrail` |
| `files` | 3 calls over 7 paths to 5 locations, one link that stays inside and one that leaves | `JailHolds`, `CreatorsAreRecorded`, and that it implements `AuditTrail` |
| `records` | 2 runs, streamed or not, of the admin or not, each with at most one sandbox call, pool of 2 | `RowsTellTheOutcome`, `ConnectionsComeBack`, `EveryRequestCloses`, `ContainersAreRemoved`, and that it implements `AuditTrail` |
| `retention` | 2 threads, clock to 3, retention 1, 2 faults, interval positive, zero or negative | `FreshCheckpointsSurvive`, `AbandonedThreadsGo` |
| `application` | 2 requests, main or research on one thread_id, 2 processes, 2 versions of the tools, limit of 4 steps | `AnsweredRunsAreDurable`, `OneToolList`, `TranscriptsCanGoOn`, `EveryRequestEnds` |

One run of each specification checks its type invariant too.

**Why the bounds are enough.** What passes between turns does so through one checkpoint, so two turns
show all of it; a resume or a fork takes the place of the second. Two drafts tell "first", "within the
limit" and "at the limit" apart. The seven routes differ in what the graph sees of them by their thread, their
session, their user and their checkpoint; `run`, `stream` and `ask` do not differ at all in this model, so
each of the three runs has one of them. `RecursionLimit` is `3 + 2 * RevisionLimit`, the least that
`RecursionLimitAssumption` allows and so the hardest case; the code runs with 25 against 8. A claimer and
one waiting behind it are two requests; one that arrives after the commit is the same second request a
step later; for any number the theorems hold. Two lookups suffice for a fetch that is under way when a 401
arrives and for a waiter whose lock holder fails; the clock outlasts one token. Three file calls are a
writer that fails and two that race. Two connections are what two non-admin runs hold when both their
audits wait for a third: the circle of waiting is reached. A clock of 3 and a retention of 1 let a thread
go stale, be swept, be continued and go stale again. Two requests race for each singleton; two processes
are one before and one after a restart; a limit of 4 lets the research loop go round once and be stopped
in the second round. For the invariants and the refinements the theorems of section 4 remove these bounds.

**Fairness.** Weak fairness of `Serve(r)`, `Step(r)`, `MemoryStep(r)` and `Proceed(c)`: a coroutine that
can go on eventually does. The event loop gives that, provided every await ends. HTTP calls have
timeouts, a model call ends in a result or an exception, the pool gives up after its timeout, and the
loops of the graphs end by their recursion limits, which are in the models and not assumed. `RunContainer`
is fair because it is a thread and the container has a timeout of 10 s. In `Retention` the task's wake-up
and the steps of a sweep are fair: `asyncio.sleep` ends and the database answers or raises, raising being
bounded by `MaxFaults`. Arrivals, cancellations, edits, restarts, deployments, lost clients and clocks have
no fairness.

### Runs that find a violation

Each checks one statement of the repository that the code does not keep.

| Run | Statement | What the code does |
|---|---|---|
| `stub_shipped` | `docs/graph-core.md`: the limit forces a `PASS` once attempts run out | `revision_count` is not reset between turns, so a later turn passes its first stub |
| `revived_thread` | `gc.py:1`: threads whose newest checkpoint is past the cutoff are dropped | a thread continued between the query and its delete is dropped with its new turn |
| `foreign_memory` | `README.md:103`: search across the caller's own remembered facts | the fact of a request that lost its claim after the upsert is found by the thread's next owner |

### Divergences without a run of their own

The models reach these too; they are recorded here because their cause is that of a run above or the
trace is a few steps.

- `engine.py:73` says `critique` is `""` on the first pass. It is what the previous turn left (as in
  `stub_shipped`).
- `endpoints.py:250` says a user's `/ask` calls share one conversation. Of two that overlap, the newest
  checkpoint holds only one (the `overlap` run has these behaviours).
- `history.py:95` says a checkpoint with several children is a fork or edit point. Overlapping runs, or a
  resume of a run that is still going, branch as well.
- `endpoints.py:272` says nothing in an `/analyze` run needs the database session. `memory_retriever`
  does, for everyone but the admin (`MemoryRetrieverLacksDb`).
- `endpoints.py:270` promises an analysis. `route_request` tests the technical keywords first, so
  "Analyze ServiceNow" leaves the investment route and `result["analysis"]` raises `KeyError`.
- `endpoints.py:404` answers a resumed run with a username where the response model has a UUID: the run
  finishes and is saved, and the caller gets an error (`README.md:98`: "Finish an interrupted run").
- `ownership.py:4` says the first caller becomes the owner. Not if its request ends in an error: `get_db`
  rolls the claim back.
- `README.md:91` speaks of an `AgentExecution` row for every `/run`. The one of a run that fails is rolled
  back by the exception that reports it, `status = "failed"` included (`endpoints.py:208`); that of a
  stream whose client left stays `"running"`.
- `oauth.py:5` says `force_refresh` discards the token that was rejected. It clears whatever is cached,
  also a fresh token.
- `finance_server.py:8` says every lookup is an audit row, and `README.md:169` that every read and write is
  logged. One whose audit fails to commit, or that is cancelled, leaves none (`AuditFails`, `Cancel`).
- `docs/graph-core.md:335-338` says that `build_research_workflow()`, like the main graph's builder, guards the
  build "with an `asyncio.Lock` so two concurrent first callers don't race". `research.py:81` has no lock
  (`engine.py:486` has one). Of two first `/research` calls that build the graph together, one fails:
  `add_node` refuses the second `tools` node with a `ValueError`. Later calls are served. In `Application`
  both reach `load`, one takes `CompileResearch`, and for the other only `Raises` is left.
- `docs/graph-core.md:18-22` and `README.md:48-51` say that both graphs persist their state in Postgres, so that a
  thread of either can be resumed after a restart. The research graph is compiled with the module's
  `InMemorySaver` (`research.py:85`), which the lifespan replaces for the main graph only (`main.py:80`):
  its threads end with the process (`Exit` forgets `thread`), and `AnsweredRunsAreDurable` is stated for
  main runs only.
- `endpoints.py:278-286` and `docs/graph-core.md:353` tell of `/analyze` that on a shared thread an earlier ticker
  can win, because `fetch_market_metrics` hands the model the whole history (`engine.py:322`); they draw the
  consequence for `/analyze`, which gets a thread of its own (`AnalysesKeepTheirTicker`). A `/run`,
  `/run/stream`, `/ask` or `/fork` takes the same route on a shared thread, where metrics and analysis may be
  about an earlier question's ticker. No property excludes that.
- A `/run` whose task goes down the investment route adds no message, so `result["messages"][-1]`
  (`endpoints.py:204`) is the user's own question, and is returned as the output. The analysis is in the
  checkpoint only. `FinishedTurnsAreAnswered` counts that turn as answered, by its analysis.
- `paths.py:18` says `resolve_in_root` "Rejects absolute paths". It accepts one that resolves to a place under the
  root, since `ROOT / path` is then the absolute path itself (one of the paths of `files` is such a path).

## 4. Proofs

Proved with TLAPS for all values of the constants that satisfy the named assumptions.

| Theorem | Statement |
|---|---|
| `TypeCorrect` | `CheckpointedRuns` keeps its types, and no request stands on a missing checkpoint |
| `RevisionCap` | `DraftsWithinLimit` |
| `FreshData` | `WorkersUseThisTurnsData` |
| `TickerKept` | `AnalysesKeepTheirTicker` |
| `Answered` | `FinishedTurnsAreAnswered` |
| `AttemptsLogged`, `OwnTurn`, `ToolLoopsOnly` | `AttemptsAreLogged`, `RunsKeepTheirOwnTurn`, `OnlyToolLoopsRunOut` |
| `OnlyAdvance` | `[][RequestsOnlyAdvance]_vars`: an accepted request takes at most `RecursionLimit + 4` steps and then stays as it ended |
| `OwnershipTypeCorrect`, `Backed`, `OneUser`, `Forever` | `TypeOK`, `AdmittedIsBacked`; two users are never inside one thread (`OneUserPerThread`); a committed owner stays (`OwnersAreForever`) |
| `Implements` | `Ownership` implements `ThreadAccess` |
| `MemoryKeepsAccess` | `MemoryStore` implements `ThreadAccess` |
| `MemoryTypeCorrect`, `SearchInside`, `KeptFound` | `MemoryTypeOK`, `SearchStaysInside`, `KeptMemoriesAreFound` |
| `LookupTypeCorrect`, `MarginSuffices`, `RetryIsNewer`, `SingleFetch` | `TypeOK`, `TokensOutliveTheirCalls`, `RetriesUseNewerTokens`, `OneFetchAtATime` |
| `LookupsAudited`, `FilesAudited`, `SandboxAudited` | `FinanceLookup`, `FileTools` and `RunRecords` implement `AuditTrail` |
| `FilesTypeCorrect`, `JailProved`, `CreatorsRecorded` | `TypeOK`, `JailHolds`, `CreatorsAreRecorded`, for any tree, any links and paths of any length |
| `RecordsTypeCorrect`, `RowsAgree`, `ConnectionsReturn` | `TypeOK`, `RowsTellTheOutcome`, `ConnectionsComeBack`, for any pool |
| `RetentionTypeCorrect`, `FreshSurvive` | `TypeOK`, `FreshCheckpointsSurvive` |
| `ApplicationTypeCorrect`, `AnswersAreDurable`, `OneList`, `TranscriptsGoOn` | `TypeOK`, `AnsweredRunsAreDurable`, `OneToolList`, `TranscriptsCanGoOn` |

**Assumptions.** `RevisionLimit` is a positive natural, edits write integers and strings, texts are sets
of word classes, the recursion limit leaves room for all revisions (only `ToolLoopsOnly` needs it; the
code runs with 25 against 8). `None` is no number, string, user, request or set (each
module assumes of this what it needs). The search limit, the retention and the pool are naturals (the
pool a positive one). For the token cache,
`FetchDelay + CallDelay <= REFRESH_MARGIN_S <= TOKEN_TTL_S` (20 <= 60 <= 3600 in the code). For the file
server, paths are sequences of names (`PathsAssumption`), and the root and the places links lead to have no
".." and no link in them (`RealPlaces`): `paths.py` resolves the root before it compares, and where a
chain of links finally leads is such a place by definition. `RESEARCH_RECURSION_LIMIT` is even
(`ApplicationAssumption`), as the code's constant is; only `TranscriptsGoOn` needs it.

**Checkpoints.** The invariants speak of any checkpoint of the store, and a later request may start from
any of them, so the induction has to be over all checkpoints and not over runs. `TypeInv` (`TypeOK` and
`Anchored`) makes every index a request holds an index of the store. `AllSound` says of each unedited
checkpoint what the node that is next relies on: before the router the question is the newest message;
after it the route is the question's; after the retriever the context is the question's; before the
general worker fewer drafts than the limit, and no more drafts than `revision_count` counts; and so on to
the end of the turn. That last conjunct is the strengthening the revision cap needs: `revision_count` may
be ahead of the drafts of the turn, because of earlier turns, and never behind. One lemma per node shows
that it turns a sound checkpoint into a sound child; one lemma about the store says that appending a
sound checkpoint keeps `AllSound`. Since no action changes an existing checkpoint, overlapping runs,
forks and resumes need no argument of their own.

The three other invariants of `CheckpointedRuns` rest on `StepShapes`: a step changes nothing, edits, or
lets one request begin, ask, resume, work or end, and what a node leaves of the state it ran on (`Leaves`)
is at most one message, one log line and, for `general_worker` alone, one attempt. Then `AttemptsLogged`
is `LogSound` of every unedited checkpoint. `merge_logs` can drop the line of an attempt only if it is
there already, and `LogSound` says the next attempt's is not. `OwnTurn` needs that a request about to
resume has no input of its own, since it jumps to whatever is newest. `ToolLoopsOnly` is a budget: the
steps used and `Need` of the pending node stay below the limit (a run that ends with its last step raises, so
the last node needs a step to spare). `Need` counts two steps for each attempt
left, at least one attempt, and what precedes them; each node outside the tool loop lowers it by one, and
the critic sends a draft back only while an attempt is left. It has to hold of a checkpoint an operator
edited, so it is an invariant of the counts alone (`CountsNatural`) and not of soundness. `TickerKept` follows the chain of a
request on a thread that was fresh when it came: it begins with that request's question and gets no second
user message, however the thread branches beside it. `OnlyAdvance` is the
variant that, with fairness, gives `EveryRunStops`.

**Ownership.** `AdmittedIsBacked` is not inductive alone. `ClaimsAreOpen` adds that an open claim belongs
to a running request of a non-admin on that very thread, and stands only where no committed row does;
`OnlyUsersClaim` that the admin never inserts. With them, two admitted users on one thread would need two
owners. The refinement follows from the same invariant, action by action: `Rollback` of a claim is
`Release`, for which nobody else may be acting; that is `AdmittedIsBacked` again.

**Token cache.** `MarginSuffices` rests on `CacheIsNearlyRight` (the cache overestimates a token's life by
at most `FetchDelay`) and `SentOutlives` (a token that is sent has `CallDelay` left). `RetryIsNewer`
rests on `GrantedIsNewest` and `RetryIsFresh`: between a 401 and the retry the cache is empty, or holds a
token issued after the refused one, also when it was filled by a fetch that another coroutine had begun
before. `SingleFetch` rests on `LockIsFetch`: the lock is held exactly while a POST is under way.

**Memory.** The steps of a handler or a search are steps of `Ownership` or leave its variables alone, so its
invariant carries over (a lemma, which says nothing by itself). `SearchInside`
adds three parts to that invariant: `PointsAreBacked` (the request that stored a point has been
admitted, and has its backing until it closes), `KeptAreOwned` (the point of a request that committed is on a thread of that request's user)
and `SearchIsFiltered` (each thread a search carries is owned by its user, or claimed by the request whose
run searches, and that request is in its handler). The claim is the delicate part: it is not committed, so
the filter would be wrong as soon as the claim is gone. `SearcherStays` says that the searching request
does not leave its handler while its search goes on, and `RequestsGoOn` that a request in its handler keeps
its claim or has become the owner. `OwnerStays` makes the list
read before the query still right after it. `KeptFound` adds `CollectionIsThere` (a point, and a request
about to store one, mean the collection exists: without that a search would skip the query) and
`DueIsInReach` (what a search owes its user is stored, and inside its filter).

**Files.** `JailHolds` needs that what is checked is what is opened. `Real(l)` says that no name of `l` is
".." and no beginning of it is a link. `WalkIsReal` shows that a walk which starts at a real place is at a
real place after each name, and `RealIsOpened` that walking to a real place once more, from the top, ends
at it: so `Opened(resolve(p)) = resolve(p)` for every path (`OpenedWhereChecked`). Both are inductions
over the names of a path. The library's induction theorems take an operator, which the provers cannot
instantiate; `SetInduction` (from the least element of a set of naturals) takes a set instead. `TraceInv`
carries the checked place along each call. `CreatorsRecorded` follows `existed` from the check to the row:
`FirstWriter`, of the writers of a new file one found none.

**Audit trails.** Each of the three has a short invariant on the stages: whoever is at its audit has done
the deed, and a row exists only after it (`RowsComeLast`, `CallIsSound`, `SandboxIsSound`). Each action is
then `Do`, `Record` or no step of `AuditTrail`. For the sandbox it must also be known that nothing was
heard or recorded before the call: the container outlives the request, and the deed may follow its end.

**Execution records.** `RequestIsSound` carries the agreement of row and ending back to the moment before
the commit, where it is about `execution.status`; while the graph runs the status is `"running"`.
`ConnectionsComeBack` is inductive as it stands.

**Application.** None of its properties is inductive. `RequestIsSound` says where a request can be: being
served means the lifespan has reached "serving", and that means the Postgres saver is in place; a request
past `get_tools` has the cached list, and the list is filled only under the lock, while nobody has it. For
transcripts it adds the parity of the steps: even before the agent, odd before the tools. An even limit is
therefore never reached between a call and its answer.

**Retention.** `TodoIsExpendable`: whatever a thread that a sweep has still to delete holds was past the
cutoff at the query or was written since. Time only moves on, so new turns keep it.

**Model-checked only.** The liveness properties (`EveryRunStops`, `EveryRequestCloses`, `EveryLookupEnds`,
`ContainersAreRemoved`, `AbandonedThreadsGo`, `EveryRequestEnds`), since fairness and ENABLED are out of the
prover's reach. Of `EveryRunStops` the part without fairness is proved, `OnlyAdvance`. The three
statements of the repository that the code does not keep are refuted by TLC.

## 5. Not modelled

- In `CheckpointedRuns`: the rate limit and the response cache around a run; what the models answer, beyond
  what the critic and the tool loop can tell apart; a negative `revision_count` written by an edit (the
  property is stated for naturals). A tool that blocks for ever is no behaviour of the models: they take
  each call to end.
- The response cache of `/ask` is a decorator of a library to which the code gives a key and a time. Two
  identical questions that miss together are two runs on one thread, as in `overlap`.
- In `FileTools`: the creation of parent directories, and links that somebody outside the server puts in
  place between the check and the open.
- In `RunRecords`: the checkpointer's own pool, which is another one, and more than one sandbox call in a
  run. In `Application`: threads of the main graph, which are in `CheckpointedRuns`. In `Retention`: what
  is in a checkpoint, and the order of the rows.
- Instances with three requests of `MemoryStore`, `RunRecords` or `Application` are beyond what a run of a
  few minutes covers.
- The risk server computes and returns floats; it has no state. Authentication is hashing and signature
  checks of libraries. The rate limit is a counter of slowapi's. Logging, health, schemas, configuration
  and migrations have no behaviour over time.

## 6. Plan

Every component with state of its own is modelled, and every invariant and refinement of the passing runs
is proved. What is left is the part of the other liveness properties that does not need fairness, as
`OnlyAdvance` is for `EveryRunStops`: a bound on the steps of a lookup (one retry), of a request of
`MemoryStore` and `RunRecords`, and of a research request, each as an action property.
