--------------------------- MODULE CheckpointedRuns ---------------------------
(***************************************************************************)
(* One thread_id of the agent platform: its checkpoint store and the       *)
(* requests that run the main graph on it: POST /run, /run/stream, GET     *)
(* /ask, POST /analyze, /test/smoke, and the admin routes /fork, /resume   *)
(* and /edit.                                                              *)
(*                                                                         *)
(* Every request is a coroutine of its own, so requests on one thread      *)
(* interleave between super-steps.  A super-step runs the one pending node *)
(* of the run's current checkpoint and appends a child checkpoint; the     *)
(* thread's state, as any later request sees it, is the newest checkpoint, *)
(* whichever run wrote it.  A run that stops early (a node raises, the     *)
(* recursion limit, a cancelled or crashed process) leaves its last        *)
(* checkpoint with a node pending.  A crash that loses the checkpoint of   *)
(* the last node is the same crash one step earlier.                       *)
(*                                                                         *)
(* Checkpoint i is the i-th the store received; i stands for its id (ids   *)
(* are time ordered), 0 for "no checkpoint".  LangGraph's input checkpoint *)
(* and its copy out of the __start__ channel are one step here.            *)
(***************************************************************************)
EXTENDS AgentGraph, FiniteSets

Seqs == INSTANCE SequencesExt

CONSTANTS
    Runs,               \* requests, each served at most once
    Routes,             \* the routes whose requests reach this thread
    Users, DemoUser,    \* callers; DemoUser is settings.demo_username
    Texts,              \* the word classes of the messages users send
    RecursionLimit,     \* super-steps one invocation may take
    MaxEdits,           \* bound: edits of this thread
    MaxOverlap          \* bound: requests served at the same time

AllRoutes == {"run", "stream", "ask", "smoke", "analyze", "fork", "resume"}

ASSUME RoutesAssumption == Routes \subseteq AllRoutes
ASSUME TextsAssumption == Texts \subseteq SUBSET Words
\* 25, the limit the code assumes by default, against 2 + 2 * 3 nodes.
ASSUME RecursionLimitAssumption ==
    RecursionLimit \in Nat /\ RecursionLimit > 2 + 2 * RevisionLimit
ASSUME BoundsAssumption == MaxEdits \in Nat /\ MaxOverlap \in Nat

VARIABLES
    store,      \* the thread's checkpoints, oldest first
    run         \* per request: where it stands

vars == <<store, run>>

Checkpoints ==
    [parent : Nat, values : GraphState, next : Nodes \cup {END},
     source : {"input", "loop", "update"},
     edited : BOOLEAN]      \* history: an operator edited this chain

Active  == {"loaded", "checked", "running"}
Stopped == {"done", "failed", "nodb", "recursion", "cancelled", "rejected"}

RunRecords ==
    [route : AllRoutes \cup {"-"}, user : Users \cup {DemoUser, None},
     phase : Active \cup Stopped \cup {"free"},
     at    : Nat,           \* the checkpoint the run stands on
     steps : Nat,           \* super-steps of this invocation
     mine  : Nat,           \* history: the checkpoint of its own input
     reply : {"-", "output", "analysis", "error"}]

Idle == [route |-> "-", user |-> None, phase |-> "free", at |-> 0,
         steps |-> 0, mine |-> 0, reply |-> "-"]

Init == store = << >> /\ run = [r \in Runs |-> Idle]

\* aget_state without a checkpoint_id: the newest checkpoint.
Latest == Len(store)

ValuesAt(c) == IF c = 0 THEN EmptyState ELSE store[c].values
EditedAt(c) == IF c = 0 THEN FALSE ELSE store[c].edited

is_admin(user) == user = DemoUser

\* tool_llm and db are left out of the context of /analyze and /test/smoke.
HasDb(r) == run[r].route \notin {"analyze", "smoke"}

-----------------------------------------------------------------------------
(* Starting: load a checkpoint, then write the input onto it.              *)

Start(r, route, user, base, phase) ==
    /\ run[r].phase = "free"
    /\ route \in Routes
    /\ Cardinality({q \in Runs : run[q].phase \in Active}) < MaxOverlap
    /\ run' = [run EXCEPT ![r] = [Idle EXCEPT !.route = route, !.user = user,
                                              !.phase = phase, !.at = base]]
    /\ UNCHANGED store

\* ainvoke or astream with a thread_id: continue from the newest checkpoint.
Invoke(r, route, user) == Start(r, route, user, Latest, "loaded")

run_agent(r, user)          == Invoke(r, "run", user)
run_agent_stream(r, user)   == Invoke(r, "stream", user)
ask(r, user)                == Invoke(r, "ask", user)
run_smoke_test(r)           == Invoke(r, "smoke", DemoUser)

analyze_investment_SharedThread(r, user) == Invoke(r, "analyze", user)

\* Its thread_id holds a fresh uuid: nothing has happened on its thread.
analyze_investment(r, user) ==
    /\ store = << >> /\ \A q \in Runs : run[q] = Idle
    /\ Invoke(r, "analyze", user)

\* checkpoint_config(thread_id, checkpoint_id); 0: an id the store lacks.
fork_thread(r, user, c) ==
    /\ c \in 0..Latest
    /\ Start(r, "fork", user, c, "loaded")

\* A /run message may be about anything; /analyze sends "Analyze {ticker}".
TextsOf(route) ==
    IF route = "analyze" THEN {t \cup {"investment"} : t \in Texts} ELSE Texts

\* Discards the tasks still pending on the loaded checkpoint.
Input(r, words) ==
    /\ run[r].phase = "loaded"
    /\ words \in TextsOf(run[r].route)
    /\ store' = Append(store, [parent |-> run[r].at,
                               values |-> AddInput(ValuesAt(run[r].at), words),
                               next   |-> "router",
                               source |-> "input",
                               edited |-> EditedAt(run[r].at)])
    /\ run' = [run EXCEPT ![r].phase = "running", ![r].at = Latest + 1,
                          ![r].mine = Latest + 1]

is_interrupted == Latest # 0 /\ store[Latest].next # END

resume_thread(r, user) ==
    Start(r, "resume", user, 0, IF is_interrupted THEN "checked" ELSE "rejected")

\* ainvoke(None): by now the latest checkpoint may be another one.
ResumeInvoke(r) ==
    /\ run[r].phase = "checked"
    /\ run' = [run EXCEPT ![r].phase = "running", ![r].at = Latest]
    /\ UNCHANGED store

-----------------------------------------------------------------------------
(* One super-step: the pending node runs, its result is checkpointed.      *)

\* An input costs two of the steps: writing it, and copying it out of __start__.
StepLimit(r) == IF run[r].route = "resume" THEN RecursionLimit + 2 ELSE RecursionLimit

Pending(r, node) ==
    /\ run[r].phase = "running"
    /\ store[run[r].at].next = node
    /\ run[r].steps < StepLimit(r)

Values(r) == store[run[r].at].values

Extend_FromLatest(r, node, v) ==
    /\ store' = Append(store, [parent |-> Latest,
                               values |-> [v EXCEPT !.messages = store[Latest].values.messages,
                                                    !.question = store[Latest].values.question],
                               next   |-> Edge(node, v),
                               source |-> "loop",
                               edited |-> EditedAt(Latest)])
    /\ run' = [run EXCEPT ![r].at = Latest + 1, ![r].steps = @ + 1]

Extend(r, node, v) ==
    /\ store' = Append(store, [parent |-> run[r].at, values |-> v,
                               next   |-> Edge(node, v),
                               source |-> "loop",
                               edited |-> EditedAt(run[r].at)])
    /\ run' = [run EXCEPT ![r].at = Latest + 1, ![r].steps = @ + 1]

\* What a model may answer: a stub, or something the critic's bar accepts.
Drafts == {Reply({}), Reply({"detail"})}

Router(r) ==
    /\ Pending(r, "router")
    /\ Extend(r, "router", route_request(Values(r)))

\* owned_thread_ids needs the session; only the admin does without.
LacksDb(r) == ~is_admin(run[r].user) /\ ~HasDb(r)

MemoryRetriever(r) ==
    /\ Pending(r, "memory_retriever")
    /\ ~LacksDb(r) /\ ~RetrieverRaises(Values(r))
    /\ Extend(r, "memory_retriever", retrieve_semantic_memories(Values(r)))

MemoryRetrieverLacksDb(r) ==
    /\ Pending(r, "memory_retriever") /\ LacksDb(r)
    /\ run' = [run EXCEPT ![r].phase = "nodb"]
    /\ UNCHANGED store

Agent(r) ==
    /\ Pending(r, "agent")
    /\ \E m \in Drafts \cup {ToolCall} : Extend(r, "agent", call_model(Values(r), m))

\* handle_tool_errors turns a raising tool into a ToolMessage: no failure.
Tools(r) ==
    /\ Pending(r, "tools")
    /\ Extend(r, "tools", tools(Values(r)))

Billing(r) ==
    /\ Pending(r, "billing")
    /\ \E m \in Drafts : Extend(r, "billing", billing_worker(Values(r), m))

General(r) ==
    /\ Pending(r, "general")
    /\ \E m \in Drafts : Extend(r, "general", general_worker(Values(r), m))

Critic(r) ==
    /\ Pending(r, "critic") /\ ~CriticRaises(Values(r))
    /\ Extend(r, "critic", critic(Values(r)))

FetchMetrics(r) ==
    /\ Pending(r, "fetch_metrics")
    /\ \E ticker \in Tickers(Values(r)) :
          Extend(r, "fetch_metrics", fetch_market_metrics(Values(r), ticker))

FormatReport(r) ==
    /\ Pending(r, "format_report")
    /\ Extend(r, "format_report", generate_structured_report(Values(r)))

-----------------------------------------------------------------------------
(* How a run ends.                                                         *)

Stop(r, phase, reply) ==
    /\ run' = [run EXCEPT ![r].phase = phase, ![r].reply = reply]
    /\ UNCHANGED store

\* A model, the vector store or the API behind a node raises.
NodeFails(r) ==
    /\ \E node \in Nodes \ {"router", "tools"} :
          /\ Pending(r, node)
          /\ node = "critic" => CriticRaises(Values(r))
    /\ Stop(r, "failed", "error")

OutOfSteps_NeverRaised(r) == FALSE /\ UNCHANGED vars

\* GraphRecursionError.  The limit is checked before the tasks are looked at, so a
\* run that would have been over after exactly this many nodes raises as well.
OutOfSteps(r) ==
    /\ run[r].phase = "running"
    /\ run[r].steps = StepLimit(r)
    /\ Stop(r, "recursion", "error")

\* The response each route builds.  /analyze reads result["analysis"], a
\* KeyError when no report was written; /resume puts the username where
\* AgentResponse wants a UUID, which fails its validation.
ReplyOf(r) ==
    IF run[r].route = "analyze"
    THEN IF Values(r).analysis = NoMetrics THEN "error" ELSE "analysis"
    ELSE IF run[r].route = "resume" THEN "error" ELSE "output"

Finish(r) ==
    /\ Pending(r, END)
    /\ Stop(r, "done", ReplyOf(r))

\* The client disconnects, the smoke test times out or the process dies.
Cancel(r) ==
    /\ run[r].phase \in Active
    /\ Stop(r, "cancelled", "-")

-----------------------------------------------------------------------------
(* POST /edit: aupdate_state on a past checkpoint, as if as_node had run.  *)

Edits == {c \in 1..Len(store) : store[c].source = "update"}

edited_values(v, critique, count) ==
    [v EXCEPT !.critique = IF critique = None THEN @ ELSE critique,
              !.revision_count = IF count = None THEN @ ELSE count]

edit_thread_checkpoint(c, as_node, critique, count) ==
    /\ Cardinality(Edits) < MaxEdits
    /\ c \in 0..Latest
    /\ critique # None \/ count # None          \* 422 otherwise
    /\ LET v == edited_values(ValuesAt(c), critique, count) IN
       /\ ~EdgeRaises(as_node, v)
       /\ store' = Append(store, [parent |-> c, values |-> v,
                                  next   |-> Edge(as_node, v),
                                  source |-> "update",
                                  edited |-> TRUE])
    /\ UNCHANGED run

-----------------------------------------------------------------------------

\* What the server does with a request it has accepted.
Serve(r) ==
    \/ \E words \in SUBSET Words : Input(r, words)
    \/ ResumeInvoke(r)
    \/ Router(r) \/ MemoryRetriever(r) \/ MemoryRetrieverLacksDb(r)
    \/ Agent(r) \/ Tools(r) \/ Billing(r) \/ General(r) \/ Critic(r)
    \/ FetchMetrics(r) \/ FormatReport(r)
    \/ NodeFails(r) \/ OutOfSteps(r) \/ Finish(r)

Arrive(r) ==
    \/ \E user \in Users :
          \/ run_agent(r, user) \/ run_agent_stream(r, user) \/ ask(r, user)
          \/ analyze_investment(r, user) \/ resume_thread(r, user)
          \/ \E c \in 0..Len(store) : fork_thread(r, user, c)
    \/ run_smoke_test(r)

EditSome ==
    \E c \in 0..Len(store), as_node \in Nodes,
       critique \in EditCritiques \cup {None}, count \in EditCounts \cup {None} :
          edit_thread_checkpoint(c, as_node, critique, count)

Next == \/ \E r \in Runs : Arrive(r) \/ Serve(r) \/ Cancel(r)
        \/ EditSome

Spec == Init /\ [][Next]_vars

\* A started request keeps being scheduled: the event loop runs it, and every
\* await of a node ends, with a result or with an exception.
FairSpec == Spec /\ \A r \in Runs : WF_vars(Serve(r))
-----------------------------------------------------------------------------
(* What every checkpoint of the thread promises, whoever wrote it.         *)

\* The store and the request table keep their shape.
TypeOK == store \in Seq(Checkpoints) /\ run \in [Runs -> RunRecords]

Unedited(c) == ~store[c].edited
Question(v) == v.messages[v.question]

\* The nodes a turn passes once its route is chosen and its context fetched.
Workers == {"agent", "tools", "billing", "general", "critic", "fetch_metrics",
            "format_report"}
Dispatched(c) == store[c].next \in Workers \cup {END}

\* The audit trail of the general worker is complete: its log lines name
\* exactly the attempts revision_count has counted, through interruptions,
\* forks and later turns, although merge_logs drops lines it has seen.
AttemptsAreLogged ==
    \A c \in 1..Len(store) : Unedited(c) =>
       LET v == store[c].values IN
       \A n \in 1..(Attempts(v) + 1) :
          n <= Attempts(v) <=>
             \E i \in 1..Len(v.internal_logs) : v.internal_logs[i] = Line("general", n, "-")

\* The revision cap: in one turn the general worker drafts at most
\* RevisionLimit answers, also when the turn was interrupted and resumed
\* (everything after the turn's question is a draft on the general route).
DraftsWithinLimit ==
    \A c \in 1..Len(store) : Unedited(c) /\ Dispatched(c) =>
       LET v == store[c].values IN
       v.route_to = "general" => Len(v.messages) - v.question <= RevisionLimit

\* No worker acts on what an earlier turn left in the thread: the route is that
\* of the question, the context was retrieved for it, and the metrics and the
\* analysis were fetched and written in its turn (whose ticker they are about is
\* another matter: the model picks it from the whole transcript).
WorkersUseThisTurnsData ==
    \A c \in 1..Len(store) : Unedited(c) /\ Dispatched(c) =>
       LET v == store[c].values IN
       /\ v.route_to = classify(Question(v).words)
       /\ v.retrieved_context = v.question
       /\ store[c].next = "format_report" => v.tool_result.turn = v.question
       /\ v.route_to = "investment" /\ store[c].next = END => v.analysis.turn = v.question

\* A turn that ends without an error ends with an answer: a model message
\* after the question with no tool call left open, or the analysis.
FinishedTurnsAreAnswered ==
    \A c \in 1..Len(store) : Unedited(c) /\ store[c].next = END =>
       LET v == store[c].values IN
       \/ v.route_to = "investment" /\ v.analysis.turn = v.question
       \/ /\ Len(v.messages) > v.question
          /\ LastMessage(v).type = "ai" /\ ~LastMessage(v).calls
          /\ v.route_to = "general" =>
                v.critique = "PASS" /\ (passes(v) \/ v.revision_count >= RevisionLimit)

(* What a run promises, however many others share its thread.              *)

\* A run never picks up the messages of another run: what it has built on is
\* its own input, so its answer is the answer to its own question.
RunsKeepTheirOwnTurn ==
    \A r \in Runs : run[r].mine # 0 =>
       LET v == Values(r)
           w == store[run[r].mine].values IN
       /\ v.question = w.question
       /\ Seqs!IsPrefix(w.messages, v.messages)

\* An /analyze answer is about the ticker it was asked for: whatever else comes
\* to its thread meanwhile, the transcript its run hands to the model has no
\* other user message the ticker could be taken from.
AnalysesKeepTheirTicker ==
    \A r \in Runs : run[r].reply = "analysis" =>
       LET question == store[run[r].mine].values.question IN
       Values(r).analysis = [turn |-> question, ticker |-> question]

\* Checkpoint c is between two steps of the tool loop, or the last of them.
InToolLoop(c) ==
    \/ store[c].next \in {"agent", "tools"}
    \/ /\ store[c].next = END /\ store[c].parent # 0
       /\ store[store[c].parent].next = "agent"

\* Only the tool loop can exhaust the recursion limit: the critic's cap ends
\* every general turn before that, however the thread was resumed, forked or
\* edited (unless an operator writes a negative revision_count).
OnlyToolLoopsRunOut ==
    EditCounts \subseteq Nat =>
       \A r \in Runs : run[r].phase = "recursion" => InToolLoop(run[r].at)

\* Under fair scheduling every request gets a definite end: the recursion
\* limit stops the loops the model itself could keep going forever.
EveryRunStops == \A r \in Runs : (run[r].phase \in Active) ~> (run[r].phase \in Stopped)

(* What comments and docs of the repository say, and the code does not do. *)

\* docs/graph-core.md: GENERAL_REVISION_LIMIT forces a PASS once the attempts
\* run out: a stub is shipped only after the turn used all its attempts.
StubsShipOnlyAfterAllAttempts ==
    \A c \in 1..Len(store) : Unedited(c) /\ store[c].next = END =>
       LET v == store[c].values IN
       v.route_to = "general" /\ ~passes(v) => Len(v.messages) - v.question = RevisionLimit
=============================================================================
