------------------------------ MODULE AgentGraph ------------------------------
(***************************************************************************)
(* The main agent graph of app/graph/engine.py as data: the shared state   *)
(* every node reads and writes (GraphState), what each node returns, and   *)
(* the edges between nodes.  There is no behaviour here; CheckpointedRuns  *)
(* executes these definitions one super-step at a time.                    *)
(*                                                                         *)
(* Abstractions.  A message body is the set of the WORD CLASSES it         *)
(* contains: the three keyword families route_request looks for, and       *)
(* "detail" for a body the critic's bar accepts (it contains "revised" or  *)
(* is longer than 90 characters).  A retrieval is represented by the       *)
(* position of the message it was made for, 0 when there is none.  Market  *)
(* metrics, and the analysis made from them, are represented by the turn   *)
(* they were fetched in and by the message their ticker was taken from.    *)
(***************************************************************************)
EXTENDS Integers, Sequences

CONSTANTS
    RevisionLimit,      \* GENERAL_REVISION_LIMIT
    EditCounts,         \* revision_count values an operator writes with /edit
    EditCritiques,      \* critique values an operator writes with /edit
    None                \* a channel nothing has been written to yet

ASSUME RevisionLimitAssumption == RevisionLimit \in Nat \ {0}
ASSUME EditAssumption == /\ EditCounts \subseteq Int
                         /\ EditCritiques \subseteq STRING
ASSUME NoneAssumption == None \notin Int /\ None \notin STRING

Nodes == {"router", "memory_retriever", "agent", "tools", "billing",
          "general", "critic", "fetch_metrics", "format_report"}
END == "__end__"

Families == {"technical", "billing", "investment"}
Words    == Families \cup {"detail"}
RouteNames == Families \cup {"general"}

Messages == [type : {"human", "ai", "tool"},
             words : SUBSET Words,
             calls : BOOLEAN]           \* an AI message with tool_calls

Human(words) == [type |-> "human", words |-> words, calls |-> FALSE]
Reply(words) == [type |-> "ai", words |-> words, calls |-> FALSE]
ToolCall     == [type |-> "ai", words |-> {}, calls |-> TRUE]
ToolMessage  == [type |-> "tool", words |-> {}, calls |-> FALSE]

\* The critic's two verdicts: "PASS", and the note for a bare stub.
StubNote  == "draft is a bare stub; add detail"
Verdicts  == {"PASS", StubNote}
Critiques == Verdicts \cup EditCritiques

Counts == Int

\* A line of internal_logs: the node, the attempt it names, its variable text.
LogLines == Nodes \X Int \X (RouteNames \cup Verdicts \cup {"-"})
Line(node, attempt, text) == <<node, attempt, text>>

\* Metrics: fetched in the turn of one message, for the ticker of another or the same.
Metrics   == [turn : Nat, ticker : Nat]
NoMetrics == [turn |-> 0, ticker |-> 0]

GraphState ==
    [messages          : Seq(Messages),
     status            : {"-", "routed", "completed", "critiqued"},
     internal_logs     : Seq(LogLines),
     route_to          : RouteNames \cup {None},
     revision_count    : Counts \cup {None},
     critique          : Critiques \cup {None},
     retrieved_context : Nat,
     tool_result       : Metrics,
     analysis          : Metrics,
     question          : Nat]    \* history: position of the turn's HumanMessage

EmptyState ==
    [messages |-> << >>, status |-> "-", internal_logs |-> << >>,
     route_to |-> None, revision_count |-> None, critique |-> None,
     retrieved_context |-> 0, tool_result |-> NoMetrics, analysis |-> NoMetrics,
     question |-> 0]

-----------------------------------------------------------------------------
(* Reducers.                                                               *)

\* Every node returns exactly one log line; it is skipped when already there.
merge_logs(base, line) ==
    IF \E i \in 1..Len(base) : base[i] = line THEN base ELSE Append(base, line)

LastMessage(v) == v.messages[Len(v.messages)]

\* add_messages of a new user turn.  GraphInput lets nothing but messages in:
\* every other channel keeps what the thread's previous turn left there.
AddInput(v, words) ==
    [v EXCEPT !.messages = Append(@, Human(words)),
              !.question = Len(v.messages) + 1]

-----------------------------------------------------------------------------
(* Nodes: the state after the node's returned dict has been merged.        *)

\* The order of the keyword tests is the priority of the families.
classify(words) ==
    IF "technical" \in words THEN "technical"
    ELSE IF "billing" \in words THEN "billing"
    ELSE IF "investment" \in words THEN "investment" ELSE "general"

route_request(v) ==
    LET decision == classify(LastMessage(v).words) IN
    [v EXCEPT !.route_to = decision,
              !.status = "routed",
              !.internal_logs = merge_logs(@, Line("router", 0, decision))]

retrieve_KeepsOldContext(v) ==
    [v EXCEPT !.retrieved_context = IF @ = 0 THEN Len(v.messages) ELSE @,
              !.internal_logs = merge_logs(@, Line("memory_retriever", 0, "-"))]

retrieve_semantic_memories(v) ==
    [v EXCEPT !.retrieved_context = Len(v.messages),
              !.internal_logs = merge_logs(@, Line("memory_retriever", 0, "-"))]

call_model(v, response) ==
    [v EXCEPT !.messages = Append(@, response),
              !.status = "completed",
              !.internal_logs = merge_logs(@, Line("agent", 0, "-"))]

tools(v) == [v EXCEPT !.messages = Append(@, ToolMessage)]

billing_worker(v, response) ==
    [v EXCEPT !.messages = Append(@, response),
              !.status = "completed",
              !.internal_logs = merge_logs(@, Line("billing", 0, "-"))]

\* state.get("revision_count", 0)
Attempts(v) == IF v.revision_count = None THEN 0 ELSE v.revision_count

general_worker_RestartsCount(v, response) ==
    LET attempt == IF LastMessage(v).type = "human" THEN 1 ELSE Attempts(v) + 1 IN
    [v EXCEPT !.messages = Append(@, response),
              !.status = "completed",
              !.revision_count = attempt,
              !.internal_logs = merge_logs(@, Line("general", attempt, "-"))]

general_worker(v, response) ==
    [v EXCEPT !.messages = Append(@, response),
              !.status = "completed",
              !.revision_count = Attempts(v) + 1,
              !.internal_logs = merge_logs(@, Line("general", Attempts(v) + 1, "-"))]

\* The forced tool call is given the whole transcript, so the model may take the
\* ticker from any user message of the thread.
Tickers(v) == {i \in 1..Len(v.messages) : v.messages[i].type = "human"}

fetch_market_metrics(v, ticker) ==
    [v EXCEPT !.tool_result = [turn |-> v.question, ticker |-> ticker],
              !.internal_logs = merge_logs(@, Line("fetch_metrics", ticker, "-"))]

generate_structured_report(v) ==
    [v EXCEPT !.analysis = v.tool_result,
              !.internal_logs = merge_logs(@, Line("format_report", 0, "-"))]

passes(v) == "detail" \in LastMessage(v).words

verdict_LimitOffByOne(v) ==
    IF passes(v) \/ v.revision_count > RevisionLimit THEN "PASS" ELSE StubNote

verdict_NoCap(v) == IF passes(v) THEN "PASS" ELSE StubNote

verdict(v) ==
    IF passes(v) \/ v.revision_count >= RevisionLimit THEN "PASS" ELSE StubNote

critic(v) ==
    [v EXCEPT !.critique = verdict(v),
              !.status = "critiqued",
              !.internal_logs = merge_logs(@, Line("critic", v.revision_count, verdict(v)))]

\* state["messages"][-1] and state["revision_count"] raise when they are missing.
CriticRaises(v) == v.messages = << >> \/ v.revision_count = None
\* So does the query of the retriever.
RetrieverRaises(v) == v.messages = << >>

-----------------------------------------------------------------------------
(* Edges: the node that follows `node` in state v.                         *)

after_memory_retriever_RouteIsNode(v) == v.route_to

after_memory_retriever(v) ==
    CASE v.route_to = "technical"  -> "agent"
      [] v.route_to = "billing"    -> "billing"
      [] v.route_to = "investment" -> "fetch_metrics"
      [] OTHER                     -> "general"

after_critic(v) == IF v.critique = "PASS" THEN END ELSE "general"

\* langgraph.prebuilt: go to the tools node while the model asks for one.
tools_condition(v) == IF LastMessage(v).calls THEN "tools" ELSE END

Edge_ReportFirst(node, v) ==
    CASE node = "router"           -> "memory_retriever"
      [] node = "memory_retriever" -> IF v.route_to = "investment"
                                      THEN "format_report"
                                      ELSE after_memory_retriever(v)
      [] node = "agent"            -> tools_condition(v)
      [] node = "tools"            -> "agent"
      [] node = "general"          -> "critic"
      [] node = "critic"           -> after_critic(v)
      [] node = "fetch_metrics"    -> "format_report"
      [] node \in {"billing", "format_report"} -> END

Edge(node, v) ==
    CASE node = "router"           -> "memory_retriever"
      [] node = "memory_retriever" -> after_memory_retriever(v)
      [] node = "agent"            -> tools_condition(v)
      [] node = "tools"            -> "agent"
      [] node = "general"          -> "critic"
      [] node = "critic"           -> after_critic(v)
      [] node = "fetch_metrics"    -> "format_report"
      [] node \in {"billing", "format_report"} -> END

\* The conditional edges that cannot be taken: no message, no critique.
EdgeRaises(node, v) ==
    \/ node = "agent" /\ v.messages = << >>
    \/ node = "critic" /\ v.critique = None
=============================================================================
