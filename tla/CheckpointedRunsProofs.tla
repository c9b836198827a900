------------------------ MODULE CheckpointedRunsProofs ------------------------
(***************************************************************************)
(* Theorems about CheckpointedRuns, for any number of overlapping requests,*)
(* users, texts, edits and any revision and recursion limit.               *)
(***************************************************************************)
EXTENDS CheckpointedRuns, SequenceTheorems, TLAPS

-----------------------------------------------------------------------------
(* What the operators of AgentGraph return.                                *)

\* Merging a line into a log gives a log that holds the line, continues the old
\* one, and repeats nothing if the old one did not.
LEMMA MergeLogs ==
    ASSUME NEW base \in Seq(LogLines), NEW line \in LogLines
    PROVE  /\ merge_logs(base, line) \in Seq(LogLines)
           /\ Len(merge_logs(base, line)) \in {Len(base), Len(base) + 1}
           /\ \A i \in 1..Len(base) : merge_logs(base, line)[i] = base[i]
           /\ \E i \in 1..Len(merge_logs(base, line)) : merge_logs(base, line)[i] = line
           /\ \A i \in (Len(base) + 1)..Len(merge_logs(base, line)) :
                 /\ merge_logs(base, line)[i] = line
                 /\ \A j \in 1..Len(base) : base[j] # line
  BY DEF merge_logs

\* The empty state and every update the code makes keep the shape of GraphState.
LEMMA EmptyStateType == EmptyState \in GraphState
  BY DEF EmptyState, GraphState, NoMetrics, Metrics

\* A new user message, add_messages appends it.
LEMMA AddInputType ==
    ASSUME NEW v \in GraphState, NEW words \in SUBSET Words
    PROVE  AddInput(v, words) \in GraphState
  <1>1. Human(words) \in Messages
    BY DEF Human, Messages
  <1>2. v.messages \in Seq(Messages)
    BY DEF GraphState
  <1>3. Append(v.messages, Human(words)) \in Seq(Messages) /\ Len(v.messages) + 1 \in Nat
    BY <1>1, <1>2
  <1> DEFINE m == Append(v.messages, Human(words))
             q == Len(v.messages) + 1
  <1>4. AddInput(v, words) = [v EXCEPT !.messages = m, !.question = q]
    BY DEF AddInput
  <1>5. m \in Seq(Messages) /\ q \in Nat
    BY <1>3
  <1> HIDE DEF m, q
  <1> QED
    BY <1>4, <1>5 DEF GraphState

\* The fields of a graph state, each with its type.
LEMMA FieldTypes ==
    ASSUME NEW v \in GraphState
    PROVE  /\ v.messages \in Seq(Messages) /\ Len(v.messages) \in Nat
           /\ v.internal_logs \in Seq(LogLines)
           /\ v.route_to \in RouteNames \cup {None}
           /\ v.revision_count \in Int \cup {None}
           /\ v.critique \in Critiques \cup {None}
           /\ v.retrieved_context \in Nat /\ v.question \in Nat
           /\ v.tool_result \in Metrics /\ v.analysis \in Metrics
  <1>1. v.messages \in Seq(Messages)
    BY DEF GraphState
  <1>2. Len(v.messages) \in Nat
    BY <1>1
  <1> QED
    BY <1>1, <1>2 DEF GraphState, Counts

\* A log with one more line of the shape nodes write is a log.
LEMMA MergedLogType ==
    ASSUME NEW v \in GraphState, NEW node \in Nodes, NEW n \in Int,
           NEW text \in RouteNames \cup Verdicts \cup {"-"}
    PROVE  merge_logs(v.internal_logs, Line(node, n, text)) \in Seq(LogLines)
  <1>1. Line(node, n, text) \in LogLines
    BY DEF LogLines, Line
  <1> QED
    BY <1>1, FieldTypes, MergeLogs

\* route_request returns a graph state.
LEMMA RouteType ==
    ASSUME NEW v \in GraphState
    PROVE  route_request(v) \in GraphState
  <1> DEFINE d == classify(LastMessage(v).words)
             l == merge_logs(v.internal_logs, Line("router", 0, d))
  <1>1. d \in RouteNames
    BY DEF classify, RouteNames, Families
  <1>2. l \in Seq(LogLines)
    BY <1>1, MergedLogType DEF Nodes
  <1>3. route_request(v) = [v EXCEPT !.route_to = d, !.status = "routed",
                                     !.internal_logs = l]
    BY DEF route_request
  <1> HIDE DEF d, l
  <1> QED
    BY <1>1, <1>2, <1>3 DEF GraphState

\* retrieve_semantic_memories returns a graph state.
LEMMA RetrieveType ==
    ASSUME NEW v \in GraphState
    PROVE  retrieve_semantic_memories(v) \in GraphState
  <1> DEFINE l == merge_logs(v.internal_logs, Line("memory_retriever", 0, "-"))
             n == Len(v.messages)
  <1>1. l \in Seq(LogLines) /\ n \in Nat
    BY FieldTypes, MergedLogType DEF Nodes
  <1>2. retrieve_semantic_memories(v) = [v EXCEPT !.retrieved_context = n,
                                                  !.internal_logs = l]
    BY DEF retrieve_semantic_memories
  <1> HIDE DEF l, n
  <1> QED
    BY <1>1, <1>2 DEF GraphState

\* The messages channel stays a sequence of messages.
LEMMA AppendType ==
    ASSUME NEW v \in GraphState, NEW m \in Messages
    PROVE  Append(v.messages, m) \in Seq(Messages)
  BY FieldTypes

\* call_model returns a graph state.
LEMMA AgentType ==
    ASSUME NEW v \in GraphState, NEW m \in Messages
    PROVE  call_model(v, m) \in GraphState
  <1> DEFINE l == merge_logs(v.internal_logs, Line("agent", 0, "-"))
             ms == Append(v.messages, m)
  <1>1. l \in Seq(LogLines) /\ ms \in Seq(Messages)
    BY FieldTypes, MergedLogType, AppendType DEF Nodes
  <1>2. call_model(v, m) = [v EXCEPT !.messages = ms, !.status = "completed",
                                     !.internal_logs = l]
    BY DEF call_model
  <1> HIDE DEF l, ms
  <1> QED
    BY <1>1, <1>2 DEF GraphState

\* The tools node returns a graph state.
LEMMA ToolsType ==
    ASSUME NEW v \in GraphState
    PROVE  tools(v) \in GraphState
  <1> DEFINE ms == Append(v.messages, ToolMessage)
  <1>1. ms \in Seq(Messages)
    BY AppendType DEF ToolMessage, Messages
  <1>2. tools(v) = [v EXCEPT !.messages = ms]
    BY DEF tools
  <1> HIDE DEF ms
  <1> QED
    BY <1>1, <1>2 DEF GraphState

\* billing_worker returns a graph state.
LEMMA BillingType ==
    ASSUME NEW v \in GraphState, NEW m \in Messages
    PROVE  billing_worker(v, m) \in GraphState
  <1> DEFINE l == merge_logs(v.internal_logs, Line("billing", 0, "-"))
             ms == Append(v.messages, m)
  <1>1. l \in Seq(LogLines) /\ ms \in Seq(Messages)
    BY FieldTypes, MergedLogType, AppendType DEF Nodes
  <1>2. billing_worker(v, m) = [v EXCEPT !.messages = ms, !.status = "completed",
                                         !.internal_logs = l]
    BY DEF billing_worker
  <1> HIDE DEF l, ms
  <1> QED
    BY <1>1, <1>2 DEF GraphState

\* general_worker returns a graph state.
LEMMA GeneralType ==
    ASSUME NEW v \in GraphState, NEW m \in Messages
    PROVE  general_worker(v, m) \in GraphState
  <1> DEFINE n == Attempts(v) + 1
             l == merge_logs(v.internal_logs, Line("general", n, "-"))
             ms == Append(v.messages, m)
  <1>1. n \in Int
    BY FieldTypes DEF Attempts
  <1>2. l \in Seq(LogLines) /\ ms \in Seq(Messages)
    BY <1>1, FieldTypes, MergedLogType, AppendType DEF Nodes
  <1>3. general_worker(v, m) = [v EXCEPT !.messages = ms, !.status = "completed",
                                         !.revision_count = n, !.internal_logs = l]
    BY DEF general_worker
  <1> HIDE DEF n, l, ms
  <1> QED
    BY <1>1, <1>2, <1>3 DEF GraphState, Counts

\* fetch_market_metrics returns a graph state.
LEMMA FetchType ==
    ASSUME NEW v \in GraphState, NEW ticker \in Tickers(v)
    PROVE  fetch_market_metrics(v, ticker) \in GraphState
  <1> DEFINE n == [turn |-> v.question, ticker |-> ticker]
             l == merge_logs(v.internal_logs, Line("fetch_metrics", ticker, "-"))
  <1>0. ticker \in Nat
    BY FieldTypes DEF Tickers
  <1>1. n \in Metrics
    BY <1>0, FieldTypes DEF Metrics
  <1>2. l \in Seq(LogLines)
    BY <1>0, MergedLogType DEF Nodes
  <1>3. fetch_market_metrics(v, ticker) = [v EXCEPT !.tool_result = n, !.internal_logs = l]
    BY DEF fetch_market_metrics
  <1> HIDE DEF n, l
  <1> QED
    BY <1>1, <1>2, <1>3 DEF GraphState

\* generate_structured_report returns a graph state.
LEMMA ReportType ==
    ASSUME NEW v \in GraphState
    PROVE  generate_structured_report(v) \in GraphState
  <1> DEFINE l == merge_logs(v.internal_logs, Line("format_report", 0, "-"))
  <1>1. l \in Seq(LogLines)
    BY FieldTypes, MergedLogType DEF Nodes
  <1>2. generate_structured_report(v) = [v EXCEPT !.analysis = v.tool_result,
                                                  !.internal_logs = l]
    BY DEF generate_structured_report
  <1> HIDE DEF l
  <1> QED
    BY <1>1, <1>2 DEF GraphState

\* critic returns a graph state, unless it raises.
LEMMA CriticType ==
    ASSUME NEW v \in GraphState, ~CriticRaises(v)
    PROVE  critic(v) \in GraphState
  <1> DEFINE d == verdict(v)
             n == v.revision_count
             l == merge_logs(v.internal_logs, Line("critic", n, d))
  <1>1. d \in Verdicts
    BY DEF verdict, Verdicts
  <1>2. n \in Int
    BY FieldTypes DEF CriticRaises
  <1>3. l \in Seq(LogLines)
    BY <1>1, <1>2, FieldTypes, MergedLogType DEF Nodes
  <1>4. critic(v) = [v EXCEPT !.critique = d, !.status = "critiqued",
                              !.internal_logs = l]
    BY DEF critic
  <1> HIDE DEF d, n, l
  <1> QED
    BY <1>1, <1>3, <1>4 DEF GraphState, Critiques

\* The values /edit writes form a graph state.
LEMMA EditType ==
    ASSUME NEW v \in GraphState,
           NEW critique \in EditCritiques \cup {None}, NEW count \in EditCounts \cup {None}
    PROVE  edited_values(v, critique, count) \in GraphState
  <1> DEFINE d == IF critique = None THEN v.critique ELSE critique
             n == IF count = None THEN v.revision_count ELSE count
  <1>1. d \in Critiques \cup {None}
    BY DEF GraphState, Critiques
  <1>2. n \in Counts \cup {None}
    BY EditAssumption DEF GraphState, Counts
  <1>3. edited_values(v, critique, count) = [v EXCEPT !.critique = d, !.revision_count = n]
    BY DEF edited_values
  <1> HIDE DEF d, n
  <1> QED
    BY <1>1, <1>2, <1>3 DEF GraphState

\* Every edge leads to a node or to END.
LEMMA EdgeType ==
    ASSUME NEW node \in Nodes, NEW v
    PROVE  Edge(node, v) \in Nodes \cup {END}
  BY DEF Edge, Nodes, END, after_memory_retriever, after_critic, tools_condition

-----------------------------------------------------------------------------
(* Type correctness.                                                       *)

\* A request only ever stands on checkpoints the store holds.
Anchored ==
    \A r \in Runs :
       /\ run[r].phase = "checked" => Len(store) > 0
       /\ run[r].phase = "loaded" => run[r].at \in 0..Len(store)
       /\ run[r].phase \in {"running", "recursion"} => run[r].at \in 1..Len(store)
       /\ run[r].mine # 0 => /\ run[r].mine \in 1..Len(store)
                             /\ run[r].at \in 1..Len(store)

TypeInv == TypeOK /\ Anchored

\* What an invocation loads from a checkpoint, or from an empty thread.
LEMMA ValuesAtType ==
    ASSUME TypeOK, NEW c \in 0..Len(store)
    PROVE  ValuesAt(c) \in GraphState /\ EditedAt(c) \in BOOLEAN
  <1>1. CASE c = 0
    BY <1>1, EmptyStateType DEF ValuesAt, EditedAt
  <1>2. CASE c # 0
    <2>1. store[c] \in Checkpoints
      BY <1>2 DEF TypeOK
    <2> QED
      BY <1>2, <2>1 DEF ValuesAt, EditedAt, Checkpoints
  <1> QED
    BY <1>1, <1>2

\* A running request stands on a checkpoint of the store.
LEMMA ValuesType ==
    ASSUME TypeInv, NEW r \in Runs, run[r].phase = "running"
    PROVE  /\ Values(r) \in GraphState /\ store[run[r].at] \in Checkpoints
           /\ run[r].at \in 1..Len(store)
           /\ Values(r) = ValuesAt(run[r].at)
  <1>1. run[r].at \in 1..Len(store)
    BY DEF TypeInv, Anchored
  <1>2. store[run[r].at] \in Checkpoints
    BY <1>1 DEF TypeInv, TypeOK
  <1> QED
    BY <1>1, <1>2 DEF Values, ValuesAt, Checkpoints

\* A step that only moves requests around, on an unchanged store.
LEMMA StoreUnchangedType ==
    ASSUME TypeInv, NEW r \in Runs, NEW rec \in RunRecords,
           run' = [run EXCEPT ![r] = rec], store' = store,
           rec.phase = "checked" => Len(store) > 0,
           rec.phase = "loaded" => rec.at \in 0..Len(store),
           rec.phase \in {"running", "recursion"} => rec.at \in 1..Len(store),
           rec.mine # 0 => rec.mine \in 1..Len(store) /\ rec.at \in 1..Len(store)
    PROVE  TypeInv'
  BY DEF TypeInv, TypeOK, Anchored

\* A step of one request that appends a checkpoint and stands on it.
LEMMA StoreGrowsType ==
    ASSUME TypeInv, NEW r \in Runs, NEW rec \in RunRecords, NEW k \in Checkpoints,
           run' = [run EXCEPT ![r] = rec], store' = Append(store, k),
           rec.phase = "running", rec.at = Len(store) + 1,
           rec.mine # 0 => rec.mine \in 1..(Len(store) + 1)
    PROVE  TypeInv'
  <1>1. store \in Seq(Checkpoints) /\ Len(store) \in Nat
    BY DEF TypeInv, TypeOK
  <1>2. store' \in Seq(Checkpoints) /\ Len(store') = Len(store) + 1
    BY <1>1
  <1>3. run' \in [Runs -> RunRecords]
    BY DEF TypeInv, TypeOK
  <1>4. Anchored'
    <2> SUFFICES ASSUME NEW q \in Runs
                 PROVE  /\ run'[q].phase = "checked" => Len(store') > 0
                        /\ run'[q].phase = "loaded" => run'[q].at \in 0..Len(store')
                        /\ run'[q].phase \in {"running", "recursion"} => run'[q].at \in 1..Len(store')
                        /\ run'[q].mine # 0 => /\ run'[q].mine \in 1..Len(store')
                                               /\ run'[q].at \in 1..Len(store')
      BY DEF Anchored
    <2>1. CASE q = r
      <3>1. run'[q] = rec
        BY <2>1 DEF TypeInv, TypeOK
      <3> QED
        BY <1>1, <1>2, <3>1
    <2>2. CASE q # r
      <3>1. run'[q] = run[q]
        BY <2>2 DEF TypeInv, TypeOK
      <3> QED
        BY <1>1, <1>2, <3>1 DEF TypeInv, Anchored
    <2> QED
      BY <2>1, <2>2
  <1> QED
    BY <1>2, <1>3, <1>4 DEF TypeInv, TypeOK

\* A super-step appends a well-typed checkpoint.
LEMMA ExtendType ==
    ASSUME TypeInv, NEW r \in Runs, NEW node \in Nodes, NEW v \in GraphState,
           run[r].phase = "running", Extend(r, node, v)
    PROVE  TypeInv'
  <1> DEFINE k == [parent |-> run[r].at, values |-> v, next |-> Edge(node, v),
                   source |-> "loop", edited |-> EditedAt(run[r].at)]
             n == Len(store) + 1
             i == run[r].steps + 1
             rec == [run[r] EXCEPT !.at = n, !.steps = i]
  <1>1. run[r] \in RunRecords /\ run[r].at \in Nat
    BY DEF TypeInv, TypeOK, RunRecords
  <1>2. run[r].at \in 1..Len(store) /\ Len(store) \in Nat
    BY ValuesType DEF TypeInv, TypeOK
  <1>3. EditedAt(run[r].at) \in BOOLEAN
    BY <1>2, ValuesAtType DEF TypeInv
  <1>4. k \in Checkpoints
    BY <1>1, <1>3, EdgeType DEF Checkpoints
  <1>5. rec \in RunRecords /\ rec.phase = "running" /\ rec.at = n
          /\ rec.mine = run[r].mine
    <2>1. n \in Nat /\ i \in Nat
      BY <1>1, <1>2 DEF RunRecords
    <2> HIDE DEF n, i
    <2> QED
      BY <1>1, <2>1 DEF RunRecords
  <1>6. store' = Append(store, k) /\ run' = [run EXCEPT ![r] = rec]
    BY DEF Extend, Latest
  <1>7. rec.mine # 0 => rec.mine \in 1..(Len(store) + 1)
    BY <1>2, <1>5 DEF TypeInv, Anchored
  <1>8. rec.at = Len(store) + 1
    BY <1>5
  <1> HIDE DEF k, rec, n, i
  <1> QED
    BY <1>4, <1>5, <1>6, <1>7, <1>8, StoreGrowsType

\* What the models answer are messages.
LEMMA DraftsType == Drafts \subseteq Messages /\ ToolCall \in Messages
  BY DEF Drafts, Reply, ToolCall, Messages, Words

\* Every node keeps the types.
LEMMA NodeStepType ==
    ASSUME TypeInv, NEW r \in Runs,
           Router(r) \/ MemoryRetriever(r) \/ Agent(r) \/ Tools(r) \/ Billing(r)
             \/ General(r) \/ Critic(r) \/ FetchMetrics(r) \/ FormatReport(r)
    PROVE  TypeInv'
  <1>1. run[r].phase = "running"
    BY DEF Router, MemoryRetriever, Agent, Tools, Billing, General, Critic,
           FetchMetrics, FormatReport, Pending
  <1>2. Values(r) \in GraphState
    BY <1>1, ValuesType
  <1>3. CASE Router(r)
    BY <1>1, <1>2, <1>3, RouteType, ExtendType DEF Router, Nodes
  <1>4. CASE MemoryRetriever(r)
    BY <1>1, <1>2, <1>4, RetrieveType, ExtendType DEF MemoryRetriever, Nodes
  <1>5. CASE Agent(r)
    BY <1>1, <1>2, <1>5, AgentType, DraftsType, ExtendType DEF Agent, Nodes
  <1>6. CASE Tools(r)
    BY <1>1, <1>2, <1>6, ToolsType, ExtendType DEF Tools, Nodes
  <1>7. CASE Billing(r)
    BY <1>1, <1>2, <1>7, BillingType, DraftsType, ExtendType DEF Billing, Nodes
  <1>8. CASE General(r)
    BY <1>1, <1>2, <1>8, GeneralType, DraftsType, ExtendType DEF General, Nodes
  <1>9. CASE Critic(r)
    BY <1>1, <1>2, <1>9, CriticType, ExtendType DEF Critic, Nodes
  <1>10. CASE FetchMetrics(r)
    <2> PICK ticker \in Tickers(Values(r)) :
               Extend(r, "fetch_metrics", fetch_market_metrics(Values(r), ticker))
      BY <1>10 DEF FetchMetrics
    <2> QED
      BY <1>1, <1>2, FetchType, ExtendType DEF Nodes
  <1>11. CASE FormatReport(r)
    BY <1>1, <1>2, <1>11, ReportType, ExtendType DEF FormatReport, Nodes
  <1> QED
    BY <1>3, <1>4, <1>5, <1>6, <1>7, <1>8, <1>9, <1>10, <1>11

\* The input step appends a well-typed checkpoint.
LEMMA InputType ==
    ASSUME TypeInv, NEW r \in Runs, NEW words \in SUBSET Words, Input(r, words)
    PROVE  TypeInv'
  <1> DEFINE k == [parent |-> run[r].at,
                   values |-> AddInput(ValuesAt(run[r].at), words),
                   next |-> "router", source |-> "input",
                   edited |-> EditedAt(run[r].at)]
             n == Len(store) + 1
             rec == [run[r] EXCEPT !.phase = "running", !.at = n, !.mine = n]
  <1>1. run[r] \in RunRecords /\ run[r].at \in Nat /\ n \in Nat
    BY DEF TypeInv, TypeOK, RunRecords
  <1>2. run[r].at \in 0..Len(store)
    BY DEF TypeInv, Anchored, Input
  <1>3. ValuesAt(run[r].at) \in GraphState /\ EditedAt(run[r].at) \in BOOLEAN
    BY <1>2, ValuesAtType DEF TypeInv
  <1>4. k \in Checkpoints
    BY <1>1, <1>3, AddInputType DEF Checkpoints, Nodes
  <1>5. store' = Append(store, k) /\ run' = [run EXCEPT ![r] = rec]
    BY DEF Input, Latest
  <1>6. rec \in RunRecords /\ rec.phase = "running" /\ rec.at = n /\ rec.mine = n
    <2> HIDE DEF n
    <2> QED
      BY <1>1 DEF RunRecords, Active
  <1>7. rec.at = Len(store) + 1 /\ rec.mine \in 1..(Len(store) + 1)
    BY <1>1, <1>6
  <1> HIDE DEF k, rec, n
  <1> QED
    BY <1>4, <1>5, <1>6, <1>7, StoreGrowsType

\* Accepting a request keeps the types.
LEMMA StartType ==
    ASSUME TypeInv, NEW r \in Runs, NEW route \in AllRoutes, NEW user \in Users \cup {DemoUser},
           NEW base \in 0..Len(store), NEW phase \in {"loaded", "checked", "rejected"},
           phase = "checked" => Len(store) > 0,
           Start(r, route, user, base, phase)
    PROVE  TypeInv'
  <1> DEFINE rec == [Idle EXCEPT !.route = route, !.user = user, !.phase = phase,
                                 !.at = base]
  <1>1. base \in Nat
    BY DEF TypeInv, TypeOK
  <1>2. rec \in RunRecords /\ rec.phase = phase /\ rec.at = base /\ rec.mine = 0
    BY <1>1 DEF RunRecords, Idle, Active, Stopped
  <1>3. run' = [run EXCEPT ![r] = rec] /\ store' = store
    BY DEF Start
  <1> HIDE DEF rec
  <1> QED
    BY <1>2, <1>3, StoreUnchangedType

\* Ending a request, well or badly, keeps the types.
LEMMA StopType ==
    ASSUME TypeInv, NEW r \in Runs, NEW phase \in Stopped,
           NEW reply \in {"-", "output", "analysis", "error"},
           phase = "recursion" => run[r].phase = "running",
           Stop(r, phase, reply)
    PROVE  TypeInv'
  <1> DEFINE rec == [run[r] EXCEPT !.phase = phase, !.reply = reply]
  <1>1. run[r] \in RunRecords
    BY DEF TypeInv, TypeOK
  <1>2. rec \in RunRecords /\ rec.phase = phase /\ rec.at = run[r].at
          /\ rec.mine = run[r].mine
    BY <1>1 DEF RunRecords
  <1>3. run' = [run EXCEPT ![r] = rec] /\ store' = store
    BY DEF Stop
  <1>4. phase \notin {"loaded", "checked", "running"}
    BY DEF Stopped
  <1>5. phase = "recursion" => run[r].at \in 1..Len(store)
    BY DEF TypeInv, Anchored
  <1>6. run[r].mine # 0 => run[r].mine \in 1..Len(store) /\ run[r].at \in 1..Len(store)
    BY DEF TypeInv, Anchored
  <1> HIDE DEF rec
  <1> QED
    BY <1>2, <1>3, <1>4, <1>5, <1>6, StoreUnchangedType

\* /edit appends a well-typed checkpoint.
LEMMA EditStepType ==
    ASSUME TypeInv, NEW c \in 0..Len(store), NEW as_node \in Nodes,
           NEW critique \in EditCritiques \cup {None}, NEW count \in EditCounts \cup {None},
           edit_thread_checkpoint(c, as_node, critique, count)
    PROVE  TypeInv'
  <1> DEFINE v == edited_values(ValuesAt(c), critique, count)
             k == [parent |-> c, values |-> v, next |-> Edge(as_node, v),
                   source |-> "update", edited |-> TRUE]
  <1>1. c \in Nat /\ ValuesAt(c) \in GraphState
    BY ValuesAtType DEF TypeInv, TypeOK
  <1>2. v \in GraphState
    BY <1>1, EditType
  <1>3. k \in Checkpoints
    BY <1>1, <1>2, EdgeType DEF Checkpoints
  <1>4. store' = Append(store, k) /\ run' = run
    BY DEF edit_thread_checkpoint
  <1>5. store \in Seq(Checkpoints) /\ Len(store) \in Nat
    BY DEF TypeInv, TypeOK
  <1> HIDE DEF k
  <1>6. store' \in Seq(Checkpoints) /\ Len(store') = Len(store) + 1
    BY <1>3, <1>4, <1>5
  <1>7. Anchored'
    BY <1>4, <1>5, <1>6 DEF TypeInv, Anchored
  <1> QED
    BY <1>4, <1>6, <1>7 DEF TypeInv, TypeOK

\* Every step keeps the types and the anchors.
LEMMA TypeInvStep == TypeInv /\ [Next]_vars => TypeInv'
  <1> SUFFICES ASSUME TypeInv, [Next]_vars PROVE TypeInv'
    OBVIOUS
  <1>0. Len(store) \in Nat /\ Latest = Len(store)
    BY DEF TypeInv, TypeOK, Latest
  <1>1. CASE UNCHANGED vars
    BY <1>1 DEF vars, TypeInv, TypeOK, Anchored
  <1>2. CASE EditSome
    BY <1>2, EditStepType DEF EditSome
  <1>3. ASSUME NEW r \in Runs, Arrive(r) PROVE TypeInv'
    <2>1. ASSUME NEW route \in AllRoutes, NEW user \in Users \cup {DemoUser},
                 Invoke(r, route, user)
          PROVE  TypeInv'
      BY <1>0, <2>1, StartType DEF Invoke
    <2>2. ASSUME NEW user \in Users, NEW c \in 0..Len(store), fork_thread(r, user, c)
          PROVE  TypeInv'
      BY <1>0, <2>2, StartType DEF fork_thread, AllRoutes
    <2>3. ASSUME NEW user \in Users, resume_thread(r, user) PROVE TypeInv'
      <3> DEFINE phase == IF is_interrupted THEN "checked" ELSE "rejected"
      <3>1. Start(r, "resume", user, 0, phase)
        BY <2>3 DEF resume_thread
      <3>2. phase \in {"loaded", "checked", "rejected"} /\ (phase = "checked" => Len(store) > 0)
        BY <1>0 DEF is_interrupted
      <3> HIDE DEF phase
      <3> QED
        BY <1>0, <3>1, <3>2, StartType DEF AllRoutes
    <2> QED
      BY <1>3, <2>1, <2>2, <2>3 DEF Arrive, run_agent, run_agent_stream, ask,
         analyze_investment, run_smoke_test, AllRoutes
  <1>4. ASSUME NEW r \in Runs, Serve(r) PROVE TypeInv'
    <2>1. ASSUME NEW words \in SUBSET Words, Input(r, words) PROVE TypeInv'
      BY <2>1, InputType
    <2>2. CASE ResumeInvoke(r)
      <3> DEFINE rec == [run[r] EXCEPT !.phase = "running", !.at = Len(store)]
      <3>1. run[r] \in RunRecords
        BY DEF TypeInv, TypeOK
      <3>2. rec \in RunRecords /\ rec.phase = "running" /\ rec.at = Len(store)
              /\ rec.mine = run[r].mine
        BY <1>0, <3>1 DEF RunRecords, Active
      <3>3. run' = [run EXCEPT ![r] = rec] /\ store' = store
        BY <1>0, <2>2 DEF ResumeInvoke
      <3>4. Len(store) > 0
        BY <2>2 DEF ResumeInvoke, TypeInv, Anchored
      <3>5. run[r].mine # 0 => run[r].mine \in 1..Len(store)
        BY DEF TypeInv, Anchored
      <3>6. rec.at \in 1..Len(store)
        BY <1>0, <3>2, <3>4
      <3> HIDE DEF rec
      <3> QED
        BY <3>2, <3>3, <3>5, <3>6, StoreUnchangedType
    <2>3. CASE MemoryRetrieverLacksDb(r)
      <3> DEFINE rec == [run[r] EXCEPT !.phase = "nodb"]
      <3>1. run[r] \in RunRecords
        BY DEF TypeInv, TypeOK
      <3>2. rec \in RunRecords /\ rec.phase = "nodb" /\ rec.at = run[r].at
              /\ rec.mine = run[r].mine
        BY <3>1 DEF RunRecords, Stopped
      <3>3. run' = [run EXCEPT ![r] = rec] /\ store' = store
        BY <2>3 DEF MemoryRetrieverLacksDb
      <3>4. run[r].mine # 0 => run[r].mine \in 1..Len(store) /\ run[r].at \in 1..Len(store)
        BY DEF TypeInv, Anchored
      <3> HIDE DEF rec
      <3> QED
        BY <3>2, <3>3, <3>4, StoreUnchangedType
    <2>4. CASE NodeFails(r)
      BY <2>4, StopType DEF NodeFails, Stopped
    <2>5. CASE OutOfSteps(r)
      BY <2>5, StopType DEF OutOfSteps, Stopped
    <2>6. CASE Finish(r)
      <3>1. ReplyOf(r) \in {"-", "output", "analysis", "error"}
        BY DEF ReplyOf
      <3> QED
        BY <2>6, <3>1, StopType DEF Finish, Stopped
    <2> QED
      BY <1>4, <2>1, <2>2, <2>3, <2>4, <2>5, <2>6, NodeStepType DEF Serve
  <1>5. ASSUME NEW r \in Runs, Cancel(r) PROVE TypeInv'
    BY <1>5, StopType DEF Cancel, Stopped
  <1> QED
    BY <1>1, <1>2, <1>3, <1>4, <1>5 DEF Next

\* The types and the anchors hold initially.
LEMMA TypeInvInit == Init => TypeInv
  <1> SUFFICES ASSUME Init PROVE TypeInv
    OBVIOUS
  <1>1. Idle \in RunRecords /\ Idle.phase = "free" /\ Idle.mine = 0
    BY DEF Idle, RunRecords
  <1>2. store = << >> /\ \A r \in Runs : run[r] = Idle
    BY DEF Init
  <1>3. run \in [Runs -> RunRecords]
    BY <1>1 DEF Init
  <1> QED
    BY <1>1, <1>2, <1>3 DEF TypeInv, TypeOK, Anchored

\* For every number of requests, users, texts and edits: the store and the
\* request table keep their shape, and no request stands on a missing checkpoint.
THEOREM TypeCorrect == Spec => [](TypeOK /\ Anchored)
  BY TypeInvInit, TypeInvStep, PTL DEF Spec, TypeInv

-----------------------------------------------------------------------------
(* Every checkpoint is sound.                                              *)

\* Drafts of the turn: on the general route every message after the question.
DraftCount(v) == Len(v.messages) - v.question

\* What a checkpoint says of the turn it belongs to, by the node that is next.
\* Each conjunct is what the next node needs to establish the following one.
TurnSound(v, next) ==
    /\ v.question \in 1..Len(v.messages)
    /\ Attempts(v) >= 0
    /\ next \in {"router", "memory_retriever"} => v.question = Len(v.messages)
    /\ next # "router" => v.route_to = classify(Question(v).words)
    /\ next \in Workers \cup {END} => v.retrieved_context = v.question
    /\ next \in {"agent", "tools"} => v.route_to = "technical"
    /\ next = "billing" => v.route_to = "billing"
    /\ next = "fetch_metrics" => v.route_to = "investment" /\ v.question = Len(v.messages)
    /\ next = "format_report" => v.route_to = "investment" /\ v.tool_result.turn = v.question
    /\ next = "general" => /\ v.route_to = "general"
                           /\ DraftCount(v) < RevisionLimit
                           /\ DraftCount(v) <= Attempts(v)
    /\ next = "critic" => /\ v.route_to = "general" /\ v.revision_count # None
                          /\ DraftCount(v) \in 1..RevisionLimit
                          /\ DraftCount(v) <= v.revision_count
                          /\ LastMessage(v).type = "ai" /\ ~LastMessage(v).calls
    /\ next = END /\ v.route_to = "investment" => v.analysis.turn = v.question
    /\ next = END /\ v.route_to # "investment" =>
          /\ DraftCount(v) >= 1
          /\ LastMessage(v).type = "ai" /\ ~LastMessage(v).calls
    /\ next = END /\ v.route_to = "general" =>
          /\ DraftCount(v) <= RevisionLimit
          /\ v.critique = "PASS"
          /\ passes(v) \/ v.revision_count >= RevisionLimit

Sound(k) == ~k.edited => TurnSound(k.values, k.next)
AllSound == \A c \in 1..Len(store) : Sound(store[c])

\* A message appended to a turn leaves its question where it was.
LEMMA AppendKeepsQuestion ==
    ASSUME NEW ms \in Seq(Messages), NEW m \in Messages, NEW q \in 1..Len(ms)
    PROVE  /\ Len(Append(ms, m)) = Len(ms) + 1
           /\ Append(ms, m)[q] = ms[q]
           /\ Append(ms, m)[Len(Append(ms, m))] = m
  OBVIOUS

\* Drafts are model messages without tool calls; a tool call is one with.
LEMMA DraftFacts ==
    /\ \A m \in Drafts : m.type = "ai" /\ ~m.calls
    /\ ToolCall.type = "ai" /\ ToolCall.calls
  BY DEF Drafts, Reply, ToolCall

\* A new question opens a sound turn, whatever the thread held before.
LEMMA InputSound ==
    ASSUME NEW v \in GraphState, NEW words \in SUBSET Words, Attempts(v) >= 0
    PROVE  TurnSound(AddInput(v, words), "router")
  <1> DEFINE w == AddInput(v, words)
  <1> SUFFICES TurnSound(w, "router")
    OBVIOUS
  <1>1. w.messages = Append(v.messages, Human(words)) /\ w.question = Len(v.messages) + 1
          /\ w.revision_count = v.revision_count
    BY DEF AddInput, GraphState
  <1>2. Len(w.messages) = Len(v.messages) + 1 /\ Len(v.messages) \in Nat
    BY <1>1, FieldTypes
  <1>3. Attempts(w) = Attempts(v)
    BY <1>1 DEF Attempts
  <1> HIDE DEF w
  <1> QED
    BY <1>1, <1>2, <1>3 DEF TurnSound, Workers, END

\* The router writes the route of this turn's question.
LEMMA RouterSound ==
    ASSUME NEW v \in GraphState, TurnSound(v, "router")
    PROVE  TurnSound(route_request(v), Edge("router", route_request(v)))
  <1> DEFINE w == route_request(v)
  <1> SUFFICES TurnSound(w, Edge("router", w))
    OBVIOUS
  <1>1. w.messages = v.messages /\ w.question = v.question
          /\ w.revision_count = v.revision_count
          /\ w.route_to = classify(LastMessage(v).words)
    BY DEF route_request, GraphState
  <1>2. Attempts(w) = Attempts(v)
    BY <1>1 DEF Attempts
  <1>3. Question(w) = LastMessage(v)
    BY <1>1 DEF Question, LastMessage, TurnSound
  <1>4. Edge("router", w) = "memory_retriever"
    BY DEF Edge
  <1> HIDE DEF w
  <1> QED
    BY <1>1, <1>2, <1>3, <1>4 DEF TurnSound, Workers, END

\* classify knows four routes.
LEMMA ClassifyRange ==
    ASSUME NEW words
    PROVE  classify(words) \in {"technical", "billing", "investment", "general"}
  BY DEF classify

\* After the retriever the context belongs to this turn's question.
LEMMA RetrieverSound ==
    ASSUME NEW v \in GraphState, TurnSound(v, "memory_retriever")
    PROVE  TurnSound(retrieve_semantic_memories(v),
                     Edge("memory_retriever", retrieve_semantic_memories(v)))
  <1> DEFINE w == retrieve_semantic_memories(v)
             next == after_memory_retriever(w)
  <1> SUFFICES TurnSound(w, Edge("memory_retriever", w))
    OBVIOUS
  <1>1. w.messages = v.messages /\ w.question = v.question
          /\ w.revision_count = v.revision_count
          /\ w.route_to = v.route_to
          /\ w.retrieved_context = Len(v.messages)
    BY DEF retrieve_semantic_memories, GraphState
  <1>2. Attempts(w) = Attempts(v) /\ Question(w) = Question(v) /\ DraftCount(w) = DraftCount(v)
    BY <1>1 DEF Attempts, Question, DraftCount
  <1>3. w.route_to = classify(Question(v).words)
    BY <1>1 DEF TurnSound
  <1>4. w.route_to \in {"technical", "billing", "investment", "general"}
    BY <1>3, ClassifyRange
  <1>5. /\ w.route_to = "technical" => next = "agent"
        /\ w.route_to = "billing" => next = "billing"
        /\ w.route_to = "investment" => next = "fetch_metrics"
        /\ w.route_to = "general" => next = "general"
    BY DEF after_memory_retriever
  <1>6. Edge("memory_retriever", w) = next
    BY DEF Edge
  <1>7. v.question = Len(v.messages) /\ v.question \in 1..Len(v.messages)
          /\ Attempts(v) >= 0 /\ DraftCount(v) = 0 /\ 0 < RevisionLimit
    BY FieldTypes, RevisionLimitAssumption DEF TurnSound, DraftCount
  <1> HIDE DEF w, next
  <1> QED
    BY <1>1, <1>2, <1>3, <1>4, <1>5, <1>6, <1>7 DEF TurnSound, Workers, END

\* The agent answers or calls a tool, and keeps the turn sound.
LEMMA AgentSound ==
    ASSUME NEW v \in GraphState, NEW m \in Drafts \cup {ToolCall}, TurnSound(v, "agent")
    PROVE  TurnSound(call_model(v, m), Edge("agent", call_model(v, m)))
  <1> DEFINE w == call_model(v, m)
  <1> SUFFICES TurnSound(w, Edge("agent", w))
    OBVIOUS
  <1>1. w.messages = Append(v.messages, m) /\ w.question = v.question
          /\ w.revision_count = v.revision_count
          /\ w.route_to = v.route_to
          /\ w.retrieved_context = v.retrieved_context
    BY DEF call_model, GraphState
  <1>2. m \in Messages /\ m.type = "ai"
    BY DraftsType, DraftFacts
  <1>3. v.messages \in Seq(Messages) /\ v.question \in 1..Len(v.messages) /\ Len(v.messages) \in Nat
    BY FieldTypes DEF TurnSound
  <1>4. Len(w.messages) = Len(v.messages) + 1 /\ Question(w) = Question(v) /\ LastMessage(w) = m
    BY <1>1, <1>2, <1>3, AppendKeepsQuestion DEF Question, LastMessage
  <1>5. Attempts(w) = Attempts(v)
    BY <1>1 DEF Attempts
  <1>6. Edge("agent", w) = IF m.calls THEN "tools" ELSE END
    BY <1>4 DEF Edge, tools_condition
  <1>7. DraftCount(w) >= 1
    BY <1>1, <1>3, <1>4 DEF DraftCount
  <1> HIDE DEF w
  <1> QED
    BY <1>1, <1>2, <1>3, <1>4, <1>5, <1>6, <1>7 DEF TurnSound, Workers, END

\* A tool's answer hands the turn back to the agent.
LEMMA ToolsSound ==
    ASSUME NEW v \in GraphState, TurnSound(v, "tools")
    PROVE  TurnSound(tools(v), Edge("tools", tools(v)))
  <1> DEFINE w == tools(v)
  <1> SUFFICES TurnSound(w, Edge("tools", w))
    OBVIOUS
  <1>1. w.messages = Append(v.messages, ToolMessage) /\ w.question = v.question
          /\ w.revision_count = v.revision_count
          /\ w.route_to = v.route_to
          /\ w.retrieved_context = v.retrieved_context
    BY DEF tools, GraphState
  <1>2. ToolMessage \in Messages
    BY DEF ToolMessage, Messages
  <1>3. v.messages \in Seq(Messages) /\ v.question \in 1..Len(v.messages) /\ Len(v.messages) \in Nat
    BY FieldTypes DEF TurnSound
  <1>4. Len(w.messages) = Len(v.messages) + 1 /\ Question(w) = Question(v)
    BY <1>1, <1>2, <1>3, AppendKeepsQuestion DEF Question
  <1>5. Attempts(w) = Attempts(v)
    BY <1>1 DEF Attempts
  <1>6. Edge("tools", w) = "agent"
    BY DEF Edge
  <1> HIDE DEF w
  <1> QED
    BY <1>1, <1>3, <1>4, <1>5, <1>6 DEF TurnSound, Workers, END

\* The billing worker ends the turn with an answer.
LEMMA BillingSound ==
    ASSUME NEW v \in GraphState, NEW m \in Drafts, TurnSound(v, "billing")
    PROVE  TurnSound(billing_worker(v, m), Edge("billing", billing_worker(v, m)))
  <1> DEFINE w == billing_worker(v, m)
  <1> SUFFICES TurnSound(w, Edge("billing", w))
    OBVIOUS
  <1>1. w.messages = Append(v.messages, m) /\ w.question = v.question
          /\ w.revision_count = v.revision_count
          /\ w.route_to = v.route_to
          /\ w.retrieved_context = v.retrieved_context
    BY DEF billing_worker, GraphState
  <1>2. m \in Messages /\ m.type = "ai" /\ ~m.calls
    BY DraftsType, DraftFacts
  <1>3. v.messages \in Seq(Messages) /\ v.question \in 1..Len(v.messages) /\ Len(v.messages) \in Nat
    BY FieldTypes DEF TurnSound
  <1>4. Len(w.messages) = Len(v.messages) + 1 /\ Question(w) = Question(v) /\ LastMessage(w) = m
    BY <1>1, <1>2, <1>3, AppendKeepsQuestion DEF Question, LastMessage
  <1>5. Attempts(w) = Attempts(v)
    BY <1>1 DEF Attempts
  <1>6. Edge("billing", w) = END
    BY DEF Edge
  <1>7. DraftCount(w) >= 1
    BY <1>1, <1>3, <1>4 DEF DraftCount
  <1> HIDE DEF w
  <1> QED
    BY <1>1, <1>2, <1>3, <1>4, <1>5, <1>6, <1>7 DEF TurnSound, Workers, END

\* A draft costs an attempt: drafts of the turn never outnumber attempts.
LEMMA GeneralSound ==
    ASSUME NEW v \in GraphState, NEW m \in Drafts, TurnSound(v, "general")
    PROVE  TurnSound(general_worker(v, m), Edge("general", general_worker(v, m)))
  <1> DEFINE w == general_worker(v, m)
  <1> SUFFICES TurnSound(w, Edge("general", w))
    OBVIOUS
  <1>1. w.messages = Append(v.messages, m) /\ w.question = v.question
          /\ w.revision_count = Attempts(v) + 1
          /\ w.route_to = v.route_to
          /\ w.retrieved_context = v.retrieved_context
    BY DEF general_worker, GraphState
  <1>2. m \in Messages /\ m.type = "ai" /\ ~m.calls
    BY DraftsType, DraftFacts
  <1>3. v.messages \in Seq(Messages) /\ v.question \in 1..Len(v.messages) /\ Len(v.messages) \in Nat
    BY FieldTypes DEF TurnSound
  <1>4. Len(w.messages) = Len(v.messages) + 1 /\ Question(w) = Question(v) /\ LastMessage(w) = m
    BY <1>1, <1>2, <1>3, AppendKeepsQuestion DEF Question, LastMessage
  <1>5. Attempts(v) \in Int /\ Attempts(v) >= 0
    BY FieldTypes DEF Attempts, TurnSound
  <1>6. w.revision_count # None /\ Attempts(w) = Attempts(v) + 1
    BY <1>1, <1>5, NoneAssumption DEF Attempts
  <1>7. DraftCount(w) = DraftCount(v) + 1 /\ DraftCount(v) \in Nat
    BY <1>1, <1>3, <1>4 DEF DraftCount
  <1>8. DraftCount(w) \in 1..RevisionLimit /\ DraftCount(w) <= w.revision_count
    BY <1>1, <1>5, <1>7, RevisionLimitAssumption DEF TurnSound
  <1>9. Edge("general", w) = "critic"
    BY DEF Edge
  <1>10. w.route_to = "general" /\ w.retrieved_context = w.question
           /\ w.route_to = classify(Question(w).words)
    BY <1>1, <1>4 DEF TurnSound, Workers
  <1>11. w.question \in 1..Len(w.messages) /\ Attempts(w) >= 0
    BY <1>1, <1>3, <1>4, <1>5, <1>6
  <1> HIDE DEF w
  <1> QED
    BY <1>2, <1>4, <1>6, <1>8, <1>9, <1>10, <1>11 DEF TurnSound, Workers, END

\* The critic ends the turn with PASS or leaves an attempt to spend.
LEMMA CriticSound ==
    ASSUME NEW v \in GraphState, TurnSound(v, "critic")
    PROVE  TurnSound(critic(v), Edge("critic", critic(v)))
  <1> DEFINE w == critic(v)
             next == Edge("critic", w)
  <1> SUFFICES TurnSound(w, next)
    OBVIOUS
  <1>1. w.messages = v.messages /\ w.question = v.question
          /\ w.revision_count = v.revision_count
          /\ w.route_to = v.route_to
          /\ w.retrieved_context = v.retrieved_context
          /\ w.critique = verdict(v)
    BY DEF critic, GraphState
  <1>2. Attempts(w) = Attempts(v) /\ Question(w) = Question(v) /\ DraftCount(w) = DraftCount(v)
          /\ LastMessage(w) = LastMessage(v) /\ (passes(w) <=> passes(v))
    BY <1>1 DEF Attempts, Question, DraftCount, LastMessage, passes
  <1>3. next = IF verdict(v) = "PASS" THEN END ELSE "general"
    BY <1>1 DEF Edge, after_critic
  <1>4. v.revision_count \in Int /\ Attempts(v) = v.revision_count
    BY FieldTypes DEF TurnSound, Attempts
  <1>5. v.question \in 1..Len(v.messages) /\ Len(v.messages) \in Nat /\ v.route_to = "general"
          /\ DraftCount(v) \in 1..RevisionLimit /\ DraftCount(v) <= v.revision_count
          /\ LastMessage(v).type = "ai" /\ ~LastMessage(v).calls
          /\ Attempts(v) >= 0
          /\ v.retrieved_context = v.question
          /\ v.route_to = classify(Question(v).words)
    BY FieldTypes DEF TurnSound, Workers
  <1>6. CASE passes(v) \/ v.revision_count >= RevisionLimit
    <2>1. verdict(v) = "PASS"
      BY <1>6 DEF verdict
    <2>2. next = END
      BY <1>3, <2>1
    <2> HIDE DEF w, next
    <2> QED
      BY <1>1, <1>2, <1>5, <1>6, <2>1, <2>2, RevisionLimitAssumption DEF TurnSound, Workers, END
  <1>7. CASE ~(passes(v) \/ v.revision_count >= RevisionLimit)
    <2>1. verdict(v) # "PASS"
      BY <1>7 DEF verdict, StubNote
    <2>2. next = "general"
      BY <1>3, <2>1
    <2>3. DraftCount(v) < RevisionLimit
      BY <1>4, <1>5, <1>7, RevisionLimitAssumption
    <2> HIDE DEF w, next
    <2> QED
      BY <1>1, <1>2, <1>4, <1>5, <2>2, <2>3 DEF TurnSound, Workers, END
  <1> QED
    BY <1>6, <1>7

\* The metrics are fetched in this turn, whatever ticker they are about.
LEMMA FetchSound ==
    ASSUME NEW v \in GraphState, NEW ticker, TurnSound(v, "fetch_metrics")
    PROVE  TurnSound(fetch_market_metrics(v, ticker),
                     Edge("fetch_metrics", fetch_market_metrics(v, ticker)))
  <1> DEFINE w == fetch_market_metrics(v, ticker)
  <1> SUFFICES TurnSound(w, Edge("fetch_metrics", w))
    OBVIOUS
  <1>1. w.messages = v.messages /\ w.question = v.question
          /\ w.revision_count = v.revision_count
          /\ w.route_to = v.route_to
          /\ w.retrieved_context = v.retrieved_context
          /\ w.tool_result.turn = v.question
    BY DEF fetch_market_metrics, GraphState
  <1>2. Attempts(w) = Attempts(v) /\ Question(w) = Question(v)
    BY <1>1 DEF Attempts, Question
  <1>3. Edge("fetch_metrics", w) = "format_report"
    BY DEF Edge
  <1> HIDE DEF w
  <1> QED
    BY <1>1, <1>2, <1>3 DEF TurnSound, Workers, END

\* The report is made from this turn's metrics.
LEMMA ReportSound ==
    ASSUME NEW v \in GraphState, TurnSound(v, "format_report")
    PROVE  TurnSound(generate_structured_report(v),
                     Edge("format_report", generate_structured_report(v)))
  <1> DEFINE w == generate_structured_report(v)
  <1> SUFFICES TurnSound(w, Edge("format_report", w))
    OBVIOUS
  <1>1. w.messages = v.messages /\ w.question = v.question
          /\ w.revision_count = v.revision_count
          /\ w.route_to = v.route_to
          /\ w.retrieved_context = v.retrieved_context
          /\ w.analysis = v.tool_result
    BY DEF generate_structured_report, GraphState
  <1>2. Attempts(w) = Attempts(v) /\ Question(w) = Question(v)
    BY <1>1 DEF Attempts, Question
  <1>3. Edge("format_report", w) = END
    BY DEF Edge
  <1> HIDE DEF w
  <1> QED
    BY <1>1, <1>2, <1>3 DEF TurnSound, Workers, END

\* Appending a sound checkpoint keeps all of them sound.
LEMMA AppendSound ==
    ASSUME TypeOK, AllSound, NEW k, Sound(k), store' = Append(store, k)
    PROVE  AllSound'
  <1>1. store \in Seq(Checkpoints) /\ Len(store) \in Nat
    BY DEF TypeOK
  <1>2. Len(store') = Len(store) + 1 /\ store'[Len(store) + 1] = k
          /\ \A c \in 1..Len(store) : store'[c] = store[c]
    BY <1>1
  <1> SUFFICES ASSUME NEW c \in 1..Len(store') PROVE Sound(store'[c])
    BY DEF AllSound
  <1>3. CASE c = Len(store) + 1
    BY <1>2, <1>3
  <1>4. CASE c # Len(store) + 1
    <2>1. c \in 1..Len(store)
      BY <1>1, <1>2, <1>4
    <2> QED
      BY <1>2, <2>1 DEF AllSound
  <1> QED
    BY <1>3, <1>4

\* A node that keeps turns sound may extend any chain, of any run.
LEMMA ExtendSound ==
    ASSUME TypeInv, AllSound, NEW r \in Runs, NEW node \in Nodes, NEW v,
           Pending(r, node), Extend(r, node, v),
           TurnSound(Values(r), node) => TurnSound(v, Edge(node, v))
    PROVE  AllSound'
  <1> DEFINE k == [parent |-> run[r].at, values |-> v, next |-> Edge(node, v),
                   source |-> "loop", edited |-> EditedAt(run[r].at)]
             old == store[run[r].at]
  <1>1. run[r].at \in 1..Len(store) /\ old \in Checkpoints /\ Values(r) = old.values
          /\ old.next = node
    BY ValuesType DEF Pending, Values
  <1>2. Sound(old)
    BY <1>1 DEF AllSound
  <1>3. EditedAt(run[r].at) = old.edited
    <2>1. run[r].at # 0
      BY <1>1 DEF TypeInv, TypeOK
    <2> QED
      BY <2>1 DEF EditedAt
  <1>4. k.edited = old.edited /\ k.values = v /\ k.next = Edge(node, v)
    BY <1>3
  <1>5. store' = Append(store, k)
    BY DEF Extend
  <1> HIDE DEF k
  <1>6. Sound(k)
    BY <1>1, <1>2, <1>4 DEF Sound
  <1> QED
    BY <1>5, <1>6, AppendSound DEF TypeInv

\* Every node step of every run keeps all checkpoints sound.
LEMMA NodeStepSound ==
    ASSUME TypeInv, AllSound, NEW r \in Runs,
           Router(r) \/ MemoryRetriever(r) \/ Agent(r) \/ Tools(r) \/ Billing(r)
             \/ General(r) \/ Critic(r) \/ FetchMetrics(r) \/ FormatReport(r)
    PROVE  AllSound'
  <1>1. run[r].phase = "running"
    BY DEF Router, MemoryRetriever, Agent, Tools, Billing, General, Critic,
           FetchMetrics, FormatReport, Pending
  <1>2. Values(r) \in GraphState
    BY <1>1, ValuesType
  <1>3. CASE Router(r)
    BY <1>2, <1>3, RouterSound, ExtendSound DEF Router, Nodes
  <1>4. CASE MemoryRetriever(r)
    BY <1>2, <1>4, RetrieverSound, ExtendSound DEF MemoryRetriever, Nodes
  <1>5. CASE Agent(r)
    BY <1>2, <1>5, AgentSound, ExtendSound DEF Agent, Nodes
  <1>6. CASE Tools(r)
    BY <1>2, <1>6, ToolsSound, ExtendSound DEF Tools, Nodes
  <1>7. CASE Billing(r)
    BY <1>2, <1>7, BillingSound, ExtendSound DEF Billing, Nodes
  <1>8. CASE General(r)
    BY <1>2, <1>8, GeneralSound, ExtendSound DEF General, Nodes
  <1>9. CASE Critic(r)
    BY <1>2, <1>9, CriticSound, ExtendSound DEF Critic, Nodes
  <1>10. CASE FetchMetrics(r)
    <2> PICK ticker \in Tickers(Values(r)) :
               Extend(r, "fetch_metrics", fetch_market_metrics(Values(r), ticker))
      BY <1>10 DEF FetchMetrics
    <2> QED
      BY <1>2, <1>10, FetchSound, ExtendSound DEF FetchMetrics, Nodes
  <1>11. CASE FormatReport(r)
    BY <1>2, <1>11, ReportSound, ExtendSound DEF FormatReport, Nodes
  <1> QED
    BY <1>3, <1>4, <1>5, <1>6, <1>7, <1>8, <1>9, <1>10, <1>11

\* The input step starts a sound turn on any checkpoint.
LEMMA InputStepSound ==
    ASSUME TypeInv, AllSound, NEW r \in Runs, NEW words \in SUBSET Words, Input(r, words)
    PROVE  AllSound'
  <1> DEFINE at == run[r].at
             k == [parent |-> at, values |-> AddInput(ValuesAt(at), words),
                   next |-> "router", source |-> "input", edited |-> EditedAt(at)]
  <1>1. at \in 0..Len(store) /\ Len(store) \in Nat
    BY DEF TypeInv, TypeOK, Anchored, Input
  <1>2. ValuesAt(at) \in GraphState
    BY <1>1, ValuesAtType DEF TypeInv
  <1>3. ~EditedAt(at) => Attempts(ValuesAt(at)) >= 0
    <2>1. CASE at = 0
      BY <2>1 DEF ValuesAt, Attempts, EmptyState
    <2>2. CASE at # 0
      <3>1. at \in 1..Len(store)
        BY <1>1, <2>2
      <3> QED
        BY <2>2, <3>1 DEF AllSound, Sound, TurnSound, ValuesAt, EditedAt
    <2> QED
      BY <2>1, <2>2
  <1>4. store' = Append(store, k)
    BY DEF Input
  <1>5. k.edited = EditedAt(at) /\ k.next = "router" /\ k.values = AddInput(ValuesAt(at), words)
    OBVIOUS
  <1> HIDE DEF k, at
  <1>6. Sound(k)
    BY <1>2, <1>3, <1>5, InputSound DEF Sound
  <1> QED
    BY <1>4, <1>6, AppendSound DEF TypeInv

\* Every step keeps all checkpoints sound.
LEMMA SoundStep == TypeInv /\ AllSound /\ [Next]_vars => AllSound'
  <1> SUFFICES ASSUME TypeInv, AllSound, [Next]_vars PROVE AllSound'
    OBVIOUS
  <1>1. CASE store' = store
    BY <1>1 DEF AllSound
  <1>2. CASE EditSome
    <2> PICK c \in 0..Len(store), as_node \in Nodes,
             critique \in EditCritiques \cup {None}, count \in EditCounts \cup {None} :
               edit_thread_checkpoint(c, as_node, critique, count)
      BY <1>2 DEF EditSome
    <2> DEFINE v == edited_values(ValuesAt(c), critique, count)
               k == [parent |-> c, values |-> v, next |-> Edge(as_node, v),
                     source |-> "update", edited |-> TRUE]
    <2>1. store' = Append(store, k) /\ k.edited
      BY DEF edit_thread_checkpoint
    <2> HIDE DEF k
    <2>2. Sound(k)
      BY <2>1 DEF Sound
    <2> QED
      BY <2>1, <2>2, AppendSound DEF TypeInv
  <1>3. ASSUME NEW r \in Runs, Serve(r) PROVE AllSound'
    <2>1. ASSUME NEW words \in SUBSET Words, Input(r, words) PROVE AllSound'
      BY <2>1, InputStepSound
    <2>2. ResumeInvoke(r) \/ MemoryRetrieverLacksDb(r) \/ NodeFails(r) \/ OutOfSteps(r)
             \/ Finish(r) => store' = store
      BY DEF ResumeInvoke, MemoryRetrieverLacksDb, NodeFails, OutOfSteps, Finish, Stop
    <2> QED
      BY <1>1, <1>3, <2>1, <2>2, NodeStepSound DEF Serve
  <1>4. ASSUME NEW r \in Runs, Arrive(r) \/ Cancel(r) PROVE store' = store
    BY <1>4 DEF Arrive, Invoke, run_agent, run_agent_stream, ask, analyze_investment,
       run_smoke_test, fork_thread, resume_thread, Start, Cancel, Stop
  <1>5. CASE UNCHANGED vars
    BY <1>1, <1>5 DEF vars
  <1> QED
    BY <1>1, <1>2, <1>3, <1>4, <1>5 DEF Next

\* An empty store is sound.
LEMMA SoundInit == Init => AllSound
  BY DEF Init, AllSound

\* Types and soundness hold throughout.
LEMMA SoundAlways == Spec => [](TypeInv /\ AllSound)
  <1>1. Init => TypeInv /\ AllSound
    BY TypeInvInit, SoundInit
  <1>2. (TypeInv /\ AllSound) /\ [Next]_vars => (TypeInv /\ AllSound)'
    BY TypeInvStep, SoundStep
  <1> QED
    BY <1>1, <1>2, PTL DEF Spec

\* The revision cap of the general worker holds in every turn of every chain,
\* for any revision limit and any interleaving of runs, forks and resumes.
THEOREM RevisionCap == Spec => []DraftsWithinLimit
  <1>1. TypeInv /\ AllSound => DraftsWithinLimit
    <2> SUFFICES ASSUME TypeInv, AllSound, NEW c \in 1..Len(store), Unedited(c), Dispatched(c),
                        store[c].values.route_to = "general"
                 PROVE  DraftCount(store[c].values) <= RevisionLimit
      BY DEF DraftsWithinLimit, DraftCount
    <2> DEFINE v == store[c].values
               next == store[c].next
    <2> SUFFICES DraftCount(v) <= RevisionLimit
      OBVIOUS
    <2>1. TurnSound(v, next)
      BY DEF AllSound, Sound, Unedited
    <2>2. store[c] \in Checkpoints
      BY DEF TypeInv, TypeOK
    <2>3. v \in GraphState
      BY <2>2 DEF Checkpoints
    <2>4. Len(v.messages) \in Nat /\ v.question \in Nat
      BY <2>3, FieldTypes
    <2>5. next \in {"general", "critic", END} \cup {"agent", "tools", "billing",
                                                    "fetch_metrics", "format_report"}
      BY DEF Dispatched, Workers
    <2>6. v.route_to = "general"
      OBVIOUS
    <2> HIDE DEF v, next
    <2> QED
      BY <2>1, <2>4, <2>5, <2>6, RevisionLimitAssumption DEF TurnSound, DraftCount
  <1> QED
    BY <1>1, SoundAlways, PTL

\* No worker ever acts on a route, a context, metrics or an analysis that an
\* earlier turn left behind, for any interleaving of runs, forks, resumes and
\* interruptions.
THEOREM FreshData == Spec => []WorkersUseThisTurnsData
  <1>1. AllSound => WorkersUseThisTurnsData
    BY DEF AllSound, Sound, TurnSound, WorkersUseThisTurnsData, Unedited, Dispatched,
           Workers, END
  <1> QED
    BY <1>1, SoundAlways, PTL

\* A turn that ends without an error ends with an answer of its own.
THEOREM Answered == Spec => []FinishedTurnsAreAnswered
  <1>1. TypeInv /\ AllSound => FinishedTurnsAreAnswered
    <2> SUFFICES ASSUME TypeInv, AllSound, NEW c \in 1..Len(store), Unedited(c),
                        store[c].next = END
                 PROVE  LET v == store[c].values IN
                        \/ v.route_to = "investment" /\ v.analysis.turn = v.question
                        \/ /\ Len(v.messages) > v.question
                           /\ LastMessage(v).type = "ai" /\ ~LastMessage(v).calls
                           /\ v.route_to = "general" =>
                                 v.critique = "PASS" /\ (passes(v) \/ v.revision_count >= RevisionLimit)
      BY DEF FinishedTurnsAreAnswered
    <2> DEFINE v == store[c].values
    <2>1. TurnSound(v, END)
      BY DEF AllSound, Sound, Unedited
    <2>2. store[c] \in Checkpoints
      BY DEF TypeInv, TypeOK
    <2>3. v \in GraphState
      BY <2>2 DEF Checkpoints
    <2>4. Len(v.messages) \in Nat /\ v.question \in Nat
      BY <2>3, FieldTypes
    <2> HIDE DEF v
    <2>5. CASE v.route_to = "investment"
      BY <2>1, <2>5 DEF TurnSound, v
    <2>6. CASE v.route_to # "investment"
      <3>1. Len(v.messages) > v.question /\ LastMessage(v).type = "ai" /\ ~LastMessage(v).calls
        BY <2>1, <2>4, <2>6 DEF TurnSound, DraftCount
      <3>2. v.route_to = "general" =>
               v.critique = "PASS" /\ (passes(v) \/ v.revision_count >= RevisionLimit)
        BY <2>1 DEF TurnSound
      <3> QED
        BY <3>1, <3>2 DEF v
    <2> QED
      BY <2>5, <2>6
  <1> QED
    BY <1>1, SoundAlways, PTL

-----------------------------------------------------------------------------
(* The shapes of a step: all that the remaining invariants need to know.   *)

\* The attempts of the general worker a log holds a line for.
Logged(logs, n) == \E i \in 1..Len(logs) : logs[i] = Line("general", n, "-")

\* What a node makes of the state v: it appends at most one message, not a user's,
\* and one log line, only general_worker counts attempts, critic needs a count, and
\* metrics come from a user message and an analysis from the metrics.
Leaves(v, node, w) ==
    /\ w \in GraphState
    /\ w.question = v.question
    /\ \/ w.messages = v.messages
       \/ \E m \in Messages : m.type # "human" /\ w.messages = Append(v.messages, m)
    /\ \/ w.tool_result = v.tool_result
       \/ \E i \in Tickers(v) : w.tool_result = [turn |-> v.question, ticker |-> i]
    /\ w.analysis = v.analysis \/ w.analysis = v.tool_result
    /\ Attempts(w) = IF node = "general" THEN Attempts(v) + 1 ELSE Attempts(v)
    /\ node = "general" => \A n \in Int : Logged(w.internal_logs, n) <=>
                              (Logged(v.internal_logs, n) \/ n = Attempts(v) + 1)
    /\ node # "general" => \A n \in Int : Logged(w.internal_logs, n) <=> Logged(v.internal_logs, n)
    /\ node = "critic" => v.revision_count # None /\ w.critique = verdict(v)

\* The store gains one checkpoint.
Adds(v, next, edited) ==
    /\ Len(store') = Len(store) + 1
    /\ \A c \in 1..Len(store) : store'[c] = store[c]
    /\ store'[Len(store) + 1].values = v
    /\ store'[Len(store) + 1].next = next
    /\ store'[Len(store) + 1].edited = edited
    /\ store'[Len(store) + 1].parent \in 0..Len(store)

\* Only request r moves, to the phase and the checkpoint given.
Moves(r, phase, at) ==
    /\ \A q \in Runs \ {r} : run'[q] = run[q]
    /\ run'[r].phase = phase /\ run'[r].at = at

Begins(r) ==
    \E phase \in {"loaded", "checked", "rejected"}, at \in Nat :
       /\ run[r].phase = "free"
       /\ store' = store
       /\ Moves(r, phase, at)
       /\ run'[r].steps = 0 /\ run'[r].mine = 0 /\ run'[r].reply = "-"
       /\ run'[r].route = "analyze" => phase = "loaded" /\ at = 0

Asks(r) ==
    \E words \in SUBSET Words :
       /\ run[r].phase = "loaded" /\ run[r].at \in 0..Len(store)
       /\ Adds(AddInput(ValuesAt(run[r].at), words), "router", EditedAt(run[r].at))
       /\ Moves(r, "running", Len(store) + 1)
       /\ run'[r].steps = run[r].steps /\ run'[r].mine = Len(store) + 1
       /\ run'[r].route = run[r].route /\ run'[r].reply = run[r].reply

Resumes(r) ==
    /\ run[r].phase = "checked" /\ Len(store) > 0
    /\ store' = store
    /\ Moves(r, "running", Len(store))
    /\ run'[r].steps = run[r].steps /\ run'[r].mine = run[r].mine
    /\ run'[r].route = run[r].route /\ run'[r].reply = run[r].reply

Works(r) ==
    \E node \in Nodes, v \in GraphState :
       /\ Pending(r, node)
       /\ Leaves(Values(r), node, v)
       /\ Adds(v, Edge(node, v), EditedAt(run[r].at))
       /\ store'[Len(store) + 1].parent = run[r].at
       /\ Moves(r, "running", Len(store) + 1)
       /\ run'[r].steps = run[r].steps + 1 /\ run'[r].mine = run[r].mine
       /\ run'[r].route = run[r].route /\ run'[r].reply = run[r].reply

\* An /analyze run at the end of a turn that wrote an analysis.
Analyses(r) ==
    run[r].phase = "running" /\ run[r].route = "analyze" /\ Values(r).analysis # NoMetrics

Ends(r) ==
    \E phase \in Stopped :
       /\ run[r].phase \in Active
       /\ store' = store
       /\ Moves(r, phase, run[r].at)
       /\ run'[r].steps = run[r].steps /\ run'[r].mine = run[r].mine
       /\ run'[r].route = run[r].route
       /\ phase = "recursion" => run[r].phase = "running" /\ run[r].steps = StepLimit(r)
       /\ run'[r].reply = "analysis" /\ run[r].reply # "analysis" => Analyses(r)

Edited ==
    \E c \in 0..Len(store), as_node \in Nodes,
       critique \in EditCritiques \cup {None}, count \in EditCounts \cup {None} :
          LET v == edited_values(ValuesAt(c), critique, count) IN
          run' = run /\ Adds(v, Edge(as_node, v), TRUE)

\* Merging a line changes which attempts are logged only by that line.
LEMMA MergedLogged ==
    ASSUME NEW base \in Seq(LogLines), NEW line \in LogLines, NEW n \in Int
    PROVE  Logged(merge_logs(base, line), n) <=>
              (Logged(base, n) \/ line = Line("general", n, "-"))
  <1> DEFINE l == merge_logs(base, line)
  <1>1. /\ l \in Seq(LogLines)
        /\ Len(l) \in {Len(base), Len(base) + 1}
        /\ \A i \in 1..Len(base) : l[i] = base[i]
        /\ \E i \in 1..Len(l) : l[i] = line
        /\ \A i \in (Len(base) + 1)..Len(l) :
              l[i] = line /\ \A j \in 1..Len(base) : base[j] # line
    BY MergeLogs
  <1>2. Len(base) \in Nat /\ Len(l) \in Nat
    BY <1>1
  <1>3. \A i \in 1..Len(l) : i \in 1..Len(base) \/ i \in (Len(base) + 1)..Len(l)
    BY <1>2
  <1>4. \A i \in 1..Len(base) : i \in 1..Len(l)
    BY <1>1, <1>2
  <1> HIDE DEF l
  <1> DEFINE g == Line("general", n, "-")
  <1> HIDE DEF g
  <1>5. (\E i \in 1..Len(l) : l[i] = g) <=> ((\E i \in 1..Len(base) : base[i] = g) \/ line = g)
    BY <1>1, <1>3, <1>4
  <1> QED
    BY <1>5 DEF Logged, l, g

\* The line of another node is not a line of the general worker.
LEMMA OtherLines ==
    ASSUME NEW v \in GraphState, NEW node \in Nodes \ {"general"}, NEW k \in Int,
           NEW text \in RouteNames \cup Verdicts \cup {"-"}, NEW n \in Int
    PROVE  Logged(merge_logs(v.internal_logs, Line(node, k, text)), n)
              <=> Logged(v.internal_logs, n)
  <1>1. Line(node, k, text) \in LogLines
    BY DEF LogLines, Line
  <1>2. Line(node, k, text) # Line("general", n, "-")
    BY DEF Line
  <1> QED
    BY <1>1, <1>2, FieldTypes, MergedLogged

\* The router writes the route and a line of its own.
LEMMA RouterLeaves ==
    ASSUME NEW v \in GraphState
    PROVE  Leaves(v, "router", route_request(v))
  <1> DEFINE w == route_request(v)
  <1>1. w \in GraphState
    BY RouteType
  <1>2. w.question = v.question /\ w.messages = v.messages /\ w.revision_count = v.revision_count
          /\ w.tool_result = v.tool_result /\ w.analysis = v.analysis
    BY DEF route_request, GraphState
  <1>3. w.internal_logs = merge_logs(v.internal_logs, Line("router", 0, classify(LastMessage(v).words)))
    BY DEF route_request, GraphState
  <1>4. classify(LastMessage(v).words) \in RouteNames
    BY DEF classify, RouteNames, Families
  <1>5. \A n \in Int : Logged(w.internal_logs, n) <=> Logged(v.internal_logs, n)
    BY <1>3, OtherLines, <1>4 DEF Nodes
  <1>6. Attempts(w) = Attempts(v)
    BY <1>2 DEF Attempts
  <1> HIDE DEF w
  <1> QED
    BY <1>1, <1>2, <1>5, <1>6 DEF Leaves, w

\* The retriever writes the context and a line of its own.
LEMMA RetrieverLeaves ==
    ASSUME NEW v \in GraphState
    PROVE  Leaves(v, "memory_retriever", retrieve_semantic_memories(v))
  <1> DEFINE w == retrieve_semantic_memories(v)
  <1>1. w \in GraphState
    BY RetrieveType
  <1>2. w.question = v.question /\ w.messages = v.messages /\ w.revision_count = v.revision_count
          /\ w.tool_result = v.tool_result /\ w.analysis = v.analysis
    BY DEF retrieve_semantic_memories, GraphState
  <1>3. w.internal_logs = merge_logs(v.internal_logs, Line("memory_retriever", 0, "-"))
    BY DEF retrieve_semantic_memories, GraphState
  <1>4. \A n \in Int : Logged(w.internal_logs, n) <=> Logged(v.internal_logs, n)
    BY <1>3, OtherLines DEF Nodes
  <1>5. Attempts(w) = Attempts(v)
    BY <1>2 DEF Attempts
  <1> HIDE DEF w
  <1> QED
    BY <1>1, <1>2, <1>4, <1>5 DEF Leaves, w

\* The agent appends its answer and a line of its own.
LEMMA AgentLeaves ==
    ASSUME NEW v \in GraphState, NEW m \in Messages, m.type # "human"
    PROVE  Leaves(v, "agent", call_model(v, m))
  <1> DEFINE w == call_model(v, m)
  <1>1. w \in GraphState
    BY AgentType
  <1>2. w.question = v.question /\ w.messages = Append(v.messages, m) /\ w.revision_count = v.revision_count
          /\ w.tool_result = v.tool_result /\ w.analysis = v.analysis
    BY DEF call_model, GraphState
  <1>3. w.internal_logs = merge_logs(v.internal_logs, Line("agent", 0, "-"))
    BY DEF call_model, GraphState
  <1>4. \A n \in Int : Logged(w.internal_logs, n) <=> Logged(v.internal_logs, n)
    BY <1>3, OtherLines DEF Nodes
  <1>5. Attempts(w) = Attempts(v)
    BY <1>2 DEF Attempts
  <1> HIDE DEF w
  <1> QED
    BY <1>1, <1>2, <1>4, <1>5 DEF Leaves, w

\* The tools node appends a tool message.
LEMMA ToolsLeaves ==
    ASSUME NEW v \in GraphState
    PROVE  Leaves(v, "tools", tools(v))
  <1> DEFINE w == tools(v)
  <1>1. w \in GraphState
    BY ToolsType
  <1>2. w.question = v.question /\ w.messages = Append(v.messages, ToolMessage) /\ w.revision_count = v.revision_count
          /\ w.tool_result = v.tool_result /\ w.analysis = v.analysis
    BY DEF tools, GraphState
  <1>3. w.internal_logs = v.internal_logs
    BY DEF tools, GraphState
  <1>4. \A n \in Int : Logged(w.internal_logs, n) <=> Logged(v.internal_logs, n)
    BY <1>3
  <1>5. Attempts(w) = Attempts(v) /\ ToolMessage \in Messages /\ ToolMessage.type # "human"
    BY <1>2 DEF Attempts, ToolMessage, Messages
  <1> HIDE DEF w
  <1> QED
    BY <1>1, <1>2, <1>4, <1>5 DEF Leaves, w

\* The billing worker appends its answer and a line of its own.
LEMMA BillingLeaves ==
    ASSUME NEW v \in GraphState, NEW m \in Messages, m.type # "human"
    PROVE  Leaves(v, "billing", billing_worker(v, m))
  <1> DEFINE w == billing_worker(v, m)
  <1>1. w \in GraphState
    BY BillingType
  <1>2. w.question = v.question /\ w.messages = Append(v.messages, m) /\ w.revision_count = v.revision_count
          /\ w.tool_result = v.tool_result /\ w.analysis = v.analysis
    BY DEF billing_worker, GraphState
  <1>3. w.internal_logs = merge_logs(v.internal_logs, Line("billing", 0, "-"))
    BY DEF billing_worker, GraphState
  <1>4. \A n \in Int : Logged(w.internal_logs, n) <=> Logged(v.internal_logs, n)
    BY <1>3, OtherLines DEF Nodes
  <1>5. Attempts(w) = Attempts(v)
    BY <1>2 DEF Attempts
  <1> HIDE DEF w
  <1> QED
    BY <1>1, <1>2, <1>4, <1>5 DEF Leaves, w

\* The general worker counts an attempt and logs it.
LEMMA GeneralLeaves ==
    ASSUME NEW v \in GraphState, NEW m \in Messages, m.type # "human"
    PROVE  Leaves(v, "general", general_worker(v, m))
  <1> DEFINE w == general_worker(v, m)
  <1>1. w \in GraphState
    BY GeneralType
  <1>2. w.question = v.question /\ w.messages = Append(v.messages, m) /\ w.revision_count = Attempts(v) + 1
          /\ w.tool_result = v.tool_result /\ w.analysis = v.analysis
    BY DEF general_worker, GraphState
  <1>3. w.internal_logs = merge_logs(v.internal_logs, Line("general", Attempts(v) + 1, "-"))
    BY DEF general_worker, GraphState
  <1>4. Attempts(v) + 1 \in Int
    BY FieldTypes DEF Attempts
  <1>5. Attempts(v) + 1 # None
    BY <1>4, NoneAssumption
  <1>6. Attempts(w) = Attempts(v) + 1
    BY <1>2, <1>5 DEF Attempts
  <1>7. ASSUME NEW n \in Int
        PROVE  Logged(w.internal_logs, n) <=>
                  (Logged(v.internal_logs, n) \/ n = Attempts(v) + 1)
    <2> DEFINE a == Attempts(v) + 1
    <2>1. a \in Int /\ w.internal_logs = merge_logs(v.internal_logs, Line("general", a, "-"))
      BY <1>3, <1>4
    <2> HIDE DEF a
    <2>2. Line("general", a, "-") \in LogLines
      BY <2>1 DEF LogLines, Line, Nodes
    <2>3. Line("general", a, "-") = Line("general", n, "-") <=> n = a
      BY DEF Line
    <2>4. v.internal_logs \in Seq(LogLines)
      BY FieldTypes
    <2>5. Logged(w.internal_logs, n) <=> (Logged(v.internal_logs, n) \/ n = a)
      BY <2>1, <2>2, <2>3, <2>4, MergedLogged
    <2> QED
      BY <2>5 DEF a
  <1> HIDE DEF w
  <1> QED
    BY <1>1, <1>2, <1>6, <1>7 DEF Leaves, w

\* The critic writes its verdict on the attempt and a line of its own.
LEMMA CriticLeaves ==
    ASSUME NEW v \in GraphState, ~CriticRaises(v)
    PROVE  Leaves(v, "critic", critic(v))
  <1> DEFINE w == critic(v)
  <1>1. w \in GraphState
    BY CriticType
  <1>2. w.question = v.question /\ w.messages = v.messages
          /\ w.revision_count = v.revision_count /\ w.critique = verdict(v)
          /\ w.tool_result = v.tool_result /\ w.analysis = v.analysis
    BY DEF critic, GraphState
  <1>3. w.internal_logs =
          merge_logs(v.internal_logs, Line("critic", v.revision_count, verdict(v)))
    BY DEF critic, GraphState
  <1>4. v.revision_count \in Int /\ verdict(v) \in Verdicts
    BY FieldTypes DEF CriticRaises, verdict, Verdicts
  <1>5. \A n \in Int : Logged(w.internal_logs, n) <=> Logged(v.internal_logs, n)
    BY <1>3, <1>4, OtherLines DEF Nodes
  <1>6. Attempts(w) = Attempts(v) /\ v.revision_count # None
    BY <1>2 DEF Attempts, CriticRaises
  <1> HIDE DEF w
  <1> QED
    BY <1>1, <1>2, <1>5, <1>6 DEF Leaves, w

\* The metrics node writes the metrics and a line of its own.
LEMMA FetchLeaves ==
    ASSUME NEW v \in GraphState, NEW ticker \in Tickers(v)
    PROVE  Leaves(v, "fetch_metrics", fetch_market_metrics(v, ticker))
  <1> DEFINE w == fetch_market_metrics(v, ticker)
  <1>1. w \in GraphState
    BY FetchType
  <1>2. w.question = v.question /\ w.messages = v.messages /\ w.revision_count = v.revision_count
          /\ w.tool_result = [turn |-> v.question, ticker |-> ticker] /\ w.analysis = v.analysis
    BY DEF fetch_market_metrics, GraphState
  <1>3. w.internal_logs = merge_logs(v.internal_logs, Line("fetch_metrics", ticker, "-"))
    BY DEF fetch_market_metrics, GraphState
  <1>4. ticker \in Int
    BY FieldTypes DEF Tickers
  <1>5. \A n \in Int : Logged(w.internal_logs, n) <=> Logged(v.internal_logs, n)
    BY <1>3, OtherLines, <1>4 DEF Nodes
  <1>6. Attempts(w) = Attempts(v)
    BY <1>2 DEF Attempts
  <1> HIDE DEF w
  <1> QED
    BY <1>1, <1>2, <1>5, <1>6 DEF Leaves, w

\* The report node writes the analysis and a line of its own.
LEMMA ReportLeaves ==
    ASSUME NEW v \in GraphState
    PROVE  Leaves(v, "format_report", generate_structured_report(v))
  <1> DEFINE w == generate_structured_report(v)
  <1>1. w \in GraphState
    BY ReportType
  <1>2. w.question = v.question /\ w.messages = v.messages /\ w.revision_count = v.revision_count
          /\ w.tool_result = v.tool_result /\ w.analysis = v.tool_result
    BY DEF generate_structured_report, GraphState
  <1>3. w.internal_logs = merge_logs(v.internal_logs, Line("format_report", 0, "-"))
    BY DEF generate_structured_report, GraphState
  <1>4. \A n \in Int : Logged(w.internal_logs, n) <=> Logged(v.internal_logs, n)
    BY <1>3, OtherLines DEF Nodes
  <1>5. Attempts(w) = Attempts(v)
    BY <1>2 DEF Attempts
  <1> HIDE DEF w
  <1> QED
    BY <1>1, <1>2, <1>4, <1>5 DEF Leaves, w

\* Appending a checkpoint, as the invariants below see it.
LEMMA AppendAdds ==
    ASSUME TypeOK, NEW k, k.parent \in 0..Len(store), store' = Append(store, k)
    PROVE  /\ Adds(k.values, k.next, k.edited)
           /\ store'[Len(store) + 1].parent = k.parent
  <1>1. store \in Seq(Checkpoints) /\ Len(store) \in Nat
    BY DEF TypeOK
  <1>2. Len(store') = Len(store) + 1 /\ store'[Len(store) + 1] = k
          /\ \A c \in 1..Len(store) : store'[c] = store[c]
    BY <1>1
  <1> QED
    BY <1>2 DEF Adds

\* Replacing the record of one request, as the invariants below see it.
LEMMA ReplaceMoves ==
    ASSUME TypeOK, NEW r \in Runs, NEW rec, run' = [run EXCEPT ![r] = rec]
    PROVE  Moves(r, rec.phase, rec.at) /\ run'[r] = rec
  BY DEF TypeOK, Moves

\* A super-step whose node leaves v.
LEMMA ExtendWorks ==
    ASSUME TypeInv, NEW r \in Runs, NEW node \in Nodes, NEW v,
           Pending(r, node), Leaves(Values(r), node, v), Extend(r, node, v)
    PROVE  Works(r)
  <1> DEFINE k == [parent |-> run[r].at, values |-> v, next |-> Edge(node, v),
                   source |-> "loop", edited |-> EditedAt(run[r].at)]
             n == Len(store) + 1
             i == run[r].steps + 1
             rec == [run[r] EXCEPT !.at = n, !.steps = i]
  <1>1. run[r] \in RunRecords
    BY DEF TypeInv, TypeOK
  <1>2. store' = Append(store, k) /\ run' = [run EXCEPT ![r] = rec]
    BY DEF Extend, Latest
  <1>3. k.values = v /\ k.next = Edge(node, v) /\ k.edited = EditedAt(run[r].at)
          /\ k.parent = run[r].at
    OBVIOUS
  <1>0. run[r].at \in 0..Len(store)
    BY ValuesType DEF Pending
  <1>4. rec.phase = "running" /\ rec.at = n /\ rec.steps = i /\ rec.mine = run[r].mine
          /\ rec.route = run[r].route /\ rec.reply = run[r].reply
    <2> HIDE DEF n, i
    <2> QED
      BY <1>1 DEF RunRecords, Pending
  <1> HIDE DEF k, rec
  <1>5. /\ Adds(v, Edge(node, v), EditedAt(run[r].at))
        /\ store'[Len(store) + 1].parent = run[r].at
    BY <1>0, <1>2, <1>3, AppendAdds DEF TypeInv
  <1>6. Moves(r, "running", Len(store) + 1) /\ run'[r] = rec
    BY <1>2, <1>4, ReplaceMoves DEF TypeInv
  <1>7. run'[r].steps = run[r].steps + 1 /\ run'[r].mine = run[r].mine
          /\ run'[r].route = run[r].route /\ run'[r].reply = run[r].reply
    BY <1>4, <1>6
  <1>8. v \in GraphState
    BY DEF Leaves
  <1> QED
    BY <1>5, <1>6, <1>7, <1>8 DEF Works

\* Every node step has that shape.
LEMMA NodeWorks ==
    ASSUME TypeInv, NEW r \in Runs,
           Router(r) \/ MemoryRetriever(r) \/ Agent(r) \/ Tools(r) \/ Billing(r)
             \/ General(r) \/ Critic(r) \/ FetchMetrics(r) \/ FormatReport(r)
    PROVE  Works(r)
  <1>1. run[r].phase = "running"
    BY DEF Router, MemoryRetriever, Agent, Tools, Billing, General, Critic,
           FetchMetrics, FormatReport, Pending
  <1>2. Values(r) \in GraphState
    BY <1>1, ValuesType
  <1>3. CASE Router(r)
    BY <1>2, <1>3, RouterLeaves, ExtendWorks DEF Router, Nodes
  <1>4. CASE MemoryRetriever(r)
    BY <1>2, <1>4, RetrieverLeaves, ExtendWorks DEF MemoryRetriever, Nodes
  <1>5. CASE Agent(r)
    BY <1>2, <1>5, AgentLeaves, DraftsType, DraftFacts, ExtendWorks DEF Agent, Nodes
  <1>6. CASE Tools(r)
    BY <1>2, <1>6, ToolsLeaves, ExtendWorks DEF Tools, Nodes
  <1>7. CASE Billing(r)
    BY <1>2, <1>7, BillingLeaves, DraftsType, DraftFacts, ExtendWorks DEF Billing, Nodes
  <1>8. CASE General(r)
    BY <1>2, <1>8, GeneralLeaves, DraftsType, DraftFacts, ExtendWorks DEF General, Nodes
  <1>9. CASE Critic(r)
    BY <1>2, <1>9, CriticLeaves, ExtendWorks DEF Critic, Nodes
  <1>10. CASE FetchMetrics(r)
    <2> PICK ticker \in Tickers(Values(r)) :
               Extend(r, "fetch_metrics", fetch_market_metrics(Values(r), ticker))
      BY <1>10 DEF FetchMetrics
    <2> QED
      BY <1>2, <1>10, FetchLeaves, ExtendWorks DEF FetchMetrics, Nodes
  <1>11. CASE FormatReport(r)
    BY <1>2, <1>11, ReportLeaves, ExtendWorks DEF FormatReport, Nodes
  <1> QED
    BY <1>3, <1>4, <1>5, <1>6, <1>7, <1>8, <1>9, <1>10, <1>11

\* The input step writes the request's own question.
LEMMA InputAsks ==
    ASSUME TypeInv, NEW r \in Runs, NEW words \in SUBSET Words, Input(r, words)
    PROVE  Asks(r)
  <1> DEFINE k == [parent |-> run[r].at,
                   values |-> AddInput(ValuesAt(run[r].at), words),
                   next |-> "router", source |-> "input",
                   edited |-> EditedAt(run[r].at)]
             n == Len(store) + 1
             rec == [run[r] EXCEPT !.phase = "running", !.at = n, !.mine = n]
  <1>1. run[r] \in RunRecords
    BY DEF TypeInv, TypeOK
  <1>2. store' = Append(store, k) /\ run' = [run EXCEPT ![r] = rec]
    BY DEF Input, Latest
  <1>3. k.values = AddInput(ValuesAt(run[r].at), words) /\ k.next = "router"
          /\ k.edited = EditedAt(run[r].at) /\ k.parent = run[r].at
    OBVIOUS
  <1>4. rec.phase = "running" /\ rec.at = n /\ rec.steps = run[r].steps /\ rec.mine = n
          /\ rec.route = run[r].route /\ rec.reply = run[r].reply
    <2> HIDE DEF n
    <2> QED
      BY <1>1 DEF RunRecords
  <1>5. run[r].phase = "loaded" /\ run[r].at \in 0..Len(store)
    BY DEF TypeInv, Anchored, Input
  <1> HIDE DEF k, rec
  <1>6. Adds(AddInput(ValuesAt(run[r].at), words), "router", EditedAt(run[r].at))
    BY <1>2, <1>3, <1>5, AppendAdds DEF TypeInv
  <1>7. Moves(r, "running", Len(store) + 1) /\ run'[r] = rec
    BY <1>2, <1>4, ReplaceMoves DEF TypeInv
  <1>8. run'[r].steps = run[r].steps /\ run'[r].mine = Len(store) + 1
          /\ run'[r].route = run[r].route /\ run'[r].reply = run[r].reply
    BY <1>4, <1>7
  <1> QED
    BY <1>5, <1>6, <1>7, <1>8 DEF Asks

\* A resumed run continues from the newest checkpoint.
LEMMA ResumeResumes ==
    ASSUME TypeInv, NEW r \in Runs, ResumeInvoke(r)
    PROVE  Resumes(r)
  <1> DEFINE n == Len(store)
             rec == [run[r] EXCEPT !.phase = "running", !.at = n]
  <1>1. run[r] \in RunRecords
    BY DEF TypeInv, TypeOK
  <1>2. store' = store /\ run' = [run EXCEPT ![r] = rec]
    BY DEF ResumeInvoke, Latest
  <1>3. rec.phase = "running" /\ rec.at = n /\ rec.steps = run[r].steps
          /\ rec.mine = run[r].mine /\ rec.route = run[r].route /\ rec.reply = run[r].reply
    <2> HIDE DEF n
    <2> QED
      BY <1>1 DEF RunRecords
  <1>4. run[r].phase = "checked" /\ Len(store) > 0
    BY DEF TypeInv, Anchored, ResumeInvoke
  <1> HIDE DEF rec
  <1>5. Moves(r, "running", Len(store)) /\ run'[r] = rec
    BY <1>2, <1>3, ReplaceMoves DEF TypeInv
  <1>6. run'[r].steps = run[r].steps /\ run'[r].mine = run[r].mine
          /\ run'[r].route = run[r].route /\ run'[r].reply = run[r].reply
    BY <1>3, <1>5
  <1> QED
    BY <1>2, <1>4, <1>5, <1>6 DEF Resumes

\* An accepted request has run no step and written no input yet.
LEMMA StartBegins ==
    ASSUME TypeInv, NEW r \in Runs, NEW route, NEW user, NEW base \in Nat,
           NEW phase \in {"loaded", "checked", "rejected"},
           route = "analyze" => phase = "loaded" /\ base = 0,
           Start(r, route, user, base, phase)
    PROVE  Begins(r)
  <1> DEFINE rec == [Idle EXCEPT !.route = route, !.user = user, !.phase = phase,
                                 !.at = base]
  <1>1. rec.phase = phase /\ rec.at = base /\ rec.steps = 0 /\ rec.mine = 0
          /\ rec.route = route /\ rec.reply = "-"
    BY DEF Idle
  <1>2. run[r].phase = "free" /\ run' = [run EXCEPT ![r] = rec] /\ store' = store
    BY DEF Start
  <1> HIDE DEF rec
  <1>3. Moves(r, phase, base) /\ run'[r] = rec
    BY <1>1, <1>2, ReplaceMoves DEF TypeInv
  <1> QED
    BY <1>1, <1>2, <1>3 DEF Begins

\* A request that stops stays on the checkpoint it stands on.
LEMMA StopEnds ==
    ASSUME TypeInv, NEW r \in Runs, NEW phase \in Stopped, NEW reply,
           phase = "recursion" => OutOfSteps(r),
           reply = "analysis" => Analyses(r),
           run[r].phase \in Active, Stop(r, phase, reply)
    PROVE  Ends(r)
  <1> DEFINE rec == [run[r] EXCEPT !.phase = phase, !.reply = reply]
  <1>1. run[r] \in RunRecords
    BY DEF TypeInv, TypeOK
  <1>2. rec.phase = phase /\ rec.at = run[r].at /\ rec.steps = run[r].steps
          /\ rec.mine = run[r].mine /\ rec.route = run[r].route /\ rec.reply = reply
    BY <1>1 DEF RunRecords
  <1>3. run' = [run EXCEPT ![r] = rec] /\ store' = store
    BY DEF Stop
  <1> HIDE DEF rec
  <1>4. Moves(r, phase, run[r].at) /\ run'[r] = rec
    BY <1>2, <1>3, ReplaceMoves DEF TypeInv
  <1>5. phase = "recursion" => run[r].phase = "running" /\ run[r].steps = StepLimit(r)
    BY DEF OutOfSteps
  <1> QED
    BY <1>2, <1>3, <1>4, <1>5 DEF Ends

\* The retriever without a session ends the run.
LEMMA LacksDbEnds ==
    ASSUME TypeInv, NEW r \in Runs, MemoryRetrieverLacksDb(r)
    PROVE  Ends(r)
  <1> DEFINE rec == [run[r] EXCEPT !.phase = "nodb"]
  <1>1. run[r] \in RunRecords
    BY DEF TypeInv, TypeOK
  <1>2. rec.phase = "nodb" /\ rec.at = run[r].at /\ rec.steps = run[r].steps
          /\ rec.mine = run[r].mine /\ rec.route = run[r].route /\ rec.reply = run[r].reply
    BY <1>1 DEF RunRecords
  <1>3. run' = [run EXCEPT ![r] = rec] /\ store' = store
    BY DEF MemoryRetrieverLacksDb
  <1> HIDE DEF rec
  <1>4. Moves(r, "nodb", run[r].at) /\ run'[r] = rec
    BY <1>2, <1>3, ReplaceMoves DEF TypeInv
  <1>5. run[r].phase \in Active
    BY DEF MemoryRetrieverLacksDb, Pending, Active
  <1> QED
    BY <1>2, <1>3, <1>4, <1>5 DEF Ends, Stopped

\* Every step has one of the shapes.
LEMMA StepShapes ==
    ASSUME TypeInv, [Next]_vars
    PROVE  \/ UNCHANGED vars
           \/ Edited
           \/ \E r \in Runs : Begins(r) \/ Asks(r) \/ Resumes(r) \/ Works(r) \/ Ends(r)
  <1>0. Len(store) \in Nat /\ Latest = Len(store)
    BY DEF TypeInv, TypeOK, Latest
  <1>1. CASE EditSome
    <2> PICK c \in 0..Len(store), as_node \in Nodes,
             critique \in EditCritiques \cup {None}, count \in EditCounts \cup {None} :
               edit_thread_checkpoint(c, as_node, critique, count)
      BY <1>1 DEF EditSome
    <2> DEFINE v == edited_values(ValuesAt(c), critique, count)
               k == [parent |-> c, values |-> v, next |-> Edge(as_node, v),
                     source |-> "update", edited |-> TRUE]
    <2>1. store' = Append(store, k) /\ run' = run
      BY DEF edit_thread_checkpoint
    <2>2. k.values = v /\ k.next = Edge(as_node, v) /\ k.edited = TRUE /\ k.parent \in 0..Len(store)
      OBVIOUS
    <2> HIDE DEF k
    <2>3. Adds(v, Edge(as_node, v), TRUE)
      BY <2>1, <2>2, AppendAdds DEF TypeInv
    <2> QED
      BY <2>1, <2>3 DEF Edited
  <1>2. ASSUME NEW r \in Runs, Arrive(r) PROVE Begins(r)
    <2>1. ASSUME NEW route, NEW user, Invoke(r, route, user),
                 route # "analyze" \/ store = << >>
          PROVE  Begins(r)
      <3>1. Start(r, route, user, Len(store), "loaded")
        BY <1>0, <2>1 DEF Invoke
      <3>2. route = "analyze" => Len(store) = 0
        BY <2>1
      <3> QED
        BY <1>0, <3>1, <3>2, StartBegins
    <2>2. ASSUME NEW user, NEW c \in 0..Len(store), fork_thread(r, user, c) PROVE Begins(r)
      BY <1>0, <2>2, StartBegins DEF fork_thread
    <2>3. ASSUME NEW user, resume_thread(r, user) PROVE Begins(r)
      <3> DEFINE phase == IF is_interrupted THEN "checked" ELSE "rejected"
      <3>1. Start(r, "resume", user, 0, phase)
        BY <2>3 DEF resume_thread
      <3>2. phase \in {"loaded", "checked", "rejected"}
        OBVIOUS
      <3> HIDE DEF phase
      <3> QED
        BY <3>1, <3>2, StartBegins
    <2> QED
      BY <1>2, <2>1, <2>2, <2>3 DEF Arrive, run_agent, run_agent_stream, ask,
         analyze_investment, run_smoke_test
  <1>3. ASSUME NEW r \in Runs, Serve(r) PROVE Asks(r) \/ Resumes(r) \/ Works(r) \/ Ends(r)
    <2>1. ASSUME NEW words \in SUBSET Words, Input(r, words) PROVE Asks(r)
      BY <2>1, InputAsks
    <2>2. CASE NodeFails(r)
      <3>1. Stop(r, "failed", "error") /\ run[r].phase \in Active
        BY <2>2 DEF NodeFails, Pending, Active
      <3> QED
        BY <3>1, StopEnds DEF Stopped
    <2>3. CASE OutOfSteps(r)
      <3>1. Stop(r, "recursion", "error") /\ run[r].phase \in Active
        BY <2>3 DEF OutOfSteps, Active
      <3> QED
        BY <2>3, <3>1, StopEnds DEF Stopped
    <2>4. CASE Finish(r)
      <3>1. Stop(r, "done", ReplyOf(r)) /\ run[r].phase = "running"
        BY <2>4 DEF Finish, Pending
      <3>2. ReplyOf(r) = "analysis" => Analyses(r)
        BY <3>1 DEF ReplyOf, Analyses
      <3> QED
        BY <3>1, <3>2, StopEnds DEF Active, Stopped
    <2> QED
      BY <1>3, <2>1, <2>2, <2>3, <2>4, ResumeResumes, NodeWorks, LacksDbEnds DEF Serve
  <1>4. ASSUME NEW r \in Runs, Cancel(r) PROVE Ends(r)
    BY <1>4, StopEnds DEF Cancel, Stopped
  <1> QED
    BY <1>1, <1>2, <1>3, <1>4 DEF Next

-----------------------------------------------------------------------------
(* The audit trail of the general worker.                                  *)

\* The log names the attempts counted so far, and no other.
LogSound(v) ==
    /\ Attempts(v) \in Nat
    /\ \A n \in Int : n >= 1 => (n <= Attempts(v) <=> Logged(v.internal_logs, n))

LogsSound == \A c \in 1..Len(store) : ~store[c].edited => LogSound(store[c].values)

\* A new checkpoint keeps the logs sound if its own is, unless it is edited.
LEMMA AddsLogSound ==
    ASSUME TypeOK, LogsSound, NEW v, NEW next, NEW edited, Adds(v, next, edited),
           ~edited => LogSound(v)
    PROVE  LogsSound'
  <1>1. Len(store) \in Nat
    BY DEF TypeOK
  <1> SUFFICES ASSUME NEW c \in 1..Len(store'), ~store'[c].edited
               PROVE  LogSound(store'[c].values)
    BY DEF LogsSound
  <1>2. CASE c = Len(store) + 1
    BY <1>2 DEF Adds
  <1>3. CASE c # Len(store) + 1
    <2>1. c \in 1..Len(store)
      BY <1>1, <1>3 DEF Adds
    <2> QED
      BY <2>1 DEF Adds, LogsSound
  <1> QED
    BY <1>2, <1>3

\* What an invocation loads has a sound log, an empty thread too.
LEMMA LoadedLogSound ==
    ASSUME LogsSound, NEW c \in 0..Len(store), Len(store) \in Nat, ~EditedAt(c)
    PROVE  LogSound(ValuesAt(c))
  <1>1. CASE c = 0
    <2>1. ValuesAt(c) = EmptyState
      BY <1>1 DEF ValuesAt
    <2>2. Attempts(EmptyState) = 0
      BY DEF Attempts, EmptyState
    <2>3. \A n \in Int : ~Logged(EmptyState.internal_logs, n)
      BY DEF Logged, EmptyState
    <2> QED
      BY <2>1, <2>2, <2>3 DEF LogSound
  <1>2. CASE c # 0
    BY <1>2 DEF LogsSound, ValuesAt, EditedAt
  <1> QED
    BY <1>1, <1>2

\* A node that runs on a sound log leaves a sound log.
LEMMA LeavesLogSound ==
    ASSUME NEW v, NEW node, NEW w, LogSound(v), Leaves(v, node, w)
    PROVE  LogSound(w)
  <1>1. CASE node = "general"
    BY <1>1 DEF LogSound, Leaves
  <1>2. CASE node # "general"
    BY <1>2 DEF LogSound, Leaves
  <1> QED
    BY <1>1, <1>2

\* A new question leaves the log and the count alone.
LEMMA InputLogSound ==
    ASSUME NEW v \in GraphState, NEW words \in SUBSET Words, LogSound(v)
    PROVE  LogSound(AddInput(v, words))
  <1> DEFINE w == AddInput(v, words)
  <1>1. w.internal_logs = v.internal_logs /\ w.revision_count = v.revision_count
    BY DEF AddInput, GraphState
  <1>2. Attempts(w) = Attempts(v)
    BY <1>1 DEF Attempts
  <1> HIDE DEF w
  <1> QED
    BY <1>1, <1>2 DEF LogSound, w

\* Every step keeps the logs sound.
LEMMA LogStep == TypeInv /\ LogsSound /\ [Next]_vars => LogsSound'
  <1> SUFFICES ASSUME TypeInv, LogsSound, [Next]_vars PROVE LogsSound'
    OBVIOUS
  <1>0. TypeOK /\ Len(store) \in Nat
    BY DEF TypeInv, TypeOK
  <1>1. CASE store' = store
    BY <1>1 DEF LogsSound
  <1>2. CASE Edited
    BY <1>0, <1>2, AddsLogSound DEF Edited
  <1>3. ASSUME NEW r \in Runs, Asks(r) PROVE LogsSound'
    <2> PICK words \in SUBSET Words :
               /\ run[r].phase = "loaded" /\ run[r].at \in 0..Len(store)
               /\ Adds(AddInput(ValuesAt(run[r].at), words), "router", EditedAt(run[r].at))
      BY <1>3 DEF Asks
    <2>1. ValuesAt(run[r].at) \in GraphState
      BY <1>0, ValuesAtType
    <2>2. ~EditedAt(run[r].at) => LogSound(AddInput(ValuesAt(run[r].at), words))
      BY <1>0, <2>1, LoadedLogSound, InputLogSound
    <2> QED
      BY <1>0, <2>2, AddsLogSound
  <1>4. ASSUME NEW r \in Runs, Works(r) PROVE LogsSound'
    <2> PICK node \in Nodes, v \in GraphState :
               /\ Pending(r, node) /\ Leaves(Values(r), node, v)
               /\ Adds(v, Edge(node, v), EditedAt(run[r].at))
      BY <1>4 DEF Works
    <2>1. run[r].at \in 1..Len(store) /\ Values(r) = ValuesAt(run[r].at)
      BY ValuesType DEF Pending
    <2>2. run[r].at \in 0..Len(store)
      BY <1>0, <2>1
    <2>3. ~EditedAt(run[r].at) => LogSound(v)
      BY <1>0, <2>1, <2>2, LoadedLogSound, LeavesLogSound
    <2> QED
      BY <1>0, <2>3, AddsLogSound
  <1>5. ASSUME NEW r \in Runs, Begins(r) \/ Resumes(r) \/ Ends(r) PROVE store' = store
    BY <1>5 DEF Begins, Resumes, Ends
  <1>6. CASE UNCHANGED vars
    BY <1>1, <1>6 DEF vars
  <1> QED
    BY <1>1, <1>2, <1>3, <1>4, <1>5, <1>6, StepShapes

\* The general worker's log lines name exactly the attempts revision_count has
\* counted, on every unedited chain, for any interleaving of requests and forks.
THEOREM AttemptsLogged == Spec => []AttemptsAreLogged
  <1>1. Init => TypeInv /\ LogsSound
    BY TypeInvInit DEF Init, LogsSound
  <1>2. (TypeInv /\ LogsSound) /\ [Next]_vars => (TypeInv /\ LogsSound)'
    BY TypeInvStep, LogStep
  <1>3. TypeInv /\ LogsSound => AttemptsAreLogged
    <2> SUFFICES ASSUME LogsSound, NEW c \in 1..Len(store), Unedited(c)
                 PROVE  LET v == store[c].values IN
                        \A n \in 1..(Attempts(v) + 1) :
                           n <= Attempts(v) <=>
                              \E i \in 1..Len(v.internal_logs) :
                                 v.internal_logs[i] = Line("general", n, "-")
      BY DEF AttemptsAreLogged
    <2> DEFINE v == store[c].values
    <2>1. LogSound(v)
      BY DEF LogsSound, Unedited
    <2> HIDE DEF v
    <2>2. \A n \in 1..(Attempts(v) + 1) : n <= Attempts(v) <=> Logged(v.internal_logs, n)
      BY <2>1 DEF LogSound
    <2> QED
      BY <2>2 DEF Logged, v
  <1> QED
    BY <1>1, <1>2, <1>3, PTL DEF Spec

-----------------------------------------------------------------------------
(* A run stays in its own turn.                                            *)

\* State w continues the turn of state v: same question, and v's messages first.
Continues(v, w) ==
    /\ w.question = v.question
    /\ Len(v.messages) <= Len(w.messages)
    /\ \A i \in 1..Len(v.messages) : w.messages[i] = v.messages[i]

\* A request that is about to resume has written no input of its own.
OwnTurns ==
    \A r \in Runs :
       /\ run[r].phase = "checked" => run[r].mine = 0
       /\ run[r].mine # 0 => Continues(store[run[r].mine].values, store[run[r].at].values)

\* A node continues the turn it runs in.
LEMMA LeavesContinues ==
    ASSUME NEW u \in GraphState, NEW v \in GraphState, NEW node, NEW w,
           Continues(u, v), Leaves(v, node, w)
    PROVE  Continues(u, w)
  <1>1. u.messages \in Seq(Messages) /\ v.messages \in Seq(Messages)
          /\ Len(u.messages) \in Nat /\ Len(v.messages) \in Nat
    BY FieldTypes
  <1>2. CASE w.messages = v.messages
    BY <1>2 DEF Continues, Leaves
  <1>3. ASSUME NEW m \in Messages, w.messages = Append(v.messages, m)
        PROVE  Continues(u, w)
    <2>1. Len(w.messages) = Len(v.messages) + 1
            /\ \A i \in 1..Len(v.messages) : w.messages[i] = v.messages[i]
      BY <1>1, <1>3
    <2>2. \A i \in 1..Len(u.messages) : i \in 1..Len(v.messages)
      BY <1>1 DEF Continues
    <2> QED
      BY <1>1, <2>1, <2>2 DEF Continues, Leaves
  <1> QED
    BY <1>2, <1>3 DEF Leaves

\* The checkpoints a request refers to stay what they are while the store grows.
LEMMA OldCheckpoints ==
    ASSUME TypeInv, NEW q \in Runs, run[q].mine # 0,
           store' = store \/ \E v, next, edited : Adds(v, next, edited)
    PROVE  /\ store'[run[q].mine] = store[run[q].mine]
           /\ store'[run[q].at] = store[run[q].at]
  <1>1. run[q].mine \in 1..Len(store) /\ run[q].at \in 1..Len(store)
    BY DEF TypeInv, Anchored
  <1> QED
    BY <1>1 DEF Adds

\* The step of one request leaves the others in their turns.
LEMMA OthersKeepTurns ==
    ASSUME TypeInv, OwnTurns, NEW r \in Runs, NEW phase, NEW at, Moves(r, phase, at),
           store' = store \/ \E v, next, edited : Adds(v, next, edited),
           run'[r].phase = "checked" => run'[r].mine = 0,
           run'[r].mine # 0 => Continues(store'[run'[r].mine].values, store'[run'[r].at].values)
    PROVE  OwnTurns'
  <1> SUFFICES ASSUME NEW q \in Runs
               PROVE  /\ run'[q].phase = "checked" => run'[q].mine = 0
                      /\ run'[q].mine # 0 =>
                            Continues(store'[run'[q].mine].values, store'[run'[q].at].values)
    BY DEF OwnTurns
  <1>1. CASE q = r
    BY <1>1
  <1>2. CASE q # r
    <2>1. run'[q] = run[q]
      BY <1>2 DEF Moves
    <2>2. run[q].mine # 0 => /\ store'[run[q].mine] = store[run[q].mine]
                             /\ store'[run[q].at] = store[run[q].at]
      BY OldCheckpoints
    <2> QED
      BY <2>1, <2>2 DEF OwnTurns
  <1> QED
    BY <1>1, <1>2

\* Every step keeps every run in its own turn.
LEMMA TurnStep == TypeInv /\ OwnTurns /\ [Next]_vars => OwnTurns'
  <1> SUFFICES ASSUME TypeInv, OwnTurns, [Next]_vars PROVE OwnTurns'
    OBVIOUS
  <1>0. Len(store) \in Nat
    BY DEF TypeInv, TypeOK
  <1>1. CASE UNCHANGED vars
    BY <1>1 DEF vars, OwnTurns
  <1>2. CASE Edited
    <2>1. run' = run /\ \E v, next, edited : Adds(v, next, edited)
      BY <1>2 DEF Edited
    <2> SUFFICES ASSUME NEW q \in Runs
                 PROVE  /\ run'[q].phase = "checked" => run'[q].mine = 0
                        /\ run'[q].mine # 0 =>
                              Continues(store'[run'[q].mine].values, store'[run'[q].at].values)
      BY DEF OwnTurns
    <2>2. run[q].mine # 0 => /\ store'[run[q].mine] = store[run[q].mine]
                             /\ store'[run[q].at] = store[run[q].at]
      BY <2>1, OldCheckpoints
    <2> QED
      BY <2>1, <2>2 DEF OwnTurns
  <1>3. ASSUME NEW r \in Runs, Begins(r) PROVE OwnTurns'
    BY <1>3, OthersKeepTurns DEF Begins
  <1>4. ASSUME NEW r \in Runs, Asks(r) PROVE OwnTurns'
    <2> PICK words \in SUBSET Words :
               /\ run[r].at \in 0..Len(store)
               /\ Adds(AddInput(ValuesAt(run[r].at), words), "router", EditedAt(run[r].at))
               /\ Moves(r, "running", Len(store) + 1)
               /\ run'[r].mine = Len(store) + 1
      BY <1>4 DEF Asks
    <2> DEFINE v == AddInput(ValuesAt(run[r].at), words)
    <2>1. v \in GraphState
      BY ValuesAtType, AddInputType DEF TypeInv
    <2>2. Len(v.messages) \in Nat
      BY <2>1, FieldTypes
    <2> HIDE DEF v
    <2>3. Continues(v, v)
      BY <2>2 DEF Continues
    <2>4. run'[r].at = Len(store) + 1 /\ run'[r].phase = "running"
      BY DEF Moves
    <2>5. store'[Len(store) + 1].values = v
      BY DEF Adds, v
    <2>6. \E w, next, edited : Adds(w, next, edited)
      OBVIOUS
    <2> QED
      BY <2>3, <2>4, <2>5, <2>6, OthersKeepTurns
  <1>5. ASSUME NEW r \in Runs, Resumes(r) PROVE OwnTurns'
    <2>1. run'[r].mine = 0 /\ store' = store /\ Moves(r, "running", Len(store))
      BY <1>5 DEF Resumes, OwnTurns
    <2> QED
      BY <2>1, OthersKeepTurns
  <1>6. ASSUME NEW r \in Runs, Works(r) PROVE OwnTurns'
    <2> PICK node \in Nodes, v \in GraphState :
               /\ Pending(r, node) /\ Leaves(Values(r), node, v)
               /\ Adds(v, Edge(node, v), EditedAt(run[r].at))
               /\ Moves(r, "running", Len(store) + 1)
               /\ run'[r].mine = run[r].mine
      BY <1>6 DEF Works
    <2>1. Values(r) \in GraphState /\ Values(r) = store[run[r].at].values
      BY ValuesType DEF Pending, Values
    <2>2. run'[r].at = Len(store) + 1 /\ run'[r].phase = "running"
            /\ store'[Len(store) + 1].values = v
      BY DEF Moves, Adds
    <2>3. \E w, next, edited : Adds(w, next, edited)
      OBVIOUS
    <2>4. ASSUME run[r].mine # 0
          PROVE  Continues(store'[run[r].mine].values, v)
      <3> DEFINE u == store[run[r].mine].values
      <3>1. store[run[r].mine] \in Checkpoints
        BY <2>4 DEF TypeInv, TypeOK, Anchored
      <3>2. u \in GraphState
        BY <3>1 DEF Checkpoints
      <3>3. Continues(u, Values(r))
        BY <2>1, <2>4 DEF OwnTurns
      <3>4. store'[run[r].mine].values = u
        BY <2>3, <2>4, OldCheckpoints
      <3> HIDE DEF u
      <3> QED
        BY <2>1, <3>2, <3>3, <3>4, LeavesContinues
    <2>5. run'[r].mine # 0 => Continues(store'[run'[r].mine].values, store'[run'[r].at].values)
      BY <2>2, <2>4
    <2> QED
      BY <2>2, <2>3, <2>5, OthersKeepTurns
  <1>7. ASSUME NEW r \in Runs, Ends(r) PROVE OwnTurns'
    <2> PICK phase \in Stopped :
               /\ store' = store /\ Moves(r, phase, run[r].at)
               /\ run'[r].mine = run[r].mine
      BY <1>7 DEF Ends
    <2>1. run'[r].at = run[r].at /\ run'[r].phase # "checked"
      BY DEF Moves, Stopped
    <2>2. run'[r].mine # 0 => Continues(store'[run'[r].mine].values, store'[run'[r].at].values)
      BY <2>1 DEF OwnTurns
    <2> QED
      BY <2>1, <2>2, OthersKeepTurns
  <1> QED
    BY <1>1, <1>2, <1>3, <1>4, <1>5, <1>6, <1>7, StepShapes

\* Messages that agree position by position are a prefix.
LEMMA BeginsWith ==
    ASSUME NEW S, NEW s \in Seq(S), NEW t \in Seq(S), Len(s) <= Len(t),
           \A i \in 1..Len(s) : t[i] = s[i]
    PROVE  Seqs!IsPrefix(s, t)
  <1>1. Len(s) \in Nat /\ Len(t) \in Nat
    BY LenProperties
  <1>2. SubSeq(s, 1, Len(s)) = s
    BY SubSeqFull
  <1>3. SubSeq(t, 1, Len(s)) \in Seq(S) /\ Len(SubSeq(t, 1, Len(s))) = Len(s)
          /\ \A i \in 1..Len(s) : SubSeq(t, 1, Len(s))[i] = t[i]
    BY <1>1
  <1>4. SubSeq(t, 1, Len(s)) = s
    BY <1>3, SeqEqual
  <1> QED
    BY <1>2, <1>4 DEF Seqs!IsPrefix

\* However many requests share the thread, a run only ever builds on its own
\* input: another run's messages never appear in front of or within its turn.
THEOREM OwnTurn == Spec => []RunsKeepTheirOwnTurn
  <1>1. Init => TypeInv /\ OwnTurns
    <2>1. Init => OwnTurns
      BY DEF Init, OwnTurns, Idle
    <2> QED
      BY <2>1, TypeInvInit
  <1>2. (TypeInv /\ OwnTurns) /\ [Next]_vars => (TypeInv /\ OwnTurns)'
    BY TypeInvStep, TurnStep
  <1>3. TypeInv /\ OwnTurns => RunsKeepTheirOwnTurn
    <2> SUFFICES ASSUME TypeInv, OwnTurns, NEW r \in Runs, run[r].mine # 0
                 PROVE  /\ Values(r).question = store[run[r].mine].values.question
                        /\ Seqs!IsPrefix(store[run[r].mine].values.messages, Values(r).messages)
      BY DEF RunsKeepTheirOwnTurn
    <2> DEFINE u == store[run[r].mine].values
               v == store[run[r].at].values
    <2>1. store[run[r].mine] \in Checkpoints /\ store[run[r].at] \in Checkpoints
      BY DEF TypeInv, TypeOK, Anchored
    <2>2. u \in GraphState /\ v \in GraphState
      BY <2>1 DEF Checkpoints
    <2>3. Continues(u, v)
      BY DEF OwnTurns
    <2>4. Values(r) = v
      BY DEF Values
    <2> HIDE DEF u, v
    <2>5. u.messages \in Seq(Messages) /\ v.messages \in Seq(Messages)
      BY <2>2, FieldTypes
    <2>6. Len(u.messages) <= Len(v.messages)
            /\ \A i \in 1..Len(u.messages) : v.messages[i] = u.messages[i]
      BY <2>3 DEF Continues
    <2>7. Seqs!IsPrefix(u.messages, v.messages)
      BY <2>5, <2>6, BeginsWith
    <2>8. v.question = u.question
      BY <2>3 DEF Continues
    <2> QED
      BY <2>4, <2>7, <2>8 DEF u
  <1> QED
    BY <1>1, <1>2, <1>3, PTL DEF Spec

-----------------------------------------------------------------------------
(* An analysis keeps the ticker it was asked for.                          *)

FirstMetrics == [turn |-> 1, ticker |-> 1]

\* The thread a run of /analyze sees: one user message, and nothing it has not
\* made of that message.
Solo(v) ==
    /\ v.question = 1
    /\ Len(v.messages) >= 1
    /\ \A i \in 2..Len(v.messages) : v.messages[i].type # "human"
    /\ v.tool_result \in {NoMetrics, FirstMetrics}
    /\ v.analysis \in {NoMetrics, FirstMetrics}

\* A request to /analyze is alone at the start of its chain of checkpoints.
Alone(r) ==
    /\ run[r].phase \in Active => run[r].reply = "-"
    /\ run[r].route = "analyze" =>
          /\ run[r].phase # "checked"
          /\ run[r].phase = "loaded" => run[r].at = 0
          /\ run[r].phase = "running" => run[r].mine # 0
          /\ run[r].mine # 0 => Solo(store[run[r].at].values)
    /\ run[r].reply = "analysis" =>
          /\ run[r].route = "analyze" /\ run[r].mine # 0
          /\ store[run[r].at].values.analysis # NoMetrics

AllAlone == \A r \in Runs : Alone(r)

\* The first question of an empty thread.
LEMMA FirstQuestion ==
    ASSUME NEW words \in SUBSET Words
    PROVE  Solo(AddInput(EmptyState, words))
  <1> DEFINE w == AddInput(EmptyState, words)
  <1>1. w.messages = Append(<< >>, Human(words)) /\ w.question = Len(<< >>) + 1
          /\ w.tool_result = NoMetrics /\ w.analysis = NoMetrics
    BY DEF AddInput, EmptyState
  <1>2. Len(Append(<< >>, Human(words))) = 1 /\ Len(<< >>) = 0
    <2>1. Human(words) \in Messages
      BY DEF Human, Messages
    <2>2. << >> \in Seq(Messages)
      OBVIOUS
    <2> QED
      BY <2>1, <2>2
  <1> HIDE DEF w
  <1> QED
    BY <1>1, <1>2 DEF Solo, w

\* A node adds no user message, so the ticker is the question's.
LEMMA LeavesSolo ==
    ASSUME NEW v \in GraphState, NEW node, NEW w, Solo(v), Leaves(v, node, w)
    PROVE  Solo(w)
  <1>1. v.messages \in Seq(Messages) /\ Len(v.messages) \in Nat
    BY FieldTypes
  <1>2. Len(w.messages) >= 1 /\ \A i \in 2..Len(w.messages) : w.messages[i].type # "human"
    <2>1. CASE w.messages = v.messages
      BY <2>1 DEF Solo
    <2>2. ASSUME NEW m \in Messages, m.type # "human", w.messages = Append(v.messages, m)
          PROVE  Len(w.messages) >= 1
                   /\ \A i \in 2..Len(w.messages) : w.messages[i].type # "human"
      <3>1. Len(w.messages) = Len(v.messages) + 1 /\ w.messages[Len(v.messages) + 1] = m
              /\ \A i \in 1..Len(v.messages) : w.messages[i] = v.messages[i]
        BY <1>1, <2>2
      <3>2. ASSUME NEW i \in 2..Len(w.messages) PROVE w.messages[i].type # "human"
        <4>1. i = Len(v.messages) + 1 \/ (i \in 1..Len(v.messages) /\ i \in 2..Len(v.messages))
          BY <1>1, <3>1
        <4> QED
          BY <2>2, <3>1, <4>1 DEF Solo
      <3> QED
        BY <1>1, <3>1, <3>2
    <2> QED
      BY <2>1, <2>2 DEF Leaves
  <1>3. \A i \in Tickers(v) : i = 1
    BY <1>1 DEF Tickers, Solo
  <1>4. w.tool_result \in {NoMetrics, FirstMetrics}
    BY <1>3 DEF Leaves, Solo, FirstMetrics
  <1>5. w.analysis \in {NoMetrics, FirstMetrics}
    BY DEF Leaves, Solo
  <1>6. w.question = 1
    BY DEF Leaves, Solo
  <1> QED
    BY <1>2, <1>4, <1>5, <1>6 DEF Solo

\* The step of one request leaves the others as they are.
LEMMA OthersAlone ==
    ASSUME TypeInv, AllAlone, NEW r \in Runs, NEW phase, NEW at, Moves(r, phase, at),
           store' = store \/ \E v, next, edited : Adds(v, next, edited),
           Alone(r)'
    PROVE  AllAlone'
  <1> SUFFICES ASSUME NEW q \in Runs PROVE Alone(q)'
    BY DEF AllAlone
  <1>1. CASE q = r
    BY <1>1
  <1>2. CASE q # r
    <2>1. run'[q] = run[q] /\ Alone(q)
      BY <1>2 DEF Moves, AllAlone
    <2>2. run[q].mine # 0 => store'[run[q].at] = store[run[q].at]
      BY OldCheckpoints
    <2> QED
      BY <2>1, <2>2 DEF Alone
  <1> QED
    BY <1>1, <1>2

\* Every step keeps the /analyze requests alone.
LEMMA AloneStep == TypeInv /\ AllAlone /\ [Next]_vars => AllAlone'
  <1> SUFFICES ASSUME TypeInv, AllAlone, [Next]_vars PROVE AllAlone'
    OBVIOUS
  <1>1. CASE UNCHANGED vars
    BY <1>1 DEF vars, AllAlone, Alone
  <1>2. CASE Edited
    <2>1. run' = run /\ \E v, next, edited : Adds(v, next, edited)
      BY <1>2 DEF Edited
    <2> SUFFICES ASSUME NEW q \in Runs PROVE Alone(q)'
      BY DEF AllAlone
    <2>2. run[q].mine # 0 => store'[run[q].at] = store[run[q].at]
      BY <2>1, OldCheckpoints
    <2>3. Alone(q)
      BY DEF AllAlone
    <2> QED
      BY <2>1, <2>2, <2>3 DEF Alone
  <1>3. ASSUME NEW r \in Runs, Begins(r) PROVE AllAlone'
    <2> PICK phase \in {"loaded", "checked", "rejected"}, at \in Nat :
               /\ store' = store /\ Moves(r, phase, at)
               /\ run'[r].mine = 0 /\ run'[r].reply = "-"
               /\ run'[r].route = "analyze" => phase = "loaded" /\ at = 0
      BY <1>3 DEF Begins
    <2>1. Alone(r)'
      BY DEF Alone, Moves
    <2> QED
      BY <2>1, OthersAlone
  <1>4. ASSUME NEW r \in Runs, Asks(r) PROVE AllAlone'
    <2> PICK words \in SUBSET Words :
               /\ run[r].phase = "loaded" /\ run[r].at \in 0..Len(store)
               /\ Adds(AddInput(ValuesAt(run[r].at), words), "router", EditedAt(run[r].at))
               /\ Moves(r, "running", Len(store) + 1)
               /\ run'[r].mine = Len(store) + 1
               /\ run'[r].route = run[r].route /\ run'[r].reply = run[r].reply
      BY <1>4 DEF Asks
    <2>1. run[r].reply = "-" /\ (run[r].route = "analyze" => run[r].at = 0)
      BY DEF AllAlone, Alone, Active
    <2>2. run[r].route = "analyze" => Solo(store'[Len(store) + 1].values)
      BY <2>1, FirstQuestion DEF Adds, ValuesAt
    <2>3. Len(store) + 1 # 0
      BY DEF TypeInv, TypeOK
    <2>4. run'[r].at = Len(store) + 1 /\ run'[r].phase = "running"
      BY DEF Moves
    <2>5. Alone(r)'
      BY <2>1, <2>2, <2>3, <2>4 DEF Alone
    <2>6. \E w, next, edited : Adds(w, next, edited)
      OBVIOUS
    <2> QED
      BY <2>5, <2>6, OthersAlone
  <1>5. ASSUME NEW r \in Runs, Resumes(r) PROVE AllAlone'
    <2>1. run[r].phase = "checked" /\ store' = store /\ Moves(r, "running", Len(store))
            /\ run'[r].route = run[r].route /\ run'[r].reply = run[r].reply
      BY <1>5 DEF Resumes
    <2>2. run[r].route # "analyze" /\ run[r].reply = "-"
      BY <2>1 DEF AllAlone, Alone, Active
    <2>3. Alone(r)'
      BY <2>1, <2>2 DEF Alone, Moves
    <2> QED
      BY <2>1, <2>3, OthersAlone
  <1>6. ASSUME NEW r \in Runs, Works(r) PROVE AllAlone'
    <2> PICK node \in Nodes, v \in GraphState :
               /\ Pending(r, node) /\ Leaves(Values(r), node, v)
               /\ Adds(v, Edge(node, v), EditedAt(run[r].at))
               /\ Moves(r, "running", Len(store) + 1)
               /\ run'[r].mine = run[r].mine
               /\ run'[r].route = run[r].route /\ run'[r].reply = run[r].reply
      BY <1>6 DEF Works
    <2>1. run[r].phase = "running" /\ Values(r) \in GraphState
            /\ Values(r) = store[run[r].at].values
      BY ValuesType DEF Pending, Values
    <2>2. Alone(r)
      BY DEF AllAlone
    <2>3. run[r].route = "analyze" => run[r].mine # 0 /\ Solo(v)
      <3> SUFFICES ASSUME run[r].route = "analyze" PROVE run[r].mine # 0 /\ Solo(v)
        OBVIOUS
      <3>1. run[r].mine # 0 /\ Solo(Values(r))
        BY <2>1, <2>2 DEF Alone
      <3> QED
        BY <2>1, <3>1, LeavesSolo
    <2>4. run'[r].at = Len(store) + 1 /\ run'[r].phase = "running"
            /\ store'[Len(store) + 1].values = v
      BY DEF Moves, Adds
    <2>5. run[r].reply = "-"
      BY <2>1, <2>2 DEF Alone, Active
    <2>6. Alone(r)'
      BY <2>3, <2>4, <2>5 DEF Alone
    <2>7. \E w, next, edited : Adds(w, next, edited)
      OBVIOUS
    <2> QED
      BY <2>6, <2>7, OthersAlone
  <1>7. ASSUME NEW r \in Runs, Ends(r) PROVE AllAlone'
    <2> PICK phase \in Stopped :
               /\ run[r].phase \in Active
               /\ store' = store /\ Moves(r, phase, run[r].at)
               /\ run'[r].mine = run[r].mine /\ run'[r].route = run[r].route
               /\ run'[r].reply = "analysis" /\ run[r].reply # "analysis" => Analyses(r)
      BY <1>7 DEF Ends
    <2>1. run'[r].at = run[r].at /\ run'[r].phase = phase
            /\ phase \notin Active
      BY DEF Moves, Stopped, Active
    <2>2. Alone(r) /\ run[r].reply = "-"
      BY DEF AllAlone, Alone
    <2>3. run'[r].reply = "analysis" =>
             /\ run[r].route = "analyze" /\ run[r].mine # 0
             /\ store[run[r].at].values.analysis # NoMetrics
      BY <2>2 DEF Analyses, Alone, Values
    <2>4. phase \notin {"loaded", "checked", "running"}
      BY <2>1 DEF Active
    <2>5. Alone(r)'
      BY <2>1, <2>2, <2>3, <2>4 DEF Alone
    <2> QED
      BY <2>5, OthersAlone
  <1> QED
    BY <1>1, <1>2, <1>3, <1>4, <1>5, <1>6, <1>7, StepShapes

\* An analysis that /analyze returns is about the ticker of its own request, for
\* any interleaving with the routes that later share its thread.
THEOREM TickerKept == Spec => []AnalysesKeepTheirTicker
  <1> DEFINE Inv == TypeInv /\ OwnTurns /\ AllAlone
  <1>1. Init => Inv
    <2>1. Init => OwnTurns /\ AllAlone
      BY DEF Init, OwnTurns, AllAlone, Alone, Idle
    <2> QED
      BY <2>1, TypeInvInit
  <1>2. Inv /\ [Next]_vars => Inv'
    BY TypeInvStep, TurnStep, AloneStep
  <1>3. Inv => AnalysesKeepTheirTicker
    <2> SUFFICES ASSUME Inv, NEW r \in Runs, run[r].reply = "analysis"
                 PROVE  Values(r).analysis = [turn |-> store[run[r].mine].values.question,
                                              ticker |-> store[run[r].mine].values.question]
      BY DEF AnalysesKeepTheirTicker
    <2>1. run[r].mine # 0 /\ Solo(Values(r)) /\ Values(r).analysis # NoMetrics
      BY DEF AllAlone, Alone, Values
    <2>2. store[run[r].mine].values.question = Values(r).question
      BY <2>1 DEF OwnTurns, Continues, Values
    <2> QED
      BY <2>1, <2>2 DEF Solo, FirstMetrics
  <1> QED
    BY <1>1, <1>2, <1>3, PTL DEF Spec

-----------------------------------------------------------------------------
(* The recursion limit.                                                    *)

\* The attempts the critic may still ask for, and the drafts still to come.
Left(v) == IF Attempts(v) >= RevisionLimit THEN 0 ELSE RevisionLimit - Attempts(v)
ToDraft(v) == IF Left(v) = 0 THEN 1 ELSE Left(v)

\* The super-steps a turn needs at most from each node outside the tool loop, and
\* none at its end; a run must have one step more, for the limit to look again.
Need(node, v) ==
    IF node = "router" THEN 2 + 2 * ToDraft(v)
    ELSE IF node = "memory_retriever" THEN 1 + 2 * ToDraft(v)
    ELSE IF node = "general" THEN 2 * ToDraft(v)
    ELSE IF node = "critic" THEN 1 + 2 * Left(v)
    ELSE IF node = "fetch_metrics" THEN 2
    ELSE IF node = END THEN 0 ELSE 1

Loops(node) == node \in {"agent", "tools"}

\* A run has the steps its turn needs, unless the model is calling tools.
Affords(r) ==
    LET k == store[run[r].at] IN
    \/ InToolLoop(run[r].at)
    \/ run[r].steps + Need(k.next, k.values) < RecursionLimit

CountsNatural == \A c \in 1..Len(store) : Attempts(store[c].values) >= 0

\* A checkpoint's parent is an older one.
Chained == \A c \in 1..Len(store) : store[c].parent \in 0..(c - 1)

Funded(r) ==
    /\ run[r].phase \in {"loaded", "checked"} => run[r].steps = 0
    /\ run[r].phase = "running" => Affords(r)
    /\ run[r].phase = "recursion" => InToolLoop(run[r].at)

Budget == \A r \in Runs : Funded(r)

\* The numbers the bound is made of.
LEMMA NeedRange ==
    ASSUME NEW v \in GraphState, NEW node, Attempts(v) >= 0
    PROVE  /\ Attempts(v) \in Nat /\ RevisionLimit \in Nat /\ RevisionLimit >= 1
           /\ Left(v) \in 0..RevisionLimit /\ ToDraft(v) \in 1..RevisionLimit
           /\ Need(node, v) \in 0..(2 + 2 * RevisionLimit)
  <1>1. RevisionLimit \in Nat /\ RevisionLimit >= 1
    BY RevisionLimitAssumption
  <1>2. Attempts(v) \in Nat
    BY FieldTypes DEF Attempts
  <1>3. Left(v) \in 0..RevisionLimit
    BY <1>1, <1>2 DEF Left
  <1>4. ToDraft(v) \in 1..RevisionLimit
    BY <1>1, <1>3 DEF ToDraft
  <1>5. Need(node, v) \in 0..(2 + 2 * RevisionLimit)
    BY <1>1, <1>3, <1>4 DEF Need
  <1> QED
    BY <1>1, <1>2, <1>3, <1>4, <1>5

\* A fresh invocation can afford any turn.
LEMMA FreshAffords ==
    ASSUME NEW v \in GraphState, NEW node, Attempts(v) >= 0
    PROVE  0 + Need(node, v) < RecursionLimit
  BY NeedRange, RecursionLimitAssumption

\* A node outside the tool loop uses one step and leads to a node that needs
\* one less, into the tool loop or to the end of the turn.
LEMMA NeedShrinks ==
    ASSUME NEW v \in GraphState, NEW w \in GraphState, NEW node \in Nodes,
           Attempts(v) >= 0, Leaves(v, node, w), ~Loops(node)
    PROVE  LET next == Edge(node, w) IN
           Loops(next) \/ Need(next, w) + 1 <= Need(node, v)
  <1> DEFINE next == Edge(node, w)
  <1>1. /\ Attempts(v) \in Nat /\ RevisionLimit \in Nat /\ RevisionLimit >= 1
        /\ Left(v) \in 0..RevisionLimit /\ ToDraft(v) \in 1..RevisionLimit
    BY NeedRange
  <1>2. node # "general" => Attempts(w) = Attempts(v) /\ Left(w) = Left(v)
                              /\ ToDraft(w) = ToDraft(v)
    BY DEF Leaves, Left, ToDraft
  <1>3. CASE node = "router"
    <2>1. next = "memory_retriever"
      BY <1>3 DEF Edge
    <2> QED
      BY <1>1, <1>2, <1>3, <2>1 DEF Need
  <1>4. CASE node = "memory_retriever"
    <2>1. next \in {"agent", "billing", "fetch_metrics", "general"}
      BY <1>4 DEF Edge, after_memory_retriever
    <2>2. Need(node, v) = 1 + 2 * ToDraft(v)
      BY <1>4 DEF Need
    <2>3. /\ next = "billing" => Need(next, w) = 1
          /\ next = "fetch_metrics" => Need(next, w) = 2
          /\ next = "general" => Need(next, w) = 2 * ToDraft(v)
      BY <1>2, <1>4 DEF Need, END
    <2> HIDE DEF next
    <2> QED
      BY <1>1, <2>1, <2>2, <2>3 DEF Loops, next
  <1>5. CASE node = "general"
    <2>1. next = "critic"
      BY <1>5 DEF Edge
    <2>2. Attempts(w) = Attempts(v) + 1
      BY <1>5 DEF Leaves
    <2>3. Left(w) = IF Left(v) = 0 THEN 0 ELSE Left(v) - 1
      BY <1>1, <2>2 DEF Left
    <2>4. Need(node, v) = 2 * ToDraft(v) /\ Need(next, w) = 1 + 2 * Left(w)
      BY <1>5, <2>1 DEF Need
    <2>5. ToDraft(v) = IF Left(v) = 0 THEN 1 ELSE Left(v)
      BY DEF ToDraft
    <2> QED
      BY <1>1, <2>3, <2>4, <2>5
  <1>6. CASE node = "critic"
    <2>1. next = IF verdict(v) = "PASS" THEN END ELSE "general"
      BY <1>6 DEF Edge, after_critic, Leaves
    <2>2. v.revision_count # None
      BY <1>6 DEF Leaves
    <2>3. Attempts(v) = v.revision_count
      BY <2>2 DEF Attempts
    <2>4. CASE verdict(v) = "PASS"
      <3>1. next = END /\ Need(next, w) = 0 /\ Need(node, v) = 1 + 2 * Left(v)
        BY <1>6, <2>1, <2>4 DEF Need, END
      <3> QED
        BY <1>1, <3>1
    <2>5. CASE verdict(v) # "PASS"
      <3>1. ~(v.revision_count >= RevisionLimit)
        BY <2>5 DEF verdict
      <3>2. Left(v) >= 1
        BY <1>1, <2>3, <3>1 DEF Left
      <3>3. ToDraft(v) = Left(v)
        BY <1>1, <3>2 DEF ToDraft
      <3>4. next = "general"
        BY <2>1, <2>5
      <3>5. Need(next, w) = 2 * ToDraft(v) /\ Need(node, v) = 1 + 2 * Left(v)
        BY <1>2, <1>6, <3>4 DEF Need
      <3> QED
        BY <1>1, <3>3, <3>5
    <2> QED
      BY <2>4, <2>5
  <1>7. CASE node = "fetch_metrics"
    <2>1. next = "format_report"
      BY <1>7 DEF Edge
    <2>2. Need(next, w) = 1 /\ Need(node, v) = 2
      BY <1>7, <2>1 DEF Need, END
    <2> QED
      BY <2>2
  <1>8. CASE node \in {"billing", "format_report"}
    <2>1. next = END /\ Need(next, w) = 0 /\ Need(node, v) = 1
      BY <1>8 DEF Edge, Need, END
    <2> QED
      BY <2>1
  <1> QED
    BY <1>3, <1>4, <1>5, <1>6, <1>7, <1>8 DEF Nodes, Loops

\* A new checkpoint with a natural count keeps the counts natural.
LEMMA AddsCounts ==
    ASSUME TypeOK, CountsNatural, NEW v, NEW next, NEW edited, Adds(v, next, edited),
           Attempts(v) >= 0
    PROVE  CountsNatural'
  <1>1. Len(store) \in Nat
    BY DEF TypeOK
  <1> SUFFICES ASSUME NEW c \in 1..Len(store') PROVE Attempts(store'[c].values) >= 0
    BY DEF CountsNatural
  <1>2. CASE c = Len(store) + 1
    BY <1>2 DEF Adds
  <1>3. CASE c # Len(store) + 1
    <2>1. c \in 1..Len(store)
      BY <1>1, <1>3 DEF Adds
    <2> QED
      BY <2>1 DEF Adds, CountsNatural
  <1> QED
    BY <1>2, <1>3

\* What an invocation loads has a natural count.
LEMMA LoadedCount ==
    ASSUME CountsNatural, NEW c \in 0..Len(store), Len(store) \in Nat
    PROVE  Attempts(ValuesAt(c)) >= 0
  <1>1. CASE c = 0
    BY <1>1 DEF ValuesAt, Attempts, EmptyState
  <1>2. CASE c # 0
    <2>1. c \in 1..Len(store)
      BY <1>2
    <2> QED
      BY <1>2, <2>1 DEF CountsNatural, ValuesAt
  <1> QED
    BY <1>1, <1>2

\* An edit writes a natural count or leaves the old one.
LEMMA EditedCount ==
    ASSUME EditCounts \subseteq Nat, NEW v \in GraphState, Attempts(v) >= 0,
           NEW critique, NEW count \in EditCounts \cup {None}
    PROVE  Attempts(edited_values(v, critique, count)) >= 0
  <1> DEFINE w == edited_values(v, critique, count)
  <1>1. w.revision_count = IF count = None THEN v.revision_count ELSE count
    BY DEF edited_values, GraphState
  <1> HIDE DEF w
  <1>2. CASE count = None
    <2>1. Attempts(w) = Attempts(v)
      BY <1>1, <1>2 DEF Attempts
    <2> QED
      BY <2>1 DEF w
  <1>3. CASE count # None
    <2>1. Attempts(w) = count /\ count \in Nat
      BY <1>1, <1>3 DEF Attempts
    <2> QED
      BY <2>1 DEF w
  <1> QED
    BY <1>2, <1>3

\* Every step keeps the counts natural, if every edit does.
LEMMA CountStep ==
    ASSUME EditCounts \subseteq Nat, TypeInv, CountsNatural, [Next]_vars
    PROVE  CountsNatural'
  <1>0. TypeOK /\ Len(store) \in Nat
    BY DEF TypeInv, TypeOK
  <1>1. CASE store' = store
    BY <1>1 DEF CountsNatural
  <1>2. CASE Edited
    <2> PICK c \in 0..Len(store), as_node \in Nodes,
             critique \in EditCritiques \cup {None}, count \in EditCounts \cup {None} :
               Adds(edited_values(ValuesAt(c), critique, count),
                    Edge(as_node, edited_values(ValuesAt(c), critique, count)), TRUE)
      BY <1>2 DEF Edited
    <2>1. ValuesAt(c) \in GraphState /\ Attempts(ValuesAt(c)) >= 0
      BY <1>0, ValuesAtType, LoadedCount
    <2>2. Attempts(edited_values(ValuesAt(c), critique, count)) >= 0
      BY <2>1, EditedCount
    <2> QED
      BY <1>0, <2>2, AddsCounts
  <1>3. ASSUME NEW r \in Runs, Asks(r) PROVE CountsNatural'
    <2> PICK words \in SUBSET Words :
               /\ run[r].at \in 0..Len(store)
               /\ Adds(AddInput(ValuesAt(run[r].at), words), "router", EditedAt(run[r].at))
      BY <1>3 DEF Asks
    <2> DEFINE v == ValuesAt(run[r].at)
    <2>1. v \in GraphState /\ Attempts(v) >= 0
      BY <1>0, ValuesAtType, LoadedCount
    <2>2. AddInput(v, words).revision_count = v.revision_count
      BY <2>1 DEF AddInput, GraphState
    <2>3. Attempts(AddInput(v, words)) >= 0
      BY <2>1, <2>2 DEF Attempts
    <2> QED
      BY <1>0, <2>3, AddsCounts
  <1>4. ASSUME NEW r \in Runs, Works(r) PROVE CountsNatural'
    <2> PICK node \in Nodes, v \in GraphState :
               /\ Pending(r, node) /\ Leaves(Values(r), node, v)
               /\ Adds(v, Edge(node, v), EditedAt(run[r].at))
      BY <1>4 DEF Works
    <2>1. run[r].at \in 1..Len(store) /\ Values(r) = store[run[r].at].values
            /\ Values(r) \in GraphState
      BY ValuesType DEF Pending, Values
    <2>2. Attempts(Values(r)) >= 0
      BY <2>1 DEF CountsNatural
    <2>3. Attempts(Values(r)) \in Int
      BY <2>1, FieldTypes DEF Attempts
    <2>4. Attempts(v) >= 0
      BY <2>2, <2>3 DEF Leaves
    <2> QED
      BY <1>0, <2>4, AddsCounts
  <1>5. ASSUME NEW r \in Runs, Begins(r) \/ Resumes(r) \/ Ends(r) PROVE store' = store
    BY <1>5 DEF Begins, Resumes, Ends
  <1>6. CASE UNCHANGED vars
    BY <1>1, <1>6 DEF vars
  <1> QED
    BY <1>1, <1>2, <1>3, <1>4, <1>5, <1>6, StepShapes

\* The parents of new checkpoints are older ones too.
LEMMA ChainStep == TypeInv /\ Chained /\ [Next]_vars => Chained'
  <1> SUFFICES ASSUME TypeInv, Chained, [Next]_vars PROVE Chained'
    OBVIOUS
  <1>0. Len(store) \in Nat
    BY DEF TypeInv, TypeOK
  <1>1. CASE store' = store
    BY <1>1 DEF Chained
  <1>2. ASSUME NEW v, NEW next, NEW edited, Adds(v, next, edited) PROVE Chained'
    <2> SUFFICES ASSUME NEW c \in 1..Len(store') PROVE store'[c].parent \in 0..(c - 1)
      BY DEF Chained
    <2>1. CASE c = Len(store) + 1
      BY <1>0, <1>2, <2>1 DEF Adds
    <2>2. CASE c # Len(store) + 1
      <3>1. c \in 1..Len(store)
        BY <1>0, <1>2, <2>2 DEF Adds
      <3> QED
        BY <1>2, <3>1 DEF Adds, Chained
    <2> QED
      BY <2>1, <2>2
  <1>3. ASSUME NEW r \in Runs, Begins(r) \/ Resumes(r) \/ Ends(r) PROVE store' = store
    BY <1>3 DEF Begins, Resumes, Ends
  <1> QED
    BY <1>1, <1>2, <1>3, StepShapes DEF Edited, Asks, Works, vars

\* A step that leaves a request where it is leaves its budget alone.
LEMMA IdleFunded ==
    ASSUME TypeInv, Chained, NEW q \in Runs, Funded(q), run'[q] = run[q],
           store' = store \/ \E v, next, edited : Adds(v, next, edited)
    PROVE  Funded(q)'
  <1> SUFFICES ASSUME run[q].phase \in {"running", "recursion"} PROVE Funded(q)'
    BY DEF Funded
  <1>1. run[q].at \in 1..Len(store)
    BY DEF TypeInv, Anchored
  <1>2. store'[run[q].at] = store[run[q].at]
    BY <1>1 DEF Adds
  <1>3. InToolLoop(run[q].at)' <=> InToolLoop(run[q].at)
    <2> DEFINE c == run[q].at
    <2>1. store' = store \/ \E v, next, edited : Adds(v, next, edited)
      OBVIOUS
    <2>2. c' = c
      OBVIOUS
    <2>3. /\ store'[c] = store[c]
          /\ store[c].parent # 0 => store'[store[c].parent] = store[store[c].parent]
      <3>1. Len(store) \in Nat /\ store[c].parent \in 0..(c - 1)
        BY <1>1 DEF TypeInv, TypeOK, Chained
      <3>2. store[c].parent # 0 => store[c].parent \in 1..Len(store)
        BY <1>1, <3>1
      <3> QED
        BY <1>2, <3>2 DEF Adds
    <2> QED
      BY <2>2, <2>3 DEF InToolLoop
  <1> QED
    BY <1>2, <1>3 DEF Funded, Affords

\* The step of one request leaves the budgets of the others alone.
LEMMA OthersFunded ==
    ASSUME TypeInv, Chained, Budget, NEW r \in Runs, NEW phase, NEW at, Moves(r, phase, at),
           store' = store \/ \E v, next, edited : Adds(v, next, edited),
           Funded(r)'
    PROVE  Budget'
  <1> SUFFICES ASSUME NEW q \in Runs PROVE Funded(q)'
    BY DEF Budget
  <1>1. CASE q = r
    BY <1>1
  <1>2. CASE q # r
    <2>1. run'[q] = run[q] /\ Funded(q)
      BY <1>2 DEF Moves, Budget
    <2> QED
      BY <2>1, IdleFunded
  <1> QED
    BY <1>1, <1>2

\* A super-step pays for itself.
LEMMA WorkFunded ==
    ASSUME TypeInv, CountsNatural, NEW r \in Runs, Funded(r), Works(r)
    PROVE  Funded(r)'
  <1> PICK node \in Nodes, v \in GraphState :
             /\ Pending(r, node) /\ Leaves(Values(r), node, v)
             /\ Adds(v, Edge(node, v), EditedAt(run[r].at))
             /\ store'[Len(store) + 1].parent = run[r].at
             /\ Moves(r, "running", Len(store) + 1)
             /\ run'[r].steps = run[r].steps + 1
    BY DEF Works
  <1> DEFINE u == Values(r)
             next == Edge(node, v)
             at == run[r].at
  <1>1. u \in GraphState /\ at \in 1..Len(store) /\ u = store[at].values
          /\ store[at].next = node /\ run[r].phase = "running" /\ at # 0
    <2>1. at \in 1..Len(store) /\ u \in GraphState
      BY ValuesType DEF Pending
    <2>2. at # 0
      BY <2>1 DEF TypeInv, TypeOK
    <2> QED
      BY <2>1, <2>2 DEF Pending, Values
  <1>2. Attempts(u) >= 0
    BY <1>1 DEF CountsNatural
  <1>3. run[r].steps \in Nat
    BY DEF TypeInv, TypeOK, RunRecords
  <1>4. Attempts(v) >= 0
    <2>1. Attempts(u) \in Int
      BY <1>1, FieldTypes DEF Attempts
    <2> QED
      BY <1>2, <2>1 DEF Leaves
  <1>5. Need(node, u) \in Nat /\ Need(next, v) \in Nat /\ RecursionLimit \in Nat
    <2>1. RevisionLimit \in Nat
      BY RevisionLimitAssumption
    <2>2. Need(node, u) \in 0..(2 + 2 * RevisionLimit) /\ Need(next, v) \in 0..(2 + 2 * RevisionLimit)
      BY <1>1, <1>2, <1>4, NeedRange
    <2> QED
      BY <2>1, <2>2, RecursionLimitAssumption
  <1>6. store'[Len(store) + 1].next = next /\ store'[Len(store) + 1].values = v
          /\ store'[Len(store) + 1].parent = at /\ store'[at] = store[at]
          /\ run'[r].at = Len(store) + 1 /\ run'[r].phase = "running"
    BY <1>1 DEF Adds, Moves
  <1>7. CASE Loops(node)
    <2>1. \/ Loops(next)
          \/ next = END /\ node = "agent"
      BY <1>7 DEF Loops, Edge, tools_condition
    <2> HIDE DEF next, u, at
    <2>2. InToolLoop(run[r].at)'
      BY <1>1, <1>6, <2>1 DEF InToolLoop, Loops
    <2>3. Affords(r)'
      BY <2>2 DEF Affords
    <2> QED
      BY <1>6, <2>3 DEF Funded
  <1>8. CASE ~Loops(node)
    <2>1. node # END
      BY DEF Nodes, END
    <2>2. run[r].steps + Need(node, u) < RecursionLimit
      <3>1. ~InToolLoop(at)
        BY <1>1, <1>8, <2>1 DEF InToolLoop, Loops
      <3> QED
        BY <1>1, <3>1 DEF Funded, Affords
    <2>3. Loops(next) \/ Need(next, v) + 1 <= Need(node, u)
      BY <1>1, <1>2, <1>8, NeedShrinks
    <2> HIDE DEF next, u, at
    <2>4. Loops(next) \/ run[r].steps + 1 + Need(next, v) < RecursionLimit
      BY <1>3, <1>5, <2>2, <2>3
    <2>5. Loops(next) => InToolLoop(run[r].at)'
      BY <1>6 DEF InToolLoop, Loops
    <2>6. Affords(r)'
      BY <1>6, <2>4, <2>5 DEF Affords
    <2> QED
      BY <1>6, <2>6 DEF Funded
  <1> QED
    BY <1>7, <1>8

\* Every step keeps every run within its budget.
LEMMA BudgetStep ==
    ASSUME TypeInv, CountsNatural, Chained, Budget, [Next]_vars
    PROVE  Budget'
  <1>0. Len(store) \in Nat /\ TypeOK
    BY DEF TypeInv, TypeOK
  <1>1. CASE UNCHANGED vars
    BY <1>1, IdleFunded DEF vars, Budget
  <1>2. CASE Edited
    <2>1. run' = run /\ \E v, next, edited : Adds(v, next, edited)
      BY <1>2 DEF Edited
    <2> QED
      BY <2>1, IdleFunded DEF Budget
  <1>3. ASSUME NEW r \in Runs, Begins(r) PROVE Budget'
    <2> PICK phase \in {"loaded", "checked", "rejected"}, at \in Nat :
               store' = store /\ Moves(r, phase, at) /\ run'[r].steps = 0
      BY <1>3 DEF Begins
    <2>1. run'[r].phase \notin {"running", "recursion"}
      BY DEF Moves
    <2>2. Funded(r)'
      BY <2>1 DEF Funded
    <2> QED
      BY <2>2, OthersFunded
  <1>4. ASSUME NEW r \in Runs, Asks(r) PROVE Budget'
    <2> PICK words \in SUBSET Words :
               /\ run[r].phase = "loaded" /\ run[r].at \in 0..Len(store)
               /\ Adds(AddInput(ValuesAt(run[r].at), words), "router", EditedAt(run[r].at))
               /\ Moves(r, "running", Len(store) + 1)
               /\ run'[r].steps = run[r].steps
      BY <1>4 DEF Asks
    <2> DEFINE u == ValuesAt(run[r].at)
               v == AddInput(u, words)
    <2>1. u \in GraphState /\ Attempts(u) >= 0
      BY <1>0, ValuesAtType, LoadedCount
    <2>2. v \in GraphState
      BY <2>1, AddInputType
    <2>3. v.revision_count = u.revision_count
      BY <2>1 DEF AddInput, GraphState
    <2>4. Attempts(v) >= 0
      BY <2>1, <2>3 DEF Attempts
    <2>5. run[r].steps = 0
      BY DEF Budget, Funded
    <2>6. 0 + Need("router", v) < RecursionLimit
      BY <2>2, <2>4, FreshAffords
    <2>7. store'[Len(store) + 1].next = "router" /\ store'[Len(store) + 1].values = v
            /\ run'[r].at = Len(store) + 1 /\ run'[r].phase = "running" /\ run'[r].steps = 0
      BY <2>5 DEF Adds, Moves
    <2> HIDE DEF u, v
    <2>8. Funded(r)'
      BY <2>6, <2>7 DEF Funded, Affords
    <2>9. \E w, next, edited : Adds(w, next, edited)
      OBVIOUS
    <2> QED
      BY <2>8, <2>9, OthersFunded
  <1>5. ASSUME NEW r \in Runs, Resumes(r) PROVE Budget'
    <2> DEFINE k == store[Len(store)]
    <2>1. Len(store) \in 1..Len(store)
      BY <1>0, <1>5 DEF Resumes
    <2>2. k \in Checkpoints /\ Attempts(k.values) >= 0
      BY <1>0, <2>1 DEF TypeOK, CountsNatural
    <2>3. k.values \in GraphState
      BY <2>2 DEF Checkpoints
    <2>4. run[r].steps = 0
      BY <1>5 DEF Resumes, Budget, Funded
    <2>5. run'[r].steps = 0 /\ run'[r].phase = "running" /\ run'[r].at = Len(store)
            /\ store' = store
      BY <1>5, <2>4 DEF Resumes, Moves
    <2>6. 0 + Need(k.next, k.values) < RecursionLimit
      BY <2>2, <2>3, FreshAffords
    <2>7. Funded(r)'
      BY <2>5, <2>6 DEF Funded, Affords
    <2> QED
      BY <1>5, <2>5, <2>7, OthersFunded DEF Resumes
  <1>6. ASSUME NEW r \in Runs, Works(r) PROVE Budget'
    <2>1. Funded(r)'
      BY <1>6, WorkFunded DEF Budget
    <2>2. Moves(r, "running", Len(store) + 1) /\ \E v, next, edited : Adds(v, next, edited)
      BY <1>6 DEF Works
    <2> QED
      BY <2>1, <2>2, OthersFunded
  <1>7. ASSUME NEW r \in Runs, Ends(r) PROVE Budget'
    <2> PICK phase \in Stopped :
               /\ store' = store /\ Moves(r, phase, run[r].at)
               /\ phase = "recursion" => run[r].phase = "running" /\ run[r].steps = StepLimit(r)
      BY <1>7 DEF Ends
    <2>1. run'[r].phase = phase /\ run'[r].at = run[r].at
            /\ phase \notin {"loaded", "checked", "running"}
      BY DEF Moves, Stopped
    <2>2. ASSUME phase = "recursion" PROVE InToolLoop(run[r].at)
      <3> DEFINE k == store[run[r].at]
      <3>1. run[r].phase = "running" /\ run[r].steps = StepLimit(r)
        BY <2>2
      <3>2. k \in Checkpoints /\ run[r].at \in 1..Len(store)
        BY <3>1, ValuesType
      <3>3. k.values \in GraphState /\ Attempts(k.values) >= 0
        BY <3>2 DEF Checkpoints, CountsNatural
      <3>4. InToolLoop(run[r].at) \/ run[r].steps + Need(k.next, k.values) < RecursionLimit
        BY <3>1 DEF Budget, Funded, Affords
      <3>5. Need(k.next, k.values) \in 0..(2 + 2 * RevisionLimit)
        BY <3>3, NeedRange
      <3>6. StepLimit(r) \in {RecursionLimit, RecursionLimit + 2}
        BY DEF StepLimit
      <3> HIDE DEF k
      <3> QED
        BY <3>1, <3>4, <3>5, <3>6, RevisionLimitAssumption, RecursionLimitAssumption
    <2>4. InToolLoop(run[r].at)' <=> InToolLoop(run[r].at)
      BY <2>1 DEF InToolLoop
    <2>3. Funded(r)'
      BY <2>1, <2>2, <2>4 DEF Funded
    <2> QED
      BY <2>3, OthersFunded
  <1> QED
    BY <1>1, <1>2, <1>3, <1>4, <1>5, <1>6, <1>7, StepShapes

\* Only the tool loop can run into the recursion limit, for any revision limit
\* R and any recursion limit above 2 + 2 R, whoever resumes, forks or edits.
THEOREM ToolLoopsOnly == Spec => []OnlyToolLoopsRunOut
  <1>1. CASE EditCounts \subseteq Nat
    <2> DEFINE Inv == TypeInv /\ CountsNatural /\ Chained /\ Budget
    <2>1. Init => Inv
      <3>1. Init => CountsNatural /\ Chained /\ Budget
        BY DEF Init, CountsNatural, Chained, Budget, Funded, Idle
      <3> QED
        BY <3>1, TypeInvInit
    <2>2. Inv /\ [Next]_vars => Inv'
      BY <1>1, TypeInvStep, CountStep, ChainStep, BudgetStep
    <2>3. Inv => OnlyToolLoopsRunOut
      BY DEF Budget, Funded, OnlyToolLoopsRunOut
    <2> QED
      BY <2>1, <2>2, <2>3, PTL DEF Spec
  <1>2. CASE ~(EditCounts \subseteq Nat)
    <2>1. OnlyToolLoopsRunOut
      BY <1>2 DEF OnlyToolLoopsRunOut
    <2> QED
      BY <2>1, PTL
  <1> QED
    BY <1>1, <1>2

-----------------------------------------------------------------------------
(* Every request has a bounded number of steps and ends once.              *)

\* The steps a request can still take; they run out with the recursion limit.
StepsLeft(r) ==
    IF run[r].phase \in {"loaded", "checked"} THEN RecursionLimit + 4
    ELSE IF run[r].phase = "running" THEN RecursionLimit + 3 - run[r].steps
    ELSE 0

\* A request that has been accepted only ever comes nearer to its end, and one
\* that has ended stays as it ended: whatever the models answer and whoever
\* resumes or edits the thread, an invocation is bounded by the recursion limit.
RequestsOnlyAdvance ==
    \A r \in Runs :
       \/ run'[r] = run[r]
       \/ run[r].phase = "free" /\ run'[r].phase \in {"loaded", "checked", "rejected"}
       \/ run[r].phase \in Active /\ StepsLeft(r)' \in 0..(StepsLeft(r) - 1)

StepsBounded ==
    \A r \in Runs :
       /\ run[r].phase \in {"loaded", "checked"} => run[r].steps = 0
       /\ run[r].phase = "running" => run[r].steps <= RecursionLimit + 2

\* One step of one request, seen from the request that takes it.
LEMMA OneAdvances ==
    ASSUME TypeInv, StepsBounded, NEW r \in Runs,
           Begins(r) \/ Asks(r) \/ Resumes(r) \/ Works(r) \/ Ends(r)
    PROVE  /\ \A q \in Runs \ {r} : run'[q] = run[q]
           /\ \/ run[r].phase = "free" /\ run'[r].phase \in {"loaded", "checked", "rejected"}
              \/ run[r].phase \in Active /\ StepsLeft(r)' \in 0..(StepsLeft(r) - 1)
           /\ run'[r].phase \in {"loaded", "checked"} => run'[r].steps = 0
           /\ run'[r].phase = "running" => run'[r].steps <= RecursionLimit + 2
  <1>0. RecursionLimit \in Nat /\ run[r].steps \in Nat
    BY RecursionLimitAssumption DEF TypeInv, TypeOK, RunRecords
  <1>1. CASE Begins(r)
    BY <1>1 DEF Begins, Moves
  <1>2. CASE Asks(r) \/ Resumes(r)
    <2>1. run[r].phase \in {"loaded", "checked"} /\ run'[r].phase = "running"
            /\ run'[r].steps = run[r].steps /\ \A q \in Runs \ {r} : run'[q] = run[q]
      BY <1>2 DEF Asks, Resumes, Moves
    <2>2. run'[r].steps = 0
      BY <2>1 DEF StepsBounded
    <2>3. StepsLeft(r) = RecursionLimit + 4 /\ StepsLeft(r)' = RecursionLimit + 3 - 0
      BY <2>1, <2>2 DEF StepsLeft
    <2> QED
      BY <1>0, <2>1, <2>2, <2>3 DEF Active
  <1>3. CASE Works(r)
    <2>1. run[r].phase = "running" /\ run[r].steps < StepLimit(r)
            /\ run'[r].phase = "running" /\ run'[r].steps = run[r].steps + 1
            /\ \A q \in Runs \ {r} : run'[q] = run[q]
      BY <1>3 DEF Works, Pending, Moves
    <2>2. StepsLeft(r) = RecursionLimit + 3 - run[r].steps
            /\ StepsLeft(r)' = RecursionLimit + 3 - (run[r].steps + 1)
      BY <2>1 DEF StepsLeft
    <2>3. run[r].steps < RecursionLimit + 2
      BY <1>0, <2>1 DEF StepLimit
    <2> QED
      BY <1>0, <2>1, <2>2, <2>3 DEF Active
  <1>4. CASE Ends(r)
    <2>1. run[r].phase \in Active /\ run'[r].phase \in Stopped
            /\ \A q \in Runs \ {r} : run'[q] = run[q]
      BY <1>4 DEF Ends, Moves
    <2>2. StepsLeft(r)' = 0
      BY <2>1 DEF StepsLeft, Stopped
    <2>3. StepsLeft(r) >= 1 /\ StepsLeft(r) \in Nat
      BY <1>0, <2>1 DEF StepsLeft, Active, StepsBounded
    <2> QED
      BY <2>1, <2>2, <2>3 DEF Stopped
  <1> QED
    BY <1>1, <1>2, <1>3, <1>4

\* Every step advances the request that takes it.
LEMMA AdvanceStep ==
    ASSUME TypeInv, StepsBounded, [Next]_vars
    PROVE  RequestsOnlyAdvance /\ StepsBounded'
  <1>1. CASE run' = run
    BY <1>1 DEF RequestsOnlyAdvance, StepsBounded
  <1>2. ASSUME NEW r \in Runs, Begins(r) \/ Asks(r) \/ Resumes(r) \/ Works(r) \/ Ends(r)
        PROVE  RequestsOnlyAdvance /\ StepsBounded'
    <2>1. /\ \A q \in Runs \ {r} : run'[q] = run[q]
          /\ \/ run[r].phase = "free" /\ run'[r].phase \in {"loaded", "checked", "rejected"}
             \/ run[r].phase \in Active /\ StepsLeft(r)' \in 0..(StepsLeft(r) - 1)
          /\ run'[r].phase \in {"loaded", "checked"} => run'[r].steps = 0
          /\ run'[r].phase = "running" => run'[r].steps <= RecursionLimit + 2
      BY <1>2, OneAdvances
    <2>2. RequestsOnlyAdvance
      BY <2>1 DEF RequestsOnlyAdvance
    <2>3. StepsBounded'
      BY <2>1 DEF StepsBounded
    <2> QED
      BY <2>2, <2>3
  <1>3. Edited \/ UNCHANGED vars => run' = run
    BY DEF Edited, vars
  <1> QED
    BY <1>1, <1>2, <1>3, StepShapes

\* An accepted request takes at most RecursionLimit + 4 steps and then stays as it
\* ended: the variant that EveryRunStops needs beside fair scheduling.
THEOREM OnlyAdvance == Spec => [][RequestsOnlyAdvance]_vars
  <1>1. Init => TypeInv /\ StepsBounded
    <2>1. Init => StepsBounded
      BY DEF Init, StepsBounded, Idle
    <2> QED
      BY <2>1, TypeInvInit
  <1>2. (TypeInv /\ StepsBounded) /\ [Next]_vars => (TypeInv /\ StepsBounded)'
    BY TypeInvStep, AdvanceStep
  <1>3. (TypeInv /\ StepsBounded) /\ [Next]_vars => [RequestsOnlyAdvance]_vars
    BY AdvanceStep
  <1> QED
    BY <1>1, <1>2, <1>3, PTL DEF Spec
=============================================================================
