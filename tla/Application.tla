------------------------------ MODULE Application ------------------------------
(***************************************************************************)
(* One process after the other of the application: the lifespan            *)
(* (app/main.py), the graph and tool-list builders it and the requests     *)
(* call (app/graph/engine.py, app/graph/tools.py), and the research graph  *)
(* behind POST /research (app/graph/research.py), which is built by the    *)
(* first request and keeps its threads in the InMemorySaver.  Module       *)
(* globals live as long as the process.  What the MCP servers advertise    *)
(* changes at any time, so a tool list is the version that was loaded.     *)
(***************************************************************************)
EXTENDS Naturals

CONSTANTS
    Requests,
    Threads,                    \* thread_ids of /research, chosen by the callers
    RESEARCH_RECURSION_LIMIT,
    MaxVersion, MaxStarts,      \* bounds on tool lists and on processes
    None

ASSUME ApplicationAssumption ==
    /\ MaxVersion \in Nat /\ MaxStarts \in Nat
    /\ RESEARCH_RECURSION_LIMIT \in Nat /\ RESEARCH_RECURSION_LIMIT % 2 = 0
ASSUME NoneIsNoVersion == None \notin Nat /\ None \notin Requests

VARIABLES
    life,       \* where the lifespan is
    main,       \* _workflow: its tools node and its checkpointer
    research,   \* _research_builder's tools node, and is _research_app compiled?
    cache,      \* _tools_cache
    lock,       \* the request that holds _tools_lock, or None
    thread,     \* InMemorySaver: the newest transcript of each research thread
    shared,     \* history: research threads two requests worked on at once
    durable,    \* main runs whose checkpoints are in Postgres
    world,      \* processes started so far, and the tools the MCP servers advertise
    req

lists == <<main, research, cache, lock>>
vars == <<life, lists, thread, shared, durable, world, req>>

Versions == 0..MaxVersion
Lists == Versions \union {None}

\* build: before _research_app is looked at; load: its list is awaited; bind: before
\* get_tools; fetch: holding the lock; invoke: the main graph runs; agent, tools,
\* report: the node of the research graph that is next; lost: the process went down.
Ended == {"answered", "failed", "recursion", "lost"}
Looping == {"agent", "tools", "report"}
Stages == {"idle", "build", "load", "bind", "fetch", "invoke"} \union Looping \union Ended
RequestState == [stage : Stages, research : BOOLEAN, thread : Threads \union {None},
                 bound : Lists,             \* the list bound to the model
                 sound : BOOLEAN,           \* the transcript it continues
                 steps : 0..RESEARCH_RECURSION_LIMIT]

TypeOK == /\ life \in {"down", "built", "serving"}
          /\ main \in [tools : Lists, saver : {"memory", "postgres", None}]
          /\ research \in [tools : Lists, app : BOOLEAN]
          /\ cache \in Lists /\ lock \in Requests \union {None}
          /\ thread \in [Threads -> {"absent", "closed", "open", "broken"}]
          /\ shared \subseteq Threads /\ durable \subseteq Requests
          /\ world \in [starts : 0..MaxStarts, tools : Versions]
          /\ req \in [Requests -> RequestState]

\* The module globals of a process that has just been started.
Fresh == [main |-> [tools |-> None, saver |-> None],
          research |-> [tools |-> None, app |-> FALSE],
          thread |-> [t \in Threads |-> "absent"]]

Idle == [stage |-> "idle", research |-> FALSE, thread |-> None, bound |-> None,
         sound |-> TRUE, steps |-> 0]

Init == /\ life = "down" /\ main = Fresh.main /\ research = Fresh.research
        /\ cache = None /\ lock = None
        /\ thread = Fresh.thread /\ shared = {} /\ durable = {}
        /\ world = [starts |-> 0, tools |-> 0]
        /\ req = [r \in Requests |-> Idle]

-----------------------------------------------------------------------------
(* The lifespan.                                                           *)

\* Another version of an MCP server is deployed.
Deploy == /\ world.tools < MaxVersion
          /\ world' = [world EXCEPT !.tools = @ + 1]
          /\ UNCHANGED <<life, lists, thread, shared, durable, req>>

Start == /\ life = "down" /\ world.starts < MaxStarts
         /\ world' = [world EXCEPT !.starts = @ + 1]

\* The first statement of the lifespan: tools node, then compiled with `checkpointer`.
build_workflow == /\ Start
                  /\ life' = "built"
                  /\ main' = [tools |-> world.tools, saver |-> "memory"]
                  /\ UNCHANGED <<research, cache, lock, thread, shared, durable, req>>

\* Pool, saver.setup(), workflow.checkpointer = saver; a response cache that cannot be
\* reached is only logged.
Connect == /\ life = "built" /\ life' = "serving"
           /\ main' = [main EXCEPT !.saver = "postgres"]
           /\ UNCHANGED <<research, cache, lock, thread, shared, durable, world, req>>

\* The process ends, and with it its globals and the requests it was serving.
Exit == /\ life' = "down" /\ main' = Fresh.main /\ research' = Fresh.research
        /\ cache' = None /\ lock' = None
        /\ thread' = Fresh.thread /\ shared' = {}
        /\ req' = [r \in Requests |-> IF req[r].stage \in {"idle"} \union Ended THEN req[r]
                                      ELSE [req[r] EXCEPT !.stage = "lost"]]
        /\ UNCHANGED durable

\* "do not start a service whose tools are missing".
BuildFails == Start /\ Exit

ConnectFails_Tolerated == /\ life = "built" /\ life' = "serving"
                          /\ UNCHANGED <<lists, thread, shared, durable, world, req>>

ConnectFails == life = "built" /\ Exit /\ UNCHANGED world

Shutdown == life = "serving" /\ Exit /\ UNCHANGED world

-----------------------------------------------------------------------------
(* Requests: /research builds its graph, all bind the tool list.           *)

GoTo(r, stage) == req' = [req EXCEPT ![r].stage = stage]

Arrive(r, state) == /\ life = "serving" /\ req[r].stage = "idle"
                    /\ req' = [req EXCEPT ![r] = state]
                    /\ UNCHANGED <<life, lists, thread, shared, durable, world>>

run_agent(r) == Arrive(r, [Idle EXCEPT !.stage = "bind"])
run_research(r, t) == Arrive(r, [Idle EXCEPT !.stage = "build", !.research = TRUE, !.thread = t])

\* No lock: all the requests that find _research_app unset go on to load.
build_research_workflow(r) ==
    /\ req[r].stage = "build"
    /\ GoTo(r, IF research.app THEN "bind" ELSE "load")
    /\ UNCHANGED <<life, lists, thread, shared, durable, world>>

\* The list is there: add_node refuses a second "tools", and compile comes with no
\* await in between.
AddTools(r) == /\ req[r].stage = "load" /\ research.tools = None
               /\ research' = [tools |-> world.tools, app |-> TRUE]

CompileResearch(r) == /\ AddTools(r)
                      /\ GoTo(r, "bind")
                      /\ UNCHANGED <<life, main, cache, lock, thread, shared, durable, world>>

Fail(r, stages) == /\ req[r].stage \in stages
                   /\ GoTo(r, "failed")
                   /\ UNCHANGED <<life, main, research, cache, thread, shared, durable, world>>

\* load_tools() raises, or add_node does; a model raises in a node.  What a tool raises
\* becomes a message (format_tool_error).
Raises(r) == Fail(r, {"load", "agent", "report", "invoke"}) /\ UNCHANGED lock

InLoop(t) == {q \in Requests : req[q].thread = t /\ req[q].stage \in Looping}

\* bind_tools, and the start of the graph run: the research loop appends its question
\* to the newest transcript of the thread.
Bind(r, list) == LET t == req[r].thread IN
    /\ req' = [req EXCEPT ![r].bound = list,
                  ![r].stage = IF req[r].research THEN "agent" ELSE "invoke",
                  ![r].sound = req[r].research => thread[t] \in {"absent", "closed"}]
    /\ shared' = IF req[r].research /\ InLoop(t) # {} THEN shared \union {t} ELSE shared
    /\ UNCHANGED <<life, main, research, thread, durable, world>>

Locked_Never == FALSE

Locked == lock # None

\* get_tools, with a list in the cache or without.
get_tools(r) ==
    /\ req[r].stage = "bind" /\ ~Locked
    /\ \/ cache # None /\ Bind(r, cache) /\ UNCHANGED <<cache, lock>>
       \/ /\ cache = None /\ lock' = r
          /\ GoTo(r, "fetch")
          /\ UNCHANGED <<life, main, research, cache, thread, shared, durable, world>>

load_tools(r) == /\ req[r].stage = "fetch"
                 /\ cache' = world.tools /\ lock' = None
                 /\ Bind(r, world.tools)

LockAfterFailure_Kept(r) == r

\* `async with _tools_lock` gives it back.
LockAfterFailure(r) == None

LoadFails(r) == Fail(r, {"fetch"}) /\ lock' = LockAfterFailure(r)

\* A main run (module CheckpointedRuns) leaves its checkpoints in _workflow's saver.
ainvoke(r) == /\ req[r].stage = "invoke"
              /\ GoTo(r, "answered")
              /\ durable' = IF main.saver = "postgres" THEN durable \union {r} ELSE durable
              /\ UNCHANGED <<life, lists, thread, shared, world>>

-----------------------------------------------------------------------------
(* The research loop.                                                      *)

Spent_OneEarly(r) == req[r].steps + 1 >= RESEARCH_RECURSION_LIMIT
Spent_Never(r) == FALSE

Spent(r) == req[r].steps = RESEARCH_RECURSION_LIMIT

\* One super-step, which leaves a checkpoint.
SuperStep(r, node, next, end) ==
    /\ req[r].stage = node /\ ~Spent(r)
    /\ req' = [req EXCEPT ![r].stage = next, ![r].steps = @ + 1]
    /\ thread' = [thread EXCEPT ![req[r].thread] = IF req[r].sound THEN end ELSE "broken"]
    /\ UNCHANGED <<life, lists, shared, durable, world>>

\* should_continue: with tool calls to the tools, without to the report.
researcher(r) == \/ SuperStep(r, "agent", "tools", "open")
                 \/ SuperStep(r, "agent", "report", "closed")
ToolNode(r) == SuperStep(r, "tools", "agent", "closed")

\* GraphRecursionError, answered as MaxRecursionError: LangGraph looks at the limit
\* before it looks for another node, so a run that ends with its last step raises too.
AfterReport(r) == IF req[r].steps + 1 = RESEARCH_RECURSION_LIMIT THEN "recursion" ELSE "answered"
generate_research_report(r) == SuperStep(r, "report", AfterReport(r), "closed")

OutOfSteps(r) == /\ req[r].stage \in Looping /\ Spent(r)
                 /\ GoTo(r, "recursion")
                 /\ UNCHANGED <<life, lists, thread, shared, durable, world>>

Step(r) == \/ build_research_workflow(r) \/ CompileResearch(r) \/ Raises(r)
           \/ get_tools(r) \/ load_tools(r) \/ LoadFails(r) \/ ainvoke(r)
           \/ researcher(r) \/ ToolNode(r) \/ generate_research_report(r) \/ OutOfSteps(r)

Next == \/ Deploy \/ build_workflow \/ BuildFails \/ Connect \/ ConnectFails \/ Shutdown
        \/ \E r \in Requests : \/ run_agent(r) \/ Step(r)
                               \/ \E t \in Threads : run_research(r, t)

Spec == Init /\ [][Next]_vars

\* Awaits end, with an answer or an exception.
FairSpec == Spec /\ \A r \in Requests : WF_vars(Step(r))
-----------------------------------------------------------------------------
(***************************************************************************)
(* An answered main run is still on record after any number of restarts:   *)
(* although the graph is compiled with the volatile InMemorySaver and gets *)
(* the Postgres saver later, no request is served in between, also when a  *)
(* start fails half-way.                                                   *)
(***************************************************************************)
AnsweredRunsAreDurable ==
    \A r \in Requests : req[r].stage = "answered" /\ ~req[r].research => r \in durable

(***************************************************************************)
(* All the models of a process are bound to one tool list, whatever is     *)
(* deployed between two first requests: the list in the cache is never     *)
(* replaced while somebody uses it.                                        *)
(***************************************************************************)
OneToolList ==
    \A r \in Requests : req[r].stage \in {"invoke"} \union Looping => req[r].bound = cache

(***************************************************************************)
(* The transcript of a research thread can be continued: while nothing     *)
(* runs on it, it does not end in tool calls without an answer (the        *)
(* recursion limit is even and strikes after a tools step), and a question *)
(* is put between tool calls and their answers only where two requests use *)
(* one thread_id at the same time.                                         *)
(***************************************************************************)
TranscriptsCanGoOn ==
    \A t \in Threads : /\ thread[t] = "open" => InLoop(t) # {}
                       /\ thread[t] = "broken" => t \in shared

(***************************************************************************)
(* Every request comes to an end: a failed load gives the lock back to     *)
(* those who wait for it, and a model that keeps calling tools is stopped. *)
(***************************************************************************)
EveryRequestEnds ==
    \A r \in Requests : (req[r].stage # "idle") ~> (req[r].stage \in Ended)
================================================================================
