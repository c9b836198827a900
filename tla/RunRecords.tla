------------------------------ MODULE RunRecords ------------------------------
(***************************************************************************)
(* POST /run and /run/stream as users of the database: the AgentExecution  *)
(* row each adds to its session (app/api/v1/endpoints.py), get_db's commit *)
(* and rollback around it and the one connection pool behind all sessions  *)
(* (app/database.py), and the sandboxed code a run may execute, whose      *)
(* audit takes a second connection from that pool while the run holds the  *)
(* first (app/tools/code_executor.py).                                     *)
(*                                                                         *)
(* A session takes its connection at its first statement: the ownership    *)
(* query of memory_retriever, which the admin's runs skip, or the commit.  *)
(* It keeps it until get_db closes it.  Whoever waits for a connection     *)
(* longer than the pool's timeout gets an exception.  The container is run *)
(* by a thread that goes on when the run that waits for it is cancelled.   *)
(***************************************************************************)
EXTENDS Naturals, FiniteSets

CONSTANTS
    Requests,
    PoolSize,       \* pool_size + max_overflow
    None

ASSUME PoolAssumption == PoolSize \in Nat \ {0}
ASSUME NoneIsNoStatus ==
    None \notin {"running", "completed", "failed", "success", "ok", "error"}

VARIABLES
    req,        \* the requests
    conns,      \* connections in use: <<request, "session" or "audit">>
    row,        \* agent_executions: the committed status, or None
    box,        \* the container of each run
    event       \* code_execution_events: the committed outcome, or None

vars == <<req, conns, row, box, event>>

\* begin: up to the ownership query; query: waiting for a connection; worker: the
\* nodes after it; sandbox: awaiting the thread; audit: waiting for the second
\* connection; auditing: holding it; answered, raised: get_db's turn.
Stages == {"idle", "begin", "query", "worker", "sandbox", "audit", "auditing",
           "answered", "raised", "closed"}
InGraph == {"begin", "query", "worker", "sandbox", "audit", "auditing"}

RequestState ==
    [stage : Stages, stream : BOOLEAN, admin : BOOLEAN,
     status : {"running", "completed", "failed"},       \* execution.status
     ended : {"finished", "recursion", "error", "left", "cancelled", None},  \* history
     heard : {"success", "error", None}]                \* the sandbox's ToolMessage

\* started: the container exists; exited: it ended, its logs are read or not.
BoxState == [stage : {"none", "started", "exited", "removed", "leaked"},
             result : {"success", "error", None}]

TypeOK == /\ req \in [Requests -> RequestState]
          /\ conns \subseteq Requests \X {"session", "audit"}
          /\ row \in [Requests -> {"running", "completed", "failed", None}]
          /\ box \in [Requests -> BoxState]
          /\ event \in [Requests -> {"ok", "error", None}]

Idle == [stage |-> "idle", stream |-> FALSE, admin |-> FALSE, status |-> "running",
         ended |-> None, heard |-> None]

Init == /\ req = [r \in Requests |-> Idle]
        /\ conns = {}
        /\ row = [r \in Requests |-> None]
        /\ box = [r \in Requests |-> [stage |-> "none", result |-> None]]
        /\ event = [r \in Requests |-> None]

GoTo(r, stage) == req' = [req EXCEPT ![r].stage = stage]

Session(r) == <<r, "session">>
AuditSession(r) == <<r, "audit">>
Full == Cardinality(conns) >= PoolSize

-----------------------------------------------------------------------------
(* The graph run.                                                          *)

Begin(r, stream, admin) ==
    /\ req[r].stage = "idle"
    /\ req' = [req EXCEPT ![r] = [Idle EXCEPT !.stage = "begin", !.stream = stream,
                                              !.admin = admin]]
    /\ UNCHANGED <<conns, row, box, event>>

run_agent(r, admin) == Begin(r, FALSE, admin)
run_agent_stream(r, admin) == Begin(r, TRUE, admin)

\* The retriever queries owned_thread_ids for everybody but the admin.
Retrieve(r) ==
    /\ req[r].stage = "begin"
    /\ GoTo(r, IF req[r].admin THEN "worker" ELSE "query")
    /\ UNCHANGED <<conns, row, box, event>>

\* The session's first statement also flushes the new row into the transaction.
Query(r) ==
    /\ req[r].stage = "query" /\ ~Full
    /\ conns' = conns \union {Session(r)}
    /\ GoTo(r, "worker")
    /\ UNCHANGED <<row, box, event>>

\* How the graph run ends decides what get_db sees.
EndRun(r, ended, status, stage) ==
    /\ req' = [req EXCEPT ![r].ended = ended, ![r].status = status, ![r].stage = stage]
    /\ conns' = conns \ {AuditSession(r)}
    /\ UNCHANGED <<row, box, event>>

Finish(r) == /\ req[r].stage = "worker"
             /\ EndRun(r, "finished", "completed", "answered")

OutOfSteps_Unmarked(r) ==
    /\ req[r].stage = "worker"
    /\ EndRun(r, "recursion", req[r].status, IF req[r].stream THEN "answered" ELSE "raised")

\* GraphRecursionError: /run raises MaxRecursionError, the stream sends an event.
OutOfSteps(r) ==
    /\ req[r].stage = "worker"
    /\ EndRun(r, "recursion", "failed", IF req[r].stream THEN "answered" ELSE "raised")

TimesOut_Never(r) == FALSE

\* A waiter gives up only while there is nothing to be had.
TimesOut(r) == Full

\* A builder, a model or the vector store raises, or the pool's timeout does.
\* Only an AgenticException of /run changes the status.
NodeFails(r) ==
    /\ \/ req[r].stage \in {"begin", "worker"}
       \/ req[r].stage = "query" /\ TimesOut(r)
    /\ \E status \in {"running"} \union (IF req[r].stream THEN {} ELSE {"failed"}) :
          EndRun(r, "error", status, "raised")

\* The stream's client disconnects: its task group is cancelled and ends, and the
\* response is over as if it had been sent.
ClientLeaves(r) == /\ req[r].stage \in InGraph /\ req[r].stream
                   /\ EndRun(r, "left", req[r].status, "answered")

-----------------------------------------------------------------------------
(* execute_sandboxed_code_async, at most once in a run.                    *)

CallSandbox(r) ==
    /\ req[r].stage = "worker" /\ box[r] = [stage |-> "none", result |-> None]
    /\ GoTo(r, "sandbox")
    /\ \/ box' = [box EXCEPT ![r].stage = "started"]
       \/ box' = [box EXCEPT ![r].result = "error"]     \* no container came up
    /\ UNCHANGED <<conns, row, event>>

\* wait() and logs(): exit code 0, another one, the 10 s timeout, a lost host.
ContainerEnds(r) ==
    /\ box[r].stage = "started"
    /\ \E result \in {"success", "error"} :
          box' = [box EXCEPT ![r] = [stage |-> "exited", result |-> result]]
    /\ UNCHANGED <<req, conns, row, event>>

RemovalDue_OnSuccess(r) == box[r] = [stage |-> "exited", result |-> "success"]

\* The finally clause of _run_container, whatever was raised before it.
RemovalDue(r) == box[r].stage = "exited"

\* container.remove(force=True)
Remove(r) == /\ RemovalDue(r)
             /\ box' = [box EXCEPT ![r].stage = "removed"]
             /\ UNCHANGED <<req, conns, row, event>>

\* It raises, which execute_sandboxed_code turns into an error result.
RemoveFails(r) == /\ RemovalDue(r)
                  /\ box' = [box EXCEPT ![r] = [stage |-> "leaked", result |-> "error"]]
                  /\ UNCHANGED <<req, conns, row, event>>

ThreadReturns(r) ==
    /\ req[r].stage = "sandbox"
    /\ box[r].result # None /\ box[r].stage # "exited"
    /\ GoTo(r, "audit")
    /\ UNCHANGED <<conns, row, box, event>>

AuditConnects(r) ==
    /\ req[r].stage = "audit" /\ ~Full
    /\ conns' = conns \union {AuditSession(r)}
    /\ GoTo(r, "auditing")
    /\ UNCHANGED <<row, box, event>>

\* The ToolMessage the model gets next.
Hear(r, result) == /\ req' = [req EXCEPT ![r].heard = result, ![r].stage = "worker"]
                   /\ conns' = conns \ {AuditSession(r)}
                   /\ UNCHANGED <<row, box>>

Audit_BadOutcome(r) == /\ req[r].stage = "auditing"
                       /\ event' = [event EXCEPT ![r] = box[r].result]
                       /\ Hear(r, box[r].result)

Audit(r) == /\ req[r].stage = "auditing"
            /\ event' = [event EXCEPT ![r] = IF box[r].result = "success" THEN "ok" ELSE "error"]
            /\ Hear(r, box[r].result)

AuditRaises(r) == \/ req[r].stage = "auditing"
                  \/ req[r].stage = "audit" /\ TimesOut(r)

AuditFails_Ignored(r) == /\ AuditRaises(r)
                         /\ Hear(r, box[r].result)
                         /\ UNCHANGED event

\* Its commit or its wait for a connection raises: format_tool_error tells the model
\* that the call failed, and the run goes on.
AuditFails(r) == /\ AuditRaises(r)
                 /\ Hear(r, "error")
                 /\ UNCHANGED event

-----------------------------------------------------------------------------
(* get_db.                                                                 *)

Close_LeaksAudit(r) == conns' = conns \ {Session(r)}

Close(r) == conns' = conns \ {Session(r), AuditSession(r)}

\* The commit writes the row as it is now; without a connection it needs one.
Commit(r) == /\ req[r].stage = "answered"
             /\ Session(r) \in conns \/ ~Full
             /\ row' = [row EXCEPT ![r] = req[r].status]
             /\ Close(r)
             /\ GoTo(r, "closed")
             /\ UNCHANGED <<box, event>>

\* The route raised, or the commit did.
Rollback(r) == /\ req[r].stage \in {"raised", "answered"}
               /\ Close(r)
               /\ GoTo(r, "closed")
               /\ UNCHANGED <<row, box, event>>

\* The server shuts down: CancelledError passes `except Exception`, finally closes.
Cancel(r) == /\ req[r].stage \in InGraph
             /\ req' = [req EXCEPT ![r].ended = "cancelled", ![r].stage = "closed"]
             /\ Close(r)
             /\ UNCHANGED <<row, box, event>>

-----------------------------------------------------------------------------
Serve(r) == \/ Retrieve(r) \/ Query(r) \/ Finish(r) \/ OutOfSteps(r) \/ NodeFails(r)
            \/ CallSandbox(r) \/ ThreadReturns(r) \/ AuditConnects(r) \/ Audit(r)
            \/ AuditFails(r) \/ Commit(r) \/ Rollback(r)
RunContainer(r) == ContainerEnds(r) \/ Remove(r) \/ RemoveFails(r)

Next == \E r \in Requests :
           \/ \E admin \in BOOLEAN : run_agent(r, admin) \/ run_agent_stream(r, admin)
           \/ Serve(r) \/ RunContainer(r) \/ ClientLeaves(r) \/ Cancel(r)

Spec == Init /\ [][Next]_vars

\* Awaits end: the pool and the container have timeouts, and threads are scheduled.
FairSpec == Spec /\ \A r \in Requests : WF_vars(Serve(r)) /\ WF_vars(RunContainer(r))
-----------------------------------------------------------------------------
(***************************************************************************)
(* A committed AgentExecution row tells how its run ended: completed       *)
(* exactly for the ones that finished; failed only for a stream that ran   *)
(* out of steps; running only for a stream whose client left.              *)
(***************************************************************************)
RowsTellTheOutcome ==
    \A r \in Requests : row[r] # None =>
       /\ row[r] = "completed" <=> req[r].ended = "finished"
       /\ row[r] = "failed" => req[r].stream /\ req[r].ended = "recursion"
       /\ row[r] = "running" => req[r].stream /\ req[r].ended = "left"

(***************************************************************************)
(* Connections are lent to requests that are being served, and to no       *)
(* others: neither a cancelled run in the middle of its audit nor a lost   *)
(* client keeps one, or the pool would shrink with every such request.     *)
(***************************************************************************)
ConnectionsComeBack ==
    \A c \in conns : /\ req[c[1]].stage \notin {"idle", "closed"}
                     /\ c[2] = "audit" => req[c[1]].stage = "auditing"

(***************************************************************************)
(* The model is never shown a sandbox output that is not on record, even   *)
(* when the pool is exhausted at the moment of the audit; and no row tells *)
(* of an execution that did not happen.                                    *)
(***************************************************************************)
Executed == {r \in Requests : box[r].result # None}
Recorded == {r \in Requests : event[r] # None}
ShownOutput == {r \in Requests : req[r].heard = "success"}
Trail == INSTANCE AuditTrail WITH Calls <- Requests, done <- Executed,
                                  recorded <- Recorded, told <- ShownOutput
ImplementsAuditTrail == Trail!Spec

(***************************************************************************)
(* Every request ends and is closed, also when all connections are held by *)
(* runs whose audits wait for one: the pool's timeout breaks the circle.   *)
(***************************************************************************)
EveryRequestCloses ==
    \A r \in Requests : (req[r].stage # "idle") ~> (req[r].stage = "closed")

(***************************************************************************)
(* "removed when the call finishes" (code_executor.py): no container stays *)
(* behind, also when it fails or times out or when the run that started it *)
(* is gone, except when Podman refuses the removal.                        *)
(***************************************************************************)
ContainersAreRemoved ==
    \A r \in Requests : (box[r].stage = "started") ~> (box[r].stage \in {"removed", "leaked"})
================================================================================
