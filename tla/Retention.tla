------------------------------- MODULE Retention -------------------------------
(***************************************************************************)
(* Checkpoint retention: sweep (app/graph/gc.py), run by the background    *)
(* task of the lifespan (_gc_loop in app/main.py) and by POST /admin/gc    *)
(* (app/api/v1/endpoints.py), over threads that go on being written.  A    *)
(* sweep selects the stale threads in one query and deletes them one by    *)
(* one, in the order the rows came; in between anything may happen.        *)
(* Deleting a thread (AsyncPostgresSaver.adelete_thread) is one step.      *)
(***************************************************************************)
EXTENDS Integers

CONSTANTS
    Threads,
    RetentionDays,      \* settings.checkpoint_retention_days
    IntervalHours,      \* the values of settings.checkpoint_gc_interval_hours
    MaxTime,            \* bound on the clock
    MaxFaults           \* bound on failed queries and deletes, and on restarts

ASSUME RetentionAssumption == /\ RetentionDays \in Nat /\ MaxTime \in Nat /\ MaxFaults \in Nat
                              /\ IntervalHours \subseteq Int

VARIABLES
    now,        \* the database's clock, in days
    ckpts,      \* per thread: the ts of its checkpoints
    hours,      \* the interval this deployment is configured with
    sweeps,     \* the background task and a request
    faults

vars == <<now, ckpts, hours, sweeps, faults>>

Sweepers == {"loop", "admin"}
Times == 0..MaxTime

\* asleep: the task between two sweeps; off: it returned at once; idle: no request.
SweepState == [stage : {"off", "asleep", "idle", "select", "delete"},
               todo : SUBSET Threads,       \* what the query returned, less the deleted
               at : Times]                  \* when the query ran

TypeOK == /\ now \in Times
          /\ ckpts \in [Threads -> SUBSET Times]
          /\ hours \in IntervalHours
          /\ sweeps \in [Sweepers -> SweepState]
          /\ faults \in 0..MaxFaults

NoSweep(stage) == [stage |-> stage, todo |-> {}, at |-> 0]

\* interval = hours * 3600, and with interval <= 0 the task ends at once.
_gc_loop(h) == NoSweep(IF h * 3600 <= 0 THEN "off" ELSE "asleep")

Started(h) == [s \in Sweepers |-> IF s = "loop" THEN _gc_loop(h) ELSE NoSweep("idle")]

Init == /\ now = 0
        /\ ckpts = [t \in Threads |-> {}]
        /\ hours \in IntervalHours
        /\ sweeps = Started(hours)
        /\ faults = 0

Stale_Oldest(t) == \E ts \in ckpts[t] : ts < now - RetentionDays

\* MAX(ts) < now() - retention_days; a thread without rows is in no group.
Stale(t) == /\ ckpts[t] # {}
            /\ \A ts \in ckpts[t] : ts < now - RetentionDays

-----------------------------------------------------------------------------
Tick == /\ now < MaxTime
        /\ now' = now + 1
        /\ UNCHANGED <<ckpts, hours, sweeps, faults>>

\* A run or an edit of a thread writes a checkpoint.
Write(t) == /\ ckpts' = [ckpts EXCEPT ![t] = @ \union {now}]
            /\ UNCHANGED <<now, hours, sweeps, faults>>

\* The task wakes up, or /admin/gc is called.
Begin(s) == /\ sweeps[s].stage \in {"asleep", "idle"}
            /\ sweeps' = [sweeps EXCEPT ![s].stage = "select"]
            /\ UNCHANGED <<now, ckpts, hours, faults>>

\* The sweep is over: the task sleeps for its interval, the request is answered.
Rest(s) == NoSweep(IF s = "loop" THEN "asleep" ELSE "idle")

find_stale_threads_RawRows(s) ==
    /\ sweeps[s].stage = "select"
    /\ sweeps' = [sweeps EXCEPT ![s] = [stage |-> "delete", at |-> now,
                                        todo |-> {<<t>> : t \in {u \in Threads : Stale(u)}}]]
    /\ UNCHANGED <<now, ckpts, hours, faults>>

\* The thread_ids of the rows, not the rows.
find_stale_threads(s) ==
    /\ sweeps[s].stage = "select"
    /\ sweeps' = [sweeps EXCEPT ![s] = [stage |-> "delete", todo |-> {t \in Threads : Stale(t)},
                                        at |-> now]]
    /\ UNCHANGED <<now, ckpts, hours, faults>>

adelete_thread(s, t) ==
    /\ sweeps[s].stage = "delete" /\ t \in sweeps[s].todo
    /\ ckpts' = [ckpts EXCEPT ![t] = {}]
    /\ sweeps' = [sweeps EXCEPT ![s].todo = @ \ {t}]
    /\ UNCHANGED <<now, hours, faults>>

\* The loop over the rows is done.
Return(s) == /\ sweeps[s].stage = "delete" /\ sweeps[s].todo = {}
             /\ sweeps' = [sweeps EXCEPT ![s] = Rest(s)]
             /\ UNCHANGED <<now, ckpts, hours, faults>>

AfterFailure_Dead(s) == NoSweep(IF s = "loop" THEN "off" ELSE "idle")

\* "a failed sweep must not kill the task"; the request answers 500.
AfterFailure(s) == Rest(s)

\* The query or a delete raises: the rest of the sweep is dropped.
Fail(s) == /\ faults < MaxFaults /\ faults' = faults + 1
           /\ sweeps[s].stage = "select" \/ sweeps[s].todo # {}
           /\ sweeps' = [sweeps EXCEPT ![s] = AfterFailure(s)]
           /\ UNCHANGED <<now, ckpts, hours>>

\* Shutdown cancels the task wherever it is; the next process starts another.
Restart == /\ faults < MaxFaults /\ faults' = faults + 1
           /\ sweeps' = Started(hours)
           /\ UNCHANGED <<now, ckpts, hours>>

\* One step of a sweep that does not fail.
Progress(s) == \/ find_stale_threads(s) \/ Return(s)
               \/ \E t \in Threads : adelete_thread(s, t)

Next == \/ Tick \/ Restart
        \/ \E t \in Threads : Write(t)
        \/ \E s \in Sweepers : Begin(s) \/ Progress(s) \/ Fail(s)

Spec == Init /\ [][Next]_vars

\* asyncio.sleep ends, and the database answers; nobody has to call /admin/gc.
FairSpec == Spec /\ WF_vars(Begin("loop")) /\ \A s \in Sweepers : WF_vars(Progress(s))
-----------------------------------------------------------------------------
(***************************************************************************)
(* What a sweep may destroy, whatever runs between its query and its       *)
(* deletes, another sweep of the same thread included: checkpoints that    *)
(* were past the cutoff when the query ran, and checkpoints written after  *)
(* it.  Nothing that was recent at the query is ever lost.                 *)
(***************************************************************************)
Expendable(s, ts) == ts < sweeps[s].at - RetentionDays \/ ts >= sweeps[s].at

FreshCheckpointsSurvive ==
    [][\A t \in Threads : \A ts \in ckpts[t] \ ckpts'[t] :
          \E s \in Sweepers : t \in sweeps[s].todo /\ Expendable(s, ts)]_vars

(***************************************************************************)
(* With a positive interval, a thread that has gone stale is deleted or    *)
(* written to again, although sweeps fail and the process restarts.        *)
(***************************************************************************)
AbandonedThreadsGo ==
    \A t \in Threads : (hours > 0 /\ Stale(t)) ~> ~Stale(t)

(***************************************************************************)
(* "drop threads whose newest checkpoint is past the cutoff" (gc.py:1):    *)
(* a thread is deleted only if its newest checkpoint, then, is past it.    *)
(* The query and the delete are two steps, and a thread that is continued  *)
(* between them loses its new turn.                                        *)
(***************************************************************************)
OnlyStaleThreadsAreDeleted ==
    [][\A t \in Threads : ckpts[t] # {} /\ ckpts'[t] = {} => Stale(t)]_vars
================================================================================
