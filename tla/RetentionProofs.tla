--------------------------- MODULE RetentionProofs ---------------------------
(***************************************************************************)
(* The sweep for any number of threads, any retention and any interval.    *)
(* FreshCheckpointsSurvive needs to know, of every thread a sweep has      *)
(* still to delete, what it held at the query and what can have come since. *)
(***************************************************************************)
EXTENDS Retention, TLAPS

\* What waits to be deleted was stale at the query or came after it, and only a
\* sweep between its query and its last delete has anything to delete.
TodoIsExpendable ==
    \A s \in Sweepers :
       /\ sweeps[s].todo # {} => sweeps[s].stage = "delete"
       /\ sweeps[s].at <= now
       /\ \A t \in sweeps[s].todo : \A ts \in ckpts[t] : Expendable(s, ts)

Inv == TypeOK /\ TodoIsExpendable

\* A sweep that is over or has not begun has nothing to delete.
LEMMA NoSweepIsSound ==
    ASSUME NEW stage \in {"off", "asleep", "idle"}
    PROVE  /\ NoSweep(stage) \in SweepState
           /\ NoSweep(stage).todo = {} /\ NoSweep(stage).at = 0
  BY RetentionAssumption DEF NoSweep, SweepState, Times

\* The invariant holds initially.
LEMMA InvInit ==
    ASSUME Init  PROVE Inv
  <1>1. \A s \in Sweepers : sweeps[s] \in SweepState /\ sweeps[s].todo = {} /\ sweeps[s].at = 0
    BY NoSweepIsSound DEF Init, Started, _gc_loop
  <1>2. sweeps = [s \in Sweepers |-> sweeps[s]]
    BY DEF Init, Started
  <1>3. TypeOK
    BY <1>1, <1>2, RetentionAssumption DEF Init, TypeOK, Times
  <1>4. TodoIsExpendable
    BY <1>1 DEF Init, TodoIsExpendable
  <1> QED  BY <1>3, <1>4 DEF Inv

\* A sweep that ends in one of the resting states, others going on.
LEMMA RestKeepsInv ==
    ASSUME Inv, NEW s \in Sweepers, NEW stage \in {"off", "asleep", "idle"},
           sweeps' = [sweeps EXCEPT ![s] = NoSweep(stage)],
           now' = now, ckpts' = ckpts, hours' = hours, faults' \in 0..MaxFaults
    PROVE  Inv'
  <1>1. TypeOK'
    BY NoSweepIsSound DEF Inv, TypeOK
  <1>2. \A q \in Sweepers : sweeps'[q] = IF q = s THEN NoSweep(stage) ELSE sweeps[q]
    BY DEF Inv, TypeOK
  <1>3. now \in Nat
    BY RetentionAssumption DEF Inv, TypeOK, Times
  <1>4. TodoIsExpendable'
    BY <1>2, <1>3, NoSweepIsSound DEF Inv, TodoIsExpendable, Expendable
  <1> QED  BY <1>1, <1>4 DEF Inv

\* Time and writes only add what came after every query so far.
LEMMA OutsideKeepsInv ==
    ASSUME Inv, Tick \/ \E t \in Threads : Write(t)
    PROVE  Inv'
  <1>1. now \in Nat /\ MaxTime \in Nat /\ \A s \in Sweepers : sweeps[s].at \in Nat
    BY RetentionAssumption DEF Inv, TypeOK, SweepState, Times
  <1>2. CASE Tick
    <2>1. TypeOK'  BY <1>1, <1>2 DEF Tick, Inv, TypeOK, Times
    <2>2. TodoIsExpendable'
      BY <1>1, <1>2 DEF Tick, Inv, TodoIsExpendable, Expendable
    <2> QED  BY <2>1, <2>2 DEF Inv
  <1>3. ASSUME NEW t \in Threads, Write(t)  PROVE Inv'
    <2>1. \A x \in Threads : ckpts'[x] = IF x = t THEN ckpts[x] \union {now} ELSE ckpts[x]
      BY <1>3 DEF Write, Inv, TypeOK
    <2>2. TypeOK'  BY <1>3 DEF Write, Inv, TypeOK
    <2>3. sweeps' = sweeps /\ now' = now  BY <1>3 DEF Write
    <2>4. \A s \in Sweepers : sweeps[s].todo \subseteq Threads
      BY DEF Inv, TypeOK, SweepState
    <2>5. TodoIsExpendable'
      BY <1>1, <2>1, <2>3, <2>4 DEF Inv, TodoIsExpendable, Expendable
    <2> QED  BY <2>2, <2>5 DEF Inv
  <1> QED  BY <1>2, <1>3

\* A sweep wakes up, or is asked for.
LEMMA BeginKeepsInv ==
    ASSUME Inv, NEW s \in Sweepers, Begin(s)
    PROVE  Inv'
  <1>1. sweeps[s] \in SweepState /\ sweeps[s].todo = {}
    BY DEF Begin, Inv, TypeOK, TodoIsExpendable
  <1>2. [sweeps[s] EXCEPT !.stage = "select"] \in SweepState
    BY <1>1 DEF SweepState
  <1>3. \A q \in Sweepers : sweeps'[q] = IF q = s THEN [sweeps[s] EXCEPT !.stage = "select"]
                                         ELSE sweeps[q]
    BY DEF Begin, Inv, TypeOK
  <1>4. TypeOK'
    BY <1>2 DEF Begin, Inv, TypeOK
  <1>5. /\ [sweeps[s] EXCEPT !.stage = "select"].todo = sweeps[s].todo
        /\ [sweeps[s] EXCEPT !.stage = "select"].at = sweeps[s].at
    BY <1>1 DEF SweepState
  <1>6. now' = now /\ ckpts' = ckpts  BY DEF Begin
  <1> HIDE DEF Begin
  <1>7. TodoIsExpendable'
    BY <1>1, <1>3, <1>5, <1>6 DEF Inv, TodoIsExpendable, Expendable
  <1> QED  BY <1>4, <1>7 DEF Inv

\* The query: all it returns is past the cutoff.
LEMMA QueryKeepsInv ==
    ASSUME Inv, NEW s \in Sweepers, find_stale_threads(s)
    PROVE  Inv'
  <1> DEFINE new == [stage |-> "delete", todo |-> {t \in Threads : Stale(t)}, at |-> now]
  <1>1. new \in SweepState
    BY DEF Inv, TypeOK, SweepState
  <1>2. \A q \in Sweepers : sweeps'[q] = IF q = s THEN new ELSE sweeps[q]
    BY DEF find_stale_threads, Inv, TypeOK
  <1>3. TypeOK'
    BY <1>1 DEF find_stale_threads, Inv, TypeOK
  <1>4. /\ new.stage = "delete" /\ new.at = now
        /\ \A t \in new.todo : \A ts \in ckpts[t] : ts < now - RetentionDays
    BY DEF Stale
  <1>5. now' = now /\ ckpts' = ckpts  BY DEF find_stale_threads
  <1>6. now \in Nat  BY RetentionAssumption DEF Inv, TypeOK, Times
  <1> HIDE DEF new
  <1>7. TodoIsExpendable'
    BY <1>2, <1>4, <1>5, <1>6 DEF Inv, TodoIsExpendable, Expendable
  <1> QED  BY <1>3, <1>7 DEF Inv

\* A delete empties a thread and strikes it off one list.
LEMMA DeleteKeepsInv ==
    ASSUME Inv, NEW s \in Sweepers, NEW t \in Threads, adelete_thread(s, t)
    PROVE  Inv'
  <1> DEFINE new == [sweeps[s] EXCEPT !.todo = @ \ {t}]
  <1>1. sweeps[s] \in SweepState  BY DEF Inv, TypeOK
  <1>2. /\ new \in SweepState /\ new.stage = sweeps[s].stage /\ new.at = sweeps[s].at
        /\ new.todo = sweeps[s].todo \ {t}
    BY <1>1 DEF SweepState
  <1>3. \A q \in Sweepers : sweeps'[q] = IF q = s THEN new ELSE sweeps[q]
    BY DEF adelete_thread, Inv, TypeOK
  <1>4. sweeps' = [sweeps EXCEPT ![s] = new]
    BY DEF adelete_thread
  <1>5. \A x \in Threads : ckpts'[x] = IF x = t THEN {} ELSE ckpts[x]
    BY DEF adelete_thread, Inv, TypeOK
  <1>6. now' = now /\ UNCHANGED <<hours, faults>>  BY DEF adelete_thread
  <1>7. ckpts' \in [Threads -> SUBSET Times]
    BY DEF adelete_thread, Inv, TypeOK
  <1>8. \A q \in Sweepers : sweeps[q].todo \subseteq Threads
    BY DEF Inv, TypeOK, SweepState
  <1> HIDE DEF new
  <1>9. TypeOK'
    BY <1>2, <1>4, <1>6, <1>7 DEF Inv, TypeOK
  <1>10. TodoIsExpendable'
    BY <1>2, <1>3, <1>5, <1>6, <1>8 DEF Inv, TodoIsExpendable, Expendable
  <1> QED  BY <1>9, <1>10 DEF Inv

\* A process starts with no sweep under way.
LEMMA RestartKeepsInv ==
    ASSUME Inv, Restart
    PROVE  Inv'
  <1>1. \A s \in Sweepers : sweeps'[s] \in SweepState /\ sweeps'[s].todo = {} /\ sweeps'[s].at = 0
    BY NoSweepIsSound DEF Restart, Started, _gc_loop
  <1>2. sweeps' = [s \in Sweepers |-> sweeps'[s]]
    BY DEF Restart, Started
  <1>3. sweeps' \in [Sweepers -> SweepState]
    BY <1>1, <1>2
  <1>4. faults' \in 0..MaxFaults
    BY RetentionAssumption DEF Restart, Inv, TypeOK
  <1>5. TypeOK'
    BY <1>3, <1>4 DEF Restart, Inv, TypeOK
  <1>6. now' \in Nat
    BY RetentionAssumption DEF Restart, Inv, TypeOK, Times
  <1>7. TodoIsExpendable'
    BY <1>1, <1>6 DEF TodoIsExpendable
  <1> QED  BY <1>5, <1>7 DEF Inv

\* Every step preserves the invariant.
LEMMA InvStep ==
    ASSUME Inv, [Next]_vars
    PROVE  Inv'
  <1>1. CASE UNCHANGED vars
    BY <1>1 DEF vars, Inv, TypeOK, TodoIsExpendable, Expendable
  <1>2. ASSUME NEW s \in Sweepers, Return(s)  PROVE Inv'
    <2>1. Rest(s) = NoSweep(IF s = "loop" THEN "asleep" ELSE "idle")  BY DEF Rest
    <2> QED  BY <1>2, <2>1, RestKeepsInv DEF Return, Inv, TypeOK
  <1>3. ASSUME NEW s \in Sweepers, Fail(s)  PROVE Inv'
    <2>1. AfterFailure(s) = NoSweep(IF s = "loop" THEN "asleep" ELSE "idle")
      BY DEF AfterFailure, Rest
    <2>2. faults' \in 0..MaxFaults
      BY <1>3, RetentionAssumption DEF Fail, Inv, TypeOK
    <2> QED  BY <1>3, <2>1, <2>2, RestKeepsInv DEF Fail
  <1>4. CASE Next
    BY <1>2, <1>3, <1>4, OutsideKeepsInv, BeginKeepsInv, QueryKeepsInv, DeleteKeepsInv,
       RestartKeepsInv DEF Next, Progress
  <1> QED  BY <1>1, <1>4

\* Clock, checkpoints and sweeps stay well typed.
THEOREM RetentionTypeCorrect == Spec => []TypeOK
  <1>1. Inv => TypeOK  BY DEF Inv
  <1> QED  BY InvInit, InvStep, <1>1, PTL DEF Spec

\* However sweeps, writes, failures and restarts interleave, a checkpoint that
\* was recent when a sweep selected its threads is not deleted by that sweep.
THEOREM FreshSurvive == Spec => FreshCheckpointsSurvive
  <1> DEFINE Safe == \A t \in Threads : \A ts \in ckpts[t] \ ckpts'[t] :
                        \E s \in Sweepers : t \in sweeps[s].todo /\ Expendable(s, ts)
  <1>1. ASSUME Inv, [Next]_vars  PROVE Safe
    <2>1. CASE ckpts' = ckpts  BY <2>1
    <2>2. ASSUME NEW t \in Threads, Write(t)  PROVE Safe
      BY <1>1, <2>2 DEF Write, Inv, TypeOK
    <2>3. ASSUME NEW s \in Sweepers, NEW t \in Threads, adelete_thread(s, t)  PROVE Safe
      <3>1. \A x \in Threads : x # t => ckpts'[x] = ckpts[x]
        BY <1>1, <2>3 DEF adelete_thread, Inv, TypeOK
      <3>2. t \in sweeps[s].todo  BY <2>3 DEF adelete_thread
      <3> QED  BY <1>1, <3>1, <3>2 DEF Inv, TodoIsExpendable
    <2> QED
      BY <1>1, <2>1, <2>2, <2>3 DEF Next, vars, Progress, Tick, Restart, Begin,
         find_stale_threads, Return, Fail
  <1>2. Inv /\ [Next]_vars => [Safe]_vars  BY <1>1
  <1> QED  BY InvInit, InvStep, <1>2, PTL DEF Spec, FreshCheckpointsSurvive
================================================================================
