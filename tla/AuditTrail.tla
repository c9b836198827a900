------------------------------- MODULE AuditTrail -------------------------------
(***************************************************************************)
(* What the audited tools promise (finance lookups, file access, sandboxed *)
(* code): a row is written only for something that was done, and a caller  *)
(* is told of a success only once its row is committed.  Nothing is said   *)
(* of calls that fail or are cancelled: they may have been done without a  *)
(* row.  FinanceLookup, FileTools and RunRecords implement this.           *)
(***************************************************************************)
CONSTANT Calls

VARIABLES
    done,       \* the calls whose effect has happened
    recorded,   \* the calls with a committed audit row
    told        \* the calls whose success was reported to the model
tvars == <<done, recorded, told>>

Init == done = {} /\ recorded = {} /\ told = {}

Do(c) == /\ done' = done \union {c}
         /\ UNCHANGED <<recorded, told>>

\* The row is committed; the same step may return to the caller.
Record(c) == /\ c \in done
             /\ recorded' = recorded \union {c}
             /\ told' \in {told, told \union {c}}
             /\ UNCHANGED done

Next == \E c \in Calls : Do(c) \/ Record(c)

Spec == Init /\ [][Next]_tvars
================================================================================
