------------------------------ MODULE MCRunRecords ------------------------------
(* RunRecords for TLC: as many runs as the pool has connections. *)
EXTENDS RunRecords

CONSTANTS r1, r2
TwoRequests == {r1, r2}
================================================================================
