----------------------------- MODULE MCMemoryStore -----------------------------
(* MemoryStore, and with it Ownership, for TLC. *)
EXTENDS MemoryStore

CONSTANTS r1, r2
TwoRequests == {r1, r2}
================================================================================
