----------------------------- MODULE MCApplication -----------------------------
(* Application for TLC: a restart, a new version of the tools, a short loop. *)
EXTENDS Application

CONSTANTS r1, r2
TwoRequests == {r1, r2}
================================================================================
