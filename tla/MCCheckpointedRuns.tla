-------------------------- MODULE MCCheckpointedRuns --------------------------
(* Small instances of CheckpointedRuns for TLC.                            *)
EXTENDS CheckpointedRuns, TLC

CONSTANTS r1, r2, r3        \* requests

\* One text per route, a long general one, and "Analyze ServiceNow": a text
\* of two keyword families.
OneTextPerRoute == {{}, {"technical"}, {"billing"}, {"investment"}}
GeneralText     == {{}}
TickerTexts     == {{}, {"technical"}}

TwoRuns   == {r1, r2}
ThreeRuns == {r1, r2, r3}

\* Requests differ in nothing but their name.
RunSymmetry == Permutations(Runs)
=============================================================================
