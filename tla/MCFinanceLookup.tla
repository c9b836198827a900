---------------------------- MODULE MCFinanceLookup ----------------------------
(* FinanceLookup with a few concurrent lookups and a short token life. *)
EXTENDS FinanceLookup, TLC

CONSTANTS c1, c2, c3
TwoCallers == {c1, c2}
ThreeCallers == {c1, c2, c3}
CallerSymmetry == Permutations({c1, c2, c3})
================================================================================
