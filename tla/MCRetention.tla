------------------------------ MODULE MCRetention ------------------------------
(* Retention for TLC: the task disabled by 0 and by a negative number, or on. *)
EXTENDS Retention

CONSTANTS t1, t2
TwoThreads == {t1, t2}
SomeIntervals == {-1, 0, 6}
================================================================================
