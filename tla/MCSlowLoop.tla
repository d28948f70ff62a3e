---------------------------- MODULE MCSlowLoop ----------------------------
(* Model-checking instance of SlowLoop: one runner, two pages and a third  *)
(* that is created, a sweep every third run.                               *)
EXTENDS SlowLoop

CONSTANTS p1, p2, p3, r1
=============================================================================
