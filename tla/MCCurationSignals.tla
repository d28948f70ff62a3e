------------------------- MODULE MCCurationSignals -------------------------
(* Model-checking instances of CurationSignals: two concepts, a signal on  *)
(* the first one and a candidate on the pair.                              *)
EXTENDS CurationSignals, TLC

CONSTANTS n1, n2, p1, p2

MCKeys == {[kind |-> "coverage", on |-> {n1}],
           [kind |-> "contradiction", on |-> {n1, n2}]}

Symmetric == Permutations(Procs)
=============================================================================
