---------------------------- MODULE MCIndexSync ----------------------------
(* Model-checking instances of IndexSync: one source with up to two chunk  *)
(* ids (so that a re-ingest can replace a chunk by another).               *)
EXTENDS IndexSync, TLC

CONSTANTS s1, c1, c2, d1, d2

MCSourceOf == [c \in Chunks |-> s1]

Symmetric == Permutations(Chunks) \cup Permutations(Drainers)
=============================================================================
