-------------------------- MODULE MCStructuralGraph --------------------------
(* A model-checking instance of StructuralGraph: a source with two chunk ids, *)
(* so that a chunk can be replaced, and a concept page that cites them.       *)
EXTENDS StructuralGraph, TLC

CONSTANTS s1, k1, k2, c1, d1, r1

MCSourceOf == [k \in Chunks |-> s1]

Symmetric == Permutations(Chunks)
=============================================================================
