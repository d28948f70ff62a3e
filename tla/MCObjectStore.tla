--------------------------- MODULE MCObjectStore ---------------------------
(* Model-checking instance of ObjectStore: one key an agent has for itself *)
(* and one that two agents use, two bodies with text and one without.      *)
EXTENDS ObjectStore, TLC

CONSTANTS k1, k2, b1, b2, junk, a1, a2, i1, i2

Symmetric == Permutations(Agents) \cup Permutations(Ids) \cup Permutations({b1, b2})
=============================================================================
