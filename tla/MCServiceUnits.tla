--------------------------- MODULE MCServiceUnits ---------------------------
(***************************************************************************)
(* Instance of ServiceUnits for TLC.                                       *)
(***************************************************************************)
EXTENDS ServiceUnits, TLC

Symmetric == Permutations(Operators) \cup Permutations(Settings)
=============================================================================
