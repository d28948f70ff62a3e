------------------------------ MODULE MCBackup ------------------------------
(***************************************************************************)
(* Instance of Backup for TLC.                                             *)
(***************************************************************************)
EXTENDS Backup, TLC

Symmetric == Permutations(Procs)
=============================================================================
