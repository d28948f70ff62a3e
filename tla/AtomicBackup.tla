---------------------------- MODULE AtomicBackup ----------------------------
(***************************************************************************)
(* What backup and restore promise when nothing overlaps a backup: it      *)
(* saves the corpus of one moment, and a restore, during which nothing     *)
(* changes the corpus, ends with exactly that corpus or with one that is   *)
(* known to be torn.  A torn corpus stays torn until a restore.            *)
(***************************************************************************)
CONSTANT Torn

VARIABLES
  corpus,    \* database and vault, or Torn
  saved,     \* the corpus of the backup that was finished; {} when there is none
  restoring

Init == corpus # Torn /\ saved = {} /\ restoring = FALSE

Change ==
  /\ ~restoring /\ corpus # Torn /\ corpus' # Torn
  /\ UNCHANGED <<saved, restoring>>

Save ==
  /\ ~restoring /\ saved = {}
  /\ saved' = {corpus}
  /\ UNCHANGED <<corpus, restoring>>

Begin == ~restoring /\ restoring' = TRUE /\ UNCHANGED <<corpus, saved>>

Return ==
  /\ restoring /\ corpus' \in saved
  /\ UNCHANGED <<saved, restoring>>

(* A restore that is cut off, or is given a backup that was, tears the corpus. *)
Tear ==
  /\ restoring /\ corpus' = Torn
  /\ restoring' \in BOOLEAN
  /\ UNCHANGED saved

Finish ==
  /\ restoring /\ corpus \in saved \cup {Torn}
  /\ restoring' = FALSE
  /\ UNCHANGED <<corpus, saved>>

Next == Change \/ Save \/ Begin \/ Return \/ Tear \/ Finish

Spec == Init /\ [][Next]_<<corpus, saved, restoring>>
=============================================================================
