------------------------------- MODULE Backup -------------------------------
(***************************************************************************)
(* Backup and restore of the database and the vault.                       *)
(*                                                                         *)
(* run_backup (backup/backup.py) makes a directory, dumps the database at  *)
(* one moment, then reads the files of the vault one after the other while *)
(* pages go on being written, and removes the directory when a step fails. *)
(* run_restore (backup/restore.py) looks for the two files, refuses a      *)
(* vault that has pages unless forced, restores the database, empties the  *)
(* vault and extracts the archive.  One archive is followed; the off-host  *)
(* copy changes neither it nor the corpus.                                 *)
(***************************************************************************)
EXTENDS Vault

VARIABLES
  archive,  \* the timestamped directory
  torn,     \* the corpus is half restored, or was restored from a torn backup
  quiet     \* chosen at the start: backups are kept apart from everything else

vars == <<vaultVars, archive, torn>>

NotYet == MaxRevs + 2  \* a file tar has not come to
NoArchive == [state |-> "none", row |-> [s \in Slugs |-> NoRow], event |-> {},
              tar |-> [s \in Slugs |-> NotYet], torn |-> FALSE]

Init == VaultInit /\ archive = NoArchive /\ torn = FALSE /\ quiet \in BOOLEAN

-----------------------------------------------------------------------------
(* backup                                                                  *)

(* Mutant of StepAfter: the vault before the database. *)
StepAfterSwapped(step) ==
  CASE step = "none" -> "tar" [] step = "tar" -> "dump" [] step = "dump" -> "end"
(* What a backup does next; archive.state is the step it has come to. *)
StepAfter(step) ==
  CASE step = "none" -> "dump" [] step = "dump" -> "tar" [] step = "tar" -> "end"

Advance(p) ==
  LET next == StepAfter(archive.state)
  IN IF next = "end" THEN Return(p) ELSE Goto(p, next) /\ UNCHANGED job

(* A directory that exists is an error. *)
BackupBegin(p) ==
  /\ May(p, "backup") /\ archive = NoArchive
  /\ archive' = [archive EXCEPT !.state = StepAfter("none")]
  /\ Begin(p, StepAfter("none"), [NoJob EXCEPT !.cmd = "backup"])
  /\ UNCHANGED <<vault, torn>>

Dump(p) ==
  /\ pc[p] = "dump"
  /\ archive' = [archive EXCEPT !.row = row, !.event = event, !.torn = torn,
                                !.state = StepAfter(@)]
  /\ Advance(p)
  /\ UNCHANGED <<vault, torn>>

TarFile(p, s) ==
  /\ pc[p] = "tar" /\ archive.tar[s] = NotYet
  /\ archive' = [archive EXCEPT !.tar[s] = file[s]]
  /\ UNCHANGED <<vaultVars, torn>>

TarEnd(p) ==
  /\ pc[p] = "tar" /\ \A s \in Slugs : archive.tar[s] # NotYet
  /\ archive' = [archive EXCEPT !.state = StepAfter(@)]
  /\ Advance(p)
  /\ UNCHANGED <<vault, torn>>

(* A step that fails, or finds no vault, removes the directory; a process that
   dies leaves it. *)
BackupFail(p) ==
  /\ "stop" \in Faults /\ pc[p] \in {"dump", "tar"}
  /\ archive' = NoArchive
  /\ Return(p)
  /\ UNCHANGED <<vault, torn>>

BackupDie(p) ==
  /\ "stop" \in Faults /\ pc[p] \in {"dump", "tar"}
  /\ Return(p)
  /\ UNCHANGED <<vault, archive, torn>>

-----------------------------------------------------------------------------
(* restore                                                                 *)

(* Both files are there from the moment tar has begun. *)
Located == archive.state \in {"tar", "end"}

Restore(p, force) ==
  /\ May(p, "restore") /\ Located
  /\ force \/ \A s \in Slugs : file[s] = NoFile
  /\ Begin(p, "pg_restore", [NoJob EXCEPT !.cmd = "restore"])
  /\ UNCHANGED <<vault, archive, torn>>

(* pg_restore drops and restores statement by statement.  Any error it went on
   after is tolerated. *)
RestoreRows(p) ==
  /\ pc[p] = "pg_restore"
  /\ \E kept \in SUBSET Slugs :
       /\ kept # Slugs => "errors" \in Faults
       /\ row' = [s \in Slugs |-> IF s \in kept THEN archive.row[s] ELSE NoRow]
  /\ event' = archive.event /\ torn' = TRUE
  /\ Goto(p, "wipe")
  /\ UNCHANGED <<file, lock, revs, job, archive>>

(* Mutant of Wipe: the vault is left as it is. *)
WipeNothing(p) ==
  /\ pc[p] = "wipe"
  /\ Goto(p, "extract")
  /\ UNCHANGED <<vault, job, archive, torn>>
Wipe(p) ==
  /\ pc[p] = "wipe"
  /\ file' = [s \in Slugs |-> NoFile]
  /\ Goto(p, "extract")
  /\ UNCHANGED <<row, event, lock, revs, job, archive, torn>>

(* An archive that was cut off ends in an error, after what there is of it. *)
Extract(p) ==
  /\ pc[p] = "extract"
  /\ file' = [s \in Slugs |-> IF archive.tar[s] \in {NoFile, NotYet}
                              THEN file[s] ELSE archive.tar[s]]
  /\ torn' = (archive.state # "end" \/ archive.torn)
  /\ Return(p)
  /\ UNCHANGED <<row, event, lock, revs, archive>>

RestoreStop(p) ==
  /\ "stop" \in Faults /\ pc[p] \in {"pg_restore", "wipe", "extract"}
  /\ torn' = TRUE
  /\ \/ pc[p] = "pg_restore" /\ row' = [s \in Slugs |-> NoRow] /\ event' = {}
     \/ UNCHANGED <<row, event>>
  /\ Return(p)
  /\ UNCHANGED <<file, lock, revs, archive>>

Step ==
  \/ VaultNext /\ UNCHANGED <<archive, torn>>
  \/ \E p \in Procs :
       \/ BackupBegin(p)
       \/ Dump(p)
       \/ \E s \in Slugs : TarFile(p, s)
       \/ TarEnd(p)
       \/ BackupFail(p)
       \/ BackupDie(p)
       \/ \E force \in BOOLEAN : Restore(p, force)
       \/ RestoreRows(p)
       \/ Wipe(p)
       \/ Extract(p)
       \/ RestoreStop(p)

(* A quiet operator runs nothing beside a backup; the code does not see to it. *)
Calm == \A p, q \in Procs : p # q /\ ~Idle(p) /\ ~Idle(q) => job[p].cmd # "backup"
Next == Step /\ UNCHANGED quiet /\ (quiet => Calm')

Spec == Init /\ [][Next]_<<vars, quiet>>

-----------------------------------------------------------------------------
(* Properties.                                                             *)

Rows == [id : 0..MaxRevs, rev : 0..MaxRevs,
         status : {None, "draft", "canonical", "deprecated"}]
Events == [id : 1..MaxRevs, from : 1..MaxRevs, to : 1..MaxRevs,
           status : {"canonical", "deprecated"}]
Files == 0..(MaxRevs + 1)

(* Rows, files and archives hold revisions that were begun; a page's lock is
   held by the process that is writing it. *)
TypeOK ==
  /\ row \in [Slugs -> Rows] /\ event \subseteq Events
  /\ file \in [Slugs -> Files] /\ revs \in 0..MaxRevs
  /\ lock \in [Slugs -> Procs \cup {None}]
  /\ \A s \in Slugs : lock[s] # None =>
       pc[lock[s]] \in {"open", "fill", "commit"} /\ job[lock[s]].slug = s
  /\ archive.row \in [Slugs -> Rows] /\ archive.event \subseteq Events
  /\ archive.tar \in [Slugs -> Files \cup {NotYet}]
  /\ archive.state \in {"none", "dump", "tar", "end"}
  /\ torn \in BOOLEAN /\ archive.torn \in BOOLEAN

Covers(files, rows) ==
  \A s \in Slugs : rows[s] # NoRow =>
    files[s] # NoFile /\ (files[s] = Empty \/ files[s] >= rows[s].rev)

(* The vault is never behind the database: write_page writes the file before
   it commits the row, so every committed page has a file, which holds its
   revision, that of a later write that did not commit, or nothing if a write
   was cut off between truncating and filling it. *)
FileCovers == ~torn => Covers(file, row)

(* A page gets its status from a write of its kind (a source page is written
   as canonical, a synthesized one as draft) or from a promotion, which is
   recorded from the revision it left to the one it made. *)
StatusMoves ==
  [][\A s \in Slugs :
       LET old == row[s] new == row'[s]
       IN /\ old # NoRow /\ new # NoRow /\ new.status # WrittenAs(s)
          /\ \A p \in Procs : pc[p] # "pg_restore"
          /\ new.status # old.status
          => /\ <<old.status, new.status>> \in Transitions
             /\ [id |-> old.id, from |-> old.rev, to |-> new.rev,
                 status |-> new.status] \in event']_vars

(* A backup holds, for every page of its dump, a file that is not older: the
   dump comes first, and the vault is not behind the database. *)
ArchiveCovers ==
  archive.state = "end" /\ ~archive.torn => Covers(archive.tar, archive.row)

(* A restore that reports success leaves the rows of the dump and the files of
   the archive, and no other. *)
RestoreReturns ==
  [][\A p \in Procs :
       pc[p] = "extract" /\ pc'[p] = "idle" /\ ~torn'
       => /\ row' = archive.row /\ event' = archive.event
          /\ file' = archive.tar]_vars

(* Of a quiet operator a backup is one moment of the corpus, and a restore
   (restore.py:82-131) goes back to that moment as a whole, although it puts
   back rows, events and files one after the other: quiet => Atomic!Spec, step
   by step.  Once its rows are in, what a restore is about to extract belongs to
   the corpus. *)
Half == [torn |-> TRUE, row |-> <<>>, event |-> {}, file |-> <<>>]
Corpus(rows, events, files, halfway) ==
  IF halfway THEN Half
  ELSE [torn |-> FALSE, row |-> rows, event |-> events, file |-> files]
Archived == Corpus(archive.row, archive.event, archive.tar,
                   archive.torn \/ archive.state # "end")
Saved == IF archive.state = "end" THEN {Archived} ELSE {}
Present == IF \E p \in Procs : pc[p] \in {"wipe", "extract"} THEN Archived
           ELSE Corpus(row, event, file, torn)
RestoreRuns == \E p \in Procs : pc[p] \in {"pg_restore", "wipe", "extract"}

Atomic == INSTANCE AtomicBackup
            WITH Torn <- Half, corpus <- Present, saved <- Saved, restoring <- RestoreRuns
GoesBack ==
  /\ quiet => Atomic!Init
  /\ [][quiet => Atomic!Next \/ UNCHANGED <<Present, Saved, RestoreRuns>>]_<<vars, quiet>>
=============================================================================
