---------------------------- MODULE BackupProofs ----------------------------
(***************************************************************************)
(* Theorems about Backup, for any pages, any number of processes, any      *)
(* number of revisions and any faults: rows, files and the archive are     *)
(* typed whatever overlaps; when deletions and restores do not overlap the *)
(* commands named in Orderly, the vault is never behind the database, a    *)
(* backup has a file for each page of its dump, and a restore puts back    *)
(* what was backed up; and when promotions do not overlap what             *)
(* PromotesAlone names, each moves the status that it read.                *)
(***************************************************************************)
EXTENDS Backup, FiniteSetTheorems, TLAPS

-----------------------------------------------------------------------------
(* What the type invariant does not say of the processes.                  *)

Statuses == {None, "draft", "canonical", "deprecated"}
Jobs == [cmd : Commands \cup {None}, slug : Slugs \cup {None}, id : 0..MaxRevs,
         from : 0..MaxRevs, rev : 0..MaxRevs, status : Statuses]
Steps == {"idle", "parse", "row", "open", "fill", "commit", "unlink", "dump", "tar",
          "pg_restore", "wipe", "extract"}

Holding == {"open", "fill", "commit"}      \* the row's lock is held
Revising == {"parse", "row"} \cup Holding  \* a revision is to be written

(* The command that a step belongs to, and what its job says. *)
JobOK(step, j) ==
  /\ step = "idle" => j.cmd = None
  /\ step = "parse" => j.cmd = "promote"
  /\ step \in {"row"} \cup Holding => j.cmd \in {"write", "promote"}
  /\ step \in Revising =>
       /\ j.slug \in Slugs
       /\ j.cmd = "write" => j.status = WrittenAs(j.slug)
       /\ j.cmd = "promote" => j.id > 0 /\ j.from > 0 /\ j.status \in {"canonical", "deprecated"}
  /\ step \in Holding => j.rev > 0
  /\ step = "unlink" => j.cmd = "delete" /\ j.slug \in Slugs
  /\ step \in {"dump", "tar"} => j.cmd = "backup"
  /\ step \in {"pg_restore", "wipe", "extract"} => j.cmd = "restore"

ProcsOK ==
  /\ pc \in [Procs -> Steps] /\ job \in [Procs -> Jobs]
  /\ \A p \in Procs : JobOK(pc[p], job[p])

(* A row that is there has an id, a revision and a status. *)
Whole(r) == r = NoRow \/ (r.id > 0 /\ r.rev > 0 /\ r.status # None)
RowsWhole == \A s \in Slugs : Whole(row[s]) /\ Whole(archive.row[s])

(* Who is writing a page has its lock. *)
Locked == \A p \in Procs : pc[p] \in Holding => lock[job[p].slug] = p

(* There are revisions left for the commands that will begin one. *)
Pending == {p \in Procs : pc[p] \in {"parse", "row"}}
Bounded == revs + Cardinality(Pending) <= MaxRevs

(* One backup runs, and the directory says how far it is. *)
OneBackup ==
  /\ \A p \in Procs : pc[p] \in {"dump", "tar"} => archive.state = pc[p]
  /\ \A p, q \in Procs : pc[p] \in {"dump", "tar"} /\ pc[q] \in {"dump", "tar"} => p = q

(* The archive is a record, and its rows and files are typed. *)
ArchiveOK ==
  archive \in [state : {"none", "dump", "tar", "end"}, row : [Slugs -> Rows],
               event : SUBSET Events, tar : [Slugs -> Files \cup {NotYet}], torn : BOOLEAN]

TypeInv == TypeOK /\ ArchiveOK /\ ProcsOK /\ RowsWhole /\ Locked /\ Bounded /\ OneBackup

-----------------------------------------------------------------------------
(* The commands that must not overlap for files to cover rows. *)
Orderly ==
  {{"delete", "write"}, {"delete", "backup"}, {"restore"}, {"restore", "write"},
   {"restore", "promote"}, {"restore", "delete"}, {"restore", "backup"}} \subseteq Apart

KeptApart ==
  \A p, q \in Procs : p # q /\ ~Idle(p) /\ ~Idle(q) => {job[p].cmd, job[q].cmd} \notin Apart

(* Revisions are numbered in the order in which the locks are taken. *)
Ordered ==
  /\ \A s \in Slugs : row[s].rev <= revs /\ archive.row[s].rev <= revs
  /\ \A p \in Procs : pc[p] \in Holding =>
       row[job[p].slug].rev <= job[p].rev /\ job[p].rev <= revs

(* What is in the file of a page that is about to be committed. *)
Filled == \A p \in Procs : pc[p] = "commit" => file[job[p].slug] = job[p].rev

(* A page whose file a deletion will unlink is not written meanwhile. *)
Unlinking ==
  \A p \in Procs : pc[p] = "unlink" => row[job[p].slug] = NoRow /\ lock[job[p].slug] = None

(* How far a restore has come. *)
Restoring ==
  /\ \A p \in Procs : pc[p] \in {"wipe", "extract"} =>
       torn /\ \A s \in Slugs : row[s] \in {archive.row[s], NoRow}
  /\ \A p \in Procs : pc[p] = "extract" => \A s \in Slugs : file[s] = NoFile

CoversPage(f, r) == r # NoRow => f # NoFile /\ (f = Empty \/ f >= r.rev)

(* Since the dump no page has gone back; what tar has read covers the dump, and
   so will what it reads next. *)
Dumped ==
  /\ archive.state = "end" => \A s \in Slugs : archive.tar[s] # NotYet
  /\ archive.state \in {"none", "dump"} => \A s \in Slugs : archive.tar[s] = NotYet
  /\ \A p \in Procs : pc[p] = "tar" /\ ~archive.torn =>
       /\ ~torn
       /\ \A s \in Slugs :
            /\ archive.row[s] # NoRow => row[s] # NoRow /\ archive.row[s].rev <= row[s].rev
            /\ archive.tar[s] # NotYet => CoversPage(archive.tar[s], archive.row[s])

CoverInv ==
  /\ TypeInv /\ KeptApart /\ Ordered /\ Filled /\ Unlinking /\ Restoring /\ Dumped
  /\ FileCovers /\ ArchiveCovers

(* A restore that met no error has put back the dump. *)
Returning ==
  "errors" \notin Faults =>
    \A p \in Procs : pc[p] \in {"wipe", "extract"} =>
      row = archive.row /\ event = archive.event

(* The commands that must not overlap for a promotion to move what it read. *)
PromotesAlone == {{"promote"}, {"promote", "write"}, {"promote", "restore"}} \subseteq Apart

(* What a promotion has read is still so, or the page has gone. *)
Unmoved ==
  \A p \in Procs : pc[p] \in Revising /\ job[p].cmd = "promote" =>
    LET r == row[job[p].slug] IN
    r = NoRow \/ (/\ r.id = job[p].id /\ r.rev = job[p].from
                 /\ <<r.status, job[p].status>> \in Transitions)

MoveInv == TypeInv /\ KeptApart /\ Unmoved

-----------------------------------------------------------------------------
(* Types.                                                                  *)

LEMMA NoJobIsJob == NoJob \in Jobs /\ JobOK("idle", NoJob)
  BY VaultAssumption DEF Jobs, NoJob, JobOK, Statuses, Revising, Holding

(* The other processes are where they were. *)
Only(p) == \A q \in Procs \ {p} : pc'[q] = pc[q] /\ job'[q] = job[q]

LEMMA Began ==
  ASSUME ProcsOK, NEW p \in Procs, NEW step \in Steps, NEW j \in Jobs, JobOK(step, j),
         Begin(p, step, j)
  PROVE  ProcsOK' /\ pc'[p] = step /\ job'[p] = j /\ Only(p)
  BY DEF ProcsOK, Begin, Goto, Only

LEMMA Went ==
  ASSUME ProcsOK, NEW p \in Procs, NEW step \in Steps, JobOK(step, job[p]),
         Goto(p, step), UNCHANGED job
  PROVE  ProcsOK' /\ pc'[p] = step /\ job'[p] = job[p] /\ Only(p)
  BY DEF ProcsOK, Goto, Only

LEMMA Returned ==
  ASSUME ProcsOK, NEW p \in Procs, Return(p)
  PROVE  ProcsOK' /\ pc'[p] = "idle" /\ job'[p] = NoJob /\ Only(p)
<1>1. "idle" \in Steps
  BY DEF Steps
<1> QED BY <1>1, NoJobIsJob, Began DEF Return, Begin

(* What the jobs of the commands say. *)
LEMMA WriteJob ==
  ASSUME TypeInv, NEW p \in Procs, NEW s \in Slugs, Look(p, s)
  PROVE  ProcsOK' /\ pc'[p] = "row" /\ job'[p].cmd = "write" /\ job'[p].slug = s /\ Only(p)
<1> DEFINE j == [NoJob EXCEPT !.cmd = "write", !.slug = s, !.id = row[s].id,
                              !.status = WrittenAs(s)]
<1>1. row[s].id \in 0..MaxRevs
  BY DEF TypeInv, TypeOK, Rows
<1>2. j \in Jobs
  BY <1>1, NoJobIsJob DEF Jobs, Commands, WrittenAs, Statuses
<1>3. j.cmd = "write" /\ j.slug = s /\ j.status = WrittenAs(s)
  BY DEF NoJob
<1>4. Begin(p, "row", j)
  BY DEF Look
<1> HIDE DEF j
<1>5. JobOK("row", j) /\ "row" \in Steps
  BY <1>3 DEF JobOK, Steps, Revising, Holding
<1> QED BY <1>2, <1>3, <1>4, <1>5, Began DEF TypeInv

LEMMA PromoteJob ==
  ASSUME TypeInv, NEW p \in Procs, NEW s \in Slugs, NEW to \in {"canonical", "deprecated"},
         Promote(p, s, to)
  PROVE  /\ ProcsOK' /\ pc'[p] = "parse" /\ Only(p)
         /\ job'[p].cmd = "promote" /\ job'[p].slug = s /\ job'[p].id = row[s].id
         /\ job'[p].from = row[s].rev /\ job'[p].status = to
<1> DEFINE j == [NoJob EXCEPT !.cmd = "promote", !.slug = s, !.id = row[s].id,
                              !.from = row[s].rev, !.status = to]
<1>1. row[s].id \in 0..MaxRevs /\ row[s].rev \in 0..MaxRevs /\ row[s].id > 0 /\ row[s].rev > 0
  BY DEF TypeInv, TypeOK, Rows, RowsWhole, Whole, Promote, Exists
<1>2. j \in Jobs
  BY <1>1, NoJobIsJob DEF Jobs, Commands, Statuses
<1>3. j.cmd = "promote" /\ j.slug = s /\ j.id = row[s].id /\ j.from = row[s].rev /\ j.status = to
  BY DEF NoJob
<1>4. Begin(p, "parse", j)
  BY DEF Promote
<1> HIDE DEF j
<1>5. JobOK("parse", j) /\ "parse" \in Steps
  BY <1>1, <1>3 DEF JobOK, Steps, Revising, Holding
<1> QED BY <1>2, <1>3, <1>4, <1>5, Began DEF TypeInv

LEMMA DeleteJob ==
  ASSUME TypeInv, NEW p \in Procs, NEW s \in Slugs, DeleteRow(p, s)
  PROVE  ProcsOK' /\ pc'[p] = "unlink" /\ job'[p].cmd = "delete" /\ job'[p].slug = s /\ Only(p)
<1> DEFINE j == [NoJob EXCEPT !.cmd = "delete", !.slug = s]
<1>2. j \in Jobs
  BY NoJobIsJob DEF Jobs, Commands
<1>3. j.cmd = "delete" /\ j.slug = s
  BY DEF NoJob
<1>4. Begin(p, "unlink", j)
  BY DEF DeleteRow
<1> HIDE DEF j
<1>5. JobOK("unlink", j) /\ "unlink" \in Steps
  BY <1>3 DEF JobOK, Steps, Revising, Holding
<1> QED BY <1>2, <1>3, <1>4, <1>5, Began DEF TypeInv

LEMMA PlainJob ==
  ASSUME NEW cmd \in {"backup", "restore"}
  PROVE  [NoJob EXCEPT !.cmd = cmd] \in Jobs /\ [NoJob EXCEPT !.cmd = cmd].cmd = cmd
  BY NoJobIsJob DEF Jobs, Commands, NoJob

LEMMA BackupJob ==
  ASSUME TypeInv, NEW p \in Procs, BackupBegin(p)
  PROVE  ProcsOK' /\ pc'[p] = "dump" /\ job'[p].cmd = "backup" /\ Only(p)
<1> DEFINE j == [NoJob EXCEPT !.cmd = "backup"]
<1>1. j \in Jobs /\ j.cmd = "backup"
  BY PlainJob
<1>2. Begin(p, "dump", j)
  BY DEF BackupBegin, StepAfter
<1> HIDE DEF j
<1>3. JobOK("dump", j) /\ "dump" \in Steps
  BY <1>1 DEF JobOK, Steps, Revising, Holding
<1> QED BY <1>1, <1>2, <1>3, Began DEF TypeInv

LEMMA RestoreJob ==
  ASSUME TypeInv, NEW p \in Procs, NEW force \in BOOLEAN, Restore(p, force)
  PROVE  ProcsOK' /\ pc'[p] = "pg_restore" /\ job'[p].cmd = "restore" /\ Only(p)
<1> DEFINE j == [NoJob EXCEPT !.cmd = "restore"]
<1>1. j \in Jobs /\ j.cmd = "restore"
  BY PlainJob
<1>2. Begin(p, "pg_restore", j)
  BY DEF Restore
<1> HIDE DEF j
<1>3. JobOK("pg_restore", j) /\ "pg_restore" \in Steps
  BY <1>1 DEF JobOK, Steps, Revising, Holding
<1> QED BY <1>1, <1>2, <1>3, Began DEF TypeInv

(* The two ways in which the row step of a write ends. *)
Granted(p) ==
  /\ lock' = [lock EXCEPT ![job[p].slug] = p] /\ UNCHANGED file
  /\ row[job[p].slug].id = job[p].id
  /\ pc'[p] = "open" /\ job'[p] = [job[p] EXCEPT !.rev = revs'] /\ Only(p)
Refused(p) ==
  /\ UNCHANGED lock /\ row[job[p].slug].id # job[p].id
  /\ file' = IF job[p].id = 0 THEN file ELSE [file EXCEPT ![job[p].slug] = revs']
  /\ pc'[p] = "idle" /\ job'[p] = NoJob /\ Only(p)

LEMMA PendingLeft ==
  ASSUME TypeInv, NEW p \in Procs, pc[p] \in {"parse", "row"}
  PROVE  /\ revs + 1 \in 1..MaxRevs
         /\ revs + 1 + Cardinality(Pending \ {p}) <= MaxRevs
<1>1. IsFiniteSet(Pending) /\ p \in Pending
  BY VaultAssumption, FS_Subset DEF Pending
<1>2. /\ IsFiniteSet(Pending \ {p}) /\ Cardinality(Pending \ {p}) = Cardinality(Pending) - 1
  BY <1>1, FS_RemoveElement
<1>3. Cardinality(Pending) \in Nat /\ Cardinality(Pending \ {p}) \in Nat
  BY <1>1, <1>2, FS_CardinalityType
<1> QED BY <1>2, <1>3, VaultAssumption DEF TypeInv, TypeOK, Bounded

LEMMA WriteRowJob ==
  ASSUME TypeInv, NEW p \in Procs, WriteRow(p)
  PROVE  /\ ProcsOK' /\ revs' = revs + 1 /\ revs' \in 1..MaxRevs
         /\ pc[p] = "row" /\ lock[job[p].slug] = None
         /\ Granted(p) \/ Refused(p)
<1>1. revs' = revs + 1 /\ revs' \in 1..MaxRevs /\ pc[p] = "row" /\ lock[job[p].slug] = None
  BY PendingLeft DEF WriteRow
<1>2. job[p] \in Jobs /\ JobOK("row", job[p]) /\ ProcsOK
  BY <1>1 DEF TypeInv, ProcsOK
<1>3. CASE row[job[p].slug].id = job[p].id
  <2> DEFINE j == [job[p] EXCEPT !.rev = revs']
  <2>1. j \in Jobs
    BY <1>1, <1>2 DEF Jobs
  <2>2. /\ j.cmd = job[p].cmd /\ j.slug = job[p].slug /\ j.id = job[p].id
        /\ j.from = job[p].from /\ j.status = job[p].status /\ j.rev = revs'
    BY <1>2 DEF Jobs
  <2>3. Begin(p, "open", j) /\ lock' = [lock EXCEPT ![job[p].slug] = p] /\ UNCHANGED file
    BY <1>3 DEF WriteRow
  <2> HIDE DEF j
  <2>4. JobOK("open", j) /\ "open" \in Steps
    BY <1>1, <1>2, <2>2 DEF JobOK, Steps, Revising, Holding
  <2>5. ProcsOK' /\ pc'[p] = "open" /\ job'[p] = j /\ Only(p)
    BY <1>2, <2>1, <2>3, <2>4, Began
  <2> QED BY <1>1, <1>3, <2>3, <2>5 DEF j, Granted
<1>4. CASE row[job[p].slug].id # job[p].id
  BY <1>1, <1>2, <1>4, Returned DEF WriteRow, Refused
<1> QED BY <1>1, <1>3, <1>4

(* The other actions go on with the job they have, or drop it. *)
Moved(p, step) == ProcsOK' /\ pc'[p] = step /\ job'[p] = job[p] /\ Only(p)
Ended(p) == ProcsOK' /\ pc'[p] = "idle" /\ job'[p] = NoJob /\ Only(p)

LEMMA JobHere ==
  ASSUME TypeInv, NEW p \in Procs
  PROVE  ProcsOK /\ job[p] \in Jobs /\ pc[p] \in Steps /\ JobOK(pc[p], job[p])
  BY DEF TypeInv, ProcsOK

LEMMA Moves ==
  ASSUME TypeInv, NEW p \in Procs
  PROVE  /\ OpenFile(p) => pc[p] = "open" /\ Moved(p, "fill")
         /\ FillFile(p) => pc[p] = "fill" /\ Moved(p, "commit")
         /\ Commit(p) => pc[p] = "commit" /\ Ended(p)
         /\ Abort(p) => pc[p] \in Revising /\ Ended(p)
         /\ Parse(p) => pc[p] = "parse" /\ (Ended(p) \/ Moved(p, "row"))
         /\ Unlink(p) => pc[p] = "unlink" /\ Ended(p)
         /\ Dump(p) => pc[p] = "dump" /\ archive.state = "dump" /\ Moved(p, "tar")
         /\ TarEnd(p) => pc[p] = "tar" /\ archive.state = "tar" /\ Ended(p)
         /\ BackupFail(p) \/ BackupDie(p) => pc[p] \in {"dump", "tar"} /\ Ended(p)
         /\ RestoreRows(p) => pc[p] = "pg_restore" /\ Moved(p, "wipe")
         /\ Wipe(p) => pc[p] = "wipe" /\ Moved(p, "extract")
         /\ Extract(p) => pc[p] = "extract" /\ Ended(p)
         /\ RestoreStop(p) => pc[p] \in {"pg_restore", "wipe", "extract"} /\ Ended(p)
<1> USE JobHere
<1>a. {"fill", "commit", "row", "tar", "wipe", "extract"} \subseteq Steps
  BY DEF Steps
<1>1. OpenFile(p) => pc[p] = "open" /\ Moved(p, "fill")
  <2> HAVE OpenFile(p)
  <2>1. JobOK("fill", job[p])
    BY DEF OpenFile, JobOK, Revising, Holding
  <2> QED BY <1>a, <2>1, Went DEF OpenFile, Moved
<1>2. FillFile(p) => pc[p] = "fill" /\ Moved(p, "commit")
  <2> HAVE FillFile(p)
  <2>1. JobOK("commit", job[p])
    BY DEF FillFile, JobOK, Revising, Holding
  <2> QED BY <1>a, <2>1, Went DEF FillFile, Moved
<1>3. Commit(p) => pc[p] = "commit" /\ Ended(p)
  BY Returned DEF Commit, Ended
<1>4. Abort(p) => pc[p] \in Revising /\ Ended(p)
  BY Returned DEF Abort, Ended, Revising, Holding
<1>5. Parse(p) => pc[p] = "parse" /\ (Ended(p) \/ Moved(p, "row"))
  <2> HAVE Parse(p)
  <2>1. pc[p] = "parse" /\ (Return(p) \/ (Goto(p, "row") /\ UNCHANGED job))
    BY DEF Parse
  <2>2. JobOK("row", job[p])
    BY <2>1 DEF JobOK, Revising, Holding
  <2> QED BY <1>a, <2>1, <2>2, Went, Returned DEF Moved, Ended
<1>6. Unlink(p) => pc[p] = "unlink" /\ Ended(p)
  BY Returned DEF Unlink, Ended
<1>7. Dump(p) => pc[p] = "dump" /\ archive.state = "dump" /\ Moved(p, "tar")
  <2> HAVE Dump(p)
  <2>1. pc[p] = "dump" /\ archive.state = "dump"
    BY DEF Dump, TypeInv, OneBackup
  <2>2. Goto(p, "tar") /\ UNCHANGED job
    BY <2>1 DEF Dump, Advance, StepAfter
  <2>3. JobOK("tar", job[p])
    BY <2>1 DEF JobOK, Revising, Holding
  <2> QED BY <1>a, <2>1, <2>2, <2>3, Went DEF Moved
<1>8. TarEnd(p) => pc[p] = "tar" /\ archive.state = "tar" /\ Ended(p)
  <2> HAVE TarEnd(p)
  <2>1. pc[p] = "tar" /\ archive.state = "tar"
    BY DEF TarEnd, TypeInv, OneBackup
  <2>2. Return(p)
    BY <2>1 DEF TarEnd, Advance, StepAfter
  <2> QED BY <2>1, <2>2, Returned DEF Ended
<1>9. BackupFail(p) \/ BackupDie(p) => pc[p] \in {"dump", "tar"} /\ Ended(p)
  BY Returned DEF BackupFail, BackupDie, Ended
<1>10. RestoreRows(p) => pc[p] = "pg_restore" /\ Moved(p, "wipe")
  <2> HAVE RestoreRows(p)
  <2>1. pc[p] = "pg_restore" /\ Goto(p, "wipe") /\ UNCHANGED job
    BY DEF RestoreRows
  <2>2. JobOK("wipe", job[p])
    BY <2>1 DEF JobOK, Revising, Holding
  <2> QED BY <1>a, <2>1, <2>2, Went DEF Moved
<1>11. Wipe(p) => pc[p] = "wipe" /\ Moved(p, "extract")
  <2> HAVE Wipe(p)
  <2>1. pc[p] = "wipe" /\ Goto(p, "extract") /\ UNCHANGED job
    BY DEF Wipe
  <2>2. JobOK("extract", job[p])
    BY <2>1 DEF JobOK, Revising, Holding
  <2> QED BY <1>a, <2>1, <2>2, Went DEF Moved
<1>12. Extract(p) => pc[p] = "extract" /\ Ended(p)
  BY Returned DEF Extract, Ended
<1>13. RestoreStop(p) => pc[p] \in {"pg_restore", "wipe", "extract"} /\ Ended(p)
  BY Returned DEF RestoreStop, Ended
<1> QED BY <1>1, <1>2, <1>3, <1>4, <1>5, <1>6, <1>7, <1>8, <1>9, <1>10, <1>11, <1>12, <1>13

LEMMA TarMove ==
  ASSUME TypeInv, NEW p \in Procs, NEW s \in Slugs, TarFile(p, s)
  PROVE  pc[p] = "tar" /\ archive.state = "tar" /\ UNCHANGED <<pc, job>> /\ ProcsOK'
<1>1. UNCHANGED <<pc, job>> /\ pc[p] = "tar"
  BY DEF TarFile, vaultVars
<1> QED BY <1>1 DEF TypeInv, OneBackup, ProcsOK

-----------------------------------------------------------------------------
(* What is stored.                                                         *)

DataOK ==
  /\ row \in [Slugs -> Rows] /\ event \subseteq Events
  /\ file \in [Slugs -> Files] /\ revs \in 0..MaxRevs
  /\ torn \in BOOLEAN

LocksOK ==
  /\ lock \in [Slugs -> Procs \cup {None}]
  /\ \A s \in Slugs : lock[s] # None => pc[lock[s]] \in Holding /\ job[lock[s]].slug = s

LEMMA TypeParts == ArchiveOK => (TypeOK <=> DataOK /\ LocksOK)
  BY DEF TypeOK, DataOK, LocksOK, ArchiveOK, Holding

LEMMA FileKinds ==
  /\ NoFile \in Files /\ Empty \in Files /\ Empty # NoFile /\ NotYet \notin Files
  /\ \A r \in 1..MaxRevs : r \in Files /\ r # NoFile
  BY VaultAssumption DEF Files, NoFile, Empty, NotYet

LEMMA NoRowIsRow == NoRow \in Rows /\ Whole(NoRow) /\ NoRow.rev = 0 /\ NoRow.id = 0
  BY VaultAssumption DEF NoRow, Rows, Whole

LEMMA NoArchiveIsArchive ==
  /\ NoArchive \in [state : {"none", "dump", "tar", "end"}, row : [Slugs -> Rows],
                    event : SUBSET Events, tar : [Slugs -> Files \cup {NotYet}], torn : BOOLEAN]
  /\ NoArchive.state = "none" /\ NoArchive.row = [s \in Slugs |-> NoRow]
  /\ NoArchive.tar = [s \in Slugs |-> NotYet] /\ NoArchive.torn = FALSE
  /\ NoArchive.event = {}
  BY NoRowIsRow DEF NoArchive

(* The row and the event of a commit. *)
LEMMA CommitRow ==
  ASSUME TypeInv, NEW p \in Procs, Commit(p)
  PROVE  LET j == job[p]
             r == [id |-> IF j.id = 0 THEN j.rev ELSE j.id, rev |-> j.rev, status |-> j.status]
         IN /\ j.slug \in Slugs /\ j.rev \in 1..MaxRevs
            /\ r \in Rows /\ Whole(r) /\ r # NoRow /\ r.rev = j.rev
            /\ row' = [row EXCEPT ![j.slug] = r]
            /\ j.cmd = "promote" => PromotionOf(p) \in Events
<1> DEFINE j == job[p]
           r == [id |-> IF j.id = 0 THEN j.rev ELSE j.id, rev |-> j.rev, status |-> j.status]
<1>1. j \in Jobs /\ JobOK("commit", j)
  BY JobHere, Moves
<1>2. /\ j.slug \in Slugs /\ j.rev \in 1..MaxRevs /\ j.id \in 0..MaxRevs /\ j.from \in 0..MaxRevs
      /\ j.status \in {"draft", "canonical", "deprecated"}
      /\ j.cmd \in {"write", "promote"}
      /\ j.cmd = "promote" => j.id > 0 /\ j.from > 0 /\ j.status \in {"canonical", "deprecated"}
  BY <1>1, VaultAssumption DEF Jobs, JobOK, Revising, Holding, WrittenAs
<1>3. row' = [row EXCEPT ![j.slug] = r]
  BY DEF Commit
<1>4. r \in Rows /\ Whole(r) /\ r # NoRow /\ r.rev = j.rev
  <2> DEFINE id == IF j.id = 0 THEN j.rev ELSE j.id
  <2>1. id \in 0..MaxRevs /\ id > 0 /\ j.rev \in 0..MaxRevs /\ j.rev > 0 /\ j.status # None
    BY <1>2, VaultAssumption DEF None
  <2>2. r.id = id /\ r.rev = j.rev /\ r.status = j.status /\ r = [id |-> id, rev |-> j.rev, status |-> j.status]
    OBVIOUS
  <2> HIDE DEF id, r, j
  <2>3. r \in Rows
    BY <1>2, <2>1, <2>2 DEF Rows
  <2> QED BY <2>1, <2>2, <2>3 DEF Whole, NoRow
<1>5. j.cmd = "promote" => PromotionOf(p) \in Events
  BY <1>2, VaultAssumption DEF PromotionOf, Events
<1> QED BY <1>2, <1>3, <1>4, <1>5

LEMMA DataStep == TypeInv /\ [Step]_vars => DataOK' /\ ArchiveOK' /\ RowsWhole'
<1> SUFFICES ASSUME TypeInv, [Step]_vars PROVE DataOK' /\ ArchiveOK' /\ RowsWhole'
  OBVIOUS
<1>a. DataOK /\ ArchiveOK /\ RowsWhole
  BY TypeParts DEF TypeInv
<1>b. UNCHANGED archive /\ UNCHANGED row => ArchiveOK' /\ RowsWhole'
  BY <1>a DEF ArchiveOK, RowsWhole
<1>c. UNCHANGED row => row' \in [Slugs -> Rows] /\ (\A s \in Slugs : Whole(row'[s]))
  BY <1>a DEF DataOK, RowsWhole
<1>1. ASSUME NEW p \in Procs, NEW s \in Slugs, Look(p, s), UNCHANGED <<archive, torn>>
      PROVE DataOK' /\ UNCHANGED row
  BY <1>1, <1>a DEF Look, vault, DataOK
<1>2. ASSUME NEW p \in Procs, NEW s \in Slugs, NEW to \in {"canonical", "deprecated"}, Promote(p, s, to),
             UNCHANGED <<archive, torn>>
      PROVE DataOK' /\ UNCHANGED row
  BY <1>2, <1>a DEF Promote, vault, DataOK
<1>3. ASSUME NEW p \in Procs, NEW s \in Slugs, DeleteRow(p, s), UNCHANGED <<archive, torn>>
      PROVE DataOK' /\ RowsWhole' /\ ArchiveOK'
  BY <1>3, <1>a, NoRowIsRow DEF DeleteRow, DataOK, RowsWhole, ArchiveOK
<1>4. ASSUME NEW p \in Procs, WriteRow(p), UNCHANGED <<archive, torn>>
      PROVE DataOK' /\ UNCHANGED row
  <2>1. revs' \in 1..MaxRevs /\ revs' \in Files /\ revs' \in 0..MaxRevs
    BY <1>4, WriteRowJob, FileKinds
  <2>2. file' \in [Slugs -> Files]
    BY <1>4, <2>1, <1>a, WriteRowJob DEF Granted, Refused, DataOK
  <2> QED BY <1>4, <1>a, <2>1, <2>2 DEF WriteRow, DataOK
<1>5. ASSUME NEW p \in Procs, OpenFile(p), UNCHANGED <<archive, torn>>
      PROVE DataOK' /\ UNCHANGED row
  BY <1>5, <1>a, FileKinds DEF OpenFile, DataOK
<1>6. ASSUME NEW p \in Procs, FillFile(p), UNCHANGED <<archive, torn>>
      PROVE DataOK' /\ UNCHANGED row
  <2>1. job[p].rev \in 1..MaxRevs
    BY <1>6, Moves, JobHere, VaultAssumption DEF JobOK, Jobs, Holding
  <2> QED BY <1>6, <1>a, <2>1, FileKinds DEF FillFile, DataOK
<1>7. ASSUME NEW p \in Procs, Commit(p), UNCHANGED <<archive, torn>>
      PROVE DataOK' /\ RowsWhole' /\ ArchiveOK'
  <2> DEFINE j == job[p]
             r == [id |-> IF j.id = 0 THEN j.rev ELSE j.id, rev |-> j.rev, status |-> j.status]
  <2>1. /\ j.slug \in Slugs /\ r \in Rows /\ Whole(r) /\ row' = [row EXCEPT ![j.slug] = r]
        /\ j.cmd = "promote" => PromotionOf(p) \in Events
    BY <1>7, CommitRow
  <2> HIDE DEF r
  <2>2. event' \subseteq Events
    BY <1>7, <1>a, <2>1 DEF Commit, DataOK
  <2> QED BY <1>7, <1>a, <2>1, <2>2 DEF Commit, DataOK, RowsWhole, ArchiveOK
<1>8. ASSUME NEW p \in Procs, Abort(p), UNCHANGED <<archive, torn>> PROVE DataOK' /\ UNCHANGED row
  BY <1>8, <1>a DEF Abort, DataOK
<1>9. ASSUME NEW p \in Procs, Parse(p), UNCHANGED <<archive, torn>> PROVE DataOK' /\ UNCHANGED row
  BY <1>9, <1>a DEF Parse, vault, DataOK
<1>10. ASSUME NEW p \in Procs, Unlink(p), UNCHANGED <<archive, torn>> PROVE DataOK' /\ UNCHANGED row
  BY <1>10, <1>a, FileKinds DEF Unlink, DataOK
<1>11. CASE VaultNext /\ UNCHANGED <<archive, torn>>
  BY <1>11, <1>1, <1>2, <1>3, <1>4, <1>5, <1>6, <1>7, <1>8, <1>9, <1>10, <1>a, <1>b DEF VaultNext, DataOK
<1>12. ASSUME NEW p \in Procs, BackupBegin(p) PROVE DataOK' /\ ArchiveOK' /\ RowsWhole'
  BY <1>12, <1>a DEF BackupBegin, vault, DataOK, ArchiveOK, RowsWhole, StepAfter
<1>13. ASSUME NEW p \in Procs, Dump(p) PROVE DataOK' /\ ArchiveOK' /\ RowsWhole'
  <2>1. archive.state = "dump"
    BY <1>13, Moves
  <2> QED BY <1>13, <2>1, <1>a DEF Dump, vault, DataOK, ArchiveOK, RowsWhole, StepAfter
<1>14. ASSUME NEW p \in Procs, NEW s \in Slugs, TarFile(p, s) PROVE DataOK' /\ ArchiveOK' /\ RowsWhole'
  BY <1>14, <1>a DEF TarFile, vaultVars, vault, DataOK, ArchiveOK, RowsWhole
<1>15. ASSUME NEW p \in Procs, TarEnd(p) PROVE DataOK' /\ ArchiveOK' /\ RowsWhole'
  <2>1. archive.state = "tar"
    BY <1>15, Moves
  <2> QED BY <1>15, <2>1, <1>a DEF TarEnd, vault, DataOK, ArchiveOK, RowsWhole, StepAfter
<1>16. ASSUME NEW p \in Procs, BackupFail(p) PROVE DataOK' /\ ArchiveOK' /\ RowsWhole'
  BY <1>16, <1>a, NoArchiveIsArchive, NoRowIsRow DEF BackupFail, vault, DataOK, ArchiveOK, RowsWhole
<1>17. ASSUME NEW p \in Procs, BackupDie(p) PROVE DataOK' /\ ArchiveOK' /\ RowsWhole'
  BY <1>17, <1>a, <1>b DEF BackupDie, vault, DataOK
<1>18. ASSUME NEW p \in Procs, NEW force \in BOOLEAN, Restore(p, force)
       PROVE DataOK' /\ ArchiveOK' /\ RowsWhole'
  BY <1>18, <1>a, <1>b DEF Restore, vault, DataOK
<1>19. ASSUME NEW p \in Procs, RestoreRows(p) PROVE DataOK' /\ ArchiveOK' /\ RowsWhole'
  BY <1>19, <1>a, NoRowIsRow DEF RestoreRows, DataOK, ArchiveOK, RowsWhole
<1>20. ASSUME NEW p \in Procs, Wipe(p) PROVE DataOK' /\ ArchiveOK' /\ RowsWhole'
  BY <1>20, <1>a, <1>b, FileKinds DEF Wipe, DataOK
<1>21. ASSUME NEW p \in Procs, Extract(p) PROVE DataOK' /\ ArchiveOK' /\ RowsWhole'
  <2>1. file' \in [Slugs -> Files]
    BY <1>21, <1>a DEF Extract, DataOK, ArchiveOK
  <2>2. torn' \in BOOLEAN
    BY <1>21 DEF Extract
  <2> QED BY <1>21, <1>a, <1>b, <2>1, <2>2 DEF Extract, DataOK
<1>22. ASSUME NEW p \in Procs, RestoreStop(p) PROVE DataOK' /\ ArchiveOK' /\ RowsWhole'
  BY <1>22, <1>a, NoRowIsRow DEF RestoreStop, DataOK, ArchiveOK, RowsWhole
<1>23. CASE UNCHANGED vars
  BY <1>23, <1>a, <1>b DEF vars, vaultVars, vault, DataOK
<1> QED BY <1>11, <1>12, <1>13, <1>14, <1>15, <1>16, <1>17, <1>18, <1>19, <1>20, <1>21, <1>22, <1>23
        DEF Step

-----------------------------------------------------------------------------
(* Locks, revisions left, and the one backup.                              *)

LEMMA LockFrame ==
  ASSUME TypeInv, NEW p \in Procs, Only(p), UNCHANGED lock,
         pc[p] \notin Holding, pc'[p] \notin Holding
  PROVE  LocksOK' /\ Locked'
  BY TypeParts DEF TypeInv, LocksOK, Locked, Only

LEMMA LockHeld ==
  ASSUME TypeInv, NEW p \in Procs, Only(p), UNCHANGED lock,
         pc[p] \in Holding, pc'[p] \in Holding, job'[p] = job[p]
  PROVE  LocksOK' /\ Locked'
  BY TypeParts DEF TypeInv, LocksOK, Locked, Only

LEMMA LockFreed ==
  ASSUME TypeInv, NEW p \in Procs, Only(p), lock' = Unlocked(p), pc'[p] = "idle"
  PROVE  LocksOK' /\ Locked'
<1>1. LocksOK /\ Locked
  BY TypeParts DEF TypeInv
<1>2. \A s \in Slugs : lock'[s] = IF lock[s] = p THEN None ELSE lock[s]
  BY DEF Unlocked
<1>3. LocksOK'
  BY <1>1, <1>2 DEF LocksOK, Only, Unlocked
<1>4. ASSUME NEW q \in Procs, pc'[q] \in Holding PROVE lock'[job'[q].slug] = q
  <2>1. q # p /\ pc[q] = pc'[q] /\ job'[q] = job[q]
    BY <1>4 DEF Holding, Only
  <2>2. job[q].slug \in Slugs
    BY <1>4, <2>1, JobHere DEF JobOK, Revising
  <2> QED BY <1>1, <1>2, <1>4, <2>1, <2>2 DEF Locked
<1> QED BY <1>3, <1>4 DEF Locked

LEMMA LockStep == TypeInv /\ [Step]_vars => LocksOK' /\ Locked'
<1> SUFFICES ASSUME TypeInv, [Step]_vars PROVE LocksOK' /\ Locked'
  OBVIOUS
<1>a. {"idle", "parse", "row", "unlink", "dump", "tar", "pg_restore", "wipe", "extract"}
        \cap Holding = {}
  BY DEF Holding
<1>i. ASSUME NEW p \in Procs, NEW cmd, May(p, cmd) PROVE pc[p] \notin Holding
  BY <1>i DEF May, Idle, Holding
<1>1. ASSUME NEW p \in Procs, NEW s \in Slugs, Look(p, s) PROVE LocksOK' /\ Locked'
  <2>1. UNCHANGED lock /\ pc[p] \notin Holding
    BY <1>1, <1>i DEF Look, vault
  <2> QED BY <1>1, <1>a, <2>1, WriteJob, LockFrame
<1>2. ASSUME NEW p \in Procs, NEW s \in Slugs, NEW to \in {"canonical", "deprecated"}, Promote(p, s, to)
      PROVE LocksOK' /\ Locked'
  <2>1. UNCHANGED lock /\ pc[p] \notin Holding
    BY <1>2, <1>i DEF Promote, vault
  <2> QED BY <1>2, <1>a, <2>1, PromoteJob, LockFrame
<1>3. ASSUME NEW p \in Procs, NEW s \in Slugs, DeleteRow(p, s) PROVE LocksOK' /\ Locked'
  <2>1. UNCHANGED lock /\ pc[p] \notin Holding
    BY <1>3, <1>i DEF DeleteRow
  <2> QED BY <1>3, <1>a, <2>1, DeleteJob, LockFrame
<1>4. ASSUME NEW p \in Procs, WriteRow(p) PROVE LocksOK' /\ Locked'
  <2>1. pc[p] \notin Holding /\ lock[job[p].slug] = None /\ (Granted(p) \/ Refused(p))
    BY <1>4, <1>a, WriteRowJob
  <2>2. CASE Refused(p)
    BY <1>a, <2>1, <2>2, LockFrame DEF Refused
  <2>3. CASE Granted(p)
    <3> DEFINE s == job[p].slug
    <3>1. /\ s \in Slugs /\ job[p] \in Jobs /\ job'[p].slug = s
          /\ pc'[p] \in Holding /\ lock' = [lock EXCEPT ![s] = p] /\ Only(p)
      BY <1>4, <2>3, WriteRowJob, JobHere DEF JobOK, Revising, Holding, Granted, Jobs
    <3>2. lock[s] = None
      BY <2>1
    <3>3. LocksOK /\ Locked /\ None \notin Procs
      BY TypeParts, VaultAssumption DEF TypeInv
    <3> HIDE DEF s
    <3>4. LocksOK'
      BY <2>1, <3>1, <3>3 DEF LocksOK, Only
    <3>5. ASSUME NEW q \in Procs, pc'[q] \in Holding PROVE lock'[job'[q].slug] = q
      <4>1. CASE q = p
        BY <3>1, <3>3, <4>1 DEF LocksOK
      <4>2. CASE q # p
        <5>1. pc[q] \in Holding /\ job'[q] = job[q] /\ lock[job[q].slug] = q
          BY <3>1, <3>3, <3>5, <4>2 DEF Only, Locked
        <5>2. job[q].slug \in Slugs /\ job[q].slug # s
          BY <3>2, <3>3, <5>1, JobHere DEF JobOK, Revising, Holding
        <5> QED BY <3>1, <3>3, <5>1, <5>2 DEF LocksOK
      <4> QED BY <4>1, <4>2
    <3> QED BY <3>4, <3>5 DEF Locked
  <2> QED BY <2>1, <2>2, <2>3
<1>5. ASSUME NEW p \in Procs, OpenFile(p) \/ FillFile(p) PROVE LocksOK' /\ Locked'
  <2>1. UNCHANGED lock
    BY <1>5 DEF OpenFile, FillFile
  <2> QED BY <1>5, <2>1, Moves, LockHeld DEF Moved, Holding
<1>6. ASSUME NEW p \in Procs, Commit(p) \/ Abort(p) PROVE LocksOK' /\ Locked'
  <2>1. lock' = Unlocked(p)
    BY <1>6 DEF Commit, Abort
  <2> QED BY <1>6, <2>1, Moves, LockFreed DEF Ended
<1>7. ASSUME NEW p \in Procs, Parse(p) \/ Unlink(p) \/ Dump(p) \/ TarEnd(p) \/ BackupFail(p)
                                \/ BackupDie(p) \/ Wipe(p) \/ Extract(p)
      PROVE LocksOK' /\ Locked'
  <2>1. UNCHANGED lock
    BY <1>7 DEF Parse, Unlink, Dump, TarEnd, BackupFail, BackupDie, Wipe, Extract, vault
  <2>2. pc[p] \notin Holding /\ pc'[p] \notin Holding /\ Only(p)
    BY <1>7, <1>a, Moves DEF Moved, Ended
  <2> QED BY <2>1, <2>2, LockFrame
<1>8. ASSUME NEW p \in Procs, RestoreRows(p) \/ RestoreStop(p) PROVE LocksOK' /\ Locked'
  <2>1. UNCHANGED lock
    BY <1>8 DEF RestoreRows, RestoreStop
  <2>2. pc[p] \notin Holding /\ pc'[p] \notin Holding /\ Only(p)
    BY <1>8, <1>a, Moves DEF Moved, Ended
  <2> QED BY <2>1, <2>2, LockFrame
<1>9. ASSUME NEW p \in Procs, BackupBegin(p) PROVE LocksOK' /\ Locked'
  <2>1. UNCHANGED lock /\ pc[p] \notin Holding
    BY <1>9, <1>i DEF BackupBegin, vault
  <2> QED BY <1>9, <1>a, <2>1, BackupJob, LockFrame
<1>10. ASSUME NEW p \in Procs, NEW force \in BOOLEAN, Restore(p, force) PROVE LocksOK' /\ Locked'
  <2>1. UNCHANGED lock /\ pc[p] \notin Holding
    BY <1>10, <1>i DEF Restore, vault
  <2> QED BY <1>10, <1>a, <2>1, RestoreJob, LockFrame
<1>11. CASE UNCHANGED <<lock, pc, job>>
  BY <1>11, TypeParts DEF TypeInv, LocksOK, Locked
<1>12. ASSUME NEW p \in Procs, NEW s \in Slugs, TarFile(p, s) PROVE UNCHANGED <<lock, pc, job>>
  BY <1>12 DEF TarFile, vaultVars, vault
<1>13. UNCHANGED vars => UNCHANGED <<lock, pc, job>>
  BY DEF vars, vaultVars, vault
<1> QED BY <1>1, <1>2, <1>3, <1>4, <1>5, <1>6, <1>7, <1>8, <1>9, <1>10, <1>11, <1>12, <1>13
        DEF Step, VaultNext

LEMMA BoundedFrame ==
  ASSUME TypeInv, UNCHANGED revs, Pending' \subseteq Pending
  PROVE  Bounded'
<1>1. IsFiniteSet(Pending)
  BY VaultAssumption, FS_Subset DEF Pending
<1>2. IsFiniteSet(Pending') /\ Cardinality(Pending') <= Cardinality(Pending)
  BY <1>1, FS_Subset
<1>3. Cardinality(Pending) \in Nat /\ Cardinality(Pending') \in Nat
  BY <1>1, <1>2, FS_CardinalityType
<1> QED BY <1>2, <1>3, VaultAssumption DEF TypeInv, TypeOK, Bounded

LEMMA BoundedBegin ==
  ASSUME TypeInv, UNCHANGED revs, Budget, NEW p \in Procs, Only(p), ProcsOK'
  PROVE  Bounded'
<1> DEFINE Busy == {q \in Procs : ~Idle(q)}
<1>1. IsFiniteSet(Busy)
  BY VaultAssumption, FS_Subset
<1>2. IsFiniteSet(Busy \cup {p}) /\ Cardinality(Busy \cup {p}) <= Cardinality(Busy) + 1
  <2>1. Cardinality(Busy) \in Nat
    BY <1>1, FS_CardinalityType
  <2> QED BY <1>1, <2>1, FS_AddElement
<1>3. Pending' \subseteq Busy \cup {p}
  BY DEF Pending, Only, Idle
<1>4. IsFiniteSet(Pending') /\ Cardinality(Pending') <= Cardinality(Busy \cup {p})
  BY <1>2, <1>3, FS_Subset
<1>5. Cardinality(Busy) \in Nat /\ Cardinality(Pending') \in Nat /\ Cardinality(Busy \cup {p}) \in Nat
  BY <1>1, <1>2, <1>4, FS_CardinalityType
<1>6. revs + Cardinality(Busy) < MaxRevs
  BY DEF Budget
<1> HIDE DEF Busy
<1> QED BY <1>2, <1>4, <1>5, <1>6, VaultAssumption DEF TypeInv, TypeOK, Bounded

LEMMA BoundedStep == TypeInv /\ [Step]_vars => Bounded'
<1> SUFFICES ASSUME TypeInv, [Step]_vars PROVE Bounded'
  OBVIOUS
<1>a. ASSUME NEW p \in Procs, Only(p), pc'[p] \notin {"parse", "row"}
      PROVE Pending' \subseteq Pending
  BY <1>a DEF Pending, Only
<1>1. ASSUME NEW p \in Procs, NEW s \in Slugs, Look(p, s) PROVE Bounded'
  BY <1>1, WriteJob, BoundedBegin DEF Look, vault
<1>2. ASSUME NEW p \in Procs, NEW s \in Slugs, NEW to \in {"canonical", "deprecated"}, Promote(p, s, to)
      PROVE Bounded'
  BY <1>2, PromoteJob, BoundedBegin DEF Promote, vault
<1>3. ASSUME NEW p \in Procs, NEW s \in Slugs, DeleteRow(p, s) PROVE Bounded'
  <2>1. UNCHANGED revs
    BY <1>3 DEF DeleteRow
  <2> QED BY <1>3, <1>a, <2>1, DeleteJob, BoundedFrame
<1>4. ASSUME NEW p \in Procs, WriteRow(p) PROVE Bounded'
  <2>1. pc[p] = "row" /\ revs' = revs + 1 /\ pc'[p] \in {"open", "idle"} /\ Only(p)
    BY <1>4, WriteRowJob DEF Granted, Refused
  <2>2. Pending' = Pending \ {p}
    BY <2>1 DEF Pending, Only
  <2> QED BY <2>1, <2>2, PendingLeft DEF Bounded
<1>5. ASSUME NEW p \in Procs, Parse(p) PROVE Bounded'
  <2>1. UNCHANGED revs /\ pc[p] = "parse" /\ Only(p)
    BY <1>5, Moves DEF Parse, vault, Moved, Ended
  <2>2. Pending' \subseteq Pending
    BY <2>1 DEF Pending, Only
  <2> QED BY <2>1, <2>2, BoundedFrame
<1>6. ASSUME NEW p \in Procs,
             \/ OpenFile(p) \/ FillFile(p) \/ Commit(p) \/ Abort(p) \/ Unlink(p)
             \/ Dump(p) \/ TarEnd(p) \/ BackupFail(p) \/ BackupDie(p)
             \/ RestoreRows(p) \/ Wipe(p) \/ Extract(p) \/ RestoreStop(p)
      PROVE Bounded'
  <2>1. UNCHANGED revs
    BY <1>6 DEF OpenFile, FillFile, Commit, Abort, Unlink, Dump, TarEnd, BackupFail, BackupDie,
                RestoreRows, Wipe, Extract, RestoreStop, vault
  <2>2. pc'[p] \notin {"parse", "row"} /\ Only(p)
    BY <1>6, Moves DEF Moved, Ended
  <2> QED BY <1>a, <2>1, <2>2, BoundedFrame
<1>7. ASSUME NEW p \in Procs, BackupBegin(p) PROVE Bounded'
  <2>1. UNCHANGED revs
    BY <1>7 DEF BackupBegin, vault
  <2> QED BY <1>7, <1>a, <2>1, BackupJob, BoundedFrame
<1>8. ASSUME NEW p \in Procs, NEW force \in BOOLEAN, Restore(p, force) PROVE Bounded'
  <2>1. UNCHANGED revs
    BY <1>8 DEF Restore, vault
  <2> QED BY <1>8, <1>a, <2>1, RestoreJob, BoundedFrame
<1>9. CASE UNCHANGED <<revs, pc>>
  BY <1>9, BoundedFrame DEF Pending
<1>10. ASSUME NEW p \in Procs, NEW s \in Slugs, TarFile(p, s) PROVE UNCHANGED <<revs, pc>>
  BY <1>10 DEF TarFile, vaultVars, vault
<1>11. UNCHANGED vars => UNCHANGED <<revs, pc>>
  BY DEF vars, vaultVars, vault
<1> QED BY <1>1, <1>2, <1>3, <1>4, <1>5, <1>6, <1>7, <1>8, <1>9, <1>10, <1>11 DEF Step, VaultNext

InBackup(p) == pc[p] \in {"dump", "tar"}

LEMMA BackupFrame ==
  ASSUME TypeInv, NEW p \in Procs, Only(p), UNCHANGED archive,
         ~InBackup(p)'
  PROVE  OneBackup'
  BY DEF TypeInv, OneBackup, Only, InBackup

LEMMA OneBackupStep == TypeInv /\ [Step]_vars => OneBackup'
<1> SUFFICES ASSUME TypeInv, [Step]_vars PROVE OneBackup'
  OBVIOUS
<1>a. {"idle", "parse", "row", "open", "fill", "commit", "unlink", "pg_restore", "wipe", "extract"}
        \cap {"dump", "tar"} = {}
  OBVIOUS
<1>1. CASE VaultNext /\ UNCHANGED <<archive, torn>>
  <2>1. ASSUME NEW p \in Procs, NEW s \in Slugs,
               \/ Look(p, s) \/ DeleteRow(p, s)
               \/ \E to \in {"canonical", "deprecated"} : Promote(p, s, to)
        PROVE OneBackup'
    BY <1>1, <1>a, <2>1, WriteJob, PromoteJob, DeleteJob, BackupFrame DEF InBackup
  <2>2. ASSUME NEW p \in Procs, WriteRow(p) PROVE OneBackup'
    <3>1. Only(p) /\ pc'[p] \in {"open", "idle"}
      BY <2>2, WriteRowJob DEF Granted, Refused
    <3> QED BY <1>1, <3>1, BackupFrame DEF InBackup
  <2>3. ASSUME NEW p \in Procs, OpenFile(p) \/ FillFile(p) \/ Commit(p) \/ Abort(p) \/ Parse(p)
                                  \/ Unlink(p)
        PROVE OneBackup'
    <3>1. Only(p) /\ pc'[p] \in {"fill", "commit", "row", "idle"}
      BY <2>3, Moves DEF Moved, Ended
    <3> QED BY <1>1, <3>1, BackupFrame DEF InBackup
  <2> QED BY <1>1, <2>1, <2>2, <2>3 DEF VaultNext
<1>2. ASSUME NEW p \in Procs, BackupBegin(p) PROVE OneBackup'
  <2>1. archive.state = "none" /\ pc'[p] = "dump" /\ Only(p)
    BY <1>2, BackupJob, NoArchiveIsArchive DEF BackupBegin
  <2>2. archive'.state = "dump"
    BY <1>2 DEF BackupBegin, StepAfter, TypeInv, ArchiveOK
  <2>3. \A q \in Procs : ~InBackup(q)
    BY <2>1 DEF TypeInv, OneBackup, InBackup
  <2> QED BY <2>1, <2>2, <2>3 DEF OneBackup, Only, InBackup
<1>3. ASSUME NEW p \in Procs, Dump(p) PROVE OneBackup'
  <2>1. archive.state = "dump" /\ pc[p] = "dump" /\ pc'[p] = "tar" /\ Only(p)
    BY <1>3, Moves DEF Moved
  <2>2. archive'.state = "tar"
    BY <1>3, <2>1 DEF Dump, StepAfter, TypeInv, ArchiveOK
  <2>3. \A q \in Procs \ {p} : ~InBackup(q)
    BY <2>1 DEF TypeInv, OneBackup, InBackup
  <2> QED BY <2>1, <2>2, <2>3 DEF OneBackup, Only, InBackup
<1>4. ASSUME NEW p \in Procs, NEW s \in Slugs, TarFile(p, s) PROVE OneBackup'
  <2>1. UNCHANGED pc /\ archive'.state = archive.state
    BY <1>4 DEF TarFile, vaultVars, TypeInv, ArchiveOK
  <2> QED BY <2>1 DEF TypeInv, OneBackup
<1>5. ASSUME NEW p \in Procs, TarEnd(p) \/ BackupFail(p) \/ BackupDie(p) PROVE OneBackup'
  <2>1. InBackup(p) /\ pc'[p] = "idle" /\ Only(p)
    BY <1>5, Moves DEF Ended, InBackup
  <2>2. \A q \in Procs : ~InBackup(q)'
    BY <2>1 DEF TypeInv, OneBackup, InBackup, Only
  <2> QED BY <2>2 DEF OneBackup, InBackup
<1>6. ASSUME NEW p \in Procs, NEW force \in BOOLEAN, Restore(p, force) PROVE OneBackup'
  <2>1. UNCHANGED archive
    BY <1>6 DEF Restore
  <2> QED BY <1>6, <2>1, RestoreJob, BackupFrame DEF InBackup
<1>7. ASSUME NEW p \in Procs, RestoreRows(p) \/ Wipe(p) \/ Extract(p) \/ RestoreStop(p)
      PROVE OneBackup'
  <2>1. UNCHANGED archive
    BY <1>7 DEF RestoreRows, Wipe, Extract, RestoreStop
  <2>2. Only(p) /\ pc'[p] \in {"wipe", "extract", "idle"}
    BY <1>7, Moves DEF Moved, Ended
  <2> QED BY <2>1, <2>2, BackupFrame DEF InBackup
<1>8. CASE UNCHANGED vars
  BY <1>8 DEF vars, vaultVars, TypeInv, OneBackup
<1> QED BY <1>1, <1>2, <1>3, <1>4, <1>5, <1>6, <1>7, <1>8 DEF Step

LEMMA ProcsStep == TypeInv /\ [Step]_vars => ProcsOK'
<1> SUFFICES ASSUME TypeInv, [Step]_vars PROVE ProcsOK'
  OBVIOUS
<1>1. CASE VaultNext
  BY <1>1, WriteJob, PromoteJob, DeleteJob, WriteRowJob, Moves DEF VaultNext, Moved, Ended
<1>2. ASSUME NEW p \in Procs,
             \/ BackupBegin(p) \/ Dump(p) \/ TarEnd(p) \/ BackupFail(p) \/ BackupDie(p)
             \/ RestoreRows(p) \/ Wipe(p) \/ Extract(p) \/ RestoreStop(p)
      PROVE ProcsOK'
  BY <1>2, BackupJob, Moves DEF Moved, Ended
<1>3. ASSUME NEW p \in Procs, NEW s \in Slugs, TarFile(p, s) PROVE ProcsOK'
  BY <1>3, TarMove
<1>4. ASSUME NEW p \in Procs, NEW force \in BOOLEAN, Restore(p, force) PROVE ProcsOK'
  BY <1>4, RestoreJob
<1>5. CASE UNCHANGED vars
  BY <1>5 DEF vars, vaultVars, TypeInv, ProcsOK
<1> QED BY <1>1, <1>2, <1>3, <1>4, <1>5 DEF Step

LEMMA TypeInit == Init => TypeInv
<1> SUFFICES ASSUME Init PROVE TypeInv
  OBVIOUS
<1> USE DEF Init, VaultInit
<1>1. ArchiveOK
  BY NoArchiveIsArchive DEF ArchiveOK
<1>2. DataOK
  <2>1. row \in [Slugs -> Rows]
    BY NoRowIsRow
  <2>2. file \in [Slugs -> Files]
    BY FileKinds
  <2>3. revs \in 0..MaxRevs
    BY VaultAssumption
  <2> QED BY <2>1, <2>2, <2>3 DEF DataOK
<1>3. LocksOK /\ Locked
  BY VaultAssumption DEF LocksOK, Locked, Holding
<1>4. ProcsOK
  BY NoJobIsJob DEF ProcsOK, Steps
<1>5. RowsWhole
  BY NoArchiveIsArchive, NoRowIsRow DEF RowsWhole
<1>6. Bounded
  <2>1. Pending = {}
    BY DEF Pending
  <2> QED BY <2>1, FS_EmptySet, VaultAssumption DEF Bounded
<1>7. OneBackup
  BY DEF OneBackup
<1> QED BY <1>1, <1>2, <1>3, <1>4, <1>5, <1>6, <1>7, TypeParts DEF TypeInv

LEMMA TypeStep == TypeInv /\ [Step]_vars => TypeInv'
<1> SUFFICES ASSUME TypeInv, [Step]_vars PROVE TypeInv'
  OBVIOUS
<1>1. DataOK' /\ ArchiveOK' /\ RowsWhole' /\ LocksOK' /\ Locked' /\ ProcsOK' /\ Bounded' /\ OneBackup'
  BY DataStep, LockStep, ProcsStep, BoundedStep, OneBackupStep
<1>2. TypeOK'
  BY <1>1 DEF TypeOK, DataOK, LocksOK, ArchiveOK, Holding
<1> QED BY <1>1, <1>2 DEF TypeInv

(* Whether the operator is quiet only leaves steps out. *)
LEMMA Acts == [Next]_<<vars, quiet>> => [Step]_vars
BY DEF Next

(* Rows, files, locks and the archive are typed, whatever commands overlap and
   wherever they stop: no revision is written beyond those begun, and the lock
   of a page is held by the process that is writing it, and by nobody else
   (wiki/vault.py:36-117, backup.py:78-120, restore.py:82-131). *)
THEOREM TypeCorrect == Spec => []TypeOK
<1>1. TypeInv => TypeOK
  BY DEF TypeInv
<1>2. TypeInv /\ [Next]_<<vars, quiet>> => TypeInv'
  BY TypeStep, Acts
<1> QED BY <1>1, <1>2, TypeInit, PTL DEF Spec

-----------------------------------------------------------------------------
(* Files cover rows.                                                       *)

(* The commands that Orderly keeps from overlapping do not overlap. *)
LEMMA KeptApartStep == TypeInv /\ KeptApart /\ [Step]_vars => KeptApart'
<1> SUFFICES ASSUME TypeInv, KeptApart, [Step]_vars PROVE KeptApart'
  OBVIOUS
<1>a. ASSUME NEW p \in Procs, Only(p), pc'[p] = "idle" \/ (~Idle(p) /\ job'[p].cmd = job[p].cmd)
      PROVE  KeptApart'
  BY <1>a DEF KeptApart, Only, Idle
<1>b. ASSUME NEW p \in Procs, Only(p), NEW cmd, May(p, cmd), job'[p].cmd = cmd
      PROVE  KeptApart'
  <2>1. \A q \in Procs \ {p} : ~Idle(q) => {cmd, job[q].cmd} \notin Apart /\ {job[q].cmd, cmd} \notin Apart
    <3>1. \A q \in Procs : {cmd, job[q].cmd} = {job[q].cmd, cmd}
      OBVIOUS
    <3> QED BY <1>b, <3>1 DEF May
  <2> QED BY <1>b, <2>1 DEF KeptApart, Only, Idle
<1>1. ASSUME NEW p \in Procs, NEW s \in Slugs,
             \/ Look(p, s) \/ DeleteRow(p, s)
             \/ \E to \in {"canonical", "deprecated"} : Promote(p, s, to)
      PROVE KeptApart'
  BY <1>1, <1>b, WriteJob, PromoteJob, DeleteJob DEF Look, Promote, DeleteRow
<1>2. ASSUME NEW p \in Procs, WriteRow(p) PROVE KeptApart'
  <2>1. pc[p] = "row" /\ Only(p) /\ (pc'[p] = "idle" \/ job'[p].cmd = job[p].cmd)
    BY <1>2, WriteRowJob, JobHere DEF Granted, Refused, Jobs
  <2> QED BY <1>a, <2>1 DEF Idle
<1>3. ASSUME NEW p \in Procs, BackupBegin(p) PROVE KeptApart'
  BY <1>3, <1>b, BackupJob DEF BackupBegin
<1>4. ASSUME NEW p \in Procs, NEW force \in BOOLEAN, Restore(p, force) PROVE KeptApart'
  BY <1>4, <1>b, RestoreJob DEF Restore
<1>5. ASSUME NEW p \in Procs,
             \/ OpenFile(p) \/ FillFile(p) \/ Commit(p) \/ Abort(p) \/ Parse(p) \/ Unlink(p)
             \/ Dump(p) \/ TarEnd(p) \/ BackupFail(p) \/ BackupDie(p)
             \/ RestoreRows(p) \/ Wipe(p) \/ Extract(p) \/ RestoreStop(p)
      PROVE KeptApart'
  <2>1. Only(p) /\ (pc'[p] = "idle" \/ (~Idle(p) /\ job'[p].cmd = job[p].cmd))
    BY <1>5, Moves DEF Moved, Ended, Idle, Revising, Holding
  <2> QED BY <1>a, <2>1
<1>6. CASE UNCHANGED <<pc, job>>
  BY <1>6 DEF KeptApart, Idle
<1>7. ASSUME NEW p \in Procs, NEW s \in Slugs, TarFile(p, s) PROVE UNCHANGED <<pc, job>>
  BY <1>7 DEF TarFile, vaultVars
<1>8. UNCHANGED vars => UNCHANGED <<pc, job>>
  BY DEF vars, vaultVars
<1> QED BY <1>1, <1>2, <1>3, <1>4, <1>5, <1>6, <1>7, <1>8 DEF Step, VaultNext

InRestore(p) == pc[p] \in {"pg_restore", "wipe", "extract"}

(* What may run beside a restore, a deletion and a backup. *)
LEMMA Beside ==
  ASSUME Orderly, TypeInv, KeptApart, NEW p \in Procs, NEW q \in Procs, p # q
  PROVE  /\ InRestore(p) => Idle(q)
         /\ pc[p] = "unlink" => ~InBackup(q)
         /\ pc[p] = "unlink" /\ pc[q] \in Revising => job[q].cmd = "promote"
<1>1. ~Idle(p) /\ ~Idle(q) => {job[p].cmd, job[q].cmd} \notin Apart
  BY DEF KeptApart
<1>2. /\ {"restore", "restore"} \in Apart /\ {"restore", "write"} \in Apart
      /\ {"restore", "promote"} \in Apart /\ {"restore", "delete"} \in Apart
      /\ {"restore", "backup"} \in Apart /\ {"delete", "write"} \in Apart
      /\ {"delete", "backup"} \in Apart
  <2>1. {"restore", "restore"} = {"restore"}
    OBVIOUS
  <2> QED BY <2>1 DEF Orderly
<1>3. /\ pc[q] \in Steps /\ JobOK(pc[p], job[p]) /\ JobOK(pc[q], job[q])
  BY JobHere
<1>4. ~Idle(q) => job[q].cmd \in {"write", "promote", "delete", "backup", "restore"}
  BY <1>3 DEF JobOK, Steps, Idle, Holding
<1>5. InRestore(p) => job[p].cmd = "restore" /\ ~Idle(p)
  BY <1>3 DEF InRestore, JobOK, Idle
<1>6. InRestore(p) => Idle(q)
  BY <1>1, <1>2, <1>4, <1>5
<1>7. pc[p] = "unlink" => job[p].cmd = "delete" /\ ~Idle(p)
  BY <1>3 DEF JobOK, Idle
<1>8. InBackup(q) => job[q].cmd = "backup" /\ ~Idle(q)
  BY <1>3 DEF InBackup, JobOK, Idle
<1>9. pc[q] \in Revising => job[q].cmd \in {"write", "promote"} /\ ~Idle(q)
  BY <1>3 DEF Revising, Holding, JobOK, Idle
<1> QED BY <1>1, <1>2, <1>6, <1>7, <1>8, <1>9

(* The state that concerns files, besides types and what overlaps. *)
Covering ==
  /\ Ordered /\ Filled /\ Unlinking /\ Restoring /\ Dumped
  /\ FileCovers /\ ArchiveCovers

LEMMA CoverParts == CoverInv <=> TypeInv /\ KeptApart /\ Covering
  BY DEF CoverInv, Covering

LEMMA CoverInit == Init => CoverInv
<1> SUFFICES ASSUME Init PROVE CoverInv
  OBVIOUS
<1>1. TypeInv
  BY TypeInit
<1>2. /\ \A p \in Procs : pc[p] = "idle" /\ torn = FALSE /\ revs = 0
      /\ \A s \in Slugs : row[s] = NoRow /\ archive.row[s] = NoRow /\ archive.tar[s] = NotYet
      /\ archive.state = "none"
  BY NoArchiveIsArchive DEF Init, VaultInit
<1>3. KeptApart /\ Filled /\ Unlinking /\ Restoring
  BY <1>2 DEF KeptApart, Idle, Filled, Unlinking, Restoring
<1>4. Ordered
  BY <1>2, NoRowIsRow, <1>1 DEF Ordered, Holding, Init, VaultInit
<1>5. Dumped /\ FileCovers /\ ArchiveCovers
  BY <1>2 DEF Dumped, FileCovers, ArchiveCovers, Covers
<1> QED BY <1>1, <1>3, <1>4, <1>5 DEF CoverInv

LEMMA CoverFacts ==
  ASSUME CoverInv
  PROVE  /\ TypeInv /\ KeptApart /\ Covering
         /\ revs \in 0..MaxRevs /\ MaxRevs \in Nat
         /\ \A s \in Slugs : row[s] \in Rows /\ archive.row[s] \in Rows /\ Whole(row[s])
                             /\ row[s].rev \in 0..MaxRevs /\ archive.row[s].rev \in 0..MaxRevs
                             /\ file[s] \in Files /\ archive.tar[s] \in Files \cup {NotYet}
         /\ \A p \in Procs : JobOK(pc[p], job[p]) /\ job[p] \in Jobs /\ job[p].rev \in 0..MaxRevs
         /\ \A p \in Procs : pc[p] \in Revising \cup {"unlink"} => job[p].slug \in Slugs
         /\ \A p \in Procs : pc[p] \in Holding => job[p].slug \in Slugs /\ lock[job[p].slug] = p
<1>1. TypeInv /\ KeptApart /\ Covering
  BY CoverParts
<1>2. \A p \in Procs : JobOK(pc[p], job[p]) /\ job[p] \in Jobs
  BY <1>1, JobHere
<1>3. \A p \in Procs : job[p].rev \in 0..MaxRevs
  BY <1>2 DEF Jobs
<1>4. \A p \in Procs : pc[p] \in Revising \cup {"unlink"} => job[p].slug \in Slugs
  BY <1>2 DEF JobOK
<1>5. \A p \in Procs : pc[p] \in Holding => job[p].slug \in Slugs /\ lock[job[p].slug] = p
  BY <1>1, <1>4 DEF TypeInv, Locked, Revising
<1>6. \A s \in Slugs : /\ row[s] \in Rows /\ archive.row[s] \in Rows /\ Whole(row[s])
                       /\ row[s].rev \in 0..MaxRevs /\ archive.row[s].rev \in 0..MaxRevs
                       /\ file[s] \in Files /\ archive.tar[s] \in Files \cup {NotYet}
  BY <1>1 DEF TypeInv, TypeOK, RowsWhole, Rows
<1>7. revs \in 0..MaxRevs /\ MaxRevs \in Nat
  BY <1>1, VaultAssumption DEF TypeInv, TypeOK
<1> QED BY <1>1, <1>2, <1>3, <1>4, <1>5, <1>6, <1>7

(* What a command may start beside. *)
LEMMA MayBeside ==
  ASSUME Orderly, TypeInv, NEW p \in Procs, NEW q \in Procs, NEW cmd \in Commands, May(p, cmd)
  PROVE  /\ ~InRestore(q)
         /\ cmd = "restore" => Idle(q)
         /\ cmd = "delete" => ~InBackup(q)
<1>1. ~Idle(q) => {cmd, job[q].cmd} \notin Apart
  BY DEF May
<1>2. /\ {"restore", "restore"} \in Apart /\ {"restore", "write"} \in Apart
      /\ {"restore", "promote"} \in Apart /\ {"restore", "delete"} \in Apart
      /\ {"restore", "backup"} \in Apart /\ {"delete", "backup"} \in Apart
  <2>1. {"restore", "restore"} = {"restore"}
    OBVIOUS
  <2> QED BY <2>1 DEF Orderly
<1>3. /\ pc[q] \in Steps /\ JobOK(pc[q], job[q])
  BY JobHere
<1>4. ~Idle(q) => job[q].cmd \in {"write", "promote", "delete", "backup", "restore"}
  BY <1>3 DEF JobOK, Steps, Idle, Holding
<1>5. InRestore(q) => job[q].cmd = "restore" /\ ~Idle(q)
  BY <1>3 DEF InRestore, JobOK, Idle
<1>6. InBackup(q) => job[q].cmd = "backup" /\ ~Idle(q)
  BY <1>3 DEF InBackup, JobOK, Idle
<1>7. \A x : {cmd, x} = {x, cmd}
  OBVIOUS
<1>8. ~InRestore(q)
  BY <1>1, <1>2, <1>5, <1>7 DEF Commands
<1>9. cmd = "restore" => Idle(q)
  BY <1>1, <1>2, <1>4
<1>10. cmd = "delete" => ~InBackup(q)
  BY <1>1, <1>2, <1>6
<1> QED BY <1>8, <1>9, <1>10

(* A step that changes neither rows nor files nor the archive. *)
LEMMA CoveringQuiet ==
  ASSUME CoverInv, NEW p \in Procs, Only(p), UNCHANGED <<row, file, revs, archive, torn>>,
         pc'[p] \in {"idle", "parse", "row", "dump", "pg_restore"},
         \A s \in Slugs : lock'[s] \in {lock[s], None}
  PROVE  Covering'
<1> USE CoverFacts
<1>1. Ordered' /\ Filled'
  BY DEF Covering, Ordered, Filled, Only, Holding
<1>2. Unlinking'
  BY DEF Covering, Unlinking, Only
<1>3. Restoring' /\ Dumped'
  BY DEF Covering, Restoring, Dumped, Only
<1>4. FileCovers' /\ ArchiveCovers'
  BY DEF Covering, FileCovers, ArchiveCovers
<1> QED BY <1>1, <1>2, <1>3, <1>4 DEF Covering

LEMMA CoveringDelete ==
  ASSUME Orderly, CoverInv, NEW p \in Procs, NEW s \in Slugs, DeleteRow(p, s),
         UNCHANGED <<archive, torn>>
  PROVE  Covering'
<1> USE CoverFacts
<1>1. /\ pc'[p] = "unlink" /\ job'[p].slug = s /\ Only(p)
      /\ row' = [row EXCEPT ![s] = NoRow] /\ UNCHANGED <<file, lock, revs>> /\ lock[s] = None
      /\ May(p, "delete")
  BY DeleteJob DEF DeleteRow
<1>2. row \in [Slugs -> Rows] /\ NoRow.rev = 0
  BY NoRowIsRow DEF TypeInv, TypeOK
<1>3. \A q \in Procs : ~InBackup(q)
  BY <1>1, MayBeside DEF Commands
<1>4. Ordered' /\ Filled'
  BY <1>1, <1>2 DEF Covering, Ordered, Filled, Only, Holding
<1>5. Unlinking'
  BY <1>1, <1>2 DEF Covering, Unlinking, Only
<1>6. Restoring'
  BY <1>1, <1>2 DEF Covering, Restoring, Only
<1>7. Dumped'
  BY <1>1, <1>3 DEF Covering, Dumped, Only, InBackup
<1>8. FileCovers' /\ ArchiveCovers'
  BY <1>1, <1>2 DEF Covering, FileCovers, ArchiveCovers, Covers
<1> QED BY <1>4, <1>5, <1>6, <1>7, <1>8 DEF Covering

LEMMA CoveringWriteRow ==
  ASSUME Orderly, CoverInv, NEW p \in Procs, WriteRow(p), UNCHANGED <<archive, torn>>
  PROVE  Covering'
<1> USE CoverFacts
<1> DEFINE s == job[p].slug
<1>1. /\ revs' = revs + 1 /\ revs' \in 1..MaxRevs /\ pc[p] = "row" /\ lock[s] = None /\ s \in Slugs
      /\ UNCHANGED row
  BY WriteRowJob DEF WriteRow, Revising
<1>2. /\ \A q \in Procs : ~InRestore(q)
      /\ \A q \in Procs : pc[q] = "unlink" => job[p].cmd = "promote"
  BY <1>1, Beside DEF Idle, Revising, InRestore
<1>3. Restoring' /\ Dumped' /\ ArchiveCovers'
  <2>1. Only(p) /\ pc'[p] \in {"open", "idle"}
    BY WriteRowJob DEF Granted, Refused
  <2>2. Restoring'
    BY <1>2, <2>1 DEF Restoring, Only, InRestore
  <2>3. Dumped' /\ ArchiveCovers'
    BY <1>1, <2>1 DEF Covering, Dumped, ArchiveCovers, Only
  <2> QED BY <2>2, <2>3
<1>4. CASE Granted(p)
  <2>1. /\ lock' = [lock EXCEPT ![s] = p] /\ UNCHANGED file /\ row[s].id = job[p].id
        /\ pc'[p] = "open" /\ job'[p].slug = s /\ job'[p].rev = revs' /\ Only(p)
    BY <1>4 DEF Granted, Jobs
  <2> HIDE DEF s
  <2>2. Ordered' /\ Filled'
    BY <1>1, <2>1 DEF Covering, Ordered, Filled, Only, Holding
  <2>3. ASSUME NEW q \in Procs, pc'[q] = "unlink"
        PROVE  row[job'[q].slug] = NoRow /\ lock'[job'[q].slug] = None
    <3>1. /\ q # p /\ pc[q] = "unlink" /\ job'[q] = job[q] /\ job[p].cmd = "promote"
      BY <1>1, <1>2, <2>1, <2>3 DEF Only
    <3>2. job[p].id > 0 /\ row[s].id > 0
      BY <1>1, <2>1, <3>1 DEF JobOK, Revising
    <3>3. row[job[q].slug] = NoRow /\ lock[job[q].slug] = None
      BY <3>1 DEF Covering, Unlinking
    <3>4. job[q].slug # s
      BY <3>2, <3>3, NoRowIsRow
    <3> QED BY <2>1, <3>1, <3>3, <3>4 DEF TypeInv, TypeOK
  <2>4. Unlinking'
    BY <1>1, <2>3 DEF Unlinking
  <2>5. FileCovers'
    BY <1>1, <2>1 DEF Covering, FileCovers
  <2> QED BY <1>3, <2>2, <2>4, <2>5 DEF Covering
<1>5. CASE Refused(p)
  <2>1. /\ UNCHANGED lock /\ (UNCHANGED file \/ file' = [file EXCEPT ![s] = revs'])
        /\ pc'[p] = "idle" /\ Only(p)
    BY <1>5 DEF Refused
  <2> HIDE DEF s
  <2>2. Ordered'
    BY <1>1, <2>1 DEF Covering, Ordered, Only, Holding
  <2>3. ASSUME NEW q \in Procs, pc'[q] = "commit" PROVE file'[job'[q].slug] = job'[q].rev
    <3>1. /\ q # p /\ pc[q] = "commit" /\ job'[q] = job[q]
      BY <2>1, <2>3 DEF Only
    <3>2. job[q].slug \in Slugs /\ job[q].slug # s /\ file[job[q].slug] = job[q].rev
      BY <1>1, <3>1, VaultAssumption DEF Holding, Covering, Filled
    <3> QED BY <2>1, <3>1, <3>2 DEF TypeInv, TypeOK
  <2>4. Filled'
    BY <2>3 DEF Filled
  <2>5. Unlinking'
    BY <1>1, <2>1 DEF Covering, Unlinking, Only
  <2>6. FileCovers'
    <3>1. file \in [Slugs -> Files] /\ revs' # NoFile /\ row[s].rev <= revs'
      BY <1>1, FileKinds DEF TypeInv, TypeOK, Covering, Ordered
    <3> QED BY <1>1, <2>1, <3>1 DEF Covering, FileCovers, Covers
  <2> QED BY <1>3, <2>2, <2>4, <2>5, <2>6 DEF Covering
<1> QED BY <1>4, <1>5, WriteRowJob

LEMMA SoleHolder ==
  ASSUME CoverInv, NEW p \in Procs, NEW q \in Procs, pc[p] \in Holding, pc[q] \in Holding, p # q
  PROVE  job[q].slug # job[p].slug
  BY CoverFacts

LEMMA CoveringOpen ==
  ASSUME Orderly, CoverInv, NEW p \in Procs, OpenFile(p), UNCHANGED <<archive, torn>>
  PROVE  Covering'
<1> USE CoverFacts
<1> DEFINE s == job[p].slug
<1>1. /\ pc[p] = "open" /\ pc'[p] = "fill" /\ job'[p] = job[p] /\ Only(p)
      /\ file' = [file EXCEPT ![s] = Empty] /\ UNCHANGED <<row, lock, revs>> /\ s \in Slugs
      /\ file \in [Slugs -> Files] /\ Empty # NoFile
  BY Moves, FileKinds DEF OpenFile, Moved, Holding, TypeInv, TypeOK
<1>2. \A q \in Procs : ~InRestore(q)
  BY <1>1, Beside DEF Idle, InRestore
<1>3. \A q \in Procs : q # p /\ pc[q] = "commit" => job[q].slug # s
  BY <1>1, SoleHolder DEF Holding
<1> HIDE DEF s
<1>4. Ordered' /\ Unlinking'
  BY <1>1 DEF Covering, Ordered, Unlinking, Only, Holding
<1>5. Filled'
  BY <1>1, <1>3 DEF Covering, Filled, Only, Holding
<1>6. Restoring' /\ Dumped' /\ ArchiveCovers'
  BY <1>1, <1>2 DEF Covering, Restoring, Dumped, ArchiveCovers, Only, InRestore
<1>7. FileCovers'
  BY <1>1 DEF Covering, FileCovers, Covers
<1> QED BY <1>4, <1>5, <1>6, <1>7 DEF Covering

LEMMA CoveringFill ==
  ASSUME Orderly, CoverInv, NEW p \in Procs, FillFile(p), UNCHANGED <<archive, torn>>
  PROVE  Covering'
<1> USE CoverFacts
<1> DEFINE s == job[p].slug
<1>1. /\ pc[p] = "fill" /\ pc'[p] = "commit" /\ job'[p] = job[p] /\ Only(p)
      /\ file' = [file EXCEPT ![s] = job[p].rev] /\ UNCHANGED <<row, lock, revs>> /\ s \in Slugs
      /\ file \in [Slugs -> Files]
  BY Moves DEF FillFile, Moved, Holding, TypeInv, TypeOK
<1>2. \A q \in Procs : ~InRestore(q)
  BY <1>1, Beside DEF Idle, InRestore
<1>3. \A q \in Procs : q # p /\ pc[q] = "commit" => job[q].slug # s
  BY <1>1, SoleHolder DEF Holding
<1>4. job[p].rev > 0 /\ job[p].rev # NoFile /\ row[s].rev <= job[p].rev
  BY <1>1 DEF JobOK, Holding, Covering, Ordered, NoFile
<1>5. Ordered' /\ Unlinking'
  BY <1>1 DEF Covering, Ordered, Unlinking, Only, Holding
<1>6. ASSUME NEW q \in Procs, pc'[q] = "commit" PROVE file'[job'[q].slug] = job'[q].rev
  <2>1. CASE q = p
    BY <1>1, <2>1
  <2>2. CASE q # p
    BY <1>1, <1>3, <1>6, <2>2 DEF Covering, Filled, Only, Holding
  <2> QED BY <2>1, <2>2
<1>7. Restoring' /\ Dumped' /\ ArchiveCovers'
  BY <1>1, <1>2 DEF Covering, Restoring, Dumped, ArchiveCovers, Only, InRestore
<1>8. FileCovers'
  BY <1>1, <1>4 DEF Covering, FileCovers, Covers
<1> QED BY <1>5, <1>6, <1>7, <1>8 DEF Covering, Filled

LEMMA CoveringCommit ==
  ASSUME Orderly, CoverInv, NEW p \in Procs, Commit(p), UNCHANGED <<archive, torn>>
  PROVE  Covering'
<1> USE CoverFacts
<1> DEFINE j == job[p]
           r == [id |-> IF j.id = 0 THEN j.rev ELSE j.id, rev |-> j.rev, status |-> j.status]
<1>1. /\ r # NoRow /\ r.rev = j.rev /\ row' = [row EXCEPT ![j.slug] = r]
      /\ j.slug \in Slugs /\ j.rev \in 1..MaxRevs
  BY CommitRow
<1> HIDE DEF r
<1>2. /\ pc[p] = "commit" /\ pc'[p] = "idle" /\ Only(p)
      /\ UNCHANGED <<file, revs>> /\ lock' = Unlocked(p)
  BY Moves DEF Commit, Ended
<1>3. /\ row \in [Slugs -> Rows] /\ file[j.slug] = j.rev /\ row[j.slug].rev <= j.rev /\ j.rev <= revs
      /\ lock[j.slug] = p /\ j.rev # NoFile
  BY <1>1, <1>2 DEF TypeInv, TypeOK, Covering, Filled, Ordered, Holding, NoFile
<1>4. \A q \in Procs : ~InRestore(q)
  BY <1>2, Beside DEF Idle, InRestore
<1>5. \A q \in Procs : q # p /\ pc[q] \in Holding => job[q].slug # j.slug
  BY <1>2, SoleHolder DEF Holding
<1>6. \A q \in Procs : pc[q] = "unlink" => job[q].slug # j.slug
  BY <1>3, VaultAssumption DEF Covering, Unlinking
<1> HIDE DEF j
<1>7. Ordered'
  BY <1>1, <1>2, <1>3, <1>5 DEF Covering, Ordered, Only, Holding
<1>8. Filled'
  BY <1>2 DEF Covering, Filled, Only
<1>9. Unlinking'
  BY <1>1, <1>2, <1>3, <1>6 DEF Covering, Unlinking, Only, Unlocked
<1>10. Restoring'
  BY <1>2, <1>4 DEF Restoring, Only, InRestore
<1>11. Dumped'
  <2>1. \A s \in Slugs : row[s].rev <= row'[s].rev /\ (row[s] # NoRow => row'[s] # NoRow)
    BY <1>1, <1>3
  <2>2. \A s \in Slugs : row'[s].rev \in Nat /\ row[s].rev \in Nat /\ archive.row[s].rev \in Nat
    BY <1>1, <1>3
  <2> QED BY <1>2, <2>1, <2>2 DEF Covering, Dumped, Only
<1>12. FileCovers'
  BY <1>1, <1>2, <1>3 DEF Covering, FileCovers, Covers
<1>13. ArchiveCovers'
  BY DEF Covering, ArchiveCovers
<1> QED BY <1>7, <1>8, <1>9, <1>10, <1>11, <1>12, <1>13 DEF Covering

LEMMA CoveringUnlink ==
  ASSUME Orderly, CoverInv, NEW p \in Procs, Unlink(p), UNCHANGED <<archive, torn>>
  PROVE  Covering'
<1> USE CoverFacts
<1> DEFINE s == job[p].slug
<1>1. /\ pc[p] = "unlink" /\ pc'[p] = "idle" /\ Only(p) /\ s \in Slugs
      /\ UNCHANGED <<row, lock, revs>> /\ file \in [Slugs -> Files]
      /\ UNCHANGED file \/ file' = [file EXCEPT ![s] = NoFile]
  BY Moves DEF Unlink, Ended, TypeInv, TypeOK
<1>2. row[s] = NoRow /\ lock[s] = None
  BY <1>1 DEF Covering, Unlinking
<1>3. \A q \in Procs : pc[q] = "commit" => job[q].slug # s
  BY <1>2, VaultAssumption DEF Holding
<1> HIDE DEF s
<1>4. Ordered' /\ Unlinking'
  BY <1>1 DEF Covering, Ordered, Unlinking, Only, Holding
<1>5. Filled'
  BY <1>1, <1>3 DEF Covering, Filled, Only, Holding
<1>6. Restoring' /\ Dumped' /\ ArchiveCovers'
  BY <1>1 DEF Covering, Restoring, Dumped, ArchiveCovers, Only
<1>7. FileCovers'
  BY <1>1, <1>2 DEF Covering, FileCovers, Covers
<1> QED BY <1>4, <1>5, <1>6, <1>7 DEF Covering

LEMMA CoveringDump ==
  ASSUME Orderly, CoverInv, NEW p \in Procs, Dump(p)
  PROVE  Covering'
<1> USE CoverFacts
<1>1. /\ pc[p] = "dump" /\ archive.state = "dump" /\ pc'[p] = "tar" /\ Only(p)
      /\ UNCHANGED <<row, file, lock, revs, torn>>
  BY Moves DEF Dump, Moved, vault
<1>2. /\ archive'.row = row /\ archive'.torn = torn /\ archive'.state = "tar"
      /\ archive'.tar = archive.tar
  BY <1>1 DEF Dump, StepAfter, TypeInv, ArchiveOK
<1>3. \A q \in Procs : ~InRestore(q)
  BY <1>1, Beside DEF Idle, InRestore
<1>4. \A q \in Procs : pc'[q] = "tar" => q = p
  BY <1>1 DEF TypeInv, OneBackup, Only
<1>5. \A s \in Slugs : archive.tar[s] = NotYet
  BY <1>1 DEF Covering, Dumped
<1>6. Ordered' /\ Filled' /\ Unlinking'
  BY <1>1, <1>2 DEF Covering, Ordered, Filled, Unlinking, Only, Holding
<1>7. Restoring'
  BY <1>1, <1>3 DEF Restoring, Only, InRestore
<1>8. Dumped'
  BY <1>1, <1>2, <1>4, <1>5 DEF Dumped
<1>9. FileCovers' /\ ArchiveCovers'
  BY <1>1, <1>2 DEF Covering, FileCovers, ArchiveCovers
<1> QED BY <1>6, <1>7, <1>8, <1>9 DEF Covering

LEMMA CoveringTarFile ==
  ASSUME CoverInv, NEW p \in Procs, NEW s \in Slugs, TarFile(p, s)
  PROVE  Covering'
<1> USE CoverFacts
<1>1. /\ pc[p] = "tar" /\ archive.state = "tar"
      /\ UNCHANGED <<row, file, lock, revs, torn, pc, job>>
  BY TarMove DEF TarFile, vaultVars, vault
<1>2. /\ archive'.row = archive.row /\ archive'.torn = archive.torn /\ archive'.state = "tar"
      /\ archive'.tar = [archive.tar EXCEPT ![s] = file[s]]
      /\ archive.tar \in [Slugs -> Files \cup {NotYet}]
  BY <1>1 DEF TarFile, TypeInv, ArchiveOK
<1>3. Ordered' /\ Filled' /\ Unlinking' /\ Restoring'
  BY <1>1, <1>2 DEF Covering, Ordered, Filled, Unlinking, Restoring
<1>4. ~archive.torn => CoversPage(file[s], archive.row[s])
  <2>1. HAVE ~archive.torn
  <2>2. ~torn /\ (archive.row[s] # NoRow => row[s] # NoRow /\ archive.row[s].rev <= row[s].rev)
    BY <1>1, <2>1 DEF Covering, Dumped
  <2>3. CoversPage(file[s], row[s])
    BY <2>2 DEF Covering, FileCovers, Covers, CoversPage
  <2>4. file[s] \in Nat /\ row[s].rev \in Nat /\ archive.row[s].rev \in Nat
    BY DEF Files
  <2> QED BY <2>2, <2>3, <2>4 DEF CoversPage
<1>5. Dumped'
  BY <1>1, <1>2, <1>4 DEF Covering, Dumped
<1>6. FileCovers' /\ ArchiveCovers'
  BY <1>1, <1>2 DEF Covering, FileCovers, ArchiveCovers
<1> QED BY <1>3, <1>5, <1>6 DEF Covering

LEMMA CoveringTarEnd ==
  ASSUME CoverInv, NEW p \in Procs, TarEnd(p)
  PROVE  Covering'
<1> USE CoverFacts
<1>1. /\ pc[p] = "tar" /\ archive.state = "tar" /\ pc'[p] = "idle" /\ Only(p)
      /\ UNCHANGED <<row, file, lock, revs, torn>>
      /\ \A s \in Slugs : archive.tar[s] # NotYet
  BY Moves DEF TarEnd, Ended, vault
<1>2. /\ archive'.row = archive.row /\ archive'.torn = archive.torn /\ archive'.state = "end"
      /\ archive'.tar = archive.tar
  BY <1>1 DEF TarEnd, StepAfter, TypeInv, ArchiveOK
<1>3. Ordered' /\ Filled' /\ Unlinking' /\ Restoring'
  BY <1>1, <1>2 DEF Covering, Ordered, Filled, Unlinking, Restoring, Only, Holding
<1>4. Dumped'
  BY <1>1, <1>2 DEF Covering, Dumped, Only
<1>5. FileCovers' /\ ArchiveCovers'
  BY <1>1, <1>2 DEF Covering, FileCovers, ArchiveCovers, Dumped, Covers, CoversPage
<1> QED BY <1>3, <1>4, <1>5 DEF Covering

LEMMA CoveringBackupFail ==
  ASSUME Orderly, CoverInv, NEW p \in Procs, BackupFail(p)
  PROVE  Covering'
<1> USE CoverFacts
<1>1. /\ InBackup(p) /\ pc'[p] = "idle" /\ Only(p) /\ archive' = NoArchive
      /\ UNCHANGED <<row, file, lock, revs, torn>>
  BY Moves DEF BackupFail, Ended, vault, InBackup
<1>2. \A q \in Procs : ~InRestore(q)
  BY <1>1, Beside DEF Idle, InRestore, InBackup
<1>3. \A q \in Procs : ~InBackup(q)'
  BY <1>1 DEF TypeInv, OneBackup, InBackup, Only
<1>4. /\ archive'.state = "none" /\ \A s \in Slugs : archive'.tar[s] = NotYet
      /\ \A s \in Slugs : archive'.row[s] = NoRow
  BY <1>1, NoArchiveIsArchive
<1>5. Ordered' /\ Filled' /\ Unlinking'
  BY <1>1, <1>4, NoRowIsRow DEF Covering, Ordered, Filled, Unlinking, Only, Holding
<1>6. Restoring' /\ Dumped'
  BY <1>1, <1>2, <1>3, <1>4 DEF Restoring, Dumped, Only, InRestore, InBackup
<1>7. FileCovers' /\ ArchiveCovers'
  BY <1>1, <1>4 DEF Covering, FileCovers, ArchiveCovers
<1> QED BY <1>5, <1>6, <1>7 DEF Covering

LEMMA CoveringRestore ==
  ASSUME Orderly, CoverInv, NEW p \in Procs,
         RestoreRows(p) \/ Wipe(p) \/ Extract(p) \/ RestoreStop(p)
  PROVE  Covering'
<1> USE CoverFacts
<1>1. InRestore(p) /\ Only(p) /\ pc'[p] \in {"wipe", "extract", "idle"} /\ UNCHANGED archive
  BY Moves DEF RestoreRows, Wipe, Extract, RestoreStop, Moved, Ended, InRestore
<1>2. \A q \in Procs : q # p => pc[q] = "idle" /\ pc'[q] = "idle"
  BY <1>1, Beside DEF Idle, Only
<1>3. Filled' /\ Unlinking' /\ ArchiveCovers'
  BY <1>1, <1>2 DEF Covering, Filled, Unlinking, ArchiveCovers
<1>4. Dumped'
  BY <1>1, <1>2 DEF Covering, Dumped
<1>5. CASE RestoreRows(p)
  <2>1. /\ \A s \in Slugs : row'[s] \in {archive.row[s], NoRow}
        /\ torn' = TRUE /\ UNCHANGED <<file, lock, revs>> /\ pc'[p] = "wipe"
    BY <1>5, Moves DEF RestoreRows, Moved
  <2>2. Ordered'
    BY <1>1, <1>2, <2>1, NoRowIsRow DEF Covering, Ordered, Holding
  <2>3. Restoring' /\ FileCovers'
    BY <1>1, <1>2, <2>1 DEF Restoring, FileCovers
  <2> QED BY <1>3, <1>4, <2>2, <2>3 DEF Covering
<1>6. CASE Wipe(p)
  <2>1. /\ file' = [s \in Slugs |-> NoFile] /\ pc[p] = "wipe" /\ UNCHANGED <<row, lock, revs, torn>>
    BY <1>6 DEF Wipe
  <2>2. Ordered'
    BY <1>1, <1>2, <2>1 DEF Covering, Ordered, Holding
  <2>3. Restoring' /\ FileCovers'
    BY <1>1, <1>2, <2>1 DEF Covering, Restoring, FileCovers
  <2> QED BY <1>3, <1>4, <2>2, <2>3 DEF Covering
<1>7. CASE Extract(p)
  <2>1. /\ pc[p] = "extract" /\ pc'[p] = "idle" /\ UNCHANGED <<row, lock, revs>>
        /\ torn' = (archive.state # "end" \/ archive.torn)
        /\ file' = [s \in Slugs |-> IF archive.tar[s] \in {NoFile, NotYet}
                                    THEN file[s] ELSE archive.tar[s]]
    BY <1>7, Moves DEF Extract, Ended
  <2>2. Ordered' /\ Restoring'
    BY <1>1, <1>2, <2>1 DEF Covering, Ordered, Restoring, Holding
  <2>3. /\ \A s \in Slugs : row[s] \in {archive.row[s], NoRow} /\ file[s] = NoFile
        /\ archive.state = "end" => \A s \in Slugs : archive.tar[s] # NotYet
    BY <2>1 DEF Covering, Restoring, Dumped
  <2>4. FileCovers'
    BY <2>1, <2>3 DEF Covering, FileCovers, ArchiveCovers, Covers
  <2> QED BY <1>3, <1>4, <2>2, <2>4 DEF Covering
<1>8. CASE RestoreStop(p)
  <2>1. /\ torn' = TRUE /\ UNCHANGED <<file, lock, revs>> /\ pc'[p] = "idle"
        /\ \A s \in Slugs : row'[s] \in {row[s], NoRow}
    BY <1>8, Moves DEF RestoreStop, Ended
  <2>2. Ordered'
    BY <1>1, <1>2, <2>1, NoRowIsRow DEF Covering, Ordered, Holding
  <2>3. Restoring' /\ FileCovers'
    BY <1>2, <2>1 DEF Restoring, FileCovers
  <2> QED BY <1>3, <1>4, <2>2, <2>3 DEF Covering
<1> QED BY <1>5, <1>6, <1>7, <1>8

LEMMA CoverStep == Orderly /\ CoverInv /\ [Step]_vars => CoverInv'
<1> SUFFICES ASSUME Orderly, CoverInv, [Step]_vars PROVE CoverInv'
  OBVIOUS
<1>a. TypeInv /\ KeptApart /\ lock \in [Slugs -> Procs \cup {None}]
  BY CoverFacts DEF TypeInv, TypeOK
<1>b. TypeInv' /\ KeptApart'
  BY <1>a, TypeStep, KeptApartStep
<1>c. SUFFICES Covering'
  BY <1>b DEF CoverInv, Covering
<1>1. CASE VaultNext /\ UNCHANGED <<archive, torn>>
  <2>1. ASSUME NEW p \in Procs, NEW s \in Slugs, Look(p, s) PROVE Covering'
    BY <1>1, <1>a, <2>1, WriteJob, CoveringQuiet DEF Look, vault
  <2>2. ASSUME NEW p \in Procs, NEW s \in Slugs, NEW to \in {"canonical", "deprecated"}, Promote(p, s, to)
        PROVE Covering'
    BY <1>1, <1>a, <2>2, PromoteJob, CoveringQuiet DEF Promote, vault
  <2>3. ASSUME NEW p \in Procs, NEW s \in Slugs, DeleteRow(p, s) PROVE Covering'
    BY <1>1, <2>3, CoveringDelete
  <2>4. ASSUME NEW p \in Procs, WriteRow(p) \/ OpenFile(p) \/ FillFile(p) \/ Commit(p) \/ Unlink(p)
        PROVE Covering'
    BY <1>1, <2>4, CoveringWriteRow, CoveringOpen, CoveringFill, CoveringCommit, CoveringUnlink
  <2>5. ASSUME NEW p \in Procs, Abort(p) PROVE Covering'
    <3>1. \A s \in Slugs : lock'[s] \in {lock[s], None}
      BY <2>5 DEF Abort, Unlocked
    <3> QED BY <1>1, <1>a, <2>5, <3>1, Moves, CoveringQuiet DEF Abort, Ended
  <2>6. ASSUME NEW p \in Procs, Parse(p) PROVE Covering'
    <3>1. Only(p) /\ pc'[p] \in {"idle", "row"} /\ UNCHANGED <<row, file, revs, lock>>
      BY <1>a, <2>6, Moves DEF Parse, vault, Moved, Ended
    <3> QED BY <1>1, <3>1, CoveringQuiet
  <2> QED BY <1>1, <2>1, <2>2, <2>3, <2>4, <2>5, <2>6 DEF VaultNext
<1>2. ASSUME NEW p \in Procs, BackupBegin(p) PROVE Covering'
  <2>1. /\ pc'[p] = "dump" /\ Only(p) /\ UNCHANGED <<row, file, lock, revs, torn>>
        /\ archive.state = "none"
    BY <1>2, <1>a, BackupJob, NoArchiveIsArchive DEF BackupBegin, vault
  <2>2. /\ archive'.row = archive.row /\ archive'.torn = archive.torn /\ archive'.state = "dump"
        /\ archive'.tar = archive.tar
    BY <1>2, <1>a DEF BackupBegin, StepAfter, TypeInv, ArchiveOK
  <2>3. Ordered' /\ Filled' /\ Unlinking' /\ Restoring'
    BY <2>1, <2>2, CoverFacts DEF Covering, Ordered, Filled, Unlinking, Restoring, Only, Holding
  <2>4. Dumped' /\ FileCovers' /\ ArchiveCovers'
    BY <2>1, <2>2, CoverFacts DEF Covering, Dumped, FileCovers, ArchiveCovers, Only
  <2> QED BY <2>3, <2>4 DEF Covering
<1>3. ASSUME NEW p \in Procs,
             \/ Dump(p) \/ TarEnd(p) \/ BackupFail(p)
             \/ RestoreRows(p) \/ Wipe(p) \/ Extract(p) \/ RestoreStop(p)
             \/ \E s \in Slugs : TarFile(p, s)
      PROVE Covering'
  BY <1>3, CoveringDump, CoveringTarFile, CoveringTarEnd, CoveringBackupFail, CoveringRestore
<1>4. ASSUME NEW p \in Procs, BackupDie(p) PROVE Covering'
  <2>1. Only(p) /\ pc'[p] = "idle" /\ UNCHANGED <<row, file, revs, lock, archive, torn>>
    BY <1>a, <1>4, Moves DEF BackupDie, vault, Ended
  <2> QED BY <2>1, CoveringQuiet
<1>5. ASSUME NEW p \in Procs, NEW force \in BOOLEAN, Restore(p, force) PROVE Covering'
  <2>1. Only(p) /\ pc'[p] = "pg_restore" /\ UNCHANGED <<row, file, revs, lock, archive, torn>>
    BY <1>a, <1>5, RestoreJob DEF Restore, vault
  <2> QED BY <2>1, CoveringQuiet
<1>6. CASE UNCHANGED vars
  <2>1. UNCHANGED <<row, file, lock, revs, pc, job, archive, torn>>
    BY <1>6 DEF vars, vaultVars, vault
  <2>2. Ordered' /\ Filled' /\ Unlinking' /\ Restoring'
    BY <2>1, CoverFacts DEF Covering, Ordered, Filled, Unlinking, Restoring
  <2>3. Dumped' /\ FileCovers' /\ ArchiveCovers'
    BY <2>1, CoverFacts DEF Covering, Dumped, FileCovers, ArchiveCovers
  <2> QED BY <2>2, <2>3 DEF Covering
<1> QED BY <1>1, <1>2, <1>3, <1>4, <1>5, <1>6 DEF Step

(* The vault is never behind the database as long as no deletion overlaps a
   write of pages and nothing overlaps a restore: each committed page has a file
   that is not older, wherever writes, promotions, deletions and restores stop
   (wiki/vault.py:91-117, maintenance/delete.py, restore.py:107-124). *)
THEOREM FilesCover ==
  ASSUME Orderly
  PROVE  Spec => []FileCovers
<1>1. CoverInv => FileCovers
  BY DEF CoverInv
<1>2. CoverInv /\ [Next]_<<vars, quiet>> => CoverInv'
  BY CoverStep, Acts
<1> QED BY <1>1, <1>2, CoverInit, PTL DEF Spec

(* A finished backup of a whole corpus has, for each page of its dump, a file
   that is not older, whatever writes and promotions overlap dump and tar
   (backup.py:81-120). *)
THEOREM ArchivesCover ==
  ASSUME Orderly
  PROVE  Spec => []ArchiveCovers
<1>1. CoverInv => ArchiveCovers
  BY DEF CoverInv
<1>2. CoverInv /\ [Next]_<<vars, quiet>> => CoverInv'
  BY CoverStep, Acts
<1> QED BY <1>1, <1>2, CoverInit, PTL DEF Spec

-----------------------------------------------------------------------------
(* What a restore returns.                                                 *)

(* In a restore nothing else happens. *)
LEMMA RestoreSole ==
  ASSUME Orderly, CoverInv, Step, NEW p \in Procs, InRestore(p)
  PROVE  RestoreRows(p) \/ Wipe(p) \/ Extract(p) \/ RestoreStop(p)
<1> USE CoverFacts
<1>1. \A q \in Procs : q # p => pc[q] = "idle"
  BY Beside DEF Idle
<1>2. \A q \in Procs, cmd \in Commands : ~May(q, cmd)
  BY MayBeside
<1>3. {"write", "promote", "delete", "backup", "restore"} = Commands
  BY DEF Commands
<1>4. ASSUME NEW q \in Procs, NEW s \in Slugs,
             \/ Look(q, s) \/ DeleteRow(q, s)
             \/ \E to \in {"canonical", "deprecated"} : Promote(q, s, to)
      PROVE FALSE
  BY <1>2, <1>3, <1>4 DEF Look, DeleteRow, Promote
<1>5. ASSUME NEW q \in Procs,
             \/ WriteRow(q) \/ OpenFile(q) \/ FillFile(q) \/ Commit(q) \/ Abort(q) \/ Parse(q)
             \/ Unlink(q) \/ Dump(q) \/ TarEnd(q) \/ BackupFail(q) \/ BackupDie(q)
      PROVE FALSE
  BY <1>1, <1>5, Moves DEF WriteRow, Revising, Holding, InRestore
<1>6. ASSUME NEW q \in Procs, NEW s \in Slugs, TarFile(q, s) PROVE FALSE
  BY <1>1, <1>6 DEF TarFile, InRestore
<1>7. ASSUME NEW q \in Procs, BackupBegin(q) \/ \E force \in BOOLEAN : Restore(q, force)
      PROVE FALSE
  BY <1>2, <1>3, <1>7 DEF BackupBegin, Restore
<1>8. ASSUME NEW q \in Procs, RestoreRows(q) \/ Wipe(q) \/ Extract(q) \/ RestoreStop(q)
      PROVE q = p
  BY <1>1, <1>8, Moves
<1> QED BY <1>4, <1>5, <1>6, <1>7, <1>8 DEF Step, VaultNext

LEMMA ReturningStep ==
  ASSUME Orderly, CoverInv, Returning, [Step]_vars
  PROVE  Returning'
<1> USE CoverFacts
<1> SUFFICES ASSUME "errors" \notin Faults, NEW p \in Procs, pc'[p] \in {"wipe", "extract"}
             PROVE  row' = archive'.row /\ event' = archive'.event
  BY DEF Returning
<1>1. CASE UNCHANGED vars
  BY <1>1 DEF vars, vaultVars, vault, Returning
<1>2. CASE Step
  <2>1. InRestore(p)
    <3>1. ASSUME NEW q \in Procs, RestoreRows(q) \/ Wipe(q) PROVE InRestore(p)
      BY <3>1, Moves DEF Moved, Only, InRestore
    <3>2. ASSUME NEW q \in Procs, Only(q), pc'[q] \notin {"wipe", "extract"} PROVE InRestore(p)
      BY <3>2 DEF Only, InRestore
    <3>3. ASSUME NEW q \in Procs, NEW s \in Slugs,
                 \/ Look(q, s) \/ DeleteRow(q, s)
                 \/ \E to \in {"canonical", "deprecated"} : Promote(q, s, to)
          PROVE InRestore(p)
      BY <3>2, <3>3, WriteJob, DeleteJob, PromoteJob
    <3>4. ASSUME NEW q \in Procs, WriteRow(q) PROVE InRestore(p)
      <4>1. Only(q) /\ pc'[q] \notin {"wipe", "extract"}
        BY <3>4, WriteRowJob DEF Granted, Refused
      <4> QED BY <3>2, <4>1
    <3>5. ASSUME NEW q \in Procs,
                 \/ OpenFile(q) \/ FillFile(q) \/ Commit(q) \/ Abort(q) \/ Parse(q) \/ Unlink(q)
                 \/ Dump(q) \/ TarEnd(q) \/ BackupFail(q) \/ BackupDie(q)
                 \/ Extract(q) \/ RestoreStop(q)
          PROVE InRestore(p)
      <4>1. Only(q) /\ pc'[q] \notin {"wipe", "extract"}
        BY <3>5, Moves DEF Moved, Ended
      <4> QED BY <3>2, <4>1
    <3>6. ASSUME NEW q \in Procs, BackupBegin(q) \/ \E force \in BOOLEAN : Restore(q, force)
          PROVE InRestore(p)
      BY <3>2, <3>6, BackupJob, RestoreJob
    <3>7. ASSUME NEW q \in Procs, NEW s \in Slugs, TarFile(q, s) PROVE InRestore(p)
      BY <3>7, TarMove DEF InRestore
    <3> QED BY <1>2, <3>1, <3>3, <3>4, <3>5, <3>6, <3>7 DEF Step, VaultNext
  <2>2. RestoreRows(p) \/ Wipe(p) \/ Extract(p) \/ RestoreStop(p)
    BY <1>2, <2>1, RestoreSole
  <2>3. CASE RestoreRows(p)
    <3>1. row' = [s \in Slugs |-> archive.row[s]] /\ event' = archive.event /\ UNCHANGED archive
      BY <2>3 DEF RestoreRows
    <3> QED BY <3>1 DEF TypeInv, TypeOK
  <2>4. CASE Wipe(p)
    BY <2>4 DEF Wipe, Returning
  <2>5. CASE Extract(p) \/ RestoreStop(p)
    BY <2>5, Moves DEF Ended
  <2> QED BY <2>2, <2>3, <2>4, <2>5
<1> QED BY <1>1, <1>2

(* A restore that reports success, of a backup that was finished and was not
   made of a half restored corpus, leaves the rows of the dump and the files of
   the archive, and no others (restore.py:82-131); that no statement of
   pg_restore failed is needed, as it goes on after errors. *)
THEOREM RestoresReturn ==
  ASSUME Orderly, "errors" \notin Faults
  PROVE  Spec => RestoreReturns
<1> DEFINE Ends == \A p \in Procs :
                     pc[p] = "extract" /\ pc'[p] = "idle" /\ ~torn'
                     => /\ row' = archive.row /\ event' = archive.event
                        /\ file' = archive.tar
<1>1. Init => CoverInv /\ Returning
  <2>1. Init => Returning
    BY DEF Init, VaultInit, Returning
  <2> QED BY <2>1, CoverInit
<1>2. CoverInv /\ Returning /\ [Next]_<<vars, quiet>> => CoverInv' /\ Returning'
  BY CoverStep, ReturningStep, Acts
<1>3. CoverInv /\ Returning /\ [Step]_vars => [Ends]_vars
  <2> SUFFICES ASSUME CoverInv, Returning, Step, NEW p \in Procs,
                      pc[p] = "extract", pc'[p] = "idle", ~torn'
               PROVE  row' = archive.row /\ event' = archive.event /\ file' = archive.tar
    OBVIOUS
  <2> USE CoverFacts
  <2>1. Extract(p)
    <3>1. RestoreRows(p) \/ Wipe(p) \/ Extract(p) \/ RestoreStop(p)
      BY RestoreSole DEF InRestore
    <3> QED BY <3>1 DEF RestoreRows, Wipe, RestoreStop
  <2>2. row' = archive.row /\ event' = archive.event
    BY <2>1 DEF Extract, Returning
  <2>3. archive.state = "end"
    BY <2>1 DEF Extract
  <2>4. \A s \in Slugs : archive.tar[s] # NotYet /\ file[s] = NoFile
    BY <2>3 DEF Covering, Dumped, Restoring
  <2>5. file' = [s \in Slugs |-> archive.tar[s]]
    BY <2>1, <2>4 DEF Extract
  <2>6. archive.tar \in [Slugs -> Files \cup {NotYet}]
    BY DEF TypeInv, TypeOK
  <2> QED BY <2>2, <2>5, <2>6
<1>4. CoverInv /\ Returning /\ [Next]_<<vars, quiet>> => [Ends]_vars
  BY <1>3, Acts
<1> QED BY <1>1, <1>2, <1>4, PTL DEF Spec, RestoreReturns


-----------------------------------------------------------------------------
(* Promotions move the status that they read.                              *)

Promoting(p) == pc[p] \in Revising /\ job[p].cmd = "promote"

(* Beside a promotion no page is written and nothing is restored. *)
LEMMA BesidePromotion ==
  ASSUME PromotesAlone, TypeInv, KeptApart, NEW p \in Procs, NEW q \in Procs, p # q,
         Promoting(p)
  PROVE  pc[q] \notin Revising /\ ~InRestore(q)
<1>1. ~Idle(p) /\ ~Idle(q) => {job[p].cmd, job[q].cmd} \notin Apart
  BY DEF KeptApart
<1>2. /\ {"promote", "promote"} \in Apart /\ {"promote", "write"} \in Apart
      /\ {"promote", "restore"} \in Apart
  <2>1. {"promote", "promote"} = {"promote"}
    OBVIOUS
  <2> QED BY <2>1 DEF PromotesAlone
<1>3. JobOK(pc[q], job[q])
  BY JobHere
<1>4. pc[q] \in Revising => job[q].cmd \in {"write", "promote"} /\ ~Idle(q)
  BY <1>3 DEF Revising, Holding, JobOK, Idle
<1>5. InRestore(q) => job[q].cmd = "restore" /\ ~Idle(q)
  BY <1>3 DEF InRestore, JobOK, Idle
<1>6. ~Idle(p) /\ job[p].cmd = "promote"
  BY DEF Promoting, Revising, Holding, Idle
<1> QED BY <1>1, <1>2, <1>4, <1>5, <1>6

(* A row that becomes another row is committed or restored. *)
LEMMA RowChanged ==
  ASSUME TypeInv, Step, NEW s \in Slugs, row'[s] \notin {row[s], NoRow}
  PROVE  \E p \in Procs : (Commit(p) /\ job[p].slug = s) \/ pc[p] = "pg_restore"
<1>0. row' # row
  OBVIOUS
<1>1. ASSUME NEW p \in Procs, NEW c \in Slugs,
             \/ Look(p, c) \/ TarFile(p, c)
             \/ \E to \in {"canonical", "deprecated"} : Promote(p, c, to)
      PROVE FALSE
  BY <1>0, <1>1 DEF Look, Promote, TarFile, vaultVars, vault
<1>2. ASSUME NEW p \in Procs, NEW c \in Slugs, DeleteRow(p, c) PROVE FALSE
  BY <1>2 DEF DeleteRow, TypeInv, TypeOK
<1>3. ASSUME NEW p \in Procs,
             \/ WriteRow(p) \/ OpenFile(p) \/ FillFile(p) \/ Abort(p) \/ Parse(p) \/ Unlink(p)
             \/ BackupBegin(p) \/ Dump(p) \/ TarEnd(p) \/ BackupFail(p) \/ BackupDie(p)
             \/ Wipe(p) \/ Extract(p) \/ \E force \in BOOLEAN : Restore(p, force)
      PROVE FALSE
  BY <1>0, <1>3 DEF WriteRow, OpenFile, FillFile, Abort, Parse, Unlink, BackupBegin, Dump,
                    TarEnd, BackupFail, BackupDie, Wipe, Extract, Restore, vault
<1>4. ASSUME NEW p \in Procs, RestoreRows(p) PROVE pc[p] = "pg_restore"
  BY <1>4 DEF RestoreRows
<1>5. ASSUME NEW p \in Procs, RestoreStop(p) PROVE FALSE
  BY <1>0, <1>5 DEF RestoreStop
<1>6. ASSUME NEW p \in Procs, Commit(p) PROVE job[p].slug = s
  BY <1>6, CommitRow DEF TypeInv, TypeOK
<1> QED BY <1>1, <1>2, <1>3, <1>4, <1>5, <1>6 DEF Step, VaultNext

(* A promotion begins with what it reads, and goes on with the same job. *)
LEMMA PromotingBefore ==
  ASSUME TypeInv, Step, NEW p \in Procs, Promoting(p)'
  PROVE  \/ \E s \in Slugs, to \in {"canonical", "deprecated"} : Promote(p, s, to)
         \/ /\ Promoting(p) /\ job'[p].slug = job[p].slug /\ job'[p].id = job[p].id
            /\ job'[p].from = job[p].from /\ job'[p].status = job[p].status
<1> DEFINE Same == /\ Promoting(p) /\ job'[p].slug = job[p].slug /\ job'[p].id = job[p].id
                   /\ job'[p].from = job[p].from /\ job'[p].status = job[p].status
           Starting == \E s \in Slugs, to \in {"canonical", "deprecated"} : Promote(p, s, to)
<1> SUFFICES Starting \/ Same
  OBVIOUS
<1> HIDE DEF Starting
<1>a. pc'[p] \in Revising /\ job'[p].cmd = "promote"
  BY DEF Promoting
<1>b. ASSUME NEW q \in Procs, Only(q), q # p PROVE Same
  BY <1>a, <1>b DEF Only, Promoting
<1>c. ASSUME NEW q \in Procs, Only(q), pc'[q] \notin Revising PROVE Same
  BY <1>a, <1>b, <1>c
<1>1. ASSUME NEW q \in Procs, NEW s \in Slugs, NEW to \in {"canonical", "deprecated"},
             Promote(q, s, to)
      PROVE Starting \/ Same
  BY <1>1, <1>b, PromoteJob DEF Starting
<1>2. ASSUME NEW q \in Procs, NEW s \in Slugs, Look(q, s) \/ DeleteRow(q, s) PROVE Same
  BY <1>2, <1>a, <1>b, WriteJob, DeleteJob
<1>3. ASSUME NEW q \in Procs, WriteRow(q) PROVE Same
  <2>1. CASE Refused(q)
    BY <2>1, <1>c DEF Refused, Revising, Holding
  <2>2. CASE Granted(q)
    <3>1. job[q] \in Jobs /\ pc[q] = "row"
      BY <1>3, JobHere, WriteRowJob
    <3> QED BY <3>1, <2>2, <1>a, <1>b DEF Granted, Jobs, Promoting, Revising
  <2> QED BY <1>3, <2>1, <2>2, WriteRowJob
<1>4. ASSUME NEW q \in Procs, OpenFile(q) \/ FillFile(q) \/ Parse(q) PROVE Same
  <2>1. Ended(q) \/ (pc[q] \in Revising /\ job'[q] = job[q] /\ Only(q))
    BY <1>4, Moves DEF Moved, Revising, Holding
  <2> QED BY <2>1, <1>a, <1>b, <1>c DEF Ended, Promoting, Revising, Holding
<1>5. ASSUME NEW q \in Procs,
             \/ Commit(q) \/ Abort(q) \/ Unlink(q)
             \/ Dump(q) \/ TarEnd(q) \/ BackupFail(q) \/ BackupDie(q)
             \/ RestoreRows(q) \/ Wipe(q) \/ Extract(q) \/ RestoreStop(q)
      PROVE Same
  <2>1. Only(q) /\ pc'[q] \notin Revising
    BY <1>5, Moves DEF Moved, Ended, Revising, Holding
  <2> QED BY <2>1, <1>c
<1>6. ASSUME NEW q \in Procs, BackupBegin(q) \/ \E force \in BOOLEAN : Restore(q, force)
      PROVE Same
  <2>1. Only(q) /\ pc'[q] \notin Revising
    BY <1>6, BackupJob, RestoreJob DEF Revising, Holding
  <2> QED BY <2>1, <1>c
<1>7. ASSUME NEW q \in Procs, NEW s \in Slugs, TarFile(q, s) PROVE Same
  BY <1>7, <1>a, TarMove DEF Promoting
<1> QED BY <1>1, <1>2, <1>3, <1>4, <1>5, <1>6, <1>7 DEF Step, VaultNext

LEMMA UnmovedStep ==
  ASSUME PromotesAlone, MoveInv, [Step]_vars
  PROVE  Unmoved'
<1>0. TypeInv /\ KeptApart /\ Unmoved
  BY DEF MoveInv
<1>1. CASE UNCHANGED vars
  BY <1>0, <1>1 DEF vars, vaultVars, vault, Unmoved
<1>2. CASE Step
  <2> DEFINE Kept(p, r) == r = NoRow \/ (/\ r.id = job[p].id /\ r.rev = job[p].from
                                         /\ <<r.status, job[p].status>> \in Transitions)
  <2>0. Unmoved = \A p \in Procs : Promoting(p) => Kept(p, row[job[p].slug])
    BY DEF Unmoved, Promoting
  <2> SUFFICES ASSUME NEW p \in Procs, Promoting(p)'
               PROVE  \/ row'[job'[p].slug] = NoRow
                      \/ /\ row'[job'[p].slug].id = job'[p].id
                         /\ row'[job'[p].slug].rev = job'[p].from
                         /\ <<row'[job'[p].slug].status, job'[p].status>> \in Transitions
    BY DEF Unmoved, Promoting
  <2>1. CASE \E s \in Slugs, to \in {"canonical", "deprecated"} : Promote(p, s, to)
    <3>1. PICK s \in Slugs, to \in {"canonical", "deprecated"} : Promote(p, s, to)
      BY <2>1
    <3>2. /\ job'[p].slug = s /\ job'[p].id = row[s].id /\ job'[p].from = row[s].rev
          /\ job'[p].status = to
      BY <1>0, <3>1, PromoteJob
    <3>3. row' = row /\ <<row[s].status, to>> \in Transitions
      BY <3>1 DEF Promote, vault
    <3> QED BY <3>2, <3>3
  <2>2. CASE /\ Promoting(p) /\ job'[p].slug = job[p].slug /\ job'[p].id = job[p].id
             /\ job'[p].from = job[p].from /\ job'[p].status = job[p].status
    <3>1. job[p].slug \in Slugs
      BY <1>0, <2>2, JobHere DEF JobOK, Promoting
    <3>2. ASSUME NEW q \in Procs, Commit(q) PROVE FALSE
      <4>1. pc[q] \in Revising /\ pc'[q] = "idle"
        BY <1>0, <3>2, Moves DEF Ended, Revising, Holding
      <4>2. q = p
        BY <1>0, <2>2, <4>1, BesidePromotion
      <4> QED BY <4>1, <4>2 DEF Promoting, Revising, Holding
    <3>3. ASSUME NEW q \in Procs, pc[q] = "pg_restore" PROVE FALSE
      <4>1. q = p
        BY <1>0, <2>2, <3>3, BesidePromotion DEF InRestore
      <4> QED BY <2>2, <3>3, <4>1 DEF Promoting, Revising, Holding
    <3>4. row'[job[p].slug] \in {row[job[p].slug], NoRow}
      BY <1>0, <1>2, <3>1, <3>2, <3>3, RowChanged
    <3>5. Kept(p, row[job[p].slug])
      BY <1>0, <2>0, <2>2
    <3> QED BY <2>2, <3>4, <3>5
  <2> QED BY <1>0, <1>2, <2>1, <2>2, PromotingBefore
<1> QED BY <1>1, <1>2

LEMMA MoveStep ==
  ASSUME PromotesAlone, MoveInv, [Step]_vars
  PROVE  MoveInv'
  BY TypeStep, KeptApartStep, UnmovedStep DEF MoveInv

(* A page gets its status from a write of its kind, or from a promotion that
   read the status it moves from and is recorded with the revisions it left
   and made: promote (trace/promote.py) does not lock the row it has read, so
   promotions must not overlap each other, a write or a restore; a deletion
   may overlap them, for the write that follows finds no row. *)
THEOREM StatusesMove ==
  ASSUME PromotesAlone
  PROVE  Spec => StatusMoves
<1> DEFINE Move ==
       \A s \in Slugs :
       LET old == row[s] new == row'[s]
       IN /\ old # NoRow /\ new # NoRow /\ new.status # WrittenAs(s)
          /\ \A p \in Procs : pc[p] # "pg_restore"
          /\ new.status # old.status
          => /\ <<old.status, new.status>> \in Transitions
             /\ [id |-> old.id, from |-> old.rev, to |-> new.rev,
                 status |-> new.status] \in event'
<1>1. Init => MoveInv
  <2>1. Init => KeptApart /\ Unmoved
    BY DEF Init, VaultInit, KeptApart, Unmoved, Idle, Revising, Holding
  <2> QED BY <2>1, TypeInit DEF MoveInv
<1>2. MoveInv /\ [Next]_<<vars, quiet>> => MoveInv'
  BY MoveStep, Acts
<1>3. MoveInv /\ [Step]_vars => [Move]_vars
  <2> SUFFICES ASSUME MoveInv, Step, NEW s \in Slugs,
                      row[s] # NoRow, row'[s] # NoRow, row'[s].status # WrittenAs(s),
                      \A p \in Procs : pc[p] # "pg_restore",
                      row'[s].status # row[s].status
               PROVE  /\ <<row[s].status, row'[s].status>> \in Transitions
                      /\ [id |-> row[s].id, from |-> row[s].rev, to |-> row'[s].rev,
                          status |-> row'[s].status] \in event'
    OBVIOUS
  <2>0. TypeInv /\ KeptApart /\ Unmoved
    BY DEF MoveInv
  <2>1. PICK p \in Procs : Commit(p) /\ job[p].slug = s
    BY <2>0, RowChanged
  <2> DEFINE j == job[p]
  <2>2. /\ row'[s] = [id |-> IF j.id = 0 THEN j.rev ELSE j.id, rev |-> j.rev,
                      status |-> j.status]
    BY <2>0, <2>1, CommitRow DEF TypeInv, TypeOK
  <2>3. pc[p] = "commit" /\ JobOK("commit", j)
    BY <2>0, <2>1, Moves, JobHere
  <2>4. j.cmd = "promote"
    BY <2>1, <2>2, <2>3 DEF JobOK, Revising, Holding
  <2>5. row[s].id = j.id /\ row[s].rev = j.from /\ <<row[s].status, j.status>> \in Transitions
    BY <2>0, <2>1, <2>3, <2>4 DEF Unmoved, Revising, Holding
  <2>6. PromotionOf(p) \in event'
    BY <2>1, <2>4 DEF Commit
  <2> QED BY <2>2, <2>5, <2>6 DEF PromotionOf
<1>4. MoveInv /\ [Next]_<<vars, quiet>> => [Move]_vars
  BY <1>3, Acts
<1> QED BY <1>1, <1>2, <1>4, PTL DEF Spec, StatusMoves

-----------------------------------------------------------------------------
(* With nothing beside a backup a restore goes back to one moment.         *)

(* While tar reads, the corpus is what was dumped, and tar has read of it. *)
Still == \A p \in Procs : pc[p] = "tar" =>
  /\ archive.row = row /\ archive.event = event /\ archive.torn = torn
  /\ \A s \in Slugs : archive.tar[s] \in {NotYet, file[s]}

AtomicInv == CoverInv /\ Returning /\ (quiet => Calm /\ Still)

(* While tar reads nothing else happens. *)
LEMMA TarSole ==
  ASSUME CoverInv, Calm, Calm', Step, NEW p \in Procs, pc[p] = "tar"
  PROVE  (\E s \in Slugs : TarFile(p, s)) \/ TarEnd(p) \/ BackupFail(p) \/ BackupDie(p)
<1> USE CoverFacts
<1>1. job[p].cmd = "backup" /\ ~Idle(p)
  BY DEF JobOK, Idle, TypeInv, OneBackup
<1>2. \A q \in Procs : q # p => Idle(q)
  BY <1>1 DEF Calm
<1>3. ASSUME NEW q \in Procs, q # p, Only(q) PROVE pc'[q] = "idle"
  <2>1. pc'[p] = pc[p] /\ job'[p] = job[p]
    BY <1>3 DEF Only
  <2> QED BY <1>1, <1>3, <2>1 DEF Calm, Idle
<1>4. ASSUME NEW q \in Procs, NEW s \in Slugs,
             \/ Look(q, s) \/ DeleteRow(q, s)
             \/ \E to \in {"canonical", "deprecated"} : Promote(q, s, to)
      PROVE FALSE
  <2>1. Idle(q) /\ Only(q) /\ pc'[q] # "idle"
    BY <1>4, WriteJob, DeleteJob, PromoteJob DEF Look, DeleteRow, Promote, May
  <2> QED BY <1>1, <1>3, <2>1
<1>5. ASSUME NEW q \in Procs,
             \/ WriteRow(q) \/ OpenFile(q) \/ FillFile(q) \/ Commit(q) \/ Abort(q) \/ Parse(q)
             \/ Unlink(q) \/ Dump(q)
             \/ RestoreRows(q) \/ Wipe(q) \/ Extract(q) \/ RestoreStop(q)
      PROVE FALSE
  <2>1. pc[q] \in {"row", "dump", "unlink", "pg_restore", "wipe", "extract"} \cup Revising
    BY <1>5, Moves DEF WriteRow, Revising, Holding
  <2> QED BY <1>2, <2>1 DEF Idle, Revising, Holding
<1>6. ASSUME NEW q \in Procs, BackupBegin(q) \/ \E force \in BOOLEAN : Restore(q, force)
      PROVE FALSE
  <2>1. Idle(q) /\ Only(q) /\ pc'[q] # "idle"
    BY <1>6, BackupJob, RestoreJob DEF BackupBegin, Restore, May
  <2> QED BY <1>1, <1>3, <2>1
<1>7. ASSUME NEW q \in Procs,
             \/ TarEnd(q) \/ BackupFail(q) \/ BackupDie(q)
             \/ \E s \in Slugs : TarFile(q, s)
      PROVE q = p
  BY <1>2, <1>7 DEF TarEnd, BackupFail, BackupDie, TarFile, Idle
<1> QED BY <1>4, <1>5, <1>6, <1>7 DEF Step, VaultNext

(* A process that has come to tar was there, or has dumped. *)
LEMMA TarBefore ==
  ASSUME CoverInv, Step, NEW p \in Procs, pc'[p] = "tar"
  PROVE  pc[p] = "tar" \/ Dump(p)
<1> USE CoverFacts
<1>a. ASSUME NEW q \in Procs, Only(q), pc'[q] # "tar" PROVE pc[p] = "tar"
  BY <1>a DEF Only
<1>1. ASSUME NEW q \in Procs, NEW s \in Slugs,
             \/ Look(q, s) \/ DeleteRow(q, s)
             \/ \E to \in {"canonical", "deprecated"} : Promote(q, s, to)
      PROVE pc[p] = "tar"
  BY <1>a, <1>1, WriteJob, DeleteJob, PromoteJob
<1>2. ASSUME NEW q \in Procs, WriteRow(q) PROVE pc[p] = "tar"
  <2>1. Only(q) /\ pc'[q] # "tar"
    BY <1>2, WriteRowJob DEF Granted, Refused
  <2> QED BY <1>a, <2>1
<1>3. ASSUME NEW q \in Procs,
             \/ OpenFile(q) \/ FillFile(q) \/ Commit(q) \/ Abort(q) \/ Parse(q) \/ Unlink(q)
             \/ TarEnd(q) \/ BackupFail(q) \/ BackupDie(q)
             \/ RestoreRows(q) \/ Wipe(q) \/ Extract(q) \/ RestoreStop(q)
      PROVE pc[p] = "tar"
  <2>1. Only(q) /\ pc'[q] # "tar"
    BY <1>3, Moves DEF Moved, Ended
  <2> QED BY <1>a, <2>1
<1>4. ASSUME NEW q \in Procs, BackupBegin(q) \/ \E force \in BOOLEAN : Restore(q, force)
      PROVE pc[p] = "tar"
  BY <1>a, <1>4, BackupJob, RestoreJob
<1>5. ASSUME NEW q \in Procs, NEW s \in Slugs, TarFile(q, s) PROVE pc[p] = "tar"
  BY <1>5, TarMove
<1>6. ASSUME NEW q \in Procs, Dump(q) PROVE pc[p] = "tar" \/ Dump(p)
  BY <1>6, Moves DEF Moved, Only
<1> QED BY <1>1, <1>2, <1>3, <1>4, <1>5, <1>6 DEF Step, VaultNext

LEMMA StillStep ==
  ASSUME CoverInv, Calm, Calm', Still, [Step]_vars
  PROVE  Still'
<1> USE CoverFacts
<1>1. CASE UNCHANGED vars
  BY <1>1 DEF vars, vaultVars, vault, Still
<1>2. CASE Step
  <2> SUFFICES ASSUME NEW p \in Procs, pc'[p] = "tar"
               PROVE  /\ archive'.row = row' /\ archive'.event = event'
                      /\ archive'.torn = torn'
                      /\ \A s \in Slugs : archive'.tar[s] \in {NotYet, file'[s]}
    BY DEF Still
  <2>1. CASE Dump(p)
    <3>1. archive.state = "dump" /\ UNCHANGED <<row, event, file, torn>>
      BY <2>1, Moves DEF Dump, vault
    <3>2. /\ archive'.row = row /\ archive'.event = event /\ archive'.torn = torn
          /\ archive'.tar = archive.tar
      BY <2>1 DEF Dump, TypeInv, ArchiveOK
    <3>3. \A s \in Slugs : archive.tar[s] = NotYet
      BY <3>1 DEF Covering, Dumped
    <3> QED BY <3>1, <3>2, <3>3
  <2>2. CASE pc[p] = "tar"
    <3>1. PICK s \in Slugs : TarFile(p, s)
      <4>1. TarEnd(p) \/ BackupFail(p) \/ BackupDie(p) => pc'[p] = "idle"
        BY Moves DEF Ended
      <4> QED BY <1>2, <2>2, <4>1, TarSole
    <3>2. UNCHANGED <<row, event, file, torn>>
          /\ archive' = [archive EXCEPT !.tar[s] = file[s]]
      BY <3>1 DEF TarFile, vaultVars, vault
    <3>3. /\ archive'.row = archive.row /\ archive'.event = archive.event
          /\ archive'.torn = archive.torn
          /\ \A c \in Slugs : archive'.tar[c] = IF c = s THEN file[s] ELSE archive.tar[c]
      BY <3>2 DEF TypeInv, ArchiveOK
    <3> QED BY <2>2, <3>2, <3>3 DEF Still
  <2> QED BY <1>2, <2>1, <2>2, TarBefore
<1> QED BY <1>1, <1>2

InExtract(p) == pc[p] \in {"wipe", "extract"}

(* The mapped corpus: torn is one value, and differs from every other. *)
LEMMA CorpusFacts ==
  /\ \A r, e, f : Corpus(r, e, f, TRUE) = Half /\ Corpus(r, e, f, FALSE) # Half
  /\ \A r, e, f : Corpus(r, e, f, FALSE) =
                    [torn |-> FALSE, row |-> r, event |-> e, file |-> f]
BY DEF Corpus, Half

(* A step by which a process goes on or ends, outside of any restore, and that
   neither begins one nor finishes a backup, changes the corpus or nothing. *)
LEMMA OutsideRestore ==
  ASSUME TypeInv, \A p \in Procs : ~InRestore(p) /\ ~InRestore(p)',
         UNCHANGED <<Saved, torn>>
  PROVE  [Atomic!Next]_<<Present, Saved, RestoreRuns>>
<1>1. ~RestoreRuns /\ ~RestoreRuns' /\ RestoreRuns = FALSE /\ RestoreRuns' = FALSE
  BY DEF RestoreRuns, InRestore
<1>2. /\ Present = Corpus(row, event, file, torn)
      /\ Present' = Corpus(row', event', file', torn')
  BY DEF Present, InRestore
<1>3. torn' = torn /\ torn \in BOOLEAN
  BY DEF TypeInv, TypeOK
<1>4. CASE torn = TRUE
  BY <1>1, <1>2, <1>3, <1>4, CorpusFacts
<1>5. CASE torn = FALSE
  <2>1. Present # Half /\ Present' # Half
    BY <1>2, <1>3, <1>5, CorpusFacts
  <2>2. Atomic!Change
    BY <1>1, <2>1 DEF Atomic!Change
  <2> QED BY <2>2 DEF Atomic!Next
<1> QED BY <1>3, <1>4, <1>5

(* Each step outside of a restore. *)
LEMMA AtomicOutside ==
  ASSUME CoverInv, Still, Step, \A p \in Procs : ~InRestore(p)
  PROVE  [Atomic!Next]_<<Present, Saved, RestoreRuns>>
<1> USE CoverFacts
(* Nobody comes to restore with a step that does not. *)
<1>a. ASSUME NEW q \in Procs, Only(q),
             pc'[q] \notin {"pg_restore", "wipe", "extract"}
      PROVE \A p \in Procs : ~InRestore(p) /\ ~InRestore(p)'
  BY <1>a DEF Only, InRestore
<1>b. ASSUME UNCHANGED <<archive, torn>>, NEW q \in Procs, Only(q),
             pc'[q] \notin {"pg_restore", "wipe", "extract"}
      PROVE [Atomic!Next]_<<Present, Saved, RestoreRuns>>
  <2>1. UNCHANGED Saved
    BY <1>b DEF Saved, Archived
  <2> QED BY <1>a, <1>b, <2>1, OutsideRestore
<1>1. ASSUME NEW q \in Procs, NEW s \in Slugs, UNCHANGED <<archive, torn>>,
             \/ Look(q, s) \/ DeleteRow(q, s)
             \/ \E to \in {"canonical", "deprecated"} : Promote(q, s, to)
      PROVE [Atomic!Next]_<<Present, Saved, RestoreRuns>>
  BY <1>b, <1>1, WriteJob, DeleteJob, PromoteJob
<1>2. ASSUME NEW q \in Procs, WriteRow(q), UNCHANGED <<archive, torn>>
      PROVE [Atomic!Next]_<<Present, Saved, RestoreRuns>>
  <2>1. Only(q) /\ pc'[q] \notin {"pg_restore", "wipe", "extract"}
    BY <1>2, WriteRowJob DEF Granted, Refused
  <2> QED BY <1>b, <1>2, <2>1
<1>3. ASSUME NEW q \in Procs, UNCHANGED <<archive, torn>>,
             OpenFile(q) \/ FillFile(q) \/ Commit(q) \/ Abort(q) \/ Parse(q) \/ Unlink(q)
      PROVE [Atomic!Next]_<<Present, Saved, RestoreRuns>>
  <2>1. Only(q) /\ pc'[q] \notin {"pg_restore", "wipe", "extract"}
    BY <1>3, Moves DEF Moved, Ended
  <2> QED BY <1>b, <1>3, <2>1
(* A backup that is not finished saves nothing. *)
<1>4. ASSUME NEW q \in Procs,
             BackupBegin(q) \/ Dump(q) \/ BackupFail(q) \/ BackupDie(q)
      PROVE [Atomic!Next]_<<Present, Saved, RestoreRuns>>
  <2>1. Only(q) /\ pc'[q] \notin {"pg_restore", "wipe", "extract"}
    BY <1>4, Moves, BackupJob DEF Moved, Ended
  <2>2. archive.state # "end" /\ archive'.state # "end"
    <3>1. CASE BackupBegin(q)
      BY <3>1 DEF BackupBegin, NoArchive, StepAfter
    <3>2. CASE Dump(q)
      BY <3>2, Moves DEF Dump, StepAfter, TypeInv, ArchiveOK
    <3>3. CASE BackupFail(q) \/ BackupDie(q)
      BY <3>3, Moves DEF BackupFail, BackupDie, NoArchive, TypeInv, OneBackup
    <3> QED BY <1>4, <3>1, <3>2, <3>3
  <2>3. UNCHANGED <<row, event, file, torn>>
    BY <1>4 DEF BackupBegin, Dump, BackupFail, BackupDie, vault
  <2>4. UNCHANGED Saved
    BY <2>2 DEF Saved
  <2> QED BY <1>a, <2>1, <2>3, <2>4, OutsideRestore
<1>5. ASSUME NEW q \in Procs, NEW s \in Slugs, TarFile(q, s)
      PROVE [Atomic!Next]_<<Present, Saved, RestoreRuns>>
  <2>1. UNCHANGED <<pc, row, event, file, torn>> /\ archive.state = "tar"
        /\ archive' = [archive EXCEPT !.tar[s] = file[s]]
    BY <1>5, TarMove DEF TarFile, vaultVars, vault
  <2>2. archive'.state = "tar"
    BY <2>1 DEF TypeInv, ArchiveOK
  <2>3. UNCHANGED Saved
    BY <2>1, <2>2 DEF Saved
  <2>4. \A p \in Procs : ~InRestore(p) /\ ~InRestore(p)'
    BY <2>1 DEF InRestore
  <2> QED BY <2>1, <2>3, <2>4, OutsideRestore
(* The end of tar saves the present corpus. *)
<1>6. ASSUME NEW q \in Procs, TarEnd(q)
      PROVE [Atomic!Next]_<<Present, Saved, RestoreRuns>>
  <2>1. /\ pc[q] = "tar" /\ archive.state = "tar" /\ pc'[q] = "idle" /\ Only(q)
        /\ UNCHANGED <<row, event, file, torn>>
        /\ \A s \in Slugs : archive.tar[s] # NotYet
    BY <1>6, Moves DEF TarEnd, Ended, vault
  <2>2. archive' = [archive EXCEPT !.state = "end"]
    BY <1>6, <2>1 DEF TarEnd, StepAfter
  <2>3. /\ archive'.row = row /\ archive'.event = event /\ archive'.torn = torn
        /\ archive'.tar = archive.tar /\ archive'.state = "end"
    BY <2>1, <2>2 DEF TypeInv, ArchiveOK, Still
  <2>4. archive.tar = file
    <3>1. \A s \in Slugs : archive.tar[s] = file[s]
      BY <2>1 DEF Still
    <3>2. file \in [Slugs -> Files] /\ archive.tar \in [Slugs -> Files \cup {NotYet}]
      BY DEF TypeInv, TypeOK
    <3> QED BY <3>1, <3>2
  <2>5. \A p \in Procs : ~InRestore(p) /\ ~InRestore(p)'
    BY <1>a, <2>1
  <2>6. /\ RestoreRuns = FALSE /\ RestoreRuns' = FALSE
        /\ Present = Corpus(row, event, file, torn)
        /\ Present' = Corpus(row, event, file, torn)
    BY <2>1, <2>5 DEF RestoreRuns, Present, InRestore
  <2>7. Archived' = Corpus(row, event, file, torn \/ FALSE)
    BY <2>3, <2>4 DEF Archived
  <2>8. (torn \/ FALSE) = torn
    BY DEF TypeInv, TypeOK
  <2>9. Saved = {} /\ Saved' = {Present}
    BY <2>1, <2>3, <2>6, <2>7, <2>8 DEF Saved
  <2>10. Atomic!Save
    BY <2>6, <2>9 DEF Atomic!Save
  <2> QED BY <2>10 DEF Atomic!Next
<1>7. ASSUME NEW q \in Procs, NEW force \in BOOLEAN, Restore(q, force)
      PROVE [Atomic!Next]_<<Present, Saved, RestoreRuns>>
  <2>1. pc'[q] = "pg_restore" /\ Only(q) /\ UNCHANGED <<row, event, file, archive, torn>>
    BY <1>7, RestoreJob DEF Restore, vault
  <2>2. RestoreRuns = FALSE /\ RestoreRuns' = TRUE
    BY <2>1 DEF RestoreRuns, InRestore
  <2>3. \A p \in Procs : ~InExtract(p) /\ ~InExtract(p)'
    BY <2>1 DEF InExtract, InRestore, Only
  <2>4. UNCHANGED <<Present, Saved>>
    BY <2>1, <2>3 DEF Present, Saved, Archived, InExtract
  <2>5. Atomic!Begin
    BY <2>2, <2>4 DEF Atomic!Begin
  <2> QED BY <2>5 DEF Atomic!Next
<1>8. ASSUME NEW q \in Procs, RestoreRows(q) \/ Wipe(q) \/ Extract(q) \/ RestoreStop(q)
      PROVE FALSE
  BY <1>8, Moves DEF InRestore
<1> QED BY <1>1, <1>2, <1>3, <1>4, <1>5, <1>6, <1>7, <1>8 DEF Step, VaultNext

(* Each step of a restore: what it is about to extract belongs to the corpus as
   soon as the rows are in, and is in the vault when it ends. *)
LEMMA AtomicInside ==
  ASSUME Orderly, "errors" \notin Faults, CoverInv, Returning, Step, NEW p \in Procs, InRestore(p)
  PROVE  [Atomic!Next]_<<Present, Saved, RestoreRuns>>
<1> USE CoverFacts
<1>1. \A q \in Procs \ {p} : pc[q] = "idle"
  BY Beside DEF Idle
<1>2. RestoreRuns = TRUE
  BY DEF RestoreRuns, InRestore
<1>3. Present = IF InExtract(p) THEN Archived ELSE Corpus(row, event, file, torn)
  BY <1>1 DEF Present, InExtract
<1>4. ASSUME Only(p)
      PROVE  /\ pc'[p] \in {"wipe", "extract"} => Present' = Archived' /\ RestoreRuns' = TRUE
             /\ pc'[p] = "idle" => /\ Present' = Corpus(row', event', file', torn')
                                   /\ RestoreRuns' = FALSE
  <2>1. \A q \in Procs \ {p} : pc'[q] = "idle"
    BY <1>1, <1>4 DEF Only
  <2>2. ASSUME pc'[p] \in {"wipe", "extract"}
        PROVE  Present' = Archived' /\ RestoreRuns' = TRUE
    BY <2>2 DEF Present, RestoreRuns
  <2>3. ASSUME pc'[p] = "idle"
        PROVE  \A q \in Procs : pc'[q] = "idle"
    BY <2>1, <2>3
  <2>4. ASSUME pc'[p] = "idle"
        PROVE  /\ Present' = Corpus(row', event', file', torn')
               /\ RestoreRuns' = FALSE
    BY <2>3, <2>4 DEF Present, RestoreRuns
  <2> QED BY <2>2, <2>4
<1>5. /\ archive.state # "end" => Archived = Half /\ Saved = {}
      /\ archive.state = "end" => Saved = {Archived}
  <2>1. archive.torn \in BOOLEAN
    BY DEF TypeInv, TypeOK
  <2> QED BY <2>1, CorpusFacts DEF Archived, Saved
<1>6. CASE RestoreRows(p)
  <2>1. pc'[p] = "wipe" /\ Only(p) /\ UNCHANGED archive
    BY <1>6, Moves DEF RestoreRows, Moved
  <2>2. Present' = Archived /\ RestoreRuns' = TRUE /\ UNCHANGED Saved
    BY <1>4, <2>1 DEF InExtract, Archived, Saved
  <2>3. CASE archive.state = "end"
    <3>1. Atomic!Return
      BY <1>2, <1>5, <2>2, <2>3 DEF Atomic!Return
    <3> QED BY <3>1 DEF Atomic!Next
  <2>4. CASE archive.state # "end"
    <3>1. Atomic!Tear
      BY <1>2, <1>5, <2>2, <2>4 DEF Atomic!Tear
    <3> QED BY <3>1 DEF Atomic!Next
  <2> QED BY <2>3, <2>4
<1>7. CASE Wipe(p)
  <2>1. pc[p] = "wipe" /\ pc'[p] = "extract" /\ Only(p) /\ UNCHANGED archive
    BY <1>7, Moves DEF Wipe, Moved
  <2>2. Present' = Present /\ RestoreRuns' = TRUE /\ UNCHANGED Saved
    BY <1>3, <1>4, <2>1 DEF InExtract, Archived, Saved
  <2> QED BY <1>2, <2>2
<1>8. CASE Extract(p)
  <2>1. pc[p] = "extract" /\ pc'[p] = "idle" /\ Only(p) /\ UNCHANGED <<archive, row, event>>
    BY <1>8, Moves DEF Extract, Ended
  <2>2. torn' = (archive.state # "end" \/ archive.torn)
        /\ row = archive.row /\ event = archive.event
    BY <1>8, <2>1 DEF Extract, Returning
  <2>3. archive.state = "end" => file' = archive.tar
    <3> HAVE archive.state = "end"
    <3>1. \A s \in Slugs : archive.tar[s] # NotYet /\ file[s] = NoFile
      BY <2>1 DEF Covering, Dumped, Restoring
    <3>2. file' = [s \in Slugs |-> archive.tar[s]]
      BY <1>8, <3>1 DEF Extract
    <3>3. archive.tar \in [Slugs -> Files \cup {NotYet}]
      BY DEF TypeInv, TypeOK
    <3> QED BY <3>2, <3>3
  <2>4. /\ Present = Archived /\ RestoreRuns' = FALSE /\ UNCHANGED Saved
        /\ Present' = Corpus(row, event, file', torn')
    <3>1. Present = Archived
      BY <1>3, <2>1 DEF InExtract
    <3>2. Present' = Corpus(row', event', file', torn') /\ RestoreRuns' = FALSE
      BY <1>4, <2>1
    <3>3. UNCHANGED Saved
      BY <2>1 DEF Saved, Archived
    <3> QED BY <2>1, <3>1, <3>2, <3>3
  <2>5. Present' = Present
    <3>1. CASE archive.state # "end"
      BY <1>5, <2>2, <2>4, <3>1, CorpusFacts
    <3>2. CASE archive.state = "end"
      <4>1. torn' = (archive.torn \/ archive.state # "end")
        BY <2>2
      <4> QED BY <2>2, <2>3, <2>4, <3>2, <4>1 DEF Archived
    <3> QED BY <3>1, <3>2
  <2>6. Present \in Saved \cup {Half}
    BY <1>5, <2>4
  <2>7. Atomic!Finish
    BY <1>2, <2>4, <2>5, <2>6 DEF Atomic!Finish
  <2> QED BY <2>7 DEF Atomic!Next
<1>9. CASE RestoreStop(p)
  <2>1. pc'[p] = "idle" /\ Only(p) /\ UNCHANGED archive /\ torn' = TRUE
    BY <1>9, Moves DEF RestoreStop, Ended
  <2>2. Present' = Half /\ RestoreRuns' = FALSE /\ UNCHANGED Saved
    <3>1. Present' = Corpus(row', event', file', TRUE) /\ RestoreRuns' = FALSE
      BY <1>4, <2>1
    <3>2. UNCHANGED Saved
      BY <2>1 DEF Saved, Archived
    <3> QED BY <3>1, <3>2, CorpusFacts
  <2>3. Atomic!Tear
    BY <1>2, <2>2 DEF Atomic!Tear
  <2> QED BY <2>3 DEF Atomic!Next
<1> QED BY <1>6, <1>7, <1>8, <1>9, RestoreSole

(* Of an operator who runs nothing beside a backup, or beside a restore, and for
   a pg_restore that reads over no failed statement, backup and restore
   (backup.py:68-123, restore.py:43-145) implement AtomicBackup: what was saved is
   the corpus of one moment, though the dump and each file are read by steps of
   their own, and a restore goes back to that corpus as a whole or leaves one that
   is torn, wherever either is cut off. *)
THEOREM RestoreGoesBack ==
  ASSUME Orderly, "errors" \notin Faults
  PROVE  Spec => GoesBack
<1> DEFINE Mapped == quiet => Atomic!Next \/ UNCHANGED <<Present, Saved, RestoreRuns>>
<1>1. Init => AtomicInv
  <2>1. Init => Returning /\ Still /\ Calm
    BY DEF Init, VaultInit, Returning, Still, Calm, Idle
  <2> QED BY <2>1, CoverInit DEF AtomicInv
<1>2. AtomicInv /\ [Next]_<<vars, quiet>> => AtomicInv'
  <2> SUFFICES ASSUME AtomicInv, [Next]_<<vars, quiet>> PROVE AtomicInv'
    OBVIOUS
  <2>1. CoverInv' /\ Returning'
    BY Acts, CoverStep, ReturningStep DEF AtomicInv
  <2>2. quiet' = quiet /\ (quiet /\ Calm => Calm')
    BY DEF Next, Calm, Idle, vars, vaultVars
  <2>3. quiet => Still'
    BY <2>2, Acts, StillStep DEF AtomicInv
  <2> QED BY <2>1, <2>2, <2>3 DEF AtomicInv
<1>3. Init => (quiet => Atomic!Init)
  <2> SUFFICES ASSUME Init PROVE Atomic!Init
    OBVIOUS
  <2>1. \A p \in Procs : pc[p] = "idle"
    BY DEF Init, VaultInit
  <2>2. torn = FALSE /\ archive.state = "none"
    BY DEF Init, NoArchive
  <2>3. Present = Corpus(row, event, file, FALSE) /\ Saved = {} /\ RestoreRuns = FALSE
    BY <2>1, <2>2 DEF Present, Saved, RestoreRuns
  <2> QED BY <2>3, CorpusFacts DEF Atomic!Init
<1>4. AtomicInv /\ [Next]_<<vars, quiet>> => [Mapped]_<<vars, quiet>>
  <2> SUFFICES ASSUME AtomicInv, Next, quiet
               PROVE  [Atomic!Next]_<<Present, Saved, RestoreRuns>>
    OBVIOUS
  <2>1. CoverInv /\ Returning /\ Still /\ Step
    BY DEF AtomicInv, Next
  <2> QED BY <2>1, AtomicInside, AtomicOutside
<1> QED BY <1>1, <1>2, <1>3, <1>4, PTL DEF Spec, GoesBack
=============================================================================
