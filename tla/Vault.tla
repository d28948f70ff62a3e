------------------------------- MODULE Vault -------------------------------
(***************************************************************************)
(* A page as a row of wiki_pages and as a markdown file.                   *)
(*                                                                         *)
(* write_page (wiki/vault.py) changes the row, writes the file and inserts *)
(* the revision in one transaction: the file is there before the commit,   *)
(* and stays when there is none.  The row's lock orders the writers of a   *)
(* page.  promote (trace/promote.py) reads the row and then the file, and  *)
(* writes the page with the next status; source deletion                   *)
(* (maintenance/delete.py) removes the row, commits, and unlinks the file. *)
(*                                                                         *)
(* A page is its slug and a text is the number of the revision it was      *)
(* written for.  write_text truncates the file before it fills it.         *)
(***************************************************************************)
EXTENDS Naturals, FiniteSets

CONSTANTS
  Sources,    \* slugs of source pages, written as canonical
  Concepts,   \* slugs of synthesized pages, written as draft
  Procs,
  Apart,      \* the pairs of commands that do not overlap, {c} for two of one kind
  MaxRevs,    \* bound: revisions
  Faults      \* "stop": a transaction rolls back or a process dies;
              \* "errors": pg_restore goes on after a statement that failed

Slugs == Sources \cup Concepts
None == "none"
Commands == {"write", "promote", "delete", "backup", "restore"}

ASSUME VaultAssumption ==
  /\ Apart \subseteq SUBSET Commands
  /\ MaxRevs \in Nat /\ Faults \subseteq {"stop", "errors"}
  /\ IsFiniteSet(Procs) /\ None \notin Procs /\ Sources \cap Concepts = {}

VARIABLES
  row,     \* row[s]: id, current revision and status, or NoRow
  event,   \* promotion_events
  file,    \* file[s]: the revision whose text it holds, Empty or NoFile
  lock,    \* lock[s]: the process whose open transaction changed the row
  revs,    \* number of revisions begun
  pc, job  \* per process

vault == <<row, event, file, lock, revs>>
vaultVars == <<vault, pc, job>>

NoFile == 0
Empty == MaxRevs + 1  \* opened for writing, nothing written
NoRow == [id |-> 0, rev |-> 0, status |-> None]
NoJob == [cmd |-> None, slug |-> None, id |-> 0, from |-> 0, rev |-> 0, status |-> None]

VaultInit ==
  /\ row = [s \in Slugs |-> NoRow] /\ event = {}
  /\ file = [s \in Slugs |-> NoFile]
  /\ lock = [s \in Slugs |-> None] /\ revs = 0
  /\ pc = [p \in Procs |-> "idle"] /\ job = [p \in Procs |-> NoJob]

Idle(p) == pc[p] = "idle"
Exists(s) == row[s] # NoRow
Budget == revs + Cardinality({p \in Procs : ~Idle(p)}) < MaxRevs
May(p, cmd) ==
  /\ Idle(p)
  /\ \A q \in Procs : ~Idle(q) => {cmd, job[q].cmd} \notin Apart

Goto(p, step) == pc' = [pc EXCEPT ![p] = step]
Begin(p, step, j) == Goto(p, step) /\ job' = [job EXCEPT ![p] = j]
Return(p) == Goto(p, "idle") /\ job' = [job EXCEPT ![p] = NoJob]
Unlocked(p) == [s \in Slugs |-> IF lock[s] = p THEN None ELSE lock[s]]

-----------------------------------------------------------------------------
(* write_page, for a source page and for a synthesized one.                *)

WrittenAs(s) == IF s \in Sources THEN "canonical" ELSE "draft"

Look(p, s) ==
  /\ May(p, "write") /\ Budget
  /\ Begin(p, "row", [NoJob EXCEPT !.cmd = "write", !.slug = s,
                                   !.id = row[s].id, !.status = WrittenAs(s)])
  /\ UNCHANGED vault

(* The insert of a slug that has been taken fails.  The update of a row that
   is gone changes nothing, and fails once the file is written. *)
WriteRow(p) ==
  LET s == job[p].slug
  IN /\ pc[p] = "row" /\ lock[s] = None
     /\ revs' = revs + 1
     /\ IF row[s].id = job[p].id
        THEN /\ lock' = [lock EXCEPT ![s] = p]
             /\ Begin(p, "open", [job[p] EXCEPT !.rev = revs'])
             /\ UNCHANGED file
        ELSE /\ Return(p)
             /\ file' = IF job[p].id = 0 THEN file ELSE [file EXCEPT ![s] = revs']
             /\ UNCHANGED lock
     /\ UNCHANGED <<row, event>>

OpenFile(p) ==
  /\ pc[p] = "open"
  /\ file' = [file EXCEPT ![job[p].slug] = Empty]
  /\ Goto(p, "fill")
  /\ UNCHANGED <<row, event, lock, revs, job>>

FillFile(p) ==
  /\ pc[p] = "fill"
  /\ file' = [file EXCEPT ![job[p].slug] = job[p].rev]
  /\ Goto(p, "commit")
  /\ UNCHANGED <<row, event, lock, revs, job>>

(* Mutant of PromotionOf: the revision read back after the write. *)
PromotionOfUpdated(p) ==
  [id |-> job[p].id, from |-> job[p].rev, to |-> job[p].rev, status |-> job[p].status]
PromotionOf(p) ==
  [id |-> job[p].id, from |-> job[p].from, to |-> job[p].rev, status |-> job[p].status]

Commit(p) ==
  LET j == job[p]
  IN /\ pc[p] = "commit"
     /\ row' = [row EXCEPT ![j.slug] =
          [id |-> IF j.id = 0 THEN j.rev ELSE j.id, rev |-> j.rev, status |-> j.status]]
     /\ event' = IF j.cmd = "promote" THEN event \cup {PromotionOf(p)} ELSE event
     /\ lock' = Unlocked(p)
     /\ Return(p)
     /\ UNCHANGED <<file, revs>>

(* Mutant of Abort: what was written is cleaned up. *)
AbortUnlinks(p) ==
  /\ "stop" \in Faults /\ pc[p] \in {"parse", "row", "open", "fill", "commit"}
  /\ file' = IF pc[p] \in {"fill", "commit"}
             THEN [file EXCEPT ![job[p].slug] = NoFile] ELSE file
  /\ lock' = Unlocked(p) /\ Return(p)
  /\ UNCHANGED <<row, event, revs>>
Abort(p) ==
  /\ "stop" \in Faults /\ pc[p] \in {"parse", "row", "open", "fill", "commit"}
  /\ lock' = Unlocked(p) /\ Return(p)
  /\ UNCHANGED <<row, event, file, revs>>

-----------------------------------------------------------------------------
(* promote and delete.                                                     *)

Transitions == {<<"draft", "canonical">>, <<"canonical", "deprecated">>}

Promote(p, s, to) ==
  /\ May(p, "promote") /\ Budget
  /\ Exists(s) /\ <<row[s].status, to>> \in Transitions
  /\ Begin(p, "parse", [NoJob EXCEPT !.cmd = "promote", !.slug = s, !.id = row[s].id,
                                     !.from = row[s].rev, !.status = to])
  /\ UNCHANGED vault

(* A file that is missing or has no front matter is an error. *)
Parse(p) ==
  /\ pc[p] = "parse"
  /\ IF file[job[p].slug] \in {NoFile, Empty} THEN Return(p)
     ELSE Goto(p, "row") /\ UNCHANGED job
  /\ UNCHANGED vault

DeleteRow(p, s) ==
  /\ May(p, "delete") /\ s \in Sources /\ Exists(s) /\ lock[s] = None
  /\ row' = [row EXCEPT ![s] = NoRow]
  /\ event' = {e \in event : e.id # row[s].id}
  /\ Begin(p, "unlink", [NoJob EXCEPT !.cmd = "delete", !.slug = s])
  /\ UNCHANGED <<file, lock, revs>>

Unlink(p) ==
  /\ pc[p] = "unlink"
  /\ \/ file' = [file EXCEPT ![job[p].slug] = NoFile]
     \/ "stop" \in Faults /\ UNCHANGED file
  /\ Return(p)
  /\ UNCHANGED <<row, event, lock, revs>>

VaultNext ==
  \E p \in Procs :
    \/ \E s \in Slugs :
         \/ Look(p, s)
         \/ \E to \in {"canonical", "deprecated"} : Promote(p, s, to)
         \/ DeleteRow(p, s)
    \/ WriteRow(p)
    \/ OpenFile(p)
    \/ FillFile(p)
    \/ Commit(p)
    \/ Abort(p)
    \/ Parse(p)
    \/ Unlink(p)
=============================================================================
