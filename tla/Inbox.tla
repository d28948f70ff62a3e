------------------------------- MODULE Inbox -------------------------------
(***************************************************************************)
(* The inbox processor and the identity of what it ingests.                *)
(*                                                                         *)
(* Files are dropped under <inbox>/<kind>/.  Each watcher fire runs a      *)
(* processor that lists them, ingests each (ingest/pipeline.py) and moves  *)
(* it to processed/ or failed/ by the result (inbox/process.py).  Ingest   *)
(* knows a source by the hash of its bytes, then by its document path.     *)
(*                                                                         *)
(* A hash is the content itself; one kind of source and one dated          *)
(* directory stand for all.  What an ingest does to chunks, pages and the  *)
(* sync queue is IndexSync's; here a source has a text or has none.        *)
(***************************************************************************)
EXTENDS Naturals

CONSTANTS
  Files,       \* file names
  Contents,    \* what a dropped file can hold
  Bad,         \* the contents that cannot be parsed or fail inspection
  Ids,         \* source ids
  Procs,       \* inbox processors
  MaxDrops,    \* bound: files dropped
  Alone,       \* TRUE: a processor starts only when no other one runs
  Faults       \* "crash" of a processor, "db" (PostgreSQL fails), "replace" (a
               \* file is dropped over one that is still there)

None == "none"

ASSUME InboxAssumption ==
  /\ Bad \subseteq Contents /\ None \notin Contents \cup Files \cup Ids
  /\ MaxDrops \in Nat
  /\ Alone \in BOOLEAN
  /\ Faults \subseteq {"crash", "db", "replace"}

VARIABLES
  inbox,      \* inbox[f]: the content waiting under name f, or None
  processed,  \* processed[f]: the content last moved to processed/
  failed,     \* failed[f]: the content last moved to failed/
  source,     \* source[i]: hash, document path and text of a source, or NoSource
  drops,      \* number of files dropped
  pc, todo,   \* per processor: step, and the files it has listed and not taken
  job         \* per processor: file in hand, its hash, its text, the source at
              \* its path, the result

vars == <<inbox, processed, failed, source, drops, pc, todo, job>>
files == <<inbox, processed, failed>>

NoSource == [hash |-> None, path |-> None, text |-> None]
NoJob == [file |-> None, hash |-> None, text |-> None, prior |-> None, result |-> None]

Stored == {i \in Ids : source[i] # NoSource}
Known(c) == \E i \in Stored : source[i].hash = c
At(f) == {i \in Stored : source[i].path = f}

Init ==
  /\ inbox = [f \in Files |-> None]
  /\ processed = [f \in Files |-> None]
  /\ failed = [f \in Files |-> None]
  /\ source = [i \in Ids |-> NoSource]
  /\ drops = 0
  /\ pc = [p \in Procs |-> "idle"]
  /\ todo = [p \in Procs |-> {}]
  /\ job = [p \in Procs |-> NoJob]

Goto(p, step) == pc' = [pc EXCEPT ![p] = step]
Set(p, field, value) == job' = [job EXCEPT ![p][field] = value]
Done(p) == job' = [job EXCEPT ![p] = NoJob]
Return(p, result) == Set(p, "result", result) /\ Goto(p, "route")

(* The operator saves a finished file; a name that is free, or its successor. *)
Drop(f) ==
  /\ drops < MaxDrops
  /\ inbox[f] = None \/ "replace" \in Faults
  /\ \E c \in Contents : inbox' = [inbox EXCEPT ![f] = c]
  /\ drops' = drops + 1
  /\ UNCHANGED <<processed, failed, source, pc, todo, job>>

-----------------------------------------------------------------------------
(* A processor.                                                            *)

Scan(p) ==
  /\ pc[p] = "idle"
  /\ Alone => \A q \in Procs : pc[q] = "idle"
  /\ \E f \in Files : inbox[f] # None
  /\ todo' = [todo EXCEPT ![p] = {f \in Files : inbox[f] # None}]
  /\ Goto(p, "next")
  /\ UNCHANGED <<files, source, drops, job>>

(* A listed name that is no file any more is passed over. *)
NextFile(p) ==
  /\ pc[p] = "next"
  /\ \E f \in todo[p] :
       /\ todo' = [todo EXCEPT ![p] = @ \ {f}]
       /\ IF inbox[f] = None THEN UNCHANGED <<pc, job>>
          ELSE Set(p, "file", f) /\ Goto(p, "read")
  /\ UNCHANGED <<files, source, drops>>

(* ingest: no such file, or its bytes. *)
Read(p) ==
  LET c == inbox[job[p].file]
  IN /\ pc[p] = "read"
     /\ IF c = None THEN Return(p, "failed")
        ELSE Set(p, "hash", c) /\ Goto(p, "check")
     /\ UNCHANGED <<files, source, drops, todo>>

(* Mutant of Check: only the hash is looked up. *)
CheckHashOnly(p) ==
  /\ pc[p] = "check"
  /\ IF Known(job[p].hash) THEN Return(p, "unchanged") ELSE Goto(p, "parse") /\ UNCHANGED job
  /\ UNCHANGED <<files, source, drops, todo>>

(* A hash that is present, whatever became of its source, is unchanged;
   otherwise a source with this document path is the one to update. *)
Check(p) ==
  /\ pc[p] = "check"
  /\ IF Known(job[p].hash) THEN Return(p, "unchanged")
     ELSE /\ IF At(job[p].file) = {} THEN UNCHANGED job
             ELSE \E i \in At(job[p].file) : Set(p, "prior", i)
          /\ Goto(p, "parse")
  /\ UNCHANGED <<files, source, drops, todo>>

(* parse_source opens the path again; a missing file is a parse error. *)
Parse(p) ==
  LET c == inbox[job[p].file]
  IN /\ pc[p] = "parse"
     /\ Set(p, "text", IF c \in Bad THEN None ELSE c)
     /\ Goto(p, "store")
     /\ UNCHANGED <<files, source, drops, todo>>

(* _store: an update replaces the hash, the document and the chunks. *)
Stores(p, i) ==
  source' = [source EXCEPT ![i] =
    [hash |-> job[p].hash, path |-> job[p].file, text |-> job[p].text]]

(* The source is updated under its id, or inserted; a hash that has come into
   being since violates its key, and what raises is a failed result. *)
Store(p) ==
  /\ pc[p] = "store"
  /\ LET taken == \E i \in Stored \ {job[p].prior} : source[i].hash = job[p].hash
     IN IF taken THEN Return(p, "failed") /\ UNCHANGED source
        ELSE /\ \/ job[p].prior # None /\ Stores(p, job[p].prior)
                \/ job[p].prior = None /\ \E i \in Ids \ Stored : Stores(p, i)
             /\ Return(p, IF job[p].text = None THEN "failed"
                          ELSE IF job[p].prior = None THEN "ingested" ELSE "updated")
  /\ UNCHANGED <<files, drops, todo>>

(* _safe_ingest_one: every exception is a failed result. *)
Raise(p) ==
  /\ "db" \in Faults
  /\ pc[p] \in {"check", "store"}
  /\ Return(p, "failed")
  /\ UNCHANGED <<files, source, drops, todo>>

(* Mutant of Succeeded: a failed result goes with the rest. *)
AnyResult(result) == TRUE
Succeeded(result) == result # "failed"

(* _route: the rename takes what is there under the name, and overwrites what
   the dated directory holds under it; a file that is gone is a lost race. *)
Route(p) ==
  LET f == job[p].file
  IN /\ pc[p] = "route"
     /\ inbox' = [inbox EXCEPT ![f] = None]
     /\ IF inbox[f] = None THEN UNCHANGED <<processed, failed>>
        ELSE IF Succeeded(job[p].result)
        THEN processed' = [processed EXCEPT ![f] = inbox[f]] /\ UNCHANGED failed
        ELSE failed' = [failed EXCEPT ![f] = inbox[f]] /\ UNCHANGED processed
     /\ Done(p)
     /\ Goto(p, "next")
     /\ UNCHANGED <<source, drops, todo>>

Finish(p) ==
  /\ pc[p] = "next" /\ todo[p] = {}
  /\ Goto(p, "idle")
  /\ UNCHANGED <<files, source, drops, todo, job>>

Crash(p) ==
  /\ "crash" \in Faults
  /\ pc[p] # "idle"
  /\ Goto(p, "idle")
  /\ todo' = [todo EXCEPT ![p] = {}]
  /\ Done(p)
  /\ UNCHANGED <<files, source, drops>>

Processor(p) ==
  \/ Scan(p) \/ NextFile(p) \/ Read(p) \/ Check(p) \/ Parse(p) \/ Store(p)
  \/ Raise(p) \/ Route(p) \/ Finish(p) \/ Crash(p)

Next == (\E f \in Files : Drop(f)) \/ (\E p \in Procs : Processor(p))

Spec == Init /\ [][Next]_vars

-----------------------------------------------------------------------------
(* Properties.                                                             *)

Sources == [hash : Contents, path : Files, text : Contents \cup {None}] \cup {NoSource}
Results == {None, "ingested", "updated", "unchanged", "failed"}
Jobs == [file : Files \cup {None}, hash : Contents \cup {None}, text : Contents \cup {None},
         prior : Ids \cup {None}, result : Results]

(* Every variable keeps its shape; a processor has a file in hand from its
   choice to its move. *)
TypeOK ==
  /\ inbox \in [Files -> Contents \cup {None}]
  /\ processed \in [Files -> Contents \cup {None}]
  /\ failed \in [Files -> Contents \cup {None}]
  /\ source \in [Ids -> Sources]
  /\ drops \in 0..MaxDrops
  /\ pc \in [Procs -> {"idle", "next", "read", "check", "parse", "store", "route"}]
  /\ todo \in [Procs -> SUBSET Files]
  /\ job \in [Procs -> Jobs]
  /\ \A p \in Procs : job[p].file = None <=> pc[p] \in {"idle", "next"}

(* What goes to processed/ was read: the corpus has its hash at that moment,
   also when the database failed or a processor died on it before. *)
ProcessedIsKnown ==
  [][\A f \in Files : processed'[f] # processed[f] => Known(processed'[f])]_vars

(* A source whose bytes can be parsed has their text, and no other: what was
   hashed is what was parsed, and a good source never loses its chunks.  And
   there is one source at a path ("Updates in place when a source already
   exists at this document path", pipeline.py:173-174): a revert, a repeat under
   another name and a processor that died make no second. *)
CorpusSound ==
  /\ \A i \in Stored :
       source[i].text = IF source[i].hash \in Bad THEN None ELSE source[i].hash
  /\ \A i, j \in Stored : source[i].path = source[j].path => i = j

=============================================================================
