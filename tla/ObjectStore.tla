---------------------------- MODULE ObjectStore ----------------------------
(***************************************************************************)
(* The agent object store and its one-way promotion into the corpus.       *)
(*                                                                         *)
(* An object is a row of agent_objects (objects.py).  promote reads it,    *)
(* runs its body through ingest, writes the source's page once more and    *)
(* puts the object back with the source's id in its metadata.  The ingest  *)
(* is one transaction: the source, its chunks, and its page, whose slug is *)
(* chosen from the slugs that are committed before the page is inserted    *)
(* (ingest/pipeline.py, wiki/source_page.py).  Each of the others is a     *)
(* transaction of its own, and other agents run in between.  So does the   *)
(* ingest of a file of the same corpus, which replaces the source at its   *)
(* path, and whose source a promotion of the same bytes finds.             *)
(*                                                                         *)
(* A body is its own hash.  All titles are alike, so all source pages want *)
(* one slug: slug 1 is the plain one, n the one that ends in -n.  The file *)
(* is not a note, so hash and kind, which are a source's key together, set *)
(* its source apart from the promoted ones.  The sync runs that promote    *)
(* triggers are IndexSync's.                                               *)
(***************************************************************************)
EXTENDS Naturals, FiniteSets

CONSTANTS
  Keys,        \* (collection, key) pairs
  Shared,      \* the keys on which several agents may work at the same time
  Bodies,      \* what an object can hold
  Bad,         \* the bodies ingest finds no text in
  Agents,
  Ids,         \* source ids, never used twice
  MaxSlug,     \* bound: slugs 1..MaxSlug
  MaxWrites,   \* bound: puts and deletes of one key
  MaxRuns,     \* bound: promotions
  Faults       \* "stop" (a process dies or a store fails), "delete" (source
               \* deletion, maintenance/delete.py), "file" (a file is ingested)

None == "none"

ASSUME ObjectStoreAssumption ==
  /\ Shared \subseteq Keys /\ Bad \subseteq Bodies
  /\ None \notin Keys \cup Bodies \cup Ids
  /\ MaxSlug \in Nat /\ MaxWrites \in Nat /\ MaxRuns \in Nat
  /\ Faults \subseteq {"stop", "delete", "file"}

Slugs == 1..MaxSlug

VARIABLES
  object,   \* object[k]: body and promoted_to_source, or NoObject
  writes,   \* writes[k]: puts and deletes by an agent
  source,   \* source[i]: the bytes source i has, or None (unused)
  was,      \* history: was[i], the bytes it has or had
  live,     \* the sources that are in the corpus
  file,     \* the source at the file's path, or None
  page,     \* page[n]: the source whose page has slug n, or None
  runs,     \* number of promotions begun
  pc, job   \* per agent: step, and the promotion in hand

vars == <<object, writes, source, was, live, file, page, runs, pc, job>>
objects == <<object, writes>>
sources == <<source, was, live, file>>
corpus == <<sources, page>>

NoObject == [body |-> None, promoted |-> None]
NoJob == [key |-> None, body |-> None, source |-> None, slug |-> 0]

Init ==
  /\ object = [k \in Keys |-> NoObject]
  /\ writes = [k \in Keys |-> 0]
  /\ source = [i \in Ids |-> None]
  /\ was = [i \in Ids |-> {}]
  /\ live = {} /\ file = None
  /\ page = [n \in Slugs |-> None]
  /\ runs = 0
  /\ pc = [a \in Agents |-> "idle"]
  /\ job = [a \in Agents |-> NoJob]

Present(k) == object[k] # NoObject
ByHash(b) == {i \in live : source[i] = b}
PagesOf(i) == {n \in Slugs : page[n] = i}
HasChunks(i) == i \in live /\ source[i] \notin Bad

(* One agent at a time has business with a key that is not shared. *)
MayUse(a, k) == pc[a] = "idle" /\ (k \in Shared \/ \A b \in Agents : job[b].key # k)

Goto(a, step) == pc' = [pc EXCEPT ![a] = step]
Return(a) == Goto(a, "idle") /\ job' = [job EXCEPT ![a] = NoJob]

-----------------------------------------------------------------------------
(* The store.                                                              *)

(* Mutant of Upsert: the metadata of the row that is there is kept. *)
UpsertKeepsMetadata(k, body, promoted) ==
  object' = [object EXCEPT ![k] =
    [body |-> body, promoted |-> IF promoted = None THEN @.promoted ELSE promoted]]
(* put_object: insert, or replace body and metadata both. *)
Upsert(k, body, promoted) ==
  object' = [object EXCEPT ![k] = [body |-> body, promoted |-> promoted]]

Put(a, k, b) ==
  /\ MayUse(a, k) /\ writes[k] < MaxWrites
  /\ Upsert(k, b, None)
  /\ writes' = [writes EXCEPT ![k] = @ + 1]
  /\ UNCHANGED <<corpus, runs, pc, job>>

Delete(a, k) ==
  /\ MayUse(a, k) /\ writes[k] < MaxWrites /\ Present(k)
  /\ object' = [object EXCEPT ![k] = NoObject]
  /\ writes' = [writes EXCEPT ![k] = @ + 1]
  /\ UNCHANGED <<corpus, runs, pc, job>>

-----------------------------------------------------------------------------
(* promote.                                                                *)

PromoteRead(a, k) ==
  /\ MayUse(a, k) /\ runs < MaxRuns /\ Present(k)
  /\ runs' = runs + 1
  /\ job' = [job EXCEPT ![a] = [NoJob EXCEPT !.key = k, !.body = object[k].body]]
  /\ Goto(a, "check")
  /\ UNCHANGED <<objects, corpus>>

(* ingest: the upload's path is new every time, so only its hash can match. *)
Check(a) ==
  /\ pc[a] = "check"
  /\ IF ByHash(job[a].body) = {} THEN Goto(a, "store") /\ UNCHANGED job
     ELSE /\ \E i \in ByHash(job[a].body) : job' = [job EXCEPT ![a].source = i]
          /\ Goto(a, "page")
  /\ UNCHANGED <<objects, corpus, runs>>

(* slugify: the plain slug, or the least suffix that no page has. *)
FirstFree(n) == page[n] = None /\ \A m \in 1..(n - 1) : page[m] # None

(* A new source takes the key of its hash: insert_source waits for an open
   transaction that has it, and violates it if it was committed since Check: a
   failed result without a source, and promote returns.  With the text stored,
   the slug of the page is chosen, all before the commit. *)
Store(a) ==
  LET b == job[a].body
  IN /\ pc[a] = "store"
     /\ \A o \in Agents : pc[o] = "insert" => job[o].body # b
     /\ IF ByHash(b) \ {file} # {} THEN Return(a)
        ELSE /\ Goto(a, "insert")
             /\ IF b \in Bad THEN UNCHANGED job
                ELSE \E n \in Slugs : FirstFree(n) /\ job' = [job EXCEPT ![a].slug = n]
     /\ UNCHANGED <<objects, corpus, runs>>

(* Source i with the bytes b, at the file's path or not, becomes visible. *)
Becomes(i, b, atPath) ==
  /\ source' = [source EXCEPT ![i] = b]
  /\ was' = [was EXCEPT ![i] = @ \cup {b}]
  /\ live' = live \cup {i}
  /\ file' = IF atPath THEN i ELSE file

Unused == {i \in Ids : source[i] = None}

(* Mutant of Insert: what the page's insert raises is swallowed. *)
InsertSwallows(a) ==
  LET j == job[a]
  IN /\ pc[a] = "insert"
     /\ \E i \in Unused :
          /\ Becomes(i, j.body, FALSE)
          /\ page' = IF j.slug = 0 \/ page[j.slug] # None THEN page
                     ELSE [page EXCEPT ![j.slug] = i]
          /\ job' = [job EXCEPT ![a].source = i]
     /\ Goto(a, "page")
     /\ UNCHANGED <<objects, runs>>

(* The page's insert and the commit.  A slug that a page has got since it was
   chosen violates its key: the source is rolled back with the page, and
   promote returns as above.  No slug was chosen for what has no text. *)
Insert(a) ==
  LET j == job[a]
  IN /\ pc[a] = "insert"
     /\ IF j.slug # 0 /\ page[j.slug] # None THEN Return(a) /\ UNCHANGED corpus
        ELSE /\ \E i \in Unused :
                  /\ Becomes(i, j.body, FALSE)
                  /\ page' = IF j.slug = 0 THEN page ELSE [page EXCEPT ![j.slug] = i]
                  /\ job' = [job EXCEPT ![a].source = i]
             /\ Goto(a, "page")
     /\ UNCHANGED <<objects, runs>>

(* generate_source_page once more: nothing for a source that is gone or has no
   chunks, else the slug of the page it has (OnePage). *)
PageLook(a) ==
  LET i == job[a].source
  IN /\ pc[a] = "page"
     /\ IF ~HasChunks(i) THEN Goto(a, "reput") /\ UNCHANGED job
        ELSE /\ \E n \in PagesOf(i) : job' = [job EXCEPT ![a].slug = n]
             /\ Goto(a, "write")
     /\ UNCHANGED <<objects, corpus, runs>>

(* write_page and its commit: the page's row is written over.  If it is gone,
   its revision has nothing to refer to, and that raises out of promote. *)
PageWrite(a) ==
  LET j == job[a]
  IN /\ pc[a] = "write"
     /\ IF page[j.slug] = j.source THEN Goto(a, "reput") /\ UNCHANGED job ELSE Return(a)
     /\ UNCHANGED <<objects, corpus, runs>>

(* Mutant of RePut: a promoted object leaves the store. *)
RePutMoves(a) ==
  /\ pc[a] = "reput"
  /\ object' = [object EXCEPT ![job[a].key] = NoObject]
  /\ Return(a)
  /\ UNCHANGED <<writes, corpus, runs>>

(* The object is put back as it was read, whatever became of it. *)
RePut(a) ==
  /\ pc[a] = "reput"
  /\ Upsert(job[a].key, job[a].body, job[a].source)
  /\ Return(a)
  /\ UNCHANGED <<writes, corpus, runs>>

(* The process dies or a store fails: the open transaction is rolled back. *)
Stop(a) ==
  /\ "stop" \in Faults /\ pc[a] # "idle"
  /\ Return(a)
  /\ UNCHANGED <<objects, corpus, runs>>

-----------------------------------------------------------------------------
(* The rest of the corpus.                                                 *)

(* delete_source: the row, its document and its page in one transaction. *)
DeleteSource(i) ==
  /\ "delete" \in Faults /\ i \in live
  /\ live' = live \ {i}
  /\ file' = IF file = i THEN None ELSE file
  /\ page' = [n \in Slugs |-> IF page[n] = i THEN None ELSE page[n]]
  /\ UNCHANGED <<objects, source, was, runs, pc, job>>

(* _ingest_one on the file, in one step: bytes that are in the corpus change
   nothing; others replace those of the source at the path, or make a source.
   With text, the page it has is kept, or it gets one. *)
IngestFile(b) ==
  /\ "file" \in Faults /\ ByHash(b) = {}
  /\ \E i \in IF file = None THEN Unused ELSE {file} :
       /\ Becomes(i, b, TRUE)
       /\ IF b \in Bad \/ PagesOf(i) # {} THEN UNCHANGED page
          ELSE \E n \in Slugs : FirstFree(n) /\ page' = [page EXCEPT ![n] = i]
  /\ UNCHANGED <<objects, runs, pc, job>>

Promotion(a) ==
  \/ Check(a) \/ Store(a) \/ Insert(a) \/ PageLook(a) \/ PageWrite(a) \/ RePut(a)

Next ==
  \/ \E a \in Agents, k \in Keys : Delete(a, k) \/ PromoteRead(a, k)
  \/ \E a \in Agents, k \in Keys, b \in Bodies : Put(a, k, b)
  \/ \E a \in Agents : Promotion(a) \/ Stop(a)
  \/ \E i \in Ids : DeleteSource(i)
  \/ \E b \in Bodies : IngestFile(b)

Spec == Init /\ [][Next]_vars

-----------------------------------------------------------------------------
(* Properties.                                                             *)

Objects == [body : Bodies, promoted : Ids \cup {None}] \cup {NoObject}
Jobs == [key : Keys \cup {None}, body : Bodies \cup {None}, source : Ids \cup {None},
         slug : 0..MaxSlug]
Steps == {"idle", "check", "store", "insert", "page", "write", "reput"}

(* Every variable keeps its shape; a promotion knows its object, its source
   from the ingest on, and its slug when it writes the page. *)
TypeOK ==
  /\ object \in [Keys -> Objects]
  /\ writes \in [Keys -> 0..MaxWrites]
  /\ source \in [Ids -> Bodies \cup {None}]
  /\ was \in [Ids -> SUBSET Bodies]
  /\ live \subseteq {i \in Ids : source[i] # None}
  /\ file \in live \cup {None}
  /\ page \in [Slugs -> Ids \cup {None}]
  /\ runs \in 0..MaxRuns
  /\ pc \in [Agents -> Steps]
  /\ job \in [Agents -> Jobs]
  /\ \A a \in Agents :
       /\ (job[a].key = None <=> pc[a] = "idle") /\ (job[a].body = None <=> pc[a] = "idle")
       /\ pc[a] \in {"page", "write", "reput"} => job[a].source # None
       /\ pc[a] = "write" => job[a].slug \in Slugs

Own == Keys \ Shared
Promise == INSTANCE ObjectMap WITH
  Keys <- Own, map <- [k \in Own |-> object[k].body], writes <- [k \in Own |-> writes[k]]

(* The store is the agent's map (objects.py:3-4 "put/get/list/delete bytes
   byte-for-byte"): on a key one agent uses at a time, a promotion and the
   put it ends with leave what the agent reads as it is. *)
MapPromise == Promise!Spec

(* promoted_to_source is honest (objects.py:88-94): the source it names has, or
   had before its file changed, the bytes that stand beside it, also when
   another agent has put or deleted the object while it was promoted. *)
ProvenanceHonest ==
  \A k \in Keys :
    object[k].promoted # None => object[k].body \in was[object[k].promoted]

(* A promoted object can be found: from its ingest to its deletion a source
   with text has one page, no more, and a page has its source, whoever chose
   the same slug or stored the same bytes meanwhile, and whatever failed,
   was replaced or deleted (pipeline.py:152-153, source_page.py:38-44). *)
OnePage ==
  /\ \A i \in Ids : HasChunks(i) => PagesOf(i) # {}
  /\ \A n, m \in Slugs : page[n] # None => page[n] \in live /\ (page[m] = page[n] => m = n)
=============================================================================
