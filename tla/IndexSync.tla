----------------------------- MODULE IndexSync -----------------------------
(***************************************************************************)
(* The sync queue between the canonical store and one derived store.       *)
(*                                                                         *)
(* PostgreSQL (wiki_pages, chunks, tags) and the Markdown vault are        *)
(* canonical.  Every write enqueues an index_sync_state row in its own     *)
(* transaction; index/sync.py drains the rows by loading the entity again  *)
(* and upserting a document, and reindex drops the store and enqueues      *)
(* everything.  The queue is keyed by (entity, index_kind) and the kinds   *)
(* never meet, so the module follows one kind of page rows and one kind of *)
(* chunk rows (say opensearch_pages and opensearch_chunks).                *)
(*                                                                         *)
(* A source has at most one source page, whose sync entity is named by the *)
(* source itself.  Chunks are written once, under fresh ids; a page's text *)
(* is a version number.  A transaction's uncommitted rows are not visible, *)
(* so it is two steps: the vault file write, then the commit.              *)
(***************************************************************************)
EXTENDS Naturals, FiniteSets

CONSTANTS
  Sources,      \* source ids; each also names the sync entity of its page
  Chunks,       \* chunk ids that an ingest may allocate
  SourceOf,     \* the source a chunk id belongs to
  Drainers,     \* processes that run `index sync` or `reindex`
  MaxVersion,   \* bound: versions of a page's vault file
  MaxTags,      \* bound: tag changes of a source
  Exclusive,    \* TRUE: nothing else runs while a drain runs (one operator)
  Faults        \* which faults occur: "crash" of a process, "store" errors

ASSUME SyncAssumption ==
  /\ Sources \cap Chunks = {}
  /\ SourceOf \in [Chunks -> Sources]
  /\ MaxVersion \in Nat /\ MaxTags \in Nat
  /\ Exclusive \in BOOLEAN
  /\ Faults \subseteq {"crash", "store"}

Entities == Sources \cup Chunks
ChunksOf(s) == {c \in Chunks : SourceOf[c] = s}
Owner(e) == IF e \in Sources THEN e ELSE SourceOf[e]

VARIABLES
  source,    \* source[s]: "absent", "stored" or "deleted"
  life,      \* life[e]: "unborn", "live" (its row is committed) or "dead"
  revision,  \* revision[s]: the version of the page row
  body,      \* body[s]: the version in the vault file, 0 when there is none
  tags,      \* tags[s]: the version of the source's tag set
  row,       \* row[e]: state of the sync row, "none" when there is no row
  gen,       \* gen[e]: how many rows e has had; <<e, gen[e]>> is the row id
  index,     \* index[e]: the document in the derived store, or NoDoc
  dropped,   \* history: entities whose document a reindex dropped, not
             \* enqueued or written since
  tx,        \* tx[s]: the open transaction that writes s's rows
  deleting,  \* deleting[s]: the progress of delete_source(s)
  tagging,   \* tagging[s]: the progress of `tag add` or `tag rm` on s
  pc, todo, cur, copy,  \* per drainer: step, rows left, row in hand, its data
  scope      \* per drainer: entities a reindex covers; {} for `index sync`

canon == <<source, life, revision, body, tags>>
queue == <<row, gen>>
ops   == <<tx, deleting, tagging>>
work  == <<pc, todo, cur, copy, scope>>
vars  == <<canon, queue, index, dropped, ops, work>>

NoDoc  == [revision |-> 0, body |-> 0, tags |-> 0, there |-> FALSE]
NoTx   == [kind |-> "none", new |-> {}, page |-> FALSE]
NoDel  == [phase |-> "idle", ids |-> {}]
NoTag  == [op |-> "none", ids |-> {}]
NoRow  == <<>>

Docs == [revision : Nat, body : Nat, tags : Nat, there : BOOLEAN]

(***************************************************************************)
(* What a drain started now would project for e.  The text of a chunk      *)
(* never changes; its tags are those of its source.                        *)
(***************************************************************************)
Content(e) == [revision |-> IF e \in Sources THEN revision[e] ELSE 0,
               body     |-> IF e \in Sources THEN body[e] ELSE 0,
               tags     |-> tags[Owner(e)],
               there    |-> TRUE]

Live(S) == {e \in S : life[e] = "live"}
Pending(S) == {e \in S : row[e] = "pending"}

DrainsIdle == \A d \in Drainers : pc[d] = "idle"
OpsIdle == /\ tx = [s \in Sources |-> NoTx]
           /\ deleting = [s \in Sources |-> NoDel]
           /\ tagging = [s \in Sources |-> NoTag]

MayWrite == Exclusive => DrainsIdle
MayDrain == Exclusive => DrainsIdle /\ OpsIdle

Init ==
  /\ source = [s \in Sources |-> "absent"]
  /\ life = [e \in Entities |-> "unborn"]
  /\ revision = [s \in Sources |-> 0]
  /\ body = [s \in Sources |-> 0]
  /\ tags = [s \in Sources |-> 0]
  /\ row = [e \in Entities |-> "none"]
  /\ gen = [e \in Entities |-> 0]
  /\ index = [e \in Entities |-> NoDoc]
  /\ dropped = {}
  /\ tx = [s \in Sources |-> NoTx]
  /\ deleting = [s \in Sources |-> NoDel]
  /\ tagging = [s \in Sources |-> NoTag]
  /\ pc = [d \in Drainers |-> "idle"]
  /\ todo = [d \in Drainers |-> {}]
  /\ cur = [d \in Drainers |-> NoRow]
  /\ copy = [d \in Drainers |-> NoDoc]
  /\ scope = [d \in Drainers |-> {}]

-----------------------------------------------------------------------------
(* The queue's statements.                                                 *)

(* Mutant of Requeue: ON CONFLICT DO NOTHING, so a settled row stays settled. *)
RequeueIfNew(gone, add) ==
  /\ row' = [e \in Entities |-> IF e \in add /\ row[e] = "none" THEN "pending"
                                ELSE IF e \in gone THEN "none" ELSE row[e]]
  /\ gen' = [e \in Entities |-> IF e \in add /\ row[e] = "none"
                                THEN gen[e] + 1 ELSE gen[e]]
  /\ dropped' = dropped \ add

(* dequeue_chunks_for_source / delete_sync_rows_for_entities on the rows of
   gone, then enqueue_index on those of add: an existing row, whatever its
   state, goes back to pending under its own id. *)
Requeue(gone, add) ==
  /\ row' = [e \in Entities |-> IF e \in add THEN "pending"
                                ELSE IF e \in gone THEN "none" ELSE row[e]]
  /\ gen' = [e \in Entities |-> IF e \in add /\ row[e] = "none"
                                THEN gen[e] + 1 ELSE gen[e]]
  /\ dropped' = dropped \ add

(* UPDATE ... WHERE id = r: nothing when that row has been deleted. *)
SetRow(r, state) ==
  /\ row' = IF row[r[1]] # "none" /\ gen[r[1]] = r[2]
            THEN [row EXCEPT ![r[1]] = state] ELSE row
  /\ UNCHANGED gen

-----------------------------------------------------------------------------
(* Writers: ingest, page writes, tags, deletes.                            *)

(* _ingest_one up to the file write.  new is empty when inspection failed:
   then the old chunks go and the page is left as it was.  update_source
   holds the source row, which a `tag add` in flight has locked. *)
IngestWrite(s) ==
  /\ MayWrite
  /\ tx[s] = NoTx /\ source[s] # "deleted" /\ tagging[s].op # "add"
  /\ \E new \in SUBSET {c \in ChunksOf(s) : life[c] = "unborn"} :
       /\ tx' = [tx EXCEPT ![s] =
                   [kind |-> "ingest", new |-> new, page |-> new # {}]]
       /\ IF new = {} THEN UNCHANGED body
          ELSE body[s] < MaxVersion /\ body' = [body EXCEPT ![s] = @ + 1]
  /\ UNCHANGED <<source, life, revision, tags, queue, index, dropped,
                 deleting, tagging, work>>

(* write_page for a promotion or a rewrite of an existing page. *)
PageWrite(s) ==
  /\ MayWrite
  /\ tx[s] = NoTx /\ life[s] = "live" /\ body[s] < MaxVersion
  /\ tx' = [tx EXCEPT ![s] = [kind |-> "page", new |-> {}, page |-> TRUE]]
  /\ body' = [body EXCEPT ![s] = @ + 1]
  /\ UNCHANGED <<source, life, revision, tags, queue, index, dropped,
                 deleting, tagging, work>>

Replaced(s) == IF tx[s].kind = "ingest" THEN Live(ChunksOf(s)) ELSE {}
Written(s) == tx[s].new \cup (IF tx[s].page THEN {s} ELSE {})

(* Mutant of Commit: the chunks' sync rows are dequeued last, after the new
   chunks were inserted and enqueued. *)
CommitDequeuesLast(s) ==
  /\ tx[s] # NoTx
  /\ source' = [source EXCEPT ![s] = "stored"]
  /\ life' = [e \in Entities |-> IF e \in Written(s) THEN "live"
                                 ELSE IF e \in Replaced(s) THEN "dead"
                                 ELSE life[e]]
  /\ revision' = IF tx[s].page THEN [revision EXCEPT ![s] = body[s]] ELSE revision
  /\ Requeue(Replaced(s) \cup tx[s].new, Written(s) \ tx[s].new)
  /\ tx' = [tx EXCEPT ![s] = NoTx]
  /\ UNCHANGED <<body, tags, index, deleting, tagging, work>>

Commit(s) ==
  /\ tx[s] # NoTx
  /\ source' = [source EXCEPT ![s] = "stored"]
  /\ life' = [e \in Entities |-> IF e \in Written(s) THEN "live"
                                 ELSE IF e \in Replaced(s) THEN "dead"
                                 ELSE life[e]]
  /\ revision' = IF tx[s].page THEN [revision EXCEPT ![s] = body[s]] ELSE revision
  /\ Requeue(Replaced(s), Written(s))
  /\ tx' = [tx EXCEPT ![s] = NoTx]
  /\ UNCHANGED <<body, tags, index, deleting, tagging, work>>

(* The transaction rolls back (an error after the file write, a deadlock, a
   crash); the vault file it wrote stays. *)
Abort(s) ==
  /\ "crash" \in Faults
  /\ tx[s] # NoTx
  /\ tx' = [tx EXCEPT ![s] = NoTx]
  /\ UNCHANGED <<canon, queue, index, dropped, deleting, tagging, work>>

(* `compendium tag`: change the tag, read the chunk ids, enqueue them.
   Adding locks the source row against a re-ingest and a delete; removing a
   tag that is not there locks nothing. *)
TagBegin(s) ==
  /\ MayWrite
  /\ tagging[s] = NoTag /\ life[s] = "live" /\ tags[s] < MaxTags
  /\ \E op \in {"add", "rm"} :
       /\ op = "add" => tx[s].kind # "ingest"
       /\ tagging' = [tagging EXCEPT ![s] = [op |-> op, ids |-> Live(ChunksOf(s))]]
  /\ UNCHANGED <<canon, queue, index, dropped, tx, deleting, work>>

TagCommit(s) ==
  /\ tagging[s] # NoTag
  /\ tags' = [tags EXCEPT ![s] = @ + 1]
  /\ Requeue({}, {s} \cup tagging[s].ids)
  /\ tagging' = [tagging EXCEPT ![s] = NoTag]
  /\ UNCHANGED <<source, life, revision, body, index, tx, deleting, work>>

TagAbort(s) ==
  /\ "crash" \in Faults
  /\ tagging[s] # NoTag
  /\ tagging' = [tagging EXCEPT ![s] = NoTag]
  /\ UNCHANGED <<canon, queue, index, dropped, tx, deleting, work>>

(* delete_source: ids read first, then the canonical rows in one commit that
   waits for the locks of other transactions, then the vault file, then the
   derived documents, best effort. *)
DeleteRead(s) ==
  /\ MayWrite
  /\ deleting[s] = NoDel /\ source[s] = "stored"
  /\ deleting' = [deleting EXCEPT ![s] =
                    [phase |-> "read", ids |-> Live({s} \cup ChunksOf(s))]]
  /\ UNCHANGED <<canon, queue, index, dropped, tx, tagging, work>>

(* A page born since the read still references the source: the DELETE of the
   source fails and everything rolls back. *)
DeleteCommit(s) ==
  LET ids == deleting[s].ids
      orphanedPage == life[s] = "live" /\ s \notin ids
  IN /\ deleting[s].phase = "read" /\ tx[s] = NoTx /\ tagging[s].op # "add"
     /\ IF orphanedPage
        THEN /\ deleting' = [deleting EXCEPT ![s] = NoDel]
             /\ UNCHANGED <<source, life, queue, dropped>>
        ELSE /\ source' = [source EXCEPT ![s] = "deleted"]
             /\ life' = [e \in Entities |-> IF e \in Live({s} \cup ChunksOf(s))
                                            THEN "dead" ELSE life[e]]
             /\ Requeue(ids, {})
             /\ deleting' = [deleting EXCEPT ![s].phase = "committed"]
     /\ UNCHANGED <<revision, body, tags, index, tx, tagging, work>>

DeleteUnlink(s) ==
  /\ deleting[s].phase = "committed"
  /\ \/ body' = IF s \in deleting[s].ids THEN [body EXCEPT ![s] = 0] ELSE body
     \/ "store" \in Faults /\ UNCHANGED body
  /\ deleting' = [deleting EXCEPT ![s].phase = "unlinked"]
  /\ UNCHANGED <<source, life, revision, tags, queue, index, dropped,
                 tx, tagging, work>>

DeleteDerived(s) ==
  /\ deleting[s].phase = "unlinked"
  /\ \E done \in SUBSET deleting[s].ids :
       /\ done # deleting[s].ids => "store" \in Faults
       /\ index' = [e \in Entities |-> IF e \in done THEN NoDoc ELSE index[e]]
  /\ deleting' = [deleting EXCEPT ![s] = NoDel]
  /\ UNCHANGED <<canon, queue, dropped, tx, tagging, work>>

DeleteCrash(s) ==
  /\ "crash" \in Faults
  /\ deleting[s] # NoDel
  /\ deleting' = [deleting EXCEPT ![s] = NoDel]
  /\ UNCHANGED <<canon, queue, index, dropped, tx, tagging, work>>

-----------------------------------------------------------------------------
(* Drainers.                                                               *)

Claimed(S) == {<<e, gen[e]>> : e \in Pending(S)}

(* sync_pending: the pending rows are read once, without a lock. *)
SyncStart(d) ==
  /\ MayDrain
  /\ pc[d] = "idle"
  /\ pc' = [pc EXCEPT ![d] = "ready"]
  /\ todo' = [todo EXCEPT ![d] = Claimed(Entities)]
  /\ UNCHANGED <<canon, queue, index, dropped, ops, cur, copy, scope>>

(* Mutant of ReindexDrop: documents are overwritten in place, never dropped. *)
ReindexInPlace(d) ==
  /\ MayDrain
  /\ pc[d] = "idle"
  /\ \E target \in {Sources, Chunks, Entities} :
       scope' = [scope EXCEPT ![d] = target]
  /\ pc' = [pc EXCEPT ![d] = "dropped"]
  /\ UNCHANGED <<canon, queue, index, dropped, ops, todo, cur, copy>>

(* reindex pages|chunks|all: the stores are recreated outside any
   transaction, the ids read, enqueued and committed, then drained. *)
ReindexDrop(d) ==
  /\ MayDrain
  /\ pc[d] = "idle"
  /\ \E target \in {Sources, Chunks, Entities} :
       /\ index' = [e \in Entities |-> IF e \in target THEN NoDoc ELSE index[e]]
       /\ dropped' = dropped \cup target
       /\ scope' = [scope EXCEPT ![d] = target]
  /\ pc' = [pc EXCEPT ![d] = "dropped"]
  /\ UNCHANGED <<canon, queue, ops, todo, cur, copy>>

ReindexRead(d) ==
  /\ pc[d] = "dropped"
  /\ todo' = [todo EXCEPT ![d] = {<<e, gen[e]>> : e \in Live(scope[d])}]
  /\ pc' = [pc EXCEPT ![d] = "listed"]
  /\ UNCHANGED <<canon, queue, index, dropped, ops, cur, copy, scope>>

ReindexEnqueue(d) ==
  /\ pc[d] = "listed"
  /\ Requeue({}, {r[1] : r \in todo[d]})
  /\ todo' = [todo EXCEPT ![d] = {}]
  /\ pc' = [pc EXCEPT ![d] = "enqueued"]
  /\ UNCHANGED <<canon, index, ops, cur, copy, scope>>

ReindexClaim(d) ==
  /\ pc[d] = "enqueued"
  /\ todo' = [todo EXCEPT ![d] = Claimed(scope[d])]
  /\ pc' = [pc EXCEPT ![d] = "ready"]
  /\ UNCHANGED <<canon, queue, index, dropped, ops, cur, copy, scope>>

(* Mutant of Take: the loader does not notice that the entity is gone. *)
TakeUnchecked(d) ==
  /\ pc[d] = "ready"
  /\ \E r \in todo[d] :
       /\ todo' = [todo EXCEPT ![d] = @ \ {r}]
       /\ cur' = [cur EXCEPT ![d] = r]
       /\ copy' = [copy EXCEPT ![d] =
                     [NoDoc EXCEPT !.revision = Content(r[1]).revision]]
       /\ pc' = [pc EXCEPT ![d] = "loading"]
  /\ UNCHANGED <<canon, queue, index, dropped, ops, scope>>

(* The projector's first read, the entity's row.  A row whose entity is gone
   is "skipped": the sync row is deleted. *)
Take(d) ==
  /\ pc[d] = "ready"
  /\ \E r \in todo[d] :
       /\ todo' = [todo EXCEPT ![d] = @ \ {r}]
       /\ \/ /\ life[r[1]] = "live"
             /\ cur' = [cur EXCEPT ![d] = r]
             /\ copy' = [copy EXCEPT ![d] =
                           [NoDoc EXCEPT !.revision = Content(r[1]).revision]]
             /\ pc' = [pc EXCEPT ![d] = "loading"]
             /\ UNCHANGED queue
          \/ /\ life[r[1]] # "live"
             /\ SetRow(r, "none")
             /\ UNCHANGED <<pc, cur, copy>>
  /\ UNCHANGED <<canon, index, dropped, ops, scope>>

Release(d) ==
  /\ pc' = [pc EXCEPT ![d] = "ready"]
  /\ cur' = [cur EXCEPT ![d] = NoRow]
  /\ copy' = [copy EXCEPT ![d] = NoDoc]
  /\ UNCHANGED <<todo, scope>>

(* The rest of the load: the vault file of a page, then the tags. *)
FileGone(e) == e \in Sources /\ body[e] = 0

Load(d) ==
  /\ pc[d] = "loading"
  /\ LET e == cur[d][1]
     IN \/ /\ ~FileGone(e)
           /\ copy' = [copy EXCEPT ![d] =
                         [Content(e) EXCEPT !.revision = copy[d].revision]]
           /\ pc' = [pc EXCEPT ![d] = "loaded"]
           /\ UNCHANGED <<queue, todo, cur, scope>>
        \/ /\ FileGone(e)
           /\ SetRow(cur[d], "none")
           /\ Release(d)
  /\ UNCHANGED <<canon, index, dropped, ops>>

StoreWrite(d) ==
  /\ pc[d] = "loaded"
  /\ index' = [index EXCEPT ![cur[d][1]] = copy[d]]
  /\ dropped' = dropped \ {cur[d][1]}
  /\ pc' = [pc EXCEPT ![d] = "written"]
  /\ UNCHANGED <<canon, queue, ops, todo, cur, copy, scope>>

MarkIndexed(d) ==
  /\ pc[d] = "written"
  /\ SetRow(cur[d], "indexed")
  /\ Release(d)
  /\ UNCHANGED <<canon, index, dropped, ops>>

(* Mutant of MarkFailed: the loop breaks off at the first failure. *)
FailBreaks(d) ==
  /\ "store" \in Faults
  /\ \/ pc[d] \in {"loading", "loaded"} /\ UNCHANGED index
     \/ pc[d] = "loaded" /\ index' = [index EXCEPT ![cur[d][1]] = copy[d]]
  /\ SetRow(cur[d], "failed")
  /\ todo' = [todo EXCEPT ![d] = {}]
  /\ pc' = [pc EXCEPT ![d] = "ready"]
  /\ cur' = [cur EXCEPT ![d] = NoRow]
  /\ copy' = [copy EXCEPT ![d] = NoDoc]
  /\ UNCHANGED <<canon, dropped, ops, scope>>

(* The load or the upsert raises; an upsert that timed out may have been
   applied.  The row is marked failed and the loop goes on. *)
MarkFailed(d) ==
  /\ "store" \in Faults
  /\ \/ pc[d] \in {"loading", "loaded"} /\ UNCHANGED index
     \/ pc[d] = "loaded" /\ index' = [index EXCEPT ![cur[d][1]] = copy[d]]
  /\ SetRow(cur[d], "failed")
  /\ Release(d)
  /\ UNCHANGED <<canon, dropped, ops>>

Finish(d) ==
  /\ pc[d] = "ready" /\ todo[d] = {}
  /\ pc' = [pc EXCEPT ![d] = "idle"]
  /\ scope' = [scope EXCEPT ![d] = {}]
  /\ UNCHANGED <<canon, queue, index, dropped, ops, todo, cur, copy>>

Crash(d) ==
  /\ "crash" \in Faults
  /\ pc[d] # "idle"
  /\ pc' = [pc EXCEPT ![d] = "idle"]
  /\ todo' = [todo EXCEPT ![d] = {}]
  /\ cur' = [cur EXCEPT ![d] = NoRow]
  /\ copy' = [copy EXCEPT ![d] = NoDoc]
  /\ scope' = [scope EXCEPT ![d] = {}]
  /\ UNCHANGED <<canon, queue, index, dropped, ops>>

-----------------------------------------------------------------------------
Writer(s) ==
  \/ IngestWrite(s) \/ PageWrite(s) \/ Commit(s) \/ Abort(s)
  \/ TagBegin(s) \/ TagCommit(s) \/ TagAbort(s)
  \/ DeleteRead(s) \/ DeleteCommit(s) \/ DeleteUnlink(s)
  \/ DeleteDerived(s) \/ DeleteCrash(s)

Proceed(d) ==
  \/ ReindexRead(d) \/ ReindexEnqueue(d) \/ ReindexClaim(d)
  \/ Take(d) \/ Load(d) \/ StoreWrite(d) \/ MarkIndexed(d) \/ MarkFailed(d)
  \/ Finish(d)

Drainer(d) == SyncStart(d) \/ ReindexDrop(d) \/ Proceed(d) \/ Crash(d)

Next == (\E s \in Sources : Writer(s)) \/ (\E d \in Drainers : Drainer(d))

Spec == Init /\ [][Next]_vars

-----------------------------------------------------------------------------
(* Properties.                                                             *)

TxType == [kind : {"none", "ingest", "page"}, new : SUBSET Chunks, page : BOOLEAN]
DelType == [phase : {"idle", "read", "committed", "unlinked"},
            ids : SUBSET Entities]
TagType == [op : {"none", "add", "rm"}, ids : SUBSET Chunks]
RowIds == Entities \X Nat
Steps == {"idle", "dropped", "listed", "enqueued", "ready",
          "loading", "loaded", "written"}

(* Every variable keeps its shape; a drainer has a row in hand exactly while
   it projects one. *)
TypeOK ==
  /\ source \in [Sources -> {"absent", "stored", "deleted"}]
  /\ life \in [Entities -> {"unborn", "live", "dead"}]
  /\ revision \in [Sources -> Nat]
  /\ body \in [Sources -> Nat]
  /\ tags \in [Sources -> Nat]
  /\ row \in [Entities -> {"none", "pending", "indexed", "failed"}]
  /\ gen \in [Entities -> Nat]
  /\ index \in [Entities -> Docs]
  /\ dropped \subseteq Entities
  /\ tx \in [Sources -> TxType]
  /\ \A s \in Sources : tx[s].new \subseteq ChunksOf(s)
  /\ deleting \in [Sources -> DelType]
  /\ tagging \in [Sources -> TagType]
  /\ pc \in [Drainers -> Steps]
  /\ todo \in [Drainers -> SUBSET RowIds]
  /\ cur \in [Drainers -> RowIds \cup {NoRow}]
  /\ copy \in [Drainers -> Docs]
  /\ scope \in [Drainers -> SUBSET Entities]
  /\ \A d \in Drainers :
       (cur[d] # NoRow) <=> (pc[d] \in {"loading", "loaded", "written"})

(* The vault file is ahead of its row: a page write is open, or was rolled
   back after it wrote the file. *)
FileAhead(e) == e \in Sources /\ body[e] # revision[e]

(* The queue owes nothing for e: e is live, its row is settled, and neither
   an unfinished reindex nor a rolled back page write explains a difference. *)
Settled(e) == /\ life[e] = "live" /\ row[e] \notin {"pending", "failed"}
              /\ e \notin dropped /\ ~FileAhead(e)

SettledFresh == \A e \in Entities : Settled(e) => index[e] = Content(e)

(* No update is lost silently (_drain, enqueue_index and every writer): when
   drains overlap nothing else, a settled entity's document is the current
   one, whatever was written, tagged, deleted, failed or crashed before. *)
NoSilentLoss == Exclusive => SettledFresh

(* The parts of the inductive invariant behind NoSilentLoss.               *)

(* Files and deletes, whether or not drains are exclusive: the page of a live
   source has a file at least as new as its row, a source in a delete's last
   phases is gone with everything that belonged to it, and a delete only holds
   ids of its own source. *)
FileFactsOf(s) ==
  /\ life[s] = "live" => body[s] > 0 /\ revision[s] <= body[s]
  /\ tx[s].page => body[s] > 0
  /\ source[s] = "deleted" =>
       tx[s] = NoTx /\ \A e \in {s} \cup ChunksOf(s) : life[e] # "live"
  /\ deleting[s].phase \in {"committed", "unlinked"} => source[s] = "deleted"
  /\ deleting[s].ids \subseteq {s} \cup ChunksOf(s)
FileFacts == \A s \in Sources : FileFactsOf(s)

(* At most one drainer runs, and then no writer is under way. *)
Solo == /\ \A d, f \in Drainers : d = f \/ pc[d] = "idle" \/ pc[f] = "idle"
        /\ DrainsIdle \/ OpsIdle

(* What a drainer has in hand is current. *)
Held == \A d \in Drainers : LET e == cur[d][1] IN
  /\ pc[d] \in {"loading", "loaded", "written"} => life[e] = "live"
  /\ pc[d] = "loading" => copy[d].revision = Content(e).revision
  /\ pc[d] = "loaded" => copy[d] = Content(e)
  /\ pc[d] = "written" => index[e] = Content(e)

(* A chunk that a tag change did not list is still pending. *)
TagCover == \A s \in Sources : tagging[s] # NoTag =>
  \A c \in ChunksOf(s) :
    life[c] = "live" => c \in tagging[s].ids \/ row[c] = "pending"

SafeInv == /\ TypeOK /\ FileFacts
           /\ Exclusive => Solo /\ Held /\ TagCover /\ SettledFresh

(* index status and the reindex rely on the queue knowing each live entity:
   re-ingest, delete and the drains' skips never drop a live entity's row. *)
LiveIsQueued == \A e \in Entities : life[e] = "live" => row[e] # "none"

(* A deleted or replaced entity that has left the store, and that no drainer
   has in hand, is never brought back: not by a stale claim, not by a row that
   a tag or a reindex enqueued from ids it read before the delete. *)
Gone(e) == /\ life[e] = "dead" /\ ~index[e].there
           /\ \A d \in Drainers : cur[d] # NoRow => cur[d][1] # e
GoneStaysGone == [][\A e \in Entities : Gone(e) => Gone(e)']_vars

(* reindex is the rebuild path (sync.py:144-150): when it finishes, with
   nothing overlapping, each entity it covers that did not fail has its
   current document if live and none if not, so orphans are gone too. *)
Restored(S) == \A e \in S :
  IF life[e] = "live" THEN row[e] = "failed" \/ index[e] = Content(e)
  ELSE ~index[e].there
ReindexRestores ==
  [][\A d \in Drainers : Exclusive /\ Finish(d) => Restored(scope[d])]_vars

(* With drains that overlap nothing the derived store follows the canonical
   one as ServedIndex promises: whatever is projected is current, also for an
   entity that is owed, and nothing is settled that was not served. *)
Wanted == [e \in Entities |-> IF life[e] = "live" THEN Content(e) ELSE NoDoc]
Owed == {e \in Live(Entities) : ~Settled(e)}
Served == INSTANCE ServedIndex WITH want <- Wanted, served <- index, owed <- Owed
ServesCurrent == Served!Spec

(* One failure does not abort the rest of the queue (sync.py:8-10): when a drain
   that nothing overlaps ends, no row it covers is pending, whatever raised on
   the way; so what is left is settled, or failed and seen in `index status`. *)
Covers(d) == IF scope[d] = {} THEN Entities ELSE scope[d]
DrainSettles ==
  [][\A d \in Drainers : Exclusive /\ Finish(d) =>
       \A e \in Covers(d) : row[e] # "pending"]_vars
=============================================================================
