# Verification of Compendium

Compendium ingests documents, writes a wiki of Markdown pages about them and
answers questions from the wiki. PostgreSQL and the Markdown vault are its
canonical layer; OpenSearch, Qdrant and Memgraph are derived from it. There is
no server: commands (`ingest`, `index sync`, `curate run`, `page promote`,
`graph rebuild`, ...), started by an operator, by timers and by a file watcher,
share the stores. What is hard is what happens when those commands overlap, die
half way, or find a store that another one left half written.

This directory holds TLA+ modules translated from the source, TLC
configurations that check them on small instances, and proofs checked by TLAPS.
Paths below are relative to the repository; `compendium/` is `src/compendium/`.

## Inventory

Each part with the state it keeps, its operations, what is hard about it, and
what makes it correct.

| Part | State | Operations | Hard | Correct when |
| --- | --- | --- | --- | --- |
| Sync queue and drains (`index/sync.py`, `projectors.py`) | `index_sync_state`, derived documents | `enqueue_index`, `sync_pending`, `reindex` | a write while its entity is projected; claims without a lock; crash between drop and enqueue | no settled entity is served stale; the dead stay gone; reindex restores |
| Ingest (`ingest/pipeline.py`) | `sources`, `source_documents`, `chunks`, source page | ingest of a file, URL or directory | replace in place under one id; hash and path as two identities; every error is a result | each path one source, its text the hashed one |
| Inbox (`inbox/process.py`) | files in `<kind>/`, `processed/`, `failed/` | one processor per watcher fire | two fires on a file; store failure told from bad file | good files are ingested before they move |
| Source deletion (`maintenance/delete.py`) | canonical rows, vault file, documents, node | `source delete` | commit first, then best effort | derived leftovers can be removed and do not come back |
| Tags | tag rows, queue | `tag add`, `tag rm` | chunk ids read, then enqueued | the documents get the new tags |
| Semantic edges (`graph/semantic_edges.py`, `schema.py`, `links.py`) | Memgraph edges, `semantic_edges` rows | link, extraction, backfill | two stores, one transaction; check then MERGE | stores agree; a curator's edge is never overwritten |
| Graph rebuild (`graph/rebuild.py`) | Memgraph | drop, project, replay | death between drop and replay; replay order | the graph is what PostgreSQL says |
| Edge extraction (`curate/extract.py`) | watermark (newest extracted edge) | step of `curate run` | the watermark moves although pages failed | each changed page is looked at again |
| Curate run (`curate/run.py`, `signals.py`) | signals, analysis runs | generate, propose, dedup, insert, autocurate | one long transaction, other connections opened in it | one open signal per key, a pair asked once |
| Signal lifecycle (`lifecycle.py`, `resolve.py`, `synth.py`) | signal status, page status | synth, promote, approve, drop | decisions read without a lock; two stores on approval | a verdict and what it did agree |
| Vault pages (`wiki/vault.py`, `page.py`, `slug.py`, `lint.py`, `trace/promote.py`) | Markdown files, page rows, revisions, promotion events | `write_page`, promotion, lint | file before commit; slug chosen, then inserted; a promotion reads the row, then the file | no committed page is ahead of its file; each status has its event |
| Backup, restore (`backup/`) | archives | dump + tar, restore | two moments; replace one store after the other | a backup's files cover its dump; a restore returns what was saved |
| Agent objects (`objects.py`) | `agent_objects` | put, get, delete, promote | promote writes back what it read | an agent's own key is a plain map; provenance is honest |
| Retrieval, answering (`retrieve/`, `answer/`, `trace/replay.py`) | query and ask traces | search, fuse, expand, fall back, compose | stores that are down; ties and zero scores; two rows in one transaction | what was found leads; an answer is grounded; gaps reach curation |
| Facade, HTTP, MCP, CLI, TUI, web | none of their own | call the above | — | — |
| Schedules, unit files (`schedule/`, `service_unit/`) | unit files, the scheduler's state | install, uninstall, status | install over an installed unit; a scheduler that refuses | what is reported is loaded as asked; nothing runs without files |
| Text algorithms (`ingest/chunking.py`, `inspection.py`) | none | chunk, inspect | windows at boundaries | all text covered, the loop ends |

Interaction: every writer enqueues in the queue's table in its own transaction,
and drains read back what was committed. Ingest, promotion and synthesis write
the vault file before they commit. Links, extraction and promotion write the
graph before they commit the edge's row. `curate run` calls extraction,
contradiction proposals and autocuration inside one transaction; approval and
autocuration open connections of their own inside an open one.

## Modules

| Module | Models | Run |
| --- | --- | --- |
| `IndexSync` | queue, drains, reindex, with the writers that feed them | `IndexSync_serial`, `IndexSync_overlap` |
| `ServedIndex` | the abstract derived store: what is owed is served as it is | as a property of `IndexSync` |
| `SemanticEdges` | edges in the graph and their rows, rebuild, backfill, delete | `SemanticEdges_commands` |
| `StructuralGraph` | nodes and automatic edges: projection by drains and rebuilds, deletion | `StructuralGraph_rebuild` |
| `CurationSignals` | curate runs, synthesis, promotion, verdicts | `CurationSignals_overlap` |
| `SlowLoop` | which pages a curate run looks at: watermarks and sweeps | `SlowLoop_scheduled` |
| `Inbox` | the inbox processor and source identity | `Inbox_outage` |
| `ObjectStore` | agent objects and their promotion, source pages and slugs | `ObjectStore_promote` |
| `ObjectMap` | the abstract store, a map of last writes | as a property of `ObjectStore` |
| `Vault` | page rows, files, promotion, deletion | with `Backup` |
| `Backup` | backup and restore, over `Vault` | `Backup_restore` |
| `AtomicBackup` | the abstract backup, of one moment and as a whole | as a property of `Backup` |
| `Retrieval` | one question: search, expansion, coverage, answer, traces | `Retrieval_ask` |
| `ServiceUnits` | install and uninstall under launchd and systemd | `ServiceUnits_install` |
| `Chunking` | the windows of a section | `Chunking_windows` |
| `IndexSyncProofs`, `SemanticEdgesProofs`, `BackupProofs`, `InboxProofs`, `CurationSignalsProofs`, `ObjectStoreProofs`, `ServiceUnitsProofs`, `StructuralGraphProofs` | theorems; those about `SlowLoop` are in `CurationSignalsProofs`, those about `Chunking` and `Retrieval` in `InboxProofs`, the refinements beside the component's other theorems | TLAPS |

`MC<module>.tla` holds the constants of a module's runs, `<run>.cfg` their
values. The modules are composed where a property needs it: `Backup` extends
`Vault`, and the two writers of a page, `write_page` and `promote`, run beside
the backup; `IndexSync` has the commands that enqueue next to the drains that
dequeue; `SemanticEdges` has every command that touches either store.

An operator named "Mutant of X" in a comment is a plausible mistake in X, never
used by the specification; put in X's place it must break the property it is
listed with in `PROJECT.json`.

### IndexSync

One kind of page rows and one of chunk rows; the queue's kinds never meet.
`row[e]` is the sync row's state, `<<e, gen[e]>>` its id: a row that is deleted
and enqueued again is another row, which is what makes UPDATE by id of a stale
claim harmless or not. `life`, `revision`, `body` (the vault file) and `tags`
are the canonical side, `index[e]` the derived document.

* `IngestWrite`, `PageWrite`, then `Commit` or `Abort`: the file is written
  first, the rows and the queue change at the commit. `Requeue` is
  `dequeue_chunks_for_source` followed by `enqueue_index`.
* `TagBegin`/`TagCommit`; `DeleteRead`, `DeleteCommit`, `DeleteUnlink`,
  `DeleteDerived`: the steps of `delete_source`, best effort after the commit.
* `SyncStart`, then per row `Take` (the entity's row), `Load` (file and tags),
  `StoreWrite`, `MarkIndexed` or `MarkFailed`; `ReindexDrop`, `ReindexRead`,
  `ReindexEnqueue`, `ReindexClaim` before the same loop; `Finish`, `Crash`.

`Exclusive` says that nothing else runs while a drain runs: the single operator.
Otherwise writers and drains interleave at every step.

| Run | Instance | Result |
| --- | --- | --- |
| `IndexSync_serial` | one operator, crashes and store errors | no settled entity is served stale, the index implements `ServedIndex` (`ServesCurrent`), a finished reindex has restored all, a drain leaves no row it covers pending (`DrainSettles`) |
| `IndexSync_overlap` | writers and a drain or reindex interleaved at every step, crashes and store errors | every live entity has its sync row; the dead stay gone |

`ServesCurrent` is the drain's promise: `want` is the content of the live
entities, `served` the derived documents, `owed` the live entities whose row is
not settled. It says more than `NoSilentLoss`: also an entity that is still owed
is never given an old document, and only serving it settles it.

One source and two chunk ids make a re-ingest that replaces a chunk by another;
two page versions and one tag change make something newer to lose; entities
never share rows, so more of them add no interaction but the order in a batch,
which two chunks and a page have.

`DrainSettles` is what "one failure does not abort the rest" means for the queue:
whichever rows raised in the middle of a batch, at the drain's end each row it
covers is settled, gone or failed. It is about drains that nothing overlaps, as
a writer may enqueue a row behind the claim. No fairness is assumed: a drain
goes through a list that is claimed once, so that it ends is plain.

A `tag rm` that has read the source's ids may go on after a deletion's commit, and
enqueue what is gone: removing a tag that is not there locks nothing. A `tag add`
locks the source's row, so `DeleteCommit` waits for it.

### SemanticEdges

`edge[e]` is the provenance of the edge in the graph, `row[e]` that of the committed row,
`pending[p]` the rows of p's open transaction, which lock them. Provenance is who
stamped the edge, and whether a curator's still has an extraction's keys (model,
confidence, `extracted_at`, `source_revision_id`): the graph merges keys
(`Stamped`, for `SET r +=`), the row's upsert sets those that a write does not
carry to NULL. The `weight`, which a curator's link carries and an extraction
does not, is left out. `Take` takes up
an edge; `Check`, `CheckReverse` and `Merge` are the three statements of
`upsert_semantic_edge`, each committed at once by Memgraph; `RecordRow` and
`Commit` the PostgreSQL half. `Link`, `RunStart`/`RunPropose`/`RunEnd`,
`BackfillRead`/`BackfillRows` and `RebuildDrop` ... `RebuildFinish` are the
commands; `DeleteCommit` and `DeleteNode` the two halves of a source delete;
`Prune` the documented removal of extracted edges by a query.

A regime, one of `Regimes`, says which commands never overlap, which faults
occur, which edges there are from before rows were kept, and how many a run
proposes. The run has three: commands one after another with rollbacks, pruning
and old edges (`Serial`); writers interleaved statement by statement, with
deletes whose graph half fails, and rebuilds that run alone; and commands one
after another with rebuilds that die, without old edges. In the last two a run
proposes one edge.

| Property of `SemanticEdges_commands` | Shows |
| --- | --- |
| `StoresAgree` | in the first regime the stores agree but for edges of a rolled back transaction, and for extraction keys that only the graph edge under a curator's link keeps |
| `CuratorKept` | there, an extracted edge never takes the place of a curator's, in the graph in either orientation, nor in its row |
| `RebuildFaithful` | in all three, a rebuild leaves exactly the persisted edges, which needs the order of the replay; in the first also no node of a deleted source |

Two nodes give one unordered pair, with both orientations of each type: every
check of `upsert_semantic_edge` is about one pair. Two proposals a run, in the
first regime, let it meet an edge of its own. Legacy edges have no provenance, one of them against
the order of ids; without them a backfill would have nothing to do.

### StructuralGraph

`version`, `page`, `gone` and `cites` are the rows and the grounding sections,
`row` the memgraph sync rows, `node` and `edges` the graph. `Load`, `MergeNode`,
`MergeSource`, `ReadFile` and `MergeEdge` are the reads and the statements of
`project_source`, `project_chunk` and `project_page`, one step each, for a drain
and for a rebuild; `Drop`, `List` and `RebuildEnd` are the rebuild around them.
`Ingest`, `WritePage` and `DeleteCommit` write rows in one step, and
`DeleteDetach` is the Memgraph half of a delete, which `DeleteBroken` cuts off.

What overlaps a rebuild is chosen at the start: drains, or writers. Writers and
drains do not overlap (that is `IndexSync`), and with all three at once a rebuild
can write an old title over a newer one whose row is settled (Disagreements).

| Property of `StructuralGraph_rebuild` | Shows |
| --- | --- |
| `SettledIsShown` | what a drain has settled is in the graph, node and edges, in whatever order entities were projected, and whatever Memgraph refused on the way, unless a rebuild has dropped the graph and not completed |
| `RebuildExact` | a rebuild beside any drains ends with the nodes and edges of the present rows and files, and no others |

Two chunk ids of one source let a chunk be replaced and a page cite a live and a
dead one; four ingests and page writes give every order of ingest, synthesis,
re-ingest and promotion. A second source would share nothing with the first but
the page that cites both. Memgraph may refuse any statement, which leaves a
drain's row failed, ends a rebuild and cuts off a deletion. Processes that are
killed as well (`"crash"` in `Faults`) multiply the states by five: with three
writes that instance passes too, in some minutes, and is not among the runs; the
theorems hold for all faults.

### CurationSignals

`status[s]` is "none" until the insertion of s is committed; `new[p]` holds what
p's run has inserted before that. A run is `RunStart` (candidates, pairs
proposed before), `RunPropose`, `RunInsert` (minus the open keys),
`RunAutocurate`, `RunCommit`. The curator's commands read first (`SynthRead`,
`PromoteRead`, `ResolveRead`), then take row locks in the order of their
UPDATEs: `WritePage` the page's, `SetStatus` the signal's, until `Commit`.
`FindSignal` is `address_on_promote`; `ResolveLink` commits its edge on its own.

| Run | Result |
| --- | --- |
| `CurationSignals_overlap` | two processes, failures, repeated answers: one open signal per key and a pair proposed by one run only, as long as runs do not overlap; every approved candidate has its edge; commands never wait on each other in a circle |

Two signals per key are needed for a duplicate and suffice for one; both begun
on their concept, they are what a promotion has to choose from. Pages
start in any status because `page synth` and `page promote` need no signal.

`NoStandstill` says that of two busy processes one can go on. It is an invariant
over `ENABLED`, stated instead of fairness: with row locks taken in one order
there is no circle, and PostgreSQL queues the waiters of a row. `WaitsEnd` says
it without `ENABLED` and for chains of any length: a page or signal row is
locked by one command, and who waits does so for one that can go on, or that
waits for one that can. With two processes it would repeat `NoStandstill`, so no
run checks it; it is proved.

### SlowLoop

The watermarks are times: of the newest extracted edge for extraction, of the
newest signal for contradiction candidates. Times only meet in comparisons with
the watermark, so the module keeps what the comparisons give: `newer`, the pages
an incremental listing returns, and `before`, which runs a page write that is
still open will have begun before. `owed` is the history of what a step has not
looked at in its current text. A run is `LoopStart`, `List`, then per page
`PassOver` (no vector yet) or `Look`, with `Skip`, `Raise` and `Die` for what
fails, `StepEnd` and `LoopCommit`.

| Property of `SlowLoop_scheduled` | Shows |
| --- | --- |
| `NothingMissed` | if writes and syncs stay out of runs and none fails (`careful`), what was not looked at is newer than the watermark |
| `EventuallyLooked` | without that care, the sweep looks at each changed page in the end |

Two pages and one that is created, two writes, one failure, a sweep each third
run: enough for a write that is open while the mark moves past it, and for two
incremental runs between sweeps. One runner: two that overlap count the same
runs and can skip the sweep (below). Fairness (`ScheduledSpec`): the timer starts
runs again and again, a run goes on, an open write ends, a sync embeds what is
committed. The failures are bounded, as in the end runs must succeed.

### Inbox

`inbox`, `processed` and `failed` hold the content under each name, `source[i]`
a source's hash, path and text. `Scan` lists, `NextFile` picks, `Read`, `Check`,
`Parse` and `Store` are `_ingest_one`, `Raise` is `_safe_ingest_one`'s handler,
`Route` the rename, which takes whatever the name then holds. The final
`sync_pending` is `IndexSync`'s `SyncStart`.

`Inbox_outage`: one processor that may die anywhere, PostgreSQL failing at any
statement. What goes to `processed/` is in the corpus at that moment
(`ProcessedIsKnown`); each path has one source, and a source whose bytes can be
parsed has their text and no other (`CorpusSound`).

Five drops of three contents under two names cover a repeat, an update, a
revert and a content under both names. A file replaced while it waits ("replace"
in `Faults`) is excluded: the documentation asks for finished files; two
processors at once are excluded because `CorpusSound` fails then (below).

### ObjectStore, ObjectMap

`object[k]` is the row under a (collection, key), with the source it says it was
promoted to; `source`, `live` and `page` are the corpus. `promote` is
`PromoteRead`; ingest's `Check`, `Store` and `Insert`, which are one transaction:
`Store` inserts the source, stores its text and chooses the page's slug from the
committed ones, `Insert` inserts the page and commits, or rolls both back where
another transaction has taken the slug; `PageLook` and `PageWrite` for the second
call of `generate_source_page`, which finds the page; and `RePut`. Other agents,
`Stop`, `DeleteSource` and `IngestFile` come in between; the last is the ingest
of a file that changes, whose source a promotion of the same bytes finds.

| Property of `ObjectStore_promote` | Shows |
| --- | --- |
| `ProvenanceHonest` | the source an object names has, or had before its file changed, the bytes of the body beside it |
| `OnePage` | a source with text has one page, and a page has its source, whoever chose the same slug or stored the same bytes meanwhile |
| `MapPromise` | on keys one agent uses at a time the store implements `ObjectMap`: `map` is the bodies, `writes` the puts and deletes |

`Shared` keys are used by both agents at once, the others by one at a time;
`MapPromise` is about the latter, as on a shared key the put at the end of a
promotion undoes a newer one (below). One key of each kind, two bodies with text
and one without, two promotions, two ids and slugs, and two writes of a key: two
agents that promote one body or two, a slug that both choose, a file that has the
promoted bytes or changes them, and a deletion at any moment. Titles are all
alike, so that slugs always meet.

### Vault, Backup

A text is the number of the revision it was written for, so that "older" can be
said. `write_page` is `Look`, `WriteRow` (takes the row's lock), `OpenFile`
(truncates), `FillFile`, `Commit` or `Abort`; `Promote` and `Parse` go before
the same steps. `Backup` adds `Dump`, one `TarFile` per page, and `Restore`,
`RestoreRows`, `Wipe`, `Extract`; `torn` marks a corpus that is half restored.

| Property of `Backup_restore` | Shows |
| --- | --- |
| `FileCovers` | a committed page's file is never older than its row; a write that was cut off may have left it empty |
| `ArchiveCovers` | so is it in the archive, although dump and tar see two moments |
| `StatusMoves` | a status other than the one of its kind is a recorded promotion, from the revision it left to the one it made |
| `RestoreReturns` | a restore that succeeds leaves what the archive has |
| `GoesBack` | if nothing runs beside backups, a restore goes back to one moment as a whole, or is known to be torn |

In half of the behaviours the operator is `quiet`, running nothing beside a backup.
Of those `GoesBack` says that `Backup` implements `AtomicBackup`, whose backup
saves the corpus in one step and whose restore ends with that corpus or with one
that is known to be torn. The corpus is rows, events and files together; from the
moment the restored rows are in, the mapping counts the files about to be
extracted as present (`Present`), which the extraction then has to make true.
The other half has the backups that `ArchiveCovers` is about, beside which pages
are written.

`Apart` lists the pairs of commands that an operator keeps apart, because the
code does not: promotions and deletions with anything that writes the page
(below) and restores with everything. Writes overlap writes; writes and
promotions overlap the backup. One source page, one concept page, four revisions and two processes: a write or
promotion during a backup, and a restore over what was written after it.
`Faults` without "errors" takes it that `pg_restore` restores every row.

### Retrieval

A question from the rewrite to its committed trace rows. What a store finds is
any sequence of at most four pages; everything after it is computed as the code
does, in integers (`Unit`, `Whole`): `Fused`, `Coverage`, `Reached`, `Merge`.
`Fail` is any exception, which rolls the transaction back; the graph's failure
alone is tolerated (`Expand`).

| Property of `Retrieval_ask` | Shows |
| --- | --- |
| `FoundLeads` | graph expansion never displaces what was found |
| `AnswerGrounded` | a composed answer cites the first pages of its own query's trace, and at least one |
| `ReturnedIsTraced` | a command that returned has left its rows, one that failed and a replay none |
| `ReachedByPath` | a page that expansion added is at its hop from a seed by a shortest path, and has the best score any seed gives it |
| `GapIsCurated` | a refusal has a gap, and curation's selection has the gap as long as fewer than `SelectLimit` weak traces are newer |

Four pages in two lists give all ties and partial overlaps; two more nodes and
three graphs give paths of one and two hops into and out of the ranking. Three
of top-k with two seeds leave a place to fill and one to fight for. Curation reads
after up to three other queries (`Since`), each covered or not, and selects two
traces, so that a gap is found beside newer ones and behind others. `RrfK` and
the decay keep the proportions of the defaults (60, 0.3, 0.5), not their sizes.

### ServiceUnits

`main` and `trigger` are the unit's files, which an uninstall on Linux unlinks one
after the other (`RemoveTrigger`, `RemoveMain`), `enabled` and `active` what the
scheduler knows. `Install` and `Uninstall` begin the commands, whose steps differ
by `os`. `refused` remembers a unit the scheduler did not stop: the code ignores
that result.

| Property of `ServiceUnits_install` | Shows |
| --- | --- |
| `InstallTakes` | an install that reports success leaves the unit loaded with what was asked; but a server that ran goes on with its old arguments on Linux |
| `NoOrphans` | a unit without files does not run, unless the scheduler refused to stop it |

A triggered and an always-on unit have all the file layouts there are; two
settings and two operators make a reinstall with a change, and a command on one
unit that reloads the other. Commands on one unit do not overlap.

### Chunking

`Window` and `LastWindow` are the loop of `_sliding_windows`, `AddChunk` the strip
and the dedup, by a hash in which any run of blanks counts as one space
(`Squeezed`): a piece that differs from a stored one in blanks only is dropped.
`seen` goes on through all sections of a document, the module has one.
`Chunking_windows` has every section of up to six characters, two
letters and two blanks, every target up to four and overlap up to five, so
overlaps below, at and above the target: `NothingLost` (each character that is
not blank is in a window, and the window's piece is stored or one of the same
words is); `WindowsAdvance`, by which
each window starts behind every earlier one and ends no earlier; and `Ends` under
weak fairness of a loop that runs.

## Disagreements

Where the code and what a document, a comment or a test says of it disagree. None
is kept as a run; where an instance is given, changing those constants of a
configuration shows it.

* Semi-auto curation is documented to draft "concept pages from eligible signals"
  (`docs/operations/autocuration.md:10`) and drafts none: each draft looks its
  signal up on another connection, before the run commits
  (`curate/autocurate.py:78`). In `CurationSignals` no run's draft is ever found.
* A failed sync row is never claimed again: `claim_pending_sync_rows` selects
  pending rows only (`db/repository.py:681`), while `docs/Compendium.md:362` has
  "Failed writes back off and retry".
* A curator's link between the extractor's check and its MERGE is stamped as
  extracted (`graph/schema.py:200` against 152-153): `CuratorKept` stated without
  `Serial`.
* A backfill after a delete whose graph half failed persists edges of the
  deleted source, and each rebuild recreates its node
  (`graph/semantic_edges.py:144` against `docs/Compendium.md:795`):
  `RebuildFaithful` with "delete" in the faults of the first regime.
* A curator's link over an extracted edge keeps the extraction's model,
  confidence, time and revision in the graph and loses them in the row
  (`graph/schema.py:204` against `db/repository.py:1406`), until a rebuild or a
  backfill makes the stores alike, where "the persisted PostgreSQL row matches
  the graph edge exactly" (`graph/schema.py:112-114`): `StoresAgree` with its
  second disjunct left out.
* A curator's symmetric edge is not canonicalised, so a pair can hold two
  (`graph/schema.py:116` against `docs/operations/edge-extraction.md:70`).
* An extracted edge pruned by a query keeps its row and returns with the next
  rebuild (`edge-extraction.md:73` calls the decision reversible by predicate).
* Synthesis reopens a dropped or addressed signal (`curate/synth.py:44` against
  `curate/lifecycle.py:5`) and turns a canonical page into a draft without a
  promotion event (`wiki/synth.py:151` against `docs/Compendium.md:1819`).
* Of two signals begun on one concept a promotion closes one
  (`db/repository.py:1309` against `docs/Compendium.md:1681`), and deprecating
  the page marks the other addressed (`trace/promote.py:91`).
* An answer that names a neighbour twice inserts two candidates; dropping one
  leaves the other asking (`curate/contradict.py:248` against
  `docs/Compendium.md:723`).
* Two watcher fires on one file: the slower one fails on the hash's key and moves
  the good file to `failed/`, or, on an update, parses after the file was moved
  and stores the source again without text (`ingest/pipeline.py:107`, 187 against
  `inbox/process.py:15-17`): `CorpusSound` with two processors and
  `Alone = FALSE`.
* A file that is unchanged under a second name, then replaced under the first:
  its content is in `processed/` and no longer in the corpus
  (`ingest/pipeline.py:96` against `docs/operations/inbox.md:178-181`).
* A drain marks a row indexed by its id, whatever was written since it read the
  entity: an overlapping page write is lost with an empty queue
  (`index/sync.py:117` against `docs/Compendium.md:281`): `NoSilentLoss` stated
  without `Exclusive`.
* After a rebuild that stopped between the drop and the replay a curate run finds
  no edge in its way and overwrites the curator's row
  (`graph/semantic_edges.py:59` against
  `docs/operations/edge-extraction.md:67-68`).
* A database failure becomes a failed result, and a good file goes to `failed/`
  (`ingest/pipeline.py:78` against `docs/operations/inbox.md:132-133`). A file of
  the same name that is moved on the same day replaces the earlier one
  (`inbox/process.py:80`).
* The control arm of a validation stores a trace with fallback and coverage 0,
  which curation selects as a low-coverage question (`retrieve/pipeline.py:226`
  against `docs/Compendium.md:770`). Of weak traces curation reads the 500 newest
  (`db/repository.py:1335`): a gap with 500 newer weak traces is not seen.
* Of a shared key a promotion's last put undoes a newer put or a deletion
  (`objects.py:89`), so `MapPromise` is about keys that agents do not share. A promotion of an
  edited object makes a second source. The source that `promoted_to_source` names
  may be that of a file with the same bytes, which a later ingest of the file
  gives others: "the resulting source" (`objects.py:87`) then has another text.
* "Exactly one `query_traces` row, regardless of outcome"
  (`retrieve/pipeline.py:350`), but an exception rolls it back, also that of an
  `ask` whose tokens have been streamed. What the trace of an `ask` holds as its
  query is the rewritten question, and `distinct_ask_questions` returns those.
* Expansion takes no part in the tag filter, brings back deprecated pages and
  never starts from a source page (`retrieve/expansion.py:73`, `search.py:8-9`);
  an ambiguous slug gives an empty body that is cited all the same
  (`answer/compose.py:110`). `low_coverage_traces` uses `<=` where the pipeline
  uses `<`. The alias index is read once per process, stays empty if the database
  was down, and is refreshed by tests only (`retrieve/normalize.py:105`).
* Two curate runs that overlap see the same number of runs and can skip the sweep
  of "every `full_sweep_every` runs" (`edge-extraction.md`); pages without a
  result are labelled again in every incremental run, where the documentation has
  no calls "when nothing changed"; what comes after a failure waits for a sweep.
* Two promotions of one page at once record two transitions from one revision; a
  promotion that overlaps a write reverts its text, and after an aborted write
  publishes a text no revision had (`trace/promote.py:66`): `StatusMoves` and
  `FileCovers` with fewer pairs in `Apart`. A deprecated source page that is
  regenerated is canonical again without an event (`wiki/source_page.py:46`).
* The unlink of a deletion comes after its commit and can take the file of a page
  ingested in between (`maintenance/delete.py:112`). A write that is cut off
  leaves an empty file, and a backup may hold it.
* A backup killed while tar runs leaves a directory that restore accepts
  (`backup/restore.py:57`): a new database and half a vault. Restore looks for
  pages before it empties the vault, not when it does. Any statement `pg_restore`
  failed on is tolerated once it reports ignored errors (`restore.py:28-33`):
  `RestoreReturns` with "errors" in `Faults`.
* An installed server that is installed again with another port goes on with the
  old one on Linux, while its status reports the new one, and shows it as loaded
  whenever the file exists; an uninstall ignores that the scheduler did not stop
  the unit and removes its files (`service_unit/systemd.py:158`). On macOS a
  refused bootout with the bootstrap that fails then leaves the new setting in
  the file and the old one running.
* Only a rebuild removes structural edges and nodes: a re-ingest leaves the
  replaced chunks with their `GROUNDS` edges in the graph, and a page that is
  synthesised again keeps the edges to what it no longer cites, so that a concept
  that has lost its grounding is not found thin (`graph/projection.py:173`
  against `docs/Compendium.md:1963`). A bare node is not "later filled in by its
  own upsert" (`graph/schema.py:67-68`) if its chunk was replaced first. A source
  that is ingested again and cannot be read keeps its old node, page and edges. A
  rebuild that dies leaves a graph that no drain completes: no sync row is
  enqueued. A rebuild that overlaps a write and the drain of it can put the old
  properties back under a settled row. Synthesis writes no topic link
  (`wiki/synth.py:145`), so the `PART_OF` edges of `docs/Compendium.md:1638`
  between concepts and topics, "automatic on ingest / page write", exist only for
  pages whose file was edited by hand and then promoted.
* After a boundary that is followed by a long word the next window is the overlap
  alone, a chunk its predecessor contains (`ingest/chunking.py:97`).

## What is proved

The type invariants of all modules but `Chunking`, which has none, are proved;
those of `Retrieval` and `SlowLoop` are also model-checked.

`IndexSyncProofs`, for any sources, chunks, number of drainers and bounds, with
or without crashes and store errors:

* `TypeCorrect`: `Spec => []TypeOK`.
* `SilentLossFree`: `Spec => []NoSilentLoss`: with one operator, an entity whose
  row is settled is served as it is.
* `LiveQueued`: `Spec => []LiveIsQueued`.
* `GoneForGood`: `Spec => GoneStaysGone`.
* `ReindexComplete`: `Spec => ReindexRestores`.
* `DrainsSettle`: `Spec => DrainSettles`.
* `ServesAsPromised`: `Spec => ServesCurrent`, the refinement of `ServedIndex`, if
  `Exclusive` (the single operator).

`NoSilentLoss` is not inductive: it says nothing of a drainer between its read
and its mark. The inductive invariant `SafeInv` adds

* `FileFacts`: the page of a live source has a file at least as new as its row,
  a source past its delete's commit has nothing alive and no writer, and a
  delete holds ids of its own source (also needed so that `DeleteUnlink` and
  `DeleteDerived` touch only dead entities);
* `Solo`: at most one drainer runs, and no writer while it does;
* `Held`: what the drainer has read is current, and after the upsert so is the
  document;
* `TagCover`: a chunk that a tag change did not list is still pending.

Each action is shown to preserve each conjunct, most by a frame lemma per group
of untouched variables.

`LiveIsQueued` needs only `TypeOK` and `FileFacts` beside it (`QueueInv`): a row
is deleted with its entity, or by a drain that finds the entity gone, and
whatever is born is enqueued in the transaction that creates it. `GoneStaysGone`
follows from `GoneInv`, which adds `Births`: the dead are not born again. For a
reindex `RebuildInv` says where each entity of its scope is (`Restoring`): out
of the store if it is not live, else listed, pending, claimed, in hand,
restored or failed; when the reindex finishes only the last two are left.
`DrainsSettle` has `Settling`: of what a drain covers, a pending row is one that
it has claimed and not taken, or the one in hand.

`ServesAsPromised` maps each step to a `Write` (a commit, of the entities it
enqueues), a `Serve` (an upsert), a `Settle` (a mark), a `Remove` (a drop, or the
best-effort deletes) or a stutter. `SafeInv` does not say that a row is
still unsettled when a drainer that has claimed it writes the document;
`FollowInv` adds `Claims`: the row of a live entity that a drainer has in hand or
is still to take is the entity's own, pending, and taken once. The only assumption is `SyncAssumption`, on the constants.

`CurationSignalsProofs`, for any names, keys, processes, mode, bound and faults,
runs that overlap included:

* `TypeCorrect`: `Spec => []TypeOK`.
* `ApprovalLinked`: `Spec => []ApprovedIsLinked`: an addressed contradiction
  candidate has its edge.

Commands decide on what they read and act later, so the state of the signals
says nothing of what a process is about to do. `LinkInv` adds `JobFacts` (an
approval that is past its link has its edge, only an approval reaches the link,
only page commands the page, and the signal that synthesis or promotion will
move names a concept) and `BegunFacts` (only signals that name a concept are
ever in progress, which is why a promotion never addresses a candidate).

* `NobodyWaitsInACircle`: `Spec => []WaitsEnd`. `LockInv` adds to `LinkInv` that a
  row has one holder (`OneHolder`) and what a command can hold at each step
  (`LockFacts`): a page row is held by a command that looks for its signal, waits
  for it or is about to commit, a signal row only by one that is about to commit.

* `OneOpenSignal`: `Spec => []OneOpenPerKey`.
* `PairAskedOnce`: `Spec => PairOnce`.

Both are about curate runs that do not overlap each other; the other commands
may overlap them and each other. A run decides on the keys that are open before
it and inserts at its end: `OpenInv` adds `RunInv`, by which one run at most is
on its way (`OneRun`), what it has inserted and not committed is in no other
hand (`HandVisible`), and each key it has proposed is not open elsewhere, nor
each pair known (`RunFacts`); a signal that other commands move meanwhile
is not opened by them. The assumption is `CurationAssumption`, on the constants.

`ObjectStoreProofs`, for any keys, shared or not, bodies, agents, ids, bounds and
faults:

* `TypeCorrect`: `Spec => []TypeOK`.
* `HonestProvenance`: `Spec => []ProvenanceHonest`. What an object says does not
  cover what a promotion is about to write into it; `HonestInv` adds
  `AgentHonest`: the source a promotion has in hand has, or had, the bytes it
  read.
* `SourcesPaged`: `Spec => []OnePage`, with `SlugChosen`: an ingest that is about
  to commit a text has chosen its page's slug. So the source and its page
  become visible in one step or not at all, a deletion removes both in one step,
  and ids are not used twice.
* `ImplementsMap`: `Spec => MapPromise`, the refinement of `ObjectMap`. `OwnInv`
  says that of a key that is not shared one promotion is in hand, and that the
  object still has the body it read, so that its last put is a stutter of the
  map; every other step is a write of the map or leaves it alone.

The assumption is `ObjectStoreAssumption`, on the constants.

`ServiceUnitsProofs`, for any units, settings, operators and bound, on both
systems:

* `TypeCorrect`: `Spec => []TypeOK`.
* `OrphanFree`: `Spec => []NoOrphans`, wherever commands die, whatever the
  scheduler refuses and however commands overlap on different units.
* `InstallsTake`: `Spec => InstallTakes`, likewise.

`NoOrphans` is not inductive either: it does not say what a command that is half
way relies on. `CommandOK` says that an install has written what it was asked in
its files before the scheduler hears of them, and that an uninstall has stopped the unit, or was
refused, before it removes them; `OneAUnit` that a unit has one command at a
time; `Accounted` that a unit that is not installed is loaded only if the
scheduler refused to stop it. The assumption is `ServiceUnitsAssumption`, on the
constants.

`StructuralGraphProofs`, for any sources, chunks, concept pages, drains, bounds and
faults:

* `TypeCorrect`: `Spec => []TypeOK`.
* `OrderFree`: `Spec => []SettledIsShown`.
* `Reproduces`: `Spec => RebuildExact`.

`SettledIsShown` says nothing of a projection that is half way, and a rebuild
empties the graph under rows that stay settled. `ShownInv` adds

* `RowFacts`, `Rowed`: ids are used once, a live chunk has a live source, only
  what was written has a sync row, and a deletion detaches only what is gone;
* `Turns`: what a rebuild may overlap;
* `Fresh`: what a projection has read is current, or (in a rebuild beside
  writers) its row is no longer settled;
* `Promises`: each part of an entity that is settled, or that a drain has in
  hand, is in the graph, or that drain or the rebuild is still to merge it.

`ExactInv` is about a rebuild beside drains: nothing is in the graph that does
not belong there (`Extent`), the edges left to merge are edges of the entity in
hand, and each live entity is rebuilt or still to come (`Rebuilt`). At the end
nothing is to come, so that the graph is that of the rows and files. The
assumption is `StructuralGraphAssumption`, on the constants.

`SemanticEdgesProofs`, for any nodes, sources, processes and regimes:

* `TypeCorrect`: `Spec => []TypeOK`.
* `StoresAgreeing`: `Spec => []StoresAgree`.
* `CuratorKeeps`: `Spec => CuratorKept`.
* `RebuildFaithfully`: `Spec => RebuildFaithful`, under `SoundDeletes`.

The invariants build on one another:

* `WorkInv`: types; what each command can be at and have in hand there; an
  extracted edge has its canonical orientation wherever it is, in the stores, in
  a transaction or in hand.
* `RebuildInv`: a rebuild that runs alone finds in the graph the rows it has
  replayed and no other (`Replayed`). As the rows come in their order, the
  reverse of an extracted edge, which comes after it in canonical orientation,
  is not there yet, so that the protecting write path drops none.
* `SerialInv`, when commands take turns: at most one command is at work, the
  graph agrees with the rows on what no rollback left behind (`Told`: but for the
  keys that a curator's link merges), and a row is a
  curator's only if the edge is (`Agreed`); what is to be committed is in the
  graph (`MatchedBy`), and what was looked up before a merge still holds
  (`CheckedBy`). `StoresAgree` and `CuratorKept` are read off this.
* `LiveInv`: edges, rows and what is in hand are between pages that are alive.

`RebuildFaithfully` assumes `SoundDeletes`: in a regime in which commands take
turns and no rebuild dies, the graph half of a delete does not fail. Without it
the last part of the property (no other nodes) is false, by the disagreement
about backfills above; the run's regimes satisfy it. The other assumption is
`EdgesAssumption`, on the constants.

`BackupProofs`, about `Vault` and `Backup`, for any slugs, processes, bounds and
faults, and any set `Apart` of commands that do not overlap:

* `TypeCorrect`: `Spec => []TypeOK`.
* `FilesCover`: `Spec => []FileCovers`, and `ArchivesCover`:
  `Spec => []ArchiveCovers`, if `Orderly`.
* `RestoresReturn`: `Spec => RestoreReturns`, if `Orderly` and no tool of the
  restore reports an error that the code reads over.
* `StatusesMove`: `Spec => StatusMoves`, if `PromotesAlone`.
* `RestoreGoesBack`: `Spec => GoesBack`, the refinement of `AtomicBackup`, if `Orderly`
  and, again, no tool of the restore reports an error that the code reads over.

`Orderly` asks that a deletion overlap no write of a page and no backup, and a
restore nothing; `PromotesAlone` that a promotion overlap no promotion, write or
restore. The code has no lock for these; the run's `Apart` satisfies both,
and the disagreements above tell what happens otherwise. Writes and promotions
still overlap backups, and writes each other. `TypeInv` says
who holds a row's lock and what a command has in hand there. `CoverInv` adds that
revisions are numbered in the order of the locks (`Ordered`), so that the file of
a row is never older, also for the write about to commit (`Filled`); what a
deletion (`Unlinking`) and a restore (`Restoring`) are half way; and that an
archive's dump is not ahead of the rows and each file already in its tar covers
its page there (`Dumped`): the dump comes first, and files only get newer.
`MoveInv` says that what a promotion has read is still so, or the page is gone.
For the refinement `AtomicInv` adds, of a quiet operator, `Still`: while tar reads,
rows and events are those dumped, and each file in the tar is the one in the vault
(`TarSole`: nothing else takes a step meanwhile); so the end of tar saves the present corpus.
The assumption is `VaultAssumption`, on the constants, by which there are
finitely many processes (an archive is made by one of them at a time).

`InboxProofs`, for any files, contents, ids, processors and bound:

* `TypeCorrect`: `Spec => []TypeOK`, processors that overlap included.
* `SoundCorpus`: `Spec => []CorpusSound`, and `ProcessedKnown`:
  `Spec => ProcessedIsKnown`, if `Alone` and "replace" is not in `Faults`.

A processor hashes a file, looks for the hash and the path, parses the file
again, and stores and moves it. `CorpusInv` says that meanwhile the file is as it
was hashed, the text in hand is its own, and the source at its path is the one
that was found (`InHand`), which holds for one processor (`Single`) and files
that nobody replaces while they wait. The assumption is `InboxAssumption`, on
the constants.

Two proof modules hold the theorems of more than one component, so `SlowLoop`,
`Chunking` and `Retrieval` name their state predicates and specifications after
themselves (`LoopSpec`, `ChunkSpec`, `AskSpec`).

About `SlowLoop`, at the end of `CurationSignalsProofs`, for any pages, runners,
sweep periods and bounds:

* `LoopTypeCorrect`: `LoopSpec => []LoopTypeOK`.
* `NothingIsMissed`: `LoopSpec => []NothingMissed`.

`NothingMissed` speaks of the rests between runs. `LoopInv` says that a runner
that has not listed holds nothing (`LoopHeld`), that with care no write and no
sync is under way beside a run (`LoopCalm`), and that a run has on its plan
whatever is newer than the watermark, so that what has not been looked at is
newer or still on a plan (`LoopWatched`). The assumption is `SlowLoopAssumption`.

About `Chunking`, in `InboxProofs`, for any letters, length of a section, target
and overlap:

* `NothingIsLost`: `ChunkSpec => []NothingLost`. `CutInv` says that the characters
  before the next window's start are covered (`Kept`), each by a window that is
  in the section (`Windowed`) and whose text is stored, or one of the same words. What it rests on is
  that a window ends behind its start and within the target (`BoundaryFacts`),
  and the next one starts behind this one's start and not behind its end
  (`NextStartFacts`). The assumption is `ChunkingAssumption`.
* `WindowsGoForward`: `ChunkSpec => WindowsAdvance`. The end of a window is looked for
  anew each time, in text that the one before may have had; `BoundaryAdvances`
  says that a search that starts later finds no earlier end, and `AdvanceInv`
  that no window so far ends behind the one to come. As starts are natural
  numbers below the length of the section and each is greater than the last, the
  loop ends; the step from that to `Ends` needs fairness and stays with TLC.

About `Retrieval`, in `InboxProofs`, for any pages, hit lists, graphs, pool, cut,
seeds and hops, any weights by hop and any thresholds:

* `AskTypeCorrect`: `AskSpec => []AskTypeOK`.
* `RowsOfACommand`: `AskSpec => []ReturnedIsTraced`.
* `AnswersRestOnPages`: `AskSpec => []AnswerGrounded`, if the threshold for refusing
  is not zero.
* `WhatWasFoundLeads`: `AskSpec => []FoundLeads`, if `SeedsOutweigh`.
* `GapsReachCuration`: `AskSpec => []GapIsCurated`, if `RefusesLess`.
* `ExpansionIsByPath`: `AskSpec => []ReachedByPath`.

The order of the ranking is total on entries of different ids, so each entry has
a place of its own, the number of entries ahead of it (`Places`), and the ranking
lists each at its place (`RankedFacts`). `RankInv` says that what was found is
the fusion of two lists, and that the ranking is not empty if that is not;
`RowsInv` what the rows hold at each step; `GapInv` that a gap is the decision on
the coverage. That coverage is a fraction needs the sum over the ranks, a
recursive function, to exist: a first rank without one would have one
(`SumExists`).

`ReachedByPath` speaks of paths and the code of levels: `Within` is another
recursive function, whose levels exist (`LevelsExist`). What is in the
n-th level is what n edges or fewer join to the seed (`WithinIsJoined`), so the
walk finds each node at its least distance (`WalkFinds`), of several offers of a
page the best is kept (`ReachedIsByPath`), and what the merge adds to the ranking
is among the reached (`MergeAdds`, `PathInv`).

`FoundLeads` is the one that depends on the numbers. The entities at the first k
ranks of one list each have at least what their rank gives, and cannot all be
ahead of the one at place k (`Crowd`), so the k-th of the fused ranking has at
least what rank k gives (`KthBest`). A page that is reached gets at most the
weight's share of twice the first rank (`ReachedFacts`). By `SeedsOutweigh`,
2 * weight * (k + top) <= k + 1 with k for `RrfK`, that is no more than the last
rank of the answer, at a tie what was found goes first, and the leaders keep
their places (`LeadersStay`). The defaults satisfy it (40.2 <= 61), as does the
run; the code does not enforce it. With a weight above 0.45 at the default
`rrf_k` and `top_k` nothing is proved, and with one near 1 a page next to the best
seed does outrank pages that were found by one store. `RefusesLess` is that
`refuse_below_coverage` is no higher than `page_coverage_threshold` (0.3 and 0.5).
`MCRetrieval` has these hypotheses as an `ASSUME`. The assumption is
`RetrievalAssumption`, on the constants; of `Unit` it asks that all ranks divide
it, so that integers lose nothing.

The runs check these theorems' properties on constants that satisfy their
hypotheses.

With these every invariant and action property that a run checks is proved, but
one, and so are all three refinements (`ObjectMap`, `ServedIndex`,
`AtomicBackup`). Only model-checked: liveness (`EventuallyLooked`, `Ends`) and
`NoStandstill`, since the prover handles neither fairness nor `ENABLED`;
`WindowsAdvance` and `WaitsEnd` are what is proved in their place.

## Plan

The modules above are those of the plan, its abstract specifications among them.
What is left is to model: URL sources in `Inbox`; the alias index and the tag
filter in `Retrieval`; lint; the token stream of `POST /ask` and the TUI's
background loads.

## Not modelled

Text, prompts, prices, ranking weights, rendering and logging; the stores'
internals (a call is an atomic read or write that may fail, an OpenSearch or
Qdrant upsert that timed out may have been applied); topic nodes,
which are projected as concepts are and linked by hand only; manual SQL or Cypher except the documented edge removal. `2Deploy/` is an older
copy of the package; the modules follow `compendium/`, and about half of
the repository's Python is left aside with that copy. Of the package itself the command line, the renderers, the TUI, the
web and the MCP routes only pass on calls; adapters, configuration, profiling,
statistics and validation read and report. `CurationSignals`
leaves out the `gap` and `unresolved_contradiction` kinds (the first behaves as
`coverage`, the second can only be dropped), `graph link` between concepts, and
the vault file; a wrong slug match is not followed. `SemanticEdges` has one
directed type for three. `Vault` has no lint and no `wiki reset`; the off-host copy
of a backup changes neither corpus nor archive. `Retrieval` leaves out query
normalisation, the tag filter and snippets; one question runs at a time, since
questions share nothing but the stores they read. `ServiceUnits` leaves out
parsing of intervals and status output. `Chunking` has one section, without
headings.
