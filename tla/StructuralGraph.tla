--------------------------- MODULE StructuralGraph ---------------------------
(***************************************************************************)
(* The structural half of Memgraph: the nodes of sources, chunks and       *)
(* concept pages and the automatic edges between them.                     *)
(*                                                                         *)
(* Two commands write it from PostgreSQL and the vault: a drain projects   *)
(* the entities that have a pending sync row of kind memgraph, and         *)
(* `graph rebuild` drops the graph and projects everything.  Projecting    *)
(* one entity is a read and then one MERGE per node and edge, and a MERGE  *)
(* of an edge creates the endpoints it does not find, so that the order in *)
(* which entities are projected should not matter (schema.py:5-7, 67).     *)
(*                                                                         *)
(* A source and its chunks are replaced under fresh chunk ids; a page's    *)
(* text is the set of chunks its grounding section cites.  A write of rows *)
(* or of a page is one step here: Vault and IndexSync have its parts.      *)
(***************************************************************************)
EXTENDS Naturals, Functions

CONSTANTS
  Sources, Chunks, Concepts,
  SourceOf,     \* the source a chunk id belongs to
  Drainers,     \* processes that run `index sync`
  Rebuilder,    \* the process that runs `graph rebuild`
  MaxWrites,    \* bound: ingests and page writes
  Faults        \* which faults occur: "crash" of a process, "store" errors

ASSUME StructuralGraphAssumption ==
  /\ Sources \cap Chunks = {} /\ Sources \cap Concepts = {} /\ Chunks \cap Concepts = {}
  /\ SourceOf \in [Chunks -> Sources]
  /\ Rebuilder \notin Drainers
  /\ MaxWrites \in Nat \ {0}
  /\ Faults \subseteq {"crash", "store"}

Entities == Sources \cup Chunks \cup Concepts
Procs == Drainers \cup {Rebuilder}
ChunksOf(s) == {k \in Chunks : SourceOf[k] = s}

VARIABLES
  version,   \* version[x]: of a source's row, a chunk's, a concept page's; 0: none
  page,      \* page[s]: the version of source s its source page was made from
  gone,      \* ids that were in PostgreSQL and are not any more
  cites,     \* cites[c]: the chunk ids in the grounding section of c's file
  row,       \* row[e]: state of the memgraph sync row of e's page or chunk
  node,      \* node[x]: Absent, Bare (an id only) or Full(version)
  edges,     \* structural relationships <<type, from, to>>
  partial,   \* a rebuild has dropped the graph and none has completed since
  deleting,  \* deleting[s]: where delete_source(s) stands, and the ids it read
  overlap,   \* what overlaps a rebuild: "drains" or "writers"
  pc, todo, stage,      \* per process: step, entities left, listing in hand
  cur, seen, merges     \* per process: entity in hand, version read, edges left

canon == <<version, page, gone, cites>>
graph == <<node, edges>>
work  == <<pc, todo, stage, cur, seen, merges>>
vars  == <<canon, row, graph, partial, deleting, overlap, work>>

Absent == 0
Bare == 1
Full(v) == v + 1

None == "none"
NoDelete == [phase |-> "idle", ids |-> {}]

Live(S) == {x \in S : version[x] > 0 /\ x \notin gone}

-----------------------------------------------------------------------------
(* What the structural graph of the present rows and files is.             *)

PartOf(k) == <<"PART_OF", k, SourceOf[k]>>
Evidences(k) == <<"EVIDENCES", SourceOf[k], k>>
Grounds(c, k) == <<"GROUNDS", c, k>>

(* Mutant of Grounding: cited ids that have no row any more are kept. *)
GroundingAll(c) == {Grounds(c, k) : k \in cites[c]}

(* The chunks that c's page cites, those that have no row any more left out. *)
Grounding(c) == {Grounds(c, k) : k \in cites[c] \cap Live(Chunks)}

ExpectedNode(x) == IF x \in Live(Entities) THEN Full(version[x]) ELSE Absent
ExpectedEdges ==
  (UNION {{PartOf(k), Evidences(k)} : k \in Live(Chunks)})
    \cup UNION {{Grounds(c, k) : k \in cites[c] \cap Live(Chunks)} : c \in Live(Concepts)}

-----------------------------------------------------------------------------
Idle(p) == pc[p] = "idle"
Writes == SumFunctionOnSet(version, Sources \cup Concepts)
DrainsIdle == \A d \in Drainers : Idle(d)
NoDeletes == deleting = [s \in Sources |-> NoDelete]

(* Nothing is written while a drain runs: the mark it ends with settles the row
   whatever was written meanwhile (IndexSync).  A rebuild overlaps either
   drains or writers; both together make its reads stale. *)
MayWrite == DrainsIdle /\ (overlap = "drains" => Idle(Rebuilder))
MayDrain == NoDeletes /\ (overlap = "writers" => Idle(Rebuilder))
MayRebuild == IF overlap = "drains" THEN NoDeletes ELSE DrainsIdle

Init ==
  /\ version = [x \in Entities |-> 0]
  /\ page = [s \in Sources |-> 0]
  /\ gone = {}
  /\ cites = [c \in Concepts |-> {}]
  /\ row = [e \in Entities |-> "none"]
  /\ node = [x \in Entities |-> Absent]
  /\ edges = {}
  /\ partial = FALSE
  /\ deleting = [s \in Sources |-> NoDelete]
  /\ overlap \in {"drains", "writers"}
  /\ pc = [p \in Procs |-> "idle"]
  /\ todo = [p \in Procs |-> {}]
  /\ stage = [p \in Procs |-> "none"]
  /\ cur = [p \in Procs |-> None]
  /\ seen = [p \in Procs |-> 0]
  /\ merges = [p \in Procs |-> {}]

-----------------------------------------------------------------------------
(* Writers.                                                                *)

(* enqueue_index for add; the sync rows of drop are deleted. *)
Enqueue(add, drop) ==
  row' = [e \in Entities |-> IF e \in add THEN "pending" ELSE IF e \in drop THEN "none"
                             ELSE row[e]]

(* _store and generate_source_page: the source is inserted, or updated in place
   and its chunks replaced by new ones; its page is written when there are any,
   and stays as it is when the file could not be read. *)
Ingest(s, K) ==
  LET old == Live(ChunksOf(s)) IN
  /\ MayWrite /\ deleting[s].phase = "idle" /\ s \notin gone
  /\ Writes < MaxWrites
  /\ K \subseteq ChunksOf(s) /\ \A k \in K : version[k] = 0
  /\ version' = [x \in Entities |-> IF x = s THEN version[s] + 1
                                    ELSE IF x \in K THEN 1 ELSE version[x]]
  /\ page' = IF K = {} THEN page ELSE [page EXCEPT ![s] = version[s] + 1]
  /\ gone' = gone \cup old
  /\ Enqueue(IF K = {} THEN {} ELSE K \cup {s}, old)
  /\ UNCHANGED <<cites, graph, partial, deleting, overlap, work>>

(* write_page of a concept: a synthesis grounds it, new or not, in the chunks
   that match; a promotion writes back the body it has. *)
WritePage(c, K) ==
  /\ MayWrite
  /\ Writes < MaxWrites
  /\ \/ K # {} /\ K \subseteq Live(Chunks)
     \/ version[c] > 0 /\ K = cites[c]
  /\ version' = [version EXCEPT ![c] = @ + 1]
  /\ cites' = [cites EXCEPT ![c] = K]
  /\ Enqueue({c}, {})
  /\ UNCHANGED <<page, gone, graph, partial, deleting, overlap, work>>

(* delete_source up to its commit. *)
DeleteCommit(s) ==
  LET ids == Live(ChunksOf(s)) IN
  /\ MayWrite /\ deleting[s].phase = "idle" /\ s \in Live(Sources)
  /\ gone' = gone \cup ids \cup {s}
  /\ Enqueue({}, ids \cup {s})
  /\ deleting' = [deleting EXCEPT ![s] = [phase |-> "source", ids |-> ids]]
  /\ UNCHANGED <<version, page, cites, graph, partial, overlap, work>>

Detach(X) ==
  /\ node' = [x \in Entities |-> IF x \in X THEN Absent ELSE node[x]]
  /\ edges' = {e \in edges : e[2] \notin X /\ e[3] \notin X}

(* Its Memgraph half: the source's node, then those of its chunks. *)
DeleteDetach(s) ==
  /\ \/ /\ deleting[s].phase = "source"
        /\ Detach({s})
        /\ deleting' = [deleting EXCEPT ![s].phase = "chunks"]
     \/ /\ deleting[s].phase = "chunks"
        /\ Detach(deleting[s].ids)
        /\ deleting' = [deleting EXCEPT ![s] = NoDelete]
  /\ UNCHANGED <<canon, row, partial, overlap, work>>

(* The store fails or the command dies: the rest of the derived half is left. *)
DeleteBroken(s) ==
  /\ Faults # {} /\ deleting[s].phase # "idle"
  /\ deleting' = [deleting EXCEPT ![s] = NoDelete]
  /\ UNCHANGED <<canon, row, graph, partial, overlap, work>>

-----------------------------------------------------------------------------
(* Projection of one entity, by a drain or a rebuild.                      *)

Goto(p, step) == pc' = [pc EXCEPT ![p] = step]

(* The process has the next of todo to do. *)
Return(p) ==
  /\ Goto(p, "next")
  /\ cur' = [cur EXCEPT ![p] = None]
  /\ seen' = [seen EXCEPT ![p] = 0]
  /\ merges' = [merges EXCEPT ![p] = {}]

(* The command ends. *)
Stop(p) ==
  /\ Goto(p, "idle")
  /\ todo' = [todo EXCEPT ![p] = {}]
  /\ stage' = [stage EXCEPT ![p] = "none"]
  /\ cur' = [cur EXCEPT ![p] = None]
  /\ seen' = [seen EXCEPT ![p] = 0]
  /\ merges' = [merges EXCEPT ![p] = {}]

(* The rows of a source, chunk or concept page: without one there is nothing to
   project, and the drain deletes the sync row. *)
Load(p) ==
  /\ pc[p] = "next"
  /\ \E x \in todo[p] :
       /\ todo' = [todo EXCEPT ![p] = @ \ {x}]
       /\ IF x \in Live(Entities)
          THEN /\ Goto(p, "node")
               /\ cur' = [cur EXCEPT ![p] = x]
               /\ seen' = [seen EXCEPT ![p] = version[IF x \in Chunks THEN SourceOf[x] ELSE x]]
               /\ UNCHANGED <<merges, row>>
          ELSE /\ Return(p)
               /\ row' = IF p \in Drainers THEN [row EXCEPT ![x] = "none"] ELSE row
  /\ UNCHANGED <<canon, graph, partial, deleting, overlap, stage>>

(* upsert_node: MERGE by id, SET n += props. *)
UpsertNode(x, v) == node' = [node EXCEPT ![x] = Full(v)]

(* The node of the entity itself.  A source page and a source row are one node
   and nothing more. *)
MergeNode(p) ==
  LET x == cur[p] IN
  /\ pc[p] = "node"
  /\ UpsertNode(x, IF x \in Chunks THEN 1 ELSE seen[p])
  /\ Goto(p, IF x \in Sources THEN "done" ELSE IF x \in Chunks THEN "source" ELSE "file")
  /\ UNCHANGED <<canon, row, edges, partial, deleting, overlap, todo, stage, cur, seen, merges>>

(* A chunk's source gets the title that was read with the chunk. *)
MergeSource(p) ==
  LET k == cur[p] IN
  /\ pc[p] = "source"
  /\ UpsertNode(SourceOf[k], seen[p])
  /\ merges' = [merges EXCEPT ![p] = {PartOf(k), Evidences(k)}]
  /\ Goto(p, "edges")
  /\ UNCHANGED <<canon, row, edges, partial, deleting, overlap, todo, stage, cur, seen>>

(* _grounding_chunk_ids: the file and the chunk rows are read after the node
   was written. *)
ReadFile(p) ==
  /\ pc[p] = "file"
  /\ merges' = [merges EXCEPT ![p] = Grounding(cur[p])]
  /\ Goto(p, "edges")
  /\ UNCHANGED <<canon, row, graph, partial, deleting, overlap, todo, stage, cur, seen>>

(* Mutant of UpsertEdge: MATCH of both endpoints, so a missing one loses the edge. *)
UpsertEdgeMatched(e) ==
  /\ edges' = IF node[e[2]] # Absent /\ node[e[3]] # Absent THEN edges \cup {e} ELSE edges
  /\ UNCHANGED node

(* upsert_edge: MERGE both endpoints, then the relationship. *)
UpsertEdge(e) ==
  /\ edges' = edges \cup {e}
  /\ node' = [x \in Entities |-> IF x \in {e[2], e[3]} /\ node[x] = Absent THEN Bare ELSE node[x]]

MergeEdge(p) ==
  /\ pc[p] = "edges"
  /\ \E e \in merges[p] :
       /\ e[1] = "EVIDENCES" => PartOf(cur[p]) \notin merges[p]
       /\ UpsertEdge(e)
       /\ merges' = [merges EXCEPT ![p] = @ \ {e}]
  /\ UNCHANGED <<canon, row, partial, deleting, overlap, pc, todo, stage, cur, seen>>

(* The entity is projected; a drain marks its row indexed. *)
Projected(p) ==
  /\ pc[p] = "done" \/ (pc[p] = "edges" /\ merges[p] = {})
  /\ row' = IF p \in Drainers /\ row[cur[p]] # "none"
            THEN [row EXCEPT ![cur[p]] = "indexed"] ELSE row
  /\ Return(p)
  /\ UNCHANGED <<canon, graph, partial, deleting, overlap, todo, stage>>

Writing(p) == pc[p] \in {"node", "source"} \/ (pc[p] = "edges" /\ merges[p] # {})

(* Memgraph refuses a statement: the drain marks the row failed and goes on. *)
StoreError(d) ==
  /\ "store" \in Faults /\ Writing(d)
  /\ row' = IF row[cur[d]] = "none" THEN row ELSE [row EXCEPT ![cur[d]] = "failed"]
  /\ Return(d)
  /\ UNCHANGED <<canon, graph, partial, deleting, overlap, todo, stage>>

(* The process dies; a statement that Memgraph refuses ends a rebuild too. *)
Crash(p) ==
  /\ ~Idle(p)
  /\ "crash" \in Faults \/ ("store" \in Faults /\ p = Rebuilder /\ Writing(p))
  /\ Stop(p)
  /\ UNCHANGED <<canon, row, graph, partial, deleting, overlap>>

-----------------------------------------------------------------------------
(* The two commands.                                                       *)

(* `index sync`: the pending rows. *)
Claim(d) ==
  LET rows == {e \in Entities : row[e] = "pending"} IN
  /\ MayDrain /\ Idle(d) /\ rows # {}
  /\ todo' = [todo EXCEPT ![d] = rows]
  /\ Goto(d, "next")
  /\ UNCHANGED <<canon, row, graph, partial, deleting, overlap, stage, cur, seen, merges>>

DrainEnd(d) ==
  /\ pc[d] = "next" /\ todo[d] = {}
  /\ Stop(d)
  /\ UNCHANGED <<canon, row, graph, partial, deleting, overlap>>

(* `graph rebuild`: drop_all. *)
Drop ==
  LET p == Rebuilder IN
  /\ MayRebuild /\ Idle(p)
  /\ node' = [x \in Entities |-> Absent]
  /\ edges' = {}
  /\ partial' = TRUE
  /\ Goto(p, "next")
  /\ stage' = [stage EXCEPT ![p] = "dropped"]
  /\ UNCHANGED <<canon, row, deleting, overlap, todo, cur, seen, merges>>

(* The listings of a rebuild, each read when the one before is projected. *)
Stages == {"dropped", "sources", "chunks", "pages"}
After == [dropped |-> "sources", sources |-> "chunks", chunks |-> "pages"]

Listing == [
  sources |-> Live(Sources),
  chunks |-> Live(Chunks),
  pages |-> Live(Concepts) \cup {s \in Live(Sources) : page[s] > 0}]

List ==
  LET p == Rebuilder IN
  /\ pc[p] = "next" /\ todo[p] = {} /\ stage[p] # "pages"
  /\ stage' = [stage EXCEPT ![p] = After[stage[p]]]
  /\ todo' = [todo EXCEPT ![p] = Listing[After[stage[p]]]]
  /\ UNCHANGED <<canon, row, graph, partial, deleting, overlap, pc, cur, seen, merges>>

RebuildEnd ==
  LET p == Rebuilder IN
  /\ pc[p] = "next" /\ todo[p] = {} /\ stage[p] = "pages"
  /\ partial' = FALSE
  /\ Stop(p)
  /\ UNCHANGED <<canon, row, graph, deleting, overlap>>

-----------------------------------------------------------------------------
Next ==
  \/ \E s \in Sources :
       \/ \E K \in SUBSET Chunks : Ingest(s, K)
       \/ DeleteCommit(s)
       \/ DeleteDetach(s)
       \/ DeleteBroken(s)
  \/ \E c \in Concepts, K \in SUBSET Chunks : WritePage(c, K)
  \/ \E d \in Drainers : Claim(d) \/ DrainEnd(d) \/ StoreError(d)
  \/ Drop \/ List \/ RebuildEnd
  \/ \E p \in Procs :
       \/ Load(p)
       \/ MergeNode(p) \/ MergeSource(p) \/ ReadFile(p) \/ MergeEdge(p)
       \/ Projected(p)
       \/ Crash(p)

Spec == Init /\ [][Next]_vars

-----------------------------------------------------------------------------
Triples == {PartOf(k) : k \in Chunks} \cup {Evidences(k) : k \in Chunks}
             \cup {Grounds(c, k) : c \in Concepts, k \in Chunks}
Steps == {"idle", "next", "node", "source", "file", "edges", "done"}

TypeOK ==
  /\ version \in [Entities -> Nat] /\ page \in [Sources -> Nat]
  /\ gone \subseteq Sources \cup Chunks /\ cites \in [Concepts -> SUBSET Chunks]
  /\ row \in [Entities -> {"none", "pending", "indexed", "failed"}]
  /\ node \in [Entities -> Nat] /\ edges \subseteq Triples
  /\ partial \in BOOLEAN /\ overlap \in {"drains", "writers"}
  /\ deleting \in [Sources -> [phase : {"idle", "source", "chunks"}, ids : SUBSET Chunks]]
  /\ pc \in [Procs -> Steps] /\ todo \in [Procs -> SUBSET Entities]
  /\ stage \in [Procs -> Stages \cup {"none"}]
  /\ cur \in [Procs -> Entities \cup {None}] /\ seen \in [Procs -> Nat]
  /\ merges \in [Procs -> SUBSET Triples]
  /\ \A p \in Procs : Idle(p) => cur[p] = None /\ todo[p] = {} /\ merges[p] = {}

(* What is to be found in the graph of an entity: its node with what it says
   now, a source's at least as new as its page, and its edges. *)
Shown(e) ==
  \/ /\ e \in Sources
     /\ node[e] >= Full(page[e])
  \/ /\ e \in Chunks
     /\ node[e] = Full(1) /\ node[SourceOf[e]] >= Full(page[SourceOf[e]])
     /\ {PartOf(e), Evidences(e)} \subseteq edges
  \/ /\ e \in Concepts
     /\ node[e] = Full(version[e])
     /\ {Grounds(e, k) : k \in cites[e] \cap Live(Chunks)} \subseteq edges

(* Automatic edges are "present and consistent with the PostgreSQL state"
   (docs/Compendium.md:1963): once a drain has settled the row of an entity, its
   node and edges are there, in whatever order the entities were projected
   (schema.py:67), also after rebuilds that overlapped drains or writers, and
   after deletions.  A rebuild that died owes everything. *)
SettledIsShown ==
  ~partial => \A e \in Live(Entities) : row[e] = "indexed" => Shown(e)

(* A rebuild reproduces the graph (docs/Compendium.md:1964, rebuild.py:8-11):
   beside any drains, and whatever was left behind by deletions that failed,
   chunks that were replaced and pages that cite something else now, it ends
   with the nodes and edges of the present rows and files and no others. *)
RebuildExact ==
  [][partial /\ ~partial' /\ overlap = "drains" =>
       edges = ExpectedEdges /\ \A x \in Entities : node[x] = ExpectedNode(x)]_vars
=============================================================================
