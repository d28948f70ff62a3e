--------------------------- MODULE SemanticEdges ---------------------------
(***************************************************************************)
(* Semantic edges and their two stores.                                    *)
(*                                                                         *)
(* An edge is MERGEd into Memgraph at once and its semantic_edges row is   *)
(* upserted in the caller's PostgreSQL transaction, which commits later    *)
(* (graph/semantic_edges.py).  A curator's link has authority; an edge the *)
(* extractor proposes must not overwrite one that is not its own, which    *)
(* upsert_semantic_edge checks in the graph.  `graph rebuild` drops the    *)
(* graph and replays the rows; `graph backfill-edges` captures in rows the *)
(* edges that predate them.                                                *)
(*                                                                         *)
(* Provenance is abstracted to who wrote the edge and to the extraction's  *)
(* keys (model, confidence, extracted_at, source_revision_id), which stay  *)
(* on an extracted edge that a curator links over; weights are left out.   *)
(* One symmetric and one directed type stand for RELATED_TO and for the    *)
(* other three; a node is a concept page, or a source with its page.       *)
(***************************************************************************)
EXTENDS Naturals

CONSTANTS
  Nodes,      \* graph node ids, in the order of their text
  Sources,    \* the nodes that `source delete` may remove
  Procs,      \* processes: `graph link`, `curate run`, rebuild, backfill
  Regimes     \* what is let happen, see below

Types == {"RELATED_TO", "PREREQUISITE_FOR"}
Edges == {e \in [type : Types, from : Nodes, to : Nodes] : e.from # e.to}
Reverse(e) == [e EXCEPT !.from = e.to, !.to = e.from]
IsSymmetric(e) == e.type = "RELATED_TO"
Touching(n) == {e \in Edges : n \in {e.from, e.to}}

(* Who wrote an edge: the extractor, whose writes carry every extraction key; a
   curator; or a curator, with the keys of an extraction still there. *)
By == {"llm", "curator", "relinked"}

(* What two commands may do at the same time, and what may fail:
     alone     which of "write" and "rebuild" never overlap anything
     faults    "abort" (a transaction rolls back), "delete" (its graph half
               fails), "rebuild" (it dies), "prune" (edges removed by hand)
     legacy    edges written before rows were kept, without provenance
     runEdges  bound: edges one curate run proposes *)
ASSUME EdgesAssumption ==
  /\ Nodes \subseteq Nat
  /\ Sources \subseteq Nodes
  /\ \A r \in Regimes :
       /\ r.alone \subseteq {"write", "rebuild"}
       /\ r.faults \subseteq {"abort", "delete", "rebuild", "prune"}
       /\ r.legacy \subseteq Edges
       /\ r.runEdges \in Nat

VARIABLES
  regime,    \* the one followed
  alive,     \* pages and sources that exist in PostgreSQL
  node,      \* the nodes in the graph
  edge,      \* edge[e]: "none", or its provenance in the graph; "bare" when unset
  row,       \* row[e]: "none", or its provenance in the committed row
  deleting,  \* sources whose rows are deleted and whose graph node is not yet
  role, pc,  \* per process: what it runs, and its step
  job,       \* per process: the edge in hand
  listed,    \* per process: the pages a curate run listed
  left,      \* per process: edges the run may still propose
  todo,      \* per process: rows left to replay, or edges read by a backfill
  pending,   \* pending[p][e]: the row p has upserted and not committed
  loose,     \* history: edges whose last graph change no commit backs
  wiped      \* history: a rebuild has dropped the graph and not finished

stores == <<alive, node, edge, row, deleting>>
work == <<role, pc, job, listed, left, todo, pending>>
history == <<loose, wiped>>
vars == <<regime, stores, work, history>>

Alone == regime.alone
Faults == regime.faults
Legacy == regime.legacy
RunEdges == regime.runEdges

NoRows == [e \in Edges |-> "none"]
NoJob == <<>>
Jobs == [edge : Edges, by : By]

Quiet == deleting = {} /\ \A p \in Procs : pc[p] = "idle"
Rebuilding == \E p \in Procs : role[p] = "rebuild"

MayWrite == /\ "write" \in Alone => Quiet
            /\ "rebuild" \in Alone => ~Rebuilding
MayRebuild == "rebuild" \in Alone => Quiet

Init ==
  /\ regime \in Regimes
  /\ alive = Nodes /\ node = Nodes
  /\ edge = [e \in Edges |-> IF e \in Legacy THEN "bare" ELSE "none"]
  /\ row = NoRows
  /\ deleting = {}
  /\ role = [p \in Procs |-> "none"]
  /\ pc = [p \in Procs |-> "idle"]
  /\ job = [p \in Procs |-> NoJob]
  /\ listed = [p \in Procs |-> {}]
  /\ left = [p \in Procs |-> 0]
  /\ todo = [p \in Procs |-> {}]
  /\ pending = [p \in Procs |-> NoRows]
  /\ loose = Legacy
  /\ wiped = FALSE

(* canonical_endpoints: an extracted symmetric edge is ordered by id, a
   curator's keeps its orientation. *)
Canonical(e, by) ==
  IF IsSymmetric(e) /\ by = "llm" /\ e.from > e.to THEN Reverse(e) ELSE e

(* An edge without provenance counts as a curator's. *)
Origin(e) == IF edge[e] = "bare" THEN "curator" ELSE edge[e]

(* An extracted edge must leave e alone: a curator's, or one of unknown origin. *)
Protected(e) == edge[e] \notin {"none", "llm"}

(* Take up an edge.  The reads of upsert_semantic_edge only decide for an
   extracted edge; a curator's is written whatever they return. *)
Take(p, e, by) ==
  /\ job' = [job EXCEPT ![p] = [edge |-> Canonical(e, by), by |-> by]]
  /\ pc' = [pc EXCEPT ![p] = IF by = "llm" THEN "check" ELSE "merge"]

(* Back to the caller's loop. *)
Resume(p) == pc' = [pc EXCEPT ![p] = IF role[p] = "rebuild" THEN "replay" ELSE "open"]

Release(p) ==
  /\ role' = [role EXCEPT ![p] = "none"]
  /\ pc' = [pc EXCEPT ![p] = "idle"]
  /\ job' = [job EXCEPT ![p] = NoJob]
  /\ listed' = [listed EXCEPT ![p] = {}]
  /\ left' = [left EXCEPT ![p] = 0]
  /\ todo' = [todo EXCEPT ![p] = {}]
  /\ pending' = [pending EXCEPT ![p] = NoRows]

-----------------------------------------------------------------------------
(* Writers.                                                                *)

(* link: both pages are resolved first, without a lock.  The promotion's
   SYNTHESIZES edges take the same path. *)
Link(p) ==
  /\ MayWrite
  /\ pc[p] = "idle"
  /\ \E e \in Edges : {e.from, e.to} \subseteq alive /\ Take(p, e, "curator")
  /\ role' = [role EXCEPT ![p] = "link"]
  /\ UNCHANGED <<stores, history, listed, left, todo, pending>>

(* from_extracted_edges: the pages are listed once, for the whole run. *)
RunStart(p) ==
  /\ MayWrite
  /\ pc[p] = "idle"
  /\ role' = [role EXCEPT ![p] = "run"]
  /\ pc' = [pc EXCEPT ![p] = "open"]
  /\ listed' = [listed EXCEPT ![p] = alive]
  /\ left' = [left EXCEPT ![p] = RunEdges]
  /\ UNCHANGED <<stores, history, job, todo, pending>>

(* A label: the neighbour's page is read again before the write, the labelled
   page is not. *)
RunPropose(p) ==
  /\ pc[p] = "open" /\ left[p] > 0
  /\ \E e \in Edges :
       /\ \E s \in listed[p] : e \in Touching(s) /\ {e.from, e.to} \ {s} \subseteq alive
       /\ Take(p, e, "llm")
  /\ left' = [left EXCEPT ![p] = @ - 1]
  /\ UNCHANGED <<stores, history, role, listed, todo, pending>>

(* No label is left, or a neighbour is gone and the extraction stops there;
   the rest of the run goes on to its commit. *)
RunEnd(p) ==
  /\ pc[p] = "open"
  /\ pc' = [pc EXCEPT ![p] = "commit"]
  /\ UNCHANGED <<stores, history, role, job, listed, left, todo, pending>>

(* Mutant of Check: only the existence of the edge is looked at. *)
Unchecked(p) ==
  /\ pc[p] = "check"
  /\ pc' = [pc EXCEPT ![p] = IF IsSymmetric(job[p].edge) THEN "reverse" ELSE "merge"]
  /\ UNCHANGED <<stores, history, role, job, listed, left, todo, pending>>

(* upsert_semantic_edge reads the edge, then for a symmetric type its reverse,
   and MERGEs: three statements that commit one by one. *)
Check(p) ==
  /\ pc[p] = "check"
  /\ IF Protected(job[p].edge) THEN Resume(p)
     ELSE pc' = [pc EXCEPT ![p] =
                   IF IsSymmetric(job[p].edge) THEN "reverse" ELSE "merge"]
  /\ UNCHANGED <<stores, history, role, job, listed, left, todo, pending>>

CheckReverse(p) ==
  /\ pc[p] = "reverse"
  /\ IF Protected(Reverse(job[p].edge)) THEN Resume(p)
     ELSE pc' = [pc EXCEPT ![p] = "merge"]
  /\ UNCHANGED <<stores, history, role, job, listed, left, todo, pending>>

(* SET r += the keys a write carries: a curator's carry none of an extraction's
   and leave those that are there. *)
Stamped(old, by) ==
  IF by = "curator" /\ old \in {"llm", "relinked"} THEN "relinked" ELSE by

(* Mutant of Merge: the properties are set on creation only. *)
MergeOnCreate(p) ==
  LET e == job[p].edge
  IN /\ pc[p] = "merge"
     /\ node' = node \cup {e.from, e.to}
     /\ edge' = [edge EXCEPT ![e] = IF @ = "none" THEN job[p].by ELSE @]
     /\ IF role[p] = "rebuild"
        THEN Resume(p) /\ UNCHANGED loose
        ELSE /\ pc' = [pc EXCEPT ![p] = "row"]
             /\ loose' = loose \cup {e}
     /\ UNCHANGED <<alive, row, deleting, role, job, listed, left, todo, pending, wiped>>

(* MERGE creates the endpoints that are missing. *)
Merge(p) ==
  LET e == job[p].edge
  IN /\ pc[p] = "merge"
     /\ node' = node \cup {e.from, e.to}
     /\ edge' = [edge EXCEPT ![e] = Stamped(@, job[p].by)]
     /\ IF role[p] = "rebuild"
        THEN Resume(p) /\ UNCHANGED loose
        ELSE /\ pc' = [pc EXCEPT ![p] = "row"]
             /\ loose' = loose \cup {e}
     /\ UNCHANGED <<alive, row, deleting, role, job, listed, left, todo, pending, wiped>>

(* Another transaction that has upserted the row holds it until it ends. *)
RowFree(p, e) == \A q \in Procs \ {p} : pending[q][e] = "none"

(* upsert_semantic_edge_row, in the caller's transaction: a key the write does
   not carry becomes NULL. *)
RecordRow(p) ==
  LET e == job[p].edge
  IN /\ pc[p] = "row" /\ RowFree(p, e)
     /\ pending' = [pending EXCEPT ![p][e] = job[p].by]
     /\ pc' = [pc EXCEPT ![p] = IF role[p] = "link" THEN "commit" ELSE "open"]
     /\ UNCHANGED <<stores, history, role, job, listed, left, todo>>

Commit(p) ==
  /\ pc[p] = "commit"
  /\ row' = [e \in Edges |-> IF pending[p][e] # "none" THEN pending[p][e] ELSE row[e]]
  /\ loose' = {e \in loose : pending[p][e] = "none"}
  /\ Release(p)
  /\ UNCHANGED <<alive, node, edge, deleting, wiped>>

(* The transaction rolls back; the graph keeps what was merged. *)
Abort(p) ==
  /\ "abort" \in Faults
  /\ role[p] \in {"link", "run", "backfill"}
  /\ Release(p)
  /\ UNCHANGED <<stores, history>>

(* backfill_edges: every edge in the graph is read, one of unknown origin as a
   curator's, and upserted in one transaction. *)
BackfillRead(p) ==
  /\ MayWrite
  /\ pc[p] = "idle"
  /\ todo' = [todo EXCEPT ![p] =
       {[edge |-> e, by |-> Origin(e)] : e \in {f \in Edges : edge[f] # "none"}}]
  /\ role' = [role EXCEPT ![p] = "backfill"]
  /\ pc' = [pc EXCEPT ![p] = "capture"]
  /\ UNCHANGED <<stores, history, job, listed, left, pending>>

BackfillRows(p) ==
  /\ pc[p] = "capture"
  /\ \A j \in todo[p] : RowFree(p, j.edge)
  /\ pending' = [pending EXCEPT ![p] =
       [e \in Edges |-> IF \E by \in By : [edge |-> e, by |-> by] \in todo[p]
                        THEN CHOOSE by \in By : [edge |-> e, by |-> by] \in todo[p]
                        ELSE "none"]]
  /\ pc' = [pc EXCEPT ![p] = "commit"]
  /\ UNCHANGED <<stores, history, role, job, listed, left, todo>>

-----------------------------------------------------------------------------
(* graph rebuild.                                                          *)

RebuildDrop(p) ==
  /\ MayRebuild
  /\ pc[p] = "idle"
  /\ node' = {} /\ edge' = NoRows
  /\ wiped' = TRUE
  /\ role' = [role EXCEPT ![p] = "rebuild"]
  /\ pc' = [pc EXCEPT ![p] = "project"]
  /\ UNCHANGED <<alive, row, deleting, loose, job, listed, left, todo, pending>>

(* Every source, chunk and page is read and projected, one by one. *)
RebuildProject(p) ==
  /\ pc[p] = "project"
  /\ node' = node \cup alive
  /\ pc' = [pc EXCEPT ![p] = "rows"]
  /\ UNCHANGED <<alive, edge, row, deleting, history, role, job, listed, left, todo, pending>>

RebuildRows(p) ==
  /\ pc[p] = "rows"
  /\ todo' = [todo EXCEPT ![p] =
       {[edge |-> e, by |-> row[e]] : e \in {f \in Edges : row[f] # "none"}}]
  /\ pc' = [pc EXCEPT ![p] = "replay"]
  /\ UNCHANGED <<stores, history, role, job, listed, left, pending>>

(* ORDER BY edge_type, from_id, to_id (the types do not meet). *)
Before(e, f) == /\ e.type = f.type
                /\ e.from < f.from \/ (e.from = f.from /\ e.to < f.to)

(* Mutant of Replay: the rows come in any order. *)
ReplayUnordered(p) ==
  /\ pc[p] = "replay"
  /\ \E j \in todo[p] :
       /\ Take(p, j.edge, j.by)
       /\ todo' = [todo EXCEPT ![p] = @ \ {j}]
  /\ UNCHANGED <<stores, history, role, listed, left, pending>>

Replay(p) ==
  /\ pc[p] = "replay"
  /\ \E j \in todo[p] :
       /\ \A k \in todo[p] : ~Before(k.edge, j.edge)
       /\ Take(p, j.edge, j.by)
       /\ todo' = [todo EXCEPT ![p] = @ \ {j}]
  /\ UNCHANGED <<stores, history, role, listed, left, pending>>

RebuildFinish(p) ==
  /\ pc[p] = "replay" /\ todo[p] = {}
  /\ wiped' = FALSE /\ loose' = {}
  /\ Release(p)
  /\ UNCHANGED stores

RebuildCrash(p) ==
  /\ "rebuild" \in Faults
  /\ role[p] = "rebuild"
  /\ Release(p)
  /\ UNCHANGED <<stores, history>>

-----------------------------------------------------------------------------
(* delete_source, and edges removed from the graph by hand.                *)

(* The rows that touch the source go in one commit; it waits for a row that is
   being changed and does not see one that is being inserted. *)
DeleteCommit(n) ==
  /\ MayWrite
  /\ n \in Sources \cap alive
  /\ \A e \in Touching(n), p \in Procs : row[e] # "none" => pending[p][e] = "none"
  /\ alive' = alive \ {n}
  /\ row' = [e \in Edges |-> IF e \in Touching(n) THEN "none" ELSE row[e]]
  /\ loose' = loose \cup {e \in Touching(n) : edge[e] # "none"}
  /\ deleting' = deleting \cup {n}
  /\ UNCHANGED <<node, edge, work, wiped>>

(* DETACH DELETE, best effort. *)
DeleteNode(n) ==
  /\ n \in deleting
  /\ \/ /\ node' = node \ {n}
        /\ edge' = [e \in Edges |-> IF e \in Touching(n) THEN "none" ELSE edge[e]]
        /\ loose' = loose \ Touching(n)
     \/ "delete" \in Faults /\ UNCHANGED <<node, edge, loose>>
  /\ deleting' = deleting \ {n}
  /\ UNCHANGED <<alive, row, work, wiped>>

(* The documented way to undo extraction: DELETE by predicate, in the graph. *)
Prune(e) ==
  /\ "prune" \in Faults
  /\ Quiet
  /\ edge[e] = "llm"
  /\ edge' = [edge EXCEPT ![e] = "none"]
  /\ loose' = loose \cup {e}
  /\ UNCHANGED <<alive, node, row, deleting, work, wiped>>

-----------------------------------------------------------------------------
Writer(p) ==
  \/ Link(p) \/ RunStart(p) \/ RunPropose(p) \/ RunEnd(p)
  \/ Check(p) \/ CheckReverse(p) \/ Merge(p) \/ RecordRow(p)
  \/ BackfillRead(p) \/ BackfillRows(p)
  \/ Commit(p) \/ Abort(p)

Rebuilder(p) ==
  \/ RebuildDrop(p) \/ RebuildProject(p) \/ RebuildRows(p) \/ Replay(p)
  \/ RebuildFinish(p) \/ RebuildCrash(p)

Next ==
  /\ \/ \E p \in Procs : Writer(p) \/ Rebuilder(p)
     \/ \E n \in Nodes : DeleteCommit(n) \/ DeleteNode(n)
     \/ \E e \in Edges : Prune(e)
  /\ UNCHANGED regime

Spec == Init /\ [][Next]_vars

-----------------------------------------------------------------------------
(* Properties.                                                             *)

Steps == {"idle", "open", "check", "reverse", "merge", "row", "commit",
          "capture", "project", "rows", "replay"}

(* Every variable keeps its shape, and an idle process holds nothing. *)
TypeOK ==
  /\ regime \in Regimes
  /\ alive \subseteq Nodes /\ node \subseteq Nodes /\ deleting \subseteq Sources
  /\ edge \in [Edges -> {"none", "bare"} \cup By]
  /\ row \in [Edges -> {"none"} \cup By]
  /\ role \in [Procs -> {"none", "link", "run", "rebuild", "backfill"}]
  /\ pc \in [Procs -> Steps]
  /\ job \in [Procs -> Jobs \cup {NoJob}]
  /\ \A p \in Procs : pc[p] \in {"check", "reverse", "merge", "row"} => job[p] \in Jobs
  /\ listed \in [Procs -> SUBSET Nodes]
  /\ left \in [Procs -> 0..RunEdges]
  /\ todo \in [Procs -> SUBSET Jobs]
  /\ pending \in [Procs -> [Edges -> {"none"} \cup By]]
  /\ \A p \in Procs : /\ pc[p] = "idle" <=> role[p] = "none"
                      /\ pc[p] = "idle" => pending[p] = NoRows /\ todo[p] = {}
  /\ loose \subseteq Edges /\ wiped \in BOOLEAN

(* One command at a time, and no rebuild dies between the drop and its end. *)
Serial == {"write", "rebuild"} \subseteq Alone /\ "rebuild" \notin Faults

(* When no two commands overlap and the graph is whole, the stores agree on
   every edge but those of a rolled back transaction: on its orientation, on who
   wrote it and on the keys the row has.  The row lacks keys of the graph edge
   only where a curator linked over an extracted edge, which is where
   schema.py:112-114 ("the persisted PostgreSQL row matches the graph edge
   exactly") does not hold. *)
StoresAgree ==
  Serial /\ Quiet /\ ~wiped =>
    \A e \in Edges \ loose :
      \/ row[e] = Origin(e)
      \/ row[e] = "curator" /\ edge[e] = "relinked"

(* A curator's edge, also one with the keys of an extraction, is never turned
   into an extracted one (edge-extraction.md:67-68): its row not by a run, a replay or a backfill, also
   after transactions that rolled back; and in the graph an extracted edge is
   never stamped on, or added beside in the other orientation, an edge that is
   not an extracted one (schema.py:152-155). *)
CuratorKept ==
  [][Serial =>
       \A e \in Edges :
         /\ row[e] \in {"curator", "relinked"} => row'[e] # "llm"
         /\ edge[e] # "llm" /\ edge'[e] = "llm" =>
              /\ edge[e] = "none"
              /\ IsSymmetric(e) => edge[Reverse(e)] \in {"none", "llm"}]_vars

(* Whatever overlapped before, a rebuild that runs alone leaves in the graph
   exactly the persisted edges, each with the provenance of its row (ADR-013,
   Compendium.md:701), and every page's node; and with one command at a time
   no node of a source that was deleted before ("a partial failure
   self-heals", Compendium.md:795). *)
RebuildFaithful ==
  [][\A p \in Procs : RebuildFinish(p) =>
       /\ "rebuild" \in Alone => edge = row /\ alive \subseteq node
       /\ Serial => node = alive]_vars
=============================================================================
