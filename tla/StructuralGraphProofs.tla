------------------------ MODULE StructuralGraphProofs ------------------------
(***************************************************************************)
(* Theorems about StructuralGraph, for any sources, chunks and concept     *)
(* pages, any number of drains, any number of writes and any faults: the   *)
(* structural graph is typed; what a drain has settled is in it, in        *)
(* whatever order entities were projected and whatever a rebuild           *)
(* overlapped; and a rebuild beside drains reproduces it.                  *)
(***************************************************************************)
EXTENDS StructuralGraph, TLAPS

-----------------------------------------------------------------------------
(* The inductive invariant.                                                *)

(* The source whose title is read with x, or x itself. *)
Src(x) == IF x \in Chunks THEN SourceOf[x] ELSE x

InHand(p) == pc[p] \in {"node", "source", "file", "edges", "done"}

(* What the steps of the projection say of the entity in hand, and where a
   rebuild is. *)
HandOK(p) ==
  /\ InHand(p) =>
       /\ cur[p] \in Entities
       /\ pc[p] = "source" => cur[p] \in Chunks
       /\ pc[p] = "file" => cur[p] \in Concepts
       /\ pc[p] = "done" => cur[p] \in Sources
       /\ pc[p] = "edges" => cur[p] \notin Sources
  /\ p = Rebuilder => (stage[p] = "none" <=> Idle(p))

Hands == \A p \in Procs : HandOK(p)

(* Ids are used once, a live chunk has a live source, and a deletion detaches
   what is gone. *)
RowFacts ==
  /\ \A s \in Sources : page[s] <= version[s]
  /\ \A k \in Chunks : version[k] <= 1 /\ (k \in Live(Chunks) => SourceOf[k] \in Live(Sources))
  /\ \A c \in Concepts : \A k \in cites[c] : version[k] > 0
  /\ \A s \in Sources : deleting[s].phase # "idle" => s \in gone /\ deleting[s].ids \subseteq gone

(* A sync row is of something that was written. *)
Rowed == \A x \in Entities : row[x] # "none" => version[x] > 0

(* What a rebuild may overlap. *)
Turns ==
  /\ ~Idle(Rebuilder) => partial
  /\ overlap = "writers" => DrainsIdle \/ Idle(Rebuilder)

Current(p) == cur[p] \in Live(Entities) /\ seen[p] = version[Src(cur[p])]

(* Rows of s and of its chunks are not settled. *)
Owed(s) ==
  /\ row[s] # "indexed"
  /\ \A k \in Live(Chunks) : SourceOf[k] = s => row[k] # "indexed"

(* What a process has read is current; a rebuild beside writers may have read
   what was written again, but then its row is not settled. *)
Fresh ==
  /\ \A d \in Drainers : InHand(d) => Current(d)
  /\ InHand(Rebuilder) =>
       LET x == cur[Rebuilder] IN
       /\ overlap = "drains" => Current(Rebuilder)
       /\ x \in Concepts => seen[Rebuilder] = version[x] \/ row[x] # "indexed"
       /\ x \notin Concepts => seen[Rebuilder] >= page[Src(x)] \/ Owed(Src(x))

(* A rebuild has not come to e yet. *)
Coming(e) ==
  \/ stage[Rebuilder] = "dropped"
  \/ stage[Rebuilder] = "sources" /\ (e \in Sources => e \in todo[Rebuilder])
  \/ stage[Rebuilder] = "chunks" /\ e \notin Sources /\ (e \in Chunks => e \in todo[Rebuilder])
  \/ stage[Rebuilder] = "pages" /\ e \in Concepts /\ e \in todo[Rebuilder]

(* p has e in hand and its node, its source's title or its edge x to merge. *)
NodeAhead(p, e) == cur[p] = e /\ pc[p] = "node"
TitleAhead(p, e) == cur[p] = e /\ pc[p] \in {"node", "source"}
EdgeAhead(p, e, x) ==
  cur[p] = e /\ (pc[p] \in {"node", "source", "file"} \/ (pc[p] = "edges" /\ x \in merges[p]))

NodeOK(e) == IF e \in Sources THEN node[e] >= Full(page[e]) ELSE node[e] = Full(version[e])
TitleOK(e) == node[SourceOf[e]] >= Full(page[SourceOf[e]])
Needed(e) == IF e \in Chunks THEN {PartOf(e), Evidences(e)}
             ELSE IF e \in Concepts THEN Grounding(e) ELSE {}

(* Every part of e is in the graph, or is still to be merged by p or by the
   rebuild. *)
Promised(e, p) ==
  \/ Coming(e)
  \/ /\ NodeOK(e) \/ NodeAhead(Rebuilder, e) \/ NodeAhead(p, e)
     /\ e \in Chunks => TitleOK(e) \/ TitleAhead(Rebuilder, e) \/ TitleAhead(p, e)
     /\ \A x \in Needed(e) : x \in edges \/ EdgeAhead(Rebuilder, e, x) \/ EdgeAhead(p, e, x)

(* What has to be in the graph: an entity whose row is settled, and one that a
   drain has in hand and will settle. *)
Due(e, p) ==
  /\ e \in Live(Entities)
  /\ IF p = Rebuilder THEN row[e] = "indexed" ELSE InHand(p) /\ cur[p] = e

Promises ==
  ~(partial /\ Idle(Rebuilder)) =>
    \A e \in Entities, p \in Procs : Due(e, p) => Promised(e, p)

ShownInv == TypeOK /\ Hands /\ RowFacts /\ Rowed /\ Turns /\ Fresh /\ Promises

-----------------------------------------------------------------------------
(* The library facts that follow from the declarations.                    *)

LEMMA SourceOfChunk == \A k \in Chunks : SourceOf[k] \in Sources
  BY StructuralGraphAssumption

LEMMA EntityKinds ==
  /\ Entities = Sources \cup Chunks \cup Concepts
  /\ \A x \in Sources : x \in Entities /\ x \notin Chunks /\ x \notin Concepts
  /\ \A x \in Chunks : x \in Entities /\ x \notin Sources /\ x \notin Concepts
  /\ \A x \in Concepts : x \in Entities /\ x \notin Sources /\ x \notin Chunks
  BY StructuralGraphAssumption DEF Entities

LEMMA ProcKinds ==
  /\ Rebuilder \in Procs /\ Rebuilder \notin Drainers
  /\ \A d \in Drainers : d \in Procs /\ d # Rebuilder
  /\ \A p \in Procs : p # Rebuilder => p \in Drainers
  BY StructuralGraphAssumption DEF Procs

LEMMA LiveFacts ==
  /\ \A S : Live(S) \subseteq S
  /\ \A x \in Entities : x \in Live(Entities) <=> version[x] > 0 /\ x \notin gone
  /\ \A x \in Sources : x \in Live(Sources) <=> version[x] > 0 /\ x \notin gone
  /\ \A x \in Chunks : x \in Live(Chunks) <=> version[x] > 0 /\ x \notin gone
  /\ \A x \in Concepts : x \in Live(Concepts) <=> version[x] > 0 /\ x \notin gone
  BY DEF Live

(* The types of what the processes hold. *)
WorkOK ==
  /\ pc \in [Procs -> Steps] /\ todo \in [Procs -> SUBSET Entities]
  /\ stage \in [Procs -> Stages \cup {"none"}]
  /\ cur \in [Procs -> Entities \cup {None}] /\ seen \in [Procs -> Nat]
  /\ merges \in [Procs -> SUBSET Triples]
  /\ \A p \in Procs : Idle(p) => cur[p] = None /\ todo[p] = {} /\ merges[p] = {}

(* The types of what is stored. *)
DataOK ==
  /\ version \in [Entities -> Nat] /\ page \in [Sources -> Nat]
  /\ gone \subseteq Sources \cup Chunks /\ cites \in [Concepts -> SUBSET Chunks]
  /\ row \in [Entities -> {"none", "pending", "indexed", "failed"}]
  /\ node \in [Entities -> Nat] /\ edges \subseteq Triples
  /\ partial \in BOOLEAN /\ overlap \in {"drains", "writers"}
  /\ deleting \in [Sources -> [phase : {"idle", "source", "chunks"}, ids : SUBSET Chunks]]

LEMMA TypeParts == TypeOK <=> DataOK /\ WorkOK
  BY DEF TypeOK, DataOK, WorkOK

LEMMA TypeInit == Init => TypeOK /\ Hands
<1> SUFFICES ASSUME Init PROVE TypeOK /\ Hands
  OBVIOUS
<1>1. DataOK
  BY DEF Init, DataOK, NoDelete, Absent
<1>2. WorkOK
  BY DEF Init, WorkOK, Steps, Stages, Idle
<1>3. Hands
  BY DEF Init, Hands, HandOK, InHand, Idle
<1> QED BY <1>1, <1>2, <1>3, TypeParts

(* A write keeps the types of what is stored. *)
LEMMA DataStep == TypeOK /\ Hands /\ [Next]_vars => DataOK'
<1> SUFFICES ASSUME TypeOK, Hands, [Next]_vars PROVE DataOK'
  OBVIOUS
<1>a. DataOK /\ WorkOK
  BY TypeParts
<1> USE SourceOfChunk, EntityKinds DEF Enqueue
<1>1. ASSUME NEW s \in Sources, NEW K \in SUBSET Chunks, Ingest(s, K) PROVE DataOK'
  <2>1. Live(ChunksOf(s)) \subseteq Chunks
    BY DEF Live, ChunksOf
  <2>2. version[s] + 1 \in Nat
    BY <1>a DEF DataOK
  <2>3. version' \in [Entities -> Nat] /\ page' \in [Sources -> Nat]
    BY <1>1, <1>a, <2>2 DEF Ingest, DataOK
  <2>4. gone' \subseteq Sources \cup Chunks
    BY <1>1, <1>a, <2>1 DEF Ingest, DataOK
  <2>5. row' \in [Entities -> {"none", "pending", "indexed", "failed"}]
    BY <1>1, <1>a DEF Ingest, DataOK
  <2> QED BY <1>1, <1>a, <2>3, <2>4, <2>5 DEF Ingest, DataOK, graph
<1>2. ASSUME NEW c \in Concepts, NEW K \in SUBSET Chunks, WritePage(c, K) PROVE DataOK'
  <2>2. version[c] + 1 \in Nat
    BY <1>a DEF DataOK
  <2>3. version' \in [Entities -> Nat] /\ cites' \in [Concepts -> SUBSET Chunks]
    BY <1>2, <1>a, <2>2 DEF WritePage, DataOK
  <2>5. row' \in [Entities -> {"none", "pending", "indexed", "failed"}]
    BY <1>2, <1>a DEF WritePage, DataOK
  <2> QED BY <1>2, <1>a, <2>3, <2>5 DEF WritePage, DataOK, graph
<1>3. ASSUME NEW s \in Sources, DeleteCommit(s) PROVE DataOK'
  <2>1. Live(ChunksOf(s)) \subseteq Chunks
    BY DEF Live, ChunksOf
  <2>2. [phase |-> "source", ids |-> Live(ChunksOf(s))]
          \in [phase : {"idle", "source", "chunks"}, ids : SUBSET Chunks]
    BY <2>1
  <2>3. deleting' \in [Sources -> [phase : {"idle", "source", "chunks"}, ids : SUBSET Chunks]]
    BY <1>3, <1>a, <2>2 DEF DeleteCommit, DataOK
  <2>4. gone' \subseteq Sources \cup Chunks
    BY <1>3, <1>a, <2>1 DEF DeleteCommit, DataOK
  <2>5. row' \in [Entities -> {"none", "pending", "indexed", "failed"}]
    BY <1>3, <1>a DEF DeleteCommit, DataOK
  <2> QED BY <1>3, <1>a, <2>3, <2>4, <2>5 DEF DeleteCommit, DataOK, graph
<1>b. NoDelete \in [phase : {"idle", "source", "chunks"}, ids : SUBSET Chunks]
  BY DEF NoDelete
<1>c. ASSUME NEW X, Detach(X) PROVE node' \in [Entities -> Nat] /\ edges' \subseteq Triples
  BY <1>a, <1>c DEF Detach, DataOK, Absent
<1>4. ASSUME NEW s \in Sources, DeleteDetach(s) PROVE DataOK'
  <2>1. deleting' \in [Sources -> [phase : {"idle", "source", "chunks"}, ids : SUBSET Chunks]]
    BY <1>4, <1>a, <1>b DEF DeleteDetach, DataOK
  <2>2. node' \in [Entities -> Nat] /\ edges' \subseteq Triples
    BY <1>4, <1>c DEF DeleteDetach
  <2> QED BY <1>4, <1>a, <2>1, <2>2 DEF DeleteDetach, DataOK, canon
<1>5. ASSUME NEW s \in Sources, DeleteBroken(s) PROVE DataOK'
  <2>1. deleting' \in [Sources -> [phase : {"idle", "source", "chunks"}, ids : SUBSET Chunks]]
    BY <1>5, <1>a, <1>b DEF DeleteBroken, DataOK
  <2> QED BY <1>5, <1>a, <2>1 DEF DeleteBroken, DataOK, canon, graph
<1>6. ASSUME NEW d \in Drainers, Claim(d) PROVE DataOK'
  BY <1>6, <1>a DEF Claim, DataOK, canon, graph
<1>7. ASSUME NEW d \in Drainers, DrainEnd(d) PROVE DataOK'
  BY <1>7, <1>a DEF DrainEnd, DataOK, canon, graph
<1>8. ASSUME NEW d \in Drainers, StoreError(d) PROVE DataOK'
  <2>1. row' \in [Entities -> {"none", "pending", "indexed", "failed"}]
    BY <1>8, <1>a DEF StoreError, DataOK
  <2> QED BY <1>8, <1>a, <2>1 DEF StoreError, DataOK, canon, graph
<1>9. CASE Drop
  BY <1>9, <1>a DEF Drop, DataOK, canon, Absent
<1>10. CASE List
  BY <1>10, <1>a DEF List, DataOK, canon, graph
<1>11. CASE RebuildEnd
  BY <1>11, <1>a DEF RebuildEnd, DataOK, canon, graph
<1>12. ASSUME NEW p \in Procs, Load(p) PROVE DataOK'
  <2>1. row' \in [Entities -> {"none", "pending", "indexed", "failed"}]
    BY <1>12, <1>a DEF Load, DataOK
  <2> QED BY <1>12, <1>a, <2>1 DEF Load, DataOK, canon, graph
<1>d. ASSUME NEW x, NEW v \in Nat, UpsertNode(x, v) PROVE node' \in [Entities -> Nat]
  <2>1. Full(v) \in Nat
    BY DEF Full
  <2> QED BY <1>a, <1>d, <2>1 DEF UpsertNode, DataOK
<1>13. ASSUME NEW p \in Procs, MergeNode(p) PROVE DataOK'
  <2>1. seen[p] \in Nat
    BY <1>a DEF WorkOK
  <2>2. node' \in [Entities -> Nat]
    BY <1>13, <1>d, <2>1 DEF MergeNode
  <2> QED BY <1>13, <1>a, <2>2 DEF MergeNode, DataOK, canon
<1>14. ASSUME NEW p \in Procs, MergeSource(p) PROVE DataOK'
  <2>1. seen[p] \in Nat
    BY <1>a DEF WorkOK
  <2>2. node' \in [Entities -> Nat]
    BY <1>14, <1>d, <2>1 DEF MergeSource
  <2> QED BY <1>14, <1>a, <2>2 DEF MergeSource, DataOK, canon
<1>15. ASSUME NEW p \in Procs, ReadFile(p) PROVE DataOK'
  BY <1>15, <1>a DEF ReadFile, DataOK, canon, graph
<1>16. ASSUME NEW p \in Procs, MergeEdge(p) PROVE DataOK'
  <2>1. PICK e \in merges[p] : UpsertEdge(e)
    BY <1>16 DEF MergeEdge
  <2>2. e \in Triples
    BY <1>a, <2>1 DEF WorkOK
  <2>3. node' \in [Entities -> Nat] /\ edges' \subseteq Triples
    BY <1>a, <2>1, <2>2 DEF UpsertEdge, DataOK, Bare
  <2> QED BY <1>16, <1>a, <2>3 DEF MergeEdge, DataOK, canon
<1>17. ASSUME NEW p \in Procs, Projected(p) PROVE DataOK'
  <2>1. row' \in [Entities -> {"none", "pending", "indexed", "failed"}]
    BY <1>17, <1>a DEF Projected, DataOK
  <2> QED BY <1>17, <1>a, <2>1 DEF Projected, DataOK, canon, graph
<1>18. ASSUME NEW p \in Procs, Crash(p) PROVE DataOK'
  BY <1>18, <1>a DEF Crash, DataOK, canon, graph
<1>19. CASE UNCHANGED vars
  BY <1>19, <1>a DEF vars, DataOK, canon, graph
<1> QED
  BY <1>1, <1>2, <1>3, <1>4, <1>5, <1>6, <1>7, <1>8, <1>9, <1>10, <1>11, <1>12, <1>13, <1>14,
     <1>15, <1>16, <1>17, <1>18, <1>19 DEF Next

(* What is listed is of the entities. *)
LEMMA ListingFacts ==
  /\ \A st \in Stages \ {"dropped"} : Listing[st] \subseteq Entities
  /\ Live(Sources) \subseteq Listing["sources"]
  /\ Live(Chunks) \subseteq Listing["chunks"]
  /\ Live(Concepts) \subseteq Listing["pages"]
  BY LiveFacts, EntityKinds DEF Stages, Listing

LEMMA AfterFacts ==
  /\ After["dropped"] = "sources" /\ After["sources"] = "chunks" /\ After["chunks"] = "pages"
  /\ \A st \in Stages \ {"pages"} : After[st] \in Stages \ {"dropped"}
  BY DEF After, Stages

LEMMA NeededTyped ==
  ASSUME NEW e \in Entities
  PROVE  /\ e \in Chunks => {PartOf(e), Evidences(e)} \subseteq Triples
         /\ e \in Concepts => Grounding(e) \subseteq Triples
<1>1. ASSUME e \in Concepts PROVE Grounding(e) \subseteq Triples
  BY <1>1, LiveFacts DEF Grounding, Triples
<1> QED BY <1>1 DEF Triples

(* A step of one process keeps the types of what the others hold. *)
ProcOK(p) ==
  /\ pc[p] \in Steps /\ todo[p] \subseteq Entities /\ stage[p] \in Stages \cup {"none"}
  /\ cur[p] \in Entities \cup {None} /\ seen[p] \in Nat /\ merges[p] \subseteq Triples
  /\ Idle(p) => cur[p] = None /\ todo[p] = {} /\ merges[p] = {}
  /\ HandOK(p)

(* The six variables are functions of the processes. *)
WorkShape ==
  /\ pc = [p \in Procs |-> pc[p]] /\ todo = [p \in Procs |-> todo[p]]
  /\ stage = [p \in Procs |-> stage[p]] /\ cur = [p \in Procs |-> cur[p]]
  /\ seen = [p \in Procs |-> seen[p]] /\ merges = [p \in Procs |-> merges[p]]

Others(p) ==
  \A q \in Procs : q # p =>
    /\ pc'[q] = pc[q] /\ todo'[q] = todo[q] /\ stage'[q] = stage[q]
    /\ cur'[q] = cur[q] /\ seen'[q] = seen[q] /\ merges'[q] = merges[q]

LEMMA WorkFromProcs ==
  ASSUME WorkShape', \A p \in Procs : ProcOK(p)'
  PROVE  WorkOK' /\ Hands'
<1>1. (pc \in [Procs -> Steps] /\ todo \in [Procs -> SUBSET Entities])'
  BY DEF WorkShape, ProcOK
<1>2. (stage \in [Procs -> Stages \cup {"none"}] /\ cur \in [Procs -> Entities \cup {None}])'
  BY DEF WorkShape, ProcOK
<1>3. (seen \in [Procs -> Nat] /\ merges \in [Procs -> SUBSET Triples])'
  BY DEF WorkShape, ProcOK
<1> QED BY <1>1, <1>2, <1>3 DEF WorkOK, ProcOK, Hands

LEMMA ProcsFromWork == WorkOK /\ Hands => WorkShape /\ (\A p \in Procs : ProcOK(p))
  BY DEF WorkOK, Hands, WorkShape, ProcOK

LEMMA OneProc ==
  ASSUME WorkOK, Hands, NEW p \in Procs, WorkShape', Others(p), ProcOK(p)'
  PROVE  WorkOK' /\ Hands'
<1>1. ASSUME NEW q \in Procs PROVE ProcOK(q)'
  <2>1. CASE q = p
    BY <2>1
  <2>2. CASE q # p
    <3>1. ProcOK(q)
      BY ProcsFromWork
    <3> QED BY <2>2, <3>1 DEF Others, ProcOK, HandOK, InHand, Idle
  <2> QED BY <2>1, <2>2
<1> QED BY <1>1, WorkFromProcs

(* Each step of a process is one of these. *)
LEMMA ProcSteps ==
  ASSUME WorkOK, NEW p \in Procs
  PROVE  /\ Load(p) \/ MergeNode(p) \/ MergeSource(p) \/ ReadFile(p) \/ MergeEdge(p)
              \/ Projected(p) \/ Crash(p) => WorkShape' /\ Others(p)
         /\ p \in Drainers /\ (Claim(p) \/ DrainEnd(p) \/ StoreError(p))
              => WorkShape' /\ Others(p)
         /\ p = Rebuilder /\ (Drop \/ List \/ RebuildEnd) => WorkShape' /\ Others(p)
<1>1. ASSUME Load(p) PROVE WorkShape' /\ Others(p)
  <2>1. PICK x, n :
          /\ todo' = [todo EXCEPT ![p] = @ \ {x}] /\ stage' = stage
          /\ \/ /\ Goto(p, "node") /\ merges' = merges
                /\ cur' = [cur EXCEPT ![p] = x] /\ seen' = [seen EXCEPT ![p] = n]
             \/ Return(p)
    BY <1>1 DEF Load
  <2>2. CASE Goto(p, "node") /\ merges' = merges
               /\ cur' = [cur EXCEPT ![p] = x] /\ seen' = [seen EXCEPT ![p] = n]
    BY <2>1, <2>2 DEF WorkOK, WorkShape, Others, Goto
  <2>3. CASE Return(p)
    BY <2>1, <2>3 DEF WorkOK, WorkShape, Others, Goto, Return
  <2> QED BY <2>1, <2>2, <2>3
<1> USE DEF WorkOK, WorkShape, Others, Goto, Return, Stop
<1>2. MergeNode(p) => WorkShape' /\ Others(p)
  BY DEF MergeNode
<1>3. MergeSource(p) => WorkShape' /\ Others(p)
  BY DEF MergeSource
<1>4. ReadFile(p) => WorkShape' /\ Others(p)
  BY DEF ReadFile
<1>5. MergeEdge(p) => WorkShape' /\ Others(p)
  BY DEF MergeEdge
<1>6. Projected(p) => WorkShape' /\ Others(p)
  BY DEF Projected
<1>7. Crash(p) => WorkShape' /\ Others(p)
  BY DEF Crash
<1>8. Claim(p) => WorkShape' /\ Others(p)
  BY DEF Claim
<1>9. DrainEnd(p) => WorkShape' /\ Others(p)
  BY DEF DrainEnd
<1>10. StoreError(p) => WorkShape' /\ Others(p)
  BY DEF StoreError
<1>11. p = Rebuilder /\ Drop => WorkShape' /\ Others(p)
  BY DEF Drop
<1>12. p = Rebuilder /\ List => WorkShape' /\ Others(p)
  BY DEF List
<1>13. p = Rebuilder /\ RebuildEnd => WorkShape' /\ Others(p)
  BY DEF RebuildEnd
<1> QED
  BY <1>1, <1>2, <1>3, <1>4, <1>5, <1>6, <1>7, <1>8, <1>9, <1>10, <1>11, <1>12, <1>13

(* A step keeps the types of what the processes hold. *)
LEMMA WorkStep == TypeOK /\ Hands /\ [Next]_vars => WorkOK' /\ Hands'
<1> SUFFICES ASSUME TypeOK, Hands, [Next]_vars PROVE WorkOK' /\ Hands'
  OBVIOUS
<1>a. DataOK /\ WorkOK
  BY TypeParts
<1>b. \A p \in Procs : ProcOK(p)
  BY <1>a, ProcsFromWork
<1>c. ASSUME UNCHANGED work PROVE WorkOK' /\ Hands'
  BY <1>a, <1>c DEF WorkOK, Hands, HandOK, InHand, Idle, work
<1>d. ASSUME NEW p \in Procs, Stop(p), stage'[p] = "none" PROVE ProcOK(p)'
  <2>1. pc'[p] = "idle" /\ todo'[p] = {} /\ cur'[p] = None /\ seen'[p] = 0 /\ merges'[p] = {}
    BY <1>a, <1>d DEF Stop, Goto, WorkOK
  <2> QED BY <1>d, <2>1 DEF ProcOK, Steps, Idle, HandOK, InHand
<1>e. ASSUME NEW p \in Procs, ~Idle(p), Return(p), todo'[p] \subseteq todo[p],
             stage'[p] = stage[p]
      PROVE  ProcOK(p)'
  <2>1. pc'[p] = "next" /\ cur'[p] = None /\ seen'[p] = 0 /\ merges'[p] = {}
    BY <1>a, <1>e DEF Return, Goto, WorkOK
  <2> QED BY <1>b, <1>e, <2>1 DEF ProcOK, Steps, Idle, HandOK, InHand
<1>1. ASSUME NEW s \in Sources, NEW K \in SUBSET Chunks, Ingest(s, K) PROVE WorkOK' /\ Hands'
  BY <1>1, <1>c DEF Ingest
<1>2. ASSUME NEW c \in Concepts, NEW K \in SUBSET Chunks, WritePage(c, K) PROVE WorkOK' /\ Hands'
  BY <1>2, <1>c DEF WritePage
<1>3. ASSUME NEW s \in Sources, DeleteCommit(s) PROVE WorkOK' /\ Hands'
  BY <1>3, <1>c DEF DeleteCommit
<1>4. ASSUME NEW s \in Sources, DeleteDetach(s) PROVE WorkOK' /\ Hands'
  BY <1>4, <1>c DEF DeleteDetach
<1>5. ASSUME NEW s \in Sources, DeleteBroken(s) PROVE WorkOK' /\ Hands'
  BY <1>5, <1>c DEF DeleteBroken
<1>6. ASSUME NEW d \in Drainers, Claim(d) PROVE WorkOK' /\ Hands'
  <2>0. d \in Procs /\ d # Rebuilder
    BY ProcKinds
  <2>1. pc'[d] = "next" /\ todo'[d] \subseteq Entities /\ UNCHANGED <<stage, cur, seen, merges>>
    BY <1>6, <1>a, <2>0 DEF Claim, Goto, WorkOK
  <2>2. ProcOK(d)'
    BY <1>b, <2>0, <2>1 DEF ProcOK, Steps, Idle, HandOK, InHand
  <2>3. WorkShape' /\ Others(d)
    BY <1>6, <1>a, <2>0, ProcSteps
  <2> QED BY <1>a, <2>0, <2>2, <2>3, OneProc
<1>7. ASSUME NEW d \in Drainers, DrainEnd(d) PROVE WorkOK' /\ Hands'
  <2>0. d \in Procs
    BY ProcKinds
  <2>1. Stop(d) /\ stage'[d] = "none"
    BY <1>7, <1>a, <2>0 DEF DrainEnd, Stop, WorkOK
  <2>3. WorkShape' /\ Others(d)
    BY <1>7, <1>a, <2>0, ProcSteps
  <2> QED BY <1>a, <1>d, <2>0, <2>1, <2>3, OneProc
<1>8. ASSUME NEW d \in Drainers, StoreError(d) PROVE WorkOK' /\ Hands'
  <2>0. d \in Procs
    BY ProcKinds
  <2>1. /\ ~Idle(d)
        /\ Return(d) /\ todo'[d] \subseteq todo[d] /\ stage'[d] = stage[d]
    BY <1>8 DEF StoreError, Writing, Idle
  <2>3. WorkShape' /\ Others(d)
    BY <1>8, <1>a, <2>0, ProcSteps
  <2> QED BY <1>a, <1>e, <2>0, <2>1, <2>3, OneProc
<1>9. CASE Drop
  <2>0. Rebuilder \in Procs
    BY ProcKinds
  <2>1. /\ pc'[Rebuilder] = "next" /\ stage'[Rebuilder] = "dropped"
        /\ UNCHANGED <<todo, cur, seen, merges>>
    BY <1>9, <1>a, <2>0 DEF Drop, Goto, WorkOK
  <2>2. ProcOK(Rebuilder)'
    BY <1>b, <2>0, <2>1 DEF ProcOK, Steps, Stages, Idle, HandOK, InHand
  <2>3. WorkShape' /\ Others(Rebuilder)
    BY <1>9, <1>a, <2>0, ProcSteps
  <2> QED BY <1>a, <2>0, <2>2, <2>3, OneProc
<1>11. CASE RebuildEnd
  <2>0. Rebuilder \in Procs
    BY ProcKinds
  <2>1. Stop(Rebuilder) /\ stage'[Rebuilder] = "none"
    BY <1>11, <1>a, <2>0 DEF RebuildEnd, Stop, WorkOK
  <2>3. WorkShape' /\ Others(Rebuilder)
    BY <1>11, <1>a, <2>0, ProcSteps
  <2> QED BY <1>a, <1>d, <2>0, <2>1, <2>3, OneProc
<1>12. ASSUME NEW p \in Procs, Load(p) PROVE WorkOK' /\ Hands'
  <2>1. PICK x \in todo[p] :
          /\ todo' = [todo EXCEPT ![p] = @ \ {x}]
          /\ \/ /\ Goto(p, "node")
                /\ cur' = [cur EXCEPT ![p] = x]
                /\ seen' = [seen EXCEPT ![p] = version[IF x \in Chunks THEN SourceOf[x] ELSE x]]
                /\ UNCHANGED merges
             \/ Return(p)
    BY <1>12 DEF Load
  <2>2. x \in Entities /\ todo'[p] \subseteq todo[p] /\ stage' = stage
    BY <1>12, <1>a, <2>1 DEF WorkOK, Load
  <2>3. version[IF x \in Chunks THEN SourceOf[x] ELSE x] \in Nat
    BY <1>a, <2>2, SourceOfChunk, EntityKinds DEF DataOK
  <2>3b. pc[p] = "next"
    BY <1>12 DEF Load
  <2>4. ASSUME Return(p) PROVE ProcOK(p)'
    BY <1>e, <2>2, <2>3b, <2>4 DEF Idle
  <2>5. ASSUME ~Return(p) PROVE ProcOK(p)'
    <3>1. pc'[p] = "node" /\ cur'[p] = x /\ seen'[p] \in Nat /\ merges' = merges
      BY <1>a, <2>1, <2>3, <2>5 DEF Goto, WorkOK
    <3> QED BY <1>b, <2>2, <2>3b, <3>1 DEF ProcOK, Steps, Idle, HandOK, InHand
  <2>6. ProcOK(p)'
    BY <2>4, <2>5
  <2>7. WorkShape' /\ Others(p)
    BY <1>12, <1>a, ProcSteps
  <2> QED BY <1>a, <2>6, <2>7, OneProc
<1>13. ASSUME NEW p \in Procs, MergeNode(p) PROVE WorkOK' /\ Hands'
  <2>1. /\ pc[p] = "node" /\ UNCHANGED <<todo, stage, cur, seen, merges>>
        /\ pc'[p] = IF cur[p] \in Sources THEN "done"
                    ELSE IF cur[p] \in Chunks THEN "source" ELSE "file"
    BY <1>13, <1>a DEF MergeNode, Goto, WorkOK
  <2>2. cur[p] \in Entities
    BY <2>1 DEF Hands, HandOK, InHand
  <2>6. ProcOK(p)'
    BY <1>b, <2>1, <2>2, EntityKinds DEF ProcOK, Steps, Idle, HandOK, InHand
  <2>7. WorkShape' /\ Others(p)
    BY <1>13, <1>a, ProcSteps
  <2> QED BY <1>a, <2>6, <2>7, OneProc
<1>14. ASSUME NEW p \in Procs, MergeSource(p) PROVE WorkOK' /\ Hands'
  <2>1. /\ pc[p] = "source" /\ UNCHANGED <<todo, stage, cur, seen>>
        /\ pc'[p] = "edges" /\ merges'[p] = {PartOf(cur[p]), Evidences(cur[p])}
    BY <1>14, <1>a DEF MergeSource, Goto, WorkOK
  <2>2. cur[p] \in Chunks
    BY <2>1 DEF Hands, HandOK, InHand
  <2>3. merges'[p] \subseteq Triples
    BY <2>1, <2>2, NeededTyped, EntityKinds
  <2>6. ProcOK(p)'
    BY <1>b, <2>1, <2>2, <2>3, EntityKinds DEF ProcOK, Steps, Idle, HandOK, InHand
  <2>7. WorkShape' /\ Others(p)
    BY <1>14, <1>a, ProcSteps
  <2> QED BY <1>a, <2>6, <2>7, OneProc
<1>15. ASSUME NEW p \in Procs, ReadFile(p) PROVE WorkOK' /\ Hands'
  <2>1. /\ pc[p] = "file" /\ UNCHANGED <<todo, stage, cur, seen>>
        /\ pc'[p] = "edges" /\ merges'[p] = Grounding(cur[p])
    BY <1>15, <1>a DEF ReadFile, Goto, WorkOK
  <2>2. cur[p] \in Concepts
    BY <2>1 DEF Hands, HandOK, InHand
  <2>3. merges'[p] \subseteq Triples
    BY <2>1, <2>2, NeededTyped, EntityKinds
  <2>6. ProcOK(p)'
    BY <1>b, <2>1, <2>2, <2>3, EntityKinds DEF ProcOK, Steps, Idle, HandOK, InHand
  <2>7. WorkShape' /\ Others(p)
    BY <1>15, <1>a, ProcSteps
  <2> QED BY <1>a, <2>6, <2>7, OneProc
<1>16. ASSUME NEW p \in Procs, MergeEdge(p) PROVE WorkOK' /\ Hands'
  <2>1. /\ pc[p] = "edges" /\ UNCHANGED <<pc, todo, stage, cur, seen>>
        /\ merges'[p] \subseteq merges[p]
    BY <1>16, <1>a DEF MergeEdge, WorkOK
  <2>6. ProcOK(p)'
    BY <1>b, <2>1 DEF ProcOK, Idle, HandOK, InHand
  <2>7. WorkShape' /\ Others(p)
    BY <1>16, <1>a, ProcSteps
  <2> QED BY <1>a, <2>6, <2>7, OneProc
<1>17. ASSUME NEW p \in Procs, Projected(p) PROVE WorkOK' /\ Hands'
  <2>1. /\ ~Idle(p)
        /\ Return(p) /\ todo'[p] \subseteq todo[p] /\ stage'[p] = stage[p]
    BY <1>17 DEF Projected, Idle
  <2>7. WorkShape' /\ Others(p)
    BY <1>17, <1>a, ProcSteps
  <2> QED BY <1>a, <1>e, <2>1, <2>7, OneProc
<1>18. ASSUME NEW p \in Procs, Crash(p) PROVE WorkOK' /\ Hands'
  <2>1. Stop(p) /\ stage'[p] = "none"
    BY <1>18, <1>a DEF Crash, Stop, WorkOK
  <2>7. WorkShape' /\ Others(p)
    BY <1>18, <1>a, ProcSteps
  <2> QED BY <1>a, <1>d, <2>1, <2>7, OneProc
<1>19. CASE UNCHANGED vars
  BY <1>19, <1>c DEF vars
<1>20. CASE List
  <2>0. Rebuilder \in Procs
    BY ProcKinds
  <2>1. /\ pc[Rebuilder] = "next" /\ stage[Rebuilder] # "pages"
        /\ stage'[Rebuilder] = After[stage[Rebuilder]]
        /\ todo'[Rebuilder] = Listing[After[stage[Rebuilder]]]
        /\ UNCHANGED <<pc, cur, seen, merges>>
    BY <1>20, <1>a, <2>0 DEF List, WorkOK
  <2>2. stage[Rebuilder] \in Stages \ {"pages"}
    BY <1>a, <1>b, <2>0, <2>1 DEF WorkOK, ProcOK, HandOK, Idle
  <2>3. stage'[Rebuilder] \in Stages \ {"dropped"} /\ todo'[Rebuilder] \subseteq Entities
    BY <2>1, <2>2, AfterFacts, ListingFacts
  <2>4. stage'[Rebuilder] # "none"
    BY <2>3 DEF Stages
  <2>5. ProcOK(Rebuilder)'
    BY <1>b, <2>0, <2>1, <2>3, <2>4 DEF ProcOK, Idle, HandOK, InHand
  <2>6. WorkShape' /\ Others(Rebuilder)
    BY <1>20, <1>a, <2>0, ProcSteps
  <2> QED BY <1>a, <2>0, <2>5, <2>6, OneProc
<1> QED
  BY <1>1, <1>2, <1>3, <1>4, <1>5, <1>6, <1>7, <1>8, <1>9, <1>11, <1>12, <1>13, <1>14,
     <1>15, <1>16, <1>17, <1>18, <1>19, <1>20 DEF Next

LEMMA TypeStep == TypeOK /\ Hands /\ [Next]_vars => TypeOK' /\ Hands'
<1> SUFFICES ASSUME TypeOK, Hands, [Next]_vars PROVE TypeOK' /\ Hands'
  OBVIOUS
<1>1. DataOK' /\ WorkOK' /\ Hands'
  BY DataStep, WorkStep
<1>2. TypeOK'
  BY <1>1 DEF TypeOK, DataOK, WorkOK
<1> QED BY <1>1, <1>2

(* The graph, the sync rows and the processes are typed, and a process that has
   nothing to do holds nothing: what a command that ends or dies had listed or
   in hand is dropped with it (sync.py:92-141, rebuild.py:33-55). *)
THEOREM TypeCorrect == Spec => []TypeOK
<1>1. Init => TypeOK /\ Hands
  BY TypeInit
<1>2. TypeOK /\ Hands /\ [Next]_vars => TypeOK' /\ Hands'
  BY TypeStep
<1> QED BY <1>1, <1>2, PTL DEF Spec

-----------------------------------------------------------------------------
(* What is kept of the rows, and of what a rebuild may overlap.            *)

LEMMA LiveNext ==
  /\ \A x \in Entities : (x \in Live(Entities))' <=> version'[x] > 0 /\ x \notin gone'
  /\ \A x \in Sources : (x \in Live(Sources))' <=> version'[x] > 0 /\ x \notin gone'
  /\ \A x \in Chunks : (x \in Live(Chunks))' <=> version'[x] > 0 /\ x \notin gone'
  BY DEF Live

LEMMA LiveChunksOf ==
  \A s \in Sources, k \in Chunks : k \in Live(ChunksOf(s)) <=> k \in Live(Chunks) /\ SourceOf[k] = s
  BY DEF Live, ChunksOf

LEMMA ChunksOfChunks == \A s \in Sources : Live(ChunksOf(s)) \subseteq Chunks
  BY DEF Live, ChunksOf

(* What an ingest does to the rows. *)
LEMMA IngestFacts ==
  ASSUME TypeOK, RowFacts, NEW s \in Sources, NEW K \in SUBSET Chunks, Ingest(s, K)
  PROVE  /\ K \subseteq ChunksOf(s) /\ \A k \in K : version[k] = 0
         /\ s \notin gone /\ gone' = gone \cup Live(ChunksOf(s))
         /\ version'[s] = version[s] + 1
         /\ \A k \in K : version'[k] = 1
         /\ \A x \in Entities : x # s /\ x \notin K => version'[x] = version[x]
         /\ \A t \in Sources : t # s => page'[t] = page[t]
         /\ page'[s] = IF K = {} THEN page[s] ELSE version[s] + 1
         /\ \A x \in Entities : x \notin ChunksOf(s) /\ x # s => row'[x] = row[x]
         /\ row'[s] = IF K = {} THEN row[s] ELSE "pending"
         /\ \A k \in K : row'[k] = "pending"
         /\ \A k \in Chunks : SourceOf[k] = s /\ k \in Live(Chunks)' => k \in K
         /\ \A k \in Chunks : SourceOf[k] # s => (k \in Live(Chunks)' <=> k \in Live(Chunks))
         /\ \A c \in Concepts : c \in Live(Concepts)' <=> c \in Live(Concepts)
         /\ \A t \in Sources : t # s => (t \in Live(Sources)' <=> t \in Live(Sources))
         /\ s \in Live(Sources)'
         /\ UNCHANGED <<cites, graph, partial, deleting, overlap, work>>
<1>0. DataOK
  BY TypeParts
<1>1. /\ K \subseteq ChunksOf(s) /\ (\A k \in K : version[k] = 0)
      /\ s \notin gone /\ gone' = gone \cup Live(ChunksOf(s))
      /\ version' = [x \in Entities |-> IF x = s THEN version[s] + 1
                                        ELSE IF x \in K THEN 1 ELSE version[x]]
      /\ page' = IF K = {} THEN page ELSE [page EXCEPT ![s] = version[s] + 1]
      /\ row' = [e \in Entities |-> IF e \in (IF K = {} THEN {} ELSE K \cup {s}) THEN "pending"
                                    ELSE IF e \in Live(ChunksOf(s)) THEN "none" ELSE row[e]]
      /\ UNCHANGED <<cites, graph, partial, deleting, overlap, work>>
  BY DEF Ingest, Enqueue
<1>2. /\ version'[s] = version[s] + 1 /\ version[s] \in Nat
      /\ \A k \in K : version'[k] = 1
      /\ \A x \in Entities : x # s /\ x \notin K => version'[x] = version[x]
  BY <1>0, <1>1, EntityKinds DEF DataOK
<1>3. /\ \A t \in Sources : t # s => page'[t] = page[t]
      /\ page'[s] = IF K = {} THEN page[s] ELSE version[s] + 1
  BY <1>0, <1>1 DEF DataOK
<1>4. Live(ChunksOf(s)) \subseteq ChunksOf(s)
  BY LiveFacts
<1>5. s \notin ChunksOf(s) /\ s \notin Live(ChunksOf(s))
  BY <1>4, EntityKinds DEF ChunksOf
<1>6. /\ \A x \in Entities : x \notin ChunksOf(s) /\ x # s => row'[x] = row[x]
      /\ row'[s] = IF K = {} THEN row[s] ELSE "pending"
      /\ \A k \in K : row'[k] = "pending"
  BY <1>1, <1>4, <1>5, EntityKinds
<1>7. \A k \in Chunks : SourceOf[k] = s /\ k \in Live(Chunks)' => k \in K
  <2> SUFFICES ASSUME NEW k \in Chunks, SourceOf[k] = s, version'[k] > 0, k \notin gone', k \notin K
               PROVE  FALSE
    BY LiveNext
  <2>1. k \in Entities /\ k # s
    BY EntityKinds
  <2>2. version[k] > 0 /\ k \notin gone
    BY <1>1, <1>2, <2>1
  <2>3. k \in Live(ChunksOf(s))
    BY <2>2, LiveChunksOf, LiveFacts
  <2> QED BY <1>1, <2>3
<1>8. ASSUME NEW x \in Entities, x # s, x \notin ChunksOf(s)
      PROVE  /\ version'[x] = version[x]
             /\ x \in gone' <=> x \in gone
  BY <1>1, <1>2, <1>4, <1>8
<1>9. /\ \A k \in Chunks : SourceOf[k] # s => (k \in Live(Chunks)' <=> k \in Live(Chunks))
      /\ \A c \in Concepts : c \in Live(Concepts)' <=> c \in Live(Concepts)
      /\ \A t \in Sources : t # s => (t \in Live(Sources)' <=> t \in Live(Sources))
  BY <1>8, EntityKinds DEF Live, ChunksOf
<1>10. s \in Live(Sources)'
  BY <1>1, <1>2, <1>5 DEF Live
<1> QED BY <1>1, <1>2, <1>3, <1>6, <1>7, <1>9, <1>10

LEMMA WritePageFacts ==
  ASSUME TypeOK, RowFacts, NEW c \in Concepts, NEW K \in SUBSET Chunks, WritePage(c, K)
  PROVE  /\ version'[c] = version[c] + 1
         /\ \A x \in Entities : x # c => version'[x] = version[x] /\ row'[x] = row[x]
         /\ row'[c] = "pending"
         /\ cites'[c] = K /\ \A d \in Concepts : d # c => cites'[d] = cites[d]
         /\ \A k \in K : version[k] > 0
         /\ Live(Chunks)' = Live(Chunks) /\ Live(Sources)' = Live(Sources)
         /\ \A x \in Entities : x # c => (x \in Live(Entities)' <=> x \in Live(Entities))
         /\ UNCHANGED <<page, gone, graph, partial, deleting, overlap, work>>
<1>0. DataOK
  BY TypeParts
<1>1. /\ K \subseteq Live(Chunks) \/ K = cites[c]
      /\ version' = [version EXCEPT ![c] = @ + 1]
      /\ cites' = [cites EXCEPT ![c] = K]
      /\ row' = [e \in Entities |-> IF e \in {c} THEN "pending" ELSE IF e \in {} THEN "none"
                                    ELSE row[e]]
      /\ UNCHANGED <<page, gone, graph, partial, deleting, overlap, work>>
  BY DEF WritePage, Enqueue
<1>2. /\ version'[c] = version[c] + 1
      /\ \A x \in Entities : x # c => version'[x] = version[x] /\ row'[x] = row[x]
      /\ row'[c] = "pending"
      /\ cites'[c] = K /\ \A d \in Concepts : d # c => cites'[d] = cites[d]
  BY <1>0, <1>1, EntityKinds DEF DataOK
<1>3. \A k \in K : version[k] > 0
  BY <1>1, LiveFacts DEF RowFacts
<1>4. /\ Live(Chunks)' = Live(Chunks) /\ Live(Sources)' = Live(Sources)
      /\ \A x \in Entities : x # c => (x \in Live(Entities)' <=> x \in Live(Entities))
  BY <1>1, <1>2, EntityKinds DEF Live
<1> QED BY <1>1, <1>2, <1>3, <1>4

LEMMA DeleteFacts ==
  ASSUME TypeOK, RowFacts, NEW s \in Sources, DeleteCommit(s)
  PROVE  /\ gone' = gone \cup Live(ChunksOf(s)) \cup {s}
         /\ \A x \in Entities : x \in Live(Entities)' => x \in Live(Entities) /\ row'[x] = row[x]
         /\ \A x \in Entities : row'[x] = row[x] \/ row'[x] = "none"
         /\ \A k \in Chunks : k \in Live(Chunks)' => k \in Live(Chunks) /\ SourceOf[k] # s
         /\ \A t \in Sources : t # s /\ t \in Live(Sources) => t \in Live(Sources)'
         /\ deleting' = [deleting EXCEPT ![s] = [phase |-> "source", ids |-> Live(ChunksOf(s))]]
         /\ UNCHANGED <<version, page, cites, graph, partial, overlap, work>>
<1>0. DataOK
  BY TypeParts
<1>1. /\ gone' = gone \cup Live(ChunksOf(s)) \cup {s}
      /\ row' = [e \in Entities |-> IF e \in {} THEN "pending"
                                    ELSE IF e \in Live(ChunksOf(s)) \cup {s} THEN "none"
                                    ELSE row[e]]
      /\ deleting' = [deleting EXCEPT ![s] = [phase |-> "source", ids |-> Live(ChunksOf(s))]]
      /\ UNCHANGED <<version, page, cites, graph, partial, overlap, work>>
  BY DEF DeleteCommit, Enqueue
<1>2. \A x \in Entities : x \in Live(Entities)' => x \in Live(Entities) /\ row'[x] = row[x]
  BY <1>1, LiveFacts, LiveNext
<1>3. \A k \in Chunks : k \in Live(Chunks)' => k \in Live(Chunks) /\ SourceOf[k] # s
  BY <1>1, LiveFacts, LiveNext, LiveChunksOf
<1>4. \A t \in Sources : t # s /\ t \in Live(Sources) => t \in Live(Sources)'
  BY <1>1, LiveFacts, LiveNext, ChunksOfChunks, EntityKinds
<1>5. \A x \in Entities : row'[x] = row[x] \/ row'[x] = "none"
  BY <1>1
<1> QED BY <1>1, <1>2, <1>3, <1>4, <1>5

LEMMA RowStep == TypeOK /\ RowFacts /\ [Next]_vars => RowFacts'
<1> SUFFICES ASSUME TypeOK, RowFacts, [Next]_vars PROVE RowFacts'
  OBVIOUS
<1>0. DataOK
  BY TypeParts
<1>a. ASSUME UNCHANGED <<canon, deleting>> PROVE RowFacts'
  BY <1>a DEF RowFacts, Live, canon
<1>1. ASSUME NEW s \in Sources, NEW K \in SUBSET Chunks, Ingest(s, K) PROVE RowFacts'
  <2>0. version[s] \in Nat /\ page[s] \in Nat /\ s \notin K /\ s \in Entities
    BY <1>0, EntityKinds DEF DataOK
  <2>1. ASSUME NEW t \in Sources PROVE page'[t] <= version'[t]
    <3>1. page[t] <= version[t] /\ version[t] \in Nat /\ page[t] \in Nat /\ t \notin K /\ t \in Entities
      BY <1>0, EntityKinds DEF RowFacts, DataOK
    <3> QED BY <1>1, <2>0, <3>1, IngestFacts
  <2>2. ASSUME NEW k \in Chunks
        PROVE  version'[k] <= 1 /\ (k \in Live(Chunks)' => SourceOf[k] \in Live(Sources)')
    <3>1. version[k] <= 1 /\ (k \in Live(Chunks) => SourceOf[k] \in Live(Sources))
          /\ k \in Entities /\ k # s /\ SourceOf[k] \in Sources
      BY EntityKinds, SourceOfChunk DEF RowFacts
    <3>2. version'[k] <= 1
      BY <1>1, <3>1, IngestFacts
    <3>3. k \in Live(Chunks)' => SourceOf[k] \in Live(Sources)'
      BY <1>1, <3>1, IngestFacts
    <3> QED BY <3>2, <3>3
  <2>3. ASSUME NEW c \in Concepts, NEW k \in cites'[c] PROVE version'[k] > 0
    <3>1. cites'[c] = cites[c] /\ k \in Chunks /\ version[k] > 0
      BY <1>0, <1>1, IngestFacts DEF RowFacts, DataOK
    <3> QED BY <1>1, <3>1, EntityKinds, IngestFacts
  <2>4. ASSUME NEW t \in Sources, deleting'[t].phase # "idle"
        PROVE  t \in gone' /\ deleting'[t].ids \subseteq gone'
    BY <1>1, <2>4, IngestFacts DEF RowFacts
  <2> QED BY <2>1, <2>2, <2>3, <2>4 DEF RowFacts
<1>2. ASSUME NEW c \in Concepts, NEW K \in SUBSET Chunks, WritePage(c, K) PROVE RowFacts'
  <2>1. ASSUME NEW t \in Sources PROVE page'[t] <= version'[t]
    BY <1>2, EntityKinds, WritePageFacts DEF RowFacts
  <2>2. ASSUME NEW k \in Chunks
        PROVE  version'[k] <= 1 /\ (k \in Live(Chunks)' => SourceOf[k] \in Live(Sources)')
    BY <1>2, EntityKinds, WritePageFacts DEF RowFacts
  <2>3. ASSUME NEW d \in Concepts, NEW k \in cites'[d] PROVE version'[k] > 0
    <3>1. cites'[d] \subseteq Chunks /\ version[k] > 0
      BY <1>0, <1>2, WritePageFacts DEF RowFacts, DataOK
    <3> QED BY <1>2, <3>1, EntityKinds, WritePageFacts
  <2>4. ASSUME NEW t \in Sources, deleting'[t].phase # "idle"
        PROVE  t \in gone' /\ deleting'[t].ids \subseteq gone'
    BY <1>2, <2>4, WritePageFacts DEF RowFacts
  <2> QED BY <2>1, <2>2, <2>3, <2>4 DEF RowFacts
<1>3. ASSUME NEW s \in Sources, DeleteCommit(s) PROVE RowFacts'
  <2>1. ASSUME NEW t \in Sources PROVE page'[t] <= version'[t]
    BY <1>3, DeleteFacts DEF RowFacts
  <2>2. ASSUME NEW k \in Chunks
        PROVE  version'[k] <= 1 /\ (k \in Live(Chunks)' => SourceOf[k] \in Live(Sources)')
    BY <1>3, SourceOfChunk, DeleteFacts DEF RowFacts
  <2>3. ASSUME NEW d \in Concepts, NEW k \in cites'[d] PROVE version'[k] > 0
    BY <1>3, DeleteFacts DEF RowFacts
  <2>4. ASSUME NEW t \in Sources, deleting'[t].phase # "idle"
        PROVE  t \in gone' /\ deleting'[t].ids \subseteq gone'
    <3>1. CASE t = s
      <4>1. deleting'[t].ids = Live(ChunksOf(s))
        BY <1>0, <1>3, <3>1, DeleteFacts DEF DataOK
      <4> QED BY <1>3, <3>1, <4>1, DeleteFacts
    <3>2. CASE t # s
      <4>1. deleting'[t] = deleting[t]
        BY <1>0, <1>3, <3>2, DeleteFacts DEF DataOK
      <4> QED BY <1>3, <2>4, <4>1, DeleteFacts DEF RowFacts
    <3> QED BY <3>1, <3>2
  <2> QED BY <2>1, <2>2, <2>3, <2>4 DEF RowFacts
<1>b. ASSUME NEW s \in Sources, DeleteDetach(s) \/ DeleteBroken(s) PROVE RowFacts'
  <2>1. UNCHANGED canon /\ deleting[s].phase # "idle"
    BY <1>b DEF DeleteDetach, DeleteBroken
  <2>2. \/ deleting' = [deleting EXCEPT ![s].phase = "chunks"]
        \/ deleting' = [deleting EXCEPT ![s] = NoDelete]
    BY <1>b DEF DeleteDetach, DeleteBroken
  <2>4. ASSUME NEW t \in Sources, deleting'[t].phase # "idle"
        PROVE  t \in gone' /\ deleting'[t].ids \subseteq gone'
    <3>1. deleting'[t].ids = deleting[t].ids /\ deleting[t].phase # "idle"
      BY <1>0, <2>1, <2>2, <2>4 DEF DataOK, NoDelete
    <3> QED BY <2>1, <3>1 DEF RowFacts, canon
  <2> QED BY <2>1, <2>4 DEF RowFacts, Live, canon
<1>6. ASSUME NEW d \in Drainers, Claim(d) \/ DrainEnd(d) \/ StoreError(d) PROVE RowFacts'
  BY <1>6, <1>a DEF Claim, DrainEnd, StoreError
<1>9. CASE Drop \/ List \/ RebuildEnd
  BY <1>9, <1>a DEF Drop, List, RebuildEnd
<1>12. ASSUME NEW p \in Procs, Load(p) \/ MergeNode(p) \/ MergeSource(p) \/ ReadFile(p)
       PROVE  RowFacts'
  BY <1>12, <1>a DEF Load, MergeNode, MergeSource, ReadFile
<1>16. ASSUME NEW p \in Procs, MergeEdge(p) \/ Projected(p) \/ Crash(p) PROVE RowFacts'
  BY <1>16, <1>a DEF MergeEdge, Projected, Crash
<1>19. CASE UNCHANGED vars
  BY <1>19, <1>a DEF vars
<1> QED
  BY <1>1, <1>2, <1>3, <1>b, <1>6, <1>9, <1>12, <1>16, <1>19 DEF Next

LEMMA RowedStep == TypeOK /\ RowFacts /\ Rowed /\ [Next]_vars => Rowed'
<1> SUFFICES ASSUME TypeOK, RowFacts, Rowed, [Next]_vars PROVE Rowed'
  OBVIOUS
<1>0. DataOK
  BY TypeParts
<1>a. ASSUME version' = version, \A x \in Entities : row'[x] # "none" => row[x] # "none"
      PROVE  Rowed'
  BY <1>a DEF Rowed
<1>1. ASSUME NEW s \in Sources, NEW K \in SUBSET Chunks, Ingest(s, K) PROVE Rowed'
  <2> SUFFICES ASSUME NEW x \in Entities, row'[x] # "none" PROVE version'[x] > 0
    BY DEF Rowed
  <2>1. CASE x = s
    <3>1. version[s] \in Nat /\ version'[s] = version[s] + 1
      BY <1>0, <1>1, EntityKinds, IngestFacts DEF DataOK
    <3> QED BY <2>1, <3>1
  <2>2. CASE x \in K
    BY <1>1, <2>2, IngestFacts
  <2>3. CASE x # s /\ x \notin K
    <3>1. version'[x] = version[x] /\ (row'[x] = row[x] \/ row'[x] = "none")
      BY <1>1, <2>3, IngestFacts DEF Ingest, Enqueue
    <3> QED BY <3>1 DEF Rowed
  <2> QED BY <2>1, <2>2, <2>3
<1>2. ASSUME NEW c \in Concepts, NEW K \in SUBSET Chunks, WritePage(c, K) PROVE Rowed'
  <2>1. version[c] \in Nat
    BY <1>0, EntityKinds DEF DataOK
  <2> QED BY <1>2, <2>1, WritePageFacts DEF Rowed
<1>3. ASSUME NEW s \in Sources, DeleteCommit(s) PROVE Rowed'
  BY <1>3, <1>a, DeleteFacts
<1>4. ASSUME NEW s \in Sources, DeleteDetach(s) \/ DeleteBroken(s) PROVE Rowed'
  BY <1>4, <1>a DEF DeleteDetach, DeleteBroken, canon
<1>6. ASSUME NEW d \in Drainers, Claim(d) \/ DrainEnd(d) PROVE Rowed'
  BY <1>6, <1>a DEF Claim, DrainEnd, canon
<1>8. ASSUME NEW d \in Drainers, StoreError(d) PROVE Rowed'
  BY <1>0, <1>8, <1>a DEF StoreError, canon, DataOK
<1>9. CASE Drop \/ List \/ RebuildEnd
  BY <1>9, <1>a DEF Drop, List, RebuildEnd, canon
<1>12. ASSUME NEW p \in Procs, Load(p) PROVE Rowed'
  BY <1>0, <1>12, <1>a DEF Load, canon, DataOK
<1>13. ASSUME NEW p \in Procs, MergeNode(p) \/ MergeSource(p) \/ ReadFile(p) \/ MergeEdge(p)
       PROVE  Rowed'
  BY <1>13, <1>a DEF MergeNode, MergeSource, ReadFile, MergeEdge, canon
<1>16. ASSUME NEW p \in Procs, Projected(p) PROVE Rowed'
  BY <1>0, <1>16, <1>a DEF Projected, canon, DataOK
<1>17. ASSUME NEW p \in Procs, Crash(p) PROVE Rowed'
  BY <1>17, <1>a DEF Crash, canon
<1>19. CASE UNCHANGED vars
  BY <1>19, <1>a DEF vars, canon
<1> QED
  BY <1>1, <1>2, <1>3, <1>4, <1>6, <1>8, <1>9, <1>12, <1>13, <1>16, <1>17, <1>19 DEF Next

(* A step of one process moves no other. *)
LEMMA OthersKept ==
  ASSUME NEW p \in Procs, NEW q \in Procs, q # p, Others(p)
  PROVE  /\ pc'[q] = pc[q] /\ todo'[q] = todo[q] /\ stage'[q] = stage[q]
         /\ cur'[q] = cur[q] /\ seen'[q] = seen[q] /\ merges'[q] = merges[q]
         /\ (Idle(q)' <=> Idle(q)) /\ (InHand(q)' <=> InHand(q))
  BY DEF Others, Idle, InHand

LEMMA TurnsStep == TypeOK /\ Hands /\ Turns /\ [Next]_vars => Turns'
<1> SUFFICES ASSUME TypeOK, Hands, Turns, [Next]_vars PROVE Turns'
  OBVIOUS
<1>0. DataOK /\ WorkOK
  BY TypeParts
<1>k. Rebuilder \in Procs /\ Rebuilder \notin Drainers
  BY ProcKinds
<1>a. ASSUME UNCHANGED <<partial, overlap, work>> PROVE Turns'
  BY <1>a DEF Turns, DrainsIdle, Idle, work
(* A process that was at work goes on or stops. *)
<1>b. ASSUME NEW p \in Procs, Others(p), ~Idle(p), UNCHANGED <<partial, overlap>>
      PROVE  Turns'
  <2>1. \A q \in Procs : Idle(q) => Idle(q)'
    BY <1>b, OthersKept
  <2>2. Idle(Rebuilder)' \/ partial'
    BY <1>b, <1>k, <2>1 DEF Turns
  <2>3. DrainsIdle => DrainsIdle'
    BY <2>1, ProcKinds DEF DrainsIdle
  <2> QED BY <1>b, <1>k, <2>1, <2>2, <2>3 DEF Turns
<1>1. ASSUME NEW s \in Sources, NEW K \in SUBSET Chunks, Ingest(s, K) PROVE Turns'
  BY <1>1, <1>a DEF Ingest
<1>2. ASSUME NEW c \in Concepts, NEW K \in SUBSET Chunks, WritePage(c, K) PROVE Turns'
  BY <1>2, <1>a DEF WritePage
<1>3. ASSUME NEW s \in Sources, DeleteCommit(s) \/ DeleteDetach(s) \/ DeleteBroken(s) PROVE Turns'
  BY <1>3, <1>a DEF DeleteCommit, DeleteDetach, DeleteBroken
<1>6. ASSUME NEW d \in Drainers, Claim(d) PROVE Turns'
  <2>1. /\ d \in Procs /\ d # Rebuilder /\ Others(d) /\ UNCHANGED <<partial, overlap>>
        /\ overlap = "writers" => Idle(Rebuilder)
    BY <1>0, <1>6, <1>k, ProcKinds, ProcSteps DEF Claim, MayDrain
  <2>2. Idle(Rebuilder)' <=> Idle(Rebuilder)
    BY <1>k, <2>1, OthersKept
  <2> QED BY <2>1, <2>2 DEF Turns
<1>7. ASSUME NEW d \in Drainers, DrainEnd(d) \/ StoreError(d) PROVE Turns'
  <2>1. d \in Procs /\ Others(d) /\ ~Idle(d) /\ UNCHANGED <<partial, overlap>>
    BY <1>0, <1>7, ProcKinds, ProcSteps DEF DrainEnd, StoreError, Writing, Idle
  <2> QED BY <1>b, <2>1
<1>9. CASE Drop
  <2>1. Others(Rebuilder) /\ partial' /\ overlap' = overlap /\ MayRebuild
    BY <1>0, <1>9, <1>k, ProcSteps DEF Drop
  <2>2. overlap = "writers" => DrainsIdle
    BY <2>1 DEF MayRebuild
  <2>3. DrainsIdle => DrainsIdle'
    BY <1>k, <2>1, OthersKept, ProcKinds DEF DrainsIdle
  <2> QED BY <2>1, <2>2, <2>3 DEF Turns
<1>10. CASE List
  <2>1. Others(Rebuilder) /\ ~Idle(Rebuilder) /\ UNCHANGED <<partial, overlap>>
    BY <1>0, <1>10, <1>k, ProcSteps DEF List, Idle
  <2> QED BY <1>b, <1>k, <2>1
<1>11. CASE RebuildEnd
  <2>1. Idle(Rebuilder)' /\ overlap' = overlap
    BY <1>0, <1>11, <1>k DEF RebuildEnd, Stop, Goto, Idle, WorkOK
  <2> QED BY <2>1 DEF Turns
<1>12. ASSUME NEW p \in Procs,
              \/ Load(p) \/ MergeNode(p) \/ MergeSource(p) \/ ReadFile(p) \/ MergeEdge(p)
              \/ Projected(p) \/ Crash(p)
       PROVE  Turns'
  <2>1. Others(p)
    BY <1>0, <1>12, ProcSteps
  <2>2. ~Idle(p) /\ UNCHANGED <<partial, overlap>>
    BY <1>12 DEF Load, MergeNode, MergeSource, ReadFile, MergeEdge, Projected, Crash, Idle
  <2> QED BY <1>b, <2>1, <2>2
<1>19. CASE UNCHANGED vars
  BY <1>19, <1>a DEF vars
<1> QED
  BY <1>1, <1>2, <1>3, <1>6, <1>7, <1>9, <1>10, <1>11, <1>12, <1>19 DEF Next

-----------------------------------------------------------------------------
(* What a process has read is current, or its row is not settled.          *)

(* What Fresh says of a rebuild that has x in hand and has read v. *)
Read(x, v) ==
  /\ overlap = "drains" => x \in Live(Entities) /\ v = version[Src(x)]
  /\ x \in Concepts => v = version[x] \/ row[x] # "indexed"
  /\ x \notin Concepts => v >= page[Src(x)] \/ Owed(Src(x))

LEMMA FreshParts ==
  Fresh <=> /\ \A d \in Drainers : InHand(d) => Current(d)
            /\ InHand(Rebuilder) => Read(cur[Rebuilder], seen[Rebuilder])
  BY DEF Fresh, Read, Current

LEMMA FreshNext ==
  Fresh' <=> /\ \A d \in Drainers : InHand(d)' => Current(d)'
             /\ InHand(Rebuilder)' => Read(cur[Rebuilder], seen[Rebuilder])'
  BY DEF Fresh, Read, Current

LEMMA SrcFacts ==
  /\ \A x \in Sources : Src(x) = x
  /\ \A x \in Chunks : Src(x) = SourceOf[x] /\ Src(x) \in Sources
  /\ \A x \in Concepts : Src(x) = x
  BY SourceOfChunk, EntityKinds DEF Src

(* What was read just now, or while nothing is written, is current. *)
LEMMA CurrentReadNext ==
  ASSUME TypeOK', RowFacts', NEW x \in Entities, x \in Live(Entities)', NEW v,
         v = version'[Src(x)]
  PROVE  Read(x, v)'
<1>0. Src(x)' = Src(x)
  BY DEF Src
<1>1. CASE x \in Concepts
  BY <1>1, SrcFacts, EntityKinds DEF Read
<1>2. CASE x \notin Concepts
  <2>1. Src(x) \in Sources
    BY <1>2, SrcFacts, EntityKinds
  <2>2. version'[Src(x)] \in Nat /\ page'[Src(x)] \in Nat /\ page'[Src(x)] <= version'[Src(x)]
    BY <2>1, EntityKinds DEF TypeOK, RowFacts
  <2> QED BY <1>0, <1>2, <2>2 DEF Read
<1> QED BY <1>1, <1>2

LEMMA ReadKept ==
  ASSUME NEW x \in Entities, NEW v, Read(x, v), UNCHANGED <<version, page, gone, overlap>>,
         \A e \in Entities : row'[e] = "indexed" => row[e] = "indexed"
  PROVE  Read(x, v)'
<1>1. x \in Concepts => v = version'[x] \/ row'[x] # "indexed"
  BY DEF Read
<1>2. x \notin Concepts => v >= page'[Src(x)] \/ Owed(Src(x))'
  <2>1. Owed(Src(x)) /\ x \notin Concepts => Owed(Src(x))'
    <3>1. Src(x)' = Src(x) /\ (x \notin Concepts => Src(x) \in Entities)
      BY SrcFacts, EntityKinds DEF Src
    <3>2. Live(Chunks)' = Live(Chunks) /\ Live(Chunks) \subseteq Entities
      BY LiveFacts, EntityKinds DEF Live
    <3> QED BY <3>1, <3>2 DEF Owed
  <2> QED BY <2>1 DEF Read
<1>3. overlap' = "drains" => x \in Live(Entities)' /\ v = version'[Src(x)]
  BY DEF Read, Live
<1> QED BY <1>1, <1>2, <1>3 DEF Read, Src

LEMMA CurrentKept ==
  ASSUME NEW p \in Procs, Current(p), UNCHANGED <<version, gone>>,
         cur'[p] = cur[p], seen'[p] = seen[p]
  PROVE  Current(p)'
  BY DEF Current, Live, Src

(* While a drain has something in hand, what a rebuild has in hand is current. *)
LEMMA BesideDrain ==
  ASSUME TypeOK, Turns, Fresh, NEW d \in Drainers, InHand(d), InHand(Rebuilder)
  PROVE  Current(Rebuilder)
<1>1. ~DrainsIdle /\ ~Idle(Rebuilder)
  BY DEF DrainsIdle, Idle, InHand
<1>2. overlap = "drains"
  BY <1>1, TypeParts DEF Turns, DataOK
<1> QED BY <1>2 DEF Fresh

LEMMA FreshStep ==
  ASSUME TypeOK, Hands, RowFacts, Turns, Fresh, [Next]_vars, TypeOK', Hands', RowFacts'
  PROVE  Fresh'
<1>0. DataOK /\ WorkOK
  BY TypeParts
<1>k. Rebuilder \in Procs /\ Rebuilder \notin Drainers
  BY ProcKinds
<1>h. \A p \in Procs : InHand(p) => cur[p] \in Entities /\ ~Idle(p)
  BY DEF Hands, HandOK, InHand, Idle
<1>w. ASSUME UNCHANGED work
      PROVE  \A p \in Procs : /\ InHand(p)' <=> InHand(p)
                              /\ cur'[p] = cur[p] /\ seen'[p] = seen[p]
  BY <1>w DEF InHand, work
(* What every process has in hand it had in hand before. *)
<1>a. ASSUME UNCHANGED <<version, page, gone, overlap>>,
             \A e \in Entities : row'[e] = "indexed" => row[e] = "indexed",
             \A p \in Procs : InHand(p)' => InHand(p) /\ cur'[p] = cur[p] /\ seen'[p] = seen[p]
      PROVE  Fresh'
  <2>1. ASSUME NEW d \in Drainers, InHand(d)' PROVE Current(d)'
    <3>1. d \in Procs
      BY ProcKinds
    <3>2. Current(d)
      BY <1>a, <2>1, <3>1 DEF Fresh
    <3> QED BY <1>a, <2>1, <3>1, <3>2, CurrentKept
  <2>2. ASSUME InHand(Rebuilder)' PROVE Read(cur[Rebuilder], seen[Rebuilder])'
    <3>1. /\ InHand(Rebuilder) /\ cur[Rebuilder] \in Entities
          /\ cur'[Rebuilder] = cur[Rebuilder] /\ seen'[Rebuilder] = seen[Rebuilder]
      BY <1>a, <1>h, <1>k, <2>2
    <3>2. PICK x \in Entities, v \in Nat : x = cur[Rebuilder] /\ v = seen[Rebuilder]
      BY <1>0, <1>k, <3>1 DEF WorkOK
    <3>3. Read(x, v)
      BY <3>1, <3>2, FreshParts
    <3>4. Read(x, v)'
      BY <1>a, <3>3, ReadKept
    <3> QED BY <3>1, <3>2, <3>4 DEF Read, Src
  <2> QED BY <2>1, <2>2, FreshNext
(* A writer finds no drain at work. *)
<1>b. ASSUME MayWrite, UNCHANGED <<overlap, work>>,
             ASSUME NEW x \in Entities, NEW v \in Nat, Read(x, v), overlap = "writers"
             PROVE  Read(x, v)'
      PROVE  Fresh'
  <2>1. ASSUME NEW d \in Drainers, InHand(d)' PROVE Current(d)'
    <3>1. d \in Procs /\ Idle(d)
      BY <1>b, ProcKinds DEF MayWrite, DrainsIdle
    <3> QED BY <1>b, <1>h, <1>w, <2>1, <3>1
  <2>2. ASSUME InHand(Rebuilder)' PROVE Read(cur[Rebuilder], seen[Rebuilder])'
    <3>1. /\ InHand(Rebuilder) /\ cur[Rebuilder] \in Entities /\ ~Idle(Rebuilder)
          /\ cur'[Rebuilder] = cur[Rebuilder] /\ seen'[Rebuilder] = seen[Rebuilder]
      BY <1>b, <1>h, <1>k, <1>w, <2>2
    <3>2. PICK x \in Entities, v \in Nat : x = cur[Rebuilder] /\ v = seen[Rebuilder]
      BY <1>0, <1>k, <3>1 DEF WorkOK
    <3>3. Read(x, v) /\ overlap = "writers"
      BY <1>0, <1>b, <3>1, <3>2, FreshParts DEF MayWrite, DataOK
    <3>4. Read(x, v)'
      BY <1>b, <3>3
    <3> QED BY <3>1, <3>2, <3>4 DEF Read, Src
  <2> QED BY <2>1, <2>2, FreshNext
<1>1. ASSUME NEW s \in Sources, NEW K \in SUBSET Chunks, Ingest(s, K) PROVE Fresh'
  <2>1. MayWrite /\ UNCHANGED <<overlap, work>>
    BY <1>1 DEF Ingest
  <2>2. ASSUME NEW x \in Entities, NEW v \in Nat, Read(x, v), overlap = "writers"
        PROVE  Read(x, v)'
    <3>1. overlap' # "drains"
      BY <2>1, <2>2
    <3>2. CASE x \in Concepts
      <4>1. x # s /\ x \notin K /\ x \notin ChunksOf(s)
        BY <3>2, EntityKinds DEF ChunksOf
      <4>2. version'[x] = version[x] /\ row'[x] = row[x]
        BY <1>1, <4>1, IngestFacts
      <4> QED BY <2>2, <3>1, <3>2, <4>2 DEF Read
    <3>3. CASE x \notin Concepts
      <4>1. Src(x) \in Sources /\ Src(x)' = Src(x)
        BY <3>3, SrcFacts, EntityKinds DEF Src
      <4>2. PICK t \in Sources : t = Src(x)
        BY <4>1
      <4>3. v >= page[t] \/ Owed(t)
        BY <2>2, <3>3, <4>2 DEF Read
      <4>4. v >= page'[t] \/ Owed(t)'
        <5>1. CASE t # s
          <6>1. page'[t] = page[t] /\ row'[t] = row[t]
            BY <1>1, <5>1, EntityKinds, IngestFacts DEF ChunksOf
          <6>2. ASSUME NEW k \in Chunks, k \in Live(Chunks)', SourceOf[k] = t
                PROVE  k \in Live(Chunks) /\ row'[k] = row[k]
            <7>1. k \notin ChunksOf(s) /\ k # s /\ k \in Entities
              BY <5>1, <6>2, EntityKinds DEF ChunksOf
            <7> QED BY <1>1, <5>1, <6>2, <7>1, IngestFacts
          <6>3. Live(Chunks)' \subseteq Chunks
            BY DEF Live
          <6> QED BY <4>3, <6>1, <6>2, <6>3 DEF Owed
        <5>2. CASE t = s /\ K = {}
          <6>1. page'[t] = page[t] /\ row'[t] = row[t]
            BY <1>1, <5>2, IngestFacts
          <6>2. \A k \in Chunks : ~(k \in Live(Chunks)' /\ SourceOf[k] = t)
            BY <1>1, <5>2, IngestFacts
          <6>3. Live(Chunks)' \subseteq Chunks
            BY DEF Live
          <6> QED BY <4>3, <6>1, <6>2, <6>3 DEF Owed
        <5>3. CASE t = s /\ K # {}
          <6>1. row'[t] = "pending"
            BY <1>1, <5>3, IngestFacts
          <6>2. \A k \in Chunks : k \in Live(Chunks)' /\ SourceOf[k] = t => row'[k] = "pending"
            BY <1>1, <5>3, IngestFacts
          <6>3. Live(Chunks)' \subseteq Chunks
            BY DEF Live
          <6> QED BY <6>1, <6>2, <6>3 DEF Owed
        <5> QED BY <5>1, <5>2, <5>3
      <4> QED BY <3>1, <3>3, <4>1, <4>2, <4>4 DEF Read
    <3> QED BY <3>2, <3>3
  <2> QED BY <1>b, <2>1, <2>2
<1>2. ASSUME NEW c \in Concepts, NEW K \in SUBSET Chunks, WritePage(c, K) PROVE Fresh'
  <2>1. MayWrite /\ UNCHANGED <<overlap, work>>
    BY <1>2 DEF WritePage
  <2>2. ASSUME NEW x \in Entities, NEW v \in Nat, Read(x, v), overlap = "writers"
        PROVE  Read(x, v)'
    <3>1. overlap' # "drains"
      BY <2>1, <2>2
    <3>2. CASE x \in Concepts
      BY <1>2, <2>2, <3>1, <3>2, WritePageFacts DEF Read
    <3>3. CASE x \notin Concepts
      <4>1. Src(x) \in Sources /\ Src(x)' = Src(x)
        BY <3>3, SrcFacts, EntityKinds DEF Src
      <4>2. page' = page /\ Live(Chunks)' = Live(Chunks)
        BY <1>2, WritePageFacts
      <4>3. \A e \in Sources \cup Chunks : row'[e] = row[e]
        BY <1>2, EntityKinds, WritePageFacts
      <4>4. Owed(Src(x)) => Owed(Src(x))'
        BY <4>1, <4>2, <4>3, LiveFacts DEF Owed
      <4> QED BY <2>2, <3>1, <3>3, <4>1, <4>2, <4>4 DEF Read
    <3> QED BY <3>2, <3>3
  <2> QED BY <1>b, <2>1, <2>2
<1>3. ASSUME NEW s \in Sources, DeleteCommit(s) PROVE Fresh'
  <2>1. MayWrite /\ UNCHANGED <<overlap, work>>
    BY <1>3 DEF DeleteCommit
  <2>2. ASSUME NEW x \in Entities, NEW v \in Nat, Read(x, v), overlap = "writers"
        PROVE  Read(x, v)'
    <3>1. overlap' # "drains"
      BY <2>1, <2>2
    <3>2. UNCHANGED <<version, page>> /\ \A e \in Entities : row'[e] = "indexed" => row[e] = "indexed"
      BY <1>3, DeleteFacts
    <3>3. x \in Concepts => v = version'[x] \/ row'[x] # "indexed"
      BY <2>2, <3>2 DEF Read
    <3>4. ASSUME x \notin Concepts, Owed(Src(x)) PROVE Owed(Src(x))'
      <4>1. Src(x) \in Entities /\ Src(x)' = Src(x)
        BY <3>4, SrcFacts, EntityKinds DEF Src
      <4>2. \A k \in Live(Chunks)' : k \in Live(Chunks) /\ k \in Entities
        BY <1>3, EntityKinds, DeleteFacts DEF Live
      <4> QED BY <3>2, <3>4, <4>1, <4>2 DEF Owed
    <3>5. Src(x)' = Src(x)
      BY DEF Src
    <3> QED BY <2>2, <3>1, <3>2, <3>3, <3>4, <3>5 DEF Read
  <2> QED BY <1>b, <2>1, <2>2
<1>4. ASSUME NEW s \in Sources, DeleteDetach(s) \/ DeleteBroken(s) PROVE Fresh'
  <2>1. UNCHANGED <<version, page, gone, overlap, row, work>>
    BY <1>4 DEF DeleteDetach, DeleteBroken, canon
  <2> QED BY <1>a, <1>w, <2>1
<1>g. ASSUME NEW p \in Procs, Others(p), InHand(p)' => InHand(p) /\ cur'[p] = cur[p] /\ seen'[p] = seen[p]
      PROVE  \A q \in Procs : InHand(q)' => InHand(q) /\ cur'[q] = cur[q] /\ seen'[q] = seen[q]
  BY <1>g, OthersKept
<1>6. ASSUME NEW d \in Drainers, Claim(d) \/ DrainEnd(d) PROVE Fresh'
  <2>1. d \in Procs /\ Others(d) /\ UNCHANGED <<version, page, gone, overlap, row>>
    BY <1>0, <1>6, ProcKinds, ProcSteps DEF Claim, DrainEnd, canon
  <2>2. ~InHand(d)'
    BY <1>0, <1>6, <2>1 DEF Claim, DrainEnd, Stop, Goto, InHand, WorkOK
  <2> QED BY <1>a, <1>g, <2>1, <2>2
<1>8. ASSUME NEW d \in Drainers, StoreError(d) PROVE Fresh'
  <2>1. d \in Procs /\ Others(d) /\ UNCHANGED <<version, page, gone, overlap>>
    BY <1>0, <1>8, ProcKinds, ProcSteps DEF StoreError, canon
  <2>2. ~InHand(d)'
    BY <1>0, <1>8, <2>1 DEF StoreError, Return, Goto, InHand, WorkOK
  <2>3. \A e \in Entities : row'[e] = "indexed" => row[e] = "indexed"
    BY <1>0, <1>8 DEF StoreError, DataOK
  <2> QED BY <1>a, <1>g, <2>1, <2>2, <2>3
<1>9. CASE Drop \/ List \/ RebuildEnd
  <2>1. Others(Rebuilder) /\ UNCHANGED <<version, page, gone, overlap, row>>
    BY <1>0, <1>9, <1>k, ProcSteps DEF Drop, List, RebuildEnd, canon
  <2>2. ~InHand(Rebuilder)'
    BY <1>0, <1>9, <1>k DEF Drop, List, RebuildEnd, Stop, Goto, InHand, WorkOK
  <2> QED BY <1>a, <1>g, <1>k, <2>1, <2>2
<1>12. ASSUME NEW p \in Procs, Load(p) PROVE Fresh'
  <2>1. Others(p) /\ UNCHANGED <<version, page, gone, overlap>>
    BY <1>0, <1>12, ProcSteps DEF Load, canon
  <2>2. \A e \in Entities : row'[e] = "indexed" => row[e] = "indexed"
    BY <1>0, <1>12 DEF Load, DataOK
  <2>3. CASE ~InHand(p)'
    BY <1>a, <1>g, <2>1, <2>2, <2>3
  <2>4. CASE InHand(p)'
    <3>1. PICK x \in todo[p] :
            /\ x \in Live(Entities)
            /\ cur' = [cur EXCEPT ![p] = x]
            /\ seen' = [seen EXCEPT ![p] = version[IF x \in Chunks THEN SourceOf[x] ELSE x]]
      BY <1>0, <1>12, <2>4 DEF Load, Return, Goto, InHand, WorkOK
    <3>2. x \in Entities /\ cur'[p] = x /\ seen'[p] = version'[Src(x)] /\ x \in Live(Entities)'
      BY <1>0, <2>1, <3>1 DEF WorkOK, Src, Live
    <3>3. ASSUME NEW d \in Drainers, InHand(d)' PROVE Current(d)'
      <4>0. d \in Procs
        BY ProcKinds
      <4>1. CASE d = p
        BY <3>2, <4>1 DEF Current, Src
      <4>2. CASE d # p
        <5>1. InHand(d) /\ cur'[d] = cur[d] /\ seen'[d] = seen[d]
          BY <2>1, <3>3, <4>0, <4>2, OthersKept
        <5> QED BY <2>1, <4>0, <5>1, CurrentKept DEF Fresh
      <4> QED BY <4>1, <4>2
    <3>4. ASSUME InHand(Rebuilder)' PROVE Read(cur[Rebuilder], seen[Rebuilder])'
      <4>1. CASE p = Rebuilder
        <5>1. PICK v \in Nat : v = seen'[p]
          BY <4>1, <1>k DEF TypeOK
        <5>2. Read(x, v)'
          BY <3>2, <5>1, CurrentReadNext
        <5> QED BY <3>2, <4>1, <5>1, <5>2 DEF Read, Src
      <4>2. CASE p # Rebuilder
        <5>1. /\ InHand(Rebuilder) /\ cur[Rebuilder] \in Entities
              /\ cur'[Rebuilder] = cur[Rebuilder] /\ seen'[Rebuilder] = seen[Rebuilder]
          BY <1>h, <1>k, <2>1, <3>4, <4>2, OthersKept
        <5>2. PICK y \in Entities, v \in Nat : y = cur[Rebuilder] /\ v = seen[Rebuilder]
          BY <1>0, <1>k, <5>1 DEF WorkOK
        <5>3. Read(y, v)
          BY <5>1, <5>2, FreshParts
        <5>4. Read(y, v)'
          BY <2>1, <2>2, <5>3, ReadKept
        <5> QED BY <5>1, <5>2, <5>4 DEF Read, Src
      <4> QED BY <4>1, <4>2
    <3> QED BY <3>3, <3>4, FreshNext
  <2> QED BY <2>3, <2>4
<1>13. ASSUME NEW p \in Procs, MergeNode(p) \/ MergeSource(p) \/ ReadFile(p) \/ MergeEdge(p)
       PROVE  Fresh'
  <2>1. Others(p) /\ UNCHANGED <<version, page, gone, overlap, row, cur, seen>>
    BY <1>0, <1>13, ProcSteps DEF MergeNode, MergeSource, ReadFile, MergeEdge, canon
  <2>2. InHand(p)
    BY <1>13 DEF MergeNode, MergeSource, ReadFile, MergeEdge, InHand
  <2> QED BY <1>a, <1>g, <2>1, <2>2
<1>18. ASSUME NEW p \in Procs, Crash(p) PROVE Fresh'
  <2>1. Others(p) /\ UNCHANGED <<version, page, gone, overlap, row>>
    BY <1>0, <1>18, ProcSteps DEF Crash, canon
  <2>2. ~InHand(p)'
    BY <1>0, <1>18 DEF Crash, Stop, Goto, InHand, WorkOK
  <2> QED BY <1>a, <1>g, <2>1, <2>2
<1>17. ASSUME NEW p \in Procs, Projected(p) PROVE Fresh'
  <2>1. Others(p) /\ UNCHANGED <<version, page, gone, overlap>> /\ InHand(p)
    BY <1>0, <1>17, ProcSteps DEF Projected, canon, InHand
  <2>2. ~InHand(p)'
    BY <1>0, <1>17 DEF Projected, Return, Goto, InHand, WorkOK
  <2>3. CASE p = Rebuilder
    <3>1. row' = row
      BY <1>17, <1>k, <2>3 DEF Projected
    <3> QED BY <1>a, <1>g, <2>1, <2>2, <3>1
  <2>4. CASE p # Rebuilder
    <3>1. p \in Drainers
      BY <2>4, ProcKinds
    <3>2. ASSUME NEW d \in Drainers, InHand(d)' PROVE Current(d)'
      <4>0. d \in Procs
        BY ProcKinds
      <4>1. d # p
        BY <2>2, <3>2
      <4>2. InHand(d) /\ cur'[d] = cur[d] /\ seen'[d] = seen[d]
        BY <2>1, <3>2, <4>0, <4>1, OthersKept
      <4> QED BY <2>1, <4>0, <4>2, CurrentKept DEF Fresh
    <3>3. ASSUME InHand(Rebuilder)' PROVE Read(cur[Rebuilder], seen[Rebuilder])'
      <4>1. /\ InHand(Rebuilder) /\ cur[Rebuilder] \in Entities
            /\ cur'[Rebuilder] = cur[Rebuilder] /\ seen'[Rebuilder] = seen[Rebuilder]
        BY <1>h, <1>k, <2>1, <2>4, <3>3, OthersKept
      <4>2. Current(Rebuilder)
        BY <2>1, <3>1, <4>1, BesideDrain
      <4>3. PICK y \in Entities, v \in Nat : y = cur[Rebuilder] /\ v = seen[Rebuilder]
        BY <1>0, <1>k, <4>1 DEF WorkOK
      <4>4. y \in Live(Entities)' /\ v = version'[Src(y)]
        BY <2>1, <4>2, <4>3 DEF Current, Live, Src
      <4>5. Read(y, v)'
        BY <4>4, CurrentReadNext
      <4> QED BY <4>1, <4>3, <4>5 DEF Read, Src
    <3> QED BY <3>2, <3>3, FreshNext
  <2> QED BY <2>3, <2>4
<1>19. CASE UNCHANGED vars
  BY <1>19, <1>a, <1>w DEF vars, canon
<1> QED
  BY <1>1, <1>2, <1>3, <1>4, <1>6, <1>8, <1>9, <1>12, <1>13, <1>17, <1>18, <1>19 DEF Next

-----------------------------------------------------------------------------
(* What is due is in the graph, or is still to be merged.                  *)

(* What m has read is enough for what is due. *)
LEMMA SeenEnough ==
  ASSUME TypeOK, Hands, RowFacts, Turns, Fresh, NEW m \in Procs, InHand(m),
         NEW e \in Entities, NEW p \in Procs, Due(e, p)
  PROVE  /\ cur[m] \notin Concepts /\ e \notin Concepts /\ Src(e) = Src(cur[m])
              => seen[m] >= page[Src(e)]
         /\ cur[m] = e /\ e \in Concepts => seen[m] = version[e]
<1>0. cur[m] \in Entities
  BY DEF Hands, HandOK
<1>1. ASSUME Current(m)
      PROVE  /\ cur[m] \notin Concepts /\ e \notin Concepts /\ Src(e) = Src(cur[m])
                  => seen[m] >= page[Src(e)]
             /\ cur[m] = e /\ e \in Concepts => seen[m] = version[e]
  <2>1. CASE e \in Concepts
    BY <1>1, <2>1, SrcFacts DEF Current
  <2>2. CASE e \notin Concepts
    <3>1. Src(e) \in Sources
      BY <2>2, SrcFacts, EntityKinds
    <3>2. version[Src(e)] \in Nat /\ page[Src(e)] \in Nat /\ page[Src(e)] <= version[Src(e)]
      BY <3>1, EntityKinds DEF TypeOK, RowFacts
    <3> QED BY <1>1, <2>2, <3>2 DEF Current
  <2> QED BY <2>1, <2>2
<1>2. CASE m \in Drainers
  BY <1>1, <1>2 DEF Fresh
<1>3. CASE m = Rebuilder
  <2>1. CASE p # Rebuilder
    <3>1. p \in Drainers /\ InHand(p)
      BY <2>1, ProcKinds DEF Due
    <3> QED BY <1>1, <1>3, <3>1, BesideDrain
  <2>2. CASE p = Rebuilder
    <3>1. row[e] = "indexed" /\ e \in Live(Entities)
      BY <2>2 DEF Due
    <3>2. e \notin Concepts => ~Owed(Src(e))
      <4>1. CASE e \in Sources
        BY <3>1, <4>1, SrcFacts DEF Owed
      <4>2. CASE e \in Chunks
        <5>1. e \in Live(Chunks) /\ SourceOf[e] = Src(e)
          BY <3>1, <4>2, LiveFacts, SrcFacts
        <5> QED BY <3>1, <5>1 DEF Owed
      <4> QED BY <4>1, <4>2, EntityKinds
    <3>3. Read(cur[m], seen[m])
      BY <1>3, FreshParts
    <3> QED BY <3>1, <3>2, <3>3 DEF Read
  <2> QED BY <2>1, <2>2
<1> QED BY <1>2, <1>3, ProcKinds

(* A promise is kept when its parts are. *)
LEMMA Keep ==
  ASSUME NEW e \in Entities, NEW p \in Procs, Promised(e, p),
         Coming(e) => Coming(e)',
         NodeOK(e) => NodeOK(e)',
         e \in Chunks /\ TitleOK(e) => TitleOK(e)',
         Needed(e)' \subseteq Needed(e),
         \A x \in Needed(e)' : x \in edges => x \in edges',
         \A q \in {Rebuilder, p} : NodeAhead(q, e) => NodeAhead(q, e)' \/ NodeOK(e)',
         \A q \in {Rebuilder, p} :
           e \in Chunks /\ TitleAhead(q, e) => TitleAhead(q, e)' \/ TitleOK(e)',
         \A q \in {Rebuilder, p} : \A x \in Needed(e)' :
           EdgeAhead(q, e, x) => EdgeAhead(q, e, x)' \/ x \in edges'
  PROVE  Promised(e, p)'
<1>1. CASE Coming(e)
  BY <1>1 DEF Promised
<1>2. CASE ~Coming(e)
  <2>1. NodeOK(e)' \/ NodeAhead(Rebuilder, e)' \/ NodeAhead(p, e)'
    <3>1. NodeOK(e) \/ NodeAhead(Rebuilder, e) \/ NodeAhead(p, e)
      BY <1>2 DEF Promised
    <3> QED BY <3>1
  <2>2. ASSUME e \in Chunks
        PROVE  TitleOK(e)' \/ TitleAhead(Rebuilder, e)' \/ TitleAhead(p, e)'
    <3>1. TitleOK(e) \/ TitleAhead(Rebuilder, e) \/ TitleAhead(p, e)
      BY <1>2, <2>2 DEF Promised
    <3> QED BY <2>2, <3>1
  <2>3. ASSUME NEW x \in Needed(e)'
        PROVE  x \in edges' \/ EdgeAhead(Rebuilder, e, x)' \/ EdgeAhead(p, e, x)'
    <3>1. x \in edges \/ EdgeAhead(Rebuilder, e, x) \/ EdgeAhead(p, e, x)
      BY <1>2, <2>3 DEF Promised
    <3> QED BY <2>3, <3>1
  <2> QED BY <2>1, <2>2, <2>3 DEF Promised
<1> QED BY <1>1, <1>2

(* A process that does not move has the same ahead of it. *)
LEMMA AheadKept ==
  ASSUME NEW q, NEW e, pc'[q] = pc[q], cur'[q] = cur[q], merges'[q] = merges[q]
  PROVE  /\ NodeAhead(q, e)' <=> NodeAhead(q, e)
         /\ TitleAhead(q, e)' <=> TitleAhead(q, e)
         /\ \A x : EdgeAhead(q, e, x)' <=> EdgeAhead(q, e, x)
  BY DEF NodeAhead, TitleAhead, EdgeAhead

LEMMA ComingKept ==
  ASSUME NEW e, stage'[Rebuilder] = stage[Rebuilder], todo'[Rebuilder] = todo[Rebuilder]
  PROVE  Coming(e) => Coming(e)'
  BY DEF Coming

(* Without an entity in hand nothing is ahead. *)
LEMMA NothingAhead ==
  ASSUME NEW q, NEW e, ~InHand(q)
  PROVE  ~NodeAhead(q, e) /\ ~TitleAhead(q, e) /\ \A x : ~EdgeAhead(q, e, x)
  BY DEF InHand, NodeAhead, TitleAhead, EdgeAhead

LEMMA CanonKept ==
  ASSUME NEW e, UNCHANGED canon
  PROVE  /\ Needed(e)' = Needed(e)
         /\ node' = node => (NodeOK(e) => NodeOK(e)') /\ (TitleOK(e) => TitleOK(e)')
         /\ e \in Live(Entities)' <=> e \in Live(Entities)
  BY DEF canon, Needed, Grounding, PartOf, Evidences, Grounds, Live, NodeOK, TitleOK, Full

(* A step that leaves the graph and the stored rows, and what p and the rebuild
   have ahead of them. *)
LEMMA KeepStill ==
  ASSUME NEW e \in Entities, NEW p \in Procs, Promised(e, p),
         UNCHANGED <<canon, graph>>,
         Coming(e) => Coming(e)',
         \A q \in {Rebuilder, p} :
           \/ ~InHand(q)
           \/ pc'[q] = pc[q] /\ cur'[q] = cur[q] /\ merges'[q] = merges[q]
  PROVE  Promised(e, p)'
<1>1. /\ Needed(e)' = Needed(e) /\ edges' = edges
      /\ (NodeOK(e) => NodeOK(e)') /\ (TitleOK(e) => TitleOK(e)')
  BY CanonKept DEF graph
<1>2. ASSUME NEW q \in {Rebuilder, p}
      PROVE  /\ NodeAhead(q, e) => NodeAhead(q, e)'
             /\ TitleAhead(q, e) => TitleAhead(q, e)'
             /\ \A x : EdgeAhead(q, e, x) => EdgeAhead(q, e, x)'
  BY <1>2, AheadKept, NothingAhead
<1> QED BY <1>1, <1>2, Keep

LEMMA WriterPromises ==
  ASSUME TypeOK, Hands, RowFacts, Rowed, Turns, Fresh, Promises, TypeOK', Hands',
         NEW e \in Entities, NEW p \in Procs, Due(e, p)', ~(partial' /\ Idle(Rebuilder)'),
         \/ \E s \in Sources : \/ \E K \in SUBSET Chunks : Ingest(s, K)
                               \/ DeleteCommit(s) \/ DeleteDetach(s) \/ DeleteBroken(s)
         \/ \E c \in Concepts, K \in SUBSET Chunks : WritePage(c, K)
  PROVE  Promised(e, p)'
<1>0. DataOK /\ WorkOK
  BY TypeParts
<1>1. UNCHANGED <<partial, overlap, work>>
  BY DEF Ingest, WritePage, DeleteCommit, DeleteDetach, DeleteBroken
<1>2. ~(partial /\ Idle(Rebuilder))
  BY <1>1 DEF Idle, work
<1>3. \A q, x : /\ NodeAhead(q, e)' <=> NodeAhead(q, e)
                /\ TitleAhead(q, e)' <=> TitleAhead(q, e)
                /\ EdgeAhead(q, e, x)' <=> EdgeAhead(q, e, x)
  BY <1>1, AheadKept DEF work
<1>4. Coming(e) => Coming(e)'
  BY <1>1, ComingKept DEF work
<1>5. InHand(p)' <=> InHand(p)
  BY <1>1 DEF InHand, work
<1>6. MayWrite => p = Rebuilder
  BY <1>5, ProcKinds DEF Due, MayWrite, DrainsIdle, InHand, Idle
(* Nothing of e is written, and its place in the graph is as it was. *)
<1>7. ASSUME Due(e, p), NodeOK(e) => NodeOK(e)', e \in Chunks /\ TitleOK(e) => TitleOK(e)',
             Needed(e)' \subseteq Needed(e), \A x \in Needed(e)' : x \in edges => x \in edges'
      PROVE  Promised(e, p)'
  <2>1. Promised(e, p)
    BY <1>2, <1>7 DEF Promises
  <2> QED BY <1>3, <1>4, <1>7, <2>1, Keep
<1>a. ASSUME NEW s \in Sources, NEW K \in SUBSET Chunks, Ingest(s, K) PROVE Promised(e, p)'
  <2>1. p = Rebuilder /\ row'[e] = "indexed" /\ e \in Live(Entities)'
    BY <1>6, <1>a DEF Ingest, Due
  <2>2. node' = node /\ edges' = edges /\ cites' = cites
    BY <1>a DEF Ingest, graph
  <2>3. CASE e \in Sources
    <3>1. page'[e] = page[e] /\ row'[e] = row[e] /\ (e = s => K = {})
      BY <1>a, <2>1, <2>3, EntityKinds, IngestFacts DEF ChunksOf
    <3>2. e \in Live(Entities)
      <4>1. CASE e # s
        BY <1>a, <2>1, <2>3, <4>1, IngestFacts, LiveFacts, LiveNext
      <4>2. CASE e = s /\ version[e] > 0
        BY <1>a, <4>2, IngestFacts, LiveFacts
      <4>3. e = s => version[e] > 0
        BY <2>1, <3>1 DEF Rowed
      <4> QED BY <4>1, <4>2, <4>3
    <3> QED BY <1>7, <2>1, <2>2, <2>3, <3>1, <3>2, EntityKinds DEF Due, NodeOK, Needed
  <2>4. CASE e \in Chunks
    <3>1. e \notin K /\ e \in Live(Chunks)'
      BY <1>a, <2>1, <2>4, IngestFacts, LiveNext
    <3>2. SourceOf[e] # s /\ e \in Live(Chunks)
      BY <1>a, <2>4, <3>1, IngestFacts
    <3>3. e # s /\ e \notin ChunksOf(s)
      BY <2>4, <3>2, EntityKinds DEF ChunksOf
    <3>4. row'[e] = row[e] /\ version'[e] = version[e] /\ page'[SourceOf[e]] = page[SourceOf[e]]
      BY <1>a, <2>4, <3>1, <3>2, <3>3, SourceOfChunk, IngestFacts
    <3>5. Due(e, p)
      BY <2>1, <2>4, <3>2, <3>4, LiveFacts DEF Due
    <3> QED BY <1>7, <2>2, <2>4, <3>4, <3>5, EntityKinds DEF NodeOK, TitleOK, Needed, PartOf, Evidences
  <2>5. CASE e \in Concepts
    <3>1. e # s /\ e \notin K /\ e \notin ChunksOf(s)
      BY <2>5, EntityKinds DEF ChunksOf
    <3>2. row'[e] = row[e] /\ version'[e] = version[e] /\ e \in Live(Concepts)
      BY <1>a, <2>1, <2>5, <3>1, IngestFacts, LiveNext DEF Live
    <3>3. cites[e] \cap Live(Chunks)' \subseteq cites[e] \cap Live(Chunks)
      <4> SUFFICES ASSUME NEW k \in cites[e], k \in Live(Chunks)' PROVE k \in Live(Chunks)
        OBVIOUS
      <4>1. k \in Chunks /\ version[k] > 0
        BY <1>0, <2>5 DEF DataOK, RowFacts
      <4>2. k \notin K
        BY <1>a, <4>1, IngestFacts
      <4> QED BY <1>a, <4>1, <4>2, IngestFacts
    <3>4. Needed(e)' \subseteq Needed(e)
      BY <2>2, <2>5, <3>3, EntityKinds DEF Needed, Grounding, Grounds
    <3>5. Due(e, p)
      BY <2>1, <2>5, <3>2, LiveFacts DEF Due
    <3> QED BY <1>7, <2>2, <2>5, <3>2, <3>4, <3>5, EntityKinds DEF NodeOK
  <2> QED BY <2>3, <2>4, <2>5, EntityKinds
<1>b. ASSUME NEW c \in Concepts, NEW K \in SUBSET Chunks, WritePage(c, K) PROVE Promised(e, p)'
  <2>1. p = Rebuilder /\ row'[e] = "indexed" /\ e \in Live(Entities)'
    BY <1>6, <1>b DEF WritePage, Due
  <2>2. e # c
    BY <1>b, <2>1, WritePageFacts
  <2>3. /\ version'[e] = version[e] /\ row'[e] = row[e] /\ e \in Live(Entities)
        /\ UNCHANGED <<page, node, edges>> /\ Live(Chunks)' = Live(Chunks)
        /\ e \in Concepts => cites'[e] = cites[e]
    BY <1>b, <2>1, <2>2, WritePageFacts DEF graph
  <2>4. Due(e, p)
    BY <2>1, <2>3 DEF Due
  <2>5. Needed(e)' = Needed(e)
    BY <2>3 DEF Needed, Grounding, Grounds, PartOf, Evidences
  <2>6. (NodeOK(e) => NodeOK(e)') /\ (TitleOK(e) => TitleOK(e)')
    BY <2>3 DEF NodeOK, TitleOK
  <2> QED BY <1>7, <2>3, <2>4, <2>5, <2>6
<1>c. ASSUME NEW s \in Sources, DeleteCommit(s) PROVE Promised(e, p)'
  <2>1. p = Rebuilder /\ row'[e] = "indexed" /\ e \in Live(Entities)'
    BY <1>6, <1>c DEF DeleteCommit, Due
  <2>2. e \in Live(Entities) /\ row[e] = "indexed" /\ UNCHANGED <<version, page, cites, node, edges>>
    BY <1>c, <2>1, DeleteFacts DEF graph
  <2>3. Live(Chunks)' \subseteq Live(Chunks)
    BY <1>c, DeleteFacts DEF Live
  <2>4. Due(e, p)
    BY <2>1, <2>2 DEF Due
  <2>5. Needed(e)' \subseteq Needed(e)
    BY <2>2, <2>3 DEF Needed, Grounding, Grounds, PartOf, Evidences
  <2>6. (NodeOK(e) => NodeOK(e)') /\ (TitleOK(e) => TitleOK(e)')
    BY <2>2 DEF NodeOK, TitleOK
  <2> QED BY <1>7, <2>2, <2>4, <2>5, <2>6
<1>d. ASSUME NEW s \in Sources, DeleteBroken(s) PROVE Promised(e, p)'
  <2>1. UNCHANGED <<canon, row, graph>>
    BY <1>d DEF DeleteBroken
  <2>2. Due(e, p)
    BY <1>1, <1>5, <2>1 DEF Due, Live, canon, work
  <2> QED BY <1>7, <2>1, <2>2, CanonKept DEF graph
<1>e. ASSUME NEW s \in Sources, DeleteDetach(s) PROVE Promised(e, p)'
  <2>1. PICK X : Detach(X) /\ X \in {{s}, deleting[s].ids}
    BY <1>e DEF DeleteDetach
  <2>2. deleting[s].phase # "idle" /\ UNCHANGED <<canon, row>>
    BY <1>e DEF DeleteDetach
  <2>3. X \subseteq gone
    BY <2>1, <2>2 DEF RowFacts
  <2>4. Due(e, p)
    BY <1>1, <1>5, <2>2 DEF Due, Live, canon, work
  <2>5. e \in Live(Entities) /\ e \notin X
    BY <2>3, <2>4, LiveFacts DEF Due
  <2>6. node'[e] = node[e]
    BY <2>1, <2>5 DEF Detach
  <2>7. ASSUME e \in Chunks
        PROVE  SourceOf[e] \notin X /\ node'[SourceOf[e]] = node[SourceOf[e]]
    <3>1. SourceOf[e] \in Live(Sources)
      BY <2>5, <2>7, LiveFacts DEF RowFacts
    <3>2. SourceOf[e] \notin X /\ SourceOf[e] \in Entities
      BY <2>3, <2>7, <3>1, SourceOfChunk, EntityKinds, LiveFacts
    <3> QED BY <2>1, <3>2 DEF Detach
  <2>8. ASSUME NEW x \in Needed(e), x \in edges PROVE x \in edges'
    <3>1. x[2] \notin X /\ x[3] \notin X
      <4>1. CASE e \in Chunks
        BY <2>5, <2>7, <2>8, <4>1 DEF Needed, PartOf, Evidences
      <4>2. CASE e \in Concepts
        <5>1. PICK k \in cites[e] \cap Live(Chunks) : x = <<"GROUNDS", e, k>>
          BY <2>8, <4>2, EntityKinds DEF Needed, Grounding, Grounds
        <5>2. k \notin X
          BY <2>3, <5>1, LiveFacts
        <5> QED BY <2>5, <5>1, <5>2
      <4>3. CASE e \in Sources
        BY <2>8, <4>3, EntityKinds DEF Needed
      <4> QED BY <4>1, <4>2, <4>3, EntityKinds
    <3> QED BY <2>1, <2>8, <3>1 DEF Detach
  <2>9. Needed(e)' = Needed(e)
    BY <2>2, CanonKept
  <2>10. (NodeOK(e) => NodeOK(e)') /\ (e \in Chunks /\ TitleOK(e) => TitleOK(e)')
    BY <2>2, <2>6, <2>7 DEF NodeOK, TitleOK, canon
  <2> QED BY <1>7, <2>4, <2>8, <2>9, <2>10
<1> QED BY <1>a, <1>b, <1>c, <1>d, <1>e

(* The edges of the entity in hand stay ahead until they are merged. *)
LEMMA EdgeAheadStep ==
  ASSUME TypeOK, Hands, NEW m \in Procs,
         MergeNode(m) \/ MergeSource(m) \/ ReadFile(m) \/ MergeEdge(m),
         NEW e \in Entities, NEW x \in Needed(e), EdgeAhead(m, e, x)
  PROVE  EdgeAhead(m, e, x)' \/ x \in edges'
<1>0. WorkOK
  BY TypeParts
<1>1. cur[m] = e
  BY DEF EdgeAhead
<1>a. CASE MergeNode(m)
  <2>1. pc'[m] = (IF cur[m] \in Sources THEN "done"
                  ELSE IF cur[m] \in Chunks THEN "source" ELSE "file") /\ cur' = cur
    BY <1>0, <1>a DEF MergeNode, Goto, WorkOK
  <2>2. e \notin Sources
    BY EntityKinds DEF Needed
  <2> QED BY <1>1, <2>1, <2>2 DEF EdgeAhead
<1>b. CASE MergeSource(m)
  <2>1. /\ pc[m] = "source" /\ cur' = cur
        /\ pc'[m] = "edges" /\ merges'[m] = {PartOf(cur[m]), Evidences(cur[m])}
    BY <1>0, <1>b DEF MergeSource, Goto, WorkOK
  <2>2. cur[m] \in Chunks
    BY <2>1 DEF Hands, HandOK, InHand
  <2>3. Needed(e) = {PartOf(e), Evidences(e)}
    BY <1>1, <2>2 DEF Needed
  <2> QED BY <1>1, <2>1, <2>3 DEF EdgeAhead
<1>c. CASE ReadFile(m)
  <2>1. /\ pc[m] = "file" /\ cur' = cur
        /\ pc'[m] = "edges" /\ merges'[m] = Grounding(cur[m])
    BY <1>0, <1>c DEF ReadFile, Goto, WorkOK
  <2>2. cur[m] \in Concepts
    BY <2>1 DEF Hands, HandOK, InHand
  <2>3. Needed(e) = Grounding(e)
    BY <1>1, <2>2, EntityKinds DEF Needed
  <2> QED BY <1>1, <2>1, <2>3 DEF EdgeAhead
<1>d. CASE MergeEdge(m)
  <2>1. PICK g \in merges[m] : edges' = edges \cup {g} /\ merges' = [merges EXCEPT ![m] = @ \ {g}]
    BY <1>d DEF MergeEdge, UpsertEdge
  <2>2. pc[m] = "edges" /\ pc' = pc /\ cur' = cur /\ merges'[m] = merges[m] \ {g}
    BY <1>0, <1>d, <2>1 DEF MergeEdge, WorkOK
  <2> QED BY <2>1, <2>2 DEF EdgeAhead
<1> QED BY <1>a, <1>b, <1>c, <1>d

LEMMA MergePromises ==
  ASSUME TypeOK, Hands, RowFacts, Turns, Fresh, Promises, TypeOK', Hands',
         NEW e \in Entities, NEW p \in Procs, Due(e, p)', ~(partial' /\ Idle(Rebuilder)'),
         NEW m \in Procs, MergeNode(m) \/ MergeSource(m) \/ ReadFile(m) \/ MergeEdge(m)
  PROVE  Promised(e, p)'
<1>0. DataOK /\ WorkOK
  BY TypeParts
<1>k. Rebuilder \in Procs
  BY ProcKinds
<1>1. /\ UNCHANGED <<canon, row, partial, cur, seen, stage, todo>> /\ Others(m)
      /\ InHand(m) /\ InHand(m)' /\ ~Idle(m) /\ ~Idle(m)' /\ cur[m] \in Entities
  <2>1. UNCHANGED <<canon, row, partial, cur, seen, stage, todo>> /\ Others(m)
    BY <1>0, ProcSteps DEF MergeNode, MergeSource, ReadFile, MergeEdge
  <2>2. /\ pc[m] \in {"node", "source", "file", "edges"}
        /\ pc'[m] \in {"source", "file", "edges", "done"}
    BY <1>0 DEF MergeNode, MergeSource, ReadFile, MergeEdge, Goto, WorkOK
  <2>3. InHand(m) /\ InHand(m)' /\ ~Idle(m) /\ ~Idle(m)'
    BY <2>2 DEF InHand, Idle
  <2>4. cur[m] \in Entities
    BY <2>3 DEF Hands, HandOK
  <2> QED BY <2>1, <2>3, <2>4
<1>2. \A q \in Procs : (Idle(q)' <=> Idle(q)) /\ (InHand(q)' <=> InHand(q))
  BY <1>1, OthersKept
<1>3. Due(e, p)
  BY <1>1, <1>2 DEF Due, Live, canon
<1>4. Promised(e, p) /\ e \in Live(Entities)
  BY <1>1, <1>2, <1>3, <1>k DEF Promises, Due
<1>5. Coming(e) => Coming(e)'
  BY <1>1, ComingKept
<1>6. Needed(e)' = Needed(e) /\ UNCHANGED <<version, page>>
  BY <1>1, CanonKept DEF canon
<1>7. \A q \in {Rebuilder, p} : q # m =>
        /\ NodeAhead(q, e)' <=> NodeAhead(q, e)
        /\ TitleAhead(q, e)' <=> TitleAhead(q, e)
        /\ \A x : EdgeAhead(q, e, x)' <=> EdgeAhead(q, e, x)
  BY <1>1, <1>k, OthersKept, AheadKept
<1>8. /\ cur[m] \notin Concepts /\ e \notin Concepts /\ Src(e) = Src(cur[m])
           => seen[m] >= page[Src(e)]
      /\ cur[m] = e /\ e \in Concepts => seen[m] = version[e]
  BY <1>1, <1>3, SeenEnough
(* What the step of m has to do for e. *)
<1>9. ASSUME NodeOK(e) => NodeOK(e)', e \in Chunks /\ TitleOK(e) => TitleOK(e)',
             edges \subseteq edges',
             NodeAhead(m, e) => NodeAhead(m, e)' \/ NodeOK(e)',
             e \in Chunks /\ TitleAhead(m, e) => TitleAhead(m, e)' \/ TitleOK(e)',
             \A x \in Needed(e) : EdgeAhead(m, e, x) => EdgeAhead(m, e, x)' \/ x \in edges'
      PROVE  Promised(e, p)'
  <2>1. ASSUME NEW q \in {Rebuilder, p}
        PROVE  /\ NodeAhead(q, e) => NodeAhead(q, e)' \/ NodeOK(e)'
               /\ e \in Chunks /\ TitleAhead(q, e) => TitleAhead(q, e)' \/ TitleOK(e)'
               /\ \A x \in Needed(e)' : EdgeAhead(q, e, x) => EdgeAhead(q, e, x)' \/ x \in edges'
    BY <1>6, <1>7, <1>9
  <2> QED BY <1>4, <1>5, <1>6, <1>9, <2>1, Keep
<1>n. node \in [Entities -> Nat] /\ seen[m] \in Nat
  BY <1>0 DEF DataOK, WorkOK
<1>s. e \in Chunks => SourceOf[e] \in Sources /\ SourceOf[e] \in Entities
  BY SourceOfChunk, EntityKinds
<1>x. \A x \in Needed(e) : EdgeAhead(m, e, x) => EdgeAhead(m, e, x)' \/ x \in edges'
  BY EdgeAheadStep
<1>a. CASE MergeNode(m)
  <2>1. /\ pc[m] = "node" /\ edges' = edges /\ cur' = cur
        /\ node' = [node EXCEPT ![cur[m]] = Full(IF cur[m] \in Chunks THEN 1 ELSE seen[m])]
        /\ pc'[m] = IF cur[m] \in Sources THEN "done"
                    ELSE IF cur[m] \in Chunks THEN "source" ELSE "file"
    BY <1>0, <1>a DEF MergeNode, UpsertNode, Goto, WorkOK
  <2>2. ASSUME cur[m] = e PROVE NodeOK(e)'
    <3>1. node'[e] = Full(IF e \in Chunks THEN 1 ELSE seen[m])
      BY <1>n, <2>1, <2>2
    <3>2. CASE e \in Sources
      <4>1. seen[m] >= page[e] /\ page[e] \in Nat
        BY <1>0, <1>8, <2>2, <3>2, SrcFacts, EntityKinds DEF DataOK
      <4> QED BY <1>6, <1>n, <3>1, <3>2, <4>1, EntityKinds DEF NodeOK, Full
    <3>3. CASE e \in Chunks
      <4>1. version[e] = 1
        <5>1. version[e] \in Nat /\ version[e] > 0 /\ version[e] <= 1
          BY <1>0, <1>4, <3>3, LiveFacts DEF DataOK, RowFacts
        <5> QED BY <5>1
      <4> QED BY <1>6, <3>1, <3>3, <4>1, EntityKinds DEF NodeOK
    <3>4. CASE e \in Concepts
      BY <1>6, <1>8, <2>2, <3>1, <3>4, EntityKinds DEF NodeOK
    <3> QED BY <3>2, <3>3, <3>4, EntityKinds
  <2>3. NodeOK(e) => NodeOK(e)'
    <3>1. CASE cur[m] # e
      BY <1>6, <1>n, <2>1, <3>1 DEF NodeOK
    <3> QED BY <2>2, <3>1
  <2>4. e \in Chunks /\ TitleOK(e) => TitleOK(e)'
    <3> SUFFICES ASSUME e \in Chunks, TitleOK(e) PROVE TitleOK(e)'
      OBVIOUS
    <3>1. CASE cur[m] # SourceOf[e]
      BY <1>6, <1>n, <1>s, <2>1, <3>1 DEF TitleOK
    <3>2. CASE cur[m] = SourceOf[e]
      <4>1. seen[m] >= page[SourceOf[e]] /\ page[SourceOf[e]] \in Nat
        BY <1>0, <1>8, <1>s, <3>2, SrcFacts, EntityKinds DEF DataOK
      <4>2. node'[SourceOf[e]] = Full(seen[m])
        BY <1>n, <1>s, <2>1, <3>2, EntityKinds
      <4> QED BY <1>6, <1>n, <4>1, <4>2 DEF TitleOK, Full
    <3> QED BY <3>1, <3>2
  <2>5. e \in Chunks /\ TitleAhead(m, e) => TitleAhead(m, e)'
    BY <2>1, EntityKinds DEF TitleAhead
  <2>6. NodeAhead(m, e) => NodeOK(e)'
    BY <2>2 DEF NodeAhead
  <2> QED BY <1>9, <1>x, <2>1, <2>3, <2>4, <2>5, <2>6
<1>b. CASE MergeSource(m)
  <2>1. /\ pc[m] = "source" /\ edges' = edges /\ cur' = cur
        /\ node' = [node EXCEPT ![SourceOf[cur[m]]] = Full(seen[m])]
        /\ pc'[m] = "edges" /\ merges'[m] = {PartOf(cur[m]), Evidences(cur[m])}
    BY <1>0, <1>b DEF MergeSource, UpsertNode, Goto, WorkOK
  <2>2. cur[m] \in Chunks /\ SourceOf[cur[m]] \in Sources
    BY <2>1, SourceOfChunk DEF Hands, HandOK, InHand
  <2>3. NodeOK(e) => NodeOK(e)'
    <3>1. CASE SourceOf[cur[m]] # e
      BY <1>6, <1>n, <2>1, <3>1 DEF NodeOK
    <3>2. CASE SourceOf[cur[m]] = e
      <4>1. seen[m] >= page[e] /\ page[e] \in Nat /\ e \in Sources
        BY <1>0, <1>8, <2>2, <3>2, SrcFacts, EntityKinds DEF DataOK
      <4>2. node'[e] = Full(seen[m])
        BY <1>n, <2>1, <3>2
      <4> QED BY <1>6, <1>n, <4>1, <4>2 DEF NodeOK, Full
    <3> QED BY <3>1, <3>2
  <2>4. ASSUME e \in Chunks, SourceOf[e] = SourceOf[cur[m]] PROVE TitleOK(e)'
    <3>1. seen[m] >= page[SourceOf[e]] /\ page[SourceOf[e]] \in Nat
      BY <1>0, <1>8, <1>s, <2>2, <2>4, SrcFacts, EntityKinds DEF DataOK
    <3>2. node'[SourceOf[e]] = Full(seen[m])
      BY <1>n, <1>s, <2>1, <2>4
    <3> QED BY <1>6, <1>n, <3>1, <3>2 DEF TitleOK, Full
  <2>5. e \in Chunks /\ TitleOK(e) => TitleOK(e)'
    <3>1. e \in Chunks /\ SourceOf[e] # SourceOf[cur[m]] => (TitleOK(e) => TitleOK(e)')
      BY <1>6, <1>n, <1>s, <2>1 DEF TitleOK
    <3> QED BY <2>4, <3>1
  <2>6. e \in Chunks /\ TitleAhead(m, e) => TitleOK(e)'
    BY <2>4 DEF TitleAhead
  <2>7. ~NodeAhead(m, e)
    BY <2>1 DEF NodeAhead
  <2> QED BY <1>9, <1>x, <2>1, <2>3, <2>5, <2>6, <2>7
<1>c. CASE ReadFile(m)
  <2>1. /\ pc[m] = "file" /\ edges' = edges /\ cur' = cur /\ node' = node
        /\ pc'[m] = "edges" /\ merges'[m] = Grounding(cur[m])
    BY <1>0, <1>c DEF ReadFile, graph, Goto, WorkOK
  <2>2. cur[m] \in Concepts
    BY <2>1 DEF Hands, HandOK, InHand
  <2>3. ~NodeAhead(m, e) /\ ~TitleAhead(m, e)
    BY <2>1 DEF NodeAhead, TitleAhead
  <2>4. (NodeOK(e) => NodeOK(e)') /\ (TitleOK(e) => TitleOK(e)')
    BY <1>1, <2>1, CanonKept
  <2> QED BY <1>9, <1>x, <2>1, <2>3, <2>4
<1>d. CASE MergeEdge(m)
  <2>1. PICK g \in merges[m] :
          /\ edges' = edges \cup {g}
          /\ node' = [x \in Entities |-> IF x \in {g[2], g[3]} /\ node[x] = Absent THEN Bare
                                         ELSE node[x]]
          /\ merges' = [merges EXCEPT ![m] = @ \ {g}]
    BY <1>d DEF MergeEdge, UpsertEdge
  <2>2. pc[m] = "edges"
    BY <1>d DEF MergeEdge
  <2>3. \A x \in Entities : node[x] # Absent => node'[x] = node[x]
    BY <2>1
  <2>4. NodeOK(e) => NodeOK(e)'
    <3> SUFFICES ASSUME NodeOK(e) PROVE NodeOK(e)'
      OBVIOUS
    <3>1. node[e] # Absent
      <4>1. CASE e \in Sources
        <5>1. page[e] \in Nat /\ node[e] >= page[e] + 1 /\ node[e] \in Nat
          BY <1>0, <4>1 DEF DataOK, NodeOK, Full
        <5> QED BY <5>1 DEF Absent
      <4>2. CASE e \notin Sources
        <5>1. version[e] \in Nat /\ node[e] = version[e] + 1
          BY <1>0, <4>2 DEF DataOK, NodeOK, Full
        <5> QED BY <5>1 DEF Absent
      <4> QED BY <4>1, <4>2
    <3> QED BY <1>6, <2>3, <3>1 DEF NodeOK
  <2>5. e \in Chunks /\ TitleOK(e) => TitleOK(e)'
    <3> SUFFICES ASSUME e \in Chunks, TitleOK(e) PROVE TitleOK(e)'
      OBVIOUS
    <3>1. /\ page[SourceOf[e]] \in Nat /\ node[SourceOf[e]] >= page[SourceOf[e]] + 1
          /\ node[SourceOf[e]] \in Nat
      BY <1>0, <1>s DEF DataOK, TitleOK, Full
    <3>2. node[SourceOf[e]] # Absent
      BY <3>1 DEF Absent
    <3> QED BY <1>6, <1>s, <2>3, <3>2 DEF TitleOK
  <2>6. ~NodeAhead(m, e) /\ ~TitleAhead(m, e)
    BY <2>2 DEF NodeAhead, TitleAhead
  <2> QED BY <1>9, <1>x, <2>1, <2>4, <2>5, <2>6
<1> QED BY <1>a, <1>b, <1>c, <1>d

(* What a rebuild has not come to yet is in the next listing or after it. *)
LEMMA ListComing ==
  ASSUME TypeOK, List, NEW e \in Entities, e \in Live(Entities), Coming(e)
  PROVE  Coming(e)'
<1>k. Rebuilder \in Procs
  BY ProcKinds
<1>1. /\ todo[Rebuilder] = {} /\ stage[Rebuilder] # "pages"
      /\ stage'[Rebuilder] = After[stage[Rebuilder]]
      /\ todo'[Rebuilder] = Listing[After[stage[Rebuilder]]]
  BY <1>k, TypeParts DEF List, WorkOK
<1>2. CASE stage[Rebuilder] = "dropped"
  <2>1. stage'[Rebuilder] = "sources" /\ todo'[Rebuilder] = Listing["sources"]
    BY <1>1, <1>2, AfterFacts
  <2>2. e \in Sources => e \in todo'[Rebuilder]
    BY <2>1, ListingFacts, LiveFacts
  <2> QED BY <2>1, <2>2 DEF Coming
<1>3. CASE stage[Rebuilder] = "sources"
  <2>1. stage'[Rebuilder] = "chunks" /\ todo'[Rebuilder] = Listing["chunks"]
    BY <1>1, <1>3, AfterFacts
  <2>2. e \notin Sources
    BY <1>1, <1>3 DEF Coming
  <2>3. e \in Chunks => e \in todo'[Rebuilder]
    BY <2>1, ListingFacts, LiveFacts
  <2> QED BY <2>1, <2>2, <2>3 DEF Coming
<1>4. CASE stage[Rebuilder] = "chunks"
  <2>1. stage'[Rebuilder] = "pages" /\ todo'[Rebuilder] = Listing["pages"]
    BY <1>1, <1>4, AfterFacts
  <2>2. e \in Concepts
    BY <1>1, <1>4, EntityKinds DEF Coming
  <2>3. e \in todo'[Rebuilder]
    BY <2>1, <2>2, ListingFacts, LiveFacts
  <2> QED BY <2>1, <2>2, <2>3 DEF Coming
<1> QED BY <1>1, <1>2, <1>3, <1>4 DEF Coming

LEMMA CommandPromises ==
  ASSUME TypeOK, Hands, RowFacts, Turns, Fresh, Promises, TypeOK', Hands',
         NEW e \in Entities, NEW p \in Procs, Due(e, p)', ~(partial' /\ Idle(Rebuilder)'),
         \/ Drop \/ List \/ RebuildEnd
         \/ \E d \in Drainers : Claim(d) \/ DrainEnd(d) \/ StoreError(d)
         \/ \E m \in Procs : Load(m) \/ Projected(m) \/ Crash(m)
  PROVE  Promised(e, p)'
<1>0. DataOK /\ WorkOK
  BY TypeParts
<1>k. Rebuilder \in Procs /\ Rebuilder \notin Drainers
  BY ProcKinds
<1>l. UNCHANGED canon /\ e \in Live(Entities) /\ e \in Live(Entities)'
  <2>1. UNCHANGED canon
    BY DEF Drop, List, RebuildEnd, Claim, DrainEnd, StoreError, Load, Projected, Crash
  <2> QED BY <2>1, CanonKept DEF Due
<1>d. ASSUME Due(e, p), ~(partial /\ Idle(Rebuilder)) PROVE Promised(e, p)
  BY <1>d DEF Promises
(* A process with nothing in hand after the step is no drain that has e due. *)
<1>p. ASSUME NEW m \in Drainers, ~InHand(m)' PROVE p # m
  BY <1>k, <1>p DEF Due
(* A drain that ends, claims or fails. *)
<1>a. ASSUME NEW m \in Drainers, Others(m), ~InHand(m)', UNCHANGED <<graph, partial>>,
             row'[e] = "indexed" => row[e] = "indexed"
      PROVE  Promised(e, p)'
  <2>1. m \in Procs /\ m # Rebuilder /\ p # m
    BY <1>a, <1>p, ProcKinds
  <2>2. /\ Idle(Rebuilder)' <=> Idle(Rebuilder)
        /\ InHand(p)' <=> InHand(p)
        /\ cur'[p] = cur[p]
        /\ stage'[Rebuilder] = stage[Rebuilder] /\ todo'[Rebuilder] = todo[Rebuilder]
    BY <1>a, <1>k, <2>1, OthersKept
  <2>3. Due(e, p)
    BY <1>a, <1>l, <2>2 DEF Due
  <2>4. Promised(e, p)
    BY <1>a, <1>d, <2>2, <2>3
  <2>5. \A q \in {Rebuilder, p} : pc'[q] = pc[q] /\ cur'[q] = cur[q] /\ merges'[q] = merges[q]
    BY <1>a, <1>k, <2>1, OthersKept
  <2> QED BY <1>a, <1>l, <2>2, <2>4, <2>5, ComingKept, KeepStill
(* A rebuild at its listings, which has nothing in hand before and after. *)
<1>b. ASSUME Others(Rebuilder), ~InHand(Rebuilder), UNCHANGED <<graph, row>>, ~Idle(Rebuilder),
             Coming(e) => Coming(e)'
      PROVE  Promised(e, p)'
  <2>1. p # Rebuilder => /\ InHand(p)' <=> InHand(p)
                         /\ pc'[p] = pc[p] /\ cur'[p] = cur[p] /\ merges'[p] = merges[p]
    BY <1>b, <1>k, OthersKept
  <2>2. Due(e, p)
    BY <1>b, <1>l, <2>1 DEF Due
  <2>3. Promised(e, p)
    BY <1>b, <1>d, <2>2
  <2> QED BY <1>b, <1>l, <2>1, <2>3, KeepStill
<1>1. CASE Drop
  BY <1>0, <1>1, <1>k DEF Drop, Coming, Promised, WorkOK
<1>2. CASE List
  <2>1. pc[Rebuilder] = "next" /\ UNCHANGED <<graph, row>>
    BY <1>2 DEF List
  <2>2. Others(Rebuilder) /\ ~InHand(Rebuilder) /\ ~Idle(Rebuilder)
    BY <1>0, <1>2, <1>k, <2>1, ProcSteps DEF InHand, Idle
  <2>3. Coming(e) => Coming(e)'
    BY <1>2, <1>l, ListComing
  <2> QED BY <1>b, <2>1, <2>2, <2>3
<1>3. CASE RebuildEnd
  <2>1. /\ pc[Rebuilder] = "next" /\ todo[Rebuilder] = {} /\ stage[Rebuilder] = "pages"
        /\ UNCHANGED <<graph, row>>
    BY <1>3 DEF RebuildEnd
  <2>2. Others(Rebuilder) /\ ~InHand(Rebuilder) /\ ~Idle(Rebuilder)
    BY <1>0, <1>3, <1>k, <2>1, ProcSteps DEF InHand, Idle
  <2>3. ~Coming(e)
    BY <2>1 DEF Coming
  <2> QED BY <1>b, <2>1, <2>2, <2>3
<1>4. ASSUME NEW d \in Drainers, Claim(d) \/ DrainEnd(d) PROVE Promised(e, p)'
  <2>1. d \in Procs /\ Others(d) /\ UNCHANGED <<row, graph, partial>>
    BY <1>0, <1>4, ProcKinds, ProcSteps DEF Claim, DrainEnd
  <2>2. ~InHand(d)'
    BY <1>0, <1>4, <2>1 DEF Claim, DrainEnd, Stop, Goto, InHand, WorkOK
  <2> QED BY <1>a, <2>1, <2>2
<1>5. ASSUME NEW d \in Drainers, StoreError(d) PROVE Promised(e, p)'
  <2>1. d \in Procs /\ Others(d) /\ UNCHANGED <<graph, partial>>
    BY <1>0, <1>5, ProcKinds, ProcSteps DEF StoreError
  <2>2. ~InHand(d)'
    BY <1>0, <1>5, <2>1 DEF StoreError, Return, Goto, InHand, WorkOK
  <2>3. row'[e] = "indexed" => row[e] = "indexed"
    BY <1>0, <1>5 DEF StoreError, DataOK
  <2> QED BY <1>a, <2>1, <2>2, <2>3
<1>6. ASSUME NEW m \in Procs, Load(m) PROVE Promised(e, p)'
  <2>1. PICK x \in todo[m] :
          /\ todo' = [todo EXCEPT ![m] = @ \ {x}]
          /\ \/ /\ x \in Live(Entities) /\ Goto(m, "node")
                /\ cur' = [cur EXCEPT ![m] = x]
             \/ x \notin Live(Entities) /\ Return(m)
    BY <1>6 DEF Load
  <2>2. /\ pc[m] = "next" /\ UNCHANGED <<graph, partial, stage>> /\ Others(m)
        /\ todo'[m] = todo[m] \ {x}
    BY <1>0, <1>6, <2>1, ProcSteps DEF Load, WorkOK
  <2>3. ~InHand(m) /\ ~Idle(m)
    BY <2>2 DEF InHand, Idle
  <2>4. row'[e] = "indexed" => row[e] = "indexed"
    BY <1>0, <1>6 DEF Load, DataOK
  <2>5. ASSUME cur'[m] = e, InHand(m)'
        PROVE  NodeAhead(m, e)' /\ TitleAhead(m, e)' /\ \A y : EdgeAhead(m, e, y)'
    <3>1. pc'[m] = "node"
      BY <1>0, <2>1, <2>5 DEF Return, Goto, InHand, WorkOK
    <3> QED BY <2>5, <3>1 DEF NodeAhead, TitleAhead, EdgeAhead
  <2>6. CASE m = Rebuilder
    <3>1. CASE x = e
      <4>1. cur'[m] = e /\ InHand(m)'
        BY <1>0, <1>l, <2>1, <3>1 DEF Goto, InHand, WorkOK
      <4> QED BY <2>5, <2>6, <4>1 DEF Promised
    <3>2. CASE x # e
      <4>1. row' = row
        BY <1>6, <1>k, <2>6 DEF Load
      <4>2. Coming(e) => Coming(e)'
        BY <2>2, <2>6, <3>2 DEF Coming
      <4> QED BY <1>b, <2>2, <2>3, <2>6, <4>1, <4>2
    <3> QED BY <3>1, <3>2
  <2>7. CASE m # Rebuilder /\ p = m
    <3>1. cur'[m] = e /\ InHand(m)'
      BY <2>7 DEF Due
    <3> QED BY <2>5, <2>7, <3>1 DEF Promised
  <2>8. CASE m # Rebuilder /\ p # m
    <3>1. /\ Idle(Rebuilder)' <=> Idle(Rebuilder)
          /\ InHand(p)' <=> InHand(p)
          /\ cur'[p] = cur[p]
          /\ stage'[Rebuilder] = stage[Rebuilder] /\ todo'[Rebuilder] = todo[Rebuilder]
      BY <1>k, <2>2, <2>8, OthersKept
    <3>2. Due(e, p)
      BY <1>l, <2>4, <3>1 DEF Due
    <3>3. Promised(e, p)
      BY <1>d, <2>2, <3>1, <3>2
    <3>4. \A q \in {Rebuilder, p} : pc'[q] = pc[q] /\ cur'[q] = cur[q] /\ merges'[q] = merges[q]
      BY <1>k, <2>2, <2>8, OthersKept
    <3> QED BY <1>l, <2>2, <3>1, <3>3, <3>4, ComingKept, KeepStill
  <2> QED BY <2>6, <2>7, <2>8
<1>7. ASSUME NEW m \in Procs, Crash(m) PROVE Promised(e, p)'
  <2>1. Others(m) /\ UNCHANGED <<row, graph, partial>> /\ ~Idle(m)
    BY <1>0, <1>7, ProcSteps DEF Crash
  <2>2. ~InHand(m)' /\ Idle(m)'
    BY <1>0, <1>7 DEF Crash, Stop, Goto, InHand, Idle, WorkOK
  <2>3. m # Rebuilder
    BY <2>1, <2>2 DEF Turns
  <2> QED BY <1>a, <2>1, <2>2, <2>3, ProcKinds
<1>8. ASSUME NEW m \in Procs, Projected(m) PROVE Promised(e, p)'
  <2>1. Others(m) /\ UNCHANGED <<graph, partial, stage, todo>>
    BY <1>0, <1>8, ProcSteps DEF Projected
  <2>2. /\ pc[m] = "done" \/ (pc[m] = "edges" /\ merges[m] = {})
        /\ row' = IF m \in Drainers /\ row[cur[m]] # "none"
                  THEN [row EXCEPT ![cur[m]] = "indexed"] ELSE row
        /\ pc'[m] = "next"
    BY <1>0, <1>8 DEF Projected, Return, Goto, WorkOK
  <2>3. InHand(m) /\ ~Idle(m) /\ ~InHand(m)' /\ ~Idle(m)'
    BY <2>2 DEF InHand, Idle
  <2>4. \A y, z : ~NodeAhead(m, y) /\ ~TitleAhead(m, y) /\ ~EdgeAhead(m, y, z)
    BY <2>2 DEF NodeAhead, TitleAhead, EdgeAhead
  <2>5. ~(partial /\ Idle(Rebuilder))
    <3>1. Idle(Rebuilder)' <=> Idle(Rebuilder)
      BY <1>k, <2>1, <2>3, OthersKept
    <3> QED BY <2>1, <3>1
(* p has promised e before the step, or m has and nothing is ahead of it. *)
  <2>6. Promised(e, p)
    <3>1. CASE Due(e, p)
      BY <1>d, <2>5, <3>1
    <3>2. CASE ~Due(e, p)
      <4>1. p # Rebuilder => p # m
        BY <2>3 DEF Due
      <4>2. p # Rebuilder => (InHand(p)' <=> InHand(p)) /\ cur'[p] = cur[p]
        BY <2>1, <4>1, OthersKept
      <4>3. p = Rebuilder /\ row'[e] = "indexed" /\ row[e] # "indexed"
        BY <1>l, <3>2, <4>2 DEF Due
      <4>4. m \in Drainers /\ cur[m] = e
        BY <1>0, <2>2, <4>3 DEF DataOK
      <4>5. Due(e, m)
        BY <1>k, <1>l, <2>3, <4>4 DEF Due
      <4>6. Promised(e, m)
        BY <2>5, <4>5 DEF Promises
      <4> QED BY <2>4, <4>3, <4>6 DEF Promised
    <3> QED BY <3>1, <3>2
  <2>7. Needed(e)' = Needed(e) /\ edges' = edges
        /\ (NodeOK(e) => NodeOK(e)') /\ (TitleOK(e) => TitleOK(e)')
    BY <1>l, <2>1, CanonKept DEF graph
  <2>8. ASSUME NEW q \in {Rebuilder, p}
        PROVE  /\ NodeAhead(q, e) => NodeAhead(q, e)'
               /\ TitleAhead(q, e) => TitleAhead(q, e)'
               /\ \A x : EdgeAhead(q, e, x) => EdgeAhead(q, e, x)'
    <3>1. CASE q = m
      BY <2>4, <3>1
    <3>2. CASE q # m
      BY <1>k, <2>1, <2>8, <3>2, OthersKept, AheadKept
    <3> QED BY <3>1, <3>2
  <2>9. Coming(e) => Coming(e)'
    BY <2>1, ComingKept
  <2> QED BY <2>6, <2>7, <2>8, <2>9, Keep
<1> QED BY <1>1, <1>2, <1>3, <1>4, <1>5, <1>6, <1>7, <1>8

LEMMA PromisesStep ==
  ASSUME TypeOK, Hands, RowFacts, Rowed, Turns, Fresh, Promises, [Next]_vars, TypeOK', Hands'
  PROVE  Promises'
<1> SUFFICES ASSUME ~(partial' /\ Idle(Rebuilder)'), NEW e \in Entities, NEW p \in Procs, Due(e, p)'
             PROVE  Promised(e, p)'
  BY DEF Promises
<1>1. CASE \/ \E s \in Sources : \/ \E K \in SUBSET Chunks : Ingest(s, K)
                                 \/ DeleteCommit(s) \/ DeleteDetach(s) \/ DeleteBroken(s)
           \/ \E c \in Concepts, K \in SUBSET Chunks : WritePage(c, K)
  BY <1>1, WriterPromises
<1>2. CASE \E m \in Procs : MergeNode(m) \/ MergeSource(m) \/ ReadFile(m) \/ MergeEdge(m)
  BY <1>2, MergePromises
<1>3. CASE \/ Drop \/ List \/ RebuildEnd
           \/ \E d \in Drainers : Claim(d) \/ DrainEnd(d) \/ StoreError(d)
           \/ \E m \in Procs : Load(m) \/ Projected(m) \/ Crash(m)
  BY <1>3, CommandPromises
<1>4. CASE UNCHANGED vars
  <2>1. UNCHANGED <<canon, row, graph, partial, work>>
    BY <1>4 DEF vars
  <2>2. Due(e, p) /\ ~(partial /\ Idle(Rebuilder))
    BY <2>1 DEF Due, InHand, Idle, Live, canon, work
  <2>3. Promised(e, p)
    BY <2>2 DEF Promises
  <2> QED BY <2>1, <2>3, ComingKept, KeepStill DEF work
<1> QED BY <1>1, <1>2, <1>3, <1>4 DEF Next

-----------------------------------------------------------------------------
(* The theorem.                                                            *)

LEMMA ShownInit == Init => ShownInv
<1> SUFFICES ASSUME Init PROVE ShownInv
  OBVIOUS
<1>1. TypeOK /\ Hands
  BY TypeInit
<1>2. RowFacts /\ Rowed
  BY EntityKinds, SourceOfChunk DEF Init, RowFacts, Rowed, Live, NoDelete
<1>3. Turns
  BY ProcKinds DEF Init, Turns, Idle, DrainsIdle
<1>4. Fresh
  BY ProcKinds DEF Init, Fresh, InHand
<1>5. Promises
  BY LiveFacts DEF Init, Promises, Due
<1> QED BY <1>1, <1>2, <1>3, <1>4, <1>5 DEF ShownInv

LEMMA ShownStep == ShownInv /\ [Next]_vars => ShownInv'
<1> SUFFICES ASSUME ShownInv, [Next]_vars PROVE ShownInv'
  OBVIOUS
<1> USE DEF ShownInv
<1>1. TypeOK' /\ Hands'
  BY TypeStep
<1>2. RowFacts' /\ Rowed'
  BY RowStep, RowedStep
<1>3. Turns'
  BY TurnsStep
<1>4. Fresh'
  BY <1>1, <1>2, FreshStep
<1>5. Promises'
  BY <1>1, PromisesStep
<1> QED BY <1>1, <1>2, <1>3, <1>4, <1>5

(* Once a rebuild has ended, or none has begun, a settled entity is shown. *)
LEMMA ShownSettled == ShownInv => SettledIsShown
<1> SUFFICES ASSUME ShownInv, ~partial, NEW e \in Live(Entities), row[e] = "indexed"
             PROVE  Shown(e)
  BY DEF SettledIsShown
<1>0. Rebuilder \in Procs /\ e \in Entities
  BY ProcKinds, LiveFacts
<1>1. Idle(Rebuilder) /\ ~InHand(Rebuilder)
  BY DEF ShownInv, Turns, Idle, InHand
<1>2. stage[Rebuilder] = "none"
  BY <1>0, <1>1 DEF ShownInv, Hands, HandOK
<1>3. ~Coming(e)
  BY <1>2 DEF Coming
<1>4. Promised(e, Rebuilder)
  BY <1>0 DEF ShownInv, Promises, Due
<1>5. NodeOK(e) /\ (e \in Chunks => TitleOK(e)) /\ Needed(e) \subseteq edges
  BY <1>1, <1>3, <1>4, NothingAhead DEF Promised
<1>6. CASE e \in Sources
  BY <1>5, <1>6 DEF Shown, NodeOK
<1>7. CASE e \in Chunks
  <2>1. version[e] \in Nat /\ version[e] > 0 /\ version[e] <= 1
    BY <1>0, <1>7, LiveFacts DEF ShownInv, TypeOK, RowFacts
  <2>2. version[e] = 1
    BY <2>1
  <2> QED BY <1>5, <1>7, <2>2, EntityKinds DEF Shown, NodeOK, TitleOK, Needed
<1>8. CASE e \in Concepts
  BY <1>5, <1>8, EntityKinds DEF Shown, NodeOK, Needed, Grounding
<1> QED BY <1>0, <1>6, <1>7, <1>8, EntityKinds

(* Whatever the order in which drains and a rebuild project entities, and
   wherever they fail, die or overlap writers, what a drain has settled is in the
   graph with its node and edges (schema.py:67, docs/Compendium.md:1963). *)
THEOREM OrderFree == Spec => []SettledIsShown
<1>1. Init => ShownInv
  BY ShownInit
<1>2. ShownInv /\ [Next]_vars => ShownInv'
  BY ShownStep
<1>3. ShownInv => SettledIsShown
  BY ShownSettled
<1> QED BY <1>1, <1>2, <1>3, PTL DEF Spec
-----------------------------------------------------------------------------
(* A rebuild beside drains.                                                *)

(* The edges left to merge are some of those that the entity has. *)
MergesOK(p) == pc[p] = "edges" => merges[p] \subseteq Needed(cur[p])

(* Nothing is in the graph but what belongs there. *)
Extent ==
  /\ edges \subseteq ExpectedEdges
  /\ \A x \in Entities :
       node[x] # Absent => x \in Live(Entities) /\ node[x] \in {Bare, Full(version[x])}

(* The rebuild has put e in, or will. *)
Rebuilt(e) ==
  \/ Coming(e)
  \/ /\ node[e] = Full(version[e]) \/ NodeAhead(Rebuilder, e)
     /\ \A x \in Needed(e) : x \in edges \/ EdgeAhead(Rebuilder, e, x)

BesideDrains == overlap = "drains" /\ ~Idle(Rebuilder)

ExactInv ==
  /\ \A d \in Drainers : MergesOK(d)
  /\ BesideDrains => /\ MergesOK(Rebuilder) /\ NoDeletes /\ Extent
                     /\ \A e \in Entities : e \in Live(Entities) => Rebuilt(e)

LEMMA NeededExpected ==
  ASSUME TypeOK, RowFacts, NEW e \in Entities, e \in Live(Entities)
  PROVE  /\ Needed(e) \subseteq ExpectedEdges
         /\ \A x \in Needed(e) : x[2] \in Live(Entities) /\ x[3] \in Live(Entities)
<1>1. CASE e \in Chunks
  <2>1. e \in Live(Chunks) /\ SourceOf[e] \in Live(Entities)
    BY <1>1, LiveFacts, SourceOfChunk, EntityKinds DEF RowFacts
  <2> QED BY <1>1, <2>1 DEF Needed, ExpectedEdges, PartOf, Evidences
<1>2. CASE e \in Concepts
  <2>1. e \in Live(Concepts)
    BY <1>2, LiveFacts
  <2>2. Needed(e) = {Grounds(e, k) : k \in cites[e] \cap Live(Chunks)}
    BY <1>2, EntityKinds DEF Needed, Grounding
  <2>3. Needed(e) \subseteq ExpectedEdges
    BY <2>1, <2>2 DEF ExpectedEdges
  <2>4. ASSUME NEW k \in cites[e] \cap Live(Chunks) PROVE k \in Live(Entities)
    BY LiveFacts, EntityKinds
  <2> QED BY <2>2, <2>3, <2>4 DEF Grounds
<1>3. CASE e \in Sources
  BY <1>3, EntityKinds DEF Needed
<1> QED BY <1>1, <1>2, <1>3, EntityKinds

LEMMA ExpectedNeeded ==
  \A x \in ExpectedEdges : \E e \in Entities : e \in Live(Entities) /\ x \in Needed(e)
<1> SUFFICES ASSUME NEW x \in ExpectedEdges
             PROVE  \E e \in Entities : e \in Live(Entities) /\ x \in Needed(e)
  OBVIOUS
<1>1. \/ \E k \in Live(Chunks) : x \in {PartOf(k), Evidences(k)}
      \/ \E c \in Live(Concepts) : x \in {Grounds(c, k) : k \in cites[c] \cap Live(Chunks)}
  BY DEF ExpectedEdges
<1>2. ASSUME NEW k \in Live(Chunks), x \in {PartOf(k), Evidences(k)}
      PROVE  \E e \in Entities : e \in Live(Entities) /\ x \in Needed(e)
  <2>1. k \in Chunks /\ k \in Entities /\ k \in Live(Entities)
    BY LiveFacts, EntityKinds
  <2> QED BY <1>2, <2>1 DEF Needed
<1>3. ASSUME NEW c \in Live(Concepts), x \in {Grounds(c, k) : k \in cites[c] \cap Live(Chunks)}
      PROVE  \E e \in Entities : e \in Live(Entities) /\ x \in Needed(e)
  <2>1. c \in Concepts /\ c \in Entities /\ c \in Live(Entities)
    BY LiveFacts, EntityKinds
  <2> QED BY <1>3, <2>1, EntityKinds DEF Needed, Grounding
<1> QED BY <1>1, <1>2, <1>3

LEMMA CanonExpected == UNCHANGED canon => ExpectedEdges' = ExpectedEdges
  BY DEF canon, ExpectedEdges, Live, PartOf, Evidences, Grounds

(* A step that leaves rows and files keeps what the processes have to merge. *)
LEMMA MergesStep ==
  ASSUME TypeOK, Hands, UNCHANGED canon, NEW m \in Procs, MergesOK(m),
         \/ Load(m) \/ MergeNode(m) \/ MergeSource(m) \/ ReadFile(m) \/ MergeEdge(m)
         \/ Projected(m) \/ Crash(m)
         \/ m \in Drainers /\ (Claim(m) \/ DrainEnd(m) \/ StoreError(m))
         \/ m = Rebuilder /\ (Drop \/ List \/ RebuildEnd)
  PROVE  MergesOK(m)'
<1>0. WorkOK
  BY TypeParts
<1>n. \A e : Needed(e)' = Needed(e)
  BY CanonKept
<1>1. CASE MergeSource(m)
  <2>1. /\ pc[m] = "source" /\ cur' = cur
        /\ merges'[m] = {PartOf(cur[m]), Evidences(cur[m])}
    BY <1>0, <1>1 DEF MergeSource, WorkOK
  <2>2. cur[m] \in Chunks
    BY <2>1 DEF Hands, HandOK, InHand
  <2>3. Needed(cur[m])' = Needed(cur[m])
    BY <1>n, <2>1 DEF Needed
  <2> QED BY <2>1, <2>2, <2>3 DEF MergesOK, Needed
<1>2. CASE ReadFile(m)
  <2>1. pc[m] = "file" /\ cur' = cur /\ merges'[m] = Grounding(cur[m])
    BY <1>0, <1>2 DEF ReadFile, WorkOK
  <2>2. cur[m] \in Concepts
    BY <2>1 DEF Hands, HandOK, InHand
  <2>3. PICK e \in Concepts : e = cur[m]
    BY <2>2
  <2>4. Needed(e)' = Needed(e) /\ Needed(e) = Grounding(e)
    BY <1>n, EntityKinds DEF Needed
  <2>5. cur'[m] = e /\ merges'[m] \subseteq Needed(e)'
    BY <2>1, <2>3, <2>4
  <2> QED BY <2>5 DEF MergesOK, Needed, Grounding, Grounds
<1>3. CASE MergeEdge(m)
  <2>1. pc[m] = "edges" /\ cur' = cur /\ merges'[m] \subseteq merges[m]
    BY <1>0, <1>3 DEF MergeEdge, WorkOK
  <2>2. PICK e \in Entities : e = cur[m]
    BY <2>1 DEF Hands, HandOK, InHand
  <2>3. merges'[m] \subseteq Needed(e)'
    BY <1>n, <2>1, <2>2 DEF MergesOK
  <2> QED BY <2>1, <2>2, <2>3 DEF MergesOK, Needed
<1>4. CASE ~(MergeSource(m) \/ ReadFile(m) \/ MergeEdge(m))
  <2>1. pc'[m] # "edges"
    <3>1. Load(m) => pc'[m] # "edges"
      BY <1>0 DEF Load, Return, Goto, WorkOK
    <3>2. MergeNode(m) => pc'[m] # "edges"
      BY <1>0 DEF MergeNode, Goto, WorkOK
    <3>3. Projected(m) \/ Crash(m) => pc'[m] # "edges"
      BY <1>0 DEF Projected, Crash, Return, Stop, Goto, WorkOK
    <3>4. Claim(m) \/ DrainEnd(m) \/ StoreError(m) => pc'[m] # "edges"
      BY <1>0 DEF Claim, DrainEnd, StoreError, Return, Stop, Goto, WorkOK
    <3>5. m = Rebuilder /\ (Drop \/ List \/ RebuildEnd) => pc'[m] # "edges"
      BY <1>0 DEF Drop, List, RebuildEnd, Return, Stop, Goto, WorkOK
    <3> QED BY <1>4, <3>1, <3>2, <3>3, <3>4, <3>5
  <2> QED BY <2>1 DEF MergesOK
<1> QED BY <1>1, <1>2, <1>3, <1>4

LEMMA MergesKept ==
  ASSUME TypeOK, UNCHANGED canon, NEW q \in Procs, MergesOK(q),
         pc'[q] = pc[q], cur'[q] = cur[q], merges'[q] = merges[q]
  PROVE  MergesOK(q)'
<1>1. PICK e : e = cur[q]
  OBVIOUS
<1>2. Needed(e)' = Needed(e)
  BY CanonKept
<1> QED BY <1>1, <1>2 DEF MergesOK, Needed

(* What the graph and the rebuild owe each other survives a step of one process. *)
LEMMA ExtentStep ==
  ASSUME TypeOK, Hands, RowFacts, Fresh, Extent, overlap = "drains",
         NEW m \in Procs, MergesOK(m), UNCHANGED canon,
         MergeNode(m) \/ MergeSource(m) \/ MergeEdge(m)
  PROVE  /\ Extent'
         /\ \A e \in Entities :
              node[e] = Full(version[e]) \/ NodeAhead(m, e) => node'[e] = Full(version[e])
         /\ edges \subseteq edges'
<1>0. DataOK /\ WorkOK
  BY TypeParts
<1>1. InHand(m)
  BY DEF MergeNode, MergeSource, MergeEdge, InHand
<1>2. Current(m) /\ cur[m] \in Entities /\ cur[m] \in Live(Entities)
  BY <1>1, ProcKinds, LiveFacts DEF Fresh, Current
<1>c. /\ version' = version /\ ExpectedEdges' = ExpectedEdges
      /\ \A x \in Entities : x \in Live(Entities)' <=> x \in Live(Entities)
  BY CanonKept, CanonExpected DEF canon
<1>v. \A x \in Entities : version[x] \in Nat /\ Full(version[x]) # Absent
  BY <1>0 DEF DataOK, Full, Absent
(* One node gets what it says now. *)
<1>a. ASSUME NEW x \in Entities, x \in Live(Entities), edges' = edges,
             node' = [node EXCEPT ![x] = Full(version[x])]
      PROVE  /\ Extent' /\ node'[x] = Full(version[x]) /\ edges \subseteq edges'
             /\ \A e \in Entities : node[e] = Full(version[e]) => node'[e] = node[e]
  <2>1. \A y \in Entities : node'[y] = IF y = x THEN Full(version[x]) ELSE node[y]
    BY <1>0, <1>a DEF DataOK
  <2>2. ASSUME NEW y \in Entities, node'[y] # Absent
        PROVE  y \in Live(Entities)' /\ node'[y] \in {Bare, Full(version'[y])}
    BY <1>a, <1>c, <2>1, <2>2 DEF Extent
  <2>3. Extent'
    BY <1>a, <1>c, <2>2 DEF Extent
  <2> QED BY <1>a, <2>1, <2>3
<1>3. CASE MergeNode(m)
  <2>1. /\ edges' = edges
        /\ node' = [node EXCEPT ![cur[m]] = Full(IF cur[m] \in Chunks THEN 1 ELSE seen[m])]
    BY <1>3 DEF MergeNode, UpsertNode
  <2>2. (IF cur[m] \in Chunks THEN 1 ELSE seen[m]) = version[cur[m]]
    <3>1. CASE cur[m] \in Chunks
      <4>1. version[cur[m]] \in Nat /\ version[cur[m]] > 0 /\ version[cur[m]] <= 1
        BY <1>0, <1>2, <3>1, LiveFacts DEF DataOK, RowFacts
      <4> QED BY <3>1, <4>1
    <3>2. CASE cur[m] \notin Chunks
      BY <1>2, <3>2 DEF Current, Src
    <3> QED BY <3>1, <3>2
  <2> QED BY <1>2, <1>a, <2>1, <2>2 DEF NodeAhead
<1>4. CASE MergeSource(m)
  <2>1. /\ pc[m] = "source" /\ edges' = edges
        /\ node' = [node EXCEPT ![SourceOf[cur[m]]] = Full(seen[m])]
    BY <1>4 DEF MergeSource, UpsertNode
  <2>2. cur[m] \in Chunks
    BY <2>1 DEF Hands, HandOK, InHand
  <2>3. PICK s \in Sources : s = SourceOf[cur[m]]
    BY <2>2, SourceOfChunk
  <2>4. seen[m] = version[s]
    BY <1>2, <2>2, <2>3 DEF Current, Src
  <2>5. s \in Entities /\ s \in Live(Entities)
    BY <1>2, <2>2, <2>3, LiveFacts, EntityKinds DEF RowFacts
  <2>6. \A e : ~NodeAhead(m, e)
    BY <2>1 DEF NodeAhead
  <2> QED BY <1>a, <2>1, <2>3, <2>4, <2>5, <2>6
<1>5. CASE MergeEdge(m)
  <2>1. PICK g \in merges[m] :
          /\ edges' = edges \cup {g}
          /\ node' = [x \in Entities |-> IF x \in {g[2], g[3]} /\ node[x] = Absent THEN Bare
                                         ELSE node[x]]
    BY <1>5 DEF MergeEdge, UpsertEdge
  <2>2. g \in Needed(cur[m])
    BY <1>5, <2>1 DEF MergesOK, MergeEdge
  <2>3. g \in ExpectedEdges /\ g[2] \in Live(Entities) /\ g[3] \in Live(Entities)
    BY <1>2, <2>2, NeededExpected
  <2>4. ASSUME NEW y \in Entities, node'[y] # Absent
        PROVE  y \in Live(Entities)' /\ node'[y] \in {Bare, Full(version'[y])}
    BY <1>c, <2>1, <2>3, <2>4 DEF Extent
  <2>5. Extent'
    BY <1>c, <2>1, <2>3, <2>4 DEF Extent
  <2>6. \A e : ~NodeAhead(m, e)
    BY <1>5 DEF MergeEdge, NodeAhead
  <2> QED BY <1>v, <2>1, <2>5, <2>6
<1> QED BY <1>3, <1>4, <1>5

(* A step of one process adds to the graph nothing but what belongs there. *)
LEMMA GraphStep ==
  ASSUME TypeOK, Hands, RowFacts, Fresh, Extent, overlap = "drains", UNCHANGED canon,
         NEW m \in Procs, MergesOK(m),
         \/ Load(m) \/ MergeNode(m) \/ MergeSource(m) \/ ReadFile(m) \/ MergeEdge(m)
         \/ Projected(m) \/ (m # Rebuilder /\ Crash(m))
         \/ m \in Drainers /\ (Claim(m) \/ DrainEnd(m) \/ StoreError(m))
         \/ m = Rebuilder /\ List
  PROVE  /\ Extent'
         /\ \A e \in Entities : node[e] = Full(version[e]) => node'[e] = Full(version[e])
         /\ edges \subseteq edges'
<1>1. CASE MergeNode(m) \/ MergeSource(m) \/ MergeEdge(m)
  BY <1>1, ExtentStep
<1>2. CASE ~(MergeNode(m) \/ MergeSource(m) \/ MergeEdge(m))
  <2>1. UNCHANGED graph
    BY <1>2 DEF Load, ReadFile, Projected, Crash, Claim, DrainEnd, StoreError, List
  <2>2. ExpectedEdges' = ExpectedEdges /\ version' = version
        /\ \A x \in Entities : x \in Live(Entities)' <=> x \in Live(Entities)
    BY CanonKept, CanonExpected DEF canon
  <2> QED BY <2>1, <2>2 DEF Extent, graph
<1> QED BY <1>1, <1>2

(* A step of one process beside which a rebuild goes on. *)
LEMMA RebuiltStep ==
  ASSUME TypeOK, Hands, RowFacts, Fresh, Extent, overlap = "drains", UNCHANGED canon,
         NEW m \in Procs, MergesOK(m), NEW e \in Entities, e \in Live(Entities), Rebuilt(e),
         \/ Load(m) \/ MergeNode(m) \/ MergeSource(m) \/ ReadFile(m) \/ MergeEdge(m)
         \/ Projected(m) \/ (m # Rebuilder /\ Crash(m))
         \/ m \in Drainers /\ (Claim(m) \/ DrainEnd(m) \/ StoreError(m))
         \/ m = Rebuilder /\ List
  PROVE  Rebuilt(e)'
<1>0. WorkOK
  BY TypeParts
<1>k. Rebuilder \in Procs /\ Rebuilder \notin Drainers
  BY ProcKinds
<1>o. Others(m)
  BY <1>0, ProcSteps
<1>c. Needed(e)' = Needed(e) /\ version' = version
  BY CanonKept DEF canon
<1>1. /\ node[e] = Full(version[e]) => node'[e] = Full(version[e])
      /\ edges \subseteq edges'
  BY GraphStep
<1>2. ASSUME Coming(e) => Coming(e)' \/ (NodeAhead(Rebuilder, e)' /\ \A x : EdgeAhead(Rebuilder, e, x)'),
             NodeAhead(Rebuilder, e) => NodeAhead(Rebuilder, e)' \/ node'[e] = Full(version[e]),
             \A x \in Needed(e) : EdgeAhead(Rebuilder, e, x) => EdgeAhead(Rebuilder, e, x)' \/ x \in edges'
      PROVE  Rebuilt(e)'
  BY <1>1, <1>c, <1>2 DEF Rebuilt
<1>3. CASE m # Rebuilder
  <2>1. /\ pc'[Rebuilder] = pc[Rebuilder] /\ cur'[Rebuilder] = cur[Rebuilder]
        /\ merges'[Rebuilder] = merges[Rebuilder]
        /\ stage'[Rebuilder] = stage[Rebuilder] /\ todo'[Rebuilder] = todo[Rebuilder]
    BY <1>3, <1>k, <1>o, OthersKept
  <2> QED BY <1>1, <1>2, <2>1, AheadKept, ComingKept
<1>4. CASE m = Rebuilder
  <2>1. CASE Load(m)
    <3>1. PICK x \in todo[m] :
            /\ todo' = [todo EXCEPT ![m] = @ \ {x}]
            /\ x \in Live(Entities) => Goto(m, "node") /\ cur' = [cur EXCEPT ![m] = x]
      BY <2>1 DEF Load
    <3>2. stage' = stage /\ todo'[m] = todo[m] \ {x} /\ ~InHand(m)
      BY <1>0, <2>1, <3>1 DEF Load, InHand, WorkOK
    <3>3. CASE x = e
      <4>1. pc'[m] = "node" /\ cur'[m] = e
        BY <1>0, <3>1, <3>3 DEF Goto, WorkOK
      <4>2. NodeAhead(m, e)' /\ \A y : EdgeAhead(m, e, y)'
        BY <4>1 DEF NodeAhead, EdgeAhead
      <4> QED BY <1>2, <1>4, <3>2, <4>2, NothingAhead
    <3>4. CASE x # e
      <4>1. Coming(e) => Coming(e)'
        BY <1>4, <3>2, <3>4 DEF Coming
      <4> QED BY <1>2, <1>4, <3>2, <4>1, NothingAhead
    <3> QED BY <3>3, <3>4
  <2>2. CASE MergeNode(m) \/ MergeSource(m) \/ ReadFile(m) \/ MergeEdge(m)
    <3>1. UNCHANGED <<stage, todo>>
      BY <2>2 DEF MergeNode, MergeSource, ReadFile, MergeEdge
    <3>2. Coming(e) => Coming(e)'
      BY <3>1, ComingKept
    <3>3. NodeAhead(m, e) => node'[e] = Full(version[e])
      <4>1. CASE ReadFile(m)
        BY <4>1 DEF ReadFile, NodeAhead
      <4>2. CASE ~ReadFile(m)
        BY <2>2, <4>2, ExtentStep
      <4> QED BY <4>1, <4>2
    <3>4. \A x \in Needed(e) : EdgeAhead(m, e, x) => EdgeAhead(m, e, x)' \/ x \in edges'
      BY <2>2, EdgeAheadStep
    <3> QED BY <1>2, <1>4, <3>2, <3>3, <3>4
  <2>3. CASE Projected(m)
    <3>1. Coming(e) => Coming(e)'
      BY <2>3, ComingKept DEF Projected
    <3>2. ~NodeAhead(m, e) /\ \A x : ~EdgeAhead(m, e, x)
      BY <2>3 DEF Projected, NodeAhead, EdgeAhead
    <3> QED BY <1>2, <1>4, <3>1, <3>2
  <2>4. CASE List
    <3>1. Coming(e) => Coming(e)'
      BY <2>4, ListComing
    <3>2. ~InHand(m)
      BY <1>4, <2>4 DEF List, InHand
    <3> QED BY <1>2, <1>4, <3>1, <3>2, NothingAhead
  <2> QED BY <1>4, <1>k, <2>1, <2>2, <2>3, <2>4
<1> QED BY <1>3, <1>4

LEMMA ExactStep ==
  ASSUME ShownInv, ExactInv, [Next]_vars
  PROVE  ExactInv'
<1>0. TypeOK /\ Hands /\ RowFacts /\ Turns /\ Fresh /\ DataOK /\ WorkOK
  BY TypeParts DEF ShownInv
<1>k. Rebuilder \in Procs /\ Rebuilder \notin Drainers /\ Drainers \subseteq Procs
  BY ProcKinds
<1>1. ASSUME MayWrite, UNCHANGED <<overlap, work>> PROVE ExactInv'
  <2>1. ASSUME NEW d \in Drainers PROVE MergesOK(d)'
    BY <1>1 DEF MergesOK, MayWrite, DrainsIdle, Idle, work
  <2>2. ~BesideDrains'
    BY <1>1 DEF BesideDrains, MayWrite, Idle, work
  <2> QED BY <2>1, <2>2 DEF ExactInv
<1>2. ASSUME UNCHANGED <<canon, overlap, work>>, BesideDrains => UNCHANGED <<graph, deleting>>
      PROVE  ExactInv'
  <2>1. \A q \in Procs : MergesOK(q) => MergesOK(q)'
    BY <1>0, <1>2, MergesKept DEF work
  <2>2. BesideDrains' <=> BesideDrains
    BY <1>2 DEF BesideDrains, Idle, work
  <2>3. BesideDrains /\ Extent => Extent'
    <3>1. ExpectedEdges' = ExpectedEdges /\ version' = version
          /\ \A x \in Entities : x \in Live(Entities)' <=> x \in Live(Entities)
      BY <1>2, CanonKept, CanonExpected DEF canon
    <3> QED BY <1>2, <3>1 DEF Extent, graph
  <2>4. ASSUME BesideDrains, NEW e \in Entities, Rebuilt(e) PROVE Rebuilt(e)'
    <3>1. Needed(e)' = Needed(e) /\ UNCHANGED <<version, node, edges>>
      BY <1>2, <2>4, CanonKept DEF canon, graph
    <3>2. Coming(e) => Coming(e)'
      BY <1>2, ComingKept DEF work
    <3>3. /\ NodeAhead(Rebuilder, e)' <=> NodeAhead(Rebuilder, e)
          /\ \A x : EdgeAhead(Rebuilder, e, x)' <=> EdgeAhead(Rebuilder, e, x)
      BY <1>2, AheadKept DEF work
    <3> QED BY <2>4, <3>1, <3>2, <3>3 DEF Rebuilt
  <2>5. BesideDrains /\ NoDeletes => NoDeletes'
    BY <1>2 DEF NoDeletes
  <2>6. \A e \in Entities : e \in Live(Entities)' <=> e \in Live(Entities)
    BY <1>2, CanonKept
  <2> QED BY <1>k, <2>1, <2>2, <2>3, <2>4, <2>5, <2>6 DEF ExactInv
<1>3. ASSUME NEW s \in Sources, \/ \E K \in SUBSET Chunks : Ingest(s, K)
                                \/ DeleteCommit(s)
      PROVE  ExactInv'
  BY <1>1, <1>3 DEF Ingest, DeleteCommit
<1>4. ASSUME NEW c \in Concepts, NEW K \in SUBSET Chunks, WritePage(c, K) PROVE ExactInv'
  BY <1>1, <1>4 DEF WritePage
<1>5. ASSUME NEW s \in Sources, DeleteDetach(s) \/ DeleteBroken(s) PROVE ExactInv'
  <2>1. UNCHANGED <<canon, overlap, work>> /\ deleting[s].phase # "idle"
    BY <1>5 DEF DeleteDetach, DeleteBroken
  <2>2. ~NoDeletes
    BY <2>1 DEF NoDeletes, NoDelete
  <2> QED BY <1>2, <2>1, <2>2 DEF ExactInv
(* A step of one process. *)
<1>6. ASSUME NEW m \in Procs,
             \/ Load(m) \/ MergeNode(m) \/ MergeSource(m) \/ ReadFile(m) \/ MergeEdge(m)
             \/ Projected(m) \/ Crash(m)
             \/ m \in Drainers /\ (Claim(m) \/ DrainEnd(m) \/ StoreError(m))
             \/ m = Rebuilder /\ (Drop \/ List \/ RebuildEnd)
      PROVE  ExactInv'
  <2>1. Others(m) /\ UNCHANGED <<canon, deleting, overlap>>
    BY <1>0, <1>6, ProcSteps DEF Load, MergeNode, MergeSource, ReadFile, MergeEdge, Projected,
       Crash, Claim, DrainEnd, StoreError, Drop, List, RebuildEnd
  <2>2. ASSUME NEW q \in Procs, MergesOK(q) PROVE MergesOK(q)'
    <3>1. CASE q = m
      BY <1>0, <1>6, <2>1, <2>2, <3>1, MergesStep
    <3>2. CASE q # m
      BY <1>0, <2>1, <2>2, <3>2, OthersKept, MergesKept
    <3> QED BY <3>1, <3>2
  <2>3. \A d \in Drainers : MergesOK(d)'
    BY <1>k, <2>2 DEF ExactInv
  <2>4. CASE m = Rebuilder /\ Drop
    <3>1. /\ MayRebuild /\ stage'[Rebuilder] = "dropped" /\ pc'[Rebuilder] = "next"
          /\ edges' = {} /\ \A x \in Entities : node'[x] = Absent
      BY <1>0, <1>k, <2>4 DEF Drop, Goto, WorkOK
    <3>2. overlap' = "drains" => NoDeletes'
      BY <2>1, <3>1 DEF MayRebuild, NoDeletes
    <3>3. Extent' /\ \A e \in Entities : Rebuilt(e)'
      BY <3>1 DEF Extent, Rebuilt, Coming
    <3>4. MergesOK(Rebuilder)'
      BY <3>1 DEF MergesOK
    <3> QED BY <2>3, <3>2, <3>3, <3>4 DEF ExactInv, BesideDrains
  <2>5. CASE m = Rebuilder /\ (RebuildEnd \/ Crash(m))
    <3>1. Idle(Rebuilder)'
      BY <1>0, <1>k, <2>5 DEF RebuildEnd, Crash, Stop, Goto, Idle, WorkOK
    <3> QED BY <2>3, <3>1 DEF ExactInv, BesideDrains
  <2>6. CASE ~(m = Rebuilder /\ (Drop \/ RebuildEnd \/ Crash(m)))
    <3> SUFFICES ASSUME BesideDrains'
                 PROVE  /\ MergesOK(Rebuilder)' /\ NoDeletes' /\ Extent'
                        /\ \A e \in Entities : e \in Live(Entities)' => Rebuilt(e)'
      BY <2>3 DEF ExactInv
    <3>1. BesideDrains
      <4>1. m = Rebuilder => ~Idle(Rebuilder)
        BY <1>6, <1>k, <2>6 DEF Load, MergeNode, MergeSource, ReadFile, MergeEdge, Projected,
           List, Idle
      <4>2. m # Rebuilder => (Idle(Rebuilder)' <=> Idle(Rebuilder))
        BY <1>k, <2>1, OthersKept
      <4> QED BY <2>1, <4>1, <4>2 DEF BesideDrains
    <3>2. /\ MergesOK(Rebuilder) /\ NoDeletes /\ Extent /\ overlap = "drains"
          /\ \A e \in Entities : e \in Live(Entities) => Rebuilt(e)
      BY <3>1 DEF ExactInv, BesideDrains
    <3>3. MergesOK(m)
      BY <3>2, ProcKinds DEF ExactInv
    <3>4. \A e \in Entities : e \in Live(Entities)' <=> e \in Live(Entities)
      BY <2>1, CanonKept
    <3>5. ASSUME NEW e \in Entities, e \in Live(Entities) PROVE Rebuilt(e)'
      BY <1>0, <1>6, <2>1, <2>6, <3>2, <3>3, <3>5, RebuiltStep
    <3>6. Extent'
      BY <1>0, <1>6, <2>1, <2>6, <3>2, <3>3, GraphStep
    <3> QED BY <1>k, <2>1, <2>2, <3>2, <3>4, <3>5, <3>6 DEF NoDeletes
  <2> QED BY <2>4, <2>5, <2>6
<1>7. CASE UNCHANGED vars
  BY <1>2, <1>7 DEF vars
<1> QED
  BY <1>k, <1>3, <1>4, <1>5, <1>6, <1>7 DEF Next

(* Where a rebuild ends beside drains there is nothing it has not come to. *)
LEMMA ExactEnd ==
  ASSUME ShownInv, ExactInv, [Next]_vars, partial, ~partial', overlap = "drains"
  PROVE  edges = ExpectedEdges /\ \A x \in Entities : node[x] = ExpectedNode(x)
<1>0. TypeOK /\ RowFacts
  BY DEF ShownInv
<1>1. RebuildEnd
  BY DEF Next, Ingest, WritePage, DeleteCommit, DeleteDetach, DeleteBroken, Claim, DrainEnd,
     StoreError, Drop, List, Load, MergeNode, MergeSource, ReadFile, MergeEdge, Projected, Crash, vars
<1>2. pc[Rebuilder] = "next" /\ todo[Rebuilder] = {} /\ stage[Rebuilder] = "pages"
  BY <1>1 DEF RebuildEnd
<1>3. BesideDrains /\ ~InHand(Rebuilder) /\ \A e : ~Coming(e)
  BY <1>2 DEF BesideDrains, Idle, InHand, Coming
<1>4. Extent /\ \A e \in Entities : e \in Live(Entities) => Rebuilt(e)
  BY <1>3 DEF ExactInv
<1>5. ASSUME NEW e \in Entities, e \in Live(Entities)
      PROVE  node[e] = Full(version[e]) /\ Needed(e) \subseteq edges
  BY <1>3, <1>4, <1>5, NothingAhead DEF Rebuilt
<1>6. edges = ExpectedEdges
  <2>1. ASSUME NEW x \in ExpectedEdges PROVE x \in edges
    BY <1>5, ExpectedNeeded
  <2> QED BY <1>4, <2>1 DEF Extent
<1>7. ASSUME NEW x \in Entities PROVE node[x] = ExpectedNode(x)
  BY <1>4, <1>5 DEF Extent, ExpectedNode
<1> QED BY <1>6, <1>7

(* A rebuild that nothing but drains overlaps ends with exactly the graph of the
   rows and files, however it and they interleave and whatever the graph held
   before (rebuild.py:8-11, docs/Compendium.md:1964). *)
THEOREM Reproduces == Spec => RebuildExact
<1> DEFINE Ends == partial /\ ~partial' /\ overlap = "drains" =>
                     edges = ExpectedEdges /\ \A x \in Entities : node[x] = ExpectedNode(x)
<1>1. Init => ShownInv /\ ExactInv
  <2>1. Init => ExactInv
    BY ProcKinds DEF Init, ExactInv, MergesOK, BesideDrains, Idle
  <2> QED BY <2>1, ShownInit
<1>2. ShownInv /\ ExactInv /\ [Next]_vars => ShownInv' /\ ExactInv'
  BY ShownStep, ExactStep
<1>3. ShownInv /\ ExactInv /\ [Next]_vars => [Ends]_vars
  BY ExactEnd
<1> QED BY <1>1, <1>2, <1>3, PTL DEF Spec, RebuildExact
=============================================================================
