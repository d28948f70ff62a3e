-------------------------- MODULE IndexSyncProofs --------------------------
(***************************************************************************)
(* Proofs about IndexSync for every set of sources, chunks and drainers,   *)
(* every bound and every set of faults.                                    *)
(***************************************************************************)
EXTENDS IndexSync, TLAPS

LEMMA EntityFacts ==
  /\ Sources \subseteq Entities /\ Chunks \subseteq Entities
  /\ \A e \in Entities : Owner(e) \in Sources
  /\ \A s \in Sources : ChunksOf(s) \subseteq Chunks
  /\ \A s \in Sources, c \in Chunks : c \in ChunksOf(s) <=> SourceOf[c] = s
  /\ \A s \in Sources : s \notin Chunks
BY SyncAssumption DEF SyncAssumption, Entities, Owner, ChunksOf

LEMMA DocFacts ==
  ASSUME TypeOK
  PROVE  /\ NoDoc \in Docs
         /\ \A e \in Entities : Content(e) \in Docs
BY EntityFacts DEF TypeOK, NoDoc, Docs, Content

(* Requeue and SetRow keep the queue's shape. *)
LEMMA RequeueType ==
  ASSUME TypeOK, NEW gone, NEW add, Requeue(gone, add)
  PROVE  /\ row' \in [Entities -> {"none", "pending", "indexed", "failed"}]
         /\ gen' \in [Entities -> Nat]
         /\ dropped' \subseteq Entities
BY DEF TypeOK, Requeue

LEMMA SetRowType ==
  ASSUME TypeOK, NEW r \in RowIds,
         NEW state \in {"none", "indexed", "failed"}, SetRow(r, state)
  PROVE  /\ row' \in [Entities -> {"none", "pending", "indexed", "failed"}]
         /\ gen' \in [Entities -> Nat]
BY DEF TypeOK, SetRow, RowIds

LEMMA InitType == Init => TypeOK
BY EntityFacts
DEF Init, TypeOK, TxType, DelType, TagType, RowIds, Steps, Docs,
    NoDoc, NoTx, NoDel, NoTag, NoRow

(* The writers' steps. *)
LEMMA WriterType ==
  ASSUME TypeOK, NEW s \in Sources, Writer(s)
  PROVE  TypeOK'
<1> USE EntityFacts
<1> USE DEF canon, queue, ops, work
<1>1. CASE IngestWrite(s)
  <2>1. PICK new \in SUBSET {c \in ChunksOf(s) : life[c] = "unborn"} :
          /\ tx' = [tx EXCEPT ![s] =
                      [kind |-> "ingest", new |-> new, page |-> new # {}]]
          /\ IF new = {} THEN UNCHANGED body
             ELSE body[s] < MaxVersion /\ body' = [body EXCEPT ![s] = @ + 1]
    BY <1>1 DEF IngestWrite
  <2>2. [kind |-> "ingest", new |-> new, page |-> new # {}] \in TxType
    BY DEF TxType
  <2>3. body' \in [Sources -> Nat]  BY <2>1 DEF TypeOK
  <2>4. tx' \in [Sources -> TxType]  BY <2>1, <2>2 DEF TypeOK
  <2>5. \A t \in Sources : tx'[t].new \subseteq ChunksOf(t)  BY <2>1 DEF TypeOK
  <2> QED BY <1>1, <2>3, <2>4, <2>5 DEF IngestWrite, TypeOK
<1>2. CASE PageWrite(s)
  <2>1. [kind |-> "page", new |-> {}, page |-> TRUE] \in TxType  BY DEF TxType
  <2> QED BY <1>2, <2>1 DEF PageWrite, TypeOK
<1>3. CASE Commit(s)
  <2>1. Requeue(Replaced(s), Written(s))  BY <1>3 DEF Commit
  <2>2. NoTx \in TxType /\ NoTx.new = {}  BY DEF NoTx, TxType
  <2>3. life' \in [Entities -> {"unborn", "live", "dead"}]
    BY <1>3 DEF Commit, TypeOK
  <2>4. revision' \in [Sources -> Nat] /\ source' \in [Sources -> {"absent", "stored", "deleted"}]
    BY <1>3 DEF Commit, TypeOK
  <2>5. tx' \in [Sources -> TxType] /\ \A t \in Sources : tx'[t].new \subseteq ChunksOf(t)
    BY <1>3, <2>2 DEF Commit, TypeOK
  <2> QED BY <1>3, <2>1, <2>3, <2>4, <2>5, RequeueType DEF Commit, TypeOK
<1>4. CASE Abort(s)
  <2>1. NoTx \in TxType /\ NoTx.new = {}  BY DEF NoTx, TxType
  <2> QED BY <1>4, <2>1 DEF Abort, TypeOK
<1>5. CASE TagBegin(s)
  <2>1. \A op \in {"add", "rm"} : [op |-> op, ids |-> Live(ChunksOf(s))] \in TagType
    BY DEF TagType, Live
  <2> QED BY <1>5, <2>1 DEF TagBegin, TypeOK
<1>6. CASE TagCommit(s)
  <2>1. Requeue({}, {s} \cup tagging[s].ids)  BY <1>6 DEF TagCommit
  <2>2. NoTag \in TagType  BY DEF NoTag, TagType
  <2> QED BY <1>6, <2>1, <2>2, RequeueType DEF TagCommit, TypeOK
<1>7. CASE TagAbort(s)
  <2>1. NoTag \in TagType  BY DEF NoTag, TagType
  <2> QED BY <1>7, <2>1 DEF TagAbort, TypeOK
<1>8. CASE DeleteRead(s)
  <2>1. [phase |-> "read", ids |-> Live({s} \cup ChunksOf(s))] \in DelType
    BY DEF DelType, Live
  <2> QED BY <1>8, <2>1 DEF DeleteRead, TypeOK
<1>9. CASE DeleteCommit(s)
  <2>1. NoDel \in DelType  BY DEF NoDel, DelType
  <2>2. CASE life[s] = "live" /\ s \notin deleting[s].ids
    <3>1. /\ deleting' = [deleting EXCEPT ![s] = NoDel]
          /\ UNCHANGED <<source, life, row, gen, dropped>>
          /\ UNCHANGED <<revision, body, tags, index, tx, tagging, work>>
      BY <1>9, <2>2 DEF DeleteCommit
    <3> QED BY <2>1, <3>1 DEF TypeOK
  <2>3. CASE ~(life[s] = "live" /\ s \notin deleting[s].ids)
    <3>1. Requeue(deleting[s].ids, {})  BY <1>9, <2>3 DEF DeleteCommit
    <3>2. /\ deleting' = [deleting EXCEPT ![s].phase = "committed"]
          /\ source' = [source EXCEPT ![s] = "deleted"]
          /\ life' = [e \in Entities |-> IF e \in Live({s} \cup ChunksOf(s))
                                         THEN "dead" ELSE life[e]]
          /\ UNCHANGED <<revision, body, tags, index, tx, tagging, work>>
      BY <1>9, <2>3 DEF DeleteCommit
    <3>3. deleting' \in [Sources -> DelType]
      <4>1. [deleting[s] EXCEPT !.phase = "committed"] \in DelType
        <5>1. deleting[s] \in DelType  BY DEF TypeOK
        <5> QED BY <5>1 DEF DelType
      <4>2. deleting' = [deleting EXCEPT ![s].phase = "committed"]  BY <3>2
      <4> QED BY <4>1, <4>2 DEF TypeOK
    <3> QED BY <3>1, <3>2, <3>3, RequeueType DEF TypeOK
  <2> QED BY <2>2, <2>3
<1>10. CASE DeleteUnlink(s)
  <2>1. deleting' \in [Sources -> DelType]
    BY <1>10 DEF DeleteUnlink, TypeOK, DelType
  <2> QED BY <1>10, <2>1 DEF DeleteUnlink, TypeOK
<1>11. CASE DeleteDerived(s)
  <2>1. NoDel \in DelType  BY DEF NoDel, DelType
  <2>2. index' \in [Entities -> Docs]  BY <1>11, DocFacts DEF DeleteDerived, TypeOK
  <2> QED BY <1>11, <2>1, <2>2 DEF DeleteDerived, TypeOK
<1>12. CASE DeleteCrash(s)
  <2>1. NoDel \in DelType  BY DEF NoDel, DelType
  <2> QED BY <1>12, <2>1 DEF DeleteCrash, TypeOK
<1> QED BY <1>1, <1>2, <1>3, <1>4, <1>5, <1>6, <1>7, <1>8, <1>9, <1>10,
           <1>11, <1>12 DEF Writer

(* The drainers' steps. *)
LEMMA ReleaseType ==
  ASSUME TypeOK, NEW d \in Drainers, Release(d)
  PROVE  /\ pc' \in [Drainers -> Steps]
         /\ todo' \in [Drainers -> SUBSET RowIds]
         /\ cur' \in [Drainers -> RowIds \cup {NoRow}]
         /\ copy' \in [Drainers -> Docs]
         /\ scope' \in [Drainers -> SUBSET Entities]
         /\ \A e \in Drainers :
              (cur'[e] # NoRow) <=> (pc'[e] \in {"loading", "loaded", "written"})
BY DocFacts DEF TypeOK, Release, Steps

LEMMA DrainerType ==
  ASSUME TypeOK, NEW d \in Drainers, Drainer(d)
  PROVE  TypeOK'
<1> USE EntityFacts
<1> USE DEF canon, queue, ops, work
<1>a. \A S \in SUBSET Entities : Claimed(S) \in SUBSET RowIds
  BY DEF TypeOK, Claimed, Pending, RowIds
<1>b. \A r \in RowIds : r # NoRow /\ r[1] \in Entities  BY DEF RowIds, NoRow
<1>1. CASE SyncStart(d)
  <2>1. todo' \in [Drainers -> SUBSET RowIds]  BY <1>1, <1>a DEF SyncStart, TypeOK
  <2>2. pc' \in [Drainers -> Steps]  BY <1>1 DEF SyncStart, TypeOK, Steps
  <2> QED BY <1>1, <2>1, <2>2 DEF SyncStart, TypeOK
<1>2. CASE ReindexDrop(d)
  <2>1. PICK target \in {Sources, Chunks, Entities} :
          /\ index' = [e \in Entities |-> IF e \in target THEN NoDoc ELSE index[e]]
          /\ dropped' = dropped \cup target
          /\ scope' = [scope EXCEPT ![d] = target]
    BY <1>2 DEF ReindexDrop
  <2>2. index' \in [Entities -> Docs]  BY <2>1, DocFacts DEF TypeOK
  <2>3. dropped' \subseteq Entities /\ scope' \in [Drainers -> SUBSET Entities]
    BY <2>1 DEF TypeOK
  <2>4. pc' \in [Drainers -> Steps]  BY <1>2 DEF ReindexDrop, TypeOK, Steps
  <2> QED BY <1>2, <2>2, <2>3, <2>4 DEF ReindexDrop, TypeOK
<1>3. CASE ReindexRead(d)
  <2>1. {<<e, gen[e]>> : e \in Live(scope[d])} \subseteq RowIds
    BY DEF TypeOK, Live, RowIds
  <2> QED BY <1>3, <2>1 DEF ReindexRead, TypeOK, Steps
<1>4. CASE ReindexEnqueue(d)
  <2>1. Requeue({}, {r[1] : r \in todo[d]})  BY <1>4 DEF ReindexEnqueue
  <2> QED BY <1>4, <2>1, RequeueType DEF ReindexEnqueue, TypeOK, Steps
<1>5. CASE ReindexClaim(d)
  <2>1. Claimed(scope[d]) \subseteq RowIds  BY <1>a DEF TypeOK
  <2>2. todo' \in [Drainers -> SUBSET RowIds]  BY <1>5, <2>1 DEF ReindexClaim, TypeOK
  <2>3. pc' \in [Drainers -> Steps]  BY <1>5 DEF ReindexClaim, TypeOK, Steps
  <2> QED BY <1>5, <2>2, <2>3 DEF ReindexClaim, TypeOK
<1>6. CASE Take(d)
  <2>1. PICK r \in todo[d] :
       /\ todo' = [todo EXCEPT ![d] = @ \ {r}]
       /\ \/ /\ life[r[1]] = "live"
             /\ cur' = [cur EXCEPT ![d] = r]
             /\ copy' = [copy EXCEPT ![d] =
                           [NoDoc EXCEPT !.revision = Content(r[1]).revision]]
             /\ pc' = [pc EXCEPT ![d] = "loading"]
             /\ UNCHANGED queue
          \/ /\ life[r[1]] # "live"
             /\ SetRow(r, "none")
             /\ UNCHANGED <<pc, cur, copy>>
    BY <1>6 DEF Take
  <2>2. r \in RowIds /\ r[1] \in Entities /\ r # NoRow  BY <1>b DEF TypeOK
  <2>3. todo' \in [Drainers -> SUBSET RowIds]  BY <2>1 DEF TypeOK
  <2>4. [NoDoc EXCEPT !.revision = Content(r[1]).revision] \in Docs
    BY <2>2, DocFacts DEF Docs
  <2>5. CASE life[r[1]] = "live"
    <3>1. cur' = [cur EXCEPT ![d] = r] /\ pc' = [pc EXCEPT ![d] = "loading"]
      BY <2>1, <2>5
    <3>2. copy' \in [Drainers -> Docs]
      <4>1. copy' = [copy EXCEPT ![d] =
                       [NoDoc EXCEPT !.revision = Content(r[1]).revision]]
        BY <2>1, <2>5
      <4> QED BY <2>4, <4>1 DEF TypeOK
    <3>3. /\ cur' \in [Drainers -> RowIds \cup {NoRow}]
          /\ pc' \in [Drainers -> Steps]
          /\ \A e \in Drainers :
               (cur'[e] # NoRow) <=> (pc'[e] \in {"loading", "loaded", "written"})
      BY <2>2, <3>1 DEF TypeOK, Steps
    <3> QED BY <1>6, <2>1, <2>3, <2>5, <3>2, <3>3 DEF Take, TypeOK
  <2>6. CASE life[r[1]] # "live"
    <3>1. SetRow(r, "none")  BY <2>1, <2>6
    <3> QED BY <1>6, <2>1, <2>2, <2>3, <2>6, <3>1, SetRowType DEF Take, TypeOK
  <2> QED BY <2>5, <2>6
<1>7. CASE Load(d)
  <2>1. cur[d] \in RowIds /\ cur[d][1] \in Entities
    BY <1>7, <1>b DEF Load, TypeOK
  <2>2. CASE ~FileGone(cur[d][1])
    <3>1. [Content(cur[d][1]) EXCEPT !.revision = copy[d].revision] \in Docs
      <4>1. Content(cur[d][1]) \in Docs  BY <2>1, DocFacts
      <4>2. copy[d].revision \in Nat  BY DEF TypeOK, Docs
      <4> QED BY <4>1, <4>2 DEF Docs
    <3>2. /\ copy' = [copy EXCEPT ![d] =
                        [Content(cur[d][1]) EXCEPT !.revision = copy[d].revision]]
          /\ pc' = [pc EXCEPT ![d] = "loaded"]
          /\ pc[d] = "loading"
          /\ UNCHANGED <<row, gen, todo, cur, scope>>
          /\ UNCHANGED <<canon, index, dropped, ops>>
      BY <1>7, <2>2 DEF Load
    <3>3. copy' \in [Drainers -> Docs]  BY <3>1, <3>2 DEF TypeOK
    <3>4. /\ pc' \in [Drainers -> Steps]
          /\ \A e \in Drainers :
               (cur'[e] # NoRow) <=> (pc'[e] \in {"loading", "loaded", "written"})
      BY <3>2 DEF TypeOK, Steps
    <3> QED BY <3>2, <3>3, <3>4 DEF TypeOK
  <2>3. CASE FileGone(cur[d][1])
    <3>1. SetRow(cur[d], "none") /\ Release(d)  BY <1>7, <2>3 DEF Load
    <3> QED BY <1>7, <2>1, <3>1, SetRowType, ReleaseType DEF Load, TypeOK
  <2> QED BY <2>2, <2>3
<1>8. CASE StoreWrite(d)
  <2>1. cur[d] \in RowIds /\ cur[d][1] \in Entities
    BY <1>8, <1>b DEF StoreWrite, TypeOK
  <2> QED BY <1>8, <2>1 DEF StoreWrite, TypeOK, Steps
<1>9. CASE MarkIndexed(d)
  <2>1. cur[d] \in RowIds  BY <1>9 DEF MarkIndexed, TypeOK
  <2>2. SetRow(cur[d], "indexed") /\ Release(d)  BY <1>9 DEF MarkIndexed
  <2> QED BY <1>9, <2>1, <2>2, SetRowType, ReleaseType DEF MarkIndexed, TypeOK
<1>10. CASE MarkFailed(d)
  <2>1. cur[d] \in RowIds /\ cur[d][1] \in Entities
    BY <1>10, <1>b DEF MarkFailed, TypeOK
  <2>2. SetRow(cur[d], "failed") /\ Release(d)  BY <1>10 DEF MarkFailed
  <2>3. index' \in [Entities -> Docs]  BY <1>10, <2>1 DEF MarkFailed, TypeOK
  <2> QED BY <1>10, <2>1, <2>2, <2>3, SetRowType, ReleaseType DEF MarkFailed, TypeOK
<1>11. CASE Finish(d)  BY <1>11 DEF Finish, TypeOK, Steps
<1>12. CASE Crash(d)
  <2>1. copy' \in [Drainers -> Docs]  BY <1>12, DocFacts DEF Crash, TypeOK
  <2>2. /\ pc' \in [Drainers -> Steps]
        /\ cur' \in [Drainers -> RowIds \cup {NoRow}]
        /\ \A e \in Drainers :
             (cur'[e] # NoRow) <=> (pc'[e] \in {"loading", "loaded", "written"})
    BY <1>12 DEF Crash, TypeOK, Steps
  <2> QED BY <1>12, <2>1, <2>2 DEF Crash, TypeOK
<1> QED BY <1>1, <1>2, <1>3, <1>4, <1>5, <1>6, <1>7, <1>8, <1>9, <1>10,
           <1>11, <1>12 DEF Drainer, Proceed

LEMMA StutterType == TypeOK /\ UNCHANGED vars => TypeOK'
BY DEF vars, canon, queue, ops, work, TypeOK

(* Type correctness: every reachable state has the shape TypeOK states, and a
   drainer has a row in hand exactly while it projects one. *)
THEOREM TypeCorrect == Spec => []TypeOK
<1>1. Init => TypeOK  BY InitType
<1>2. TypeOK /\ [Next]_vars => TypeOK'
  BY WriterType, DrainerType, StutterType DEF Next
<1> QED BY <1>1, <1>2, PTL DEF Spec

-----------------------------------------------------------------------------
(* No silent loss.                                                         *)

(* Files and deletes. *)
LEMMA InitFiles == Init => FileFacts
BY EntityFacts DEF Init, FileFacts, FileFactsOf, NoTx, NoDel

LEMMA WriterFiles ==
  ASSUME TypeOK, FileFacts, NEW s \in Sources, Writer(s)
  PROVE  FileFacts'
<1> USE EntityFacts DEF canon, queue, ops, work
<1>a. /\ \A e \in Entities : life[e] \in {"unborn", "live", "dead"}
      /\ \A t \in Sources : body[t] \in Nat /\ revision[t] \in Nat
      /\ NoTx.page = FALSE /\ NoTx.new = {} /\ NoDel.phase = "idle" /\ NoDel.ids = {}
  BY DEF TypeOK, NoTx, NoDel
<1>1. CASE IngestWrite(s)
  <2>0. PICK new \in SUBSET {c \in ChunksOf(s) : life[c] = "unborn"} :
          /\ tx' = [tx EXCEPT ![s] =
                      [kind |-> "ingest", new |-> new, page |-> new # {}]]
          /\ IF new = {} THEN UNCHANGED body
             ELSE body[s] < MaxVersion /\ body' = [body EXCEPT ![s] = @ + 1]
    BY <1>1 DEF IngestWrite
  <2>a. source[s] # "deleted" /\ UNCHANGED <<source, life, revision, deleting>>
    BY <1>1 DEF IngestWrite
  <2>b. tx'[s].page = (new # {}) /\ \A t \in Sources : t # s => tx'[t] = tx[t]
    BY <2>0 DEF TypeOK
  <2>c. /\ \A t \in Sources : t # s => body'[t] = body[t]
        /\ body'[s] = IF new = {} THEN body[s] ELSE body[s] + 1
    BY <2>0 DEF TypeOK
  <2>1. /\ source[s] # "deleted"
        /\ \A t \in Sources : t # s => tx'[t] = tx[t] /\ body'[t] = body[t]
        /\ tx'[s].page => body'[s] = body[s] + 1
        /\ body'[s] = body[s] \/ body'[s] = body[s] + 1
        /\ UNCHANGED <<source, life, revision, deleting>>
    BY <2>a, <2>b, <2>c
  <2> QED BY <2>1, <1>a DEF FileFacts, FileFactsOf
<1>2. CASE PageWrite(s)
  <2>1. /\ life[s] = "live"
        /\ \A t \in Sources : t # s => tx'[t] = tx[t] /\ body'[t] = body[t]
        /\ body'[s] = body[s] + 1
        /\ UNCHANGED <<source, life, revision, deleting>>
    BY <1>2 DEF PageWrite, TypeOK
  <2> QED BY <2>1, <1>a DEF FileFacts, FileFactsOf
<1>3. CASE Commit(s)
  <2>1. /\ tx[s] # NoTx
        /\ tx' = [tx EXCEPT ![s] = NoTx]
        /\ source' = [source EXCEPT ![s] = "stored"]
        /\ revision' = IF tx[s].page THEN [revision EXCEPT ![s] = body[s]] ELSE revision
        /\ life' = [e \in Entities |-> IF e \in Written(s) THEN "live"
                                       ELSE IF e \in Replaced(s) THEN "dead"
                                       ELSE life[e]]
        /\ UNCHANGED <<body, deleting>>
    BY <1>3 DEF Commit
  <2>2. Written(s) \subseteq {s} \cup ChunksOf(s)  BY DEF Written, TypeOK
  <2>3. \A t \in Sources : t # s =>
          \A e \in {t} \cup ChunksOf(t) : e \notin Written(s)
    BY <2>2
  <2>4. \A t \in Sources : t # s =>
          \A e \in {t} \cup ChunksOf(t) : life'[e] = "live" => life[e] = "live"
    BY <2>1, <2>3
  <2>5. life'[s] = "live" => tx[s].page \/ life[s] = "live"
    BY <2>1 DEF Written, TypeOK
  <2>6. \A t \in Sources : t # s => revision'[t] = revision[t] /\ source'[t] = source[t] /\ tx'[t] = tx[t]
    BY <2>1 DEF TypeOK
  <2>7. revision'[s] = (IF tx[s].page THEN body[s] ELSE revision[s]) /\ source'[s] = "stored" /\ tx'[s] = NoTx
    BY <2>1 DEF TypeOK
  <2>8. source[s] # "deleted"  BY <2>1 DEF FileFacts, FileFactsOf
  <2>9. FileFactsOf(s)'
    BY <2>1, <2>5, <2>7, <2>8, <1>a DEF FileFacts, FileFactsOf
  <2>10. ASSUME NEW t \in Sources, t # s  PROVE FileFactsOf(t)'
    <3>1. FileFactsOf(t)  BY DEF FileFacts
    <3> QED BY <2>1, <2>4, <2>6, <2>10, <3>1 DEF FileFactsOf
  <2> QED BY <2>9, <2>10 DEF FileFacts
<1>4. CASE Abort(s)
  <2>1. \A t \in Sources : tx'[t] = tx[t] \/ tx'[t] = NoTx  BY <1>4 DEF Abort, TypeOK
  <2> QED BY <1>4, <2>1, <1>a DEF Abort, FileFacts, FileFactsOf
<1>5. CASE TagBegin(s)  BY <1>5 DEF TagBegin, FileFacts, FileFactsOf
<1>6. CASE TagCommit(s)  BY <1>6 DEF TagCommit, FileFacts, FileFactsOf
<1>7. CASE TagAbort(s)  BY <1>7 DEF TagAbort, FileFacts, FileFactsOf
<1>8. CASE DeleteRead(s)
  <2>1. /\ \A t \in Sources : t # s => deleting'[t] = deleting[t]
        /\ deleting'[s].phase = "read"
        /\ deleting'[s].ids \subseteq {s} \cup ChunksOf(s)
        /\ UNCHANGED <<source, life, revision, body, tx>>
    BY <1>8 DEF DeleteRead, TypeOK, Live
  <2> QED BY <2>1 DEF FileFacts, FileFactsOf
<1>9. CASE DeleteCommit(s)
  <2>1. CASE life[s] = "live" /\ s \notin deleting[s].ids
    <3>1. /\ deleting' = [deleting EXCEPT ![s] = NoDel]
          /\ UNCHANGED <<source, life, revision, body, tx>>
      BY <1>9, <2>1 DEF DeleteCommit
    <3>2. \A t \in Sources : deleting'[t] = deleting[t] \/ deleting'[t] = NoDel
      BY <3>1 DEF TypeOK
    <3> QED BY <3>1, <3>2, <1>a DEF FileFacts, FileFactsOf
  <2>2. CASE ~(life[s] = "live" /\ s \notin deleting[s].ids)
    <3>1. /\ deleting' = [deleting EXCEPT ![s].phase = "committed"]
          /\ source' = [source EXCEPT ![s] = "deleted"]
          /\ life' = [e \in Entities |-> IF e \in Live({s} \cup ChunksOf(s))
                                         THEN "dead" ELSE life[e]]
          /\ tx[s] = NoTx
          /\ UNCHANGED <<revision, body, tx>>
      BY <1>9, <2>2 DEF DeleteCommit
    <3>2. \A e \in Entities : life'[e] = "live" => life[e] = "live"  BY <3>1
    <3>3. \A e \in {s} \cup ChunksOf(s) : life'[e] # "live"  BY <3>1 DEF Live
    <3>4. \A t \in Sources : t # s => deleting'[t] = deleting[t] /\ source'[t] = source[t]
      BY <3>1 DEF TypeOK
    <3>5. deleting'[s].ids = deleting[s].ids /\ source'[s] = "deleted"
      BY <3>1 DEF TypeOK, DelType
    <3>6. FileFactsOf(s)'
      BY <3>1, <3>3, <3>5 DEF FileFacts, FileFactsOf
    <3>7. ASSUME NEW t \in Sources, t # s  PROVE FileFactsOf(t)'
      <4>1. FileFactsOf(t)  BY DEF FileFacts
      <4> QED BY <3>1, <3>2, <3>4, <3>7, <4>1 DEF FileFactsOf
    <3> QED BY <3>6, <3>7 DEF FileFacts
  <2> QED BY <2>1, <2>2
<1>10. CASE DeleteUnlink(s)
  <2>1. /\ \A t \in Sources : t # s => deleting'[t] = deleting[t] /\ body'[t] = body[t]
        /\ deleting[s].phase = "committed"
        /\ deleting'[s].ids = deleting[s].ids
        /\ UNCHANGED <<source, life, revision, tx>>
    BY <1>10 DEF DeleteUnlink, TypeOK, DelType
  <2>2. source[s] = "deleted" /\ tx[s] = NoTx /\ life[s] # "live"
    BY <2>1 DEF FileFacts, FileFactsOf
  <2> QED BY <2>1, <2>2, <1>a DEF FileFacts, FileFactsOf
<1>11. CASE DeleteDerived(s)
  <2>1. /\ \A t \in Sources : deleting'[t] = deleting[t] \/ deleting'[t] = NoDel
        /\ UNCHANGED <<source, life, revision, body, tx>>
    BY <1>11 DEF DeleteDerived, TypeOK
  <2> QED BY <2>1, <1>a DEF FileFacts, FileFactsOf
<1>12. CASE DeleteCrash(s)
  <2>1. /\ \A t \in Sources : deleting'[t] = deleting[t] \/ deleting'[t] = NoDel
        /\ UNCHANGED <<source, life, revision, body, tx>>
    BY <1>12 DEF DeleteCrash, TypeOK
  <2> QED BY <2>1, <1>a DEF FileFacts, FileFactsOf
<1> QED BY <1>1, <1>2, <1>3, <1>4, <1>5, <1>6, <1>7, <1>8, <1>9, <1>10,
           <1>11, <1>12 DEF Writer

(* A drainer's step leaves the canonical store and the writers alone. *)
LEMMA DrainerFrame ==
  ASSUME NEW d \in Drainers, Drainer(d)
  PROVE  UNCHANGED <<canon, ops>>
BY DEF Drainer, Proceed, SyncStart, ReindexDrop, ReindexRead, ReindexEnqueue,
       ReindexClaim, Take, Load, StoreWrite, MarkIndexed, MarkFailed, Finish, Crash

(* A writer's step leaves the drainers alone, and only runs when they are
   idle if drains are exclusive. *)
LEMMA WriterFrame ==
  ASSUME NEW s \in Sources, Writer(s)
  PROVE  /\ UNCHANGED work
         /\ Exclusive /\ Solo /\ TypeOK => DrainsIdle
<1>1. UNCHANGED work
  BY DEF Writer, IngestWrite, PageWrite, Commit, Abort, TagBegin, TagCommit,
         TagAbort, DeleteRead, DeleteCommit, DeleteUnlink, DeleteDerived, DeleteCrash
<1>2. MayWrite \/ ~OpsIdle
  <2>1. CASE IngestWrite(s) \/ PageWrite(s) \/ TagBegin(s) \/ DeleteRead(s)
    BY <2>1 DEF IngestWrite, PageWrite, TagBegin, DeleteRead
  <2>2. CASE tx[s] # NoTx \/ tagging[s] # NoTag \/ deleting[s] # NoDel
    BY <2>2 DEF OpsIdle
  <2>3. CASE Commit(s) \/ Abort(s) \/ TagCommit(s) \/ TagAbort(s) \/ DeleteCrash(s)
    BY <2>2, <2>3 DEF Commit, Abort, TagCommit, TagAbort, DeleteCrash
  <2>4. CASE DeleteCommit(s) \/ DeleteUnlink(s) \/ DeleteDerived(s)
    <3>1. deleting[s].phase # "idle"
      BY <2>4 DEF DeleteCommit, DeleteUnlink, DeleteDerived
    <3> QED BY <2>2, <3>1 DEF NoDel
  <2> QED BY <2>1, <2>3, <2>4 DEF Writer
<1> QED BY <1>1, <1>2 DEF MayWrite, Solo

(* The current content of an entity depends on its own row and file and on its
   source's tags. *)
LEMMA ContentFrame ==
  ASSUME NEW e \in Entities, UNCHANGED tags,
         e \in Sources => revision'[e] = revision[e] /\ body'[e] = body[e]
  PROVE  Content(e)' = Content(e)
BY DEF Content

(* A writer's step settles nothing: what is settled after it was settled before,
   with the same content and document. *)
LEMMA WriterKeeps ==
  ASSUME SafeInv, Exclusive, NEW s \in Sources, Writer(s)
  PROVE  /\ TagCover'
         /\ \A e \in Entities : Settled(e)' =>
              Settled(e) /\ Content(e)' = Content(e) /\ index'[e] = index[e]
<1> USE EntityFacts DEF canon, queue, ops, work
<1> DEFINE Own(t) == {t} \cup ChunksOf(t)
           Keep == \A e \in Entities : Settled(e)' =>
                     Settled(e) /\ Content(e)' = Content(e) /\ index'[e] = index[e]
<1>a. TypeOK /\ FileFacts /\ TagCover  BY DEF SafeInv
<1>b. /\ \A e \in Entities : life[e] \in {"unborn", "live", "dead"}
      /\ \A t \in Sources : body[t] \in Nat /\ revision[t] \in Nat
      /\ \A t \in Sources : Own(t) \subseteq Entities
  BY <1>a DEF TypeOK
(* Steps that change neither rows nor lives, and no document of a live entity. *)
<1>c. ASSUME UNCHANGED <<life, revision, tags, row, dropped>>,
             \A e \in Entities : life[e] = "live" => index'[e] = index[e],
             \A t \in Sources : body'[t] = body[t]
                \/ life[t] # "live"
                \/ body'[t] # revision[t]
      PROVE  Keep
  <2>1. ASSUME NEW e \in Entities, Settled(e)'
        PROVE  Settled(e) /\ Content(e)' = Content(e) /\ index'[e] = index[e]
    <3>1. life[e] = "live"  BY <1>c, <2>1 DEF Settled
    <3>2. e \in Sources => body'[e] = body[e]
      BY <1>c, <2>1, <3>1 DEF Settled, FileAhead
    <3>3. Content(e)' = Content(e)  BY <1>c, <3>2, ContentFrame
    <3> QED BY <1>c, <2>1, <3>1, <3>2, <3>3 DEF Settled, FileAhead
  <2> QED BY <2>1
<1>1. CASE IngestWrite(s)
  <2>1. /\ \A t \in Sources : t # s => body'[t] = body[t]
        /\ body'[s] = body[s] \/ body'[s] = body[s] + 1
        /\ UNCHANGED <<life, revision, tags, row, dropped, index, tagging>>
    BY <1>1, <1>a DEF IngestWrite, TypeOK
  <2>2. life[s] = "live" => body[s] + 1 # revision[s]
    BY <1>a, <1>b DEF FileFacts, FileFactsOf
  <2>3. Keep  BY <2>1, <2>2, <1>c
  <2> QED BY <2>1, <2>3, <1>a DEF TagCover
<1>2. CASE PageWrite(s)
  <2>1. /\ \A t \in Sources : t # s => body'[t] = body[t]
        /\ body'[s] = body[s] + 1
        /\ UNCHANGED <<life, revision, tags, row, dropped, index, tagging>>
    BY <1>2, <1>a DEF PageWrite, TypeOK
  <2>2. life[s] = "live" => body[s] + 1 # revision[s]
    BY <1>a, <1>b DEF FileFacts, FileFactsOf
  <2>3. Keep  BY <2>1, <2>2, <1>c
  <2> QED BY <2>1, <2>3, <1>a DEF TagCover
<1>3. CASE Commit(s)
  <2>1. /\ revision' = IF tx[s].page THEN [revision EXCEPT ![s] = body[s]] ELSE revision
        /\ life' = [e \in Entities |-> IF e \in Written(s) THEN "live"
                                       ELSE IF e \in Replaced(s) THEN "dead"
                                       ELSE life[e]]
        /\ Requeue(Replaced(s), Written(s))
        /\ UNCHANGED <<body, tags, index, tagging>>
    BY <1>3 DEF Commit
  <2>2. \A e \in Written(s) : e \in Entities /\ row'[e] = "pending"
    BY <2>1, <1>a DEF Written, Requeue, TypeOK
  <2>3. \A e \in Entities : life'[e] = "live" /\ e \notin Written(s) =>
          life[e] = "live" /\ row'[e] = row[e] /\ (e \in dropped' <=> e \in dropped)
    BY <2>1 DEF Requeue
  <2>4. \A t \in Sources : t \notin Written(s) => revision'[t] = revision[t]
    BY <2>1, <1>a DEF Written, TypeOK
  <2>5. ASSUME NEW e \in Entities, Settled(e)'
        PROVE  Settled(e) /\ Content(e)' = Content(e) /\ index'[e] = index[e]
    <3>1. e \notin Written(s)  BY <2>2, <2>5 DEF Settled
    <3>2. Settled(e)
      BY <2>1, <2>3, <2>4, <2>5, <3>1 DEF Settled, FileAhead
    <3>3. Content(e)' = Content(e)  BY <2>1, <2>4, <3>1, ContentFrame
    <3> QED BY <2>1, <3>2, <3>3
  <2>6. TagCover'  BY <2>1, <2>2, <2>3, <1>a DEF TagCover
  <2> QED BY <2>5, <2>6
<1>4. CASE Abort(s)
  <2>1. UNCHANGED <<life, revision, tags, row, dropped, index, body, tagging>>
    BY <1>4 DEF Abort
  <2>2. Keep  BY <2>1, <1>c
  <2> QED BY <2>1, <2>2, <1>a DEF TagCover
<1>5. CASE TagBegin(s)
  <2>1. /\ \A t \in Sources : t # s => tagging'[t] = tagging[t]
        /\ tagging'[s].ids = Live(ChunksOf(s))
        /\ UNCHANGED <<life, revision, tags, row, dropped, index, body>>
    BY <1>5, <1>a DEF TagBegin, TypeOK
  <2>2. Keep  BY <2>1, <1>c
  <2> QED BY <2>1, <2>2, <1>a DEF TagCover, Live
<1>6. CASE TagCommit(s)
  <2>1. /\ tagging[s] # NoTag
        /\ tags' = [tags EXCEPT ![s] = @ + 1]
        /\ Requeue({}, {s} \cup tagging[s].ids)
        /\ tagging' = [tagging EXCEPT ![s] = NoTag]
        /\ UNCHANGED <<life, revision, body, index>>
    BY <1>6 DEF TagCommit
  <2>2. \A e \in Entities : row'[e] = "pending" \/ (row'[e] = row[e] /\ e \notin {s} \cup tagging[s].ids)
    BY <2>1 DEF Requeue
  <2>3. ASSUME NEW e \in Entities, Settled(e)'
        PROVE  Settled(e) /\ Content(e)' = Content(e) /\ index'[e] = index[e]
    <3>1. row'[e] = row[e] /\ e \notin {s} \cup tagging[s].ids /\ row[e] # "pending"
      BY <2>2, <2>3 DEF Settled
    <3>2. e \notin ChunksOf(s)
      BY <2>1, <2>3, <3>1, <1>a DEF TagCover, Settled
    <3>3. Owner(e) # s  BY <3>1, <3>2, SyncAssumption DEF Owner, ChunksOf, Entities
    <3>4. Content(e)' = Content(e)  BY <2>1, <3>3, <1>a DEF Content, TypeOK
    <3>5. Settled(e)
      BY <2>1, <2>3, <3>1 DEF Settled, FileAhead, Requeue
    <3> QED BY <2>1, <3>4, <3>5
  <2>4. \A t \in Sources : t # s => tagging'[t] = tagging[t]  BY <2>1, <1>a DEF TypeOK
  <2>5. tagging'[s] = NoTag  BY <2>1, <1>a DEF TypeOK
  <2>6. TagCover'  BY <2>1, <2>2, <2>4, <2>5, <1>a DEF TagCover
  <2> QED BY <2>3, <2>6
<1>7. CASE TagAbort(s)
  <2>1. /\ \A t \in Sources : tagging'[t] = tagging[t] \/ tagging'[t] = NoTag
        /\ UNCHANGED <<life, revision, tags, row, dropped, index, body>>
    BY <1>7, <1>a DEF TagAbort, TypeOK
  <2>2. Keep  BY <2>1, <1>c
  <2> QED BY <2>1, <2>2, <1>a DEF TagCover
<1>8. CASE DeleteRead(s)
  <2>1. UNCHANGED <<life, revision, tags, row, dropped, index, body, tagging>>
    BY <1>8 DEF DeleteRead
  <2>2. Keep  BY <2>1, <1>c
  <2> QED BY <2>1, <2>2, <1>a DEF TagCover
<1>9. CASE DeleteCommit(s)
  <2>1. CASE life[s] = "live" /\ s \notin deleting[s].ids
    <3>1. UNCHANGED <<life, revision, tags, row, dropped, index, body, tagging>>
      BY <1>9, <2>1 DEF DeleteCommit
    <3>2. Keep  BY <3>1, <1>c
    <3> QED BY <3>1, <3>2, <1>a DEF TagCover
  <2>2. CASE ~(life[s] = "live" /\ s \notin deleting[s].ids)
    <3>1. /\ life' = [e \in Entities |-> IF e \in Live(Own(s)) THEN "dead" ELSE life[e]]
          /\ Requeue(deleting[s].ids, {})
          /\ UNCHANGED <<revision, body, tags, index, tagging>>
      BY <1>9, <2>2 DEF DeleteCommit
    <3>2. deleting[s].ids \subseteq Own(s)  BY <1>a DEF FileFacts, FileFactsOf
    <3>3. \A e \in Entities : life'[e] = "live" =>
            life[e] = "live" /\ row'[e] = row[e] /\ (e \in dropped' <=> e \in dropped)
      <4>1. ASSUME NEW e \in Entities, life'[e] = "live"  PROVE e \notin Own(s) /\ life[e] = "live"
        BY <3>1, <4>1 DEF Live
      <4> QED BY <3>1, <3>2, <4>1 DEF Requeue
    <3>4. ASSUME NEW e \in Entities, Settled(e)'
          PROVE  Settled(e) /\ Content(e)' = Content(e) /\ index'[e] = index[e]
      <4>1. Settled(e)  BY <3>1, <3>3, <3>4 DEF Settled, FileAhead
      <4>2. Content(e)' = Content(e)  BY <3>1, ContentFrame
      <4> QED BY <3>1, <4>1, <4>2
    <3>5. TagCover'  BY <3>1, <3>3, <1>a DEF TagCover
    <3> QED BY <3>4, <3>5
  <2> QED BY <2>1, <2>2
<1>10. CASE DeleteUnlink(s)
  <2>1. /\ \A t \in Sources : t # s => body'[t] = body[t]
        /\ deleting[s].phase = "committed"
        /\ UNCHANGED <<life, revision, tags, row, dropped, index, tagging>>
    BY <1>10, <1>a DEF DeleteUnlink, TypeOK
  <2>2. life[s] # "live"  BY <2>1, <1>a DEF FileFacts, FileFactsOf
  <2>3. Keep  BY <2>1, <2>2, <1>c
  <2> QED BY <2>1, <2>3, <1>a DEF TagCover
<1>11. CASE DeleteDerived(s)
  <2>1. PICK done \in SUBSET deleting[s].ids :
          index' = [e \in Entities |-> IF e \in done THEN NoDoc ELSE index[e]]
    BY <1>11 DEF DeleteDerived
  <2>2. /\ deleting[s].phase = "unlinked"
        /\ UNCHANGED <<life, revision, tags, row, dropped, body, tagging>>
    BY <1>11 DEF DeleteDerived
  <2>3. \A e \in deleting[s].ids : life[e] # "live"
    BY <2>2, <1>a DEF FileFacts, FileFactsOf
  <2>4. \A e \in Entities : life[e] = "live" => index'[e] = index[e]  BY <2>1, <2>3
  <2>5. Keep  BY <2>2, <2>4, <1>c
  <2> QED BY <2>2, <2>5, <1>a DEF TagCover
<1>12. CASE DeleteCrash(s)
  <2>1. UNCHANGED <<life, revision, tags, row, dropped, index, body, tagging>>
    BY <1>12 DEF DeleteCrash
  <2>2. Keep  BY <2>1, <1>c
  <2> QED BY <2>1, <2>2, <1>a DEF TagCover
<1> QED BY <1>1, <1>2, <1>3, <1>4, <1>5, <1>6, <1>7, <1>8, <1>9, <1>10,
           <1>11, <1>12 DEF Writer

LEMMA WriterSafe ==
  ASSUME SafeInv, Exclusive, NEW s \in Sources, Writer(s)
  PROVE  (TagCover /\ SettledFresh)'
BY WriterKeeps DEF SafeInv, SettledFresh

LEMMA DrainerSolo ==
  ASSUME SafeInv, Exclusive, NEW d \in Drainers, Drainer(d)
  PROVE  /\ OpsIdle /\ OpsIdle'
         /\ \A f \in Drainers \ {d} : pc[f] = "idle" /\ pc'[f] = "idle"
         /\ Solo'
<1> USE DEF SafeInv
<1>1. UNCHANGED <<tx, deleting, tagging>>  BY DrainerFrame DEF canon, ops
<1>2. (MayDrain /\ pc[d] = "idle") \/ pc[d] # "idle"
  BY DEF Drainer, Proceed, SyncStart, ReindexDrop, ReindexRead, ReindexEnqueue,
       ReindexClaim, Take, Load, StoreWrite, MarkIndexed, MarkFailed, Finish, Crash
<1>3. OpsIdle  BY <1>2 DEF MayDrain, Solo, DrainsIdle
<1>4. OpsIdle'  BY <1>1, <1>3 DEF OpsIdle
<1>5. \A f \in Drainers \ {d} : pc[f] = "idle"
  BY <1>2 DEF MayDrain, Solo, DrainsIdle
<1>6. \A f \in Drainers \ {d} : pc'[f] = pc[f]
  BY DEF Drainer, Proceed, SyncStart, ReindexDrop, ReindexRead, ReindexEnqueue,
       ReindexClaim, Take, Load, StoreWrite, MarkIndexed, MarkFailed, Finish, Crash,
       Release, TypeOK
<1> QED BY <1>3, <1>4, <1>5, <1>6 DEF Solo

(* Steps that leave queue and store alone, or only put rows back to pending. *)
LEMMA DrainerSafe ==
  ASSUME SafeInv, Exclusive, NEW d \in Drainers, Drainer(d)
  PROVE  (Held /\ SettledFresh)'
<1> USE EntityFacts DEF queue, work
<1>a. /\ TypeOK /\ FileFacts /\ Held /\ SettledFresh
      /\ UNCHANGED <<source, life, revision, body, tags>>
  BY DrainerFrame DEF SafeInv, canon, ops
<1>b. \A e \in Entities : Content(e)' = Content(e)  BY <1>a, ContentFrame
<1>c. \A f \in Drainers \ {d} : pc'[f] = "idle"  BY DrainerSolo
<1>d. \A r \in RowIds : r[1] \in Entities  BY DEF RowIds
<1>e. pc[d] \in {"loading", "loaded", "written"} =>
        cur[d] \in RowIds /\ cur[d][1] \in Entities /\ life[cur[d][1]] = "live"
  BY <1>a, <1>d DEF TypeOK, Held
(* Held' when d holds nothing. *)
<1>f. ASSUME pc'[d] \notin {"loading", "loaded", "written"}  PROVE Held'
  BY <1>c, <1>f DEF Held
(* SettledFresh' when the step settles nothing stale. *)
<1>g. ASSUME \A e \in Entities : life[e] = "live" /\ row'[e] \notin {"pending", "failed"}
                                   /\ e \notin dropped' =>
               \/ index'[e] = Content(e)
               \/ /\ row[e] \notin {"pending", "failed"} /\ e \notin dropped
                  /\ index'[e] = index[e]
      PROVE  SettledFresh'
  <2>1. ASSUME NEW e \in Entities, Settled(e)'  PROVE index'[e] = Content(e)'
    <3>1. life[e] = "live" /\ row'[e] \notin {"pending", "failed"} /\ e \notin dropped'
          /\ ~FileAhead(e)
      BY <1>a, <2>1 DEF Settled, FileAhead
    <3> QED BY <1>a, <1>b, <1>g, <3>1 DEF Settled, SettledFresh
  <2> QED BY <2>1 DEF SettledFresh
<1>1. CASE SyncStart(d)
  <2>1. pc'[d] = "ready" /\ UNCHANGED <<row, index, dropped>>
    BY <1>1, <1>a DEF SyncStart, TypeOK
  <2> QED BY <2>1, <1>f, <1>g
<1>2. CASE ReindexDrop(d)
  <2>1. PICK target \in {Sources, Chunks, Entities} :
          /\ index' = [e \in Entities |-> IF e \in target THEN NoDoc ELSE index[e]]
          /\ dropped' = dropped \cup target
    BY <1>2 DEF ReindexDrop
  <2>2. pc'[d] = "dropped" /\ UNCHANGED row
    BY <1>2, <1>a DEF ReindexDrop, TypeOK
  <2> QED BY <2>1, <2>2, <1>f, <1>g
<1>3. CASE ReindexRead(d)
  <2>1. pc'[d] = "listed" /\ UNCHANGED <<row, index, dropped>>
    BY <1>3, <1>a DEF ReindexRead, TypeOK
  <2> QED BY <2>1, <1>f, <1>g
<1>4. CASE ReindexEnqueue(d)
  <2>1. Requeue({}, {r[1] : r \in todo[d]}) /\ UNCHANGED index
    BY <1>4 DEF ReindexEnqueue
  <2>2. pc'[d] = "enqueued"  BY <1>4, <1>a DEF ReindexEnqueue, TypeOK
  <2>3. \A e \in Entities : row'[e] = "pending"
          \/ (row'[e] = row[e] /\ (e \in dropped' <=> e \in dropped))
    BY <2>1 DEF Requeue
  <2> QED BY <2>1, <2>2, <2>3, <1>f, <1>g
<1>5. CASE ReindexClaim(d)
  <2>1. pc'[d] = "ready" /\ UNCHANGED <<row, index, dropped>>
    BY <1>5, <1>a DEF ReindexClaim, TypeOK
  <2> QED BY <2>1, <1>f, <1>g
<1>6. CASE Take(d)
  <2>1. PICK r \in todo[d] :
       \/ /\ life[r[1]] = "live"
          /\ cur' = [cur EXCEPT ![d] = r]
          /\ copy' = [copy EXCEPT ![d] =
                        [NoDoc EXCEPT !.revision = Content(r[1]).revision]]
          /\ pc' = [pc EXCEPT ![d] = "loading"]
          /\ UNCHANGED queue
       \/ /\ life[r[1]] # "live"
          /\ SetRow(r, "none")
          /\ UNCHANGED <<pc, cur, copy>>
    BY <1>6 DEF Take
  <2>2. r \in RowIds /\ r[1] \in Entities  BY <1>a, <1>d DEF TypeOK
  <2>3. UNCHANGED <<index, dropped>> /\ pc[d] = "ready"  BY <1>6 DEF Take
  <2>4. CASE life[r[1]] = "live"
    <3>1. SettledFresh'  BY <2>1, <2>3, <2>4, <1>g
    <3>2. /\ pc'[d] = "loading" /\ cur'[d] = r
          /\ copy'[d] = [NoDoc EXCEPT !.revision = Content(r[1]).revision]
      BY <2>1, <2>4, <1>a DEF TypeOK
    <3>3. copy'[d].revision = Content(r[1])'.revision
      BY <3>2, <2>2, <1>b DEF NoDoc
    <3>4. Held'  BY <3>2, <3>3, <2>4, <1>a, <1>c DEF Held
    <3> QED BY <3>1, <3>4
  <2>5. CASE life[r[1]] # "live"
    <3>1. SetRow(r, "none") /\ pc' = pc  BY <2>1, <2>5
    <3>2. \A e \in Entities : life[e] = "live" => row'[e] = row[e]
      BY <3>1, <2>2, <2>5, <1>a DEF SetRow, TypeOK
    <3> QED BY <3>1, <3>2, <2>3, <1>f, <1>g
  <2> QED BY <2>4, <2>5
<1>7. CASE Load(d)
  <2>1. ~FileGone(cur[d][1])
    BY <1>7, <1>a, <1>e DEF Load, FileGone, FileFacts, FileFactsOf
  <2>2. /\ copy' = [copy EXCEPT ![d] =
                      [Content(cur[d][1]) EXCEPT !.revision = copy[d].revision]]
        /\ pc' = [pc EXCEPT ![d] = "loaded"] /\ pc[d] = "loading"
        /\ UNCHANGED <<row, index, dropped, cur>>
    BY <1>7, <2>1 DEF Load
  <2>3. SettledFresh'  BY <2>2, <1>g
  <2>4. copy[d].revision = Content(cur[d][1]).revision  BY <2>2, <1>a DEF Held
  <2>5. copy'[d] = [Content(cur[d][1]) EXCEPT !.revision = copy[d].revision]
    BY <2>2, <1>a DEF TypeOK
  <2>6. copy'[d] = Content(cur[d][1])  BY <2>4, <2>5 DEF Content
  <2>7. pc'[d] = "loaded"  BY <2>2, <1>a DEF TypeOK
  <2>8. Held'  BY <2>2, <2>6, <2>7, <1>a, <1>b, <1>c, <1>e DEF Held
  <2> QED BY <2>3, <2>8
<1>8. CASE StoreWrite(d)
  <2>1. /\ index' = [index EXCEPT ![cur[d][1]] = copy[d]]
        /\ dropped' = dropped \ {cur[d][1]}
        /\ pc' = [pc EXCEPT ![d] = "written"] /\ pc[d] = "loaded"
        /\ UNCHANGED <<row, cur, copy>>
    BY <1>8 DEF StoreWrite
  <2>2. copy[d] = Content(cur[d][1])  BY <2>1, <1>a DEF Held
  <2>3. index'[cur[d][1]] = Content(cur[d][1])
        /\ \A e \in Entities : e # cur[d][1] => index'[e] = index[e]
    BY <2>1, <2>2, <1>a, <1>e DEF TypeOK
  <2>4. SettledFresh'  BY <2>1, <2>3, <1>g
  <2>5. pc'[d] = "written"  BY <2>1, <1>a DEF TypeOK
  <2>6. Held'  BY <2>1, <2>3, <2>5, <1>a, <1>b, <1>c, <1>e DEF Held
  <2> QED BY <2>4, <2>6
<1>9. CASE MarkIndexed(d)
  <2>1. SetRow(cur[d], "indexed") /\ UNCHANGED <<index, dropped>> /\ pc[d] = "written"
    BY <1>9 DEF MarkIndexed
  <2>2. index[cur[d][1]] = Content(cur[d][1])  BY <2>1, <1>a DEF Held
  <2>3. \A e \in Entities : e # cur[d][1] => row'[e] = row[e]
    BY <2>1, <1>a, <1>e DEF SetRow, TypeOK
  <2>4. SettledFresh'  BY <2>1, <2>2, <2>3, <1>g
  <2>5. pc'[d] = "ready"  BY <1>9, <1>a DEF MarkIndexed, Release, TypeOK
  <2> QED BY <2>4, <2>5, <1>f
<1>10. CASE MarkFailed(d)
  <2>1. /\ SetRow(cur[d], "failed") /\ UNCHANGED dropped
        /\ pc[d] \in {"loading", "loaded"}
        /\ UNCHANGED index \/ (pc[d] = "loaded"
                               /\ index' = [index EXCEPT ![cur[d][1]] = copy[d]])
    BY <1>10 DEF MarkFailed
  <2>2. pc[d] = "loaded" => copy[d] = Content(cur[d][1])  BY <1>a DEF Held
  <2>3. \A e \in Entities : row'[e] = row[e] \/ row'[e] = "failed"
    BY <2>1, <1>a, <1>e DEF SetRow, TypeOK
  <2>4. \A e \in Entities : index'[e] = index[e] \/ index'[e] = Content(e)
    BY <2>1, <2>2, <1>a, <1>e DEF TypeOK
  <2>5. SettledFresh'  BY <2>1, <2>3, <2>4, <1>g
  <2>6. pc'[d] = "ready"  BY <1>10, <1>a DEF MarkFailed, Release, TypeOK
  <2> QED BY <2>5, <2>6, <1>f
<1>11. CASE Finish(d)
  <2>1. pc'[d] = "idle" /\ UNCHANGED <<row, index, dropped>>
    BY <1>11, <1>a DEF Finish, TypeOK
  <2> QED BY <2>1, <1>f, <1>g
<1>12. CASE Crash(d)
  <2>1. pc'[d] = "idle" /\ UNCHANGED <<row, index, dropped>>
    BY <1>12, <1>a DEF Crash, TypeOK
  <2> QED BY <2>1, <1>f, <1>g
<1> QED BY <1>1, <1>2, <1>3, <1>4, <1>5, <1>6, <1>7, <1>8, <1>9, <1>10,
           <1>11, <1>12 DEF Drainer, Proceed

LEMMA InitSafe == Init => SafeInv
<1> SUFFICES ASSUME Init PROVE SafeInv  OBVIOUS
<1>1. TypeOK /\ FileFacts  BY InitType, InitFiles
<1>2. Solo /\ Held /\ TagCover /\ SettledFresh
  BY EntityFacts
  DEF Init, Solo, DrainsIdle, Held, TagCover, SettledFresh, Settled
<1> QED BY <1>1, <1>2 DEF SafeInv

LEMMA StepSafe == SafeInv /\ [Next]_vars => SafeInv'
<1> SUFFICES ASSUME SafeInv, [Next]_vars PROVE SafeInv'  OBVIOUS
<1>0. TypeOK /\ FileFacts  BY DEF SafeInv
<1>1. ASSUME NEW s \in Sources, Writer(s)  PROVE SafeInv'
  <2>1. TypeOK' /\ FileFacts'  BY <1>0, <1>1, WriterType, WriterFiles
  <2>2. ASSUME Exclusive  PROVE (Solo /\ Held /\ TagCover /\ SettledFresh)'
    <3>1. UNCHANGED work /\ DrainsIdle
      BY <1>0, <1>1, <2>2, WriterFrame DEF SafeInv
    <3>2. (Solo /\ Held)'  BY <3>1 DEF work, DrainsIdle, Solo, Held
    <3> QED BY <1>1, <2>2, <3>2, WriterSafe
  <2> QED BY <2>1, <2>2 DEF SafeInv
<1>2. ASSUME NEW d \in Drainers, Drainer(d)  PROVE SafeInv'
  <2>1. TypeOK'  BY <1>0, <1>2, DrainerType
  <2>2. FileFacts'
    BY <1>0, <1>2, DrainerFrame DEF FileFacts, FileFactsOf, canon, ops
  <2>3. ASSUME Exclusive  PROVE (Solo /\ Held /\ TagCover /\ SettledFresh)'
    <3>1. Solo' /\ OpsIdle'  BY <1>2, <2>3, DrainerSolo
    <3>2. TagCover'  BY <3>1 DEF OpsIdle, TagCover
    <3> QED BY <1>2, <2>3, <3>1, <3>2, DrainerSafe
  <2> QED BY <2>1, <2>2, <2>3 DEF SafeInv
<1>3. CASE UNCHANGED vars
  <2>1. TypeOK' /\ FileFacts'
    BY <1>0, <1>3, StutterType
    DEF vars, canon, queue, ops, work, FileFacts, FileFactsOf
  <2>2. Exclusive => (Solo /\ Held /\ TagCover /\ SettledFresh)'
    BY <1>3 DEF SafeInv, vars, canon, queue, ops, work, Solo, DrainsIdle, OpsIdle,
      Held, Content, TagCover, SettledFresh, Settled, FileAhead
  <2> QED BY <2>1, <2>2 DEF SafeInv
<1> QED BY <1>1, <1>2, <1>3 DEF Next

(* No silent loss: for any number of sources, chunks and drainers and with
   every fault, if drains overlap nothing else then an entity the queue calls
   settled is served in its current version. *)
THEOREM SilentLossFree == Spec => []NoSilentLoss
<1>1. SafeInv => NoSilentLoss  BY DEF SafeInv, NoSilentLoss
<1> QED BY <1>1, InitSafe, StepSafe, PTL DEF Spec

-----------------------------------------------------------------------------
(* The queue knows what is live.                                           *)

QueueInv == TypeOK /\ FileFacts /\ LiveIsQueued

(* What is dead is not born again: the page of a source only dies with it, and
   an ingest only allocates chunk ids that were never used. *)
Births ==
  /\ \A s \in Sources : life[s] = "dead" => source[s] = "deleted"
  /\ \A s \in Sources : \A c \in tx[s].new : life[c] = "unborn"

GoneInv == TypeOK /\ FileFacts /\ Births

(* How far a reindex is with an entity it covers: one that is not live is out
   of the store; one that is live is listed, then pending, then claimed, then
   in hand, and then restored or failed. *)
InHand(d, e) == cur[d] = <<e, gen[e]>>
Restoring(d, e) ==
  IF life[e] # "live" THEN ~index[e].there
  ELSE /\ pc[d] = "listed" => <<e, gen[e]>> \in todo[d]
       /\ pc[d] = "enqueued" => row[e] = "pending"
       /\ pc[d] \in {"ready", "loading", "loaded", "written"} =>
            \/ row[e] = "failed" \/ index[e] = Content(e)
            \/ row[e] = "pending" /\ <<e, gen[e]>> \in todo[d]
            \/ InHand(d, e)

Rebuilding == \A d \in Drainers :
  /\ pc[d] = "idle" => scope[d] = {}
  /\ \A e \in scope[d] : Restoring(d, e)

RebuildInv == SafeInv /\ LiveIsQueued /\ (Exclusive => Rebuilding)

(* Row ids that a drainer has are of entities. *)
LEMMA RowOf ==
  ASSUME TypeOK, NEW d \in Drainers
  PROVE  /\ \A r \in todo[d] : r \in RowIds /\ r[1] \in Entities /\ r # NoRow
         /\ pc[d] \in {"loading", "loaded", "written"} =>
              cur[d] \in RowIds /\ cur[d][1] \in Entities
<1>1. ASSUME NEW r \in RowIds PROVE r # NoRow /\ r[1] \in Entities
  BY EntityFacts DEF RowIds, NoRow
<1> QED BY <1>1 DEF TypeOK

(* Only a commit and a delete change lives. *)
LEMMA LifeFrame ==
  ASSUME NEW s \in Sources, Writer(s), ~Commit(s), ~DeleteCommit(s)
  PROVE  UNCHANGED life
BY DEF Writer, IngestWrite, PageWrite, Abort, TagBegin, TagCommit,
       TagAbort, DeleteRead, DeleteUnlink, DeleteDerived, DeleteCrash, canon

LEMMA WriterQueued ==
  ASSUME QueueInv, NEW s \in Sources, Writer(s)
  PROVE  LiveIsQueued'
<1> USE EntityFacts DEF QueueInv, LiveIsQueued
<1>1. CASE Commit(s)
  <2>1. /\ life' = [e \in Entities |-> IF e \in Written(s) THEN "live"
                                       ELSE IF e \in Replaced(s) THEN "dead" ELSE life[e]]
        /\ Requeue(Replaced(s), Written(s))
    BY <1>1 DEF Commit
  <2> QED BY <2>1 DEF Requeue
<1>2. CASE DeleteCommit(s)
  <2>1. CASE UNCHANGED <<life, row>>
    BY <2>1
  <2>2. CASE /\ life' = [e \in Entities |-> IF e \in Live({s} \cup ChunksOf(s))
                                            THEN "dead" ELSE life[e]]
             /\ Requeue(deleting[s].ids, {})
    <3>1. deleting[s].ids \subseteq {s} \cup ChunksOf(s)
      BY DEF FileFacts, FileFactsOf
    <3>2. \A e \in Entities : life'[e] = "live" => life[e] = "live" /\ e \notin deleting[s].ids
      BY <2>2, <3>1 DEF Live
    <3> QED BY <2>2, <3>2 DEF Requeue
  <2> QED BY <1>2, <2>1, <2>2 DEF DeleteCommit, queue
<1>3. CASE TagCommit(s)
  <2>1. Requeue({}, {s} \cup tagging[s].ids) /\ UNCHANGED life
    BY <1>3 DEF TagCommit
  <2> QED BY <2>1 DEF Requeue
<1>4. CASE ~Commit(s) /\ ~DeleteCommit(s) /\ ~TagCommit(s)
  <2>1. UNCHANGED <<life, row>>
    BY <1>4, LifeFrame DEF Writer, IngestWrite, PageWrite, Abort, TagBegin,
       TagAbort, DeleteRead, DeleteUnlink, DeleteDerived, DeleteCrash, queue
  <2> QED BY <2>1
<1> QED BY <1>1, <1>2, <1>3, <1>4

(* A drain drops the row of what is not live: a page that is live has a file. *)
LEMMA DrainerQueued ==
  ASSUME QueueInv, NEW d \in Drainers, Drainer(d)
  PROVE  LiveIsQueued'
<1> USE DEF QueueInv, LiveIsQueued
<1>0. UNCHANGED life  BY DrainerFrame DEF canon
<1>a. ASSUME NEW r \in RowIds, NEW state, SetRow(r, state),
             state = "none" => life[r[1]] # "live"
      PROVE  LiveIsQueued'
  <2>1. r[1] \in Entities  BY DEF RowIds
  <2> QED BY <1>0, <1>a, <2>1 DEF SetRow, TypeOK
<1>1. CASE ReindexEnqueue(d)
  BY <1>0, <1>1 DEF ReindexEnqueue, Requeue
<1>2. CASE Take(d)
  BY <1>0, <1>a, <1>2, RowOf DEF Take, queue
<1>3. CASE Load(d)
  <2>1. cur[d] \in RowIds /\ cur[d][1] \in Entities
    BY <1>3, RowOf DEF Load
  <2>2. FileGone(cur[d][1]) => life[cur[d][1]] # "live"
    BY <2>1 DEF FileGone, FileFacts, FileFactsOf
  <2> QED BY <1>0, <1>a, <1>3, <2>1, <2>2 DEF Load, queue
<1>4. CASE MarkIndexed(d)
  BY <1>a, <1>4, RowOf DEF MarkIndexed
<1>5. CASE MarkFailed(d)
  BY <1>a, <1>5, RowOf DEF MarkFailed
<1>6. CASE ~ReindexEnqueue(d) /\ ~Take(d) /\ ~Load(d) /\ ~MarkIndexed(d) /\ ~MarkFailed(d)
  <2>1. UNCHANGED row
    BY <1>6 DEF Drainer, Proceed, SyncStart, ReindexDrop, ReindexRead, ReindexClaim,
                StoreWrite, Finish, Crash, queue
  <2> QED BY <1>0, <2>1
<1> QED BY <1>1, <1>2, <1>3, <1>4, <1>5, <1>6

(* Types and files, for every step. *)
LEMMA FilesStep == TypeOK /\ FileFacts /\ [Next]_vars => TypeOK' /\ FileFacts'
<1> SUFFICES ASSUME TypeOK, FileFacts, [Next]_vars PROVE TypeOK' /\ FileFacts'
  OBVIOUS
<1>1. ASSUME NEW s \in Sources, Writer(s) PROVE TypeOK' /\ FileFacts'
  BY <1>1, WriterType, WriterFiles
<1>2. ASSUME NEW d \in Drainers, Drainer(d) PROVE TypeOK' /\ FileFacts'
  BY <1>2, DrainerType, DrainerFrame DEF FileFacts, FileFactsOf, canon, ops
<1>3. CASE UNCHANGED vars
  BY <1>3, StutterType DEF vars, canon, ops, FileFacts, FileFactsOf
<1> QED BY <1>1, <1>2, <1>3 DEF Next

LEMMA QueueStep == QueueInv /\ [Next]_vars => QueueInv'
<1> SUFFICES ASSUME QueueInv, [Next]_vars PROVE QueueInv'
  OBVIOUS
<1>1. TypeOK' /\ FileFacts'
  BY FilesStep DEF QueueInv
<1>2. UNCHANGED vars => LiveIsQueued'
  BY DEF vars, canon, queue, QueueInv, LiveIsQueued
<1>3. LiveIsQueued'
  BY <1>2, WriterQueued, DrainerQueued DEF Next
<1> QED BY <1>1, <1>3 DEF QueueInv

LEMMA QueueInit == Init => QueueInv
  BY InitType, InitFiles DEF QueueInv, LiveIsQueued, Init

(* Every live entity has a sync row, whatever overlaps: re-ingest and delete
   dequeue before they enqueue, and a drain's skips (index/sync.py) only drop
   the row of an entity that is gone. *)
THEOREM LiveQueued == Spec => []LiveIsQueued
<1>1. QueueInv => LiveIsQueued
  BY DEF QueueInv
<1> QED BY <1>1, QueueInit, QueueStep, PTL DEF Spec

-----------------------------------------------------------------------------
(* What has gone stays gone.                                               *)

LEMMA WriterBirths ==
  ASSUME GoneInv, NEW s \in Sources, Writer(s)
  PROVE  /\ Births'
         /\ \A e \in Entities : life[e] = "dead" => life'[e] = "dead"
<1> USE EntityFacts DEF GoneInv, Births
<1>0. \A t \in Sources : tx[t].new \subseteq ChunksOf(t)
  BY DEF TypeOK
<1>1. CASE Commit(s)
  <2>1. /\ life' = [e \in Entities |-> IF e \in Written(s) THEN "live"
                                       ELSE IF e \in Replaced(s) THEN "dead" ELSE life[e]]
        /\ tx[s] # NoTx /\ source' = [source EXCEPT ![s] = "stored"]
        /\ tx' = [tx EXCEPT ![s] = NoTx]
    BY <1>1 DEF Commit
  <2>2. source[s] # "deleted"
    BY <2>1 DEF FileFacts, FileFactsOf
  <2>3. \A e \in Written(s) : life[e] # "dead"
    BY <2>2 DEF Written
  <2>4. Replaced(s) \subseteq ChunksOf(s) /\ Written(s) \subseteq {s} \cup ChunksOf(s)
    BY <1>0 DEF Replaced, Live, Written
  <2>5. \A t \in Sources : life'[t] = "dead" => life[t] = "dead" /\ source'[t] = source[t]
    BY <2>1, <2>2, <2>4 DEF TypeOK
  <2>6. \A t \in Sources, c \in Chunks : c \in tx'[t].new =>
          t # s /\ c \in tx[t].new /\ life'[c] = life[c]
    <3> SUFFICES ASSUME NEW t \in Sources, NEW c \in Chunks, c \in tx'[t].new
                 PROVE  t # s /\ c \in tx[t].new /\ life'[c] = life[c]
      OBVIOUS
    <3>1. t # s /\ c \in tx[t].new
      BY <2>1 DEF NoTx, TypeOK
    <3>2. c \notin {s} \cup ChunksOf(s)
      BY <1>0, <3>1
    <3> QED BY <2>1, <2>4, <3>1, <3>2
  <2>7. \A t \in Sources : tx'[t].new \subseteq Chunks
    BY <1>0, <2>1 DEF NoTx, TypeOK
  <2> QED BY <2>1, <2>3, <2>5, <2>6, <2>7
<1>2. CASE DeleteCommit(s)
  <2>1. CASE UNCHANGED <<life, source, tx>>
    BY <2>1
  <2>2. CASE /\ life' = [e \in Entities |-> IF e \in Live({s} \cup ChunksOf(s))
                                            THEN "dead" ELSE life[e]]
             /\ source' = [source EXCEPT ![s] = "deleted"] /\ UNCHANGED tx
    <3>1. \A t \in Sources : life'[t] = "dead" => life[t] = "dead" \/ t = s
      BY <2>2 DEF Live
    <3>2. \A t \in Sources : source'[t] = IF t = s THEN "deleted" ELSE source[t]
      BY <2>2 DEF TypeOK
    <3>3. \A e \in Entities : life[e] = "unborn" => life'[e] = "unborn"
      BY <2>2 DEF Live
    <3>4. \A t \in Sources : life'[t] = "dead" => source'[t] = "deleted"
      BY <3>1, <3>2
    <3>5. \A t \in Sources : \A c \in tx'[t].new : life'[c] = "unborn"
      BY <1>0, <2>2, <3>3
    <3>6. \A e \in Entities : life[e] = "dead" => life'[e] = "dead"
      BY <2>2
    <3> QED BY <3>4, <3>5, <3>6
  <2> QED BY <1>2, <2>1, <2>2 DEF DeleteCommit
<1>3. CASE ~Commit(s) /\ ~DeleteCommit(s)
  <2>1. UNCHANGED life /\ UNCHANGED source
    BY <1>3, LifeFrame DEF Writer, IngestWrite, PageWrite, Abort, TagBegin, TagCommit,
       TagAbort, DeleteRead, DeleteUnlink, DeleteDerived, DeleteCrash, canon
  <2>2. ASSUME NEW t \in Sources, NEW c \in tx'[t].new PROVE life[c] = "unborn"
    <3>1. CASE IngestWrite(s)
      BY <2>2, <3>1 DEF IngestWrite, TypeOK
    <3>2. CASE PageWrite(s)
      BY <2>2, <3>2 DEF PageWrite, TypeOK
    <3>3. CASE Abort(s)
      BY <2>2, <3>3 DEF Abort, NoTx, TypeOK
    <3>4. CASE UNCHANGED tx
      BY <2>2, <3>4
    <3> QED BY <1>3, <3>1, <3>2, <3>3, <3>4
            DEF Writer, TagBegin, TagCommit, TagAbort, DeleteRead, DeleteUnlink,
                DeleteDerived, DeleteCrash
  <2> QED BY <2>1, <2>2
<1> QED BY <1>1, <1>2, <1>3

LEMMA GoneStep == GoneInv /\ [Next]_vars => GoneInv'
<1> SUFFICES ASSUME GoneInv, [Next]_vars PROVE GoneInv'
  OBVIOUS
<1>1. TypeOK' /\ FileFacts'
  BY FilesStep DEF GoneInv
<1>2. ASSUME NEW d \in Drainers, Drainer(d) PROVE Births'
  BY <1>2, DrainerFrame DEF canon, ops, GoneInv, Births
<1>3. UNCHANGED vars => Births'
  BY DEF vars, canon, ops, GoneInv, Births
<1>4. Births'
  BY <1>2, <1>3, WriterBirths DEF Next
<1> QED BY <1>1, <1>4 DEF GoneInv

LEMMA GoneInit == Init => GoneInv
<1>1. Init => Births
  BY EntityFacts DEF Init, Births, NoTx
<1> QED BY <1>1, InitType, InitFiles DEF GoneInv

(* An entity that is dead, out of the store and in no drainer's hand stays so:
   a drainer takes only what is live, and only writes what it has in hand. *)
THEOREM GoneForGood == Spec => GoneStaysGone
<1> DEFINE Stays == \A e \in Entities : Gone(e) => Gone(e)'
<1>1. GoneInv /\ [Next]_vars => [Stays]_vars
  <2> SUFFICES ASSUME GoneInv, Next, NEW e \in Entities, Gone(e)
               PROVE  Gone(e)'
    OBVIOUS
  <2>0. TypeOK /\ life[e] = "dead" /\ ~index[e].there
        /\ \A d \in Drainers : cur[d] # NoRow => cur[d][1] # e
    BY DEF GoneInv, Gone
  <2>1. ASSUME NEW s \in Sources, Writer(s) PROVE Gone(e)'
    <3>1. life'[e] = "dead"
      BY <2>0, <2>1, WriterBirths
    <3>2. UNCHANGED cur
      BY <2>1, WriterFrame DEF work
    <3>3. index'[e] = index[e] \/ index'[e] = NoDoc
      BY <2>1 DEF Writer, IngestWrite, PageWrite, Commit, Abort, TagBegin, TagCommit,
         TagAbort, DeleteRead, DeleteCommit, DeleteUnlink, DeleteDerived, DeleteCrash
    <3> QED BY <2>0, <3>1, <3>2, <3>3 DEF Gone, NoDoc
  <2>2. ASSUME NEW d \in Drainers, Drainer(d) PROVE Gone(e)'
    <3>1. UNCHANGED life
      BY <2>2, DrainerFrame DEF canon
    <3>2. pc[d] \in {"loading", "loaded", "written"} => cur[d][1] # e
      BY <2>0 DEF TypeOK
    <3>3. index'[e] = index[e] \/ index'[e] = NoDoc
      <4>1. CASE StoreWrite(d)
        BY <2>0, <3>2, <4>1 DEF StoreWrite, TypeOK
      <4>2. CASE MarkFailed(d)
        BY <2>0, <3>2, <4>2 DEF MarkFailed, TypeOK
      <4>3. CASE ~StoreWrite(d) /\ ~MarkFailed(d)
        BY <2>2, <4>3 DEF Drainer, Proceed, SyncStart, ReindexDrop, ReindexRead,
           ReindexEnqueue, ReindexClaim, Take, Load, MarkIndexed, Finish, Crash
      <4> QED BY <4>1, <4>2, <4>3
    <3>4. \A f \in Drainers : cur'[f] # NoRow => cur'[f][1] # e
      <4>1. CASE Take(d)
        <5>1. PICK r \in todo[d] :
                \/ life[r[1]] = "live" /\ cur' = [cur EXCEPT ![d] = r]
                \/ UNCHANGED cur
          BY <4>1 DEF Take
        <5> QED BY <2>0, <5>1 DEF TypeOK
      <4>2. CASE ~Take(d)
        <5>1. UNCHANGED cur \/ cur' = [cur EXCEPT ![d] = NoRow]
          BY <2>2, <4>2 DEF Drainer, Proceed, SyncStart, ReindexDrop, ReindexRead,
             ReindexEnqueue, ReindexClaim, Load, StoreWrite, MarkIndexed, MarkFailed, Finish,
             Crash, Release
        <5> QED BY <2>0, <5>1 DEF TypeOK
      <4> QED BY <4>1, <4>2
    <3> QED BY <2>0, <3>1, <3>3, <3>4 DEF Gone, NoDoc
  <2> QED BY <2>1, <2>2 DEF Next
<1> QED BY <1>1, GoneInit, GoneStep, PTL DEF Spec, GoneStaysGone

-----------------------------------------------------------------------------
(* A reindex restores.                                                     *)

(* A drainer without a row has no entity in hand. *)
LEMMA NotInHand ==
  ASSUME TypeOK, NEW d \in Drainers, cur[d] = NoRow, NEW e \in Entities
  PROVE  ~InHand(d, e)
<1>1. \A f \in Entities, n \in Nat : <<f, n>> # NoRow
  BY DEF NoRow
<1> QED BY <1>1 DEF TypeOK, InHand

LEMMA RebuildDrainer ==
  ASSUME SafeInv, LiveIsQueued, Exclusive, Rebuilding, NEW d \in Drainers, Drainer(d)
  PROVE  Rebuilding'
<1> USE EntityFacts DEF queue, work
<1>a. /\ TypeOK /\ FileFacts /\ Held /\ UNCHANGED life /\ UNCHANGED <<revision, body, tags>>
  BY DrainerFrame DEF SafeInv, canon, ops
<1>b. \A e \in Entities : Content(e)' = Content(e)
  BY <1>a, ContentFrame
<1>c. \A f \in Drainers \ {d} : pc[f] = "idle" /\ pc'[f] = "idle" /\ scope'[f] = {}
  <2>1. \A f \in Drainers \ {d} : scope'[f] = scope[f]
    BY <1>a DEF Drainer, Proceed, SyncStart, ReindexDrop, ReindexRead, ReindexEnqueue,
       ReindexClaim, Take, Load, StoreWrite, MarkIndexed, MarkFailed, Finish, Crash,
       Release, TypeOK
  <2> QED BY <2>1, DrainerSolo DEF Rebuilding
(* It is enough to follow the drainer that moves. *)
<1>d. ASSUME \A e \in scope'[d] : Restoring(d, e)', pc'[d] = "idle" => scope'[d] = {}
      PROVE  Rebuilding'
  BY <1>c, <1>d DEF Rebuilding
<1>e. scope[d] \subseteq Entities /\ \A e \in scope[d] : Restoring(d, e)
  BY <1>a DEF Rebuilding, TypeOK
<1>f. pc[d] \in {"loading", "loaded", "written"} =>
        cur[d] \in RowIds /\ cur[d][1] \in Entities /\ life[cur[d][1]] = "live"
  BY <1>a, RowOf DEF Held
<1>g. pc[d] \notin {"loading", "loaded", "written"} => \A e \in Entities : ~InHand(d, e)
  BY <1>a, NotInHand DEF TypeOK
<1>h. \A e \in Entities : InHand(d, e) => cur[d][1] = e /\ cur[d][2] = gen[e]
  BY DEF InHand
<1>1. CASE SyncStart(d)
  <2>1. scope'[d] = {} /\ pc'[d] = "ready"
    BY <1>1, <1>a DEF SyncStart, Rebuilding, TypeOK
  <2> QED BY <2>1, <1>d
<1>2. CASE ReindexDrop(d)
  <2>1. PICK target \in {Sources, Chunks, Entities} :
          /\ index' = [e \in Entities |-> IF e \in target THEN NoDoc ELSE index[e]]
          /\ scope' = [scope EXCEPT ![d] = target]
    BY <1>2 DEF ReindexDrop
  <2>2. pc'[d] = "dropped" /\ scope'[d] = target /\ target \subseteq Entities
    BY <1>2, <2>1, <1>a DEF ReindexDrop, TypeOK
  <2>3. \A e \in target : ~index'[e].there
    BY <2>1, <2>2 DEF NoDoc
  <2> QED BY <2>2, <2>3, <1>d DEF Restoring
<1>3. CASE ReindexRead(d)
  <2>1. /\ pc'[d] = "listed" /\ UNCHANGED <<row, gen, index, scope>>
        /\ todo'[d] = {<<e, gen[e]>> : e \in Live(scope[d])}
    BY <1>3, <1>a DEF ReindexRead, TypeOK
  <2>2. \A e \in scope[d] : life[e] = "live" => <<e, gen[e]>> \in todo'[d]
    BY <2>1 DEF Live
  <2>3. \A e \in scope[d] : Restoring(d, e)'
    BY <2>1, <2>2, <1>a, <1>e DEF Restoring
  <2> QED BY <2>1, <2>3, <1>d
<1>4. CASE ReindexEnqueue(d)
  <2>1. /\ pc[d] = "listed" /\ pc'[d] = "enqueued" /\ UNCHANGED <<index, scope>>
        /\ Requeue({}, {r[1] : r \in todo[d]})
    BY <1>4, <1>a DEF ReindexEnqueue, TypeOK
  <2>2. \A e \in scope[d] : life[e] = "live" => row'[e] = "pending"
    <3> SUFFICES ASSUME NEW e \in scope[d], life[e] = "live" PROVE row'[e] = "pending"
      OBVIOUS
    <3>1. <<e, gen[e]>> \in todo[d]
      BY <2>1, <1>e DEF Restoring
    <3>2. e \in {r[1] : r \in todo[d]}
      <4>1. <<e, gen[e]>>[1] = e
        OBVIOUS
      <4> QED BY <3>1, <4>1
    <3> QED BY <2>1, <3>2, <1>e DEF Requeue
  <2> QED BY <2>1, <2>2, <1>a, <1>d, <1>e DEF Restoring
<1>5. CASE ReindexClaim(d)
  <2>1. /\ pc[d] = "enqueued" /\ pc'[d] = "ready" /\ UNCHANGED <<row, gen, index, scope>>
        /\ todo'[d] = Claimed(scope[d])
    BY <1>5, <1>a DEF ReindexClaim, TypeOK
  <2> QED BY <2>1, <1>a, <1>d, <1>e DEF Restoring, Claimed, Pending
<1>6. CASE Take(d)
  <2>1. PICK r \in todo[d] :
       /\ todo' = [todo EXCEPT ![d] = @ \ {r}]
       /\ \/ /\ life[r[1]] = "live"
             /\ cur' = [cur EXCEPT ![d] = r]
             /\ pc' = [pc EXCEPT ![d] = "loading"]
             /\ UNCHANGED queue
          \/ /\ life[r[1]] # "live"
             /\ SetRow(r, "none")
             /\ UNCHANGED <<pc, cur, copy>>
    BY <1>6 DEF Take
  <2>2. UNCHANGED <<index, scope>> /\ pc[d] = "ready" /\ r[1] \in Entities
    BY <1>6, <1>a, RowOf DEF Take
  <2>3. todo'[d] = todo[d] \ {r} /\ UNCHANGED gen
    BY <2>1, <1>a DEF TypeOK, SetRow
  <2>4. CASE life[r[1]] = "live"
    <3>1. cur'[d] = r /\ pc'[d] = "loading" /\ UNCHANGED row
      BY <2>1, <2>4, <1>a DEF TypeOK
    <3>2. ASSUME NEW e \in scope[d] PROVE Restoring(d, e)'
      <4>1. Restoring(d, e) /\ ~InHand(d, e) /\ Content(e)' = Content(e)
        BY <1>b, <1>e, <1>g, <2>2
      <4> QED BY <4>1, <1>a, <2>2, <2>3, <3>1 DEF Restoring, InHand
    <3> QED BY <1>d, <2>2, <3>1, <3>2
  <2>5. CASE life[r[1]] # "live"
    <3>1. pc' = pc /\ cur' = cur /\ \A e \in Entities : life[e] = "live" => row'[e] = row[e]
      BY <2>1, <2>2, <2>5, <1>a DEF SetRow, TypeOK
    <3>2. ASSUME NEW e \in scope[d] PROVE Restoring(d, e)'
      <4>1. Restoring(d, e) /\ ~InHand(d, e) /\ Content(e)' = Content(e) /\ e \in Entities
        BY <1>b, <1>e, <1>g, <2>2
      <4>2. life[e] = "live" => <<e, gen[e]>> # r
        <5>1. <<e, gen[e]>>[1] = e
          OBVIOUS
        <5> QED BY <2>5, <5>1
      <4> QED BY <4>1, <4>2, <1>a, <2>2, <2>3, <3>1 DEF Restoring, InHand
    <3> QED BY <1>d, <2>2, <3>1, <3>2
  <2> QED BY <2>4, <2>5
<1>7. CASE Load(d)
  <2>1. ~FileGone(cur[d][1])
    BY <1>7, <1>a, <1>f DEF Load, FileGone, FileFacts, FileFactsOf
  <2>2. /\ pc[d] = "loading" /\ pc'[d] = "loaded"
        /\ UNCHANGED <<row, gen, index, cur, todo, scope>>
    BY <1>7, <2>1, <1>a DEF Load, TypeOK
  <2> QED BY <2>2, <1>a, <1>b, <1>d, <1>e DEF Restoring, InHand
<1>8. CASE StoreWrite(d)
  <2>1. /\ index' = [index EXCEPT ![cur[d][1]] = copy[d]]
        /\ pc[d] = "loaded" /\ pc'[d] = "written"
        /\ UNCHANGED <<row, gen, cur, todo, scope>>
    BY <1>8, <1>a DEF StoreWrite, TypeOK
  <2>2. copy[d] = Content(cur[d][1])
    BY <2>1, <1>a DEF Held
  <2>3. index'[cur[d][1]] = Content(cur[d][1])
        /\ \A e \in Entities : e # cur[d][1] => index'[e] = index[e]
    BY <2>1, <2>2, <1>a, <1>f DEF TypeOK
  <2> QED BY <2>1, <2>3, <1>a, <1>b, <1>d, <1>e, <1>f DEF Restoring, InHand
<1>9. CASE MarkIndexed(d)
  <2>1. /\ SetRow(cur[d], "indexed") /\ UNCHANGED <<index, gen, todo, scope>>
        /\ pc[d] = "written" /\ pc'[d] = "ready"
    BY <1>9, <1>a DEF MarkIndexed, Release, TypeOK, SetRow
  <2>2. index[cur[d][1]] = Content(cur[d][1])
    BY <2>1, <1>a DEF Held
  <2>3. \A e \in Entities : e # cur[d][1] => row'[e] = row[e]
    BY <2>1, <1>a, <1>f DEF SetRow, TypeOK
  <2>4. ASSUME NEW e \in scope[d] PROVE Restoring(d, e)'
    <3>1. Restoring(d, e) /\ Content(e)' = Content(e) /\ e \in Entities
      BY <1>b, <1>e
    <3>2. CASE e = cur[d][1]
      BY <3>1, <3>2, <1>a, <1>f, <2>1, <2>2 DEF Restoring
    <3>3. CASE e # cur[d][1]
      BY <3>1, <3>3, <1>a, <1>h, <2>1, <2>3 DEF Restoring
    <3> QED BY <3>2, <3>3
  <2> QED BY <1>d, <2>1, <2>4
<1>10. CASE MarkFailed(d)
  <2>1. /\ SetRow(cur[d], "failed") /\ UNCHANGED <<gen, todo, scope>>
        /\ pc[d] \in {"loading", "loaded"} /\ pc'[d] = "ready"
        /\ UNCHANGED index \/ (pc[d] = "loaded"
                               /\ index' = [index EXCEPT ![cur[d][1]] = copy[d]])
    BY <1>10, <1>a DEF MarkFailed, Release, TypeOK, SetRow
  <2>2. pc[d] = "loaded" => copy[d] = Content(cur[d][1])
    BY <1>a DEF Held
  <2>3. \A e \in Entities : row'[e] = row[e] \/ row'[e] = "failed"
    BY <2>1, <1>a, <1>f DEF SetRow, TypeOK
  <2>4. \A e \in Entities : index'[e] = index[e] \/ (life[e] = "live" /\ index'[e] = Content(e))
    BY <2>1, <2>2, <1>a, <1>f DEF TypeOK
  <2>5. \A e \in Entities : InHand(d, e) => row'[e] = "failed"
    <3> SUFFICES ASSUME NEW e \in Entities, InHand(d, e) PROVE row'[e] = "failed"
      OBVIOUS
    <3>1. e = cur[d][1] /\ gen[e] = cur[d][2] /\ life[e] = "live"
      BY <2>1, <1>f, <1>h
    <3>2. row[e] # "none"
      BY <3>1 DEF LiveIsQueued
    <3> QED BY <2>1, <3>1, <3>2, <1>a DEF SetRow, TypeOK
  <2>6. ASSUME NEW e \in scope[d] PROVE Restoring(d, e)'
    <3>1. Restoring(d, e) /\ Content(e)' = Content(e) /\ e \in Entities
      BY <1>b, <1>e
    <3> QED BY <3>1, <1>a, <2>1, <2>3, <2>4, <2>5 DEF Restoring
  <2> QED BY <1>d, <2>1, <2>6
<1>11. CASE Finish(d) \/ Crash(d)
  <2>1. scope'[d] = {}
    BY <1>11, <1>a DEF Finish, Crash, TypeOK
  <2> QED BY <2>1, <1>d
<1> QED BY <1>1, <1>2, <1>3, <1>4, <1>5, <1>6, <1>7, <1>8, <1>9, <1>10,
           <1>11 DEF Drainer, Proceed

LEMMA RebuildStep == RebuildInv /\ [Next]_vars => RebuildInv'
<1> SUFFICES ASSUME RebuildInv, [Next]_vars PROVE RebuildInv'
  OBVIOUS
<1>0. SafeInv /\ LiveIsQueued /\ QueueInv
  BY DEF RebuildInv, SafeInv, QueueInv
<1>1. SafeInv' /\ LiveIsQueued'
  BY <1>0, StepSafe, QueueStep DEF QueueInv
<1>2. ASSUME Exclusive PROVE Rebuilding'
  <2>1. ASSUME NEW s \in Sources, Writer(s) PROVE Rebuilding'
    <3>1. UNCHANGED work /\ DrainsIdle
      BY <1>0, <1>2, <2>1, WriterFrame DEF SafeInv
    <3>2. \A d \in Drainers : pc[d] = "idle" /\ scope[d] = {}
      BY <1>2, <3>1 DEF RebuildInv, Rebuilding, DrainsIdle
    <3> QED BY <3>1, <3>2 DEF work, Rebuilding
  <2>2. CASE UNCHANGED vars
    BY <1>2, <2>2 DEF vars, canon, queue, ops, work, RebuildInv, Rebuilding, Restoring,
       InHand, Content
  <2> QED BY <1>0, <1>2, <2>1, <2>2, RebuildDrainer DEF RebuildInv, Next
<1> QED BY <1>1, <1>2 DEF RebuildInv

LEMMA RebuildInit == Init => RebuildInv
<1> SUFFICES ASSUME Init PROVE RebuildInv
  OBVIOUS
<1>1. SafeInv /\ LiveIsQueued
  BY InitSafe, QueueInit DEF QueueInv
<1>2. Rebuilding
  BY DEF Init, Rebuilding
<1> QED BY <1>1, <1>2 DEF RebuildInv

(* A reindex (index/sync.py) that finishes with nothing overlapping has put
   back each live entity it covers, unless its row says that it failed, and
   has left nothing else: for any number of entities and drainers, with every
   fault, whatever the store held before. *)
THEOREM ReindexComplete == Spec => ReindexRestores
<1> DEFINE Ends == \A d \in Drainers : Exclusive /\ Finish(d) => Restored(scope[d])
<1>1. RebuildInv => Ends
  <2> SUFFICES ASSUME RebuildInv, NEW d \in Drainers, Exclusive, Finish(d),
                      NEW e \in scope[d]
               PROVE  IF life[e] = "live" THEN row[e] = "failed" \/ index[e] = Content(e)
                      ELSE ~index[e].there
    BY DEF Restored
  <2>1. pc[d] = "ready" /\ todo[d] = {} /\ cur[d] = NoRow /\ Restoring(d, e)
    BY DEF RebuildInv, SafeInv, TypeOK, Rebuilding, Finish
  <2>2. ~InHand(d, e)
    BY <2>1, NotInHand DEF RebuildInv, SafeInv, TypeOK
  <2> QED BY <2>1, <2>2 DEF Restoring
<1>2. RebuildInv /\ [Next]_vars => [Ends]_vars
  BY <1>1
<1> QED BY <1>2, RebuildInit, RebuildStep, PTL DEF Spec, ReindexRestores

-----------------------------------------------------------------------------
(* A drain settles all it covers.                                          *)

(* Of what a drain covers, a pending row is one it has yet to take or holds. *)
Running == {"ready", "loading", "loaded", "written"}
Remains(d) == \A e \in Covers(d) : row[e] = "pending" =>
                <<e, gen[e]>> \in todo[d] \/ <<e, gen[e]>> = cur[d]
Settling == \A d \in Drainers :
  /\ pc[d] \in {"dropped", "listed", "enqueued"} => scope[d] # {}
  /\ pc[d] \in Running => Remains(d)

SettleInv == SafeInv /\ (Exclusive => Settling)

(* A claim that is settled or dropped is pending no more, and no other row has
   become pending. *)
LEMMA ClaimSpent ==
  ASSUME TypeOK, NEW r \in RowIds, NEW state \in {"none", "indexed", "failed"}, SetRow(r, state),
         NEW e \in Entities, row'[e] = "pending"
  PROVE  row[e] = "pending" /\ gen'[e] = gen[e] /\ <<e, gen[e]>> # r
BY DEF SetRow, RowIds, TypeOK

LEMMA SettleDrainer ==
  ASSUME SafeInv, Exclusive, Settling, Sources # {}, Chunks # {},
         NEW d \in Drainers, Drainer(d)
  PROVE  Settling'
<1> USE DEF queue, work
<1>a. TypeOK
  BY DEF SafeInv
<1>b. \A f \in Drainers \ {d} : pc'[f] = "idle"
  BY DrainerSolo
<1>c. /\ \A r \in todo[d] : r \in RowIds
      /\ pc[d] \in {"loading", "loaded", "written"} => cur[d] \in RowIds
      /\ pc[d] = "ready" => cur[d] = NoRow
      /\ Covers(d) \subseteq Entities
      /\ \A e \in Entities : <<e, gen[e]>> # NoRow
  BY <1>a, EntityFacts DEF TypeOK, Covers, NoRow
(* It is enough to follow the drainer that moves. *)
<1>d. ASSUME pc'[d] \in {"dropped", "listed", "enqueued"} => scope'[d] # {},
             pc'[d] \in Running => Remains(d)'
      PROVE  Settling'
  BY <1>b, <1>d DEF Settling, Running
<1>1. CASE SyncStart(d) \/ ReindexClaim(d)
  <2>1. PICK S \in SUBSET Entities :
          todo' = [todo EXCEPT ![d] = Claimed(S)] /\ Covers(d) \subseteq S
    BY <1>1, <1>a, <1>c DEF SyncStart, ReindexClaim, TypeOK, Settling, Covers
  <2>2. pc'[d] = "ready" /\ UNCHANGED <<row, gen, scope>> /\ todo'[d] = Claimed(S)
    BY <1>1, <1>a, <2>1 DEF SyncStart, ReindexClaim, TypeOK
  <2>3. Covers(d)' = Covers(d)
    BY <2>2 DEF Covers
  <2>4. \A e \in S : row[e] = "pending" => <<e, gen[e]>> \in Claimed(S)
    BY DEF Claimed, Pending
  <2> QED BY <1>d, <2>1, <2>2, <2>3, <2>4 DEF Remains
<1>2. CASE Take(d)
  <2>1. PICK r \in todo[d] :
       /\ todo' = [todo EXCEPT ![d] = @ \ {r}]
       /\ \/ /\ cur' = [cur EXCEPT ![d] = r]
             /\ pc' = [pc EXCEPT ![d] = "loading"]
             /\ UNCHANGED queue
          \/ /\ SetRow(r, "none")
             /\ UNCHANGED <<pc, cur, copy>>
    BY <1>2 DEF Take
  <2>2. /\ pc[d] = "ready" /\ pc'[d] \in {"ready", "loading"} /\ todo'[d] = todo[d] \ {r}
        /\ UNCHANGED scope /\ Remains(d) /\ cur[d] = NoRow
    BY <1>2, <1>a, <1>c, <2>1 DEF Take, TypeOK, Settling, Running
  <2>3. Covers(d)' = Covers(d)
    BY <2>2 DEF Covers
  <2>4. CASE cur' = [cur EXCEPT ![d] = r] /\ UNCHANGED queue
    <3>1. cur'[d] = r /\ UNCHANGED <<row, gen>>
      BY <1>a, <2>4 DEF TypeOK
    <3>2. Remains(d)'
      BY <1>c, <2>2, <2>3, <3>1 DEF Remains
    <3> QED BY <1>d, <2>2, <3>2
  <2>5. CASE SetRow(r, "none") /\ UNCHANGED <<pc, cur, copy>>
    <3>1. ASSUME NEW e \in Covers(d), row'[e] = "pending"
          PROVE  <<e, gen'[e]>> \in todo'[d]
      <4>1. row[e] = "pending" /\ gen'[e] = gen[e] /\ <<e, gen[e]>> # r
        BY <1>a, <1>c, <2>1, <2>5, <3>1, ClaimSpent
      <4> QED BY <1>c, <2>2, <3>1, <4>1 DEF Remains
    <3>2. Remains(d)'
      BY <2>3, <3>1 DEF Remains
    <3> QED BY <1>d, <2>2, <3>2
  <2> QED BY <2>1, <2>4, <2>5
<1>3. CASE StoreWrite(d) \/ (Load(d) /\ ~FileGone(cur[d][1]))
  <2>1. /\ UNCHANGED <<row, gen, cur, todo, scope>>
        /\ pc[d] \in Running /\ pc'[d] \in {"loaded", "written"}
    BY <1>3, <1>a DEF StoreWrite, Load, TypeOK, Running
  <2>2. Remains(d) /\ Covers(d)' = Covers(d)
    BY <2>1 DEF Settling, Covers
  <2>3. Remains(d)'
    BY <2>1, <2>2 DEF Remains
  <2> QED BY <1>d, <2>1, <2>3
<1>4. CASE MarkIndexed(d) \/ MarkFailed(d) \/ (Load(d) /\ FileGone(cur[d][1]))
  <2>1. PICK state \in {"none", "indexed", "failed"} : SetRow(cur[d], state)
    BY <1>4 DEF MarkIndexed, MarkFailed, Load
  <2>2. /\ pc[d] \in {"loading", "loaded", "written"} /\ pc'[d] = "ready"
        /\ UNCHANGED <<todo, scope>>
    BY <1>4, <1>a DEF MarkIndexed, MarkFailed, Load, Release, TypeOK
  <2>3. Remains(d) /\ Covers(d)' = Covers(d)
    BY <2>2 DEF Settling, Covers, Running
  <2>4. ASSUME NEW e \in Covers(d), row'[e] = "pending"
        PROVE  <<e, gen'[e]>> \in todo'[d]
    <3>1. row[e] = "pending" /\ gen'[e] = gen[e] /\ <<e, gen[e]>> # cur[d]
      BY <1>a, <1>c, <2>1, <2>2, <2>4, ClaimSpent
    <3> QED BY <2>2, <2>3, <2>4, <3>1 DEF Remains
  <2>5. Remains(d)'
    BY <2>3, <2>4 DEF Remains
  <2> QED BY <1>d, <2>2, <2>5
<1>5. CASE ReindexDrop(d)
  <2>1. pc'[d] = "dropped" /\ scope'[d] \in {Sources, Chunks, Entities}
    BY <1>5, <1>a DEF ReindexDrop, TypeOK
  <2> QED BY <1>d, <2>1, EntityFacts DEF Running
<1>6. CASE ReindexRead(d) \/ ReindexEnqueue(d)
  <2>1. /\ pc[d] \in {"dropped", "listed"} /\ pc'[d] \in {"listed", "enqueued"}
        /\ UNCHANGED scope
    BY <1>6, <1>a DEF ReindexRead, ReindexEnqueue, TypeOK
  <2> QED BY <1>d, <2>1 DEF Settling, Running
<1>7. CASE Finish(d) \/ Crash(d)
  <2>1. pc'[d] = "idle"
    BY <1>7, <1>a DEF Finish, Crash, TypeOK
  <2> QED BY <1>d, <2>1 DEF Running
<1> QED BY <1>1, <1>2, <1>3, <1>4, <1>5, <1>6, <1>7 DEF Drainer, Proceed

LEMMA SettleStep ==
  ASSUME SettleInv, [Next]_vars, Sources # {}, Chunks # {}
  PROVE  SettleInv'
<1>1. SafeInv /\ SafeInv'
  BY StepSafe DEF SettleInv
<1>2. ASSUME Exclusive PROVE Settling'
  <2>1. ASSUME NEW s \in Sources, Writer(s) PROVE Settling'
    <3>1. UNCHANGED work /\ DrainsIdle
      BY <1>1, <1>2, <2>1, WriterFrame DEF SafeInv
    <3> QED BY <3>1 DEF work, DrainsIdle, Settling, Running
  <2>2. CASE UNCHANGED vars
    BY <1>2, <2>2 DEF vars, canon, queue, work, SettleInv, Settling, Remains, Covers
  <2> QED BY <1>1, <1>2, <2>1, <2>2, SettleDrainer DEF SettleInv, Next
<1> QED BY <1>1, <1>2 DEF SettleInv

(* A drain (index/sync.py) that ends with nothing overlapping has left no row of
   what it covers pending, however many entities and drainers there are and
   whatever failed on the way. *)
THEOREM DrainsSettle ==
  ASSUME Sources # {}, Chunks # {}
  PROVE  Spec => DrainSettles
<1> DEFINE Done == \A d \in Drainers : Exclusive /\ Finish(d) =>
                     \A e \in Covers(d) : row[e] # "pending"
<1>1. Init => SettleInv
  <2>1. Init => Settling
    BY DEF Init, Settling, Running
  <2> QED BY <2>1, InitSafe DEF SettleInv
<1>2. SettleInv => Done
  <2> SUFFICES ASSUME SettleInv, NEW d \in Drainers, Exclusive, Finish(d),
                      NEW e \in Covers(d), row[e] = "pending"
               PROVE  FALSE
    OBVIOUS
  <2>1. pc[d] = "ready" /\ todo[d] = {} /\ cur[d] = NoRow /\ Remains(d)
    BY DEF SettleInv, SafeInv, TypeOK, Settling, Running, Finish
  <2>2. <<e, gen[e]>> # NoRow
    BY DEF NoRow
  <2> QED BY <2>1, <2>2 DEF Remains
<1>3. SettleInv /\ [Next]_vars => [Done]_vars
  BY <1>2
<1> QED BY <1>1, <1>3, SettleStep, PTL DEF Spec, DrainSettles

-----------------------------------------------------------------------------
(* The derived store serves what it promises.                              *)

(* A drainer that overlaps nothing has each live entity's own row, still
   pending, at most once: a row it has read is not settled behind its back. *)
Stands(r) == life[r[1]] = "live" => row[r[1]] = "pending" /\ r[2] = gen[r[1]]
Claims == \A d \in Drainers :
  /\ pc[d] \in {"ready", "loading", "loaded", "written"} =>
       \A r \in todo[d] : Stands(r) /\ r # cur[d]
  /\ pc[d] \in {"loading", "loaded", "written"} => Stands(cur[d])

FollowInv == SafeInv /\ (Exclusive => Claims)

(* Two live claims on one entity are one. *)
LEMMA OneClaim ==
  ASSUME NEW q \in RowIds, NEW r \in RowIds, Stands(q), Stands(r),
         life[r[1]] = "live", q # r
  PROVE  q[1] # r[1]
BY DEF RowIds, Stands

LEMMA ClaimsDrainer ==
  ASSUME SafeInv, Exclusive, Claims, NEW d \in Drainers, Drainer(d)
  PROVE  Claims'
<1> USE DEF queue, work
<1>a. TypeOK /\ Held /\ UNCHANGED life
  BY DrainerFrame DEF SafeInv, canon
<1>b. \A f \in Drainers \ {d} : pc'[f] = "idle"
  BY DrainerSolo
<1>c. /\ \A r \in todo[d] : r \in RowIds /\ r[1] \in Entities /\ r # NoRow
      /\ pc[d] \in {"loading", "loaded", "written"} =>
           cur[d] \in RowIds /\ cur[d][1] \in Entities /\ life[cur[d][1]] = "live"
      /\ pc[d] \notin {"loading", "loaded", "written"} => cur[d] = NoRow
  BY <1>a, RowOf DEF Held, TypeOK
(* It is enough to follow the drainer that moves. *)
<1>d. ASSUME pc'[d] \in {"ready", "loading", "loaded", "written"} =>
               \A r \in todo'[d] : Stands(r)' /\ r # cur'[d],
             pc'[d] \in {"loading", "loaded", "written"} => Stands(cur[d])',
             pc'[d] \in {"loading", "loaded", "written"} => cur'[d] = cur[d]
      PROVE  Claims'
  BY <1>b, <1>d DEF Claims, Stands
<1>1. CASE SyncStart(d) \/ ReindexClaim(d)
  <2>1. PICK S \in SUBSET Entities : todo' = [todo EXCEPT ![d] = Claimed(S)]
    BY <1>1, <1>a DEF SyncStart, ReindexClaim, TypeOK
  <2>2. /\ pc'[d] = "ready" /\ cur'[d] = NoRow /\ UNCHANGED <<row, gen>>
        /\ todo'[d] = Claimed(S)
    BY <1>1, <1>a, <1>c, <2>1 DEF SyncStart, ReindexClaim, TypeOK
  <2>3. \A r \in Claimed(S) : r \in RowIds /\ row[r[1]] = "pending" /\ r[2] = gen[r[1]]
    BY <1>a DEF Claimed, Pending, RowIds, TypeOK
  <2>4. ASSUME NEW r \in RowIds PROVE r # NoRow
    BY EntityFacts DEF RowIds, NoRow
  <2> QED BY <1>d, <2>2, <2>3, <2>4 DEF Stands
<1>2. CASE Take(d)
  <2>1. PICK r \in todo[d] :
       /\ todo' = [todo EXCEPT ![d] = @ \ {r}]
       /\ \/ /\ cur' = [cur EXCEPT ![d] = r]
             /\ pc' = [pc EXCEPT ![d] = "loading"]
             /\ UNCHANGED queue
          \/ /\ life[r[1]] # "live"
             /\ SetRow(r, "none")
             /\ UNCHANGED <<pc, cur, copy>>
    BY <1>2 DEF Take
  <2>2. pc[d] = "ready" /\ todo'[d] = todo[d] \ {r} /\ \A q \in todo[d] : Stands(q)
    BY <1>2, <1>a, <2>1 DEF Take, Claims, TypeOK
  <2>3. CASE /\ cur' = [cur EXCEPT ![d] = r] /\ pc' = [pc EXCEPT ![d] = "loading"]
             /\ UNCHANGED queue
    <3>1. cur'[d] = r /\ UNCHANGED <<row, gen>>
      BY <2>3, <1>a DEF TypeOK
    <3>2. \A q \in todo[d] : Stands(q)'
      BY <2>2, <3>1, <1>a DEF Stands
    <3>3. \A q \in todo'[d] : Stands(q)' /\ q # cur'[d]
      BY <2>2, <3>1, <3>2
    <3>4. life[r[1]] = "live" => row'[r[1]] = "pending" /\ r[2] = gen'[r[1]]
      BY <2>2, <3>1 DEF Stands
    <3> QED BY <1>a, <1>b, <3>1, <3>3, <3>4 DEF Claims, Stands
  <2>4. CASE life[r[1]] # "live" /\ SetRow(r, "none") /\ UNCHANGED <<pc, cur, copy>>
    <3>1. \A e \in Entities : life[e] = "live" => row'[e] = row[e] /\ gen'[e] = gen[e]
      BY <2>4, <1>a, <1>c DEF SetRow, TypeOK
    <3>2. \A q \in todo[d] : Stands(q)' /\ q # cur[d]
      BY <2>2, <3>1, <1>a, <1>c DEF Stands
    <3> QED BY <1>d, <2>2, <2>4, <3>2
  <2> QED BY <2>1, <2>3, <2>4
<1>3. CASE StoreWrite(d) \/ (Load(d) /\ ~FileGone(cur[d][1]))
  <2>1. /\ UNCHANGED <<row, gen, cur, todo>>
        /\ pc[d] \in {"loading", "loaded"}
    BY <1>3 DEF StoreWrite, Load
  <2> QED BY <1>a, <1>d, <2>1 DEF Claims, Stands
<1>4. CASE MarkIndexed(d) \/ MarkFailed(d) \/ (Load(d) /\ FileGone(cur[d][1]))
  <2>1. PICK state : SetRow(cur[d], state)
    BY <1>4 DEF MarkIndexed, MarkFailed, Load
  <2>2. /\ pc[d] \in {"loading", "loaded", "written"} /\ pc'[d] = "ready"
        /\ cur'[d] = NoRow /\ UNCHANGED todo
    BY <1>4, <1>a DEF MarkIndexed, MarkFailed, Load, Release, TypeOK
  <2>3. \A r \in todo[d] : r[1] # cur[d][1]
    BY <1>c, <2>2, OneClaim DEF Claims
  <2>4. gen' = gen /\ \A e \in Entities : e # cur[d][1] => row'[e] = row[e]
    BY <1>a, <1>c, <2>1, <2>2 DEF SetRow, TypeOK
  <2>5. \A r \in todo[d] : Stands(r)'
    BY <1>a, <1>c, <2>2, <2>3, <2>4 DEF Claims, Stands
  <2> QED BY <1>c, <1>d, <2>2, <2>5
<1>5. CASE ReindexDrop(d) \/ ReindexRead(d) \/ ReindexEnqueue(d) \/ Finish(d) \/ Crash(d)
  <2>1. pc'[d] \in {"dropped", "listed", "enqueued", "idle"}
    BY <1>5, <1>a DEF ReindexDrop, ReindexRead, ReindexEnqueue, Finish, Crash, TypeOK
  <2> QED BY <1>d, <2>1
<1> QED BY <1>1, <1>2, <1>3, <1>4, <1>5 DEF Drainer, Proceed

LEMMA FollowInit == Init => FollowInv
<1>1. Init => Claims
  BY DEF Init, Claims
<1> QED BY <1>1, InitSafe DEF FollowInv

LEMMA FollowStep == FollowInv /\ [Next]_vars => FollowInv'
<1> SUFFICES ASSUME FollowInv, [Next]_vars PROVE FollowInv'
  OBVIOUS
<1>0. SafeInv /\ TypeOK /\ SafeInv'
  BY StepSafe DEF FollowInv, SafeInv
<1>1. ASSUME Exclusive PROVE Claims'
  <2>1. ASSUME NEW s \in Sources, Writer(s) PROVE Claims'
    <3>1. UNCHANGED work /\ DrainsIdle
      BY <1>0, <1>1, <2>1, WriterFrame DEF SafeInv
    <3> QED BY <3>1 DEF work, DrainsIdle, Claims
  <2>2. CASE UNCHANGED vars
    BY <1>1, <2>2 DEF vars, canon, queue, work, FollowInv, Claims, Stands
  <2> QED BY <1>0, <1>1, <2>1, <2>2, ClaimsDrainer DEF FollowInv, Next
<1> QED BY <1>0, <1>1 DEF FollowInv

(* The mapped state: what is owed is live, and what is wanted of a live entity
   is its content. *)
LEMMA ServedFacts ==
  /\ Served!Live = Live(Entities)
  /\ Owed \subseteq Live(Entities)
  /\ \A e \in Entities : Wanted[e] = IF life[e] = "live" THEN Content(e) ELSE NoDoc
  /\ \A e \in Entities : e \in Owed <=> life[e] = "live" /\ ~Settled(e)
BY DEF Served!Live, Live, Owed, Wanted, Content, NoDoc

(* A writer's step is a write of what is owed after it, or, for the documents
   that a delete removes, a removal. *)
LEMMA WriterServes ==
  ASSUME SafeInv, Exclusive, NEW s \in Sources, Writer(s)
  PROVE  Served!Next
<1> USE ServedFacts
<1>a. TypeOK /\ FileFacts
  BY DEF SafeInv
<1>b. /\ \A e \in Entities : Wanted'[e] = IF life'[e] = "live" THEN Content(e)' ELSE NoDoc
      /\ \A e \in Entities : e \in Owed' <=> life'[e] = "live" /\ ~Settled(e)'
      /\ Owed \subseteq Entities /\ Owed' \subseteq Entities
      /\ \A e \in Entities : Content(e)' # NoDoc
  BY DEF Wanted, Owed, Live, Content, NoDoc
<1>1. CASE DeleteDerived(s)
  <2>1. PICK done \in SUBSET deleting[s].ids :
          index' = [e \in Entities |-> IF e \in done THEN NoDoc ELSE index[e]]
    BY <1>1 DEF DeleteDerived
  <2>2. deleting[s].phase = "unlinked" /\ UNCHANGED <<life, revision, tags, row, dropped, body>>
    BY <1>1 DEF DeleteDerived, canon, queue
  <2>3. done \subseteq Entities /\ \A e \in done : life[e] # "live"
    BY <1>a, <2>1, <2>2, EntityFacts DEF FileFacts, FileFactsOf
  <2>4. UNCHANGED <<Wanted, Owed>>
    BY <2>2 DEF Wanted, Owed, Live, Settled, FileAhead, Content
  <2>5. done \cap Live(Entities) = {}
    BY <2>3 DEF Live
  <2>6. Served!Remove(done)
    BY <2>1, <2>4, <2>5 DEF Served!Remove
  <2> QED BY <2>3, <2>6 DEF Served!Next
<1>2. CASE ~DeleteDerived(s)
  <2>1. UNCHANGED index
    BY <1>2 DEF Writer, IngestWrite, PageWrite, Commit, Abort, TagBegin, TagCommit,
       TagAbort, DeleteRead, DeleteCommit, DeleteUnlink, DeleteCrash
  <2>2. \A e \in Entities : Settled(e)' => Settled(e) /\ Content(e)' = Content(e)
    BY WriterKeeps
  <2>3. PICK S \in SUBSET Entities : S = Owed'
    BY <1>b
  <2>4. \A e \in Entities : Settled(e) => life[e] = "live"
    BY DEF Settled
  <2>5. \A e \in Entities : Wanted'[e] \in {Wanted[e], NoDoc} \/ e \in S
    BY <1>b, <2>2, <2>3, <2>4
  <2>6. Owed' = {e \in Owed \cup S : Wanted'[e] # NoDoc}
    BY <1>b, <2>2, <2>3, <2>4
  <2>7. Served!Write(S)
    BY <2>1, <2>5, <2>6 DEF Served!Write
  <2> QED BY <2>7 DEF Served!Next
<1> QED BY <1>1, <1>2

(* A drainer's step removes, owes, serves or settles one row in hand, or is a
   stutter. *)
LEMMA DrainerServes ==
  ASSUME FollowInv, Exclusive, NEW d \in Drainers, Drainer(d)
  PROVE  [Served!Next]_<<Wanted, index, Owed>>
<1> USE ServedFacts DEF queue, work
<1>a. /\ TypeOK /\ FileFacts /\ Held /\ Claims
      /\ UNCHANGED <<life, revision, body, tags>>
  BY DrainerFrame DEF FollowInv, SafeInv, canon
<1>b. UNCHANGED Wanted
  BY <1>a DEF Wanted, Content
<1>c. /\ \A e \in Entities : e \in Owed' <=> life[e] = "live" /\ ~Settled(e)'
      /\ Owed \subseteq Entities /\ Owed' \subseteq Entities
  BY <1>a DEF Owed, Live
<1>d. \A e \in Entities : Settled(e)' <=>
        life[e] = "live" /\ row'[e] \notin {"pending", "failed"}
        /\ e \notin dropped' /\ ~FileAhead(e)
  BY <1>a DEF Settled, FileAhead
<1>e. pc[d] \in {"loading", "loaded", "written"} =>
        /\ cur[d] \in RowIds /\ cur[d][1] \in Entities /\ life[cur[d][1]] = "live"
        /\ row[cur[d][1]] = "pending" /\ cur[d][2] = gen[cur[d][1]]
        /\ cur[d][1] \in Owed /\ Wanted[cur[d][1]] = Content(cur[d][1])
  BY <1>a, RowOf DEF Held, Claims, Stands, Settled
<1>1. CASE ReindexDrop(d)
  <2>1. PICK target \in {Sources, Chunks, Entities} :
          /\ index' = [e \in Entities |-> IF e \in target THEN NoDoc ELSE index[e]]
          /\ dropped' = dropped \cup target
    BY <1>1 DEF ReindexDrop
  <2>2. target \subseteq Entities /\ UNCHANGED row
    BY <1>1, <2>1, EntityFacts DEF ReindexDrop
  <2>3. Owed' = Owed \cup (target \cap Live(Entities))
    BY <1>c, <1>d, <2>1, <2>2 DEF Settled, Live
  <2>4. Served!Remove(target)
    BY <1>b, <2>1, <2>3 DEF Served!Remove
  <2> QED BY <2>2, <2>4 DEF Served!Next
<1>2. CASE ReindexEnqueue(d)
  <2>1. Requeue({}, {r[1] : r \in todo[d]}) /\ UNCHANGED index
    BY <1>2 DEF ReindexEnqueue
  <2>2. PICK S \in SUBSET Entities : S = Owed'
    BY <1>c
  <2>3. \A e \in Entities : Settled(e)' => Settled(e)
    BY <1>d, <2>1 DEF Requeue, Settled
  <2>4. Owed' = {e \in Owed \cup S : Wanted'[e] # NoDoc}
    <3>1. Owed \subseteq Owed'
      BY <1>c, <2>3
    <3>2. \A e \in Entities : life[e] = "live" => Wanted[e] # NoDoc
      <4>1. \A e \in Entities : Content(e) # NoDoc
        BY DEF Content, NoDoc
      <4> QED BY <4>1
    <3>3. \A e \in Owed \cup Owed' : Wanted'[e] # NoDoc
      BY <1>b, <1>c, <3>1, <3>2
    <3> QED BY <2>2, <3>1, <3>3
  <2>5. Served!Write(S)
    BY <1>b, <2>1, <2>4 DEF Served!Write
  <2> QED BY <2>5 DEF Served!Next
<1>3. CASE StoreWrite(d)
  <2>1. /\ index' = [index EXCEPT ![cur[d][1]] = copy[d]]
        /\ dropped' = dropped \ {cur[d][1]}
        /\ pc[d] = "loaded" /\ UNCHANGED row
    BY <1>3 DEF StoreWrite
  <2>2. copy[d] = Wanted[cur[d][1]]
    BY <1>a, <1>e, <2>1 DEF Held
  <2>3. Owed' = Owed
    BY <1>c, <1>d, <1>e, <2>1 DEF Settled
  <2>4. Served!Serve(cur[d][1])
    BY <1>b, <1>e, <2>1, <2>2, <2>3 DEF Served!Serve
  <2> QED BY <1>e, <2>1, <2>4 DEF Served!Next
<1>4. CASE MarkIndexed(d)
  <2>1. /\ SetRow(cur[d], "indexed") /\ UNCHANGED <<index, dropped>>
        /\ pc[d] = "written"
    BY <1>4 DEF MarkIndexed
  <2>2. \A e \in Entities : e # cur[d][1] => row'[e] = row[e]
    BY <1>a, <1>e, <2>1 DEF SetRow, TypeOK
  <2>3. \A e \in Entities : e # cur[d][1] => (e \in Owed' <=> e \in Owed)
    BY <1>c, <1>d, <2>1, <2>2 DEF Settled
  <2>4. CASE cur[d][1] \in Owed'
    <3>1. Owed' = Owed
      BY <1>c, <1>e, <2>1, <2>3, <2>4
    <3> QED BY <1>b, <2>1, <3>1
  <2>5. CASE cur[d][1] \notin Owed'
    <3>1. Owed' = Owed \ {cur[d][1]}
      BY <1>c, <2>3, <2>5
    <3>2. index[cur[d][1]] = Wanted[cur[d][1]]
      BY <1>a, <1>e, <2>1 DEF Held
    <3>3. Served!Settle(cur[d][1])
      BY <1>b, <1>e, <2>1, <3>1, <3>2 DEF Served!Settle
    <3> QED BY <1>e, <2>1, <3>3 DEF Served!Next
  <2> QED BY <2>4, <2>5
<1>5. CASE MarkFailed(d)
  <2>1. /\ SetRow(cur[d], "failed") /\ UNCHANGED dropped
        /\ pc[d] \in {"loading", "loaded"}
        /\ UNCHANGED index \/ (pc[d] = "loaded"
                               /\ index' = [index EXCEPT ![cur[d][1]] = copy[d]])
    BY <1>5 DEF MarkFailed
  <2>2. /\ \A e \in Entities : e # cur[d][1] => row'[e] = row[e]
        /\ row'[cur[d][1]] = "failed"
    BY <1>a, <1>e, <2>1 DEF SetRow, TypeOK
  <2>3. Owed' = Owed
    <3>1. ASSUME NEW e \in Entities PROVE Settled(e)' <=> Settled(e)
      <4>1. CASE e = cur[d][1]
        BY <1>d, <1>e, <2>1, <2>2, <4>1 DEF Settled
      <4>2. CASE e # cur[d][1]
        <5>1. row'[e] = row[e] /\ dropped' = dropped
          BY <2>1, <2>2, <4>2
        <5> QED BY <1>d, <5>1 DEF Settled
      <4> QED BY <4>1, <4>2
    <3>2. \A e \in Entities : e \in Owed' <=> e \in Owed
      BY <1>c, <3>1
    <3> QED BY <1>c, <3>2
  <2>4. CASE UNCHANGED index
    BY <1>b, <2>3, <2>4
  <2>5. CASE pc[d] = "loaded" /\ index' = [index EXCEPT ![cur[d][1]] = copy[d]]
    <3>1. copy[d] = Wanted[cur[d][1]]
      BY <1>a, <1>e, <2>5 DEF Held
    <3>2. Served!Serve(cur[d][1])
      BY <1>b, <1>e, <2>3, <2>5, <3>1 DEF Served!Serve
    <3> QED BY <1>e, <2>5, <3>2 DEF Served!Next
  <2> QED BY <2>1, <2>4, <2>5
<1>6. CASE Take(d) \/ Load(d)
  <2>1. UNCHANGED <<index, dropped>>
    BY <1>6 DEF Take, Load
  <2>2. \A e \in Entities : life[e] = "live" => row'[e] = row[e]
    <3>1. CASE Take(d)
      <4>1. PICK r \in todo[d] : UNCHANGED row \/ (life[r[1]] # "live" /\ SetRow(r, "none"))
        BY <3>1 DEF Take
      <4> QED BY <1>a, <4>1, RowOf DEF SetRow, TypeOK
    <3>2. CASE Load(d)
      BY <1>a, <1>e, <3>2 DEF Load, FileGone, FileFacts, FileFactsOf
    <3> QED BY <1>6, <3>1, <3>2
  <2>3. Owed' = Owed
    BY <1>c, <1>d, <2>1, <2>2 DEF Settled
  <2> QED BY <1>b, <2>1, <2>3
<1>7. CASE SyncStart(d) \/ ReindexRead(d) \/ ReindexClaim(d) \/ Finish(d) \/ Crash(d)
  <2>1. UNCHANGED <<row, index, dropped>>
    BY <1>7 DEF SyncStart, ReindexRead, ReindexClaim, Finish, Crash
  <2>2. Owed' = Owed
    BY <1>c, <1>d, <2>1 DEF Settled
  <2> QED BY <1>b, <2>1, <2>2
<1> QED BY <1>1, <1>2, <1>3, <1>4, <1>5, <1>6, <1>7 DEF Drainer, Proceed

(* The sync queue implements the served index (index/sync.py and every caller of
   enqueue_index): with drains that overlap nothing, each step of any number of
   writers and of the drain, failed, crashed or skipped, gives the store current
   documents of what is owed, and a debt ends only when it is paid. *)
THEOREM ServesAsPromised ==
  ASSUME Exclusive
  PROVE  Spec => ServesCurrent
<1>1. Init => Served!Init
  BY DEF Init, Served!Init, Wanted, Owed, Live
<1>2. FollowInv /\ [Next]_vars => [Served!Next]_<<Wanted, index, Owed>>
  <2> SUFFICES ASSUME FollowInv, [Next]_vars
               PROVE  [Served!Next]_<<Wanted, index, Owed>>
    OBVIOUS
  <2>1. ASSUME UNCHANGED vars PROVE UNCHANGED <<Wanted, index, Owed>>
    BY <2>1 DEF vars, canon, queue, Wanted, Owed, Live, Settled, FileAhead, Content
  <2> QED BY <2>1, WriterServes, DrainerServes DEF Next, FollowInv
<1> QED BY <1>1, <1>2, FollowInit, FollowStep, PTL DEF Spec, ServesCurrent, Served!Spec
=============================================================================
