------------------------- MODULE ObjectStoreProofs -------------------------
(***************************************************************************)
(* Theorems about ObjectStore, for any keys, bodies, agents, source ids    *)
(* and bounds, with or without processes that die, sources that are        *)
(* deleted and files that are ingested: the store is typed, provenance is  *)
(* honest, a source with text has one page, and on a key that one agent    *)
(* uses at a time the store implements ObjectMap.                          *)
(***************************************************************************)
EXTENDS ObjectStore, TLAPS

(* The ranges of the fields of a job. *)
LEMMA JobFields ==
  ASSUME NEW j \in Jobs
  PROVE  /\ j.key \in Keys \cup {None} /\ j.body \in Bodies \cup {None}
         /\ j.source \in Ids \cup {None} /\ j.slug \in 0..MaxSlug
  BY DEF Jobs

LEMMA NoJobIsJob == NoJob \in Jobs
  BY ObjectStoreAssumption DEF Jobs, NoJob

(* What the type invariant says of one agent. *)
AgentOK(a) ==
  /\ (job[a].key = None <=> pc[a] = "idle") /\ (job[a].body = None <=> pc[a] = "idle")
  /\ pc[a] \in {"page", "write", "reput"} => job[a].source # None
  /\ pc[a] = "write" => job[a].slug \in Slugs

(* A step that changes nothing of the jobs but the one of agent a. *)
LEMMA AgentStep ==
  ASSUME TypeOK, NEW a \in Agents, NEW s \in Steps, NEW j \in Jobs,
         pc' = [pc EXCEPT ![a] = s], job' = [job EXCEPT ![a] = j],
         (j.key = None <=> s = "idle") /\ (j.body = None <=> s = "idle"),
         s \in {"page", "write", "reput"} => j.source # None,
         s = "write" => j.slug \in Slugs
  PROVE  /\ pc' \in [Agents -> Steps]
         /\ job' \in [Agents -> Jobs]
         /\ \A b \in Agents : AgentOK(b)'
<1>1. pc' \in [Agents -> Steps] /\ job' \in [Agents -> Jobs]
  BY DEF TypeOK
<1>2. ASSUME NEW b \in Agents PROVE AgentOK(b)'
  <2>1. CASE b = a
    BY <2>1 DEF TypeOK, AgentOK
  <2>2. CASE b # a
    <3>1. pc'[b] = pc[b] /\ job'[b] = job[b]
      BY <2>2 DEF TypeOK
    <3>2. AgentOK(b)
      BY DEF TypeOK, AgentOK
    <3> QED BY <3>1, <3>2 DEF AgentOK
  <2> QED BY <2>1, <2>2
<1> QED BY <1>1, <1>2

LEMMA TypeInit == Init => TypeOK
<1> SUFFICES ASSUME Init PROVE TypeOK
  OBVIOUS
<1>1. NoObject \in Objects
  BY DEF Objects
<1>2. job \in [Agents -> Jobs]
  BY NoJobIsJob DEF Init
<1>3. \A a \in Agents : AgentOK(a)
  BY DEF Init, AgentOK, NoJob
<1> QED BY <1>1, <1>2, <1>3, ObjectStoreAssumption DEF Init, TypeOK, Steps, AgentOK

(* Each action keeps the types. *)
LEMMA TypeStep == TypeOK /\ [Next]_vars => TypeOK'
<1> SUFFICES ASSUME TypeOK, [Next]_vars PROVE TypeOK'
  OBVIOUS
<1> USE ObjectStoreAssumption
<1>a. ASSUME NEW a \in Agents, Return(a)
      PROVE  /\ pc' \in [Agents -> Steps] /\ job' \in [Agents -> Jobs]
             /\ \A b \in Agents : AgentOK(b)'
  <2>1. /\ NoJob.key = None /\ NoJob.body = None
    BY DEF NoJob
  <2>2. "idle" \in Steps
    BY DEF Steps
  <2>3. pc' = [pc EXCEPT ![a] = "idle"] /\ job' = [job EXCEPT ![a] = NoJob]
    BY <1>a DEF Return, Goto
  <2> QED BY <2>1, <2>2, <2>3, NoJobIsJob, AgentStep
<1>1. ASSUME NEW a \in Agents, NEW k \in Keys, NEW b \in Bodies, Put(a, k, b) PROVE TypeOK'
  <2>1. [body |-> b, promoted |-> None] \in Objects
    BY DEF Objects
  <2>2. object' \in [Keys -> Objects]
    BY <1>1, <2>1 DEF Put, Upsert, TypeOK
  <2>3. writes' \in [Keys -> 0..MaxWrites]
    <3>1. writes[k] + 1 \in 0..MaxWrites
      BY <1>1 DEF Put, TypeOK
    <3> QED BY <1>1, <3>1 DEF Put, TypeOK
  <2> QED BY <1>1, <2>2, <2>3 DEF Put, TypeOK, corpus, sources
<1>2. ASSUME NEW a \in Agents, NEW k \in Keys, Delete(a, k) PROVE TypeOK'
  <2>1. object' \in [Keys -> Objects]
    BY <1>2 DEF Delete, TypeOK, Objects
  <2>2. writes' \in [Keys -> 0..MaxWrites]
    <3>1. writes[k] + 1 \in 0..MaxWrites
      BY <1>2 DEF Delete, TypeOK
    <3> QED BY <1>2, <3>1 DEF Delete, TypeOK
  <2> QED BY <1>2, <2>1, <2>2 DEF Delete, TypeOK, corpus, sources
<1>3. ASSUME NEW a \in Agents, NEW k \in Keys, PromoteRead(a, k) PROVE TypeOK'
  <2> DEFINE j == [NoJob EXCEPT !.key = k, !.body = object[k].body]
  <2>1. object[k] \in Objects /\ object[k] # NoObject
    BY <1>3 DEF PromoteRead, Present, TypeOK
  <2>2. object[k].body \in Bodies
    BY <2>1 DEF Objects
  <2>4. j \in Jobs
    BY <2>2, NoJobIsJob DEF Jobs
  <2>5. j.key = k /\ j.body = object[k].body
    BY NoJobIsJob DEF Jobs
  <2>6. pc' = [pc EXCEPT ![a] = "check"] /\ job' = [job EXCEPT ![a] = j]
    BY <1>3 DEF PromoteRead, Goto
  <2>7. "check" \in Steps
    BY DEF Steps
  <2>8. j.key # None /\ j.body # None
    BY <2>2, <2>5
  <2> HIDE DEF j
  <2>9. /\ pc' \in [Agents -> Steps] /\ job' \in [Agents -> Jobs]
        /\ \A b \in Agents : AgentOK(b)'
    BY <2>4, <2>6, <2>7, <2>8, AgentStep
  <2>10. runs' \in 0..MaxRuns
    BY <1>3 DEF PromoteRead, TypeOK
  <2> QED BY <1>3, <2>9, <2>10 DEF PromoteRead, TypeOK, AgentOK, objects, corpus, sources
<1>4. ASSUME NEW a \in Agents, Check(a) PROVE TypeOK'
  <2>0. job[a] \in Jobs /\ pc[a] = "check" /\ AgentOK(a)
    BY <1>4 DEF Check, TypeOK, AgentOK
  <2>1. job[a].key # None /\ job[a].body # None
    BY <2>0 DEF AgentOK
  <2>2. /\ pc' \in [Agents -> Steps] /\ job' \in [Agents -> Jobs]
        /\ \A b \in Agents : AgentOK(b)'
    <3>1. CASE ByHash(job[a].body) = {}
      <4>1. pc' = [pc EXCEPT ![a] = "store"] /\ job' = [job EXCEPT ![a] = job[a]]
        BY <1>4, <3>1 DEF Check, Goto, TypeOK
      <4>2. "store" \in Steps
        BY DEF Steps
      <4> QED BY <2>0, <2>1, <4>1, <4>2, AgentStep
    <3>2. CASE ByHash(job[a].body) # {}
      <4>1. PICK i \in ByHash(job[a].body) : job' = [job EXCEPT ![a].source = i]
        BY <1>4, <3>2 DEF Check
      <4>2. i \in Ids
        BY <4>1 DEF ByHash, TypeOK
      <4> DEFINE j == [job[a] EXCEPT !.source = i]
      <4>3. j \in Jobs
        BY <2>0, <4>2 DEF Jobs
      <4>4. j.key = job[a].key /\ j.body = job[a].body /\ j.source = i
        BY <2>0 DEF Jobs
      <4>5. pc' = [pc EXCEPT ![a] = "page"] /\ job' = [job EXCEPT ![a] = j]
        BY <1>4, <3>2, <4>1 DEF Check, Goto
      <4>6. "page" \in Steps
        BY DEF Steps
      <4> HIDE DEF j
      <4> QED BY <2>1, <4>2, <4>3, <4>4, <4>5, <4>6, AgentStep
    <3> QED BY <3>1, <3>2
  <2> QED BY <1>4, <2>2 DEF Check, TypeOK, AgentOK, objects, corpus, sources
<1>b. ASSUME NEW i \in Ids, NEW b \in Bodies, NEW atPath \in BOOLEAN, Becomes(i, b, atPath)
      PROVE  /\ source' \in [Ids -> Bodies \cup {None}]
             /\ was' \in [Ids -> SUBSET Bodies]
             /\ live' \subseteq {x \in Ids : source'[x] # None}
             /\ file' \in live' \cup {None}
  <2>1. source' = [source EXCEPT ![i] = b] /\ live' = live \cup {i}
    BY <1>b DEF Becomes
  <2>2. source' \in [Ids -> Bodies \cup {None}]
    BY <2>1 DEF TypeOK
  <2>3. live' \subseteq {x \in Ids : source'[x] # None}
    BY <2>1 DEF TypeOK
  <2>4. was' \in [Ids -> SUBSET Bodies]
    BY <1>b DEF Becomes, TypeOK
  <2>5. file' \in live' \cup {None}
    BY <1>b DEF Becomes, TypeOK
  <2> QED BY <2>2, <2>3, <2>4, <2>5
<1>5. ASSUME NEW a \in Agents, Store(a) PROVE TypeOK'
  <2>0. job[a] \in Jobs /\ pc[a] = "store" /\ AgentOK(a)
    BY <1>5 DEF Store, TypeOK, AgentOK
  <2>1. job[a].key # None /\ job[a].body # None
    BY <2>0 DEF AgentOK
  <2>2. /\ pc' \in [Agents -> Steps] /\ job' \in [Agents -> Jobs]
        /\ \A b \in Agents : AgentOK(b)'
    <3>0. "insert" \in Steps
      BY DEF Steps
    <3>1. CASE Return(a)
      BY <3>1, <1>a
    <3>2. CASE Goto(a, "insert") /\ UNCHANGED job
      <4>1. pc' = [pc EXCEPT ![a] = "insert"] /\ job' = [job EXCEPT ![a] = job[a]]
        BY <3>2 DEF Goto, TypeOK
      <4> QED BY <2>0, <2>1, <3>0, <4>1, AgentStep
    <3>3. CASE Goto(a, "insert") /\ \E n \in Slugs : job' = [job EXCEPT ![a].slug = n]
      <4>1. PICK n \in Slugs : job' = [job EXCEPT ![a].slug = n]
        BY <3>3
      <4>2. n \in 0..MaxSlug
        BY DEF Slugs
      <4> DEFINE j == [job[a] EXCEPT !.slug = n]
      <4>3. j \in Jobs
        BY <2>0, <4>2 DEF Jobs
      <4>4. j.key = job[a].key /\ j.body = job[a].body
        BY <2>0 DEF Jobs
      <4>5. pc' = [pc EXCEPT ![a] = "insert"] /\ job' = [job EXCEPT ![a] = j]
        BY <3>3, <4>1 DEF Goto
      <4> HIDE DEF j
      <4> QED BY <2>1, <3>0, <4>3, <4>4, <4>5, AgentStep
    <3> QED BY <1>5, <3>1, <3>2, <3>3 DEF Store
  <2> QED BY <1>5, <2>2 DEF Store, TypeOK, AgentOK, objects, corpus, sources
<1>6. ASSUME NEW a \in Agents, Insert(a) PROVE TypeOK'
  <2>0. job[a] \in Jobs /\ pc[a] = "insert" /\ AgentOK(a)
    BY <1>6 DEF Insert, TypeOK, AgentOK
  <2>1. /\ job[a].key # None /\ job[a].body # None /\ job[a].body \in Bodies
        /\ job[a].slug \in 0..MaxSlug
    BY <2>0, JobFields DEF AgentOK
  <2>2. CASE Return(a) /\ UNCHANGED corpus
    BY <1>6, <1>a, <2>2 DEF Insert, TypeOK, AgentOK, objects, corpus, sources
  <2>3. CASE ~(job[a].slug # 0 /\ page[job[a].slug] # None)
    <3>1. PICK i \in Unused :
            /\ Becomes(i, job[a].body, FALSE)
            /\ page' = IF job[a].slug = 0 THEN page ELSE [page EXCEPT ![job[a].slug] = i]
            /\ job' = [job EXCEPT ![a].source = i]
      BY <1>6, <2>3 DEF Insert
    <3>2. i \in Ids
      BY DEF Unused
    <3> DEFINE j == [job[a] EXCEPT !.source = i]
    <3>3. j \in Jobs
      BY <2>0, <3>2 DEF Jobs
    <3>4. j.key = job[a].key /\ j.body = job[a].body /\ j.source = i
      BY <2>0 DEF Jobs
    <3>5. pc' = [pc EXCEPT ![a] = "page"] /\ job' = [job EXCEPT ![a] = j]
      BY <1>6, <2>3, <3>1 DEF Insert, Goto
    <3>6. "page" \in Steps
      BY DEF Steps
    <3> HIDE DEF j
    <3>7. /\ pc' \in [Agents -> Steps] /\ job' \in [Agents -> Jobs]
          /\ \A b \in Agents : AgentOK(b)'
      BY <2>1, <3>2, <3>3, <3>4, <3>5, <3>6, AgentStep
    <3>8. page' \in [Slugs -> Ids \cup {None}]
      BY <3>1, <3>2 DEF TypeOK
    <3>9. /\ source' \in [Ids -> Bodies \cup {None}]
          /\ was' \in [Ids -> SUBSET Bodies]
          /\ live' \subseteq {x \in Ids : source'[x] # None}
          /\ file' \in live' \cup {None}
      BY <1>b, <2>1, <3>1, <3>2
    <3> QED BY <1>6, <3>7, <3>8, <3>9 DEF Insert, TypeOK, AgentOK, objects
  <2> QED BY <1>6, <2>2, <2>3 DEF Insert
<1>7. ASSUME NEW a \in Agents, PageLook(a) PROVE TypeOK'
  <2>0. job[a] \in Jobs /\ pc[a] = "page" /\ AgentOK(a)
    BY <1>7 DEF PageLook, TypeOK, AgentOK
  <2>1. job[a].key # None /\ job[a].body # None /\ job[a].source # None
    BY <2>0 DEF AgentOK
  <2>2. /\ pc' \in [Agents -> Steps] /\ job' \in [Agents -> Jobs]
        /\ \A b \in Agents : AgentOK(b)'
    <3>1. CASE ~HasChunks(job[a].source)
      <4>1. pc' = [pc EXCEPT ![a] = "reput"] /\ job' = [job EXCEPT ![a] = job[a]]
        BY <1>7, <3>1 DEF PageLook, Goto, TypeOK
      <4>2. "reput" \in Steps
        BY DEF Steps
      <4> QED BY <2>0, <2>1, <4>1, <4>2, AgentStep
    <3>2. CASE HasChunks(job[a].source)
      <4>1. PICK n \in PagesOf(job[a].source) : job' = [job EXCEPT ![a].slug = n]
        BY <1>7, <3>2 DEF PageLook
      <4>2. n \in Slugs /\ n \in 0..MaxSlug
        BY <4>1 DEF PagesOf, Slugs
      <4> DEFINE j == [job[a] EXCEPT !.slug = n]
      <4>3. j \in Jobs
        BY <2>0, <4>2 DEF Jobs
      <4>4. j.key = job[a].key /\ j.body = job[a].body /\ j.source = job[a].source /\ j.slug = n
        BY <2>0 DEF Jobs
      <4>5. pc' = [pc EXCEPT ![a] = "write"] /\ job' = [job EXCEPT ![a] = j]
        BY <1>7, <3>2, <4>1 DEF PageLook, Goto
      <4>6. "write" \in Steps
        BY DEF Steps
      <4> HIDE DEF j
      <4> QED BY <2>1, <4>2, <4>3, <4>4, <4>5, <4>6, AgentStep
    <3> QED BY <3>1, <3>2
  <2> QED BY <1>7, <2>2 DEF PageLook, TypeOK, AgentOK, objects, corpus, sources
<1>8. ASSUME NEW a \in Agents, PageWrite(a) PROVE TypeOK'
  <2>0. job[a] \in Jobs /\ pc[a] = "write" /\ AgentOK(a)
    BY <1>8 DEF PageWrite, TypeOK, AgentOK
  <2>1. job[a].key # None /\ job[a].body # None /\ job[a].source # None
    BY <2>0 DEF AgentOK
  <2>2. /\ pc' \in [Agents -> Steps] /\ job' \in [Agents -> Jobs]
        /\ \A b \in Agents : AgentOK(b)'
    <3>1. CASE Return(a)
      BY <3>1, <1>a
    <3>2. CASE Goto(a, "reput") /\ UNCHANGED job
      <4>1. pc' = [pc EXCEPT ![a] = "reput"] /\ job' = [job EXCEPT ![a] = job[a]]
        BY <3>2 DEF Goto, TypeOK
      <4>2. "reput" \in Steps
        BY DEF Steps
      <4> QED BY <2>0, <2>1, <4>1, <4>2, AgentStep
    <3> QED BY <1>8, <3>1, <3>2 DEF PageWrite
  <2> QED BY <1>8, <2>2 DEF PageWrite, TypeOK, AgentOK, objects, corpus, sources
<1>9. ASSUME NEW a \in Agents, RePut(a) PROVE TypeOK'
  <2>0. job[a] \in Jobs /\ pc[a] = "reput" /\ AgentOK(a)
    BY <1>9 DEF RePut, TypeOK, AgentOK
  <2>1. job[a].key \in Keys /\ job[a].body \in Bodies /\ job[a].source \in Ids
    BY <2>0, JobFields DEF AgentOK
  <2>2. [body |-> job[a].body, promoted |-> job[a].source] \in Objects
    BY <2>1 DEF Objects
  <2>3. object' \in [Keys -> Objects]
    BY <1>9, <2>1, <2>2 DEF RePut, Upsert, TypeOK
  <2>4. Return(a)
    BY <1>9 DEF RePut
  <2> QED BY <1>9, <2>3, <2>4, <1>a DEF RePut, TypeOK, AgentOK, corpus, sources
<1>10. ASSUME NEW a \in Agents, Stop(a) PROVE TypeOK'
  <2>1. Return(a)
    BY <1>10 DEF Stop
  <2> QED BY <1>10, <2>1, <1>a DEF Stop, TypeOK, AgentOK, objects, corpus, sources
<1>11. ASSUME NEW i \in Ids, DeleteSource(i) PROVE TypeOK'
  <2>1. page' \in [Slugs -> Ids \cup {None}]
    BY <1>11 DEF DeleteSource, TypeOK
  <2>2. live' \subseteq {x \in Ids : source'[x] # None}
    BY <1>11 DEF DeleteSource, TypeOK
  <2>3. file' \in live' \cup {None}
    BY <1>11 DEF DeleteSource, TypeOK
  <2> QED BY <1>11, <2>1, <2>2, <2>3 DEF DeleteSource, TypeOK, objects
<1>12. ASSUME NEW b \in Bodies, IngestFile(b) PROVE TypeOK'
  <2>1. PICK i \in Ids :
          /\ Becomes(i, b, TRUE)
          /\ IF b \in Bad \/ PagesOf(i) # {} THEN UNCHANGED page
             ELSE \E n \in Slugs : FirstFree(n) /\ page' = [page EXCEPT ![n] = i]
    BY <1>12 DEF IngestFile, Unused, TypeOK
  <2>2. page' \in [Slugs -> Ids \cup {None}]
    BY <2>1 DEF TypeOK
  <2>3. /\ source' \in [Ids -> Bodies \cup {None}]
        /\ was' \in [Ids -> SUBSET Bodies]
        /\ live' \subseteq {x \in Ids : source'[x] # None}
        /\ file' \in live' \cup {None}
    BY <1>b, <2>1
  <2> QED BY <1>12, <2>2, <2>3 DEF IngestFile, TypeOK, objects
<1>13. CASE UNCHANGED vars
  BY <1>13 DEF TypeOK, vars
<1> QED
  BY <1>1, <1>2, <1>3, <1>4, <1>5, <1>6, <1>7, <1>8, <1>9, <1>10, <1>11, <1>12, <1>13
     DEF Next, Promotion

(* Every reachable state of the object store is well typed: a promotion has
   an object in hand from its read to its end, a source from the ingest on and
   a slug when it writes the page. *)
THEOREM TypeCorrect == Spec => []TypeOK
  BY TypeInit, TypeStep, PTL DEF Spec

-----------------------------------------------------------------------------
(* Provenance.                                                             *)

(* The source a promotion has in hand has, or had, the bytes it read. *)
AgentHonest(a) ==
  pc[a] \in {"page", "write", "reput"} => job[a].body \in was[job[a].source]
HonestInv ==
  /\ ProvenanceHonest
  /\ \A a \in Agents : AgentHonest(a)
  /\ \A i \in Ids : source[i] # None => source[i] \in was[i]

(* A step leaves the sources alone, deletes one, or stores one. *)
LEMMA SourceStep ==
  ASSUME TypeOK, [Next]_vars
  PROVE  \/ UNCHANGED sources
         \/ \E i \in Ids : DeleteSource(i)
         \/ \E i \in Ids, b \in Bodies, atPath \in BOOLEAN : Becomes(i, b, atPath)
<1>1. ASSUME NEW a \in Agents, Insert(a), ~UNCHANGED sources
      PROVE  \E i \in Ids, b \in Bodies, atPath \in BOOLEAN : Becomes(i, b, atPath)
  <2>1. job[a].body \in Bodies
    <3>1. job[a] \in Jobs /\ job[a].body # None
      BY <1>1 DEF Insert, TypeOK
    <3> QED BY <3>1, JobFields
  <2> QED BY <1>1, <2>1 DEF Insert, Unused, corpus
<1>2. ASSUME NEW b \in Bodies, IngestFile(b)
      PROVE  \E i \in Ids, c \in Bodies, atPath \in BOOLEAN : Becomes(i, c, atPath)
  BY <1>2 DEF IngestFile, Unused, TypeOK
<1>3. CASE /\ \A a \in Agents : ~Insert(a)
           /\ \A b \in Bodies : ~IngestFile(b)
           /\ \A i \in Ids : ~DeleteSource(i)
  BY <1>3 DEF Next, vars, corpus, sources, Put, Delete, PromoteRead, Promotion, Check,
              Store, PageLook, PageWrite, RePut, Stop
<1> QED BY <1>1, <1>2, <1>3

(* What a source had, it had; and what it has is part of that. *)
LEMMA WasKept ==
  ASSUME TypeOK, [Next]_vars, NEW i \in Ids
  PROVE  /\ was[i] \subseteq was'[i]
         /\ (source[i] # None => source[i] \in was[i])
              => (source[i] # None => source[i] \in was[i])'
<1>1. CASE UNCHANGED sources \/ \E j \in Ids : DeleteSource(j)
  <2>1. was' = was /\ source' = source
    BY <1>1 DEF sources, DeleteSource
  <2> QED BY <2>1
<1>2. ASSUME NEW j \in Ids, NEW b \in Bodies, NEW atPath \in BOOLEAN, Becomes(j, b, atPath)
      PROVE  /\ was[i] \subseteq was'[i]
             /\ (source[i] # None => source[i] \in was[i])
                  => (source[i] # None => source[i] \in was[i])'
  <2>1. /\ source' = [source EXCEPT ![j] = b]
        /\ was' = [was EXCEPT ![j] = was[j] \cup {b}]
    BY <1>2 DEF Becomes
  <2>2. CASE i = j
    BY <2>1, <2>2 DEF TypeOK
  <2>3. CASE i # j
    BY <2>1, <2>3 DEF TypeOK
  <2> QED BY <2>2, <2>3
<1> QED BY <1>1, <1>2, SourceStep

LEMMA HonestStep == TypeOK /\ TypeOK' /\ HonestInv /\ [Next]_vars => HonestInv'
<1> SUFFICES ASSUME TypeOK, TypeOK', HonestInv, [Next]_vars PROVE HonestInv'
  OBVIOUS
<1> USE ObjectStoreAssumption
<1>h. \A i \in Ids : (source[i] # None => source[i] \in was[i])'
  BY WasKept DEF HonestInv
<1>a. ASSUME NEW k \in Keys, object'[k] = object[k], object[k].promoted # None
      PROVE  object'[k].body \in was'[object'[k].promoted]
  <2>1. object[k].promoted \in Ids
    BY <1>a DEF TypeOK, Objects, NoObject
  <2>2. object[k].body \in was[object[k].promoted]
    BY <1>a DEF HonestInv, ProvenanceHonest
  <2> QED BY <1>a, <2>1, <2>2, WasKept
<1>b. ASSUME NEW a \in Agents, job'[a].source = job[a].source, job'[a].body = job[a].body,
             pc[a] \in {"page", "write", "reput"}
      PROVE  AgentHonest(a)'
  <2>1. job[a].source \in Ids
    <3>1. job[a] \in Jobs /\ AgentOK(a)
      BY DEF TypeOK, AgentOK
    <3> QED BY <1>b, <3>1, JobFields DEF AgentOK
  <2>2. job[a].body \in was[job[a].source]
    BY <1>b DEF HonestInv, AgentHonest
  <2> QED BY <1>b, <2>1, <2>2, WasKept DEF AgentHonest
<1>c. ASSUME NEW a \in Agents, pc'[a] = pc[a], job'[a] = job[a] PROVE AgentHonest(a)'
  <2>1. CASE pc[a] \in {"page", "write", "reput"}
    BY <1>c, <1>b, <2>1
  <2>2. CASE pc[a] \notin {"page", "write", "reput"}
    BY <1>c, <2>2 DEF AgentHonest
  <2> QED BY <2>1, <2>2
<1>d. ASSUME NEW a \in Agents, NEW s, NEW j, pc' = [pc EXCEPT ![a] = s],
             job' = [job EXCEPT ![a] = j], AgentHonest(a)'
      PROVE  \A b \in Agents : AgentHonest(b)'
  BY <1>c, <1>d DEF TypeOK
<1>e. ASSUME NEW a \in Agents, Return(a) PROVE \A b \in Agents : AgentHonest(b)'
  <2>1. pc' = [pc EXCEPT ![a] = "idle"] /\ job' = [job EXCEPT ![a] = NoJob]
    BY <1>e DEF Return, Goto
  <2>2. AgentHonest(a)'
    BY <2>1 DEF AgentHonest, TypeOK
  <2> QED BY <1>d, <2>1, <2>2
<1>f. ASSUME UNCHANGED object PROVE ProvenanceHonest'
  BY <1>a, <1>f DEF ProvenanceHonest
<1>g. ASSUME NEW a \in Agents, NEW s, s \notin {"page", "write", "reput"},
             NEW j, pc' = [pc EXCEPT ![a] = s], job' = [job EXCEPT ![a] = j]
      PROVE  \A b \in Agents : AgentHonest(b)'
  <2>1. AgentHonest(a)'
    BY <1>g DEF AgentHonest, TypeOK
  <2> QED BY <1>d, <1>g, <2>1
<1>1. ASSUME NEW a \in Agents, NEW k \in Keys, NEW b \in Bodies, Put(a, k, b)
      PROVE HonestInv'
  <2>1. object' = [object EXCEPT ![k] = [body |-> b, promoted |-> None]]
    BY <1>1 DEF Put, Upsert
  <2>2. ProvenanceHonest'
    BY <1>a, <2>1 DEF ProvenanceHonest, TypeOK
  <2> QED BY <1>1, <1>c, <1>h, <2>2 DEF Put, HonestInv
<1>2. ASSUME NEW a \in Agents, NEW k \in Keys, Delete(a, k) PROVE HonestInv'
  <2>1. object' = [object EXCEPT ![k] = NoObject]
    BY <1>2 DEF Delete
  <2>2. ProvenanceHonest'
    BY <1>a, <2>1 DEF ProvenanceHonest, TypeOK, NoObject
  <2> QED BY <1>2, <1>c, <1>h, <2>2 DEF Delete, HonestInv
<1>3. ASSUME NEW a \in Agents, NEW k \in Keys, PromoteRead(a, k) PROVE HonestInv'
  BY <1>3, <1>f, <1>g, <1>h DEF PromoteRead, Goto, objects, HonestInv
<1>4. ASSUME NEW a \in Agents, Check(a) PROVE HonestInv'
  <2>1. CASE ByHash(job[a].body) = {}
    <3>1. pc' = [pc EXCEPT ![a] = "store"] /\ job' = [job EXCEPT ![a] = job[a]]
      BY <1>4, <2>1 DEF Check, Goto, TypeOK
    <3> QED BY <1>4, <1>f, <1>g, <1>h, <3>1 DEF Check, objects, HonestInv
  <2>2. CASE ByHash(job[a].body) # {}
    <3>1. PICK i \in ByHash(job[a].body) : job' = [job EXCEPT ![a].source = i]
      BY <1>4, <2>2 DEF Check
    <3>2. pc' = [pc EXCEPT ![a] = "page"] /\ job' = [job EXCEPT ![a] = [@ EXCEPT !.source = i]]
      BY <1>4, <2>2, <3>1 DEF Check, Goto
    <3>3. job'[a].source = i /\ job'[a].body = job[a].body
      BY <3>1 DEF TypeOK, Jobs
    <3>4. i \in Ids /\ source[i] = job[a].body /\ source[i] # None /\ was' = was
      BY <1>4, <3>1 DEF ByHash, Check, corpus, sources, TypeOK
    <3>5. AgentHonest(a)'
      BY <3>3, <3>4 DEF AgentHonest, HonestInv
    <3> QED BY <1>4, <1>d, <1>f, <1>h, <3>2, <3>5 DEF Check, objects, HonestInv
  <2> QED BY <2>1, <2>2
<1>5. ASSUME NEW a \in Agents, Store(a) PROVE HonestInv'
  <2>1. CASE Return(a)
    BY <1>5, <1>e, <1>f, <1>h, <2>1 DEF Store, objects, HonestInv
  <2>2. CASE Goto(a, "insert")
    <3>1. PICK j : job' = [job EXCEPT ![a] = j]
      <4>1. CASE UNCHANGED job
        <5>1. job' = [job EXCEPT ![a] = job[a]]
          BY <4>1 DEF TypeOK
        <5> QED BY <5>1
      <4>2. CASE \E n \in Slugs : job' = [job EXCEPT ![a].slug = n]
        BY <4>2
      <4>3. ~Return(a)
        BY <1>5, <2>2 DEF Return, Goto, TypeOK
      <4> QED BY <1>5, <4>1, <4>2, <4>3 DEF Store
    <3> QED BY <1>5, <1>f, <1>g, <1>h, <2>2, <3>1 DEF Store, Goto, objects, HonestInv
  <2> QED BY <1>5, <2>1, <2>2 DEF Store
<1>6. ASSUME NEW a \in Agents, Insert(a) PROVE HonestInv'
  <2>1. CASE Return(a)
    BY <1>6, <1>e, <1>f, <1>h, <2>1 DEF Insert, objects, HonestInv
  <2>2. CASE ~Return(a)
    <3>1. PICK i \in Unused :
            /\ Becomes(i, job[a].body, FALSE)
            /\ job' = [job EXCEPT ![a].source = i]
            /\ Goto(a, "page")
      BY <1>6, <2>2 DEF Insert
    <3>2. pc' = [pc EXCEPT ![a] = "page"] /\ job' = [job EXCEPT ![a] = [@ EXCEPT !.source = i]]
      BY <3>1 DEF Goto
    <3>3. job'[a].source = i /\ job'[a].body = job[a].body
      BY <3>1 DEF TypeOK, Jobs
    <3>4. job[a].body \in was'[i]
      BY <3>1 DEF Becomes, Unused, TypeOK
    <3>5. AgentHonest(a)'
      BY <3>3, <3>4 DEF AgentHonest
    <3> QED BY <1>6, <1>d, <1>f, <1>h, <3>2, <3>5 DEF Insert, objects, HonestInv
  <2> QED BY <2>1, <2>2
<1>7. ASSUME NEW a \in Agents, PageLook(a) PROVE HonestInv'
  <2>1. pc[a] = "page"
    BY <1>7 DEF PageLook
  <2>2. CASE UNCHANGED job
    <3>1. AgentHonest(a)'
      BY <1>b, <2>1, <2>2
    <3>2. \A b \in Agents : AgentHonest(b)'
      BY <1>7, <1>c, <2>2, <3>1 DEF PageLook, Goto, TypeOK
    <3> QED BY <1>7, <1>f, <1>h, <3>2 DEF PageLook, objects, HonestInv
  <2>3. CASE \E n \in PagesOf(job[a].source) : job' = [job EXCEPT ![a].slug = n]
    <3>1. PICK n : job' = [job EXCEPT ![a].slug = n]
      BY <2>3
    <3>2. job'[a].source = job[a].source /\ job'[a].body = job[a].body
      BY <3>1 DEF TypeOK, Jobs
    <3>3. AgentHonest(a)'
      BY <1>b, <2>1, <3>2
    <3>4. \A b \in Agents : AgentHonest(b)'
      BY <1>7, <1>c, <3>1, <3>3 DEF PageLook, Goto, TypeOK
    <3> QED BY <1>7, <1>f, <1>h, <3>4 DEF PageLook, objects, HonestInv
  <2> QED BY <1>7, <2>2, <2>3 DEF PageLook
<1>8. ASSUME NEW a \in Agents, PageWrite(a) PROVE HonestInv'
  <2>1. CASE Return(a)
    BY <1>8, <1>e, <1>f, <1>h, <2>1 DEF PageWrite, objects, HonestInv
  <2>2. CASE Goto(a, "reput") /\ UNCHANGED job
    <3>1. pc[a] = "write"
      BY <1>8 DEF PageWrite
    <3>2. AgentHonest(a)'
      BY <1>b, <2>2, <3>1
    <3>3. \A b \in Agents : AgentHonest(b)'
      BY <1>c, <2>2, <3>2 DEF Goto, TypeOK
    <3> QED BY <1>8, <1>f, <1>h, <3>3 DEF PageWrite, objects, HonestInv
  <2> QED BY <1>8, <2>1, <2>2 DEF PageWrite
<1>9. ASSUME NEW a \in Agents, RePut(a) PROVE HonestInv'
  <2>1. object' = [object EXCEPT ![job[a].key] =
                     [body |-> job[a].body, promoted |-> job[a].source]]
    BY <1>9 DEF RePut, Upsert
  <2>2. job[a].body \in was[job[a].source] /\ was' = was
    BY <1>9 DEF RePut, HonestInv, AgentHonest, corpus, sources
  <2>3. ProvenanceHonest'
    BY <1>a, <2>1, <2>2 DEF ProvenanceHonest, TypeOK
  <2> QED BY <1>9, <1>e, <1>h, <2>3 DEF RePut, HonestInv
<1>10. ASSUME NEW a \in Agents, Stop(a) PROVE HonestInv'
  BY <1>10, <1>e, <1>f, <1>h DEF Stop, objects, HonestInv
<1>11. ASSUME NEW i \in Ids, DeleteSource(i) PROVE HonestInv'
  BY <1>11, <1>c, <1>f, <1>h DEF DeleteSource, objects, HonestInv
<1>12. ASSUME NEW b \in Bodies, IngestFile(b) PROVE HonestInv'
  BY <1>12, <1>c, <1>f, <1>h DEF IngestFile, objects, HonestInv
<1>13. CASE UNCHANGED vars
  BY <1>13, <1>c, <1>f, <1>h DEF vars, HonestInv
<1> QED
  BY <1>1, <1>2, <1>3, <1>4, <1>5, <1>6, <1>7, <1>8, <1>9, <1>10, <1>11, <1>12, <1>13
     DEF Next, Promotion

(* Provenance is honest for any number of agents that put, delete and promote
   any keys at once, wherever they fail and whatever files are ingested: the
   source an object names has, or had, the bytes that stand beside it. *)
THEOREM HonestProvenance == Spec => []ProvenanceHonest
<1>1. Init => HonestInv
  BY DEF Init, HonestInv, ProvenanceHonest, AgentHonest, NoObject
<1>2. HonestInv => ProvenanceHonest
  BY DEF HonestInv
<1> QED BY <1>1, <1>2, HonestStep, TypeCorrect, PTL DEF Spec

-----------------------------------------------------------------------------
(* Pages of sources.                                                       *)

(* An ingest that is about to commit a text has chosen a slug for its page. *)
SlugChosen ==
  \A a \in Agents : pc[a] = "insert" /\ job[a].body \notin Bad => job[a].slug \in Slugs

LEMMA SlugStep == TypeOK /\ SlugChosen /\ [Next]_vars => SlugChosen'
<1> SUFFICES ASSUME TypeOK, SlugChosen, [Next]_vars PROVE SlugChosen'
  OBVIOUS
<1>1. ASSUME NEW a \in Agents, Store(a) PROVE SlugChosen'
  <2>1. CASE Return(a)
    BY <1>1, <2>1 DEF Return, Goto, SlugChosen, TypeOK
  <2>2. CASE Goto(a, "insert") /\ job[a].body \in Bad /\ UNCHANGED job
    BY <1>1, <2>2 DEF Goto, SlugChosen, TypeOK
  <2>3. CASE Goto(a, "insert") /\ \E n \in Slugs : job' = [job EXCEPT ![a].slug = n]
    <3>1. PICK n \in Slugs : job' = [job EXCEPT ![a].slug = n]
      BY <2>3
    <3>2. job'[a].slug = n
      BY <3>1 DEF TypeOK, Jobs
    <3> QED BY <2>3, <3>1, <3>2 DEF Goto, SlugChosen, TypeOK
  <2> QED BY <1>1, <2>1, <2>2, <2>3 DEF Store
<1>2. ASSUME NEW a \in Agents, NEW s, NEW j, s # "insert",
             pc' = [pc EXCEPT ![a] = s], job' = [job EXCEPT ![a] = j]
      PROVE  SlugChosen'
  BY <1>2 DEF SlugChosen, TypeOK
<1>3. ASSUME NEW a \in Agents, Promotion(a) \/ Stop(a), ~Store(a) PROVE SlugChosen'
  <2>1. PICK s, j : /\ s # "insert" /\ pc' = [pc EXCEPT ![a] = s]
                    /\ job' = [job EXCEPT ![a] = j]
    <3>1. CASE Return(a)
      BY <3>1 DEF Return, Goto
    <3>2. CASE ~Return(a)
      <4>1. PICK s \in {"store", "page", "write", "reput"} : pc' = [pc EXCEPT ![a] = s]
        BY <1>3, <3>2 DEF Promotion, Stop, Check, Insert, PageLook, PageWrite, RePut, Goto
      <4>2. \/ UNCHANGED job
            \/ \E i : job' = [job EXCEPT ![a].source = i]
            \/ \E n : job' = [job EXCEPT ![a].slug = n]
        BY <1>3, <3>2 DEF Promotion, Stop, Check, Insert, PageLook, PageWrite, RePut
      <4>3. CASE UNCHANGED job
        <5>1. job' = [job EXCEPT ![a] = job[a]]
          BY <4>3 DEF TypeOK
        <5> QED BY <4>1, <5>1
      <4> QED BY <4>1, <4>2, <4>3
    <3> QED BY <3>1, <3>2
  <2> QED BY <1>2, <2>1
<1>4. ASSUME NEW a \in Agents, NEW k \in Keys, PromoteRead(a, k) PROVE SlugChosen'
  BY <1>2, <1>4 DEF PromoteRead, Goto
<1>5. ASSUME UNCHANGED <<pc, job>> PROVE SlugChosen'
  BY <1>5 DEF SlugChosen
<1> QED
  BY <1>1, <1>3, <1>4, <1>5 DEF Next, vars, Put, Delete, DeleteSource, IngestFile

(* A page is written with the source it belongs to, under a slug that no page
   has, and for a source that has none; and it goes with its source. *)
LEMMA PageStep == TypeOK /\ SlugChosen /\ OnePage /\ [Next]_vars => OnePage'
<1> SUFFICES ASSUME TypeOK, SlugChosen, OnePage, [Next]_vars PROVE OnePage'
  OBVIOUS
<1> USE ObjectStoreAssumption
<1>a. ASSUME UNCHANGED <<source, live, page>> PROVE OnePage'
  BY <1>a DEF OnePage, HasChunks, PagesOf
<1>b. ASSUME NEW i \in Ids, NEW b \in Bodies, NEW atPath \in BOOLEAN, Becomes(i, b, atPath),
             \/ page' = page /\ (b \in Bad \/ PagesOf(i) # {})
             \/ \E n \in Slugs : /\ page[n] = None /\ PagesOf(i) = {}
                                 /\ page' = [page EXCEPT ![n] = i]
      PROVE  OnePage'
  <2>1. source' = [source EXCEPT ![i] = b] /\ live' = live \cup {i}
    BY <1>b DEF Becomes
  <2>2. ASSUME NEW n \in Slugs, page[n] = None, PagesOf(i) = {}, page' = [page EXCEPT ![n] = i]
        PROVE  OnePage'
    <3>1. \A m \in Slugs : page'[m] = IF m = n THEN i ELSE page[m]
      BY <2>2 DEF TypeOK
    <3>2. ASSUME NEW x \in Ids, HasChunks(x)' PROVE (PagesOf(x) # {})'
      <4>1. CASE x = i
        BY <3>1, <4>1 DEF PagesOf
      <4>2. CASE x # i
        <5>1. HasChunks(x)
          BY <2>1, <3>2, <4>2 DEF HasChunks, TypeOK
        <5>2. PICK m \in Slugs : page[m] = x
          BY <5>1 DEF OnePage, PagesOf
        <5>3. page'[m] = x
          BY <2>2, <3>1, <5>2
        <5> QED BY <5>3 DEF PagesOf
      <4> QED BY <4>1, <4>2
    <3>3. ASSUME NEW m \in Slugs, NEW o \in Slugs, page'[m] # None
          PROVE  page'[m] \in live' /\ (page'[o] = page'[m] => o = m)
      BY <2>1, <2>2, <3>1, <3>3 DEF OnePage, PagesOf
    <3> QED BY <3>2, <3>3 DEF OnePage
  <2>3. ASSUME page' = page, b \in Bad \/ PagesOf(i) # {} PROVE OnePage'
    <3>1. ASSUME NEW x \in Ids, HasChunks(x)' PROVE (PagesOf(x) # {})'
      <4>1. CASE x = i
        <5>1. b \notin Bad
          BY <2>1, <3>1, <4>1 DEF HasChunks, TypeOK
        <5> QED BY <2>3, <4>1, <5>1 DEF PagesOf
      <4>2. CASE x # i
        <5>1. HasChunks(x)
          BY <2>1, <3>1, <4>2 DEF HasChunks, TypeOK
        <5> QED BY <2>3, <5>1 DEF OnePage, PagesOf
      <4> QED BY <4>1, <4>2
    <3> QED BY <2>1, <2>3, <3>1 DEF OnePage
  <2> QED BY <1>b, <2>2, <2>3
<1>1. ASSUME NEW a \in Agents, Insert(a) PROVE OnePage'
  <2>1. CASE UNCHANGED corpus
    BY <1>a, <2>1 DEF corpus, sources
  <2>2. CASE ~UNCHANGED corpus
    <3>0. /\ pc[a] = "insert" /\ job[a] \in Jobs /\ job[a].body # None
      BY <1>1 DEF Insert, TypeOK
    <3>1. job[a].body \in Bodies /\ job[a].slug \in 0..MaxSlug
      BY <3>0, JobFields
    <3>2. PICK i \in Unused :
            /\ Becomes(i, job[a].body, FALSE)
            /\ page' = IF job[a].slug = 0 THEN page ELSE [page EXCEPT ![job[a].slug] = i]
      BY <1>1, <2>2 DEF Insert
    <3>3. job[a].slug = 0 \/ page[job[a].slug] = None
      BY <1>1, <2>2 DEF Insert
    <3>4. i \in Ids /\ i \notin live /\ i # None
      BY <3>2 DEF Unused, TypeOK
    <3>5. PagesOf(i) = {}
      BY <3>4 DEF PagesOf, OnePage
    <3>6. CASE job[a].slug = 0
      <4>1. job[a].body \in Bad
        BY <3>0, <3>6 DEF SlugChosen, Slugs
      <4> QED BY <1>b, <3>1, <3>2, <3>4, <3>6, <4>1
    <3>7. CASE job[a].slug # 0
      <4>1. job[a].slug \in Slugs
        BY <3>1, <3>7 DEF Slugs
      <4> QED BY <1>b, <3>1, <3>2, <3>3, <3>4, <3>5, <3>7, <4>1
    <3> QED BY <3>6, <3>7
  <2> QED BY <2>1, <2>2
<1>2. ASSUME NEW i \in Ids, DeleteSource(i) PROVE OnePage'
  <2>1. /\ live' = live \ {i} /\ source' = source
        /\ \A n \in Slugs : page'[n] = IF page[n] = i THEN None ELSE page[n]
    BY <1>2 DEF DeleteSource
  <2>2. ASSUME NEW x \in Ids, HasChunks(x)' PROVE (PagesOf(x) # {})'
    <3>1. x # i /\ HasChunks(x)
      BY <2>1, <2>2 DEF HasChunks
    <3>2. PICK n \in Slugs : page[n] = x
      BY <3>1 DEF OnePage, PagesOf
    <3>3. page'[n] = x
      BY <2>1, <3>1, <3>2
    <3> QED BY <3>3 DEF PagesOf
  <2>3. ASSUME NEW n \in Slugs, NEW m \in Slugs, page'[n] # None
        PROVE  page'[n] \in live' /\ (page'[m] = page'[n] => m = n)
    BY <2>1, <2>3 DEF OnePage
  <2> QED BY <2>2, <2>3 DEF OnePage
<1>3. ASSUME NEW b \in Bodies, IngestFile(b) PROVE OnePage'
  <2>1. PICK i \in Ids :
          /\ Becomes(i, b, TRUE)
          /\ IF b \in Bad \/ PagesOf(i) # {} THEN UNCHANGED page
             ELSE \E n \in Slugs : FirstFree(n) /\ page' = [page EXCEPT ![n] = i]
    BY <1>3 DEF IngestFile, Unused, TypeOK
  <2>2. CASE b \in Bad \/ PagesOf(i) # {}
    BY <1>b, <2>1, <2>2
  <2>3. CASE ~(b \in Bad \/ PagesOf(i) # {})
    BY <1>b, <2>1, <2>3 DEF FirstFree
  <2> QED BY <2>2, <2>3
<1> QED
  BY <1>a, <1>1, <1>2, <1>3
     DEF Next, vars, corpus, sources, Put, Delete, PromoteRead, Promotion, Check, Store,
         PageLook, PageWrite, RePut, Stop

(* A promoted object can be found, for any number of agents that promote the
   same bodies at once, wherever they fail and whatever files are ingested or
   sources deleted: a source with text has one page, and a page has its
   source. *)
THEOREM SourcesPaged == Spec => []OnePage
<1>1. Init => OnePage /\ SlugChosen
  BY DEF Init, OnePage, SlugChosen, HasChunks
<1> QED BY <1>1, SlugStep, PageStep, TypeCorrect, PTL DEF Spec

-----------------------------------------------------------------------------
(* The store implements the map.                                           *)

(* Of a key that is not shared one agent has a promotion in hand, and the
   object is what the promotion read. *)
OwnInv ==
  \A a \in Agents : job[a].key \in Own =>
    /\ object[job[a].key].body = job[a].body
    /\ \A b \in Agents : job[b].key = job[a].key => b = a

(* Agent a's promotion goes on with the object it has, or ends; the others
   and the objects they have stay as they are. *)
LEMMA OwnKept ==
  ASSUME TypeOK, OwnInv, NEW a \in Agents,
         \A b \in Agents \ {a} : job'[b] = job[b],
         \/ job'[a].key = job[a].key /\ job'[a].body = job[a].body
         \/ job'[a].key = None,
         \A k \in Own : object'[k].body = object[k].body
  PROVE  OwnInv'
BY ObjectStoreAssumption DEF OwnInv, Own

LEMMA OwnStep == TypeOK /\ OwnInv /\ [Next]_vars => OwnInv'
<1> SUFFICES ASSUME TypeOK, OwnInv, [Next]_vars PROVE OwnInv'
  OBVIOUS
<1> USE ObjectStoreAssumption
<1>1. ASSUME NEW a \in Agents, NEW k \in Keys, NEW b \in Bodies, Put(a, k, b)
      PROVE OwnInv'
  BY <1>1 DEF Put, MayUse, Upsert, OwnInv, Own, TypeOK
<1>2. ASSUME NEW a \in Agents, NEW k \in Keys, Delete(a, k) PROVE OwnInv'
  BY <1>2 DEF Delete, MayUse, OwnInv, Own, TypeOK
<1>3. ASSUME NEW a \in Agents, NEW k \in Keys, PromoteRead(a, k) PROVE OwnInv'
  <2>1. job'[a].key = k /\ job'[a].body = object[k].body
    BY <1>3, NoJobIsJob DEF PromoteRead, TypeOK, Jobs
  <2>2. \A b \in Agents \ {a} : job'[b] = job[b]
    BY <1>3 DEF PromoteRead, TypeOK
  <2>3. k \in Own => \A b \in Agents : job[b].key # k
    BY <1>3 DEF PromoteRead, MayUse, Own
  <2>4. object' = object
    BY <1>3 DEF PromoteRead, objects
  <2> QED BY <2>1, <2>2, <2>3, <2>4 DEF OwnInv
<1>4. ASSUME NEW a \in Agents, Return(a), UNCHANGED object PROVE OwnInv'
  <2>1. job'[a].key = None /\ \A b \in Agents \ {a} : job'[b] = job[b]
    BY <1>4 DEF Return, NoJob, TypeOK
  <2> QED BY <1>4, <2>1, OwnKept
<1>5. ASSUME NEW a \in Agents,
             Check(a) \/ Store(a) \/ Insert(a) \/ PageLook(a) \/ PageWrite(a) \/ Stop(a)
      PROVE  OwnInv'
  <2>1. object' = object
    BY <1>5 DEF Check, Store, Insert, PageLook, PageWrite, Stop, objects
  <2>2. CASE Return(a)
    BY <1>4, <2>1, <2>2
  <2>3. CASE ~Return(a)
    <3>1. \/ UNCHANGED job
          \/ \E i : job' = [job EXCEPT ![a].source = i]
          \/ \E n : job' = [job EXCEPT ![a].slug = n]
      BY <1>5, <2>3 DEF Check, Store, Insert, PageLook, PageWrite, Stop
    <3>2. /\ \A b \in Agents \ {a} : job'[b] = job[b]
          /\ job'[a].key = job[a].key /\ job'[a].body = job[a].body
      <4>1. job \in [Agents -> Jobs] /\ job[a] \in Jobs
        BY DEF TypeOK
      <4>2. /\ DOMAIN job[a] = {"key", "body", "source", "slug"}
            /\ a \in DOMAIN job /\ Agents = DOMAIN job
        BY <4>1 DEF Jobs
      <4>3. CASE UNCHANGED job
        BY <4>3
      <4>4. ASSUME NEW i, job' = [job EXCEPT ![a].source = i]
            PROVE  /\ \A b \in Agents \ {a} : job'[b] = job[b]
                   /\ job'[a].key = job[a].key /\ job'[a].body = job[a].body
        BY <4>2, <4>4
      <4>5. ASSUME NEW n, job' = [job EXCEPT ![a].slug = n]
            PROVE  /\ \A b \in Agents \ {a} : job'[b] = job[b]
                   /\ job'[a].key = job[a].key /\ job'[a].body = job[a].body
        BY <4>2, <4>5
      <4> QED BY <3>1, <4>3, <4>4, <4>5
    <3> QED BY <2>1, <3>2, OwnKept
  <2> QED BY <2>2, <2>3
<1>6. ASSUME NEW a \in Agents, RePut(a) PROVE OwnInv'
  <2>1. job'[a].key = None /\ \A b \in Agents \ {a} : job'[b] = job[b]
    BY <1>6 DEF RePut, Return, NoJob, TypeOK
  <2>2. \A k \in Own : object'[k].body = object[k].body
    BY <1>6 DEF RePut, Upsert, OwnInv, Own, TypeOK
  <2> QED BY <2>1, <2>2, OwnKept
<1>7. ASSUME NEW i \in Ids, DeleteSource(i) PROVE OwnInv'
  BY <1>7 DEF DeleteSource, objects, OwnInv
<1>8. ASSUME NEW b \in Bodies, IngestFile(b) PROVE OwnInv'
  BY <1>8 DEF IngestFile, objects, OwnInv
<1>9. CASE UNCHANGED vars
  BY <1>9 DEF vars, OwnInv
<1> QED
  BY <1>1, <1>2, <1>3, <1>5, <1>6, <1>7, <1>8, <1>9 DEF Next, Promotion

Bodied == [k \in Own |-> object[k].body]
Counted == [k \in Own |-> writes[k]]

(* A put or a delete of a key of the agent's own is a write of the map; every
   other step, a promotion's last put included, leaves the map alone. *)
LEMMA MapStep ==
  TypeOK /\ OwnInv /\ [Next]_vars => [Promise!Next]_<<Bodied, Counted>>
<1> SUFFICES ASSUME TypeOK, OwnInv, [Next]_vars
             PROVE  [Promise!Next]_<<Bodied, Counted>>
  OBVIOUS
<1> USE ObjectStoreAssumption
<1>a. ASSUME \A k \in Own : object'[k].body = object[k].body /\ writes'[k] = writes[k]
      PROVE  UNCHANGED <<Bodied, Counted>>
  BY <1>a DEF Bodied, Counted
<1>b. ASSUME NEW k \in Keys, NEW b \in Bodies \cup {None}, NEW o,
             object' = [object EXCEPT ![k] = o], o.body = b,
             writes' = [writes EXCEPT ![k] = @ + 1]
      PROVE  [Promise!Next]_<<Bodied, Counted>>
  <2>1. CASE k \in Own
    <3>1. Bodied' = [Bodied EXCEPT ![k] = b]
      BY <1>b, <2>1 DEF Bodied, Own, TypeOK
    <3>2. Counted' = [Counted EXCEPT ![k] = @ + 1]
      BY <1>b, <2>1 DEF Counted, Own, TypeOK
    <3> QED BY <2>1, <3>1, <3>2 DEF Promise!Next, Promise!Write, Bodied, Counted
  <2>2. CASE k \notin Own
    BY <1>a, <1>b, <2>2 DEF Own, TypeOK
  <2> QED BY <2>1, <2>2
<1>1. ASSUME NEW a \in Agents, NEW k \in Keys, NEW b \in Bodies, Put(a, k, b)
      PROVE  [Promise!Next]_<<Bodied, Counted>>
  BY <1>1, <1>b DEF Put, Upsert
<1>2. ASSUME NEW a \in Agents, NEW k \in Keys, Delete(a, k)
      PROVE  [Promise!Next]_<<Bodied, Counted>>
  BY <1>2, <1>b DEF Delete, NoObject
<1>3. ASSUME NEW a \in Agents, RePut(a) PROVE UNCHANGED <<Bodied, Counted>>
  <2>1. \A k \in Own : object'[k].body = object[k].body
    BY <1>3 DEF RePut, Upsert, OwnInv, Own, TypeOK
  <2> QED BY <1>3, <1>a, <2>1 DEF RePut
<1>4. ASSUME UNCHANGED objects PROVE UNCHANGED <<Bodied, Counted>>
  BY <1>4, <1>a DEF objects
<1> QED
  BY <1>1, <1>2, <1>3, <1>4
     DEF Next, vars, objects, Promotion, PromoteRead, Check, Store, Insert, PageLook,
         PageWrite, Stop, DeleteSource, IngestFile

(* The store implements the agent's map: on the keys that one agent uses at a
   time puts and deletes are the only changes, however promotions of them fail
   and whatever other agents do. *)
THEOREM ImplementsMap == Spec => MapPromise
<1>1. Init => Promise!Init
  BY DEF Init, Promise!Init, NoObject, Own
<1>2. Init => OwnInv
  BY ObjectStoreAssumption DEF Init, OwnInv, NoJob, Own
<1>3. TypeOK /\ OwnInv /\ [Next]_vars
        => [Promise!Next]_<<[k \in Own |-> object[k].body], [k \in Own |-> writes[k]]>>
  BY MapStep DEF Bodied, Counted
<1> QED BY <1>1, <1>2, <1>3, OwnStep, TypeCorrect, PTL DEF Spec, MapPromise, Promise!Spec
=============================================================================
