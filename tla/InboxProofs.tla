---------------------------- MODULE InboxProofs ----------------------------
(***************************************************************************)
(* Theorems about Inbox, for any files, contents, ids and processors, any  *)
(* number of drops, and processors that crash or lose the database: the    *)
(* state is typed whatever overlaps; and when one processor runs at a time *)
(* and no file is dropped over one that waits, every source has the text   *)
(* of the bytes that were hashed, a path has one source, and what goes to  *)
(* processed/ is in the corpus.                                            *)
(*                                                                         *)
(* Then about Chunking, nothing of a source's text is lost in cutting it;  *)
(* and about Retrieval, for any pages, graphs and rankings: what was found *)
(* leads, answers rest on pages, commands leave their rows, and gaps reach *)
(* curation.                                                               *)
(***************************************************************************)
EXTENDS Inbox, Chunking, Retrieval, FiniteSetTheorems, SequenceTheorems, WellFoundedInduction, TLAPS

-----------------------------------------------------------------------------
(* What a processor's job says at each step: a file is in hand from its choice
   to its move, with its hash from there to the store. *)
Steps == {"idle", "next", "read", "check", "parse", "store", "route"}
Unheld == {"idle", "next"}             \* no file in hand
Hashed == {"check", "parse", "store"}  \* the file has been read

JobOK(step, j) ==
  /\ j.file = None <=> step \in Unheld
  /\ step \in Unheld => j = NoJob
  /\ step \in Hashed => j.hash # None
  /\ step \in {"read", "check"} => j.prior = None

ProcsOK ==
  /\ pc \in [Procs -> Steps] /\ todo \in [Procs -> SUBSET Files] /\ job \in [Procs -> Jobs]
  /\ \A p \in Procs : JobOK(pc[p], job[p])

DataOK ==
  /\ inbox \in [Files -> Contents \cup {None}]
  /\ processed \in [Files -> Contents \cup {None}]
  /\ failed \in [Files -> Contents \cup {None}]
  /\ source \in [Ids -> Sources] /\ drops \in 0..MaxDrops

TypeInv == DataOK /\ ProcsOK

-----------------------------------------------------------------------------
(* One processor at a time, and what it has in hand. *)
Single == \A p, q \in Procs : pc[p] # "idle" /\ pc[q] # "idle" => p = q

TextOf(c) == IF c \in Bad THEN None ELSE c

(* The file is there, unchanged, until it is moved; the text is that of its
   hash; the source found at its path is still the one there, or there is
   still none; and a result that is no failure says that its bytes are known. *)
Hand(p) ==
  LET j == job[p]
  IN /\ pc[p] \in Hashed => inbox[j.file] = j.hash
     /\ pc[p] = "store" => j.text = TextOf(j.hash)
     /\ pc[p] \in {"parse", "store"} =>
          IF j.prior = None THEN At(j.file) = {} ELSE j.prior \in At(j.file)
     /\ pc[p] = "route" /\ j.result # "failed" =>
          inbox[j.file] # None /\ Known(inbox[j.file])

InHand == \A p \in Procs : Hand(p)

CorpusInv == TypeInv /\ Single /\ InHand /\ CorpusSound

-----------------------------------------------------------------------------
(* Types.                                                                  *)

Only(p) == \A q \in Procs \ {p} : pc'[q] = pc[q] /\ job'[q] = job[q]

LEMMA NoJobIsJob == NoJob \in Jobs /\ \A step \in Unheld : JobOK(step, NoJob)
  BY InboxAssumption DEF NoJob, Jobs, Results, JobOK, Unheld, Hashed

(* A processor goes to a step with a job that fits it; the others stay. *)
LEMMA Goes ==
  ASSUME ProcsOK, NEW p \in Procs, NEW step \in Steps, NEW j \in Jobs, JobOK(step, j),
         Goto(p, step), job' = [job EXCEPT ![p] = j], todo' \in [Procs -> SUBSET Files]
  PROVE  ProcsOK' /\ pc'[p] = step /\ job'[p] = j /\ Only(p)
  BY DEF ProcsOK, Goto, Only

LEMMA SetField ==
  ASSUME ProcsOK, NEW p \in Procs, NEW v
  PROVE  /\ Set(p, "file", v) => job' = [job EXCEPT ![p] = [job[p] EXCEPT !.file = v]]
         /\ Set(p, "hash", v) => job' = [job EXCEPT ![p] = [job[p] EXCEPT !.hash = v]]
         /\ Set(p, "text", v) => job' = [job EXCEPT ![p] = [job[p] EXCEPT !.text = v]]
         /\ Set(p, "prior", v) => job' = [job EXCEPT ![p] = [job[p] EXCEPT !.prior = v]]
         /\ Set(p, "result", v) => job' = [job EXCEPT ![p] = [job[p] EXCEPT !.result = v]]
  BY DEF Set, ProcsOK

(* What changing one field of a job leaves of it. *)
LEMMA FieldKept ==
  ASSUME NEW j \in Jobs
  PROVE  /\ \A v \in Files : LET k == [j EXCEPT !.file = v] IN
              k \in Jobs /\ k.file = v /\ k.hash = j.hash /\ k.text = j.text /\ k.prior = j.prior
         /\ \A v \in Contents : LET k == [j EXCEPT !.hash = v] IN
              k \in Jobs /\ k.hash = v /\ k.file = j.file /\ k.text = j.text /\ k.prior = j.prior
         /\ \A v \in Contents \cup {None} : LET k == [j EXCEPT !.text = v] IN
              k \in Jobs /\ k.text = v /\ k.file = j.file /\ k.hash = j.hash /\ k.prior = j.prior
         /\ \A v \in Ids : LET k == [j EXCEPT !.prior = v] IN
              k \in Jobs /\ k.prior = v /\ k.file = j.file /\ k.hash = j.hash /\ k.text = j.text
         /\ \A v \in Results : LET k == [j EXCEPT !.result = v] IN
              k \in Jobs /\ k.result = v /\ k.file = j.file /\ k.hash = j.hash
              /\ k.text = j.text /\ k.prior = j.prior
  BY DEF Jobs

LEMMA Here ==
  ASSUME TypeInv, NEW p \in Procs
  PROVE  /\ ProcsOK /\ job[p] \in Jobs /\ pc[p] \in Steps /\ JobOK(pc[p], job[p])
         /\ pc[p] \notin Unheld => job[p].file \in Files
         /\ pc[p] \in Hashed => job[p].hash \in Contents
         /\ todo \in [Procs -> SUBSET Files]
<1>1. ProcsOK /\ job[p] \in Jobs /\ pc[p] \in Steps /\ JobOK(pc[p], job[p])
  BY DEF TypeInv, ProcsOK
<1>2. todo \in [Procs -> SUBSET Files]
  BY DEF TypeInv, ProcsOK
<1> QED BY <1>1, <1>2 DEF JobOK, Jobs, Hashed

(* A result is routed. *)
LEMMA Routed ==
  ASSUME TypeInv, NEW p \in Procs, pc[p] \in {"read", "check", "store"}, NEW r \in Results,
         Return(p, r), UNCHANGED todo
  PROVE  /\ ProcsOK' /\ pc'[p] = "route" /\ Only(p)
         /\ job'[p].file = job[p].file /\ job'[p].result = r
<1> DEFINE j == [job[p] EXCEPT !.result = r]
<1>1. Goto(p, "route") /\ job' = [job EXCEPT ![p] = j]
  BY Here, SetField DEF Return
<1>2. j \in Jobs /\ j.file = job[p].file /\ j.result = r
  BY Here, FieldKept
<1>3. job[p].file # None
  BY Here DEF JobOK, Unheld
<1> HIDE DEF j
<1>4. JobOK("route", j) /\ "route" \in Steps
  BY <1>2, <1>3 DEF JobOK, Unheld, Hashed, Steps
<1>5. todo' \in [Procs -> SUBSET Files]
  BY Here
<1>6. ProcsOK' /\ pc'[p] = "route" /\ job'[p] = j /\ Only(p)
  BY <1>1, <1>2, <1>4, <1>5, Goes, Here
<1> QED BY <1>2, <1>6

(* The steps that take a file, read it, look its path up and parse it. *)
LEMMA Forward ==
  ASSUME TypeInv, NEW p \in Procs, NEW step \in Steps, NEW j \in Jobs, JobOK(step, j),
         Goto(p, step), job' = [job EXCEPT ![p] = j], UNCHANGED todo
  PROVE  ProcsOK' /\ pc'[p] = step /\ job'[p] = j /\ Only(p)
<1>1. todo' \in [Procs -> SUBSET Files]
  BY Here
<1> QED BY <1>1, Goes, Here

Taken(p) ==
  \/ UNCHANGED <<pc, job>>
  \/ pc'[p] = "read" /\ job'[p].file \in Files /\ job'[p].prior = None /\ Only(p)

LEMMA NextFileMove ==
  ASSUME TypeInv, NEW p \in Procs, NextFile(p)
  PROVE  ProcsOK' /\ pc[p] = "next" /\ Taken(p)
<1>1. pc[p] = "next" /\ job[p] = NoJob
  BY Here DEF NextFile, JobOK, Unheld
<1>2. PICK f \in todo[p] : /\ todo' = [todo EXCEPT ![p] = @ \ {f}]
                           /\ IF inbox[f] = None THEN UNCHANGED <<pc, job>>
                              ELSE Set(p, "file", f) /\ Goto(p, "read")
  BY DEF NextFile
<1>3. f \in Files /\ todo' \in [Procs -> SUBSET Files]
  BY <1>2, Here
<1>4. CASE UNCHANGED <<pc, job>>
  BY <1>1, <1>3, <1>4, Here DEF ProcsOK, Taken
<1>5. CASE Set(p, "file", f) /\ Goto(p, "read")
  <2> DEFINE j == [job[p] EXCEPT !.file = f]
  <2>1. job' = [job EXCEPT ![p] = j]
    BY <1>5, Here, SetField
  <2>2. j \in Jobs /\ j.file = f /\ j.prior = None
    BY <1>1, <1>3, Here, FieldKept DEF NoJob
  <2> HIDE DEF j
  <2>3. JobOK("read", j) /\ "read" \in Steps
    BY <1>3, <2>2, InboxAssumption DEF JobOK, Unheld, Hashed, Steps
  <2>4. ProcsOK' /\ pc'[p] = "read" /\ job'[p] = j /\ Only(p)
    BY <1>3, <1>5, <2>1, <2>2, <2>3, Goes, Here
  <2> QED BY <1>1, <1>3, <2>2, <2>4 DEF Taken
<1> QED BY <1>2, <1>4, <1>5

ReadSome(p) ==
  /\ pc'[p] = "check" /\ Only(p) /\ inbox[job[p].file] # None
  /\ job'[p].file = job[p].file /\ job'[p].hash = inbox[job[p].file] /\ job'[p].prior = None

ToRoute(p, results) ==
  /\ pc'[p] = "route" /\ Only(p)
  /\ job'[p].file = job[p].file /\ job'[p].result \in results

LEMMA ReadMove ==
  ASSUME TypeInv, NEW p \in Procs, Read(p)
  PROVE  ProcsOK' /\ pc[p] = "read" /\ (ToRoute(p, {"failed"}) \/ ReadSome(p))
<1> DEFINE c == inbox[job[p].file]
<1>1. pc[p] = "read" /\ job[p].file \in Files /\ job[p].prior = None
  BY Here DEF Read, JobOK, Unheld
<1>2. CASE c = None
  BY <1>1, <1>2, Routed DEF Read, ToRoute, Results
<1>3. CASE c # None
  <2> DEFINE j == [job[p] EXCEPT !.hash = c]
  <2>1. Goto(p, "check") /\ job' = [job EXCEPT ![p] = j] /\ UNCHANGED todo
    BY <1>3, Here, SetField DEF Read
  <2>2. c \in Contents
    BY <1>1, <1>3 DEF TypeInv, DataOK
  <2>3. j \in Jobs /\ j.hash = c /\ j.file = job[p].file /\ j.prior = job[p].prior
    BY <2>2, Here, FieldKept
  <2> HIDE DEF j
  <2>4. JobOK("check", j) /\ "check" \in Steps
    BY <1>1, <1>3, <2>3, InboxAssumption DEF JobOK, Unheld, Hashed, Steps
  <2>5. ProcsOK' /\ pc'[p] = "check" /\ job'[p] = j /\ Only(p)
    BY <2>1, <2>3, <2>4, Forward
  <2> QED BY <1>1, <1>3, <2>3, <2>5 DEF ReadSome
<1> QED BY <1>2, <1>3

Looked(p) ==
  /\ pc'[p] = "parse" /\ Only(p) /\ ~Known(job[p].hash)
  /\ job'[p].file = job[p].file /\ job'[p].hash = job[p].hash
  /\ \/ At(job[p].file) = {} /\ job'[p].prior = None
     \/ job'[p].prior \in At(job[p].file)

LEMMA CheckMove ==
  ASSUME TypeInv, NEW p \in Procs, Check(p)
  PROVE  /\ ProcsOK' /\ pc[p] = "check"
         /\ (Known(job[p].hash) /\ ToRoute(p, {"unchanged"})) \/ Looked(p)
<1>1. /\ pc[p] = "check" /\ job[p].file \in Files /\ job[p].prior = None /\ UNCHANGED todo
      /\ job[p].hash # None /\ job[p].file # None
  BY Here, InboxAssumption DEF Check, JobOK, Unheld, Hashed
<1>2. CASE Known(job[p].hash)
  BY <1>1, <1>2, Routed DEF Check, ToRoute, Results
<1>3. CASE ~Known(job[p].hash) /\ At(job[p].file) = {}
  <2>1. Goto(p, "parse") /\ job' = [job EXCEPT ![p] = job[p]]
    BY <1>3, Here DEF Check, ProcsOK
  <2>2. JobOK("parse", job[p]) /\ "parse" \in Steps
    BY <1>1 DEF JobOK, Unheld, Hashed, Steps
  <2>3. ProcsOK' /\ pc'[p] = "parse" /\ job'[p] = job[p] /\ Only(p)
    BY <1>1, <2>1, <2>2, Forward, Here
  <2> QED BY <1>1, <1>3, <2>3 DEF Looked
<1>4. CASE ~Known(job[p].hash) /\ At(job[p].file) # {}
  <2>1. PICK i \in At(job[p].file) : Set(p, "prior", i)
    BY <1>4 DEF Check
  <2> DEFINE j == [job[p] EXCEPT !.prior = i]
  <2>2. Goto(p, "parse") /\ job' = [job EXCEPT ![p] = j]
    BY <1>4, <2>1, Here, SetField DEF Check
  <2>3. i \in Ids
    BY DEF At, Stored
  <2>4. j \in Jobs /\ j.prior = i /\ j.file = job[p].file /\ j.hash = job[p].hash
    BY <2>3, Here, FieldKept
  <2> HIDE DEF j
  <2>5. JobOK("parse", j) /\ "parse" \in Steps
    BY <1>1, <2>4 DEF JobOK, Unheld, Hashed, Steps
  <2>6. ProcsOK' /\ pc'[p] = "parse" /\ job'[p] = j /\ Only(p)
    BY <1>1, <2>2, <2>4, <2>5, Forward
  <2> QED BY <1>1, <1>4, <2>4, <2>6 DEF Looked
<1> QED BY <1>2, <1>3, <1>4

ParsedAs(p, c) ==
  /\ pc'[p] = "store" /\ Only(p)
  /\ job'[p].file = job[p].file /\ job'[p].hash = job[p].hash
  /\ job'[p].prior = job[p].prior /\ job'[p].text = TextOf(c)

LEMMA ParseMove ==
  ASSUME TypeInv, NEW p \in Procs, Parse(p)
  PROVE  ProcsOK' /\ pc[p] = "parse" /\ ParsedAs(p, inbox[job[p].file])
<1> DEFINE c == inbox[job[p].file]
           j == [job[p] EXCEPT !.text = TextOf(c)]
<1>1. /\ pc[p] = "parse" /\ job[p].file \in Files /\ job[p].hash # None /\ UNCHANGED todo
      /\ job[p].file # None
  BY Here, InboxAssumption DEF Parse, JobOK, Unheld, Hashed
<1>2. TextOf(c) \in Contents \cup {None}
  BY <1>1 DEF TypeInv, DataOK, TextOf
<1>3. Goto(p, "store") /\ job' = [job EXCEPT ![p] = j]
  BY Here, SetField DEF Parse, TextOf
<1>4. /\ j \in Jobs /\ j.text = TextOf(c) /\ j.file = job[p].file /\ j.hash = job[p].hash
      /\ j.prior = job[p].prior
  BY <1>2, Here, FieldKept
<1> HIDE DEF j
<1>5. JobOK("store", j) /\ "store" \in Steps
  BY <1>1, <1>4 DEF JobOK, Unheld, Hashed, Steps
<1>6. ProcsOK' /\ pc'[p] = "store" /\ job'[p] = j /\ Only(p)
  BY <1>1, <1>3, <1>4, <1>5, Forward
<1> QED BY <1>1, <1>4, <1>6 DEF ParsedAs

(* What a store has left in the corpus. *)
StoredAt(p, i) ==
  /\ Stores(p, i)
  /\ \A k \in Stored \ {job[p].prior} : source[k].hash # job[p].hash
  /\ \/ job[p].prior # None /\ i = job[p].prior
     \/ job[p].prior = None /\ i \in Ids \ Stored

LEMMA StoreMove ==
  ASSUME TypeInv, NEW p \in Procs, Store(p)
  PROVE  /\ ProcsOK' /\ pc[p] = "store" /\ UNCHANGED <<files, drops>>
         /\ \/ UNCHANGED source /\ ToRoute(p, {"failed"})
            \/ ToRoute(p, Results) /\ \E i \in Ids : StoredAt(p, i)
<1>1. pc[p] = "store" /\ UNCHANGED <<files, drops, todo>> /\ job[p].prior \in Ids \cup {None}
  BY Here DEF Store, Jobs
<1> DEFINE taken == \E i \in Stored \ {job[p].prior} : source[i].hash = job[p].hash
<1>2. CASE taken
  BY <1>1, <1>2, Routed DEF Store, ToRoute, Results
<1>3. CASE ~taken
  <2> DEFINE r == IF job[p].text = None THEN "failed"
                  ELSE IF job[p].prior = None THEN "ingested" ELSE "updated"
  <2>1. r \in Results /\ Return(p, r)
    BY <1>3 DEF Store, Results
  <2>2. \/ job[p].prior # None /\ Stores(p, job[p].prior)
        \/ job[p].prior = None /\ \E i \in Ids \ Stored : Stores(p, i)
    BY <1>3 DEF Store
  <2> HIDE DEF r
  <2>3. ProcsOK' /\ ToRoute(p, Results)
    BY <1>1, <2>1, Routed DEF ToRoute
  <2>4. \E i \in Ids : StoredAt(p, i)
    BY <1>1, <1>3, <2>2 DEF StoredAt
  <2> QED BY <1>1, <2>3, <2>4
<1> QED BY <1>2, <1>3

LEMMA RaiseMove ==
  ASSUME TypeInv, NEW p \in Procs, Raise(p)
  PROVE  ProcsOK' /\ pc[p] \in {"check", "store"} /\ ToRoute(p, {"failed"})
  BY Routed DEF Raise, ToRoute, Results

(* The steps that leave a processor without a file. *)
Freed(p, step) == pc'[p] = step /\ job'[p] = NoJob /\ Only(p)

LEMMA Frees ==
  ASSUME TypeInv, NEW p \in Procs
  PROVE  /\ Scan(p) => ProcsOK' /\ pc[p] = "idle" /\ Freed(p, "next")
         /\ Route(p) => ProcsOK' /\ pc[p] = "route" /\ Freed(p, "next")
         /\ Finish(p) => ProcsOK' /\ Freed(p, "idle")
         /\ Crash(p) => ProcsOK' /\ Freed(p, "idle")
<1>a. "idle" \in Steps /\ "next" \in Steps /\ "idle" \in Unheld /\ "next" \in Unheld
  BY DEF Steps, Unheld
<1>b. ASSUME NEW step \in Unheld, Goto(p, step), todo' \in [Procs -> SUBSET Files],
             job' = [job EXCEPT ![p] = NoJob]
      PROVE  ProcsOK' /\ Freed(p, step)
  <2>1. step \in Steps
    BY <1>a, <1>b DEF Unheld
  <2> QED BY <1>b, <2>1, NoJobIsJob, Goes, Here DEF Freed
<1>c. pc[p] \in Unheld /\ UNCHANGED job => job' = [job EXCEPT ![p] = NoJob]
  BY Here DEF JobOK, ProcsOK
<1>1. Scan(p) => ProcsOK' /\ pc[p] = "idle" /\ Freed(p, "next")
  <2> HAVE Scan(p)
  <2>1. todo' \in [Procs -> SUBSET Files]
    BY Here DEF Scan
  <2> QED BY <1>a, <1>b, <1>c, <2>1 DEF Scan
<1>2. Route(p) => ProcsOK' /\ pc[p] = "route" /\ Freed(p, "next")
  BY <1>a, <1>b, Here DEF Route, Done
<1>3. Finish(p) => ProcsOK' /\ Freed(p, "idle")
  BY <1>a, <1>b, <1>c, Here DEF Finish
<1>4. Crash(p) => ProcsOK' /\ Freed(p, "idle")
  <2> HAVE Crash(p)
  <2>1. todo' \in [Procs -> SUBSET Files]
    BY Here DEF Crash
  <2> QED BY <1>a, <1>b, <2>1 DEF Crash, Done
<1> QED BY <1>1, <1>2, <1>3, <1>4

LEMMA ProcsStep == TypeInv /\ [Next]_vars => ProcsOK'
<1> SUFFICES ASSUME TypeInv, [Next]_vars PROVE ProcsOK'
  OBVIOUS
<1>1. CASE UNCHANGED <<pc, todo, job>>
  BY <1>1 DEF TypeInv, ProcsOK
<1>2. ASSUME NEW p \in Procs, Processor(p) PROVE ProcsOK'
  BY <1>2, NextFileMove, ReadMove, CheckMove, ParseMove, StoreMove, RaiseMove, Frees DEF Processor
<1> QED BY <1>1, <1>2 DEF Next, Drop, vars

LEMMA NoSourceFields ==
  /\ NoSource \in Sources /\ NoSource.hash = None
  /\ \A s \in Sources : s # NoSource =>
       s.hash \in Contents /\ s.path \in Files /\ s.text \in Contents \cup {None}
  BY DEF Sources, NoSource

(* A stored source is a source. *)
LEMMA StoredRecord ==
  ASSUME TypeInv, NEW p \in Procs, pc[p] = "store", NEW i \in Ids, Stores(p, i)
  PROVE  /\ source' \in [Ids -> Sources] /\ source'[i] # NoSource
         /\ source'[i].hash = job[p].hash /\ source'[i].path = job[p].file
         /\ source'[i].text = job[p].text
         /\ \A k \in Ids \ {i} : source'[k] = source[k]
<1> DEFINE s == [hash |-> job[p].hash, path |-> job[p].file, text |-> job[p].text]
<1>1. job[p].hash \in Contents /\ job[p].file \in Files /\ job[p].text \in Contents \cup {None}
  BY Here DEF Hashed, Unheld, Jobs
<1>2. s \in Sources
  BY <1>1 DEF Sources
<1>3. s # NoSource /\ s.hash = job[p].hash /\ s.path = job[p].file /\ s.text = job[p].text
  <2>1. s.hash = job[p].hash /\ s.path = job[p].file /\ s.text = job[p].text
    OBVIOUS
  <2> QED BY <1>1, <2>1, InboxAssumption, NoSourceFields
<1>4. source \in [Ids -> Sources] /\ source' = [source EXCEPT ![i] = s]
  BY DEF TypeInv, DataOK, Stores
<1> HIDE DEF s
<1> QED BY <1>2, <1>3, <1>4

LEMMA DataStep == TypeInv /\ [Next]_vars => DataOK'
<1> SUFFICES ASSUME TypeInv, [Next]_vars PROVE DataOK'
  OBVIOUS
<1>a. DataOK
  BY DEF TypeInv
<1>1. ASSUME NEW f \in Files, Drop(f) PROVE DataOK'
  BY <1>a, <1>1, InboxAssumption DEF DataOK, Drop
<1>2. CASE UNCHANGED <<files, source, drops>>
  BY <1>a, <1>2 DEF DataOK, files
<1>3. ASSUME NEW p \in Procs, Store(p) PROVE DataOK'
  <2>1. CASE UNCHANGED source
    BY <1>2, <1>3, <2>1, StoreMove
  <2>2. CASE \E i \in Ids : StoredAt(p, i)
    <3>1. source' \in [Ids -> Sources]
      BY <1>3, <2>2, StoreMove, StoredRecord DEF StoredAt
    <3>2. UNCHANGED <<files, drops>>
      BY <1>3, StoreMove
    <3> QED BY <1>a, <3>1, <3>2 DEF DataOK, files
  <2> QED BY <1>3, <2>1, <2>2, StoreMove
<1>4. ASSUME NEW p \in Procs, Route(p) PROVE DataOK'
  <2>1. job[p].file \in Files
    BY <1>4, Here DEF Route, Unheld
  <2> QED BY <1>a, <1>4, <2>1 DEF DataOK, Route
<1>5. ASSUME NEW p \in Procs,
             \/ Scan(p) \/ NextFile(p) \/ Read(p) \/ Check(p) \/ Parse(p)
             \/ Raise(p) \/ Finish(p) \/ Crash(p)
      PROVE UNCHANGED <<files, source, drops>>
  BY <1>5 DEF Scan, NextFile, Read, Check, Parse, Raise, Finish, Crash
<1>6. UNCHANGED vars => UNCHANGED <<files, source, drops>>
  BY DEF vars, files
<1> QED BY <1>1, <1>2, <1>3, <1>4, <1>5, <1>6 DEF Next, Processor

LEMMA TypeInit == Init => TypeInv
<1> SUFFICES ASSUME Init PROVE TypeInv
  OBVIOUS
<1>1. DataOK
  BY NoSourceFields, InboxAssumption DEF Init, DataOK
<1>2. ProcsOK
  BY NoJobIsJob DEF Init, ProcsOK, Steps, Unheld
<1> QED BY <1>1, <1>2 DEF TypeInv

LEMMA TypeStep == TypeInv /\ [Next]_vars => TypeInv'
  BY DataStep, ProcsStep DEF TypeInv

(* Inbox, corpus and processors are typed, and a processor of process_inbox
   (inbox/process.py) has a file in hand exactly from its choice to its move,
   whatever else runs, crashes or fails. *)
THEOREM TypeCorrect == Spec => []TypeOK
<1>1. TypeInv => TypeOK
  BY DEF TypeInv, DataOK, ProcsOK, TypeOK, JobOK, Steps, Unheld
<1> QED BY <1>1, TypeInit, TypeStep, PTL DEF Spec

-----------------------------------------------------------------------------
(* One processor at a time.                                                *)

Lone(p) == \A q \in Procs \ {p} : pc[q] = "idle"

LEMMA ProcessorMoves ==
  ASSUME TypeInv, NEW p \in Procs, Processor(p)
  PROVE  Only(p) /\ (pc[p] = "idle" => Scan(p))
<1>1. NextFile(p) => Only(p)
  BY NextFileMove DEF Taken, Only
<1>2. Only(p)
  BY <1>1, ReadMove, CheckMove, ParseMove, StoreMove, RaiseMove, Frees
  DEF Processor, ToRoute, ReadSome, Looked, ParsedAs, Freed
<1> QED BY <1>2 DEF Processor, NextFile, Read, Check, Parse, Store, Raise, Route, Finish, Crash

LEMMA LoneStep ==
  ASSUME Alone, TypeInv, Single, NEW p \in Procs, Processor(p)
  PROVE  Lone(p) /\ Lone(p)' /\ Single'
<1>1. Lone(p)
  BY ProcessorMoves DEF Single, Scan, Lone
<1>2. Lone(p)'
  BY <1>1, ProcessorMoves DEF Lone, Only
<1> QED BY <1>1, <1>2 DEF Single, Lone

-----------------------------------------------------------------------------
(* What a processor has in hand stays so.                                  *)

LEMMA KnownKept == UNCHANGED source =>
    /\ Stored' = Stored
    /\ \A c : Known(c)' <=> Known(c)
    /\ \A f : At(f)' = At(f)
    /\ CorpusSound' <=> CorpusSound
<1> SUFFICES ASSUME UNCHANGED source
             PROVE  /\ Stored' = Stored
                    /\ \A c : Known(c)' <=> Known(c)
                    /\ \A f : At(f)' = At(f)
                    /\ CorpusSound' <=> CorpusSound
  OBVIOUS
<1>1. Stored' = Stored
  BY DEF Stored
<1> QED BY <1>1 DEF Known, At, CorpusSound

LEMMA HandForward ==
  ASSUME CorpusInv, NEW p \in Procs,
         NextFile(p) \/ Read(p) \/ Check(p) \/ Parse(p) \/ Raise(p)
  PROVE  Hand(p)'
<1>0. TypeInv /\ Hand(p)
  BY DEF CorpusInv, InHand
<1>1. UNCHANGED source /\ UNCHANGED inbox
  BY DEF NextFile, Read, Check, Parse, Raise, files
<1> USE KnownKept DEF Hand, Hashed
<1>2. CASE NextFile(p)
  BY <1>0, <1>2, NextFileMove DEF Taken
<1>3. CASE Read(p)
  BY <1>0, <1>1, <1>3, ReadMove DEF ToRoute, ReadSome
<1>4. CASE Check(p)
  <2>1. pc[p] = "check" /\ inbox[job[p].file] = job[p].hash /\ job[p].hash \in Contents
    BY <1>0, <1>4, CheckMove, Here
  <2>2. CASE Known(job[p].hash) /\ ToRoute(p, {"unchanged"})
    BY <1>1, <2>1, <2>2, InboxAssumption DEF ToRoute
  <2>3. CASE Looked(p)
    <3>1. \A i \in At(job[p].file) : i # None
      BY InboxAssumption DEF At, Stored
    <3>2. IF job'[p].prior = None THEN At(job[p].file) = {} ELSE job'[p].prior \in At(job[p].file)
      BY <2>3, <3>1 DEF Looked
    <3>3. At(job[p].file)' = At(job[p].file)
      BY <1>1, <2>3 DEF Looked, At, Stored
    <3> QED BY <1>1, <2>1, <2>3, <3>2, <3>3 DEF Looked
  <2> QED BY <1>0, <1>4, <2>2, <2>3, CheckMove
<1>5. CASE Parse(p)
  <2>1. /\ pc[p] = "parse" /\ inbox[job[p].file] = job[p].hash
        /\ IF job[p].prior = None THEN At(job[p].file) = {} ELSE job[p].prior \in At(job[p].file)
        /\ ParsedAs(p, inbox[job[p].file])
    BY <1>0, <1>5, ParseMove
  <2>2. At(job[p].file)' = At(job[p].file)
    BY <1>1, <2>1 DEF ParsedAs, At, Stored
  <2> QED BY <1>1, <2>1, <2>2 DEF ParsedAs
<1>6. CASE Raise(p)
  BY <1>0, <1>6, RaiseMove DEF ToRoute
<1> QED BY <1>2, <1>3, <1>4, <1>5, <1>6

LEMMA HandFreed ==
  ASSUME TypeInv, NEW p \in Procs, Scan(p) \/ Route(p) \/ Finish(p) \/ Crash(p)
  PROVE  Hand(p)'
  BY Frees DEF Freed, Hand, Hashed

(* What is stored is the text of the hash, at a path that had no source or
   under the id of the one it had. *)
LEMMA StoreSound ==
  ASSUME CorpusInv, NEW p \in Procs, Store(p)
  PROVE  Hand(p)' /\ CorpusSound'
<1>0. TypeInv /\ Hand(p) /\ CorpusSound
  BY DEF CorpusInv, InHand
<1>1. /\ pc[p] = "store" /\ UNCHANGED inbox
      /\ job[p].file \in Files /\ job[p].hash \in Contents
  BY <1>0, StoreMove, Here DEF files, Hashed, Unheld
<1>2. /\ inbox[job[p].file] = job[p].hash /\ job[p].text = TextOf(job[p].hash)
      /\ IF job[p].prior = None THEN At(job[p].file) = {} ELSE job[p].prior \in At(job[p].file)
  BY <1>0, <1>1 DEF Hand, Hashed
<1>3. CASE UNCHANGED source /\ ToRoute(p, {"failed"})
  BY <1>0, <1>3, KnownKept DEF ToRoute, Hand, Hashed
<1>4. CASE ToRoute(p, Results) /\ \E i \in Ids : StoredAt(p, i)
  <2>1. PICK i \in Ids : StoredAt(p, i)
    BY <1>4
  <2>2. /\ source'[i] # NoSource /\ source'[i].hash = job[p].hash
        /\ source'[i].path = job[p].file /\ source'[i].text = job[p].text
        /\ \A k \in Ids \ {i} : source'[k] = source[k]
    BY <1>0, <1>1, <2>1, StoredRecord DEF StoredAt
  <2>3. \A k \in Stored \ {i} : source[k].path # job[p].file
    <3> SUFFICES ASSUME NEW k \in Stored \ {i}, source[k].path = job[p].file PROVE FALSE
      OBVIOUS
    <3>1. k \in At(job[p].file)
      BY DEF At
    <3>2. i \in At(job[p].file)
      BY <1>2, <2>1, <3>1 DEF StoredAt
    <3> QED BY <1>0, <3>2 DEF At, CorpusSound
  <2>4. Stored' = Stored \cup {i}
    BY <2>2 DEF Stored
  <2>5. CorpusSound'
    <3>1. \A k \in Stored' :
            source'[k].text = IF source'[k].hash \in Bad THEN None ELSE source'[k].hash
      <4> SUFFICES ASSUME NEW k \in Stored'
                   PROVE source'[k].text = IF source'[k].hash \in Bad THEN None ELSE source'[k].hash
        OBVIOUS
      <4>1. CASE k = i
        BY <1>2, <2>2, <4>1 DEF TextOf
      <4>2. CASE k # i
        <5>1. k \in Stored /\ source'[k] = source[k]
          BY <2>2, <2>4, <4>2 DEF Stored
        <5> QED BY <1>0, <5>1 DEF CorpusSound
      <4> QED BY <4>1, <4>2
    <3>2. \A k, l \in Stored' : source'[k].path = source'[l].path => k = l
      <4>1. \A k \in Stored' \ {i} : k \in Stored \ {i} /\ source'[k] = source[k]
        BY <2>2, <2>4 DEF Stored
      <4> QED BY <1>0, <2>2, <2>3, <4>1 DEF CorpusSound
    <3> QED BY <3>1, <3>2 DEF CorpusSound
  <2>6. Hand(p)'
    <3>1. inbox'[job'[p].file] = job[p].hash
      BY <1>1, <1>2, <1>4 DEF ToRoute
    <3>2. \E k \in Stored' : source'[k].hash = inbox'[job'[p].file]
      BY <2>2, <2>4, <3>1
    <3> QED BY <1>1, <1>4, <3>1, <3>2, InboxAssumption DEF ToRoute, Hand, Hashed, Known
  <2> QED BY <2>5, <2>6
<1> QED BY <1>0, <1>3, <1>4, StoreMove

LEMMA CorpusStep ==
  ASSUME Alone, "replace" \notin Faults, CorpusInv, [Next]_vars
  PROVE  CorpusInv'
<1>0. TypeInv /\ Single /\ InHand /\ CorpusSound
  BY DEF CorpusInv
<1>1. TypeInv'
  BY <1>0, TypeStep
<1>2. CASE UNCHANGED vars
  <2>1. UNCHANGED source /\ UNCHANGED <<inbox, pc, job>>
    BY <1>2 DEF vars
  <2>2. Single' /\ CorpusSound'
    BY <1>0, <2>1, KnownKept DEF Single
  <2>3. InHand'
    BY <1>0, <2>1 DEF InHand, Hand, Known, At, Stored
  <2> QED BY <1>1, <2>2, <2>3 DEF CorpusInv
<1>3. ASSUME NEW f \in Files, Drop(f) PROVE CorpusInv'
  <2>1. UNCHANGED source /\ UNCHANGED <<pc, job>> /\ inbox[f] = None
    BY <1>3 DEF Drop
  <2>2. \A g \in Files \ {f} : inbox'[g] = inbox[g]
    BY <1>0, <1>3 DEF Drop, TypeInv, DataOK
  <2>3. Single' /\ CorpusSound'
    BY <1>0, <2>1, KnownKept DEF Single
  <2>4. ASSUME NEW p \in Procs PROVE Hand(p)'
    <3>1. Hand(p)
      BY <1>0 DEF InHand
    <3>2. pc[p] \in Hashed => inbox[job[p].file] # None /\ job[p].file \in Files
      <4> HAVE pc[p] \in Hashed
      <4>1. job[p].hash \in Contents /\ pc[p] \notin Unheld
        BY <1>0, Here DEF Hashed, Unheld
      <4> QED BY <1>0, <3>1, <4>1, Here, InboxAssumption DEF Hand
    <3>3. pc[p] = "route" => job[p].file \in Files
      BY <1>0, Here DEF Unheld
    <3>4. pc[p] \in Hashed \/ (pc[p] = "route" /\ job[p].result # "failed") =>
            inbox'[job[p].file] = inbox[job[p].file]
      BY <2>1, <2>2, <3>1, <3>2, <3>3 DEF Hand
    <3>5. Stored' = Stored
      BY <2>1 DEF Stored
    <3> QED BY <2>1, <3>1, <3>4, <3>5 DEF Hand, Hashed, Known, At
  <2> QED BY <1>1, <2>3, <2>4 DEF CorpusInv, InHand
<1>4. ASSUME NEW p \in Procs, Processor(p) PROVE CorpusInv'
  <2>1. Lone(p)' /\ Single'
    BY <1>0, <1>4, LoneStep
  <2>2. \A q \in Procs \ {p} : Hand(q)'
    BY <2>1 DEF Lone, Hand, Hashed
  <2>3. Hand(p)' /\ CorpusSound'
    <3>1. CASE Store(p)
      BY <3>1, StoreSound
    <3>2. CASE ~Store(p)
      <4>1. UNCHANGED source
        BY <1>4, <3>2 DEF Processor, Scan, NextFile, Read, Check, Parse, Raise, Route, Finish, Crash
      <4>2. Hand(p)'
        BY <1>0, <1>4, <3>2, HandForward, HandFreed DEF Processor
      <4> QED BY <1>0, <4>1, <4>2, KnownKept
    <3> QED BY <3>1, <3>2
  <2> QED BY <1>1, <2>1, <2>2, <2>3 DEF CorpusInv, InHand
<1> QED BY <1>2, <1>3, <1>4 DEF Next

LEMMA CorpusInit == Init => CorpusInv
<1> SUFFICES ASSUME Init PROVE CorpusInv
  OBVIOUS
<1>1. TypeInv
  BY TypeInit
<1>2. Stored = {}
  BY DEF Init, Stored
<1>3. Single /\ InHand /\ CorpusSound
  BY <1>2 DEF Init, Single, InHand, Hand, Hashed, CorpusSound
<1> QED BY <1>1, <1>3 DEF CorpusInv

(* A source has the text of the bytes that were hashed, or none when they
   cannot be parsed, and a path has one source, wherever a processor crashes
   or loses the database: ingest (ingest/pipeline.py) reads the file twice, and
   between the two the only processor has it in hand. *)
THEOREM SoundCorpus ==
  ASSUME Alone, "replace" \notin Faults
  PROVE  Spec => []CorpusSound
<1>1. CorpusInv => CorpusSound
  BY DEF CorpusInv
<1>2. CorpusInv /\ [Next]_vars => CorpusInv'
  BY CorpusStep
<1> QED BY <1>1, <1>2, CorpusInit, PTL DEF Spec

(* What _route (inbox/process.py) moves to processed/ has its hash in the
   corpus, also when the database failed or a processor died before. *)
THEOREM ProcessedKnown ==
  ASSUME Alone, "replace" \notin Faults
  PROVE  Spec => ProcessedIsKnown
<1> DEFINE Moved == \A f \in Files : processed'[f] # processed[f] => Known(processed'[f])
<1>1. CorpusInv /\ [Next]_vars => CorpusInv'
  BY CorpusStep
<1>2. CorpusInv /\ [Next]_vars => [Moved]_vars
  <2> SUFFICES ASSUME CorpusInv, Next, NEW f \in Files, processed'[f] # processed[f]
               PROVE  Known(processed'[f])
    OBVIOUS
  <2>1. TypeInv
    BY DEF CorpusInv
  <2>2. PICK p \in Procs : Route(p)
    BY DEF Next, Drop, Processor, Scan, NextFile, Read, Check, Parse, Store, Raise, Finish,
           Crash, files
  <2>3. /\ Succeeded(job[p].result) /\ f = job[p].file /\ processed'[f] = inbox[f]
    BY <2>1, <2>2 DEF Route, TypeInv, DataOK
  <2>4. pc[p] = "route" /\ Hand(p)
    BY <2>2 DEF Route, CorpusInv, InHand
  <2> QED BY <2>3, <2>4 DEF Hand, Succeeded
<1> QED BY <1>1, <1>2, CorpusInit, PTL DEF Spec, ProcessedIsKnown

-----------------------------------------------------------------------------
(* How a source's text is cut into chunks: Chunking.                       *)

(* The library knows that the naturals are well-founded: a set of them has a
   least element, and one with a bound a greatest. *)
LEMMA Least ==
  ASSUME NEW T \in SUBSET Nat, T # {}
  PROVE  \E x \in T : \A y \in T : x <= y
<1> DEFINE Less == {p \in Nat \X Nat : p[1] < p[2]}
<1>1. Less = OpToRel(<, Nat)
  BY Zenon DEF OpToRel
<1>2. IsWellFoundedOn(Less, Nat)
  BY <1>1, NatLessThanWellFounded, Zenon
<1> HIDE DEF Less
<1>3. PICK x \in T : \A y \in T : ~ (<<y, x>> \in Less)
  BY <1>2, WFMin
<1>4. ASSUME NEW y \in T PROVE x <= y
  <2>1. x \in Nat /\ y \in Nat
    OBVIOUS
  <2>2. ~(y < x)
    <3> SUFFICES ASSUME y < x PROVE <<y, x>> \in Less
      BY <1>3
    <3> DEFINE e == <<y, x>>
    <3>1. e \in Nat \X Nat /\ e[1] = y /\ e[2] = x
      BY <2>1
    <3> HIDE DEF e
    <3>2. e \in Less
      BY <3>1 DEF Less
    <3> QED BY <3>2 DEF e
  <2> QED BY <2>1, <2>2
<1> QED BY <1>4

LEMMA Greatest ==
  ASSUME NEW n \in Nat, NEW T \in SUBSET (0..n), T # {}
  PROVE  \E x \in T : \A y \in T : x >= y
<1> DEFINE U == {k \in 0..n : n - k \in T}
<1>1. \A x \in T : n - x \in U
  BY SMT
<1>2. U \in SUBSET Nat /\ U # {}
  <2>1. PICK x \in T : TRUE
    OBVIOUS
  <2>2. n - x \in U
    BY <1>1, <2>1
  <2>3. U \in SUBSET (0..n)
    OBVIOUS
  <2> HIDE DEF U
  <2>4. U \in SUBSET Nat
    BY <2>3
  <2> QED BY <2>2, <2>4
<1>3. PICK u \in U : \A v \in U : u <= v
  BY <1>2, Least
<1>4. ASSUME NEW y \in T PROVE n - u >= y
  <2>1. u <= n - y /\ y \in 0..n /\ u \in 0..n
    BY <1>1, <1>3
  <2> QED BY <2>1
<1> QED BY <1>3, <1>4

LEMMA MinMax ==
  ASSUME NEW n \in Nat, NEW T \in SUBSET (0..n), T # {}
  PROVE  /\ Min(T) \in T /\ \A y \in T : Min(T) <= y
         /\ Max(T) \in T /\ \A y \in T : y <= Max(T)
<1>1. \E x \in T : \A y \in T : x >= y
  BY Greatest
<1>2. \E x \in T : \A y \in T : x <= y
  <2>1. T \in SUBSET Nat
    OBVIOUS
  <2> QED BY <2>1, Least
<1>3. Max(T) \in T /\ \A y \in T : Max(T) >= y
  BY <1>1 DEF Max
<1>4. Min(T) \in T /\ \A y \in T : Min(T) <= y
  BY <1>2 DEF Min
<1> QED BY <1>3, <1>4

Characters == Letters \cup Blank

(* A piece of a text: as long as its window, with the window's characters. *)
LEMMA Piece ==
  ASSUME NEW s \in Seq(Characters), NEW m \in 1..Len(s), NEW n \in m..Len(s)
  PROVE  /\ SubSeq(s, m, n) \in Seq(Characters) /\ Len(SubSeq(s, m, n)) = n - m + 1
         /\ \A i \in 1..(n - m + 1) : SubSeq(s, m, n)[i] = s[m + i - 1]
<1>1. m \in Int /\ n \in Int /\ m <= n /\ \A i \in m..n : s[i] \in Characters
  OBVIOUS
<1>2. /\ SubSeq(s, m, n) \in Seq(Characters)
      /\ Len(SubSeq(s, m, n)) = IF m <= n THEN n - m + 1 ELSE 0
      /\ \A i \in 1..(n - m + 1) : SubSeq(s, m, n)[i] = s[m + i - 1]
  BY <1>1, SubSeqProperties
<1> QED BY <1>1, <1>2

(* Stripping a text that has a letter leaves the text between its first and
   its last letter. *)
LEMMA Stripped ==
  ASSUME NEW s \in Seq(Characters), NEW k \in 1..Len(s), s[k] \notin Blank
  PROVE  \E m, n \in 1..Len(s) :
           /\ m <= n /\ Strip(s) = SubSeq(s, m, n)
           /\ s[m] \notin Blank /\ s[n] \notin Blank
           /\ \A i \in 1..Len(s) : s[i] \notin Blank => m <= i /\ i <= n
<1> DEFINE solid == {i \in DOMAIN s : s[i] \notin Blank}
<1>1. DOMAIN s = 1..Len(s) /\ Len(s) \in Nat
  OBVIOUS
<1>2. solid \in SUBSET (0..Len(s)) /\ k \in solid /\ solid \in SUBSET (1..Len(s))
  BY <1>1
<1>3. Strip(s) = SubSeq(s, Min(solid), Max(solid))
  BY <1>2 DEF Strip
<1>4. \A i \in 1..Len(s) : s[i] \notin Blank <=> i \in solid
  BY <1>1
<1> HIDE DEF solid
<1>5. /\ Min(solid) \in solid /\ \A y \in solid : Min(solid) <= y
      /\ Max(solid) \in solid /\ \A y \in solid : y <= Max(solid)
  BY <1>1, <1>2, MinMax
<1> DEFINE m == Min(solid)
           n == Max(solid)
<1>6. m \in 1..Len(s) /\ n \in 1..Len(s) /\ m <= n
  BY <1>1, <1>2, <1>5
<1>7. \A i \in 1..Len(s) : s[i] \notin Blank => m <= i /\ i <= n
  BY <1>4, <1>5
<1> QED BY <1>3, <1>4, <1>5, <1>6, <1>7

LEMMA StrippedBlank ==
  ASSUME NEW s \in Seq(Characters), \A k \in 1..Len(s) : s[k] \in Blank
  PROVE  Strip(s) = <<>>
BY DEF Strip

(* Whatever is stripped, what is left is a text no longer than it was, and
   empty only if there was no letter. *)
LEMMA StripFacts ==
  ASSUME NEW s \in Seq(Characters)
  PROVE  /\ Strip(s) \in Seq(Characters) /\ Len(Strip(s)) <= Len(s)
         /\ (\E k \in 1..Len(s) : s[k] \notin Blank) => Len(Strip(s)) >= 1
<1>1. CASE \A k \in 1..Len(s) : s[k] \in Blank
  <2>1. Strip(s) = <<>>
    BY <1>1, StrippedBlank
  <2>2. <<>> \in Seq(Characters) /\ Len(<<>>) <= Len(s)
    OBVIOUS
  <2> QED BY <1>1, <2>1, <2>2
<1>2. CASE \E k \in 1..Len(s) : s[k] \notin Blank
  <2>1. PICK m, n \in 1..Len(s) : m <= n /\ Strip(s) = SubSeq(s, m, n)
    BY <1>2, Stripped
  <2>2. /\ SubSeq(s, m, n) \in Seq(Characters) /\ Len(SubSeq(s, m, n)) = n - m + 1
    <3>1. m \in 1..Len(s) /\ n \in m..Len(s)
      BY <2>1
    <3> QED BY <3>1, Piece
  <2> QED BY <2>1, <2>2
<1> QED BY <1>1, <1>2

(* There is nothing to strip twice. *)
LEMMA StripTwice ==
  ASSUME NEW s \in Seq(Characters)
  PROVE  Strip(Strip(s)) = Strip(s)
<1>1. CASE \A k \in 1..Len(s) : s[k] \in Blank
  <2>1. Strip(s) = <<>>
    BY <1>1, StrippedBlank
  <2>2. <<>> \in Seq(Characters) /\ \A k \in 1..Len(<<>>) : <<>>[k] \in Blank
    OBVIOUS
  <2> QED BY <2>1, <2>2, StrippedBlank
<1>2. CASE \E k \in 1..Len(s) : s[k] \notin Blank
  <2>1. PICK m, n \in 1..Len(s) :
           m <= n /\ Strip(s) = SubSeq(s, m, n) /\ s[m] \notin Blank /\ s[n] \notin Blank
    BY <1>2, Stripped
  <2> DEFINE t == Strip(s)
  <2>2. /\ t \in Seq(Characters) /\ Len(t) = n - m + 1
        /\ \A i \in 1..(n - m + 1) : t[i] = s[m + i - 1]
    BY <2>1, Piece
  <2>3. 1 \in 1..Len(t) /\ Len(t) \in 1..Len(t) /\ t[1] \notin Blank /\ t[Len(t)] \notin Blank
    BY <2>1, <2>2
  <2> HIDE DEF t
  <2>4. PICK a, b \in 1..Len(t) :
           /\ a <= b /\ Strip(t) = SubSeq(t, a, b)
           /\ \A i \in 1..Len(t) : t[i] \notin Blank => a <= i /\ i <= b
    BY <2>2, <2>3, Stripped
  <2>5. a = 1 /\ b = Len(t)
    BY <2>2, <2>3, <2>4
  <2>6. SubSeq(t, 1, Len(t)) = t
    BY <2>2, SubSeqFull
  <2> QED BY <2>4, <2>5, <2>6 DEF t
<1> QED BY <1>1, <1>2

LEMMA RFindFacts ==
  ASSUME NEW s \in Seq(Characters), NEW c, NEW from \in Nat, NEW to \in Nat, to <= Len(s)
  PROVE  RFind(s, c, from, to) \in {-1} \cup (from..(to - 1))
<1> DEFINE hits == {i \in from..(to - 1) : s[i + 1] = c}
<1>1. hits \in SUBSET (0..to)
  OBVIOUS
<1>2. RFind(s, c, from, to) = IF hits = {} THEN -1 ELSE Max(hits)
  BY DEF RFind
<1>3. hits \subseteq from..(to - 1)
  OBVIOUS
<1> HIDE DEF hits
<1>4. hits # {} => Max(hits) \in hits
  BY <1>1, MinMax
<1> QED BY <1>2, <1>3, <1>4

(* A window ends behind its start and not behind its target, and the next one
   starts in it or at its end. *)
LEMMA BoundaryFacts ==
  ASSUME text \in Seq(Characters), NEW from \in Nat, NEW to \in Nat, from < to, to <= Len(text)
  PROVE  Boundary(from, to) \in (from + 1)..to
<1>1. /\ RFind(text, Space, from + 1, to) \in {-1} \cup ((from + 1)..(to - 1))
      /\ RFind(text, Newline, from + 1, to) \in {-1} \cup ((from + 1)..(to - 1))
  <2>1. from + 1 \in Nat
    OBVIOUS
  <2> QED BY <2>1, RFindFacts
<1> QED BY <1>1 DEF Boundary

LEMMA NextStartFacts ==
  ASSUME overlap \in Nat, NEW from \in Nat, NEW boundary \in Nat, from < boundary
  PROVE  NextStart(from, boundary) \in (from + 1)..boundary
BY DEF NextStart

(* What a window has is stored, for all characters up to n that are not blank,
   as it is or with other blanks. *)
InWindow(i) ==
  \E w \in spans : w[1] < i /\ i <= w[2] /\ HashSeen(Strip(Slice(text, w[1], w[2])))
Kept(n) == \A i \in 1..n : text[i] \notin Blank => InWindow(i)

Windowed == \A w \in spans : w[1] \in 0..(w[2] - 1) /\ w[2] <= Len(text)
Sized == /\ \A c \in chunks : Len(c) \in 1..target
         /\ \A c, d \in chunks : Squeezed(c) = Squeezed(d) => c = d

CutInv ==
  /\ text \in Seq(Characters)
  /\ target \in Nat \ {0} /\ overlap \in Nat /\ start \in Nat
  /\ phase \in {"section", "windows", "done"}
  /\ phase = "section" => start = 0 /\ chunks = {} /\ spans = {}
  /\ phase = "windows" => start < Len(text) /\ Kept(start)
  /\ phase = "done" => Kept(Len(text))
  /\ Windowed /\ Sized

LEMMA CutInit == ChunkingAssumption /\ ChunkInit => CutInv
<1> SUFFICES ASSUME ChunkingAssumption, ChunkInit PROVE CutInv
  OBVIOUS
<1>1. text \in Seq(Characters)
  <2>1. PICK n \in 0..MaxLength : text \in [1..n -> Characters]
    BY DEF ChunkInit, Texts, Characters
  <2>2. n \in Nat
    BY DEF ChunkingAssumption
  <2> QED BY <2>1, <2>2
<1> QED BY <1>1 DEF ChunkInit, ChunkingAssumption, CutInv, Windowed, Sized

LEMMA StoreKeeps ==
  ASSUME text \in Seq(Characters), target \in Nat \ {0}, Windowed, Sized,
         NEW from \in Nat, NEW to \in Nat, from < to, to <= Len(text), to - from <= target,
         AddChunk(from, to), UNCHANGED <<text, target>>
  PROVE  /\ Windowed' /\ Sized'
         /\ \A i \in 1..to : (i > from \/ InWindow(i)) /\ text[i] \notin Blank => InWindow(i)'
<1> DEFINE s == Slice(text, from, to)
           c == Strip(s)
<1>1. /\ chunks' = IF c = <<>> \/ HashSeen(c) THEN chunks ELSE chunks \cup {c}
      /\ spans' = spans \cup {<<from, to>>}
  BY DEF AddChunk
<1>2. /\ s \in Seq(Characters) /\ Len(s) = to - from
      /\ \A i \in 1..(to - from) : s[i] = text[from + i]
  <2>1. from + 1 \in 1..Len(text) /\ to \in (from + 1)..Len(text) /\ s = SubSeq(text, from + 1, to)
    BY DEF Slice
  <2> HIDE DEF s
  <2>2. /\ SubSeq(text, from + 1, to) \in Seq(Characters)
        /\ Len(SubSeq(text, from + 1, to)) = to - (from + 1) + 1
        /\ \A i \in 1..(to - (from + 1) + 1) : SubSeq(text, from + 1, to)[i] = text[from + 1 + i - 1]
    BY <2>1, Piece
  <2> QED BY <2>1, <2>2
<1> HIDE DEF s
<1>3. /\ c \in Seq(Characters) /\ Len(c) <= to - from
      /\ (\E k \in 1..(to - from) : s[k] \notin Blank) => Len(c) >= 1
  BY <1>2, StripFacts
<1> HIDE DEF c
<1>4. c # <<>> => Len(c) \in 1..target
  BY <1>3
<1>5. Sized'
  <2>1. \A d \in chunks' : Len(d) \in 1..target'
    BY <1>1, <1>4 DEF Sized
  <2>2. \A d, e \in chunks' : Squeezed(d) = Squeezed(e) => d = e
    BY <1>1 DEF Sized, HashSeen
  <2> QED BY <2>1, <2>2 DEF Sized
<1>6. Windowed'
  BY <1>1 DEF Windowed
<1>7. ASSUME NEW i \in 1..to, text[i] \notin Blank, i > from \/ InWindow(i)
      PROVE  InWindow(i)'
  <2>1. CASE InWindow(i)
    <3>1. \A piece : HashSeen(piece) => HashSeen(piece)'
      BY <1>1 DEF HashSeen
    <3>2. PICK w \in spans : w[1] < i /\ i <= w[2] /\ HashSeen(Strip(Slice(text, w[1], w[2])))
      BY <2>1 DEF InWindow
    <3>3. w \in spans' /\ HashSeen(Strip(Slice(text, w[1], w[2])))'
      BY <1>1, <3>1, <3>2
    <3> QED BY <3>2, <3>3 DEF InWindow
  <2>2. CASE i > from
    <3>1. i - from \in 1..(to - from) /\ s[i - from] = text[i]
      BY <1>2, <2>2
    <3>2. c # <<>>
      BY <1>3, <1>7, <3>1
    <3>3. PICK w \in spans' : w = <<from, to>>
      BY <1>1
    <3>4. \E d \in chunks' : Squeezed(d) = Squeezed(c)
      BY <1>1, <3>2 DEF HashSeen
    <3>5. Strip(Slice(text', w[1], w[2])) = c
      BY <3>3 DEF c, s
    <3>6. HashSeen(Strip(Slice(text, w[1], w[2])))'
      BY <3>4, <3>5, Zenon DEF HashSeen
    <3> QED BY <2>2, <3>3, <3>6 DEF InWindow
  <2> QED BY <1>7, <2>1, <2>2
<1> QED BY <1>5, <1>6, <1>7

LEMMA SectionKeeps == CutInv /\ Section => CutInv'
<1> SUFFICES ASSUME CutInv, Section PROVE CutInv'
  OBVIOUS
<1> DEFINE body == Strip(text)
<1>1. body \in Seq(Characters)
  BY StripFacts DEF CutInv
<1>2. /\ phase = "section" /\ text' = body /\ start = 0 /\ chunks = {} /\ spans = {}
      /\ UNCHANGED <<target, overlap, start>>
      /\ IF Len(body) > target
         THEN phase' = "windows" /\ UNCHANGED <<chunks, spans>>
         ELSE /\ phase' = "done" /\ chunks' = {body} \ {<<>>}
              /\ spans' = IF body = <<>> THEN {} ELSE {<<0, Len(body)>>}
  <2>1. Fits(body) <=> ~(Len(body) > target)
    BY <1>1 DEF Fits, CutInv
  <2> QED BY <2>1 DEF Section, CutInv
<1>3. Strip(body) = body
  BY StripTwice DEF CutInv
<1> HIDE DEF body
<1>4. CASE Len(body) > target
  BY <1>1, <1>2, <1>4 DEF CutInv, Windowed, Sized, Kept
<1>5. CASE ~(Len(body) > target) /\ body = <<>>
  BY <1>1, <1>2, <1>5 DEF CutInv, Windowed, Sized, Kept
<1>6. CASE ~(Len(body) > target) /\ body # <<>>
  <2>1. chunks' = {body} /\ spans' = {<<0, Len(body)>>} /\ phase' = "done" /\ text' = body
        /\ Len(body) \in 1..target
    BY <1>1, <1>2, <1>6 DEF CutInv
  <2>2. Windowed' /\ Sized'
    BY <1>2, <2>1 DEF Windowed, Sized
  <2>3. Slice(body, 0, Len(body)) = body
    BY <1>1, SubSeqFull DEF Slice
  <2>4. PICK w \in spans' : w[1] = 0 /\ w[2] = Len(body)
    BY <2>1
  <2>5. HashSeen(Strip(Slice(text, w[1], w[2])))'
    <3>1. Strip(Slice(text', w[1], w[2])) = body
      BY <1>3, <2>1, <2>3, <2>4
    <3>2. body \in chunks'
      BY <2>1
    <3>3. \E d \in chunks' : Squeezed(d) = Squeezed(Strip(Slice(text', w[1], w[2])))
      BY <3>1, <3>2, Zenon
    <3> QED BY <3>3 DEF HashSeen
  <2>6. \A i \in 1..Len(text') : InWindow(i)'
    BY <2>1, <2>4, <2>5 DEF InWindow
  <2> QED BY <1>1, <1>2, <2>1, <2>2, <2>6 DEF CutInv, Kept
<1> QED BY <1>4, <1>5, <1>6

LEMMA WindowKeeps == CutInv /\ Window => CutInv'
<1> SUFFICES ASSUME CutInv, Window PROVE CutInv'
  OBVIOUS
<1> DEFINE b == Boundary(start, start + target)
<1>1. /\ phase = "windows" /\ start + target < Len(text) /\ AddChunk(start, b)
      /\ start' = NextStart(start, b) /\ UNCHANGED <<text, target, overlap, phase>>
  BY DEF Window
<1>2. /\ text \in Seq(Characters) /\ target \in Nat \ {0} /\ overlap \in Nat /\ start \in Nat
      /\ Windowed /\ Sized /\ Kept(start)
  BY <1>1 DEF CutInv
<1>3. b \in (start + 1)..(start + target)
  BY <1>1, <1>2, BoundaryFacts
<1> HIDE DEF b
<1>4. b \in Nat /\ start < b /\ b <= Len(text) /\ b - start <= target
  BY <1>1, <1>2, <1>3
<1>5. start' \in (start + 1)..b
  BY <1>1, <1>2, <1>4, NextStartFacts
<1>6. /\ Windowed' /\ Sized'
      /\ \A i \in 1..b : (i > start \/ InWindow(i)) /\ text[i] \notin Blank => InWindow(i)'
  BY <1>1, <1>2, <1>4, StoreKeeps
<1>7. Kept(start)'
  BY <1>1, <1>2, <1>4, <1>5, <1>6 DEF Kept
<1> QED BY <1>1, <1>2, <1>4, <1>5, <1>6, <1>7 DEF CutInv

LEMMA LastWindowKeeps == CutInv /\ LastWindow => CutInv'
<1> SUFFICES ASSUME CutInv, LastWindow PROVE CutInv'
  OBVIOUS
<1>1. /\ phase = "windows" /\ start + target >= Len(text) /\ AddChunk(start, Len(text))
      /\ phase' = "done" /\ UNCHANGED <<text, target, overlap, start>>
  BY DEF LastWindow
<1>2. /\ text \in Seq(Characters) /\ target \in Nat \ {0} /\ overlap \in Nat /\ start \in Nat
      /\ Windowed /\ Sized /\ Kept(start) /\ start < Len(text)
  BY <1>1 DEF CutInv
<1> DEFINE to == Len(text)
<1>3. to \in Nat /\ start < to /\ to <= Len(text) /\ to - start <= target
  BY <1>1, <1>2
<1>4. /\ Windowed' /\ Sized'
      /\ \A i \in 1..to : (i > start \/ InWindow(i)) /\ text[i] \notin Blank => InWindow(i)'
  BY <1>1, <1>2, <1>3, StoreKeeps
<1>5. Kept(Len(text))'
  BY <1>1, <1>2, <1>4 DEF Kept
<1> QED BY <1>1, <1>2, <1>4, <1>5 DEF CutInv

(* However long a section is, whatever the target and the overlap, and      *)
(* wherever its blanks are: when chunk_sections has ended, every character  *)
(* that is not blank is in a window whose words are stored, no words are    *)
(* stored twice, and nothing longer than the target is.                     *)
THEOREM NothingIsLost ==
  ASSUME ChunkingAssumption
  PROVE  ChunkSpec => []NothingLost
<1>1. ChunkInit => CutInv
  BY CutInit
<1>2. CutInv /\ [ChunkNext]_(chunkVars) => CutInv'
  <2> SUFFICES ASSUME CutInv, [ChunkNext]_(chunkVars) PROVE CutInv'
    OBVIOUS
  <2>1. CASE UNCHANGED chunkVars
    BY <2>1 DEF chunkVars, CutInv, Kept, InWindow, HashSeen, Windowed, Sized
  <2> QED BY <2>1, SectionKeeps, WindowKeeps, LastWindowKeeps DEF ChunkNext
<1>3. CutInv => NothingLost
  <2> SUFFICES ASSUME CutInv PROVE NothingLost
    OBVIOUS
  <2>1. DOMAIN text = 1..Len(text)
    BY DEF CutInv
  <2> QED BY <2>1 DEF CutInv, Kept, InWindow, Windowed, Sized, NothingLost
<1> QED BY <1>1, <1>2, <1>3, PTL DEF ChunkSpec

(* What rfind returns is the last one in the range, if there is one. *)
LEMMA RFindLast ==
  ASSUME NEW s \in Seq(Characters), NEW c, NEW from \in Nat, NEW to \in Nat, to <= Len(s),
         NEW i \in from..(to - 1), s[i + 1] = c
  PROVE  RFind(s, c, from, to) >= i
<1> DEFINE hits == {k \in from..(to - 1) : s[k + 1] = c}
<1>1. hits \in SUBSET (0..to) /\ i \in hits
  OBVIOUS
<1>2. RFind(s, c, from, to) = IF hits = {} THEN -1 ELSE Max(hits)
  BY DEF RFind
<1>3. \A k \in hits : k \in Int
  OBVIOUS
<1> HIDE DEF hits
<1>4. hits # {} /\ i <= Max(hits) /\ Max(hits) \in hits
  BY <1>1, MinMax
<1> QED BY <1>2, <1>3, <1>4

LEMMA RFindHit ==
  ASSUME NEW s \in Seq(Characters), NEW c, NEW from \in Nat, NEW to \in Nat, to <= Len(s),
         RFind(s, c, from, to) # -1
  PROVE  s[RFind(s, c, from, to) + 1] = c
<1> DEFINE hits == {k \in from..(to - 1) : s[k + 1] = c}
<1>1. hits \in SUBSET (0..to) /\ \A k \in hits : s[k + 1] = c
  OBVIOUS
<1>2. RFind(s, c, from, to) = IF hits = {} THEN -1 ELSE Max(hits)
  BY DEF RFind
<1> HIDE DEF hits
<1>3. hits # {} => Max(hits) \in hits
  BY <1>1, MinMax
<1> QED BY <1>1, <1>2, <1>3

(* A window of the same length that starts later does not end earlier, with
   whatever blanks: a blank that is found where the earlier window found none
   is behind it. *)
LEMMA BoundaryAdvances ==
  ASSUME text \in Seq(Characters), NEW from \in Nat, NEW to \in Nat, NEW later \in Nat,
         NEW until \in Nat, from < later, from < to, to < until, later < until,
         until <= Len(text)
  PROVE  Boundary(from, to) <= Boundary(later, until)
<1> DEFINE sp  == RFind(text, Space, from + 1, to)
           nl  == RFind(text, Newline, from + 1, to)
           sp2 == RFind(text, Space, later + 1, until)
           nl2 == RFind(text, Newline, later + 1, until)
           b   == Boundary(from, to)
<1>1. /\ sp \in {-1} \cup ((from + 1)..(to - 1)) /\ nl \in {-1} \cup ((from + 1)..(to - 1))
      /\ sp2 \in {-1} \cup ((later + 1)..(until - 1))
      /\ nl2 \in {-1} \cup ((later + 1)..(until - 1))
  <2>1. from + 1 \in Nat /\ later + 1 \in Nat /\ to <= Len(text)
    BY LenProperties
  <2> QED BY <2>1, RFindFacts
<1>2. /\ b = IF sp > from THEN sp ELSE IF nl > from THEN nl ELSE to
      /\ Boundary(later, until) = IF sp2 > later THEN sp2
                                  ELSE IF nl2 > later THEN nl2 ELSE until
  BY DEF Boundary
(* A blank of either kind that both windows reach. *)
<1>3. ASSUME NEW c, NEW i \in (later + 1)..(until - 1), text[i + 1] = c
      PROVE  RFind(text, c, later + 1, until) >= i
  <2>1. later + 1 \in Nat
    OBVIOUS
  <2> QED BY <1>3, <2>1, RFindLast
<1>4. ASSUME NEW c, NEW i \in (from + 1)..(to - 1), text[i + 1] = c
      PROVE  RFind(text, c, from + 1, to) >= i
  <2>1. from + 1 \in Nat /\ to <= Len(text)
    BY LenProperties
  <2> QED BY <1>4, <2>1, RFindLast
<1>5. /\ sp # -1 => text[sp + 1] = Space
      /\ nl # -1 => text[nl + 1] = Newline
      /\ sp2 # -1 => text[sp2 + 1] = Space
      /\ nl2 # -1 => text[nl2 + 1] = Newline
  <2>1. from + 1 \in Nat /\ later + 1 \in Nat /\ to <= Len(text)
    BY LenProperties
  <2> QED BY <2>1, RFindHit
(* A blank of the later window is behind the earlier one, or known to it. *)
<1>6. sp2 # -1 => sp2 >= to \/ sp >= sp2
  BY <1>1, <1>4, <1>5
<1>7. nl2 # -1 => nl2 >= to \/ nl >= nl2
  BY <1>1, <1>4, <1>5
<1>8. sp # -1 /\ sp > later => sp2 >= sp
  BY <1>1, <1>3, <1>5
<1>9. nl # -1 /\ nl > later => nl2 >= nl
  BY <1>1, <1>3, <1>5
<1> HIDE DEF sp, nl, sp2, nl2, b
<1>10. b <= Boundary(later, until)
  <2>1. CASE sp > from
    BY <1>1, <1>2, <1>8, <2>1
  <2>2. CASE ~(sp > from) /\ nl > from
    BY <1>1, <1>2, <1>6, <1>9, <2>2
  <2>3. CASE ~(sp > from) /\ ~(nl > from)
    BY <1>1, <1>2, <1>6, <1>7, <2>3
  <2> QED BY <2>1, <2>2, <2>3
<1> QED BY <1>10 DEF b

(* Where the next window can end at the earliest. *)
Furthest == IF start + target < Len(text) THEN Boundary(start, start + target) ELSE Len(text)
AdvanceInv ==
  /\ CutInv /\ spans \subseteq Nat \X Nat
  /\ phase = "windows" => \A v \in spans : v[1] < start /\ v[2] <= Furthest

LEMMA AdvanceStep == AdvanceInv /\ [ChunkNext]_chunkVars => AdvanceInv'
<1> SUFFICES ASSUME AdvanceInv, [ChunkNext]_chunkVars PROVE AdvanceInv'
  OBVIOUS
<1>1. CutInv /\ CutInv'
  BY SectionKeeps, WindowKeeps, LastWindowKeeps
     DEF ChunkNext, AdvanceInv, chunkVars, CutInv, Kept, InWindow, HashSeen, Windowed, Sized
<1>2. CASE UNCHANGED chunkVars
  BY <1>1, <1>2 DEF chunkVars, AdvanceInv, Furthest, Boundary, RFind
<1>3. CASE Section
  <2>1. spans = {} /\ (phase' = "windows" => spans' = {})
    BY <1>1, <1>3 DEF Section, CutInv
  <2>2. Strip(text) \in Seq(Characters)
    BY <1>1, StripFacts DEF CutInv
  <2>3. spans' \subseteq Nat \X Nat
    BY <1>3, <2>1, <2>2, LenProperties DEF Section
  <2> QED BY <1>1, <2>1, <2>3 DEF AdvanceInv
<1>4. CASE Window
  <2> DEFINE b == Boundary(start, start + target)
  <2>1. /\ phase = "windows" /\ start + target < Len(text)
        /\ spans' = spans \cup {<<start, b>>}
        /\ start' = NextStart(start, b) /\ UNCHANGED <<text, target, overlap, phase>>
    BY <1>4 DEF Window, AddChunk
  <2>2. /\ text \in Seq(Characters) /\ target \in Nat \ {0} /\ overlap \in Nat /\ start \in Nat
        /\ Windowed /\ start' \in Nat /\ start' < Len(text)
    BY <1>1, <2>1 DEF CutInv
  <2>3. b \in (start + 1)..(start + target)
    BY <2>1, <2>2, BoundaryFacts
  <2>4. Furthest = b
    BY <2>1 DEF Furthest
  <2>5. start' \in (start + 1)..b
    <3> HIDE DEF b
    <3> QED BY <2>1, <2>2, <2>3, NextStartFacts
  <2>6. b <= Furthest' /\ Furthest' \in Nat
    <3>1. CASE ~(start' + target < Len(text))
      <4> HIDE DEF b
      <4> QED BY <2>1, <2>2, <2>3, <3>1 DEF Furthest
    <3>2. CASE start' + target < Len(text)
      <4>1. Furthest' = Boundary(start, start + target)'
        <5> HIDE DEF b
        <5> QED BY <2>1, <3>2 DEF Furthest
      <4>2. Boundary(start, start + target)' = Boundary(start', start' + target)
        BY <2>1 DEF Boundary, RFind
      <4>3. /\ start + target \in Nat /\ start' + target \in Nat /\ start < start'
            /\ start < start + target /\ start + target < start' + target
            /\ start' < start' + target /\ start' + target <= Len(text)
        <5>1. start' > start /\ start' \in Nat
          BY <2>2, <2>5
        <5>2. start \in Nat /\ target \in Nat /\ target > 0 /\ Len(text) \in Nat
          BY <2>2, LenProperties
        <5>3. \A x, y, t, n \in Nat : x < y /\ t > 0 /\ y + t < n =>
                /\ x + t \in Nat /\ y + t \in Nat /\ x < x + t /\ x + t < y + t
                /\ y < y + t /\ y + t <= n
          OBVIOUS
        <5> QED BY <3>2, <5>1, <5>2, <5>3
      <4>4. b <= Boundary(start', start' + target)
        BY <2>2, <4>3, BoundaryAdvances
      <4>5. Boundary(start', start' + target) \in Nat
        BY <2>2, <4>3, BoundaryFacts
      <4> QED BY <4>1, <4>2, <4>4, <4>5
    <3> QED BY <3>1, <3>2
  <2> HIDE DEF b
  <2>7. ASSUME NEW v \in spans' PROVE v[1] < start' /\ v[2] <= Furthest'
    <3>1. CASE v \in spans
      <4>1. v[1] < start /\ v[2] <= b /\ v[1] \in Nat /\ v[2] \in Nat
        BY <2>1, <2>4, <3>1 DEF AdvanceInv
      <4> QED BY <2>2, <2>3, <2>5, <2>6, <4>1
    <3>2. CASE v = <<start, b>>
      BY <2>2, <2>5, <2>6, <3>2
    <3> QED BY <2>1, <3>1, <3>2
  <2>8. spans' \subseteq Nat \X Nat
    BY <2>1, <2>2, <2>3 DEF AdvanceInv
  <2> QED BY <1>1, <2>7, <2>8 DEF AdvanceInv
<1>5. CASE LastWindow
  <2>1. phase' = "done" /\ spans' = spans \cup {<<start, Len(text)>>}
    BY <1>5 DEF LastWindow, AddChunk
  <2>2. start \in Nat /\ Len(text) \in Nat
    BY <1>1, LenProperties DEF CutInv
  <2> QED BY <1>1, <2>1, <2>2 DEF AdvanceInv
<1> QED BY <1>2, <1>3, <1>4, <1>5 DEF ChunkNext

(* However long a section is, and whatever the target, the overlap and the
   blanks: each round of the loop of _sliding_windows (chunking.py:86-98) starts
   behind the one before, so that it cannot go on for more rounds than there are
   characters, and cuts a window that ends no earlier than any before it. *)
THEOREM WindowsGoForward ==
  ASSUME ChunkingAssumption
  PROVE  ChunkSpec => WindowsAdvance
<1> DEFINE Onward ==
      /\ phase = "windows" /\ phase' = "windows" => start < start'
      /\ \A w \in spans' \ spans : \A v \in spans : v[1] < w[1] /\ v[2] <= w[2]
<1>1. ChunkInit => AdvanceInv
  <2>1. ChunkInit => phase = "section" /\ spans = {}
    BY DEF ChunkInit
  <2> QED BY <2>1, CutInit DEF AdvanceInv
<1>2. AdvanceInv /\ [ChunkNext]_chunkVars => AdvanceInv'
  BY AdvanceStep
<1>3. AdvanceInv /\ [ChunkNext]_chunkVars => [Onward]_chunkVars
  <2> SUFFICES ASSUME AdvanceInv, ChunkNext PROVE Onward
    OBVIOUS
  <2>1. CutInv
    BY DEF AdvanceInv
  <2>2. CASE Section
    BY <2>1, <2>2 DEF Section, CutInv
  <2>3. CASE Window
    <3> DEFINE b == Boundary(start, start + target)
    <3>1. /\ phase = "windows" /\ start + target < Len(text)
          /\ spans' = spans \cup {<<start, b>>} /\ start' = NextStart(start, b)
      BY <2>3 DEF Window, AddChunk
    <3>2. /\ text \in Seq(Characters) /\ target \in Nat \ {0} /\ overlap \in Nat /\ start \in Nat
      BY <2>1 DEF CutInv
    <3>3. b \in (start + 1)..(start + target)
      BY <3>1, <3>2, BoundaryFacts
    <3>4. \A v \in spans : v[1] < start /\ v[2] <= b
      BY <3>1 DEF AdvanceInv, Furthest
    <3> HIDE DEF b
    <3>5. start < start'
      BY <3>1, <3>2, <3>3, NextStartFacts
    <3> QED BY <3>1, <3>4, <3>5
  <2>4. CASE LastWindow
    <3>1. /\ phase = "windows" /\ phase' = "done" /\ ~(start + target < Len(text))
          /\ spans' = spans \cup {<<start, Len(text)>>}
      BY <2>1, <2>4 DEF LastWindow, AddChunk, CutInv
    <3>2. \A v \in spans : v[1] < start /\ v[2] <= Len(text)
      BY <3>1 DEF AdvanceInv, Furthest
    <3> QED BY <3>1, <3>2
  <2> QED BY <2>2, <2>3, <2>4 DEF ChunkNext
<1> QED BY <1>1, <1>2, <1>3, PTL DEF ChunkSpec, WindowsAdvance

-----------------------------------------------------------------------------
(* One question through retrieval and composition: Retrieval.              *)

Ranks == [id : Nat, score : Nat, hop : Nat]
UniqueIds(S) == \A x, y \in S : x.id = y.id => x = y
Place(S, x) == Cardinality(Before(S, x))

(* Entries with different ids are strictly ordered. *)
LEMMA AheadOrder ==
  ASSUME NEW x \in Ranks, NEW y \in Ranks
  PROVE  /\ ~Ahead(x, x)
         /\ ~(Ahead(x, y) /\ Ahead(y, x))
         /\ \A z \in Ranks : Ahead(x, y) /\ Ahead(y, z) => Ahead(x, z)
         /\ x.id # y.id => Ahead(x, y) \/ Ahead(y, x)
<1>1. /\ x.id \in Nat /\ x.score \in Nat /\ x.hop \in Nat
      /\ y.id \in Nat /\ y.score \in Nat /\ y.hop \in Nat
      /\ \A z \in Ranks : z.id \in Nat /\ z.score \in Nat /\ z.hop \in Nat
  BY DEF Ranks
<1> QED BY <1>1 DEF Ahead

LEMMA Places ==
  ASSUME NEW S \in SUBSET Ranks, IsFiniteSet(S), UniqueIds(S)
  PROVE  /\ Cardinality(S) \in Nat
         /\ \A x \in S : Place(S, x) \in 0..(Cardinality(S) - 1)
         /\ \A x, y \in S : Ahead(x, y) => Place(S, x) < Place(S, y)
         /\ \A x, y \in S : Place(S, x) = Place(S, y) => x = y
<1> DEFINE B(x) == Before(S, x)
<1>1. Cardinality(S) \in Nat
  BY FS_CardinalityType
<1>2. \A x \in S : x \notin B(x) /\ B(x) \in SUBSET S
  BY AheadOrder DEF Before
<1>3. \A x \in S : IsFiniteSet(B(x)) /\ Cardinality(B(x)) \in Nat
  BY <1>2, FS_Subset, FS_CardinalityType
<1>4. ASSUME NEW x \in S PROVE Cardinality(B(x)) \in 0..(Cardinality(S) - 1)
  <2>1. Cardinality(B(x)) <= Cardinality(S) /\ (Cardinality(S) = Cardinality(B(x)) => S = B(x))
    BY <1>2, FS_Subset
  <2> QED BY <1>1, <1>2, <1>3, <2>1
<1>5. ASSUME NEW x \in S, NEW y \in S, Ahead(x, y)
      PROVE  Cardinality(B(x)) < Cardinality(B(y))
  <2>1. x \in B(y) /\ x \notin B(x)
    BY <1>2, <1>5 DEF Before
  <2>2. B(x) \in SUBSET B(y)
    BY <1>5, AheadOrder DEF Before
  <2>3. /\ Cardinality(B(x)) <= Cardinality(B(y))
        /\ Cardinality(B(y)) = Cardinality(B(x)) => B(y) = B(x)
    BY <1>3, <2>2, FS_Subset
  <2> QED BY <1>3, <2>1, <2>3
<1>6. ASSUME NEW x \in S, NEW y \in S, Cardinality(B(x)) = Cardinality(B(y)) PROVE x = y
  <2>1. ~Ahead(x, y) /\ ~Ahead(y, x)
    BY <1>3, <1>5, <1>6
  <2> QED BY <2>1, AheadOrder DEF UniqueIds
<1> QED BY <1>1, <1>4, <1>5, <1>6 DEF Place

(* Every entry is ranked once, at the place that is its own, so that whoever
   is ahead is ranked before. *)
LEMMA RankedFacts ==
  ASSUME NEW S \in SUBSET Ranks, IsFiniteSet(S), UniqueIds(S)
  PROVE  /\ Ranked(S) \in Seq(S) /\ Len(Ranked(S)) = Cardinality(S)
         /\ Cardinality(S) \in Nat
         /\ \A i \in 1..Cardinality(S) : Place(S, Ranked(S)[i]) = i - 1
         /\ \A x \in S : /\ Place(S, x) + 1 \in 1..Cardinality(S)
                         /\ Ranked(S)[Place(S, x) + 1] = x
<1> DEFINE n == Cardinality(S)
           p == [x \in S |-> Place(S, x)]
<1>1. /\ n \in Nat
      /\ \A x \in S : Place(S, x) \in 0..(n - 1)
      /\ \A x, y \in S : Place(S, x) = Place(S, y) => x = y
  BY Places
<1>2. IsFiniteSet(0..(n - 1)) /\ Cardinality(0..(n - 1)) = n
  <2>1. 0 \in Int /\ n - 1 \in Int
    BY <1>1
  <2>2. /\ IsFiniteSet(0..(n - 1))
        /\ Cardinality(0..(n - 1)) = IF 0 > n - 1 THEN 0 ELSE n - 1 - 0 + 1
    BY <2>1, FS_Interval
  <2> QED BY <1>1, <2>2
<1>3. p \in Injection(S, 0..(n - 1))
  BY <1>1 DEF Injection, IsInjective
<1> HIDE DEF n
<1>4. p \in Surjection(S, 0..(n - 1))
  BY <1>2, <1>3, FS_Injection DEF n
<1>5. ASSUME NEW i \in 1..n PROVE \E x \in S : Place(S, x) = i - 1
  <2>1. i - 1 \in 0..(n - 1)
    BY <1>1
  <2>2. PICK x \in S : p[x] = i - 1
    BY <1>4, <2>1 DEF Surjection
  <2> QED BY <2>2
<1>6. Ranked(S) = [i \in 1..n |-> CHOOSE x \in S : Place(S, x) = i - 1]
  BY DEF Ranked, Place, n
<1>7. \A i \in 1..n : Ranked(S)[i] \in S /\ Place(S, Ranked(S)[i]) = i - 1
  BY <1>5, <1>6
<1>8. Ranked(S) \in Seq(S) /\ Len(Ranked(S)) = n
  BY <1>1, <1>6, <1>7
<1>9. ASSUME NEW x \in S PROVE Place(S, x) + 1 \in 1..n /\ Ranked(S)[Place(S, x) + 1] = x
  <2>1. Place(S, x) + 1 \in 1..n
    BY <1>1
  <2>2. Place(S, Ranked(S)[Place(S, x) + 1]) = Place(S, x)
    BY <1>1, <1>7, <2>1
  <2> QED BY <1>1, <1>7, <2>1, <2>2
<1> QED BY <1>1, <1>7, <1>8, <1>9 DEF n

(* What a rank gives: Q(r) is a natural number and divides Unit. *)
Q(r) == Unit \div (RrfK + r)

LEMMA Divides ==
  ASSUME NEW u \in Nat, NEW d \in Nat \ {0}, u % d = 0
  PROVE  u \div d \in Nat /\ d * (u \div d) = u
OBVIOUS

LEMMA LessForMore ==
  ASSUME NEW a \in Nat \ {0}, NEW b \in Nat, a <= b, NEW x \in Nat, NEW y \in Nat, a * x = b * y
  PROVE  y <= x
<1> SUFFICES ASSUME y >= x + 1 PROVE FALSE
  OBVIOUS
<1>1. a * y >= a * (x + 1) /\ b * y >= a * y
  OBVIOUS
<1>2. a * (x + 1) = a * x + a
  OBVIOUS
<1>3. a * x \in Nat /\ a * y \in Nat /\ b * y \in Nat
  OBVIOUS
<1> DEFINE ax == a * x
           ay == a * y
           ny == b * y
<1>4. ax \in Nat /\ ay \in Nat /\ ny \in Nat /\ ay >= ax + a /\ ny >= ay /\ ax = ny
  BY <1>1, <1>2, <1>3
<1> HIDE DEF ax, ay, ny
<1> QED BY <1>4

LEMMA Quotients ==
  ASSUME RetrievalAssumption
  PROVE  /\ \A r \in 1..PoolSize : Q(r) \in Nat /\ (RrfK + r) * Q(r) = Unit
         /\ \A r, q \in 1..PoolSize : r <= q => Q(q) <= Q(r)
<1>1. RrfK \in Nat \ {0} /\ Unit \in Nat \ {0} /\ PoolSize \in Nat
  BY DEF RetrievalAssumption
<1>2. \A r \in 1..PoolSize : Unit % (RrfK + r) = 0
  BY DEF RetrievalAssumption
<1>3. ASSUME NEW r \in 1..PoolSize PROVE Q(r) \in Nat /\ (RrfK + r) * Q(r) = Unit
  <2>1. RrfK + r \in Nat \ {0}
    BY <1>1
  <2>2. Unit % (RrfK + r) = 0
    BY <1>2, Zenon
  <2> QED BY <1>1, <2>1, <2>2, Divides DEF Q
<1>4. ASSUME NEW r \in 1..PoolSize, NEW q \in 1..PoolSize, r <= q PROVE Q(q) <= Q(r)
  <2>1. /\ Q(r) \in Nat /\ (RrfK + r) * Q(r) = Unit
        /\ Q(q) \in Nat /\ (RrfK + q) * Q(q) = Unit
        /\ RrfK + r \in Nat \ {0} /\ RrfK + q \in Nat /\ RrfK + r <= RrfK + q
    BY <1>1, <1>3, <1>4
  <2> QED BY <2>1, LessForMore
<1> QED BY <1>3, <1>4

(* A store's list names each entity once, up to the size of the pool, and
   gives it a share by its rank. *)
LEMMA ListFacts ==
  ASSUME RetrievalAssumption, NEW l \in Lists(Pages)
  PROVE  /\ DOMAIN l = 1..Len(l) /\ Len(l) \in 0..PoolSize /\ l \in [1..Len(l) -> Pages]
         /\ \A r, q \in 1..Len(l) : l[r] = l[q] => r = q
<1>1. PICK n \in 0..PoolSize : l \in [1..n -> Pages] /\ IsInjective(l)
  BY DEF Lists
<1>2. n \in Nat /\ PoolSize \in Nat
  BY DEF RetrievalAssumption
<1>3. DOMAIN l = 1..n /\ Len(l) = n
  BY <1>1, <1>2
<1>4. \A r, q \in 1..n : l[r] = l[q] => r = q
  BY <1>1, <1>3 DEF IsInjective
<1> QED BY <1>1, <1>3, <1>4

LEMMA Shares ==
  ASSUME RetrievalAssumption, NEW l \in Lists(Pages), NEW e
  PROVE  \/ (\A r \in 1..Len(l) : l[r] # e) /\ Share(l, e) = 0
         \/ \E r \in 1..Len(l) : l[r] = e /\ Share(l, e) = Q(r)
<1>1. DOMAIN l = 1..Len(l)
  BY ListFacts
<1>2. CASE \E r \in DOMAIN l : l[r] = e
  <2> DEFINE r == CHOOSE r \in DOMAIN l : l[r] = e
  <2>1. r \in DOMAIN l /\ l[r] = e
    BY <1>2
  <2>2. Share(l, e) = Q(r)
    BY <1>2 DEF Share, Q
  <2> QED BY <1>1, <2>1, <2>2
<1>3. CASE ~(\E r \in DOMAIN l : l[r] = e)
  BY <1>1, <1>3 DEF Share
<1> QED BY <1>2, <1>3

(* What the fusion of two lists ranks. *)
Fusion(os, qd) ==
  {[id |-> e, score |-> Whole * (Share(os, e) + Share(qd, e)), hop |-> 0] :
     e \in Range(os) \cup Range(qd)}

LEMMA PagesAreNumbers ==
  ASSUME RetrievalAssumption
  PROVE  Pages \subseteq Nat
BY DEF RetrievalAssumption, Nodes

LEMMA ShareBounds ==
  ASSUME RetrievalAssumption, NEW l \in Lists(Pages), NEW e
  PROVE  Share(l, e) \in Nat /\ Share(l, e) <= Q(1)
<1>1. PoolSize \in Nat \ {0}
  BY DEF RetrievalAssumption
<1>2. Q(1) \in Nat /\ \A r \in 1..PoolSize : Q(r) \in Nat /\ Q(r) <= Q(1)
  <2>1. 1 \in 1..PoolSize /\ \A r \in 1..PoolSize : 1 <= r
    BY <1>1
  <2> QED BY <2>1, Quotients
<1>3. \/ Share(l, e) = 0
      \/ \E r \in 1..Len(l) : Share(l, e) = Q(r)
  BY Shares
<1>4. Len(l) \in 0..PoolSize
  BY ListFacts
<1>5. 1..Len(l) \subseteq 1..PoolSize
  BY <1>1, <1>4
<1>6. CASE Share(l, e) = 0
  BY <1>2, <1>6
<1>7. CASE \E r \in 1..Len(l) : Share(l, e) = Q(r)
  BY <1>2, <1>5, <1>7
<1> QED BY <1>3, <1>6, <1>7

LEMMA FusionFacts ==
  ASSUME RetrievalAssumption, NEW os \in Lists(Pages), NEW qd \in Lists(Pages)
  PROVE  /\ Fusion(os, qd) \in SUBSET Ranks /\ IsFiniteSet(Fusion(os, qd))
         /\ UniqueIds(Fusion(os, qd))
         /\ \A x \in Fusion(os, qd) :
              /\ x.id \in Pages /\ x.hop = 0
              /\ \E m \in 0..(2 * Q(1)) : x.score = Whole * m
              /\ \/ \E r \in 1..Len(os) : os[r] = x.id
                 \/ \E r \in 1..Len(qd) : qd[r] = x.id
              /\ x.score = Whole * (Share(os, x.id) + Share(qd, x.id))
<1> DEFINE E == Range(os) \cup Range(qd)
           a(e) == Share(os, e)
           b(e) == Share(qd, e)
           F(e) == [id |-> e, score |-> Whole * (a(e) + b(e)), hop |-> 0]
<1>1. Whole \in Nat \ {0} /\ PoolSize \in Nat \ {0} /\ Q(1) \in Nat
  <2>1. Whole \in Nat \ {0} /\ PoolSize \in Nat \ {0}
    BY DEF RetrievalAssumption
  <2>2. 1 \in 1..PoolSize
    BY <2>1
  <2> QED BY <2>1, <2>2, Quotients
<1>2. /\ DOMAIN os = 1..Len(os) /\ Len(os) \in 0..PoolSize /\ os \in [1..Len(os) -> Pages]
      /\ DOMAIN qd = 1..Len(qd) /\ Len(qd) \in 0..PoolSize /\ qd \in [1..Len(qd) -> Pages]
  BY ListFacts
<1>3. /\ Range(os) = {os[r] : r \in 1..Len(os)}
      /\ Range(qd) = {qd[r] : r \in 1..Len(qd)}
  BY <1>2 DEF Range
<1>4. E \subseteq Pages /\ \A e \in E : \/ \E r \in 1..Len(os) : os[r] = e
                                    \/ \E r \in 1..Len(qd) : qd[r] = e
  BY <1>2, <1>3
<1>5. IsFiniteSet(E)
  <2>1. Len(os) \in Int /\ Len(qd) \in Int /\ 1 \in Int
    BY <1>1, <1>2
  <2>2. IsFiniteSet(1..Len(os)) /\ IsFiniteSet(1..Len(qd))
    BY <2>1, FS_Interval
  <2>3. os \in Surjection(1..Len(os), Range(os)) /\ qd \in Surjection(1..Len(qd), Range(qd))
    BY <1>2, <1>3 DEF Surjection
  <2>4. IsFiniteSet(Range(os)) /\ IsFiniteSet(Range(qd))
    BY <2>2, <2>3, FS_Surjection
  <2> QED BY <2>4, FS_Union
<1>6. \A e \in E : a(e) \in Nat /\ a(e) <= Q(1) /\ b(e) \in Nat /\ b(e) <= Q(1)
  BY ShareBounds
<1> HIDE DEF E, a, b
<1>7. \A e \in E : /\ a(e) + b(e) \in 0..(2 * Q(1)) /\ Whole * (a(e) + b(e)) \in Nat
  <2>1. \A m \in Nat : Whole * m \in Nat
    BY <1>1
  <2>2. \A e \in E : a(e) + b(e) \in 0..(2 * Q(1)) /\ a(e) + b(e) \in Nat
    <3> SUFFICES ASSUME NEW e \in E PROVE a(e) + b(e) \in 0..(2 * Q(1)) /\ a(e) + b(e) \in Nat
      OBVIOUS
    <3>1. a(e) \in Nat /\ a(e) <= Q(1) /\ b(e) \in Nat /\ b(e) <= Q(1)
      BY <1>6
    <3> QED BY <1>1, <3>1
  <2> QED BY <2>1, <2>2
<1>8. \A e \in E : F(e) \in Ranks
  BY <1>4, <1>7, PagesAreNumbers DEF Ranks
<1>9. Fusion(os, qd) = {F(e) : e \in E}
  BY DEF Fusion, E, a, b
<1>10. IsFiniteSet({F(e) : e \in E})
  <2> DEFINE G == [e \in E |-> F(e)]
  <2>1. G \in Surjection(E, {F(e) : e \in E})
    BY DEF Surjection
  <2> QED BY <1>5, <2>1, FS_Surjection
<1>11. ASSUME NEW x \in {F(e) : e \in E}
       PROVE  /\ x.id \in E /\ x.id \in Pages /\ x.hop = 0 /\ x = F(x.id)
              /\ x.score = Whole * (a(x.id) + b(x.id))
              /\ \E m \in 0..(2 * Q(1)) : x.score = Whole * m
  <2>1. PICK e \in E : x = F(e)
    BY <1>11
  <2> QED BY <1>4, <1>7, <2>1
<1>12. UniqueIds({F(e) : e \in E})
  BY <1>11 DEF UniqueIds
<1> HIDE DEF F
<1>13. \A x \in {F(e) : e \in E} :
              \/ \E r \in 1..Len(os) : os[r] = x.id
              \/ \E r \in 1..Len(qd) : qd[r] = x.id
  BY <1>4, <1>11
<1> QED BY <1>8, <1>9, <1>10, <1>11, <1>12, <1>13 DEF a, b

(* The score that rank r of one list gives. *)
Worth(r) == Whole * Q(r)

LEMMA WorthIsNat ==
  ASSUME RetrievalAssumption
  PROVE  \A r \in 1..PoolSize : Q(r) \in Nat /\ Worth(r) \in Nat
<1>1. \A m \in Nat : Whole * m \in Nat
  BY DEF RetrievalAssumption
<1> QED BY <1>1, Quotients DEF Worth

LEMMA RankInPool ==
  ASSUME RetrievalAssumption, NEW l \in Lists(Pages)
  PROVE  Len(l) \in Nat /\ 1..Len(l) \subseteq 1..PoolSize
<1>1. PoolSize \in Nat
  BY DEF RetrievalAssumption
<1>2. Len(l) \in 0..PoolSize
  BY ListFacts
<1> QED BY <1>1, <1>2

(* It does not matter which store's list comes first. *)
LEMMA FusionCommutes ==
  ASSUME RetrievalAssumption, NEW os \in Lists(Pages), NEW qd \in Lists(Pages)
  PROVE  Fusion(os, qd) = Fusion(qd, os)
<1> DEFINE E == Range(os) \cup Range(qd)
           F(e) == [id |-> e, score |-> Whole * (Share(os, e) + Share(qd, e)), hop |-> 0]
           G(e) == [id |-> e, score |-> Whole * (Share(qd, e) + Share(os, e)), hop |-> 0]
<1>1. ASSUME NEW e PROVE Share(os, e) + Share(qd, e) = Share(qd, e) + Share(os, e)
  <2>1. Share(os, e) \in Nat /\ Share(qd, e) \in Nat
    BY ShareBounds
  <2> QED BY <2>1
<1>2. \A e \in E : F(e) = G(e)
  BY <1>1
<1>3. Fusion(os, qd) = {F(e) : e \in E}
  BY DEF Fusion
<1>4. Fusion(qd, os) = {G(e) : e \in E}
  <2>1. E = Range(qd) \cup Range(os)
    OBVIOUS
  <2> QED BY <2>1 DEF Fusion
<1> HIDE DEF E, F, G
<1> QED BY <1>2, <1>3, <1>4

(* The entity at a rank of a list has at least what the rank gives. *)
LEMMA RankGives ==
  ASSUME RetrievalAssumption,
         NEW os \in Lists(Pages), NEW qd \in Lists(Pages), NEW j \in 1..Len(os)
  PROVE  \E y \in Fusion(os, qd) : y.id = os[j] /\ y.score >= Worth(j)
<1>1. Whole \in Nat \ {0} /\ PoolSize \in Nat \ {0}
  BY DEF RetrievalAssumption
<1>2. /\ DOMAIN os = 1..Len(os)
      /\ \A r, q \in 1..Len(os) : os[r] = os[q] => r = q
  BY ListFacts
<1> DEFINE e == os[j]
           a == Share(os, e)
           b == Share(qd, e)
           y == [id |-> e, score |-> Whole * (a + b), hop |-> 0]
<1>3. a = Q(j)
  <2>1. PICK r \in 1..Len(os) : os[r] = os[j] /\ a = Q(r)
    BY Shares
  <2> QED BY <1>2, <2>1
<1>4. a \in Nat /\ b \in Nat
  BY ShareBounds
<1>5. y \in Fusion(os, qd)
  <2>1. e \in Range(os) \cup Range(qd)
    BY <1>2 DEF Range
  <2> QED BY <2>1 DEF Fusion
<1>6. y.score >= Worth(j)
  <2> HIDE DEF a, b
  <2>1. Whole * (a + b) >= Whole * a
    BY <1>1, <1>4
  <2> QED BY <1>3, <2>1 DEF Worth
<1>7. y.id = os[j]
  OBVIOUS
<1> HIDE DEF y
<1> QED BY <1>5, <1>6, <1>7

(* k entries of different ids cannot all be ahead of one that has place k. *)
LEMMA Crowd ==
  ASSUME NEW F \in SUBSET Ranks, IsFiniteSet(F), NEW x \in F, NEW k \in Nat \ {0},
         Place(F, x) = k - 1, NEW G \in [1..k -> F],
         \A i, j \in 1..k : G[i].id = G[j].id => i = j
  PROVE  \E j \in 1..k : x.score >= G[j].score
<1> SUFFICES ASSUME \A j \in 1..k : ~(x.score >= G[j].score) PROVE FALSE
  OBVIOUS
<1> DEFINE B == Before(F, x)
           D == 1..k
<1>1. ASSUME NEW j \in 1..k PROVE G[j] \in B
  <2>1. G[j] \in F /\ ~(x.score >= G[j].score)
    OBVIOUS
  <2>2. x.score \in Nat /\ G[j].score \in Nat
    BY <2>1 DEF Ranks
  <2>3. G[j].score > x.score
    BY <2>1, <2>2
  <2> QED BY <2>1, <2>3 DEF Before, Ahead
<1>2. G \in [1..k -> B]
  BY <1>1
<1>3. IsFiniteSet(B) /\ Cardinality(B) = k - 1
  <2>1. B \in SUBSET F
    BY DEF Before
  <2> QED BY <2>1, FS_Subset DEF Place
<1>4. IsFiniteSet(D) /\ Cardinality(D) = k
  <2>1. 1 \in Int /\ k \in Int /\ ~(1 > k) /\ k - 1 + 1 = k
    OBVIOUS
  <2>2. IsFiniteSet(1..k) /\ Cardinality(1..k) = IF 1 > k THEN 0 ELSE k - 1 + 1
    BY <2>1, FS_Interval
  <2> QED BY <2>1, <2>2
<1>5. G \in Injection(D, B)
  <2>1. \A i, j \in 1..k : G[i] = G[j] => i = j
    OBVIOUS
  <2> QED BY <1>2, <2>1 DEF Injection, IsInjective
<1> HIDE DEF B, D
<1>6. Cardinality(D) <= Cardinality(B)
  BY <1>3, <1>5, FS_Injection
<1> QED BY <1>3, <1>4, <1>6

LEMMA AtLeast ==
  ASSUME NEW a \in Nat, NEW b \in Nat, NEW c \in Nat, a >= b, b >= c
  PROVE  a >= c
OBVIOUS

(* So one of the first k ranks of a list gives no more than the entity at
   place k has. *)
LEMMA KthOfList ==
  ASSUME RetrievalAssumption,
         NEW os \in Lists(Pages), NEW qd \in Lists(Pages),
         NEW k \in 1..Len(os),
         NEW x \in Fusion(os, qd), Place(Fusion(os, qd), x) = k - 1
  PROVE  \E j \in 1..k : x.score >= Worth(j)
<1>2. /\ Len(os) \in Nat /\ 1..Len(os) \subseteq 1..PoolSize
      /\ \A i, j \in 1..Len(os) : os[i] = os[j] => i = j
  <2>1. Len(os) \in Nat /\ 1..Len(os) \subseteq 1..PoolSize
    BY RankInPool
  <2> QED BY <2>1, ListFacts
<1>3. k \in Nat \ {0} /\ 1..k \subseteq 1..Len(os)
  BY <1>2
<1>4. Fusion(os, qd) \in SUBSET Ranks /\ IsFiniteSet(Fusion(os, qd))
  BY FusionFacts
<1>5. ASSUME NEW j \in 1..Len(os)
      PROVE  \E y \in Fusion(os, qd) : y.id = os[j] /\ y.score >= Worth(j)
  BY RankGives
<1>6. PICK F : F = Fusion(os, qd)
  OBVIOUS
<1>7. \A j \in 1..k : \E y \in F : y.id = os[j] /\ y.score >= Worth(j)
  BY <1>3, <1>5, <1>6
<1> DEFINE G == [j \in 1..k |-> CHOOSE y \in F : y.id = os[j] /\ y.score >= Worth(j)]
<1>8. G \in [1..k -> F] /\ \A j \in 1..k : G[j].id = os[j] /\ G[j].score >= Worth(j)
  BY <1>7
<1> HIDE DEF G
<1>9. \A i, j \in 1..k : G[i].id = G[j].id => i = j
  BY <1>2, <1>3, <1>8
<1>10. F \in SUBSET Ranks /\ IsFiniteSet(F) /\ x \in F /\ Place(F, x) = k - 1
  BY <1>4, <1>6
<1>11. PICK j \in 1..k : x.score >= G[j].score
  BY <1>3, <1>8, <1>9, <1>10, Crowd
<1>12. x.score \in Nat /\ G[j].score \in Nat
  <2>1. G[j] \in F /\ x \in F
    BY <1>8, <1>10
  <2>2. \A y \in F : y.score \in Nat
    BY <1>10 DEF Ranks
  <2> QED BY <2>1, <2>2, Zenon
<1>13. Worth(j) \in Nat
  BY <1>2, <1>3, WorthIsNat
<1>14. G[j].score >= Worth(j)
  BY <1>8
<1> QED BY <1>11, <1>12, <1>13, <1>14, AtLeast

(* So the k-th of the fused ranking has at least what rank k of one list gives,
   or a better rank. *)
LEMMA KthBest ==
  ASSUME RetrievalAssumption,
         NEW os \in Lists(Pages), NEW qd \in Lists(Pages),
         NEW F, F = Fusion(os, qd), NEW k \in 1..Cardinality(F)
  PROVE  \E r \in 1..PoolSize : r <= k /\ Ranked(F)[k].score >= Worth(r)
<1>1. F \in SUBSET Ranks /\ IsFiniteSet(F) /\ UniqueIds(F)
  BY FusionFacts
<1>2. PICK x : x = Ranked(F)[k]
  OBVIOUS
<1>3. x \in F /\ Place(F, x) = k - 1 /\ k \in Nat \ {0}
  <2>1. /\ Ranked(F) \in Seq(F) /\ Len(Ranked(F)) = Cardinality(F) /\ Cardinality(F) \in Nat
        /\ \A i \in 1..Cardinality(F) : Place(F, Ranked(F)[i]) = i - 1
    BY <1>1, RankedFacts
  <2> QED BY <1>2, <2>1
<1>4. PICK l \in Lists(Pages), m \in Lists(Pages) :
        F = Fusion(l, m) /\ \E r \in 1..Len(l) : l[r] = x.id
  <2>1. \/ \E r \in 1..Len(os) : os[r] = x.id
        \/ \E r \in 1..Len(qd) : qd[r] = x.id
    BY <1>3, FusionFacts
  <2>2. F = Fusion(os, qd) /\ F = Fusion(qd, os)
    BY FusionCommutes
  <2>3. CASE \E r \in 1..Len(os) : os[r] = x.id
    BY <2>2, <2>3
  <2>4. CASE \E r \in 1..Len(qd) : qd[r] = x.id
    BY <2>2, <2>4
  <2> QED BY <2>1, <2>3, <2>4
<1>5. F = Fusion(l, m)
  BY <1>4
<1>6. PICK r \in 1..Len(l) : l[r] = x.id
  BY <1>4
<1>7. Len(l) \in Nat /\ 1..Len(l) \subseteq 1..PoolSize
  BY RankInPool
<1>8. \E y \in F : y.id = l[r] /\ y.score >= Worth(r)
  <2>1. \E y \in Fusion(l, m) : y.id = l[r] /\ y.score >= Worth(r)
    BY RankGives
  <2> QED BY <1>5, <2>1
<1>9. CASE r <= k
  <2>1. x.score >= Worth(r)
    BY <1>1, <1>3, <1>6, <1>8 DEF UniqueIds
  <2> QED BY <1>2, <1>7, <1>9, <2>1
<1>10. CASE r > k
  <2>1. k \in 1..Len(l)
    BY <1>3, <1>6, <1>7, <1>10
  <2>2. \E j \in 1..k : x.score >= Worth(j)
    BY <1>3, <1>5, <2>1, KthOfList
  <2>3. PICK j \in 1..k : x.score >= Worth(j)
    BY <2>2
  <2>4. j \in 1..Len(l) /\ j <= k
    BY <1>7, <2>1
  <2> QED BY <1>2, <1>7, <2>3, <2>4
<1>11. r <= k \/ r > k
  BY <1>3, <1>6, <1>7
<1> QED BY <1>9, <1>10, <1>11, Zenon

(* What a cut keeps: the first entries, TopK at most. *)
LEMMA CutFacts ==
  ASSUME RetrievalAssumption, NEW S, NEW s \in Seq(S)
  PROVE  /\ Cut(s) \in Seq(S) /\ Len(Cut(s)) \in Nat /\ Len(Cut(s)) <= TopK
         /\ Len(Cut(s)) <= Len(s)
         /\ Len(Cut(s)) = Len(s) \/ Len(Cut(s)) = TopK
         /\ \A i \in 1..Len(Cut(s)) : Cut(s)[i] = s[i]
<1> DEFINE n == IF Len(s) < TopK THEN Len(s) ELSE TopK
<1>1. TopK \in Nat \ {0} /\ Len(s) \in Nat
  BY DEF RetrievalAssumption
<1>2. /\ n \in Nat /\ n <= Len(s) /\ n <= TopK /\ (n = Len(s) \/ n = TopK)
      /\ n + 1 - 1 = n
  BY <1>1
<1>3. Cut(s) = SubSeq(s, 1, n)
  BY DEF Cut
<1> HIDE DEF n
<1>4. 1 \in Int /\ n \in Int /\ n - 1 + 1 = n /\ (~(1 <= n) => n = 0) /\ \A i \in 1..n : 1 + i - 1 = i
  BY <1>2
<1>5. \A i \in 1..n : s[i] \in S
  BY <1>1, <1>2
<1>6. /\ SubSeq(s, 1, n) \in Seq(S)
      /\ Len(SubSeq(s, 1, n)) = IF 1 <= n THEN n - 1 + 1 ELSE 0
      /\ \A i \in 1..(n - 1 + 1) : SubSeq(s, 1, n)[i] = s[1 + i - 1]
  BY <1>4, <1>5, SubSeqProperties
<1>7. Cut(s) \in Seq(S) /\ Len(Cut(s)) = n /\ \A i \in 1..n : Cut(s)[i] = s[i]
  BY <1>3, <1>4, <1>6
<1> QED BY <1>2, <1>7

LEMMA SameStart ==
  ASSUME NEW S, NEW s \in Seq(S), NEW t \in Seq(S), Len(s) <= Len(t),
         \A i \in 1..Len(s) : s[i] = t[i]
  PROVE  IsPrefix(s, t)
<1>1. Len(s) \in Nat /\ Len(t) \in Nat
  OBVIOUS
<1>2. SubSeq(s, 1, Len(s)) = [i \in 1..Len(s) |-> s[i]]
  BY <1>1
<1>3. SubSeq(t, 1, Len(s)) = [i \in 1..Len(s) |-> t[i]]
  BY <1>1
<1> QED BY <1>2, <1>3 DEF IsPrefix

LEMMA CutIsPrefix ==
  ASSUME RetrievalAssumption, NEW S, NEW s \in Seq(S)
  PROVE  IsPrefix(Cut(s), s)
BY CutFacts, SameStart

-----------------------------------------------------------------------------
(* The rows of a question, and what it has decided by then. *)

Queried == [table |-> "query_traces", ranking |-> pages, coverage |-> Coverage(found),
            fallback |-> fallback, gap |-> gap]
Asked == [table |-> "ask_traces", query |-> 1, refused |-> Refused]
Result == [refused |-> Refused, cited |-> Cited]
Rows == IF kind = "replay" THEN <<>> ELSE IF kind = "ask" THEN <<Queried, Asked>> ELSE <<Queried>>

Early == {"rewrite", "search", "expand", "cover", "chunks", "persist"}
Late == {"compose", "commit", "returned", "failed"}
RowsInv ==
  /\ at \in Early \cup Late
  /\ at \in Early \cup {"failed"} => tx = <<>> /\ traces = <<>>
  /\ at = "compose" => kind = "ask" /\ tx = <<Queried>> /\ traces = <<>>
  /\ at = "commit" => tx = Rows /\ traces = <<>>
  /\ at = "returned" => tx = <<>> /\ traces = Rows
  /\ at \in {"commit", "returned"} /\ kind = "ask" => answer = Result

LEMMA OneMore == ASSUME NEW a, NEW b PROVE Append(<<a>>, b) = <<a, b>>
<1>1. <<a>> \in Seq({a, b})
  OBVIOUS
<1>2. /\ Append(<<a>>, b) \in Seq({a, b}) /\ Len(Append(<<a>>, b)) = 2
      /\ Append(<<a>>, b)[1] = a /\ Append(<<a>>, b)[2] = b
  BY <1>1, AppendProperties
<1>3. /\ <<a, b>> \in Seq({a, b}) /\ Len(<<a, b>>) = 2
      /\ <<a, b>>[1] = a /\ <<a, b>>[2] = b
  OBVIOUS
<1> DEFINE s == Append(<<a>>, b)
           t == <<a, b>>
<1>4. s \in Seq({a, b}) /\ t \in Seq({a, b}) /\ Len(s) = Len(t) /\ Len(s) = 2
  BY <1>2, <1>3
<1>5. \A i \in 1..2 : i = 1 \/ i = 2
  OBVIOUS
<1>6. \A i \in 1..2 : s[i] = t[i]
  BY <1>2, <1>3, <1>5
<1> HIDE DEF s, t
<1>7. s = t
  BY <1>4, <1>6, SeqEqual
<1> QED BY <1>7 DEF s, t

LEMMA RowsInit == AskInit => RowsInv
BY DEF AskInit, RowsInv, Early, Late

LEMMA RowsStep == RowsInv /\ [AskNext]_(askVars) => RowsInv'
<1> SUFFICES ASSUME RowsInv, [AskNext]_(askVars) PROVE RowsInv'
  OBVIOUS
<1>1. CASE UNCHANGED askVars
  BY <1>1 DEF RowsInv, askVars, Rows, Queried, Asked, Result, Refused, Cited, Cut
<1>2. CASE Rewrite
  BY <1>2 DEF Rewrite, RowsInv, Early, Late
<1>3. CASE SearchPages
  BY <1>3 DEF SearchPages, RowsInv, Early, Late
<1>4. CASE Expand
  BY <1>4 DEF Expand, RowsInv, Early, Late
<1>5. CASE Cover
  BY <1>5 DEF Cover, RowsInv, Early, Late
<1>6. CASE Control
  BY <1>6 DEF Control, RowsInv, Early, Late
<1>7. CASE SearchChunks
  BY <1>7 DEF SearchChunks, RowsInv, Early, Late
<1>8. CASE Persist
  <2>1. tx = <<>> /\ traces = <<>>
    BY <1>8 DEF Persist, RowsInv, Early
  <2>2. Queried' = Queried /\ QueryRow = Queried /\ kind' = kind /\ traces' = traces
    BY <1>8 DEF Persist, Queried, QueryRow
  <2>3. CASE kind = "replay"
    <3>1. tx' = <<>> /\ at' = "commit"
      BY <1>8, <2>1, <2>3 DEF Persist, Persists, Composes
    <3> QED BY <2>1, <2>2, <2>3, <3>1 DEF RowsInv, Rows, Early, Late
  <2>4. CASE kind = "ask"
    <3>1. tx' = <<Queried>> /\ at' = "compose"
      BY <1>8, <2>1, <2>2, <2>4 DEF Persist, Persists, Composes
    <3> QED BY <2>1, <2>2, <2>4, <3>1 DEF RowsInv, Early, Late
  <2>5. CASE kind \notin {"replay", "ask"}
    <3>1. tx' = <<Queried>> /\ at' = "commit"
      BY <1>8, <2>1, <2>2, <2>5 DEF Persist, Persists, Composes
    <3> QED BY <2>1, <2>2, <2>5, <3>1 DEF RowsInv, Rows, Early, Late
  <2> QED BY <2>3, <2>4, <2>5
<1>9. CASE Compose
  <2>1. kind = "ask" /\ tx = <<Queried>> /\ traces = <<>>
    BY <1>9 DEF Compose, RowsInv
  <2>2. Queried' = Queried /\ Asked' = Asked /\ kind' = kind /\ traces' = <<>> /\ at' = "commit"
    BY <1>9, <2>1 DEF Compose, Queried, Asked, Refused
  <2>5. answer' = Result'
    BY <1>9 DEF Compose, Result, Cited, Refused, Cut
  <2>3. AskRow = Asked
    <3>1. Len(traces) + Len(tx) = 1
      BY <2>1
    <3> QED BY <3>1 DEF AskRow, Asked
  <2>4. tx' = <<Queried, Asked>>
    <3>1. tx' = Append(<<Queried>>, Asked)
      BY <1>9, <2>1, <2>3 DEF Compose
    <3> QED BY <3>1, OneMore
  <2> QED BY <2>1, <2>2, <2>4, <2>5 DEF RowsInv, Rows, Early, Late
<1>10. CASE Commit
  <2>1. tx = Rows /\ traces = <<>>
    BY <1>10 DEF Commit, RowsInv
  <2>2. Rows' = Rows /\ at' = "returned" /\ tx' = <<>> /\ traces' = traces \o tx
    BY <1>10 DEF Commit, Rows, Queried, Asked, Refused
  <2>4. kind = "ask" => answer' = Result'
    BY <1>10 DEF Commit, RowsInv, Result, Cited, Refused, Cut
  <2>3. <<>> \o Rows = Rows
    BY DEF Rows
  <2>5. kind' = kind
    BY <1>10 DEF Commit
  <2> QED BY <2>1, <2>2, <2>3, <2>4, <2>5 DEF RowsInv, Early, Late
<1>11. CASE Fail
  <2>1. traces = <<>>
    BY <1>11 DEF Fail, CanFail, RowsInv, Early, Late
  <2> QED BY <1>11, <2>1 DEF Fail, RowsInv, Early, Late
<1> QED BY <1>1, <1>2, <1>3, <1>4, <1>5, <1>6, <1>7, <1>8, <1>9, <1>10, <1>11 DEF AskNext

(* A command that returned has left its rows, both of them for an ask, and    *)
(* one that failed none; a replay leaves none.                               *)
THEOREM RowsOfACommand == AskSpec => []ReturnedIsTraced
<1>1. RowsInv => ReturnedIsTraced
  <2> SUFFICES ASSUME RowsInv PROVE ReturnedIsTraced
    OBVIOUS
  <2>1. CASE at = "returned"
    BY <2>1 DEF RowsInv, Rows, ReturnedIsTraced, Persists, Composes
  <2>2. CASE at # "returned"
    <3>1. traces = <<>>
      BY <2>2 DEF RowsInv, Early, Late
    <3> QED BY <2>2, <3>1 DEF ReturnedIsTraced
  <2> QED BY <2>1, <2>2
<1> QED BY <1>1, RowsInit, RowsStep, PTL DEF AskSpec

-----------------------------------------------------------------------------
(* The ranking before and after the expansion. *)

NearEntries == [id : Nodes, score : Nat, hop : 1..MaxHops]

LEMMA EntriesAreRanks ==
  ASSUME RetrievalAssumption
  PROVE  /\ Entries \subseteq Ranks /\ NearEntries \subseteq Entries
         /\ IsFiniteSet(Nodes) /\ MaxHops \in Nat
<1>1. Nodes \subseteq Nat /\ MaxHops \in Nat
  BY DEF RetrievalAssumption
<1>2. 0..MaxHops \subseteq Nat /\ 1..MaxHops \subseteq 0..MaxHops
  BY <1>1
<1>3. IsFiniteSet(Nodes)
  BY DEF RetrievalAssumption
<1> QED BY <1>1, <1>2, <1>3 DEF Entries, Ranks, NearEntries

LEMMA FewEntries ==
  ASSUME RetrievalAssumption, NEW S \in SUBSET Entries, UniqueIds(S)
  PROVE  S \in SUBSET Ranks /\ IsFiniteSet(S)
<1> DEFINE g == [x \in S |-> x.id]
<1>1. g \in Injection(S, Nodes)
  <2>1. \A x \in S : x.id \in Nodes
    BY DEF Entries
  <2>2. \A x, y \in S : x.id = y.id => x = y
    BY DEF UniqueIds
  <2> QED BY <2>1, <2>2 DEF Injection, IsInjective
<1>2. IsFiniteSet(S)
  BY <1>1, EntriesAreRanks, FS_Injection
<1> QED BY <1>2, EntriesAreRanks

(* What the fusion ranks. *)
LEMMA FusedFacts ==
  ASSUME RetrievalAssumption, NEW os \in Lists(Pages), NEW qd \in Lists(Pages)
  PROVE  /\ Fused(os, qd) = Ranked(Fusion(os, qd))
         /\ Fusion(os, qd) \in SUBSET Entries
         /\ Fused(os, qd) \in Seq(Entries)
<1>1. Fused(os, qd) = Ranked(Fusion(os, qd))
  BY DEF Fused, Fusion
<1>2. Fusion(os, qd) \in SUBSET Entries
  <2>1. 0 \in 0..MaxHops /\ Pages \subseteq Nodes
    BY EntriesAreRanks DEF Nodes
  <2>2. \A x \in Fusion(os, qd) : x \in Ranks /\ x.id \in Pages /\ x.hop = 0
    BY FusionFacts
  <2> QED BY <2>1, <2>2 DEF Entries, Ranks
<1>3. Ranked(Fusion(os, qd)) \in Seq(Fusion(os, qd))
  BY FusionFacts, RankedFacts
<1> QED BY <1>1, <1>2, <1>3

LEMMA PartOf ==
  ASSUME NEW u \in Nat, NEW d \in Nat \ {0}, NEW f \in Nat
  PROVE  u \div d \in Nat /\ (u \div d) * f \in Nat
<1>1. u \div d \in Nat
  OBVIOUS
<1> DEFINE q == u \div d
<1> HIDE DEF q
<1>2. q \in Nat => q * f \in Nat
  OBVIOUS
<1> QED BY <1>1, <1>2 DEF q

LEMMA SameBest ==
  ASSUME NEW a \in Nat, NEW b \in Nat, NEW h \in Nat, NEW k \in Nat,
         a < b \/ (a = b /\ h >= k), b < a \/ (b = a /\ k >= h)
  PROVE  a = b /\ h = k
OBVIOUS

(* What the walk from the seeds reaches: each node once, with the share of a
   seed's score that its distance leaves. *)
LEMMA ReachedFacts ==
  ASSUME RetrievalAssumption, NEW seeds \in Seq(Entries)
  PROVE  /\ Reached(seeds) \in SUBSET NearEntries /\ UniqueIds(Reached(seeds))
         /\ \A r \in Reached(seeds) :
              \E i \in 1..Len(seeds), h \in 1..MaxHops :
                r.score = (seeds[i].score \div Whole) * Factor[h]
<1> DEFINE Offers == UNION {{[id |-> w[1], score |-> ExpansionScore(s.score, w[2]), hop |-> w[2]] :
                               w \in Walk(s.id)} : s \in Range(seeds)}
<1>1. Reached(seeds) = {o \in Offers : \A x \in Offers : x.id = o.id =>
                        x.score < o.score \/ (x.score = o.score /\ x.hop >= o.hop)}
  BY DEF Reached
<1>2. ASSUME NEW o \in Offers
      PROVE  /\ o \in NearEntries
             /\ \E i \in 1..Len(seeds), h \in 1..MaxHops :
                  o.score = (seeds[i].score \div Whole) * Factor[h]
  <2>1. PICK s \in Range(seeds) :
          o \in {[id |-> w[1], score |-> ExpansionScore(s.score, w[2]), hop |-> w[2]] :
                   w \in Walk(s.id)}
    OBVIOUS
  <2>2. PICK w \in Walk(s.id) :
          o = [id |-> w[1], score |-> ExpansionScore(s.score, w[2]), hop |-> w[2]]
    BY <2>1
  <2>3. w[1] \in Nodes /\ w[2] \in 1..MaxHops
    BY DEF Walk
  <2>4. PICK i \in 1..Len(seeds) : s = seeds[i]
    <3>1. DOMAIN seeds = 1..Len(seeds)
      OBVIOUS
    <3> QED BY <3>1 DEF Range
  <2>5. s.score \in Nat
    <3>1. s \in Entries
      BY <2>4
    <3> QED BY <3>1 DEF Entries
  <2>6. o.score = (seeds[i].score \div Whole) * Factor[w[2]]
    BY <2>2, <2>4 DEF ExpansionScore
  <2>7. Factor[w[2]] \in Nat /\ Whole \in Nat \ {0}
    <3>1. Whole \in Nat \ {0} /\ Factor \in [1..MaxHops -> 0..Whole]
      BY DEF RetrievalAssumption
    <3> QED BY <2>3, <3>1
  <2>8. seeds[i].score \div Whole \in Nat
    BY <2>4, <2>5, <2>7, PartOf
  <2>9. o.score \in Nat
    <3>1. (seeds[i].score \div Whole) * Factor[w[2]] \in Nat
      BY <2>4, <2>5, <2>7, PartOf
    <3> QED BY <2>6, <3>1
  <2>10. o.id \in Nodes /\ o.hop \in 1..MaxHops /\ o = [id |-> o.id, score |-> o.score, hop |-> o.hop]
    BY <2>2, <2>3
  <2> QED BY <2>3, <2>6, <2>9, <2>10 DEF NearEntries
<1> HIDE DEF Offers
<1>3. Reached(seeds) \in SUBSET NearEntries
  BY <1>1, <1>2
<1>4. UniqueIds(Reached(seeds))
  <2> SUFFICES ASSUME NEW x \in Reached(seeds), NEW y \in Reached(seeds), x.id = y.id
               PROVE  x = y
    BY DEF UniqueIds
  <2>1. /\ x \in NearEntries /\ y \in NearEntries
    BY <1>3
  <2>2. /\ x.score < y.score \/ (x.score = y.score /\ x.hop >= y.hop)
        /\ y.score < x.score \/ (y.score = x.score /\ y.hop >= x.hop)
    BY <1>1
  <2>3. /\ x.score \in Nat /\ y.score \in Nat /\ x.hop \in 1..MaxHops /\ y.hop \in 1..MaxHops
    BY <2>1 DEF NearEntries
  <2>4. 1..MaxHops \subseteq Nat
    OBVIOUS
  <2>5. x.hop \in Nat /\ y.hop \in Nat
    BY <2>3, <2>4
  <2>6. x.score = y.score /\ x.hop = y.hop
    <3> DEFINE a == x.score
               b == y.score
               h == x.hop
               k == y.hop
    <3>1. /\ a \in Nat /\ b \in Nat /\ h \in Nat /\ k \in Nat
          /\ a < b \/ (a = b /\ h >= k)
          /\ b < a \/ (b = a /\ k >= h)
      BY <2>2, <2>3, <2>5
    <3> HIDE DEF a, b, h, k
    <3>2. a = b /\ h = k
      BY <3>1, SameBest
    <3> QED BY <3>2 DEF a, b, h, k
  <2>7. /\ x = [id |-> x.id, score |-> x.score, hop |-> x.hop]
        /\ y = [id |-> y.id, score |-> y.score, hop |-> y.hop]
    BY <2>1 DEF NearEntries
  <2> QED BY <2>6, <2>7
<1> QED BY <1>1, <1>2, <1>3, <1>4

(* The merge ranks what led the fusion and what is new among the reached. *)
Together(f, R) ==
  Range(Cut(f)) \cup {r \in R : \A p \in Range(Cut(f)) : p.id # r.id}

LEMMA TogetherFacts ==
  ASSUME RetrievalAssumption,
         NEW F \in SUBSET Entries, UniqueIds(F), NEW f \in Seq(F),
         NEW R \in SUBSET NearEntries, UniqueIds(R)
  PROVE  /\ Together(f, R) \in SUBSET Entries /\ UniqueIds(Together(f, R))
         /\ Together(f, R) \in SUBSET Ranks /\ IsFiniteSet(Together(f, R))
         /\ \A t : t \in Range(Cut(f)) <=> \E i \in 1..Len(Cut(f)) : t = f[i]
         /\ Merge(Cut(f), R) = Cut(Ranked(Together(f, R)))
<1> DEFINE c == Cut(f)
           T == Range(c)
           X == {r \in R : \A p \in T : p.id # r.id}
<1>1. c \in Seq(F) /\ Len(c) \in Nat /\ \A i \in 1..Len(c) : c[i] = f[i]
  BY CutFacts
<1>2. T \subseteq F /\ \A t : t \in T <=> \E i \in 1..Len(c) : t = f[i]
  <2> HIDE DEF c
  <2>1. DOMAIN c = 1..Len(c) /\ \A i \in 1..Len(c) : c[i] \in F
    BY <1>1
  <2>2. \A t : t \in T <=> \E i \in 1..Len(c) : t = c[i]
    BY <2>1 DEF Range
  <2>3. \A i \in 1..Len(c) : c[i] = f[i]
    BY <1>1
  <2> HIDE DEF T
  <2>4. T \subseteq F
    BY <2>1, <2>2
  <2>5. \A t : t \in T <=> \E i \in 1..Len(c) : t = f[i]
    <3>1. ASSUME NEW t \in T PROVE \E i \in 1..Len(c) : t = f[i]
      <4>1. PICK i \in 1..Len(c) : t = c[i]
        BY <2>2
      <4>2. t = f[i]
        BY <2>3, <4>1
      <4> QED BY <4>2
    <3>2. ASSUME NEW i \in 1..Len(c) PROVE f[i] \in T
      BY <2>2, <2>3
    <3> QED BY <3>1, <3>2
  <2> QED BY <2>4, <2>5
<1>3. X \subseteq R /\ \A x \in X, t \in T : t.id # x.id
  OBVIOUS
<1> HIDE DEF c, T, X
<1>4. Together(f, R) = T \cup X
  BY DEF Together, T, X, c
<1>5. Together(f, R) \in SUBSET Entries
  BY <1>2, <1>3, <1>4, EntriesAreRanks
<1>6. UniqueIds(Together(f, R))
  BY <1>2, <1>3, <1>4 DEF UniqueIds
<1>7. Merge(Cut(f), R) = Cut(Ranked(Together(f, R)))
  BY DEF Merge, Together
<1> QED BY <1>2, <1>5, <1>6, <1>7, FewEntries DEF T, c

(* The merge is a ranking, and not an empty one. *)
LEMMA MergeFacts ==
  ASSUME RetrievalAssumption,
         NEW F \in SUBSET Entries, UniqueIds(F), NEW f \in Seq(F), f # <<>>,
         NEW R \in SUBSET NearEntries, UniqueIds(R)
  PROVE  /\ Merge(Cut(f), R) \in Seq(Entries)
         /\ Len(Merge(Cut(f), R)) <= TopK
         /\ Merge(Cut(f), R) # <<>>
<1> DEFINE S == Together(f, R)
           s == Ranked(S)
<1>1. /\ S \in SUBSET Entries /\ UniqueIds(S) /\ S \in SUBSET Ranks /\ IsFiniteSet(S)
      /\ \A t : t \in Range(Cut(f)) <=> \E i \in 1..Len(Cut(f)) : t = f[i]
      /\ Merge(Cut(f), R) = Cut(Ranked(S))
  BY TogetherFacts
<1>2. f[1] \in S
  <2>1. Len(f) \in Nat /\ Len(f) # 0 /\ TopK \in Nat \ {0}
    BY DEF RetrievalAssumption
  <2>2. /\ Len(Cut(f)) \in Nat
        /\ Len(Cut(f)) = Len(f) \/ Len(Cut(f)) = TopK
    BY CutFacts
  <2>3. 1 \in 1..Len(Cut(f))
    BY <2>1, <2>2
  <2> QED BY <1>1, <2>3 DEF Together
<1> HIDE DEF S
<1>3. s \in Seq(S) /\ Len(s) = Cardinality(S) /\ Cardinality(S) \in Nat
  BY <1>1, RankedFacts
<1>4. Len(s) # 0
  BY <1>1, <1>2, <1>3, FS_EmptySet
<1> HIDE DEF s
<1>5. s \in Seq(Entries)
  BY <1>1, <1>3
<1>6. /\ Cut(s) \in Seq(Entries) /\ Len(Cut(s)) \in Nat /\ Len(Cut(s)) <= TopK
      /\ Len(Cut(s)) = Len(s) \/ Len(Cut(s)) = TopK
  BY <1>5, CutFacts
<1>7. TopK # 0
  BY DEF RetrievalAssumption
<1>8. Cut(s) # <<>>
  BY <1>4, <1>6, <1>7
<1> QED BY <1>1, <1>6, <1>8 DEF s

(* The seeds are the first of what was found. *)
Seeds(f) == SubSeq(Cut(f), 1, IF Len(f) < SeedK THEN Len(f) ELSE SeedK)

LEMMA SeedFacts ==
  ASSUME RetrievalAssumption, NEW S, NEW f \in Seq(S)
  PROVE  /\ Seeds(f) \in Seq(S) /\ Len(Seeds(f)) \in Nat /\ Len(Seeds(f)) <= Len(f)
         /\ \A i \in 1..Len(Seeds(f)) : Seeds(f)[i] = f[i]
         /\ Len(Seeds(f)) = IF Len(f) < SeedK THEN Len(f) ELSE SeedK
<1> DEFINE c == Cut(f)
           n == IF Len(f) < SeedK THEN Len(f) ELSE SeedK
<1>1. c \in Seq(S) /\ (Len(c) = Len(f) \/ Len(c) = TopK) /\ \A i \in 1..Len(c) : c[i] = f[i]
  BY CutFacts
<1>2. SeedK \in Nat \ {0} /\ TopK \in Nat /\ SeedK <= TopK /\ Len(f) \in Nat
  BY DEF RetrievalAssumption
<1>3. n \in Nat /\ n <= Len(f) /\ n <= Len(c)
  BY <1>1, <1>2
<1> HIDE DEF n, c
<1>4. /\ 1 \in Int /\ n \in Int /\ n - 1 + 1 = n /\ (~(1 <= n) => n = 0)
      /\ \A i \in 1..n : 1 + i - 1 = i
  BY <1>3
<1>5. \A i \in 1..n : i \in 1..Len(c) /\ c[i] \in S /\ c[i] = f[i]
  BY <1>1, <1>3
<1>6. /\ SubSeq(c, 1, n) \in Seq(S)
      /\ Len(SubSeq(c, 1, n)) = IF 1 <= n THEN n - 1 + 1 ELSE 0
      /\ \A i \in 1..(n - 1 + 1) : SubSeq(c, 1, n)[i] = c[1 + i - 1]
  BY <1>4, <1>5, SubSeqProperties
<1>7. Seeds(f) = SubSeq(c, 1, n)
  BY DEF Seeds, c, n
<1>8. Len(Seeds(f)) = n
  BY <1>3, <1>4, <1>6, <1>7
<1>9. /\ Seeds(f) \in Seq(S) /\ Len(Seeds(f)) \in Nat /\ Len(Seeds(f)) <= Len(f)
      /\ \A i \in 1..Len(Seeds(f)) : Seeds(f)[i] = f[i]
  BY <1>3, <1>4, <1>5, <1>6, <1>7
<1> QED BY <1>8, <1>9 DEF n

(* A ranking of pages that two lists were fused into, if there is any. *)
IsFused(f) == f = <<>> \/ \E os, qd \in Lists(Pages) : f = Fused(os, qd)

LEMMA IsFusedFacts ==
  ASSUME RetrievalAssumption, NEW f, IsFused(f)
  PROVE  f \in Seq(Entries)
<1>1. CASE f = <<>>
  BY <1>1
<1>2. CASE \E os, qd \in Lists(Pages) : f = Fused(os, qd)
  BY <1>2, FusedFacts
<1> QED BY <1>1, <1>2 DEF IsFused

(* The expansion of a ranking that is not empty is one. *)
LEMMA ExpandFacts ==
  ASSUME RetrievalAssumption, NEW f, IsFused(f), f # <<>>
  PROVE  LET m == Merge(Cut(f), Reached(Seeds(f)))
         IN  m \in Seq(Entries) /\ Len(m) <= TopK /\ m # <<>>
<1>1. PICK os, qd \in Lists(Pages) : f = Fused(os, qd)
  BY DEF IsFused
<1>2. PICK F : F = Fusion(os, qd)
  OBVIOUS
<1>3. F \in SUBSET Entries /\ UniqueIds(F) /\ f \in Seq(F)
  <2>1. F \in SUBSET Ranks /\ IsFiniteSet(F) /\ UniqueIds(F)
    BY <1>2, FusionFacts
  <2>2. F \in SUBSET Entries /\ f = Ranked(F)
    BY <1>1, <1>2, FusedFacts
  <2>3. Ranked(F) \in Seq(F)
    BY <2>1, RankedFacts
  <2> QED BY <2>1, <2>2, <2>3
<1>4. PICK R : R = Reached(Seeds(f))
  OBVIOUS
<1>5. R \in SUBSET NearEntries /\ UniqueIds(R)
  <2>1. f \in Seq(Entries)
    BY IsFusedFacts
  <2>2. Seeds(f) \in Seq(Entries)
    BY <2>1, SeedFacts
  <2> QED BY <1>4, <2>2, ReachedFacts
<1> QED BY <1>3, <1>4, <1>5, MergeFacts

(* The ranking at each step. *)
RankInv ==
  /\ kind \in Kinds /\ graph \in Graphs
  /\ fallback \in BOOLEAN /\ gap \in BOOLEAN
  /\ answer \in [refused : BOOLEAN, cited : {s \in Seq(Entries) : Len(s) <= TopK}]
  /\ IsFused(found)
  /\ pages \in Seq(Entries) /\ Len(pages) <= TopK
  /\ at \in {"rewrite", "search"} => pages = <<>> /\ found = <<>>
  /\ at = "expand" => found # <<>> /\ pages = Cut(found)
  /\ found # <<>> => pages # <<>>

LEMMA RankInit ==
  ASSUME RetrievalAssumption
  PROVE  AskInit => RankInv
<1> SUFFICES ASSUME AskInit PROVE RankInv
  OBVIOUS
<1>1. /\ kind \in Kinds /\ graph \in Graphs /\ found = <<>> /\ pages = <<>>
      /\ fallback = FALSE /\ gap = FALSE /\ at # "expand"
      /\ answer = [refused |-> FALSE, cited |-> <<>>]
  BY DEF AskInit
<1>2. <<>> \in Seq(Entries) /\ Len(<<>>) <= TopK
  <2>1. TopK \in Nat
    BY DEF RetrievalAssumption
  <2> QED BY <2>1
<1> QED BY <1>1, <1>2 DEF RankInv, IsFused

LEMMA RankStep ==
  ASSUME RetrievalAssumption, RankInv, [AskNext]_(askVars)
  PROVE  RankInv'
<1>1. CASE UNCHANGED askVars
  BY <1>1 DEF askVars, RankInv, IsFused, Cut
<1>2. CASE Rewrite
  BY <1>2 DEF Rewrite, RankInv, IsFused
<1>3. CASE SearchPages
  <2>1. PICK os, qd \in Lists(Pages) : found' = Fused(os, qd)
    BY <1>3 DEF SearchPages
  <2>2. /\ IsFused(found') /\ pages' = Cut(found')
        /\ at' \in {"cover", "expand"}
        /\ at' = "expand" => found' # <<>>
    BY <1>3, <2>1 DEF SearchPages, IsFused
  <2>3. found' \in Seq(Entries)
    BY <2>2, IsFusedFacts
  <2>4. /\ pages' \in Seq(Entries) /\ Len(pages') <= TopK
        /\ Len(pages') = Len(found') \/ Len(pages') = TopK
    BY <2>2, <2>3, CutFacts
  <2>5. found' # <<>> => pages' # <<>>
    <3>1. TopK # 0
      BY DEF RetrievalAssumption
    <3>2. found' # <<>> => Len(found') # 0
      BY <2>3
    <3> QED BY <2>4, <3>1, <3>2
  <2>6. UNCHANGED <<kind, graph, fallback, gap, answer>>
    BY <1>3 DEF SearchPages
  <2>7. IsFused(found)'
    BY <2>2 DEF IsFused
  <2>8. Cut(found)' = Cut(found')
    BY DEF Cut
  <2> QED BY <2>2, <2>4, <2>5, <2>6, <2>7, <2>8 DEF RankInv
<1>4. CASE Expand
  <2>1. /\ UNCHANGED <<kind, graph, found, fallback, gap, answer>> /\ at' = "cover"
        /\ pages' = Merge(pages, Reached(Seeds(found))) \/ pages' = pages
        /\ pages = Cut(found) /\ found # <<>>
    BY <1>4 DEF Expand, RankInv, Seeds
  <2>2. IsFused(found) /\ IsFused(found)'
    BY <2>1 DEF RankInv, IsFused
  <2>3. CASE pages' = pages
    BY <2>1, <2>2, <2>3 DEF RankInv
  <2>4. CASE found # <<>> /\ pages' = Merge(pages, Reached(Seeds(found)))
    <3>1. pages' \in Seq(Entries) /\ Len(pages') <= TopK /\ pages' # <<>>
      BY <2>1, <2>2, <2>4, ExpandFacts
    <3> QED BY <2>1, <2>2, <3>1 DEF RankInv
  <2> QED BY <2>1, <2>3, <2>4
<1>5. CASE Cover
  <2>1. /\ UNCHANGED <<kind, graph, found, pages, answer>> /\ at' \in {"chunks", "persist"}
        /\ fallback' \in BOOLEAN /\ gap' \in BOOLEAN
    BY <1>5 DEF Cover, Below
  <2> QED BY <2>1 DEF RankInv, IsFused
<1>6. CASE Control
  BY <1>6 DEF Control, RankInv, IsFused
<1>7. CASE SearchChunks
  BY <1>7 DEF SearchChunks, RankInv, IsFused
<1>8. CASE Persist
  BY <1>8 DEF Persist, RankInv, IsFused
<1>9. CASE Compose
  <2>1. Cited \in Seq(Entries) /\ Len(Cited) <= TopK
    <3>1. <<>> \in Seq(Entries) /\ Len(<<>>) <= TopK
      BY DEF RetrievalAssumption
    <3>2. Cut(pages) \in Seq(Entries) /\ Len(Cut(pages)) <= TopK
      BY CutFacts DEF RankInv
    <3> QED BY <3>1, <3>2 DEF Cited
  <2>2. Refused \in BOOLEAN
    BY DEF Refused, Below
  <2> QED BY <1>9, <2>1, <2>2 DEF Compose, RankInv, IsFused
<1>10. CASE Commit
  BY <1>10 DEF Commit, RankInv, IsFused
<1>11. CASE Fail
  BY <1>11 DEF Fail, RankInv, IsFused
<1> QED BY <1>1, <1>2, <1>3, <1>4, <1>5, <1>6, <1>7, <1>8, <1>9, <1>10, <1>11 DEF AskNext

(* Whatever the stores find and the graph holds, and whatever fails: the      *)
(* ranking holds entries of the graph's nodes, TopK at most, the decisions    *)
(* are typed, and there are two trace rows at most.                           *)
THEOREM AskTypeCorrect ==
  ASSUME RetrievalAssumption
  PROVE  AskSpec => []AskTypeOK
<1>1. RankInv /\ RowsInv => AskTypeOK
  <2> SUFFICES ASSUME RankInv, RowsInv PROVE AskTypeOK
    OBVIOUS
  <2>1. at \in {"rewrite", "search", "expand", "cover", "chunks", "persist", "compose",
                "commit", "returned", "failed"}
    BY DEF RowsInv, Early, Late
  <2>2. found \in Seq(Entries)
    BY IsFusedFacts DEF RankInv
  <2>3. \A i \in DOMAIN found : found[i] \in Entries
    BY <2>2
  <2>4. Ranking(pages)
    <3>1. pages \in Seq(Entries) /\ Len(pages) <= TopK
      BY DEF RankInv
    <3> QED BY <3>1 DEF Ranking
  <2>5. Len(tx) + Len(traces) <= 2
    <3>1. Len(Rows) \in Nat /\ Len(Rows) <= 2 /\ Len(<<>>) = 0 /\ Len(<<Queried>>) = 1
      BY DEF Rows
    <3>2. CASE at \in Early \cup {"failed"}
      <4>1. tx = <<>> /\ traces = <<>>
        BY <3>2 DEF RowsInv
      <4> QED BY <3>1, <4>1
    <3>3. CASE at = "compose"
      <4>1. tx = <<Queried>> /\ traces = <<>>
        BY <3>3 DEF RowsInv
      <4>2. Len(tx) = 1 /\ Len(traces) = 0
        BY <3>1, <4>1
      <4> QED BY <4>2
    <3>4. CASE at \in {"commit", "returned"}
      <4>1. (tx = Rows /\ traces = <<>>) \/ (tx = <<>> /\ traces = Rows)
        BY <3>4 DEF RowsInv
      <4> QED BY <3>1, <4>1
    <3> QED BY <3>2, <3>3, <3>4 DEF RowsInv, Late
  <2>6. answer.refused \in BOOLEAN /\ Ranking(answer.cited)
    <3>1. answer \in [refused : BOOLEAN, cited : {s \in Seq(Entries) : Len(s) <= TopK}]
      BY DEF RankInv
    <3> QED BY <3>1 DEF Ranking
  <2> QED BY <2>1, <2>3, <2>4, <2>5, <2>6 DEF RankInv, AskTypeOK
<1> QED BY <1>1, RowsInit, RowsStep, RankInit, RankStep, PTL DEF AskSpec

(* An answer that was composed rests on a page, and its citations are the     *)
(* first pages of the ranking in the query's own row, as long as a question   *)
(* nothing was found for is refused: the threshold for that is not zero.      *)
THEOREM AnswersRestOnPages ==
  ASSUME RetrievalAssumption, Refuse[1] > 0
  PROVE  AskSpec => []AnswerGrounded
<1>1. RankInv /\ RowsInv => AnswerGrounded
  <2> SUFFICES ASSUME RankInv, RowsInv, NEW i \in DOMAIN traces, traces[i].table = "ask_traces"
               PROVE  /\ traces[traces[i].query].table = "query_traces"
                      /\ traces[i].refused = answer.refused
                      /\ ~answer.refused =>
                           /\ answer.cited # <<>>
                           /\ IsPrefix(answer.cited, traces[traces[i].query].ranking)
    BY DEF AnswerGrounded
  <2>1. traces # <<>>
    OBVIOUS
  <2>2. at = "returned" /\ traces = Rows
    BY <2>1 DEF RowsInv, Early, Late
  <2>3. Queried.table = "query_traces" /\ Queried.ranking = pages
    BY DEF Queried
  <2>4. kind = "ask" /\ traces = <<Queried, Asked>>
    BY <2>1, <2>2, <2>3 DEF Rows
  <2>5. /\ Asked.query = 1 /\ Asked.refused = Refused
        /\ answer.refused = Refused /\ (~Refused => answer.cited = Cut(pages))
    BY <2>2, <2>4 DEF Asked, RowsInv, Result, Cited
  <2>6. traces[1] = Queried /\ traces[i] = Asked
    <3>1. i = 1 \/ i = 2
      BY <2>4
    <3>2. traces[1] = Queried /\ traces[2] = Asked
      BY <2>4
    <3> QED BY <2>3, <3>1, <3>2
  <2>7. ASSUME ~Refused PROVE Cut(pages) # <<>> /\ IsPrefix(Cut(pages), pages)
    <3>1. Refuse \in Nat \X (Nat \ {0}) /\ TopK \in Nat \ {0}
      BY DEF RetrievalAssumption
    <3>2. found # <<>>
      <4> SUFFICES ASSUME found = <<>> PROVE Refused
        BY <2>7
      <4>1. Coverage(found) = <<0, 1>>
        BY DEF Coverage
      <4>2. 0 * Refuse[2] < Refuse[1] * 1
        BY <3>1
      <4> QED BY <4>1, <4>2 DEF Refused, Below
    <3>3. pages \in Seq(Entries) /\ pages # <<>>
      BY <3>2 DEF RankInv
    <3>4. IsPrefix(Cut(pages), pages)
      BY <3>3, CutIsPrefix
    <3>5. Len(Cut(pages)) # 0
      <4>1. Len(Cut(pages)) = Len(pages) \/ Len(Cut(pages)) = TopK
        BY <3>3, CutFacts
      <4>2. Len(pages) # 0
        BY <3>3
      <4> QED BY <3>1, <4>1, <4>2
    <3> QED BY <3>4, <3>5
  <2> QED BY <2>3, <2>5, <2>6, <2>7
<1> QED BY <1>1, RowsInit, RowsStep, RankInit, RankStep, PTL DEF AskSpec

-----------------------------------------------------------------------------
(* What was found leads: nothing that is reached can outrank it. *)

LEMMA Cross ==
  ASSUME NEW a \in Nat, NEW b \in Nat, NEW x \in Nat, NEW y \in Nat,
         NEW k \in Nat \ {0}, NEW l \in Nat \ {0}, k * x = l * y, a * l <= b * k
  PROVE  a * x <= b * y
<1> DEFINE al == a * l
           bk == b * k
           ax == a * x
           by == b * y
<1>1. al \in Nat /\ bk \in Nat /\ ax \in Nat /\ by \in Nat /\ al <= bk
  OBVIOUS
<1>2. ax * k = a * (k * x)
  OBVIOUS
<1>3. a * (l * y) = al * y
  OBVIOUS
<1>4. bk * y = by * k
  OBVIOUS
<1> HIDE DEF al, bk, ax, by
<1>5. al * y <= bk * y
  BY <1>1
<1>6. ax * k <= by * k
  <2>1. ax * k = al * y
    BY <1>2, <1>3
  <2> QED BY <1>4, <1>5, <2>1
<1>7. ax <= by
  <2> SUFFICES ASSUME ax >= by + 1 PROVE FALSE
    BY <1>1
  <2>1. ax * k >= (by + 1) * k
    BY <1>1
  <2>2. (by + 1) * k = by * k + k
    BY <1>1
  <2> DEFINE p == ax * k
             q == by * k
  <2>3. p \in Nat /\ q \in Nat
    BY <1>1
  <2>4. p <= q /\ p >= q + k
    BY <1>6, <2>1, <2>2
  <2> HIDE DEF p, q
  <2> QED BY <2>3, <2>4
<1> QED BY <1>7 DEF ax, by

LEMMA WholeQuotient ==
  ASSUME NEW d \in Nat \ {0}, NEW m \in Nat
  PROVE  (d * m) \div d = m
<1> DEFINE n == d * m
           q == n \div d
<1>1. n \in Nat
  OBVIOUS
<1> HIDE DEF n
<1>2. q \in Nat /\ d * q <= n /\ n < d * q + d
  BY <1>1
<1> HIDE DEF q
<1>3. ~(m >= q + 1)
  <2> SUFFICES ASSUME m >= q + 1 PROVE FALSE
    OBVIOUS
  <2>1. d * m >= d * (q + 1) /\ d * (q + 1) = d * q + d
    BY <1>2
  <2> DEFINE u == d * m
             v == d * q
  <2>2. u \in Nat /\ v \in Nat /\ u >= v + d /\ u < v + d
    BY <1>1, <1>2, <2>1 DEF n
  <2> HIDE DEF u, v
  <2> QED BY <2>2
<1>4. ~(q >= m + 1)
  <2> SUFFICES ASSUME q >= m + 1 PROVE FALSE
    OBVIOUS
  <2>1. d * q >= d * (m + 1) /\ d * (m + 1) = d * m + d
    BY <1>2
  <2> DEFINE u == d * m
             v == d * q
  <2>2. u \in Nat /\ v \in Nat /\ v >= u + d /\ v <= u
    BY <1>1, <1>2, <2>1 DEF n
  <2> HIDE DEF u, v
  <2> QED BY <2>2
<1>5. q = m
  BY <1>2, <1>3, <1>4
<1> QED BY <1>5 DEF q, n

LEMMA Outweighed ==
  ASSUME RetrievalAssumption, SeedsOutweigh,
         NEW r \in 1..PoolSize, r <= TopK, NEW h \in 1..MaxHops, NEW m \in 0..(2 * Q(1))
  PROVE  m * Factor[h] <= Worth(r)
<1>1. /\ RrfK \in Nat \ {0} /\ TopK \in Nat /\ PoolSize \in Nat \ {0} /\ Whole \in Nat
      /\ Factor \in [1..MaxHops -> 0..Whole]
  BY DEF RetrievalAssumption
<1> DEFINE f == Factor[h]
           k == RrfK + 1
           l == RrfK + r
           t == RrfK + TopK
           p == Q(1)
           q == Q(r)
<1>2. f \in Nat
  BY <1>1
<1>3. k \in Nat \ {0} /\ l \in Nat \ {0} /\ t \in Nat /\ l <= t
  BY <1>1
<1>4. p \in Nat /\ q \in Nat /\ k * p = l * q
  <2>1. 1 \in 1..PoolSize
    BY <1>1
  <2>2. Q(1) \in Nat /\ (RrfK + 1) * Q(1) = Unit /\ Q(r) \in Nat /\ (RrfK + r) * Q(r) = Unit
    BY <2>1, Quotients
  <2> QED BY <2>2
<1>5. 2 * f * t <= Whole * k
  BY DEF SeedsOutweigh
<1>6. m \in Nat /\ m <= 2 * p
  BY <1>4
<1> HIDE DEF f, k, l, t, p, q
<1>7. 2 * f * l <= Whole * k
  <2>1. 2 * f \in Nat /\ 2 * f * l \in Nat /\ 2 * f * t \in Nat /\ Whole * k \in Nat
    BY <1>1, <1>2, <1>3
  <2>2. 2 * f * l <= 2 * f * t
    BY <1>2, <1>3
  <2> QED BY <1>5, <2>1, <2>2
<1>8. 2 * f * p <= Whole * q
  <2>1. 2 * f \in Nat
    BY <1>2
  <2> QED BY <1>1, <1>3, <1>4, <1>7, <2>1, Cross
<1>9. m * f <= 2 * p * f
  BY <1>2, <1>4, <1>6
<1>10. 2 * p * f = 2 * f * p /\ m * f \in Nat /\ 2 * p * f \in Nat /\ Whole * q \in Nat
  BY <1>1, <1>2, <1>4, <1>6
<1>11. m * f <= Whole * q
  BY <1>8, <1>9, <1>10
<1> QED BY <1>11 DEF f, q, Worth

LEMMA NotMore == ASSUME NEW a \in Nat, NEW b \in Nat, a <= b PROVE ~(a > b)
OBVIOUS

(* If nothing new is worth more than what leads, what leads stays. *)
LEMMA LeadersStay ==
  ASSUME RetrievalAssumption,
         NEW F \in SUBSET Entries, UniqueIds(F), \A x \in F : x.hop = 0,
         NEW f, f = Ranked(F),
         NEW R \in SUBSET NearEntries, UniqueIds(R),
         \A r \in R : \A i \in 1..Len(Cut(f)) : r.score <= f[i].score
  PROVE  IsPrefix(Cut(f), Merge(Cut(f), R))
<1>1. F \in SUBSET Ranks /\ IsFiniteSet(F)
  BY FewEntries
<1>2. /\ f \in Seq(F) /\ Len(f) = Cardinality(F) /\ Cardinality(F) \in Nat
      /\ \A i \in 1..Cardinality(F) : Place(F, f[i]) = i - 1
      /\ \A x \in F : Place(F, x) + 1 \in 1..Cardinality(F) /\ f[Place(F, x) + 1] = x
  BY <1>1, RankedFacts
<1> DEFINE c == Cut(f)
           S == Together(f, R)
           s == Ranked(S)
<1>3. /\ c \in Seq(F) /\ Len(c) \in Nat /\ Len(c) <= TopK /\ Len(c) <= Len(f)
      /\ \A i \in 1..Len(c) : c[i] = f[i]
  <2>1. f \in Seq(F)
    BY <1>2
  <2> QED BY <2>1, CutFacts
<1>4. /\ S \in SUBSET Entries /\ UniqueIds(S) /\ S \in SUBSET Ranks /\ IsFiniteSet(S)
      /\ \A t : t \in Range(c) <=> \E i \in 1..Len(c) : t = f[i]
      /\ Merge(c, R) = Cut(s)
  <2>1. f \in Seq(F)
    BY <1>2
  <2> QED BY <2>1, TogetherFacts
<1>5. S \subseteq Range(c) \cup R /\ Range(c) \subseteq S
  BY DEF Together
<1> HIDE DEF c, S, s
<1>6. ASSUME NEW i \in 1..Len(c) PROVE Before(S, f[i]) = Before(F, f[i])
  <2> DEFINE x == f[i]
  <2>1. x \in F /\ x \in Entries /\ x.hop = 0 /\ i \in 1..Len(f)
    BY <1>2, <1>3
  <2> HIDE DEF x
  <2>2. ASSUME NEW y \in S, Ahead(y, x) PROVE y \in F
    <3>1. CASE y \in R
      <4>1. y.score \in Nat /\ y.hop \in 1..MaxHops /\ x.score \in Nat
        BY <2>1, <3>1 DEF NearEntries, Entries
      <4>2. y.score <= x.score
        BY <3>1 DEF x, c
      <4>3. y.hop # 0 /\ ~(y.hop = 0)
        BY <4>1
      <4>4. ~(y.score > x.score)
        BY <4>1, <4>2, NotMore
      <4> QED BY <2>1, <2>2, <4>3, <4>4 DEF Ahead
    <3>2. CASE y \in Range(c)
      <4>1. PICK j \in 1..Len(c) : y = f[j]
        BY <1>4, <3>2
      <4>2. j \in 1..Len(f)
        BY <1>2, <1>3
      <4> QED BY <1>2, <4>1, <4>2
    <3> QED BY <1>5, <3>1, <3>2
  <2>3. ASSUME NEW y \in F, Ahead(y, x) PROVE y \in S
    <3>1. Place(F, y) < Place(F, x) /\ Place(F, y) \in 0..(Cardinality(F) - 1)
      BY <1>1, <2>1, <2>3, Places
    <3>2. Place(F, x) = i - 1
      BY <1>2, <2>1 DEF x
    <3>3. Place(F, y) + 1 \in 1..Len(c)
      <4> DEFINE p == Place(F, y)
      <4>1. p \in Nat /\ p < i - 1 /\ Len(c) \in Nat
        BY <1>2, <1>3, <3>1, <3>2
      <4> HIDE DEF p
      <4>2. p + 1 \in 1..Len(c)
        BY <4>1
      <4> QED BY <4>2 DEF p
    <3>4. f[Place(F, y) + 1] = y
      BY <1>2, <2>3
    <3> QED BY <1>4, <1>5, <3>3, <3>4
  <2>4. Before(S, x) = Before(F, x)
    BY <2>2, <2>3 DEF Before
  <2> QED BY <2>4 DEF x
<1>7. /\ s \in Seq(S) /\ Len(s) = Cardinality(S) /\ Cardinality(S) \in Nat
      /\ \A x \in S : Place(S, x) + 1 \in 1..Cardinality(S) /\ s[Place(S, x) + 1] = x
  BY <1>4, RankedFacts DEF s
<1>8. ASSUME NEW i \in 1..Len(c) PROVE i \in 1..Len(s) /\ s[i] = f[i]
  <2>1. f[i] \in S
    BY <1>4, <1>5
  <2>2. Place(S, f[i]) = Place(F, f[i])
    BY <1>6 DEF Place
  <2>3. i \in 1..Cardinality(F)
    BY <1>2, <1>3
  <2>4. Place(F, f[i]) = i - 1
    BY <1>2, <2>3
  <2>5. Place(S, f[i]) + 1 = i
    BY <1>3, <2>2, <2>4
  <2> QED BY <1>7, <2>1, <2>5
<1>9. Len(c) <= Len(s)
  <2>1. CASE Len(c) = 0
    BY <1>7, <2>1
  <2>2. CASE Len(c) # 0
    <3>1. Len(c) \in 1..Len(c)
      BY <1>3, <2>2
    <3>2. Len(c) \in 1..Len(s)
      BY <1>8, <3>1
    <3> QED BY <1>7, <3>2
  <2> QED BY <2>1, <2>2
<1> DEFINE d == Cut(s)
<1>10. /\ s \in Seq(Entries) /\ c \in Seq(Entries)
  BY <1>3, <1>4, <1>7
<1>11. /\ d \in Seq(Entries) /\ Len(d) \in Nat /\ (Len(d) = Len(s) \/ Len(d) = TopK)
       /\ \A i \in 1..Len(d) : d[i] = s[i]
  BY <1>10, CutFacts
<1>12. Len(c) <= Len(d)
  BY <1>3, <1>9, <1>11
<1> HIDE DEF d
<1>13. \A i \in 1..Len(c) : c[i] = d[i]
  <2> SUFFICES ASSUME NEW i \in 1..Len(c) PROVE c[i] = d[i]
    OBVIOUS
  <2>1. i \in 1..Len(d)
    BY <1>3, <1>11, <1>12
  <2> QED BY <1>3, <1>8, <1>11, <2>1
<1>14. IsPrefix(c, d)
  BY <1>10, <1>11, <1>12, <1>13, SameStart
<1> QED BY <1>4, <1>14 DEF c, d

LEMMA Product == ASSUME NEW a \in Nat, NEW b \in Nat PROVE a * b \in Nat
OBVIOUS

LEMMA AtMost ==
  ASSUME NEW a \in Nat, NEW b \in Nat, NEW c \in Nat, a <= b, c >= b
  PROVE  a <= c
OBVIOUS

(* No page that the walk reaches is worth more than one that leads. *)
LEMMA NoneAhead ==
  ASSUME RetrievalAssumption, SeedsOutweigh, NEW f, IsFused(f), f # <<>>,
         NEW r \in Reached(Seeds(f)), NEW i \in 1..Len(Cut(f))
  PROVE  r.score <= f[i].score
<1>1. PICK os, qd \in Lists(Pages) : f = Fused(os, qd)
  BY DEF IsFused
<1>2. PICK F : F = Fusion(os, qd)
  OBVIOUS
<1>3. /\ F \in SUBSET Ranks /\ IsFiniteSet(F) /\ UniqueIds(F)
      /\ \A x \in F : x.score \in Nat /\ \E m \in 0..(2 * Q(1)) : x.score = Whole * m
  <2>1. /\ F \in SUBSET Ranks /\ IsFiniteSet(F) /\ UniqueIds(F)
        /\ \A x \in F : \E m \in 0..(2 * Q(1)) : x.score = Whole * m
    BY <1>2, FusionFacts
  <2>2. \A x \in F : x.score \in Nat
    BY <2>1 DEF Ranks
  <2> QED BY <2>1, <2>2
<1>4. f = Ranked(F)
  BY <1>1, <1>2, FusedFacts
<1>5. f \in Seq(F) /\ Len(f) = Cardinality(F) /\ Len(f) \in Nat
  BY <1>3, <1>4, RankedFacts
<1>6. Len(Cut(f)) \in Nat /\ Len(Cut(f)) <= TopK /\ Len(Cut(f)) <= Len(f)
  BY <1>5, CutFacts
<1>7. TopK \in Nat /\ PoolSize \in Nat /\ Whole \in Nat \ {0} /\ Factor \in [1..MaxHops -> 0..Whole]
  BY DEF RetrievalAssumption
<1>8. i \in 1..Cardinality(F) /\ i \in Nat /\ i <= TopK
  BY <1>5, <1>6, <1>7
<1>9. PICK k \in 1..PoolSize : k <= i /\ f[i].score >= Worth(k)
  BY <1>2, <1>4, <1>8, KthBest
<1>10. k <= TopK
  BY <1>7, <1>8, <1>9
<1>11. PICK j \in 1..Len(Seeds(f)), h \in 1..MaxHops :
         r.score = (Seeds(f)[j].score \div Whole) * Factor[h]
  <2>1. f \in Seq(Entries)
    BY IsFusedFacts
  <2>2. Seeds(f) \in Seq(Entries)
    BY <2>1, SeedFacts
  <2> QED BY <2>2, ReachedFacts
<1>12. Seeds(f)[j] \in F
  <2>1. Seeds(f) \in Seq(F)
    BY <1>5, SeedFacts
  <2> QED BY <2>1, ElementOfSeq
<1>13. PICK m \in 0..(2 * Q(1)) : Seeds(f)[j].score = Whole * m
  BY <1>3, <1>12
<1>14. m \in Nat
  <2>1. 0 \in Nat /\ m \in Int /\ m >= 0
    OBVIOUS
  <2> QED BY <2>1
<1>15. Seeds(f)[j].score \div Whole = m
  BY <1>7, <1>13, <1>14, WholeQuotient
<1>16. r.score = m * Factor[h]
  BY <1>11, <1>15
<1>17. m * Factor[h] <= Worth(k)
  BY <1>10, Outweighed
<1>18. Worth(k) \in Nat /\ f[i].score \in Nat /\ m * Factor[h] \in Nat
  <2>1. f[i] \in F
    <3>1. i \in 1..Len(f)
      BY <1>5, <1>8
    <3> QED BY <1>5, <3>1, ElementOfSeq
  <2>2. Factor[h] \in Nat
    BY <1>7
  <2>3. m * Factor[h] \in Nat
    BY <1>14, <2>2, Product
  <2> QED BY <1>3, <2>1, <2>3, WorthIsNat
<1> HIDE DEF Worth
<1>19. m * Factor[h] <= f[i].score
  BY <1>9, <1>17, <1>18, AtMost
<1> QED BY <1>16, <1>19

(* Graph expansion never displaces a page that was found: the best of what was *)
(* found leads the ranking in its order, whatever edges there are, for every   *)
(* pool, answer and seed count, as long as a seed's weight on its neighbours   *)
(* is no more than what the last rank of the answer is worth.                  *)
THEOREM WhatWasFoundLeads ==
  ASSUME RetrievalAssumption, SeedsOutweigh
  PROVE  AskSpec => []FoundLeads
<1>1. AskInit => FoundLeads
  <2> SUFFICES ASSUME AskInit PROVE FoundLeads
    OBVIOUS
  <2>1. found = <<>> /\ pages = <<>>
    BY DEF AskInit
  <2>2. <<>> \in Seq(Entries)
    OBVIOUS
  <2>3. IsPrefix(Cut(<<>>), <<>>)
    BY <2>2, CutIsPrefix
  <2> QED BY <2>1, <2>3 DEF FoundLeads
<1>2. RankInv /\ FoundLeads /\ [AskNext]_(askVars) => FoundLeads'
  <2> SUFFICES ASSUME RankInv, FoundLeads, [AskNext]_(askVars) PROVE FoundLeads'
    OBVIOUS
  <2>1. CASE UNCHANGED <<found, pages>>
    BY <2>1 DEF FoundLeads, Cut, IsPrefix
  <2>2. CASE SearchPages
    <3>1. PICK os, qd \in Lists(Pages) : found' = Fused(os, qd)
      BY <2>2 DEF SearchPages
    <3>2. IsFused(found') /\ pages' = Cut(found')
      BY <2>2, <3>1 DEF SearchPages, IsFused
    <3>3. Cut(found') \in Seq(Entries)
      BY <3>2, IsFusedFacts, CutFacts
    <3>4. IsPrefix(Cut(found'), pages')
      BY <3>2, <3>3, SameStart
    <3> QED BY <3>4 DEF FoundLeads, Cut, IsPrefix
  <2>3. CASE Expand
    <3>1. /\ found' = found
          /\ pages' = Merge(pages, Reached(Seeds(found))) \/ pages' = pages
          /\ pages = Cut(found) /\ found # <<>> /\ IsFused(found)
      BY <2>3 DEF Expand, RankInv, Seeds
    <3>2. CASE pages' = pages
      BY <2>1, <3>1, <3>2
    <3>3. CASE pages' = Merge(pages, Reached(Seeds(found)))
      <4>1. PICK f : f = found
        OBVIOUS
      <4>2. PICK R : R = Reached(Seeds(f))
        OBVIOUS
      <4>3. PICK os, qd \in Lists(Pages) : f = Fused(os, qd)
        BY <3>1, <4>1 DEF IsFused
      <4>4. PICK F : F = Fusion(os, qd)
        OBVIOUS
      <4>5. /\ F \in SUBSET Entries /\ UniqueIds(F) /\ \A x \in F : x.hop = 0
            /\ f = Ranked(F)
        <5>1. UniqueIds(F) /\ \A x \in F : x.hop = 0
          BY <4>4, FusionFacts
        <5> QED BY <4>3, <4>4, <5>1, FusedFacts
      <4>6. R \in SUBSET NearEntries /\ UniqueIds(R)
        <5>1. f \in Seq(Entries)
          BY <3>1, <4>1, IsFusedFacts
        <5>2. Seeds(f) \in Seq(Entries)
          BY <5>1, SeedFacts
        <5> QED BY <4>2, <5>2, ReachedFacts
      <4>7. \A r \in R : \A i \in 1..Len(Cut(f)) : r.score <= f[i].score
        BY <3>1, <4>1, <4>2, NoneAhead
      <4>8. IsPrefix(Cut(f), Merge(Cut(f), R))
        BY <4>5, <4>6, <4>7, LeadersStay
      <4>9. IsPrefix(Cut(found'), pages')
        BY <3>1, <3>3, <4>1, <4>2, <4>8
      <4> QED BY <4>9 DEF FoundLeads, Cut, IsPrefix
    <3> QED BY <3>1, <3>2, <3>3
  <2>4. CASE Rewrite \/ Cover \/ Control \/ SearchChunks \/ Persist
             \/ Compose \/ Commit \/ Fail
    <3>1. UNCHANGED <<found, pages>>
      BY <2>4 DEF Rewrite, Cover, Control, SearchChunks, Persist,
                  Compose, Commit, Fail
    <3> QED BY <2>1, <3>1
  <2>5. CASE UNCHANGED askVars
    BY <2>1, <2>5 DEF askVars
  <2> QED BY <2>2, <2>3, <2>4, <2>5 DEF AskNext
<1> QED BY <1>1, <1>2, RankInit, RankStep, PTL DEF AskSpec

-----------------------------------------------------------------------------
(* Coverage is a fraction, and what is refused is a gap. *)

(* A sum over ranks exists: if there were none up to some rank, there would be
   a first such rank. *)
SumUpTo(a, k, h) == \A i \in 0..k : h[i] = IF i = 0 THEN 0 ELSE h[i - 1] + a[i]

LEMMA SumExists ==
  ASSUME NEW n \in Nat, NEW a \in [1..n -> Int]
  PROVE  \E h \in [0..n -> Int] : SumUpTo(a, n, h)
<1> DEFINE T == {k \in 0..n : ~\E h \in [0..k -> Int] : SumUpTo(a, k, h)}
<1>1. T = {}
  <2> SUFFICES ASSUME T # {} PROVE FALSE
    OBVIOUS
  <2>1. T \in SUBSET Nat
    OBVIOUS
  <2> HIDE DEF T
  <2>2. PICK k \in T : \A j \in T : k <= j
    BY <2>1, Least
  <2>3. k \in Nat /\ k <= n /\ ~\E h \in [0..k -> Int] : SumUpTo(a, k, h)
    BY <2>2 DEF T
  <2>4. CASE k = 0
    <3> DEFINE h == [i \in 0..k |-> 0]
    <3>1. h \in [0..k -> Int] /\ \A i \in 0..k : i = 0 /\ h[i] = 0
      BY <2>4
    <3> HIDE DEF h
    <3>2. SumUpTo(a, k, h)
      BY <3>1 DEF SumUpTo
    <3> QED BY <2>3, <3>1, <3>2
  <2>5. CASE k # 0
    <3>1. k - 1 \in Nat /\ k - 1 \in 0..n /\ ~(k <= k - 1)
      BY <2>3, <2>5
    <3>2. k - 1 \notin T
      BY <2>2, <3>1
    <3>3. PICK g \in [0..(k - 1) -> Int] : SumUpTo(a, k - 1, g)
      BY <3>1, <3>2 DEF T
    <3> DEFINE h == [i \in 0..k |-> IF i = k THEN g[k - 1] + a[k] ELSE g[i]]
    <3>4. g[k - 1] + a[k] \in Int
      <4>1. k - 1 \in 0..(k - 1) /\ k \in 1..n
        BY <2>3, <2>5, <3>1
      <4>2. g[k - 1] \in Int /\ a[k] \in Int
        BY <4>1
      <4> QED BY <4>2
    <3>5. \A i \in 0..k : i # k => i \in 0..(k - 1)
      BY <2>3
    <3>6. h \in [0..k -> Int]
      BY <3>4, <3>5
    <3>7. h[k] = g[k - 1] + a[k] /\ \A i \in 0..(k - 1) : h[i] = g[i]
      BY <2>3
    <3> HIDE DEF h
    <3>8. SumUpTo(a, k, h)
      <4> SUFFICES ASSUME NEW i \in 0..k PROVE h[i] = IF i = 0 THEN 0 ELSE h[i - 1] + a[i]
        BY DEF SumUpTo
      <4>1. CASE i = k
        <5>1. k - 1 \in 0..(k - 1)
          BY <3>1
        <5> QED BY <2>5, <3>7, <4>1, <5>1
      <4>2. CASE i # k
        <5>1. i \in 0..(k - 1) /\ (i # 0 => i - 1 \in 0..(k - 1))
          BY <2>3, <4>2
        <5>2. g[i] = IF i = 0 THEN 0 ELSE g[i - 1] + a[i]
          BY <3>3, <5>1 DEF SumUpTo
        <5> QED BY <3>7, <5>1, <5>2
      <4> QED BY <4>1, <4>2
    <3> QED BY <2>3, <3>6, <3>8
  <2> QED BY <2>4, <2>5
<1>2. n \in 0..n
  OBVIOUS
<1> QED BY <1>1, <1>2

LEMMA SumIsInteger ==
  ASSUME NEW n \in Nat, NEW a \in [1..n -> Int], NEW g, SumUpTo(a, n, g)
  PROVE  g[n] \in Int
<1> DEFINE T == {k \in 0..n : g[k] \notin Int}
<1>1. T = {}
  <2> SUFFICES ASSUME T # {} PROVE FALSE
    OBVIOUS
  <2>1. T \in SUBSET Nat
    OBVIOUS
  <2> HIDE DEF T
  <2>2. PICK k \in T : \A j \in T : k <= j
    BY <2>1, Least
  <2>3. k \in 0..n /\ g[k] \notin Int
    BY <2>2 DEF T
  <2>4. g[k] = IF k = 0 THEN 0 ELSE g[k - 1] + a[k]
    BY <2>3 DEF SumUpTo
  <2>5. k # 0 /\ k \in 1..n /\ k - 1 \in 0..n /\ ~(k <= k - 1)
    BY <2>3, <2>4
  <2>6. k - 1 \notin T
    BY <2>2, <2>5
  <2>7. g[k - 1] \in Int /\ a[k] \in Int
    BY <2>5, <2>6 DEF T
  <2> QED BY <2>3, <2>4, <2>5, <2>7
<1>2. n \in 0..n
  OBVIOUS
<1> QED BY <1>1, <1>2

LEMMA Difference == ASSUME NEW a \in Nat, NEW b \in Nat PROVE a - b \in Int
OBVIOUS

LEMMA CoverageIsFraction ==
  ASSUME RetrievalAssumption, NEW f, IsFused(f)
  PROVE  Coverage(f)[1] \in Int /\ Coverage(f)[2] \in Nat
<1>1. CASE f = <<>>
  BY <1>1 DEF Coverage
<1>2. CASE f # <<>> /\ f[1].score = f[Len(f)].score
  BY <1>2 DEF Coverage
<1>3. CASE f # <<>> /\ f[1].score # f[Len(f)].score
  <2> DEFINE low == f[Len(f)].score
             n == Len(Cut(f))
             a == [i \in 1..n |-> f[i].score - low]
             g == CHOOSE h : h = [i \in 0..n |-> IF i = 0 THEN 0 ELSE h[i - 1] + (f[i].score - low)]
  <2>1. PICK os, qd \in Lists(Pages) : f = Fused(os, qd)
    BY <1>3 DEF IsFused
  <2>2. PICK F : F = Fusion(os, qd)
    OBVIOUS
  <2>3. F \in SUBSET Ranks /\ IsFiniteSet(F) /\ UniqueIds(F) /\ f = Ranked(F)
    BY <2>1, <2>2, FusionFacts, FusedFacts
  <2>4. /\ f \in Seq(F) /\ Len(f) = Cardinality(F) /\ Len(f) \in Nat
        /\ \A i \in 1..Cardinality(F) : Place(F, f[i]) = i - 1
    BY <2>3, RankedFacts
  <2>5. \A i \in 1..Len(f) : f[i] \in F /\ f[i].score \in Nat
    <3>1. \A i \in 1..Len(f) : f[i] \in F
      BY <2>4, ElementOfSeq
    <3> QED BY <2>3, <3>1 DEF Ranks
  <2>6. 1 \in 1..Len(f) /\ Len(f) \in 1..Len(f)
    <3>1. Len(f) # 0
      BY <1>3, <2>4
    <3> QED BY <2>4, <3>1
  <2>7. low \in Nat /\ f[1].score \in Nat
    BY <2>5, <2>6
  <2>8. f[1].score >= low
    <3> DEFINE x == f[1]
               y == f[Len(f)]
    <3>1. x \in F /\ y \in F /\ Place(F, x) = 0 /\ Place(F, y) = Len(f) - 1
      BY <2>4, <2>5, <2>6
    <3> HIDE DEF x, y
    <3>2. x \in Ranks /\ y \in Ranks
      BY <2>3, <3>1
    <3>3. ~Ahead(y, x)
      <4> SUFFICES ASSUME Ahead(y, x) PROVE FALSE
        OBVIOUS
      <4>1. Place(F, y) < Place(F, x)
        BY <2>3, <3>1, Places
      <4> QED BY <2>4, <2>6, <3>1, <4>1
    <3>4. ~(y.score > x.score)
      BY <3>3 DEF Ahead
    <3>5. x.score \in Nat /\ y.score \in Nat
      BY <3>2 DEF Ranks
    <3>6. x.score >= y.score
      BY <3>4, <3>5
    <3> QED BY <3>6 DEF x, y
  <2>9. n \in Nat /\ n <= Len(f)
    BY <2>4, CutFacts
  <2>10. Coverage(f) = <<g[n], n * (f[1].score - low)>>
    BY <1>3 DEF Coverage, Mean
  <2> HIDE DEF low, n
  <2>11. a \in [1..n -> Int]
    <3> SUFFICES ASSUME NEW i \in 1..n PROVE f[i].score - low \in Int
      OBVIOUS
    <3>1. f[i].score \in Nat
      <4>1. i \in 1..Len(f)
        BY <2>4, <2>9
      <4> QED BY <2>5, <4>1
    <3>2. low \in Nat
      BY <2>7
    <3> QED BY <3>1, <3>2, Difference
  <2>12. \E h : h = [i \in 0..n |-> IF i = 0 THEN 0 ELSE h[i - 1] + (f[i].score - low)]
    <3>1. PICK h \in [0..n -> Int] : SumUpTo(a, n, h)
      BY <2>9, <2>11, SumExists
    <3>2. \A i \in 0..n : i # 0 => i \in 1..n
      BY <2>9
    <3>3. \A i \in 0..n : h[i] = IF i = 0 THEN 0 ELSE h[i - 1] + (f[i].score - low)
      BY <3>1, <3>2 DEF SumUpTo
    <3>4. h = [i \in 0..n |-> IF i = 0 THEN 0 ELSE h[i - 1] + (f[i].score - low)]
      BY <3>1, <3>3
    <3> QED BY <3>4
  <2>13. g = [i \in 0..n |-> IF i = 0 THEN 0 ELSE g[i - 1] + (f[i].score - low)]
    BY <2>12
  <2> HIDE DEF g
  <2>14. SumUpTo(a, n, g)
    <3>1. \A i \in 0..n : i # 0 => i \in 1..n
      BY <2>9
    <3>2. \A i \in 0..n : g[i] = IF i = 0 THEN 0 ELSE g[i - 1] + (f[i].score - low)
      BY <2>13
    <3> QED BY <3>1, <3>2 DEF SumUpTo
  <2> HIDE DEF a
  <2>15. g[n] \in Int
    BY <2>9, <2>11, <2>14, SumIsInteger
  <2>16. f[1].score - low \in Nat
    BY <2>7, <2>8
  <2>17. n * (f[1].score - low) \in Nat
    BY <2>9, <2>16, Product
  <2> QED BY <2>10, <2>15, <2>17
<1> QED BY <1>1, <1>2, <1>3

LEMMA BelowBoth ==
  ASSUME NEW c \in Int, NEW d \in Nat, NEW r \in Nat, NEW s \in Nat \ {0},
         NEW t \in Nat, NEW u \in Nat \ {0}, r * u <= t * s, c * s < r * d
  PROVE  c * u < t * d
<1> DEFINE cs == c * s
           rd == r * d
           cu == c * u
           td == t * d
           ru == r * u
           ts == t * s
<1>1. cs \in Int /\ rd \in Nat /\ cu \in Int /\ td \in Nat /\ ru \in Nat /\ ts \in Nat
  OBVIOUS
<1>2. cs < rd /\ ru <= ts
  OBVIOUS
<1>3. cs * u = cu * s
  OBVIOUS
<1>4. rd * u = ru * d
  OBVIOUS
<1>5. ts * d = td * s
  OBVIOUS
<1> HIDE DEF cs, rd, cu, td, ru, ts
<1>6. cs * u < rd * u
  <2>1. cs + 1 <= rd
    BY <1>1, <1>2
  <2>2. (cs + 1) * u <= rd * u /\ (cs + 1) * u = cs * u + u
    BY <1>1, <2>1
  <2> DEFINE p == cs * u
             q == rd * u
  <2>3. p \in Int /\ q \in Int /\ p + u <= q
    BY <1>1, <2>2
  <2> HIDE DEF p, q
  <2>4. p < q
    BY <2>3
  <2> QED BY <2>4 DEF p, q
<1>7. ru * d <= ts * d
  BY <1>1, <1>2
<1>8. cu * s < td * s
  <2> DEFINE p == cu * s
             q == ru * d
             w == td * s
  <2>1. p \in Int /\ q \in Int /\ w \in Int
    BY <1>1
  <2>2. p < q /\ q <= w
    BY <1>3, <1>4, <1>5, <1>6, <1>7
  <2> HIDE DEF p, q, w
  <2>3. p < w
    BY <2>1, <2>2
  <2> QED BY <2>3 DEF p, w
<1>9. cu < td
  <2> SUFFICES ASSUME cu >= td PROVE FALSE
    BY <1>1
  <2>1. cu * s >= td * s
    BY <1>1
  <2> DEFINE p == cu * s
             w == td * s
  <2>2. p \in Int /\ w \in Int /\ p < w /\ p >= w
    BY <1>1, <1>8, <2>1
  <2> HIDE DEF p, w
  <2> QED BY <2>2
<1> QED BY <1>9 DEF cu, td

LEMMA RefusedIsBelow ==
  ASSUME RetrievalAssumption, RefusesLess, IsFused(found), Refused
  PROVE  Below(Coverage(found), Threshold)
<1> DEFINE c == Coverage(found)
<1>1. c[1] \in Int /\ c[2] \in Nat
  BY CoverageIsFraction
<1>2. c[1] * Refuse[2] < Refuse[1] * c[2]
  BY DEF Refused, Below
<1>3. Threshold \in Nat \X (Nat \ {0}) /\ Refuse \in Nat \X (Nat \ {0})
  BY DEF RetrievalAssumption
<1>4. /\ Threshold[1] \in Nat /\ Threshold[2] \in Nat \ {0}
      /\ Refuse[1] \in Nat /\ Refuse[2] \in Nat \ {0}
  BY <1>3
<1>5. Refuse[1] * Threshold[2] <= Threshold[1] * Refuse[2]
  BY DEF RefusesLess
<1> DEFINE p == c[1]
           d == c[2]
           r == Refuse[1]
           s == Refuse[2]
           t == Threshold[1]
           u == Threshold[2]
<1>6. /\ p \in Int /\ d \in Nat /\ r \in Nat /\ s \in Nat \ {0} /\ t \in Nat /\ u \in Nat \ {0}
      /\ r * u <= t * s /\ p * s < r * d
  BY <1>1, <1>2, <1>4, <1>5
<1>7. Below(Coverage(found), Threshold) = (p * u < t * d)
  BY DEF Below
<1> HIDE DEF p, d, r, s, t, u
<1>8. p * u < t * d
  BY <1>6, BelowBoth
<1> QED BY <1>7, <1>8

(* A gap is a fallback, and for an ask it is the decision on the coverage. *)
Decided == {"chunks", "persist", "compose", "commit", "returned"}
GapInv ==
  /\ gap => fallback
  /\ at \in Decided /\ kind = "ask" => gap = Below(Coverage(found), Threshold)

LEMMA GapStep ==
  ASSUME GapInv, RowsInv, [AskNext]_(askVars)
  PROVE  GapInv'
<1>1. CASE UNCHANGED askVars
  BY <1>1 DEF askVars, GapInv
<1>2. CASE Rewrite \/ SearchPages \/ Expand
  <2>1. at' \in {"search", "cover", "expand"} /\ UNCHANGED <<gap, fallback, kind>>
    BY <1>2 DEF Rewrite, SearchPages, Expand
  <2> QED BY <2>1 DEF GapInv, Decided
<1>3. CASE Cover
  <2>1. /\ fallback' = Below(Coverage(found), Threshold) /\ gap' = fallback'
        /\ found' = found
    BY <1>3 DEF Cover
  <2> QED BY <2>1 DEF GapInv
<1>4. CASE Control
  <2>1. kind' = "control" /\ fallback' = TRUE
    BY <1>4 DEF Control
  <2> QED BY <2>1 DEF GapInv
<1>5. CASE SearchChunks \/ Persist \/ Compose \/ Commit
  <2>1. at \in Decided /\ UNCHANGED <<gap, fallback, kind, found>>
    BY <1>5 DEF SearchChunks, Persist, Compose, Commit, Decided
  <2> QED BY <2>1 DEF GapInv
<1>6. CASE Fail
  <2>1. at' = "failed" /\ UNCHANGED <<gap, fallback>>
    BY <1>6 DEF Fail
  <2> QED BY <2>1 DEF GapInv, Decided
<1> QED BY <1>1, <1>2, <1>3, <1>4, <1>5, <1>6 DEF AskNext

LEMMA WordIsSeq ==
  ASSUME NEW S, NEW n \in Nat, NEW s \in [1..n -> S]
  PROVE  s \in Seq(S)
OBVIOUS

(* A weak row is selected as long as fewer than SelectLimit weak ones follow. *)
LEMMA NewestSelected ==
  ASSUME NEW S, NEW rows \in Seq(S), NEW since \in Seq(S), NEW i \in 1..Len(rows),
         Weak(rows[i]), \A j \in 1..Len(rows) : i < j => ~Weak(rows[j]),
         SelectLimit \in Nat, Cardinality(WeakBehind(since, 0)) < SelectLimit
  PROVE  i \in LowCoverage(rows \o since)
<1> DEFINE n == Len(rows)
           both == rows \o since
           A == WeakBehind(both, i)
           B == WeakBehind(since, 0)
           f == [j \in A |-> j - n]
<1>1. n \in Nat /\ Len(since) \in Nat
  BY LenProperties
<1>2. /\ both \in Seq(S) /\ Len(both) = n + Len(since)
      /\ \A j \in 1..(n + Len(since)) : both[j] = IF j <= n THEN rows[j] ELSE since[j - n]
  BY ConcatProperties
<1>3. DOMAIN both = 1..(n + Len(since)) /\ DOMAIN since = 1..Len(since)
  BY <1>2, LenProperties
<1>4. both[i] = rows[i] /\ i \in DOMAIN both
  BY <1>1, <1>2, <1>3
<1>5. ASSUME NEW j \in A PROVE j \in Int /\ j - n \in B
  <2>1. j \in 1..(n + Len(since)) /\ i < j /\ Weak(both[j])
    BY <1>3 DEF WeakBehind
  <2>2. j > n
    <3> SUFFICES ASSUME j <= n PROVE FALSE
      BY <1>1, <2>1
    <3>1. j \in 1..n /\ both[j] = rows[j]
      BY <1>1, <1>2, <2>1
    <3> QED BY <2>1, <3>1
  <2>3. j - n \in 1..Len(since) /\ both[j] = since[j - n] /\ 0 < j - n
    BY <1>1, <1>2, <2>1, <2>2
  <2> QED BY <1>3, <2>1, <2>3 DEF WeakBehind
<1>6. IsFiniteSet(B)
  <2>1. B \subseteq 1..Len(since) /\ IsFiniteSet(1..Len(since))
    BY <1>1, <1>3, FS_Interval DEF WeakBehind
  <2> QED BY <2>1, FS_Subset
<1> HIDE DEF A, B, n, both
<1>7. f \in Injection(A, B)
  <2>1. f \in [A -> B] /\ (\A x, y \in A : f[x] = f[y] => x = y)
    BY <1>1, <1>5
  <2> QED BY <2>1 DEF Injection, IsInjective
<1>8. IsFiniteSet(A) /\ Cardinality(A) <= Cardinality(B)
  BY <1>6, <1>7, FS_Injection
<1>9. Cardinality(A) \in Nat /\ Cardinality(B) \in Nat
  BY <1>6, <1>8, FS_CardinalityType
<1>10. Cardinality(WeakBehind(both, i)) < SelectLimit
  BY <1>8, <1>9 DEF A, B
<1>11. i \in LowCoverage(both)
  BY <1>4, <1>10 DEF LowCoverage
<1> QED BY <1>11 DEF both

(* What could not be answered reaches curation: a refused question has left a  *)
(* gap, and the gap is selected until SelectLimit weak rows are newer, whatever *)
(* was found and whatever was asked since, as long as the threshold for         *)
(* refusing is no higher than the one for the fallback.                        *)
THEOREM GapsReachCuration ==
  ASSUME RetrievalAssumption, RefusesLess
  PROVE  AskSpec => []GapIsCurated
<1>1. AskInit => GapInv
  BY DEF AskInit, GapInv, Decided
<1>2. RankInv /\ RowsInv /\ GapInv => GapIsCurated
  <2> SUFFICES ASSUME RankInv, RowsInv, GapInv, NEW i \in DOMAIN traces
               PROVE  /\ traces[i].table = "ask_traces" /\ traces[i].refused =>
                           traces[traces[i].query].gap
                      /\ traces[i].table = "query_traces" /\ traces[i].gap =>
                           \A since \in Since :
                             Cardinality(WeakBehind(since, 0)) < SelectLimit =>
                               i \in LowCoverage(traces \o since)
    BY DEF GapIsCurated
  <2>1. traces # <<>>
    OBVIOUS
  <2>2. at = "returned" /\ traces = Rows
    BY <2>1 DEF RowsInv, Early, Late
  <2>3. /\ Queried.table = "query_traces" /\ Queried.gap = gap /\ Queried.fallback = fallback
        /\ Asked.table = "ask_traces" /\ Asked.query = 1 /\ Asked.refused = Refused
    BY DEF Queried, Asked
  <2>4. PICK q, a : q = Queried /\ a = Asked
    OBVIOUS
  <2>5. \/ kind = "ask" /\ traces = <<q, a>>
        \/ traces = <<q>>
    BY <2>1, <2>2, <2>4 DEF Rows
  <2>6. traces[1] = q /\ (i = 1 \/ (i = 2 /\ traces[i] = a /\ kind = "ask"))
    <3>1. CASE traces = <<q>>
      BY <3>1
    <3>2. CASE kind = "ask" /\ traces = <<q, a>>
      <4>1. i = 1 \/ i = 2
        BY <3>2
      <4> QED BY <3>2, <4>1
    <3> QED BY <2>5, <3>1, <3>2
  <2>7. CASE i = 1
    <3>1. /\ traces[i].table = "query_traces" /\ traces[i].gap = gap
          /\ traces[i].fallback = fallback
      BY <2>3, <2>4, <2>6, <2>7
    <3>2. ASSUME traces[i].gap, NEW since \in Since,
                 Cardinality(WeakBehind(since, 0)) < SelectLimit
          PROVE  i \in LowCoverage(traces \o since)
      <4> DEFINE S == {q, a, Other(TRUE), Other(FALSE)}
      <4>1. Weak(traces[i])
        BY <3>1, <3>2 DEF GapInv, Weak
      <4>2. ~Weak(a)
        BY <2>3, <2>4 DEF Weak
      <4>3. /\ traces \in Seq(S) /\ Len(traces) \in 1..2
            /\ Len(traces) = 2 => traces[2] = a
        <5>1. q \in S /\ a \in S
          OBVIOUS
        <5> HIDE DEF S
        <5>2. <<q>> \in Seq(S) /\ <<q, a>> \in Seq(S)
          BY <5>1
        <5>3. /\ Len(<<q>>) = 1 /\ Len(<<q, a>>) = 2 /\ <<q, a>>[2] = a
          OBVIOUS
        <5>4. CASE traces = <<q>>
          BY <5>2, <5>3, <5>4
        <5>5. CASE traces = <<q, a>>
          BY <5>2, <5>3, <5>5
        <5> QED BY <2>5, <5>4, <5>5
      <4>4. /\ i \in 1..Len(traces)
            /\ \A j \in 1..Len(traces) : i < j => ~Weak(traces[j])
        BY <2>7, <4>2, <4>3
      <4>5. since \in Seq(S)
        <5>1. PICK n \in 0..MaxSince : since \in [1..n -> {Other(TRUE), Other(FALSE)}]
          BY <3>2 DEF Since
        <5>2. n \in Nat
          BY DEF RetrievalAssumption
        <5>3. since \in [1..n -> S]
          BY <5>1
        <5> QED BY <5>2, <5>3, WordIsSeq
      <4>6. SelectLimit \in Nat
        BY DEF RetrievalAssumption
      <4> HIDE DEF S
      <4> QED BY <3>2, <4>1, <4>3, <4>4, <4>5, <4>6, NewestSelected
    <3> QED BY <3>1, <3>2
  <2>8. CASE i = 2 /\ traces[i] = a /\ kind = "ask"
    <3>1. /\ traces[i].table = "ask_traces" /\ traces[i].refused = Refused
          /\ traces[traces[i].query].gap = gap
      BY <2>3, <2>4, <2>6, <2>8
    <3>2. gap = Below(Coverage(found), Threshold)
      BY <2>2, <2>8 DEF GapInv, Decided
    <3>3. Refused => gap
      BY <3>2, RefusedIsBelow DEF RankInv
    <3> QED BY <3>1, <3>3
  <2> QED BY <2>6, <2>7, <2>8
<1> QED BY <1>1, <1>2, GapStep, RowsInit, RowsStep, RankInit, RankStep, PTL DEF AskSpec

-----------------------------------------------------------------------------
(* What expansion reaches, by the paths of the graph. *)

Levels(s, W, n) == \A i \in 0..n : W[i] = IF i = 0 THEN {s} ELSE W[i - 1] \cup Next1(W[i - 1])

(* The levels of the walk exist: a first one that did not would. *)
LEMMA LevelsExist ==
  ASSUME NEW s, NEW n \in Nat
  PROVE  \E W : W = [i \in 0..n |-> W[i]] /\ Levels(s, W, n)
<1> DEFINE T == {k \in 0..n : ~\E W : W = [i \in 0..k |-> W[i]] /\ Levels(s, W, k)}
<1>1. T = {}
  <2> SUFFICES ASSUME T # {} PROVE FALSE
    OBVIOUS
  <2>1. T \in SUBSET Nat
    OBVIOUS
  <2> HIDE DEF T
  <2>2. PICK k \in T : \A j \in T : k <= j
    BY <2>1, Least
  <2>3. k \in Nat /\ k <= n /\ ~\E W : W = [i \in 0..k |-> W[i]] /\ Levels(s, W, k)
    BY <2>2 DEF T
  <2>4. CASE k = 0
    <3> DEFINE W == [i \in 0..k |-> {s}]
    <3>1. W = [i \in 0..k |-> W[i]] /\ \A i \in 0..k : i = 0 /\ W[i] = {s}
      BY <2>4
    <3> HIDE DEF W
    <3>2. Levels(s, W, k)
      BY <3>1 DEF Levels
    <3> QED BY <2>3, <3>1, <3>2
  <2>5. CASE k # 0
    <3>1. k - 1 \in Nat /\ k - 1 \in 0..n /\ ~(k <= k - 1)
      BY <2>3, <2>5
    <3>2. k - 1 \notin T
      BY <2>2, <3>1
    <3>3. PICK V : V = [i \in 0..(k - 1) |-> V[i]] /\ Levels(s, V, k - 1)
      BY <3>1, <3>2 DEF T
    <3> DEFINE W == [i \in 0..k |-> IF i = k THEN V[k - 1] \cup Next1(V[k - 1]) ELSE V[i]]
    <3>4. W = [i \in 0..k |-> W[i]]
      OBVIOUS
    <3>5. W[k] = V[k - 1] \cup Next1(V[k - 1]) /\ \A i \in 0..(k - 1) : W[i] = V[i]
      BY <2>3
    <3> HIDE DEF W
    <3>6. Levels(s, W, k)
      <4> SUFFICES ASSUME NEW i \in 0..k
                   PROVE  W[i] = IF i = 0 THEN {s} ELSE W[i - 1] \cup Next1(W[i - 1])
        BY DEF Levels
      <4>1. CASE i = k
        <5>1. k - 1 \in 0..(k - 1)
          BY <3>1
        <5> QED BY <2>5, <3>5, <4>1, <5>1
      <4>2. CASE i # k
        <5>1. i \in 0..(k - 1) /\ (i # 0 => i - 1 \in 0..(k - 1))
          BY <2>3, <4>2
        <5>2. V[i] = IF i = 0 THEN {s} ELSE V[i - 1] \cup Next1(V[i - 1])
          BY <3>3, <5>1 DEF Levels
        <5> QED BY <3>5, <5>1, <5>2
      <4> QED BY <4>1, <4>2
    <3> QED BY <2>3, <3>4, <3>6
  <2> QED BY <2>4, <2>5
<1>2. n \in 0..n /\ n \notin T
  BY <1>1
<1> QED BY <1>2

LEMMA WithinLevels ==
  ASSUME RetrievalAssumption, NEW s
  PROVE  /\ Within(s)[0] = {s}
         /\ \A i \in 1..MaxHops : Within(s)[i] = Within(s)[i - 1] \cup Next1(Within(s)[i - 1])
<1> DEFINE W == CHOOSE V : V = [n \in 0..MaxHops |->
                                 IF n = 0 THEN {s} ELSE V[n - 1] \cup Next1(V[n - 1])]
<1>0. MaxHops \in Nat
  BY DEF RetrievalAssumption
<1>1. Within(s) = W
  BY DEF Within
<1>2. W = [n \in 0..MaxHops |-> IF n = 0 THEN {s} ELSE W[n - 1] \cup Next1(W[n - 1])]
  <2>1. \E V : V = [n \in 0..MaxHops |-> IF n = 0 THEN {s} ELSE V[n - 1] \cup Next1(V[n - 1])]
    <3>1. PICK V : V = [i \in 0..MaxHops |-> V[i]] /\ Levels(s, V, MaxHops)
      BY <1>0, LevelsExist
    <3>2. V = [n \in 0..MaxHops |-> IF n = 0 THEN {s} ELSE V[n - 1] \cup Next1(V[n - 1])]
      BY <3>1, Zenon DEF Levels
    <3> QED BY <3>2, Zenon
  <2> QED BY <2>1
<1> HIDE DEF W
<1>3. \A i \in 0..MaxHops : W[i] = IF i = 0 THEN {s} ELSE W[i - 1] \cup Next1(W[i - 1])
  BY <1>2, Zenon
<1>4. 0 \in 0..MaxHops /\ \A i \in 1..MaxHops : i \in 0..MaxHops /\ i # 0
  BY <1>0
<1> QED BY <1>1, <1>3, <1>4

(* A path goes on along an edge, and came along one. *)
LEMMA PathGoesOn ==
  ASSUME NEW a, NEW y, NEW x \in Nodes, NEW n \in Nat, Joined(a, y, n), <<y, x>> \in graph
  PROVE  Joined(a, x, n + 1)
<1>1. PICK f \in Paths(n) : f[0] = a /\ f[n] = y
  BY DEF Joined
<1> DEFINE g == [i \in 0..(n + 1) |-> IF i = n + 1 THEN x ELSE f[i]]
<1>2. f \in [0..n -> Nodes] /\ \A i \in 1..n : <<f[i - 1], f[i]>> \in graph
  BY <1>1 DEF Paths
<1>3. \A i \in 0..(n + 1) : i # n + 1 => i \in 0..n
  OBVIOUS
<1>4. g \in [0..(n + 1) -> Nodes]
  BY <1>2, <1>3
<1>5. g[n + 1] = x /\ \A i \in 0..n : g[i] = f[i]
  OBVIOUS
<1>6. 0 \in 0..n /\ n \in 0..n /\ n + 1 - 1 = n
  OBVIOUS
<1> HIDE DEF g
<1>7. \A i \in 1..(n + 1) : <<g[i - 1], g[i]>> \in graph
  <2> TAKE i \in 1..(n + 1)
  <2>1. CASE i = n + 1
    BY <1>1, <1>5, <1>6, <2>1
  <2>2. CASE i # n + 1
    <3>1. i \in 1..n /\ i \in 0..n /\ i - 1 \in 0..n
      BY <2>2
    <3> QED BY <1>2, <1>5, <3>1
  <2> QED BY <2>1, <2>2
<1>8. g \in Paths(n + 1) /\ g[0] = a /\ g[n + 1] = x
  BY <1>1, <1>4, <1>5, <1>6, <1>7 DEF Paths
<1> QED BY <1>8 DEF Joined

LEMMA PathCameAlong ==
  ASSUME NEW a, NEW x, NEW n \in Nat, Joined(a, x, n + 1)
  PROVE  x \in Nodes /\ \E y : Joined(a, y, n) /\ <<y, x>> \in graph
<1>1. PICK f \in Paths(n + 1) : f[0] = a /\ f[n + 1] = x
  BY DEF Joined
<1>2. f \in [0..(n + 1) -> Nodes] /\ \A i \in 1..(n + 1) : <<f[i - 1], f[i]>> \in graph
  BY <1>1 DEF Paths
<1> DEFINE g == [i \in 0..n |-> f[i]]
<1>3. \A i \in 0..n : i \in 0..(n + 1) /\ g[i] = f[i]
  OBVIOUS
<1>4. g \in [0..n -> Nodes]
  BY <1>2, <1>3
<1>5. 0 \in 0..n /\ n \in 0..n /\ n + 1 - 1 = n /\ n + 1 \in 1..(n + 1) /\ n + 1 \in 0..(n + 1)
  OBVIOUS
<1> HIDE DEF g
<1>6. \A i \in 1..n : i \in 1..(n + 1) /\ i \in 0..n /\ i - 1 \in 0..n
  OBVIOUS
<1>7. g \in Paths(n) /\ g[0] = a
  BY <1>1, <1>2, <1>3, <1>4, <1>5, <1>6 DEF Paths
<1>8. Joined(a, g[n], n)
  BY <1>7 DEF Joined
<1>9. <<g[n], x>> \in graph
  BY <1>1, <1>2, <1>3, <1>5
<1>10. x \in Nodes
  BY <1>1, <1>2, <1>5
<1> QED BY <1>8, <1>9, <1>10

LEMMA PathOfNothing ==
  ASSUME NEW a \in Nodes
  PROVE  \A x : Joined(a, x, 0) <=> x = a
<1> TAKE x
<1>1. ASSUME Joined(a, x, 0) PROVE x = a
  BY <1>1 DEF Joined
<1>2. ASSUME x = a PROVE Joined(a, x, 0)
  <2> DEFINE f == [i \in 0..0 |-> a]
  <2>1. f \in [0..0 -> Nodes] /\ f[0] = a
    OBVIOUS
  <2> HIDE DEF f
  <2>2. f \in Paths(0)
    BY <2>1 DEF Paths
  <2> QED BY <1>2, <2>1, <2>2 DEF Joined
<1> QED BY <1>1, <1>2

(* What is within n hops is what a path of n edges or fewer leads to. *)
LEMMA WithinIsJoined ==
  ASSUME RetrievalAssumption, graph \in Graphs, NEW a \in Nodes, NEW n \in 0..MaxHops
  PROVE  \A x : x \in Within(a)[n] <=> \E m \in 0..n : Joined(a, x, m)
<1> DEFINE W == Within(a)
           T == {k \in 0..MaxHops : ~\A x : x \in W[k] <=> \E m \in 0..k : Joined(a, x, m)}
<1>0. MaxHops \in Nat /\ graph \subseteq Nodes \X Nodes
  BY DEF RetrievalAssumption
<1>1. W[0] = {a} /\ \A i \in 1..MaxHops : W[i] = W[i - 1] \cup Next1(W[i - 1])
  BY WithinLevels
<1> HIDE DEF W
<1>2. T = {}
  <2> SUFFICES ASSUME T # {} PROVE FALSE
    OBVIOUS
  <2>1. T \in SUBSET Nat
    BY <1>0
  <2> HIDE DEF T
  <2>2. PICK k \in T : \A j \in T : k <= j
    BY <2>1, Least
  <2>3. k \in 0..MaxHops /\ ~\A x : x \in W[k] <=> \E m \in 0..k : Joined(a, x, m)
    BY <2>2 DEF T
  <2>4. CASE k = 0
    <3>1. \A x : (\E m \in 0..k : Joined(a, x, m)) <=> Joined(a, x, 0)
      BY <2>4
    <3>2. \A x : x \in W[k] <=> x = a
      BY <1>1, <2>4
    <3> QED BY <2>3, <3>1, <3>2, PathOfNothing
  <2>5. CASE k # 0
    <3>1. k \in 1..MaxHops /\ k - 1 \in Nat /\ k - 1 \in 0..MaxHops /\ ~(k <= k - 1)
      BY <1>0, <2>3, <2>5
    <3>2. \A x : x \in W[k - 1] <=> \E m \in 0..(k - 1) : Joined(a, x, m)
      BY <2>2, <3>1 DEF T
    <3>3. W[k] = W[k - 1] \cup Next1(W[k - 1])
      BY <1>1, <3>1
    <3>4. \A x : x \in Next1(W[k - 1]) <=> \E y \in W[k - 1] : <<y, x>> \in graph
      <4> TAKE x
      <4>1. ASSUME x \in Next1(W[k - 1]) PROVE \E y \in W[k - 1] : <<y, x>> \in graph
        <5>1. PICK e \in graph : e[1] \in W[k - 1] /\ e[2] = x
          BY <4>1 DEF Next1
        <5>2. e = <<e[1], e[2]>>
          BY <1>0
        <5> QED BY <5>1, <5>2
      <4>2. ASSUME NEW y \in W[k - 1], <<y, x>> \in graph PROVE x \in Next1(W[k - 1])
        <5> DEFINE e == <<y, x>>
        <5>1. e \in graph /\ e[1] = y /\ e[2] = x
          BY <4>2
        <5> HIDE DEF e
        <5> QED BY <5>1 DEF Next1
      <4> QED BY <4>1, <4>2
    <3>5. ASSUME NEW x, x \in W[k] PROVE \E m \in 0..k : Joined(a, x, m)
      <4>1. CASE x \in W[k - 1]
        <5>1. PICK m \in 0..(k - 1) : Joined(a, x, m)
          BY <3>2, <4>1
        <5>2. m \in 0..k
          BY <3>1
        <5> QED BY <5>1, <5>2
      <4>2. CASE x \in Next1(W[k - 1])
        <5>1. PICK y \in W[k - 1] : <<y, x>> \in graph
          BY <3>4, <4>2
        <5>2. PICK m \in 0..(k - 1) : Joined(a, y, m)
          BY <3>2, <5>1
        <5>3. m \in Nat /\ m + 1 \in 0..k
          BY <3>1
        <5>4. x \in Nodes
          BY <1>0, <5>1
        <5>5. Joined(a, x, m + 1)
          BY <5>1, <5>2, <5>3, <5>4, PathGoesOn
        <5> QED BY <5>3, <5>5
      <4> QED BY <3>3, <3>5, <4>1, <4>2
    <3>6. ASSUME NEW x, NEW m \in 0..k, Joined(a, x, m) PROVE x \in W[k]
      <4>1. CASE m \in 0..(k - 1)
        BY <3>2, <3>3, <3>6, <4>1
      <4>2. CASE m \notin 0..(k - 1)
        <5>1. m = k - 1 + 1
          BY <3>1, <4>2
        <5>2. PICK y : Joined(a, y, k - 1) /\ <<y, x>> \in graph
          BY <3>1, <3>6, <5>1, PathCameAlong
        <5>3. k - 1 \in 0..(k - 1)
          BY <3>1
        <5>4. y \in W[k - 1]
          BY <3>2, <5>2, <5>3
        <5> QED BY <3>3, <3>4, <5>2, <5>4
      <4> QED BY <4>1, <4>2
    <3> QED BY <2>3, <3>5, <3>6
  <2> QED BY <2>4, <2>5
<1> QED BY <1>2 DEF W

(* The walk finds each node at its distance. *)
LEMMA WalkFinds ==
  ASSUME RetrievalAssumption, graph \in Graphs, NEW a \in Nodes
  PROVE  /\ \A w \in Walk(a) : /\ w[1] \in Nodes /\ w[2] \in 1..MaxHops
                               /\ Distance(a, w[1], w[2])
         /\ \A x \in Nodes, h \in 1..MaxHops : Distance(a, x, h) => <<x, h>> \in Walk(a)
<1>1. ASSUME NEW x \in Nodes, NEW h \in 1..MaxHops
      PROVE  Distance(a, x, h) <=> x \in Within(a)[h] \ Within(a)[h - 1]
  <2>0. h \in Nat \ {0} /\ h \in 0..MaxHops /\ h - 1 \in 0..MaxHops /\ MaxHops \in Nat
    BY DEF RetrievalAssumption
  <2>1. x \in Within(a)[h] <=> \E m \in 0..h : Joined(a, x, m)
    BY <2>0, WithinIsJoined
  <2>2. x \in Within(a)[h - 1] <=> \E m \in 0..(h - 1) : Joined(a, x, m)
    BY <2>0, WithinIsJoined
  <2>3. h \in 0..h /\ \A m \in 0..h : m = h \/ m \in 0..(h - 1)
    BY <2>0
  <2>4. \A m \in 0..(h - 1) : m \in 0..h
    BY <2>0
  <2> QED BY <2>1, <2>2, <2>3, <2>4 DEF Distance
<1>2. ASSUME NEW w \in Walk(a)
      PROVE  w[1] \in Nodes /\ w[2] \in 1..MaxHops /\ Distance(a, w[1], w[2])
  <2>1. w[1] \in Nodes /\ w[2] \in 1..MaxHops /\ w[1] \in Within(a)[w[2]] \ Within(a)[w[2] - 1]
    BY DEF Walk
  <2> QED BY <1>1, <2>1
<1>3. ASSUME NEW x \in Nodes, NEW h \in 1..MaxHops, Distance(a, x, h)
      PROVE  <<x, h>> \in Walk(a)
  <2> DEFINE w == <<x, h>>
  <2>1. w \in Nodes \X (1..MaxHops) /\ w[1] = x /\ w[2] = h
    OBVIOUS
  <2>2. x \in Within(a)[h] \ Within(a)[h - 1]
    BY <1>1, <1>3
  <2> HIDE DEF w
  <2>3. w \in Walk(a)
    BY <2>1, <2>2 DEF Walk
  <2> QED BY <2>3 DEF w
<1> QED BY <1>2, <1>3

(* What an entry that expansion added to a ranking f is. *)
ByPath(f, e) ==
  LET seeds == 1..(IF Len(f) < SeedK THEN Len(f) ELSE SeedK)
  IN  /\ \E k \in seeds : /\ Distance(f[k].id, e.id, e.hop)
                          /\ e.score = ExpansionScore(f[k].score, e.hop)
      /\ \A k \in seeds, h \in 1..MaxHops :
           Distance(f[k].id, e.id, h) => e.score >= ExpansionScore(f[k].score, h)

LEMMA ReachedIsByPath ==
  ASSUME RetrievalAssumption, graph \in Graphs, NEW f \in Seq(Entries),
         NEW e \in Reached(Seeds(f))
  PROVE  ByPath(f, e)
<1> DEFINE n == IF Len(f) < SeedK THEN Len(f) ELSE SeedK
           q == Seeds(f)
           Offers == UNION {{[id |-> w[1], score |-> ExpansionScore(s.score, w[2]), hop |-> w[2]] :
                               w \in Walk(s.id)} : s \in Range(q)}
<1>1. q \in Seq(Entries) /\ Len(q) = n /\ \A i \in 1..Len(q) : q[i] = f[i]
  BY SeedFacts
<1>2. e \in Offers /\ \A x \in Offers : x.id = e.id => x.score < e.score \/ (x.score = e.score /\ x.hop >= e.hop)
  BY DEF Reached
<1>3. /\ Reached(q) \in SUBSET NearEntries
  BY <1>1, ReachedFacts
<1>4. e.id \in Nodes /\ e.score \in Nat
  BY <1>3 DEF NearEntries
<1>5. \A s : s \in Range(q) <=> \E k \in 1..n : s = f[k]
  <2> HIDE DEF q, n
  <2>1. DOMAIN q = 1..Len(q)
    BY <1>1
  <2> QED BY <1>1, <2>1 DEF Range
<1>6. \A k \in 1..n : f[k].id \in Nodes
  <2> HIDE DEF q, n
  <2>1. \A k \in 1..n : q[k] \in Entries
    BY <1>1
  <2> QED BY <1>1, <2>1 DEF Entries
<1> HIDE DEF n, q
<1>7. \E k \in 1..n : Distance(f[k].id, e.id, e.hop) /\ e.score = ExpansionScore(f[k].score, e.hop)
  <2>0. PICK s \in Range(q) :
          e \in {[id |-> w[1], score |-> ExpansionScore(s.score, w[2]), hop |-> w[2]] :
                  w \in Walk(s.id)}
    BY <1>2
  <2>1. PICK w \in Walk(s.id) :
          e = [id |-> w[1], score |-> ExpansionScore(s.score, w[2]), hop |-> w[2]]
    BY <2>0
  <2>2. PICK k \in 1..n : s = f[k]
    BY <1>5
  <2>3. Distance(f[k].id, w[1], w[2])
    BY <1>6, <2>1, <2>2, WalkFinds
  <2> QED BY <2>1, <2>2, <2>3
<1>8. ASSUME NEW k \in 1..n, NEW h \in 1..MaxHops, Distance(f[k].id, e.id, h)
      PROVE  e.score >= ExpansionScore(f[k].score, h)
  <2> DEFINE w == <<e.id, h>>
             o == [id |-> w[1], score |-> ExpansionScore(f[k].score, w[2]), hop |-> w[2]]
  <2>1. w \in Walk(f[k].id)
    BY <1>4, <1>6, <1>8, WalkFinds
  <2>3. o.id = e.id /\ o.score = ExpansionScore(f[k].score, h)
    OBVIOUS
  <2>2. o \in Offers
    <3> HIDE DEF w
    <3>1. f[k] \in Range(q)
      BY <1>5
    <3>2. o \in {[id |-> v[1], score |-> ExpansionScore(f[k].score, v[2]), hop |-> v[2]] :
                  v \in Walk(f[k].id)}
      BY <2>1
    <3> HIDE DEF o
    <3> QED BY <3>1, <3>2
  <2> HIDE DEF o, w, Offers
  <2>4. o.score < e.score \/ o.score = e.score
    BY <1>2, <2>2, <2>3
  <2>5. o.score \in Nat
    <3>1. f[k] \in Entries
      BY <1>1 DEF q, n
    <3>2. f[k].score \in Nat /\ Whole \in Nat \ {0} /\ Factor[h] \in Nat
      <4>1. Factor \in [1..MaxHops -> 0..Whole] /\ Whole \in Nat \ {0}
        BY DEF RetrievalAssumption
      <4>2. Factor[h] \in 0..Whole
        BY <4>1
      <4>3. f[k].score \in Nat
        BY <3>1 DEF Entries
      <4> QED BY <4>1, <4>2, <4>3
    <3>3. (f[k].score \div Whole) * Factor[h] \in Nat
      BY <3>2, PartOf
    <3> QED BY <2>3, <3>3 DEF ExpansionScore
  <2> QED BY <1>4, <2>3, <2>4, <2>5
<1> QED BY <1>7, <1>8 DEF ByPath, n

(* Nothing but an edge changes distances. *)
LEMMA DistanceKept ==
  ASSUME UNCHANGED graph
  PROVE  \A a, b, n : Distance(a, b, n)' <=> Distance(a, b, n)
<1>1. \A n : Paths(n)' = Paths(n)
  BY DEF Paths
<1>2. \A a, b, n : Joined(a, b, n)' <=> Joined(a, b, n)
  BY <1>1 DEF Joined
<1> QED BY <1>2 DEF Distance

(* The merge adds nothing but what was reached. *)
LEMMA MergeAdds ==
  ASSUME RetrievalAssumption, graph \in Graphs, NEW f, IsFused(f), f # <<>>
  PROVE  LET m == Merge(Cut(f), Reached(Seeds(f)))
         IN  \A i \in 1..Len(m) : m[i].hop > 0 => m[i] \in Reached(Seeds(f))
<1>1. PICK os, qd \in Lists(Pages) : f = Fused(os, qd)
  BY DEF IsFused
<1>2. PICK F : F = Fusion(os, qd)
  OBVIOUS
<1>3. F \in SUBSET Entries /\ UniqueIds(F) /\ f \in Seq(F) /\ \A x \in F : x.hop = 0
  <2>1. F \in SUBSET Ranks /\ IsFiniteSet(F) /\ UniqueIds(F) /\ \A x \in F : x.hop = 0
    BY <1>2, FusionFacts
  <2>2. F \in SUBSET Entries /\ f = Ranked(F)
    BY <1>1, <1>2, FusedFacts
  <2>3. Ranked(F) \in Seq(F)
    BY <2>1, RankedFacts
  <2> QED BY <2>1, <2>2, <2>3
<1>4. PICK R : R = Reached(Seeds(f))
  OBVIOUS
<1>5. R \in SUBSET NearEntries /\ UniqueIds(R)
  <2>1. f \in Seq(Entries)
    BY IsFusedFacts
  <2>2. Seeds(f) \in Seq(Entries)
    BY <2>1, SeedFacts
  <2> QED BY <1>4, <2>2, ReachedFacts
<1>6. PICK S : S = Together(f, R)
  OBVIOUS
<1>7. /\ S \in SUBSET Ranks /\ IsFiniteSet(S) /\ UniqueIds(S)
      /\ \A t : t \in Range(Cut(f)) <=> \E i \in 1..Len(Cut(f)) : t = f[i]
      /\ Merge(Cut(f), R) = Cut(Ranked(S))
  BY <1>3, <1>5, <1>6, TogetherFacts
<1>8. Ranked(S) \in Seq(S)
  BY <1>7, RankedFacts
<1>9. Cut(Ranked(S)) \in Seq(S)
  BY <1>8, CutFacts
<1>10. ASSUME NEW x \in S, x.hop > 0 PROVE x \in R
  <2>1. CASE x \in Range(Cut(f))
    <3>1. PICK i \in 1..Len(Cut(f)) : x = f[i]
      BY <1>7, <2>1
    <3>2. Len(Cut(f)) <= Len(f) /\ Len(Cut(f)) \in Nat
      BY <1>3, CutFacts
    <3>3. i \in 1..Len(f)
      BY <1>3, <3>2
    <3>4. f[i] \in F
      BY <1>3, <3>3, ElementOfSeq
    <3> QED BY <1>3, <1>10, <3>1, <3>4
  <2> QED BY <1>6, <2>1 DEF Together
<1> DEFINE m == Merge(Cut(f), R)
<1>11. \A i \in 1..Len(m) : m[i] \in S
  BY <1>7, <1>9, ElementOfSeq
<1> HIDE DEF m
<1>12. \A i \in 1..Len(m) : m[i].hop > 0 => m[i] \in R
  BY <1>10, <1>11
<1> QED BY <1>4, <1>12 DEF m

PathInv == \A i \in 1..Len(pages) : pages[i].hop > 0 => ByPath(found, pages[i])

(* Whatever the stores find and however the graph is: a page that the answer
   owes to the graph is in it because of one of the first SeedK pages found,
   at the end of a shortest path of semantic edges of as many hops as its entry
   says, as browse.py:47 describes the walk, and with the best score that a seed
   passes on (expansion.py:37-41), whatever order the rows come in. *)
THEOREM ExpansionIsByPath ==
  ASSUME RetrievalAssumption
  PROVE  AskSpec => []ReachedByPath
<1>1. AskInit => PathInv
  BY DEF AskInit, PathInv
<1>2. RankInv /\ PathInv /\ [AskNext]_(askVars) => PathInv'
  <2> SUFFICES ASSUME RankInv, PathInv, [AskNext]_(askVars) PROVE PathInv'
    OBVIOUS
  <2>1. CASE SearchPages
    <3>1. PICK os, qd \in Lists(Pages) : found' = Fused(os, qd) /\ pages' = Cut(found')
      BY <2>1 DEF SearchPages
    <3>2. PICK F : F = Fusion(os, qd)
      OBVIOUS
    <3>3. F \in SUBSET Ranks /\ IsFiniteSet(F) /\ UniqueIds(F) /\ (\A x \in F : x.hop = 0)
          /\ found' = Ranked(F)
      BY <3>1, <3>2, FusionFacts, FusedFacts
    <3>4. pages' \in Seq(F)
      BY <3>1, <3>3, RankedFacts, CutFacts
    <3>5. \A i \in 1..Len(pages') : pages'[i].hop = 0
      BY <3>3, <3>4, ElementOfSeq
    <3> QED BY <3>5 DEF PathInv
  <2>2. CASE Expand
    <3>1. /\ UNCHANGED <<graph, found>> /\ found # <<>> /\ IsFused(found) /\ graph \in Graphs
          /\ pages' = Merge(Cut(found), Reached(Seeds(found))) \/ pages' = pages
      BY <2>2 DEF Expand, RankInv, Seeds
    <3>2. \A e : ByPath(found, e)' <=> ByPath(found, e)
      BY <3>1, DistanceKept DEF ByPath
    <3>3. CASE pages' = pages
      BY <3>2, <3>3 DEF PathInv
    <3>4. CASE pages' = Merge(Cut(found), Reached(Seeds(found)))
      <4>1. found \in Seq(Entries)
        BY <3>1, IsFusedFacts
      <4>2. \A i \in 1..Len(pages') : pages'[i].hop > 0 => pages'[i] \in Reached(Seeds(found))
        BY <3>1, <3>4, MergeAdds
      <4>3. \A i \in 1..Len(pages') : pages'[i].hop > 0 => ByPath(found, pages'[i])
        BY <3>1, <4>1, <4>2, ReachedIsByPath
      <4> QED BY <3>1, <4>3, DistanceKept DEF PathInv, ByPath
    <3> QED BY <3>1, <3>3, <3>4
  <2>3. CASE Rewrite \/ Cover \/ Control \/ SearchChunks \/ Persist
             \/ Compose \/ Commit \/ Fail \/ UNCHANGED askVars
    <3>1. UNCHANGED <<found, pages, graph>>
      BY <2>3 DEF Rewrite, Cover, Control, SearchChunks, Persist,
                  Compose, Commit, Fail, askVars
    <3> QED BY <3>1, DistanceKept DEF PathInv, ByPath
  <2> QED BY <2>1, <2>2, <2>3 DEF AskNext
<1>3. RankInv /\ PathInv => ReachedByPath
  <2> SUFFICES ASSUME RankInv, PathInv PROVE ReachedByPath
    OBVIOUS
  <2>1. DOMAIN pages = 1..Len(pages)
    BY DEF RankInv
  <2> QED BY <2>1 DEF PathInv, ByPath, ReachedByPath
<1> QED BY <1>1, <1>2, <1>3, RankInit, RankStep, PTL DEF AskSpec
=============================================================================
