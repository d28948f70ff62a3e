----------------------- MODULE CurationSignalsProofs -----------------------
(***************************************************************************)
(* Proofs about CurationSignals for every set of names, keys and           *)
(* processes, every mode, bound and set of faults; then about SlowLoop,    *)
(* which pages its runs look at.                                           *)
(***************************************************************************)
EXTENDS CurationSignals, SlowLoop, FiniteSetTheorems, TLAPS

(* What a process may have in hand at each step: only a page command reaches
   the page, only an approval the link, and after the link its edge is there;
   a signal that synthesis or promotion will move names a concept. *)
JobFacts(p) ==
  /\ pc[p] = "page" => job[p].on # {} /\ job[p].cmd \in {"synth", "promote"}
  /\ pc[p] = "find" => job[p].cmd = "promote"
  /\ pc[p] = "link" => job[p].cmd = "approve" /\ job[p].signal \in Signals
  /\ job[p].cmd \in {"none", "run"} => job[p].signal = NoSignal
  /\ job[p].cmd \in {"synth", "promote"} =>
       job[p].signal = NoSignal \/ Draftable(job[p].signal)
  /\ job[p].cmd = "approve" /\ pc[p] \in {"signal", "commit"} =>
       On(job[p].signal) \in contradicts

(* Only a signal that names a concept is ever in progress. *)
BegunFacts == \A s \in Signals : status[s] = "in_progress" => Draftable(s)

LinkInv == /\ TypeOK /\ ApprovedIsLinked /\ BegunFacts
           /\ \A p \in Procs : JobFacts(p)

LEMMA KeyFacts ==
  \A s \in Signals : On(s) \in SUBSET Names /\ NoSignal # s
<1> TAKE s \in Signals
<1>1. s[1] \in Keys /\ s = <<s[1], s[2]>>  BY DEF Signals
<1>2. s[1].on \in SUBSET Names  BY <1>1, CurationAssumption DEF CurationAssumption
<1>3. NoSignal # s  BY <1>1 DEF NoSignal
<1> QED BY <1>2, <1>3 DEF On

LEMMA NoJobType == NoJob \in Jobs
BY DEF NoJob, Jobs, PageStatuses

(* Fresh signals are signals. *)
LEMMA FreshType ==
  \A keys \in SUBSET Keys, m \in {1, 2} : Fresh(keys, m) \subseteq Signals
BY DEF Fresh, Signals

(* A transaction that ends leaves nothing in hand. *)
LEMMA ReleaseType ==
  ASSUME TypeOK, NEW p \in Procs, Release(p)
  PROVE  /\ pc' \in [Procs -> {"idle", "propose", "insert", "autocurate", "publish",
                               "page", "find", "link", "signal", "commit"}]
         /\ job' \in [Procs -> Jobs]
         /\ known' \in [Procs -> SUBSET Keys] /\ found' \in [Procs -> SUBSET Keys]
         /\ new' \in [Procs -> SUBSET Signals]
         /\ \A q \in Procs : Idle(q)' => job'[q] = NoJob /\ new'[q] = {}
BY NoJobType DEF TypeOK, Release, Idle

LEMMA ReleaseFacts ==
  ASSUME LinkInv, NEW p \in Procs, Release(p), contradicts \subseteq contradicts'
  PROVE  \A q \in Procs : JobFacts(q)'
<1> TAKE q \in Procs
<1>1. CASE q = p
  <2>1. pc'[q] = "idle" /\ job'[q] = NoJob
    BY <1>1 DEF LinkInv, TypeOK, Release
  <2> QED BY <2>1 DEF JobFacts, NoJob
<1>2. CASE q # p
  <2>1. pc'[q] = pc[q] /\ job'[q] = job[q]
    BY <1>2 DEF LinkInv, TypeOK, Release
  <2> QED BY <2>1 DEF LinkInv, JobFacts
<1> QED BY <1>1, <1>2

(* A step of p leaves the facts of the others alone. *)
LEMMA OthersKept ==
  ASSUME LinkInv, NEW p \in Procs, contradicts \subseteq contradicts',
         \A q \in Procs \ {p} : pc'[q] = pc[q] /\ job'[q] = job[q],
         JobFacts(p)'
  PROVE  \A q \in Procs : JobFacts(q)'
<1> TAKE q \in Procs
<1>1. CASE q = p  BY <1>1
<1>2. CASE q # p  BY <1>2 DEF LinkInv, JobFacts
<1> QED BY <1>1, <1>2

LEMMA InitLink == Init => LinkInv
<1> SUFFICES ASSUME Init PROVE LinkInv  OBVIOUS
<1>1. TypeOK
  BY NoJobType DEF Init, TypeOK, Idle, Statuses, PageStatuses
<1>2. ApprovedIsLinked /\ BegunFacts
  BY DEF Init, ApprovedIsLinked, BegunFacts
<1>3. \A p \in Procs : JobFacts(p)
  BY DEF Init, JobFacts, NoJob
<1> QED BY <1>1, <1>2, <1>3 DEF LinkInv

-----------------------------------------------------------------------------
(* Type correctness, action by action.                                     *)

JobSteps == {"idle", "propose", "insert", "autocurate", "publish",
             "page", "find", "link", "signal", "commit"}

(* A step that goes on: the shape of what it changes is enough. *)
LEMMA GoonType ==
  ASSUME TypeOK, NEW p \in Procs, NEW stage \in JobSteps \ {"idle"}, Goto(p, stage),
         page' \in [Names -> PageStatuses], status' \in [Signals -> Statuses],
         contradicts' \subseteq SUBSET Names, job' \in [Procs -> Jobs],
         \A q \in Procs \ {p} : job'[q] = job[q] /\ new'[q] = new[q],
         known' \in [Procs -> SUBSET Keys], found' \in [Procs -> SUBSET Keys],
         new' \in [Procs -> SUBSET Signals]
  PROVE  TypeOK'
<1>1. pc' \in [Procs -> JobSteps]  BY DEF TypeOK, Goto, JobSteps
<1>2. \A q \in Procs : Idle(q)' => job'[q] = NoJob /\ new'[q] = {}
  <2> SUFFICES ASSUME NEW q \in Procs, pc'[q] = "idle"
               PROVE  job'[q] = NoJob /\ new'[q] = {}
    BY DEF Idle
  <2>1. q # p /\ pc[q] = "idle"  BY DEF TypeOK, Goto, JobSteps
  <2> QED BY <2>1 DEF TypeOK, Idle
<1> QED BY <1>1, <1>2 DEF TypeOK, JobSteps

LEMMA RunType ==
  ASSUME LinkInv, NEW p \in Procs,
         RunStart(p) \/ RunPropose(p) \/ RunInsert(p) \/ RunAutocurate(p) \/ RunCommit(p)
  PROVE  TypeOK'
<1>0. TypeOK  BY DEF LinkInv
<1>1. CASE RunStart(p)
  <2>1. Goto(p, "propose") /\ UNCHANGED <<page, status, contradicts, new>>
    BY <1>1 DEF RunStart
  <2>2. job' = [job EXCEPT ![p].cmd = "run"]  BY <1>1 DEF RunStart
  <2>3. [job[p] EXCEPT !.cmd = "run"] \in Jobs
    <3>1. job[p] \in Jobs  BY <1>0 DEF TypeOK
    <3> QED BY <3>1 DEF Jobs
  <2>4. job' \in [Procs -> Jobs]  BY <1>0, <2>2, <2>3 DEF TypeOK
  <2>5. known' \in [Procs -> SUBSET Keys]
    <3>1. ProposedKeys \in SUBSET Keys  BY DEF ProposedKeys
    <3> QED BY <1>0, <1>1, <3>1 DEF RunStart, TypeOK
  <2>6. found' \in [Procs -> SUBSET Keys]  BY <1>0, <1>1 DEF RunStart, TypeOK, Room
  <2>7. \A q \in Procs \ {p} : job'[q] = job[q] /\ new'[q] = new[q]
    BY <1>0, <2>1, <2>2 DEF TypeOK
  <2> QED BY <1>0, <2>1, <2>4, <2>5, <2>6, <2>7, GoonType DEF TypeOK, JobSteps
<1>2. CASE RunPropose(p)
  <2>1. Goto(p, "insert") /\ UNCHANGED <<page, status, contradicts, job, known, found>>
    BY <1>2 DEF RunPropose
  <2>2. PICK keys \in SUBSET Keys, twice \in SUBSET Keys :
          new' = [new EXCEPT ![p] = Fresh(keys, 1) \cup Fresh(twice, 2)]
    BY <1>2 DEF RunPropose, Room
  <2>3. Fresh(keys, 1) \cup Fresh(twice, 2) \in SUBSET Signals  BY FreshType
  <2>4. new' \in [Procs -> SUBSET Signals] /\ \A q \in Procs \ {p} : new'[q] = new[q]
    BY <1>0, <2>2, <2>3 DEF TypeOK
  <2> QED BY <1>0, <2>1, <2>4, GoonType DEF TypeOK, JobSteps
<1>3. CASE RunInsert(p)
  <2>1. Goto(p, "autocurate") /\ UNCHANGED <<page, status, contradicts, job, known, found>>
    BY <1>3 DEF RunInsert
  <2>2. found[p] \ OpenKeys \in SUBSET Keys  BY <1>0 DEF TypeOK
  <2>3. new[p] \cup Fresh(found[p] \ OpenKeys, 1) \in SUBSET Signals
    BY <1>0, <2>2, FreshType DEF TypeOK
  <2>4. new' = [new EXCEPT ![p] = new[p] \cup Fresh(found[p] \ OpenKeys, 1)]
    BY <1>3 DEF RunInsert
  <2>5. new' \in [Procs -> SUBSET Signals] /\ \A q \in Procs \ {p} : new'[q] = new[q]
    BY <1>0, <2>3, <2>4 DEF TypeOK
  <2> QED BY <1>0, <2>1, <2>5, GoonType DEF TypeOK, JobSteps
<1>4. CASE RunAutocurate(p)
  <2>1. Goto(p, "publish") /\ UNCHANGED <<contradicts, job, run>>
    BY <1>4 DEF RunAutocurate
  <2>2. page' \in [Names -> PageStatuses]
    BY <1>0, <1>4 DEF RunAutocurate, TypeOK, PageStatuses
  <2>3. status' \in [Signals -> Statuses]
    BY <1>0, <1>4 DEF RunAutocurate, TypeOK, Statuses
  <2> QED BY <1>0, <2>1, <2>2, <2>3, GoonType DEF TypeOK, JobSteps, run
<1>5. CASE RunCommit(p)
  <2>1. Release(p) /\ UNCHANGED <<page, contradicts>>  BY <1>5 DEF RunCommit
  <2>2. status' \in [Signals -> Statuses]
    BY <1>0, <1>5 DEF RunCommit, TypeOK, Statuses
  <2> QED BY <1>0, <2>1, <2>2, ReleaseType DEF TypeOK
<1> QED BY <1>1, <1>2, <1>3, <1>4, <1>5

LEMMA CuratorReadType ==
  ASSUME LinkInv, NEW p \in Procs, SynthRead(p) \/ PromoteRead(p) \/ ResolveRead(p)
  PROVE  TypeOK'
<1>0. TypeOK  BY DEF LinkInv
<1>1. \E j \in Jobs : job' = [job EXCEPT ![p] = j]
  <2>1. CASE SynthRead(p)
    <3>1. PICK n \in Names, s \in Signals \cup {NoSignal} :
            job' = [job EXCEPT ![p] = Draft(n, s)]
      BY <2>1 DEF SynthRead
    <3>2. page[n] \in PageStatuses  BY <1>0 DEF TypeOK
    <3>3. Draft(n, s) \in Jobs  BY <3>2 DEF Draft, Jobs, PageStatuses
    <3> QED BY <3>1, <3>3
  <2>2. CASE PromoteRead(p)
    <3>1. PICK n \in Names, to \in {"canonical", "deprecated"} :
            job' = [job EXCEPT ![p] = [cmd |-> "promote", on |-> {n}, signal |-> NoSignal,
                                       was |-> page[n], to |-> to]]
      BY <2>2 DEF PromoteRead
    <3>2. page[n] \in PageStatuses  BY <1>0 DEF TypeOK
    <3>3. [cmd |-> "promote", on |-> {n}, signal |-> NoSignal,
           was |-> page[n], to |-> to] \in Jobs
      BY <3>2 DEF Jobs, PageStatuses
    <3> QED BY <3>1, <3>3
  <2>3. CASE ResolveRead(p)
    <3>1. PICK s \in Signals, cmd \in {"approve", "drop"} :
            job' = [job EXCEPT ![p] = [NoJob EXCEPT !.cmd = cmd, !.signal = s]]
      BY <2>3 DEF ResolveRead
    <3>2. [NoJob EXCEPT !.cmd = cmd, !.signal = s] \in Jobs
      BY DEF NoJob, Jobs, PageStatuses
    <3> QED BY <3>1, <3>2
  <2> QED BY <2>1, <2>2, <2>3
<1>2. \E stage \in {"page", "link", "signal"} : Goto(p, stage)
  BY DEF SynthRead, PromoteRead, ResolveRead
<1>3. UNCHANGED <<page, status, contradicts, run>>
  BY DEF SynthRead, PromoteRead, ResolveRead
<1>4. job' \in [Procs -> Jobs] /\ \A q \in Procs \ {p} : job'[q] = job[q]
  BY <1>0, <1>1 DEF TypeOK
<1> QED BY <1>0, <1>2, <1>3, <1>4, GoonType DEF TypeOK, JobSteps, run

LEMMA CuratorWriteType ==
  ASSUME LinkInv, NEW p \in Procs,
         WritePage(p) \/ FindSignal(p) \/ ResolveLink(p) \/ SetStatus(p) \/ Commit(p) \/ Abort(p)
  PROVE  TypeOK'
<1>0. TypeOK /\ JobFacts(p)  BY DEF LinkInv
<1>1. CASE WritePage(p)
  <2>1. UNCHANGED <<page, status, contradicts>>  BY <1>1 DEF WritePage
  <2>2. PICK n : n \in job[p].on  BY <1>0, <1>1 DEF WritePage, JobFacts
  <2>3. \/ Release(p)
        \/ /\ \E stage \in {"find", "commit", "signal"} : Goto(p, stage)
           /\ UNCHANGED <<job, run>>
    BY <1>1, <2>2 DEF WritePage
  <2>4. CASE Release(p)  BY <1>0, <2>1, <2>4, ReleaseType DEF TypeOK
  <2>5. CASE /\ \E stage \in {"find", "commit", "signal"} : Goto(p, stage)
             /\ UNCHANGED <<job, run>>
    BY <1>0, <2>1, <2>5, GoonType DEF TypeOK, JobSteps, run
  <2> QED BY <2>3, <2>4, <2>5
<1>2. CASE FindSignal(p)
  <2>1. /\ \E stage \in {"commit", "signal"} : Goto(p, stage)
        /\ UNCHANGED <<page, status, contradicts, run>>
    BY <1>2 DEF FindSignal
  <2>2. job' = job \/ \E s \in Signals : job' = [job EXCEPT ![p].signal = s]
    BY <1>2 DEF FindSignal
  <2>3. \A s \in Signals : [job[p] EXCEPT !.signal = s] \in Jobs
    <3>1. job[p] \in Jobs  BY <1>0 DEF TypeOK
    <3> QED BY <3>1 DEF Jobs
  <2>4. job' \in [Procs -> Jobs] /\ \A q \in Procs \ {p} : job'[q] = job[q]
    BY <1>0, <2>2, <2>3 DEF TypeOK
  <2> QED BY <1>0, <2>1, <2>4, GoonType DEF TypeOK, JobSteps, run
<1>3. CASE ResolveLink(p)
  <2>1. job[p].signal \in Signals  BY <1>0, <1>3 DEF ResolveLink, JobFacts
  <2>2. contradicts' \subseteq SUBSET Names
    BY <1>0, <1>3, <2>1, KeyFacts DEF ResolveLink, TypeOK
  <2>3. Goto(p, "signal") /\ UNCHANGED <<page, status, job, run>>
    BY <1>3 DEF ResolveLink
  <2> QED BY <1>0, <2>2, <2>3, GoonType DEF TypeOK, JobSteps, run
<1>4. CASE SetStatus(p)
  <2>1. Goto(p, "commit") /\ UNCHANGED <<page, status, contradicts, job, run>>
    BY <1>4 DEF SetStatus
  <2> QED BY <1>0, <2>1, GoonType DEF TypeOK, JobSteps, run
<1>5. CASE Commit(p)
  <2>1. Release(p) /\ UNCHANGED contradicts  BY <1>5 DEF Commit
  <2>2. job[p].to \in PageStatuses
    <3>1. job[p] \in Jobs  BY <1>0 DEF TypeOK
    <3> QED BY <3>1 DEF Jobs
  <2>3. page' \in [Names -> PageStatuses]  BY <1>0, <1>5, <2>2 DEF Commit, TypeOK
  <2>4. status' \in [Signals -> Statuses]
    BY <1>0, <1>5 DEF Commit, TypeOK, Outcome, Statuses
  <2> QED BY <1>0, <2>1, <2>3, <2>4, ReleaseType DEF TypeOK
<1>6. CASE Abort(p)  BY <1>0, <1>6, ReleaseType DEF Abort, TypeOK
<1> QED BY <1>1, <1>2, <1>3, <1>4, <1>5, <1>6

-----------------------------------------------------------------------------
(* What is in hand, who has begun a signal, and what an approval leaves.   *)

(* No signal is begun or settled, and no edge lost. *)
LEMMA VerdictKept ==
  ASSUME LinkInv, contradicts \subseteq contradicts',
         \A s \in Signals : status'[s] = status[s] \/ status'[s] \in {"open", "dropped"}
                              \/ Draftable(s)
  PROVE  ApprovedIsLinked' /\ BegunFacts'
<1>1. \A s \in Signals : Draftable(s) => Kind(s) # "contradiction"  BY DEF Draftable
<1> QED BY <1>1 DEF LinkInv, ApprovedIsLinked, BegunFacts

LEMMA RunLink ==
  ASSUME LinkInv, NEW p \in Procs,
         RunStart(p) \/ RunPropose(p) \/ RunInsert(p) \/ RunAutocurate(p) \/ RunCommit(p)
  PROVE  ApprovedIsLinked' /\ BegunFacts' /\ \A q \in Procs : JobFacts(q)'
<1>0. TypeOK /\ JobFacts(p)  BY DEF LinkInv
<1>1. CASE RunStart(p)
  <2>1. /\ Goto(p, "propose") /\ UNCHANGED <<status, contradicts>>
        /\ job' = [job EXCEPT ![p].cmd = "run"] /\ Idle(p)
    BY <1>1 DEF RunStart, MayRun
  <2>2. job'[p] = [NoJob EXCEPT !.cmd = "run"]  BY <1>0, <2>1 DEF TypeOK
  <2>3. pc'[p] = "propose"  BY <1>0, <2>1 DEF TypeOK, Goto
  <2>4. JobFacts(p)'  BY <2>2, <2>3 DEF JobFacts, NoJob
  <2>5. \A q \in Procs \ {p} : pc'[q] = pc[q] /\ job'[q] = job[q]
    BY <1>0, <2>1 DEF TypeOK, Goto
  <2> QED BY <2>1, <2>4, <2>5, OthersKept, VerdictKept
<1>2. CASE RunPropose(p) \/ RunInsert(p)
  <2>1. /\ \E stage \in {"insert", "autocurate"} : Goto(p, stage)
        /\ UNCHANGED <<status, contradicts, job>>
    BY <1>2 DEF RunPropose, RunInsert
  <2>2. pc'[p] \in {"insert", "autocurate"} /\ \A q \in Procs \ {p} : pc'[q] = pc[q]
    BY <1>0, <2>1 DEF TypeOK, Goto
  <2>3. JobFacts(p)'  BY <1>0, <2>1, <2>2 DEF JobFacts
  <2> QED BY <2>1, <2>2, <2>3, OthersKept, VerdictKept
<1>3. CASE RunAutocurate(p)
  <2>1. Goto(p, "publish") /\ UNCHANGED <<contradicts, job>>
    BY <1>3 DEF RunAutocurate
  <2>2. pc'[p] = "publish" /\ \A q \in Procs \ {p} : pc'[q] = pc[q]
    BY <1>0, <2>1 DEF TypeOK, Goto
  <2>3. JobFacts(p)'  BY <1>0, <2>1, <2>2 DEF JobFacts
  <2>4. \A s \in Signals : status'[s] = status[s] \/ Draftable(s)
    BY <1>3 DEF RunAutocurate
  <2> QED BY <2>1, <2>2, <2>3, <2>4, OthersKept, VerdictKept
<1>4. CASE RunCommit(p)
  <2>1. Release(p) /\ UNCHANGED contradicts  BY <1>4 DEF RunCommit
  <2>2. \A s \in Signals : status'[s] = status[s] \/ status'[s] = "open"
    BY <1>4 DEF RunCommit
  <2> QED BY <2>1, <2>2, ReleaseFacts, VerdictKept
<1> QED BY <1>1, <1>2, <1>3, <1>4

LEMMA CuratorReadLink ==
  ASSUME LinkInv, NEW p \in Procs, SynthRead(p) \/ PromoteRead(p) \/ ResolveRead(p)
  PROVE  ApprovedIsLinked' /\ BegunFacts' /\ \A q \in Procs : JobFacts(q)'
<1>0. TypeOK  BY DEF LinkInv
<1>1. UNCHANGED <<status, contradicts>>  BY DEF SynthRead, PromoteRead, ResolveRead
<1>2. /\ \A q \in Procs \ {p} : pc'[q] = pc[q] /\ job'[q] = job[q]
      /\ JobFacts(p)'
  <2>1. CASE SynthRead(p)
    <3>1. PICK n \in Names, s \in {t \in Signals : Draftable(t)} \cup {NoSignal} :
            job' = [job EXCEPT ![p] = Draft(n, s)]
      BY <2>1 DEF SynthRead
    <3>2. Goto(p, "page")  BY <2>1 DEF SynthRead
    <3>3. job'[p] = Draft(n, s) /\ pc'[p] = "page"
      BY <1>0, <3>1, <3>2 DEF TypeOK, Goto
    <3>4. JobFacts(p)'  BY <3>3 DEF JobFacts, Draft
    <3> QED BY <1>0, <3>1, <3>2, <3>4 DEF TypeOK, Goto
  <2>2. CASE PromoteRead(p)
    <3>1. PICK n \in Names, to \in {"canonical", "deprecated"} :
            job' = [job EXCEPT ![p] = [cmd |-> "promote", on |-> {n}, signal |-> NoSignal,
                                       was |-> page[n], to |-> to]]
      BY <2>2 DEF PromoteRead
    <3>2. Goto(p, "page")  BY <2>2 DEF PromoteRead
    <3>3. /\ job'[p].cmd = "promote" /\ job'[p].on = {n} /\ job'[p].signal = NoSignal
          /\ pc'[p] = "page"
      BY <1>0, <3>1, <3>2 DEF TypeOK, Goto
    <3>4. JobFacts(p)'  BY <3>3 DEF JobFacts
    <3> QED BY <1>0, <3>1, <3>2, <3>4 DEF TypeOK, Goto
  <2>3. CASE ResolveRead(p)
    <3>1. PICK s \in Signals, cmd \in {"approve", "drop"} :
            /\ job' = [job EXCEPT ![p] = [NoJob EXCEPT !.cmd = cmd, !.signal = s]]
            /\ Goto(p, IF cmd = "approve" THEN "link" ELSE "signal")
      BY <2>3 DEF ResolveRead
    <3>2. /\ job'[p].cmd = cmd /\ job'[p].signal = s
          /\ pc'[p] = IF cmd = "approve" THEN "link" ELSE "signal"
      BY <1>0, <3>1 DEF TypeOK, Goto, NoJob
    <3>3. JobFacts(p)'  BY <3>2 DEF JobFacts
    <3> QED BY <1>0, <3>1, <3>3 DEF TypeOK, Goto
  <2> QED BY <2>1, <2>2, <2>3
<1> QED BY <1>1, <1>2, OthersKept, VerdictKept

LEMMA CuratorWriteLink ==
  ASSUME LinkInv, NEW p \in Procs,
         WritePage(p) \/ FindSignal(p) \/ ResolveLink(p) \/ SetStatus(p) \/ Commit(p) \/ Abort(p)
  PROVE  ApprovedIsLinked' /\ BegunFacts' /\ \A q \in Procs : JobFacts(q)'
<1>0. TypeOK /\ JobFacts(p) /\ BegunFacts  BY DEF LinkInv
<1>1. CASE WritePage(p)
  <2>1. UNCHANGED <<status, contradicts>>  BY <1>1 DEF WritePage
  <2>2. PICK n : n \in job[p].on  BY <1>0, <1>1 DEF WritePage, JobFacts
  <2>3. \/ Release(p)
        \/ /\ Goto(p, IF job[p].cmd = "promote" THEN "find"
                      ELSE IF job[p].signal = NoSignal THEN "commit" ELSE "signal")
           /\ UNCHANGED job
    BY <1>1, <2>2 DEF WritePage
  <2>4. CASE Release(p)  BY <2>1, <2>4, ReleaseFacts, VerdictKept
  <2>5. CASE /\ Goto(p, IF job[p].cmd = "promote" THEN "find"
                        ELSE IF job[p].signal = NoSignal THEN "commit" ELSE "signal")
             /\ UNCHANGED job
    <3>1. /\ pc'[p] = IF job[p].cmd = "promote" THEN "find"
                      ELSE IF job[p].signal = NoSignal THEN "commit" ELSE "signal"
          /\ \A q \in Procs \ {p} : pc'[q] = pc[q]
      BY <1>0, <2>5 DEF TypeOK, Goto
    <3>2. job[p].cmd \in {"synth", "promote"}  BY <1>0, <1>1 DEF WritePage, JobFacts
    <3>3. JobFacts(p)'  BY <1>0, <2>1, <2>5, <3>1, <3>2 DEF JobFacts
    <3> QED BY <2>1, <2>5, <3>1, <3>3, OthersKept, VerdictKept
  <2> QED BY <2>3, <2>4, <2>5
<1>2. CASE FindSignal(p)
  <2>1. UNCHANGED <<status, contradicts>> /\ pc[p] = "find"  BY <1>2 DEF FindSignal
  <2>2. job[p].cmd = "promote"  BY <1>0, <2>1 DEF JobFacts
  <2>3. PICK stage \in {"commit", "signal"} : Goto(p, stage)  BY <1>2 DEF FindSignal
  <2>4. pc'[p] = stage /\ \A q \in Procs \ {p} : pc'[q] = pc[q]
    BY <1>0, <2>3 DEF TypeOK, Goto
  <2>5. CASE job' = job
    <3>1. JobFacts(p)'  BY <1>0, <2>1, <2>2, <2>4, <2>5 DEF JobFacts
    <3> QED BY <2>1, <2>4, <2>5, <3>1, OthersKept, VerdictKept
  <2>6. CASE \E s \in Signals : status[s] = "in_progress"
                                  /\ job' = [job EXCEPT ![p].signal = s]
    <3>1. PICK s \in Signals : status[s] = "in_progress"
                                 /\ job' = [job EXCEPT ![p].signal = s]
      BY <2>6
    <3>2. Draftable(s)  BY <1>0, <3>1 DEF BegunFacts
    <3>3. job'[p].signal = s /\ job'[p].cmd = "promote" /\ job'[p].on = job[p].on
      <4>1. job[p] \in Jobs  BY <1>0 DEF TypeOK
      <4>2. job'[p] = [job[p] EXCEPT !.signal = s]  BY <1>0, <3>1 DEF TypeOK
      <4> QED BY <2>2, <4>1, <4>2 DEF Jobs
    <3>4. JobFacts(p)'  BY <2>4, <3>2, <3>3 DEF JobFacts
    <3>5. \A q \in Procs \ {p} : job'[q] = job[q]  BY <1>0, <3>1 DEF TypeOK
    <3> QED BY <2>1, <2>4, <3>4, <3>5, OthersKept, VerdictKept
  <2> QED BY <1>2, <2>5, <2>6 DEF FindSignal
<1>3. CASE ResolveLink(p)
  <2>1. /\ contradicts' = contradicts \cup {On(job[p].signal)}
        /\ Goto(p, "signal") /\ UNCHANGED <<status, job>> /\ pc[p] = "link"
    BY <1>3 DEF ResolveLink
  <2>2. pc'[p] = "signal" /\ \A q \in Procs \ {p} : pc'[q] = pc[q]
    BY <1>0, <2>1 DEF TypeOK, Goto
  <2>3. JobFacts(p)'  BY <1>0, <2>1, <2>2 DEF JobFacts
  <2> QED BY <2>1, <2>2, <2>3, OthersKept, VerdictKept
<1>4. CASE SetStatus(p)
  <2>1. /\ Goto(p, "commit") /\ UNCHANGED <<status, contradicts, job>>
        /\ pc[p] = "signal"
    BY <1>4 DEF SetStatus
  <2>2. pc'[p] = "commit" /\ \A q \in Procs \ {p} : pc'[q] = pc[q]
    BY <1>0, <2>1 DEF TypeOK, Goto
  <2>3. JobFacts(p)'  BY <1>0, <2>1, <2>2 DEF JobFacts
  <2> QED BY <2>1, <2>2, <2>3, OthersKept, VerdictKept
<1>5. CASE Commit(p)
  <2>1. Release(p) /\ UNCHANGED contradicts /\ pc[p] = "commit"  BY <1>5 DEF Commit
  <2>2. \A q \in Procs : JobFacts(q)'  BY <2>1, ReleaseFacts
  <2>3. \A s \in Signals : status'[s] = IF s = job[p].signal THEN Outcome(job[p].cmd)
                                        ELSE status[s]
    BY <1>5 DEF Commit
  <2>4. CASE job[p].cmd = "approve"
    <3>1. On(job[p].signal) \in contradicts  BY <1>0, <2>1, <2>4 DEF JobFacts
    <3>2. \A s \in Signals : status'[s] = status[s]
                               \/ (status'[s] = "addressed" /\ On(s) \in contradicts)
      BY <2>3, <2>4, <3>1 DEF Outcome
    <3> QED BY <2>1, <2>2, <3>2 DEF LinkInv, ApprovedIsLinked, BegunFacts
  <2>5. CASE job[p].cmd # "approve"
    <3>1. \A s \in Signals : status'[s] = status[s] \/ status'[s] = "dropped" \/ Draftable(s)
      <4> SUFFICES ASSUME NEW s \in Signals, s = job[p].signal, job[p].cmd # "drop"
                   PROVE  Draftable(s)
        BY <2>3 DEF Outcome
      <4>1. job[p].cmd \in {"none", "run", "synth", "promote"}
        <5>1. job[p] \in Jobs  BY <1>0 DEF TypeOK
        <5> QED BY <2>5, <5>1 DEF Jobs
      <4> QED BY <1>0, <4>1, KeyFacts DEF JobFacts
    <3> QED BY <2>1, <2>2, <3>1, VerdictKept
  <2> QED BY <2>4, <2>5
<1>6. CASE Abort(p)
  BY <1>6, ReleaseFacts, VerdictKept DEF Abort
<1> QED BY <1>1, <1>2, <1>3, <1>4, <1>5, <1>6

-----------------------------------------------------------------------------
LEMMA LinkStep == LinkInv /\ [Next]_vars => LinkInv'
<1> SUFFICES ASSUME LinkInv, [Next]_vars PROVE LinkInv'  OBVIOUS
<1>1. ASSUME NEW p \in Procs, Start(p) \/ Proceed(p) \/ Abort(p)
      PROVE  LinkInv'
  <2>1. CASE RunStart(p) \/ RunPropose(p) \/ RunInsert(p) \/ RunAutocurate(p) \/ RunCommit(p)
    BY <2>1, RunType, RunLink DEF LinkInv
  <2>2. CASE SynthRead(p) \/ PromoteRead(p) \/ ResolveRead(p)
    BY <2>2, CuratorReadType, CuratorReadLink DEF LinkInv
  <2>3. CASE WritePage(p) \/ FindSignal(p) \/ ResolveLink(p) \/ SetStatus(p) \/ Commit(p)
               \/ Abort(p)
    BY <2>3, CuratorWriteType, CuratorWriteLink DEF LinkInv
  <2> QED BY <1>1, <2>1, <2>2, <2>3 DEF Start, Proceed
<1>2. CASE UNCHANGED vars
  BY <1>2 DEF vars, LinkInv, TypeOK, ApprovedIsLinked, BegunFacts, JobFacts, Idle
<1> QED BY <1>1, <1>2 DEF Next

(* The shapes hold for every instance, and an idle process holds nothing. *)
THEOREM TypeCorrect == Spec => []TypeOK
<1>1. LinkInv => TypeOK  BY DEF LinkInv
<1> QED BY InitLink, LinkStep, <1>1, PTL DEF Spec

(* An addressed contradiction candidate has its CONTRADICTS edge, however
   many commands and runs overlap and wherever they fail: resolve links before
   it gives its verdict, and no other command addresses a candidate. *)
THEOREM ApprovalLinked == Spec => []ApprovedIsLinked
<1>1. LinkInv => ApprovedIsLinked  BY DEF LinkInv
<1> QED BY InitLink, LinkStep, <1>1, PTL DEF Spec

-----------------------------------------------------------------------------
(* One open signal per key, and one question per pair.                     *)

RunSteps == {"propose", "insert", "autocurate", "publish"}

(* A run is under way exactly between its start and its commit, and only a run
   has signals that are not committed. *)
Running == \A p \in Procs :
  /\ pc[p] \in RunSteps <=> job[p].cmd = "run"
  /\ job[p].cmd # "run" => new[p] = {}

OneRun == \A p, q \in Procs : job[p].cmd = "run" /\ job[q].cmd = "run" => p = q

(* A signal in hand has been committed. *)
HandVisible == \A p \in Procs : job[p].signal # NoSignal => Visible(job[p].signal)

(* The generators find no candidate; nothing under a key that the run has not
   read as proposed is committed; what it has proposed are candidates; what it has inserted has no committed
   signal of its key, or no open one, and no other insertion of its key. *)
RunFacts(p) ==
  /\ pc[p] \in {"propose", "insert"} => \A k \in found[p] : k.kind # "contradiction"
  /\ pc[p] = "propose" =>
       \A s \in Signals : Kind(s) = "contradiction" /\ s[1] \notin known[p] => ~Visible(s)
  /\ pc[p] = "insert" => \A s \in new[p] : ~Draftable(s)
  /\ pc[p] \in RunSteps \ {"propose"} =>
       \A s \in new[p], t \in Signals : s[1] = t[1] =>
         IF Draftable(s) THEN status[t] # "open" /\ (t \in new[p] => s = t)
         ELSE ~Visible(t)

RunInv == /\ Running /\ OneRun /\ HandVisible
          /\ \A p \in Procs : RunFacts(p)

OneOpen == \A s, t \in Signals :
  Draftable(s) /\ s[1] = t[1] /\ status[s] = "open" /\ status[t] = "open" => s = t

OpenInv == LinkInv /\ (RunsAlone => RunInv /\ OneOpen)

-----------------------------------------------------------------------------
(* The signals that a run inserts.                                         *)

LEMMA SignalFacts ==
  \A s \in Signals :
    /\ s[1] \in Keys /\ s[2] \in 1..MaxPerKey /\ s = <<s[1], s[2]>>
    /\ Kind(s) \in {"coverage", "grounding", "contradiction"}
    /\ Draftable(s) <=> Kind(s) # "contradiction"
BY CurationAssumption DEF CurationAssumption, Signals, Kind, Draftable

(* An inserted signal is on one of the keys and was not there before. *)
LEMMA FreshFacts ==
  ASSUME NEW keys \in SUBSET Keys, NEW m \in {1, 2}, NEW s \in Fresh(keys, m)
  PROVE  s \in Signals /\ s[1] \in keys /\ ~Visible(s)
<1>1. s \in Signals /\ s[1] \in keys /\ s[2] \in Unused(s[1])
  BY DEF Fresh, Signals
<1>2. ~Visible(<<s[1], s[2]>>)  BY <1>1 DEF Unused
<1> QED BY <1>1, <1>2, SignalFacts

(* Once for each key: two insertions under one key would both be its first
   unused signal. *)
LEMMA FreshOne ==
  ASSUME NEW keys \in SUBSET Keys, NEW s \in Fresh(keys, 1), NEW t \in Fresh(keys, 1),
         s[1] = t[1]
  PROVE  s = t
<1> DEFINE Below(k, n) == {i \in Unused(k) : i < n}
<1>1. \A u \in Fresh(keys, 1) : u \in Signals /\ Below(u[1], u[2]) = {}
  <2> SUFFICES ASSUME NEW u \in Fresh(keys, 1)
               PROVE  u \in Signals /\ Below(u[1], u[2]) = {}
    OBVIOUS
  <2>1. Cardinality(Below(u[1], u[2])) < 1  BY DEF Fresh
  <2>2. MaxPerKey \in Int /\ 1 \in Int  BY CurationAssumption DEF CurationAssumption
  <2>3. IsFiniteSet(1..MaxPerKey)  BY <2>2, FS_Interval
  <2>4. Below(u[1], u[2]) \subseteq 1..MaxPerKey  BY DEF Unused
  <2>5. IsFiniteSet(Below(u[1], u[2]))  BY <2>3, <2>4, FS_Subset
  <2>6. Cardinality(Below(u[1], u[2])) \in Nat  BY <2>5, FS_CardinalityType
  <2> HIDE DEF Below
  <2>7. Cardinality(Below(u[1], u[2])) = 0  BY <2>1, <2>6
  <2>8. Below(u[1], u[2]) = {}  BY <2>5, <2>7, FS_EmptySet
  <2> QED BY <2>8, FreshFacts
<1>2. s[2] \in Unused(s[1]) /\ t[2] \in Unused(s[1])  BY DEF Fresh
<1>3. ~(s[2] < t[2]) /\ ~(t[2] < s[2])  BY <1>1, <1>2
<1>4. s \in Signals /\ t \in Signals  BY <1>1
<1>5. s[2] = t[2]
  <2>1. s[2] \in Nat /\ t[2] \in Nat
    BY <1>4, SignalFacts, CurationAssumption DEF CurationAssumption
  <2> QED BY <1>3, <2>1
<1> QED BY <1>4, <1>5, SignalFacts

-----------------------------------------------------------------------------
(* The steps of the others.                                                *)

(* A committed signal may be begun or settled, never opened again. *)
Moved == \A s \in Signals :
  \/ status'[s] = status[s]
  \/ Visible(s) /\ status'[s] \notin {"none", "open"}

Bystander(q) == /\ pc'[q] = pc[q] /\ job'[q] = job[q] /\ known'[q] = known[q]
                /\ found'[q] = found[q] /\ new'[q] = new[q]

LEMMA MovedKeeps ==
  ASSUME TypeOK, Moved, OneOpen
  PROVE  OneOpen' /\ \A s \in Signals : Visible(s) => Visible(s)'
BY DEF Moved, OneOpen, Visible, Draftable, Kind

LEMMA BystanderKeeps ==
  ASSUME TypeOK, Moved, NEW q \in Procs, Bystander(q), RunFacts(q)
  PROVE  RunFacts(q)'
<1>1. new[q] \subseteq Signals  BY DEF TypeOK
<1>2. \A s \in Signals : (~Visible(s) => ~Visible(s)')
                           /\ (status[s] # "open" => status'[s] # "open")
  BY DEF Moved, Visible
<1>3. /\ pc'[q] = pc[q] /\ known'[q] = known[q] /\ found'[q] = found[q] /\ new'[q] = new[q]
  BY DEF Bystander
<1>4. \A s : (Draftable(s)' <=> Draftable(s)) /\ Kind(s)' = Kind(s)
  BY DEF Draftable, Kind
<1> QED BY <1>1, <1>2, <1>3, <1>4 DEF RunFacts

(* A step that opens nothing keeps the invariant if what p has afterwards
   does. *)
LEMMA StepKeeps ==
  ASSUME TypeOK, RunInv, OneOpen, Moved, NEW p \in Procs,
         \A q \in Procs \ {p} : Bystander(q),
         pc'[p] \in RunSteps <=> job'[p].cmd = "run",
         job'[p].cmd # "run" => new'[p] = {},
         job'[p].cmd = "run" => \A q \in Procs \ {p} : job[q].cmd # "run",
         \/ job'[p].signal \in {NoSignal, job[p].signal}
         \/ \E s \in Signals : job'[p].signal = s /\ Visible(s),
         RunFacts(p)'
  PROVE  RunInv' /\ OneOpen'
<1>1. OneOpen' /\ \A s \in Signals : Visible(s) => Visible(s)'  BY MovedKeeps
<1>2. \A q \in Procs \ {p} : /\ pc'[q] = pc[q] /\ job'[q] = job[q] /\ new'[q] = new[q]
  BY DEF Bystander
<1>3. Running'
  <2> SUFFICES ASSUME NEW q \in Procs
               PROVE  /\ pc'[q] \in RunSteps <=> job'[q].cmd = "run"
                      /\ job'[q].cmd # "run" => new'[q] = {}
    BY DEF Running
  <2>1. CASE q = p  BY <2>1
  <2>2. CASE q # p  BY <1>2, <2>2 DEF RunInv, Running
  <2> QED BY <2>1, <2>2
<1>4. OneRun'
  <2> SUFFICES ASSUME NEW q \in Procs, NEW r \in Procs,
                      job'[q].cmd = "run", job'[r].cmd = "run"
               PROVE  q = r
    BY DEF OneRun
  <2> QED BY <1>2 DEF RunInv, OneRun
<1>5. HandVisible'
  <2> SUFFICES ASSUME NEW q \in Procs, job'[q].signal # NoSignal
               PROVE  status'[job'[q].signal] # "none"
    BY DEF HandVisible, Visible
  <2>1. \A r \in Procs : job[r].signal # NoSignal =>
                           job[r].signal \in Signals /\ Visible(job[r].signal)
    <3> SUFFICES ASSUME NEW r \in Procs, job[r].signal # NoSignal
                 PROVE  job[r].signal \in Signals /\ Visible(job[r].signal)
      OBVIOUS
    <3>1. job[r] \in Jobs  BY DEF TypeOK
    <3> QED BY <3>1 DEF Jobs, RunInv, HandVisible
  <2>2. \E s \in Signals : job'[q].signal = s /\ Visible(s)
    <3>1. CASE q = p  BY <2>1, <3>1
    <3>2. CASE q # p  BY <1>2, <2>1, <3>2
    <3> QED BY <3>1, <3>2
  <2>3. PICK s \in Signals : job'[q].signal = s /\ Visible(s)  BY <2>2
  <2>4. Visible(s)'  BY <1>1, <2>3
  <2> QED BY <2>3, <2>4 DEF Visible
<1>6. \A q \in Procs : RunFacts(q)'
  <2> TAKE q \in Procs
  <2>1. CASE q = p  BY <2>1
  <2>2. CASE q # p  BY <2>2, BystanderKeeps DEF RunInv
  <2> QED BY <2>1, <2>2
<1> QED BY <1>1, <1>3, <1>4, <1>5, <1>6 DEF RunInv

(* The same for a step after which p is in no run. *)
LEMMA CuratorKeeps ==
  ASSUME TypeOK, RunInv, OneOpen, Moved, NEW p \in Procs,
         \A q \in Procs \ {p} : Bystander(q),
         pc'[p] \notin RunSteps, job'[p].cmd # "run", new'[p] = {},
         \/ job'[p].signal \in {NoSignal, job[p].signal}
         \/ \E s \in Signals : job'[p].signal = s /\ Visible(s)
  PROVE  RunInv' /\ OneOpen'
<1>1. RunFacts(p)'  BY DEF RunFacts, RunSteps
<1> QED BY <1>1, StepKeeps

(* A transaction that ends without opening a signal. *)
LEMMA ReleaseKeeps ==
  ASSUME TypeOK, RunInv, OneOpen, Moved, NEW p \in Procs, Release(p)
  PROVE  RunInv' /\ OneOpen'
<1>1. \A q \in Procs \ {p} : Bystander(q)  BY DEF TypeOK, Release, Bystander
<1>2. pc'[p] = "idle" /\ job'[p] = NoJob /\ new'[p] = {}  BY DEF TypeOK, Release
<1>3. pc'[p] \notin RunSteps /\ job'[p].cmd # "run" /\ job'[p].signal = NoSignal
  BY <1>2 DEF RunSteps, NoJob
<1> QED BY <1>1, <1>2, <1>3, CuratorKeeps

-----------------------------------------------------------------------------
(* The steps of a run, when runs do not overlap.                           *)

LEMMA StartKeeps ==
  ASSUME RunsAlone, TypeOK, RunInv, OneOpen, NEW p \in Procs, RunStart(p)
  PROVE  RunInv' /\ OneOpen'
<1>1. /\ Idle(p) /\ \A q \in Procs : job[q].cmd # "run"
      /\ job' = [job EXCEPT ![p].cmd = "run"] /\ Goto(p, "propose")
      /\ known' = [known EXCEPT ![p] = ProposedKeys]
      /\ UNCHANGED <<status, new>>
  BY DEF RunStart, MayRun
<1>2. PICK keys \in SUBSET Keys :
        found' = [found EXCEPT ![p] = keys] /\ \A k \in keys : k.kind # "contradiction"
  BY DEF RunStart, Room
<1>3. \A q \in Procs \ {p} : Bystander(q)
  BY <1>1, <1>2 DEF TypeOK, Goto, Bystander
<1>4. job[p] = NoJob /\ new[p] = {}  BY <1>1 DEF TypeOK
<1>5. job'[p] = [NoJob EXCEPT !.cmd = "run"]  BY <1>1, <1>4 DEF TypeOK
<1>6. job'[p].cmd = "run" /\ job'[p].signal = NoSignal  BY <1>5 DEF NoJob
<1>7. /\ pc'[p] = "propose" /\ known'[p] = ProposedKeys /\ found'[p] = keys
      /\ new'[p] = {}
  BY <1>1, <1>2, <1>4 DEF TypeOK, Goto
<1>8. \A s \in Signals : Kind(s) = "contradiction" /\ s[1] \notin ProposedKeys => ~Visible(s)
  <2> SUFFICES ASSUME NEW s \in Signals, Kind(s) = "contradiction", Visible(s)
               PROVE  s[1] \in ProposedKeys
    OBVIOUS
  <2>1. s[1] \in Keys /\ s[2] \in 1..MaxPerKey /\ Visible(<<s[1], s[2]>>)
    BY SignalFacts
  <2> QED BY <2>1 DEF ProposedKeys, Kind
<1>9. RunFacts(p)'
  <2>1. \A s \in Signals : Kind(s)' = Kind(s) /\ (Visible(s)' <=> Visible(s))
    BY <1>1 DEF Kind, Visible
  <2> QED BY <1>2, <1>7, <1>8, <2>1 DEF RunFacts, RunSteps
<1>10. Moved  BY <1>1 DEF Moved
<1> QED BY <1>1, <1>3, <1>6, <1>7, <1>9, <1>10, StepKeeps DEF RunSteps

LEMMA ProposeKeeps ==
  ASSUME TypeOK, RunInv, OneOpen, NEW p \in Procs, RunPropose(p)
  PROVE  RunInv' /\ OneOpen'
<1>1. /\ pc[p] = "propose" /\ Goto(p, "insert")
      /\ UNCHANGED <<status, job, known, found>>
  BY DEF RunPropose
<1>2. PICK keys \in SUBSET (Keys \ known[p]), twice \in SUBSET Keys :
        /\ twice \subseteq keys /\ \A k \in keys : k.kind = "contradiction"
        /\ new' = [new EXCEPT ![p] = Fresh(keys, 1) \cup Fresh(twice, 2)]
  BY DEF RunPropose, Room
<1>3. \A q \in Procs \ {p} : Bystander(q)
  BY <1>1, <1>2 DEF TypeOK, Goto, Bystander
<1>4. pc'[p] = "insert" /\ new'[p] = Fresh(keys, 1) \cup Fresh(twice, 2)
  BY <1>1, <1>2 DEF TypeOK, Goto
<1>5. RunFacts(p) /\ job[p].cmd = "run" /\ \A q \in Procs \ {p} : job[q].cmd # "run"
  BY <1>1 DEF RunInv, Running, RunSteps, OneRun
<1>6. \A s \in new'[p] : s \in Signals /\ s[1] \in keys
  BY <1>2, <1>4, FreshFacts
<1>7. \A s \in new'[p] : ~Draftable(s) /\ Kind(s) = "contradiction" /\ s[1] \notin known[p]
  BY <1>2, <1>6, SignalFacts DEF Kind
<1>8. \A s \in new'[p], t \in Signals : s[1] = t[1] => ~Visible(t)
  BY <1>1, <1>5, <1>7 DEF RunFacts, Kind
<1>9. RunFacts(p)'
  <2>1. \A s : /\ Kind(s)' = Kind(s) /\ (Visible(s)' <=> Visible(s))
               /\ (Draftable(s)' <=> Draftable(s))
    BY <1>1 DEF Kind, Visible, Draftable
  <2>2. \A k \in found'[p] : k.kind # "contradiction"  BY <1>1, <1>5 DEF RunFacts
  <2> QED BY <1>4, <1>7, <1>8, <2>1, <2>2 DEF RunFacts, RunSteps
<1>10. Moved  BY <1>1 DEF Moved
<1> QED BY <1>1, <1>3, <1>4, <1>5, <1>9, <1>10, StepKeeps DEF RunSteps

LEMMA InsertKeeps ==
  ASSUME TypeOK, RunInv, OneOpen, NEW p \in Procs, RunInsert(p)
  PROVE  RunInv' /\ OneOpen'
<1>1. /\ pc[p] = "insert" /\ Goto(p, "autocurate")
      /\ UNCHANGED <<status, job, known, found>>
      /\ new' = [new EXCEPT ![p] = new[p] \cup Fresh(found[p] \ OpenKeys, 1)]
  BY DEF RunInsert
<1>2. \A q \in Procs \ {p} : Bystander(q)  BY <1>1 DEF TypeOK, Goto, Bystander
<1>3. pc'[p] = "autocurate" /\ new'[p] = new[p] \cup Fresh(found[p] \ OpenKeys, 1)
  BY <1>1 DEF TypeOK, Goto
<1>4. RunFacts(p) /\ job[p].cmd = "run" /\ \A q \in Procs \ {p} : job[q].cmd # "run"
  BY <1>1 DEF RunInv, Running, RunSteps, OneRun
<1>5. \A s \in Fresh(found[p] \ OpenKeys, 1) :
        s \in Signals /\ s[1] \in found[p] \ OpenKeys /\ Draftable(s)
  <2>1. found[p] \ OpenKeys \in SUBSET Keys  BY DEF TypeOK
  <2>2. \A s \in Fresh(found[p] \ OpenKeys, 1) :
          s \in Signals /\ s[1] \in found[p] \ OpenKeys
    BY <2>1, FreshFacts
  <2> QED BY <1>1, <1>4, <2>2, SignalFacts DEF RunFacts, Kind
<1>6. \A s, t \in Signals : s[1] = t[1] => (Draftable(s) <=> Draftable(t))
  BY DEF Draftable, Kind
<1>7. ASSUME NEW s \in new'[p], NEW t \in Signals, s[1] = t[1]
      PROVE  IF Draftable(s) THEN status[t] # "open" /\ (t \in new'[p] => s = t)
             ELSE ~Visible(t)
  <2>1. CASE s \in new[p]
    <3>1. ~Draftable(s)  BY <1>1, <1>4, <2>1 DEF RunFacts
    <3> QED BY <1>1, <1>4, <1>7, <2>1, <3>1 DEF RunFacts, RunSteps
  <2>2. CASE s \in Fresh(found[p] \ OpenKeys, 1)
    <3>1. s \in Signals /\ Draftable(s) /\ t[1] \in found[p] \ OpenKeys
      BY <1>5, <1>7, <2>2
    <3>2. status[t] # "open"
      <4> SUFFICES ASSUME status[t] = "open" PROVE t[1] \in OpenKeys  BY <3>1
      <4>1. t[1] \in Keys /\ t[2] \in 1..MaxPerKey /\ status[<<t[1], t[2]>>] = "open"
        BY SignalFacts
      <4> QED BY <4>1 DEF OpenKeys
    <3>3. ASSUME t \in new'[p] PROVE s = t
      <4>1. t \notin new[p]  BY <1>1, <1>4, <1>6, <1>7, <3>1 DEF RunFacts
      <4>2. t \in Fresh(found[p] \ OpenKeys, 1)  BY <1>3, <3>3, <4>1
      <4>3. found[p] \ OpenKeys \in SUBSET Keys  BY DEF TypeOK
      <4> QED BY <1>7, <2>2, <4>2, <4>3, FreshOne
    <3> QED BY <3>1, <3>2, <3>3
  <2> QED BY <1>3, <2>1, <2>2
<1>8. RunFacts(p)'
  <2>1. \A s : /\ (Visible(s)' <=> Visible(s)) /\ (Draftable(s)' <=> Draftable(s))
    BY <1>1 DEF Kind, Visible, Draftable
  <2>2. \A s \in new'[p], t \in Signals : s[1] = t[1] =>
          IF Draftable(s)' THEN status'[t] # "open" /\ (t \in new'[p] => s = t)
          ELSE ~Visible(t)'
    BY <1>1, <1>7, <2>1
  <2> QED BY <1>3, <2>2 DEF RunFacts, RunSteps
<1>9. Moved  BY <1>1 DEF Moved
<1> QED BY <1>1, <1>2, <1>3, <1>4, <1>8, <1>9, StepKeeps DEF RunSteps

LEMMA AutocurateKeeps ==
  ASSUME TypeOK, RunInv, OneOpen, NEW p \in Procs, RunAutocurate(p)
  PROVE  RunInv' /\ OneOpen'
<1>1. /\ pc[p] = "autocurate" /\ Goto(p, "publish")
      /\ UNCHANGED <<job, known, found, new>>
  BY DEF RunAutocurate, run
<1>2. Moved  BY DEF RunAutocurate, Moved
<1>3. \A q \in Procs \ {p} : Bystander(q)  BY <1>1 DEF TypeOK, Goto, Bystander
<1>4. pc'[p] = "publish"  BY <1>1 DEF TypeOK, Goto
<1>5. RunFacts(p) /\ job[p].cmd = "run" /\ \A q \in Procs \ {p} : job[q].cmd # "run"
  BY <1>1 DEF RunInv, Running, RunSteps, OneRun
<1>6. RunFacts(p)'
  <2>1. \A s \in Signals : (~Visible(s) => ~Visible(s)')
                             /\ (status[s] # "open" => status'[s] # "open")
    BY <1>2 DEF Moved, Visible
  <2>2. \A s : Draftable(s)' <=> Draftable(s)  BY DEF Draftable, Kind
  <2>3. new[p] \subseteq Signals  BY DEF TypeOK
  <2>4. \A s \in new[p], t \in Signals : s[1] = t[1] =>
          IF Draftable(s) THEN status[t] # "open" /\ (t \in new[p] => s = t)
          ELSE ~Visible(t)
    BY <1>1, <1>5 DEF RunFacts, RunSteps
  <2>5. \A s \in new'[p], t \in Signals : s[1] = t[1] =>
          IF Draftable(s)' THEN status'[t] # "open" /\ (t \in new'[p] => s = t)
          ELSE ~Visible(t)'
    BY <1>1, <2>1, <2>2, <2>4
  <2> QED BY <1>4, <2>5 DEF RunFacts
<1> QED BY <1>1, <1>2, <1>3, <1>4, <1>5, <1>6, StepKeeps DEF RunSteps

(* The commit opens at most one signal of a key, none of which was open. *)
LEMMA CommitKeeps ==
  ASSUME TypeOK, RunInv, OneOpen, NEW p \in Procs, RunCommit(p)
  PROVE  RunInv' /\ OneOpen'
<1>1. /\ pc[p] = "publish" /\ Release(p)
      /\ \A s \in Signals : status'[s] = IF s \in new[p] THEN "open" ELSE status[s]
  BY DEF RunCommit
<1>2. RunFacts(p) /\ job[p].cmd = "run" /\ \A q \in Procs \ {p} : job[q].cmd # "run"
  BY <1>1 DEF RunInv, Running, RunSteps, OneRun
<1>3. OneOpen'
  <2> SUFFICES ASSUME NEW s \in Signals, NEW t \in Signals, Draftable(s), s[1] = t[1],
                      status'[s] = "open", status'[t] = "open"
               PROVE  s = t
    BY DEF OneOpen, Draftable, Kind
  <2>0. Draftable(t)  BY DEF Draftable, Kind
  <2>1. CASE s \in new[p]  BY <1>1, <1>2, <2>1 DEF RunFacts, RunSteps
  <2>2. CASE t \in new[p]  BY <1>1, <1>2, <2>0, <2>2 DEF RunFacts, RunSteps
  <2>3. CASE s \notin new[p] /\ t \notin new[p]  BY <1>1, <2>3 DEF OneOpen
  <2> QED BY <2>1, <2>2, <2>3
<1>4. \A q \in Procs \ {p} : Bystander(q)  BY <1>1 DEF TypeOK, Release, Bystander
<1>5. pc'[p] = "idle" /\ job'[p] = NoJob /\ new'[p] = {}  BY <1>1 DEF TypeOK, Release
<1>6. \A q \in Procs : pc'[q] \notin RunSteps /\ job'[q].cmd # "run" /\ new'[q] = {}
  <2> TAKE q \in Procs
  <2>1. CASE q = p  BY <1>5, <2>1 DEF RunSteps, NoJob
  <2>2. CASE q # p  BY <1>2, <1>4, <2>2 DEF RunInv, Running, Bystander
  <2> QED BY <2>1, <2>2
<1>7. Running' /\ OneRun' /\ \A q \in Procs : RunFacts(q)'
  BY <1>6 DEF Running, OneRun, RunFacts, RunSteps
<1>8. HandVisible'
  <2> SUFFICES ASSUME NEW q \in Procs, job'[q].signal # NoSignal
               PROVE  status'[job'[q].signal] # "none"
    BY DEF HandVisible, Visible
  <2>1. q # p  BY <1>5 DEF NoJob
  <2>2. job'[q] = job[q]  BY <1>4, <2>1 DEF Bystander
  <2>3. job[q].signal \in Signals
    <3>1. job[q] \in Jobs  BY DEF TypeOK
    <3> QED BY <2>2, <3>1 DEF Jobs
  <2> QED BY <1>1, <2>2, <2>3 DEF RunInv, HandVisible, Visible
<1> QED BY <1>3, <1>7, <1>8 DEF RunInv

-----------------------------------------------------------------------------
(* The steps of the curator's commands.                                    *)

LEMMA ReadKeeps ==
  ASSUME TypeOK, RunInv, OneOpen, NEW p \in Procs,
         SynthRead(p) \/ PromoteRead(p) \/ ResolveRead(p)
  PROVE  RunInv' /\ OneOpen'
<1>1. /\ Idle(p) /\ UNCHANGED <<status, known, found, new>>
      /\ \E stage \in {"page", "link", "signal"} : Goto(p, stage)
  BY DEF SynthRead, PromoteRead, ResolveRead, run
<1>2. new[p] = {}  BY <1>1 DEF TypeOK
<1>3. \E j \in {i \in Jobs : /\ i.cmd # "run"
                             /\ \/ i.signal = NoSignal
                                \/ \E s \in Signals : i.signal = s /\ Visible(s)} :
         job' = [job EXCEPT ![p] = j]
  <2>1. CASE SynthRead(p)
    <3>1. PICK n \in Names, s \in {t \in Signals : Visible(t)} \cup {NoSignal} :
            job' = [job EXCEPT ![p] = Draft(n, s)]
      BY <2>1 DEF SynthRead
    <3>2. page[n] \in PageStatuses  BY DEF TypeOK
    <3>3. Draft(n, s) \in Jobs /\ Draft(n, s).cmd # "run" /\ Draft(n, s).signal = s
      BY <3>2 DEF Draft, Jobs, PageStatuses
    <3> QED BY <3>1, <3>3
  <2>2. CASE PromoteRead(p)
    <3> DEFINE J(n, to) == [cmd |-> "promote", on |-> {n}, signal |-> NoSignal,
                            was |-> page[n], to |-> to]
    <3>1. PICK n \in Names, to \in {"canonical", "deprecated"} :
            job' = [job EXCEPT ![p] = J(n, to)]
      BY <2>2 DEF PromoteRead
    <3>2. page[n] \in PageStatuses  BY DEF TypeOK
    <3>3. J(n, to) \in Jobs /\ J(n, to).cmd # "run" /\ J(n, to).signal = NoSignal
      BY <3>2 DEF Jobs, PageStatuses
    <3> HIDE DEF J
    <3> QED BY <3>1, <3>3
  <2>3. CASE ResolveRead(p)
    <3> DEFINE J(cmd, s) == [NoJob EXCEPT !.cmd = cmd, !.signal = s]
    <3>1. PICK s \in Signals, cmd \in {"approve", "drop"} :
            /\ status[s] \in {"open", "in_progress"}
            /\ job' = [job EXCEPT ![p] = J(cmd, s)]
      BY <2>3 DEF ResolveRead
    <3>2. J(cmd, s) \in Jobs /\ J(cmd, s).cmd # "run" /\ J(cmd, s).signal = s
      BY DEF NoJob, Jobs, PageStatuses
    <3>3. Visible(s)  BY <3>1 DEF Visible
    <3> HIDE DEF J
    <3> QED BY <3>1, <3>2, <3>3
  <2> QED BY <2>1, <2>2, <2>3
<1>4. PICK j \in Jobs : /\ j.cmd # "run"
                        /\ \/ j.signal = NoSignal
                           \/ \E s \in Signals : j.signal = s /\ Visible(s)
                        /\ job' = [job EXCEPT ![p] = j]
  BY <1>3
<1>5. \A q \in Procs \ {p} : Bystander(q)
  BY <1>1, <1>4 DEF TypeOK, Goto, Bystander
<1>6. pc'[p] \in {"page", "link", "signal"} /\ job'[p] = j /\ new'[p] = {}
  BY <1>1, <1>2, <1>4 DEF TypeOK, Goto
<1>7. pc'[p] \notin RunSteps  BY <1>6 DEF RunSteps
<1>8. Moved  BY <1>1 DEF Moved
<1> QED BY <1>4, <1>5, <1>6, <1>7, <1>8, CuratorKeeps

(* A command that goes on keeps what it has, or has looked a signal up. *)
LEMMA GoonKeeps ==
  ASSUME TypeOK, RunInv, OneOpen, NEW p \in Procs, UNCHANGED <<status, known, found, new>>,
         pc[p] \notin RunSteps,
         NEW stage \in {"find", "commit", "signal"}, Goto(p, stage),
         \/ job' = job
         \/ \E s \in Signals : Visible(s) /\ job' = [job EXCEPT ![p].signal = s]
  PROVE  RunInv' /\ OneOpen'
<1>1. Moved  BY DEF Moved
<1>2. \A q \in Procs \ {p} : Bystander(q)  BY DEF TypeOK, Goto, Bystander
<1>3. pc'[p] = stage /\ pc'[p] \notin RunSteps  BY DEF TypeOK, Goto, RunSteps
<1>4. job[p].cmd # "run" /\ new'[p] = {}  BY DEF RunInv, Running
<1>5. CASE job' = job  BY <1>1, <1>2, <1>3, <1>4, <1>5, CuratorKeeps
<1>6. CASE \E s \in Signals : Visible(s) /\ job' = [job EXCEPT ![p].signal = s]
  <2>1. PICK s \in Signals : Visible(s) /\ job' = [job EXCEPT ![p].signal = s]  BY <1>6
  <2>2. job'[p].signal = s /\ job'[p].cmd = job[p].cmd
    <3>1. job[p] \in Jobs  BY DEF TypeOK
    <3>2. job'[p] = [job[p] EXCEPT !.signal = s]  BY <2>1 DEF TypeOK
    <3> QED BY <3>1, <3>2 DEF Jobs
  <2> QED BY <1>1, <1>2, <1>3, <1>4, <2>1, <2>2, CuratorKeeps
<1> QED BY <1>5, <1>6

LEMMA WriteKeeps ==
  ASSUME LinkInv, RunInv, OneOpen, NEW p \in Procs,
         WritePage(p) \/ FindSignal(p) \/ ResolveLink(p) \/ SetStatus(p) \/ Commit(p) \/ Abort(p)
  PROVE  RunInv' /\ OneOpen'
<1>0. TypeOK /\ JobFacts(p)  BY DEF LinkInv
<1>1. CASE WritePage(p)
  <2>1. status' = status /\ pc[p] = "page"  BY <1>1 DEF WritePage
  <2>2. PICK n : n \in job[p].on  BY <1>0, <2>1 DEF JobFacts
  <2>3. \/ Release(p)
        \/ /\ \E stage \in {"find", "commit", "signal"} : Goto(p, stage)
           /\ UNCHANGED <<job, known, found, new>>
    BY <1>1, <2>2 DEF WritePage, run
  <2>4. CASE Release(p)
    <3>1. Moved  BY <2>1 DEF Moved
    <3> QED BY <1>0, <2>4, <3>1, ReleaseKeeps
  <2>5. CASE /\ \E stage \in {"find", "commit", "signal"} : Goto(p, stage)
             /\ UNCHANGED <<job, known, found, new>>
    BY <1>0, <2>1, <2>5, GoonKeeps DEF RunSteps
  <2> QED BY <2>3, <2>4, <2>5
<1>2. CASE FindSignal(p)
  <2>1. /\ UNCHANGED <<status, known, found, new>> /\ pc[p] = "find"
        /\ \E stage \in {"commit", "signal"} : Goto(p, stage)
    BY <1>2 DEF FindSignal, run
  <2>2. \/ job' = job
        \/ \E s \in Signals : Visible(s) /\ job' = [job EXCEPT ![p].signal = s]
    BY <1>2 DEF FindSignal, Visible
  <2> QED BY <1>0, <2>1, <2>2, GoonKeeps DEF RunSteps
<1>3. CASE ResolveLink(p) \/ SetStatus(p)
  <2>1. /\ UNCHANGED <<status, job, known, found, new>> /\ pc[p] \in {"link", "signal"}
        /\ \E stage \in {"commit", "signal"} : Goto(p, stage)
    BY <1>3 DEF ResolveLink, SetStatus, run
  <2> QED BY <1>0, <2>1, GoonKeeps DEF RunSteps
<1>4. CASE Commit(p)
  <2>1. /\ Release(p)
        /\ \A s \in Signals : status'[s] = IF s = job[p].signal THEN Outcome(job[p].cmd)
                                           ELSE status[s]
    BY <1>4 DEF Commit
  <2>2. Outcome(job[p].cmd) \notin {"none", "open"}  BY DEF Outcome
  <2>3. \A s \in Signals : s = job[p].signal => Visible(s)
    BY KeyFacts DEF RunInv, HandVisible
  <2>4. Moved  BY <2>1, <2>2, <2>3 DEF Moved
  <2> QED BY <1>0, <2>1, <2>4, ReleaseKeeps
<1>5. CASE Abort(p)
  <2>1. Release(p) /\ status' = status  BY <1>5 DEF Abort
  <2>2. Moved  BY <2>1 DEF Moved
  <2> QED BY <1>0, <2>1, <2>2, ReleaseKeeps
<1> QED BY <1>1, <1>2, <1>3, <1>4, <1>5

-----------------------------------------------------------------------------
LEMMA InitOpen == Init => OpenInv
<1> SUFFICES ASSUME Init PROVE OpenInv  OBVIOUS
<1>1. \A p \in Procs : pc[p] = "idle" /\ job[p] = NoJob /\ new[p] = {}  BY DEF Init
<1>2. Running /\ OneRun /\ HandVisible /\ \A p \in Procs : RunFacts(p)
  BY <1>1 DEF Running, OneRun, HandVisible, RunFacts, RunSteps, NoJob
<1>3. OneOpen  BY DEF Init, OneOpen
<1> QED BY <1>2, <1>3, InitLink DEF OpenInv, RunInv

LEMMA OpenStep == OpenInv /\ [Next]_vars => OpenInv'
<1> SUFFICES ASSUME OpenInv, [Next]_vars PROVE OpenInv'  OBVIOUS
<1>1. LinkInv'  BY LinkStep DEF OpenInv
<1>2. ASSUME RunsAlone PROVE RunInv' /\ OneOpen'
  <2>0. LinkInv /\ TypeOK /\ RunInv /\ OneOpen  BY <1>2 DEF OpenInv, LinkInv
  <2>1. ASSUME NEW p \in Procs, Start(p) \/ Proceed(p) \/ Abort(p)
        PROVE  RunInv' /\ OneOpen'
    <3>1. CASE RunStart(p)  BY <1>2, <2>0, <3>1, StartKeeps
    <3>2. CASE RunPropose(p)  BY <2>0, <3>2, ProposeKeeps
    <3>3. CASE RunInsert(p)  BY <2>0, <3>3, InsertKeeps
    <3>4. CASE RunAutocurate(p)  BY <2>0, <3>4, AutocurateKeeps
    <3>5. CASE RunCommit(p)  BY <2>0, <3>5, CommitKeeps
    <3>6. CASE SynthRead(p) \/ PromoteRead(p) \/ ResolveRead(p)
      BY <2>0, <3>6, ReadKeeps
    <3>7. CASE WritePage(p) \/ FindSignal(p) \/ ResolveLink(p) \/ SetStatus(p) \/ Commit(p)
                 \/ Abort(p)
      BY <2>0, <3>7, WriteKeeps
    <3> QED BY <2>1, <3>1, <3>2, <3>3, <3>4, <3>5, <3>6, <3>7 DEF Start, Proceed
  <2>2. CASE UNCHANGED vars
    BY <2>0, <2>2 DEF vars, RunInv, Running, OneRun, HandVisible, RunFacts, OneOpen,
                      Visible, Draftable, Kind
  <2> QED BY <2>1, <2>2 DEF Next
<1> QED BY <1>1, <1>2, CurationAssumption DEF OpenInv, CurationAssumption

(* As long as runs do not overlap, each concept has at most one open signal of
   a kind, whatever drafts, promotions and verdicts commit between a run's
   look at the open signals and its own commit. *)
THEOREM OneOpenSignal == Spec => []OneOpenPerKey
<1>1. OpenInv => OneOpenPerKey  BY DEF OpenInv, OneOpen, OneOpenPerKey
<1> QED BY InitOpen, OpenStep, <1>1, PTL DEF Spec

(* As long as runs do not overlap, the candidates that a run commits are on
   pairs that no committed candidate has, in any status. *)
THEOREM PairAskedOnce == Spec => PairOnce
<1> DEFINE Asks ==
      \A p \in Procs : RunsAlone /\ RunCommit(p) =>
        \A s \in new[p], t \in Signals :
          Kind(s) = "contradiction" /\ s[1] = t[1] => ~Visible(t)
<1>1. OpenInv /\ [Next]_vars => Asks
  <2> SUFFICES ASSUME OpenInv, NEW p \in Procs, RunsAlone, RunCommit(p),
                      NEW s \in new[p], NEW t \in Signals,
                      Kind(s) = "contradiction", s[1] = t[1]
               PROVE  ~Visible(t)
    OBVIOUS
  <2>1. pc[p] = "publish" /\ RunFacts(p)  BY DEF RunCommit, OpenInv, RunInv
  <2>2. ~Draftable(s)  BY DEF Draftable
  <2> QED BY <2>1, <2>2 DEF RunFacts, RunSteps
<1>2. OpenInv /\ [Next]_vars => [Asks]_vars  BY <1>1
<1> QED BY InitOpen, OpenStep, <1>2, PTL DEF Spec, PairOnce

-----------------------------------------------------------------------------
(* Row locks: nobody waits in a circle.                                    *)

(* A command that has not yet locked a row has none in hand that its next step
   would turn into a locked one without asking. *)
LockFacts(p) ==
  /\ pc[p] = "link" => job[p].on = {}
  /\ pc[p] = "find" => job[p].signal = NoSignal
  /\ pc[p] = "page" /\ job[p].cmd = "promote" => job[p].signal = NoSignal

OneHolder ==
  \A p, q \in Procs : p # q =>
    /\ \A n \in Names : ~(HoldsPage(p, n) /\ HoldsPage(q, n))
    /\ \A s \in Signals : ~(HoldsSignal(p, s) /\ HoldsSignal(q, s))

LockInv == LinkInv /\ OneHolder /\ \A p \in Procs : LockFacts(p)

(* A step of p that takes only rows that nobody holds. *)
LEMMA HoldStep ==
  ASSUME LockInv, NEW p \in Procs,
         \A q \in Procs \ {p} : pc'[q] = pc[q] /\ job'[q] = job[q],
         LockFacts(p)',
         \A n \in Names : HoldsPage(p, n)' => HoldsPage(p, n) \/ PageFree(p, n),
         \A s \in Signals : HoldsSignal(p, s)' => HoldsSignal(p, s) \/ SignalFree(p, s)
  PROVE  OneHolder' /\ \A q \in Procs : LockFacts(q)'
<1>1. ASSUME NEW q \in Procs \ {p}
      PROVE  /\ \A n \in Names : HoldsPage(q, n)' <=> HoldsPage(q, n)
             /\ \A s \in Signals : HoldsSignal(q, s)' <=> HoldsSignal(q, s)
             /\ LockFacts(q)'
  BY DEF HoldsPage, HoldsSignal, LockFacts, LockInv
<1>2. ASSUME NEW q \in Procs \ {p}
      PROVE  /\ \A n \in Names : ~(HoldsPage(p, n)' /\ HoldsPage(q, n)')
             /\ \A s \in Signals : ~(HoldsSignal(p, s)' /\ HoldsSignal(q, s)')
  <2>1. /\ \A n \in Names : ~(HoldsPage(p, n) /\ HoldsPage(q, n))
        /\ \A s \in Signals : ~(HoldsSignal(p, s) /\ HoldsSignal(q, s))
    BY DEF LockInv, OneHolder
  <2> QED BY <1>1, <2>1 DEF PageFree, SignalFree
<1>3. OneHolder'
  <2> SUFFICES ASSUME NEW a \in Procs, NEW b \in Procs, a # b
               PROVE  /\ \A n \in Names : ~(HoldsPage(a, n)' /\ HoldsPage(b, n)')
                      /\ \A s \in Signals : ~(HoldsSignal(a, s)' /\ HoldsSignal(b, s)')
    BY DEF OneHolder
  <2>1. CASE a = p \/ b = p
    BY <1>2, <2>1
  <2>2. CASE a # p /\ b # p
    BY <1>1, <2>2 DEF LockInv, OneHolder
  <2> QED BY <2>1, <2>2
<1>4. \A q \in Procs : LockFacts(q)'
  <2> TAKE q \in Procs
  <2>1. CASE q = p  BY <2>1
  <2>2. CASE q # p  BY <1>1, <2>2
  <2> QED BY <2>1, <2>2
<1> QED BY <1>3, <1>4

(* So a step after which p holds nothing that it did not. *)
LEMMA LetGo ==
  ASSUME LockInv, NEW p \in Procs,
         \A q \in Procs \ {p} : pc'[q] = pc[q] /\ job'[q] = job[q],
         pc'[p] \notin {"find", "signal", "commit", "link"},
         pc'[p] = "page" /\ job'[p].cmd = "promote" => job'[p].signal = NoSignal
  PROVE  OneHolder' /\ \A q \in Procs : LockFacts(q)'
<1>1. LockFacts(p)'
  BY DEF LockFacts
<1>2. \A n, s : ~HoldsPage(p, n)' /\ ~HoldsSignal(p, s)'
  BY DEF HoldsPage, HoldsSignal
<1> QED BY <1>1, <1>2, HoldStep

LEMMA LockStep == LockInv /\ [Next]_vars => LockInv'
<1> SUFFICES ASSUME LockInv, [Next]_vars PROVE OneHolder' /\ \A q \in Procs : LockFacts(q)'
  BY LinkStep DEF LockInv
<1>0. TypeOK /\ LinkInv
  BY DEF LockInv, LinkInv
<1>1. ASSUME NEW p \in Procs, Start(p) \/ Proceed(p) \/ Abort(p)
      PROVE  OneHolder' /\ \A q \in Procs : LockFacts(q)'
  <2>0. /\ \A to, q : Goto(p, to) /\ q \in Procs => pc'[q] = IF q = p THEN to ELSE pc[q]
        /\ Release(p) => /\ pc'[p] = "idle" /\ job'[p] = NoJob
                         /\ \A q \in Procs \ {p} : pc'[q] = pc[q] /\ job'[q] = job[q]
        /\ JobFacts(p) /\ LockFacts(p)
    BY <1>0 DEF Goto, Release, TypeOK, LockInv, LinkInv
  <2>1. CASE RunStart(p) \/ RunPropose(p) \/ RunInsert(p) \/ RunAutocurate(p)
    <3>1. /\ \A q \in Procs \ {p} : pc'[q] = pc[q] /\ job'[q] = job[q]
          /\ pc'[p] \in {"propose", "insert", "autocurate", "publish"}
      BY <1>0, <2>0, <2>1 DEF RunStart, RunPropose, RunInsert, RunAutocurate, TypeOK
    <3> QED BY <3>1, LetGo
  <2>2. CASE RunCommit(p) \/ Commit(p) \/ Abort(p)
    <3>1. Release(p)
      BY <2>2 DEF RunCommit, Commit, Abort
    <3> QED BY <2>0, <3>1, LetGo
  <2>3. CASE SynthRead(p) \/ PromoteRead(p)
    <3>1. /\ \A q \in Procs \ {p} : pc'[q] = pc[q] /\ job'[q] = job[q]
          /\ pc'[p] = "page"
          /\ job'[p].cmd = "promote" => job'[p].signal = NoSignal
      BY <1>0, <2>0, <2>3 DEF SynthRead, PromoteRead, Draft, TypeOK
    <3> QED BY <3>1, LetGo
  <2>4. CASE ResolveRead(p)
    <3>1. /\ \A q \in Procs \ {p} : pc'[q] = pc[q] /\ job'[q] = job[q]
          /\ pc'[p] \in {"link", "signal"} /\ job'[p].on = {}
      <4>1. PICK s \in Signals, cmd \in {"approve", "drop"} :
              /\ job' = [job EXCEPT ![p] = [NoJob EXCEPT !.cmd = cmd, !.signal = s]]
              /\ Goto(p, IF cmd = "approve" THEN "link" ELSE "signal")
        BY <2>4 DEF ResolveRead
      <4>2. [NoJob EXCEPT !.cmd = cmd, !.signal = s].on = {}
        BY DEF NoJob
      <4>3. job'[p].on = {} /\ \A q \in Procs \ {p} : job'[q] = job[q]
        BY <1>0, <4>1, <4>2 DEF TypeOK
      <4> QED BY <2>0, <4>1, <4>3
    <3>2. LockFacts(p)' /\ \A n, s : ~HoldsPage(p, n)' /\ ~HoldsSignal(p, s)'
      BY <3>1 DEF LockFacts, HoldsPage, HoldsSignal
    <3> QED BY <3>1, <3>2, HoldStep
  (* The page row is locked when it is free. *)
  <2>5. CASE WritePage(p)
    <3>1. CASE Release(p)
      BY <2>0, <3>1, LetGo
    <3>2. CASE ~Release(p)
      <4>1. job[p].on # {} /\ pc[p] = "page"
        BY <2>0, <2>5 DEF WritePage, JobFacts
      <4>2. /\ UNCHANGED job /\ \A n \in job[p].on : PageFree(p, n)
            /\ Goto(p, IF job[p].cmd = "promote" THEN "find"
                       ELSE IF job[p].signal = NoSignal THEN "commit" ELSE "signal")
        BY <2>5, <3>2, <4>1 DEF WritePage
      <4>3. /\ \A q \in Procs \ {p} : pc'[q] = pc[q]
            /\ pc'[p] = IF job[p].cmd = "promote" THEN "find"
                        ELSE IF job[p].signal = NoSignal THEN "commit" ELSE "signal"
        BY <2>0, <4>2
      <4>4. LockFacts(p)'
        BY <2>0, <4>1, <4>2, <4>3 DEF LockFacts
      <4>5. \A n \in Names : HoldsPage(p, n)' => PageFree(p, n)
        BY <4>2 DEF HoldsPage
      <4>6. \A s \in Signals : ~HoldsSignal(p, s)'
        BY <4>2, <4>3, KeyFacts DEF HoldsSignal
      <4> QED BY <4>2, <4>3, <4>4, <4>5, <4>6, HoldStep
    <3> QED BY <3>1, <3>2
  <2>6. CASE FindSignal(p)
    <3>1. /\ \A q \in Procs \ {p} : pc'[q] = pc[q] /\ job'[q] = job[q]
          /\ pc[p] = "find" /\ job'[p].on = job[p].on
          /\ pc'[p] = "signal" \/ (pc'[p] = "commit" /\ job'[p] = job[p])
      BY <1>0, <2>0, <2>6 DEF FindSignal, TypeOK, Jobs
    <3>2. LockFacts(p)' /\ \A n \in Names : HoldsPage(p, n)' => HoldsPage(p, n)
      BY <3>1 DEF LockFacts, HoldsPage
    <3>3. \A s \in Signals : ~HoldsSignal(p, s)'
      BY <2>0, <3>1, KeyFacts DEF LockFacts, HoldsSignal
    <3> QED BY <3>1, <3>2, <3>3, HoldStep
  <2>7. CASE ResolveLink(p)
    <3>1. /\ \A q \in Procs \ {p} : pc'[q] = pc[q] /\ job'[q] = job[q]
          /\ pc[p] = "link" /\ pc'[p] = "signal" /\ job'[p] = job[p] /\ job[p].on = {}
      BY <2>0, <2>7 DEF ResolveLink, LockFacts
    <3>2. LockFacts(p)' /\ \A n, s : ~HoldsPage(p, n)' /\ ~HoldsSignal(p, s)'
      BY <3>1 DEF LockFacts, HoldsPage, HoldsSignal
    <3> QED BY <3>1, <3>2, HoldStep
  (* The signal row is locked when it is free. *)
  <2>8. CASE SetStatus(p)
    <3>1. /\ \A q \in Procs \ {p} : pc'[q] = pc[q] /\ job'[q] = job[q]
          /\ pc[p] = "signal" /\ pc'[p] = "commit" /\ job'[p] = job[p]
          /\ SignalFree(p, job[p].signal)
      BY <2>0, <2>8 DEF SetStatus
    <3>2. LockFacts(p)' /\ \A n \in Names : HoldsPage(p, n)' => HoldsPage(p, n)
      BY <3>1 DEF LockFacts, HoldsPage
    <3>3. \A s \in Signals : HoldsSignal(p, s)' => SignalFree(p, s)
      BY <3>1 DEF HoldsSignal
    <3> QED BY <3>1, <3>2, <3>3, HoldStep
  <2> QED BY <1>1, <2>1, <2>2, <2>3, <2>4, <2>5, <2>6, <2>7, <2>8 DEF Start, Proceed
<1>2. CASE UNCHANGED vars
  BY <1>2 DEF vars, LockInv, OneHolder, LockFacts, HoldsPage, HoldsSignal
<1> QED BY <1>1, <1>2 DEF Next

(* However many commands run: no row has two holders, and nobody waits in a
   circle.  Who holds a page row waits for a signal row at most, and who holds
   a signal row only commits (lifecycle.py:55-74, promote.py:56-68): a
   transaction takes its page row first. *)
THEOREM NobodyWaitsInACircle == Spec => []WaitsEnd
<1>1. Init => LockInv
  <2> SUFFICES ASSUME Init PROVE OneHolder /\ \A p \in Procs : LockFacts(p)
    BY InitLink DEF LockInv
  <2>1. \A p \in Procs : pc[p] = "idle"
    BY DEF Init
  <2> QED BY <2>1 DEF OneHolder, LockFacts, HoldsPage, HoldsSignal
<1>2. LockInv => WaitsEnd
  <2> SUFFICES ASSUME LockInv, NEW p \in Procs, NEW q \in Procs, p # q,
                      WaitsFor(p, q), Waiting(q)
               PROVE  \E r \in Procs \ {p, q} : WaitsFor(q, r) /\ ~Waiting(r)
    BY DEF WaitsEnd, LockInv, OneHolder
  <2>1. pc[p] \in {"page", "signal"} /\ pc[q] \in {"find", "signal", "commit"}
    BY DEF WaitsFor, HoldsPage, HoldsSignal
  <2>2. PICK r \in Procs \ {q} : WaitsFor(q, r)
    BY DEF Waiting
  <2>3. pc[q] = "signal" /\ pc[r] = "commit"
    BY <2>1, <2>2 DEF WaitsFor, HoldsSignal
  <2>4. ~Waiting(r) /\ r # p
    BY <2>1, <2>3 DEF Waiting, WaitsFor
  <2> QED BY <2>2, <2>4
<1> QED BY <1>1, <1>2, LockStep, PTL DEF Spec

-----------------------------------------------------------------------------
(* Which pages the runs look at: SlowLoop.                                 *)

LoopSteps == {"idle", "list", "look", "rest"}

(* What a run holds. *)
RunnerOK(r) ==
  /\ todo[r] \subseteq exists /\ moved[r] \subseteq exists /\ after[r] \subseteq exists
  /\ done[r].pages \subseteq exists

CorpusOK ==
  /\ step \in Steps /\ careful \in BOOLEAN /\ cold \in BOOLEAN
  /\ vector \subseteq exists /\ exists \subseteq Pages
  /\ newer \subseteq exists /\ owed \subseteq exists
  /\ count \in 0..(SweepEvery - 1) /\ writes \in 0..MaxWrites /\ faults \in 0..MaxFaults
  /\ writer \in [Pages -> BOOLEAN] /\ before \in [Pages -> SUBSET (Runners \cup {"mark"})]

RunnersOK ==
  /\ at \in [Runners -> LoopSteps] /\ todo \in [Runners -> SUBSET Pages]
  /\ moved \in [Runners -> SUBSET Pages] /\ after \in [Runners -> SUBSET Pages]
  /\ done \in [Runners -> [pages : SUBSET Pages, proposed : BOOLEAN]]

LoopType == CorpusOK /\ RunnersOK /\ \A r \in Runners : RunnerOK(r)

(* What r will look at or has looked at. *)
Plan(r) == todo[r] \cup done[r].pages

LoopHeld == \A r \in Runners : at[r] \in {"idle", "list"} => todo[r] = {} /\ done[r] = Nothing

(* With writes and syncs out of the runs nothing moves under a run. *)
LoopCalm == careful =>
  /\ (\E r \in Runners : at[r] # "idle") => (\A p \in Pages : ~writer[p]) /\ vector = exists
  /\ \A r \in Runners : moved[r] = {}
  /\ \A p \in Pages : before[p] = {}

(* If none fails either, a run has on its plan whatever is newer than the
   watermark, and all there is while there is no watermark; and what has not
   been looked at is newer, or on the plan of a run. *)
LoopWatched == careful /\ faults = 0 =>
  /\ \A r \in Runners : at[r] = "rest" => todo[r] = {}
  /\ \A r \in Runners : at[r] \in {"look", "rest"} =>
       newer \subseteq Plan(r) /\ (cold => exists \subseteq Plan(r))
  /\ cold \/ \A p \in owed : p \in newer \/ \E r \in Runners : p \in Plan(r)

LoopInv == LoopType /\ LoopHeld /\ LoopCalm /\ LoopWatched

LEMMA LoopTyped == LoopType => LoopTypeOK
BY DEF LoopType, CorpusOK, RunnersOK, RunnerOK, LoopTypeOK, LoopSteps

LEMMA LoopBegin ==
  ASSUME SlowLoopAssumption, LoopInit
  PROVE  LoopInv
<1>1. LoopType
  BY DEF LoopType, CorpusOK, RunnersOK, RunnerOK, LoopInit, LoopSteps,
         SlowLoopAssumption, Nothing
<1>2. LoopHeld /\ LoopCalm /\ LoopWatched
  BY DEF LoopHeld, LoopCalm, LoopWatched, LoopInit
<1> QED BY <1>1, <1>2 DEF LoopInv

(* A run is where it was, or at a next step. *)
LEMMA AtNext ==
  ASSUME LoopType, NEW r \in Runners, NEW s \in LoopSteps, LoopGoto(r, s)
  PROVE  at' \in [Runners -> LoopSteps] /\ at'[r] = s /\ \A q \in Runners \ {r} : at'[q] = at[q]
BY DEF LoopType, RunnersOK, LoopGoto

(* Pages are written and embedded. *)
LEMMA PageTypes ==
  ASSUME SlowLoopAssumption, LoopType, NEW p \in Pages,
         \/ WriteBegin(p) \/ WriteCommit(p) \/ WriteAbort(p) \/ Sync(p)
  PROVE  LoopType'
<1> USE DEF SlowLoopAssumption
<1>1. CASE WriteBegin(p)
  BY <1>1 DEF LoopType, CorpusOK, RunnersOK, RunnerOK, WriteBegin, work
<1>2. CASE WriteCommit(p)
  <2>1. CorpusOK'
    BY <1>2 DEF LoopType, CorpusOK, WriteCommit
  <2>2. /\ moved' = [r \in Runners |-> IF at[r] = "idle" THEN {} ELSE moved[r] \cup {p}]
        /\ after' = [r \in Runners |-> IF at[r] = "idle" THEN {}
                                       ELSE IF r \in before[p] THEN after[r] \ {p}
                                       ELSE after[r] \cup {p}]
        /\ UNCHANGED <<at, todo, done>> /\ exists' = exists \cup {p}
    BY <1>2 DEF WriteCommit, LoopIdle
  <2>3. \A r \in Runners : /\ moved'[r] \in SUBSET Pages /\ after'[r] \in SUBSET Pages
                           /\ moved'[r] \subseteq moved[r] \cup {p}
                           /\ after'[r] \subseteq after[r] \cup {p}
    BY <2>2 DEF LoopType, RunnersOK
  <2>4. RunnersOK'
    BY <2>2, <2>3 DEF LoopType, RunnersOK
  <2>5. \A r \in Runners : RunnerOK(r)'
    BY <2>2, <2>3 DEF LoopType, RunnerOK
  <2> QED BY <2>1, <2>4, <2>5 DEF LoopType
<1>3. CASE WriteAbort(p)
  BY <1>3 DEF LoopType, CorpusOK, RunnersOK, RunnerOK, WriteAbort, work
<1>4. CASE Sync(p)
  BY <1>4 DEF LoopType, CorpusOK, RunnersOK, RunnerOK, Sync, work, marks
<1> QED BY <1>1, <1>2, <1>3, <1>4

(* What each step of a run does, with the types it leaves. *)
LEMMA RunStartTypes ==
  ASSUME LoopType, NEW r \in Runners, LoopStart(r)
  PROVE  LoopType'
<1>1. at' \in [Runners -> LoopSteps]
  BY AtNext DEF LoopStart, LoopSteps
<1>2. /\ before' = [p \in Pages |-> IF writer[p] THEN before[p] \cup {r} ELSE before[p]]
      /\ after' = [after EXCEPT ![r] = {}]
      /\ UNCHANGED <<step, careful, exists, vector, owed, writer, writes, newer, cold, count,
                     faults, todo, moved, done>>
  BY DEF LoopStart, corpus
<1>3. CorpusOK'
  BY <1>2 DEF LoopType, CorpusOK
<1>4. RunnersOK' /\ \A q \in Runners : RunnerOK(q)'
  BY <1>1, <1>2 DEF LoopType, RunnersOK, RunnerOK
<1> QED BY <1>3, <1>4 DEF LoopType

LEMMA ListTypes ==
  ASSUME LoopType, NEW r \in Runners, List(r)
  PROVE  /\ LoopType' /\ at[r] = "list" /\ at'[r] = "look"
         /\ \A q \in Runners \ {r} : at'[q] = at[q] /\ todo'[q] = todo[q]
         /\ todo'[r] \in {exists, newer} /\ (cold => todo'[r] = exists)
         /\ \A q \in Runners : moved'[q] \in {{}, moved[q]}
         /\ UNCHANGED <<step, careful, exists, vector, owed, writer, writes, newer, cold,
                        before, count, faults, done>>
<1>1. /\ at' \in [Runners -> LoopSteps] /\ at'[r] = "look"
      /\ \A q \in Runners \ {r} : at'[q] = at[q]
  BY AtNext DEF List, LoopSteps
<1>2. PICK T : /\ T \in {exists, newer} /\ (cold => T = exists)
               /\ todo' = [todo EXCEPT ![r] = T] /\ moved' = [moved EXCEPT ![r] = {}]
               /\ UNCHANGED <<step, careful, exists, vector, owed, writer, writes, newer, cold,
                              before, count, faults, after, done>>
  BY DEF List, Listed, SweepDue, corpus, marks
<1>3. T \subseteq exists /\ T \in SUBSET Pages
  BY <1>2 DEF LoopType, CorpusOK
<1>4. RunnersOK' /\ \A q \in Runners : RunnerOK(q)'
  BY <1>1, <1>2, <1>3 DEF LoopType, RunnersOK, RunnerOK
<1>5. CorpusOK'
  BY <1>2 DEF LoopType, CorpusOK
<1>6. todo'[r] = T /\ (\A q \in Runners \ {r} : todo'[q] = todo[q])
      /\ \A q \in Runners : moved'[q] \in {{}, moved[q]}
  BY <1>2 DEF LoopType, RunnersOK
<1> QED BY <1>1, <1>2, <1>4, <1>5, <1>6 DEF LoopType, List

(* A step of a run that is under way, or that begins when the writers and
   syncs are done. *)
Steady(r) ==
  /\ \A q \in Runners \ {r} : at'[q] = at[q] /\ todo'[q] = todo[q] /\ done'[q] = done[q]
  /\ \A q \in Runners : moved'[q] \in {{}, moved[q]}
  /\ UNCHANGED <<step, careful, exists, vector, writer>>
  /\ \A p \in Pages : writer[p] \/ before'[p] = before[p]
  /\ at[r] # "idle" \/ (careful => vector = exists /\ \A p \in Pages : ~writer[p])

LEMMA SteadyCalm ==
  ASSUME LoopType, LoopCalm, NEW r \in Runners, Steady(r)
  PROVE  LoopCalm'
<1> SUFFICES ASSUME careful'
             PROVE  /\ (\E q \in Runners : at'[q] # "idle")
                         => (\A p \in Pages : ~writer'[p]) /\ vector' = exists'
                    /\ \A q \in Runners : moved'[q] = {}
                    /\ \A p \in Pages : before'[p] = {}
  BY DEF LoopCalm
<1>1. (\A p \in Pages : ~writer[p]) /\ vector = exists
  BY DEF LoopCalm, Steady
<1> QED BY <1>1 DEF LoopCalm, Steady

(* Runs start, list and step aside. *)
LEMMA RunStartKeeps ==
  ASSUME LoopInv, NEW r \in Runners, LoopStart(r)
  PROVE  LoopInv'
<1>1. LoopType'
  BY RunStartTypes DEF LoopInv
<1>2. at'[r] = "list" /\ at[r] = "idle" /\ \A q \in Runners \ {r} : at'[q] = at[q]
  BY AtNext DEF LoopStart, LoopSteps, LoopInv, LoopIdle
<1>3. /\ UNCHANGED <<step, careful, exists, vector, owed, writer, newer, cold, faults, todo, moved, done>>
      /\ \A p \in Pages : writer[p] \/ before'[p] = before[p]
      /\ careful => vector = exists /\ \A p \in Pages : ~writer[p]
  BY DEF LoopStart, corpus
<1>4. Steady(r)
  BY <1>2, <1>3 DEF Steady
<1>5. LoopCalm'
  BY <1>4, SteadyCalm DEF LoopInv
<1>6. LoopHeld'
  BY <1>2, <1>3 DEF LoopInv, LoopHeld
<1>7. LoopWatched'
  <2>1. \A q \in Runners : Plan(q)' = Plan(q)
    BY <1>3 DEF Plan
  <2>2. \A q \in Runners : at'[q] \in {"look", "rest"} => at'[q] = at[q]
    BY <1>2
  <2> QED BY <1>3, <2>1, <2>2 DEF LoopInv, LoopWatched
<1> QED BY <1>1, <1>5, <1>6, <1>7 DEF LoopInv

LEMMA ListKeeps ==
  ASSUME LoopInv, NEW r \in Runners, List(r)
  PROVE  LoopInv'
<1>1. /\ LoopType' /\ at[r] = "list" /\ at'[r] = "look"
      /\ \A q \in Runners \ {r} : at'[q] = at[q] /\ todo'[q] = todo[q]
      /\ todo'[r] \in {exists, newer} /\ (cold => todo'[r] = exists)
      /\ \A q \in Runners : moved'[q] \in {{}, moved[q]}
      /\ UNCHANGED <<step, careful, exists, vector, owed, writer, newer, cold, before, faults, done>>
  BY ListTypes DEF LoopInv
<1>2. LoopCalm'
  <2>1. Steady(r)
    BY <1>1 DEF Steady
  <2> QED BY <2>1, SteadyCalm DEF LoopInv
<1>3. LoopHeld'
  BY <1>1 DEF LoopInv, LoopHeld
<1>4. LoopWatched'
  <2>1. Plan(r) = {} /\ \A q \in Runners \ {r} : Plan(q)' = Plan(q)
    BY <1>1 DEF LoopInv, LoopHeld, Plan, Nothing
  <2>2. newer \subseteq exists
    BY DEF LoopInv, LoopType, CorpusOK
  <2>3. newer' \subseteq Plan(r)' /\ (cold' => exists' \subseteq Plan(r)')
    BY <1>1, <2>2 DEF Plan
  <2>4. /\ \A q \in Runners : at'[q] = "rest" => q # r
        /\ \A q \in Runners \ {r} : at'[q] = at[q] /\ todo'[q] = todo[q]
    BY <1>1
  <2> SUFFICES ASSUME careful, faults = 0
               PROVE  /\ \A q \in Runners : at'[q] = "rest" => todo'[q] = {}
                      /\ \A q \in Runners : at'[q] \in {"look", "rest"} =>
                           newer' \subseteq Plan(q)' /\ (cold' => exists' \subseteq Plan(q)')
                      /\ cold' \/ \A p \in owed' : p \in newer' \/ \E q \in Runners : p \in Plan(q)'
    BY <1>1 DEF LoopWatched
  <2>5. \A q \in Runners : at'[q] = "rest" => todo'[q] = {}
    BY <2>4 DEF LoopInv, LoopWatched
  <2>6. \A q \in Runners \ {r} : at'[q] \in {"look", "rest"} =>
           newer' \subseteq Plan(q)' /\ (cold' => exists' \subseteq Plan(q)')
    BY <1>1, <2>1 DEF LoopInv, LoopWatched
  <2>7. cold' \/ \A p \in owed' : p \in newer' \/ \E q \in Runners : p \in Plan(q)'
    BY <1>1, <2>1 DEF LoopInv, LoopWatched
  <2> QED BY <2>3, <2>5, <2>6, <2>7
<1> QED BY <1>1, <1>2, <1>3, <1>4 DEF LoopInv

(* The store that fails and the exception that ends the step. *)
LEMMA AsideKeeps ==
  ASSUME SlowLoopAssumption, LoopInv, NEW r \in Runners, Skip(r) \/ Raise(r)
  PROVE  LoopInv'
<1>1. /\ at[r] \in {"list", "look"} /\ faults < MaxFaults /\ faults' = faults + 1
      /\ LoopGoto(r, "rest")
      /\ UNCHANGED <<step, careful, exists, vector, owed, writer, writes, newer, cold,
                     before, count, todo, moved, after, done>>
  BY DEF Skip, Raise, Fault, corpus, marks
<1>2. faults' \in 0..MaxFaults /\ faults' # 0
  BY <1>1 DEF SlowLoopAssumption, LoopInv, LoopType, CorpusOK
<1>3. at' \in [Runners -> LoopSteps] /\ at'[r] = "rest" /\ \A q \in Runners \ {r} : at'[q] = at[q]
  BY <1>1, AtNext DEF LoopSteps, LoopInv
<1>4. LoopType'
  BY <1>1, <1>2, <1>3 DEF LoopInv, LoopType, CorpusOK, RunnersOK, RunnerOK
<1>5. LoopCalm'
  <2>1. Steady(r)
    BY <1>1, <1>3 DEF Steady
  <2> QED BY <2>1, SteadyCalm DEF LoopInv
<1>6. LoopHeld'
  BY <1>1, <1>3 DEF LoopInv, LoopHeld
<1>7. LoopWatched'
  BY <1>2 DEF LoopWatched
<1> QED BY <1>4, <1>5, <1>6, <1>7 DEF LoopInv

LEMMA StepEndKeeps ==
  ASSUME LoopInv, NEW r \in Runners, StepEnd(r)
  PROVE  LoopInv'
<1>1. /\ at[r] = "look" /\ todo[r] = {} /\ LoopGoto(r, "rest")
      /\ UNCHANGED <<step, careful, exists, vector, owed, writer, writes, newer, cold,
                     before, count, faults, todo, moved, after, done>>
  BY DEF StepEnd, corpus, marks
<1>2. at' \in [Runners -> LoopSteps] /\ at'[r] = "rest" /\ \A q \in Runners \ {r} : at'[q] = at[q]
  BY <1>1, AtNext DEF LoopSteps, LoopInv
<1>3. LoopType'
  BY <1>1, <1>2 DEF LoopInv, LoopType, CorpusOK, RunnersOK, RunnerOK
<1>4. LoopCalm'
  <2>1. Steady(r)
    BY <1>1, <1>2 DEF Steady
  <2> QED BY <2>1, SteadyCalm DEF LoopInv
<1>5. LoopHeld'
  BY <1>1, <1>2 DEF LoopInv, LoopHeld
<1>6. LoopWatched'
  <2>1. /\ \A q \in Runners : Plan(q)' = Plan(q)
        /\ \A q \in Runners : at'[q] \in {"look", "rest"} => at[q] \in {"look", "rest"}
        /\ \A q \in Runners : at'[q] = "rest" => q = r \/ at[q] = "rest"
    BY <1>1, <1>2 DEF Plan
  <2> QED BY <1>1, <2>1 DEF LoopInv, LoopWatched
<1> QED BY <1>3, <1>4, <1>5, <1>6 DEF LoopInv

(* Pages are written and embedded. *)
LEMMA PageKeeps ==
  ASSUME SlowLoopAssumption, LoopInv, NEW p \in Pages,
         \/ WriteBegin(p) \/ WriteCommit(p) \/ WriteAbort(p) \/ Sync(p)
  PROVE  LoopInv'
<1>1. LoopType'
  BY PageTypes DEF LoopInv
<1>2. UNCHANGED <<careful, at, todo, done, cold, faults>>
  BY DEF WriteBegin, WriteCommit, WriteAbort, Sync, work, marks
<1>3. LoopHeld'
  BY <1>2 DEF LoopInv, LoopHeld
<1>4. careful => \A r \in Runners : at[r] = "idle" /\ at'[r] = "idle"
  <2>1. writer[p] \/ Quiet
    BY DEF WriteBegin, WriteCommit, WriteAbort, Sync
  <2> QED BY <1>2, <2>1 DEF LoopInv, LoopCalm, Quiet, LoopIdle
<1>5. careful => /\ \A r \in Runners : moved'[r] = {}
                 /\ \A q \in Pages : before'[q] = {}
  <2> SUFFICES ASSUME careful
               PROVE  /\ \A r \in Runners : moved'[r] = {}
                      /\ \A q \in Pages : before'[q] = {}
    OBVIOUS
  <2>1. /\ \A r \in Runners : moved[r] = {} /\ at[r] = "idle"
        /\ \A q \in Pages : before[q] = {}
    BY <1>4 DEF LoopInv, LoopCalm
  <2>2. before' = before \/ before' = [before EXCEPT ![p] = {}]
    BY DEF WriteBegin, WriteCommit, WriteAbort, Sync, marks
  <2>3. \/ moved' = moved
        \/ moved' = [r \in Runners |-> IF at[r] = "idle" THEN {} ELSE moved[r] \cup {p}]
    BY DEF WriteBegin, WriteCommit, WriteAbort, Sync, work, LoopIdle
  <2>4. \A q \in Pages : before'[q] = {}
    BY <2>1, <2>2 DEF LoopInv, LoopType, CorpusOK
  <2> QED BY <2>1, <2>3, <2>4
<1>6. LoopCalm'
  BY <1>2, <1>4, <1>5 DEF LoopCalm
<1>7. careful => \/ UNCHANGED <<newer, owed>>
                 \/ newer' = newer \cup {p} /\ owed' = owed \cup {p}
  BY DEF LoopInv, LoopCalm, WriteBegin, WriteCommit, WriteAbort, Sync,
         marks
<1>8. LoopWatched'
  <2>1. \A r \in Runners : Plan(r)' = Plan(r)
    BY <1>2 DEF Plan
  <2> SUFFICES ASSUME careful, faults = 0
               PROVE  cold \/ \A q \in owed' : q \in newer' \/ \E r \in Runners : q \in Plan(r)
    BY <1>2, <1>4, <2>1 DEF LoopWatched
  <2> QED BY <1>7 DEF LoopInv, LoopWatched
<1> QED BY <1>1, <1>3, <1>6, <1>8 DEF LoopInv

(* A page without a vector: never one of a run that nothing moves under. *)
LEMMA PassOverKeeps ==
  ASSUME LoopInv, NEW r \in Runners, NEW p \in Pages, PassOver(r, p)
  PROVE  LoopInv'
<1>1. /\ at[r] = "look" /\ p \in todo[r] \ vector
      /\ todo' = [todo EXCEPT ![r] = @ \ {p}]
      /\ UNCHANGED <<step, careful, exists, vector, owed, writer, writes, newer, cold,
                     before, count, faults, at, moved, after, done>>
  BY DEF PassOver, corpus, marks
<1>2. todo'[r] = todo[r] \ {p} /\ \A q \in Runners \ {r} : todo'[q] = todo[q]
  BY <1>1 DEF LoopInv, LoopType, RunnersOK
<1>3. LoopType'
  <2>1. todo' \in [Runners -> SUBSET Pages]
    BY <1>1 DEF LoopInv, LoopType, RunnersOK
  <2>2. \A q \in Runners : todo'[q] \subseteq exists
    BY <1>2 DEF LoopInv, LoopType, RunnerOK
  <2> QED BY <1>1, <2>1, <2>2 DEF LoopInv, LoopType, CorpusOK, RunnersOK, RunnerOK
<1>4. ~careful
  BY <1>1 DEF LoopInv, LoopType, RunnerOK, LoopCalm
<1>5. LoopHeld'
  BY <1>1, <1>2 DEF LoopInv, LoopHeld
<1> QED BY <1>1, <1>3, <1>4, <1>5 DEF LoopInv, LoopCalm, LoopWatched

(* What has been looked at stays on the plan of the run: an edge moves the
   watermark past nothing else. *)
LEMMA LookKeeps ==
  ASSUME LoopInv, NEW r \in Runners, NEW p \in Pages, NEW b \in BOOLEAN, Look(r, p, b)
  PROVE  LoopInv'
<1>1. /\ at[r] = "look" /\ p \in todo[r] /\ owed' \subseteq owed
      /\ todo' = [todo EXCEPT ![r] = @ \ {p}]
      /\ done' = [done EXCEPT ![r] = [pages |-> @.pages \cup {p}, proposed |-> @.proposed \/ b]]
      /\ UNCHANGED <<step, careful, exists, vector, writer, writes, count, faults, at, moved, after>>
  BY DEF Look
<1>2. \/ UNCHANGED <<newer, cold, before>>
      \/ /\ newer' = {} /\ cold' = FALSE
         /\ before' = [q \in Pages |-> IF writer[q] THEN before[q] \cup {"mark"} ELSE before[q]]
  BY DEF Look
<1>3. /\ todo'[r] = todo[r] \ {p} /\ done'[r].pages = done[r].pages \cup {p}
      /\ \A q \in Runners \ {r} : todo'[q] = todo[q] /\ done'[q] = done[q]
  BY <1>1 DEF LoopInv, LoopType, RunnersOK
<1>4. LoopType'
  <2>1. CorpusOK'
    BY <1>1, <1>2 DEF LoopInv, LoopType, CorpusOK
  <2>2. todo' \in [Runners -> SUBSET Pages]
    BY <1>1 DEF LoopInv, LoopType, RunnersOK
  <2>3. done' \in [Runners -> [pages : SUBSET Pages, proposed : BOOLEAN]]
    <3>1. done[r] \in [pages : SUBSET Pages, proposed : BOOLEAN]
      BY DEF LoopInv, LoopType, RunnersOK
    <3>2. [pages |-> done[r].pages \cup {p}, proposed |-> done[r].proposed \/ b]
             \in [pages : SUBSET Pages, proposed : BOOLEAN]
      BY <3>1
    <3> QED BY <1>1, <3>2 DEF LoopInv, LoopType, RunnersOK
  <2>4. \A q \in Runners : RunnerOK(q)'
    BY <1>1, <1>3 DEF LoopInv, LoopType, RunnerOK
  <2> QED BY <1>1, <2>1, <2>2, <2>3, <2>4 DEF LoopInv, LoopType, RunnersOK
<1>5. LoopCalm'
  <2>1. \A q \in Pages : writer[q] \/ before'[q] = before[q]
    BY <1>2
  <2>2. Steady(r)
    BY <1>1, <1>3, <2>1 DEF Steady
  <2> QED BY <2>2, SteadyCalm DEF LoopInv
<1>6. LoopHeld'
  BY <1>1, <1>3 DEF LoopInv, LoopHeld
<1>7. LoopWatched'
  <2>1. \A q \in Runners : Plan(q)' = Plan(q)
    BY <1>1, <1>3 DEF Plan
  <2>2. newer' \subseteq newer /\ (cold' => cold) /\ owed \subseteq exists
    BY <1>2 DEF LoopInv, LoopType, CorpusOK
  <2> SUFFICES ASSUME careful, faults = 0
               PROVE  /\ \A q \in Runners : at[q] = "rest" => todo'[q] = {}
                      /\ \A q \in Runners : at[q] \in {"look", "rest"} =>
                           newer' \subseteq Plan(q) /\ (cold' => exists \subseteq Plan(q))
                      /\ cold' \/ \A q \in owed' : q \in newer' \/ \E s \in Runners : q \in Plan(s)
    BY <1>1, <2>1 DEF LoopWatched
  <2>3. \A q \in Runners : at[q] = "rest" => todo'[q] = {}
    BY <1>1, <1>3 DEF LoopInv, LoopWatched
  <2>4. \A q \in Runners : at[q] \in {"look", "rest"} =>
           newer' \subseteq Plan(q) /\ (cold' => exists \subseteq Plan(q))
    BY <2>2 DEF LoopInv, LoopWatched
  <2>5. newer \subseteq Plan(r) /\ (cold => exists \subseteq Plan(r))
    BY <1>1 DEF LoopInv, LoopWatched
  <2>6. CASE UNCHANGED <<newer, cold, before>>
    BY <1>1, <2>3, <2>4, <2>6 DEF LoopInv, LoopWatched
  <2>7. CASE newer' = {} /\ cold' = FALSE
    BY <1>1, <2>2, <2>3, <2>4, <2>5 DEF LoopInv, LoopWatched
  <2> QED BY <1>2, <2>6, <2>7
<1> QED BY <1>4, <1>5, <1>6, <1>7 DEF LoopInv

(* A run that has ended has looked at its plan, or failed. *)
LEMMA EndKeeps ==
  ASSUME SlowLoopAssumption, LoopInv, NEW r \in Runners, LoopCommit(r) \/ Die(r)
  PROVE  LoopInv'
<1>1. /\ at[r] # "idle" /\ LoopGoto(r, "idle")
      /\ todo' = [todo EXCEPT ![r] = {}] /\ moved' = [moved EXCEPT ![r] = {}]
      /\ after' = [after EXCEPT ![r] = {}] /\ done' = [done EXCEPT ![r] = Nothing]
      /\ UNCHANGED <<step, careful, exists, vector, writer, writes>>
      /\ newer' \subseteq newer /\ (cold' => cold) /\ cold' \in BOOLEAN
      /\ (newer' = newer /\ cold' = cold) \/ ~cold'
      /\ owed' \subseteq owed
  <2>1. cold \in BOOLEAN
    BY DEF LoopInv, LoopType, CorpusOK
  <2>2. CASE LoopCommit(r)
    <3>1. newer \cap after[r] \subseteq newer
      OBVIOUS
    <3>2. /\ newer' \subseteq newer /\ (cold' => cold) /\ cold' \in BOOLEAN
          /\ (newer' = newer /\ cold' = cold) \/ ~cold'
      BY <2>1, <2>2, <3>1 DEF LoopCommit
    <3>3. /\ at[r] # "idle" /\ Forget(r) /\ owed' \subseteq owed
          /\ UNCHANGED <<step, careful, exists, vector, writer, writes>>
      BY <2>2 DEF LoopCommit
    <3> QED BY <3>2, <3>3 DEF Forget
  <2>3. CASE Die(r)
    <3>1. /\ at[r] # "idle" /\ Forget(r) /\ UNCHANGED <<newer, cold, owed>>
          /\ UNCHANGED <<step, careful, exists, vector, writer, writes>>
      BY <2>3 DEF Die, LoopIdle, corpus, marks
    <3> QED BY <2>1, <3>1 DEF Forget
  <2> QED BY <2>2, <2>3
<1>2. \/ before' = before
      \/ before' = [p \in Pages |-> IF writer[p] /\ r \in before[p]
                                    THEN before[p] \cup {"mark"} ELSE before[p]]
  BY DEF LoopCommit, Die, marks
<1>3. /\ count' \in 0..(SweepEvery - 1)
      /\ faults' \in 0..MaxFaults
      /\ \/ faults' # 0
         \/ /\ at[r] = "rest" /\ owed' = owed \ (done[r].pages \ moved[r]) /\ faults' = faults
  <2>1. count \in Nat /\ (count + 1) % SweepEvery \in 0..(SweepEvery - 1)
    BY DEF LoopInv, LoopType, CorpusOK, SlowLoopAssumption
  <2> QED BY <2>1 DEF LoopInv, LoopType, CorpusOK, SlowLoopAssumption,
                  LoopCommit, Die, Fault, marks
<1>4. at' \in [Runners -> LoopSteps] /\ at'[r] = "idle" /\ \A q \in Runners \ {r} : at'[q] = at[q]
  BY <1>1, AtNext DEF LoopSteps, LoopInv
<1>5. /\ todo'[r] = {} /\ moved'[r] = {} /\ after'[r] = {} /\ done'[r] = Nothing
      /\ \A q \in Runners \ {r} : /\ todo'[q] = todo[q] /\ moved'[q] = moved[q]
                                  /\ after'[q] = after[q] /\ done'[q] = done[q]
  BY <1>1 DEF LoopInv, LoopType, RunnersOK
<1>6. LoopType'
  <2>1. CorpusOK'
    <3>1. before' \in [Pages -> SUBSET (Runners \cup {"mark"})]
      BY <1>2 DEF LoopInv, LoopType, CorpusOK
    <3> QED BY <1>1, <1>3, <3>1 DEF LoopInv, LoopType, CorpusOK
  <2>2. RunnersOK'
    BY <1>1, <1>4 DEF LoopInv, LoopType, RunnersOK, Nothing
  <2>3. \A q \in Runners : RunnerOK(q)'
    BY <1>1, <1>5 DEF LoopInv, LoopType, RunnerOK, Nothing
  <2> QED BY <2>1, <2>2, <2>3 DEF LoopType
<1>7. LoopCalm'
  <2>1. \A p \in Pages : writer[p] \/ before'[p] = before[p]
    BY <1>2
  <2>2. Steady(r)
    BY <1>1, <1>4, <1>5, <2>1 DEF Steady
  <2> QED BY <2>2, SteadyCalm DEF LoopInv
<1>8. LoopHeld'
  BY <1>4, <1>5 DEF LoopInv, LoopHeld
<1>9. LoopWatched'
  <2>1. Plan(r)' = {} /\ \A q \in Runners \ {r} : Plan(q)' = Plan(q)
    BY <1>5 DEF Plan, Nothing
  <2>2. owed \subseteq exists
    BY DEF LoopInv, LoopType, CorpusOK
  <2> SUFFICES ASSUME careful, faults' = 0
               PROVE  /\ \A q \in Runners : at'[q] = "rest" => todo'[q] = {}
                      /\ \A q \in Runners : at'[q] \in {"look", "rest"} =>
                           newer' \subseteq Plan(q)' /\ (cold' => exists \subseteq Plan(q)')
                      /\ cold' \/ \A p \in owed' : p \in newer' \/ \E q \in Runners : p \in Plan(q)'
    BY <1>1 DEF LoopWatched
  <2>3. at[r] = "rest" /\ owed' = owed \ (done[r].pages \ moved[r]) /\ faults = 0
    BY <1>3
  <2>4. moved[r] = {} /\ todo[r] = {} /\ owed' = owed \ Plan(r)
    BY <2>3 DEF LoopInv, LoopCalm, LoopWatched, Plan
  <2>5. newer \subseteq Plan(r) /\ (cold => exists \subseteq Plan(r))
    BY <2>3 DEF LoopInv, LoopWatched
  <2>6. \A q \in Runners : at'[q] = "rest" => todo'[q] = {}
    BY <1>4, <1>5, <2>3 DEF LoopInv, LoopWatched
  <2>7. \A q \in Runners : at'[q] \in {"look", "rest"} =>
           newer' \subseteq Plan(q)' /\ (cold' => exists \subseteq Plan(q)')
    BY <1>1, <1>4, <2>1, <2>3 DEF LoopInv, LoopWatched
  <2>8. ~cold => \A p \in owed : p \in newer \/ \E q \in Runners : p \in Plan(q)
    BY <2>3 DEF LoopInv, LoopWatched
  <2>9. \A p \in owed' : p \in newer' \/ \E q \in Runners : p \in Plan(q)'
    <3> SUFFICES ASSUME NEW p \in owed' PROVE \E q \in Runners : p \in Plan(q)'
      OBVIOUS
    <3>1. p \in owed /\ p \notin Plan(r)
      BY <2>4
    <3>2. ~cold
      BY <2>2, <2>5, <3>1
    <3>3. PICK q \in Runners : p \in Plan(q)
      BY <2>5, <2>8, <3>1, <3>2
    <3> QED BY <2>1, <3>1, <3>3
  <2> QED BY <2>6, <2>7, <2>9
<1> QED BY <1>6, <1>7, <1>8, <1>9 DEF LoopInv

LEMMA LoopStep == SlowLoopAssumption /\ LoopInv /\ [LoopNext]_(loopVars) => LoopInv'
<1> SUFFICES ASSUME SlowLoopAssumption, LoopInv, [LoopNext]_(loopVars)
             PROVE  LoopInv'
  OBVIOUS
<1>1. CASE UNCHANGED loopVars
  BY <1>1 DEF LoopInv, LoopType, CorpusOK, RunnersOK, RunnerOK, LoopHeld, LoopCalm, LoopWatched,
              Plan, loopVars, corpus, marks, work
<1>2. ASSUME NEW p \in Pages,
             \/ WriteBegin(p) \/ WriteCommit(p) \/ WriteAbort(p) \/ Sync(p)
      PROVE  LoopInv'
  BY <1>2, PageKeeps
<1>3. ASSUME NEW r \in Runners,
             \/ LoopStart(r) \/ Progress(r) \/ Skip(r) \/ Raise(r) \/ Die(r)
      PROVE  LoopInv'
  <2>1. CASE LoopStart(r)
    BY <2>1, RunStartKeeps
  <2>2. CASE Progress(r)
    <3>1. CASE List(r)
      BY <3>1, ListKeeps
    <3>2. CASE StepEnd(r)
      BY <3>2, StepEndKeeps
    <3>3. CASE LoopCommit(r)
      BY <3>3, EndKeeps
    <3>4. CASE \E p \in Pages : PassOver(r, p) \/ \E b \in BOOLEAN : Look(r, p, b)
      BY <3>4, PassOverKeeps, LookKeeps
    <3> QED BY <2>2, <3>1, <3>2, <3>3, <3>4 DEF Progress
  <2>3. CASE Skip(r) \/ Raise(r)
    BY <2>3, AsideKeeps
  <2>4. CASE Die(r)
    BY <2>4, EndKeeps
  <2> QED BY <1>3, <2>1, <2>2, <2>3, <2>4
<1> QED BY <1>1, <1>2, <1>3 DEF LoopNext

(* The state of the loop is well formed whatever runs overlap, and nothing *)
(* is known of a page before its revision is committed.                    *)
THEOREM LoopTypeCorrect ==
  ASSUME SlowLoopAssumption
  PROVE  LoopSpec => []LoopTypeOK
<1>1. LoopInit => LoopInv
  BY LoopBegin
<1>2. LoopInv /\ [LoopNext]_(loopVars) => LoopInv'
  BY LoopStep
<1>3. LoopInv => LoopTypeOK
  BY LoopTyped DEF LoopInv
<1> QED BY <1>1, <1>2, <1>3, PTL DEF LoopSpec

(* However many runs there are and whatever they look at, when writes and  *)
(* syncs stay out of the runs and none fails, a page that the step has not *)
(* looked at is newer than the watermark whenever no run is under way: the *)
(* next incremental listing has it, and the sweeps find nothing to add     *)
(* (pages_changed_since and concept_pages_changed_since of repository.py). *)
THEOREM NothingIsMissed ==
  ASSUME SlowLoopAssumption
  PROVE  LoopSpec => []NothingMissed
<1>1. LoopInit => LoopInv
  BY LoopBegin
<1>2. LoopInv /\ [LoopNext]_(loopVars) => LoopInv'
  BY LoopStep
<1>3. LoopInv => NothingMissed
  <2> SUFFICES ASSUME LoopInv, careful, faults = 0, \A r \in Runners : at[r] = "idle", ~cold
               PROVE  owed \subseteq newer
    BY DEF NothingMissed, LoopIdle
  <2>1. \A r \in Runners : Plan(r) = {}
    BY DEF LoopInv, LoopHeld, Plan, Nothing
  <2> QED BY <2>1 DEF LoopInv, LoopWatched
<1> QED BY <1>1, <1>2, <1>3, PTL DEF LoopSpec
=============================================================================
