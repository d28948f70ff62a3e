-------------------------- MODULE CurationSignals --------------------------
(***************************************************************************)
(* Curation signals and the concept pages they are about.                  *)
(*                                                                         *)
(* `curate run` inserts signals in one transaction (curate/run.py); a      *)
(* curator synthesizes a draft from one (curate/synth.py), promotes the    *)
(* page, which closes a signal (trace/promote.py, curate/lifecycle.py), or *)
(* gives a verdict on one (curate/resolve.py).  Each command reads without *)
(* a lock what it decides on; its UPDATEs lock the page row, then the      *)
(* signal row, until it commits.                                           *)
(*                                                                         *)
(* A signal's key is its kind and what it is on: a concept, or for a       *)
(* contradiction candidate a pair of concepts.  "coverage" stands for the  *)
(* kinds that name a concept to write, "grounding" for those about a       *)
(* written page.  What the generators and the model find is a choice.      *)
(***************************************************************************)
EXTENDS Naturals, FiniteSets

CONSTANTS
  Names,      \* concept slugs
  Keys,       \* the keys that signals can have
  MaxPerKey,  \* bound: signals inserted under one key
  Procs,      \* processes that run commands
  Mode,       \* curation.mode
  RunsAlone,  \* two curate runs never overlap
  Faults      \* "abort": a command fails or dies before its commit; "repeat":
              \* the model's answer names a neighbour twice

ASSUME CurationAssumption ==
  /\ Keys \subseteq
       [kind : {"coverage", "grounding"}, on : {{n} : n \in Names}]
         \cup [kind : {"contradiction"}, on : SUBSET Names]
  /\ MaxPerKey \in Nat
  /\ Mode \in {"manual", "semi-auto", "auto"}
  /\ RunsAlone \in BOOLEAN
  /\ Faults \subseteq {"abort", "repeat"}

Signals == Keys \X (1..MaxPerKey)
Kind(s) == s[1].kind
On(s) == s[1].on
NoSignal == <<>>

VARIABLES
  page,         \* page[n]: "none" or the status of the concept page
  status,       \* status[s]: "none" until its insertion is committed
  contradicts,  \* the pairs joined by a curator's CONTRADICTS edge
  pc,           \* per process: its step
  job,          \* per process: command, concept, signal, what it read and writes
  known,        \* per process: keys that the run has read as proposed before
  found,        \* per process: candidates of the run's generators
  new           \* per process: signals inserted and not committed

vars == <<page, status, contradicts, pc, job, known, found, new>>
run == <<known, found, new>>

NoJob == [cmd |-> "none", on |-> {}, signal |-> NoSignal, was |-> "none", to |-> "none"]

Idle(p) == pc[p] = "idle"
MayRun(p) == Idle(p) /\ (RunsAlone => \A q \in Procs : job[q].cmd # "run")

(* Only these kinds name a concept to synthesize (_target_name); what is
   committed is all another connection sees. *)
Draftable(s) == Kind(s) \in {"coverage", "grounding"}
Visible(s) == status[s] # "none"
PageOf(s) == CHOOSE n \in Names : On(s) = {n}

Init ==
  /\ page \in [Names -> {"none", "draft", "canonical"}]
  /\ status = [s \in Signals |-> "none"]
  /\ contradicts = {}
  /\ pc = [p \in Procs |-> "idle"]
  /\ job = [p \in Procs |-> NoJob]
  /\ known = [p \in Procs |-> {}]
  /\ found = [p \in Procs |-> {}]
  /\ new = [p \in Procs |-> {}]

Release(p) ==
  /\ pc' = [pc EXCEPT ![p] = "idle"]
  /\ job' = [job EXCEPT ![p] = NoJob]
  /\ known' = [known EXCEPT ![p] = {}]
  /\ found' = [found EXCEPT ![p] = {}]
  /\ new' = [new EXCEPT ![p] = {}]

Goto(p, step) == pc' = [pc EXCEPT ![p] = step]

-----------------------------------------------------------------------------
(* Row locks.  A page row is held from its write, a signal row from its    *)
(* status change, both until the transaction ends.                         *)

HoldsPage(p, n) == job[p].on = {n} /\ pc[p] \in {"find", "signal", "commit"}

(* Mutant of HoldsSignal: the signal is read FOR UPDATE. *)
HoldsSignalFromRead(p, s) ==
  job[p].signal = s /\ (pc[p] = "commit" \/ job[p].cmd = "synth")
HoldsSignal(p, s) == job[p].signal = s /\ pc[p] = "commit"

PageFree(p, n) == \A q \in Procs \ {p} : ~HoldsPage(q, n)
SignalFree(p, s) == \A q \in Procs \ {p} : ~HoldsSignal(q, s)

-----------------------------------------------------------------------------
(* curate run: one transaction from the first read to the commit.          *)

(* Mutant of ProposedKeys: only an open candidate blocks a new one. *)
OpenProposed ==
  {k \in Keys : k.kind = "contradiction"
                  /\ \E i \in 1..MaxPerKey : status[<<k, i>>] = "open"}

(* signal_pair_slugs: a candidate in any status blocks its pair. *)
ProposedKeys ==
  {k \in Keys : k.kind = "contradiction"
                  /\ \E i \in 1..MaxPerKey : Visible(<<k, i>>)}

(* Mutant of OpenKeys: a signal being worked on is looked up, not an open one. *)
BusyKeys ==
  {k \in Keys : \E i \in 1..MaxPerKey : status[<<k, i>>] = "in_progress"}

(* open_signal_keys: a settled signal does not block its key. *)
OpenKeys == {k \in Keys : \E i \in 1..MaxPerKey : status[<<k, i>>] = "open"}

Unused(k) == {i \in 1..MaxPerKey :
                ~Visible(<<k, i>>) /\ \A q \in Procs : <<k, i>> \notin new[q]}
Room == {k \in Keys : Unused(k) # {}}

(* The next m unused signals under each of the keys. *)
Fresh(keys, m) ==
  {s \in keys \X (1..MaxPerKey) :
     /\ s[2] \in Unused(s[1])
     /\ Cardinality({i \in Unused(s[1]) : i < s[2]}) < m}

(* The generators collect candidates, thin grounding and dangling concepts
   among the written pages; then the pairs proposed before are read. *)
RunStart(p) ==
  /\ MayRun(p)
  /\ \E keys \in SUBSET {k \in Room :
         \/ k.kind = "coverage"
         \/ k.kind = "grounding" /\ \E n \in k.on : page[n] # "none"} :
       found' = [found EXCEPT ![p] = keys]
  /\ known' = [known EXCEPT ![p] = ProposedKeys]
  /\ job' = [job EXCEPT ![p].cmd = "run"]
  /\ Goto(p, "propose")
  /\ UNCHANGED <<page, status, contradicts, new>>

(* from_contradiction_candidates, for pairs that no edge joins.  A pair that
   the model's answer names twice is inserted twice. *)
RunPropose(p) ==
  /\ pc[p] = "propose"
  /\ \E keys \in SUBSET {k \in Room \ known[p] :
         /\ k.kind = "contradiction" /\ k.on \notin contradicts
         /\ \A n \in k.on : page[n] # "none"} :
     \E twice \in SUBSET keys :
       /\ twice # {} => "repeat" \in Faults
       /\ new' = [new EXCEPT ![p] = Fresh(keys, 1) \cup Fresh(twice, 2)]
  /\ Goto(p, "insert")
  /\ UNCHANGED <<page, status, contradicts, job, known, found>>

RunInsert(p) ==
  /\ pc[p] = "insert"
  /\ new' = [new EXCEPT ![p] = @ \cup Fresh(found[p] \ OpenKeys, 1)]
  /\ Goto(p, "autocurate")
  /\ UNCHANGED <<page, status, contradicts, job, known, found>>

(* autocurate: each draft, and each promotion of one, is a transaction on a
   connection of its own, in which the run's signals are looked up. *)
RunAutocurate(p) ==
  /\ pc[p] = "autocurate"
  /\ \E drafts \in SUBSET {s \in new[p] :
          Mode # "manual" /\ Draftable(s) /\ Visible(s) /\ page[PageOf(s)] = "none"} :
     \E promoted \in SUBSET drafts :
       LET Of(S, n) == \E s \in S : On(s) = {n}
       IN /\ promoted # {} => Mode = "auto"
          /\ page' = [n \in Names |-> IF Of(promoted, n) THEN "canonical"
                                      ELSE IF Of(drafts, n) THEN "draft" ELSE page[n]]
          /\ status' = [s \in Signals |-> IF s \in promoted THEN "addressed"
                                          ELSE IF s \in drafts THEN "in_progress"
                                          ELSE status[s]]
  /\ Goto(p, "publish")
  /\ UNCHANGED <<contradicts, job, run>>

RunCommit(p) ==
  /\ pc[p] = "publish"
  /\ status' = [s \in Signals |-> IF s \in new[p] THEN "open" ELSE status[s]]
  /\ Release(p)
  /\ UNCHANGED <<page, contradicts>>

-----------------------------------------------------------------------------
(* The curator's commands.                                                 *)

(* _synthesize: a draft for the concept, over its page when there is one. *)
Draft(n, s) == [cmd |-> "synth", on |-> {n}, signal |-> s, was |-> page[n], to |-> "draft"]

(* `curate synth` of a signal in any status, or `page synth` of a name. *)
SynthRead(p) ==
  /\ Idle(p)
  /\ \E n \in Names : \E s \in {t \in Signals : Visible(t) /\ Draftable(t) /\ On(t) = {n}}
                                \cup {NoSignal} :
       job' = [job EXCEPT ![p] = Draft(n, s)]
  /\ Goto(p, "page")
  /\ UNCHANGED <<page, status, contradicts, run>>

(* promote: the status is checked on a row that is not locked. *)
PromoteRead(p) ==
  /\ Idle(p)
  /\ \E n \in Names : \E to \in {"canonical", "deprecated"} :
       /\ page[n] = (IF to = "canonical" THEN "draft" ELSE "canonical")
       /\ job' = [job EXCEPT ![p] = [cmd |-> "promote", on |-> {n}, signal |-> NoSignal,
                                     was |-> page[n], to |-> to]]
  /\ Goto(p, "page")
  /\ UNCHANGED <<page, status, contradicts, run>>

(* write_page.  Inserting a page that has come into being violates its key. *)
WritePage(p) ==
  /\ pc[p] = "page"
  /\ \A n \in job[p].on :
       /\ PageFree(p, n)
       /\ IF job[p].was = "none" /\ page[n] # "none" THEN Release(p)
          ELSE /\ Goto(p, IF job[p].cmd = "promote" THEN "find"
                          ELSE IF job[p].signal = NoSignal THEN "commit" ELSE "signal")
               /\ UNCHANGED <<job, run>>
  /\ UNCHANGED <<page, status, contradicts>>

(* address_on_promote: one signal in progress for the page, if any. *)
FindSignal(p) ==
  /\ pc[p] = "find"
  /\ LET mine == {s \in Signals : status[s] = "in_progress" /\ On(s) = job[p].on}
     IN \/ /\ mine = {}
           /\ Goto(p, "commit")
           /\ UNCHANGED job
        \/ /\ \E s \in mine : job' = [job EXCEPT ![p].signal = s]
           /\ Goto(p, "signal")
  /\ UNCHANGED <<page, status, contradicts, run>>

(* resolve: only open and in_progress signals, approval only of a candidate. *)
ResolveRead(p) ==
  /\ Idle(p)
  /\ \E s \in {t \in Signals : status[t] \in {"open", "in_progress"}},
        cmd \in {"approve", "drop"} :
       /\ cmd = "approve" => Kind(s) = "contradiction"
       /\ job' = [job EXCEPT ![p] = [NoJob EXCEPT !.cmd = cmd, !.signal = s]]
       /\ Goto(p, IF cmd = "approve" THEN "link" ELSE "signal")
  /\ UNCHANGED <<page, status, contradicts, run>>

(* Mutant of ResolveLink: an edge that cannot be written is passed over. *)
ResolveMayLink(p) ==
  /\ pc[p] = "link"
  /\ contradicts' \in {contradicts, contradicts \cup {On(job[p].signal)}}
  /\ Goto(p, "signal")
  /\ UNCHANGED <<page, status, job, run>>

(* link commits the edge on its own connection. *)
ResolveLink(p) ==
  /\ pc[p] = "link"
  /\ contradicts' = contradicts \cup {On(job[p].signal)}
  /\ Goto(p, "signal")
  /\ UNCHANGED <<page, status, job, run>>

(* set_signal_status: UPDATE by id, whatever the status has become. *)
SetStatus(p) ==
  /\ pc[p] = "signal"
  /\ SignalFree(p, job[p].signal)
  /\ Goto(p, "commit")
  /\ UNCHANGED <<page, status, contradicts, job, run>>

Outcome(cmd) == IF cmd = "synth" THEN "in_progress"
                ELSE IF cmd = "drop" THEN "dropped" ELSE "addressed"

Commit(p) ==
  /\ pc[p] = "commit"
  /\ page' = [n \in Names |-> IF n \in job[p].on THEN job[p].to ELSE page[n]]
  /\ status' = [s \in Signals |-> IF s = job[p].signal THEN Outcome(job[p].cmd)
                                  ELSE status[s]]
  /\ Release(p)
  /\ UNCHANGED contradicts

(* An error or the process's death rolls back what is not committed; so does
   a synthesis that no chunk matches. *)
Abort(p) ==
  /\ "abort" \in Faults
  /\ ~Idle(p)
  /\ Release(p)
  /\ UNCHANGED <<page, status, contradicts>>

-----------------------------------------------------------------------------
Start(p) == RunStart(p) \/ SynthRead(p) \/ PromoteRead(p) \/ ResolveRead(p)

Proceed(p) ==
  \/ RunPropose(p) \/ RunInsert(p) \/ RunAutocurate(p) \/ RunCommit(p)
  \/ WritePage(p) \/ FindSignal(p) \/ ResolveLink(p) \/ SetStatus(p) \/ Commit(p)

Next == \E p \in Procs : Start(p) \/ Proceed(p) \/ Abort(p)

Spec == Init /\ [][Next]_vars

-----------------------------------------------------------------------------
(* Properties.                                                             *)

Statuses == {"none", "open", "in_progress", "addressed", "dropped"}
PageStatuses == {"none", "draft", "canonical", "deprecated"}
Jobs == [cmd : {"none", "run", "synth", "promote", "approve", "drop"},
         on : SUBSET Names, signal : Signals \cup {NoSignal},
         was : PageStatuses, to : PageStatuses]

(* Every variable keeps its shape, and an idle process holds nothing. *)
TypeOK ==
  /\ page \in [Names -> PageStatuses]
  /\ status \in [Signals -> Statuses]
  /\ contradicts \subseteq SUBSET Names
  /\ pc \in [Procs -> {"idle", "propose", "insert", "autocurate", "publish",
                       "page", "find", "link", "signal", "commit"}]
  /\ job \in [Procs -> Jobs]
  /\ known \in [Procs -> SUBSET Keys] /\ found \in [Procs -> SUBSET Keys]
  /\ new \in [Procs -> SUBSET Signals]
  /\ \A p \in Procs : Idle(p) => job[p] = NoJob /\ new[p] = {}

(* run.py:5, "dedup against currently-open signals": one open signal per key
   of the generators, also with drafts, promotions and verdicts between the run's reads and its
   commit, as long as runs do not overlap. *)
OneOpenPerKey ==
  RunsAlone =>
    \A s, t \in Signals :
      Draftable(s) /\ s[1] = t[1] /\ status[s] = "open" /\ status[t] = "open" => s = t

(* A pair that a run has asked about is not asked about by a later one,
   whatever the answer was: "already carrying a contradiction_candidate signal
   in any status" (Compendium.md:723). *)
PairOnce ==
  [][\A p \in Procs : RunsAlone /\ RunCommit(p) =>
       \A s \in new[p], t \in Signals :
         Kind(s) = "contradiction" /\ s[1] = t[1] => ~Visible(t)]_vars

(* An addressed candidate has its edge (resolve.py:6-10), whatever overlaps or
   fails: the link is committed before the verdict. *)
ApprovedIsLinked ==
  \A s \in Signals :
    Kind(s) = "contradiction" /\ status[s] = "addressed" => On(s) \in contradicts

(* The order page row, then signal row: commands in hand never all wait for a
   row that another of them holds. *)
NoStandstill ==
  \/ \E p \in Procs : Idle(p)
  \/ \E p \in Procs : ENABLED Proceed(p)

(* p cannot take its next step, which would lock a row that q holds. *)
WaitsFor(p, q) ==
  \/ pc[p] = "page" /\ \E n \in job[p].on : HoldsPage(q, n)
  \/ pc[p] = "signal" /\ HoldsSignal(q, job[p].signal)
Waiting(p) == \E q \in Procs \ {p} : WaitsFor(p, q)

(* A page row and a signal row are each held by one command at a time, and who
   waits does so for one that can go on, or that waits, for a signal row, for
   one that can. *)
WaitsEnd ==
  \A p, q \in Procs : p # q =>
    /\ \A n \in Names : ~(HoldsPage(p, n) /\ HoldsPage(q, n))
    /\ \A s \in Signals : ~(HoldsSignal(p, s) /\ HoldsSignal(q, s))
    /\ WaitsFor(p, q) /\ Waiting(q) =>
         \E r \in Procs \ {p, q} : WaitsFor(q, r) /\ ~Waiting(r)
=============================================================================
