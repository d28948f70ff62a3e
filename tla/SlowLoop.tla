------------------------------ MODULE SlowLoop ------------------------------
(***************************************************************************)
(* Which pages a curate run looks at.                                      *)
(*                                                                         *)
(* Extraction (curate/extract.py) and contradiction candidates             *)
(* (curate/contradict.py) list the pages changed since a watermark, and    *)
(* all of them when there is none or the number of runs divides by         *)
(* SweepEvery.  The watermark of "edges" is the time at which the newest   *)
(* extracted edge was written to the graph, inside a run and whatever      *)
(* becomes of it; that of "candidates" the newest signal's created_at,     *)
(* which is the start of the run's transaction and is seen once the run    *)
(* commits.  A revision's time is the start of its own transaction.        *)
(*                                                                         *)
(* Times only meet in comparisons with the watermark, so the model keeps   *)
(* the comparisons: newer is what an incremental listing returns.          *)
(***************************************************************************)
EXTENDS Naturals, FiniteSets

CONSTANTS
  Pages,       \* pages of the kinds the step looks at
  First,       \* the pages there are at the start
  Steps,       \* "edges", "candidates"
  Runners,     \* processes that run curate
  SweepEvery,  \* full_sweep_every
  MaxWrites,   \* bound: page writes
  MaxFaults    \* bound: failures

ASSUME SlowLoopAssumption ==
  /\ First \subseteq Pages /\ Steps \subseteq {"edges", "candidates"}
  /\ SweepEvery \in Nat \ {0} /\ MaxWrites \in Nat /\ MaxFaults \in Nat
  /\ "mark" \notin Runners

VARIABLES
  step, careful,  \* the step followed; writers and sync wait for runs to end
  exists,         \* committed pages
  vector,         \* pages with a vector in Qdrant
  newer,          \* pages whose revision is newer than the watermark
  cold,           \* there is no watermark
  count,          \* committed runs, modulo SweepEvery
  owed,           \* pages whose current text the step has not looked at
  writer,         \* writer[p]: p is being written
  before,         \* before[p]: the runs that began, and the mark if the watermark
                  \* moved, while p was being written
  writes, faults,
  at, todo,
  moved,          \* moved[r]: pages committed since r listed
  after,          \* after[r]: pages whose newest write began after r
  done            \* done[r]: pages r looked at, and whether it proposed anything

work == <<at, todo, moved, after, done>>
corpus == <<exists, vector, owed, writer, writes>>
marks == <<newer, cold, before, count>>
loopVars == <<step, careful, corpus, marks, faults, work>>

LoopIdle(r) == at[r] = "idle"
Nothing == [pages |-> {}, proposed |-> FALSE]

LoopInit ==
  /\ step \in Steps /\ careful \in BOOLEAN
  /\ exists = First /\ vector = First /\ newer = First /\ owed = First
  /\ cold = TRUE /\ count = 0 /\ writes = 0 /\ faults = 0
  /\ writer = [p \in Pages |-> FALSE] /\ before = [p \in Pages |-> {}]
  /\ at = [r \in Runners |-> "idle"]
  /\ todo = [r \in Runners |-> {}] /\ moved = [r \in Runners |-> {}]
  /\ after = [r \in Runners |-> {}]
  /\ done = [r \in Runners |-> Nothing]

LoopGoto(r, s) == at' = [at EXCEPT ![r] = s]
Fault == faults < MaxFaults /\ faults' = faults + 1
Quiet == careful => \A r \in Runners : LoopIdle(r)

-----------------------------------------------------------------------------
(* Pages and their vectors.                                                *)

WriteBegin(p) ==
  /\ Quiet /\ ~writer[p] /\ writes < MaxWrites
  /\ writer' = [writer EXCEPT ![p] = TRUE]
  /\ before' = [before EXCEPT ![p] = {}]
  /\ writes' = writes + 1
  /\ UNCHANGED <<step, careful, exists, vector, owed, newer, cold, count, faults, work>>

(* The new revision counts as newer unless the watermark has passed the    *)
(* start of its transaction.                                               *)
WriteCommit(p) ==
  /\ writer[p]
  /\ writer' = [writer EXCEPT ![p] = FALSE]
  /\ exists' = exists \cup {p} /\ owed' = owed \cup {p}
  /\ newer' = IF "mark" \in before[p] THEN newer \ {p} ELSE newer \cup {p}
  /\ before' = [before EXCEPT ![p] = {}]
  /\ moved' = [r \in Runners |-> IF LoopIdle(r) THEN {} ELSE moved[r] \cup {p}]
  /\ after' = [r \in Runners |-> IF LoopIdle(r) THEN {}
                                 ELSE IF r \in before[p] THEN after[r] \ {p}
                                 ELSE after[r] \cup {p}]
  /\ UNCHANGED <<step, careful, vector, cold, count, writes, faults,
                 at, todo, done>>

WriteAbort(p) ==
  /\ writer[p] /\ writer' = [writer EXCEPT ![p] = FALSE]
  /\ before' = [before EXCEPT ![p] = {}]
  /\ UNCHANGED <<step, careful, exists, vector, owed, writes, newer, cold, count, faults, work>>

(* Mutant of Sync: a page is embedded before it is committed. *)
SyncEarly(p) ==
  /\ Quiet /\ p \notin vector
  /\ vector' = vector \cup {p}
  /\ UNCHANGED <<step, careful, exists, owed, writer, writes, marks, faults, work>>
(* sync_pending embeds the page: IndexSync. *)
Sync(p) ==
  /\ Quiet /\ p \in exists \ vector
  /\ vector' = vector \cup {p}
  /\ UNCHANGED <<step, careful, exists, owed, writer, writes, marks, faults, work>>

-----------------------------------------------------------------------------
(* A run.                                                                  *)

(* open_analysis_run: the transaction and its row begin. *)
LoopStart(r) ==
  /\ LoopIdle(r)
  /\ careful => vector = exists /\ \A p \in Pages : ~writer[p]
  /\ before' = [p \in Pages |-> IF writer[p] THEN before[p] \cup {r} ELSE before[p]]
  /\ after' = [after EXCEPT ![r] = {}]
  /\ LoopGoto(r, "list")
  /\ UNCHANGED <<step, careful, corpus, newer, cold, count, faults, todo, moved, done>>

(* Mutant of SweepDue: only a cold start sweeps. *)
SweepOnlyCold(n) == cold
SweepDue(n) == cold \/ n % SweepEvery = 0

(* Mutant of Listed: the incremental listing has a limit. *)
ListedLimit(sweep) ==
  IF sweep THEN exists ELSE IF newer = {} THEN {} ELSE {CHOOSE p \in newer : TRUE}
(* pages_changed_since, concept_pages_changed_since *)
Listed(sweep) == IF sweep THEN exists ELSE newer

(* The run counts its own row, uncommitted as it is. *)
List(r) ==
  /\ at[r] = "list"
  /\ todo' = [todo EXCEPT ![r] = Listed(SweepDue(count + 1))]
  /\ moved' = [moved EXCEPT ![r] = {}]
  /\ LoopGoto(r, "look")
  /\ UNCHANGED <<step, careful, corpus, marks, faults, after, done>>

(* Memgraph or Qdrant cannot be reached: the run goes on without the step. *)
Skip(r) ==
  /\ at[r] = "list" /\ Fault /\ LoopGoto(r, "rest")
  /\ UNCHANGED <<step, careful, corpus, marks, todo, moved, after, done>>

(* nearest_neighbours finds no point: the page is passed over. *)
PassOver(r, p) ==
  /\ at[r] = "look" /\ p \in todo[r] \ vector
  /\ todo' = [todo EXCEPT ![r] = @ \ {p}]
  /\ UNCHANGED <<step, careful, corpus, marks, faults, at, moved, after, done>>

(* The page is labelled, with the revision it had when it was listed, and  *)
(* nothing comes of it, or an edge or a signal does.  An edge is in the    *)
(* graph at once.                                                          *)
Look(r, p, proposes) ==
  /\ at[r] = "look" /\ p \in todo[r] \cap vector
  /\ todo' = [todo EXCEPT ![r] = @ \ {p}]
  /\ done' = [done EXCEPT ![r] = [pages |-> @.pages \cup {p},
                                  proposed |-> @.proposed \/ proposes]]
  /\ owed' = IF step = "edges" /\ p \notin moved[r] THEN owed \ {p} ELSE owed
  /\ IF step = "edges" /\ proposes
     THEN /\ newer' = {} /\ cold' = FALSE
          /\ before' = [q \in Pages |-> IF writer[q] THEN before[q] \cup {"mark"} ELSE before[q]]
     ELSE UNCHANGED <<newer, cold, before>>
  /\ UNCHANGED <<step, careful, exists, vector, writer, writes, count, faults,
                 at, moved, after>>

(* Any exception, of the model, a store or a neighbour's row that has gone *)
(* (extract.py:315), ends the step but not the run.                        *)
Raise(r) ==
  /\ at[r] = "look" /\ Fault /\ LoopGoto(r, "rest")
  /\ UNCHANGED <<step, careful, corpus, marks, todo, moved, after, done>>

StepEnd(r) ==
  /\ at[r] = "look" /\ todo[r] = {} /\ LoopGoto(r, "rest")
  /\ UNCHANGED <<step, careful, corpus, marks, faults, todo, moved, after, done>>

Forget(r) ==
  /\ LoopGoto(r, "idle")
  /\ todo' = [todo EXCEPT ![r] = {}] /\ moved' = [moved EXCEPT ![r] = {}]
  /\ after' = [after EXCEPT ![r] = {}] /\ done' = [done EXCEPT ![r] = Nothing]

(* Signals, and with them their watermark, are seen from here on. *)
LoopCommit(r) ==
  /\ at[r] = "rest" /\ Forget(r)
  /\ count' = (count + 1) % SweepEvery
  /\ owed' = owed \ (done[r].pages \ moved[r])
  /\ IF step = "candidates" /\ done[r].proposed
     THEN /\ newer' = newer \cap after[r] /\ cold' = FALSE
          /\ before' = [p \in Pages |-> IF writer[p] /\ r \in before[p]
                                        THEN before[p] \cup {"mark"} ELSE before[p]]
     ELSE UNCHANGED <<newer, cold, before>>
  /\ UNCHANGED <<step, careful, exists, vector, writer, writes, faults>>

(* The process dies or the transaction fails: the run was never there, but *)
(* the edges it wrote are.                                                 *)
Die(r) ==
  /\ ~LoopIdle(r) /\ Fault /\ Forget(r)
  /\ UNCHANGED <<step, careful, corpus, marks>>

Progress(r) == \/ List(r) \/ StepEnd(r) \/ LoopCommit(r)
               \/ \E p \in Pages : PassOver(r, p) \/ \E b \in BOOLEAN : Look(r, p, b)

LoopNext ==
  \/ \E p \in Pages : WriteBegin(p) \/ WriteCommit(p) \/ WriteAbort(p) \/ Sync(p)
  \/ \E r \in Runners : LoopStart(r) \/ Progress(r) \/ Skip(r) \/ Raise(r) \/ Die(r)

LoopSpec == LoopInit /\ [][LoopNext]_loopVars

(* The timer starts a run again and again, sync drains, and what has begun *)
(* goes on.                                                                *)
ScheduledSpec ==
  /\ LoopSpec
  /\ \A r \in Runners : WF_loopVars(LoopStart(r)) /\ WF_loopVars(Progress(r))
  /\ \A p \in Pages : WF_loopVars(WriteCommit(p) \/ WriteAbort(p)) /\ WF_loopVars(Sync(p))

-----------------------------------------------------------------------------
(* The type invariant; nothing is known of a page before it is committed. *)
LoopTypeOK ==
  /\ step \in Steps /\ careful \in BOOLEAN /\ cold \in BOOLEAN
  /\ vector \subseteq exists /\ exists \subseteq Pages
  /\ newer \subseteq exists /\ owed \subseteq exists
  /\ count \in 0..(SweepEvery - 1) /\ writes \in 0..MaxWrites /\ faults \in 0..MaxFaults
  /\ writer \in [Pages -> BOOLEAN] /\ before \in [Pages -> SUBSET (Runners \cup {"mark"})]
  /\ at \in [Runners -> {"idle", "list", "look", "rest"}]
  /\ \A r \in Runners : todo[r] \cup moved[r] \cup after[r] \cup done[r].pages \subseteq exists

(* An operator who writes and syncs only between runs, none of which fails,  *)
(* has no need of the sweeps: what was not looked at is newer than the       *)
(* watermark, so that the next run lists it (repository.py:769, 1611).       *)
NothingMissed ==
  careful /\ faults = 0 /\ (\A r \in Runners : LoopIdle(r)) => cold \/ owed \subseteq newer

(* Each page that has changed is looked at in the end, although the          *)
(* watermark passes over pages that are written while a run goes on, that    *)
(* have no vector yet, or that come after a failure in the list.             *)
EventuallyLooked == \A p \in Pages : p \in owed ~> p \notin owed
=============================================================================
