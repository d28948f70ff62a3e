------------------------ MODULE SemanticEdgesProofs ------------------------
(***************************************************************************)
(* Proofs about SemanticEdges for every set of nodes, sources and          *)
(* processes, and whatever the regimes let overlap and fail.               *)
(***************************************************************************)
EXTENDS SemanticEdges, TLAPS

Roles == {"none", "link", "run", "rebuild", "backfill"}
Holding == {"check", "reverse", "merge", "row"}
Replaying == {"replay", "check", "reverse", "merge"}
Written == [Edges -> {"none"} \cup By]

(* TypeOK, by stores and by process. *)
StoresOK ==
  /\ regime \in Regimes
  /\ alive \subseteq Nodes /\ node \subseteq Nodes /\ deleting \subseteq Sources
  /\ edge \in [Edges -> {"none", "bare"} \cup By]
  /\ row \in Written
  /\ loose \subseteq Edges /\ wiped \in BOOLEAN

WorkOK ==
  /\ role \in [Procs -> Roles] /\ pc \in [Procs -> Steps]
  /\ job \in [Procs -> Jobs \cup {NoJob}] /\ listed \in [Procs -> SUBSET Nodes]
  /\ left \in [Procs -> 0..RunEdges] /\ todo \in [Procs -> SUBSET Jobs]
  /\ pending \in [Procs -> Written]

ProcOK(p) ==
  /\ pc[p] \in Holding => job[p] \in Jobs
  /\ pc[p] = "idle" <=> role[p] = "none"
  /\ pc[p] = "idle" => pending[p] = NoRows /\ todo[p] = {}

(* An extracted edge has its canonical orientation. *)
Upright(e) == IsSymmetric(e) => e.from < e.to

(* What each command can be at, and what it can have in hand there. *)
LinkFacts(p) == role[p] = "link" =>
  /\ pc[p] \in {"merge", "row", "commit"}
  /\ pc[p] # "commit" => job[p].by = "curator" /\ pending[p] = NoRows

RunFacts(p) == role[p] = "run" =>
  /\ pc[p] \in {"open", "commit"} \cup Holding
  /\ pc[p] \in Holding => job[p].by = "llm"
  /\ \A e \in Edges : pending[p][e] \in {"none", "llm"}

RebuildFacts(p) == role[p] = "rebuild" =>
  pc[p] \in {"project", "rows"} \cup Replaying /\ pending[p] = NoRows

BackfillFacts(p) == role[p] = "backfill" =>
  /\ pc[p] \in {"capture", "commit"}
  /\ pc[p] = "capture" => pending[p] = NoRows

(* What is extracted is upright, wherever it is. *)
UprightStores == \A e \in Edges : edge[e] = "llm" \/ row[e] = "llm" => Upright(e)

UprightWork(p) ==
  /\ \A e \in Edges : pending[p][e] = "llm" => Upright(e)
  /\ \A j \in todo[p] : j.by = "llm" => Upright(j.edge)
  /\ pc[p] \in Holding /\ job[p].by = "llm" => Upright(job[p].edge)

(* What is looked up before a merge is extracted, and both orientations are
   only for what has no direction. *)
LookFacts(p) ==
  /\ pc[p] \in {"check", "reverse"} => job[p].by = "llm"
  /\ pc[p] = "reverse" => IsSymmetric(job[p].edge)

Own(p) == /\ ProcOK(p) /\ UprightWork(p) /\ LookFacts(p)
          /\ LinkFacts(p) /\ RunFacts(p) /\ RebuildFacts(p) /\ BackfillFacts(p)

WorkInv == StoresOK /\ WorkOK /\ UprightStores /\ \A p \in Procs : Own(p)

LEMMA WorkType == WorkInv => TypeOK
BY DEF WorkInv, StoresOK, WorkOK, Own, ProcOK, TypeOK, Roles, Holding, Written

-----------------------------------------------------------------------------
(* Edges, and what a process has after a step.                             *)

LEMMA EdgeFacts ==
  ASSUME NEW e \in Edges
  PROVE  /\ e.type \in Types /\ e.from \in Nodes /\ e.to \in Nodes /\ e.from # e.to
         /\ e.from \in Nat /\ e.to \in Nat
         /\ Reverse(e) \in Edges /\ Reverse(Reverse(e)) = e
         /\ Reverse(e).type = e.type /\ Reverse(e).from = e.to /\ Reverse(e).to = e.from
BY EdgesAssumption DEF EdgesAssumption, Edges, Reverse

LEMMA CanonicalFacts ==
  ASSUME NEW e \in Edges, NEW by \in By
  PROVE  /\ Canonical(e, by) \in Edges
         /\ by = "llm" => Upright(Canonical(e, by))
         /\ by # "llm" \/ Upright(e) => Canonical(e, by) = e
         /\ {Canonical(e, by).from, Canonical(e, by).to} = {e.from, e.to}
<1>1. /\ e.from \in Nat /\ e.to \in Nat /\ e.from # e.to /\ Reverse(e) \in Edges
      /\ Reverse(e).type = e.type /\ Reverse(e).from = e.to /\ Reverse(e).to = e.from
  BY EdgeFacts
<1> QED BY <1>1 DEF Canonical, Upright, IsSymmetric, By

LEMMA JobFacts ==
  /\ \A j \in Jobs : j.edge \in Edges /\ j.by \in By /\ j = [edge |-> j.edge, by |-> j.by]
  /\ \A e \in Edges, by \in By : [edge |-> e, by |-> by] \in Jobs
BY DEF Jobs, By

LEMMA StampFacts ==
  ASSUME NEW old, NEW by \in By
  PROVE  /\ Stamped(old, by) \in By
         /\ Stamped(old, by) = "llm" <=> by = "llm"
         /\ Stamped(old, by) = by \/ (by = "curator" /\ Stamped(old, by) = "relinked")
         /\ old = "none" => Stamped(old, by) = by
BY DEF Stamped, By

LEMMA NoRowsFacts == NoRows \in Written /\ \A e \in Edges : NoRows[e] = "none"
BY DEF NoRows, Written

(* A step of p changes what p has in hand, and nothing of the others. *)
Others(p) == \A q \in Procs \ {p} :
  /\ role'[q] = role[q] /\ pc'[q] = pc[q] /\ job'[q] = job[q] /\ listed'[q] = listed[q]
  /\ left'[q] = left[q] /\ todo'[q] = todo[q] /\ pending'[q] = pending[q]

Moves(p) == Others(p) /\ WorkOK' /\ regime' = regime

After(p, r, s, j, l, n, t, w) ==
  /\ role'[p] = r /\ pc'[p] = s /\ job'[p] = j /\ listed'[p] = l
  /\ left'[p] = n /\ todo'[p] = t /\ pending'[p] = w

Becomes(p, r, s, j, l, n, t, w) ==
  /\ role' = [role EXCEPT ![p] = r] /\ pc' = [pc EXCEPT ![p] = s]
  /\ job' = [job EXCEPT ![p] = j] /\ listed' = [listed EXCEPT ![p] = l]
  /\ left' = [left EXCEPT ![p] = n] /\ todo' = [todo EXCEPT ![p] = t]
  /\ pending' = [pending EXCEPT ![p] = w]

Fits(r, s, j, l, n, t, w) ==
  /\ r \in Roles /\ s \in Steps /\ j \in Jobs \cup {NoJob} /\ l \in SUBSET Nodes
  /\ n \in 0..RunEdges /\ t \in SUBSET Jobs /\ w \in Written

LEMMA Changed ==
  ASSUME WorkInv, NEW p \in Procs, regime' = regime,
         NEW r, NEW s, NEW j, NEW l, NEW n, NEW t, NEW w,
         Becomes(p, r, s, j, l, n, t, w), Fits(r, s, j, l, n, t, w)
  PROVE  Moves(p) /\ After(p, r, s, j, l, n, t, w)
<1> USE DEF Becomes, Fits
<1>1. RunEdges' = RunEdges  BY DEF RunEdges
<1>2. After(p, r, s, j, l, n, t, w)  BY DEF WorkInv, WorkOK, After
<1>3. Others(p)  BY DEF WorkInv, WorkOK, Others
<1>4. WorkOK'
  <2>1. role' \in [Procs -> Roles] /\ pc' \in [Procs -> Steps]  BY DEF WorkInv, WorkOK
  <2>2. job' \in [Procs -> Jobs \cup {NoJob}]  BY DEF WorkInv, WorkOK
  <2>3. listed' \in [Procs -> SUBSET Nodes]  BY DEF WorkInv, WorkOK
  <2>4. left' \in [Procs -> 0..RunEdges]
    <3> DEFINE S == 0..RunEdges
    <3>1. n \in S /\ left \in [Procs -> S]  BY DEF WorkInv, WorkOK
    <3> HIDE DEF S
    <3>2. left' \in [Procs -> S]  BY <3>1
    <3> QED BY <3>2 DEF S
  <2>5. todo' \in [Procs -> SUBSET Jobs]  BY DEF WorkInv, WorkOK
  <2>6. pending' \in [Procs -> Written]
    <3> QED BY DEF WorkInv, WorkOK
  <2> QED BY <1>1, <2>1, <2>2, <2>3, <2>4, <2>5, <2>6 DEF WorkInv, WorkOK
<1> QED BY <1>2, <1>3, <1>4 DEF Moves

(* What does not change is what p has afterwards. *)
LEMMA Same ==
  ASSUME WorkInv, NEW p \in Procs
  PROVE  /\ role = [role EXCEPT ![p] = role[p]] /\ pc = [pc EXCEPT ![p] = pc[p]]
         /\ job = [job EXCEPT ![p] = job[p]] /\ listed = [listed EXCEPT ![p] = listed[p]]
         /\ left = [left EXCEPT ![p] = left[p]] /\ todo = [todo EXCEPT ![p] = todo[p]]
         /\ pending = [pending EXCEPT ![p] = pending[p]]
         /\ role[p] \in Roles /\ pc[p] \in Steps /\ job[p] \in Jobs \cup {NoJob}
         /\ listed[p] \in SUBSET Nodes /\ left[p] \in 0..RunEdges
         /\ todo[p] \in SUBSET Jobs /\ pending[p] \in Written
<1>1. left[p] \in 0..RunEdges /\ left = [left EXCEPT ![p] = left[p]]
  <2> DEFINE S == 0..RunEdges
  <2>1. left \in [Procs -> S]  BY DEF WorkInv, WorkOK
  <2> HIDE DEF S
  <2>2. left[p] \in S /\ left = [left EXCEPT ![p] = left[p]]  BY <2>1
  <2> QED BY <2>2 DEF S
<1> QED BY <1>1 DEF WorkInv, WorkOK

(* Facts of one process outlast the steps of another. *)
LEMMA OthersOwn ==
  ASSUME WorkInv, NEW p \in Procs, Moves(p), StoresOK', UprightStores', Own(p)'
  PROVE  WorkInv'
<1>1. ASSUME NEW q \in Procs \ {p} PROVE Own(q)'
  <2>1. /\ role'[q] = role[q] /\ pc'[q] = pc[q] /\ job'[q] = job[q]
        /\ todo'[q] = todo[q] /\ pending'[q] = pending[q]
    BY DEF Moves, Others
  <2>2. Own(q)  BY DEF WorkInv
  <2>3. \A e : Upright(e)' <=> Upright(e)  BY DEF Upright, IsSymmetric
  <2>4. ProcOK(q)'  BY <2>1, <2>2 DEF Own, ProcOK
  <2>5. UprightWork(q)'  BY <2>1, <2>2, <2>3 DEF Own, UprightWork
  <2>6. LinkFacts(q)' /\ RunFacts(q)' /\ RebuildFacts(q)' /\ BackfillFacts(q)' /\ LookFacts(q)'
    BY <2>1, <2>2 DEF Own, LinkFacts, RunFacts, RebuildFacts, BackfillFacts, LookFacts,
                      IsSymmetric
  <2> QED BY <2>4, <2>5, <2>6 DEF Own
<1> QED BY <1>1 DEF WorkInv, Moves

-----------------------------------------------------------------------------
(* What each action leaves its process with.                               *)

LEMMA RunEdgesType == WorkInv => RunEdges \in Nat
BY EdgesAssumption DEF EdgesAssumption, WorkInv, StoresOK, RunEdges

LEMMA TakeShape ==
  ASSUME WorkInv, NEW p \in Procs, NEW e \in Edges, NEW by \in By, Take(p, e, by)
  PROVE  \E j \in Jobs, s \in Steps :
           /\ j = [edge |-> Canonical(e, by), by |-> by]
           /\ s = IF by = "llm" THEN "check" ELSE "merge"
           /\ job' = [job EXCEPT ![p] = j] /\ pc' = [pc EXCEPT ![p] = s]
<1>1. [edge |-> Canonical(e, by), by |-> by] \in Jobs  BY CanonicalFacts, JobFacts
<1>2. (IF by = "llm" THEN "check" ELSE "merge") \in Steps  BY DEF Steps
<1> QED BY <1>1, <1>2 DEF Take

LEMMA ResumeShape ==
  ASSUME NEW p \in Procs, Resume(p)
  PROVE  \E s \in Steps : /\ s = IF role[p] = "rebuild" THEN "replay" ELSE "open"
                          /\ pc' = [pc EXCEPT ![p] = s]
BY DEF Resume, Steps

LEMMA ReleaseShape ==
  ASSUME WorkInv, NEW p \in Procs, Release(p), regime' = regime
  PROVE  Moves(p) /\ After(p, "none", "idle", NoJob, {}, 0, {}, NoRows)
<1>1. 0 \in 0..RunEdges  BY RunEdgesType
<1>2. Becomes(p, "none", "idle", NoJob, {}, 0, {}, NoRows)  BY DEF Release, Becomes
<1>3. Fits("none", "idle", NoJob, {}, 0, {}, NoRows)
  BY <1>1, NoRowsFacts DEF Fits, Roles, Steps
<1> QED BY <1>2, <1>3, Changed DEF WorkInv

LEMMA LinkShape ==
  ASSUME WorkInv, NEW p \in Procs, Link(p), regime' = regime
  PROVE  /\ MayWrite /\ pc[p] = "idle" /\ UNCHANGED <<stores, history>> /\ Moves(p)
         /\ \E e \in Edges :
              /\ {e.from, e.to} \subseteq alive
              /\ After(p, "link", "merge", [edge |-> e, by |-> "curator"],
                       listed[p], left[p], todo[p], pending[p])
<1>1. /\ MayWrite /\ pc[p] = "idle" /\ role' = [role EXCEPT ![p] = "link"]
      /\ UNCHANGED <<stores, history, listed, left, todo, pending>>
  BY DEF Link
<1>2. PICK e \in Edges : {e.from, e.to} \subseteq alive /\ Take(p, e, "curator")
  BY DEF Link
<1>3. "curator" \in By /\ "link" \in Roles  BY DEF By, Roles
<1>4. PICK j \in Jobs, s \in Steps :
        /\ j = [edge |-> Canonical(e, "curator"), by |-> "curator"] /\ s = "merge"
        /\ job' = [job EXCEPT ![p] = j] /\ pc' = [pc EXCEPT ![p] = s]
  BY <1>2, <1>3, TakeShape
<1>5. Moves(p) /\ After(p, "link", s, j, listed[p], left[p], todo[p], pending[p])
  <2>1. Becomes(p, "link", s, j, listed[p], left[p], todo[p], pending[p])
    BY <1>1, <1>3, <1>4, Same DEF Becomes
  <2>2. Fits("link", s, j, listed[p], left[p], todo[p], pending[p])
    BY <1>1, <1>3, <1>4, Same DEF Fits
  <2> QED BY <2>1, <2>2, Changed
<1>6. Canonical(e, "curator") = e  BY <1>3, CanonicalFacts
<1> QED BY <1>1, <1>2, <1>4, <1>5, <1>6

LEMMA RunStartShape ==
  ASSUME WorkInv, NEW p \in Procs, RunStart(p), regime' = regime
  PROVE  /\ MayWrite /\ pc[p] = "idle" /\ UNCHANGED <<stores, history>> /\ Moves(p)
         /\ After(p, "run", "open", job[p], alive, RunEdges, todo[p], pending[p])
<1>1. WorkOK /\ alive \in SUBSET Nodes  BY DEF WorkInv, StoresOK
<1>2. /\ MayWrite /\ pc[p] = "idle" /\ role' = [role EXCEPT ![p] = "run"]
      /\ pc' = [pc EXCEPT ![p] = "open"] /\ listed' = [listed EXCEPT ![p] = alive]
      /\ left' = [left EXCEPT ![p] = RunEdges]
      /\ UNCHANGED <<stores, history, job, todo, pending>>
  BY DEF RunStart
<1>3. "run" \in Roles /\ "open" \in Steps  BY DEF Roles, Steps
<1>4. RunEdges \in 0..RunEdges  BY RunEdgesType
<1>8. Becomes(p, "run", "open", job[p], alive, RunEdges, todo[p], pending[p])
  BY <1>1, <1>2, <1>3, <1>4, Same DEF Becomes
<1>9. Fits("run", "open", job[p], alive, RunEdges, todo[p], pending[p])
  BY <1>1, <1>2, <1>3, <1>4, Same DEF Fits
<1> QED BY <1>1, <1>2, <1>8, <1>9, Changed

LEMMA RunProposeShape ==
  ASSUME WorkInv, NEW p \in Procs, RunPropose(p), regime' = regime
  PROVE  /\ pc[p] = "open" /\ UNCHANGED <<stores, history>> /\ Moves(p)
         /\ \E e \in Edges :
              /\ {e.from, e.to} \subseteq listed[p] \cup alive
              /\ After(p, role[p], "check", [edge |-> Canonical(e, "llm"), by |-> "llm"],
                       listed[p], left[p] - 1, todo[p], pending[p])
<1>1. /\ pc[p] = "open" /\ left[p] > 0 /\ left' = [left EXCEPT ![p] = left[p] - 1]
      /\ UNCHANGED <<stores, history, role, listed, todo, pending>>
  BY DEF RunPropose
<1>2. PICK e \in Edges :
        /\ \E s \in listed[p] : e \in Touching(s) /\ {e.from, e.to} \ {s} \subseteq alive
        /\ Take(p, e, "llm")
  BY DEF RunPropose
<1>3. "llm" \in By  BY DEF By
<1>4. PICK j \in Jobs, s \in Steps :
        /\ j = [edge |-> Canonical(e, "llm"), by |-> "llm"] /\ s = "check"
        /\ job' = [job EXCEPT ![p] = j] /\ pc' = [pc EXCEPT ![p] = s]
  BY <1>2, <1>3, TakeShape
<1>5. left[p] - 1 \in 0..RunEdges
  <2>1. left[p] \in 0..RunEdges  BY Same
  <2> QED BY <1>1, <2>1, RunEdgesType
<1>6. Moves(p) /\ After(p, role[p], s, j, listed[p], left[p] - 1, todo[p], pending[p])
  <2>1. Becomes(p, role[p], s, j, listed[p], left[p] - 1, todo[p], pending[p])
    BY <1>1, <1>4, <1>5, Same DEF Becomes
  <2>2. Fits(role[p], s, j, listed[p], left[p] - 1, todo[p], pending[p])
    BY <1>1, <1>4, <1>5, Same DEF Fits
  <2> QED BY <2>1, <2>2, Changed
<1> QED BY <1>1, <1>2, <1>4, <1>6

LEMMA RunEndShape ==
  ASSUME WorkInv, NEW p \in Procs, RunEnd(p), regime' = regime
  PROVE  /\ pc[p] = "open" /\ UNCHANGED <<stores, history>> /\ Moves(p)
         /\ After(p, role[p], "commit", job[p], listed[p], left[p], todo[p], pending[p])
<1>1. "commit" \in Steps  BY DEF Steps
<1>8. Becomes(p, role[p], "commit", job[p], listed[p], left[p], todo[p], pending[p])
  BY <1>1, Same DEF Becomes, RunEnd
<1>9. Fits(role[p], "commit", job[p], listed[p], left[p], todo[p], pending[p])
  BY <1>1, Same DEF Fits
<1> QED BY <1>8, <1>9, Changed DEF RunEnd

(* A check gives up, when the edge it looks at is protected, or goes on. *)
LEMMA CheckShape ==
  ASSUME WorkInv, NEW p \in Procs, Check(p) \/ CheckReverse(p), regime' = regime
  PROVE  /\ UNCHANGED <<stores, history>> /\ Moves(p)
         /\ \E s \in Steps :
              /\ After(p, role[p], s, job[p], listed[p], left[p], todo[p], pending[p])
              /\ \/ /\ pc[p] = "check"
                    /\ Protected(job[p].edge)
                    /\ s = IF role[p] = "rebuild" THEN "replay" ELSE "open"
                 \/ /\ pc[p] = "check"
                    /\ ~Protected(job[p].edge)
                    /\ s = IF IsSymmetric(job[p].edge) THEN "reverse" ELSE "merge"
                 \/ /\ pc[p] = "reverse"
                    /\ Protected(Reverse(job[p].edge))
                    /\ s = IF role[p] = "rebuild" THEN "replay" ELSE "open"
                 \/ /\ pc[p] = "reverse"
                    /\ ~Protected(Reverse(job[p].edge))
                    /\ s = "merge"
<1>1. UNCHANGED <<stores, history, role, job, listed, left, todo, pending>>
  BY DEF Check, CheckReverse
<1>2. \E s \in Steps :
        /\ pc' = [pc EXCEPT ![p] = s]
        /\ \/ /\ pc[p] = "check"
              /\ Protected(job[p].edge)
              /\ s = IF role[p] = "rebuild" THEN "replay" ELSE "open"
           \/ /\ pc[p] = "check"
              /\ ~Protected(job[p].edge)
              /\ s = IF IsSymmetric(job[p].edge) THEN "reverse" ELSE "merge"
           \/ /\ pc[p] = "reverse"
              /\ Protected(Reverse(job[p].edge))
              /\ s = IF role[p] = "rebuild" THEN "replay" ELSE "open"
           \/ /\ pc[p] = "reverse"
              /\ ~Protected(Reverse(job[p].edge))
              /\ s = "merge"
  <2>1. CASE Check(p) /\ Protected(job[p].edge)
    BY <2>1, ResumeShape DEF Check
  <2>2. CASE Check(p) /\ ~Protected(job[p].edge)
    BY <2>2 DEF Check, Steps
  <2>3. CASE CheckReverse(p) /\ Protected(Reverse(job[p].edge))
    BY <2>3, ResumeShape DEF CheckReverse
  <2>4. CASE CheckReverse(p) /\ ~Protected(Reverse(job[p].edge))
    BY <2>4 DEF CheckReverse, Steps
  <2> QED BY <2>1, <2>2, <2>3, <2>4
<1>3. PICK s \in Steps :
        /\ pc' = [pc EXCEPT ![p] = s]
        /\ \/ /\ pc[p] = "check"
              /\ Protected(job[p].edge)
              /\ s = IF role[p] = "rebuild" THEN "replay" ELSE "open"
           \/ /\ pc[p] = "check"
              /\ ~Protected(job[p].edge)
              /\ s = IF IsSymmetric(job[p].edge) THEN "reverse" ELSE "merge"
           \/ /\ pc[p] = "reverse"
              /\ Protected(Reverse(job[p].edge))
              /\ s = IF role[p] = "rebuild" THEN "replay" ELSE "open"
           \/ /\ pc[p] = "reverse"
              /\ ~Protected(Reverse(job[p].edge))
              /\ s = "merge"
  BY <1>2
<1>4. /\ Moves(p)
      /\ After(p, role[p], s, job[p], listed[p], left[p], todo[p], pending[p])
  <2>1. Becomes(p, role[p], s, job[p], listed[p], left[p], todo[p], pending[p])
    BY <1>1, <1>3, Same DEF Becomes
  <2>2. Fits(role[p], s, job[p], listed[p], left[p], todo[p], pending[p])
    BY <1>1, <1>3, Same DEF Fits
  <2> QED BY <2>1, <2>2, Changed
<1> QED BY <1>1, <1>3, <1>4

LEMMA MergeShape ==
  ASSUME WorkInv, NEW p \in Procs, Merge(p), regime' = regime
  PROVE  /\ pc[p] = "merge" /\ UNCHANGED <<alive, row, deleting, wiped>> /\ Moves(p)
         /\ node' = node \cup {job[p].edge.from, job[p].edge.to}
         /\ edge' = [edge EXCEPT ![job[p].edge] = Stamped(@, job[p].by)]
         /\ loose' = IF role[p] = "rebuild" THEN loose ELSE loose \cup {job[p].edge}
         /\ After(p, role[p], IF role[p] = "rebuild" THEN "replay" ELSE "row", job[p],
                  listed[p], left[p], todo[p], pending[p])
<1>1. /\ pc[p] = "merge"
      /\ UNCHANGED <<alive, row, deleting, role, job, listed, left, todo, pending, wiped>>
      /\ node' = node \cup {job[p].edge.from, job[p].edge.to}
      /\ edge' = [edge EXCEPT ![job[p].edge] = Stamped(@, job[p].by)]
      /\ loose' = IF role[p] = "rebuild" THEN loose ELSE loose \cup {job[p].edge}
  BY DEF Merge
<1>2. PICK s \in Steps : /\ s = IF role[p] = "rebuild" THEN "replay" ELSE "row"
                         /\ pc' = [pc EXCEPT ![p] = s]
  BY ResumeShape DEF Merge, Steps
<1>3. /\ Moves(p)
      /\ After(p, role[p], s, job[p], listed[p], left[p], todo[p], pending[p])
  <2>1. Becomes(p, role[p], s, job[p], listed[p], left[p], todo[p], pending[p])
    BY <1>1, <1>2, Same DEF Becomes
  <2>2. Fits(role[p], s, job[p], listed[p], left[p], todo[p], pending[p])
    BY <1>1, <1>2, Same DEF Fits
  <2> QED BY <2>1, <2>2, Changed
<1> QED BY <1>1, <1>2, <1>3

LEMMA RecordRowShape ==
  ASSUME WorkInv, NEW p \in Procs, RecordRow(p), regime' = regime
  PROVE  /\ pc[p] = "row" /\ UNCHANGED <<stores, history>> /\ Moves(p)
         /\ After(p, role[p], IF role[p] = "link" THEN "commit" ELSE "open", job[p],
                  listed[p], left[p], todo[p],
                  [pending[p] EXCEPT ![job[p].edge] = job[p].by])
<1>1. WorkOK  BY DEF WorkInv
<1>2. pc[p] = "row" /\ job[p] \in Jobs  BY DEF WorkInv, Own, ProcOK, RecordRow, Holding
<1>3. [pending[p] EXCEPT ![job[p].edge] = job[p].by] \in Written
  <2>1. pending[p] \in Written  BY <1>1, Same
  <2> QED BY <1>2, <2>1, JobFacts DEF Written
<1>4. pending' = [pending EXCEPT ![p] = [pending[p] EXCEPT ![job[p].edge] = job[p].by]]
  BY DEF RecordRow
<1>5. PICK s \in Steps : /\ s = IF role[p] = "link" THEN "commit" ELSE "open"
                         /\ pc' = [pc EXCEPT ![p] = s]
  BY DEF RecordRow, Steps
<1>6. UNCHANGED <<stores, history, role, job, listed, left, todo>>  BY DEF RecordRow
<1>7. /\ Moves(p)
      /\ After(p, role[p], s, job[p], listed[p], left[p], todo[p],
               [pending[p] EXCEPT ![job[p].edge] = job[p].by])
  <2>1. Becomes(p, role[p], s, job[p], listed[p], left[p], todo[p], [pending[p] EXCEPT ![job[p].edge] = job[p].by])
    BY <1>1, <1>3, <1>4, <1>5, <1>6, Same DEF Becomes
  <2>2. Fits(role[p], s, job[p], listed[p], left[p], todo[p], [pending[p] EXCEPT ![job[p].edge] = job[p].by])
    BY <1>1, <1>3, <1>4, <1>5, <1>6, Same DEF Fits
  <2> QED BY <2>1, <2>2, Changed
<1> QED BY <1>2, <1>5, <1>6, <1>7

LEMMA CommitShape ==
  ASSUME WorkInv, NEW p \in Procs, Commit(p), regime' = regime
  PROVE  /\ pc[p] = "commit" /\ UNCHANGED <<alive, node, edge, deleting, wiped>> /\ Moves(p)
         /\ After(p, "none", "idle", NoJob, {}, 0, {}, NoRows)
         /\ row' = [e \in Edges |-> IF pending[p][e] # "none" THEN pending[p][e] ELSE row[e]]
         /\ loose' = {e \in loose : pending[p][e] = "none"}
BY ReleaseShape DEF Commit

LEMMA AbortShape ==
  ASSUME WorkInv, NEW p \in Procs, Abort(p) \/ RebuildCrash(p), regime' = regime
  PROVE  /\ role[p] # "none" /\ UNCHANGED <<stores, history>> /\ Moves(p)
         /\ RebuildCrash(p) => "rebuild" \in Faults /\ role[p] = "rebuild"
         /\ Abort(p) => role[p] # "rebuild"
         /\ After(p, "none", "idle", NoJob, {}, 0, {}, NoRows)
BY ReleaseShape DEF Abort, RebuildCrash

LEMMA BackfillReadShape ==
  ASSUME WorkInv, NEW p \in Procs, BackfillRead(p), regime' = regime
  PROVE  /\ MayWrite /\ pc[p] = "idle" /\ UNCHANGED <<stores, history>> /\ Moves(p)
         /\ After(p, "backfill", "capture", job[p], listed[p], left[p],
                  {[edge |-> e, by |-> Origin(e)] : e \in {f \in Edges : edge[f] # "none"}},
                  pending[p])
<1> DEFINE T == {[edge |-> e, by |-> Origin(e)] : e \in {f \in Edges : edge[f] # "none"}}
<1>1. WorkOK  BY DEF WorkInv
<1>2. T \in SUBSET Jobs
  <2>1. \A e \in Edges : edge[e] # "none" => Origin(e) \in By
    BY DEF WorkInv, StoresOK, Origin, By
  <2> QED BY <2>1, JobFacts
<1>3. "backfill" \in Roles /\ "capture" \in Steps  BY DEF Roles, Steps
<1>4. /\ MayWrite /\ pc[p] = "idle" /\ todo' = [todo EXCEPT ![p] = T]
      /\ role' = [role EXCEPT ![p] = "backfill"] /\ pc' = [pc EXCEPT ![p] = "capture"]
      /\ UNCHANGED <<stores, history, job, listed, left, pending>>
  BY DEF BackfillRead
<1> HIDE DEF T
<1>5. Moves(p) /\ After(p, "backfill", "capture", job[p], listed[p], left[p], T, pending[p])
  <2>1. Becomes(p, "backfill", "capture", job[p], listed[p], left[p], T, pending[p])
    BY <1>1, <1>2, <1>3, <1>4, Same DEF Becomes
  <2>2. Fits("backfill", "capture", job[p], listed[p], left[p], T, pending[p])
    BY <1>1, <1>2, <1>3, <1>4, Same DEF Fits
  <2> QED BY <2>1, <2>2, Changed
<1> QED BY <1>4, <1>5 DEF T

Captured(p) ==
  [e \in Edges |-> IF \E by \in By : [edge |-> e, by |-> by] \in todo[p]
                   THEN CHOOSE by \in By : [edge |-> e, by |-> by] \in todo[p]
                   ELSE "none"]

LEMMA CapturedFacts ==
  ASSUME NEW p \in Procs, NEW e \in Edges, Captured(p)[e] # "none"
  PROVE  Captured(p)[e] \in By /\ [edge |-> e, by |-> Captured(p)[e]] \in todo[p]
BY DEF Captured

LEMMA BackfillRowsShape ==
  ASSUME WorkInv, NEW p \in Procs, BackfillRows(p), regime' = regime
  PROVE  /\ pc[p] = "capture" /\ UNCHANGED <<stores, history>> /\ Moves(p)
         /\ After(p, role[p], "commit", job[p], listed[p], left[p], todo[p], Captured(p))
<1>1. Captured(p) \in Written
  <2>1. \A e \in Edges : Captured(p)[e] \in {"none"} \cup By  BY CapturedFacts
  <2> QED BY <2>1 DEF Captured, Written
<1>2. "commit" \in Steps  BY DEF Steps
<1>3. /\ pc[p] = "capture" /\ pending' = [pending EXCEPT ![p] = Captured(p)]
      /\ pc' = [pc EXCEPT ![p] = "commit"]
      /\ UNCHANGED <<stores, history, role, job, listed, left, todo>>
  BY DEF BackfillRows, Captured
<1>8. Becomes(p, role[p], "commit", job[p], listed[p], left[p], todo[p], Captured(p))
  BY <1>1, <1>2, <1>3, Same DEF Becomes
<1>9. Fits(role[p], "commit", job[p], listed[p], left[p], todo[p], Captured(p))
  BY <1>1, <1>2, <1>3, Same DEF Fits
<1> QED BY <1>3, <1>8, <1>9, Changed

LEMMA RebuildDropShape ==
  ASSUME WorkInv, NEW p \in Procs, RebuildDrop(p), regime' = regime
  PROVE  /\ MayRebuild /\ pc[p] = "idle" /\ UNCHANGED <<alive, row, deleting, loose>>
         /\ Moves(p) /\ node' = {} /\ edge' = NoRows /\ wiped' = TRUE
         /\ After(p, "rebuild", "project", job[p], listed[p], left[p], todo[p], pending[p])
<1>1. "rebuild" \in Roles /\ "project" \in Steps  BY DEF Roles, Steps
<1>8. Becomes(p, "rebuild", "project", job[p], listed[p], left[p], todo[p], pending[p])
  BY <1>1, Same DEF Becomes, RebuildDrop
<1>9. Fits("rebuild", "project", job[p], listed[p], left[p], todo[p], pending[p])
  BY <1>1, Same DEF Fits
<1> QED BY <1>8, <1>9, Changed DEF RebuildDrop

LEMMA RebuildProjectShape ==
  ASSUME WorkInv, NEW p \in Procs, RebuildProject(p), regime' = regime
  PROVE  /\ pc[p] = "project" /\ UNCHANGED <<alive, edge, row, deleting, history>>
         /\ Moves(p) /\ node' = node \cup alive
         /\ After(p, role[p], "rows", job[p], listed[p], left[p], todo[p], pending[p])
<1>1. "rows" \in Steps  BY DEF Steps
<1>8. Becomes(p, role[p], "rows", job[p], listed[p], left[p], todo[p], pending[p])
  BY <1>1, Same DEF Becomes, RebuildProject
<1>9. Fits(role[p], "rows", job[p], listed[p], left[p], todo[p], pending[p])
  BY <1>1, Same DEF Fits
<1> QED BY <1>8, <1>9, Changed DEF RebuildProject

LEMMA RebuildRowsShape ==
  ASSUME WorkInv, NEW p \in Procs, RebuildRows(p), regime' = regime
  PROVE  /\ pc[p] = "rows" /\ UNCHANGED <<stores, history>> /\ Moves(p)
         /\ After(p, role[p], "replay", job[p], listed[p], left[p],
                  {[edge |-> e, by |-> row[e]] : e \in {f \in Edges : row[f] # "none"}},
                  pending[p])
<1> DEFINE T == {[edge |-> e, by |-> row[e]] : e \in {f \in Edges : row[f] # "none"}}
<1>1. WorkOK  BY DEF WorkInv
<1>2. T \in SUBSET Jobs
  <2>1. \A e \in Edges : row[e] # "none" => row[e] \in By
    BY DEF WorkInv, StoresOK, Written
  <2> QED BY <2>1, JobFacts
<1>3. "replay" \in Steps  BY DEF Steps
<1>4. /\ pc[p] = "rows" /\ todo' = [todo EXCEPT ![p] = T]
      /\ pc' = [pc EXCEPT ![p] = "replay"]
      /\ UNCHANGED <<stores, history, role, job, listed, left, pending>>
  BY DEF RebuildRows
<1> HIDE DEF T
<1>5. Moves(p) /\ After(p, role[p], "replay", job[p], listed[p], left[p], T, pending[p])
  <2>1. Becomes(p, role[p], "replay", job[p], listed[p], left[p], T, pending[p])
    BY <1>1, <1>2, <1>3, <1>4, Same DEF Becomes
  <2>2. Fits(role[p], "replay", job[p], listed[p], left[p], T, pending[p])
    BY <1>1, <1>2, <1>3, <1>4, Same DEF Fits
  <2> QED BY <2>1, <2>2, Changed
<1> QED BY <1>4, <1>5 DEF T

LEMMA ReplayShape ==
  ASSUME WorkInv, NEW p \in Procs, Replay(p), regime' = regime
  PROVE  /\ pc[p] = "replay" /\ UNCHANGED <<stores, history>> /\ Moves(p)
         /\ \E j \in todo[p] :
              /\ \A k \in todo[p] : ~Before(k.edge, j.edge)
              /\ After(p, role[p], IF j.by = "llm" THEN "check" ELSE "merge",
                       [edge |-> Canonical(j.edge, j.by), by |-> j.by],
                       listed[p], left[p], todo[p] \ {j}, pending[p])
<1>1. pc[p] = "replay" /\ UNCHANGED <<stores, history, role, listed, left, pending>>
  BY DEF Replay
<1>2. PICK j \in todo[p] :
        /\ \A k \in todo[p] : ~Before(k.edge, j.edge)
        /\ Take(p, j.edge, j.by)
        /\ todo' = [todo EXCEPT ![p] = todo[p] \ {j}]
  BY DEF Replay
<1>3. todo[p] \in SUBSET Jobs  BY Same
<1>4. j.edge \in Edges /\ j.by \in By  BY <1>2, <1>3, JobFacts
<1>5. PICK i \in Jobs, s \in Steps :
        /\ i = [edge |-> Canonical(j.edge, j.by), by |-> j.by]
        /\ s = IF j.by = "llm" THEN "check" ELSE "merge"
        /\ job' = [job EXCEPT ![p] = i] /\ pc' = [pc EXCEPT ![p] = s]
  BY <1>2, <1>4, TakeShape
<1>6. todo[p] \ {j} \in SUBSET Jobs  BY <1>3
<1>7. Moves(p) /\ After(p, role[p], s, i, listed[p], left[p], todo[p] \ {j}, pending[p])
  <2>1. Becomes(p, role[p], s, i, listed[p], left[p], todo[p] \ {j}, pending[p])
    BY <1>1, <1>2, <1>5, <1>6, Same DEF Becomes
  <2>2. Fits(role[p], s, i, listed[p], left[p], todo[p] \ {j}, pending[p])
    BY <1>1, <1>2, <1>5, <1>6, Same DEF Fits
  <2> QED BY <2>1, <2>2, Changed
<1> QED BY <1>1, <1>2, <1>5, <1>7

LEMMA RebuildFinishShape ==
  ASSUME WorkInv, NEW p \in Procs, RebuildFinish(p), regime' = regime
  PROVE  /\ pc[p] = "replay" /\ todo[p] = {} /\ UNCHANGED stores /\ Moves(p)
         /\ wiped' = FALSE /\ loose' = {}
         /\ After(p, "none", "idle", NoJob, {}, 0, {}, NoRows)
BY ReleaseShape DEF RebuildFinish

-----------------------------------------------------------------------------
(* Shapes, orientation and what each command has in hand.                  *)

LEMMA StoresSame ==
  ASSUME WorkInv, UNCHANGED <<stores, history>>, regime' = regime
  PROVE  StoresOK' /\ UprightStores'
BY DEF WorkInv, StoresOK, UprightStores, stores, history, Upright, IsSymmetric

(* A process that has let go of everything. *)
LEMMA IdleOwn ==
  ASSUME WorkInv, NEW p \in Procs, After(p, "none", "idle", NoJob, {}, 0, {}, NoRows)
  PROVE  Own(p)'
BY NoRowsFacts DEF After, Own, ProcOK, UprightWork, LookFacts, LinkFacts, RunFacts, RebuildFacts,
                   BackfillFacts, Holding

LEMMA IdleFacts ==
  ASSUME WorkInv, NEW p \in Procs, pc[p] = "idle"
  PROVE  pending[p] = NoRows /\ todo[p] = {} /\ role[p] = "none"
BY DEF WorkInv, Own, ProcOK

LEMMA StartWork ==
  ASSUME WorkInv, NEW p \in Procs, regime' = regime,
         Link(p) \/ RunStart(p) \/ BackfillRead(p)
  PROVE  WorkInv'
<1>1. MayWrite /\ pc[p] = "idle" /\ UNCHANGED <<stores, history>> /\ Moves(p)
  BY LinkShape, RunStartShape, BackfillReadShape
<1>2. pending[p] = NoRows /\ todo[p] = {} /\ role[p] = "none"  BY <1>1, IdleFacts
<1>3. CASE Link(p)
  <2>1. PICK e \in Edges :
          After(p, "link", "merge", [edge |-> e, by |-> "curator"],
                listed[p], left[p], todo[p], pending[p])
    BY <1>3, LinkShape
  <2>2. [edge |-> e, by |-> "curator"] \in Jobs  BY JobFacts DEF By
  <2>3. Own(p)'
    BY <1>2, <2>1, <2>2, NoRowsFacts
       DEF After, Own, ProcOK, UprightWork, LookFacts, LinkFacts, RunFacts, RebuildFacts,
           BackfillFacts, Holding
  <2> QED BY <1>1, <2>3, StoresSame, OthersOwn
<1>4. CASE RunStart(p)
  <2>1. After(p, "run", "open", job[p], alive, RunEdges, todo[p], pending[p])
    BY <1>4, RunStartShape
  <2>2. Own(p)'
    BY <1>2, <2>1, NoRowsFacts
       DEF After, Own, ProcOK, UprightWork, LookFacts, LinkFacts, RunFacts, RebuildFacts,
           BackfillFacts, Holding
  <2> QED BY <1>1, <2>2, StoresSame, OthersOwn
<1>5. CASE BackfillRead(p)
  <2> DEFINE T == {[edge |-> e, by |-> Origin(e)] : e \in {f \in Edges : edge[f] # "none"}}
  <2>1. After(p, "backfill", "capture", job[p], listed[p], left[p], T, pending[p])
    BY <1>5, BackfillReadShape
  <2>2. \A j \in T : j.by = "llm" => Upright(j.edge)
    BY DEF Origin, WorkInv, UprightStores
  <2> HIDE DEF T
  <2>3. UprightWork(p)'
    <3>1. /\ pc'[p] \notin Holding /\ todo'[p] = T
          /\ \A e \in Edges : pending'[p][e] = "none"
      BY <1>2, <2>1, NoRowsFacts DEF After, Holding
    <3>2. \A e : Upright(e)' <=> Upright(e)  BY DEF Upright, IsSymmetric
    <3> QED BY <2>2, <3>1, <3>2 DEF UprightWork
  <2>4. Own(p)'
    BY <1>2, <2>1, <2>3
       DEF After, Own, ProcOK, LookFacts, LinkFacts, RunFacts, RebuildFacts, BackfillFacts, Holding
  <2> QED BY <1>1, <2>4, StoresSame, OthersOwn
<1> QED BY <1>3, <1>4, <1>5

LEMMA RunWork ==
  ASSUME WorkInv, NEW p \in Procs, regime' = regime, RunPropose(p) \/ RunEnd(p)
  PROVE  WorkInv'
<1>1. pc[p] = "open" /\ UNCHANGED <<stores, history>> /\ Moves(p)
  BY RunProposeShape, RunEndShape
<1>2. Own(p) /\ role[p] \in Roles  BY Same DEF WorkInv
<1>3. role[p] = "run" /\ \A e \in Edges : pending[p][e] \in {"none", "llm"}
  BY <1>1, <1>2 DEF Own, ProcOK, LinkFacts, RunFacts, RebuildFacts, BackfillFacts, Roles,
                    Replaying
<1>4. CASE RunPropose(p)
  <2>1. PICK e \in Edges :
          After(p, role[p], "check", [edge |-> Canonical(e, "llm"), by |-> "llm"],
                listed[p], left[p] - 1, todo[p], pending[p])
    BY <1>4, RunProposeShape
  <2>2. "llm" \in By  BY DEF By
  <2>3. /\ [edge |-> Canonical(e, "llm"), by |-> "llm"] \in Jobs
        /\ Upright(Canonical(e, "llm"))
    BY <2>2, CanonicalFacts, JobFacts
  <2>4. UprightWork(p)'
    <3>1. /\ job'[p].edge = Canonical(e, "llm") /\ todo'[p] = todo[p]
          /\ pending'[p] = pending[p]
      BY <2>1 DEF After
    <3>2. \A f : Upright(f)' <=> Upright(f)  BY DEF Upright, IsSymmetric
    <3> QED BY <1>2, <2>3, <3>1, <3>2 DEF Own, UprightWork
  <2>5. Own(p)'
    BY <1>2, <1>3, <2>1, <2>3, <2>4
       DEF After, Own, ProcOK, LookFacts, LinkFacts, RunFacts, RebuildFacts, BackfillFacts, Holding
  <2> QED BY <1>1, <2>5, StoresSame, OthersOwn
<1>5. CASE RunEnd(p)
  <2>1. After(p, role[p], "commit", job[p], listed[p], left[p], todo[p], pending[p])
    BY <1>5, RunEndShape
  <2>2. Own(p)'
    BY <1>2, <1>3, <2>1
       DEF After, Own, ProcOK, UprightWork, Upright, IsSymmetric, LookFacts, LinkFacts, RunFacts,
           RebuildFacts, BackfillFacts, Holding
  <2> QED BY <1>1, <2>2, StoresSame, OthersOwn
<1> QED BY <1>4, <1>5

(* Only a run or a rebuild looks before it merges, and a run has only extracted
   edges in hand. *)
LEMMA CheckWork ==
  ASSUME WorkInv, NEW p \in Procs, regime' = regime, Check(p) \/ CheckReverse(p)
  PROVE  WorkInv'
<1>1. UNCHANGED <<stores, history>> /\ Moves(p)  BY CheckShape
<1>2. pc[p] \in {"check", "reverse"}  BY DEF Check, CheckReverse
<1>3. PICK s : /\ After(p, role[p], s, job[p], listed[p], left[p], todo[p], pending[p])
               /\ \/ s \in {IF role[p] = "rebuild" THEN "replay" ELSE "open", "merge"}
                  \/ s = "reverse" /\ IsSymmetric(job[p].edge)
  BY CheckShape
<1>4. Own(p) /\ role[p] \in Roles  BY Same DEF WorkInv
<1>5. role[p] \in {"run", "rebuild"}
  BY <1>2, <1>4 DEF Own, ProcOK, LookFacts, LinkFacts, RunFacts, RebuildFacts, BackfillFacts, Roles
<1>6. ProcOK(p)' /\ UprightWork(p)'
  BY <1>2, <1>3, <1>4, <1>5
     DEF After, Own, ProcOK, UprightWork, Upright, IsSymmetric, Holding
<1>7. LinkFacts(p)' /\ RunFacts(p)' /\ RebuildFacts(p)' /\ BackfillFacts(p)' /\ LookFacts(p)'
  BY <1>2, <1>3, <1>4, <1>5
     DEF After, Own, LookFacts, IsSymmetric, LinkFacts, RunFacts, RebuildFacts, BackfillFacts, Holding, Replaying
<1> QED BY <1>1, <1>6, <1>7, StoresSame, OthersOwn DEF Own

LEMMA MergeWork ==
  ASSUME WorkInv, NEW p \in Procs, regime' = regime, Merge(p)
  PROVE  WorkInv'
<1> DEFINE e == job[p].edge
           s == IF role[p] = "rebuild" THEN "replay" ELSE "row"
<1>1. /\ pc[p] = "merge" /\ UNCHANGED <<alive, row, deleting, wiped>> /\ Moves(p)
      /\ node' = node \cup {e.from, e.to}
      /\ edge' = [edge EXCEPT ![e] = Stamped(@, job[p].by)]
      /\ loose' = IF role[p] = "rebuild" THEN loose ELSE loose \cup {e}
      /\ After(p, role[p], s, job[p], listed[p], left[p], todo[p], pending[p])
  BY MergeShape
<1>2. Own(p) /\ role[p] \in Roles  BY Same DEF WorkInv
<1>3. job[p] \in Jobs  BY <1>1, <1>2 DEF Own, ProcOK, Holding
<1>4. e \in Edges /\ job[p].by \in By  BY <1>3, JobFacts
<1>5. e.from \in Nodes /\ e.to \in Nodes  BY <1>4, EdgeFacts
<1> HIDE DEF e
<1>6. StoresOK'
  BY <1>1, <1>4, <1>5, StampFacts DEF WorkInv, StoresOK, Moves
<1>7. UprightStores'
  <2>1. job[p].by = "llm" => Upright(e)  BY <1>1, <1>2 DEF Own, UprightWork, Holding, e
  <2>2. \A f : Upright(f)' <=> Upright(f)  BY DEF Upright, IsSymmetric
  <2>3. \A f \in Edges : edge'[f] = IF f = e THEN Stamped(edge[e], job[p].by) ELSE edge[f]
    BY <1>1, <1>4 DEF WorkInv, StoresOK
  <2>4. ASSUME NEW f \in Edges, edge'[f] = "llm" \/ row'[f] = "llm" PROVE Upright(f)
    BY <1>1, <1>4, <2>1, <2>3, <2>4, StampFacts DEF WorkInv, UprightStores
  <2> QED BY <2>2, <2>4 DEF UprightStores
<1>8. role[p] \in {"link", "run", "rebuild"}
  BY <1>1, <1>2 DEF Own, ProcOK, BackfillFacts, Roles
<1>9. ProcOK(p)' /\ UprightWork(p)'
  BY <1>1, <1>2, <1>3, <1>8
     DEF After, Own, ProcOK, UprightWork, Upright, IsSymmetric, Holding
<1>10. LinkFacts(p)' /\ RunFacts(p)' /\ RebuildFacts(p)' /\ BackfillFacts(p)' /\ LookFacts(p)'
  BY <1>1, <1>2, <1>8
     DEF After, Own, LookFacts, IsSymmetric, LinkFacts, RunFacts, RebuildFacts, BackfillFacts, Holding, Replaying
<1> QED BY <1>1, <1>6, <1>7, <1>9, <1>10, OthersOwn DEF Own

LEMMA RecordWork ==
  ASSUME WorkInv, NEW p \in Procs, regime' = regime, RecordRow(p)
  PROVE  WorkInv'
<1> DEFINE e == job[p].edge
           w == [pending[p] EXCEPT ![e] = job[p].by]
           s == IF role[p] = "link" THEN "commit" ELSE "open"
<1>1. /\ pc[p] = "row" /\ UNCHANGED <<stores, history>> /\ Moves(p)
      /\ After(p, role[p], s, job[p], listed[p], left[p], todo[p], w)
  BY RecordRowShape
<1>2. Own(p) /\ role[p] \in Roles /\ pending[p] \in Written  BY Same DEF WorkInv
<1>3. job[p] \in Jobs  BY <1>1, <1>2 DEF Own, ProcOK, Holding
<1>4. e \in Edges /\ job[p].by \in By  BY <1>3, JobFacts
<1>5. role[p] \in {"link", "run"}
  BY <1>1, <1>2 DEF Own, ProcOK, RebuildFacts, BackfillFacts, Roles, Replaying
<1>6. \A f \in Edges : w[f] = IF f = e THEN job[p].by ELSE pending[p][f]
  BY <1>2, <1>4 DEF Written
<1>7. pending'[p] = w /\ pc'[p] = s /\ role'[p] = role[p] /\ todo'[p] = todo[p]
  BY <1>1 DEF After
<1>8. job[p].by = "llm" => Upright(e)  BY <1>1, <1>2 DEF Own, UprightWork, Holding
<1> HIDE DEF w, e
<1>9. ProcOK(p)'  BY <1>5, <1>7 DEF ProcOK, Holding
<1>10. UprightWork(p)'
  <2>1. \A f : Upright(f)' <=> Upright(f)  BY DEF Upright, IsSymmetric
  <2>2. \A f \in Edges : w[f] = "llm" => Upright(f)
    BY <1>2, <1>6, <1>8 DEF Own, UprightWork
  <2>3. pc'[p] \notin Holding  BY <1>7 DEF Holding
  <2> QED BY <1>2, <1>7, <2>1, <2>2, <2>3 DEF Own, UprightWork
<1>11. LinkFacts(p)' /\ RebuildFacts(p)' /\ BackfillFacts(p)' /\ LookFacts(p)'
  BY <1>5, <1>7 DEF LookFacts, LinkFacts, RebuildFacts, BackfillFacts
<1>12. RunFacts(p)'
  <2> SUFFICES ASSUME role[p] = "run" PROVE RunFacts(p)'  BY <1>7 DEF RunFacts
  <2>1. job[p].by = "llm" /\ \A f \in Edges : pending[p][f] \in {"none", "llm"}
    BY <1>1, <1>2 DEF Own, RunFacts, Holding
  <2> QED BY <1>6, <1>7, <2>1 DEF RunFacts, Holding
<1> QED BY <1>1, <1>9, <1>10, <1>11, <1>12, StoresSame, OthersOwn DEF Own

LEMMA CommitWork ==
  ASSUME WorkInv, NEW p \in Procs, regime' = regime, Commit(p)
  PROVE  WorkInv'
<1>1. /\ UNCHANGED <<alive, node, edge, deleting, wiped>> /\ Moves(p)
      /\ After(p, "none", "idle", NoJob, {}, 0, {}, NoRows)
      /\ row' = [e \in Edges |-> IF pending[p][e] # "none" THEN pending[p][e] ELSE row[e]]
      /\ loose' = {e \in loose : pending[p][e] = "none"}
  BY CommitShape
<1>2. Own(p) /\ pending[p] \in Written  BY Same DEF WorkInv
<1>3. StoresOK'
  <2>1. row' \in Written  BY <1>1, <1>2 DEF WorkInv, StoresOK, Written
  <2> QED BY <1>1, <2>1 DEF WorkInv, StoresOK, Moves
<1>4. UprightStores'
  <2>1. \A f : Upright(f)' <=> Upright(f)  BY DEF Upright, IsSymmetric
  <2>2. ASSUME NEW f \in Edges, edge'[f] = "llm" \/ row'[f] = "llm" PROVE Upright(f)
    BY <1>1, <1>2, <2>2 DEF WorkInv, UprightStores, Own, UprightWork
  <2> QED BY <2>1, <2>2 DEF UprightStores
<1> QED BY <1>1, <1>3, <1>4, IdleOwn, OthersOwn

LEMMA AbortWork ==
  ASSUME WorkInv, NEW p \in Procs, regime' = regime, Abort(p) \/ RebuildCrash(p)
  PROVE  WorkInv'
BY AbortShape, IdleOwn, StoresSame, OthersOwn

LEMMA BackfillRowsWork ==
  ASSUME WorkInv, NEW p \in Procs, regime' = regime, BackfillRows(p)
  PROVE  WorkInv'
<1>1. /\ pc[p] = "capture" /\ UNCHANGED <<stores, history>> /\ Moves(p)
      /\ After(p, role[p], "commit", job[p], listed[p], left[p], todo[p], Captured(p))
  BY BackfillRowsShape
<1>2. Own(p) /\ role[p] \in Roles  BY Same DEF WorkInv
<1>3. role[p] = "backfill"
  BY <1>1, <1>2 DEF Own, ProcOK, LookFacts, LinkFacts, RunFacts, RebuildFacts, Roles, Holding, Replaying
<1>4. \A e \in Edges : Captured(p)[e] = "llm" => Upright(e)
  <2> SUFFICES ASSUME NEW e \in Edges, [edge |-> e, by |-> "llm"] \in todo[p]
               PROVE  Upright(e)
    BY CapturedFacts
  <2> DEFINE j == [edge |-> e, by |-> "llm"]
  <2>1. j.by = "llm" /\ j.edge = e /\ j \in todo[p]  OBVIOUS
  <2> QED BY <1>2, <2>1 DEF Own, UprightWork
<1>5. /\ role'[p] = "backfill" /\ pc'[p] = "commit" /\ todo'[p] = todo[p]
      /\ pending'[p] = Captured(p)
  BY <1>1, <1>3 DEF After
<1>6. UprightWork(p)'
  <2>1. \A f : Upright(f)' <=> Upright(f)  BY DEF Upright, IsSymmetric
  <2> QED BY <1>2, <1>4, <1>5, <2>1 DEF Own, UprightWork, Holding
<1>7. Own(p)'
  BY <1>5, <1>6 DEF Own, ProcOK, LookFacts, LinkFacts, RunFacts, RebuildFacts, BackfillFacts, Holding
<1> QED BY <1>1, <1>7, StoresSame, OthersOwn

LEMMA RebuildStartWork ==
  ASSUME WorkInv, NEW p \in Procs, regime' = regime, RebuildDrop(p) \/ RebuildProject(p)
  PROVE  WorkInv'
<1>1. CASE RebuildDrop(p)
  <2>1. /\ pc[p] = "idle" /\ UNCHANGED <<alive, row, deleting, loose>>
        /\ Moves(p) /\ node' = {} /\ edge' = NoRows /\ wiped' = TRUE
        /\ After(p, "rebuild", "project", job[p], listed[p], left[p], todo[p], pending[p])
    BY <1>1, RebuildDropShape
  <2>2. pending[p] = NoRows /\ todo[p] = {}  BY <2>1, IdleFacts
  <2>3. StoresOK'
    BY <2>1, NoRowsFacts DEF WorkInv, StoresOK, Moves, Written
  <2>4. UprightStores'
    BY <2>1, NoRowsFacts DEF WorkInv, UprightStores, Upright, IsSymmetric
  <2>5. Own(p)'
    BY <2>1, <2>2, NoRowsFacts
       DEF After, Own, ProcOK, UprightWork, LookFacts, LinkFacts, RunFacts, RebuildFacts,
           BackfillFacts, Holding
  <2> QED BY <2>1, <2>3, <2>4, <2>5, OthersOwn
<1>2. CASE RebuildProject(p)
  <2>1. /\ pc[p] = "project" /\ UNCHANGED <<alive, edge, row, deleting, history>>
        /\ Moves(p) /\ node' = node \cup alive
        /\ After(p, role[p], "rows", job[p], listed[p], left[p], todo[p], pending[p])
    BY <1>2, RebuildProjectShape
  <2>2. Own(p) /\ role[p] \in Roles  BY Same DEF WorkInv
  <2>3. role[p] = "rebuild"
    BY <2>1, <2>2 DEF Own, ProcOK, LookFacts, LinkFacts, RunFacts, BackfillFacts, Roles, Holding
  <2>4. StoresOK'  BY <2>1 DEF WorkInv, StoresOK, Moves, history
  <2>5. UprightStores'  BY <2>1 DEF WorkInv, UprightStores, Upright, IsSymmetric
  <2>6. Own(p)'
    BY <2>1, <2>2, <2>3
       DEF After, Own, ProcOK, UprightWork, Upright, IsSymmetric, LookFacts, LinkFacts, RunFacts,
           RebuildFacts, BackfillFacts, Holding
  <2> QED BY <2>1, <2>4, <2>5, <2>6, OthersOwn
<1> QED BY <1>1, <1>2

LEMMA RebuildRowsWork ==
  ASSUME WorkInv, NEW p \in Procs, regime' = regime, RebuildRows(p)
  PROVE  WorkInv'
<1> DEFINE T == {[edge |-> e, by |-> row[e]] : e \in {f \in Edges : row[f] # "none"}}
<1>1. /\ pc[p] = "rows" /\ UNCHANGED <<stores, history>> /\ Moves(p)
      /\ After(p, role[p], "replay", job[p], listed[p], left[p], T, pending[p])
  BY RebuildRowsShape
<1>2. Own(p) /\ role[p] \in Roles  BY Same DEF WorkInv
<1>3. role[p] = "rebuild"
  BY <1>1, <1>2 DEF Own, ProcOK, LookFacts, LinkFacts, RunFacts, BackfillFacts, Roles, Holding
<1>4. \A j \in T : j.by = "llm" => Upright(j.edge)  BY DEF WorkInv, UprightStores
<1> HIDE DEF T
<1>5. UprightWork(p)'
  <2>1. pc'[p] \notin Holding /\ todo'[p] = T /\ pending'[p] = pending[p]
    BY <1>1 DEF After, Holding
  <2>2. \A e : Upright(e)' <=> Upright(e)  BY DEF Upright, IsSymmetric
  <2> QED BY <1>2, <1>4, <2>1, <2>2 DEF Own, UprightWork
<1>6. Own(p)'
  BY <1>1, <1>2, <1>3, <1>5
     DEF After, Own, ProcOK, LookFacts, LinkFacts, RunFacts, RebuildFacts, BackfillFacts, Holding,
         Replaying
<1> QED BY <1>1, <1>6, StoresSame, OthersOwn

LEMMA ReplayWork ==
  ASSUME WorkInv, NEW p \in Procs, regime' = regime, Replay(p)
  PROVE  WorkInv'
<1>1. pc[p] = "replay" /\ UNCHANGED <<stores, history>> /\ Moves(p)  BY ReplayShape
<1>2. PICK j \in todo[p] :
        After(p, role[p], IF j.by = "llm" THEN "check" ELSE "merge",
              [edge |-> Canonical(j.edge, j.by), by |-> j.by],
              listed[p], left[p], todo[p] \ {j}, pending[p])
  BY ReplayShape
<1>3. Own(p) /\ role[p] \in Roles /\ todo[p] \in SUBSET Jobs  BY Same DEF WorkInv
<1>4. role[p] = "rebuild"
  BY <1>1, <1>3 DEF Own, ProcOK, LookFacts, LinkFacts, RunFacts, BackfillFacts, Roles, Holding
<1>5. j.edge \in Edges /\ j.by \in By  BY <1>3, JobFacts
<1> DEFINE i == [edge |-> Canonical(j.edge, j.by), by |-> j.by]
           s == IF j.by = "llm" THEN "check" ELSE "merge"
<1>6. i \in Jobs /\ (i.by = "llm" => Upright(i.edge))
  BY <1>5, CanonicalFacts, JobFacts
<1>7. /\ role'[p] = "rebuild" /\ pc'[p] = s /\ job'[p] = i /\ todo'[p] = todo[p] \ {j}
      /\ pending'[p] = pending[p]
  BY <1>2, <1>4 DEF After
<1> HIDE DEF i
<1>8. UprightWork(p)'
  <2>1. \A f : Upright(f)' <=> Upright(f)  BY DEF Upright, IsSymmetric
  <2> QED BY <1>3, <1>6, <1>7, <2>1 DEF Own, UprightWork
<1>9. ProcOK(p)' /\ RebuildFacts(p)'
  BY <1>3, <1>4, <1>6, <1>7 DEF Own, ProcOK, RebuildFacts, Holding, Replaying
<1>10. LookFacts(p)'
  BY <1>7 DEF LookFacts, i
<1>11. Own(p)'
  BY <1>7, <1>8, <1>9, <1>10 DEF Own, LinkFacts, RunFacts, BackfillFacts
<1> QED BY <1>1, <1>11, StoresSame, OthersOwn

LEMMA FinishWork ==
  ASSUME WorkInv, NEW p \in Procs, regime' = regime, RebuildFinish(p)
  PROVE  WorkInv'
<1>1. /\ UNCHANGED stores /\ Moves(p) /\ wiped' = FALSE /\ loose' = {}
      /\ After(p, "none", "idle", NoJob, {}, 0, {}, NoRows)
  BY RebuildFinishShape
<1>2. StoresOK'  BY <1>1 DEF WorkInv, StoresOK, Moves, stores
<1>3. UprightStores'  BY <1>1 DEF WorkInv, UprightStores, stores, Upright, IsSymmetric
<1> QED BY <1>1, <1>2, <1>3, IdleOwn, OthersOwn

(* Steps of no process. *)
LEMMA StandingWork ==
  ASSUME WorkInv, UNCHANGED work, regime' = regime, StoresOK', UprightStores'
  PROVE  WorkInv'
<1>1. RunEdges' = RunEdges  BY DEF RunEdges
<1>2. WorkOK'
  <2> DEFINE S == 0..RunEdges
  <2>1. left' \in [Procs -> S]  BY DEF WorkInv, WorkOK, work
  <2> QED BY <1>1, <2>1 DEF WorkInv, WorkOK, work
<1>3. ASSUME NEW q \in Procs PROVE Own(q)'
  BY DEF WorkInv, work, Own, ProcOK, UprightWork, Upright, IsSymmetric, LookFacts, LinkFacts, RunFacts,
         RebuildFacts, BackfillFacts
<1> QED BY <1>2, <1>3 DEF WorkInv

LEMMA DeleteWork ==
  ASSUME WorkInv, NEW n, DeleteCommit(n) \/ DeleteNode(n), regime' = regime
  PROVE  WorkInv'
<1>1. UNCHANGED work  BY DEF DeleteCommit, DeleteNode
<1>2. StoresOK'
  <2>1. CASE DeleteCommit(n)
    <3>1. /\ alive' = alive \ {n} /\ n \in Sources /\ deleting' = deleting \cup {n}
          /\ row' = [e \in Edges |-> IF e \in Touching(n) THEN "none" ELSE row[e]]
          /\ loose' = loose \cup {e \in Touching(n) : edge[e] # "none"}
          /\ UNCHANGED <<node, edge, wiped>>
      BY <2>1 DEF DeleteCommit
    <3>2. row' \in Written  BY <3>1 DEF WorkInv, StoresOK, Written
    <3>3. loose' \subseteq Edges  BY <3>1 DEF WorkInv, StoresOK, Touching
    <3> QED BY <3>1, <3>2, <3>3 DEF WorkInv, StoresOK
  <2>2. CASE DeleteNode(n)
    BY <2>2 DEF DeleteNode, WorkInv, StoresOK
  <2> QED BY <2>1, <2>2
<1>3. UprightStores'
  <2>1. \A f : Upright(f)' <=> Upright(f)  BY DEF Upright, IsSymmetric
  <2>2. \A f \in Edges : edge'[f] \in {"none", edge[f]} /\ row'[f] \in {"none", row[f]}
    BY DEF DeleteCommit, DeleteNode
  <2> QED BY <2>1, <2>2 DEF WorkInv, UprightStores
<1> QED BY <1>1, <1>2, <1>3, StandingWork

LEMMA PruneWork ==
  ASSUME WorkInv, NEW e \in Edges, Prune(e), regime' = regime
  PROVE  WorkInv'
<1>1. UNCHANGED work  BY DEF Prune
<1>2. StoresOK'  BY DEF Prune, WorkInv, StoresOK
<1>3. UprightStores'
  <2>1. \A f : Upright(f)' <=> Upright(f)  BY DEF Upright, IsSymmetric
  <2>2. \A f \in Edges : edge'[f] \in {"none", edge[f]} /\ row'[f] = row[f]
    BY DEF Prune, WorkInv, StoresOK
  <2> QED BY <2>1, <2>2 DEF WorkInv, UprightStores
<1> QED BY <1>1, <1>2, <1>3, StandingWork

LEMMA InitWork == Init => WorkInv
<1> SUFFICES ASSUME Init PROVE WorkInv  OBVIOUS
<1>0. regime \in Regimes  BY DEF Init
<1>1. regime.legacy \subseteq Edges /\ regime.runEdges \in Nat
  BY <1>0, EdgesAssumption DEF EdgesAssumption
<1>2. StoresOK
  BY <1>0, <1>1, NoRowsFacts DEF Init, StoresOK, Legacy
<1>3. WorkOK
  <2>1. left \in [Procs -> 0..RunEdges]
    <3>1. 0 \in 0..RunEdges  BY <1>1 DEF RunEdges
    <3> QED BY <3>1 DEF Init
  <2> QED BY <2>1, NoRowsFacts DEF Init, WorkOK, Roles, Steps
<1>4. UprightStores  BY NoRowsFacts DEF Init, UprightStores
<1>5. ASSUME NEW p \in Procs PROVE Own(p)
  BY NoRowsFacts DEF Init, Own, ProcOK, UprightWork, LookFacts, LinkFacts, RunFacts, RebuildFacts,
                     BackfillFacts, Holding
<1> QED BY <1>2, <1>3, <1>4, <1>5 DEF WorkInv

LEMMA WorkStep == WorkInv /\ [Next]_vars => WorkInv'
<1> SUFFICES ASSUME WorkInv, [Next]_vars PROVE WorkInv'  OBVIOUS
<1>1. CASE UNCHANGED vars
  <2>1. UNCHANGED <<stores, history, work, regime>>  BY <1>1 DEF vars
  <2> QED BY <2>1, StoresSame, StandingWork
<1>2. ASSUME NEW p \in Procs, Writer(p) \/ Rebuilder(p), regime' = regime
      PROVE  WorkInv'
  BY <1>2, StartWork, RunWork, CheckWork, MergeWork, RecordWork, CommitWork, AbortWork,
     BackfillRowsWork, RebuildStartWork, RebuildRowsWork, ReplayWork, FinishWork
     DEF Writer, Rebuilder
<1>3. ASSUME NEW n \in Nodes, DeleteCommit(n) \/ DeleteNode(n), regime' = regime
      PROVE  WorkInv'
  BY <1>3, DeleteWork
<1>4. ASSUME NEW e \in Edges, Prune(e), regime' = regime PROVE WorkInv'
  BY <1>4, PruneWork
<1> QED BY <1>1, <1>2, <1>3, <1>4 DEF Next

-----------------------------------------------------------------------------
(* A rebuild that runs alone.                                              *)

Undone(p) == {j.edge : j \in todo[p]}
Unmerged(p) == Undone(p) \cup (IF pc[p] = "replay" THEN {} ELSE {job[p].edge})

(* The graph has the rows replayed so far, and what comes after a row that is
   not replayed in the order is not replayed either. *)
Replayed(p) ==
  /\ \A j \in todo[p] : j.by = row[j.edge]
  /\ pc[p] # "replay" => job[p].by = row[job[p].edge] /\ job[p].edge \notin Undone(p)
  /\ \A e \in Edges : edge[e] = IF e \in Unmerged(p) THEN "none" ELSE row[e]
  /\ \A e \in Unmerged(p), f \in Edges :
       Before(e, f) /\ row[f] # "none" => f \in Undone(p)

ReplayFacts(p) == role[p] = "rebuild" =>
  /\ pc[p] # "project" => alive \subseteq node
  /\ pc[p] \in {"project", "rows"} => edge = NoRows
  /\ pc[p] \in Replaying => Replayed(p)

(* Nothing else goes on. *)
Undisturbed(p) == role[p] = "rebuild" =>
  deleting = {} /\ \A q \in Procs \ {p} : pc[q] = "idle"

Rebuilds == \A p \in Procs : Undisturbed(p) /\ ReplayFacts(p)

RebuildInv == WorkInv /\ ("rebuild" \in Alone => Rebuilds)

NobodyRebuilds == \A p \in Procs : role[p] # "rebuild"

LEMMA AloneFacts ==
  ASSUME WorkInv, "rebuild" \in Alone
  PROVE  /\ MayWrite => NobodyRebuilds
         /\ MayRebuild => deleting = {} /\ \A p \in Procs : pc[p] = "idle" /\ role[p] = "none"
BY IdleFacts DEF MayWrite, MayRebuild, Quiet, Rebuilding, NobodyRebuilds

LEMMA NobodyKeeps ==
  ASSUME NEW p \in Procs, NobodyRebuilds, Moves(p), role'[p] # "rebuild"
  PROVE  Rebuilds'
<1>1. \A q \in Procs : role'[q] # "rebuild"  BY DEF NobodyRebuilds, Moves, Others
<1> QED BY <1>1 DEF Rebuilds, Undisturbed, ReplayFacts

(* Whoever is at work while another rebuilds is the one that rebuilds. *)
LEMMA AtWork ==
  ASSUME Rebuilds, NEW p \in Procs, pc[p] # "idle", role[p] # "rebuild"
  PROVE  NobodyRebuilds
BY DEF Rebuilds, Undisturbed, NobodyRebuilds

LEMMA OwnRebuild ==
  ASSUME WorkInv, Rebuilds, NEW p \in Procs, Moves(p), role[p] = "rebuild", deleting' = deleting,
         role'[p] = "rebuild" => ReplayFacts(p)'
  PROVE  Rebuilds'
<1>1. deleting = {} /\ \A q \in Procs \ {p} : pc[q] = "idle" /\ role[q] # "rebuild"
  BY IdleFacts DEF Rebuilds, Undisturbed
<1>2. \A q \in Procs \ {p} : pc'[q] = "idle" /\ role'[q] # "rebuild"
  BY <1>1 DEF Moves, Others
<1>3. Undisturbed(p)'  BY <1>1, <1>2 DEF Undisturbed
<1>4. ReplayFacts(p)'  BY DEF ReplayFacts
<1> QED BY <1>2, <1>3, <1>4 DEF Rebuilds, Undisturbed, ReplayFacts

LEMMA RoleAt ==
  ASSUME WorkInv, NEW p \in Procs
  PROVE  /\ pc[p] \in {"project", "rows", "replay"} => role[p] = "rebuild"
         /\ pc[p] = "open" => role[p] = "run"
         /\ pc[p] = "row" => role[p] \in {"link", "run"}
         /\ pc[p] = "capture" => role[p] = "backfill"
         /\ pc[p] = "commit" => role[p] \in {"link", "run", "backfill"}
         /\ pc[p] \in {"check", "reverse"} => role[p] \in {"run", "rebuild"}
         /\ pc[p] = "merge" => role[p] \in {"link", "run", "rebuild"}
<1>1. Own(p) /\ role[p] \in Roles  BY Same DEF WorkInv
<1> QED BY <1>1 DEF Own, ProcOK, LinkFacts, RunFacts, RebuildFacts, BackfillFacts, Roles,
                    Holding, Replaying

LEMMA WriterRebuilds ==
  ASSUME WorkInv, "rebuild" \in Alone, Rebuilds, NEW p \in Procs, regime' = regime,
         \/ Link(p) \/ RunStart(p) \/ BackfillRead(p) \/ RunPropose(p) \/ RunEnd(p)
         \/ RecordRow(p) \/ Commit(p) \/ Abort(p) \/ BackfillRows(p)
  PROVE  Rebuilds'
<1>1. CASE Link(p) \/ RunStart(p) \/ BackfillRead(p)
  <2>1. MayWrite /\ Moves(p) /\ role'[p] # "rebuild"
    BY <1>1, LinkShape, RunStartShape, BackfillReadShape DEF After
  <2> QED BY <2>1, AloneFacts, NobodyKeeps
<1>2. CASE RunPropose(p) \/ RunEnd(p) \/ RecordRow(p) \/ BackfillRows(p)
  <2>1. /\ pc[p] \in {"open", "row", "capture"} /\ Moves(p) /\ role'[p] = role[p]
    BY <1>2, RunProposeShape, RunEndShape, RecordRowShape, BackfillRowsShape DEF After
  <2>2. role[p] # "rebuild"  BY <2>1, RoleAt
  <2> QED BY <2>1, <2>2, AtWork, NobodyKeeps
<1>3. CASE Commit(p) \/ Abort(p)
  <2>1. /\ pc[p] = "commit" \/ (role[p] # "none" /\ role[p] # "rebuild")
        /\ Moves(p) /\ role'[p] # "rebuild"
    BY <1>3, CommitShape, AbortShape DEF After
  <2>2. role[p] # "rebuild" /\ pc[p] # "idle"  BY <2>1, RoleAt, IdleFacts
  <2> QED BY <2>1, <2>2, AtWork, NobodyKeeps
<1> QED BY <1>1, <1>2, <1>3

(* The order in which rows are replayed puts an extracted edge before its
   reverse, so that nothing protects it. *)
LEMMA ReplayUnprotected ==
  ASSUME WorkInv, NEW p \in Procs, role[p] = "rebuild", pc[p] \in {"check", "reverse"},
         Replayed(p)
  PROVE  ~Protected(job[p].edge) /\ (pc[p] = "reverse" => ~Protected(Reverse(job[p].edge)))
<1> DEFINE e == job[p].edge
<1>1. Own(p)  BY DEF WorkInv
<1>2. job[p] \in Jobs /\ e \in Edges  BY <1>1, JobFacts DEF Own, ProcOK, Holding
<1>3. e \in Unmerged(p)  BY DEF Unmerged
<1>4. edge[e] = "none"  BY <1>2, <1>3 DEF Replayed
<1>5. ASSUME pc[p] = "reverse" PROVE edge[Reverse(e)] = "none"
  <2>1. IsSymmetric(e) /\ job[p].by = "llm"  BY <1>1, <1>5 DEF Own, LookFacts
  <2>2. e.from < e.to  BY <1>1, <1>5, <2>1 DEF Own, UprightWork, Holding, Upright
  <2>3. /\ Reverse(e) \in Edges /\ Reverse(e).type = e.type /\ Reverse(e).from = e.to
    BY <1>2, EdgeFacts
  <2>4. Before(e, Reverse(e))  BY <2>2, <2>3 DEF Before
  <2> HIDE DEF e
  <2>5. row[Reverse(e)] # "none" => Reverse(e) \in Unmerged(p)
    BY <1>3, <2>3, <2>4 DEF Replayed, Unmerged
  <2> QED BY <2>3, <2>5 DEF Replayed
<1> QED BY <1>4, <1>5 DEF Protected

LEMMA CheckRebuilds ==
  ASSUME WorkInv, Rebuilds, NEW p \in Procs, regime' = regime, Check(p) \/ CheckReverse(p)
  PROVE  Rebuilds'
<1>1. UNCHANGED <<stores, history>> /\ Moves(p)  BY CheckShape
<1>2. pc[p] \in {"check", "reverse"}  BY DEF Check, CheckReverse
<1>3. PICK s \in Steps :
        /\ After(p, role[p], s, job[p], listed[p], left[p], todo[p], pending[p])
        /\ \/ pc[p] = "check" /\ Protected(job[p].edge)
           \/ pc[p] = "reverse" /\ Protected(Reverse(job[p].edge))
           \/ s \in {"reverse", "merge"}
  BY CheckShape
<1>4. CASE role[p] # "rebuild"
  <2>1. role'[p] # "rebuild" /\ pc[p] # "idle"  BY <1>2, <1>3, <1>4 DEF After
  <2> QED BY <1>1, <1>4, <2>1, AtWork, NobodyKeeps
<1>5. CASE role[p] = "rebuild"
  <2>1. Replayed(p) /\ alive \subseteq node
    BY <1>2, <1>5 DEF Rebuilds, ReplayFacts, Replaying
  <2>2. s \in {"reverse", "merge"}  BY <1>2, <1>3, <1>5, <2>1, ReplayUnprotected
  <2>3. pc'[p] = s /\ job'[p] = job[p] /\ todo'[p] = todo[p]  BY <1>3 DEF After
  <2>4. UNCHANGED <<alive, node, edge, row, deleting>>  BY <1>1 DEF stores
  <2>5. Replayed(p)'
    <3>1. Undone(p)' = Undone(p)  BY <2>3 DEF Undone
    <3>2. Unmerged(p)' = Unmerged(p)  BY <1>2, <2>2, <2>3, <3>1 DEF Unmerged
    <3>3. \A e, f : Before(e, f)' <=> Before(e, f)  BY DEF Before
    <3> QED BY <1>2, <2>1, <2>2, <2>3, <2>4, <3>1, <3>2, <3>3 DEF Replayed
  <2>6. ReplayFacts(p)'  BY <2>1, <2>2, <2>3, <2>4, <2>5 DEF ReplayFacts
  <2> QED BY <1>1, <1>5, <2>4, <2>6, OwnRebuild
<1> QED BY <1>4, <1>5

LEMMA MergeRebuilds ==
  ASSUME WorkInv, Rebuilds, NEW p \in Procs, regime' = regime, Merge(p)
  PROVE  Rebuilds'
<1> DEFINE e == job[p].edge
           s == IF role[p] = "rebuild" THEN "replay" ELSE "row"
<1>1. /\ pc[p] = "merge" /\ UNCHANGED <<alive, row, deleting, wiped>> /\ Moves(p)
      /\ node' = node \cup {e.from, e.to}
      /\ edge' = [edge EXCEPT ![e] = Stamped(@, job[p].by)]
      /\ After(p, role[p], s, job[p], listed[p], left[p], todo[p], pending[p])
  BY MergeShape
<1>2. role'[p] = role[p]  BY <1>1 DEF After
<1>3. CASE role[p] # "rebuild"  BY <1>1, <1>2, <1>3, AtWork, NobodyKeeps
<1>4. CASE role[p] = "rebuild"
  <2>1. Replayed(p) /\ alive \subseteq node
    BY <1>1, <1>4 DEF Rebuilds, ReplayFacts, Replaying
  <2>2. pc'[p] = "replay" /\ todo'[p] = todo[p]  BY <1>1, <1>4 DEF After
  <2>3. job[p] \in Jobs /\ e \in Edges
    <3>1. Own(p)  BY DEF WorkInv
    <3> QED BY <1>1, <3>1, JobFacts DEF Own, ProcOK, Holding
  <2>4. \A f \in Edges : edge'[f] = IF f = e THEN job[p].by ELSE edge[f]
    <3>1. edge[e] = "none"  BY <1>1, <2>1, <2>3 DEF Replayed, Unmerged
    <3>2. Stamped(edge[e], job[p].by) = job[p].by  BY <2>3, <3>1, JobFacts, StampFacts
    <3> QED BY <1>1, <2>3, <3>2 DEF WorkInv, StoresOK
  <2>5. Undone(p)' = Undone(p) /\ Unmerged(p)' = Undone(p)
    BY <2>2 DEF Undone, Unmerged
  <2>6. e \notin Undone(p) /\ job[p].by = row[e] /\ Unmerged(p) = Undone(p) \cup {e}
    BY <1>1, <2>1 DEF Replayed, Unmerged
  <2> HIDE DEF e
  <2>7. Replayed(p)'
    <3>1. \A f, g : Before(f, g)' <=> Before(f, g)  BY DEF Before
    <3>2. \A j \in todo'[p] : j.by = row'[j.edge]  BY <1>1, <2>1, <2>2 DEF Replayed
    <3>3. \A f \in Edges : edge'[f] = IF f \in Unmerged(p)' THEN "none" ELSE row'[f]
      BY <1>1, <2>1, <2>4, <2>5, <2>6 DEF Replayed
    <3>4. \A f \in Unmerged(p)', g \in Edges :
            Before(f, g)' /\ row'[g] # "none" => g \in Undone(p)'
      BY <1>1, <2>1, <2>5, <2>6, <3>1 DEF Replayed
    <3> QED BY <2>2, <3>2, <3>3, <3>4 DEF Replayed
  <2>8. ReplayFacts(p)'  BY <1>1, <2>1, <2>2, <2>7 DEF ReplayFacts
  <2> QED BY <1>1, <1>4, <2>8, OwnRebuild
<1> QED BY <1>3, <1>4

LEMMA StartRebuilds ==
  ASSUME WorkInv, "rebuild" \in Alone, Rebuilds, NEW p \in Procs, regime' = regime,
         RebuildDrop(p) \/ RebuildProject(p)
  PROVE  Rebuilds'
<1>1. CASE RebuildDrop(p)
  <2>1. /\ MayRebuild /\ UNCHANGED <<alive, row, deleting, loose>> /\ Moves(p)
        /\ edge' = NoRows
        /\ After(p, "rebuild", "project", job[p], listed[p], left[p], todo[p], pending[p])
    BY <1>1, RebuildDropShape
  <2>2. deleting = {} /\ \A q \in Procs : pc[q] = "idle" /\ role[q] = "none"
    BY <2>1, AloneFacts
  <2>3. \A q \in Procs \ {p} : pc'[q] = "idle" /\ role'[q] = "none"
    BY <2>1, <2>2 DEF Moves, Others
  <2>4. pc'[p] = "project" /\ deleting' = {}  BY <2>1, <2>2 DEF After
  <2>5. Undisturbed(p)' /\ ReplayFacts(p)'
    <3>1. edge' = NoRows'  BY <2>1 DEF NoRows
    <3> QED BY <2>3, <2>4, <3>1 DEF Undisturbed, ReplayFacts, Replaying
  <2> QED BY <2>3, <2>5 DEF Rebuilds, Undisturbed, ReplayFacts
<1>2. CASE RebuildProject(p)
  <2>1. /\ pc[p] = "project" /\ UNCHANGED <<alive, edge, row, deleting, history>>
        /\ Moves(p) /\ node' = node \cup alive
        /\ After(p, role[p], "rows", job[p], listed[p], left[p], todo[p], pending[p])
    BY <1>2, RebuildProjectShape
  <2>2. role[p] = "rebuild"  BY <2>1, RoleAt
  <2>3. edge = NoRows  BY <2>1, <2>2 DEF Rebuilds, ReplayFacts
  <2>4. edge' = NoRows'  BY <2>1, <2>3 DEF NoRows
  <2>5. pc'[p] = "rows"  BY <2>1 DEF After
  <2>6. ReplayFacts(p)'  BY <2>1, <2>4, <2>5 DEF ReplayFacts, Replaying
  <2> QED BY <2>1, <2>2, <2>6, OwnRebuild
<1> QED BY <1>1, <1>2

LEMMA RowsRebuilds ==
  ASSUME WorkInv, Rebuilds, NEW p \in Procs, regime' = regime, RebuildRows(p)
  PROVE  Rebuilds'
<1> DEFINE T == {[edge |-> e, by |-> row[e]] : e \in {f \in Edges : row[f] # "none"}}
<1>1. /\ pc[p] = "rows" /\ UNCHANGED <<stores, history>> /\ Moves(p)
      /\ After(p, role[p], "replay", job[p], listed[p], left[p], T, pending[p])
  BY RebuildRowsShape
<1>2. role[p] = "rebuild"  BY <1>1, RoleAt
<1>3. edge = NoRows /\ alive \subseteq node  BY <1>1, <1>2 DEF Rebuilds, ReplayFacts
<1>4. UNCHANGED <<alive, node, edge, row, deleting>>  BY <1>1 DEF stores
<1>5. pc'[p] = "replay" /\ todo'[p] = T  BY <1>1 DEF After
<1>6. \A j \in T : j.by = row[j.edge]  OBVIOUS
<1>7. \A e : (\E j \in T : j.edge = e) <=> (e \in Edges /\ row[e] # "none")
  <2>1. \A e \in Edges : row[e] # "none" => [edge |-> e, by |-> row[e]] \in T  OBVIOUS
  <2>2. \A e \in Edges : [edge |-> e, by |-> row[e]].edge = e  OBVIOUS
  <2>3. \A j \in T : j.edge \in Edges /\ row[j.edge] # "none"  OBVIOUS
  <2> HIDE DEF T
  <2> QED BY <2>1, <2>2, <2>3
<1> HIDE DEF T
<1>8. \A e : e \in Undone(p)' <=> (e \in Edges /\ row[e] # "none")
  BY <1>5, <1>7 DEF Undone
<1>9. Unmerged(p)' = Undone(p)'  BY <1>5 DEF Unmerged
<1>10. Replayed(p)'
  <2>1. \A j \in todo'[p] : j.by = row'[j.edge]  BY <1>4, <1>5, <1>6
  <2>2. \A e \in Edges : edge'[e] = IF e \in Unmerged(p)' THEN "none" ELSE row'[e]
    BY <1>3, <1>4, <1>8, <1>9, NoRowsFacts
  <2>3. \A e \in Unmerged(p)', f \in Edges :
          Before(e, f)' /\ row'[f] # "none" => f \in Undone(p)'
    BY <1>4, <1>8
  <2> QED BY <1>5, <2>1, <2>2, <2>3 DEF Replayed
<1>11. ReplayFacts(p)'  BY <1>3, <1>4, <1>5, <1>10 DEF ReplayFacts
<1> QED BY <1>1, <1>2, <1>4, <1>11, OwnRebuild

LEMMA ReplayRebuilds ==
  ASSUME WorkInv, Rebuilds, NEW p \in Procs, regime' = regime, Replay(p)
  PROVE  Rebuilds'
<1>1. pc[p] = "replay" /\ UNCHANGED <<stores, history>> /\ Moves(p)  BY ReplayShape
<1>2. PICK j \in todo[p] :
        /\ \A k \in todo[p] : ~Before(k.edge, j.edge)
        /\ After(p, role[p], IF j.by = "llm" THEN "check" ELSE "merge",
                 [edge |-> Canonical(j.edge, j.by), by |-> j.by],
                 listed[p], left[p], todo[p] \ {j}, pending[p])
  BY ReplayShape
<1>3. role[p] = "rebuild"  BY <1>1, RoleAt
<1>4. Own(p) /\ todo[p] \in SUBSET Jobs  BY Same DEF WorkInv
<1>5. j \in Jobs /\ j.edge \in Edges /\ j.by \in By /\ j = [edge |-> j.edge, by |-> j.by]
  BY <1>4, JobFacts
<1>6. Canonical(j.edge, j.by) = j.edge
  <2>1. j.by = "llm" => Upright(j.edge)  BY <1>4 DEF Own, UprightWork
  <2> QED BY <1>5, <2>1, CanonicalFacts DEF By
<1>7. /\ pc'[p] \in {"check", "merge"} /\ job'[p] = j /\ todo'[p] = todo[p] \ {j}
  BY <1>2, <1>5, <1>6 DEF After
<1>8. Replayed(p) /\ alive \subseteq node
  BY <1>1, <1>3 DEF Rebuilds, ReplayFacts, Replaying
<1>9. UNCHANGED <<alive, node, edge, row, deleting>>  BY <1>1 DEF stores
<1>10. \A k \in todo[p] : k.edge = j.edge => k = j
  <2> SUFFICES ASSUME NEW k \in todo[p], k.edge = j.edge PROVE k = j  OBVIOUS
  <2>1. k.by = j.by  BY <1>8 DEF Replayed
  <2>2. k = [edge |-> k.edge, by |-> k.by]  BY <1>4, JobFacts
  <2> QED BY <1>5, <2>1, <2>2
<1>11. Undone(p)' = Undone(p) \ {j.edge} /\ j.edge \in Undone(p)
  BY <1>7, <1>10 DEF Undone
<1>12. Unmerged(p)' = Undone(p) /\ Unmerged(p) = Undone(p)
  BY <1>1, <1>7, <1>11 DEF Unmerged
<1>13. Replayed(p)'
  <2>1. \A k \in todo'[p] : k.by = row'[k.edge]  BY <1>7, <1>8, <1>9 DEF Replayed
  <2>2. job'[p].by = row'[job'[p].edge] /\ job'[p].edge \notin Undone(p)'
    BY <1>7, <1>8, <1>9, <1>11 DEF Replayed
  <2>3. \A e \in Edges : edge'[e] = IF e \in Unmerged(p)' THEN "none" ELSE row'[e]
    BY <1>8, <1>9, <1>12 DEF Replayed
  <2>4. ASSUME NEW e \in Unmerged(p)', NEW f \in Edges, Before(e, f), row[f] # "none"
        PROVE  f \in Undone(p)'
    <3>1. f \in Undone(p)  BY <1>8, <1>12, <2>4 DEF Replayed
    <3>2. f # j.edge
      <4>1. e \in Undone(p)  BY <1>12
      <4>2. PICK k \in todo[p] : k.edge = e  BY <4>1 DEF Undone
      <4> QED BY <1>2, <2>4, <4>2
    <3> QED BY <1>11, <3>1, <3>2
  <2>5. \A e \in Unmerged(p)', f \in Edges :
          Before(e, f)' /\ row'[f] # "none" => f \in Undone(p)'
    <3>1. \A e, f : Before(e, f)' <=> Before(e, f)  BY DEF Before
    <3> QED BY <1>9, <2>4, <3>1
  <2> QED BY <2>1, <2>2, <2>3, <2>5 DEF Replayed
<1>14. ReplayFacts(p)'  BY <1>7, <1>8, <1>9, <1>13 DEF ReplayFacts
<1> QED BY <1>1, <1>3, <1>9, <1>14, OwnRebuild

LEMMA EndRebuilds ==
  ASSUME WorkInv, Rebuilds, NEW p \in Procs, regime' = regime,
         RebuildFinish(p) \/ RebuildCrash(p)
  PROVE  Rebuilds'
<1>1. Moves(p) /\ deleting' = deleting /\ role'[p] = "none"
  BY RebuildFinishShape, AbortShape DEF stores, After
<1>2. role[p] = "rebuild"
  BY RoleAt, RebuildFinishShape, AbortShape
<1> QED BY <1>1, <1>2, OwnRebuild

LEMMA StandingRebuilds ==
  ASSUME WorkInv, "rebuild" \in Alone, Rebuilds, NEW n, NEW e,
         DeleteCommit(n) \/ DeleteNode(n) \/ (e \in Edges /\ Prune(e))
  PROVE  Rebuilds'
<1>1. NobodyRebuilds
  <2>1. CASE DeleteCommit(n)  BY <2>1, AloneFacts DEF DeleteCommit
  <2>2. CASE DeleteNode(n)
    BY <2>2 DEF DeleteNode, Rebuilds, Undisturbed, NobodyRebuilds
  <2>3. CASE e \in Edges /\ Prune(e)
    BY <2>3, IdleFacts DEF Prune, Quiet, NobodyRebuilds
  <2> QED BY <2>1, <2>2, <2>3
<1>2. role' = role  BY DEF DeleteCommit, DeleteNode, Prune, work
<1> QED BY <1>1, <1>2 DEF NobodyRebuilds, Rebuilds, Undisturbed, ReplayFacts

-----------------------------------------------------------------------------
(* One command at a time.                                                  *)

Single ==
  /\ \A p, q \in Procs : pc[p] # "idle" /\ pc[q] # "idle" => p = q
  /\ \A p \in Procs : pc[p] # "idle" => deleting = {}

(* A source that is being deleted has no rows any more. *)
Deleted == \A n \in deleting : \A e \in Touching(n) : row[e] = "none"

(* A row, and the provenance in the graph that it may stand beside. *)
Told(v, o) == v = o \/ (v = "curator" /\ o = "relinked")
Curated == {"curator", "relinked"}

(* The graph has what the committed rows say, except for what a commit has yet
   to say or never will; a row is a curator's only if the edge is. *)
Agreed == NobodyRebuilds => \A e \in Edges :
  /\ e \notin loose => Told(row[e], Origin(e))
  /\ row[e] \in Curated => Origin(e) \in Curated

(* What p is about to write in the rows is in the graph. *)
MatchedBy(p) == role[p] # "rebuild" =>
  /\ \A e \in Edges : pending[p][e] # "none" => Told(pending[p][e], Origin(e))
  /\ pc[p] = "row" => Told(job[p].by, edge[job[p].edge])
  /\ pc[p] = "capture" => \A j \in todo[p] : j.by = Origin(j.edge)

(* What p has looked up still holds when it merges. *)
CheckedBy(p) ==
  /\ pc[p] \in {"reverse", "merge"} /\ job[p].by = "llm" => ~Protected(job[p].edge)
  /\ pc[p] = "merge" /\ job[p].by = "llm" /\ IsSymmetric(job[p].edge) =>
       ~Protected(Reverse(job[p].edge))

InTurn == /\ Single /\ Deleted /\ Agreed
          /\ \A p \in Procs : MatchedBy(p) /\ CheckedBy(p)

SerialInv == RebuildInv /\ (Serial => InTurn)

Solo(p) == /\ deleting = {}
           /\ \A q \in Procs \ {p} : pc[q] = "idle" /\ role[q] = "none" /\ pending[q] = NoRows

LEMMA SerialAlone == Serial => "rebuild" \in Alone /\ "write" \in Alone
BY DEF Serial

LEMMA QuietFacts ==
  ASSUME WorkInv, Serial
  PROVE  /\ MayWrite => Quiet /\ \A p \in Procs : Solo(p)
         /\ MayRebuild => Quiet /\ \A p \in Procs : Solo(p)
BY SerialAlone, IdleFacts DEF MayWrite, MayRebuild, Quiet, Solo

LEMMA SingleSolo ==
  ASSUME WorkInv, Single, NEW p \in Procs, pc[p] # "idle"
  PROVE  Solo(p)
BY IdleFacts DEF Single, Solo

(* An idle process has nothing to match. *)
LEMMA IdleInTurn ==
  ASSUME WorkInv, NEW p \in Procs, pc[p] = "idle"
  PROVE  MatchedBy(p) /\ CheckedBy(p)
BY IdleFacts, NoRowsFacts DEF MatchedBy, CheckedBy

LEMMA SoloKeeps ==
  ASSUME WorkInv', NEW p \in Procs, Solo(p), Moves(p), deleting' = deleting,
         Agreed', MatchedBy(p)', CheckedBy(p)'
  PROVE  InTurn'
<1>1. \A q \in Procs \ {p} : pc'[q] = "idle" /\ role'[q] = "none" /\ pending'[q] = NoRows
  BY DEF Solo, Moves, Others
<1>2. deleting' = {}  BY DEF Solo
<1>3. Single' /\ Deleted'  BY <1>1, <1>2 DEF Single, Deleted
<1>4. ASSUME NEW q \in Procs \ {p} PROVE MatchedBy(q)' /\ CheckedBy(q)'
  <2>1. \A e \in Edges : pending'[q][e] = "none"  BY <1>1, NoRowsFacts
  <2> QED BY <1>1, <2>1 DEF MatchedBy, CheckedBy
<1> QED BY <1>3, <1>4 DEF InTurn

LEMMA SoloNobody ==
  ASSUME NEW p \in Procs, Solo(p), role[p] # "rebuild"
  PROVE  NobodyRebuilds
BY DEF Solo, NobodyRebuilds

(* A step that touches no store. *)
LEMMA SameAgreed ==
  ASSUME NEW p \in Procs, Solo(p), Agreed, UNCHANGED <<stores, history>>,
         role[p] # "rebuild" \/ role'[p] = "rebuild"
  PROVE  Agreed'
<1>1. NobodyRebuilds' => NobodyRebuilds  BY SoloNobody DEF NobodyRebuilds
<1>2. \A e \in Edges : Origin(e)' = Origin(e) /\ row'[e] = row[e]
  BY DEF Origin, stores
<1>3. loose' = loose  BY DEF history
<1> QED BY <1>1, <1>2, <1>3 DEF Agreed

LEMMA StartInTurn ==
  ASSUME WorkInv, WorkInv', Serial, InTurn, NEW p \in Procs, regime' = regime,
         Link(p) \/ RunStart(p) \/ BackfillRead(p)
  PROVE  InTurn'
<1>1. MayWrite /\ pc[p] = "idle" /\ UNCHANGED <<stores, history>> /\ Moves(p)
  BY LinkShape, RunStartShape, BackfillReadShape
<1>2. Solo(p)  BY <1>1, QuietFacts
<1>3. pending[p] = NoRows /\ role[p] = "none"  BY <1>1, IdleFacts
<1>4. Agreed'  BY <1>1, <1>2, <1>3, SameAgreed DEF InTurn
<1>5. \A e : Origin(e)' = Origin(e)  BY <1>1 DEF Origin, stores
<1>6. MatchedBy(p)' /\ CheckedBy(p)'
  <2>1. CASE Link(p)
    <3>1. PICK e \in Edges :
            After(p, "link", "merge", [edge |-> e, by |-> "curator"],
                  listed[p], left[p], todo[p], pending[p])
      BY <2>1, LinkShape
    <3> QED BY <1>3, <3>1, NoRowsFacts DEF After, MatchedBy, CheckedBy
  <2>2. CASE RunStart(p)
    <3>1. After(p, "run", "open", job[p], alive, RunEdges, todo[p], pending[p])
      BY <2>2, RunStartShape
    <3> QED BY <1>3, <3>1, NoRowsFacts DEF After, MatchedBy, CheckedBy
  <2>3. CASE BackfillRead(p)
    <3> DEFINE T == {[edge |-> e, by |-> Origin(e)] : e \in {f \in Edges : edge[f] # "none"}}
    <3>1. After(p, "backfill", "capture", job[p], listed[p], left[p], T, pending[p])
      BY <2>3, BackfillReadShape
    <3>2. \A j \in T : j.by = Origin(j.edge)  OBVIOUS
    <3> HIDE DEF T
    <3> QED BY <1>3, <1>5, <3>1, <3>2, NoRowsFacts DEF After, MatchedBy, CheckedBy
  <2> QED BY <2>1, <2>2, <2>3
<1>7. deleting' = deleting  BY <1>1 DEF stores
<1> QED BY <1>1, <1>2, <1>4, <1>6, <1>7, SoloKeeps

LEMMA RunInTurn ==
  ASSUME WorkInv, WorkInv', InTurn, NEW p \in Procs, regime' = regime,
         RunPropose(p) \/ RunEnd(p) \/ RebuildRows(p) \/ Replay(p)
  PROVE  InTurn'
<1>1. /\ pc[p] \in {"open", "rows", "replay"} /\ UNCHANGED <<stores, history>> /\ Moves(p)
  BY RunProposeShape, RunEndShape, RebuildRowsShape, ReplayShape
<1>2. Solo(p)  BY <1>1, SingleSolo DEF InTurn
<1>3. /\ role'[p] = role[p] /\ pending'[p] = pending[p]
      /\ \/ pc'[p] \in {"check", "commit", "replay"}
         \/ pc'[p] = "merge" /\ job'[p].by # "llm"
  <2>1. CASE RunPropose(p)  BY <2>1, RunProposeShape DEF After
  <2>2. CASE RunEnd(p)  BY <2>2, RunEndShape DEF After
  <2>3. CASE RebuildRows(p)  BY <2>3, RebuildRowsShape DEF After
  <2>4. CASE Replay(p)
    <3>1. PICK j \in todo[p] :
            After(p, role[p], IF j.by = "llm" THEN "check" ELSE "merge",
                  [edge |-> Canonical(j.edge, j.by), by |-> j.by],
                  listed[p], left[p], todo[p] \ {j}, pending[p])
      BY <2>4, ReplayShape
    <3> QED BY <3>1 DEF After
  <2> QED BY <2>1, <2>2, <2>3, <2>4
<1>4. Agreed'  BY <1>1, <1>2, <1>3, SameAgreed DEF InTurn
<1>5. \A e : Origin(e)' = Origin(e)  BY <1>1 DEF Origin, stores
<1>6. MatchedBy(p)'
  <2>1. MatchedBy(p)  BY DEF InTurn
  <2>2. pc'[p] \notin {"row", "capture"}  BY <1>3
  <2> QED BY <1>3, <1>5, <2>1, <2>2 DEF MatchedBy
<1>7. CheckedBy(p)'  BY <1>3 DEF CheckedBy
<1>8. deleting' = deleting  BY <1>1 DEF stores
<1> QED BY <1>1, <1>2, <1>4, <1>6, <1>7, <1>8, SoloKeeps

LEMMA CheckInTurn ==
  ASSUME WorkInv, WorkInv', InTurn, NEW p \in Procs, regime' = regime,
         Check(p) \/ CheckReverse(p)
  PROVE  InTurn'
<1>1. UNCHANGED <<stores, history>> /\ Moves(p)  BY CheckShape
<1>2. pc[p] \in {"check", "reverse"}  BY DEF Check, CheckReverse
<1>3. Solo(p)  BY <1>2, SingleSolo DEF InTurn
<1>4. PICK s \in Steps :
        /\ After(p, role[p], s, job[p], listed[p], left[p], todo[p], pending[p])
        /\ \/ s \in {"replay", "open"}
           \/ /\ pc[p] = "check" /\ ~Protected(job[p].edge)
              /\ s = IF IsSymmetric(job[p].edge) THEN "reverse" ELSE "merge"
           \/ /\ pc[p] = "reverse" /\ ~Protected(Reverse(job[p].edge)) /\ s = "merge"
  BY CheckShape
<1>5. /\ pc'[p] = s /\ job'[p] = job[p] /\ role'[p] = role[p] /\ pending'[p] = pending[p]
  BY <1>4 DEF After
<1>6. Agreed'  BY <1>1, <1>3, <1>5, SameAgreed DEF InTurn
<1>7. \A e : Origin(e)' = Origin(e) /\ (Protected(e)' <=> Protected(e))
  BY <1>1 DEF Origin, Protected, stores
<1>8. MatchedBy(p)'
  <2>1. MatchedBy(p)  BY DEF InTurn
  <2>2. pc'[p] \notin {"row", "capture"}  BY <1>4, <1>5
  <2> QED BY <1>5, <1>7, <2>1, <2>2 DEF MatchedBy
<1>9. CheckedBy(p)'
  <2>1. CheckedBy(p)  BY DEF InTurn
  <2>2. IsSymmetric(job[p].edge)' <=> IsSymmetric(job[p].edge)  BY <1>5 DEF IsSymmetric
  <2>3. CASE s \in {"replay", "open"}  BY <1>5, <2>3 DEF CheckedBy
  <2>4. CASE /\ pc[p] = "check" /\ ~Protected(job[p].edge)
             /\ s = IF IsSymmetric(job[p].edge) THEN "reverse" ELSE "merge"
    BY <1>5, <1>7, <2>4 DEF CheckedBy, IsSymmetric
  <2>5. CASE /\ pc[p] = "reverse" /\ ~Protected(Reverse(job[p].edge)) /\ s = "merge"
    BY <1>5, <1>7, <2>1, <2>5 DEF CheckedBy
  <2> QED BY <1>4, <2>3, <2>4, <2>5
<1>10. deleting' = deleting  BY <1>1 DEF stores
<1> QED BY <1>1, <1>3, <1>6, <1>8, <1>9, <1>10, SoloKeeps

LEMMA MergeInTurn ==
  ASSUME WorkInv, WorkInv', InTurn, NEW p \in Procs, regime' = regime, Merge(p)
  PROVE  InTurn'
<1> DEFINE s == IF role[p] = "rebuild" THEN "replay" ELSE "row"
<1>1. /\ pc[p] = "merge" /\ UNCHANGED <<alive, row, deleting, wiped>> /\ Moves(p)
      /\ edge' = [edge EXCEPT ![job[p].edge] = Stamped(@, job[p].by)]
      /\ loose' = IF role[p] = "rebuild" THEN loose ELSE loose \cup {job[p].edge}
      /\ After(p, role[p], s, job[p], listed[p], left[p], todo[p], pending[p])
  BY MergeShape
<1>2. Solo(p)  BY <1>1, SingleSolo DEF InTurn
<1>3. /\ role'[p] = role[p] /\ pc'[p] = s /\ job'[p] = job[p] /\ pending'[p] = pending[p]
  BY <1>1 DEF After
<1>4. CheckedBy(p)'  BY <1>3 DEF CheckedBy
<1>5. CASE role[p] = "rebuild"
  <2>1. MatchedBy(p)'  BY <1>3, <1>5 DEF MatchedBy
  <2>2. Agreed'  BY <1>3, <1>5 DEF Agreed, NobodyRebuilds
  <2> QED BY <1>1, <1>2, <1>4, <2>1, <2>2, SoloKeeps
<1>6. CASE role[p] # "rebuild"
  <2>1. Own(p) /\ MatchedBy(p) /\ CheckedBy(p) /\ NobodyRebuilds
    BY <1>2, <1>6, SoloNobody DEF WorkInv, InTurn
  <2>2. PICK e \in Edges : e = job[p].edge /\ job[p].by \in By
    BY <1>1, <2>1, JobFacts DEF Own, ProcOK, Holding
  <2>3. PICK v \in By : v = Stamped(edge[e], job[p].by)  BY <2>2, StampFacts
  <2>4. \A f \in Edges : edge'[f] = IF f = e THEN v ELSE edge[f]
    BY <1>1, <2>2, <2>3 DEF WorkInv, StoresOK
  <2>10. Origin(e)' = v /\ \A f \in Edges : f # e => Origin(f)' = Origin(f)
    BY <2>2, <2>3, <2>4 DEF Origin, By
  <2>5. job[p].by = "llm" => Origin(e) \notin Curated
    BY <1>1, <2>1, <2>2 DEF CheckedBy, Protected, Origin, Curated
  <2>11. Told(job[p].by, v) /\ (job[p].by # "llm" => v \in Curated)
    BY <2>2, <2>3, StampFacts DEF Told, Curated, By
  <2>6. pending[p][e] # "none" => Told(pending[p][e], v)
    <3>1. role[p] \in {"link", "run"}  BY <1>1, <1>6, RoleAt
    <3>2. CASE role[p] = "link"
      BY <1>1, <2>1, <2>2, <3>2, NoRowsFacts DEF Own, LinkFacts
    <3>3. CASE role[p] = "run"
      <4>1. job[p].by = "llm" /\ pending[p][e] \in {"none", "llm"}
        BY <1>1, <2>1, <2>2, <3>3 DEF Own, RunFacts, Holding
      <4> QED BY <2>11, <4>1
    <3> QED BY <3>1, <3>2, <3>3
  <2>7. edge'[e] = v  BY <2>2, <2>4
  <2>8. MatchedBy(p)'
    <3>1. \A f \in Edges : pending'[p][f] # "none" => Told(pending'[p][f], Origin(f)')
      BY <1>3, <1>6, <2>1, <2>10, <2>6 DEF MatchedBy
    <3>2. Told(job'[p].by, edge'[job'[p].edge])  BY <1>3, <2>2, <2>7, <2>11
    <3>3. pc'[p] = "row"  BY <1>3, <1>6
    <3> QED BY <3>1, <3>2, <3>3 DEF MatchedBy, Told
  <2>9. Agreed'
    <3> SUFFICES ASSUME NEW f \in Edges
                 PROVE  /\ f \notin loose' => Told(row'[f], Origin(f)')
                        /\ row'[f] \in Curated => Origin(f)' \in Curated
      BY DEF Agreed
    <3>1. /\ f \notin loose => Told(row[f], Origin(f))
          /\ row[f] \in Curated => Origin(f) \in Curated
      BY <2>1 DEF InTurn, Agreed
    <3>2. CASE f = e
      BY <1>1, <1>6, <2>2, <2>10, <2>11, <2>5, <3>1, <3>2
    <3>3. CASE f # e  BY <1>1, <1>6, <2>10, <3>1, <3>3
    <3> QED BY <3>2, <3>3
  <2> QED BY <1>1, <1>2, <1>4, <2>8, <2>9, SoloKeeps
<1> QED BY <1>5, <1>6

LEMMA RecordInTurn ==
  ASSUME WorkInv, WorkInv', InTurn, NEW p \in Procs, regime' = regime,
         RecordRow(p) \/ BackfillRows(p)
  PROVE  InTurn'
<1>1. /\ pc[p] \in {"row", "capture"} /\ UNCHANGED <<stores, history>> /\ Moves(p)
      /\ role'[p] = role[p] /\ pc'[p] \in {"commit", "open"}
  <2>1. CASE RecordRow(p)  BY <2>1, RecordRowShape DEF After
  <2>2. CASE BackfillRows(p)  BY <2>2, BackfillRowsShape DEF After
  <2> QED BY <2>1, <2>2
<1>2. Solo(p) /\ MatchedBy(p)  BY <1>1, SingleSolo DEF InTurn
<1>3. role[p] # "rebuild"  BY <1>1, RoleAt
<1>4. Agreed'  BY <1>1, <1>2, <1>3, SameAgreed DEF InTurn
<1>5. \A e : Origin(e)' = Origin(e)  BY <1>1 DEF Origin, stores
<1>6. \A f \in Edges : pending'[p][f] # "none" => Told(pending'[p][f], Origin(f))
  <2>1. CASE RecordRow(p)
    <3> DEFINE e == job[p].edge
               w == [pending[p] EXCEPT ![e] = job[p].by]
    <3>1. pc[p] = "row" /\ pending'[p] = w  BY <2>1, RecordRowShape DEF After
    <3>2. Own(p) /\ pending[p] \in Written  BY Same DEF WorkInv
    <3>3. e \in Edges /\ job[p].by \in By  BY <3>1, <3>2, JobFacts DEF Own, ProcOK, Holding
    <3>4. \A f \in Edges : w[f] = IF f = e THEN job[p].by ELSE pending[p][f]
      BY <3>2, <3>3 DEF Written
    <3>5. Told(job[p].by, edge[e])  BY <1>2, <1>3, <3>1 DEF MatchedBy
    <3>6. Told(job[p].by, Origin(e))  BY <3>3, <3>5 DEF Origin, By, Told
    <3> HIDE DEF e, w
    <3> QED BY <1>2, <1>3, <3>1, <3>4, <3>6 DEF MatchedBy
  <2>2. CASE BackfillRows(p)
    <3>1. pc[p] = "capture" /\ pending'[p] = Captured(p)
      BY <2>2, BackfillRowsShape DEF After
    <3>2. \A j \in todo[p] : j.by = Origin(j.edge)  BY <1>2, <1>3, <3>1 DEF MatchedBy
    <3>3. ASSUME NEW f \in Edges, Captured(p)[f] # "none"
          PROVE  Captured(p)[f] = Origin(f)
      <4>1. PICK by \in By : Captured(p)[f] = by /\ [edge |-> f, by |-> by] \in todo[p]
        BY <3>3, CapturedFacts
      <4> DEFINE j == [edge |-> f, by |-> by]
      <4>2. j \in todo[p] /\ j.edge = f /\ j.by = by  BY <4>1
      <4> QED BY <3>2, <4>1, <4>2
    <3> QED BY <3>1, <3>3 DEF Told
  <2> QED BY <2>1, <2>2
<1>7. MatchedBy(p)' /\ CheckedBy(p)'
  BY <1>1, <1>5, <1>6 DEF MatchedBy, CheckedBy
<1>8. deleting' = deleting  BY <1>1 DEF stores
<1> QED BY <1>1, <1>2, <1>4, <1>7, <1>8, SoloKeeps

LEMMA CommitInTurn ==
  ASSUME WorkInv, WorkInv', InTurn, NEW p \in Procs, regime' = regime, Commit(p)
  PROVE  InTurn'
<1>1. /\ pc[p] = "commit" /\ UNCHANGED <<alive, node, edge, deleting, wiped>> /\ Moves(p)
      /\ After(p, "none", "idle", NoJob, {}, 0, {}, NoRows)
      /\ row' = [e \in Edges |-> IF pending[p][e] # "none" THEN pending[p][e] ELSE row[e]]
      /\ loose' = {e \in loose : pending[p][e] = "none"}
  BY CommitShape
<1>2. Solo(p) /\ MatchedBy(p)  BY <1>1, SingleSolo DEF InTurn
<1>3. role[p] # "rebuild"  BY <1>1, RoleAt
<1>4. NobodyRebuilds  BY <1>2, <1>3, SoloNobody
<1>5. Agreed'
  <2> SUFFICES ASSUME NEW e \in Edges
               PROVE  /\ e \notin loose' => Told(row'[e], Origin(e)')
                      /\ row'[e] \in Curated => Origin(e)' \in Curated
    BY DEF Agreed
  <2>1. /\ e \notin loose => Told(row[e], Origin(e))
        /\ row[e] \in Curated => Origin(e) \in Curated
    BY <1>4 DEF InTurn, Agreed
  <2>2. Origin(e)' = Origin(e)  BY <1>1 DEF Origin
  <2>3. pending[p][e] # "none" => Told(pending[p][e], Origin(e))
    BY <1>2, <1>3 DEF MatchedBy
  <2> QED BY <1>1, <2>1, <2>2, <2>3 DEF Told, Curated
<1>6. pc'[p] = "idle"  BY <1>1 DEF After
<1>7. MatchedBy(p)' /\ CheckedBy(p)'
  <2>1. \A e \in Edges : pending'[p][e] = "none"  BY <1>1, NoRowsFacts DEF After
  <2> QED BY <1>6, <2>1 DEF MatchedBy, CheckedBy
<1> QED BY <1>1, <1>2, <1>5, <1>7, SoloKeeps

LEMMA AbortInTurn ==
  ASSUME WorkInv, WorkInv', Serial, InTurn, NEW p \in Procs, regime' = regime,
         Abort(p) \/ RebuildCrash(p)
  PROVE  InTurn'
<1>1. /\ role[p] # "none" /\ UNCHANGED <<stores, history>> /\ Moves(p)
      /\ RebuildCrash(p) => "rebuild" \in Faults
      /\ Abort(p) => role[p] # "rebuild"
      /\ After(p, "none", "idle", NoJob, {}, 0, {}, NoRows)
  BY AbortShape
<1>2. role[p] # "rebuild"  BY <1>1 DEF Serial
<1>3. Solo(p)  BY <1>1, IdleFacts, SingleSolo DEF InTurn
<1>4. Agreed'  BY <1>1, <1>2, <1>3, SameAgreed DEF InTurn
<1>5. MatchedBy(p)' /\ CheckedBy(p)'
  <2>1. pc'[p] = "idle" /\ \A e \in Edges : pending'[p][e] = "none"
    BY <1>1, NoRowsFacts DEF After
  <2> QED BY <2>1 DEF MatchedBy, CheckedBy
<1>6. deleting' = deleting  BY <1>1 DEF stores
<1> QED BY <1>1, <1>3, <1>4, <1>5, <1>6, SoloKeeps

LEMMA RebuildInTurn ==
  ASSUME WorkInv, WorkInv', Serial, Rebuilds, InTurn, NEW p \in Procs, regime' = regime,
         RebuildDrop(p) \/ RebuildProject(p) \/ RebuildFinish(p)
  PROVE  InTurn'
<1>1. CASE RebuildDrop(p) \/ RebuildProject(p)
  <2>1. /\ Solo(p) /\ Moves(p) /\ deleting' = deleting
        /\ role'[p] = "rebuild" /\ pc'[p] \in {"project", "rows"}
    <3>1. CASE RebuildDrop(p)
      BY <3>1, RebuildDropShape, QuietFacts DEF After
    <3>2. CASE RebuildProject(p)
      BY <3>2, RebuildProjectShape, RoleAt, SingleSolo DEF After, InTurn
    <3> QED BY <1>1, <3>1, <3>2
  <2>2. Agreed' /\ MatchedBy(p)' /\ CheckedBy(p)'
    BY <2>1 DEF Agreed, NobodyRebuilds, MatchedBy, CheckedBy
  <2> QED BY <2>1, <2>2, SoloKeeps
<1>2. CASE RebuildFinish(p)
  <2>1. /\ pc[p] = "replay" /\ todo[p] = {} /\ UNCHANGED stores /\ Moves(p)
        /\ After(p, "none", "idle", NoJob, {}, 0, {}, NoRows)
    BY <1>2, RebuildFinishShape
  <2>2. Solo(p)  BY <2>1, SingleSolo DEF InTurn
  <2>3. Replayed(p)
    BY <2>1, RoleAt DEF Rebuilds, ReplayFacts, Replaying
  <2>4. \A e \in Edges : edge[e] = row[e]
    BY <2>1, <2>3 DEF Replayed, Unmerged, Undone
  <2>5. Agreed'
    <3>1. \A e \in Edges : Origin(e) = row[e]
      <4>1. row \in Written  BY DEF WorkInv, StoresOK
      <4> QED BY <2>4, <4>1 DEF Origin, Written, By
    <3>2. \A e \in Edges : Origin(e)' = row'[e]  BY <2>1, <3>1 DEF stores, Origin
    <3> QED BY <3>2 DEF Agreed, Told
  <2>6. MatchedBy(p)' /\ CheckedBy(p)'
    <3>1. pc'[p] = "idle" /\ \A e \in Edges : pending'[p][e] = "none"
      BY <2>1, NoRowsFacts DEF After
    <3> QED BY <3>1 DEF MatchedBy, CheckedBy
  <2>7. deleting' = deleting  BY <2>1 DEF stores
  <2> QED BY <2>1, <2>2, <2>5, <2>6, <2>7, SoloKeeps
<1> QED BY <1>1, <1>2

LEMMA StandingInTurn ==
  ASSUME WorkInv, WorkInv', Serial, InTurn, NEW n, NEW e,
         DeleteCommit(n) \/ DeleteNode(n) \/ (e \in Edges /\ Prune(e)), regime' = regime
  PROVE  InTurn'
<1>1. \A p \in Procs : pc[p] = "idle" /\ role[p] = "none"
  <2>1. CASE DeleteCommit(n)
    BY <2>1, QuietFacts, IdleFacts DEF DeleteCommit, Quiet
  <2>2. CASE DeleteNode(n)
    BY <2>2, IdleFacts DEF DeleteNode, InTurn, Single
  <2>3. CASE e \in Edges /\ Prune(e)
    BY <2>3, IdleFacts DEF Prune, Quiet
  <2> QED BY <2>1, <2>2, <2>3
<1>2. UNCHANGED work  BY DEF DeleteCommit, DeleteNode, Prune
<1>3. \A p \in Procs : pc'[p] = "idle"  BY <1>1, <1>2 DEF work
<1>4. Single'  BY <1>3 DEF Single
<1>5. \A p \in Procs : MatchedBy(p)' /\ CheckedBy(p)'
  <2> TAKE p \in Procs
  <2>1. \A f \in Edges : pending'[p][f] = "none"
    BY <1>1, <1>2, IdleFacts, NoRowsFacts DEF work
  <2> QED BY <1>3, <2>1 DEF MatchedBy, CheckedBy
<1>6. NobodyRebuilds  BY <1>1 DEF NobodyRebuilds
<1>7. \A f \in Edges : /\ f \notin loose => Told(row[f], Origin(f))
                       /\ row[f] \in Curated => Origin(f) \in Curated
  BY <1>6 DEF InTurn, Agreed
<1>8. Deleted' /\ Agreed'
  <2>1. CASE DeleteCommit(n)
    <3>1. /\ row' = [f \in Edges |-> IF f \in Touching(n) THEN "none" ELSE row[f]]
          /\ loose' = loose \cup {f \in Touching(n) : edge[f] # "none"}
          /\ deleting' = deleting \cup {n} /\ edge' = edge
      BY <2>1 DEF DeleteCommit
    <3>2. deleting = {}  BY <2>1, QuietFacts DEF DeleteCommit, Quiet
    <3>3. Touching(n)' = Touching(n) /\ Touching(n) \subseteq Edges  BY DEF Touching
    <3>4. Deleted'
      <4>1. \A f \in Touching(n) : row'[f] = "none"  BY <3>1, <3>3
      <4>2. deleting' = {n}  BY <3>1, <3>2
      <4> QED BY <4>1, <4>2 DEF Deleted, Touching
    <3>5. Agreed'
      <4> SUFFICES ASSUME NEW f \in Edges
                   PROVE  /\ f \notin loose' => Told(row'[f], Origin(f)')
                          /\ row'[f] \in Curated => Origin(f)' \in Curated
        BY DEF Agreed
      <4>1. Origin(f)' = Origin(f)  BY <3>1 DEF Origin
      <4>2. CASE f \in Touching(n)  BY <3>1, <4>1, <4>2 DEF Origin, Told, Curated
      <4>3. CASE f \notin Touching(n)  BY <1>7, <3>1, <4>1, <4>3
      <4> QED BY <4>2, <4>3
    <3> QED BY <3>4, <3>5
  <2>2. CASE DeleteNode(n)
    <3>1. n \in deleting /\ deleting' = deleting \ {n} /\ row' = row
      BY <2>2 DEF DeleteNode
    <3>2. Deleted'  BY <3>1 DEF InTurn, Deleted, Touching
    <3>3. CASE UNCHANGED <<edge, loose>>
      <4>1. \A f \in Edges : Origin(f)' = Origin(f)  BY <3>3 DEF Origin
      <4>2. Agreed'  BY <1>7, <3>1, <3>3, <4>1 DEF Agreed
      <4> QED BY <3>2, <4>2
    <3>4. CASE /\ edge' = [f \in Edges |-> IF f \in Touching(n) THEN "none" ELSE edge[f]]
               /\ loose' = loose \ Touching(n)
      <4> SUFFICES ASSUME NEW f \in Edges
                   PROVE  /\ f \notin loose' => Told(row'[f], Origin(f)')
                          /\ row'[f] \in Curated => Origin(f)' \in Curated
        BY <3>2 DEF Agreed
      <4>1. CASE f \in Touching(n)
        <5>1. row[f] = "none"  BY <3>1, <4>1 DEF InTurn, Deleted
        <5>2. Origin(f)' = "none"  BY <3>4, <4>1 DEF Origin
        <5> QED BY <3>1, <5>1, <5>2 DEF Told, Curated
      <4>2. CASE f \notin Touching(n)
        <5>1. Origin(f)' = Origin(f)  BY <3>4, <4>2 DEF Origin
        <5> QED BY <1>7, <3>1, <3>4, <4>2, <5>1
      <4> QED BY <4>1, <4>2
    <3> QED BY <2>2, <3>3, <3>4 DEF DeleteNode
  <2>3. CASE e \in Edges /\ Prune(e)
    <3>1. /\ edge[e] = "llm" /\ edge' = [edge EXCEPT ![e] = "none"]
          /\ loose' = loose \cup {e} /\ UNCHANGED <<row, deleting>>
      BY <2>3 DEF Prune
    <3>2. Deleted'  BY <3>1 DEF InTurn, Deleted, Touching
    <3>3. Origin(e) = "llm" /\ \A f \in Edges \ {e} : Origin(f)' = Origin(f)
      BY <3>1 DEF Origin, WorkInv, StoresOK
    <3>4. Agreed'
      <4> SUFFICES ASSUME NEW f \in Edges
                   PROVE  /\ f \notin loose' => Told(row'[f], Origin(f)')
                          /\ row'[f] \in Curated => Origin(f)' \in Curated
        BY DEF Agreed
      <4>1. CASE f = e  BY <1>7, <3>1, <3>3, <4>1 DEF Curated
      <4>2. CASE f # e  BY <1>7, <3>1, <3>3, <4>2
      <4> QED BY <4>1, <4>2
    <3> QED BY <3>2, <3>4
  <2> QED BY <2>1, <2>2, <2>3
<1> QED BY <1>4, <1>5, <1>8 DEF InTurn

-----------------------------------------------------------------------------
(* Edges are between what is alive, when no delete leaves its half undone.  *)

Ends(e) == {e.from, e.to}

(* While commands take turns no graph half of a delete fails: an edge that one
   has left behind is captured by a backfill. *)
SoundDeletes == \A r \in Regimes :
  {"write", "rebuild"} \subseteq r.alone /\ "rebuild" \notin r.faults => "delete" \notin r.faults

LiveStores == \A e \in Edges :
  /\ edge[e] # "none" => Ends(e) \subseteq alive \cup deleting
  /\ row[e] # "none" => Ends(e) \subseteq alive

LiveWork(p) ==
  /\ \A e \in Edges : pending[p][e] # "none" => Ends(e) \subseteq alive
  /\ \A j \in todo[p] : Ends(j.edge) \subseteq alive
  /\ pc[p] \in Holding => Ends(job[p].edge) \subseteq alive
  /\ role[p] = "run" => listed[p] \subseteq alive
  /\ role[p] = "rebuild" => node \subseteq alive

Lives == LiveStores /\ \A p \in Procs : LiveWork(p)

LiveInv == SerialInv /\ (Serial => Lives)

LEMMA SoloLives ==
  ASSUME NEW p \in Procs, Solo(p), WorkInv, Moves(p), LiveStores', LiveWork(p)'
  PROVE  Lives'
<1>1. ASSUME NEW q \in Procs \ {p} PROVE LiveWork(q)'
  <2>1. pc[q] = "idle" /\ role[q] = "none" /\ pending[q] = NoRows /\ todo[q] = {}
    BY IdleFacts DEF Solo
  <2>2. pc'[q] = "idle" /\ role'[q] = "none" /\ pending'[q] = NoRows /\ todo'[q] = {}
    BY <2>1 DEF Moves, Others
  <2> QED BY <2>2, NoRowsFacts DEF LiveWork, Holding
<1> QED BY <1>1 DEF Lives

LEMMA StartLives ==
  ASSUME WorkInv, Serial, Lives, NEW p \in Procs, regime' = regime,
         Link(p) \/ RunStart(p) \/ BackfillRead(p)
  PROVE  Lives'
<1>1. MayWrite /\ pc[p] = "idle" /\ UNCHANGED <<stores, history>> /\ Moves(p)
  BY LinkShape, RunStartShape, BackfillReadShape
<1>2. Solo(p)  BY <1>1, QuietFacts
<1>3. pending[p] = NoRows /\ todo[p] = {}  BY <1>1, IdleFacts
<1>4. LiveStores'  BY <1>1 DEF Lives, LiveStores, Ends, stores
<1>5. LiveWork(p)'
  <2>0. alive' = alive  BY <1>1 DEF stores
  <2>1. CASE Link(p)
    <3>1. PICK e \in Edges :
            /\ {e.from, e.to} \subseteq alive
            /\ After(p, "link", "merge", [edge |-> e, by |-> "curator"],
                     listed[p], left[p], todo[p], pending[p])
      BY <2>1, LinkShape
    <3> QED BY <1>3, <2>0, <3>1, NoRowsFacts DEF After, LiveWork, Ends
  <2>2. CASE RunStart(p)
    <3>1. After(p, "run", "open", job[p], alive, RunEdges, todo[p], pending[p])
      BY <2>2, RunStartShape
    <3> QED BY <1>3, <2>0, <3>1, NoRowsFacts DEF After, LiveWork, Holding
  <2>3. CASE BackfillRead(p)
    <3> DEFINE T == {[edge |-> e, by |-> Origin(e)] : e \in {f \in Edges : edge[f] # "none"}}
    <3>1. After(p, "backfill", "capture", job[p], listed[p], left[p], T, pending[p])
      BY <2>3, BackfillReadShape
    <3>2. \A j \in T : Ends(j.edge) \subseteq alive
      <4>1. \A e \in Edges : edge[e] # "none" => Ends(e) \subseteq alive
        BY <1>2 DEF Lives, LiveStores, Solo
      <4> QED BY <4>1
    <3> HIDE DEF T
    <3> QED BY <1>3, <2>0, <3>1, <3>2, NoRowsFacts DEF After, LiveWork, Holding, Ends
  <2> QED BY <2>1, <2>2, <2>3
<1> QED BY <1>1, <1>2, <1>4, <1>5, SoloLives

LEMMA RunLives ==
  ASSUME WorkInv, InTurn, Lives, NEW p \in Procs, regime' = regime,
         \/ RunPropose(p) \/ RunEnd(p) \/ Check(p) \/ CheckReverse(p)
         \/ RebuildRows(p) \/ Replay(p)
  PROVE  Lives'
<1>1. /\ pc[p] # "idle" /\ UNCHANGED <<stores, history>> /\ Moves(p)
  BY RunProposeShape, RunEndShape, CheckShape, RebuildRowsShape, ReplayShape
<1>2. Solo(p) /\ LiveWork(p)  BY <1>1, SingleSolo DEF InTurn, Lives
<1>3. LiveStores'  BY <1>1 DEF Lives, LiveStores, Ends, stores
<1>4. UNCHANGED <<alive, node>>  BY <1>1 DEF stores
<1>5. LiveWork(p)'
  <2>1. CASE RunPropose(p)
    <3>1. PICK e \in Edges :
            /\ {e.from, e.to} \subseteq listed[p] \cup alive
            /\ After(p, role[p], "check", [edge |-> Canonical(e, "llm"), by |-> "llm"],
                     listed[p], left[p] - 1, todo[p], pending[p])
      BY <2>1, RunProposeShape
    <3>2. role[p] = "run"  BY <2>1, RunProposeShape, RoleAt
    <3>3. Ends(e) \subseteq alive  BY <1>2, <3>1, <3>2 DEF LiveWork, Ends
    <3>4. Ends(Canonical(e, "llm")) = Ends(e)  BY CanonicalFacts DEF By, Ends
    <3> DEFINE c == Canonical(e, "llm")
    <3>5. /\ role'[p] = role[p] /\ job'[p].edge = c /\ todo'[p] = todo[p]
          /\ listed'[p] = listed[p] /\ pending'[p] = pending[p]
      BY <3>1 DEF After
    <3> HIDE DEF c
    <3>6. Ends(c) \subseteq alive  BY <3>3, <3>4 DEF c
    <3> QED BY <1>2, <1>4, <3>5, <3>6 DEF LiveWork, Ends
  <2>2. CASE RunEnd(p)
    BY <1>2, <1>4, <2>2, RunEndShape DEF After, LiveWork, Ends, Holding
  <2>3. CASE Check(p) \/ CheckReverse(p)
    <3>1. pc[p] \in Holding  BY <2>3 DEF Check, CheckReverse, Holding
    <3>2. PICK s : After(p, role[p], s, job[p], listed[p], left[p], todo[p], pending[p])
      BY <2>3, CheckShape
    <3> QED BY <1>2, <1>4, <3>1, <3>2 DEF After, LiveWork, Ends
  <2>4. CASE RebuildRows(p)
    <3> DEFINE T == {[edge |-> e, by |-> row[e]] : e \in {f \in Edges : row[f] # "none"}}
    <3>1. After(p, role[p], "replay", job[p], listed[p], left[p], T, pending[p])
      BY <2>4, RebuildRowsShape
    <3>2. \A j \in T : Ends(j.edge) \subseteq alive  BY DEF Lives, LiveStores
    <3> HIDE DEF T
    <3> QED BY <1>2, <1>4, <3>1, <3>2 DEF After, LiveWork, Holding, Ends
  <2>5. CASE Replay(p)
    <3>1. PICK j \in todo[p] :
            After(p, role[p], IF j.by = "llm" THEN "check" ELSE "merge",
                  [edge |-> Canonical(j.edge, j.by), by |-> j.by],
                  listed[p], left[p], todo[p] \ {j}, pending[p])
      BY <2>5, ReplayShape
    <3>2. j.edge \in Edges /\ j.by \in By
      <4>1. todo[p] \in SUBSET Jobs  BY Same
      <4> QED BY <4>1, JobFacts
    <3>3. Ends(Canonical(j.edge, j.by)) \subseteq alive
      BY <1>2, <3>2, CanonicalFacts DEF LiveWork, Ends
    <3> DEFINE c == Canonical(j.edge, j.by)
    <3>4. /\ role'[p] = role[p] /\ job'[p].edge = c /\ todo'[p] \subseteq todo[p]
          /\ listed'[p] = listed[p] /\ pending'[p] = pending[p]
      BY <3>1 DEF After
    <3> HIDE DEF c
    <3>5. Ends(c) \subseteq alive  BY <3>3 DEF c
    <3> QED BY <1>2, <1>4, <3>4, <3>5 DEF LiveWork, Ends
  <2> QED BY <2>1, <2>2, <2>3, <2>4, <2>5
<1> QED BY <1>1, <1>2, <1>3, <1>5, SoloLives

LEMMA MergeLives ==
  ASSUME WorkInv, InTurn, Lives, NEW p \in Procs, regime' = regime, Merge(p)
  PROVE  Lives'
<1>1. /\ pc[p] = "merge" /\ UNCHANGED <<alive, row, deleting, wiped>> /\ Moves(p)
      /\ node' = node \cup {job[p].edge.from, job[p].edge.to}
      /\ edge' = [edge EXCEPT ![job[p].edge] = Stamped(@, job[p].by)]
      /\ After(p, role[p], IF role[p] = "rebuild" THEN "replay" ELSE "row", job[p],
               listed[p], left[p], todo[p], pending[p])
  BY MergeShape
<1>2. Solo(p) /\ LiveWork(p) /\ Own(p)  BY <1>1, SingleSolo DEF InTurn, Lives, WorkInv
<1>3. PICK e \in Edges : e = job[p].edge
  BY <1>1, <1>2, JobFacts DEF Own, ProcOK, Holding
<1>4. Ends(e) \subseteq alive  BY <1>1, <1>2, <1>3 DEF LiveWork, Holding
<1>5. LiveStores'
  <2>1. \A f \in Edges : edge'[f] # "none" => f = e \/ edge[f] # "none"
    BY <1>1, <1>3 DEF WorkInv, StoresOK
  <2> QED BY <1>1, <1>4, <2>1 DEF Lives, LiveStores, Ends
<1>6. LiveWork(p)'
  <2>1. role[p] = "rebuild" => node' \subseteq alive
    BY <1>1, <1>2, <1>3, <1>4 DEF LiveWork, Ends
  <2>2. /\ role'[p] = role[p] /\ job'[p].edge = e /\ todo'[p] = todo[p]
        /\ listed'[p] = listed[p] /\ pending'[p] = pending[p]
    BY <1>1, <1>3 DEF After
  <2> QED BY <1>1, <1>2, <1>4, <2>1, <2>2 DEF LiveWork, Ends
<1> QED BY <1>1, <1>2, <1>5, <1>6, SoloLives

LEMMA RecordLives ==
  ASSUME WorkInv, InTurn, Lives, NEW p \in Procs, regime' = regime,
         RecordRow(p) \/ BackfillRows(p)
  PROVE  Lives'
<1>1. /\ pc[p] \in {"row", "capture"} /\ UNCHANGED <<stores, history>> /\ Moves(p)
      /\ role'[p] = role[p] /\ pc'[p] \in {"commit", "open"}
      /\ todo'[p] = todo[p] /\ listed'[p] = listed[p]
  <2>1. CASE RecordRow(p)  BY <2>1, RecordRowShape DEF After
  <2>2. CASE BackfillRows(p)  BY <2>2, BackfillRowsShape DEF After
  <2> QED BY <2>1, <2>2
<1>2. Solo(p) /\ LiveWork(p) /\ Own(p)  BY <1>1, SingleSolo DEF InTurn, Lives, WorkInv
<1>3. LiveStores'  BY <1>1 DEF Lives, LiveStores, Ends, stores
<1>4. UNCHANGED <<alive, node>>  BY <1>1 DEF stores
<1>5. \A f \in Edges : pending'[p][f] # "none" => Ends(f) \subseteq alive
  <2>1. CASE RecordRow(p)
    <3>1. /\ pc[p] = "row"
          /\ pending'[p] = [pending[p] EXCEPT ![job[p].edge] = job[p].by]
      BY <2>1, RecordRowShape DEF After
    <3>2. PICK e \in Edges : e = job[p].edge
      BY <1>2, <3>1, JobFacts DEF Own, ProcOK, Holding
    <3>3. Ends(e) \subseteq alive  BY <1>2, <3>1, <3>2 DEF LiveWork, Holding
    <3>4. \A f \in Edges : f # e => pending'[p][f] = pending[p][f]
      <4>1. pending[p] \in Written  BY Same
      <4> QED BY <3>1, <3>2, <4>1 DEF Written
    <3> QED BY <1>2, <3>3, <3>4 DEF LiveWork
  <2>2. CASE BackfillRows(p)
    <3>1. pending'[p] = Captured(p)  BY <2>2, BackfillRowsShape DEF After
    <3>2. ASSUME NEW f \in Edges, Captured(p)[f] # "none" PROVE Ends(f) \subseteq alive
      <4>1. PICK by \in By : [edge |-> f, by |-> by] \in todo[p]
        BY <3>2, CapturedFacts
      <4> DEFINE j == [edge |-> f, by |-> by]
      <4>2. j \in todo[p] /\ j.edge = f  BY <4>1
      <4> HIDE DEF j
      <4> QED BY <1>2, <4>2 DEF LiveWork
    <3> QED BY <3>1, <3>2
  <2> QED BY <2>1, <2>2
<1>6. LiveWork(p)'
  BY <1>1, <1>2, <1>4, <1>5 DEF LiveWork, Ends, Holding
<1> QED BY <1>1, <1>2, <1>3, <1>6, SoloLives

LEMMA EndLives ==
  ASSUME WorkInv, InTurn, Lives, NEW p \in Procs, regime' = regime,
         Commit(p) \/ Abort(p) \/ RebuildCrash(p) \/ RebuildFinish(p)
  PROVE  Lives'
<1>1. /\ pc[p] # "idle" /\ UNCHANGED <<alive, node, edge, deleting>> /\ Moves(p)
      /\ After(p, "none", "idle", NoJob, {}, 0, {}, NoRows)
      /\ \/ row' = row
         \/ row' = [e \in Edges |-> IF pending[p][e] # "none" THEN pending[p][e] ELSE row[e]]
  BY CommitShape, AbortShape, RebuildFinishShape, IdleFacts DEF stores
<1>2. Solo(p) /\ LiveWork(p)  BY <1>1, SingleSolo DEF InTurn, Lives
<1>3. \A e \in Edges : row'[e] # "none" => Ends(e) \subseteq alive
  BY <1>1, <1>2 DEF Lives, LiveStores, LiveWork
<1>4. LiveStores'  BY <1>1, <1>3 DEF Lives, LiveStores, Ends
<1>5. LiveWork(p)'  BY <1>1, NoRowsFacts DEF After, LiveWork, Holding
<1> QED BY <1>1, <1>2, <1>4, <1>5, SoloLives

LEMMA RebuildLives ==
  ASSUME WorkInv, Serial, InTurn, Lives, NEW p \in Procs, regime' = regime,
         RebuildDrop(p) \/ RebuildProject(p)
  PROVE  Lives'
<1>1. CASE RebuildDrop(p)
  <2>1. /\ MayRebuild /\ pc[p] = "idle" /\ UNCHANGED <<alive, row, deleting, loose>>
        /\ Moves(p) /\ node' = {} /\ edge' = NoRows
        /\ After(p, "rebuild", "project", job[p], listed[p], left[p], todo[p], pending[p])
    BY <1>1, RebuildDropShape
  <2>2. Solo(p) /\ pending[p] = NoRows /\ todo[p] = {}
    BY <2>1, QuietFacts, IdleFacts
  <2>3. LiveStores'  BY <2>1, NoRowsFacts DEF Lives, LiveStores, Ends
  <2>4. LiveWork(p)'  BY <2>1, <2>2, NoRowsFacts DEF After, LiveWork, Holding
  <2> QED BY <2>1, <2>2, <2>3, <2>4, SoloLives
<1>2. CASE RebuildProject(p)
  <2>1. /\ pc[p] = "project" /\ UNCHANGED <<alive, edge, row, deleting, history>>
        /\ Moves(p) /\ node' = node \cup alive
        /\ After(p, role[p], "rows", job[p], listed[p], left[p], todo[p], pending[p])
    BY <1>2, RebuildProjectShape
  <2>2. Solo(p) /\ LiveWork(p)  BY <2>1, SingleSolo DEF InTurn, Lives
  <2>3. LiveStores'  BY <2>1 DEF Lives, LiveStores, Ends
  <2>4. LiveWork(p)'  BY <2>1, <2>2 DEF After, LiveWork, Holding, Ends
  <2> QED BY <2>1, <2>2, <2>3, <2>4, SoloLives
<1> QED BY <1>1, <1>2

LEMMA StandingLives ==
  ASSUME SoundDeletes, WorkInv, Serial, InTurn, Lives, NEW n, NEW e,
         DeleteCommit(n) \/ DeleteNode(n) \/ (e \in Edges /\ Prune(e)), regime' = regime
  PROVE  Lives'
<1>1. \A p \in Procs : /\ pc[p] = "idle" /\ role[p] = "none" /\ pending[p] = NoRows
                       /\ todo[p] = {}
  <2>1. CASE DeleteCommit(n)
    BY <2>1, QuietFacts, IdleFacts DEF DeleteCommit, Quiet
  <2>2. CASE DeleteNode(n)
    BY <2>2, IdleFacts DEF DeleteNode, InTurn, Single
  <2>3. CASE e \in Edges /\ Prune(e)
    BY <2>3, IdleFacts DEF Prune, Quiet
  <2> QED BY <2>1, <2>2, <2>3
<1>2. UNCHANGED work  BY DEF DeleteCommit, DeleteNode, Prune
<1>3. \A p \in Procs : LiveWork(p)'
  BY <1>1, <1>2, NoRowsFacts DEF work, LiveWork, Holding
<1>4. LiveStores'
  <2>1. CASE DeleteCommit(n)
    <3>1. /\ row' = [f \in Edges |-> IF f \in Touching(n) THEN "none" ELSE row[f]]
          /\ alive' = alive \ {n} /\ deleting' = deleting \cup {n} /\ edge' = edge
      BY <2>1 DEF DeleteCommit
    <3>2. \A f \in Edges : row'[f] # "none" => row[f] # "none" /\ n \notin Ends(f)
      BY <3>1 DEF Touching, Ends
    <3>3. \A f \in Edges : row'[f] # "none" => Ends(f) \subseteq alive'
      BY <3>1, <3>2 DEF Lives, LiveStores
    <3>4. \A f \in Edges : edge'[f] # "none" => Ends(f) \subseteq alive' \cup deleting'
      BY <3>1 DEF Lives, LiveStores
    <3> QED BY <3>3, <3>4 DEF LiveStores, Ends
  <2>2. CASE DeleteNode(n)
    <3>1. "delete" \notin Faults
      BY DEF SoundDeletes, Serial, Alone, Faults, WorkInv, StoresOK
    <3>2. /\ edge' = [f \in Edges |-> IF f \in Touching(n) THEN "none" ELSE edge[f]]
          /\ deleting' = deleting \ {n} /\ UNCHANGED <<alive, row>>
      BY <2>2, <3>1 DEF DeleteNode
    <3>3. \A f \in Edges : edge'[f] # "none" => edge[f] # "none" /\ n \notin Ends(f)
      BY <3>2 DEF Touching, Ends
    <3>4. \A f \in Edges : edge'[f] # "none" => Ends(f) \subseteq alive' \cup deleting'
      BY <3>2, <3>3 DEF Lives, LiveStores
    <3> QED BY <3>2, <3>4 DEF Lives, LiveStores, Ends
  <2>3. CASE e \in Edges /\ Prune(e)
    <3>1. /\ edge' = [edge EXCEPT ![e] = "none"] /\ UNCHANGED <<alive, row, deleting>>
      BY <2>3 DEF Prune
    <3>2. \A f \in Edges : edge'[f] \in {"none", edge[f]}
      BY <3>1 DEF WorkInv, StoresOK
    <3> QED BY <3>1, <3>2 DEF Lives, LiveStores, Ends
  <2> QED BY <2>1, <2>2, <2>3
<1> QED BY <1>3, <1>4 DEF Lives

-----------------------------------------------------------------------------
LEMMA InitSerial == Init => SerialInv /\ Lives
<1> SUFFICES ASSUME Init PROVE SerialInv /\ Lives  OBVIOUS
<1>1. WorkInv  BY InitWork
<1>2. \A p \in Procs : pc[p] = "idle" /\ role[p] = "none" /\ pending[p] = NoRows /\ todo[p] = {}
  BY DEF Init
<1>3. Rebuilds  BY <1>2 DEF Rebuilds, Undisturbed, ReplayFacts
<1>4. Single /\ Deleted  BY <1>2 DEF Init, Single, Deleted
<1>5. Agreed
  BY NoRowsFacts DEF Init, Agreed, Origin, Told, Curated
<1>6. \A p \in Procs : MatchedBy(p) /\ CheckedBy(p)
  BY <1>1, <1>2, IdleInTurn
<1>7. LiveStores
  <2>1. \A e \in Edges : Ends(e) \subseteq Nodes  BY EdgeFacts DEF Ends
  <2> QED BY <2>1, NoRowsFacts DEF Init, LiveStores
<1>8. \A p \in Procs : LiveWork(p)
  BY <1>2, NoRowsFacts DEF LiveWork, Holding
<1> QED BY <1>1, <1>3, <1>4, <1>5, <1>6, <1>7, <1>8
        DEF SerialInv, RebuildInv, InTurn, Lives

LEMMA ConstantRegime ==
  ASSUME regime' = regime
  PROVE  (Serial' <=> Serial) /\ Alone' = Alone
BY DEF Serial, Alone, Faults

LEMMA RebuildsStep ==
  ASSUME WorkInv, "rebuild" \in Alone, Rebuilds, [Next]_vars
  PROVE  Rebuilds'
<1>1. CASE UNCHANGED vars
  <2>1. /\ UNCHANGED <<alive, node, edge, row, deleting, role, pc, job, todo>>
    BY <1>1 DEF vars, stores, work
  <2>2. ASSUME NEW p \in Procs PROVE Undisturbed(p)' /\ ReplayFacts(p)'
    <3>1. Undisturbed(p) /\ ReplayFacts(p)  BY DEF Rebuilds
    <3>2. Undisturbed(p)'  BY <2>1, <3>1 DEF Undisturbed
    <3>3. Undone(p)' = Undone(p) /\ Unmerged(p)' = Unmerged(p)  BY <2>1 DEF Undone, Unmerged
    <3>4. \A e, f : Before(e, f)' <=> Before(e, f)  BY DEF Before
    <3>5. Replayed(p) => Replayed(p)'  BY <2>1, <3>3, <3>4 DEF Replayed
    <3>6. ReplayFacts(p)'  BY <2>1, <3>1, <3>5 DEF ReplayFacts, NoRows
    <3> QED BY <3>2, <3>6
  <2> QED BY <2>2 DEF Rebuilds
<1>2. ASSUME NEW p \in Procs, Writer(p) \/ Rebuilder(p), regime' = regime
      PROVE  Rebuilds'
  BY <1>2, WriterRebuilds, CheckRebuilds, MergeRebuilds, StartRebuilds, RowsRebuilds,
     ReplayRebuilds, EndRebuilds
     DEF Writer, Rebuilder
<1>3. ASSUME NEW n \in Nodes, DeleteCommit(n) \/ DeleteNode(n) PROVE Rebuilds'
  BY <1>3, StandingRebuilds
<1>4. ASSUME NEW e \in Edges, Prune(e) PROVE Rebuilds'  BY <1>4, StandingRebuilds
<1> QED BY <1>1, <1>2, <1>3, <1>4 DEF Next

LEMMA SerialStep == SerialInv /\ [Next]_vars => SerialInv'
<1> SUFFICES ASSUME SerialInv, [Next]_vars PROVE SerialInv'  OBVIOUS
<1>1. WorkInv /\ ("rebuild" \in Alone => Rebuilds) /\ (Serial => InTurn)
  BY DEF SerialInv, RebuildInv
<1>2. WorkInv'  BY <1>1, WorkStep
<1>3. regime' = regime  BY DEF Next, vars
<1>4. (Serial' <=> Serial) /\ Alone' = Alone  BY <1>3, ConstantRegime
<1>5. "rebuild" \in Alone => Rebuilds'  BY <1>1, RebuildsStep
<1>6. ASSUME Serial PROVE InTurn'
  <2>0. InTurn /\ Rebuilds  BY <1>1, <1>6, SerialAlone
  <2>1. CASE UNCHANGED vars
    BY <2>0, <2>1 DEF vars, stores, work, history, InTurn, Single, Deleted, Agreed,
       NobodyRebuilds, Origin, MatchedBy, CheckedBy, Protected, IsSymmetric, Touching
  <2>2. ASSUME NEW p \in Procs, Writer(p) \/ Rebuilder(p) PROVE InTurn'
    BY <1>1, <1>2, <1>3, <1>6, <2>0, <2>2, StartInTurn, RunInTurn, CheckInTurn, MergeInTurn,
       RecordInTurn, CommitInTurn, AbortInTurn, RebuildInTurn
       DEF Writer, Rebuilder
  <2>3. ASSUME NEW n \in Nodes, DeleteCommit(n) \/ DeleteNode(n) PROVE InTurn'
    BY <1>1, <1>2, <1>3, <1>6, <2>0, <2>3, StandingInTurn
  <2>4. ASSUME NEW e \in Edges, Prune(e) PROVE InTurn'
    BY <1>1, <1>2, <1>3, <1>6, <2>0, <2>4, StandingInTurn
  <2> QED BY <2>1, <2>2, <2>3, <2>4 DEF Next
<1> QED BY <1>2, <1>4, <1>5, <1>6 DEF SerialInv, RebuildInv

LEMMA LiveStep ==
  ASSUME SoundDeletes
  PROVE  LiveInv /\ [Next]_vars => LiveInv'
<1> SUFFICES ASSUME LiveInv, [Next]_vars PROVE LiveInv'  OBVIOUS
<1>1. SerialInv /\ WorkInv /\ (Serial => InTurn /\ Lives)
  BY DEF LiveInv, SerialInv, RebuildInv
<1>2. SerialInv'  BY <1>1, SerialStep
<1>3. regime' = regime  BY DEF Next, vars
<1>4. Serial' <=> Serial  BY <1>3, ConstantRegime
<1>5. ASSUME Serial PROVE Lives'
  <2>0. InTurn /\ Lives  BY <1>1, <1>5
  <2>1. CASE UNCHANGED vars
    BY <2>0, <2>1 DEF vars, stores, work, history, Lives, LiveStores, LiveWork
  <2>2. ASSUME NEW p \in Procs, Writer(p) \/ Rebuilder(p) PROVE Lives'
    BY <1>1, <1>3, <1>5, <2>0, <2>2, StartLives, RunLives, MergeLives, RecordLives, EndLives,
       RebuildLives
       DEF Writer, Rebuilder
  <2>3. ASSUME NEW n \in Nodes, DeleteCommit(n) \/ DeleteNode(n) PROVE Lives'
    BY <1>1, <1>3, <1>5, <2>0, <2>3, StandingLives
  <2>4. ASSUME NEW e \in Edges, Prune(e) PROVE Lives'
    BY <1>1, <1>3, <1>5, <2>0, <2>4, StandingLives
  <2> QED BY <2>1, <2>2, <2>3, <2>4 DEF Next
<1> QED BY <1>2, <1>4, <1>5 DEF LiveInv

-----------------------------------------------------------------------------
(* The theorems.                                                           *)

(* Whatever overlaps and fails, the stores and what each process has in hand
   keep their shape, and an idle process holds nothing: the steps of
   graph/semantic_edges.py and of `graph rebuild`. *)
THEOREM TypeCorrect == Spec => []TypeOK
<1>1. Init => WorkInv  BY InitWork
<1>2. WorkInv /\ [Next]_vars => WorkInv'  BY WorkStep
<1>3. WorkInv => TypeOK  BY WorkType
<1> QED BY <1>1, <1>2, <1>3, PTL DEF Spec

(* With one command at a time and no rebuild dead half way, the graph and the
   committed rows of upsert_semantic_edge and upsert_semantic_edge_row agree
   on every edge but those whose transaction rolled back, up to the keys of an
   extraction that a curator's link leaves in the graph and not in the row:
   each command leaves the graph with what it then commits, and the next reads
   it so. *)
THEOREM StoresAgreeing == Spec => []StoresAgree
<1>1. Init => SerialInv  BY InitSerial
<1>2. SerialInv /\ [Next]_vars => SerialInv'  BY SerialStep
<1>3. SerialInv => StoresAgree
  <2> SUFFICES ASSUME SerialInv, Serial, Quiet
               PROVE  \A e \in Edges \ loose : Told(row[e], Origin(e))
    BY DEF StoresAgree, Told, Origin
  <2>1. WorkInv /\ Agreed  BY DEF SerialInv, RebuildInv, InTurn
  <2>2. NobodyRebuilds  BY <2>1, IdleFacts DEF Quiet, NobodyRebuilds
  <2> QED BY <2>1, <2>2 DEF Agreed
<1> QED BY <1>1, <1>2, <1>3, PTL DEF Spec

(* Only a commit turns a row into an extracted one, and only a merge an edge. *)
LEMMA RowChange ==
  ASSUME WorkInv, NEW e \in Edges, [Next]_vars, row[e] # "llm", row'[e] = "llm"
  PROVE  \E p \in Procs : Commit(p)
<1> SUFFICES ASSUME \A p \in Procs : ~Commit(p) PROVE FALSE  OBVIOUS
<1>1. ASSUME NEW p \in Procs, Writer(p) \/ Rebuilder(p) PROVE row' = row
  BY <1>1 DEF Writer, Rebuilder, Link, RunStart, RunPropose, RunEnd, Check, CheckReverse, Merge,
     RecordRow, BackfillRead, BackfillRows, Abort, RebuildDrop, RebuildProject, RebuildRows,
     Replay, RebuildFinish, RebuildCrash, stores
<1>2. ASSUME NEW n \in Nodes, DeleteCommit(n) \/ DeleteNode(n) PROVE row'[e] \in {"none", row[e]}
  BY <1>2 DEF DeleteCommit, DeleteNode
<1>3. ASSUME NEW f \in Edges, Prune(f) PROVE row' = row
  BY <1>3 DEF Prune
<1>4. CASE UNCHANGED vars  BY <1>4 DEF vars, stores
<1> QED BY <1>1, <1>2, <1>3, <1>4 DEF Next

LEMMA EdgeChange ==
  ASSUME WorkInv, NEW e \in Edges, [Next]_vars, edge[e] # "llm", edge'[e] = "llm"
  PROVE  \E p \in Procs : Merge(p) /\ job[p].edge = e /\ job[p].by = "llm"
<1> SUFFICES ASSUME \A p \in Procs : Merge(p) => job[p].edge # e \/ job[p].by # "llm"
             PROVE  FALSE
  OBVIOUS
<1>1. ASSUME NEW p \in Procs, Writer(p) \/ Rebuilder(p) PROVE edge'[e] # "llm"
  <2>1. CASE Merge(p)
    BY <2>1 DEF Merge, Stamped, WorkInv, StoresOK
  <2>2. CASE RebuildDrop(p)
    BY <2>2, NoRowsFacts DEF RebuildDrop
  <2>3. CASE ~Merge(p) /\ ~RebuildDrop(p)
    <3>1. edge' = edge
      BY <1>1, <2>3 DEF Writer, Rebuilder, Link, RunStart, RunPropose, RunEnd, Check,
         CheckReverse, Commit, RecordRow, BackfillRead, BackfillRows, Abort, RebuildProject,
         RebuildRows, Replay, RebuildFinish, RebuildCrash, stores
    <3> QED BY <3>1
  <2> QED BY <2>1, <2>2, <2>3
<1>2. ASSUME NEW n \in Nodes, DeleteCommit(n) \/ DeleteNode(n) PROVE edge'[e] \in {"none", edge[e]}
  BY <1>2 DEF DeleteCommit, DeleteNode
<1>3. ASSUME NEW f \in Edges, Prune(f) PROVE edge'[e] \in {"none", edge[e]}
  BY <1>3 DEF Prune, WorkInv, StoresOK
<1>4. CASE UNCHANGED vars  BY <1>4 DEF vars, stores
<1> QED BY <1>1, <1>2, <1>3, <1>4 DEF Next

(* With one command at a time a curator's edge stays a curator's: a curate run
   looks at the edge, and for a symmetric type at its reverse, before it
   merges, and what it looked up still holds then; what it commits is in the
   graph, so that no row that a curator's edge stands behind is overwritten. *)
THEOREM CuratorKeeps == Spec => CuratorKept
<1> DEFINE Kept ==
       Serial =>
       \A e \in Edges :
         /\ row[e] \in {"curator", "relinked"} => row'[e] # "llm"
         /\ edge[e] # "llm" /\ edge'[e] = "llm" =>
              /\ edge[e] = "none"
              /\ IsSymmetric(e) => edge[Reverse(e)] \in {"none", "llm"}
<1>1. Init => SerialInv  BY InitSerial
<1>2. SerialInv /\ [Next]_vars => SerialInv'  BY SerialStep
<1>3. SerialInv /\ [Next]_vars => [Kept]_vars
  <2> SUFFICES ASSUME SerialInv, [Next]_vars, Serial, NEW e \in Edges
               PROVE  /\ row[e] \in {"curator", "relinked"} => row'[e] # "llm"
                      /\ edge[e] # "llm" /\ edge'[e] = "llm" =>
                           /\ edge[e] = "none"
                           /\ IsSymmetric(e) => edge[Reverse(e)] \in {"none", "llm"}
    OBVIOUS
  <2>1. WorkInv /\ InTurn  BY DEF SerialInv, RebuildInv
  <2>2. ASSUME row[e] \in {"curator", "relinked"}, row'[e] = "llm" PROVE FALSE
    <3>1. PICK p \in Procs : Commit(p)  BY <2>1, <2>2, RowChange
    <3>2. pc[p] = "commit" /\ role[p] # "rebuild" /\ pending[p][e] = "llm"
      BY <2>1, <2>2, <3>1, RoleAt DEF Commit
    <3>3. Origin(e) = "llm"  BY <2>1, <3>2 DEF InTurn, MatchedBy, Told
    <3>4. Solo(p)  BY <2>1, <3>2, SingleSolo DEF InTurn
    <3>5. NobodyRebuilds  BY <3>2, <3>4, SoloNobody
    <3> QED BY <2>1, <2>2, <3>3, <3>5 DEF InTurn, Agreed, Curated
  <2>3. ASSUME edge[e] # "llm", edge'[e] = "llm"
        PROVE  edge[e] = "none" /\ (IsSymmetric(e) => edge[Reverse(e)] \in {"none", "llm"})
    <3>1. PICK p \in Procs : Merge(p) /\ job[p].edge = e /\ job[p].by = "llm"
      BY <2>1, <2>3, EdgeChange
    <3>2. pc[p] = "merge" /\ CheckedBy(p)  BY <2>1, <3>1 DEF Merge, InTurn
    <3> QED BY <2>3, <3>1, <3>2 DEF CheckedBy, Protected
  <2> QED BY <2>2, <2>3
<1> QED BY <1>1, <1>2, <1>3, PTL DEF Spec, CuratorKept

(* `graph rebuild` that runs alone replays the rows in their order, so that no
   row meets an edge that protects its own: what it leaves is exactly the
   rows, and every page's node; with one command at a time no other node, for
   rows and edges are then between what is alive.  The hypothesis is about the
   delete_source that commits and does not reach the graph: what it leaves
   there a backfill would capture, and the rebuild bring back. *)
THEOREM RebuildFaithfully ==
  ASSUME SoundDeletes
  PROVE  Spec => RebuildFaithful
<1> DEFINE Faithful ==
       \A p \in Procs : RebuildFinish(p) =>
       /\ "rebuild" \in Alone => edge = row /\ alive \subseteq node
       /\ Serial => node = alive
<1>1. Init => LiveInv  BY InitSerial DEF LiveInv
<1>2. LiveInv /\ [Next]_vars => LiveInv'  BY LiveStep
<1>3. LiveInv => [Faithful]_vars
  <2> SUFFICES ASSUME LiveInv, NEW p \in Procs, RebuildFinish(p)
               PROVE  /\ "rebuild" \in Alone => edge = row /\ alive \subseteq node
                      /\ Serial => node = alive
    OBVIOUS
  <2>1. WorkInv /\ ("rebuild" \in Alone => Rebuilds) /\ (Serial => Lives)
    BY DEF LiveInv, SerialInv, RebuildInv
  <2>2. pc[p] = "replay" /\ todo[p] = {} /\ role[p] = "rebuild"
    BY <2>1, RoleAt DEF RebuildFinish
  <2>3. ASSUME "rebuild" \in Alone PROVE edge = row /\ alive \subseteq node
    <3>1. alive \subseteq node /\ Replayed(p)
      BY <2>1, <2>2, <2>3 DEF Rebuilds, ReplayFacts, Replaying
    <3>2. Unmerged(p) = {}  BY <2>2 DEF Unmerged, Undone
    <3>3. \A e \in Edges : edge[e] = row[e]  BY <3>1, <3>2 DEF Replayed
    <3>4. /\ edge = [e \in Edges |-> edge[e]] /\ row = [e \in Edges |-> row[e]]
      BY <2>1 DEF WorkInv, StoresOK, Written
    <3> QED BY <3>1, <3>3, <3>4
  <2>4. ASSUME Serial PROVE node = alive
    <3>1. node \subseteq alive  BY <2>1, <2>2, <2>4 DEF Lives, LiveWork
    <3> QED BY <2>3, <2>4, <3>1, SerialAlone
  <2> QED BY <2>3, <2>4
<1> QED BY <1>1, <1>2, <1>3, PTL DEF Spec, RebuildFaithful
=============================================================================
