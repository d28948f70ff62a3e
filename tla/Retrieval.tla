----------------------------- MODULE Retrieval -----------------------------
(***************************************************************************)
(* One question through retrieval (retrieve/pipeline.py) and, for ask,     *)
(* through composition (answer/compose.py), up to the commit of its trace  *)
(* rows.                                                                   *)
(*                                                                         *)
(* What a store finds is a choice: any sequence of different entities, the *)
(* best first.  Ranking is computed as the code does, in integers: every   *)
(* score is multiplied by Unit, which all RrfK + rank divide, and by Whole,*)
(* of which Factor[h] is the share weight * decay^(h-1) that a page h hops *)
(* from a seed gets.  Entities are ordered numbers, as ids break ties.     *)
(***************************************************************************)
EXTENDS Naturals, Sequences, SequencesExt

CONSTANTS
  Pages,        \* ids of pages the stores may find
  Others,       \* graph nodes they never find: source nodes, deprecated pages
  Chunks,
  Graphs,       \* the graphs to choose from: sets of walkable edges <<a, b>>
  PoolSize,     \* CANDIDATE_POOL_SIZE
  RrfK, TopK, SeedK, MaxHops,
  Unit, Whole, Factor,
  Threshold,    \* page_coverage_threshold, as <<numerator, denominator>>
  Refuse,       \* refuse_below_coverage, likewise
  Kinds,        \* the commands: "query", "ask", "replay", "control"
  Failing,       \* what may fail: "store", "graph", "llm", "postgres"
  SelectLimit,   \* the rows that curation selects at most
  MaxSince       \* bound: query traces that others create before curation runs

Nodes == Pages \cup Others

ASSUME RetrievalAssumption ==
  /\ Nodes \subseteq Nat /\ IsFiniteSet(Nodes) /\ Chunks \subseteq Nat
  /\ \A g \in Graphs : g \subseteq Nodes \X Nodes
  /\ {PoolSize, RrfK, TopK, SeedK, Unit, Whole} \subseteq Nat \ {0} /\ SeedK <= TopK
  /\ MaxHops \in Nat /\ Factor \in [1..MaxHops -> 0..Whole]
  /\ \A r \in 1..PoolSize : Unit % (RrfK + r) = 0
  /\ Threshold \in Nat \X (Nat \ {0}) /\ Refuse \in Nat \X (Nat \ {0})
  /\ Kinds \subseteq {"query", "ask", "replay", "control"}
  /\ Failing \subseteq {"store", "graph", "llm", "postgres"}
  /\ SelectLimit \in Nat \ {0} /\ MaxSince \in Nat

(* Two relations between the settings that the code does not enforce and its *)
(* defaults satisfy (config_sections.py:28-58: 60, 7 and a weight of 3/10;   *)
(* 3/10 and 1/2).  A seed passes on no more than the last rank of the answer *)
(* is worth, and no question is refused that would not fall back.            *)
SeedsOutweigh == \A h \in 1..MaxHops : 2 * Factor[h] * (RrfK + TopK) <= Whole * (RrfK + 1)
RefusesLess == Refuse[1] * Threshold[2] <= Threshold[1] * Refuse[2]

VARIABLES
  at, kind,
  graph,        \* the semantic edges in Memgraph
  found,        \* the fused pages
  pages,        \* the ranking: id, score, hop (0 for a page that was found)
  fallback, gap, citations,
  answer,       \* the AskResult: whether it was refused and what is cited
  tx,           \* trace rows inserted in the open transaction
  traces        \* trace rows committed

askVars == <<at, kind, graph, found, pages, fallback, gap, citations, answer, tx, traces>>

-----------------------------------------------------------------------------
(* Rank fusion, coverage and expansion.                                    *)

Lists(S) == UNION {{l \in [1..n -> S] : IsInjective(l)} : n \in 0..PoolSize}

Share(l, e) == IF \E r \in DOMAIN l : l[r] = e
               THEN Unit \div (RrfK + CHOOSE r \in DOMAIN l : l[r] = e) ELSE 0

(* The best first.  At equal score what was found comes before what was     *)
(* reached (the sort of run is stable), and ids break ties.                *)
Ahead(a, b) == \/ a.score > b.score
               \/ a.score = b.score /\ a.hop = 0 /\ b.hop > 0
               \/ a.score = b.score /\ (a.hop = 0 <=> b.hop = 0) /\ a.id < b.id

(* Each entry at the place that the entries ahead of it leave.             *)
Before(S, x) == {y \in S : Ahead(y, x)}
Ranked(S) == [i \in 1..Cardinality(S) |->
                CHOOSE x \in S : Cardinality(Before(S, x)) = i - 1]

(* reciprocal_rank_fusion: the shares add up. *)
Fused(os, qd) ==
  Ranked({[id |-> e, score |-> Whole * (Share(os, e) + Share(qd, e)), hop |-> 0] :
            e \in Range(os) \cup Range(qd)})

(* Mutant of Cut: nothing is cut off. *)
CutNone(s) == s
Cut(s) == SubSeq(s, 1, IF Len(s) < TopK THEN Len(s) ELSE TopK)

(* The mean of the best scores, min-max normalised, as a fraction. *)
Mean(f) ==
  LET low == f[Len(f)].score
      Sum[i \in 0..Len(Cut(f))] == IF i = 0 THEN 0 ELSE Sum[i - 1] + (f[i].score - low)
  IN  <<Sum[Len(Cut(f))], Len(Cut(f)) * (f[1].score - low)>>
(* Mutant of Coverage: nothing found counts as equal scores do. *)
CoverageOfNothing(f) ==
  IF f = <<>> \/ f[1].score = f[Len(f)].score THEN <<1, 1>> ELSE Mean(f)
(* coverage_score, with equal scores normalised to 1. *)
Coverage(f) ==
  IF f = <<>> THEN <<0, 1>>
  ELSE IF f[1].score = f[Len(f)].score THEN <<1, 1>> ELSE Mean(f)

Below(c, t) == c[1] * t[2] < t[1] * c[2]

(* walk_semantic: the nodes within MaxHops of a seed, at their distance. *)
Next1(S) == {e[2] : e \in {d \in graph : d[1] \in S}}
Within(s) == LET W[n \in 0..MaxHops] ==
                   IF n = 0 THEN {s} ELSE W[n - 1] \cup Next1(W[n - 1])
             IN  W
Walk(s) == {w \in Nodes \X (1..MaxHops) : w[1] \in Within(s)[w[2]] \ Within(s)[w[2] - 1]}

(* Mutant of ExpansionScore: what the seed has, in full. *)
ExpansionScoreFull(score, h) == score
ExpansionScore(score, h) == (score \div Whole) * Factor[h]

(* Mutant of Reached: the comparison of two offers is turned round. *)
ReachedWorst(seeds) ==
  LET offers == UNION {{[id |-> w[1], score |-> ExpansionScore(s.score, w[2]), hop |-> w[2]] :
                          w \in Walk(s.id)} : s \in Range(seeds)}
  IN  {o \in offers : \A x \in offers : x.id = o.id =>
                        x.score > o.score \/ (x.score = o.score /\ x.hop >= o.hop)}
(* score_reached: each reached node with the best score a seed gives it. *)
Reached(seeds) ==
  LET offers == UNION {{[id |-> w[1], score |-> ExpansionScore(s.score, w[2]), hop |-> w[2]] :
                          w \in Walk(s.id)} : s \in Range(seeds)}
  IN  {o \in offers : \A x \in offers : x.id = o.id =>
                        x.score < o.score \/ (x.score = o.score /\ x.hop >= o.hop)}

(* What is there already is not added. *)
Merge(top, reached) ==
  LET extra == {r \in reached : \A p \in Range(top) : p.id # r.id}
  IN  Cut(Ranked(Range(top) \cup extra))

-----------------------------------------------------------------------------
AskInit ==
  /\ kind \in Kinds /\ graph \in Graphs
  /\ at = IF kind = "ask" THEN "rewrite" ELSE "search"
  /\ found = <<>> /\ pages = <<>> /\ citations = <<>>
  /\ fallback = FALSE /\ gap = FALSE
  /\ answer = [refused |-> FALSE, cited |-> <<>>]
  /\ tx = <<>> /\ traces = <<>>

Persists == kind # "replay"
Composes == kind = "ask"

(* rewrite_query: a call to the model before the transaction opens. *)
Rewrite ==
  /\ at = "rewrite" /\ at' = "search"
  /\ UNCHANGED <<kind, graph, found, pages, fallback, gap, citations, answer, tx, traces>>

(* The fan-out over the pages of both stores and their fusion. *)
SearchPages ==
  /\ at = "search" /\ kind # "control"
  /\ \E os, qd \in Lists(Pages) : found' = Fused(os, qd)
  /\ pages' = Cut(found')
  /\ at' = IF found' = <<>> THEN "cover" ELSE "expand"
  /\ UNCHANGED <<kind, graph, fallback, gap, citations, answer, tx, traces>>

(* expand: a graph that is down, or fails, leaves the ranking as it is. *)
Expand ==
  /\ at = "expand" /\ at' = "cover"
  /\ \/ pages' = Merge(pages, Reached(SubSeq(Cut(found), 1,
                          IF Len(found) < SeedK THEN Len(found) ELSE SeedK)))
     \/ "graph" \in Failing /\ UNCHANGED pages
  /\ UNCHANGED <<kind, graph, found, fallback, gap, citations, answer, tx, traces>>

(* The fallback is decided by what was found, before the expansion. *)
Cover ==
  /\ at = "cover"
  /\ fallback' = Below(Coverage(found), Threshold)
  /\ gap' = fallback'
  /\ at' = IF fallback' THEN "chunks" ELSE "persist"
  /\ UNCHANGED <<kind, graph, found, pages, citations, answer, tx, traces>>

(* The control arm searches chunks only, always, and records no gap. *)
Control ==
  /\ at = "search" /\ kind = "control"
  /\ fallback' = TRUE /\ at' = "chunks"
  /\ UNCHANGED <<kind, graph, found, pages, gap, citations, answer, tx, traces>>

SearchChunks ==
  /\ at = "chunks" /\ at' = "persist"
  /\ \E os, qd \in Lists(Chunks) : citations' = Cut(Fused(os, qd))
  /\ UNCHANGED <<kind, graph, found, pages, fallback, gap, answer, tx, traces>>

QueryRow == [table |-> "query_traces", ranking |-> pages, coverage |-> Coverage(found),
             fallback |-> fallback, gap |-> gap]

(* persist_query_trace; a replay returns without it. *)
Persist ==
  /\ at = "persist"
  /\ tx' = IF Persists THEN Append(tx, QueryRow) ELSE tx
  /\ at' = IF Composes THEN "compose" ELSE "commit"
  /\ UNCHANGED <<kind, graph, found, pages, fallback, gap, citations, answer, traces>>

Refused == Below(Coverage(found), Refuse)

Cited == IF Refused THEN <<>> ELSE Cut(pages)
(* insert_ask_trace: query is the place of the query's row among the traces; *)
(* what is cited is returned and not stored.                                 *)
AskRow == [table |-> "ask_traces", query |-> Len(traces) + Len(tx), refused |-> Refused]

(* _compose: the model is called only for an answer; the row follows. *)
Compose ==
  /\ at = "compose" /\ at' = "commit"
  /\ answer' = [refused |-> Refused, cited |-> Cited]
  /\ tx' = Append(tx, AskRow)
  /\ UNCHANGED <<kind, graph, found, pages, fallback, gap, citations, traces>>

Commit ==
  /\ at = "commit" /\ at' = "returned"
  /\ traces' = traces \o tx /\ tx' = <<>>
  /\ UNCHANGED <<kind, graph, found, pages, fallback, gap, citations, answer>>

CanFail == \/ at \in {"search", "chunks"} /\ "store" \in Failing
           \/ (at = "rewrite" \/ (at = "compose" /\ ~Refused)) /\ "llm" \in Failing
           \/ at \in {"persist", "compose", "commit"} /\ "postgres" \in Failing
(* Mutant of Fail: the handler commits what there is. *)
FailCommits ==
  /\ CanFail
  /\ at' = "failed" /\ tx' = <<>> /\ traces' = traces \o tx
  /\ UNCHANGED <<kind, graph, found, pages, fallback, gap, citations, answer>>
(* A store, the model or PostgreSQL fails: connection() rolls back. *)
Fail ==
  /\ CanFail
  /\ at' = "failed" /\ tx' = <<>>
  /\ UNCHANGED <<kind, graph, found, pages, fallback, gap, citations, answer, traces>>

AskNext == Rewrite \/ SearchPages \/ Expand \/ Cover \/ Control \/ SearchChunks
        \/ Persist \/ Compose \/ Commit \/ Fail

AskSpec == AskInit /\ [][AskNext]_askVars

-----------------------------------------------------------------------------
(* What curation reads of the traces, rows in the order of their creation,   *)
(* with low_coverage_threshold equal to the pipeline's own threshold, as     *)
(* both are by default.                                                      *)
Weak(row) == row.table = "query_traces" /\ (~Below(Threshold, row.coverage) \/ row.fallback)
WeakBehind(rows, i) == {j \in DOMAIN rows : i < j /\ Weak(rows[j])}

(* Mutant of LowCoverage: what ask refuses. *)
LowCoverageRefused(rows) ==
  {i \in DOMAIN rows : /\ Weak(rows[i]) /\ ~Below(Refuse, rows[i].coverage)
                       /\ Cardinality(WeakBehind(rows, i)) < SelectLimit}
(* low_coverage_traces: the places of the newest SelectLimit weak rows. *)
LowCoverage(rows) ==
  {i \in DOMAIN rows : Weak(rows[i]) /\ Cardinality(WeakBehind(rows, i)) < SelectLimit}

(* The rows of other queries since, covered fully or not at all. *)
Other(covered) == [table |-> "query_traces", ranking |-> <<>>, gap |-> ~covered,
                   coverage |-> IF covered THEN <<1, 1>> ELSE <<0, 1>>, fallback |-> ~covered]
Since == UNION {[1..n -> {Other(TRUE), Other(FALSE)}] : n \in 0..MaxSince}

Entries == [id : Nodes, score : Nat, hop : 0..MaxHops]
Ranking(s) == Len(s) <= TopK /\ \A i \in DOMAIN s : s[i] \in Entries

(* The type invariant; a ranking has TopK entries at most. *)
AskTypeOK ==
  /\ at \in {"rewrite", "search", "expand", "cover", "chunks", "persist", "compose",
             "commit", "returned", "failed"}
  /\ kind \in Kinds /\ graph \in Graphs
  /\ \A i \in DOMAIN found : found[i] \in Entries
  /\ Ranking(pages)
  /\ {fallback, gap} \subseteq BOOLEAN
  /\ answer.refused \in BOOLEAN /\ Ranking(answer.cited)
  /\ Len(tx) + Len(traces) <= 2

(* Graph expansion never displaces a page that was found: the best of what   *)
(* was found leads the ranking in its order, whatever edges there are        *)
(* (expansion.py:8-9).                                                       *)
FoundLeads == IsPrefix(Cut(found), pages)

(* The walk by its paths: b is n edges from a, and no fewer.                 *)
Paths(n) == {f \in [0..n -> Nodes] : \A i \in 1..n : <<f[i - 1], f[i]>> \in graph}
Joined(a, b, n) == \E f \in Paths(n) : f[0] = a /\ f[n] = b
Distance(a, b, n) == Joined(a, b, n) /\ \A m \in 0..(n - 1) : ~Joined(a, b, m)

(* A page that expansion added is at its hop from one of the seeds, by a     *)
(* shortest path, has that seed's share, and no seed gives it more.          *)
ReachedByPath ==
  LET seeds == 1..(IF Len(found) < SeedK THEN Len(found) ELSE SeedK)
  IN  \A i \in DOMAIN pages : pages[i].hop > 0 =>
        /\ \E k \in seeds :
             /\ Distance(found[k].id, pages[i].id, pages[i].hop)
             /\ pages[i].score = ExpansionScore(found[k].score, pages[i].hop)
        /\ \A k \in seeds, h \in 1..MaxHops :
             Distance(found[k].id, pages[i].id, h) =>
               pages[i].score >= ExpansionScore(found[k].score, h)

(* An answer that was composed rests on a page, and its citations are the    *)
(* first pages of the ranking in the query's own row (compose.py:77); the row *)
(* of the ask says whether it was refused.                                   *)
AnswerGrounded ==
  \A i \in DOMAIN traces : traces[i].table = "ask_traces" =>
    /\ traces[traces[i].query].table = "query_traces"
    /\ traces[i].refused = answer.refused
    /\ ~answer.refused =>
         answer.cited # <<>> /\ IsPrefix(answer.cited, traces[traces[i].query].ranking)

(* A command that returned has left its rows, both of them for an ask, and   *)
(* one that failed none; a replay leaves none (pipeline.py:359, replay.py:36).*)
ReturnedIsTraced ==
  Len(traces) = IF at # "returned" \/ ~Persists THEN 0 ELSE IF Composes THEN 2 ELSE 1

(* What could not be answered reaches curation: a refused question has left *)
(* a gap, as ask and the pipeline decide on the same coverage               *)
(* (compose.py:91, 152); and curation, which looks at coverage and fallback *)
(* rather than at the gaps (repository.py:1327-1336), selects the gap until *)
(* SelectLimit weak rows are newer, whatever else was asked since.          *)
GapIsCurated ==
  \A i \in DOMAIN traces :
    /\ traces[i].table = "ask_traces" /\ traces[i].refused => traces[traces[i].query].gap
    /\ traces[i].table = "query_traces" /\ traces[i].gap =>
         \A since \in Since :
           Cardinality(WeakBehind(since, 0)) < SelectLimit =>
             i \in LowCoverage(traces \o since)
=============================================================================
