---------------------------- MODULE MCRetrieval ----------------------------
(* Model-checking instance of Retrieval: four pages, a source node and a   *)
(* deprecated page; RrfK 3, three ranks of four and a weight of 3/10 with  *)
(* decay 1/2 keep the proportions of 60, 7 of 50 and 3/10: the last rank   *)
(* of the pool is worth less than what the best seed passes on.            *)
EXTENDS Retrieval

MCPages == 1..4
MCOthers == {5, 6}
MCGraphs == {{}, {<<1, 2>>, <<2, 5>>, <<5, 6>>}, {<<1, 6>>, <<2, 6>>, <<6, 3>>, <<4, 3>>, <<3, 1>>}}
MCFactor == <<6, 3>>
Half == <<1, 2>>
TwoFifths == <<2, 5>>

(* The instance satisfies what the theorems about Retrieval ask of the settings. *)
ASSUME MCSettings == SeedsOutweigh /\ RefusesLess /\ Refuse[1] > 0
=============================================================================
