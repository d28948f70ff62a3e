-------------------------- MODULE MCSemanticEdges --------------------------
(* Model-checking instances of SemanticEdges: node 1 a concept, node 2 a   *)
(* source, so that there is one pair of each type.                         *)
EXTENDS SemanticEdges, TLC

CONSTANTS p1, p2

MCNodes == {1, 2}
MCSources == {2}

(* A curator's edges of old, the symmetric one against the order of the ids. *)
MCLegacyEdges == {[type |-> "RELATED_TO", from |-> 2, to |-> 1],
           [type |-> "PREREQUISITE_FOR", from |-> 1, to |-> 2]}

(* One command at a time, with what is there of old; writers that overlap; and
   again one at a time, with rebuilds that die. *)
MCRegimes == {
  [alone |-> {"write", "rebuild"}, faults |-> {"abort", "prune"},
   legacy |-> MCLegacyEdges, runEdges |-> 2],
  [alone |-> {"rebuild"}, faults |-> {"delete"}, legacy |-> {}, runEdges |-> 1],
  [alone |-> {"write", "rebuild"}, faults |-> {"rebuild"},
   legacy |-> {}, runEdges |-> 1]}

Symmetric == Permutations(Procs)
=============================================================================
