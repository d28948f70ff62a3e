----------------------------- MODULE ObjectMap -----------------------------
(***************************************************************************)
(* What the agent object store promises the agent that owns a key: a map   *)
(* from keys to bodies, read back as they were put (objects.py), that      *)
(* changes by the agent's own writes and by nothing else.                  *)
(***************************************************************************)
EXTENDS Naturals

CONSTANTS Keys, Bodies, None

VARIABLES
  map,     \* map[k]: the body under k, or None
  writes   \* writes[k]: how often the agent has put or deleted k

Init ==
  /\ map = [k \in Keys |-> None]
  /\ writes = [k \in Keys |-> 0]

(* The last write wins; a delete is a write of nothing. *)
Write(k, b) ==
  /\ map' = [map EXCEPT ![k] = b]
  /\ writes' = [writes EXCEPT ![k] = @ + 1]

Next == \E k \in Keys, b \in Bodies \cup {None} : Write(k, b)

Spec == Init /\ [][Next]_<<map, writes>>
=============================================================================
