---------------------------- MODULE ServedIndex ----------------------------
(***************************************************************************)
(* What the sync queue promises of a derived store while its drains        *)
(* overlap nothing else (one operator): the store is given current         *)
(* documents and nothing else, an entity whose document changes is owed in *)
(* the same step, and a debt is paid by serving or ends with the entity.   *)
(***************************************************************************)
EXTENDS Naturals

CONSTANTS Entities, NoDoc

VARIABLES
  want,    \* want[e]: the document that the canonical store has for e, or NoDoc
  served,  \* served[e]: the document in the derived store, or NoDoc
  owed     \* entities whose document may be another than the canonical one

Live == {e \in Entities : want[e] # NoDoc}

Init ==
  /\ want = [e \in Entities |-> NoDoc]
  /\ served = [e \in Entities |-> NoDoc]
  /\ owed = {}

(* A write owes S, and changes no other document but those of the dead. *)
Write(S) ==
  /\ \A e \in Entities : want'[e] \in {want[e], NoDoc} \/ e \in S
  /\ owed' = {e \in owed \cup S : want'[e] # NoDoc}
  /\ UNCHANGED served

Serve(e) ==
  /\ e \in owed
  /\ served' = [served EXCEPT ![e] = want[e]]
  /\ UNCHANGED <<want, owed>>

Settle(e) ==
  /\ e \in owed /\ served[e] = want[e]
  /\ owed' = owed \ {e}
  /\ UNCHANGED <<want, served>>

(* Documents are removed; those of the living are owed. *)
Remove(S) ==
  /\ served' = [e \in Entities |-> IF e \in S THEN NoDoc ELSE served[e]]
  /\ owed' = owed \cup (S \cap Live)
  /\ UNCHANGED want

Next ==
  \/ \E S \in SUBSET Entities : Write(S) \/ Remove(S)
  \/ \E e \in Entities : Serve(e) \/ Settle(e)

Spec == Init /\ [][Next]_<<want, served, owed>>
=============================================================================
