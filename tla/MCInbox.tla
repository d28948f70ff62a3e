------------------------------ MODULE MCInbox ------------------------------
(* Model-checking instances of Inbox: two names, three contents of which   *)
(* one cannot be parsed.                                                   *)
EXTENDS Inbox, TLC

CONSTANTS fa, fb, v1, v2, junk, i1, i2, i3, p1, p2

Symmetric == Permutations(Files) \cup Permutations({v1, v2})
               \cup Permutations(Ids) \cup Permutations(Procs)
=============================================================================
