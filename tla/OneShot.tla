------------------------------- MODULE OneShot -------------------------------
(***************************************************************************)
(* What a gate in front of items that may be used once promises: an item is*)
(* taken, tried at most once and only by a taker found fit before, and     *)
(* reported at most once.  A taker that fails or dies has used the item up.*)
(***************************************************************************)
CONSTANTS Items, Takers, Nobody

VARIABLES use, by, fit

vars == <<use, by, fit>>

Init ==
    /\ use = [i \in Items |-> "unused"]
    /\ by = [i \in Items |-> Nobody]
    /\ fit = {}

Moves(i, from, to) == use[i] = from /\ use'[i] = to

Step(i) ==
    \/ use'[i] = use[i] /\ by'[i] = by[i]
    \/ Moves(i, "unused", "taken") /\ by'[i] = by[i]
    \/ Moves(i, "taken", "tried") /\ by'[i] \in fit
    \/ Moves(i, "tried", "reported") /\ by'[i] = by[i]

Next ==
    /\ fit \subseteq fit'
    /\ DOMAIN use' = Items /\ DOMAIN by' = Items
    /\ \A i \in Items : Step(i)

Spec == Init /\ [][Next]_vars
=============================================================================
