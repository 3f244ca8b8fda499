---------------------------- MODULE MCTrialQueue ----------------------------
(***************************************************************************)
(* An instance of TrialQueue for TLC.                                      *)
(***************************************************************************)
EXTENDS TrialQueue

MCBudgets == {[trials |-> 1, attempts |-> 3], [trials |-> 2, attempts |-> 1]}
=============================================================================
