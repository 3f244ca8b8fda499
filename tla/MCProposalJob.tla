--------------------------- MODULE MCProposalJob ---------------------------
(***************************************************************************)
(* Instances of ProposalJob for TLC.  The constants of the trial store     *)
(* that a proposer never uses are empty.                                   *)
(***************************************************************************)
EXTENDS ProposalJob, TLC

CONSTANTS s1, s2, other

\* Two formulas, or an idea and a formula outside the plan.
Answers == {<<s1, s2>>, <<Idea, Invalid>>}
TwoTrials == {[trials |-> 2, attempts |-> 1]}
Keys == {"submission", "rejected", "reserved"} \X Jobs \X (1..2)
NoteContents == Specs \cup {Invalid}
Symmetry == Permutations(Jobs)
=============================================================================
