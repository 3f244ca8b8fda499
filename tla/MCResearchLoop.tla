--------------------------- MODULE MCResearchLoop ---------------------------
(***************************************************************************)
(* An instance of ResearchLoop for TLC: two rounds, one worker beside the  *)
(* coordinator's own.                                                      *)
(***************************************************************************)
EXTENDS ResearchLoop

CONSTANTS s1, s2

MCAnswers == {<<s1, Invalid>>, <<Idea, s2>>}
MCBudgets == {[trials |-> 1, attempts |-> 2]}
MCKeys == {"data-needed", "submission", "rejected", "reserved"} \X Candidates

\* The view: no guard and no property reads the other variables, which only grow.
NoLog == <<loop, started, vault, hand, artifacts, open, reserved, index, queue>>
=============================================================================
