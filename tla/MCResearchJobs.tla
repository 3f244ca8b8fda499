--------------------------- MODULE MCResearchJobs ---------------------------
(***************************************************************************)
(* An instance of ResearchJobs for TLC: job j1 has a paid and a free call, *)
(* j2 competes with it for the candidates.                                 *)
(***************************************************************************)
EXTENDS ResearchJobs, TLC

CONSTANTS j1, j2, symbolic, text, paidTool, snap

MCKindOf == (j1 :> symbolic) @@ (j2 :> text)
MCInputOf == [j \in Jobs |-> snap]
MCMaxTrials == [j \in Jobs |-> 1]
MCMaxDataCost == (j1 :> 1) @@ (j2 :> 0)
MCJobOf == [c \in Calls |-> j1]
MCBound == (paidTool :> 1) @@ (Fetch :> 0)
MCMayCall == {<<symbolic, paidTool>>, <<symbolic, Fetch>>}
MCSnapshotOf == [c \in Candidates |-> snap]
=============================================================================
