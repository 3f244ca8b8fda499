--------------------------- MODULE MCTradeControl ---------------------------
(***************************************************************************)
(* Instances of TradeControl for TLC.                                      *)
(***************************************************************************)
EXTENDS TradeControl, TLC

CONSTANTS p1, p2, b1, d1, d2

TheBook == [p \in Proposals |-> b1]
OneAndTwo == (p1 :> 1) @@ (p2 :> 2)

\* One dispatcher may trade live unattended, the other not at all.
Armings == (d1 :> "auto") @@ (d2 :> "none")

\* A book of every mode: only the paper one asks for approval, only p1 may go live.
Modal ==
    {[mode |-> "shadow", approval |-> FALSE, admits |-> {p1, p2}, daily |-> 2],
     [mode |-> "live", approval |-> FALSE, admits |-> {p1}, daily |-> 3],
     [mode |-> "paper", approval |-> TRUE, admits |-> {p1, p2}, daily |-> 2]}
=============================================================================
