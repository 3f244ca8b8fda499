---------------------------- MODULE MCPaperBook ----------------------------
(***************************************************************************)
(* An instance of PaperBook for TLC: two assets, a long-short sleeve that  *)
(* rebalances daily and a long-only one that does so every other day.      *)
(***************************************************************************)
EXTENDS PaperBook

MCSleeve ==
    <<[side |-> "long_short", rebalance |-> 1, horizon |-> 2, weight |-> 50],
      [side |-> "long_only", rebalance |-> 2, horizon |-> 2, weight |-> 50]>>

MCExecution ==
    [limit_offset |-> 0, limit_valid_days |-> 1, stop_loss |-> 25, take_profit |-> 50,
     max_asset_weight |-> 100, long_quantile |-> 50, short_quantile |-> 50,
     participation |-> 50, commission |-> 10, slippage |-> 0, borrow_rate |-> 25]

Prefers(a, b) ==
    {[strategy |-> s, asset |-> x, score |-> IF x = a THEN 2 ELSE 1] : s \in {1, 2}, x \in {a, b}}
MCViews == {Prefers(1, 2), Prefers(2, 1)}

Bar(open, high, low, close, volume, borrow) ==
    [open |-> open, high |-> high, low |-> low, close |-> close,
     volume |-> volume, borrow |-> borrow]
Flat == Bar(8, 8, 8, 8, 200, TRUE)
Crash == Bar(8, 8, 2, 4, 60, FALSE)
Rally == Bar(6, 14, 6, 12, 200, TRUE)
MCBatches == {<<Flat, Flat>>, <<Crash, Rally>>, <<Rally, Crash>>, <<Rally, None>>}
=============================================================================
