----------------------------- MODULE Backtester -----------------------------
(***************************************************************************)
(* The daily execution engine of portfolio.py (PortfolioBacktester.run):   *)
(* what a sequence of daily bars and a set of dated signals do to a        *)
(* portfolio of sleeves.  The result is a function of its inputs, defined  *)
(* day by day (Replay).                                                    *)
(*                                                                         *)
(* Money, prices and quantities are integers: where the code divides, the  *)
(* model rounds towards zero, so a quantity is never larger than the       *)
(* code's.  Rates are in percent, the borrow rate per day where the code's *)
(* is per year.  Assets are taken in the order of their numbers, orders by *)
(* the code's order of names; exits touch no other asset, so that their    *)
(* order shows in the fills only.  Texts of rejections are left out.       *)
(*                                                                         *)
(* Operators whose names begin with Slip are wrong variants of the         *)
(* definition below them and no part of the specification.                 *)
(***************************************************************************)
EXTENDS Integers, Sequences, FiniteSetsExt

CONSTANTS
    Assets,      \* asset numbers; the code orders assets by name
    Strategies,  \* strategy numbers, in the order of their names
    Sleeve,      \* [side, rebalance, horizon, weight] of a strategy
    Execution,   \* the ExecutionPolicy, in percent
    InitialCash,
    DayLength,   \* time units of a UTC day
    None

StrategyDefinition(sleeve) ==
    /\ sleeve.side \in {"long_only", "short_only", "long_short"}
    /\ {sleeve.rebalance, sleeve.horizon} \subseteq Nat \ {0}
    /\ sleeve.weight \in Nat

ExecutionPolicy(policy) ==
    /\ policy.limit_offset \in 0..99 /\ policy.stop_loss \in 1..99
    /\ {policy.limit_valid_days, policy.take_profit} \subseteq Nat \ {0}
    /\ {policy.max_asset_weight, policy.participation} \subseteq 1..100
    /\ {policy.long_quantile, policy.short_quantile} \subseteq 1..100
    /\ {policy.commission, policy.borrow_rate} \subseteq Nat /\ policy.slippage \in 0..99

ASSUME EngineAssumption ==
    /\ Assets \subseteq Nat /\ Strategies \subseteq Nat
    /\ IsFiniteSet(Assets) /\ IsFiniteSet(Strategies)
    /\ InitialCash \in Nat \ {0} /\ DayLength \in Nat \ {0}
    /\ \A s \in Strategies : StrategyDefinition(Sleeve[s])
    /\ ExecutionPolicy(Execution)

Abs(n) == IF n < 0 THEN -n ELSE n
Least(a, b) == IF a < b THEN a ELSE b
Most(a, b) == IF a > b THEN a ELSE b
\* a / b rounded towards zero, for b > 0.
Quotient(a, b) == IF a < 0 THEN -((-a) \div b) ELSE a \div b
\* The sum of a function's values.
Total(f) == MapThenSumSet(LAMBDA x : f[x], DOMAIN f)
\* Step by step through assets in the order of their numbers.
InTurn(Step(_, _), st, assets) ==
    MapThenFoldSet(LAMBDA a, s : Step(s, a), st, LAMBDA a : a, LAMBDA s : Max(s), assets)

NoOrders == [a \in Assets |-> None]
NoPosition == [q |-> 0, entry |-> 0, exit |-> None]
Held(pos) == {a \in Assets : pos[a].q # 0}
Traded(day) == {a \in Assets : day.bars[a] # None}

\* A failed replay is None: the code raises.
Start == [cash |-> InitialCash, pos |-> [a \in Assets |-> NoPosition], orders |-> NoOrders,
          sleeves |-> [s \in Strategies |-> [a \in Assets |-> 0]],
          close |-> [a \in Assets |-> 0], borrow |-> 0, fills |-> <<>>,
          used |-> [a \in Assets |-> 0], power |-> 0, nav |-> InitialCash]

Worth(q, day) == Total([a \in {b \in Assets : q[b] # 0} |-> q[a] * day.bars[a].close])
Value(st, day) == st.cash + Worth([a \in Assets |-> st.pos[a].q], day)

Commission(notional) == Quotient(Abs(notional) * Execution.commission, 100)

Fill(asset, q, price, reason) ==
    [asset |-> asset, q |-> q, price |-> price, reason |-> reason,
     commission |-> Commission(q * price)]

\* Dollar volume of the day's bar the book has not used up yet.
Capacity(st, bar, a) == Most(0, (bar.volume * Execution.participation) \div 100 - st.used[a])

SlipPaid(st, fill) ==
    [st EXCEPT !.cash = @ - fill.q * fill.price,
               !.used[fill.asset] = @ + Abs(fill.q * fill.price),
               !.fills = Append(@, fill)]

Paid(st, fill) ==
    [st EXCEPT !.cash = @ - fill.q * fill.price - fill.commission,
               !.used[fill.asset] = @ + Abs(fill.q * fill.price),
               !.fills = Append(@, fill)]

-----------------------------------------------------------------------------
(* _apply_protective_exits *)

\* Reason and price of a triggered exit, None without one.  "phase" is "open",
\* "day", or "entry" with the day's entry fill e of the asset.
ExitTrigger(p, bar, phase, e) ==
    LET long == p.q > 0
        sign == IF long THEN 1 ELSE -1
        stop == (p.entry * (100 - sign * Execution.stop_loss)) \div 100
        target == (p.entry * (100 + sign * Execution.take_profit)) \div 100
        low == IF phase = "open" THEN bar.open ELSE bar.low
        high == IF phase = "open" THEN bar.open ELSE bar.high
        worst == IF long THEN low ELSE high
        best == IF long THEN high ELSE low
        Beyond(price) == IF long THEN price >= target ELSE target > 0 /\ price <= target
        Better(x, y) == IF long THEN Most(x, y) ELSE Least(x, y)
        Worse(x, y) == IF long THEN Least(x, y) ELSE Most(x, y)
        intraday == phase = "entry" /\ sign * e.price < sign * bar.open
    IN IF p.exit # None THEN <<p.exit, bar.open>>
       ELSE IF phase # "entry" /\ Beyond(bar.open) THEN <<"take_profit", bar.open>>
       ELSE IF sign * worst <= sign * stop
            THEN <<"stop_loss", IF phase = "entry" THEN stop ELSE Worse(bar.open, stop)>>
       ELSE IF Beyond(IF intraday THEN bar.close ELSE best)
            THEN <<"take_profit", IF phase = "entry" THEN target ELSE Better(bar.open, target)>>
       ELSE None

ExitPrice(bar, price, direction) ==
    Least(bar.high, Most(bar.low, (price * (100 + direction * Execution.slippage)) \div 100))

Left(p, q, reason) ==
    IF p.q + q = 0 THEN NoPosition ELSE [p EXCEPT !.q = @ + q, !.exit = reason]

\* A triggered exit stays active until the day's capacity lets it be completed.
Reduced(st, a, q, price, reason) ==
    IF q = 0 THEN [st EXCEPT !.pos[a].exit = reason]
    ELSE [Paid(st, Fill(a, q, price, reason)) EXCEPT !.pos[a] = Left(@, q, reason)]

Exit(st, a, bar, trigger) ==
    LET held == st.pos[a].q
        direction == IF held > 0 THEN -1 ELSE 1
        price == ExitPrice(bar, trigger[2], direction)
    IN IF trigger = None THEN st
       ELSE Reduced(st, a, direction * Least(Abs(held), Capacity(st, bar, a) \div price),
                    price, trigger[1])

\* "entries" are the entry fills of the phase "entry"; else all positions are tried.
Exits(st, day, phase, entries) ==
    InTurn(LAMBDA s, a : Exit(s, a, day.bars[a],
                              ExitTrigger(s.pos[a], day.bars[a], phase, entries[a])),
           st, {a \in Held(st.pos) : phase = "entry" => entries[a] # None})

NoEntries == [a \in Assets |-> None]

\* Assets that left by an exit today, or are leaving, take no orders.
Blocked(st) ==
    {a \in Assets : st.pos[a].exit # None
                    \/ \E i \in DOMAIN st.fills :
                         st.fills[i].asset = a /\ st.fills[i].reason # "rebalance"}
Unblocked(st) ==
    [st EXCEPT !.orders = [a \in Assets |-> IF a \in Blocked(st) THEN None ELSE @[a]]]

-----------------------------------------------------------------------------
(* _fill_orders *)

\* The basis of an added lot is the average; a reduction keeps it.
Basis(p, q, price) ==
    IF p.q = 0 \/ p.q * (p.q + q) < 0 THEN price
    ELSE IF p.q * q > 0 THEN (Abs(p.q) * p.entry + Abs(q) * price) \div Abs(p.q + q)
    ELSE p.entry

Moved(p, q, price) ==
    IF p.q + q = 0 THEN NoPosition
    ELSE [q |-> p.q + q, entry |-> Basis(p, q, price), exit |-> None]

\* A limit is not filled beyond its price or outside the bar's range.
FillPrice(o, bar) ==
    IF o.q > 0
    THEN Least(Least(o.limit, bar.high),
               (Least(bar.open, o.limit) * (100 + Execution.slippage)) \div 100)
    ELSE Most(Most(o.limit, bar.low),
              (Most(bar.open, o.limit) * (100 - Execution.slippage)) \div 100)

SlipAffordable(st, price) == (Most(0, st.cash) * 100) \div (price * (100 + Execution.commission))

Affordable(st, price) ==
    (Most(0, Least(st.cash, st.power)) * 100) \div (price * (100 + Execution.commission))

Kept(st, a, o) == [st EXCEPT !.orders[a] = o]

\* What of an order fits into the day's capacity.
Within(st, a, o, bar, price) ==
    LET maximum == Capacity(st, bar, a) \div price
    IN Most(-maximum, Least(maximum, o.q))

\* Short sales of an asset that cannot be borrowed end at an empty position.
NoBorrow(p, within, bar) == within < 0 /\ p.q + within < Least(p.q, 0) /\ ~bar.borrow

Quantity(st, p, within, price, noBorrow) ==
    IF noBorrow THEN -Least(Most(p.q, 0), Abs(within))
    ELSE IF within > 0 THEN Least(within, Affordable(st, price)) ELSE within

Booked(st, fill) ==
    [Paid(st, fill) EXCEPT
       !.power = Most(0, @ - Most(fill.q * fill.price, 0) - fill.commission),
       !.pos[fill.asset] = Moved(@, fill.q, fill.price)]

\* An order is kept as far as it is unfilled, unless it cannot be borrowed.
Executed(st, a, o, q, price, noBorrow) ==
    IF q = 0 THEN (IF noBorrow THEN st ELSE Kept(st, a, o))
    ELSE LET filled == Booked(st, Fill(a, q, price, "rebalance"))
         IN IF o.q = q \/ noBorrow THEN filled ELSE Kept(filled, a, [o EXCEPT !.q = @ - q])

Attempted(st, a, o, bar, price, within) ==
    LET p == st.pos[a]
        noBorrow == NoBorrow(p, within, bar)
    IN Executed(st, a, o, Quantity(st, p, within, price, noBorrow), price, noBorrow)

Reached(o, bar, openOnly) ==
    IF o.q > 0 THEN (IF openOnly THEN bar.open ELSE bar.low) <= o.limit
    ELSE (IF openOnly THEN bar.open ELSE bar.high) >= o.limit

\* The order of an asset, which "st" collects again as far as it is kept.
FillOrder(st, a, o, day, openOnly) ==
    LET bar == day.bars[a]
        price == FillPrice(o, bar)
    IN IF day.index > o.expires THEN st
       ELSE IF bar = None THEN Kept(st, a, o)
       ELSE IF ~Reached(o, bar, openOnly) THEN Kept(st, a, o)
       ELSE Attempted(st, a, o, bar, price, Within(st, a, o, bar, price))

\* What is left of the orders at the close.
Unexpired(orders, day) ==
    [a \in Assets |-> IF orders[a] = None THEN None
                      ELSE IF day.index < orders[a].expires THEN orders[a] ELSE None]

\* After the day's last pass the orders that were valid up to it are gone.
FillOrders(st, day, openOnly) ==
    LET after == InTurn(LAMBDA s, a : FillOrder(s, a, st.orders[a], day, openOnly),
                        [st EXCEPT !.orders = NoOrders], {a \in Assets : st.orders[a] # None})
    IN IF openOnly THEN after ELSE [after EXCEPT !.orders = Unexpired(@, day)]

\* New or increased positions, with the day's fill that made them.
Entries(before, st) ==
    [a \in Assets |->
        LET mine == {k \in DOMAIN st.fills : k > Len(before.fills) /\ st.fills[k].asset = a}
            fill == st.fills[Max(mine)]
        IN IF mine = {} \/ st.pos[a].q = 0 THEN None
           ELSE IF before.pos[a].q * st.pos[a].q <= 0 \/ before.pos[a].q * fill.q > 0
                THEN fill ELSE None]

-----------------------------------------------------------------------------
(* _latest_signals, _targets and _orders_for_targets *)

DateOf(at) == at \div DayLength

SlipEligible(signals, s, a, date) ==
    {x \in signals : /\ x.strategy = s /\ x.asset = a /\ DateOf(x.at) <= date
                     /\ date - DateOf(x.at) <= Sleeve[s].horizon}

Eligible(signals, s, a, date) ==
    {x \in signals : /\ x.strategy = s /\ x.asset = a /\ DateOf(x.at) < date
                     /\ date - DateOf(x.at) <= Sleeve[s].horizon}

Score(signals, s, a, date) ==
    (CHOOSE x \in Eligible(signals, s, a, date) :
        \A y \in Eligible(signals, s, a, date) : y.at <= x.at).score

\* The assets with a live signal of the sleeve, and how many of them are worse.
Ranking(signals, s, day) ==
    LET candidates == {a \in Traded(day) : Eligible(signals, s, a, day.date) # {}}
        score == [a \in candidates |-> Score(signals, s, a, day.date)]
    IN [a \in candidates |->
          Cardinality({b \in candidates : score[b] < score[a] \/ (score[b] = score[a] /\ b < a)})]

Highest(rank, count) == {a \in DOMAIN rank : rank[a] >= Cardinality(DOMAIN rank) - count}
Lowest(rank, count) == {a \in DOMAIN rank : rank[a] < count}
Share(n, quantile) == Most(1, (n * quantile) \div 100)

\* The assets bought and sold short, as <<longs, shorts>>.
Legs(side, rank) ==
    LET n == Cardinality(DOMAIN rank)
        count == Least(Share(n, Execution.long_quantile), n - 1)
    IN CASE n = 0 -> <<{}, {}>>
         [] n > 0 /\ side = "long_only" -> <<Highest(rank, Share(n, Execution.long_quantile)), {}>>
         [] n > 0 /\ side = "short_only" ->
              <<{}, Highest(rank, Share(n, Execution.short_quantile))>>
         [] n = 1 /\ side = "long_short" -> <<{}, {}>>
         [] n > 1 /\ side = "long_short" ->
              <<Highest(rank, count),
                Lowest(rank, Least(n - count, Share(n, Execution.short_quantile)))>>

\* Shares of equal parts of the sleeve's weight, halved where both legs are held.
Allocation(s, legs, day, nav) ==
    LET parts == IF Sleeve[s].side = "long_short" THEN 200 ELSE 100
        Part(a, leg) == (Sleeve[s].weight * nav) \div (parts * Cardinality(leg) * day.bars[a].close)
    IN [a \in Assets |-> IF a \in legs[1] THEN Part(a, legs[1])
                         ELSE IF a \in legs[2] THEN -Part(a, legs[2]) ELSE 0]

Targets(signals, s, day, nav) ==
    Allocation(s, Legs(Sleeve[s].side, Ranking(signals, s, day)), day, nav)

Capped(q, day, a, nav) ==
    IF a \notin Traded(day) THEN q
    ELSE LET cap == (Execution.max_asset_weight * nav) \div (100 * day.bars[a].close)
         IN Most(-cap, Least(cap, q))

\* The order that takes an asset to its target, None without one.
OrderFor(st, a, target, day) ==
    LET bar == day.bars[a]
        current == st.pos[a].q
        short == target < Least(current, 0) /\ ~bar.borrow
        q == IF short THEN -Most(current, 0) ELSE target - current
        sign == IF q > 0 THEN 1 ELSE -1
    IN IF bar = None \/ st.pos[a].exit # None THEN None
       ELSE IF q = 0 THEN None
       ELSE [q |-> q, expires |-> day.index + Execution.limit_valid_days,
             limit |-> (bar.close * (100 - sign * Execution.limit_offset)) \div 100]

Due(day) == {s \in Strategies : day.index % Sleeve[s].rebalance = 0}

NewSleeves(st, signals, day, nav) ==
    [s \in Strategies |->
        LET wanted == IF s \in Due(day) THEN Targets(signals, s, day, nav) ELSE st.sleeves[s]
        IN [a \in Assets |-> IF a \in Blocked(st) THEN 0 ELSE wanted[a]]]

OrdersFor(st, sleeves, day, nav) ==
    [a \in Assets |->
        LET wanted == Total([s \in Strategies |-> sleeves[s][a]])
        IN OrderFor(st, a, Capped(wanted, day, a, nav), day)]

\* At the close the due sleeves choose anew, and orders replace all earlier ones.
Rebalanced(st, sleeves, day, nav) ==
    [st EXCEPT !.sleeves = sleeves,
               !.orders = IF Due(day) = {} THEN @ ELSE OrdersFor(st, sleeves, day, nav),
               !.nav = nav,
               !.close = [a \in Assets |-> IF a \in Traded(day) THEN day.bars[a].close ELSE @[a]]]

-----------------------------------------------------------------------------
(* run *)

BorrowCharge(st, day, last) ==
    IF last = None THEN 0
    ELSE (Total([a \in {b \in Assets : st.pos[b].q < 0} |-> -st.pos[a].q * st.close[a]])
            * Execution.borrow_rate * (day.date - last)) \div 100

\* One day: opening exits, opening limits, intraday exits, intraday limits, exits
\* of the day's entries, and at the close the rebalancing.
Power(st) == [st EXCEPT !.power = Least(@, Most(0, st.cash))]

Opening(st, day, charge) ==
    LET begin == [st EXCEPT !.cash = @ - charge, !.borrow = @ + charge, !.fills = <<>>,
                            !.used = [a \in Assets |-> 0], !.power = Most(0, st.cash - charge)]
    IN Power(Unblocked(Exits(begin, day, "open", NoEntries)))

Intraday(st, day) == Power(Unblocked(Exits(FillOrders(st, day, TRUE), day, "day", NoEntries)))

ExitEntries(before, st, day) == Unblocked(Exits(st, day, "entry", Entries(before, st)))

Trading(st, day) == ExitEntries(st, FillOrders(st, day, FALSE), day)

Closing(st, signals, day, nav) ==
    IF nav <= 0 THEN None ELSE Rebalanced(st, NewSleeves(st, signals, day, nav), day, nav)

Closed(st, signals, day) == Closing(st, signals, day, Value(st, day))

\* "last" is the date of the day before, None on the first.
Day(st, signals, day, last) ==
    IF \E a \in Held(st.pos) : day.bars[a] = None THEN None
    ELSE Closed(Trading(Intraday(Opening(st, day, BorrowCharge(st, day, last)), day), day),
                signals, day)

\* The state after day n from that of the day before; None once the code raised.
Advance(before, days, signals, n) ==
    IF before = None THEN None
    ELSE Day(before, signals, [date |-> days[n].date, bars |-> days[n].bars, index |-> n - 1],
             IF n = 1 THEN None ELSE days[n - 1].date)

\* The states after each of the days.
Replay(days, signals) ==
    LET after[n \in 0..Len(days)] ==
            IF n = 0 THEN Start ELSE Advance(after[n - 1], days, signals, n)
    IN [n \in DOMAIN days |-> after[n]]
=============================================================================
