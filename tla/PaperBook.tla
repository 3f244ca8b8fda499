----------------------------- MODULE PaperBook -----------------------------
(***************************************************************************)
(* The persistent paper books of paper_trading.py: an append-only ledger   *)
(* of signal batches and daily bars.  Each day's bars replay the whole     *)
(* history through the Backtester and commit the day's output.             *)
(*                                                                         *)
(* One call is one SQLite transaction, and one action.  A call the code    *)
(* rejects changes nothing, and neither does the retry of an event that is *)
(* there (the same id and content): both are stuttering steps.  Retries    *)
(* under another id are new events.  A forward book's clock may also be    *)
(* set back.                                                               *)
(*                                                                         *)
(* Operators whose names begin with Slip are wrong variants of the         *)
(* definition below them and no part of the specification.                 *)
(***************************************************************************)
EXTENDS Backtester

CONSTANTS
    Views,         \* contents of signal batches: sets of [strategy, asset, score]
    Batches,       \* contents of bar batches: a bar or None for every asset
    Creation,      \* when the book is created
    MaxDate,       \* bound: the last date
    Stamps,        \* bound: availability times of signals
    MaxSignals,    \* bound: signal batches of a book
    MaxSignalAge,  \* config.max_signal_age_seconds, in time units
    MaxBarDelay    \* config.max_bar_delay_seconds, in time units

Dates == 1..MaxDate
Times == 0..((MaxDate + 2) * DayLength - 1)

MarketBar(bar) ==
    /\ {bar.open, bar.high, bar.low, bar.close, bar.volume} \subseteq Nat
    /\ 0 < bar.low /\ bar.borrow \in BOOLEAN
    /\ bar.low <= Least(bar.open, bar.close) /\ bar.high >= Most(bar.open, bar.close)

\* The weights of a book sum to one at most, and a forward book bounds its delays.
Config ==
    /\ Strategies # {} /\ Total([s \in Strategies |-> Sleeve[s].weight]) \in 1..100
    /\ {MaxSignalAge, MaxBarDelay} \subseteq Nat \ {0}

ASSUME BookAssumption ==
    /\ Config
    /\ Creation \in Times /\ Stamps \subseteq Times
    /\ {MaxDate, MaxSignals} \subseteq Nat
    /\ \A view \in Views : \A x \in view : x.strategy \in Strategies /\ x.asset \in Assets
    /\ \A batch \in Batches : \A a \in Assets : batch[a] = None \/ MarketBar(batch[a])

VARIABLES
    book,    \* mode and creation time, None before create_book
    now,     \* the clock
    latest,  \* archive time of the ledger's last event, 0 without one
    signals, \* signals in the ledger, with their archive time
    days,    \* bar events in the ledger
    daily    \* the committed outputs

paperVars == <<book, now, latest, signals, days, daily>>

PaperTypeOK ==
    /\ book = None \/ book.mode \in {"historical_replay", "forward_shadow"}
    /\ now \in Times
    /\ \A x \in signals : x.at \in Times /\ x.archived \in Times
    /\ latest \in Times
    /\ days \in Seq([date: Dates, bars: Batches])
    /\ Len(daily) = Len(days)

PaperInit ==
    /\ book = None
    /\ now = Creation
    /\ latest = 0
    /\ signals = {}
    /\ days = <<>>
    /\ daily = <<>>

Forward == book.mode = "forward_shadow"
LastDay == IF days = <<>> THEN -1 ELSE days[Len(days)].date
LastStamp == Max({-1} \cup {x.at : x \in signals})

\* A second creation with the same configuration returns the book.
CreateBook(mode) ==
    /\ book = None
    /\ book' = [mode |-> mode, created |-> now]
    /\ UNCHANGED <<now, latest, signals, days, daily>>

\* A forward book takes signals on their date, after its creation, and soon.
Timely(at) ==
    /\ book.created <= at /\ at <= now
    /\ DateOf(at) = DateOf(now)
    /\ now - at <= MaxSignalAge

SlipInOrder(at) == at >= LastStamp

\* Signals are not inserted behind the last bars or the last stamp.
InOrder(at) == DateOf(at) >= LastDay /\ at >= LastStamp

\* One batch, whose signals share their stamp.
IngestSignals(view, at) ==
    /\ book # None /\ now >= latest
    /\ InOrder(at)
    /\ \A x \in view, y \in signals : <<y.strategy, y.asset, y.at>> # <<x.strategy, x.asset, at>>
    /\ Forward => Timely(at)
    /\ signals' = signals \cup
         {[strategy |-> x.strategy, asset |-> x.asset, score |-> x.score,
           at |-> at, archived |-> now] : x \in view}
    /\ latest' = now
    /\ UNCHANGED <<book, now, days, daily>>

\* What a day's fills cost, and what they add to a position.
Spent(fills) == Total([k \in DOMAIN fills |-> fills[k].q * fills[k].price + fills[k].commission])
Net(fills, a) == Total([k \in {j \in DOMAIN fills : fills[j].asset = a} |-> fills[k].q])

\* The replay of a history: what it commits for its last day.
Output(states, n) ==
    [nav |-> states[n].nav,
     cash |-> InitialCash - Total([i \in 1..n |-> Spent(states[i].fills)]) - states[n].borrow,
     positions |-> [a \in Assets |-> Total([i \in 1..n |-> Net(states[i].fills, a)])],
     fills |-> states[n].fills, borrow |-> states[n].borrow]

\* A replay must not revise a committed day.
Reproduces(states) ==
    \A i \in DOMAIN daily : states[i].nav = daily[i].nav /\ states[i].fills = daily[i].fills

\* A forward book takes a day's bars soon after the day, if the day began after its
\* creation and after all signals that count on it were archived.
TimelyBars(start, end) ==
    /\ book.created <= start /\ end <= now
    /\ now - end <= MaxBarDelay
    /\ \A x \in signals : x.at < start => x.archived < start

Replayed(history, states) ==
    /\ states[Len(history)] # None
    /\ Reproduces(states)
    /\ daily' = Append(daily, Output(states, Len(history)))

IngestBars(date, bars) ==
    LET start == date * DayLength
        end == start + DayLength
    IN /\ book # None /\ now >= latest
       /\ \E a \in Assets : bars[a] # None
       /\ date > LastDay
       /\ signals # {} /\ \A x \in signals : x.at < end
       /\ Forward => TimelyBars(start, end)
       /\ days' = Append(days, [date |-> date, bars |-> bars])
       /\ Replayed(days', Replay(days', signals))
       /\ latest' = now
       /\ UNCHANGED <<book, now, signals>>

\* Only a forward book looks at the clock.  One that is set back to before the last
\* event makes every call fail until it has caught up, and how far is no matter.
Clock ==
    /\ book # None
    /\ Forward
    /\ now' \in {now - 1, now + 1} \cap Times
    /\ now' >= latest - 1
    /\ UNCHANGED <<book, latest, signals, days, daily>>

PaperNext ==
    \/ \E mode \in {"historical_replay", "forward_shadow"} : CreateBook(mode)
    \/ /\ Cardinality({x.at : x \in signals}) < MaxSignals
       /\ \E view \in Views, at \in Stamps : IngestSignals(view, at)
    \/ \E date \in Dates, bars \in Batches : IngestBars(date, bars)
    \/ Clock

PaperSpec == PaperInit /\ [][PaperNext]_paperVars

-----------------------------------------------------------------------------
(* Properties. *)

\* Whatever is appended later, signals of the day itself included, the replay of
\* the ledger still gives every committed NAV and fill: the check in _replay never
\* has to refuse a day (run, _latest_signals, ingest_book).
HistoryStable ==
    daily # <<>> =>
        LET states == Replay(days, signals)
        IN states[Len(days)] # None /\ Reproduces(states)

\* The cash and the positions a book reports are added up from its fills; they
\* make up the NAV that the engine carried through exits, limits and borrow charges.
BooksBalance ==
    \A i \in DOMAIN daily :
        /\ \A a \in Assets : daily[i].positions[a] # 0 => days[i].bars[a] # None
        /\ daily[i].nav = daily[i].cash + Worth(daily[i].positions, days[i])

CashAtOpen(i) ==
    IF i = 1 THEN InitialCash - daily[1].borrow
    ELSE daily[i - 1].cash - (daily[i].borrow - daily[i - 1].borrow)

\* What a day's fills trade of an asset, and what its purchases by orders cost.
Turnover(fills, a) ==
    Total([k \in {j \in DOMAIN fills : fills[j].asset = a} |-> Abs(fills[k].q * fills[k].price)])
Bought(fills) ==
    Total([k \in {j \in DOMAIN fills : fills[j].reason = "rebalance" /\ fills[j].q > 0} |->
             fills[k].q * fills[k].price + fills[k].commission])

\* A day's fills could have happened: they lie in the bar's range, share its
\* volume, and the purchases are paid from the cash the day began with, not from
\* sales of the day (_fill_orders, _apply_protective_exits).
FillsExecutable ==
    \A i \in DOMAIN daily :
        LET fills == daily[i].fills
        IN /\ \A k \in DOMAIN fills :
                LET bar == days[i].bars[fills[k].asset]
                IN bar # None /\ bar.low <= fills[k].price /\ fills[k].price <= bar.high
           /\ \A a \in Assets : days[i].bars[a] # None =>
                100 * Turnover(fills, a) <= days[i].bars[a].volume * Execution.participation
           /\ Bought(fills) <= Most(0, CashAtOpen(i))

\* Precommitment: in a forward book the fills of a day are those of a replay that
\* knows only the signals archived before the day began on which the orders were
\* decided, the trading day before (ingest_book, _targets).
ForwardCommitted ==
    book # None /\ daily # <<>> /\ Forward =>
        \A i \in DOMAIN daily :
            LET decided == days[Most(1, i - 1)].date
                committed == {x \in signals : x.archived < decided * DayLength}
            IN daily[i].fills = Replay(SubSeq(days, 1, i), committed)[i].fills
=============================================================================
