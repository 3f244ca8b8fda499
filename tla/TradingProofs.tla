--------------------------- MODULE TradingProofs ---------------------------
(***************************************************************************)
(* Proofs about the trading side: the paper books (PaperBook, with the     *)
(* engine of Backtester) and, after them, TradeControl.                    *)
(*                                                                         *)
(* Paper books, for any sleeves, policy, bars and ledger: what carries all *)
(* of them is that the committed outputs are those of the replay of the    *)
(* whole ledger (Committed).  Within a day, every pass of the engine keeps *)
(* a state Good: its cash and quantities are those of the morning less     *)
(* what the day's fills cost and traded.  Over the days the sums add up    *)
(* (ReplaySums), and replays that see the same signals are the same        *)
(* (SameReplay), so that what is appended later changes no earlier day.    *)
(*                                                                         *)
(* TradeControl, for any proposals, books, policies and dispatchers: a     *)
(* reservation makes its dispatcher the only one ever to work on the       *)
(* proposal (Sole), and where it is in its work says what the two          *)
(* databases hold (DispatcherInv).                                         *)
(***************************************************************************)
EXTENDS PaperBook, TradeControl, FiniteSetTheorems, SequenceTheorems, NaturalsInduction, TLAPS

\* The steps that InTurn takes through the exits and through the orders of a day.
ExitOp(day, phase, entries, s, a) ==
    Exit(s, a, day.bars[a], ExitTrigger(s.pos[a], day.bars[a], phase, entries[a]))
OrderOp(orders, day, openOnly, s, a) == FillOrder(s, a, orders[a], day, openOnly)

INSTANCE SumTheorems WITH Op <- OrderOp
Exiting == INSTANCE SumTheorems WITH Op <- ExitOp

-----------------------------------------------------------------------------
(* Sums. *)

LEMMA TotalIsSum == ASSUME NEW f PROVE Total(f) = Sum(f, DOMAIN f)
BY DEF Total, Sum

LEMMA TotalType ==
    ASSUME NEW f, IsFiniteSet(DOMAIN f), \A k \in DOMAIN f : f[k] \in Int
    PROVE  Total(f) \in Int
BY TotalIsSum, SumType

LEMMA TotalMore ==
    ASSUME NEW f, IsFiniteSet(DOMAIN f), \A k \in DOMAIN f : f[k] \in Int,
           NEW n, n \notin DOMAIN f,
           NEW h, DOMAIN h = DOMAIN f \cup {n}, \A k \in DOMAIN f : h[k] = f[k], h[n] \in Int
    PROVE  Total(h) = Total(f) + h[n]
<1> DEFINE K == DOMAIN f
<1>1. IsFiniteSet(K) /\ n \notin K /\ \A k \in K : h[k] \in Int
  OBVIOUS
<1>2. Total(h) = Sum(h, K \cup {n})
  BY TotalIsSum
<1>3. Sum(h, K \cup {n}) = Sum(h, K) + h[n]
  <2> HIDE DEF K
  <2>1. QED
    BY <1>1, SumAdd
<1>4. Sum(h, K) = Sum(f, K)
  BY SumSame
<1>5. QED
  BY <1>2, <1>3, <1>4, TotalIsSum

LEMMA TotalSame ==
    ASSUME NEW f, IsFiniteSet(DOMAIN f), \A k \in DOMAIN f : f[k] \in Int,
           NEW h, DOMAIN h = DOMAIN f, \A k \in DOMAIN f : h[k] = f[k]
    PROVE  Total(h) = Total(f)
BY SumSame, TotalIsSum

-----------------------------------------------------------------------------
(* What a book adds up over its fills. *)

Reasons == {"rebalance", "stop_loss", "take_profit"}
FillSet == [asset : Assets, q : Int, price : Int, reason : Reasons, commission : Int]
Buys(fill) == fill.reason = "rebalance" /\ fill.q > 0

LEMMA DomainAppend ==
    ASSUME NEW F \in Seq(FillSet), NEW f \in FillSet
    PROVE  /\ Append(F, f) \in Seq(FillSet)
           /\ DOMAIN Append(F, f) = DOMAIN F \cup {Len(F) + 1}
           /\ Len(F) + 1 \notin DOMAIN F
           /\ \A k \in DOMAIN F : Append(F, f)[k] = F[k] /\ F[k] \in FillSet
           /\ Append(F, f)[Len(F) + 1] = f
           /\ IsFiniteSet(DOMAIN F) /\ Len(F) \in Nat
<1>1. DOMAIN F = 1..Len(F) /\ Len(F) \in Nat /\ Len(Append(F, f)) = Len(F) + 1
  OBVIOUS
<1>2. Append(F, f) \in Seq(FillSet)
  OBVIOUS
<1>3. DOMAIN Append(F, f) = 1..(Len(F) + 1)
  BY <1>1, <1>2
<1>4. IsFiniteSet(DOMAIN F)
  BY <1>1, FS_Interval
<1>5. 1..(Len(F) + 1) = 1..Len(F) \cup {Len(F) + 1} /\ Len(F) + 1 \notin 1..Len(F)
  BY <1>1
<1>6. \A k \in DOMAIN F : Append(F, f)[k] = F[k] /\ F[k] \in FillSet
  BY <1>1
<1>7. Append(F, f)[Len(F) + 1] = f
  BY <1>1
<1>8. QED
  BY <1>1, <1>2, <1>3, <1>4, <1>5, <1>6, <1>7

LEMMA SpentAppend ==
    ASSUME NEW F \in Seq(FillSet), NEW f \in FillSet
    PROVE  /\ Spent(F) \in Int
           /\ Spent(Append(F, f)) = Spent(F) + f.q * f.price + f.commission
<1> DEFINE G == Append(F, f)
           n == Len(F) + 1
           v == [k \in DOMAIN F |-> F[k].q * F[k].price + F[k].commission]
           w == [k \in DOMAIN G |-> G[k].q * G[k].price + G[k].commission]
<1>1. \A k \in DOMAIN F : v[k] \in Int
  <2>1. ASSUME NEW k \in DOMAIN F
        PROVE  F[k].q \in Int /\ F[k].price \in Int /\ F[k].commission \in Int
    <3>1. F[k] \in FillSet
      BY DomainAppend
    <3>2. QED
      BY <3>1 DEF FillSet
  <2>2. QED
    BY <2>1
<1>2. DOMAIN v = DOMAIN F /\ DOMAIN w = DOMAIN v \cup {n} /\ n \notin DOMAIN v
  BY DomainAppend
<1>3. \A k \in DOMAIN v : w[k] = v[k]
  BY <1>2, DomainAppend
<1>4. w[n] = f.q * f.price + f.commission
  BY <1>2, DomainAppend
<1>5. f.q \in Int /\ f.price \in Int /\ f.commission \in Int
  BY DEF FillSet
<1>6. w[n] \in Int /\ IsFiniteSet(DOMAIN v)
  BY <1>2, <1>4, <1>5, DomainAppend
<1>7. Spent(F) = Total(v) /\ Spent(G) = Total(w)
  BY DEF Spent
<1> HIDE DEF v, w, n, G
<1>8. Total(v) \in Int /\ Total(w) = Total(v) + w[n]
  BY <1>1, <1>2, <1>3, <1>6, TotalMore, TotalType
<1>9. QED
  BY <1>4, <1>5, <1>7, <1>8 DEF G

LEMMA NetAppend ==
    ASSUME NEW F \in Seq(FillSet), NEW f \in FillSet, NEW a
    PROVE  /\ Net(F, a) \in Int
           /\ Net(Append(F, f), a) = Net(F, a) + (IF f.asset = a THEN f.q ELSE 0)
<1> DEFINE G == Append(F, f)
           n == Len(F) + 1
           v == [k \in {j \in DOMAIN F : F[j].asset = a} |-> F[k].q]
           w == [k \in {j \in DOMAIN G : G[j].asset = a} |-> G[k].q]
<1>1. \A k \in DOMAIN v : v[k] \in Int
  <2>1. ASSUME NEW k \in DOMAIN v
        PROVE  F[k].q \in Int /\ F[k].price \in Int /\ F[k].commission \in Int
    <3>1. F[k] \in FillSet
      BY DomainAppend
    <3>2. QED
      BY <3>1 DEF FillSet
  <2>2. QED
    BY <2>1
<1>2. IsFiniteSet(DOMAIN v)
  BY DomainAppend, FS_Subset
<1>3. n \notin DOMAIN v /\ \A k \in DOMAIN v : w[k] = v[k]
  BY DomainAppend
<1>4. Net(F, a) = Total(v) /\ Net(G, a) = Total(w)
  BY DEF Net
<1>5. CASE f.asset = a
  <2>1. DOMAIN w = DOMAIN v \cup {n} /\ w[n] = f.q
    BY <1>5, DomainAppend
  <2>2. f.q \in Int
    BY DEF FillSet
  <2> HIDE DEF v, w, n, G
  <2>3. Total(v) \in Int /\ Total(w) = Total(v) + w[n]
    BY <1>1, <1>2, <1>3, <2>1, <2>2, TotalMore, TotalType
  <2>4. QED
    BY <1>4, <1>5, <2>1, <2>3 DEF G
<1>6. CASE f.asset # a
  <2>1. DOMAIN w = DOMAIN v
    BY <1>6, DomainAppend
  <2> HIDE DEF v, w, n, G
  <2>2. Total(v) \in Int /\ Total(w) = Total(v)
    BY <1>1, <1>2, <1>3, <2>1, TotalSame, TotalType
  <2>3. QED
    BY <1>4, <1>6, <2>2 DEF G
<1>7. QED
  BY <1>5, <1>6

LEMMA AbsType == ASSUME NEW x \in Int PROVE Abs(x) \in Nat /\ Abs(x) >= x /\ Abs(x) >= -x
BY DEF Abs

LEMMA TurnoverAppend ==
    ASSUME NEW F \in Seq(FillSet), NEW f \in FillSet, NEW a
    PROVE  /\ Turnover(F, a) \in Int
           /\ Turnover(Append(F, f), a)
                = Turnover(F, a) + (IF f.asset = a THEN Abs(f.q * f.price) ELSE 0)
<1> DEFINE G == Append(F, f)
           n == Len(F) + 1
           v == [k \in {j \in DOMAIN F : F[j].asset = a} |-> Abs(F[k].q * F[k].price)]
           w == [k \in {j \in DOMAIN G : G[j].asset = a} |-> Abs(G[k].q * G[k].price)]
<1>1. \A k \in DOMAIN v : v[k] \in Int
  <2>1. ASSUME NEW k \in DOMAIN v PROVE F[k].q * F[k].price \in Int
    <3>1. F[k] \in FillSet
      BY DomainAppend
    <3>2. F[k].q \in Int /\ F[k].price \in Int
      BY <3>1 DEF FillSet
    <3>3. QED
      BY <3>2
  <2>2. ASSUME NEW k \in DOMAIN v PROVE v[k] \in Int
    <3>1. v[k] = Abs(F[k].q * F[k].price)
      OBVIOUS
    <3>2. F[k].q * F[k].price \in Int
      BY <2>1
    <3>3. Abs(F[k].q * F[k].price) \in Nat
      BY ONLY <3>2, AbsType
    <3>4. QED
      BY <3>1, <3>3
  <2>3. QED
    BY <2>2
<1>2. IsFiniteSet(DOMAIN v)
  BY DomainAppend, FS_Subset
<1>3. n \notin DOMAIN v /\ \A k \in DOMAIN v : w[k] = v[k]
  BY DomainAppend
<1>4. Turnover(F, a) = Total(v) /\ Turnover(G, a) = Total(w)
  BY DEF Turnover
<1>5. CASE f.asset = a
  <2>1. DOMAIN w = DOMAIN v \cup {n} /\ w[n] = Abs(f.q * f.price)
    BY <1>5, DomainAppend
  <2>2. Abs(f.q * f.price) \in Int
    <3>1. f.q * f.price \in Int
      BY DEF FillSet
    <3>2. QED
      BY <3>1, AbsType
  <2> HIDE DEF v, w, n, G
  <2>3. Total(v) \in Int /\ Total(w) = Total(v) + w[n]
    BY <1>1, <1>2, <1>3, <2>1, <2>2, TotalMore, TotalType
  <2>4. QED
    BY <1>4, <1>5, <2>1, <2>3 DEF G
<1>6. CASE f.asset # a
  <2>1. DOMAIN w = DOMAIN v
    BY <1>6, DomainAppend
  <2> HIDE DEF v, w, n, G
  <2>2. Total(v) \in Int /\ Total(w) = Total(v)
    BY <1>1, <1>2, <1>3, <2>1, TotalSame, TotalType
  <2>3. QED
    BY <1>4, <1>6, <2>2 DEF G
<1>7. QED
  BY <1>5, <1>6

LEMMA BoughtType == ASSUME NEW F \in Seq(FillSet) PROVE Bought(F) \in Int
<1> DEFINE v == [k \in {j \in DOMAIN F : F[j].reason = "rebalance" /\ F[j].q > 0} |->
                   F[k].q * F[k].price + F[k].commission]
<1>1. ASSUME NEW k \in DOMAIN v PROVE v[k] \in Int
  <2>1. F[k] \in FillSet
    OBVIOUS
  <2>2. F[k].q \in Int /\ F[k].price \in Int /\ F[k].commission \in Int
    BY <2>1 DEF FillSet
  <2>3. QED
    BY <2>2
<1>2. IsFiniteSet(DOMAIN v)
  <2>1. DOMAIN F = 1..Len(F) /\ Len(F) \in Nat
    OBVIOUS
  <2>2. IsFiniteSet(DOMAIN F)
    BY <2>1, FS_Interval
  <2>3. QED
    BY <2>2, FS_Subset
<1>3. Bought(F) = Total(v)
  BY DEF Bought
<1> HIDE DEF v
<1>4. QED
  BY <1>1, <1>2, <1>3, TotalType

LEMMA BoughtAppend ==
    ASSUME NEW F \in Seq(FillSet), NEW f \in FillSet
    PROVE  /\ Bought(F) \in Int
           /\ Bought(Append(F, f))
                = Bought(F) + (IF Buys(f) THEN f.q * f.price + f.commission ELSE 0)
<1> DEFINE G == Append(F, f)
           n == Len(F) + 1
           v == [k \in {j \in DOMAIN F : F[j].reason = "rebalance" /\ F[j].q > 0} |->
                   F[k].q * F[k].price + F[k].commission]
           w == [k \in {j \in DOMAIN G : G[j].reason = "rebalance" /\ G[j].q > 0} |->
                   G[k].q * G[k].price + G[k].commission]
<1>1. \A k \in DOMAIN v : v[k] \in Int
  <2>1. ASSUME NEW k \in DOMAIN v
        PROVE  F[k].q \in Int /\ F[k].price \in Int /\ F[k].commission \in Int
    <3>1. F[k] \in FillSet
      BY DomainAppend
    <3>2. QED
      BY <3>1 DEF FillSet
  <2>2. QED
    BY <2>1
<1>2. IsFiniteSet(DOMAIN v)
  BY DomainAppend, FS_Subset
<1>3. n \notin DOMAIN v /\ \A k \in DOMAIN v : w[k] = v[k]
  BY DomainAppend
<1>4. Bought(F) = Total(v) /\ Bought(G) = Total(w)
  BY DEF Bought
<1>5. CASE Buys(f)
  <2>1. DOMAIN w = DOMAIN v \cup {n} /\ w[n] = f.q * f.price + f.commission
    BY <1>5, DomainAppend DEF Buys
  <2>2. f.q * f.price + f.commission \in Int
    BY DEF FillSet
  <2> HIDE DEF v, w, n, G
  <2>3. Total(v) \in Int /\ Total(w) = Total(v) + w[n]
    BY <1>1, <1>2, <1>3, <2>1, <2>2, TotalMore, TotalType
  <2>4. QED
    BY <1>4, <1>5, <2>1, <2>3 DEF G
<1>6. CASE ~ Buys(f)
  <2>1. DOMAIN w = DOMAIN v
    BY <1>6, DomainAppend DEF Buys
  <2> HIDE DEF v, w, n, G
  <2>2. Total(v) \in Int /\ Total(w) = Total(v)
    BY <1>1, <1>2, <1>3, <2>1, TotalSame, TotalType
  <2>3. QED
    BY <1>4, <1>6, <2>2 DEF G
<1>7. QED
  BY <1>5, <1>6

\* No fills, no sums.
LEMMA NoFills ==
    /\ Spent(<<>>) = 0 /\ Bought(<<>>) = 0
    /\ \A a : Net(<<>>, a) = 0 /\ Turnover(<<>>, a) = 0
<1>1. ASSUME NEW f, DOMAIN f = {} PROVE Total(f) = 0
  <2>1. IsFiniteSet({})
    BY FS_EmptySet
  <2>2. Sum(f, {}) = 0
    BY <2>1, SumStep
  <2>3. QED
    BY <1>1, <2>2, TotalIsSum
<1>2. DOMAIN <<>> = {}
  OBVIOUS
<1>3. Spent(<<>>) = 0
  <2> DEFINE w == [k \in DOMAIN <<>> |-> <<>>[k].q * <<>>[k].price + <<>>[k].commission]
  <2>1. DOMAIN w = {} /\ Spent(<<>>) = Total(w)
    BY <1>2 DEF Spent
  <2> HIDE DEF w
  <2>2. QED
    BY <1>1, <2>1
<1>4. Bought(<<>>) = 0
  <2> DEFINE w == [k \in {j \in DOMAIN <<>> : <<>>[j].reason = "rebalance" /\ <<>>[j].q > 0} |->
                     <<>>[k].q * <<>>[k].price + <<>>[k].commission]
  <2>1. DOMAIN w = {} /\ Bought(<<>>) = Total(w)
    BY <1>2 DEF Bought
  <2> HIDE DEF w
  <2>2. QED
    BY <1>1, <2>1
<1>5. ASSUME NEW a PROVE Net(<<>>, a) = 0
  <2> DEFINE w == [k \in {j \in DOMAIN <<>> : <<>>[j].asset = a} |-> <<>>[k].q]
  <2>1. DOMAIN w = {} /\ Net(<<>>, a) = Total(w)
    BY <1>2 DEF Net
  <2> HIDE DEF w
  <2>2. QED
    BY <1>1, <2>1
<1>6. ASSUME NEW a PROVE Turnover(<<>>, a) = 0
  <2> DEFINE w == [k \in {j \in DOMAIN <<>> : <<>>[j].asset = a} |->
                     Abs(<<>>[k].q * <<>>[k].price)]
  <2>1. DOMAIN w = {} /\ Turnover(<<>>, a) = Total(w)
    BY <1>2 DEF Turnover
  <2> HIDE DEF w
  <2>2. QED
    BY <1>1, <2>1
<1>7. QED
  BY <1>3, <1>4, <1>5, <1>6

-----------------------------------------------------------------------------
(* The states of a day. *)

PositionSet == [q : Int, entry : Int, exit : {None, "stop_loss", "take_profit"}]
OrderSet == [q : Int, expires : Int, limit : Int]
States ==
    [cash : Int, pos : [Assets -> PositionSet], orders : [Assets -> OrderSet \cup {None}],
     sleeves : [Strategies -> [Assets -> Int]], close : [Assets -> Int], borrow : Int,
     fills : Seq(FillSet), used : [Assets -> Int], power : Int, nav : Int]

GoodDay(day) ==
    /\ day.date \in Int /\ day.index \in Int
    /\ \A a \in Assets : day.bars[a] = None \/ MarketBar(day.bars[a])

\* What of the day's volume of an asset a book may trade.
Volume(day, a) == (day.bars[a].volume * Execution.participation) \div 100

Executable(fill, day) ==
    /\ day.bars[fill.asset] # None
    /\ day.bars[fill.asset].low <= fill.price /\ fill.price <= day.bars[fill.asset].high

\* A day that began with the cash c0 and the quantities p0, b0 paid for borrowing.
Good(day, c0, p0, b0) ==
    {st \in States :
        /\ st.cash = c0 - Spent(st.fills) /\ st.borrow = b0
        /\ \A a \in Assets : st.pos[a].q = p0[a] + Net(st.fills, a)
        /\ \A a \in Assets : st.pos[a].q # 0 => day.bars[a] # None
        /\ \A k \in DOMAIN st.fills : Executable(st.fills[k], day)
        /\ \A a \in Assets : st.used[a] = Turnover(st.fills, a)
        /\ \A a \in Assets : day.bars[a] # None => st.used[a] <= Volume(day, a)
        /\ 0 <= st.power /\ st.power + Bought(st.fills) <= Most(0, c0)}

LEMMA BarFacts ==
    ASSUME NEW bar, MarketBar(bar)
    PROVE  /\ bar.open \in Nat /\ bar.high \in Nat /\ bar.low \in Nat
           /\ bar.close \in Nat /\ bar.volume \in Nat
           /\ 0 < bar.low /\ bar.low <= bar.open /\ bar.low <= bar.close
           /\ bar.open <= bar.high /\ bar.close <= bar.high
BY DEF MarketBar, Least, Most

LEMMA PolicyFacts ==
    /\ Execution.participation \in 1..100
    /\ Execution.commission \in Nat /\ Execution.borrow_rate \in Nat
    /\ Execution.slippage \in 0..99 /\ Execution.stop_loss \in 1..99
    /\ Execution.limit_offset \in 0..99 /\ Execution.take_profit \in Nat
    /\ Execution.limit_valid_days \in Nat /\ Execution.max_asset_weight \in 1..100
    /\ Execution.long_quantile \in 1..100 /\ Execution.short_quantile \in 1..100
BY EngineAssumption DEF ExecutionPolicy

LEMMA StateFacts ==
    ASSUME NEW st \in States
    PROVE  /\ st.cash \in Int /\ st.borrow \in Int /\ st.power \in Int /\ st.nav \in Int
           /\ st.fills \in Seq(FillSet)
           /\ st.pos \in [Assets -> PositionSet] /\ st.used \in [Assets -> Int]
           /\ st.orders \in [Assets -> OrderSet \cup {None}]
           /\ st.sleeves \in [Strategies -> [Assets -> Int]] /\ st.close \in [Assets -> Int]
           /\ \A a \in Assets : st.used[a] \in Int /\ st.pos[a] \in PositionSet
           /\ \A a \in Assets : st.pos[a].q \in Int /\ st.pos[a].entry \in Int
BY DEF States, PositionSet

\* A fill that fits into the day's volume and is paid for keeps a day good.
LEMMA FillKeeps ==
    ASSUME NEW day, NEW c0 \in Int, NEW p0, NEW b0, \A a \in Assets : p0[a] \in Int,
           NEW st \in Good(day, c0, p0, b0), NEW f \in FillSet, NEW st2 \in States,
           Executable(f, day),
           Abs(f.q * f.price) <= Volume(day, f.asset) - st.used[f.asset],
           Volume(day, f.asset) \in Int,
           st2.cash = st.cash - f.q * f.price - f.commission,
           st2.fills = Append(st.fills, f),
           st2.used = [st.used EXCEPT ![f.asset] = @ + Abs(f.q * f.price)],
           st2.borrow = st.borrow,
           \A a \in Assets : st2.pos[a].q = st.pos[a].q + (IF f.asset = a THEN f.q ELSE 0),
           0 <= st2.power,
           st2.power + (IF Buys(f) THEN f.q * f.price + f.commission ELSE 0) <= st.power
    PROVE  st2 \in Good(day, c0, p0, b0)
<1> DEFINE F == st.fills
<1>1. st \in States /\ F \in Seq(FillSet) /\ st2 \in States
  BY StateFacts DEF Good
<1>2. /\ f.q \in Int /\ f.price \in Int /\ f.commission \in Int /\ f.asset \in Assets
      /\ Abs(f.q * f.price) \in Int
  <2>1. f.q \in Int /\ f.price \in Int /\ f.commission \in Int /\ f.asset \in Assets
    BY DEF FillSet
  <2>2. f.q * f.price \in Int
    BY <2>1
  <2>3. Abs(f.q * f.price) \in Nat
    BY ONLY <2>2, AbsType
  <2>4. QED
    BY <2>1, <2>3
<1>3. st2.cash = c0 - Spent(st2.fills)
  <2>1. st.cash = c0 - Spent(F)
    BY DEF Good
  <2>2. Spent(F) \in Int /\ Spent(Append(F, f)) = Spent(F) + f.q * f.price + f.commission
    BY <1>1, SpentAppend
  <2>3. QED
    BY <1>2, <2>1, <2>2
<1>4. ASSUME NEW a \in Assets PROVE st2.pos[a].q = p0[a] + Net(st2.fills, a)
  <2>1. st.pos[a].q = p0[a] + Net(F, a)
    BY DEF Good
  <2>2. Net(F, a) \in Int /\ Net(Append(F, f), a) = Net(F, a) + (IF f.asset = a THEN f.q ELSE 0)
    BY <1>1, NetAppend
  <2>3. QED
    BY <1>2, <2>1, <2>2
<1>5. ASSUME NEW a \in Assets, st2.pos[a].q # 0 PROVE day.bars[a] # None
  <2>1. CASE f.asset = a
    BY <2>1 DEF Executable
  <2>2. CASE f.asset # a
    <3>1. st2.pos[a].q = st.pos[a].q /\ st.pos[a].q \in Int
      <4>1. st.pos[a].q \in Int
        BY <1>1, StateFacts
      <4>2. QED
        BY <2>2, <4>1
    <3>2. QED
      BY <1>5, <3>1 DEF Good
  <2>3. QED
    BY <2>1, <2>2
<1>6. ASSUME NEW k \in DOMAIN st2.fills PROVE Executable(st2.fills[k], day)
  <2>1. CASE k \in DOMAIN F
    <3>1. st2.fills[k] = F[k]
      BY <1>1, <2>1, DomainAppend
    <3>2. QED
      BY <2>1, <3>1 DEF Good
  <2>2. CASE k \notin DOMAIN F
    <3>1. st2.fills[k] = f
      BY <1>1, <1>6, <2>2, DomainAppend
    <3>2. QED
      BY <3>1
  <2>3. QED
    BY <2>1, <2>2
<1>7. ASSUME NEW a \in Assets
      PROVE  /\ st2.used[a] = Turnover(st2.fills, a)
             /\ day.bars[a] # None => st2.used[a] <= Volume(day, a)
  <2>1. st.used[a] = Turnover(F, a) /\ (day.bars[a] # None => st.used[a] <= Volume(day, a))
    BY DEF Good
  <2>2. Turnover(F, a) \in Int
        /\ Turnover(Append(F, f), a)
             = Turnover(F, a) + (IF f.asset = a THEN Abs(f.q * f.price) ELSE 0)
    BY <1>1, TurnoverAppend
  <2>3. st.used \in [Assets -> Int]
    BY <1>1, StateFacts
  <2>4. CASE f.asset = a
    <3>1. st2.used[a] = st.used[a] + Abs(f.q * f.price) /\ st.used[a] \in Int
      BY <2>3, <2>4
    <3>2. st2.used[a] <= Volume(day, a)
      BY <1>2, <2>4, <3>1
    <3>3. QED
      BY <2>1, <2>2, <2>4, <3>1, <3>2
  <2>5. CASE f.asset # a
    <3>1. st2.used[a] = st.used[a]
      BY <2>3, <2>5
    <3>2. Turnover(Append(F, f), a) = Turnover(F, a)
      BY <2>2, <2>5
    <3>3. QED
      BY <2>1, <3>1, <3>2
  <2>6. QED
    BY <2>4, <2>5
<1>8. st2.power + Bought(st2.fills) <= Most(0, c0)
  <2>1. st.power + Bought(F) <= Most(0, c0) /\ Most(0, c0) \in Int
    BY DEF Good, Most
  <2>2. Bought(F) \in Int
        /\ Bought(Append(F, f))
             = Bought(F) + (IF Buys(f) THEN f.q * f.price + f.commission ELSE 0)
    BY <1>1, BoughtAppend
  <2>3. st.power \in Int /\ st2.power \in Int
    BY <1>1, StateFacts
  <2> DEFINE x == IF Buys(f) THEN f.q * f.price + f.commission ELSE 0
             m == Most(0, c0)
  <2>4. x \in Int
    BY <1>2
  <2>5. m \in Int /\ st.power + Bought(F) <= m /\ st2.power + x <= st.power
    BY <2>1
  <2>6. Bought(st2.fills) = Bought(F) + x
    BY <2>2
  <2> HIDE DEF x, m
  <2>7. st2.power + Bought(st2.fills) <= m
    BY <2>2, <2>3, <2>4, <2>5, <2>6
  <2>8. QED
    BY <2>7 DEF m
<1>9. QED
  BY <1>1, <1>3, <1>4, <1>5, <1>6, <1>7, <1>8 DEF Good

\* A day stays good where nothing is filled.
LEMMA IdleKeeps ==
    ASSUME NEW day, NEW c0, NEW p0, NEW b0, NEW st \in Good(day, c0, p0, b0), NEW st2 \in States,
           st2.cash = st.cash, st2.fills = st.fills, st2.used = st.used,
           st2.borrow = st.borrow,
           \A a \in Assets : st2.pos[a].q = st.pos[a].q,
           0 <= st2.power, st2.power <= st.power, c0 \in Int
    PROVE  st2 \in Good(day, c0, p0, b0)
<1>1. st \in States
  BY DEF Good
<1>2. st2.power + Bought(st2.fills) <= Most(0, c0)
  <2>1. st.power + Bought(st.fills) <= Most(0, c0) /\ Most(0, c0) \in Int
    BY DEF Good, Most
  <2>2. st.power \in Int /\ st2.power \in Int /\ st.fills \in Seq(FillSet)
    BY <1>1, StateFacts
  <2>3. Bought(st.fills) \in Int
    BY <2>2, BoughtType
  <2>4. QED
    BY <2>1, <2>2, <2>3
<1>3. QED
  BY <1>1, <1>2 DEF Good

-----------------------------------------------------------------------------
(* Fills. *)

LEMMA QuotientFits ==
    ASSUME NEW a \in Nat, NEW b \in Nat, b > 0
    PROVE  a \div b \in Nat /\ (a \div b) * b <= a
OBVIOUS

LEMMA ProductGrows ==
    ASSUME NEW m \in Nat, NEW n \in Nat, m <= n, NEW p \in Nat
    PROVE  m * p <= n * p
OBVIOUS

\* A quantity within the capacity.
LEMMA LotFits ==
    ASSUME NEW c \in Nat, NEW p \in Nat, p > 0, NEW q \in Int, Abs(q) <= c \div p
    PROVE  q * p \in Int /\ Abs(q * p) <= c
<1>1. c \div p \in Nat /\ (c \div p) * p <= c
  BY QuotientFits
<1>2. Abs(q) \in Nat
  BY AbsType
<1>3. Abs(q) * p <= (c \div p) * p
  BY <1>1, <1>2, ProductGrows
<1>4. Abs(q * p) = Abs(q) * p
  <2>1. CASE q < 0
    <3>1. q * p < 0
      BY <2>1
    <3>2. Abs(q * p) = -(q * p) /\ Abs(q) = -q
      BY <2>1, <3>1 DEF Abs
    <3>3. -(q * p) = (-q) * p
      OBVIOUS
    <3>4. QED
      BY <3>2, <3>3
  <2>2. CASE q >= 0
    <3>1. q * p >= 0
      BY <2>2
    <3>2. QED
      BY <2>2, <3>1 DEF Abs
  <2>3. QED
    BY <2>1, <2>2
<1>5. q * p \in Int /\ (c \div p) * p \in Int /\ Abs(q) * p \in Int
  BY <1>1, <1>2
<1>6. QED
  BY <1>1, <1>3, <1>4, <1>5

LEMMA CommissionType ==
    ASSUME NEW n \in Int
    PROVE  Commission(n) \in Nat /\ Commission(n) = (Abs(n) * Execution.commission) \div 100
<1>1. Abs(n) \in Nat /\ Execution.commission \in Nat
  BY AbsType, PolicyFacts
<1>2. Abs(n) * Execution.commission \in Nat
  BY <1>1
<1>3. QED
  BY <1>2 DEF Commission, Quotient

LEMMA FillFacts ==
    ASSUME NEW a \in Assets, NEW q \in Int, NEW price \in Int, NEW reason \in Reasons
    PROVE  /\ Fill(a, q, price, reason) \in FillSet
           /\ Fill(a, q, price, reason).asset = a /\ Fill(a, q, price, reason).q = q
           /\ Fill(a, q, price, reason).price = price
           /\ Fill(a, q, price, reason).reason = reason
           /\ Fill(a, q, price, reason).commission = Commission(q * price)
<1>1. q * price \in Int
  OBVIOUS
<1>2. Commission(q * price) \in Nat
  BY ONLY <1>1, CommissionType
<1>3. QED
  BY <1>2 DEF Fill, FillSet

LEMMA PaidFacts ==
    ASSUME NEW st \in States, NEW f \in FillSet
    PROVE  /\ Paid(st, f) \in States
           /\ Paid(st, f).cash = st.cash - f.q * f.price - f.commission
           /\ Paid(st, f).fills = Append(st.fills, f)
           /\ Paid(st, f).used = [st.used EXCEPT ![f.asset] = @ + Abs(f.q * f.price)]
           /\ Paid(st, f).pos = st.pos /\ Paid(st, f).power = st.power
           /\ Paid(st, f).orders = st.orders /\ Paid(st, f).borrow = st.borrow
<1> DEFINE c == st.cash - f.q * f.price - f.commission
           u == [st.used EXCEPT ![f.asset] = @ + Abs(f.q * f.price)]
           g == Append(st.fills, f)
<1>1. /\ f.q \in Int /\ f.price \in Int /\ f.commission \in Int /\ f.asset \in Assets
      /\ f.q * f.price \in Int
  BY DEF FillSet
<1>2. Abs(f.q * f.price) \in Int
  BY ONLY <1>1, AbsType
<1>3. c \in Int /\ u \in [Assets -> Int] /\ g \in Seq(FillSet)
  BY <1>1, <1>2, StateFacts
<1>4. Paid(st, f) = [st EXCEPT !.cash = c, !.used = u, !.fills = g]
  BY DEF Paid, States
<1> HIDE DEF c, u, g
<1>5. [st EXCEPT !.cash = c, !.used = u, !.fills = g] \in States
  BY <1>3 DEF States
<1>6. QED
  BY <1>4, <1>5 DEF States, c, u, g

-----------------------------------------------------------------------------
(* Protective exits. *)

ExitReasons == {"stop_loss", "take_profit"}

LEMMA CapacityFacts ==
    ASSUME NEW day, NEW c0, NEW p0, NEW b0, NEW st \in Good(day, c0, p0, b0), NEW a \in Assets,
           day.bars[a] # None, MarketBar(day.bars[a])
    PROVE  /\ Capacity(st, day.bars[a], a) \in Nat
           /\ Capacity(st, day.bars[a], a) = Volume(day, a) - st.used[a]
           /\ Volume(day, a) \in Int
<1>1. st.used[a] \in Int /\ st.used[a] <= Volume(day, a)
  <2>1. st \in States
    BY DEF Good
  <2>2. QED
    BY <2>1, StateFacts DEF Good
<1>2. Volume(day, a) \in Int
  <2>1. day.bars[a].volume \in Nat /\ Execution.participation \in Nat
    BY BarFacts, PolicyFacts
  <2>2. day.bars[a].volume * Execution.participation \in Nat
    BY <2>1
  <2>3. QED
    BY <2>2 DEF Volume
<1>3. Capacity(st, day.bars[a], a) = Most(0, Volume(day, a) - st.used[a])
  BY DEF Capacity, Volume
<1>4. QED
  BY <1>1, <1>2, <1>3 DEF Most

LEMMA ExitPriceIn ==
    ASSUME NEW bar, MarketBar(bar), NEW price \in Int, NEW direction \in {-1, 1}
    PROVE  /\ ExitPrice(bar, price, direction) \in Nat
           /\ bar.low <= ExitPrice(bar, price, direction)
           /\ ExitPrice(bar, price, direction) <= bar.high
<1> DEFINE slipped == (price * (100 + direction * Execution.slippage)) \div 100
<1>1. slipped \in Int
  <2>1. direction * Execution.slippage \in Int
    BY PolicyFacts
  <2>2. price * (100 + direction * Execution.slippage) \in Int
    BY <2>1
  <2>3. QED
    BY <2>2
<1>2. bar.low \in Nat /\ bar.high \in Nat /\ bar.low <= bar.high
  BY BarFacts
<1>3. ExitPrice(bar, price, direction) = Least(bar.high, Most(bar.low, slipped))
  BY DEF ExitPrice
<1> HIDE DEF slipped
<1>4. QED
  BY <1>1, <1>2, <1>3 DEF Least, Most

LEMMA TriggerFacts ==
    ASSUME NEW p \in PositionSet, NEW bar, MarketBar(bar), NEW phase, NEW e
    PROVE  ExitTrigger(p, bar, phase, e) \in {None} \cup (ExitReasons \X Int)
<1> DEFINE long == p.q > 0
           sign == IF long THEN 1 ELSE -1
           stop == (p.entry * (100 - sign * Execution.stop_loss)) \div 100
           target == (p.entry * (100 + sign * Execution.take_profit)) \div 100
           Better(x, y) == IF long THEN Most(x, y) ELSE Least(x, y)
           Worse(x, y) == IF long THEN Least(x, y) ELSE Most(x, y)
<1>1. p.entry \in Int /\ sign \in Int /\ bar.open \in Int
  BY BarFacts DEF PositionSet
<1>2. stop \in Int /\ target \in Int
  <2> HIDE DEF sign
  <2>1. sign * Execution.stop_loss \in Int /\ sign * Execution.take_profit \in Int
    BY <1>1, PolicyFacts
  <2>2. /\ p.entry * (100 - sign * Execution.stop_loss) \in Int
        /\ p.entry * (100 + sign * Execution.take_profit) \in Int
    BY <1>1, <2>1
  <2>3. QED
    BY <2>2
<1>3. p.exit \in {None} \cup ExitReasons
  BY DEF PositionSet, ExitReasons
<1>4. \/ p.exit # None /\ ExitTrigger(p, bar, phase, e) = <<p.exit, bar.open>>
      \/ ExitTrigger(p, bar, phase, e) = <<"take_profit", bar.open>>
      \/ ExitTrigger(p, bar, phase, e)
           = <<"stop_loss", IF phase = "entry" THEN stop ELSE Worse(bar.open, stop)>>
      \/ ExitTrigger(p, bar, phase, e)
           = <<"take_profit", IF phase = "entry" THEN target ELSE Better(bar.open, target)>>
      \/ ExitTrigger(p, bar, phase, e) = None
  BY DEF ExitTrigger
<1> HIDE DEF stop, target
<1>5. /\ (IF phase = "entry" THEN stop ELSE Worse(bar.open, stop)) \in Int
      /\ (IF phase = "entry" THEN target ELSE Better(bar.open, target)) \in Int
  BY <1>1, <1>2 DEF Least, Most
<1> HIDE DEF Better, Worse
<1>6. QED
  BY <1>1, <1>3, <1>4, <1>5 DEF ExitReasons

LEMMA ReducedKeeps ==
    ASSUME NEW day, NEW c0 \in Int, NEW p0, NEW b0, \A a \in Assets : p0[a] \in Int,
           NEW st \in Good(day, c0, p0, b0), NEW a \in Assets,
           day.bars[a] # None, MarketBar(day.bars[a]),
           NEW price \in Nat, day.bars[a].low <= price, price <= day.bars[a].high,
           NEW q \in Int, Abs(q) <= Capacity(st, day.bars[a], a) \div price,
           NEW reason \in ExitReasons
    PROVE  Reduced(st, a, q, price, reason) \in Good(day, c0, p0, b0)
<1>1. st \in States /\ reason \in {None, "stop_loss", "take_profit"} /\ price > 0
  BY BarFacts DEF Good, ExitReasons
<1>2. st.pos[a] \in PositionSet /\ st.pos \in [Assets -> PositionSet] /\ st.pos[a].q \in Int
  BY <1>1, StateFacts
<1>3. 0 <= st.power /\ st.power \in Int
  BY <1>1, StateFacts DEF Good
<1>4. CASE q = 0
  <2> DEFINE r == [st.pos[a] EXCEPT !.exit = reason]
             s2 == [st EXCEPT !.pos = [st.pos EXCEPT ![a] = r]]
  <2>1. Reduced(st, a, q, price, reason) = s2
    BY <1>4 DEF Reduced, States
  <2>2. r \in PositionSet /\ r.q = st.pos[a].q
    BY <1>1, <1>2 DEF PositionSet
  <2> HIDE DEF r
  <2>3. s2 \in States
    BY <1>1, <1>2, <2>2 DEF States
  <2>4. /\ s2.cash = st.cash /\ s2.fills = st.fills /\ s2.used = st.used /\ s2.power = st.power
        /\ s2.borrow = st.borrow
        /\ s2.pos = [st.pos EXCEPT ![a] = r]
    BY <1>1 DEF States
  <2> HIDE DEF s2
  <2>5. \A b \in Assets : s2.pos[b].q = st.pos[b].q
    BY <1>2, <2>2, <2>4
  <2>6. 0 <= s2.power /\ s2.power <= st.power
    BY <1>3, <2>4
  <2>7. QED
    BY <2>1, <2>3, <2>4, <2>5, <2>6, IdleKeeps
<1>5. CASE q # 0
  <2> DEFINE f == Fill(a, q, price, reason)
             old == st.pos[a]
             r == Left(old, q, reason)
             s1 == Paid(st, f)
             s2 == [s1 EXCEPT !.pos = [s1.pos EXCEPT ![a] = r]]
  <2>1. /\ f \in FillSet /\ f.asset = a /\ f.q = q /\ f.price = price /\ f.reason = reason
    <3>1. reason \in Reasons
      BY DEF Reasons, ExitReasons
    <3>2. QED
      BY <3>1, FillFacts
  <2> HIDE DEF f
  <2>2. /\ s1 \in States /\ s1.cash = st.cash - f.q * f.price - f.commission
        /\ s1.fills = Append(st.fills, f)
        /\ s1.used = [st.used EXCEPT ![f.asset] = @ + Abs(f.q * f.price)]
        /\ s1.pos = st.pos /\ s1.power = st.power /\ s1.borrow = st.borrow
    BY <1>1, <2>1, PaidFacts
  <2>3. Reduced(st, a, q, price, reason) = s2
    <3>1. Reduced(st, a, q, price, reason) = [s1 EXCEPT !.pos[a] = Left(@, q, reason)]
      BY <1>5 DEF Reduced, f
    <3>2. s1.pos = st.pos /\ s1 \in States
      BY <2>2
    <3> HIDE DEF s1
    <3>3. s1.pos[a] = old
      BY <3>2
    <3>4. QED
      BY <3>1, <3>2, <3>3 DEF States
  <2>4. r \in PositionSet /\ r.q = old.q + q
    <3>1. NoPosition \in PositionSet /\ NoPosition.q = 0
      BY DEF NoPosition, PositionSet
    <3>2. [old EXCEPT !.q = @ + q, !.exit = reason] \in PositionSet
          /\ [old EXCEPT !.q = @ + q, !.exit = reason].q = old.q + q
      <4>1. old \in PositionSet /\ old.q + q \in Int
        BY <1>2
      <4> HIDE DEF old
      <4>2. QED
        BY <1>1, <4>1 DEF PositionSet
    <3>3. QED
      BY <3>1, <3>2 DEF Left
  <2> HIDE DEF r, s1
  <2>5. s2 \in States
    BY <1>2, <2>2, <2>4 DEF States
  <2>6. /\ s2.cash = s1.cash /\ s2.fills = s1.fills /\ s2.used = s1.used /\ s2.power = s1.power
        /\ s2.pos = [s1.pos EXCEPT ![a] = r] /\ s2.borrow = s1.borrow
    BY <2>2 DEF States
  <2> HIDE DEF s2
  <2>7. \A b \in Assets : s2.pos[b].q = st.pos[b].q + (IF f.asset = b THEN f.q ELSE 0)
    <3>1. ASSUME NEW b \in Assets
          PROVE  s2.pos[b].q = st.pos[b].q + (IF f.asset = b THEN f.q ELSE 0)
      <4>1. st.pos[b].q \in Int
        BY <1>1, StateFacts
      <4>2. CASE b = a
        BY <1>2, <2>1, <2>2, <2>4, <2>6, <4>2
      <4>3. CASE b # a
        BY <1>2, <2>1, <2>2, <2>6, <4>1, <4>3
      <4>4. QED
        BY <4>2, <4>3
    <3>2. QED
      BY <3>1
  <2>8. Abs(f.q * f.price) <= Volume(day, f.asset) - st.used[f.asset]
    <3>1. Capacity(st, day.bars[a], a) \in Nat
          /\ Capacity(st, day.bars[a], a) = Volume(day, a) - st.used[a]
      BY CapacityFacts
    <3>2. Abs(q * price) <= Capacity(st, day.bars[a], a)
      BY <1>1, <3>1, LotFits
    <3>3. QED
      BY <2>1, <3>1, <3>2
  <2>9. Executable(f, day)
    BY <2>1 DEF Executable
  <2>10. /\ 0 <= s2.power
         /\ s2.power + (IF Buys(f) THEN f.q * f.price + f.commission ELSE 0) <= st.power
    <3>1. ~ Buys(f)
      BY <2>1 DEF Buys, ExitReasons
    <3>2. QED
      BY <1>3, <2>2, <2>6, <3>1
  <2>11. Volume(day, f.asset) \in Int
    BY <2>1, CapacityFacts
  <2>12. /\ s2.cash = st.cash - f.q * f.price - f.commission /\ s2.borrow = st.borrow
         /\ s2.fills = Append(st.fills, f)
         /\ s2.used = [st.used EXCEPT ![f.asset] = @ + Abs(f.q * f.price)]
    BY <2>2, <2>6
  <2>13. s2 \in Good(day, c0, p0, b0)
    BY <2>1, <2>5, <2>7, <2>8, <2>9, <2>10, <2>11, <2>12, FillKeeps
  <2>14. QED
    BY <2>3, <2>13
<1>6. QED
  BY <1>4, <1>5

LEMMA ExitKeeps ==
    ASSUME NEW day, NEW c0 \in Int, NEW p0, NEW b0, \A a \in Assets : p0[a] \in Int,
           NEW st \in Good(day, c0, p0, b0), NEW a \in Assets,
           day.bars[a] # None, MarketBar(day.bars[a]), NEW phase, NEW e
    PROVE  Exit(st, a, day.bars[a], ExitTrigger(st.pos[a], day.bars[a], phase, e))
             \in Good(day, c0, p0, b0)
<1> DEFINE bar == day.bars[a]
           t == ExitTrigger(st.pos[a], bar, phase, e)
           held == st.pos[a].q
           direction == IF held > 0 THEN -1 ELSE 1
           price == ExitPrice(bar, t[2], direction)
           n == Least(Abs(held), Capacity(st, bar, a) \div price)
           q == direction * n
<1>1. st \in States /\ held \in Int /\ st.pos[a] \in PositionSet
  <2>1. st \in States
    BY DEF Good
  <2>2. QED
    BY <2>1, StateFacts
<1>2. CASE t = None
  BY <1>2 DEF Exit
<1>3. CASE t # None
  <2>1. t \in ExitReasons \X Int
    BY <1>1, <1>3, TriggerFacts
  <2>2. t[1] \in ExitReasons /\ t[2] \in Int
    BY ONLY <2>1
  <2>3. direction \in {-1, 1}
    OBVIOUS
  <2>4. Exit(st, a, bar, t) = Reduced(st, a, q, price, t[1])
    BY <1>3 DEF Exit
  <2> HIDE DEF t, direction, held
  <2>5. price \in Nat /\ bar.low <= price /\ price <= bar.high
    BY <2>2, <2>3, ExitPriceIn
  <2>6. price > 0
    BY <2>5, BarFacts
  <2>7. Capacity(st, bar, a) \in Nat
    BY CapacityFacts
  <2> HIDE DEF price
  <2>8. Capacity(st, bar, a) \div price \in Nat
    BY <2>5, <2>6, <2>7, QuotientFits
  <2>9. n \in Nat /\ n <= Capacity(st, bar, a) \div price
    <3>1. Abs(held) \in Nat
      BY <1>1, AbsType
    <3>2. QED
      BY <2>8, <3>1 DEF Least
  <2>10. q \in Int /\ Abs(q) <= Capacity(st, bar, a) \div price
    <3> HIDE DEF n
    <3>1. q \in Int /\ Abs(q) = n
      BY <2>3, <2>9 DEF Abs
    <3>2. QED
      BY <2>9, <3>1
  <2> HIDE DEF q
  <2>11. Reduced(st, a, q, price, t[1]) \in Good(day, c0, p0, b0)
    BY <2>2, <2>5, <2>10, ReducedKeeps
  <2>12. QED
    BY <2>4, <2>11 DEF t
<1>4. QED
  BY <1>2, <1>3

-----------------------------------------------------------------------------
(* Limit orders. *)

LEMMA FillPriceIn ==
    ASSUME NEW bar, MarketBar(bar), NEW o \in OrderSet, NEW openOnly, Reached(o, bar, openOnly)
    PROVE  /\ FillPrice(o, bar) \in Nat
           /\ bar.low <= FillPrice(o, bar) /\ FillPrice(o, bar) <= bar.high
<1>1. /\ bar.open \in Nat /\ bar.high \in Nat /\ bar.low \in Nat /\ 0 < bar.low
      /\ bar.low <= bar.open /\ bar.open <= bar.high
  BY BarFacts
<1>2. o.limit \in Int /\ o.q \in Int /\ Execution.slippage \in 0..99
  BY PolicyFacts DEF OrderSet
<1>3. CASE o.q > 0
  <2> DEFINE x == Least(bar.open, o.limit)
             y == (x * (100 + Execution.slippage)) \div 100
  <2>1. bar.low <= o.limit
    BY <1>1, <1>2, <1>3 DEF Reached
  <2>2. x \in Nat /\ bar.low <= x
    BY <1>1, <1>2, <2>1 DEF Least
  <2> HIDE DEF x
  <2>3. y \in Int /\ x <= y
    <3>1. x * Execution.slippage \in Nat
      BY <1>2, <2>2
    <3>2. x * (100 + Execution.slippage) = x * 100 + x * Execution.slippage
      BY <1>2, <2>2
    <3> DEFINE z == x * Execution.slippage
    <3>3. y = (x * 100 + z) \div 100
      BY <3>2
    <3> HIDE DEF z
    <3>4. z \in Nat
      BY <3>1 DEF z
    <3> HIDE DEF y
    <3>5. QED
      BY <2>2, <3>3, <3>4
  <2>4. FillPrice(o, bar) = Least(Least(o.limit, bar.high), y)
    BY <1>3 DEF FillPrice, x
  <2> HIDE DEF y
  <2>5. QED
    BY <1>1, <1>2, <2>1, <2>2, <2>3, <2>4 DEF Least
<1>4. CASE ~ (o.q > 0)
  <2> DEFINE x == Most(bar.open, o.limit)
             y == (x * (100 - Execution.slippage)) \div 100
  <2>1. o.limit <= bar.high
    BY <1>1, <1>2, <1>4 DEF Reached
  <2>2. x \in Nat /\ x <= bar.high
    BY <1>1, <1>2, <2>1 DEF Most
  <2> HIDE DEF x
  <2>3. y \in Int /\ y <= x
    <3>1. x * Execution.slippage \in Nat
      BY <1>2, <2>2
    <3>2. x * (100 - Execution.slippage) = x * 100 - x * Execution.slippage
      BY <1>2, <2>2
    <3> DEFINE z == x * Execution.slippage
    <3>3. y = (x * 100 - z) \div 100
      BY <3>2
    <3> HIDE DEF z
    <3>4. z \in Nat
      BY <3>1 DEF z
    <3> HIDE DEF y
    <3>5. QED
      BY <2>2, <3>3, <3>4
  <2>4. FillPrice(o, bar) = Most(Most(o.limit, bar.low), y)
    BY <1>4 DEF FillPrice, x
  <2> HIDE DEF y
  <2>5. QED
    BY <1>1, <1>2, <2>1, <2>2, <2>3, <2>4 DEF Most
<1>5. QED
  BY <1>3, <1>4

\* What is affordable is paid from the purchasing power, its commission included.
LEMMA AffordableFits ==
    ASSUME NEW st \in States, 0 <= st.power, NEW price \in Nat, price > 0
    PROVE  /\ Affordable(st, price) \in Nat
           /\ \A q \in Nat : q <= Affordable(st, price) =>
                q * price + Commission(q * price) <= st.power
<1> DEFINE m == Most(0, Least(st.cash, st.power))
           c == Execution.commission
           unit == price * (100 + c)
<1>1. m \in Nat /\ m <= st.power /\ st.power \in Int
  BY StateFacts DEF Least, Most
<1>2. c \in Nat
  BY PolicyFacts
<1> HIDE DEF m, c
<1>3. unit \in Nat /\ unit > 0
  <2>1. price * c \in Nat
    BY <1>2
  <2>2. unit = 100 * price + price * c
    BY <1>2
  <2>3. QED
    BY <2>1, <2>2
<1>4. Affordable(st, price) = (m * 100) \div unit
  BY DEF Affordable, m, c
<1> HIDE DEF unit
<1>5. m * 100 \in Nat
  BY <1>1
<1>6. (m * 100) \div unit \in Nat /\ ((m * 100) \div unit) * unit <= m * 100
  BY <1>3, <1>5, QuotientFits
<1>7. ASSUME NEW q \in Nat, q <= Affordable(st, price)
      PROVE  q * price + Commission(q * price) <= st.power
  <2>1. q * unit <= m * 100
    <3>1. q * unit <= ((m * 100) \div unit) * unit
      BY <1>3, <1>4, <1>6, <1>7, ProductGrows
    <3>2. q * unit \in Nat /\ ((m * 100) \div unit) * unit \in Int
      BY <1>3, <1>6
    <3>3. QED
      BY <1>5, <1>6, <3>1, <3>2
  <2> DEFINE n == q * price
  <2>2. n \in Nat
    OBVIOUS
  <2>3. n * c \in Nat
    BY <1>2, <2>2
  <2>4. q * unit = 100 * n + n * c
    <3>1. q * unit = q * (price * (100 + c))
      BY DEF unit
    <3>2. q * (price * (100 + c)) = n * (100 + c)
      BY <1>2
    <3> HIDE DEF n
    <3>3. n * (100 + c) = 100 * n + n * c
      BY <1>2, <2>2
    <3>4. QED
      BY <3>1, <3>2, <3>3
  <2> HIDE DEF n
  <2>5. Commission(n) = (n * c) \div 100
    <3>1. Abs(n) = n
      BY <2>2 DEF Abs
    <3>2. QED
      BY <2>2, <3>1, CommissionType DEF c
  <2> DEFINE z == n * c
  <2>6. z \in Nat /\ 100 * n + z <= m * 100 /\ Commission(n) = z \div 100
    BY <2>1, <2>3, <2>4, <2>5
  <2> HIDE DEF z
  <2>7. n + Commission(n) <= m
    BY <1>1, <2>2, <2>6
  <2>8. Commission(n) \in Nat
    BY <2>2, CommissionType
  <2>9. n + Commission(n) <= st.power
    BY <1>1, <2>2, <2>7, <2>8
  <2>10. QED
    BY <2>9 DEF n
<1>8. QED
  BY <1>4, <1>6, <1>7

LEMMA MovedFacts ==
    ASSUME NEW p \in PositionSet, NEW q \in Int, NEW price \in Int
    PROVE  Moved(p, q, price) \in PositionSet /\ Moved(p, q, price).q = p.q + q
<1>1. p.q \in Int /\ p.entry \in Int
  BY DEF PositionSet
<1>2. CASE p.q + q = 0
  BY <1>2 DEF Moved, NoPosition, PositionSet
<1>3. CASE p.q + q # 0
  <2>1. Basis(p, q, price) \in Int
    <3>1. Abs(p.q + q) \in Nat /\ Abs(p.q + q) > 0
      BY <1>1, <1>3 DEF Abs
    <3>2. Abs(p.q) * p.entry + Abs(q) * price \in Int
      <4>1. Abs(p.q) \in Nat /\ Abs(q) \in Nat
        BY <1>1, AbsType
      <4>2. Abs(p.q) * p.entry \in Int /\ Abs(q) * price \in Int
        BY <1>1, <4>1
      <4>3. QED
        BY <4>2
    <3>3. (Abs(p.q) * p.entry + Abs(q) * price) \div Abs(p.q + q) \in Int
      BY <3>1, <3>2
    <3>4. QED
      BY <1>1, <3>3 DEF Basis
  <2>2. Moved(p, q, price) = [q |-> p.q + q, entry |-> Basis(p, q, price), exit |-> None]
    BY <1>3 DEF Moved
  <2>3. p.q + q \in Int
    BY <1>1
  <2>4. QED
    BY <2>1, <2>2, <2>3 DEF PositionSet
<1>4. QED
  BY <1>2, <1>3

LEMMA BookedKeeps ==
    ASSUME NEW day, NEW c0 \in Int, NEW p0, NEW b0, \A a \in Assets : p0[a] \in Int,
           NEW st \in Good(day, c0, p0, b0), NEW a \in Assets,
           day.bars[a] # None, MarketBar(day.bars[a]),
           NEW price \in Nat, day.bars[a].low <= price, price <= day.bars[a].high,
           NEW q \in Int, Abs(q) <= Capacity(st, day.bars[a], a) \div price,
           q > 0 => q <= Affordable(st, price)
    PROVE  /\ Booked(st, Fill(a, q, price, "rebalance")) \in Good(day, c0, p0, b0)
           /\ Booked(st, Fill(a, q, price, "rebalance")).orders = st.orders
<1> DEFINE f == Fill(a, q, price, "rebalance")
           old == st.pos[a]
           r == Moved(old, q, price)
           s1 == Paid(st, f)
           left == Most(0, st.power - Most(q * price, 0) - f.commission)
           s2 == [s1 EXCEPT !.power = left, !.pos = [s1.pos EXCEPT ![a] = r]]
<1>1. st \in States /\ price > 0 /\ q * price \in Int
  <2>1. price > 0
    BY BarFacts
  <2>2. QED
    BY <2>1 DEF Good
<1>2. old \in PositionSet /\ st.pos \in [Assets -> PositionSet] /\ old.q \in Int
  BY <1>1, StateFacts
<1>3. 0 <= st.power /\ st.power \in Int
  BY <1>1, StateFacts DEF Good
<1>4. /\ f \in FillSet /\ f.asset = a /\ f.q = q /\ f.price = price /\ f.reason = "rebalance"
      /\ f.commission = Commission(q * price) /\ f.commission \in Nat
  <2>1. "rebalance" \in Reasons
    BY DEF Reasons
  <2>2. Commission(q * price) \in Nat
    BY ONLY <1>1, CommissionType
  <2>3. QED
    BY <2>1, <2>2, FillFacts
<1> HIDE DEF f
<1>5. /\ s1 \in States /\ s1.cash = st.cash - f.q * f.price - f.commission
      /\ s1.fills = Append(st.fills, f)
      /\ s1.used = [st.used EXCEPT ![f.asset] = @ + Abs(f.q * f.price)]
      /\ s1.pos = st.pos /\ s1.power = st.power /\ s1.orders = st.orders
      /\ s1.borrow = st.borrow
  BY <1>1, <1>4, PaidFacts
<1>6. r \in PositionSet /\ r.q = old.q + q
  BY <1>2, MovedFacts
<1> HIDE DEF s1
<1>7. Booked(st, f) = s2
  <2>1. s1.pos[a] = old
    BY <1>5
  <2>2. Booked(st, f) = [s1 EXCEPT !.power = left, !.pos[a] = Moved(@, q, price)]
    BY <1>4, <1>5 DEF Booked, s1
  <2> HIDE DEF left
  <2>3. QED
    BY <1>5, <2>1, <2>2 DEF States
<1> HIDE DEF r
<1>8. left \in Int /\ 0 <= left
      /\ left + (IF Buys(f) THEN f.q * f.price + f.commission ELSE 0) <= st.power
  <2> DEFINE n == q * price
             c == f.commission
  <2>1. n \in Int /\ c \in Nat
    BY <1>1, <1>4
  <2>2. CASE q > 0
    <3>1. n + c <= st.power
      <4>1. q \in Nat /\ q <= Affordable(st, price)
        BY <2>2
      <4>2. QED
        BY <1>1, <1>3, <1>4, <4>1, AffordableFits
    <3>2. n >= 0
      BY <2>2
    <3>3. left = Most(0, st.power - Most(n, 0) - c)
      OBVIOUS
    <3>4. (IF Buys(f) THEN f.q * f.price + f.commission ELSE 0) = n + c
      BY <1>4, <2>2 DEF Buys
    <3> HIDE DEF n, c, left
    <3>5. QED
      BY <1>3, <2>1, <3>1, <3>2, <3>3, <3>4 DEF Most
  <2>3. CASE ~ (q > 0)
    <3>1. ~ Buys(f)
      BY <1>4, <2>3 DEF Buys
    <3>2. left = Most(0, st.power - Most(n, 0) - c)
      OBVIOUS
    <3> HIDE DEF n, c, left
    <3>3. QED
      BY <1>3, <2>1, <3>1, <3>2 DEF Most
  <2>4. QED
    BY <2>2, <2>3
<1> HIDE DEF left
<1>9. s2 \in States
  BY <1>2, <1>5, <1>6, <1>8 DEF States
<1>10. /\ s2.cash = s1.cash /\ s2.fills = s1.fills /\ s2.used = s1.used /\ s2.power = left
       /\ s2.pos = [s1.pos EXCEPT ![a] = r] /\ s2.orders = s1.orders
       /\ s2.borrow = s1.borrow
  BY <1>5 DEF States
<1> HIDE DEF s2
<1>11. \A b \in Assets : s2.pos[b].q = st.pos[b].q + (IF f.asset = b THEN f.q ELSE 0)
  <2>1. ASSUME NEW b \in Assets
        PROVE  s2.pos[b].q = st.pos[b].q + (IF f.asset = b THEN f.q ELSE 0)
    <3>1. st.pos[b].q \in Int
      BY <1>1, StateFacts
    <3>2. CASE b = a
      BY <1>2, <1>4, <1>5, <1>6, <1>10, <3>2
    <3>3. CASE b # a
      BY <1>2, <1>4, <1>5, <1>10, <3>1, <3>3
    <3>4. QED
      BY <3>2, <3>3
  <2>2. QED
    BY <2>1
<1>12. Abs(f.q * f.price) <= Volume(day, f.asset) - st.used[f.asset]
  <2>1. Capacity(st, day.bars[a], a) \in Nat
        /\ Capacity(st, day.bars[a], a) = Volume(day, a) - st.used[a]
    BY CapacityFacts
  <2>2. Abs(q * price) <= Capacity(st, day.bars[a], a)
    BY <1>1, <2>1, LotFits
  <2>3. QED
    BY <1>4, <2>1, <2>2
<1>13. Executable(f, day)
  BY <1>4 DEF Executable
<1>14. Volume(day, f.asset) \in Int
  BY <1>4, CapacityFacts
<1>15. /\ s2.cash = st.cash - f.q * f.price - f.commission /\ s2.borrow = st.borrow
       /\ s2.fills = Append(st.fills, f)
       /\ s2.used = [st.used EXCEPT ![f.asset] = @ + Abs(f.q * f.price)]
       /\ 0 <= s2.power
       /\ s2.power + (IF Buys(f) THEN f.q * f.price + f.commission ELSE 0) <= st.power
  BY <1>5, <1>8, <1>10
<1>16. s2 \in Good(day, c0, p0, b0)
  BY <1>4, <1>9, <1>11, <1>12, <1>13, <1>14, <1>15, FillKeeps
<1>17. QED
  BY <1>5, <1>7, <1>10, <1>16 DEF f

LEMMA KeptKeeps ==
    ASSUME NEW day, NEW c0 \in Int, NEW p0, NEW b0, NEW st \in Good(day, c0, p0, b0),
           NEW orders \in [Assets -> OrderSet \cup {None}]
    PROVE  [st EXCEPT !.orders = orders] \in Good(day, c0, p0, b0)
<1> DEFINE s2 == [st EXCEPT !.orders = orders]
<1>1. st \in States /\ 0 <= st.power
  BY DEF Good
<1>2. s2 \in States
  BY <1>1 DEF States
<1>3. /\ s2.cash = st.cash /\ s2.fills = st.fills /\ s2.used = st.used
      /\ s2.pos = st.pos /\ s2.power = st.power /\ s2.borrow = st.borrow
  BY <1>1 DEF States
<1>4. st.power \in Int
  BY <1>1, StateFacts
<1> HIDE DEF s2
<1>5. s2 \in Good(day, c0, p0, b0)
  BY <1>1, <1>2, <1>3, <1>4, IdleKeeps
<1>6. QED
  BY <1>5 DEF s2

LEMMA KeptOne ==
    ASSUME NEW day, NEW c0 \in Int, NEW p0, NEW b0, NEW st \in Good(day, c0, p0, b0),
           NEW a \in Assets, NEW o \in OrderSet
    PROVE  Kept(st, a, o) \in Good(day, c0, p0, b0)
<1>1. st \in States
  BY DEF Good
<1>2. st.orders \in [Assets -> OrderSet \cup {None}]
  BY <1>1, StateFacts
<1> DEFINE orders == [st.orders EXCEPT ![a] = o]
<1>3. orders \in [Assets -> OrderSet \cup {None}]
  BY <1>2
<1>4. Kept(st, a, o) = [st EXCEPT !.orders = orders]
  BY <1>1 DEF Kept, States
<1> HIDE DEF orders
<1>5. QED
  BY <1>3, <1>4, KeptKeeps

\* What an order trades fits into the day's capacity and the purchasing power.
LEMMA QuantityFits ==
    ASSUME NEW st \in States, 0 <= st.power, NEW p \in PositionSet, NEW m \in Nat,
           NEW n \in Int, NEW price \in Nat, price > 0, NEW noBorrow
    PROVE  LET w == Most(-m, Least(m, n))
               q == Quantity(st, p, w, price, noBorrow)
           IN w \in Int /\ q \in Int /\ Abs(q) <= m /\ (q > 0 => q <= Affordable(st, price))
<1> DEFINE w == Most(-m, Least(m, n))
           q == Quantity(st, p, w, price, noBorrow)
<1>1. w \in Int /\ Abs(w) <= m /\ w <= m /\ -m <= w
  BY DEF Most, Least, Abs
<1> HIDE DEF w
<1>2. p.q \in Int /\ Affordable(st, price) \in Nat
  BY AffordableFits DEF PositionSet
<1>3. CASE noBorrow
  <2>1. q = -Least(Most(p.q, 0), Abs(w))
    BY <1>3 DEF Quantity
  <2> HIDE DEF q
  <2>2. Abs(w) \in Nat
    BY <1>1, AbsType
  <2>3. Least(Most(p.q, 0), Abs(w)) \in Nat /\ Least(Most(p.q, 0), Abs(w)) <= Abs(w)
    BY <1>2, <2>2 DEF Least, Most
  <2>4. q \in Int /\ Abs(q) <= m /\ ~ (q > 0)
    BY <1>1, <2>1, <2>2, <2>3 DEF Abs
  <2>5. QED
    BY <1>1, <2>4 DEF q, w
<1>4. CASE ~ noBorrow
  <2>1. q = IF w > 0 THEN Least(w, Affordable(st, price)) ELSE w
    BY <1>4 DEF Quantity
  <2> HIDE DEF q
  <2>2. q \in Int /\ Abs(q) <= m /\ (q > 0 => q <= Affordable(st, price))
    BY <1>1, <1>2, <2>1 DEF Least, Abs
  <2>3. QED
    BY <1>1, <2>2 DEF q, w
<1>5. QED
  BY <1>3, <1>4

LEMMA OrderKeeps ==
    ASSUME NEW day, GoodDay(day), NEW c0 \in Int, NEW p0, NEW b0, \A a \in Assets : p0[a] \in Int,
           NEW st \in Good(day, c0, p0, b0), NEW a \in Assets, NEW o \in OrderSet, NEW openOnly
    PROVE  FillOrder(st, a, o, day, openOnly) \in Good(day, c0, p0, b0)
<1> DEFINE bar == day.bars[a]
           price == FillPrice(o, bar)
           m == Capacity(st, bar, a) \div price
           w == Within(st, a, o, bar, price)
           p == st.pos[a]
           noBorrow == NoBorrow(p, w, bar)
           q == Quantity(st, p, w, price, noBorrow)
           filled == Booked(st, Fill(a, q, price, "rebalance"))
<1>1. st \in States /\ 0 <= st.power /\ p \in PositionSet /\ o.q \in Int
  <2>1. st \in States /\ 0 <= st.power
    BY DEF Good
  <2>2. QED
    BY <2>1, StateFacts DEF OrderSet
<1>2. Kept(st, a, o) \in Good(day, c0, p0, b0)
  BY KeptOne
<1>3. CASE day.index > o.expires
  BY <1>3 DEF FillOrder
<1>4. CASE ~ (day.index > o.expires) /\ bar = None
  BY <1>2, <1>4 DEF FillOrder
<1>5. CASE ~ (day.index > o.expires) /\ bar # None /\ ~ Reached(o, bar, openOnly)
  BY <1>2, <1>5 DEF FillOrder
<1>6. CASE ~ (day.index > o.expires) /\ bar # None /\ Reached(o, bar, openOnly)
  <2>1. FillOrder(st, a, o, day, openOnly) = Executed(st, a, o, q, price, noBorrow)
    BY <1>6 DEF FillOrder, Attempted
  <2>2. MarketBar(bar)
    BY <1>6 DEF GoodDay
  <2>3. price \in Nat /\ bar.low <= price /\ price <= bar.high /\ price > 0
    <3>1. price \in Nat /\ bar.low <= price /\ price <= bar.high
      BY <1>6, <2>2, FillPriceIn
    <3> HIDE DEF price
    <3>2. QED
      BY <2>2, <3>1, BarFacts
  <2> HIDE DEF price
  <2>4. m \in Nat
    <3>1. Capacity(st, bar, a) \in Nat
      BY <1>6, <2>2, CapacityFacts
    <3>2. QED
      BY <2>3, <3>1, QuotientFits
  <2>5. w = Most(-m, Least(m, o.q))
    BY DEF Within
  <2> HIDE DEF m, noBorrow, w, p
  <2>6. q \in Int /\ Abs(q) <= m /\ (q > 0 => q <= Affordable(st, price))
    BY <1>1, <2>3, <2>4, <2>5, QuantityFits
  <2> HIDE DEF q
  <2>7. filled \in Good(day, c0, p0, b0)
    BY <1>6, <2>2, <2>3, <2>6, BookedKeeps DEF m
  <2>8. CASE q = 0
    BY <1>2, <2>1, <2>8 DEF Executed
  <2>9. CASE q # 0
    <3>1. CASE o.q = q \/ noBorrow
      BY <2>1, <2>7, <2>9, <3>1 DEF Executed
    <3>2. CASE ~ (o.q = q \/ noBorrow)
      <4>1. [o EXCEPT !.q = @ - q] \in OrderSet
        BY <1>1, <2>6 DEF OrderSet
      <4>2. Executed(st, a, o, q, price, noBorrow) = Kept(filled, a, [o EXCEPT !.q = @ - q])
        BY <2>9, <3>2 DEF Executed
      <4> HIDE DEF filled
      <4>3. QED
        BY <2>1, <2>7, <4>1, <4>2, KeptOne
    <3>3. QED
      BY <3>1, <3>2
  <2>10. QED
    BY <2>8, <2>9
<1>7. QED
  BY <1>3, <1>4, <1>5, <1>6

-----------------------------------------------------------------------------
(* The passes of a day. *)

LEMMA ExitsKeep ==
    ASSUME NEW day, GoodDay(day), NEW c0 \in Int, NEW p0, NEW b0, \A a \in Assets : p0[a] \in Int,
           NEW st \in Good(day, c0, p0, b0), NEW phase, NEW entries
    PROVE  Exits(st, day, phase, entries) \in Good(day, c0, p0, b0)
<1> DEFINE S == {a \in Held(st.pos) : phase = "entry" => entries[a] # None}
           G == Good(day, c0, p0, b0)
<1>1. S \subseteq Assets
  BY DEF Held
<1>2. IsFiniteSet(S) /\ S \subseteq Nat
  BY <1>1, EngineAssumption, FS_Subset
<1>3. Exits(st, day, phase, entries) = Exiting!Fold(day, phase, entries, st, S)
  BY DEF Exits, InTurn, Exiting!Fold, ExitOp, Max, Exiting!Max, MapThenFoldSet,
         Exiting!MapThenFoldSet
<1>4. ASSUME NEW s \in G, NEW a \in S PROVE ExitOp(day, phase, entries, s, a) \in G
  <2>1. a \in Assets /\ st.pos[a].q # 0
    BY DEF Held
  <2>2. day.bars[a] # None
    BY <2>1 DEF Good
  <2>3. MarketBar(day.bars[a])
    BY <2>1, <2>2 DEF GoodDay
  <2>4. QED
    BY <2>1, <2>2, <2>3, ExitKeeps DEF ExitOp
<1> HIDE DEF S, G
<1>5. st \in G
  BY DEF G
<1>6. Exiting!Fold(day, phase, entries, st, S) \in G
  BY <1>2, <1>4, <1>5, Exiting!FoldGood DEF IsFiniteSet, Exiting!IsFiniteSet
<1>7. QED
  BY <1>3, <1>6 DEF G

LEMMA OrdersKeep ==
    ASSUME NEW day, GoodDay(day), NEW c0 \in Int, NEW p0, NEW b0, \A a \in Assets : p0[a] \in Int,
           NEW st \in Good(day, c0, p0, b0), NEW openOnly
    PROVE  FillOrders(st, day, openOnly) \in Good(day, c0, p0, b0)
<1> DEFINE S == {a \in Assets : st.orders[a] # None}
           G == Good(day, c0, p0, b0)
           begin == [st EXCEPT !.orders = NoOrders]
           after == Fold(st.orders, day, openOnly, begin, S)
           left == Unexpired(after.orders, day)
<1>1. IsFiniteSet(S) /\ S \subseteq Nat /\ st \in States
  BY EngineAssumption, FS_Subset DEF Good
<1>2. FillOrders(st, day, openOnly) = IF openOnly THEN after ELSE [after EXCEPT !.orders = left]
  BY DEF FillOrders, InTurn, Fold, OrderOp
<1>3. st.orders \in [Assets -> OrderSet \cup {None}]
  BY <1>1, StateFacts
<1>4. ASSUME NEW s \in G, NEW a \in S PROVE OrderOp(st.orders, day, openOnly, s, a) \in G
  <2>1. a \in Assets /\ st.orders[a] \in OrderSet
    BY <1>3
  <2>2. QED
    BY <2>1, OrderKeeps DEF OrderOp
<1>5. begin \in G
  <2>1. NoOrders \in [Assets -> OrderSet \cup {None}]
    BY DEF NoOrders
  <2>2. QED
    BY <2>1, KeptKeeps
<1> HIDE DEF S, G, begin
<1>6. after \in G
  BY <1>1, <1>4, <1>5, FoldGood
<1> HIDE DEF after
<1>7. [after EXCEPT !.orders = left] \in G
  <2>1. after \in Good(day, c0, p0, b0) /\ after \in States
    BY <1>6 DEF Good, G
  <2>2. after.orders \in [Assets -> OrderSet \cup {None}]
    BY <2>1, StateFacts
  <2>3. left \in [Assets -> OrderSet \cup {None}]
    BY <2>2 DEF Unexpired
  <2> HIDE DEF left
  <2>4. QED
    BY <2>1, <2>3, KeptKeeps DEF G
<1>8. QED
  BY <1>2, <1>6, <1>7 DEF G

LEMMA UnblockedKeeps ==
    ASSUME NEW day, NEW c0 \in Int, NEW p0, NEW b0, NEW st \in Good(day, c0, p0, b0)
    PROVE  Unblocked(st) \in Good(day, c0, p0, b0)
<1> DEFINE orders == [a \in Assets |-> IF a \in Blocked(st) THEN None ELSE st.orders[a]]
<1>1. st \in States
  BY DEF Good
<1>2. st.orders \in [Assets -> OrderSet \cup {None}]
  BY <1>1, StateFacts
<1>3. orders \in [Assets -> OrderSet \cup {None}]
  BY <1>2
<1>4. Unblocked(st) = [st EXCEPT !.orders = orders]
  BY DEF Unblocked
<1> HIDE DEF orders
<1>5. QED
  BY <1>3, <1>4, KeptKeeps

LEMMA PowerKeeps ==
    ASSUME NEW day, NEW c0 \in Int, NEW p0, NEW b0, NEW st \in Good(day, c0, p0, b0)
    PROVE  Power(st) \in Good(day, c0, p0, b0)
<1> DEFINE power == Least(st.power, Most(0, st.cash))
           s2 == [st EXCEPT !.power = power]
<1>1. st \in States /\ 0 <= st.power
  BY DEF Good
<1>2. power \in Int /\ 0 <= power /\ power <= st.power
  BY <1>1, StateFacts DEF Least, Most
<1>3. Power(st) = s2
  BY DEF Power
<1> HIDE DEF power
<1>4. s2 \in States
  BY <1>1, <1>2 DEF States
<1>5. /\ s2.cash = st.cash /\ s2.fills = st.fills /\ s2.used = st.used
      /\ s2.pos = st.pos /\ s2.power = power /\ s2.borrow = st.borrow
  BY <1>1 DEF States
<1> HIDE DEF s2
<1>6. QED
  BY <1>2, <1>3, <1>4, <1>5, IdleKeeps

\* All of a day's trading keeps the day good.
LEMMA TradingKeeps ==
    ASSUME NEW day, GoodDay(day), NEW c0 \in Int, NEW p0, NEW b0, \A a \in Assets : p0[a] \in Int,
           NEW st \in Good(day, c0, p0, b0)
    PROVE  /\ Intraday(st, day) \in Good(day, c0, p0, b0)
           /\ Trading(st, day) \in Good(day, c0, p0, b0)
<1>1. \A openOnly : FillOrders(st, day, openOnly) \in Good(day, c0, p0, b0)
  BY OrdersKeep
<1>2. Exits(FillOrders(st, day, TRUE), day, "day", NoEntries) \in Good(day, c0, p0, b0)
  BY <1>1, ExitsKeep
<1>3. Intraday(st, day) \in Good(day, c0, p0, b0)
  BY <1>2, UnblockedKeeps, PowerKeeps DEF Intraday
<1>4. \A e : Exits(FillOrders(st, day, FALSE), day, "entry", e) \in Good(day, c0, p0, b0)
  BY <1>1, ExitsKeep
<1>5. Trading(st, day) \in Good(day, c0, p0, b0)
  BY <1>4, UnblockedKeeps DEF Trading, ExitEntries
<1>6. QED
  BY <1>3, <1>5

\* An opening is a good day of no fills but those of its exits.
LEMMA OpeningGood ==
    ASSUME NEW day, GoodDay(day), NEW st \in States, NEW charge \in Int,
           \A a \in Assets : st.pos[a].q # 0 => day.bars[a] # None
    PROVE  Opening(st, day, charge)
             \in Good(day, st.cash - charge, [a \in Assets |-> st.pos[a].q], st.borrow + charge)
<1> DEFINE c0 == st.cash - charge
           p0 == [a \in Assets |-> st.pos[a].q]
           b0 == st.borrow + charge
           u == [a \in Assets |-> 0]
           w == Most(0, c0)
           begin == [st EXCEPT !.cash = c0, !.borrow = b0, !.fills = <<>>, !.used = u, !.power = w]
<1>1. c0 \in Int /\ b0 \in Int /\ u \in [Assets -> Int] /\ w \in Int /\ 0 <= w
      /\ \A a \in Assets : p0[a] \in Int /\ p0[a] = st.pos[a].q
  BY StateFacts DEF Most
<1>2. Opening(st, day, charge) = Power(Unblocked(Exits(begin, day, "open", NoEntries)))
  <2>1. begin = [st EXCEPT !.cash = @ - charge, !.borrow = @ + charge, !.fills = <<>>,
                           !.used = [a \in Assets |-> 0], !.power = Most(0, st.cash - charge)]
    BY DEF States
  <2> HIDE DEF begin
  <2>2. QED
    BY <2>1 DEF Opening
<1> HIDE DEF c0, b0, u, w, p0
<1>3. begin \in States
  <2>1. <<>> \in Seq(FillSet)
    OBVIOUS
  <2>2. QED
    BY <1>1, <2>1 DEF States
<1>4. /\ begin.cash = c0 /\ begin.borrow = b0 /\ begin.fills = <<>> /\ begin.used = u
      /\ begin.power = w /\ begin.pos = st.pos
  BY DEF States
<1> HIDE DEF begin
<1>5. begin \in Good(day, c0, p0, b0)
  <2>1. begin.cash = c0 - Spent(begin.fills)
    BY <1>1, <1>4, NoFills
  <2>2. \A a \in Assets : begin.pos[a].q = p0[a] + Net(begin.fills, a)
    BY <1>1, <1>4, NoFills
  <2>3. \A a \in Assets : begin.pos[a].q # 0 => day.bars[a] # None
    BY <1>4
  <2>4. \A k \in DOMAIN begin.fills : Executable(begin.fills[k], day)
    BY <1>4
  <2>5. \A a \in Assets : begin.used[a] = Turnover(begin.fills, a)
    BY <1>4, NoFills DEF u
  <2>6. ASSUME NEW a \in Assets, day.bars[a] # None PROVE begin.used[a] <= Volume(day, a)
    <3>1. day.bars[a].volume \in Nat /\ Execution.participation \in Nat
      BY <2>6, BarFacts, PolicyFacts DEF GoodDay
    <3>2. day.bars[a].volume * Execution.participation \in Nat
      BY <3>1
    <3>3. Volume(day, a) >= 0
      BY <3>2 DEF Volume
    <3>4. Volume(day, a) \in Int
      BY <3>2 DEF Volume
    <3>5. begin.used[a] = 0
      BY <1>4 DEF u
    <3>6. QED
      BY <3>3, <3>4, <3>5
  <2>7. 0 <= begin.power /\ begin.power + Bought(begin.fills) <= Most(0, c0)
    BY <1>1, <1>4, NoFills DEF w
  <2>8. QED
    BY <1>3, <1>4, <2>1, <2>2, <2>3, <2>4, <2>5, <2>6, <2>7 DEF Good
<1>6. \A a \in Assets : p0[a] \in Int
  BY <1>1
<1>7. Exits(begin, day, "open", NoEntries) \in Good(day, c0, p0, b0)
  BY <1>1, <1>5, <1>6, ExitsKeep
<1>8. Opening(st, day, charge) \in Good(day, c0, p0, b0)
  BY <1>1, <1>2, <1>7, UnblockedKeeps, PowerKeeps
<1>9. QED
  BY <1>8 DEF c0, p0, b0

-----------------------------------------------------------------------------
(* The close. *)

LEMMA WorthType ==
    ASSUME NEW day, GoodDay(day), NEW q, \A a \in Assets : q[a] \in Int,
           \A a \in Assets : q[a] # 0 => day.bars[a] # None
    PROVE  Worth(q, day) \in Int
<1> DEFINE f == [a \in {b \in Assets : q[b] # 0} |-> q[a] * day.bars[a].close]
<1>1. IsFiniteSet(DOMAIN f)
  BY EngineAssumption, FS_Subset
<1>2. ASSUME NEW a \in DOMAIN f PROVE f[a] \in Int
  <2>1. a \in Assets /\ q[a] \in Int /\ day.bars[a] # None
    OBVIOUS
  <2>2. day.bars[a].close \in Int
    BY <2>1, BarFacts DEF GoodDay
  <2>3. QED
    BY <2>1, <2>2
<1>3. Worth(q, day) = Total(f)
  BY DEF Worth
<1> HIDE DEF f
<1>4. QED
  BY <1>1, <1>2, <1>3, TotalType

LEMMA LegsType ==
    ASSUME NEW side \in {"long_only", "short_only", "long_short"}, NEW rank,
           IsFiniteSet(DOMAIN rank)
    PROVE  Legs(side, rank) \in (SUBSET DOMAIN rank) \X (SUBSET DOMAIN rank)
<1> DEFINE n == Cardinality(DOMAIN rank)
<1>1. n \in Nat
  BY FS_CardinalityType
<1>2. \A x : Highest(rank, x) \subseteq DOMAIN rank /\ Lowest(rank, x) \subseteq DOMAIN rank
  BY DEF Highest, Lowest
<1>3. CASE n = 0
  <2>1. Legs(side, rank) = <<{}, {}>>
    BY <1>3 DEF Legs
  <2>2. QED
    BY <2>1
<1>4. CASE n # 0 /\ side = "long_only"
  <2>1. Legs(side, rank) = <<Highest(rank, Share(n, Execution.long_quantile)), {}>>
    BY <1>1, <1>4 DEF Legs
  <2>2. QED
    BY <1>2, <2>1
<1>5. CASE n # 0 /\ side = "short_only"
  <2>1. Legs(side, rank) = <<{}, Highest(rank, Share(n, Execution.short_quantile))>>
    BY <1>1, <1>5 DEF Legs
  <2>2. QED
    BY <1>2, <2>1
<1>6. CASE n = 1 /\ side = "long_short"
  <2>1. Legs(side, rank) = <<{}, {}>>
    BY <1>1, <1>6 DEF Legs
  <2>2. QED
    BY <2>1
<1>7. CASE n # 0 /\ n # 1 /\ side = "long_short"
  <2> DEFINE count == Least(Share(n, Execution.long_quantile), n - 1)
  <2>1. Legs(side, rank) =
          <<Highest(rank, count),
            Lowest(rank, Least(n - count, Share(n, Execution.short_quantile)))>>
    BY <1>1, <1>7 DEF Legs
  <2> HIDE DEF count
  <2>2. QED
    BY <1>2, <2>1
<1>8. QED
  BY <1>3, <1>4, <1>5, <1>6, <1>7

LEMMA TargetsType ==
    ASSUME NEW sigs, NEW s \in Strategies, NEW day, GoodDay(day), NEW nav \in Int
    PROVE  Targets(sigs, s, day, nav) \in [Assets -> Int]
<1> DEFINE rank == Ranking(sigs, s, day)
           legs == Legs(Sleeve[s].side, rank)
           parts == IF Sleeve[s].side = "long_short" THEN 200 ELSE 100
           Part(a, leg) == (Sleeve[s].weight * nav)
                             \div (parts * Cardinality(leg) * day.bars[a].close)
<1>1. DOMAIN rank \subseteq Traded(day) /\ IsFiniteSet(DOMAIN rank)
  <2>1. DOMAIN rank = {a \in Traded(day) : Eligible(sigs, s, a, day.date) # {}}
    BY DEF Ranking
  <2>2. Traded(day) \subseteq Assets
    BY DEF Traded
  <2>3. QED
    BY <2>1, <2>2, EngineAssumption, FS_Subset
<1>2. /\ Sleeve[s].side \in {"long_only", "short_only", "long_short"}
      /\ Sleeve[s].weight \in Nat
  BY EngineAssumption DEF StrategyDefinition
<1>3. legs \in (SUBSET DOMAIN rank) \X (SUBSET DOMAIN rank)
  <2> HIDE DEF rank
  <2>1. QED
    BY <1>1, <1>2, LegsType
<1> HIDE DEF legs, rank
<1>4. legs[1] \subseteq DOMAIN rank /\ legs[2] \subseteq DOMAIN rank
  BY ONLY <1>3
<1>5. ASSUME NEW leg, leg \subseteq DOMAIN rank, NEW a \in leg PROVE Part(a, leg) \in Int
  <2>1. Cardinality(leg) \in Nat /\ Cardinality(leg) # 0
    <3>1. IsFiniteSet(leg) /\ leg # {}
      BY <1>1, <1>5, FS_Subset
    <3>2. QED
      BY <3>1, FS_CardinalityType, FS_EmptySet
  <2>2. day.bars[a].close \in Nat /\ day.bars[a].close > 0
    <3>1. a \in Assets /\ day.bars[a] # None
      BY <1>1, <1>5 DEF Traded
    <3>2. MarketBar(day.bars[a])
      BY <3>1 DEF GoodDay
    <3>3. QED
      BY <3>2, BarFacts
  <2> DEFINE d == parts * Cardinality(leg) * day.bars[a].close
             n == Sleeve[s].weight * nav
  <2>3. d \in Nat /\ d > 0
    <3>1. parts * Cardinality(leg) \in Nat /\ parts * Cardinality(leg) > 0
      BY <2>1
    <3> DEFINE x == parts * Cardinality(leg)
               y == day.bars[a].close
    <3>2. x \in Nat /\ x > 0 /\ y \in Nat /\ y > 0
      BY <2>2, <3>1
    <3> HIDE DEF x, y
    <3>3. x * y \in Nat /\ x * y > 0
      BY <3>2
    <3>4. QED
      BY <3>3 DEF x, y
  <2>4. n \in Int
    BY <1>2
  <2>5. Part(a, leg) = n \div d
    OBVIOUS
  <2> HIDE DEF d, n, Part
  <2>6. QED
    BY <2>3, <2>4, <2>5
<1>6. Targets(sigs, s, day, nav)
        = [a \in Assets |-> IF a \in legs[1] THEN Part(a, legs[1])
                            ELSE IF a \in legs[2] THEN -Part(a, legs[2]) ELSE 0]
  BY DEF Targets, Allocation, legs, rank
<1> HIDE DEF Part
<1>7. \A a \in Assets : (IF a \in legs[1] THEN Part(a, legs[1])
                         ELSE IF a \in legs[2] THEN -Part(a, legs[2]) ELSE 0) \in Int
  <2>1. \A a \in legs[1] : Part(a, legs[1]) \in Int
    BY <1>4, <1>5
  <2>2. \A a \in legs[2] : Part(a, legs[2]) \in Int
    BY <1>4, <1>5
  <2>3. QED
    BY <2>1, <2>2
<1>8. QED
  BY <1>6, <1>7

LEMMA SleevesType ==
    ASSUME NEW st \in States, NEW sigs, NEW day, GoodDay(day), NEW nav \in Int
    PROVE  NewSleeves(st, sigs, day, nav) \in [Strategies -> [Assets -> Int]]
<1> DEFINE wanted(s) == IF s \in Due(day) THEN Targets(sigs, s, day, nav) ELSE st.sleeves[s]
<1>1. ASSUME NEW s \in Strategies PROVE wanted(s) \in [Assets -> Int]
  BY TargetsType, StateFacts
<1>2. NewSleeves(st, sigs, day, nav)
        = [s \in Strategies |-> [a \in Assets |-> IF a \in Blocked(st) THEN 0 ELSE wanted(s)[a]]]
  BY DEF NewSleeves
<1> HIDE DEF wanted
<1>3. QED
  BY <1>1, <1>2

LEMMA CappedType ==
    ASSUME NEW q \in Int, NEW day, GoodDay(day), NEW a \in Assets, NEW nav \in Int
    PROVE  Capped(q, day, a, nav) \in Int
<1>1. CASE a \notin Traded(day)
  BY <1>1 DEF Capped
<1>2. CASE a \in Traded(day)
  <2> DEFINE n == Execution.max_asset_weight * nav
             d == 100 * day.bars[a].close
  <2>1. n \in Int
    BY PolicyFacts
  <2>2. d \in Nat /\ d > 0
    <3>1. MarketBar(day.bars[a])
      BY <1>2 DEF GoodDay, Traded
    <3>2. QED
      BY <3>1, BarFacts
  <2>3. Capped(q, day, a, nav) = Most(-(n \div d), Least(n \div d, q))
    BY <1>2 DEF Capped
  <2> HIDE DEF n, d
  <2>4. n \div d \in Int
    BY <2>1, <2>2
  <2>5. QED
    BY <2>3, <2>4 DEF Most, Least
<1>3. QED
  BY <1>1, <1>2

LEMMA OrderType ==
    ASSUME NEW st \in States, NEW a \in Assets, NEW target \in Int, NEW day, GoodDay(day)
    PROVE  OrderFor(st, a, target, day) \in OrderSet \cup {None}
<1> DEFINE bar == day.bars[a]
           current == st.pos[a].q
           short == target < Least(current, 0) /\ ~bar.borrow
           q == IF short THEN -Most(current, 0) ELSE target - current
           sign == IF q > 0 THEN 1 ELSE -1
           n == bar.close * (100 - sign * Execution.limit_offset)
<1>1. \/ OrderFor(st, a, target, day) = None
      \/ /\ bar # None
         /\ OrderFor(st, a, target, day)
              = [q |-> q, expires |-> day.index + Execution.limit_valid_days, limit |-> n \div 100]
  BY DEF OrderFor
<1>2. current \in Int
  BY StateFacts
<1> HIDE DEF current, short
<1>3. q \in Int
  BY <1>2 DEF Most
<1>4. day.index + Execution.limit_valid_days \in Int
  BY PolicyFacts DEF GoodDay
<1> HIDE DEF q
<1>5. ASSUME bar # None PROVE n \div 100 \in Int
  <2>1. bar.close \in Int
    BY <1>5, BarFacts DEF GoodDay
  <2>2. sign * Execution.limit_offset \in Int
    BY PolicyFacts
  <2> HIDE DEF sign, bar
  <2>3. n \in Int
    BY <2>1, <2>2
  <2> HIDE DEF n
  <2>4. QED
    BY <2>3
<1> HIDE DEF n, bar
<1>6. QED
  BY <1>1, <1>3, <1>4, <1>5 DEF OrderSet

LEMMA OrdersType ==
    ASSUME NEW st \in States, NEW sleeves \in [Strategies -> [Assets -> Int]],
           NEW day, GoodDay(day), NEW nav \in Int
    PROVE  OrdersFor(st, sleeves, day, nav) \in [Assets -> OrderSet \cup {None}]
<1> DEFINE wanted(a) == Total([s \in Strategies |-> sleeves[s][a]])
<1>1. ASSUME NEW a \in Assets PROVE wanted(a) \in Int
  <2> DEFINE f == [s \in Strategies |-> sleeves[s][a]]
  <2>1. IsFiniteSet(DOMAIN f) /\ \A s \in DOMAIN f : f[s] \in Int
    BY EngineAssumption
  <2>2. wanted(a) = Total(f)
    OBVIOUS
  <2> HIDE DEF f, wanted
  <2>3. QED
    BY <2>1, <2>2, TotalType
<1>2. OrdersFor(st, sleeves, day, nav)
        = [a \in Assets |-> OrderFor(st, a, Capped(wanted(a), day, a, nav), day)]
  BY DEF OrdersFor
<1> HIDE DEF wanted
<1>3. ASSUME NEW a \in Assets
      PROVE  OrderFor(st, a, Capped(wanted(a), day, a, nav), day) \in OrderSet \cup {None}
  <2>1. Capped(wanted(a), day, a, nav) \in Int
    BY <1>1, CappedType
  <2>2. QED
    BY <2>1, OrderType
<1>4. QED
  BY <1>2, <1>3

\* The close changes sleeves, orders and marks, and no money.
LEMMA RebalancedFacts ==
    ASSUME NEW st \in States, NEW sleeves \in [Strategies -> [Assets -> Int]],
           NEW day, GoodDay(day), NEW nav \in Int
    PROVE  /\ Rebalanced(st, sleeves, day, nav) \in States
           /\ Rebalanced(st, sleeves, day, nav).nav = nav
           /\ Rebalanced(st, sleeves, day, nav).cash = st.cash
           /\ Rebalanced(st, sleeves, day, nav).pos = st.pos
           /\ Rebalanced(st, sleeves, day, nav).fills = st.fills
           /\ Rebalanced(st, sleeves, day, nav).borrow = st.borrow
<1> DEFINE o == IF Due(day) = {} THEN st.orders ELSE OrdersFor(st, sleeves, day, nav)
           c == [a \in Assets |-> IF a \in Traded(day) THEN day.bars[a].close ELSE st.close[a]]
<1>1. o \in [Assets -> OrderSet \cup {None}]
  BY OrdersType, StateFacts
<1>2. c \in [Assets -> Int]
  <2>1. ASSUME NEW a \in Traded(day) PROVE day.bars[a].close \in Int
    <3>1. MarketBar(day.bars[a])
      BY DEF GoodDay, Traded
    <3>2. QED
      BY <3>1, BarFacts
  <2>2. QED
    BY <2>1, StateFacts
<1>3. Rebalanced(st, sleeves, day, nav)
        = [st EXCEPT !.sleeves = sleeves, !.orders = o, !.nav = nav, !.close = c]
  BY DEF Rebalanced, States
<1> HIDE DEF o, c
<1>4. [st EXCEPT !.sleeves = sleeves, !.orders = o, !.nav = nav, !.close = c] \in States
  BY <1>1, <1>2 DEF States
<1>5. QED
  BY <1>3, <1>4 DEF States

-----------------------------------------------------------------------------
(* A day. *)

\* What a day with the borrowing charge leaves of the state before it.
DayDone(before, day, charge, st) ==
    /\ st \in States /\ st.borrow = before.borrow + charge
    /\ st.cash = before.cash - charge - Spent(st.fills)
    /\ \A a \in Assets : st.pos[a].q = before.pos[a].q + Net(st.fills, a)
    /\ \A a \in Assets : st.pos[a].q # 0 => day.bars[a] # None
    /\ st.nav = st.cash + Worth([a \in Assets |-> st.pos[a].q], day)
    /\ \A k \in DOMAIN st.fills : Executable(st.fills[k], day)
    /\ \A a \in Assets : day.bars[a] # None => Turnover(st.fills, a) <= Volume(day, a)
    /\ Bought(st.fills) <= Most(0, before.cash - charge)

LEMMA ChargeType ==
    ASSUME NEW st \in States, NEW day, GoodDay(day), NEW last \in Int \cup {None}
    PROVE  BorrowCharge(st, day, last) \in Int
<1> DEFINE f == [a \in {b \in Assets : st.pos[b].q < 0} |-> -st.pos[a].q * st.close[a]]
<1>1. IsFiniteSet(DOMAIN f)
  BY EngineAssumption, FS_Subset
<1>2. \A a \in DOMAIN f : f[a] \in Int
  BY StateFacts
<1>3. BorrowCharge(st, day, last) =
        IF last = None THEN 0
        ELSE (Total(f) * Execution.borrow_rate * (day.date - last)) \div 100
  BY DEF BorrowCharge
<1> HIDE DEF f
<1>4. Total(f) \in Int
  BY <1>1, <1>2, TotalType
<1>5. CASE last = None
  BY <1>3, <1>5
<1>6. CASE last # None
  <2> DEFINE x == Total(f) * Execution.borrow_rate
             y == day.date - last
  <2>1. x \in Int /\ y \in Int
    BY <1>4, <1>6, PolicyFacts DEF GoodDay
  <2>2. BorrowCharge(st, day, last) = (x * y) \div 100
    BY <1>3, <1>6
  <2> HIDE DEF x, y
  <2>3. x * y \in Int
    BY <2>1
  <2>4. QED
    BY <2>2, <2>3
<1>7. QED
  BY <1>5, <1>6

\* The state in which the close of a day is reached.
BeforeClose(before, day, charge) == Trading(Intraday(Opening(before, day, charge), day), day)

LEMMA AtClose ==
    ASSUME NEW before \in States, NEW day, GoodDay(day), NEW charge \in Int,
           \A a \in Assets : before.pos[a].q # 0 => day.bars[a] # None
    PROVE  /\ BeforeClose(before, day, charge) \in
                Good(day, before.cash - charge, [a \in Assets |-> before.pos[a].q],
                     before.borrow + charge)
           /\ BeforeClose(before, day, charge) \in States
           /\ Value(BeforeClose(before, day, charge), day) \in Int
<1> DEFINE st == BeforeClose(before, day, charge)
           c0 == before.cash - charge
           p0 == [a \in Assets |-> before.pos[a].q]
           b0 == before.borrow + charge
<1>1. c0 \in Int /\ \A a \in Assets : p0[a] \in Int
  BY StateFacts
<1>2. Opening(before, day, charge) \in Good(day, c0, p0, b0)
  BY OpeningGood
<1> HIDE DEF c0, p0, b0
<1>3. st \in Good(day, c0, p0, b0)
  <2>1. Intraday(Opening(before, day, charge), day) \in Good(day, c0, p0, b0)
    BY <1>1, <1>2, TradingKeeps
  <2>2. QED
    BY <1>1, <2>1, TradingKeeps DEF BeforeClose
<1> HIDE DEF st
<1>4. st \in States
  BY <1>3 DEF Good
<1>5. Value(st, day) \in Int
  <2> DEFINE q == [a \in Assets |-> st.pos[a].q]
  <2>1. \A a \in Assets : q[a] \in Int /\ (q[a] # 0 => day.bars[a] # None)
    BY <1>3, <1>4, StateFacts DEF Good
  <2>2. Value(st, day) = st.cash + Worth(q, day)
    BY DEF Value
  <2> HIDE DEF q
  <2>3. Worth(q, day) \in Int
    BY <2>1, WorthType
  <2>4. st.cash \in Int
    BY <1>4, StateFacts
  <2>5. QED
    BY <2>2, <2>3, <2>4
<1>6. QED
  BY <1>3, <1>4, <1>5 DEF st, c0, p0, b0

LEMMA DayKeeps ==
    ASSUME NEW before \in States, NEW sigs, NEW day, GoodDay(day),
           NEW last \in Int \cup {None}, Day(before, sigs, day, last) # None
    PROVE  DayDone(before, day, BorrowCharge(before, day, last), Day(before, sigs, day, last))
<1> DEFINE charge == BorrowCharge(before, day, last)
           st == BeforeClose(before, day, charge)
           c0 == before.cash - charge
           p0 == [a \in Assets |-> before.pos[a].q]
           b0 == before.borrow + charge
           nav == Value(st, day)
           end == Rebalanced(st, NewSleeves(st, sigs, day, nav), day, nav)
<1>1. \A a \in Assets : before.pos[a].q # 0 => day.bars[a] # None
  BY DEF Day, Held
<1>2. charge \in Int
  BY ChargeType
<1>3. Day(before, sigs, day, last) = Closing(st, sigs, day, nav)
  BY <1>1 DEF Day, Closed, Held, BeforeClose
<1> HIDE DEF charge
<1>4. c0 \in Int /\ \A a \in Assets : p0[a] \in Int /\ p0[a] = before.pos[a].q
  BY <1>2, StateFacts
<1>5. st \in Good(day, c0, p0, b0) /\ st \in States /\ nav \in Int
  BY <1>1, <1>2, AtClose
<1> HIDE DEF c0, p0, b0, st
<1>6. nav = st.cash + Worth([a \in Assets |-> st.pos[a].q], day)
  BY DEF Value
<1> HIDE DEF nav
<1>7. Day(before, sigs, day, last) = end
  BY <1>3 DEF Closing
<1>8. NewSleeves(st, sigs, day, nav) \in [Strategies -> [Assets -> Int]]
  BY <1>5, SleevesType
<1>9. /\ end \in States /\ end.nav = nav /\ end.cash = st.cash /\ end.pos = st.pos
       /\ end.fills = st.fills /\ end.borrow = st.borrow
  BY <1>5, <1>8, RebalancedFacts
<1> HIDE DEF end
<1>10. /\ st.cash = c0 - Spent(st.fills) /\ st.borrow = b0
       /\ \A a \in Assets : st.pos[a].q = p0[a] + Net(st.fills, a)
       /\ \A a \in Assets : st.pos[a].q # 0 => day.bars[a] # None
       /\ \A k \in DOMAIN st.fills : Executable(st.fills[k], day)
       /\ \A a \in Assets : st.used[a] = Turnover(st.fills, a)
       /\ \A a \in Assets : day.bars[a] # None => st.used[a] <= Volume(day, a)
       /\ 0 <= st.power /\ st.power + Bought(st.fills) <= Most(0, c0)
  BY <1>5 DEF Good
<1>11. Bought(st.fills) <= Most(0, c0)
  <2>1. st.power \in Int /\ st.fills \in Seq(FillSet) /\ Most(0, c0) \in Int
    BY <1>4, <1>5, StateFacts DEF Most
  <2>2. Bought(st.fills) \in Int
    BY <2>1, BoughtType
  <2>3. QED
    BY <1>10, <2>1, <2>2
<1>12. DayDone(before, day, charge, end)
  <2>1. end.borrow = before.borrow + charge /\ end.cash = before.cash - charge - Spent(end.fills)
    BY <1>9, <1>10 DEF b0, c0
  <2>2. \A a \in Assets : end.pos[a].q = before.pos[a].q + Net(end.fills, a)
    BY <1>4, <1>9, <1>10
  <2>3. end.nav = end.cash + Worth([a \in Assets |-> end.pos[a].q], day)
    BY <1>6, <1>9
  <2>4. Bought(end.fills) <= Most(0, before.cash - charge)
    BY <1>9, <1>11 DEF c0
  <2>5. /\ \A a \in Assets : end.pos[a].q # 0 => day.bars[a] # None
        /\ \A k \in DOMAIN end.fills : Executable(end.fills[k], day)
        /\ \A a \in Assets : day.bars[a] # None => Turnover(end.fills, a) <= Volume(day, a)
    BY <1>9, <1>10
  <2>6. QED
    BY <1>9, <2>1, <2>2, <2>3, <2>4, <2>5 DEF DayDone
<1>13. QED
  BY <1>7, <1>12 DEF charge

\* The fills of a day do not depend on the signals its close looks at.
LEMMA DayFills ==
    ASSUME NEW before \in States, NEW sigs1, NEW sigs2, NEW day, GoodDay(day),
           NEW last \in Int \cup {None}, Day(before, sigs1, day, last) # None
    PROVE  Day(before, sigs2, day, last).fills = Day(before, sigs1, day, last).fills
<1> DEFINE charge == BorrowCharge(before, day, last)
           st == BeforeClose(before, day, charge)
           nav == Value(st, day)
           end(sigs) == Rebalanced(st, NewSleeves(st, sigs, day, nav), day, nav)
<1>1. \A a \in Assets : before.pos[a].q # 0 => day.bars[a] # None
  BY DEF Day, Held
<1>2. charge \in Int
  BY ChargeType
<1>3. /\ Day(before, sigs1, day, last) = Closing(st, sigs1, day, nav)
      /\ Day(before, sigs2, day, last) = Closing(st, sigs2, day, nav)
  BY <1>1 DEF Day, Closed, Held, BeforeClose
<1> HIDE DEF charge
<1>4. st \in States /\ nav \in Int
  BY <1>1, <1>2, AtClose
<1> HIDE DEF st, nav
<1>5. Day(before, sigs1, day, last) = end(sigs1) /\ Day(before, sigs2, day, last) = end(sigs2)
  BY <1>3 DEF Closing
<1>6. ASSUME NEW sigs PROVE end(sigs).fills = st.fills
  <2>1. NewSleeves(st, sigs, day, nav) \in [Strategies -> [Assets -> Int]]
    BY <1>4, SleevesType
  <2>2. QED
    BY <1>4, <2>1, RebalancedFacts
<1>7. QED
  BY <1>5, <1>6

-----------------------------------------------------------------------------
(* Replays. *)

\* The least element of a non-empty set of naturals.
LEMMA LeastNatural ==
    ASSUME NEW S, S \subseteq Nat, S # {}
    PROVE  \E n \in S : \A m \in S : n <= m
<1>1. PICK n \in S : \A m \in S : ~ (<<m, n>> \in OpToRel(<, Nat))
  BY NatLessThanWellFounded, WFMin
<1>2. ASSUME NEW m \in S PROVE n <= m
  <2>1. <<m, n>> \in Nat \X Nat /\ ~(m < n)
    BY <1>1 DEF OpToRel
  <2> QED
    BY <2>1
<1> QED
  BY <1>2

\* g gives the state after each of the first n days, as Replay computes it.
IsReplay(g, n, hist, sigs) ==
    g = [k \in 0..n |-> IF k = 0 THEN Start ELSE Advance(g[k - 1], hist, sigs, k)]

After(hist, sigs) == CHOOSE g : IsReplay(g, Len(hist), hist, sigs)

LEMMA IsReplayExists ==
    ASSUME NEW hist, NEW sigs, NEW N \in Nat
    PROVE  \E g : IsReplay(g, N, hist, sigs)
<1> DEFINE F == {n \in Nat : ~ \E g : IsReplay(g, n, hist, sigs)}
<1>1. SUFFICES ASSUME F # {} PROVE FALSE
  OBVIOUS
<1>2. PICK n \in F : \A m \in F : n <= m
  <2>1. F \subseteq Nat
    OBVIOUS
  <2> HIDE DEF F
  <2>2. QED
    BY <1>1, <2>1, LeastNatural
<1>3. CASE n = 0
  <2> DEFINE g == [k \in 0..0 |-> Start]
  <2>1. IsReplay(g, 0, hist, sigs)
    BY DEF IsReplay
  <2>2. QED
    BY <1>2, <1>3, <2>1
<1>4. CASE n # 0
  <2>1. PICK m : m = n - 1
    OBVIOUS
  <2>2. m \in Nat /\ n = m + 1 /\ m \notin F
    BY <1>2, <1>4, <2>1
  <2>3. PICK g : IsReplay(g, m, hist, sigs)
    BY <2>2
  <2> DEFINE h == [k \in 0..n |-> IF k = n THEN Advance(g[m], hist, sigs, n) ELSE g[k]]
             w(k) == IF k = 0 THEN Start ELSE Advance(h[k - 1], hist, sigs, k)
  <2>4. ASSUME NEW k \in 0..n PROVE h[k] = w(k)
    <3>1. CASE k = n
      <4>1. h[k] = Advance(g[m], hist, sigs, n) /\ h[m] = g[m] /\ k # 0 /\ k - 1 = m
        BY <2>2, <3>1
      <4> HIDE DEF h
      <4>2. QED
        BY <3>1, <4>1
    <3>2. CASE k # n
      <4>1. k \in 0..m /\ h[k] = g[k]
        BY <2>2, <3>2
      <4>2. CASE k = 0
        <5>1. g[k] = Start
          BY <2>3, <4>1, <4>2 DEF IsReplay
        <5> HIDE DEF h
        <5>2. QED
          BY <4>1, <4>2, <5>1
      <4>3. CASE k # 0
        <5>1. k - 1 \in 0..n /\ k - 1 # n
          BY <4>1, <4>3, <2>2
        <5>2. h[k - 1] = g[k - 1]
          BY <5>1
        <5>3. g[k] = Advance(g[k - 1], hist, sigs, k)
          BY <2>3, <4>1, <4>3 DEF IsReplay
        <5> HIDE DEF h
        <5>4. QED
          BY <4>1, <4>3, <5>2, <5>3
      <4>4. QED
        BY <4>2, <4>3
    <3>3. QED
      BY <3>1, <3>2
  <2>5. h = [k \in 0..n |-> h[k]]
    OBVIOUS
  <2> HIDE DEF h
  <2>6. h = [k \in 0..n |-> w(k)]
    <3> HIDE DEF w
    <3>1. QED
      BY <2>4, <2>5
  <2>7. IsReplay(h, n, hist, sigs)
    BY <2>6 DEF IsReplay
  <2>8. QED
    BY <1>2, <2>7
<1>5. QED
  BY <1>3, <1>4

LEMMA ReplayStep ==
    ASSUME NEW hist, Len(hist) \in Nat, NEW sigs
    PROVE  /\ After(hist, sigs)[0] = Start
           /\ \A n \in 1..Len(hist) :
                After(hist, sigs)[n] = Advance(After(hist, sigs)[n - 1], hist, sigs, n)
           /\ Replay(hist, sigs) = [n \in DOMAIN hist |-> After(hist, sigs)[n]]
<1> DEFINE g == After(hist, sigs)
<1>1. IsReplay(g, Len(hist), hist, sigs)
  BY IsReplayExists DEF After
<1>2. Replay(hist, sigs) = [n \in DOMAIN hist |-> g[n]]
  BY DEF Replay, After, IsReplay
<1> HIDE DEF g
<1>3. g[0] = Start
  BY <1>1 DEF IsReplay
<1>4. ASSUME NEW n \in 1..Len(hist) PROVE g[n] = Advance(g[n - 1], hist, sigs, n)
  BY <1>1 DEF IsReplay
<1>5. QED
  BY <1>2, <1>3, <1>4 DEF g

Histories == Seq([date : Dates, bars : Batches])
DayOf(hist, n) == [date |-> hist[n].date, bars |-> hist[n].bars, index |-> n - 1]
DayBefore(hist, n) == IF n = 1 THEN None ELSE hist[n - 1].date

LEMMA AdvanceIs ==
    ASSUME NEW before, NEW hist, NEW sigs, NEW n
    PROVE  Advance(before, hist, sigs, n)
             = IF before = None THEN None
               ELSE Day(before, sigs, DayOf(hist, n), DayBefore(hist, n))
BY DEF Advance, DayOf, DayBefore

LEMMA HistoryFacts ==
    ASSUME NEW hist \in Histories
    PROVE  /\ Len(hist) \in Nat /\ DOMAIN hist = 1..Len(hist)
           /\ \A n \in 1..Len(hist) :
                /\ hist[n].date \in Dates /\ hist[n].date \in Int
                /\ GoodDay(DayOf(hist, n)) /\ DayBefore(hist, n) \in Int \cup {None}
                /\ DayOf(hist, n).date = hist[n].date /\ DayOf(hist, n).bars = hist[n].bars
<1>1. Len(hist) \in Nat /\ DOMAIN hist = 1..Len(hist)
  BY DEF Histories
<1>2. ASSUME NEW n \in 1..Len(hist)
      PROVE  hist[n].date \in Dates /\ hist[n].date \in Int /\ hist[n].bars \in Batches
  <2> DEFINE D == [date : Dates, bars : Batches]
  <2>1. hist \in Seq(D) /\ n \in 1..Len(hist)
    BY <1>2 DEF Histories
  <2>2. hist[n] \in D
    <3> HIDE DEF D
    <3>1. QED
      BY <2>1
  <2>3. QED
    BY <2>2, BookAssumption DEF Dates
<1>3. ASSUME NEW n \in 1..Len(hist) PROVE GoodDay(DayOf(hist, n))
  <2>1. \A a \in Assets : hist[n].bars[a] = None \/ MarketBar(hist[n].bars[a])
    BY <1>2, BookAssumption
  <2>2. QED
    BY <1>1, <1>2, <2>1 DEF GoodDay, DayOf
<1>4. ASSUME NEW n \in 1..Len(hist) PROVE DayBefore(hist, n) \in Int \cup {None}
  <2>1. CASE n = 1
    BY <2>1 DEF DayBefore
  <2>2. CASE n # 1
    <3>1. PICK m : m = n - 1
      OBVIOUS
    <3>2. m \in 1..Len(hist)
      BY <1>1, <2>2, <3>1
    <3>3. QED
      BY <1>2, <2>2, <3>1, <3>2 DEF DayBefore
  <2>3. QED
    BY <2>1, <2>2
<1>5. QED
  BY <1>1, <1>2, <1>3, <1>4 DEF DayOf

LEMMA StartType == Start \in States
<1>1. NoPosition \in PositionSet
  BY DEF NoPosition, PositionSet
<1>2. /\ [a \in Assets |-> NoPosition] \in [Assets -> PositionSet]
      /\ NoOrders \in [Assets -> OrderSet \cup {None}]
      /\ [s \in Strategies |-> [a \in Assets |-> 0]] \in [Strategies -> [Assets -> Int]]
      /\ [a \in Assets |-> 0] \in [Assets -> Int] /\ <<>> \in Seq(FillSet)
      /\ InitialCash \in Int
  BY <1>1, EngineAssumption DEF NoOrders
<1>3. QED
  BY <1>2 DEF Start, States

\* The states of a replay, as far as it does not fail.
LEMMA ReplayStates ==
    ASSUME NEW hist \in Histories, NEW sigs
    PROVE  \A n \in 0..Len(hist) : After(hist, sigs)[n] # None => After(hist, sigs)[n] \in States
<1> DEFINE R == After(hist, sigs)
           F == {n \in 0..Len(hist) : R[n] # None /\ R[n] \notin States}
<1>1. SUFFICES ASSUME F # {} PROVE FALSE
  OBVIOUS
<1>2. Len(hist) \in Nat
  BY HistoryFacts
<1>3. PICK n \in F : \A m \in F : n <= m
  <2>1. F \subseteq Nat
    BY <1>2
  <2> HIDE DEF F
  <2>2. QED
    BY <1>1, <2>1, LeastNatural
<1>4. n \in 0..Len(hist) /\ R[n] # None /\ R[n] \notin States
  BY <1>3
<1>5. n # 0
  <2>1. R[0] = Start
    BY <1>2, ReplayStep
  <2>2. QED
    BY <1>4, <2>1, StartType
<1>6. PICK m : m = n - 1
  OBVIOUS
<1>7. m \in 0..Len(hist) /\ n \in 1..Len(hist) /\ ~ (n <= m)
  BY <1>2, <1>4, <1>5, <1>6
<1>8. m \notin F
  BY <1>3, <1>7
<1>9. R[n] = IF R[m] = None THEN None ELSE Day(R[m], sigs, DayOf(hist, n), DayBefore(hist, n))
  BY <1>2, <1>6, <1>7, ReplayStep, AdvanceIs
<1>10. R[m] # None /\ R[m] \in States
  BY <1>4, <1>7, <1>8, <1>9
<1> HIDE DEF R
<1> DEFINE day == DayOf(hist, n)
           last == DayBefore(hist, n)
<1>11. GoodDay(day) /\ last \in Int \cup {None}
  BY <1>7, HistoryFacts
<1>12. R[n] = Day(R[m], sigs, day, last)
  BY <1>9, <1>10
<1> HIDE DEF day, last
<1>13. DayDone(R[m], day, BorrowCharge(R[m], day, last), Day(R[m], sigs, day, last))
  BY <1>4, <1>10, <1>11, <1>12, DayKeeps
<1>14. QED
  BY <1>4, <1>12, <1>13 DEF DayDone

\* Every day of a replay is a day done.
LEMMA ReplayDay ==
    ASSUME NEW hist \in Histories, NEW sigs, NEW m \in Nat, m + 1 \in 1..Len(hist),
           After(hist, sigs)[m + 1] # None
    PROVE  /\ After(hist, sigs)[m] # None /\ After(hist, sigs)[m] \in States
           /\ \E charge \in Int :
                DayDone(After(hist, sigs)[m], DayOf(hist, m + 1), charge, After(hist, sigs)[m + 1])
<1> DEFINE R == After(hist, sigs)
<1>1. Len(hist) \in Nat /\ m \in 0..Len(hist) /\ (m + 1) - 1 = m
  BY HistoryFacts
<1>2. R[m + 1] = IF R[m] = None THEN None
                 ELSE Day(R[m], sigs, DayOf(hist, m + 1), DayBefore(hist, m + 1))
  BY <1>1, ReplayStep, AdvanceIs
<1>3. R[m] # None /\ R[m] \in States
  BY <1>1, <1>2, ReplayStates
<1> HIDE DEF R
<1>4. GoodDay(DayOf(hist, m + 1)) /\ DayBefore(hist, m + 1) \in Int \cup {None}
  BY HistoryFacts
<1>5. DayDone(R[m], DayOf(hist, m + 1),
              BorrowCharge(R[m], DayOf(hist, m + 1), DayBefore(hist, m + 1)), R[m + 1])
  BY <1>2, <1>3, <1>4, DayKeeps DEF R
<1>6. BorrowCharge(R[m], DayOf(hist, m + 1), DayBefore(hist, m + 1)) \in Int
  BY <1>3, <1>4, ChargeType
<1>7. QED
  BY <1>3, <1>5, <1>6 DEF R

-----------------------------------------------------------------------------
(* What a replay adds up to. *)

LEMMA SpentType == ASSUME NEW F \in Seq(FillSet) PROVE Spent(F) \in Int
<1> DEFINE v == [k \in DOMAIN F |-> F[k].q * F[k].price + F[k].commission]
<1>1. ASSUME NEW k \in DOMAIN v PROVE v[k] \in Int
  <2>1. F[k] \in FillSet
    OBVIOUS
  <2>2. F[k].q \in Int /\ F[k].price \in Int /\ F[k].commission \in Int
    BY <2>1 DEF FillSet
  <2>3. QED
    BY <2>2
<1>2. IsFiniteSet(DOMAIN v)
  <2>1. DOMAIN F = 1..Len(F) /\ Len(F) \in Nat
    OBVIOUS
  <2>2. QED
    BY <2>1, FS_Interval
<1>3. Spent(F) = Total(v)
  BY DEF Spent
<1> HIDE DEF v
<1>4. QED
  BY <1>1, <1>2, <1>3, TotalType

LEMMA NetType == ASSUME NEW F \in Seq(FillSet), NEW a PROVE Net(F, a) \in Int
<1> DEFINE v == [k \in {j \in DOMAIN F : F[j].asset = a} |-> F[k].q]
<1>1. ASSUME NEW k \in DOMAIN v PROVE v[k] \in Int
  <2>1. F[k] \in FillSet
    OBVIOUS
  <2>2. QED
    BY <2>1 DEF FillSet
<1>2. IsFiniteSet(DOMAIN v)
  <2>1. DOMAIN F = 1..Len(F) /\ Len(F) \in Nat
    OBVIOUS
  <2>2. IsFiniteSet(DOMAIN F)
    BY <2>1, FS_Interval
  <2>3. QED
    BY <2>2, FS_Subset
<1>3. Net(F, a) = Total(v)
  BY DEF Net
<1> HIDE DEF v
<1>4. QED
  BY <1>1, <1>2, <1>3, TotalType

LEMMA TurnoverType == ASSUME NEW F \in Seq(FillSet), NEW a PROVE Turnover(F, a) \in Int
<1> DEFINE v == [k \in {j \in DOMAIN F : F[j].asset = a} |-> Abs(F[k].q * F[k].price)]
<1>1. ASSUME NEW k \in DOMAIN v PROVE v[k] \in Int
  <2>1. F[k] \in FillSet
    OBVIOUS
  <2>2. F[k].q * F[k].price \in Int
    BY <2>1 DEF FillSet
  <2>3. Abs(F[k].q * F[k].price) \in Nat
    BY ONLY <2>2, AbsType
  <2>4. QED
    BY <2>3
<1>2. IsFiniteSet(DOMAIN v)
  <2>1. DOMAIN F = 1..Len(F) /\ Len(F) \in Nat
    OBVIOUS
  <2>2. IsFiniteSet(DOMAIN F)
    BY <2>1, FS_Interval
  <2>3. QED
    BY <2>2, FS_Subset
<1>3. Turnover(F, a) = Total(v)
  BY DEF Turnover
<1> HIDE DEF v
<1>4. QED
  BY <1>1, <1>2, <1>3, TotalType

LEMMA NextTotal ==
    ASSUME NEW m \in Nat, NEW h, DOMAIN h = 1..(m + 1), \A i \in 1..(m + 1) : h[i] \in Int,
           NEW f, DOMAIN f = 1..m, \A i \in 1..m : f[i] = h[i]
    PROVE  Total(f) \in Int /\ Total(h) = Total(f) + h[m + 1]
<1>1. 1..(m + 1) = 1..m \cup {m + 1} /\ m + 1 \notin 1..m /\ m + 1 \in 1..(m + 1)
  OBVIOUS
<1>2. IsFiniteSet(DOMAIN f)
  BY FS_Interval
<1>3. \A i \in DOMAIN f : f[i] \in Int /\ h[i] = f[i]
  BY <1>1
<1>4. h[m + 1] \in Int /\ m + 1 \notin DOMAIN f /\ DOMAIN h = DOMAIN f \cup {m + 1}
  BY <1>1
<1>5. PICK n : n = m + 1
  OBVIOUS
<1>6. Total(f) \in Int
  BY <1>2, <1>3, TotalType
<1>7. n \notin DOMAIN f /\ DOMAIN h = DOMAIN f \cup {n} /\ h[n] \in Int
  BY <1>4, <1>5
<1>8. Total(h) = Total(f) + h[n]
  BY <1>2, <1>3, <1>7, TotalMore
<1>9. QED
  BY <1>5, <1>6, <1>8

LEMMA EmptyTotal == ASSUME NEW f, DOMAIN f = {} PROVE Total(f) = 0
<1>1. IsFiniteSet({})
  BY FS_EmptySet
<1>2. Sum(f, {}) = 0
  BY <1>1, SumStep
<1>3. QED
  BY <1>2, TotalIsSum

\* A replay that reaches a day has reached those before it.
LEMMA AliveBefore ==
    ASSUME NEW hist \in Histories, NEW sigs
    PROVE  \A n \in 0..Len(hist) :
             After(hist, sigs)[n] # None => \A m \in 0..n : After(hist, sigs)[m] # None
<1> DEFINE R == After(hist, sigs)
           F == {n \in 0..Len(hist) : R[n] # None /\ \E m \in 0..n : R[m] = None}
<1>1. SUFFICES ASSUME F # {} PROVE FALSE
  OBVIOUS
<1>2. Len(hist) \in Nat
  BY HistoryFacts
<1>3. PICK n \in F : \A m \in F : n <= m
  <2>1. F \subseteq Nat
    BY <1>2
  <2> HIDE DEF F
  <2>2. QED
    BY <1>1, <2>1, LeastNatural
<1>4. n \in 0..Len(hist) /\ R[n] # None
  BY <1>3
<1>5. PICK k \in 0..n : R[k] = None
  BY <1>3
<1>6. PICK m : m = n - 1
  OBVIOUS
<1>7. m \in Nat /\ m \in 0..Len(hist) /\ n = m + 1 /\ m + 1 \in 1..Len(hist) /\ k \in 0..m
      /\ ~ (n <= m)
  BY <1>2, <1>4, <1>5, <1>6
<1>8. R[m] # None
  BY <1>4, <1>7, ReplayDay
<1>9. m \in F
  BY <1>5, <1>7, <1>8
<1>10. QED
  BY <1>3, <1>7, <1>9

Cost(states, n) == Total([i \in 1..n |-> Spent(states[i].fills)])
Gained(states, n, a) == Total([i \in 1..n |-> Net(states[i].fills, a)])

\* The sums of one more day.
LEMMA NextSums ==
    ASSUME NEW hist \in Histories, NEW sigs, NEW m \in Nat, m + 1 \in 1..Len(hist),
           After(hist, sigs)[m + 1] # None
    PROVE  LET S == Replay(hist, sigs)
               fills == After(hist, sigs)[m + 1].fills
           IN /\ Cost(S, m) \in Int /\ Cost(S, m + 1) = Cost(S, m) + Spent(fills)
              /\ Spent(fills) \in Int
              /\ \A a : /\ Gained(S, m, a) \in Int /\ Net(fills, a) \in Int
                        /\ Gained(S, m + 1, a) = Gained(S, m, a) + Net(fills, a)
<1> DEFINE S == Replay(hist, sigs)
           R == After(hist, sigs)
<1>1. Len(hist) \in Nat /\ DOMAIN hist = 1..Len(hist)
  BY HistoryFacts
<1>2. ASSUME NEW i \in 1..(m + 1) PROVE S[i] = R[i] /\ R[i].fills \in Seq(FillSet)
  <2>1. i \in 0..Len(hist) /\ i \in DOMAIN hist /\ m + 1 \in 0..Len(hist) /\ i \in 0..(m + 1)
    BY <1>1
  <2>2. S[i] = R[i]
    BY <1>1, <2>1, ReplayStep
  <2>3. R[i] # None
    BY <2>1, AliveBefore
  <2>4. R[i] \in States
    BY <2>1, <2>3, ReplayStates
  <2>5. QED
    BY <2>2, <2>4, StateFacts
<1> HIDE DEF S, R
<1>3. m + 1 \in 1..(m + 1) /\ 1..m \subseteq 1..(m + 1)
  OBVIOUS
<1>4. Cost(S, m) \in Int /\ Spent(R[m + 1].fills) \in Int
      /\ Cost(S, m + 1) = Cost(S, m) + Spent(R[m + 1].fills)
  <2> DEFINE f == [i \in 1..m |-> Spent(S[i].fills)]
             h == [i \in 1..(m + 1) |-> Spent(S[i].fills)]
  <2>1. \A i \in 1..(m + 1) : h[i] \in Int
    BY <1>2, SpentType
  <2>2. DOMAIN h = 1..(m + 1) /\ DOMAIN f = 1..m /\ \A i \in 1..m : f[i] = h[i]
    BY <1>3
  <2>3. h[m + 1] = Spent(R[m + 1].fills)
    BY <1>2, <1>3
  <2>4. Cost(S, m) = Total(f) /\ Cost(S, m + 1) = Total(h)
    BY DEF Cost
  <2> HIDE DEF f, h
  <2>5. Total(f) \in Int /\ Total(h) = Total(f) + h[m + 1]
    BY <2>1, <2>2, NextTotal
  <2>6. QED
    BY <1>3, <2>1, <2>3, <2>4, <2>5
<1>5. ASSUME NEW a
      PROVE  /\ Gained(S, m, a) \in Int /\ Net(R[m + 1].fills, a) \in Int
             /\ Gained(S, m + 1, a) = Gained(S, m, a) + Net(R[m + 1].fills, a)
  <2> DEFINE f == [i \in 1..m |-> Net(S[i].fills, a)]
             h == [i \in 1..(m + 1) |-> Net(S[i].fills, a)]
  <2>1. \A i \in 1..(m + 1) : h[i] \in Int
    BY <1>2, NetType
  <2>2. DOMAIN h = 1..(m + 1) /\ DOMAIN f = 1..m /\ \A i \in 1..m : f[i] = h[i]
    BY <1>3
  <2>3. h[m + 1] = Net(R[m + 1].fills, a)
    BY <1>2, <1>3
  <2>4. Gained(S, m, a) = Total(f) /\ Gained(S, m + 1, a) = Total(h)
    BY DEF Gained
  <2> HIDE DEF f, h
  <2>5. Total(f) \in Int /\ Total(h) = Total(f) + h[m + 1]
    BY <2>1, <2>2, NextTotal
  <2>6. QED
    BY <1>3, <2>1, <2>3, <2>4, <2>5
<1>6. QED
  BY <1>4, <1>5 DEF S, R

\* What the engine carries is what its fills and charges add up to.
SumsUp(states, st, n) ==
    /\ st.cash = InitialCash - Cost(states, n) - st.borrow
    /\ \A a \in Assets : st.pos[a].q = Gained(states, n, a)

LEMMA ReplaySums ==
    ASSUME NEW hist \in Histories, NEW sigs
    PROVE  \A n \in 0..Len(hist) :
             After(hist, sigs)[n] # None => SumsUp(Replay(hist, sigs), After(hist, sigs)[n], n)
<1> DEFINE R == After(hist, sigs)
           S == Replay(hist, sigs)
           F == {n \in 0..Len(hist) : R[n] # None /\ ~ SumsUp(S, R[n], n)}
<1>1. SUFFICES ASSUME F # {} PROVE FALSE
  OBVIOUS
<1>2. Len(hist) \in Nat
  BY HistoryFacts
<1>3. PICK n \in F : \A m \in F : n <= m
  <2>1. F \subseteq Nat
    BY <1>2
  <2> HIDE DEF F
  <2>2. QED
    BY <1>1, <2>1, LeastNatural
<1>4. n \in 0..Len(hist) /\ R[n] # None /\ ~ SumsUp(S, R[n], n)
  BY <1>3
<1>5. CASE n = 0
  <2>1. R[0] = Start
    BY <1>2, ReplayStep
  <2>2. Cost(S, 0) = 0
    BY EmptyTotal DEF Cost
  <2>3. \A a : Gained(S, 0, a) = 0
    BY EmptyTotal DEF Gained
  <2> HIDE DEF R, S
  <2>4. /\ Start.cash = InitialCash /\ Start.borrow = 0 /\ InitialCash \in Int
        /\ \A a \in Assets : Start.pos[a].q = 0
    BY EngineAssumption DEF Start, NoPosition
  <2>5. SumsUp(S, R[0], 0)
    BY <2>1, <2>2, <2>3, <2>4 DEF SumsUp
  <2>6. QED
    BY <1>4, <1>5, <2>5
<1>6. CASE n # 0
  <2>1. PICK m : m = n - 1
    OBVIOUS
  <2>2. m \in Nat /\ n = m + 1 /\ m + 1 \in 1..Len(hist) /\ m \in 0..Len(hist) /\ ~ (n <= m)
    BY <1>2, <1>4, <1>6, <2>1
  <2>3. PICK charge \in Int : DayDone(R[m], DayOf(hist, m + 1), charge, R[m + 1])
    BY <1>4, <2>2, ReplayDay
  <2>4. R[m] # None /\ R[m] \in States
    BY <1>4, <2>2, ReplayDay
  <2>5. SumsUp(S, R[m], m)
    BY <1>3, <2>2, <2>4
  <2>6. /\ Cost(S, m) \in Int /\ Cost(S, m + 1) = Cost(S, m) + Spent(R[m + 1].fills)
        /\ Spent(R[m + 1].fills) \in Int
        /\ \A a : /\ Gained(S, m, a) \in Int /\ Net(R[m + 1].fills, a) \in Int
                  /\ Gained(S, m + 1, a) = Gained(S, m, a) + Net(R[m + 1].fills, a)
    BY <1>4, <2>2, NextSums
  <2> HIDE DEF R, S
  <2>7. R[m].cash \in Int /\ R[m].borrow \in Int /\ InitialCash \in Int
    BY <2>4, EngineAssumption DEF States
  <2>8. /\ R[m + 1].borrow = R[m].borrow + charge
        /\ R[m + 1].cash = R[m].cash - charge - Spent(R[m + 1].fills)
        /\ \A a \in Assets : R[m + 1].pos[a].q = R[m].pos[a].q + Net(R[m + 1].fills, a)
    BY <2>3 DEF DayDone
  <2>9. R[m + 1].cash = InitialCash - Cost(S, m + 1) - R[m + 1].borrow
    BY <2>5, <2>6, <2>7, <2>8 DEF SumsUp
  <2>10. ASSUME NEW a \in Assets PROVE R[m + 1].pos[a].q = Gained(S, m + 1, a)
    BY <2>5, <2>6, <2>8 DEF SumsUp
  <2>11. QED
    BY <1>4, <2>2, <2>9, <2>10 DEF SumsUp
<1>7. QED
  BY <1>5, <1>6

-----------------------------------------------------------------------------
(* Replays that see the same. *)

\* Two sets of signals that give every sleeve the same choice on a date.
SameChoice(sigs1, sigs2, date) ==
    \A s \in Strategies, a \in Assets :
        Eligible(sigs1, s, a, date) = Eligible(sigs2, s, a, date)

ScoreOf(eligible) == (CHOOSE x \in eligible : \A y \in eligible : y.at <= x.at).score

RankingOf(candidates, score) ==
    [a \in candidates |->
        Cardinality({b \in candidates : score[b] < score[a] \/ (score[b] = score[a] /\ b < a)})]

LEMMA SameSleeves ==
    ASSUME NEW sigs1, NEW sigs2, NEW day, SameChoice(sigs1, sigs2, day.date),
           NEW st, NEW nav
    PROVE  NewSleeves(st, sigs1, day, nav) = NewSleeves(st, sigs2, day, nav)
<1>1. ASSUME NEW s \in Strategies PROVE Ranking(sigs1, s, day) = Ranking(sigs2, s, day)
  <2> DEFINE E1(a) == Eligible(sigs1, s, a, day.date)
             E2(a) == Eligible(sigs2, s, a, day.date)
             C1 == {a \in Traded(day) : E1(a) # {}}
             C2 == {a \in Traded(day) : E2(a) # {}}
             f1 == [a \in C1 |-> Score(sigs1, s, a, day.date)]
             f2 == [a \in C2 |-> Score(sigs2, s, a, day.date)]
  <2>1. \A a \in Assets : E1(a) = E2(a)
    BY DEF SameChoice
  <2>2. /\ \A a : Score(sigs1, s, a, day.date) = ScoreOf(E1(a))
        /\ \A a : Score(sigs2, s, a, day.date) = ScoreOf(E2(a))
    BY DEF Score, ScoreOf
  <2>3. /\ Ranking(sigs1, s, day) = RankingOf(C1, f1)
        /\ Ranking(sigs2, s, day) = RankingOf(C2, f2)
    BY DEF Ranking, RankingOf
  <2> HIDE DEF E1, E2
  <2>4. C1 = C2
    BY <2>1 DEF Traded
  <2>5. \A a \in C1 : Score(sigs1, s, a, day.date) = Score(sigs2, s, a, day.date)
    BY <2>1, <2>2 DEF Traded
  <2>6. f1 = f2
    BY <2>4, <2>5
  <2> HIDE DEF C1, C2, f1, f2
  <2>7. QED
    BY <2>3, <2>4, <2>6
<1>2. \A s \in Strategies : Targets(sigs1, s, day, nav) = Targets(sigs2, s, day, nav)
  BY <1>1 DEF Targets
<1>3. QED
  BY <1>2 DEF NewSleeves

LEMMA SameDay ==
    ASSUME NEW sigs1, NEW sigs2, NEW day, SameChoice(sigs1, sigs2, day.date),
           NEW before, NEW last
    PROVE  Day(before, sigs1, day, last) = Day(before, sigs2, day, last)
BY SameSleeves DEF Day, Closed, Closing

LEMMA SameReplay ==
    ASSUME NEW hist1 \in Histories, NEW sigs1, NEW hist2 \in Histories, NEW sigs2,
           NEW N \in Nat, N <= Len(hist1), N <= Len(hist2),
           \A i \in 1..N : hist1[i] = hist2[i] /\ SameChoice(sigs1, sigs2, hist1[i].date)
    PROVE  \A n \in 0..N : After(hist1, sigs1)[n] = After(hist2, sigs2)[n]
<1> DEFINE R == After(hist1, sigs1)
           Q == After(hist2, sigs2)
           F == {n \in 0..N : R[n] # Q[n]}
<1>1. SUFFICES ASSUME F # {} PROVE FALSE
  OBVIOUS
<1>2. Len(hist1) \in Nat /\ Len(hist2) \in Nat
  BY HistoryFacts
<1>3. PICK n \in F : \A m \in F : n <= m
  <2>1. F \subseteq Nat
    OBVIOUS
  <2> HIDE DEF F
  <2>2. QED
    BY <1>1, <2>1, LeastNatural
<1>4. n \in 0..N /\ R[n] # Q[n]
  BY <1>3
<1>5. n # 0
  BY <1>2, <1>4, ReplayStep
<1>6. PICK m : m = n - 1
  OBVIOUS
<1>7. m \in 0..N /\ n \in 1..N /\ n \in 1..Len(hist1) /\ n \in 1..Len(hist2) /\ ~ (n <= m)
      /\ (n # 1 => m \in 1..N)
  BY <1>2, <1>4, <1>5, <1>6
<1>8. R[m] = Q[m]
  BY <1>3, <1>7
<1>9. /\ R[n] = IF R[m] = None THEN None ELSE Day(R[m], sigs1, DayOf(hist1, n), DayBefore(hist1, n))
      /\ Q[n] = IF Q[m] = None THEN None ELSE Day(Q[m], sigs2, DayOf(hist2, n), DayBefore(hist2, n))
  BY <1>2, <1>6, <1>7, ReplayStep, AdvanceIs
<1>10. DayOf(hist1, n) = DayOf(hist2, n) /\ DayBefore(hist1, n) = DayBefore(hist2, n)
  BY <1>6, <1>7 DEF DayOf, DayBefore
<1>11. SameChoice(sigs1, sigs2, DayOf(hist1, n).date)
  BY <1>7 DEF DayOf
<1> HIDE DEF R, Q
<1>12. Day(R[m], sigs1, DayOf(hist1, n), DayBefore(hist1, n))
         = Day(R[m], sigs2, DayOf(hist1, n), DayBefore(hist1, n))
  BY <1>11, SameDay
<1>13. QED
  BY <1>4, <1>8, <1>9, <1>10, <1>12

LEMMA SameOutput ==
    ASSUME NEW states1, NEW states2, NEW n \in Nat \ {0}, \A i \in 1..n : states1[i] = states2[i]
    PROVE  Output(states1, n) = Output(states2, n)
<1>1. states1[n] = states2[n]
  OBVIOUS
<1>2. [i \in 1..n |-> Spent(states1[i].fills)] = [i \in 1..n |-> Spent(states2[i].fills)]
  OBVIOUS
<1>3. \A a : [i \in 1..n |-> Net(states1[i].fills, a)] = [i \in 1..n |-> Net(states2[i].fills, a)]
  OBVIOUS
<1>4. [a \in Assets |-> Total([i \in 1..n |-> Net(states1[i].fills, a)])]
        = [a \in Assets |-> Total([i \in 1..n |-> Net(states2[i].fills, a)])]
  BY <1>3
<1>5. QED
  BY <1>1, <1>2, <1>4 DEF Output

-----------------------------------------------------------------------------
(* What a replay commits. *)

\* The output of a day is that of the engine's state.
LEMMA OutputIs ==
    ASSUME NEW hist \in Histories, NEW sigs, NEW n \in 1..Len(hist), After(hist, sigs)[n] # None
    PROVE  LET st == After(hist, sigs)[n]
               out == Output(Replay(hist, sigs), n)
           IN /\ Replay(hist, sigs)[n] = st
              /\ out.nav = st.nav /\ out.fills = st.fills /\ out.borrow = st.borrow
              /\ out.cash = st.cash /\ out.positions = [a \in Assets |-> st.pos[a].q]
<1> DEFINE st == After(hist, sigs)[n]
           S == Replay(hist, sigs)
<1>1. n \in 0..Len(hist) /\ n \in DOMAIN hist /\ Len(hist) \in Nat
  BY HistoryFacts
<1>2. S[n] = st
  BY <1>1, ReplayStep
<1>3. SumsUp(S, st, n)
  BY <1>1, ReplaySums
<1> HIDE DEF st, S
<1>4. /\ Output(S, n).nav = st.nav /\ Output(S, n).fills = st.fills
      /\ Output(S, n).borrow = st.borrow
      /\ Output(S, n).cash = InitialCash - Cost(S, n) - st.borrow
      /\ Output(S, n).positions = [a \in Assets |-> Gained(S, n, a)]
  BY <1>2 DEF Output, Cost, Gained
<1>5. QED
  BY <1>2, <1>3, <1>4 DEF SumsUp, st, S

-----------------------------------------------------------------------------
(* The book. *)

Ascending == \A i, j \in 1..Len(days) : i < j => days[i].date < days[j].date

\* Each day's output is that of the replay of the whole ledger.
Committed ==
    /\ daily = [i \in 1..Len(days) |-> Output(Replay(days, signals), i)]
    /\ \A i \in 1..Len(days) : After(days, signals)[i] # None

\* In a forward book a signal that counts on a day was there before the day.
Archived ==
    book # None /\ Forward =>
        \A i \in 1..Len(days), x \in signals :
            x.at < days[i].date * DayLength => x.archived < days[i].date * DayLength

BookInv ==
    /\ PaperTypeOK /\ Ascending /\ Committed /\ Archived
    /\ book = None => days = <<>>

LEMMA DaysType ==
    ASSUME PaperTypeOK
    PROVE  days \in Histories /\ Len(days) \in Nat /\ DOMAIN days = 1..Len(days)
<1>1. days \in Histories
  BY DEF PaperTypeOK, Histories
<1>2. QED
  BY <1>1, HistoryFacts

LEMMA DailyIs ==
    ASSUME BookInv
    PROVE  /\ DOMAIN daily = 1..Len(days)
           /\ \A i \in 1..Len(days) :
                LET st == After(days, signals)[i]
                IN /\ st # None /\ Replay(days, signals)[i] = st
                   /\ daily[i].nav = st.nav /\ daily[i].fills = st.fills
                   /\ daily[i].borrow = st.borrow /\ daily[i].cash = st.cash
                   /\ daily[i].positions = [a \in Assets |-> st.pos[a].q]
<1>1. days \in Histories
  BY DaysType DEF BookInv
<1>2. DOMAIN daily = 1..Len(days)
  BY DEF BookInv, Committed
<1>3. ASSUME NEW i \in 1..Len(days)
      PROVE  After(days, signals)[i] # None /\ daily[i] = Output(Replay(days, signals), i)
  BY DEF BookInv, Committed
<1>4. QED
  BY <1>1, <1>2, <1>3, OutputIs

\* A committed day is a day done, from the state of the day before.
LEMMA DailyDone ==
    ASSUME BookInv, NEW m \in Nat, m + 1 \in 1..Len(days)
    PROVE  \E charge \in Int :
             /\ After(days, signals)[m] \in States
             /\ DayDone(After(days, signals)[m], DayOf(days, m + 1), charge,
                        After(days, signals)[m + 1])
<1>1. days \in Histories
  BY DaysType DEF BookInv
<1>2. After(days, signals)[m + 1] # None
  BY DEF BookInv, Committed
<1>3. QED
  BY <1>1, <1>2, ReplayDay

LEMMA InvHistoryStable == ASSUME BookInv PROVE HistoryStable
<1>1. SUFFICES ASSUME daily # <<>>
               PROVE  Replay(days, signals)[Len(days)] # None /\ Reproduces(Replay(days, signals))
  BY DEF HistoryStable
<1>2. Len(days) \in Nat /\ DOMAIN daily = 1..Len(days)
  BY DaysType, DailyIs DEF BookInv
<1>3. Len(days) # 0
  <2>1. Len(daily) = Len(days)
    BY DEF BookInv, PaperTypeOK
  <2>2. ASSUME Len(days) = 0 PROVE daily = <<>>
    <3>1. daily = [i \in 1..0 |-> Output(Replay(days, signals), i)]
      BY <2>2 DEF BookInv, Committed
    <3>2. 1..0 = {} /\ daily = [i \in {} |-> Output(Replay(days, signals), i)]
      BY <3>1
    <3>3. QED
      BY <3>2
  <2>3. QED
    BY <1>1, <2>2
<1>4. Len(days) \in 1..Len(days)
  BY <1>2, <1>3
<1>5. QED
  BY <1>2, <1>4, DailyIs DEF Reproduces

LEMMA InvBooksBalance == ASSUME BookInv PROVE BooksBalance
<1>1. DOMAIN daily = 1..Len(days) /\ Len(days) \in Nat
  BY DailyIs, DaysType DEF BookInv
<1>2. ASSUME NEW i \in 1..Len(days)
      PROVE  /\ \A a \in Assets : daily[i].positions[a] # 0 => days[i].bars[a] # None
             /\ daily[i].nav = daily[i].cash + Worth(daily[i].positions, days[i])
  <2> DEFINE st == After(days, signals)[i]
             day == DayOf(days, i)
             q == [a \in Assets |-> st.pos[a].q]
  <2>1. PICK m : m = i - 1
    OBVIOUS
  <2>2. m \in Nat /\ i = m + 1 /\ m + 1 \in 1..Len(days)
    BY <1>1, <2>1
  <2>3. \E before, charge : DayDone(before, day, charge, st)
    BY <2>2, DailyDone
  <2>4. daily[i].nav = st.nav /\ daily[i].cash = st.cash /\ daily[i].positions = q
    BY DailyIs
  <2>5. day.bars = days[i].bars
    BY DEF DayOf
  <2>6. \A a \in Assets : q[a] = st.pos[a].q
    OBVIOUS
  <2> HIDE DEF st, day
  <2>7. st.nav = st.cash + Worth(q, day)
    BY <2>3 DEF DayDone
  <2>8. \A a \in Assets : st.pos[a].q # 0 => day.bars[a] # None
    BY <2>3 DEF DayDone
  <2> HIDE DEF q
  <2>9. Worth(q, day) = Worth(q, days[i])
    BY <2>5 DEF Worth
  <2>10. QED
    BY <2>4, <2>5, <2>6, <2>7, <2>8, <2>9
<1>3. QED
  BY <1>1, <1>2 DEF BooksBalance

\* What a day has for purchases is the cash of the day before less the charge.
LEMMA CashAtOpenIs ==
    ASSUME BookInv, NEW m \in Nat, m + 1 \in 1..Len(days), NEW charge \in Int,
           DayDone(After(days, signals)[m], DayOf(days, m + 1), charge, After(days, signals)[m + 1])
    PROVE  CashAtOpen(m + 1) = After(days, signals)[m].cash - charge
<1> DEFINE R == After(days, signals)
<1>1. Len(days) \in Nat /\ days \in Histories
  BY DaysType DEF BookInv
<1>2. R[m + 1].borrow = R[m].borrow + charge
  BY DEF DayDone
<1>3. daily[m + 1].borrow = R[m + 1].borrow
  BY DailyIs
<1>4. R[m] \in States
  BY DailyDone
<1>5. R[m].borrow \in Int /\ R[m].cash \in Int
  BY <1>4 DEF States
<1>6. CASE m = 0
  <2>1. R[0] = Start
    BY <1>1, ReplayStep
  <2>2. Start.cash = InitialCash /\ Start.borrow = 0 /\ InitialCash \in Int
    BY EngineAssumption DEF Start
  <2> HIDE DEF R
  <2>3. daily[1].borrow = charge
    BY <1>2, <1>3, <1>6, <2>1, <2>2
  <2>4. CashAtOpen(1) = InitialCash - daily[1].borrow
    BY DEF CashAtOpen
  <2>5. m + 1 = 1 /\ R[m].cash = InitialCash
    BY <1>6, <2>1, <2>2
  <2>6. QED
    BY <2>3, <2>4, <2>5 DEF R
<1>7. CASE m # 0
  <2>1. m \in 1..Len(days) /\ (m + 1) - 1 = m /\ m + 1 # 1
    BY <1>1, <1>7
  <2>2. daily[m].cash = R[m].cash /\ daily[m].borrow = R[m].borrow
    BY <2>1, DailyIs
  <2> HIDE DEF R
  <2>3. CashAtOpen(m + 1) = daily[m].cash - (daily[m + 1].borrow - daily[m].borrow)
    BY <2>1 DEF CashAtOpen
  <2>4. QED
    BY <1>2, <1>3, <1>5, <2>2, <2>3 DEF R
<1>8. QED
  BY <1>6, <1>7

LEMMA InvFillsExecutable == ASSUME BookInv PROVE FillsExecutable
<1>0. Execution.participation \in Int
  <2>1. Execution.participation \in 1..100
    BY EngineAssumption DEF ExecutionPolicy
  <2>2. QED
    BY <2>1
<1>1. DOMAIN daily = 1..Len(days) /\ days \in Histories /\ Len(days) \in Nat
  BY DailyIs, DaysType DEF BookInv
<1>2. ASSUME NEW i \in 1..Len(days)
      PROVE  LET fills == daily[i].fills
             IN /\ \A k \in DOMAIN fills :
                     LET bar == days[i].bars[fills[k].asset]
                     IN bar # None /\ bar.low <= fills[k].price /\ fills[k].price <= bar.high
                /\ \A a \in Assets : days[i].bars[a] # None =>
                     100 * Turnover(fills, a) <= days[i].bars[a].volume * Execution.participation
                /\ Bought(fills) <= Most(0, CashAtOpen(i))
  <2> DEFINE st == After(days, signals)[i]
             day == DayOf(days, i)
  <2>1. PICK m : m = i - 1
    OBVIOUS
  <2>2. m \in Nat /\ i = m + 1 /\ m + 1 \in 1..Len(days)
    BY <1>1, <2>1
  <2>3. PICK charge \in Int : DayDone(After(days, signals)[m], day, charge, st)
    BY <2>2, DailyDone
  <2>4. CashAtOpen(i) = After(days, signals)[m].cash - charge
    BY <2>2, <2>3, CashAtOpenIs
  <2>5. daily[i].fills = st.fills
    BY DailyIs
  <2>6. day.bars = days[i].bars /\ GoodDay(day)
    BY <1>1, HistoryFacts DEF DayOf
  <2> HIDE DEF st, day
  <2>7. st \in States /\ st.fills \in Seq(FillSet)
    BY <2>3, StateFacts DEF DayDone
  <2>8. Bought(st.fills) <= Most(0, CashAtOpen(i))
    BY <2>3, <2>4 DEF DayDone
  <2>9. ASSUME NEW k \in DOMAIN st.fills
        PROVE  LET bar == day.bars[st.fills[k].asset]
               IN bar # None /\ bar.low <= st.fills[k].price /\ st.fills[k].price <= bar.high
    BY <2>3 DEF DayDone, Executable
  <2>10. ASSUME NEW a \in Assets, day.bars[a] # None
         PROVE  100 * Turnover(st.fills, a) <= day.bars[a].volume * Execution.participation
    <3> DEFINE x == Turnover(st.fills, a)
               z == day.bars[a].volume * Execution.participation
    <3>1. x <= z \div 100
      BY <2>3, <2>10 DEF DayDone, Volume
    <3>2. x \in Int
      BY <2>7, TurnoverType
    <3>3. z \in Int
      <4>1. day.bars[a].volume \in Int /\ Execution.participation \in Int
        <5>1. PICK bar : bar = day.bars[a]
          OBVIOUS
        <5>2. MarketBar(bar)
          BY <2>6, <2>10, <5>1 DEF GoodDay
        <5>3. bar.volume \in Int
          BY <5>2, BarFacts
        <5>4. QED
          BY <1>0, <5>1, <5>3
      <4>2. QED
        BY <4>1
    <3> HIDE DEF x, z
    <3>4. 100 * x <= z
      BY <3>1, <3>2, <3>3
    <3>5. QED
      BY <3>4 DEF x, z
  <2>11. QED
    BY <2>5, <2>6, <2>8, <2>9, <2>10
<1>3. QED
  BY <1>1, <1>2 DEF FillsExecutable

\* An instant lies on a day before a date just if it is before the date's start.
LEMMA DateBelow ==
    ASSUME NEW at \in Nat, NEW date \in Int
    PROVE  DateOf(at) < date <=> at < date * DayLength
<1> DEFINE d == DateOf(at)
           r == at % DayLength
           z == date * DayLength
<1>1. DayLength \in Nat /\ DayLength > 0
  BY EngineAssumption
<1>2. d \in Int /\ r \in Nat /\ r < DayLength /\ at = d * DayLength + r
  <2>1. d = at \div DayLength
    BY DEF DateOf
  <2>2. QED
    BY <1>1, <2>1
<1> HIDE DEF d, r
<1>3. ASSUME d < date PROVE at < z
  <2>1. (date - (d + 1)) * DayLength >= 0
    BY <1>1, <1>2, <1>3
  <2>2. (date - (d + 1)) * DayLength = z - d * DayLength - DayLength
    BY <1>1, <1>2
  <2> DEFINE y == d * DayLength
  <2>3. y \in Int /\ z \in Int
    BY <1>1, <1>2
  <2> HIDE DEF y, z
  <2>4. QED
    BY <1>1, <1>2, <2>1, <2>2, <2>3 DEF y
<1>4. ASSUME ~ (d < date) PROVE ~ (at < z)
  <2>1. (d - date) * DayLength >= 0
    BY <1>1, <1>2, <1>4
  <2>2. (d - date) * DayLength = d * DayLength - z
    BY <1>1, <1>2
  <2> DEFINE y == d * DayLength
  <2>3. y \in Int /\ z \in Int
    BY <1>1, <1>2
  <2> HIDE DEF y, z
  <2>4. QED
    BY <1>1, <1>2, <2>1, <2>2, <2>3 DEF y
<1>5. QED
  BY <1>3, <1>4 DEF d, z

LEMMA StartsInTurn ==
    ASSUME NEW date1 \in Int, NEW date2 \in Int, date1 <= date2
    PROVE  date1 * DayLength \in Int /\ date2 * DayLength \in Int
           /\ date1 * DayLength <= date2 * DayLength
<1>1. DayLength \in Nat
  BY EngineAssumption
<1>2. (date2 - date1) * DayLength >= 0
  BY <1>1
<1>3. (date2 - date1) * DayLength = date2 * DayLength - date1 * DayLength
  BY <1>1
<1> DEFINE x == date1 * DayLength
           y == date2 * DayLength
<1>4. x \in Int /\ y \in Int
  BY <1>1
<1> HIDE DEF x, y
<1>5. x <= y
  BY <1>2, <1>3, <1>4 DEF x, y
<1>6. QED
  BY <1>4, <1>5 DEF x, y

LEMMA DatesRise ==
    ASSUME PaperTypeOK, Ascending
    PROVE  /\ \A i \in 1..Len(days) : days[i].date \in Nat
           /\ \A i, j \in 1..Len(days) : i <= j => days[i].date <= days[j].date
           /\ LastDay \in Int /\ \A i \in 1..Len(days) : days[i].date <= LastDay
<1>1. days \in Histories /\ Len(days) \in Nat
  BY DaysType
<1>2. \A i \in 1..Len(days) : days[i].date \in Dates
  BY <1>1, HistoryFacts
<1>3. ASSUME NEW i \in 1..Len(days) PROVE days[i].date \in Nat
  BY <1>2, BookAssumption DEF Dates
<1>4. ASSUME NEW i \in 1..Len(days), NEW j \in 1..Len(days), i <= j
      PROVE  days[i].date <= days[j].date
  BY <1>3, <1>4 DEF Ascending
<1>5. LastDay \in Int /\ \A i \in 1..Len(days) : days[i].date <= LastDay
  <2>1. CASE days = <<>>
    BY <2>1 DEF LastDay
  <2>2. CASE days # <<>>
    <3>1. Len(days) \in 1..Len(days) /\ LastDay = days[Len(days)].date
      BY <1>1, <2>2 DEF LastDay, Histories
    <3>2. \A i \in 1..Len(days) : i <= Len(days)
      BY <1>1
    <3>3. QED
      BY <1>3, <1>4, <3>1, <3>2
  <2>3. QED
    BY <2>1, <2>2
<1>6. QED
  BY <1>3, <1>4, <1>5

\* On the days up to the one that decides, the committed signals are all that count.
LEMMA CommittedChoice ==
    ASSUME BookInv, book # None, Forward, NEW j \in 1..Len(days), NEW k \in 1..Len(days), k <= j
    PROVE  SameChoice(signals, {x \in signals : x.archived < days[j].date * DayLength},
                      days[k].date)
<1> DEFINE committed == {x \in signals : x.archived < days[j].date * DayLength}
<1>1. days[k].date \in Int /\ days[j].date \in Int /\ days[k].date <= days[j].date
  BY DatesRise DEF BookInv
<1>2. ASSUME NEW x \in signals, DateOf(x.at) < days[k].date PROVE x \in committed
  <2>1. x.at \in Nat /\ x.archived \in Int
    BY DEF BookInv, PaperTypeOK, Times
  <2>2. x.at < days[k].date * DayLength
    BY <1>1, <1>2, <2>1, DateBelow
  <2>3. x.archived < days[k].date * DayLength
    BY <2>2 DEF BookInv, Archived
  <2>4. /\ days[k].date * DayLength \in Int /\ days[j].date * DayLength \in Int
        /\ days[k].date * DayLength <= days[j].date * DayLength
    BY <1>1, StartsInTurn
  <2>5. x.archived < days[j].date * DayLength
    BY <2>1, <2>3, <2>4
  <2>6. QED
    BY <2>5
<1>3. committed \subseteq signals
  OBVIOUS
<1> HIDE DEF committed
<1>4. SameChoice(signals, committed, days[k].date)
  BY <1>2, <1>3 DEF SameChoice, Eligible
<1>5. QED
  BY <1>4 DEF committed

LEMMA InvForwardCommitted == ASSUME BookInv PROVE ForwardCommitted
<1>1. SUFFICES ASSUME book # None, Forward, NEW i \in 1..Len(days)
               PROVE  LET decided == days[Most(1, i - 1)].date
                          committed == {x \in signals : x.archived < decided * DayLength}
                      IN daily[i].fills = Replay(SubSeq(days, 1, i), committed)[i].fills
  <2>1. DOMAIN daily = 1..Len(days)
    BY DailyIs
  <2>2. QED
    BY <2>1 DEF ForwardCommitted
<1>2. days \in Histories /\ Len(days) \in Nat
  BY DaysType DEF BookInv
<1>3. PICK j : j = Most(1, i - 1)
  OBVIOUS
<1>4. j \in 1..Len(days) /\ j <= i /\ (i = 1 => j = 1) /\ (i # 1 => j = i - 1) /\ j \in Nat
  BY <1>2, <1>3 DEF Most
<1> DEFINE committed == {x \in signals : x.archived < days[j].date * DayLength}
           h == SubSeq(days, 1, i)
<1>5. /\ h \in Histories /\ Len(h) = i /\ DOMAIN h = 1..i
      /\ \A k \in 1..i : h[k] = days[k] /\ k \in 1..Len(days)
  <2> DEFINE D == [date : Dates, bars : Batches]
  <2>1. days \in Seq(D) /\ i \in 1..Len(days)
    BY <1>2 DEF Histories
  <2> HIDE DEF D
  <2>2. h \in Seq(D) /\ Len(h) = i /\ \A k \in 1..i : h[k] = days[k]
    BY <2>1
  <2>3. h \in Histories
    BY <2>2 DEF D, Histories
  <2>4. QED
    BY <1>2, <2>2, <2>3
<1>6. \A k \in 1..j : SameChoice(signals, committed, days[k].date)
  <2>1. ASSUME NEW k \in 1..j PROVE SameChoice(signals, committed, days[k].date)
    <3>1. k \in 1..Len(days) /\ k <= j
      BY <1>2, <1>4
    <3>2. QED
      BY <1>1, <1>4, <3>1, CommittedChoice
  <2>2. QED
    BY <2>1
<1> HIDE DEF committed, h
<1>7. \A n \in 0..j : After(days, signals)[n] = After(h, committed)[n]
  <2>1. j <= Len(days) /\ j <= Len(h) /\ \A k \in 1..j : days[k] = h[k]
    BY <1>2, <1>4, <1>5
  <2>2. QED
    BY <1>2, <1>4, <1>5, <1>6, <2>1, SameReplay
<1>8. After(h, committed)[i].fills = After(days, signals)[i].fills
  <2>1. CASE i = 1
    BY <1>4, <1>7, <2>1
  <2>2. CASE i # 1
    <3>1. i - 1 = j /\ j \in 0..j /\ j + 1 = i /\ j \in 1..i
      BY <1>2, <1>4, <2>2
    <3> DEFINE before == After(days, signals)[j]
               day == DayOf(days, i)
               last == DayBefore(days, i)
    <3>2. before = After(h, committed)[j]
      BY <1>7, <3>1
    <3>3. day = DayOf(h, i) /\ last = DayBefore(h, i)
      BY <1>5, <3>1 DEF DayOf, DayBefore
    <3>4. After(days, signals)[i] # None
      BY <1>1, DailyIs
    <3>5. before # None /\ before \in States
      BY <1>2, <1>4, <3>1, <3>4, ReplayDay
    <3>6. After(days, signals)[i] = Advance(before, days, signals, i)
      BY <1>2, <3>1, ReplayStep
    <3>7. After(h, committed)[i] = Advance(before, h, committed, i)
      <4>1. Len(h) \in Nat /\ i \in 1..Len(h)
        BY <1>2, <1>5
      <4>2. After(h, committed)[i] = Advance(After(h, committed)[i - 1], h, committed, i)
        BY <4>1, ReplayStep
      <4>3. QED
        BY <3>1, <3>2, <4>2
    <3> HIDE DEF before
    <3>8. After(days, signals)[i] = Day(before, signals, day, last)
      BY <3>5, <3>6, AdvanceIs
    <3>9. After(h, committed)[i] = Day(before, committed, day, last)
      BY <3>3, <3>5, <3>7, AdvanceIs
    <3>10. GoodDay(day) /\ last \in Int \cup {None}
      BY <1>2, HistoryFacts
    <3> HIDE DEF day, last
    <3>11. QED
      BY <3>4, <3>5, <3>8, <3>9, <3>10, DayFills
  <2>3. QED
    BY <2>1, <2>2
<1>9. Replay(h, committed)[i] = After(h, committed)[i]
  <2>1. i \in DOMAIN h /\ Len(h) \in Nat
    BY <1>2, <1>5
  <2>2. QED
    BY <2>1, ReplayStep
<1>10. daily[i].fills = Replay(h, committed)[i].fills
  BY <1>8, <1>9, DailyIs
<1>11. QED
  BY <1>3, <1>10 DEF h, committed

-----------------------------------------------------------------------------
(* The steps of the book. *)

LEMMA TimesFacts == 0 \in Times /\ Times \subseteq Nat
<1>1. MaxDate \in Nat /\ DayLength \in Nat /\ DayLength > 0
  BY BookAssumption, EngineAssumption
<1> DEFINE z == MaxDate * DayLength
<1>2. z \in Nat /\ (MaxDate + 2) * DayLength = z + 2 * DayLength
  BY <1>1
<1>3. (MaxDate + 2) * DayLength \in Nat /\ (MaxDate + 2) * DayLength >= 1
  <2> HIDE DEF z
  <2>1. QED
    BY <1>1, <1>2
<1>4. QED
  BY <1>3 DEF Times

LEMMA InitBook == PaperInit => BookInv
<1>1. SUFFICES ASSUME PaperInit PROVE BookInv
  OBVIOUS
<1>2. /\ book = None /\ now = Creation /\ latest = 0 /\ signals = {} /\ days = <<>>
      /\ daily = <<>>
  BY <1>1 DEF PaperInit
<1>3. Len(days) = 0 /\ 1..Len(days) = {} /\ Len(daily) = 0
  BY <1>2
<1>4. PaperTypeOK
  <2>1. days \in Seq([date : Dates, bars : Batches])
    BY <1>2
  <2>2. now \in Times /\ latest \in Times
    BY <1>2, TimesFacts, BookAssumption
  <2>3. QED
    BY <1>2, <1>3, <2>1, <2>2 DEF PaperTypeOK
<1>5. Ascending
  BY <1>3 DEF Ascending
<1>6. Committed
  <2>1. daily = [i \in 1..Len(days) |-> Output(Replay(days, signals), i)]
    BY <1>2, <1>3
  <2>2. QED
    BY <1>3, <2>1 DEF Committed
<1>7. Archived
  BY <1>2 DEF Archived
<1>8. QED
  BY <1>2, <1>4, <1>5, <1>6, <1>7 DEF BookInv

\* Signals that do not count on the days there leave what is committed.
LEMMA CommittedStays ==
    ASSUME NEW hist \in Histories, NEW sigs1, NEW sigs2,
           \A i \in 1..Len(hist) : SameChoice(sigs1, sigs2, hist[i].date)
    PROVE  /\ \A i \in 1..Len(hist) : After(hist, sigs1)[i] = After(hist, sigs2)[i]
           /\ \A i \in 1..Len(hist) :
                Output(Replay(hist, sigs1), i) = Output(Replay(hist, sigs2), i)
<1>1. Len(hist) \in Nat /\ DOMAIN hist = 1..Len(hist)
  BY HistoryFacts
<1> DEFINE N == Len(hist)
<1>2. N \in Nat /\ N <= Len(hist) /\ \A i \in 1..N : hist[i] = hist[i]
  BY <1>1
<1> HIDE DEF N
<1>3. \A i \in 1..N : SameChoice(sigs1, sigs2, hist[i].date)
  BY DEF N
<1>4. \A n \in 0..N : After(hist, sigs1)[n] = After(hist, sigs2)[n]
  BY <1>2, <1>3, SameReplay
<1>5. \A i \in 1..Len(hist) : After(hist, sigs1)[i] = After(hist, sigs2)[i]
  BY <1>1, <1>4 DEF N
<1>6. \A i \in 1..Len(hist) : Replay(hist, sigs1)[i] = Replay(hist, sigs2)[i]
  BY <1>1, <1>5, ReplayStep
<1>7. ASSUME NEW i \in 1..Len(hist)
      PROVE  Output(Replay(hist, sigs1), i) = Output(Replay(hist, sigs2), i)
  <2>1. i \in Nat \ {0} /\ \A k \in 1..i : k \in 1..Len(hist)
    BY <1>1
  <2>2. \A k \in 1..i : Replay(hist, sigs1)[k] = Replay(hist, sigs2)[k]
    BY <1>6, <2>1
  <2>3. QED
    BY <2>1, <2>2, SameOutput
<1>8. QED
  BY <1>5, <1>7

LEMMA SignalsStep ==
    ASSUME BookInv, NEW view \in Views, NEW at \in Stamps, IngestSignals(view, at)
    PROVE  BookInv'
<1> DEFINE new == {[strategy |-> x.strategy, asset |-> x.asset, score |-> x.score, at |-> at,
                    archived |-> now] : x \in view}
<1>1. /\ book # None /\ signals' = signals \cup new /\ latest' = now /\ DateOf(at) >= LastDay
      /\ book' = book /\ now' = now /\ days' = days /\ daily' = daily
  BY DEF IngestSignals, InOrder
<1>2. \A x \in new : x.at = at /\ x.archived = now
  OBVIOUS
<1> HIDE DEF new
<1>3. at \in Times /\ now \in Times /\ at \in Nat
  BY BookAssumption, TimesFacts DEF BookInv, PaperTypeOK
<1>4. PaperTypeOK'
  BY <1>1, <1>2, <1>3 DEF BookInv, PaperTypeOK
<1>5. Ascending'
  BY <1>1 DEF BookInv, Ascending
<1>6. \A i \in 1..Len(days) : days[i].date \in Int /\ days[i].date <= LastDay /\ LastDay \in Int
  BY DatesRise DEF BookInv
<1>7. DateOf(at) \in Int
  BY <1>3, EngineAssumption DEF DateOf
<1>8. \A i \in 1..Len(days) : ~ (DateOf(at) < days[i].date)
  BY <1>1, <1>6, <1>7
<1>9. Committed'
  <2>1. \A i \in 1..Len(days) : SameChoice(signals, signals', days[i].date)
    BY <1>1, <1>2, <1>8 DEF SameChoice, Eligible
  <2>2. days \in Histories
    BY DaysType DEF BookInv
  <2>3. /\ \A i \in 1..Len(days) : After(days, signals)[i] = After(days, signals')[i]
        /\ \A i \in 1..Len(days) :
             Output(Replay(days, signals), i) = Output(Replay(days, signals'), i)
    BY <2>1, <2>2, CommittedStays
  <2>4. daily = [i \in 1..Len(days) |-> Output(Replay(days, signals), i)]
        /\ \A i \in 1..Len(days) : After(days, signals)[i] # None
    BY DEF BookInv, Committed
  <2>5. daily' = [i \in 1..Len(days') |-> Output(Replay(days', signals'), i)]
    BY <1>1, <2>3, <2>4
  <2>6. \A i \in 1..Len(days') : After(days', signals')[i] # None
    BY <1>1, <2>3, <2>4
  <2>7. QED
    BY <2>5, <2>6 DEF Committed
<1>10. Archived'
  <2>1. SUFFICES ASSUME Forward, NEW i \in 1..Len(days), NEW x \in signals \cup new,
                        x.at < days[i].date * DayLength
                 PROVE  x.archived < days[i].date * DayLength
    BY <1>1 DEF Archived, Forward
  <2>2. CASE x \in signals
    BY <1>1, <2>1, <2>2 DEF BookInv, Archived
  <2>3. CASE x \in new
    BY <1>2, <1>3, <1>6, <1>8, <2>1, <2>3, DateBelow
  <2>4. QED
    BY <2>2, <2>3
<1>11. QED
  BY <1>1, <1>4, <1>5, <1>9, <1>10 DEF BookInv

LEMMA BarsStep ==
    ASSUME BookInv, NEW date \in Dates, NEW bars \in Batches, IngestBars(date, bars)
    PROVE  BookInv'
<1> DEFINE n == Len(days)
           start == date * DayLength
           end == start + DayLength
           S == Replay(days, signals)
           S2 == Replay(days', signals)
           event == [date |-> date, bars |-> bars]
<1>1. /\ book # None /\ date > LastDay /\ days' = Append(days, event) /\ latest' = now
      /\ Forward => \A x \in signals : x.at < start => x.archived < start
      /\ S2[Len(days')] # None /\ daily' = Append(daily, Output(S2, Len(days')))
      /\ book' = book /\ now' = now /\ signals' = signals
  BY DEF IngestBars, TimelyBars, Replayed
<1>2. days \in Histories /\ n \in Nat
  BY DaysType DEF BookInv
<1>3. /\ days' \in Histories /\ Len(days') = n + 1
      /\ \A i \in 1..n : days'[i] = days[i]
      /\ days'[n + 1] = event
  <2> DEFINE D == [date : Dates, bars : Batches]
  <2>1. event \in D /\ days \in Seq(D)
    BY <1>2 DEF Histories
  <2> HIDE DEF D, event
  <2>2. days' \in Seq(D) /\ Len(days') = n + 1 /\ (\A i \in 1..n : days'[i] = days[i])
        /\ days'[n + 1] = event
    BY <1>1, <2>1
  <2>3. QED
    BY <2>2 DEF D, Histories
<1>4. event.date = date
  OBVIOUS
<1> HIDE DEF event, S, S2
<1>5. \A i \in 1..(n + 1) : i \in 1..n \/ i = n + 1
  BY <1>2
<1>6. Ascending'
  <2>1. ASSUME NEW i \in 1..(n + 1), NEW j \in 1..(n + 1), i < j
        PROVE  days'[i].date < days'[j].date
    <3>1. \A k \in 1..n : days[k].date \in Int /\ days[k].date <= LastDay /\ LastDay \in Int
      BY DatesRise DEF BookInv
    <3>2. date \in Int
      BY DEF Dates
    <3>3. i \in 1..n
      BY <1>2, <2>1
    <3>4. CASE j \in 1..n
      BY <1>3, <2>1, <3>3, <3>4 DEF BookInv, Ascending
    <3>5. CASE j = n + 1
      BY <1>1, <1>3, <1>4, <3>1, <3>2, <3>3, <3>5
    <3>6. QED
      BY <1>5, <3>4, <3>5
  <2>2. QED
    BY <1>3, <2>1 DEF Ascending
<1>7. \A k \in 0..n : After(days', signals)[k] = After(days, signals)[k]
  <2>1. n <= Len(days) /\ n <= Len(days') /\ Len(days) \in Nat
    BY <1>2, <1>3
  <2>2. \A i \in 1..n : days[i] = days'[i] /\ SameChoice(signals, signals, days[i].date)
    BY <1>3 DEF SameChoice
  <2>3. QED
    BY <1>2, <1>3, <2>1, <2>2, SameReplay
<1>8. /\ \A i \in 1..n : S2[i] = S[i]
      /\ \A i \in 1..(n + 1) : S2[i] = After(days', signals)[i]
  <2>1. /\ \A i \in 1..n : S[i] = After(days, signals)[i]
        /\ \A i \in 1..(n + 1) : S2[i] = After(days', signals)[i]
    BY <1>2, <1>3, HistoryFacts, ReplayStep DEF S, S2
  <2>2. \A i \in 1..n : i \in 1..(n + 1) /\ i \in 0..n
    BY <1>2
  <2>3. QED
    BY <1>7, <2>1, <2>2
<1>9. \A i \in 1..(n + 1) : After(days', signals)[i] # None
  <2>1. \A i \in 1..n : After(days, signals)[i] # None
    BY DEF BookInv, Committed
  <2>2. After(days', signals)[n + 1] # None
    BY <1>1, <1>2, <1>3, <1>8
  <2>3. \A i \in 1..n : i \in 0..n
    BY <1>2
  <2>4. QED
    BY <1>5, <1>7, <2>1, <2>2, <2>3
<1>10. daily' = [i \in 1..(n + 1) |-> Output(S2, i)] /\ Len(daily') = n + 1
  <2> DEFINE x == Output(S2, n + 1)
             T == {daily[i] : i \in 1..n} \cup {x}
  <2>1. daily = [i \in 1..n |-> Output(S, i)]
    BY DEF BookInv, Committed, S
  <2>2. ASSUME NEW i \in 1..n PROVE Output(S2, i) = Output(S, i)
    <3>1. i \in Nat \ {0} /\ \A k \in 1..i : k \in 1..n
      BY <1>2
    <3>2. QED
      BY <1>8, <3>1, SameOutput
  <2>3. daily \in Seq(T) /\ Len(daily) = n
    <3>1. daily \in [1..n -> T]
      BY <2>1
    <3> HIDE DEF T
    <3>2. QED
      BY <1>2, <3>1
  <2>4. daily' = Append(daily, x)
    BY <1>1, <1>3
  <2>5. x \in T
    OBVIOUS
  <2> HIDE DEF x, T
  <2>6. /\ daily' = [i \in 1..(n + 1) |-> IF i \in 1..n THEN daily[i] ELSE x]
        /\ Len(daily') = n + 1
    <3>1. Append(daily, x) \in Seq(T) /\ Len(Append(daily, x)) = n + 1
      BY <2>3, <2>5
    <3>2. \A i \in 1..(n + 1) : Append(daily, x)[i] = IF i \in 1..n THEN daily[i] ELSE x
      BY <1>2, <1>5, <2>3, <2>5
    <3> DEFINE d == Append(daily, x)
               v == [i \in 1..(n + 1) |-> IF i \in 1..n THEN daily[i] ELSE x]
    <3>3. d \in Seq(T) /\ Len(d) = n + 1 /\ \A i \in 1..(n + 1) : d[i] = v[i]
      BY <3>1, <3>2
    <3>4. DOMAIN v = 1..(n + 1) /\ v = [i \in DOMAIN v |-> v[i]]
      OBVIOUS
    <3> HIDE DEF d, v
    <3>5. d = [i \in 1..(n + 1) |-> d[i]]
      BY <1>2, <3>3
    <3>6. d = v
      BY <3>3, <3>4, <3>5
    <3>7. QED
      BY <2>4, <3>3, <3>6 DEF d, v
  <2>7. \A i \in 1..(n + 1) : (IF i \in 1..n THEN daily[i] ELSE x) = Output(S2, i)
    BY <1>5, <2>1, <2>2 DEF x
  <2>8. QED
    BY <2>6, <2>7
<1>11. Committed'
  BY <1>1, <1>3, <1>9, <1>10 DEF Committed, S2
<1>12. PaperTypeOK'
  BY <1>1, <1>3, <1>10 DEF BookInv, PaperTypeOK, Histories
<1>13. Archived'
  <2>1. SUFFICES ASSUME Forward, NEW i \in 1..(n + 1), NEW x \in signals,
                        x.at < days'[i].date * DayLength
                 PROVE  x.archived < days'[i].date * DayLength
    BY <1>1, <1>3 DEF Archived, Forward
  <2>2. CASE i \in 1..n
    BY <1>1, <1>3, <2>1, <2>2 DEF BookInv, Archived
  <2>3. CASE i = n + 1
    BY <1>1, <1>3, <1>4, <2>1, <2>3
  <2>4. QED
    BY <1>5, <2>2, <2>3
<1>14. QED
  BY <1>1, <1>6, <1>11, <1>12, <1>13 DEF BookInv

LEMMA OtherSteps ==
    ASSUME BookInv,
           \/ \E mode \in {"historical_replay", "forward_shadow"} : CreateBook(mode)
           \/ Clock
           \/ UNCHANGED paperVars
    PROVE  BookInv'
<1>1. CASE \E mode \in {"historical_replay", "forward_shadow"} : CreateBook(mode)
  <2>1. PICK mode \in {"historical_replay", "forward_shadow"} : CreateBook(mode)
    BY <1>1
  <2>2. /\ book = None /\ book' = [mode |-> mode, created |-> now] /\ days = <<>>
        /\ now' = now /\ latest' = latest /\ signals' = signals /\ days' = days /\ daily' = daily
    BY <2>1 DEF CreateBook, BookInv
  <2>3. PaperTypeOK'
    BY <2>2 DEF BookInv, PaperTypeOK
  <2>4. Ascending' /\ Committed'
    BY <2>2 DEF BookInv, Ascending, Committed
  <2>5. Archived'
    <3>1. 1..Len(days') = {}
      BY <2>2
    <3>2. QED
      BY <3>1 DEF Archived
  <2>6. QED
    BY <2>2, <2>3, <2>4, <2>5 DEF BookInv
<1>2. CASE Clock
  <2>1. /\ now' \in Times /\ book' = book /\ latest' = latest /\ signals' = signals
        /\ days' = days /\ daily' = daily
    BY <1>2 DEF Clock
  <2>2. PaperTypeOK'
    BY <2>1 DEF BookInv, PaperTypeOK
  <2>3. QED
    BY <2>1, <2>2 DEF BookInv, Ascending, Committed, Archived, Forward
<1>3. CASE UNCHANGED paperVars
  BY <1>3 DEF BookInv, PaperTypeOK, Ascending, Committed, Archived, Forward, paperVars
<1>4. QED
  BY <1>1, <1>2, <1>3

LEMMA BookStep == BookInv /\ [PaperNext]_paperVars => BookInv'
BY SignalsStep, BarsStep, OtherSteps DEF PaperNext

\* The invariant that carries the theorems about the books.
LEMMA BookSafe == PaperSpec => []BookInv
<1>1. PaperInit => BookInv
  BY InitBook
<1>2. BookInv /\ [PaperNext]_paperVars => BookInv'
  BY BookStep
<1>3. QED
  BY <1>1, <1>2, PTL DEF PaperSpec

-----------------------------------------------------------------------------
(* Theorems about the paper books. *)

\* The book's ledger and clock stay of their types, one output for each day.
THEOREM BookTyped == PaperSpec => []PaperTypeOK
<1>1. BookInv => PaperTypeOK
  BY DEF BookInv
<1>2. QED
  BY <1>1, BookSafe, PTL

\* Nothing appended later revises a committed day: the check of _replay never
\* refuses one, for any ledger (_replay).
THEOREM BookStable == PaperSpec => []HistoryStable
<1>1. BookInv => HistoryStable
  BY InvHistoryStable
<1>2. QED
  BY <1>1, BookSafe, PTL

\* The reported cash and positions, added up from the fills, make up the NAV that
\* the engine carried through exits, limits and charges (_replay, run).
THEOREM BookBalanced == PaperSpec => []BooksBalance
<1>1. BookInv => BooksBalance
  BY InvBooksBalance
<1>2. QED
  BY <1>1, BookSafe, PTL

\* Every fill lies in its bar, a day's fills share the bar's volume, and purchases
\* are paid from the morning's cash (_fill_orders, _apply_protective_exits).
THEOREM BookExecutable == PaperSpec => []FillsExecutable
<1>1. BookInv => FillsExecutable
  BY InvFillsExecutable
<1>2. QED
  BY <1>1, BookSafe, PTL

\* A forward book's fills are those of a replay with the signals archived before
\* the day that decided the orders (ingest_book, _targets).
THEOREM BookPrecommitted == PaperSpec => []ForwardCommitted
<1>1. BookInv => ForwardCommitted
  BY InvForwardCommitted
<1>2. QED
  BY <1>1, BookSafe, PTL

-----------------------------------------------------------------------------
(* TradeControl. *)

\* The operator or the policy lets the proposal go.
Granted(p) ==
    /\ proposal[p].verdict # "rejected"
    /\ proposal[p].verdict = "approved" \/ ~Terms(p).approval

ProposalInv(p) ==
    /\ proposal[p].state # "none" =>
         proposal[p].revision \in 1..Revision(BookOf[p]) /\ p \in Terms(p).admits
    /\ proposal[p].state = "pending" => proposal[p].verdict = "none"
    /\ proposal[p].state = "approved" => proposal[p].verdict = "approved"
    /\ proposal[p].state \in Answers => Granted(p) /\ proposal[p].day > 0
    /\ intents[p] # "none" => proposal[p].state \in {"unknown", "response_received"}
    /\ posts[p] # <<>> => intents[p] # "none" /\ posts[p] = <<Terms(p).mode>>
    /\ intents[p] = "response_received" => posts[p] # <<>>
    /\ proposal[p].state = "response_received" => intents[p] = "response_received"

\* What the databases hold of the proposal a dispatcher works on.
Stage(d, p) ==
    /\ proposal[p].state = "unknown"
    /\ dsp[d].mode = Terms(p).mode
    /\ dsp[d].pc \in {"quote", "journal", "post"} => dsp[d].mode # "shadow" /\ posts[p] = <<>>
    /\ dsp[d].pc \in {"quote", "journal"} => intents[p] = "none"
    /\ dsp[d].pc \in {"post", "answered"} => intents[p] = "unknown"
    /\ dsp[d].pc = "answered" => posts[p] # <<>>
    /\ dsp[d].pc = "record" =>
         \/ dsp[d].answer = "shadow_recorded" /\ intents[p] = "none"
         \/ dsp[d].answer = "response_received" /\ intents[p] = "response_received"

DispatcherInv(d) ==
    IF dsp[d].pc \in {"idle", "batch"} THEN dsp[d].proposal = Unset
    ELSE dsp[d].proposal \in Proposals /\ Stage(d, dsp[d].proposal)

Sole ==
    \A d, e \in Dispatchers :
        dsp[d].proposal # Unset /\ dsp[d].proposal = dsp[e].proposal => d = e

IInv ==
    /\ TypeOK
    /\ \A p \in Proposals : ProposalInv(p)
    /\ \A d \in Dispatchers : DispatcherInv(d)
    /\ Sole
-----------------------------------------------------------------------------
LEMMA InitInv == Init => IInv
<1> SUFFICES ASSUME Init PROVE IInv
  OBVIOUS
<1> USE DEF Init, Idle, NoProposal
<1>1. TypeOK
  BY BoundAssumption DEF TypeOK, Steps, Modes, Answers, Locals, Rows
<1>2. ASSUME NEW p \in Proposals PROVE ProposalInv(p)
  BY DEF ProposalInv, Answers
<1>3. ASSUME NEW d \in Dispatchers PROVE DispatcherInv(d)
  BY DEF DispatcherInv
<1> QED
  BY <1>1, <1>2, <1>3 DEF IInv, Sole

\* The part of a proposal and of its records that the invariant is about.
Same(p) ==
    /\ proposal'[p].state = proposal[p].state
    /\ proposal'[p].revision = proposal[p].revision
    /\ proposal'[p].verdict = proposal[p].verdict
    /\ proposal'[p].day = proposal[p].day
    /\ intents'[p] = intents[p]
    /\ posts'[p] = posts[p]

LEMMA ProposalKept ==
    ASSUME NEW p \in Proposals, ProposalInv(p), Same(p), policies' = policies
    PROVE  ProposalInv(p)'
  BY DEF ProposalInv, Same, Granted, Terms, Revision

LEMMA DispatcherKept ==
    ASSUME NEW d \in Dispatchers, DispatcherInv(d), dsp'[d] = dsp[d], policies' = policies,
           dsp[d].proposal \in Proposals => Same(dsp[d].proposal)
    PROVE  DispatcherInv(d)'
  BY DEF DispatcherInv, Stage, Same, Terms

\* A step of one dispatcher on its own proposal disturbs nothing else.
LEMMA OthersKept ==
    ASSUME IInv, NEW d \in Dispatchers, policies' = policies, NEW p \in Proposals,
           \A e \in Dispatchers \ {d} : dsp'[e] = dsp[e] /\ dsp[e].proposal # p,
           \A q \in Proposals \ {p} : Same(q)
    PROVE  /\ \A q \in Proposals \ {p} : ProposalInv(q)'
           /\ \A e \in Dispatchers \ {d} : DispatcherInv(e)'
<1>1. ASSUME NEW q \in Proposals \ {p} PROVE ProposalInv(q)'
  BY ProposalKept DEF IInv
<1>2. ASSUME NEW e \in Dispatchers \ {d} PROVE DispatcherInv(e)'
  BY DispatcherKept DEF IInv
<1> QED
  BY <1>1, <1>2

\* The next two lemmas are all but the types of what a dispatcher's step keeps.
Upheld == (\A p \in Proposals : ProposalInv(p)) /\ (\A e \in Dispatchers : DispatcherInv(e)) /\ Sole

\* It works on one proposal, which nobody else does, or ceases to.
LEMMA WorkKeeps ==
    ASSUME IInv, NEW d \in Dispatchers, NEW p \in Proposals, NEW r,
           dsp' = [dsp EXCEPT ![d] = r], r.proposal \in {Unset, p}, policies' = policies,
           \A e \in Dispatchers \ {d} : dsp[e].proposal # p,
           \A q \in Proposals \ {p} : Same(q),
           ProposalInv(p)', DispatcherInv(d)'
    PROVE  Upheld'
<1>1. dsp'[d] = r /\ \A e \in Dispatchers \ {d} : dsp'[e] = dsp[e]
  BY DEF IInv, TypeOK, Locals, Rows
<1>2. /\ \A q \in Proposals \ {p} : ProposalInv(q)'
      /\ \A e \in Dispatchers \ {d} : DispatcherInv(e)'
  BY <1>1, OthersKept
<1>3. Sole'
  BY <1>1, UnsetAssumption DEF Sole, IInv
<1> QED
  BY <1>2, <1>3 DEF Upheld

\* It comes to or stays without a proposal, and the databases stay as they are.
LEMMA RestKeeps ==
    ASSUME IInv, NEW d \in Dispatchers, NEW r,
           dsp' = [dsp EXCEPT ![d] = r], r.proposal = Unset, r.pc \in {"idle", "batch"},
           UNCHANGED <<halted, policies, proposal, inbox, intents, posts, today>>
    PROVE  Upheld'
<1>1. dsp'[d] = r /\ \A e \in Dispatchers \ {d} : dsp'[e] = dsp[e]
  BY DEF IInv, TypeOK, Locals, Rows
<1>2. \A p \in Proposals : Same(p)
  BY DEF Same
<1>3. \A p \in Proposals : ProposalInv(p)'
  BY <1>2, ProposalKept DEF IInv
<1>4. ASSUME NEW e \in Dispatchers PROVE DispatcherInv(e)'
  <2>1. CASE e = d
    BY <2>1, <1>1 DEF DispatcherInv
  <2>2. CASE e # d
    BY <2>2, <1>1, <1>2, DispatcherKept DEF IInv
  <2> QED
    BY <2>1, <2>2
<1>5. Sole'
  BY <1>1 DEF Sole, IInv
<1> QED
  BY <1>3, <1>4, <1>5 DEF Upheld

LEMMA DoneRests ==
    ASSUME TypeOK, NEW d \in Dispatchers, Done(d)
    PROVE  \E r : /\ dsp' = [dsp EXCEPT ![d] = r]
                  /\ r.proposal = Unset /\ r.pc \in {"idle", "batch"}
<1> DEFINE r == IF dsp[d].ready = {} THEN Idle
                ELSE [Idle EXCEPT !.pc = "batch", !.ready = dsp[d].ready]
<1>1. r.proposal = Unset /\ r.pc \in {"idle", "batch"}
  BY DEF Idle
<1> QED
  BY <1>1 DEF Done

LEMMA DoneTyped ==
    ASSUME TypeOK, NEW d \in Dispatchers, Done(d)
    PROVE  dsp' \in [Dispatchers -> Locals]
  BY DEF Done, Idle, TypeOK, Locals, Steps, Modes

\* Its work on a proposal ends with a change of that.
LEMMA LastKeeps ==
    ASSUME IInv, NEW d \in Dispatchers, Done(d), NEW p \in Proposals, policies' = policies,
           \A e \in Dispatchers \ {d} : dsp[e].proposal # p,
           \A q \in Proposals \ {p} : Same(q),
           ProposalInv(p)'
    PROVE  Upheld'
<1>1. PICK r : /\ dsp' = [dsp EXCEPT ![d] = r]
               /\ r.proposal = Unset /\ r.pc \in {"idle", "batch"}
  BY DoneRests DEF IInv
<1>2. dsp'[d] = r
  BY <1>1 DEF IInv, TypeOK, Locals, Rows
<1>3. DispatcherInv(d)'
  BY <1>1, <1>2 DEF DispatcherInv
<1> QED
  BY <1>1, <1>3, WorkKeeps

\* A dispatcher leaves: refused, unable to send, dead or out of its batch.
LEMMA RestSteps ==
    ASSUME IInv, NEW d \in Dispatchers,
           \/ ScanReady(d) \/ QuoteRefused(d) \/ PostRaises(d) \/ Crash(d)
           \/ \E p \in Proposals : RefuseNext(d, p)
    PROVE  IInv'
<1>1. CASE QuoteRefused(d) \/ PostRaises(d)
  <2>1. Upheld'
    BY <1>1, DoneRests, RestKeeps DEF QuoteRefused, PostRaises, IInv
  <2>2. TypeOK'
    BY <1>1, DoneTyped DEF QuoteRefused, PostRaises, TypeOK, IInv, Locals, Rows
  <2> QED
    BY <2>1, <2>2 DEF IInv, Upheld
<1>2. CASE Crash(d)
  <2>1. Idle.proposal = Unset /\ Idle.pc = "idle"
    BY DEF Idle
  <2>3. Upheld'
    BY <1>2, <2>1, RestKeeps DEF Crash
  <2>2. TypeOK'
    BY <1>2 DEF Crash, Idle, TypeOK, IInv, Steps, Modes, Locals, Rows
  <2> QED
    BY <2>2, <2>3 DEF IInv, Upheld
<1>3. CASE ScanReady(d)
  <2>1. PICK ready \in SUBSET Proposals :
          /\ dsp' = [dsp EXCEPT ![d] = [Idle EXCEPT !.pc = "batch", !.ready = ready]]
          /\ UNCHANGED <<halted, policies, proposal, inbox, intents, posts, today>>
    BY <1>3 DEF ScanReady
  <2>2. Upheld'
    <3> DEFINE r == [Idle EXCEPT !.pc = "batch", !.ready = ready]
    <3>1. dsp' = [dsp EXCEPT ![d] = r] /\ r.proposal = Unset /\ r.pc = "batch"
      BY <2>1 DEF Idle
    <3> HIDE DEF r
    <3> QED
      BY <2>1, <3>1, RestKeeps
  <2>3. TypeOK'
    BY <2>1 DEF Idle, TypeOK, IInv, Steps, Modes, Locals, Rows
  <2> QED
    BY <2>2, <2>3 DEF IInv, Upheld
<1>4. ASSUME NEW p \in Proposals, RefuseNext(d, p) PROVE IInv'
  <2> DEFINE rest == dsp[d].ready \ {p}
             r == IF rest = {} THEN Idle ELSE [dsp[d] EXCEPT !.ready = rest]
  <2>1. /\ dsp' = [dsp EXCEPT ![d] = r]
        /\ UNCHANGED <<halted, policies, proposal, inbox, intents, posts, today>>
        /\ dsp[d].pc = "batch"
    BY <1>4 DEF RefuseNext
  <2>2. r.proposal = Unset /\ r.pc \in {"idle", "batch"}
    BY <2>1 DEF IInv, TypeOK, DispatcherInv, Idle, Locals, Rows
  <2>3. Upheld'
    BY <2>1, <2>2, RestKeeps
  <2>4. TypeOK'
    <3>1. r \in Locals
      BY DEF IInv, TypeOK, Locals, Steps, Modes, Idle
    <3> HIDE DEF r
    <3> QED
      BY <2>1, <3>1 DEF TypeOK, IInv
  <2> QED
    BY <2>3, <2>4 DEF IInv, Upheld
<1> QED
  BY <1>1, <1>2, <1>3, <1>4
-----------------------------------------------------------------------------
\* A policy in force is one that was configured.
LEMMA TermsTyped ==
    ASSUME IInv, NEW p \in Proposals, proposal[p].state # "none"
    PROVE  /\ Terms(p) \in Policy
           /\ Terms(p).mode \in Modes
<1>1. /\ policies[BookOf[p]] \in Seq(Policies)
      /\ proposal[p].revision \in 1..Len(policies[BookOf[p]])
  BY IntentAssumption DEF IInv, TypeOK, ProposalInv, Revision, Locals, Rows
<1>2. policies[BookOf[p]][proposal[p].revision] \in Policies
  BY <1>1
<1> QED
  BY <1>2, PolicyAssumption DEF Terms, Policy

LEMMA ReserveKeeps ==
    ASSUME IInv, NEW d \in Dispatchers, NEW p \in Proposals, NEW rest \in SUBSET Proposals,
           Reserve(d, p, rest), dsp[d].pc \in {"idle", "batch"}
    PROVE  IInv'
<1> DEFINE mode == InForce(BookOf[p]).mode
           r == [pc |-> CASE mode = "shadow" -> "record" [] mode = "paper" -> "journal"
                          [] mode = "live" -> "quote",
                 ready |-> rest, proposal |-> p, mode |-> mode,
                 answer |-> IF mode = "shadow" THEN "shadow_recorded" ELSE "none"]
<1>1. /\ dsp' = [dsp EXCEPT ![d] = r]
      /\ proposal' = [proposal EXCEPT ![p].state = "unknown", ![p].day = today]
      /\ UNCHANGED <<halted, policies, inbox, intents, posts, today>>
      /\ MayReserve(d, p)
  BY DEF Reserve
<1>2. /\ proposal[p].state \in {"approved", "pending"}
      /\ proposal[p].state = "pending" => ~Terms(p).approval
      /\ mode = Terms(p).mode
  BY <1>1 DEF MayReserve, Authorised, Current, InForce, Terms
<1>3. mode \in Modes
  BY <1>2, TermsTyped
<1>4. \A e \in Dispatchers : dsp[e].proposal # p
  BY <1>2, UnsetAssumption DEF IInv, DispatcherInv, Stage
<1>5. intents[p] = "none" /\ posts[p] = <<>>
  BY <1>2 DEF IInv, ProposalInv, TypeOK, Locals, Rows
<1>6. \A q \in Proposals \ {p} : Same(q)
  BY <1>1 DEF Same, IInv, TypeOK, Locals, Rows
<1>7. /\ proposal'[p].state = "unknown" /\ proposal'[p].day = today
      /\ proposal'[p].revision = proposal[p].revision
      /\ proposal'[p].verdict = proposal[p].verdict
  BY <1>1 DEF IInv, TypeOK, Locals, Rows
<1>8. today \in Nat /\ today > 0
  BY BoundAssumption DEF IInv, TypeOK, Locals, Rows
<1>9. Terms(p)' = Terms(p)
  BY <1>1, <1>7 DEF Terms
<1>10. ProposalInv(p)'
  BY <1>1, <1>2, <1>5, <1>7, <1>8, <1>9 DEF ProposalInv, Granted, Revision, Answers, IInv
<1>11. dsp'[d] = r
  BY <1>1 DEF IInv, TypeOK, Locals, Rows
<1>12. DispatcherInv(d)'
  <2>1. /\ dsp'[d].proposal = p /\ dsp'[d].mode = mode
        /\ mode = "shadow" => dsp'[d].pc = "record" /\ dsp'[d].answer = "shadow_recorded"
        /\ mode # "shadow" => dsp'[d].pc \in {"journal", "quote"}
    BY <1>3, <1>11 DEF Modes
  <2>2. mode = policies'[BookOf[p]][proposal'[p].revision].mode
    BY <1>1, <1>2, <1>7 DEF Terms
  <2> HIDE DEF mode, r
  <2> QED
    BY <1>1, <1>5, <1>7, <2>1, <2>2 DEF DispatcherInv, Stage, Terms
<1>13. Upheld'
  <2> HIDE DEF r
  <2>1. r.proposal = p
    BY DEF r
  <2> QED
    BY <1>1, <1>4, <1>6, <1>10, <1>12, <2>1, WorkKeeps
<1>14. TypeOK'
  <2>1. r \in Locals
    BY <1>3 DEF Locals, Steps, Modes, Answers
  <2> HIDE DEF r
  <2> DEFINE row == [proposal[p] EXCEPT !.state = "unknown", !.day = today]
  <2>2. row \in Rows
    <3>1. proposal[p] \in Rows
      BY DEF IInv, TypeOK
    <3>2. today \in 0..MaxDay
      BY BoundAssumption DEF IInv, TypeOK
    <3> QED
      BY <3>1, <3>2 DEF Rows, Answers
  <2>3. proposal' = [proposal EXCEPT ![p] = row]
    BY <1>1
  <2> HIDE DEF row
  <2> QED
    BY <1>1, <2>1, <2>2, <2>3 DEF TypeOK, IInv
<1> QED
  BY <1>13, <1>14 DEF IInv, Upheld

\* A dispatcher at work on p, whom a step of its own takes to r.
LEMMA AtWork ==
    ASSUME IInv, NEW d \in Dispatchers, dsp[d].pc \notin {"idle", "batch"}
    PROVE  /\ dsp[d].proposal \in Proposals
           /\ Stage(d, dsp[d].proposal)
           /\ \A e \in Dispatchers \ {d} : dsp[e].proposal # dsp[d].proposal
  BY UnsetAssumption DEF IInv, DispatcherInv, Sole

LEMMA QuoteKeeps ==
    ASSUME IInv, NEW d \in Dispatchers, QuoteAccepted(d)
    PROVE  IInv'
<1> DEFINE r == [dsp[d] EXCEPT !.pc = "journal"]
<1>2. PICK p \in Proposals :
        /\ p = dsp[d].proposal /\ Stage(d, p)
        /\ \A e \in Dispatchers \ {d} : dsp[e].proposal # p
  BY AtWork DEF QuoteAccepted
<1>1. /\ dsp' = [dsp EXCEPT ![d] = r] /\ dsp[d].pc = "quote"
      /\ UNCHANGED <<halted, policies, proposal, inbox, intents, posts, today>>
  BY <1>2 DEF QuoteAccepted
<1>3. \A q \in Proposals : Same(q)
  BY <1>1 DEF Same
<1>4. ProposalInv(p)'
  BY <1>1, <1>2, <1>3, ProposalKept DEF IInv
<1>5. dsp'[d] = r /\ r.proposal = p /\ r.pc = "journal" /\ r.mode = dsp[d].mode
  BY <1>1, <1>2 DEF IInv, TypeOK, Locals, Rows
<1>6. DispatcherInv(d)'
  BY <1>1, <1>2, <1>5 DEF DispatcherInv, Stage, Terms
<1>7. TypeOK'
  <2>1. r \in Locals
    BY DEF IInv, TypeOK, Locals, Steps
  <2> HIDE DEF r
  <2> QED
    BY <1>1, <2>1 DEF TypeOK, IInv
<1>8. Upheld'
  <2> HIDE DEF r
  <2> QED
    BY <1>1, <1>2, <1>3, <1>4, <1>5, <1>6, WorkKeeps
<1> QED
  BY <1>7, <1>8 DEF IInv, Upheld

LEMMA JournalKeeps ==
    ASSUME IInv, NEW d \in Dispatchers, Journal(d)
    PROVE  IInv'
<1> DEFINE r == [dsp[d] EXCEPT !.pc = "post"]
<1>2. PICK p \in Proposals :
        /\ p = dsp[d].proposal /\ Stage(d, p)
        /\ \A e \in Dispatchers \ {d} : dsp[e].proposal # p
  BY AtWork DEF Journal
<1>1. dsp[d].pc = "journal" /\ UNCHANGED <<halted, policies, proposal, inbox, posts, today>>
  BY <1>2 DEF Journal
<1>3. /\ dsp' = [dsp EXCEPT ![d] = r]
      /\ intents' = [intents EXCEPT ![p] = "unknown"]
  BY <1>1, <1>2 DEF Journal, Stage
<1>4. \A q \in Proposals \ {p} : Same(q)
  BY <1>1, <1>3 DEF Same, IInv, TypeOK, Locals, Rows
<1>5. intents'[p] = "unknown"
  BY <1>2, <1>3 DEF IInv, TypeOK, Locals, Rows
<1>6. ProposalInv(p)'
  BY <1>1, <1>2, <1>5 DEF ProposalInv, Stage, Terms, Granted, Revision, IInv
<1>7. dsp'[d] = r /\ r.proposal = p /\ r.pc = "post" /\ r.mode = dsp[d].mode
  BY <1>2, <1>3 DEF IInv, TypeOK, Locals, Rows
<1>8. DispatcherInv(d)'
  BY <1>1, <1>2, <1>5, <1>7 DEF DispatcherInv, Stage, Terms
<1>9. TypeOK'
  <2>1. r \in Locals
    BY DEF IInv, TypeOK, Locals, Steps
  <2> HIDE DEF r
  <2> QED
    BY <1>1, <1>3, <2>1 DEF TypeOK, IInv
<1>10. Upheld'
  <2> HIDE DEF r
  <2> QED
    BY <1>1, <1>2, <1>3, <1>4, <1>6, <1>7, <1>8, WorkKeeps
<1> QED
  BY <1>9, <1>10 DEF IInv, Upheld

\* The request leaves under the mode of the proposal's terms, and is the first.
LEMMA PostKeeps ==
    ASSUME IInv, NEW d \in Dispatchers, NEW answered \in BOOLEAN, Post(d, answered)
    PROVE  IInv'
<1> DEFINE r == [dsp[d] EXCEPT !.pc = "answered"]
<1>2. PICK p \in Proposals :
        /\ p = dsp[d].proposal /\ Stage(d, p)
        /\ \A e \in Dispatchers \ {d} : dsp[e].proposal # p
  BY AtWork DEF Post
<1>1. /\ dsp[d].pc = "post" /\ UNCHANGED <<halted, policies, proposal, inbox, intents, today>>
      /\ posts' = [posts EXCEPT ![p] = Append(@, dsp[d].mode)]
  BY <1>2 DEF Post
<1>3. \A q \in Proposals \ {p} : Same(q)
  BY <1>1 DEF Same, IInv, TypeOK, Locals, Rows
<1>4. dsp[d].mode = Terms(p).mode /\ dsp[d].mode \in {"paper", "live"}
  BY <1>1, <1>2 DEF Stage, IInv, TypeOK, Modes, Locals, Rows
<1>5. posts'[p] = <<dsp[d].mode>> /\ posts' \in [Proposals -> Seq({"paper", "live"})]
  <2>1. posts \in [Proposals -> Seq({"paper", "live"})] /\ posts[p] = <<>>
    BY <1>1, <1>2 DEF Stage, IInv, TypeOK
  <2>2. posts' = [posts EXCEPT ![p] = Append(posts[p], dsp[d].mode)]
    BY <1>1, <1>2
  <2> QED
    BY <1>4, <2>1, <2>2
<1>6. ProposalInv(p)'
  BY <1>1, <1>2, <1>4, <1>5 DEF ProposalInv, Stage, Terms, Granted, Revision, IInv
<1>7. CASE answered
  <2>1. /\ dsp' = [dsp EXCEPT ![d] = r] /\ dsp'[d] = r
        /\ r.proposal = p /\ r.pc = "answered" /\ r.mode = dsp[d].mode
    BY <1>2, <1>7 DEF Post, IInv, TypeOK, Locals, Rows
  <2>5. posts'[p] # <<>>
    BY <1>5
  <2>2. DispatcherInv(d)'
    BY <1>1, <1>2, <2>1, <2>5 DEF DispatcherInv, Stage, Terms
  <2>3. TypeOK'
    <3>1. r \in Locals
      BY DEF IInv, TypeOK, Locals, Steps
    <3> HIDE DEF r
    <3> QED
      BY <1>1, <1>5, <2>1, <3>1 DEF TypeOK, IInv
  <2>4. Upheld'
    <3> HIDE DEF r
    <3> QED
      BY <1>1, <1>2, <1>3, <1>6, <2>1, <2>2, WorkKeeps
  <2> QED
    BY <2>3, <2>4 DEF IInv, Upheld
<1>8. CASE ~answered
  <2>1. Done(d)
    BY <1>8 DEF Post
  <2>2. Upheld'
    BY <1>1, <1>2, <1>3, <1>6, <2>1, LastKeeps
  <2>3. TypeOK'
    BY <1>1, <1>5, <2>1, DoneTyped DEF TypeOK, IInv, Locals, Rows
  <2> QED
    BY <2>2, <2>3 DEF IInv, Upheld
<1> QED
  BY <1>7, <1>8

LEMMA AnswerKeeps ==
    ASSUME IInv, NEW d \in Dispatchers, JournalAnswer(d)
    PROVE  IInv'
<1> DEFINE r == [dsp[d] EXCEPT !.pc = "record", !.answer = "response_received"]
<1>2. PICK p \in Proposals :
        /\ p = dsp[d].proposal /\ Stage(d, p)
        /\ \A e \in Dispatchers \ {d} : dsp[e].proposal # p
  BY AtWork DEF JournalAnswer
<1>1. /\ dsp[d].pc = "answered" /\ UNCHANGED <<halted, policies, proposal, inbox, posts, today>>
      /\ intents' = [intents EXCEPT ![p] = "response_received"]
      /\ dsp' = [dsp EXCEPT ![d] = r]
  BY <1>2 DEF JournalAnswer
<1>3. \A q \in Proposals \ {p} : Same(q)
  BY <1>1 DEF Same, IInv, TypeOK, Locals, Rows
<1>4. intents'[p] = "response_received"
  BY <1>1, <1>2 DEF IInv, TypeOK, Locals, Rows
<1>5. ProposalInv(p)'
  BY <1>1, <1>2, <1>4 DEF ProposalInv, Stage, Terms, Granted, Revision, IInv
<1>6. /\ dsp'[d] = r /\ r.proposal = p /\ r.pc = "record" /\ r.mode = dsp[d].mode
      /\ r.answer = "response_received"
  BY <1>1, <1>2 DEF IInv, TypeOK, Locals, Rows
<1>7. DispatcherInv(d)'
  BY <1>1, <1>2, <1>4, <1>6 DEF DispatcherInv, Stage, Terms
<1>8. TypeOK'
  <2>1. r \in Locals
    BY DEF IInv, TypeOK, Locals, Steps, Answers
  <2> HIDE DEF r
  <2> QED
    BY <1>1, <2>1 DEF TypeOK, IInv
<1>9. Upheld'
  <2> HIDE DEF r
  <2> QED
    BY <1>1, <1>2, <1>3, <1>5, <1>6, <1>7, WorkKeeps
<1> QED
  BY <1>8, <1>9 DEF IInv, Upheld

LEMMA RecordKeeps ==
    ASSUME IInv, NEW d \in Dispatchers, RecordAnswer(d)
    PROVE  IInv'
<1>2. PICK p \in Proposals :
        /\ p = dsp[d].proposal /\ Stage(d, p)
        /\ \A e \in Dispatchers \ {d} : dsp[e].proposal # p
  BY AtWork DEF RecordAnswer
<1>1. /\ dsp[d].pc = "record" /\ UNCHANGED <<halted, policies, inbox, intents, posts, today>>
      /\ proposal' = [proposal EXCEPT ![p] = [proposal[p] EXCEPT !.state = dsp[d].answer]]
      /\ Done(d)
  BY <1>2 DEF RecordAnswer
<1>3. \A q \in Proposals \ {p} : Same(q)
  BY <1>1 DEF Same, IInv, TypeOK, Locals, Rows
<1>4. /\ proposal'[p].state = dsp[d].answer
      /\ proposal'[p].revision = proposal[p].revision
      /\ proposal'[p].verdict = proposal[p].verdict
      /\ proposal'[p].day = proposal[p].day
  BY <1>1, <1>2 DEF IInv, TypeOK, Locals, Rows
<1>5. ProposalInv(p)'
  <2>1. /\ dsp[d].answer = "shadow_recorded" => intents[p] = "none"
        /\ dsp[d].answer = "response_received" => intents[p] = "response_received"
        /\ dsp[d].answer \in {"shadow_recorded", "response_received"}
    BY <1>1, <1>2 DEF Stage
  <2>2. ProposalInv(p) /\ proposal[p].state = "unknown"
    BY <1>2 DEF Stage, IInv
  <2> QED
    BY <1>1, <1>4, <2>1, <2>2 DEF ProposalInv, Terms, Granted, Revision, Answers
<1>6. dsp[d].answer \in Answers
  BY <1>1, <1>2 DEF Stage, Answers
<1>7. TypeOK'
  <2> DEFINE row == [proposal[p] EXCEPT !.state = dsp[d].answer]
  <2>1. row \in Rows
    BY <1>6 DEF IInv, TypeOK, Rows
  <2>2. proposal' = [proposal EXCEPT ![p] = row]
    BY <1>1
  <2>3. dsp' \in [Dispatchers -> Locals]
    BY <1>1, DoneTyped DEF IInv
  <2> HIDE DEF row
  <2> QED
    BY <1>1, <2>1, <2>2, <2>3 DEF TypeOK, IInv
<1>8. Upheld'
  BY <1>1, <1>2, <1>3, <1>5, LastKeeps
<1> QED
  BY <1>7, <1>8 DEF IInv, Upheld
-----------------------------------------------------------------------------
\* What no dispatcher does: the control database by itself, and time.  Proposals that
\* are still open are the only ones it changes in what the invariant is about.
LEMMA ControlKeeps ==
    ASSUME IInv, NEW p \in Proposals,
           UNCHANGED <<policies, intents, posts, dsp>>,
           \A q \in Proposals \ {p} : Same(q),
           proposal[p].state \notin Answers, ProposalInv(p)'
    PROVE  Upheld'
<1>1. \A q \in Proposals \ {p} : ProposalInv(q)'
  BY ProposalKept DEF IInv
<1>2. ASSUME NEW e \in Dispatchers PROVE DispatcherInv(e)'
  <2>1. dsp[e].proposal # p
    BY UnsetAssumption DEF IInv, DispatcherInv, Stage, Answers
  <2> QED
    BY <2>1, DispatcherKept DEF IInv
<1>3. Sole'
  BY DEF Sole, IInv
<1> QED
  BY <1>1, <1>2, <1>3 DEF Upheld

LEMMA StillKeeps ==
    ASSUME IInv, UNCHANGED <<policies, dsp>>, \A q \in Proposals : Same(q)
    PROVE  Upheld'
<1>1. \A q \in Proposals : ProposalInv(q)'
  BY ProposalKept DEF IInv
<1>2. \A e \in Dispatchers : DispatcherInv(e)'
  BY DispatcherKept DEF IInv
<1>3. Sole'
  BY DEF Sole, IInv
<1> QED
  BY <1>1, <1>2, <1>3 DEF Upheld

\* A later policy leaves the terms of what was proposed before.
LEMMA ConfigureKeeps ==
    ASSUME IInv, NEW b \in Books, NEW policy \in Policies, ConfigureBook(b, policy)
    PROVE  IInv'
<1>1. /\ policies' = [policies EXCEPT ![b] = Append(policies[b], policy)]
      /\ UNCHANGED <<halted, proposal, inbox, intents, posts, today, dsp>>
      /\ policies \in [Books -> Seq(Policies)]
  BY DEF ConfigureBook, IInv, TypeOK
<1>2. ASSUME NEW p \in Proposals, proposal[p].state # "none"
      PROVE  /\ proposal[p].revision \in 1..Len(policies'[BookOf[p]])
             /\ Terms(p)' = Terms(p)
  <2>1. proposal[p].revision \in 1..Len(policies[BookOf[p]]) /\ BookOf[p] \in Books
    BY <1>2, IntentAssumption DEF IInv, ProposalInv, Revision
  <2>2. policies'[BookOf[p]][proposal[p].revision] = policies[BookOf[p]][proposal[p].revision]
    BY <1>1, <2>1
  <2>3. /\ Len(policies'[BookOf[p]]) >= Len(policies[BookOf[p]])
        /\ policies' \in [Books -> Seq(Policies)]
    BY <1>1
  <2> QED
    BY <1>1, <2>1, <2>2, <2>3 DEF Terms
<1>3. ASSUME NEW p \in Proposals PROVE ProposalInv(p)'
  <2>1. ProposalInv(p)
    BY DEF IInv
  <2>2. CASE proposal[p].state # "none"
    BY <1>1, <1>2, <2>1, <2>2 DEF ProposalInv, Granted, Revision
  <2>3. CASE proposal[p].state = "none"
    BY <1>1, <2>1, <2>3 DEF ProposalInv, Answers
  <2> QED
    BY <2>2, <2>3
<1>4. ASSUME NEW e \in Dispatchers PROVE DispatcherInv(e)'
  <2>1. CASE dsp[e].pc \in {"idle", "batch"}
    BY <1>1, <2>1 DEF DispatcherInv, IInv
  <2>2. CASE dsp[e].pc \notin {"idle", "batch"}
    <3>1. PICK p \in Proposals : p = dsp[e].proposal /\ Stage(e, p)
      BY <2>2, AtWork
    <3>2. Terms(p)' = Terms(p)
      BY <1>2, <3>1 DEF Stage
    <3>3. policies'[BookOf[p]][proposal[p].revision].mode = dsp[e].mode
      BY <1>1, <3>1, <3>2 DEF Stage, Terms
    <3> QED
      BY <1>1, <2>2, <3>1, <3>3 DEF DispatcherInv, Stage, Terms
  <2> QED
    BY <2>1, <2>2
<1>5. \A c \in Books : Len(policies'[c]) <= MaxRevisions
  BY <1>1, BoundAssumption DEF ConfigureBook, Revision, IInv, TypeOK
<1>6. TypeOK' /\ Sole'
  BY <1>1, <1>5 DEF TypeOK, Sole, IInv
<1> QED
  BY <1>3, <1>4, <1>6 DEF IInv

LEMMA ProposeKeeps ==
    ASSUME IInv, NEW p \in Proposals, NEW fresh \in 0..QuoteLife, Propose(p, fresh)
    PROVE  IInv'
<1> DEFINE row == [NoProposal EXCEPT !.state = "pending", !.revision = Revision(BookOf[p]),
                                     !.fresh = fresh, !.life = Life]
<1>1. /\ proposal[p].state = "none" /\ Revision(BookOf[p]) > 0
      /\ p \in InForce(BookOf[p]).admits
      /\ proposal' = [proposal EXCEPT ![p] = row] /\ inbox' = Append(inbox, p)
      /\ UNCHANGED <<halted, policies, intents, posts, today, dsp>>
  BY DEF Propose
<1>2. proposal'[p] = row /\ \A q \in Proposals \ {p} : Same(q)
  BY <1>1 DEF Same, IInv, TypeOK
<1>3. row.state = "pending" /\ row.verdict = "none" /\ row.revision = Revision(BookOf[p])
  BY DEF NoProposal
<1>4. Revision(BookOf[p]) \in 0..MaxRevisions
  BY BoundAssumption, IntentAssumption DEF IInv, TypeOK, Revision
<1>5. intents[p] = "none" /\ posts[p] = <<>>
  BY <1>1 DEF IInv, ProposalInv
<1>6. ProposalInv(p)'
  <2> HIDE DEF row
  <2> QED
    BY <1>1, <1>2, <1>3, <1>4, <1>5 DEF ProposalInv, InForce, Terms, Revision, Answers
<1>7. Upheld'
  BY <1>1, <1>2, <1>6, ControlKeeps DEF Answers
<1>8. row \in Rows
  <2>1. NoProposal \in Rows
    BY BoundAssumption DEF NoProposal, Rows
  <2>2. Life \in 0..Life
    BY BoundAssumption
  <2> QED
    BY <1>4, <2>1, <2>2 DEF Rows
<1>9. TypeOK'
  <2> HIDE DEF row
  <2> QED
    BY <1>1, <1>8 DEF TypeOK, IInv
<1> QED
  BY <1>7, <1>9 DEF IInv, Upheld

LEMMA ReviewKeeps ==
    ASSUME IInv, NEW p \in Proposals, NEW verdict \in {"approved", "rejected"}, Review(p, verdict)
    PROVE  IInv'
<1> DEFINE row == [proposal[p] EXCEPT !.state = verdict, !.verdict = verdict]
<1>1. /\ proposal[p].state = "pending"
      /\ proposal' = [proposal EXCEPT ![p] = row]
      /\ UNCHANGED <<halted, policies, inbox, intents, posts, today, dsp>>
  BY DEF Review
<1>2. proposal[p] \in Rows /\ row \in Rows
  BY DEF IInv, TypeOK, Rows
<1>3. /\ proposal'[p].state = verdict /\ proposal'[p].verdict = verdict
      /\ proposal'[p].revision = proposal[p].revision
      /\ \A q \in Proposals \ {p} : Same(q)
  BY <1>1, <1>2 DEF Same, IInv, TypeOK, Rows
<1>4. ProposalInv(p)'
  BY <1>1, <1>3 DEF IInv, ProposalInv, Terms, Revision, Answers
<1>5. Upheld'
  BY <1>1, <1>3, <1>4, ControlKeeps DEF Answers
<1>6. TypeOK'
  <2> HIDE DEF row
  <2> QED
    BY <1>1, <1>2 DEF TypeOK, IInv
<1> QED
  BY <1>5, <1>6 DEF IInv, Upheld

LEMMA TimeKeeps ==
    ASSUME IInv, Tick \/ NewDay \/ \E flag \in BOOLEAN : Halt(flag)
    PROVE  IInv'
<1>1. CASE NewDay \/ \E flag \in BOOLEAN : Halt(flag)
  <2>1. \A q \in Proposals : Same(q)
    BY <1>1 DEF NewDay, Halt, Same
  <2>2. Upheld'
    BY <1>1, <2>1, StillKeeps DEF NewDay, Halt
  <2>3. TypeOK'
    BY <1>1, BoundAssumption DEF NewDay, Halt, TypeOK, IInv
  <2> QED
    BY <2>2, <2>3 DEF IInv, Upheld
<1>2. CASE Tick
  <2>1. ASSUME NEW q \in Proposals PROVE Same(q)
    BY <1>2 DEF Tick, Same, IInv, TypeOK, Rows
  <2>2. Upheld'
    BY <1>2, <2>1, StillKeeps DEF Tick
  <2>3. ASSUME NEW q \in Proposals
        PROVE  [proposal[q] EXCEPT !.fresh = Earlier(@), !.life = Earlier(@)] \in Rows
    <3>1. \A n \in Nat : \A k \in 0..n : Earlier(k) \in 0..n
      BY DEF Earlier
    <3>2. proposal[q] \in Rows /\ QuoteLife \in Nat /\ Life \in Nat
      BY BoundAssumption DEF IInv, TypeOK
    <3> QED
      BY <3>1, <3>2 DEF Rows
  <2>4. TypeOK'
    BY <1>2, <2>3 DEF Tick, TypeOK, IInv
  <2> QED
    BY <2>2, <2>4 DEF IInv, Upheld
<1> QED
  BY <1>1, <1>2
-----------------------------------------------------------------------------
LEMMA DispatcherKeeps ==
    ASSUME IInv, NEW d \in Dispatchers, DispatcherStep(d)
    PROVE  IInv'
<1>1. ASSUME NEW p \in Proposals, Dispatch(d, p) PROVE IInv'
  BY <1>1, ReserveKeeps DEF Dispatch
<1>2. ASSUME NEW p \in Proposals, DispatchNext(d, p) PROVE IInv'
  <2>1. dsp[d].ready \ {p} \in SUBSET Proposals
    BY DEF IInv, TypeOK, Locals
  <2> QED
    BY <1>2, <2>1, ReserveKeeps DEF DispatchNext
<1> QED
  BY <1>1, <1>2, RestSteps, QuoteKeeps, JournalKeeps, PostKeeps, AnswerKeeps, RecordKeeps
     DEF DispatcherStep

LEMMA NextKeeps ==
    ASSUME IInv, Next
    PROVE  IInv'
  BY DispatcherKeeps, ConfigureKeeps, ProposeKeeps, ReviewKeeps, TimeKeeps DEF Next

LEMMA StutterKeeps ==
    ASSUME IInv, UNCHANGED vars
    PROVE  IInv'
<1>1. (\A q \in Proposals : Same(q)) /\ UNCHANGED <<policies, dsp>>
  BY DEF Same, vars
<1>2. Upheld'
  BY <1>1, StillKeeps
<1>3. TypeOK'
  BY DEF TypeOK, IInv, vars
<1> QED
  BY <1>2, <1>3 DEF IInv, Upheld

LEMMA Invariance == Spec => []IInv
<1>1. IInv /\ [Next]_vars => IInv'
  BY NextKeeps, StutterKeeps
<1> QED
  BY InitInv, <1>1, PTL DEF Spec

\* Every variable keeps its type; a proposal's revision is one of its book's.
THEOREM TypeCorrect == Spec => []TypeOK
<1>1. IInv => TypeOK
  BY DEF IInv
<1> QED
  BY Invariance, <1>1, PTL

\* One submission attempt per proposal (dispatch, submit).
THEOREM AttemptSafe == Spec => []OneAttempt
<1>1. ASSUME IInv PROVE OneAttempt
  <2>1. ASSUME NEW p \in Proposals PROVE Len(posts[p]) <= 1
    <3>1. posts[p] = <<>> \/ posts[p] = <<Terms(p).mode>>
      BY <1>1 DEF IInv, ProposalInv
    <3>2. Len(<<>>) = 0 /\ Len(<<Terms(p).mode>>) = 1
      OBVIOUS
    <3>3. CASE posts[p] = <<>>
      BY <3>2, <3>3
    <3>4. CASE posts[p] = <<Terms(p).mode>>
      BY <3>2, <3>4
    <3> QED
      BY <3>1, <3>3, <3>4
  <2>2. ASSUME NEW p \in Proposals, NEW d \in Dispatchers, dsp[d].proposal = p
        PROVE  proposal[p].state = "unknown"
    BY <1>1, <2>2, UnsetAssumption DEF IInv, DispatcherInv, Stage
  <2>3. ASSUME NEW p \in Proposals, NEW d \in Dispatchers, NEW e \in Dispatchers,
               dsp[d].proposal = p, dsp[e].proposal = p
        PROVE  d = e
    BY <1>1, <2>3, UnsetAssumption DEF IInv, Sole
  <2> QED
    BY <2>1, <2>2, <2>3 DEF OneAttempt, Working
<1> QED
  BY Invariance, <1>1, PTL

\* The journal and the control database agree on every attempt (dispatch, submit).
THEOREM RecordsSafe == Spec => []RecordedBeforeSent
<1>1. ASSUME IInv PROVE RecordedBeforeSent
  BY <1>1 DEF IInv, ProposalInv, RecordedBeforeSent, Answers
<1> QED
  BY Invariance, <1>1, PTL

\* Orders leave under the authority and the mode of their own policy (dispatch).
THEOREM AuthoritySafe == Spec => []OrderAuthorised
<1>1. ASSUME IInv PROVE OrderAuthorised
  BY <1>1 DEF IInv, ProposalInv, OrderAuthorised, Granted, Answers
<1> QED
  BY Invariance, <1>1, PTL

\* A proposal that is settled is settled for good (review, dispatch): of the actions
\* that write a proposal, all but the recording of an answer need an open one, and the
\* recording finds it unknown.
Settled(p) == proposal[p].state \in {"rejected"} \cup Answers

Final(p) ==
    /\ \/ proposal'[p].state = proposal[p].state
       \/ proposal[p].state = "unknown" /\ proposal'[p].state \in Answers
    /\ proposal'[p].day = proposal[p].day
    /\ proposal'[p].revision = proposal[p].revision

LEMMA SettledStays ==
    ASSUME IInv, [Next]_vars, NEW p \in Proposals, Settled(p)
    PROVE  Final(p)
<1>1. proposal \in [Proposals -> Rows]
  BY DEF IInv, TypeOK
<1>2. CASE UNCHANGED proposal
  BY <1>2 DEF Final
<1>3. CASE Tick
  BY <1>1, <1>3 DEF Tick, Final, Rows
<1>4. ASSUME NEW q \in Proposals, NEW new, proposal' = [proposal EXCEPT ![q] = new], q # p
      PROVE  Final(p)
  BY <1>1, <1>4 DEF Final
<1>5. ASSUME NEW q \in Proposals, NEW fresh \in 0..QuoteLife, Propose(q, fresh) PROVE Final(p)
  <2>1. q # p
    BY <1>5 DEF Propose, Settled, Answers
  <2> QED
    BY <1>4, <1>5, <2>1 DEF Propose
<1>6. ASSUME NEW q \in Proposals, NEW verdict \in {"approved", "rejected"}, Review(q, verdict)
      PROVE  Final(p)
  <2>1. q # p
    BY <1>6 DEF Review, Settled, Answers
  <2>2. proposal' = [proposal EXCEPT ![q] = [@ EXCEPT !.state = verdict, !.verdict = verdict]]
    BY <1>6 DEF Review
  <2> QED
    BY <1>4, <2>1, <2>2
<1>7. ASSUME NEW d \in Dispatchers, NEW q \in Proposals, NEW rest, Reserve(d, q, rest)
      PROVE  Final(p)
  <2>1. q # p
    BY <1>7 DEF Reserve, MayReserve, Authorised, Settled, Answers
  <2> QED
    BY <1>4, <1>7, <2>1 DEF Reserve
<1>8. ASSUME NEW d \in Dispatchers, RecordAnswer(d) PROVE Final(p)
  <2>1. PICK q \in Proposals : q = dsp[d].proposal /\ Stage(d, q)
    BY <1>8, AtWork DEF RecordAnswer
  <2>2. proposal' = [proposal EXCEPT ![q].state = dsp[d].answer] /\ dsp[d].pc = "record"
    BY <1>8, <2>1 DEF RecordAnswer
  <2>3. CASE q = p
    BY <1>1, <2>1, <2>2, <2>3 DEF Final, Stage, Rows, Answers
  <2>4. CASE q # p
    BY <1>1, <2>2, <2>4 DEF Final
  <2> QED
    BY <2>3, <2>4
<1>9. ASSUME NEW d \in Dispatchers, DispatcherStep(d) PROVE Final(p)
  BY <1>2, <1>7, <1>8, <1>9
     DEF DispatcherStep, Dispatch, DispatchNext, RefuseNext, ScanReady, QuoteAccepted, QuoteRefused,
         Journal, Post, PostRaises, JournalAnswer, Crash
<1> QED
  BY <1>2, <1>3, <1>5, <1>6, <1>9 DEF Next, ConfigureBook, Halt, NewDay, vars

THEOREM SettledSafe == Spec => NothingReopened
<1> DEFINE Stays == \A p \in Proposals : Settled(p) => Final(p)
<1>1. IInv /\ [Next]_vars => [Stays]_vars
  BY SettledStays
<1>2. NothingReopened <=> [][Stays]_vars
  BY DEF NothingReopened, Settled, Final
<1> QED
  BY Invariance, <1>1, <1>2, PTL DEF Spec

-----------------------------------------------------------------------------
(* The daily cap. *)

\* What counts against the policy of p on p's day.
Under(p) ==
    {q \in Proposals : /\ BookOf[q] = BookOf[p]
                       /\ proposal[q].day = proposal[p].day
                       /\ proposal[q].revision <= proposal[p].revision}

\* Only reserved proposals count, and there are finitely many of them.
CapInv ==
    /\ \A p \in Proposals : proposal[p].state \notin Answers => proposal[p].day = 0
    /\ IsFiniteSet({q \in Proposals : proposal[q].day > 0})
    /\ \A p \in Proposals : proposal[p].day > 0 => Sum(Notional, Under(p)) <= Terms(p).daily

LEMMA UnderFinite ==
    ASSUME TypeOK, IsFiniteSet({q \in Proposals : proposal[q].day > 0}),
           NEW n \in Nat, n > 0, NEW S, S \subseteq {q \in Proposals : proposal[q].day = n}
    PROVE  IsFiniteSet(S) /\ Sum(Notional, S) \in Nat
<1>1. S \subseteq {q \in Proposals : proposal[q].day > 0}
  OBVIOUS
<1>2. IsFiniteSet(S)
  BY <1>1, FS_Subset
<1>3. \A q \in S : Notional[q] \in Int /\ Notional[q] >= 0
  BY IntentAssumption
<1>4. QED
  BY <1>2, <1>3, SumType

\* Only a reservation gives a proposal a day; then the sums do not change.
LEMMA CapStill ==
    ASSUME CapInv,
           \A q \in Proposals :
               /\ proposal'[q].day = proposal[q].day
               /\ proposal[q].day > 0 =>
                    /\ proposal'[q].revision = proposal[q].revision
                    /\ Terms(q)' = Terms(q)
               /\ proposal'[q].state \notin Answers => proposal[q].day = 0
    PROVE  CapInv'
<1>1. {q \in Proposals : proposal'[q].day > 0} = {q \in Proposals : proposal[q].day > 0}
  OBVIOUS
<1>2. ASSUME NEW p \in Proposals, proposal'[p].day > 0
      PROVE  Sum(Notional, Under(p)') <= Terms(p)'.daily
  <2>1. Under(p)' = Under(p)
    BY <1>2 DEF Under
  <2>2. Sum(Notional, Under(p)) <= Terms(p).daily /\ Terms(p)' = Terms(p)
    BY <1>2 DEF CapInv
  <2>3. QED
    BY <2>1, <2>2
<1>3. \A p \in Proposals : proposal'[p].state \notin Answers => proposal'[p].day = 0
  OBVIOUS
<1>4. IsFiniteSet({q \in Proposals : proposal'[q].day > 0})
  BY <1>1 DEF CapInv
<1>5. QED
  BY <1>2, <1>3, <1>4 DEF CapInv

\* A reservation that its book can afford keeps to the cap of every policy that counts it:
\* its own is in force, so no proposal of the book has a later one.
LEMMA CapReserve ==
    ASSUME IInv, CapInv, NEW d \in Dispatchers, NEW p \in Proposals, NEW rest,
           Reserve(d, p, rest)
    PROVE  CapInv'
<1> DEFINE b == BookOf[p]
           spent == {q \in Proposals : BookOf[q] = b /\ proposal[q].day = today}
<1>1. /\ proposal[p].state \in {"approved", "pending"} /\ policies' = policies
      /\ proposal' = [proposal EXCEPT ![p].state = "unknown", ![p].day = today]
      /\ proposal[p].revision = Revision(b) /\ UnderCap(p)
  BY DEF Reserve, MayReserve, Authorised, Current
<1>2. /\ proposal \in [Proposals -> Rows] /\ today \in Nat /\ today > 0
      /\ Notional[p] \in Nat
  BY BoundAssumption, IntentAssumption DEF IInv, TypeOK
<1>3. /\ \A q \in Proposals : proposal'[q].revision = proposal[q].revision
      /\ \A q \in Proposals \ {p} : proposal'[q] = proposal[q]
      /\ proposal'[p].day = today /\ proposal'[p].state = "unknown"
  BY <1>1, <1>2 DEF Rows
<1>4. proposal[p].day = 0 /\ p \notin spent
  BY <1>1, <1>2 DEF CapInv, Answers
<1>5. IsFiniteSet({q \in Proposals : proposal'[q].day > 0})
  <2>1. {q \in Proposals : proposal'[q].day > 0}
          = {q \in Proposals : proposal[q].day > 0} \cup {p}
    BY <1>2, <1>3
  <2>2. QED
    BY <2>1, FS_AddElement DEF CapInv
<1>6. /\ IsFiniteSet(spent) /\ Sum(Notional, spent) \in Nat
      /\ Sum(Notional, spent \cup {p}) = Sum(Notional, spent) + Notional[p]
  <2>1. IsFiniteSet(spent) /\ Sum(Notional, spent) \in Nat
    BY <1>2, UnderFinite DEF CapInv, IInv
  <2>2. \A q \in spent : Notional[q] \in Int
    BY IntentAssumption
  <2> HIDE DEF spent
  <2>3. QED
    BY <1>2, <1>4, <2>1, <2>2, SumAdd
<1>7. Sum(Notional, spent \cup {p}) <= InForce(b).daily
  <2>1. SpentToday(b) = Sum(Notional, spent)
    BY DEF SpentToday, Sum
  <2>2. QED
    BY <1>1, <1>6, <2>1 DEF UnderCap
<1>8. ASSUME NEW q \in Proposals, proposal'[q].day > 0
      PROVE  Sum(Notional, Under(q)') <= Terms(q)'.daily
  <2>1. Terms(q)' = Terms(q)
    BY <1>1, <1>3 DEF Terms
  <2>2. CASE p \notin Under(q)'
    <3>1. q # p
      BY <1>2, <1>3, <2>2 DEF Under, Rows
    <3>2. Under(q)' = Under(q)
      <4>1. \A r \in Proposals : r \in Under(q)' <=> r \in Under(q)
        BY <1>2, <1>3, <1>4, <1>8, <2>2, <3>1 DEF Under
      <4>2. QED
        BY <4>1 DEF Under
    <3>3. proposal[q].day > 0
      BY <1>3, <1>8, <3>1
    <3>4. Sum(Notional, Under(q)) <= Terms(q).daily
      BY <3>3 DEF CapInv
    <3>5. QED
      BY <2>1, <3>2, <3>4
  <2>3. CASE p \in Under(q)'
    <3>1. BookOf[q] = b /\ proposal'[q].day = today /\ proposal[p].revision <= proposal[q].revision
      BY <1>3, <2>3 DEF Under
    <3>2. proposal[q].revision = Revision(b)
      <4>1. proposal[q].state # "none"
        BY <1>1, <1>2, <1>3, <1>8 DEF CapInv, Answers
      <4>2. proposal[q].revision \in 1..Revision(b)
        BY <3>1, <4>1 DEF IInv, ProposalInv
      <4>3. QED
        BY <1>1, <1>2, <3>1, <4>2 DEF Revision, Rows
    <3>3. Terms(q) = InForce(b)
      BY <3>1, <3>2 DEF Terms, InForce
    <3>4. Under(q)' \subseteq spent \cup {p}
      BY <1>3, <3>1 DEF Under
    <3>5. Sum(Notional, Under(q)') <= Sum(Notional, spent \cup {p})
      <4>1. IsFiniteSet(spent \cup {p}) /\ \A q1 \in spent \cup {p} : Notional[q1] \in Nat
        BY <1>6, FS_AddElement, IntentAssumption
      <4> HIDE DEF spent
      <4>2. QED
        BY <3>4, <4>1, SumSubset
    <3>6. Sum(Notional, Under(q)') \in Int /\ Sum(Notional, spent \cup {p}) \in Int
      <4>1. IsFiniteSet(Under(q)')
        BY <1>6, <3>4, FS_AddElement, FS_Subset
      <4>2. \A q1 \in Under(q)' : Notional[q1] \in Int
        BY IntentAssumption DEF Under
      <4>3. Sum(Notional, Under(q)') \in Int
        BY <4>1, <4>2, SumType
      <4>4. QED
        BY <1>2, <1>6, <4>3
    <3>7. InForce(b).daily \in Int
      <4>1. proposal[q].state # "none"
        BY <1>1, <1>2, <1>3, <1>8 DEF CapInv, Answers
      <4>2. Terms(q) \in Policy
        BY <4>1, TermsTyped
      <4>3. QED
        BY <3>3, <4>2 DEF Policy
    <3>8. QED
      BY <1>7, <2>1, <3>3, <3>5, <3>6, <3>7
  <2>4. QED
    BY <2>2, <2>3
<1>9. QED
  BY <1>3, <1>4, <1>5, <1>8 DEF CapInv, Answers

\* Where policies stay and no row's day or revision changes, no sum or cap does.
LEMMA CapRows ==
    ASSUME CapInv, policies' = policies,
           \A q \in Proposals :
               /\ proposal'[q].day = proposal[q].day
               /\ proposal[q].day > 0 => proposal'[q].revision = proposal[q].revision
               /\ proposal'[q].state \notin Answers => proposal[q].day = 0
    PROVE  CapInv'
<1>1. \A q \in Proposals : proposal[q].day > 0 => Terms(q)' = Terms(q)
  BY DEF Terms
<1>2. QED
  BY <1>1, CapStill

LEMMA CapConfigure ==
    ASSUME IInv, CapInv, NEW b \in Books, NEW policy \in Policies, ConfigureBook(b, policy)
    PROVE  CapInv'
<1>1. /\ policies' = [policies EXCEPT ![b] = Append(policies[b], policy)]
      /\ proposal' = proposal /\ policies \in [Books -> Seq(Policies)]
  BY DEF ConfigureBook, IInv, TypeOK
<1>2. ASSUME NEW q \in Proposals, proposal[q].day > 0 PROVE Terms(q)' = Terms(q)
  <2>1. proposal[q].state # "none"
    BY <1>2 DEF CapInv, Answers
  <2>2. proposal[q].revision \in 1..Len(policies[BookOf[q]]) /\ BookOf[q] \in Books
    BY <2>1, IntentAssumption DEF IInv, ProposalInv, Revision
  <2>3. policies'[BookOf[q]][proposal[q].revision] = policies[BookOf[q]][proposal[q].revision]
    BY <1>1, <2>2
  <2>4. QED
    BY <1>1, <2>3 DEF Terms
<1>3. \A q \in Proposals : proposal[q].state \notin Answers => proposal[q].day = 0
  BY DEF CapInv
<1>4. QED
  BY <1>1, <1>2, <1>3, CapStill

\* What a dispatcher does after its reservation, and what it does without one.
LEMMA CapDispatch ==
    ASSUME IInv, CapInv, NEW d \in Dispatchers, DispatcherStep(d)
    PROVE  CapInv'
<1>1. \A q \in Proposals : proposal[q].state \notin Answers => proposal[q].day = 0
  BY DEF CapInv
<1>2. CASE UNCHANGED <<policies, proposal>>
  BY <1>1, <1>2, CapRows
<1>3. ASSUME NEW p \in Proposals, NEW rest, Reserve(d, p, rest) PROVE CapInv'
  BY <1>3, CapReserve
<1>4. CASE RecordAnswer(d)
  <2>1. PICK p \in Proposals : p = dsp[d].proposal /\ Stage(d, p)
    BY <1>4, AtWork DEF RecordAnswer
  <2>2. /\ proposal' = [proposal EXCEPT ![p].state = dsp[d].answer] /\ policies' = policies
        /\ dsp[d].answer \in Answers /\ proposal \in [Proposals -> Rows]
    BY <1>4, <2>1 DEF RecordAnswer, Stage, Answers, IInv, TypeOK
  <2>3. \A q \in Proposals :
            /\ proposal'[q].day = proposal[q].day
            /\ proposal'[q].revision = proposal[q].revision
            /\ proposal'[q].state \in {proposal[q].state} \cup Answers
    BY <2>2 DEF Rows
  <2>4. \A q \in Proposals : proposal'[q].state \notin Answers => proposal[q].day = 0
    BY <1>1, <2>3
  <2>5. QED
    BY <2>2, <2>3, <2>4, CapRows
<1>5. QED
  BY <1>2, <1>3, <1>4
     DEF DispatcherStep, Dispatch, DispatchNext, RefuseNext, ScanReady, QuoteAccepted, QuoteRefused,
         Journal, Post, PostRaises, JournalAnswer, Crash

LEMMA CapStep ==
    ASSUME IInv, CapInv, [Next]_vars
    PROVE  CapInv'
<1>1. /\ proposal \in [Proposals -> Rows]
      /\ \A q \in Proposals : proposal[q].state \notin Answers => proposal[q].day = 0
  BY DEF CapInv, IInv, TypeOK
<1>2. CASE UNCHANGED <<policies, proposal>>
  BY <1>1, <1>2, CapRows
<1>3. ASSUME NEW p \in Proposals, NEW new, proposal' = [proposal EXCEPT ![p] = new],
             policies' = policies, proposal[p].state \notin Answers, new.day = 0
      PROVE  CapInv'
  <2>1. \A q \in Proposals :
            /\ proposal'[q].day = proposal[q].day
            /\ proposal[q].day > 0 => proposal'[q].revision = proposal[q].revision
            /\ proposal'[q].state \notin Answers => proposal[q].day = 0
    BY <1>1, <1>3
  <2>2. QED
    BY <1>3, <2>1, CapRows
<1>4. ASSUME NEW p \in Proposals, NEW fresh \in 0..QuoteLife, Propose(p, fresh) PROVE CapInv'
  <2>1. PICK new : new = [NoProposal EXCEPT !.state = "pending", !.revision = Revision(BookOf[p]),
                                            !.fresh = fresh, !.life = Life]
    OBVIOUS
  <2>2. new.day = 0
    BY <2>1 DEF NoProposal
  <2>3. /\ proposal' = [proposal EXCEPT ![p] = new] /\ policies' = policies
        /\ proposal[p].state \notin Answers
    BY <1>4, <2>1 DEF Propose, Answers
  <2>4. QED
    BY <1>3, <2>2, <2>3
<1>5. ASSUME NEW p \in Proposals, NEW verdict \in {"approved", "rejected"}, Review(p, verdict)
      PROVE  CapInv'
  <2>1. PICK new : new = [proposal[p] EXCEPT !.state = verdict, !.verdict = verdict]
    OBVIOUS
  <2>2. /\ proposal' = [proposal EXCEPT ![p] = new] /\ policies' = policies
        /\ proposal[p].state \notin Answers
    BY <1>5, <2>1 DEF Review, Answers
  <2>3. new.day = 0
    BY <1>1, <2>1, <2>2 DEF Rows
  <2>4. QED
    BY <1>3, <2>2, <2>3
<1>6. CASE Tick
  <2>1. \A q \in Proposals :
            /\ proposal'[q].day = proposal[q].day
            /\ proposal'[q].revision = proposal[q].revision
            /\ proposal'[q].state = proposal[q].state
    BY <1>1, <1>6 DEF Tick, Rows
  <2>2. policies' = policies
    BY <1>6 DEF Tick
  <2>3. QED
    BY <1>1, <2>1, <2>2, CapRows
<1>7. QED
  BY <1>2, <1>4, <1>5, <1>6, CapConfigure, CapDispatch DEF Next, Halt, NewDay, vars

\* What a book reserves in a day keeps to the cap of every policy it was reserved under,
\* however many dispatchers and batches compete for it (dispatch).
THEOREM CapSafe == Spec => []DailyCapRespected
<1>1. Init => CapInv
  <2>1. ASSUME Init PROVE {q \in Proposals : proposal[q].day > 0} = {}
    BY <2>1 DEF Init, NoProposal
  <2>2. ASSUME Init PROVE \A p \in Proposals : proposal[p].day = 0
    BY <2>2 DEF Init, NoProposal
  <2>3. QED
    BY <2>1, <2>2, FS_EmptySet DEF CapInv
<1>2. CapInv => DailyCapRespected
  BY DEF CapInv, DailyCapRespected, Under, Sum
<1>3. IInv /\ CapInv /\ [Next]_vars => CapInv'
  BY CapStep
<1>4. QED
  BY Invariance, <1>1, <1>2, <1>3, PTL DEF Spec
=============================================================================
