------------------------------ MODULE Backtest ------------------------------
(***************************************************************************)
(* BacktestEngine.run (backtest/engine.py): what is asked is judged, then  *)
(* bar by bar the return of the executable prices is earned, the cost of   *)
(* the turnover is taken off and the positions are laid down; the metrics  *)
(* and the episodes of drawdown are read from the curve.                   *)
(*                                                                         *)
(* Numbers are exact fractions, the capital at the start is 1.             *)
(***************************************************************************)
EXTENDS Integers, Sequences, FiniteSetsExt

Series == INSTANCE SequencesExt

CONSTANTS
    Bars,          \* how many there are
    Markets,       \* price series: of one asset, maybe with opens, or of several
    Books,         \* weights, counted in units
    Unit,          \* how many units are a weight of 1
    CostRates,     \* costs, in parts of CostUnit
    CostUnit,
    MaxLeverage,   \* the cap of the positions
    WindowShort,   \* of the signal
    WindowLong,
    Asks           \* what callers say of the dates

ASSUME BacktestAssumption ==
    /\ Bars \in Nat \ {0} /\ Unit \in Nat \ {0} /\ CostUnit \in Nat \ {0}
    /\ CostRates \subseteq Nat /\ MaxLeverage \in Nat \ {0}
    /\ WindowShort \in Nat \ {0} /\ WindowLong \in Nat \ {0}
    /\ \A b \in Books : Len(b) > 0

VARIABLES
    asked,      \* what the caller says: dates, PIT or not, and whether the data is clean
    market,     \* close[bar][asset]; opens by bar, or none
    book,       \* the weights
    cost,       \* the cost of a turnover of 1
    backtest,   \* its step; whether the result is flagged
    curve,      \* the equity of each bar so far
    free,       \* what it would be without costs
    positions   \* the positions of each bar so far

backtestVars == <<asked, market, book, cost, backtest, curve, free, positions>>

-----------------------------------------------------------------------------
(* Fractions. *)
Gcd[p \in Nat \X Nat] == IF p[2] = 0 THEN p[1] ELSE Gcd[<<p[2], p[1] % p[2]>>]

Abs(n) == IF n < 0 THEN -n ELSE n

Sign(n) == IF n < 0 THEN -1 ELSE 1

Frac(n, d) == LET g == Gcd[<<Abs(n), Abs(d)>>] IN <<(Sign(d) * n) \div g, Abs(d) \div g>>

Zero == <<0, 1>>

One == <<1, 1>>

Plus(a, b) ==
    LET g == Gcd[<<a[2], b[2]>>]
    IN  Frac(a[1] * (b[2] \div g) + b[1] * (a[2] \div g), a[2] * (b[2] \div g))

Times(a, b) == LET c == Frac(a[1], b[2])  d == Frac(b[1], a[2]) IN <<c[1] * d[1], c[2] * d[2]>>

Over(a, b) == Times(a, Frac(b[2], b[1]))

Minus(a, b) == Plus(a, <<-b[1], b[2]>>)

Size(a) == <<Abs(a[1]), a[2]>>

Less(a, b) == Minus(a, b)[1] < 0

AtMost(a, b) == ~Less(b, a)

Total(s) == Series!FoldLeft(Plus, Zero, s)

Change(from, to) == Minus(Frac(to, from), One)

-----------------------------------------------------------------------------
(* The weights. *)
Net == Series!FoldLeft(LAMBDA sum, w : sum + w, 0, book)

Gross == Series!FoldLeft(LAMBDA sum, w : sum + Abs(w), 0, book)

Weight(k) == Frac(book[k], Unit)

IsMulti == Len(market.close[1]) > 1

(* The columns of the positions: the weights of several assets that have an asset, or all *)
(* weights, which then share one asset.                                                   *)
Columns == IF IsMulti THEN 1 .. Min({Len(book), Len(market.close[1])}) ELSE DOMAIN book

Assets == DOMAIN market.close[1]

Asset(k) == IF IsMulti THEN k ELSE 1

(* A bug: what is decided at a bar is executed at its own close. *)
ExecutableAtOnce(i, a) == market.close[i][a]

(* _align: what is decided at a bar is executed at the next open, or else close; at the *)
(* last bar at its own close.                                                           *)
Executable(i, a) ==
    IF i = Bars THEN market.close[i][a]
    ELSE IF ~IsMulti /\ market.open # <<>> THEN market.open[i + 1]
    ELSE market.close[i + 1][a]

(* The return of the portfolio between two prices of each asset: a single asset is scaled *)
(* by the gross exposure, of several each by its weight.                                  *)
Return(change) ==
    IF IsMulti THEN Total([k \in Columns |-> Times(Weight(k), change[k])])
    ELSE Times(Frac(Gross, Unit), change[1])

DailyReturn(i) ==
    IF i = 1 THEN Zero
    ELSE Return([a \in Assets |-> Change(market.close[i - 1][a], market.close[i][a])])

AlignedReturn(i) ==
    IF i = 1 THEN DailyReturn(i)
    ELSE Return([a \in Assets |-> Change(Executable(i - 1, a), Executable(i, a))])

(* _compute_turnover_rate, from what the book would be worth at the closes: in which its *)
(* columns are held by weight.  The first bar pays for the whole book.                   *)
GrossEquity(i) == Series!FoldLeft(LAMBDA worth, j : Times(worth, Plus(One, DailyReturn(j))), One, [j \in 1 .. i |-> j])

WeightHeld == Total([k \in Columns |-> Size(Weight(k))])

TurnoverRate(i) ==
    LET now == GrossEquity(i)
        base == IF now = Zero THEN One ELSE now
    IN  IF i = 1 THEN Frac(Gross, Unit)
        ELSE Over(Times(WeightHeld, Size(Minus(now, GrossEquity(i - 1)))), base)

CostDrag(i) == Times(Frac(cost, CostUnit), TurnoverRate(i))

(* _execute_bars: an exposure above the capital is scaled down to it.  The capital is the *)
(* equity times the cap; that of a bankrupt is the one at the start.                      *)
Executed(equity) ==
    LET exposure == IF Less(Zero, equity) THEN WeightHeld ELSE Times(WeightHeld, Size(equity))
        capital == IF Less(Zero, equity) THEN <<MaxLeverage, 1>> ELSE One
        scale == IF Less(capital, exposure) THEN Over(capital, exposure) ELSE One
    IN  [k \in Columns |-> Times(equity, Times(Weight(k), scale))]

-----------------------------------------------------------------------------
BacktestInit ==
    /\ asked \in Asks
    /\ market \in Markets /\ book \in Books /\ cost \in CostRates
    /\ backtest = [step |-> "asked", nonPit |-> FALSE]
    /\ curve = <<>> /\ free = <<>> /\ positions = <<>>

Refused(a) ==
    \/ ~a.clean
    \/ (a.skip /\ ~a.ack)
    \/ (~a.skip /\ ((~a.dated /\ ~a.synthetic) \/ a.weightsOn = "later"))

(* The guards of run and validate.  Weights without a date count as those of the day of *)
(* the prices; that day is the first of the series if the data is synthetic.            *)
Judge ==
    /\ backtest.step = "asked"
    /\ backtest' = IF Refused(asked) THEN [backtest EXCEPT !.step = "refused"]
                   ELSE [step |-> IF asked.signal THEN "signal" ELSE "bars", nonPit |-> asked.skip]
    /\ UNCHANGED <<asked, market, book, cost, curve, free, positions>>

(* Signal.generate: a moving average of the last closes above a longer one is bought. *)
Average(window) ==
    Frac(Series!FoldLeft(LAMBDA sum, i : sum + market.close[i][1], 0, [j \in 1 .. window |-> Bars - window + j]), window)

Generate ==
    LET assets == Len(market.close[1])
        bull == Bars < WindowLong \/ Less(Average(WindowLong), Average(WindowShort))
    IN  /\ backtest.step = "signal"
        /\ book' = [a \in 1 .. assets |-> IF bull THEN Unit \div assets ELSE 0]
        /\ backtest' = [backtest EXCEPT !.step = "bars"]
        /\ UNCHANGED <<asked, market, cost, curve, free, positions>>

(* One pass of the loop. *)
Worth(series) == IF series = <<>> THEN One ELSE series[Len(series)]

Bar ==
    LET i == Len(curve) + 1
        earned == Plus(One, AlignedReturn(i))
        equity == Times(Worth(curve), Minus(earned, CostDrag(i)))
    IN  /\ backtest.step = "bars" /\ i <= Bars
        /\ curve' = Append(curve, equity)
        /\ free' = Append(free, Times(Worth(free), earned))
        /\ positions' = Append(positions, Executed(equity))
        /\ backtest' = IF i = Bars THEN [backtest EXCEPT !.step = "done"] ELSE backtest
        /\ UNCHANGED <<asked, market, book, cost>>

BacktestNext == Judge \/ Generate \/ Bar

-----------------------------------------------------------------------------
(* max_drawdown *)
Peak(i) == LET best == CHOOSE j \in 1 .. i : \A m \in 1 .. i : AtMost(curve[m], curve[j]) IN curve[best]

Drawdown(i) == Minus(Over(curve[i], Peak(i)), One)

MaxDrawdown ==
    LET worst == CHOOSE i \in 1 .. Bars : \A j \in 1 .. Bars : AtMost(Drawdown(i), Drawdown(j))
    IN  Drawdown(worst)

(* _drawdown_episodes_html: the first bar below the peak, the lowest, and the first that *)
(* is not below it again, or the last bar.                                               *)
NoEpisode == [start |-> 0, trough |-> 0, end |-> 0]

EpisodeStep(found, i) ==
    LET now == found.now
    IN  IF Less(Drawdown(i), Zero)
        THEN [found EXCEPT !.now =
                [start |-> IF now.start = 0 THEN i ELSE now.start, end |-> 0,
                 trough |-> IF now.start = 0 \/ Less(curve[i], curve[now.trough]) THEN i ELSE now.trough]]
        ELSE IF now.start # 0
        THEN [past |-> Append(found.past, [now EXCEPT !.end = i]), now |-> NoEpisode]
        ELSE found

Episodes ==
    LET found == Series!FoldLeft(EpisodeStep, [past |-> <<>>, now |-> NoEpisode], [i \in 1 .. Bars |-> i])
    IN  found.past \o (IF found.now.start = 0 THEN <<>> ELSE <<[found.now EXCEPT !.end = Bars]>>)

-----------------------------------------------------------------------------
Done == backtest.step = "done"

Long == \A k \in DOMAIN book : book[k] >= 0

BacktestType ==
    /\ backtest.step \in {"asked", "refused", "signal", "bars", "done"}
    /\ Len(curve) = Len(positions) /\ Len(free) = Len(curve) /\ Len(curve) <= Bars
    /\ \A i \in DOMAIN curve : curve[i][2] > 0 /\ DOMAIN positions[i] = Columns

(* A result that is not flagged comes from weights that are stated to be of the day of *)
(* the prices or before, or of which nothing is stated.                                *)
UnflaggedIsPointInTime ==
    backtest.step \in {"bars", "done"} =>
        asked.clean /\ (asked.weightsOn = "later" => backtest.nonPit) /\ (backtest.nonPit => asked.ack)

(* Self-financing: without costs each change of the equity is what the reported positions *)
(* have earned since the bar before, unless they were capped.  Of a single asset it holds *)
(* for long books: the positions of a short one are net, its return is gross.             *)
EarnsWhatItHolds ==
    (IsMulti \/ Long) /\ Gross <= MaxLeverage * Unit =>
        \A i \in DOMAIN free \ {1} :
            cost = 0 =>
                Minus(curve[i], curve[i - 1]) =
                    Total([k \in Columns |-> Times(positions[i - 1][k],
                                                   Change(Executable(i - 1, Asset(k)), Executable(i, Asset(k))))])

(* Whoever is fully invested in one asset has, without costs, bought at the first price *)
(* after the first bar and sold at the last close: no price is used before its time.    *)
HoldsFromSecondBar ==
    LET first == IF market.open # <<>> THEN market.open[2] ELSE market.close[2][1]
    IN  Done /\ ~IsMulti /\ Long /\ Net = Unit /\ cost = 0 /\ Bars > 1 =>
            curve[Bars] = Frac(market.close[Bars][1], first)

(* Costs only take: of a long book without leverage they are paid in full on the way in. *)
CostsOnlyTake ==
    Long /\ Gross <= Unit =>
        \A i \in DOMAIN curve :
            /\ AtMost(curve[i], free[i])
            /\ cost > 0 /\ Gross > 0 => Less(curve[i], free[i])

(* The exposure keeps within the cap, and an empty book earns and pays nothing. *)
ExposureIsCapped ==
    \A i \in DOMAIN curve :
        /\ Less(Zero, curve[i]) =>
             AtMost(Total([k \in Columns |-> Size(positions[i][k])]), Times(curve[i], <<MaxLeverage, 1>>))
        /\ Gross = 0 => curve[i] = One

(* The episodes of the tearsheet are the times under water, one by one, and the deepest *)
(* of them is the maximum drawdown of the metrics.                                      *)
EpisodesAreRight ==
    Done =>
        LET e == Episodes
            Covers(k, i) == e[k].start <= i /\ (i < e[k].end \/ (i = Bars /\ e[k].end = Bars))
        IN  /\ \A i \in 1 .. Bars : Less(Drawdown(i), Zero) => \E k \in DOMAIN e : Covers(k, i)
            /\ \A k \in DOMAIN e :
                 /\ e[k].start <= e[k].trough /\ e[k].trough <= e[k].end
                 /\ \A i \in e[k].start .. e[k].end :
                      Covers(k, i) => AtMost(Drawdown(e[k].trough), Drawdown(i))
                 /\ k + 1 \in DOMAIN e => e[k].end < e[k + 1].start
            /\ e # <<>> => \E k \in DOMAIN e : Drawdown(e[k].trough) = MaxDrawdown
            /\ e = <<>> <=> MaxDrawdown = Zero

(* BacktestInv: what the reader of a backtest can rely on. *)
BacktestInv ==
    /\ BacktestType /\ UnflaggedIsPointInTime
    /\ EarnsWhatItHolds /\ HoldsFromSecondBar /\ CostsOnlyTake /\ ExposureIsCapped
    /\ EpisodesAreRight
=============================================================================
