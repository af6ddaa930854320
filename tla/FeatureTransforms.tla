------------------------- MODULE FeatureTransforms -------------------------
(***************************************************************************)
(* The SQL transformations behind macro_loader.macro_features, by what a   *)
(* value depends on: a transformation maps every day to the set of days    *)
(* whose rows enter its value there, {} where SQL yields NULL.  A table    *)
(* maps some of the days to rows; ordered by day they are the rows that    *)
(* window functions and recurrences run over.  One window length, one lag  *)
(* and two periods stand for the catalogued ones.                          *)
(***************************************************************************)
EXTENDS Integers, FiniteSets, FiniteSetsExt

CONSTANTS LastDay,    \* bound: days of the calendar
          Window,     \* rows of a rolling window
          Far,        \* the lag of slopes and deltas, in rows
          Fast, Slow, \* periods of the price EMAs
          Signal,     \* period of the MACD signal EMA
          Wilder      \* period of the RSI averages

\* The recurrences are seeded by at least two rows, and the lags of the
\* catalogue are shorter than the periods they are applied to.
ASSUME TransformAssumption ==
    /\ {LastDay, Window, Far, Fast} \subseteq Nat \ {0}
    /\ {Slow, Signal, Wilder} \subseteq Nat
    /\ 1 < Fast /\ Fast < Slow
    /\ Far < Slow /\ Far < Signal + Slow - 1 /\ 1 < Signal
    /\ 1 < Wilder

Days == 1 .. LastDay

\* A row has a level (the close of a bar) and, in an OHLC table, the other
\* three fields, all of them or none.  0 stands for the levels that are not
\* positive, Null for SQL's NULL.
Null    == -1
NullRow == [level |-> Null, bar |-> FALSE]

Rows(t)   == DOMAIN t
Levels(t) == {d \in Rows(t) : t[d].level # Null}

\* The non-NULL observations of the series: its source CTE.
Source(t)   == Levels(t)
Positive(t) == {d \in Source(t) : t[d].level > 0}

\* What a formula yields: a value of these days, or NULL.
Of(defined, days) == IF defined THEN days ELSE {}

\* The last n rows of S up to and with day d.
Frame(S, d, n) ==
    {e \in S : e <= d /\ Cardinality({f \in S : e < f /\ f <= d}) < n}

Before(S, d) == {e \in S : e < d}

\* Variant with a bug: the lag looks the wrong way.
LagAhead(S, d, n) ==
    LET after == {e \in S : e > d /\ Cardinality({f \in S : d < f /\ f <= e}) <= n}
    IN  IF Cardinality(after) < n THEN 0 ELSE Max(after)

\* lag(x, n): the row n rows before day d in S, 0 when there is none.
Lag(S, d, n) ==
    LET frame == Frame(Before(S, d), d, n)
    IN  IF Cardinality(frame) < n THEN 0 ELSE Min(frame)

Rolling(S, n) ==
    [d \in Days |-> LET frame == Frame(S, d, n)
                    IN  Of(d \in S /\ Cardinality(frame) = n, frame)]

Varies(f, S) == \E d, e \in S : f[d] # f[e]

LevelOf(t) == [d \in Source(t) |-> t[d].level]

\* The days a transformation is not NULL, and what a set of its values
\* depends on.
Defined(x)  == {d \in Days : x[d] # {}}
Basis(x, S) == UNION {x[d] : d \in S}

\* Two values n rows of S apart.
Difference(x, S, n) ==
    [d \in Days |->
       LET e == Lag(S, d, n)
       IN  Of(d \in S /\ x[d] # {} /\ e # 0 /\ x[e] # {},
              x[d] \cup (IF e = 0 THEN {} ELSE x[e]))]

(***************************************************************************)
(* Changes, returns and rolling statistics.                                *)
(***************************************************************************)
\* level - lag_1, of any sign.
Change(t) ==
    [d \in Days |-> LET e == Lag(Source(t), d, 1)
                    IN  Of(d \in Source(t) /\ e # 0, {d, e})]

\* Log returns, rates of change and their acceleration: both ends positive.
Return(t, n) ==
    [d \in Days |-> LET e == Lag(Source(t), d, n)
                    IN  Of(d \in Positive(t) /\ e \in Positive(t), {d, e})]

\* A statistic of the one-row returns in a full window of source rows.
OverReturns(t) ==
    LET x == Return(t, 1)
        w == Rolling(Source(t), Window)
    IN  [d \in Days |-> Of(w[d] # {} /\ w[d] \subseteq Defined(x), Basis(x, w[d]))]

\* SMA ratios and drawdowns divide by a mean or maximum that is not zero.
OverLevels(t) ==
    LET w == Rolling(Source(t), Window)
    IN  [d \in Days |-> Of(w[d] \cap Positive(t) # {}, w[d])]

LevelZScore(t) ==
    LET w == Rolling(Positive(t), Window)
    IN  [d \in Days |-> Of(Varies(LevelOf(t), w[d]), w[d])]

\* Volatility series: every level counts.
SourceZScore(t) ==
    LET w == Rolling(Source(t), Window)
    IN  [d \in Days |-> Of(Varies(LevelOf(t), w[d]), w[d])]

\* Correlation of a stream with itself one row earlier.  The pairs are
\* formed first; a window holds pairs, and neither side may be constant.
Autocorrelation(t, x, S, pairs, size) ==
    LET step == [d \in Defined(x) |-> t[d].level - t[Min(x[d])].level]
        w    == Rolling(pairs, size)
    IN  [d \in Days |->
           LET lagged == {Lag(S, e, 1) : e \in w[d]}
           IN  Of(Varies(step, w[d]) /\ Varies(step, lagged),
                  Basis(x, w[d] \cup lagged))]

Paired(x, S) == {d \in Defined(x) : Lag(S, d, 1) \in Defined(x)}

\* Return pairs that lack a side are dropped before the window is counted.
ReturnAutocorrelation(t) ==
    LET x == Return(t, 1)
    IN  Autocorrelation(t, x, Source(t), Paired(x, Source(t)), Window)

\* Changes: a window of source rows, every one of them with a pair.
ChangeAutocorrelation(t) ==
    LET x == Change(t)
        w == Rolling(Source(t), Window)
        full == {d \in Days : w[d] # {} /\ w[d] \subseteq Paired(x, Source(t))}
        a == Autocorrelation(t, x, Source(t), Paired(x, Source(t)), Window)
    IN  [d \in Days |-> Of(d \in full, a[d])]

(***************************************************************************)
(* Recurrences.                                                            *)
(***************************************************************************)
\* Variant with a bug: a reset keeps the count of the seed.
SmoothedKeepingCount(S, valid, n) ==
    LET state[d \in 0 .. LastDay] ==
          IF d = 0 THEN [count |-> 0, seed |-> {}, mean |-> {}]
          ELSE IF d \notin S THEN state[d - 1]
          ELSE IF d \notin valid
               THEN [count |-> state[d - 1].count, seed |-> {}, mean |-> {}]
          ELSE IF state[d - 1].mean # {}
               THEN [count |-> n, seed |-> {}, mean |-> state[d - 1].mean \cup {d}]
          ELSE [count |-> state[d - 1].count + 1,
                seed  |-> state[d - 1].seed \cup {d},
                mean  |-> Of(state[d - 1].count + 1 >= n, state[d - 1].seed \cup {d})]
    IN  [d \in Days |-> Of(d \in S, state[d].mean)]

\* An average over the rows S, seeded by the mean of n valid rows in
\* succession; an invalid row makes it NULL and starts the seed anew.
SmoothedState(S, valid, n) ==
    LET state[d \in 0 .. LastDay] ==
          IF d = 0 THEN [count |-> 0, seed |-> {}, mean |-> {}]
          ELSE IF d \notin S THEN state[d - 1]
          ELSE IF d \notin valid THEN [count |-> 0, seed |-> {}, mean |-> {}]
          ELSE IF state[d - 1].mean # {}
               THEN [count |-> n, seed |-> {}, mean |-> state[d - 1].mean \cup {d}]
          ELSE [count |-> state[d - 1].count + 1,
                seed  |-> state[d - 1].seed \cup {d},
                mean  |-> Of(state[d - 1].count + 1 >= n, state[d - 1].seed \cup {d})]
    IN  state

Smoothed(S, valid, n) ==
    LET state == SmoothedState(S, valid, n)
    IN  [d \in Days |-> Of(d \in S, state[d].mean)]

Ema(S, t, n) == Smoothed(S, S \cap Positive(t), n)

\* Wilder's averages of gains and losses: NULL when nothing moved.
Rsi(t) ==
    LET x == Return(t, 1)
        a == Smoothed(Source(t), Defined(x), Wilder)
    IN  [d \in Days |-> Of(Varies(LevelOf(t), Basis(x, a[d])), Basis(x, a[d]))]

\* The MACD line and its signal are formed over the rows S; a signal row is
\* valid where there is a line, of any sign.
MacdLine(S, t) ==
    LET fast == Ema(S, t, Fast)
        slow == Ema(S, t, Slow)
    IN  [d \in Days |-> Of(fast[d] # {} /\ slow[d] # {}, fast[d] \cup slow[d])]

MacdHistogram(S, t) ==
    LET line   == MacdLine(S, t)
        signal == Smoothed(S, Defined(line), Signal)
    IN  [d \in Days |-> Of(signal[d] # {}, Basis(line, signal[d] \cup {d}))]

\* Distances and spreads need a positive level, as the averages do.
EmaCross(S, t) ==
    LET fast == Difference(Ema(S, t, Fast), Source(t), 1)
        slow == Difference(Ema(S, t, Slow), Source(t), 1)
    IN  [d \in Days |-> Of(fast[d] # {} /\ slow[d] # {}, fast[d] \cup slow[d])]

(***************************************************************************)
(* Bars.  The four prices of a bar are its level: a window of bars is flat *)
(* when its levels are all the same.                                       *)
(***************************************************************************)
Opens(t) == {d \in Rows(t) : t[d].bar}
Bars(t)  == Opens(t) \cap Source(t)

\* Ranges and intraday returns of one bar, and their mean over valid bars.
BarMetrics(t) == Opens(t) \cap Positive(t)
BarMetric(t)  == [d \in Days |-> Of(d \in BarMetrics(t), {d})]

\* The newest close before the day, whatever its sign.
PreviousClose(t, d) == Max(Before(Levels(t), d) \cup {0})

\* An open without a close has a gap, too: it counts in the mean though its
\* day is not published.
Gap(t) ==
    [d \in Days |-> LET e == PreviousClose(t, d)
                    IN  Of(d \in Opens(t) /\ e \in Positive(t), {d, e})]

GapMean(t) ==
    LET w == Rolling(Defined(Gap(t)), Window)
    IN  [d \in Days |-> Basis(Gap(t), w[d])]

StochasticK(t) ==
    LET w == Rolling(Bars(t), Window)
    IN  [d \in Days |-> Of(Varies(LevelOf(t), w[d]), w[d])]

StochasticD(t) ==
    LET k == StochasticK(t)
        w == Rolling(Bars(t), Window)
    IN  [d \in Days |-> Of(w[d] # {} /\ w[d] \subseteq Defined(k), Basis(k, w[d]))]

\* A breakout compares with full windows of the bars before the day.
Donchian(t) ==
    [d \in Days |-> LET prior == Frame(Before(Bars(t), d), d, Window)
                    IN  Of(d \in Bars(t) /\ Cardinality(prior) = Window, prior \cup {d})]

(***************************************************************************)
(* All of a series: t is what its query reads, S the rows its EMAs run     *)
(* over.  Only days with a level are published.                            *)
(***************************************************************************)
Transforms(S, t) ==
    [change       |-> Change(t),
     farReturn    |-> Return(t, Far),
     returns      |-> OverReturns(t),
     levels       |-> OverLevels(t),
     levelZ       |-> LevelZScore(t),
     sourceZ      |-> SourceZScore(t),
     returnAc     |-> ReturnAutocorrelation(t),
     changeAc     |-> ChangeAutocorrelation(t),
     rsi          |-> Rsi(t),
     rsiSlope     |-> Difference(Rsi(t), Source(t), Far),
     emaSlow      |-> Ema(S, t, Slow),
     emaSlope     |-> Difference(Ema(S, t, Slow), Source(t), Far),
     emaCross     |-> EmaCross(S, t),
     macdLine     |-> MacdLine(S, t),
     macdHist     |-> MacdHistogram(S, t),
     macdDelta    |-> Difference(MacdHistogram(S, t), S, Far),
     bar          |-> BarMetric(t),
     barMean      |-> Rolling(BarMetrics(t), Window),
     gap          |-> Gap(t),
     gapMean      |-> GapMean(t),
     stochK       |-> StochasticK(t),
     stochD       |-> StochasticD(t),
     stochSlope   |-> Difference(StochasticK(t), Bars(t), Far),
     donchian     |-> Donchian(t)]

Transformed(S, t) ==
    LET all == Transforms(S, t)
    IN  [f \in DOMAIN all |->
           [d \in Days |-> Of(d \in Source(t), all[f][d])]]
=============================================================================
