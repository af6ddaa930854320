---------------------------- MODULE FeatureView ----------------------------
(***************************************************************************)
(* The materialized view macro_loader.macro_features over the raw tables,  *)
(* one per series.  A sync writes the days that changed and refreshes the  *)
(* view in its transaction; rows may be written by hand, also rows whose   *)
(* level is NULL, and then need the explicit refresh; postgres-verify      *)
(* compares the number of values of every feature with a recomputation.    *)
(* A value is modelled by the rows it was computed from.                   *)
(***************************************************************************)
EXTENDS FeatureTransforms

CONSTANTS Series,
          Ohlc,      \* the series whose tables hold bars
          Extended,  \* the series that are not in RAW_SERIES
          Ratio,     \* <<s, t>>: the feature that divides a level by another
          Prices,    \* the levels a source delivers
          Start,     \* bound: series -> the tables a behaviour may begin with
          Touched,   \* bound: the days that writes change
          MaxWrites  \* bound: syncs and writes by hand in one behaviour

ASSUME ViewAssumption ==
    /\ Ohlc \subseteq Series /\ Extended \subseteq Series
    /\ Ratio \in Series \X Series
    /\ Prices \subseteq Nat
    /\ Touched \subseteq Days
    /\ MaxWrites \in Nat
    /\ \A s \in Series : \A t \in Start[s] : DOMAIN t \subseteq Days

VARIABLES
    raw,     \* series -> its table
    served,  \* series -> its table as the last sync left it
    view,    \* the published values
    built,   \* the tables of the last refresh
    byHand,  \* have rows been written by hand since then?
    verdict, \* of the last verification of the feature population
    writes

vars == <<raw, served, view, built, byHand, verdict, writes>>

\* Rows a sync writes: a scalar, or a whole bar.  By hand any field may be
\* left NULL.
Delivered(s) == [level : Prices, bar : {s \in Ohlc}]
Any(s)       == [level : Prices \cup {Null}, bar : IF s \in Ohlc THEN BOOLEAN ELSE {FALSE}]

(***************************************************************************)
(* The query.                                                              *)
(***************************************************************************)
\* Variant with a bug: rows that other series have are observations.
ProjectedFilled(tables, group, s) ==
    [d \in UNION {Rows(tables[u]) : u \in group} |->
       IF d \in Rows(tables[s]) THEN tables[s][d] ELSE [NullRow EXCEPT !.level = 0]]

\* The columns of s in the full outer join of the tables of a group.
Projected(tables, group, s) ==
    [d \in UNION {Rows(tables[u]) : u \in group} |->
       IF d \in Rows(tables[s]) THEN tables[s][d] ELSE NullRow]

Primary == Series \ Extended

\* The query of a primary series reads the join of all tables, the query of
\* an extended series its own table.
Group(s) == IF s \in Extended THEN {s} ELSE Series

\* preserve_raw_nulls: the rows of the table itself, explicit NULLs too.
EmaRows(tables, s, preserved) ==
    IF preserved THEN Rows(tables[s]) ELSE Source(tables[s])

PublishedDays(tables, s) ==
    Transformed(EmaRows(tables, s, TRUE), Projected(tables, Group(s), s))

\* A ratio is of one day, where the other level is positive.
RatioDays(tables) ==
    Source(tables[Ratio[1]]) \cap Positive(tables[Ratio[2]])

\* A value is known by its rows; <<>> is no row in the view.
Values(tables) ==
    [s \in Series |->
       LET x == PublishedDays(tables, s)
           t == Projected(tables, Group(s), s)
       IN  [f \in DOMAIN x |-> [d \in Days |-> [e \in x[f][d] |-> t[e]]]]]

Ratios(tables) ==
    [d \in RatioDays(tables) |-> <<tables[Ratio[1]][d], tables[Ratio[2]][d]>>]

Published(tables) == [of |-> Values(tables), ratio |-> Ratios(tables)]

(***************************************************************************)
(* Writers.                                                                *)
(***************************************************************************)
Init ==
    /\ raw \in [Series -> UNION {Start[s] : s \in Series}]
    /\ \A s \in Series : raw[s] \in Start[s]
    /\ served = raw
    /\ built = raw
    /\ byHand = FALSE
    /\ view = Published(raw)
    /\ verdict = "none"
    /\ writes = 0

Refreshed(tables) ==
    /\ view' = Published(tables)
    /\ built' = tables
    /\ byHand' = FALSE

\* _CONSUMER_ROWS_SQL: a row without a value is not there for a sync.
Visible(t) == [d \in {e \in Rows(t) : t[e] # NullRow} |-> t[d]]

Without(t, d) == [e \in Rows(t) \ {d} |-> t[e]]

With(t, d, row) == [e \in Rows(t) \cup {d} |-> IF e = d THEN row ELSE t[e]]

\* _apply_feature_row writes every table at the changed day; where Gold has
\* no value it deletes the row, also an explicit NULL written by hand.
Applied(tables, d, rows) ==
    [s \in Series |-> IF s \in DOMAIN rows THEN With(tables[s], d, rows[s])
                      ELSE Without(tables[s], d)]

\* Variant with a bug: the sync leaves the refresh to others.
SyncUnrefreshed ==
    \E d \in Touched, S \in SUBSET Series :
    \E rows \in [S -> UNION {Delivered(s) : s \in Series}] :
        /\ writes < MaxWrites
        /\ \A s \in Series : Visible(raw[s]) = served[s]
        /\ \A s \in S : rows[s] \in Delivered(s)
        /\ served' = Applied(served, d, rows)
        /\ served' # served
        /\ raw' = Applied(raw, d, rows)
        /\ writes' = writes + 1
        /\ UNCHANGED <<view, built, byHand, verdict>>

\* One sync whose delta is one day.  Rows that were changed by hand stop it.
Sync ==
    \E d \in Touched, S \in SUBSET Series :
    \E rows \in [S -> UNION {Delivered(s) : s \in Series}] :
        /\ writes < MaxWrites
        /\ \A s \in Series : Visible(raw[s]) = served[s]
        /\ \A s \in S : rows[s] \in Delivered(s)
        /\ served' = Applied(served, d, rows)
        /\ served' # served
        /\ raw' = Applied(raw, d, rows)
        /\ Refreshed(Applied(raw, d, rows))
        /\ writes' = writes + 1
        /\ UNCHANGED verdict

\* A row written or deleted by hand: no trigger refreshes the view.
WriteByHand ==
    \E s \in Series, d \in Touched :
        /\ writes < MaxWrites
        /\ \/ d \in Rows(raw[s]) /\ raw' = [raw EXCEPT ![s] = Without(@, d)]
           \/ \E row \in Any(s) : raw' = [raw EXCEPT ![s] = With(@, d, row)]
        /\ raw' # raw
        /\ byHand' = TRUE
        /\ writes' = writes + 1
        /\ UNCHANGED <<served, view, built, verdict>>

\* refresh_macro_features_explicit; without rows written by hand it changes
\* nothing.
RefreshByHand ==
    /\ byHand
    /\ Refreshed(raw)
    /\ UNCHANGED <<raw, served, verdict, writes>>

(***************************************************************************)
(* _assert_feature_values_population.                                      *)
(***************************************************************************)
\* What verification recomputes, from the table of the series alone: for the
\* primary series with the NULL rows, for the extended ones without them.
ExpectedDays(s) ==
    Transformed(EmaRows(raw, s, s \in Primary), Projected(raw, {s}, s))

\* Numbers of rows per feature.
Matches(s) ==
    LET expected == ExpectedDays(s)
    IN  \A f \in DOMAIN expected :
          Cardinality(Defined(expected[f]))
            = Cardinality({d \in Days : view.of[s][f][d] # <<>>})

Verify ==
    /\ verdict' = IF /\ \A s \in Series : Matches(s)
                     /\ Cardinality(RatioDays(raw)) = Cardinality(DOMAIN view.ratio)
                  THEN "pass" ELSE "fail"
    /\ UNCHANGED <<raw, served, view, built, byHand, writes>>

Next == Sync \/ WriteByHand \/ RefreshByHand \/ Verify

Spec == Init /\ [][Next]_vars

(***************************************************************************)
(* Properties.                                                             *)
(***************************************************************************)
Value(v, s, f, d) == v.of[s][f][d]

Features == {"change", "farReturn", "returns", "levels", "levelZ", "sourceZ",
             "returnAc", "changeAc", "rsi", "rsiSlope", "emaSlow", "emaSlope",
             "emaCross", "macdLine", "macdHist", "macdDelta", "bar", "barMean",
             "gap", "gapMean", "stochK", "stochD", "stochSlope", "donchian"}

RowAt(tables, s, d) == {<<e, tables[s][e]>> : e \in Rows(tables[s]) \cap {d}}

\* "All calculations are causal and use no future values" (README, PR-171
\* features): a refresh changes no value of a day unless a row of that day
\* or of an earlier one has changed since the last refresh.
Causal ==
    [][\A s \in Series, d \in Days :
         (\A e \in 1 .. d : RowAt(built, s, e) = RowAt(built', s, e)) =>
            \A f \in Features : Value(view', s, f, d) = Value(view, s, f, d)]_vars

\* Dates only other series have cannot advance, reset or otherwise alter the
\* values of a series (ARCHITECTURE, "each series' own ordered source
\* observations"), though its query reads the join of all tables.
SeriesIndependent ==
    [][\A s \in Series : built'[s] = built[s] => view'.of[s] = view.of[s]]_vars

\* The days in succession, up to d, whose rows are all positive: an explicit
\* NULL ends the run, an absent row does not.
Run(t, d) ==
    {e \in Rows(t) : e <= d /\ \A g \in Rows(t) : e <= g /\ g <= d => g \in Positive(t)}

\* The recurrences and their lagged outputs, by the README's definition: there
\* is a value exactly when the run is long enough, and it depends on the
\* whole run and on nothing before the last reset.
RunLength ==
    [emaSlow   |-> Slow,
     emaSlope  |-> Slow + Far,
     emaCross  |-> Slow + 1,
     macdLine  |-> Slow,
     macdHist  |-> Slow + Signal - 1,
     macdDelta |-> Slow + Signal - 1 + Far]

ResetByNull ==
    \A s \in Series, d \in Days : \A f \in DOMAIN RunLength :
        DOMAIN Value(view, s, f, d) =
            IF d \in Rows(built[s]) /\ Cardinality(Run(built[s], d)) >= RunLength[f]
            THEN Run(built[s], d) ELSE {}

\* No false alarm, and one known exception: verification fails only when rows
\* were written by hand and the view was not refreshed since, or where the
\* table of an extended series holds an explicit NULL.
AlarmsExplained ==
    [][verdict' = "fail" =>
         \/ verdict = "fail"
         \/ byHand
         \/ \E s \in Extended : Source(raw[s]) # Rows(raw[s])]_vars
=============================================================================
