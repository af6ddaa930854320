----------------------- MODULE SchemaMigrationsProofs -----------------------
(***************************************************************************)
(* Theorems about SchemaMigrations, for every set of administrators and    *)
(* every database an earlier release left behind.                          *)
(*                                                                         *)
(* A layout is what is true of a database at a version, whatever its rows, *)
(* columns and drift.  Statement by statement every version is shown to    *)
(* take the layout before it to its own, when nothing is left out          *)
(* (recreation), when nothing was installed, and when an upgrade leaves    *)
(* out the intermediate views.  A run is a recursive function over its     *)
(* statements; what it computes is shown by the least statement at which   *)
(* it would fail.  From there the invariant relates the ledger of the      *)
(* database, of every transaction and of every session to the layout.      *)
(***************************************************************************)
EXTENDS SchemaMigrations, WellFoundedInduction, TLAPS

-----------------------------------------------------------------------------
(* Running the statements of a version.                                    *)

IsRun(run, d, S, left, n) ==
    run = [i \in 0 .. n |->
             IF i = 0 THEN {d}
             ELSE IF S[i] \in left THEN run[i - 1]
             ELSE Execute(run[i - 1], S[i])]

\* Statement by statement a run is defined, however many there are.
LEMMA RunsExist ==
    ASSUME NEW d, NEW S, NEW left, NEW n \in Nat
    PROVE  \E run : IsRun(run, d, S, left, n)
<1> DEFINE After(run, i) ==
             IF i = 0 THEN {d}
             ELSE IF S[i] \in left THEN run[i - 1]
             ELSE Execute(run[i - 1], S[i])
           Exists(m) == \E run : run = [i \in 0 .. m |-> After(run, i)]
           Missing == {m \in Nat : ~Exists(m)}
           Less == OpToRel(<, Nat)
<1>0. SUFFICES Exists(n)
  BY DEF IsRun
<1>1. SUFFICES ASSUME ~Exists(n) PROVE FALSE
  OBVIOUS
<1>2. PICK m \in Missing : \A e \in Missing : <<e, m>> \notin Less
  <2> HIDE DEF Less, Missing
  <2>1. Missing \in SUBSET Nat
    BY DEF Missing
  <2>2. IsWellFoundedOn(Less, Nat)
    BY NatLessThanWellFounded DEF Less
  <2>3. n \in Missing
    BY <1>1 DEF Missing
  <2> QED
    BY <2>1, <2>2, <2>3, WFMin
<1>3. m # 0
  <2>1. [i \in 0 .. 0 |-> After([j \in 0 .. 0 |-> {d}], i)]
         = [j \in 0 .. 0 |-> {d}]
    OBVIOUS
  <2>2. Exists(0)
    BY <2>1
  <2> QED
    BY <2>2
<1>4. m - 1 \in Nat /\ m - 1 \notin Missing
  <2>1. m \in Nat /\ m - 1 \in Nat /\ m - 1 < m
    BY <1>3
  <2>2. <<m - 1, m>> \in Less
    BY <2>1 DEF OpToRel
  <2> QED
    BY <1>2, <2>1, <2>2
<1>5. PICK run : run = [i \in 0 .. m - 1 |-> After(run, i)]
  BY <1>4
<1> DEFINE next == [i \in 0 .. m |-> IF i = m THEN After(run, m) ELSE run[i]]
<1>6. next = [i \in 0 .. m |-> After(next, i)]
  <2> SUFFICES ASSUME NEW i \in 0 .. m PROVE next[i] = After(next, i)
    OBVIOUS
  <2>1. CASE i = 0
    BY <2>1, <1>3, <1>4, <1>5
  <2>2. CASE i # 0
    <3>1. next[i - 1] = run[i - 1]
      BY <2>2, <1>4
    <3>2. After(next, i) = After(run, i)
      BY <3>1, <2>2
    <3>3. next[i] = After(run, i)
      <4>1. i # m => i \in 0 .. m - 1
        BY <1>4
      <4>2. i # m => run[i] = After(run, i)
        <5> HIDE DEF After
        <5> QED
          BY <4>1, <1>5
      <4> HIDE DEF After
      <4> QED
        BY <4>2
    <3> QED
      BY <3>2, <3>3
  <2> QED
    BY <2>1, <2>2
<1>7. Exists(m)
  BY <1>6
<1> QED
  BY <1>7

Modes == {"all", "fresh", "upgrade"}

\* What a recreation ("all"), an installation ("fresh") or an upgrade leaves
\* out of a version.
Leaves(v, s, mode) == mode # "all" /\ Skips(v, s, mode = "fresh")

Left(v, mode) == {s \in Range(Migrations[v]) : Leaves(v, s, mode)}

\* The first i statements of a version turn d into e.
Reaches(d, v, mode, i, e) == Runs(d, v, Left(v, mode))[i] = {e}

\* A statement that does not raise has one result.
LEMMA OneStatement ==
    ASSUME NEW e, NEW s, Possible(e, s)
    PROVE  Execute({e}, s) = {Result(e, s)}
BY DEF Execute

\* A run goes on statement by statement.
LEMMA RunsStep ==
    ASSUME NEW run, NEW d, NEW S, NEW left, NEW n \in Nat, IsRun(run, d, S, left, n)
    PROVE  /\ run[0] = {d}
           /\ \A i \in 1 .. n :
                 run[i] = IF S[i] \in left THEN run[i - 1] ELSE Execute(run[i - 1], S[i])
BY DEF IsRun

\* The run of a version satisfies its own recursion.
LEMMA RunsAreRuns ==
    ASSUME NEW d, NEW v \in Versions, NEW left, Len(Migrations[v]) \in Nat
    PROVE  IsRun(Runs(d, v, left), d, Migrations[v], left,
                 Len(Migrations[v]))
<1> DEFINE Is(run) == IsRun(run, d, Migrations[v], left, Len(Migrations[v]))
<1>1. Runs(d, v, left) = CHOOSE run : Is(run)
  BY Zenon DEF Runs, IsRun
<1>2. \E run : Is(run)
  BY RunsExist
<1> HIDE DEF Is
<1>3. Is(Runs(d, v, left))
  BY <1>1, <1>2
<1> QED
  BY <1>3 DEF Is

\* Before its first statement a version has changed nothing.
LEMMA Starts ==
    ASSUME NEW d, NEW v \in Versions, NEW mode, Len(Migrations[v]) \in Nat
    PROVE  Reaches(d, v, mode, 0, d)
BY RunsAreRuns, RunsStep DEF Reaches

\* A statement that is left out changes nothing; one that is executed does
\* what it does, if it can.
LEMMA Continues ==
    ASSUME NEW d, NEW v \in Versions, NEW mode, Len(Migrations[v]) \in Nat,
           NEW i \in 1 .. Len(Migrations[v]), NEW e, Reaches(d, v, mode, i - 1, e)
    PROVE  /\ Migrations[v][i] \in Left(v, mode) => Reaches(d, v, mode, i, e)
           /\ Migrations[v][i] \notin Left(v, mode) /\ Possible(e, Migrations[v][i])
                => Reaches(d, v, mode, i, Result(e, Migrations[v][i]))
<1> DEFINE runs == Runs(d, v, Left(v, mode))
<1>1. runs[i - 1] = {e}
  BY DEF Reaches
<1>2. runs[i] = IF Migrations[v][i] \in Left(v, mode) THEN runs[i - 1]
                ELSE Execute(runs[i - 1], Migrations[v][i])
  BY RunsAreRuns, RunsStep
<1>3. Possible(e, Migrations[v][i]) =>
        Execute(runs[i - 1], Migrations[v][i]) = {Result(e, Migrations[v][i])}
  BY <1>1, OneStatement
<1> QED
  BY <1>1, <1>2, <1>3 DEF Reaches

\* The i-th statement of a version, the one after the j-th.
Statement(v, j, i, s) ==
    /\ j = i - 1
    /\ v \in Versions /\ Len(Migrations[v]) \in Nat
    /\ DOMAIN Migrations[v] = 1 .. Len(Migrations[v])
    /\ i \in 1 .. Len(Migrations[v]) /\ Migrations[v][i] = s

Follows(v, s, mode, e, f) ==
    IF Leaves(v, s, mode) THEN e = f ELSE Possible(e, s) /\ Result(e, s) = f

\* One statement more, left out or executed.
LEMMA Executes ==
    ASSUME NEW v, NEW j, NEW i, NEW s, Statement(v, j, i, s), NEW d, NEW mode,
           NEW e, Reaches(d, v, mode, j, e), NEW f, Follows(v, s, mode, e, f)
    PROVE  Reaches(d, v, mode, i, f)
<1>1. Migrations[v][i] \in Left(v, mode) <=> Leaves(v, Migrations[v][i], mode)
  BY DEF Left, Range, Statement
<1> QED
  BY <1>1, Continues DEF Statement, Follows

-----------------------------------------------------------------------------
(* What a database looks like after a version.                             *)

USE DEF None, Daily, Raw, PerSeries, SyncState, RowHashes, FedTable, Extension,
        Values, Refresher

Layout(n, d) ==
    /\ d \in DatabaseType
    /\ n >= 2 => Has(d, SyncState)
    /\ n >= 3 => Has(d, RowHashes)
    /\ n = 8 => Has(d, Raw) \/ Has(d, Daily)
    /\ n \in 9 .. 30 => Has(d, Raw)
    /\ n >= 31 => Has(d, PerSeries) /\ ~Has(d, Raw) /\ d.columns = {}
    /\ n >= 9 => ~Has(d, Daily)
    /\ n >= 33 => ~Has(d, FedTable)
    /\ n \in 34 .. 35 => Has(d, Values)
    /\ n = 34 => Has(d, Refresher)
    /\ n >= 36 => d.relations \cap {Extension, Values, Refresher} = {}
    /\ "fed" \in d.columns => n \in 16 .. 19
    /\ n = 19 => "available" \in d.columns
    /\ n \in 24 .. 30 => "ohlc" \in d.columns
    /\ n \in 28 .. 30 => "v28" \in d.columns
    /\ n \in 29 .. 30 => "v29" \in d.columns
    /\ n = 30 => "v30" \in d.columns
    /\ n <= 9 => d.view = None
    /\ n \in 10 .. 30 => d.view \in {None, Raw}
    /\ n \in 31 .. 35 => d.view \in {None, PerSeries}
    /\ n = 36 => d.view = "long_view"
    /\ n = 37 => d.view = "observed_view"
    /\ n = 38 => d.view = "reset_view"
    /\ n >= 36 => d.refresh = "refresh_long"
    /\ n <= 8 => d.rows = None \/ (d.rows = Daily /\ Has(d, Daily))
    /\ n \in 9 .. 30 => d.rows \in {None, Raw}
    /\ n >= 31 => d.rows \in {None, PerSeries}
    /\ d.digests <=> d.rows # None

\* What an undisturbed run sees besides: in an empty database no view is
\* created before the last ones, in a recreation there is one to describe.
Shown(n, mode, d) ==
    /\ mode = "fresh" /\ n <= 35 => d.view = None
    /\ mode = "all" /\ n = 12 => d.view # None

Preserves(v, d, e) ==
    /\ e.ledger = d.ledger
    /\ d.rows = None => e.rows = None
    /\ v >= 12 => (d.rows # None <=> e.rows # None)
    /\ Active(d) \cup d.archive \subseteq Active(e) \cup e.archive

Taken(v, mode, d) ==
    \E e : /\ Run(d, v, Left(v, mode)) = {e}
           /\ Layout(v, e) /\ Shown(v, mode, e) /\ Preserves(v, d, e)

\* A version is taken when its last statement is reached.
LEMMA Finishes ==
    ASSUME NEW d, NEW v \in Versions, NEW mode, NEW n, Len(Migrations[v]) = n, NEW e,
           Reaches(d, v, mode, n, e), Layout(v, e), Shown(v, mode, e), Preserves(v, d, e)
    PROVE  Taken(v, mode, d)
BY DEF Run, Reaches, Taken

Takes(v) ==
    \A d : \A mode \in Modes :
        Layout(v - 1, d) /\ Shown(v - 1, mode, d) => Taken(v, mode, d)

-----------------------------------------------------------------------------
(* What each statement needs and does, field by field.                     *)

DB(l, r, c, v, f, w, g, a) ==
    [ledger |-> l, relations |-> r, columns |-> c, view |-> v, refresh |-> f,
     rows |-> w, digests |-> g, archive |-> a]

\* The sets of a database change by one member at a time.
With(S, x)    == S \cup {x}
Without(S, x) == S \ {x}

Unset         == FALSE

\* The value clear_sync leaves behind.
LEMMA UnsetIsFalse == Unset \in BOOLEAN /\ ~Unset
BY DEF Unset

\* The members of a set changed by one.
LEMMA Members ==
    ASSUME NEW S, NEW x, NEW y
    PROVE  /\ y \in With(S, x) <=> y \in S \/ y = x
           /\ y \in Without(S, x) <=> y \in S /\ y # x
BY DEF With, Without

\* The fields of a database written as one.
LEMMA Fields ==
    ASSUME NEW l, NEW r, NEW c, NEW v, NEW f, NEW w, NEW g, NEW a
    PROVE  /\ DB(l, r, c, v, f, w, g, a).ledger = l
           /\ DB(l, r, c, v, f, w, g, a).relations = r
           /\ DB(l, r, c, v, f, w, g, a).columns = c /\ DB(l, r, c, v, f, w, g, a).view = v
           /\ DB(l, r, c, v, f, w, g, a).refresh = f /\ DB(l, r, c, v, f, w, g, a).rows = w
           /\ DB(l, r, c, v, f, w, g, a).digests = g
           /\ DB(l, r, c, v, f, w, g, a).archive = a
           /\ \A x : Has(DB(l, r, c, v, f, w, g, a), x) <=> x \in r
BY DEF DB, Has

\* The table of rows.
LEMMA DoesCreateRaw ==
    ASSUME NEW l, NEW r, NEW c, NEW v, NEW f, NEW w, NEW g, NEW a
    PROVE  /\ Possible(DB(l, r, c, v, f, w, g, a), "create_raw")
           /\ Raw \in r => Result(DB(l, r, c, v, f, w, g, a), "create_raw")
                        = DB(l, r, c, v, f, w, g, a)
           /\ Raw \notin r => Result(DB(l, r, c, v, f, w, g, a), "create_raw")
                        = DB(l, With(r, Raw), Added, v, f, w, g, a)
BY DEF Possible, Result, DB, Has, With, Added

\* Dropping macro_raw takes its rows along, and fails under a view over it.
LEMMA DoesDropRawIfExists ==
    ASSUME NEW l, NEW r, NEW c, NEW v, NEW f, NEW w, NEW g, NEW a
    PROVE  /\ Possible(DB(l, r, c, v, f, w, g, a), "drop_raw_if_exists") <=>
                (Raw \in r => v # Raw)
           /\ Result(DB(l, r, c, v, f, w, g, a), "drop_raw_if_exists")
                = DB(l, Without(r, Raw), {}, v, f, IF w = Raw THEN None ELSE w, g, a)
BY DEF Possible, Result, DB, Has, WithoutRaw, Without, Added

\* The same, where the table has to be there.
LEMMA DoesDropRaw ==
    ASSUME NEW l, NEW r, NEW c, NEW v, NEW f, NEW w, NEW g, NEW a
    PROVE  /\ Possible(DB(l, r, c, v, f, w, g, a), "drop_raw") <=> Raw \in r /\ v # Raw
           /\ Result(DB(l, r, c, v, f, w, g, a), "drop_raw")
                = DB(l, Without(r, Raw), {}, v, f, IF w = Raw THEN None ELSE w, g, a)
BY DEF Possible, Result, DB, Has, WithoutRaw, Without, Added

\* Renaming the daily table brings its rows, and drops what was macro_raw.
LEMMA DoesRenameDaily ==
    ASSUME NEW l, NEW r, NEW c, NEW v, NEW f, NEW w, NEW g, NEW a
    PROVE  /\ Possible(DB(l, r, c, v, f, w, g, a), "rename_daily") <=>
                (Raw \in r /\ Daily \in r => v # Raw)
           /\ Daily \notin r => Result(DB(l, r, c, v, f, w, g, a), "rename_daily")
                        = DB(l, r, c, v, f, w, g, a)
           /\ Daily \in r => Result(DB(l, r, c, v, f, w, g, a), "rename_daily")
                        = DB(l, With(Without(r, Daily), Raw), {}, v, f, 
                             IF w = Daily THEN Raw ELSE IF w = Raw THEN None ELSE w, g, a)
BY DEF Possible, Result, DB, Has, With, Without, Added

\* Copying the rows moves where they are served from.
LEMMA DoesCopyRows ==
    ASSUME NEW l, NEW r, NEW c, NEW v, NEW f, NEW w, NEW g, NEW a
    PROVE  /\ Possible(DB(l, r, c, v, f, w, g, a), "copy_rows") <=>
                Raw \in r /\ PerSeries \in r /\ {"ohlc", "v28", "v29", "v30"} \subseteq c
           /\ Result(DB(l, r, c, v, f, w, g, a), "copy_rows")
                = DB(l, r, c, v, f, IF w = Raw THEN PerSeries ELSE w, g, a)
BY DEF Possible, Result, DB, Has, Added

\* A column is added to a table that is there.
LEMMA DoesAddColumn ==
    ASSUME NEW l, NEW r, NEW c, NEW v, NEW f, NEW w, NEW g, NEW a, NEW x \in Added
    PROVE  /\ Possible(DB(l, r, c, v, f, w, g, a), x) <=> Raw \in r
           /\ Result(DB(l, r, c, v, f, w, g, a), x)
                = DB(l, r, With(c, x), v, f, w, g, a)
BY DEF Possible, Result, DB, Has, With, Added

\* The Fed columns go; a view over the table is in the way.
LEMMA DoesDropFedColumns ==
    ASSUME NEW l, NEW r, NEW c, NEW v, NEW f, NEW w, NEW g, NEW a
    PROVE  /\ Possible(DB(l, r, c, v, f, w, g, a), "drop_fed_columns") <=>
                Raw \in r /\ v # Raw
           /\ Result(DB(l, r, c, v, f, w, g, a), "drop_fed_columns")
                = DB(l, r, Without(c, "fed"), v, f, w, g, a)
BY DEF Possible, Result, DB, Has, Without, Added

\* The tables of the sync and of the series, and the archive.
LEMMA DoesCreateSyncState ==
    ASSUME NEW l, NEW r, NEW c, NEW v, NEW f, NEW w, NEW g, NEW a
    PROVE  /\ Possible(DB(l, r, c, v, f, w, g, a), SyncState)
           /\ Result(DB(l, r, c, v, f, w, g, a), SyncState)
                = DB(l, With(r, SyncState), c, v, f, w, g, a)
BY DEF Possible, Result, DB, Adding, With, Added

\* The digest index.
LEMMA DoesCreateRowHashes ==
    ASSUME NEW l, NEW r, NEW c, NEW v, NEW f, NEW w, NEW g, NEW a
    PROVE  /\ Possible(DB(l, r, c, v, f, w, g, a), RowHashes)
           /\ Result(DB(l, r, c, v, f, w, g, a), RowHashes)
                = DB(l, With(r, RowHashes), c, v, f, w, g, a)
BY DEF Possible, Result, DB, Adding, With, Added

\* The table per series.
LEMMA DoesCreatePerSeries ==
    ASSUME NEW l, NEW r, NEW c, NEW v, NEW f, NEW w, NEW g, NEW a
    PROVE  /\ Possible(DB(l, r, c, v, f, w, g, a), PerSeries)
           /\ Result(DB(l, r, c, v, f, w, g, a), PerSeries)
                = DB(l, With(r, PerSeries), c, v, f, w, g, a)
BY DEF Possible, Result, DB, Adding, With, Added

\* Digests and checkpoint are emptied.
LEMMA DoesClearSync ==
    ASSUME NEW l, NEW r, NEW c, NEW v, NEW f, NEW w, NEW g, NEW a
    PROVE  /\ Possible(DB(l, r, c, v, f, w, g, a), "clear_sync") <=>
                SyncState \in r /\ RowHashes \in r
           /\ Result(DB(l, r, c, v, f, w, g, a), "clear_sync")
                = DB(l, r, c, v, f, w, Unset, a)
BY DEF Unset, Possible, Result, DB, Has, Added

\* Grants need the tables they are on.
LEMMA DoesGrantSync ==
    ASSUME NEW l, NEW r, NEW c, NEW v, NEW f, NEW w, NEW g, NEW a
    PROVE  /\ Possible(DB(l, r, c, v, f, w, g, a), "grant_sync") <=>
                SyncState \in r /\ RowHashes \in r
           /\ Result(DB(l, r, c, v, f, w, g, a), "grant_sync")
                = DB(l, r, c, v, f, w, g, a)
BY DEF Possible, Result, DB, Has, Added

ActiveIn(r, c) ==
    (IF "fed" \in c THEN {"columns"} ELSE {})
    \cup (IF FedTable \in r THEN {"table"} ELSE {})

Archived(r, c, a) ==
    a \cup (ActiveIn(r, c) \cap (IF "available" \in c THEN FedOrigins ELSE {"table"}))

\* The archive takes the Fed table, and the columns where rows can be told apart.
LEMMA DoesArchiveFed ==
    ASSUME NEW l, NEW r, NEW c, NEW v, NEW f, NEW w, NEW g, NEW a
    PROVE  /\ Possible(DB(l, r, c, v, f, w, g, a), "archive_fed") <=>
                SyncState \in r /\ RowHashes \in r
           /\ Result(DB(l, r, c, v, f, w, g, a), "archive_fed")
                = DB(l, Without(r, FedTable), c, v, f, w, g, Archived(r, c, a))
BY DEF Possible, Result, DB, Has, Active, ActiveIn, Archived, Without, Added

\* The published view and its refresh function.
LEMMA DoesDropViewIfExists ==
    ASSUME NEW l, NEW r, NEW c, NEW v, NEW f, NEW w, NEW g, NEW a
    PROVE  /\ Possible(DB(l, r, c, v, f, w, g, a), "drop_view_if_exists")
           /\ Result(DB(l, r, c, v, f, w, g, a), "drop_view_if_exists")
                = DB(l, r, c, None, f, w, g, a)
BY DEF Possible, Result, DB, Added

\* Dropping the view never fails with CASCADE,
LEMMA DoesDropViewCascade ==
    ASSUME NEW l, NEW r, NEW c, NEW v, NEW f, NEW w, NEW g, NEW a
    PROVE  /\ Possible(DB(l, r, c, v, f, w, g, a), "drop_view_cascade")
           /\ Result(DB(l, r, c, v, f, w, g, a), "drop_view_cascade")
                = DB(l, r, c, None, f, w, g, a)
BY DEF Possible, Result, DB, Added

\* but does without, when there is none.
LEMMA DoesDropView ==
    ASSUME NEW l, NEW r, NEW c, NEW v, NEW f, NEW w, NEW g, NEW a
    PROVE  /\ Possible(DB(l, r, c, v, f, w, g, a), "drop_view") <=> v # None
           /\ Result(DB(l, r, c, v, f, w, g, a), "drop_view")
                = DB(l, r, c, None, f, w, g, a)
BY DEF Possible, Result, DB, Added

\* A view is created where there is none, over a relation that is there:
LEMMA DoesWideViewOfRaw ==
    ASSUME NEW l, NEW r, NEW c, NEW v, NEW f, NEW w, NEW g, NEW a
    PROVE  /\ Possible(DB(l, r, c, v, f, w, g, a), "wide_view_of_raw") <=>
                (v = None => Raw \in r)
           /\ Result(DB(l, r, c, v, f, w, g, a), "wide_view_of_raw")
                = DB(l, r, c, IF v = None THEN Raw ELSE v, f, w, g, a)
BY DEF Possible, Result, DB, Has, Added

\* over the table per series,
LEMMA DoesWideViewOfSeries ==
    ASSUME NEW l, NEW r, NEW c, NEW v, NEW f, NEW w, NEW g, NEW a
    PROVE  /\ Possible(DB(l, r, c, v, f, w, g, a), "wide_view_of_series") <=>
                (v = None => PerSeries \in r)
           /\ Result(DB(l, r, c, v, f, w, g, a), "wide_view_of_series")
                = DB(l, r, c, IF v = None THEN PerSeries ELSE v, f, w, g, a)
BY DEF Possible, Result, DB, Has, Added

\* with what was observed,
LEMMA DoesObservedView ==
    ASSUME NEW l, NEW r, NEW c, NEW v, NEW f, NEW w, NEW g, NEW a
    PROVE  /\ Possible(DB(l, r, c, v, f, w, g, a), "observed_view") <=> PerSeries \in r
           /\ Result(DB(l, r, c, v, f, w, g, a), "observed_view")
                = DB(l, r, c, IF v = None THEN "observed_view" ELSE v, f, w, g, a)
BY DEF Possible, Result, DB, Has, Added

\* with resets by null.
LEMMA DoesResetView ==
    ASSUME NEW l, NEW r, NEW c, NEW v, NEW f, NEW w, NEW g, NEW a
    PROVE  /\ Possible(DB(l, r, c, v, f, w, g, a), "reset_view") <=> PerSeries \in r
           /\ Result(DB(l, r, c, v, f, w, g, a), "reset_view")
                = DB(l, r, c, IF v = None THEN "reset_view" ELSE v, f, w, g, a)
BY DEF Possible, Result, DB, Has, Added

\* A comment needs its view,
LEMMA DoesDescribeView ==
    ASSUME NEW l, NEW r, NEW c, NEW v, NEW f, NEW w, NEW g, NEW a
    PROVE  /\ Possible(DB(l, r, c, v, f, w, g, a), "describe_view") <=> v # None
           /\ Result(DB(l, r, c, v, f, w, g, a), "describe_view")
                = DB(l, r, c, v, f, w, g, a)
BY DEF Possible, Result, DB, Added

\* and so does a refresh.
LEMMA DoesRefreshView ==
    ASSUME NEW l, NEW r, NEW c, NEW v, NEW f, NEW w, NEW g, NEW a
    PROVE  /\ Possible(DB(l, r, c, v, f, w, g, a), "refresh_view") <=> v # None
           /\ Result(DB(l, r, c, v, f, w, g, a), "refresh_view")
                = DB(l, r, c, v, f, w, g, a)
BY DEF Possible, Result, DB, Added

\* The refresh function is replaced: for the wide view,
LEMMA DoesRefreshWide ==
    ASSUME NEW l, NEW r, NEW c, NEW v, NEW f, NEW w, NEW g, NEW a
    PROVE  /\ Possible(DB(l, r, c, v, f, w, g, a), "refresh_wide")
           /\ Result(DB(l, r, c, v, f, w, g, a), "refresh_wide")
                = DB(l, r, c, v, "refresh_wide", w, g, a)
BY DEF Possible, Result, DB, Added

\* for the chain of wide views,
LEMMA DoesRefreshChain ==
    ASSUME NEW l, NEW r, NEW c, NEW v, NEW f, NEW w, NEW g, NEW a
    PROVE  /\ Possible(DB(l, r, c, v, f, w, g, a), "refresh_chain")
           /\ Result(DB(l, r, c, v, f, w, g, a), "refresh_chain")
                = DB(l, r, c, v, "refresh_chain", w, g, a)
BY DEF Possible, Result, DB, Added

\* for the published one.
LEMMA DoesRefreshLong ==
    ASSUME NEW l, NEW r, NEW c, NEW v, NEW f, NEW w, NEW g, NEW a
    PROVE  /\ Possible(DB(l, r, c, v, f, w, g, a), "refresh_long")
           /\ Result(DB(l, r, c, v, f, w, g, a), "refresh_long")
                = DB(l, r, c, v, "refresh_long", w, g, a)
BY DEF Possible, Result, DB, Added

\* The intermediate feature relations.
LEMMA DoesExtension ==
    ASSUME NEW l, NEW r, NEW c, NEW v, NEW f, NEW w, NEW g, NEW a
    PROVE  /\ Possible(DB(l, r, c, v, f, w, g, a), "extension") <=> PerSeries \in r
           /\ Result(DB(l, r, c, v, f, w, g, a), "extension")
                = DB(l, With(r, Extension), c, v, f, w, g, a)
BY DEF Possible, Result, DB, Has, Adding, With, Added

\* A comment on the extension.
LEMMA DoesDescribeExtension ==
    ASSUME NEW l, NEW r, NEW c, NEW v, NEW f, NEW w, NEW g, NEW a
    PROVE  /\ Possible(DB(l, r, c, v, f, w, g, a), "describe_extension") <=> Extension \in r
           /\ Result(DB(l, r, c, v, f, w, g, a), "describe_extension")
                = DB(l, r, c, v, f, w, g, a)
BY DEF Possible, Result, DB, Has, Added

\* The extension is dropped if it is there.
LEMMA DoesDropExtension ==
    ASSUME NEW l, NEW r, NEW c, NEW v, NEW f, NEW w, NEW g, NEW a
    PROVE  /\ Possible(DB(l, r, c, v, f, w, g, a), "drop_extension")
           /\ Result(DB(l, r, c, v, f, w, g, a), "drop_extension")
                = DB(l, Without(r, Extension), c, v, f, w, g, a)
BY DEF Possible, Result, DB, Dropping, Without, Added

\* The feature values read the table per series.
LEMMA DoesValues ==
    ASSUME NEW l, NEW r, NEW c, NEW v, NEW f, NEW w, NEW g, NEW a
    PROVE  /\ Possible(DB(l, r, c, v, f, w, g, a), "values") <=> PerSeries \in r
           /\ Result(DB(l, r, c, v, f, w, g, a), "values")
                = DB(l, With(r, Values), c, v, f, w, g, a)
BY DEF Possible, Result, DB, Has, Adding, With, Added

\* The function that refreshes them.
LEMMA DoesRefresher ==
    ASSUME NEW l, NEW r, NEW c, NEW v, NEW f, NEW w, NEW g, NEW a
    PROVE  /\ Possible(DB(l, r, c, v, f, w, g, a), "refresher")
           /\ Result(DB(l, r, c, v, f, w, g, a), "refresher")
                = DB(l, With(r, Refresher), c, v, f, w, g, a)
BY DEF Possible, Result, DB, Adding, With, Added

\* It is dropped if it is there.
LEMMA DoesDropRefresher ==
    ASSUME NEW l, NEW r, NEW c, NEW v, NEW f, NEW w, NEW g, NEW a
    PROVE  /\ Possible(DB(l, r, c, v, f, w, g, a), "drop_refresher")
           /\ Result(DB(l, r, c, v, f, w, g, a), "drop_refresher")
                = DB(l, Without(r, Refresher), c, v, f, w, g, a)
BY DEF Possible, Result, DB, Dropping, Without, Added

\* The first population needs both.
LEMMA DoesRefreshValues ==
    ASSUME NEW l, NEW r, NEW c, NEW v, NEW f, NEW w, NEW g, NEW a
    PROVE  /\ Possible(DB(l, r, c, v, f, w, g, a), "refresh_values") <=>
                Values \in r /\ Refresher \in r
           /\ Result(DB(l, r, c, v, f, w, g, a), "refresh_values")
                = DB(l, r, c, v, f, w, g, a)
BY DEF Possible, Result, DB, Has, Added

\* The values become the published view, when nothing else is.
LEMMA DoesRenameValues ==
    ASSUME NEW l, NEW r, NEW c, NEW v, NEW f, NEW w, NEW g, NEW a
    PROVE  /\ Possible(DB(l, r, c, v, f, w, g, a), "rename_values") <=>
                Values \in r /\ v = None
           /\ Result(DB(l, r, c, v, f, w, g, a), "rename_values")
                = DB(l, Without(r, Values), c, "long_view", f, w, g, a)
BY DEF Possible, Result, DB, Has, Without, Added

-----------------------------------------------------------------------------
(* Every version.                                                          *)

\* What is never left out, and what is left out before version 36.
LEMMA LeavesNoTable ==
    ASSUME NEW n \in Versions, NEW mode \in Modes,
           NEW s \in {"create_raw", SyncState, RowHashes, PerSeries, "drop_raw_if_exists",
                      "drop_raw", "rename_daily", "clear_sync", "grant_sync",
                      "archive_fed", "drop_fed_columns", "copy_rows", "values",
                      "refresher", "refresh_values", "drop_refresher"} \cup Added
    PROVE  ~Leaves(n, s, mode)
BY DEF Leaves, Skips, IsDeferred, IsRetired, IsPublication, PublicationVersion,
       Versions, Added

\* Before version 36 migrate builds no view a later version replaces,
LEMMA LeavesViews ==
    ASSUME NEW n \in Versions, n < 36, NEW mode \in Modes,
           NEW s \in {"wide_view_of_raw", "wide_view_of_series", "describe_view",
                      "drop_view_if_exists", "refresh_wide", "refresh_chain",
                      "extension", "describe_extension"}
    PROVE  Leaves(n, s, mode) <=> mode # "all"
BY DEF Leaves, Skips, IsDeferred, IsRetired, IsPublication, PublicationVersion, Versions

\* drops with CASCADE only where something is installed,
LEMMA LeavesCascade ==
    ASSUME NEW n \in Versions, n < 24 \/ n = 31, NEW mode \in Modes
    PROVE  Leaves(n, "drop_view_cascade", mode) <=> mode = "fresh"
BY DEF Leaves, Skips, IsDeferred, IsRetired, IsPublication, PublicationVersion,
       Versions, Modes

\* and from 36 on leaves nothing out.
LEMMA LeavesNothing ==
    ASSUME NEW n \in Versions, n >= 36, NEW mode \in Modes, NEW s
    PROVE  ~Leaves(n, s, mode)
BY DEF Leaves, Skips, IsDeferred, IsRetired, IsPublication, PublicationVersion, Versions

\* To take a version from every layout is to take it from every combination of
\* fields that has the layout.
LEMMA ByFields ==
    ASSUME NEW n \in Versions,
           \A l, r, c, v, f, w, g, a : \A mode \in Modes :
              Layout(n - 1, DB(l, r, c, v, f, w, g, a))
              /\ Shown(n - 1, mode, DB(l, r, c, v, f, w, g, a))
              => Taken(n, mode, DB(l, r, c, v, f, w, g, a))
    PROVE  Takes(n)
<1> SUFFICES ASSUME NEW d, NEW mode \in Modes, Layout(n - 1, d), Shown(n - 1, mode, d)
             PROVE  Taken(n, mode, d)
  BY DEF Takes
<1>1. d = DB(d.ledger, d.relations, d.columns, d.view, d.refresh, d.rows, d.digests,
             d.archive)
  BY DEF Layout, DB, DatabaseType
<1> QED
  BY <1>1

\* The type of a database, field by field.
LEMMA DatabaseFields ==
    ASSUME NEW l, NEW r, NEW c, NEW v, NEW f, NEW w, NEW g, NEW a
    PROVE  DB(l, r, c, v, f, w, g, a) \in DatabaseType <=>
             /\ l \in SUBSET Versions
             /\ r \in SUBSET {Daily, Raw, PerSeries, SyncState, RowHashes, FedTable,
                              Extension, Values, Refresher}
             /\ c \in SUBSET (Added \cup {"fed"})
             /\ v \in {None, Raw, PerSeries, "long_view", "observed_view", "reset_view"}
             /\ f \in {None, "refresh_wide", "refresh_chain", "refresh_long"}
             /\ w \in {None, Daily, Raw, PerSeries}
             /\ g \in BOOLEAN
             /\ a \in SUBSET FedOrigins
BY DEF DB, DatabaseType

\* Versions with the same statements.
LEMMA Lists ==
    /\ \A n \in {4, 5, 6, 7, 16, 17} : Migrations[n] = <<>>
    /\ \A n \in {12, 14, 15, 18, 21, 22, 23, 26, 27} : Migrations[n] = LegacyRebuild
    /\ Migrations[19] = AddColumn("available") /\ Migrations[25] = AddColumn("ohlc")
    /\ Migrations[28] = AddColumn("v28") /\ Migrations[29] = AddColumn("v29")
    /\ Migrations[30] = AddColumn("v30")
<1>1. Migrations[4] = <<>> /\ Migrations[5] = <<>> /\ Migrations[6] = <<>>
  BY DEF Migrations
<1>2. Migrations[7] = <<>> /\ Migrations[16] = <<>> /\ Migrations[17] = <<>>
  BY DEF Migrations
<1>3. /\ Migrations[12] = LegacyRebuild /\ Migrations[14] = LegacyRebuild
      /\ Migrations[15] = LegacyRebuild /\ Migrations[18] = LegacyRebuild
      /\ Migrations[21] = LegacyRebuild /\ Migrations[22] = LegacyRebuild
      /\ Migrations[23] = LegacyRebuild /\ Migrations[26] = LegacyRebuild
      /\ Migrations[27] = LegacyRebuild
  BY DEF Migrations
<1>4. /\ Migrations[19] = AddColumn("available") /\ Migrations[25] = AddColumn("ohlc")
      /\ Migrations[28] = AddColumn("v28") /\ Migrations[29] = AddColumn("v29")
      /\ Migrations[30] = AddColumn("v30")
  BY DEF Migrations
<1> QED
  BY <1>1, <1>2, <1>3, <1>4

\* Version 1 creates macro_raw, as today's statements define it.
LEMMA FirstTableTaken == Takes(1)
<1>0. 1 \in Versions
  BY DEF Versions
<1> SUFFICES ASSUME NEW l, NEW r, NEW c, NEW v, NEW f, NEW w, NEW g, NEW a,
                    NEW mode \in Modes, Layout(0, DB(l, r, c, v, f, w, g, a)),
                    Shown(0, mode, DB(l, r, c, v, f, w, g, a))
             PROVE  Taken(1, mode, DB(l, r, c, v, f, w, g, a))
  BY <1>0, ByFields
<1> DEFINE d == DB(l, r, c, v, f, w, g, a)
           columns == IF Raw \in r THEN c ELSE Added
           all == IF Raw \in r THEN r ELSE With(r, Raw)
           e == DB(l, all, columns, v, f, w, g, a)
<1>1. Len(Migrations[1]) = 1 /\ DOMAIN Migrations[1] = 1 .. 1
  BY DEF Migrations
<1>s1. Statement(1, 0, 1, "create_raw")
  BY <1>0, <1>1 DEF Statement, Migrations
<1>2. /\ "fed" \notin c
  BY Fields DEF Layout, Shown, Modes
<1>3. Reaches(d, 1, mode, 0, d)
  BY <1>0, <1>1, Starts
<1>4. Reaches(d, 1, mode, 1, e)
  <2>1. ~Leaves(1, "create_raw", mode)
    BY <1>0, LeavesNoTable
  <2>2. Possible(d, "create_raw") /\ Result(d, "create_raw") = e
    BY <1>0, <1>2, DoesCreateRaw, Members
  <2> HIDE DEF d, columns, all, e
  <2>3. Follows(1, "create_raw", mode, d, e)
    BY <2>1, <2>2 DEF Follows
  <2> QED
    BY <1>s1, <1>3, <2>3, Executes
<1>5. Layout(1, e)
  BY <1>2, Fields, DatabaseFields DEF Layout, With, Without, Added, FedOrigins
<1>6. Shown(1, mode, e) /\ Preserves(1, d, e)
  BY <1>2, Fields DEF Layout, Shown, Preserves, Active, Modes, With, Without,
         Added, FedOrigins
<1> QED
  BY <1>0, <1>1, <1>4, <1>5, <1>6, Finishes

\* Version 2 creates the checkpoint.
LEMMA SyncStateTaken == Takes(2)
<1>0. 2 \in Versions
  BY DEF Versions
<1> SUFFICES ASSUME NEW l, NEW r, NEW c, NEW v, NEW f, NEW w, NEW g, NEW a,
                    NEW mode \in Modes, Layout(1, DB(l, r, c, v, f, w, g, a)),
                    Shown(1, mode, DB(l, r, c, v, f, w, g, a))
             PROVE  Taken(2, mode, DB(l, r, c, v, f, w, g, a))
  BY <1>0, ByFields
<1> DEFINE d == DB(l, r, c, v, f, w, g, a)
           e == DB(l, With(r, SyncState), c, v, f, w, g, a)
<1>1. Len(Migrations[2]) = 1 /\ DOMAIN Migrations[2] = 1 .. 1
  BY DEF Migrations
<1>s1. Statement(2, 0, 1, SyncState)
  BY <1>0, <1>1 DEF Statement, Migrations
<1>3. Reaches(d, 2, mode, 0, d)
  BY <1>0, <1>1, Starts
<1>4. Reaches(d, 2, mode, 1, e)
  <2>1. ~Leaves(2, SyncState, mode)
    BY <1>0, LeavesNoTable
  <2>2. Possible(d, SyncState) /\ Result(d, SyncState) = e
    BY <1>0, DoesCreateSyncState, Members
  <2> HIDE DEF d, e
  <2>3. Follows(2, SyncState, mode, d, e)
    BY <2>1, <2>2 DEF Follows
  <2> QED
    BY <1>s1, <1>3, <2>3, Executes
<1>5. Layout(2, e)
  BY Fields, DatabaseFields DEF Layout, With, Without, Added, FedOrigins
<1>6. Shown(2, mode, e) /\ Preserves(2, d, e)
  BY Fields DEF Layout, Shown, Preserves, Active, Modes, With, Without,
         Added, FedOrigins
<1> QED
  BY <1>0, <1>1, <1>4, <1>5, <1>6, Finishes

\* Version 3 creates the digest index.
LEMMA RowHashesTaken == Takes(3)
<1>0. 3 \in Versions
  BY DEF Versions
<1> SUFFICES ASSUME NEW l, NEW r, NEW c, NEW v, NEW f, NEW w, NEW g, NEW a,
                    NEW mode \in Modes, Layout(2, DB(l, r, c, v, f, w, g, a)),
                    Shown(2, mode, DB(l, r, c, v, f, w, g, a))
             PROVE  Taken(3, mode, DB(l, r, c, v, f, w, g, a))
  BY <1>0, ByFields
<1> DEFINE d == DB(l, r, c, v, f, w, g, a)
           e == DB(l, With(r, RowHashes), c, v, f, w, g, a)
<1>1. Len(Migrations[3]) = 1 /\ DOMAIN Migrations[3] = 1 .. 1
  BY DEF Migrations
<1>s1. Statement(3, 0, 1, RowHashes)
  BY <1>0, <1>1 DEF Statement, Migrations
<1>3. Reaches(d, 3, mode, 0, d)
  BY <1>0, <1>1, Starts
<1>4. Reaches(d, 3, mode, 1, e)
  <2>1. ~Leaves(3, RowHashes, mode)
    BY <1>0, LeavesNoTable
  <2>2. Possible(d, RowHashes) /\ Result(d, RowHashes) = e
    BY <1>0, DoesCreateRowHashes, Members
  <2> HIDE DEF d, e
  <2>3. Follows(3, RowHashes, mode, d, e)
    BY <2>1, <2>2 DEF Follows
  <2> QED
    BY <1>s1, <1>3, <2>3, Executes
<1>5. Layout(3, e)
  BY Fields, DatabaseFields DEF Layout, With, Without, Added, FedOrigins
<1>6. Shown(3, mode, e) /\ Preserves(3, d, e)
  BY Fields DEF Layout, Shown, Preserves, Active, Modes, With, Without,
         Added, FedOrigins
<1> QED
  BY <1>0, <1>1, <1>4, <1>5, <1>6, Finishes

\* Versions whose statements do not matter to the others.
LEMMA EmptyTaken == ASSUME NEW n \in {4, 5, 6, 7, 16, 17} PROVE Takes(n)
<1>0. n \in Versions /\ n < 36
  BY DEF Versions
<1> SUFFICES ASSUME NEW l, NEW r, NEW c, NEW v, NEW f, NEW w, NEW g, NEW a,
                    NEW mode \in Modes, Layout(n - 1, DB(l, r, c, v, f, w, g, a)),
                    Shown(n - 1, mode, DB(l, r, c, v, f, w, g, a))
             PROVE  Taken(n, mode, DB(l, r, c, v, f, w, g, a))
  BY <1>0, ByFields
<1> DEFINE d == DB(l, r, c, v, f, w, g, a)
<1>a. Migrations[n] = <<>>
  BY Lists
<1>1. Len(Migrations[n]) = 0 /\ DOMAIN Migrations[n] = 1 .. 0
  BY <1>a
<1>3. Reaches(d, n, mode, 0, d)
  BY <1>0, <1>1, Starts
<1>4. Layout(n, d)
  BY Fields, DatabaseFields DEF Layout, With, Without, Added, FedOrigins
<1>5. Shown(n, mode, d) /\ Preserves(n, d, d)
  BY Fields DEF Layout, Shown, Preserves, Active, Modes, With, Without,
         Added, FedOrigins
<1> QED
  BY <1>0, <1>1, <1>3, <1>4, <1>5, Finishes

\* Version 8 creates macro_raw anew; the rows are in the daily table.
LEMMA ConsumerLayoutTaken == Takes(8)
<1>0. 8 \in Versions
  BY DEF Versions
<1> SUFFICES ASSUME NEW l, NEW r, NEW c, NEW v, NEW f, NEW w, NEW g, NEW a,
                    NEW mode \in Modes, Layout(7, DB(l, r, c, v, f, w, g, a)),
                    Shown(7, mode, DB(l, r, c, v, f, w, g, a))
             PROVE  Taken(8, mode, DB(l, r, c, v, f, w, g, a))
  BY <1>0, ByFields
<1> DEFINE d == DB(l, r, c, v, f, w, g, a)
           d1 == DB(l, Without(r, Raw), {}, v, f, w, g, a)
           e == DB(l, With(Without(r, Raw), Raw), Added, v, f, w, g, a)
<1>1. Len(Migrations[8]) = 2 /\ DOMAIN Migrations[8] = 1 .. 2
  BY DEF Migrations, ConsumerLayout
<1>s1. Statement(8, 0, 1, "drop_raw_if_exists")
  BY <1>0, <1>1 DEF Statement, Migrations, ConsumerLayout
<1>s2. Statement(8, 1, 2, "create_raw")
  BY <1>0, <1>1 DEF Statement, Migrations, ConsumerLayout
<1>2. /\ v = None /\ w # Raw /\ "fed" \notin c
  BY Fields DEF Layout, Shown, Modes
<1>3. Reaches(d, 8, mode, 0, d)
  BY <1>0, <1>1, Starts
<1>4. Reaches(d, 8, mode, 1, d1)
  <2>1. ~Leaves(8, "drop_raw_if_exists", mode)
    BY <1>0, LeavesNoTable
  <2>2. Possible(d, "drop_raw_if_exists") /\ Result(d, "drop_raw_if_exists") = d1
    BY <1>0, <1>2, DoesDropRawIfExists, Members
  <2> HIDE DEF d, d1, e
  <2>3. Follows(8, "drop_raw_if_exists", mode, d, d1)
    BY <2>1, <2>2 DEF Follows
  <2> QED
    BY <1>s1, <1>3, <2>3, Executes
<1>5. Reaches(d, 8, mode, 2, e)
  <2>1. ~Leaves(8, "create_raw", mode)
    BY <1>0, LeavesNoTable
  <2>2. Possible(d1, "create_raw") /\ Result(d1, "create_raw") = e
    BY <1>0, <1>2, DoesCreateRaw, Members
  <2> HIDE DEF d, d1, e
  <2>3. Follows(8, "create_raw", mode, d1, e)
    BY <2>1, <2>2 DEF Follows
  <2> QED
    BY <1>s2, <1>4, <2>3, Executes
<1>6. Layout(8, e)
  BY <1>2, Fields, DatabaseFields DEF Layout, With, Without, Added, FedOrigins
<1>7. Shown(8, mode, e) /\ Preserves(8, d, e)
  BY <1>2, Fields DEF Layout, Shown, Preserves, Active, Modes, With, Without,
         Added, FedOrigins
<1> QED
  BY <1>0, <1>1, <1>5, <1>6, <1>7, Finishes

\* Version 9 renames the daily table, if it is there, to macro_raw.
LEMMA RenameTaken == Takes(9)
<1>0. 9 \in Versions
  BY DEF Versions
<1> SUFFICES ASSUME NEW l, NEW r, NEW c, NEW v, NEW f, NEW w, NEW g, NEW a,
                    NEW mode \in Modes, Layout(8, DB(l, r, c, v, f, w, g, a)),
                    Shown(8, mode, DB(l, r, c, v, f, w, g, a))
             PROVE  Taken(9, mode, DB(l, r, c, v, f, w, g, a))
  BY <1>0, ByFields
<1> DEFINE d == DB(l, r, c, v, f, w, g, a)
           columns == IF Daily \in r THEN {} ELSE c
           all == IF Daily \in r THEN With(Without(r, Daily), Raw) ELSE r
           rows == IF w = Daily THEN Raw ELSE w
           e == DB(l, all, columns, v, f, rows, g, a)
<1>1. Len(Migrations[9]) = 1 /\ DOMAIN Migrations[9] = 1 .. 1
  BY DEF Migrations
<1>s1. Statement(9, 0, 1, "rename_daily")
  BY <1>0, <1>1 DEF Statement, Migrations
<1>2. /\ v = None /\ "fed" \notin c
      /\ Daily \in r \/ Raw \in r
      /\ w = None \/ (w = Daily /\ Daily \in r)
  BY Fields DEF Layout, Shown, Modes
<1>3. Reaches(d, 9, mode, 0, d)
  BY <1>0, <1>1, Starts
<1>4. Reaches(d, 9, mode, 1, e)
  <2>1. ~Leaves(9, "rename_daily", mode)
    BY <1>0, LeavesNoTable
  <2>2. Possible(d, "rename_daily") /\ Result(d, "rename_daily") = e
    BY <1>0, <1>2, DoesRenameDaily, Members
  <2> HIDE DEF d, columns, all, rows, e
  <2>3. Follows(9, "rename_daily", mode, d, e)
    BY <2>1, <2>2 DEF Follows
  <2> QED
    BY <1>s1, <1>3, <2>3, Executes
<1>5. Layout(9, e)
  BY <1>2, Fields, DatabaseFields DEF Layout, With, Without, Added, FedOrigins
<1>6. Shown(9, mode, e) /\ Preserves(9, d, e)
  BY <1>2, Fields DEF Layout, Shown, Preserves, Active, Modes, With, Without,
         Added, FedOrigins
<1> QED
  BY <1>0, <1>1, <1>4, <1>5, <1>6, Finishes

\* Version 10 creates the wide view.
LEMMA WideViewTaken == Takes(10)
<1>0. 10 \in Versions
  BY DEF Versions
<1> SUFFICES ASSUME NEW l, NEW r, NEW c, NEW v, NEW f, NEW w, NEW g, NEW a,
                    NEW mode \in Modes, Layout(9, DB(l, r, c, v, f, w, g, a)),
                    Shown(9, mode, DB(l, r, c, v, f, w, g, a))
             PROVE  Taken(10, mode, DB(l, r, c, v, f, w, g, a))
  BY <1>0, ByFields
<1> DEFINE d == DB(l, r, c, v, f, w, g, a)
           view == IF mode = "all" THEN Raw ELSE v
           e == DB(l, r, c, view, f, w, g, a)
<1>1. Len(Migrations[10]) = 2 /\ DOMAIN Migrations[10] = 1 .. 2
  BY DEF Migrations, WideView
<1>s1. Statement(10, 0, 1, "wide_view_of_raw")
  BY <1>0, <1>1 DEF Statement, Migrations, WideView
<1>s2. Statement(10, 1, 2, "describe_view")
  BY <1>0, <1>1 DEF Statement, Migrations, WideView
<1>2. /\ v = None /\ Raw \in r
  BY Fields DEF Layout, Shown, Modes
<1>3. Reaches(d, 10, mode, 0, d)
  BY <1>0, <1>1, Starts
<1>4. Reaches(d, 10, mode, 1, e)
  <2>1. Leaves(10, "wide_view_of_raw", mode) <=> mode # "all"
    BY <1>0, LeavesViews
  <2>2. IF mode # "all" THEN d = e
        ELSE Possible(d, "wide_view_of_raw") /\ Result(d, "wide_view_of_raw") = e
    BY <1>2, DoesWideViewOfRaw, Members DEF Modes
  <2> HIDE DEF d, view, e
  <2>3. Follows(10, "wide_view_of_raw", mode, d, e)
    BY <2>1, <2>2 DEF Follows
  <2> QED
    BY <1>s1, <1>3, <2>3, Executes
<1>5. Reaches(d, 10, mode, 2, e)
  <2>1. Leaves(10, "describe_view", mode) <=> mode # "all"
    BY <1>0, LeavesViews
  <2>2. IF mode # "all" THEN e = e
        ELSE Possible(e, "describe_view") /\ Result(e, "describe_view") = e
    BY <1>2, DoesDescribeView, Members DEF Modes
  <2> HIDE DEF d, view, e
  <2>3. Follows(10, "describe_view", mode, e, e)
    BY <2>1, <2>2 DEF Follows
  <2> QED
    BY <1>s2, <1>4, <2>3, Executes
<1>6. Layout(10, e)
  BY <1>2, Fields, DatabaseFields DEF Layout, With, Without, Added, FedOrigins
<1>7. Shown(10, mode, e) /\ Preserves(10, d, e)
  BY <1>2, Fields DEF Layout, Shown, Preserves, Active, Modes, With, Without,
         Added, FedOrigins
<1> QED
  BY <1>0, <1>1, <1>5, <1>6, <1>7, Finishes

\* Version 11 starts over: rows, digests and checkpoint go together.
LEMMA RawOnlyLayoutTaken == Takes(11)
<1>0. 11 \in Versions
  BY DEF Versions
<1> SUFFICES ASSUME NEW l, NEW r, NEW c, NEW v, NEW f, NEW w, NEW g, NEW a,
                    NEW mode \in Modes, Layout(10, DB(l, r, c, v, f, w, g, a)),
                    Shown(10, mode, DB(l, r, c, v, f, w, g, a))
             PROVE  Taken(11, mode, DB(l, r, c, v, f, w, g, a))
  BY <1>0, ByFields
<1> DEFINE d == DB(l, r, c, v, f, w, g, a)
           d1 == DB(l, r, c, None, f, w, g, a)
           d2 == DB(l, Without(r, Raw), {}, None, f, None, g, a)
           d3 == DB(l, With(Without(r, Raw), Raw), Added, None, f, None, g, a)
           e == DB(l, With(Without(r, Raw), Raw), Added, None, f, None, Unset, a)
<1>1. Len(Migrations[11]) = 4 /\ DOMAIN Migrations[11] = 1 .. 4
  BY DEF Migrations, RawOnlyLayout
<1>s1. Statement(11, 0, 1, "drop_view_cascade")
  BY <1>0, <1>1 DEF Statement, Migrations, RawOnlyLayout
<1>s2. Statement(11, 1, 2, "drop_raw_if_exists")
  BY <1>0, <1>1 DEF Statement, Migrations, RawOnlyLayout
<1>s3. Statement(11, 2, 3, "create_raw")
  BY <1>0, <1>1 DEF Statement, Migrations, RawOnlyLayout
<1>s4. Statement(11, 3, 4, "clear_sync")
  BY <1>0, <1>1 DEF Statement, Migrations, RawOnlyLayout
<1>2. /\ Raw \in r /\ SyncState \in r /\ RowHashes \in r /\ Daily \notin r
      /\ w \in {None, Raw} /\ "fed" \notin c
      /\ mode = "fresh" => v = None
  BY Fields DEF Layout, Shown, Modes
<1>3. Reaches(d, 11, mode, 0, d)
  BY <1>0, <1>1, Starts
<1>4. Reaches(d, 11, mode, 1, d1)
  <2>1. Leaves(11, "drop_view_cascade", mode) <=> mode = "fresh"
    BY <1>0, LeavesCascade
  <2>2. IF mode = "fresh" THEN d = d1
        ELSE Possible(d, "drop_view_cascade") /\ Result(d, "drop_view_cascade") = d1
    BY <1>2, DoesDropViewCascade, Members DEF Modes
  <2> HIDE DEF d, d1, d2, d3, e
  <2>3. Follows(11, "drop_view_cascade", mode, d, d1)
    BY <2>1, <2>2 DEF Follows
  <2> QED
    BY <1>s1, <1>3, <2>3, Executes
<1>5. Reaches(d, 11, mode, 2, d2)
  <2>1. ~Leaves(11, "drop_raw_if_exists", mode)
    BY <1>0, LeavesNoTable
  <2>2. Possible(d1, "drop_raw_if_exists") /\ Result(d1, "drop_raw_if_exists") = d2
    BY <1>0, <1>2, DoesDropRawIfExists, Members
  <2> HIDE DEF d, d1, d2, d3, e
  <2>3. Follows(11, "drop_raw_if_exists", mode, d1, d2)
    BY <2>1, <2>2 DEF Follows
  <2> QED
    BY <1>s2, <1>4, <2>3, Executes
<1>6. Reaches(d, 11, mode, 3, d3)
  <2>1. ~Leaves(11, "create_raw", mode)
    BY <1>0, LeavesNoTable
  <2>2. Possible(d2, "create_raw") /\ Result(d2, "create_raw") = d3
    BY <1>0, <1>2, DoesCreateRaw, Members
  <2> HIDE DEF d, d1, d2, d3, e
  <2>3. Follows(11, "create_raw", mode, d2, d3)
    BY <2>1, <2>2 DEF Follows
  <2> QED
    BY <1>s3, <1>5, <2>3, Executes
<1>7. Reaches(d, 11, mode, 4, e)
  <2>1. ~Leaves(11, "clear_sync", mode)
    BY <1>0, LeavesNoTable
  <2>2. Possible(d3, "clear_sync") /\ Result(d3, "clear_sync") = e
    BY <1>0, <1>2, DoesClearSync, Members
  <2> HIDE DEF d, d1, d2, d3, e
  <2>3. Follows(11, "clear_sync", mode, d3, e)
    BY <2>1, <2>2 DEF Follows
  <2> QED
    BY <1>s4, <1>6, <2>3, Executes
<1>8. Layout(11, e)
  BY <1>2, Fields, DatabaseFields, UnsetIsFalse DEF Layout, With, Without, Added, FedOrigins
<1>9. Shown(11, mode, e) /\ Preserves(11, d, e)
  BY <1>2, Fields DEF Layout, Shown, Preserves, Active, Modes, With, Without,
         Added, FedOrigins
<1> QED
  BY <1>0, <1>1, <1>7, <1>8, <1>9, Finishes

\* Versions that rebuild the wide view.
LEMMA LegacyRebuildTaken == ASSUME NEW n \in {12, 14, 15, 18, 21, 22, 23, 26, 27} PROVE Takes(n)
<1>0. n \in Versions /\ n < 36
  BY DEF Versions
<1> SUFFICES ASSUME NEW l, NEW r, NEW c, NEW v, NEW f, NEW w, NEW g, NEW a,
                    NEW mode \in Modes, Layout(n - 1, DB(l, r, c, v, f, w, g, a)),
                    Shown(n - 1, mode, DB(l, r, c, v, f, w, g, a))
             PROVE  Taken(n, mode, DB(l, r, c, v, f, w, g, a))
  BY <1>0, ByFields
<1> DEFINE d == DB(l, r, c, v, f, w, g, a)
           gone == IF mode = "all" THEN None ELSE v
           view == IF mode = "all" THEN Raw ELSE v
           d1 == DB(l, r, c, gone, f, w, g, a)
           e == DB(l, r, c, view, f, w, g, a)
<1>a. Migrations[n] = LegacyRebuild
  BY Lists
<1>1. Len(Migrations[n]) = 3 /\ DOMAIN Migrations[n] = 1 .. 3
  BY <1>a DEF LegacyRebuild
<1>s1. Statement(n, 0, 1, "drop_view_if_exists")
  BY <1>0, <1>1, <1>a DEF Statement, LegacyRebuild
<1>s2. Statement(n, 1, 2, "wide_view_of_raw")
  BY <1>0, <1>1, <1>a DEF Statement, LegacyRebuild
<1>s3. Statement(n, 2, 3, "describe_view")
  BY <1>0, <1>1, <1>a DEF Statement, LegacyRebuild
<1>2. /\ Raw \in r /\ v \in {None, Raw}
      /\ mode = "fresh" => v = None
  BY Fields DEF Layout, Shown, Modes
<1>3. Reaches(d, n, mode, 0, d)
  BY <1>0, <1>1, Starts
<1>4. Reaches(d, n, mode, 1, d1)
  <2>1. Leaves(n, "drop_view_if_exists", mode) <=> mode # "all"
    BY <1>0, LeavesViews
  <2>2. IF mode # "all" THEN d = d1
        ELSE Possible(d, "drop_view_if_exists") /\ Result(d, "drop_view_if_exists") = d1
    BY <1>2, DoesDropViewIfExists, Members DEF Modes
  <2> HIDE DEF d, d1, gone, view, e
  <2>3. Follows(n, "drop_view_if_exists", mode, d, d1)
    BY <2>1, <2>2 DEF Follows
  <2> QED
    BY <1>s1, <1>3, <2>3, Executes
<1>5. Reaches(d, n, mode, 2, e)
  <2>1. Leaves(n, "wide_view_of_raw", mode) <=> mode # "all"
    BY <1>0, LeavesViews
  <2>2. IF mode # "all" THEN d1 = e
        ELSE Possible(d1, "wide_view_of_raw") /\ Result(d1, "wide_view_of_raw") = e
    BY <1>2, DoesWideViewOfRaw, Members DEF Modes
  <2> HIDE DEF d, d1, gone, view, e
  <2>3. Follows(n, "wide_view_of_raw", mode, d1, e)
    BY <2>1, <2>2 DEF Follows
  <2> QED
    BY <1>s2, <1>4, <2>3, Executes
<1>6. Reaches(d, n, mode, 3, e)
  <2>1. Leaves(n, "describe_view", mode) <=> mode # "all"
    BY <1>0, LeavesViews
  <2>2. IF mode # "all" THEN e = e
        ELSE Possible(e, "describe_view") /\ Result(e, "describe_view") = e
    BY <1>2, DoesDescribeView, Members DEF Modes
  <2> HIDE DEF d, d1, gone, view, e
  <2>3. Follows(n, "describe_view", mode, e, e)
    BY <2>1, <2>2 DEF Follows
  <2> QED
    BY <1>s3, <1>5, <2>3, Executes
<1>7. Layout(n, e)
  BY <1>2, Fields, DatabaseFields DEF Layout, With, Without, Added, FedOrigins
<1>8. Shown(n, mode, e) /\ Preserves(n, d, e)
  BY <1>2, Fields DEF Layout, Shown, Preserves, Active, Modes, With, Without,
         Added, FedOrigins
<1> QED
  BY <1>0, <1>1, <1>6, <1>7, <1>8, Finishes

\* Version 13 creates the refresh function of the wide view.
LEMMA RefreshFunctionTaken == Takes(13)
<1>0. 13 \in Versions
  BY DEF Versions
<1> SUFFICES ASSUME NEW l, NEW r, NEW c, NEW v, NEW f, NEW w, NEW g, NEW a,
                    NEW mode \in Modes, Layout(12, DB(l, r, c, v, f, w, g, a)),
                    Shown(12, mode, DB(l, r, c, v, f, w, g, a))
             PROVE  Taken(13, mode, DB(l, r, c, v, f, w, g, a))
  BY <1>0, ByFields
<1> DEFINE d == DB(l, r, c, v, f, w, g, a)
           refresh == IF mode = "all" THEN "refresh_wide" ELSE f
           e == DB(l, r, c, v, refresh, w, g, a)
<1>1. Len(Migrations[13]) = 3 /\ DOMAIN Migrations[13] = 1 .. 3
  BY DEF Migrations, RefreshFunction
<1>s1. Statement(13, 0, 1, "refresh_wide")
  BY <1>0, <1>1 DEF Statement, Migrations, RefreshFunction
<1>s2. Statement(13, 1, 2, "grant_sync")
  BY <1>0, <1>1 DEF Statement, Migrations, RefreshFunction
<1>s3. Statement(13, 2, 3, "describe_view")
  BY <1>0, <1>1 DEF Statement, Migrations, RefreshFunction
<1>2. /\ SyncState \in r /\ RowHashes \in r
      /\ mode = "all" => v # None
  BY Fields DEF Layout, Shown, Modes
<1>3. Reaches(d, 13, mode, 0, d)
  BY <1>0, <1>1, Starts
<1>4. Reaches(d, 13, mode, 1, e)
  <2>1. Leaves(13, "refresh_wide", mode) <=> mode # "all"
    BY <1>0, LeavesViews
  <2>2. IF mode # "all" THEN d = e
        ELSE Possible(d, "refresh_wide") /\ Result(d, "refresh_wide") = e
    BY <1>2, DoesRefreshWide, Members DEF Modes
  <2> HIDE DEF d, refresh, e
  <2>3. Follows(13, "refresh_wide", mode, d, e)
    BY <2>1, <2>2 DEF Follows
  <2> QED
    BY <1>s1, <1>3, <2>3, Executes
<1>5. Reaches(d, 13, mode, 2, e)
  <2>1. ~Leaves(13, "grant_sync", mode)
    BY <1>0, LeavesNoTable
  <2>2. Possible(e, "grant_sync") /\ Result(e, "grant_sync") = e
    BY <1>0, <1>2, DoesGrantSync, Members
  <2> HIDE DEF d, refresh, e
  <2>3. Follows(13, "grant_sync", mode, e, e)
    BY <2>1, <2>2 DEF Follows
  <2> QED
    BY <1>s2, <1>4, <2>3, Executes
<1>6. Reaches(d, 13, mode, 3, e)
  <2>1. Leaves(13, "describe_view", mode) <=> mode # "all"
    BY <1>0, LeavesViews
  <2>2. IF mode # "all" THEN e = e
        ELSE Possible(e, "describe_view") /\ Result(e, "describe_view") = e
    BY <1>2, DoesDescribeView, Members DEF Modes
  <2> HIDE DEF d, refresh, e
  <2>3. Follows(13, "describe_view", mode, e, e)
    BY <2>1, <2>2 DEF Follows
  <2> QED
    BY <1>s3, <1>5, <2>3, Executes
<1>7. Layout(13, e)
  BY <1>2, Fields, DatabaseFields DEF Layout, With, Without, Added, FedOrigins
<1>8. Shown(13, mode, e) /\ Preserves(13, d, e)
  BY <1>2, Fields DEF Layout, Shown, Preserves, Active, Modes, With, Without,
         Added, FedOrigins
<1> QED
  BY <1>0, <1>1, <1>6, <1>7, <1>8, Finishes

\* Versions that add a column and rebuild the wide view.
LEMMA AddColumnTaken == ASSUME NEW n, NEW x,
           <<n, x>> \in {<<19, "available">>, <<25, "ohlc">>, <<28, "v28">>,
                         <<29, "v29">>, <<30, "v30">>}
     PROVE Takes(n)
<1>0. n \in Versions /\ n < 36 /\ x \in Added
  BY DEF Versions, Added
<1> SUFFICES ASSUME NEW l, NEW r, NEW c, NEW v, NEW f, NEW w, NEW g, NEW a,
                    NEW mode \in Modes, Layout(n - 1, DB(l, r, c, v, f, w, g, a)),
                    Shown(n - 1, mode, DB(l, r, c, v, f, w, g, a))
             PROVE  Taken(n, mode, DB(l, r, c, v, f, w, g, a))
  BY <1>0, ByFields
<1> DEFINE d == DB(l, r, c, v, f, w, g, a)
           gone == IF mode = "all" THEN None ELSE v
           view == IF mode = "all" THEN Raw ELSE v
           d1 == DB(l, r, With(c, x), v, f, w, g, a)
           d2 == DB(l, r, With(c, x), gone, f, w, g, a)
           e == DB(l, r, With(c, x), view, f, w, g, a)
<1>a. Migrations[n] = AddColumn(x)
  BY Lists
<1>1. Len(Migrations[n]) = 4 /\ DOMAIN Migrations[n] = 1 .. 4
  BY <1>a DEF AddColumn
<1>s1. Statement(n, 0, 1, x)
  BY <1>0, <1>1, <1>a DEF Statement, AddColumn
<1>s2. Statement(n, 1, 2, "drop_view_if_exists")
  BY <1>0, <1>1, <1>a DEF Statement, AddColumn
<1>s3. Statement(n, 2, 3, "wide_view_of_raw")
  BY <1>0, <1>1, <1>a DEF Statement, AddColumn
<1>s4. Statement(n, 3, 4, "describe_view")
  BY <1>0, <1>1, <1>a DEF Statement, AddColumn
<1>2. /\ Raw \in r /\ v \in {None, Raw}
      /\ mode = "fresh" => v = None
  BY Fields DEF Layout, Shown, Modes
<1>3. Reaches(d, n, mode, 0, d)
  BY <1>0, <1>1, Starts
<1>4. Reaches(d, n, mode, 1, d1)
  <2>1. ~Leaves(n, x, mode)
    BY <1>0, LeavesNoTable
  <2>2. Possible(d, x) /\ Result(d, x) = d1
    BY <1>0, <1>2, DoesAddColumn, Members
  <2> HIDE DEF d, d1, d2, gone, view, e
  <2>3. Follows(n, x, mode, d, d1)
    BY <2>1, <2>2 DEF Follows
  <2> QED
    BY <1>s1, <1>3, <2>3, Executes
<1>5. Reaches(d, n, mode, 2, d2)
  <2>1. Leaves(n, "drop_view_if_exists", mode) <=> mode # "all"
    BY <1>0, LeavesViews
  <2>2. IF mode # "all" THEN d1 = d2
        ELSE Possible(d1, "drop_view_if_exists") /\ Result(d1, "drop_view_if_exists") = d2
    BY <1>2, DoesDropViewIfExists, Members DEF Modes
  <2> HIDE DEF d, d1, d2, gone, view, e
  <2>3. Follows(n, "drop_view_if_exists", mode, d1, d2)
    BY <2>1, <2>2 DEF Follows
  <2> QED
    BY <1>s2, <1>4, <2>3, Executes
<1>6. Reaches(d, n, mode, 3, e)
  <2>1. Leaves(n, "wide_view_of_raw", mode) <=> mode # "all"
    BY <1>0, LeavesViews
  <2>2. IF mode # "all" THEN d2 = e
        ELSE Possible(d2, "wide_view_of_raw") /\ Result(d2, "wide_view_of_raw") = e
    BY <1>2, DoesWideViewOfRaw, Members DEF Modes
  <2> HIDE DEF d, d1, d2, gone, view, e
  <2>3. Follows(n, "wide_view_of_raw", mode, d2, e)
    BY <2>1, <2>2 DEF Follows
  <2> QED
    BY <1>s3, <1>5, <2>3, Executes
<1>7. Reaches(d, n, mode, 4, e)
  <2>1. Leaves(n, "describe_view", mode) <=> mode # "all"
    BY <1>0, LeavesViews
  <2>2. IF mode # "all" THEN e = e
        ELSE Possible(e, "describe_view") /\ Result(e, "describe_view") = e
    BY <1>2, DoesDescribeView, Members DEF Modes
  <2> HIDE DEF d, d1, d2, gone, view, e
  <2>3. Follows(n, "describe_view", mode, e, e)
    BY <2>1, <2>2 DEF Follows
  <2> QED
    BY <1>s4, <1>6, <2>3, Executes
<1>8. Layout(n, e)
  BY <1>2, Fields, DatabaseFields DEF Layout, With, Without, Added, FedOrigins
<1>9. Shown(n, mode, e) /\ Preserves(n, d, e)
  BY <1>2, Fields DEF Layout, Shown, Preserves, Active, Modes, With, Without,
         Added, FedOrigins
<1> QED
  BY <1>0, <1>1, <1>7, <1>8, <1>9, Finishes

\* Version 20 archives the Fed data before it drops it.
LEMMA FedArchiveTaken == Takes(20)
<1>0. 20 \in Versions
  BY DEF Versions
<1> SUFFICES ASSUME NEW l, NEW r, NEW c, NEW v, NEW f, NEW w, NEW g, NEW a,
                    NEW mode \in Modes, Layout(19, DB(l, r, c, v, f, w, g, a)),
                    Shown(19, mode, DB(l, r, c, v, f, w, g, a))
             PROVE  Taken(20, mode, DB(l, r, c, v, f, w, g, a))
  BY <1>0, ByFields
<1> DEFINE d == DB(l, r, c, v, f, w, g, a)
           archive == Archived(r, c, a)
           view == IF mode = "all" THEN Raw ELSE None
           d1 == DB(l, Without(r, FedTable), c, v, f, w, g, archive)
           d2 == DB(l, Without(r, FedTable), c, None, f, w, g, archive)
           d3 == DB(l, Without(r, FedTable), Without(c, "fed"), None, f, w, g, archive)
           e == DB(l, Without(r, FedTable), Without(c, "fed"), view, f, w, g, archive)
<1>1. Len(Migrations[20]) = 5 /\ DOMAIN Migrations[20] = 1 .. 5
  BY DEF Migrations, FedArchive
<1>s1. Statement(20, 0, 1, "archive_fed")
  BY <1>0, <1>1 DEF Statement, Migrations, FedArchive
<1>s2. Statement(20, 1, 2, "drop_view_cascade")
  BY <1>0, <1>1 DEF Statement, Migrations, FedArchive
<1>s3. Statement(20, 2, 3, "drop_fed_columns")
  BY <1>0, <1>1 DEF Statement, Migrations, FedArchive
<1>s4. Statement(20, 3, 4, "wide_view_of_raw")
  BY <1>0, <1>1 DEF Statement, Migrations, FedArchive
<1>s5. Statement(20, 4, 5, "describe_view")
  BY <1>0, <1>1 DEF Statement, Migrations, FedArchive
<1>2. /\ Raw \in r /\ SyncState \in r /\ RowHashes \in r /\ v \in {None, Raw}
      /\ "available" \in c
      /\ mode = "fresh" => v = None
  BY Fields DEF Layout, Shown, Modes
<1>3. Reaches(d, 20, mode, 0, d)
  BY <1>0, <1>1, Starts
<1>4. Reaches(d, 20, mode, 1, d1)
  <2>1. ~Leaves(20, "archive_fed", mode)
    BY <1>0, LeavesNoTable
  <2>2. Possible(d, "archive_fed") /\ Result(d, "archive_fed") = d1
    BY <1>0, <1>2, DoesArchiveFed, Members
  <2> HIDE DEF d, d1, d2, d3, archive, view, e
  <2>3. Follows(20, "archive_fed", mode, d, d1)
    BY <2>1, <2>2 DEF Follows
  <2> QED
    BY <1>s1, <1>3, <2>3, Executes
<1>5. Reaches(d, 20, mode, 2, d2)
  <2>1. Leaves(20, "drop_view_cascade", mode) <=> mode = "fresh"
    BY <1>0, LeavesCascade
  <2>2. IF mode = "fresh" THEN d1 = d2
        ELSE Possible(d1, "drop_view_cascade") /\ Result(d1, "drop_view_cascade") = d2
    BY <1>2, DoesDropViewCascade, Members DEF Modes
  <2> HIDE DEF d, d1, d2, d3, archive, view, e
  <2>3. Follows(20, "drop_view_cascade", mode, d1, d2)
    BY <2>1, <2>2 DEF Follows
  <2> QED
    BY <1>s2, <1>4, <2>3, Executes
<1>6. Reaches(d, 20, mode, 3, d3)
  <2>1. ~Leaves(20, "drop_fed_columns", mode)
    BY <1>0, LeavesNoTable
  <2>2. Possible(d2, "drop_fed_columns") /\ Result(d2, "drop_fed_columns") = d3
    BY <1>0, <1>2, DoesDropFedColumns, Members
  <2> HIDE DEF d, d1, d2, d3, archive, view, e
  <2>3. Follows(20, "drop_fed_columns", mode, d2, d3)
    BY <2>1, <2>2 DEF Follows
  <2> QED
    BY <1>s3, <1>5, <2>3, Executes
<1>7. Reaches(d, 20, mode, 4, e)
  <2>1. Leaves(20, "wide_view_of_raw", mode) <=> mode # "all"
    BY <1>0, LeavesViews
  <2>2. IF mode # "all" THEN d3 = e
        ELSE Possible(d3, "wide_view_of_raw") /\ Result(d3, "wide_view_of_raw") = e
    BY <1>2, DoesWideViewOfRaw, Members DEF Modes
  <2> HIDE DEF d, d1, d2, d3, archive, view, e
  <2>3. Follows(20, "wide_view_of_raw", mode, d3, e)
    BY <2>1, <2>2 DEF Follows
  <2> QED
    BY <1>s4, <1>6, <2>3, Executes
<1>8. Reaches(d, 20, mode, 5, e)
  <2>1. Leaves(20, "describe_view", mode) <=> mode # "all"
    BY <1>0, LeavesViews
  <2>2. IF mode # "all" THEN e = e
        ELSE Possible(e, "describe_view") /\ Result(e, "describe_view") = e
    BY <1>2, DoesDescribeView, Members DEF Modes
  <2> HIDE DEF d, d1, d2, d3, archive, view, e
  <2>3. Follows(20, "describe_view", mode, e, e)
    BY <2>1, <2>2 DEF Follows
  <2> QED
    BY <1>s5, <1>7, <2>3, Executes
<1>9. Layout(20, e)
  BY <1>2, Fields, DatabaseFields DEF Layout, With, Without, Added, FedOrigins,
         Archived, ActiveIn
<1>10. Shown(20, mode, e) /\ Preserves(20, d, e)
  BY <1>2, Fields DEF Layout, Shown, Preserves, Active, Modes, With, Without,
         Added, FedOrigins, Archived, ActiveIn
<1> QED
  BY <1>0, <1>1, <1>8, <1>9, <1>10, Finishes

\* Version 24 adds the price columns, and what drift left out.
LEMMA AddColumnsTaken == Takes(24)
<1>0. 24 \in Versions
  BY DEF Versions
<1> SUFFICES ASSUME NEW l, NEW r, NEW c, NEW v, NEW f, NEW w, NEW g, NEW a,
                    NEW mode \in Modes, Layout(23, DB(l, r, c, v, f, w, g, a)),
                    Shown(23, mode, DB(l, r, c, v, f, w, g, a))
             PROVE  Taken(24, mode, DB(l, r, c, v, f, w, g, a))
  BY <1>0, ByFields
<1> DEFINE d == DB(l, r, c, v, f, w, g, a)
           columns == With(With(c, "available"), "ohlc")
           gone == IF mode = "all" THEN None ELSE v
           view == IF mode = "all" THEN Raw ELSE v
           d1 == DB(l, r, With(c, "available"), v, f, w, g, a)
           d2 == DB(l, r, columns, v, f, w, g, a)
           d3 == DB(l, r, columns, gone, f, w, g, a)
           e == DB(l, r, columns, view, f, w, g, a)
<1>1. Len(Migrations[24]) = 5 /\ DOMAIN Migrations[24] = 1 .. 5
  BY DEF Migrations, AddColumns
<1>s1. Statement(24, 0, 1, "available")
  BY <1>0, <1>1 DEF Statement, Migrations, AddColumns
<1>s2. Statement(24, 1, 2, "ohlc")
  BY <1>0, <1>1 DEF Statement, Migrations, AddColumns
<1>s3. Statement(24, 2, 3, "drop_view_if_exists")
  BY <1>0, <1>1 DEF Statement, Migrations, AddColumns
<1>s4. Statement(24, 3, 4, "wide_view_of_raw")
  BY <1>0, <1>1 DEF Statement, Migrations, AddColumns
<1>s5. Statement(24, 4, 5, "describe_view")
  BY <1>0, <1>1 DEF Statement, Migrations, AddColumns
<1>2. /\ Raw \in r /\ v \in {None, Raw}
      /\ mode = "fresh" => v = None
  BY Fields DEF Layout, Shown, Modes
<1>3. Reaches(d, 24, mode, 0, d)
  BY <1>0, <1>1, Starts
<1>4. Reaches(d, 24, mode, 1, d1)
  <2>1. ~Leaves(24, "available", mode)
    BY <1>0, LeavesNoTable DEF Added
  <2>2. Possible(d, "available") /\ Result(d, "available") = d1
    BY <1>0, <1>2, DoesAddColumn, Members DEF Added
  <2> HIDE DEF d, d1, d2, d3, columns, gone, view, e
  <2>3. Follows(24, "available", mode, d, d1)
    BY <2>1, <2>2 DEF Follows
  <2> QED
    BY <1>s1, <1>3, <2>3, Executes
<1>5. Reaches(d, 24, mode, 2, d2)
  <2>1. ~Leaves(24, "ohlc", mode)
    BY <1>0, LeavesNoTable DEF Added
  <2>2. Possible(d1, "ohlc") /\ Result(d1, "ohlc") = d2
    BY <1>0, <1>2, DoesAddColumn, Members DEF Added
  <2> HIDE DEF d, d1, d2, d3, columns, gone, view, e
  <2>3. Follows(24, "ohlc", mode, d1, d2)
    BY <2>1, <2>2 DEF Follows
  <2> QED
    BY <1>s2, <1>4, <2>3, Executes
<1>6. Reaches(d, 24, mode, 3, d3)
  <2>1. Leaves(24, "drop_view_if_exists", mode) <=> mode # "all"
    BY <1>0, LeavesViews
  <2>2. IF mode # "all" THEN d2 = d3
        ELSE Possible(d2, "drop_view_if_exists") /\ Result(d2, "drop_view_if_exists") = d3
    BY <1>2, DoesDropViewIfExists, Members DEF Modes
  <2> HIDE DEF d, d1, d2, d3, columns, gone, view, e
  <2>3. Follows(24, "drop_view_if_exists", mode, d2, d3)
    BY <2>1, <2>2 DEF Follows
  <2> QED
    BY <1>s3, <1>5, <2>3, Executes
<1>7. Reaches(d, 24, mode, 4, e)
  <2>1. Leaves(24, "wide_view_of_raw", mode) <=> mode # "all"
    BY <1>0, LeavesViews
  <2>2. IF mode # "all" THEN d3 = e
        ELSE Possible(d3, "wide_view_of_raw") /\ Result(d3, "wide_view_of_raw") = e
    BY <1>2, DoesWideViewOfRaw, Members DEF Modes
  <2> HIDE DEF d, d1, d2, d3, columns, gone, view, e
  <2>3. Follows(24, "wide_view_of_raw", mode, d3, e)
    BY <2>1, <2>2 DEF Follows
  <2> QED
    BY <1>s4, <1>6, <2>3, Executes
<1>8. Reaches(d, 24, mode, 5, e)
  <2>1. Leaves(24, "describe_view", mode) <=> mode # "all"
    BY <1>0, LeavesViews
  <2>2. IF mode # "all" THEN e = e
        ELSE Possible(e, "describe_view") /\ Result(e, "describe_view") = e
    BY <1>2, DoesDescribeView, Members DEF Modes
  <2> HIDE DEF d, d1, d2, d3, columns, gone, view, e
  <2>3. Follows(24, "describe_view", mode, e, e)
    BY <2>1, <2>2 DEF Follows
  <2> QED
    BY <1>s5, <1>7, <2>3, Executes
<1>9. Layout(24, e)
  BY <1>2, Fields, DatabaseFields DEF Layout, With, Without, Added, FedOrigins
<1>10. Shown(24, mode, e) /\ Preserves(24, d, e)
  BY <1>2, Fields DEF Layout, Shown, Preserves, Active, Modes, With, Without,
         Added, FedOrigins
<1> QED
  BY <1>0, <1>1, <1>8, <1>9, <1>10, Finishes

\* Version 31 moves the rows into a table per series.
LEMMA SeriesTablesTaken == Takes(31)
<1>0. 31 \in Versions
  BY DEF Versions
<1> SUFFICES ASSUME NEW l, NEW r, NEW c, NEW v, NEW f, NEW w, NEW g, NEW a,
                    NEW mode \in Modes, Layout(30, DB(l, r, c, v, f, w, g, a)),
                    Shown(30, mode, DB(l, r, c, v, f, w, g, a))
             PROVE  Taken(31, mode, DB(l, r, c, v, f, w, g, a))
  BY <1>0, ByFields
<1> DEFINE d == DB(l, r, c, v, f, w, g, a)
           rows == IF w = Raw THEN PerSeries ELSE None
           left == Without(With(r, PerSeries), Raw)
           view == IF mode = "all" THEN PerSeries ELSE None
           d1 == DB(l, r, c, None, f, w, g, a)
           d2 == DB(l, With(r, PerSeries), c, None, f, w, g, a)
           d3 == DB(l, With(r, PerSeries), c, None, f, rows, g, a)
           d4 == DB(l, left, {}, None, f, rows, g, a)
           e == DB(l, left, {}, view, f, rows, g, a)
<1>1. Len(Migrations[31]) = 7 /\ DOMAIN Migrations[31] = 1 .. 7
  BY DEF Migrations, SeriesTables
<1>s1. Statement(31, 0, 1, "drop_view_cascade")
  BY <1>0, <1>1 DEF Statement, Migrations, SeriesTables
<1>s2. Statement(31, 1, 2, PerSeries)
  BY <1>0, <1>1 DEF Statement, Migrations, SeriesTables
<1>s3. Statement(31, 2, 3, "copy_rows")
  BY <1>0, <1>1 DEF Statement, Migrations, SeriesTables
<1>s4. Statement(31, 3, 4, "drop_raw")
  BY <1>0, <1>1 DEF Statement, Migrations, SeriesTables
<1>s5. Statement(31, 4, 5, "drop_view_if_exists")
  BY <1>0, <1>1 DEF Statement, Migrations, SeriesTables
<1>s6. Statement(31, 5, 6, "wide_view_of_series")
  BY <1>0, <1>1 DEF Statement, Migrations, SeriesTables
<1>s7. Statement(31, 6, 7, "describe_view")
  BY <1>0, <1>1 DEF Statement, Migrations, SeriesTables
<1>2. /\ Raw \in r /\ {"ohlc", "v28", "v29", "v30"} \subseteq c /\ w \in {None, Raw}
      /\ mode = "fresh" => v = None
  BY Fields DEF Layout, Shown, Modes
<1>3. Reaches(d, 31, mode, 0, d)
  BY <1>0, <1>1, Starts
<1>4. Reaches(d, 31, mode, 1, d1)
  <2>1. Leaves(31, "drop_view_cascade", mode) <=> mode = "fresh"
    BY <1>0, LeavesCascade
  <2>2. IF mode = "fresh" THEN d = d1
        ELSE Possible(d, "drop_view_cascade") /\ Result(d, "drop_view_cascade") = d1
    BY <1>2, DoesDropViewCascade, Members DEF Modes
  <2> HIDE DEF d, d1, d2, d3, d4, rows, left, view, e
  <2>3. Follows(31, "drop_view_cascade", mode, d, d1)
    BY <2>1, <2>2 DEF Follows
  <2> QED
    BY <1>s1, <1>3, <2>3, Executes
<1>5. Reaches(d, 31, mode, 2, d2)
  <2>1. ~Leaves(31, PerSeries, mode)
    BY <1>0, LeavesNoTable
  <2>2. Possible(d1, PerSeries) /\ Result(d1, PerSeries) = d2
    BY <1>0, <1>2, DoesCreatePerSeries, Members
  <2> HIDE DEF d, d1, d2, d3, d4, rows, left, view, e
  <2>3. Follows(31, PerSeries, mode, d1, d2)
    BY <2>1, <2>2 DEF Follows
  <2> QED
    BY <1>s2, <1>4, <2>3, Executes
<1>6. Reaches(d, 31, mode, 3, d3)
  <2>1. ~Leaves(31, "copy_rows", mode)
    BY <1>0, LeavesNoTable
  <2>2. Possible(d2, "copy_rows") /\ Result(d2, "copy_rows") = d3
    BY <1>0, <1>2, DoesCopyRows, Members
  <2> HIDE DEF d, d1, d2, d3, d4, rows, left, view, e
  <2>3. Follows(31, "copy_rows", mode, d2, d3)
    BY <2>1, <2>2 DEF Follows
  <2> QED
    BY <1>s3, <1>5, <2>3, Executes
<1>7. Reaches(d, 31, mode, 4, d4)
  <2>1. ~Leaves(31, "drop_raw", mode)
    BY <1>0, LeavesNoTable
  <2>2. Possible(d3, "drop_raw") /\ Result(d3, "drop_raw") = d4
    BY <1>0, <1>2, DoesDropRaw, Members
  <2> HIDE DEF d, d1, d2, d3, d4, rows, left, view, e
  <2>3. Follows(31, "drop_raw", mode, d3, d4)
    BY <2>1, <2>2 DEF Follows
  <2> QED
    BY <1>s4, <1>6, <2>3, Executes
<1>8. Reaches(d, 31, mode, 5, d4)
  <2>1. Leaves(31, "drop_view_if_exists", mode) <=> mode # "all"
    BY <1>0, LeavesViews
  <2>2. IF mode # "all" THEN d4 = d4
        ELSE Possible(d4, "drop_view_if_exists") /\ Result(d4, "drop_view_if_exists") = d4
    BY <1>2, DoesDropViewIfExists, Members DEF Modes
  <2> HIDE DEF d, d1, d2, d3, d4, rows, left, view, e
  <2>3. Follows(31, "drop_view_if_exists", mode, d4, d4)
    BY <2>1, <2>2 DEF Follows
  <2> QED
    BY <1>s5, <1>7, <2>3, Executes
<1>9. Reaches(d, 31, mode, 6, e)
  <2>1. Leaves(31, "wide_view_of_series", mode) <=> mode # "all"
    BY <1>0, LeavesViews
  <2>2. IF mode # "all" THEN d4 = e
        ELSE Possible(d4, "wide_view_of_series") /\ Result(d4, "wide_view_of_series") = e
    BY <1>2, DoesWideViewOfSeries, Members DEF Modes
  <2> HIDE DEF d, d1, d2, d3, d4, rows, left, view, e
  <2>3. Follows(31, "wide_view_of_series", mode, d4, e)
    BY <2>1, <2>2 DEF Follows
  <2> QED
    BY <1>s6, <1>8, <2>3, Executes
<1>10. Reaches(d, 31, mode, 7, e)
  <2>1. Leaves(31, "describe_view", mode) <=> mode # "all"
    BY <1>0, LeavesViews
  <2>2. IF mode # "all" THEN e = e
        ELSE Possible(e, "describe_view") /\ Result(e, "describe_view") = e
    BY <1>2, DoesDescribeView, Members DEF Modes
  <2> HIDE DEF d, d1, d2, d3, d4, rows, left, view, e
  <2>3. Follows(31, "describe_view", mode, e, e)
    BY <2>1, <2>2 DEF Follows
  <2> QED
    BY <1>s7, <1>9, <2>3, Executes
<1>11. Layout(31, e)
  BY <1>2, Fields, DatabaseFields DEF Layout, With, Without, Added, FedOrigins
<1>12. Shown(31, mode, e) /\ Preserves(31, d, e)
  BY <1>2, Fields DEF Layout, Shown, Preserves, Active, Modes, With, Without,
         Added, FedOrigins
<1> QED
  BY <1>0, <1>1, <1>10, <1>11, <1>12, Finishes

\* Version 32 creates the chain of wide views.
LEMMA ExtendedFeaturesTaken == Takes(32)
<1>0. 32 \in Versions
  BY DEF Versions
<1> SUFFICES ASSUME NEW l, NEW r, NEW c, NEW v, NEW f, NEW w, NEW g, NEW a,
                    NEW mode \in Modes, Layout(31, DB(l, r, c, v, f, w, g, a)),
                    Shown(31, mode, DB(l, r, c, v, f, w, g, a))
             PROVE  Taken(32, mode, DB(l, r, c, v, f, w, g, a))
  BY <1>0, ByFields
<1> DEFINE d == DB(l, r, c, v, f, w, g, a)
           left == IF mode = "all" THEN With(r, Extension) ELSE r
           view == IF mode = "all" THEN PerSeries ELSE v
           refresh == IF mode = "all" THEN "refresh_chain" ELSE f
           d1 == DB(l, left, c, v, f, w, g, a)
           d2 == DB(l, left, c, view, f, w, g, a)
           e == DB(l, left, c, view, refresh, w, g, a)
<1>1. Len(Migrations[32]) = 5 /\ DOMAIN Migrations[32] = 1 .. 5
  BY DEF Migrations, ExtendedFeatures
<1>s1. Statement(32, 0, 1, "extension")
  BY <1>0, <1>1 DEF Statement, Migrations, ExtendedFeatures
<1>s2. Statement(32, 1, 2, "wide_view_of_series")
  BY <1>0, <1>1 DEF Statement, Migrations, ExtendedFeatures
<1>s3. Statement(32, 2, 3, "describe_view")
  BY <1>0, <1>1 DEF Statement, Migrations, ExtendedFeatures
<1>s4. Statement(32, 3, 4, "describe_extension")
  BY <1>0, <1>1 DEF Statement, Migrations, ExtendedFeatures
<1>s5. Statement(32, 4, 5, "refresh_chain")
  BY <1>0, <1>1 DEF Statement, Migrations, ExtendedFeatures
<1>2. /\ PerSeries \in r /\ v \in {None, PerSeries}
  BY Fields DEF Layout, Shown, Modes
<1>3. Reaches(d, 32, mode, 0, d)
  BY <1>0, <1>1, Starts
<1>4. Reaches(d, 32, mode, 1, d1)
  <2>1. Leaves(32, "extension", mode) <=> mode # "all"
    BY <1>0, LeavesViews
  <2>2. IF mode # "all" THEN d = d1
        ELSE Possible(d, "extension") /\ Result(d, "extension") = d1
    BY <1>2, DoesExtension, Members DEF Modes
  <2> HIDE DEF d, d1, d2, left, view, refresh, e
  <2>3. Follows(32, "extension", mode, d, d1)
    BY <2>1, <2>2 DEF Follows
  <2> QED
    BY <1>s1, <1>3, <2>3, Executes
<1>5. Reaches(d, 32, mode, 2, d2)
  <2>1. Leaves(32, "wide_view_of_series", mode) <=> mode # "all"
    BY <1>0, LeavesViews
  <2>2. IF mode # "all" THEN d1 = d2
        ELSE Possible(d1, "wide_view_of_series") /\ Result(d1, "wide_view_of_series") = d2
    BY <1>2, DoesWideViewOfSeries, Members DEF Modes
  <2> HIDE DEF d, d1, d2, left, view, refresh, e
  <2>3. Follows(32, "wide_view_of_series", mode, d1, d2)
    BY <2>1, <2>2 DEF Follows
  <2> QED
    BY <1>s2, <1>4, <2>3, Executes
<1>6. Reaches(d, 32, mode, 3, d2)
  <2>1. Leaves(32, "describe_view", mode) <=> mode # "all"
    BY <1>0, LeavesViews
  <2>2. IF mode # "all" THEN d2 = d2
        ELSE Possible(d2, "describe_view") /\ Result(d2, "describe_view") = d2
    BY <1>2, DoesDescribeView, Members DEF Modes
  <2> HIDE DEF d, d1, d2, left, view, refresh, e
  <2>3. Follows(32, "describe_view", mode, d2, d2)
    BY <2>1, <2>2 DEF Follows
  <2> QED
    BY <1>s3, <1>5, <2>3, Executes
<1>7. Reaches(d, 32, mode, 4, d2)
  <2>1. Leaves(32, "describe_extension", mode) <=> mode # "all"
    BY <1>0, LeavesViews
  <2>2. IF mode # "all" THEN d2 = d2
        ELSE Possible(d2, "describe_extension") /\ Result(d2, "describe_extension") = d2
    BY <1>2, DoesDescribeExtension, Members DEF Modes
  <2> HIDE DEF d, d1, d2, left, view, refresh, e
  <2>3. Follows(32, "describe_extension", mode, d2, d2)
    BY <2>1, <2>2 DEF Follows
  <2> QED
    BY <1>s4, <1>6, <2>3, Executes
<1>8. Reaches(d, 32, mode, 5, e)
  <2>1. Leaves(32, "refresh_chain", mode) <=> mode # "all"
    BY <1>0, LeavesViews
  <2>2. IF mode # "all" THEN d2 = e
        ELSE Possible(d2, "refresh_chain") /\ Result(d2, "refresh_chain") = e
    BY <1>2, DoesRefreshChain, Members DEF Modes
  <2> HIDE DEF d, d1, d2, left, view, refresh, e
  <2>3. Follows(32, "refresh_chain", mode, d2, e)
    BY <2>1, <2>2 DEF Follows
  <2> QED
    BY <1>s5, <1>7, <2>3, Executes
<1>9. Layout(32, e)
  BY <1>2, Fields, DatabaseFields DEF Layout, With, Without, Added, FedOrigins
<1>10. Shown(32, mode, e) /\ Preserves(32, d, e)
  BY <1>2, Fields DEF Layout, Shown, Preserves, Active, Modes, With, Without,
         Added, FedOrigins
<1> QED
  BY <1>0, <1>1, <1>8, <1>9, <1>10, Finishes

\* Version 33 archives Fed tables that drift brought back.
LEMMA FedDriftCleanupTaken == Takes(33)
<1>0. 33 \in Versions
  BY DEF Versions
<1> SUFFICES ASSUME NEW l, NEW r, NEW c, NEW v, NEW f, NEW w, NEW g, NEW a,
                    NEW mode \in Modes, Layout(32, DB(l, r, c, v, f, w, g, a)),
                    Shown(32, mode, DB(l, r, c, v, f, w, g, a))
             PROVE  Taken(33, mode, DB(l, r, c, v, f, w, g, a))
  BY <1>0, ByFields
<1> DEFINE d == DB(l, r, c, v, f, w, g, a)
           e == DB(l, Without(r, FedTable), c, v, f, w, g, Archived(r, c, a))
<1>1. Len(Migrations[33]) = 1 /\ DOMAIN Migrations[33] = 1 .. 1
  BY DEF Migrations, FedDriftCleanup
<1>s1. Statement(33, 0, 1, "archive_fed")
  BY <1>0, <1>1 DEF Statement, Migrations, FedDriftCleanup
<1>2. /\ SyncState \in r /\ RowHashes \in r /\ c = {}
  BY Fields DEF Layout, Shown, Modes
<1>3. Reaches(d, 33, mode, 0, d)
  BY <1>0, <1>1, Starts
<1>4. Reaches(d, 33, mode, 1, e)
  <2>1. ~Leaves(33, "archive_fed", mode)
    BY <1>0, LeavesNoTable
  <2>2. Possible(d, "archive_fed") /\ Result(d, "archive_fed") = e
    BY <1>0, <1>2, DoesArchiveFed, Members
  <2> HIDE DEF d, e
  <2>3. Follows(33, "archive_fed", mode, d, e)
    BY <2>1, <2>2 DEF Follows
  <2> QED
    BY <1>s1, <1>3, <2>3, Executes
<1>5. Layout(33, e)
  BY <1>2, Fields, DatabaseFields DEF Layout, With, Without, Added, FedOrigins,
         Archived, ActiveIn
<1>6. Shown(33, mode, e) /\ Preserves(33, d, e)
  BY <1>2, Fields DEF Layout, Shown, Preserves, Active, Modes, With, Without,
         Added, FedOrigins, Archived, ActiveIn
<1> QED
  BY <1>0, <1>1, <1>4, <1>5, <1>6, Finishes

\* Version 34 creates the long feature values.
LEMMA FeatureValuesTaken == Takes(34)
<1>0. 34 \in Versions
  BY DEF Versions
<1> SUFFICES ASSUME NEW l, NEW r, NEW c, NEW v, NEW f, NEW w, NEW g, NEW a,
                    NEW mode \in Modes, Layout(33, DB(l, r, c, v, f, w, g, a)),
                    Shown(33, mode, DB(l, r, c, v, f, w, g, a))
             PROVE  Taken(34, mode, DB(l, r, c, v, f, w, g, a))
  BY <1>0, ByFields
<1> DEFINE d == DB(l, r, c, v, f, w, g, a)
           refresh == IF mode = "all" THEN "refresh_chain" ELSE f
           d1 == DB(l, With(r, Values), c, v, f, w, g, a)
           d2 == DB(l, With(With(r, Values), Refresher), c, v, f, w, g, a)
           e == DB(l, With(With(r, Values), Refresher), c, v, refresh, w, g, a)
<1>1. Len(Migrations[34]) = 3 /\ DOMAIN Migrations[34] = 1 .. 3
  BY DEF Migrations, FeatureValues
<1>s1. Statement(34, 0, 1, "values")
  BY <1>0, <1>1 DEF Statement, Migrations, FeatureValues
<1>s2. Statement(34, 1, 2, "refresher")
  BY <1>0, <1>1 DEF Statement, Migrations, FeatureValues
<1>s3. Statement(34, 2, 3, "refresh_chain")
  BY <1>0, <1>1 DEF Statement, Migrations, FeatureValues
<1>2. /\ PerSeries \in r
  BY Fields DEF Layout, Shown, Modes
<1>3. Reaches(d, 34, mode, 0, d)
  BY <1>0, <1>1, Starts
<1>4. Reaches(d, 34, mode, 1, d1)
  <2>1. ~Leaves(34, "values", mode)
    BY <1>0, LeavesNoTable
  <2>2. Possible(d, "values") /\ Result(d, "values") = d1
    BY <1>0, <1>2, DoesValues, Members
  <2> HIDE DEF d, d1, d2, refresh, e
  <2>3. Follows(34, "values", mode, d, d1)
    BY <2>1, <2>2 DEF Follows
  <2> QED
    BY <1>s1, <1>3, <2>3, Executes
<1>5. Reaches(d, 34, mode, 2, d2)
  <2>1. ~Leaves(34, "refresher", mode)
    BY <1>0, LeavesNoTable
  <2>2. Possible(d1, "refresher") /\ Result(d1, "refresher") = d2
    BY <1>0, <1>2, DoesRefresher, Members
  <2> HIDE DEF d, d1, d2, refresh, e
  <2>3. Follows(34, "refresher", mode, d1, d2)
    BY <2>1, <2>2 DEF Follows
  <2> QED
    BY <1>s2, <1>4, <2>3, Executes
<1>6. Reaches(d, 34, mode, 3, e)
  <2>1. Leaves(34, "refresh_chain", mode) <=> mode # "all"
    BY <1>0, LeavesViews
  <2>2. IF mode # "all" THEN d2 = e
        ELSE Possible(d2, "refresh_chain") /\ Result(d2, "refresh_chain") = e
    BY <1>2, DoesRefreshChain, Members DEF Modes
  <2> HIDE DEF d, d1, d2, refresh, e
  <2>3. Follows(34, "refresh_chain", mode, d2, e)
    BY <2>1, <2>2 DEF Follows
  <2> QED
    BY <1>s3, <1>5, <2>3, Executes
<1>7. Layout(34, e)
  BY <1>2, Fields, DatabaseFields DEF Layout, With, Without, Added, FedOrigins
<1>8. Shown(34, mode, e) /\ Preserves(34, d, e)
  BY <1>2, Fields DEF Layout, Shown, Preserves, Active, Modes, With, Without,
         Added, FedOrigins
<1> QED
  BY <1>0, <1>1, <1>6, <1>7, <1>8, Finishes

\* Version 35 populates them.
LEMMA FirstPopulationTaken == Takes(35)
<1>0. 35 \in Versions
  BY DEF Versions
<1> SUFFICES ASSUME NEW l, NEW r, NEW c, NEW v, NEW f, NEW w, NEW g, NEW a,
                    NEW mode \in Modes, Layout(34, DB(l, r, c, v, f, w, g, a)),
                    Shown(34, mode, DB(l, r, c, v, f, w, g, a))
             PROVE  Taken(35, mode, DB(l, r, c, v, f, w, g, a))
  BY <1>0, ByFields
<1> DEFINE d == DB(l, r, c, v, f, w, g, a)
           e == DB(l, With(r, Refresher), c, v, f, w, g, a)
<1>1. Len(Migrations[35]) = 2 /\ DOMAIN Migrations[35] = 1 .. 2
  BY DEF Migrations, FirstPopulation
<1>s1. Statement(35, 0, 1, "refresher")
  BY <1>0, <1>1 DEF Statement, Migrations, FirstPopulation
<1>s2. Statement(35, 1, 2, "refresh_values")
  BY <1>0, <1>1 DEF Statement, Migrations, FirstPopulation
<1>2. /\ Values \in r
  BY Fields DEF Layout, Shown, Modes
<1>3. Reaches(d, 35, mode, 0, d)
  BY <1>0, <1>1, Starts
<1>4. Reaches(d, 35, mode, 1, e)
  <2>1. ~Leaves(35, "refresher", mode)
    BY <1>0, LeavesNoTable
  <2>2. Possible(d, "refresher") /\ Result(d, "refresher") = e
    BY <1>0, <1>2, DoesRefresher, Members
  <2> HIDE DEF d, e
  <2>3. Follows(35, "refresher", mode, d, e)
    BY <2>1, <2>2 DEF Follows
  <2> QED
    BY <1>s1, <1>3, <2>3, Executes
<1>5. Reaches(d, 35, mode, 2, e)
  <2>1. ~Leaves(35, "refresh_values", mode)
    BY <1>0, LeavesNoTable
  <2>2. Possible(e, "refresh_values") /\ Result(e, "refresh_values") = e
    BY <1>0, <1>2, DoesRefreshValues, Members
  <2> HIDE DEF d, e
  <2>3. Follows(35, "refresh_values", mode, e, e)
    BY <2>1, <2>2 DEF Follows
  <2> QED
    BY <1>s2, <1>4, <2>3, Executes
<1>6. Layout(35, e)
  BY <1>2, Fields, DatabaseFields DEF Layout, With, Without, Added, FedOrigins
<1>7. Shown(35, mode, e) /\ Preserves(35, d, e)
  BY <1>2, Fields DEF Layout, Shown, Preserves, Active, Modes, With, Without,
         Added, FedOrigins
<1> QED
  BY <1>0, <1>1, <1>5, <1>6, <1>7, Finishes

\* Version 36 retires the wide views; the values are published.
LEMMA RetireWideViewsTaken == Takes(36)
<1>0. 36 \in Versions
  BY DEF Versions
<1> SUFFICES ASSUME NEW l, NEW r, NEW c, NEW v, NEW f, NEW w, NEW g, NEW a,
                    NEW mode \in Modes, Layout(35, DB(l, r, c, v, f, w, g, a)),
                    Shown(35, mode, DB(l, r, c, v, f, w, g, a))
             PROVE  Taken(36, mode, DB(l, r, c, v, f, w, g, a))
  BY <1>0, ByFields
<1> DEFINE d == DB(l, r, c, v, f, w, g, a)
           left == Without(Without(Without(r, Extension), Values), Refresher)
           d1 == DB(l, Without(r, Extension), c, v, f, w, g, a)
           d2 == DB(l, Without(r, Extension), c, None, f, w, g, a)
           d3 == DB(l, Without(Without(r, Extension), Values), c, "long_view", f, w, g, a)
           d4 == DB(l, left, c, "long_view", f, w, g, a)
           e == DB(l, left, c, "long_view", "refresh_long", w, g, a)
<1>1. Len(Migrations[36]) = 6 /\ DOMAIN Migrations[36] = 1 .. 6
  BY DEF Migrations, RetireWideViews
<1>s1. Statement(36, 0, 1, "drop_extension")
  BY <1>0, <1>1 DEF Statement, Migrations, RetireWideViews
<1>s2. Statement(36, 1, 2, "drop_view_if_exists")
  BY <1>0, <1>1 DEF Statement, Migrations, RetireWideViews
<1>s3. Statement(36, 2, 3, "rename_values")
  BY <1>0, <1>1 DEF Statement, Migrations, RetireWideViews
<1>s4. Statement(36, 3, 4, "describe_view")
  BY <1>0, <1>1 DEF Statement, Migrations, RetireWideViews
<1>s5. Statement(36, 4, 5, "drop_refresher")
  BY <1>0, <1>1 DEF Statement, Migrations, RetireWideViews
<1>s6. Statement(36, 5, 6, "refresh_long")
  BY <1>0, <1>1 DEF Statement, Migrations, RetireWideViews
<1>2. /\ Values \in r
  BY Fields DEF Layout, Shown, Modes
<1>3. Reaches(d, 36, mode, 0, d)
  BY <1>0, <1>1, Starts
<1>4. Reaches(d, 36, mode, 1, d1)
  <2>1. ~Leaves(36, "drop_extension", mode)
    BY <1>0, LeavesNothing
  <2>2. Possible(d, "drop_extension") /\ Result(d, "drop_extension") = d1
    BY <1>0, <1>2, DoesDropExtension, Members
  <2> HIDE DEF d, d1, d2, d3, d4, left, e
  <2>3. Follows(36, "drop_extension", mode, d, d1)
    BY <2>1, <2>2 DEF Follows
  <2> QED
    BY <1>s1, <1>3, <2>3, Executes
<1>5. Reaches(d, 36, mode, 2, d2)
  <2>1. ~Leaves(36, "drop_view_if_exists", mode)
    BY <1>0, LeavesNothing
  <2>2. Possible(d1, "drop_view_if_exists") /\ Result(d1, "drop_view_if_exists") = d2
    BY <1>0, <1>2, DoesDropViewIfExists, Members
  <2> HIDE DEF d, d1, d2, d3, d4, left, e
  <2>3. Follows(36, "drop_view_if_exists", mode, d1, d2)
    BY <2>1, <2>2 DEF Follows
  <2> QED
    BY <1>s2, <1>4, <2>3, Executes
<1>6. Reaches(d, 36, mode, 3, d3)
  <2>1. ~Leaves(36, "rename_values", mode)
    BY <1>0, LeavesNothing
  <2>2. Possible(d2, "rename_values") /\ Result(d2, "rename_values") = d3
    BY <1>0, <1>2, DoesRenameValues, Members
  <2> HIDE DEF d, d1, d2, d3, d4, left, e
  <2>3. Follows(36, "rename_values", mode, d2, d3)
    BY <2>1, <2>2 DEF Follows
  <2> QED
    BY <1>s3, <1>5, <2>3, Executes
<1>7. Reaches(d, 36, mode, 4, d3)
  <2>1. ~Leaves(36, "describe_view", mode)
    BY <1>0, LeavesNothing
  <2>2. Possible(d3, "describe_view") /\ Result(d3, "describe_view") = d3
    BY <1>0, <1>2, DoesDescribeView, Members
  <2> HIDE DEF d, d1, d2, d3, d4, left, e
  <2>3. Follows(36, "describe_view", mode, d3, d3)
    BY <2>1, <2>2 DEF Follows
  <2> QED
    BY <1>s4, <1>6, <2>3, Executes
<1>8. Reaches(d, 36, mode, 5, d4)
  <2>1. ~Leaves(36, "drop_refresher", mode)
    BY <1>0, LeavesNothing
  <2>2. Possible(d3, "drop_refresher") /\ Result(d3, "drop_refresher") = d4
    BY <1>0, <1>2, DoesDropRefresher, Members
  <2> HIDE DEF d, d1, d2, d3, d4, left, e
  <2>3. Follows(36, "drop_refresher", mode, d3, d4)
    BY <2>1, <2>2 DEF Follows
  <2> QED
    BY <1>s5, <1>7, <2>3, Executes
<1>9. Reaches(d, 36, mode, 6, e)
  <2>1. ~Leaves(36, "refresh_long", mode)
    BY <1>0, LeavesNothing
  <2>2. Possible(d4, "refresh_long") /\ Result(d4, "refresh_long") = e
    BY <1>0, <1>2, DoesRefreshLong, Members
  <2> HIDE DEF d, d1, d2, d3, d4, left, e
  <2>3. Follows(36, "refresh_long", mode, d4, e)
    BY <2>1, <2>2 DEF Follows
  <2> QED
    BY <1>s6, <1>8, <2>3, Executes
<1>10. Layout(36, e)
  BY <1>2, Fields, DatabaseFields DEF Layout, With, Without, Added, FedOrigins
<1>11. Shown(36, mode, e) /\ Preserves(36, d, e)
  BY <1>2, Fields DEF Layout, Shown, Preserves, Active, Modes, With, Without,
         Added, FedOrigins
<1> QED
  BY <1>0, <1>1, <1>9, <1>10, <1>11, Finishes

\* Version 37 builds the published view anew.
LEMMA ObservationTaken == Takes(37)
<1>0. 37 \in Versions
  BY DEF Versions
<1> SUFFICES ASSUME NEW l, NEW r, NEW c, NEW v, NEW f, NEW w, NEW g, NEW a,
                    NEW mode \in Modes, Layout(36, DB(l, r, c, v, f, w, g, a)),
                    Shown(36, mode, DB(l, r, c, v, f, w, g, a))
             PROVE  Taken(37, mode, DB(l, r, c, v, f, w, g, a))
  BY <1>0, ByFields
<1> DEFINE d == DB(l, r, c, v, f, w, g, a)
           d1 == DB(l, r, c, None, f, w, g, a)
           e == DB(l, r, c, "observed_view", f, w, g, a)
<1>1. Len(Migrations[37]) = 4 /\ DOMAIN Migrations[37] = 1 .. 4
  BY DEF Migrations, Observation
<1>s1. Statement(37, 0, 1, "drop_view")
  BY <1>0, <1>1 DEF Statement, Migrations, Observation
<1>s2. Statement(37, 1, 2, "observed_view")
  BY <1>0, <1>1 DEF Statement, Migrations, Observation
<1>s3. Statement(37, 2, 3, "describe_view")
  BY <1>0, <1>1 DEF Statement, Migrations, Observation
<1>s4. Statement(37, 3, 4, "refresh_view")
  BY <1>0, <1>1 DEF Statement, Migrations, Observation
<1>2. /\ PerSeries \in r /\ v # None
  BY Fields DEF Layout, Shown, Modes
<1>3. Reaches(d, 37, mode, 0, d)
  BY <1>0, <1>1, Starts
<1>4. Reaches(d, 37, mode, 1, d1)
  <2>1. ~Leaves(37, "drop_view", mode)
    BY <1>0, LeavesNothing
  <2>2. Possible(d, "drop_view") /\ Result(d, "drop_view") = d1
    BY <1>0, <1>2, DoesDropView, Members
  <2> HIDE DEF d, d1, e
  <2>3. Follows(37, "drop_view", mode, d, d1)
    BY <2>1, <2>2 DEF Follows
  <2> QED
    BY <1>s1, <1>3, <2>3, Executes
<1>5. Reaches(d, 37, mode, 2, e)
  <2>1. ~Leaves(37, "observed_view", mode)
    BY <1>0, LeavesNothing
  <2>2. Possible(d1, "observed_view") /\ Result(d1, "observed_view") = e
    BY <1>0, <1>2, DoesObservedView, Members
  <2> HIDE DEF d, d1, e
  <2>3. Follows(37, "observed_view", mode, d1, e)
    BY <2>1, <2>2 DEF Follows
  <2> QED
    BY <1>s2, <1>4, <2>3, Executes
<1>6. Reaches(d, 37, mode, 3, e)
  <2>1. ~Leaves(37, "describe_view", mode)
    BY <1>0, LeavesNothing
  <2>2. Possible(e, "describe_view") /\ Result(e, "describe_view") = e
    BY <1>0, <1>2, DoesDescribeView, Members
  <2> HIDE DEF d, d1, e
  <2>3. Follows(37, "describe_view", mode, e, e)
    BY <2>1, <2>2 DEF Follows
  <2> QED
    BY <1>s3, <1>5, <2>3, Executes
<1>7. Reaches(d, 37, mode, 4, e)
  <2>1. ~Leaves(37, "refresh_view", mode)
    BY <1>0, LeavesNothing
  <2>2. Possible(e, "refresh_view") /\ Result(e, "refresh_view") = e
    BY <1>0, <1>2, DoesRefreshView, Members
  <2> HIDE DEF d, d1, e
  <2>3. Follows(37, "refresh_view", mode, e, e)
    BY <2>1, <2>2 DEF Follows
  <2> QED
    BY <1>s4, <1>6, <2>3, Executes
<1>8. Layout(37, e)
  BY <1>2, Fields, DatabaseFields DEF Layout, With, Without, Added, FedOrigins
<1>9. Shown(37, mode, e) /\ Preserves(37, d, e)
  BY <1>2, Fields DEF Layout, Shown, Preserves, Active, Modes, With, Without,
         Added, FedOrigins
<1> QED
  BY <1>0, <1>1, <1>7, <1>8, <1>9, Finishes

\* Version 38 builds the published view anew.
LEMMA NullResetTaken == Takes(38)
<1>0. 38 \in Versions
  BY DEF Versions
<1> SUFFICES ASSUME NEW l, NEW r, NEW c, NEW v, NEW f, NEW w, NEW g, NEW a,
                    NEW mode \in Modes, Layout(37, DB(l, r, c, v, f, w, g, a)),
                    Shown(37, mode, DB(l, r, c, v, f, w, g, a))
             PROVE  Taken(38, mode, DB(l, r, c, v, f, w, g, a))
  BY <1>0, ByFields
<1> DEFINE d == DB(l, r, c, v, f, w, g, a)
           d1 == DB(l, r, c, None, f, w, g, a)
           e == DB(l, r, c, "reset_view", f, w, g, a)
<1>1. Len(Migrations[38]) = 4 /\ DOMAIN Migrations[38] = 1 .. 4
  BY DEF Migrations, NullReset
<1>s1. Statement(38, 0, 1, "drop_view")
  BY <1>0, <1>1 DEF Statement, Migrations, NullReset
<1>s2. Statement(38, 1, 2, "reset_view")
  BY <1>0, <1>1 DEF Statement, Migrations, NullReset
<1>s3. Statement(38, 2, 3, "describe_view")
  BY <1>0, <1>1 DEF Statement, Migrations, NullReset
<1>s4. Statement(38, 3, 4, "refresh_view")
  BY <1>0, <1>1 DEF Statement, Migrations, NullReset
<1>2. /\ PerSeries \in r /\ v # None
  BY Fields DEF Layout, Shown, Modes
<1>3. Reaches(d, 38, mode, 0, d)
  BY <1>0, <1>1, Starts
<1>4. Reaches(d, 38, mode, 1, d1)
  <2>1. ~Leaves(38, "drop_view", mode)
    BY <1>0, LeavesNothing
  <2>2. Possible(d, "drop_view") /\ Result(d, "drop_view") = d1
    BY <1>0, <1>2, DoesDropView, Members
  <2> HIDE DEF d, d1, e
  <2>3. Follows(38, "drop_view", mode, d, d1)
    BY <2>1, <2>2 DEF Follows
  <2> QED
    BY <1>s1, <1>3, <2>3, Executes
<1>5. Reaches(d, 38, mode, 2, e)
  <2>1. ~Leaves(38, "reset_view", mode)
    BY <1>0, LeavesNothing
  <2>2. Possible(d1, "reset_view") /\ Result(d1, "reset_view") = e
    BY <1>0, <1>2, DoesResetView, Members
  <2> HIDE DEF d, d1, e
  <2>3. Follows(38, "reset_view", mode, d1, e)
    BY <2>1, <2>2 DEF Follows
  <2> QED
    BY <1>s2, <1>4, <2>3, Executes
<1>6. Reaches(d, 38, mode, 3, e)
  <2>1. ~Leaves(38, "describe_view", mode)
    BY <1>0, LeavesNothing
  <2>2. Possible(e, "describe_view") /\ Result(e, "describe_view") = e
    BY <1>0, <1>2, DoesDescribeView, Members
  <2> HIDE DEF d, d1, e
  <2>3. Follows(38, "describe_view", mode, e, e)
    BY <2>1, <2>2 DEF Follows
  <2> QED
    BY <1>s3, <1>5, <2>3, Executes
<1>7. Reaches(d, 38, mode, 4, e)
  <2>1. ~Leaves(38, "refresh_view", mode)
    BY <1>0, LeavesNothing
  <2>2. Possible(e, "refresh_view") /\ Result(e, "refresh_view") = e
    BY <1>0, <1>2, DoesRefreshView, Members
  <2> HIDE DEF d, d1, e
  <2>3. Follows(38, "refresh_view", mode, e, e)
    BY <2>1, <2>2 DEF Follows
  <2> QED
    BY <1>s4, <1>6, <2>3, Executes
<1>8. Layout(38, e)
  BY <1>2, Fields, DatabaseFields DEF Layout, With, Without, Added, FedOrigins
<1>9. Shown(38, mode, e) /\ Preserves(38, d, e)
  BY <1>2, Fields DEF Layout, Shown, Preserves, Active, Modes, With, Without,
         Added, FedOrigins
<1> QED
  BY <1>0, <1>1, <1>7, <1>8, <1>9, Finishes

\* Whatever layout a version finds, it leaves the layout of its own.
LEMMA AllTaken == ASSUME NEW n \in Versions PROVE Takes(n)
<1>1. \A m \in {4, 5, 6, 7, 16, 17} : Takes(m)
  BY EmptyTaken
<1>2. \A m \in {12, 14, 15, 18, 21, 22, 23, 26, 27} : Takes(m)
  BY LegacyRebuildTaken
<1>3. Takes(19) /\ Takes(25) /\ Takes(28) /\ Takes(29) /\ Takes(30)
  BY AddColumnTaken
<1>4. /\ n \in 1 .. 11 => Takes(n)
  BY <1>1, FirstTableTaken, SyncStateTaken, RowHashesTaken, ConsumerLayoutTaken,
     RenameTaken, WideViewTaken, RawOnlyLayoutTaken
<1>5. /\ n \in 12 .. 30 => Takes(n)
  BY <1>1, <1>2, <1>3, RefreshFunctionTaken, FedArchiveTaken, AddColumnsTaken
<1>6. /\ n \in 31 .. 38 => Takes(n)
  BY SeriesTablesTaken, ExtendedFeaturesTaken, FedDriftCleanupTaken, FeatureValuesTaken,
     FirstPopulationTaken, RetireWideViewsTaken, ObservationTaken, NullResetTaken
<1> QED
  BY <1>4, <1>5, <1>6 DEF Versions

\* A ledger up to a version is a ledger.
LEMMA PrefixIsVersions == ASSUME NEW n \in 0 .. 38 PROVE 1 .. n \in SUBSET Versions
BY DEF Versions

\* The next version extends it.
LEMMA PrefixGrows == ASSUME NEW m \in 0 .. 37 PROVE (1 .. m) \cup {m + 1} = 1 .. (m + 1)
OBVIOUS

-----------------------------------------------------------------------------
(* What a recreation builds.                                               *)

TakenByAll(S, n) == UNION {Run(d, n, {}) : d \in S}

Built(f, m) ==
    f = [n \in 0 .. m |-> IF n = 0 THEN {Blank} ELSE TakenByAll(f[n - 1], n)]

\* Version by version the unfiltered run is defined.
LEMMA BuildExists == ASSUME NEW n \in Nat PROVE \E f : Built(f, n)
<1> DEFINE After(f, i) == IF i = 0 THEN {Blank} ELSE TakenByAll(f[i - 1], i)
           Exists(m) == \E f : f = [i \in 0 .. m |-> After(f, i)]
           Missing == {m \in Nat : ~Exists(m)}
           Less == OpToRel(<, Nat)
<1>0. SUFFICES Exists(n)
  BY DEF Built
<1>1. SUFFICES ASSUME ~Exists(n) PROVE FALSE
  OBVIOUS
<1>2. PICK m \in Missing : \A e \in Missing : <<e, m>> \notin Less
  <2> HIDE DEF Less, Missing
  <2>1. Missing \in SUBSET Nat
    BY DEF Missing
  <2>2. IsWellFoundedOn(Less, Nat)
    BY NatLessThanWellFounded DEF Less
  <2>3. n \in Missing
    BY <1>1 DEF Missing
  <2> QED
    BY <2>1, <2>2, <2>3, WFMin
<1>3. m # 0
  <2>1. [i \in 0 .. 0 |-> After([j \in 0 .. 0 |-> {Blank}], i)]
         = [j \in 0 .. 0 |-> {Blank}]
    OBVIOUS
  <2>2. Exists(0)
    BY <2>1
  <2> QED
    BY <2>2
<1>4. m - 1 \in Nat /\ m - 1 \notin Missing
  <2>1. m \in Nat /\ m - 1 \in Nat /\ m - 1 < m
    BY <1>3
  <2>2. <<m - 1, m>> \in Less
    BY <2>1 DEF OpToRel
  <2> QED
    BY <1>2, <2>1, <2>2
<1>5. PICK f : f = [i \in 0 .. m - 1 |-> After(f, i)]
  BY <1>4
<1> DEFINE next == [i \in 0 .. m |-> IF i = m THEN After(f, m) ELSE f[i]]
<1>6. next = [i \in 0 .. m |-> After(next, i)]
  <2> SUFFICES ASSUME NEW i \in 0 .. m PROVE next[i] = After(next, i)
    OBVIOUS
  <2>1. CASE i = 0
    BY <2>1, <1>3, <1>4, <1>5
  <2>2. CASE i # 0
    <3>1. next[i - 1] = f[i - 1]
      BY <2>2, <1>4
    <3>2. After(next, i) = After(f, i)
      BY <3>1, <2>2
    <3>3. next[i] = After(f, i)
      <4>1. i # m => i \in 0 .. m - 1
        BY <1>4
      <4>2. i # m => f[i] = After(f, i)
        <5> HIDE DEF After
        <5> QED
          BY <4>1, <1>5
      <4> HIDE DEF After
      <4> QED
        BY <4>2
    <3> QED
      BY <3>2, <3>3
  <2> QED
    BY <2>1, <2>2
<1>7. Exists(m)
  BY <1>6
<1> QED
  BY <1>7

\* The schemas of a recreation satisfy their recursion.
LEMMA UnfilteredIsBuilt == Built(Unfiltered, 38)
<1>1. Unfiltered = CHOOSE f : Built(f, 38)
  BY Zenon DEF Unfiltered, Built, TakenByAll
<1>2. \E f : Built(f, 38)
  BY BuildExists
<1> QED
  BY <1>1, <1>2

\* Every version is taken by what the one before left.
LEMMA BuildStep ==
    ASSUME NEW f, NEW m \in Nat, Built(f, m)
    PROVE  /\ f[0] = {Blank}
           /\ \A n \in 1 .. m : f[n] = TakenByAll(f[n - 1], n)
BY DEF Built

Reached(n) ==
    \E d : /\ Unfiltered[n] = {d} /\ Layout(n, d)
           /\ Shown(n, "all", d) /\ d.rows = None

\* An empty database has the layout before all versions.
LEMMA BlankLayout == Layout(0, Blank) /\ Shown(0, "all", Blank) /\ Blank.rows = None
BY DEF Layout, Blank, Shown, DatabaseType, Has, Versions, Added, FedOrigins

\* A recreation that reached a version reaches the next.
LEMMA ReachedNext == ASSUME NEW n \in Versions, Reached(n - 1) PROVE Reached(n)
<1>1. PICK d : /\ Unfiltered[n - 1] = {d} /\ Layout(n - 1, d)
               /\ Shown(n - 1, "all", d) /\ d.rows = None
  BY DEF Reached
<1>2. PICK e : /\ Run(d, n, Left(n, "all")) = {e}
               /\ Layout(n, e) /\ Shown(n, "all", e) /\ Preserves(n, d, e)
  <2>1. Takes(n) /\ "all" \in Modes
    BY AllTaken DEF Modes
  <2>2. Taken(n, "all", d)
    BY <1>1, <2>1 DEF Takes
  <2> QED
    BY <2>2 DEF Taken
<1>3. Left(n, "all") = {}
  BY DEF Left, Leaves
<1>4. Unfiltered[n] = TakenByAll({d}, n)
  BY <1>1, UnfilteredIsBuilt, BuildStep DEF Versions
<1>5. Unfiltered[n] = {e}
  BY <1>2, <1>3, <1>4 DEF TakenByAll
<1> QED
  BY <1>1, <1>2, <1>5 DEF Reached, Preserves

\* No statement of a recreation raises, up to any version.
LEMMA AllReached == ASSUME NEW n \in 0 .. 38 PROVE Reached(n)
<1> DEFINE Missing == {m \in 0 .. 38 : ~Reached(m)}
           Less == OpToRel(<, Nat)
<1>1. SUFFICES ASSUME n \in Missing PROVE FALSE
  OBVIOUS
<1>2. PICK m \in Missing : \A e \in Missing : <<e, m>> \notin Less
  <2>1. Missing \in SUBSET Nat
    OBVIOUS
  <2> HIDE DEF Less, Missing
  <2>2. IsWellFoundedOn(Less, Nat)
    BY NatLessThanWellFounded DEF Less
  <2> QED
    BY <2>1, <2>2, <1>1, WFMin
<1>3. m # 0
  BY BlankLayout, UnfilteredIsBuilt, BuildStep DEF Reached
<1>4. m \in Versions /\ m - 1 \in 0 .. 38
  BY <1>3 DEF Versions
<1>5. <<m - 1, m>> \in Less
  BY <1>4 DEF OpToRel
<1>6. Reached(m - 1)
  BY <1>2, <1>4, <1>5
<1> QED
  BY <1>4, <1>6, ReachedNext

\* The ledger has no part in a layout.
Recorded(d, L) == [d EXCEPT !.ledger = L]

\* A ledger row changes the ledger only.
LEMMA RecordedFields ==
    ASSUME NEW d \in DatabaseType, NEW L \in SUBSET Versions
    PROVE  /\ Recorded(d, L) \in DatabaseType
           /\ Recorded(d, L).ledger = L /\ Recorded(d, L).relations = d.relations
           /\ Recorded(d, L).columns = d.columns /\ Recorded(d, L).view = d.view
           /\ Recorded(d, L).refresh = d.refresh /\ Recorded(d, L).rows = d.rows
           /\ Recorded(d, L).digests = d.digests /\ Recorded(d, L).archive = d.archive
           /\ \A x : Has(Recorded(d, L), x) <=> Has(d, x)
BY DEF Recorded, DatabaseType, Has

\* So the layout stays, and what a migration is to keep.
LEMMA RecordedLayout ==
    ASSUME NEW n, NEW d, Layout(n, d), NEW L \in SUBSET Versions
    PROVE  /\ Layout(n, Recorded(d, L)) /\ Recorded(d, L).ledger = L
           /\ Recorded(d, L).rows = d.rows /\ Recorded(d, L).view = d.view
           /\ Active(Recorded(d, L)) = Active(d)
           /\ Recorded(d, L).archive = d.archive
<1>1. d \in DatabaseType
  BY DEF Layout
<1>2. Layout(n, Recorded(d, L))
  BY <1>1, RecordedFields DEF Layout
<1> QED
  BY <1>1, <1>2, RecordedFields DEF Active

\* The schema of every version exists, and is that of its layout.
LEMMA SchemaHasLayout ==
    ASSUME NEW n \in 0 .. 38
    PROVE  /\ Unfiltered[n] # {} /\ Layout(n, SchemaAt(n))
           /\ SchemaAt(n).ledger = 1 .. n /\ SchemaAt(n).rows = None
<1>1. PICK d : Unfiltered[n] = {d} /\ Layout(n, d) /\ d.rows = None
  BY AllReached DEF Reached
<1>2. (CHOOSE x \in Unfiltered[n] : TRUE) = d
  BY <1>1
<1> DEFINE L == 1 .. n
<1>3. SchemaAt(n) = Recorded(d, L)
  BY <1>2 DEF SchemaAt, Recorded
<1>4. L \in SUBSET Versions
  BY PrefixIsVersions
<1> HIDE DEF L
<1>5. /\ Layout(n, Recorded(d, L)) /\ Recorded(d, L).ledger = L
      /\ Recorded(d, L).rows = d.rows
  BY <1>1, <1>4, RecordedLayout
<1>6. /\ Unfiltered[n] # {} /\ Layout(n, SchemaAt(n))
      /\ SchemaAt(n).ledger = L /\ SchemaAt(n).rows = None
  BY <1>1, <1>3, <1>5
<1> QED
  BY <1>6 DEF L

-----------------------------------------------------------------------------
(* The databases found.                                                    *)

\* What a layout says before the views.
LEMMA EarlyLayout ==
    ASSUME NEW n \in 0 .. 38, NEW d, Layout(n, d)
    PROVE  /\ n >= 2 => Has(d, SyncState)
           /\ n >= 3 => Has(d, RowHashes)
           /\ n <= 9 => d.view = None
BY DEF Layout

\* The layouts while the rows were in the daily table.
LEMMA FirstLayouts ==
    ASSUME NEW n \in 0 .. 8, NEW d, d \in DatabaseType,
           n >= 2 => Has(d, SyncState), n >= 3 => Has(d, RowHashes), Has(d, Daily),
           d.columns = {}, d.view = None, d.rows \in {None, Daily},
           d.digests <=> d.rows # None
    PROVE  Layout(n, d)
BY DEF Layout

\* What a layout says while the rows were in macro_raw.
LEMMA MiddleLayout ==
    ASSUME NEW n \in 9 .. 30, NEW d, Layout(n, d)
    PROVE  /\ Has(d, SyncState) /\ Has(d, RowHashes) /\ Has(d, Raw) /\ ~Has(d, Daily)
           /\ d.view \in {None, Raw} /\ (n = 9 => d.view = None)
BY DEF Layout

\* From version 31 on, the tables and the view of a layout.
Shape(n, d) ==
    /\ Has(d, SyncState) /\ Has(d, RowHashes) /\ Has(d, PerSeries)
    /\ ~Has(d, Raw) /\ ~Has(d, Daily)
    /\ n \in 34 .. 35 => Has(d, Values)
    /\ n = 34 => Has(d, Refresher)
    /\ n >= 36 => ~Has(d, Extension) /\ ~Has(d, Values) /\ ~Has(d, Refresher)
    /\ n >= 36 => d.refresh = "refresh_long"
    /\ n \in 31 .. 35 => d.view \in {None, PerSeries}
    /\ n = 36 => d.view = "long_view"
    /\ n = 37 => d.view = "observed_view"
    /\ n = 38 => d.view = "reset_view"

\* A layout from version 31 on is its shape, without columns in macro_raw.
LEMMA LateLayout ==
    ASSUME NEW n \in 31 .. 38, NEW d
    PROVE  Layout(n, d) <=>
             /\ d \in DatabaseType /\ Shape(n, d)
             /\ n >= 33 => ~Has(d, FedTable)
             /\ d.columns = {} /\ d.rows \in {None, PerSeries}
             /\ d.digests <=> d.rows # None
BY DEF Layout, Shape, Has

\* A layout as its fields have it.
LEMMA FoundHasLayout ==
    ASSUME NEW n \in Versions, NEW d \in Found(n)
    PROVE  d.ledger = 1 .. n /\ Layout(n, d)
<1> DEFINE s == SchemaAt(n)
           table == RowsAt(n)
           place == LaidOut(n)
<1>1. /\ Layout(n, s) /\ s \in DatabaseType
      /\ s.ledger = 1 .. n
  <2>1. n \in 0 .. 38
    BY DEF Versions
  <2>2. Layout(n, s) /\ s.ledger = 1 .. n
    BY <2>1, SchemaHasLayout
  <2> QED
    BY <2>2 DEF Layout
<1>4. ColumnsAt(n) \in SUBSET Added
  BY DEF ColumnsAt
<1>2. PICK cs \in FoundColumns(n), fs \in FoundFed(n), filled \in BOOLEAN :
         (filled => n >= 3) /\ d = Furnished(n, cs, fs, filled)
  BY DEF Found
<1>7. /\ cs \in SUBSET (Added \cup {"fed"})
      /\ n \notin 9 .. 30 => cs = {}
      /\ n \in 9 .. 30 => \/ cs = ColumnsAt(n)
                          \/ n = 23 /\ cs = {}
                          \/ n \in 16 .. 19 /\ cs = ColumnsAt(n) \cup {"fed"}
  BY <1>4 DEF FoundColumns
<1>8. fs \in {{}, {FedTable}} /\ (fs # {} => n \in 6 .. 32)
  BY DEF FoundFed
<1>3. /\ place \in DatabaseType /\ place.ledger = 1 .. n /\ place.view = s.view
      /\ place.refresh = s.refresh /\ place.archive = s.archive
      /\ \A x : x \in place.relations <=>
           IF n <= 8 THEN x = Daily \/ (x \in s.relations /\ x # Raw) ELSE x \in s.relations
  BY <1>1 DEF LaidOut, Adding, Dropping, DatabaseType
<1> HIDE DEF s, place
<1>5. /\ d \in DatabaseType /\ d.ledger = 1 .. n /\ d.view = s.view
      /\ d.refresh = s.refresh
      /\ d.relations = place.relations \cup fs /\ d.columns = cs
      /\ d.rows = (IF filled THEN table ELSE None) /\ d.digests = filled
  BY <1>2, <1>3, <1>7, <1>8 DEF DatabaseType, RowsAt, Furnished, place
<1>6. /\ n >= 19 => "available" \in ColumnsAt(n)
      /\ n >= 24 => "ohlc" \in ColumnsAt(n)
      /\ n >= 28 => "v28" \in ColumnsAt(n)
      /\ n >= 29 => "v29" \in ColumnsAt(n)
      /\ n >= 30 => "v30" \in ColumnsAt(n)
      /\ "fed" \notin ColumnsAt(n)
  BY DEF ColumnsAt, Since, Added
<1>10. d.view = s.view /\ d.rows \in {None, table} /\ (d.digests <=> d.rows # None)
  BY <1>5 DEF RowsAt
<1>11. \A x : x \in d.relations <=> x \in place.relations \/ x \in fs
  BY <1>5
<1>12. n \in 1 .. 38 /\ n \in 0 .. 38
  BY DEF Versions
<1>a. CASE n <= 8
  <2>1. /\ n >= 2 => SyncState \in s.relations
        /\ n >= 3 => RowHashes \in s.relations
    BY <1>12, <1>1, EarlyLayout DEF Has
  <2>4. s.view = None
    BY <1>a, <1>12, <1>1, EarlyLayout
  <2>2. /\ n >= 2 => Has(d, SyncState)
        /\ n >= 3 => Has(d, RowHashes)
        /\ Has(d, Daily)
    BY <2>1, <1>a, <1>3, <1>11 DEF Has
  <2>3. d.view = None /\ d.columns = {} /\ d.rows \in {None, Daily}
    BY <2>4, <1>a, <1>5, <1>7, <1>10 DEF RowsAt
  <2> QED
    <3>1. n \in 0 .. 8
      BY <1>a, <1>12
    <3> QED
      BY <2>2, <2>3, <3>1, <1>5, <1>10, FirstLayouts
<1>b. CASE n \in 9 .. 30
  <2>1. /\ Has(d, SyncState) /\ Has(d, RowHashes) /\ Has(d, Raw) /\ ~Has(d, Daily)
        /\ d.view \in {None, Raw} /\ (n = 9 => d.view = None)
    <3>1. /\ SyncState \in s.relations /\ RowHashes \in s.relations
          /\ Raw \in s.relations /\ Daily \notin s.relations
          /\ s.view \in {None, Raw} /\ (n = 9 => s.view = None)
      BY <1>b, <1>1, MiddleLayout DEF Has
    <3>2. \A x : x \in d.relations <=> x \in s.relations \/ x \in fs
      BY <1>b, <1>3, <1>11
    <3> QED
      BY <3>1, <3>2, <1>8, <1>10 DEF Has
  <2>2. d.rows \in {None, Raw}
    BY <1>b, <1>10 DEF RowsAt
  <2>3. /\ "fed" \in d.columns => n \in 16 .. 19
        /\ n = 19 => "available" \in d.columns
        /\ n \in 24 .. 30 => "ohlc" \in d.columns
        /\ n \in 28 .. 30 => "v28" \in d.columns
        /\ n \in 29 .. 30 => "v29" \in d.columns
        /\ n = 30 => "v30" \in d.columns
    BY <1>b, <1>5, <1>6, <1>7
  <2> QED
    BY <1>b, <1>5, <1>10, <2>1, <2>2, <2>3 DEF Layout
<1>c. CASE n \in 31 .. 38
  <2>1. /\ Shape(n, d)
        /\ n >= 33 => ~Has(d, FedTable)
    <3>1. Shape(n, s) /\ (n >= 33 => ~Has(s, FedTable))
      BY <1>c, <1>1, LateLayout
    <3>2. \A x : x \in d.relations <=> x \in s.relations \/ x \in fs
      BY <1>c, <1>3, <1>11
    <3>3. \A x : x \in fs => x = FedTable /\ n <= 32
      BY <1>8
    <3> QED
      BY <3>1, <3>2, <3>3, <1>c, <1>5, <1>10 DEF Shape, Has
  <2>2. d.columns = {} /\ d.rows \in {None, PerSeries}
    <3>1. table = PerSeries /\ n \notin 9 .. 30
      BY <1>c DEF RowsAt
    <3> QED
      BY <3>1, <1>5, <1>7, <1>10
  <2> QED
    BY <1>c, <1>5, <1>10, <2>1, <2>2, LateLayout
<1>13. n <= 8 \/ n \in 9 .. 30 \/ n \in 31 .. 38
  BY <1>12
<1>14. d.ledger = 1 .. n
  BY <1>5
<1> QED
  BY <1>a, <1>b, <1>c, <1>13, <1>14, Zenon

-----------------------------------------------------------------------------
(* The last layout.                                                        *)

\* At the last version a layout leaves open only rows, digests and archive.
LEMMA LastLayout ==
    ASSUME NEW d, Layout(38, d)
    PROVE  /\ d.relations = {PerSeries, SyncState, RowHashes}
           /\ d.columns = {} /\ d.view = "reset_view" /\ d.refresh = "refresh_long"
           /\ Active(d) = {} /\ Contract(d)
<1>1. /\ d.relations \in SUBSET {Daily, Raw, PerSeries, SyncState, RowHashes, FedTable,
                                 Extension, Values, Refresher}
      /\ {PerSeries, SyncState, RowHashes} \subseteq d.relations
      /\ d.relations \cap {Extension, Values, Refresher} = {}
      /\ Daily \notin d.relations /\ Raw \notin d.relations /\ FedTable \notin d.relations
      /\ d.columns = {} /\ d.view = "reset_view" /\ d.refresh = "refresh_long"
  BY DEF Layout, Has, DatabaseType
<1>2. d.relations = {PerSeries, SyncState, RowHashes}
  BY <1>1
<1>3. Active(d) = {}
  BY <1>1 DEF Active, Has
<1>4. Contract(d)
  BY <1>1, <1>2 DEF Contract
<1> QED
  BY <1>1, <1>2, <1>3, <1>4

\* A database is its fields.
LEMMA IsDB ==
    ASSUME NEW d \in DatabaseType
    PROVE  d = DB(d.ledger, d.relations, d.columns, d.view, d.refresh, d.rows, d.digests,
                  d.archive)
BY DEF DB, DatabaseType

\* Replacing one field: where the rows are,
LEMMA WithRows ==
    ASSUME NEW l, NEW r, NEW c, NEW v, NEW f, NEW w, NEW g, NEW a, NEW x
    PROVE  [DB(l, r, c, v, f, w, g, a) EXCEPT !.rows = x] = DB(l, r, c, v, f, x, g, a)
BY DEF DB

\* whether digests describe them,
LEMMA WithDigests ==
    ASSUME NEW l, NEW r, NEW c, NEW v, NEW f, NEW w, NEW g, NEW a, NEW x
    PROVE  [DB(l, r, c, v, f, w, g, a) EXCEPT !.digests = x] = DB(l, r, c, v, f, w, x, a)
BY DEF DB

\* (both at once is one after the other)
LEMMA OneByOne ==
    ASSUME NEW d, NEW x, NEW y
    PROVE  [d EXCEPT !.rows = x, !.digests = y]
             = [[d EXCEPT !.rows = x] EXCEPT !.digests = y]
OBVIOUS

\* and what is archived.
LEMMA WithArchive ==
    ASSUME NEW l, NEW r, NEW c, NEW v, NEW f, NEW w, NEW g, NEW a, NEW x
    PROVE  [DB(l, r, c, v, f, w, g, a) EXCEPT !.archive = x] = DB(l, r, c, v, f, w, g, x)
BY DEF DB

\* So two databases of that layout with one ledger differ in nothing else.
LEMMA LastSchema ==
    ASSUME NEW d, Layout(38, d), d.ledger = Versions
    PROVE  [d EXCEPT !.rows = None, !.digests = FALSE] = Recreated(d)
<1>1. /\ Layout(38, Canonical) /\ Canonical.ledger = Versions /\ Canonical.rows = None
  BY SchemaHasLayout DEF Canonical, Versions
<1>2. /\ d \in DatabaseType /\ Canonical \in DatabaseType /\ (Canonical.digests <=> FALSE)
  BY <1>1 DEF Layout
<1>3. /\ d.relations = Canonical.relations /\ d.columns = Canonical.columns
      /\ d.view = Canonical.view /\ d.refresh = Canonical.refresh
  BY <1>1, LastLayout
<1> DEFINE c == Canonical
           Same == DB(Versions, c.relations, c.columns, c.view, c.refresh, None, Unset, d.archive)
<1> HIDE DEF Canonical
<1>4. c.digests = Unset
  BY <1>2, UnsetIsFalse DEF DatabaseType
<1> HIDE DEF c
<1> DEFINE Whole == DB(Versions, c.relations, c.columns, c.view, c.refresh, d.rows, d.digests,
                       d.archive)
           Bare == DB(Versions, c.relations, c.columns, c.view, c.refresh, None, d.digests,
                      d.archive)
           Recreation == DB(Versions, c.relations, c.columns, c.view, c.refresh, None, Unset,
                         c.archive)
<1>5. [Whole EXCEPT !.rows = None, !.digests = Unset] = Same
  <2>1. [Whole EXCEPT !.rows = None] = Bare
    BY WithRows
  <2>2. [Bare EXCEPT !.digests = Unset] = Same
    BY WithDigests
  <2> HIDE DEF Whole, Bare, Same
  <2> QED
    BY <2>1, <2>2, OneByOne
<1>6. [Recreation EXCEPT !.archive = d.archive] = Same
  BY WithArchive
<1>7. d = Whole
  BY <1>2, <1>3, IsDB DEF c
<1>8. c = Recreation
  BY <1>1, <1>2, <1>4, IsDB DEF c
<1> HIDE DEF Same, Whole, Bare, Recreation
<1>9. [d EXCEPT !.rows = None, !.digests = Unset] = Same
  BY <1>5, <1>7, Zenon
<1>10. [c EXCEPT !.archive = d.archive] = Same
  BY <1>6, <1>8, Zenon
<1> QED
  BY <1>9, <1>10, Zenon DEF Recreated, c, Unset

-----------------------------------------------------------------------------
(* Runs do not touch the ledger.                                           *)

\* Whatever a database looks like.
Records(d, L) == "ledger" \in DOMAIN d /\ d.ledger = L

\* No statement touches the ledger.
LEMMA ResultRecords ==
    ASSUME NEW d, NEW L, Records(d, L), NEW s PROVE Records(Result(d, s), L)
BY DEF Records, Result, WithoutRaw, Adding, Dropping

\* Every version has finitely many statements.
LEMMA Lengths == ASSUME NEW v \in Versions PROVE Len(Migrations[v]) \in Nat
<1>1. \A n \in {4, 5, 6, 7, 16, 17} : Len(Migrations[n]) \in Nat
  BY Lists
<1>2. \A n \in {12, 14, 15, 18, 21, 22, 23, 26, 27} : Len(Migrations[n]) \in Nat
  <2>1. Len(LegacyRebuild) \in Nat
    BY DEF LegacyRebuild
  <2> QED
    BY <2>1, Lists
<1>3. \A n \in {19, 25, 28, 29, 30} : Len(Migrations[n]) \in Nat
  <2>1. \A x : Len(AddColumn(x)) \in Nat
    BY DEF AddColumn
  <2> QED
    BY <2>1, Lists
<1>4. Len(Migrations[1]) \in Nat
  BY DEF Migrations
<1>5. Len(Migrations[2]) \in Nat
  BY DEF Migrations
<1>6. Len(Migrations[3]) \in Nat
  BY DEF Migrations
<1>7. Len(Migrations[8]) \in Nat
  BY DEF Migrations, ConsumerLayout
<1>8. Len(Migrations[9]) \in Nat
  BY DEF Migrations
<1>9. Len(Migrations[10]) \in Nat
  BY DEF Migrations, WideView
<1>10. Len(Migrations[11]) \in Nat
  BY DEF Migrations, RawOnlyLayout
<1>11. Len(Migrations[13]) \in Nat
  BY DEF Migrations, RefreshFunction
<1>12. Len(Migrations[20]) \in Nat
  BY DEF Migrations, FedArchive
<1>13. Len(Migrations[24]) \in Nat
  BY DEF Migrations, AddColumns
<1>14. Len(Migrations[31]) \in Nat
  BY DEF Migrations, SeriesTables
<1>15. Len(Migrations[32]) \in Nat
  BY DEF Migrations, ExtendedFeatures
<1>16. Len(Migrations[33]) \in Nat
  BY DEF Migrations, FedDriftCleanup
<1>17. Len(Migrations[34]) \in Nat
  BY DEF Migrations, FeatureValues
<1>18. Len(Migrations[35]) \in Nat
  BY DEF Migrations, FirstPopulation
<1>19. Len(Migrations[36]) \in Nat
  BY DEF Migrations, RetireWideViews
<1>20. Len(Migrations[37]) \in Nat
  BY DEF Migrations, Observation
<1>21. Len(Migrations[38]) \in Nat
  BY DEF Migrations, NullReset
<1> DEFINE Finite(n) == Len(Migrations[n]) \in Nat
<1>22. \A n \in 1 .. 11 : Finite(n)
  <2>1. /\ \A n \in {4, 5, 6, 7} : Finite(n)
        /\ Finite(1) /\ Finite(2) /\ Finite(3) /\ Finite(8) /\ Finite(9) /\ Finite(10)
        /\ Finite(11)
    BY <1>1, <1>4, <1>5, <1>6, <1>7, <1>8, <1>9, <1>10
  <2> HIDE DEF Finite
  <2> QED
    BY <2>1
<1>23. \A n \in 12 .. 30 : Finite(n)
  <2>1. /\ \A n \in {16, 17} : Finite(n)
        /\ \A n \in {12, 14, 15, 18, 21, 22, 23, 26, 27} : Finite(n)
        /\ \A n \in {19, 25, 28, 29, 30} : Finite(n)
        /\ Finite(13) /\ Finite(20) /\ Finite(24)
    BY <1>1, <1>2, <1>3, <1>11, <1>12, <1>13
  <2> HIDE DEF Finite
  <2> QED
    BY <2>1
<1>24. \A n \in 31 .. 38 : Finite(n)
  <2>1. /\ Finite(31) /\ Finite(32) /\ Finite(33) /\ Finite(34)
        /\ Finite(35) /\ Finite(36) /\ Finite(37) /\ Finite(38)
    BY <1>14, <1>15, <1>16, <1>17, <1>18, <1>19, <1>20, <1>21
  <2> HIDE DEF Finite
  <2> QED
    BY <2>1
<1> HIDE DEF Finite
<1>25. Finite(v)
  BY <1>22, <1>23, <1>24 DEF Versions
<1> QED
  BY <1>25 DEF Finite

\* Neither does a run, whatever it leaves out.
LEMMA RunKeepsLedger ==
    ASSUME NEW d, NEW v \in Versions, NEW left, NEW L, Records(d, L),
           NEW e \in Run(d, v, left)
    PROVE  Records(e, L)
<1> DEFINE run == Runs(d, v, left)
           len == Len(Migrations[v])
           Missing == {i \in 0 .. len : \E x \in run[i] : ~Records(x, L)}
           Less == OpToRel(<, Nat)
<1>1. len \in Nat
  BY Lengths
<1>2. /\ run[0] = {d}
      /\ \A i \in 1 .. len :
            run[i] = IF Migrations[v][i] \in left THEN run[i - 1]
                     ELSE Execute(run[i - 1], Migrations[v][i])
  BY <1>1, RunsAreRuns, RunsStep
<1> HIDE DEF run, len
<1>3. SUFFICES ASSUME Missing # {} PROVE FALSE
  BY <1>1 DEF Run, run, len
<1>4. PICK m \in Missing : \A i \in Missing : <<i, m>> \notin Less
  <2>1. Missing \in SUBSET Nat
    BY <1>1
  <2> HIDE DEF Less, Missing
  <2>2. IsWellFoundedOn(Less, Nat)
    BY NatLessThanWellFounded DEF Less
  <2> QED
    BY <2>1, <2>2, <1>3, WFMin
<1>5. m # 0
  BY <1>2
<1>6. m \in 1 .. len /\ m - 1 \in 0 .. len /\ m - 1 < m /\ m - 1 \in Nat /\ m \in Nat
  BY <1>1, <1>5
<1>7. <<m - 1, m>> \in Less
  BY <1>6 DEF OpToRel
<1>8. \A x \in run[m - 1] : Records(x, L)
  BY <1>4, <1>6, <1>7
<1>9. \A x \in Execute(run[m - 1], Migrations[v][m]) : Records(x, L)
  BY <1>8, ResultRecords DEF Execute
<1> QED
  BY <1>2, <1>4, <1>6, <1>8, <1>9

-----------------------------------------------------------------------------
(* One pending version of an administrator.                                *)

Mode(isFresh) == IF isFresh THEN "fresh" ELSE "upgrade"

\* What an administrator leaves out depends on what it found installed.
LEMMA LeftOutIsLeft ==
    ASSUME NEW a, fresh[a] \in BOOLEAN, NEW v PROVE LeftOut(a, v) = Left(v, Mode(fresh[a]))
<1>1. CASE fresh[a]
  BY <1>1 DEF LeftOut, Left, Leaves, Mode, Skips
<1>2. CASE ~fresh[a]
  BY <1>2 DEF LeftOut, Left, Leaves, Mode, Skips
<1> QED
  BY <1>1, <1>2

\* After a prefix of the versions the next one is pending.
LEMMA NextIsNext == ASSUME NEW m \in 0 .. 37 PROVE Min(Versions \ (1 .. m)) = m + 1
<1> DEFINE S == Versions \ (1 .. m)
           Least(x) == x \in S /\ \A y \in S : x <= y
<1>1. Least(m + 1)
  BY DEF Versions
<1>2. \A x : Least(x) => x = m + 1
  BY <1>1 DEF Versions
<1>3. Min(S) = CHOOSE x : Least(x)
  BY DEF Min
<1> HIDE DEF Least
<1> QED
  BY <1>1, <1>2, <1>3

\* A ledger is a prefix in one way only.
LEMMA PrefixesDiffer ==
    ASSUME NEW m \in 0 .. 38, NEW n \in 0 .. 38, 1 .. m = 1 .. n PROVE m = n
<1>1. ~(m < n)
  <2>1. m < n => n \in 1 .. n /\ n \notin 1 .. m
    OBVIOUS
  <2> QED
    BY <2>1
<1>2. ~(n < m)
  <2>1. n < m => m \in 1 .. m /\ m \notin 1 .. n
    OBVIOUS
  <2> QED
    BY <2>1
<1> QED
  BY <1>1, <1>2

\* What an upgrade keeps of a database, and what an installation shows of it.
Keeping(old, new, v) ==
    /\ v >= 12 => (old.rows # None <=> new.rows # None)
    /\ Active(old) \cup old.archive \subseteq Active(new) \cup new.archive

\* The run of the next version after m does not raise; with its ledger row the
\* database has the next layout.
Advanced(d, m, isFresh, e) ==
    /\ {x \in Run(d, m + 1, Left(m + 1, Mode(isFresh))) : m + 1 \notin x.ledger} = {e}
    /\ [e EXCEPT !.ledger = @ \cup {m + 1}].ledger = 1 .. (m + 1)
    /\ Layout(m + 1, [e EXCEPT !.ledger = @ \cup {m + 1}])
    /\ isFresh /\ m + 1 <= 35 => [e EXCEPT !.ledger = @ \cup {m + 1}].view = None
    /\ Keeping(d, [e EXCEPT !.ledger = @ \cup {m + 1}], m + 1)

\* From every layout the next version is applied, and keeps what it is to keep.
LEMMA Advances ==
    ASSUME NEW m \in 0 .. 37, NEW d, Layout(m, d), d.ledger = 1 .. m,
           NEW isFresh \in BOOLEAN, isFresh /\ m <= 35 => d.view = None
    PROVE  \E e : Advanced(d, m, isFresh, e)
<1> DEFINE v == m + 1
           mode == Mode(isFresh)
<1>1. v \in Versions /\ v - 1 = m /\ mode \in Modes
  BY DEF Versions, Mode, Modes
<1>2. Shown(m, mode, d)
  BY DEF Shown, Mode
<1>3. Taken(v, mode, d)
  <2> HIDE DEF v, mode
  <2>1. Takes(v)
    BY <1>1, AllTaken
  <2> QED
    BY <2>1, <1>1, <1>2 DEF Takes
<1>4. PICK e : /\ Run(d, v, Left(v, mode)) = {e}
               /\ Layout(v, e) /\ Shown(v, mode, e) /\ Preserves(v, d, e)
  BY <1>3 DEF Taken
<1> DEFINE f == [e EXCEPT !.ledger = @ \cup {v}]
<1>5. e.ledger = 1 .. m /\ v \notin e.ledger
  <2>1. e.ledger = d.ledger
    <3> HIDE DEF v, mode
    <3> QED
      BY <1>4 DEF Preserves
  <2> QED
    BY <2>1
<1>6. f = Recorded(e, 1 .. v) /\ 1 .. v \in SUBSET Versions
  <2>1. (1 .. m) \cup {v} = 1 .. v
    BY PrefixGrows
  <2>2. 1 .. v \in SUBSET Versions
    <3>1. v \in 0 .. 38
      BY <1>1 DEF Versions
    <3> QED
      BY <3>1, PrefixIsVersions
  <2> QED
    BY <2>1, <2>2, <1>5 DEF Recorded
<1>7. /\ Layout(v, f) /\ f.ledger = 1 .. v /\ f.rows = e.rows /\ f.view = e.view
      /\ Active(f) = Active(e) /\ f.archive = e.archive
  <2> DEFINE L == 1 .. v
  <2>1. f = Recorded(e, L) /\ L \in SUBSET Versions
    BY <1>6
  <2> HIDE DEF f, L
  <2>2. /\ Layout(v, f) /\ f.ledger = L /\ f.rows = e.rows /\ f.view = e.view
        /\ Active(f) = Active(e) /\ f.archive = e.archive
    <3> HIDE DEF v, mode
    <3> QED
      BY <1>4, <2>1, RecordedLayout
  <2> QED
    BY <2>2 DEF L
<1>8. isFresh /\ v <= 35 => f.view = None
  BY <1>4, <1>7 DEF Shown, Mode
<1>9. Keeping(d, f, v)
  <2>1. d.rows \in {None, Daily, Raw, PerSeries} /\ e.rows \in {None, Daily, Raw, PerSeries}
    BY <1>4 DEF Layout, DatabaseType
  <2> HIDE DEF f, v
  <2> QED
    BY <1>4, <1>7, <2>1 DEF Preserves, Keeping
<1>10. {x \in Run(d, v, Left(v, mode)) : v \notin x.ledger} = {e}
  BY <1>4, <1>5
<1> QED
  BY <1>7, <1>8, <1>9, <1>10 DEF Advanced

-----------------------------------------------------------------------------
(* The inductive invariant.                                                *)

\* A ledger that ends at a version, and the layout that goes with it.
Upto(d) == \E n \in 0 .. 38 : d.ledger = 1 .. n /\ Layout(n, d)

\* What a transaction has kept of the committed database.
Kept(old, new) ==
    /\ 1 .. 11 \subseteq old.ledger => (old.rows # None <=> new.rows # None)
    /\ Active(old) \cup old.archive \subseteq Active(new) \cup new.archive

\* A transaction has written a prefix of the versions on top of what it found,
\* and is the only one.
Writes(a) ==
    /\ draft[a].ledger = applied[a] /\ Upto(draft[a])
    /\ db.ledger \subseteq applied[a] /\ Kept(db, draft[a])
    /\ fresh[a] /\ ~(1 .. 36 \subseteq applied[a]) => draft[a].view = None
    /\ NoOtherWriter(a)

\* A session that read a ledger other than the committed one is too late, and
\* all versions are committed; so is one that is refused.
Session(a) ==
    /\ \E n \in 0 .. 38 : applied[a] = 1 .. n
    /\ stage[a] # "writing" => draft[a] = Blank
    /\ stage[a] = "open" => /\ applied[a] = db.ledger \/ db.ledger = Versions
                            /\ fresh[a] => applied[a] = {}
    /\ stage[a] = "refused" => applied[a] # Versions /\ db.ledger = Versions
    /\ stage[a] = "writing" => Writes(a)

Typed ==
    /\ stage \in [Admins -> {"idle", "open", "writing", "refused"}]
    /\ applied \in [Admins -> SUBSET Versions]
    /\ fresh \in [Admins -> BOOLEAN]
    /\ draft \in [Admins -> DatabaseType]

MigrationInv == Typed /\ Upto(db) /\ \A a \in Admins : Session(a)

\* Every layout is well formed.
LEMMA LayoutIsWellFormed ==
    ASSUME NEW n \in 0 .. 38, NEW d, Layout(n, d) PROVE WellFormed(d)
<1>1. d \in DatabaseType
  BY DEF Layout
<1>2. d.rows # None => Has(d, d.rows)
  BY DEF Layout
<1>3. d.view # None => IF d.view = Raw THEN Has(d, Raw) ELSE Has(d, PerSeries)
  BY DEF Layout
<1> QED
  BY <1>1, <1>2, <1>3 DEF WellFormed

\* An empty database is at version 0.
LEMMA BlankIsUpto == Upto(Blank) /\ Blank \in DatabaseType
<1>1. Blank.ledger = 1 .. 0 /\ 0 \in 0 .. 38
  BY DEF Blank
<1> QED
  BY <1>1, BlankLayout DEF Upto, Layout

\* At the end of the ledger the layout is the last one.
LEMMA AllIsLast == ASSUME NEW d, Upto(d), d.ledger = Versions PROVE Layout(38, d)
<1>1. PICK n \in 0 .. 38 : d.ledger = 1 .. n /\ Layout(n, d)
  BY DEF Upto
<1>2. n = 38
  <2>1. d.ledger = 1 .. 38
    BY Zenon DEF Versions
  <2>2. 1 .. n = 1 .. 38
    BY <1>1, <2>1, Zenon
  <2>3. 38 \in 0 .. 38
    OBVIOUS
  <2> QED
    BY <2>2, <2>3, PrefixesDiffer
<1> QED
  BY <1>1, <1>2

\* Every database an administrator may find has the layout of its ledger.
LEMMA InitInv == ASSUME Init PROVE MigrationInv
<1>1. Upto(db)
  <2>1. CASE db = Blank
    BY <2>1, BlankIsUpto
  <2>2. ASSUME NEW n \in Versions, db \in Found(n) PROVE Upto(db)
    <3>1. db.ledger = 1 .. n /\ Layout(n, db)
      BY <2>2, FoundHasLayout
    <3>2. n \in 0 .. 38
      BY DEF Versions
    <3> QED
      BY <3>1, <3>2 DEF Upto
  <2> QED
    BY <2>1, <2>2 DEF Init
<1>2. Typed
  BY BlankIsUpto DEF Init, Typed
<1>3. ASSUME NEW a \in Admins PROVE Session(a)
  <2>1. applied[a] = 1 .. 0 /\ 0 \in 0 .. 38
    BY DEF Init
  <2>2. \E n \in 0 .. 38 : applied[a] = 1 .. n
    BY <2>1
  <2> QED
    BY <2>2 DEF Init, Session
<1> QED
  BY <1>1, <1>2, <1>3 DEF MigrationInv

\* What a session knows survives what leaves it and the committed database alone,
\* and whoever commits while it is not writing leaves all versions behind.
LEMMA OthersKeep ==
    ASSUME NEW b \in Admins, Session(b),
           stage'[b] = stage[b], applied'[b] = applied[b], fresh'[b] = fresh[b],
           draft'[b] = draft[b],
           \/ db' = db /\ (stage[b] = "writing" => NoOtherWriter(b)')
           \/ db'.ledger = Versions /\ stage[b] # "writing"
    PROVE  Session(b)'
<1>1. CASE db' = db /\ (stage[b] = "writing" => NoOtherWriter(b)')
  BY <1>1 DEF Session, Writes
<1>2. CASE db'.ledger = Versions /\ stage[b] # "writing"
  BY <1>2 DEF Session
<1> QED
  BY <1>1, <1>2

\* A session that ends knows nothing.
LEMMA ClosedSession ==
    ASSUME NEW a \in Admins, Typed, Close(a)
    PROVE  /\ Typed' /\ Session(a)' /\ stage'[a] = "idle"
           /\ \A b \in Admins \ {a} :
                 /\ stage'[b] = stage[b] /\ applied'[b] = applied[b]
                 /\ fresh'[b] = fresh[b] /\ draft'[b] = draft[b]
<1>1. /\ stage'[a] = "idle" /\ applied'[a] = {} /\ draft'[a] = Blank
      /\ \A b \in Admins \ {a} :
                 /\ stage'[b] = stage[b] /\ applied'[b] = applied[b]
                 /\ fresh'[b] = fresh[b] /\ draft'[b] = draft[b]
  BY DEF Close, Typed
<1>2. Typed'
  BY BlankIsUpto DEF Close, Typed
<1>3. \E n \in 0 .. 38 : applied'[a] = 1 .. n
  <2>1. applied'[a] = 1 .. 0 /\ 0 \in 0 .. 38
    BY <1>1
  <2> QED
    BY <2>1
<1> QED
  BY <1>1, <1>2, <1>3 DEF Session

\* A session that reads the ledger knows its version.
LEMMA OpenInv == ASSUME MigrationInv, NEW a \in Admins, Open(a) PROVE MigrationInv'
<1>1. Typed /\ Upto(db) /\ \A b \in Admins : Session(b)
  BY DEF MigrationInv
<1>2. /\ stage'[a] = "open" /\ applied'[a] = db.ledger /\ draft'[a] = draft[a]
      /\ fresh'[a] = (db.ledger = {} /\ ~Has(db, Raw) /\ db.view = None)
      /\ stage[a] = "idle" /\ db' = db /\ draft' = draft
      /\ \A b \in Admins \ {a} :
            stage'[b] = stage[b] /\ applied'[b] = applied[b] /\ fresh'[b] = fresh[b]
  BY <1>1 DEF Open, Goto, Typed
<1>3. db.ledger \in SUBSET Versions
  BY <1>1 DEF Upto, Layout, DatabaseType
<1>4. Typed'
  BY <1>1, <1>3 DEF Open, Goto, Typed
<1>5. Session(a)'
  <2>1. draft[a] = Blank
    BY <1>1, <1>2 DEF Session
  <2>2. \E n \in 0 .. 38 : db.ledger = 1 .. n
    BY <1>1 DEF Upto
  <2> QED
    BY <1>2, <2>1, <2>2 DEF Session
<1>6. ASSUME NEW b \in Admins \ {a} PROVE Session(b)'
  <2>1. stage[b] = "writing" => NoOtherWriter(b)'
    BY <1>1, <1>2 DEF Session, Writes, NoOtherWriter
  <2> QED
    BY <1>1, <1>2, <2>1, OthersKeep
<1>7. Upto(db)'
  BY <1>1, <1>2 DEF Upto
<1> QED
  BY <1>4, <1>5, <1>6, <1>7 DEF MigrationInv

\* A session that is rolled back leaves no trace.
LEMMA RollBackInv == ASSUME MigrationInv, NEW a \in Admins, RollBack(a) PROVE MigrationInv'
<1>1. Typed /\ Upto(db) /\ \A b \in Admins : Session(b)
  BY DEF MigrationInv
<1>2. Close(a) /\ db' = db
  BY DEF RollBack
<1>3. ASSUME NEW b \in Admins \ {a} PROVE Session(b)'
  <2>1. stage[b] = "writing" => NoOtherWriter(b)'
    BY <1>1, <1>2, ClosedSession DEF Session, Writes, NoOtherWriter
  <2> QED
    BY <1>1, <1>2, <2>1, ClosedSession, OthersKeep
<1>4. Upto(db)'
  BY <1>1, <1>2 DEF Upto
<1> QED
  BY <1>1, <1>2, <1>3, <1>4, ClosedSession DEF MigrationInv

\* The database a transaction commits has the last layout: the contract holds.
LEMMA FinishedLayout ==
    ASSUME MigrationInv, NEW a \in Admins, stage[a] \in {"open", "writing"}, Pending(a) = {}
    PROVE  Layout(38, Seen(a)) /\ Seen(a).ledger = Versions /\ Contract(Seen(a)) /\ Upto(Seen(a))
<1>1. Typed /\ Upto(db) /\ Session(a)
  BY DEF MigrationInv
<1>2. applied[a] = Versions
  BY <1>1 DEF Pending, Typed
<1>3. Upto(Seen(a)) /\ Seen(a).ledger = Versions
  <2>1. CASE stage[a] = "open"
    BY <2>1, <1>1, <1>2 DEF Seen, Session
  <2>2. CASE stage[a] = "writing"
    BY <2>2, <1>1, <1>2 DEF Seen, Session, Writes
  <2> QED
    BY <2>1, <2>2
<1> QED
  BY <1>3, AllIsLast, LastLayout

\* A commit leaves all versions applied; every other open session is too late.
LEMMA FinishInv == ASSUME MigrationInv, NEW a \in Admins, Finish(a) PROVE MigrationInv'
<1>1. Typed /\ Upto(db) /\ \A b \in Admins : Session(b)
  BY DEF MigrationInv
<1>2. Layout(38, Seen(a)) /\ Seen(a).ledger = Versions /\ Contract(Seen(a)) /\ Upto(Seen(a))
  BY FinishedLayout DEF Finish
<1>3. db' = Seen(a) /\ Close(a) /\ NoOtherWriter(a)
  BY <1>2 DEF Finish
<1>4. ASSUME NEW b \in Admins \ {a} PROVE Session(b)'
  <2>1. db'.ledger = Versions /\ stage[b] # "writing"
    BY <1>2, <1>3 DEF NoOtherWriter
  <2> QED
    BY <1>1, <1>3, <2>1, ClosedSession, OthersKeep
<1>5. Upto(db)'
  BY <1>2, <1>3 DEF Upto
<1> QED
  BY <1>1, <1>3, <1>4, <1>5, ClosedSession DEF MigrationInv

\* So does a recreation.
LEMMA RecreateInv == ASSUME MigrationInv, NEW a \in Admins, Recreate(a) PROVE MigrationInv'
<1>1. Typed /\ Upto(db) /\ \A b \in Admins : Session(b)
  BY DEF MigrationInv
<1>2. Layout(38, Canonical) /\ Canonical.ledger = 1 .. 38
  BY SchemaHasLayout DEF Canonical
<1>3. Upto(Recreated(db)) /\ Recreated(db).ledger = 1 .. 38
  <2>1. db.archive \in SUBSET FedOrigins
    BY <1>1 DEF Upto, Layout, DatabaseType
  <2>2. Layout(38, Recreated(db)) /\ Recreated(db).ledger = 1 .. 38
    <3> DEFINE c == Canonical
    <3>1. Recreated(db) = [c EXCEPT !.archive = db.archive] /\ Layout(38, c) /\ c.ledger = 1 .. 38
      BY <1>2 DEF Recreated
    <3> HIDE DEF c
    <3> QED
      BY <2>1, <3>1 DEF Layout, DatabaseType, Has
  <2> QED
    BY <2>2 DEF Upto
<1>4. db' = Recreated(db) /\ UNCHANGED <<stage, applied, fresh, draft>>
  BY DEF Recreate
<1>5. ASSUME NEW b \in Admins PROVE Session(b)'
  <2>1. stage[b] # "writing" /\ db'.ledger = Versions
    BY <1>3, <1>4 DEF Recreate, Versions
  <2> QED
    BY <1>1, <1>4, <2>1, OthersKeep
<1>6. Typed' /\ Upto(db)'
  BY <1>1, <1>3, <1>4 DEF Typed, Upto
<1> QED
  BY <1>5, <1>6 DEF MigrationInv

\* Before the last version the next one is pending.
LEMMA PendingNext ==
    ASSUME NEW a \in Admins, NEW m \in 0 .. 38, applied[a] = 1 .. m, Pending(a) # {}
    PROVE  /\ m \in 0 .. 37 /\ NextVersion(a) = m + 1 /\ m + 1 \in Versions
           /\ applied[a] \cup {m + 1} = 1 .. (m + 1)
<1>1. m # 38
  BY DEF Pending, Versions
<1>2. m \in 0 .. 37
  BY <1>1
<1>3. Min(Versions \ (1 .. m)) = m + 1
  BY <1>2, NextIsNext
<1>4. NextVersion(a) = m + 1
  BY <1>3, Zenon DEF NextVersion, Pending
<1>5. (1 .. m) \cup {m + 1} = 1 .. (m + 1)
  BY <1>2, PrefixGrows
<1>6. m + 1 \in Versions
  BY <1>2 DEF Versions
<1> QED
  BY <1>2, <1>4, <1>5, <1>6

\* Of all sessions only one that was overtaken does not advance.
LEMMA Overtaken ==
    ASSUME NEW d, Upto(d), d.ledger = Versions, NEW v \in Versions, NEW left
    PROVE  {x \in Run(d, v, left) : v \notin x.ledger} = {}
<1>1. Records(d, Versions)
  BY DEF Records, Upto, Layout, DatabaseType
<1>2. \A x \in Run(d, v, left) : x.ledger = Versions
  BY <1>1, RunKeepsLedger DEF Records
<1> QED
  BY <1>2

\* A session that is to apply a version sees the layout before it.
LEMMA SeesLayout ==
    ASSUME MigrationInv, NEW a \in Admins, stage[a] \in {"open", "writing"},
           NEW m \in 0 .. 37, applied[a] = 1 .. m
    PROVE  \/ /\ Layout(m, Seen(a)) /\ Seen(a).ledger = 1 .. m
              /\ fresh[a] /\ m <= 35 => Seen(a).view = None
           \/ stage[a] = "open" /\ Seen(a) = db /\ db.ledger = Versions
<1>1. Typed /\ Upto(db) /\ Session(a)
  BY DEF MigrationInv
<1>2. ASSUME NEW d, Upto(d), d.ledger = 1 .. m PROVE Layout(m, d)
  <2>1. PICK n \in 0 .. 38 : d.ledger = 1 .. n /\ Layout(n, d)
    BY <1>2 DEF Upto
  <2>2. m \in 0 .. 38 /\ 1 .. m = 1 .. n
    BY <1>2, <2>1
  <2>3. m = n
    BY <2>2, PrefixesDiffer
  <2> QED
    BY <2>1, <2>3
<1>3. CASE stage[a] = "open" /\ db.ledger # Versions
  <2>1. Seen(a) = db /\ db.ledger = 1 .. m /\ (fresh[a] => applied[a] = {})
    BY <1>1, <1>3 DEF Session, Seen
  <2>2. Layout(m, db)
    BY <1>1, <1>2, <2>1
  <2>3. fresh[a] => m = 0
    <3>1. m # 0 => 1 \in 1 .. m
      OBVIOUS
    <3> QED
      BY <2>1, <3>1
  <2>4. m = 0 => db.view = None
    BY <2>2 DEF Layout
  <2> QED
    BY <2>1, <2>2, <2>3, <2>4
<1>4. CASE stage[a] = "writing"
  <2>1. /\ Seen(a) = draft[a] /\ draft[a].ledger = 1 .. m /\ Upto(draft[a])
        /\ fresh[a] /\ ~(1 .. 36 \subseteq applied[a]) => draft[a].view = None
    BY <1>1, <1>4 DEF Session, Writes, Seen
  <2>2. m <= 35 => ~(1 .. 36 \subseteq 1 .. m)
    <3>1. m <= 35 => 36 \in 1 .. 36 /\ 36 \notin 1 .. m
      OBVIOUS
    <3> QED
      BY <3>1
  <2> QED
    BY <1>2, <2>1, <2>2
<1> QED
  BY <1>3, <1>4 DEF Seen

\* What a transaction has kept it keeps with one version more.
LEMMA KeptOn ==
    ASSUME NEW m \in 0 .. 37, NEW base, NEW old, NEW new, Keeping(old, new, m + 1),
           base.ledger \subseteq 1 .. m, Kept(base, old)
    PROVE  Kept(base, new)
<1>1. 1 .. 11 \subseteq base.ledger => m + 1 >= 12
  <2>1. 11 \in 1 .. m => m + 1 >= 12
    OBVIOUS
  <2> QED
    BY <2>1
<1> QED
  BY <1>1 DEF Kept, Keeping

\* A pending version is applied to the layout it expects, or comes too late.
LEMMA ApplyInv == ASSUME MigrationInv, NEW a \in Admins, Apply(a) PROVE MigrationInv'
<1>1. Typed /\ Upto(db) /\ \A b \in Admins : Session(b)
  BY DEF MigrationInv
<1>2. /\ stage[a] \in {"open", "writing"} /\ Pending(a) # {} /\ NoOtherWriter(a)
      /\ db' = db /\ fresh' = fresh
  BY DEF Apply
<1>3. PICK m \in 0 .. 38 : applied[a] = 1 .. m
  BY <1>1 DEF Session
<1> DEFINE v == m + 1
           run == {x \in Run(Seen(a), v, LeftOut(a, v)) : v \notin x.ledger}
<1>4. /\ m \in 0 .. 37 /\ NextVersion(a) = v /\ v \in Versions
      /\ applied[a] \cup {v} = 1 .. v
  BY <1>2, <1>3, PendingNext
<1>5. \/ /\ run = {}
         /\ Goto(a, "refused") /\ UNCHANGED <<applied, draft>>
      \/ \E d \in run :
            /\ Goto(a, "writing")
            /\ applied' = [applied EXCEPT ![a] = @ \cup {v}]
            /\ draft' = [draft EXCEPT ![a] = [d EXCEPT !.ledger = @ \cup {v}]]
  BY <1>4 DEF Apply
<1>6. Upto(db)'
  BY <1>1, <1>2 DEF Upto
\* The others.
<1>7. ASSUME \A b \in Admins \ {a} :
                stage'[b] = stage[b] /\ applied'[b] = applied[b] /\ draft'[b] = draft[b],
             NEW b \in Admins \ {a}
      PROVE  Session(b)'
  <2>1. stage[b] # "writing"
    BY <1>2 DEF NoOtherWriter
  <2> QED
    BY <1>1, <1>2, <1>7, <2>1, OthersKeep
\* A session that was overtaken.
<1>8. CASE stage[a] = "open" /\ Seen(a) = db /\ db.ledger = Versions
  <2>1. run = {}
    BY <1>1, <1>4, <1>8, Overtaken
  <2>2. Goto(a, "refused") /\ UNCHANGED <<applied, draft>>
    BY <1>5, <2>1
  <2>3. applied[a] # Versions
    BY <1>2 DEF Pending
  <2>4. /\ stage'[a] = "refused" /\ draft[a] = Blank
        /\ \A b \in Admins \ {a} : stage'[b] = stage[b]
    BY <1>1, <1>8, <2>2 DEF Goto, Typed, Session
  <2>5. Session(a)'
    BY <1>1, <1>2, <1>8, <2>2, <2>3, <2>4 DEF Session
  <2>6. Typed'
    BY <1>1, <1>2, <2>2 DEF Typed, Goto
  <2> QED
    BY <1>6, <1>7, <2>2, <2>4, <2>5, <2>6 DEF MigrationInv
\* A session that advances.
<1>9. CASE /\ Layout(m, Seen(a)) /\ Seen(a).ledger = 1 .. m
           /\ fresh[a] /\ m <= 35 => Seen(a).view = None
  <2>1. fresh[a] \in BOOLEAN
    BY <1>1 DEF Typed
  <2>2. PICK e : Advanced(Seen(a), m, fresh[a], e)
    BY <1>4, <1>9, <2>1, Advances
  <2> DEFINE d == [e EXCEPT !.ledger = @ \cup {v}]
  <2>3. /\ run = {e} /\ d.ledger = 1 .. v /\ Layout(v, d)
        /\ fresh[a] /\ v <= 35 => d.view = None
        /\ Keeping(Seen(a), d, v)
    BY <2>1, <2>2, LeftOutIsLeft DEF Advanced
  <2> HIDE DEF run
  <2>4. /\ Goto(a, "writing")
        /\ applied' = [applied EXCEPT ![a] = @ \cup {v}]
        /\ draft' = [draft EXCEPT ![a] = d]
    BY <1>5, <2>3
  <2> HIDE DEF d
  <2>5. d \in DatabaseType
    BY <2>3 DEF Layout
  <2>6. Typed'
    BY <1>1, <1>2, <1>4, <2>4, <2>5 DEF Typed, Goto
  <2>7. /\ stage'[a] = "writing" /\ applied'[a] = 1 .. v /\ draft'[a] = d
        /\ \A b \in Admins \ {a} :
              stage'[b] = stage[b] /\ applied'[b] = applied[b] /\ draft'[b] = draft[b]
    BY <1>1, <1>4, <2>4 DEF Typed, Goto
  <2>8. Upto(d) /\ v \in 0 .. 38
    <3>1. v \in 0 .. 38
      BY <1>4
    <3> HIDE DEF v
    <3> QED
      BY <2>3, <3>1 DEF Upto
  <2>9. db.ledger \subseteq 1 .. m /\ Kept(db, Seen(a))
    <3>1. CASE stage[a] = "writing"
      BY <3>1, <1>1, <1>3 DEF Session, Writes, Seen
    <3>2. CASE stage[a] = "open"
      BY <3>2, <1>9 DEF Seen, Kept
    <3> QED
      BY <3>1, <3>2, <1>2
  <2>10. Kept(db, d)
    BY <1>4, <2>3, <2>9, KeptOn
  <2>11. db.ledger \subseteq 1 .. v
    BY <1>4, <2>9
  <2>12. fresh[a] /\ ~(1 .. 36 \subseteq 1 .. v) => d.view = None
    <3>1. v > 35 => 1 .. 36 \subseteq 1 .. v
      BY <1>4
    <3> QED
      BY <1>4, <2>3, <3>1
  <2>13. NoOtherWriter(a)'
    BY <1>2, <2>7 DEF NoOtherWriter
  <2>14. Writes(a)'
    <3> HIDE DEF v
    <3> QED
      BY <1>2, <2>3, <2>7, <2>8, <2>10, <2>11, <2>12, <2>13 DEF Writes, Upto, Kept
  <2>15. Session(a)'
    <3> HIDE DEF v
    <3> QED
      BY <2>7, <2>8, <2>14 DEF Session
  <2> QED
    BY <1>6, <1>7, <2>6, <2>7, <2>15 DEF MigrationInv
<1> QED
  <2>1. m \in 0 .. 37 /\ applied[a] = 1 .. m /\ stage[a] \in {"open", "writing"}
    BY <1>2, <1>3, <1>4
  <2> QED
    BY <2>1, <1>8, <1>9, SeesLayout

\* Every step preserves the invariant.
LEMMA StepInv == ASSUME MigrationInv, [Next]_vars PROVE MigrationInv'
<1>1. CASE UNCHANGED vars
  <2>1. ASSUME NEW a \in Admins PROVE Session(a)'
    BY <1>1 DEF MigrationInv, Session, Writes, NoOtherWriter, Kept, Upto, vars
  <2> QED
    BY <1>1, <2>1 DEF MigrationInv, Typed, Upto, vars
<1>2. ASSUME NEW a \in Admins, Open(a) \/ Apply(a) \/ Finish(a) \/ Recreate(a) \/ RollBack(a)
      PROVE  MigrationInv'
  BY <1>2, OpenInv, ApplyInv, FinishInv, RecreateInv, RollBackInv
<1> QED
  BY <1>1, <1>2 DEF Next

\* What every administrator commits or drafts keeps a layout of its version, and
\* what each session knows stays true while others act.
THEOREM LedgersTellTheLayout == Spec => []MigrationInv
<1>1. Init => MigrationInv
  BY InitInv
<1>2. MigrationInv /\ [Next]_vars => MigrationInv'
  BY StepInv
<1> QED
  BY <1>1, <1>2, PTL DEF Spec

-----------------------------------------------------------------------------
(* The properties.                                                         *)

\* Rows lie in a relation that exists, the view stands over one, and a
\* transaction has recorded the versions it counts as applied, for every set of
\* administrators.
THEOREM DatabasesAreWellFormed == Spec => []TypeOK
<1>1. MigrationInv => TypeOK
  <2> SUFFICES ASSUME MigrationInv PROVE TypeOK
    OBVIOUS
  <2>1. Typed /\ Upto(db) /\ \A a \in Admins : Session(a)
    BY DEF MigrationInv
  <2>2. \A d : Upto(d) => WellFormed(d)
    BY LayoutIsWellFormed DEF Upto
  <2>3. ASSUME NEW a \in Admins PROVE WellFormed(draft[a])
    <3>1. Upto(draft[a])
      BY <2>1, BlankIsUpto DEF Session, Writes
    <3> QED
      BY <2>2, <3>1
  <2>4. \A a \in Admins : stage[a] = "writing" => draft[a].ledger = applied[a]
    BY <2>1 DEF Session, Writes
  <2> QED
    BY <2>1, <2>2, <2>3, <2>4 DEF TypeOK, Typed
<1> QED
  BY <1>1, LedgersTellTheLayout, PTL

\* No statement of an upgrade raises and the contract holds at its end: a session
\* is refused only because another one committed all versions first, and before
\* it has changed anything.
THEOREM UpgradesSucceed == Spec => []UpgradeSucceeds
<1>1. MigrationInv => UpgradeSucceeds
  BY DEF MigrationInv, Session, UpgradeSucceeds
<1> QED
  BY <1>1, LedgersTellTheLayout, PTL

\* Leaving out the intermediate views, an upgrade from any version ends in the
\* schema that a recreation builds with them.
THEOREM UpgradesEndInOneSchema == Spec => []OneSchema
<1>1. MigrationInv => OneSchema
  BY AllIsLast, LastSchema DEF MigrationInv, OneSchema
<1> QED
  BY <1>1, LedgersTellTheLayout, PTL

\* No version drops the rows and keeps their digests.
THEOREM DigestsGoWithTheRows == Spec => []DigestsFollowRows
<1>1. MigrationInv => DigestsFollowRows
  BY DEF MigrationInv, Upto, Layout, DigestsFollowRows
<1> QED
  BY <1>1, LedgersTellTheLayout, PTL

\* What a migration commits has the served rows and the retired data of the
\* database it found.
THEOREM CommitsKeepData == Spec => MigrationsKeepData
<1> DEFINE Safe(a) == stage[a] = "writing" /\ db' # db => Keeps(db, db')
<1>1. MigrationInv /\ [Next]_vars => [\A a \in Admins : Safe(a)]_vars
  <2> SUFFICES ASSUME MigrationInv, Next, NEW a \in Admins, stage[a] = "writing", db' # db
               PROVE  Keeps(db, db')
    BY DEF vars
  <2>1. Typed /\ Session(a)
    BY DEF MigrationInv
  <2>2. PICK b \in Admins : Finish(b) \/ Recreate(b)
    BY DEF Next, Open, Apply, RollBack
  <2>3. ~Recreate(b)
    BY <2>1 DEF Recreate
  <2>4. b = a
    BY <2>2, <2>3 DEF Finish, NoOtherWriter
  <2>5. Finish(a)
    BY <2>2, <2>3, <2>4
  <2>6. Layout(38, draft[a]) /\ db' = draft[a]
    BY <2>5, FinishedLayout DEF Finish, Seen
  <2>7. Kept(db, draft[a]) /\ Active(draft[a]) = {}
    BY <2>1, <2>6, LastLayout DEF Session, Writes
  <2> QED
    BY <2>6, <2>7 DEF Kept, Keeps
<1> QED
  BY <1>1, LedgersTellTheLayout, PTL DEF Spec, MigrationsKeepData
=============================================================================
