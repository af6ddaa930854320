-------------------------- MODULE SchemaMigrations --------------------------
(***************************************************************************)
(* postgres-migrate and the schema recreation of postgres-reconstruct: the *)
(* 38 migrations with the statements that matter to one another, the       *)
(* statements migrate leaves out, the ledger, the contract checked before  *)
(* the commit, and several administrators.  A database starts at any       *)
(* version an earlier release left behind.                                 *)
(*                                                                         *)
(* A statement is named for what it does.  Grants, owners and index names  *)
(* are left out; "wide" is the former one-row-per-minute feature view.     *)
(***************************************************************************)
EXTENDS Integers, SequencesExt

CONSTANT Admins  \* sessions that may migrate or recreate

None == "none"

\* Relations besides the published view macro_features and the ledger.
Daily     == "macro_features_daily"
Raw       == "macro_raw"
PerSeries == "macro_raw_series"
SyncState == "gold_sync_state"
RowHashes == "gold_row_hashes"
FedTable  == "fed_policy_features_daily"
Extension == "macro_features_extended"
Values    == "macro_feature_values"
Refresher == "refresh_macro_feature_values"

\* Columns of macro_raw that came or went with a version.
Added      == {"available", "ohlc", "v28", "v29", "v30"}
FedOrigins == {"columns", "table"}  \* the retired Fed data, by its origin

-----------------------------------------------------------------------------
(* What a database looks like.                                             *)

\* A database record: the ledger; relations; columns of macro_raw; what
\* macro_features is; what its refresh function refreshes; where the served
\* rows are; whether the digest index and checkpoint describe them; retired
\* Fed data in the archive schema.
Blank ==
    [ledger |-> {}, relations |-> {}, columns |-> {}, view |-> None,
     refresh |-> None, rows |-> None, digests |-> FALSE, archive |-> {}]

Has(d, relation) == relation \in d.relations

\* Retired Fed data that is still in the active schemas.
Active(d) ==
    (IF "fed" \in d.columns THEN {"columns"} ELSE {})
    \cup (IF Has(d, FedTable) THEN {"table"} ELSE {})

\* A statement that drops macro_raw takes its rows along.
WithoutRaw(d) ==
    [d EXCEPT !.relations = @ \ {Raw}, !.columns = {},
              !.rows = IF @ = Raw THEN None ELSE @]

Adding(d, relation)  == [d EXCEPT !.relations = @ \cup {relation}]
Dropping(d, relation) == [d EXCEPT !.relations = @ \ {relation}]

-----------------------------------------------------------------------------
(* Statements.                                                             *)

\* When a statement does not raise.
Possible(d, s) ==
    CASE s \in {"drop_raw_if_exists", "rename_daily"} ->
             Has(d, Raw) /\ (s = "rename_daily" => Has(d, Daily)) => d.view # Raw
      [] s \in {"drop_raw", "drop_fed_columns"} -> Has(d, Raw) /\ d.view # Raw
      [] s \in Added -> Has(d, Raw)
      [] s = "wide_view_of_raw" -> d.view = None => Has(d, Raw)
      [] s = "wide_view_of_series" -> d.view = None => Has(d, PerSeries)
      [] s \in {"describe_view", "drop_view", "refresh_view"} -> d.view # None
      [] s \in {"clear_sync", "grant_sync", "archive_fed"} ->
             Has(d, SyncState) /\ Has(d, RowHashes)
      [] s = "copy_rows" ->
             Has(d, Raw) /\ Has(d, PerSeries) /\ Added \ {"available"} \subseteq d.columns
      [] s \in {"extension", "values", "observed_view", "reset_view"} -> Has(d, PerSeries)
      [] s = "describe_extension" -> Has(d, Extension)
      [] s = "refresh_values" -> Has(d, Values) /\ Has(d, Refresher)
      [] s = "rename_values" -> Has(d, Values) /\ d.view = None
      [] OTHER -> TRUE

\* What it does to the database.
Result(d, s) ==
    CASE s = "create_raw" ->
             IF Has(d, Raw) THEN d
             ELSE [d EXCEPT !.relations = @ \cup {Raw}, !.columns = Added]
      [] s \in {"drop_raw", "drop_raw_if_exists"} -> WithoutRaw(d)
      [] s = "rename_daily" ->
             IF Has(d, Daily)
             THEN [d EXCEPT
                       !.relations = (@ \ {Daily}) \cup {Raw}, !.columns = {},
                       !.rows = CASE @ = Daily -> Raw
                                  [] @ = Raw -> None
                                  [] OTHER -> @]
             ELSE d
      [] s \in Added -> [d EXCEPT !.columns = @ \cup {s}]
      [] s = "drop_fed_columns" -> [d EXCEPT !.columns = @ \ {"fed"}]
      [] s \in {SyncState, RowHashes, PerSeries} -> Adding(d, s)
      [] s = "clear_sync" -> [d EXCEPT !.digests = FALSE]
      [] s \in {"drop_view", "drop_view_if_exists", "drop_view_cascade"} ->
             [d EXCEPT !.view = None]
      [] s = "wide_view_of_raw" -> [d EXCEPT !.view = IF @ = None THEN Raw ELSE @]
      [] s = "wide_view_of_series" ->
             [d EXCEPT !.view = IF @ = None THEN PerSeries ELSE @]
      [] s \in {"observed_view", "reset_view"} ->
             [d EXCEPT !.view = IF @ = None THEN s ELSE @]
      [] s \in {"refresh_wide", "refresh_chain", "refresh_long"} ->
             [d EXCEPT !.refresh = s]
      [] s = "archive_fed" ->
             [d EXCEPT
                 !.relations = @ \ {FedTable},
                 !.archive = @ \cup (Active(d) \cap
                     (IF "available" \in d.columns THEN FedOrigins ELSE {"table"}))]
      [] s = "copy_rows" -> [d EXCEPT !.rows = IF @ = Raw THEN PerSeries ELSE @]
      [] s = "extension" -> Adding(d, Extension)
      [] s = "drop_extension" -> Dropping(d, Extension)
      [] s = "values" -> Adding(d, Values)
      [] s = "refresher" -> Adding(d, Refresher)
      [] s = "drop_refresher" -> Dropping(d, Refresher)
      [] s = "rename_values" -> [d EXCEPT !.relations = @ \ {Values}, !.view = "long_view"]
      [] OTHER -> d

-----------------------------------------------------------------------------
(* The migrations.                                                         *)

WideView         == <<"wide_view_of_raw", "describe_view">>
LegacyRebuild    == <<"drop_view_if_exists", "wide_view_of_raw", "describe_view">>
AddColumn(column) ==
    <<column, "drop_view_if_exists", "wide_view_of_raw", "describe_view">>
AddColumns       ==
    <<"available", "ohlc", "drop_view_if_exists", "wide_view_of_raw", "describe_view">>
ConsumerLayout   == <<"drop_raw_if_exists", "create_raw">>
\* Variant with a bug: the digest index outlives the rows it describes.
RawOnlyLayoutKeepingDigests ==
    <<"drop_view_cascade", "drop_raw_if_exists", "create_raw">>
RawOnlyLayout    ==
    <<"drop_view_cascade", "drop_raw_if_exists", "create_raw", "clear_sync">>
RefreshFunction  == <<"refresh_wide", "grant_sync", "describe_view">>
FedDriftCleanup  == <<"archive_fed">>
\* Variant with a bug: the columns go before they are archived.
FedArchiveLate   ==
    <<"drop_view_cascade", "drop_fed_columns", "archive_fed",
      "wide_view_of_raw", "describe_view">>
FedArchive       ==
    <<"archive_fed", "drop_view_cascade", "drop_fed_columns",
      "wide_view_of_raw", "describe_view">>
SeriesTables     ==
    <<"drop_view_cascade", PerSeries, "copy_rows", "drop_raw",
      "drop_view_if_exists", "wide_view_of_series", "describe_view">>
ExtendedFeatures ==
    <<"extension", "wide_view_of_series", "describe_view",
      "describe_extension", "refresh_chain">>
FeatureValues    == <<"values", "refresher", "refresh_chain">>
FirstPopulation  == <<"refresher", "refresh_values">>
\* Variant with a bug: the function keeps refreshing the views just dropped.
RetireWideViewsOnly ==
    <<"drop_extension", "drop_view_if_exists", "rename_values",
      "describe_view", "drop_refresher">>
RetireWideViews  ==
    <<"drop_extension", "drop_view_if_exists", "rename_values",
      "describe_view", "drop_refresher", "refresh_long">>
Observation      == <<"drop_view", "observed_view", "describe_view", "refresh_view">>
NullReset        == <<"drop_view", "reset_view", "describe_view", "refresh_view">>

Migrations ==
    << <<"create_raw">>, <<SyncState>>, <<RowHashes>>, <<>>, <<>>, <<>>, <<>>,
       ConsumerLayout, <<"rename_daily">>, WideView, RawOnlyLayout,
       LegacyRebuild, RefreshFunction, LegacyRebuild, LegacyRebuild, <<>>, <<>>,
       LegacyRebuild, AddColumn("available"), FedArchive,
       LegacyRebuild, LegacyRebuild, LegacyRebuild, AddColumns, AddColumn("ohlc"),
       LegacyRebuild, LegacyRebuild, AddColumn("v28"), AddColumn("v29"),
       AddColumn("v30"), SeriesTables, ExtendedFeatures, FedDriftCleanup,
       FeatureValues, FirstPopulation, RetireWideViews, Observation, NullReset >>

Versions == 1 .. 38
PublicationVersion == 36  \* _FEATURE_VIEW_PUBLICATION_VERSION

\* _is_features_view_publication_statement
IsPublication(s) ==
    s \in {"wide_view_of_raw", "wide_view_of_series", "observed_view",
           "reset_view", "describe_view", "drop_view_if_exists",
           "drop_view_cascade"}

\* _is_retired_feature_view_statement
IsRetired(s) ==
    \/ IsPublication(s)
    \/ s \in {"refresh_wide", "refresh_chain", "refresh_long", "extension",
              "describe_extension", "drop_extension", "rename_values",
              "drop_view", "refresh_view"}

\* _defer_intermediate_feature_view_statement
IsDeferred(v, s) == v \in 24 .. 30 /\ IsPublication(s)

\* Variant with a bug: the cascading drop is left out with the views it drops.
SkipsEveryDrop(v, s, isFresh) == v < PublicationVersion /\ IsRetired(s)

\* The statements migrate leaves out: views an upgrade would build only for
\* migration 36 to drop.
Skips(v, s, isFresh) ==
    \/ IsDeferred(v, s)
    \/ v < PublicationVersion /\ IsRetired(s) /\ s # "drop_view_cascade"
    \/ v < PublicationVersion /\ isFresh /\ IsPublication(s)

\* A run is the database as the statements so far made it; none if one of
\* them raised.
Execute(run, s) == {Result(d, s) : d \in {e \in run : Possible(e, s)}}

\* After each statement of a version, leaving some out.
Runs(d, v, left) ==
    LET run[i \in 0 .. Len(Migrations[v])] ==
          IF i = 0 THEN {d}
          ELSE IF Migrations[v][i] \in left THEN run[i - 1]
          ELSE Execute(run[i - 1], Migrations[v][i])
    IN  run

Run(d, v, left) == Runs(d, v, left)[Len(Migrations[v])]

\* All statements of the versions up to n, as a recreation executes them and
\* as the releases of the time did.
Unfiltered[n \in 0 .. 38] ==
    IF n = 0 THEN {Blank}
    ELSE UNION {Run(d, n, {}) : d \in Unfiltered[n - 1]}

SchemaAt(n) == [CHOOSE d \in Unfiltered[n] : TRUE EXCEPT !.ledger = 1 .. n]

\* The contract checked before a commit, and by every sync before it starts.
Contract(d) ==
    /\ d.relations \cap {Daily, Raw, FedTable, Extension} = {}
    /\ {PerSeries, SyncState, RowHashes} \subseteq d.relations
    /\ d.view \in {"long_view", "observed_view", "reset_view"}

\* The schemas as a recreation leaves them; the archive is a third schema.
Canonical == SchemaAt(38)

Recreated(d) == [Canonical EXCEPT !.archive = d.archive]

-----------------------------------------------------------------------------
(* Databases found by the current release.                                 *)

\* The columns macro_raw had at a version.
Since == [available |-> 19, ohlc |-> 24, v28 |-> 28, v29 |-> 29, v30 |-> 30]

ColumnsAt(n) == {column \in Added : Since[column] <= n}

\* Where the rows were: before migration 9 in macro_features_daily.
RowsAt(n) == IF n <= 8 THEN Daily ELSE IF n <= 30 THEN Raw ELSE PerSeries

LaidOut(n) ==
    IF n <= 8 THEN Adding(Dropping(SchemaAt(n), Raw), Daily) ELSE SchemaAt(n)

\* Fed columns were in use until version 20, and a ledger can be ahead of its
\* objects: version 23 without availability, Fed tables after their retirement.
FoundColumns(n) ==
    IF n \in 9 .. 30
    THEN {ColumnsAt(n)} \cup (IF n = 23 THEN {{}} ELSE {})
         \cup (IF n \in 16 .. 19 THEN {ColumnsAt(n) \cup {"fed"}} ELSE {})
    ELSE {{}}

FoundFed(n) == IF n \in 6 .. 32 THEN {{}, {FedTable}} ELSE {{}}

Furnished(n, columns, fed, filled) ==
    [LaidOut(n) EXCEPT !.columns = columns, !.relations = @ \cup fed,
                       !.rows = IF filled THEN RowsAt(n) ELSE None,
                       !.digests = filled]

\* The databases at version n, with or without rows.
Found(n) ==
    {Furnished(n, cs, fed, filled) : cs \in FoundColumns(n), fed \in FoundFed(n),
                                     filled \in {b \in BOOLEAN : b => n >= 3}}

-----------------------------------------------------------------------------
(* The administrators.                                                     *)

VARIABLES
    db,      \* the committed database
    stage,   \* admin -> "idle", "open", "writing", "refused"
    applied, \* admin -> ledger it read
    fresh,   \* admin -> whether it found nothing installed
    draft    \* admin -> the database as its transaction sees it

vars == <<db, stage, applied, fresh, draft>>

DatabaseType ==
    [ledger : SUBSET Versions,
     relations : SUBSET {Daily, Raw, PerSeries, SyncState, RowHashes, FedTable,
                         Extension, Values, Refresher},
     columns : SUBSET (Added \cup {"fed"}),
     view : {None, Raw, PerSeries, "long_view", "observed_view", "reset_view"},
     refresh : {None, "refresh_wide", "refresh_chain", "refresh_long"},
     rows : {None, Daily, Raw, PerSeries},
     digests : BOOLEAN,
     archive : SUBSET FedOrigins]

Init ==
    /\ db \in {Blank} \cup UNION {Found(n) : n \in Versions}
    /\ stage = [a \in Admins |-> "idle"]
    /\ applied = [a \in Admins |-> {}]
    /\ fresh = [a \in Admins |-> FALSE]
    /\ draft = [a \in Admins |-> Blank]

\* The connection is closed, and with it goes what the session knew.
Close(a) ==
    /\ stage' = [stage EXCEPT ![a] = "idle"]
    /\ applied' = [applied EXCEPT ![a] = {}]
    /\ fresh' = [fresh EXCEPT ![a] = FALSE]
    /\ draft' = [draft EXCEPT ![a] = Blank]

Goto(a, next) == stage' = [stage EXCEPT ![a] = next]

\* No other transaction holds what a data definition statement locks.
NoOtherWriter(a) == \A b \in Admins \ {a} : stage[b] # "writing"

Pending(a)     == Versions \ applied[a]
NextVersion(a) == Min(Pending(a))

\* The database as the transaction of this administrator sees it.
Seen(a) == IF stage[a] = "writing" THEN draft[a] ELSE db

\* What it leaves out of a version.
LeftOut(a, v) == {s \in Range(Migrations[v]) : Skips(v, s, fresh[a])}

\* migrate reads the ledger and whether anything is installed.
Open(a) ==
    /\ stage[a] = "idle"
    /\ Goto(a, "open")
    /\ applied' = [applied EXCEPT ![a] = db.ledger]
    /\ fresh' = [fresh EXCEPT ![a] = db.ledger = {} /\ ~Has(db, Raw) /\ db.view = None]
    /\ UNCHANGED <<db, draft>>

\* One pending version: its statements, then its ledger row, which another
\* administrator may have inserted meanwhile.
Apply(a) ==
    /\ stage[a] \in {"open", "writing"} /\ Pending(a) # {}
    /\ NoOtherWriter(a)
    /\ LET v == NextVersion(a)
           run == {d \in Run(Seen(a), v, LeftOut(a, v)) : v \notin d.ledger}
       IN  \/ /\ run = {}
              /\ Goto(a, "refused") /\ UNCHANGED <<applied, draft>>
           \/ \E d \in run :
                 /\ Goto(a, "writing")
                 /\ applied' = [applied EXCEPT ![a] = @ \cup {v}]
                 /\ draft' = [draft EXCEPT ![a] = [d EXCEPT !.ledger = @ \cup {v}]]
    /\ UNCHANGED <<db, fresh>>

\* The owners are set, the contract is checked, the transaction commits.
Finish(a) ==
    /\ stage[a] \in {"open", "writing"} /\ Pending(a) = {}
    /\ NoOtherWriter(a)
    /\ IF Contract(Seen(a))
       THEN db' = Seen(a) /\ Close(a)
       ELSE Goto(a, "refused") /\ UNCHANGED <<db, applied, fresh, draft>>

\* PostgresGoldSchemaReconstructor.recreate in one transaction; an open
\* migration holds a lock on the ledger that is to be dropped.
Recreate(a) ==
    /\ \A b \in Admins : stage[b] \in {"idle", "refused"}
    /\ stage[a] = "idle"
    /\ Unfiltered[38] # {} /\ Contract(Canonical)
    /\ db' = Recreated(db)
    /\ UNCHANGED <<stage, applied, fresh, draft>>

\* The process dies, a statement times out, or the refusal is reported: the
\* transaction is rolled back.
RollBack(a) ==
    /\ stage[a] # "idle"
    /\ Close(a)
    /\ UNCHANGED db

Next == \E a \in Admins : Open(a) \/ Apply(a) \/ Finish(a) \/ Recreate(a) \/ RollBack(a)

Spec == Init /\ [][Next]_vars

-----------------------------------------------------------------------------
(* Properties.                                                             *)

\* Every database an administrator commits or drafts is well formed: rows lie
\* in a relation that exists, the view stands over one, and a transaction has
\* recorded exactly the versions it counts as applied.
WellFormed(d) ==
    /\ d \in DatabaseType
    /\ d.rows # None => Has(d, d.rows)
    /\ d.view # None => IF d.view = Raw THEN Has(d, Raw) ELSE Has(d, PerSeries)

TypeOK ==
    /\ WellFormed(db)
    /\ stage \in [Admins -> {"idle", "open", "writing", "refused"}]
    /\ applied \in [Admins -> SUBSET Versions]
    /\ fresh \in [Admins -> BOOLEAN]
    /\ \A a \in Admins : WellFormed(draft[a])
    /\ \A a \in Admins : stage[a] = "writing" => draft[a].ledger = applied[a]

\* From whatever version an earlier release left behind, with rows or
\* without, no statement of an upgrade raises and the contract holds at its
\* end: an administrator is refused only when another one committed first,
\* and then before it has changed anything itself.
UpgradeSucceeds ==
    \A a \in Admins :
        stage[a] = "refused" => draft[a] = Blank /\ applied[a] # db.ledger

\* An upgrade that leaves out the intermediate views ends in the very schema
\* that a recreation builds with them: same view, same refresh function, and
\* nothing left behind that the contract does not look at.
OneSchema ==
    db.ledger = Versions =>
        [db EXCEPT !.rows = None, !.digests = FALSE] = Recreated(db)

\* The digest index and the checkpoint describe rows that are there: a
\* migration that drops the rows drops them too, or every later sync would
\* refuse the replica as drifted.
DigestsFollowRows == db.digests <=> db.rows # None

\* What a committed migration keeps: rows since layout 11, and retired Fed
\* data wherever it was.
Keeps(old, new) ==
    /\ 1 .. 11 \subseteq old.ledger => (old.rows # None <=> new.rows # None)
    /\ Active(old) \cup old.archive \subseteq new.archive

\* A migration loses neither served rows nor retired data.
MigrationsKeepData ==
    [][\A a \in Admins : stage[a] = "writing" /\ db' # db => Keeps(db, db')]_vars
=============================================================================
