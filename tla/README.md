# Specifications of macro-loader

macro-loader is a single-host batch program. Every weekday a cron job fetches
macro-financial series from public providers, stores them as Parquet files
(Bronze, Silver), assembles one wide frame (Gold), publishes it as an
immutable build, retires old builds and replicates the current build to
PostgreSQL. There is no server. What makes it hard is that every step is a
sequence of file renames and transactions that may stop anywhere, that worker
threads share files, and that the daily job, operators' commands and a full
reconstruction meet on one lake and one database.

This directory holds TLA+ models of that core, TLC runs of them on small
instances, and proofs checked by TLAPS for every value of the constants.

## 1. Inventory

Paths are relative to the repository.

| Component | State it keeps | Operations | What is hard | Where modelled |
|---|---|---|---|---|
| Gold catalog (`application/gold_catalog.py`, `ingestion/gold_catalog_repository.py`) | `manifest.parquet`: one row per build attempt | read, replace (whole file) | the only commit point of publication | `GoldCatalog` |
| Gold publisher (`application/gold_publication.py`, `ingestion/gold_publication_adapters.py`, `gold_build_store.py`, `gold_sidecar_store.py`) | build directories `versions/build_id=…` | reconcile, publish, finalize a failed attempt | failure before, at and after the commit; stale attempts | `GoldPublication`, `GoldStore` |
| Root views (`ingestion/gold_materialized_views.py`) | root `manifest.json`, `feature_profile.png` | refresh | two files, not atomic together | `GoldPublication` |
| Retention (`application/gold_retention.py`, `ingestion/gold_retention_store.py`) | tombstoned rows, files | mark, refresh, sweep | interrupted sweeps; never the current build | `GoldCatalog`, `GoldPublication` |
| Bronze ingestion (`application/bronze_orchestration.py`, `planner.py`, `state.py`, `ingestion/bronze_uow.py`, `parquet_repository.py`, `operational_repository.py`, `state_repository.py`) | month files per series; shared `ingestion_runs` and `ingestion_state` files | bootstrap, update, reconcile; commit with undo | threads sharing files, undo that fails, kills inside a commit | `BronzeIngestion` |
| Providers (`ingestion/*_provider.py`), HTTP (`application/retry.py`, `ingestion/httpx_adapter.py`) | none | fetch a window, or the whole file | retries, omissions, late publication | fetch windows, whole files, failed requests read as empty answers and the attempt budget in `BronzeIngestion` |
| Silver (`application/silver.py`, `ingestion/silver_repository.py`) | month files per series | rebuild from Bronze | month by month, no undo, no lock | `SilverBuild` |
| Gold frame (`application/gold_frame.py`, `*_features.py`) | none | pure dataframe transformations | numerics | the join of all levels in `SilverBuild`, no more |
| Feature view (`ingestion/postgres_gold_repository.py`, `macro_feature_catalog.py`) | materialized view `macro_features` | refresh in every sync, explicit refresh | a hundred window expressions and recurrences over rows with gaps and NULLs; recomputed by the verification in another query | `FeatureTransforms`, `FeatureView` |
| PostgreSQL sync (`application/postgres_sync*.py`, `postgres_delta.py`, `ingestion/gold_sync_source.py`, `postgres_gold_repository.py`) | serving tables, digest index, checkpoint row | gold-sync-postgres, postgres-migrate | selection outside the lock, ambiguous commits, drift, upgrades | `PostgresSync` |
| Schema migration and recreation (`ingestion/postgres_gold_repository.py`) | schemas, ledger `schema_migrations` | postgres-migrate, recreation | statements left out by text and version, 38 starting points, two administrators | `SchemaMigrations` |
| Conformance verification (`application/postgres_conformance*.py`, `ingestion/postgres_conformance_verifier.py`) | none | postgres-verify | reads in several transactions, beside syncs | `Conformance`, the population check in `FeatureView`, as a verdict in `ProductionReconstruction` |
| Production reconstruction (`application/production_reconstruction.py`, `ingestion/production_reconstruction_operations.py`) and cron runner (`ops/run-macro-loader-daily.sh`) | maintenance marker, flock, advisory lock | postgres-reconstruct, daily job | three guards, two kinds of process | `ProductionReconstruction` |
| Daily pipeline (`application/daily_pipeline.py`) | none of its own | run-daily, gold-build, … | order of the above | order in `GoldPublication` and `SilverBuild` |
| Provisioning (`scripts/provision_postgres_role.py`) | privileges of the two runtime roles | run by hand | lost when the schemas are recreated | `Provision` in `ProductionReconstruction` |
| CLI, logging, inventory, registry, other scripts | logs, reports | | | not modelled |

How they meet. `run-daily` calls the publisher's `reconcile`, the Bronze
orchestrator, Silver, the Gold frame, the publisher's `publish`, retention and the
inventory, in this order, and stops at the first failure. The cron runner calls
`run-daily` and then `gold-sync-postgres` under a flock. The sync reads the catalog
and the current bundle, never the Bronze or Silver files. The reconstruction takes
the same flock and a PostgreSQL lock and calls the same pipeline, schema
recreation, sync and verification. The single commands of the CLI take no lock.

What makes the components correct:

* **Publication.** A build that a consumer may select is whole on disk; the
  catalog replacement is the commit point and is never undone; recovery never
  promotes; root views never show something that is not there.
* **Retention.** Keeps exactly the newest builds per version pair, deletes only
  after the tombstone is durable, finishes what an earlier run abandoned.
* **Features.** No published value looks at a later day or at a day only other series
  have; recurrences restart at a reset; the verification refuses no healthy view.
* **Bronze.** A batch ends whatever fails. Nothing a source offers can fall out of reach of the incremental
  window; the cached state is never ahead of the data; a failing series leaves
  the others alone; stored history is never lost.
* **Silver.** What a failed, killed or overtaken rebuild left behind is found and
  completed by the next one; an undisturbed daily job publishes all of Bronze and
  nothing beyond it.
* **Sync.** Serving rows, digests and checkpoint are one published build; a drifted
  row stops every commit but an upgrade's; versions never go back; the replica catches up.
* **Migration.** Every database an earlier release left behind can be upgraded, ends in
  the schema a recreation builds, and loses neither served rows nor retired data.
* **Verification.** PASS means the replica is the current build, a settled replica
  raises no alarm, and drift is never certified.
* **Reconstruction.** One owner at a time; PASS means the current build is served; a
  run without an error does not fail; an emptied replica keeps scheduling disabled.

The file `PROJECT.json` lists the hazards of the code, each at its line, with the
properties that cover it.

## 2. Modules

| Module | Extends / instantiates | Content |
|---|---|---|
| `GoldCatalog` | | rows, validity, and the pure catalog rewrites of publisher and retention |
| `GoldPublication` | `GoldCatalog`, `GoldStore` | the process that reconciles, publishes and retires |
| `GoldStore` | | abstract specification: what a consumer of the lake is promised |
| `GoldPublicationProofs` | `GoldPublication` | proofs: the lake and its refinement; the retention policy |
| `BronzeIngestion` | | threads of the orchestrator, unit of work, sources |
| `BronzeIngestionProofs` | `BronzeIngestion` | proofs: isolation, durability, no gaps |
| `SilverBuild` | | daily job, silver-build and gold-build from Bronze to the Gold frame |
| `SilverBuildProofs` | `SilverBuild` | proofs: what Silver and Gold hold |
| `PostgresSync` | | sync sessions, transaction, lake, migrations, drift |
| `PostgresSyncProofs` | `PostgresSync` | proofs: one build, exact checkpoints, versions, drift |
| `Conformance` | `PostgresSync` | postgres-verify and the feature view beside the syncs |
| `ConformanceProofs` | `Conformance`, `PostgresSyncProofs` | proof: what a PASS means |
| `FeatureTransforms` | | the feature formulas, by the rows a value depends on |
| `FeatureView` | `FeatureTransforms` | raw tables, view, refresh, population check |
| `FeatureViewProofs` | `FeatureView` | proofs: causality, independence, resets, alarms |
| `SchemaMigrations` | | the 38 migrations, the ledger, recreation |
| `SchemaMigrationsProofs` | `SchemaMigrations` | proofs: upgrades succeed, end in one schema, keep data |
| `ProductionReconstruction` | | operators, cron runner and their guards |
| `ProductionReconstructionProofs` | `ProductionReconstruction` | proofs: exclusion, verdicts, the marker |
| `MC…` | the module of that name | values of constants for TLC |

Operators named "Variant with a bug" are not part of a specification. Each states a
plausible mistake in one definition and stands before it; replacing the definition
by its variant makes TLC report the property that `PROJECT.json` pairs it with, so
that each property is known to depend on the code.

### GoldPublication

State: `catalog` is `manifest.parquet` as a function from build ids to rows, `files`
the artifacts in each build directory, `views` what the two root files show,
`release` the version pair of the installed code; the rest is the process: `stage`,
`command`, `attempt` (build id being published), `toSweep`, and `faults`.

Every durable step is one action: `Replace` is `catalog.replace`, which may fail
without the rename, succeed, or fail after the rename (the directory fsync in
`atomic_write_parquet`); `RefreshViews` is `views.refresh`, which may leave none, one
or both files; `CreateBundle` leaves any prefix of the three artifacts; `Sweep` leaves
any of the states its three unlinks pass through. After each, control goes where
the code's exception handlers send it: `Finalize` is
`_finalize_failed_if_uncommitted`, which reads the catalog again. `Kill` may end the
process anywhere. `Start` begins run-daily or gold-build; `Recover` and `Entry` are
the two calls of `reconcile` a run makes, each followed by its refresh. Commands are serial: the flock
does that for the cron job; overlapping manual commands are left to a later module.

Build ids are numbers in the order of the clock. A second attempt within one
second mints an id that exists; the repository rejects the duplicate row.

### BronzeIngestion

State per series: `bronze` (the frame in the month files), `runs` and `state` (its
rows in two files shared by all series), and its thread: `stage`, `plan`, `run`,
`merged`, `left` (months still to write or restore), `backup`. `source` is what the
provider would deliver. A frame maps each day to a value; 0 is "no row".

`FullFile` names the series whose provider ships its whole file (CBOE): it is cut to the
window of an update, not of a maximum request. `Lenient` names those whose provider
turns a failed request into an empty answer (ECB): such a run succeeds with nothing new.
`attempts` counts the requests of the current fetch: `Retry` is one that failed with a
transport error or a transient status, which share `MaxAttempts`
(`HttpxTransport.send`); how long it waits in between is left out.

`Plan` is `run_series` up to its run id with `build_plan`; `Fetch` is fetch, window check
and `prepare` (merge with stored history); `Acquire` takes the orchestrator's write lock and the copies;
`WriteMonth`, `WriteRun`, `WriteState` are the writes of `commit_success` in their
order; `UndoState`, `UndoRuns`, `UndoMonth` the restores in reverse order;
`RecordFailure` the handler of `run_series`. The two shared files are restored as
whole copies, which is why the lock matters. `Publish` lets a provider add or revise a
day no older than the overlap behind its newest one; `Forget` lets it drop any older day. The former is the assumption the
60-day overlap of `ops/run-macro-loader-daily.sh` stands for; without it no
incremental scheme would be complete.

### SilverBuild

State: the frames of each series in Bronze, Silver and the current Gold build; two
processes, the daily job and a command by hand (`silver-build` of some series, or
`gold-build`), each in a stage with one thread per series, as
`PolarsExecutionPolicy.map` runs them. A thread reads the months of a file set one by one
(`ReadBronze`, `ReadSilver`, `ReadLevels`), takes the difference (`Planned`) and replaces
whole months (`WriteSilver`). A stage waits for all its threads and goes on only if none
raised. Bronze's commit and undo are cut down to months here, the publication to its
commit: `BronzeIngestion` and `GoldPublication` have them in full. Ingestion by hand is
left out, so Bronze has one writer. `overlap` remembers whether a daily job ran beside
another command: such a job may publish a mixture, the next one repairs it.

### PostgresSync

State: `builds` (published contents, in order), `kept` (not swept), `release`,
`schema`, `replica` (serving rows, digest index, checkpoint), and per session where it
is, which build it selected and which release it runs. `Select` reads the catalog,
`Prepare` validates and hashes the bundle and checks the schema. The transaction is three
steps: `Begin` takes the advisory lock, checks the replica and plans the delta, `Apply`
writes it and verifies index and rows, `Commit` makes all of it visible, none, or all of it
with an error reported.

`Drift`, a serving row changed by hand, may happen at any time: the
advisory lock keeps out only syncs and verifiers. Between `Begin` and `Apply` such a change
is overwritten (a row of the delta) or found by the checks after the writes. Between `Apply` and
`Commit` the rows written are locked by PostgreSQL (`Editable`), the others are not, and nobody
looks at them again: `late`, the rows changed so, is the exception in `CheckpointIsExact`. `edited`
holds all rows changed since the transaction's reads, so that `DriftStopsCommits` can speak of
a drift that was there before. Both are history variables: no guard of the code reads
`edited`, and `late` only says which rows of the delta another transaction has already
changed. A written row stays open to one change: an insert into a series table where the
transaction left nothing for that minute. The statements of `apply_delta` are one step: a change
between two of them is like one before or after all of them, or it fails the checks, which
ends the transaction as a raised error does. A row changed and changed back within one transaction
is left out.

A row digest is injective in
values and row layout (SHA-256 is taken to have no collisions); equal rows may
come in files of different bytes (`Writers`).

### Conformance

Adds to `PostgresSync` the materialized feature view (`features`: the serving rows it was
computed from; a sync that changes rows refreshes it in its transaction) and the
verifier: `step`, the build it selected, and whether all it read so far agrees. The
steps are those of `verify`: selecting and hashing the build, the schema and the view in
transactions of their own, then four statements under the advisory lock the syncs
take. They run under READ COMMITTED, so only the lock makes them one snapshot. The check of
the view compares numbers of rows, and is modelled so.

### FeatureTransforms and FeatureView

The feature query is some two thousand lines of generated SQL. What can go wrong in it
is which rows a value is computed from, so a value is modelled by that set of rows and
NULL by the empty set; arithmetic is left to the tests. `FeatureTransforms` has one operator per kind of
expression: lags and returns, rolling statistics, z-scores, autocorrelations over windows
of pairs, EMA, RSI and MACD recurrences, bars, gaps, stochastics, channels. One
window length, one lag and two periods stand for the catalogued ones. Whether a
denominator or a variance is zero decides between a value and NULL; it is taken from the levels. The four
prices of a bar are taken to be its level, so a window is flat when its levels are.

`FeatureView` keeps the raw tables (`raw`), what the last sync left there (`served`), the
view and the tables of its last refresh (`built`). The query of a primary series reads the full outer join
of all tables (`Projected`), that of an extended series its own table. `Sync`
writes one day and refreshes; `WriteByHand` does not, `RefreshByHand` is the explicit
function. `Verify` counts values per feature and compares with a recomputation from
another query (`ExpectedDays`), as `_assert_feature_values_population` does.

### SchemaMigrations

State: `db` (the committed database), and per administrator `stage`, `applied` (the ledger
it read), `fresh` (whether it found the serving table) and `draft` (its
transaction). A database is a record of what the statements depend on: ledger,
relations, columns that came or went, what the published view is, where the rows are,
whether digests describe them, retired Fed data. `Migrations` is the list `_MIGRATIONS`, one
sequence of statements per version; `Skips` the three rules by which `migrate` leaves a statement out,
`LeftOut` those of one version for one administrator. A statement is named for what it does to such a
record; `Run` is the set of what the statements of a version make of a database, empty when one of them
raises. `Open`, `Apply` (one version), `Finish` (contract and commit), `RollBack` and `Recreate` are
its steps. `Init` is any database an earlier release left behind: what the
statements up to its version build with the columns of the time, or with the
drift the source's comments describe (version 23 without availability,
Fed columns or a stray Fed table, an old daily table). Grants, owners, index names and the
columns of migration 7's legacy table are left out. That PostgreSQL's locks and
the ledger's primary key make of two transactions is external.

### ProductionReconstruction

State: the marker file, the holders of the flock and of the PostgreSQL maintenance
lock, how the serving schemas stand to the current Gold build, each operator's
progress through the twelve stages, the daily job. One action per stage that
changes something, `StageFails` for a stage that raises with or without its effect,
`Exit` for the end of the process, which frees the locks but not the marker. `granted`
says whether the runtime roles hold what provisioning gave them: a recreation drops the schemas and
grants other privileges, `Provision` restores them, the verification requires them.

## 3. Runs

| Run | Question | Bounds | Fairness |
|---|---|---|---|
| `publication` | what a consumer, the views and retention may rely on; refinement of `GoldStore`; interrupted attempts resolved, views converge | 3 build ids, 2 version pairs, retain 1, 3 faults | WF of starting and of stepping |
| `bronze_series` | two series, one bounded and lenient, one whole-file, and the shared files | 1 day with 2 values, 2 run ids, 2 faults | none |
| `bronze_history` | no gap opens, history stays, offered days become durable, batches end | 3 days in 2 months, whole-file series, overlap 1, 3 attempts, 3 faults | SF of the daily start and of each thread |
| `silver` | what Silver and Gold hold after failures and beside commands by hand | 1 series, 3 days in 2 months, 2 values, 2 news, 2 faults | WF of the daily start and of each process |
| `sync_safety` | two sessions, upgrades, retention, rows changed by hand, also inside transactions | 3 builds, 2 timestamps, 3 releases (the last changes the row layout), 1 fault, 1 drift; sessions and timestamps symmetric | none |
| `sync_conformance` | verdicts beside syncs, and the replica catches up | 1 session, 1 timestamp with 2 values, 2 builds, 2 releases, 1 fault, 1 drift | WF of migration, SF of the session and of a started verification |
| `sync_stale` | does the checkpoint only advance? **No** | 2 sessions, 2 builds | |
| `sync_reencoded` | does it catch up when files are re-encoded? **No** | 1 session, 2 encodings | WF of migration, SF of the session |
| `migrations` | do upgrades succeed, agree with a recreation and keep data? | 2 administrators, databases of all 38 ledger versions | none |
| `feature_view` | are published features causal, per series and reset by NULL, and are alarms explained? | a bar series and an extended series, 5 days, 2 writes on day 2, window 2, periods 2 and 3 | none |
| `reconstruction_two` | exclusion, meaning of PASS and of FAIL, marker over an emptied replica while runs do not overlap | 2 operators, 3 faults | none |
| `reconstruction_race` | scheduling disabled on every failure? **No** | 2 operators, 1 fault | |

Why the bounds are enough. Three ids with `Retain` 1 leave room for a tombstoned
build whose sweep was abandoned, the current one and a running or
failed attempt, in either version group; three faults allow a failure, a failing
handler and a kill of the next run. Two months, one of them with two days, are the least
with a partial prefix and a month whose file holds more than the row that changed; three faults cover a
failed write, a failed undo and a kill. The whole-file series stands for bounded ones: the source may
publish between plan and fetch, so what a bounded provider delivers is one of its
deliveries, and its bootstrap may deliver more. In `silver`, two news make an insert and a
revision, or two inserts into one month from snapshots of different age, and two
faults a rebuild torn twice; series meet only where a stage
waits for all its threads, which this instance of one series does not exercise. Two timestamps make inserts,
updates and deletes happen in one delta; three builds allow a session to be two
behind. In `feature_view`, five days are as many as the longest recurrence
needs to be seeded, reset by the written day and seeded again, and the beginnings differ in a missing day, a
level that is not positive, or neither. Two administrators are the least that can interfere, and a third would wait for the
same locks.

Fairness. A started process is not suspended for ever, and cron starts the next one
each weekday: weak fairness of `Start` and `Step`, of `RunDaily` and each command. A daily update comes although
operators' commands in between keep disabling it: strong fairness of `Daily`.
Threads wait for a lock that others take in turn: strong fairness of each thread,
sync session and started verification (`BatchesEnd` rests on the threads alone: any request
may fail as often as its budget allows); nobody owes a new verification. Nothing is assumed of providers, of publications or of faults beyond their
bound; `Migrate` is weakly fair because administrators migrate after a deployment.

No run disables the deadlock check.

## 4. What the runs found

* `sync_stale`: README.md:646 says each later run advances the checkpoint. The build is
  selected before the transaction (postgres_sync_service.py:69), and the command takes
  no other lock, so of two overlapping sessions the later commit may be the older
  build. `VersionNeverRegresses` still holds, and the next sync repairs it.
* `sync_reencoded`: equal rows in a file with other bytes are refused
  (postgres_sync_service.py:165) by every run until a value changes, although
  README.md:723 calls a failed synchronization retryable. A new Parquet writer is
  enough.
* `reconstruction_race`: README.md:736 says scheduling remains disabled on every failure.
  The marker is touched before the locks are taken and unlinked before they are
  released (production_reconstruction_operations.py:60, :233), so a second
  reconstruction can fail with an empty replica and no marker.

Two more disagreements showed while modelling, and are part of what the passing runs state:

* A recreation grants the reader `SELECT, INSERT, UPDATE, DELETE` on the sync tables
  (postgres_gold_repository.py:3760-3768) and leaves the writer, as owner, all rights on the ledger;
  `_assert_roles` (postgres_conformance_verifier.py:386-403) and README.md:816 want the
  reader read-only and no writer DML there. So the verification stage of a reconstruction fails
  unless provisioning is run again between two of its stages. `FailuresExplained` names this as the only
  failure without an error, beside a marker another run removed.
* For an extended series the population check recomputes from
  `_EXTENDED_FEATURE_SERIES_DDLS` (postgres_gold_repository.py:1815), which skips rows with an
  explicit NULL; the published view (1661-1674, 1773-1785) lets them reset the recurrences, as
  BACKLOG.md:488 asks. Such a row, which only a write by hand makes,
  fails the verification of a view that is right. `AlarmsExplained` names it as the only false alarm.

## 5. Proofs

`GoldPublicationProofs` proves, for all `MaxBuilds`, `Versions`, `Retain` and `MaxFaults` that
satisfy `CatalogAssumption` and `FaultAssumption`:

| Theorem | Establishes |
|---|---|
| `TypeCorrectness` | `Spec => []TypeOK` |
| `SelectableBuildsAreIntact` | `Spec => []SelectableIntact` |
| `LocalsAreConsistent` | `Spec => []LocalsConsistent` |
| `RootViewsNeverDangle` | `Spec => []ViewsNeverDangle` |
| `RootViewsRepairedFirst` | `Spec => []ViewsRepairedFirst` |
| `CommitsAreFinal` | `Spec => CommitIsFinal` |
| `PromotionMovesCurrent` | `Spec => OnlyPromotionMovesCurrent` |
| `LakeImplementsStore` | `Spec => ImplementsStore` |

The argument. `SelectableIntact` is not inductive: a promotion makes a row
selectable whose files must already be whole, and a sweep deletes files of rows
that must already be tombstoned. Both facts are about what the process
remembers, which `LocalsConsistent` states: at `promote` the bundle of `attempt` is
whole and its row is building, at `sweep` every member of `toSweep` is a tombstone.
For the sweep not to pull files from under a root view, the views must show the
current build by then: `ViewsRepairedFirst`. Retention groups rows by version, so it needs
every registered row to carry one, which is part of `TypeOK`. The conjunction of these with
`ViewsNeverDangle` is `IInv`, which is inductive; `NextPreserves` has one lemma per kind of
action. The action properties and the refinement follow from `IInv` and
`StepShape`, which classifies what a step can do to catalog and files.

The retention policy has its own theorem, `RetentionIsHonoured` (`Spec => []RetentionHonoured`). Its lemmas are
about the policy as a pure function: of a finite set of numbers at least `k` have a rank
of at most `k` (`FirstAreEnough`, by the least number that has not, so no induction), at most one
member of a group is current, hence marking by rank leaves the limit (`LimitKept`, `MarkHonoursLimit`).
`Retained` carries this from the mark to the inventory, together with the sweep list, which holds every
tombstone that still has files, whoever marked it.

`ProductionReconstructionProofs` proves, for every set of operators that satisfies
`ReconstructionAssumption` and any number of faults:

| Theorem | Establishes |
|---|---|
| `GuardsTypeCorrectness` | `Spec => []TypeOK` |
| `Exclusion` | `Spec => []OneAtATime` |
| `PassMeansServing` | `Spec => []PassIsServing` |
| `FailuresAreExplained` | `Spec => FailuresExplained` |
| `EmptiedUnderMarker` | `Spec => SerialBlankUnderMaintenance` |

The argument. Who owns the data is a matter of stages, who may own it one of locks:
`LocksFollowStages` ties the two together, and exclusion follows because a lock has one
holder (`OwnersExclude`). Only an owner changes what is served, so `PassIsServing`
survives every step of the others; the conjunction of type, locks and PASS is `GInv`.
It holds from the publication on, which is why verification and replay cannot disagree with the data
(`FailuresExplained`). The marker needs more: `SInv` adds that it exists from the first stage on
(`MarkerFollowsStages`) and that an emptied replica is under it. That is inductive only
while no two reconstructions overlap (`Alone`): otherwise the one that passes unlinks the other's marker, which is
what the run `reconstruction_race` shows. `SerialBlankUnderMaintenance` therefore is an
implication between two temporal formulas.

`PostgresSyncProofs` and `ConformanceProofs`, for all sessions, timestamps, values, builds, releases and
layouts that satisfy `SyncAssumption`, any number of faults and of rows changed by hand:

| Theorem | Establishes |
|---|---|
| `SyncTypeCorrectness` | `Spec => []TypeOK` |
| `OneBuild` | `Spec => []ReplicaIsOneBuild` |
| `CheckpointsAreExact` | `Spec => CheckpointIsExact` |
| `VersionsNeverRegress` | `Spec => VersionNeverRegresses` |
| `DriftStopsEveryCommit` | `Spec => DriftStopsCommits` |
| `VerdictIsExact` | `VerifierSpec => []PassIsExact` |

The argument. A commit is exact whatever its delta was, because it verifies index and serving rows after the
writes and digests of one layout are injective (`VerifiedIsBuild`). As rows may be changed by hand inside a
transaction, what it read or verified need not be what it commits over: the invariant `Transactions` says that, unless
it upgrades, every row nobody changed since it read the replica still matches its digest (`ReadStays`), that what it
has written and verified still is its build but for rows changed later (`WritesStay`), and that rows count as changed only while a transaction is open
(`EditsNeedTransaction`). The first gives `DriftStopsCommits`, the second `CheckpointIsExact`. Versions never go back because the decision
taken under the advisory lock stays true until the commit: `LockedIsCompatible` is inductive as only
the locked session can move the checkpoint. For the verification, `VerifierInv` adds that verifier and sessions
exclude one another (`OneHolder`), so what it compared from its first read under the lock stays as it was
(`FoundStays`), and that without writes by hand the view shows the serving rows (`ViewIsFresh`). This is why
inspecting the view before the lock is harmless, and why a PASS rests on the refresh inside the sync's
transaction.

`BronzeIngestionProofs`, for every set of series, calendar, month length, overlap, attempts and faults that
its assumptions allow:

| Theorem | Establishes |
|---|---|
| `BronzeTypeCorrectness` | `Spec => []TypeOK` |
| `SeriesStayIsolated` | `Spec => SeriesIsolated` |
| `NoGapIsPermanent` | `Spec => []NothingOutOfReach` |
| `StateNeverAhead` | `Spec => []StateNotAhead` |
| `SuccessRowsAreDurable` | `Spec => []SuccessIsDurable` |
| `HistoryStaysRetained` | `Spec => HistoryRetained` |

The argument. One thread commits at a time (`OneCommitter`), so the whole copies it would restore are
still true of all the other series (`CopiesStayTrue`). While months are written in ascending order or undone in
descending order the store is a mixture of old and new frame, ordered by month (`Between`); `BetweenServes` shows
that such a mixture opens no gap. Its mirror image would, which is why the order matters.
`SeriesSound` says, per series, what store, commit and rows are at every stage.

`SilverBuildProofs`, for every set of series, calendar, month length, news and faults that satisfies
`SilverAssumption`:

| Theorem | Establishes |
|---|---|
| `LakeTypeCorrectness` | `Spec => []TypeOK` |
| `NothingComesFromNowhere` | `Spec => []NothingBeyondBronze` |
| `DailyJobDelivers` | `Spec => DailyPublishesBronze` |

The argument. `Staged` ties what threads do to the stage of their command, and says that a command which
does not overlap finds the other one idle. `Within` bounds everything read, merged or stored by Bronze; the frame
from which a commit started bounds it while months are torn. `Delivers` follows one series through the daily
job: what was read equals what is stored on the months no longer left, what is planned differs from the merge in no
other month (`PlannedDelivers`), so when a thread is done Silver covers Bronze, however torn it was before.

`FeatureViewProofs`, for every calendar, window, lag and period and all series that satisfy `ViewAssumption`, and
any number of writes:

| Theorem | Establishes |
|---|---|
| `ViewIsOfLastRefresh` | `Spec => []ViewInv` |
| `SeriesAreIndependent` | `Spec => SeriesIndependent` |
| `ValuesAreCausal` | `Spec => Causal` |
| `AlarmsAreExplained` | `Spec => AlarmsExplained` |
| `ResetsByNull` | `Spec => []ResetByNull` |

The argument. Every transform is local: two tables that show the same rows up to a day give the same values
up to it. For windows and lags this is a lemma about ranks among earlier rows; for the recurrences it needs what
they compute, which `_ema_state_cte` says only step by step. Their closed form is that after a day a smoothed average
is over the run of valid rows that ends there, once that run is as long as the window. It is proved by the least day
at which it would fail. Causality follows when the second table lacks the later rows, independence when it
shows the same rows of one series through another join, `ResetByNull` by unfolding `Run`, and the
population check agrees with the view because both of its queries have this closed form. `ViewInv` carries it through
the writes: the view is the query over `built`, and `built` is `raw` until rows are written by hand.

`SchemaMigrationsProofs`, for every set of administrators and every database an earlier release left behind:

| Theorem | Establishes |
|---|---|
| `LedgersTellTheLayout` | `Spec => []MigrationInv` |
| `DatabasesAreWellFormed` | `Spec => []TypeOK` |
| `UpgradesSucceed` | `Spec => []UpgradeSucceeds` |
| `UpgradesEndInOneSchema` | `Spec => []OneSchema` |
| `DigestsGoWithTheRows` | `Spec => []DigestsFollowRows` |
| `CommitsKeepData` | `Spec => MigrationsKeepData` |

The argument. None of the invariants is inductive: that statement 4 of version 31 does not raise depends on thirty
versions of history. `Layout(n, d)` says what is true of a database at version `n`, whatever its rows, columns and
drift, with weaker demands where an upgrade leaves out views. One lemma per statement says what it does, one per version that it takes the
layout before it to its own in three modes: nothing left out, nothing installed before, an upgrade
from somewhere. A run is a function over the statements of a version, and what it computes is shown by the least
statement at which it would fail (`RunsExist`). `AllReached` concludes that a recreation
builds `Canonical`, `FoundHasLayout` that `Init` is made of layouts. `MigrationInv` states that the committed database
and every draft have the layout of their ledger, and that a session's ledger is a prefix that either is the
database's or was overtaken by a commit, which then ended in version 38; that is why a refused administrator
has written nothing.

Only model-checked: what rests on fairness or is a persistence property (`AttemptsResolved`,
`ViewsConverge`, `OfferedBecomesDurable`, `BatchesEnd`, `ReplicaCatchesUp`, `SettledPasses`, `DriftNeverPasses`,
`GoldCatchesUp`), which the prover cannot reach. Every other property of a passing run is a theorem.
Type invariants of `BronzeIngestion`, `SilverBuild`, `PostgresSync` and `SchemaMigrations` are proved and
not run: where one failed, the properties of the run would fail earlier. The induction theorems of the library
cannot be instantiated by the installed provers; facts about recursive functions are proved by a
least counterexample instead.

## 6. Plan

Done: the modules of section 2. Next, in this order:

1. `GoldOverlap`: two unlocked commands that replace the whole catalog from lists
   read earlier, and two ingestions of one series; which promises of `GoldStore` survive.
2. Proofs: the promises `GoldOverlap` keeps; the safety parts behind the liveness properties, such as that a
   settled replica stays settled until the next publication and that an abandoned attempt stays the one to be
   resolved.
3. The value formulas of the dataframe modules against those of the feature query, as sets of rows like
   `FeatureTransforms`.

## 7. Not modelled

Numerical values of features, the dataframe code that computes some of them a second time, the
volatility z-score, the RSI ratio, spreads and raw fields of the view; parsing of provider
formats, the length of retry delays, plots and sidecar contents, SQL text, argument parsing, logging,
and the other one-shot scripts: their correctness is about values, which the tests check well and a
model would only copy. Build directories of failed attempts and temporary files of killed writes
are never removed; the code promises nothing about them. Corruption of files by the disk, clocks
that run backwards, and overlapping manual commands on one lake are outside the
present models.
