-------------------------- MODULE GoldPublication --------------------------
(***************************************************************************)
(* Publication and retention of Gold builds by one process at a time: the  *)
(* part of run-daily and gold-build that touches the Gold lake.  The       *)
(* process reconciles the catalog, registers an attempt, writes a bundle,  *)
(* promotes it, refreshes the root views and (run-daily) retires old       *)
(* builds.  It may raise at every durable step, with or without the step's *)
(* effect, and may be killed between any two steps.  Commands of one lake  *)
(* are serial here (the cron runner's flock).                              *)
(***************************************************************************)
EXTENDS GoldCatalog

CONSTANT MaxFaults   \* bound: raised errors and kills in one behaviour

ASSUME FaultAssumption == MaxFaults \in Nat

VARIABLES
    catalog,   \* manifest.parquet
    files,     \* build id -> artifacts present in its build directory
    views,     \* build shown by the root manifest.json and feature_profile.png
    release,   \* version pair the installed code publishes
    stage,     \* where the process is; "idle" when none runs
    command,   \* "run-daily" or "gold-build"
    attempt,   \* build id of the running publication
    toSweep,   \* tombstones the running retention has still to sweep
    faults     \* faults so far

durable == <<catalog, files, views>>
locals  == <<command, attempt, toSweep>>
vars    == <<durable, release, stage, locals, faults>>

Artifacts == {"data", "plot", "manifest"}

\* What a build directory can hold while it is written: data, plot, manifest.
Written == {{}, {"data"}, {"data", "plot"}, Artifacts}

\* What is left of a swept directory: data, manifest, plot go in this order.
Unswept(present) ==
    {present, present \ {"data"}, present \ {"data", "manifest"}, {}}

Stages == {"idle", "recover", "recoverViews", "sources", "entry", "entryViews",
           "register", "registeredViews", "bundle", "promote", "finalize",
           "failedViews", "promotedViews", "mirror", "retain", "retainViews",
           "sweep", "inventory"}

TypeOK ==
    /\ catalog \in Catalogs
    /\ Versioned(catalog)
    /\ files \in [Builds -> SUBSET Artifacts]
    /\ views \in [json : Builds \cup {None}, png : Builds \cup {None}]
    /\ release \in Versions
    /\ stage \in Stages
    /\ command \in {"run-daily", "gold-build"}
    /\ attempt \in Builds \cup {None}
    /\ toSweep \subseteq Builds
    /\ faults \in 0 .. MaxFaults

Init ==
    /\ catalog = [b \in Builds |-> Absent]
    /\ files = [b \in Builds |-> {}]
    /\ views = [json |-> None, png |-> None]
    /\ release \in Versions
    /\ stage = "idle"
    /\ command = "run-daily"
    /\ attempt = None
    /\ toSweep = {}
    /\ faults = 0

(***************************************************************************)
(* Building blocks.                                                        *)
(***************************************************************************)
Goto(next) == stage' = next

Raise == faults < MaxFaults /\ faults' = faults + 1

\* catalog.replace(new).  A list the repository rejects raises and writes
\* nothing; otherwise the rename may not happen and raise, happen and
\* return, or happen and raise when the directory fsync fails.
Replace(new, onSuccess, onError) ==
    \/ /\ ValidCatalog(new)
       /\ catalog' = new
       /\ \/ Goto(onSuccess) /\ UNCHANGED faults
          \/ Goto(onError) /\ Raise
    \/ /\ ValidCatalog(new)
       /\ UNCHANGED catalog
       /\ Goto(onError) /\ Raise
    \/ /\ ~ValidCatalog(new)
       /\ UNCHANGED <<catalog, faults>>
       /\ Goto(onError)

\* Variant with a bug: a root view that exists is taken to be up to date.
ShownStale == IF views.json # None THEN views.json ELSE Current(catalog)

\* The build a refresh puts into the root views.
Shown == Current(catalog)

\* views.refresh(records): manifest.json first, then feature_profile.png; a
\* failure can leave neither or only the first rewritten.  A current build
\* without its three files raises before anything is written.
RefreshViews(from, onSuccess, onError) ==
    LET shown == Shown
        servable == shown # None => files[shown] = Artifacts
    IN  /\ stage = from
        /\ \/ /\ servable
              /\ views' = [json |-> shown, png |-> shown]
              /\ Goto(onSuccess)
              /\ UNCHANGED faults
           \/ /\ servable
              /\ views' \in {views, [views EXCEPT !.json = shown],
                             [json |-> shown, png |-> shown]}
              /\ Goto(onError)
              /\ Raise
           \/ /\ ~servable
              /\ Goto(onError)
              /\ UNCHANGED <<views, faults>>
        /\ UNCHANGED <<catalog, files, release, locals>>

\* GoldPublisher.reconcile up to its refresh: stale attempts become failed.
FailStale(from, onSuccess) ==
    /\ stage = from
    /\ IF Stale(catalog) # {}
       THEN Replace(WithFailed(catalog, Stale(catalog)), onSuccess, "idle")
       ELSE Goto(onSuccess) /\ UNCHANGED <<catalog, faults>>
    /\ UNCHANGED <<files, views, release, locals>>

(***************************************************************************)
(* The command up to publication.                                          *)
(***************************************************************************)
Start ==
    /\ stage = "idle"
    /\ Goto("recover")
    /\ command' \in {"run-daily", "gold-build"}
    /\ attempt' = None
    /\ toSweep' = {}
    /\ UNCHANGED <<durable, release, faults>>

Recover == FailStale("recover", "recoverViews")

\* Variant with a bug: startup recovery leaves the root views alone.
RecoverViewsSkipped ==
    /\ stage = "recoverViews"
    /\ Goto("sources")
    /\ UNCHANGED <<durable, release, locals, faults>>

RecoverViews == RefreshViews("recoverViews", "sources", "idle")

\* Bronze, Silver and the canonical Gold frame: they do not touch the Gold
\* lake, and any failure (a provider, an empty Silver series) ends the run.
Sources ==
    /\ stage = "sources"
    /\ \/ Goto("entry")
       \/ Goto("idle")
    /\ UNCHANGED <<durable, release, locals, faults>>

(***************************************************************************)
(* GoldPublisher.publish.                                                  *)
(***************************************************************************)
Entry == FailStale("entry", "entryViews")

EntryViews == RefreshViews("entryViews", "register", "idle")

\* The id has the clock's one-second resolution: an id that is already in
\* the catalog is a duplicate row, which the repository rejects.
Register ==
    /\ stage = "register"
    /\ \E b \in Builds :
        IF catalog[b].status = "absent"
        THEN /\ attempt' = b
             /\ Replace([catalog EXCEPT ![b] = BuildingRow(release)],
                        "registeredViews", "idle")
        ELSE /\ Goto("idle")
             /\ UNCHANGED <<catalog, attempt, faults>>
    /\ UNCHANGED <<files, views, release, command, toSweep>>

RegisteredViews == RefreshViews("registeredViews", "bundle", "finalize")

\* Variant with a bug: a failure while the bundle is written is swallowed.
CreateBundleUnvalidated ==
    /\ stage = "bundle"
    /\ \E written \in Written : files' = [files EXCEPT ![attempt] = written]
    /\ Goto("promote")
    /\ UNCHANGED <<catalog, views, release, locals, faults>>

\* create_and_validate: a failed data write removes the build directory, a
\* failed sidecar or validation leaves what was written.
CreateBundle ==
    /\ stage = "bundle"
    /\ \/ /\ files' = [files EXCEPT ![attempt] = Artifacts]
          /\ Goto("promote")
          /\ UNCHANGED faults
       \/ /\ \E written \in Written :
               files' = [files EXCEPT ![attempt] = written]
          /\ Goto("finalize")
          /\ Raise
    /\ UNCHANGED <<catalog, views, release, locals>>

Promote ==
    /\ stage = "promote"
    /\ Replace(Promoted(catalog, attempt), "promotedViews", "finalize")
    /\ UNCHANGED <<files, views, release, locals>>

\* Variant with a bug: the finalizer trusts the exception, not the catalog.
UncommittedAlways(b) == TRUE

\* The authoritative catalog still says the attempt is building.
Uncommitted(b) == catalog[b].status = "building"

\* _finalize_failed_if_uncommitted, then the original error is re-raised.
Finalize ==
    /\ stage = "finalize"
    /\ IF Uncommitted(attempt)
       THEN Replace(WithFailed(catalog, {attempt}), "failedViews", "idle")
       ELSE Goto("idle") /\ UNCHANGED <<catalog, faults>>
    /\ UNCHANGED <<files, views, release, locals>>

FailedViews == RefreshViews("failedViews", "idle", "idle")

PromotedViews == RefreshViews("promotedViews", "mirror", "idle")

\* The optional mirror; run-daily goes on to retention, gold-build is done.
MirrorSync ==
    /\ stage = "mirror"
    /\ \/ /\ Goto(IF command = "run-daily" THEN "retain" ELSE "idle")
          /\ UNCHANGED faults
       \/ Goto("idle") /\ Raise
    /\ UNCHANGED <<durable, release, locals>>

(***************************************************************************)
(* GoldRetentionService.run.                                               *)
(***************************************************************************)
MarkBuilds ==
    LET ids == SelectForMark(catalog)
        records == Marked(catalog, ids)
    IN  /\ stage = "retain"
        /\ IF ids # {}
           THEN Replace(records, "retainViews", "idle")
           ELSE /\ Goto(IF Tombstones(records) # {} THEN "retainViews"
                                                    ELSE "inventory")
                /\ UNCHANGED <<catalog, faults>>
        /\ toSweep' = SweepList(records, ids)
        /\ UNCHANGED <<files, views, release, command, attempt>>

RetainViews == RefreshViews("retainViews", "sweep", "idle")

\* One sweeper.sweep(build_id), in any order; a failure ends the run.
Sweep ==
    /\ stage = "sweep"
    /\ \E b \in toSweep :
        \/ /\ files' = [files EXCEPT ![b] = {}]
           /\ toSweep' = toSweep \ {b}
           /\ Goto(IF toSweep = {b} THEN "inventory" ELSE "sweep")
           /\ UNCHANGED faults
        \/ /\ \E left \in Unswept(files[b]) :
                files' = [files EXCEPT ![b] = left]
           /\ Goto("idle")
           /\ Raise
           /\ UNCHANGED toSweep
    /\ UNCHANGED <<catalog, views, release, command, attempt>>

Inventory ==
    /\ stage = "inventory"
    /\ Goto("idle")
    /\ UNCHANGED <<durable, release, locals, faults>>

(***************************************************************************)
(* The environment: kills and releases of the code.                        *)
(***************************************************************************)
Kill ==
    /\ stage # "idle"
    /\ Goto("idle")
    /\ Raise
    /\ UNCHANGED <<durable, release, locals>>

Deploy ==
    /\ stage = "idle"
    /\ release' \in Versions \ {release}
    /\ UNCHANGED <<durable, stage, locals, faults>>

Step ==
    \/ Recover \/ RecoverViews \/ Sources
    \/ Entry \/ EntryViews \/ Register \/ RegisteredViews \/ CreateBundle
    \/ Promote \/ Finalize \/ FailedViews \/ PromotedViews \/ MirrorSync
    \/ MarkBuilds \/ RetainViews \/ Sweep \/ Inventory

Next == Start \/ Step \/ Kill \/ Deploy

Spec == Init /\ [][Next]_vars

\* A started process keeps running and cron starts the next one.
Fairness == WF_vars(Start) /\ WF_vars(Step)

FairSpec == Spec /\ Fairness

(***************************************************************************)
(* Properties.                                                             *)
(***************************************************************************)

\* Mark before sweep (gold_retention.run, gold_retention_store.sweep) and
\* promotion after validation: whatever is interrupted, every row a consumer
\* may select has its three files on disk, and the catalog is one the
\* repository can read back.
SelectableIntact ==
    /\ ValidCatalog(catalog)
    /\ \A b \in Builds : Selectable(catalog[b]) => files[b] = Artifacts

\* The root views (gold_materialized_views.refresh) may lag or be torn, but
\* they only ever show a build that was committed and whose files still
\* exist: retention never sweeps a build they show.
ViewsNeverDangle ==
    \A b \in {views.json, views.png} \ {None} :
        catalog[b].status = "complete" /\ files[b] = Artifacts

\* Work that depends on the views starts only once both of them show the
\* authoritative current build: a torn or lagging pair left by an earlier
\* run is repaired by reconciliation before sources, bundle and sweep.
ViewsRepairedFirst ==
    stage \in {"sources", "register", "registeredViews", "bundle", "promote",
               "mirror", "retain", "sweep", "inventory"} =>
        views = [json |-> Current(catalog), png |-> Current(catalog)]

\* What the running process remembers agrees with what is durable: from its
\* registration to its promotion the attempt is a building row, at promotion
\* its bundle is whole, and what retention is about to delete is already
\* tombstoned (publish, create_and_validate, gold_retention.run).
LocalsConsistent ==
    /\ stage \in {"registeredViews", "bundle", "promote", "finalize"} =>
           attempt \in Builds
    /\ stage \in {"registeredViews", "bundle", "promote"} =>
           catalog[attempt].status = "building"
    /\ stage = "promote" => files[attempt] = Artifacts
    /\ stage \in {"retainViews", "sweep"} =>
           \A b \in toSweep : Tombstone(catalog[b])

\* When retention has run to its end, no version pair keeps more than Retain
\* builds and nothing is left of any tombstoned build, those whose sweep an
\* earlier run abandoned included.
RetentionHonoured ==
    stage = "inventory" =>
        /\ \A v \in Versions : Cardinality(Group(catalog, v)) <= Retain
        /\ \A b \in Tombstones(catalog) : files[b] = {}

\* The catalog replacement is the commit point: no later failure, finalizer,
\* recovery or retention turns a complete build into anything else, and a
\* retired build stays retired.
CommitIsFinal ==
    [][\A b \in Builds :
         catalog[b].status = "complete" =>
            /\ catalog'[b].status = "complete"
            /\ catalog[b].pruned => catalog'[b].pruned]_vars

\* The current build changes only by the promotion of the attempt this
\* process registered and validated: no recovery promotes an interrupted
\* build because its files exist, and nothing un-publishes.
OnlyPromotionMovesCurrent ==
    [][Current(catalog') # Current(catalog) =>
         /\ stage = "promote"
         /\ Current(catalog') = attempt
         /\ catalog[attempt].status = "building"
         /\ files[attempt] = Artifacts]_vars

\* An attempt left in "building" by a kill or an error is resolved by a
\* later run (publish or reconcile), once faults stop.
AttemptsResolved ==
    \A b \in Builds :
        catalog[b].status = "building" ~> catalog[b].status # "building"

\* Lagging or torn root views converge to the authoritative current build.
ViewsConverge ==
    []<>(views = [json |-> Current(catalog), png |-> Current(catalog)])

(***************************************************************************)
(* Refinement: the lake implements GoldStore.                              *)
(***************************************************************************)
Servable == {b \in Builds : Selectable(catalog[b]) /\ files[b] = Artifacts}
Used     == {b \in Builds : catalog[b].status = "complete"}

Store == INSTANCE GoldStore WITH
            BuildIds  <- Builds,
            NoBuild   <- None,
            published <- Current(catalog),
            servable  <- Servable,
            used      <- Used

\* The catalog, files and failures together behave as the store a consumer
\* is promised (gold_publication, gold_retention, gold_catalog_repository).
ImplementsStore == Store!StoreSpec
=============================================================================
