---------------------------- MODULE Conformance ----------------------------
(***************************************************************************)
(* postgres-verify beside the syncs of PostgresSync.  The verifier selects *)
(* and hashes the current build, inspects schema and feature view in       *)
(* transactions of their own, then reads the replica in four statements    *)
(* under the advisory lock the syncs take, and reports PASS or FAIL.  The  *)
(* feature view is a materialized view: it shows the serving rows of its   *)
(* last refresh.                                                           *)
(***************************************************************************)
EXTENDS PostgresSync

VARIABLES
    features, \* the serving rows the feature view was computed from
    step,     \* where the verifier is, or the verdict it has reached
    target,   \* the build it selected
    agrees    \* what it has read so far agrees with that build

verifier == <<step, target, agrees>>
allVars  == <<vars, features, verifier>>

Steps == {"idle", "selected", "hashed", "schema", "lock",
          "digests", "rows", "summary", "pass", "fail"}

\* The verifier holds the advisory lock until its transaction ends.
Holding == step \in {"digests", "rows", "summary", "pass"}

VerifierTypeOK ==
    /\ TypeOK
    /\ features \in Rows
    /\ step \in Steps
    /\ target \in Published \cup {None}
    /\ agrees \in BOOLEAN
    /\ Holding => LockFree

VerifierInit ==
    /\ Init
    /\ features = NoRows
    /\ step = "idle"
    /\ target = None
    /\ agrees = TRUE

(***************************************************************************)
(* What the syncs and the others do, with the view and the shared lock.    *)
(***************************************************************************)
\* The view is recreated, or left alone, by a migration.
MigrateViews ==
    /\ ~Holding
    /\ Migrate
    /\ features' \in {features, replica.rows}

\* Anybody may call the refresh function.
RefreshByHand ==
    /\ features' = replica.rows
    /\ UNCHANGED vars

\* Variant with a bug: the view is not refreshed after a first load.
RefreshedLater(delta) == Bootstrapped /\ delta # {}

\* A delta that changes rows refreshes the view in its transaction, before
\* the checks that find the rows to be those of the build.
Refreshed(delta) == delta # {}

CommitRows(p) ==
    /\ Commit(p)
    /\ features' = IF replica' # replica /\ Refreshed(changed[p])
                   THEN builds[chosen[p]].rows ELSE features

BeginLocked(p) == ~Holding /\ Begin(p)

SyncStep(p) ==
    /\ \/ /\ Select(p) \/ Prepare(p) \/ BeginLocked(p) \/ Apply(p)
          /\ UNCHANGED features
       \/ CommitRows(p)
    /\ UNCHANGED verifier

Others ==
    /\ \/ (Publish \/ Retire \/ Deploy \/ Drift) /\ UNCHANGED features
       \/ MigrateViews
       \/ RefreshByHand
    /\ UNCHANGED verifier

(***************************************************************************)
(* GoldPostgresConformanceVerifier.verify.                                 *)
(***************************************************************************)
Report(verdict) == step' = verdict /\ UNCHANGED <<vars, features>>

\* Any step may raise (reads, temporal probes, roles and session settings), which
\* makes the report a FAIL.
VerifyRaises ==
    /\ step \notin {"idle", "pass", "fail"}
    /\ Raise
    /\ step' = "fail"
    /\ UNCHANGED <<lake, database, stage, locals, edits, drifts, features, target, agrees>>

SelectTarget ==
    /\ step = "idle"
    /\ IF Selectable
       THEN Report("selected") /\ target' = Newest
       ELSE Report("fail") /\ UNCHANGED target
    /\ agrees' = TRUE

\* validate_bundle, read_path and sha256_path need the bundle to be there.
HashSource ==
    /\ step = "selected"
    /\ Report(IF Whole(target) THEN "hashed" ELSE "fail")
    /\ UNCHANGED <<target, agrees>>

\* _assert_schema, in a transaction of its own.
InspectSchema ==
    /\ step = "hashed"
    /\ Report(IF Served(builds[target].version) THEN "schema" ELSE "fail")
    /\ UNCHANGED <<target, agrees>>

Count(rows) == Cardinality({t \in Timestamps : rows[t] # 0})

\* _assert_feature_values_population: each group of features in a session of
\* its own, by the numbers of rows.  One group stands for all.
InspectFeatures ==
    /\ step = "schema"
    /\ Report(IF Count(features) = Count(replica.rows) THEN "lock" ELSE "fail")
    /\ UNCHANGED <<target, agrees>>

Source == Digests(builds[target].version, builds[target].rows)

\* Variant with a bug: a checkpoint with the right file hash is enough.
StateMatchesData == Bootstrapped /\ replica.checkpoint.data = builds[target]

StateMatches == replica.checkpoint = Checkpoint(target)

Read(next, matches) ==
    /\ agrees' = (agrees /\ matches)
    /\ step' = next
    /\ UNCHANGED <<vars, features, target>>

\* The advisory lock, then the sync state.
ReadState   == step = "lock" /\ LockFree /\ Read("digests", StateMatches)
ReadDigests == step = "digests" /\ Read("rows", replica.digests = Source)

\* Variant with a bug: the digest index stands for the rows.
ReadRowsIndex == step = "rows" /\ Read("summary", replica.digests = Source)

ReadRows ==
    /\ step = "rows"
    /\ Read("summary", Digests(builds[target].version, replica.rows) = Source)

\* The last read; the verdict is the conjunction of all comparisons.
ReadSummary ==
    LET matches == Count(replica.rows) = Count(builds[target].rows)
    IN  /\ step = "summary"
        /\ Read(IF agrees /\ matches THEN "pass" ELSE "fail", matches)

\* The report is written and the command ends.
EndVerify ==
    /\ step \in {"pass", "fail"}
    /\ Report("idle")
    /\ target' = None
    /\ agrees' = TRUE

Verify ==
    \/ HashSource \/ InspectSchema \/ InspectFeatures
    \/ ReadState \/ ReadDigests \/ ReadRows \/ ReadSummary
    \/ VerifyRaises \/ EndVerify

VerifierNext ==
    \/ Others
    \/ \E p \in Sessions : SyncStep(p)
    \/ SelectTarget
    \/ Verify

VerifierSpec == VerifierInit /\ [][VerifierNext]_allVars

\* As in PostgresSync; a started verification runs on, nobody owes a new one.
VerifierFairSpec ==
    /\ VerifierSpec
    /\ WF_allVars(MigrateViews /\ UNCHANGED verifier)
    /\ \A p \in Sessions : SF_allVars(SyncStep(p))
    /\ SF_allVars(Verify)

(***************************************************************************)
(* Properties.                                                             *)
(***************************************************************************)

\* When the verdict is PASS the replica is the selected build: checkpoint and
\* index exactly, and serving rows and feature view too unless somebody
\* changed rows by hand between the reads, although the view was inspected
\* before the lock and syncs committed in between.
PassIsExact ==
    step = "pass" =>
        /\ replica.checkpoint = Checkpoint(target)
        /\ replica.digests = Source
        /\ drifts = 0 => replica.rows = builds[target].rows /\ features = replica.rows

\* The replica holds the current build, whole, and nobody has changed a row
\* by hand.
Settled ==
    /\ Selectable /\ schema = release
    /\ IsBuild(replica) /\ replica.checkpoint.build = Newest
    /\ drifts = 0

\* No false alarm: once the replica rests on the current build, every
\* verification ends, and none of them fails, whatever syncs run beside it.
SettledPasses ==
    <>[]Settled =>
        /\ <>[](step # "fail")
        /\ []<>(step \in {"idle", "pass"})

\* Serving rows that were changed by hand and stay so are never certified.
DriftNeverPasses ==
    <>[](Bootstrapped /\ replica.digests
             # Digests(replica.checkpoint.data.version, replica.rows)) =>
        <>[](step # "pass")
=============================================================================
