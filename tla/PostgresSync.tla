--------------------------- MODULE PostgresSync ---------------------------
(***************************************************************************)
(* gold-sync-postgres against a moving lake and a shared database.  A sync *)
(* session selects the current build and hashes it outside any lock, then  *)
(* opens a transaction under the advisory lock, checks the replica against *)
(* the checkpoint, plans the delta, writes and verifies it, and commits.   *)
(* Meanwhile builds are published and retired, releases are deployed, the  *)
(* schema is migrated, rows drift by hand, and other sessions run: the     *)
(* command takes no lock of its own before the transaction.                *)
(***************************************************************************)
EXTENDS Integers, FiniteSets, Sequences

CONSTANTS Sessions,
          Timestamps,
          Values,       \* bound: values of a row; 0 is no row
          MaxBuilds,    \* bound: published builds
          Releases,     \* Gold schema versions, one feature version
          Shape,        \* schema version -> the row layout its digests hash
          Writers,      \* Parquet encodings of equal frames
          MaxFaults,    \* bound: raised errors and kills
          MaxDrifts     \* bound: rows changed by hand

ASSUME SyncAssumption ==
    /\ Releases \subseteq Nat \ {0}
    /\ Releases # {} /\ Writers # {}
    /\ 0 \notin Values
    /\ {MaxBuilds, MaxFaults, MaxDrifts} \subseteq Nat
    /\ DOMAIN Shape = Releases

Builds == 1 .. MaxBuilds
None   == 0

Rows     == [Timestamps -> Values \cup {0}]
NoRows   == [t \in Timestamps |-> 0]
Contents == [rows : Rows \ {NoRows}, version : Releases, writer : Writers]

\* gold_row_sha256: the layout is hashed with the values; no row, no digest.
Digest(version, value) == IF value = 0 THEN <<>> ELSE <<Shape[version], value>>

Digests(version, rows) == [t \in Timestamps |-> Digest(version, rows[t])]

VARIABLES
    builds,    \* published builds and what their files hold, in order
    kept,      \* builds retention has not swept
    release,   \* schema version of the installed code
    schema,    \* schema version the database was migrated to
    replica,   \* [rows, digests, checkpoint]: tables, hash index, sync state
    stage,     \* session -> where it is
    chosen,    \* session -> build it selected
    code,      \* session -> release it runs
    changed,   \* session -> timestamps its delta inserts, updates or deletes
    edited,    \* rows changed by hand since the open transaction read them
    late,      \* those of them changed after it verified its writes
    faults,
    drifts

lake     == <<builds, kept, release>>
database == <<schema, replica>>
locals   == <<chosen, code, changed>>
edits    == <<edited, late>>
bounds   == <<faults, drifts>>
vars     == <<lake, database, stage, locals, edits, bounds>>

Published == DOMAIN builds
Newest    == Cardinality(Published)

\* The sync state row.  The file hash stands for the contents it hashes.
Checkpoint(b) == [build |-> b, data |-> builds[b]]
NoCheckpoint  == [build |-> None]

Blank == [rows |-> NoRows, digests |-> [t \in Timestamps |-> <<>>],
          checkpoint |-> NoCheckpoint]

\* Holding the advisory lock of run_locked.
InTransaction(p) == stage[p] \in {"locked", "applied"}

LockFree == \A p \in Sessions : ~InTransaction(p)

TypeOK ==
    /\ Published \in {1 .. n : n \in 0 .. MaxBuilds}
    /\ \A b \in Published : builds[b] \in Contents
    /\ kept \subseteq Published
    /\ release \in Releases /\ schema \in Releases
    /\ replica.rows \in Rows
    /\ replica.checkpoint.build \in Published \cup {None}
    /\ stage \in [Sessions -> {"idle", "selected", "ready", "locked", "applied"}]
    /\ chosen \in [Sessions -> Builds \cup {None}]
    /\ code \in [Sessions -> Releases]
    /\ changed \in [Sessions -> SUBSET Timestamps]
    /\ \A p, q \in Sessions : InTransaction(p) /\ InTransaction(q) => p = q
    /\ edited \subseteq Timestamps /\ late \subseteq edited
    /\ faults \in 0 .. MaxFaults
    /\ drifts \in 0 .. MaxDrifts

Oldest == CHOOSE r \in Releases : \A other \in Releases : r <= other

Init ==
    /\ builds = << >>
    /\ kept = {}
    /\ release = Oldest
    /\ schema = Oldest
    /\ replica = Blank
    /\ stage = [p \in Sessions |-> "idle"]
    /\ chosen = [p \in Sessions |-> None]
    /\ code = [p \in Sessions |-> Oldest]
    /\ changed = [p \in Sessions |-> {}]
    /\ edited = {}
    /\ late = {}
    /\ faults = 0
    /\ drifts = 0

Raise == faults < MaxFaults /\ faults' = faults + 1

Goto(p, next) == stage' = [stage EXCEPT ![p] = next]

\* The session is over; what it remembered is gone.
End(p) ==
    /\ Goto(p, "idle")
    /\ chosen' = [chosen EXCEPT ![p] = None]
    /\ code' = [code EXCEPT ![p] = Oldest]
    /\ changed' = [changed EXCEPT ![p] = {}]

\* Its transaction is committed or rolled back as well.
EndTransaction(p) == End(p) /\ edited' = {} /\ late' = {}

(***************************************************************************)
(* The lake, the operators and the administrators.                         *)
(***************************************************************************)
Publish ==
    /\ Newest < MaxBuilds
    /\ \E content \in Contents :
        /\ content.version = release
        /\ builds' = Append(builds, content)
    /\ kept' = kept \cup {Newest + 1}
    /\ UNCHANGED <<release, database, stage, locals, edits, bounds>>

\* Retention sweeps any build but the current one.
Retire ==
    /\ \E b \in kept \ {Newest} : kept' = kept \ {b}
    /\ UNCHANGED <<builds, release, database, stage, locals, edits, bounds>>

Deploy ==
    /\ \E r \in Releases : r > release /\ release' = r
    /\ UNCHANGED <<builds, kept, database, stage, locals, edits, bounds>>

\* postgres-migrate waits for the tables a transaction has locked.
Migrate ==
    /\ schema # release
    /\ LockFree
    /\ schema' = release
    /\ UNCHANGED <<lake, replica, stage, locals, edits, bounds>>

\* The rows a transaction has written are locked until it ends, but for an
\* insert into a series table where it left nothing.
Editable(t, v) ==
    \A p \in Sessions :
        stage[p] = "applied" /\ t \in changed[p] =>
            v \notin {0, builds[chosen[p]].rows[t]}

\* Somebody changes, adds or deletes a serving row by hand, and commits at
\* once.  The advisory lock keeps nobody but syncs and verifiers out.
Drift ==
    /\ drifts < MaxDrifts
    /\ drifts' = drifts + 1
    /\ \E t \in Timestamps, v \in Values \cup {0} :
        /\ v # replica.rows[t] /\ Editable(t, v)
        /\ replica' = [replica EXCEPT !.rows[t] = v]
        /\ edited' = IF LockFree THEN edited ELSE edited \cup {t}
        /\ late' = IF \E p \in Sessions : stage[p] = "applied"
                   THEN late \cup {t} ELSE late
    /\ UNCHANGED <<lake, schema, stage, locals, faults>>

(***************************************************************************)
(* GoldPostgresDeltaSync.sync before the transaction.                      *)
(***************************************************************************)
Selectable == Published # {} /\ builds[Newest].version = release

\* The current build, if this release can serve it; otherwise the command
\* fails and leaves no trace.
Select(p) ==
    /\ stage[p] = "idle"
    /\ IF Selectable
       THEN /\ Goto(p, "selected")
            /\ chosen' = [chosen EXCEPT ![p] = Newest]
            /\ code' = [code EXCEPT ![p] = release]
       ELSE UNCHANGED <<stage, chosen, code>>
    /\ UNCHANGED <<lake, database, changed, edits, bounds>>

\* validate_bundle, sha256_path, read_path: files, manifest and hashes of a
\* build are as the catalog says unless retention has swept them.
Whole(b) == b \in kept

\* preflight_schema: the schema is the one this release migrates to.
Served(version) == schema = version

\* A swept bundle or a schema of another release ends the session.
Prepare(p) ==
    /\ stage[p] = "selected"
    /\ \/ /\ Whole(chosen[p])
          /\ Served(code[p])
          /\ Goto(p, "ready")
          /\ UNCHANGED <<locals, faults>>
       \/ /\ ~(Whole(chosen[p]) /\ Served(code[p]))
          /\ End(p)
          /\ UNCHANGED faults
       \/ End(p) /\ Raise
    /\ UNCHANGED <<lake, database, edits, drifts>>

(***************************************************************************)
(* _sync_locked: what the transaction reads, refuses and plans.            *)
(***************************************************************************)
Bootstrapped == replica.checkpoint # NoCheckpoint

\* Variant with a bug: any version difference counts as an upgrade.
CompatibleAlways(version) == TRUE

\* Variant with a bug: no schema upgrade is a compatible one.
CompatibleSame(version) ==
    Bootstrapped => replica.checkpoint.data.version = version

\* _require_state_compatible: the same version or a later one.
Compatible(version) ==
    Bootstrapped => replica.checkpoint.data.version <= version

Upgrade(version) == Bootstrapped /\ replica.checkpoint.data.version < version

Present(map) == {t \in Timestamps : map[t] # <<>>}

\* Variant with a bug: the serving rows are not compared with the index.
TrustedIndexOnly(version) ==
    /\ ~Bootstrapped => Present(replica.digests) = {}
    /\ Bootstrapped =>
           Cardinality(Present(replica.digests))
             = Cardinality(Present(Digests(replica.checkpoint.data.version,
                                           replica.checkpoint.data.rows)))

\* No rows or digests without a checkpoint, as many digests as it counts,
\* and, but for an upgrade, serving rows that match their digests.
Trusted(version) ==
    /\ ~Bootstrapped => Present(replica.digests) = {} /\ replica.rows = NoRows
    /\ Bootstrapped =>
           Cardinality(Present(replica.digests))
             = Cardinality(Present(Digests(replica.checkpoint.data.version,
                                           replica.checkpoint.data.rows)))
    /\ ~Upgrade(version) =>
           replica.digests = Digests(version, replica.rows)

Delta(b) ==
    LET source == Digests(builds[b].version, builds[b].rows)
    IN  {t \in Timestamps : replica.digests[t] # source[t]}

\* An unchanged file must mean unchanged rows; unchanged rows must mean an
\* unchanged file, but for an upgrade.
Plausible(b) ==
    Bootstrapped =>
        /\ replica.checkpoint.data = builds[b] => Delta(b) = {}
        /\ Delta(b) = {} =>
               \/ replica.checkpoint.data = builds[b]
               \/ Upgrade(builds[b].version)

\* Take the advisory lock, read the target and the frame, plan the delta.  A
\* refusal, a swept frame or an error rolls the transaction back.
Begin(p) ==
    LET b == chosen[p]
        accepted == /\ Compatible(code[p])
                    /\ Trusted(code[p])
                    /\ Whole(b)
                    /\ Plausible(b)
    IN  /\ stage[p] = "ready"
        /\ LockFree
        /\ \/ /\ accepted
              /\ Goto(p, "locked")
              /\ changed' = [changed EXCEPT ![p] = Delta(b)]
              /\ UNCHANGED <<chosen, code, faults>>
           \/ ~accepted /\ End(p) /\ UNCHANGED faults
           \/ End(p) /\ Raise
        /\ UNCHANGED <<lake, database, edits, drifts>>

(***************************************************************************)
(* apply_delta and the commit.                                             *)
(***************************************************************************)
\* The replica with the writes of a transaction.  READ COMMITTED: rows it has
\* not written are as others have committed them.
Applied(b, delta) ==
    [rows       |-> [t \in Timestamps |->
                        IF t \in delta \ late THEN builds[b].rows[t]
                        ELSE replica.rows[t]],
     digests    |-> [t \in Timestamps |->
                        IF t \in delta
                        THEN Digest(builds[b].version, builds[b].rows[t])
                        ELSE replica.digests[t]],
     checkpoint |-> Checkpoint(b)]

\* Variant with a bug: only the index is compared with the source.
VerifiedIndexOnly(b, new) ==
    new.digests = Digests(builds[b].version, builds[b].rows)

\* The checks after the writes: index and serving rows against the source.
Verified(b, new) ==
    LET source == Digests(builds[b].version, builds[b].rows)
    IN  new.digests = source /\ Digests(builds[b].version, new.rows) = source

\* apply_delta: the writes and the checks that follow them.  Rows changed by
\* hand since they were read are overwritten here, or found by the checks.
Apply(p) ==
    LET sound == Verified(chosen[p], Applied(chosen[p], changed[p]))
    IN  /\ stage[p] = "locked"
        /\ \/ sound /\ Goto(p, "applied") /\ UNCHANGED <<locals, edits, faults>>
           \/ ~sound /\ EndTransaction(p) /\ UNCHANGED faults
           \/ EndTransaction(p) /\ Raise
        /\ UNCHANGED <<lake, database, drifts>>

\* Variant with a bug: the checkpoint is committed ahead of the rows.
CommitCheckpointFirst(p) ==
    LET new == Applied(chosen[p], changed[p])
    IN  /\ stage[p] = "applied"
        /\ \/ /\ replica' = new
              /\ UNCHANGED faults
           \/ /\ replica' = [replica EXCEPT !.checkpoint = new.checkpoint]
              /\ Raise
        /\ EndTransaction(p)
        /\ UNCHANGED <<lake, schema, drifts>>

\* All of it or nothing; a lost connection may hide that it was all.
Commit(p) ==
    /\ stage[p] = "applied"
    /\ \/ replica' = Applied(chosen[p], changed[p]) /\ UNCHANGED faults
       \/ replica' = Applied(chosen[p], changed[p]) /\ Raise
       \/ UNCHANGED replica /\ Raise
    /\ EndTransaction(p)
    /\ UNCHANGED <<lake, schema, drifts>>

Sync(p) == Select(p) \/ Prepare(p) \/ Begin(p) \/ Apply(p) \/ Commit(p)

Next ==
    \/ Publish \/ Retire \/ Deploy \/ Migrate \/ Drift
    \/ \E p \in Sessions : Sync(p)

Spec == Init /\ [][Next]_vars

\* Administrators migrate after a deployment, cron keeps starting syncs and a
\* started one runs on.  Nothing obliges the lake.
Fairness == WF_vars(Migrate) /\ \A p \in Sessions : SF_vars(Sync(p))

FairSpec == Spec /\ Fairness

(***************************************************************************)
(* Properties.                                                             *)
(***************************************************************************)

\* What a replica holds, checkpoint, index and serving rows, is one published
\* build, whole, but for some of the rows (apply_delta).
IsBuildBut(r, rows) ==
    /\ r.checkpoint.build \in Published
    /\ r.checkpoint.data = builds[r.checkpoint.build]
    /\ \A t \in Timestamps \ rows : r.rows[t] = r.checkpoint.data.rows[t]
    /\ r.digests = Digests(r.checkpoint.data.version, r.checkpoint.data.rows)

IsBuild(r) == IsBuildBut(r, {})

\* As long as nothing drifted the replica is always one published build or
\* blank: no interleaving of sessions, migrations and failures mixes two
\* builds (run_locked, apply_delta).
ReplicaIsOneBuild == drifts = 0 => replica = Blank \/ IsBuild(replica)

\* Whatever has been changed by hand, and whenever, a commit that moves the
\* checkpoint leaves exactly the build the checkpoint names, but for rows
\* changed after apply_delta had read them back and before the commit.
CheckpointIsExact ==
    [][replica'.checkpoint # replica.checkpoint =>
           IsBuildBut(replica', late)]_vars

\* The row is not the one its digest was taken of.
Drifted(t) ==
    Bootstrapped /\ replica.digests[t]
                      # Digest(replica.checkpoint.data.version, replica.rows[t])

\* A sync commits over a row changed by hand only as an upgrade, or when the
\* row was changed while its transaction was open: a drift that was there
\* before stops every other commit, whatever its delta, until it is mended by
\* hand or an upgrade replaces it.
DriftStopsCommits ==
    [][\A p \in Sessions :
         /\ stage[p] = "applied" /\ stage'[p] = "idle" /\ replica' # replica
         /\ \E t \in Timestamps \ edited : Drifted(t)
         => Upgrade(code[p])]_vars

\* A session of an older release that lost the race to an upgraded one never
\* takes the replica back to its own schema version.
VersionNeverRegresses ==
    [][Bootstrapped =>
         /\ replica'.checkpoint # NoCheckpoint
         /\ replica'.checkpoint.data.version
              >= replica.checkpoint.data.version]_vars

\* Once the lake rests on a build the installed release can serve, faults stop
\* and nobody changes serving rows by hand, the replica comes to hold that
\* build and keeps it.
ReplicaCatchesUp ==
    \A b \in Builds :
        <>[](/\ Newest = b
             /\ builds[b].version = release
             /\ drifts = 0) =>
            <>[](replica.checkpoint.build = b)

\* Every committed sync moves the checkpoint forward in publication order.
CheckpointAdvances ==
    [][replica'.checkpoint.build >= replica.checkpoint.build]_vars
=============================================================================
