------------------------- MODULE ConformanceProofs -------------------------
(***************************************************************************)
(* Proofs about postgres-verify beside the syncs, for any number of        *)
(* sessions, builds, faults and rows changed by hand.  From the first read *)
(* under the advisory lock to the verdict no sync commits, so what was     *)
(* compared stays true; the feature view, inspected before the lock, is    *)
(* vouched for by the refresh every delta carries with it.                 *)
(***************************************************************************)
EXTENDS Conformance, PostgresSyncProofs

VerifierTypes ==
    /\ features \in Rows
    /\ step \in Steps
    /\ target \in Published \cup {None}
    /\ agrees \in BOOLEAN

\* The verifier and the sync sessions exclude one another.
OneHolder == Holding => LockFree

\* What a verifier under way has found to agree still does.
FoundStays ==
    /\ step \in {"selected", "hashed", "schema", "lock"} \/ Holding =>
         target \in Published
    /\ (step \in {"digests", "rows", "summary"} /\ agrees) \/ step = "pass" =>
         StateMatches
    /\ (step \in {"rows", "summary"} /\ agrees) \/ step = "pass" =>
         replica.digests = Source

\* As long as nobody changes rows by hand the view shows the serving rows.
ViewIsFresh == drifts = 0 => features = replica.rows

\* The inductive invariant.
VerifierInv ==
    SyncInv /\ VerifierTypes /\ OneHolder /\ FoundStays /\ ViewIsFresh

-----------------------------------------------------------------------------
(* The syncs, the lake and the administrators.                             *)

\* A committed transaction that changed no row left the view as it should be,
\* one that did refreshed it.
LEMMA CommitRefreshes ==
    ASSUME VerifierInv, NEW p \in Sessions, CommitRows(p)
    PROVE  ViewIsFresh' /\ features' \in Rows
<1>1. SyncInv /\ SyncInv'
  BY CommitStep DEF VerifierInv, CommitRows
<1>2. replica.rows \in Rows /\ replica'.rows \in Rows
  BY <1>1 DEF SyncInv, SyncTypes
<1>3. drifts' = drifts /\ features \in Rows
  BY DEF CommitRows, Commit, VerifierInv, VerifierTypes
<1>4. CASE replica' = replica
  BY <1>3, <1>4 DEF CommitRows, VerifierInv, ViewIsFresh
<1>5. CASE replica' # replica /\ Refreshed(changed[p])
  <2>1. features' = builds[chosen[p]].rows
    BY <1>5 DEF CommitRows
  <2>2. /\ IsBuildBut(replica', late) /\ replica'.checkpoint = Checkpoint(chosen[p])
        /\ chosen[p] \in Published
    BY <1>1, <1>5, CommitOutcome DEF CommitRows, Commit, SyncInv, SessionsChose
  <2>3. builds[chosen[p]].rows \in Rows
    BY <1>1, <2>2, PublishedIsInterval DEF SyncInv, SyncTypes, Contents
  <2>4. drifts = 0 => late = {}
    BY <1>1 DEF SyncInv, SyncTypes, Transactions, EditsNeedTransaction
  <2>5. ASSUME drifts = 0 PROVE replica'.rows = builds[chosen[p]].rows
    <3>1. \A t \in Timestamps : replica'.rows[t] = builds[chosen[p]].rows[t]
      BY <2>2, <2>4, <2>5 DEF IsBuildBut, Checkpoint
    <3> QED
      BY <1>2, <2>3, <3>1 DEF Rows
  <2> QED
    BY <1>3, <2>1, <2>3, <2>5 DEF ViewIsFresh
<1>6. CASE replica' # replica /\ ~Refreshed(changed[p])
  <2>1. replica' = Applied(chosen[p], {})
    BY <1>1, <1>6, CommitOutcome DEF CommitRows, Refreshed
  <2>2. replica'.rows = replica.rows
    BY <1>2, <2>1 DEF Applied, Rows
  <2>3. features' = features
    BY <1>6 DEF CommitRows
  <2> QED
    BY <1>3, <2>2, <2>3 DEF VerifierInv, ViewIsFresh
<1> QED
  BY <1>4, <1>5, <1>6

\* Nothing the verifier has compared changes beneath it.
LEMMA NothingMoves ==
    ASSUME VerifierInv, SyncInv',
           UNCHANGED verifier,
           Published \subseteq Published',
           \A b \in Published : builds'[b] = builds[b],
           Holding => /\ replica'.checkpoint = replica.checkpoint
                      /\ replica'.digests = replica.digests,
           Holding => LockFree',
           features' \in Rows, ViewIsFresh'
    PROVE  VerifierInv'
<1>1. /\ step' = step /\ target' = target /\ agrees' = agrees
  BY DEF verifier
<1>2. VerifierTypes'
  BY <1>1 DEF VerifierInv, VerifierTypes
<1>3. OneHolder'
  BY <1>1 DEF OneHolder, Holding
<1>4. FoundStays'
  <2>1. target \in Published =>
          Checkpoint(target)' = Checkpoint(target) /\ Source' = Source
    BY <1>1 DEF Checkpoint, Source, Digests, Digest
  <2> QED
    BY <1>1, <2>1 DEF VerifierInv, FoundStays, Holding, StateMatches
<1> QED
  BY <1>2, <1>3, <1>4 DEF VerifierInv

LEMMA PublishedGrow ==
    ASSUME SyncInv, [Next]_vars
    PROVE  /\ Published \subseteq Published'
           /\ \A b \in Published : builds'[b] = builds[b]
<1>1. CASE Publish
  <2>1. PICK content \in Contents : builds' = Append(builds, content)
    BY <1>1 DEF Publish
  <2>2. /\ builds \in Seq(Contents)
        /\ Published = 1 .. Len(builds) /\ Len(builds) \in Nat
    BY PublishedIsInterval DEF SyncInv, SyncTypes
  <2>3. /\ builds' \in Seq(Contents) /\ Len(builds') = Len(builds) + 1
        /\ \A b \in 1 .. Len(builds) : builds'[b] = builds[b]
    BY <2>1, <2>2, AppendProperties
  <2>4. Published' = 1 .. Len(builds) + 1
    BY <2>3, LenProperties DEF Published
  <2> QED
    BY <2>2, <2>3, <2>4
<1>2. CASE builds' = builds
  BY <1>2 DEF Published
<1>3. ~Publish => builds' = builds
  BY DEF Next, Sync, Select, Prepare, Begin, Commit, Retire, Deploy, Migrate,
         Apply, Drift, vars, lake
<1> QED
  BY <1>1, <1>2, <1>3

LEMMA OthersKeep ==
    ASSUME VerifierInv, Others
    PROVE  VerifierInv'
<1>1. SyncInv /\ [Next]_vars /\ UNCHANGED verifier
  BY DEF VerifierInv, Others, MigrateViews, RefreshByHand, Next
<1>2. SyncInv'
  BY <1>1, SyncPreserved
<1>3. replica.rows \in Rows /\ replica'.rows \in Rows
      /\ features \in Rows /\ drifts \in Nat
  BY <1>1, <1>2, SyncAssumption DEF SyncInv, SyncTypes, VerifierInv, VerifierTypes
<1>4. stage' = stage
  BY DEF Others, MigrateViews, RefreshByHand, Publish, Retire, Deploy, Drift,
         Migrate, vars
<1>5. /\ replica'.checkpoint = replica.checkpoint
      /\ replica'.digests = replica.digests
      /\ replica' = replica \/ drifts' # 0
      /\ drifts' = drifts \/ drifts' # 0
  <2>1. CASE Drift
    <3>1. drifts' = drifts + 1
      BY <2>1 DEF Drift
    <3>2. PICK t \in Timestamps, v \in Values \cup {0} :
              replica' = [replica EXCEPT !.rows[t] = v]
      BY <2>1 DEF Drift
    <3>3. replica = [rows |-> replica.rows, digests |-> replica.digests,
                     checkpoint |-> replica.checkpoint]
      BY <1>1 DEF SyncInv, SyncTypes
    <3> QED
      BY <1>3, <3>1, <3>2, <3>3
  <2>2. CASE ~Drift
    <3>1. replica' = replica /\ drifts' = drifts
      BY <2>2 DEF Others, MigrateViews, RefreshByHand, Publish, Retire, Deploy,
                  Migrate, vars, database, bounds
    <3> QED
      BY <3>1
  <2> QED
    BY <2>1, <2>2
<1>6. features' \in Rows /\ ViewIsFresh'
  <2>1. features' = features \/ features' = replica.rows
    BY DEF Others, MigrateViews, RefreshByHand
  <2> QED
    BY <1>3, <1>5, <2>1 DEF VerifierInv, ViewIsFresh
<1>7. Holding => LockFree'
  BY <1>4 DEF VerifierInv, OneHolder, LockFree, InTransaction
<1> QED
  BY <1>1, <1>2, <1>5, <1>6, <1>7, PublishedGrow, NothingMoves

LEMMA SyncStepKeeps ==
    ASSUME VerifierInv, NEW p \in Sessions, SyncStep(p)
    PROVE  VerifierInv'
<1>1. SyncInv /\ [Next]_vars /\ UNCHANGED verifier
  BY DEF VerifierInv, SyncStep, BeginLocked, CommitRows, Next, Sync
<1>2. SyncInv'
  BY <1>1, SyncPreserved
<1>3. CASE Select(p) \/ Prepare(p) \/ BeginLocked(p) \/ Apply(p)
  <2>1. UNCHANGED <<replica, drifts, features>>
    <3>1. UNCHANGED features \/ CommitRows(p)
      BY DEF SyncStep
    <3>2. stage[p] # "applied"
      BY <1>3 DEF Select, Prepare, BeginLocked, Begin, Apply
    <3> QED
      BY <1>3, <3>1, <3>2 DEF Select, Prepare, BeginLocked, Begin, Apply,
                              CommitRows, Commit, database, bounds
  <2>2. features' \in Rows /\ ViewIsFresh'
    BY <2>1 DEF VerifierInv, VerifierTypes, ViewIsFresh
  <2>3. Holding => LockFree'
    <3>1. stage \in [Sessions -> {"idle", "selected", "ready", "locked", "applied"}]
      BY <1>1 DEF SyncInv, SyncTypes
    <3>2. ASSUME Holding
          PROVE  \E next \in {"idle", "selected", "ready"} :
                     stage' = [stage EXCEPT ![p] = next] \/ stage' = stage
      BY <1>3, <3>2 DEF Select, Prepare, BeginLocked, Apply, Goto, End,
                        VerifierInv, OneHolder, LockFree, InTransaction
    <3> QED
      BY <3>1, <3>2 DEF VerifierInv, OneHolder, LockFree, InTransaction
  <2> QED
    BY <1>1, <1>2, <2>1, <2>2, <2>3, PublishedGrow, NothingMoves
<1>4. CASE CommitRows(p)
  <2>1. stage[p] = "applied"
    BY <1>4 DEF CommitRows, Commit
  <2>2. ~Holding
    BY <2>1 DEF VerifierInv, OneHolder, LockFree, InTransaction
  <2>3. features' \in Rows /\ ViewIsFresh'
    BY <1>4, CommitRefreshes
  <2> QED
    BY <1>1, <1>2, <2>2, <2>3, PublishedGrow, NothingMoves
<1> QED
  BY <1>3, <1>4 DEF SyncStep

-----------------------------------------------------------------------------
(* The verifier's own steps.                                               *)

\* Those that only read.
LEMMA ReadOnly ==
    ASSUME VerifierInv, UNCHANGED <<vars, features>>
    PROVE  /\ SyncInv' /\ ViewIsFresh' /\ features' \in Rows
           /\ Published' = Published /\ LockFree' = LockFree
           /\ replica' = replica /\ builds' = builds
<1>1. SyncInv'
  BY SyncPreserved DEF VerifierInv
<1>2. UNCHANGED <<builds, replica, stage, drifts, features>>
  BY DEF vars, lake, database, bounds
<1> QED
  BY <1>1, <1>2
  DEF VerifierInv, VerifierTypes, ViewIsFresh, Published, LockFree, InTransaction

\* A raised error counts, and is all that changes.
LEMMA RaisesKeeps ==
    ASSUME VerifierInv, VerifyRaises
    PROVE  VerifierInv'
<1>1. /\ UNCHANGED <<builds, kept, release, schema, replica, stage, chosen>>
      /\ UNCHANGED <<code, changed, edited, late, drifts, features, target, agrees>>
      /\ step' = "fail"
  BY DEF VerifyRaises, lake, database, locals, edits
<1>2. faults' \in 0 .. MaxFaults
  BY SyncAssumption DEF VerifyRaises, Raise, VerifierInv, SyncInv, SyncTypes
<1>3. /\ CheckpointNamesBuild' /\ SessionsChose' /\ LockedIsCompatible'
      /\ ReplicaIsOneBuild'
  BY <1>1, BuildsGrow DEF VerifierInv, Published
<1>5. Transactions'
  BY <1>1, OutsideTransactions DEF VerifierInv
<1>4. SyncInv'
  BY <1>1, <1>2, <1>3, <1>5 DEF VerifierInv, SyncInv, SyncTypes, Published
<1> QED
  BY <1>1, <1>4 DEF VerifierInv, VerifierTypes, OneHolder, FoundStays, Holding,
                    ViewIsFresh, Steps, Published

\* Before the lock nothing is claimed of the replica.
LEMMA BeforeLock ==
    ASSUME VerifierInv,
           SelectTarget \/ HashSource \/ InspectSchema \/ InspectFeatures
             \/ EndVerify
    PROVE  VerifierInv'
<1>1. UNCHANGED <<vars, features>>
  BY DEF SelectTarget, HashSource, InspectSchema, InspectFeatures, EndVerify, Report
<1>2. CASE step' = "fail" \/ step' = "idle"
  <2>1. target' \in {target, None} /\ agrees' \in {agrees, TRUE}
    BY <1>2 DEF SelectTarget, HashSource, InspectSchema, InspectFeatures,
                EndVerify, Report
  <2> QED
    BY <1>1, <1>2, <2>1, ReadOnly
    DEF VerifierInv, VerifierTypes, OneHolder, FoundStays, Holding, Steps
<1>3. CASE step' \in {"selected", "hashed", "schema", "lock"}
  <2>1. target' \in Published /\ agrees' \in BOOLEAN
    <3>1. CASE SelectTarget
      <4>1. Selectable /\ target' = Newest /\ agrees' = TRUE
        BY <1>3, <3>1 DEF SelectTarget, Report
      <4>2. /\ Published = 1 .. Len(builds) /\ Newest = Len(builds)
            /\ Len(builds) \in Nat
        BY PublishedIsInterval DEF VerifierInv, SyncInv, SyncTypes
      <4> QED
        BY <4>1, <4>2 DEF Selectable
    <3>2. CASE HashSource \/ InspectSchema \/ InspectFeatures
      BY <3>2 DEF HashSource, InspectSchema, InspectFeatures, VerifierInv,
                  VerifierTypes, FoundStays
    <3>3. CASE EndVerify
      BY <1>3, <3>3 DEF EndVerify, Report
    <3> QED
      BY <3>1, <3>2, <3>3
  <2> QED
    BY <1>1, <1>3, <2>1, ReadOnly
    DEF VerifierInv, VerifierTypes, OneHolder, FoundStays, Holding, Steps
<1> QED
  BY <1>2, <1>3 DEF SelectTarget, HashSource, InspectSchema, InspectFeatures,
                    EndVerify, Report

\* Under the lock every comparison that agrees holds from then on.
LEMMA UnderLock ==
    ASSUME VerifierInv, ReadState \/ ReadDigests \/ ReadRows \/ ReadSummary
    PROVE  VerifierInv'
<1>1. UNCHANGED <<vars, features, target>>
  BY DEF ReadState, ReadDigests, ReadRows, ReadSummary, Read
<1>2. target \in Published /\ LockFree /\ agrees \in BOOLEAN
  BY DEF VerifierInv, VerifierTypes, FoundStays, OneHolder, Holding, ReadState,
         ReadDigests, ReadRows, ReadSummary
<1>3. StateMatches' = StateMatches /\ Source' = Source
  BY <1>1, ReadOnly DEF StateMatches, Checkpoint, Source, Digests, Digest
<1>4. ASSUME step' \in {"digests", "rows", "summary", "pass", "fail"},
             agrees' \in BOOLEAN, FoundStays'
      PROVE  VerifierInv'
  BY <1>1, <1>2, <1>4, ReadOnly
  DEF VerifierInv, VerifierTypes, OneHolder, Holding, Steps
<1>5. CASE ReadState
  <2>1. step' = "digests" /\ agrees' = (agrees /\ StateMatches)
    BY <1>5 DEF ReadState, Read
  <2>2. FoundStays'
    BY <1>1, <1>2, <1>3, <2>1, ReadOnly DEF FoundStays, Holding
  <2> QED
    BY <1>2, <1>4, <2>1, <2>2
<1>6. CASE ReadDigests
  <2>1. /\ step = "digests" /\ step' = "rows"
        /\ agrees' = (agrees /\ replica.digests = Source)
    BY <1>6 DEF ReadDigests, Read
  <2>2. FoundStays'
    BY <1>1, <1>2, <1>3, <2>1, ReadOnly DEF FoundStays, Holding, VerifierInv
  <2> QED
    BY <1>2, <1>4, <2>1, <2>2
<1>7. CASE ReadRows
  <2>1. /\ step = "rows" /\ step' = "summary"
        /\ agrees' \in BOOLEAN
        /\ agrees' => agrees
    BY <1>2, <1>7 DEF ReadRows, Read
  <2>2. FoundStays'
    BY <1>1, <1>2, <1>3, <2>1, ReadOnly DEF FoundStays, Holding, VerifierInv
  <2> QED
    BY <1>2, <1>4, <2>1, <2>2
<1>8. CASE ReadSummary
  <2>1. /\ step = "summary" /\ step' \in {"pass", "fail"}
        /\ step' = "pass" => agrees
        /\ agrees' \in BOOLEAN
    BY <1>2, <1>8 DEF ReadSummary, Read
  <2>2. FoundStays'
    BY <1>1, <1>2, <1>3, <2>1, ReadOnly DEF FoundStays, Holding, VerifierInv
  <2> QED
    BY <1>2, <1>4, <2>1, <2>2
<1> QED
  BY <1>5, <1>6, <1>7, <1>8

-----------------------------------------------------------------------------
(* The theorems.                                                           *)

LEMMA VerifierStart == VerifierInit => VerifierInv
<1> SUFFICES ASSUME VerifierInit PROVE VerifierInv
  OBVIOUS
<1>1. SyncInv /\ replica.rows = NoRows /\ NoRows \in Rows
  BY SyncInit DEF VerifierInit, Init, Blank, NoRows, Rows
<1> QED
  BY <1>1 DEF VerifierInit, VerifierInv, VerifierTypes, OneHolder, FoundStays,
              Holding, ViewIsFresh, Steps

LEMMA VerifierPreserved == VerifierInv /\ [VerifierNext]_allVars => VerifierInv'
<1> SUFFICES ASSUME VerifierInv, [VerifierNext]_allVars PROVE VerifierInv'
  OBVIOUS
<1>1. CASE UNCHANGED allVars
  <2>1. UNCHANGED <<vars, features>> /\ UNCHANGED <<step, target, agrees>>
    BY <1>1 DEF allVars, verifier
  <2> QED
    BY <2>1, ReadOnly
    DEF VerifierInv, VerifierTypes, OneHolder, FoundStays, Holding,
        StateMatches, Checkpoint, Source, Digests, Digest
<1>2. CASE Verify
  BY <1>2, BeforeLock, UnderLock, RaisesKeeps DEF Verify
<1> QED
  BY <1>1, <1>2, OthersKeep, SyncStepKeeps, BeforeLock DEF VerifierNext

\* The lock is exclusive and what the verifier found stays true (verify).
THEOREM VerifierInvariance == VerifierSpec => []VerifierInv
BY VerifierStart, VerifierPreserved, PTL DEF VerifierSpec

\* A PASS means the replica is the selected build, and while nobody changes
\* rows by hand serving rows and feature view too (verify, run_locked).
THEOREM VerdictIsExact == VerifierSpec => []PassIsExact
<1>1. VerifierInv => PassIsExact
  <2> SUFFICES ASSUME VerifierInv, step = "pass"
               PROVE  /\ replica.checkpoint = Checkpoint(target)
                      /\ replica.digests = Source
                      /\ drifts = 0 => /\ replica.rows = builds[target].rows
                                       /\ features = replica.rows
    BY DEF PassIsExact
  <2>1. /\ replica.checkpoint = Checkpoint(target) /\ target \in Published
        /\ replica.digests = Source
    BY DEF VerifierInv, FoundStays, Holding, StateMatches
  <2>2. replica.checkpoint.build = target /\ replica.checkpoint.data = builds[target]
    BY <2>1 DEF Checkpoint
  <2>3. replica # Blank
    <3>1. Published = 1 .. Len(builds) /\ Len(builds) \in Nat
      BY PublishedIsInterval DEF VerifierInv, SyncInv, SyncTypes
    <3>2. Blank.checkpoint.build = 0
      BY DEF Blank, NoCheckpoint, None
    <3> QED
      BY <2>1, <2>2, <3>1, <3>2
  <2>4. ASSUME drifts = 0 PROVE replica.rows = builds[target].rows
    <3>1. \A t \in Timestamps : replica.rows[t] = builds[target].rows[t]
      BY <2>2, <2>3, <2>4
      DEF VerifierInv, SyncInv, ReplicaIsOneBuild, IsBuild, IsBuildBut
    <3>2. replica.rows \in Rows /\ builds[target].rows \in Rows
      BY <2>1, PublishedIsInterval DEF VerifierInv, SyncInv, SyncTypes, Contents
    <3> QED
      BY <3>1, <3>2 DEF Rows
  <2> QED
    BY <2>1, <2>4 DEF VerifierInv, ViewIsFresh
<1> QED
  BY <1>1, VerifierInvariance, PTL
=============================================================================
