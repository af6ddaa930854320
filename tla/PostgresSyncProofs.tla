------------------------ MODULE PostgresSyncProofs ------------------------
(***************************************************************************)
(* Proofs about the synchronization, for any number of sessions, builds,   *)
(* releases, faults and rows changed by hand.  A commit is exact because   *)
(* it verifies what it wrote; versions never go back because the decision  *)
(* taken under the advisory lock stays true until the commit.  That lock   *)
(* keeps nobody from changing rows by hand: what a transaction has read or *)
(* verified stays true of the rows nobody changed since.                   *)
(***************************************************************************)
EXTENDS PostgresSync, FiniteSetTheorems, SequenceTheorems,
        WellFoundedInduction, TLAPS

\* The digests any release may write.
AnyDigest == {Digest(v, x) : v \in Releases, x \in Values \cup {0}}

\* The checkpoint is absent or names a published build by its contents.
CheckpointNamesBuild ==
    replica.checkpoint \in {NoCheckpoint} \cup {Checkpoint(b) : b \in Published}

\* Types, with the build list as a sequence and the replica as a record.
SyncTypes ==
    /\ builds \in Seq(Contents) /\ Len(builds) <= MaxBuilds
    /\ kept \subseteq Published
    /\ release \in Releases /\ schema \in Releases
    /\ replica = [rows |-> replica.rows, digests |-> replica.digests,
                  checkpoint |-> replica.checkpoint]
    /\ replica.rows \in Rows
    /\ replica.digests \in [Timestamps -> AnyDigest]
    /\ CheckpointNamesBuild
    /\ stage \in [Sessions -> {"idle", "selected", "ready", "locked", "applied"}]
    /\ chosen \in [Sessions -> Builds \cup {None}]
    /\ code \in [Sessions -> Releases]
    /\ changed \in [Sessions -> SUBSET Timestamps]
    /\ edited \subseteq Timestamps /\ late \subseteq edited
    /\ faults \in 0 .. MaxFaults
    /\ drifts \in 0 .. MaxDrifts

\* A started session runs the release its build was made for.
SessionsChose ==
    \A p \in Sessions :
        stage[p] # "idle" =>
            /\ chosen[p] \in Published
            /\ code[p] = builds[chosen[p]].version

\* Under the advisory lock: one session, and what it found compatible still is.
LockedIsCompatible ==
    /\ \A p \in Sessions : InTransaction(p) => Compatible(code[p])
    /\ \A p, q \in Sessions : InTransaction(p) /\ InTransaction(q) => p = q

\* Rows count as changed by hand only while a transaction is open.
EditsNeedTransaction ==
    /\ LockFree => edited = {}
    /\ (\A p \in Sessions : stage[p] # "applied") => late = {}
    /\ drifts = 0 => edited = {}

\* But for rows changed since it read them, a transaction that is no upgrade
\* still finds the rows the digests were taken of.
ReadStays ==
    \A p \in Sessions :
        InTransaction(p) /\ Bootstrapped /\ ~Upgrade(code[p]) =>
            \A t \in Timestamps \ edited : ~Drifted(t)

\* What the transaction of a session would commit is the build it has chosen,
\* but for the rows in late.
Writes(p) ==
    LET new == Applied(chosen[p], changed[p])
    IN  /\ new.digests = Digests(builds[chosen[p]].version, builds[chosen[p]].rows)
        /\ \A t \in Timestamps \ late : new.rows[t] = builds[chosen[p]].rows[t]

\* What apply_delta has verified is still so.
WritesStay == \A p \in Sessions : stage[p] = "applied" => Writes(p)

Transactions == EditsNeedTransaction /\ ReadStays /\ WritesStay

\* The inductive invariant.
SyncInv ==
    /\ SyncTypes /\ SessionsChose /\ LockedIsCompatible /\ Transactions
    /\ ReplicaIsOneBuild

-----------------------------------------------------------------------------
(* Digests, builds and releases.                                           *)

\* gold_row_sha256 tells the values of one layout apart, and no row from any.
LEMMA DigestInjective ==
    ASSUME NEW v, NEW x, NEW y, Digest(v, x) = Digest(v, y)
    PROVE  x = y
BY DEF Digest

\* Equal digests of one version mean equal rows.
LEMMA DigestsInjective ==
    ASSUME NEW v, NEW r \in Rows, NEW s \in Rows,
           Digests(v, r) = Digests(v, s)
    PROVE  r = s
<1>1. ASSUME NEW t \in Timestamps PROVE r[t] = s[t]
  <2>1. Digests(v, r)[t] = Digests(v, s)[t]
    OBVIOUS
  <2>2. Digest(v, r[t]) = Digest(v, s[t])
    BY <2>1 DEF Digests
  <2> QED
    BY <2>2, DigestInjective
<1> QED
  BY <1>1 DEF Rows

\* The published builds are the indexes of the list.
LEMMA PublishedIsInterval ==
    ASSUME builds \in Seq(Contents)
    PROVE  /\ Published = 1 .. Len(builds)
           /\ Newest = Len(builds)
           /\ Len(builds) \in Nat
           /\ \A b \in Published : builds[b] \in Contents
<1>1. Published = 1 .. Len(builds) /\ Len(builds) \in Nat
  BY LenProperties DEF Published
<1>2. Cardinality(1 .. Len(builds)) = Len(builds)
  BY <1>1, FS_Interval
<1> QED
  BY <1>1, <1>2, ElementOfSeq DEF Newest

\* There is an oldest release.
LEMMA OldestRelease == Oldest \in Releases
<1> DEFINE Less == OpToRel(<, Nat)
<1>1. Releases \subseteq Nat /\ Releases # {}
  BY SyncAssumption
<1>2. PICK r \in Releases : \A other \in Releases : <<other, r>> \notin Less
  <2> HIDE DEF Less
  <2>1. IsWellFoundedOn(Less, Nat)
    BY NatLessThanWellFounded DEF Less
  <2> QED
    BY <1>1, <2>1, WFMin
<1>3. ASSUME NEW other \in Releases PROVE r <= other
  <2>1. <<other, r>> \in Nat \X Nat /\ <<other, r>> \notin Less
    BY <1>1, <1>2
  <2>2. ~(other < r)
    BY <2>1 DEF OpToRel, Less
  <2> QED
    BY <1>1, <2>2
<1> QED
  BY <1>3 DEF Oldest

-----------------------------------------------------------------------------
(* The inductive step, action by action.                                   *)

\* Builds are only added: what replica and sessions refer to stays.
LEMMA BuildsGrow ==
    ASSUME SyncInv,
           Published \subseteq Published',
           \A b \in Published : builds'[b] = builds[b],
           UNCHANGED <<replica, stage, chosen, code, drifts>>
    PROVE  /\ CheckpointNamesBuild' /\ SessionsChose' /\ LockedIsCompatible'
           /\ ReplicaIsOneBuild'
<1> USE DEF SyncInv
<1>1. \A b \in Published : Checkpoint(b)' = Checkpoint(b)
  BY DEF Checkpoint
<1>2. CheckpointNamesBuild'
  BY <1>1 DEF SyncTypes, CheckpointNamesBuild, NoCheckpoint
<1>3. SessionsChose'
  BY DEF SessionsChose
<1>4. LockedIsCompatible'
  BY DEF LockedIsCompatible, InTransaction, Compatible, Bootstrapped, NoCheckpoint
<1>5. ReplicaIsOneBuild'
  BY DEF ReplicaIsOneBuild, IsBuild, IsBuildBut, Blank, NoRows, NoCheckpoint, Digests, Digest
<1> QED
  BY <1>2, <1>3, <1>4, <1>5

\* A step outside of transactions leaves what is known of an open one.
LEMMA OutsideTransactions ==
    ASSUME SyncInv,
           \A b \in Published : builds'[b] = builds[b],
           UNCHANGED <<replica, edited, late, drifts>>,
           \A p \in Sessions :
               InTransaction(p) \/ InTransaction(p)' =>
                   UNCHANGED <<stage[p], chosen[p], code[p], changed[p]>>
    PROVE  Transactions'
<1> USE DEF SyncInv, Transactions
<1>1. \A p \in Sessions : InTransaction(p)' <=> InTransaction(p)
  BY DEF InTransaction
<1>2. EditsNeedTransaction'
  <2>1. LockFree' <=> LockFree
    BY <1>1 DEF LockFree
  <2>2. \A p \in Sessions : stage'[p] = "applied" <=> stage[p] = "applied"
    BY DEF InTransaction
  <2> QED
    BY <2>1, <2>2 DEF EditsNeedTransaction
<1>3. ReadStays'
  <2>1. \A t \in Timestamps : Drifted(t)' <=> Drifted(t)
    BY DEF Drifted, Bootstrapped, NoCheckpoint, Digest
  <2>2. \A p \in Sessions : InTransaction(p) => (Upgrade(code[p])' <=> Upgrade(code[p]))
    BY DEF Upgrade, Bootstrapped, NoCheckpoint
  <2>3. Bootstrapped' <=> Bootstrapped
    BY DEF Bootstrapped, NoCheckpoint
  <2> QED
    BY <1>1, <2>1, <2>2, <2>3 DEF ReadStays
<1>4. WritesStay'
  <2> SUFFICES ASSUME NEW p \in Sessions, stage'[p] = "applied" PROVE Writes(p)'
    BY DEF WritesStay
  <2>1. /\ stage[p] = "applied" /\ chosen'[p] = chosen[p] /\ changed'[p] = changed[p]
        /\ chosen[p] \in Published
    BY DEF InTransaction, SessionsChose
  <2>2. builds'[chosen'[p]] = builds[chosen[p]]
    BY <2>1
  <2>3. Applied(chosen[p], changed[p])' = Applied(chosen[p], changed[p])
    BY <2>1, <2>2 DEF Applied, Checkpoint, Digest
  <2>4. Writes(p)
    BY <2>1 DEF WritesStay
  <2> QED
    BY <2>2, <2>3, <2>4 DEF Writes, Digests, Digest
<1> QED
  BY <1>2, <1>3, <1>4

LEMMA PublishStep ==
    ASSUME SyncInv, Publish
    PROVE  SyncInv'
<1> USE DEF SyncInv
<1>1. PICK content \in Contents : builds' = Append(builds, content)
  BY DEF Publish
<1>2. /\ builds \in Seq(Contents)
      /\ Published = 1 .. Len(builds) /\ Newest = Len(builds) /\ Len(builds) \in Nat
  BY PublishedIsInterval DEF SyncTypes
<1>3. /\ builds' \in Seq(Contents)
      /\ Len(builds') = Len(builds) + 1
      /\ \A b \in 1 .. Len(builds) : builds'[b] = builds[b]
  BY <1>1, <1>2, AppendProperties
<1>4. Published' = 1 .. Len(builds) + 1
  BY <1>3, LenProperties DEF Published
<1>5. Published \subseteq Published'
  BY <1>2, <1>4
<1>6. UNCHANGED <<replica, stage, chosen, code, drifts>>
  BY DEF Publish, database, locals, bounds
<1>7. /\ CheckpointNamesBuild' /\ SessionsChose' /\ LockedIsCompatible'
      /\ ReplicaIsOneBuild'
  BY <1>2, <1>3, <1>5, <1>6, BuildsGrow
<1>10. Transactions'
  BY <1>2, <1>3, <1>6, OutsideTransactions DEF Publish, locals, edits, bounds
<1>8. Len(builds') <= MaxBuilds
  BY <1>2, <1>3, SyncAssumption DEF Publish
<1>9. kept' \subseteq Published'
  BY <1>2, <1>4 DEF Publish, SyncTypes
<1> QED
  BY <1>3, <1>7, <1>8, <1>9, <1>10
  DEF Publish, database, locals, edits, bounds, SyncTypes

LEMMA OthersStep ==
    ASSUME SyncInv, Retire \/ Deploy \/ Migrate
    PROVE  SyncInv'
<1> USE DEF SyncInv
<1>1. /\ UNCHANGED <<builds, replica, stage, chosen, code, changed>>
      /\ UNCHANGED <<edited, late, faults, drifts>>
  BY DEF Retire, Deploy, Migrate, lake, database, locals, edits, bounds
<1>2. /\ CheckpointNamesBuild' /\ SessionsChose' /\ LockedIsCompatible'
      /\ ReplicaIsOneBuild'
  BY <1>1, BuildsGrow DEF Published
<1>3. /\ kept' \subseteq Published'
      /\ release' \in Releases /\ schema' \in Releases
  BY <1>1 DEF Retire, Deploy, Migrate, lake, database, SyncTypes, Published
<1>4. Transactions'
  BY <1>1, OutsideTransactions
<1> QED
  BY <1>1, <1>2, <1>3, <1>4 DEF SyncTypes

\* A row changed by hand leaves index and checkpoint as they are, and what a
\* transaction knows of all the other rows.
LEMMA DriftStep ==
    ASSUME SyncInv, Drift
    PROVE  SyncInv'
<1> USE DEF SyncInv
<1>1. PICK t \in Timestamps, v \in Values \cup {0} :
          /\ replica' = [replica EXCEPT !.rows[t] = v]
          /\ edited' = IF LockFree THEN edited ELSE edited \cup {t}
          /\ late' = IF \E p \in Sessions : stage[p] = "applied"
                     THEN late \cup {t} ELSE late
  BY DEF Drift
<1>2. /\ replica'.checkpoint = replica.checkpoint
      /\ replica'.digests = replica.digests
      /\ replica'.rows = [replica.rows EXCEPT ![t] = v]
      /\ replica' = [rows |-> replica'.rows, digests |-> replica'.digests,
                     checkpoint |-> replica'.checkpoint]
  BY <1>1 DEF SyncTypes
<1>3. replica'.rows \in Rows /\ \A u \in Timestamps \ {t} : replica'.rows[u] = replica.rows[u]
  BY <1>2 DEF SyncTypes, Rows
<1>4. UNCHANGED <<builds, kept, release, schema, stage, chosen, code, changed, faults>>
  BY DEF Drift, lake, locals
<1>5. drifts' \in 0 .. MaxDrifts /\ drifts' # 0
  BY SyncAssumption DEF Drift, SyncTypes
<1>6. CheckpointNamesBuild'
  BY <1>2, <1>4 DEF SyncTypes, CheckpointNamesBuild, Checkpoint, Published
<1>7. (\E p \in Sessions : stage[p] = "applied") => ~LockFree
  BY DEF LockFree, InTransaction
<1>8. edited' \subseteq Timestamps /\ late' \subseteq edited'
  BY <1>1, <1>7 DEF SyncTypes
<1>9. SyncTypes'
  BY <1>2, <1>3, <1>4, <1>5, <1>6, <1>8 DEF SyncTypes, Published
<1>10. SessionsChose' /\ LockedIsCompatible'
  BY <1>2, <1>4 DEF SessionsChose, LockedIsCompatible, InTransaction, Compatible,
                    Bootstrapped, Published
<1>11. ReplicaIsOneBuild'
  BY <1>5 DEF ReplicaIsOneBuild
<1>12. EditsNeedTransaction'
  BY <1>1, <1>4, <1>5 DEF Transactions, EditsNeedTransaction, LockFree, InTransaction
<1>13. ReadStays'
  <2> SUFFICES ASSUME NEW p \in Sessions, InTransaction(p)', Bootstrapped',
                      ~Upgrade(code[p])', NEW u \in Timestamps \ edited'
               PROVE  ~Drifted(u)'
    BY DEF ReadStays
  <2>1. InTransaction(p) /\ Bootstrapped /\ ~Upgrade(code[p])
    BY <1>2, <1>4 DEF InTransaction, Bootstrapped, NoCheckpoint, Upgrade
  <2>2. u # t /\ u \notin edited
    BY <1>1, <2>1 DEF LockFree
  <2>3. ~Drifted(u)
    BY <2>1, <2>2 DEF Transactions, ReadStays
  <2> QED
    BY <1>2, <1>3, <2>2, <2>3 DEF Drifted, Bootstrapped, NoCheckpoint, Digest
<1>14. WritesStay'
  <2> SUFFICES ASSUME NEW p \in Sessions, stage'[p] = "applied" PROVE Writes(p)'
    BY DEF WritesStay
  <2>1. stage[p] = "applied" /\ late' = late \cup {t}
    BY <1>1, <1>4
  <2>2. Writes(p)
    BY <2>1 DEF Transactions, WritesStay
  <2> DEFINE old == Applied(chosen[p], changed[p])
             new == Applied(chosen[p], changed[p])'
  <2>3. new.digests = old.digests
    BY <1>2, <1>4 DEF Applied, Digest
  <2>4. \A u \in Timestamps \ late' : new.rows[u] = old.rows[u]
    BY <1>3, <1>4, <2>1 DEF Applied
  <2>5. Timestamps \ late' \subseteq Timestamps \ late
    BY <2>1
  <2> HIDE DEF old, new
  <2>6. /\ new.digests = Digests(builds[chosen[p]].version, builds[chosen[p]].rows)
        /\ \A u \in Timestamps \ late' : new.rows[u] = builds[chosen[p]].rows[u]
    BY <2>2, <2>3, <2>4, <2>5 DEF Writes, old
  <2> QED
    BY <1>4, <2>6 DEF Writes, Digests, Digest, new
<1> QED
  BY <1>9, <1>10, <1>11, <1>12, <1>13, <1>14 DEF Transactions

\* Where a session stands after a step of its own.
SessionTypes ==
    /\ stage \in [Sessions -> {"idle", "selected", "ready", "locked", "applied"}]
    /\ chosen \in [Sessions -> Builds \cup {None}]
    /\ code \in [Sessions -> Releases]
    /\ changed \in [Sessions -> SUBSET Timestamps]

\* A session that ends, after its commit or without one, disturbs no other.
LEMMA EndStep ==
    ASSUME SyncInv, NEW p \in Sessions, End(p), builds' = builds,
           replica' = replica \/ InTransaction(p)
    PROVE  SessionTypes' /\ SessionsChose' /\ LockedIsCompatible'
<1> USE DEF SyncInv
<1>1. /\ stage' = [stage EXCEPT ![p] = "idle"]
      /\ chosen' = [chosen EXCEPT ![p] = None]
      /\ code' = [code EXCEPT ![p] = Oldest]
      /\ changed' = [changed EXCEPT ![p] = {}]
  BY DEF End, Goto
<1>2. SessionTypes'
  BY <1>1, OldestRelease DEF SyncTypes, SessionTypes
<1>3. SessionsChose'
  BY <1>1 DEF SessionsChose, SyncTypes, Published
<1>4. LockedIsCompatible'
  BY <1>1 DEF LockedIsCompatible, InTransaction, SyncTypes, Compatible, Bootstrapped
<1> QED
  BY <1>2, <1>3, <1>4

\* After a transaction nothing is known of rows, and nothing needs to be.
LEMMA TransactionEnds ==
    ASSUME SyncInv, NEW p \in Sessions, InTransaction(p), EndTransaction(p)
    PROVE  Transactions' /\ edited' = {} /\ late' = {}
<1>1. edited' = {} /\ late' = {} /\ stage' = [stage EXCEPT ![p] = "idle"]
  BY DEF EndTransaction, End, Goto
<1>2. \A q \in Sessions : ~InTransaction(q)'
  BY <1>1 DEF SyncInv, SyncTypes, LockedIsCompatible, InTransaction
<1>3. \A q \in Sessions : stage'[q] # "applied"
  BY <1>2 DEF InTransaction
<1> QED
  BY <1>1, <1>2, <1>3
  DEF Transactions, EditsNeedTransaction, ReadStays, WritesStay

LEMMA SelectStep ==
    ASSUME SyncInv, NEW p \in Sessions, Select(p)
    PROVE  SyncInv'
<1> USE DEF SyncInv
<1>1. /\ UNCHANGED <<builds, kept, release, schema, replica, changed, faults, drifts>>
      /\ UNCHANGED <<edited, late>>
      /\ stage[p] = "idle"
  BY DEF Select, lake, database, edits, bounds
<1>2. ReplicaIsOneBuild' /\ CheckpointNamesBuild'
  BY <1>1 DEF ReplicaIsOneBuild, IsBuild, IsBuildBut, Published, SyncTypes,
              CheckpointNamesBuild, Checkpoint
<1>3. CASE Selectable
  <2>1. /\ stage' = [stage EXCEPT ![p] = "selected"]
        /\ chosen' = [chosen EXCEPT ![p] = Newest]
        /\ code' = [code EXCEPT ![p] = release]
    BY <1>3 DEF Select, Goto
  <2>2. Newest \in Published /\ Newest \in Builds
    BY <1>3, PublishedIsInterval, SyncAssumption DEF Selectable, SyncTypes, Builds
  <2>3. builds[Newest].version = release
    BY <1>3 DEF Selectable
  <2>4. SyncTypes'
    BY <1>1, <1>2, <2>1, <2>2 DEF SyncTypes, Published
  <2>5. SessionsChose'
    BY <1>1, <2>1, <2>2, <2>3 DEF SessionsChose, SyncTypes, Published
  <2>6. LockedIsCompatible'
    BY <1>1, <2>1 DEF LockedIsCompatible, InTransaction, SyncTypes, Compatible, Bootstrapped
  <2>7. Transactions'
    BY <1>1, <2>1, OutsideTransactions DEF InTransaction, SyncTypes
  <2> QED
    BY <1>2, <2>4, <2>5, <2>6, <2>7
<1>4. CASE ~Selectable
  <2>1. UNCHANGED <<stage, chosen, code>>
    BY <1>4 DEF Select
  <2>2. Transactions'
    BY <1>1, <2>1, OutsideTransactions
  <2> QED
    BY <1>1, <1>2, <2>1, <2>2
    DEF SyncTypes, SessionsChose, LockedIsCompatible, InTransaction, Compatible,
        Bootstrapped, Published
<1> QED
  BY <1>3, <1>4

LEMMA PrepareStep ==
    ASSUME SyncInv, NEW p \in Sessions, Prepare(p)
    PROVE  SyncInv'
<1> USE DEF SyncInv
<1>1. /\ UNCHANGED <<builds, kept, release, schema, replica, drifts>>
      /\ UNCHANGED <<edited, late>>
      /\ stage[p] = "selected"
      /\ faults' \in 0 .. MaxFaults
  BY SyncAssumption DEF Prepare, lake, database, edits, Raise, SyncTypes
<1>2. ReplicaIsOneBuild' /\ CheckpointNamesBuild'
  BY <1>1 DEF ReplicaIsOneBuild, IsBuild, IsBuildBut, Published, SyncTypes,
              CheckpointNamesBuild, Checkpoint
<1>3. CASE Goto(p, "ready") /\ UNCHANGED locals
  <2>1. Transactions'
    BY <1>1, <1>3, OutsideTransactions DEF Goto, locals, InTransaction, SyncTypes
  <2> QED
    BY <1>1, <1>2, <1>3, <2>1
    DEF Goto, locals, SyncTypes, SessionsChose, LockedIsCompatible, InTransaction,
        Compatible, Bootstrapped, Published
<1>4. CASE End(p)
  <2>1. Transactions'
    BY <1>1, <1>4, OutsideTransactions DEF End, Goto, InTransaction, SyncTypes
  <2> QED
    BY <1>1, <1>2, <1>4, <2>1, EndStep DEF SyncTypes, SessionTypes, Published
<1> QED
  BY <1>3, <1>4 DEF Prepare

\* What is compatible and no upgrade is of the version of the checkpoint.
LEMMA NotUpgraded ==
    ASSUME SyncInv, NEW p \in Sessions, Bootstrapped, Compatible(code[p]),
           ~Upgrade(code[p])
    PROVE  code[p] = replica.checkpoint.data.version
<1>1. PICK old \in Published : replica.checkpoint = Checkpoint(old)
  BY DEF Bootstrapped, SyncInv, SyncTypes, CheckpointNamesBuild
<1>2. \A b \in Published : builds[b].version \in Nat
  BY PublishedIsInterval, SyncAssumption DEF SyncInv, SyncTypes, Contents
<1>3. replica.checkpoint.data.version \in Nat /\ code[p] \in Nat
  BY <1>1, <1>2, SyncAssumption DEF Checkpoint, SyncInv, SyncTypes
<1> QED
  BY <1>3 DEF Compatible, Upgrade

LEMMA BeginStep ==
    ASSUME SyncInv, NEW p \in Sessions, Begin(p)
    PROVE  SyncInv'
<1> USE DEF SyncInv
<1>1. /\ UNCHANGED <<builds, kept, release, schema, replica, drifts>>
      /\ UNCHANGED <<edited, late>>
      /\ stage[p] = "ready" /\ LockFree
      /\ faults' \in 0 .. MaxFaults
  BY SyncAssumption DEF Begin, lake, database, edits, Raise, SyncTypes
<1>2. ReplicaIsOneBuild' /\ CheckpointNamesBuild'
  BY <1>1 DEF ReplicaIsOneBuild, IsBuild, IsBuildBut, Published, SyncTypes,
              CheckpointNamesBuild, Checkpoint
<1>3. CASE /\ Compatible(code[p]) /\ Trusted(code[p])
           /\ Goto(p, "locked")
           /\ changed' = [changed EXCEPT ![p] = Delta(chosen[p])]
           /\ UNCHANGED <<chosen, code>>
  <2>1. Delta(chosen[p]) \in SUBSET Timestamps
    BY DEF Delta
  <2>2. SyncTypes'
    BY <1>1, <1>2, <1>3, <2>1 DEF Goto, SyncTypes, Published
  <2>3. SessionsChose'
    BY <1>1, <1>3 DEF Goto, SyncTypes, SessionsChose, Published
  <2>4. LockedIsCompatible'
    BY <1>1, <1>3
    DEF Goto, SyncTypes, LockedIsCompatible, InTransaction, LockFree, Compatible,
        Bootstrapped
  <2>5. stage' = [stage EXCEPT ![p] = "locked"]
    BY <1>3 DEF Goto
  <2>6. InTransaction(p)' /\ \A q \in Sessions : InTransaction(q)' => q = p
    BY <1>1, <2>5 DEF InTransaction, LockFree, SyncTypes
  <2>7. edited' = {} /\ late' = {} /\ \A q \in Sessions : stage'[q] # "applied"
    BY <1>1, <2>5
    DEF Transactions, EditsNeedTransaction, LockFree, InTransaction, SyncTypes
  <2>8. ReadStays'
    <3> SUFFICES ASSUME Bootstrapped, ~Upgrade(code[p]), NEW t \in Timestamps
                 PROVE  ~Drifted(t)
      BY <1>1, <1>3, <2>6
      DEF ReadStays, Drifted, Bootstrapped, NoCheckpoint, Upgrade, Digest
    <3>1. replica.digests = Digests(code[p], replica.rows)
      BY <1>3 DEF Trusted
    <3>2. code[p] = replica.checkpoint.data.version
      BY <1>3, NotUpgraded
    <3> QED
      BY <3>1, <3>2 DEF Drifted, Digests
  <2>9. Transactions'
    BY <2>6, <2>7, <2>8
    DEF Transactions, EditsNeedTransaction, WritesStay, LockFree
  <2> QED
    BY <1>2, <2>2, <2>3, <2>4, <2>9
<1>4. CASE End(p)
  <2>1. Transactions'
    BY <1>1, <1>4, OutsideTransactions DEF End, Goto, InTransaction, SyncTypes
  <2> QED
    BY <1>1, <1>2, <1>4, <2>1, EndStep DEF SyncTypes, SessionTypes, Published
<1> QED
  BY <1>3, <1>4 DEF Begin

\* The rows and digests a transaction sees are of their types.
LEMMA AppliedTypes ==
    ASSUME SyncInv, NEW b \in Published, NEW delta \in SUBSET Timestamps
    PROVE  /\ Applied(b, delta).rows \in Rows
           /\ Applied(b, delta).digests \in [Timestamps -> AnyDigest]
           /\ Applied(b, delta).checkpoint = Checkpoint(b)
           /\ builds[b].rows \in Rows
<1>1. builds[b] \in Contents
  BY PublishedIsInterval DEF SyncInv, SyncTypes
<1>2. builds[b].rows \in Rows /\ builds[b].version \in Releases
  BY <1>1 DEF Contents
<1>3. Applied(b, delta).rows \in Rows
  BY <1>2 DEF Applied, SyncInv, SyncTypes, Rows
<1>4. \A t \in Timestamps : Digest(builds[b].version, builds[b].rows[t]) \in AnyDigest
  BY <1>2 DEF AnyDigest, Rows
<1>5. Applied(b, delta).digests \in [Timestamps -> AnyDigest]
  BY <1>4 DEF Applied, SyncInv, SyncTypes
<1> QED
  BY <1>2, <1>3, <1>5 DEF Applied

\* A transaction that passed its checks holds the build, whatever its delta.
LEMMA VerifiedIsBuild ==
    ASSUME SyncInv, NEW p \in Sessions, chosen[p] \in Published,
           changed[p] \in SUBSET Timestamps,
           Verified(chosen[p], Applied(chosen[p], changed[p]))
    PROVE  Writes(p)
<1> DEFINE b == chosen[p]
           new == Applied(b, changed[p])
<1>1. new.rows \in Rows /\ builds[b].rows \in Rows
  BY AppliedTypes
<1>2. new.digests = Digests(builds[b].version, builds[b].rows)
  BY DEF Verified
<1>3. Digests(builds[b].version, new.rows)
        = Digests(builds[b].version, builds[b].rows)
  BY DEF Verified
<1> HIDE DEF new
<1>4. new.rows = builds[b].rows
  BY <1>1, <1>3, DigestsInjective
<1> QED
  BY <1>2, <1>4 DEF Writes, new

\* apply_delta writes nothing others can see.
LEMMA ApplyStep ==
    ASSUME SyncInv, NEW p \in Sessions, Apply(p)
    PROVE  SyncInv'
<1> USE DEF SyncInv
<1>1. /\ UNCHANGED <<builds, kept, release, schema, replica, drifts>>
      /\ stage[p] = "locked" /\ InTransaction(p)
      /\ faults' \in 0 .. MaxFaults
  BY SyncAssumption DEF Apply, lake, database, Raise, SyncTypes, InTransaction
<1>2. ReplicaIsOneBuild' /\ CheckpointNamesBuild'
  BY <1>1 DEF ReplicaIsOneBuild, IsBuild, IsBuildBut, Published, SyncTypes,
              CheckpointNamesBuild, Checkpoint
<1>3. CASE /\ Verified(chosen[p], Applied(chosen[p], changed[p]))
           /\ Goto(p, "applied") /\ UNCHANGED <<locals, edits>>
  <2>1. /\ stage' = [stage EXCEPT ![p] = "applied"]
        /\ UNCHANGED <<chosen, code, changed, edited, late>>
    BY <1>3 DEF Goto, locals, edits
  <2>2. SyncTypes' /\ SessionsChose'
    BY <1>1, <1>2, <2>1 DEF SyncTypes, SessionsChose, Published
  <2>3. \A q \in Sessions : InTransaction(q)' <=> InTransaction(q)
    BY <1>1, <2>1 DEF SyncTypes, InTransaction
  <2>4. LockedIsCompatible'
    BY <1>1, <2>1, <2>3 DEF LockedIsCompatible, Compatible, Bootstrapped, NoCheckpoint
  <2>5. \A q \in Sessions : InTransaction(q) => q = p
    BY <1>1 DEF LockedIsCompatible
  <2>6. EditsNeedTransaction'
    <3>1. LockFree' <=> LockFree
      BY <2>3 DEF LockFree
    <3>2. \A q \in Sessions : stage[q] # "applied"
      BY <1>1, <2>5 DEF InTransaction
    <3> QED
      BY <1>1, <2>1, <3>1, <3>2 DEF Transactions, EditsNeedTransaction
  <2>7. ReadStays'
    BY <1>1, <2>1, <2>3
    DEF Transactions, ReadStays, Drifted, Bootstrapped, NoCheckpoint, Upgrade, Digest
  <2>8. Writes(p)
    BY <1>1, <1>3, VerifiedIsBuild DEF SessionsChose, SyncTypes
  <2>9. Writes(p)'
    BY <1>1, <2>1, <2>8 DEF Writes, Applied, Checkpoint, Digests, Digest
  <2>10. WritesStay'
    BY <2>3, <2>5, <2>9 DEF WritesStay, InTransaction
  <2> QED
    BY <1>2, <2>2, <2>4, <2>6, <2>7, <2>10 DEF Transactions
<1>4. CASE EndTransaction(p)
  <2>1. SessionTypes' /\ SessionsChose' /\ LockedIsCompatible'
    BY <1>1, <1>4, EndStep DEF EndTransaction
  <2>2. Transactions' /\ edited' = {} /\ late' = {}
    BY <1>1, <1>4, TransactionEnds
  <2> QED
    BY <1>1, <1>2, <2>1, <2>2 DEF SyncTypes, SessionTypes, Published
<1> QED
  BY <1>3, <1>4 DEF Apply

\* What a commit makes of the replica.
LEMMA CommitOutcome ==
    ASSUME SyncInv, NEW p \in Sessions, Commit(p)
    PROVE  \/ replica' = replica
           \/ /\ replica' = Applied(chosen[p], changed[p])
              /\ IsBuildBut(replica', late)
              /\ replica'.checkpoint = Checkpoint(chosen[p])
              /\ replica'.rows \in Rows
              /\ replica'.digests \in [Timestamps -> AnyDigest]
<1>1. stage[p] = "applied"
  BY DEF Commit
<1>2. chosen[p] \in Published /\ changed[p] \in SUBSET Timestamps
  BY <1>1 DEF SyncInv, SessionsChose, SyncTypes
<1>3. Writes(p)
  BY <1>1 DEF SyncInv, Transactions, WritesStay
<1>4. CASE replica' = Applied(chosen[p], changed[p])
  <2>1. /\ replica'.checkpoint = Checkpoint(chosen[p])
        /\ replica'.rows \in Rows
        /\ replica'.digests \in [Timestamps -> AnyDigest]
    BY <1>2, <1>4, AppliedTypes
  <2>2. /\ replica'.checkpoint.build = chosen[p]
        /\ replica'.checkpoint.data = builds[chosen[p]]
    BY <2>1 DEF Checkpoint
  <2>3. IsBuildBut(replica', late)
    BY <1>2, <1>3, <1>4, <2>2 DEF Writes, IsBuildBut
  <2> QED
    BY <1>4, <2>1, <2>3
<1> QED
  BY <1>4 DEF Commit

LEMMA CommitStep ==
    ASSUME SyncInv, NEW p \in Sessions, Commit(p)
    PROVE  SyncInv'
<1> USE DEF SyncInv
<1>1. /\ UNCHANGED <<builds, kept, release, schema, drifts>>
      /\ stage[p] = "applied" /\ InTransaction(p) /\ EndTransaction(p) /\ End(p)
      /\ faults' \in 0 .. MaxFaults
  BY SyncAssumption
  DEF Commit, lake, Raise, SyncTypes, InTransaction, EndTransaction
<1>2. SessionTypes' /\ SessionsChose' /\ LockedIsCompatible'
  BY <1>1, EndStep
<1>3. Transactions' /\ edited' = {} /\ late' = {}
  BY <1>1, TransactionEnds
<1>4. CASE replica' = replica
  BY <1>1, <1>2, <1>3, <1>4
  DEF SyncTypes, SessionTypes, Published, CheckpointNamesBuild, Checkpoint,
      ReplicaIsOneBuild, IsBuild, IsBuildBut
<1>5. CASE /\ replica' = Applied(chosen[p], changed[p])
           /\ IsBuildBut(replica', late)
           /\ replica'.checkpoint = Checkpoint(chosen[p])
           /\ replica'.rows \in Rows
           /\ replica'.digests \in [Timestamps -> AnyDigest]
  <2>1. chosen[p] \in Published
    BY <1>1 DEF SessionsChose
  <2>2. CheckpointNamesBuild'
    BY <1>1, <1>5, <2>1 DEF CheckpointNamesBuild, Checkpoint, Published
  <2>3. replica' = [rows |-> replica'.rows, digests |-> replica'.digests,
                    checkpoint |-> replica'.checkpoint]
    BY <1>5 DEF Applied
  <2>4. SyncTypes'
    BY <1>1, <1>2, <1>3, <1>5, <2>2, <2>3 DEF SyncTypes, SessionTypes, Published
  <2>5. ReplicaIsOneBuild'
    <3>1. drifts' = 0 => late = {}
      BY <1>1 DEF Transactions, EditsNeedTransaction, SyncTypes
    <3>2. drifts' = 0 => IsBuild(replica)'
      BY <1>1, <1>5, <3>1 DEF IsBuild, IsBuildBut, Published, Digests, Digest
    <3> QED
      BY <3>2 DEF ReplicaIsOneBuild
  <2> QED
    BY <1>2, <1>3, <2>4, <2>5
<1> QED
  BY <1>4, <1>5, CommitOutcome

LEMMA SyncPreserved == SyncInv /\ [Next]_vars => SyncInv'
<1> SUFFICES ASSUME SyncInv, [Next]_vars PROVE SyncInv'
  OBVIOUS
<1>1. CASE UNCHANGED vars
  <2>1. /\ UNCHANGED <<builds, kept, release, schema, replica, stage, chosen>>
        /\ UNCHANGED <<code, changed, edited, late, faults, drifts>>
    BY <1>1 DEF vars, lake, database, locals, edits, bounds
  <2>2. /\ CheckpointNamesBuild' /\ SessionsChose' /\ LockedIsCompatible'
        /\ ReplicaIsOneBuild'
    BY <2>1, BuildsGrow DEF Published
  <2>3. Transactions'
    BY <2>1, OutsideTransactions
  <2> QED
    BY <2>1, <2>2, <2>3 DEF SyncInv, SyncTypes, Published
<1>2. ASSUME NEW p \in Sessions, Sync(p) PROVE SyncInv'
  BY <1>2, SelectStep, PrepareStep, BeginStep, ApplyStep, CommitStep DEF Sync
<1> QED
  BY <1>1, <1>2, PublishStep, OthersStep, DriftStep DEF Next

\* An empty lake and a blank replica.
LEMMA SyncInit == Init => SyncInv
<1> SUFFICES ASSUME Init PROVE SyncInv
  OBVIOUS
<1>1. builds \in Seq(Contents) /\ Len(builds) = 0
  BY EmptySeq DEF Init
<1>2. /\ replica = Blank
      /\ replica.rows = NoRows
      /\ replica.digests = [t \in Timestamps |-> <<>>]
      /\ replica.checkpoint = NoCheckpoint
  BY DEF Init, Blank
<1>3. NoRows \in Rows
  BY DEF NoRows, Rows
<1>4. <<>> \in AnyDigest
  BY SyncAssumption DEF AnyDigest, Digest
<1>5. SyncTypes
  BY <1>1, <1>2, <1>3, <1>4, OldestRelease, SyncAssumption
  DEF Init, SyncTypes, CheckpointNamesBuild, Blank
<1> QED
  BY <1>2, <1>5
  DEF SyncInv, Init, SessionsChose, LockedIsCompatible, InTransaction, Transactions,
      EditsNeedTransaction, ReadStays, WritesStay, ReplicaIsOneBuild

-----------------------------------------------------------------------------
(* The theorems.                                                           *)

\* Every reachable state satisfies the inductive invariant.
THEOREM SyncInvariance == Spec => []SyncInv
BY SyncInit, SyncPreserved, PTL DEF Spec

\* As long as no row is changed by hand the replica is blank or one published
\* build, whatever sessions, migrations and failures do to each other.
THEOREM OneBuild == Spec => []ReplicaIsOneBuild
<1>1. SyncInv => ReplicaIsOneBuild
  BY DEF SyncInv
<1> QED
  BY <1>1, SyncInvariance, PTL

\* The documented types, and that one session at a time is under the lock.
THEOREM SyncTypeCorrectness == Spec => []TypeOK
<1>1. SyncInv => TypeOK
  <2> SUFFICES ASSUME SyncInv PROVE TypeOK
    OBVIOUS
  <2>1. /\ Published = 1 .. Len(builds) /\ Len(builds) \in Nat
        /\ \A b \in Published : builds[b] \in Contents
    BY PublishedIsInterval DEF SyncInv, SyncTypes
  <2>2. Published \in {1 .. n : n \in 0 .. MaxBuilds}
    BY <2>1, SyncAssumption DEF SyncInv, SyncTypes
  <2>3. replica.checkpoint.build \in Published \cup {None}
    BY DEF SyncInv, SyncTypes, CheckpointNamesBuild, Checkpoint, NoCheckpoint
  <2> QED
    BY <2>1, <2>2, <2>3 DEF SyncInv, SyncTypes, LockedIsCompatible, TypeOK
<1> QED
  BY <1>1, SyncInvariance, PTL

\* Only a commit moves the checkpoint, and what it leaves is the build the
\* checkpoint names.
LEMMA CheckpointMoves ==
    ASSUME SyncInv, [Next]_vars, replica'.checkpoint # replica.checkpoint
    PROVE  \E p \in Sessions :
               /\ stage[p] = "applied"
               /\ chosen[p] \in Published
               /\ replica'.checkpoint = Checkpoint(chosen[p])
               /\ IsBuildBut(replica', late)
<1>1. ASSUME Drift PROVE FALSE
  <2>1. PICK t \in Timestamps, v \in Values \cup {0} :
            replica' = [replica EXCEPT !.rows[t] = v]
    BY <1>1 DEF Drift
  <2>2. replica'.checkpoint = replica.checkpoint
    BY <2>1 DEF SyncInv, SyncTypes
  <2> QED
    BY <2>2
<1>2. ASSUME NEW p \in Sessions, Select(p) \/ Prepare(p) \/ Begin(p) \/ Apply(p)
      PROVE  FALSE
  BY <1>2 DEF Select, Prepare, Begin, Apply, database
<1>3. ASSUME Publish \/ Retire \/ Deploy \/ Migrate \/ UNCHANGED vars
      PROVE  FALSE
  BY <1>3 DEF Publish, Retire, Deploy, Migrate, vars, database
<1>4. PICK p \in Sessions : Commit(p)
  BY <1>1, <1>2, <1>3 DEF Next, Sync
<1>5. stage[p] = "applied" /\ chosen[p] \in Published
  BY <1>4 DEF Commit, SyncInv, SessionsChose
<1> QED
  BY <1>4, <1>5, CommitOutcome

\* A session that moves the checkpoint leaves exactly the build it names, but
\* for rows changed by hand after it verified them (apply_delta).
THEOREM CheckpointsAreExact == Spec => CheckpointIsExact
<1>1. SyncInv /\ [Next]_vars =>
          [replica'.checkpoint # replica.checkpoint => IsBuildBut(replica', late)]_vars
  BY CheckpointMoves
<1> QED
  BY <1>1, SyncInvariance, PTL DEF Spec, CheckpointIsExact

\* A session of an older release never takes the replica back to its version:
\* what it checked under the lock still holds when it commits.
THEOREM VersionsNeverRegress == Spec => VersionNeverRegresses
<1>1. ASSUME SyncInv, [Next]_vars, Bootstrapped
      PROVE  /\ replica'.checkpoint # NoCheckpoint
             /\ replica'.checkpoint.data.version
                  >= replica.checkpoint.data.version
  <2>1. PICK old \in Published : replica.checkpoint = Checkpoint(old)
    BY <1>1 DEF Bootstrapped, SyncInv, SyncTypes, CheckpointNamesBuild
  <2>2. \A b \in Published : builds[b].version \in Nat
    BY <1>1, PublishedIsInterval, SyncAssumption DEF SyncInv, SyncTypes, Contents
  <2>3. \A b \in Published : Checkpoint(b) # NoCheckpoint
    <3>1. \A b \in Published : b # None
      BY <1>1, PublishedIsInterval DEF SyncInv, SyncTypes, None
    <3>2. \A b \in Published : Checkpoint(b).build = b /\ NoCheckpoint.build = None
      BY DEF Checkpoint, NoCheckpoint
    <3> QED
      BY <3>1, <3>2
  <2>4. CASE replica'.checkpoint = replica.checkpoint
    BY <2>1, <2>2, <2>3, <2>4 DEF Checkpoint
  <2>5. CASE replica'.checkpoint # replica.checkpoint
    <3>1. PICK p \in Sessions : /\ stage[p] = "applied"
                                /\ chosen[p] \in Published
                                /\ replica'.checkpoint = Checkpoint(chosen[p])
      BY <1>1, <2>5, CheckpointMoves
    <3>2. code[p] = builds[chosen[p]].version /\ Compatible(code[p])
      BY <1>1, <3>1 DEF SyncInv, SessionsChose, LockedIsCompatible, InTransaction
    <3>3. replica.checkpoint.data.version <= builds[chosen[p]].version
      BY <1>1, <3>2 DEF Compatible
    <3>4. replica'.checkpoint.data.version = builds[chosen[p]].version
      BY <3>1 DEF Checkpoint
    <3> QED
      BY <2>1, <2>2, <2>3, <3>1, <3>3, <3>4 DEF Checkpoint
  <2> QED
    BY <2>4, <2>5
<1>2. SyncInv /\ [Next]_vars =>
          [Bootstrapped =>
             /\ replica'.checkpoint # NoCheckpoint
             /\ replica'.checkpoint.data.version
                  >= replica.checkpoint.data.version]_vars
  BY <1>1
<1> QED
  BY <1>2, SyncInvariance, PTL DEF Spec, VersionNeverRegresses

\* A row changed by hand before a transaction began stops every commit that is
\* no upgrade; only what is changed while it is open can be overwritten
\* (_require_matching_digests, apply_delta).
THEOREM DriftStopsEveryCommit == Spec => DriftStopsCommits
<1>1. ASSUME SyncInv, [Next]_vars, NEW p \in Sessions,
             stage[p] = "applied", stage'[p] = "idle", replica' # replica,
             NEW t \in Timestamps \ edited, Drifted(t)
      PROVE  Upgrade(code[p])
  BY <1>1 DEF SyncInv, Transactions, ReadStays, InTransaction, Drifted
<1>2. SyncInv /\ [Next]_vars =>
          [\A p \in Sessions :
             /\ stage[p] = "applied" /\ stage'[p] = "idle" /\ replica' # replica
             /\ \E t \in Timestamps \ edited : Drifted(t)
             => Upgrade(code[p])]_vars
  BY <1>1
<1> QED
  BY <1>2, SyncInvariance, PTL DEF Spec, DriftStopsCommits
=============================================================================
