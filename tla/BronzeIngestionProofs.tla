----------------------- MODULE BronzeIngestionProofs -----------------------
(***************************************************************************)
(* Proofs about Bronze ingestion, for any number of series, days, months,  *)
(* retries and faults and any overlap.  What a thread read stays true      *)
(* because only it writes its months and only one thread is in a commit;   *)
(* what a torn commit leaves is a mixture of two frames, ordered by month, *)
(* and such a mixture opens no gap.                                        *)
(***************************************************************************)
EXTENDS BronzeIngestion, WellFoundedInduction, TLAPS

-----------------------------------------------------------------------------
(* Days and months.                                                        *)

\* A non-empty set of naturals has a least element.
LEMMA MinNat ==
    ASSUME NEW S \in SUBSET Nat, S # {}
    PROVE  Min(S) \in S /\ \A x \in S : Min(S) <= x
<1> DEFINE Less == OpToRel(<, Nat)
<1>1. PICK m \in S : \A x \in S : <<x, m>> \notin Less
  <2> HIDE DEF Less
  <2>1. IsWellFoundedOn(Less, Nat)
    BY NatLessThanWellFounded DEF Less
  <2> QED
    BY <2>1, WFMin
<1>2. ASSUME NEW x \in S PROVE m <= x
  <2>1. <<x, m>> \in Nat \X Nat /\ <<x, m>> \notin Less
    BY <1>1
  <2>2. ~(x < m)
    BY <2>1 DEF OpToRel, Less
  <2> QED
    BY <2>2
<1> QED
  BY <1>2 DEF Min

\* A non-empty set of naturals with a bound has a greatest element.
LEMMA MaxNat ==
    ASSUME NEW n \in Nat, NEW S \in SUBSET (0 .. n), S # {}
    PROVE  Max(S) \in S /\ \A x \in S : x <= Max(S)
<1> DEFINE R == {n - x : x \in S}
<1>1. R \in SUBSET Nat /\ R # {}
  <2>1. ASSUME NEW x \in S PROVE n - x \in Nat
    OBVIOUS
  <2> QED
    BY <2>1
<1>2. PICK m \in S : Min(R) = n - m
  BY <1>1, MinNat
<1>3. \A x \in S : m >= x
  <2> TAKE x \in S
  <2>1. n - m <= n - x
    BY <1>1, <1>2, MinNat
  <2> QED
    BY <2>1
<1>4. Max(S) \in S /\ \A x \in S : Max(S) >= x
  BY <1>3 DEF Max
<1> QED
  BY <1>4

LEMMA MinOfTwo ==
    ASSUME NEW a \in Nat, NEW b \in Nat
    PROVE  Min({a, b}) = IF a <= b THEN a ELSE b
BY MinNat

LEMMA MaxOfTwo ==
    ASSUME NEW a \in Int, NEW b \in Int
    PROVE  Max({a, b}) = IF a >= b THEN a ELSE b
<1>1. \E x \in {a, b} : \A y \in {a, b} : x >= y
  OBVIOUS
<1>2. Max({a, b}) \in {a, b} /\ \A y \in {a, b} : Max({a, b}) >= y
  BY <1>1 DEF Max
<1> QED
  BY <1>2

\* Days, runs and bounds are natural numbers.
LEMMA Bounds ==
    /\ LastDay \in Nat \ {0} /\ MonthLength \in Nat \ {0}
    /\ Revisions \in Nat \ {0} /\ MaxAttempts \in Nat \ {0}
    /\ MaxRuns \in Nat \ {0} /\ Overlap \in Nat /\ MaxFaults \in Nat
BY BronzeAssumption

\* The newest observation of a frame.
LEMMA LatestIsMax ==
    ASSUME NEW f \in Frames
    PROVE  /\ Latest(f) \in 0 .. LastDay
           /\ Latest(f) # 0 => Latest(f) \in Observed(f)
           /\ \A d \in Observed(f) : d <= Latest(f)
           /\ Latest(f) = 0 <=> Observed(f) = {}
<1>1. Observed(f) \in SUBSET (0 .. LastDay) /\ 0 \notin Observed(f)
  BY Bounds DEF Observed, Days
<1>2. CASE Observed(f) = {}
  BY <1>2, Bounds DEF Latest
<1>3. CASE Observed(f) # {}
  <2>1. Latest(f) = Max(Observed(f))
    BY <1>3 DEF Latest
  <2> QED
    BY <1>1, <1>3, <2>1, MaxNat, Bounds
<1> QED
  BY <1>2, <1>3

\* Where a frame has no more days than another, it ends no later.
LEMMA LatestMonotone ==
    ASSUME NEW f \in Frames, NEW g \in Frames, Observed(f) \subseteq Observed(g)
    PROVE  Latest(f) <= Latest(g)
BY LatestIsMax, Bounds

\* Months follow one another as their days do.
LEMMA MonthsOrdered ==
    ASSUME NEW d \in Days, NEW e \in Days
    PROVE  /\ MonthOf(d) \in Nat
           /\ MonthOf(d) < MonthOf(e) => d < e
<1> DEFINE q == (d - 1) \div MonthLength
           r == (e - 1) \div MonthLength
<1>1. d \in Nat \ {0} /\ e \in Nat \ {0} /\ MonthLength \in Nat \ {0}
  BY Bounds DEF Days
<1>2. q \in Nat /\ r \in Nat
  BY <1>1
<1>3. /\ q * MonthLength <= d - 1 /\ d - 1 < (q + 1) * MonthLength
      /\ r * MonthLength <= e - 1 /\ e - 1 < (r + 1) * MonthLength
  BY <1>1
<1>4. ASSUME q < r PROVE d < e
  <2>1. (q + 1) * MonthLength <= r * MonthLength
    BY <1>1, <1>2, <1>4
  <2> QED
    BY <1>1, <1>2, <1>3, <2>1
<1> QED
  BY <1>2, <1>4 DEF MonthOf

-----------------------------------------------------------------------------
(* Types.                                                                  *)

LEMMA WindowStartType ==
    ASSUME NEW l \in 0 .. LastDay, l # 0
    PROVE  /\ WindowStart(l) \in 1 .. LastDay
           /\ \A d \in Days : d < WindowStart(l) => d < l - Overlap
BY MaxOfTwo, Bounds DEF WindowStart, Days

\* The first day of the window Plan chooses.
Planned(s) ==
    IF Latest(bronze[s]) = 0 \/ operation = "reconcile" THEN 0
    ELSE WindowStart(Latest(bronze[s]))

LEMMA MonthsOfFrames ==
    ASSUME NEW f, NEW g
    PROVE  ChangedMonths(f, g) \subseteq Months
BY DEF ChangedMonths, Months

LEMMA MergeType ==
    ASSUME NEW f \in Frames, NEW g \in Frames
    PROVE  Merge(f, g) \in Frames
BY DEF Merge, Frames

LEMMA WithMonthType ==
    ASSUME NEW f \in Frames, NEW g \in Frames, NEW m
    PROVE  WithMonth(f, g, m) \in Frames
BY DEF WithMonth, Frames

LEMMA EmptyType == Empty \in Frames
BY Bounds DEF Empty, Frames

LEMMA DeliveredType ==
    ASSUME TypeOK, NEW s \in Series
    PROVE  Delivered(s) \in Frames
<1>1. source[s] \in Frames
  BY DEF TypeOK
<1> QED
  BY <1>1, Bounds DEF Delivered, Frames

\* What a series holds of the files before its commit.
Copies == [frame : Frames, runs : [Series -> RunRows],
           state : [Series -> 0 .. LastDay]]

LEMMA NoBackupType == NoBackup \in Copies
BY EmptyType, Bounds DEF NoBackup, NoRuns, RunRows, Copies

LEMMA InitTypes == Init => TypeOK
<1>1. 1 \in Days /\ 0 \in 0 .. LastDay /\ 0 \in 0 .. MaxRuns
      /\ 0 \in 0 .. MaxAttempts - 1 /\ 0 \in 0 .. MaxFaults
  BY Bounds DEF Days
<1>2. NoRuns \in [Series -> RunRows]
  BY DEF NoRuns, RunRows
<1> QED
  BY <1>1, <1>2, EmptyType, NoBackupType
  DEF Init, TypeOK, Operations, Stages, Copies

\* One row of the runs file.
LEMMA RowType ==
    ASSUME TypeOK, NEW s \in Series, NEW n, NEW v \in {"success", "failed"}
    PROVE  [runs EXCEPT ![s][n] = v] \in [Series -> RunRows]
<1>1. runs \in [Series -> RunRows] /\ runs[s] \in RunRows
  BY DEF TypeOK
<1>2. [runs[s] EXCEPT ![n] = v] \in RunRows
  BY <1>1 DEF RunRows
<1> QED
  BY <1>1, <1>2

LEMMA RaiseType ==
    ASSUME TypeOK, Raise \/ UNCHANGED faults
    PROVE  faults' \in 0 .. MaxFaults
<1>1. faults \in 0 .. MaxFaults
  BY DEF TypeOK
<1> QED
  BY <1>1, Bounds DEF Raise

LEMMA GotoType ==
    ASSUME TypeOK, NEW s \in Series, NEW p \in Stages, Goto(s, p)
    PROVE  stage' \in [Series -> Stages]
BY DEF TypeOK, Goto

LEMMA StageNames ==
    /\ {"idle", "plan", "fetch", "commit", "failed", "months", "state"} \subseteq Stages
    /\ {"undoState", "undoRuns", "undoMonths"} \subseteq Stages
BY DEF Stages, Committing, Undoing

\* The end of a commit or of its undo keeps the types.
LEMMA ReleaseTypes ==
    ASSUME TypeOK, NEW s \in Series, Release(s)
    PROVE  left' \in [Series -> SUBSET Months] /\ backup' \in [Series -> Copies]
BY NoBackupType DEF Release, TypeOK, Copies

\* Steps of the environment and of the whole batch.
LEMMA BatchTypes ==
    ASSUME TypeOK,
           \/ Tick \/ Daily \/ Manual \/ Kill
           \/ \E s \in Series : Publish(s) \/ Forget(s)
    PROVE  TypeOK'
<1> USE DEF Raise, Stages, Committing, Undoing, Copies
<1>1. CASE Tick
  BY <1>1, Bounds DEF Tick, TypeOK, Days, durable, threads, commit
<1>2. ASSUME NEW s \in Series, Publish(s) PROVE TypeOK'
  <2>1. PICK d \in 1 .. today, v \in 1 .. Revisions :
          source' = [source EXCEPT ![s][d] = v]
    BY <1>2 DEF Publish
  <2>2. v \in 0 .. Revisions
    BY Bounds
  <2>3. source' \in [Series -> Frames]
    BY <2>1, <2>2 DEF TypeOK, Frames
  <2> QED
    BY <1>2, <2>3 DEF Publish, TypeOK, durable, threads, commit
<1>3. ASSUME NEW s \in Series, Forget(s) PROVE TypeOK'
  <2>1. PICK d \in Days : source' = [source EXCEPT ![s][d] = 0]
    BY <1>3 DEF Forget, Observed
  <2>2. source' \in [Series -> Frames]
    BY <2>1, Bounds DEF TypeOK, Frames
  <2> QED
    BY <1>3, <2>2 DEF Forget, TypeOK, durable, threads, commit
<1>4. ASSUME NEW o \in Operations, Start(o) PROVE TypeOK'
  BY <1>4, Bounds DEF Start, TypeOK, world, durable, commit
<1>5. CASE Kill
  <2>1. 0 \in 0 .. MaxAttempts - 1 /\ faults + 1 \in 0 .. MaxFaults
    BY <1>5, Bounds DEF Kill, TypeOK
  <2> QED
    BY <1>5, <2>1, NoBackupType DEF Kill, TypeOK, world, durable
<1> QED
  BY <1>1, <1>2, <1>3, <1>4, <1>5 DEF Daily, Manual, Operations

\* Steps of a thread before its commit.
LEMMA FetchTypes ==
    ASSUME TypeOK, NEW s \in Series, Plan(s) \/ Retry(s) \/ Fetch(s)
    PROVE  TypeOK'
<1> USE DEF Goto, Raise, Stages, Committing, Undoing, Copies
<1>1. CASE Plan(s)
  <2>1. CASE UNCHANGED <<plan, run>> /\ stage' = [stage EXCEPT ![s] = "idle"]
    BY <1>1, <2>1 DEF Plan, TypeOK, world, durable, commit
  <2>2. CASE /\ stage' = [stage EXCEPT ![s] = "fetch"]
             /\ plan' = [plan EXCEPT ![s].first = Planned(s)]
             /\ run' = [run EXCEPT ![s] = Min({run[s] + 1, MaxRuns})]
    <3>1. Latest(bronze[s]) \in 0 .. LastDay
      BY LatestIsMax DEF TypeOK
    <3>2. Planned(s) \in 0 .. LastDay
      BY <3>1, WindowStartType, Bounds DEF Planned
    <3>3. plan' \in [Series -> [first : 0 .. LastDay, last : Days]]
      BY <2>2, <3>2 DEF TypeOK
    <3>4. Min({run[s] + 1, MaxRuns}) \in 0 .. MaxRuns
      <4>1. run[s] \in 0 .. MaxRuns
        BY DEF TypeOK
      <4> QED
        BY <4>1, MinOfTwo, Bounds
    <3> QED
      BY <1>1, <2>2, <3>3, <3>4 DEF Plan, TypeOK, world, durable, commit
  <2> QED
    BY <1>1, <2>1, <2>2 DEF Plan, Planned, Goto
<1>2. CASE Retry(s)
  <2>1. attempts[s] + 1 \in 0 .. MaxAttempts - 1
    BY <1>2, Bounds DEF Retry, TypeOK
  <2> QED
    BY <1>2, <2>1 DEF Retry, TypeOK, world, durable, commit
<1>3. CASE Fetch(s)
  <2>1. Merge(bronze[s], Delivered(s)) \in Frames /\ Unavailable(s) \in Frames
    BY MergeType, DeliveredType, EmptyType DEF Unavailable, TypeOK
  <2>2. merged' \in [Series -> Frames]
    BY <1>3, <2>1 DEF Fetch, TypeOK
  <2>3. 0 \in 0 .. MaxAttempts - 1 /\ faults' \in 0 .. MaxFaults
    BY <1>3, Bounds DEF Fetch, TypeOK
  <2>4. stage' \in [Series -> Stages]
    BY <1>3 DEF Fetch, TypeOK
  <2> QED
    BY <1>3, <2>2, <2>3, <2>4 DEF Fetch, TypeOK, world, durable, commit
<1> QED
  BY <1>1, <1>2, <1>3

\* Steps of a commit.
LEMMA CommitTypes ==
    ASSUME TypeOK, NEW s \in Series,
           Acquire(s) \/ WriteMonth(s) \/ WriteRun(s) \/ WriteState(s)
    PROVE  TypeOK'
<1>1. CASE Acquire(s)
  <2>1. backup' \in [Series -> Copies]
    <3>1. backup \in [Series -> Copies]
      BY DEF TypeOK, Copies
    <3>2. [frame |-> bronze[s], runs |-> runs, state |-> state] \in Copies
      BY DEF TypeOK, Copies
    <3> QED
      BY <1>1, <3>1, <3>2 DEF Acquire, commit
  <2>2. left' \in [Series -> SUBSET Months]
    <3>1. left \in [Series -> SUBSET Months]
      BY DEF TypeOK
    <3> QED
      BY <1>1, <3>1, MonthsOfFrames DEF Acquire, commit
  <2>3. faults' \in 0 .. MaxFaults /\ stage' \in [Series -> Stages]
    BY <1>1, RaiseType, GotoType, StageNames DEF Acquire
  <2> QED
    BY <1>1, <2>1, <2>2, <2>3 DEF Acquire, TypeOK, world, durable, threads, Copies
<1>2. CASE WriteMonth(s)
  <2>1. WithMonth(bronze[s], merged[s], NextMonth(left[s])) \in Frames
    BY WithMonthType DEF TypeOK
  <2>2. bronze' \in [Series -> Frames]
    BY <1>2, <2>1 DEF WriteMonth, Write, TypeOK
  <2>3. faults' \in 0 .. MaxFaults /\ stage' \in [Series -> Stages]
    BY <1>2, RaiseType, GotoType, StageNames DEF WriteMonth, Write
  <2>4. left' \in [Series -> SUBSET Months]
    BY <1>2 DEF WriteMonth, TypeOK
  <2> QED
    BY <1>2, <2>2, <2>3, <2>4 DEF WriteMonth, TypeOK, world, threads
<1>3. CASE WriteRun(s)
  <2>1. runs' \in [Series -> RunRows]
    <3>1. [runs EXCEPT ![s][run[s]] = "success"] \in [Series -> RunRows]
      BY RowType
    <3>2. runs \in [Series -> RunRows]
      BY DEF TypeOK
    <3>3. runs' \in {runs, [runs EXCEPT ![s][run[s]] = "success"]}
      BY <1>3 DEF WriteRun, Write
    <3> QED
      BY <3>1, <3>2, <3>3
  <2>2. faults' \in 0 .. MaxFaults /\ stage' \in [Series -> Stages]
    BY <1>3, RaiseType, GotoType, StageNames DEF WriteRun, Write
  <2> QED
    BY <1>3, <2>1, <2>2 DEF WriteRun, TypeOK, world, threads, commit
<1>4. CASE WriteState(s)
  <2>1. LastObserved(s) \in 0 .. LastDay
    BY LatestIsMax DEF LastObserved, TypeOK
  <2>2. state' \in [Series -> 0 .. LastDay]
    BY <1>4, <2>1 DEF WriteState, Write, TypeOK
  <2>3. faults' \in 0 .. MaxFaults /\ stage' \in [Series -> Stages]
    BY <1>4, RaiseType, GotoType, StageNames DEF WriteState, Write
  <2>4. left' \in [Series -> SUBSET Months] /\ backup' \in [Series -> Copies]
    BY <1>4, ReleaseTypes DEF WriteState, TypeOK, commit, Copies
  <2> QED
    BY <1>4, <2>2, <2>3, <2>4 DEF WriteState, TypeOK, world, threads, Copies
<1> QED
  BY <1>1, <1>2, <1>3, <1>4

\* Steps of an undo, and the failure record.
LEMMA UndoTypes ==
    ASSUME TypeOK, NEW s \in Series,
           \/ UndoState(s) \/ UndoRuns(s) \/ UndoMonth(s) \/ Undone(s)
           \/ RecordFailure(s)
    PROVE  TypeOK'
<1>1. CASE UndoState(s)
  <2>1. state' \in [Series -> 0 .. LastDay]
    BY <1>1 DEF UndoState, Undo, TypeOK
  <2>2. faults' \in 0 .. MaxFaults /\ stage' \in [Series -> Stages]
    BY <1>1, RaiseType, GotoType, StageNames DEF UndoState, Undo
  <2>3. left' \in [Series -> SUBSET Months] /\ backup' \in [Series -> Copies]
    BY <1>1, ReleaseTypes DEF UndoState, TypeOK, commit, Copies
  <2> QED
    BY <1>1, <2>1, <2>2, <2>3 DEF UndoState, TypeOK, world, threads, Copies
<1>2. CASE UndoRuns(s)
  <2>1. runs' \in [Series -> RunRows]
    BY <1>2 DEF UndoRuns, Undo, TypeOK
  <2>2. faults' \in 0 .. MaxFaults /\ stage' \in [Series -> Stages]
    BY <1>2, RaiseType, GotoType, StageNames DEF UndoRuns, Undo
  <2>3. left' \in [Series -> SUBSET Months] /\ backup' \in [Series -> Copies]
    <3>1. left \in [Series -> SUBSET Months] /\ backup \in [Series -> Copies]
      BY DEF TypeOK, Copies
    <3>2. CASE Release(s)
      BY <3>2, ReleaseTypes
    <3>3. CASE left' = [left EXCEPT ![s] = ChangedMonths(backup[s].frame, merged[s])]
               /\ UNCHANGED backup
      BY <3>1, <3>3, MonthsOfFrames
    <3> QED
      BY <1>2, <3>2, <3>3 DEF UndoRuns
  <2> QED
    BY <1>2, <2>1, <2>2, <2>3 DEF UndoRuns, TypeOK, world, threads, Copies
<1>3. CASE UndoMonth(s)
  <2>1. WithMonth(bronze[s], backup[s].frame, LastWritten(left[s])) \in Frames
    BY WithMonthType DEF TypeOK
  <2>2. bronze' \in [Series -> Frames]
    BY <1>3, <2>1 DEF UndoMonth, Undo, TypeOK
  <2>3. faults' \in 0 .. MaxFaults /\ stage' \in [Series -> Stages]
    BY <1>3, RaiseType, GotoType, StageNames DEF UndoMonth, Undo
  <2>4. left' \in [Series -> SUBSET Months] /\ backup' \in [Series -> Copies]
    <3>1. left \in [Series -> SUBSET Months] /\ backup \in [Series -> Copies]
      BY DEF TypeOK, Copies
    <3>2. CASE Release(s)
      BY <3>2, ReleaseTypes
    <3>3. CASE left' = [left EXCEPT ![s] = @ \ {LastWritten(left[s])}]
               /\ UNCHANGED backup
      BY <3>1, <3>3
    <3> QED
      BY <1>3, <3>2, <3>3 DEF UndoMonth
  <2> QED
    BY <1>3, <2>2, <2>3, <2>4 DEF UndoMonth, TypeOK, world, threads, Copies
<1>4. CASE Undone(s)
  <2>1. left' \in [Series -> SUBSET Months] /\ backup' \in [Series -> Copies]
    BY <1>4, ReleaseTypes DEF Undone
  <2>2. stage' \in [Series -> Stages]
    BY <1>4, GotoType, StageNames DEF Undone
  <2> QED
    BY <1>4, <2>1, <2>2 DEF Undone, TypeOK, world, durable, threads, Copies
<1>5. CASE RecordFailure(s)
  <2>1. runs' \in [Series -> RunRows]
    <3>1. [runs EXCEPT ![s][run[s]] = "failed"] \in [Series -> RunRows]
      BY RowType
    <3>2. runs \in [Series -> RunRows]
      BY DEF TypeOK
    <3>3. runs' \in {runs, [runs EXCEPT ![s][run[s]] = "failed"]}
      BY <1>5 DEF RecordFailure
    <3> QED
      BY <3>1, <3>2, <3>3
  <2>2. faults' \in 0 .. MaxFaults /\ stage' \in [Series -> Stages]
    BY <1>5, RaiseType, GotoType, StageNames DEF RecordFailure
  <2> QED
    BY <1>5, <2>1, <2>2 DEF RecordFailure, TypeOK, world, threads, commit
<1> QED
  BY <1>1, <1>2, <1>3, <1>4, <1>5

\* Every step keeps the types.
LEMMA StepTypes == TypeOK /\ [Next]_vars => TypeOK'
<1>1. CASE UNCHANGED vars
  BY <1>1 DEF vars, world, durable, threads, commit, TypeOK
<1> QED
  BY <1>1, BatchTypes, FetchTypes, CommitTypes, UndoTypes DEF Next, Thread

\* Every file, row, copy and window stays in its set through commits, undos
\* and kills (parquet_repository.py, bronze_uow.py, bronze_orchestration.py).
THEOREM BronzeTypeCorrectness == Spec => []TypeOK
BY InitTypes, StepTypes, PTL DEF Spec

-----------------------------------------------------------------------------
(* The lock: one commit at a time, whose copies of the shared files stay   *)
(* true for every other series.                                            *)

OneCommitter == \A s, u \in Series :
    stage[s] \in Committing /\ stage[u] \in Committing => s = u

CopiesStayTrue == \A s, u \in Series :
    s # u /\ stage[s] \in Committing =>
        backup[s].runs[u] = runs[u] /\ backup[s].state[u] = state[u]

Locked == OneCommitter /\ CopiesStayTrue

\* A step leaves all there is of series u.
Untouched(u) ==
    /\ bronze'[u] = bronze[u] /\ runs'[u] = runs[u] /\ state'[u] = state[u]
    /\ stage'[u] = stage[u] /\ plan'[u] = plan[u] /\ run'[u] = run[u]
    /\ merged'[u] = merged[u] /\ left'[u] = left[u] /\ backup'[u] = backup[u]

LEMMA Domains ==
    ASSUME TypeOK
    PROVE  /\ DOMAIN bronze = Series /\ DOMAIN runs = Series
           /\ DOMAIN state = Series /\ DOMAIN stage = Series
           /\ DOMAIN plan = Series /\ DOMAIN run = Series
           /\ DOMAIN merged = Series /\ DOMAIN left = Series
           /\ DOMAIN backup = Series /\ DOMAIN source = Series
BY DEF TypeOK

LEMMA StagesApart ==
    /\ Committing = {"months", "state", "undoState", "undoRuns", "undoMonths"}
    /\ {"idle", "plan", "fetch", "commit", "failed"} \cap Committing = {}
BY DEF Committing, Undoing

\* Who steps outside a commit touches no series but its own.
LEMMA FetchLocal ==
    ASSUME TypeOK, NEW s \in Series, Plan(s) \/ Retry(s) \/ Fetch(s)
    PROVE  /\ source' = source /\ UNCHANGED <<durable, commit>>
           /\ \A u \in Series \ {s} : Untouched(u)
           /\ stage'[s] \notin Committing
<1>1. CASE Plan(s)
  BY <1>1, Domains, StagesApart
  DEF Plan, Goto, Untouched, world, durable, commit
<1>2. CASE Retry(s)
  BY <1>2, StagesApart DEF Retry, Untouched, world, durable, commit
<1>3. CASE Fetch(s)
  BY <1>3, Domains, StagesApart
  DEF Fetch, Goto, Untouched, world, durable, commit
<1> QED
  BY <1>1, <1>2, <1>3

LEMMA AcquireLocal ==
    ASSUME TypeOK, NEW s \in Series, Acquire(s)
    PROVE  /\ source' = source /\ UNCHANGED <<durable, threads>>
           /\ LockFree /\ stage[s] = "commit"
           /\ \A u \in Series \ {s} : Untouched(u)
           /\ \/ /\ stage'[s] = "months"
                 /\ backup'[s] = [frame |-> bronze[s], runs |-> runs,
                                  state |-> state]
                 /\ left'[s] = ChangedMonths(bronze[s], merged[s])
              \/ stage'[s] = "failed" /\ UNCHANGED commit
BY Domains DEF Acquire, Goto, Untouched, world, durable, threads, commit

LEMMA ReleaseLocal ==
    ASSUME TypeOK, NEW s \in Series, Release(s), NEW u \in Series, u # s
    PROVE  left'[u] = left[u] /\ backup'[u] = backup[u]
BY Domains DEF Release

LEMMA WriteMonthLocal ==
    ASSUME TypeOK, NEW s \in Series, WriteMonth(s)
    PROVE  /\ stage[s] = "months" /\ left[s] # {}
           /\ UNCHANGED <<source, runs, state, threads, backup>>
           /\ \A u \in Series \ {s} : Untouched(u)
           /\ left'[s] = left[s] \ {Min(left[s])}
           /\ \/ /\ stage'[s] = "months"
                 /\ bronze'[s] = WithMonth(bronze[s], merged[s], Min(left[s]))
              \/ /\ stage'[s] = "undoState"
                 /\ bronze'[s] \in
                      {bronze[s], WithMonth(bronze[s], merged[s], Min(left[s]))}
BY Domains
DEF WriteMonth, NextMonth, Write, Goto, Untouched, world, threads

LEMMA WriteRunLocal ==
    ASSUME TypeOK, NEW s \in Series, WriteRun(s)
    PROVE  /\ stage[s] = "months" /\ left[s] = {}
           /\ UNCHANGED <<source, bronze, state, threads, commit>>
           /\ \A u \in Series \ {s} : Untouched(u)
           /\ \/ /\ stage'[s] = "state"
                 /\ runs'[s] = [runs[s] EXCEPT ![run[s]] = "success"]
              \/ /\ stage'[s] = "undoState"
                 /\ runs'[s] \in
                      {runs[s], [runs[s] EXCEPT ![run[s]] = "success"]}
BY Domains DEF WriteRun, Write, Goto, Untouched, world, threads, commit

LEMMA WriteStateLocal ==
    ASSUME TypeOK, NEW s \in Series, WriteState(s)
    PROVE  /\ stage[s] = "state"
           /\ UNCHANGED <<source, bronze, runs, threads>>
           /\ \A u \in Series \ {s} : Untouched(u)
           /\ \/ /\ stage'[s] = "idle"
                 /\ state'[s] = Latest(merged[s])
              \/ /\ stage'[s] = "undoState" /\ UNCHANGED commit
                 /\ state'[s] \in {state[s], Latest(merged[s])}
BY Domains, ReleaseLocal
DEF WriteState, LastObserved, Write, Goto, Untouched, world, threads, commit

\* An undo replaces whole files, by copies that are true of the others.
LEMMA UndoStateLocal ==
    ASSUME TypeOK, Locked, NEW s \in Series, UndoState(s)
    PROVE  /\ stage[s] = "undoState"
           /\ UNCHANGED <<source, bronze, runs, threads>>
           /\ \A u \in Series \ {s} : Untouched(u)
           /\ \/ /\ stage'[s] = "undoRuns" /\ UNCHANGED commit
                 /\ state'[s] = backup[s].state[s]
              \/ stage'[s] = "failed" /\ state'[s] = state[s]
<1>1. stage[s] \in Committing
  BY StagesApart DEF UndoState
<1>2. \A u \in Series \ {s} : backup[s].state[u] = state[u]
  BY <1>1 DEF Locked, CopiesStayTrue
<1> QED
  BY <1>2, Domains, ReleaseLocal
  DEF UndoState, Undo, Goto, Untouched, world, threads, commit

LEMMA UndoRunsLocal ==
    ASSUME TypeOK, Locked, NEW s \in Series, UndoRuns(s)
    PROVE  /\ stage[s] = "undoRuns"
           /\ UNCHANGED <<source, bronze, state, threads>>
           /\ \A u \in Series \ {s} : Untouched(u)
           /\ \/ /\ stage'[s] = "undoMonths" /\ UNCHANGED backup
                 /\ left'[s] = ChangedMonths(backup[s].frame, merged[s])
                 /\ runs'[s] = backup[s].runs[s]
              \/ stage'[s] = "failed" /\ runs'[s] = runs[s]
<1>1. stage[s] \in Committing
  BY StagesApart DEF UndoRuns
<1>2. \A u \in Series \ {s} : backup[s].runs[u] = runs[u]
  BY <1>1 DEF Locked, CopiesStayTrue
<1> QED
  BY <1>2, Domains, ReleaseLocal
  DEF UndoRuns, Undo, Goto, Untouched, world, threads

LEMMA UndoMonthLocal ==
    ASSUME TypeOK, NEW s \in Series, UndoMonth(s)
    PROVE  /\ stage[s] = "undoMonths" /\ left[s] # {}
           /\ UNCHANGED <<source, runs, state, threads>>
           /\ \A u \in Series \ {s} : Untouched(u)
           /\ \/ /\ stage'[s] = "undoMonths" /\ UNCHANGED backup
                 /\ left'[s] = left[s] \ {Max(left[s])}
                 /\ bronze'[s] =
                      WithMonth(bronze[s], backup[s].frame, Max(left[s]))
              \/ stage'[s] = "failed" /\ bronze'[s] = bronze[s]
BY Domains, ReleaseLocal
DEF UndoMonth, LastWritten, Undo, Goto, Untouched, world, threads

LEMMA UndoneLocal ==
    ASSUME TypeOK, NEW s \in Series, Undone(s)
    PROVE  /\ stage[s] = "undoMonths" /\ left[s] = {}
           /\ source' = source /\ UNCHANGED <<durable, threads>>
           /\ \A u \in Series \ {s} : Untouched(u)
           /\ stage'[s] = "failed"
BY Domains, ReleaseLocal
DEF Undone, Goto, Untouched, world, durable, threads

LEMMA RecordFailureLocal ==
    ASSUME TypeOK, NEW s \in Series, RecordFailure(s)
    PROVE  /\ stage[s] = "failed" /\ LockFree
           /\ UNCHANGED <<source, bronze, state, threads, commit>>
           /\ \A u \in Series \ {s} : Untouched(u)
           /\ stage'[s] = "idle"
           /\ runs'[s] \in {runs[s], [runs[s] EXCEPT ![run[s]] = "failed"]}
BY Domains
DEF RecordFailure, Goto, Untouched, world, threads, commit

\* What the step of a thread does to its own series and to the others.
LEMMA ThreadLocal ==
    ASSUME TypeOK, Locked, NEW s \in Series, Thread(s)
    PROVE  /\ source' = source
           /\ \A u \in Series \ {s} : Untouched(u)
           /\ stage'[s] \in Committing =>
                \/ stage[s] \in Committing /\ backup'[s] = backup[s]
                \/ /\ LockFree
                   /\ backup'[s].runs = runs /\ backup'[s].state = state
           /\ \/ stage[s] \in Committing
              \/ /\ bronze'[s] = bronze[s] /\ state'[s] = state[s]
                 /\ runs'[s] = runs[s] \/ (stage[s] = "failed" /\ LockFree)
<1> USE StagesApart
<1>1. CASE Plan(s) \/ Retry(s) \/ Fetch(s)
  BY <1>1, FetchLocal DEF durable
<1>2. CASE Acquire(s)
  <2>1. stage'[s] \in Committing =>
          backup'[s] = [frame |-> bronze[s], runs |-> runs, state |-> state]
    BY <1>2, AcquireLocal
  <2>2. LockFree /\ source' = source /\ \A u \in Series \ {s} : Untouched(u)
    BY <1>2, AcquireLocal
  <2>3. bronze'[s] = bronze[s] /\ state'[s] = state[s] /\ runs'[s] = runs[s]
    BY <1>2, AcquireLocal DEF durable
  <2> QED
    BY <2>1, <2>2, <2>3
<1>3. CASE WriteMonth(s)
  BY <1>3, WriteMonthLocal
<1>4. CASE WriteRun(s)
  BY <1>4, WriteRunLocal DEF commit
<1>5. CASE WriteState(s)
  BY <1>5, WriteStateLocal DEF commit
<1>6. CASE UndoState(s)
  BY <1>6, UndoStateLocal DEF commit
<1>7. CASE UndoRuns(s)
  BY <1>7, UndoRunsLocal
<1>8. CASE UndoMonth(s)
  BY <1>8, UndoMonthLocal
<1>9. CASE Undone(s)
  BY <1>9, UndoneLocal
<1>10. CASE RecordFailure(s)
  BY <1>10, RecordFailureLocal
<1> QED
  BY <1>1, <1>2, <1>3, <1>4, <1>5, <1>6, <1>7, <1>8, <1>9, <1>10 DEF Thread

\* Steps of no thread change no stored row, and no stage but to begin a
\* batch or to end all threads.
LEMMA BatchLocal ==
    ASSUME TypeOK,
           \/ Tick \/ Daily \/ Manual \/ Kill \/ UNCHANGED vars
           \/ \E s \in Series : Publish(s) \/ Forget(s)
    PROVE  /\ UNCHANGED <<durable, run, merged>>
           /\ \/ UNCHANGED <<stage, plan, commit>>
              \/ /\ source' = source
                 /\ \A s \in Series : stage'[s] \in {"idle", "plan"}
<1>1. CASE Tick \/ UNCHANGED vars
  BY <1>1 DEF Tick, vars, world, durable, threads, commit
<1>2. CASE \E s \in Series : Publish(s) \/ Forget(s)
  BY <1>2 DEF Publish, Forget, durable, threads, commit
<1>3. CASE Daily \/ Manual
  BY <1>3 DEF Daily, Manual, Start, world, durable, commit
<1>4. CASE Kill
  BY <1>4 DEF Kill, world, durable
<1> QED
  BY <1>1, <1>2, <1>3, <1>4

LEMMA InitLocked == Init => Locked
BY StagesApart DEF Init, Locked, OneCommitter, CopiesStayTrue

LEMMA StepLocked == TypeOK /\ Locked /\ [Next]_vars => Locked'
<1> SUFFICES ASSUME TypeOK, Locked, [Next]_vars PROVE Locked'
  OBVIOUS
<1>1. CASE \/ Tick \/ Daily \/ Manual \/ Kill \/ UNCHANGED vars
           \/ \E s \in Series : Publish(s) \/ Forget(s)
  BY <1>1, BatchLocal, StagesApart
  DEF Locked, OneCommitter, CopiesStayTrue, durable, commit
<1>2. ASSUME NEW s \in Series, Thread(s) PROVE Locked'
  <2>1. ASSUME NEW a \in Series, NEW b \in Series,
               stage'[a] \in Committing, stage'[b] \in Committing
        PROVE  a = b
    BY <1>2, <2>1, ThreadLocal DEF Untouched, Locked, OneCommitter, LockFree
  <2>2. ASSUME NEW a \in Series, NEW u \in Series, a # u,
               stage'[a] \in Committing
        PROVE  backup'[a].runs[u] = runs'[u] /\ backup'[a].state[u] = state'[u]
    <3>1. CASE a = s
      BY <1>2, <2>2, <3>1, ThreadLocal DEF Untouched, Locked, CopiesStayTrue
    <3>2. CASE a # s
      <4>1. stage[a] \in Committing /\ backup'[a] = backup[a]
        BY <1>2, <2>2, <3>2, ThreadLocal DEF Untouched
      <4>2. runs'[u] = runs[u] /\ state'[u] = state[u]
        BY <1>2, <2>2, <4>1, ThreadLocal
        DEF Untouched, Locked, OneCommitter, LockFree
      <4> QED
        BY <2>2, <4>1, <4>2 DEF Locked, CopiesStayTrue
    <3> QED
      BY <3>1, <3>2
  <2> QED
    BY <2>1, <2>2 DEF Locked, OneCommitter, CopiesStayTrue
<1> QED
  BY <1>1, <1>2 DEF Next

LEMMA TypesAndLock == Spec => [](TypeOK /\ Locked)
<1> QED
  BY InitTypes, InitLocked, StepTypes, StepLocked, PTL DEF Spec

\* The failure of one series never reaches another one's rows, though its
\* undo restores whole copies of the shared files (commit_success, _restore).
THEOREM SeriesStayIsolated == Spec => SeriesIsolated
<1>1. ASSUME TypeOK, Locked, [Next]_vars
      PROVE  [\A s \in Series :
                stage[s] \in {"idle", "plan", "fetch", "commit"} =>
                   /\ bronze'[s] = bronze[s]
                   /\ runs'[s] = runs[s]
                   /\ state'[s] = state[s]]_vars
  <2>1. CASE \/ Tick \/ Daily \/ Manual \/ Kill \/ UNCHANGED vars
             \/ \E s \in Series : Publish(s) \/ Forget(s)
    BY <1>1, <2>1, BatchLocal DEF durable
  <2>2. ASSUME NEW s \in Series, Thread(s), NEW u \in Series,
               stage[u] \in {"idle", "plan", "fetch", "commit"}
        PROVE  bronze'[u] = bronze[u] /\ runs'[u] = runs[u] /\ state'[u] = state[u]
    BY <1>1, <2>2, ThreadLocal, StagesApart DEF Untouched
  <2> QED
    BY <1>1, <2>1, <2>2 DEF Next
<1> QED
  BY <1>1, TypesAndLock, PTL DEF Spec, SeriesIsolated

-----------------------------------------------------------------------------
(* Mixtures: what is stored while a commit or its undo is under way.       *)

\* Frame cur is old with some months of new, written in calendar order.
Between(old, cur, new) ==
    /\ Observed(old) \subseteq Observed(new)
    /\ \A d \in Days : cur[d] = old[d] \/ cur[d] = new[d]
    /\ \A d, e \in Days :
         cur[d] # old[d] /\ cur[e] # new[e] => MonthOf(d) < MonthOf(e)

\* A store that holds frame f misses nothing of src for good.
Serves(src, f) ==
    /\ Latest(f) <= Latest(src)
    /\ \A d \in Observed(src) : f[d] = src[d] \/ d >= Latest(f) - Overlap

LEMMA MonthsBounded == Months \subseteq 0 .. LastDay
<1>1. ASSUME NEW d \in Days PROVE MonthOf(d) \in 0 .. LastDay
  <2> DEFINE q == (d - 1) \div MonthLength
  <2>1. d \in 1 .. LastDay /\ MonthLength \in Nat \ {0}
    BY Bounds DEF Days
  <2>2. q \in Nat /\ q * MonthLength <= d - 1
    BY <2>1
  <2>3. q <= q * MonthLength
    BY <2>1, <2>2
  <2> HIDE DEF q
  <2>4. q + 1 \in 0 .. LastDay
    BY <2>1, <2>2, <2>3, Bounds
  <2> QED
    BY <2>4 DEF MonthOf, q
<1> QED
  BY <1>1 DEF Months

LEMMA BetweenObserved ==
    ASSUME NEW old \in Frames, NEW cur \in Frames, NEW new \in Frames,
           Between(old, cur, new)
    PROVE  /\ Observed(old) \subseteq Observed(cur)
           /\ Observed(cur) \subseteq Observed(new)
           /\ Latest(old) <= Latest(cur) /\ Latest(cur) <= Latest(new)
<1>1. /\ Observed(old) \subseteq Observed(cur)
      /\ Observed(cur) \subseteq Observed(new)
  BY DEF Between, Observed
<1> QED
  BY <1>1, LatestMonotone

\* The start of a commit.
LEMMA BetweenStart ==
    ASSUME NEW old \in Frames, NEW new \in Frames,
           Observed(old) \subseteq Observed(new)
    PROVE  /\ Between(old, old, new)
           /\ \A d \in Days : old[d] # new[d] => MonthOf(d) \in ChangedMonths(old, new)
BY DEF Between, ChangedMonths

\* The oldest month still to write is written.
LEMMA BetweenWrite ==
    ASSUME NEW old \in Frames, NEW cur \in Frames, NEW new \in Frames,
           Between(old, cur, new),
           NEW l \in SUBSET Months, l # {},
           \A d \in Days : cur[d] # new[d] => MonthOf(d) \in l
    PROVE  LET next == WithMonth(cur, new, Min(l))
           IN  /\ Between(old, next, new)
               /\ \A d \in Days : next[d] # new[d] => MonthOf(d) \in l \ {Min(l)}
<1> DEFINE m == Min(l)
           next == WithMonth(cur, new, m)
<1>1. l \in SUBSET Nat
  BY MonthsBounded, Bounds
<1>2. m \in Nat /\ \A x \in l : m <= x
  BY <1>1, MinNat
<1> HIDE DEF m
<1>3. \A d \in Days : next[d] = IF MonthOf(d) = m THEN new[d] ELSE cur[d]
  BY DEF WithMonth
<1> HIDE DEF next
<1>4. \A d \in Days : next[d] # new[d] => MonthOf(d) \in l \ {m} /\ cur[d] # new[d]
  BY <1>3
<1>5. ASSUME NEW d \in Days, NEW e \in Days, next[d] # old[d], next[e] # new[e]
      PROVE  MonthOf(d) < MonthOf(e)
  <2>1. MonthOf(e) \in l \ {m} /\ cur[e] # new[e]
    BY <1>4, <1>5
  <2>2. CASE MonthOf(d) = m
    <3>1. MonthOf(e) \in Nat /\ m <= MonthOf(e) /\ MonthOf(e) # m
      BY <1>1, <1>2, <2>1
    <3> QED
      BY <1>2, <2>2, <3>1
  <2>3. CASE MonthOf(d) # m
    BY <1>3, <1>5, <2>1, <2>3 DEF Between
  <2> QED
    BY <2>2, <2>3
<1>6. \A d \in Days : next[d] = old[d] \/ next[d] = new[d]
  BY <1>3 DEF Between
<1> QED
  BY <1>4, <1>5, <1>6 DEF Between, next, m

\* The newest month still to restore is restored.
LEMMA BetweenUndo ==
    ASSUME NEW old \in Frames, NEW cur \in Frames, NEW new \in Frames,
           Between(old, cur, new),
           NEW l \in SUBSET Months, l # {},
           \A d \in Days : cur[d] # old[d] => MonthOf(d) \in l
    PROVE  LET next == WithMonth(cur, old, Max(l))
           IN  /\ Between(old, next, new)
               /\ \A d \in Days : next[d] # old[d] => MonthOf(d) \in l \ {Max(l)}
<1> DEFINE m == Max(l)
           next == WithMonth(cur, old, m)
<1>1. l \in SUBSET (0 .. LastDay)
  BY MonthsBounded
<1>2. m \in l /\ \A x \in l : x <= m
  BY <1>1, MaxNat, Bounds
<1> HIDE DEF m
<1>3. \A d \in Days : next[d] = IF MonthOf(d) = m THEN old[d] ELSE cur[d]
  BY DEF WithMonth
<1> HIDE DEF next
<1>4. \A d \in Days : next[d] # old[d] => MonthOf(d) \in l \ {m} /\ cur[d] # old[d]
  BY <1>3
<1>5. ASSUME NEW d \in Days, NEW e \in Days, next[d] # old[d], next[e] # new[e]
      PROVE  MonthOf(d) < MonthOf(e)
  <2>1. MonthOf(d) \in l \ {m} /\ cur[d] # old[d]
    BY <1>4, <1>5
  <2>2. CASE MonthOf(e) = m
    <3>1. /\ MonthOf(d) \in 0 .. LastDay /\ m \in 0 .. LastDay
          /\ MonthOf(d) <= m /\ MonthOf(d) # m
      BY <1>1, <1>2, <2>1
    <3> QED
      BY <2>2, <3>1, Bounds
  <2>3. CASE MonthOf(e) # m
    BY <1>3, <1>5, <2>1, <2>3 DEF Between
  <2> QED
    BY <2>2, <2>3
<1>6. \A d \in Days : next[d] = old[d] \/ next[d] = new[d]
  BY <1>3 DEF Between
<1> QED
  BY <1>4, <1>5, <1>6 DEF Between, next, m

\* A mixture ordered by month opens no gap: were it to hold a day newer than
\* an unwritten one, the newer month would have been written first.
LEMMA BetweenServes ==
    ASSUME NEW src \in Frames, NEW old \in Frames, NEW cur \in Frames,
           NEW new \in Frames,
           Between(old, cur, new), Serves(src, old), Serves(src, new)
    PROVE  Serves(src, cur)
<1>1. /\ Latest(old) \in Nat /\ Latest(cur) \in Nat /\ Latest(new) \in Nat
      /\ Latest(src) \in Nat
      /\ Latest(old) <= Latest(cur) /\ Latest(cur) <= Latest(new)
  BY BetweenObserved, LatestIsMax, Bounds
<1>2. ASSUME NEW d \in Observed(src), cur[d] # src[d], d < Latest(cur) - Overlap
      PROVE  FALSE
  <2> DEFINE l == Latest(cur)
  <2>1. d \in Days /\ d \in Nat
    BY Bounds DEF Observed, Days
  <2>2. new[d] = src[d]
    BY <1>1, <1>2, <2>1, Bounds DEF Serves
  <2>3. d >= Latest(old) - Overlap
    BY <1>2, <2>1, <2>2 DEF Serves, Between
  <2>4. l \in Observed(cur) /\ l \in Days
    BY <1>1, <1>2, <2>1, LatestIsMax, Bounds DEF Observed
  <2>5. l \notin Observed(old)
    BY <1>1, <1>2, <2>1, <2>3, LatestIsMax, Bounds
  <2>6. cur[l] # old[l]
    BY <2>4, <2>5 DEF Observed
  <2>7. MonthOf(l) < MonthOf(d)
    BY <1>2, <2>1, <2>2, <2>4, <2>6 DEF Between
  <2> QED
    BY <1>1, <1>2, <2>1, <2>4, <2>7, MonthsOrdered, Bounds
<1>3. \A d \in Observed(src) : d \in Int
  BY Bounds DEF Observed, Days
<1> QED
  BY <1>1, <1>2, <1>3, Bounds DEF Serves

\* What the source does is within reach of every frame that served it.
LEMMA SourceMoves ==
    ASSUME TypeOK, NEW s \in Series, Publish(s) \/ Forget(s),
           NEW u \in Series, NEW f \in Frames, Serves(source[u], f)
    PROVE  Serves(source'[u], f)
<1>0. source[u] \in Frames /\ source'[u] \in Frames
  BY BatchTypes DEF TypeOK
<1>1. /\ Latest(f) \in Nat /\ Latest(source[u]) \in Nat /\ Latest(source'[u]) \in Nat
      /\ Latest(f) <= Latest(source[u])
  BY <1>0, LatestIsMax, Bounds DEF Serves
<1>2. CASE u # s
  BY <1>2, Domains DEF Publish, Forget
<1>3. CASE u = s /\ Publish(s)
  <2>1. PICK d \in 1 .. today, v \in 1 .. Revisions :
          /\ d >= Latest(source[s]) - Overlap
          /\ source' = [source EXCEPT ![s][d] = v]
    BY <1>3 DEF Publish
  <2>2. d \in Days
    BY Bounds DEF TypeOK, Days
  <2>3. source'[u] = [source[u] EXCEPT ![d] = v] /\ v # 0
    BY <1>3, <2>1, Domains, Bounds
  <2>4. /\ Observed(source[u]) \subseteq Observed(source'[u])
        /\ Observed(source'[u]) \subseteq Observed(source[u]) \cup {d}
        /\ \A e \in Days \ {d} : source'[u][e] = source[u][e]
    BY <1>0, <2>2, <2>3 DEF Observed, Frames
  <2>5. Latest(source[u]) <= Latest(source'[u])
    BY <1>0, <2>4, LatestMonotone
  <2>6. d >= Latest(f) - Overlap
    BY <1>1, <1>3, <2>1, <2>2, Bounds DEF Days
  <2>7. ASSUME NEW e \in Observed(source'[u])
        PROVE  f[e] = source'[u][e] \/ e >= Latest(f) - Overlap
    BY <2>4, <2>6 DEF Serves, Observed
  <2> QED
    BY <1>1, <2>5, <2>7 DEF Serves
<1>4. CASE u = s /\ Forget(s)
  <2>1. PICK d \in Observed(source[s]) \ {Latest(source[s])} :
          source' = [source EXCEPT ![s][d] = 0]
    BY <1>4 DEF Forget
  <2>2. source'[u] = [source[u] EXCEPT ![d] = 0]
    BY <1>4, <2>1, Domains
  <2>3. /\ Observed(source'[u]) = Observed(source[u]) \ {d}
        /\ \A e \in Observed(source'[u]) : source'[u][e] = source[u][e]
    BY <1>0, <2>2 DEF Observed, Frames
  <2>4. Latest(source[u]) # 0 => Latest(source[u]) \in Observed(source'[u])
    BY <1>0, <1>4, <2>1, <2>3, LatestIsMax
  <2>5. Latest(source[u]) <= Latest(source'[u])
    BY <1>0, <1>1, <2>4, LatestIsMax
  <2> QED
    BY <1>1, <2>3, <2>5 DEF Serves
<1> QED
  BY <1>2, <1>3, <1>4

\* The window Plan chose still starts and ends where it should when the
\* merge reads the history again.
WindowFits(s) ==
    /\ plan[s].first # 0 => /\ Latest(bronze[s]) # 0
                            /\ plan[s].first = WindowStart(Latest(bronze[s]))
    /\ Latest(bronze[s]) <= plan[s].last

\* The merge of a window into the history keeps the history and what the
\* source offers outside the window is stored, or near its end.
LEMMA MergeServes ==
    ASSUME TypeOK, NEW s \in Series, WindowFits(s), Serves(source[s], bronze[s])
    PROVE  LET new == Merge(bronze[s], Delivered(s))
           IN  /\ Observed(bronze[s]) \subseteq Observed(new)
               /\ Serves(source[s], new)
<1> DEFINE b == bronze[s]
           src == source[s]
           del == Delivered(s)
           new == Merge(b, del)
           w == IF s \in FullFile THEN WholeFile(s) ELSE DateRange(s)
<1>1. b \in Frames /\ src \in Frames /\ del \in Frames /\ new \in Frames
  BY DeliveredType, MergeType DEF TypeOK
<1>2. /\ plan[s].first \in 0 .. LastDay /\ plan[s].last \in Days
      /\ WindowFits(s) /\ Serves(src, b)
  BY DEF TypeOK
<1>3. \A d \in Days : /\ del[d] = (IF d \in w THEN src[d] ELSE 0)
                      /\ new[d] = (IF del[d] # 0 THEN del[d] ELSE b[d])
  BY DEF Delivered, Merge
<1>4. \A d \in Days : \/ d \in w
                      \/ plan[s].first # 0 /\ d < plan[s].first
                      \/ d > plan[s].last
  BY <1>2, Bounds DEF WholeFile, DateRange, Days
<1>5. Latest(b) \in 0 .. LastDay /\ Latest(src) \in 0 .. LastDay
      /\ Latest(new) \in 0 .. LastDay
  BY <1>1, LatestIsMax
<1>6. w = Days \/ \A d \in w : d <= plan[s].last
  BY <1>2, Bounds DEF WholeFile, DateRange, Days
<1> HIDE DEF del, new, w
<1>7. Observed(b) \subseteq Observed(new)
  BY <1>3 DEF Observed
<1>8. \A d \in Observed(new) : d \in Observed(b) \/ (d \in Observed(src) /\ d \in w)
  BY <1>3 DEF Observed
<1>9. Latest(new) <= Latest(src)
  <2>1. CASE Observed(new) = {}
    BY <1>1, <1>5, <2>1, LatestIsMax, Bounds
  <2>2. CASE Latest(new) \in Observed(b)
    BY <1>1, <1>2, <1>5, <2>2, LatestIsMax, Bounds DEF Serves
  <2>3. CASE Latest(new) \in Observed(src)
    BY <1>1, <2>3, LatestIsMax
  <2> QED
    BY <1>1, <1>8, <2>1, <2>2, <2>3, LatestIsMax
<1>10. w = Days \/ Latest(new) <= plan[s].last
  <2>1. CASE Observed(new) = {}
    BY <1>1, <1>2, <1>5, <2>1, LatestIsMax, Bounds DEF Days
  <2>2. CASE Latest(new) \in Observed(b)
    <3>1. Latest(new) <= Latest(b) /\ Latest(b) <= plan[s].last
      BY <1>1, <1>2, <2>2, LatestIsMax DEF WindowFits
    <3> QED
      BY <1>2, <1>5, <3>1, Bounds DEF Days
  <2>3. CASE Latest(new) \in w
    BY <1>6, <2>3
  <2> QED
    BY <1>1, <1>8, <2>1, <2>2, <2>3, LatestIsMax
<1>11. ASSUME NEW d \in Observed(src)
       PROVE  new[d] = src[d] \/ d >= Latest(new) - Overlap
  <2>1. d \in Days /\ src[d] # 0 /\ d \in Int
    BY Bounds DEF Observed, Days
  <2>2. CASE d \in w
    BY <1>3, <2>1, <2>2
  <2>3. CASE d \notin w /\ d > plan[s].last
    BY <1>2, <1>5, <1>10, <2>1, <2>3, Bounds DEF Days
  <2>4. CASE d \notin w /\ plan[s].first # 0 /\ d < plan[s].first
    <3>1. d < Latest(b) - Overlap
      BY <1>2, <1>5, <2>1, <2>4, WindowStartType DEF WindowFits
    <3>2. b[d] = src[d]
      BY <1>2, <1>5, <2>1, <3>1, Bounds DEF Serves
    <3> QED
      BY <1>3, <2>1, <2>4, <3>2
  <2> QED
    BY <1>4, <2>1, <2>2, <2>3, <2>4
<1> QED
  BY <1>7, <1>9, <1>11 DEF Serves, new, del

LEMMA UnavailableIsStored ==
    ASSUME TypeOK, NEW s \in Series
    PROVE  Unavailable(s) = bronze[s]
BY DEF Unavailable, Merge, Empty, TypeOK, Frames

-----------------------------------------------------------------------------
(* The invariant of one series.                                            *)

\* What is stored serves, and the cached newest observation is covered by it.
StoreSound(s) ==
    /\ Serves(source[s], bronze[s])
    /\ state[s] <= Latest(bronze[s])
    /\ stage[s] = "fetch" => WindowFits(s)
    /\ stage[s] = "commit" => /\ Observed(bronze[s]) \subseteq Observed(merged[s])
                              /\ Serves(source[s], merged[s])

\* The months are between the copies and the prepared frame.
CommitSound(s) ==
    /\ stage[s] \in Committing =>
         /\ Between(backup[s].frame, bronze[s], merged[s])
         /\ Serves(source[s], backup[s].frame) /\ Serves(source[s], merged[s])
         /\ backup[s].state[s] <= Latest(backup[s].frame)
         /\ stage[s] # "undoState" => state[s] = backup[s].state[s]
    /\ stage[s] \in {"months", "state"} =>
         \A d \in Days : bronze[s][d] # merged[s][d] => MonthOf(d) \in left[s]
    /\ stage[s] = "state" => left[s] = {}
    /\ stage[s] = "undoMonths" =>
         \A d \in Days : bronze[s][d] # backup[s].frame[d] => MonthOf(d) \in left[s]

\* A run has its success row only while its months are stored.
RowsSound(s) ==
    /\ \A n \in RunIds : n > run[s] => runs[s][n] = "none"
    /\ stage[s] \in Committing =>
         \A n \in RunIds : n > run[s] => backup[s].runs[s][n] = "none"
    /\ run[s] \in 1 .. MaxRuns - 1 =>
         /\ stage[s] \in {"fetch", "commit", "months", "undoMonths"} =>
              runs[s][run[s]] # "success"
         /\ stage[s] \in Committing => backup[s].runs[s][run[s]] # "success"
         /\ runs[s][run[s]] = "success" => bronze[s] = merged[s]

SeriesSound == \A s \in Series : StoreSound(s) /\ CommitSound(s) /\ RowsSound(s)

\* The frames a series deals with.
LEMMA SeriesFrames ==
    ASSUME TypeOK, NEW s \in Series
    PROVE  /\ source[s] \in Frames /\ bronze[s] \in Frames
           /\ merged[s] \in Frames /\ backup[s].frame \in Frames
           /\ left[s] \in SUBSET Months
           /\ runs[s] \in RunRows /\ backup[s].runs[s] \in RunRows
           /\ run[s] \in 0 .. MaxRuns
           /\ state[s] \in 0 .. LastDay /\ backup[s].state[s] \in 0 .. LastDay
BY DEF TypeOK

LEMMA InitSound == Init => SeriesSound
<1> SUFFICES ASSUME Init, NEW s \in Series
             PROVE  StoreSound(s) /\ CommitSound(s) /\ RowsSound(s)
  BY DEF SeriesSound
<1>1. source[s] = Empty /\ bronze[s] = Empty /\ merged[s] = Empty
      /\ stage[s] = "idle" /\ state[s] = 0 /\ run[s] = 0
      /\ runs[s] = [n \in RunIds |-> "none"]
  BY DEF Init, NoRuns
<1>2. Observed(Empty) = {} /\ Latest(Empty) = 0
  BY DEF Observed, Empty, Latest
<1> QED
  BY <1>1, <1>2, StagesApart, Bounds
  DEF StoreSound, CommitSound, RowsSound, Serves

\* A series a step leaves alone stays sound.
LEMMA UntouchedSound ==
    ASSUME NEW s \in Series, StoreSound(s), CommitSound(s), RowsSound(s),
           Untouched(s), source'[s] = source[s]
    PROVE  StoreSound(s)' /\ CommitSound(s)' /\ RowsSound(s)'
BY DEF Untouched, StoreSound, CommitSound, RowsSound, WindowFits

\* Steps of no thread.
LEMMA BatchSound ==
    ASSUME TypeOK, NEW s \in Series, StoreSound(s), CommitSound(s), RowsSound(s),
           \/ Tick \/ Daily \/ Manual \/ Kill \/ UNCHANGED vars
           \/ \E u \in Series : Publish(u) \/ Forget(u)
    PROVE  StoreSound(s)' /\ CommitSound(s)' /\ RowsSound(s)'
<1>0. UNCHANGED <<bronze, runs, state, run, merged>>
  BY BatchLocal DEF durable
<1>1. CASE Tick \/ UNCHANGED vars
  <2>1. Untouched(s) /\ source'[s] = source[s]
    BY <1>1 DEF Tick, vars, world, durable, threads, commit, Untouched
  <2> QED
    BY <2>1, UntouchedSound
<1>2. ASSUME NEW u \in Series, Publish(u) \/ Forget(u)
      PROVE  StoreSound(s)' /\ CommitSound(s)' /\ RowsSound(s)'
  <2>1. UNCHANGED <<bronze, runs, state, stage, plan, run, merged, left, backup>>
    BY <1>2 DEF Publish, Forget, durable, threads, commit
  <2>2. \A f \in Frames : Serves(source[s], f) => Serves(source'[s], f)
    BY <1>2, SourceMoves
  <2>3. /\ bronze[s] \in Frames /\ merged[s] \in Frames
        /\ backup[s].frame \in Frames
    BY SeriesFrames
  <2> QED
    BY <2>1, <2>2, <2>3 DEF StoreSound, CommitSound, RowsSound, WindowFits
<1>3. CASE source' = source /\ \A u \in Series : stage'[u] \in {"idle", "plan"}
  <2>1. stage'[s] \in {"idle", "plan"}
    BY <1>3
  <2> QED
    BY <1>0, <1>3, <2>1, StagesApart DEF StoreSound, CommitSound, RowsSound
<1>4. CASE Daily \/ Manual \/ Kill
  BY <1>3, <1>4 DEF Daily, Manual, Start, Kill, world
<1> QED
  BY <1>1, <1>2, <1>4

\* A run id is planned, and its window from the history as it is.
LEMMA PlanSound ==
    ASSUME TypeOK, NEW s \in Series, StoreSound(s), CommitSound(s), RowsSound(s),
           Plan(s)
    PROVE  StoreSound(s)' /\ CommitSound(s)' /\ RowsSound(s)'
<1>1. /\ stage[s] = "plan"
      /\ UNCHANGED <<source, bronze, runs, state, merged, left, backup>>
  BY DEF Plan, world, durable, commit
<1>2. CASE stage'[s] = "idle" /\ UNCHANGED <<plan, run>>
  BY <1>1, <1>2, StagesApart DEF StoreSound, CommitSound, RowsSound
<1>3. CASE /\ stage'[s] = "fetch"
           /\ plan' = [plan EXCEPT ![s].first = Planned(s)]
           /\ run' = [run EXCEPT ![s] = Min({run[s] + 1, MaxRuns})]
           /\ ~(plan[s].last < Latest(bronze[s]))
  <2>1. Latest(bronze[s]) \in 0 .. LastDay /\ plan[s].last \in Days
    BY SeriesFrames, LatestIsMax DEF TypeOK
  <2>2. plan'[s].first = Planned(s) /\ plan'[s].last = plan[s].last
    BY <1>3 DEF TypeOK
  <2>3. Latest(bronze[s]) <= plan[s].last
    BY <1>3, <2>1, Bounds DEF Days
  <2>4. WindowFits(s)'
    BY <1>1, <2>2, <2>3 DEF WindowFits, Planned
  <2>5. run[s] \in 0 .. MaxRuns /\ run'[s] = Min({run[s] + 1, MaxRuns})
    BY <1>3, Domains, SeriesFrames
  <2>6. run'[s] = IF run[s] < MaxRuns THEN run[s] + 1 ELSE MaxRuns
    BY <2>5, MinOfTwo, Bounds
  <2>7. \A n \in RunIds : n > run'[s] => n > run[s]
    BY <2>5, <2>6, Bounds DEF RunIds
  <2>8. run'[s] \in 1 .. MaxRuns - 1 => run'[s] \in RunIds /\ run'[s] > run[s]
    BY <2>5, <2>6, Bounds DEF RunIds
  <2>9. run'[s] \in 1 .. MaxRuns - 1 => runs[s][run'[s]] = "none"
    BY <2>8 DEF RowsSound
  <2>10. StoreSound(s)'
    BY <1>1, <1>3, <2>4 DEF StoreSound
  <2>11. CommitSound(s)'
    BY <1>3, StagesApart DEF CommitSound
  <2>12. RowsSound(s)'
    BY <1>1, <1>3, <2>7, <2>9, StagesApart DEF RowsSound
  <2> QED
    BY <2>10, <2>11, <2>12
<1> QED
  BY <1>2, <1>3, Domains DEF Plan, Goto, Planned

LEMMA FetchSound ==
    ASSUME TypeOK, NEW s \in Series, StoreSound(s), CommitSound(s), RowsSound(s),
           Retry(s) \/ Fetch(s)
    PROVE  StoreSound(s)' /\ CommitSound(s)' /\ RowsSound(s)'
<1>1. /\ stage[s] = "fetch"
      /\ UNCHANGED <<source, bronze, runs, state, plan, run, left, backup>>
  BY DEF Retry, Fetch, world, durable, commit
<1>2. CASE Retry(s)
  BY <1>1, <1>2 DEF Retry, StoreSound, CommitSound, RowsSound, WindowFits
<1>3. CASE stage'[s] = "failed" /\ merged'[s] = merged[s]
  BY <1>1, <1>3, StagesApart DEF StoreSound, CommitSound, RowsSound
<1>4. CASE /\ stage'[s] = "commit"
           /\ \/ merged'[s] = Merge(bronze[s], Delivered(s))
              \/ merged'[s] = Unavailable(s)
  <2>1. Observed(bronze[s]) \subseteq Observed(merged'[s])
        /\ Serves(source[s], merged'[s])
    BY <1>1, <1>4, MergeServes, UnavailableIsStored DEF StoreSound
  <2>2. StoreSound(s)'
    BY <1>1, <1>4, <2>1 DEF StoreSound
  <2>3. CommitSound(s)'
    BY <1>4, StagesApart DEF CommitSound
  <2>4. RowsSound(s)'
    BY <1>1, <1>4, StagesApart DEF RowsSound
  <2> QED
    BY <2>2, <2>3, <2>4
<1> QED
  BY <1>2, <1>3, <1>4, Domains DEF Fetch, Goto

LEMMA AcquireSound ==
    ASSUME TypeOK, NEW s \in Series, StoreSound(s), CommitSound(s), RowsSound(s),
           Acquire(s)
    PROVE  StoreSound(s)' /\ CommitSound(s)' /\ RowsSound(s)'
<1>1. /\ stage[s] = "commit"
      /\ UNCHANGED <<source, bronze, runs, state, run, merged>>
  BY AcquireLocal DEF durable, threads
<1>2. CASE stage'[s] = "failed"
  BY <1>1, <1>2, StagesApart DEF StoreSound, CommitSound, RowsSound
<1>3. CASE /\ stage'[s] = "months"
           /\ backup'[s] = [frame |-> bronze[s], runs |-> runs, state |-> state]
           /\ left'[s] = ChangedMonths(bronze[s], merged[s])
  <2>1. /\ backup'[s].frame = bronze[s] /\ backup'[s].runs[s] = runs[s]
        /\ backup'[s].state[s] = state[s]
    BY <1>3
  <2>2. /\ Between(bronze[s], bronze[s], merged[s])
        /\ \A d \in Days : bronze[s][d] # merged[s][d] => MonthOf(d) \in left'[s]
    BY <1>1, <1>3, BetweenStart, SeriesFrames DEF StoreSound
  <2>3. StoreSound(s)'
    BY <1>1, <1>3 DEF StoreSound
  <2>4. CommitSound(s)'
    BY <1>1, <1>3, <2>1, <2>2 DEF StoreSound, CommitSound
  <2>5. RowsSound(s)'
    BY <1>1, <1>3, <2>1 DEF RowsSound
  <2> QED
    BY <2>3, <2>4, <2>5
<1> QED
  BY <1>2, <1>3, AcquireLocal

LEMMA WriteMonthSound ==
    ASSUME TypeOK, TypeOK', NEW s \in Series,
           StoreSound(s), CommitSound(s), RowsSound(s), WriteMonth(s)
    PROVE  StoreSound(s)' /\ CommitSound(s)' /\ RowsSound(s)'
<1> DEFINE old == backup[s].frame
           next == WithMonth(bronze[s], merged[s], Min(left[s]))
<1>1. /\ stage[s] = "months" /\ left[s] # {}
      /\ UNCHANGED <<source, runs, state, run, merged, backup>>
      /\ stage'[s] \in {"months", "undoState"}
      /\ stage'[s] = "months" => bronze'[s] = next
      /\ bronze'[s] \in {bronze[s], next}
      /\ left'[s] = left[s] \ {Min(left[s])}
  BY WriteMonthLocal DEF threads
<1>2. /\ Between(old, bronze[s], merged[s])
      /\ \A d \in Days : bronze[s][d] # merged[s][d] => MonthOf(d) \in left[s]
      /\ Serves(source[s], old) /\ Serves(source[s], merged[s])
      /\ backup[s].state[s] <= Latest(old) /\ state[s] = backup[s].state[s]
  BY <1>1, StagesApart DEF CommitSound
<1>3. /\ Between(old, next, merged[s])
      /\ \A d \in Days : next[d] # merged[s][d] => MonthOf(d) \in left'[s]
  BY <1>1, <1>2, BetweenWrite, SeriesFrames
<1> HIDE DEF next
<1>4. bronze'[s] \in Frames /\ Between(old, bronze'[s], merged[s])
  BY <1>1, <1>2, <1>3, SeriesFrames DEF TypeOK
<1>5. Serves(source[s], bronze'[s])
  BY <1>2, <1>4, BetweenServes, SeriesFrames
<1>6. state[s] <= Latest(bronze'[s])
  <2>1. Latest(old) <= Latest(bronze'[s])
    BY <1>4, BetweenObserved, SeriesFrames
  <2> QED
    BY <1>2, <1>4, <2>1, SeriesFrames, LatestIsMax, Bounds
<1>7. StoreSound(s)'
  BY <1>1, <1>5, <1>6 DEF StoreSound
<1>8. CommitSound(s)'
  BY <1>1, <1>2, <1>3, <1>4 DEF CommitSound
<1>9. RowsSound(s)'
  BY <1>1, StagesApart DEF RowsSound
<1> QED
  BY <1>7, <1>8, <1>9

LEMMA WriteRunSound ==
    ASSUME TypeOK, NEW s \in Series, StoreSound(s), CommitSound(s), RowsSound(s),
           WriteRun(s)
    PROVE  StoreSound(s)' /\ CommitSound(s)' /\ RowsSound(s)'
<1>1. /\ stage[s] = "months" /\ left[s] = {}
      /\ UNCHANGED <<source, bronze, state, run, merged, left, backup>>
      /\ stage'[s] \in {"state", "undoState"}
      /\ runs'[s] \in {runs[s], [runs[s] EXCEPT ![run[s]] = "success"]}
  BY WriteRunLocal DEF threads, commit
<1>2. bronze[s] = merged[s]
  <2>1. \A d \in Days : bronze[s][d] = merged[s][d]
    BY <1>1 DEF CommitSound
  <2> QED
    BY <2>1, SeriesFrames DEF Frames
<1>3. StoreSound(s)'
  BY <1>1 DEF StoreSound
<1>4. CommitSound(s)'
  BY <1>1, StagesApart DEF CommitSound
<1>5. \A n \in RunIds : n > run[s] => runs'[s][n] = "none"
  <2> TAKE n \in RunIds
  <2> HAVE n > run[s]
  <2>1. n # run[s]
    BY SeriesFrames, Bounds DEF RunIds
  <2>2. runs'[s][n] = runs[s][n]
    BY <1>1, <2>1, SeriesFrames DEF RunRows
  <2> QED
    BY <2>2 DEF RowsSound
<1>6. RowsSound(s)'
  BY <1>1, <1>2, <1>5, StagesApart DEF RowsSound
<1> QED
  BY <1>3, <1>4, <1>6

LEMMA WriteStateSound ==
    ASSUME TypeOK, NEW s \in Series, StoreSound(s), CommitSound(s), RowsSound(s),
           WriteState(s)
    PROVE  StoreSound(s)' /\ CommitSound(s)' /\ RowsSound(s)'
<1>1. /\ stage[s] = "state"
      /\ UNCHANGED <<source, bronze, runs, run, merged>>
      /\ stage'[s] \in {"idle", "undoState"}
      /\ stage'[s] = "undoState" => UNCHANGED <<left, backup>>
      /\ state'[s] \in {state[s], Latest(merged[s])}
  BY WriteStateLocal DEF threads, commit
<1>2. bronze[s] = merged[s]
  <2>1. \A d \in Days : bronze[s][d] = merged[s][d]
    BY <1>1 DEF CommitSound
  <2> QED
    BY <2>1, SeriesFrames DEF Frames
<1>3. Latest(bronze[s]) <= Latest(bronze[s])
  BY SeriesFrames, LatestIsMax, Bounds
<1>4. StoreSound(s)'
  BY <1>1, <1>2, <1>3 DEF StoreSound
<1>5. CommitSound(s)'
  BY <1>1, StagesApart DEF CommitSound
<1>6. RowsSound(s)'
  BY <1>1, StagesApart DEF RowsSound
<1> QED
  BY <1>4, <1>5, <1>6

\* The end of a failed commit: no lock and no copies.
LEMMA EndSound ==
    ASSUME NEW s \in Series, StoreSound(s), CommitSound(s), RowsSound(s),
           stage'[s] \in {"failed", "idle"},
           UNCHANGED <<source, run, merged>>,
           bronze'[s] = bronze[s], runs'[s] = runs[s], state'[s] = state[s]
    PROVE  StoreSound(s)' /\ CommitSound(s)' /\ RowsSound(s)'
BY StagesApart DEF StoreSound, CommitSound, RowsSound

LEMMA UndoStateSound ==
    ASSUME TypeOK, Locked, NEW s \in Series,
           StoreSound(s), CommitSound(s), RowsSound(s), UndoState(s)
    PROVE  StoreSound(s)' /\ CommitSound(s)' /\ RowsSound(s)'
<1>1. stage[s] = "undoState" /\ UNCHANGED <<source, bronze, runs, run, merged>>
  BY UndoStateLocal DEF threads
<1>2. CASE stage'[s] = "failed" /\ state'[s] = state[s]
  BY <1>1, <1>2, EndSound
<1>3. CASE /\ stage'[s] = "undoRuns" /\ UNCHANGED <<left, backup>>
           /\ state'[s] = backup[s].state[s]
  <2>1. /\ Between(backup[s].frame, bronze[s], merged[s])
        /\ backup[s].state[s] <= Latest(backup[s].frame)
    BY <1>1, StagesApart DEF CommitSound
  <2>2. /\ Latest(backup[s].frame) <= Latest(bronze[s])
        /\ Latest(backup[s].frame) \in 0 .. LastDay /\ Latest(bronze[s]) \in 0 .. LastDay
    BY <2>1, SeriesFrames, BetweenObserved, LatestIsMax
  <2>3. backup[s].state[s] <= Latest(bronze[s])
    BY <2>1, <2>2, SeriesFrames, Bounds
  <2>4. StoreSound(s)'
    BY <1>1, <1>3, <2>3 DEF StoreSound
  <2>5. CommitSound(s)'
    BY <1>1, <1>3, StagesApart DEF CommitSound
  <2>6. RowsSound(s)'
    BY <1>1, <1>3, StagesApart DEF RowsSound
  <2> QED
    BY <2>4, <2>5, <2>6
<1> QED
  BY <1>2, <1>3, UndoStateLocal DEF commit

LEMMA UndoRunsSound ==
    ASSUME TypeOK, Locked, NEW s \in Series,
           StoreSound(s), CommitSound(s), RowsSound(s), UndoRuns(s)
    PROVE  StoreSound(s)' /\ CommitSound(s)' /\ RowsSound(s)'
<1>1. stage[s] = "undoRuns" /\ UNCHANGED <<source, bronze, state, run, merged>>
  BY UndoRunsLocal DEF threads
<1>2. CASE stage'[s] = "failed" /\ runs'[s] = runs[s]
  BY <1>1, <1>2, EndSound
<1>3. CASE /\ stage'[s] = "undoMonths" /\ UNCHANGED backup
           /\ left'[s] = ChangedMonths(backup[s].frame, merged[s])
           /\ runs'[s] = backup[s].runs[s]
  <2>1. /\ Between(backup[s].frame, bronze[s], merged[s])
    BY <1>1, StagesApart DEF CommitSound
  <2>2. \A d \in Days : bronze[s][d] # backup[s].frame[d] => MonthOf(d) \in left'[s]
    BY <1>3, <2>1 DEF Between, ChangedMonths
  <2>3. StoreSound(s)'
    BY <1>1, <1>3 DEF StoreSound
  <2>4. CommitSound(s)'
    BY <1>1, <1>3, <2>2, StagesApart DEF CommitSound
  <2>5. RowsSound(s)'
    BY <1>1, <1>3, StagesApart DEF RowsSound
  <2> QED
    BY <2>3, <2>4, <2>5
<1> QED
  BY <1>2, <1>3, UndoRunsLocal

LEMMA UndoMonthSound ==
    ASSUME TypeOK, TypeOK', NEW s \in Series,
           StoreSound(s), CommitSound(s), RowsSound(s), UndoMonth(s)
    PROVE  StoreSound(s)' /\ CommitSound(s)' /\ RowsSound(s)'
<1> DEFINE old == backup[s].frame
           next == WithMonth(bronze[s], old, Max(left[s]))
<1>1. /\ stage[s] = "undoMonths" /\ left[s] # {}
      /\ UNCHANGED <<source, runs, state, run, merged>>
  BY UndoMonthLocal DEF threads
<1>2. CASE stage'[s] = "failed" /\ bronze'[s] = bronze[s]
  BY <1>1, <1>2, EndSound
<1>3. CASE /\ stage'[s] = "undoMonths" /\ UNCHANGED backup
           /\ left'[s] = left[s] \ {Max(left[s])}
           /\ bronze'[s] = next
  <2>1. /\ Between(old, bronze[s], merged[s])
        /\ \A d \in Days : bronze[s][d] # old[d] => MonthOf(d) \in left[s]
        /\ Serves(source[s], old) /\ Serves(source[s], merged[s])
        /\ backup[s].state[s] <= Latest(old) /\ state[s] = backup[s].state[s]
    BY <1>1, StagesApart DEF CommitSound
  <2>2. /\ Between(old, next, merged[s])
        /\ \A d \in Days : next[d] # old[d] => MonthOf(d) \in left'[s]
    <3>1. /\ old \in Frames /\ bronze[s] \in Frames /\ merged[s] \in Frames
          /\ left[s] \in SUBSET Months /\ left[s] # {}
      BY <1>1, SeriesFrames
    <3>2. /\ Between(old, next, merged[s])
          /\ \A d \in Days :
               next[d] # old[d] => MonthOf(d) \in left[s] \ {Max(left[s])}
      BY <2>1, <3>1, BetweenUndo
    <3> QED
      BY <1>3, <3>2
  <2>3. next \in Frames
    BY SeriesFrames, WithMonthType
  <2> HIDE DEF next
  <2>4. Serves(source[s], next)
    BY <2>1, <2>2, <2>3, BetweenServes, SeriesFrames
  <2>5. state[s] <= Latest(next)
    <3>1. Latest(old) <= Latest(next)
      BY <2>2, <2>3, BetweenObserved, SeriesFrames
    <3> QED
      BY <2>1, <2>3, <3>1, SeriesFrames, LatestIsMax, Bounds
  <2>6. StoreSound(s)'
    BY <1>1, <1>3, <2>4, <2>5 DEF StoreSound
  <2>7. CommitSound(s)'
    BY <1>1, <1>3, <2>1, <2>2 DEF CommitSound
  <2>8. RowsSound(s)'
    BY <1>1, <1>3, StagesApart DEF RowsSound
  <2> QED
    BY <2>6, <2>7, <2>8
<1> QED
  BY <1>2, <1>3, UndoMonthLocal

LEMMA RecordFailureSound ==
    ASSUME TypeOK, NEW s \in Series, StoreSound(s), CommitSound(s), RowsSound(s),
           RecordFailure(s)
    PROVE  StoreSound(s)' /\ CommitSound(s)' /\ RowsSound(s)'
<1>1. /\ stage[s] = "failed" /\ stage'[s] = "idle"
      /\ UNCHANGED <<source, bronze, state, run, merged>>
      /\ runs'[s] \in {runs[s], [runs[s] EXCEPT ![run[s]] = "failed"]}
  BY RecordFailureLocal DEF threads
<1>2. \A n \in RunIds : n > run[s] => runs'[s][n] = "none"
  <2> TAKE n \in RunIds
  <2> HAVE n > run[s]
  <2>1. n # run[s]
    BY SeriesFrames, Bounds DEF RunIds
  <2>2. runs'[s][n] = runs[s][n]
    BY <1>1, <2>1, SeriesFrames DEF RunRows
  <2> QED
    BY <2>2 DEF RowsSound
<1>3. run[s] \in 1 .. MaxRuns - 1 /\ runs'[s][run[s]] = "success" =>
        runs[s][run[s]] = "success"
  <2> HAVE run[s] \in 1 .. MaxRuns - 1 /\ runs'[s][run[s]] = "success"
  <2>1. run[s] \in RunIds
    BY Bounds DEF RunIds
  <2> QED
    BY <1>1, <2>1, SeriesFrames DEF RunRows
<1>4. StoreSound(s)' /\ CommitSound(s)'
  BY <1>1, StagesApart DEF StoreSound, CommitSound
<1>5. RowsSound(s)'
  BY <1>1, <1>2, <1>3, StagesApart DEF RowsSound
<1> QED
  BY <1>4, <1>5

LEMMA StepSound ==
    TypeOK /\ TypeOK' /\ Locked /\ SeriesSound /\ [Next]_vars => SeriesSound'
<1> SUFFICES ASSUME TypeOK, TypeOK', Locked, SeriesSound, [Next]_vars,
                    NEW s \in Series
             PROVE  StoreSound(s)' /\ CommitSound(s)' /\ RowsSound(s)'
  BY DEF SeriesSound
<1>1. StoreSound(s) /\ CommitSound(s) /\ RowsSound(s)
  BY DEF SeriesSound
<1>2. CASE \/ Tick \/ Daily \/ Manual \/ Kill \/ UNCHANGED vars
           \/ \E u \in Series : Publish(u) \/ Forget(u)
  BY <1>1, <1>2, BatchSound
<1>3. ASSUME NEW u \in Series, u # s, Thread(u)
      PROVE  StoreSound(s)' /\ CommitSound(s)' /\ RowsSound(s)'
  <2>1. Untouched(s) /\ source' = source
    BY <1>3, ThreadLocal
  <2> QED
    BY <1>1, <2>1, UntouchedSound
<1>4. CASE Undone(s)
  <2>1. /\ stage'[s] = "failed" /\ UNCHANGED <<source, run, merged>>
        /\ UNCHANGED <<bronze, runs, state>>
    BY <1>4, UndoneLocal DEF durable, threads
  <2> QED
    BY <1>1, <2>1, EndSound
<1>5. CASE Thread(s)
  BY <1>1, <1>4, <1>5, PlanSound, FetchSound, AcquireSound, WriteMonthSound,
     WriteRunSound, WriteStateSound, UndoStateSound, UndoRunsSound,
     UndoMonthSound, RecordFailureSound
  DEF Thread
<1> QED
  BY <1>2, <1>3, <1>5 DEF Next

-----------------------------------------------------------------------------
(* The theorems.                                                           *)

BronzeInv == TypeOK /\ Locked /\ SeriesSound

\* Types, the lock and the soundness of every series are one inductive
\* invariant of run_series and commit_success.
THEOREM BronzeInvariance == Spec => []BronzeInv
<1>1. Init => BronzeInv
  BY InitTypes, InitLocked, InitSound DEF BronzeInv
<1>2. BronzeInv /\ [Next]_vars => BronzeInv'
  BY StepTypes, StepLocked, StepSound DEF BronzeInv
<1> QED
  BY <1>1, <1>2, PTL DEF Spec

\* No permanent gap: what a source offers is stored, or the next update still
\* asks for it, after any number of torn commits, undos and kills
\* (build_plan, commit_success).
THEOREM NoGapIsPermanent == Spec => []NothingOutOfReach
<1>1. BronzeInv => NothingOutOfReach
  BY DEF BronzeInv, SeriesSound, StoreSound, Serves, NothingOutOfReach
<1> QED
  BY <1>1, BronzeInvariance, PTL

\* The cached last_observed_date claims nothing the months do not hold
\* (advance_state, written last and undone first).
THEOREM StateNeverAhead == Spec => []StateNotAhead
<1>1. BronzeInv => StateNotAhead
  BY DEF BronzeInv, SeriesSound, StoreSound, StateNotAhead
<1> QED
  BY <1>1, BronzeInvariance, PTL

\* A success row of the latest run stands for stored months (commit_success
\* writes it after them and undoes it before them).
THEOREM SuccessRowsAreDurable == Spec => []SuccessIsDurable
<1>1. BronzeInv => SuccessIsDurable
  BY DEF BronzeInv, SeriesSound, RowsSound, SuccessIsDurable
<1> QED
  BY <1>1, BronzeInvariance, PTL

\* Nothing stored before a commit began is ever lost, be it omitted by the
\* source, rewritten by the merge or undone (merge_frames, _restore).
THEOREM HistoryStaysRetained == Spec => HistoryRetained
<1>1. ASSUME BronzeInv, [Next]_vars
      PROVE  [\A s \in Series : \A d \in Observed(bronze[s]) :
                bronze'[s][d] = 0 =>
                  stage[s] = "undoMonths" /\ backup[s].frame[d] = 0]_vars
  <2>1. TypeOK /\ Locked /\ SeriesSound
    BY <1>1 DEF BronzeInv
  <2>2. ASSUME NEW s \in Series, NEW d \in Observed(bronze[s]), bronze'[s][d] = 0
        PROVE  stage[s] = "undoMonths" /\ backup[s].frame[d] = 0
    <3>1. d \in Days /\ bronze[s][d] # 0
      BY DEF Observed
    <3>2. bronze'[s] # bronze[s]
      BY <2>2, <3>1
    <3>3. PICK u \in Series : Thread(u)
      BY <1>1, <2>1, <3>2, BatchLocal DEF Next, durable
    <3>4. u = s
      BY <2>1, <3>2, <3>3, ThreadLocal DEF Untouched
    <3>5. WriteMonth(s) \/ UndoMonth(s)
      <4>1. Plan(s) \/ Retry(s) \/ Fetch(s) => bronze'[s] = bronze[s]
        BY <2>1, FetchLocal DEF durable
      <4>2. Acquire(s) \/ Undone(s) => bronze'[s] = bronze[s]
        BY <2>1, AcquireLocal, UndoneLocal DEF durable
      <4>3. WriteRun(s) \/ WriteState(s) => bronze'[s] = bronze[s]
        BY <2>1, WriteRunLocal, WriteStateLocal
      <4>4. UndoState(s) \/ UndoRuns(s) \/ RecordFailure(s) =>
              bronze'[s] = bronze[s]
        BY <2>1, UndoStateLocal, UndoRunsLocal, RecordFailureLocal
      <4> QED
        BY <3>2, <3>3, <3>4, <4>1, <4>2, <4>3, <4>4 DEF Thread
    <3>6. stage[s] \in Committing => Between(backup[s].frame, bronze[s], merged[s])
      BY <2>1 DEF SeriesSound, CommitSound
    <3>7. CASE WriteMonth(s)
      <4>1. stage[s] \in Committing
        BY <2>1, <3>7, WriteMonthLocal, StagesApart
      <4>2. merged[s][d] # 0
        BY <3>1, <3>6, <4>1 DEF Between, Observed
      <4>3. bronze'[s][d] \in {bronze[s][d], merged[s][d]}
        BY <2>1, <3>1, <3>7, WriteMonthLocal DEF WithMonth
      <4> QED
        BY <2>2, <3>1, <4>2, <4>3
    <3>8. CASE UndoMonth(s)
      <4>1. bronze'[s][d] \in {bronze[s][d], backup[s].frame[d]}
        BY <2>1, <3>1, <3>8, UndoMonthLocal DEF WithMonth
      <4> QED
        BY <2>1, <2>2, <3>1, <3>8, <4>1, UndoMonthLocal
    <3> QED
      BY <3>5, <3>7, <3>8
  <2> QED
    BY <2>2
<1> QED
  BY <1>1, BronzeInvariance, PTL DEF Spec, HistoryRetained
=============================================================================
