-------------------------- MODULE BronzeIngestion --------------------------
(***************************************************************************)
(* One batch after another of Bronze ingestion: BronzeOrchestrator.run_many *)
(* runs every series in a worker thread; a thread plans a window from the  *)
(* stored history, fetches, merges and commits through the filesystem unit *)
(* of work.  The commit rewrites the changed months one file at a time,    *)
(* then the two files all series share (runs, state), under one lock, and  *)
(* undoes itself from in-memory copies when a step raises.  Any step may   *)
(* raise with or without its effect, an undo may raise too, and the whole  *)
(* process may be killed.  Sources publish, revise, and forget meanwhile.  *)
(***************************************************************************)
EXTENDS Integers, FiniteSets, FiniteSetsExt

CONSTANTS Series,
          FullFile,     \* the series whose provider ships its whole file
          Lenient,      \* the series whose provider calls a failed request empty
          LastDay,      \* bound: days of the calendar
          MonthLength,  \* days per Bronze partition
          Revisions,    \* bound: distinct values a source gives to a day
          Overlap,      \* planner overlap_days
          MaxAttempts,  \* RetryPolicy.max_attempts of a request
          MaxRuns,      \* bound: run ids per series; later runs share the last
          MaxFaults     \* bound: raised errors and kills in one behaviour

ASSUME BronzeAssumption ==
    /\ {LastDay, MonthLength, Revisions, MaxAttempts, MaxRuns} \subseteq Nat \ {0}
    /\ {Overlap, MaxFaults} \subseteq Nat

Days   == 1 .. LastDay
RunIds == 1 .. MaxRuns

\* A frame maps every day to its observation; 0 means there is none.
Frames == [Days -> 0 .. Revisions]
Empty  == [d \in Days |-> 0]

Observed(frame) == {d \in Days : frame[d] # 0}
Latest(frame)   == IF Observed(frame) = {} THEN 0 ELSE Max(Observed(frame))

MonthOf(d) == (d - 1) \div MonthLength + 1
Months     == {MonthOf(d) : d \in Days}

ChangedMonths(old, new) == {MonthOf(d) : d \in {e \in Days : old[e] # new[e]}}

\* One month file of frame a replaced by that month of frame b.
WithMonth(a, b, m) == [d \in Days |-> IF MonthOf(d) = m THEN b[d] ELSE a[d]]

\* Variant with a bug: what the fetch window holds replaces the stored rows.
MergeReplacing(existing, incoming) == incoming

\* merge_frames: an upsert; rows the incoming frame lacks are retained.
Merge(existing, incoming) ==
    [d \in Days |-> IF incoming[d] # 0 THEN incoming[d] ELSE existing[d]]

\* Variant with a bug: an update asks for what is new and nothing before.
WindowStartNew(latest) == latest

\* An update asks from Overlap days before the newest stored observation.
WindowStart(latest) == Max({latest - Overlap, 1})

VARIABLES
    today,
    source,     \* series -> frame the provider offers
    bronze,     \* series -> frame in its month files
    runs,       \* series -> run id -> status of its row in the runs file
    state,      \* series -> last_observed_date of its row in the state file
    operation,  \* what the batch was asked for
    stage,      \* series -> where its thread is
    plan,       \* series -> [first, last]: the planned window; first 0: maximum
    run,        \* series -> id of its latest run
    attempts,   \* series -> failed attempts of the request under way
    merged,     \* series -> frame its latest run prepared
    left,       \* series -> months it has still to write, or to restore
    backup,     \* series -> its copies: month files, runs file, state file
    faults

durable == <<bronze, runs, state>>
threads == <<operation, plan, run, attempts, merged>>
commit  == <<left, backup>>
world   == <<today, source>>
vars    == <<world, durable, threads, stage, commit, faults>>

Operations == {"update", "bootstrap", "reconcile"}
Undoing    == {"undoState", "undoRuns", "undoMonths"}
Committing == {"months", "state"} \cup Undoing
Stages     == {"idle", "plan", "fetch", "commit", "failed"} \cup Committing
RunRows    == [RunIds -> {"none", "success", "failed"}]

TypeOK ==
    /\ today \in Days
    /\ source \in [Series -> Frames]
    /\ bronze \in [Series -> Frames]
    /\ runs \in [Series -> RunRows]
    /\ state \in [Series -> 0 .. LastDay]
    /\ operation \in Operations
    /\ stage \in [Series -> Stages]
    /\ plan \in [Series -> [first : 0 .. LastDay, last : Days]]
    /\ run \in [Series -> 0 .. MaxRuns]
    /\ attempts \in [Series -> 0 .. MaxAttempts - 1]
    /\ merged \in [Series -> Frames]
    /\ left \in [Series -> SUBSET Months]
    /\ backup \in [Series -> [frame : Frames, runs : [Series -> RunRows],
                              state : [Series -> 0 .. LastDay]]]
    /\ faults \in 0 .. MaxFaults

NoRuns == [s \in Series |-> [n \in RunIds |-> "none"]]

NoBackup == [frame |-> Empty, runs |-> NoRuns, state |-> [s \in Series |-> 0]]

Init ==
    /\ today = 1
    /\ source = [s \in Series |-> Empty]
    /\ bronze = [s \in Series |-> Empty]
    /\ runs = NoRuns
    /\ state = [s \in Series |-> 0]
    /\ operation = "update"
    /\ stage = [s \in Series |-> "idle"]
    /\ plan = [s \in Series |-> [first |-> 0, last |-> 1]]
    /\ run = [s \in Series |-> 0]
    /\ attempts = [s \in Series |-> 0]
    /\ merged = [s \in Series |-> Empty]
    /\ left = [s \in Series |-> {}]
    /\ backup = [s \in Series |-> NoBackup]
    /\ faults = 0

Raise == faults < MaxFaults /\ faults' = faults + 1

Goto(s, next) == stage' = [stage EXCEPT ![s] = next]

Idle == \A s \in Series : stage[s] = "idle"

(***************************************************************************)
(* The sources.                                                            *)
(***************************************************************************)
Tick ==
    /\ today < LastDay
    /\ today' = today + 1
    /\ UNCHANGED <<source, durable, threads, stage, commit, faults>>

\* A provider publishes or revises a day.  It may be late, but by no more
\* than the planner's overlap behind its newest observation.
Publish(s) ==
    /\ \E d \in 1 .. today, v \in 1 .. Revisions :
        /\ d >= Latest(source[s]) - Overlap
        /\ v # source[s][d]
        /\ source' = [source EXCEPT ![s][d] = v]
    /\ UNCHANGED <<today, durable, threads, stage, commit, faults>>

\* A provider omits or shortens its older history.
Forget(s) ==
    /\ \E d \in Observed(source[s]) \ {Latest(source[s])} :
        source' = [source EXCEPT ![s][d] = 0]
    /\ UNCHANGED <<today, durable, threads, stage, commit, faults>>

(***************************************************************************)
(* run_series up to its commit.                                            *)
(***************************************************************************)
Start(requested) ==
    /\ Idle
    /\ operation' = requested
    /\ stage' = [s \in Series |-> "plan"]
    /\ plan' = [s \in Series |-> [first |-> 0, last |-> today]]
    /\ UNCHANGED <<world, durable, run, attempts, merged, commit, faults>>

Daily  == Start("update")
Manual == Start("bootstrap") \/ Start("reconcile")

\* Stored history alone decides: an empty series is fetched in full, a
\* reconcile too, an update from WindowStart on.
\* A request the history forbids raises before the run has an id.
Plan(s) ==
    LET latest  == Latest(bronze[s])
        refused == \/ operation = "bootstrap" /\ latest # 0
                   \/ operation = "reconcile" /\ latest = 0
                   \/ plan[s].last < latest
        first   == IF latest = 0 \/ operation = "reconcile" THEN 0
                   ELSE WindowStart(latest)
    IN  /\ stage[s] = "plan"
        /\ IF refused
           THEN /\ Goto(s, "idle")
                /\ UNCHANGED <<plan, run>>
           ELSE /\ Goto(s, "fetch")
                /\ plan' = [plan EXCEPT ![s].first = first]
                /\ run' = [run EXCEPT ![s] = Min({run[s] + 1, MaxRuns})]
        /\ UNCHANGED <<world, durable, operation, attempts, merged, commit, faults>>

\* A date-range provider is asked for the planned window.
DateRange(s) == plan[s].first .. plan[s].last

\* A whole file is cut to the window of an update, not of a maximum request.
WholeFile(s) == IF plan[s].first = 0 THEN Days ELSE DateRange(s)

Delivered(s) ==
    LET window == IF s \in FullFile THEN WholeFile(s) ELSE DateRange(s)
    IN  [d \in Days |-> IF d \in window THEN source[s][d] ELSE 0]

\* EcbProvider.fetch: a request that failed in spite of its retries, or that
\* the portal turned away, is an answer without observations.
Unavailable(s) == Merge(bronze[s], Empty)

\* Variant with a bug: statuses and transport errors have budgets of their
\* own, and an error of one kind gives the other kind its budget back.
RetryResetting(s) ==
    /\ stage[s] = "fetch"
    /\ attempts' = [attempts EXCEPT ![s] = (@ + 1) % MaxAttempts]
    /\ UNCHANGED <<world, durable, operation, plan, run, merged, stage, commit,
                   faults>>

\* HttpxTransport.send: a transport error or a transient status, which share
\* one budget, is followed by a pause and another attempt.
Retry(s) ==
    /\ stage[s] = "fetch"
    /\ attempts[s] + 1 < MaxAttempts
    /\ attempts' = [attempts EXCEPT ![s] = @ + 1]
    /\ UNCHANGED <<world, durable, operation, plan, run, merged, stage, commit,
                   faults>>

\* The last attempt, then fetch, _enforce_window and prepare: only the thread
\* of this series ever writes the history they read.
Fetch(s) ==
    /\ stage[s] = "fetch"
    /\ attempts' = [attempts EXCEPT ![s] = 0]
    /\ \/ /\ merged' = [merged EXCEPT ![s] = Merge(bronze[s], Delivered(s))]
          /\ Goto(s, "commit")
          /\ UNCHANGED faults
       \/ /\ s \in Lenient
          /\ merged' = [merged EXCEPT ![s] = Unavailable(s)]
          /\ Goto(s, "commit")
          /\ Raise
       \/ /\ Goto(s, "failed")
          /\ Raise
          /\ UNCHANGED merged
    /\ UNCHANGED <<world, durable, operation, plan, run, commit>>

(***************************************************************************)
(* commit_success, under the orchestrator's write lock.                    *)
(***************************************************************************)
\* The lock is held from the copies to the last write or the end of the undo.
LockFree == \A s \in Series : stage[s] \notin Committing

Release(s) == /\ left' = [left EXCEPT ![s] = {}]
              /\ backup' = [backup EXCEPT ![s] = NoBackup]

\* Variant with a bug: the commit does not wait for the lock.
AcquireUnlocked(s) ==
    /\ stage[s] = "commit"
    /\ backup' = [backup EXCEPT
         ![s] = [frame |-> bronze[s], runs |-> runs, state |-> state]]
    /\ left' = [left EXCEPT ![s] = ChangedMonths(bronze[s], merged[s])]
    /\ Goto(s, "months")
    /\ UNCHANGED <<world, durable, threads, faults>>

\* Copies of everything the commit will touch; a copy that cannot be read
\* raises before anything is written.
Acquire(s) ==
    /\ stage[s] = "commit"
    /\ LockFree
    /\ \/ /\ backup' = [backup EXCEPT
               ![s] = [frame |-> bronze[s], runs |-> runs, state |-> state]]
          /\ left' = [left EXCEPT ![s] = ChangedMonths(bronze[s], merged[s])]
          /\ Goto(s, "months")
          /\ UNCHANGED faults
       \/ /\ Goto(s, "failed")
          /\ Raise
          /\ UNCHANGED commit
    /\ UNCHANGED <<world, durable, threads>>

\* A step that writes one file: it returns, or raises before its rename, or
\* raises after it (the directory fsync).  Assigns the file, stage, faults.
Write(s, file, new, next) ==
    \/ file' = new /\ Goto(s, next) /\ UNCHANGED faults
    \/ file' \in {file, new} /\ Goto(s, "undoState") /\ Raise

\* Variant with a bug: the newest month is written first.
NextMonthNewest(months) == Max(months)

\* The months are written in calendar order.
NextMonth(months) == Min(months)

WriteMonth(s) ==
    LET m == NextMonth(left[s])
    IN  /\ stage[s] = "months"
        /\ left[s] # {}
        /\ Write(s, bronze,
                 [bronze EXCEPT ![s] = WithMonth(@, merged[s], m)], "months")
        /\ left' = [left EXCEPT ![s] = @ \ {m}]
        /\ UNCHANGED <<world, runs, state, threads, backup>>

\* Variant with a bug: the success row does not wait for the months.
WriteRunEarly(s) ==
    /\ stage[s] = "months"
    /\ Write(s, runs, [runs EXCEPT ![s][run[s]] = "success"], "state")
    /\ UNCHANGED <<world, bronze, state, threads, commit>>

WriteRun(s) ==
    /\ stage[s] = "months"
    /\ left[s] = {}
    /\ Write(s, runs, [runs EXCEPT ![s][run[s]] = "success"], "state")
    /\ UNCHANGED <<world, bronze, state, threads, commit>>

\* Variant with a bug: the end of the request is taken for an observation.
LastObservedRequested(s) == plan[s].last

\* last_observed_date as advance_state computes it from the prepared frame.
LastObserved(s) == Latest(merged[s])

\* The last write; with it the lock is released and the run is over.
WriteState(s) ==
    /\ stage[s] = "state"
    /\ Write(s, state, [state EXCEPT ![s] = LastObserved(s)], "idle")
    /\ IF stage'[s] = "idle" THEN Release(s) ELSE UNCHANGED commit
    /\ UNCHANGED <<world, bronze, runs, threads>>

\* One _restore: done, or it raises, which ends the undo and the lock.
\* Assigns the file, stage and faults.
Undo(s, file, old, next) ==
    \/ file' = old /\ Goto(s, next) /\ UNCHANGED faults
    \/ UNCHANGED file /\ Goto(s, "failed") /\ Raise

UndoState(s) ==
    /\ stage[s] = "undoState"
    /\ Undo(s, state, backup[s].state, "undoRuns")
    /\ IF stage'[s] = "failed" THEN Release(s) ELSE UNCHANGED commit
    /\ UNCHANGED <<world, bronze, runs, threads>>

UndoRuns(s) ==
    /\ stage[s] = "undoRuns"
    /\ Undo(s, runs, backup[s].runs, "undoMonths")
    /\ IF stage'[s] = "failed" THEN Release(s)
       ELSE /\ left' = [left EXCEPT
                 ![s] = ChangedMonths(backup[s].frame, merged[s])]
            /\ UNCHANGED backup
    /\ UNCHANGED <<world, bronze, state, threads>>

\* The copies go back in the reverse of the order they were taken.
LastWritten(months) == Max(months)

UndoMonth(s) ==
    LET m == LastWritten(left[s])
    IN  /\ stage[s] = "undoMonths"
        /\ left[s] # {}
        /\ Undo(s, bronze,
                [bronze EXCEPT ![s] = WithMonth(@, backup[s].frame, m)],
                "undoMonths")
        /\ IF stage'[s] = "failed" THEN Release(s)
           ELSE left' = [left EXCEPT ![s] = @ \ {m}] /\ UNCHANGED backup
        /\ UNCHANGED <<world, runs, state, threads>>

Undone(s) ==
    /\ stage[s] = "undoMonths"
    /\ left[s] = {}
    /\ Goto(s, "failed")
    /\ Release(s)
    /\ UNCHANGED <<world, durable, threads, faults>>

\* The handler of run_series: record_failure under the lock, then re-raise.
RecordFailure(s) ==
    /\ stage[s] = "failed"
    /\ LockFree
    /\ Goto(s, "idle")
    /\ LET recorded == [runs EXCEPT ![s][run[s]] = "failed"]
       IN  \/ runs' = recorded /\ UNCHANGED faults
           \/ runs' \in {runs, recorded} /\ Raise
    /\ UNCHANGED <<world, bronze, state, threads, commit>>

(***************************************************************************)
(* The process is killed: the lock and the copies die with it.             *)
(***************************************************************************)
Kill ==
    /\ ~Idle
    /\ Raise
    /\ stage' = [s \in Series |-> "idle"]
    /\ attempts' = [s \in Series |-> 0]
    /\ left' = [s \in Series |-> {}]
    /\ backup' = [s \in Series |-> NoBackup]
    /\ UNCHANGED <<world, durable, operation, plan, run, merged>>

Thread(s) ==
    \/ Plan(s) \/ Retry(s) \/ Fetch(s) \/ Acquire(s)
    \/ WriteMonth(s) \/ WriteRun(s) \/ WriteState(s)
    \/ UndoState(s) \/ UndoRuns(s) \/ UndoMonth(s) \/ Undone(s)
    \/ RecordFailure(s)

Next ==
    \/ Tick
    \/ Daily
    \/ Manual
    \/ Kill
    \/ \E s \in Series : Thread(s) \/ Publish(s) \/ Forget(s)

Spec == Init /\ [][Next]_vars

\* A started thread runs on, and the daily update comes whatever operators
\* do by hand.  Sources owe nothing.
Fairness == SF_vars(Daily) /\ \A s \in Series : SF_vars(Thread(s))

FairSpec == Spec /\ Fairness

(***************************************************************************)
(* Properties.                                                             *)
(***************************************************************************)

\* No permanent gap: whatever a source offers is stored, or the window of
\* the next update still reaches it.  Rests on months being written oldest
\* first and undone newest first, and on the window starting from what is
\* stored rather than from the state file (build_plan, commit_success).
NothingOutOfReach ==
    \A s \in Series : \A d \in Observed(source[s]) :
        \/ bronze[s][d] = source[s][d]
        \/ d >= Latest(bronze[s]) - Overlap

\* The cached last_observed_date never claims more than the months hold:
\* it is written last and undone first.
StateNotAhead == \A s \in Series : state[s] <= Latest(bronze[s])

\* A success row stands for durable months: when the latest run of a series
\* has one, its months hold exactly what that run prepared, also after a
\* kill in the middle of a commit or of its undo.
SuccessIsDurable ==
    \A s \in Series :
        run[s] \in 1 .. MaxRuns - 1 /\ runs[s][run[s]] = "success" =>
            bronze[s] = merged[s]

\* The failure of one series never reaches another one's rows: outside its
\* own commit and failure record nothing a series has stored changes, though
\* the undo of another series restores whole copies of the shared files.
SeriesIsolated ==
    [][\A s \in Series :
         stage[s] \in {"idle", "plan", "fetch", "commit"} =>
            /\ bronze'[s] = bronze[s]
            /\ runs'[s] = runs[s]
            /\ state'[s] = state[s]]_vars

\* An observation that was stored before a commit began is never lost, be
\* it omitted by the source, rewritten by the merge or undone.
HistoryRetained ==
    [][\A s \in Series : \A d \in Observed(bronze[s]) :
         bronze'[s][d] = 0 => stage[s] = "undoMonths" /\ backup[s].frame[d] = 0]_vars

\* What a source keeps offering becomes and stays durable once faults stop.
OfferedBecomesDurable ==
    \A s \in Series : \A d \in Days : \A v \in 1 .. Revisions :
        <>[](source[s][d] = v) => <>[](bronze[s][d] = v)

\* A batch always ends, be it with retries, a commit, its undo or a failure
\* record: every request has one budget of attempts, and every path through
\* the unit of work leads out of it (run_many waits for its threads).
BatchesEnd == ~Idle ~> Idle
=============================================================================
