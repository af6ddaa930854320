---------------------------- MODULE SilverBuild ----------------------------
(***************************************************************************)
(* From Bronze over Silver to the Gold frame.  The daily job commits Bronze *)
(* months, rebuilds the Silver months that differ, one file at a time and   *)
(* without undo, reads all Silver levels and publishes them.  It takes its  *)
(* own lock only: silver-build and gold-build, started by hand, read and    *)
(* write the same files meanwhile.  A read of a series is a read of its     *)
(* months one after the other.  Every thread may raise, every process may   *)
(* be killed.  Bronze's commit is detailed in BronzeIngestion, the          *)
(* publication in GoldPublication.                                          *)
(***************************************************************************)
EXTENDS Integers, FiniteSets, FiniteSetsExt

CONSTANTS Series,
          LastDay,      \* bound: days of the calendar
          MonthLength,  \* days per partition
          Revisions,    \* bound: distinct values of an observation
          MaxNews,      \* bound: observations the sources insert or revise
          MaxFaults     \* bound: raised errors and kills in one behaviour

ASSUME SilverAssumption ==
    /\ {LastDay, MonthLength, Revisions} \subseteq Nat \ {0}
    /\ {MaxNews, MaxFaults} \subseteq Nat

Days  == 1 .. LastDay
Procs == {"daily", "manual"}

\* A frame maps every day to its observation; 0 means there is none.
Frames == [Days -> 0 .. Revisions]
Empty  == [d \in Days |-> 0]

Observed(frame) == {d \in Days : frame[d] # 0}
MonthOf(d)      == (d - 1) \div MonthLength + 1
Months          == {MonthOf(d) : d \in Days}

\* Frame a with that month of frame b in place of its own.
WithMonth(a, b, m) == [d \in Days |-> IF MonthOf(d) = m THEN b[d] ELSE a[d]]

\* The months upsert_monthly rewrites.
Changed(old, new) == {MonthOf(d) : d \in {e \in Days : old[e] # new[e]}}

\* merge_frames: an upsert that deletes nothing.
Merged(existing, incoming) ==
    [d \in Days |-> IF incoming[d] # 0 THEN incoming[d] ELSE existing[d]]

VARIABLES
    bronze, silver, \* series -> frame in its month files
    gold,           \* series -> frame of levels in the current Gold build
    phase,          \* process -> stage of the command it runs
    thread,         \* process -> series -> the thread of that stage
    overlap,        \* whether a daily job ever ran beside another command
    news, faults

lake   == <<bronze, silver, gold>>
bounds == <<news, faults>>
vars   == <<lake, phase, thread, overlap, bounds>>

Phases == {"idle", "bronze", "silver", "levels", "publish"}
Works  == {"none", "fetch", "commit", "bronze", "silver", "write", "levels",
           "done", "failed"}

\* What a thread does, the frame it has read or merged so far, the stored
\* frame it compares with, and the months it has still to read or write.
Thread(work, months) ==
    [work |-> work, frame |-> Empty, stored |-> Empty, left |-> months]

TypeOK ==
    /\ bronze \in [Series -> Frames]
    /\ silver \in [Series -> Frames]
    /\ gold \in [Series -> Frames]
    /\ phase \in [Procs -> Phases]
    /\ thread \in [Procs -> [Series -> [work : Works, frame : Frames,
                                        stored : Frames, left : SUBSET Months]]]
    /\ overlap \in {"never", "before", "now"}
    /\ news \in 0 .. MaxNews
    /\ faults \in 0 .. MaxFaults

NoThreads == [s \in Series |-> Thread("none", {})]

Init ==
    /\ bronze = [s \in Series |-> Empty]
    /\ silver = bronze
    /\ gold = bronze
    /\ phase = [p \in Procs |-> "idle"]
    /\ thread = [p \in Procs |-> NoThreads]
    /\ overlap = "never"
    /\ news = 0
    /\ faults = 0

Raise == faults < MaxFaults /\ faults' = faults + 1

(***************************************************************************)
(* A stage of a command: one thread per series, and the wait for all.      *)
(***************************************************************************)
Enter(p, next, series, work, months) ==
    /\ phase' = [phase EXCEPT ![p] = next]
    /\ thread' = [thread EXCEPT ![p] =
                     [s \in Series |-> IF s \in series THEN Thread(work, months)
                                       ELSE Thread("none", {})]]

Leave(p) == Enter(p, "idle", {}, "none", {})

\* The executor waits for every thread, also when one has raised.
Finished(p) ==
    \A s \in Series : thread[p][s].work \in {"none", "done", "failed"}

Succeeded(p) == \A s \in Series : thread[p][s].work # "failed"

Advance(p, s, new) == thread' = [thread EXCEPT ![p][s] = new]

\* A thread raises; what it has written stays.
ThreadFails(p, s) ==
    /\ thread[p][s].work \in {"fetch", "bronze", "silver", "write", "levels"}
    /\ Raise
    /\ Advance(p, s, Thread("failed", {}))
    /\ UNCHANGED <<lake, phase, overlap, news>>

(***************************************************************************)
(* Starting commands.                                                      *)
(***************************************************************************)
Starts(p) ==
    /\ phase[p] = "idle"
    /\ overlap' = IF \E other \in Procs \ {p} : phase[other] # "idle" THEN "now"
                  ELSE IF overlap = "never" THEN "never" ELSE "before"
    /\ UNCHANGED <<lake, bounds>>

RunDaily == Starts("daily") /\ Enter("daily", "bronze", Series, "fetch", {})

SilverCommand ==
    /\ Starts("manual")
    /\ \E selected \in SUBSET Series \ {{}} :
           Enter("manual", "silver", selected, "bronze", Months)

GoldCommand == Starts("manual") /\ Enter("manual", "levels", Series, "levels", Months)

(***************************************************************************)
(* Bronze: the daily job fetches at most one new or revised observation of *)
(* a series and commits it.                                                *)
(***************************************************************************)
Incoming == {new \in Frames : Cardinality(Observed(new)) <= 2}

\* Nothing new, or news within the bound.
Fetch(s) ==
    /\ thread["daily"][s].work = "fetch"
    /\ \E incoming \in Incoming :
        LET merged == Merged(bronze[s], incoming)
            fresh  == Cardinality({d \in Days : merged[d] # bronze[s][d]})
        IN  /\ fresh = Cardinality(Observed(incoming))
            /\ news + fresh <= MaxNews
            /\ news' = news + fresh
            /\ Advance("daily", s,
                       [work |-> "commit", frame |-> merged, stored |-> bronze[s],
                        left |-> Changed(bronze[s], merged)])
    /\ UNCHANGED <<lake, phase, overlap, faults>>

CommitMonth(s) ==
    LET t == thread["daily"][s]
        m == Min(t.left)
    IN  /\ t.work = "commit"
        /\ t.left # {}
        /\ bronze' = [bronze EXCEPT ![s] = WithMonth(@, t.frame, m)]
        /\ Advance("daily", s, [t EXCEPT !.left = @ \ {m}])
        /\ UNCHANGED <<silver, gold, phase, overlap, bounds>>

Committed(s) ==
    LET t == thread["daily"][s]
    IN  /\ t.work = "commit"
        /\ t.left = {}
        /\ Advance("daily", s, Thread("done", {}))
        /\ UNCHANGED <<lake, phase, overlap, bounds>>

\* Variant with a bug: the undo deletes the months the commit may have written.
UndoCommitDeleting(s) ==
    LET t == thread["daily"][s]
    IN  /\ t.work = "commit"
        /\ Raise
        /\ bronze' = [bronze EXCEPT ![s] = [d \in Days |->
               IF MonthOf(d) \in Changed(t.stored, t.frame) THEN 0 ELSE @[d]]]
        /\ Advance("daily", s, Thread("failed", {}))
        /\ UNCHANGED <<silver, gold, phase, overlap, news>>

\* A commit that raises is undone from the newest month it may have written,
\* down to the oldest or to a month whose undo raises too.
UndoCommit(s) ==
    LET t == thread["daily"][s]
    IN  /\ t.work = "commit"
        /\ Raise
        /\ \E m \in Months :
               bronze' = [bronze EXCEPT ![s] = [d \in Days |->
                             IF MonthOf(d) >= m THEN t.stored[d] ELSE @[d]]]
        /\ Advance("daily", s, Thread("failed", {}))
        /\ UNCHANGED <<silver, gold, phase, overlap, news>>

BronzeDone ==
    /\ phase["daily"] = "bronze"
    /\ Finished("daily")
    /\ IF Succeeded("daily")
       THEN Enter("daily", "silver", Series, "bronze", Months)
       ELSE Leave("daily")
    /\ UNCHANGED <<lake, overlap, bounds>>

(***************************************************************************)
(* SilverSeriesRepository.build.  Months are read in any order: one whose  *)
(* file appears after the listing is missed, as if it had been read first. *)
(***************************************************************************)
ReadBronze(p, s) ==
    LET t == thread[p][s]
    IN  /\ t.work = "bronze"
        /\ \E m \in t.left :
            LET read == [t EXCEPT !.frame = WithMonth(@, bronze[s], m),
                                  !.left = @ \ {m}]
            IN  Advance(p, s, IF read.left # {} THEN read
                              ELSE [read EXCEPT !.work = "silver", !.left = Months])
        /\ UNCHANGED <<lake, phase, overlap, bounds>>

\* Variant with a bug: months before the newest stored one are left alone.
PlannedIncremental(candidate, existing) ==
    LET merged == Merged(existing, candidate)
        newest == Max({1} \cup {MonthOf(d) : d \in Observed(existing)})
    IN  [work |-> "write", frame |-> merged, stored |-> Empty,
         left |-> {m \in Changed(existing, merged) : m >= newest}]

\* Variant with a bug: revised rows alone do not rewrite their month.
PlannedInserts(candidate, existing) ==
    LET merged == Merged(existing, candidate)
    IN  [work |-> "write", frame |-> merged, stored |-> Empty,
         left |-> {MonthOf(d) : d \in Observed(merged) \ Observed(existing)}]

\* The last month read, the difference is taken: what to write, and where.
Planned(candidate, existing) ==
    LET merged == Merged(existing, candidate)
    IN  [work |-> "write", frame |-> merged, stored |-> Empty,
         left |-> Changed(existing, merged)]

ReadSilver(p, s) ==
    LET t == thread[p][s]
    IN  /\ t.work = "silver"
        /\ \E m \in t.left :
            LET read == [t EXCEPT !.stored = WithMonth(@, silver[s], m),
                                  !.left = @ \ {m}]
            IN  Advance(p, s, IF read.left # {} THEN read
                              ELSE Planned(read.frame, read.stored))
        /\ UNCHANGED <<lake, phase, overlap, bounds>>

\* Whole months of the merged frame replace the files, oldest first.
WriteSilver(p, s) ==
    LET t == thread[p][s]
        m == Min(t.left)
    IN  /\ t.work = "write"
        /\ t.left # {}
        /\ silver' = [silver EXCEPT ![s] = WithMonth(@, t.frame, m)]
        /\ Advance(p, s, [t EXCEPT !.left = @ \ {m}])
        /\ UNCHANGED <<bronze, gold, phase, overlap, bounds>>

Built(p, s) ==
    LET t == thread[p][s]
    IN  /\ t.work = "write"
        /\ t.left = {}
        /\ Advance(p, s, Thread("done", {}))
        /\ UNCHANGED <<lake, phase, overlap, bounds>>

SilverDone(p) ==
    /\ phase[p] = "silver"
    /\ Finished(p)
    /\ IF Succeeded(p) /\ p = "daily"
       THEN Enter(p, "levels", Series, "levels", Months)
       ELSE Leave(p)
    /\ UNCHANGED <<lake, overlap, bounds>>

(***************************************************************************)
(* The Gold frame: the levels of every registered series, none empty.      *)
(***************************************************************************)
ReadLevels(p, s) ==
    LET t == thread[p][s]
    IN  /\ t.work = "levels"
        /\ \E m \in t.left :
            LET read == [t EXCEPT !.frame = WithMonth(@, silver[s], m),
                                  !.left = @ \ {m}]
            IN  Advance(p, s, IF read.left # {} THEN read
                              ELSE [read EXCEPT !.work = "done"])
        /\ UNCHANGED <<lake, phase, overlap, bounds>>

Assemble(p) ==
    /\ phase[p] = "levels"
    /\ Finished(p)
    /\ IF Succeeded(p) /\ \A s \in Series : thread[p][s].frame # Empty
       THEN phase' = [phase EXCEPT ![p] = "publish"] /\ UNCHANGED thread
       ELSE Leave(p)
    /\ UNCHANGED <<lake, overlap, bounds>>

\* The catalog replacement is the commit; GoldPublication has the rest.
Publish(p) ==
    /\ phase[p] = "publish"
    /\ \/ gold' = [s \in Series |-> thread[p][s].frame] /\ UNCHANGED faults
       \/ UNCHANGED gold /\ Raise
    /\ Leave(p)
    /\ UNCHANGED <<bronze, silver, overlap, news>>

Kill(p) ==
    /\ phase[p] # "idle"
    /\ Raise
    /\ Leave(p)
    /\ UNCHANGED <<lake, overlap, news>>

ThreadStep(p, s) ==
    \/ p = "daily" /\ (Fetch(s) \/ CommitMonth(s) \/ Committed(s) \/ UndoCommit(s))
    \/ ReadBronze(p, s) \/ ReadSilver(p, s) \/ WriteSilver(p, s) \/ Built(p, s)
    \/ ReadLevels(p, s) \/ ThreadFails(p, s)

Command(p) ==
    \/ p = "daily" /\ BronzeDone
    \/ SilverDone(p) \/ Assemble(p) \/ Publish(p)
    \/ \E s \in Series : ThreadStep(p, s)

Next ==
    \/ RunDaily \/ SilverCommand \/ GoldCommand
    \/ \E p \in Procs : Command(p) \/ Kill(p)

Spec == Init /\ [][Next]_vars

\* cron starts the daily job again and again; a started command runs on.
Fairness == WF_vars(RunDaily) /\ \A p \in Procs : WF_vars(Command(p))

FairSpec == Spec /\ Fairness

(***************************************************************************)
(* Properties.                                                             *)
(***************************************************************************)

\* Frame a has every observation of frame b, as it is there.
Covers(a, b) == \A d \in Observed(b) : a[d] = b[d]

\* The daily job replaces the current build without an error.
DailyPublished ==
    phase["daily"] = "publish" /\ phase'["daily"] = "idle" /\ UNCHANGED faults

\* A daily job beside which no other command ran publishes all of Bronze,
\* whatever earlier jobs, killed or failed or racing one another, have left
\* in Silver (run_daily, SilverSeriesRepository.build, _canonical_gold).
DailyPublishesBronze ==
    [][DailyPublished /\ overlap # "now" =>
         \A s \in Series : Covers(gold'[s], bronze[s])]_vars

\* As long as the daily job had the lake to itself nothing below Bronze holds
\* an observation Bronze has not: no Silver is built from a commit that is
\* undone afterwards (run_daily starts Silver after every commit or undo).
NothingBeyondBronze ==
    overlap = "never" =>
        \A s \in Series :
            Observed(gold[s]) \cup Observed(silver[s]) \subseteq Observed(bronze[s])

\* Once Bronze rests, every series having an observation, and faults stop,
\* the current Gold build comes to cover it and keeps doing so, whatever is
\* started by hand meanwhile.
GoldCatchesUp ==
    /\ <>[][UNCHANGED bronze]_vars
    /\ <>[](\A s \in Series : bronze[s] # Empty)
    => <>[](\A s \in Series : Covers(gold[s], bronze[s]))
=============================================================================
