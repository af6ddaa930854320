---------------------- MODULE ProductionReconstruction ----------------------
(***************************************************************************)
(* postgres-reconstruct --execute, the cron runner and their three guards: *)
(* the maintenance marker file, the runner lock (flock) and the PostgreSQL *)
(* maintenance lock.  Operators may start reconstructions at any time; the *)
(* cron runner starts daily jobs.  What the stages do to the data is       *)
(* reduced to how the serving schemas stand to the current Gold build and  *)
(* whether the runtime roles have the privileges that are verified.        *)
(***************************************************************************)
EXTENDS Integers

CONSTANTS Operators,  \* processes that may run postgres-reconstruct
          MaxFaults   \* bound: failed stages and kills

Free == "free"
Cron == "cron"

ASSUME ReconstructionAssumption ==
    /\ MaxFaults \in Nat
    /\ {Free, Cron} \cap Operators = {}

\* Variant with a bug: the schemas are recreated after they were published.
StageNamesSwapped == <<"maintenance", "locks", "endpoint", "backup",
                       "reconcile", "silver", "gold", "publication", "schema",
                       "verification", "replay", "daily_wrapper">>

\* The stages, in the order ProductionReconstruction.run completes them.
StageNames == <<"maintenance", "locks", "endpoint", "backup", "reconcile",
                "silver", "gold", "schema", "publication", "verification",
                "replay", "daily_wrapper">>

LastStage == 12

VARIABLES
    marker,      \* the maintenance marker exists
    runnerLock,  \* who holds the flock
    pgLock,      \* who holds the PostgreSQL maintenance lock
    replica,     \* serving schemas: "current" build, a "stale" one, "blank"
    granted,     \* the roles hold exactly the privileges of provisioning
    operator,    \* operator -> "idle", "running", "failed", "enabling", ...
    completed,   \* operator -> number of stages its run completed
    daily,       \* where the cron runner is
    faults

guards == <<marker, runnerLock, pgLock>>
vars   == <<guards, replica, granted, operator, completed, daily, faults>>

TypeOK ==
    /\ marker \in BOOLEAN
    /\ runnerLock \in Operators \cup {Cron, Free}
    /\ pgLock \in Operators \cup {Free}
    /\ replica \in {"current", "stale", "blank"}
    /\ granted \in BOOLEAN
    /\ operator \in [Operators -> {"idle", "running", "failed", "enabling",
                                   "releasing", "passed"}]
    /\ completed \in [Operators -> 0 .. LastStage]
    /\ daily \in {"idle", "locked", "pipeline", "sync"}
    /\ daily # "idle" <=> runnerLock = Cron
    /\ pgLock # Free => pgLock = runnerLock
    /\ faults \in 0 .. MaxFaults

Init ==
    /\ marker = FALSE
    /\ runnerLock = Free /\ pgLock = Free
    /\ replica = "current"
    /\ granted = TRUE
    /\ operator = [o \in Operators |-> "idle"]
    /\ completed = [o \in Operators |-> 0]
    /\ daily = "idle"
    /\ faults = 0

Raise == faults < MaxFaults /\ faults' = faults + 1

Goto(o, next) == operator' = [operator EXCEPT ![o] = next]

\* The stage this operator runs next.
At(o, stage) ==
    /\ operator[o] = "running"
    /\ completed[o] < LastStage
    /\ StageNames[completed[o] + 1] = stage

\* _run_stage returns.
Completed(o) ==
    /\ completed' = [completed EXCEPT ![o] = @ + 1]
    /\ UNCHANGED operator

\* A stage raises, or its result is refused: the FAIL report.
Fail(o) == Goto(o, "failed") /\ UNCHANGED completed

\* What a Gold publication makes of the serving schemas.
Outdated == IF replica = "blank" THEN "blank" ELSE "stale"

(***************************************************************************)
(* The reconstruction.                                                     *)
(***************************************************************************)
Start(o) ==
    /\ operator[o] = "idle"
    /\ Goto(o, "running")
    /\ completed' = [completed EXCEPT ![o] = 0]
    /\ UNCHANGED <<guards, replica, granted, daily, faults>>

\* disable_scheduling touches the marker, whether or not it exists.
DisableScheduling(o) ==
    /\ At(o, "maintenance")
    /\ marker' = TRUE
    /\ Completed(o)
    /\ UNCHANGED <<runnerLock, pgLock, replica, granted, daily, faults>>

\* Variant with a bug: a runner lock that is held is not respected.
AcquireLocksForced(o) ==
    /\ At(o, "locks")
    /\ pgLock = Free
    /\ runnerLock' = o /\ pgLock' = o
    /\ Completed(o)
    /\ UNCHANGED <<marker, replica, granted, daily, faults>>

\* acquire_locks: the flock without waiting, then the advisory lock without
\* waiting; without the second the first is given back.
AcquireLocks(o) ==
    /\ At(o, "locks")
    /\ IF runnerLock = Free /\ pgLock = Free
       THEN runnerLock' = o /\ pgLock' = o /\ Completed(o)
       ELSE UNCHANGED <<runnerLock, pgLock>> /\ Fail(o)
    /\ UNCHANGED <<marker, replica, granted, daily, faults>>

\* Stages that leave the modelled data alone.
Inspect(o) ==
    /\ \E stage \in {"endpoint", "backup", "reconcile", "silver",
                     "daily_wrapper"} : At(o, stage)
    /\ Completed(o)
    /\ UNCHANGED <<guards, replica, granted, daily, faults>>

\* The stages that move the data: what one does when it completes.
Published(o, stage, result) ==
    /\ At(o, stage)
    /\ replica' = result
    /\ Completed(o)
    /\ UNCHANGED <<guards, daily, faults>>

PublishGold(o)     == Published(o, "gold", Outdated) /\ UNCHANGED granted
PublishPostgres(o) == Published(o, "publication", "current") /\ UNCHANGED granted

\* The recreated schemas have new tables, whose owner may write the ledger
\* and whose reader is granted to write the sync tables.
RecreateSchema(o) == Published(o, "schema", "blank") /\ granted' = FALSE

\* The independent verification must report PASS: the data of the current
\* build, and the privileges the roles were provisioned with.
VerifyPostgres(o) ==
    /\ At(o, "verification")
    /\ IF replica = "current" /\ granted THEN Completed(o) ELSE Fail(o)
    /\ UNCHANGED <<guards, replica, granted, daily, faults>>

\* The replay synchronizes again and must have had nothing to do.
Replay(o) ==
    /\ At(o, "replay")
    /\ replica' = "current"
    /\ IF replica = "current" THEN Completed(o) ELSE Fail(o)
    /\ UNCHANGED <<guards, granted, daily, faults>>

\* Any stage may raise; one that moves the data may have done so.
StageFails(o) ==
    /\ operator[o] = "running"
    /\ completed[o] < LastStage
    /\ Raise
    /\ Fail(o)
    /\ \/ UNCHANGED <<replica, granted>>
       \/ At(o, "gold") /\ replica' = Outdated /\ UNCHANGED granted
       \/ At(o, "schema") /\ replica' = "blank" /\ granted' = FALSE
       \/ At(o, "publication") /\ replica' = "current" /\ UNCHANGED granted
    /\ UNCHANGED <<guards, daily>>

\* Variant with a bug: a failed run re-enables the schedule as well.
EnableSchedulingAlways(o) ==
    /\ \/ operator[o] = "running" /\ completed[o] = LastStage
       \/ operator[o] = "failed"
    /\ marker
    /\ marker' = FALSE
    /\ Goto(o, "enabling")
    /\ UNCHANGED <<runnerLock, pgLock, replica, granted, completed, daily, faults>>

\* enable_scheduling: the marker goes first and must be there.
EnableScheduling(o) ==
    /\ operator[o] = "running"
    /\ completed[o] = LastStage
    /\ marker' = FALSE
    /\ Goto(o, IF marker THEN "enabling" ELSE "failed")
    /\ UNCHANGED <<runnerLock, pgLock, replica, granted, completed, daily, faults>>

ReleasePostgresLock(o) ==
    /\ operator[o] = "enabling"
    /\ pgLock' = Free
    /\ Goto(o, "releasing")
    /\ UNCHANGED <<marker, runnerLock, replica, granted, completed, daily, faults>>

ReleaseRunnerLock(o) ==
    /\ operator[o] = "releasing"
    /\ runnerLock' = Free
    /\ Goto(o, "passed")
    /\ UNCHANGED <<marker, pgLock, replica, granted, completed, daily, faults>>

\* The end of the process, however it comes, frees the locks it still holds.
Exit(o) ==
    /\ \/ operator[o] \in {"failed", "passed"} /\ UNCHANGED faults
       \/ operator[o] \in {"running", "enabling", "releasing"} /\ Raise
    /\ Goto(o, "idle")
    /\ runnerLock' = IF runnerLock = o THEN Free ELSE runnerLock
    /\ pgLock' = IF pgLock = o THEN Free ELSE pgLock
    /\ UNCHANGED <<marker, replica, granted, completed, daily>>

(***************************************************************************)
(* ops/run-macro-loader-daily.sh.                                          *)
(***************************************************************************)
\* Variant with a bug: the runner does not take the lock.
DailyUnlocked ==
    /\ daily = "idle"
    /\ daily' = "locked"
    /\ UNCHANGED <<guards, replica, granted, operator, completed, faults>>

\* flock -n: a held lock ends the job with status 3.
DailyLock ==
    /\ daily = "idle"
    /\ runnerLock = Free
    /\ runnerLock' = Cron
    /\ daily' = "locked"
    /\ UNCHANGED <<marker, pgLock, replica, granted, operator, completed, faults>>

DailyDone == daily' = "idle" /\ runnerLock' = Free

\* The marker ends the job with status 4.
DailyCheck ==
    /\ daily = "locked"
    /\ IF marker THEN DailyDone ELSE daily' = "pipeline" /\ UNCHANGED runnerLock
    /\ UNCHANGED <<marker, pgLock, replica, granted, operator, completed, faults>>

\* run-daily publishes a build, or fails before or after it did (set -e).
DailyPipeline ==
    /\ daily = "pipeline"
    /\ replica' \in {replica, Outdated}
    /\ \/ daily' = "sync" /\ UNCHANGED runnerLock
       \/ DailyDone
    /\ UNCHANGED <<marker, pgLock, granted, operator, completed, faults>>

DailySync ==
    /\ daily = "sync"
    /\ replica' \in {replica, "current"}
    /\ DailyDone
    /\ UNCHANGED <<marker, pgLock, granted, operator, completed, faults>>

(***************************************************************************)
(* scripts/provision_postgres_role.py, run by an administrator.            *)
(***************************************************************************)
\* Revokes what the roles hold on the tables and grants what they need.
Provision ==
    /\ ~granted
    /\ granted' = TRUE
    /\ UNCHANGED <<guards, replica, operator, completed, daily, faults>>

Reconstruct(o) ==
    \/ Start(o) \/ DisableScheduling(o) \/ AcquireLocks(o) \/ Inspect(o)
    \/ PublishGold(o) \/ RecreateSchema(o) \/ PublishPostgres(o)
    \/ VerifyPostgres(o) \/ Replay(o) \/ StageFails(o)
    \/ EnableScheduling(o) \/ ReleasePostgresLock(o) \/ ReleaseRunnerLock(o)
    \/ Exit(o)

Next ==
    \/ DailyLock \/ DailyCheck \/ DailyPipeline \/ DailySync
    \/ Provision
    \/ \E o \in Operators : Reconstruct(o)

Spec == Init /\ [][Next]_vars

(***************************************************************************)
(* Properties.                                                             *)
(***************************************************************************)

\* Past its locks a reconstruction owns source and serving data.
Owns(o) ==
    operator[o] \in {"running", "enabling", "releasing"} /\ completed[o] >= 2

\* No two of them, a daily job past its marker check included, ever run on
\* the same lake and database (acquire_locks, flock -n).
OneAtATime ==
    /\ \A o \in Operators : Owns(o) => daily = "idle"
    /\ \A o, p \in Operators : Owns(o) /\ Owns(p) => o = p

\* From its publication to the release of the lock the serving schemas hold
\* the current build: nothing that could part the two runs in between.
PassIsServing ==
    \A o \in Operators :
        /\ operator[o] \in {"running", "enabling", "releasing"}
        /\ completed[o] >= 9
        => replica = "current"

\* Past its locks a reconstruction that meets no error fails for two reasons
\* only: the roles were not provisioned again after the schemas were recreated
\* (recreate grants the reader more than _assert_roles accepts), or another
\* run has removed the marker.  Verification and replay never disagree with
\* the data that was just published.
FailuresExplained ==
    [][\A o \in Operators :
           /\ Owns(o)
           /\ operator'[o] = "failed"
           /\ UNCHANGED faults
           => \/ At(o, "verification") /\ ~granted
              \/ completed[o] = LastStage /\ ~marker]_vars

\* Scheduling remains disabled on every failure (README, "Operational CLI"):
\* when no reconstruction runs, an emptied replica means the marker is there.
DisabledOnFailure ==
    /\ replica = "blank"
    /\ \A o \in Operators : operator[o] = "idle"
    => marker

\* A recreated replica is filled under the marker: until a reconstruction has
\* republished it, no daily job gets past its check.
BlankUnderMaintenance == replica = "blank" => marker

\* Two operators never run a reconstruction at the same time.
Alone ==
    \A o, p \in Operators :
        operator[o] # "idle" /\ operator[p] # "idle" => o = p

\* Where reconstructions follow one another, whoever starts them and however
\* they fail, an emptied replica is under the marker until one of them has
\* republished it.
SerialBlankUnderMaintenance == []Alone => []BlankUnderMaintenance
=============================================================================
