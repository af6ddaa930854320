------------------- MODULE ProductionReconstructionProofs -------------------
(***************************************************************************)
(* Proofs about the guards of the production reconstruction, for any set   *)
(* of operators and any number of faults.  Who owns the data follows from  *)
(* the locks; what PASS means follows from ownership.                      *)
(***************************************************************************)
EXTENDS ProductionReconstruction, TLAPS

\* What the locks say about each operator: from the second stage to the end
\* of its success path it holds the runner lock, and the PostgreSQL lock
\* until it releases it.
LocksFollowStages ==
    \A o \in Operators :
        /\ operator[o] = "running" /\ completed[o] >= 2 =>
               runnerLock = o /\ pgLock = o
        /\ operator[o] = "enabling" =>
               runnerLock = o /\ pgLock = o /\ completed[o] = LastStage
        /\ operator[o] = "releasing" =>
               runnerLock = o /\ pgLock = Free /\ completed[o] = LastStage

\* The inductive invariant.
GInv == TypeOK /\ LocksFollowStages /\ PassIsServing

-----------------------------------------------------------------------------
(* Stages and ownership.                                                   *)

\* Where each stage that moves data stands in the order of the stages.
LEMMA StageOrder ==
    ASSUME NEW o \in Operators, completed[o] \in 0 .. LastStage
    PROVE  /\ At(o, "maintenance") => completed[o] = 0
           /\ At(o, "locks") => completed[o] = 1
           /\ At(o, "gold") => completed[o] = 6
           /\ At(o, "schema") => completed[o] = 7
           /\ At(o, "publication") => completed[o] = 8
           /\ At(o, "verification") => completed[o] = 9
           /\ At(o, "replay") => completed[o] = 10
           /\ \A stage \in {"endpoint", "backup", "reconcile", "silver",
                            "daily_wrapper"} :
                  At(o, stage) => completed[o] \in {2, 3, 4, 5, 11}
<1>1. completed[o] \in {0, 1, 2, 3, 4, 5, 6, 7, 8, 9, 10, 11, 12}
  BY DEF LastStage
<1> QED
  BY <1>1 DEF At, StageNames, LastStage

\* Two owners are the same operator, and none owns beside a daily job.
LEMMA OwnersExclude == GInv => OneAtATime
<1> SUFFICES ASSUME GInv PROVE OneAtATime
  OBVIOUS
<1>1. ASSUME NEW o \in Operators, Owns(o)
      PROVE  runnerLock = o
  BY <1>1 DEF GInv, LocksFollowStages, Owns
<1>2. \A o \in Operators : o # Cron
  BY ReconstructionAssumption
<1> QED
  BY <1>1, <1>2 DEF OneAtATime, GInv, TypeOK

\* A step of one operator that neither takes nor gives a lock, and changes
\* the serving data only if the operator owns them, keeps the invariant.
LEMMA OwnStep ==
    ASSUME GInv, NEW o \in Operators,
           runnerLock' = runnerLock, pgLock' = pgLock, daily' = daily,
           marker' \in BOOLEAN,
           granted' \in BOOLEAN,
           faults' \in 0 .. MaxFaults,
           operator' \in [Operators -> {"idle", "running", "failed",
                                        "enabling", "releasing", "passed"}],
           completed' \in [Operators -> 0 .. LastStage],
           \A p \in Operators \ {o} : /\ operator'[p] = operator[p]
                                      /\ completed'[p] = completed[p],
           operator'[o] # "releasing",
           operator'[o] = "running" /\ completed'[o] >= 2 =>
               runnerLock = o /\ pgLock = o,
           operator'[o] = "enabling" =>
               runnerLock = o /\ pgLock = o /\ completed'[o] = LastStage,
           operator'[o] \in {"running", "enabling"} /\ completed'[o] >= 9 =>
               replica' = "current",
           replica' \in {"current", "stale", "blank"},
           replica' = replica \/ Owns(o)
    PROVE  GInv'
<1> USE DEF GInv
<1>1. TypeOK'
  BY DEF TypeOK
<1>2. LocksFollowStages'
  BY DEF LocksFollowStages, TypeOK
<1>3. ASSUME NEW p \in Operators,
             operator'[p] \in {"running", "enabling", "releasing"},
             completed'[p] >= 9
      PROVE  replica' = "current"
  <2>1. CASE p = o
    BY <1>3, <2>1 DEF TypeOK
  <2>2. CASE p # o
    <3>1. operator'[p] = operator[p] /\ completed'[p] = completed[p]
      BY <2>2 DEF TypeOK
    <3>2. replica = "current"
      BY <1>3, <3>1 DEF PassIsServing
    <3>3. Owns(p)
      BY <1>3, <3>1 DEF Owns, TypeOK, LastStage
    <3>4. ~Owns(o)
      BY <2>2, <3>3, OwnersExclude DEF OneAtATime
    <3> QED
      BY <3>2, <3>4
  <2> QED
    BY <2>1, <2>2
<1>4. PassIsServing'
  BY <1>3 DEF PassIsServing
<1> QED
  BY <1>1, <1>2, <1>4

-----------------------------------------------------------------------------
(* The inductive step, action by action.                                   *)

\* Stages that complete or fail without touching the locks.
LEMMA StageStep ==
    ASSUME GInv, NEW o \in Operators,
           \/ DisableScheduling(o) \/ Inspect(o) \/ PublishGold(o)
           \/ RecreateSchema(o) \/ PublishPostgres(o)
           \/ VerifyPostgres(o) \/ Replay(o) \/ StageFails(o)
    PROVE  GInv'
<1> USE DEF GInv
<1>1. completed[o] \in 0 .. LastStage
  BY DEF TypeOK
<1>2. operator[o] = "running"
  BY DEF DisableScheduling, Inspect, PublishGold, RecreateSchema,
         PublishPostgres, Published, VerifyPostgres, Replay, StageFails, At
<1>3. completed[o] >= 2 => runnerLock = o /\ pgLock = o /\ Owns(o)
  BY <1>2 DEF LocksFollowStages, Owns
<1>4. Outdated \in {"blank", "stale"}
  BY DEF Outdated
<1>5. operator = [operator EXCEPT ![o] = "running"]
  BY <1>2 DEF TypeOK
<1>6. completed = [completed EXCEPT ![o] = completed[o]]
  BY DEF TypeOK
<1> granted' \in BOOLEAN
  BY DEF TypeOK, DisableScheduling, Inspect, PublishGold, RecreateSchema,
         PublishPostgres, VerifyPostgres, Replay, StageFails
<1>7. CASE DisableScheduling(o)
  <2>1. completed[o] = 0
    BY <1>1, <1>7, StageOrder DEF DisableScheduling
  <2>2. /\ completed' = [completed EXCEPT ![o] = 1]
        /\ operator' = [operator EXCEPT ![o] = "running"]
        /\ marker' = TRUE
        /\ UNCHANGED <<runnerLock, pgLock, replica, daily, faults>>
    BY <1>5, <1>7, <2>1 DEF DisableScheduling, Completed
  <2>3. faults' \in 0 .. MaxFaults /\ replica' \in {"current", "stale", "blank"}
    BY <2>2 DEF TypeOK
  <2>4. /\ operator' \in [Operators -> {"idle", "running", "failed",
                                     "enabling", "releasing", "passed"}]
        /\ completed' \in [Operators -> 0 .. LastStage]
        /\ \A p \in Operators \ {o} : /\ operator'[p] = operator[p]
                                     /\ completed'[p] = completed[p]
        /\ operator'[o] = "running" /\ completed'[o] = 1
    BY <2>2 DEF TypeOK, LastStage
  <2> QED
    BY <2>2, <2>3, <2>4, OwnStep
<1>8. CASE Inspect(o)
  <2>1. completed[o] \in {2, 3, 4, 5, 11}
    BY <1>1, <1>8, StageOrder DEF Inspect
  <2>2. completed[o] = 11 => replica = "current"
    BY <1>2 DEF PassIsServing
  <2>3. PICK count \in 3 .. LastStage : count = completed[o] + 1
    BY <2>1 DEF LastStage
  <2>4. /\ completed' = [completed EXCEPT ![o] = count]
        /\ operator' = [operator EXCEPT ![o] = "running"]
        /\ UNCHANGED <<marker, runnerLock, pgLock, replica, daily, faults>>
    BY <1>5, <1>8, <2>3 DEF Inspect, Completed, guards
  <2>5. /\ runnerLock = o /\ pgLock = o
        /\ count >= 9 => replica = "current"
    BY <1>3, <2>1, <2>2, <2>3
  <2>6. /\ marker' \in BOOLEAN /\ faults' \in 0 .. MaxFaults
        /\ replica' \in {"current", "stale", "blank"}
        /\ count \in 0 .. LastStage
    BY <2>4, <2>3 DEF TypeOK, LastStage
  <2>7. /\ operator' \in [Operators -> {"idle", "running", "failed",
                                     "enabling", "releasing", "passed"}]
        /\ completed' \in [Operators -> 0 .. LastStage]
        /\ \A p \in Operators \ {o} : /\ operator'[p] = operator[p]
                                     /\ completed'[p] = completed[p]
        /\ operator'[o] = "running" /\ completed'[o] = count
    BY <2>4, <2>6 DEF TypeOK
  <2> QED
    BY <2>4, <2>5, <2>6, <2>7, OwnStep
<1>9. CASE PublishGold(o) \/ RecreateSchema(o) \/ PublishPostgres(o)
  <2>1. completed[o] \in {6, 7, 8}
    BY <1>1, <1>9, StageOrder
    DEF PublishGold, RecreateSchema, PublishPostgres, Published
  <2>2. replica' \in {"current", "stale", "blank"}
    BY <1>4, <1>9 DEF PublishGold, RecreateSchema, PublishPostgres, Published
  <2>3. completed[o] = 8 => replica' = "current"
    BY <1>1, <1>9, StageOrder
    DEF PublishGold, RecreateSchema, PublishPostgres, Published
  <2>4. PICK count \in {7, 8, 9} : count = completed[o] + 1
    BY <2>1
  <2>5. /\ completed' = [completed EXCEPT ![o] = count]
        /\ operator' = [operator EXCEPT ![o] = "running"]
        /\ UNCHANGED <<marker, runnerLock, pgLock, daily, faults>>
    BY <1>5, <1>9, <2>4
    DEF PublishGold, RecreateSchema, PublishPostgres, Published, Completed,
        guards
  <2>6. /\ runnerLock = o /\ pgLock = o /\ Owns(o)
        /\ count >= 9 => replica' = "current"
    BY <1>3, <2>1, <2>3, <2>4
  <2>7. /\ marker' \in BOOLEAN /\ faults' \in 0 .. MaxFaults
        /\ count \in 0 .. LastStage
    BY <2>4, <2>5 DEF TypeOK, LastStage
  <2>8. /\ operator' \in [Operators -> {"idle", "running", "failed",
                                     "enabling", "releasing", "passed"}]
        /\ completed' \in [Operators -> 0 .. LastStage]
        /\ \A p \in Operators \ {o} : /\ operator'[p] = operator[p]
                                     /\ completed'[p] = completed[p]
        /\ operator'[o] = "running" /\ completed'[o] = count
    BY <2>5, <2>7 DEF TypeOK
  <2> QED
    BY <2>2, <2>5, <2>6, <2>7, <2>8, OwnStep
<1>10. CASE VerifyPostgres(o)
  <2>1. completed[o] = 9
    BY <1>1, <1>10, StageOrder DEF VerifyPostgres
  <2> replica = "current"
    BY <1>2, <2>1 DEF PassIsServing
  <2>2. CASE granted
    BY <1>3, <1>5, <1>10, <2>1, <2>2, OwnStep
    DEF VerifyPostgres, Completed, TypeOK, LastStage, guards
  <2>3. CASE ~granted
    BY <1>6, <1>10, <2>1, <2>3, OwnStep
    DEF VerifyPostgres, Fail, Goto, TypeOK, LastStage, guards
  <2> QED
    BY <2>2, <2>3
<1>11. CASE Replay(o)
  <2>1. completed[o] = 10
    BY <1>1, <1>11, StageOrder DEF Replay
  <2>2. CASE replica = "current"
    BY <1>3, <1>5, <1>11, <2>1, <2>2, OwnStep
    DEF Replay, Completed, TypeOK, LastStage, guards
  <2>3. CASE replica # "current"
    BY <1>3, <1>6, <1>11, <2>1, <2>3, OwnStep
    DEF Replay, Fail, Goto, TypeOK, LastStage, guards
  <2> QED
    BY <2>2, <2>3
<1>12. CASE StageFails(o)
  <2>1. replica' = replica \/ completed[o] \in {6, 7, 8}
    BY <1>1, <1>12, StageOrder DEF StageFails
  <2>2. replica' \in {"current", "stale", "blank"}
    BY <1>4, <1>12 DEF StageFails, TypeOK
  <2>3. faults' \in 0 .. MaxFaults
    BY <1>12, ReconstructionAssumption DEF StageFails, Raise, TypeOK
  <2>4. replica' = replica \/ Owns(o)
    BY <1>3, <2>1
  <2> QED
    BY <1>6, <1>12, <2>2, <2>3, <2>4, OwnStep
    DEF StageFails, Fail, Goto, TypeOK, guards
<1> QED
  BY <1>7, <1>8, <1>9, <1>10, <1>11, <1>12

\* The second stage takes both locks, or fails without either.
LEMMA AcquireStep ==
    ASSUME GInv, NEW o \in Operators, AcquireLocks(o)
    PROVE  GInv'
<1> USE DEF GInv
<1>1. completed[o] = 1 /\ operator[o] = "running"
  BY StageOrder DEF AcquireLocks, TypeOK, At
<1>2. CASE runnerLock = Free /\ pgLock = Free
  <2>1. /\ runnerLock' = o /\ pgLock' = o
        /\ completed' = [completed EXCEPT ![o] = 2]
        /\ UNCHANGED <<operator, marker, replica, granted, daily, faults>>
    BY <1>1, <1>2 DEF AcquireLocks, Completed
  <2>2. o # Cron /\ o # Free /\ \A p \in Operators : p # Free
    BY ReconstructionAssumption
  <2>3. TypeOK'
    BY <1>2, <2>1, <2>2 DEF TypeOK, LastStage, Cron, Free
  <2>4. LocksFollowStages'
    BY <1>1, <1>2, <2>1, <2>2 DEF LocksFollowStages, TypeOK
  <2>5. PassIsServing'
    BY <1>1, <2>1 DEF PassIsServing, TypeOK
  <2> QED
    BY <2>3, <2>4, <2>5
<1>3. CASE ~(runnerLock = Free /\ pgLock = Free)
  BY <1>1, <1>3, OwnStep DEF AcquireLocks, Fail, Goto, TypeOK
<1> QED
  BY <1>2, <1>3

\* Success: the marker, then the inner lock, then the outer one.
LEMMA ReleaseStep ==
    ASSUME GInv, NEW o \in Operators,
           \/ EnableScheduling(o) \/ ReleasePostgresLock(o)
           \/ ReleaseRunnerLock(o)
    PROVE  GInv'
<1> USE DEF GInv
<1>1. \A p \in Operators : p # Cron /\ p # Free
  BY ReconstructionAssumption
<1>2. CASE EnableScheduling(o)
  <2>1. /\ runnerLock = o /\ pgLock = o /\ completed[o] = LastStage
        /\ replica = "current"
    BY <1>2 DEF EnableScheduling, LocksFollowStages, PassIsServing, LastStage
  <2>2. completed' = [completed EXCEPT ![o] = LastStage]
    BY <1>2, <2>1 DEF EnableScheduling, TypeOK
  <2>3. PICK next \in {"enabling", "failed"} :
            operator' = [operator EXCEPT ![o] = next]
    BY <1>2 DEF EnableScheduling, Goto
  <2>4. /\ marker' \in BOOLEAN /\ faults' \in 0 .. MaxFaults
        /\ granted' \in BOOLEAN
        /\ UNCHANGED <<runnerLock, pgLock, replica, daily>>
    BY <1>2 DEF EnableScheduling, TypeOK
  <2>5. /\ operator' \in [Operators -> {"idle", "running", "failed",
                                     "enabling", "releasing", "passed"}]
        /\ completed' \in [Operators -> 0 .. LastStage]
        /\ \A p \in Operators \ {o} : /\ operator'[p] = operator[p]
                                     /\ completed'[p] = completed[p]
        /\ operator'[o] = next /\ completed'[o] = LastStage
    BY <2>2, <2>3 DEF TypeOK, LastStage
  <2> QED
    BY <2>1, <2>3, <2>4, <2>5, OwnStep
<1>3. CASE ReleasePostgresLock(o)
  <2>1. runnerLock = o /\ pgLock = o /\ completed[o] = LastStage
    BY <1>3 DEF ReleasePostgresLock, LocksFollowStages
  <2>2. TypeOK'
    BY <1>3 DEF ReleasePostgresLock, TypeOK, Goto
  <2>3. LocksFollowStages'
    BY <1>1, <1>3, <2>1 DEF ReleasePostgresLock, LocksFollowStages, TypeOK, Goto
  <2>4. PassIsServing'
    BY <1>3, <2>1 DEF ReleasePostgresLock, PassIsServing, TypeOK, Goto
  <2> QED
    BY <2>2, <2>3, <2>4
<1>4. CASE ReleaseRunnerLock(o)
  <2>1. runnerLock = o /\ pgLock = Free
    BY <1>4 DEF ReleaseRunnerLock, LocksFollowStages
  <2>2. daily = "idle"
    BY <1>1, <2>1 DEF TypeOK
  <2>3. TypeOK'
    BY <1>4, <2>1, <2>2 DEF ReleaseRunnerLock, TypeOK, Goto, Free, Cron
  <2>4. LocksFollowStages'
    BY <1>1, <1>4, <2>1 DEF ReleaseRunnerLock, LocksFollowStages, TypeOK, Goto
  <2>5. PassIsServing'
    BY <1>4 DEF ReleaseRunnerLock, PassIsServing, TypeOK, Goto
  <2> QED
    BY <2>3, <2>4, <2>5
<1> QED
  BY <1>2, <1>3, <1>4

\* The end of a process frees its own locks and no other's.
LEMMA ExitStep ==
    ASSUME GInv, NEW o \in Operators, Exit(o)
    PROVE  GInv'
<1> USE DEF GInv
<1>1. o # Cron /\ o # Free /\ \A p \in Operators : p # Cron /\ p # Free
  BY ReconstructionAssumption
<1>2. /\ operator' = [operator EXCEPT ![o] = "idle"]
      /\ UNCHANGED <<marker, replica, granted, completed, daily>>
      /\ runnerLock' = IF runnerLock = o THEN Free ELSE runnerLock
      /\ pgLock' = IF pgLock = o THEN Free ELSE pgLock
  BY DEF Exit, Goto
<1>3. faults' \in 0 .. MaxFaults
  BY ReconstructionAssumption DEF Exit, Raise, TypeOK
<1>4. TypeOK'
  BY <1>1, <1>2, <1>3 DEF TypeOK, Free, Cron
<1>5. LocksFollowStages'
  BY <1>1, <1>2 DEF LocksFollowStages, TypeOK
<1>6. PassIsServing'
  BY <1>2 DEF PassIsServing, TypeOK
<1> QED
  BY <1>4, <1>5, <1>6

\* The daily job moves the data only while it holds the runner lock, that is
\* while no operator owns them.
LEMMA DailyStep ==
    ASSUME GInv, DailyLock \/ DailyCheck \/ DailyPipeline \/ DailySync
    PROVE  GInv'
<1> USE DEF GInv
<1>1. \A p \in Operators : p # Cron /\ p # Free
  BY ReconstructionAssumption
<1>2. runnerLock \in {Free, Cron} /\ runnerLock' \in {Free, Cron}
  BY DEF DailyLock, DailyCheck, DailyPipeline, DailySync, DailyDone, TypeOK
<1>3. pgLock = Free
  BY <1>1, <1>2 DEF TypeOK, Free, Cron
<1>4. \A o \in Operators : ~Owns(o)
  BY <1>1, <1>2 DEF LocksFollowStages, Owns
<1>5. UNCHANGED <<pgLock, operator, completed, faults, marker, granted>>
  BY DEF DailyLock, DailyCheck, DailyPipeline, DailySync
<1>6. replica' \in {"current", "stale", "blank"}
  BY DEF DailyLock, DailyCheck, DailyPipeline, DailySync, Outdated, TypeOK
<1>7. TypeOK'
  BY <1>2, <1>3, <1>5, <1>6
  DEF DailyLock, DailyCheck, DailyPipeline, DailySync, DailyDone, TypeOK,
      Free, Cron
<1>8. LocksFollowStages'
  BY <1>4, <1>5 DEF LocksFollowStages, Owns, TypeOK, LastStage
<1>9. PassIsServing'
  BY <1>4, <1>5 DEF PassIsServing, Owns, TypeOK
<1> QED
  BY <1>7, <1>8, <1>9

\* The inductive step.
LEMMA GuardsPreserved == GInv /\ [Next]_vars => GInv'
<1> SUFFICES ASSUME GInv, [Next]_vars PROVE GInv'
  OBVIOUS
<1>1. ASSUME NEW o \in Operators, Start(o) PROVE GInv'
  <2>1. /\ operator' = [operator EXCEPT ![o] = "running"]
        /\ completed' = [completed EXCEPT ![o] = 0]
        /\ UNCHANGED <<marker, runnerLock, pgLock, replica, granted, daily,
                       faults>>
    BY <1>1 DEF Start, Goto, guards
  <2>2. /\ marker' \in BOOLEAN /\ granted' \in BOOLEAN /\ faults' \in 0 .. MaxFaults
        /\ replica' \in {"current", "stale", "blank"}
    BY <2>1 DEF GInv, TypeOK
  <2>3. /\ operator' \in [Operators -> {"idle", "running", "failed",
                                     "enabling", "releasing", "passed"}]
        /\ completed' \in [Operators -> 0 .. LastStage]
        /\ \A p \in Operators \ {o} : /\ operator'[p] = operator[p]
                                     /\ completed'[p] = completed[p]
        /\ operator'[o] = "running" /\ completed'[o] = 0
    BY <2>1 DEF GInv, TypeOK, LastStage
  <2> QED
    BY <2>1, <2>2, <2>3, OwnStep
<1>2. ASSUME NEW o \in Operators, Reconstruct(o) PROVE GInv'
  BY <1>1, <1>2, StageStep, AcquireStep, ReleaseStep, ExitStep DEF Reconstruct
<1>3. CASE UNCHANGED vars
  BY <1>3 DEF vars, guards, GInv, TypeOK, LocksFollowStages, PassIsServing
<1>4. CASE Provision
  BY <1>4 DEF Provision, guards, GInv, TypeOK, LocksFollowStages, PassIsServing
<1> QED
  BY <1>2, <1>3, <1>4, DailyStep DEF Next

\* Nobody holds anything at the start.
LEMMA GuardsInit == Init => GInv
<1> SUFFICES ASSUME Init PROVE GInv
  OBVIOUS
<1>1. \A o \in Operators : operator[o] = "idle"
  BY DEF Init
<1>2. /\ operator \in [Operators -> {"idle", "running", "failed", "enabling",
                                    "releasing", "passed"}]
      /\ completed \in [Operators -> 0 .. LastStage]
  BY DEF Init, LastStage
<1>3. Free # Cron /\ faults \in 0 .. MaxFaults
  BY ReconstructionAssumption DEF Init, Free, Cron
<1>4. TypeOK
  BY <1>2, <1>3 DEF Init, TypeOK
<1> QED
  BY <1>1, <1>4 DEF GInv, LocksFollowStages, PassIsServing

-----------------------------------------------------------------------------
(* The theorems.                                                           *)

\* Every reachable state satisfies the inductive invariant.
THEOREM GuardsInvariance == Spec => []GInv
BY GuardsInit, GuardsPreserved, PTL DEF Spec

\* Type correctness of the guards, with the consistency of the two locks.
THEOREM GuardsTypeCorrectness == Spec => []TypeOK
<1>1. GInv => TypeOK
  BY DEF GInv
<1> QED
  BY <1>1, GuardsInvariance, PTL

\* However many operators start reconstructions, at most one is past its
\* locks, and never beside a daily job.
THEOREM Exclusion == Spec => []OneAtATime
BY OwnersExclude, GuardsInvariance, PTL

\* When a reconstruction reports PASS the serving schemas hold the current
\* build, and they do from its publication on.
THEOREM PassMeansServing == Spec => []PassIsServing
<1>1. GInv => PassIsServing
  BY DEF GInv
<1> QED
  BY <1>1, GuardsInvariance, PTL

\* Past its locks a reconstruction that meets no error fails only for the
\* privileges of recreated schemas or a marker that another run removed.
THEOREM FailuresAreExplained == Spec => FailuresExplained
<1>1. ASSUME GInv, Next, NEW o \in Operators,
             Owns(o), operator'[o] = "failed", UNCHANGED faults
      PROVE  \/ At(o, "verification") /\ ~granted
             \/ completed[o] = LastStage /\ ~marker
  <2> USE DEF GInv
  <2>1. completed[o] \in 0 .. LastStage /\ completed[o] >= 2
    BY <1>1 DEF Owns, TypeOK
  <2>2. operator[o] # "failed"
    BY <1>1 DEF Owns
  <2>3. ASSUME NEW p \in Operators, Reconstruct(p)
        PROVE  \/ p = o /\ (VerifyPostgres(o) \/ Replay(o)
                               \/ EnableScheduling(o))
               \/ operator' = operator
    <3>1. CASE Start(p) \/ Exit(p) \/ ReleasePostgresLock(p)
                 \/ ReleaseRunnerLock(p) \/ AcquireLocks(p)
      BY <1>1, <2>1, <2>2, <3>1, StageOrder
      DEF Start, Exit, ReleasePostgresLock, ReleaseRunnerLock, AcquireLocks,
          Completed, Fail, Goto, TypeOK
    <3>2. CASE DisableScheduling(p) \/ Inspect(p) \/ PublishGold(p)
                 \/ RecreateSchema(p) \/ PublishPostgres(p)
      BY <3>2 DEF DisableScheduling, Inspect, PublishGold, RecreateSchema,
                  PublishPostgres, Published, Completed
    <3>3. CASE VerifyPostgres(p) \/ Replay(p) \/ EnableScheduling(p)
      BY <1>1, <2>2, <3>3 DEF VerifyPostgres, Replay, EnableScheduling,
                              Completed, Fail, Goto, TypeOK
    <3>4. CASE StageFails(p)
      BY <1>1, <3>4 DEF StageFails, Raise, TypeOK
    <3> QED
      BY <2>3, <3>1, <3>2, <3>3, <3>4 DEF Reconstruct
  <2>4. CASE VerifyPostgres(o)
    <3>1. replica = "current"
      BY <1>1, <2>1, <2>4, StageOrder DEF VerifyPostgres, PassIsServing, At
    <3> QED
      BY <1>1, <2>2, <2>4, <3>1 DEF VerifyPostgres, Completed
  <2>5. CASE Replay(o)
    <3>1. replica = "current"
      BY <1>1, <2>1, <2>5, StageOrder DEF Replay, PassIsServing, At
    <3> QED
      BY <1>1, <2>2, <2>5, <3>1 DEF Replay, Completed
  <2>6. CASE EnableScheduling(o)
    BY <1>1, <2>6 DEF EnableScheduling, Goto, TypeOK
  <2>7. Provision \/ DailyLock \/ DailyCheck \/ DailyPipeline \/ DailySync
          => operator' = operator
    BY DEF Provision, DailyLock, DailyCheck, DailyPipeline, DailySync
  <2> QED
    BY <1>1, <2>2, <2>3, <2>4, <2>5, <2>6, <2>7 DEF Next
<1>2. GInv /\ [Next]_vars =>
          [\A o \in Operators :
              /\ Owns(o)
              /\ operator'[o] = "failed"
              /\ UNCHANGED faults
              => \/ At(o, "verification") /\ ~granted
                 \/ completed[o] = LastStage /\ ~marker]_vars
  BY <1>1
<1> QED
  BY <1>2, GuardsInvariance, PTL DEF Spec, FailuresExplained

-----------------------------------------------------------------------------
(* Reconstructions that follow one another.                                *)

\* Past its first stage a running reconstruction has the marker in place.
MarkerFollowsStages ==
    \A o \in Operators :
        operator[o] = "running" /\ completed[o] >= 1 => marker

\* The inductive invariant while no two reconstructions overlap.
SInv == GInv /\ MarkerFollowsStages /\ BlankUnderMaintenance

\* A step between states without overlap keeps the marker where it must be.
LEMMA MarkerPreserved ==
    ASSUME Alone, SInv, [Next]_vars
    PROVE  SInv'
<1> USE DEF SInv
<1>1. GInv'
  BY GuardsPreserved
<1>2. TypeOK /\ TypeOK'
  BY <1>1 DEF GInv
<1>3. ASSUME NEW o \in Operators,
             Start(o) \/ AcquireLocks(o) \/ Inspect(o) \/ VerifyPostgres(o)
      PROVE  MarkerFollowsStages' /\ BlankUnderMaintenance'
  <2>1. UNCHANGED <<marker, replica>>
    BY <1>3 DEF Start, AcquireLocks, Inspect, VerifyPostgres, guards
  <2>2. operator'[o] = "running" /\ completed'[o] >= 1 => marker
    <3>1. CASE Start(o)
      BY <1>2, <3>1 DEF Start, TypeOK
    <3>2. CASE AcquireLocks(o) \/ Inspect(o) \/ VerifyPostgres(o)
      <4>1. completed[o] \in {1, 2, 3, 4, 5, 9, 11} /\ operator[o] = "running"
        BY <1>2, <3>2, StageOrder
        DEF AcquireLocks, Inspect, VerifyPostgres, TypeOK, At
      <4> QED
        BY <4>1 DEF MarkerFollowsStages
    <3> QED
      BY <1>3, <3>1, <3>2
  <2>3. ASSUME NEW p \in Operators, p # o
        PROVE  operator'[p] = operator[p] /\ completed'[p] = completed[p]
    BY <1>2, <1>3, <2>3
    DEF Start, AcquireLocks, Inspect, VerifyPostgres, Completed, Fail, Goto, TypeOK
  <2> QED
    BY <2>1, <2>2, <2>3 DEF MarkerFollowsStages, BlankUnderMaintenance
<1>4. ASSUME NEW o \in Operators, DisableScheduling(o)
      PROVE  MarkerFollowsStages' /\ BlankUnderMaintenance'
  BY <1>4 DEF DisableScheduling, MarkerFollowsStages, BlankUnderMaintenance
<1>5. ASSUME NEW o \in Operators,
             PublishGold(o) \/ RecreateSchema(o) \/ PublishPostgres(o)
               \/ Replay(o) \/ StageFails(o)
      PROVE  MarkerFollowsStages' /\ BlankUnderMaintenance'
  <2>1. UNCHANGED marker /\ operator[o] = "running"
    BY <1>5 DEF PublishGold, RecreateSchema, PublishPostgres, Published,
                Replay, StageFails, guards, At
  <2>2. replica' = replica \/ completed[o] \in {6, 7, 8, 10}
    BY <1>2, <1>5, StageOrder
    DEF PublishGold, RecreateSchema, PublishPostgres, Published, Replay,
        StageFails, TypeOK
  <2>3. operator'[o] = "running" => completed[o] >= 1
    BY <1>2, <1>5, StageOrder
    DEF PublishGold, RecreateSchema, PublishPostgres, Published, Replay,
        StageFails, Fail, Goto, TypeOK
  <2>4. ASSUME NEW p \in Operators, p # o
        PROVE  operator'[p] = operator[p] /\ completed'[p] = completed[p]
    BY <1>2, <1>5, <2>4
    DEF PublishGold, RecreateSchema, PublishPostgres, Published, Replay,
        StageFails, Completed, Fail, Goto, TypeOK
  <2> QED
    BY <1>2, <2>1, <2>2, <2>3, <2>4
    DEF MarkerFollowsStages, BlankUnderMaintenance, TypeOK
<1>6. ASSUME NEW o \in Operators, EnableScheduling(o)
      PROVE  MarkerFollowsStages' /\ BlankUnderMaintenance'
  <2>1. replica' = "current"
    BY <1>6 DEF EnableScheduling, GInv, PassIsServing, LastStage
  <2>2. operator'[o] # "running"
    BY <1>2, <1>6 DEF EnableScheduling, Goto, TypeOK
  <2>3. ASSUME NEW p \in Operators, p # o PROVE operator'[p] # "running"
    BY <1>2, <1>6, <2>3 DEF EnableScheduling, Goto, Alone, TypeOK
  <2> QED
    BY <2>1, <2>2, <2>3 DEF MarkerFollowsStages, BlankUnderMaintenance
<1>7. ASSUME NEW o \in Operators,
             ReleasePostgresLock(o) \/ ReleaseRunnerLock(o) \/ Exit(o)
      PROVE  MarkerFollowsStages' /\ BlankUnderMaintenance'
  BY <1>2, <1>7 DEF ReleasePostgresLock, ReleaseRunnerLock, Exit, Goto, TypeOK,
                    MarkerFollowsStages, BlankUnderMaintenance
<1>8. CASE DailyLock \/ DailyCheck \/ DailyPipeline \/ DailySync
  BY <1>1, <1>8 DEF DailyLock, DailyCheck, DailyPipeline, DailySync, Outdated,
              MarkerFollowsStages, BlankUnderMaintenance
<1>9. CASE UNCHANGED vars \/ Provision
  BY <1>1, <1>9
  DEF vars, guards, Provision, MarkerFollowsStages, BlankUnderMaintenance
<1> QED
  BY <1>1, <1>3, <1>4, <1>5, <1>6, <1>7, <1>8, <1>9 DEF Next, Reconstruct

\* While no two reconstructions overlap, an emptied replica keeps scheduling
\* disabled until it has been republished, whatever fails and is retried.
THEOREM EmptiedUnderMarker == Spec => SerialBlankUnderMaintenance
<1>1. Init => SInv
  BY GuardsInit DEF Init, SInv, MarkerFollowsStages, BlankUnderMaintenance
<1>2. SInv /\ Alone /\ [Next]_vars => SInv'
  BY MarkerPreserved
<1>3. SInv => BlankUnderMaintenance
  BY DEF SInv
<1> QED
  BY <1>1, <1>2, <1>3, PTL DEF Spec, SerialBlankUnderMaintenance
=============================================================================
