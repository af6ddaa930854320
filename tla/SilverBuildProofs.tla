------------------------- MODULE SilverBuildProofs -------------------------
(***************************************************************************)
(* Proofs about the way from Bronze to Gold, for any number of series,     *)
(* days, months, news and faults.  A daily job that has the lake to itself *)
(* reads what nobody changes under it, so what its threads have read so    *)
(* far is what is stored; months a rebuild left torn differ from the merge *)
(* and are written again.                                                  *)
(***************************************************************************)
EXTENDS SilverBuild, FiniteSetTheorems, TLAPS

ThreadType == [work : Works, frame : Frames, stored : Frames,
               left : SUBSET Months]

-----------------------------------------------------------------------------
(* Frames and threads.                                                     *)

LEMMA Bounds ==
    /\ LastDay \in Nat \ {0} /\ MonthLength \in Nat \ {0}
    /\ Revisions \in Nat \ {0} /\ MaxNews \in Nat /\ MaxFaults \in Nat
BY SilverAssumption

LEMMA FrameTypes ==
    /\ Empty \in Frames
    /\ \A a, b \in Frames : Merged(a, b) \in Frames
    /\ \A a, b \in Frames : \A m : WithMonth(a, b, m) \in Frames
    /\ \A a, b : Changed(a, b) \subseteq Months
BY Bounds DEF Empty, Frames, Merged, WithMonth, Changed, Months

LEMMA NewThreadType ==
    ASSUME NEW work \in Works, NEW months \in SUBSET Months
    PROVE  Thread(work, months) \in ThreadType
BY FrameTypes DEF Thread, ThreadType

LEMMA PlannedType ==
    ASSUME NEW a \in Frames, NEW b \in Frames
    PROVE  Planned(a, b) \in ThreadType
BY FrameTypes DEF Planned, ThreadType, Works

LEMMA ThreadTyped ==
    ASSUME TypeOK, NEW p \in Procs, NEW s \in Series
    PROVE  /\ thread[p][s] \in ThreadType
           /\ thread[p][s].frame \in Frames /\ thread[p][s].stored \in Frames
           /\ thread[p][s].left \in SUBSET Months
           /\ bronze[s] \in Frames /\ silver[s] \in Frames /\ gold[s] \in Frames
BY DEF TypeOK, ThreadType

\* All threads but one stay.
Others(p, s) ==
    \A q \in Procs, u \in Series :
        q # p \/ u # s => thread'[q][u] = thread[q][u]

LEMMA AdvanceLocal ==
    ASSUME TypeOK, NEW p \in Procs, NEW s \in Series, NEW new, Advance(p, s, new)
    PROVE  /\ thread'[p][s] = new
           /\ Others(p, s)
           /\ new \in ThreadType => thread' \in [Procs -> [Series -> ThreadType]]
<1>1. thread \in [Procs -> [Series -> ThreadType]]
  BY DEF TypeOK, ThreadType
<1>2. thread' = [thread EXCEPT ![p] = [thread[p] EXCEPT ![s] = new]]
  BY <1>1 DEF Advance
<1> QED
  BY <1>1, <1>2 DEF Others

LEMMA EnterLocal ==
    ASSUME TypeOK, NEW p \in Procs, NEW next \in Phases, NEW series,
           NEW work \in Works, NEW months \in SUBSET Months,
           Enter(p, next, series, work, months)
    PROVE  /\ phase'[p] = next
           /\ \A q \in Procs \ {p} : phase'[q] = phase[q] /\ thread'[q] = thread[q]
           /\ \A s \in Series :
                thread'[p][s] = IF s \in series THEN Thread(work, months)
                                ELSE Thread("none", {})
           /\ phase' \in [Procs -> Phases]
           /\ thread' \in [Procs -> [Series -> ThreadType]]
<1>1. thread \in [Procs -> [Series -> ThreadType]] /\ phase \in [Procs -> Phases]
  BY DEF TypeOK, ThreadType
<1>2. Thread(work, months) \in ThreadType /\ Thread("none", {}) \in ThreadType
  BY NewThreadType DEF Works
<1> QED
  BY <1>1, <1>2 DEF Enter

LEMMA EnterAllLocal ==
    ASSUME TypeOK, NEW p \in Procs, NEW next \in Phases,
           NEW work \in Works, NEW months \in SUBSET Months,
           Enter(p, next, Series, work, months)
    PROVE  /\ phase'[p] = next
           /\ \A q \in Procs \ {p} : phase'[q] = phase[q] /\ thread'[q] = thread[q]
           /\ \A s \in Series : thread'[p][s] = Thread(work, months)
           /\ phase' \in [Procs -> Phases]
           /\ thread' \in [Procs -> [Series -> ThreadType]]
<1>1. thread \in [Procs -> [Series -> ThreadType]]
  BY DEF TypeOK, ThreadType
<1>2. \A s \in Series : thread'[p][s] = Thread(work, months)
  BY <1>1 DEF Enter
<1>3. /\ phase'[p] = next
      /\ \A q \in Procs \ {p} : phase'[q] = phase[q] /\ thread'[q] = thread[q]
      /\ phase' \in [Procs -> Phases]
      /\ thread' \in [Procs -> [Series -> ThreadType]]
  BY EnterLocal
<1> QED
  BY <1>2, <1>3

LEMMA LeaveLocal ==
    ASSUME TypeOK, NEW p \in Procs, Leave(p)
    PROVE  /\ phase'[p] = "idle"
           /\ \A q \in Procs \ {p} : phase'[q] = phase[q] /\ thread'[q] = thread[q]
           /\ \A s \in Series : thread'[p][s] = Thread("none", {})
           /\ phase' \in [Procs -> Phases]
           /\ thread' \in [Procs -> [Series -> ThreadType]]
<1>1. "idle" \in Phases /\ "none" \in Works /\ {} \in SUBSET Months
  BY DEF Phases, Works
<1>2. Enter(p, "idle", {}, "none", {})
  BY DEF Leave
<1>3. /\ phase'[p] = "idle"
      /\ \A q \in Procs \ {p} : phase'[q] = phase[q] /\ thread'[q] = thread[q]
      /\ \A s \in Series :
           thread'[p][s] = IF s \in {} THEN Thread("none", {})
                           ELSE Thread("none", {})
      /\ phase' \in [Procs -> Phases]
      /\ thread' \in [Procs -> [Series -> ThreadType]]
  BY <1>1, <1>2, EnterLocal
<1> QED
  BY <1>3

LEMMA RaiseType ==
    ASSUME TypeOK, Raise \/ UNCHANGED faults
    PROVE  faults' \in 0 .. MaxFaults
<1>1. faults \in 0 .. MaxFaults
  BY DEF TypeOK
<1> QED
  BY <1>1, Bounds DEF Raise

-----------------------------------------------------------------------------
(* What the step of a thread does.                                         *)

\* Nothing but the thread of p for s and the files of s has changed.
Moved(p, s) ==
    /\ UNCHANGED <<gold, phase, overlap>>
    /\ Others(p, s)
    /\ \A u \in Series \ {s} : bronze'[u] = bronze[u] /\ silver'[u] = silver[u]

LEMMA FetchLocal ==
    ASSUME TypeOK, NEW s \in Series, Fetch(s)
    PROVE  /\ Moved("daily", s) /\ UNCHANGED <<bronze, silver>>
           /\ thread["daily"][s].work = "fetch"
           /\ thread'["daily"][s].work = "commit"
           /\ thread'["daily"][s].stored = bronze[s]
           /\ Observed(bronze[s]) \subseteq Observed(thread'["daily"][s].frame)
           /\ TypeOK'
<1>1. PICK incoming \in Incoming :
        LET merged == Merged(bronze[s], incoming)
            fresh  == Cardinality({d \in Days : merged[d] # bronze[s][d]})
        IN  /\ news + fresh <= MaxNews
            /\ news' = news + fresh
            /\ Advance("daily", s,
                       [work |-> "commit", frame |-> merged, stored |-> bronze[s],
                        left |-> Changed(bronze[s], merged)])
  BY DEF Fetch
<1> DEFINE merged == Merged(bronze[s], incoming)
           new == [work |-> "commit", frame |-> merged, stored |-> bronze[s],
                   left |-> Changed(bronze[s], merged)]
           fresh == {d \in Days : merged[d] # bronze[s][d]}
<1>2. "daily" \in Procs
  BY DEF Procs
<1>3. merged \in Frames /\ bronze[s] \in Frames
  BY <1>2, FrameTypes, ThreadTyped DEF Incoming
<1>4. new \in ThreadType
  BY <1>3, FrameTypes DEF ThreadType, Works
<1>5. /\ thread'["daily"][s] = new /\ Others("daily", s)
      /\ thread' \in [Procs -> [Series -> ThreadType]]
  BY <1>1, <1>2, <1>4, AdvanceLocal
<1>6. Cardinality(fresh) \in Nat
  <2>1. IsFiniteSet(Days)
    BY FS_Interval, Bounds DEF Days
  <2> QED
    BY <2>1, FS_Subset, FS_CardinalityType
<1>7. news' \in 0 .. MaxNews
  BY <1>1, <1>6, Bounds DEF TypeOK
<1>8. Observed(bronze[s]) \subseteq Observed(merged)
  BY DEF Observed, Merged
<1>9. TypeOK'
  BY <1>5, <1>7 DEF Fetch, TypeOK, lake, ThreadType
<1> QED
  BY <1>5, <1>8, <1>9 DEF Fetch, lake, Moved

LEMMA CommitMonthLocal ==
    ASSUME TypeOK, NEW s \in Series, CommitMonth(s)
    PROVE  LET t == thread["daily"][s]
           IN  /\ Moved("daily", s) /\ UNCHANGED silver
               /\ t.work = "commit"
               /\ bronze'[s] = WithMonth(bronze[s], t.frame, Min(t.left))
               /\ thread'["daily"][s] = [t EXCEPT !.left = @ \ {Min(t.left)}]
               /\ TypeOK'
<1> DEFINE t == thread["daily"][s]
           new == [t EXCEPT !.left = @ \ {Min(t.left)}]
<1>1. "daily" \in Procs
  BY DEF Procs
<1>2. t \in ThreadType /\ new \in ThreadType
  BY <1>1, ThreadTyped DEF ThreadType
<1>3. /\ thread'["daily"][s] = new /\ Others("daily", s)
      /\ thread' \in [Procs -> [Series -> ThreadType]]
  BY <1>1, <1>2, AdvanceLocal DEF CommitMonth
<1>4. WithMonth(bronze[s], t.frame, Min(t.left)) \in Frames
  BY <1>1, FrameTypes, ThreadTyped
<1>5. bronze' = [bronze EXCEPT ![s] = WithMonth(bronze[s], t.frame, Min(t.left))]
      /\ bronze \in [Series -> Frames]
  BY DEF CommitMonth, TypeOK
<1>6. TypeOK'
  BY <1>3, <1>4, <1>5 DEF CommitMonth, TypeOK, bounds, ThreadType
<1> QED
  BY <1>3, <1>5, <1>6 DEF CommitMonth, Moved

LEMMA CommittedLocal ==
    ASSUME TypeOK, NEW s \in Series, Committed(s)
    PROVE  /\ Moved("daily", s) /\ UNCHANGED <<bronze, silver>>
           /\ thread["daily"][s].work = "commit"
           /\ thread'["daily"][s] = Thread("done", {})
           /\ TypeOK'
<1>1. "daily" \in Procs /\ Thread("done", {}) \in ThreadType
  BY NewThreadType DEF Procs, Works
<1>2. /\ thread'["daily"][s] = Thread("done", {}) /\ Others("daily", s)
      /\ thread' \in [Procs -> [Series -> ThreadType]]
  BY <1>1, AdvanceLocal DEF Committed
<1> QED
  BY <1>2 DEF Committed, Moved, lake, bounds, TypeOK, ThreadType

LEMMA UndoCommitLocal ==
    ASSUME TypeOK, NEW s \in Series, UndoCommit(s)
    PROVE  /\ Moved("daily", s) /\ UNCHANGED silver
           /\ thread["daily"][s].work = "commit"
           /\ thread'["daily"][s] = Thread("failed", {})
           /\ \A d \in Days : bronze'[s][d] \in {thread["daily"][s].stored[d],
                                                 bronze[s][d]}
           /\ TypeOK'
<1> DEFINE t == thread["daily"][s]
<1>1. "daily" \in Procs /\ Thread("failed", {}) \in ThreadType
  BY NewThreadType DEF Procs, Works
<1>2. /\ thread'["daily"][s] = Thread("failed", {}) /\ Others("daily", s)
      /\ thread' \in [Procs -> [Series -> ThreadType]]
  BY <1>1, AdvanceLocal DEF UndoCommit
<1>3. PICK m \in Months :
        bronze' = [bronze EXCEPT ![s] = [d \in Days |->
                      IF MonthOf(d) >= m THEN t.stored[d] ELSE bronze[s][d]]]
  BY DEF UndoCommit
<1>4. t.stored \in Frames /\ bronze[s] \in Frames /\ bronze \in [Series -> Frames]
  BY <1>1, ThreadTyped DEF TypeOK
<1>5. [d \in Days |-> IF MonthOf(d) >= m THEN t.stored[d] ELSE bronze[s][d]]
        \in Frames
  BY <1>4 DEF Frames
<1>6. bronze' \in [Series -> Frames]
  BY <1>3, <1>4, <1>5
<1>7. faults' \in 0 .. MaxFaults
  BY RaiseType DEF UndoCommit
<1>8. TypeOK'
  BY <1>2, <1>6, <1>7 DEF UndoCommit, TypeOK, ThreadType
<1> QED
  BY <1>2, <1>3, <1>4, <1>8 DEF UndoCommit, Moved

LEMMA ReadBronzeLocal ==
    ASSUME TypeOK, NEW p \in Procs, NEW s \in Series, ReadBronze(p, s)
    PROVE  LET t == thread[p][s]
               n == thread'[p][s]
           IN  /\ Moved(p, s) /\ UNCHANGED <<bronze, silver>>
               /\ t.work = "bronze"
               /\ n.stored = t.stored
               /\ \E m \in t.left :
                    /\ n.frame = WithMonth(t.frame, bronze[s], m)
                    /\ \/ n.work = "bronze" /\ n.left = t.left \ {m}
                       \/ n.work = "silver" /\ t.left \ {m} = {} /\ n.left = Months
               /\ TypeOK'
<1> DEFINE t == thread[p][s]
<1>1. PICK m \in t.left :
        LET read == [t EXCEPT !.frame = WithMonth(@, bronze[s], m),
                              !.left = @ \ {m}]
        IN  Advance(p, s, IF read.left # {} THEN read
                          ELSE [read EXCEPT !.work = "silver", !.left = Months])
  BY DEF ReadBronze
<1>2. t \in ThreadType /\ WithMonth(t.frame, bronze[s], m) \in Frames
  BY FrameTypes, ThreadTyped
<1> DEFINE read == [t EXCEPT !.frame = WithMonth(@, bronze[s], m),
                             !.left = @ \ {m}]
           new == IF read.left # {} THEN read
                  ELSE [read EXCEPT !.work = "silver", !.left = Months]
<1>3. /\ read \in ThreadType /\ read.left = t.left \ {m}
      /\ read.frame = WithMonth(t.frame, bronze[s], m)
      /\ read.stored = t.stored /\ read.work = t.work
  BY <1>2 DEF ThreadType
<1> HIDE DEF read
<1>4. /\ new \in ThreadType
      /\ new.frame = WithMonth(t.frame, bronze[s], m) /\ new.stored = t.stored
      /\ \/ new.work = t.work /\ new.left = t.left \ {m}
         \/ new.work = "silver" /\ t.left \ {m} = {} /\ new.left = Months
  BY <1>3 DEF ThreadType, Works
<1>5. /\ thread'[p][s] = new /\ Others(p, s)
      /\ thread' \in [Procs -> [Series -> ThreadType]]
  BY <1>1, <1>4, AdvanceLocal DEF read
<1> HIDE DEF new
<1>6. TypeOK'
  BY <1>5 DEF ReadBronze, TypeOK, lake, bounds, ThreadType
<1> QED
  BY <1>4, <1>5, <1>6 DEF ReadBronze, Moved, lake

LEMMA ReadSilverLocal ==
    ASSUME TypeOK, NEW p \in Procs, NEW s \in Series, ReadSilver(p, s)
    PROVE  LET t == thread[p][s]
               n == thread'[p][s]
           IN  /\ Moved(p, s) /\ UNCHANGED <<bronze, silver>>
               /\ t.work = "silver"
               /\ \E m \in t.left :
                    LET stored == WithMonth(t.stored, silver[s], m)
                    IN  \/ /\ n.work = "silver" /\ n.left = t.left \ {m}
                           /\ n.frame = t.frame /\ n.stored = stored
                        \/ /\ t.left \ {m} = {}
                           /\ n = Planned(t.frame, stored)
               /\ TypeOK'
<1> DEFINE t == thread[p][s]
<1>1. PICK m \in t.left :
        LET read == [t EXCEPT !.stored = WithMonth(@, silver[s], m),
                              !.left = @ \ {m}]
        IN  Advance(p, s, IF read.left # {} THEN read
                          ELSE Planned(read.frame, read.stored))
  BY DEF ReadSilver
<1>2. /\ t \in ThreadType /\ t.frame \in Frames
      /\ WithMonth(t.stored, silver[s], m) \in Frames
  BY FrameTypes, ThreadTyped
<1> DEFINE read == [t EXCEPT !.stored = WithMonth(@, silver[s], m),
                             !.left = @ \ {m}]
           new == IF read.left # {} THEN read
                  ELSE Planned(read.frame, read.stored)
<1>3. /\ read \in ThreadType /\ read.left = t.left \ {m}
      /\ read.stored = WithMonth(t.stored, silver[s], m)
      /\ read.frame = t.frame /\ read.work = t.work
  BY <1>2 DEF ThreadType
<1> HIDE DEF read
<1>4. /\ new \in ThreadType
      /\ \/ /\ new.work = t.work /\ new.left = t.left \ {m}
            /\ new.frame = t.frame
            /\ new.stored = WithMonth(t.stored, silver[s], m)
         \/ /\ t.left \ {m} = {}
            /\ new = Planned(t.frame, WithMonth(t.stored, silver[s], m))
  BY <1>2, <1>3, PlannedType
<1>5. /\ thread'[p][s] = new /\ Others(p, s)
      /\ thread' \in [Procs -> [Series -> ThreadType]]
  BY <1>1, <1>4, AdvanceLocal DEF read
<1> HIDE DEF new
<1>6. TypeOK'
  BY <1>5 DEF ReadSilver, TypeOK, lake, bounds, ThreadType
<1> QED
  BY <1>4, <1>5, <1>6 DEF ReadSilver, Moved, lake

LEMMA WriteSilverLocal ==
    ASSUME TypeOK, NEW p \in Procs, NEW s \in Series, WriteSilver(p, s)
    PROVE  LET t == thread[p][s]
           IN  /\ Moved(p, s) /\ UNCHANGED bronze
               /\ t.work = "write"
               /\ silver'[s] = WithMonth(silver[s], t.frame, Min(t.left))
               /\ thread'[p][s] = [t EXCEPT !.left = @ \ {Min(t.left)}]
               /\ TypeOK'
<1> DEFINE t == thread[p][s]
           new == [t EXCEPT !.left = @ \ {Min(t.left)}]
<1>1. t \in ThreadType /\ new \in ThreadType
  BY ThreadTyped DEF ThreadType
<1>2. /\ thread'[p][s] = new /\ Others(p, s)
      /\ thread' \in [Procs -> [Series -> ThreadType]]
  BY <1>1, AdvanceLocal DEF WriteSilver
<1>3. WithMonth(silver[s], t.frame, Min(t.left)) \in Frames
  BY FrameTypes, ThreadTyped
<1>4. silver' = [silver EXCEPT ![s] = WithMonth(silver[s], t.frame, Min(t.left))]
      /\ silver \in [Series -> Frames]
  BY DEF WriteSilver, TypeOK
<1>5. TypeOK'
  BY <1>2, <1>3, <1>4 DEF WriteSilver, TypeOK, bounds, ThreadType
<1> QED
  BY <1>2, <1>4, <1>5 DEF WriteSilver, Moved

LEMMA BuiltLocal ==
    ASSUME TypeOK, NEW p \in Procs, NEW s \in Series, Built(p, s)
    PROVE  /\ Moved(p, s) /\ UNCHANGED <<bronze, silver>>
           /\ thread[p][s].work = "write" /\ thread[p][s].left = {}
           /\ thread'[p][s] = Thread("done", {})
           /\ TypeOK'
<1>1. Thread("done", {}) \in ThreadType
  BY NewThreadType DEF Works
<1>2. /\ thread'[p][s] = Thread("done", {}) /\ Others(p, s)
      /\ thread' \in [Procs -> [Series -> ThreadType]]
  BY <1>1, AdvanceLocal DEF Built
<1> QED
  BY <1>2 DEF Built, Moved, lake, bounds, TypeOK, ThreadType

LEMMA ReadLevelsLocal ==
    ASSUME TypeOK, NEW p \in Procs, NEW s \in Series, ReadLevels(p, s)
    PROVE  LET t == thread[p][s]
               n == thread'[p][s]
           IN  /\ Moved(p, s) /\ UNCHANGED <<bronze, silver>>
               /\ t.work = "levels"
               /\ \E m \in t.left :
                    /\ n.frame = WithMonth(t.frame, silver[s], m)
                    /\ n.left = t.left \ {m} /\ n.stored = t.stored
                    /\ \/ n.work = "levels"
                       \/ n.work = "done" /\ n.left = {}
               /\ TypeOK'
<1> DEFINE t == thread[p][s]
<1>1. PICK m \in t.left :
        LET read == [t EXCEPT !.frame = WithMonth(@, silver[s], m),
                              !.left = @ \ {m}]
        IN  Advance(p, s, IF read.left # {} THEN read
                          ELSE [read EXCEPT !.work = "done"])
  BY DEF ReadLevels
<1>2. t \in ThreadType /\ WithMonth(t.frame, silver[s], m) \in Frames
  BY FrameTypes, ThreadTyped
<1> DEFINE read == [t EXCEPT !.frame = WithMonth(@, silver[s], m),
                             !.left = @ \ {m}]
           new == IF read.left # {} THEN read ELSE [read EXCEPT !.work = "done"]
<1>3. /\ read \in ThreadType /\ read.left = t.left \ {m}
      /\ read.frame = WithMonth(t.frame, silver[s], m)
      /\ read.stored = t.stored /\ read.work = t.work
  BY <1>2 DEF ThreadType
<1> HIDE DEF read
<1>4. /\ new \in ThreadType
      /\ new.frame = WithMonth(t.frame, silver[s], m)
      /\ new.left = t.left \ {m} /\ new.stored = t.stored
      /\ \/ new.work = t.work
         \/ new.work = "done" /\ new.left = {}
  BY <1>3 DEF ThreadType, Works
<1>5. /\ thread'[p][s] = new /\ Others(p, s)
      /\ thread' \in [Procs -> [Series -> ThreadType]]
  BY <1>1, <1>4, AdvanceLocal DEF read
<1> HIDE DEF new
<1>6. TypeOK'
  BY <1>5 DEF ReadLevels, TypeOK, lake, bounds, ThreadType
<1> QED
  BY <1>4, <1>5, <1>6 DEF ReadLevels, Moved, lake

LEMMA ThreadFailsLocal ==
    ASSUME TypeOK, NEW p \in Procs, NEW s \in Series, ThreadFails(p, s)
    PROVE  /\ Moved(p, s) /\ UNCHANGED <<bronze, silver>>
           /\ thread[p][s].work \in {"fetch", "bronze", "silver", "write", "levels"}
           /\ thread'[p][s] = Thread("failed", {})
           /\ TypeOK'
<1>1. Thread("failed", {}) \in ThreadType
  BY NewThreadType DEF Works
<1>2. /\ thread'[p][s] = Thread("failed", {}) /\ Others(p, s)
      /\ thread' \in [Procs -> [Series -> ThreadType]]
  BY <1>1, AdvanceLocal DEF ThreadFails
<1>3. faults' \in 0 .. MaxFaults
  BY RaiseType DEF ThreadFails
<1> QED
  BY <1>2, <1>3 DEF ThreadFails, Moved, lake, TypeOK, ThreadType

-----------------------------------------------------------------------------
(* Stages and threads agree, and who ran alone.                            *)

WorksFit(p) ==
    /\ phase[p] = "idle" => \A s \in Series : thread[p][s].work = "none"
    /\ phase[p] = "bronze" =>
         /\ p = "daily"
         /\ \A s \in Series :
              thread[p][s].work \in {"fetch", "commit", "done", "failed"}
    /\ phase[p] = "silver" => \A s \in Series :
         thread[p][s].work \in {"none", "bronze", "silver", "write", "done", "failed"}
    /\ phase[p] = "levels" => \A s \in Series :
         thread[p][s].work \in {"levels", "done", "failed"}
    /\ phase[p] = "publish" => \A s \in Series : thread[p][s].work = "done"

Alone == overlap # "now" => phase["daily"] = "idle" \/ phase["manual"] = "idle"

Staged == Alone /\ \A p \in Procs : WorksFit(p)

LEMMA ProcsAre == Procs = {"daily", "manual"}
BY DEF Procs

\* The stage a thread belongs to.
LEMMA WorkTells ==
    ASSUME TypeOK, Staged, NEW p \in Procs, NEW s \in Series
    PROVE  /\ thread[p][s].work \in {"fetch", "commit"} =>
                phase[p] = "bronze" /\ p = "daily"
           /\ thread[p][s].work \in {"bronze", "silver", "write"} =>
                phase[p] = "silver"
           /\ thread[p][s].work = "levels" => phase[p] = "levels"
           /\ thread[p][s].work # "none" => phase[p] # "idle"
<1>1. phase[p] \in Phases
  BY DEF TypeOK
<1> QED
  BY <1>1 DEF Staged, WorksFit, Phases

\* What every thread step does to works, in short.
LEMMA ThreadStepShape ==
    ASSUME TypeOK, NEW p \in Procs, NEW s \in Series, ThreadStep(p, s)
    PROVE  LET old == thread[p][s].work
               new == thread'[p][s].work
           IN  /\ Moved(p, s)
               /\ \/ old \in {"fetch", "commit"} /\ p = "daily"
                     /\ new \in {"commit", "done", "failed"}
                  \/ /\ old \in {"bronze", "silver", "write"}
                     /\ new \in {"bronze", "silver", "write", "done", "failed"}
                  \/ old = "levels" /\ new \in {"levels", "done", "failed"}
                  \/ old = "fetch" /\ new = "failed"
               /\ old # "commit" => bronze' = bronze
               /\ old # "write" => silver' = silver
               /\ TypeOK'
<1> DEFINE old == thread[p][s].work
           new == thread'[p][s].work
<1>0. thread[p][s] \in ThreadType /\ \A w, l : Thread(w, l).work = w
  BY ThreadTyped DEF Thread
<1>1. CASE p = "daily" /\ Fetch(s)
  BY <1>1, FetchLocal
<1>2. CASE p = "daily" /\ CommitMonth(s)
  <2>1. new = "commit"
    BY <1>0, <1>2, CommitMonthLocal DEF ThreadType
  <2> QED
    BY <1>2, <2>1, CommitMonthLocal
<1>3. CASE p = "daily" /\ Committed(s)
  BY <1>0, <1>3, CommittedLocal
<1>4. CASE p = "daily" /\ UndoCommit(s)
  BY <1>0, <1>4, UndoCommitLocal
<1>5. CASE ReadBronze(p, s)
  BY <1>5, ReadBronzeLocal
<1>6. CASE ReadSilver(p, s)
  <2>1. new \in {"silver", "write"}
    <3>1. \/ new = "silver"
          \/ \E m \in thread[p][s].left :
               thread'[p][s] = Planned(thread[p][s].frame,
                                 WithMonth(thread[p][s].stored, silver[s], m))
      BY <1>6, ReadSilverLocal
    <3>2. \A a, b : Planned(a, b).work = "write"
      BY DEF Planned
    <3> QED
      BY <3>1, <3>2
  <2> QED
    BY <1>6, <2>1, ReadSilverLocal
<1>7. CASE WriteSilver(p, s)
  <2>1. new = "write"
    <3>1. /\ thread'[p][s] =
               [thread[p][s] EXCEPT !.left = @ \ {Min(thread[p][s].left)}]
          /\ old = "write"
      BY <1>7, WriteSilverLocal
    <3> QED
      BY <1>0, <3>1 DEF ThreadType
  <2> QED
    BY <1>7, <2>1, WriteSilverLocal
<1>8. CASE Built(p, s)
  BY <1>0, <1>8, BuiltLocal
<1>9. CASE ReadLevels(p, s)
  BY <1>9, ReadLevelsLocal
<1>10. CASE ThreadFails(p, s)
  BY <1>0, <1>10, ThreadFailsLocal
<1> QED
  BY <1>1, <1>2, <1>3, <1>4, <1>5, <1>6, <1>7, <1>8, <1>9, <1>10 DEF ThreadStep

-----------------------------------------------------------------------------
(* What the step of a whole command does.                                  *)

\* Command p goes to a stage with all the threads it selected.
Staging(p, next, series, work) ==
    /\ phase'[p] = next
    /\ \A q \in Procs \ {p} : phase'[q] = phase[q] /\ thread'[q] = thread[q]
    /\ \A s \in Series :
         thread'[p][s] = IF s \in series THEN Thread(work, Months)
                         ELSE Thread("none", {})

Ending(p) ==
    /\ phase'[p] = "idle"
    /\ \A q \in Procs \ {p} : phase'[q] = phase[q] /\ thread'[q] = thread[q]
    /\ \A s \in Series : thread'[p][s] = Thread("none", {})

\* A command begins with work w for the series it selected.
Beginning(p) ==
    /\ phase[p] = "idle"
    /\ UNCHANGED lake
    /\ overlap' # "now" => \A q \in Procs \ {p} : phase[q] = "idle"
    /\ overlap' = "never" => overlap = "never"
    /\ \A q \in Procs \ {p} : phase'[q] = phase[q] /\ thread'[q] = thread[q]
    /\ \/ /\ p = "daily" /\ phase'[p] = "bronze"
          /\ \A s \in Series : thread'[p][s] = Thread("fetch", {})
       \/ /\ p = "manual" /\ phase'[p] = "silver"
          /\ \A s \in Series : thread'[p][s] \in {Thread("bronze", Months),
                                                  Thread("none", {})}
       \/ /\ p = "manual" /\ phase'[p] = "levels"
          /\ \A s \in Series : thread'[p][s] = Thread("levels", Months)

LEMMA BeginLocal ==
    ASSUME TypeOK, RunDaily \/ SilverCommand \/ GoldCommand
    PROVE  /\ \E p \in Procs : Beginning(p)
           /\ TypeOK'
<1>1. /\ Months \in SUBSET Months /\ {} \in SUBSET Months
      /\ {"fetch", "bronze", "levels", "none"} \subseteq Works
      /\ {"bronze", "silver", "levels"} \subseteq Phases
      /\ "daily" \in Procs /\ "manual" \in Procs
  BY DEF Works, Phases, Procs
<1>2. ASSUME NEW p \in Procs, Starts(p)
      PROVE  /\ phase[p] = "idle" /\ UNCHANGED lake
             /\ overlap' # "now" => \A q \in Procs \ {p} : phase[q] = "idle"
             /\ overlap' = "never" => overlap = "never"
             /\ overlap' \in {"never", "before", "now"}
  BY <1>2 DEF Starts
<1>3. CASE RunDaily
  <2>1. Starts("daily") /\ Enter("daily", "bronze", Series, "fetch", {})
    BY <1>3 DEF RunDaily
  <2>2. /\ phase'["daily"] = "bronze"
        /\ \A q \in Procs \ {"daily"} :
             phase'[q] = phase[q] /\ thread'[q] = thread[q]
        /\ \A s \in Series : thread'["daily"][s] = Thread("fetch", {})
        /\ phase' \in [Procs -> Phases]
        /\ thread' \in [Procs -> [Series -> ThreadType]]
    BY <1>1, <2>1, EnterAllLocal
  <2>3. Beginning("daily")
    BY <1>1, <1>2, <2>1, <2>2 DEF Beginning
  <2>4. TypeOK'
    BY <1>1, <1>2, <2>1, <2>2 DEF Starts, lake, bounds, TypeOK, ThreadType
  <2> QED
    BY <1>1, <2>3, <2>4
<1>4. CASE SilverCommand
  <2>1. PICK selected \in SUBSET Series :
          Enter("manual", "silver", selected, "bronze", Months)
    BY <1>4 DEF SilverCommand
  <2>2. Starts("manual")
    BY <1>4 DEF SilverCommand
  <2>3. /\ phase'["manual"] = "silver"
        /\ \A q \in Procs \ {"manual"} :
             phase'[q] = phase[q] /\ thread'[q] = thread[q]
        /\ \A s \in Series :
             thread'["manual"][s] = IF s \in selected THEN Thread("bronze", Months)
                                    ELSE Thread("none", {})
        /\ phase' \in [Procs -> Phases]
        /\ thread' \in [Procs -> [Series -> ThreadType]]
    BY <1>1, <2>1, EnterLocal
  <2>4. Beginning("manual")
    BY <1>1, <1>2, <2>2, <2>3 DEF Beginning
  <2>5. TypeOK'
    BY <1>1, <1>2, <2>2, <2>3 DEF Starts, lake, bounds, TypeOK, ThreadType
  <2> QED
    BY <1>1, <2>4, <2>5
<1>5. CASE GoldCommand
  <2>1. Starts("manual") /\ Enter("manual", "levels", Series, "levels", Months)
    BY <1>5 DEF GoldCommand
  <2>2. /\ phase'["manual"] = "levels"
        /\ \A q \in Procs \ {"manual"} :
             phase'[q] = phase[q] /\ thread'[q] = thread[q]
        /\ \A s \in Series : thread'["manual"][s] = Thread("levels", Months)
        /\ phase' \in [Procs -> Phases]
        /\ thread' \in [Procs -> [Series -> ThreadType]]
    BY <1>1, <2>1, EnterAllLocal
  <2>3. Beginning("manual")
    BY <1>1, <1>2, <2>1, <2>2 DEF Beginning
  <2>4. TypeOK'
    BY <1>1, <1>2, <2>1, <2>2 DEF Starts, lake, bounds, TypeOK, ThreadType
  <2> QED
    BY <1>1, <2>3, <2>4
<1> QED
  BY <1>3, <1>4, <1>5

\* A stage follows another when all threads have succeeded.
Following(p) ==
    /\ UNCHANGED <<lake, overlap>>
    /\ Finished(p)
    /\ \A q \in Procs \ {p} : phase'[q] = phase[q] /\ thread'[q] = thread[q]
    /\ \A s \in Series : thread[p][s].work # "failed"
    /\ \/ /\ p = "daily" /\ phase[p] = "bronze" /\ phase'[p] = "silver"
          /\ \A s \in Series : thread'[p][s] = Thread("bronze", Months)
       \/ /\ p = "daily" /\ phase[p] = "silver" /\ phase'[p] = "levels"
          /\ \A s \in Series : thread'[p][s] = Thread("levels", Months)
       \/ /\ phase[p] = "levels" /\ phase'[p] = "publish"
          /\ thread' = thread

LEMMA CommandLocal ==
    ASSUME TypeOK, NEW p \in Procs,
           \/ p = "daily" /\ BronzeDone
           \/ SilverDone(p) \/ Assemble(p) \/ Publish(p) \/ Kill(p)
    PROVE  /\ \/ Following(p)
              \/ Ending(p) /\ UNCHANGED <<lake, overlap>>
              \/ /\ Ending(p) /\ UNCHANGED <<bronze, silver, overlap>>
                 /\ phase[p] = "publish"
                 /\ gold' = [s \in Series |-> thread[p][s].frame]
           /\ TypeOK'
<1>1. /\ Months \in SUBSET Months
      /\ {"bronze", "levels"} \subseteq Works
      /\ {"silver", "levels", "publish"} \subseteq Phases
  BY DEF Works, Phases
<1>2. Leave(p) => /\ Ending(p) /\ phase' \in [Procs -> Phases]
                  /\ thread' \in [Procs -> [Series -> ThreadType]]
  BY LeaveLocal DEF Ending
<1>3. CASE p = "daily" /\ BronzeDone
  <2>1. CASE Succeeded(p) /\ Enter(p, "silver", Series, "bronze", Months)
    <3>1. /\ phase'[p] = "silver"
          /\ \A q \in Procs \ {p} :
               phase'[q] = phase[q] /\ thread'[q] = thread[q]
          /\ \A s \in Series : thread'[p][s] = Thread("bronze", Months)
          /\ phase' \in [Procs -> Phases]
          /\ thread' \in [Procs -> [Series -> ThreadType]]
      BY <1>1, <2>1, EnterAllLocal
    <3>2. Following(p)
      BY <1>3, <2>1, <3>1 DEF BronzeDone, Following, Succeeded
    <3> QED
      BY <1>3, <3>1, <3>2 DEF BronzeDone, lake, bounds, TypeOK, ThreadType
  <2>2. CASE Leave(p)
    BY <1>2, <1>3, <2>2 DEF BronzeDone, lake, bounds, TypeOK, ThreadType
  <2> QED
    BY <1>3, <2>1, <2>2 DEF BronzeDone
<1>4. CASE SilverDone(p)
  <2>1. CASE p = "daily" /\ Succeeded(p) /\ Enter(p, "levels", Series, "levels", Months)
    <3>1. /\ phase'[p] = "levels"
          /\ \A q \in Procs \ {p} :
               phase'[q] = phase[q] /\ thread'[q] = thread[q]
          /\ \A s \in Series : thread'[p][s] = Thread("levels", Months)
          /\ phase' \in [Procs -> Phases]
          /\ thread' \in [Procs -> [Series -> ThreadType]]
      BY <1>1, <2>1, EnterAllLocal
    <3>2. Following(p)
      BY <1>4, <2>1, <3>1 DEF SilverDone, Following, Succeeded
    <3> QED
      BY <1>4, <3>1, <3>2 DEF SilverDone, lake, bounds, TypeOK, ThreadType
  <2>2. CASE Leave(p)
    BY <1>2, <1>4, <2>2 DEF SilverDone, lake, bounds, TypeOK, ThreadType
  <2> QED
    BY <1>4, <2>1, <2>2 DEF SilverDone
<1>5. CASE Assemble(p)
  <2>1. CASE /\ Succeeded(p) /\ phase' = [phase EXCEPT ![p] = "publish"]
             /\ UNCHANGED thread
    <3>1. /\ phase'[p] = "publish" /\ phase' \in [Procs -> Phases]
          /\ \A q \in Procs \ {p} : phase'[q] = phase[q]
      BY <1>1, <2>1 DEF TypeOK
    <3>2. Following(p)
      BY <1>5, <2>1, <3>1 DEF Assemble, Following, Succeeded
    <3> QED
      BY <1>5, <2>1, <3>1, <3>2 DEF Assemble, lake, bounds, TypeOK
  <2>2. CASE Leave(p)
    BY <1>2, <1>5, <2>2 DEF Assemble, lake, bounds, TypeOK, ThreadType
  <2> QED
    BY <1>5, <2>1, <2>2 DEF Assemble
<1>6. CASE Publish(p)
  <2>1. faults' \in 0 .. MaxFaults
    BY <1>6, RaiseType DEF Publish
  <2>2. gold' \in [Series -> Frames]
    BY <1>6, ThreadTyped DEF Publish, TypeOK
  <2>3. Ending(p)
    BY <1>2, <1>6 DEF Publish
  <2>4. TypeOK'
    BY <1>2, <1>6, <2>1, <2>2 DEF Publish, TypeOK, ThreadType
  <2> QED
    BY <1>6, <2>3, <2>4 DEF Publish, lake
<1>7. CASE Kill(p)
  <2>1. faults' \in 0 .. MaxFaults
    BY <1>7, RaiseType DEF Kill
  <2> QED
    BY <1>2, <1>7, <2>1 DEF Kill, lake, TypeOK, ThreadType
<1> QED
  BY <1>3, <1>4, <1>5, <1>6, <1>7

LEMMA InitTyped == Init => TypeOK /\ Staged
<1> SUFFICES ASSUME Init PROVE TypeOK /\ Staged
  OBVIOUS
<1>1. Empty \in Frames /\ 0 \in 0 .. MaxNews /\ 0 \in 0 .. MaxFaults
  BY FrameTypes, Bounds
<1>2. Thread("none", {}) \in ThreadType /\ Thread("none", {}).work = "none"
  BY NewThreadType DEF Works, Thread
<1>3. thread \in [Procs -> [Series -> ThreadType]]
  BY <1>2 DEF Init, NoThreads
<1>4. TypeOK
  BY <1>1, <1>3 DEF Init, TypeOK, ThreadType, Phases
<1>5. Staged
  BY <1>2, ProcsAre DEF Init, NoThreads, Staged, WorksFit, Alone
<1> QED
  BY <1>4, <1>5

LEMMA StepTyped == TypeOK /\ Staged /\ [Next]_vars => TypeOK' /\ Staged'
<1> SUFFICES ASSUME TypeOK, Staged, [Next]_vars PROVE TypeOK' /\ Staged'
  OBVIOUS
<1>0. \A w, l : Thread(w, l).work = w
  BY DEF Thread
<1>1. CASE UNCHANGED vars
  BY <1>1 DEF vars, lake, bounds, TypeOK, Staged, Alone, WorksFit
<1>2. CASE RunDaily \/ SilverCommand \/ GoldCommand
  <2>1. PICK p \in Procs : Beginning(p)
    BY <1>2, BeginLocal
  <2>2. Alone'
    BY <2>1, ProcsAre DEF Beginning, Alone
  <2>3. WorksFit(p)'
    BY <1>0, <2>1 DEF Beginning, WorksFit
  <2>4. \A q \in Procs \ {p} : WorksFit(q)'
    BY <2>1 DEF Beginning, WorksFit, Staged
  <2> QED
    BY <1>2, <2>2, <2>3, <2>4, BeginLocal DEF Staged
<1>3. ASSUME NEW p \in Procs,
             \/ p = "daily" /\ BronzeDone
             \/ SilverDone(p) \/ Assemble(p) \/ Publish(p) \/ Kill(p)
      PROVE  TypeOK' /\ Staged'
  <2>1. CASE Following(p)
    <3>1. \A q \in Procs : phase[q] = "idle" => phase'[q] = "idle"
      BY <2>1 DEF Following
    <3>2. Alone'
      BY <2>1, <3>1, ProcsAre DEF Following, Staged, Alone
    <3>3. WorksFit(p)'
      BY <1>0, <2>1 DEF Following, Finished, WorksFit, Staged
    <3>4. \A q \in Procs \ {p} : WorksFit(q)'
      BY <2>1 DEF Following, WorksFit, Staged
    <3> QED
      BY <1>3, <3>2, <3>3, <3>4, CommandLocal DEF Staged
  <2>2. CASE Ending(p) /\ UNCHANGED overlap
    <3>1. \A q \in Procs : phase[q] = "idle" => phase'[q] = "idle"
      BY <2>2 DEF Ending
    <3>2. Alone'
      BY <2>2, <3>1, ProcsAre DEF Staged, Alone
    <3>3. WorksFit(p)'
      BY <1>0, <2>2 DEF Ending, WorksFit
    <3>4. \A q \in Procs \ {p} : WorksFit(q)'
      BY <2>2 DEF Ending, WorksFit, Staged
    <3> QED
      BY <1>3, <3>2, <3>3, <3>4, CommandLocal DEF Staged
  <2> QED
    BY <1>3, <2>1, <2>2, CommandLocal
<1>4. ASSUME NEW p \in Procs, NEW s \in Series, ThreadStep(p, s)
      PROVE  TypeOK' /\ Staged'
  <2>1. Moved(p, s) /\ TypeOK'
    BY <1>4, ThreadStepShape
  <2>2. \A q \in Procs, u \in Series :
          q # p \/ u # s => thread'[q][u] = thread[q][u]
    BY <2>1 DEF Moved, Others
  <2>3. Alone' /\ phase' = phase
    BY <2>1 DEF Moved, Staged, Alone
  <2>4. \A q \in Procs \ {p} : WorksFit(q)'
    BY <2>2, <2>3 DEF WorksFit, Staged
  <2>5. CASE thread[p][s].work \in {"fetch", "commit"}
    <3>1. phase[p] = "bronze" /\ p = "daily"
      BY <2>5, WorkTells
    <3>2. thread'[p][s].work \in {"commit", "done", "failed"}
      BY <1>4, <2>5, ThreadStepShape
    <3> QED
      BY <2>1, <2>2, <2>3, <2>4, <3>1, <3>2 DEF WorksFit, Staged
  <2>6. CASE thread[p][s].work \in {"bronze", "silver", "write"}
    <3>1. phase[p] = "silver"
      BY <2>6, WorkTells
    <3>2. thread'[p][s].work \in {"bronze", "silver", "write", "done", "failed"}
      BY <1>4, <2>6, ThreadStepShape
    <3> QED
      BY <2>1, <2>2, <2>3, <2>4, <3>1, <3>2 DEF WorksFit, Staged
  <2>7. CASE thread[p][s].work = "levels"
    <3>1. phase[p] = "levels"
      BY <2>7, WorkTells
    <3>2. thread'[p][s].work \in {"levels", "done", "failed"}
      BY <1>4, <2>7, ThreadStepShape
    <3> QED
      BY <2>1, <2>2, <2>3, <2>4, <3>1, <3>2 DEF WorksFit, Staged
  <2> QED
    BY <1>4, <2>5, <2>6, <2>7, ThreadStepShape
<1> QED
  BY <1>1, <1>2, <1>3, <1>4 DEF Next, Command

\* Files, threads and stages stay in their sets, through failed threads,
\* undone commits and kills (daily_pipeline.py, silver_repository.py).
THEOREM LakeTypeCorrectness == Spec => []TypeOK
<1>1. Spec => [](TypeOK /\ Staged)
  BY InitTyped, StepTyped, PTL DEF Spec
<1> QED
  BY <1>1, PTL

-----------------------------------------------------------------------------
(* Nothing beyond Bronze.                                                  *)

LEMMA EmptyThread ==
    \A w, l : /\ Thread(w, l).work = w /\ Thread(w, l).left = l
              /\ Observed(Thread(w, l).frame) = {}
              /\ Observed(Thread(w, l).stored) = {}
BY DEF Thread, Observed, Empty

LEMMA WithMonthAt ==
    \A a, b, m : \A d \in Days :
        WithMonth(a, b, m)[d] = IF MonthOf(d) = m THEN b[d] ELSE a[d]
BY DEF WithMonth

LEMMA ObservedMixtures ==
    ASSUME NEW a \in Frames, NEW b \in Frames
    PROVE  /\ Observed(Merged(a, b)) = Observed(a) \cup Observed(b)
           /\ \A m : /\ Observed(WithMonth(a, b, m))
                          \subseteq Observed(a) \cup Observed(b)
                     /\ Observed(a) \cap Observed(b)
                          \subseteq Observed(WithMonth(a, b, m))
BY DEF Observed, Merged, WithMonth, Frames

\* What a thread at work has read or merged, and what it started from.
ThreadWithin(p, s) ==
    LET t == thread[p][s]
    IN  /\ t.work \notin {"none", "commit"} =>
             /\ Observed(t.frame) \subseteq Observed(bronze[s])
             /\ Observed(t.stored) \subseteq Observed(bronze[s])
        /\ t.work = "commit" =>
             /\ Observed(t.stored) \subseteq Observed(bronze[s]) \cap Observed(t.frame)
             /\ Observed(silver[s]) \cup Observed(gold[s]) \subseteq Observed(t.stored)

Within(s) ==
    overlap = "never" =>
        /\ Observed(silver[s]) \cup Observed(gold[s]) \subseteq Observed(bronze[s])
        /\ \A p \in Procs : ThreadWithin(p, s)

\* While one command runs alone the other has no threads.
LEMMA OtherRests ==
    ASSUME TypeOK, Staged, overlap # "now", NEW p \in Procs, phase[p] # "idle",
           NEW q \in Procs, q # p
    PROVE  phase[q] = "idle" /\ \A s \in Series : thread[q][s].work = "none"
BY ProcsAre DEF Staged, Alone, WorksFit

LEMMA ThreadStepWithin ==
    ASSUME TypeOK, Staged, NEW s \in Series, Within(s),
           NEW p \in Procs, NEW u \in Series, ThreadStep(p, u)
    PROVE  Within(s)'
<1> DEFINE t == thread[p][s]
           n == thread'[p][s]
<1>1. Moved(p, u)
  BY ThreadStepShape
<1>2. CASE u # s
  <2>1. /\ bronze'[s] = bronze[s] /\ silver'[s] = silver[s] /\ gold' = gold
        /\ overlap' = overlap /\ \A q \in Procs : thread'[q][s] = thread[q][s]
    BY <1>1, <1>2 DEF Moved, Others
  <2> QED
    BY <2>1 DEF Within, ThreadWithin
<1>3. CASE u = s /\ overlap = "never"
  <2>0. /\ bronze[s] \in Frames /\ silver[s] \in Frames /\ gold[s] \in Frames
        /\ t.frame \in Frames /\ t.stored \in Frames /\ t \in ThreadType
    BY ThreadTyped
  <2>1. gold' = gold /\ overlap' = overlap
        /\ \A q \in Procs \ {p} : thread'[q][s] = thread[q][s]
    BY <1>1 DEF Moved, Others
  <2>2. t.work # "none"
    BY <1>3, ThreadStepShape
  <2>3. phase[p] # "idle"
    BY <2>2, WorkTells
  <2>4. \A q \in Procs \ {p} : thread'[q][s].work = "none"
    BY <1>3, <2>1, <2>3, OtherRests
  <2>5. /\ Observed(silver[s]) \cup Observed(gold[s]) \subseteq Observed(bronze[s])
        /\ ThreadWithin(p, s)
    BY <1>3 DEF Within
  <2>6. ASSUME /\ Observed(silver'[s]) \cup Observed(gold'[s])
                    \subseteq Observed(bronze'[s])
               /\ ThreadWithin(p, s)'
        PROVE  Within(s)'
    <3>1. \A q \in Procs \ {p} : ThreadWithin(q, s)'
      BY <2>4 DEF ThreadWithin
    <3> QED
      BY <2>6, <3>1 DEF Within
  <2>7. ASSUME \E w \in {"done", "failed"} : n = Thread(w, {}),
               bronze' = bronze, silver' = silver
        PROVE  Within(s)'
    <3>1. /\ n.work \in {"done", "failed"}
          /\ Observed(n.frame) = {} /\ Observed(n.stored) = {}
      BY <2>7, EmptyThread
    <3>2. ThreadWithin(p, s)'
      BY <3>1 DEF ThreadWithin
    <3> QED
      BY <2>1, <2>5, <2>6, <2>7, <3>2
  <2>8. CASE p = "daily" /\ Fetch(s)
    <3>1. ThreadWithin(p, s)'
      BY <2>1, <2>5, <2>8, FetchLocal DEF ThreadWithin
    <3> QED
      BY <2>1, <2>5, <2>6, <2>8, <3>1, FetchLocal
  <2>9. CASE p = "daily" /\ CommitMonth(s)
    <3>1. /\ t.work = "commit" /\ silver' = silver
          /\ bronze'[s] = WithMonth(bronze[s], t.frame, Min(t.left))
          /\ n = [t EXCEPT !.left = @ \ {Min(t.left)}]
      BY <2>9, CommitMonthLocal
    <3>2. n.work = "commit" /\ n.frame = t.frame /\ n.stored = t.stored
      BY <2>0, <3>1 DEF ThreadType
    <3>3. Observed(t.stored) \subseteq Observed(bronze'[s])
      BY <2>0, <2>5, <3>1, ObservedMixtures DEF ThreadWithin
    <3>4. ThreadWithin(p, s)'
      BY <2>1, <2>5, <3>1, <3>2, <3>3 DEF ThreadWithin
    <3> QED
      BY <2>1, <2>5, <2>6, <3>1, <3>3, <3>4 DEF ThreadWithin
  <2>10. CASE p = "daily" /\ UndoCommit(s)
    <3>1. /\ t.work = "commit" /\ silver' = silver /\ n = Thread("failed", {})
          /\ \A d \in Days : bronze'[s][d] \in {t.stored[d], bronze[s][d]}
      BY <2>10, UndoCommitLocal
    <3>2. Observed(t.stored) \subseteq Observed(bronze'[s])
      BY <2>5, <3>1 DEF Observed, ThreadWithin
    <3>3. ThreadWithin(p, s)'
      BY <3>1, EmptyThread DEF ThreadWithin
    <3> QED
      BY <2>1, <2>5, <2>6, <3>1, <3>2, <3>3 DEF ThreadWithin
  <2>11. CASE ReadBronze(p, s)
    <3>1. PICK m \in t.left : n.frame = WithMonth(t.frame, bronze[s], m)
      BY <2>11, ReadBronzeLocal
    <3>2. /\ t.work = "bronze" /\ n.work \in {"bronze", "silver"}
          /\ n.stored = t.stored /\ bronze' = bronze /\ silver' = silver
      BY <2>11, ReadBronzeLocal
    <3>3. Observed(n.frame) \subseteq Observed(bronze[s])
      BY <2>0, <2>5, <3>1, <3>2, ObservedMixtures DEF ThreadWithin
    <3>4. ThreadWithin(p, s)'
      BY <2>5, <3>2, <3>3 DEF ThreadWithin
    <3> QED
      BY <2>1, <2>5, <2>6, <3>2, <3>4
  <2>12. CASE ReadSilver(p, s)
    <3>1. t.work = "silver" /\ bronze' = bronze /\ silver' = silver
      BY <2>12, ReadSilverLocal
    <3>2. PICK m \in t.left :
            LET stored == WithMonth(t.stored, silver[s], m)
            IN  \/ n.work = "silver" /\ n.frame = t.frame /\ n.stored = stored
                \/ n = Planned(t.frame, stored)
      BY <2>12, ReadSilverLocal
    <3> DEFINE stored == WithMonth(t.stored, silver[s], m)
    <3>3. stored \in Frames /\ Observed(stored) \subseteq Observed(bronze[s])
      BY <2>0, <2>5, <3>1, ObservedMixtures, FrameTypes DEF ThreadWithin
    <3>4. Observed(t.frame) \subseteq Observed(bronze[s])
      BY <2>5, <3>1 DEF ThreadWithin
    <3> HIDE DEF stored
    <3>5. /\ Planned(t.frame, stored).work = "write"
          /\ Planned(t.frame, stored).frame = Merged(stored, t.frame)
          /\ Observed(Planned(t.frame, stored).stored) = {}
      BY DEF Planned, Observed, Empty
    <3>6. Observed(Merged(stored, t.frame)) \subseteq Observed(bronze[s])
      BY <2>0, <3>3, <3>4, ObservedMixtures
    <3>7. /\ n.work \in {"silver", "write"}
          /\ Observed(n.frame) \subseteq Observed(bronze[s])
          /\ Observed(n.stored) \subseteq Observed(bronze[s])
      BY <3>2, <3>3, <3>4, <3>5, <3>6 DEF stored
    <3>8. ThreadWithin(p, s)'
      BY <3>1, <3>7 DEF ThreadWithin
    <3> QED
      BY <2>1, <2>5, <2>6, <3>1, <3>8
  <2>13. CASE WriteSilver(p, s)
    <3>1. /\ t.work = "write" /\ bronze' = bronze
          /\ silver'[s] = WithMonth(silver[s], t.frame, Min(t.left))
          /\ n = [t EXCEPT !.left = @ \ {Min(t.left)}]
      BY <2>13, WriteSilverLocal
    <3>2. n.work = "write" /\ n.frame = t.frame /\ n.stored = t.stored
      BY <2>0, <3>1 DEF ThreadType
    <3>3. Observed(silver'[s]) \subseteq Observed(bronze[s])
      BY <2>0, <2>5, <3>1, ObservedMixtures DEF ThreadWithin
    <3>4. ThreadWithin(p, s)'
      BY <2>5, <3>1, <3>2 DEF ThreadWithin
    <3> QED
      BY <2>1, <2>5, <2>6, <3>1, <3>3, <3>4
  <2>14. CASE ReadLevels(p, s)
    <3>1. PICK m \in t.left : n.frame = WithMonth(t.frame, silver[s], m)
      BY <2>14, ReadLevelsLocal
    <3>2. /\ t.work = "levels" /\ n.work \in {"levels", "done"}
          /\ bronze' = bronze /\ silver' = silver
      BY <2>14, ReadLevelsLocal
    <3>3. n.stored = t.stored
      BY <2>14, ReadLevelsLocal
    <3>4. Observed(n.frame) \subseteq Observed(bronze[s])
      BY <2>0, <2>5, <3>1, <3>2, ObservedMixtures DEF ThreadWithin
    <3>5. ThreadWithin(p, s)'
      BY <2>5, <3>2, <3>3, <3>4 DEF ThreadWithin
    <3> QED
      BY <2>1, <2>5, <2>6, <3>2, <3>5
  <2>15. CASE (p = "daily" /\ Committed(s)) \/ Built(p, s) \/ ThreadFails(p, s)
    BY <2>7, <2>15, CommittedLocal, BuiltLocal, ThreadFailsLocal
  <2> QED
    BY <1>3, <2>8, <2>9, <2>10, <2>11, <2>12, <2>13, <2>14, <2>15 DEF ThreadStep
<1>4. CASE overlap # "never"
  BY <1>1, <1>4 DEF Moved, Within
<1> QED
  BY <1>2, <1>3, <1>4

LEMMA InitWithin == Init => \A s \in Series : Within(s)
<1> SUFFICES ASSUME Init, NEW s \in Series PROVE Within(s)
  OBVIOUS
<1>1. /\ silver[s] = Empty /\ gold[s] = Empty
      /\ \A p \in Procs : thread[p][s].work = "none"
  BY EmptyThread DEF Init, NoThreads
<1>2. Observed(Empty) = {}
  BY DEF Observed, Empty
<1> QED
  BY <1>1, <1>2 DEF Within, ThreadWithin

LEMMA StepWithin ==
    ASSUME TypeOK, Staged, [Next]_vars, NEW s \in Series, Within(s)
    PROVE  Within(s)'
<1>1. CASE UNCHANGED vars
  BY <1>1 DEF vars, lake, Within, ThreadWithin
<1>2. CASE RunDaily \/ SilverCommand \/ GoldCommand
  <2>1. PICK p \in Procs : Beginning(p)
    BY <1>2, BeginLocal
  <2>2. /\ UNCHANGED <<bronze, silver, gold>>
        /\ overlap' = "never" => overlap = "never"
        /\ \A q \in Procs \ {p} : thread'[q] = thread[q]
    BY <2>1 DEF Beginning, lake
  <2>3. /\ thread'[p][s].work # "commit"
        /\ Observed(thread'[p][s].frame) = {}
        /\ Observed(thread'[p][s].stored) = {}
    <3>1. \E w \in {"fetch", "bronze", "levels", "none"} : \E l :
            thread'[p][s] = Thread(w, l)
      BY <2>1 DEF Beginning
    <3> QED
      BY <3>1, EmptyThread
  <2> QED
    BY <2>2, <2>3 DEF Within, ThreadWithin
<1>3. ASSUME NEW p \in Procs,
             \/ p = "daily" /\ BronzeDone
             \/ SilverDone(p) \/ Assemble(p) \/ Publish(p) \/ Kill(p)
      PROVE  Within(s)'
  <2>1. CASE Following(p)
    <3>1. /\ UNCHANGED <<bronze, silver, gold, overlap>>
          /\ \A q \in Procs \ {p} : thread'[q] = thread[q]
      BY <2>1 DEF Following, lake
    <3>2. \/ thread'[p][s] = thread[p][s]
          \/ /\ thread'[p][s].work # "commit"
             /\ Observed(thread'[p][s].frame) = {}
             /\ Observed(thread'[p][s].stored) = {}
      BY <2>1, EmptyThread DEF Following
    <3> QED
      BY <3>1, <3>2 DEF Within, ThreadWithin
  <2>2. ASSUME Ending(p), UNCHANGED <<bronze, silver, overlap>>,
               overlap = "never" => Observed(gold'[s]) \subseteq Observed(bronze[s]),
               gold' = gold \/ phase[p] = "publish"
        PROVE  Within(s)'
    <3>1. /\ \A q \in Procs \ {p} : thread'[q] = thread[q]
          /\ thread'[p][s].work = "none"
      BY <2>2, EmptyThread DEF Ending
    <3>2. ThreadWithin(p, s)'
      BY <3>1 DEF ThreadWithin
    <3>3. CASE gold' = gold
      BY <2>2, <3>1, <3>2, <3>3 DEF Within, ThreadWithin
    <3>4. CASE phase[p] = "publish" /\ overlap = "never"
      <4>1. \A q \in Procs \ {p} : thread[q][s].work = "none"
        BY <3>4, OtherRests
      <4>2. \A q \in Procs \ {p} : ThreadWithin(q, s)'
        BY <3>1, <4>1 DEF ThreadWithin
      <4> QED
        BY <2>2, <3>2, <3>4, <4>2 DEF Within
    <3> QED
      BY <2>2, <3>3, <3>4 DEF Within
  <2>3. CASE Ending(p) /\ UNCHANGED <<lake, overlap>>
    <3>1. overlap = "never" => Observed(gold'[s]) \subseteq Observed(bronze[s])
      BY <2>3 DEF Within, lake
    <3> QED
      BY <2>2, <2>3, <3>1 DEF lake
  <2>4. CASE /\ Ending(p) /\ UNCHANGED <<bronze, silver, overlap>>
             /\ phase[p] = "publish"
             /\ gold' = [u \in Series |-> thread[p][u].frame]
    <3>1. thread[p][s].work = "done" /\ gold'[s] = thread[p][s].frame
      BY <2>4 DEF Staged, WorksFit
    <3>2. overlap = "never" => Observed(gold'[s]) \subseteq Observed(bronze[s])
      BY <3>1 DEF Within, ThreadWithin
    <3> QED
      BY <2>2, <2>4, <3>2
  <2> QED
    BY <1>3, <2>1, <2>3, <2>4, CommandLocal
<1>4. ASSUME NEW p \in Procs, NEW u \in Series, ThreadStep(p, u)
      PROVE  Within(s)'
  BY <1>4, ThreadStepWithin
<1> QED
  BY <1>1, <1>2, <1>3, <1>4 DEF Next, Command

\* No Silver and no Gold is built from a commit that is undone afterwards, as
\* long as commands have not overlapped (run_daily waits for every series).
THEOREM NothingComesFromNowhere == Spec => []NothingBeyondBronze
<1> DEFINE AllWithin == \A s \in Series : Within(s)
           I == TypeOK /\ Staged /\ AllWithin
<1>1. Init => I
  BY InitTyped, InitWithin
<1>2. I /\ [Next]_vars => I'
  <2>1. I /\ [Next]_vars => TypeOK' /\ Staged'
    BY StepTyped
  <2>2. I /\ [Next]_vars => AllWithin'
    BY StepWithin
  <2> QED
    BY <2>1, <2>2
<1>3. I => NothingBeyondBronze
  BY DEF Within, NothingBeyondBronze
<1> HIDE DEF I
<1> QED
  BY <1>1, <1>2, <1>3, PTL DEF Spec

-----------------------------------------------------------------------------
(* The daily job publishes all of Bronze.                                  *)

\* Frames a and b agree on the months that are not left.
AgreeBut(a, b, left) == \A d \in Days : MonthOf(d) \notin left => a[d] = b[d]

\* How far the daily job has come with a series, when nobody interferes: what
\* it has read is what is stored, what it is to write is all that differs.
Delivers(s) ==
    LET t == thread["daily"][s]
    IN  overlap # "now" =>
          /\ phase["daily"] = "silver" => t.work # "none"
          /\ t.work = "bronze" => AgreeBut(t.frame, bronze[s], t.left)
          /\ t.work = "silver" =>
               t.frame = bronze[s] /\ AgreeBut(t.stored, silver[s], t.left)
          /\ t.work = "write" =>
               Covers(t.frame, bronze[s]) /\ AgreeBut(silver[s], t.frame, t.left)
          /\ phase["daily"] = "silver" /\ t.work = "done" =>
               Covers(silver[s], bronze[s])
          /\ t.work = "levels" =>
               Covers(silver[s], bronze[s]) /\ AgreeBut(t.frame, silver[s], t.left)
          /\ phase["daily"] \in {"levels", "publish"} /\ t.work = "done" =>
               Covers(t.frame, bronze[s])

LEMMA NothingLeft ==
    ASSUME NEW a \in Frames, NEW b \in Frames, AgreeBut(a, b, {})
    PROVE  a = b
BY DEF AgreeBut, Frames

LEMMA AllLeft ==
    ASSUME NEW a, NEW b
    PROVE  AgreeBut(a, b, Months)
BY DEF AgreeBut, Months

\* Reading the next month of b, or writing it.
LEMMA OneLess ==
    ASSUME NEW a \in Frames, NEW b \in Frames, NEW left, NEW m,
           AgreeBut(a, b, left)
    PROVE  AgreeBut(WithMonth(a, b, m), b, left \ {m})
BY WithMonthAt DEF AgreeBut

\* The plan rewrites exactly the months in which the merge differs.
LEMMA PlannedDelivers ==
    ASSUME NEW a \in Frames, NEW b \in Frames
    PROVE  /\ Planned(a, b).work = "write"
           /\ Covers(Planned(a, b).frame, a)
           /\ AgreeBut(b, Planned(a, b).frame, Planned(a, b).left)
<1>1. /\ Planned(a, b).work = "write" /\ Planned(a, b).frame = Merged(b, a)
      /\ Planned(a, b).left = Changed(b, Merged(b, a))
  BY DEF Planned
<1>2. Covers(Merged(b, a), a)
  BY DEF Covers, Observed, Merged
<1>3. AgreeBut(b, Merged(b, a), Changed(b, Merged(b, a)))
  BY DEF AgreeBut, Changed
<1> QED
  BY <1>1, <1>2, <1>3

LEMMA InitDelivers == Init => \A s \in Series : Delivers(s)
<1> SUFFICES ASSUME Init, NEW s \in Series PROVE Delivers(s)
  OBVIOUS
<1>1. thread["daily"][s].work = "none" /\ phase["daily"] = "idle"
  BY EmptyThread, ProcsAre DEF Init, NoThreads
<1> QED
  BY <1>1 DEF Delivers

LEMMA DailyStepDelivers ==
    ASSUME TypeOK, Staged, NEW s \in Series, Delivers(s), overlap # "now",
           ThreadStep("daily", s)
    PROVE  Delivers(s)'
<1> DEFINE t == thread["daily"][s]
           n == thread'["daily"][s]
<1>0. /\ "daily" \in Procs
      /\ bronze[s] \in Frames /\ silver[s] \in Frames
      /\ t.frame \in Frames /\ t.stored \in Frames /\ t \in ThreadType
  BY ThreadTyped, ProcsAre
<1>1. phase' = phase /\ overlap' = overlap /\ TypeOK' /\ Moved("daily", s)
  BY <1>0, ThreadStepShape DEF Moved
<1>2. n \in ThreadType
  BY <1>0, <1>1 DEF TypeOK, ThreadType
<1>3. ASSUME n.work \in {"fetch", "commit", "failed"}
      PROVE  Delivers(s)'
  BY <1>3 DEF Delivers
<1>4. CASE Fetch(s) \/ CommitMonth(s)
  <2>1. t.work \in {"fetch", "commit"}
    BY <1>4 DEF Fetch, CommitMonth
  <2>2. CASE Fetch(s)
    BY <1>3, <2>2, FetchLocal
  <2>3. CASE CommitMonth(s)
    <3>1. n = [t EXCEPT !.left = @ \ {Min(t.left)}] /\ t.work = "commit"
      BY <2>3, CommitMonthLocal
    <3>2. n.work = "commit"
      BY <1>0, <3>1 DEF ThreadType
    <3> QED
      BY <1>3, <3>2
  <2> QED
    BY <1>4, <2>2, <2>3
<1>5. CASE Committed(s)
  <2>1. t.work = "commit" /\ n.work = "done"
    BY <1>5, CommittedLocal, EmptyThread
  <2>2. phase["daily"] = "bronze"
    BY <1>0, <2>1, WorkTells
  <2> QED
    BY <1>1, <2>1, <2>2 DEF Delivers
<1>6. CASE UndoCommit(s) \/ ThreadFails("daily", s)
  <2>1. n = Thread("failed", {})
    BY <1>0, <1>6, UndoCommitLocal, ThreadFailsLocal
  <2> QED
    BY <1>3, <2>1, EmptyThread
<1>7. CASE ReadBronze("daily", s)
  <2>1. t.work = "bronze" /\ bronze' = bronze /\ silver' = silver
    BY <1>0, <1>7, ReadBronzeLocal
  <2>2. PICK m \in t.left :
          /\ n.frame = WithMonth(t.frame, bronze[s], m)
          /\ \/ n.work = "bronze" /\ n.left = t.left \ {m}
             \/ n.work = "silver" /\ t.left \ {m} = {} /\ n.left = Months
    BY <1>0, <1>7, ReadBronzeLocal
  <2>3. AgreeBut(n.frame, bronze[s], t.left \ {m})
    BY <1>0, <2>1, <2>2, OneLess DEF Delivers
  <2>4. CASE n.work = "bronze" /\ n.left = t.left \ {m}
    BY <2>1, <2>3, <2>4 DEF Delivers
  <2>5. CASE n.work = "silver" /\ t.left \ {m} = {} /\ n.left = Months
    <3>1. n.frame \in Frames
      BY <1>2 DEF ThreadType
    <3>2. n.frame = bronze[s]
      BY <1>0, <2>3, <2>5, <3>1, NothingLeft
    <3>3. AgreeBut(n.stored, silver[s], n.left)
      BY <2>5, AllLeft
    <3> QED
      BY <2>1, <2>5, <3>2, <3>3 DEF Delivers
  <2> QED
    BY <2>2, <2>4, <2>5
<1>8. CASE ReadSilver("daily", s)
  <2>1. /\ t.work = "silver" /\ bronze' = bronze /\ silver' = silver
        /\ t.frame = bronze[s] /\ AgreeBut(t.stored, silver[s], t.left)
    BY <1>0, <1>8, ReadSilverLocal DEF Delivers
  <2>2. PICK m \in t.left :
          LET stored == WithMonth(t.stored, silver[s], m)
          IN  \/ /\ n.work = "silver" /\ n.left = t.left \ {m}
                 /\ n.frame = t.frame /\ n.stored = stored
              \/ t.left \ {m} = {} /\ n = Planned(t.frame, stored)
    BY <1>0, <1>8, ReadSilverLocal
  <2> DEFINE stored == WithMonth(t.stored, silver[s], m)
  <2>3. stored \in Frames /\ AgreeBut(stored, silver[s], t.left \ {m})
    BY <1>0, <2>1, OneLess, FrameTypes
  <2> HIDE DEF stored
  <2>4. CASE /\ n.work = "silver" /\ n.left = t.left \ {m}
             /\ n.frame = t.frame /\ n.stored = stored
    BY <2>1, <2>3, <2>4 DEF Delivers
  <2>5. CASE t.left \ {m} = {} /\ n = Planned(t.frame, stored)
    <3>1. stored = silver[s]
      BY <1>0, <2>3, <2>5, NothingLeft
    <3>2. /\ n.work = "write" /\ Covers(n.frame, bronze[s])
          /\ AgreeBut(silver[s], n.frame, n.left)
      BY <1>0, <2>1, <2>5, <3>1, PlannedDelivers
    <3> QED
      BY <2>1, <3>2 DEF Delivers
  <2> QED
    BY <2>2, <2>4, <2>5 DEF stored
<1>9. CASE WriteSilver("daily", s)
  <2>1. /\ t.work = "write" /\ bronze' = bronze
        /\ silver'[s] = WithMonth(silver[s], t.frame, Min(t.left))
        /\ n = [t EXCEPT !.left = @ \ {Min(t.left)}]
    BY <1>0, <1>9, WriteSilverLocal
  <2>2. Covers(t.frame, bronze[s]) /\ AgreeBut(silver[s], t.frame, t.left)
    BY <2>1 DEF Delivers
  <2>3. n.work = "write" /\ n.frame = t.frame /\ n.left = t.left \ {Min(t.left)}
    BY <1>0, <2>1 DEF ThreadType
  <2>4. AgreeBut(silver'[s], n.frame, n.left)
    BY <1>0, <2>1, <2>2, <2>3, OneLess
  <2> QED
    BY <2>1, <2>2, <2>3, <2>4 DEF Delivers
<1>10. CASE Built("daily", s)
  <2>1. /\ t.work = "write" /\ t.left = {} /\ n.work = "done"
        /\ bronze' = bronze /\ silver' = silver
    BY <1>0, <1>10, BuiltLocal, EmptyThread
  <2>2. Covers(t.frame, bronze[s]) /\ silver[s] = t.frame
    BY <1>0, <2>1, NothingLeft DEF Delivers
  <2>3. phase["daily"] = "silver"
    BY <1>0, <2>1, WorkTells
  <2> QED
    BY <1>1, <2>1, <2>2, <2>3 DEF Delivers
<1>11. CASE ReadLevels("daily", s)
  <2>1. /\ t.work = "levels" /\ bronze' = bronze /\ silver' = silver
        /\ Covers(silver[s], bronze[s]) /\ AgreeBut(t.frame, silver[s], t.left)
    BY <1>0, <1>11, ReadLevelsLocal DEF Delivers
  <2>2. PICK m \in t.left :
          /\ n.frame = WithMonth(t.frame, silver[s], m)
          /\ n.left = t.left \ {m}
          /\ \/ n.work = "levels"
             \/ n.work = "done" /\ n.left = {}
    BY <1>0, <1>11, ReadLevelsLocal
  <2>3. AgreeBut(n.frame, silver[s], n.left)
    BY <1>0, <2>1, <2>2, OneLess
  <2>4. CASE n.work = "levels"
    BY <2>1, <2>3, <2>4 DEF Delivers
  <2>5. CASE n.work = "done" /\ n.left = {}
    <3>1. n.frame \in Frames
      BY <1>2 DEF ThreadType
    <3>2. n.frame = silver[s]
      BY <1>0, <2>3, <2>5, <3>1, NothingLeft
    <3>3. phase["daily"] = "levels"
      BY <1>0, <2>1, WorkTells
    <3> QED
      BY <1>1, <2>1, <2>5, <3>2, <3>3 DEF Delivers
  <2> QED
    BY <2>2, <2>4, <2>5
<1> QED
  BY <1>4, <1>5, <1>6, <1>7, <1>8, <1>9, <1>10, <1>11 DEF ThreadStep

LEMMA ThreadStepDelivers ==
    ASSUME TypeOK, Staged, NEW s \in Series, Delivers(s),
           NEW p \in Procs, NEW u \in Series, ThreadStep(p, u)
    PROVE  Delivers(s)'
<1>1. Moved(p, u) /\ "daily" \in Procs
  BY ThreadStepShape, ProcsAre
<1>2. CASE overlap = "now"
  BY <1>1, <1>2 DEF Moved, Delivers
<1>3. CASE p # "daily" /\ overlap # "now"
  <2>1. phase[p] # "idle"
    <3>1. thread[p][u].work # "none"
      BY ThreadStepShape
    <3> QED
      BY <3>1, WorkTells
  <2>2. phase["daily"] = "idle" /\ thread["daily"][s].work = "none"
    BY <1>1, <1>3, <2>1, OtherRests
  <2>3. phase' = phase /\ thread'["daily"][s] = thread["daily"][s]
    BY <1>1, <1>3 DEF Moved, Others
  <2> QED
    BY <2>2, <2>3 DEF Delivers
<1>4. CASE p = "daily" /\ u # s
  <2>1. /\ bronze'[s] = bronze[s] /\ silver'[s] = silver[s]
        /\ phase' = phase /\ overlap' = overlap
        /\ thread'["daily"][s] = thread["daily"][s]
    BY <1>1, <1>4 DEF Moved, Others
  <2> QED
    BY <2>1 DEF Delivers
<1>5. CASE p = "daily" /\ u = s /\ overlap # "now"
  BY <1>5, DailyStepDelivers
<1> QED
  BY <1>2, <1>3, <1>4, <1>5

LEMMA StepDelivers ==
    ASSUME TypeOK, Staged, [Next]_vars, NEW s \in Series, Delivers(s)
    PROVE  Delivers(s)'
<1>0. "daily" \in Procs
  BY ProcsAre
<1>1. CASE UNCHANGED vars
  BY <1>1 DEF vars, lake, Delivers
<1>2. CASE RunDaily \/ SilverCommand \/ GoldCommand
  <2>1. PICK p \in Procs : Beginning(p)
    BY <1>2, BeginLocal
  <2>2. CASE p = "daily"
    <3>1. phase'["daily"] = "bronze" /\ thread'["daily"][s] = Thread("fetch", {})
      BY <2>1, <2>2 DEF Beginning
    <3> QED
      BY <3>1, EmptyThread DEF Delivers
  <2>3. CASE p # "daily" /\ overlap' # "now"
    <3>1. phase["daily"] = "idle"
      BY <1>0, <2>1, <2>3 DEF Beginning
    <3>2. thread["daily"][s].work = "none"
      BY <1>0, <3>1 DEF Staged, WorksFit
    <3>3. phase'["daily"] = phase["daily"] /\ thread'["daily"] = thread["daily"]
      BY <1>0, <2>1, <2>3 DEF Beginning
    <3> QED
      BY <3>1, <3>2, <3>3 DEF Delivers
  <2>4. CASE overlap' = "now"
    BY <2>4 DEF Delivers
  <2> QED
    BY <2>2, <2>3, <2>4
<1>3. ASSUME NEW p \in Procs,
             \/ p = "daily" /\ BronzeDone
             \/ SilverDone(p) \/ Assemble(p) \/ Publish(p) \/ Kill(p)
      PROVE  Delivers(s)'
  <2>1. /\ UNCHANGED <<bronze, silver, overlap>>
        /\ \A q \in Procs \ {p} : phase'[q] = phase[q] /\ thread'[q] = thread[q]
    BY <1>3, CommandLocal DEF Following, Ending, lake
  <2>2. CASE p # "daily"
    BY <1>0, <2>1, <2>2 DEF Delivers
  <2>3. CASE p = "daily" /\ Ending(p)
    <3>1. phase'["daily"] = "idle" /\ thread'["daily"][s].work = "none"
      BY <2>3, EmptyThread DEF Ending
    <3> QED
      BY <3>1 DEF Delivers
  <2>4. CASE p = "daily" /\ Following(p)
    <3>1. CASE /\ phase'["daily"] = "silver"
               /\ thread'["daily"][s] = Thread("bronze", Months)
      <4>1. /\ thread'["daily"][s].work = "bronze"
            /\ thread'["daily"][s].left = Months
        BY <3>1, EmptyThread
      <4> QED
        BY <4>1, AllLeft DEF Delivers
    <3>2. CASE /\ phase["daily"] = "silver" /\ phase'["daily"] = "levels"
               /\ thread'["daily"][s] = Thread("levels", Months)
      <4>1. /\ thread'["daily"][s].work = "levels"
            /\ thread'["daily"][s].left = Months
        BY <3>2, EmptyThread
      <4>2. overlap # "now" => thread["daily"][s].work = "done"
        BY <2>4, <3>2 DEF Following, Finished, Delivers
      <4>3. overlap # "now" => Covers(silver[s], bronze[s])
        BY <3>2, <4>2 DEF Delivers
      <4> QED
        BY <2>1, <4>1, <4>3, AllLeft DEF Delivers
    <3>3. CASE /\ phase["daily"] = "levels" /\ phase'["daily"] = "publish"
               /\ thread' = thread
      BY <2>1, <3>3 DEF Delivers
    <3> QED
      BY <2>4, <3>1, <3>2, <3>3 DEF Following
  <2> QED
    BY <1>3, <2>2, <2>3, <2>4, CommandLocal
<1>4. ASSUME NEW p \in Procs, NEW u \in Series, ThreadStep(p, u)
      PROVE  Delivers(s)'
  BY <1>4, ThreadStepDelivers
<1> QED
  BY <1>1, <1>2, <1>3, <1>4 DEF Next, Command

\* Only a publication ends the stage of that name without a fault.
LEMMA OnlyPublish ==
    ASSUME TypeOK, Staged, Next, DailyPublished
    PROVE  gold' = [s \in Series |-> thread["daily"][s].frame]
<1>0. "daily" \in Procs /\ faults \in Nat
  BY ProcsAre, Bounds DEF TypeOK
<1>1. ASSUME RunDaily \/ SilverCommand \/ GoldCommand PROVE FALSE
  <2>1. PICK p \in Procs : Beginning(p)
    BY <1>1, BeginLocal
  <2> QED
    BY <1>0, <2>1 DEF Beginning, DailyPublished
<1>2. ASSUME NEW p \in Procs, NEW u \in Series, ThreadStep(p, u) PROVE FALSE
  BY <1>2, ThreadStepShape DEF Moved, DailyPublished
<1>3. ASSUME NEW p \in Procs,
             \/ p = "daily" /\ BronzeDone
             \/ SilverDone(p) \/ Assemble(p) \/ Publish(p) \/ Kill(p)
      PROVE  p = "daily" /\ Publish(p)
  <2>1. \A q \in Procs \ {p} : phase'[q] = phase[q]
    BY <1>3, CommandLocal DEF Following, Ending
  <2>2. p = "daily"
    BY <1>0, <2>1 DEF DailyPublished
  <2>3. ~Raise
    BY <1>0 DEF DailyPublished, Raise
  <2> QED
    BY <1>3, <2>2, <2>3 DEF DailyPublished, BronzeDone, SilverDone, Assemble, Kill
<1>4. Publish("daily")
  BY <1>1, <1>2, <1>3 DEF Next, Command
<1>5. ~Raise
  BY <1>0 DEF DailyPublished, Raise
<1> QED
  BY <1>4, <1>5 DEF Publish

\* A daily job beside which no other command ran puts every observation of
\* Bronze into the build it publishes (run_daily, SilverSeriesRepository.build).
THEOREM DailyJobDelivers == Spec => DailyPublishesBronze
<1> DEFINE AllDeliver == \A s \in Series : Delivers(s)
           I == TypeOK /\ Staged /\ AllDeliver
           Delivered == DailyPublished /\ overlap # "now" =>
                          \A s \in Series : Covers(gold'[s], bronze[s])
<1>1. Init => I
  BY InitTyped, InitDelivers
<1>2. I /\ [Next]_vars => I'
  <2>1. I /\ [Next]_vars => TypeOK' /\ Staged'
    BY StepTyped
  <2>2. I /\ [Next]_vars => AllDeliver'
    BY StepDelivers
  <2> QED
    BY <2>1, <2>2
<1>3. I /\ [Next]_vars => [Delivered]_vars
  <2> SUFFICES ASSUME I, Next, DailyPublished, overlap # "now", NEW s \in Series
               PROVE  Covers(gold'[s], bronze[s])
    OBVIOUS
  <2>1. "daily" \in Procs /\ phase["daily"] = "publish"
    BY ProcsAre DEF DailyPublished
  <2>2. thread["daily"][s].work = "done"
    BY <2>1 DEF Staged, WorksFit
  <2>3. Covers(thread["daily"][s].frame, bronze[s])
    BY <2>1, <2>2 DEF Delivers
  <2>4. gold'[s] = thread["daily"][s].frame
    BY OnlyPublish
  <2> QED
    BY <2>3, <2>4
<1> HIDE DEF I
<1> QED
  BY <1>1, <1>2, <1>3, PTL DEF Spec, DailyPublishesBronze
=============================================================================
