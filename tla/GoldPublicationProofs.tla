----------------------- MODULE GoldPublicationProofs -----------------------
(***************************************************************************)
(* Theorems about GoldPublication for every number of builds, every set of *)
(* releases, every retention limit and every number of faults.             *)
(*                                                                         *)
(* The inductive invariant relates the catalog, the files and the views    *)
(* with what the running process remembers: a row is selectable only while *)
(* its files are whole because the attempt is not selectable while its     *)
(* bundle is written, and what is deleted was tombstoned before.           *)
(***************************************************************************)
EXTENDS GoldPublication, FiniteSetTheorems, WellFoundedInduction, TLAPS

\* The type invariant, the three invariants that need each other, and the
\* processes' knowledge of what it registered and tombstoned.
IInv ==
    /\ TypeOK
    /\ SelectableIntact
    /\ LocalsConsistent
    /\ ViewsNeverDangle
    /\ ViewsRepairedFirst

-----------------------------------------------------------------------------
(* The operators of GoldCatalog.                                           *)

\* The current build is a build or none, and the row marked current is it.
LEMMA CurrentIsTheRow ==
    ASSUME NEW cat \in Catalogs, ValidCatalog(cat)
    PROVE  /\ Current(cat) \in Builds \cup {None}
           /\ \A b \in Builds : cat[b].current <=> Current(cat) = b
           /\ Current(cat) # None => Selectable(cat[Current(cat)])
<1>0. None \notin Builds
  BY DEF None, Builds
<1>1. CASE \E b \in Builds : cat[b].current
  <2>1. PICK c \in Builds : cat[c].current
    BY <1>1
  <2>2. \A b \in Builds : cat[b].current => b = c
    BY <2>1 DEF ValidCatalog
  <2>3. Current(cat) = c
    BY <1>1, <2>1, <2>2 DEF Current
  <2>4. Selectable(cat[c])
    BY <2>1 DEF ValidCatalog, ValidRow, Selectable
  <2> QED
    BY <2>1, <2>2, <2>3, <2>4
<1>2. CASE ~\E b \in Builds : cat[b].current
  BY <1>0, <1>2 DEF Current
<1> QED
  BY <1>1, <1>2

\* Failing attempts keeps the catalog's type.
LEMMA WithFailedType ==
    ASSUME NEW cat \in Catalogs, NEW ids
    PROVE  WithFailed(cat, ids) \in Catalogs
BY DEF WithFailed, FailedRow, Catalogs, Row

\* Promotion keeps the catalog's type.
LEMMA PromotedType ==
    ASSUME NEW cat \in Catalogs, NEW c
    PROVE  Promoted(cat, c) \in Catalogs
BY DEF Promoted, Catalogs, Row

\* Marking keeps the catalog's type.
LEMMA MarkedType ==
    ASSUME NEW cat \in Catalogs, NEW ids
    PROVE  Marked(cat, ids) \in Catalogs
BY DEF Marked, Catalogs, Row

\* Registration keeps the catalog's type.
LEMMA RegisteredType ==
    ASSUME NEW cat \in Catalogs, NEW b \in Builds, NEW v \in Versions
    PROVE  [cat EXCEPT ![b] = BuildingRow(v)] \in Catalogs
BY DEF BuildingRow, Absent, Catalogs, Row

-----------------------------------------------------------------------------
(* The two building blocks of every durable step.                          *)

\* catalog.replace: the new list is in place, whole and accepted, or nothing
\* changed; success implies the former.
LEMMA ReplaceOutcome ==
    ASSUME NEW new, NEW onSuccess, NEW onError,
           faults \in 0 .. MaxFaults,
           Replace(new, onSuccess, onError)
    PROVE  /\ \/ catalog' = catalog /\ stage' = onError
              \/ /\ catalog' = new
                 /\ ValidCatalog(new)
                 /\ stage' \in {onSuccess, onError}
           /\ faults' \in 0 .. MaxFaults
BY FaultAssumption DEF Replace, Goto, Raise

\* A refresh touches the views only, and shows at most a whole build.
LEMMA RefreshOutcome ==
    ASSUME NEW from, NEW onSuccess, NEW onError,
           IInv, RefreshViews(from, onSuccess, onError)
    PROVE  /\ UNCHANGED <<catalog, files, release, locals>>
           /\ \/ /\ views' = [json |-> Current(catalog), png |-> Current(catalog)]
                 /\ stage' = onSuccess
              \/ stage' = onError
           /\ views'.json \in {views.json, Current(catalog)}
           /\ views'.png \in {views.png, Current(catalog)}
           /\ views' \in [json : Builds \cup {None}, png : Builds \cup {None}]
           /\ faults' \in 0 .. MaxFaults
<1>1. Current(catalog) \in Builds \cup {None}
  BY CurrentIsTheRow DEF IInv, TypeOK, SelectableIntact
<1> QED
  BY <1>1, FaultAssumption
  DEF RefreshViews, Shown, IInv, TypeOK, Goto, Raise

\* Catalogs that mark the same row as current have the same current build.
LEMMA SameCurrent ==
    ASSUME NEW old \in Catalogs, NEW new \in Catalogs,
           ValidCatalog(old), ValidCatalog(new),
           \A b \in Builds : new[b].current <=> old[b].current
    PROVE  Current(new) = Current(old)
BY CurrentIsTheRow

\* Failing rows that are building changes nothing a consumer can see.
LEMMA WithFailedInvisible ==
    ASSUME NEW cat \in Catalogs, ValidCatalog(cat),
           NEW ids, \A b \in ids \cap Builds : cat[b].status = "building"
    PROVE  \A b \in Builds :
               /\ cat[b].status = "complete" => WithFailed(cat, ids)[b] = cat[b]
               /\ Selectable(WithFailed(cat, ids)[b]) => Selectable(cat[b])
               /\ WithFailed(cat, ids)[b].current <=> cat[b].current
               /\ Tombstone(cat[b]) => Tombstone(WithFailed(cat, ids)[b])
BY DEF WithFailed, FailedRow, Catalogs, Row, Selectable, Tombstone,
       ValidCatalog, ValidRow

\* Registered rows carry their release's version, through every rewrite.
LEMMA VersionsKept ==
    ASSUME NEW cat \in Catalogs, Versioned(cat)
    PROVE  /\ \A b \in Builds, v \in Versions :
                 Versioned([cat EXCEPT ![b] = BuildingRow(v)])
           /\ \A ids : (\A b \in ids \cap Builds : cat[b].status # "absent")
                 => Versioned(WithFailed(cat, ids))
           /\ \A ids : Versioned(Marked(cat, ids))
           /\ \A b \in Builds : cat[b].status # "absent"
                 => Versioned(Promoted(cat, b))
<1>1. ASSUME NEW b \in Builds, NEW v \in Versions
      PROVE  Versioned([cat EXCEPT ![b] = BuildingRow(v)])
  BY DEF BuildingRow, Absent, Catalogs, Versioned
<1>2. ASSUME NEW ids, \A b \in ids \cap Builds : cat[b].status # "absent"
      PROVE  Versioned(WithFailed(cat, ids))
  BY <1>2 DEF WithFailed, FailedRow, Catalogs, Row, Versioned
<1>3. ASSUME NEW ids
      PROVE  Versioned(Marked(cat, ids))
  BY DEF Marked, Catalogs, Row, Versioned
<1>4. ASSUME NEW b \in Builds, cat[b].status # "absent"
      PROVE  Versioned(Promoted(cat, b))
  BY <1>4 DEF Promoted, Catalogs, Row, Versioned
<1> QED
  BY <1>1, <1>2, <1>3, <1>4

-----------------------------------------------------------------------------
(* The inductive step, action by action.                                   *)

\* Every view refresh keeps the invariant, wherever it is called from.
LEMMA RefreshStep ==
    ASSUME NEW from, NEW onSuccess \in Stages, NEW onError \in {"idle", "finalize"},
           IInv, RefreshViews(from, onSuccess, onError),
           onError = "finalize" => attempt \in Builds,
           onSuccess = "bundle" =>
               attempt \in Builds /\ catalog[attempt].status = "building",
           onSuccess \notin {"registeredViews", "promote", "finalize", "retainViews"},
           onSuccess = "sweep" => \A b \in toSweep : Tombstone(catalog[b])
    PROVE  IInv'
<1> USE DEF IInv
<1>0. onError \in Stages
  BY DEF Stages
<1>1. TypeOK'
  BY RefreshOutcome, <1>0 DEF TypeOK, locals, Versioned
<1>2. SelectableIntact'
  BY RefreshOutcome DEF SelectableIntact, ValidCatalog, ValidRow, Selectable
<1>3. LocalsConsistent'
  BY RefreshOutcome DEF LocalsConsistent, Tombstone, locals
<1>4. ViewsNeverDangle'
  <2>1. Current(catalog) # None =>
            /\ Current(catalog) \in Builds
            /\ catalog[Current(catalog)].status = "complete"
            /\ files[Current(catalog)] = Artifacts
    BY CurrentIsTheRow DEF TypeOK, SelectableIntact, Selectable
  <2> QED
    BY <2>1, RefreshOutcome DEF ViewsNeverDangle
<1>5. ViewsRepairedFirst'
  <2>1. Current(catalog') = Current(catalog)
    BY RefreshOutcome
  <2> QED
    BY <2>1, RefreshOutcome DEF ViewsRepairedFirst
<1> QED
  BY <1>1, <1>2, <1>3, <1>4, <1>5

\* Failing attempts, in a recovery or by the finalizer, keeps the invariant.
LEMMA FailingStep ==
    ASSUME NEW ids, NEW onSuccess \in {"recoverViews", "entryViews", "failedViews"},
           \A b \in ids \cap Builds : catalog[b].status = "building",
           IInv, UNCHANGED <<files, views, release, locals>>,
           \/ Replace(WithFailed(catalog, ids), onSuccess, "idle")
           \/ /\ stage' \in {onSuccess, "idle"}
              /\ UNCHANGED <<catalog, faults>>
    PROVE  IInv'
<1> USE DEF IInv
<1>1. /\ catalog' = catalog \/ (/\ catalog' = WithFailed(catalog, ids)
                                /\ ValidCatalog(catalog'))
      /\ stage' \in {onSuccess, "idle"}
      /\ faults' \in 0 .. MaxFaults
  BY ReplaceOutcome DEF TypeOK
<1>2. \A b \in Builds :
          /\ catalog[b].status = "complete" => catalog'[b] = catalog[b]
          /\ Selectable(catalog'[b]) => Selectable(catalog[b])
  BY <1>1, WithFailedInvisible DEF TypeOK, SelectableIntact
<1>3. TypeOK'
  <2>1. catalog' \in Catalogs
    BY <1>1, WithFailedType DEF TypeOK
  <2>2. Versioned(catalog')
    BY <1>1, VersionsKept DEF TypeOK
  <2> QED
    BY <1>1, <2>1, <2>2 DEF TypeOK, Stages, locals
<1>4. SelectableIntact'
  BY <1>1, <1>2 DEF SelectableIntact
<1>5. LocalsConsistent'
  BY <1>1 DEF LocalsConsistent
<1>6. ViewsNeverDangle'
  BY <1>2 DEF ViewsNeverDangle, TypeOK
<1>7. ViewsRepairedFirst'
  BY <1>1 DEF ViewsRepairedFirst
<1> QED
  BY <1>3, <1>4, <1>5, <1>6, <1>7

\* Steps that move on without touching the lake keep the invariant.
LEMMA IdlingStep ==
    ASSUME IInv, UNCHANGED <<durable, release, locals>>,
           \/ stage' = "idle"
           \/ stage' = "entry"
           \/ stage = "mirror" /\ stage' = "retain",
           faults' \in 0 .. MaxFaults
    PROVE  IInv'
BY DEF IInv, TypeOK, SelectableIntact, LocalsConsistent, ViewsNeverDangle,
       ViewsRepairedFirst, durable, locals, Stages, Versioned, ValidCatalog,
       ValidRow, Selectable

\* A registration adds a building row, which no consumer can see.
LEMMA RegisterStep ==
    ASSUME IInv, Register
    PROVE  IInv'
<1> USE DEF IInv
<1>1. PICK b \in Builds :
          IF catalog[b].status = "absent"
          THEN /\ attempt' = b
               /\ Replace([catalog EXCEPT ![b] = BuildingRow(release)],
                          "registeredViews", "idle")
          ELSE stage' = "idle" /\ UNCHANGED <<catalog, attempt, faults>>
  BY DEF Register, Goto
<1>2. UNCHANGED <<files, views, release, command, toSweep>>
  BY DEF Register
<1>3. CASE catalog[b].status # "absent"
  BY <1>1, <1>2, <1>3, IdlingStep DEF durable, locals, TypeOK
<1>4. CASE catalog[b].status = "absent"
  <2> DEFINE new == [catalog EXCEPT ![b] = BuildingRow(release)]
  <2>1. /\ attempt' = b
        /\ \/ catalog' = catalog /\ stage' = "idle"
           \/ /\ catalog' = new
              /\ ValidCatalog(new)
              /\ stage' \in {"registeredViews", "idle"}
        /\ faults' \in 0 .. MaxFaults
    BY <1>1, <1>4, ReplaceOutcome DEF TypeOK
  <2>2. new \in Catalogs /\ Versioned(new)
    BY RegisteredType, VersionsKept DEF TypeOK
  <2>3. /\ new[b].status = "building" /\ ~new[b].current /\ ~catalog[b].current
        /\ \A c \in Builds \ {b} : new[c] = catalog[c]
    BY <1>4 DEF BuildingRow, Absent, TypeOK, Catalogs,
                SelectableIntact, ValidCatalog, ValidRow
  <2> HIDE DEF new
  <2>4. TypeOK'
    BY <1>2, <2>1, <2>2 DEF TypeOK, Stages
  <2>5. SelectableIntact'
    BY <1>2, <2>1, <2>3 DEF SelectableIntact, Selectable
  <2>6. LocalsConsistent'
    BY <1>2, <2>1, <2>3 DEF LocalsConsistent
  <2>7. ViewsNeverDangle'
    BY <1>2, <1>4, <2>1, <2>3 DEF ViewsNeverDangle, TypeOK
  <2>8. ViewsRepairedFirst'
    <3>1. stage = "register"
      BY DEF Register
    <3>2. CASE catalog' = new /\ ValidCatalog(new)
      <4>1. Current(new) = Current(catalog)
        BY <2>2, <2>3, <3>2, SameCurrent DEF TypeOK, SelectableIntact
      <4> QED
        BY <1>2, <3>1, <3>2, <4>1 DEF ViewsRepairedFirst
    <3> QED
      BY <2>1, <3>2 DEF ViewsRepairedFirst
  <2> QED
    BY <2>4, <2>5, <2>6, <2>7, <2>8
<1> QED
  BY <1>3, <1>4

\* Writing the bundle touches only the directory of a row still building.
LEMMA CreateBundleStep ==
    ASSUME IInv, CreateBundle
    PROVE  IInv'
<1> USE DEF IInv
<1>1. /\ attempt \in Builds
      /\ catalog[attempt].status = "building"
  BY DEF CreateBundle, LocalsConsistent
<1>2. PICK written \in Written :
          /\ files' = [files EXCEPT ![attempt] = written]
          /\ \/ stage' = "promote" /\ written = Artifacts
             \/ stage' = "finalize"
  BY DEF CreateBundle, Goto, Written
<1>3. /\ UNCHANGED <<catalog, views, release, locals>>
      /\ faults' \in 0 .. MaxFaults
      /\ stage = "bundle"
  BY FaultAssumption DEF CreateBundle, Raise, TypeOK
<1>4. written \in SUBSET Artifacts
  BY DEF Written, Artifacts
<1>5. TypeOK'
  BY <1>1, <1>2, <1>3, <1>4 DEF TypeOK, Stages, locals
<1>6. SelectableIntact'
  BY <1>1, <1>2, <1>3 DEF SelectableIntact, Selectable, TypeOK
<1>7. LocalsConsistent'
  BY <1>1, <1>2, <1>3 DEF LocalsConsistent, locals, TypeOK
<1>8. ViewsNeverDangle'
  BY <1>1, <1>2, <1>3 DEF ViewsNeverDangle, TypeOK
<1>9. ViewsRepairedFirst'
  BY <1>2, <1>3 DEF ViewsRepairedFirst
<1> QED
  BY <1>5, <1>6, <1>7, <1>8, <1>9

\* Promotion makes a row selectable whose bundle is whole.
LEMMA PromoteStep ==
    ASSUME IInv, Promote
    PROVE  IInv'
<1> USE DEF IInv
<1>1. /\ attempt \in Builds
      /\ catalog[attempt].status = "building"
      /\ files[attempt] = Artifacts
  BY DEF Promote, LocalsConsistent
<1> DEFINE new == Promoted(catalog, attempt)
<1>2. /\ UNCHANGED <<files, views, release, locals>>
      /\ \/ catalog' = catalog /\ stage' = "finalize"
         \/ /\ catalog' = new
            /\ ValidCatalog(new)
            /\ stage' \in {"promotedViews", "finalize"}
      /\ faults' \in 0 .. MaxFaults
  BY ReplaceOutcome DEF Promote, TypeOK
<1>3. new \in Catalogs /\ Versioned(new)
  BY <1>1, PromotedType, VersionsKept DEF TypeOK
<1>4. \A b \in Builds \ {attempt} :
          /\ Selectable(new[b]) => Selectable(catalog[b])
          /\ catalog[b].status = "complete" => new[b].status = "complete"
  BY DEF Promoted, Selectable, TypeOK, Catalogs, Row
<1> HIDE DEF new
<1>5. TypeOK'
  BY <1>2, <1>3 DEF TypeOK, Stages, locals
<1>6. SelectableIntact'
  BY <1>1, <1>2, <1>4 DEF SelectableIntact
<1>7. LocalsConsistent'
  BY <1>1, <1>2 DEF LocalsConsistent, locals
<1>8. ViewsNeverDangle'
  BY <1>1, <1>2, <1>4 DEF ViewsNeverDangle, TypeOK
<1>9. ViewsRepairedFirst'
  BY <1>2 DEF ViewsRepairedFirst
<1> QED
  BY <1>5, <1>6, <1>7, <1>8, <1>9

\* The finalizer fails at most the attempt, and only while it is building.
LEMMA FinalizeStep ==
    ASSUME IInv, Finalize
    PROVE  IInv'
<1>1. CASE catalog[attempt].status = "building"
  BY <1>1, FailingStep DEF Finalize, Uncommitted, Goto
<1>2. CASE catalog[attempt].status # "building"
  BY <1>2, IdlingStep DEF Finalize, Uncommitted, Goto, IInv, TypeOK, durable, locals
<1> QED
  BY <1>1, <1>2

\* Marking takes rows out of reach of consumers and never the current one;
\* what it hands to the sweep is tombstoned in the list it has committed.
LEMMA MarkStep ==
    ASSUME IInv, MarkBuilds
    PROVE  IInv'
<1> USE DEF IInv
<1> DEFINE ids == SelectForMark(catalog)
<1> DEFINE new == Marked(catalog, ids)
<1>1. /\ stage = "retain"
      /\ UNCHANGED <<files, views, release, command, attempt>>
      /\ toSweep' = Tombstones(new)
  BY DEF MarkBuilds, SweepList
<1>2. /\ \/ catalog' = new
         \/ catalog' = catalog /\ stage' \in {"idle", "retainViews", "inventory"}
      /\ ids # {} => catalog' = new \/ stage' = "idle"
      /\ ids = {} => catalog' = catalog
      /\ catalog' = catalog \/ ValidCatalog(catalog')
      /\ stage' \in {"idle", "retainViews", "inventory"}
      /\ stage' = "inventory" => catalog' = catalog
      /\ faults' \in 0 .. MaxFaults
  <2>1. CASE ids # {}
    <3>1. Replace(new, "retainViews", "idle")
      BY <2>1 DEF MarkBuilds
    <3> QED
      BY <2>1, <3>1, ReplaceOutcome DEF TypeOK
  <2>2. CASE ids = {}
    BY <2>2 DEF MarkBuilds, Goto, TypeOK
  <2> QED
    BY <2>1, <2>2
<1>3. new \in Catalogs /\ Versioned(new)
  BY MarkedType, VersionsKept DEF TypeOK
<1>4. \A b \in Builds :
          /\ Selectable(new[b]) => Selectable(catalog[b])
          /\ catalog[b].status = "complete" => new[b].status = "complete"
  BY DEF Marked, Selectable, TypeOK, Catalogs, Row
<1>5. ids = {} => new = catalog
  BY DEF Marked, TypeOK, Catalogs
<1>6. stage' = "retainViews" => catalog' = new
  BY <1>2, <1>5
<1>7. Tombstones(new) = {b \in Builds : Tombstone(new[b])}
  BY DEF Tombstones
<1> HIDE DEF ids, new
<1>8. TypeOK'
  BY <1>1, <1>2, <1>3, <1>7 DEF TypeOK, Stages
<1>9. SelectableIntact'
  BY <1>1, <1>2, <1>4 DEF SelectableIntact
<1>10. LocalsConsistent'
  BY <1>1, <1>2, <1>6, <1>7 DEF LocalsConsistent
<1>11. ViewsNeverDangle'
  BY <1>1, <1>2, <1>4 DEF ViewsNeverDangle, TypeOK
<1>12. ViewsRepairedFirst'
  BY <1>1, <1>2 DEF ViewsRepairedFirst
<1> QED
  BY <1>8, <1>9, <1>10, <1>11, <1>12

\* The sweep deletes only files of tombstoned rows, which nothing shows.
LEMMA SweepStep ==
    ASSUME IInv, Sweep
    PROVE  IInv'
<1> USE DEF IInv
<1>1. PICK b \in toSweep :
          /\ \E left \in SUBSET Artifacts : files' = [files EXCEPT ![b] = left]
          /\ toSweep' \in {toSweep, toSweep \ {b}}
          /\ stage' \in {"sweep", "inventory", "idle"}
          /\ faults' \in 0 .. MaxFaults
  <2>1. PICK b \in toSweep :
          \/ /\ files' = [files EXCEPT ![b] = {}]
             /\ toSweep' = toSweep \ {b}
             /\ stage' \in {"sweep", "inventory"}
             /\ UNCHANGED faults
          \/ /\ \E left \in Unswept(files[b]) :
                  files' = [files EXCEPT ![b] = left]
             /\ stage' = "idle"
             /\ Raise
             /\ UNCHANGED toSweep
    BY DEF Sweep, Goto
  <2>2. files[b] \in SUBSET Artifacts
    BY DEF TypeOK
  <2>3. \A left \in Unswept(files[b]) : left \in SUBSET Artifacts
    BY <2>2 DEF Unswept
  <2>4. faults' \in 0 .. MaxFaults
    BY <2>1, FaultAssumption DEF Raise, TypeOK
  <2> QED
    BY <2>1, <2>3, <2>4
<1>2. UNCHANGED <<catalog, views, release, command, attempt>> /\ stage = "sweep"
  BY DEF Sweep
<1>3. b \in Builds /\ Tombstone(catalog[b])
  BY <1>2 DEF TypeOK, LocalsConsistent
<1>4. views = [json |-> Current(catalog), png |-> Current(catalog)]
  BY <1>2 DEF ViewsRepairedFirst
<1>5. Current(catalog) # b
  BY <1>3, CurrentIsTheRow DEF TypeOK, SelectableIntact, Tombstone
<1>6. \A c \in Builds \ {b} : files'[c] = files[c]
  BY <1>1 DEF TypeOK
<1>7. TypeOK'
  BY <1>1, <1>2, <1>3 DEF TypeOK, Stages
<1>8. SelectableIntact'
  BY <1>2, <1>3, <1>6 DEF SelectableIntact, Selectable, Tombstone
<1>9. LocalsConsistent'
  BY <1>1, <1>2 DEF LocalsConsistent
<1>10. ViewsNeverDangle'
  BY <1>2, <1>4, <1>5, <1>6 DEF ViewsNeverDangle, TypeOK
<1>11. ViewsRepairedFirst'
  BY <1>2, <1>4 DEF ViewsRepairedFirst
<1> QED
  BY <1>7, <1>8, <1>9, <1>10, <1>11

\* An empty lake satisfies the invariant.
LEMMA InitEstablishes == Init => IInv
<1> SUFFICES ASSUME Init PROVE IInv
  OBVIOUS
<1>1. TypeOK
  BY FaultAssumption
  DEF Init, TypeOK, Catalogs, Row, Absent, Versioned, Stages
<1>2. \A b \in Builds : catalog[b] = Absent
  BY DEF Init
<1>3. SelectableIntact
  BY <1>2 DEF SelectableIntact, ValidCatalog, ValidRow, Selectable, Absent
<1>4. LocalsConsistent /\ ViewsNeverDangle /\ ViewsRepairedFirst
  BY DEF Init, LocalsConsistent, ViewsNeverDangle, ViewsRepairedFirst
<1> QED
  BY <1>1, <1>3, <1>4 DEF IInv

\* A step outside the lake: stuttering, a deployment of other code.
LEMMA OutsideStep ==
    ASSUME IInv, UNCHANGED <<durable, stage, locals, faults>>,
           release' \in Versions
    PROVE  IInv'
BY DEF IInv, TypeOK, SelectableIntact, LocalsConsistent, ViewsNeverDangle,
       ViewsRepairedFirst, durable, locals, Versioned, ValidCatalog, ValidRow,
       Selectable

\* Recovery and the recovery inside publish fail the stale attempts.
LEMMA FailStaleStep ==
    ASSUME IInv, NEW from, NEW onSuccess \in {"recoverViews", "entryViews"},
           FailStale(from, onSuccess)
    PROVE  IInv'
<1>1. \A b \in Stale(catalog) \cap Builds : catalog[b].status = "building"
  BY DEF Stale
<1>2. CASE Stale(catalog) # {}
  BY <1>1, <1>2, FailingStep DEF FailStale
<1>3. CASE Stale(catalog) = {}
  BY <1>1, <1>3, FailingStep DEF FailStale, Goto
<1> QED
  BY <1>2, <1>3

\* The inductive step.
LEMMA NextPreserves == IInv /\ [Next]_vars => IInv'
<1> SUFFICES ASSUME IInv, [Next]_vars PROVE IInv'
  OBVIOUS
<1>1. CASE Start
  <2>1. UNCHANGED <<durable, release, faults>> /\ stage' = "recover"
        /\ command' \in {"run-daily", "gold-build"} /\ attempt' = None /\ toSweep' = {}
    BY <1>1 DEF Start, Goto
  <2> QED
    BY <2>1 DEF IInv, TypeOK, SelectableIntact, LocalsConsistent,
       ViewsNeverDangle, ViewsRepairedFirst, durable, Stages, Versioned,
       ValidCatalog, ValidRow, Selectable
<1>2. CASE Recover
  BY <1>2, FailStaleStep DEF Recover
<1>3. CASE RecoverViews
  BY <1>3, RefreshStep DEF RecoverViews, Stages
<1>4. CASE Sources
  BY <1>4, IdlingStep DEF Sources, Goto, IInv, TypeOK
<1>5. CASE Entry
  BY <1>5, FailStaleStep DEF Entry
<1>6. CASE EntryViews
  BY <1>6, RefreshStep DEF EntryViews, Stages
<1>7. CASE Register
  BY <1>7, RegisterStep
<1>8. CASE RegisteredViews
  <2>1. attempt \in Builds /\ catalog[attempt].status = "building"
    BY <1>8 DEF RegisteredViews, RefreshViews, IInv, LocalsConsistent
  <2> QED
    BY <1>8, <2>1, RefreshStep DEF RegisteredViews, Stages
<1>9. CASE CreateBundle
  BY <1>9, CreateBundleStep
<1>10. CASE Promote
  BY <1>10, PromoteStep
<1>11. CASE Finalize
  BY <1>11, FinalizeStep
<1>12. CASE FailedViews
  BY <1>12, RefreshStep DEF FailedViews, Stages
<1>13. CASE PromotedViews
  BY <1>13, RefreshStep DEF PromotedViews, Stages
<1>14. CASE MirrorSync
  BY <1>14, IdlingStep, FaultAssumption DEF MirrorSync, Goto, Raise, IInv, TypeOK
<1>15. CASE MarkBuilds
  BY <1>15, MarkStep
<1>16. CASE RetainViews
  <2>1. \A b \in toSweep : Tombstone(catalog[b])
    BY <1>16 DEF RetainViews, RefreshViews, IInv, LocalsConsistent
  <2> QED
    BY <1>16, <2>1, RefreshStep DEF RetainViews, Stages
<1>17. CASE Sweep
  BY <1>17, SweepStep
<1>18. CASE Inventory
  BY <1>18, IdlingStep DEF Inventory, Goto, IInv, TypeOK
<1>19. CASE Kill
  BY <1>19, IdlingStep, FaultAssumption DEF Kill, Goto, Raise, IInv, TypeOK
<1>20. CASE Deploy
  BY <1>20, OutsideStep DEF Deploy
<1>21. CASE UNCHANGED vars
  BY <1>21, OutsideStep DEF vars, IInv, TypeOK
<1> QED
  BY <1>1, <1>2, <1>3, <1>4, <1>5, <1>6, <1>7, <1>8, <1>9, <1>10, <1>11,
     <1>12, <1>13, <1>14, <1>15, <1>16, <1>17, <1>18, <1>19, <1>20, <1>21
  DEF Next, Step

-----------------------------------------------------------------------------
(* The theorems.                                                           *)

\* Every reachable state satisfies the inductive invariant.
THEOREM Invariance == Spec => []IInv
BY InitEstablishes, NextPreserves, PTL DEF Spec

\* Type correctness of the lake and of the publishing process.
THEOREM TypeCorrectness == Spec => []TypeOK
<1>1. IInv => TypeOK
  BY DEF IInv
<1> QED
  BY <1>1, Invariance, PTL

\* A row that a consumer may select always has its whole bundle on disk, and
\* the catalog can always be read back.
THEOREM SelectableBuildsAreIntact == Spec => []SelectableIntact
<1>1. IInv => SelectableIntact
  BY DEF IInv
<1> QED
  BY <1>1, Invariance, PTL

\* What the running publication or retention remembers is still what the
\* catalog and the files say when it acts on it.
THEOREM LocalsAreConsistent == Spec => []LocalsConsistent
<1>1. IInv => LocalsConsistent
  BY DEF IInv
<1> QED
  BY <1>1, Invariance, PTL

\* The root views never show an uncommitted or a swept build.
THEOREM RootViewsNeverDangle == Spec => []ViewsNeverDangle
<1>1. IInv => ViewsNeverDangle
  BY DEF IInv
<1> QED
  BY <1>1, Invariance, PTL

\* No work that relies on the root views starts before they are repaired.
THEOREM RootViewsRepairedFirst == Spec => []ViewsRepairedFirst
<1>1. IInv => ViewsRepairedFirst
  BY DEF IInv
<1> QED
  BY <1>1, Invariance, PTL

-----------------------------------------------------------------------------
(* Action properties and refinement: what any single step may do.          *)

\* The effect of a step on the lake is one of six.
StepFails ==
    \E ids : /\ \A b \in ids \cap Builds : catalog[b].status = "building"
            /\ catalog' = WithFailed(catalog, ids)
            /\ files' = files

StepRegisters ==
    \E b \in Builds :
        /\ catalog[b].status = "absent"
        /\ catalog' = [catalog EXCEPT ![b] = BuildingRow(release)]
        /\ files' = files

StepPromotes ==
    /\ stage = "promote"
    /\ catalog' = Promoted(catalog, attempt)
    /\ files' = files

StepMarks ==
    /\ catalog' = Marked(catalog, SelectForMark(catalog))
    /\ files' = files

StepWritesFiles ==
    \E b \in Builds :
        /\ ~Selectable(catalog[b])
        /\ \A c \in Builds \ {b} : files'[c] = files[c]
        /\ catalog' = catalog

StepEffect ==
    \/ UNCHANGED <<catalog, files>>
    \/ StepFails \/ StepRegisters \/ StepPromotes \/ StepMarks
    \/ StepWritesFiles

\* Every step has one of these effects.
LEMMA StepShape ==
    ASSUME IInv, [Next]_vars
    PROVE  StepEffect
<1> USE DEF durable, locals, StepEffect
<1>1. ASSUME NEW from, NEW to, FailStale(from, to) PROVE StepEffect
  <2>1. \/ catalog' = catalog
        \/ catalog' = WithFailed(catalog, Stale(catalog))
    BY <1>1 DEF FailStale, Replace
  <2>2. files' = files
    BY <1>1 DEF FailStale
  <2> QED
    BY <2>1, <2>2 DEF StepFails, Stale
<1>2. ASSUME NEW from, NEW ok, NEW err, RefreshViews(from, ok, err) PROVE StepEffect
  BY <1>2 DEF RefreshViews
<1>3. CASE Register
  BY <1>3 DEF Register, Replace, StepRegisters
<1>4. CASE CreateBundle
  <2>1. attempt \in Builds /\ catalog[attempt].status = "building"
    BY <1>4 DEF CreateBundle, IInv, LocalsConsistent
  <2>2. \A c \in Builds \ {attempt} : files'[c] = files[c]
    BY <1>4 DEF CreateBundle, IInv, TypeOK
  <2>3. catalog' = catalog
    BY <1>4 DEF CreateBundle
  <2> QED
    BY <2>1, <2>2, <2>3 DEF StepWritesFiles, Selectable
<1>5. CASE Promote
  BY <1>5 DEF Promote, Replace, StepPromotes
<1>6. CASE Finalize
  <2>1. CASE catalog[attempt].status = "building"
    <3>1. \/ catalog' = catalog
          \/ catalog' = WithFailed(catalog, {attempt})
      BY <1>6 DEF Finalize, Replace
    <3>2. files' = files
      BY <1>6 DEF Finalize
    <3> QED
      BY <2>1, <3>1, <3>2 DEF StepFails
  <2>2. CASE catalog[attempt].status # "building"
    BY <1>6, <2>2 DEF Finalize, Uncommitted
  <2> QED
    BY <2>1, <2>2
<1>7. CASE MarkBuilds
  BY <1>7 DEF MarkBuilds, Replace, StepMarks
<1>8. CASE Sweep
  <2>1. PICK b \in toSweep : \E left : files' = [files EXCEPT ![b] = left]
    BY <1>8 DEF Sweep
  <2>2. b \in Builds /\ Tombstone(catalog[b])
    BY <1>8 DEF Sweep, IInv, TypeOK, LocalsConsistent
  <2>3. \A c \in Builds \ {b} : files'[c] = files[c]
    BY <2>1 DEF IInv, TypeOK
  <2>4. catalog' = catalog
    BY <1>8 DEF Sweep
  <2> QED
    BY <2>2, <2>3, <2>4 DEF StepWritesFiles, Selectable, Tombstone
<1>9. CASE Start \/ Sources \/ MirrorSync \/ Inventory \/ Kill \/ Deploy \/ UNCHANGED vars
  BY <1>9 DEF Start, Sources, MirrorSync, Inventory, Kill, Deploy, vars
<1> HIDE DEF StepEffect
<1>10. CASE Recover \/ Entry
  BY <1>1, <1>10 DEF Recover, Entry
<1>11. CASE RecoverViews \/ EntryViews \/ RegisteredViews \/ FailedViews
            \/ PromotedViews \/ RetainViews
  BY <1>2, <1>11 DEF RecoverViews, EntryViews, RegisteredViews, FailedViews,
                     PromotedViews, RetainViews
<1> QED
  BY <1>3, <1>4, <1>5, <1>6, <1>7, <1>8, <1>9, <1>10, <1>11 DEF Next, Step

\* A complete build stays complete and a retired build stays retired.
LEMMA CommitStep ==
    ASSUME IInv, [Next]_vars, NEW b \in Builds,
           catalog[b].status = "complete"
    PROVE  /\ catalog'[b].status = "complete"
           /\ catalog[b].pruned => catalog'[b].pruned
<1> USE DEF IInv, TypeOK
<1>1. CASE StepFails
  BY <1>1, WithFailedInvisible DEF StepFails, SelectableIntact
<1>2. CASE StepRegisters
  BY <1>2 DEF StepRegisters, Catalogs
<1>3. CASE StepPromotes
  BY <1>3 DEF StepPromotes, Promoted, LocalsConsistent, Catalogs, Row
<1>4. CASE StepMarks
  BY <1>4 DEF StepMarks, Marked, Catalogs, Row
<1>5. CASE StepWritesFiles \/ UNCHANGED <<catalog, files>>
  BY <1>5 DEF StepWritesFiles
<1> QED
  BY <1>1, <1>2, <1>3, <1>4, <1>5, StepShape DEF StepEffect

\* Only the promotion of the attempt moves the current build.
LEMMA CurrentStep ==
    ASSUME IInv, [Next]_vars, Current(catalog') # Current(catalog)
    PROVE  /\ StepPromotes
           /\ Current(catalog') = attempt
<1> USE DEF IInv, TypeOK
<1>1. catalog' \in Catalogs /\ ValidCatalog(catalog')
  BY NextPreserves DEF SelectableIntact
<1>2. CASE StepFails
  BY <1>1, <1>2, WithFailedInvisible, SameCurrent DEF StepFails, SelectableIntact
<1>3. CASE StepRegisters
  <2>1. PICK b \in Builds :
            /\ catalog[b].status = "absent"
            /\ catalog' = [catalog EXCEPT ![b] = BuildingRow(release)]
    BY <1>3 DEF StepRegisters
  <2>2. ~catalog[b].current /\ ~catalog'[b].current
    BY <2>1 DEF BuildingRow, Absent, Catalogs, SelectableIntact, ValidCatalog,
                ValidRow
  <2>3. \A c \in Builds : catalog'[c].current <=> catalog[c].current
    BY <2>1, <2>2 DEF Catalogs
  <2> QED
    BY <1>1, <2>3, SameCurrent DEF SelectableIntact
<1>4. CASE StepPromotes
  <2>1. attempt \in Builds
    BY <1>4 DEF StepPromotes, LocalsConsistent
  <2>2. catalog'[attempt].current
    BY <1>4, <2>1 DEF StepPromotes, Promoted, Catalogs, Row
  <2> QED
    BY <1>1, <1>4, <2>1, <2>2, CurrentIsTheRow
<1>5. CASE StepMarks
  <2>1. \A b \in SelectForMark(catalog) : ~catalog[b].current
    BY DEF SelectForMark
  <2>2. \A b \in Builds : catalog'[b].current <=> catalog[b].current
    BY <1>5, <2>1 DEF StepMarks, Marked, Catalogs, Row
  <2> QED
    BY <1>1, <2>2, SameCurrent DEF SelectableIntact
<1>6. CASE StepWritesFiles \/ UNCHANGED <<catalog, files>>
  BY <1>6 DEF StepWritesFiles
<1> QED
  BY <1>2, <1>3, <1>4, <1>5, <1>6, StepShape DEF StepEffect

\* No step of recovery, finalizer or retention undoes a committed build.
THEOREM CommitsAreFinal == Spec => CommitIsFinal
<1>1. IInv /\ [Next]_vars =>
        [\A b \in Builds :
            catalog[b].status = "complete" =>
               /\ catalog'[b].status = "complete"
               /\ catalog[b].pruned => catalog'[b].pruned]_vars
  BY CommitStep
<1> QED
  BY <1>1, Invariance, PTL DEF Spec, CommitIsFinal

\* The current build moves only by promotion of a registered, whole attempt.
THEOREM PromotionMovesCurrent == Spec => OnlyPromotionMovesCurrent
<1>1. IInv /\ [Next]_vars =>
        [Current(catalog') # Current(catalog) =>
           /\ stage = "promote"
           /\ Current(catalog') = attempt
           /\ catalog[attempt].status = "building"
           /\ files[attempt] = Artifacts]_vars
  BY CurrentStep DEF StepPromotes, IInv, LocalsConsistent
<1> QED
  BY <1>1, Invariance, PTL DEF Spec, OnlyPromotionMovesCurrent

\* The empty lake is the empty store.
LEMMA InitImplements == Init => Store!StoreInit
<1> SUFFICES ASSUME Init PROVE Store!StoreInit
  OBVIOUS
<1>1. \A b \in Builds : catalog[b] = Absent
  BY DEF Init
<1> QED
  BY <1>1 DEF Store!StoreInit, Current, Servable, Used, Selectable, Absent

\* Every step publishes the attempt, retires marked builds, or is invisible.
LEMMA StepImplements ==
    ASSUME IInv, [Next]_vars
    PROVE  [Store!StoreNext]_<<Current(catalog), Servable, Used>>
<1> USE DEF IInv, TypeOK
<1>0. /\ IInv'
      /\ catalog' \in Catalogs /\ ValidCatalog(catalog')
  BY NextPreserves DEF SelectableIntact
<1>1. CASE StepPromotes
  <2>1. attempt \in Builds /\ attempt \notin Used /\ files[attempt] = Artifacts
    BY <1>1 DEF StepPromotes, LocalsConsistent, Used
  <2>2. /\ catalog'[attempt].current
        /\ catalog'[attempt].status = "complete"
        /\ Selectable(catalog'[attempt])
    BY <1>1, <2>1 DEF StepPromotes, Promoted, Selectable, Catalogs, Row
  <2>3. \A b \in Builds \ {attempt} :
            /\ Selectable(catalog'[b]) <=> Selectable(catalog[b])
            /\ catalog'[b].status = catalog[b].status
    BY <1>1 DEF StepPromotes, Promoted, Selectable, Catalogs, Row
  <2>4. Current(catalog)' = attempt
    BY <1>0, <2>1, <2>2, CurrentIsTheRow
  <2>5. Servable' = Servable \cup {attempt}
    BY <1>1, <2>1, <2>2, <2>3 DEF StepPromotes, Servable
  <2>6. Used' = Used \cup {attempt}
    BY <2>1, <2>2, <2>3 DEF Used
  <2>7. Store!Publish(attempt)
    BY <2>1, <2>4, <2>5, <2>6 DEF Store!Publish
  <2> QED
    BY <2>1, <2>7 DEF Store!StoreNext
<1>2. CASE StepMarks
  <2> DEFINE ids == SelectForMark(catalog) \cap Servable
  <2>1. Current(catalog)' = Current(catalog)
    <3>1. \A b \in SelectForMark(catalog) : ~catalog[b].current
      BY DEF SelectForMark
    <3>2. \A b \in Builds : catalog'[b].current <=> catalog[b].current
      BY <1>2, <3>1 DEF StepMarks, Marked, Catalogs, Row
    <3> QED
      BY <1>0, <3>2, SameCurrent DEF SelectableIntact
  <2>2. Current(catalog) \notin ids
    <3>1. \A b \in ids : b \in Builds /\ ~catalog[b].current
      BY DEF SelectForMark
    <3> QED
      BY <3>1, CurrentIsTheRow DEF SelectableIntact
  <2>3. Servable' = Servable \ ids
    BY <1>2 DEF StepMarks, Servable, Marked, Selectable, Catalogs, Row
  <2>4. Used' = Used
    BY <1>2 DEF StepMarks, Used, Marked, Catalogs, Row
  <2>5. Store!Retire(ids)
    BY <2>1, <2>2, <2>3, <2>4 DEF Store!Retire
  <2>6. ids \in SUBSET Servable
    OBVIOUS
  <2> QED
    BY <2>5, <2>6 DEF Store!StoreNext
<1>3. CASE ~StepPromotes /\ ~StepMarks
  <2>1. Current(catalog)' = Current(catalog)
    BY <1>3, CurrentStep
  <2>2. \A b \in Builds :
            /\ catalog'[b].status = "complete" <=> catalog[b].status = "complete"
            /\ Selectable(catalog'[b]) <=> Selectable(catalog[b])
            /\ Selectable(catalog[b]) => files'[b] = files[b]
    <3>1. CASE StepFails
      <4>1. PICK ids : /\ \A b \in ids \cap Builds : catalog[b].status = "building"
                       /\ catalog' = WithFailed(catalog, ids)
        BY <3>1 DEF StepFails
      <4>2. files' = files
        BY <3>1 DEF StepFails
      <4> QED
        BY <4>1, <4>2 DEF WithFailed, FailedRow, Selectable, Catalogs, Row
    <3>2. CASE StepRegisters
      BY <3>2 DEF StepRegisters, BuildingRow, Absent, Selectable, Catalogs
    <3>3. CASE StepWritesFiles \/ UNCHANGED <<catalog, files>>
      BY <3>3 DEF StepWritesFiles
    <3> QED
      BY <1>3, <3>1, <3>2, <3>3, StepShape DEF StepEffect
  <2>3. Servable' = Servable
    BY <2>2 DEF Servable
  <2>4. Used' = Used
    BY <2>2 DEF Used
  <2> QED
    BY <2>1, <2>3, <2>4
<1> QED
  BY <1>1, <1>2, <1>3

\* The lake, with its errors, kills and recoveries, implements GoldStore: a
\* consumer sees atomic publications and retirements of superseded builds.
THEOREM LakeImplementsStore == Spec => ImplementsStore
<1>1. IInv /\ [Next]_vars => [Store!StoreNext]_<<Current(catalog), Servable, Used>>
  BY StepImplements
<1> QED
  BY <1>1, InitImplements, Invariance, PTL
  DEF Spec, ImplementsStore, Store!StoreSpec, Store!storeVars

-----------------------------------------------------------------------------
(* Retention.  Marking the first builds of a group by rank, the current    *)
(* one not counted, marks as many as exceed the limit; and whatever is     *)
(* tombstoned when the sweep ends has been swept, in this run or an        *)
(* earlier one.                                                            *)

Numbers(S) == S \in SUBSET Nat /\ IsFiniteSet(S)

\* How many members of S are not above b.
Rank(S, b) == Cardinality({c \in S : c <= b})

LEMMA LeastExists ==
    ASSUME NEW S \in SUBSET Nat, S # {}
    PROVE  \E r \in S : \A c \in S : r <= c
<1> DEFINE Less == OpToRel(<, Nat)
<1>1. PICK r \in S : \A c \in S : <<c, r>> \notin Less
  <2> HIDE DEF Less
  <2>1. IsWellFoundedOn(Less, Nat)
    BY NatLessThanWellFounded DEF Less
  <2> QED
    BY <2>1, WFMin
<1>2. ASSUME NEW c \in S PROVE r <= c
  <2>1. <<c, r>> \in Nat \X Nat /\ <<c, r>> \notin Less
    BY <1>1
  <2>2. ~(c < r)
    BY <2>1 DEF OpToRel, Less
  <2> QED
    BY <2>2
<1> QED
  BY <1>2

\* The members of rank up to k are at least k, if there are so many.
LEMMA FirstAreEnough ==
    ASSUME NEW S, Numbers(S), NEW k \in Int, k <= Cardinality(S)
    PROVE  Cardinality({b \in S : Rank(S, b) <= k}) >= k
<1> DEFINE First == {b \in S : Rank(S, b) <= k}
           Rest == S \ First
<1>0. S \in SUBSET Nat /\ IsFiniteSet(S) /\ Cardinality(S) \in Nat
  BY FS_CardinalityType DEF Numbers
<1>1. IsFiniteSet(First) /\ Cardinality(First) \in Nat
  BY <1>0, FS_Subset, FS_CardinalityType
<1>2. CASE Rest = {}
  <2>1. First = S
    BY <1>2
  <2> HIDE DEF First
  <2>2. Cardinality(First) >= k
    BY <1>0, <2>1
  <2> QED
    BY <2>2 DEF First
<1>3. CASE Rest # {}
  <2> HIDE DEF First
  <2>1. Rest \in SUBSET Nat
    BY <1>0
  <2>2. PICK r \in Rest : \A c \in Rest : r <= c
    BY <1>3, <2>1, LeastExists
  <2> DEFINE Upto == {c \in S : c <= r}
  <2>3. r \in S /\ r \in Upto /\ Upto \ {r} \subseteq First
    <3>1. r \in S /\ r \in Nat /\ r \in Upto
      BY <1>0
    <3>2. ASSUME NEW c \in Upto, c # r PROVE c \in First
      <4>1. c \in S /\ c \in Nat /\ ~(r <= c)
        BY <1>0, <3>1, <3>2
      <4> QED
        BY <2>2, <4>1
    <3>3. Upto \ {r} \subseteq First
      BY <3>2
    <3> QED
      BY <3>1, <3>3
  <2>4. IsFiniteSet(Upto) /\ Cardinality(Upto) \in Nat
    BY <1>0, FS_Subset, FS_CardinalityType
  <2>5. ~(Cardinality(Upto) <= k)
    BY <2>2, <2>3 DEF First, Rank
  <2> HIDE DEF Upto
  <2>6. Cardinality(Upto \ {r}) = Cardinality(Upto) - 1
    BY <2>3, <2>4, FS_RemoveElement
  <2>7. Cardinality(Upto \ {r}) <= Cardinality(First)
    BY <1>1, <2>3, FS_Subset
  <2> QED
    BY <1>1, <2>4, <2>5, <2>6, <2>7 DEF First
<1> QED
  BY <1>2, <1>3

\* At most one build of a group is current, so removing the first others as
\* far as the group exceeds the limit leaves the limit.
LEMMA LimitKept ==
    ASSUME NEW S, Numbers(S), NEW Other \in SUBSET S,
           Cardinality(S) - 1 <= Cardinality(Other),
           NEW limit \in Nat \ {0},
           NEW gone, gone = {b \in Other : Rank(Other, b)
                                             <= Cardinality(S) - limit}
    PROVE  Cardinality(S \ gone) <= limit
<1>1. /\ IsFiniteSet(S) /\ Cardinality(S) \in Nat
      /\ Numbers(Other) /\ Cardinality(Other) \in Nat
  BY FS_Subset, FS_CardinalityType DEF Numbers
<1>2. Cardinality(gone) >= Cardinality(S) - limit
  BY <1>1, FirstAreEnough
<1>3. /\ gone \subseteq S /\ S \cap gone = gone
      /\ Cardinality(S \ gone) = Cardinality(S) - Cardinality(S \cap gone)
      /\ Cardinality(gone) \in Nat
  BY <1>1, FS_Difference, FS_Subset, FS_CardinalityType
<1> QED
  BY <1>1, <1>2, <1>3

\* A mark leaves no more than the limit of any version.
LEMMA MarkHonoursLimit ==
    ASSUME NEW cat \in Catalogs, ValidCatalog(cat), NEW v
    PROVE  Cardinality(Group(Marked(cat, SelectForMark(cat)), v)) <= Retain
<1> DEFINE G == Group(cat, v)
           Other == {c \in G : ~cat[c].current}
           gone == {b \in Other : Rank(Other, b) <= Cardinality(G) - Retain}
<1>1. Retain \in Nat \ {0} /\ MaxBuilds \in Nat
  BY CatalogAssumption
<1>2. Numbers(G)
  <2>1. IsFiniteSet(Builds) /\ Builds \in SUBSET Nat
    BY <1>1, FS_Interval DEF Builds
  <2> QED
    BY <2>1, FS_Subset DEF Numbers, Group
<1>3. Cardinality(G) - 1 <= Cardinality(Other)
  <2>1. \E c : G \ {c} \subseteq Other
    BY DEF ValidCatalog, Group
  <2>2. PICK c : G \ {c} \subseteq Other
    BY <2>1
  <2>3. IsFiniteSet(G) /\ IsFiniteSet(Other)
    BY <1>2, FS_Subset DEF Numbers
  <2> HIDE DEF G, Other
  <2>4. /\ Cardinality(G \ {c}) <= Cardinality(Other)
        /\ Cardinality(G) \in Nat /\ Cardinality(Other) \in Nat
    BY <2>2, <2>3, FS_Subset, FS_CardinalityType
  <2>5. Cardinality(G \ {c}) \in {Cardinality(G), Cardinality(G) - 1}
    BY <2>3, FS_RemoveElement
  <2> QED
    BY <2>4, <2>5
<1>4. \A b \in G : b \in SelectForMark(cat) <=> b \in gone
  <2> SUFFICES ASSUME NEW b \in G
               PROVE  b \in SelectForMark(cat) <=> b \in gone
    OBVIOUS
  <2>1. b \in Builds /\ Selectable(cat[b]) /\ cat[b].version = v
    BY DEF Group
  <2>2. {c \in Other : c <= b} = {c \in G : ~cat[c].current /\ c <= b}
    OBVIOUS
  <2> QED
    BY <2>1, <2>2 DEF SelectForMark, Rank
<1>5. Group(Marked(cat, SelectForMark(cat)), v) = G \ gone
  <2> HIDE DEF gone
  <2>1. ASSUME NEW b \in Builds
        PROVE  LET row == Marked(cat, SelectForMark(cat))[b]
               IN  /\ b \in SelectForMark(cat) => ~Selectable(row)
                   /\ b \notin SelectForMark(cat) => row = cat[b]
    BY DEF Marked, Selectable, Catalogs, Row
  <2> QED
    BY <1>4, <2>1 DEF Group
<1> HIDE DEF G, Other
<1>6. Other \in SUBSET G
  BY DEF Other
<1> QED
  BY <1>1, <1>2, <1>3, <1>5, <1>6, LimitKept

-----------------------------------------------------------------------------
(* From the mark to the end of the sweep.                                  *)

\* Once marked, every group is within the limit; what is still to sweep of
\* tombstoned builds is on the list.
Retained ==
    stage \in {"retainViews", "sweep", "inventory"} =>
        /\ \A v \in Versions : Cardinality(Group(catalog, v)) <= Retain
        /\ \A b \in Tombstones(catalog) :
               files[b] = {} \/ (stage # "inventory" /\ b \in toSweep)

LEMMA MarkRetains ==
    ASSUME IInv, MarkBuilds
    PROVE  Retained'
<1> DEFINE ids == SelectForMark(catalog)
           records == Marked(catalog, ids)
<1>1. catalog \in Catalogs /\ ValidCatalog(catalog)
  BY DEF IInv, TypeOK, SelectableIntact
<1>2. \A v \in Versions : Cardinality(Group(records, v)) <= Retain
  BY <1>1, MarkHonoursLimit
<1>3. ids = {} => records = catalog
  BY <1>1 DEF Marked, Catalogs
<1>4. toSweep' = Tombstones(records)
  BY DEF MarkBuilds, SweepList
<1> HIDE DEF ids, records
<1>5. CASE ids # {}
  <2>1. Replace(records, "retainViews", "idle")
    BY <1>5 DEF MarkBuilds, ids, records
  <2>2. stage' = "idle" \/ (stage' = "retainViews" /\ catalog' = records)
    BY <2>1 DEF Replace, Goto
  <2> QED
    BY <1>2, <1>4, <2>2 DEF Retained
<1>6. CASE ids = {}
  <2>1. /\ catalog' = catalog
        /\ \/ stage' = "retainViews"
           \/ stage' = "inventory" /\ Tombstones(records) = {}
    BY <1>6 DEF MarkBuilds, Goto, ids, records
  <2> QED
    BY <1>2, <1>3, <1>4, <1>6, <2>1 DEF Retained
<1> QED
  BY <1>5, <1>6

LEMMA SweepRetains ==
    ASSUME IInv, Retained, Sweep
    PROVE  Retained'
<1>1. stage = "sweep" /\ catalog' = catalog
  BY DEF Sweep
<1>2. PICK b \in toSweep :
        \/ /\ files' = [files EXCEPT ![b] = {}]
           /\ toSweep' = toSweep \ {b}
           /\ Goto(IF toSweep = {b} THEN "inventory" ELSE "sweep")
        \/ Goto("idle")
  BY DEF Sweep
<1>3. CASE stage' = "idle"
  BY <1>3 DEF Retained
<1>4. CASE /\ files' = [files EXCEPT ![b] = {}]
           /\ toSweep' = toSweep \ {b}
           /\ stage' = IF toSweep = {b} THEN "inventory" ELSE "sweep"
  <2>1. /\ b \in Builds => files'[b] = {}
        /\ \A c \in Builds \ {b} : files'[c] = files[c]
    BY <1>4 DEF IInv, TypeOK
  <2>2. stage' = "inventory" => toSweep = {b}
    BY <1>4
  <2>3. \A c \in Tombstones(catalog) :
          files'[c] = {} \/ (stage' # "inventory" /\ c \in toSweep')
    BY <1>1, <1>4, <2>1, <2>2 DEF Retained, Tombstones
  <2> QED
    BY <1>1, <2>3 DEF Retained
<1> QED
  BY <1>2, <1>3, <1>4 DEF Goto

LEMMA RetainedPreserved ==
    ASSUME IInv, Retained, [Next]_vars
    PROVE  Retained'
<1>1. CASE UNCHANGED vars
  BY <1>1 DEF vars, durable, locals, Retained
<1>2. CASE MarkBuilds
  BY <1>2, MarkRetains
<1>3. CASE Sweep
  BY <1>3, SweepRetains
<1>4. CASE RetainViews
  <2>1. /\ UNCHANGED <<catalog, files, toSweep>> /\ stage = "retainViews"
        /\ stage' \in {"sweep", "idle"}
    BY <1>4 DEF RetainViews, RefreshViews, Goto, locals
  <2> QED
    BY <2>1 DEF Retained
<1>5. CASE Start \/ Sources \/ MirrorSync \/ Inventory \/ Kill
  BY <1>5 DEF Start, Sources, MirrorSync, Inventory, Kill, Goto, Retained
<1>6. CASE Deploy
  BY <1>6 DEF Deploy, durable, locals, Retained
<1>7. CASE Recover \/ Entry
  BY <1>7 DEF Recover, Entry, FailStale, Replace, Goto, Retained
<1>8. CASE RecoverViews \/ EntryViews \/ RegisteredViews \/ FailedViews
             \/ PromotedViews
  BY <1>8 DEF RecoverViews, EntryViews, RegisteredViews, FailedViews,
              PromotedViews, RefreshViews, Goto, Retained
<1>9. CASE Register \/ CreateBundle \/ Promote \/ Finalize
  BY <1>9 DEF Register, CreateBundle, Promote, Finalize, Replace, Goto, Retained
<1> QED
  BY <1>1, <1>2, <1>3, <1>4, <1>5, <1>6, <1>7, <1>8, <1>9 DEF Next, Step

\* When retention has run to its end no version pair keeps more builds than
\* the limit and nothing is left of a tombstoned build (gold_retention.run).
THEOREM RetentionIsHonoured == Spec => []RetentionHonoured
<1>1. Init => Retained
  BY DEF Init, Retained
<1>2. Retained => RetentionHonoured
  BY DEF Retained, RetentionHonoured
<1> QED
  BY <1>1, <1>2, InitEstablishes, NextPreserves, RetainedPreserved, PTL DEF Spec
=============================================================================
