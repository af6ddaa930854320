---------------------------- MODULE GoldCatalog ----------------------------
(***************************************************************************)
(* The authoritative Gold catalog (manifest.parquet) as a pure value: its  *)
(* rows, what makes a row selectable, what the repository accepts, and the *)
(* whole-catalog transformations the publisher and the retention service   *)
(* hand to GoldCatalogRepository.replace.                                  *)
(*                                                                         *)
(* A catalog is a function from every possible build id to a row; an id    *)
(* that was never registered has the row Absent.  Build ids are numbers in *)
(* the order of the clock that minted them; completion times follow the    *)
(* same order, so (completed_at_utc, build_id) is compared by the number.  *)
(***************************************************************************)
EXTENDS Integers, FiniteSets

CONSTANTS MaxBuilds,  \* bound: how many distinct build ids the clock yields
          Versions,   \* (schema_version, feature_version) pairs of releases
          Retain      \* gold_retention_successful_builds

ASSUME CatalogAssumption ==
    /\ MaxBuilds \in Nat
    /\ Retain \in Nat \ {0}
    /\ 0 \notin Versions

Builds == 1 .. MaxBuilds

\* "No build": the result of an empty selection, a missing root view.
None == 0

Row == [status  : {"absent", "building", "complete", "failed"},
        current : BOOLEAN,
        version : Versions \cup {None},
        paths   : BOOLEAN,   \* data, manifest and plot path, all or none
        pruned  : BOOLEAN]   \* pruned_at_utc is set

Catalogs == [Builds -> Row]

Absent == [status |-> "absent", current |-> FALSE, version |-> None,
           paths |-> FALSE, pruned |-> FALSE]

\* Every registered row records the version pair of its release.
Versioned(cat) ==
    \A b \in Builds : cat[b].status # "absent" => cat[b].version \in Versions

Selectable(row) == row.status = "complete" /\ ~row.pruned /\ row.paths

Tombstone(row) ==
    /\ row.status = "complete"
    /\ ~row.current
    /\ row.pruned
    /\ ~row.paths

(***************************************************************************)
(* What GoldCatalogRepository.replace and read accept.                     *)
(***************************************************************************)
ValidRow(row) ==
    /\ row.current => row.status = "complete" /\ ~row.pruned
    /\ (row.status = "complete" /\ ~row.pruned) => row.paths

ValidCatalog(cat) ==
    /\ \A b \in Builds : ValidRow(cat[b])
    /\ \A a, b \in Builds : cat[a].current /\ cat[b].current => a = b

Current(cat) ==
    IF \E b \in Builds : cat[b].current
    THEN CHOOSE b \in Builds : cat[b].current
    ELSE None

(***************************************************************************)
(* The rows the publisher writes.                                          *)
(***************************************************************************)
\* Variant with a bug: the attempt does not record its release's versions.
BuildingRowUnversioned(version) == [Absent EXCEPT !.status = "building"]

BuildingRow(version) ==
    [Absent EXCEPT !.status = "building", !.version = version]

FailedRow(row) ==
    [row EXCEPT !.status = "failed", !.current = FALSE,
                !.paths = FALSE, !.pruned = FALSE]

\* Variant with a bug: recovery looks at the wrong half of the rows.
StaleCurrentOnly(cat) ==
    {b \in Builds : cat[b].status = "building" /\ cat[b].current}

Stale(cat) == {b \in Builds : cat[b].status = "building" /\ ~cat[b].current}

\* Variant with a bug: the demotion of promotion is applied on failure too.
WithFailedDemoting(cat, ids) ==
    [b \in Builds |-> IF b \in ids THEN FailedRow(cat[b])
                                   ELSE [cat[b] EXCEPT !.current = FALSE]]

WithFailed(cat, ids) ==
    [b \in Builds |-> IF b \in ids THEN FailedRow(cat[b]) ELSE cat[b]]

\* The candidate becomes complete and current, the old current is demoted.
Promoted(cat, candidate) ==
    [b \in Builds |->
        IF b = candidate
        THEN [cat[b] EXCEPT !.status = "complete", !.current = TRUE,
                            !.paths = TRUE, !.pruned = FALSE]
        ELSE [cat[b] EXCEPT !.current = FALSE]]

(***************************************************************************)
(* Retention: the oldest non-current builds in excess of Retain, for every *)
(* version pair on its own, lose their paths in one replacement.           *)
(***************************************************************************)
Group(cat, version) ==
    {b \in Builds : Selectable(cat[b]) /\ cat[b].version = version}

SelectForMark(cat) ==
    {b \in Builds :
        /\ Selectable(cat[b])
        /\ ~cat[b].current
        /\ LET group == Group(cat, cat[b].version)
           IN  Cardinality({c \in group : ~cat[c].current /\ c <= b})
                 <= Cardinality(group) - Retain}

Marked(cat, ids) ==
    [b \in Builds |->
        IF b \in ids
        THEN [cat[b] EXCEPT !.current = FALSE, !.paths = FALSE, !.pruned = TRUE]
        ELSE cat[b]]

\* Variant with a bug: the sweep does not insist on the tombstone.
TombstonesUnmarked(cat) ==
    {b \in Builds : cat[b].status = "complete" /\ ~cat[b].current}

Tombstones(cat) == {b \in Builds : Tombstone(cat[b])}

\* Variant with a bug: a sweep an earlier run abandoned is not retried.
SweepListNewMarks(records, ids) == ids

\* What a retention that has just marked ids sweeps: every tombstone.
SweepList(records, ids) == Tombstones(records)
=============================================================================
