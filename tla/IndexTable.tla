----------------------------- MODULE IndexTable -----------------------------
(***************************************************************************)
(* What the statements of memory/local_index.py do to the obs_index table  *)
(* and to its full-text shadow obs_fts, as operators on their contents.    *)
(* The mesh-backed index and the local backend share them.                 *)
(*                                                                         *)
(* `row' maps an observation id to its row; `fts' is the set of ids with   *)
(* an obs_fts row.  An observation is immutable once saved, so of its      *)
(* payload a row keeps only whether it is there: a placeholder for a       *)
(* tombstone whose observation was never seen has none.                    *)
(***************************************************************************)
EXTENDS FiniteSets, Naturals, NoValue

CONSTANTS
  Obs,         \* observation ids
  Supersedes   \* the ids each observation says it replaces

ASSUME IndexTableAssumption ==
  /\ None \notin Obs
  /\ Supersedes \in [Obs -> SUBSET Obs]
  /\ \A o \in Obs : o \notin Supersedes[o]

\* A memory is given its id when it is saved and names ids of memories it replaces:
\* of any memories, one is replaced by none of them.
ASSUME NoCycle == \A S \in SUBSET Obs : S # {} => \E o \in S : \A q \in S : o \notin Supersedes[q]

\* An obs_index row: payload_json, deleted_at, shadowed_at and superseded_by.
Row == [known : BOOLEAN, deleted : BOOLEAN, shadowed : BOOLEAN, by : Obs \cup {None}]

ASSUME NoneIsNoRow == None \notin Row

Rows == [Obs -> Row \cup {None}]

(***************************************************************************)
(* Reading.                                                                *)
(***************************************************************************)
Present(row) == {o \in Obs : row[o] # None}

Live(row) == {o \in Present(row) : ~row[o].deleted /\ ~row[o].shadowed}

\* The state inspect_by_id reports.
StateOf(r) ==
  IF r = None THEN "absent" ELSE IF r.deleted THEN "tombstoned"
  ELSE IF r.shadowed THEN "shadowed" ELSE "live"

\* The default search: a live row, unless what superseded it is live too.
Shown(row) == {o \in Live(row) : row[o].by \notin Live(row)}

\* ORDER BY .. LIMIT: what is left of S, `order' a set of pairs, the first before the second.
Top(S, order, limit) == {o \in S : Cardinality({q \in S : <<q, o>> \in order}) < limit}

\* S as the result lists it.
Listed(S, order) ==
  CHOOSE s \in [1..Cardinality(S) -> S] : \A i, j \in DOMAIN s : i < j => <<s[i], s[j]>> \in order

(***************************************************************************)
(* Single statements, each over a set of ids.                              *)
(***************************************************************************)
FilledClearingDeletion(r) ==   \* mutant: the upsert resets deleted_at as well
  IF r = None THEN [known |-> TRUE, deleted |-> FALSE, shadowed |-> FALSE, by |-> None]
  ELSE [r EXCEPT !.known = TRUE, !.deleted = FALSE, !.shadowed = FALSE]

\* _UPSERT_SQL: a new row, or the payload and no shadow; deleted_at stays.
Filled(r) ==
  IF r = None THEN [known |-> TRUE, deleted |-> FALSE, shadowed |-> FALSE, by |-> None]
  ELSE [r EXCEPT !.known = TRUE, !.shadowed = FALSE]

Inserted(row, S) == [o \in Obs |-> IF o \in S THEN Filled(row[o]) ELSE row[o]]

\* UPDATE ... SET superseded_by: by[o] # None says who supersedes o.
Pointed(row, by) ==
  [o \in Obs |-> IF row[o] # None /\ by[o] # None THEN [row[o] EXCEPT !.by = by[o]] ELSE row[o]]

\* _MARK_DELETED_SQL
Marked(row, T) ==
  [o \in Obs |-> IF o \in T /\ row[o] # None
                 THEN [row[o] EXCEPT !.deleted = TRUE, !.shadowed = FALSE] ELSE row[o]]

\* _INSERT_ORPHAN_TOMBSTONE_SQL: ON CONFLICT DO NOTHING
Placeheld(row, T) ==
  [o \in Obs |-> IF o \in T /\ row[o] = None
                 THEN [known |-> FALSE, deleted |-> TRUE, shadowed |-> FALSE, by |-> None]
                 ELSE row[o]]

\* _MARK_SHADOWED_SQL: only where deleted_at IS NULL
Hidden(row, S) ==
  [o \in Obs |-> IF o \in S /\ row[o] # None /\ ~row[o].deleted
                 THEN [row[o] EXCEPT !.shadowed = TRUE] ELSE row[o]]

RemovedLeavingPointers(row, o) == [row EXCEPT ![o] = None]   \* mutant

\* physical_delete: the row, and every superseded_by that names it.
Removed(row, o) ==
  [q \in Obs |-> IF q = o THEN None
                 ELSE IF row[q] # None /\ row[q].by = o THEN [row[q] EXCEPT !.by = None]
                 ELSE row[q]]

\* The orders the observations of S may come in.
Orders(S) == {at \in [S -> 1..Cardinality(S)] : \A s, t \in S : at[s] = at[t] => s = t}

\* The observations of S that supersede o.
Over(S, o) == {s \in S : o \in Supersedes[s]}

\* The ways of writing superseded_by from the observations of S, one after
\* another in some order: of those that supersede o the last one wins.
Winners(S) ==
  {by \in [Obs -> S \cup {None}] :
     /\ \A o \in Obs : IF Over(S, o) = {} THEN by[o] = None ELSE by[o] \in Over(S, o)
     /\ \E at \in Orders({s \in S : Supersedes[s] # {}}) : \A o \in Obs :
          by[o] # None => \A s \in Over(S, o) : at[s] <= at[by[o]]}

(***************************************************************************)
(* LocalIndex.upsert                                                       *)
(***************************************************************************)
Upserted(row, o) ==
  Pointed(Inserted(row, {o}), [q \in Obs |-> IF q \in Supersedes[o] THEN o ELSE None])

(***************************************************************************)
(* Applying a scan that saw the observations S and the tombstones T.       *)
(***************************************************************************)

ChangedByPayload(row, S) == {o \in S : row[o] = None \/ ~row[o].known}   \* mutant: a shadow is no change

\* The scanned observations that are written: new, shadowed, or changed.
Changed(row, S) == {o \in S : row[o] = None \/ row[o].shadowed \/ ~row[o].known}

\* _split_tombstone_actions
Orphans(row, S, T) == {o \in T : row[o] = None /\ o \notin S}

ToMarkScanned(row, S, T) ==   \* mutant: a tombstone counts only with its observation
  {o \in T \cap S : row[o] = None \/ ~row[o].deleted}

ToMark(row, S, T) == {o \in T \ Orphans(row, S, T) : row[o] = None \/ ~row[o].deleted}

\* The visible rows the scan did not see.
Stale(row, S) == Live(row) \ S

\* What rebuild and full repair both do, before superseded_by.
Reconciled(row, S, T) ==
  Placeheld(Marked(Inserted(row, Changed(row, S)), ToMark(row, S, T)), Orphans(row, S, T))

Unpointed(row) ==
  [o \in Obs |-> IF row[o] = None THEN None ELSE [row[o] EXCEPT !.by = None]]

\* _rebuild_from_observations without mark_missing_shadowed, for raw.db: absence
\* removes a visible row, and with it every superseded_by that names it.
RebuiltFromRaw(row, S, T, by) ==
  LET kept == Reconciled(row, S, T)
  IN Pointed(Unpointed([o \in Obs |-> IF o \in Stale(row, S) THEN None ELSE kept[o]]), by)

\* _rebuild_from_observations with mark_missing_shadowed: by is one of
\* Winners(S), and every other superseded_by is reset.
Rebuilt(row, S, T, by) ==
  Pointed(Unpointed(Hidden(Reconciled(row, S, T), Stale(row, S))), by)

RebuiltFtsStale(row, fts, S, T) ==   \* mutant: revived rows are not re-indexed, no drift guard
  (fts \ ToMark(row, S, T)) \ Stale(row, S)

\* The incremental FTS update; the drift guard compares sizes only.
RebuiltFts(row, fts, S, T) ==
  LET live == Live(Hidden(Reconciled(row, S, T), Stale(row, S)))
      synced == ((fts \cup Changed(row, S)) \ ToMark(row, S, T)) \ Stale(row, S)
  IN IF Cardinality(synced) # Cardinality(live) THEN live ELSE synced

RepairedHidingStale(row, S, T, by) ==   \* mutant: absence from the scan hides a row
  Pointed(Hidden(Reconciled(row, S, T), Stale(row, S)), by)

\* _apply_repair in mode full: by is one of Winners(Changed(row, S)).
Repaired(row, S, T, by) == Pointed(Reconciled(row, S, T), by)

RepairedFts(row, fts, S, T) == (fts \cup Changed(row, S)) \ ToMark(row, S, T)

\* _apply_repair in mode tombstones: no observation was scanned, so a
\* tombstone without a row is left alone.
KnownTombs(row, T) == {o \in T : row[o] # None /\ ~row[o].deleted}
TombRepaired(row, T) == Marked(row, KnownTombs(row, T))
=============================================================================
