--------------------------- MODULE LocalBackend ---------------------------
(***************************************************************************)
(* The backend of a host without a router (KIOKU_MESH_BACKEND=local).      *)
(* raw.db is the source of truth, index.db what searches read.  Every      *)
(* operation commits to raw.db first, one statement at a time, and then    *)
(* changes the index, best effort.  Opening the backend copies an index of *)
(* an older release into raw.db and rebuilds the index from raw.db.        *)
(*                                                                         *)
(* Each agent of the host runs a process of its own over the same files;   *)
(* a step here is one transaction of one database, so everything between   *)
(* two of them interleaves.  Observation ids are never used twice.  A      *)
(* write of raw.db that raises changes nothing and is only modelled where  *)
(* it ends a loop.                                                         *)
(***************************************************************************)
EXTENDS IndexTable

CONSTANTS
  Agent,
  MaxFailures  \* bound: failed statements, indexes that do not open, crashes

ASSUME LocalBound == MaxFailures \in Nat

VARIABLES
  obs,          \* raw.db: ids in local_obs
  tomb,         \* raw.db: ids in local_tomb
  migrated,     \* raw.db: the marker of the copy
  made,         \* index.db exists
  table, text,  \* index.db: obs_index and obs_fts
  pc,           \* what each process does
  off,          \* processes whose index did not open: every method of it returns at once
  at,           \* the id the running operation works on
  ids,          \* the ids a purge has still to remove
  sweeps,       \* the purge is a shadow sweep
  seen,         \* observations read: from the index to copy, from raw.db to rebuild
  dead,         \* tombstones read, likewise
  saved,        \* history: ids whose save returned, or that the older index shows
  erased,       \* history: ids whose physical deletion has reached raw.db
  stranded,     \* history: ids of the older index that a failed copy left behind
  failures

rawVars   == <<obs, tomb, migrated>>
indexVars == <<made, table, text>>
procVars  == <<pc, off, at, ids, sweeps, seen, dead>>
history   == <<saved, erased, stranded>>
localVars      == <<rawVars, indexVars, procVars, history, failures>>

Stages == {"closed", "copy", "connect", "scanObs", "scanTombs", "apply", "ready",
           "upsert", "mark", "purge", "purgeTomb", "purgeRow"}

LocalTypeOK ==
  /\ obs \subseteq Obs /\ tomb \subseteq Obs
  /\ migrated \in BOOLEAN /\ made \in BOOLEAN
  /\ table \in Rows /\ text \subseteq Obs
  /\ pc \in [Agent -> Stages]
  /\ off \subseteq Agent
  /\ at \in [Agent -> Obs \cup {None}]
  /\ ids \in [Agent -> SUBSET Obs]
  /\ sweeps \subseteq Agent
  /\ seen \in [Agent -> SUBSET Obs] /\ dead \in [Agent -> SUBSET Obs]
  /\ saved \subseteq Obs /\ erased \subseteq Obs /\ stranded \subseteq Obs
  /\ failures \in 0..MaxFailures

Failure == failures < MaxFailures /\ failures' = failures + 1

GoTo(p, stage) == pc' = [pc EXCEPT ![p] = stage]

\* An index write of p: done, failed and logged, or not tried without an index.
IndexWrite(p, ok) ==
  /\ ok => p \notin off
  /\ IF ok \/ p \in off THEN UNCHANGED failures ELSE Failure

-----------------------------------------------------------------------------
(* Opening: LocalRawStore.migrate_from_index. *)

CopiedShown(t) ==   \* mutant: the copy takes what the default search shows
  {o \in Live(t) : t[o].known /\ t[o].by = None}

\* Live rows go to local_obs; a payload that does not parse is skipped.
Copied(t) == {o \in Live(t) : t[o].known}

\* Rows with deleted_at go to local_tomb; rows that are only shadowed are skipped.
CopiedTombs(t) == {o \in Present(t) : t[o].deleted}

\* No index.db, or the marker and data in raw.db: there is nothing to copy.
NothingToCopy == ~made \/ (migrated /\ obs \cup tomb # {})

OpenCopied(p) ==
  /\ pc[p] = "closed"
  /\ NothingToCopy
  /\ GoTo(p, "connect")
  /\ UNCHANGED <<rawVars, indexVars, off, at, ids, sweeps, seen, dead, history, failures>>

OpenReads(p) ==
  /\ pc[p] = "closed"
  /\ ~NothingToCopy
  /\ seen' = [seen EXCEPT ![p] = Copied(table)]
  /\ dead' = [dead EXCEPT ![p] = CopiedTombs(table)]
  /\ GoTo(p, "copy")
  /\ UNCHANGED <<rawVars, indexVars, off, at, ids, sweeps, history, failures>>

\* index.db cannot be opened or read: logged, and the backend opens all the same.
OpenBlind(p) ==
  /\ pc[p] = "closed"
  /\ ~NothingToCopy
  /\ Failure
  /\ stranded' = stranded \cup (Present(table) \ obs)
  /\ GoTo(p, "connect")
  /\ UNCHANGED <<rawVars, indexVars, off, at, ids, sweeps, seen, dead, saved, erased>>

\* The rows and the marker in one transaction.
Copy(p) ==
  /\ pc[p] = "copy"
  /\ obs' = obs \cup seen[p] /\ tomb' = tomb \cup dead[p]
  /\ migrated' = TRUE
  /\ seen' = [seen EXCEPT ![p] = {}] /\ dead' = [dead EXCEPT ![p] = {}]
  /\ GoTo(p, "connect")
  /\ UNCHANGED <<indexVars, off, at, ids, sweeps, history, failures>>

\* The transaction is rolled back: logged, and the backend opens all the same.
CopyFails(p) ==
  /\ pc[p] = "copy"
  /\ Failure
  /\ stranded' = stranded \cup (seen[p] \ obs)
  /\ seen' = [seen EXCEPT ![p] = {}] /\ dead' = [dead EXCEPT ![p] = {}]
  /\ GoTo(p, "connect")
  /\ UNCHANGED <<rawVars, indexVars, off, at, ids, sweeps, saved, erased>>

-----------------------------------------------------------------------------
(* Opening: the index and rebuild_from_raw_records. *)

\* _ensure_schema fills obs_fts again from the live rows.
Connect(p) ==
  /\ pc[p] = "connect"
  /\ made' = TRUE
  /\ text' = Live(table)
  /\ off' = off \ {p}
  /\ GoTo(p, "scanObs")
  /\ UNCHANGED <<rawVars, table, at, ids, sweeps, seen, dead, history, failures>>

\* The index falls back to disabled; the rebuild returns at once.
ConnectFails(p) ==
  /\ pc[p] = "connect"
  /\ Failure
  /\ off' = off \cup {p}
  /\ GoTo(p, "ready")
  /\ UNCHANGED <<rawVars, indexVars, at, ids, sweeps, seen, dead, history>>

ReadObs(p) ==
  /\ pc[p] = "scanObs"
  /\ seen' = [seen EXCEPT ![p] = obs]
  /\ GoTo(p, "scanTombs")
  /\ UNCHANGED <<rawVars, indexVars, off, at, ids, sweeps, dead, history, failures>>

ReadTombs(p) ==
  /\ pc[p] = "scanTombs"
  /\ dead' = [dead EXCEPT ![p] = tomb]
  /\ GoTo(p, "apply")
  /\ UNCHANGED <<rawVars, indexVars, off, at, ids, sweeps, seen, history, failures>>

\* _rebuild_from_observations: a visible row without its observation is removed.
Apply(p, by) ==
  /\ pc[p] = "apply"
  /\ table' = RebuiltFromRaw(table, seen[p], dead[p], by)
  /\ text' = RebuiltFts(table, text, seen[p], dead[p])
  /\ seen' = [seen EXCEPT ![p] = {}] /\ dead' = [dead EXCEPT ![p] = {}]
  /\ GoTo(p, "ready")
  /\ UNCHANGED <<rawVars, made, off, at, ids, sweeps, history, failures>>

\* It raises through the constructor: no backend, the next call opens again.
ApplyFails(p) ==
  /\ pc[p] = "apply"
  /\ Failure
  /\ GoTo(p, "closed")
  /\ seen' = [seen EXCEPT ![p] = {}] /\ dead' = [dead EXCEPT ![p] = {}]
  /\ UNCHANGED <<rawVars, indexVars, off, at, ids, sweeps, history>>

-----------------------------------------------------------------------------
(* Operations. *)

Fresh(o) == o \notin saved \cup erased \cup obs \cup tomb \cup Present(table)

\* put_observation: raw.db ...
SaveRaw(p, o) ==
  /\ pc[p] = "ready" /\ Fresh(o)
  /\ obs' = obs \cup {o}
  /\ saved' = saved \cup {o}
  /\ at' = [at EXCEPT ![p] = o]
  /\ GoTo(p, "upsert")
  /\ UNCHANGED <<tomb, migrated, indexVars, off, ids, sweeps, seen, dead, erased, stranded,
                 failures>>

\* ... and then the index.
SaveIndexes(p, ok) ==
  /\ pc[p] = "upsert"
  /\ IndexWrite(p, ok)
  /\ table' = IF ok THEN Upserted(table, at[p]) ELSE table
  /\ text' = IF ok THEN text \cup {at[p]} ELSE text
  /\ at' = [at EXCEPT ![p] = None]
  /\ GoTo(p, "ready")
  /\ UNCHANGED <<rawVars, made, off, ids, sweeps, seen, dead, history>>

\* find_observation_by_id, with the rows that searches do not show.
Found(p, o) == p \notin off /\ table[o] # None /\ table[o].known

\* put_tombstone of an observation the caller has found: raw.db, then the index.
DeleteRaw(p, o) ==
  /\ pc[p] = "ready" /\ Found(p, o)
  /\ tomb' = tomb \cup {o}
  /\ at' = [at EXCEPT ![p] = o]
  /\ GoTo(p, "mark")
  /\ UNCHANGED <<obs, migrated, indexVars, off, ids, sweeps, seen, dead, history, failures>>

DeleteMarks(p, ok) ==
  /\ pc[p] = "mark"
  /\ IndexWrite(p, ok)
  /\ table' = IF ok THEN Marked(table, {at[p]}) ELSE table
  /\ text' = IF ok THEN text \ {at[p]} ELSE text
  /\ at' = [at EXCEPT ![p] = None]
  /\ GoTo(p, "ready")
  /\ UNCHANGED <<rawVars, made, off, ids, sweeps, seen, dead, history>>

\* physical_delete_observation asks raw.db and the index.
Deletable(p) == {{o} : o \in obs \cup tomb \cup {q \in Obs : Found(p, q)}}

\* gc_tombstones: the union of what raw.db and the index hold as deleted. Which of
\* them are old enough, in the project and approved is the caller's choice.
Expired(p) == SUBSET (tomb \cup (IF p \in off THEN {} ELSE {o \in Present(table) : table[o].deleted}))

\* gc_shadows: candidates from the index alone.
Shadows(p) ==
  IF p \in off THEN {}
  ELSE SUBSET {o \in Present(table) : table[o].shadowed /\ ~table[o].deleted}

Purge(p, S, sweep) ==
  /\ pc[p] = "ready" /\ S # {}
  /\ IF sweep THEN S \in Shadows(p) ELSE S \in Deletable(p) \cup Expired(p)
  /\ ids' = [ids EXCEPT ![p] = S]
  /\ sweeps' = IF sweep THEN sweeps \cup {p} ELSE sweeps \ {p}
  /\ GoTo(p, "purge")
  /\ UNCHANGED <<rawVars, indexVars, off, at, seen, dead, history, failures>>

\* delete_obs; the shadow sweep leaves local_tomb alone.
PurgeObs(p, o) ==
  /\ pc[p] = "purge" /\ o \in ids[p]
  /\ obs' = obs \ {o}
  /\ erased' = erased \cup {o}
  /\ at' = [at EXCEPT ![p] = o]
  /\ ids' = [ids EXCEPT ![p] = @ \ {o}]
  /\ GoTo(p, IF p \in sweeps THEN "purgeRow" ELSE "purgeTomb")
  /\ UNCHANGED <<tomb, migrated, indexVars, off, sweeps, seen, dead, saved, stranded, failures>>

\* delete_tomb
PurgeTomb(p) ==
  /\ pc[p] = "purgeTomb"
  /\ tomb' = tomb \ {at[p]}
  /\ GoTo(p, "purgeRow")
  /\ UNCHANGED <<obs, migrated, indexVars, off, at, ids, sweeps, seen, dead, history, failures>>

\* LocalIndex.physical_delete, and the next id.
PurgeRow(p, ok) ==
  /\ pc[p] = "purgeRow"
  /\ IndexWrite(p, ok)
  /\ table' = IF ok THEN Removed(table, at[p]) ELSE table
  /\ text' = IF ok THEN text \ {at[p]} ELSE text
  /\ at' = [at EXCEPT ![p] = None]
  /\ GoTo(p, IF ids[p] = {} THEN "ready" ELSE "purge")
  /\ UNCHANGED <<rawVars, made, off, ids, sweeps, seen, dead, history>>

\* A delete in raw.db raises through the loop.
PurgeRaises(p) ==
  /\ pc[p] \in {"purge", "purgeTomb"}
  /\ Failure
  /\ ids' = [ids EXCEPT ![p] = {}] /\ at' = [at EXCEPT ![p] = None]
  /\ GoTo(p, "ready")
  /\ UNCHANGED <<rawVars, indexVars, off, sweeps, seen, dead, history>>

\* What a process had in memory is gone.
Ends(p) ==
  /\ GoTo(p, "closed")
  /\ off' = off \ {p} /\ sweeps' = sweeps \ {p}
  /\ at' = [at EXCEPT ![p] = None] /\ ids' = [ids EXCEPT ![p] = {}]
  /\ seen' = [seen EXCEPT ![p] = {}] /\ dead' = [dead EXCEPT ![p] = {}]

Close(p) ==
  /\ pc[p] = "ready"
  /\ Ends(p)
  /\ UNCHANGED <<rawVars, indexVars, history, failures>>

AgentCrash(p) ==
  /\ pc[p] \notin {"closed", "ready"}
  /\ Failure /\ Ends(p)
  /\ UNCHANGED <<rawVars, indexVars, history>>

-----------------------------------------------------------------------------

\* No file yet, or the index of an older release and an empty raw.db.
LocalInit ==
  /\ obs = {} /\ tomb = {} /\ migrated = FALSE
  /\ table \in Rows
  /\ \A o \in Present(table) :
       /\ ~table[o].known => table[o].deleted
       /\ table[o].deleted => ~table[o].shadowed
       /\ table[o].by # None => table[o].by \in Present(table) /\ o \in Supersedes[table[o].by]
  /\ made \in BOOLEAN /\ (~made => Present(table) = {})
  /\ text = {}
  /\ pc = [p \in Agent |-> "closed"]
  /\ off = {} /\ sweeps = {}
  /\ at = [p \in Agent |-> None] /\ ids = [p \in Agent |-> {}]
  /\ seen = [p \in Agent |-> {}] /\ dead = [p \in Agent |-> {}]
  /\ saved = Live(table) /\ erased = {} /\ stranded = {}
  /\ failures = 0

Open(p) ==
  \/ OpenCopied(p) \/ OpenReads(p) \/ OpenBlind(p) \/ Copy(p) \/ CopyFails(p)
  \/ Connect(p) \/ ConnectFails(p) \/ ReadObs(p) \/ ReadTombs(p)
  \/ (\E by \in Winners(seen[p]) : Apply(p, by)) \/ ApplyFails(p)

Operate(p) ==
  \/ \E o \in Obs : SaveRaw(p, o) \/ DeleteRaw(p, o)
  \/ \E ok \in BOOLEAN : SaveIndexes(p, ok) \/ DeleteMarks(p, ok) \/ PurgeRow(p, ok)
  \/ \E S \in SUBSET Obs, sweep \in BOOLEAN : Purge(p, S, sweep)
  \/ (\E o \in ids[p] : PurgeObs(p, o)) \/ PurgeTomb(p) \/ PurgeRaises(p)

LocalNext == \E p \in Agent : Open(p) \/ Operate(p) \/ Close(p) \/ AgentCrash(p)

LocalSpec == LocalInit /\ [][LocalNext]_localVars

-----------------------------------------------------------------------------
(* Properties. *)

\* A memory whose save returned is in raw.db until it is physically deleted. One
\* that an older release saved is, before it has been copied, still in the index;
\* the exception are rows whose copy failed: the rebuild that follows drops them.
NothingLost ==
  \A o \in saved \ (erased \cup stranded) :
    o \in obs \cup tomb \/ (table[o] # None /\ table[o].known)

\* An open that rebuilds from what raw.db holds at that moment leaves searches with
\* exactly the memories of raw.db that have no tombstone, all of them with full
\* text, whatever the index had missed. (A physically deleted memory may differ.)
OpenAligns ==
  [][\A p \in Agent :
       pc[p] = "apply" /\ pc'[p] = "ready" /\ seen[p] = obs /\ dead[p] = tomb =>
         /\ Live(table') \ erased = (obs \ tomb) \ erased
         /\ Live(table') \subseteq text']_localVars

\* The index keeps the lifecycle the mesh-backed index keeps: in particular a
\* deleted memory is not shown again while its row is there.
LocalState == [o \in Obs |-> StateOf(table[o])]
LocalLifecycle == INSTANCE RowLifecycle WITH state <- LocalState
LocalFollowsLifecycle == [][LocalLifecycle!Next]_LocalState
=============================================================================
