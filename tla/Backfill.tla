------------------------------ MODULE Backfill ------------------------------
(***************************************************************************)
(* `kioku-mesh backfill-metadata --apply` on a mesh host: for a memory     *)
(* whose subject or summary is missing it saves a copy with both derived,  *)
(* under a new id, that supersedes the original and all the original       *)
(* superseded.  Nothing is rewritten, so what keeps a second run from      *)
(* repairing the same memory again is only what that run is able to see.   *)
(*                                                                         *)
(* Each run is a process that opens the index as it is or, when it is      *)
(* empty or with --rebuild, rebuilds it; with the index disabled its       *)
(* search is a scan of the mesh, which hides no superseded memory.  Fewer  *)
(* memories than MAX_SEARCH are assumed.                                   *)
(***************************************************************************)
EXTENDS IndexTable

CONSTANTS
  Bare,                              \* memories without a subject or a summary that can be derived
  MaxRepairFaults, MaxRepairChanges  \* bounds: failures; steps of other processes

ASSUME BackfillAssumption ==
  /\ Bare \subseteq Obs
  /\ MaxRepairFaults \in Nat /\ MaxRepairChanges \in Nat

VARIABLES
  bareRow,           \* obs_index
  mesh, buriedBare,  \* observations and tombstones on the mesh
  queue,             \* pending_puts
  repairing,
  blind,             \* the index is disabled in the running command
  repairs,           \* memories selected for repair
  missed,            \* history: copies that were made and a later run had no way to see
  made, raised,      \* history: copies whose save was tried, and those whose save raised
  repairFaults, repairChanges

backfillVars == <<bareRow, mesh, buriedBare, queue, repairing, blind, repairs, missed, made,
                  raised, repairFaults, repairChanges>>

\* dataclasses.replace with supersedes = [*obs.supersedes, obs.observation_id]
Copies(o) == {c \in Obs \ Bare : Supersedes[c] = Supersedes[o] \cup {o}}

BackfillTypeOK ==
  /\ bareRow \in Rows
  /\ mesh \cup buriedBare \cup queue \cup repairs \cup missed \cup made \cup raised \subseteq Obs
  /\ repairing \in {"idle", "listed", "apply"}
  /\ blind \in BOOLEAN
  /\ repairFaults \in 0..MaxRepairFaults /\ repairChanges \in 0..MaxRepairChanges

RepairFault == repairFaults < MaxRepairFaults /\ repairFaults' = repairFaults + 1
RepairChange == repairChanges < MaxRepairChanges /\ repairChanges' = repairChanges + 1

Born == mesh \cup buriedBare \cup queue \cup made

-----------------------------------------------------------------------------
(* The plan. *)

PlanOfAll(seen) == Bare \cap seen   \* mutant: no look at what is superseded already

\* Repairable, and not superseded by another result of the same search.
Repairable(seen) == {o \in Bare \cap seen : \A q \in seen : o \notin Supersedes[q]}

\* --limit and --project leave any part of what could be repaired.
PlannedRepairs(seen) == SUBSET Repairable(seen)

\* The index as it is; what it does not hold, the run cannot know of.
SearchIndex ==
  /\ repairing = "idle"
  /\ Present(bareRow) # {}
  /\ repairs' \in PlannedRepairs(Shown(bareRow))
  /\ missed' = missed \cup (made \ Present(bareRow))
  /\ repairing' = "listed" /\ blind' = FALSE
  /\ UNCHANGED <<bareRow, mesh, buriedBare, queue, made, raised, repairFaults, repairChanges>>

\* The index rebuilt from a scan that returned S.
SearchRebuilt(S) ==
  /\ repairing = "idle"
  /\ S \subseteq mesh
  /\ IF S = mesh THEN UNCHANGED repairFaults ELSE RepairFault
  /\ \E by \in Winners(S) : bareRow' = Rebuilt(bareRow, S, buriedBare, by)
  /\ repairs' \in PlannedRepairs(Shown(bareRow'))
  /\ missed' = missed \cup (made \ S)
  /\ repairing' = "listed" /\ blind' = FALSE
  /\ UNCHANGED <<mesh, buriedBare, queue, made, raised, repairChanges>>

\* Without an index, a scan that returned S.
SearchScanned(S) ==
  /\ repairing = "idle"
  /\ S \subseteq mesh
  /\ IF S = mesh THEN UNCHANGED repairFaults ELSE RepairFault
  /\ repairs' \in PlannedRepairs(S \ buriedBare)
  /\ missed' = missed \cup (made \ S)
  /\ repairing' = "listed" /\ blind' = TRUE
  /\ UNCHANGED <<bareRow, mesh, buriedBare, queue, made, raised, repairChanges>>

\* A dry run ends here, and so does a run whose repairs are all done.
End ==
  /\ repairing \in {"listed", "apply"}
  /\ repairing = "apply" => repairs = {}
  /\ repairing' = "idle" /\ repairs' = {}
  /\ UNCHANGED <<bareRow, mesh, buriedBare, queue, blind, missed, made, raised, repairFaults,
                 repairChanges>>

Apply ==
  /\ repairing = "listed" /\ repairs # {}
  /\ repairing' = "apply"
  /\ UNCHANGED <<bareRow, mesh, buriedBare, queue, blind, repairs, missed, made, raised,
                 repairFaults, repairChanges>>

-----------------------------------------------------------------------------
(* put_observation of a copy, of which PendingQueue has the detail. *)

Repairs(o, c) ==
  /\ repairing = "apply" /\ o \in repairs
  /\ c \in Copies(o) \ Born
  /\ repairs' = repairs \ {o}
  /\ made' = made \cup {c}

Indexed(ok, c) ==
  IF blind THEN UNCHANGED bareRow
  ELSE bareRow' = IF ok THEN Upserted(bareRow, c) ELSE bareRow

\* On the mesh, and in the index unless its write fails or it is disabled.
Lands(o, c, ok) ==
  /\ Repairs(o, c)
  /\ mesh' = mesh \cup {c}
  /\ Indexed(ok, c)
  /\ IF ok THEN UNCHANGED repairFaults ELSE RepairFault
  /\ UNCHANGED <<buriedBare, queue, repairing, blind, missed, raised, repairChanges>>

\* The put raises on both attempts: the copy is queued, and may be on the mesh.
Raises(o, c, taken) ==
  /\ Repairs(o, c)
  /\ RepairFault
  /\ queue' = queue \cup {c}
  /\ mesh' = IF taken THEN mesh \cup {c} ELSE mesh
  /\ raised' = raised \cup {c}
  /\ UNCHANGED <<bareRow, buriedBare, repairing, blind, missed, repairChanges>>

\* The preflight refuses: no trace, the next memory is tried.
Refused(o) ==
  /\ repairing = "apply" /\ o \in repairs
  /\ RepairFault
  /\ repairs' = repairs \ {o}
  /\ UNCHANGED <<bareRow, mesh, buriedBare, queue, repairing, blind, missed, made, raised,
                 repairChanges>>

\* The process stops.
RepairCrash ==
  /\ repairing = "apply"
  /\ RepairFault
  /\ repairing' = "idle" /\ repairs' = {}
  /\ UNCHANGED <<bareRow, mesh, buriedBare, queue, blind, missed, made, raised, repairChanges>>

-----------------------------------------------------------------------------
(* Other processes. *)

\* A drain, of this process after a save or of another one.
Drain(c) ==
  /\ c \in queue
  /\ queue' = queue \ {c}
  /\ mesh' = mesh \cup {c}
  /\ bareRow' = Upserted(bareRow, c)
  /\ UNCHANGED <<buriedBare, repairing, blind, repairs, missed, made, raised, repairFaults,
                 repairChanges>>

\* Someone saves a memory, perhaps one that supersedes a bare one.
SaveElsewhere(o) ==
  /\ RepairChange
  /\ o \notin Born /\ \A b \in Bare : o \notin Copies(b)
  /\ mesh' = mesh \cup {o}
  /\ bareRow' = Upserted(bareRow, o)
  /\ UNCHANGED <<buriedBare, queue, repairing, blind, repairs, missed, made, raised, repairFaults>>

BuryBare(o) ==
  /\ RepairChange
  /\ o \in mesh \ buriedBare
  /\ buriedBare' = buriedBare \cup {o}
  /\ bareRow' = Marked(bareRow, {o})
  /\ UNCHANGED <<mesh, queue, repairing, blind, repairs, missed, made, raised, repairFaults>>

BackfillInit ==
  /\ bareRow = [o \in Obs |-> None]
  /\ mesh = Bare
  /\ buriedBare = {} /\ queue = {}
  /\ repairing = "idle" /\ blind = FALSE /\ repairs = {}
  /\ missed = {} /\ made = {} /\ raised = {}
  /\ repairFaults = 0 /\ repairChanges = 0

BackfillNext ==
  \/ SearchIndex \/ \E S \in SUBSET mesh : SearchRebuilt(S) \/ SearchScanned(S)
  \/ End \/ Apply \/ RepairCrash
  \/ \E o \in repairs, c \in Obs :
       \/ \E b \in BOOLEAN : Lands(o, c, b) \/ Raises(o, c, b)
  \/ \E o \in repairs : Refused(o)
  \/ \E o \in Obs : Drain(o) \/ SaveElsewhere(o) \/ BuryBare(o)

BackfillSpec == BackfillInit /\ [][BackfillNext]_backfillVars

-----------------------------------------------------------------------------
(* Properties. *)

Replaced == UNION {Supersedes[q] : q \in Born}

\* "The repaired entries are not superseded a second time": of one memory there are
\* never two live copies, however many runs are interrupted and repeated, with or
\* without an index. Not counted are copies whose save raised, since the next run
\* does not know of a queued copy, copies that were missing from the index or the
\* scan a later run planned from, and copies that something has replaced: a memory
\* has one superseded_by, and when what it names is deleted, a search finds the
\* original again although a copy of it lives on behind its own superseder.
RepairedOnce ==
  \A o \in Bare :
    Cardinality((made \cap Copies(o)) \ (raised \cup missed \cup buriedBare \cup Replaced)) <= 1
=============================================================================
