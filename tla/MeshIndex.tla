------------------------------ MODULE MeshIndex ------------------------------
(***************************************************************************)
(* One host's SQLite index beside the Zenoh mesh (memory/store.py,         *)
(* memory/replication.py, memory/local_index.py, memory/realignment.py,    *)
(* memory/purge.py).  The mesh is the truth; four things bring it into the *)
(* index, each as its own transactions:                                    *)
(*   - the subscriber, which mirrors the samples published while it lives; *)
(*   - the second half of a local save, delete or purge;                   *)
(*   - scans: the rebuild (on opening the index, and before a gc), the     *)
(*     periodic repair (full, or tombstones only), the shadow sweep.  A    *)
(*     scan reads the observations, then the tombstones, then applies;     *)
(*     anything may happen in between;                                     *)
(*   - nothing else: what is lost while the subscriber is deaf stays lost  *)
(*     until a scan sees it.                                               *)
(* Samples of different publishers arrive in any order.                    *)
(***************************************************************************)
EXTENDS IndexTable

CONSTANTS
  Process,       \* what may scan at a time: the MCP server's worker, a CLI
  MaxFaults,     \* bound on transport and process faults
  Operations,    \* the scans and purges that take place (all, or fewer)
  Origins        \* who saves, deletes and purges: this host, its peers

ASSUME MeshIndexAssumption ==
  /\ MaxFaults \in Nat
  /\ Operations \subseteq {"rebuild", "full", "tombs", "sweep", "purge"}
  /\ Origins \subseteq {"host", "peer"}

Kind == {"obs_put", "tomb_put", "obs_del", "tomb_del"}
Sample == Kind \X Obs

\* A scan in progress.  `ids' are the rows a sweep is about; `unanswered'
\* notes that a storage answered a sweep with an error.
Scan == [kind : {"rebuild", "full", "tombs", "sweep"},
         next : {"obs", "tombs", "apply"},
         ids : SUBSET Obs, obs : SUBSET Obs, tombs : SUBSET Obs,
         unanswered : BOOLEAN]

ASSUME NoneIsNoScan == None \notin Scan

VARIABLES
  zObs,       \* observation keys stored on the mesh
  zTomb,      \* tombstone keys stored on the mesh
  dropping,   \* physical purges between their first and their last delete
  session,    \* this process's session: no subscriber may be bound to it
  flight,     \* samples published and not yet delivered here
  writes,     \* index halves of local operations, after their mesh half
  row, fts,   \* the index
  scan,       \* what each process scans
  faults,     \* faults so far
  born,       \* history: ids ever saved
  doomed,     \* history: ids ever tombstoned
  purged      \* history: ids ever purged, also by a purge that found no key

mesh == <<zObs, zTomb, dropping, born, doomed, purged>>
index == <<row, fts>>
vars == <<zObs, zTomb, dropping, session, flight, writes, row, fts, scan, faults,
          born, doomed, purged>>

TypeOK ==
  /\ zObs \subseteq Obs /\ zTomb \subseteq Obs /\ dropping \subseteq Obs
  /\ session \in {"down", "deaf", "listening"}
  /\ flight \subseteq Sample
  /\ writes \subseteq Sample
  /\ row \in Rows
  /\ fts \subseteq Obs
  /\ scan \in [Process -> Scan \cup {None}]
  /\ faults \in 0..MaxFaults
  /\ born \subseteq Obs /\ doomed \subseteq Obs /\ purged \subseteq Obs

\* A fault, of which there are at most MaxFaults.
Fault == faults < MaxFaults /\ faults' = faults + 1

(***************************************************************************)
(* The mesh: saves, deletes and purges, by a peer or by this host.  A put  *)
(* or a delete is published as it is stored; a local operation owes the    *)
(* index its own write, which need not wait for the echo.                  *)
(***************************************************************************)
Publish(samples) == flight' = IF session = "listening" THEN flight \cup samples ELSE flight

\* The index half of an operation is due only where the operation runs.
Owe(origin, s) ==
  /\ origin = "host" => session # "down"
  /\ writes' = IF origin = "host" THEN writes \cup {s} ELSE writes

\* put_observation; ids are fresh.
Save(o, origin) ==
  /\ o \notin born
  /\ Supersedes[o] \subseteq born
  /\ zObs' = zObs \cup {o}
  /\ born' = born \cup {o}
  /\ Publish({<<"obs_put", o>>})
  /\ Owe(origin, <<"obs_put", o>>)
  /\ UNCHANGED <<zTomb, dropping, session, index, scan, faults, doomed, purged>>

\* delete_memory: an observation found in the index, hidden or not, or else on
\* the mesh; put_tombstone.  It may be deleted again.
Delete(o, origin) ==
  /\ o \in born
  /\ origin = "host" => o \in zObs \/ (row[o] # None /\ row[o].known)
  /\ zTomb' = zTomb \cup {o}
  /\ doomed' = doomed \cup {o}
  /\ Publish({<<"tomb_put", o>>})
  /\ Owe(origin, <<"tomb_put", o>>)
  /\ UNCHANGED <<zObs, dropping, session, index, scan, faults, born, purged>>

\* The first delete of gc_expired_tombstones: the tombstone's key.
PurgeTombFirst(o) ==
  /\ "purge" \in Operations
  /\ o \in zTomb
  /\ zTomb' = zTomb \ {o}
  /\ dropping' = dropping \cup {o}
  /\ purged' = purged \cup {o}
  /\ Publish({<<"tomb_del", o>>})
  /\ UNCHANGED <<zObs, session, writes, index, scan, faults, born, doomed>>

\* The first delete of the project-scoped gc, of execute_bulk_purge and of
\* physical_delete_observation: the observation's key.  Only execute_bulk_purge
\* goes on with the index row.
PurgeObsFirst(o) ==
  /\ "purge" \in Operations
  /\ o \in zObs
  /\ zObs' = zObs \ {o}
  /\ dropping' = dropping \cup {o}
  /\ purged' = purged \cup {o}
  /\ Publish({<<"obs_del", o>>})
  /\ \/ UNCHANGED writes
     \/ "host" \in Origins /\ Owe("host", <<"obs_del", o>>)
  /\ UNCHANGED <<zTomb, session, index, scan, faults, born, doomed>>

\* The other delete, with every key _delete_all_keys_for_id still finds; the
\* purge ends with the index row.
PurgeRest(o, origin) ==
  /\ o \in dropping
  /\ zObs' = zObs \ {o}
  /\ zTomb' = zTomb \ {o}
  /\ dropping' = dropping \ {o}
  /\ Publish((IF o \in zObs THEN {<<"obs_del", o>>} ELSE {})
             \cup (IF o \in zTomb THEN {<<"tomb_del", o>>} ELSE {}))
  /\ Owe(origin, <<"obs_del", o>>)
  /\ UNCHANGED <<session, index, scan, faults, born, doomed, purged>>

\* gc --force-id when no key of the id was found: the index row goes all the
\* same.  That the mesh has the id and neither the query nor the broadcast
\* reached it is a fault.
ForcePurge(o) ==
  /\ "purge" \in Operations /\ "host" \in Origins
  /\ row[o] # None
  /\ IF o \in zObs \cup zTomb THEN Fault ELSE UNCHANGED faults
  /\ purged' = purged \cup {o}
  /\ Owe("host", <<"obs_del", o>>)
  /\ UNCHANGED <<zObs, zTomb, dropping, session, flight, index, scan, born, doomed>>

\* The transport fails between the two deletes.
PurgeFails(o) ==
  /\ o \in dropping
  /\ Fault
  /\ dropping' = dropping \ {o}
  /\ UNCHANGED <<zObs, zTomb, session, flight, writes, index, scan, born, doomed, purged>>

(***************************************************************************)
(* The session and its subscriber.                                         *)
(***************************************************************************)

\* get_session and _ensure_subscribers.  When the declaration fails the
\* session is used all the same.
OpenSession ==
  /\ session = "down"
  /\ \/ session' = "listening" /\ UNCHANGED faults
     \/ session' = "deaf" /\ Fault
  /\ UNCHANGED <<mesh, flight, writes, index, scan>>

\* _reset_session: the subscribers die with the session.
LoseSession ==
  /\ session # "down"
  /\ Fault
  /\ session' = "down"
  /\ flight' = {}
  /\ UNCHANGED <<mesh, writes, index, scan>>

\* Every process of the host stops; the index file stays.
Crash ==
  /\ Fault
  /\ session' = "down"
  /\ flight' = {}
  /\ writes' = {}
  /\ scan' = [p \in Process |-> None]
  /\ UNCHANGED <<mesh, index>>

(***************************************************************************)
(* Mirroring one put or delete into the index.                             *)
(***************************************************************************)
MirrorPut(o) == row' = Upserted(row, o) /\ fts' = fts \cup {o}

MirrorTomb(o) == row' = Marked(row, {o}) /\ fts' = fts \ {o}

MirrorDelete(o) == row' = Removed(row, o) /\ fts' = fts \ {o}

Mirror(s) ==
  \/ s[1] = "obs_put" /\ MirrorPut(s[2])
  \/ s[1] = "tomb_put" /\ MirrorTomb(s[2])
  \/ s[1] \in {"obs_del", "tomb_del"} /\ MirrorDelete(s[2])

\* on_obs and on_tomb.  SQLite errors are logged and the sample is gone.
Deliver(s) ==
  /\ s \in flight
  /\ flight' = flight \ {s}
  /\ \/ Mirror(s) /\ UNCHANGED faults
     \/ Fault /\ UNCHANGED index
  /\ UNCHANGED <<mesh, session, writes, scan>>

\* The tail of put_observation, put_tombstone and the purges.
WriteIndex(s) ==
  /\ s \in writes
  /\ writes' = writes \ {s}
  /\ \/ Mirror(s) /\ UNCHANGED faults
     \/ Fault /\ UNCHANGED index
  /\ UNCHANGED <<mesh, session, flight, scan>>

(***************************************************************************)
(* Scans.  A storage that does not answer in time is silently missing from *)
(* the replies; one that answers with an error makes the repair raise, and *)
(* is skipped by the rebuild and the sweep.                                *)
(***************************************************************************)

\* What one query of the keys in `stored' may return; less is a fault.
Replies(stored, seen) ==
  \/ seen = stored /\ UNCHANGED faults
  \/ seen \in SUBSET stored \ {stored} /\ Fault

StartScan(p, kind, next, ids) ==
  /\ kind \in Operations
  /\ scan[p] = None
  /\ session # "down"
  /\ scan' = [scan EXCEPT ![p] = [kind |-> kind, next |-> next, ids |-> ids, obs |-> {},
                                  tombs |-> {}, unanswered |-> FALSE]]
  /\ UNCHANGED <<mesh, session, flight, writes, index, faults>>

\* rebuild_from_zenoh
StartRebuild(p) == StartScan(p, "rebuild", "obs", {})

\* repair_from_zenoh, run by realignment._run_worker
StartFullRepair(p) == StartScan(p, "full", "obs", {})
StartTombRepair(p) == StartScan(p, "tombs", "tombs", {})

\* gc_expired_shadows: the shadowed rows past their retention, if any.
StartSweep(p) ==
  \E ids \in SUBSET {o \in Present(row) : row[o].shadowed} \ {{}} :
    StartScan(p, "sweep", "obs", ids)

\* The sweep queries observations only.
AfterObs(kind) == IF kind = "sweep" THEN "apply" ELSE "tombs"

ScanObs(p) ==
  /\ scan[p] # None /\ scan[p].next = "obs"
  /\ session # "down"
  /\ \E seen \in SUBSET zObs, err \in BOOLEAN :
       /\ Replies(zObs, seen)
       /\ err => seen # zObs /\ scan[p].kind = "sweep"
       /\ scan' = [scan EXCEPT ![p].next = AfterObs(scan[p].kind),
                               ![p].obs = seen, ![p].unanswered = err]
  /\ UNCHANGED <<mesh, session, flight, writes, index>>

ScanTombs(p) ==
  /\ scan[p] # None /\ scan[p].next = "tombs"
  /\ session # "down"
  /\ \E seen \in SUBSET zTomb :
       /\ Replies(zTomb, seen)
       /\ scan' = [scan EXCEPT ![p].next = "apply", ![p].tombs = seen]
  /\ UNCHANGED <<mesh, session, flight, writes, index>>

\* An error reply to a repair, a cancelled repair, a closed session, a failed
\* transaction: nothing is applied.
AbortScan(p) ==
  /\ scan[p] # None
  /\ Fault
  /\ scan' = [scan EXCEPT ![p] = None]
  /\ UNCHANGED <<mesh, session, flight, writes, index>>

EndScan(p) ==
  /\ scan[p].next = "apply"
  /\ scan' = [scan EXCEPT ![p] = None]
  /\ UNCHANGED <<mesh, session, flight, writes, faults>>

ApplyRebuild(p) ==
  /\ scan[p] # None /\ scan[p].kind = "rebuild"
  /\ EndScan(p)
  /\ LET S == scan[p].obs
         T == scan[p].tombs
     IN /\ \E by \in Winners(S) : row' = Rebuilt(row, S, T, by)
        /\ fts' = RebuiltFts(row, fts, S, T)

ApplyFullRepair(p) ==
  /\ scan[p] # None /\ scan[p].kind = "full"
  /\ EndScan(p)
  /\ LET S == scan[p].obs
         T == scan[p].tombs
     IN /\ \E by \in Winners(Changed(row, S)) : row' = Repaired(row, S, T, by)
        /\ fts' = RepairedFts(row, fts, S, T)

ApplyTombRepair(p) ==
  /\ scan[p] # None /\ scan[p].kind = "tombs"
  /\ EndScan(p)
  /\ row' = TombRepaired(row, scan[p].tombs)
  /\ fts' = fts \ KnownTombs(row, scan[p].tombs)

\* One row of the sweep: revived if the mesh has it, removed if not.
SweepRow(p) ==
  /\ scan[p] # None /\ scan[p].kind = "sweep" /\ scan[p].next = "apply"
  /\ \E o \in scan[p].ids :
       /\ IF o \in scan[p].obs THEN MirrorPut(o) ELSE MirrorDelete(o)
       /\ scan' = IF scan[p].ids = {o} THEN [scan EXCEPT ![p] = None]
                  ELSE [scan EXCEPT ![p].ids = @ \ {o}]
  /\ UNCHANGED <<mesh, session, flight, writes, faults>>

Init ==
  /\ zObs = {} /\ zTomb = {} /\ dropping = {}
  /\ session = "down"
  /\ flight = {} /\ writes = {}
  /\ row = [o \in Obs |-> None] /\ fts = {}
  /\ scan = [p \in Process |-> None]
  /\ faults = 0
  /\ born = {} /\ doomed = {} /\ purged = {}

MeshStep ==
  \/ \E o \in Obs, origin \in Origins : Save(o, origin)
  \/ \E o \in Obs, origin \in Origins : Delete(o, origin)
  \/ \E o \in Obs : PurgeTombFirst(o)
  \/ \E o \in Obs : PurgeObsFirst(o)
  \/ \E o \in Obs, origin \in Origins : PurgeRest(o, origin)
  \/ \E o \in Obs : ForcePurge(o)
  \/ \E o \in Obs : PurgeFails(o)

SessionStep == OpenSession \/ LoseSession \/ Crash

MirrorStep ==
  \/ \E s \in flight : Deliver(s)
  \/ \E s \in writes : WriteIndex(s)

ScanStep(p) ==
  \/ StartRebuild(p) \/ StartFullRepair(p) \/ StartTombRepair(p) \/ StartSweep(p)
  \/ ScanObs(p) \/ ScanTombs(p) \/ AbortScan(p)
  \/ ApplyRebuild(p) \/ ApplyFullRepair(p) \/ ApplyTombRepair(p) \/ SweepRow(p)

Next ==
  \/ MeshStep
  \/ SessionStep
  \/ MirrorStep
  \/ \E p \in Process : ScanStep(p)

Spec == Init /\ [][Next]_vars

(***************************************************************************)
(* What the code keeps running: a lost session is reopened by the next     *)
(* call that needs one, callbacks and local tails run, a scan that started *)
(* goes on, and _run_worker comes back to a full repair at the latest      *)
(* every six hours.  Nothing obliges a rebuild, a sweep or a gc to run.    *)
(***************************************************************************)
Fairness ==
  /\ WF_vars(OpenSession)
  /\ WF_vars(MirrorStep)
  /\ \A p \in Process :
       /\ WF_vars(ScanObs(p) \/ ScanTombs(p))
       /\ WF_vars(ApplyRebuild(p) \/ ApplyFullRepair(p) \/ ApplyTombRepair(p) \/ SweepRow(p))
       /\ SF_vars(StartFullRepair(p))

FairSpec == Spec /\ Fairness

-----------------------------------------------------------------------------
(***************************************************************************)
(* Properties.                                                             *)
(***************************************************************************)

\* Every live row is in the full-text table, whichever mixture of subscriber,
\* rebuild, repair and sweep produced it: a term search misses no live row.
FtsLockstep == Live(row) \subseteq fts

\* A placeholder (a tombstone whose observation was never seen) never becomes
\* a visible row without its payload.
PlaceholderHidden == \A o \in Present(row) : ~row[o].known => row[o].deleted

\* superseded_by names a row that exists and that says so itself, after any
\* order of arrivals, removals and scans.
PointersResolve ==
  \A o \in Present(row) : row[o].by # None =>
    row[o].by \in Present(row) /\ o \in Supersedes[row[o].by]

Lifecycle == INSTANCE RowLifecycle WITH state <- [o \in Obs |-> StateOf(row[o])]

\* Whatever happens on the mesh, each row moves only along the lifecycle: a
\* deleted memory is not shown again before its row is removed.
FollowsLifecycle == Lifecycle!Spec

\* ADR-0035: a repair hides a visible memory only on account of a tombstone it
\* saw, and never removes a row.
RepairNeverHides ==
  [][\A p \in Process :
       scan[p] # None /\ scan[p].kind \in {"full", "tombs"} /\ scan'[p] = None =>
         /\ Live(row) \ scan[p].tombs \subseteq Live(row')
         /\ Present(row) \subseteq Present(row')]_vars

\* A row is removed only after a purge of its id (which deleted a key on the mesh,
\* or was forced for that id), or by a shadow sweep of a row some rebuild had shadowed.
RemovedForCause ==
  [][\A o \in Present(row) \ Present(row') :
       o \in purged \/ \E p \in Process : scan[p] # None /\ o \in scan[p].ids]_vars

\* What the mesh holds and nobody deleted ends up visible, however it was
\* missed: the periodic full repair finds it.
SavesConverge ==
  \A o \in Obs : <>[](o \in zObs /\ o \notin doomed) => <>[](o \in Live(row))

\* What the mesh holds a tombstone of ends up hidden, however it was missed.
DeletesConverge ==
  \A o \in Obs : <>[](o \in zTomb) => <>[](o \notin Live(row))

\* replication.start_index_subscriber: the callbacks are idempotent, so their
\* overlap with the rebuild scan is safe.  A rebuild hides no memory the mesh
\* holds.
OverlapSafe ==
  [][\A p \in Process :
       scan[p] # None /\ scan[p].kind = "rebuild" /\ scan'[p] = None =>
         (Live(row) \cap zObs) \ scan[p].tombs \subseteq Live(row')]_vars

\* ADR-0021: whether a superseded memory is hidden is decided by existence, so
\* that it converges to the right state even when the order is swapped.
SupersededConverges ==
  \A s \in Obs : \A o \in Supersedes[s] :
    <>[](o \in Live(row) /\ s \in Live(row)) => <>[](o \notin Shown(row))

\* gc_expired_shadows: "never delete on transport ambiguity".
SweepNeedsAnswers ==
  [][\A p \in Process :
       scan[p] # None /\ scan[p].unanswered /\ scan'[p] # scan[p] =>
         scan[p].ids \cap Present(row) \subseteq Present(row')]_vars
=============================================================================
