---------------------------- MODULE PendingQueue ----------------------------
(***************************************************************************)
(* Saving through the queue of failed puts (memory/pending_queue.py, with  *)
(* put_observation and put_tombstone of memory/store.py and with_retry of  *)
(* core/transport.py).                                                     *)
(*                                                                         *)
(* A save asks the preflight whether a storage will hold its key, puts,    *)
(* clears the queue of the key, writes the index, and drains the queue     *)
(* while it is there.  A put that fails is queued and the save is tried a  *)
(* second time.  The queue is one SQLite file that the processes of a host *)
(* share; the single-flight lock of a drain holds within one process.      *)
(* Each statement on the file is a step, and so is each put.               *)
(***************************************************************************)
EXTENDS Naturals, SequencesExt, NoValue

CONSTANTS
  Key,         \* keys of observations and tombstones
  Repeatable,  \* those of tombstones, which may be put again
  Scoped,      \* keys of a scope that an operator may withdraw
  Process,     \* processes of the host
  Limit,       \* _PENDING_PUTS_LIMIT
  Batch,       \* _PENDING_DRAIN_BATCH
  MaxFaults    \* bound on faults

ASSUME PendingQueueAssumption ==
  /\ Repeatable \subseteq Key /\ Scoped \subseteq Key
  /\ Limit \in Nat \ {0} /\ Batch \in Nat \ {0} /\ MaxFaults \in Nat

\* A save in progress; with_retry gives it two attempts.  At "tail" it waits for
\* the drain at its end.
Saving == [key : Key, attempt : {1, 2},
           step : {"preflight", "put", "clear", "index", "drain", "tail"}]

\* A drain in progress: the rows it read and has not finished, where it is with
\* the first of them, and whether the session it took is still open.
Draining == [rows : Seq(Key), step : {"next", "put", "index", "clear"},
             open : BOOLEAN, bySave : BOOLEAN]

ASSUME NoneIsNothing == None \notin Saving /\ None \notin Draining

VARIABLES
  up,        \* the router answers
  blocked,   \* keys whose scope has no storage at present
  cached,    \* each process's cached session
  mesh,      \* keys stored on the mesh
  indexed,   \* keys mirrored into the index
  queue,     \* pending_puts, in the order of queued_at
  save,      \* the save each process has in progress
  drain,     \* the drain that holds each process's lock
  told,      \* what the last save of a key was told
  owed,      \* history: keys that were ever queued
  lost,      \* history: queued keys that were trimmed, or dropped as malformed
  faults     \* faults so far

vars == <<up, blocked, cached, mesh, indexed, queue, save, drain, told, owed, lost, faults>>
env == <<up, blocked>>
store == <<mesh, indexed>>
queueing == <<queue, owed, lost>>

\* key_expr is the primary key.
NoRowTwice == \A i, j \in 1..Len(queue) : queue[i] = queue[j] => i = j

TypeOK ==
  /\ up \in BOOLEAN
  /\ blocked \subseteq Scoped
  /\ cached \in [Process -> BOOLEAN]
  /\ mesh \subseteq Key /\ indexed \subseteq Key
  /\ queue \in Seq(Key) /\ Len(queue) <= Limit
  /\ NoRowTwice
  /\ save \in [Process -> Saving \cup {None}]
  /\ drain \in [Process -> Draining \cup {None}]
  /\ told \in [Key -> {"nothing", "stored", "failed", "refused"}]
  /\ owed \subseteq Key /\ lost \subseteq Key
  /\ faults \in 0..MaxFaults

Fault == faults < MaxFaults /\ faults' = faults + 1

(***************************************************************************)
(* The table.                                                              *)
(***************************************************************************)
PutRows == ToSet(queue)

\* _delete_pending_put
Without(q, k) ==
  IF \E i \in 1..Len(q) : q[i] = k
  THEN RemoveAt(q, CHOOSE i \in 1..Len(q) : q[i] = k)
  ELSE q

\* _trim_pending_puts_locked
Trimmed(q) == IF Len(q) <= Limit THEN q ELSE SubSeq(q, Len(q) - Limit + 1, Len(q))

\* _enqueue_pending_put: a key that is queued already becomes the newest.
Enqueued(q, k) == Trimmed(Append(Without(q, k), k))

Enqueue(k) ==
  /\ queue' = Enqueued(queue, k)
  /\ owed' = owed \cup {k}
  /\ lost' = (lost \ {k}) \cup (PutRows \ ToSet(queue'))

\* evaluate_write_key: with no answer from the router durability cannot be
\* confirmed.
Accepts(k) == up /\ k \notin blocked

(***************************************************************************)
(* put_observation and put_tombstone under with_retry.                     *)
(***************************************************************************)
At(p, step) == save[p] # None /\ save[p].step = step

GoTo(p, step) == save' = [save EXCEPT ![p].step = step]

\* The save returns or raises.
Answer(p, answer) ==
  /\ save' = [save EXCEPT ![p] = None]
  /\ told' = [told EXCEPT ![save[p].key] = answer]

RetryOrReturn(p) ==   \* mutant: the loop ends without raising the last error
  \/ /\ save[p].attempt = 1
     /\ save' = [save EXCEPT ![p].attempt = 2, ![p].step = "preflight"]
     /\ UNCHANGED told
  \/ save[p].attempt = 2 /\ Answer(p, "stored")

\* with_retry on a retryable error: try again once, then give up.
RetryOrFail(p) ==
  \/ /\ save[p].attempt = 1
     /\ save' = [save EXCEPT ![p].attempt = 2, ![p].step = "preflight"]
     /\ UNCHANGED told
  \/ save[p].attempt = 2 /\ Answer(p, "failed")

\* _reset_session closes the session under a drain that is using it.
ResetSession(p) ==
  /\ cached' = [cached EXCEPT ![p] = FALSE]
  /\ drain' = IF drain[p] = None THEN drain ELSE [drain EXCEPT ![p].open = FALSE]

Fresh(k) ==
  /\ told[k] = "nothing" /\ k \notin mesh \cup owed
  /\ \A p \in Process : save[p] # None => save[p].key # k

\* An observation has a key of its own; a tombstone may be put again.
BeginSave(p, k) ==
  /\ save[p] = None
  /\ k \in Repeatable \/ Fresh(k)
  /\ save' = [save EXCEPT ![p] = [key |-> k, attempt |-> 1, step |-> "preflight"]]
  /\ UNCHANGED <<env, cached, store, queueing, drain, told, faults>>

Preflight(p) ==
  /\ At(p, "preflight")
  /\ \/ Accepts(save[p].key) /\ GoTo(p, "put") /\ UNCHANGED told
     \/ ~Accepts(save[p].key) /\ Answer(p, "refused")
  /\ cached' = [cached EXCEPT ![p] = @ \/ up]
  /\ UNCHANGED <<env, store, queueing, drain, faults>>

SavePuts(p) ==
  /\ At(p, "put")
  /\ up
  /\ mesh' = mesh \cup {save[p].key}
  /\ cached' = [cached EXCEPT ![p] = TRUE]
  /\ GoTo(p, "clear")
  /\ UNCHANGED <<env, indexed, queueing, drain, told, faults>>

SavePutFailsIndexed(p) ==   \* mutant: the index is written although the put failed
  /\ At(p, "put")
  /\ IF up THEN Fault ELSE UNCHANGED faults
  /\ mesh' = mesh \/ (up /\ mesh' = mesh \cup {save[p].key})
  /\ indexed' = indexed \cup {save[p].key}
  /\ Enqueue(save[p].key)
  /\ ResetSession(p)
  /\ RetryOrFail(p)
  /\ UNCHANGED env

\* The put raises, for want of a router or after the mesh took it: the save is
\* queued, the session reset.
SavePutFails(p) ==
  /\ At(p, "put")
  /\ IF up THEN Fault ELSE UNCHANGED faults
  /\ mesh' = mesh \/ (up /\ mesh' = mesh \cup {save[p].key})
  /\ Enqueue(save[p].key)
  /\ ResetSession(p)
  /\ RetryOrFail(p)
  /\ UNCHANGED <<env, indexed>>

\* The put raises and the queue file cannot be written.
SavePutForgotten(p) ==
  /\ At(p, "put")
  /\ Fault
  /\ ResetSession(p)
  /\ RetryOrFail(p)
  /\ UNCHANGED <<env, store, queueing>>

SaveClears(p) ==
  /\ At(p, "clear")
  /\ \/ queue' = Without(queue, save[p].key) /\ UNCHANGED faults
     \/ Fault /\ UNCHANGED queue
  /\ GoTo(p, "index")
  /\ UNCHANGED <<env, cached, store, owed, lost, drain, told>>

SaveIndexes(p) ==
  /\ At(p, "index")
  /\ \/ indexed' = indexed \cup {save[p].key} /\ UNCHANGED faults
     \/ Fault /\ UNCHANGED indexed
  /\ GoTo(p, "drain")
  /\ UNCHANGED <<env, cached, mesh, queueing, drain, told>>

(***************************************************************************)
(* Draining.                                                               *)
(***************************************************************************)
FirstRows == SubSeq(queue, 1, IF Batch <= Len(queue) THEN Batch ELSE Len(queue))

\* get_session hands out the cached session without asking the router.
HasSession(p) == cached[p] \/ up

Acquire(p, bySave) ==
  /\ drain[p] = None /\ queue # <<>> /\ HasSession(p)
  /\ cached' = [cached EXCEPT ![p] = TRUE]
  /\ drain' = [drain EXCEPT ![p] =
       [rows |-> FirstRows, step |-> "next", open |-> TRUE, bySave |-> bySave]]

\* The background worker at start-up, the drain tool, the drain command.
StartDrain(p) ==
  /\ Acquire(p, FALSE)
  /\ UNCHANGED <<env, store, queueing, save, told, faults>>

\* drain_pending_puts(wait=False) at the end of a save: it drains, unless
\* another drain has the lock, there is nothing to do, or the file cannot be read.
SaveDrains(p) ==
  /\ At(p, "drain")
  /\ \/ /\ \/ (queue = <<>> \/ drain[p] # None) /\ UNCHANGED faults
           \/ queue # <<>> /\ drain[p] = None /\ Fault
        /\ Answer(p, "stored")
        /\ UNCHANGED <<cached, drain>>
     \/ Acquire(p, TRUE) /\ GoTo(p, "tail") /\ UNCHANGED <<told, faults>>
  /\ UNCHANGED <<env, store, queueing>>

\* The session was reset in the meantime and cannot be opened: the error is
\* retryable, and with_retry repeats the save that had succeeded.
SaveDrainRaises(p) ==
  /\ At(p, "drain")
  /\ queue # <<>> /\ drain[p] = None /\ ~HasSession(p)
  /\ RetryOrFail(p)
  /\ UNCHANGED <<env, cached, store, queueing, drain, faults>>

SaveReturns(p) ==
  /\ At(p, "tail")
  /\ drain[p] # None => ~drain[p].bySave
  /\ Answer(p, "stored")
  /\ UNCHANGED <<env, cached, store, queueing, drain, faults>>

DrainAt(p, step) == drain[p] # None /\ drain[p].step = step

PutRow(p) == Head(drain[p].rows)

NextRow(p) == drain' = [drain EXCEPT ![p].rows = Tail(@), ![p].step = "next"]

DrainPreflightDropping(p) ==   \* mutant: a refused row is deleted, not kept
  /\ DrainAt(p, "next") /\ drain[p].rows # <<>>
  /\ IF drain[p].open /\ Accepts(PutRow(p))
     THEN drain' = [drain EXCEPT ![p].step = "put"] /\ UNCHANGED queue
     ELSE NextRow(p) /\ queue' = Without(queue, PutRow(p))
  /\ UNCHANGED <<env, cached, store, owed, lost, save, told, faults>>

DrainPreflightStopping(p) ==   \* mutant: a refused row ends the drain
  /\ DrainAt(p, "next") /\ drain[p].rows # <<>>
  /\ drain' = IF drain[p].open /\ Accepts(PutRow(p))
              THEN [drain EXCEPT ![p].step = "put"]
              ELSE [drain EXCEPT ![p] = None]
  /\ UNCHANGED <<env, cached, store, queueing, save, told, faults>>

\* The preflight passes, or refuses the row: then it stays, and the drain goes
\* on.  A session that was closed cannot ask the router.
DrainPreflight(p) ==
  /\ DrainAt(p, "next") /\ drain[p].rows # <<>>
  /\ IF drain[p].open /\ Accepts(PutRow(p))
     THEN drain' = [drain EXCEPT ![p].step = "put"]
     ELSE NextRow(p)
  /\ UNCHANGED <<env, cached, store, queueing, save, told, faults>>

\* Any other error, a payload that does not parse: the row is dropped.
DrainDrops(p) ==
  /\ DrainAt(p, "next") /\ drain[p].rows # <<>>
  /\ Fault
  /\ queue' = Without(queue, PutRow(p))
  /\ lost' = lost \cup {PutRow(p)}
  /\ NextRow(p)
  /\ UNCHANGED <<env, cached, store, owed, save, told>>

DrainPuts(p) ==
  /\ DrainAt(p, "put")
  /\ up /\ drain[p].open
  /\ mesh' = mesh \cup {PutRow(p)}
  /\ drain' = [drain EXCEPT ![p].step = "index"]
  /\ UNCHANGED <<env, cached, indexed, queueing, save, told, faults>>

\* The put raises: reset the session, end the drain.
DrainPutFails(p) ==
  /\ DrainAt(p, "put")
  /\ IF up /\ drain[p].open THEN Fault ELSE UNCHANGED faults
  /\ mesh' = mesh \/ (up /\ drain[p].open /\ mesh' = mesh \cup {PutRow(p)})
  /\ cached' = [cached EXCEPT ![p] = FALSE]
  /\ drain' = [drain EXCEPT ![p] = None]
  /\ UNCHANGED <<env, indexed, queueing, save, told>>

DrainIndexes(p) ==
  /\ DrainAt(p, "index")
  /\ \/ indexed' = indexed \cup {PutRow(p)} /\ UNCHANGED faults
     \/ Fault /\ UNCHANGED indexed
  /\ drain' = [drain EXCEPT ![p].step = "clear"]
  /\ UNCHANGED <<env, cached, mesh, queueing, save, told>>

DrainClears(p) ==
  /\ DrainAt(p, "clear")
  /\ \/ queue' = Without(queue, PutRow(p)) /\ UNCHANGED faults
     \/ Fault /\ UNCHANGED queue
  /\ NextRow(p)
  /\ UNCHANGED <<env, cached, store, owed, lost, save, told>>

EndDrain(p) ==
  /\ DrainAt(p, "next") /\ drain[p].rows = <<>>
  /\ drain' = [drain EXCEPT ![p] = None]
  /\ UNCHANGED <<env, cached, store, queueing, save, told, faults>>

(***************************************************************************)
(* The environment.                                                        *)
(***************************************************************************)
RouterStops ==
  /\ up /\ Fault
  /\ up' = FALSE
  /\ UNCHANGED <<blocked, cached, store, queueing, save, drain, told>>

RouterStarts ==
  /\ ~up
  /\ up' = TRUE
  /\ UNCHANGED <<blocked, cached, store, queueing, save, drain, told, faults>>

\* An operator changes storage_scopes.
Reconfigure ==
  /\ Fault
  /\ blocked' \in SUBSET Scoped \ {blocked}
  /\ UNCHANGED <<up, cached, store, queueing, save, drain, told>>

Crash(p) ==
  /\ save[p] # None \/ drain[p] # None
  /\ Fault
  /\ save' = [save EXCEPT ![p] = None]
  /\ drain' = [drain EXCEPT ![p] = None]
  /\ cached' = [cached EXCEPT ![p] = FALSE]
  /\ UNCHANGED <<env, store, queueing, told>>

\* The file outlives the processes: rows of earlier ones may be queued.
Init ==
  /\ up \in BOOLEAN
  /\ blocked \in SUBSET Scoped
  /\ cached = [p \in Process |-> FALSE]
  /\ mesh = {} /\ indexed = {}
  /\ queue \in UNION {[1..n -> Key] : n \in 0..Limit}
  /\ NoRowTwice
  /\ save = [p \in Process |-> None]
  /\ drain = [p \in Process |-> None]
  /\ told = [k \in Key |-> "nothing"]
  /\ owed = PutRows /\ lost = {}
  /\ faults = 0

SaveStep(p) ==
  \/ Preflight(p) \/ SavePuts(p) \/ SavePutFails(p) \/ SavePutForgotten(p)
  \/ SaveClears(p) \/ SaveIndexes(p)
  \/ SaveDrains(p) \/ SaveDrainRaises(p) \/ SaveReturns(p)

DrainStep(p) ==
  \/ DrainPreflight(p) \/ DrainDrops(p) \/ DrainPuts(p) \/ DrainPutFails(p)
  \/ DrainIndexes(p) \/ DrainClears(p) \/ EndDrain(p)

Next ==
  \/ \E p \in Process, k \in Key : BeginSave(p, k)
  \/ \E p \in Process : SaveStep(p) \/ StartDrain(p) \/ DrainStep(p) \/ Crash(p)
  \/ RouterStops \/ RouterStarts \/ Reconfigure

Spec == Init /\ [][Next]_vars

\* A drain that started goes on; nothing is assumed of the saves, of the router
\* or of who starts a drain.
FairSpec == Spec /\ \A p \in Process : WF_vars(DrainStep(p))

(***************************************************************************)
(* Properties.                                                             *)
(***************************************************************************)
\* A save that returned is on the mesh ("a successful zenoh-side write is the
\* contract for callers", memory/store.py), also when it took two attempts, when
\* a drain of its own raised, and when another process replayed the same key.
StoredMeansMesh == \A k \in Key : told[k] = "stored" => k \in mesh

\* A save that was queued stays accounted for, whatever processes drain, save
\* and crash: it reached the mesh, or it is queued, or the queue gave it up, at
\* its limit or because the payload does not parse.
QueuedIsKept == owed \subseteq mesh \cup PutRows \cup lost

\* The index never shows what the mesh was not given: put_observation and the
\* drain write it after the put, although either may be interrupted or repeated.
IndexFollowsMesh == indexed \subseteq mesh

\* Drains keep coming: saves that succeed, the drain tool, start-ups.
DrainsKeepComing ==
  []<><<\E p \in Process : drain[p] = None /\ drain'[p] # None>>_vars

\* A row that a drain could replay.  As many rows as a drain reads, blocked by
\* the preflight and older, keep every other row waiting: they are read by every
\* drain, so the promise is made for fewer.
Overdue(k) ==
  /\ k \in PutRows /\ Accepts(k)
  /\ Cardinality(blocked \cap PutRows) < Batch

\* A queued save is replayed in the end, whatever the rows before it meet, if
\* drains keep coming and its scope has a storage.
ReplayedInTime == DrainsKeepComing => \A k \in Key : []<>~Overdue(k)

\* Claimed by preflight_write_key (core/scope.py): "a refused save leaves no
\* trace anywhere".
RefusedLeavesNoTrace ==
  \A k \in Key \ Repeatable : told[k] = "refused" => k \notin mesh \cup indexed \cup PutRows
=============================================================================
