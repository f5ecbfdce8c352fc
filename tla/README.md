# kioku-mesh: a formal model

kioku-mesh is a shared memory and mailbox for coding agents. Every host runs a
`zenohd` router with a RocksDB storage; together they form the mesh, which is
the truth. Every host also keeps SQLite files: an index of the memories, an
inbox of the messages, a queue of puts that failed. A host without a router keeps
its memories in a SQLite file of their own. This directory holds TLA+ models of
the parts whose correctness depends on order, failure and concurrency, the TLC
configurations that check them, and TLAPS proofs about them.

Paths below are relative to `src/src/kioku_mesh/` of the repository unless they
start with `docs/`.

## 1. The system

| Component | Code | State | Operations | Interacts with |
|---|---|---|---|---|
| Inbox database | `messaging/local_index.py`, `messaging/models.py` | `messages`, `acks`, `pending_acks`, `message_tombstones`, schema version | classify an arrival, record a local or remote ack, purge, migrate | polling, recovery, other processes through SQLite |
| Orphan-ack quarantine | `messaging/orphan_acks.py` | `legacy_unknown_acks`, `recovery_audit` | quarantine, recover (read half, write half), rollout status | the inbox database, an operator at a shell |
| Inbox polling | `mcp_server.py` (`check_messages`, `ack_message`), `messaging/zenoh_bridge.py`, `messaging/purge.py` | none of its own | scan the mesh, classify each reply, expunge, filter, purge | the mesh, the inbox database |
| Presence, spool, tmux | `messaging/presence.py`, `spool.py`, `tmux_adapter.py` | presence keys, spool files | advertise, write, inject | the mesh, the file system, tmux |
| Memory store | `memory/store.py` | the open index, the subscribers | save, delete, search, find | the mesh, the index, the queue |
| Supersede suggestion | `memory/supersede.py`, `mcp_server.py` (`save_observation`), `doctor.py` (`check_conflicting_latest`) | none | find what a new decision probably replaces; report decisions side by side | the index |
| Replication subscriber | `memory/replication.py` | none | mirror each put and delete sample into the index | the mesh (callbacks on its threads), the index |
| Index | `memory/local_index.py` | `obs_index`, `obs_fts`, `index_alignment_state` | upsert, mark, remove, rebuild, repair, search | all of the above |
| Realignment worker | `memory/realignment.py` | a thread, its stop event, its registration | full or tombstone repair on two timers | the index, the session |
| Purge and gc | `memory/purge.py`, `__main__.py` (`gc`, `gc-observations`) | none | delete keys, sweep tombstones, shadows, TTL | the mesh, the index, an operator who confirms |
| Pending-put queue | `memory/pending_queue.py` | `pending_puts` | enqueue, trim, drain, background worker | the mesh, the index, the write preflight |
| Local backend | `memory/backend.py`, `memory/local_raw_store.py` | `raw.db` and its own index | save, delete, copy an older index, reopen, rebuild | the index statements, other processes through the files |
| Session | `core/transport.py` | the Zenoh session, the lifecycle lock, transport status | open, reset, retry once, query | every component that uses the mesh |
| Scope, identity, keys | `core/scope.py`, `identity.py`, `keyspace.py`, `config.py` | configuration | format and match keys, refuse a write no storage holds | the write paths |
| Migrations | `memory/visibility_migration.py`, `scope_migration.py` | a plan, a backup, a checkpoint or manifest | copy, verify, delete; re-put, compare; purge what a withdrawn scope left | the mesh, the RocksDB directories, the index |
| Metadata repair | `__main__.py` (`backfill-metadata`) | none | save a copy with subject and summary that supersedes the original | the store |
| Bridge | `bridge/message_memory.py` | none | save a message as a memory | inbox, store |
| Command line, doctor, installers | `__main__.py`, `doctor.py`, `mcp_install.py`, `zenohd_install.py` | files | commands and reports | all components |

### What is hard, and what makes each part correct

* **Inbox.** Several processes share one SQLite file; some of them may still be
  a release that writes acks without checking for their message. A *bare ack* (an
  `acks` row without its message) would silently mark a message read that nobody
  saw. The inbox is correct when an ack counts only for the message it was given
  for, an id that was retired is never reused unnoticed, an operator's decision
  applies to the row the operator saw, and no ack time is ever lost.
* **Polling.** A poll is a dozen calls, each of which may fail while publishers
  publish and others purge; it deletes keys from the mesh. It is correct when it
  deletes only what the index knows, an arrival never vanishes without a trace,
  and what was read or retired does not come back as new mail.
* **Index.** Samples arrive on callback threads in any order, a local write has
  two halves with a crash possible between them, scans take up to a minute during
  which everything goes on, and a storage that does not answer in time is
  silently missing. The index is correct when a deleted memory is not shown
  again, absence from a partial scan hides nothing (repair), what was missed
  arrives in the end, the full-text table finds every live row, and
  `superseded_by` never names something that is not there.
* **Purge and gc.** Two keys of one memory are deleted one after the other; in
  between, a scan sees half of it. An operator confirms a list, and the clock and
  everybody else move on before the sweep acts on it.
* **Pending queue.** A put is replayed later than it was made, by whichever
  process drains; rows the preflight refuses stay, and the queue has a limit.
* **Suggestion.** A memory is never rewritten, so two decisions on one topic stand
  side by side unless somebody is told; the hint is one query after the save,
  among saves of other processes.
* **Session.** Declaring the subscriber opens the index, which may rebuild, which
  may reset the session on the same thread; another thread may reset it at any
  time, and the shutdown closes it under whoever is using it.
* **Local backend.** Every write is two databases, one after the other, shared by
  the processes of the host, and the second is best effort.
* **Operator's tools.** Each runs over many calls, any of which may raise, be lost
  or take effect although it raised, and each may be stopped and started again.
  They are correct when nothing is deleted that was not first copied and read
  back, exit code 0 or OK means what it says, and a repeated run neither loses nor
  repeats more than it says.

The hazards are listed one by one, at their lines, in `PROJECT.json`.

## 2. The modules

| Module | Models | Form |
|---|---|---|
| `MessageInbox` | inbox database with its quarantine | state machine |
| `InboxPoll` | `check_messages`, `ack_message`, the mesh sweep, over `MessageInbox` | state machine that extends it |
| `IndexTable` | the SQL statements of the index, as operators on its contents | operators shared by every index |
| `RowLifecycle` | the abstract specification of one row: absent, live, shadowed, tombstoned | specification |
| `MeshIndex` | the index beside the mesh: subscriber, local writes, scans, purge | state machine over `IndexTable`, implements `RowLifecycle` |
| `LocalBackend` | `raw.db` and the index of a host without a router | state machine over `IndexTable`, implements `RowLifecycle` |
| `PendingQueue` | a save with its preflight, its retry and its drain, and the queue the processes of a host share | state machine |
| `SupersedeHint` | the save of a decision and the answer to its caller | state machine over `IndexTable` |
| `SessionLifecycle` | the threads of a server over the session, the subscribers and the worker | state machine |
| `Search` | what a search answers, from the index or by a scan | operators over `IndexTable` |
| `Curation` | bulk `delete` and `gc-observations` | state machine over `Search` |
| `VisibilityMigration`, `ScopeMigration` | `migrate-visibility`, `scope-migrate` | state machines |
| `ScopePurge`, `Backfill` | `scope-purge`, `backfill-metadata` | state machines over `IndexTable` |
| `MessageInbox_proofs`, `IndexTable_proofs`, `MeshIndex_proofs`, `LocalBackend_proofs` | theorems about the module of that name | TLAPS |
| `Server_proofs` | theorems about `InboxPoll` and `SessionLifecycle` | TLAPS |
| `Saves_proofs` | theorems about `PendingQueue` and `SupersedeHint` | TLAPS |
| `Migrations_proofs` | theorems about `VisibilityMigration` and `ScopeMigration` | TLAPS |
| `Commands_proofs` | theorems about `ScopePurge`, `Backfill`, `Curation` and `Search` | TLAPS |
| `MCRecords`, `MCServer`, `MCSaves`, `MCBackends`, `MCTools` | the instances of the passing runs | |
| `MCMessageInbox`, `MCMeshIndex`, `MCPendingQueue` | the instances of the violation runs | |

An MC module of a passing run holds several components that share no state (two
databases, two backends of which a process has one, tools of which one finishes
before the next begins). One behaviour then exercises one of them: a variable
(`file`, `part`, `backend`, `tool`) says which, chosen at the start, and the
variables of the others keep one value. Their product would multiply the states
and could violate nothing that neither violates alone. Components that *do* share
state are composed: `InboxPoll` extends `MessageInbox`, and every step of a poll
that touches the inbox is an action of the inbox.

### `MessageInbox`

Each table is a function from the pair `(msg_id, recipient_session_id)`, the key
of all of them: `live` (`messages`), `isAcked` (`messages.is_acked`), `acks`,
`pending` (`pending_acks`), `tomb` (`message_tombstones`), `legacy`
(`legacy_unknown_acks`). `audit` keeps the ack times that the before images of
`recovery_audit` hold. An envelope stands for the `created_at` and `expires_at`
a sender put on a message; `Deadline` is what `is_expired` computes from it
(`expires_at` or `ttl_sec`) and `Expiry` what the purge reads (`expires_at`
alone): the two differ in the code, so they are two constants.

Each `BEGIN IMMEDIATE` transaction is one action, because SQLite makes it one:
`Arrive` (`register_or_classify`; its disjuncts are the verdicts of
`_classify_locked`, in the code's order), `RecordAck`, `RecordRemoteAck`,
`PurgeExpired`, `Migrate`. A transaction that raises rolls back and is a
stuttering step. `orphan_acks.recover` is *not* one transaction: it reads on a
read-only connection, takes a backup, then writes under the lock. So it is two
actions, `RecoverRead` and `RecoverWrite`, per operator, with `RecoverAbandon`
for a dry run, a failed backup or a refusal.

The environment has two actions: `Tick`, and `OldBinaryLeavesBareAck`, the one
thing the docs say an old release may still do to the shared file.
`confirmed` and `oldBare` are history variables: which pairs somebody really
acknowledged, and which pairs the old binary touched.

### `InboxPoll`

A poll asks its selectors one after the other (`Ask`: any subset of what the mesh
holds may answer, and a selector may fail half-way), then takes up the replies in
any order: `Undecodable`, `SeenBefore`, `Classify` (one `Arrive` of the inbox),
`ClassifyFails`. `Expunge` is the delete of the key of an expired or retired
arrival, which happens after the classification and may fail. `PollPurge` is the
purge the poll runs (`PurgeExpired`), `PollReport` the filters, the sort, the page
and its `truncated`. Between any two steps come `Publish`, `AckMessage`, the
clock, and a sweep of `purge_expired_msgs` that lists keys and deletes them one by
one. `judged` is the list of messages and diagnostics of the running poll; `read`,
`readBefore` and `retiredBefore` are history. The databases of these behaviours
are current and have nothing quarantined or parked: quarantine under arrivals is
the subject of `MessageInbox` itself.

### `IndexTable`, `RowLifecycle`, `MeshIndex`

A row keeps whether its payload is there (`known`; a placeholder for an orphan
tombstone has none), `deleted_at` and `shadowed_at` as booleans, and
`superseded_by`. Observations are immutable and ids fresh, so a payload needs no
value. `fts` is the set of ids with an `obs_fts` row; the model is of the build
with FTS5, the LIKE fallback has no second table.

`IndexTable` has one operator per statement (`Inserted` for `_UPSERT_SQL`,
`Marked` for `_MARK_DELETED_SQL`, `Hidden` for `_MARK_SHADOWED_SQL`, ...) and
composes them as the code does (`Upserted`, `Rebuilt`, `Repaired`,
`TombRepaired`). `Top` and `Listed` are `ORDER BY` and `LIMIT`: the first few of a set
in an order, as a set and as a sequence. The order in which a scan returns observations is unknown, and
the last `UPDATE` of `superseded_by` wins: `Winners` is the set of outcomes.

`MeshIndex` has the mesh (`zObs`, `zTomb`), the samples in `flight`, the index
halves of local operations that are still due (`writes`), and per process one
scan with its position: after `ScanObs`, after `ScanTombs`, before its apply.
`Deliver` is the subscriber callback, `WriteIndex` the tail of
`put_observation`, `put_tombstone` and the purges. Faults are counted: a storage
missing from the replies, a failed SQLite write, a lost session, a deaf
subscriber, an aborted scan, a purge that fails half-way or, forced for an
id (`ForcePurge`), finds no key the mesh has, a crash of every process of the host.
A crash loses the flight, the writes and the scans, and keeps the index.

### `LocalBackend`

`obs`, `tomb` and `migrated` are `raw.db`, `made`, `row` and `fts` are `index.db`;
a step is one transaction of one of them. Opening a backend is seven steps at
most: copy an older index into `raw.db` (`OpenReads`, `Copy`, or `OpenBlind` and
`CopyFails`, which are logged and go on), connect to the index, read `raw.db` in
two scans, apply the rebuild. Save, delete and physical delete write `raw.db`
first and the index second, and the second may fail. Each process does one thing
at a time; all processes share the files. `saved`, `purged` and `stranded` are
history; `stranded` are rows of the older index whose copy failed.

### `PendingQueue`

A key is one row of `pending_puts` (its primary key) and one value on the mesh;
the payload is not modelled, so two tombstones of one memory are the same put.
`queue` is the table in the order of `queued_at`, which has microseconds. A save
is a record that says where `put_observation` (or `put_tombstone`) is: the
preflight, the put, the deletion of its row, the index, the drain; `with_retry`
gives it two attempts, and anything retryable that is raised on the way, the
drain included, starts the second. A drain holds the rows it read, the session it
took, and its place in the loop. One process has one save and, by the
single-flight lock, one drain; two processes are not excluded from each other.

`cached` is the session `get_session` hands out without asking the router. A put
that raises closes it, under a drain that may be using it (`ResetSession`).
Faults are counted: a put that raises although the mesh took it, a queue file or
an index that cannot be written, a payload that does not parse, a router that
stops, a change of `storage_scopes`, a crash. Assumed of Zenoh: a put raises when
the router does not answer. `owed` and `lost` are history variables: keys that
were queued, and keys the queue gave up.

### `SupersedeHint`

The save of a decision, from its put (`Store`, `StoreFails`) over its index write
(`Index`) to its answer (`HintAnswer`, the query of `find_candidates_in_index`, newest
first and with its limit), by several processes of one host, among samples of a peer (`PeerSaves`,
`Mirror`), drains, tombstones, rebuilds and crashes. `Topic` is what two decisions
must share (project, type, normalized subject, scope), `Conflicts` the groups that
`check_conflicting_latest` reports. `hint` records each answer and `steady` the
memories that were in the index and visible ever since their save.

### `SessionLifecycle`

Threads: `main` (tools, then the shutdown), `drain` (the pending drain), and the
realignment workers. What runs under the reentrant lifecycle lock is one step, so
`OpenSession` includes the hook that declares the subscribers and `Reset` the hook
that drops them; the opening of an index is several steps (`LookUp`, `Connect`, a
session, `Subscribe`, `StartWorker`, `Launch`), because `get_index` holds no lock
over them. Sessions are numbered; `sub` has what the code caches (`cached`,
`bound`) and `live`, how many subscriber sets the current session really has. A
worker waits, wakes, gets a session, scans, ends and clears its registration
(`Unregister`); the shutdown stops the drain, disables realignment, asks the
registered worker to stop, waits for it (or gives up) and closes the session.

### `Search` and `Curation`

`Search` has the visibility filters, the three match modes with the split between
full-text and LIKE terms, the ranking with its tie-breaks, the page cursor, and the
scan that answers when the index is disabled. Text is abstract: a term is in a
memory or not, and bm25 is any number. A page is a set (`Found`, `ScanFound`), whose
order is the ranking; what `and_or` answers is a sequence (`AndOr`, `ScanAndOr`), since
its two passes are ranked apart. `WideLimit` is how far its second pass may reach.

`Curation` has two commands. The bulk `delete` reads a page, deletes its rows one
by one and moves its cursor (`FetchPage`, `DeleteNext`). `gc-observations` lists
three buckets, asks, and then buries what lapsed, purges tombstones and reaps
shadows, of the listed ids only. `Save`, `DeletedElsewhere`, `Missed`, `SeenAgain`
and `ClockTicks` are everybody else.

### `VisibilityMigration`, `ScopeMigration`, `ScopePurge`, `Backfill`

`VisibilityMigration` follows one batch through backup, put, verify, delete and
repair. `chk` is the checkpoint in memory, `disk` the one in the file, which is
replaced after every phase (`Flush`); a call may raise, be lost, or take effect
although it raised; a crash leaves what is on disk and perhaps a torn backup file;
`Start` is the operator, with or without `--resume`.

`ScopeMigration` has, per peer, the broad and the mesh storage and which of them
the peer serves (`final`); the manifest built from whatever answered, the re-put
with a checkpoint bound to it, the verify, and restarts of peers at any time.

`ScopePurge` plans from the configuration, the storages zenohd serves and the
index, asks, and acts on the plan while any of the three changes; `Room` is how
often a directory can be set aside before its name is no scope's name any more.
`read` and `known` note whether `_undeclared_rows` could read index.db and
`_served_dirs` the admin space: a plan without either goes on with what it has, and
a plan with neither rows nor directories ends the command as "nothing to purge".
`Backfill` runs over the index, a rebuilt one or a scan, saves copies through a put
that may raise, and may be stopped between two copies.

## 3. The runs

| Run | Module, cfg | Shows | Distinct states |
|---|---|---|---|
| `records` | `MCRecords`, `Records.cfg` | inbox: genuine acks, retired ids, operators' decisions, evidence; index: lifecycle, causes, convergence | 0.49 million |
| `server` | `MCServer`, `Server.cfg` | polls: nothing vanishes or comes back; threads: subscribers tracked, shutdown after the worker | 1.1 million |
| `pending` | `MCSaves`, `Saves.cfg` | saves: stored, queued, replayed; decisions: one caller is told | 0.77 million |
| `backends` | `MCBackends`, `Backends.cfg` | local backend: nothing lost, an open aligns, lifecycle; mesh index: pointers resolve | 1.3 million |
| `tools` | `MCTools`, `Tools.cfg` | migrations, clean-up, scope purge, backfill, curation, search | 0.85 million |
| `inbox_rollout` | `MCMessageInbox` | **violated**: a pair quarantined twice keeps its `migration` provenance, so the rollout status misses the old writer | |
| `index_overlap` | `MCMeshIndex` | **violated**: the rebuild shadows a memory saved during its scan | |
| `index_order` | `MCMeshIndex` | **violated**: superseding memory first, `superseded_by` is never written | |
| `index_sweep` | `MCMeshIndex` | **violated**: an error reply is taken for absence | |
| `pending_refused` | `MCPendingQueue` | **violated**: a save refused on its second attempt is in the queue | |
| `session_deaf` | `SessionLifecycle` | **violated**: one failing put while another thread opens the index leaves the new session without subscribers | |
| `purge_served` | `MCTools`, `Tools_purge.cfg` | **violated**: the admin space does not answer in time and the directory of a live storage is set aside | |

Each of the seven violated runs is a disagreement between the code and a sentence
of its docs or comments; `findings` in `PROJECT.json` quotes the sentence. None
of the passing properties is weakened because of them: `RepairNeverHides` is
about repairs, for which the claim holds; convergence is claimed for visibility,
not for `superseded_by`; `SubscribersTracked` says that no set leaks, which holds
in the deaf session too; `PurgeSettles` is about what a purge leaves behind, and
excepts by name what the plan could not read.

### Properties

Inbox (`records`): `AckAnchored` (no path of the current code leaves a bare ack),
`FlagMatchesAck` (the two records of an acknowledgement agree),
`OnlyGenuineAcks`, `RetiredBehindQuarantine`, `PromotionSticks`,
`DecisionsOnTheRowSeen`, `EvidenceKept`. Note what
`RetiredBehindQuarantine` does *not* say: an id retired earlier can carry a
message again while an unmatched ack is quarantined on its pair, because
`_classify_locked` looks at the quarantine before it looks at the tombstones.

Index (`records`, `backends`): `FollowsLifecycle` (refinement of `RowLifecycle`: in
particular, a tombstoned memory never becomes live again before its row is
removed), `RepairNeverHides` (ADR-0035), `RemovedForCause`, `SavesConverge`,
`DeletesConverge`, `PointersResolve`.

Polls (`server`): `PollDeletesKnown` (a poll deletes a key only for an id the index
has), `ArrivalsAccountedFor` (each arrival of a finished poll is listed, diagnosed,
cut from a page that says so, or filtered for a reason), `AckedStaysRead`,
`RetiredNotDelivered`. Threads: `SubscribersTracked`, `CloseAfterWorker`. The last
excepts two threads that open the index at the same time: both may start a worker,
of which the shutdown waits for one.

Saves (`pending`): `StoredMeansMesh` ("a successful zenoh-side write is the contract
for callers", `memory/store.py`), `QueuedIsKept`, `IndexFollowsMesh`,
`ReplayedInTime`. Decisions: `OneIsTold` (of two decisions saved on this host that
the doctor would report side by side, one caller was told of the other), with its
exceptions named: a failed index write or query, a memory that was hidden in
between, an explicit supersedes, a hint that is full.

Local backend (`backends`): `NothingLost`, `OpenAligns`, `LocalFollowsLifecycle`.

Tools (`tools`): `VerifiedBeforeDeleted`, `ConflictsKept`, `ExitZeroMeansMoved`,
`Arrival` (migrate-visibility); `VerifiedMeansMoved`, `RedoesAtMostOneBatch`
(scope-migrate); `WalkReachesAll` (delete); `GoneWasShown`, `SweepShowsSame`
(gc-observations); `NothingVanishes`, `StrictHitsFirst` (search); `PurgeSettles`
(scope-purge); `RepairedOnce` (backfill-metadata). Two of them except a failed read
by name, because the code goes on without it (section 5): `ConflictsKept` a target
whose read failed (`misread`), `PurgeSettles` the rows of an index.db that could not
be read (`read`) and the directories when the admin space raised (`known`).

Every property of a passing run has a mutant: a definition changed the way a
plausible bug would change it, under which TLC finds the property violated.

### Bounds and why they are enough

* **Inbox**: no transaction reads or writes two pairs except `PurgeExpired` and
  `Migrate`, which treat each pair on its own; one pair sees every interleaving.
  Two envelopes are needed for a reused id, two ack times for conflicting
  evidence, two operators for the race on a row. One envelope expires by
  `expires_at`, the other by `ttl_sec` only. The initial states are those of
  a fresh database and of one that schema v1, v2 or v3 may have left: acks bare or
  under their message, parked acks, tombstones with or without their envelope,
  quarantined rows in each of their states. `MaxRevision` bounds how often an operator may
  rewrite a row and `MaxTime` the clock; both deadlines lie inside.
* **Polls**: two ids in two places, one message with and one without a deadline, at
  most two messages published, a page of one: enough for an id that arrives twice
  in one poll, or again after it was purged, and for a page that is cut.
* **Threads**: two sessions let a session be replaced under a thread that still has
  the first; two workers, because one may end while the other starts; two
  faults.
* **Mesh index**: one memory with every operation and two faults (`records`), where a
  memory is physically deleted only in behaviours with at most one fault
  (`PurgeBound`); two memories, of which one supersedes the other, with rebuild and
  purge but without faults and with at most two samples in flight (`backends`), because rows touch
  each other only through `superseded_by` and the drift guard's count. Ids are
  fresh (UUIDs), so a memory is saved once. One process scans: concurrent scans of
  several processes are covered by the proofs, which leaves the two convergence
  properties checked for one process only.
* **Local backend**: two memories, two processes, one fault, from every index an older
  release may have left: a second fault is the same best-effort write or copy failing
  once more, and the proofs have no bound on faults.
* **Queue**: a queue of two rows over three keys, drains of two, so that the limit
  and the drain's cap both bind and a blocked row may stand before another. One
  process; several share a queue in the proofs, which cover every safety property
  of the queue. The initial states hold every queue earlier processes may have
  left, with a router that is up and every scope served (both change later), so two
  faults are enough to block and to queue. The drain's
  limit is the default; an explicit one only moves the cap.
* **Decisions**: three on one topic by two processes, the third superseding the
  first, a hint of one, and two events of which at most one is a failure and the rest
  steps of others (a peer's save, a tombstone, a rebuild).
* **Tools**: migrations with three items in batches of two, or two keys in batches
  of one over two peers, through two faults (one counts per call, missing answer or
  crash) and any number of restarts; clean-up with four memories of which two share
  a timestamp, one is replaced, one lapses and one does not parse, pages of two, answers
  of one to three; scope purge with two scopes; both with two failures or steps of others, at
  most one of them a failure (`CleanBound`, `PurgeBound` of `MCTools`); backfill with one
  incomplete memory and its possible copies, two failures and two steps of others.

### Fairness, and why the code justifies it

`Fairness` of `MeshIndex` assumes: a lost session is reopened (every call goes
through `get_session`, and the worker calls it at least every interval),
callbacks and local tails run to their end, a scan that started goes on and is
applied, and the worker comes back to a full repair again and again
(`_run_worker`: at the latest after six hours, sooner while `full_repair_due`).
The last is strong fairness because the session may come and go in between.
Nothing is assumed of the rebuild, of the sweep or of any gc: those run when
somebody starts them. Faults are finite (`MaxFaults`), which says that in the end
the mesh answers; no convergence is possible without it.

Of `PendingQueue` only that a drain that started goes on: its
loop has no wait but the put, which returns or raises. Who starts drains is
somebody else's doing (a save that succeeds, the tool, a start-up), and the
background worker pauses after a drain that replayed nothing, so `ReplayedInTime`
has "drains keep coming" as its hypothesis and not as an assumption. It is also
stated for fewer blocked rows than a drain reads: ten blocked rows at the head of
the queue are read by every drain, and everything behind them waits.

Of `VisibilityMigration` that a command that was started goes on (weak, its loop
waits for nothing but calls that return or raise), and that an operator who keeps
seeing it fail in the end starts it over without `--resume` (strong, since a command
may be running). The second is an assumption about a person; without it `Arrival`
does not hold: a PUT that returned and was lost is recorded as done, no resumed run
repeats it, and each of them fails its verification.

## 4. What is proved

TLAPS checks every proof to its leaves, for all values of the constants under
the named assumptions of the modules (`ConstantsAssumption`, `PollAssumption`,
`IndexTableAssumption`, `NoneIsNoRow`, `MeshIndexAssumption`, `NoneIsNoScan`,
`NoCycle`, `LocalBound`, `PendingQueueAssumption`, `NoneIsNothing`, `HintAssumption`,
`SessionAssumption`, `ItemAssumption`, `BoundAssumption`, `CutoverAssumption`,
`PeersCounted`, `AbsentIsNone`, `ScopePurgeAssumption`, `BackfillAssumption`,
`SearchAssumption`, `CurationAssumption`): that the special values are distinct from
data, that memories do not supersede each other in a circle (a memory names ids that
exist when it is saved), that workers are no callers, that memories, items, keys and
peers are finitely many where they are counted or sorted, that scope-migrate is told how
many peers there are, and that the bounds are numbers. TLC evaluates the same assumptions
in the runs.

**Inbox.** `InboxInvariant` is the inductive invariant `IInv`: `InboxTypeOK`,
`AckAnchored`, `FlagMatchesAck`, `OnlyGenuineAcks`, `RetiredBehindQuarantine`,
`PromotionSticks` and one strengthening, `ParkedIsGenuine` (a parked ack of an id
that was never retired is a genuine one), without which promoting an ack that
came first could read a message nobody acknowledged. The rest is not inductive
one by one either: the tables constrain one another, `OnlyGenuineAcks` needs
`FlagMatchesAck`, `PromotionSticks` needs the purge to write the tombstone in the
transaction that removes the promoted ack. A recover call between its halves
contributes only its type: the write half checks everything it relies on again
under the lock, and that is why the proof goes through. From the invariant follow
the five state properties. Three action properties come with it: `TombstonesStay`
(proved only, no run checks it), `DecisionsFollowReading`, and `EvidenceIsKept`,
for which each action is shown to move an ack time from one table to another and
never to drop it.

**Polls.** `PInv` of `Server_proofs` is the inbox's `IInv`, the types,
`InboxPlain` (these databases have nothing quarantined), `ReadRemembered` and
`AckedIsRead` (what is read is what was acknowledged), and `PollSound`: each id is
judged once; each judgement tells the truth about its id (`JudgedRight`: whatever
was classified is remembered, and what was read or retired before the poll is
judged so); and the key that is about to be deleted belongs to an id the index has.
What makes it inductive is that knowledge grows (`KnowledgeGrows`): a purge by
another process turns a live id into a retired one and never into an unknown one.
The theorems are the four properties of the run.

**Index.** `IndexTable_proofs` states `Sound(row, fts)`: types, placeholders
hidden, full-text lockstep and resolving pointers together. A lemma per
statement says how it changes a row, and a lemma per batch (`UpsertedSound`,
`MarkedSound`, `RemovedSound`, `RepairedSound`, `RebuiltSound`) that it preserves
`Sound` and that a row only `Grows`: it stays, a deletion stays, and it does not
start as a shadow. The batches are proved for an arbitrary scan result, so a
partial or stale one is covered: soundness of the table does not depend on what
the mesh answered. `WinnersSupersede` is the one fact about the order of the
updates: whoever wins says itself that it supersedes.

`MeshIndex_proofs` adds what ties the index to the protocol,
`DeletesArePurges`: a delete sample in flight, or owed by a local purge, is of an
id that was purged (its keys deleted on the mesh, or none found by a purge that was
forced for it). `IndexStep` says what any step may do to
the index: keep it sound, and let each row grow or be removed for a cause. Each
action is shown to be such a step, so that the invariant, the refinement
(`IndexImplementsLifecycle`), `RemovalsHaveACause` and `RepairsNeverHide` are
proved once and not once per action. `LockstepKept` and `PlaceholdersHidden` are
stated here only; the runs leave them to the proof.

**Local backend.** The same lemmas of `IndexTable_proofs` carry `LocalBackend_proofs`.
Its invariant adds what holds between the two databases: `CopyPending` (while a
saved memory is in neither table of `raw.db`, no process is past its copy, and each
copy under way will take it), `PurgesInOrder` (a tombstone goes only after its
observation), `DeletedInRaw` (the index knows no deletion that `raw.db` does not
know), and `FtsCovers` (the full-text table has every live row once a process has
opened the index). `NothingLost` is `CopyPending` read backwards; `OpenAligns` needs
`DeletedInRaw`, since a row the index alone held as deleted would stay hidden after
a rebuild; the refinement of `RowLifecycle` needs `Sound`.

**Queue.** `Saves_proofs` first says what the statements on the table do
(`WithoutFacts`, `TrimmedFacts`, `EnqueuedFacts`: a deletion removes one key and
keeps the rest, an insert is within the limit and keeps the row it inserted, no
key twice). The invariant `IInv` adds `PastPut` to the three safety properties: a
save or a drain that is past its put has its key on the mesh, and a drain in the
middle of a row has a row. Without it the deletion of a row could not be
justified. Types and account are kept by separate lemmas, one case per action.
From it follow `TypeCorrect`, `StoredIsOnMesh`, `NothingQueuedIsLost` and
`IndexBehindMesh`, for any number of keys and processes, any limit and any batch.

**Threads.** `Server_proofs` has two halves for the threads. `SubscriberInv` is the types,
`SubscribersTracked` and `SubscribesOnOne` (a thread about to declare has a session,
perhaps a closed one); its lemmas say what each helper does to tracked subscribers.
`WorkerInv` is `StagesApart`, `OneWorker` (while the index has been opened only once,
at most one caller starts a worker, it finds none, and a worker that is not at rest
is the registered one) and `ShutdownInOrder` (realignment is disabled before the
shutdown looks for a worker). `ClosesAfterWorker` follows from the last two.

**migrate-visibility.** The invariant is `InHand` (a phase works on its batch, a
batch on the plan), `InOrder` (a flag is set only after the flags of the phases
before it, on disk as in memory), `Copied` (of an observation the run holds only
the right payload, and what is recorded as verified, or gone from its legacy key,
is at the target), `Untouched` (a conflict that was seen never enters a plan) and
`Passed` (as long as nothing failed, what a phase has left behind has passed it).
From it follow `NothingDeletedUnverified`, `ConflictsLeftAlone` and
`CleanExitMeansMoved`, for any items, batches, faults and restarts. They speak of
observations: on `--resume` a tombstone's backup file is taken without parsing it.

**scope-migrate.** `ScopeInv` has three parts. `ReplayOK` says what a run works on: the
checkpoint is that of its manifest, and what it has still to put is what the checkpoint
does not name. `BatchInv` says that what was put and is not in the checkpoint belongs to
its next batch, and a batch is no larger than `Batch` (`FirstBatchSize`, by counting the
keys below each key of it). `MovedInv` says what OK rests on: a manifest to which every peer
contributed has every old key, and when the verdict is OK every peer serves the mesh
storage and every key of the manifest is readable there. From them follow
`VerifyOkMeansMoved` and `OneBatchRedone`.

**The suggestion.** `HintInv`: of two steady memories on a topic each caller that was
answered was told, or its answer was full (`Told`), and a memory still to be answered has
no hint. The argument is about the order of index writes and queries: whichever of the
two was indexed second queries after both are in the table, and a memory in `steady` has
been visible ever since, so the query has it among its candidates. That it is then in
the answer, or the answer is full, is `NewestFull`, an instance of the ordering lemma.

**Order and limit.** Nothing in `ORDER BY ... LIMIT` needs an induction when a place in
an order is the number of what comes before it. For a strict total order of a finite set
(`TotallyOrders`), `BeforeShrinks` and `Places` say that members have different places, from 1 to
the size of the set; `TopFacts` that `Top`
has at most so many members and leaves one out only when it is full and everything in it
comes before; `ListedFacts` that `Listed` names each member once, in order. They are
proved once in `IndexTable_proofs` and used by the suggestion, the walk and the search.

**scope-purge.** `PurgeInv`: while a purge is under way its plan covers every row of an
undeclared scope that did not arrive since and whose deletion did not fail silently
(`RowsCovered`, if the plan could read index.db), and every directory that is not in
use, if zenohd said which are (`DirsCovered`); a phase that is over has left nothing
of its plan, and a plan that is empty is over at once.

**backfill-metadata.** `BackfillInv` says of the table that `superseded_by` names a memory
that was saved and says so, and that a copy that counts hides its original (`RowsInv`);
of the runs, that a memory planned for repair has no counted copy, and no memory has two
(`OnceInv`). The proof attempt found an exception the runs were too small to meet, and TLC
then showed it with five memories and three steps of others: a copy c of o is superseded by
d, a later e supersedes both o and d, and e is deleted. `superseded_by` has one value; that of
o was e, so o is found again and copied again, although c lives on behind d. The property
now excludes copies that something replaced (`Replaced`).

**Clean-up and search.** `CurationInv` says that pointers follow what memories say they
replace (`TableInv`), and of a sweep that what it has still to do carries a tombstone or is
lapsed (`SweepInv`). From it follow `OneStaysFound`, by `NoCycle`: of a set of alive memories
closed under `superseded_by` one is superseded by none of them; `OnlyShownIsGone`; and
`SweepIsInvisible`, since a lapsed memory neither is found nor hides anything. `WalkInv` is
about a bulk delete: what it still owes lies past the cursor when a page is asked for, and,
while a page is walked, is on the page or older than all of it, and then the page was full
or a newer row that does not parse was cut from it. What makes it inductive is that the
order never changes: whatever others do, a memory that stays findable keeps its place.
`AndOrFills` says that an `and_or` answer leaves a match out only when it is full. It rests on
the reach of the second pass: the broad query asks for at least `limit` rows, so that after
the strict hits are taken out it fills what is left. That holds up to `WideLimit` (10,000), and
`memory/store.py:410` clamps every limit to as much.

**Only model-checked**: liveness (`SavesConverge`, `DeletesConverge`, `ReplayedInTime`,
`Arrival`), which is out of the prover's reach, as is anything about ENABLED. The seven
violations are TLC's too. Every type invariant, and every safety invariant and action
property of the passing runs, is a theorem.

## 5. Observations

What the models made visible and no property promises or denies; a maintainer may
want to know of them.

* A parked ack stays in `pending_acks` when its message is registered through the
  quarantine branch (`messaging/local_index.py:411`).
* The purge retires by `expires_at` alone: a message with only `ttl_sec` is dead for
  readers and stays in the table.
* Rows of an older index whose copy into `raw.db` failed are dropped from the index by
  the rebuild of the same opening (`stranded` in `LocalBackend`).
* Two saves that name the same memory in an explicit `supersedes` leave two latest
  decisions and neither caller is told; the doctor reports them. Two hosts are out of
  the hint's reach by design (ADR-0026). Its automatic replacement is not in the code.
* A put of backfill-metadata that raised and was queued is unknown to the next run,
  which saves a second copy; `__main__.py:575-577` says that the repaired entries are
  not superseded a second time.
* A memory that was completed by backfill-metadata can be shown, and copied, again: when
  its copy was itself replaced, and the last memory that named the original is deleted
  (see backfill-metadata in section 4).
* A row that does not parse shortens its page and ends the walk of a bulk delete.
* Deleting a superseding memory in a bulk delete brings its predecessor back into the
  results, so the number deleted may exceed the number that was confirmed.
* The shadow sweep removes a row that was revived after it looked.
* Without an index, `and` matches the whole query as one substring, and the scan
  hides neither superseded nor lapsed memories.
* The name given to a directory that scope-purge sets aside is, while it is short, a
  name a scope may have, so a later purge plans it again. Purged rows of an
  undeclared scope come back with the next sample or rebuild unless scope isolation
  is enforced.
* When scope-purge cannot read index.db (it cannot be opened read-only, or one row's
  `payload_json` is malformed and `json_extract` fails the whole query,
  `memory/scope_migration.py:616-628`), the plan has no rows: the directories are set
  aside all the same, and the command prints "nothing to purge" or 0 rows and returns 0,
  with every row of the withdrawn scope left. The only trace is a warning in the log.
* When migrate-visibility fails to read an occupied target, the target looks free: it is
  overwritten and the source deleted, although `build_migration_plan` says that a target
  with another payload becomes a conflict (`memory/visibility_migration.py:255`).
* `gc --force-id` removes the index row also when it found no key on the mesh; if a
  storage that did not answer has the memory, the next full repair brings it back.
* Two threads that open the index at the same time may start two workers.

## 6. What is not modelled, and why

Message limits, lint, the derivation of a subject, key formatting and identity are
pure functions of one input, with no state for a model to explore. TLS, storage
rendering, paths, installers, the spool and the tmux adapter are file and process
I/O. Presence is one advertised key whose loss the next heartbeat repairs. The
bridge is a read of the inbox followed by a save, both modelled where they belong;
between the two it keeps nothing, so a repeated promotion saves a second memory. Of
the doctor only `check_conflicting_latest` relates to a protocol. Snippets, prefix
lookup, the report counts and argument parsing are left out of the command line.

Zenoh itself is external: it is modelled from how the code uses it (a put or
delete is stored and delivered, in any order across publishers, to whoever is
subscribed; a query returns what the storages that answer hold). Retention
arithmetic is left out of the purges of `MeshIndex`, which may take place at any
time; `Curation` has it. Legacy keys and malformed payloads are skipped by every
reader and are in the model only where they change control (`Unreadable` in
`Search`, `Undecodable` in `InboxPoll`, a payload that does not parse in
`PendingQueue`). `MessageInbox` and `MeshIndex` leave out reads that change nothing.

Left out of components that are modelled:

* **Inbox.** An older database is taken without earlier recoveries in `recovery_audit`,
  and with promoted quarantine rows only on their message or its tombstone, as the
  transactions of this release leave them; the code of v2 and v3 is not in the
  repository.
* **Preflight.** The Tier 1 exception (`core/scope.py:511-524`): a host that declares
  `mesh` alone and runs `kioku-mesh mesh start` saves through a router without a
  storage. `StoredMeansMesh` is about hosts with storages.
* **Index.** `inspect_by_id` also reports `superseded` and `expired`; they are computed
  from other columns when a row is read, and the lifecycle of `RowLifecycle` has the
  states that statements write.
* **Suggestion.** Without a project the candidate query has no project filter
  (`memory/supersede.py:87-92`), so a hint may name a decision of another project. In
  the model two decisions share a topic only if they share the project: a hint may
  hold more in the code than in the model, and be full sooner.
* **migrate-visibility.** `--checkpoint` naming an existing file is loaded without
  `--resume` and without a comparison of its parameters
  (`memory/visibility_migration.py:692-693`); in the model a run without `--resume`
  starts from an empty checkpoint.
* **scope-purge.** `--db` with another file than the index the deletes go to.

## 7. Plan

Done: every component of section 1 that has a protocol of its own is modelled and
checked, and every safety property of the passing runs is proved. Left, in this order:

1. The composition of `PendingQueue` with the deletes and purges of `MeshIndex`: a put
   that raised although the mesh took it is replayed after its memory was deleted and
   purged elsewhere. The code keeps no record of a purge, so the property to state is
   how long such a memory may be shown.
2. Polls over a database with quarantined and parked acks.
3. Two processes in the convergence runs of `MeshIndex` and in the queue.
