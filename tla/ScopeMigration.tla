--------------------------- MODULE ScopeMigration ---------------------------
(***************************************************************************)
(* The cutover of the mesh keys from the broad storage `agent_mem` to a    *)
(* storage of their own (`kioku-mesh scope-migrate`).  While every peer    *)
(* serves both, a coordinator reads all mesh keys into a manifest; after   *)
(* the peers have restarted without the broad storage it PUTs the manifest *)
(* again, batch by batch with a checkpoint bound to that manifest, and     *)
(* compares what the mesh answers with the manifest.                       *)
(* A peer may not answer, an answer may be cut short, a PUT may raise or   *)
(* be lost, the coordinator may stop; a peer may restart late.             *)
(***************************************************************************)
EXTENDS Naturals, FiniteSets

CONSTANTS
  Peer, Payload,
  Key,            \* mesh keys, numbers in the order the manifest sorts them
  coordinator,    \* the peer the tool runs on
  ExpectedPeers,  \* --expected-peers
  Batch,          \* --batch-size
  MaxTrouble,     \* bound: failed calls, missing answers and crashes
  Absent

ASSUME CutoverAssumption ==
  /\ IsFiniteSet(Peer) /\ coordinator \in Peer
  /\ Key \subseteq Nat /\ IsFiniteSet(Key)
  /\ Batch \in Nat \ {0} /\ MaxTrouble \in Nat

\* The operator counts the peers right.
ASSUME PeersCounted == ExpectedPeers = Cardinality(Peer)

VARIABLES
  old,        \* what each peer's broad storage holds
  new,        \* what each peer's mesh storage holds
  final,      \* peers that run the final configuration
  manifest,   \* the manifest file: payload of each key, or Absent
  whole,      \* history: no answer the manifest was built from was cut short
  file,       \* the checkpoint file, or Absent
  stage,      \* "idle", "batch", "put", "verify": the running re-put
  done,       \* checkpoint.done in memory
  pending,    \* manifest keys whose batch has not ended
  remaining,  \* keys of the running batch not PUT yet
  sent,       \* history: keys whose PUT returned since the checkpoint was begun
  verdict,    \* result of the last verify
  trouble

storageVars == <<old, new, final>>
planVars    == <<manifest, whole>>
replayVars  == <<stage, done, pending, remaining>>
scopeVars   == <<storageVars, planVars, file, replayVars, sent, verdict, trouble>>

Holding     == [Key -> Payload \cup {Absent}]
Checkpoints == [of : Holding, done : SUBSET Key]

ASSUME AbsentIsNone == Absent \notin Payload /\ Absent \notin Holding /\ Absent \notin Checkpoints

ScopeTypeOK ==
  /\ old \in [Peer -> Holding] /\ new \in [Peer -> Holding]
  /\ final \subseteq Peer
  /\ manifest \in Holding \cup {Absent} /\ whole \in BOOLEAN
  /\ file \in Checkpoints \cup {Absent}
  /\ stage \in {"idle", "batch", "put", "verify"}
  /\ done \subseteq Key /\ pending \subseteq Key /\ remaining \subseteq pending
  /\ sent \subseteq Key
  /\ verdict \in {"none", "ok", "failed", "lagging"}
  /\ trouble \in 0..MaxTrouble

Keys(m) == {k \in Key : m[k] # Absent}

\* The first keys of the manifest order that still have to be PUT.
FirstBatch(keys) == {k \in keys : Cardinality({j \in keys : j < k}) < Batch}

Trouble(n) == /\ trouble + n <= MaxTrouble
              /\ trouble' = trouble + n

-----------------------------------------------------------------------------
(* The manifest. *)

\* _get_unconsolidated over mem/mesh/**: one reply per storage that answers; the
\* broad storage answers as long as its peer serves it.
Replies(peers) ==
  {<<p, k, old[p][k]>> : p \in peers \ final, k \in Key} \cup
  {<<p, k, new[p][k]>> : p \in peers, k \in Key}

Answers(peers) == {r \in Replies(peers) : r[3] # Absent}

AgreedAlways(replies) == TRUE   \* mutant: of several payloads one is taken

\* build_manifest's two gates: a key has one payload, and as many routers answered
\* as the operator says there are.
Agreed(replies)  == \A r, s \in replies : r[2] = s[2] => r[3] = s[3]
Reached(replies) == {r[1] : r \in replies}

Union(replies) ==
  [k \in Key |-> IF \E r \in replies : r[2] = k
                 THEN (CHOOSE r \in replies : r[2] = k)[3] ELSE Absent]

\* scope-migrate manifest, while the broad storages are served.
BuildManifest(replies) ==
  LET missing == Answers(Peer) \ replies
  IN /\ stage = "idle" /\ final = {}
     /\ replies \subseteq Answers(Peer)
     /\ Trouble(Cardinality(missing))
     /\ Agreed(replies)
     /\ Cardinality(Reached(replies)) = ExpectedPeers
     /\ manifest' = Union(replies)
     /\ whole' = \A r \in missing : r[1] \notin Reached(replies)
     /\ UNCHANGED <<storageVars, file, replayVars, sent, verdict>>

\* The peer's zenohd starts again without the broad storage.
Restart(p) ==
  /\ p \notin final
  /\ final' = final \cup {p}
  /\ UNCHANGED <<old, new, planVars, file, replayVars, sent, verdict, trouble>>

\* A host goes back to saving before the cutover has ended.
EarlySave(k, v) ==
  /\ coordinator \in final
  /\ \A p \in Peer : old[p][k] = Absent /\ new[p][k] = Absent
  /\ Trouble(1)
  /\ new' = [p \in Peer |-> [new[p] EXCEPT ![k] = v]]
  /\ UNCHANGED <<old, final, planVars, file, replayVars, sent, verdict>>

-----------------------------------------------------------------------------
(* The re-PUT. *)

\* load_bound_checkpoint: a checkpoint of another manifest is refused.
Bound == file # Absent => file.of = manifest

\* replay_manifest: resume from the checkpoint if there is one, otherwise save an
\* empty one.
StartReplay ==
  /\ stage = "idle" /\ manifest # Absent
  /\ Bound
  /\ file' = IF file = Absent THEN [of |-> manifest, done |-> {}] ELSE file
  /\ done' = file'.done
  /\ pending' = Keys(manifest) \ file'.done
  /\ stage' = "batch" /\ remaining' = {}
  /\ verdict' = "none"
  /\ UNCHANGED <<storageVars, planVars, sent, trouble>>

\* The operator names another checkpoint path: a run of its own.
FreshCheckpoint ==
  /\ stage = "idle" /\ file # Absent
  /\ file' = Absent /\ sent' = {}
  /\ UNCHANGED <<storageVars, planVars, replayVars, verdict, trouble>>

Stopped == stage' = "idle" /\ done' = {} /\ pending' = {} /\ remaining' = {}

\* preflight_migration_target: the mesh storage of this host is live and nothing
\* broader overlaps it.
GateOpen == coordinator \in final

\* Every key of the next batch passes the gate before its first PUT.
StartBatch ==
  /\ stage = "batch" /\ pending # {}
  /\ GateOpen
  /\ remaining' = FirstBatch(pending) /\ stage' = "put"
  /\ UNCHANGED <<storageVars, planVars, file, done, pending, sent, verdict, trouble>>

\* The way out of a failure: the checkpoint is saved as it is.
Raise ==
  /\ file' = [file EXCEPT !.done = done]
  /\ Stopped

GateRefuses ==
  /\ stage = "batch" /\ pending # {}
  /\ ~GateOpen
  /\ Raise
  /\ UNCHANGED <<storageVars, planVars, sent, verdict, trouble>>

\* The storages of the peers a PUT reaches take it; a peer that still serves the
\* broad storage has it there as well.
Mirrored(k, reached) ==
  /\ new' = [p \in Peer |-> IF p \in reached THEN [new[p] EXCEPT ![k] = manifest[k]] ELSE new[p]]
  /\ old' = [p \in Peer |-> IF p \in reached \ final THEN [old[p] EXCEPT ![k] = manifest[k]] ELSE old[p]]

\* The key the batch has come to.
NextOfBatch(k) == stage = "put" /\ k \in remaining /\ \A j \in remaining : k <= j

\* session.put returns; that no storage took it is a fault.
Put(k, reached) ==
  /\ NextOfBatch(k)
  /\ IF reached = {} THEN Trouble(1) ELSE UNCHANGED trouble
  /\ Mirrored(k, reached)
  /\ done' = done \cup {k} /\ sent' = sent \cup {k}
  /\ remaining' = remaining \ {k}
  /\ UNCHANGED <<final, planVars, file, stage, pending, verdict>>

\* session.put raises, whether or not the mesh took it.
PutRaises(k, reached) ==
  /\ NextOfBatch(k)
  /\ Trouble(1) /\ Raise
  /\ Mirrored(k, reached)
  /\ UNCHANGED <<final, planVars, sent, verdict>>

EndBatchUnsaved ==   \* mutant: the checkpoint is written at the end only
  /\ stage = "put" /\ remaining = {}
  /\ pending' = pending \ done
  /\ stage' = "batch"
  /\ UNCHANGED <<storageVars, planVars, file, done, remaining, sent, verdict, trouble>>

\* The checkpoint after a batch.
EndBatch ==
  /\ stage = "put" /\ remaining = {}
  /\ file' = [file EXCEPT !.done = done]
  /\ pending' = pending \ done
  /\ stage' = "batch"
  /\ UNCHANGED <<storageVars, planVars, done, remaining, sent, verdict, trouble>>

EndReplay ==
  /\ stage = "batch" /\ pending = {}
  /\ stage' = "verify"
  /\ UNCHANGED <<storageVars, planVars, file, done, pending, remaining, sent, verdict, trouble>>

\* verify_reput: the first reply of a key counts, in whatever order they come.
\* Missing, mismatch and extra are all failures. The tool says OK also while a peer
\* has not restarted and answers from its broad storage: "lagging" keeps them apart.
Verify(replies, live) ==
  /\ stage = "verify"
  /\ replies \subseteq Answers(Peer)
  /\ Trouble(Cardinality(Answers(Peer) \ replies))
  /\ \A k \in Key : \/ <<k, live[k]>> \in {<<r[2], r[3]>> : r \in replies}
                    \/ live[k] = Absent /\ ~\E r \in replies : r[2] = k
  /\ verdict' = IF live # manifest THEN "failed"
                ELSE IF final # Peer THEN "lagging" ELSE "ok"
  /\ Stopped
  /\ UNCHANGED <<storageVars, planVars, file, sent>>

ScopeCrash ==
  /\ stage # "idle"
  /\ Trouble(1) /\ Stopped
  /\ UNCHANGED <<storageVars, planVars, file, sent, verdict>>

-----------------------------------------------------------------------------

\* Whatever the broad storages hold; the mesh storages are new and empty.
ScopeInit ==
  /\ old \in [Peer -> Holding]
  /\ new = [p \in Peer |-> [k \in Key |-> Absent]]
  /\ final = {}
  /\ manifest = Absent /\ whole = FALSE /\ file = Absent
  /\ stage = "idle" /\ done = {} /\ pending = {} /\ remaining = {}
  /\ sent = {} /\ verdict = "none" /\ trouble = 0

ScopeNext ==
  \/ \E replies \in SUBSET Answers(Peer) : BuildManifest(replies)
  \/ \E p \in Peer : Restart(p)
  \/ \E k \in Key, v \in Payload : EarlySave(k, v)
  \/ StartReplay \/ FreshCheckpoint
  \/ StartBatch \/ GateRefuses
  \/ \E k \in remaining, reached \in SUBSET Peer : Put(k, reached)
  \/ \E k \in remaining, reached \in SUBSET Peer : PutRaises(k, reached)
  \/ EndBatch \/ EndReplay
  \/ \E replies \in SUBSET Answers(Peer), live \in Holding : Verify(replies, live)
  \/ ScopeCrash

ScopeSpec == ScopeInit /\ [][ScopeNext]_scopeVars

-----------------------------------------------------------------------------
(* Properties. *)

\* A verify that reports OK, with every peer on the final configuration, means that
\* each key any peer's broad storage held has moved: some mesh storage holds it with
\* the same payload.
VerifiedMeansMoved ==
  verdict = "ok" /\ whole =>
    \A p \in Peer, k \in Key :
      old[p][k] # Absent => \E q \in Peer : new[q][k] = old[p][k]

\* "A resumed run redoes at most one batch", and the checkpoint names no key whose
\* PUT did not return, through crashes, refusals and changes of manifest.
RedoesAtMostOneBatch ==
  file # Absent => /\ Cardinality(sent \ file.done) <= Batch
                   /\ file.done \subseteq sent
=============================================================================
