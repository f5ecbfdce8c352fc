------------------------ MODULE VisibilityMigration ------------------------
(***************************************************************************)
(* `kioku-mesh migrate-visibility`: the offline tool that moves the keys   *)
(* of the legacy namespace to a visibility, in phases per batch            *)
(*                                                                         *)
(*     backup -> PUT target -> verify -> DELETE legacy -> repair PUT       *)
(*                                                                         *)
(* with a checkpoint on disk that is replaced after every phase.  A call   *)
(* of the mesh may raise, may take effect although it raised, and may      *)
(* return without effect; the process may stop between any two steps; the  *)
(* operator starts again, with or without --resume.  Payloads are "good"   *)
(* (what belongs at the key), "torn" (a backup file that was being         *)
(* written) and "foreign" (another writer's, at the target).  An Item is   *)
(* one legacy key, of an observation or of a tombstone.                    *)
(***************************************************************************)
EXTENDS Naturals, FiniteSets, NoValue

CONSTANTS
  Item,         \* the legacy keys
  Observation,  \* those that hold an observation; the others hold tombstones
  Foreign,      \* those whose target holds another payload from the start
  BatchSize,    \* --batch-size
  MaxFaults     \* bound: failed calls, scans cut short and crashes

ASSUME ItemAssumption ==
  /\ Observation \subseteq Item
  /\ IsFiniteSet(Item) /\ Foreign \subseteq Item
  /\ None \notin {"good", "torn", "foreign"}

ASSUME BoundAssumption == BatchSize \in Nat \ {0} /\ MaxFaults \in Nat

VARIABLES
  source,   \* items whose legacy key the mesh holds
  target,   \* payload at the target key
  backup,   \* payload in the backup file of the run the checkpoint belongs to
  kept,     \* items with a good backup in the directory of an earlier run
  saved,    \* a checkpoint file exists
  disk,     \* the flags of each item in that file
  pc,       \* the phase of the running command
  hand,     \* plan.items: the original payload of each planned item
  chk,      \* the checkpoint in memory
  todo,     \* planned items whose batch has not ended
  batch,    \* items of the running batch
  left,     \* items the running phase has still to handle
  clean,    \* no failure and no conflict so far
  misread,  \* history: items planned although the read of their target failed
  faults

meshVars == <<source, target>>
fileVars == <<backup, kept, saved, disk>>
runVars  == <<pc, hand, chk, todo, batch, left, clean>>
vars     == <<meshVars, fileVars, runVars, misread, faults>>

Flag  == {"put", "verified", "deleted", "repaired"}
Phase == {"idle", "backup", "open", "next", "put", "verify", "delete", "repair"}

NoFlags == [i \in Item |-> {}]
Nothing == [i \in Item |-> None]

TypeOK ==
  /\ source \subseteq Item
  /\ target \in [Item -> {None, "good", "torn", "foreign"}]
  /\ backup \in [Item -> {None, "good", "torn"}]
  /\ kept \subseteq Item
  /\ saved \in BOOLEAN
  /\ disk \in [Item -> SUBSET Flag]
  /\ pc \in Phase
  /\ hand \in [Item -> {None, "good", "torn"}]
  /\ chk \in [Item -> SUBSET Flag]
  /\ todo \subseteq Item /\ batch \subseteq Item /\ left \subseteq Item
  /\ clean \in BOOLEAN
  /\ misread \subseteq Item
  /\ faults \in 0..MaxFaults

-----------------------------------------------------------------------------
(* The plan. *)

Planned == {i \in Item : hand[i] # None}

Fault(n) == /\ faults + n <= MaxFaults
            /\ faults' = faults + n

\* scan_legacy_visibility: the legacy records whose storage answers in time and
\* whose key and payload can be read; each one that is missing counts as a fault.
Scans == {found \in SUBSET source : faults + Cardinality(source \ found) <= MaxFaults}

ConflictsUnseen(found, failed) == {}   \* mutant: the target is not read before the PUT

\* build_migration_plan: a target that holds something else is a conflict; a read
\* that fails looks like an absent target (_get_key_payload returns None).
Conflicts(found, failed) ==
  {i \in found \ failed : target[i] \notin {None, "good"}}

\* reconstruct_items_from_checkpoint: items whose source is recorded as deleted and
\* whose repair PUT is not; an observation must parse, a tombstone is taken as it is.
Reconstructed(planned) ==
  {i \in Item \ planned :
     /\ "deleted" \in disk[i] /\ "repaired" \notin disk[i]
     /\ backup[i] # None
     /\ i \in Observation => backup[i] = "good"}

\* _cmd_migrate_visibility up to execute_migration: scan, plan, and on --resume the
\* items the scan cannot find any more. Without --resume the run has a directory of
\* its own: a checkpoint and a backup that do not exist yet.
Start(resume, found, failed) ==
  LET planned   == found \ Conflicts(found, failed)
      recovered == IF resume THEN Reconstructed(planned) ELSE {}
  IN /\ pc = "idle"
     /\ resume => saved
     /\ found \in Scans
     /\ failed \subseteq {i \in found : target[i] # None}
     /\ Fault(Cardinality(source \ found) + Cardinality(failed))
     /\ hand' = [i \in Item |-> IF i \in planned THEN "good"
                                ELSE IF i \in recovered THEN backup[i] ELSE None]
     /\ clean' = (found = planned)
     /\ misread' = misread \cup failed
     /\ IF resume
          THEN UNCHANGED fileVars
          ELSE /\ kept' = kept \cup {i \in Item : backup[i] = "good"}
               /\ backup' = Nothing /\ saved' = FALSE /\ disk' = NoFlags
     /\ pc' = "backup" /\ left' = planned \cup recovered
     /\ UNCHANGED <<meshVars, chk, todo, batch>>

\* write_backup: the payload file of every planned item is written again, also the
\* one a recovered item was just read from.
WriteBackup(i) ==
  /\ pc = "backup" /\ i \in left
  /\ backup' = [backup EXCEPT ![i] = hand[i]]
  /\ left' = left \ {i}
  /\ pc' = IF left = {i} THEN "open" ELSE pc
  /\ UNCHANGED <<meshVars, kept, saved, disk, hand, chk, todo, batch, clean, misread, faults>>

\* A plan without items writes no payload file.
NoBackupNeeded ==
  /\ pc = "backup" /\ left = {}
  /\ pc' = "open"
  /\ UNCHANGED <<meshVars, fileVars, hand, chk, todo, batch, left, clean, misread, faults>>

\* execute_migration: load the checkpoint that exists, or save an empty one; items
\* that are through all phases are skipped.
OpenCheckpoint ==
  /\ pc = "open"
  /\ chk' = IF saved THEN disk ELSE NoFlags
  /\ disk' = chk'
  /\ saved' = TRUE
  /\ todo' = {i \in Planned : "repaired" \notin chk'[i]}
  /\ pc' = "next"
  /\ UNCHANGED <<meshVars, backup, kept, hand, batch, left, clean, misread, faults>>

-----------------------------------------------------------------------------
(* One batch. *)

DeleteNeededOncePut(c, b) ==   \* mutant: a PUT that returned is proof enough
  {i \in b : "put" \in c[i] /\ "deleted" \notin c[i]}

\* The items of the batch that a phase has something to do for.
PutNeeded(c, b)    == {i \in b : "put" \notin c[i]}
VerifyNeeded(c, b) == {i \in b : "put" \in c[i] /\ "verified" \notin c[i]}
DeleteNeeded(c, b) == {i \in b : "verified" \in c[i] /\ "deleted" \notin c[i]}
RepairNeeded(c, b) == {i \in b : "deleted" \in c[i] /\ "repaired" \notin c[i]}

BeginFullBatch(b) ==   \* mutant: a last batch that is not full never runs
  /\ pc = "next" /\ todo # {}
  /\ b \subseteq todo /\ Cardinality(b) = BatchSize
  /\ batch' = b
  /\ pc' = "put" /\ left' = PutNeeded(chk, b)
  /\ UNCHANGED <<meshVars, fileVars, hand, chk, todo, clean, misread, faults>>

\* The next items of the plan, whose target keys pass preflight_migration_target:
\* only then does the batch touch anything.
BeginBatch(b) ==
  /\ pc = "next" /\ todo # {}
  /\ b \subseteq todo
  /\ Cardinality(b) = BatchSize \/ (b = todo /\ Cardinality(b) <= BatchSize)
  /\ batch' = b
  /\ pc' = "put" /\ left' = PutNeeded(chk, b)
  /\ UNCHANGED <<meshVars, fileVars, hand, chk, todo, clean, misread, faults>>

\* What the process had in memory is gone.
Forgotten ==
  /\ pc' = "idle"
  /\ hand' = Nothing /\ chk' = NoFlags
  /\ todo' = {} /\ batch' = {} /\ left' = {} /\ clean' = TRUE

\* A target key of the batch has no live exact storage: ScopePreflightError.
Refuse ==
  /\ pc = "next" /\ todo # {}
  /\ Fault(1) /\ Forgotten
  /\ UNCHANGED <<meshVars, fileVars, misread>>

\* A call of the session: done, raised without effect, raised although the mesh
\* took it, or returned although it did not.
Outcome  == {"done", "raised", "late", "lost"}
Took     == {"done", "late"}
Returned == {"done", "lost"}
Call(o)  == IF o = "done" THEN UNCHANGED faults ELSE Fault(1)

RecordQuietly(i, flag, success) ==   \* mutant: a failed phase is not counted
  /\ chk' = IF success THEN [chk EXCEPT ![i] = @ \cup {flag}] ELSE chk
  /\ left' = left \ {i}
  /\ UNCHANGED clean

\* Recording a success in the checkpoint in memory, or a failure in the result.
Record(i, flag, success) ==
  /\ chk' = IF success THEN [chk EXCEPT ![i] = @ \cup {flag}] ELSE chk
  /\ clean' = (clean /\ success)
  /\ left' = left \ {i}

\* Phase: PUT target keys.
PutTarget(i, o) ==
  /\ pc = "put" /\ i \in left
  /\ Call(o)
  /\ target' = IF o \in Took THEN [target EXCEPT ![i] = hand[i]] ELSE target
  /\ Record(i, "put", o \in Returned)
  /\ UNCHANGED <<source, fileVars, pc, hand, todo, batch, misread>>

\* Phase: verify target keys; a read that fails is a failed verification.
VerifyTarget(i, o) ==
  /\ pc = "verify" /\ i \in left
  /\ o \in {"done", "raised"} /\ Call(o)
  /\ Record(i, "verified", o = "done" /\ target[i] = hand[i])
  /\ UNCHANGED <<meshVars, fileVars, pc, hand, todo, batch, misread>>

\* Phase: DELETE source exact keys.
DeleteSource(i, o) ==
  /\ pc = "delete" /\ i \in left
  /\ Call(o)
  /\ source' = IF o \in Took THEN source \ {i} ELSE source
  /\ Record(i, "deleted", o \in Returned)
  /\ UNCHANGED <<target, fileVars, pc, hand, todo, batch, misread>>

\* Phase: repair PUT target.
RepairTarget(i, o) ==
  /\ pc = "repair" /\ i \in left
  /\ Call(o)
  /\ target' = IF o \in Took THEN [target EXCEPT ![i] = hand[i]] ELSE target
  /\ Record(i, "repaired", o \in Returned)
  /\ UNCHANGED <<source, fileVars, pc, hand, todo, batch, misread>>

\* save_checkpoint_atomic at the end of a phase, and the next phase of the batch.
Flush ==
  /\ pc \in {"put", "verify", "delete", "repair"} /\ left = {}
  /\ disk' = chk
  /\ CASE pc = "put"    -> /\ pc' = "verify" /\ left' = VerifyNeeded(chk, batch)
                           /\ UNCHANGED <<todo, batch>>
       [] pc = "verify" -> /\ pc' = "delete" /\ left' = DeleteNeeded(chk, batch)
                           /\ UNCHANGED <<todo, batch>>
       [] pc = "delete" -> /\ pc' = "repair" /\ left' = RepairNeeded(chk, batch)
                           /\ UNCHANGED <<todo, batch>>
       [] pc = "repair" -> /\ pc' = "next" /\ left' = {}
                           /\ todo' = todo \ batch /\ batch' = {}
  /\ UNCHANGED <<meshVars, backup, kept, saved, hand, chk, clean, misread, faults>>

\* Every batch has run: the index is rebuilt and the command ends.
Finish ==
  /\ pc = "next" /\ todo = {}
  /\ Forgotten
  /\ UNCHANGED <<meshVars, fileVars, misread, faults>>

\* The process stops, or a file operation raises through the command.
Crash ==
  /\ pc # "idle"
  /\ Fault(1) /\ Forgotten
  /\ UNCHANGED <<meshVars, fileVars, misread>>

\* The same while the payload file of i is open for writing: it has been truncated.
CrashInBackup(i) ==
  /\ pc = "backup" /\ i \in left
  /\ backup' = [backup EXCEPT ![i] = "torn"]
  /\ Fault(1) /\ Forgotten
  /\ UNCHANGED <<meshVars, kept, saved, disk, misread>>

-----------------------------------------------------------------------------

\* The legacy keys are there; an earlier attempt may have left copies at targets.
Init ==
  /\ source = Item
  /\ target \in [Item -> {None, "good", "foreign"}]
  /\ \A i \in Item : target[i] = "foreign" <=> i \in Foreign
  /\ backup = Nothing /\ kept = {} /\ saved = FALSE /\ disk = NoFlags
  /\ pc = "idle" /\ hand = Nothing /\ chk = NoFlags
  /\ todo = {} /\ batch = {} /\ left = {} /\ clean = TRUE
  /\ misread = {} /\ faults = 0

Step(i) ==
  \/ WriteBackup(i)
  \/ \E o \in Outcome : PutTarget(i, o) \/ VerifyTarget(i, o) \/ DeleteSource(i, o) \/ RepairTarget(i, o)

Advance == NoBackupNeeded \/ OpenCheckpoint \/ (\E b \in SUBSET todo : BeginBatch(b)) \/ Flush \/ Finish

Run == (\E i \in Item : Step(i)) \/ Advance

Operator == \E resume \in BOOLEAN, found, failed \in SUBSET Item : Start(resume, found, failed)

Next == Run \/ Operator \/ Refuse \/ Crash \/ \E i \in Item : CrashInBackup(i)

Spec == Init /\ [][Next]_vars

\* A started command goes on, and an operator who sees it fail does not only resume
\* but in the end starts over.
FairSpec == Spec /\ WF_vars(Run) /\ SF_vars(Start(FALSE, source, {}))

-----------------------------------------------------------------------------
(* Properties. *)

\* The legacy key of an observation is deleted only while the target holds a copy
\* that was read back, whatever was recorded before a crash and whatever of it a
\* resumed run believes.
VerifiedBeforeDeleted ==
  \A i \in Observation : i \notin source => target[i] = "good"

\* A target that holds another payload is neither overwritten nor is its source
\* deleted, unless the read that would have shown the conflict failed.
ConflictsKept ==
  \A i \in Foreign \ misread : target[i] = "foreign" /\ i \in source

\* Exit code 0 (no failure, no conflict): every planned item went through all the
\* phases, and every planned observation is at its target.
ExitZeroMeansMoved ==
  [][Finish /\ clean =>
       \A i \in Planned : /\ "repaired" \in chk[i]
                          /\ i \in Observation => target[i] = "good"]_vars

\* Every observation gets to its visibility in the end, unless its target is taken.
ObservationsArrive ==
  \A i \in Observation \ Foreign : <>[](target[i] = "good")
=============================================================================
