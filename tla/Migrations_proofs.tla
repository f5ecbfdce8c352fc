-------------------------- MODULE Migrations_proofs --------------------------
(***************************************************************************)
(* Proofs about the two migrations. Of migrate-visibility: its types, that *)
(* no observation's legacy key goes before a verified copy is there, that  *)
(* a conflict is left alone, and what exit code 0 means, for any items,    *)
(* batches, faults and restarts. Of migrate-scope: that a verified replay  *)
(* has moved everything, and that a replay resumed after an interruption   *)
(* redoes one batch at most.                                               *)
(***************************************************************************)
EXTENDS VisibilityMigration, ScopeMigration, FiniteSetTheorems, TLAPS

-----------------------------------------------------------------------------
\* Every step keeps the types.
LEMMA TypeStep ==
  TypeOK /\ [Next]_vars => TypeOK'
<1> SUFFICES ASSUME TypeOK, [Next]_vars
             PROVE  TypeOK'
  OBVIOUS
<1> USE ItemAssumption, BoundAssumption
<1>1. ASSUME NEW resume \in BOOLEAN, NEW found \in SUBSET Item, NEW failed \in SUBSET Item, Start(resume, found, failed) PROVE TypeOK'
  <2>1. /\ pc' = "backup" /\ left' \subseteq Item /\ clean' \in BOOLEAN /\ misread' \subseteq Item
        /\ UNCHANGED <<source, target, chk, todo, batch>>
    BY <1>1 DEF Start, Reconstructed, meshVars, TypeOK
  <2>2. hand' \in [Item -> {None, "good", "torn"}]
    BY <1>1 DEF Start, TypeOK
  <2>3. /\ backup' \in [Item -> {None, "good", "torn"}] /\ kept' \subseteq Item
        /\ saved' \in BOOLEAN /\ disk' \in [Item -> SUBSET Flag]
    <3>1. CASE resume
      BY <1>1, <3>1 DEF Start, fileVars, TypeOK
    <3>2. CASE ~resume
      BY <1>1, <3>2 DEF Start, Nothing, NoFlags, TypeOK, Flag
    <3> QED BY <3>1, <3>2
  <2>4. faults' \in 0..MaxFaults
    <3>1. Cardinality(source \ found) \in Nat /\ Cardinality(failed) \in Nat
      BY FS_Subset, FS_CardinalityType DEF TypeOK
    <3> QED BY <1>1, <3>1 DEF Start, Fault, TypeOK
  <2> QED BY <2>1, <2>2, <2>3, <2>4 DEF TypeOK, Phase
<1>2. ASSUME NEW i \in Item, WriteBackup(i) PROVE TypeOK'
  BY <1>2 DEF WriteBackup, meshVars,
     TypeOK, Flag, Phase
<1>3. ASSUME NEW i \in Item, NEW o \in Outcome, PutTarget(i, o) PROVE TypeOK'
  BY <1>3 DEF PutTarget, Record, Call, Fault, Took, Returned, Outcome, fileVars,
     TypeOK, Flag, Phase
<1>4. ASSUME NEW i \in Item, NEW o \in Outcome, VerifyTarget(i, o) PROVE TypeOK'
  BY <1>4 DEF VerifyTarget, Record, Call, Fault, Outcome, meshVars, fileVars,
     TypeOK, Flag, Phase
<1>5. ASSUME NEW i \in Item, NEW o \in Outcome, DeleteSource(i, o) PROVE TypeOK'
  BY <1>5 DEF DeleteSource, Record, Call, Fault, Took, Returned, Outcome, fileVars,
     TypeOK, Flag, Phase
<1>6. ASSUME NEW i \in Item, NEW o \in Outcome, RepairTarget(i, o) PROVE TypeOK'
  BY <1>6 DEF RepairTarget, Record, Call, Fault, Took, Returned, Outcome, fileVars,
     TypeOK, Flag, Phase
<1>7. ASSUME NoBackupNeeded PROVE TypeOK'
  BY <1>7 DEF NoBackupNeeded, meshVars, fileVars,
     TypeOK, Flag, Phase
<1>8. ASSUME OpenCheckpoint PROVE TypeOK'
  BY <1>8 DEF OpenCheckpoint, Planned, NoFlags, meshVars,
     TypeOK, Flag, Phase
<1>9. ASSUME NEW b \in SUBSET todo, BeginBatch(b) PROVE TypeOK'
  BY <1>9 DEF BeginBatch, PutNeeded, meshVars, fileVars,
     TypeOK, Flag, Phase
<1>10. ASSUME Flush PROVE TypeOK'
  BY <1>10 DEF Flush, VerifyNeeded, DeleteNeeded, RepairNeeded, meshVars,
     TypeOK, Flag, Phase
<1>11. ASSUME Finish PROVE TypeOK'
  BY <1>11 DEF Finish, Forgotten, Nothing, NoFlags, meshVars, fileVars,
     TypeOK, Flag, Phase
<1>12. ASSUME Refuse PROVE TypeOK'
  BY <1>12 DEF Refuse, Fault, Forgotten, Nothing, NoFlags, meshVars, fileVars,
     TypeOK, Flag, Phase
<1>13. ASSUME Crash PROVE TypeOK'
  BY <1>13 DEF Crash, Fault, Forgotten, Nothing, NoFlags, meshVars, fileVars,
     TypeOK, Flag, Phase
<1>14. ASSUME NEW i \in Item, CrashInBackup(i) PROVE TypeOK'
  BY <1>14 DEF CrashInBackup, Fault, Forgotten, Nothing, NoFlags, meshVars,
     TypeOK, Flag, Phase
<1>15. ASSUME UNCHANGED vars PROVE TypeOK'
  BY <1>15 DEF vars, meshVars, fileVars, runVars,
     TypeOK, Flag, Phase
<1> QED
  BY <1>1, <1>2, <1>3, <1>4, <1>5, <1>6, <1>7, <1>8, <1>9, <1>10, <1>11, <1>12, <1>13, <1>14, <1>15 DEF Next, Run, Step, Advance,
     Operator

-----------------------------------------------------------------------------

\* What is in hand: a phase handles items of its batch, a batch items of the plan.
InHand ==
  /\ batch \subseteq todo /\ todo \subseteq Planned /\ left \subseteq Planned
  /\ pc # "backup" => left \subseteq batch
  /\ pc \in {"idle", "backup", "open"} => todo = {}
  /\ pc = "next" => batch = {}

\* Every step keeps the plan, the batch and the phase within each other.
LEMMA InHandStep ==
  TypeOK /\ InHand /\ [Next]_vars => InHand'
<1> SUFFICES ASSUME TypeOK, InHand, [Next]_vars
             PROVE  InHand'
  OBVIOUS
<1> USE ItemAssumption, BoundAssumption
<1>1. ASSUME NEW resume \in BOOLEAN, NEW found \in SUBSET Item, NEW failed \in SUBSET Item, Start(resume, found, failed) PROVE InHand'
  BY <1>1 DEF Start, Scans, Reconstructed, Fault, meshVars, fileVars, Nothing, NoFlags,
     TypeOK, InHand, Planned
<1>2. ASSUME NEW i \in Item, WriteBackup(i) PROVE InHand'
  BY <1>2 DEF WriteBackup, meshVars,
     TypeOK, InHand, Planned
<1>3. ASSUME NEW i \in Item, NEW o \in Outcome, PutTarget(i, o) PROVE InHand'
  BY <1>3 DEF PutTarget, Record, Call, Fault, Took, Returned, Outcome, fileVars,
     TypeOK, InHand, Planned
<1>4. ASSUME NEW i \in Item, NEW o \in Outcome, VerifyTarget(i, o) PROVE InHand'
  BY <1>4 DEF VerifyTarget, Record, Call, Fault, Outcome, meshVars, fileVars,
     TypeOK, InHand, Planned
<1>5. ASSUME NEW i \in Item, NEW o \in Outcome, DeleteSource(i, o) PROVE InHand'
  BY <1>5 DEF DeleteSource, Record, Call, Fault, Took, Returned, Outcome, fileVars,
     TypeOK, InHand, Planned
<1>6. ASSUME NEW i \in Item, NEW o \in Outcome, RepairTarget(i, o) PROVE InHand'
  BY <1>6 DEF RepairTarget, Record, Call, Fault, Took, Returned, Outcome, fileVars,
     TypeOK, InHand, Planned
<1>7. ASSUME NoBackupNeeded PROVE InHand'
  BY <1>7 DEF NoBackupNeeded, meshVars, fileVars,
     TypeOK, InHand, Planned
<1>8. ASSUME OpenCheckpoint PROVE InHand'
  BY <1>8 DEF OpenCheckpoint, Planned, NoFlags, meshVars,
     TypeOK, InHand, Planned
<1>9. ASSUME NEW b \in SUBSET todo, BeginBatch(b) PROVE InHand'
  BY <1>9 DEF BeginBatch, PutNeeded, meshVars, fileVars,
     TypeOK, InHand, Planned
<1>10. ASSUME Flush PROVE InHand'
  BY <1>10 DEF Flush, VerifyNeeded, DeleteNeeded, RepairNeeded, meshVars,
     TypeOK, InHand, Planned
<1>11. ASSUME Finish PROVE InHand'
  BY <1>11 DEF Finish, Forgotten, Nothing, NoFlags, meshVars, fileVars,
     TypeOK, InHand, Planned
<1>12. ASSUME Refuse PROVE InHand'
  BY <1>12 DEF Refuse, Fault, Forgotten, Nothing, NoFlags, meshVars, fileVars,
     TypeOK, InHand, Planned
<1>13. ASSUME Crash PROVE InHand'
  BY <1>13 DEF Crash, Fault, Forgotten, Nothing, NoFlags, meshVars, fileVars,
     TypeOK, InHand, Planned
<1>14. ASSUME NEW i \in Item, CrashInBackup(i) PROVE InHand'
  BY <1>14 DEF CrashInBackup, Fault, Forgotten, Nothing, NoFlags, meshVars,
     TypeOK, InHand, Planned
<1>15. ASSUME UNCHANGED vars PROVE InHand'
  BY <1>15 DEF vars, meshVars, fileVars, runVars,
     TypeOK, InHand, Planned
<1> QED
  BY <1>1, <1>2, <1>3, <1>4, <1>5, <1>6, <1>7, <1>8, <1>9, <1>10, <1>11, <1>12, <1>13, <1>14, <1>15 DEF Next, Run, Step, Advance,
     Operator

\* The flags of an item come in the order of the phases.
Ordered(flags) ==
  \A i \in Item : /\ "verified" \in flags[i] => "put" \in flags[i]
                  /\ "deleted" \in flags[i] => "verified" \in flags[i]
                  /\ "repaired" \in flags[i] => "deleted" \in flags[i]

\* ... on disk and in memory, because a phase only handles what passed the one before.
InOrder ==
  /\ Ordered(disk) /\ Ordered(chk)
  /\ pc = "verify" => \A i \in left : "put" \in chk[i]
  /\ pc = "delete" => \A i \in left : "verified" \in chk[i]
  /\ pc = "repair" => \A i \in left : "deleted" \in chk[i]

\* Every step keeps the order of the flags.
LEMMA InOrderStep ==
  TypeOK /\ InHand /\ InOrder /\ [Next]_vars => InOrder'
<1> SUFFICES ASSUME TypeOK, InHand, InOrder, [Next]_vars
             PROVE  InOrder'
  OBVIOUS
<1> USE ItemAssumption, BoundAssumption
<1>1. ASSUME NEW resume \in BOOLEAN, NEW found \in SUBSET Item, NEW failed \in SUBSET Item, Start(resume, found, failed) PROVE InOrder'
  BY <1>1 DEF Start, Scans, Reconstructed, Fault, meshVars, fileVars, Nothing, NoFlags,
     TypeOK, InHand, InOrder, Ordered
<1>2. ASSUME NEW i \in Item, WriteBackup(i) PROVE InOrder'
  BY <1>2 DEF WriteBackup, meshVars,
     TypeOK, InHand, InOrder, Ordered
<1>3. ASSUME NEW i \in Item, NEW o \in Outcome, PutTarget(i, o) PROVE InOrder'
  BY <1>3 DEF PutTarget, Record, Call, Fault, Took, Returned, Outcome, fileVars,
     TypeOK, InHand, InOrder, Ordered
<1>4. ASSUME NEW i \in Item, NEW o \in Outcome, VerifyTarget(i, o) PROVE InOrder'
  BY <1>4 DEF VerifyTarget, Record, Call, Fault, Outcome, meshVars, fileVars,
     TypeOK, InHand, InOrder, Ordered
<1>5. ASSUME NEW i \in Item, NEW o \in Outcome, DeleteSource(i, o) PROVE InOrder'
  BY <1>5 DEF DeleteSource, Record, Call, Fault, Took, Returned, Outcome, fileVars,
     TypeOK, InHand, InOrder, Ordered
<1>6. ASSUME NEW i \in Item, NEW o \in Outcome, RepairTarget(i, o) PROVE InOrder'
  BY <1>6 DEF RepairTarget, Record, Call, Fault, Took, Returned, Outcome, fileVars,
     TypeOK, InHand, InOrder, Ordered
<1>7. ASSUME NoBackupNeeded PROVE InOrder'
  BY <1>7 DEF NoBackupNeeded, meshVars, fileVars,
     TypeOK, InHand, InOrder, Ordered
<1>8. ASSUME OpenCheckpoint PROVE InOrder'
  BY <1>8 DEF OpenCheckpoint, Planned, NoFlags, meshVars,
     TypeOK, InHand, InOrder, Ordered
<1>9. ASSUME NEW b \in SUBSET todo, BeginBatch(b) PROVE InOrder'
  BY <1>9 DEF BeginBatch, PutNeeded, meshVars, fileVars,
     TypeOK, InHand, InOrder, Ordered
<1>10. ASSUME Flush PROVE InOrder'
  BY <1>10 DEF Flush, VerifyNeeded, DeleteNeeded, RepairNeeded, meshVars,
     TypeOK, InHand, InOrder, Ordered
<1>11. ASSUME Finish PROVE InOrder'
  BY <1>11 DEF Finish, Forgotten, Nothing, NoFlags, meshVars, fileVars,
     TypeOK, InHand, InOrder, Ordered
<1>12. ASSUME Refuse PROVE InOrder'
  BY <1>12 DEF Refuse, Fault, Forgotten, Nothing, NoFlags, meshVars, fileVars,
     TypeOK, InHand, InOrder, Ordered
<1>13. ASSUME Crash PROVE InOrder'
  BY <1>13 DEF Crash, Fault, Forgotten, Nothing, NoFlags, meshVars, fileVars,
     TypeOK, InHand, InOrder, Ordered
<1>14. ASSUME NEW i \in Item, CrashInBackup(i) PROVE InOrder'
  BY <1>14 DEF CrashInBackup, Fault, Forgotten, Nothing, NoFlags, meshVars,
     TypeOK, InHand, InOrder, Ordered
<1>15. ASSUME UNCHANGED vars PROVE InOrder'
  BY <1>15 DEF vars, meshVars, fileVars, runVars,
     TypeOK, InHand, InOrder, Ordered
<1> QED
  BY <1>1, <1>2, <1>3, <1>4, <1>5, <1>6, <1>7, <1>8, <1>9, <1>10, <1>11, <1>12, <1>13, <1>14, <1>15 DEF Next, Run, Step, Advance,
     Operator

\* Of an observation the run only ever holds the right payload, and what is recorded
\* as verified, or gone from its legacy key, is at the target.
Copied ==
  \A i \in Observation :
    /\ hand[i] \in {None, "good"}
    /\ "verified" \in chk[i] \cup disk[i] => target[i] = "good"
    /\ i \notin source => target[i] = "good"

\* Every step keeps the copies of observations.
LEMMA CopiedStep ==
  TypeOK /\ InHand /\ InOrder /\ Copied /\ [Next]_vars => Copied'
<1> SUFFICES ASSUME TypeOK, InHand, InOrder, Copied, [Next]_vars
             PROVE  Copied'
  OBVIOUS
<1> USE ItemAssumption, BoundAssumption
<1>1. ASSUME NEW resume \in BOOLEAN, NEW found \in SUBSET Item, NEW failed \in SUBSET Item, Start(resume, found, failed) PROVE Copied'
  BY <1>1 DEF Start, Scans, Reconstructed, Fault, meshVars, fileVars, Nothing, NoFlags,
     TypeOK, InHand, InOrder, Copied, Planned
<1>2. ASSUME NEW i \in Item, WriteBackup(i) PROVE Copied'
  BY <1>2 DEF WriteBackup, meshVars,
     TypeOK, InHand, InOrder, Copied, Planned
<1>3. ASSUME NEW i \in Item, NEW o \in Outcome, PutTarget(i, o) PROVE Copied'
  BY <1>3 DEF PutTarget, Record, Call, Fault, Took, Returned, Outcome, fileVars,
     TypeOK, InHand, InOrder, Copied, Planned
<1>4. ASSUME NEW i \in Item, NEW o \in Outcome, VerifyTarget(i, o) PROVE Copied'
  BY <1>4 DEF VerifyTarget, Record, Call, Fault, Outcome, meshVars, fileVars,
     TypeOK, InHand, InOrder, Copied, Planned
<1>5. ASSUME NEW i \in Item, NEW o \in Outcome, DeleteSource(i, o) PROVE Copied'
  BY <1>5 DEF DeleteSource, Record, Call, Fault, Took, Returned, Outcome, fileVars,
     TypeOK, InHand, InOrder, Copied, Planned
<1>6. ASSUME NEW i \in Item, NEW o \in Outcome, RepairTarget(i, o) PROVE Copied'
  BY <1>6 DEF RepairTarget, Record, Call, Fault, Took, Returned, Outcome, fileVars,
     TypeOK, InHand, InOrder, Copied, Planned
<1>7. ASSUME NoBackupNeeded PROVE Copied'
  BY <1>7 DEF NoBackupNeeded, meshVars, fileVars,
     TypeOK, InHand, InOrder, Copied, Planned
<1>8. ASSUME OpenCheckpoint PROVE Copied'
  BY <1>8 DEF OpenCheckpoint, Planned, NoFlags, meshVars,
     TypeOK, InHand, InOrder, Copied, Planned
<1>9. ASSUME NEW b \in SUBSET todo, BeginBatch(b) PROVE Copied'
  BY <1>9 DEF BeginBatch, PutNeeded, meshVars, fileVars,
     TypeOK, InHand, InOrder, Copied, Planned
<1>10. ASSUME Flush PROVE Copied'
  BY <1>10 DEF Flush, VerifyNeeded, DeleteNeeded, RepairNeeded, meshVars,
     TypeOK, InHand, InOrder, Copied, Planned
<1>11. ASSUME Finish PROVE Copied'
  BY <1>11 DEF Finish, Forgotten, Nothing, NoFlags, meshVars, fileVars,
     TypeOK, InHand, InOrder, Copied, Planned
<1>12. ASSUME Refuse PROVE Copied'
  BY <1>12 DEF Refuse, Fault, Forgotten, Nothing, NoFlags, meshVars, fileVars,
     TypeOK, InHand, InOrder, Copied, Planned
<1>13. ASSUME Crash PROVE Copied'
  BY <1>13 DEF Crash, Fault, Forgotten, Nothing, NoFlags, meshVars, fileVars,
     TypeOK, InHand, InOrder, Copied, Planned
<1>14. ASSUME NEW i \in Item, CrashInBackup(i) PROVE Copied'
  BY <1>14 DEF CrashInBackup, Fault, Forgotten, Nothing, NoFlags, meshVars,
     TypeOK, InHand, InOrder, Copied, Planned
<1>15. ASSUME UNCHANGED vars PROVE Copied'
  BY <1>15 DEF vars, meshVars, fileVars, runVars,
     TypeOK, InHand, InOrder, Copied, Planned
<1> QED
  BY <1>1, <1>2, <1>3, <1>4, <1>5, <1>6, <1>7, <1>8, <1>9, <1>10, <1>11, <1>12, <1>13, <1>14, <1>15 DEF Next, Run, Step, Advance,
     Operator

\* A conflict that was seen never enters a plan.
Untouched ==
  \A i \in Foreign \ misread :
    target[i] = "foreign" /\ i \in source /\ hand[i] = None /\ disk[i] = {} /\ chk[i] = {}

\* Every step leaves a seen conflict alone.
LEMMA UntouchedStep ==
  TypeOK /\ InHand /\ Untouched /\ [Next]_vars => Untouched'
<1> SUFFICES ASSUME TypeOK, InHand, Untouched, [Next]_vars
             PROVE  Untouched'
  OBVIOUS
<1> USE ItemAssumption, BoundAssumption
<1>1. ASSUME NEW resume \in BOOLEAN, NEW found \in SUBSET Item, NEW failed \in SUBSET Item, Start(resume, found, failed) PROVE Untouched'
  BY <1>1 DEF Start, Scans, Reconstructed, Fault, meshVars, fileVars, Nothing, NoFlags,
     TypeOK, InHand, Untouched, Planned, Conflicts
<1>2. ASSUME NEW i \in Item, WriteBackup(i) PROVE Untouched'
  BY <1>2 DEF WriteBackup, meshVars,
     TypeOK, InHand, Untouched, Planned, Conflicts
<1>3. ASSUME NEW i \in Item, NEW o \in Outcome, PutTarget(i, o) PROVE Untouched'
  BY <1>3 DEF PutTarget, Record, Call, Fault, Took, Returned, Outcome, fileVars,
     TypeOK, InHand, Untouched, Planned, Conflicts
<1>4. ASSUME NEW i \in Item, NEW o \in Outcome, VerifyTarget(i, o) PROVE Untouched'
  BY <1>4 DEF VerifyTarget, Record, Call, Fault, Outcome, meshVars, fileVars,
     TypeOK, InHand, Untouched, Planned, Conflicts
<1>5. ASSUME NEW i \in Item, NEW o \in Outcome, DeleteSource(i, o) PROVE Untouched'
  BY <1>5 DEF DeleteSource, Record, Call, Fault, Took, Returned, Outcome, fileVars,
     TypeOK, InHand, Untouched, Planned, Conflicts
<1>6. ASSUME NEW i \in Item, NEW o \in Outcome, RepairTarget(i, o) PROVE Untouched'
  BY <1>6 DEF RepairTarget, Record, Call, Fault, Took, Returned, Outcome, fileVars,
     TypeOK, InHand, Untouched, Planned, Conflicts
<1>7. ASSUME NoBackupNeeded PROVE Untouched'
  BY <1>7 DEF NoBackupNeeded, meshVars, fileVars,
     TypeOK, InHand, Untouched, Planned, Conflicts
<1>8. ASSUME OpenCheckpoint PROVE Untouched'
  BY <1>8 DEF OpenCheckpoint, Planned, NoFlags, meshVars,
     TypeOK, InHand, Untouched, Planned, Conflicts
<1>9. ASSUME NEW b \in SUBSET todo, BeginBatch(b) PROVE Untouched'
  BY <1>9 DEF BeginBatch, PutNeeded, meshVars, fileVars,
     TypeOK, InHand, Untouched, Planned, Conflicts
<1>10. ASSUME Flush PROVE Untouched'
  BY <1>10 DEF Flush, VerifyNeeded, DeleteNeeded, RepairNeeded, meshVars,
     TypeOK, InHand, Untouched, Planned, Conflicts
<1>11. ASSUME Finish PROVE Untouched'
  BY <1>11 DEF Finish, Forgotten, Nothing, NoFlags, meshVars, fileVars,
     TypeOK, InHand, Untouched, Planned, Conflicts
<1>12. ASSUME Refuse PROVE Untouched'
  BY <1>12 DEF Refuse, Fault, Forgotten, Nothing, NoFlags, meshVars, fileVars,
     TypeOK, InHand, Untouched, Planned, Conflicts
<1>13. ASSUME Crash PROVE Untouched'
  BY <1>13 DEF Crash, Fault, Forgotten, Nothing, NoFlags, meshVars, fileVars,
     TypeOK, InHand, Untouched, Planned, Conflicts
<1>14. ASSUME NEW i \in Item, CrashInBackup(i) PROVE Untouched'
  BY <1>14 DEF CrashInBackup, Fault, Forgotten, Nothing, NoFlags, meshVars,
     TypeOK, InHand, Untouched, Planned, Conflicts
<1>15. ASSUME UNCHANGED vars PROVE Untouched'
  BY <1>15 DEF vars, meshVars, fileVars, runVars,
     TypeOK, InHand, Untouched, Planned, Conflicts
<1> QED
  BY <1>1, <1>2, <1>3, <1>4, <1>5, <1>6, <1>7, <1>8, <1>9, <1>10, <1>11, <1>12, <1>13, <1>14, <1>15 DEF Next, Run, Step, Advance,
     Operator

\* As long as nothing failed, what a phase has left behind has passed it.
Passed ==
  clean =>
    /\ pc \in {"next", "put", "verify", "delete", "repair"} =>
         \A i \in Planned \ todo : "repaired" \in chk[i]
    /\ pc = "put" => \A i \in batch \ left : "put" \in chk[i]
    /\ pc = "verify" => \A i \in batch : "put" \in chk[i] /\ (i \notin left => "verified" \in chk[i])
    /\ pc = "delete" => \A i \in batch : "verified" \in chk[i] /\ (i \notin left => "deleted" \in chk[i])
    /\ pc = "repair" => \A i \in batch : "deleted" \in chk[i] /\ (i \notin left => "repaired" \in chk[i])

\* Every step of a clean run leaves behind only what passed its phase.
LEMMA PassedStep ==
  TypeOK /\ InHand /\ Passed /\ [Next]_vars => Passed'
<1> SUFFICES ASSUME TypeOK, InHand, Passed, [Next]_vars
             PROVE  Passed'
  OBVIOUS
<1> USE ItemAssumption, BoundAssumption
<1>1. ASSUME NEW resume \in BOOLEAN, NEW found \in SUBSET Item, NEW failed \in SUBSET Item, Start(resume, found, failed) PROVE Passed'
  BY <1>1 DEF Start, Scans, Reconstructed, Fault, meshVars, fileVars, Nothing, NoFlags,
     TypeOK, InHand, Passed, Planned
<1>2. ASSUME NEW i \in Item, WriteBackup(i) PROVE Passed'
  BY <1>2 DEF WriteBackup, meshVars,
     TypeOK, InHand, Passed, Planned
<1>3. ASSUME NEW i \in Item, NEW o \in Outcome, PutTarget(i, o) PROVE Passed'
  BY <1>3 DEF PutTarget, Record, Call, Fault, Took, Returned, Outcome, fileVars,
     TypeOK, InHand, Passed, Planned
<1>4. ASSUME NEW i \in Item, NEW o \in Outcome, VerifyTarget(i, o) PROVE Passed'
  BY <1>4 DEF VerifyTarget, Record, Call, Fault, Outcome, meshVars, fileVars,
     TypeOK, InHand, Passed, Planned
<1>5. ASSUME NEW i \in Item, NEW o \in Outcome, DeleteSource(i, o) PROVE Passed'
  BY <1>5 DEF DeleteSource, Record, Call, Fault, Took, Returned, Outcome, fileVars,
     TypeOK, InHand, Passed, Planned
<1>6. ASSUME NEW i \in Item, NEW o \in Outcome, RepairTarget(i, o) PROVE Passed'
  BY <1>6 DEF RepairTarget, Record, Call, Fault, Took, Returned, Outcome, fileVars,
     TypeOK, InHand, Passed, Planned
<1>7. ASSUME NoBackupNeeded PROVE Passed'
  BY <1>7 DEF NoBackupNeeded, meshVars, fileVars,
     TypeOK, InHand, Passed, Planned
<1>8. ASSUME OpenCheckpoint PROVE Passed'
  BY <1>8 DEF OpenCheckpoint, Planned, NoFlags, meshVars,
     TypeOK, InHand, Passed, Planned
<1>9. ASSUME NEW b \in SUBSET todo, BeginBatch(b) PROVE Passed'
  BY <1>9 DEF BeginBatch, PutNeeded, meshVars, fileVars,
     TypeOK, InHand, Passed, Planned
<1>10. ASSUME Flush PROVE Passed'
  BY <1>10 DEF Flush, VerifyNeeded, DeleteNeeded, RepairNeeded, meshVars,
     TypeOK, InHand, Passed, Planned
<1>11. ASSUME Finish PROVE Passed'
  BY <1>11 DEF Finish, Forgotten, Nothing, NoFlags, meshVars, fileVars,
     TypeOK, InHand, Passed, Planned
<1>12. ASSUME Refuse PROVE Passed'
  BY <1>12 DEF Refuse, Fault, Forgotten, Nothing, NoFlags, meshVars, fileVars,
     TypeOK, InHand, Passed, Planned
<1>13. ASSUME Crash PROVE Passed'
  BY <1>13 DEF Crash, Fault, Forgotten, Nothing, NoFlags, meshVars, fileVars,
     TypeOK, InHand, Passed, Planned
<1>14. ASSUME NEW i \in Item, CrashInBackup(i) PROVE Passed'
  BY <1>14 DEF CrashInBackup, Fault, Forgotten, Nothing, NoFlags, meshVars,
     TypeOK, InHand, Passed, Planned
<1>15. ASSUME UNCHANGED vars PROVE Passed'
  BY <1>15 DEF vars, meshVars, fileVars, runVars,
     TypeOK, InHand, Passed, Planned
<1> QED
  BY <1>1, <1>2, <1>3, <1>4, <1>5, <1>6, <1>7, <1>8, <1>9, <1>10, <1>11, <1>12, <1>13, <1>14, <1>15 DEF Next, Run, Step, Advance,
     Operator

-----------------------------------------------------------------------------

IInv == TypeOK /\ InHand /\ InOrder /\ Copied /\ Untouched /\ Passed

\* Before the tool is first run nothing is planned, recorded or gone.
LEMMA Start0 ==
  Init => IInv
<1> SUFFICES ASSUME Init PROVE IInv
  OBVIOUS
<1> USE ItemAssumption, BoundAssumption DEF Init, Nothing, NoFlags
<1>1. TypeOK
  <2>1. target \in [Item -> {None, "good", "torn", "foreign"}]
    OBVIOUS
  <2>2. /\ backup \in [Item -> {None, "good", "torn"}] /\ hand \in [Item -> {None, "good", "torn"}]
        /\ disk \in [Item -> SUBSET Flag] /\ chk \in [Item -> SUBSET Flag]
    OBVIOUS
  <2>3. /\ source \subseteq Item /\ kept \subseteq Item /\ saved \in BOOLEAN /\ clean \in BOOLEAN
        /\ todo \subseteq Item /\ batch \subseteq Item /\ left \subseteq Item /\ misread \subseteq Item
    OBVIOUS
  <2>4. pc \in Phase /\ faults \in 0..MaxFaults
    BY DEF Phase
  <2> QED BY <2>1, <2>2, <2>3, <2>4, Zenon DEF TypeOK
<1>2. InHand
  BY DEF InHand, Planned
<1>3. InOrder
  BY DEF InOrder, Ordered
<1>4. Copied
  BY DEF Copied
<1>5. Untouched
  BY DEF Untouched
<1>6. Passed
  BY DEF Passed, Planned
<1> QED BY <1>1, <1>2, <1>3, <1>4, <1>5, <1>6 DEF IInv

\* The inductive invariant of migrate-visibility.
THEOREM MigrationInvariant ==
  Spec => []IInv
<1>1. IInv /\ [Next]_vars => IInv'
  BY TypeStep, InHandStep, InOrderStep, CopiedStep, UntouchedStep, PassedStep DEF IInv
<1> QED BY Start0, <1>1, PTL DEF Spec

\* Every variable keeps its type, for any items, batch size and number of faults.
THEOREM TypeCorrect ==
  Spec => []TypeOK
<1>1. IInv => TypeOK
  BY DEF IInv
<1> QED BY <1>1, MigrationInvariant, PTL

\* The legacy key of an observation goes only when its target holds the payload,
\* through any crashes and resumed runs (visibility_migration.py, phase DELETE).
THEOREM NothingDeletedUnverified ==
  Spec => []VerifiedBeforeDeleted
<1>1. IInv => VerifiedBeforeDeleted
  BY DEF IInv, Copied, VerifiedBeforeDeleted
<1> QED BY <1>1, MigrationInvariant, PTL

\* A target that holds another payload is left alone, and so is its source, unless
\* the read that would have shown the conflict failed (build_migration_plan).
THEOREM ConflictsLeftAlone ==
  Spec => []ConflictsKept
<1>1. IInv => ConflictsKept
  BY DEF IInv, Untouched, ConflictsKept
<1> QED BY <1>1, MigrationInvariant, PTL

\* Exit code 0 means that what was planned has been moved (_cmd_migrate_visibility).
THEOREM CleanExitMeansMoved ==
  Spec => ExitZeroMeansMoved
<1>1. IInv /\ Finish /\ clean =>
        \A i \in Planned : /\ "repaired" \in chk[i]
                           /\ i \in Observation => target[i] = "good"
  BY DEF IInv, Finish, Passed, Planned, InOrder, Ordered, Copied
<1> QED BY <1>1, MigrationInvariant, PTL DEF ExitZeroMeansMoved

-----------------------------------------------------------------------------
(***************************************************************************)
(* scope-migrate.                                                          *)
(***************************************************************************)

\* The manifest's keys the checkpoint does not name.
Left == Keys(file.of) \ file.done

\* The checkpoint a run works on, and what the run has yet to PUT.
ReplayOK ==
  /\ file # Absent => file \in Checkpoints
  /\ manifest # Absent => manifest \in Holding
  /\ stage # "idle" => /\ manifest # Absent /\ file # Absent /\ file.of = manifest
                       /\ file.done \subseteq done /\ done \subseteq sent
                       /\ pending = Left
                       /\ remaining \subseteq pending
                       /\ verdict = "none"
  /\ stage = "put" => remaining = FirstBatch(Left) \ done /\ done \ file.done \subseteq FirstBatch(Left)
  /\ stage \in {"batch", "verify"} => done = file.done

\* What was PUT and is not in the checkpoint belongs to its next batch.
BatchInv ==
  /\ sent \subseteq Key
  /\ file = Absent => sent = {}
  /\ file # Absent => file.done \subseteq sent /\ sent \ file.done \subseteq FirstBatch(Left)

\* The manifest has every key of the broad storages, and once it has been verified
\* the mesh storages have every key of the manifest.
MovedInv ==
  /\ old \in [Peer -> Holding] /\ new \in [Peer -> Holding]
  /\ final \subseteq Peer
  /\ whole => /\ manifest # Absent
              /\ \A p \in Peer, k \in Key : old[p][k] # Absent => old[p][k] = manifest[k]
  /\ verdict = "ok" => /\ manifest # Absent /\ final = Peer
                       /\ \A k \in Keys(manifest) : \E q \in Peer : new[q][k] = manifest[k]

ScopeInv == ReplayOK /\ BatchInv /\ MovedInv

-----------------------------------------------------------------------------
(* Batches. *)

Below(S, k) == {j \in S : j < k}

\* A batch has at most Batch keys: those below a key of it are fewer, and no two
\* keys have equally many below them.
LEMMA FirstBatchSize ==
  ASSUME NEW S \in SUBSET Key
  PROVE  IsFiniteSet(FirstBatch(S)) /\ Cardinality(FirstBatch(S)) <= Batch
<1> DEFINE rank == [k \in FirstBatch(S) |-> Cardinality(Below(S, k))]
<1>1. IsFiniteSet(S) /\ S \subseteq Nat
  BY CutoverAssumption, FS_Subset
<1>2. \A k \in S : IsFiniteSet(Below(S, k)) /\ Cardinality(Below(S, k)) \in Nat
  <2> SUFFICES ASSUME NEW k \in S PROVE IsFiniteSet(Below(S, k)) /\ Cardinality(Below(S, k)) \in Nat
    OBVIOUS
  <2>1. Below(S, k) \in SUBSET S
    BY DEF Below
  <2> QED
    BY <1>1, <2>1, FS_Subset, FS_CardinalityType
<1>3. ASSUME NEW j \in S, NEW k \in S, j < k PROVE Cardinality(Below(S, j)) # Cardinality(Below(S, k))
  <2>1. j \in Nat /\ k \in Nat
    BY <1>1
  <2>2. Below(S, j) \in SUBSET Below(S, k)
    <3> SUFFICES ASSUME NEW i \in S, i < j PROVE i < k
      BY DEF Below
    <3>1. i \in Nat
      BY <1>1
    <3> QED
      BY <1>3, <2>1, <3>1
  <2>3. j \in Below(S, k) /\ j \notin Below(S, j)
    BY <1>3, <2>1 DEF Below
  <2> QED
    BY <1>2, <2>2, <2>3, FS_Subset
<1>4. FirstBatch(S) \subseteq S /\ \A k \in FirstBatch(S) : Cardinality(Below(S, k)) < Batch
  BY DEF FirstBatch, Below
<1>5. rank \in Injection(FirstBatch(S), 0..(Batch - 1))
  <2>1. rank \in [FirstBatch(S) -> 0..(Batch - 1)]
    <3> SUFFICES ASSUME NEW k \in FirstBatch(S) PROVE Cardinality(Below(S, k)) \in 0..(Batch - 1)
      OBVIOUS
    <3>1. Cardinality(Below(S, k)) \in Nat /\ Cardinality(Below(S, k)) < Batch
      BY <1>2, <1>4
    <3> QED
      BY <3>1, CutoverAssumption
  <2>2. \A j, k \in FirstBatch(S) : rank[j] = rank[k] => j = k
    <3> SUFFICES ASSUME NEW j \in FirstBatch(S), NEW k \in FirstBatch(S), j # k
                 PROVE  Cardinality(Below(S, j)) # Cardinality(Below(S, k))
      OBVIOUS
    <3>1. j \in S /\ k \in S /\ j \in Nat /\ k \in Nat
      BY <1>1, <1>4
    <3>2. j < k \/ k < j
      BY <3>1
    <3> QED
      BY <1>3, <3>1, <3>2
  <2> QED
    BY <2>1, <2>2 DEF Injection, IsInjective
<1>6. IsFiniteSet(0..(Batch - 1)) /\ Cardinality(0..(Batch - 1)) = Batch
  BY CutoverAssumption, FS_Interval
<1> QED
  BY <1>5, <1>6, FS_Injection

\* A key of the next batch stays in it when keys are taken from what is left.
LEMMA FirstBatchShrinks ==
  ASSUME NEW S \in SUBSET Key, NEW R \in SUBSET S
  PROVE  FirstBatch(S) \cap R \subseteq FirstBatch(R)
<1> SUFFICES ASSUME NEW k \in FirstBatch(S), k \in R PROVE k \in FirstBatch(R)
  OBVIOUS
<1> DEFINE u == {j \in S : j < k}
           v == {j \in R : j < k}
<1>1. IsFiniteSet(u) /\ v \in SUBSET u
  BY CutoverAssumption, FS_Subset
<1>2. Cardinality(v) <= Cardinality(u) /\ Cardinality(u) \in Nat /\ Cardinality(v) \in Nat
  BY <1>1, FS_Subset, FS_CardinalityType
<1>3. Cardinality(u) < Batch
  BY DEF FirstBatch
<1>4. Cardinality(v) < Batch
  BY <1>2, <1>3, CutoverAssumption
<1> QED
  BY <1>4 DEF FirstBatch

-----------------------------------------------------------------------------
(* The re-PUT. *)

\* Before a cutover nothing is exported and nothing replayed.
LEMMA ReplayInit == ScopeInit => ReplayOK /\ BatchInv /\ MovedInv
<1> SUFFICES ASSUME ScopeInit PROVE ReplayOK /\ BatchInv /\ MovedInv
  OBVIOUS
<1>1. ReplayOK /\ BatchInv
  BY DEF ScopeInit, ReplayOK, BatchInv
<1>2. new \in [Peer -> Holding]
  BY DEF ScopeInit, Holding
<1> QED
  BY <1>1, <1>2 DEF ScopeInit, MovedInv

\* A manifest has a payload or none for every key.
LEMMA UnionTyped ==
  ASSUME MovedInv, NEW replies \in SUBSET Answers(Peer)
  PROVE  Union(replies) \in Holding
<1> SUFFICES ASSUME NEW k \in Key PROVE Union(replies)[k] \in Payload \cup {Absent}
  BY DEF Union, Holding
<1>1. \A r \in replies : r[3] \in Payload \cup {Absent}
  BY DEF Answers, Replies, MovedInv, Holding
<1>2. CASE \E r \in replies : r[2] = k
  <2>1. Union(replies)[k] = (CHOOSE r \in replies : r[2] = k)[3]
    BY <1>2 DEF Union
  <2> QED
    BY <1>1, <1>2, <2>1
<1>3. CASE ~\E r \in replies : r[2] = k
  BY <1>3 DEF Union
<1> QED
  BY <1>2, <1>3

\* What a run has done follows the checkpoint and the batches.
LEMMA ReplayStep == ScopeInv /\ [ScopeNext]_scopeVars => ReplayOK'
<1> SUFFICES ASSUME ReplayOK, BatchInv, MovedInv, [ScopeNext]_scopeVars PROVE ReplayOK'
  BY DEF ScopeInv
<1> USE DEF ReplayOK, storageVars, planVars, replayVars
<1>1. ASSUME NEW replies \in SUBSET Answers(Peer), BuildManifest(replies) PROVE ReplayOK'
  <2>1. manifest' \in Holding
    BY <1>1, UnionTyped DEF BuildManifest
  <2> QED
    BY <1>1, <2>1 DEF BuildManifest
<1>2. ASSUME NEW p \in Peer, Restart(p) PROVE ReplayOK'
  BY <1>2 DEF Restart, Left
<1>3. ASSUME NEW k \in Key, NEW v \in Payload, EarlySave(k, v) PROVE ReplayOK'
  BY <1>3 DEF EarlySave, Left
<1>4. CASE StartReplay
  <2>1. file' \in Checkpoints /\ file'.of = manifest
    BY <1>4 DEF StartReplay, Bound, Checkpoints
  <2>2. file'.done \subseteq sent
    BY <1>4 DEF StartReplay, BatchInv
  <2>3. file' # Absent /\ Left' = Keys(manifest) \ file'.done
    BY <1>4, <2>1, AbsentIsNone DEF StartReplay, Left, Keys
  <2>4. /\ stage' = "batch" /\ done' = file'.done /\ pending' = Left' /\ remaining' = {}
        /\ manifest' = manifest /\ manifest # Absent /\ verdict' = "none" /\ sent' = sent
    BY <1>4, <2>3 DEF StartReplay
  <2> QED
    BY <2>1, <2>2, <2>3, <2>4
<1>5. CASE FreshCheckpoint
  BY <1>5 DEF FreshCheckpoint, Left
<1>6. CASE StartBatch
  BY <1>6 DEF StartBatch, Left, FirstBatch
<1>7. ASSUME Raise, stage # "idle", UNCHANGED <<planVars, sent, verdict>> PROVE ReplayOK'
  <2>1. file \in Checkpoints /\ done \subseteq Key
    BY <1>7 DEF BatchInv
  <2> QED
    BY <1>7, <2>1 DEF Raise, Stopped, Checkpoints
<1>8. CASE GateRefuses
  BY <1>7, <1>8 DEF GateRefuses
<1>9. ASSUME NEW k \in remaining, NEW reached \in SUBSET Peer, Put(k, reached) PROVE ReplayOK'
  BY <1>9 DEF Put, NextOfBatch, Left
<1>10. ASSUME NEW k \in remaining, NEW reached \in SUBSET Peer, PutRaises(k, reached) PROVE ReplayOK'
  BY <1>7, <1>10 DEF PutRaises, NextOfBatch
<1>11. CASE EndBatch
  <2>1. file \in Checkpoints /\ done \subseteq Key /\ file' = [file EXCEPT !.done = done]
    BY <1>11 DEF EndBatch, BatchInv
  <2>2. file' \in Checkpoints /\ file'.of = file.of /\ file'.done = done
    BY <2>1 DEF Checkpoints
  <2>3. Left' = Left \ done
    BY <1>11, <2>2 DEF EndBatch, Left, Keys
  <2>4. /\ stage' = "batch" /\ done' = done /\ pending' = Left' /\ remaining' = {}
        /\ manifest' = manifest /\ sent' = sent /\ verdict' = verdict
    BY <1>11, <2>3 DEF EndBatch
  <2>5. file' # Absent
    BY <2>2, AbsentIsNone
  <2> QED
    BY <1>11, <2>2, <2>4, <2>5 DEF EndBatch
<1>12. CASE EndReplay
  BY <1>12 DEF EndReplay, Left
<1>13. ASSUME NEW replies \in SUBSET Answers(Peer), NEW live \in Holding, Verify(replies, live) PROVE ReplayOK'
  BY <1>13 DEF Verify, Stopped
<1>14. CASE ScopeCrash
  BY <1>14 DEF ScopeCrash, Stopped
<1>15. CASE UNCHANGED scopeVars
  BY <1>15 DEF scopeVars, Left
<1> QED
  BY <1>1, <1>2, <1>3, <1>4, <1>5, <1>6, <1>8, <1>9, <1>10, <1>11, <1>12, <1>13, <1>14, <1>15 DEF ScopeNext

\* What was PUT since the checkpoint stays within its next batch.
LEMMA BatchStep == ReplayOK /\ BatchInv /\ [ScopeNext]_scopeVars => BatchInv'
<1> SUFFICES ASSUME ReplayOK, BatchInv, [ScopeNext]_scopeVars PROVE BatchInv'
  OBVIOUS
<1> USE DEF ReplayOK, storageVars, planVars, replayVars
<1>1. CASE file' = file /\ sent' = sent
  BY <1>1 DEF BatchInv, Left
<1>2. CASE StartReplay
  BY <1>2 DEF StartReplay, BatchInv, Left, Keys, Holding, FirstBatch
<1>3. CASE FreshCheckpoint
  BY <1>3 DEF FreshCheckpoint, BatchInv
<1>4. ASSUME stage # "idle", file' = [file EXCEPT !.done = done], sent' = sent PROVE BatchInv'
  <2>1. file \in Checkpoints /\ done \subseteq Key
    BY <1>4 DEF BatchInv
  <2>2. file' \in Checkpoints /\ file'.of = file.of /\ file'.done = done
    BY <1>4, <2>1 DEF Checkpoints
  <2>3. Left \in SUBSET Key /\ Left' \in SUBSET Left /\ Left' = Left \ done
    BY <1>4, <2>2 DEF Left, Keys
  <2>4. FirstBatch(Left) \cap Left' \subseteq FirstBatch(Left')
    BY <2>3, FirstBatchShrinks
  <2>5. sent \ done \subseteq FirstBatch(Left) \cap Left'
    BY <1>4, <2>3 DEF BatchInv, FirstBatch
  <2>6. file' # Absent => file'.done \subseteq sent' /\ sent' \ file'.done \subseteq FirstBatch(Left')
    BY <1>4, <2>2, <2>4, <2>5
  <2>7. file' # Absent
    BY <2>2, AbsentIsNone
  <2> QED
    BY <1>4, <2>6, <2>7 DEF BatchInv
<1>5. CASE GateRefuses
  BY <1>4, <1>5 DEF GateRefuses, Raise
<1>6. ASSUME NEW k \in remaining, NEW reached \in SUBSET Peer, PutRaises(k, reached) PROVE BatchInv'
  BY <1>4, <1>6 DEF PutRaises, NextOfBatch, Raise
<1>7. CASE EndBatch
  BY <1>4, <1>7 DEF EndBatch
<1>8. ASSUME NEW k \in remaining, NEW reached \in SUBSET Peer, Put(k, reached) PROVE BatchInv'
  BY <1>8 DEF Put, NextOfBatch, BatchInv, Left, Keys
<1> QED
  BY <1>1, <1>2, <1>3, <1>5, <1>6, <1>7, <1>8
  DEF ScopeNext, scopeVars, BuildManifest, Restart, EarlySave, StartBatch, EndReplay, Verify, ScopeCrash

-----------------------------------------------------------------------------
(* The manifest. *)

\* A manifest whose answers were all whole has what every broad storage held: as
\* many routers answered as there are peers, so every peer did.
LEMMA WholeManifest ==
  ASSUME MovedInv, NEW replies \in SUBSET Answers(Peer), BuildManifest(replies), whole'
  PROVE  \A p \in Peer, k \in Key : old[p][k] # Absent => old[p][k] = Union(replies)[k]
<1>1. final = {} /\ Cardinality(Reached(replies)) = Cardinality(Peer) /\ Agreed(replies)
  BY PeersCounted DEF BuildManifest
<1>2. Reached(replies) \in SUBSET Peer
  BY DEF Reached, Answers, Replies
<1>3. Reached(replies) = Peer
  BY <1>1, <1>2, CutoverAssumption, FS_Subset
<1>4. \A r \in Answers(Peer) : r[1] \in Peer
  BY DEF Answers, Replies
<1>5. \A r \in Answers(Peer) : r \in replies
  BY <1>3, <1>4 DEF BuildManifest
<1> SUFFICES ASSUME NEW p \in Peer, NEW k \in Key, old[p][k] # Absent
             PROVE  old[p][k] = Union(replies)[k]
  OBVIOUS
<1>6. <<p, k, old[p][k]>> \in replies
  BY <1>1, <1>5 DEF Answers, Replies
<1> DEFINE r == CHOOSE s \in replies : s[2] = k
<1>7. r \in replies /\ r[2] = k
  BY <1>6
<1>8. Union(replies)[k] = r[3]
  BY <1>7 DEF Union
<1>9. r[3] = old[p][k]
  BY <1>1, <1>6, <1>7 DEF Agreed
<1> QED
  BY <1>8, <1>9

\* The manifest stays complete, and a verdict stays true.
LEMMA MovedStep == ScopeInv /\ [ScopeNext]_scopeVars => MovedInv'
<1> SUFFICES ASSUME ReplayOK, BatchInv, MovedInv, ReplayOK', [ScopeNext]_scopeVars PROVE MovedInv'
  BY ReplayStep DEF ScopeInv
<1> USE DEF storageVars, planVars, replayVars
<1>1. CASE UNCHANGED <<storageVars, planVars>> /\ verdict' \in {verdict, "none"}
  BY <1>1 DEF MovedInv, Keys
<1>2. ASSUME NEW replies \in SUBSET Answers(Peer), BuildManifest(replies) PROVE MovedInv'
  <2>1. Peer # {} /\ final = {} /\ UNCHANGED <<storageVars, verdict>> /\ manifest' = Union(replies)
    BY <1>2, CutoverAssumption DEF BuildManifest
  <2>2. manifest' # Absent
    BY <2>1, UnionTyped, AbsentIsNone
  <2>3. whole' => \A p \in Peer, k \in Key : old[p][k] # Absent => old[p][k] = manifest'[k]
    BY <1>2, <2>1, WholeManifest
  <2> QED
    BY <2>1, <2>2, <2>3 DEF MovedInv
<1>3. ASSUME NEW p \in Peer, Restart(p) PROVE MovedInv'
  BY <1>3 DEF Restart, MovedInv, Keys
<1>4. ASSUME NEW k \in Key, NEW v \in Payload, EarlySave(k, v) PROVE MovedInv'
  <2>1. /\ new' \in [Peer -> Holding]
        /\ \A p \in Peer, j \in Key : new'[p][j] = IF j = k THEN v ELSE new[p][j]
        /\ \A p \in Peer : new[p][k] = Absent
    BY <1>4 DEF EarlySave, MovedInv, Holding
  <2>2. UNCHANGED <<old, final, planVars, verdict>>
    BY <1>4 DEF EarlySave
  <2>3. ASSUME verdict = "ok", NEW j \in Keys(manifest) PROVE \E q \in Peer : new'[q][j] = manifest[j]
    <3>1. PICK q \in Peer : new[q][j] = manifest[j]
      BY <2>3 DEF MovedInv
    <3>2. j \in Key /\ j # k
      BY <2>1, <3>1 DEF Keys
    <3> QED
      BY <2>1, <3>1, <3>2
  <2> QED
    BY <2>1, <2>2, <2>3 DEF MovedInv, Keys
<1>5. ASSUME NEW k \in remaining, NEW reached \in SUBSET Peer, Put(k, reached) \/ PutRaises(k, reached)
      PROVE  MovedInv'
  <2>1. /\ stage = "put" /\ verdict' = "none" /\ k \in Key /\ manifest \in Holding
        /\ final' = final /\ manifest' = manifest /\ whole' = whole /\ Mirrored(k, reached)
    BY <1>5 DEF Put, PutRaises, NextOfBatch, ReplayOK, Left, Keys
  <2>2. manifest[k] \in Payload \cup {Absent}
    BY <2>1 DEF Holding
  <2>3. new' \in [Peer -> Holding]
    BY <2>1, <2>2 DEF Mirrored, MovedInv, Holding
  <2>4. /\ old' \in [Peer -> Holding]
        /\ \A p \in Peer, j \in Key : old'[p][j] \in {old[p][j], manifest[j]}
    BY <2>1, <2>2 DEF Mirrored, MovedInv, Holding
  <2> QED
    BY <2>1, <2>3, <2>4 DEF MovedInv
<1>6. ASSUME NEW replies \in SUBSET Answers(Peer), NEW live \in Holding, Verify(replies, live) PROVE MovedInv'
  <2>1. stage = "verify" /\ manifest # Absent /\ UNCHANGED <<storageVars, planVars>>
    BY <1>6 DEF Verify, ReplayOK
  <2>2. ASSUME verdict' = "ok" PROVE live = manifest /\ final = Peer
    BY <1>6, <2>2 DEF Verify
  <2>3. ASSUME verdict' = "ok", NEW k \in Keys(manifest) PROVE \E q \in Peer : new[q][k] = manifest[k]
    <3>1. k \in Key /\ live[k] = manifest[k] /\ live[k] # Absent
      BY <2>2, <2>3 DEF Keys
    <3>2. PICK r \in replies : r[2] = k /\ r[3] = live[k]
      BY <1>6, <3>1 DEF Verify
    <3>3. \E q \in Peer : r[3] = new[q][k]
      BY <2>2, <2>3, <3>2 DEF Answers, Replies
    <3> QED
      BY <3>1, <3>2, <3>3
  <2> QED
    BY <2>1, <2>2, <2>3 DEF MovedInv, Keys
<1> QED
  BY <1>1, <1>2, <1>3, <1>4, <1>5, <1>6
  DEF ScopeNext, scopeVars, StartReplay, FreshCheckpoint, StartBatch, GateRefuses, EndBatch,
      EndReplay, ScopeCrash

-----------------------------------------------------------------------------

\* Every behaviour of the cutover keeps the checkpoint, the batches and the verdict
\* consistent.
THEOREM ScopeInvariant == ScopeSpec => []ScopeInv
<1>1. ScopeInit => ScopeInv
  BY ReplayInit DEF ScopeInv
<1>2. ScopeInv /\ [ScopeNext]_scopeVars => ScopeInv'
  BY ReplayStep, BatchStep, MovedStep DEF ScopeInv
<1> QED
  BY <1>1, <1>2, PTL DEF ScopeSpec

-----------------------------------------------------------------------------
(* Types. *)

\* Outside a run nothing is in hand.
RestOK ==
  /\ stage \in {"idle", "batch", "put", "verify"} /\ whole \in BOOLEAN
  /\ stage = "idle" => done = {} /\ pending = {} /\ remaining = {}
  /\ verdict \in {"none", "ok", "failed", "lagging"}

\* A run starts from nothing and leaves nothing in memory, however it ends.
LEMMA RestStep == ScopeInv /\ RestOK /\ [ScopeNext]_scopeVars => RestOK'
<1> SUFFICES ASSUME RestOK, [ScopeNext]_scopeVars PROVE RestOK'
  OBVIOUS
<1> USE DEF RestOK, storageVars, planVars, replayVars
<1>1. ASSUME NEW replies, BuildManifest(replies) PROVE RestOK'
  BY <1>1 DEF BuildManifest
<1>2. ASSUME NEW p, Restart(p) PROVE RestOK'
  BY <1>2 DEF Restart
<1>3. ASSUME NEW k, NEW v, EarlySave(k, v) PROVE RestOK'
  BY <1>3 DEF EarlySave
<1>4. CASE StartReplay \/ FreshCheckpoint \/ StartBatch \/ EndBatch \/ EndReplay
  BY <1>4 DEF StartReplay, FreshCheckpoint, StartBatch, EndBatch, EndReplay
<1>5. CASE GateRefuses \/ ScopeCrash
  BY <1>5 DEF GateRefuses, ScopeCrash, Raise, Stopped
<1>6. ASSUME NEW k, NEW reached, Put(k, reached) PROVE RestOK'
  BY <1>6 DEF Put, NextOfBatch
<1>9. ASSUME NEW k, NEW reached, PutRaises(k, reached) PROVE RestOK'
  BY <1>9 DEF PutRaises, Raise, Stopped
<1>7. ASSUME NEW replies, NEW live, Verify(replies, live) PROVE RestOK'
  BY <1>7 DEF Verify, Stopped
<1>8. CASE UNCHANGED scopeVars
  BY <1>8 DEF scopeVars
<1> QED
  BY <1>1, <1>2, <1>3, <1>4, <1>5, <1>6, <1>7, <1>8, <1>9 DEF ScopeNext

\* The storages of finitely many peers hold finitely many keys between them.
LEMMA AnswersFinite == IsFiniteSet(Answers(Peer))
<1> DEFINE places == Peer \X Key
           told(held) == {<<x[1], x[2], held[x[1]][x[2]]>> : x \in places}
<1>1. IsFiniteSet(places)
  BY CutoverAssumption, FS_Product
<1>2. ASSUME NEW held PROVE IsFiniteSet(told(held))
  <2> DEFINE f == [x \in places |-> <<x[1], x[2], held[x[1]][x[2]]>>]
  <2>1. f \in Surjection(places, told(held))
    BY DEF Surjection
  <2> QED
    BY <1>1, <2>1, FS_Surjection
<1>3. Answers(Peer) \in SUBSET (told(old) \cup told(new))
  <2> SUFFICES ASSUME NEW r \in Answers(Peer) PROVE r \in told(old) \cup told(new)
    OBVIOUS
  <2>1. PICK p \in Peer, k \in Key : r = <<p, k, old[p][k]>> \/ r = <<p, k, new[p][k]>>
    BY DEF Answers, Replies
  <2>2. <<p, k>> \in places /\ <<p, k>>[1] = p /\ <<p, k>>[2] = k
    OBVIOUS
  <2> QED
    BY <2>1, <2>2
<1> HIDE DEF told
<1>4. IsFiniteSet(told(old) \cup told(new))
  BY <1>2, FS_Union
<1> QED
  BY <1>3, <1>4, FS_Subset

Counted == trouble \in 0..MaxTrouble

\* Trouble is counted, one for a failure and one for each reply that is missing.
LEMMA TroubleStep == Counted /\ [ScopeNext]_scopeVars => Counted'
<1> SUFFICES ASSUME trouble \in 0..MaxTrouble, [ScopeNext]_scopeVars PROVE trouble' \in 0..MaxTrouble
  BY DEF Counted
<1>1. ASSUME NEW n \in Nat, Trouble(n) PROVE trouble' \in 0..MaxTrouble
  BY <1>1, CutoverAssumption DEF Trouble
<1>2. \A replies : Cardinality(Answers(Peer) \ replies) \in Nat
  BY AnswersFinite, FS_Subset, FS_CardinalityType
<1>3. trouble' = trouble \/ Trouble(1) \/ \E replies : Trouble(Cardinality(Answers(Peer) \ replies))
  BY DEF ScopeNext, scopeVars, BuildManifest, Restart, EarlySave, StartReplay, FreshCheckpoint, StartBatch,
         GateRefuses, PutRaises, EndBatch, EndReplay, Verify, ScopeCrash, Put
<1> QED
  BY <1>1, <1>2, <1>3

\* Every variable of scope-migrate keeps its type.
THEOREM ScopeTypeCorrect == ScopeSpec => []ScopeTypeOK
<1>1. ScopeInit => RestOK /\ Counted
  <2>1. 0 \in 0..MaxTrouble
    BY CutoverAssumption
  <2> QED
    BY <2>1 DEF ScopeInit, RestOK, Counted
<1>2. ASSUME ScopeInv, RestOK, Counted PROVE ScopeTypeOK
  <2>1. /\ manifest \in Holding \cup {Absent} /\ file \in Checkpoints \cup {Absent}
        /\ old \in [Peer -> Holding] /\ new \in [Peer -> Holding] /\ final \subseteq Peer
        /\ sent \subseteq Key
    BY <1>2 DEF ScopeInv, ReplayOK, BatchInv, MovedInv
  <2>2. done \subseteq Key /\ pending \subseteq Key /\ remaining \subseteq pending
    BY <1>2 DEF ScopeInv, ReplayOK, BatchInv, RestOK, Left, Keys
  <2> QED
    BY <1>2, <2>1, <2>2 DEF RestOK, Counted, ScopeTypeOK
<1> QED
  BY <1>1, <1>2, RestStep, TroubleStep, ScopeInvariant, PTL DEF ScopeSpec

\* A verify that reports OK means that every key has moved, for any number of peers
\* and keys and any failures: every peer answered the manifest's question, so a key
\* a broad storage holds is in the manifest, with that payload.
THEOREM VerifyOkMeansMoved == ScopeSpec => []VerifiedMeansMoved
<1>1. ScopeInv => VerifiedMeansMoved
  BY DEF ScopeInv, MovedInv, VerifiedMeansMoved, Keys
<1> QED
  BY <1>1, ScopeInvariant, PTL

\* A resumed run redoes at most one batch, and the checkpoint names no key whose PUT
\* did not return.
THEOREM OneBatchRedone == ScopeSpec => []RedoesAtMostOneBatch
<1>1. ScopeInv => RedoesAtMostOneBatch
  <2> SUFFICES ASSUME ScopeInv, file # Absent
               PROVE  Cardinality(sent \ file.done) <= Batch /\ file.done \subseteq sent
    BY DEF RedoesAtMostOneBatch
  <2>1. Left \in SUBSET Key /\ file.done \subseteq sent /\ sent \ file.done \in SUBSET FirstBatch(Left)
    BY DEF ScopeInv, BatchInv, Left, Keys
  <2>2. IsFiniteSet(FirstBatch(Left)) /\ Cardinality(FirstBatch(Left)) <= Batch
    BY <2>1, FirstBatchSize
  <2>3. Cardinality(sent \ file.done) <= Cardinality(FirstBatch(Left))
        /\ Cardinality(sent \ file.done) \in Nat /\ Cardinality(FirstBatch(Left)) \in Nat
    BY <2>1, <2>2, FS_Subset, FS_CardinalityType
  <2> QED
    BY <2>1, <2>2, <2>3, CutoverAssumption
<1> QED
  BY <1>1, ScopeInvariant, PTL
==============================================================================
