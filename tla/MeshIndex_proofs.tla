--------------------------- MODULE MeshIndex_proofs ---------------------------
(***************************************************************************)
(* MeshIndex for any observations, any supersede relation, any number of   *)
(* scanning processes and any number of faults.                            *)
(*                                                                         *)
(* The table is sound (IndexTable_proofs), whatever the interleaving: each *)
(* writer of the index is one of five operators, and each preserves Sound  *)
(* whatever the scan or the sample it works from holds, however stale.     *)
(* Removals also need to know where a delete comes from.                   *)
(***************************************************************************)
EXTENDS MeshIndex, IndexTable_proofs

\* A delete on its way to the index is about an id that was purged.
DeletesArePurges ==
  /\ dropping \subseteq purged
  /\ \A s \in flight \cup writes : s[1] \in {"obs_del", "tomb_del"} => s[2] \in purged

IInv == TypeOK /\ Sound(row, fts) /\ DeletesArePurges

\* What one step may do to a row of the index.
Removable(o) == o \in purged \/ \E p \in Process : scan[p] # None /\ o \in scan[p].ids

IndexStep ==
  /\ Sound(row', fts')
  /\ \A o \in Obs : Grows(row[o], row'[o]) \/ (row'[o] = None /\ Removable(o))

-----------------------------------------------------------------------------
\* The empty index is sound.
LEMMA InitInv == Init => IInv
<1> SUFFICES ASSUME Init PROVE IInv
  OBVIOUS
<1>1. TypeOK
  BY MeshIndexAssumption DEF Init, TypeOK, Rows, Sample
<1>2. Sound(row, fts)
  BY DEF Init, Sound, Rows, Live, Present
<1>3. DeletesArePurges
  BY DEF Init, DeletesArePurges
<1> QED
  BY <1>1, <1>2, <1>3 DEF IInv

\* Leaving the index alone is a step of the index.
LEMMA IndexStays ==
  ASSUME IInv, UNCHANGED index
  PROVE  IndexStep
BY DEF IInv, index, IndexStep, Grows

\* One sample mirrored, by the subscriber or by a local operation.
LEMMA MirrorSound ==
  ASSUME IInv, NEW s \in flight \cup writes, Mirror(s)
  PROVE  IndexStep
<1>1. s \in Kind \X Obs /\ s[2] \in Obs /\ Sound(row, fts)
  BY DEF IInv, TypeOK, Sample
<1>2. CASE s[1] = "obs_put" /\ MirrorPut(s[2])
  BY <1>1, <1>2, UpsertedSound DEF MirrorPut, IndexStep
<1>3. CASE s[1] = "tomb_put" /\ MirrorTomb(s[2])
  BY <1>1, <1>3, MarkedSound DEF MirrorTomb, IndexStep
<1>4. CASE s[1] \in {"obs_del", "tomb_del"} /\ MirrorDelete(s[2])
  <2>1. s[2] \in purged
    BY <1>4 DEF IInv, DeletesArePurges
  <2>2. /\ Sound(row', fts')
        /\ row'[s[2]] = None
        /\ \A q \in Obs \ {s[2]} : Grows(row[q], row'[q])
    BY <1>1, <1>4, RemovedSound DEF MirrorDelete
  <2> QED
    BY <2>1, <2>2 DEF IndexStep, Removable
<1> QED
  BY <1>2, <1>3, <1>4 DEF Mirror

\* The type of a scan in progress.
LEMMA ScanType ==
  ASSUME IInv, NEW p \in Process, scan[p] # None
  PROVE  /\ scan[p] \in Scan
         /\ scan[p].ids \in SUBSET Obs
         /\ scan[p].obs \in SUBSET Obs
         /\ scan[p].tombs \in SUBSET Obs
<1>1. scan[p] \in Scan
  BY DEF IInv, TypeOK
<1> QED
  BY <1>1 DEF Scan

\* A row swept is revived, or was swept for being shadowed.
LEMMA SweepSound ==
  ASSUME IInv, NEW p \in Process, SweepRow(p)
  PROVE  IndexStep
<1>1. PICK o \in scan[p].ids : IF o \in scan[p].obs THEN MirrorPut(o) ELSE MirrorDelete(o)
  BY DEF SweepRow
<1>2. scan[p] # None /\ o \in Obs /\ Sound(row, fts)
  BY ScanType DEF SweepRow, IInv
<1>3. CASE MirrorPut(o)
  BY <1>2, <1>3, UpsertedSound DEF MirrorPut, IndexStep
<1>4. CASE MirrorDelete(o)
  <2>1. /\ Sound(row', fts')
        /\ row'[o] = None
        /\ \A q \in Obs \ {o} : Grows(row[q], row'[q])
    BY <1>2, <1>4, RemovedSound DEF MirrorDelete
  <2>2. Removable(o)
    BY <1>2 DEF Removable
  <2> QED
    BY <2>1, <2>2 DEF IndexStep
<1> QED
  BY <1>1, <1>3, <1>4

\* However stale the scan, applying it keeps the index sound.
LEMMA ApplySound ==
  ASSUME IInv, NEW p \in Process
  PROVE  /\ ApplyRebuild(p) => IndexStep
         /\ ApplyFullRepair(p) \/ ApplyTombRepair(p) =>
              /\ IndexStep
              /\ Live(row) \ scan[p].tombs \subseteq Live(row')
              /\ \A q \in Obs : Grows(row[q], row'[q])
<1> DEFINE S == scan[p].obs
           T == scan[p].tombs
<1>1. Sound(row, fts)
  BY DEF IInv
<1>2. ASSUME ApplyRebuild(p) PROVE IndexStep
  <2>1. PICK by \in Winners(S) : row' = Rebuilt(row, S, T, by)
    BY <1>2 DEF ApplyRebuild
  <2>2. fts' = RebuiltFts(row, fts, S, T)
    BY <1>2 DEF ApplyRebuild
  <2>3. S \in SUBSET Obs /\ T \in SUBSET Obs
    BY <1>2, ScanType DEF ApplyRebuild
  <2> QED
    BY <1>1, <2>1, <2>2, <2>3, RebuiltSound DEF IndexStep
<1>3. ASSUME ApplyFullRepair(p)
      PROVE  /\ IndexStep /\ Live(row) \ T \subseteq Live(row')
             /\ \A q \in Obs : Grows(row[q], row'[q])
  <2>1. PICK by \in Winners(Changed(row, S)) : row' = Repaired(row, S, T, by)
    BY <1>3 DEF ApplyFullRepair
  <2>2. fts' = RepairedFts(row, fts, S, T)
    BY <1>3 DEF ApplyFullRepair
  <2>3. S \in SUBSET Obs /\ T \in SUBSET Obs
    BY <1>3, ScanType DEF ApplyFullRepair
  <2> QED
    BY <1>1, <2>1, <2>2, <2>3, RepairedSound DEF IndexStep
<1>4. ASSUME ApplyTombRepair(p)
      PROVE  /\ IndexStep /\ Live(row) \ T \subseteq Live(row')
             /\ \A q \in Obs : Grows(row[q], row'[q])
  <2>1. row' = Marked(row, KnownTombs(row, T)) /\ fts' = fts \ KnownTombs(row, T)
    BY <1>4 DEF ApplyTombRepair, TombRepaired
  <2>2. T \in SUBSET Obs /\ KnownTombs(row, T) \in SUBSET Obs /\ KnownTombs(row, T) \subseteq T
    BY <1>4, ScanType DEF ApplyTombRepair, KnownTombs
  <2> QED
    BY <1>1, <2>1, <2>2, MarkedSound DEF IndexStep
<1> QED
  BY <1>2, <1>3, <1>4

\* Every step of the system is a step of the index.
LEMMA NextIndexStep ==
  ASSUME IInv, [Next]_vars
  PROVE  IndexStep
<1>1. CASE MeshStep
  BY <1>1, IndexStays DEF MeshStep, Save, Delete, PurgeTombFirst, PurgeObsFirst,
                          PurgeRest, ForcePurge, PurgeFails
<1>2. CASE SessionStep
  BY <1>2, IndexStays DEF SessionStep, OpenSession, LoseSession, Crash
<1>3. CASE MirrorStep
  BY <1>3, IndexStays, MirrorSound DEF MirrorStep, Deliver, WriteIndex
<1>4. ASSUME NEW p \in Process, ScanStep(p)
      PROVE  IndexStep
  <2>1. CASE StartRebuild(p) \/ StartFullRepair(p) \/ StartTombRepair(p) \/ StartSweep(p)
    BY <2>1, IndexStays DEF StartRebuild, StartFullRepair, StartTombRepair, StartSweep, StartScan
  <2>2. CASE ScanObs(p) \/ ScanTombs(p) \/ AbortScan(p)
    BY <2>2, IndexStays DEF ScanObs, ScanTombs, AbortScan
  <2>3. CASE ApplyRebuild(p) \/ ApplyFullRepair(p) \/ ApplyTombRepair(p)
    BY <2>3, ApplySound
  <2>4. CASE SweepRow(p)
    BY <2>4, SweepSound
  <2> QED
    BY <1>4, <2>1, <2>2, <2>3, <2>4 DEF ScanStep
<1>5. CASE UNCHANGED vars
  BY <1>5, IndexStays DEF vars, index
<1> QED
  BY <1>1, <1>2, <1>3, <1>4, <1>5 DEF Next

-----------------------------------------------------------------------------
(***************************************************************************)
(* Types, and where deletes come from.                                     *)
(***************************************************************************)

\* The mesh, the samples it publishes and the writes it owes.
LEMMA MeshType ==
  ASSUME IInv, MeshStep
  PROVE  /\ zObs' \subseteq Obs /\ zTomb' \subseteq Obs /\ dropping' \subseteq Obs
         /\ born' \subseteq Obs /\ doomed' \subseteq Obs /\ purged' \subseteq Obs
         /\ flight' \subseteq Sample /\ writes' \subseteq Sample
         /\ faults' \in 0..MaxFaults
         /\ UNCHANGED <<session, row, fts, scan>>
         /\ DeletesArePurges'
<1>1. /\ TypeOK /\ DeletesArePurges
      /\ \A k \in Kind, o \in Obs : <<k, o>> \in Sample
  BY DEF IInv, Sample
<1>2. ASSUME NEW o \in Obs, NEW origin, Save(o, origin)
      PROVE  /\ flight' \subseteq flight \cup {<<"obs_put", o>>}
             /\ writes' \subseteq writes \cup {<<"obs_put", o>>}
  BY <1>2 DEF Save, Publish, Owe
<1>3. ASSUME NEW o \in Obs, NEW origin, Delete(o, origin)
      PROVE  /\ flight' \subseteq flight \cup {<<"tomb_put", o>>}
             /\ writes' \subseteq writes \cup {<<"tomb_put", o>>}
  BY <1>3 DEF Delete, Publish, Owe
<1>4. ASSUME NEW o \in Obs, PurgeTombFirst(o)
      PROVE  flight' \subseteq flight \cup {<<"tomb_del", o>>} /\ writes' = writes
  BY <1>4 DEF PurgeTombFirst, Publish
<1>5. ASSUME NEW o \in Obs, PurgeObsFirst(o)
      PROVE  /\ flight' \subseteq flight \cup {<<"obs_del", o>>}
             /\ writes' \subseteq writes \cup {<<"obs_del", o>>}
  BY <1>5 DEF PurgeObsFirst, Publish, Owe
<1>6. ASSUME NEW o \in Obs, NEW origin, PurgeRest(o, origin)
      PROVE  /\ flight' \subseteq flight \cup {<<"obs_del", o>>, <<"tomb_del", o>>}
             /\ writes' \subseteq writes \cup {<<"obs_del", o>>}
  BY <1>6 DEF PurgeRest, Publish, Owe
<1>7. CASE \E o \in Obs, origin \in Origins : Save(o, origin)
  <2>1. PICK o \in Obs, origin \in Origins : Save(o, origin)
    BY <1>7
  <2> QED
    BY <1>1, <1>2, <2>1 DEF Save, TypeOK, DeletesArePurges, index, Kind
<1>8. CASE \E o \in Obs, origin \in Origins : Delete(o, origin)
  <2>1. PICK o \in Obs, origin \in Origins : Delete(o, origin)
    BY <1>8
  <2> QED
    BY <1>1, <1>3, <2>1 DEF Delete, TypeOK, DeletesArePurges, index, Kind
<1>9. CASE \E o \in Obs : PurgeTombFirst(o)
  <2>1. PICK o \in Obs : PurgeTombFirst(o)
    BY <1>9
  <2> QED
    BY <1>1, <1>4, <2>1 DEF PurgeTombFirst, TypeOK, DeletesArePurges, index, Kind
<1>10. CASE \E o \in Obs : PurgeObsFirst(o)
  <2>1. PICK o \in Obs : PurgeObsFirst(o)
    BY <1>10
  <2> QED
    BY <1>1, <1>5, <2>1 DEF PurgeObsFirst, TypeOK, DeletesArePurges, index, Kind
<1>11. CASE \E o \in Obs, origin \in Origins : PurgeRest(o, origin)
  <2>1. PICK o \in Obs, origin \in Origins : PurgeRest(o, origin)
    BY <1>11
  <2>2. o \in purged
    BY <1>1, <2>1 DEF PurgeRest, DeletesArePurges
  <2> QED
    BY <1>1, <1>6, <2>1, <2>2 DEF PurgeRest, TypeOK, DeletesArePurges, index, Kind
<1>12. CASE \E o \in Obs : PurgeFails(o)
  BY <1>1, <1>12, MeshIndexAssumption DEF PurgeFails, Fault, TypeOK, DeletesArePurges, index
<1>13. CASE \E o \in Obs : ForcePurge(o)
  <2>1. PICK o \in Obs : ForcePurge(o)
    BY <1>13
  <2>2. writes' = writes \cup {<<"obs_del", o>>} /\ flight' = flight
    BY <2>1 DEF ForcePurge, Owe
  <2>3. faults' \in 0..MaxFaults
    BY <1>1, <2>1, MeshIndexAssumption DEF ForcePurge, Fault, TypeOK
  <2> QED
    BY <1>1, <2>1, <2>2, <2>3 DEF ForcePurge, TypeOK, DeletesArePurges, index, Kind
<1> QED
  BY <1>7, <1>8, <1>9, <1>10, <1>11, <1>12, <1>13 DEF MeshStep

\* Sessions and mirrored samples.
LEMMA SessionType ==
  ASSUME IInv, SessionStep \/ MirrorStep
  PROVE  /\ UNCHANGED mesh
         /\ session' \in {"down", "deaf", "listening"}
         /\ flight' \subseteq flight /\ writes' \subseteq writes
         /\ faults' \in 0..MaxFaults
         /\ scan' \in [Process -> Scan \cup {None}]
<1>1. TypeOK
  BY DEF IInv
<1>2. CASE SessionStep
  BY <1>1, <1>2, MeshIndexAssumption
     DEF SessionStep, OpenSession, LoseSession, Crash, Fault, TypeOK, mesh
<1>3. CASE MirrorStep
  BY <1>1, <1>3, MeshIndexAssumption DEF MirrorStep, Deliver, WriteIndex, Fault, TypeOK, mesh
<1> QED
  BY <1>2, <1>3

\* A scan keeps its shape from its start to its last row.
LEMMA ScanStepType ==
  ASSUME IInv, NEW p \in Process, ScanStep(p)
  PROVE  /\ UNCHANGED <<mesh, session, flight, writes>>
         /\ faults' \in 0..MaxFaults
         /\ scan' \in [Process -> Scan \cup {None}]
<1>1. TypeOK
  BY DEF IInv
<1>2. ASSUME NEW kind \in {"rebuild", "full", "tombs", "sweep"}, NEW next \in {"obs", "tombs"},
             NEW ids \in SUBSET Obs, StartScan(p, kind, next, ids)
      PROVE  /\ UNCHANGED <<mesh, session, flight, writes, faults>>
             /\ scan' \in [Process -> Scan \cup {None}]
  <2> DEFINE begun == [kind |-> kind, next |-> next, ids |-> ids, obs |-> {},
                       tombs |-> {}, unanswered |-> FALSE]
  <2>1. begun \in Scan
    BY DEF Scan
  <2>2. scan' = [scan EXCEPT ![p] = begun]
    BY <1>2 DEF StartScan
  <2> HIDE DEF begun
  <2> QED
    BY <1>1, <1>2, <2>1, <2>2 DEF StartScan, TypeOK
<1>3. CASE StartRebuild(p) \/ StartFullRepair(p) \/ StartTombRepair(p)
  BY <1>1, <1>2, <1>3 DEF StartRebuild, StartFullRepair, StartTombRepair, TypeOK
<1>4. CASE StartSweep(p)
  BY <1>1, <1>2, <1>4 DEF StartSweep, TypeOK, Present
<1>5. ASSUME UNCHANGED <<mesh, session, flight, writes>>, UNCHANGED faults \/ Fault,
             NEW x \in Scan \cup {None}, scan' = [scan EXCEPT ![p] = x]
      PROVE  /\ UNCHANGED <<mesh, session, flight, writes>>
             /\ faults' \in 0..MaxFaults
             /\ scan' \in [Process -> Scan \cup {None}]
  BY <1>1, <1>5, MeshIndexAssumption DEF Fault, TypeOK
<1>6. CASE ScanObs(p)
  <2>1. PICK seen \in SUBSET zObs, err \in BOOLEAN :
          /\ Replies(zObs, seen)
          /\ scan' = [scan EXCEPT ![p].next = AfterObs(scan[p].kind),
                                  ![p].obs = seen, ![p].unanswered = err]
    BY <1>6 DEF ScanObs
  <2>2. scan[p] \in Scan /\ seen \in SUBSET Obs /\ AfterObs(scan[p].kind) \in {"tombs", "apply"}
    BY <1>1, <1>6, ScanType DEF ScanObs, TypeOK, AfterObs
  <2>3. [scan[p] EXCEPT !.next = AfterObs(scan[p].kind), !.obs = seen, !.unanswered = err] \in Scan
    BY <2>2 DEF Scan
  <2>4. scan' = [scan EXCEPT ![p] = [scan[p] EXCEPT !.next = AfterObs(scan[p].kind),
                                                    !.obs = seen, !.unanswered = err]]
    BY <1>1, <2>1 DEF TypeOK
  <2> QED
    BY <1>5, <1>6, <2>1, <2>3, <2>4 DEF ScanObs, Replies
<1>7. CASE ScanTombs(p)
  <2>1. PICK seen \in SUBSET zTomb :
          /\ Replies(zTomb, seen)
          /\ scan' = [scan EXCEPT ![p].next = "apply", ![p].tombs = seen]
    BY <1>7 DEF ScanTombs
  <2>2. scan[p] \in Scan /\ seen \in SUBSET Obs
    BY <1>1, <1>7, ScanType DEF ScanTombs, TypeOK
  <2>3. [scan[p] EXCEPT !.next = "apply", !.tombs = seen] \in Scan
    BY <2>2 DEF Scan
  <2>4. scan' = [scan EXCEPT ![p] = [scan[p] EXCEPT !.next = "apply", !.tombs = seen]]
    BY <1>1, <2>1 DEF TypeOK
  <2> QED
    BY <1>5, <1>7, <2>1, <2>3, <2>4 DEF ScanTombs, Replies
<1>8. CASE AbortScan(p) \/ ApplyRebuild(p) \/ ApplyFullRepair(p) \/ ApplyTombRepair(p)
  BY <1>5, <1>8 DEF AbortScan, ApplyRebuild, ApplyFullRepair, ApplyTombRepair, EndScan
<1>9. CASE SweepRow(p)
  <2>1. PICK o \in scan[p].ids :
          scan' = IF scan[p].ids = {o} THEN [scan EXCEPT ![p] = None]
                  ELSE [scan EXCEPT ![p].ids = @ \ {o}]
    BY <1>9 DEF SweepRow
  <2>2. scan[p] \in Scan
    BY <1>9, ScanType DEF SweepRow
  <2>3. [scan[p] EXCEPT !.ids = @ \ {o}] \in Scan
    BY <2>2 DEF Scan
  <2>4. \/ scan' = [scan EXCEPT ![p] = None]
        \/ scan' = [scan EXCEPT ![p] = [scan[p] EXCEPT !.ids = @ \ {o}]]
    BY <1>1, <2>1 DEF TypeOK
  <2> QED
    BY <1>5, <1>9, <2>3, <2>4 DEF SweepRow
<1> QED
  BY <1>3, <1>4, <1>6, <1>7, <1>8, <1>9 DEF ScanStep

-----------------------------------------------------------------------------
(***************************************************************************)
(* The invariant.                                                          *)
(***************************************************************************)

\* Every step keeps the invariant: one lemma per group of actions.
LEMMA NextInv == IInv /\ [Next]_vars => IInv'
<1> SUFFICES ASSUME IInv, [Next]_vars PROVE IInv'
  OBVIOUS
<1>1. Sound(row, fts)'
  BY NextIndexStep DEF IndexStep
<1>2. row' \in Rows /\ fts' \subseteq Obs
  BY <1>1 DEF Sound
<1>3. TypeOK /\ DeletesArePurges
  BY DEF IInv
<1>4. CASE MeshStep
  BY <1>1, <1>2, <1>3, <1>4, MeshType DEF IInv, TypeOK
<1>5. CASE SessionStep \/ MirrorStep
  BY <1>1, <1>2, <1>3, <1>5, SessionType DEF IInv, TypeOK, DeletesArePurges, mesh
<1>6. CASE \E p \in Process : ScanStep(p)
  BY <1>1, <1>2, <1>3, <1>6, ScanStepType DEF IInv, TypeOK, DeletesArePurges, mesh
<1>7. CASE UNCHANGED vars
  BY <1>1, <1>3, <1>7 DEF IInv, TypeOK, DeletesArePurges, vars
<1> QED
  BY <1>4, <1>5, <1>6, <1>7 DEF Next

\* The table is sound and every delete in transit is a purge's, always.
THEOREM IndexInvariant == Spec => []IInv
<1>1. Init => IInv
  BY InitInv
<1>2. IInv /\ [Next]_vars => IInv'
  BY NextInv
<1> QED
  BY <1>1, <1>2, PTL DEF Spec

\* Every variable keeps its type.
THEOREM TypeCorrect == Spec => []TypeOK
<1>1. IInv => TypeOK
  BY DEF IInv
<1> QED
  BY <1>1, IndexInvariant, PTL

\* Every live row is in the full-text table.
THEOREM LockstepKept == Spec => []FtsLockstep
<1>1. IInv => FtsLockstep
  BY DEF IInv, Sound, FtsLockstep
<1> QED
  BY <1>1, IndexInvariant, PTL

\* A placeholder never becomes visible.
THEOREM PlaceholdersHidden == Spec => []PlaceholderHidden
<1>1. IInv => PlaceholderHidden
  BY DEF IInv, Sound, PlaceholderHidden
<1> QED
  BY <1>1, IndexInvariant, PTL

\* superseded_by always names an existing row that supersedes.
THEOREM PointersKept == Spec => []PointersResolve
<1>1. IInv => PointersResolve
  BY DEF IInv, Sound, PointersResolve
<1> QED
  BY <1>1, IndexInvariant, PTL

-----------------------------------------------------------------------------
(***************************************************************************)
(* What a step may do.                                                     *)
(***************************************************************************)

\* The index implements the lifecycle of a row.
THEOREM IndexImplementsLifecycle == Spec => FollowsLifecycle
<1> DEFINE st == [o \in Obs |-> StateOf(row[o])]
<1>1. Init => Lifecycle!Init
  BY DEF Init, Lifecycle!Init, StateOf
<1>2. IInv /\ [Next]_vars => [Lifecycle!Next]_st
  <2> SUFFICES ASSUME IInv, [Next]_vars PROVE Lifecycle!Next
    OBVIOUS
  <2>1. st' \in [Obs -> Lifecycle!States]
    BY DEF StateOf, Lifecycle!States
  <2>2. ASSUME NEW o \in Obs
        PROVE  st'[o] = st[o] \/ <<st[o], st'[o]>> \in Lifecycle!Moves
    <3>1. Grows(row[o], row'[o]) \/ row'[o] = None
      BY NextIndexStep DEF IndexStep
    <3>2. st[o] = StateOf(row[o]) /\ st'[o] = StateOf(row'[o])
      OBVIOUS
    <3> HIDE DEF st
    <3> QED
      BY <3>1, <3>2 DEF Grows, StateOf, Lifecycle!Moves
  <2> QED
    BY <2>1, <2>2 DEF Lifecycle!Next
<1> QED
  BY <1>1, <1>2, IndexInvariant, PTL DEF Spec, FollowsLifecycle, Lifecycle!Spec

\* A row is removed only for a purge or by a sweep.
THEOREM RemovalsHaveACause == Spec => RemovedForCause
<1>1. IInv /\ [Next]_vars =>
        [\A o \in Present(row) \ Present(row') :
           o \in purged \/ \E p \in Process : scan[p] # None /\ o \in scan[p].ids]_vars
  BY NextIndexStep DEF IndexStep, Grows, Removable, Present
<1> QED
  BY <1>1, IndexInvariant, PTL DEF Spec, RemovedForCause

\* A repair hides nothing for being absent, and removes nothing.
THEOREM RepairsNeverHide == Spec => RepairNeverHides
<1> DEFINE A == \A p \in Process :
                  scan[p] # None /\ scan[p].kind \in {"full", "tombs"} /\ scan'[p] = None =>
                    /\ Live(row) \ scan[p].tombs \subseteq Live(row')
                    /\ Present(row) \subseteq Present(row')
<1>1. IInv /\ [Next]_vars => [A]_vars
  <2> SUFFICES ASSUME IInv, Next,
                      NEW p \in Process, scan[p] # None, scan[p].kind \in {"full", "tombs"},
                      scan'[p] = None
               PROVE  /\ Live(row) \ scan[p].tombs \subseteq Live(row')
                      /\ Present(row) \subseteq Present(row')
    OBVIOUS
  <2>1. scan \in [Process -> Scan \cup {None}]
    BY DEF IInv, TypeOK
  <2>2. UNCHANGED index \/ ApplyFullRepair(p) \/ ApplyTombRepair(p)
    <3>1. CASE MeshStep
      BY <3>1, MeshType DEF index
    <3>2. CASE SessionStep
      BY <3>2 DEF SessionStep, OpenSession, LoseSession, Crash
    <3>3. CASE MirrorStep
      BY <3>3 DEF MirrorStep, Deliver, WriteIndex
    <3>4. ASSUME NEW q \in Process, ScanStep(q)
          PROVE  UNCHANGED index \/ ApplyFullRepair(p) \/ ApplyTombRepair(p)
      <4>1. q = p
        BY <2>1, <3>4 DEF ScanStep, StartRebuild, StartFullRepair, StartTombRepair, StartSweep,
             StartScan, ScanObs, ScanTombs, AbortScan, ApplyRebuild, ApplyFullRepair,
             ApplyTombRepair, EndScan, SweepRow
      <4> QED
        BY <3>4, <4>1 DEF ScanStep, StartRebuild, StartFullRepair, StartTombRepair, StartSweep,
             StartScan, ScanObs, ScanTombs, AbortScan, ApplyRebuild, SweepRow
    <3> QED
      BY <3>1, <3>2, <3>3, <3>4 DEF Next
  <2>3. CASE UNCHANGED index
    BY <2>3 DEF index
  <2>4. CASE ApplyFullRepair(p) \/ ApplyTombRepair(p)
    <3>1. \A o \in Obs : row[o] # None => row'[o] # None
      BY <2>4, ApplySound DEF Grows
    <3> QED
      BY <2>4, <3>1, ApplySound DEF Present
  <2> QED
    BY <2>2, <2>3, <2>4
<1> QED
  BY <1>1, IndexInvariant, PTL DEF Spec, RepairNeverHides
=============================================================================
