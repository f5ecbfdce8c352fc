------------------------ MODULE LocalBackend_proofs ------------------------
(***************************************************************************)
(* Proofs about LocalBackend: that no memory is lost, that an undisturbed  *)
(* open makes the index agree with raw.db, and that the index implements   *)
(* RowLifecycle, for any memories, processes, older indexes and faults.    *)
(***************************************************************************)
EXTENDS LocalBackend, IndexTable_proofs

-----------------------------------------------------------------------------
(* Rows. *)

\* What RowLifecycle allows, row by row: a row grows or is removed.
GrowsOrGoes(old, new) == \A q \in Obs : Grows(old[q], new[q]) \/ new[q] = None

\* The rows that a table has and another one has not as deleted.
Deletes(old, new, T) == \A q \in Present(new) : new[q].deleted =>
                          q \in T \/ (q \in Present(old) /\ old[q].deleted)

\* A sound table stays sound whatever its full-text table is said to hold.
LEMMA SoundWithoutText ==
  ASSUME NEW r, NEW f, Sound(r, f)
  PROVE  Sound(r, Obs)
BY DEF Sound, Live, Present

\* An upsert (_write_observation) deletes no row.
LEMMA UpsertedDeletes ==
  ASSUME NEW r, Sound(r, Obs), NEW o \in Obs
  PROVE  Deletes(r, Upserted(r, o), {})
<1> DEFINE by == [q \in Obs |-> IF q \in Supersedes[o] THEN o ELSE None]
           a == Inserted(r, {o})
<1>1. r \in Rows /\ by \in [Obs -> Obs \cup {None}]
  BY DEF Sound
<1>2. a \in Rows /\ \A q \in Obs : a[q] = IF q \in {o} THEN Filled(r[q]) ELSE r[q]
  BY <1>1, InsertedRows
<1>3. \A q \in Obs : a[q] # None => Pointed(a, by)[q].deleted = a[q].deleted
  BY <1>1, <1>2, PointedRows
<1>4. \A q \in Obs : a[q] = None => Pointed(a, by)[q] = None
  BY <1>1, <1>2, PointedRows
<1>5. \A q \in Obs : r[q] \in Row \cup {None}
  BY <1>1 DEF Rows
<1>6. Upserted(r, o) = Pointed(a, by)
  BY DEF Upserted
<1> HIDE DEF a, by
<1>7. \A q \in Obs : a[q] # None /\ a[q].deleted => r[q] # None /\ r[q].deleted
  BY <1>2, <1>5, FilledRow
<1> QED BY <1>3, <1>4, <1>6, <1>7 DEF Deletes, Present

\* mark_deleted deletes the rows it names and no other.
LEMMA MarkedDeletes ==
  ASSUME NEW r, Sound(r, Obs), NEW T \in SUBSET Obs
  PROVE  Deletes(r, Marked(r, T), T)
<1>1. r \in Rows
  BY DEF Sound
<1> QED BY <1>1, MarkedRows DEF Deletes, Present

\* Removing a row deletes no other.
LEMMA RemovedDeletes ==
  ASSUME NEW r, Sound(r, Obs), NEW o \in Obs
  PROVE  Deletes(r, Removed(r, o), {})
<1>1. r \in Rows
  BY DEF Sound
<1> QED BY <1>1, RemovedRows DEF Deletes, Present

\* _rebuild_from_observations on the local path: a visible row without its
\* observation is removed, every other one is as after a rebuild on the mesh.
LEMMA RawRebuild ==
  ASSUME NEW r, Sound(r, Obs),
         NEW S \in SUBSET Obs, NEW T \in SUBSET Obs, NEW by \in Winners(S),
         NEW z, z = RebuiltFromRaw(r, S, T, by)
  PROVE  /\ Sound(z, Obs)
         /\ GrowsOrGoes(r, z)
         /\ Deletes(r, z, T)
         /\ \A q \in S \ T : (q \in Present(r) => ~r[q].deleted) => q \in Live(z)
         /\ Live(z) \subseteq S \ T
         /\ Live(z) \subseteq Live(Rebuilt(r, S, T, by))
<1> DEFINE x == Reconciled(r, S, T)
           v == [o \in Obs |-> IF o \in Stale(r, S) THEN None ELSE x[o]]
           u == Unpointed(v)
<1>1. r \in Rows /\ Stale(r, S) \in SUBSET Obs
  BY DEF Sound, Stale, Live, Present
<1>2. /\ by \in [Obs -> Obs \cup {None}]
      /\ \A o \in Obs : by[o] # None => by[o] \in S /\ o \in Supersedes[by[o]]
  BY WinnersSupersede
<1>3. /\ x \in Rows
      /\ \A q \in Obs :
              /\ r[q] = None /\ q \notin S /\ q \notin T => x[q] = None
              /\ r[q] = None /\ q \notin S /\ q \in T =>
                   /\ x[q] # None
                   /\ ~x[q].known /\ x[q].deleted /\ ~x[q].shadowed /\ x[q].by = None
              /\ r[q] = None /\ q \in S =>
                   /\ x[q] # None
                   /\ x[q].known /\ ~x[q].shadowed /\ x[q].by = None
                   /\ x[q].deleted = (q \in T)
              /\ r[q] # None =>
                   /\ x[q] # None
                   /\ x[q].by = r[q].by
                   /\ x[q].known = (r[q].known \/ q \in S)
                   /\ x[q].deleted = (r[q].deleted \/ q \in T)
                   /\ x[q].shadowed = (r[q].shadowed /\ q \notin S
                                         /\ (q \in T => r[q].deleted))
  BY <1>1, ReconciledRows
<1> HIDE DEF x
<1>4. /\ v \in Rows
      /\ \A q \in Obs : v[q] = IF q \in Stale(r, S) THEN None ELSE x[q]
  BY <1>3 DEF Rows
<1> HIDE DEF v
<1>5. /\ u \in Rows
      /\ \A q \in Obs :
           /\ v[q] = None => u[q] = None
           /\ v[q] # None => /\ u[q] # None
                             /\ u[q].known = v[q].known
                             /\ u[q].deleted = v[q].deleted
                             /\ u[q].shadowed = v[q].shadowed
                             /\ u[q].by = None
  BY <1>4, UnpointedRows
<1> HIDE DEF u
<1>6. /\ z \in Rows
      /\ \A q \in Obs :
           /\ u[q] = None => z[q] = None
           /\ u[q] # None => /\ z[q] # None
                             /\ z[q].known = u[q].known
                             /\ z[q].deleted = u[q].deleted
                             /\ z[q].shadowed = u[q].shadowed
                             /\ z[q].by = IF by[q] # None THEN by[q] ELSE u[q].by
  BY <1>2, <1>5, PointedRows DEF RebuiltFromRaw, x, v, u
\* Every row in one place: gone as stale, or as the scan leaves it.
<1>7. \A q \in Obs :
        /\ q \in Stale(r, S) => z[q] = None
        /\ q \notin Stale(r, S) =>
             /\ z[q] = None <=> x[q] = None
             /\ x[q] # None => /\ z[q].known = x[q].known
                               /\ z[q].deleted = x[q].deleted
                               /\ z[q].shadowed = x[q].shadowed
                               /\ z[q].by = by[q]
  BY <1>2, <1>4, <1>5, <1>6
<1>8. \A q \in Obs : q \in Stale(r, S) <=> r[q] # None /\ ~r[q].deleted /\ ~r[q].shadowed /\ q \notin S
  BY DEF Stale, Live, Present
<1>9. Sound(z, Obs)
  <2>1. Live(z) \subseteq Obs
    BY DEF Live, Present
  <2>2. \A q \in Present(z) : ~z[q].known => z[q].deleted
    BY <1>3, <1>7 DEF Sound, Present
  <2>3. ASSUME NEW q \in Present(z), z[q].by # None
        PROVE  z[q].by \in Present(z) /\ q \in Supersedes[z[q].by]
    <3>1. z[q].by = by[q] /\ by[q] \in S /\ by[q] \in Obs /\ q \in Supersedes[by[q]]
      BY <1>2, <1>7, <2>3 DEF Present
    <3>2. by[q] \notin Stale(r, S) /\ x[by[q]] # None
      BY <1>3, <1>8, <3>1
    <3> QED BY <1>7, <3>1, <3>2 DEF Present
  <2> QED BY <1>6, <2>1, <2>2, <2>3 DEF Sound
<1>10. GrowsOrGoes(r, z)
  BY <1>3, <1>7 DEF GrowsOrGoes, Grows
<1>11. Deletes(r, z, T)
  BY <1>3, <1>7 DEF Deletes, Present
<1>12. ASSUME NEW q \in S \ T, q \in Present(r) => ~r[q].deleted
       PROVE  q \in Live(z)
  BY <1>3, <1>7, <1>8, <1>12 DEF Live, Present
<1>13. Live(z) \subseteq S \ T
  BY <1>3, <1>7, <1>8 DEF Live, Present
<1>14. Live(z) \subseteq Live(Rebuilt(r, S, T, by))
  <2> DEFINE y == Hidden(x, Stale(r, S))
             w == Unpointed(y)
  <2>1. /\ y \in Rows
        /\ \A q \in Obs : x[q] # None =>
             /\ y[q] # None /\ y[q].deleted = x[q].deleted
             /\ y[q].shadowed = (x[q].shadowed \/ (q \in Stale(r, S) /\ ~x[q].deleted))
    BY <1>1, <1>3, HiddenRows
  <2> HIDE DEF y
  <2>2. /\ w \in Rows
        /\ \A q \in Obs : y[q] # None =>
             w[q] # None /\ w[q].deleted = y[q].deleted /\ w[q].shadowed = y[q].shadowed
    BY <2>1, UnpointedRows
  <2>3. Rebuilt(r, S, T, by) = Pointed(w, by)
    BY DEF Rebuilt, w, y, x
  <2> HIDE DEF w
  <2>4. \A q \in Obs : w[q] # None =>
          /\ Pointed(w, by)[q] # None
          /\ Pointed(w, by)[q].deleted = w[q].deleted
          /\ Pointed(w, by)[q].shadowed = w[q].shadowed
    BY <1>2, <2>2, PointedRows
  <2>5. ASSUME NEW q \in Live(z)
        PROVE  q \in Live(Pointed(w, by))
    <3>1. q \in Obs /\ z[q] # None /\ ~z[q].deleted /\ ~z[q].shadowed
      BY DEF Live, Present
    <3>2. q \notin Stale(r, S) /\ x[q] # None /\ ~x[q].deleted /\ ~x[q].shadowed
      BY <1>7, <3>1
    <3>3. y[q] # None /\ ~y[q].deleted /\ ~y[q].shadowed
      BY <2>1, <3>1, <3>2
    <3>4. w[q] # None /\ ~w[q].deleted /\ ~w[q].shadowed
      BY <2>2, <3>1, <3>3
    <3> QED BY <2>4, <3>1, <3>4 DEF Live, Present
  <2> QED BY <2>3, <2>5
<1> QED BY <1>9, <1>10, <1>11, <1>12, <1>13, <1>14

\* A rebuild from raw.db deletes the rows with a tombstone there and no other.
LEMMA RawRebuildDeletes ==
  ASSUME NEW r, Sound(r, Obs),
         NEW S \in SUBSET Obs, NEW T \in SUBSET Obs, NEW by \in Winners(S),
         NEW z, z = RebuiltFromRaw(r, S, T, by)
  PROVE  Deletes(r, z, T)
BY RawRebuild

-----------------------------------------------------------------------------
(* Types and rows of a step. *)

\* An operation in progress has its id.
InHand ==
  \A p \in Agent : pc[p] \in {"upsert", "mark", "purgeTomb", "purgeRow"} => at[p] \in Obs

\* Every step keeps an id in hand where one is needed.
LEMMA HandStep ==
  LocalTypeOK /\ InHand /\ [LocalNext]_localVars => InHand'
<1> SUFFICES ASSUME LocalTypeOK, InHand, [LocalNext]_localVars
             PROVE  InHand'
  OBVIOUS
<1> USE LocalBound
<1>1. ASSUME NEW p \in Agent, OpenCopied(p) PROVE InHand'
  BY <1>1 DEF OpenCopied, NothingToCopy, GoTo, rawVars, indexVars, procVars, history,
     LocalTypeOK, InHand
<1>2. ASSUME NEW p \in Agent, OpenReads(p) PROVE InHand'
  BY <1>2 DEF OpenReads, NothingToCopy, GoTo, rawVars, indexVars, procVars, history,
     LocalTypeOK, InHand
<1>3. ASSUME NEW p \in Agent, OpenBlind(p) PROVE InHand'
  BY <1>3 DEF OpenBlind, NothingToCopy, Failure, GoTo, rawVars, indexVars, procVars, history,
     LocalTypeOK, InHand
<1>4. ASSUME NEW p \in Agent, Copy(p) PROVE InHand'
  BY <1>4 DEF Copy, GoTo, rawVars, indexVars, procVars, history,
     LocalTypeOK, InHand
<1>5. ASSUME NEW p \in Agent, CopyFails(p) PROVE InHand'
  BY <1>5 DEF CopyFails, Failure, GoTo, rawVars, indexVars, procVars, history,
     LocalTypeOK, InHand
<1>6. ASSUME NEW p \in Agent, Connect(p) PROVE InHand'
  BY <1>6 DEF Connect, GoTo, rawVars, indexVars, procVars, history,
     LocalTypeOK, InHand
<1>7. ASSUME NEW p \in Agent, ConnectFails(p) PROVE InHand'
  BY <1>7 DEF ConnectFails, Failure, GoTo, rawVars, indexVars, procVars, history,
     LocalTypeOK, InHand
<1>8. ASSUME NEW p \in Agent, ReadObs(p) PROVE InHand'
  BY <1>8 DEF ReadObs, GoTo, rawVars, indexVars, procVars, history,
     LocalTypeOK, InHand
<1>9. ASSUME NEW p \in Agent, ReadTombs(p) PROVE InHand'
  BY <1>9 DEF ReadTombs, GoTo, rawVars, indexVars, procVars, history,
     LocalTypeOK, InHand
<1>10. ASSUME NEW p \in Agent, NEW by \in Winners(seen[p]), Apply(p, by) PROVE InHand'
  BY <1>10 DEF Apply, GoTo, rawVars, indexVars, procVars, history,
     LocalTypeOK, InHand
<1>11. ASSUME NEW p \in Agent, ApplyFails(p) PROVE InHand'
  BY <1>11 DEF ApplyFails, Failure, GoTo, rawVars, indexVars, procVars, history,
     LocalTypeOK, InHand
<1>12. ASSUME NEW p \in Agent, NEW o \in Obs, SaveRaw(p, o) PROVE InHand'
  BY <1>12 DEF SaveRaw, Fresh, GoTo, rawVars, indexVars, procVars, history,
     LocalTypeOK, InHand
<1>13. ASSUME NEW p \in Agent, NEW o \in Obs, DeleteRaw(p, o) PROVE InHand'
  BY <1>13 DEF DeleteRaw, Found, GoTo, rawVars, indexVars, procVars, history,
     LocalTypeOK, InHand
<1>14. ASSUME NEW p \in Agent, NEW ok \in BOOLEAN, SaveIndexes(p, ok) PROVE InHand'
  BY <1>14 DEF SaveIndexes, IndexWrite, Failure, GoTo, rawVars, indexVars, procVars, history,
     LocalTypeOK, InHand
<1>15. ASSUME NEW p \in Agent, NEW ok \in BOOLEAN, DeleteMarks(p, ok) PROVE InHand'
  BY <1>15 DEF DeleteMarks, IndexWrite, Failure, GoTo, rawVars, indexVars, procVars, history,
     LocalTypeOK, InHand
<1>16. ASSUME NEW p \in Agent, NEW ok \in BOOLEAN, PurgeRow(p, ok) PROVE InHand'
  BY <1>16 DEF PurgeRow, IndexWrite, Failure, GoTo, rawVars, indexVars, procVars, history,
     LocalTypeOK, InHand
<1>17. ASSUME NEW p \in Agent, NEW S \in SUBSET Obs, NEW sweep \in BOOLEAN, Purge(p, S, sweep) PROVE InHand'
  BY <1>17 DEF Purge, GoTo, rawVars, indexVars, procVars, history,
     LocalTypeOK, InHand
<1>18. ASSUME NEW p \in Agent, NEW o \in ids[p], PurgeObs(p, o) PROVE InHand'
  BY <1>18 DEF PurgeObs, GoTo, rawVars, indexVars, procVars, history,
     LocalTypeOK, InHand
<1>19. ASSUME NEW p \in Agent, PurgeTomb(p) PROVE InHand'
  BY <1>19 DEF PurgeTomb, GoTo, rawVars, indexVars, procVars, history,
     LocalTypeOK, InHand
<1>20. ASSUME NEW p \in Agent, PurgeRaises(p) PROVE InHand'
  BY <1>20 DEF PurgeRaises, Failure, GoTo, rawVars, indexVars, procVars, history,
     LocalTypeOK, InHand
<1>21. ASSUME NEW p \in Agent, Close(p) PROVE InHand'
  BY <1>21 DEF Close, Ends, GoTo, rawVars, indexVars, procVars, history,
     LocalTypeOK, InHand
<1>22. ASSUME NEW p \in Agent, AgentCrash(p) PROVE InHand'
  BY <1>22 DEF AgentCrash, Ends, Failure, GoTo, rawVars, indexVars, procVars, history,
     LocalTypeOK, InHand
<1>23. ASSUME UNCHANGED localVars PROVE InHand'
  BY <1>23 DEF localVars, rawVars, indexVars, procVars, history, LocalTypeOK, InHand
<1> QED
  BY <1>1, <1>2, <1>3, <1>4, <1>5, <1>6, <1>7, <1>8, <1>9, <1>10, <1>11, <1>12, <1>13, <1>14, <1>15, <1>16, <1>17, <1>18, <1>19, <1>20, <1>21, <1>22, <1>23 DEF LocalNext, Open, Operate

RowMoves == Sound(table', Obs) /\ GrowsOrGoes(table, table')

\* Every step keeps the rows sound, and lets each grow or go.
LEMMA RowStep ==
  LocalTypeOK /\ InHand /\ Sound(table, Obs) /\ [LocalNext]_localVars => RowMoves
<1> SUFFICES ASSUME LocalTypeOK, InHand, Sound(table, Obs), [LocalNext]_localVars
             PROVE  RowMoves
  OBVIOUS
<1> USE LocalBound
<1>1. ASSUME NEW p \in Agent, OpenCopied(p) PROVE RowMoves
  BY <1>1 DEF OpenCopied, NothingToCopy, GoTo, rawVars, indexVars, procVars, history,
     LocalTypeOK, InHand, RowMoves, GrowsOrGoes, Grows
<1>2. ASSUME NEW p \in Agent, OpenReads(p) PROVE RowMoves
  BY <1>2 DEF OpenReads, NothingToCopy, GoTo, rawVars, indexVars, procVars, history,
     LocalTypeOK, InHand, RowMoves, GrowsOrGoes, Grows
<1>3. ASSUME NEW p \in Agent, OpenBlind(p) PROVE RowMoves
  BY <1>3 DEF OpenBlind, NothingToCopy, Failure, GoTo, rawVars, indexVars, procVars, history,
     LocalTypeOK, InHand, RowMoves, GrowsOrGoes, Grows
<1>4. ASSUME NEW p \in Agent, Copy(p) PROVE RowMoves
  BY <1>4 DEF Copy, GoTo, rawVars, indexVars, procVars, history,
     LocalTypeOK, InHand, RowMoves, GrowsOrGoes, Grows
<1>5. ASSUME NEW p \in Agent, CopyFails(p) PROVE RowMoves
  BY <1>5 DEF CopyFails, Failure, GoTo, rawVars, indexVars, procVars, history,
     LocalTypeOK, InHand, RowMoves, GrowsOrGoes, Grows
<1>6. ASSUME NEW p \in Agent, Connect(p) PROVE RowMoves
  BY <1>6 DEF Connect, GoTo, rawVars, indexVars, procVars, history,
     LocalTypeOK, InHand, RowMoves, GrowsOrGoes, Grows
<1>7. ASSUME NEW p \in Agent, ConnectFails(p) PROVE RowMoves
  BY <1>7 DEF ConnectFails, Failure, GoTo, rawVars, indexVars, procVars, history,
     LocalTypeOK, InHand, RowMoves, GrowsOrGoes, Grows
<1>8. ASSUME NEW p \in Agent, ReadObs(p) PROVE RowMoves
  BY <1>8 DEF ReadObs, GoTo, rawVars, indexVars, procVars, history,
     LocalTypeOK, InHand, RowMoves, GrowsOrGoes, Grows
<1>9. ASSUME NEW p \in Agent, ReadTombs(p) PROVE RowMoves
  BY <1>9 DEF ReadTombs, GoTo, rawVars, indexVars, procVars, history,
     LocalTypeOK, InHand, RowMoves, GrowsOrGoes, Grows
<1>10. ASSUME NEW p \in Agent, NEW by \in Winners(seen[p]), Apply(p, by) PROVE RowMoves
  <2>1. seen[p] \in SUBSET Obs /\ dead[p] \in SUBSET Obs
    BY DEF LocalTypeOK
  <2>2. table' = RebuiltFromRaw(table, seen[p], dead[p], by)
    BY <1>10 DEF Apply
  <2>3. Sound(table', Obs) /\ GrowsOrGoes(table, table')
    BY <2>1, <2>2, RawRebuild
  <2> QED BY <2>3 DEF RowMoves
<1>11. ASSUME NEW p \in Agent, ApplyFails(p) PROVE RowMoves
  BY <1>11 DEF ApplyFails, Failure, GoTo, rawVars, indexVars, procVars, history,
     LocalTypeOK, InHand, RowMoves, GrowsOrGoes, Grows
<1>12. ASSUME NEW p \in Agent, NEW o \in Obs, SaveRaw(p, o) PROVE RowMoves
  BY <1>12 DEF SaveRaw, Fresh, GoTo, rawVars, indexVars, procVars, history,
     LocalTypeOK, InHand, RowMoves, GrowsOrGoes, Grows
<1>13. ASSUME NEW p \in Agent, NEW o \in Obs, DeleteRaw(p, o) PROVE RowMoves
  BY <1>13 DEF DeleteRaw, Found, GoTo, rawVars, indexVars, procVars, history,
     LocalTypeOK, InHand, RowMoves, GrowsOrGoes, Grows
<1>14. ASSUME NEW p \in Agent, NEW ok \in BOOLEAN, SaveIndexes(p, ok) PROVE RowMoves
  <2>1. CASE ok
    <3>1. at[p] \in Obs /\ table' = Upserted(table, at[p])
      BY <1>14, <2>1 DEF SaveIndexes, InHand
    <3> QED BY <3>1, UpsertedSound, SoundWithoutText DEF RowMoves, GrowsOrGoes
  <2>2. CASE ~ok
    BY <1>14, <2>2 DEF SaveIndexes, RowMoves, GrowsOrGoes, Grows
  <2> QED BY <2>1, <2>2
<1>15. ASSUME NEW p \in Agent, NEW ok \in BOOLEAN, DeleteMarks(p, ok) PROVE RowMoves
  <2>1. CASE ok
    <3>1. {at[p]} \in SUBSET Obs /\ table' = Marked(table, {at[p]})
      BY <1>15, <2>1 DEF DeleteMarks, InHand
    <3> QED BY <3>1, MarkedSound, SoundWithoutText DEF RowMoves, GrowsOrGoes
  <2>2. CASE ~ok
    BY <1>15, <2>2 DEF DeleteMarks, RowMoves, GrowsOrGoes, Grows
  <2> QED BY <2>1, <2>2
<1>16. ASSUME NEW p \in Agent, NEW ok \in BOOLEAN, PurgeRow(p, ok) PROVE RowMoves
  <2>1. CASE ok
    <3>1. at[p] \in Obs /\ table' = Removed(table, at[p])
      BY <1>16, <2>1 DEF PurgeRow, InHand
    <3> QED BY <3>1, RemovedSound, SoundWithoutText DEF RowMoves, GrowsOrGoes
  <2>2. CASE ~ok
    BY <1>16, <2>2 DEF PurgeRow, RowMoves, GrowsOrGoes, Grows
  <2> QED BY <2>1, <2>2
<1>17. ASSUME NEW p \in Agent, NEW S \in SUBSET Obs, NEW sweep \in BOOLEAN, Purge(p, S, sweep) PROVE RowMoves
  BY <1>17 DEF Purge, GoTo, rawVars, indexVars, procVars, history,
     LocalTypeOK, InHand, RowMoves, GrowsOrGoes, Grows
<1>18. ASSUME NEW p \in Agent, NEW o \in ids[p], PurgeObs(p, o) PROVE RowMoves
  BY <1>18 DEF PurgeObs, GoTo, rawVars, indexVars, procVars, history,
     LocalTypeOK, InHand, RowMoves, GrowsOrGoes, Grows
<1>19. ASSUME NEW p \in Agent, PurgeTomb(p) PROVE RowMoves
  BY <1>19 DEF PurgeTomb, GoTo, rawVars, indexVars, procVars, history,
     LocalTypeOK, InHand, RowMoves, GrowsOrGoes, Grows
<1>20. ASSUME NEW p \in Agent, PurgeRaises(p) PROVE RowMoves
  BY <1>20 DEF PurgeRaises, Failure, GoTo, rawVars, indexVars, procVars, history,
     LocalTypeOK, InHand, RowMoves, GrowsOrGoes, Grows
<1>21. ASSUME NEW p \in Agent, Close(p) PROVE RowMoves
  BY <1>21 DEF Close, Ends, GoTo, rawVars, indexVars, procVars, history,
     LocalTypeOK, InHand, RowMoves, GrowsOrGoes, Grows
<1>22. ASSUME NEW p \in Agent, AgentCrash(p) PROVE RowMoves
  BY <1>22 DEF AgentCrash, Ends, Failure, GoTo, rawVars, indexVars, procVars, history,
     LocalTypeOK, InHand, RowMoves, GrowsOrGoes, Grows
<1>23. ASSUME UNCHANGED localVars PROVE RowMoves
  BY <1>23 DEF localVars, rawVars, indexVars, procVars, history, LocalTypeOK, InHand, RowMoves, GrowsOrGoes, Grows
<1> QED
  BY <1>1, <1>2, <1>3, <1>4, <1>5, <1>6, <1>7, <1>8, <1>9, <1>10, <1>11, <1>12, <1>13, <1>14, <1>15, <1>16, <1>17, <1>18, <1>19, <1>20, <1>21, <1>22, <1>23 DEF LocalNext, Open, Operate

\* Every step keeps the types.
LEMMA TypeStep ==
  LocalTypeOK /\ InHand /\ Sound(table, Obs) /\ [LocalNext]_localVars => LocalTypeOK'
<1> SUFFICES ASSUME LocalTypeOK, InHand, Sound(table, Obs), [LocalNext]_localVars
             PROVE  LocalTypeOK'
  OBVIOUS
<1> USE LocalBound
<1>r. table' \in Rows
  BY RowStep DEF RowMoves, Sound
<1>1. ASSUME NEW p \in Agent, OpenCopied(p) PROVE LocalTypeOK'
  BY <1>1, <1>r DEF OpenCopied, NothingToCopy, GoTo, rawVars, indexVars, procVars, history,
     LocalTypeOK, Stages, InHand
<1>2. ASSUME NEW p \in Agent, OpenReads(p) PROVE LocalTypeOK'
  <2>1. Copied(table) \subseteq Obs /\ CopiedTombs(table) \subseteq Obs
    BY DEF Copied, CopiedTombs, Live, Present
  <2> QED BY <1>2, <1>r, <2>1 DEF OpenReads, GoTo, rawVars, indexVars, history, LocalTypeOK, Stages
<1>3. ASSUME NEW p \in Agent, OpenBlind(p) PROVE LocalTypeOK'
  <2>1. Present(table) \subseteq Obs
    BY DEF Present
  <2>2. stranded' \subseteq Obs
    BY <1>3, <2>1 DEF OpenBlind, LocalTypeOK
  <2> QED BY <1>3, <1>r, <2>2 DEF OpenBlind, Failure, GoTo, rawVars, indexVars, LocalTypeOK, Stages
<1>4. ASSUME NEW p \in Agent, Copy(p) PROVE LocalTypeOK'
  BY <1>4, <1>r DEF Copy, GoTo, rawVars, indexVars, procVars, history,
     LocalTypeOK, Stages, InHand
<1>5. ASSUME NEW p \in Agent, CopyFails(p) PROVE LocalTypeOK'
  BY <1>5, <1>r DEF CopyFails, Failure, GoTo, rawVars, indexVars, procVars, history,
     LocalTypeOK, Stages, InHand
<1>6. ASSUME NEW p \in Agent, Connect(p) PROVE LocalTypeOK'
  <2>1. Live(table) \subseteq Obs
    BY DEF Live, Present
  <2> QED BY <1>6, <1>r, <2>1 DEF Connect, GoTo, rawVars, history, LocalTypeOK, Stages
<1>7. ASSUME NEW p \in Agent, ConnectFails(p) PROVE LocalTypeOK'
  BY <1>7, <1>r DEF ConnectFails, Failure, GoTo, rawVars, indexVars, procVars, history,
     LocalTypeOK, Stages, InHand
<1>8. ASSUME NEW p \in Agent, ReadObs(p) PROVE LocalTypeOK'
  BY <1>8, <1>r DEF ReadObs, GoTo, rawVars, indexVars, procVars, history,
     LocalTypeOK, Stages, InHand
<1>9. ASSUME NEW p \in Agent, ReadTombs(p) PROVE LocalTypeOK'
  BY <1>9, <1>r DEF ReadTombs, GoTo, rawVars, indexVars, procVars, history,
     LocalTypeOK, Stages, InHand
<1>10. ASSUME NEW p \in Agent, NEW by \in Winners(seen[p]), Apply(p, by) PROVE LocalTypeOK'
  <2>1. RebuiltFts(table, text, seen[p], dead[p]) \subseteq Obs
    BY DEF RebuiltFts, Changed, Live, Present, LocalTypeOK
  <2> QED BY <1>10, <1>r, <2>1 DEF Apply, GoTo, rawVars, history, LocalTypeOK, Stages
<1>11. ASSUME NEW p \in Agent, ApplyFails(p) PROVE LocalTypeOK'
  BY <1>11, <1>r DEF ApplyFails, Failure, GoTo, rawVars, indexVars, procVars, history,
     LocalTypeOK, Stages, InHand
<1>12. ASSUME NEW p \in Agent, NEW o \in Obs, SaveRaw(p, o) PROVE LocalTypeOK'
  BY <1>12, <1>r DEF SaveRaw, Fresh, GoTo, rawVars, indexVars, procVars, history,
     LocalTypeOK, Stages, InHand
<1>13. ASSUME NEW p \in Agent, NEW o \in Obs, DeleteRaw(p, o) PROVE LocalTypeOK'
  BY <1>13, <1>r DEF DeleteRaw, Found, GoTo, rawVars, indexVars, procVars, history,
     LocalTypeOK, Stages, InHand
<1>14. ASSUME NEW p \in Agent, NEW ok \in BOOLEAN, SaveIndexes(p, ok) PROVE LocalTypeOK'
  BY <1>14, <1>r DEF SaveIndexes, IndexWrite, Failure, GoTo, rawVars, indexVars, procVars, history,
     LocalTypeOK, Stages, InHand
<1>15. ASSUME NEW p \in Agent, NEW ok \in BOOLEAN, DeleteMarks(p, ok) PROVE LocalTypeOK'
  BY <1>15, <1>r DEF DeleteMarks, IndexWrite, Failure, GoTo, rawVars, indexVars, procVars, history,
     LocalTypeOK, Stages, InHand
<1>16. ASSUME NEW p \in Agent, NEW ok \in BOOLEAN, PurgeRow(p, ok) PROVE LocalTypeOK'
  BY <1>16, <1>r DEF PurgeRow, IndexWrite, Failure, GoTo, rawVars, indexVars, procVars, history,
     LocalTypeOK, Stages, InHand
<1>17. ASSUME NEW p \in Agent, NEW S \in SUBSET Obs, NEW sweep \in BOOLEAN, Purge(p, S, sweep) PROVE LocalTypeOK'
  BY <1>17, <1>r DEF Purge, GoTo, rawVars, indexVars, procVars, history,
     LocalTypeOK, Stages, InHand
<1>18. ASSUME NEW p \in Agent, NEW o \in ids[p], PurgeObs(p, o) PROVE LocalTypeOK'
  BY <1>18, <1>r DEF PurgeObs, GoTo, rawVars, indexVars, procVars, history,
     LocalTypeOK, Stages, InHand
<1>19. ASSUME NEW p \in Agent, PurgeTomb(p) PROVE LocalTypeOK'
  BY <1>19, <1>r DEF PurgeTomb, GoTo, rawVars, indexVars, procVars, history,
     LocalTypeOK, Stages, InHand
<1>20. ASSUME NEW p \in Agent, PurgeRaises(p) PROVE LocalTypeOK'
  BY <1>20, <1>r DEF PurgeRaises, Failure, GoTo, rawVars, indexVars, procVars, history,
     LocalTypeOK, Stages, InHand
<1>21. ASSUME NEW p \in Agent, Close(p) PROVE LocalTypeOK'
  BY <1>21, <1>r DEF Close, Ends, GoTo, rawVars, indexVars, procVars, history,
     LocalTypeOK, Stages, InHand
<1>22. ASSUME NEW p \in Agent, AgentCrash(p) PROVE LocalTypeOK'
  BY <1>22, <1>r DEF AgentCrash, Ends, Failure, GoTo, rawVars, indexVars, procVars, history,
     LocalTypeOK, Stages, InHand
<1>23. ASSUME UNCHANGED localVars PROVE LocalTypeOK'
  BY <1>23 DEF localVars, rawVars, indexVars, procVars, history, LocalTypeOK, Stages, InHand
<1> QED
  BY <1>1, <1>2, <1>3, <1>4, <1>5, <1>6, <1>7, <1>8, <1>9, <1>10, <1>11, <1>12, <1>13, <1>14, <1>15, <1>16, <1>17, <1>18, <1>19, <1>20, <1>21, <1>22, <1>23 DEF LocalNext, Open, Operate

\* Ids that are in no table of raw.db, were never purged, and whose copy has not failed.
Uncopied == saved \ (erased \cup stranded \cup obs \cup tomb)

\* While there are any, no process is past its copy, and each copy will take them.
CopyPending ==
  Uncopied # {} =>
    /\ ~migrated /\ made
    /\ Uncopied \subseteq Copied(table)
    /\ \A p \in Agent : /\ pc[p] \in {"closed", "copy"}
                        /\ pc[p] = "copy" => Uncopied \subseteq seen[p]

\* A tombstone goes only with an id whose observation has gone.
PurgesInOrder == \A p \in Agent : pc[p] = "purgeTomb" => at[p] \in erased

\* Every step keeps what is not copied yet where a copy will find it.
LEMMA CopyStep ==
  LocalTypeOK /\ InHand /\ CopyPending /\ PurgesInOrder /\ [LocalNext]_localVars => (CopyPending /\ PurgesInOrder)'
<1> SUFFICES ASSUME LocalTypeOK, InHand, CopyPending, PurgesInOrder, [LocalNext]_localVars
             PROVE  (CopyPending /\ PurgesInOrder)'
  OBVIOUS
<1> USE LocalBound
<1>1. ASSUME NEW p \in Agent, OpenCopied(p) PROVE (CopyPending /\ PurgesInOrder)'
  BY <1>1 DEF OpenCopied, NothingToCopy, GoTo, rawVars, indexVars, procVars, history,
     LocalTypeOK, InHand, CopyPending, PurgesInOrder, Uncopied
<1>2. ASSUME NEW p \in Agent, OpenReads(p) PROVE (CopyPending /\ PurgesInOrder)'
  BY <1>2 DEF OpenReads, NothingToCopy, GoTo, rawVars, indexVars, procVars, history,
     LocalTypeOK, InHand, CopyPending, PurgesInOrder, Uncopied
<1>3. ASSUME NEW p \in Agent, OpenBlind(p) PROVE (CopyPending /\ PurgesInOrder)'
  <2>1. Uncopied' \subseteq Uncopied /\ (Uncopied # {} => Uncopied' = {})
    <3>1. Uncopied # {} => Uncopied \subseteq Present(table) \ obs
      BY DEF CopyPending, Uncopied, Copied, Live
    <3>2. /\ stranded' = stranded \cup (Present(table) \ obs)
          /\ UNCHANGED <<saved, erased, obs, tomb>>
      BY <1>3 DEF OpenBlind, rawVars
    <3> QED BY <3>1, <3>2 DEF Uncopied
  <2>2. PurgesInOrder'
    BY <1>3 DEF OpenBlind, GoTo, LocalTypeOK, PurgesInOrder
  <2> QED BY <2>1, <2>2 DEF CopyPending
<1>4. ASSUME NEW p \in Agent, Copy(p) PROVE (CopyPending /\ PurgesInOrder)'
  BY <1>4 DEF Copy, GoTo, rawVars, indexVars, procVars, history,
     LocalTypeOK, InHand, CopyPending, PurgesInOrder, Uncopied
<1>5. ASSUME NEW p \in Agent, CopyFails(p) PROVE (CopyPending /\ PurgesInOrder)'
  BY <1>5 DEF CopyFails, Failure, GoTo, rawVars, indexVars, procVars, history,
     LocalTypeOK, InHand, CopyPending, PurgesInOrder, Uncopied
<1>6. ASSUME NEW p \in Agent, Connect(p) PROVE (CopyPending /\ PurgesInOrder)'
  BY <1>6 DEF Connect, GoTo, rawVars, indexVars, procVars, history,
     LocalTypeOK, InHand, CopyPending, PurgesInOrder, Uncopied
<1>7. ASSUME NEW p \in Agent, ConnectFails(p) PROVE (CopyPending /\ PurgesInOrder)'
  BY <1>7 DEF ConnectFails, Failure, GoTo, rawVars, indexVars, procVars, history,
     LocalTypeOK, InHand, CopyPending, PurgesInOrder, Uncopied
<1>8. ASSUME NEW p \in Agent, ReadObs(p) PROVE (CopyPending /\ PurgesInOrder)'
  BY <1>8 DEF ReadObs, GoTo, rawVars, indexVars, procVars, history,
     LocalTypeOK, InHand, CopyPending, PurgesInOrder, Uncopied
<1>9. ASSUME NEW p \in Agent, ReadTombs(p) PROVE (CopyPending /\ PurgesInOrder)'
  BY <1>9 DEF ReadTombs, GoTo, rawVars, indexVars, procVars, history,
     LocalTypeOK, InHand, CopyPending, PurgesInOrder, Uncopied
<1>10. ASSUME NEW p \in Agent, NEW by \in Winners(seen[p]), Apply(p, by) PROVE (CopyPending /\ PurgesInOrder)'
  BY <1>10 DEF Apply, GoTo, rawVars, indexVars, procVars, history,
     LocalTypeOK, InHand, CopyPending, PurgesInOrder, Uncopied
<1>11. ASSUME NEW p \in Agent, ApplyFails(p) PROVE (CopyPending /\ PurgesInOrder)'
  BY <1>11 DEF ApplyFails, Failure, GoTo, rawVars, indexVars, procVars, history,
     LocalTypeOK, InHand, CopyPending, PurgesInOrder, Uncopied
<1>12. ASSUME NEW p \in Agent, NEW o \in Obs, SaveRaw(p, o) PROVE (CopyPending /\ PurgesInOrder)'
  BY <1>12 DEF SaveRaw, Fresh, GoTo, rawVars, indexVars, procVars, history,
     LocalTypeOK, InHand, CopyPending, PurgesInOrder, Uncopied
<1>13. ASSUME NEW p \in Agent, NEW o \in Obs, DeleteRaw(p, o) PROVE (CopyPending /\ PurgesInOrder)'
  BY <1>13 DEF DeleteRaw, Found, GoTo, rawVars, indexVars, procVars, history,
     LocalTypeOK, InHand, CopyPending, PurgesInOrder, Uncopied
<1>14. ASSUME NEW p \in Agent, NEW ok \in BOOLEAN, SaveIndexes(p, ok) PROVE (CopyPending /\ PurgesInOrder)'
  BY <1>14 DEF SaveIndexes, IndexWrite, Failure, GoTo, rawVars, indexVars, procVars, history,
     LocalTypeOK, InHand, CopyPending, PurgesInOrder, Uncopied
<1>15. ASSUME NEW p \in Agent, NEW ok \in BOOLEAN, DeleteMarks(p, ok) PROVE (CopyPending /\ PurgesInOrder)'
  BY <1>15 DEF DeleteMarks, IndexWrite, Failure, GoTo, rawVars, indexVars, procVars, history,
     LocalTypeOK, InHand, CopyPending, PurgesInOrder, Uncopied
<1>16. ASSUME NEW p \in Agent, NEW ok \in BOOLEAN, PurgeRow(p, ok) PROVE (CopyPending /\ PurgesInOrder)'
  BY <1>16 DEF PurgeRow, IndexWrite, Failure, GoTo, rawVars, indexVars, procVars, history,
     LocalTypeOK, InHand, CopyPending, PurgesInOrder, Uncopied
<1>17. ASSUME NEW p \in Agent, NEW S \in SUBSET Obs, NEW sweep \in BOOLEAN, Purge(p, S, sweep) PROVE (CopyPending /\ PurgesInOrder)'
  BY <1>17 DEF Purge, GoTo, rawVars, indexVars, procVars, history,
     LocalTypeOK, InHand, CopyPending, PurgesInOrder, Uncopied
<1>18. ASSUME NEW p \in Agent, NEW o \in ids[p], PurgeObs(p, o) PROVE (CopyPending /\ PurgesInOrder)'
  BY <1>18 DEF PurgeObs, GoTo, rawVars, indexVars, procVars, history,
     LocalTypeOK, InHand, CopyPending, PurgesInOrder, Uncopied
<1>19. ASSUME NEW p \in Agent, PurgeTomb(p) PROVE (CopyPending /\ PurgesInOrder)'
  BY <1>19 DEF PurgeTomb, GoTo, rawVars, indexVars, procVars, history,
     LocalTypeOK, InHand, CopyPending, PurgesInOrder, Uncopied
<1>20. ASSUME NEW p \in Agent, PurgeRaises(p) PROVE (CopyPending /\ PurgesInOrder)'
  BY <1>20 DEF PurgeRaises, Failure, GoTo, rawVars, indexVars, procVars, history,
     LocalTypeOK, InHand, CopyPending, PurgesInOrder, Uncopied
<1>21. ASSUME NEW p \in Agent, Close(p) PROVE (CopyPending /\ PurgesInOrder)'
  BY <1>21 DEF Close, Ends, GoTo, rawVars, indexVars, procVars, history,
     LocalTypeOK, InHand, CopyPending, PurgesInOrder, Uncopied
<1>22. ASSUME NEW p \in Agent, AgentCrash(p) PROVE (CopyPending /\ PurgesInOrder)'
  BY <1>22 DEF AgentCrash, Ends, Failure, GoTo, rawVars, indexVars, procVars, history,
     LocalTypeOK, InHand, CopyPending, PurgesInOrder, Uncopied
<1>23. ASSUME UNCHANGED localVars PROVE (CopyPending /\ PurgesInOrder)'
  BY <1>23 DEF localVars, rawVars, indexVars, procVars, history, LocalTypeOK, InHand, CopyPending, PurgesInOrder, Uncopied
<1> QED
  BY <1>1, <1>2, <1>3, <1>4, <1>5, <1>6, <1>7, <1>8, <1>9, <1>10, <1>11, <1>12, <1>13, <1>14, <1>15, <1>16, <1>17, <1>18, <1>19, <1>20, <1>21, <1>22, <1>23 DEF LocalNext, Open, Operate

\* The index has nothing in raw.db, or on its way there, as deleted that raw.db does
\* not: a deletion reaches raw.db first, and leaves it after its observation.
DeletedInRaw ==
  /\ \A o \in Present(table) :
       table[o].deleted /\ (o \in obs \/ \E p \in Agent : pc[p] = "copy" /\ o \in seen[p])
         => o \in tomb \cup erased
  /\ \A p \in Agent : pc[p] = "apply" => dead[p] \subseteq tomb \cup erased
  /\ \A p \in Agent : pc[p] = "mark" => at[p] \in tomb \cup erased

\* Every step keeps the deletions of the index behind those of raw.db.
LEMMA DeletedStep ==
  LocalTypeOK /\ InHand /\ Sound(table, Obs) /\ PurgesInOrder /\ DeletedInRaw /\ [LocalNext]_localVars => DeletedInRaw'
<1> SUFFICES ASSUME LocalTypeOK, InHand, Sound(table, Obs), PurgesInOrder, DeletedInRaw, [LocalNext]_localVars
             PROVE  DeletedInRaw'
  OBVIOUS
<1> USE LocalBound
<1>1. ASSUME NEW p \in Agent, OpenCopied(p) PROVE DeletedInRaw'
  BY <1>1 DEF OpenCopied, NothingToCopy, GoTo, rawVars, indexVars, procVars, history,
     LocalTypeOK, InHand, PurgesInOrder, DeletedInRaw
<1>2. ASSUME NEW p \in Agent, OpenReads(p) PROVE DeletedInRaw'
  <2>1. \A o \in Copied(table) : ~table[o].deleted
    BY DEF Copied, Live
  <2> QED BY <1>2, <2>1 DEF OpenReads, GoTo, rawVars, indexVars, history, LocalTypeOK, DeletedInRaw
<1>3. ASSUME NEW p \in Agent, OpenBlind(p) PROVE DeletedInRaw'
  BY <1>3 DEF OpenBlind, NothingToCopy, Failure, GoTo, rawVars, indexVars, procVars, history,
     LocalTypeOK, InHand, PurgesInOrder, DeletedInRaw
<1>4. ASSUME NEW p \in Agent, Copy(p) PROVE DeletedInRaw'
  BY <1>4 DEF Copy, GoTo, rawVars, indexVars, procVars, history,
     LocalTypeOK, InHand, PurgesInOrder, DeletedInRaw
<1>5. ASSUME NEW p \in Agent, CopyFails(p) PROVE DeletedInRaw'
  BY <1>5 DEF CopyFails, Failure, GoTo, rawVars, indexVars, procVars, history,
     LocalTypeOK, InHand, PurgesInOrder, DeletedInRaw
<1>6. ASSUME NEW p \in Agent, Connect(p) PROVE DeletedInRaw'
  BY <1>6 DEF Connect, GoTo, rawVars, indexVars, procVars, history,
     LocalTypeOK, InHand, PurgesInOrder, DeletedInRaw
<1>7. ASSUME NEW p \in Agent, ConnectFails(p) PROVE DeletedInRaw'
  BY <1>7 DEF ConnectFails, Failure, GoTo, rawVars, indexVars, procVars, history,
     LocalTypeOK, InHand, PurgesInOrder, DeletedInRaw
<1>8. ASSUME NEW p \in Agent, ReadObs(p) PROVE DeletedInRaw'
  BY <1>8 DEF ReadObs, GoTo, rawVars, indexVars, procVars, history,
     LocalTypeOK, InHand, PurgesInOrder, DeletedInRaw
<1>9. ASSUME NEW p \in Agent, ReadTombs(p) PROVE DeletedInRaw'
  BY <1>9 DEF ReadTombs, GoTo, rawVars, indexVars, procVars, history,
     LocalTypeOK, InHand, PurgesInOrder, DeletedInRaw
<1>10. ASSUME NEW p \in Agent, NEW by \in Winners(seen[p]), Apply(p, by) PROVE DeletedInRaw'
  <2>1. seen[p] \in SUBSET Obs /\ dead[p] \in SUBSET Obs
    BY DEF LocalTypeOK
  <2>2. table' = RebuiltFromRaw(table, seen[p], dead[p], by)
    BY <1>10 DEF Apply
  <2>3. Deletes(table, table', dead[p])
    BY <1>10, <2>1, <2>2, RawRebuildDeletes
  <2>4. dead[p] \subseteq tomb \cup erased
    BY <1>10 DEF Apply, DeletedInRaw
  <2> QED BY <1>10, <2>3, <2>4 DEF Apply, GoTo, rawVars, history, LocalTypeOK, DeletedInRaw, Deletes
<1>11. ASSUME NEW p \in Agent, ApplyFails(p) PROVE DeletedInRaw'
  BY <1>11 DEF ApplyFails, Failure, GoTo, rawVars, indexVars, procVars, history,
     LocalTypeOK, InHand, PurgesInOrder, DeletedInRaw
<1>12. ASSUME NEW p \in Agent, NEW o \in Obs, SaveRaw(p, o) PROVE DeletedInRaw'
  BY <1>12 DEF SaveRaw, Fresh, GoTo, rawVars, indexVars, procVars, history,
     LocalTypeOK, InHand, PurgesInOrder, DeletedInRaw
<1>13. ASSUME NEW p \in Agent, NEW o \in Obs, DeleteRaw(p, o) PROVE DeletedInRaw'
  BY <1>13 DEF DeleteRaw, Found, GoTo, rawVars, indexVars, procVars, history,
     LocalTypeOK, InHand, PurgesInOrder, DeletedInRaw
<1>14. ASSUME NEW p \in Agent, NEW ok \in BOOLEAN, SaveIndexes(p, ok) PROVE DeletedInRaw'
  <2>1. CASE ok
    <3>1. at[p] \in Obs /\ table' = Upserted(table, at[p])
      BY <1>14, <2>1 DEF SaveIndexes, InHand
    <3>2. Deletes(table, table', {})
      BY <3>1, UpsertedDeletes
    <3> QED BY <1>14, <3>2 DEF SaveIndexes, GoTo, rawVars, history, LocalTypeOK, DeletedInRaw, Deletes
  <2>2. CASE ~ok
    BY <1>14, <2>2 DEF SaveIndexes, GoTo, rawVars, history, LocalTypeOK, DeletedInRaw
  <2> QED BY <2>1, <2>2
<1>15. ASSUME NEW p \in Agent, NEW ok \in BOOLEAN, DeleteMarks(p, ok) PROVE DeletedInRaw'
  <2>1. CASE ok
    <3>1. {at[p]} \in SUBSET Obs /\ table' = Marked(table, {at[p]})
      BY <1>15, <2>1 DEF DeleteMarks, InHand
    <3>2. Deletes(table, table', {at[p]})
      BY <3>1, MarkedDeletes
    <3>3. at[p] \in tomb \cup erased
      BY <1>15 DEF DeleteMarks, DeletedInRaw
    <3> QED BY <1>15, <3>2, <3>3 DEF DeleteMarks, GoTo, rawVars, history, LocalTypeOK, DeletedInRaw, Deletes
  <2>2. CASE ~ok
    BY <1>15, <2>2 DEF DeleteMarks, GoTo, rawVars, history, LocalTypeOK, DeletedInRaw
  <2> QED BY <2>1, <2>2
<1>16. ASSUME NEW p \in Agent, NEW ok \in BOOLEAN, PurgeRow(p, ok) PROVE DeletedInRaw'
  <2>1. CASE ok
    <3>1. at[p] \in Obs /\ table' = Removed(table, at[p])
      BY <1>16, <2>1 DEF PurgeRow, InHand
    <3>2. Deletes(table, table', {})
      BY <3>1, RemovedDeletes
    <3> QED BY <1>16, <3>2 DEF PurgeRow, GoTo, rawVars, history, LocalTypeOK, DeletedInRaw, Deletes
  <2>2. CASE ~ok
    BY <1>16, <2>2 DEF PurgeRow, GoTo, rawVars, history, LocalTypeOK, DeletedInRaw
  <2> QED BY <2>1, <2>2
<1>17. ASSUME NEW p \in Agent, NEW S \in SUBSET Obs, NEW sweep \in BOOLEAN, Purge(p, S, sweep) PROVE DeletedInRaw'
  BY <1>17 DEF Purge, GoTo, rawVars, indexVars, procVars, history,
     LocalTypeOK, InHand, PurgesInOrder, DeletedInRaw
<1>18. ASSUME NEW p \in Agent, NEW o \in ids[p], PurgeObs(p, o) PROVE DeletedInRaw'
  BY <1>18 DEF PurgeObs, GoTo, rawVars, indexVars, procVars, history,
     LocalTypeOK, InHand, PurgesInOrder, DeletedInRaw
<1>19. ASSUME NEW p \in Agent, PurgeTomb(p) PROVE DeletedInRaw'
  BY <1>19 DEF PurgeTomb, GoTo, rawVars, indexVars, procVars, history,
     LocalTypeOK, InHand, PurgesInOrder, DeletedInRaw
<1>20. ASSUME NEW p \in Agent, PurgeRaises(p) PROVE DeletedInRaw'
  BY <1>20 DEF PurgeRaises, Failure, GoTo, rawVars, indexVars, procVars, history,
     LocalTypeOK, InHand, PurgesInOrder, DeletedInRaw
<1>21. ASSUME NEW p \in Agent, Close(p) PROVE DeletedInRaw'
  BY <1>21 DEF Close, Ends, GoTo, rawVars, indexVars, procVars, history,
     LocalTypeOK, InHand, PurgesInOrder, DeletedInRaw
<1>22. ASSUME NEW p \in Agent, AgentCrash(p) PROVE DeletedInRaw'
  BY <1>22 DEF AgentCrash, Ends, Failure, GoTo, rawVars, indexVars, procVars, history,
     LocalTypeOK, InHand, PurgesInOrder, DeletedInRaw
<1>23. ASSUME UNCHANGED localVars PROVE DeletedInRaw'
  BY <1>23 DEF localVars, rawVars, indexVars, procVars, history, LocalTypeOK, InHand, PurgesInOrder, DeletedInRaw
<1> QED
  BY <1>1, <1>2, <1>3, <1>4, <1>5, <1>6, <1>7, <1>8, <1>9, <1>10, <1>11, <1>12, <1>13, <1>14, <1>15, <1>16, <1>17, <1>18, <1>19, <1>20, <1>21, <1>22, <1>23 DEF LocalNext, Open, Operate

\* The full-text table has every live row once a process has opened the index.
FtsCovers ==
  \/ Live(table) \subseteq text
  \/ \A p \in Agent : \/ pc[p] \in {"closed", "copy", "connect"}
                      \/ p \in off /\ pc[p] \notin {"scanObs", "scanTombs", "apply"}

\* Every step keeps full text for the live rows.
LEMMA FtsStep ==
  LocalTypeOK /\ InHand /\ Sound(table, Obs) /\ FtsCovers /\ [LocalNext]_localVars => FtsCovers'
<1> SUFFICES ASSUME LocalTypeOK, InHand, Sound(table, Obs), FtsCovers, [LocalNext]_localVars
             PROVE  FtsCovers'
  OBVIOUS
<1> USE LocalBound
<1>1. ASSUME NEW p \in Agent, OpenCopied(p) PROVE FtsCovers'
  BY <1>1 DEF OpenCopied, NothingToCopy, GoTo, rawVars, indexVars, procVars, history,
     LocalTypeOK, InHand, FtsCovers
<1>2. ASSUME NEW p \in Agent, OpenReads(p) PROVE FtsCovers'
  BY <1>2 DEF OpenReads, NothingToCopy, GoTo, rawVars, indexVars, procVars, history,
     LocalTypeOK, InHand, FtsCovers
<1>3. ASSUME NEW p \in Agent, OpenBlind(p) PROVE FtsCovers'
  BY <1>3 DEF OpenBlind, NothingToCopy, Failure, GoTo, rawVars, indexVars, procVars, history,
     LocalTypeOK, InHand, FtsCovers
<1>4. ASSUME NEW p \in Agent, Copy(p) PROVE FtsCovers'
  BY <1>4 DEF Copy, GoTo, rawVars, indexVars, procVars, history,
     LocalTypeOK, InHand, FtsCovers
<1>5. ASSUME NEW p \in Agent, CopyFails(p) PROVE FtsCovers'
  BY <1>5 DEF CopyFails, Failure, GoTo, rawVars, indexVars, procVars, history,
     LocalTypeOK, InHand, FtsCovers
<1>6. ASSUME NEW p \in Agent, Connect(p) PROVE FtsCovers'
  BY <1>6 DEF Connect, FtsCovers
<1>7. ASSUME NEW p \in Agent, ConnectFails(p) PROVE FtsCovers'
  BY <1>7 DEF ConnectFails, Failure, GoTo, rawVars, indexVars, procVars, history,
     LocalTypeOK, InHand, FtsCovers
<1>8. ASSUME NEW p \in Agent, ReadObs(p) PROVE FtsCovers'
  BY <1>8 DEF ReadObs, GoTo, rawVars, indexVars, procVars, history,
     LocalTypeOK, InHand, FtsCovers
<1>9. ASSUME NEW p \in Agent, ReadTombs(p) PROVE FtsCovers'
  BY <1>9 DEF ReadTombs, GoTo, rawVars, indexVars, procVars, history,
     LocalTypeOK, InHand, FtsCovers
<1>10. ASSUME NEW p \in Agent, NEW by \in Winners(seen[p]), Apply(p, by) PROVE FtsCovers'
  <2>1. seen[p] \in SUBSET Obs /\ dead[p] \in SUBSET Obs /\ by \in Winners(seen[p])
    BY <1>10 DEF LocalTypeOK
  <2>2. /\ table' = RebuiltFromRaw(table, seen[p], dead[p], by)
        /\ text' = RebuiltFts(table, text, seen[p], dead[p])
    BY <1>10 DEF Apply
  <2>3. Sound(table, text)
    BY <1>10 DEF Apply, FtsCovers, Sound, LocalTypeOK
  <2>4. Live(table') \subseteq Live(Rebuilt(table, seen[p], dead[p], by))
    BY <2>1, <2>2, RawRebuild
  <2>5. Sound(Rebuilt(table, seen[p], dead[p], by), RebuiltFts(table, text, seen[p], dead[p]))
    BY <2>1, <2>3, RebuiltSound
  <2> QED BY <2>2, <2>4, <2>5 DEF Sound, FtsCovers
<1>11. ASSUME NEW p \in Agent, ApplyFails(p) PROVE FtsCovers'
  BY <1>11 DEF ApplyFails, Failure, GoTo, rawVars, indexVars, procVars, history,
     LocalTypeOK, InHand, FtsCovers
<1>12. ASSUME NEW p \in Agent, NEW o \in Obs, SaveRaw(p, o) PROVE FtsCovers'
  BY <1>12 DEF SaveRaw, Fresh, GoTo, rawVars, indexVars, procVars, history,
     LocalTypeOK, InHand, FtsCovers
<1>13. ASSUME NEW p \in Agent, NEW o \in Obs, DeleteRaw(p, o) PROVE FtsCovers'
  BY <1>13 DEF DeleteRaw, Found, GoTo, rawVars, indexVars, procVars, history,
     LocalTypeOK, InHand, FtsCovers
<1>14. ASSUME NEW p \in Agent, NEW ok \in BOOLEAN, SaveIndexes(p, ok) PROVE FtsCovers'
  <2>1. CASE ok
    <3>1. at[p] \in Obs /\ table' = Upserted(table, at[p]) /\ text' = text \cup {at[p]}
      BY <1>14, <2>1 DEF SaveIndexes, InHand
    <3>2. Sound(table, text)
      BY <1>14, <2>1 DEF SaveIndexes, IndexWrite, FtsCovers, Sound, LocalTypeOK
    <3>3. Sound(table', text')
      BY <3>1, <3>2, UpsertedSound
    <3> QED BY <3>3 DEF Sound, FtsCovers
  <2>2. CASE ~ok
    BY <1>14, <2>2 DEF SaveIndexes, GoTo, rawVars, history, LocalTypeOK, FtsCovers
  <2> QED BY <2>1, <2>2
<1>15. ASSUME NEW p \in Agent, NEW ok \in BOOLEAN, DeleteMarks(p, ok) PROVE FtsCovers'
  <2>1. CASE ok
    <3>1. at[p] \in Obs /\ table' = Marked(table, {at[p]}) /\ text' = text \ {at[p]}
      BY <1>15, <2>1 DEF DeleteMarks, InHand
    <3>2. Sound(table, text)
      BY <1>15, <2>1 DEF DeleteMarks, IndexWrite, FtsCovers, Sound, LocalTypeOK
    <3>3. Sound(table', text')
      BY <3>1, <3>2, MarkedSound
    <3> QED BY <3>3 DEF Sound, FtsCovers
  <2>2. CASE ~ok
    BY <1>15, <2>2 DEF DeleteMarks, GoTo, rawVars, history, LocalTypeOK, FtsCovers
  <2> QED BY <2>1, <2>2
<1>16. ASSUME NEW p \in Agent, NEW ok \in BOOLEAN, PurgeRow(p, ok) PROVE FtsCovers'
  <2>1. CASE ok
    <3>1. at[p] \in Obs /\ table' = Removed(table, at[p]) /\ text' = text \ {at[p]}
      BY <1>16, <2>1 DEF PurgeRow, InHand
    <3>2. Sound(table, text)
      BY <1>16, <2>1 DEF PurgeRow, IndexWrite, FtsCovers, Sound, LocalTypeOK
    <3>3. Sound(table', text')
      BY <3>1, <3>2, RemovedSound
    <3> QED BY <3>3 DEF Sound, FtsCovers
  <2>2. CASE ~ok
    BY <1>16, <2>2 DEF PurgeRow, GoTo, rawVars, history, LocalTypeOK, FtsCovers
  <2> QED BY <2>1, <2>2
<1>17. ASSUME NEW p \in Agent, NEW S \in SUBSET Obs, NEW sweep \in BOOLEAN, Purge(p, S, sweep) PROVE FtsCovers'
  BY <1>17 DEF Purge, GoTo, rawVars, indexVars, procVars, history,
     LocalTypeOK, InHand, FtsCovers
<1>18. ASSUME NEW p \in Agent, NEW o \in ids[p], PurgeObs(p, o) PROVE FtsCovers'
  BY <1>18 DEF PurgeObs, GoTo, rawVars, indexVars, procVars, history,
     LocalTypeOK, InHand, FtsCovers
<1>19. ASSUME NEW p \in Agent, PurgeTomb(p) PROVE FtsCovers'
  BY <1>19 DEF PurgeTomb, GoTo, rawVars, indexVars, procVars, history,
     LocalTypeOK, InHand, FtsCovers
<1>20. ASSUME NEW p \in Agent, PurgeRaises(p) PROVE FtsCovers'
  BY <1>20 DEF PurgeRaises, Failure, GoTo, rawVars, indexVars, procVars, history,
     LocalTypeOK, InHand, FtsCovers
<1>21. ASSUME NEW p \in Agent, Close(p) PROVE FtsCovers'
  BY <1>21 DEF Close, Ends, GoTo, rawVars, indexVars, procVars, history,
     LocalTypeOK, InHand, FtsCovers
<1>22. ASSUME NEW p \in Agent, AgentCrash(p) PROVE FtsCovers'
  BY <1>22 DEF AgentCrash, Ends, Failure, GoTo, rawVars, indexVars, procVars, history,
     LocalTypeOK, InHand, FtsCovers
<1>23. ASSUME UNCHANGED localVars PROVE FtsCovers'
  BY <1>23 DEF localVars, rawVars, indexVars, procVars, history, LocalTypeOK, InHand, FtsCovers
<1> QED
  BY <1>1, <1>2, <1>3, <1>4, <1>5, <1>6, <1>7, <1>8, <1>9, <1>10, <1>11, <1>12, <1>13, <1>14, <1>15, <1>16, <1>17, <1>18, <1>19, <1>20, <1>21, <1>22, <1>23 DEF LocalNext, Open, Operate

-----------------------------------------------------------------------------

IInv ==
  /\ LocalTypeOK /\ InHand /\ Sound(table, Obs)
  /\ CopyPending /\ PurgesInOrder /\ DeletedInRaw /\ FtsCovers

\* Whatever index an older release left, it is sound and nothing is copied yet.
LEMMA Start ==
  LocalInit => IInv
<1> SUFFICES ASSUME LocalInit PROVE IInv
  OBVIOUS
<1> USE LocalBound
<1>1. LocalTypeOK
  <2>1. table \in Rows /\ Live(table) \subseteq Obs
    BY DEF LocalInit, Live, Present
  <2>2. /\ pc \in [Agent -> Stages] /\ at \in [Agent -> Obs \cup {None}]
        /\ ids \in [Agent -> SUBSET Obs]
        /\ seen \in [Agent -> SUBSET Obs] /\ dead \in [Agent -> SUBSET Obs]
    BY DEF LocalInit, Stages
  <2>3. /\ obs \subseteq Obs /\ tomb \subseteq Obs /\ migrated \in BOOLEAN /\ made \in BOOLEAN
        /\ text \subseteq Obs /\ off \subseteq Agent /\ sweeps \subseteq Agent
        /\ erased \subseteq Obs /\ stranded \subseteq Obs
    BY DEF LocalInit
  <2>4. failures \in 0..MaxFailures
    BY DEF LocalInit
  <2>5. saved \subseteq Obs
    BY <2>1 DEF LocalInit
  <2> QED BY <2>1, <2>2, <2>3, <2>4, <2>5, Zenon DEF LocalTypeOK
<1>2. InHand /\ PurgesInOrder
  BY DEF LocalInit, InHand, PurgesInOrder
<1>3. Sound(table, Obs)
  BY DEF LocalInit, Sound, Live, Present
<1>4. CopyPending
  <2>1. Uncopied \subseteq Copied(table)
    BY DEF LocalInit, Uncopied, Copied, Live
  <2>2. Uncopied # {} => made
    BY <2>1 DEF LocalInit, Copied, Live
  <2> QED BY <2>1, <2>2 DEF LocalInit, CopyPending
<1>5. DeletedInRaw
  BY DEF LocalInit, DeletedInRaw
<1>6. FtsCovers
  BY DEF LocalInit, FtsCovers
<1> QED BY <1>1, <1>2, <1>3, <1>4, <1>5, <1>6 DEF IInv

\* The inductive invariant of the local backend.
THEOREM LocalInvariant ==
  LocalSpec => []IInv
<1>1. IInv /\ [LocalNext]_localVars => IInv'
  BY TypeStep, HandStep, RowStep, CopyStep, DeletedStep, FtsStep DEF IInv, RowMoves, Sound
<1> QED BY Start, <1>1, PTL DEF LocalSpec

\* Every variable keeps its type, for any memories, processes and faults.
THEOREM TypeCorrect ==
  LocalSpec => []LocalTypeOK
<1>1. IInv => LocalTypeOK
  BY DEF IInv
<1> QED BY <1>1, LocalInvariant, PTL

\* A saved memory is in raw.db, or still in the index it will be copied from, until
\* it is physically deleted (LocalBackend, migrate_from_index).
THEOREM SavedIsKept ==
  LocalSpec => []NothingLost
<1>1. IInv => NothingLost
  <2> SUFFICES ASSUME IInv, NEW o \in saved \ (erased \cup stranded), o \notin obs \cup tomb
               PROVE  table[o] # None /\ table[o].known
    BY DEF NothingLost
  <2>1. o \in Uncopied
    BY DEF Uncopied
  <2>2. o \in Copied(table)
    BY <2>1 DEF IInv, CopyPending
  <2> QED BY <2>2 DEF Copied, Live, Present
<1> QED BY <1>1, LocalInvariant, PTL

\* An open that nobody disturbs makes searches agree with raw.db, whatever index
\* writes had failed before (rebuild_from_raw_records).
THEOREM OpenMakesAgree ==
  LocalSpec => OpenAligns
<1> DEFINE A == \A p \in Agent :
                  pc[p] = "apply" /\ pc'[p] = "ready" /\ seen[p] = obs /\ dead[p] = tomb =>
                    /\ Live(table') \ erased = (obs \ tomb) \ erased
                    /\ Live(table') \subseteq text'
<1>1. IInv /\ [LocalNext]_localVars => [A]_localVars
  <2> SUFFICES ASSUME IInv, LocalNext,
                      NEW p \in Agent, pc[p] = "apply", pc'[p] = "ready",
                      seen[p] = obs, dead[p] = tomb
               PROVE  /\ Live(table') \ erased = (obs \ tomb) \ erased
                      /\ Live(table') \subseteq text'
    OBVIOUS
  <2>1. PICK q \in Agent : Open(q) \/ Operate(q) \/ Close(q) \/ AgentCrash(q)
    BY DEF LocalNext
  <2>2. pc \in [Agent -> Stages]
    BY DEF IInv, LocalTypeOK
  <2>3. \E by \in Winners(seen[p]) : Apply(p, by)
    <3>1. CASE q # p
      <4>1. pc'[p] = pc[p]
        BY <2>1, <2>2, <3>1 DEF Open, Operate, OpenCopied, OpenReads, OpenBlind, Copy, CopyFails,
           Connect, ConnectFails, ReadObs, ReadTombs, Apply, ApplyFails, SaveRaw, DeleteRaw, SaveIndexes,
           DeleteMarks, PurgeRow, Purge, PurgeObs, PurgeTomb, PurgeRaises, Close, AgentCrash, Ends, GoTo
      <4> QED BY <4>1
    <3>2. CASE q = p
      BY <2>1, <2>2, <3>2 DEF Open, Operate, OpenCopied, OpenReads, OpenBlind, Copy, CopyFails,
         Connect, ConnectFails, ReadObs, ReadTombs, ApplyFails, SaveRaw, DeleteRaw, SaveIndexes,
         DeleteMarks, PurgeRow, Purge, PurgeObs, PurgeTomb, PurgeRaises, Close, AgentCrash, Ends, GoTo
    <3> QED BY <3>1, <3>2
  <2>4. PICK by \in Winners(seen[p]) : Apply(p, by)
    BY <2>3
  <2>5. obs \in SUBSET Obs /\ tomb \in SUBSET Obs /\ by \in Winners(obs)
    BY <2>4 DEF IInv, LocalTypeOK
  <2>6. table' = RebuiltFromRaw(table, obs, tomb, by)
    BY <2>4 DEF Apply
  <2>7. /\ \A o \in obs \ tomb : (o \in Present(table) => ~table[o].deleted) => o \in Live(table')
        /\ Live(table') \subseteq obs \ tomb
    BY <2>5, <2>6, RawRebuild DEF IInv
  <2>8. \A o \in (obs \ tomb) \ erased : o \in Present(table) => ~table[o].deleted
    BY DEF IInv, DeletedInRaw
  <2>9. Live(table') \ erased = (obs \ tomb) \ erased
    BY <2>7, <2>8
  <2>10. Live(table') \subseteq text'
    <3>1. FtsCovers'
      BY FtsStep DEF IInv
    <3>2. Live(table) \subseteq text
      BY DEF IInv, FtsCovers
    <3>3. Sound(table, text)
      BY <3>2 DEF IInv, Sound, LocalTypeOK
    <3>4. Live(table') \subseteq Live(Rebuilt(table, obs, tomb, by))
      BY <2>5, <2>6, RawRebuild DEF IInv
    <3>5. text' = RebuiltFts(table, text, obs, tomb)
      BY <2>4 DEF Apply
    <3> QED BY <2>5, <3>3, <3>4, <3>5, RebuiltSound DEF Sound
  <2> QED BY <2>9, <2>10
<1> QED BY <1>1, LocalInvariant, PTL DEF LocalSpec, OpenAligns

\* The index of the local backend keeps the lifecycle of the mesh-backed one: in
\* particular no copy or rebuild shows a deleted memory again.
THEOREM LocalIndexImplementsLifecycle ==
  LocalSpec => LocalFollowsLifecycle
<1>1. IInv /\ [LocalNext]_localVars => [LocalLifecycle!Next]_LocalState
  <2> SUFFICES ASSUME IInv, [LocalNext]_localVars PROVE LocalLifecycle!Next
    OBVIOUS
  <2>1. LocalState' \in [Obs -> LocalLifecycle!States]
    BY DEF LocalState, StateOf, LocalLifecycle!States
  <2>2. ASSUME NEW o \in Obs
        PROVE  LocalState'[o] = LocalState[o] \/ <<LocalState[o], LocalState'[o]>> \in LocalLifecycle!Moves
    <3>1. Grows(table[o], table'[o]) \/ table'[o] = None
      BY RowStep DEF IInv, RowMoves, GrowsOrGoes
    <3>2. LocalState[o] = StateOf(table[o]) /\ LocalState'[o] = StateOf(table'[o])
      BY DEF LocalState
    <3> QED BY <3>1, <3>2 DEF Grows, StateOf, LocalLifecycle!Moves
  <2> QED BY <2>1, <2>2 DEF LocalLifecycle!Next
<1> QED BY <1>1, LocalInvariant, PTL DEF LocalSpec, LocalFollowsLifecycle
=============================================================================
