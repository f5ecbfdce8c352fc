--------------------------- MODULE Commands_proofs ---------------------------
(***************************************************************************)
(* Proofs about what the operator's commands leave behind: scope-purge     *)
(* finishes its plan, backfill-metadata copies an observation once, the    *)
(* clean-up takes only what it showed and hides nothing else, a bulk       *)
(* delete leaves nothing out and a search fills its answer, for any        *)
(* memories, scopes, lapses, failures and interruptions.                   *)
(***************************************************************************)
EXTENDS ScopePurge, Backfill, Curation, IndexTable_proofs, SequenceTheorems

-----------------------------------------------------------------------------
(***************************************************************************)
(* scope-purge.                                                            *)
(*                                                                         *)
(* From the plan on, and as long as nothing is reconfigured, every row of  *)
(* an undeclared scope is in the plan still, has arrived since or is known *)
(* to be stuck, if the plan could read the rows, and every unused          *)
(* directory is in the plan, if it could tell which are in use.            *)
(***************************************************************************)
Purging == outcome = "running" /\ purging \in {"asked", "open", "rows", "dirs"}

Unused == Scope \ (declared \cup served)

RowsCovered ==
  read /\ (Purging \/ outcome = "complete") => Undeclared \subseteq rows \cup arrived \cup stuck

DirsCovered ==
  /\ Purging /\ known => \A s \in Unused : DirOf(s) \in dirs => DirOf(s) \in targets
  /\ outcome = "complete" /\ known => \A s \in Unused : DirOf(s) \notin dirs

PurgeInv ==
  /\ ScopePurgeTypeOK
  /\ \A d \in targets : d.stamps <= Room
  /\ purging \in {"asked", "open"} => stuck = {}
  /\ purging = "dirs" => rows = {}
  /\ outcome = "complete" => purging = "idle" /\ rows = {}
  /\ RowsCovered
  /\ DirsCovered

\* A rebuild leaves a table.
LEMMA RebuiltTable ==
  ASSUME NEW t \in Rows, NEW S \in SUBSET Obs, NEW T \in SUBSET Obs, NEW by \in Winners(S)
  PROVE  Rebuilt(t, S, T, by) \in Rows
BY RebuiltRows

\* What the steps do to the rows with a payload.
LEMMA KnownRows ==
  ASSUME NEW t \in Rows, NEW o \in Obs
  PROVE  /\ Known(Upserted(t, o)) \subseteq Known(t) \cup {o}
         /\ Known(Removed(t, o)) \subseteq Known(t) \ {o}
         /\ Known(Marked(t, {o})) \subseteq Known(t)
<1>1. Known(Upserted(t, o)) \subseteq Known(t) \cup {o}
  BY UpsertedRows DEF Known, Present
<1>2. Known(Removed(t, o)) \subseteq Known(t) \ {o}
  BY RemovedRows DEF Known, Present
<1>3. {o} \in SUBSET Obs
  OBVIOUS
<1>4. Known(Marked(t, {o})) \subseteq Known(t)
  BY <1>3, MarkedRows DEF Known, Present
<1> QED
  BY <1>1, <1>2, <1>4

\* Before the first plan nothing is claimed.
LEMMA PurgeInitInv == ScopePurgeInit => PurgeInv
<1> SUFFICES ASSUME ScopePurgeInit PROVE PurgeInv
  OBVIOUS
<1>1. scopeRow \in Rows
  <2> DEFINE saved == [known |-> TRUE, deleted |-> FALSE, shadowed |-> FALSE, by |-> None]
  <2>1. saved \in Row
    BY DEF Row
  <2>2. scopeRow \in [Obs -> {None, saved}]
    BY DEF ScopePurgeInit
  <2> HIDE DEF saved
  <2> QED
    BY <2>1, <2>2 DEF Rows
<1>2. dirs \subseteq Name
  BY ScopePurgeAssumption DEF ScopePurgeInit, Name, DirOf
<1>3. /\ purging = "idle" /\ outcome = "none" /\ rows = {} /\ targets = {} /\ dead = {}
      /\ read = FALSE /\ known = FALSE /\ arrived = {} /\ stuck = {} /\ purgeFaults = 0 /\ purgeChanges = 0
      /\ declared \subseteq Scope /\ served \subseteq Scope
  BY DEF ScopePurgeInit
<1>4. purgeFaults \in 0..MaxPurgeFaults /\ purgeChanges \in 0..MaxPurgeChanges
  BY <1>3, ScopePurgeAssumption
<1>5. ScopePurgeTypeOK
  BY <1>1, <1>2, <1>3, <1>4 DEF ScopePurgeTypeOK
<1> QED
  BY <1>3, <1>5 DEF PurgeInv, Purging, RowsCovered, DirsCovered

\* Every step of a purge and of the hosts keeps what the plan covers.
LEMMA PurgeStepInv == PurgeInv /\ [ScopePurgeNext]_purgeVars => PurgeInv'
<1> SUFFICES ASSUME PurgeInv, [ScopePurgeNext]_purgeVars PROVE PurgeInv'
  OBVIOUS
<1> USE ScopePurgeAssumption
<1>1. ASSUME NEW reads \in BOOLEAN, NEW answers \in BOOLEAN, NEW told \in SUBSET served,
             Plan(reads, answers, told)
      PROVE  PurgeInv'
  <2>1. /\ rows' \subseteq Undeclared /\ (reads => rows' = Undeclared)
        /\ Undeclared \subseteq Obs /\ Undeclared' = Undeclared
    BY <1>1 DEF Plan, hostVars, UndeclaredRows, Undeclared, Known, Present
  <2>2. targets' \subseteq Removable(told) /\ (answers => targets' = Removable(told))
    BY <1>1 DEF Plan
  <2>3. Removable(told) \subseteq Name /\ \A d \in Removable(told) : d.stamps <= Room
    BY DEF Removable, NamesUndeclared, PurgeInv, ScopePurgeTypeOK
  <2>4. ASSUME NEW s \in Unused, DirOf(s) \in dirs PROVE DirOf(s) \in Removable(told)
    BY <1>1, <2>4 DEF Unused, DirOf, Removable, NamesUndeclared
  <2>5. Unused' = Unused /\ dirs' = dirs /\ read' = reads /\ known' = answers
    BY <1>1 DEF Plan, hostVars, Unused
  <2>6. \/ purging' = "asked" /\ outcome' = "running"
        \/ purging' = "idle" /\ outcome' = "complete" /\ rows' = {} /\ targets' = {}
    BY <1>1 DEF Plan
  <2>7. DirsCovered'
    BY <2>2, <2>4, <2>5, <2>6 DEF DirsCovered, Purging
  <2>8. RowsCovered'
    BY <2>1, <2>5 DEF RowsCovered
  <2>9. ScopePurgeTypeOK'
    BY <1>1, <2>1, <2>2, <2>3 DEF Plan, PurgeFault, hostVars, PurgeInv, ScopePurgeTypeOK
  <2> QED
    BY <1>1, <2>1, <2>2, <2>3, <2>6, <2>7, <2>8, <2>9 DEF Plan, PurgeInv
<1>2. CASE Decline
  BY <1>2 DEF Decline, hostVars, PurgeInv, ScopePurgeTypeOK, Purging, RowsCovered, DirsCovered, Undeclared, Known, Unused
<1>3. CASE Confirm
  BY <1>3 DEF Confirm, hostVars, PurgeInv, ScopePurgeTypeOK, Purging, RowsCovered, DirsCovered, Undeclared, Known, Unused
<1>4. ASSUME NEW S \in SUBSET Readable, OpenRebuilt(S) PROVE PurgeInv'
  <2>1. PICK by \in Winners(S) : scopeRow' = Rebuilt(scopeRow, S, dead, by)
    BY <1>4 DEF OpenRebuilt
  <2>2. S \in SUBSET Obs /\ dead \in SUBSET Obs /\ scopeRow \in Rows
    BY <1>4 DEF Readable, PurgeInv, ScopePurgeTypeOK
  <2>3. scopeRow' \in Rows
    BY <2>1, <2>2, RebuiltTable
  <2>4. Undeclared' \subseteq Undeclared \cup arrived'
    BY <1>4 DEF OpenRebuilt, Undeclared, hostVars
  <2>5. Known(scopeRow') \subseteq Obs
    BY DEF Known, Present
  <2> QED
    BY <1>4, <2>3, <2>4, <2>5 DEF OpenRebuilt, PurgeFault, hostVars, PurgeInv, ScopePurgeTypeOK, Purging,
      RowsCovered, DirsCovered, Unused
<1>5. CASE OpenAsIs
  BY <1>5 DEF OpenAsIs, hostVars, PurgeInv, ScopePurgeTypeOK, Purging, RowsCovered, DirsCovered, Undeclared, Known, Unused
<1>6. CASE OpenFails
  BY <1>6 DEF OpenFails, PurgeFault, hostVars, PurgeInv, ScopePurgeTypeOK, Purging, RowsCovered, DirsCovered, Undeclared, Known, Unused
<1>7. ASSUME NEW o \in rows, NEW ok \in BOOLEAN, DeleteRow(o, ok) PROVE PurgeInv'
  <2>1. o \in Obs /\ scopeRow \in Rows
    BY DEF PurgeInv, ScopePurgeTypeOK
  <2>2. /\ scopeRow' \in Rows
        /\ IF ok THEN Known(scopeRow') \subseteq Known(scopeRow) \ {o} ELSE scopeRow' = scopeRow
    <3>1. CASE ok
      <4>1. scopeRow' = Removed(scopeRow, o)
        BY <1>7, <3>1 DEF DeleteRow
      <4>2. Removed(scopeRow, o) \in Rows /\ Known(Removed(scopeRow, o)) \subseteq Known(scopeRow) \ {o}
        BY <2>1, RemovedRows, KnownRows, Zenon
      <4> QED
        BY <3>1, <4>1, <4>2, Zenon
    <3>2. CASE ~ok
      BY <1>7, <2>1, <3>2 DEF DeleteRow
    <3> QED
      BY <3>1, <3>2
  <2>3. IF ok THEN Undeclared' \subseteq Undeclared \ {o} ELSE Undeclared' = Undeclared
    BY <1>7, <2>2 DEF DeleteRow, Undeclared, hostVars
  <2>4. RowsCovered'
    BY <1>7, <2>3 DEF DeleteRow, PurgeInv, RowsCovered, Purging
  <2> QED
    BY <1>7, <2>1, <2>2, <2>4 DEF DeleteRow, PurgeFault, hostVars, PurgeInv, ScopePurgeTypeOK, Purging,
      DirsCovered, Unused
<1>8. CASE RowsDone
  BY <1>8 DEF RowsDone, hostVars, PurgeInv, ScopePurgeTypeOK, Purging, RowsCovered, DirsCovered, Undeclared, Known, Unused
<1>9. CASE PurgeRaises
  BY <1>9 DEF PurgeRaises, PurgeFault, hostVars, PurgeInv, ScopePurgeTypeOK, Purging, RowsCovered, DirsCovered, Undeclared, Known, Unused
<1>10. CASE FinishPurge
  BY <1>10 DEF FinishPurge, hostVars, PurgeInv, ScopePurgeTypeOK, Purging, RowsCovered, DirsCovered, Undeclared, Known, Unused
<1>11. ASSUME NEW d \in targets, RenameDir(d) PROVE PurgeInv'
  <2>1. d \in Name /\ d.stamps <= Room
    BY DEF PurgeInv, ScopePurgeTypeOK
  <2>2. /\ Aside(d) \in Name
        /\ \A s \in Scope : DirOf(s) # Aside(d)
    BY <2>1 DEF Aside, Name, DirOf
  <2>3. dirs' \subseteq Name /\ targets' = targets \ {d} /\ dirs' = (dirs \ {d}) \cup {Aside(d)}
    BY <1>11, <2>2 DEF RenameDir, PurgeInv, ScopePurgeTypeOK
  <2>4. Unused' = Unused /\ Unused \subseteq Scope
    BY <1>11 DEF RenameDir, hostVars, Unused
  <2>5. DirsCovered'
    BY <1>11, <2>2, <2>3, <2>4 DEF RenameDir, PurgeInv, DirsCovered, Purging
  <2> QED
    BY <1>11, <2>3, <2>5 DEF RenameDir, hostVars, PurgeInv, ScopePurgeTypeOK, Purging, RowsCovered, Undeclared, Known
<1>12. ASSUME NEW S \in SUBSET Scope, Redeclare(S) PROVE PurgeInv'
  BY <1>12 DEF Redeclare, PurgeChange, PurgeInv, ScopePurgeTypeOK, Purging, RowsCovered, DirsCovered
<1>13. CASE RestartRouter
  <2>1. dirs' \subseteq Name
    BY <1>13 DEF RestartRouter, PurgeInv, ScopePurgeTypeOK, Name, DirOf
  <2> QED
    BY <1>13, <2>1 DEF RestartRouter, PurgeChange, PurgeInv, ScopePurgeTypeOK, Purging, RowsCovered, DirsCovered
<1>14. ASSUME NEW o \in Obs, Arrive(o) PROVE PurgeInv'
  <2>1. scopeRow' \in Rows /\ Known(scopeRow') \subseteq Known(scopeRow) \cup {o}
    BY <1>14, UpsertedRows, KnownRows DEF Arrive, PurgeInv, ScopePurgeTypeOK
  <2>2. Undeclared' \subseteq Undeclared \cup arrived'
    BY <1>14, <2>1 DEF Arrive, Undeclared, hostVars
  <2> QED
    BY <1>14, <2>1, <2>2 DEF Arrive, PurgeChange, hostVars, PurgeInv, ScopePurgeTypeOK, Purging,
      RowsCovered, DirsCovered, Unused
<1>15. ASSUME NEW o \in Obs, BuryScoped(o) PROVE PurgeInv'
  <2>1. scopeRow' \in Rows /\ Known(scopeRow') \subseteq Known(scopeRow)
    BY <1>15, MarkedRows, KnownRows DEF BuryScoped, PurgeInv, ScopePurgeTypeOK
  <2>2. Undeclared' \subseteq Undeclared
    BY <1>15, <2>1 DEF BuryScoped, Undeclared, hostVars
  <2> QED
    BY <1>15, <2>1, <2>2 DEF BuryScoped, PurgeChange, hostVars, PurgeInv, ScopePurgeTypeOK, Purging,
      RowsCovered, DirsCovered, Unused
<1>16. CASE UNCHANGED purgeVars
  BY <1>16 DEF purgeVars, PurgeInv, ScopePurgeTypeOK, Purging, RowsCovered, DirsCovered, Undeclared, Known, Unused
<1> QED
  BY <1>1, <1>2, <1>3, <1>4, <1>5, <1>6, <1>7, <1>8, <1>9, <1>10, <1>11, <1>12, <1>13, <1>14, <1>15, <1>16
  DEF ScopePurgeNext

\* What the plan covers, for any rows, directories, scopes and interruptions.
THEOREM PurgeInvariant == ScopePurgeSpec => []PurgeInv
BY PurgeInitInv, PurgeStepInv, PTL DEF ScopePurgeSpec

\* Every variable of scope-purge keeps its type.
THEOREM PurgeTypeCorrect == ScopePurgeSpec => []ScopePurgeTypeOK
BY PurgeInvariant, PTL DEF PurgeInv

\* A purge that ran to its end, or found nothing to purge, leaves no row of an undeclared
\* scope that its plan could read and no directory it could know to be unused, for any
\* scopes and whatever failed before it.
THEOREM PurgeLeavesNothing == ScopePurgeSpec => []PurgeSettles
<1>1. PurgeInv => PurgeSettles
  BY DEF PurgeInv, PurgeSettles, RowsCovered, DirsCovered, Unused
<1> QED
  BY <1>1, PurgeInvariant, PTL

-----------------------------------------------------------------------------
(***************************************************************************)
(* backfill-metadata.                                                      *)
(*                                                                         *)
(* A copy that counts is in the index or was missed, and nothing hides it: *)
(* so a run that could see it does not plan to repair its original.        *)
(***************************************************************************)
Counted(o) == (made \cap Copies(o)) \ (raised \cup missed \cup buriedBare \cup Replaced)

RowsInv ==
  /\ bareRow \in Rows
  /\ Born \subseteq Obs /\ repairs \subseteq Bare
  /\ Present(bareRow) \subseteq Born
  /\ \A o \in Present(bareRow) :
       /\ bareRow[o].deleted => o \in buriedBare
       /\ bareRow[o].shadowed /\ o \in made => o \in missed \cup buriedBare
       /\ bareRow[o].by # None => bareRow[o].by \in Born /\ o \in Supersedes[bareRow[o].by]

OnceInv ==
  /\ \A o \in repairs : Counted(o) = {}
  /\ \A o \in Bare : \A c, d \in Counted(o) : c = d

BackfillInv == RowsInv /\ OnceInv

-----------------------------------------------------------------------------

\* Before the first run nothing is copied.
LEMMA BackfillInitInv == BackfillInit => BackfillInv
<1> SUFFICES ASSUME BackfillInit PROVE BackfillInv
  OBVIOUS
<1>1. bareRow \in Rows /\ Present(bareRow) = {}
  BY DEF BackfillInit, Rows, Present
<1>2. made = {} /\ repairs = {} /\ Born \subseteq Obs
  BY BackfillAssumption DEF BackfillInit, Born
<1> QED
  BY <1>1, <1>2 DEF BackfillInv, RowsInv, OnceInv, Counted

\* Nothing the mesh, the queue or a run has known of an id is forgotten.
LEMMA BackfillGrows ==
  ASSUME BackfillInv, [BackfillNext]_backfillVars
  PROVE  /\ Born \subseteq Born' /\ Born' \subseteq Obs
         /\ made \subseteq made' /\ raised \subseteq raised' /\ missed \subseteq missed'
         /\ buriedBare \subseteq buriedBare'
<1> USE DEF BackfillInv, RowsInv, Born
<1>1. ASSUME NEW o \in repairs, NEW c \in Obs, NEW b \in BOOLEAN, Lands(o, c, b) \/ Raises(o, c, b)
      PROVE  /\ Born \subseteq Born' /\ Born' \subseteq Obs
             /\ made \subseteq made' /\ raised \subseteq raised' /\ missed \subseteq missed'
             /\ buriedBare \subseteq buriedBare'
  BY <1>1 DEF Lands, Raises, Repairs
<1>2. ASSUME NEW o \in Obs, Drain(o) \/ SaveElsewhere(o) \/ BuryBare(o)
      PROVE  /\ Born \subseteq Born' /\ Born' \subseteq Obs
             /\ made \subseteq made' /\ raised \subseteq raised' /\ missed \subseteq missed'
             /\ buriedBare \subseteq buriedBare'
  BY <1>2 DEF Drain, SaveElsewhere, BuryBare
<1>3. ASSUME NEW S \in SUBSET mesh, SearchRebuilt(S) \/ SearchScanned(S)
      PROVE  /\ Born \subseteq Born' /\ Born' \subseteq Obs
             /\ made \subseteq made' /\ raised \subseteq raised' /\ missed \subseteq missed'
             /\ buriedBare \subseteq buriedBare'
  BY <1>3 DEF SearchRebuilt, SearchScanned
<1> QED
  BY <1>1, <1>2, <1>3 DEF BackfillNext, backfillVars, SearchIndex, End, Apply, RepairCrash, Refused

\* The rows stay as the mesh and the runs explain them.
LEMMA RowsStep == BackfillInv /\ [BackfillNext]_backfillVars => RowsInv'
<1> SUFFICES ASSUME BackfillInv, [BackfillNext]_backfillVars PROVE RowsInv'
  OBVIOUS
<1> DEFINE grown == /\ Born \subseteq Born' /\ Born' \subseteq Obs
                    /\ missed \subseteq missed' /\ buriedBare \subseteq buriedBare'
<1>0. RowsInv /\ grown
  BY BackfillGrows DEF BackfillInv
<1>1. ASSUME bareRow' = bareRow, repairs' \subseteq Bare, made' \cap Present(bareRow) \subseteq made
      PROVE  RowsInv'
  BY <1>0, <1>1 DEF RowsInv, Present
<1>2. ASSUME NEW c \in Born', bareRow' = Upserted(bareRow, c), repairs' \subseteq Bare,
             made' \subseteq made \cup {c}
      PROVE  RowsInv'
  <2>1. c \in Obs /\ bareRow \in Rows
    BY <1>0, <1>2 DEF RowsInv
  <2>2. /\ bareRow' \in Rows
        /\ \A q \in Obs :
              /\ q # c /\ bareRow[q] = None => bareRow'[q] = None
              /\ q = c \/ bareRow[q] # None =>
                   /\ bareRow'[q] # None
                   /\ bareRow'[q].deleted = (bareRow[q] # None /\ bareRow[q].deleted)
                   /\ bareRow'[q].shadowed = (q # c /\ bareRow[q].shadowed)
                   /\ bareRow'[q].by = IF q \in Supersedes[c] THEN c
                                       ELSE IF bareRow[q] = None THEN None ELSE bareRow[q].by
    BY <1>2, <2>1, UpsertedRows
  <2> QED
    BY <1>0, <1>2, <2>1, <2>2 DEF RowsInv, Present
<1>3. CASE SearchIndex
  BY <1>0, <1>1, <1>3 DEF SearchIndex, PlannedRepairs, Repairable, RowsInv
<1>4. ASSUME NEW S \in SUBSET mesh, SearchRebuilt(S) PROVE RowsInv'
  <2>1. PICK by \in Winners(S) : bareRow' = Rebuilt(bareRow, S, buriedBare, by)
    BY <1>4 DEF SearchRebuilt
  <2>2. S \in SUBSET Obs /\ buriedBare \in SUBSET Obs /\ S \subseteq Born /\ buriedBare \subseteq Born
        /\ bareRow \in Rows
    BY <1>0, <1>4 DEF RowsInv, Born
  <2>3. \A w \in Winners(S) :
         /\ Rebuilt(bareRow, S, buriedBare, w) \in Rows
         /\ \A q \in Obs : LET z == Rebuilt(bareRow, S, buriedBare, w)[q] IN
              /\ z = None <=> bareRow[q] = None /\ q \notin S /\ q \notin buriedBare
              /\ z # None =>
                   /\ z.known = (q \in S \/ (bareRow[q] # None /\ bareRow[q].known))
                   /\ z.deleted = (q \in buriedBare \/ (bareRow[q] # None /\ bareRow[q].deleted))
                   /\ ~z.deleted => z.shadowed = (q \notin S)
                   /\ z.by = w[q]
    BY <2>2, RebuiltRows
  <2>4. \A o \in Obs : by[o] # None => by[o] \in S /\ o \in Supersedes[by[o]]
    BY <2>2, WinnersSupersede
  <2>5. bareRow' \in Rows
    BY <2>1, <2>3
  <2>6. \A q \in Obs : /\ bareRow'[q] # None => bareRow[q] # None \/ q \in S \/ q \in buriedBare
                       /\ bareRow'[q] # None =>
                            /\ bareRow'[q].deleted => q \in buriedBare \/ (bareRow[q] # None /\ bareRow[q].deleted)
                            /\ ~bareRow'[q].deleted => bareRow'[q].shadowed = (q \notin S)
                            /\ bareRow'[q].by = by[q]
    BY <2>1, <2>3
  <2>7. made' = made /\ missed' = missed \cup (made \ S) /\ buriedBare' = buriedBare /\ Born' = Born
        /\ repairs' \subseteq Bare
    BY <1>4 DEF SearchRebuilt, PlannedRepairs, Repairable, Born
  <2>8. Present(bareRow') \subseteq Born
    BY <1>0, <2>2, <2>6 DEF RowsInv, Present
  <2>9. \A o \in Present(bareRow') : bareRow'[o].deleted => o \in buriedBare
    BY <1>0, <2>6 DEF RowsInv, Present
  <2>10. \A o \in Present(bareRow') : bareRow'[o].shadowed /\ o \in made => o \in missed' \cup buriedBare
    BY <2>6, <2>7, <2>9 DEF Present
  <2>11. \A o \in Present(bareRow') : bareRow'[o].by # None =>
            bareRow'[o].by \in Born /\ o \in Supersedes[bareRow'[o].by]
    BY <2>2, <2>4, <2>6 DEF Present
  <2> QED
    BY <1>0, <2>5, <2>7, <2>8, <2>9, <2>10, <2>11 DEF RowsInv
<1>5. ASSUME NEW S \in SUBSET mesh, SearchScanned(S) PROVE RowsInv'
  BY <1>0, <1>1, <1>5 DEF SearchScanned, PlannedRepairs, Repairable, RowsInv
<1>6. CASE End \/ Apply \/ RepairCrash
  BY <1>0, <1>1, <1>6 DEF End, Apply, RepairCrash, RowsInv
<1>7. ASSUME NEW o \in repairs, NEW c \in Obs, NEW ok \in BOOLEAN, Lands(o, c, ok) PROVE RowsInv'
  <2>1. c \notin Born /\ c \in Born' /\ made' = made \cup {c} /\ repairs' \subseteq Bare
    BY <1>0, <1>7 DEF Lands, Repairs, RowsInv, Born
  <2>2. c \notin Present(bareRow)
    BY <1>0, <2>1 DEF RowsInv
  <2>3. bareRow' = bareRow \/ bareRow' = Upserted(bareRow, c)
    BY <1>7 DEF Lands, Indexed
  <2> QED
    BY <1>1, <1>2, <2>1, <2>2, <2>3
<1>8. ASSUME NEW o \in repairs, NEW c \in Obs, NEW taken \in BOOLEAN, Raises(o, c, taken) PROVE RowsInv'
  <2>1. c \notin Born /\ made' = made \cup {c} /\ repairs' \subseteq Bare /\ bareRow' = bareRow
    BY <1>0, <1>8 DEF Raises, Repairs, RowsInv
  <2>2. c \notin Present(bareRow)
    BY <1>0, <2>1 DEF RowsInv
  <2> QED
    BY <1>1, <2>1, <2>2
<1>9. ASSUME NEW o \in repairs, Refused(o) PROVE RowsInv'
  BY <1>0, <1>1, <1>9 DEF Refused, RowsInv
<1>10. ASSUME NEW c \in Obs, Drain(c) PROVE RowsInv'
  <2>1. c \in Born' /\ bareRow' = Upserted(bareRow, c) /\ made' = made /\ repairs' \subseteq Bare
    BY <1>0, <1>10 DEF Drain, RowsInv, Born
  <2> QED
    BY <1>2, <2>1
<1>11. ASSUME NEW o \in Obs, SaveElsewhere(o) PROVE RowsInv'
  <2>1. o \in Born' /\ bareRow' = Upserted(bareRow, o) /\ made' = made /\ repairs' \subseteq Bare
    BY <1>0, <1>11 DEF SaveElsewhere, RowsInv, Born
  <2> QED
    BY <1>2, <2>1
<1>12. ASSUME NEW o \in Obs, BuryBare(o) PROVE RowsInv'
  <2>1. {o} \in SUBSET Obs /\ bareRow \in Rows /\ bareRow' = Marked(bareRow, {o})
    BY <1>0, <1>12 DEF BuryBare, RowsInv
  <2>2. /\ bareRow' \in Rows
        /\ \A q \in Obs :
              /\ bareRow[q] = None => bareRow'[q] = None
              /\ bareRow[q] # None =>
                   /\ bareRow'[q] # None
                   /\ bareRow'[q].by = bareRow[q].by
                   /\ bareRow'[q].deleted = (q = o \/ bareRow[q].deleted)
                   /\ bareRow'[q].shadowed = (q # o /\ bareRow[q].shadowed)
    BY <2>1, MarkedRows
  <2>3. buriedBare' = buriedBare \cup {o} /\ made' = made /\ repairs' = repairs
    BY <1>12 DEF BuryBare
  <2> QED
    BY <1>0, <2>2, <2>3 DEF RowsInv, Present
<1>13. CASE UNCHANGED backfillVars
  BY <1>0, <1>1, <1>13 DEF backfillVars, RowsInv
<1> QED
  BY <1>3, <1>4, <1>5, <1>6, <1>7, <1>8, <1>9, <1>10, <1>11, <1>12, <1>13 DEF BackfillNext

-----------------------------------------------------------------------------

\* A copy of one memory is no copy of another: each would replace the other.
LEMMA CopiesDiffer ==
  ASSUME NEW o \in Bare, NEW q \in Bare, o # q
  PROVE  Copies(o) \cap Copies(q) = {}
<1> SUFFICES ASSUME NEW c \in Obs, Supersedes[c] = Supersedes[o] \cup {o},
                    Supersedes[c] = Supersedes[q] \cup {q}
             PROVE  FALSE
  BY DEF Copies
<1>1. o \in Supersedes[q] /\ q \in Supersedes[o]
  OBVIOUS
<1>2. {o, q} \in SUBSET Obs /\ {o, q} # {}
  BY BackfillAssumption
<1>3. PICK r \in {o, q} : \A s \in {o, q} : r \notin Supersedes[s]
  BY <1>2, NoCycle
<1> QED
  BY <1>1, <1>3

\* A live row that nothing has replaced is found.
LEMMA LiveShown ==
  ASSUME NEW t, NEW c \in Present(t), ~t[c].deleted, ~t[c].shadowed, t[c].by = None
  PROVE  c \in Shown(t)
BY IndexTableAssumption DEF Shown, Live, Present

\* A run plans no memory of which it can see a copy that counts.
LEMMA OnceStep == BackfillInv /\ [BackfillNext]_backfillVars => OnceInv'
<1> SUFFICES ASSUME BackfillInv, [BackfillNext]_backfillVars PROVE OnceInv'
  OBVIOUS
<1>1. /\ RowsInv /\ OnceInv /\ RowsInv'
      /\ Born \subseteq Born' /\ raised \subseteq raised' /\ missed \subseteq missed'
      /\ buriedBare \subseteq buriedBare'
  BY BackfillGrows, RowsStep DEF BackfillInv
<1>2. \A c \in Obs : c \in Replaced => c \in Replaced'
  BY <1>1 DEF Replaced
<1>3. ASSUME NEW o PROVE Counted(o)' \subseteq Counted(o) \cup (made' \ made)
  BY <1>1, <1>2 DEF Counted, Copies
<1>4. ASSUME repairs' \subseteq repairs, made' = made PROVE OnceInv'
  BY <1>1, <1>3, <1>4 DEF OnceInv
<1>5. ASSUME NEW seen, repairs' \in PlannedRepairs(seen), made' = made, Born' = Born,
             \A c \in made \ (missed' \cup buriedBare \cup Replaced) : c \in seen
      PROVE  OnceInv'
  <2>1. ASSUME NEW o \in repairs', NEW c \in Counted(o)' PROVE FALSE
    <3>1. c \in made /\ c \notin missed' \cup buriedBare' \cup Replaced' /\ o \in Supersedes[c] /\ c \in Obs
      BY <1>5, <2>1 DEF Counted, Copies
    <3>2. c \in seen
      BY <1>1, <1>2, <1>5, <3>1
    <3>3. o \notin Supersedes[c]
      BY <1>5, <3>2 DEF PlannedRepairs, Repairable
    <3> QED
      BY <3>1, <3>3
  <2> QED
    BY <1>1, <1>3, <1>5, <2>1 DEF OnceInv
<1>6. ASSUME NEW o \in repairs, NEW c \in Obs, Repairs(o, c) PROVE OnceInv'
  <2>1. repairs' = repairs \ {o} /\ made' = made \cup {c} /\ c \in Copies(o) /\ o \in Bare /\ repairs \subseteq Bare
    BY <1>1, <1>6 DEF Repairs, RowsInv
  <2>2. \A q \in Bare : Counted(q)' \subseteq Counted(q) \cup {c}
    BY <1>3, <2>1
  <2>3. \A q \in Bare : q # o => Counted(q)' \subseteq Counted(q)
    <3> SUFFICES ASSUME NEW q \in Bare, q # o PROVE c \notin Counted(q)'
      BY <2>2
    <3>1. c \notin Copies(q)
      BY <2>1, CopiesDiffer
    <3> QED
      BY <3>1 DEF Counted, Copies
  <2>4. Counted(o) = {}
    BY <1>1, <1>6 DEF OnceInv
  <2> QED
    BY <1>1, <2>1, <2>2, <2>3, <2>4 DEF OnceInv
<1>7. CASE SearchIndex
  <2>1. ASSUME NEW c \in made \ (missed' \cup buriedBare \cup Replaced) PROVE c \in Shown(bareRow)
    <3>1. c \in Present(bareRow)
      BY <1>7, <2>1 DEF SearchIndex
    <3>2. ~bareRow[c].deleted /\ ~bareRow[c].shadowed /\ bareRow[c].by = None
      BY <1>1, <2>1, <3>1 DEF RowsInv, Replaced
    <3> QED
      BY <3>1, <3>2, LiveShown
  <2> QED
    BY <1>5, <1>7, <2>1 DEF SearchIndex, Born
<1>8. ASSUME NEW S \in SUBSET mesh, SearchRebuilt(S) PROVE OnceInv'
  <2>1. made' = made /\ Born' = Born /\ buriedBare' = buriedBare /\ repairs' \in PlannedRepairs(Shown(bareRow'))
    BY <1>8 DEF SearchRebuilt, Born
  <2>2. ASSUME NEW c \in made \ (missed' \cup buriedBare \cup Replaced) PROVE c \in Shown(bareRow')
    <3>1. c \in S /\ c \in Obs
      BY <1>1, <1>8, <2>2 DEF SearchRebuilt, RowsInv, Born
    <3>2. PICK by \in Winners(S) : bareRow' = Rebuilt(bareRow, S, buriedBare, by)
      BY <1>8 DEF SearchRebuilt
    <3>3. S \in SUBSET Obs /\ buriedBare \in SUBSET Obs /\ bareRow \in Rows
      BY <1>1, <1>8 DEF RowsInv, Born
    <3>4. \A w \in Winners(S) : \A q \in Obs :
            Rebuilt(bareRow, S, buriedBare, w)[q] = None
              <=> bareRow[q] = None /\ q \notin S /\ q \notin buriedBare
      BY <3>3, RebuiltRows
    <3>5. c \in Present(bareRow')
      BY <3>1, <3>2, <3>4 DEF Present
    <3>6. c \in made' /\ c \notin missed' \cup buriedBare' /\ c \notin Replaced'
      BY <2>1, <2>2 DEF Replaced
    <3>7. ~bareRow'[c].deleted /\ ~bareRow'[c].shadowed /\ bareRow'[c].by = None
      BY <1>1, <3>5, <3>6 DEF RowsInv, Replaced
    <3> QED
      BY <3>5, <3>7, LiveShown
  <2> QED
    BY <1>5, <2>1, <2>2
<1>9. ASSUME NEW S \in SUBSET mesh, SearchScanned(S) PROVE OnceInv'
  <2>1. /\ repairs' \in PlannedRepairs(S \ buriedBare)
        /\ made' = made /\ missed' = missed \cup (made \ S) /\ Born' = Born
    BY <1>9 DEF SearchScanned, Born
  <2> QED
    BY <1>5, <2>1
<1>10. CASE End \/ Apply \/ RepairCrash
  BY <1>4, <1>10 DEF End, Apply, RepairCrash
<1>11. ASSUME NEW o \in repairs, NEW c \in Obs, NEW b \in BOOLEAN, Lands(o, c, b) \/ Raises(o, c, b)
       PROVE  OnceInv'
  BY <1>6, <1>11 DEF Lands, Raises
<1>12. ASSUME NEW o \in repairs, Refused(o) PROVE OnceInv'
  BY <1>4, <1>12 DEF Refused
<1>13. ASSUME NEW o \in Obs, Drain(o) \/ SaveElsewhere(o) \/ BuryBare(o) PROVE OnceInv'
  BY <1>4, <1>13 DEF Drain, SaveElsewhere, BuryBare
<1>14. CASE UNCHANGED backfillVars
  BY <1>4, <1>14 DEF backfillVars
<1> QED
  BY <1>7, <1>8, <1>9, <1>10, <1>11, <1>12, <1>13, <1>14 DEF BackfillNext

\* What the runs plan from, through faults and whatever others save and delete.
THEOREM BackfillInvariant == BackfillSpec => []BackfillInv
<1>1. BackfillInv /\ [BackfillNext]_backfillVars => BackfillInv'
  BY RowsStep, OnceStep DEF BackfillInv
<1> QED
  BY <1>1, BackfillInitInv, PTL DEF BackfillSpec

\* Every variable of backfill-metadata keeps its type.
THEOREM BackfillTypeCorrect == BackfillSpec => []BackfillTypeOK
<1>1. ASSUME BackfillInit PROVE BackfillTypeOK
  <2>1. bareRow \in Rows
    BY <1>1 DEF BackfillInit, Rows
  <2>2. mesh \cup buriedBare \cup queue \cup repairs \cup missed \cup made \cup raised \subseteq Obs
    BY <1>1, BackfillAssumption DEF BackfillInit
  <2>3. repairing = "idle" /\ blind \in BOOLEAN
    BY <1>1 DEF BackfillInit
  <2>4. repairFaults \in 0..MaxRepairFaults /\ repairChanges \in 0..MaxRepairChanges
    BY <1>1, BackfillAssumption DEF BackfillInit
  <2> QED
    BY <2>1, <2>2, <2>3, <2>4 DEF BackfillTypeOK
<1>2. ASSUME BackfillInv, BackfillInv', BackfillTypeOK, [BackfillNext]_backfillVars PROVE BackfillTypeOK'
  <2> DEFINE kept ==
           /\ missed' \subseteq missed \cup made
           /\ raised' \subseteq raised \cup Obs
           /\ repairing' \in {"idle", "listed", "apply"} /\ blind' \in BOOLEAN
           /\ repairFaults' \in {repairFaults, repairFaults + 1} /\ repairFaults' <= MaxRepairFaults
           /\ repairChanges' \in {repairChanges, repairChanges + 1} /\ repairChanges' <= MaxRepairChanges
  <2>1. /\ bareRow' \in Rows /\ Born' \subseteq Obs /\ made \subseteq Obs
        /\ mesh' \cup buriedBare' \cup queue' \cup repairs' \cup made' \subseteq Obs
    BY <1>2, BackfillAssumption DEF BackfillInv, RowsInv, Born, BackfillTypeOK
  <2>2. kept
    <3>0. /\ repairing \in {"idle", "listed", "apply"} /\ blind \in BOOLEAN
          /\ repairFaults \in Nat /\ repairFaults <= MaxRepairFaults
          /\ repairChanges \in Nat /\ repairChanges <= MaxRepairChanges
          /\ MaxRepairFaults \in Nat /\ MaxRepairChanges \in Nat
      BY <1>2, BackfillAssumption DEF BackfillTypeOK
    <3> USE <3>0 DEF RepairFault, RepairChange
    <3>1. CASE SearchIndex
      BY <3>1 DEF SearchIndex
    <3>2. ASSUME NEW S \in SUBSET mesh, SearchRebuilt(S) PROVE kept
      <4>1. IF S = mesh THEN UNCHANGED repairFaults ELSE RepairFault
        BY <3>2 DEF SearchRebuilt
      <4>2. /\ missed' = missed \cup (made \ S) /\ repairing' = "listed" /\ blind' = FALSE
            /\ UNCHANGED <<raised, repairChanges>>
        BY <3>2 DEF SearchRebuilt
      <4>3. repairFaults' \in {repairFaults, repairFaults + 1} /\ repairFaults' <= MaxRepairFaults
        BY <4>1
      <4>4. missed' \subseteq missed \cup made /\ raised' \subseteq raised \cup Obs
        BY <4>2
      <4> QED
        BY <4>2, <4>3, <4>4
    <3>6. ASSUME NEW S \in SUBSET mesh, SearchScanned(S) PROVE kept
      <4>1. IF S = mesh THEN UNCHANGED repairFaults ELSE RepairFault
        BY <3>6 DEF SearchScanned
      <4>2. /\ missed' = missed \cup (made \ S) /\ repairing' = "listed" /\ blind' = TRUE
            /\ UNCHANGED <<raised, repairChanges>>
        BY <3>6 DEF SearchScanned
      <4>3. repairFaults' \in {repairFaults, repairFaults + 1} /\ repairFaults' <= MaxRepairFaults
        BY <4>1
      <4>4. missed' \subseteq missed \cup made /\ raised' \subseteq raised \cup Obs
        BY <4>2
      <4> QED
        BY <4>2, <4>3, <4>4
    <3>7. CASE End \/ Apply
      BY <3>7 DEF End, Apply
    <3>8. CASE RepairCrash
      BY <3>8 DEF RepairCrash
    <3>9. CASE UNCHANGED backfillVars
      BY <3>9 DEF backfillVars
    <3>3. ASSUME NEW o \in repairs, NEW c \in Obs, NEW b \in BOOLEAN, Lands(o, c, b) \/ Raises(o, c, b) PROVE kept
      BY <3>3 DEF Lands, Raises
    <3>4. ASSUME NEW o \in repairs, Refused(o) PROVE kept
      BY <3>4 DEF Refused
    <3>5. ASSUME NEW o \in Obs, Drain(o) \/ SaveElsewhere(o) \/ BuryBare(o) PROVE kept
      BY <3>5 DEF Drain, SaveElsewhere, BuryBare
    <3> QED
      BY <1>2, <3>1, <3>2, <3>3, <3>4, <3>5, <3>6, <3>7, <3>8, <3>9 DEF BackfillNext
  <2> QED
    BY <1>2, <2>1, <2>2, BackfillAssumption DEF BackfillTypeOK
<1> QED
  BY <1>1, <1>2, BackfillInvariant, PTL DEF BackfillSpec

\* No memory has two copies that count, for any number of runs, memories and faults:
\* a run that plans to copy a memory sees, in the index or the scan it plans from,
\* every copy that was made of it before.
THEOREM CopiedOnce == BackfillSpec => []RepairedOnce
<1>1. BackfillInv => RepairedOnce
  <2> SUFFICES ASSUME BackfillInv, NEW o \in Bare PROVE Cardinality(Counted(o)) <= 1
    BY DEF RepairedOnce, Counted
  <2>1. \A c, d \in Counted(o) : c = d
    BY DEF BackfillInv, OnceInv
  <2>2. CASE Counted(o) = {}
    BY <2>2, FS_EmptySet
  <2>3. ASSUME NEW c \in Counted(o) PROVE Cardinality(Counted(o)) = 1
    <3>1. Counted(o) = {c}
      BY <2>1, <2>3
    <3> QED
      BY <3>1, FS_Singleton
  <2> QED
    BY <2>2, <2>3
<1> QED
  BY <1>1, BackfillInvariant, PTL

-----------------------------------------------------------------------------
(***************************************************************************)
(* The clean-up commands.                                                  *)
(*                                                                         *)
(* Whatever a walk buries, saves, deletions, hidings and revivals keep the *)
(* table explained, and what a sweep goes on to purge carries a tombstone  *)
(* nobody can take away before it.                                         *)
(***************************************************************************)
TableInv ==
  /\ row \in Rows /\ since \in [Obs -> Nat] /\ clock \in Nat
  /\ born \subseteq Obs /\ held \subseteq born /\ Present(row) \subseteq born
  /\ \A o \in Present(row) : row[o].by # None => o \in Supersedes[row[o].by]

SweepInv ==
  /\ ttl \subseteq Obs /\ \A o \in ttl : Lapsed(o, clock)
  /\ tombs \subseteq born
  /\ command # "reap" => \A o \in tombs \cap Present(row) : row[o].deleted
  /\ command = "bury" => residue \subseteq ttl
  /\ command = "purge" => \A o \in residue : o \in tombs /\ o \in buried /\ since[o] < clock - Retention
  /\ command = "reap" => found \subseteq born

CurationInv == TableInv /\ SweepInv

-----------------------------------------------------------------------------
(* The default search. *)

Alive(t, now) == {o \in Live(t) : ~Lapsed(o, now)}

\* A default search finds what is alive and not superseded by what is alive.
LEMMA DefaultRows ==
  ASSUME NEW t, NEW now
  PROVE  Default(t, now) = {o \in Alive(t, now) : t[o].by \notin Alive(t, now)}
BY DEF Default, Matching, Alive

\* A tombstone on a lapsed memory changes nothing a search finds.
LEMMA LapsedUnseen ==
  ASSUME NEW t \in Rows, NEW o \in Obs, NEW now, Lapsed(o, now)
  PROVE  Default(Marked(t, {o}), now) = Default(t, now)
<1>1. {o} \in SUBSET Obs
  OBVIOUS
<1>2. \A q \in Obs :
        /\ t[q] = None => Marked(t, {o})[q] = None
        /\ t[q] # None => /\ Marked(t, {o})[q] # None
                          /\ Marked(t, {o})[q].by = t[q].by
                          /\ Marked(t, {o})[q].deleted = (q = o \/ t[q].deleted)
                          /\ Marked(t, {o})[q].shadowed = (q # o /\ t[q].shadowed)
  BY <1>1, MarkedRows
<1>3. Alive(Marked(t, {o}), now) = Alive(t, now)
  BY <1>2 DEF Alive, Live, Present
<1>4. \A q \in Alive(t, now) : Marked(t, {o})[q].by = t[q].by
  BY <1>2 DEF Alive, Live, Present
<1> QED
  BY <1>3, <1>4, DefaultRows

\* Removing a row that is not live changes nothing a search finds.
LEMMA RemovedUnseen ==
  ASSUME NEW t \in Rows, NEW o \in Obs, NEW now, o \notin Live(t)
  PROVE  Default(Removed(t, o), now) = Default(t, now)
<1>1. /\ Removed(t, o)[o] = None
      /\ \A q \in Obs \ {o} :
           /\ t[q] = None => Removed(t, o)[q] = None
           /\ t[q] # None => /\ Removed(t, o)[q] # None
                             /\ Removed(t, o)[q].deleted = t[q].deleted
                             /\ Removed(t, o)[q].shadowed = t[q].shadowed
                             /\ Removed(t, o)[q].by = IF t[q].by = o THEN None ELSE t[q].by
  BY RemovedRows
<1>2. Alive(Removed(t, o), now) = Alive(t, now)
  BY <1>1 DEF Alive, Live, Present
<1>3. o \notin Alive(t, now) /\ None \notin Alive(t, now)
  BY IndexTableAssumption DEF Alive, Live, Present
<1>4. \A q \in Alive(t, now) : Removed(t, o)[q].by \in Alive(t, now) <=> t[q].by \in Alive(t, now)
  BY <1>1, <1>3 DEF Alive, Live, Present
<1> QED
  BY <1>2, <1>4, DefaultRows

-----------------------------------------------------------------------------

\* Memories saved in some order, before any command.
LEMMA CurationInitInv == CurationInit => CurationInv
<1> SUFFICES ASSUME CurationInit PROVE CurationInv
  OBVIOUS
<1>1. PICK S \in SUBSET Obs : held = S /\ born = S /\ \E by \in Winners(S) :
         row = [o \in Obs |-> IF o \in S THEN [known |-> TRUE, deleted |-> FALSE, shadowed |-> FALSE, by |-> by[o]]
                              ELSE None]
  BY DEF CurationInit
<1>2. PICK by \in Winners(S) :
         row = [o \in Obs |-> IF o \in S THEN [known |-> TRUE, deleted |-> FALSE, shadowed |-> FALSE, by |-> by[o]]
                              ELSE None]
  BY <1>1
<1>3. /\ by \in [Obs -> Obs \cup {None}]
      /\ \A o \in Obs : by[o] # None => o \in Supersedes[by[o]]
  BY WinnersSupersede
<1>4. \A o \in Obs : [known |-> TRUE, deleted |-> FALSE, shadowed |-> FALSE, by |-> by[o]] \in Row
  BY <1>3 DEF Row
<1>5. row \in Rows /\ Present(row) \subseteq S
  BY <1>2, <1>4 DEF Rows, Present
<1>6. \A o \in Present(row) : row[o].by # None => o \in Supersedes[row[o].by]
  BY <1>2, <1>3, <1>5 DEF Present
<1>7. clock = 0 /\ since \in [Obs -> Nat] /\ command = "idle" /\ ttl = {} /\ tombs = {}
  BY DEF CurationInit
<1> QED
  BY <1>1, <1>5, <1>6, <1>7 DEF CurationInv, TableInv, SweepInv

\* What each statement keeps of the table: its form, the rows there are, their deletions
\* and superseded_by.
LEMMA MarkedTable ==
  ASSUME TableInv, NEW o
  PROVE  /\ Marked(row, {o}) \in Rows /\ Present(Marked(row, {o})) = Present(row)
         /\ \A q \in Present(row) : /\ Marked(row, {o})[q].by = row[q].by
                                    /\ Marked(row, {o})[q].deleted = (q = o \/ row[q].deleted)
<1> DEFINE T == {o} \cap Obs
<1>1. row \in Rows /\ T \in SUBSET Obs /\ Marked(row, {o}) = Marked(row, T)
  BY DEF TableInv, Marked
<1>2. /\ Marked(row, T) \in Rows
      /\ \A q \in Obs :
            /\ row[q] = None => Marked(row, T)[q] = None
            /\ row[q] # None =>
                 /\ Marked(row, T)[q] # None
                 /\ Marked(row, T)[q].by = row[q].by
                 /\ Marked(row, T)[q].deleted = (q \in T \/ row[q].deleted)
  BY <1>1, MarkedRows
<1> QED
  BY <1>1, <1>2 DEF Present

\* A save: its row, and it claims what it supersedes.
LEMMA UpsertedTable ==
  ASSUME TableInv, NEW o \in Obs
  PROVE  /\ Upserted(row, o) \in Rows /\ Present(Upserted(row, o)) = Present(row) \cup {o}
         /\ \A q \in Present(row) : Upserted(row, o)[q].deleted = row[q].deleted
         /\ \A q \in Present(Upserted(row, o)) : Upserted(row, o)[q].by # None =>
               q \in Supersedes[Upserted(row, o)[q].by]
<1>1. row \in Rows /\ \A q \in Obs : row[q] # None => row[q].deleted \in BOOLEAN
  BY DEF TableInv, Rows, Row
<1>2. /\ Upserted(row, o) \in Rows
      /\ \A q \in Obs :
            /\ q # o /\ row[q] = None => Upserted(row, o)[q] = None
            /\ q = o \/ row[q] # None =>
                 /\ Upserted(row, o)[q] # None
                 /\ Upserted(row, o)[q].deleted = (row[q] # None /\ row[q].deleted)
                 /\ Upserted(row, o)[q].by = IF q \in Supersedes[o] THEN o
                                             ELSE IF row[q] = None THEN None ELSE row[q].by
  BY <1>1, UpsertedRows
<1> QED
  BY <1>1, <1>2 DEF Present, TableInv

\* A purge: the row goes, and no pointer to it stays.
LEMMA RemovedTable ==
  ASSUME TableInv, NEW o \in Obs
  PROVE  /\ Removed(row, o) \in Rows /\ Present(Removed(row, o)) = Present(row) \ {o}
         /\ \A q \in Present(row) \ {o} : /\ Removed(row, o)[q].deleted = row[q].deleted
                                          /\ Removed(row, o)[q].by \in {row[q].by, None}
BY RemovedRows DEF Present, TableInv

\* A hiding: nothing but the shadow mark.
LEMMA HiddenTable ==
  ASSUME TableInv, NEW o \in Obs
  PROVE  /\ Hidden(row, {o}) \in Rows /\ Present(Hidden(row, {o})) = Present(row)
         /\ \A q \in Present(row) : /\ Hidden(row, {o})[q].by = row[q].by
                                    /\ Hidden(row, {o})[q].deleted = row[q].deleted
<1>1. row \in Rows /\ {o} \in SUBSET Obs
  BY DEF TableInv
<1> QED
  BY <1>1, HiddenRows DEF Present

\* A step that leaves the sweep where it is, done with a residue, or given up.
NothingListed ==
  /\ clock' = clock /\ ttl' = ttl /\ tombs' = tombs /\ found' = found /\ residue' \subseteq residue
  /\ command' = command \/ (command # "reap" /\ command' \notin {"bury", "purge", "reap"})

\* A step that lists nothing and leaves the table alone keeps the invariant.
LEMMA UntouchedKeeps ==
  ASSUME CurationInv, UNCHANGED tableVars, NothingListed
  PROVE  CurationInv'
BY DEF NothingListed, tableVars, CurationInv, TableInv, SweepInv, Lapsed, Present

\* A tombstone keeps the invariant outside the sweep's own purge.
LEMMA BuryKeeps ==
  ASSUME CurationInv, NEW o, Bury(o), NothingListed, command # "purge" \/ o \notin buried
  PROVE  CurationInv'
<1> USE DEF NothingListed
<1>1. TableInv /\ row' = Marked(row, {o}) /\ UNCHANGED <<held, born>> /\ clock \in Nat
  BY DEF CurationInv, TableInv, Bury
<1>2. since' \in [Obs -> Nat] /\ \A q \in Obs : q # o => since'[q] = since[q]
  BY <1>1 DEF TableInv, Bury, At
<1>3. /\ Marked(row, {o}) \in Rows /\ Present(Marked(row, {o})) = Present(row)
      /\ \A q \in Present(row) : /\ Marked(row, {o})[q].by = row[q].by
                                 /\ Marked(row, {o})[q].deleted = (q = o \/ row[q].deleted)
  BY <1>1, MarkedTable
<1>4. TableInv'
  BY <1>1, <1>2, <1>3 DEF TableInv
<1>5. command' = "purge" => \A q \in residue' : q \in tombs' /\ q \in buried' /\ since'[q] < clock' - Retention
  <2> SUFFICES ASSUME command' = "purge", NEW q \in residue'
               PROVE  q \in tombs' /\ q \in buried' /\ since'[q] < clock' - Retention
    OBVIOUS
  <2>1. command = "purge" /\ q \in residue /\ o \notin buried
    OBVIOUS
  <2>2. q \in tombs /\ q \in buried /\ since[q] < clock - Retention /\ q \in Obs
    BY <1>1, <2>1 DEF CurationInv, TableInv, SweepInv
  <2> QED
    BY <1>2, <2>1, <2>2 DEF Bury
<1>6. SweepInv'
  BY <1>1, <1>3, <1>5 DEF CurationInv, SweepInv, Lapsed, Bury
<1> QED
  BY <1>4, <1>6 DEF CurationInv

\* Every step of the commands and of the other processes keeps the invariant.
LEMMA CurationStepInv == CurationInv /\ [CurationNext]_curationVars => CurationInv'
<1> SUFFICES ASSUME CurationInv, [CurationNext]_curationVars PROVE CurationInv'
  OBVIOUS
<1> USE DEF CurationInv
<1>1. CASE StartWalk \/ FetchPage \/ EndWalk
  <2>1. UNCHANGED tableVars /\ NothingListed
    BY <1>1 DEF StartWalk, FetchPage, EndWalk, sweepVars, walkVars, NothingListed
  <2> QED
    BY <2>1, UntouchedKeeps
<1>2. ASSUME NEW ok \in BOOLEAN, DeleteNext(ok) PROVE CurationInv'
  <2>1. NothingListed /\ command # "purge"
    BY <1>2 DEF DeleteNext, sweepVars, NothingListed
  <2>2. (\E o : Bury(o)) \/ UNCHANGED tableVars
    BY <1>2 DEF DeleteNext, Untouched
  <2> QED
    BY <2>1, <2>2, BuryKeeps, UntouchedKeeps
<1>3. CASE ListTtl
  BY <1>3 DEF ListTtl, tableVars, TableInv, SweepInv, Live, Present, Lapsed
<1>4. CASE ListTombs
  BY <1>4 DEF ListTombs, tableVars, TableInv, SweepInv, Lapsed, Present
<1>5. CASE ListShadows
  BY <1>5, UntouchedKeeps DEF ListShadows, NothingListed
<1>6. CASE DeclineSweep \/ EndSweep
  BY <1>6 DEF DeclineSweep, EndSweep, EndCommand, tableVars, TableInv, SweepInv, Present
<1>7. CASE ConfirmSweep
  BY <1>7 DEF ConfirmSweep, tableVars, TableInv, SweepInv, Lapsed, Present
<1>8. ASSUME NEW o \in Obs, NEW ok \in BOOLEAN, BuryLapsed(o, ok) PROVE CurationInv'
  <2>1. /\ clock' = clock /\ ttl' = ttl /\ tombs' = tombs /\ found' = found /\ residue' \subseteq residue
        /\ command' = command /\ command # "purge"
    BY <1>8 DEF BuryLapsed
  <2>2. Bury(o) \/ UNCHANGED tableVars
    BY <1>8 DEF BuryLapsed, Untouched
  <2>3. NothingListed
    BY <2>1 DEF NothingListed
  <2> QED
    BY <2>1, <2>2, <2>3, BuryKeeps, UntouchedKeeps
<1>9. CASE StartPurge
  BY <1>9 DEF StartPurge, tableVars, TableInv, SweepInv, Lapsed, Present
<1>10. ASSUME NEW ok \in BOOLEAN, StartReap(ok) PROVE CurationInv'
  BY <1>10 DEF StartReap, tableVars, TableInv, SweepInv, Lapsed, Present
<1>11. ASSUME NEW o \in Obs, Purge(o) PROVE CurationInv'
  <2>1. /\ Removed(row, o) \in Rows /\ Present(Removed(row, o)) = Present(row) \ {o}
        /\ \A q \in Present(row) \ {o} : /\ Removed(row, o)[q].deleted = row[q].deleted
                                         /\ Removed(row, o)[q].by \in {row[q].by, None}
    BY RemovedTable
  <2>2. /\ row' = Removed(row, o) /\ command = "purge" /\ command' = command
        /\ UNCHANGED <<clock, born, ttl, tombs>>
        /\ held' = held \ {o} /\ buried' = buried \ {o} /\ residue' = residue \ {o}
    BY <1>11 DEF Purge
  <2>3. since' \in [Obs -> Nat] /\ \A q \in Obs : q # o => since'[q] = since[q]
    BY <1>11 DEF Purge, Never, TableInv
  <2>4. TableInv'
    BY <2>1, <2>2, <2>3 DEF TableInv
  <2>5. SweepInv'
    <3>1. \A q \in residue' : q \in tombs' /\ q \in buried' /\ since'[q] < clock' - Retention
      BY <1>11, <2>2 DEF SweepInv, Purge, Never
    <3> QED
      BY <2>1, <2>2, <3>1 DEF SweepInv, Lapsed
  <2> QED
    BY <2>4, <2>5
<1>12. ASSUME NEW o \in Obs, Revive(o) PROVE CurationInv'
  <2>1. /\ Upserted(row, o) \in Rows /\ Present(Upserted(row, o)) = Present(row) \cup {o}
        /\ \A q \in Present(Upserted(row, o)) : Upserted(row, o)[q].by # None =>
              q \in Supersedes[Upserted(row, o)[q].by]
    BY UpsertedTable
  <2>2. /\ row' = Upserted(row, o) /\ command = "reap"
        /\ UNCHANGED <<clock, held, born, ttl, tombs, found, command>>
    BY <1>12 DEF Revive
  <2>3. since' \in [Obs -> Nat] /\ o \in born
    BY <1>12 DEF Revive, Never, TableInv, SweepInv
  <2> QED
    BY <2>1, <2>2, <2>3 DEF TableInv, SweepInv, Lapsed
<1>13. ASSUME NEW o \in Obs, Reap(o) PROVE CurationInv'
  <2>1. /\ Removed(row, o) \in Rows /\ Present(Removed(row, o)) = Present(row) \ {o}
        /\ \A q \in Present(row) \ {o} : Removed(row, o)[q].by \in {row[q].by, None}
    BY RemovedTable
  <2>2. /\ row' = Removed(row, o) /\ command = "reap"
        /\ UNCHANGED <<clock, held, born, ttl, tombs, found, command>>
    BY <1>13 DEF Reap
  <2>3. since' \in [Obs -> Nat]
    BY <1>13 DEF Reap, Never, TableInv
  <2> QED
    BY <2>1, <2>2, <2>3 DEF TableInv, SweepInv, Lapsed
<1>14. ASSUME NEW o \in Obs, Save(o) PROVE CurationInv'
  <2>1. /\ Upserted(row, o) \in Rows /\ Present(Upserted(row, o)) = Present(row) \cup {o}
        /\ \A q \in Present(row) : Upserted(row, o)[q].deleted = row[q].deleted
        /\ \A q \in Present(Upserted(row, o)) : Upserted(row, o)[q].by # None =>
              q \in Supersedes[Upserted(row, o)[q].by]
    BY UpsertedTable
  <2>2. /\ row' = Upserted(row, o) /\ o \notin born /\ born' = born \cup {o} /\ held' = held \cup {o}
        /\ UNCHANGED <<clock, since, buried, command, ttl, tombs, residue, found>>
    BY <1>14 DEF Save, ByAnother, sweepVars
  <2> QED
    BY <2>1, <2>2 DEF TableInv, SweepInv, Lapsed
<1>15. ASSUME NEW o \in Obs, DeletedElsewhere(o) PROVE CurationInv'
  <2>1. /\ clock' = clock /\ ttl' = ttl /\ tombs' = tombs /\ found' = found /\ residue' \subseteq residue
        /\ command' = command
    BY <1>15 DEF DeletedElsewhere, ByAnother, sweepVars
  <2>2. NothingListed
    BY <2>1 DEF NothingListed
  <2>3. Bury(o) /\ o \notin buried
    BY <1>15 DEF DeletedElsewhere
  <2> QED
    BY <2>2, <2>3, BuryKeeps
<1>16. ASSUME NEW o \in Obs, SeenAgain(o) PROVE CurationInv'
  <2>1. /\ Upserted(row, o) \in Rows /\ Present(Upserted(row, o)) = Present(row) \cup {o}
        /\ \A q \in Present(row) : Upserted(row, o)[q].deleted = row[q].deleted
        /\ \A q \in Present(Upserted(row, o)) : Upserted(row, o)[q].by # None =>
              q \in Supersedes[Upserted(row, o)[q].by]
    BY UpsertedTable
  <2>2. /\ row' = Upserted(row, o) /\ o \in Present(row)
        /\ UNCHANGED <<clock, held, born, buried, command, ttl, tombs, residue, found>>
    BY <1>16 DEF SeenAgain, ByAnother, sweepVars, Present
  <2>3. since' \in [Obs -> Nat] /\ \A q \in Obs : since'[q] <= since[q]
    BY <1>16 DEF SeenAgain, Never, TableInv
  <2>4. TableInv'
    BY <2>1, <2>2, <2>3 DEF TableInv
  <2>5. \A q \in tombs : q \in Obs /\ since[q] \in Nat /\ since'[q] \in Nat /\ clock - Retention \in Int
    BY <2>3, CurationAssumption DEF TableInv, SweepInv
  <2>6. SweepInv'
    BY <2>1, <2>2, <2>3, <2>5 DEF SweepInv, Lapsed
  <2> QED
    BY <2>4, <2>6
<1>17. ASSUME NEW o \in Obs, NEW lost \in BOOLEAN, Missed(o, lost) PROVE CurationInv'
  <2>1. /\ Hidden(row, {o}) \in Rows /\ Present(Hidden(row, {o})) = Present(row)
        /\ \A q \in Present(row) : /\ Hidden(row, {o})[q].by = row[q].by
                                   /\ Hidden(row, {o})[q].deleted = row[q].deleted
    BY HiddenTable
  <2>2. /\ row' = Hidden(row, {o}) /\ o \in Live(row) /\ held' \subseteq held
        /\ UNCHANGED <<clock, born, buried, command, ttl, tombs, residue, found>>
    BY <1>17 DEF Missed, ByAnother, sweepVars
  <2>3. since' \in [Obs -> Nat] /\ \A q \in Obs : q # o => since'[q] = since[q]
    BY <1>17 DEF Missed, At, TableInv
  <2>4. TableInv'
    BY <2>1, <2>2, <2>3 DEF TableInv
  <2>5. command = "purge" => \A q \in residue : q \in Obs /\ q # o
    BY <2>2 DEF SweepInv, TableInv, Live
  <2>6. SweepInv'
    BY <2>1, <2>2, <2>3, <2>5 DEF SweepInv, Lapsed
  <2> QED
    BY <2>4, <2>6
<1>18. CASE ClockTicks
  <2>1. /\ clock' = clock + 1 /\ clock \in Nat /\ clock' \in Nat
        /\ UNCHANGED <<row, since, held, buried, born, command, ttl, tombs, residue, found>>
    BY <1>18 DEF ClockTicks, tableVars, sweepVars, TableInv
  <2>2. \A o \in Obs : Lapsed(o, clock) => Lapsed(o, clock')
    BY <2>1, CurationAssumption DEF Lapsed
  <2>3. \A o \in Obs : since[o] < clock - Retention => since[o] < clock' - Retention
    BY <2>1, CurationAssumption DEF TableInv
  <2>4. ttl \subseteq Obs /\ tombs \subseteq Obs
    BY DEF SweepInv, TableInv
  <2> QED
    BY <2>1, <2>2, <2>3, <2>4 DEF TableInv, SweepInv, Present
<1>19. CASE UNCHANGED curationVars
  <2>1. /\ clock' = clock /\ ttl' = ttl /\ tombs' = tombs /\ found' = found /\ residue' \subseteq residue
        /\ command' = command /\ UNCHANGED tableVars
    BY <1>19 DEF curationVars, sweepVars
  <2>2. NothingListed
    BY <2>1 DEF NothingListed
  <2> QED
    BY <2>1, <2>2, UntouchedKeeps
<1> QED
  BY <1>1, <1>2, <1>3, <1>4, <1>5, <1>6, <1>7, <1>8, <1>9, <1>10, <1>11, <1>12, <1>13, <1>14, <1>15, <1>16,
     <1>17, <1>18, <1>19
  DEF CurationNext, WalkStep, SweepStep

-----------------------------------------------------------------------------

\* What the index and a sweep agree on, for any memories, lapses and interruptions.
THEOREM CurationInvariant == CurationSpec => []CurationInv
BY CurationInitInv, CurationStepInv, PTL DEF CurationSpec

\* Among alive memories linked by superseded_by one is found: the pointers follow
\* what the memories say they replace, and of those memories one is replaced by none.
THEOREM OneStaysFound == CurationSpec => []NothingVanishes
<1>1. CurationInv => NothingVanishes
  <2> SUFFICES ASSUME CurationInv, NEW S \in SUBSET Alive(row, clock), S # {},
                      \A o \in S : row[o].by \in Alive(row, clock) => row[o].by \in S
               PROVE  S \cap Default(row, clock) # {}
    BY DEF NothingVanishes, Alive
  <2>1. S \subseteq Present(row) /\ S \in SUBSET Obs
    BY DEF Alive, Live, Present
  <2>2. PICK o \in S : \A q \in S : o \notin Supersedes[q]
    BY <2>1, NoCycle
  <2>3. row[o].by \notin Alive(row, clock)
    <3> SUFFICES ASSUME row[o].by \in Alive(row, clock) PROVE FALSE
      OBVIOUS
    <3>1. row[o].by \in S /\ row[o].by # None
      BY <2>1, IndexTableAssumption
    <3>2. o \in Supersedes[row[o].by]
      BY <2>1, <3>1 DEF CurationInv, TableInv
    <3> QED
      BY <2>2, <3>1, <3>2
  <2> QED
    BY <2>2, <2>3, DefaultRows
<1> QED
  BY <1>1, CurationInvariant, PTL

\* What a sweep takes from the source carries a tombstone past its retention and was
\* shown: between the sweep's own listing and the deletion nobody can lift the
\* tombstone, or make it younger.
THEOREM OnlyShownIsGone == CurationSpec => GoneWasShown
<1>1. CurationInv /\ [CurationNext]_curationVars =>
        [SweepStep => \A o \in held \ held' : o \in tombs /\ o \in buried /\ since[o] < clock - Retention]_curationVars
  <2> SUFFICES ASSUME CurationInv, SweepStep, NEW o \in held \ held'
               PROVE  o \in tombs /\ o \in buried /\ since[o] < clock - Retention
    OBVIOUS
  <2>1. o \in residue /\ command = "purge"
    BY DEF SweepStep, BuryLapsed, Bury, Untouched, tableVars, StartPurge, EndSweep, EndCommand, StartReap, Purge,
           Revive, Reap
  <2> QED
    BY <2>1 DEF CurationInv, SweepInv
<1> QED
  BY <1>1, CurationInvariant, PTL DEF CurationSpec, GoneWasShown

\* A confirmed sweep changes nothing a default search finds, unless what it removes or
\* revives had come back: what it tombstones has lapsed, and what it purges carries a
\* tombstone.
THEOREM SweepIsInvisible == CurationSpec => SweepShowsSame
<1>1. CurationInv /\ [CurationNext]_curationVars =>
        [SweepStep =>
           \/ Default(row', clock) = Default(row, clock)
           \/ command = "reap" /\ \E o \in residue \ residue' : o \in found \/ o \in Live(row)]_curationVars
  <2> SUFFICES ASSUME CurationInv, SweepStep
               PROVE  \/ Default(row', clock) = Default(row, clock)
                      \/ command = "reap" /\ \E o \in residue \ residue' : o \in found \/ o \in Live(row)
    OBVIOUS
  <2>0. row \in Rows
    BY DEF CurationInv, TableInv
  <2>1. CASE row' = row
    BY <2>1
  <2>2. ASSUME NEW o \in Obs, NEW ok \in BOOLEAN, BuryLapsed(o, ok), row' # row
        PROVE  Default(row', clock) = Default(row, clock)
    <3>1. row' = Marked(row, {o}) /\ Lapsed(o, clock)
      BY <2>2 DEF BuryLapsed, Bury, Untouched, tableVars, CurationInv, SweepInv
    <3> QED
      BY <2>0, <3>1, LapsedUnseen
  <2>3. ASSUME NEW o \in Obs, Purge(o) PROVE Default(row', clock) = Default(row, clock)
    <3>1. row' = Removed(row, o) /\ o \notin Live(row)
      BY <2>3 DEF Purge, CurationInv, SweepInv, Live
    <3> QED
      BY <2>0, <3>1, RemovedUnseen
  <2>4. ASSUME NEW o \in Obs, Revive(o) PROVE command = "reap" /\ o \in residue \ residue' /\ o \in found
    BY <2>4 DEF Revive
  <2>5. ASSUME NEW o \in Obs, Reap(o), o \notin Live(row) PROVE Default(row', clock) = Default(row, clock)
    BY <2>0, <2>5, RemovedUnseen DEF Reap
  <2>6. ASSUME NEW o \in Obs, Reap(o) PROVE command = "reap" /\ o \in residue \ residue'
    BY <2>6 DEF Reap
  <2> QED
    BY <2>1, <2>2, <2>3, <2>4, <2>5, <2>6 DEF SweepStep, StartPurge, EndSweep, EndCommand, StartReap, tableVars
<1> QED
  BY <1>1, CurationInvariant, PTL DEF CurationSpec, SweepShowsSame

-----------------------------------------------------------------------------
(***************************************************************************)
(* The order of a search.                                                  *)
(***************************************************************************)

\* One pair of numbers before another.
LEMMA LexPair ==
  ASSUME NEW a \in Int, NEW b \in Int, NEW c \in Int, NEW d \in Int
  PROVE  LexLess(<<a, b>>, <<c, d>>) <=> a < c \/ (a = c /\ b < d)
<1> DEFINE s == <<a, b>>
           t == <<c, d>>
<1>1. DOMAIN s = 1..2 /\ s[1] = a /\ s[2] = b /\ t[1] = c /\ t[2] = d
  OBVIOUS
<1> HIDE DEF s, t
<1>2. LexLess(s, t) <=> \E i \in 1..2 : s[i] < t[i] /\ \A j \in 1..(i - 1) : s[j] = t[j]
  BY <1>1 DEF LexLess
<1>3. LexLess(s, t) <=> a < c \/ (a = c /\ b < d)
  BY <1>1, <1>2
<1> QED
  BY <1>3 DEF s, t

\* One key of five numbers before another.
LEMMA LexKey ==
  ASSUME NEW s \in [1..5 -> Int], NEW t \in [1..5 -> Int]
  PROVE  LexLess(s, t) <=> \/ s[1] < t[1]
                           \/ s[1] = t[1] /\ s[2] < t[2]
                           \/ s[1] = t[1] /\ s[2] = t[2] /\ s[3] < t[3]
                           \/ s[1] = t[1] /\ s[2] = t[2] /\ s[3] = t[3] /\ s[4] < t[4]
                           \/ s[1] = t[1] /\ s[2] = t[2] /\ s[3] = t[3] /\ s[4] = t[4] /\ s[5] < t[5]
<1>1. LexLess(s, t) <=> \E i \in 1..5 : s[i] < t[i] /\ \A j \in 1..(i - 1) : s[j] = t[j]
  BY DEF LexLess
<1> QED
  BY <1>1

\* The newer of two memories was created later, or then and has the greater id.
LEMMA NewerFacts ==
  ASSUME NEW o \in Obs, NEW q \in Obs
  PROVE  /\ Created[o] \in Nat /\ Created[q] \in Nat /\ o \in Nat /\ q \in Nat
         /\ Newer(o, q) <=> Created[o] > Created[q] \/ (Created[o] = Created[q] /\ o > q)
<1>1. Created[o] \in Nat /\ Created[q] \in Nat /\ o \in Nat /\ q \in Nat
  BY SearchAssumption
<1>2. LexLess(<<-Created[o], -o>>, <<-Created[q], -q>>)
        <=> -Created[o] < -Created[q] \/ (-Created[o] = -Created[q] /\ -o < -q)
  BY <1>1, LexPair
<1> QED
  BY <1>1, <1>2 DEF Newer

\* No two memories are equally new.
LEMMA NewestOrders ==
  ASSUME NEW S \in SUBSET Obs
  PROVE  TotallyOrders(NewestFirst, S) /\ \A o, q \in S : <<o, q>> \in NewestFirst <=> Newer(o, q)
<1>1. \A o, q \in S : <<o, q>> \in NewestFirst <=> Newer(o, q)
  BY DEF NewestFirst
<1>2. ASSUME NEW o \in S, NEW q \in S, NEW r \in S, Newer(o, q), Newer(q, r) PROVE Newer(o, r)
  BY <1>2, NewerFacts
<1>3. \A o, q \in S : o # q => Newer(o, q) \/ Newer(q, o)
  BY NewerFacts
<1>4. \A o \in S : ~Newer(o, o)
  BY NewerFacts
<1> QED
  BY <1>1, <1>2, <1>3, <1>4 DEF TotallyOrders

\* Without terms, after a cursor or in the mode `and', a search lists the newest first.
LEMMA NoTerms ==
  ASSUME NEW t, NEW c
  PROVE  Ranking(t, {}, c, "and") = NewestFirst
<1>1. ASSUME NEW o \in Obs, NEW q \in Obs
      PROVE  LexLess(SortKey(t, o, {}, c, "and"), SortKey(t, q, {}, c, "and")) <=> Newer(o, q)
  <2> DEFINE s == <<0, 0, 0, -Created[o], -o>>
             u == <<0, 0, 0, -Created[q], -q>>
  <2>1. Created[o] \in Nat /\ Created[q] \in Nat /\ o \in Nat /\ q \in Nat
    BY SearchAssumption
  <2>2. /\ s \in [1..5 -> Int] /\ s[1] = 0 /\ s[2] = 0 /\ s[3] = 0 /\ s[4] = -Created[o] /\ s[5] = -o
        /\ u \in [1..5 -> Int] /\ u[1] = 0 /\ u[2] = 0 /\ u[3] = 0 /\ u[4] = -Created[q] /\ u[5] = -q
    BY <2>1
  <2>3. SortKey(t, o, {}, c, "and") = s /\ SortKey(t, q, {}, c, "and") = u
    BY DEF SortKey, Long
  <2> HIDE DEF s, u
  <2>4. LexLess(s, u) <=> -Created[o] < -Created[q] \/ (-Created[o] = -Created[q] /\ -o < -q)
    BY <2>1, <2>2, LexKey
  <2> QED
    BY <2>1, <2>3, <2>4, NewerFacts
<1> QED
  BY <1>1 DEF Ranking, NewestFirst

-----------------------------------------------------------------------------
(***************************************************************************)
(* The walk of a bulk delete.                                              *)
(*                                                                         *)
(* A memory that was to be found since the first page and whose tombstone  *)
(* did not fail lies past the cursor when a page is asked for; while a     *)
(* page is walked it is on it, or older than all of it, and in that case   *)
(* the page was full or a row that does not parse, a newer one, was cut    *)
(* from it.                                                                *)
(***************************************************************************)
Owed == steady \ (failed \cup Unreadable)

Excused(o) == ~scanning /\ \E u \in Unreadable \cap born : Newer(u, o)

WalkInv ==
  /\ steady \subseteq Obs /\ page \subseteq Obs /\ cursor \in Obs \cup {None}
  /\ command \notin {"fetch", "walk", "walked"} => steady = {}
  /\ command \in {"fetch", "walk"} => steady \subseteq Seen
  /\ command = "fetch" => \A o \in Owed : cursor # None => Newer(cursor, o)
  /\ command = "walk" =>
       /\ page # {}
       /\ \A o \in Owed \ page : (\A q \in page : Newer(q, o)) /\ (full \/ Excused(o))
  /\ command = "walked" => \A o \in Owed : Excused(o)

\* What a page draws from are memories of this world.
LEMMA SeenFacts ==
  ASSUME CurationInv
  PROVE  Seen \subseteq born /\ Seen \subseteq Obs /\ Default(row, clock) \subseteq Present(row)
BY DEF CurationInv, TableInv, Seen, Default, Matching, Live, Present

\* Before any command nothing is owed.
LEMMA WalkInitInv == CurationInit => WalkInv
BY DEF CurationInit, WalkInv

\* What a page answers: rows past the cursor, the newest, and one is missing only
\* from a full page, or behind one that does not parse.
LEMMA PageFacts ==
  ASSUME CurationInv, WalkInv, FetchPage
  PROVE  /\ page' \subseteq Obs
         /\ \A o \in Owed \ page' : /\ \A q \in page' : Newer(q, o)
                                    /\ (page' # {} /\ full') \/ Excused(o)
<1> DEFINE hits == IF scanning THEN Candidates(held, buried, cursor) ELSE Past(Default(row, clock), cursor)
           top == Top(hits, NewestFirst, PageSize)
<1>1. hits \subseteq Obs /\ IsFiniteSet(hits) /\ PageSize \in Nat /\ PageSize # 0
  <2>1. hits \subseteq Seen
    BY DEF Candidates, Past, Seen
  <2>2. hits \in SUBSET Obs
    BY <2>1, SeenFacts
  <2> QED
    BY <2>2, SearchAssumption, CurationAssumption, FS_Subset
<1>2. page' = IF scanning THEN top ELSE top \ Unreadable
  <2>1. CASE scanning
    <3>1. {o \in Candidates(held, buried, cursor) : {} = {} \/ Has[o] \cap {} # {}} = hits
      BY <2>1
    <3> QED
      BY <2>1, <3>1 DEF FetchPage, ScanFound
  <2>2. CASE ~scanning
    <3>1. {o \in Past(Default(row, clock), cursor) :
             IF "and" = "and" THEN MeetsAll(row, o, {}) ELSE MeetsAny(row, o, {})} = hits
      BY <2>2 DEF MeetsAll, Long
    <3>2. Found(row, Default(row, clock), {}, cursor, "and", PageSize) = top \ Unreadable
      BY <3>1, NoTerms DEF Found, Parsed
    <3> QED
      BY <2>2, <3>2 DEF FetchPage
  <2> QED
    BY <2>1, <2>2
<1>3. /\ TotallyOrders(NewestFirst, hits)
      /\ \A o, q \in hits : <<o, q>> \in NewestFirst <=> Newer(o, q)
  BY <1>1, NewestOrders
<1> HIDE DEF hits
<1>4. /\ top \subseteq hits /\ IsFiniteSet(top) /\ Cardinality(top) \in Nat
      /\ \A o \in hits \ top : Cardinality(top) = PageSize /\ \A q \in top : <<q, o>> \in NewestFirst
  BY <1>1, <1>3, TopFacts
<1> HIDE DEF top
<1>5. ASSUME NEW o \in Owed \ page'
      PROVE  (\A q \in page' : Newer(q, o)) /\ ((page' # {} /\ full') \/ Excused(o))
  <2>1. o \in Seen /\ o \in Obs /\ o \notin Unreadable /\ (cursor # None => Newer(cursor, o))
    BY <1>5 DEF WalkInv, Owed, FetchPage
  <2>2. o \in hits \ top
    BY <1>2, <1>5, <2>1 DEF hits, Candidates, Past, Seen
  <2>3. Cardinality(top) = PageSize /\ \A q \in top : Newer(q, o)
    BY <1>3, <1>4, <2>2
  <2>4. top # {}
    BY <1>1, <2>3, FS_EmptySet
  <2>5. CASE page' = top
    BY <2>3, <2>4, <2>5 DEF FetchPage
  <2>6. CASE page' # top
    <3>1. ~scanning /\ \E u \in top : u \in Unreadable
      BY <1>2, <2>6
    <3>2. hits \subseteq born
      BY <3>1, SeenFacts DEF hits, Past, Seen
    <3>3. Excused(o)
      BY <1>4, <2>3, <3>1, <3>2 DEF Excused
    <3> QED
      BY <1>2, <2>3, <3>3
  <2> QED
    BY <2>5, <2>6
<1> QED
  BY <1>1, <1>2, <1>4, <1>5

\* A tombstone takes a memory from what the next pages draw from.
LEMMA BuriedUnseen ==
  ASSUME CurationInv, NEW o, Bury(o), UNCHANGED <<scanning, clock>>
  PROVE  o \notin Seen'
<1>1. CASE scanning
  BY <1>1 DEF Bury, Seen
<1>2. CASE ~scanning
  <2>1. /\ Present(Marked(row, {o})) = Present(row)
        /\ \A q \in Present(row) : Marked(row, {o})[q].deleted = (q = o \/ row[q].deleted)
    BY MarkedTable DEF CurationInv
  <2> QED
    BY <1>2, <2>1 DEF Bury, Seen, Default, Matching, Live
<1> QED
  BY <1>1, <1>2

\* A step of someone else, or time: less is owed, and what is owed as before.
LEMMA OthersKeepWalk ==
  ASSUME WalkInv, UNCHANGED <<command, scanning, cursor, page, full, failed>>,
         steady' = steady \cap Seen', born \subseteq born'
  PROVE  WalkInv'
<1>1. Owed' \subseteq Owed /\ steady' \subseteq steady
  BY DEF Owed
<1>2. \A o : Excused(o) => Excused(o)'
  BY DEF Excused
<1> QED
  BY <1>1, <1>2 DEF WalkInv

\* A step outside the walk leaves it alone.
LEMMA ElsewhereKeepsWalk ==
  ASSUME WalkInv, UNCHANGED walkVars, command \notin {"fetch", "walk", "walked"},
         command' \notin {"fetch", "walk", "walked"}
  PROVE  WalkInv'
BY DEF WalkInv, walkVars

\* The walk, the sweep and the other processes keep it.
LEMMA WalkStepInv == CurationInv /\ WalkInv /\ [CurationNext]_curationVars => WalkInv'
<1> SUFFICES ASSUME CurationInv, WalkInv, [CurationNext]_curationVars PROVE WalkInv'
  OBVIOUS
<1>1. CASE StartWalk
  <2>1. steady' = Seen' /\ cursor' = None /\ command' = "fetch" /\ page' = page
    BY <1>1 DEF StartWalk, tableVars, Seen
  <2>2. steady' \subseteq Obs
    BY <1>1 DEF StartWalk, CurationInv, TableInv, Default, Matching, Live, Present
  <2> QED
    BY <2>1, <2>2 DEF WalkInv
<1>2. CASE FetchPage
  <2>1. /\ page' \subseteq Obs
        /\ \A o \in Owed \ page' : (\A q \in page' : Newer(q, o)) /\ ((page' # {} /\ full') \/ Excused(o))
    BY <1>2, PageFacts
  <2>2. /\ command = "fetch" /\ command' = IF page' = {} THEN "walked" ELSE "walk"
        /\ steady' = steady /\ cursor' = cursor
        /\ Owed' = Owed /\ Seen' = Seen /\ \A o : Excused(o)' = Excused(o)
    BY <1>2 DEF FetchPage, tableVars, Owed, Seen, Excused
  <2>3. CASE page' = {}
    BY <2>1, <2>2, <2>3 DEF WalkInv
  <2>4. CASE page' # {}
    BY <2>1, <2>2, <2>4 DEF WalkInv
  <2> QED
    BY <2>3, <2>4
<1>3. ASSUME NEW ok \in BOOLEAN, DeleteNext(ok) PROVE WalkInv'
  <2>1. PICK o \in page :
          /\ page' = page \ {o} /\ cursor' = o
          /\ IF ok THEN Bury(o) /\ UNCHANGED <<failed, upsets>>
             ELSE Untouched /\ Upset /\ failed' = failed \cup {o}
    BY <1>3 DEF DeleteNext
  <2>2. /\ command = "walk"
        /\ command' = IF page' # {} THEN "walk" ELSE IF full THEN "fetch" ELSE "walked"
        /\ UNCHANGED <<clock, scanning, full>>
        /\ steady' = steady \cap Seen'
    BY <1>3 DEF DeleteNext
  <2>3. o \notin Owed'
    BY <2>1, <2>2, BuriedUnseen DEF Owed
  <2>4. Owed' \subseteq Owed /\ born' = born
    BY <2>1, <2>2 DEF Owed, Bury, Untouched, tableVars
  <2>5. \A q : Excused(q)' = Excused(q)
    BY <2>2, <2>4 DEF Excused
  <2>6. ASSUME NEW q \in Owed' \ page'
        PROVE  Newer(o, q) /\ (\A r \in page' : Newer(r, q)) /\ (full' \/ Excused(q)')
    <3>1. q \in Owed \ page
      BY <2>1, <2>3, <2>4, <2>6
    <3> QED
      BY <2>1, <2>2, <2>5, <3>1 DEF WalkInv
  <2>7. steady' \subseteq Obs /\ page' \subseteq Obs /\ cursor' \in Obs
    BY <2>1, <2>2 DEF WalkInv
  <2>8. CASE page' # {}
    BY <2>2, <2>6, <2>7, <2>8 DEF WalkInv
  <2>9. CASE page' = {} /\ full
    BY <2>1, <2>2, <2>6, <2>7, <2>9 DEF WalkInv
  <2>10. CASE page' = {} /\ ~full
    BY <2>2, <2>6, <2>7, <2>10 DEF WalkInv
  <2> QED
    BY <2>8, <2>9, <2>10
<1>4. CASE EndWalk
  BY <1>4 DEF EndWalk, WalkInv
<1>5. CASE ListTtl \/ ListTombs \/ ListShadows \/ DeclineSweep \/ ConfirmSweep
  <2>1. /\ UNCHANGED walkVars /\ command \notin {"fetch", "walk", "walked"}
        /\ command' \notin {"fetch", "walk", "walked"}
    BY <1>5 DEF ListTtl, ListTombs, ListShadows, DeclineSweep, ConfirmSweep, EndCommand
  <2> QED
    BY <2>1, ElsewhereKeepsWalk
<1>6. CASE SweepStep
  <2>1. /\ UNCHANGED walkVars /\ command \notin {"fetch", "walk", "walked"}
        /\ command' \notin {"fetch", "walk", "walked"}
    BY <1>6 DEF SweepStep, BuryLapsed, StartPurge, EndSweep, EndCommand, StartReap, Purge, Revive, Reap
  <2> QED
    BY <2>1, ElsewhereKeepsWalk
<1>7. ASSUME NEW o \in Obs, Save(o) \/ DeletedElsewhere(o) \/ SeenAgain(o) PROVE WalkInv'
  <2>1. /\ UNCHANGED <<command, scanning, cursor, page, full, failed>>
        /\ steady' = steady \cap Seen' /\ born \subseteq born'
    BY <1>7 DEF Save, DeletedElsewhere, SeenAgain, ByAnother, Bury
  <2> QED
    BY <2>1, OthersKeepWalk
<1>8. ASSUME NEW o \in Obs, NEW lost \in BOOLEAN, Missed(o, lost) PROVE WalkInv'
  <2>1. /\ UNCHANGED <<command, scanning, cursor, page, full, failed>>
        /\ steady' = steady \cap Seen' /\ born \subseteq born'
    BY <1>8 DEF Missed, ByAnother
  <2> QED
    BY <2>1, OthersKeepWalk
<1>9. CASE ClockTicks
  <2>1. /\ UNCHANGED <<command, scanning, cursor, page, full, failed>>
        /\ steady' = steady \cap Seen' /\ born \subseteq born'
    BY <1>9 DEF ClockTicks, tableVars
  <2> QED
    BY <2>1, OthersKeepWalk
<1>10. CASE UNCHANGED curationVars
  BY <1>10 DEF curationVars, tableVars, walkVars, WalkInv, Owed, Excused, Seen
<1> QED
  BY <1>1, <1>2, <1>3, <1>4, <1>5, <1>6, <1>7, <1>8, <1>9, <1>10 DEF CurationNext, WalkStep

\* What a walk still owes, for any memories, page size, failures and steps of others.
THEOREM WalkInvariant == CurationSpec => []WalkInv
<1>1. CurationInv /\ WalkInv /\ [CurationNext]_curationVars => WalkInv'
  BY WalkStepInv
<1> QED
  BY <1>1, WalkInitInv, CurationInvariant, PTL DEF CurationSpec

-----------------------------------------------------------------------------
(* Types: a tombstone is only ever written for a memory that was saved, since a *)
(* page, like the index it is read from, has no others.                         *)

\* The clock, times and marks.
TimesOK ==
  /\ clock \in 0..MaxClock /\ since \in [Obs -> 0..MaxClock]
  /\ upsets \in 0..MaxUpsets /\ changes \in 0..MaxChanges

\* What the commands hold of the memories.
SetsOK ==
  /\ buried \subseteq born /\ page \subseteq born
  /\ shadows \subseteq Obs /\ residue \subseteq Obs /\ found \subseteq Obs /\ failed \subseteq Obs
  /\ command \in {"idle", "fetch", "walk", "walked", "listTtl", "listTombs", "listShadows",
                  "asked", "bury", "purge", "reap"}
  /\ scanning \in BOOLEAN /\ full \in BOOLEAN

\* Times are read off the clock.
LEMMA TimesStep == TimesOK /\ [CurationNext]_curationVars => TimesOK'
<1> SUFFICES ASSUME TimesOK, [CurationNext]_curationVars PROVE TimesOK'
  OBVIOUS
<1>1. /\ clock \in Nat /\ clock <= MaxClock /\ MaxClock \in Nat /\ since \in [Obs -> 0..MaxClock]
      /\ upsets \in Nat /\ upsets <= MaxUpsets /\ MaxUpsets \in Nat
      /\ changes \in Nat /\ changes <= MaxChanges /\ MaxChanges \in Nat
  BY CurationAssumption DEF TimesOK
<1>2. ASSUME NEW o PROVE At(o) \in [Obs -> 0..MaxClock] /\ Never(o) \in [Obs -> 0..MaxClock]
  <2>1. clock \in 0..MaxClock /\ 0 \in 0..MaxClock
    BY <1>1
  <2> QED
    BY <1>1, <2>1 DEF At, Never
<1>3. clock' \in 0..MaxClock
  <2>1. clock' = clock \/ ClockTicks
    BY DEF CurationNext, curationVars, WalkStep, StartWalk, FetchPage, DeleteNext, EndWalk, ListTtl, ListTombs,
           ListShadows, DeclineSweep, ConfirmSweep, EndCommand, SweepStep, BuryLapsed, StartPurge, EndSweep,
           StartReap, Purge, Revive, Reap, Save, DeletedElsewhere, SeenAgain, Missed, ByAnother
  <2> QED
    BY <1>1, <2>1 DEF ClockTicks
<1>4. since' \in [Obs -> 0..MaxClock]
  <2>1. since' = since \/ \E o : since' = At(o) \/ since' = Never(o)
    BY DEF CurationNext, curationVars, tableVars, WalkStep, StartWalk, FetchPage, DeleteNext, EndWalk, ListTtl,
           ListTombs, ListShadows, DeclineSweep, ConfirmSweep, EndCommand, SweepStep, BuryLapsed, StartPurge,
           EndSweep, StartReap, Purge, Revive, Reap, Save, DeletedElsewhere, SeenAgain, Missed, ClockTicks,
           Bury, Untouched
  <2> QED
    BY <1>1, <1>2, <2>1
<1>5. upsets' \in 0..MaxUpsets
  <2>1. upsets' = upsets \/ Upset
    BY DEF CurationNext, curationVars, WalkStep, StartWalk, FetchPage, DeleteNext, EndWalk, ListTtl, ListTombs,
           ListShadows, DeclineSweep, ConfirmSweep, EndCommand, SweepStep, BuryLapsed, StartPurge, EndSweep,
           StartReap, Purge, Revive, Reap, Save, DeletedElsewhere, SeenAgain, Missed, ByAnother, ClockTicks
  <2> QED
    BY <1>1, <2>1 DEF Upset
<1>6. changes' \in 0..MaxChanges
  <2>1. changes' = changes \/ (changes < MaxChanges /\ changes' = changes + 1)
    BY DEF CurationNext, curationVars, WalkStep, StartWalk, FetchPage, DeleteNext, EndWalk, ListTtl, ListTombs,
           ListShadows, DeclineSweep, ConfirmSweep, EndCommand, SweepStep, BuryLapsed, StartPurge, EndSweep,
           StartReap, Purge, Revive, Reap, Save, DeletedElsewhere, SeenAgain, Missed, ByAnother, ClockTicks
  <2> QED
    BY <1>1, <2>1
<1> QED
  BY <1>3, <1>4, <1>5, <1>6 DEF TimesOK

\* A page is read from what was saved.
LEMMA PageSaved ==
  ASSUME CurationInv, FetchPage
  PROVE  page' \subseteq born
<1>1. page' \subseteq Seen
  <2>1. CASE scanning
    BY <2>1 DEF FetchPage, ScanFound, Top, Candidates, Past, Seen
  <2>2. CASE ~scanning
    BY <2>2 DEF FetchPage, Found, Parsed, Top, Past, Seen
  <2> QED
    BY <2>1, <2>2
<1> QED
  BY <1>1, SeenFacts

\* What the commands hold stays among the memories.
LEMMA SetsStep == CurationInv /\ SetsOK /\ [CurationNext]_curationVars => SetsOK'
<1> SUFFICES ASSUME CurationInv, SetsOK, [CurationNext]_curationVars PROVE SetsOK'
  OBVIOUS
<1>1. /\ born \subseteq Obs /\ held \subseteq born /\ Present(row) \subseteq born
      /\ ttl \subseteq Obs /\ tombs \subseteq Obs /\ Default(row, clock) \subseteq Obs
  BY SeenFacts DEF CurationInv, TableInv, SweepInv, Present
<1> USE <1>1 DEF SetsOK
<1>2. CASE StartWalk
  BY <1>2 DEF StartWalk, tableVars, sweepVars
<1>3. CASE FetchPage
  BY <1>3, PageSaved DEF FetchPage, tableVars, sweepVars
<1>4. ASSUME NEW ok \in BOOLEAN, DeleteNext(ok) PROVE SetsOK'
  BY <1>4 DEF DeleteNext, Bury, Untouched, tableVars, sweepVars
<1>5. CASE EndWalk
  BY <1>5 DEF EndWalk, tableVars, sweepVars
<1>6. CASE ListTtl \/ ListTombs \/ ConfirmSweep
  BY <1>6 DEF ListTtl, ListTombs, ConfirmSweep, tableVars, walkVars
<1>7. CASE ListShadows
  BY <1>7 DEF ListShadows, tableVars, walkVars, Present
<1>8. CASE DeclineSweep \/ EndSweep
  BY <1>8 DEF DeclineSweep, EndSweep, EndCommand, tableVars, walkVars
<1>9. ASSUME NEW o \in Obs, NEW ok \in BOOLEAN, BuryLapsed(o, ok) PROVE SetsOK'
  BY <1>9 DEF BuryLapsed, Bury, Untouched, tableVars, walkVars, Present
<1>10. CASE StartPurge
  BY <1>10 DEF StartPurge, tableVars, walkVars
<1>11. ASSUME NEW ok \in BOOLEAN, StartReap(ok) PROVE SetsOK'
  BY <1>11 DEF StartReap, tableVars, walkVars, Present
<1>12. ASSUME NEW o \in Obs, Purge(o) \/ Revive(o) \/ Reap(o) PROVE SetsOK'
  BY <1>12 DEF Purge, Revive, Reap, walkVars
<1>13. ASSUME NEW o \in Obs, Save(o) \/ DeletedElsewhere(o) \/ SeenAgain(o) PROVE SetsOK'
  BY <1>13 DEF Save, DeletedElsewhere, SeenAgain, Bury, ByAnother, sweepVars
<1>14. ASSUME NEW o \in Obs, NEW lost \in BOOLEAN, Missed(o, lost) PROVE SetsOK'
  BY <1>14 DEF Missed, ByAnother, sweepVars
<1>15. CASE ClockTicks
  BY <1>15 DEF ClockTicks, tableVars, sweepVars
<1>16. CASE UNCHANGED curationVars
  BY <1>16 DEF curationVars, tableVars, walkVars, sweepVars
<1> QED
  BY <1>2, <1>3, <1>4, <1>5, <1>6, <1>7, <1>8, <1>9, <1>10, <1>11, <1>12, <1>13, <1>14, <1>15, <1>16
     DEF CurationNext, WalkStep, SweepStep

\* Every variable of the clean-up commands keeps its type, and nothing is tombstoned that
\* was never saved.
THEOREM CurationTypeCorrect == CurationSpec => []CurationTypeOK
<1>1. CurationInit => TimesOK /\ SetsOK
  <2> SUFFICES ASSUME CurationInit PROVE TimesOK /\ SetsOK
    OBVIOUS
  <2>1. TimesOK
    <3>1. 0 \in 0..MaxClock /\ 0 \in 0..MaxUpsets /\ 0 \in 0..MaxChanges
      BY CurationAssumption
    <3> QED
      BY <3>1 DEF CurationInit, TimesOK
  <2>2. SetsOK
    BY DEF CurationInit, SetsOK
  <2> QED
    BY <2>1, <2>2
<1>2. ASSUME CurationInv, WalkInv, TimesOK, SetsOK PROVE CurationTypeOK
  <2>1. ttl \subseteq Obs /\ tombs \subseteq Obs /\ steady \subseteq Obs
    BY <1>2 DEF CurationInv, TableInv, SweepInv, WalkInv
  <2>2. ttl \cup tombs \cup shadows \cup residue \cup found \cup steady \cup failed \subseteq Obs
    BY <1>2, <2>1 DEF SetsOK
  <2>3. row \in Rows /\ held \subseteq born /\ born \subseteq Obs
    BY <1>2 DEF CurationInv, TableInv
  <2>4. cursor \in Obs \cup {None} /\ page \subseteq Obs
    BY <1>2 DEF WalkInv
  <2> QED
    BY <1>2, <2>2, <2>3, <2>4 DEF TimesOK, SetsOK, CurationTypeOK
<1> QED
  BY <1>1, <1>2, TimesStep, SetsStep, CurationInvariant, WalkInvariant, PTL DEF CurationSpec

\* A bulk delete reaches whatever was to be found from its first page to its last, for any
\* number of memories, page size and timestamps: the property is the last conjunct of WalkInv.
THEOREM DeleteReachesAll == CurationSpec => []WalkReachesAll
<1>1. WalkInv => WalkReachesAll
  BY DEF WalkInv, WalkReachesAll, Owed, Excused
<1> QED
  BY <1>1, WalkInvariant, PTL

-----------------------------------------------------------------------------
(***************************************************************************)
(* A search for terms: the strict hits, then the broad ones.               *)
(***************************************************************************)

\* A sequence has the elements of A, then those of B, each once.
ListsBoth(s, A, B) ==
  /\ Cardinality(A) \in Nat /\ Cardinality(B) \in Nat
  /\ Len(s) = Cardinality(A) + Cardinality(B) /\ DOMAIN s = 1..Len(s)
  /\ \A i \in DOMAIN s : s[i] \in A <=> i <= Cardinality(A)
  /\ \A i \in DOMAIN s : s[i] \in A \cup B
  /\ \A i, j \in DOMAIN s : s[i] = s[j] => i = j
  /\ \A o \in A \cup B : \E i \in DOMAIN s : s[i] = o

\* Two listings, one behind the other.
LEMMA TwoListings ==
  ASSUME NEW A, NEW B, IsFiniteSet(A), IsFiniteSet(B), A \cap B = {},
         NEW R, NEW Q, TotallyOrders(R, A), TotallyOrders(Q, B)
  PROVE  ListsBoth(Listed(A, R) \o Listed(B, Q), A, B)
<1> DEFINE a == Listed(A, R)
           b == Listed(B, Q)
           s == a \o b
           m == Cardinality(A)
           n == Cardinality(B)
<1>1. /\ m \in Nat /\ a \in [1..m -> A]
      /\ \A i, j \in 1..m : a[i] = a[j] => i = j
      /\ \A o \in A : \E i \in 1..m : a[i] = o
  BY ListedFacts
<1>2. /\ n \in Nat /\ b \in [1..n -> B]
      /\ \A i, j \in 1..n : b[i] = b[j] => i = j
      /\ \A o \in B : \E i \in 1..n : b[i] = o
  BY ListedFacts
<1> HIDE DEF a, b, m, n
<1>3. a \in [1..m -> A \cup B] /\ b \in [1..n -> A \cup B]
  BY <1>1, <1>2
<1>4. a \in Seq(A \cup B) /\ b \in Seq(A \cup B)
  BY <1>1, <1>2, <1>3, SeqDef
<1>5. Len(a) = m /\ Len(b) = n
  BY <1>1, <1>2, <1>4, LenProperties
<1>6. /\ s \in Seq(A \cup B) /\ Len(s) = m + n
      /\ \A i \in 1..(m + n) : s[i] = IF i <= m THEN a[i] ELSE b[i - m]
  BY <1>4, <1>5, ConcatProperties
<1> HIDE DEF s
<1>7. DOMAIN s = 1..(m + n)
  BY <1>6, LenProperties
<1>8. \A i \in 1..(m + n) : i <= m => i \in 1..m /\ s[i] = a[i] /\ s[i] \in A
  BY <1>1, <1>2, <1>6
<1>9. \A i \in 1..(m + n) : ~(i <= m) => i - m \in 1..n /\ s[i] = b[i - m] /\ s[i] \in B
  BY <1>1, <1>2, <1>6
<1>10. ASSUME NEW i \in 1..(m + n), NEW j \in 1..(m + n), s[i] = s[j] PROVE i = j
  <2>1. CASE i <= m /\ j <= m
    BY <1>1, <1>8, <1>10, <2>1
  <2>2. CASE ~(i <= m) /\ ~(j <= m)
    <3>1. i - m = j - m
      BY <1>2, <1>9, <1>10, <2>2
    <3> QED
      BY <1>1, <1>2, <3>1
  <2> QED
    BY <1>8, <1>9, <1>10, <2>1, <2>2
<1>11. ASSUME NEW o \in A PROVE \E i \in 1..(m + n) : s[i] = o
  <2>1. PICK i \in 1..m : a[i] = o
    BY <1>1
  <2>2. i \in 1..(m + n) /\ i <= m
    BY <1>1, <1>2
  <2> QED
    BY <1>8, <2>1, <2>2
<1>12. ASSUME NEW o \in B PROVE \E i \in 1..(m + n) : s[i] = o
  <2>1. PICK i \in 1..n : b[i] = o
    BY <1>2
  <2>2. i + m \in 1..(m + n) /\ ~(i + m <= m) /\ (i + m) - m = i
    BY <1>1, <1>2
  <2>3. s[i + m] = b[i]
    BY <1>6, <2>2
  <2> QED
    BY <2>1, <2>2, <2>3
<1>13. ListsBoth(s, A, B)
  BY <1>1, <1>2, <1>6, <1>7, <1>8, <1>9, <1>10, <1>11, <1>12 DEF m, n, ListsBoth
<1> QED
  BY <1>13 DEF s, a, b

\* Two listings fill an answer well where the first has hits of the better kind, the
\* second none, and together they leave something out only when they fill it.
LEMMA TwoListingsFill ==
  ASSUME NEW A, NEW B, IsFiniteSet(A), IsFiniteSet(B), A \cap B = {},
         NEW R, NEW Q, TotallyOrders(R, A), TotallyOrders(Q, B),
         NEW whole, NEW part, NEW limit \in Nat,
         A \subseteq whole, whole \cap B = {},
         Cardinality(A) + Cardinality(B) <= limit,
         Cardinality(A) + Cardinality(B) < limit => part \subseteq A \cup B
  PROVE  WellFilled(Listed(A, R) \o Listed(B, Q), whole, part, limit)
<1> DEFINE s == Listed(A, R) \o Listed(B, Q)
<1>0. ListsBoth(s, A, B)
  BY TwoListings
<1> HIDE DEF s
<1>1. /\ Cardinality(A) \in Nat /\ Cardinality(B) \in Nat
      /\ Len(s) = Cardinality(A) + Cardinality(B) /\ DOMAIN s = 1..Len(s)
      /\ \A i \in DOMAIN s : s[i] \in A <=> i <= Cardinality(A)
      /\ \A i \in DOMAIN s : s[i] \in A \cup B
      /\ \A i, j \in DOMAIN s : s[i] = s[j] => i = j
      /\ \A o \in A \cup B : \E i \in DOMAIN s : s[i] = o
  BY <1>0 DEF ListsBoth
<1>2. \A i \in DOMAIN s : s[i] \in whole <=> s[i] \in A
  BY <1>1
<1>3. ASSUME NEW i \in DOMAIN s, NEW j \in DOMAIN s, s[i] \notin whole, s[j] \in whole PROVE j < i
  <2>1. ~(i <= Cardinality(A)) /\ j <= Cardinality(A)
    BY <1>1, <1>2, <1>3
  <2> QED
    BY <1>1, <2>1
<1>4. WellFilled(s, whole, part, limit)
  BY <1>1, <1>3 DEF WellFilled
<1> QED
  BY <1>4 DEF s

\* The key of a memory is its own: it ends with the id.
LEMMA KeyFacts ==
  ASSUME NEW t, NEW terms, NEW c, NEW mode, NEW o \in Obs
  PROVE  SortKey(t, o, terms, c, mode) \in [1..5 -> Int] /\ SortKey(t, o, terms, c, mode)[5] = -o
<1>1. Created[o] \in Nat /\ Importance[o] \in Nat /\ Relevance[o] \in Nat /\ o \in Nat
  BY SearchAssumption
<1> DEFINE k1 == IF Long(terms) # {} /\ ~(mode = "and" \/ FullText(t, o, terms)) THEN 1 ELSE 0
           k2 == IF terms # {} /\ c = None THEN -Importance[o] ELSE 0
           k3 == IF Long(terms) # {} /\ (mode = "and" \/ FullText(t, o, terms)) THEN Relevance[o] ELSE 0
<1>2. k1 \in Int /\ k2 \in Int /\ k3 \in Int
  BY <1>1
<1>3. SortKey(t, o, terms, c, mode) = <<k1, k2, k3, -Created[o], -o>>
  BY DEF SortKey
<1> HIDE DEF k1, k2, k3
<1> QED
  BY <1>1, <1>2, <1>3

\* No two memories share a place in a search.
LEMMA RankingOrders ==
  ASSUME NEW t, NEW terms, NEW c, NEW mode, NEW S \in SUBSET Obs
  PROVE  TotallyOrders(Ranking(t, terms, c, mode), S)
<1> DEFINE k == [o \in Obs |-> SortKey(t, o, terms, c, mode)]
<1>1. \A o \in Obs : k[o] \in [1..5 -> Int] /\ k[o][5] = -o /\ o \in Nat
  BY KeyFacts, SearchAssumption
<1>2. \A o, q \in Obs : <<o, q>> \in Ranking(t, terms, c, mode) <=> LexLess(k[o], k[q])
  BY DEF Ranking
<1> HIDE DEF k
<1>3. ASSUME NEW o \in S PROVE ~LexLess(k[o], k[o])
  BY <1>1, LexKey
<1>4. ASSUME NEW o \in S, NEW q \in S, NEW r \in S, LexLess(k[o], k[q]), LexLess(k[q], k[r])
      PROVE  LexLess(k[o], k[r])
  BY <1>1, <1>4, LexKey
<1>5. ASSUME NEW o \in S, NEW q \in S, o # q PROVE LexLess(k[o], k[q]) \/ LexLess(k[q], k[o])
  BY <1>1, <1>5, LexKey
<1> QED
  BY <1>2, <1>3, <1>4, <1>5 DEF TotallyOrders

\* The mode and_or of the index: the broad query reaches far enough past the strict
\* hits to fill what they leave of the limit.
LEMMA IndexFills ==
  ASSUME NEW t, NEW listing \in SUBSET Live(t), listing \cap Unreadable = {}, NEW terms, NEW limit \in 1..WideLimit
  PROVE  WellFilled(AndOr(t, listing, terms, None, limit),
                    {o \in listing : terms \subseteq Has[o]},
                    {o \in listing : terms = {} \/ Has[o] \cap terms # {}}, limit)
<1> DEFINE whole == {o \in listing : terms \subseteq Has[o]}
           part == {o \in listing : terms = {} \/ Has[o] \cap terms # {}}
           R == Ranking(t, terms, None, "and")
           Q == Ranking(t, terms, None, "or")
           asked == IF limit > Slack THEN 2 * limit ELSE limit + Slack
           reach == IF asked > WideLimit THEN WideLimit ELSE asked
           strict == Top(whole, R, limit)
           wide == Top(part, Q, reach)
           broad == Top(wide \ strict, Q, limit - Cardinality(strict))
<1>1. listing \in SUBSET Obs /\ whole \in SUBSET listing /\ part \in SUBSET listing
  BY DEF Live, Present
<1>2. IsFiniteSet(whole) /\ IsFiniteSet(part) /\ TotallyOrders(R, whole) /\ TotallyOrders(Q, part)
  BY <1>1, SearchAssumption, FS_Subset, RankingOrders
<1>3. {o \in Past(listing, None) : MeetsAll(t, o, terms)} = whole
  BY DEF Past, MeetsAll
<1>4. {o \in Past(listing, None) : MeetsAny(t, o, terms)} = part
  BY DEF Past, MeetsAny, FullText, Long
<1>5. Found(t, listing, terms, None, "and", limit) = strict
  <2>1. {o \in Past(listing, None) : IF "and" = "and" THEN MeetsAll(t, o, terms) ELSE MeetsAny(t, o, terms)} = whole
    BY <1>3
  <2>2. Found(t, listing, terms, None, "and", limit) = strict \ Unreadable
    BY <2>1 DEF Found, Parsed
  <2> QED
    BY <1>1, <2>2 DEF Top
<1>6. Found(t, listing, terms, None, "or", reach) = wide
  <2>1. {o \in Past(listing, None) : IF "or" = "and" THEN MeetsAll(t, o, terms) ELSE MeetsAny(t, o, terms)} = part
    BY <1>4
  <2>2. Found(t, listing, terms, None, "or", reach) = wide \ Unreadable
    BY <2>1 DEF Found, Parsed
  <2> QED
    BY <1>1, <2>2 DEF Top
<1>7. AndOr(t, listing, terms, None, limit) = Listed(strict, R) \o Listed(broad, Q)
  BY <1>5, <1>6 DEF AndOr
<1>8. reach \in Nat /\ limit \in Nat /\ limit <= reach
  BY SearchAssumption
<1>9. /\ strict \subseteq whole /\ IsFiniteSet(strict)
      /\ Cardinality(strict) \in Nat /\ Cardinality(strict) <= limit
      /\ \A o \in whole \ strict : Cardinality(strict) = limit
  BY <1>2, <1>8, TopFacts
<1>10. /\ wide \subseteq part /\ IsFiniteSet(wide) /\ Cardinality(wide) \in Nat
       /\ \A o \in part \ wide : Cardinality(wide) = reach
  <2> HIDE DEF reach
  <2> QED
    BY <1>2, <1>8, TopFacts
<1> HIDE DEF strict, wide, reach, whole, part, R, Q
<1>11. /\ wide \ strict \in SUBSET Obs /\ strict \in SUBSET Obs
       /\ IsFiniteSet(wide \ strict) /\ limit - Cardinality(strict) \in Nat
  <2>1. wide \ strict \in SUBSET Obs /\ strict \in SUBSET Obs
    BY <1>1, <1>9, <1>10
  <2>2. IsFiniteSet(wide \ strict)
    BY <2>1, SearchAssumption, FS_Subset
  <2>3. limit - Cardinality(strict) \in Nat
    BY <1>9
  <2> QED
    BY <2>1, <2>2, <2>3
<1>12. TotallyOrders(Q, wide \ strict) /\ TotallyOrders(R, strict)
  BY <1>11, RankingOrders DEF Q, R
<1>13. /\ broad \subseteq wide \ strict /\ IsFiniteSet(broad)
       /\ Cardinality(broad) \in Nat /\ Cardinality(broad) <= limit - Cardinality(strict)
       /\ \A o \in (wide \ strict) \ broad : Cardinality(broad) = limit - Cardinality(strict)
  BY <1>11, <1>12, TopFacts
<1> HIDE DEF broad
<1>14. TotallyOrders(Q, broad)
  <2>1. broad \in SUBSET Obs
    BY <1>11, <1>13
  <2> QED
    BY <2>1, RankingOrders DEF Q
<1>15. whole \cap broad = {}
  <2> SUFFICES ASSUME NEW o \in whole \cap broad PROVE FALSE
    OBVIOUS
  <2>1. Cardinality(strict) = limit
    BY <1>9, <1>13
  <2>2. Cardinality(broad) = 0
    BY <1>9, <1>13, <2>1
  <2> QED
    BY <1>13, <2>2, FS_EmptySet
<1>16. Cardinality(strict) + Cardinality(broad) < limit => part \subseteq strict \cup broad
  <2> SUFFICES ASSUME Cardinality(strict) + Cardinality(broad) < limit, NEW o \in part
               PROVE  o \in strict \cup broad
    OBVIOUS
  <2>1. wide \ strict = broad
    BY <1>9, <1>13
  <2>2. Cardinality(wide) < reach
    <3>1. wide \in SUBSET (strict \cup broad)
      BY <2>1
    <3>2. IsFiniteSet(strict \cup broad)
          /\ Cardinality(strict \cup broad)
               = Cardinality(strict) + Cardinality(broad) - Cardinality(strict \cap broad)
      BY <1>9, <1>13, FS_Union
    <3>3. strict \cap broad = {} /\ Cardinality({}) = 0
      BY <1>13, FS_EmptySet
    <3>4. Cardinality(wide) <= Cardinality(strict \cup broad)
      BY <3>1, <3>2, FS_Subset
    <3> QED
      BY <1>8, <1>9, <1>10, <1>13, <3>2, <3>3, <3>4
  <2>3. o \in wide
    BY <1>8, <1>10, <2>2
  <2> QED
    BY <2>1, <2>3
<1>17. /\ strict \cap broad = {}
       /\ Cardinality(strict) + Cardinality(broad) <= limit
  BY <1>9, <1>13
<1>18. WellFilled(Listed(strict, R) \o Listed(broad, Q), whole, part, limit)
  BY <1>9, <1>12, <1>13, <1>14, <1>15, <1>16, <1>17, TwoListingsFill
<1> QED
  BY <1>7, <1>18 DEF whole, part

\* The mode and_or of the scan.
LEMMA ScanFills ==
  ASSUME NEW terms, NEW limit \in Nat, held \subseteq Obs
  PROVE  WellFilled(ScanAndOr(held, buried, terms, None, limit),
                    {o \in (held \ buried) \ Unreadable : terms \subseteq Has[o]},
                    {o \in (held \ buried) \ Unreadable : terms = {} \/ Has[o] \cap terms # {}}, limit)
<1> DEFINE base == (held \ buried) \ Unreadable
           whole == {o \in base : terms \subseteq Has[o]}
           part == {o \in base : terms = {} \/ Has[o] \cap terms # {}}
           rest == {o \in base \ whole : Has[o] \cap terms # {}}
           strict == Top(whole, NewestFirst, limit)
           broad == Top(rest, NewestFirst, limit - Cardinality(strict))
<1>1. base = Candidates(held, buried, None)
  BY DEF Candidates, Past
<1>2. ScanAndOr(held, buried, terms, None, limit) = Listed(strict, NewestFirst) \o Listed(broad, NewestFirst)
  BY <1>1 DEF ScanAndOr
<1>3. /\ whole \in SUBSET Obs /\ rest \in SUBSET Obs
      /\ whole \cap rest = {} /\ part \subseteq whole \cup rest
  OBVIOUS
<1>4. /\ IsFiniteSet(whole) /\ IsFiniteSet(rest)
      /\ TotallyOrders(NewestFirst, whole) /\ TotallyOrders(NewestFirst, rest)
  BY <1>3, SearchAssumption, FS_Subset, NewestOrders
<1> HIDE DEF whole, part, rest
<1>5. /\ strict \subseteq whole /\ IsFiniteSet(strict)
      /\ Cardinality(strict) \in Nat /\ Cardinality(strict) <= limit
      /\ \A o \in whole \ strict : Cardinality(strict) = limit
  BY <1>4, TopFacts
<1> HIDE DEF strict
<1>6. /\ broad \subseteq rest /\ IsFiniteSet(broad)
      /\ Cardinality(broad) \in Nat /\ Cardinality(broad) <= limit - Cardinality(strict)
      /\ \A o \in rest \ broad : Cardinality(broad) = limit - Cardinality(strict)
  <2>1. limit - Cardinality(strict) \in Nat
    BY <1>5
  <2> QED
    BY <1>4, <2>1, TopFacts
<1> HIDE DEF broad
<1>7. TotallyOrders(NewestFirst, strict) /\ TotallyOrders(NewestFirst, broad)
  <2>1. strict \in SUBSET Obs /\ broad \in SUBSET Obs
    BY <1>3, <1>5, <1>6
  <2> QED
    BY <2>1, NewestOrders
<1>8. /\ strict \cap broad = {} /\ whole \cap broad = {}
      /\ Cardinality(strict) + Cardinality(broad) <= limit
  BY <1>3, <1>5, <1>6
<1>9. Cardinality(strict) + Cardinality(broad) < limit => part \subseteq strict \cup broad
  BY <1>3, <1>5, <1>6
<1>10. WellFilled(Listed(strict, NewestFirst) \o Listed(broad, NewestFirst), whole, part, limit)
  BY <1>5, <1>6, <1>7, <1>8, <1>9, TwoListingsFill
<1> QED
  BY <1>2, <1>10 DEF whole, part

\* and_or means what it says for every table, every order of importance and relevance
\* and every limit the broad query can reach.
THEOREM AndOrFills == CurationSpec => []StrictHitsFirst
<1>1. CurationInv => StrictHitsFirst
  <2> SUFFICES ASSUME CurationInv, NEW terms \in SUBSET UNION {Has[o] : o \in Obs}, NEW limit \in 1..WideLimit
               PROVE  LET listing == Default(row, clock)
                          scan == (held \ buried) \ Unreadable
                      IN /\ listing \cap Unreadable = {} =>
                              WellFilled(AndOr(row, listing, terms, None, limit),
                                         {o \in listing : terms \subseteq Has[o]},
                                         {o \in listing : terms = {} \/ Has[o] \cap terms # {}}, limit)
                         /\ WellFilled(ScanAndOr(held, buried, terms, None, limit),
                                       {o \in scan : terms \subseteq Has[o]},
                                       {o \in scan : terms = {} \/ Has[o] \cap terms # {}}, limit)
    BY DEF StrictHitsFirst
  <2>1. Default(row, clock) \in SUBSET Live(row) /\ held \subseteq Obs /\ limit \in Nat
    BY DEF Default, Matching, CurationInv, TableInv
  <2> QED
    BY <2>1, IndexFills, ScanFills
<1> QED
  BY <1>1, CurationInvariant, PTL
==============================================================================
