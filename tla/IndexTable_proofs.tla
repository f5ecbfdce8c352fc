-------------------------- MODULE IndexTable_proofs --------------------------
(***************************************************************************)
(* What every statement and every scan of the index table preserves, for   *)
(* any set of observations: the facts the proofs of its users compose.     *)
(***************************************************************************)
EXTENDS IndexTable, FiniteSetTheorems, TLAPS

\* A table whose full-text shadow covers the live rows, whose placeholders are
\* hidden and whose superseded_by resolves.
Sound(row, fts) ==
  /\ row \in Rows
  /\ fts \subseteq Obs
  /\ Live(row) \subseteq fts
  /\ \A o \in Present(row) : ~row[o].known => row[o].deleted
  /\ \A o \in Present(row) : row[o].by # None =>
       row[o].by \in Present(row) /\ o \in Supersedes[row[o].by]

\* What a row may become while nothing is removed: it stays, a deletion stays,
\* and it does not start as a shadow.
Grows(r, s) ==
  /\ r # None => s # None
  /\ r # None /\ r.deleted => s.deleted
  /\ r = None /\ s # None => s.deleted \/ ~s.shadowed

-----------------------------------------------------------------------------
(***************************************************************************)
(* Single statements, row by row.                                          *)
(***************************************************************************)

\* The upsert fills a row in, clears its shadow and keeps its deletion.
LEMMA FilledRow ==
  ASSUME NEW r \in Row \cup {None}
  PROVE  /\ Filled(r) \in Row
         /\ Filled(r) # None
         /\ Filled(r).known /\ ~Filled(r).shadowed
         /\ r = None => ~Filled(r).deleted /\ Filled(r).by = None
         /\ r # None => Filled(r).deleted = r.deleted /\ Filled(r).by = r.by
<1>1. CASE r = None
  <2>1. Filled(r) = [known |-> TRUE, deleted |-> FALSE, shadowed |-> FALSE, by |-> None]
    BY <1>1 DEF Filled
  <2>2. Filled(r) \in Row
    BY <2>1 DEF Row
  <2>3. Filled(r) # None
    BY <2>2, NoneIsNoRow
  <2>4. Filled(r).known /\ ~Filled(r).shadowed /\ ~Filled(r).deleted /\ Filled(r).by = None
    BY <2>1
  <2> QED
    BY <1>1, <2>2, <2>3, <2>4
<1>2. CASE r # None
  <2>1. /\ Filled(r) = [r EXCEPT !.known = TRUE, !.shadowed = FALSE]
        /\ r \in Row
    BY <1>2 DEF Filled
  <2>2. Filled(r) = [known |-> TRUE, deleted |-> r.deleted, shadowed |-> FALSE, by |-> r.by]
    BY <2>1 DEF Row
  <2> QED
    BY <1>2, <2>1, <2>2, NoneIsNoRow DEF Row
<1> QED
  BY <1>1, <1>2

\* Inserting S fills in the rows of S and leaves the others alone.
LEMMA InsertedRows ==
  ASSUME NEW row \in Rows, NEW S \in SUBSET Obs
  PROVE  /\ Inserted(row, S) \in Rows
         /\ \A o \in Obs : Inserted(row, S)[o] = IF o \in S THEN Filled(row[o]) ELSE row[o]
BY FilledRow DEF Inserted, Rows

\* Writing superseded_by changes nothing else of a row.
LEMMA PointedRows ==
  ASSUME NEW row \in Rows, NEW by \in [Obs -> Obs \cup {None}]
  PROVE  /\ Pointed(row, by) \in Rows
         /\ \A o \in Obs :
              /\ row[o] = None => Pointed(row, by)[o] = None
              /\ row[o] # None =>
                   /\ Pointed(row, by)[o] \in Row
                   /\ Pointed(row, by)[o] # None
                   /\ Pointed(row, by)[o].known = row[o].known
                   /\ Pointed(row, by)[o].deleted = row[o].deleted
                   /\ Pointed(row, by)[o].shadowed = row[o].shadowed
                   /\ Pointed(row, by)[o].by = IF by[o] # None THEN by[o] ELSE row[o].by
BY NoneIsNoRow DEF Pointed, Rows, Row

\* Marking T stamps the rows of T that exist, and no other.
LEMMA MarkedRows ==
  ASSUME NEW row \in Rows, NEW T \in SUBSET Obs
  PROVE  /\ Marked(row, T) \in Rows
         /\ \A o \in Obs :
              /\ row[o] = None => Marked(row, T)[o] = None
              /\ row[o] # None =>
                   /\ Marked(row, T)[o] \in Row
                   /\ Marked(row, T)[o] # None
                   /\ Marked(row, T)[o].known = row[o].known
                   /\ Marked(row, T)[o].by = row[o].by
                   /\ Marked(row, T)[o].deleted = (o \in T \/ row[o].deleted)
                   /\ Marked(row, T)[o].shadowed = (o \notin T /\ row[o].shadowed)
BY NoneIsNoRow DEF Marked, Rows, Row

\* A placeholder takes no existing row's place.
LEMMA PlaceheldRows ==
  ASSUME NEW row \in Rows, NEW T \in SUBSET Obs
  PROVE  /\ Placeheld(row, T) \in Rows
         /\ \A o \in Obs :
              /\ row[o] # None \/ o \notin T => Placeheld(row, T)[o] = row[o]
              /\ row[o] = None /\ o \in T =>
                   Placeheld(row, T)[o] = [known |-> FALSE, deleted |-> TRUE,
                                           shadowed |-> FALSE, by |-> None]
BY DEF Placeheld, Rows, Row

\* A shadow falls on live rows only.
LEMMA HiddenRows ==
  ASSUME NEW row \in Rows, NEW S \in SUBSET Obs
  PROVE  /\ Hidden(row, S) \in Rows
         /\ \A o \in Obs :
              /\ row[o] = None => Hidden(row, S)[o] = None
              /\ row[o] # None =>
                   /\ Hidden(row, S)[o] \in Row
                   /\ Hidden(row, S)[o] # None
                   /\ Hidden(row, S)[o].known = row[o].known
                   /\ Hidden(row, S)[o].by = row[o].by
                   /\ Hidden(row, S)[o].deleted = row[o].deleted
                   /\ Hidden(row, S)[o].shadowed =
                        (row[o].shadowed \/ (o \in S /\ ~row[o].deleted))
BY NoneIsNoRow DEF Hidden, Rows, Row

\* Resetting superseded_by changes nothing else of a row.
LEMMA UnpointedRows ==
  ASSUME NEW row \in Rows
  PROVE  /\ Unpointed(row) \in Rows
         /\ \A o \in Obs :
              /\ row[o] = None => Unpointed(row)[o] = None
              /\ row[o] # None =>
                   /\ Unpointed(row)[o] \in Row
                   /\ Unpointed(row)[o] # None
                   /\ Unpointed(row)[o].known = row[o].known
                   /\ Unpointed(row)[o].deleted = row[o].deleted
                   /\ Unpointed(row)[o].shadowed = row[o].shadowed
                   /\ Unpointed(row)[o].by = None
BY NoneIsNoRow DEF Unpointed, Rows, Row

\* A physical delete removes one row and every superseded_by that names it.
LEMMA RemovedRows ==
  ASSUME NEW row \in Rows, NEW o \in Obs
  PROVE  /\ Removed(row, o) \in Rows
         /\ Removed(row, o)[o] = None
         /\ \A q \in Obs \ {o} :
              /\ row[q] = None => Removed(row, o)[q] = None
              /\ row[q] # None =>
                   /\ Removed(row, o)[q] \in Row
                   /\ Removed(row, o)[q] # None
                   /\ Removed(row, o)[q].known = row[q].known
                   /\ Removed(row, o)[q].deleted = row[q].deleted
                   /\ Removed(row, o)[q].shadowed = row[q].shadowed
                   /\ Removed(row, o)[q].by = IF row[q].by = o THEN None ELSE row[q].by
BY NoneIsNoRow DEF Removed, Rows, Row

\* Whoever wins a row's superseded_by was scanned and supersedes it.
LEMMA WinnersSupersede ==
  ASSUME NEW S \in SUBSET Obs, NEW by \in Winners(S)
  PROVE  /\ by \in [Obs -> Obs \cup {None}]
         /\ \A o \in Obs : by[o] # None => by[o] \in S /\ o \in Supersedes[by[o]]
BY DEF Winners, Over

-----------------------------------------------------------------------------
(***************************************************************************)
(* Applying a scan, row by row.                                            *)
(***************************************************************************)

\* Reconciling: a tombstone that was seen deletes, an observation that was
\* seen fills in and unshadows, and nothing else changes.
LEMMA ReconciledRows ==
  ASSUME NEW row \in Rows, NEW S \in SUBSET Obs, NEW T \in SUBSET Obs
  PROVE  /\ Reconciled(row, S, T) \in Rows
         /\ \A o \in Obs : LET x == Reconciled(row, S, T)[o] IN
              /\ row[o] = None /\ o \notin S /\ o \notin T => x = None
              /\ row[o] = None /\ o \notin S /\ o \in T =>
                   /\ x # None
                   /\ ~x.known /\ x.deleted /\ ~x.shadowed /\ x.by = None
              /\ row[o] = None /\ o \in S =>
                   /\ x # None
                   /\ x.known /\ ~x.shadowed /\ x.by = None
                   /\ x.deleted = (o \in T)
              /\ row[o] # None =>
                   /\ x # None
                   /\ x.by = row[o].by
                   /\ x.known = (row[o].known \/ o \in S)
                   /\ x.deleted = (row[o].deleted \/ o \in T)
                   /\ x.shadowed = (row[o].shadowed /\ o \notin S
                                      /\ (o \in T => row[o].deleted))
<1> DEFINE C == Changed(row, S)
           M == ToMark(row, S, T)
           H == Orphans(row, S, T)
           a == Inserted(row, C)
           b == Marked(a, M)
           c == Placeheld(b, H)
<1>1. C \in SUBSET Obs /\ M \in SUBSET Obs /\ H \in SUBSET Obs
  BY DEF Changed, ToMark, Orphans
<1>2. /\ a \in Rows
      /\ \A o \in Obs : a[o] = IF o \in C THEN Filled(row[o]) ELSE row[o]
  BY <1>1, InsertedRows
<1>3. b \in Rows /\ c \in Rows
  BY <1>1, <1>2, MarkedRows, PlaceheldRows
<1>4. ASSUME NEW o \in Obs
      PROVE  LET x == c[o] IN
              /\ row[o] = None /\ o \notin S /\ o \notin T => x = None
              /\ row[o] = None /\ o \notin S /\ o \in T =>
                   /\ x # None
                   /\ ~x.known /\ x.deleted /\ ~x.shadowed /\ x.by = None
              /\ row[o] = None /\ o \in S =>
                   /\ x # None
                   /\ x.known /\ ~x.shadowed /\ x.by = None
                   /\ x.deleted = (o \in T)
              /\ row[o] # None =>
                   /\ x # None
                   /\ x.by = row[o].by
                   /\ x.known = (row[o].known \/ o \in S)
                   /\ x.deleted = (row[o].deleted \/ o \in T)
                   /\ x.shadowed = (row[o].shadowed /\ o \notin S
                                      /\ (o \in T => row[o].deleted))
  <2>1. /\ row[o] \in Row \cup {None}
        /\ a[o] \in Row \cup {None}
    BY <1>2 DEF Rows
  <2>2. /\ a[o] = None => b[o] = None
        /\ a[o] # None => /\ b[o] # None
                          /\ b[o].known = a[o].known
                          /\ b[o].by = a[o].by
                          /\ b[o].deleted = (o \in M \/ a[o].deleted)
                          /\ b[o].shadowed = (o \notin M /\ a[o].shadowed)
    BY <1>1, <1>2, MarkedRows
  <2>3. /\ b[o] # None \/ o \notin H => c[o] = b[o]
        /\ b[o] = None /\ o \in H =>
             c[o] = [known |-> FALSE, deleted |-> TRUE, shadowed |-> FALSE, by |-> None]
    BY <1>1, <1>3, PlaceheldRows
  <2>4. CASE row[o] = None /\ o \notin S
    <3>1. o \notin C /\ (o \in H <=> o \in T)
      BY <2>4 DEF Changed, Orphans
    <3>2. b[o] = None
      BY <1>2, <2>2, <2>4, <3>1
    <3>3. CASE o \in T
      <4>1. c[o] = [known |-> FALSE, deleted |-> TRUE, shadowed |-> FALSE, by |-> None]
        BY <2>3, <3>1, <3>2, <3>3
      <4>2. c[o] \in Row
        BY <4>1 DEF Row
      <4>3. c[o] # None
        BY <4>2, NoneIsNoRow
      <4>4. ~c[o].known /\ c[o].deleted /\ ~c[o].shadowed /\ c[o].by = None
        BY <4>1
      <4> HIDE DEF c
      <4> QED
        BY <2>4, <3>3, <4>3, <4>4
    <3>4. CASE o \notin T
      BY <2>3, <2>4, <3>1, <3>2, <3>4
    <3> QED
      BY <3>3, <3>4
  <2>5. CASE row[o] = None /\ o \in S
    <3>1. o \in C /\ o \notin H /\ (o \in M <=> o \in T)
      BY <2>5 DEF Changed, Orphans, ToMark
    <3>2. /\ a[o] # None /\ a[o].known /\ ~a[o].shadowed
          /\ ~a[o].deleted /\ a[o].by = None
          /\ a[o] \in [known : BOOLEAN, deleted : BOOLEAN, shadowed : BOOLEAN, by : Obs \cup {None}]
      BY <1>2, <2>1, <2>5, <3>1, FilledRow DEF Row
    <3>3. /\ c[o] # None
          /\ c[o].known = a[o].known /\ c[o].by = a[o].by
          /\ c[o].deleted = (o \in M \/ a[o].deleted)
          /\ c[o].shadowed = (o \notin M /\ a[o].shadowed)
      BY <2>2, <2>3, <3>1, <3>2
    <3> HIDE DEF a, c, C, M, H
    <3> QED
      BY <2>5, <3>1, <3>2, <3>3
  <2>6. CASE row[o] # None
    <3>1. /\ o \in C <=> o \in S /\ (row[o].shadowed \/ ~row[o].known)
          /\ o \notin H
          /\ o \in M <=> o \in T /\ ~row[o].deleted
      BY <2>6 DEF Changed, Orphans, ToMark
    <3>2. row[o] \in [known : BOOLEAN, deleted : BOOLEAN, shadowed : BOOLEAN, by : Obs \cup {None}]
      BY <2>1, <2>6 DEF Row
    <3>3. /\ a[o] # None
          /\ a[o].by = row[o].by /\ a[o].deleted = row[o].deleted
          /\ o \in C => a[o].known /\ ~a[o].shadowed
          /\ o \notin C => a[o] = row[o]
      BY <1>2, <2>1, <2>6, FilledRow
    <3>4. /\ a[o].known = (row[o].known \/ o \in S)
          /\ a[o].shadowed = (row[o].shadowed /\ o \notin S)
          /\ a[o] \in [known : BOOLEAN, deleted : BOOLEAN, shadowed : BOOLEAN, by : Obs \cup {None}]
      BY <2>1, <3>1, <3>2, <3>3 DEF Row
    <3> QED
      BY <2>2, <2>3, <2>6, <3>1, <3>2, <3>3, <3>4
  <2> QED
    BY <2>4, <2>5, <2>6
<1>5. Reconciled(row, S, T) = c
  BY DEF Reconciled
<1> HIDE DEF c
<1> QED
  BY <1>3, <1>4, <1>5

\* LocalIndex.upsert fills in one row and points the rows it supersedes to it.
LEMMA UpsertedRows ==
  ASSUME NEW row \in Rows, NEW o \in Obs
  PROVE  /\ Upserted(row, o) \in Rows
         /\ \A q \in Obs : LET x == Upserted(row, o)[q] IN
              /\ q # o /\ row[q] = None => x = None
              /\ q = o \/ row[q] # None =>
                   /\ x # None
                   /\ x.known = (q = o \/ row[q].known)
                   /\ x.deleted = (row[q] # None /\ row[q].deleted)
                   /\ x.shadowed = (q # o /\ row[q].shadowed)
                   /\ x.by = IF q \in Supersedes[o] THEN o
                             ELSE IF row[q] = None THEN None ELSE row[q].by
<1> DEFINE by == [q \in Obs |-> IF q \in Supersedes[o] THEN o ELSE None]
           a == Inserted(row, {o})
           z == Pointed(a, by)
<1>1. by \in [Obs -> Obs \cup {None}]
  OBVIOUS
<1>2. /\ a \in Rows
      /\ \A q \in Obs : a[q] = IF q = o THEN Filled(row[q]) ELSE row[q]
  BY InsertedRows
<1>3. z \in Rows
  BY <1>1, <1>2, PointedRows
<1>4. \A q \in Obs :
        /\ a[q] = None => z[q] = None
        /\ a[q] # None =>
             /\ z[q] # None
             /\ z[q].known = a[q].known /\ z[q].deleted = a[q].deleted
             /\ z[q].shadowed = a[q].shadowed
             /\ z[q].by = IF by[q] # None THEN by[q] ELSE a[q].by
  BY <1>1, <1>2, PointedRows
<1>5. \A q \in Obs : by[q] = (IF q \in Supersedes[o] THEN o ELSE None)
  OBVIOUS
<1>6. Upserted(row, o) = z
  BY DEF Upserted
<1> HIDE DEF z, a, by
<1>7. ASSUME NEW q \in Obs
      PROVE  /\ q # o /\ row[q] = None => z[q] = None
             /\ q = o \/ row[q] # None =>
                   /\ z[q] # None
                   /\ z[q].known = (q = o \/ row[q].known)
                   /\ z[q].deleted = (row[q] # None /\ row[q].deleted)
                   /\ z[q].shadowed = (q # o /\ row[q].shadowed)
                   /\ z[q].by = IF q \in Supersedes[o] THEN o
                                ELSE IF row[q] = None THEN None ELSE row[q].by
  <2>1. row[q] \in Row \cup {None} /\ o # None
    BY IndexTableAssumption DEF Rows
  <2>2. /\ by[q] # None => by[q] = o /\ q \in Supersedes[o]
        /\ by[q] = None => q \notin Supersedes[o]
    BY <1>5, <2>1
  <2>3. CASE q = o
    <3>1. /\ a[q] # None /\ a[q].known /\ ~a[q].shadowed
          /\ row[q] = None => ~a[q].deleted /\ a[q].by = None
          /\ row[q] # None => a[q].deleted = row[q].deleted /\ a[q].by = row[q].by
      BY <1>2, <2>1, <2>3, FilledRow
    <3>2. a[q] \in [known : BOOLEAN, deleted : BOOLEAN, shadowed : BOOLEAN, by : Obs \cup {None}]
      BY <1>2, <3>1 DEF Rows, Row
    <3>3. CASE row[q] = None
      BY <1>4, <2>2, <2>3, <3>1, <3>2, <3>3
    <3>4. CASE row[q] # None
      <4>1. row[q] \in [known : BOOLEAN, deleted : BOOLEAN, shadowed : BOOLEAN, by : Obs \cup {None}]
        BY <2>1, <3>4 DEF Row
      <4> QED
        BY <1>4, <2>2, <2>3, <3>1, <3>2, <3>4, <4>1
    <3> QED
      BY <3>3, <3>4
  <2>4. CASE q # o /\ row[q] = None
    BY <1>2, <1>4, <2>4
  <2>5. CASE q # o /\ row[q] # None
    <3>1. a[q] = row[q]
          /\ row[q] \in [known : BOOLEAN, deleted : BOOLEAN, shadowed : BOOLEAN, by : Obs \cup {None}]
      BY <1>2, <2>1, <2>5 DEF Row
    <3> QED
      BY <1>4, <2>2, <2>5, <3>1
  <2> QED
    BY <2>3, <2>4, <2>5
<1> QED
  BY <1>3, <1>6, <1>7

\* A rebuild leaves rows for what it scanned and what was there; what is live
\* afterwards was scanned and carries no deletion, old or new.
LEMMA RebuiltRows ==
  ASSUME NEW row \in Rows, NEW S \in SUBSET Obs, NEW T \in SUBSET Obs, NEW by \in Winners(S)
  PROVE  /\ Rebuilt(row, S, T, by) \in Rows
         /\ \A q \in Obs : LET z == Rebuilt(row, S, T, by)[q] IN
              /\ z = None <=> row[q] = None /\ q \notin S /\ q \notin T
              /\ z # None =>
                   /\ z.known = (q \in S \/ (row[q] # None /\ row[q].known))
                   /\ z.deleted = (q \in T \/ (row[q] # None /\ row[q].deleted))
                   /\ ~z.deleted => z.shadowed = (q \notin S)
                   /\ z.by = by[q]
<1> DEFINE x == Reconciled(row, S, T)
           y == Hidden(x, Stale(row, S))
           u == Unpointed(y)
           z == Rebuilt(row, S, T, by)
<1>1. Stale(row, S) \in SUBSET Obs
  BY DEF Stale, Live, Present
<1>2. /\ by \in [Obs -> Obs \cup {None}]
      /\ \A o \in Obs : by[o] # None => by[o] \in S /\ o \in Supersedes[by[o]]
  BY WinnersSupersede
<1>3. /\ x \in Rows
      /\ \A q \in Obs :
              /\ row[q] = None /\ q \notin S /\ q \notin T => x[q] = None
              /\ row[q] = None /\ q \notin S /\ q \in T =>
                   /\ x[q] # None
                   /\ ~x[q].known /\ x[q].deleted /\ ~x[q].shadowed /\ x[q].by = None
              /\ row[q] = None /\ q \in S =>
                   /\ x[q] # None
                   /\ x[q].known /\ ~x[q].shadowed /\ x[q].by = None
                   /\ x[q].deleted = (q \in T)
              /\ row[q] # None =>
                   /\ x[q] # None
                   /\ x[q].by = row[q].by
                   /\ x[q].known = (row[q].known \/ q \in S)
                   /\ x[q].deleted = (row[q].deleted \/ q \in T)
                   /\ x[q].shadowed = (row[q].shadowed /\ q \notin S
                                         /\ (q \in T => row[q].deleted))
  BY ReconciledRows
<1> HIDE DEF x
<1>4. /\ y \in Rows
      /\ \A q \in Obs :
           /\ x[q] = None => y[q] = None
           /\ x[q] # None => /\ y[q] # None
                             /\ y[q].known = x[q].known
                             /\ y[q].deleted = x[q].deleted
                             /\ y[q].shadowed = (x[q].shadowed
                                                  \/ (q \in Stale(row, S) /\ ~x[q].deleted))
  BY <1>1, <1>3, HiddenRows
<1> HIDE DEF y
<1>5. /\ u \in Rows
      /\ \A q \in Obs :
           /\ y[q] = None => u[q] = None
           /\ y[q] # None => /\ u[q] # None
                             /\ u[q].known = y[q].known
                             /\ u[q].deleted = y[q].deleted
                             /\ u[q].shadowed = y[q].shadowed
                             /\ u[q].by = None
  BY <1>4, UnpointedRows
<1> HIDE DEF u
<1>6. /\ z \in Rows
      /\ \A q \in Obs :
           /\ u[q] = None => z[q] = None
           /\ u[q] # None => /\ z[q] # None
                             /\ z[q].known = u[q].known
                             /\ z[q].deleted = u[q].deleted
                             /\ z[q].shadowed = u[q].shadowed
                             /\ z[q].by = IF by[q] # None THEN by[q] ELSE u[q].by
  BY <1>2, <1>5, PointedRows DEF Rebuilt, x, y, u
<1> HIDE DEF z
<1>7. ASSUME NEW q \in Obs
      PROVE  /\ z[q] = None <=> row[q] = None /\ q \notin S /\ q \notin T
             /\ z[q] # None =>
                   /\ z[q].known = (q \in S \/ (row[q] # None /\ row[q].known))
                   /\ z[q].deleted = (q \in T \/ (row[q] # None /\ row[q].deleted))
                   /\ ~z[q].deleted => z[q].shadowed = (q \notin S)
                   /\ z[q].by = by[q]
  <2>1. q \in Stale(row, S) <=> row[q] # None /\ ~row[q].deleted /\ ~row[q].shadowed /\ q \notin S
    BY DEF Stale, Live, Present
  <2>2. row[q] # None =>
          row[q] \in [known : BOOLEAN, deleted : BOOLEAN, shadowed : BOOLEAN, by : Obs \cup {None}]
    BY DEF Rows, Row
  <2>3. CASE row[q] = None
    <3>1. CASE q \notin S /\ q \notin T
      BY <1>3, <1>4, <1>5, <1>6, <2>3, <3>1
    <3>2. CASE q \in S \/ q \in T
      <4>1. x[q] # None /\ q \notin Stale(row, S)
        BY <1>3, <2>1, <2>3, <3>2
      <4>2. /\ z[q] # None
            /\ z[q].known = x[q].known /\ z[q].deleted = x[q].deleted /\ z[q].by = by[q]
            /\ z[q].shadowed = (x[q].shadowed \/ (q \in Stale(row, S) /\ ~x[q].deleted))
        BY <1>4, <1>5, <1>6, <4>1
      <4>3. x[q] \in [known : BOOLEAN, deleted : BOOLEAN, shadowed : BOOLEAN, by : Obs \cup {None}]
        BY <1>3, <4>1 DEF Rows, Row
      <4>4. CASE q \in S
        <5>1. x[q].known /\ ~x[q].shadowed /\ x[q].deleted = (q \in T)
          BY <1>3, <2>3, <4>4
        <5> QED
          BY <2>3, <4>1, <4>2, <4>3, <4>4, <5>1
      <4>5. CASE q \notin S /\ q \in T
        <5>1. ~x[q].known /\ x[q].deleted
          BY <1>3, <2>3, <4>5
        <5> QED
          BY <2>3, <4>1, <4>2, <4>3, <4>5, <5>1
      <4> QED
        BY <3>2, <4>4, <4>5
    <3> QED
      BY <3>1, <3>2
  <2>4. CASE row[q] # None
    <3>1. /\ z[q] # None /\ x[q] # None
          /\ z[q].known = x[q].known /\ z[q].deleted = x[q].deleted /\ z[q].by = by[q]
          /\ z[q].shadowed = (x[q].shadowed \/ (q \in Stale(row, S) /\ ~x[q].deleted))
      BY <1>3, <1>4, <1>5, <1>6, <2>4
    <3> QED
      BY <1>3, <2>1, <2>2, <2>4, <3>1
  <2> QED
    BY <2>3, <2>4
<1> QED
  BY <1>6, <1>7 DEF z

-----------------------------------------------------------------------------
(***************************************************************************)
(* What the writers of the index preserve.                                 *)
(***************************************************************************)

\* LocalIndex.upsert
LEMMA UpsertedSound ==
  ASSUME NEW row, NEW fts, Sound(row, fts), NEW o \in Obs
  PROVE  /\ Sound(Upserted(row, o), fts \cup {o})
         /\ \A q \in Obs : Grows(row[q], Upserted(row, o)[q])
<1> DEFINE by == [q \in Obs |-> IF q \in Supersedes[o] THEN o ELSE None]
           a == Inserted(row, {o})
           z == Pointed(a, by)
<1>1. row \in Rows /\ by \in [Obs -> Obs \cup {None}]
  BY DEF Sound
<1>2. /\ a \in Rows
      /\ \A q \in Obs : a[q] = IF q = o THEN Filled(row[q]) ELSE row[q]
  BY <1>1, InsertedRows
<1>3. z \in Rows
  BY <1>1, <1>2, PointedRows
<1>4. ASSUME NEW q \in Obs
      PROVE  /\ a[q] = None <=> (row[q] = None /\ q # o)
             /\ z[q] = None <=> (row[q] = None /\ q # o)
             /\ z[q] # None =>
                  /\ z[q].known = (q = o \/ row[q].known)
                  /\ z[q].deleted = (row[q] # None /\ row[q].deleted)
                  /\ z[q].shadowed = (q # o /\ row[q].shadowed)
                  /\ z[q].by = IF q \in Supersedes[o] THEN o
                               ELSE IF row[q] = None THEN None ELSE row[q].by
  <2>1. row[q] \in Row \cup {None}
    BY <1>1 DEF Rows
  <2>2. row[q] # None =>
          row[q] \in [known : BOOLEAN, deleted : BOOLEAN, shadowed : BOOLEAN, by : Obs \cup {None}]
    BY <2>1 DEF Row
  <2>3. /\ a[q] = None => z[q] = None
        /\ a[q] # None => /\ z[q] # None
                          /\ z[q].known = a[q].known
                          /\ z[q].deleted = a[q].deleted
                          /\ z[q].shadowed = a[q].shadowed
                          /\ z[q].by = IF q \in Supersedes[o] THEN o ELSE a[q].by
    BY <1>1, <1>2, PointedRows, IndexTableAssumption
  <2>4. CASE q # o
    BY <1>2, <2>2, <2>3, <2>4
  <2>5. CASE q = o
    <3>1. /\ a[q] # None
          /\ a[q] \in [known : BOOLEAN, deleted : BOOLEAN, shadowed : BOOLEAN, by : Obs \cup {None}]
          /\ a[q].known /\ ~a[q].shadowed
          /\ row[q] = None => ~a[q].deleted /\ a[q].by = None
          /\ row[q] # None => a[q].deleted = row[q].deleted /\ a[q].by = row[q].by
      BY <1>2, <2>1, <2>5, FilledRow DEF Row
    <3> HIDE DEF a, z
    <3> QED
      BY <2>2, <2>3, <2>5, <3>1
  <2> QED
    BY <2>4, <2>5
<1> HIDE DEF a, z, by
<1>5. Upserted(row, o) = z
  BY DEF Upserted, z, a, by
<1>6. Sound(z, fts \cup {o})
  <2>1. Live(z) \subseteq fts \cup {o}
    BY <1>4 DEF Sound, Live, Present
  <2>2. \A q \in Present(z) : ~z[q].known => z[q].deleted
    BY <1>4 DEF Sound, Present
  <2>3. ASSUME NEW q \in Present(z), z[q].by # None
        PROVE  z[q].by \in Present(z) /\ q \in Supersedes[z[q].by]
    <3>1. CASE q \in Supersedes[o]
      BY <1>4, <3>1 DEF Present
    <3>2. CASE q \notin Supersedes[o]
      <4>1. row[q] # None /\ row[q].by = z[q].by
        BY <1>4, <2>3, <3>2 DEF Present
      <4>2. row[q].by \in Present(row) /\ q \in Supersedes[row[q].by]
        BY <2>3, <4>1 DEF Sound, Present
      <4> QED
        BY <1>4, <4>1, <4>2 DEF Present
    <3> QED
      BY <3>1, <3>2
  <2> QED
    BY <1>3, <2>1, <2>2, <2>3 DEF Sound
<1>7. ASSUME NEW q \in Obs
      PROVE  Grows(row[q], z[q])
  BY <1>4 DEF Grows
<1> QED
  BY <1>5, <1>6, <1>7

\* LocalIndex.mark_deleted, and the tombstone repair.
LEMMA MarkedSound ==
  ASSUME NEW row, NEW fts, Sound(row, fts), NEW T \in SUBSET Obs
  PROVE  /\ Sound(Marked(row, T), fts \ T)
         /\ \A q \in Obs : Grows(row[q], Marked(row, T)[q])
         /\ Live(row) \ T \subseteq Live(Marked(row, T))
<1> DEFINE z == Marked(row, T)
<1>1. row \in Rows
  BY DEF Sound
<1>2. z \in Rows
  BY <1>1, MarkedRows
<1>3. ASSUME NEW q \in Obs
      PROVE  /\ row[q] = None => z[q] = None
             /\ row[q] # None =>
                   /\ z[q] # None
                   /\ z[q].known = row[q].known
                   /\ z[q].by = row[q].by
                   /\ z[q].deleted = (q \in T \/ row[q].deleted)
                   /\ z[q].shadowed = (q \notin T /\ row[q].shadowed)
  BY <1>1, MarkedRows
<1> HIDE DEF z
<1>4. Live(z) \subseteq fts \ T
  BY <1>3 DEF Sound, Live, Present
<1>5. \A q \in Present(z) : ~z[q].known => z[q].deleted
  BY <1>3 DEF Sound, Present
<1>6. \A q \in Present(z) : z[q].by # None => z[q].by \in Present(z) /\ q \in Supersedes[z[q].by]
  BY <1>3 DEF Sound, Present
<1>7. ASSUME NEW q \in Obs
      PROVE  Grows(row[q], z[q])
  BY <1>3 DEF Grows
<1>8. Live(row) \ T \subseteq Live(z)
  BY <1>3 DEF Live, Present
<1> QED
  BY <1>2, <1>4, <1>5, <1>6, <1>7, <1>8 DEF Sound, z

\* LocalIndex.physical_delete
LEMMA RemovedSound ==
  ASSUME NEW row, NEW fts, Sound(row, fts), NEW o \in Obs
  PROVE  /\ Sound(Removed(row, o), fts \ {o})
         /\ Removed(row, o)[o] = None
         /\ \A q \in Obs \ {o} : Grows(row[q], Removed(row, o)[q])
<1> DEFINE z == Removed(row, o)
<1>1. row \in Rows
  BY DEF Sound
<1>2. z \in Rows /\ z[o] = None
  BY <1>1, RemovedRows
<1>3. ASSUME NEW q \in Obs, q # o
      PROVE  /\ row[q] = None => z[q] = None
             /\ row[q] # None =>
                   /\ z[q] # None
                   /\ z[q].known = row[q].known
                   /\ z[q].deleted = row[q].deleted
                   /\ z[q].shadowed = row[q].shadowed
                   /\ z[q].by = IF row[q].by = o THEN None ELSE row[q].by
  BY <1>1, <1>3, RemovedRows
<1> HIDE DEF z
<1>4. Live(z) \subseteq fts \ {o}
  BY <1>2, <1>3 DEF Sound, Live, Present
<1>5. \A q \in Present(z) : ~z[q].known => z[q].deleted
  BY <1>2, <1>3 DEF Sound, Present
<1>6. \A q \in Present(z) : z[q].by # None => z[q].by \in Present(z) /\ q \in Supersedes[z[q].by]
  BY <1>2, <1>3 DEF Sound, Present
<1>7. ASSUME NEW q \in Obs, q # o
      PROVE  Grows(row[q], z[q])
  BY <1>3, <1>7 DEF Grows
<1> QED
  BY <1>2, <1>4, <1>5, <1>6, <1>7 DEF Sound, z

\* _apply_repair in mode full.  Beyond soundness: only a tombstone it saw hides
\* a visible row.
LEMMA RepairedSound ==
  ASSUME NEW row, NEW fts, Sound(row, fts),
         NEW S \in SUBSET Obs, NEW T \in SUBSET Obs, NEW by \in Winners(Changed(row, S))
  PROVE  /\ Sound(Repaired(row, S, T, by), RepairedFts(row, fts, S, T))
         /\ \A q \in Obs : Grows(row[q], Repaired(row, S, T, by)[q])
         /\ Live(row) \ T \subseteq Live(Repaired(row, S, T, by))
<1> DEFINE x == Reconciled(row, S, T)
           z == Repaired(row, S, T, by)
<1>1. row \in Rows
  BY DEF Sound
<1>2. /\ by \in [Obs -> Obs \cup {None}]
      /\ \A o \in Obs : by[o] # None => by[o] \in S /\ o \in Supersedes[by[o]]
  BY WinnersSupersede DEF Changed
<1>3. /\ x \in Rows
      /\ \A q \in Obs :
              /\ row[q] = None /\ q \notin S /\ q \notin T => x[q] = None
              /\ row[q] = None /\ q \notin S /\ q \in T =>
                   /\ x[q] # None
                   /\ ~x[q].known /\ x[q].deleted /\ ~x[q].shadowed /\ x[q].by = None
              /\ row[q] = None /\ q \in S =>
                   /\ x[q] # None
                   /\ x[q].known /\ ~x[q].shadowed /\ x[q].by = None
                   /\ x[q].deleted = (q \in T)
              /\ row[q] # None =>
                   /\ x[q] # None
                   /\ x[q].by = row[q].by
                   /\ x[q].known = (row[q].known \/ q \in S)
                   /\ x[q].deleted = (row[q].deleted \/ q \in T)
                   /\ x[q].shadowed = (row[q].shadowed /\ q \notin S
                                         /\ (q \in T => row[q].deleted))
  BY <1>1, ReconciledRows
<1> HIDE DEF x
<1>4. /\ z \in Rows
      /\ \A q \in Obs :
           /\ x[q] = None => z[q] = None
           /\ x[q] # None => /\ z[q] # None
                             /\ z[q].known = x[q].known
                             /\ z[q].deleted = x[q].deleted
                             /\ z[q].shadowed = x[q].shadowed
                             /\ z[q].by = IF by[q] # None THEN by[q] ELSE x[q].by
  BY <1>2, <1>3, PointedRows DEF Repaired, x
<1> HIDE DEF z
<1>5. Live(z) \subseteq RepairedFts(row, fts, S, T)
  <2>1. SUFFICES ASSUME NEW q \in Live(z)
                 PROVE  q \in RepairedFts(row, fts, S, T)
    OBVIOUS
  <2>2. /\ q \in Obs /\ x[q] # None /\ ~x[q].deleted /\ ~x[q].shadowed
    BY <1>4, <2>1 DEF Live, Present
  <2>3. q \notin ToMark(row, S, T)
    BY <1>3, <2>2 DEF ToMark
  <2>4. q \in fts \/ q \in Changed(row, S)
    BY <1>3, <2>2 DEF Sound, Live, Present, Changed
  <2> QED
    BY <2>3, <2>4 DEF RepairedFts
<1>6. RepairedFts(row, fts, S, T) \subseteq Obs
  BY DEF RepairedFts, Changed, Sound
<1>7. \A q \in Present(z) : ~z[q].known => z[q].deleted
  BY <1>3, <1>4 DEF Sound, Present
<1>8. ASSUME NEW q \in Present(z), z[q].by # None
      PROVE  z[q].by \in Present(z) /\ q \in Supersedes[z[q].by]
  <2>1. CASE by[q] # None
    BY <1>2, <1>3, <1>4, <1>8, <2>1 DEF Present
  <2>2. CASE by[q] = None
    <3>1. q \in Obs /\ x[q] # None /\ x[q].by = z[q].by
      BY <1>4, <2>2 DEF Present
    <3>2. row[q] # None /\ row[q].by = z[q].by
      BY <1>3, <1>8, <3>1
    <3>3. row[q].by \in Present(row) /\ q \in Supersedes[row[q].by]
      BY <1>8, <3>1, <3>2 DEF Sound, Present
    <3> QED
      BY <1>3, <1>4, <3>2, <3>3 DEF Present
  <2> QED
    BY <2>1, <2>2
<1>9. ASSUME NEW q \in Obs
      PROVE  Grows(row[q], z[q])
  BY <1>3, <1>4 DEF Grows
<1>10. Live(row) \ T \subseteq Live(z)
  BY <1>3, <1>4 DEF Live, Present
<1> QED
  BY <1>4, <1>5, <1>6, <1>7, <1>8, <1>9, <1>10 DEF Sound, z

\* _rebuild_from_observations on the Zenoh path.
LEMMA RebuiltSound ==
  ASSUME NEW row, NEW fts, Sound(row, fts),
         NEW S \in SUBSET Obs, NEW T \in SUBSET Obs, NEW by \in Winners(S)
  PROVE  /\ Sound(Rebuilt(row, S, T, by), RebuiltFts(row, fts, S, T))
         /\ \A q \in Obs : Grows(row[q], Rebuilt(row, S, T, by)[q])
<1> DEFINE x == Reconciled(row, S, T)
           y == Hidden(x, Stale(row, S))
           u == Unpointed(y)
           z == Rebuilt(row, S, T, by)
<1>1. row \in Rows /\ Stale(row, S) \in SUBSET Obs
  BY DEF Sound, Stale, Live, Present
<1>2. /\ by \in [Obs -> Obs \cup {None}]
      /\ \A o \in Obs : by[o] # None => by[o] \in S /\ o \in Supersedes[by[o]]
  BY WinnersSupersede
<1>3. /\ x \in Rows
      /\ \A q \in Obs :
              /\ row[q] = None /\ q \notin S /\ q \notin T => x[q] = None
              /\ row[q] = None /\ q \notin S /\ q \in T =>
                   /\ x[q] # None
                   /\ ~x[q].known /\ x[q].deleted /\ ~x[q].shadowed /\ x[q].by = None
              /\ row[q] = None /\ q \in S =>
                   /\ x[q] # None
                   /\ x[q].known /\ ~x[q].shadowed /\ x[q].by = None
                   /\ x[q].deleted = (q \in T)
              /\ row[q] # None =>
                   /\ x[q] # None
                   /\ x[q].by = row[q].by
                   /\ x[q].known = (row[q].known \/ q \in S)
                   /\ x[q].deleted = (row[q].deleted \/ q \in T)
                   /\ x[q].shadowed = (row[q].shadowed /\ q \notin S
                                         /\ (q \in T => row[q].deleted))
  BY <1>1, ReconciledRows
<1> HIDE DEF x
<1>4. /\ y \in Rows
      /\ \A q \in Obs :
           /\ x[q] = None => y[q] = None
           /\ x[q] # None => /\ y[q] # None
                             /\ y[q].known = x[q].known
                             /\ y[q].deleted = x[q].deleted
                             /\ y[q].shadowed = (x[q].shadowed
                                                  \/ (q \in Stale(row, S) /\ ~x[q].deleted))
  BY <1>1, <1>3, HiddenRows
<1> HIDE DEF y
<1>5. /\ u \in Rows
      /\ \A q \in Obs :
           /\ y[q] = None => u[q] = None
           /\ y[q] # None => /\ u[q] # None
                             /\ u[q].known = y[q].known
                             /\ u[q].deleted = y[q].deleted
                             /\ u[q].shadowed = y[q].shadowed
                             /\ u[q].by = None
  BY <1>4, UnpointedRows
<1> HIDE DEF u
<1>6. /\ z \in Rows
      /\ \A q \in Obs :
           /\ u[q] = None => z[q] = None
           /\ u[q] # None => /\ z[q] # None
                             /\ z[q].known = u[q].known
                             /\ z[q].deleted = u[q].deleted
                             /\ z[q].shadowed = u[q].shadowed
                             /\ z[q].by = IF by[q] # None THEN by[q] ELSE u[q].by
  BY <1>2, <1>5, PointedRows DEF Rebuilt, x, y, u
<1> HIDE DEF z
<1>7. Live(z) \subseteq Live(y)
  BY <1>5, <1>6 DEF Live, Present
<1>8. Live(y) \subseteq RebuiltFts(row, fts, S, T)
  <2>1. SUFFICES ASSUME NEW q \in Live(y)
                 PROVE  q \in ((fts \cup Changed(row, S)) \ ToMark(row, S, T)) \ Stale(row, S)
    BY DEF RebuiltFts, x, y
  <2>2. /\ q \in Obs /\ x[q] # None /\ ~x[q].deleted /\ ~x[q].shadowed
        /\ q \notin Stale(row, S)
    BY <1>4, <2>1 DEF Live, Present
  <2>3. q \notin ToMark(row, S, T)
    BY <1>3, <2>2 DEF ToMark
  <2>4. q \in fts \/ q \in Changed(row, S)
    BY <1>3, <2>2 DEF Sound, Live, Present, Changed
  <2> QED
    BY <2>2, <2>3, <2>4
<1>9. RebuiltFts(row, fts, S, T) \subseteq Obs
  BY DEF RebuiltFts, Changed, Sound, Live, Present
<1>10. \A q \in Present(z) : ~z[q].known => z[q].deleted
  BY <1>3, <1>4, <1>5, <1>6 DEF Sound, Present
<1>11. ASSUME NEW q \in Present(z), z[q].by # None
       PROVE  z[q].by \in Present(z) /\ q \in Supersedes[z[q].by]
  <2>1. q \in Obs /\ z[q].by = by[q] /\ by[q] # None
    BY <1>5, <1>6, <1>11 DEF Present
  <2>2. by[q] \in S /\ by[q] \in Obs /\ q \in Supersedes[by[q]]
    BY <1>2, <2>1
  <2> QED
    BY <1>3, <1>4, <1>5, <1>6, <2>1, <2>2 DEF Present
<1>12. ASSUME NEW q \in Obs
       PROVE  Grows(row[q], z[q])
  <2>1. q \in Stale(row, S) => row[q] # None
    BY DEF Stale, Live, Present
  <2> QED
    BY <1>3, <1>4, <1>5, <1>6, <2>1 DEF Grows
<1> QED
  BY <1>6, <1>7, <1>8, <1>9, <1>10, <1>11, <1>12 DEF Sound, z

-----------------------------------------------------------------------------
(***************************************************************************)
(* ORDER BY and LIMIT.                                                     *)
(***************************************************************************)

\* R is a strict total order of S: no two elements of S share a place.
TotallyOrders(R, S) ==
  /\ \A o \in S : <<o, o>> \notin R
  /\ \A o, q, r \in S : <<o, q>> \in R /\ <<q, r>> \in R => <<o, r>> \in R
  /\ \A o, q \in S : o # q => <<o, q>> \in R \/ <<q, o>> \in R

Before(S, R, o) == {q \in S : <<q, o>> \in R}

\* Less comes before what comes before o.
LEMMA BeforeShrinks ==
  ASSUME NEW S, IsFiniteSet(S), NEW R, TotallyOrders(R, S), NEW o \in S, NEW q \in S, <<q, o>> \in R
  PROVE  /\ IsFiniteSet(Before(S, R, o)) /\ IsFiniteSet(Before(S, R, q))
         /\ Before(S, R, q) \in SUBSET Before(S, R, o) /\ Before(S, R, q) # Before(S, R, o)
         /\ Cardinality(Before(S, R, q)) \in Nat /\ Cardinality(Before(S, R, o)) \in Nat
         /\ Cardinality(Before(S, R, q)) < Cardinality(Before(S, R, o))
<1>1. Before(S, R, o) \in SUBSET S /\ Before(S, R, q) \in SUBSET S
  BY DEF Before
<1>2. IsFiniteSet(Before(S, R, o)) /\ IsFiniteSet(Before(S, R, q))
  BY <1>1, FS_Subset
<1>3. /\ Before(S, R, q) \in SUBSET Before(S, R, o)
      /\ q \in Before(S, R, o) /\ q \notin Before(S, R, q)
  BY DEF Before, TotallyOrders
<1>4. /\ Cardinality(Before(S, R, q)) <= Cardinality(Before(S, R, o))
      /\ Cardinality(Before(S, R, q)) # Cardinality(Before(S, R, o))
  BY <1>2, <1>3, FS_Subset
<1>5. Cardinality(Before(S, R, q)) \in Nat /\ Cardinality(Before(S, R, o)) \in Nat
  BY <1>2, FS_CardinalityType
<1> QED
  BY <1>2, <1>3, <1>4, <1>5

\* The place of an element, counted from one, is a number up to the size of S.
LEMMA Places ==
  ASSUME NEW S, IsFiniteSet(S), NEW R, TotallyOrders(R, S), NEW o \in S
  PROVE  /\ IsFiniteSet(Before(S, R, o))
         /\ Cardinality(Before(S, R, o)) \in Nat
         /\ Cardinality(S) \in Nat
         /\ Cardinality(Before(S, R, o)) + 1 \in 1..Cardinality(S)
<1>1. Before(S, R, o) \in SUBSET S /\ Before(S, R, o) # S
  BY DEF Before, TotallyOrders
<1>2. /\ IsFiniteSet(Before(S, R, o))
      /\ Cardinality(Before(S, R, o)) <= Cardinality(S)
      /\ Cardinality(Before(S, R, o)) # Cardinality(S)
  BY <1>1, FS_Subset
<1>3. Cardinality(Before(S, R, o)) \in Nat /\ Cardinality(S) \in Nat
  BY <1>2, FS_CardinalityType
<1> QED
  BY <1>2, <1>3

\* A limit leaves something out only once the result is full, and what it
\* leaves out comes after all of the result.
LEMMA TopFacts ==
  ASSUME NEW S, IsFiniteSet(S), NEW R, TotallyOrders(R, S), NEW n \in Nat
  PROVE  /\ Top(S, R, n) \subseteq S /\ IsFiniteSet(Top(S, R, n))
         /\ Cardinality(Top(S, R, n)) \in Nat /\ Cardinality(Top(S, R, n)) <= n
         /\ \A o \in S \ Top(S, R, n) : /\ Cardinality(Top(S, R, n)) = n
                                        /\ \A q \in Top(S, R, n) : <<q, o>> \in R
<1> DEFINE N == Top(S, R, n)
           place == [o \in N |-> Cardinality(Before(S, R, o))]
<1>1. N \subseteq S /\ IsFiniteSet(N)
  BY FS_Subset DEF Top
<1>2. Cardinality(N) \in Nat
  BY <1>1, FS_CardinalityType
<1>3. \A o \in S : o \in N <=> Cardinality(Before(S, R, o)) < n
  BY DEF Top, Before
<1> HIDE DEF N
<1>4. \A o \in S : IsFiniteSet(Before(S, R, o)) /\ Cardinality(Before(S, R, o)) \in Nat
  BY Places
<1>5. Cardinality(N) <= n
  <2>1. place \in [N -> 0..(n - 1)]
    <3> SUFFICES ASSUME NEW o \in N PROVE Cardinality(Before(S, R, o)) \in 0..(n - 1)
      OBVIOUS
    <3>1. Cardinality(Before(S, R, o)) \in Nat /\ Cardinality(Before(S, R, o)) < n
      BY <1>1, <1>3, <1>4
    <3> QED
      BY <3>1
  <2>2. \A o, q \in N : place[o] = place[q] => o = q
    <3> SUFFICES ASSUME NEW o \in N, NEW q \in N, o # q
                 PROVE  Cardinality(Before(S, R, o)) # Cardinality(Before(S, R, q))
      OBVIOUS
    <3>1. o \in S /\ q \in S /\ (<<o, q>> \in R \/ <<q, o>> \in R)
      BY <1>1 DEF TotallyOrders
    <3>2. \/ Cardinality(Before(S, R, o)) < Cardinality(Before(S, R, q))
          \/ Cardinality(Before(S, R, q)) < Cardinality(Before(S, R, o))
      BY <3>1, BeforeShrinks
    <3> QED
      BY <1>4, <3>1, <3>2
  <2>3. place \in Injection(N, 0..(n - 1))
    BY <2>1, <2>2 DEF Injection, IsInjective
  <2>4. IsFiniteSet(0..(n - 1)) /\ Cardinality(0..(n - 1)) = n
    BY FS_Interval
  <2> QED
    BY <2>3, <2>4, FS_Injection
<1>6. ASSUME NEW b \in S \ N
      PROVE  n <= Cardinality(N)
  <2> DEFINE T == {Before(S, R, o) : o \in S \ N}
  <2>1. T \subseteq FiniteSubsetsOf(S) /\ T # {}
    <3>1. Before(S, R, b) \in T
      OBVIOUS
    <3>2. \A o \in S \ N : Before(S, R, o) \in FiniteSubsetsOf(S)
      BY <1>4 DEF FiniteSubsetsOf, Before
    <3> QED
      BY <3>1, <3>2
  <2>2. \E x \in T : \A y \in T : ~(<<y, x>> \in StrictSubsetOrdering(S))
    <3> HIDE DEF T
    <3> QED
      BY <2>1, WFMin, FS_StrictSubsetOrderingWellFounded
  <2>3. PICK m \in S \ N :
          \A o \in S \ N : ~(<<Before(S, R, o), Before(S, R, m)>> \in StrictSubsetOrdering(S))
    BY <2>2
  <2>4. ASSUME NEW q \in Before(S, R, m) PROVE q \in N
    <3>1. q \in S /\ <<q, m>> \in R
      BY DEF Before
    <3>2. Before(S, R, q) \in SUBSET Before(S, R, m) /\ Before(S, R, q) # Before(S, R, m)
      BY <3>1, BeforeShrinks
    <3>3. Before(S, R, q) \in SUBSET S /\ Before(S, R, m) \in SUBSET S
      BY DEF Before
    <3>4. <<Before(S, R, q), Before(S, R, m)>> \in StrictSubsetOrdering(S)
      BY <3>2, <3>3 DEF StrictSubsetOrdering
    <3> QED
      BY <2>3, <3>1, <3>4
  <2>5. Cardinality(Before(S, R, m)) <= Cardinality(N)
    BY <1>1, <2>4, FS_Subset
  <2>6. Cardinality(Before(S, R, m)) \in Nat /\ ~(Cardinality(Before(S, R, m)) < n)
    BY <1>3, <1>4
  <2> QED
    BY <1>2, <2>5, <2>6
<1>7. ASSUME NEW o \in S \ N, NEW q \in N PROVE <<q, o>> \in R
  <2>1. q \in S /\ q # o
    BY <1>1
  <2>2. CASE <<o, q>> \in R
    <3>1. Cardinality(Before(S, R, o)) < Cardinality(Before(S, R, q))
      BY <2>1, <2>2, BeforeShrinks
    <3>2. Cardinality(Before(S, R, q)) < n /\ ~(Cardinality(Before(S, R, o)) < n)
      BY <1>3, <2>1
    <3> QED
      BY <1>4, <2>1, <3>1, <3>2
  <2> QED
    BY <2>1, <2>2 DEF TotallyOrders
<1>8. ASSUME NEW o \in S \ N PROVE Cardinality(N) = n
  BY <1>2, <1>5, <1>6
<1> QED
  BY <1>1, <1>2, <1>5, <1>7, <1>8 DEF N

\* A result lists every element once, in the order asked for.
LEMMA ListedFacts ==
  ASSUME NEW S, IsFiniteSet(S), NEW R, TotallyOrders(R, S)
  PROVE  /\ Cardinality(S) \in Nat
         /\ Listed(S, R) \in [1..Cardinality(S) -> S]
         /\ \A i, j \in 1..Cardinality(S) : i < j => <<Listed(S, R)[i], Listed(S, R)[j]>> \in R
         /\ \A i, j \in 1..Cardinality(S) : Listed(S, R)[i] = Listed(S, R)[j] => i = j
         /\ \A o \in S : \E i \in 1..Cardinality(S) : Listed(S, R)[i] = o
<1> DEFINE n == Cardinality(S)
           place == [o \in S |-> Cardinality(Before(S, R, o)) + 1]
           listing == [i \in 1..n |-> CHOOSE o \in S : place[o] = i]
           sorted(s) == \A i, j \in DOMAIN s : i < j => <<s[i], s[j]>> \in R
<1>1. n \in Nat
  BY FS_CardinalityType
<1>2. IsFiniteSet(1..n) /\ Cardinality(1..n) = n
  BY <1>1, FS_Interval
<1>3. place \in [S -> 1..n]
  BY Places
<1>4. ASSUME NEW o \in S, NEW q \in S, <<o, q>> \in R
      PROVE  place[o] < place[q]
  BY <1>4, BeforeShrinks, Places
<1> HIDE DEF n, place
<1>5. \A o, q \in S : place[o] = place[q] => o = q
  <2> SUFFICES ASSUME NEW o \in S, NEW q \in S, o # q PROVE place[o] # place[q]
    OBVIOUS
  <2>1. place[o] \in Nat /\ place[q] \in Nat
    BY <1>1, <1>3
  <2>2. <<o, q>> \in R \/ <<q, o>> \in R
    BY DEF TotallyOrders
  <2>3. place[o] < place[q] \/ place[q] < place[o]
    BY <1>4, <2>2
  <2> QED
    BY <2>1, <2>3
<1>6. place \in Injection(S, 1..n)
  BY <1>3, <1>5 DEF Injection, IsInjective
<1>7. place \in Surjection(S, 1..n)
  BY <1>2, <1>6, FS_Injection DEF n
<1>8. \A i \in 1..n : \E o \in S : place[o] = i
  BY <1>7 DEF Surjection
<1>9. listing \in [1..n -> S] /\ \A i \in 1..n : place[listing[i]] = i
  BY <1>8
<1> HIDE DEF listing
<1>10. sorted(listing)
  <2> SUFFICES ASSUME NEW i \in 1..n, NEW j \in 1..n, i < j
               PROVE  <<listing[i], listing[j]>> \in R
    BY <1>9
  <2>1. /\ listing[i] \in S /\ listing[j] \in S
        /\ place[listing[i]] = i /\ place[listing[j]] = j
    BY <1>9
  <2>2. listing[i] # listing[j]
    BY <1>1, <2>1
  <2>3. ~(<<listing[j], listing[i]>> \in R)
    <3> SUFFICES ASSUME <<listing[j], listing[i]>> \in R PROVE FALSE
      OBVIOUS
    <3>1. place[listing[j]] < place[listing[i]]
      BY <1>4, <2>1
    <3> QED
      BY <1>1, <2>1, <3>1
  <2> QED
    BY <2>1, <2>2, <2>3 DEF TotallyOrders
<1>11. Listed(S, R) \in [1..n -> S] /\ sorted(Listed(S, R))
  BY <1>9, <1>10 DEF Listed, n
<1>12. \A i, j \in 1..n : i < j => <<Listed(S, R)[i], Listed(S, R)[j]>> \in R
  BY <1>11
<1>13. \A i, j \in 1..n : Listed(S, R)[i] = Listed(S, R)[j] => i = j
  <2> SUFFICES ASSUME NEW i \in 1..n, NEW j \in 1..n, i < j, Listed(S, R)[i] = Listed(S, R)[j]
               PROVE  FALSE
    BY <1>1
  <2> QED
    BY <1>11, <1>12 DEF TotallyOrders
<1>14. Listed(S, R) \in Injection(1..n, S)
  BY <1>11, <1>13 DEF Injection, IsInjective
<1>15. Listed(S, R) \in Surjection(1..n, S)
  BY <1>2, <1>14, FS_Injection DEF n
<1>16. \A o \in S : \E i \in 1..n : Listed(S, R)[i] = o
  BY <1>15 DEF Surjection
<1> QED
  BY <1>1, <1>11, <1>12, <1>13, <1>16 DEF n
=============================================================================
