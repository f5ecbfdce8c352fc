---------------------------- MODULE Saves_proofs -----------------------------
(***************************************************************************)
(* Proofs about a save: the pending queue never loses one unaccounted for, *)
(* whatever the keys, processes, limits and faults; and of two saves that  *)
(* could supersede one another at least one is told, for any interleaving  *)
(* of the savers.                                                          *)
(***************************************************************************)
EXTENDS PendingQueue, SupersedeHint, IndexTable_proofs

(***************************************************************************)
(* The table.                                                              *)
(***************************************************************************)
Distinct(q) == \A i, j \in 1..Len(q) : q[i] = q[j] => i = j

\* Deleting a key removes its row and keeps every other.
LEMMA WithoutFacts ==
  ASSUME NEW q \in Seq(Key), NEW k, Distinct(q)
  PROVE  /\ Without(q, k) \in Seq(Key)
         /\ Len(Without(q, k)) <= Len(q)
         /\ Distinct(Without(q, k))
         /\ k \notin ToSet(Without(q, k))
         /\ ToSet(q) \subseteq ToSet(Without(q, k)) \cup {k}
<1> DEFINE w == Without(q, k)
<1>1. CASE \E i \in 1..Len(q) : q[i] = k
  <2> DEFINE c == CHOOSE i \in 1..Len(q) : q[i] = k
  <2>1. c \in 1..Len(q) /\ q[c] = k
    BY <1>1
  <2> HIDE DEF c
  <2>2. w = SubSeq(q, 1, c - 1) \o SubSeq(q, c + 1, Len(q))
    BY <1>1 DEF Without, RemoveAt, c
  <2> DEFINE x == SubSeq(q, 1, c - 1)
             y == SubSeq(q, c + 1, Len(q))
  <2>3. x \in Seq(Key) /\ Len(x) = c - 1 /\ \A i \in 1..c - 1 : x[i] = q[i]
    BY <2>1
  <2>4. y \in Seq(Key) /\ Len(y) = Len(q) - c
    BY <2>1
  <2>5. \A i \in 1..Len(q) - c : y[i] = q[c + i]
    BY <2>1
  <2>6. w = x \o y
    BY <2>2
  <2> HIDE DEF w, x, y
  <2>7. w \in Seq(Key) /\ Len(w) = Len(q) - 1
    BY <2>1, <2>3, <2>4, <2>6
  <2>8. \A i \in 1..Len(w) : w[i] = IF i < c THEN q[i] ELSE q[i + 1]
    <3> SUFFICES ASSUME NEW i \in 1..Len(w)
                 PROVE  w[i] = IF i < c THEN q[i] ELSE q[i + 1]
      OBVIOUS
    <3>1. CASE i < c
      <4>1. i \in 1..Len(x) /\ w[i] = x[i]
        BY <3>1, <2>1, <2>3, <2>4, <2>6
      <4> QED BY <3>1, <4>1, <2>3
    <3>2. CASE i >= c
      <4>1. i - (c - 1) \in 1..Len(y) /\ w[i] = y[i - (c - 1)]
        BY <3>2, <2>1, <2>3, <2>4, <2>6, <2>7
      <4>2. y[i - (c - 1)] = q[c + (i - (c - 1))] /\ c + (i - (c - 1)) = i + 1
        BY <4>1, <2>1, <2>4, <2>5
      <4> QED BY <3>2, <4>1, <4>2, <2>1
    <3> QED BY <3>1, <3>2, <2>1
  <2>9. Distinct(w)
    BY <2>1, <2>7, <2>8 DEF Distinct
  <2>10. k \notin ToSet(w)
    BY <2>1, <2>7, <2>8 DEF Distinct, ToSet
  <2>11. \A i \in 1..Len(q) : q[i] \in ToSet(w) \cup {k}
    <3> SUFFICES ASSUME NEW i \in 1..Len(q), i # c
                 PROVE  q[i] \in ToSet(w)
      BY <2>1
    <3>1. CASE i < c
      BY <3>1, <2>1, <2>7, <2>8 DEF ToSet
    <3>2. CASE i > c
      <4>1. i - 1 \in 1..Len(w) /\ w[i - 1] = q[i]
        BY <3>2, <2>1, <2>7, <2>8
      <4> QED BY <4>1, <2>7 DEF ToSet
    <3> QED BY <3>1, <3>2, <2>1
  <2> QED BY <2>7, <2>9, <2>10, <2>11 DEF ToSet, w
<1>2. CASE ~\E i \in 1..Len(q) : q[i] = k
  BY <1>2 DEF Without, ToSet
<1> QED BY <1>1, <1>2

\* Trimming keeps the newest rows, and the last of them in any case.
LEMMA TrimmedFacts ==
  ASSUME NEW q \in Seq(Key), Distinct(q), q # <<>>
  PROVE  /\ Trimmed(q) \in Seq(Key)
         /\ Len(Trimmed(q)) <= Limit
         /\ Distinct(Trimmed(q))
         /\ q[Len(q)] \in ToSet(Trimmed(q))
<1>1. Limit \in Nat \ {0}
  BY PendingQueueAssumption
<1>2. CASE Len(q) <= Limit
  BY <1>1, <1>2 DEF Trimmed, ToSet
<1>3. CASE Len(q) > Limit
  <2> DEFINE t == SubSeq(q, Len(q) - Limit + 1, Len(q))
  <2>1. t \in Seq(Key) /\ Len(t) = Limit
    BY <1>1, <1>3
  <2>2. \A i \in 1..Limit : t[i] = q[Len(q) - Limit + i]
    BY <1>1, <1>3
  <2> HIDE DEF t
  <2>3. Distinct(t)
    BY <1>1, <1>3, <2>1, <2>2 DEF Distinct
  <2>4. q[Len(q)] \in ToSet(t)
    BY <1>1, <2>1, <2>2 DEF ToSet
  <2> QED BY <1>1, <1>3, <2>1, <2>3, <2>4 DEF Trimmed, t
<1> QED BY <1>1, <1>2, <1>3

\* An enqueue keeps the rows distinct and within the limit, the new one among them.
LEMMA EnqueuedFacts ==
  ASSUME NEW q \in Seq(Key), Distinct(q), NEW k \in Key
  PROVE  /\ Enqueued(q, k) \in Seq(Key)
         /\ Len(Enqueued(q, k)) <= Limit
         /\ Distinct(Enqueued(q, k))
         /\ k \in ToSet(Enqueued(q, k))
<1> DEFINE w == Without(q, k)
           a == Append(w, k)
<1>1. w \in Seq(Key) /\ Distinct(w) /\ k \notin ToSet(w)
  BY WithoutFacts
<1> HIDE DEF w
<1>2. a \in Seq(Key) /\ Len(a) = Len(w) + 1 /\ a # <<>> /\ a[Len(a)] = k
  BY <1>1
<1>3. Distinct(a)
  <2>1. \A i \in 1..Len(w) : a[i] = w[i] /\ w[i] # k
    BY <1>1 DEF ToSet
  <2> QED BY <1>1, <1>2, <2>1 DEF Distinct
<1> HIDE DEF a
<1> QED BY <1>2, <1>3, TrimmedFacts DEF Enqueued, a, w

\* What a drain reads is a sequence of keys.
LEMMA FirstRowsFacts ==
  ASSUME queue \in Seq(Key)
  PROVE  FirstRows \in Seq(Key)
BY PendingQueueAssumption DEF FirstRows

(***************************************************************************)
(* The inductive invariant.                                                *)
(***************************************************************************)
\* A save past its put, and a drain past the put of its row, have put.
PastPut ==
  /\ \A p \in Process : save[p] # None =>
       (save[p].step \in {"clear", "index", "drain", "tail"} => save[p].key \in mesh)
  /\ \A p \in Process : drain[p] # None =>
       /\ drain[p].step # "next" => drain[p].rows # <<>>
       /\ drain[p].step \in {"index", "clear"} => PutRow(p) \in mesh

IInv == TypeOK /\ PastPut /\ StoredMeansMesh /\ QueuedIsKept /\ IndexFollowsMesh

Saves == [Process -> Saving \cup {None}]
Drains == [Process -> Draining \cup {None}]
Answers == {"nothing", "stored", "failed", "refused"}

\* The types, one conjunct per component that steps change.
QueueOK == queue \in Seq(Key) /\ Len(queue) <= Limit /\ Distinct(queue)

SmallOK ==
  /\ up \in BOOLEAN /\ blocked \subseteq Scoped
  /\ mesh \subseteq Key /\ indexed \subseteq Key
  /\ owed \subseteq Key /\ lost \subseteq Key
  /\ faults \in 0..MaxFaults

\* The type invariant by its parts.
LEMMA TypeParts ==
  TypeOK <=> /\ QueueOK /\ SmallOK
             /\ cached \in [Process -> BOOLEAN]
             /\ save \in Saves /\ drain \in Drains /\ told \in [Key -> Answers]
BY DEF TypeOK, QueueOK, SmallOK, Saves, Drains, Answers, NoRowTwice, Distinct

\* The parts in the next state make the type invariant there.
LEMMA TypePartsNext ==
  ASSUME QueueOK', SmallOK', (cached \in [Process -> BOOLEAN])',
         (save \in Saves)', (drain \in Drains)', (told \in [Key -> Answers])'
  PROVE  TypeOK'
BY DEF TypeOK, QueueOK, SmallOK, Saves, Drains, Answers, NoRowTwice, Distinct

\* A fault stays within the bound on faults.
LEMMA FaultType ==
  ASSUME SmallOK, Fault
  PROVE  faults' \in 0..MaxFaults
BY PendingQueueAssumption DEF SmallOK, Fault

\* Moving a save on, or ending it, keeps the type of the saves.
LEMMA GoToType ==
  ASSUME save \in Saves, NEW p \in Process, save[p] # None,
         NEW step \in {"preflight", "put", "clear", "index", "drain", "tail"},
         GoTo(p, step)
  PROVE  save' \in Saves
BY DEF Saves, Saving, GoTo

\* Answering a caller ends its save.
LEMMA AnswerType ==
  ASSUME save \in Saves, told \in [Key -> Answers], NEW p \in Process, save[p] # None,
         NEW answer \in Answers, Answer(p, answer)
  PROVE  save' \in Saves /\ told' \in [Key -> Answers]
BY DEF Saves, Answer

\* A failed attempt is repeated once or ends the save.
LEMMA RetryOrFailType ==
  ASSUME save \in Saves, told \in [Key -> Answers], NEW p \in Process, save[p] # None,
         RetryOrFail(p)
  PROVE  save' \in Saves /\ told' \in [Key -> Answers]
<1>1. CASE save[p].attempt = 2 /\ Answer(p, "failed")
  BY <1>1, AnswerType DEF Answers
<1>2. CASE save' = [save EXCEPT ![p].attempt = 2, ![p].step = "preflight"] /\ UNCHANGED told
  BY <1>2 DEF Saves, Saving
<1> QED BY <1>1, <1>2 DEF RetryOrFail

\* A session reset leaves the drains of the process without a session.
LEMMA ResetType ==
  ASSUME cached \in [Process -> BOOLEAN], drain \in Drains, NEW p \in Process, ResetSession(p)
  PROVE  cached' \in [Process -> BOOLEAN] /\ drain' \in Drains
<1>1. cached' \in [Process -> BOOLEAN]
  BY DEF ResetSession
<1>2. drain' \in Drains
  BY DEF ResetSession, Drains, Draining
<1> QED BY <1>1, <1>2

\* Taking the single-flight lock starts a drain of the right type.
LEMMA AcquireType ==
  ASSUME TypeOK, NEW p \in Process, NEW bySave \in BOOLEAN, Acquire(p, bySave)
  PROVE  cached' \in [Process -> BOOLEAN] /\ drain' \in Drains
<1>1. cached' \in [Process -> BOOLEAN]
  BY DEF Acquire, TypeOK
<1>2. FirstRows \in Seq(Key)
  BY FirstRowsFacts DEF TypeOK
<1>3. [rows |-> FirstRows, step |-> "next", open |-> TRUE, bySave |-> bySave] \in Draining
  BY <1>2 DEF Draining
<1>4. drain \in Drains
  BY TypeParts
<1> QED BY <1>1, <1>3, <1>4 DEF Acquire, Drains

\* A drain that moves to its next row keeps its type.
LEMMA NextRowType ==
  ASSUME drain \in Drains, NEW p \in Process, drain[p] # None, drain[p].rows # <<>>, NextRow(p)
  PROVE  drain' \in Drains
<1>1. drain[p] \in Draining
  BY DEF Drains
<1>2. Tail(drain[p].rows) \in Seq(Key)
  BY <1>1 DEF Draining
<1> QED BY <1>1, <1>2 DEF NextRow, Drains, Draining

\* Rows that leave the queue in Without and Enqueue are accounted for.
LEMMA WithoutType ==
  ASSUME QueueOK, NEW k, queue' = Without(queue, k)
  PROVE  QueueOK' /\ PutRows \subseteq PutRows' \cup {k}
BY WithoutFacts, PendingQueueAssumption DEF QueueOK, PutRows

\* An enqueue queues the key and drops a row only into the rows given up.
LEMMA EnqueueType ==
  ASSUME QueueOK, SmallOK, NEW k \in Key, Enqueue(k)
  PROVE  /\ QueueOK' /\ owed' \subseteq Key /\ lost' \subseteq Key
         /\ k \in PutRows' /\ PutRows \cup lost \subseteq PutRows' \cup lost'
<1>1. QueueOK' /\ k \in PutRows'
  BY EnqueuedFacts DEF QueueOK, Enqueue, PutRows
<1>2. PutRows \subseteq Key
  BY DEF QueueOK, PutRows, ToSet
<1> QED BY <1>1, <1>2 DEF Enqueue, SmallOK, PutRows

\* Any queue an earlier session left satisfies the invariant.
LEMMA InitInvariant == Init => IInv
<1> SUFFICES ASSUME Init PROVE IInv
  OBVIOUS
<1>1. QueueOK
  <2> PICK n \in 0..Limit : queue \in [1..n -> Key]
    BY DEF Init
  <2>1. queue \in Seq(Key) /\ Len(queue) = n
    BY PendingQueueAssumption
  <2> QED BY <2>1, PendingQueueAssumption DEF Init, QueueOK, NoRowTwice, Distinct
<1>2. SmallOK
  BY <1>1, PendingQueueAssumption DEF Init, SmallOK, QueueOK, PutRows, ToSet
<1>3. TypeOK
  BY <1>1, <1>2, TypeParts DEF Init, Saves, Drains, Answers
<1>4. PastPut /\ StoredMeansMesh /\ QueuedIsKept /\ IndexFollowsMesh
  BY DEF Init, PastPut, StoredMeansMesh, QueuedIsKept, IndexFollowsMesh
<1> QED BY <1>3, <1>4 DEF IInv

(***************************************************************************)
(* Every step keeps the types.                                             *)
(***************************************************************************)
LEMMA SaveKeepsTypes ==
  ASSUME TypeOK, NEW p \in Process, SaveStep(p)
  PROVE  TypeOK'
<1> USE DEF env, store, queueing
<1>0. /\ QueueOK /\ SmallOK /\ cached \in [Process -> BOOLEAN]
      /\ save \in Saves /\ drain \in Drains /\ told \in [Key -> Answers]
  BY TypeParts
<1>k. save[p] # None => save[p].key \in Key
  BY <1>0 DEF Saves, Saving
<1>1. CASE Preflight(p)
  <2>1. save[p] # None
    BY <1>1 DEF Preflight, At
  <2>2. save' \in Saves /\ told' \in [Key -> Answers]
    BY <1>0, <1>1, <2>1, GoToType, AnswerType DEF Preflight, Answers
  <2>3. cached' \in [Process -> BOOLEAN]
    BY <1>0, <1>1 DEF Preflight, SmallOK
  <2> QED BY <1>0, <1>1, <2>2, <2>3, TypePartsNext DEF Preflight, QueueOK, SmallOK
<1>2. CASE SavePuts(p)
  <2>1. save' \in Saves
    BY <1>0, <1>2, GoToType DEF SavePuts, At
  <2>2. cached' \in [Process -> BOOLEAN] /\ mesh' \subseteq Key
    BY <1>0, <1>2, <1>k DEF SavePuts, At, SmallOK
  <2> QED BY <1>0, <1>2, <2>1, <2>2, TypePartsNext DEF SavePuts, QueueOK, SmallOK
<1>3. CASE SavePutFails(p)
  <2>1. save[p] # None /\ save' \in Saves /\ told' \in [Key -> Answers]
    BY <1>0, <1>3, RetryOrFailType DEF SavePutFails, At
  <2>2. cached' \in [Process -> BOOLEAN] /\ drain' \in Drains
    BY <1>0, <1>3, ResetType DEF SavePutFails
  <2>3. QueueOK' /\ owed' \subseteq Key /\ lost' \subseteq Key
    BY <1>0, <1>3, <1>k, <2>1, EnqueueType DEF SavePutFails
  <2>4. faults' \in 0..MaxFaults
    BY <1>0, <1>3, FaultType DEF SavePutFails, SmallOK
  <2>5. mesh' \subseteq Key
    BY <1>0, <1>3, <1>k, <2>1 DEF SavePutFails, SmallOK
  <2> QED BY <1>0, <1>3, <2>1, <2>2, <2>3, <2>4, <2>5, TypePartsNext DEF SavePutFails, SmallOK
<1>4. CASE SavePutForgotten(p)
  <2>1. save' \in Saves /\ told' \in [Key -> Answers]
    BY <1>0, <1>4, RetryOrFailType DEF SavePutForgotten, At
  <2>2. cached' \in [Process -> BOOLEAN] /\ drain' \in Drains
    BY <1>0, <1>4, ResetType DEF SavePutForgotten
  <2>3. faults' \in 0..MaxFaults
    BY <1>0, <1>4, FaultType DEF SavePutForgotten
  <2> QED BY <1>0, <1>4, <2>1, <2>2, <2>3, TypePartsNext DEF SavePutForgotten, QueueOK, SmallOK
<1>5. CASE SaveClears(p)
  <2>1. save' \in Saves
    BY <1>0, <1>5, GoToType DEF SaveClears, At
  <2>2. QueueOK'
    BY <1>0, <1>5, WithoutType DEF SaveClears, QueueOK
  <2>3. faults' \in 0..MaxFaults
    BY <1>0, <1>5, FaultType DEF SaveClears, SmallOK
  <2> QED BY <1>0, <1>5, <2>1, <2>2, <2>3, TypePartsNext DEF SaveClears, SmallOK
<1>6. CASE SaveIndexes(p)
  <2>1. save' \in Saves
    BY <1>0, <1>6, GoToType DEF SaveIndexes, At
  <2>2. indexed' \subseteq Key
    BY <1>0, <1>6, <1>k DEF SaveIndexes, At, SmallOK
  <2>3. faults' \in 0..MaxFaults
    BY <1>0, <1>6, FaultType DEF SaveIndexes, SmallOK
  <2> QED BY <1>0, <1>6, <2>1, <2>2, <2>3, TypePartsNext DEF SaveIndexes, QueueOK, SmallOK
<1>7. CASE SaveDrains(p)
  <2>1. save[p] # None
    BY <1>7 DEF SaveDrains, At
  <2>2. save' \in Saves /\ told' \in [Key -> Answers]
    BY <1>0, <1>7, <2>1, GoToType, AnswerType DEF SaveDrains, Answers
  <2>3. cached' \in [Process -> BOOLEAN] /\ drain' \in Drains
    BY <1>0, <1>7, AcquireType DEF SaveDrains
  <2>4. faults' \in 0..MaxFaults
    BY <1>0, <1>7, FaultType DEF SaveDrains, SmallOK
  <2> QED BY <1>0, <1>7, <2>2, <2>3, <2>4, TypePartsNext DEF SaveDrains, QueueOK, SmallOK
<1>8. CASE SaveDrainRaises(p)
  <2>1. save' \in Saves /\ told' \in [Key -> Answers]
    BY <1>0, <1>8, RetryOrFailType DEF SaveDrainRaises, At
  <2> QED BY <1>0, <1>8, <2>1, TypePartsNext DEF SaveDrainRaises, QueueOK, SmallOK
<1>9. CASE SaveReturns(p)
  <2>1. save' \in Saves /\ told' \in [Key -> Answers]
    BY <1>0, <1>9, AnswerType DEF SaveReturns, At, Answers
  <2> QED BY <1>0, <1>9, <2>1, TypePartsNext DEF SaveReturns, QueueOK, SmallOK
<1> QED BY <1>1, <1>2, <1>3, <1>4, <1>5, <1>6, <1>7, <1>8, <1>9 DEF SaveStep

LEMMA DrainKeepsTypes ==
  ASSUME TypeOK, PastPut, NEW p \in Process, DrainStep(p)
  PROVE  TypeOK'
<1> USE DEF env, store, queueing
<1>0. /\ QueueOK /\ SmallOK /\ cached \in [Process -> BOOLEAN]
      /\ save \in Saves /\ drain \in Drains /\ told \in [Key -> Answers]
  BY TypeParts
<1>k. drain[p] # None /\ drain[p].rows # <<>> => drain[p] \in Draining /\ PutRow(p) \in Key
  BY <1>0 DEF Drains, Draining, PutRow
<1>1. CASE DrainPreflight(p)
  <2>1. drain[p] # None /\ drain[p].rows # <<>>
    BY <1>1 DEF DrainPreflight, DrainAt
  <2>2. drain' \in Drains
    <3>1. CASE NextRow(p)
      BY <1>0, <2>1, <3>1, NextRowType
    <3>2. CASE drain' = [drain EXCEPT ![p].step = "put"]
      BY <1>0, <2>1, <3>2 DEF Drains, Draining
    <3> QED BY <1>1, <3>1, <3>2 DEF DrainPreflight
  <2> QED BY <1>0, <1>1, <2>2, TypePartsNext DEF DrainPreflight, QueueOK, SmallOK
<1>2. CASE DrainDrops(p)
  <2>1. drain[p] # None /\ drain[p].rows # <<>>
    BY <1>2 DEF DrainDrops, DrainAt
  <2>2. drain' \in Drains
    BY <1>0, <1>2, <2>1, NextRowType DEF DrainDrops
  <2>3. QueueOK' /\ lost' \subseteq Key
    BY <1>0, <1>2, <1>k, <2>1, WithoutType DEF DrainDrops, SmallOK
  <2>4. faults' \in 0..MaxFaults
    BY <1>0, <1>2, FaultType DEF DrainDrops
  <2> QED BY <1>0, <1>2, <2>2, <2>3, <2>4, TypePartsNext DEF DrainDrops, SmallOK
<1>3. CASE DrainPuts(p)
  <2>1. drain[p] # None /\ drain[p].rows # <<>>
    BY <1>3 DEF DrainPuts, DrainAt, PastPut
  <2>2. drain' \in Drains
    BY <1>0, <1>3, <2>1 DEF DrainPuts, Drains, Draining
  <2>3. mesh' \subseteq Key
    BY <1>0, <1>3, <1>k, <2>1 DEF DrainPuts, SmallOK
  <2> QED BY <1>0, <1>3, <2>2, <2>3, TypePartsNext DEF DrainPuts, QueueOK, SmallOK
<1>4. CASE DrainPutFails(p)
  <2>1. drain[p] # None /\ drain[p].rows # <<>>
    BY <1>4 DEF DrainPutFails, DrainAt, PastPut
  <2>2. drain' \in Drains /\ cached' \in [Process -> BOOLEAN]
    BY <1>0, <1>4 DEF DrainPutFails, Drains
  <2>3. mesh' \subseteq Key
    BY <1>0, <1>4, <1>k, <2>1 DEF DrainPutFails, SmallOK
  <2>4. faults' \in 0..MaxFaults
    BY <1>0, <1>4, FaultType DEF DrainPutFails, SmallOK
  <2> QED BY <1>0, <1>4, <2>2, <2>3, <2>4, TypePartsNext DEF DrainPutFails, QueueOK, SmallOK
<1>5. CASE DrainIndexes(p)
  <2>1. drain[p] # None /\ drain[p].rows # <<>>
    BY <1>5 DEF DrainIndexes, DrainAt, PastPut
  <2>2. drain' \in Drains
    BY <1>0, <1>5, <2>1 DEF DrainIndexes, Drains, Draining
  <2>3. indexed' \subseteq Key
    BY <1>0, <1>5, <1>k, <2>1 DEF DrainIndexes, SmallOK
  <2>4. faults' \in 0..MaxFaults
    BY <1>0, <1>5, FaultType DEF DrainIndexes, SmallOK
  <2> QED BY <1>0, <1>5, <2>2, <2>3, <2>4, TypePartsNext DEF DrainIndexes, QueueOK, SmallOK
<1>6. CASE DrainClears(p)
  <2>1. drain[p] # None /\ drain[p].rows # <<>>
    BY <1>6 DEF DrainClears, DrainAt, PastPut
  <2>2. drain' \in Drains
    BY <1>0, <1>6, <2>1, NextRowType DEF DrainClears
  <2>3. QueueOK'
    BY <1>0, <1>6, WithoutType DEF DrainClears, QueueOK
  <2>4. faults' \in 0..MaxFaults
    BY <1>0, <1>6, FaultType DEF DrainClears, SmallOK
  <2> QED BY <1>0, <1>6, <2>2, <2>3, <2>4, TypePartsNext DEF DrainClears, SmallOK
<1>7. CASE EndDrain(p)
  <2>1. drain' \in Drains
    BY <1>0, <1>7 DEF EndDrain, Drains
  <2> QED BY <1>0, <1>7, <2>1, TypePartsNext DEF EndDrain, QueueOK, SmallOK
<1> QED BY <1>1, <1>2, <1>3, <1>4, <1>5, <1>6, <1>7 DEF DrainStep

LEMMA OthersKeepTypes ==
  ASSUME TypeOK,
         \/ \E p \in Process, k \in Key : BeginSave(p, k)
         \/ \E p \in Process : StartDrain(p) \/ Crash(p)
         \/ RouterStops \/ RouterStarts \/ Reconfigure
  PROVE  TypeOK'
<1> USE DEF env, store, queueing
<1>0. /\ QueueOK /\ SmallOK /\ cached \in [Process -> BOOLEAN]
      /\ save \in Saves /\ drain \in Drains /\ told \in [Key -> Answers]
  BY TypeParts
<1>1. ASSUME NEW p \in Process, NEW k \in Key, BeginSave(p, k) PROVE TypeOK'
  <2>1. save' \in Saves
    BY <1>0, <1>1 DEF BeginSave, Saves, Saving
  <2> QED BY <1>0, <1>1, <2>1, TypePartsNext DEF BeginSave, QueueOK, SmallOK
<1>2. ASSUME NEW p \in Process, StartDrain(p) PROVE TypeOK'
  <2>1. cached' \in [Process -> BOOLEAN] /\ drain' \in Drains
    BY <1>2, AcquireType DEF StartDrain
  <2> QED BY <1>0, <1>2, <2>1, TypePartsNext DEF StartDrain, QueueOK, SmallOK
<1>3. ASSUME NEW p \in Process, Crash(p) PROVE TypeOK'
  <2>1. save' \in Saves /\ drain' \in Drains /\ cached' \in [Process -> BOOLEAN]
    BY <1>0, <1>3 DEF Crash, Saves, Drains
  <2>2. faults' \in 0..MaxFaults
    BY <1>0, <1>3, FaultType DEF Crash
  <2> QED BY <1>0, <1>3, <2>1, <2>2, TypePartsNext DEF Crash, QueueOK, SmallOK
<1>4. CASE RouterStops
  <2>1. faults' \in 0..MaxFaults
    BY <1>0, <1>4, FaultType DEF RouterStops
  <2> QED BY <1>0, <1>4, <2>1, TypePartsNext DEF RouterStops, QueueOK, SmallOK
<1>5. CASE RouterStarts
  BY <1>0, <1>5, TypePartsNext DEF RouterStarts, QueueOK, SmallOK
<1>6. CASE Reconfigure
  <2>1. faults' \in 0..MaxFaults
    BY <1>0, <1>6, FaultType DEF Reconfigure
  <2> QED BY <1>0, <1>6, <2>1, TypePartsNext DEF Reconfigure, QueueOK, SmallOK
<1> QED BY <1>1, <1>2, <1>3, <1>4, <1>5, <1>6

(***************************************************************************)
(* Every step keeps what was put in sight.                                 *)
(***************************************************************************)
\* The rest of the invariant; TypeOK apart.
Kept == PastPut /\ StoredMeansMesh /\ QueuedIsKept /\ IndexFollowsMesh

LEMMA SaveKeepsAccount ==
  ASSUME IInv, NEW p \in Process, SaveStep(p)
  PROVE  Kept'
<1> USE DEF env, store, queueing
<1>0. /\ QueueOK /\ SmallOK /\ save \in Saves /\ drain \in Drains /\ told \in [Key -> Answers]
      /\ PastPut /\ StoredMeansMesh /\ QueuedIsKept /\ IndexFollowsMesh
  BY TypeParts DEF IInv
<1>1. CASE Preflight(p)
  <2>1. PastPut'
    BY <1>0, <1>1 DEF Preflight, At, GoTo, Answer, PastPut, Saves, Saving, PutRow
  <2>2. StoredMeansMesh'
    BY <1>0, <1>1 DEF Preflight, At, Answer, StoredMeansMesh
  <2> QED BY <1>0, <1>1, <2>1, <2>2 DEF Preflight, Kept, QueuedIsKept, IndexFollowsMesh, PutRows
<1>2. CASE SavePuts(p)
  <2>1. PastPut'
    BY <1>0, <1>2 DEF SavePuts, At, GoTo, PastPut, Saves, Saving, PutRow
  <2> QED BY <1>0, <1>2, <2>1 DEF SavePuts, Kept, StoredMeansMesh, QueuedIsKept, IndexFollowsMesh, PutRows
<1>3. CASE SavePutFails(p)
  <2>1. save[p] # None /\ save[p].key \in Key
    BY <1>0, <1>3 DEF SavePutFails, At, Saves, Saving
  <2>2. mesh \subseteq mesh'
    BY <1>3 DEF SavePutFails
  <2>3. PastPut'
    BY <1>0, <1>3, <2>2 DEF SavePutFails, RetryOrFail, ResetSession, Answer, At, PastPut,
                            Saves, Saving, Drains, Draining, PutRow
  <2>4. StoredMeansMesh'
    BY <1>0, <1>3, <2>2 DEF SavePutFails, RetryOrFail, Answer, StoredMeansMesh
  <2>5. save[p].key \in PutRows' /\ PutRows \cup lost \subseteq PutRows' \cup lost'
    BY <1>0, <1>3, <2>1, EnqueueType DEF SavePutFails
  <2>6. QueuedIsKept'
    BY <1>0, <1>3, <2>2, <2>5 DEF SavePutFails, Enqueue, QueuedIsKept
  <2> QED BY <1>0, <1>3, <2>2, <2>3, <2>4, <2>6 DEF SavePutFails, Kept, IndexFollowsMesh
<1>4. CASE SavePutForgotten(p)
  <2>1. PastPut'
    BY <1>0, <1>4 DEF SavePutForgotten, RetryOrFail, ResetSession, Answer, At, PastPut,
                      Saves, Saving, Drains, Draining, PutRow
  <2>2. StoredMeansMesh'
    BY <1>0, <1>4 DEF SavePutForgotten, RetryOrFail, Answer, StoredMeansMesh
  <2> QED BY <1>0, <1>4, <2>1, <2>2 DEF SavePutForgotten, Kept, QueuedIsKept, IndexFollowsMesh, PutRows
<1>5. CASE SaveClears(p)
  <2>1. save[p].key \in mesh
    BY <1>0, <1>5 DEF SaveClears, At, PastPut
  <2>2. PutRows \subseteq PutRows' \cup {save[p].key}
    BY <1>0, <1>5, WithoutType DEF SaveClears, PutRows
  <2>3. PastPut'
    BY <1>0, <1>5, <2>1 DEF SaveClears, At, GoTo, PastPut, Saves, Saving, PutRow
  <2> QED BY <1>0, <1>5, <2>1, <2>2, <2>3 DEF SaveClears, Kept, StoredMeansMesh, QueuedIsKept, IndexFollowsMesh
<1>6. CASE SaveIndexes(p)
  <2>1. save[p].key \in mesh
    BY <1>0, <1>6 DEF SaveIndexes, At, PastPut
  <2>2. PastPut'
    BY <1>0, <1>6, <2>1 DEF SaveIndexes, At, GoTo, PastPut, Saves, Saving, PutRow
  <2> QED BY <1>0, <1>6, <2>1, <2>2 DEF SaveIndexes, Kept, StoredMeansMesh, QueuedIsKept, IndexFollowsMesh, PutRows
<1>7. CASE SaveDrains(p)
  <2>1. save[p].key \in mesh
    BY <1>0, <1>7 DEF SaveDrains, At, PastPut
  <2>2. PastPut'
    BY <1>0, <1>7, <2>1 DEF SaveDrains, Acquire, At, GoTo, Answer, PastPut, Saves, Saving, Drains, Draining, PutRow
  <2>3. StoredMeansMesh'
    BY <1>0, <1>7, <2>1 DEF SaveDrains, Answer, StoredMeansMesh
  <2> QED BY <1>0, <1>7, <2>2, <2>3 DEF SaveDrains, Kept, QueuedIsKept, IndexFollowsMesh, PutRows
<1>8. CASE SaveDrainRaises(p)
  <2>1. PastPut'
    BY <1>0, <1>8 DEF SaveDrainRaises, RetryOrFail, Answer, At, PastPut, Saves, Saving, PutRow
  <2>2. StoredMeansMesh'
    BY <1>0, <1>8 DEF SaveDrainRaises, RetryOrFail, Answer, StoredMeansMesh
  <2> QED BY <1>0, <1>8, <2>1, <2>2 DEF SaveDrainRaises, Kept, QueuedIsKept, IndexFollowsMesh, PutRows
<1>9. CASE SaveReturns(p)
  <2>1. save[p].key \in mesh
    BY <1>0, <1>9 DEF SaveReturns, At, PastPut
  <2>2. PastPut'
    BY <1>0, <1>9 DEF SaveReturns, Answer, PastPut, Saves, PutRow
  <2>3. StoredMeansMesh'
    BY <1>0, <1>9, <2>1 DEF SaveReturns, Answer, StoredMeansMesh
  <2> QED BY <1>0, <1>9, <2>2, <2>3 DEF SaveReturns, Kept, QueuedIsKept, IndexFollowsMesh, PutRows
<1> QED BY <1>1, <1>2, <1>3, <1>4, <1>5, <1>6, <1>7, <1>8, <1>9 DEF SaveStep

LEMMA DrainKeepsAccount ==
  ASSUME IInv, NEW p \in Process, DrainStep(p)
  PROVE  Kept'
<1> USE DEF env, store, queueing
<1>0. /\ QueueOK /\ SmallOK /\ drain \in Drains
      /\ PastPut /\ StoredMeansMesh /\ QueuedIsKept /\ IndexFollowsMesh
  BY TypeParts DEF IInv
<1>1. CASE DrainPreflight(p)
  <2>1. PastPut'
    BY <1>0, <1>1 DEF DrainPreflight, DrainAt, NextRow, PastPut, Drains, Draining, PutRow
  <2> QED BY <1>0, <1>1, <2>1 DEF DrainPreflight, Kept, StoredMeansMesh, QueuedIsKept, IndexFollowsMesh, PutRows
<1>2. CASE DrainDrops(p)
  <2>1. PastPut'
    BY <1>0, <1>2 DEF DrainDrops, DrainAt, NextRow, PastPut, Drains, Draining, PutRow
  <2>2. PutRows \subseteq PutRows' \cup {PutRow(p)}
    BY <1>0, <1>2, WithoutType DEF DrainDrops
  <2> QED BY <1>0, <1>2, <2>1, <2>2 DEF DrainDrops, Kept, StoredMeansMesh, QueuedIsKept, IndexFollowsMesh
<1>3. CASE DrainPuts(p)
  <2>1. PastPut'
    BY <1>0, <1>3 DEF DrainPuts, DrainAt, PastPut, Drains, Draining, PutRow
  <2> QED BY <1>0, <1>3, <2>1 DEF DrainPuts, Kept, StoredMeansMesh, QueuedIsKept, IndexFollowsMesh, PutRows
<1>4. CASE DrainPutFails(p)
  <2>1. mesh \subseteq mesh'
    BY <1>4 DEF DrainPutFails
  <2>2. PastPut'
    BY <1>0, <1>4, <2>1 DEF DrainPutFails, PastPut, Drains, PutRow
  <2> QED BY <1>0, <1>4, <2>1, <2>2 DEF DrainPutFails, Kept, StoredMeansMesh, QueuedIsKept, IndexFollowsMesh, PutRows
<1>5. CASE DrainIndexes(p)
  <2>1. PutRow(p) \in mesh
    BY <1>0, <1>5 DEF DrainIndexes, DrainAt, PastPut
  <2>2. PastPut'
    BY <1>0, <1>5, <2>1 DEF DrainIndexes, DrainAt, PastPut, Drains, Draining, PutRow
  <2> QED BY <1>0, <1>5, <2>1, <2>2 DEF DrainIndexes, Kept, StoredMeansMesh, QueuedIsKept, IndexFollowsMesh, PutRows
<1>6. CASE DrainClears(p)
  <2>1. PutRow(p) \in mesh
    BY <1>0, <1>6 DEF DrainClears, DrainAt, PastPut
  <2>2. PutRows \subseteq PutRows' \cup {PutRow(p)}
    BY <1>0, <1>6, WithoutType DEF DrainClears, PutRows
  <2>3. PastPut'
    BY <1>0, <1>6 DEF DrainClears, DrainAt, NextRow, PastPut, Drains, Draining, PutRow
  <2> QED BY <1>0, <1>6, <2>1, <2>2, <2>3 DEF DrainClears, Kept, StoredMeansMesh, QueuedIsKept, IndexFollowsMesh
<1>7. CASE EndDrain(p)
  <2>1. PastPut'
    BY <1>0, <1>7 DEF EndDrain, PastPut, Drains, PutRow
  <2> QED BY <1>0, <1>7, <2>1 DEF EndDrain, Kept, StoredMeansMesh, QueuedIsKept, IndexFollowsMesh, PutRows
<1> QED BY <1>1, <1>2, <1>3, <1>4, <1>5, <1>6, <1>7 DEF DrainStep

LEMMA OthersKeepAccount ==
  ASSUME IInv,
         \/ \E p \in Process, k \in Key : BeginSave(p, k)
         \/ \E p \in Process : StartDrain(p) \/ Crash(p)
         \/ RouterStops \/ RouterStarts \/ Reconfigure
  PROVE  Kept'
<1> USE DEF env, store, queueing
<1>0. /\ save \in Saves /\ drain \in Drains
      /\ PastPut /\ StoredMeansMesh /\ QueuedIsKept /\ IndexFollowsMesh
  BY TypeParts DEF IInv
<1>1. told' = told /\ mesh' = mesh /\ queue' = queue /\ owed' = owed /\ lost' = lost /\ indexed' = indexed
  BY DEF BeginSave, StartDrain, Crash, RouterStops, RouterStarts, Reconfigure
<1>2. PastPut'
  <2>1. ASSUME NEW p \in Process, NEW k \in Key, BeginSave(p, k) PROVE PastPut'
    BY <1>0, <2>1 DEF BeginSave, PastPut, Saves, PutRow
  <2>2. ASSUME NEW p \in Process, StartDrain(p) PROVE PastPut'
    BY <1>0, <2>2 DEF StartDrain, Acquire, PastPut, Drains, PutRow
  <2>3. ASSUME NEW p \in Process, Crash(p) PROVE PastPut'
    BY <1>0, <2>3 DEF Crash, PastPut, Saves, Drains, PutRow
  <2>4. CASE RouterStops \/ RouterStarts \/ Reconfigure
    BY <1>0, <2>4 DEF RouterStops, RouterStarts, Reconfigure, PastPut, PutRow
  <2> QED BY <2>1, <2>2, <2>3, <2>4
<1> QED BY <1>0, <1>1, <1>2 DEF Kept, StoredMeansMesh, QueuedIsKept, IndexFollowsMesh, PutRows

LEMMA StepInvariant == IInv /\ [Next]_vars => IInv'
<1> SUFFICES ASSUME IInv, [Next]_vars PROVE IInv'
  OBVIOUS
<1>1. CASE Next
  <2>1. ASSUME NEW p \in Process, SaveStep(p) PROVE IInv'
    BY <2>1, SaveKeepsTypes, SaveKeepsAccount DEF IInv, Kept
  <2>2. ASSUME NEW p \in Process, DrainStep(p) PROVE IInv'
    BY <2>2, DrainKeepsTypes, DrainKeepsAccount DEF IInv, Kept
  <2>3. CASE \/ \E p \in Process, k \in Key : BeginSave(p, k)
             \/ \E p \in Process : StartDrain(p) \/ Crash(p)
             \/ RouterStops \/ RouterStarts \/ Reconfigure
    BY <2>3, OthersKeepTypes, OthersKeepAccount DEF IInv, Kept
  <2> QED BY <1>1, <2>1, <2>2, <2>3 DEF Next
<1>2. CASE UNCHANGED vars
  BY <1>2 DEF vars, IInv, TypeOK, NoRowTwice, PastPut, PutRow, StoredMeansMesh, QueuedIsKept, PutRows, IndexFollowsMesh
<1> QED BY <1>1, <1>2

\* IInv holds in every reachable state.
THEOREM QueueInvariant == Spec => []IInv
BY InitInvariant, StepInvariant, PTL DEF Spec

\* Every variable keeps its type; the queue keeps its limit and holds no key
\* twice, whatever the processes enqueue, clear and drop at the same time.
THEOREM TypeCorrect == Spec => []TypeOK
BY QueueInvariant, PTL DEF IInv

\* put_observation and put_tombstone return only for keys that are on the mesh.
THEOREM StoredIsOnMesh == Spec => []StoredMeansMesh
BY QueueInvariant, PTL DEF IInv

\* No interleaving of drains, saves, retries and crashes loses sight of a queued
\* save: only the limit and a payload that does not parse end it short of the mesh.
THEOREM NothingQueuedIsLost == Spec => []QueuedIsKept
BY QueueInvariant, PTL DEF IInv

\* The index is written only after the mesh.
THEOREM IndexBehindMesh == Spec => []IndexFollowsMesh
BY QueueInvariant, PTL DEF IInv

-----------------------------------------------------------------------------
(***************************************************************************)
(* SupersedeHint.                                                          *)
(*                                                                         *)
(* A memory found by every search since its saver indexed it is among the  *)
(* candidates of every answer given from then on.                          *)
(***************************************************************************)

\* a has no answer yet, or its answer names b or was full.
Told(a, b) == hint[a] # None => b \in hint[a] \/ Cardinality(hint[a]) = HintLimit

HintInv ==
  /\ saving \in [Caller -> Call \cup {None}]
  /\ DOMAIN hint = Obs
  /\ \A o \in Obs : hint[o] # None => o \in born
  /\ \A p \in Caller : saving[p] # None => saving[p].obs \in born /\ hint[saving[p].obs] = None
  /\ \A p, q \in Caller : p # q /\ saving[p] # None /\ saving[q] # None => saving[p].obs # saving[q].obs
  /\ steady \subseteq Shown(row)
  /\ \A a, b \in steady : a # b /\ Topic[a] # None /\ Topic[a] = Topic[b] => Told(a, b) \/ Told(b, a)

-----------------------------------------------------------------------------
\* A query leaves something out only once its answer is full.
LEMMA NewestFull ==
  ASSUME NEW S \in SUBSET Obs, NEW b \in S
  PROVE  b \in Top(S, NewestFirst, HintLimit) \/ Cardinality(Top(S, NewestFirst, HintLimit)) = HintLimit
<1>1. IsFiniteSet(S) /\ HintLimit \in Nat
  BY HintAssumption, FS_Subset
<1>2. \A o, q \in S : <<o, q>> \in NewestFirst <=> Rank[o] > Rank[q]
  BY DEF NewestFirst
<1>3. \A o \in S : Rank[o] \in Nat
  BY HintAssumption
<1>4. \A o, q \in S : Rank[o] = Rank[q] => o = q
  BY HintAssumption
<1>5. TotallyOrders(NewestFirst, S)
  BY <1>2, <1>3, <1>4 DEF TotallyOrders
<1> QED
  BY <1>1, <1>5, TopFacts

-----------------------------------------------------------------------------

\* Before any save no suggestion is owed.
LEMMA HintInitInv == HintInit => HintInv
BY DEF HintInit, HintInv

\* Every save, suggestion and deletion keeps it.
LEMMA HintStepInv == HintInv /\ [HintNext]_hintVars => HintInv'
<1> SUFFICES ASSUME HintInv, [HintNext]_hintVars PROVE HintInv'
  OBVIOUS
<1>1. ASSUME UNCHANGED <<saving, born, hint>>, steady' \subseteq steady \cap Shown(row') PROVE HintInv'
  BY <1>1 DEF HintInv, Told
<1>2. ASSUME NEW p \in Caller, NEW o \in Obs, Store(p, o) PROVE HintInv'
  BY <1>2 DEF Store, HintInv, Told, Call
<1>3. ASSUME NEW p \in Caller, NEW o \in Obs, NEW taken \in BOOLEAN, StoreFails(p, o, taken) PROVE HintInv'
  BY <1>3 DEF StoreFails, HintInv, Told
<1>4. ASSUME NEW p \in Caller, NEW ok \in BOOLEAN, Index(p, ok) PROVE HintInv'
  <2>1. saving[p] \in Call /\ saving[p] # None
    BY <1>4 DEF Index, InStage, HintInv
  <2>2. /\ saving' \in [Caller -> Call \cup {None}]
        /\ \A q \in Caller : saving'[q] # None => saving[q] # None /\ saving'[q].obs = saving[q].obs
    BY <1>4, <2>1 DEF Index, HintInv, Call
  <2>3. steady' \subseteq (steady \cup {saving[p].obs}) \cap Shown(row')
    BY <1>4 DEF Index, Steady, HintInv
  <2>4. born' = born /\ hint' = hint /\ hint[saving[p].obs] = None
    BY <1>4, <2>1 DEF Index, HintInv
  <2> QED
    BY <2>2, <2>3, <2>4 DEF HintInv, Told
<1>5. ASSUME NEW p \in Caller, NEW ok \in BOOLEAN, HintAnswer(p, ok) PROVE HintInv'
  <2>1. PICK o \in Obs : o = saving[p].obs
    BY <1>5 DEF HintAnswer, InStage, HintInv, Call
  <2>2. /\ saving[p] # None /\ o \in born
        /\ saving' = [saving EXCEPT ![p] = None]
        /\ UNCHANGED <<row, born, steady>>
    BY <1>5, <2>1 DEF HintAnswer, InStage, HintInv
  <2>3. CASE hint' = hint
    BY <2>1, <2>2, <2>3 DEF HintInv, Told
  <2>4. CASE hint' = [hint EXCEPT ![o] = Top(Candidates(row, o), NewestFirst, HintLimit)]
    <3>1. ASSUME NEW b \in steady, b # o, Topic[o] # None, Topic[o] = Topic[b] PROVE Told(o, b)'
      <4>1. b \in Candidates(row, o) /\ Candidates(row, o) \in SUBSET Obs
        BY <3>1 DEF HintInv, Candidates, Shown, Live, Present
      <4>2. b \in Top(Candidates(row, o), NewestFirst, HintLimit)
            \/ Cardinality(Top(Candidates(row, o), NewestFirst, HintLimit)) = HintLimit
        BY <4>1, NewestFull
      <4> QED
        BY <2>2, <2>4, <4>2 DEF Told, HintInv
    <3>2. \A a, b : a # o => Told(a, b)' = Told(a, b)
      BY <2>4 DEF Told
    <3>3. DOMAIN hint' = Obs /\ \A q \in Obs : q # o => hint'[q] = hint[q]
      BY <2>4 DEF HintInv
    <3>4. /\ saving' \in [Caller -> Call \cup {None}]
          /\ \A q \in Caller : saving'[q] # None => saving'[q] = saving[q] /\ q # p
      BY <2>2 DEF HintInv
    <3>5. \A q \in Caller : saving'[q] # None => saving'[q].obs \in Obs /\ saving'[q].obs # o
      BY <2>1, <2>2, <3>4 DEF HintInv, Call
    <3>6. ASSUME NEW a \in steady, NEW b \in steady, a # b, Topic[a] # None, Topic[a] = Topic[b]
          PROVE  Told(a, b)' \/ Told(b, a)'
      BY <3>1, <3>2, <3>6 DEF HintInv
    <3>7. \A q \in Obs : hint'[q] # None => q \in born'
      BY <2>2, <3>3 DEF HintInv
    <3>8. \A q \in Caller : saving'[q] # None => saving'[q].obs \in born' /\ hint'[saving'[q].obs] = None
      BY <2>2, <3>3, <3>4, <3>5 DEF HintInv
    <3>9. \A q, r \in Caller : q # r /\ saving'[q] # None /\ saving'[r] # None
                                => saving'[q].obs # saving'[r].obs
      BY <3>4 DEF HintInv
    <3> QED
      BY <2>2, <3>3, <3>4, <3>6, <3>7, <3>8, <3>9 DEF HintInv
  <2> QED
    BY <1>5, <2>1, <2>3, <2>4 DEF HintAnswer
<1>6. ASSUME NEW p \in Caller, CallerStops(p) PROVE HintInv'
  BY <1>6 DEF CallerStops, HintInv, Told
<1>7. ASSUME NEW o \in Obs, PeerSaves(o) PROVE HintInv'
  BY <1>7 DEF PeerSaves, HintInv, Told
<1>8. ASSUME NEW o \in Obs, Mirror(o) \/ Drain(o) \/ Bury(o) PROVE HintInv'
  BY <1>1, <1>8 DEF Mirror, Drain, Bury, Steady
<1>9. ASSUME NEW S \in SUBSET held, Rebuild(S) PROVE HintInv'
  BY <1>1, <1>9 DEF Rebuild, Steady
<1>10. CASE UNCHANGED hintVars
  BY <1>1, <1>10 DEF hintVars, HintInv
<1> QED
  BY <1>2, <1>3, <1>4, <1>5, <1>6, <1>7, <1>8, <1>9, <1>10 DEF HintNext

\* Whatever the processes save, and in whatever order.
THEOREM HintInvariant == HintSpec => []HintInv
BY HintInitInv, HintStepInv, PTL DEF HintSpec

\* A table stays a table under every statement these steps run on it.
LEMMA HintTable ==
  ASSUME NEW t \in Rows
  PROVE  /\ \A o \in Obs : Upserted(t, o) \in Rows /\ Marked(t, {o}) \in Rows
         /\ \A S \in SUBSET Obs : \A by \in Winners(S) : Rebuilt(t, S, buried \cap S, by) \in Rows
<1>1. \A o \in Obs : Upserted(t, o) \in Rows
  BY UpsertedRows
<1>2. \A o \in Obs : Marked(t, {o}) \in Rows
  BY MarkedRows
<1>3. ASSUME NEW S \in SUBSET Obs, NEW by \in Winners(S) PROVE Rebuilt(t, S, buried \cap S, by) \in Rows
  BY RebuiltRows
<1> QED
  BY <1>1, <1>2, <1>3

\* Every variable of the decisions keeps its type, and whatever is stored, queued,
\* deleted or found has been saved by somebody.
THEOREM HintTypeCorrect == HintSpec => []HintTypeOK
<1>1. ASSUME HintInit PROVE HintTypeOK
  <2>1. row \in Rows /\ saving \in [Caller -> Call \cup {None}]
    BY <1>1 DEF HintInit, Rows
  <2>2. hint \in [Obs -> (SUBSET Obs) \cup {None}]
    BY <1>1 DEF HintInit
  <2>3. upsets \in 0..MaxUpsets /\ changes \in 0..MaxChanges
    BY <1>1, HintAssumption DEF HintInit
  <2>4. held \cup buried \cup waiting \cup steady \subseteq born /\ born \subseteq Obs
    BY <1>1 DEF HintInit
  <2> QED
    BY <2>1, <2>2, <2>3, <2>4 DEF HintTypeOK
<1>2. ASSUME HintInv, HintTypeOK, [HintNext]_hintVars PROVE HintTypeOK'
  <2> USE <1>2 DEF HintInv, HintTypeOK
  <2>1. /\ \A o \in Obs : Upserted(row, o) \in Rows /\ Marked(row, {o}) \in Rows
        /\ \A S \in SUBSET Obs : \A by \in Winners(S) : Rebuilt(row, S, buried \cap S, by) \in Rows
    BY HintTable
  <2>2. ASSUME NEW p \in Caller, NEW o \in Obs, NEW b \in BOOLEAN, Store(p, o) \/ StoreFails(p, o, b)
        PROVE  HintTypeOK'
    BY <2>2, HintAssumption DEF Store, StoreFails, Upset, Call
  <2>3. ASSUME NEW p \in Caller, NEW ok \in BOOLEAN, Index(p, ok) PROVE HintTypeOK'
    <3>1. saving[p] \in Call /\ saving[p].obs \in Obs /\ saving[p].obs \in born
      BY <2>3 DEF Index, InStage, Call
    <3>2. saving' \in [Caller -> Call \cup {None}]
      BY <2>3, <3>1 DEF Index, Call
    <3>3. row' \in Rows /\ steady' \subseteq born
      BY <2>1, <2>3, <3>1 DEF Index, Steady
    <3>4. upsets' \in 0..MaxUpsets
      BY <2>3, HintAssumption DEF Index, Upset
    <3> QED
      BY <2>3, <3>2, <3>3, <3>4 DEF Index
  <2>4. ASSUME NEW p \in Caller, NEW ok \in BOOLEAN, HintAnswer(p, ok) PROVE HintTypeOK'
    <3>1. \A o \in Obs : Top(Candidates(row, o), NewestFirst, HintLimit) \in SUBSET Obs
      BY DEF Top, Candidates, Shown, Live, Present
    <3>2. saving' \in [Caller -> Call \cup {None}] /\ saving[p].obs \in Obs
      BY <2>4 DEF HintAnswer, InStage, Call
    <3>3. hint' \in [Obs -> (SUBSET Obs) \cup {None}]
      BY <2>4, <3>1, <3>2 DEF HintAnswer
    <3>4. upsets' \in 0..MaxUpsets
      BY <2>4, HintAssumption DEF HintAnswer, Upset
    <3> QED
      BY <2>4, <3>2, <3>3, <3>4 DEF HintAnswer
  <2>5. ASSUME NEW p \in Caller, CallerStops(p) PROVE HintTypeOK'
    BY <2>5, HintAssumption DEF CallerStops, Upset
  <2>6. ASSUME NEW o \in Obs, PeerSaves(o) \/ Mirror(o) \/ Drain(o) \/ Bury(o) PROVE HintTypeOK'
    <3>1. row' \in Rows
      BY <2>1, <2>6 DEF PeerSaves, Mirror, Drain, Bury
    <3>2. held' \cup buried' \cup waiting' \cup steady' \subseteq born' /\ born' \subseteq Obs
      BY <2>6 DEF PeerSaves, Mirror, Drain, Bury, Steady
    <3>3. changes' \in 0..MaxChanges
      BY <2>6, HintAssumption DEF PeerSaves, Mirror, Drain, Bury, Change
    <3> QED
      BY <2>6, <3>1, <3>2, <3>3 DEF PeerSaves, Mirror, Drain, Bury
  <2>7. ASSUME NEW S \in SUBSET held, Rebuild(S) PROVE HintTypeOK'
    BY <2>1, <2>7, HintAssumption DEF Rebuild, Change, Steady
  <2>8. CASE UNCHANGED hintVars
    BY <2>8 DEF hintVars
  <2> QED
    BY <1>2, <2>2, <2>3, <2>4, <2>5, <2>6, <2>7, <2>8 DEF HintNext
<1> QED
  BY <1>1, <1>2, HintInvariant, PTL DEF HintSpec

\* Of two latest decisions of this host on one topic that have both been in the
\* index all along, the saver of one was told of the other or had a full hint:
\* whoever asked after both were indexed had the other among the candidates.
THEOREM OneSaverIsTold == HintSpec => []OneIsTold
<1>1. HintInv => OneIsTold
  <2> SUFFICES ASSUME HintInv, NEW g \in Conflicts(row), NEW a \in g \cap steady, NEW b \in g \cap steady,
                      a # b, hint[a] # None, hint[b] # None
               PROVE  a \in hint[b] \/ b \in hint[a] \/ \E o \in {a, b} : Cardinality(hint[o]) = HintLimit
    BY DEF OneIsTold
  <2>1. Topic[a] # None /\ Topic[a] = Topic[b]
    BY DEF Conflicts
  <2> QED
    BY <2>1 DEF HintInv, Told
<1> QED
  BY <1>1, HintInvariant, PTL
==============================================================================
