---------------------------- MODULE Server_proofs ----------------------------
(***************************************************************************)
(* What the server's tools and its session keep. A poll of the inbox, for  *)
(* every set of pairs, selectors and envelopes, every page limit and every *)
(* interleaving with the publishers, the sweeps and the clock: what the    *)
(* inbox database itself keeps is MessageInbox_proofs!IInv; this module    *)
(* adds what a poll in progress knows of the ids it has classified. The    *)
(* session, for any number of workers, sessions and faults: its types,     *)
(* that no subscriber set is lost track of, and that the shutdown closes   *)
(* the session only when no worker can be in a scan.                       *)
(***************************************************************************)
EXTENDS InboxPoll, SessionLifecycle, MessageInbox_proofs, FiniteSetTheorems

-----------------------------------------------------------------------------
\* The database of these tools: current, and without anything quarantined or
\* parked, so an arrival is classified by its message and its tombstone alone.
InboxPlain ==
  /\ schema = "current" /\ oldBare = {}
  /\ \A p \in Pair : legacy[p] = Null /\ pending[p] = Null

\* What was acknowledged here is read until its id is retired, and nothing
\* else is read.
ReadRemembered == \A p \in Pair : p \in read => tomb[p] # Null \/ Acked(p)
AckedIsRead == \A p \in Pair : Acked(p) => p \in read

\* The codes that keep an arrival out of the messages whatever was asked for.
Refusals == {"duplicate_retired", "protocol_violation", "classification_failed"}

\* A judgement tells the truth about its id.
JudgedRight(j) ==
  /\ j.code # "classification_failed" => Remembered(j.pair)
  /\ j.acked => j.pair \in read
  /\ j.pair \in poll.readBefore => j.acked \/ j.code \in Refusals
  /\ j.pair \in poll.retiredBefore => j.code \in Refusals

\* A poll in progress: each id judged once and rightly, and the key it may
\* have to delete belongs to an id the index has.
PollSound == poll # Null =>
  /\ IsFiniteSet(SeenIds)
  /\ \A j, k \in poll.judged : j.pair = k.pair => j = k
  /\ poll.last # Null => Remembered(poll.last.pair)
  /\ poll.readBefore \subseteq read
  /\ \A p \in poll.retiredBefore : tomb[p] # Null
  /\ \A j \in poll.judged : JudgedRight(j)

\* The page of a finished poll comes from its messages.
PageFromMessages == Reported =>
  \A p \in poll.page : \E j \in poll.judged : j.pair = p /\ ~Diagnosed(j)

PInv ==
  /\ IInv
  /\ PollTypeOK
  /\ InboxPlain
  /\ ReadRemembered
  /\ AckedIsRead
  /\ PollSound
  /\ PageFromMessages
  /\ ArrivalsAccountedFor

\* What the index knows only grows, and a deadline that has passed stays so.
KnowledgeGrows ==
  /\ \A p \in Pair : Remembered(p) => Remembered(p)'
  /\ \A p \in Pair : tomb[p] # Null => tomb'[p] # Null
  /\ \A e \in Envelope : PastDeadline(e) => PastDeadline(e)'

-----------------------------------------------------------------------------
\* Without a quarantine an arrival is judged by message, tombstone, deadline.
LEMMA PlainVerdict ==
  ASSUME IInv, InboxPlain, NEW p \in Pair, NEW e \in Envelope
  PROVE  /\ live[p] # Null => Verdict(p, e) = "duplicate_live" /\ tomb[p] = Null
         /\ live[p] = Null /\ tomb[p] # Null =>
              Verdict(p, e) \in {"duplicate_retired", "protocol_violation"}
         /\ live[p] = Null /\ tomb[p] = Null =>
              Verdict(p, e) \in {"expired_on_arrival", "registered"}
<1>1. ~Bare(p)
  BY DEF IInv, AckAnchored, InboxPlain
<1>2. ~Withheld(p)
  BY <1>1 DEF Withheld, LegacySeen, InboxPlain
<1>3. live[p] # Null => tomb[p] = Null
  BY DEF IInv, RetiredBehindQuarantine, InboxPlain
<1>4. CASE live[p] # Null
  BY <1>2, <1>3, <1>4 DEF Verdict
<1>5. CASE live[p] = Null /\ tomb[p] # Null
  BY <1>2, <1>5 DEF Verdict
<1>6. CASE live[p] = Null /\ tomb[p] = Null
  BY <1>2, <1>6 DEF Verdict, InboxPlain
<1>7. QED
  BY <1>4, <1>5, <1>6

\* A classification: the inbox keeps its invariant, the id is known after it,
\* and nothing is read that was not.
LEMMA ArriveKeeps ==
  ASSUME IInv, InboxPlain, ReadRemembered, AckedIsRead,
         NEW p \in Pair, NEW e \in Envelope, Arrive(p, e), UNCHANGED read
  PROVE  /\ IInv' /\ InboxPlain' /\ ReadRemembered' /\ AckedIsRead'
         /\ KnowledgeGrows /\ Remembered(p)'
<1>1. IInv'
  BY ArriveInvariant
<1>2. InboxTypeOK /\ FlagMatchesAck /\ InboxTypeOK' /\ FlagMatchesAck'
  BY <1>1 DEF IInv
<1>3. ~Bare(p) /\ LegacySeen(p) = Null
  BY DEF IInv, AckAnchored, InboxPlain, LegacySeen
<1>4. e # Null
  BY ConstantsAssumption
<1>5. UNCHANGED <<schema, now, oldBare, legacy, pending, isAcked, acks>>
  <2>1. UNCHANGED <<schema, now, oldBare, legacy>>
    BY <1>2, <1>3 DEF Arrive, QuarantineOnArrival, InboxTypeOK, InboxPlain
  <2>2. ~ArriveAckFirst(p, e)
    BY PlainVerdict DEF ArriveAckFirst
  <2>3. UNCHANGED <<pending, isAcked, acks>>
    BY <1>3, <2>2 DEF Arrive, ArriveWithheld, ArriveKnown, ArriveExpired, ArriveRegistered,
                      AcksWithoutBare
  <2>4. QED
    BY <2>1, <2>3
<1>6. \/ live[p] # Null /\ UNCHANGED <<live, tomb>>
      \/ tomb[p] # Null /\ UNCHANGED <<live, tomb>>
      \/ /\ live[p] = Null /\ tomb[p] = Null
         /\ \/ live' = [live EXCEPT ![p] = e] /\ UNCHANGED tomb
            \/ tomb' = [tomb EXCEPT ![p] = e] /\ UNCHANGED live
  <2>1. ~ArriveWithheld(p, e) /\ ~ArriveAckFirst(p, e)
    BY PlainVerdict DEF ArriveWithheld, ArriveAckFirst
  <2>2. ArriveKnown(p, e) => live[p] # Null \/ tomb[p] # Null
    BY PlainVerdict DEF ArriveKnown
  <2>3. ArriveExpired(p, e) \/ ArriveRegistered(p, e) => live[p] = Null /\ tomb[p] = Null
    BY PlainVerdict DEF ArriveExpired, ArriveRegistered
  <2>4. QED
    BY <2>1, <2>2, <2>3 DEF Arrive, ArriveKnown, ArriveExpired, ArriveRegistered
<1>7. InboxPlain'
  BY <1>5 DEF InboxPlain
<1>8. KnowledgeGrows /\ Remembered(p)'
  BY <1>2, <1>4, <1>5, <1>6 DEF KnowledgeGrows, Remembered, PastDeadline, InboxTypeOK
<1>9. \A q \in Pair : Acked(q)' <=> Acked(q)
  BY <1>2, <1>5, <1>6 DEF Acked, FlagMatchesAck, InboxTypeOK
<1>10. ReadRemembered' /\ AckedIsRead'
  BY <1>8, <1>9 DEF ReadRemembered, AckedIsRead, KnowledgeGrows
<1>11. QED
  BY <1>1, <1>7, <1>8, <1>10

\* An acknowledgement reads exactly its message.
LEMMA AckKeeps ==
  ASSUME IInv, InboxPlain, ReadRemembered, AckedIsRead,
         NEW p \in Pair, NEW a \in AckTime, RecordAck(p, a), read' = read \cup {p}
  PROVE  IInv' /\ InboxPlain' /\ ReadRemembered' /\ AckedIsRead' /\ KnowledgeGrows
<1>1. IInv'
  BY AckInvariant
<1>2. InboxTypeOK
  BY DEF IInv
<1>3. /\ live[p] # Null
      /\ acks' = [acks EXCEPT ![p] = a] /\ isAcked' = [isAcked EXCEPT ![p] = TRUE]
      /\ UNCHANGED <<schema, live, pending, tomb, legacy, now, oldBare>>
  BY DEF RecordAck, WriteAck
<1>4. \A q \in Pair : Acked(q)' <=> Acked(q) \/ q = p
  <2>1. a # Null
    BY ConstantsAssumption
  <2>2. QED
    BY <1>2, <1>3, <2>1 DEF Acked, InboxTypeOK
<1>5. InboxPlain' /\ KnowledgeGrows
  BY <1>3 DEF InboxPlain, KnowledgeGrows, Remembered, PastDeadline
<1>6. ReadRemembered' /\ AckedIsRead'
  BY <1>3, <1>4 DEF ReadRemembered, AckedIsRead
<1>7. QED
  BY <1>1, <1>5, <1>6

\* A purge forgets no id: what it removes it retires.
LEMMA PurgeKeeps ==
  ASSUME IInv, InboxPlain, ReadRemembered, AckedIsRead, PurgeExpired, UNCHANGED read
  PROVE  IInv' /\ InboxPlain' /\ ReadRemembered' /\ AckedIsRead' /\ KnowledgeGrows
<1>1. IInv'
  BY PurgeInvariant
<1>2. InboxTypeOK
  BY DEF IInv
<1>3. UNCHANGED <<schema, pending, legacy, now, oldBare>>
  BY DEF PurgeExpired
<1>4. \A p \in Pair :
        IF p \in Expiring THEN live'[p] = Null /\ tomb'[p] # Null
        ELSE UNCHANGED <<live[p], tomb[p], isAcked[p], acks[p]>>
  <2>1. \A p \in Expiring : live[p] # Null
    BY DEF Expiring
  <2>2. QED
    BY <2>1 DEF PurgeExpired, TombAfterPurge
<1>5. InboxPlain'
  BY <1>3 DEF InboxPlain
<1>6. KnowledgeGrows
  BY <1>3, <1>4 DEF KnowledgeGrows, Remembered, PastDeadline
<1>7. \A p \in Pair : IF p \in Expiring THEN ~Acked(p)' ELSE Acked(p)' <=> Acked(p)
  BY <1>4 DEF Acked
<1>8. ReadRemembered' /\ AckedIsRead'
  BY <1>4, <1>7 DEF ReadRemembered, AckedIsRead
<1>9. QED
  BY <1>1, <1>5, <1>6, <1>8

\* The clock, and the steps that leave the database alone.
LEMMA RestKeeps ==
  ASSUME IInv, InboxPlain, ReadRemembered, AckedIsRead, Tick \/ UNCHANGED inboxVars,
         UNCHANGED read
  PROVE  IInv' /\ InboxPlain' /\ ReadRemembered' /\ AckedIsRead' /\ KnowledgeGrows
<1>1. Tick \/ UNCHANGED inboxVars
  BY DEF inboxVars, inboxVars
<1>2. IInv'
  BY <1>1, QuietInvariant
<1>3. UNCHANGED <<schema, tables, oldBare>> /\ now' \in Nat /\ now \in Nat /\ now <= now'
  <2>1. now \in Nat
    BY ConstantsAssumption DEF IInv, InboxTypeOK
  <2>2. QED
    BY <1>1, <2>1 DEF Tick, inboxVars, tables
<1>4. InboxPlain' /\ ReadRemembered' /\ AckedIsRead'
  BY <1>3 DEF tables, InboxPlain, ReadRemembered, AckedIsRead, Acked
<1>5. KnowledgeGrows
  <2>1. \A e \in Envelope : Deadline[e] \in Nat \cup {Null}
    BY ConstantsAssumption
  <2>2. \A e \in Envelope : PastDeadline(e) => PastDeadline(e)'
    BY <1>3, <2>1 DEF PastDeadline
  <2>3. QED
    BY <1>3, <2>2 DEF tables, KnowledgeGrows, Remembered
<1>6. QED
  BY <1>2, <1>4, <1>5

-----------------------------------------------------------------------------
\* What the classification of an id writes down is right.
LEMMA JudgementRight ==
  ASSUME PInv, poll # Null, NEW reply \in Arrival, Arrive(reply.pair, reply.envelope),
         UNCHANGED read,
         NEW j, j = [pair |-> reply.pair, envelope |-> reply.envelope,
                     code |-> Verdict(reply.pair, reply.envelope),
                     acked |-> AckedVerdict(reply.pair, Verdict(reply.pair, reply.envelope))]
  PROVE  /\ j \in Judgement
         /\ j.code # "classification_failed" => Remembered(j.pair)'
         /\ j.acked => j.pair \in read
         /\ j.pair \in poll.readBefore => j.acked \/ j.code \in Refusals
         /\ j.pair \in poll.retiredBefore => j.code \in Refusals
<1> DEFINE p == reply.pair
           e == reply.envelope
           code == Verdict(p, e)
<1>1. p \in Pair /\ e \in Envelope
  BY DEF Arrival
<1>2. /\ live[p] # Null => code = "duplicate_live" /\ tomb[p] = Null
      /\ live[p] = Null /\ tomb[p] # Null => code \in {"duplicate_retired", "protocol_violation"}
      /\ live[p] = Null /\ tomb[p] = Null => code \in {"expired_on_arrival", "registered"}
  BY <1>1, PlainVerdict DEF PInv
<1>3. Remembered(p)'
  BY <1>1, ArriveKeeps DEF PInv
<1> HIDE DEF code, p, e
<1>4. j = [pair |-> p, envelope |-> e, code |-> code, acked |-> AckedVerdict(p, code)]
  BY DEF code, p, e
<1>5. AckedVerdict(p, code) <=> Acked(p)
  BY <1>2 DEF AckedVerdict, Acked
<1>6. AckedVerdict(p, code) \in BOOLEAN
  BY DEF AckedVerdict
<1>7. j \in Judgement
  BY <1>1, <1>2, <1>4, <1>6 DEF Judgement, DiagnosticCodes
<1>8. j.acked => p \in read
  BY <1>1, <1>4, <1>5 DEF PInv, AckedIsRead
<1>9. p \in poll.readBefore => Acked(p) \/ code \in Refusals
  <2>1. p \in poll.readBefore => tomb[p] # Null \/ Acked(p)
    BY <1>1 DEF PInv, PollSound, ReadRemembered
  <2>2. QED
    BY <1>2, <2>1 DEF Refusals
<1>10. p \in poll.retiredBefore => code \in Refusals
  <2>1. p \in poll.retiredBefore => tomb[p] # Null
    BY DEF PInv, PollSound
  <2>2. QED
    BY <1>2, <2>1 DEF Refusals
<1>11. QED
  BY <1>3, <1>4, <1>5, <1>7, <1>8, <1>9, <1>10

\* A judgement stays right while knowledge grows.
LEMMA JudgementStaysRight ==
  ASSUME PInv, poll # Null, poll' # Null, NEW j \in poll.judged, JudgedRight(j),
         KnowledgeGrows, read \subseteq read',
         poll'.readBefore = poll.readBefore, poll'.retiredBefore = poll.retiredBefore
  PROVE  JudgedRight(j)'
<1>1. j.pair \in Pair
  BY DEF PInv, PollTypeOK, Poll, Judgement
<1>2. QED
  BY <1>1 DEF JudgedRight, KnowledgeGrows

\* The steps of a poll that judge nothing new and do not report.
LEMMA PollGoesOn ==
  ASSUME PInv, poll # Null, poll' \in Poll, KnowledgeGrows, read \subseteq read',
         poll'.judged = poll.judged,
         poll'.readBefore = poll.readBefore, poll'.retiredBefore = poll.retiredBefore,
         poll'.last \in {Null, poll.last}, poll'.stage # "reported"
  PROVE  PollSound' /\ PageFromMessages' /\ ArrivalsAccountedFor'
<1>1. \A j \in poll.judged : JudgedRight(j)'
  BY JudgementStaysRight, PollAssumption DEF PInv, PollSound
<1>2. IsFiniteSet(SeenIds)'
  BY DEF PInv, PollSound, SeenIds
<1>3. poll.last # Null => poll.last.pair \in Pair
  BY DEF PInv, PollTypeOK, Poll, Arrival
<1>4. \A p \in poll.retiredBefore : p \in Pair
  BY DEF PInv, PollTypeOK, Poll
<1>5. PollSound'
  BY <1>1, <1>2, <1>3, <1>4 DEF PInv, PollSound, KnowledgeGrows
<1>6. ~Reported'
  BY DEF Reported
<1>7. QED
  BY <1>5, <1>6 DEF PageFromMessages, ArrivalsAccountedFor

\* A poll keeps what it knows while the others take their steps.
LEMMA PollUntouched ==
  ASSUME PInv, KnowledgeGrows, read \subseteq read', UNCHANGED poll
  PROVE  PollSound' /\ PageFromMessages' /\ ArrivalsAccountedFor'
<1>1. PollSound'
  <2>1. CASE poll = Null
    BY <2>1 DEF PollSound
  <2>2. CASE poll # Null
    <3>1. \A j \in poll.judged : JudgedRight(j)'
      BY <2>2, JudgementStaysRight DEF PInv, PollSound
    <3>2. IsFiniteSet(SeenIds)'
      BY <2>2 DEF PInv, PollSound, SeenIds
    <3>3. poll.last # Null => poll.last.pair \in Pair
      BY <2>2 DEF PInv, PollTypeOK, Poll, Arrival
    <3>4. \A p \in poll.retiredBefore : p \in Pair
      BY <2>2 DEF PInv, PollTypeOK, Poll
    <3>5. QED
      BY <2>2, <3>1, <3>2, <3>3, <3>4 DEF PInv, PollSound, KnowledgeGrows
  <2>3. QED
    BY <2>1, <2>2
<1>2. PageFromMessages'
  BY DEF PInv, PageFromMessages, Reported, Diagnosed, AskedToSee
<1>3. ArrivalsAccountedFor'
  <2> SUFFICES ASSUME Reported', NEW j \in poll'.judged
               PROVE  \/ j.pair \in poll'.page
                      \/ Diagnosed(j)'
                      \/ poll'.truncated /\ j \in Filtered'
                      \/ /\ Remembered(j.pair)'
                         /\ \/ j.pair \in read' /\ ~poll'.options.acked
                            \/ PastDeadline(j.envelope)' /\ ~poll'.options.expired
                            \/ j.envelope \in Early /\ poll'.options.since
    BY DEF ArrivalsAccountedFor
  <2>1. Reported /\ j \in poll.judged /\ poll # Null
    BY DEF Reported
  <2>2. j.pair \in Pair /\ j.envelope \in Envelope
    BY <2>1 DEF PInv, PollTypeOK, Poll, Judgement
  <2>3. Diagnosed(j)' <=> Diagnosed(j)
    BY DEF Diagnosed, AskedToSee
  <2>4. JudgedRight(j)'
    BY <1>1, <2>1 DEF PollSound
  <2>5. CASE poll.truncated /\ j \in Filtered /\ ~(j \in Filtered')
    <3>1. PastDeadline(j.envelope)' /\ ~poll'.options.expired /\ ~Diagnosed(j)
      BY <2>3, <2>5 DEF Filtered
    <3>2. j.code # "classification_failed"
      BY <3>1 DEF Diagnosed, DiagnosticCodes, AskedToSee
    <3>3. QED
      BY <2>4, <3>1, <3>2 DEF JudgedRight
  <2>6. CASE poll.truncated /\ j \in Filtered /\ j \in Filtered'
    BY <2>6
  <2>7. CASE ~(poll.truncated /\ j \in Filtered)
    BY <2>1, <2>2, <2>3, <2>7 DEF PInv, ArrivalsAccountedFor, KnowledgeGrows
  <2>8. QED
    BY <2>5, <2>6, <2>7
<1>4. QED
  BY <1>1, <1>2, <1>3

-----------------------------------------------------------------------------
LEMMA PollInitInvariant == PollInit => PInv
<1> SUFFICES ASSUME PollInit PROVE PInv
  OBVIOUS
<1>1. IInv
  <2>1. InboxTypeOK
    <3>1. isAcked \in [Pair -> BOOLEAN]
      BY ZenonT(20) DEF PollInit
    <3>2. now \in 0..MaxTime
      BY ConstantsAssumption DEF PollInit
    <3>3. QED
      BY <3>1, <3>2 DEF PollInit, InboxTypeOK
  <2>2. AckAnchored /\ FlagMatchesAck /\ OnlyGenuineAcks
    BY DEF PollInit, AckAnchored, FlagMatchesAck, OnlyGenuineAcks, Acked, Bare
  <2>3. ParkedIsGenuine /\ RetiredBehindQuarantine /\ PromotionSticks
    BY DEF PollInit, ParkedIsGenuine, RetiredBehindQuarantine, PromotionSticks
  <2>4. QED
    BY <2>1, <2>2, <2>3 DEF IInv
<1>2. PollTypeOK
  BY <1>1, PollAssumption DEF PollInit, PollTypeOK, IInv
<1>3. InboxPlain /\ ReadRemembered /\ AckedIsRead
  BY DEF PollInit, InboxPlain, ReadRemembered, AckedIsRead, Acked
<1>4. PollSound /\ PageFromMessages /\ ArrivalsAccountedFor
  BY DEF PollInit, PollSound, PageFromMessages, ArrivalsAccountedFor, Reported
<1>5. QED
  BY <1>1, <1>2, <1>3, <1>4 DEF PInv

\* The conjuncts on the database and its history.
InboxPart == IInv /\ InboxPlain /\ ReadRemembered /\ AckedIsRead

\* Starting a poll notes what is read and what is retired.
LEMMA PollStartInvariant ==
  ASSUME PInv, NEW options \in Options, PollStart(options)
  PROVE  PInv'
<1>1. InboxPart' /\ KnowledgeGrows
  BY RestKeeps DEF PInv, InboxPart, PollStart
<1>2. poll' = [stage |-> "asking", options |-> options, todo |-> Place, replies |-> {},
               judged |-> {}, last |-> Null, incomplete |-> FALSE, page |-> {},
               truncated |-> FALSE, readBefore |-> read,
               retiredBefore |-> {p \in Pair : tomb[p] # Null}]
  BY DEF PollStart
<1>3. PollTypeOK'
  <2>1. read \subseteq Pair
    BY DEF PInv, PollTypeOK
  <2>2. poll' \in Poll
    BY <1>2, <2>1 DEF Poll
  <2>3. Cardinality(poll'.page) <= PageLimit
    BY <1>2, FS_EmptySet, PollAssumption
  <2>4. QED
    BY <1>1, <2>2, <2>3 DEF PInv, PollTypeOK, PollStart, InboxPart, IInv
<1>4. PollSound'
  <2>1. IsFiniteSet(SeenIds)'
    BY <1>2, FS_EmptySet DEF SeenIds
  <2>2. UNCHANGED <<read, tomb>>
    BY DEF PollStart, inboxVars
  <2>3. QED
    BY <1>2, <2>1, <2>2 DEF PollSound
<1>5. PageFromMessages' /\ ArrivalsAccountedFor'
  BY <1>2 DEF PageFromMessages, ArrivalsAccountedFor, Reported
<1>6. QED
  BY <1>1, <1>3, <1>4, <1>5 DEF PInv, InboxPart

\* Asking, failing selectors, replies passed over, the delete of a key.
LEMMA PollQuietInvariant ==
  ASSUME PInv,
         \/ \E place \in Place : Ask(place)
         \/ SelectorFails
         \/ \E reply \in Arrival : Undecodable(reply) \/ SeenBefore(reply)
         \/ Expunge
  PROVE  PInv'
<1>1. UNCHANGED <<inboxVars, sent, sweep, read>> /\ Asking
  BY DEF Ask, SelectorFails, Undecodable, SeenBefore, Expunge
<1>2. InboxPart' /\ KnowledgeGrows
  BY <1>1, RestKeeps DEF PInv, InboxPart
<1>3. poll # Null /\ poll.stage = "asking" /\ poll \in Poll /\ Cardinality(poll.page) <= PageLimit
  BY <1>1 DEF PInv, PollTypeOK, Asking
<1>4. /\ poll' \in Poll
      /\ poll'.judged = poll.judged /\ poll'.last \in {Null, poll.last}
      /\ poll'.stage = poll.stage /\ poll'.page = poll.page
      /\ poll'.readBefore = poll.readBefore /\ poll'.retiredBefore = poll.retiredBefore
  <2>1. ASSUME NEW place \in Place, Ask(place) PROVE <1>4!1 /\ <1>4!2 /\ <1>4!3 /\ <1>4!4
    <3>1. PICK answered \in SUBSET {p \in Pair : mesh[<<place, p>>] # Null}, failed \in BOOLEAN :
            poll' = [poll EXCEPT
              !.todo = @ \ {place},
              !.replies = {[place |-> place, pair |-> p, envelope |-> mesh[<<place, p>>]] : p \in answered},
              !.incomplete = @ \/ failed]
      BY <2>1 DEF Ask
    <3>2. \A p \in answered : mesh[<<place, p>>] \in Envelope
      BY DEF PInv, PollTypeOK, Key
    <3>3. \A p \in answered : [place |-> place, pair |-> p, envelope |-> mesh[<<place, p>>]] \in Arrival
      BY <3>2 DEF Arrival
    <3>4. PICK found \in SUBSET Arrival, error \in BOOLEAN :
            poll' = [poll EXCEPT !.todo = @ \ {place}, !.replies = found, !.incomplete = error]
      <4>1. {[place |-> place, pair |-> p, envelope |-> mesh[<<place, p>>]] : p \in answered}
              \in SUBSET Arrival
        BY <3>3
      <4>2. (poll.incomplete \/ failed) \in BOOLEAN
        OBVIOUS
      <4>3. QED
        BY <3>1, <4>1, <4>2
    <3>5. QED
      BY <1>3, <3>4 DEF Poll
  <2>2. CASE SelectorFails
    <3>1. CASE poll' = [poll EXCEPT !.replies = {}, !.incomplete = TRUE]
      BY <1>3, <3>1 DEF Poll
    <3>2. ASSUME NEW place \in poll.todo,
                 poll' = [poll EXCEPT !.todo = @ \ {place}, !.incomplete = TRUE]
          PROVE  <1>4!1 /\ <1>4!2 /\ <1>4!3 /\ <1>4!4
      BY <1>3, <3>2 DEF Poll
    <3>3. QED
      BY <2>2, <3>1, <3>2 DEF SelectorFails
  <2>3. ASSUME NEW reply \in Arrival, Undecodable(reply) \/ SeenBefore(reply)
        PROVE  <1>4!1 /\ <1>4!2 /\ <1>4!3 /\ <1>4!4
    <3>1. CASE poll' = [poll EXCEPT !.replies = @ \ {reply}, !.incomplete = TRUE]
      BY <1>3, <3>1 DEF Poll
    <3>2. CASE poll' = [poll EXCEPT !.replies = @ \ {reply}]
      BY <1>3, <3>2 DEF Poll
    <3>3. QED
      BY <2>3, <3>1, <3>2 DEF Undecodable, SeenBefore
  <2>4. CASE Expunge
    BY <1>3, <2>4 DEF Expunge, Poll
  <2>5. QED
    BY <2>1, <2>2, <2>3, <2>4
<1>5. mesh' \in [Key -> Envelope \cup {Null}]
  BY DEF PInv, PollTypeOK, Ask, SelectorFails, Undecodable, SeenBefore, Expunge
<1>6. PollTypeOK'
  BY <1>1, <1>2, <1>3, <1>4, <1>5 DEF PInv, PollTypeOK, InboxPart, IInv
<1>7. PollSound' /\ PageFromMessages' /\ ArrivalsAccountedFor'
  BY <1>1, <1>2, <1>3, <1>4, PollGoesOn
<1>8. QED
  BY <1>2, <1>6, <1>7 DEF PInv, InboxPart

\* A classification, committed or failed, adds one right judgement.
LEMMA JudgeInvariant ==
  ASSUME PInv, NEW reply \in Arrival, Classify(reply) \/ ClassifyFails(reply)
  PROVE  PInv'
<1>1. /\ poll # Null /\ poll.stage = "asking" /\ reply.pair \notin SeenIds
      /\ UNCHANGED <<mesh, sent, sweep, read>>
  BY DEF Classify, ClassifyFails, Asking
<1>2. poll \in Poll /\ Cardinality(poll.page) <= PageLimit
  BY <1>1 DEF PInv, PollTypeOK
<1>3. reply.pair \in Pair /\ reply.envelope \in Envelope
  BY DEF Arrival
<1>4. PICK j, last :
        /\ j \in Judgement /\ j.pair = reply.pair
        /\ last \in Arrival \cup {Null} /\ (last # Null => Remembered(last.pair)')
        /\ poll' = [poll EXCEPT !.replies = @ \ {reply}, !.last = last,
                                !.judged = @ \cup {j}]
        /\ j.code # "classification_failed" => Remembered(j.pair)'
        /\ j.acked => j.pair \in read
        /\ j.pair \in poll.readBefore => j.acked \/ j.code \in Refusals
        /\ j.pair \in poll.retiredBefore => j.code \in Refusals
  <2>1. CASE Classify(reply)
    <3> DEFINE code == Verdict(reply.pair, reply.envelope)
               j == [pair |-> reply.pair, envelope |-> reply.envelope, code |-> code,
                     acked |-> AckedVerdict(reply.pair, code)]
    <3>1. Arrive(reply.pair, reply.envelope)
      BY <2>1 DEF Classify
    <3>2. /\ j \in Judgement
          /\ j.code # "classification_failed" => Remembered(j.pair)'
          /\ j.acked => j.pair \in read
          /\ j.pair \in poll.readBefore => j.acked \/ j.code \in Refusals
          /\ j.pair \in poll.retiredBefore => j.code \in Refusals
      BY <1>1, <3>1, JudgementRight
    <3>3. Remembered(reply.pair)'
      BY <1>1, <1>3, <3>1, ArriveKeeps DEF PInv
    <3>4. poll' = [poll EXCEPT !.replies = @ \ {reply}, !.last = reply, !.judged = @ \cup {j}]
      BY <2>1 DEF Classify
    <3>5. j.pair = reply.pair
      OBVIOUS
    <3> HIDE DEF j
    <3>6. QED
      BY <3>2, <3>3, <3>4, <3>5
  <2>2. CASE ClassifyFails(reply)
    <3> DEFINE j == [pair |-> reply.pair, envelope |-> reply.envelope, acked |-> FALSE,
                     code |-> "classification_failed"]
    <3>1. poll' = [poll EXCEPT !.replies = @ \ {reply}, !.last = Null, !.judged = @ \cup {j}]
      BY <2>2 DEF ClassifyFails, KeptForRetry
    <3>2. /\ j \in Judgement /\ j.pair = reply.pair
          /\ j.code = "classification_failed" /\ ~j.acked /\ j.code \in Refusals
      BY <1>3 DEF Judgement, DiagnosticCodes, Refusals
    <3> HIDE DEF j
    <3>3. QED
      BY <3>1, <3>2
  <2>3. QED
    BY <2>1, <2>2
<1>5. InboxPart' /\ KnowledgeGrows
  <2>1. CASE Classify(reply)
    BY <1>1, <1>3, <2>1, ArriveKeeps DEF PInv, InboxPart, Classify
  <2>2. CASE ClassifyFails(reply)
    BY <1>1, <2>2, RestKeeps DEF PInv, InboxPart, ClassifyFails
  <2>3. QED
    BY <2>1, <2>2
<1>6. /\ poll' \in Poll /\ poll'.judged = poll.judged \cup {j} /\ poll'.last = last
      /\ poll'.stage = "asking" /\ poll'.page = poll.page
      /\ poll'.readBefore = poll.readBefore /\ poll'.retiredBefore = poll.retiredBefore
  BY <1>1, <1>2, <1>4 DEF Poll
<1>7. poll' # Null
  BY <1>6, PollAssumption
<1>8. PollTypeOK'
  BY <1>1, <1>2, <1>5, <1>6 DEF PInv, PollTypeOK, InboxPart, IInv
<1>9. IsFiniteSet(SeenIds)'
  <2>1. SeenIds' = SeenIds \cup {j.pair}
    BY <1>6 DEF SeenIds
  <2>2. IsFiniteSet(SeenIds)
    BY <1>1 DEF PInv, PollSound
  <2>3. IsFiniteSet(SeenIds \cup {j.pair})
    BY <2>2, FS_AddElement
  <2>4. QED
    BY <2>1, <2>3
<1>10. \A i, k \in poll'.judged : i.pair = k.pair => i = k
  <2>1. \A k \in poll.judged : k.pair # j.pair
    BY <1>1, <1>4 DEF SeenIds
  <2>2. QED
    BY <1>1, <1>6, <2>1 DEF PInv, PollSound
<1>11. \A k \in poll'.judged : JudgedRight(k)'
  <2>1. \A k \in poll.judged : JudgedRight(k)'
    BY <1>1, <1>5, <1>6, <1>7, JudgementStaysRight DEF PInv, PollSound
  <2>2. JudgedRight(j)'
    BY <1>1, <1>4, <1>6 DEF JudgedRight
  <2>3. QED
    BY <1>6, <2>1, <2>2
<1>12. PollSound'
  <2>1. poll.readBefore \subseteq read' /\ \A p \in poll.retiredBefore : tomb'[p] # Null
    BY <1>1, <1>2, <1>5 DEF PInv, PollSound, KnowledgeGrows, Poll
  <2>2. QED
    BY <1>4, <1>6, <1>9, <1>10, <1>11, <2>1 DEF PollSound
<1>13. PageFromMessages' /\ ArrivalsAccountedFor'
  BY <1>6 DEF PageFromMessages, ArrivalsAccountedFor, Reported
<1>14. QED
  BY <1>5, <1>8, <1>12, <1>13 DEF PInv, InboxPart

\* index.purge_expired, committed or failed, in the middle of a poll.
LEMMA PollPurgeInvariant ==
  ASSUME PInv, PollPurge
  PROVE  PInv'
<1>1. UNCHANGED <<mesh, sent, sweep, read>> /\ Asking
  BY DEF PollPurge
<1>2. InboxPart' /\ KnowledgeGrows
  BY <1>1, RestKeeps, PurgeKeeps DEF PInv, InboxPart, PollPurge
<1>3. poll # Null /\ poll \in Poll /\ Cardinality(poll.page) <= PageLimit
  BY <1>1 DEF PInv, PollTypeOK, Asking
<1>4. /\ poll' \in Poll
      /\ poll'.judged = poll.judged /\ poll'.last = poll.last
      /\ poll'.stage = "purged" /\ poll'.page = poll.page
      /\ poll'.readBefore = poll.readBefore /\ poll'.retiredBefore = poll.retiredBefore
  BY <1>3 DEF PollPurge, Poll
<1>5. PollTypeOK'
  BY <1>1, <1>2, <1>3, <1>4 DEF PInv, PollTypeOK, InboxPart, IInv
<1>6. PollSound' /\ PageFromMessages' /\ ArrivalsAccountedFor'
  BY <1>1, <1>2, <1>3, <1>4, PollGoesOn
<1>7. QED
  BY <1>2, <1>5, <1>6 DEF PInv, InboxPart

\* The report: a page is all the messages, or full with more of them.
LEMMA PollReportInvariant ==
  ASSUME PInv, PollReport
  PROVE  PInv'
<1> DEFINE ids == {j.pair : j \in Filtered}
<1>1. UNCHANGED <<inboxVars, mesh, sent, sweep, read>> /\ poll # Null
  BY DEF PollReport
<1>2. InboxPart' /\ KnowledgeGrows
  BY <1>1, RestKeeps DEF PInv, InboxPart
<1>3. poll \in Poll
  BY <1>1 DEF PInv, PollTypeOK
<1>4. PICK page \in SUBSET ids :
        /\ Page(page, ids)
        /\ poll' = [poll EXCEPT !.stage = "reported", !.page = page,
                                !.truncated = Cardinality(ids) > PageLimit]
  BY DEF PollReport
<1>5. Filtered \subseteq poll.judged
  BY DEF Filtered
<1>6. IsFiniteSet(ids) /\ IsFiniteSet(page) /\ ids \subseteq SeenIds
  <2>1. ids \subseteq SeenIds
    BY <1>5 DEF SeenIds
  <2>2. IsFiniteSet(SeenIds)
    BY <1>1 DEF PInv, PollSound
  <2>3. IsFiniteSet(ids)
    BY <2>1, <2>2, FS_Subset
  <2>4. QED
    BY <2>1, <2>3, FS_Subset
<1>7. Cardinality(ids) \in Nat /\ Cardinality(page) \in Nat
  BY <1>6, FS_CardinalityType
<1>8. Cardinality(page) <= PageLimit
  BY <1>4, <1>7, PollAssumption DEF Page
<1>9. page = ids \/ Cardinality(ids) > PageLimit
  <2>1. Cardinality(page) <= Cardinality(ids) /\ (Cardinality(ids) = Cardinality(page) => ids = page)
    BY <1>6, FS_Subset
  <2>2. QED
    BY <1>4, <1>7, <2>1, PollAssumption DEF Page
<1>10. ids \subseteq Pair
  BY <1>3, <1>5 DEF Poll, Judgement
<1> HIDE DEF ids
<1>11. /\ poll' \in Poll /\ poll'.judged = poll.judged /\ poll'.last = poll.last
       /\ poll'.options = poll.options /\ poll'.page = page
       /\ poll'.truncated = (Cardinality(ids) > PageLimit)
       /\ poll'.readBefore = poll.readBefore /\ poll'.retiredBefore = poll.retiredBefore
  <2>1. (Cardinality(ids) > PageLimit) \in BOOLEAN
    OBVIOUS
  <2>2. QED
    BY <1>3, <1>4, <1>10, <2>1 DEF Poll
<1>12. PollTypeOK'
  BY <1>1, <1>2, <1>8, <1>11 DEF PInv, PollTypeOK, InboxPart, IInv
<1>13. \A j \in poll.judged : JudgedRight(j)'
  BY <1>1, <1>2, <1>11, PollAssumption, JudgementStaysRight DEF PInv, PollSound
<1>14. PollSound'
  <2>1. IsFiniteSet(SeenIds)'
    BY <1>1, <1>11 DEF PInv, PollSound, SeenIds
  <2>2. (poll.last # Null => poll.last.pair \in Pair) /\ poll.retiredBefore \subseteq Pair
    BY <1>3 DEF Poll, Arrival
  <2>3. QED
    BY <1>1, <1>2, <1>11, <1>13, <2>1, <2>2 DEF PInv, PollSound, KnowledgeGrows
<1>15. \A j \in poll.judged : (Diagnosed(j)' <=> Diagnosed(j)) /\ (PastDeadline(j.envelope)' <=> PastDeadline(j.envelope))
  BY <1>1, <1>11 DEF Diagnosed, AskedToSee, PastDeadline, inboxVars
<1>16. PageFromMessages'
  <2>1. \A p \in ids : \E j \in poll.judged : j.pair = p /\ ~Diagnosed(j)
    BY <1>5 DEF ids, Filtered
  <2>2. QED
    BY <1>4, <1>11, <1>15, <2>1 DEF PageFromMessages
<1>17. ArrivalsAccountedFor'
  <2> SUFFICES ASSUME NEW j \in poll.judged, ~Diagnosed(j), j.pair \notin page
               PROVE  \/ poll'.truncated /\ j \in Filtered'
                      \/ /\ Remembered(j.pair)'
                         /\ \/ j.pair \in read' /\ ~poll'.options.acked
                            \/ PastDeadline(j.envelope)' /\ ~poll'.options.expired
                            \/ j.envelope \in Early /\ poll'.options.since
    BY <1>11, <1>15 DEF ArrivalsAccountedFor
  <2>1. CASE j \in Filtered
    <3>1. j.pair \in ids
      BY <2>1 DEF ids
    <3>2. j \in Filtered'
      BY <1>11, <1>15, <2>1 DEF Filtered
    <3>3. QED
      BY <1>9, <1>11, <3>1, <3>2
  <2>2. CASE j \notin Filtered
    <3>1. \/ ~poll.options.expired /\ PastDeadline(j.envelope)
          \/ ~poll.options.acked /\ j.acked
          \/ poll.options.since /\ j.envelope \in Early
      BY <2>2 DEF Filtered
    <3>2. JudgedRight(j)'
      BY <1>13
    <3>3. j.code # "classification_failed"
      BY DEF Diagnosed, DiagnosticCodes, AskedToSee
    <3>4. QED
      BY <1>11, <1>15, <3>1, <3>2, <3>3 DEF JudgedRight
  <2>3. QED
    BY <2>1, <2>2
<1>18. QED
  BY <1>2, <1>12, <1>14, <1>16, <1>17 DEF PInv, InboxPart

\* The tools and processes around a poll.
LEMMA OthersInvariant ==
  ASSUME PInv,
         \/ \E p \in Pair, a \in AckTime : AckMessage(p, a)
         \/ \E place \in Place, p \in Pair, e \in Envelope : Publish(place, p, e)
         \/ SweepScan
         \/ \E k \in Key : SweepDelete(k)
         \/ SweepEnd
         \/ Clock
         \/ UNCHANGED pollVars
  PROVE  PInv'
<1>1. UNCHANGED poll /\ read \subseteq read'
  BY DEF AckMessage, Publish, SweepScan, SweepDelete, SweepEnd, Clock, pollVars
<1>2. InboxPart' /\ KnowledgeGrows
  <2>1. ASSUME NEW p \in Pair, NEW a \in AckTime, AckMessage(p, a)
        PROVE  InboxPart' /\ KnowledgeGrows
    BY <2>1, AckKeeps DEF PInv, InboxPart, AckMessage
  <2>2. CASE PurgeExpired /\ UNCHANGED read
    BY <2>2, PurgeKeeps DEF PInv, InboxPart
  <2>3. CASE (Tick \/ UNCHANGED inboxVars) /\ UNCHANGED read
    BY <2>3, RestKeeps DEF PInv, InboxPart
  <2>4. QED
    BY <2>1, <2>2, <2>3 DEF Publish, SweepScan, SweepDelete, SweepEnd, Clock, pollVars, inboxVars
<1>3. /\ mesh' \in [Key -> Envelope \cup {Null}]
      /\ sent' \in 0..MaxMail
      /\ sweep' # Null => sweep' \subseteq Key
      /\ read' \subseteq Pair
  <2>1. ASSUME NEW p \in Pair, NEW a \in AckTime, AckMessage(p, a) PROVE <1>3
    BY <2>1 DEF AckMessage, PInv, PollTypeOK
  <2>2. ASSUME NEW place \in Place, NEW p \in Pair, NEW e \in Envelope, Publish(place, p, e)
        PROVE  <1>3
    <3>1. mesh' \in [Key -> Envelope \cup {Null}]
      BY <2>2 DEF Publish, PInv, PollTypeOK
    <3>2. sent' \in 0..MaxMail
      BY <2>2, PollAssumption DEF Publish, PInv, PollTypeOK
    <3>3. QED
      BY <2>2, <3>1, <3>2 DEF Publish, PInv, PollTypeOK
  <2>3. CASE SweepScan
    BY <2>3 DEF SweepScan, inboxVars, PInv, PollTypeOK
  <2>4. ASSUME NEW k \in Key, SweepDelete(k) PROVE <1>3
    BY <2>4 DEF SweepDelete, PInv, PollTypeOK
  <2>5. CASE SweepEnd
    BY <2>5 DEF SweepEnd, PInv, PollTypeOK
  <2>6. CASE Clock \/ UNCHANGED pollVars
    BY <2>6 DEF Clock, pollVars, PInv, PollTypeOK
  <2>7. QED
    BY <2>1, <2>2, <2>3, <2>4, <2>5, <2>6
<1>4. PollTypeOK'
  BY <1>1, <1>2, <1>3 DEF PInv, PollTypeOK, InboxPart, IInv
<1>5. PollSound' /\ PageFromMessages' /\ ArrivalsAccountedFor'
  BY <1>1, <1>2, PollUntouched
<1>6. QED
  BY <1>2, <1>4, <1>5 DEF PInv, InboxPart

-----------------------------------------------------------------------------
LEMMA PollStepInvariant == PInv /\ [PollNext]_pollVars => PInv'
<1> SUFFICES ASSUME PInv, [PollNext]_pollVars PROVE PInv'
  OBVIOUS
<1>1. CASE \E options \in Options : PollStart(options)
  BY <1>1, PollStartInvariant
<1>2. CASE \/ \E place \in Place : Ask(place)
           \/ SelectorFails
           \/ \E reply \in Arrival : Undecodable(reply) \/ SeenBefore(reply)
           \/ Expunge
  BY <1>2, PollQuietInvariant
<1>3. CASE \E reply \in Arrival : Classify(reply) \/ ClassifyFails(reply)
  BY <1>3, JudgeInvariant
<1>4. CASE PollPurge
  BY <1>4, PollPurgeInvariant
<1>5. CASE PollReport
  BY <1>5, PollReportInvariant
<1>6. CASE \/ \E p \in Pair, a \in AckTime : AckMessage(p, a)
           \/ \E place \in Place, p \in Pair, e \in Envelope : Publish(place, p, e)
           \/ SweepScan
           \/ \E k \in Key : SweepDelete(k)
           \/ SweepEnd
           \/ Clock
           \/ UNCHANGED pollVars
  BY <1>6, OthersInvariant
<1>7. QED
  BY <1>1, <1>2, <1>3, <1>4, <1>5, <1>6 DEF PollNext

\* Every reachable state of the messaging tools satisfies the invariant.
THEOREM PollInvariant == PollSpec => []PInv
<1>1. PollInit => PInv
  BY PollInitInvariant
<1>2. PInv /\ [PollNext]_pollVars => PInv'
  BY PollStepInvariant
<1>3. QED
  BY <1>1, <1>2, PTL DEF PollSpec

\* The inbox, the message keys and the poll keep their types, and no page is
\* longer than the limit of check_messages.
THEOREM PollTypeCorrect == PollSpec => []PollTypeOK
<1>1. PInv => PollTypeOK
  BY DEF PInv
<1>2. QED
  BY <1>1, PollInvariant, PTL

\* No arrival vanishes without a trace: the loop, the filters and the cut of
\* check_messages leave each one listed, diagnosed, or known to the index.
THEOREM NoArrivalVanishes == PollSpec => []ArrivalsAccountedFor
<1>1. PInv => ArrivalsAccountedFor
  BY DEF PInv
<1>2. QED
  BY <1>1, PollInvariant, PTL

\* What was acknowledged before a poll is never listed by it as unread: it is
\* read, or its id is retired and its arrivals are refused.
THEOREM ReadStaysRead == PollSpec => []AckedStaysRead
<1>1. PInv => AckedStaysRead
  <2> SUFFICES ASSUME PInv, Reported, NEW j \in poll.judged, j.pair \in poll.page,
                      j.pair \in poll.readBefore
               PROVE  j.acked
    BY DEF AckedStaysRead
  <2>1. poll # Null
    BY DEF Reported
  <2>2. PICK k \in poll.judged : k.pair = j.pair /\ ~Diagnosed(k)
    BY DEF PInv, PageFromMessages
  <2>3. k = j
    BY <2>1, <2>2 DEF PInv, PollSound
  <2>4. j.code \notin Refusals
    BY <2>2, <2>3 DEF Refusals, Diagnosed, DiagnosticCodes, AskedToSee
  <2>5. QED
    BY <2>1, <2>4 DEF PInv, PollSound, JudgedRight
<1>2. QED
  BY <1>1, PollInvariant, PTL

\* A retired id is listed by no later poll, with include_expired or without.
THEOREM RetiredStaysOut == PollSpec => []RetiredNotDelivered
<1>1. PInv => RetiredNotDelivered
  <2> SUFFICES ASSUME PInv, Reported, NEW p \in poll.page, p \in poll.retiredBefore
               PROVE  FALSE
    BY DEF RetiredNotDelivered
  <2>1. poll # Null
    BY DEF Reported
  <2>2. PICK j \in poll.judged : j.pair = p /\ ~Diagnosed(j)
    BY DEF PInv, PageFromMessages
  <2>3. j.code \in Refusals
    BY <2>1, <2>2 DEF PInv, PollSound, JudgedRight
  <2>4. QED
    BY <2>2, <2>3 DEF Refusals, Diagnosed, DiagnosticCodes, AskedToSee
<1>2. QED
  BY <1>1, PollInvariant, PTL

\* A poll deletes a message key only for an id the index has: the classify
\* step of check_messages comes before its delete, and a purge in between
\* leaves a tombstone.
THEOREM OnlyKnownDeleted == PollSpec => PollDeletesKnown
<1> DEFINE Known == \A k \in Key : mesh[k] # Null /\ mesh'[k] = Null /\ sweep' = sweep
                                     => Remembered(k[2])
<1>1. PInv /\ [PollNext]_pollVars => [Known]_pollVars
  <2> SUFFICES ASSUME PInv, PollNext, NEW k \in Key, mesh[k] # Null, mesh'[k] = Null,
                      sweep' = sweep
               PROVE  Remembered(k[2])
    OBVIOUS
  <2>1. mesh' # mesh
    OBVIOUS
  <2>2. ASSUME NEW q \in Key, SweepDelete(q) PROVE FALSE
    BY <2>2 DEF SweepDelete
  <2>3. ASSUME NEW place \in Place, NEW p \in Pair, NEW e \in Envelope, Publish(place, p, e)
        PROVE  FALSE
    <3>1. e # Null
      BY ConstantsAssumption
    <3>2. QED
      BY <2>3, <3>1 DEF Publish, PInv, PollTypeOK
  <2>4. CASE Expunge
    <3>1. /\ poll # Null /\ poll.last # Null
          /\ mesh' = [mesh EXCEPT ![<<poll.last.place, poll.last.pair>>] = Null]
      BY <2>1, <2>4 DEF Expunge, Asking
    <3>2. poll.last \in Arrival
      BY <3>1 DEF PInv, PollTypeOK, Poll
    <3>3. k = <<poll.last.place, poll.last.pair>>
      BY <3>1, <3>2 DEF PInv, PollTypeOK
    <3>4. Remembered(poll.last.pair)
      BY <3>1 DEF PInv, PollSound
    <3>5. QED
      BY <3>3, <3>4
  <2>5. QED
    BY <2>1, <2>2, <2>3, <2>4 DEF PollNext, PollStart, Ask, SelectorFails, Undecodable,
       SeenBefore, Classify, ClassifyFails, PollPurge, PollReport, AckMessage, SweepScan,
       SweepEnd, Clock
<1>2. QED
  BY <1>1, PollInvariant, PTL DEF PollSpec, PollDeletesKnown

-----------------------------------------------------------------------------
(* Types and subscribers. *)

\* A thread that is about to declare the subscribers has a session, if perhaps one
\* that has been closed since.
SubscribesOnOne == \A t \in Thread : pc[t] = "subscribe" => mine[t] # 0

SubscriberInv == SessionTypeOK /\ SubscribersTracked /\ SubscribesOnOne

\* The subscribers as the session sees them.
Tracked(c, cur) ==
  /\ c \in Sub
  /\ c.live = IF c.cached # 0 THEN 1 ELSE 0
  /\ c.cached # 0 => c.cached = cur /\ c.bound = cur

\* _reset_subscribers leaves nothing behind.
LEMMA UndeclaredIsSilent ==
  ASSUME NEW c, NEW cur, Tracked(c, cur)
  PROVE  Undeclared(c, cur) = Silent
BY DEF Tracked, Undeclared, Silent, Sub

\* _ensure_subscribers keeps track, on whichever session it is called.
LEMMA EnsuredIsTracked ==
  ASSUME NEW c, NEW s \in 1..MaxSessions, NEW cur, NEW ok \in BOOLEAN, Tracked(c, cur)
  PROVE  Tracked(Ensured(c, s, cur, ok), cur)
<1>1. CASE index # "open" \/ (c.bound = s /\ c.cached # 0)
  BY <1>1 DEF Ensured
<1>2. CASE ~(index # "open" \/ (c.bound = s /\ c.cached # 0)) /\ ok /\ s = cur
  BY <1>2, UndeclaredIsSilent, SessionAssumption DEF Ensured, Tracked, Silent, Sub
<1>3. CASE ~(index # "open" \/ (c.bound = s /\ c.cached # 0)) /\ ~(ok /\ s = cur)
  BY <1>3, UndeclaredIsSilent, SessionAssumption DEF Ensured, Tracked, Silent, Sub
<1> QED BY <1>1, <1>2, <1>3

\* With no session nothing is cached, so opening one declares on a clean slate.
LEMMA OpenedIsTracked ==
  ASSUME NEW s \in 1..MaxSessions, NEW ok \in BOOLEAN, Tracked(sub, 0)
  PROVE  Tracked(Ensured(sub, s, s, ok), s)
<1>1. sub.cached = 0 /\ sub.live = 0 /\ sub \in Sub
  BY DEF Tracked, Sub
<1>2. Tracked(sub, s)
  BY <1>1 DEF Tracked
<1> QED BY <1>2, EnsuredIsTracked

\* Every step keeps the types, the tracking and the session of a declaration.
LEMMA SubscriberStep ==
  SubscriberInv /\ [SessionNext]_threadVars => SubscriberInv'
<1> SUFFICES ASSUME SubscriberInv, [SessionNext]_threadVars
             PROVE  SubscriberInv'
  OBVIOUS
<1> USE SessionAssumption DEF SubscriberInv
<1>t. "main" \in Thread /\ "drain" \in Thread /\ Worker \subseteq Thread /\ Caller \subseteq Thread
  BY DEF Thread, Caller
<1>s. Tracked(sub, session)
  BY DEF SessionTypeOK, SubscribersTracked, Tracked
<1>1. ASSUME NEW t \in Thread, GetCached(t) PROVE SubscriberInv'
  BY <1>1, <1>t DEF GetCached, GetsSession, AfterSession, GoTo, sessionVars, workerVars, SessionTypeOK, SubscribersTracked,
     SubscribesOnOne, Stages
<1>2. ASSUME NEW t \in Thread, OpenFails(t) PROVE SubscriberInv'
  BY <1>2, <1>t DEF OpenFails, GetsSession, GoTo, Fault, sessionVars, workerVars, SessionTypeOK, SubscribersTracked,
     SubscribesOnOne, Stages
<1>3. ASSUME NEW t \in Caller, Begin(t) PROVE SubscriberInv'
  BY <1>3, <1>t DEF Begin, GoTo, sessionVars, workerVars, SessionTypeOK, SubscribersTracked,
     SubscribesOnOne, Stages
<1>4. ASSUME NEW t \in Caller, Put(t) PROVE SubscriberInv'
  BY <1>4, <1>t DEF Put, GoTo, sessionVars, workerVars, SessionTypeOK, SubscribersTracked,
     SubscribesOnOne, Stages
<1>5. ASSUME NEW t \in Caller, PutFails(t) PROVE SubscriberInv'
  BY <1>5, <1>t DEF PutFails, GoTo, Fault, sessionVars, workerVars, SessionTypeOK, SubscribersTracked,
     SubscribesOnOne, Stages
<1>6. ASSUME NEW t \in Caller, LookUp(t) PROVE SubscriberInv'
  BY <1>6, <1>t DEF LookUp, GoTo, Home, sessionVars, workerVars, SessionTypeOK, SubscribersTracked,
     SubscribesOnOne, Stages
<1>7. ASSUME NEW t \in Caller, NEW kind \in {"open", "disabled"}, Connect(t, kind) PROVE SubscriberInv'
  BY <1>7, <1>t DEF Connect, GoTo, Home, Fault, sessionVars, workerVars, SessionTypeOK, SubscribersTracked,
     SubscribesOnOne, Stages
<1>8. ASSUME NEW t \in Caller, StartWorker(t) PROVE SubscriberInv'
  BY <1>8, <1>t DEF StartWorker, GoTo, Home, Running, sessionVars, workerVars, SessionTypeOK, SubscribersTracked,
     SubscribesOnOne, Stages
<1>9. ASSUME NEW t \in Caller, Launch(t) PROVE SubscriberInv'
  BY <1>9, <1>t DEF Launch, Home, sessionVars, SessionTypeOK, SubscribersTracked,
     SubscribesOnOne, Stages
<1>10. ASSUME NEW w \in Worker, Wake(w) PROVE SubscriberInv'
  BY <1>10, <1>t DEF Wake, GoTo, sessionVars, workerVars, SessionTypeOK, SubscribersTracked,
     SubscribesOnOne, Stages
<1>11. ASSUME NEW w \in Worker, ScanEnds(w) PROVE SubscriberInv'
  BY <1>11, <1>t DEF ScanEnds, GoTo, sessionVars, workerVars, SessionTypeOK, SubscribersTracked,
     SubscribesOnOne, Stages
<1>12. ASSUME NEW w \in Worker, Unregister(w) PROVE SubscriberInv'
  BY <1>12, <1>t DEF Unregister, GoTo, sessionVars, SessionTypeOK, SubscribersTracked,
     SubscribesOnOne, Stages
<1>13. ASSUME NextRow PROVE SubscriberInv'
  BY <1>13, <1>t DEF NextRow, GoTo, sessionVars, workerVars, SessionTypeOK, SubscribersTracked,
     SubscribesOnOne, Stages
<1>14. ASSUME NextCall PROVE SubscriberInv'
  BY <1>14, <1>t DEF NextCall, GoTo, sessionVars, workerVars, SessionTypeOK, SubscribersTracked,
     SubscribesOnOne, Stages
<1>15. ASSUME DrainEnds PROVE SubscriberInv'
  BY <1>15, <1>t DEF DrainEnds, GoTo, sessionVars, workerVars, SessionTypeOK, SubscribersTracked,
     SubscribesOnOne, Stages
<1>16. ASSUME StopDrain PROVE SubscriberInv'
  BY <1>16, <1>t DEF StopDrain, GoTo, sessionVars, SessionTypeOK, SubscribersTracked,
     SubscribesOnOne, Stages
<1>17. ASSUME Disable PROVE SubscriberInv'
  BY <1>17, <1>t DEF Disable, GoTo, sessionVars, SessionTypeOK, SubscribersTracked,
     SubscribesOnOne, Stages
<1>18. ASSUME StopWorker PROVE SubscriberInv'
  BY <1>18, <1>t DEF StopWorker, GoTo, sessionVars, SessionTypeOK, SubscribersTracked,
     SubscribesOnOne, Stages
<1>19. ASSUME Join PROVE SubscriberInv'
  BY <1>19, <1>t DEF Join, GoTo, sessionVars, SessionTypeOK, SubscribersTracked,
     SubscribesOnOne, Stages
<1>20. ASSUME NEW t \in Thread, NEW declares \in BOOLEAN, OpenSession(t, declares) PROVE SubscriberInv'
  <2>1. session = 0 /\ opened + 1 \in 1..MaxSessions /\ session' = opened + 1
    BY <1>20 DEF OpenSession, SessionTypeOK
  <2>2. Tracked(sub', session')
    BY <1>20, <1>s, <2>1, OpenedIsTracked DEF OpenSession
  <2>3. sub' \in Sub /\ refused' \subseteq 0..MaxSessions /\ faults' \in 0..MaxFaults
    <3>1. sub' \in Sub
      BY <2>2 DEF Tracked
    <3>2. refused' = refused \/ refused' = refused \cup {opened + 1}
      BY <1>20 DEF OpenSession
    <3>3. UNCHANGED faults \/ Fault
      BY <1>20 DEF OpenSession
    <3>4. faults' \in 0..MaxFaults
      BY <3>3 DEF SessionTypeOK, Fault
    <3>5. refused' \subseteq 0..MaxSessions
      <4>1. refused \subseteq 0..MaxSessions
        BY DEF SessionTypeOK
      <4>2. opened + 1 \in 0..MaxSessions
        BY <2>1
      <4> QED BY <3>2, <4>1, <4>2, Zenon
    <3> QED BY <3>1, <3>4, <3>5
  <2>5. pc' \in [Thread -> Stages] /\ mine' \in [Thread -> 0..MaxSessions]
    BY <1>20, <2>1 DEF OpenSession, SessionTypeOK, AfterSession, GoTo, Stages
  <2>6. SessionTypeOK'
    BY <1>20, <2>1, <2>3, <2>5 DEF OpenSession, SessionTypeOK, workerVars
  <2>4. SubscribesOnOne'
    BY <1>20, <1>t, <2>1 DEF OpenSession, SessionTypeOK, SubscribesOnOne, GoTo, AfterSession
  <2> QED BY <2>2, <2>6, <2>4 DEF SubscribersTracked, Tracked
<1>21. ASSUME NEW t \in Caller, Reset(t) PROVE SubscriberInv'
  <2>1. Tracked(Silent, session') /\ Silent \in Sub
    BY DEF Tracked, Silent, Sub
  <2> QED BY <1>21, <1>t, <2>1 DEF Reset, GoTo, SessionTypeOK, SubscribersTracked, SubscribesOnOne,
             Stages, Tracked, workerVars
<1>22. ASSUME NEW t \in Caller, NEW declares \in BOOLEAN, Subscribe(t, declares) PROVE SubscriberInv'
  <2>1. mine[t] \in 1..MaxSessions
    BY <1>22, <1>t DEF Subscribe, SubscribesOnOne, SessionTypeOK
  <2>2. Tracked(sub', session')
    BY <1>22, <1>s, <2>1, EnsuredIsTracked DEF Subscribe
  <2>3. sub' \in Sub /\ refused' \subseteq 0..MaxSessions /\ faults' \in 0..MaxFaults
    <3>1. sub' \in Sub
      BY <2>2 DEF Tracked
    <3>2. refused' = refused \/ refused' = refused \cup {mine[t]}
      BY <1>22 DEF Subscribe
    <3>3. UNCHANGED faults \/ Fault
      BY <1>22 DEF Subscribe
    <3>4. faults' \in 0..MaxFaults
      BY <3>3 DEF SessionTypeOK, Fault
    <3>5. refused' \subseteq 0..MaxSessions
      <4>1. refused \subseteq 0..MaxSessions
        BY DEF SessionTypeOK
      <4>2. mine[t] \in 0..MaxSessions
        BY <2>1
      <4> QED BY <3>2, <4>1, <4>2, Zenon
    <3> QED BY <3>1, <3>4, <3>5
  <2>5. pc' \in [Thread -> Stages]
    BY <1>22, <1>t DEF Subscribe, SessionTypeOK, GoTo, Stages
  <2>6. SessionTypeOK'
    BY <1>22, <2>3, <2>5 DEF Subscribe, SessionTypeOK, workerVars
  <2>4. SubscribesOnOne'
    BY <1>22, <1>t DEF Subscribe, SessionTypeOK, SubscribesOnOne, GoTo
  <2> QED BY <2>2, <2>6, <2>4 DEF SubscribersTracked, Tracked
<1>23. ASSUME Close PROVE SubscriberInv'
  <2>1. Tracked(Silent, 0) /\ Silent \in Sub
    BY DEF Tracked, Silent, Sub
  <2> QED BY <1>23, <1>t, <2>1 DEF Close, GoTo, SessionTypeOK, SubscribersTracked, SubscribesOnOne,
             Stages, Tracked, workerVars
<1>24. ASSUME UNCHANGED threadVars PROVE SubscriberInv'
  BY <1>24 DEF threadVars, sessionVars, workerVars, SessionTypeOK, SubscribersTracked, SubscribesOnOne
<1> QED
  BY <1>1, <1>2, <1>3, <1>4, <1>5, <1>6, <1>7, <1>8, <1>9, <1>10, <1>11, <1>12, <1>13, <1>14, <1>15, <1>16, <1>17, <1>18, <1>19, <1>20, <1>21, <1>22, <1>23, <1>24 DEF SessionNext, SessionStep,
     CallerStep, WorkerStep, Shutdown

\* The server starts in it.
LEMMA SubscriberStart ==
  SessionInit => SubscriberInv
<1> SUFFICES ASSUME SessionInit PROVE SubscriberInv
  OBVIOUS
<1>1. PICK d \in {0, 1} :
        /\ session = d /\ opened = d
        /\ pc = [t \in Thread |-> IF t \in Worker THEN "unborn"
                                  ELSE IF t = "drain" /\ d = 0 THEN "ended" ELSE "idle"]
  BY DEF SessionInit
<1>2. session \in 0..MaxSessions /\ opened \in 0..MaxSessions
  BY <1>1, SessionAssumption
<1>3. pc \in [Thread -> Stages] /\ \A t \in Thread : pc[t] # "subscribe"
  BY <1>1 DEF Stages
<1>4. sub \in Sub /\ sub.cached = 0 /\ sub.live = 0
  BY SessionAssumption DEF SessionInit, Sub, Silent
<1>5. mine \in [Thread -> 0..MaxSessions]
  BY SessionAssumption DEF SessionInit
<1>6. /\ made \in [Caller -> Worker \cup {NoThread}]
      /\ enabled \in BOOLEAN /\ registered \in Worker \cup {NoThread}
      /\ asked \subseteq Thread /\ joining \in Worker \cup {NoThread}
      /\ drained \in BOOLEAN /\ index \in {"none", "open", "disabled"}
  BY DEF SessionInit
<1>7. faults \in 0..MaxFaults /\ refused \subseteq 0..MaxSessions /\ connects \in Nat
  BY SessionAssumption DEF SessionInit
<1> QED BY <1>2, <1>3, <1>4, <1>5, <1>6, <1>7 DEF SubscriberInv, SessionTypeOK, SubscribersTracked,
           SubscribesOnOne

\* The inductive invariant of the subscribers.
THEOREM SubscriberInvariant ==
  SessionSpec => []SubscriberInv
<1> QED BY SubscriberStart, SubscriberStep, PTL DEF SessionSpec

-----------------------------------------------------------------------------
(* The worker and the shutdown. *)

\* Workers and callers are at stages of their own.
StagesApart ==
  /\ \A w \in Worker :
       pc[w] \in {"unborn", "made", "waiting", "session", "scan", "ending", "ended"}
  /\ \A t \in Caller : pc[t] \notin {"unborn", "made", "waiting", "scan", "ending"}

Opening(t) == pc[t] \in {"indexSession", "subscribe", "start"}
AtRest(w) == pc[w] \in {"unborn", "ended"}

\* While the index has been opened only once, at most one caller can start a worker,
\* it finds none, and a worker that is not at rest is the registered one.
OneWorker ==
  connects < 2 =>
    /\ \A s, t \in Caller :
         (Opening(s) \/ pc[s] = "launch") /\ (Opening(t) \/ pc[t] = "launch") => s = t
    /\ connects = 0 => /\ \A t \in Caller : ~Opening(t) /\ pc[t] # "launch"
                       /\ \A w \in Worker : pc[w] = "unborn"
    /\ \A t \in Caller : Opening(t) => \A w \in Worker : pc[w] = "unborn"
    /\ \A t \in Caller : pc[t] = "launch" => made[t] \in Worker /\ pc[made[t]] = "made"
    /\ \A w \in Worker : ~AtRest(w) => registered = w

\* The shutdown disables the worker before it looks for one, so none is registered
\* behind its back; when it closes the session none is left.
ShutdownInOrder ==
  /\ pc["main"] \in {"stop", "join", "close"} => ~enabled
  /\ pc["main"] = "join" => registered \in {joining, NoThread}
  /\ pc["main"] = "close" /\ connects < 2 => \A w \in Worker : AtRest(w)

WorkerInv == StagesApart /\ OneWorker /\ ShutdownInOrder

\* Every step keeps the stages, the one worker and the order of the shutdown.
LEMMA WorkerStepKeeps ==
  SubscriberInv /\ WorkerInv /\ [SessionNext]_threadVars => WorkerInv'
<1> SUFFICES ASSUME SubscriberInv, WorkerInv, [SessionNext]_threadVars
             PROVE  WorkerInv'
  OBVIOUS
<1> USE SessionAssumption DEF WorkerInv
<1>t. /\ "main" \in Caller /\ "drain" \in Caller /\ Worker \subseteq Thread /\ Caller \subseteq Thread
      /\ \A t \in Thread : t \in Caller \/ t \in Worker
      /\ \A t \in Caller : t \notin Worker
  BY DEF Thread, Caller
<1>p. pc \in [Thread -> Stages] /\ connects \in Nat /\ made \in [Caller -> Worker \cup {NoThread}]
  BY DEF SubscriberInv, SessionTypeOK
<1>1. ASSUME NEW t \in Thread, GetCached(t) PROVE WorkerInv'
  BY <1>1, <1>t, <1>p DEF GetCached, GetsSession, AfterSession, GoTo, sessionVars, workerVars, StagesApart, OneWorker,
     Opening, AtRest, ShutdownInOrder
<1>2. ASSUME NEW t \in Thread, NEW declares \in BOOLEAN, OpenSession(t, declares) PROVE WorkerInv'
  BY <1>2, <1>t, <1>p DEF OpenSession, GetsSession, AfterSession, GoTo, workerVars, StagesApart, OneWorker,
     Opening, AtRest, ShutdownInOrder
<1>3. ASSUME NEW t \in Thread, OpenFails(t) PROVE WorkerInv'
  <2>1. CASE t \in Worker
    <3>1. pc[t] = "session" /\ t # "main" /\ t # "drain" /\ pc' = [pc EXCEPT ![t] = "waiting"]
      BY <1>3, <2>1, <1>t, <1>p DEF OpenFails, GetsSession, GoTo, StagesApart, Caller
    <3> QED BY <1>3, <2>1, <3>1, <1>t, <1>p DEF OpenFails, workerVars, StagesApart, OneWorker,
               Opening, AtRest, ShutdownInOrder
  <2>2. CASE t \in Caller
    <3>1. t = "main" \/ t = "drain"
      BY <2>2 DEF Caller
    <3> QED BY <1>3, <2>2, <3>1, <1>t, <1>p DEF OpenFails, GetsSession, GoTo, workerVars, StagesApart,
               OneWorker, Opening, AtRest, ShutdownInOrder
  <2> QED BY <2>1, <2>2, <1>t
<1>4. ASSUME NEW t \in Caller, Begin(t) PROVE WorkerInv'
  BY <1>4, <1>t, <1>p DEF Begin, GoTo, workerVars, StagesApart, OneWorker,
     Opening, AtRest, ShutdownInOrder
<1>5. ASSUME NEW t \in Caller, Put(t) PROVE WorkerInv'
  BY <1>5, <1>t, <1>p DEF Put, GoTo, workerVars, StagesApart, OneWorker,
     Opening, AtRest, ShutdownInOrder
<1>6. ASSUME NEW t \in Caller, PutFails(t) PROVE WorkerInv'
  BY <1>6, <1>t, <1>p DEF PutFails, GoTo, workerVars, StagesApart, OneWorker,
     Opening, AtRest, ShutdownInOrder
<1>7. ASSUME NEW t \in Caller, Reset(t) PROVE WorkerInv'
  BY <1>7, <1>t, <1>p DEF Reset, GoTo, workerVars, StagesApart, OneWorker,
     Opening, AtRest, ShutdownInOrder
<1>8. ASSUME NEW t \in Caller, LookUp(t) PROVE WorkerInv'
  BY <1>8, <1>t, <1>p DEF LookUp, GoTo, Home, workerVars, StagesApart, OneWorker,
     Opening, AtRest, ShutdownInOrder
<1>9. ASSUME NEW t \in Caller, NEW kind \in {"open", "disabled"}, Connect(t, kind) PROVE WorkerInv'
  BY <1>9, <1>t, <1>p DEF Connect, GoTo, Home, workerVars, StagesApart, OneWorker,
     Opening, AtRest, ShutdownInOrder
<1>10. ASSUME NEW t \in Caller, NEW declares \in BOOLEAN, Subscribe(t, declares) PROVE WorkerInv'
  BY <1>10, <1>t, <1>p DEF Subscribe, GoTo, workerVars, StagesApart, OneWorker,
     Opening, AtRest, ShutdownInOrder
<1>11. ASSUME NEW t \in Caller, StartWorker(t) PROVE WorkerInv'
  BY <1>11, <1>t, <1>p DEF StartWorker, GoTo, Home, Running, StagesApart, OneWorker,
     Opening, AtRest, ShutdownInOrder
<1>12. ASSUME NEW t \in Caller, Launch(t) PROVE WorkerInv'
  <2>1. pc[t] = "launch" /\ Home(t) \in {"row", "idle"}
    BY <1>12 DEF Launch, Home
  <2>2. CASE made[t] \in Worker
    <3>1. made[t] \in Thread /\ made[t] # t /\ made[t] \notin Caller
      BY <2>2, <1>t
    <3>2. \A u \in Thread : pc'[u] = IF u = made[t] THEN "waiting" ELSE IF u = t THEN Home(t) ELSE pc[u]
      BY <1>12, <3>1, <1>t, <1>p DEF Launch
    <3>3. StagesApart'
      BY <2>1, <2>2, <3>1, <3>2, <1>t DEF StagesApart
    <3>4. OneWorker'
      BY <1>12, <2>1, <2>2, <3>1, <3>2, <1>t, <1>p DEF Launch, OneWorker, Opening, AtRest
    <3>5. ShutdownInOrder'
      BY <1>12, <2>1, <2>2, <3>1, <3>2, <1>t, <1>p DEF Launch, OneWorker, AtRest, ShutdownInOrder
    <3> QED BY <3>3, <3>4, <3>5
  <2>3. CASE made[t] \notin Worker
    <3>1. made[t] = NoThread
      BY <2>3, <1>p
    <3>2. ~(connects < 2)
      BY <2>1, <2>3 DEF OneWorker
    <3>3. \A u \in Thread : pc'[u] = IF u = t THEN Home(t) ELSE pc[u]
      BY <1>12, <3>1, <1>t, <1>p DEF Launch
    <3> QED BY <1>12, <2>1, <3>2, <3>3, <1>t, <1>p DEF Launch, StagesApart, OneWorker,
               ShutdownInOrder
  <2> QED BY <2>2, <2>3
<1>13. ASSUME NEW w \in Worker, Wake(w) PROVE WorkerInv'
  BY <1>13, <1>t, <1>p DEF Wake, GoTo, workerVars, StagesApart, OneWorker,
     Opening, AtRest, ShutdownInOrder
<1>14. ASSUME NEW w \in Worker, ScanEnds(w) PROVE WorkerInv'
  BY <1>14, <1>t, <1>p DEF ScanEnds, GoTo, workerVars, StagesApart, OneWorker,
     Opening, AtRest, ShutdownInOrder
<1>15. ASSUME NEW w \in Worker, Unregister(w) PROVE WorkerInv'
  BY <1>15, <1>t, <1>p DEF Unregister, GoTo, StagesApart, OneWorker,
     Opening, AtRest, ShutdownInOrder
<1>16. ASSUME NextRow PROVE WorkerInv'
  BY <1>16, <1>t, <1>p DEF NextRow, GoTo, workerVars, StagesApart, OneWorker,
     Opening, AtRest, ShutdownInOrder
<1>17. ASSUME NextCall PROVE WorkerInv'
  BY <1>17, <1>t, <1>p DEF NextCall, GoTo, workerVars, StagesApart, OneWorker,
     Opening, AtRest, ShutdownInOrder
<1>18. ASSUME DrainEnds PROVE WorkerInv'
  BY <1>18, <1>t, <1>p DEF DrainEnds, GoTo, workerVars, StagesApart, OneWorker,
     Opening, AtRest, ShutdownInOrder
<1>19. ASSUME StopDrain PROVE WorkerInv'
  BY <1>19, <1>t, <1>p DEF StopDrain, GoTo, StagesApart, OneWorker,
     Opening, AtRest, ShutdownInOrder
<1>20. ASSUME Disable PROVE WorkerInv'
  BY <1>20, <1>t, <1>p DEF Disable, GoTo, StagesApart, OneWorker,
     Opening, AtRest, ShutdownInOrder
<1>21. ASSUME StopWorker PROVE WorkerInv'
  BY <1>21, <1>t, <1>p DEF StopWorker, GoTo, StagesApart, OneWorker,
     Opening, AtRest, ShutdownInOrder
<1>22. ASSUME Join PROVE WorkerInv'
  BY <1>22, <1>t, <1>p DEF Join, Joined, GoTo, StagesApart, OneWorker,
     Opening, AtRest, ShutdownInOrder
<1>23. ASSUME Close PROVE WorkerInv'
  BY <1>23, <1>t, <1>p DEF Close, GoTo, workerVars, StagesApart, OneWorker,
     Opening, AtRest, ShutdownInOrder
<1>24. ASSUME UNCHANGED threadVars PROVE WorkerInv'
  BY <1>24 DEF threadVars, workerVars, StagesApart, OneWorker, Opening, AtRest, ShutdownInOrder
<1> QED
  BY <1>1, <1>2, <1>3, <1>4, <1>5, <1>6, <1>7, <1>8, <1>9, <1>10, <1>11, <1>12, <1>13, <1>14, <1>15, <1>16, <1>17, <1>18, <1>19, <1>20, <1>21, <1>22, <1>23, <1>24 DEF SessionNext, SessionStep,
     CallerStep, WorkerStep, Shutdown

\* The server starts with no worker and no caller in the index.
LEMMA WorkerStart ==
  SessionInit => WorkerInv
<1> SUFFICES ASSUME SessionInit PROVE WorkerInv
  OBVIOUS
<1>1. PICK d \in {0, 1} :
        pc = [t \in Thread |-> IF t \in Worker THEN "unborn"
                              ELSE IF t = "drain" /\ d = 0 THEN "ended" ELSE "idle"]
  BY DEF SessionInit
<1>2. /\ \A w \in Worker : pc[w] = "unborn"
      /\ \A t \in Caller : pc[t] \in {"idle", "ended"}
      /\ pc["main"] # "close" /\ pc["main"] # "stop" /\ pc["main"] # "join"
  BY <1>1, SessionAssumption DEF Thread, Caller
<1> QED BY <1>2 DEF WorkerInv, StagesApart, OneWorker, Opening, AtRest, ShutdownInOrder

\* The inductive invariant of the server's threads.
THEOREM SessionInvariant ==
  SessionSpec => [](SubscriberInv /\ WorkerInv)
<1> QED BY SubscriberStart, SubscriberStep, WorkerStart, WorkerStepKeeps, PTL DEF SessionSpec

-----------------------------------------------------------------------------

\* Every variable keeps its type, for any number of workers, sessions and faults.
THEOREM SessionTypeCorrect ==
  SessionSpec => []SessionTypeOK
<1>1. SubscriberInv => SessionTypeOK
  BY DEF SubscriberInv
<1> QED BY <1>1, SubscriberInvariant, PTL

\* What is declared on the current session is what is cached for it, once, however
\* the threads' calls of get_index, the hooks and the resets interleave (store.py).
THEOREM SubscribersStayTracked ==
  SessionSpec => []SubscribersTracked
<1>1. SubscriberInv => SubscribersTracked
  BY DEF SubscriberInv
<1> QED BY <1>1, SubscriberInvariant, PTL

\* mcp_server.main closes the session only with every worker at rest, unless the
\* index was opened more than once.
THEOREM ClosesAfterWorker ==
  SessionSpec => CloseAfterWorker
<1>1. WorkerInv =>
        (pc["main"] = "close" /\ connects < 2 => \A w \in Worker : pc[w] \in {"unborn", "ended"})
  BY DEF WorkerInv, ShutdownInOrder, AtRest
<1> QED BY <1>1, SessionInvariant, PTL DEF CloseAfterWorker
==============================================================================
