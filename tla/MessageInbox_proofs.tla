------------------------ MODULE MessageInbox_proofs ------------------------
(***************************************************************************)
(* What MessageInbox keeps for every set of pairs, envelopes, ack times    *)
(* and operators.  The tables constrain one another, so the properties are *)
(* proved together, as one inductive invariant.                            *)
(***************************************************************************)
EXTENDS MessageInbox, TLAPS

\* A parked ack of an id that was never retired is a genuine one: what makes
\* its promotion, when the message arrives, genuine too.
ParkedIsGenuine ==
  \A p \in Pair : pending[p] # Null /\ tomb[p] = Null => p \in confirmed

IInv ==
  /\ InboxTypeOK
  /\ AckAnchored
  /\ FlagMatchesAck
  /\ OnlyGenuineAcks
  /\ ParkedIsGenuine
  /\ RetiredBehindQuarantine
  /\ PromotionSticks

-----------------------------------------------------------------------------
\* Quarantining a bare ack yields a row of the table, keeps a row that exists
\* in its state, and never removes one.
LEMMA QuarantinedRow ==
  ASSUME InboxTypeOK, NEW p \in Pair, acks[p] # Null,
         NEW v \in {"migration", "post_migration_ack"}
  PROVE  /\ Quarantined(p, v) \in LegacyRow
         /\ legacy[p] # Null => Quarantined(p, v).state = legacy[p].state
         /\ legacy[p] = Null => Quarantined(p, v).state = "unresolved"
<1>1. acks[p] \in AckTime
  BY DEF InboxTypeOK
<1>2. CASE legacy[p] = Null
  BY <1>1, <1>2 DEF Quarantined, LegacyRow
<1>3. CASE legacy[p] # Null
  <2>1. legacy[p] \in LegacyRow
    BY <1>3 DEF InboxTypeOK
  <2>2. CASE acks[p] = legacy[p].acked
    BY <1>3, <2>1, <2>2 DEF Quarantined
  <2>3. CASE acks[p] # legacy[p].acked
    <3>1. Quarantined(p, v) = [legacy[p] EXCEPT !.also = @ \cup {acks[p]}, !.revision = @ + 1]
      BY <1>3, <2>3 DEF Quarantined
    <3>2. /\ legacy[p].also \cup {acks[p]} \in SUBSET AckTime
          /\ legacy[p].revision + 1 \in Nat
      BY <1>1, <2>1 DEF LegacyRow
    <3>3. QED
      BY <1>3, <2>1, <3>1, <3>2 DEF LegacyRow
  <2>4. QED
    BY <2>2, <2>3
<1>4. QED
  BY <1>2, <1>3

\* The row a classification works with: of the right type, in the state of the
\* row that existed, and absent only where there was none.
LEMMA LegacySeenRow ==
  ASSUME InboxTypeOK, NEW p \in Pair
  PROVE  /\ LegacySeen(p) \in LegacyRow \cup {Null}
         /\ legacy[p] # Null => /\ LegacySeen(p) # Null
                                /\ LegacySeen(p).state = legacy[p].state
         /\ LegacySeen(p) # Null /\ legacy[p] = Null => LegacySeen(p).state = "unresolved"
<1>1. CASE Bare(p)
  BY <1>1, QuarantinedRow, ConstantsAssumption DEF LegacySeen, Bare
<1>2. CASE ~Bare(p)
  BY <1>2 DEF LegacySeen, InboxTypeOK
<1>3. QED
  BY <1>1, <1>2

\* Any database an older schema left satisfies the invariant.
LEMMA InitInvariant == InboxInit => IInv
<1> SUFFICES ASSUME InboxInit PROVE IInv
  OBVIOUS
<1>1. InboxTypeOK
  <2>1. isAcked \in [Pair -> BOOLEAN]
    BY ZenonT(20) DEF InboxInit
  <2>2. now \in 0..MaxTime
    BY ConstantsAssumption DEF InboxInit
  <2>3. legacy \in [Pair -> LegacyRow \cup {Null}]
    <3>1. Classified \subseteq LegacyRow
      BY DEF Classified, LegacyRow
    <3>2. legacy \in [Pair -> Classified \cup {Null}]
      BY DEF InboxInit
    <3> QED
      BY <3>1, <3>2
  <2>4. QED
    BY <2>1, <2>2, <2>3, ConstantsAssumption DEF InboxInit, InboxTypeOK
<1>2. AckAnchored /\ FlagMatchesAck /\ OnlyGenuineAcks
  BY DEF InboxInit, AckAnchored, FlagMatchesAck, OnlyGenuineAcks, Acked
<1>3. ParkedIsGenuine /\ RetiredBehindQuarantine
  BY DEF InboxInit, ParkedIsGenuine, RetiredBehindQuarantine
<1>4. PromotionSticks
  BY DEF InboxInit, PromotionSticks, Acked
<1>5. QED
  BY <1>1, <1>2, <1>3, <1>4 DEF IInv

-----------------------------------------------------------------------------
\* An arrival, in what it does to the row of its own pair.
LEMMA ArriveInvariant ==
  ASSUME IInv, NEW p \in Pair, NEW e \in Envelope, Arrive(p, e)
  PROVE  IInv'
<1> USE DEF IInv
<1>1. /\ LegacySeen(p) \in LegacyRow \cup {Null}
      /\ legacy[p] # Null => /\ LegacySeen(p) # Null
                             /\ LegacySeen(p).state = legacy[p].state
      /\ LegacySeen(p) # Null /\ legacy[p] = Null => LegacySeen(p).state = "unresolved"
  BY LegacySeenRow
<1>2. legacy' = [legacy EXCEPT ![p] = LegacySeen(p)]
  BY DEF Arrive, QuarantineOnArrival
<1>3. e # Null /\ e # Unrecorded /\ Unrecorded # Null
  BY ConstantsAssumption
<1>4. AcksWithoutBare(p) = [acks EXCEPT ![p] = IF live[p] = Null THEN Null ELSE acks[p]]
  <2>1. CASE Bare(p)
    BY <2>1 DEF AcksWithoutBare, Bare
  <2>2. CASE ~Bare(p)
    <3>1. (IF live[p] = Null THEN Null ELSE acks[p]) = acks[p]
      BY <2>2 DEF Bare
    <3>2. acks = [acks EXCEPT ![p] = acks[p]]
      BY DEF InboxTypeOK
    <3>3. QED
      BY <2>2, <3>1, <3>2 DEF AcksWithoutBare
  <2>3. QED
    BY <2>1, <2>2
<1>5. UNCHANGED <<schema, audit, recovery, now, confirmed, oldBare>>
  BY DEF Arrive
<1>6. InboxTypeOK'
  <2>1. legacy' \in [Pair -> LegacyRow \cup {Null}]
    BY <1>1, <1>2 DEF InboxTypeOK
  <2>2. CASE ArriveWithheld(p, e)
    BY <1>4, <1>5, <2>1, <2>2 DEF InboxTypeOK, ArriveWithheld
  <2>3. CASE ArriveKnown(p, e)
    BY <1>4, <1>5, <2>1, <2>3 DEF InboxTypeOK, ArriveKnown
  <2>4. CASE ArriveAckFirst(p, e)
    BY <1>5, <2>1, <2>4 DEF InboxTypeOK, ArriveAckFirst
  <2>5. CASE ArriveExpired(p, e)
    BY <1>4, <1>5, <2>1, <2>5 DEF InboxTypeOK, ArriveExpired
  <2>6. CASE ArriveRegistered(p, e)
    BY <1>4, <1>5, <2>1, <2>6 DEF InboxTypeOK, ArriveRegistered
  <2>7. QED
    BY <2>2, <2>3, <2>4, <2>5, <2>6 DEF Arrive
<1>7. \A q \in Pair \ {p} : /\ live'[q] = live[q] /\ isAcked'[q] = isAcked[q]
                            /\ acks'[q] = acks[q] /\ pending'[q] = pending[q]
                            /\ tomb'[q] = tomb[q] /\ legacy'[q] = legacy[q]
  BY <1>2, <1>4 DEF InboxTypeOK, Arrive, ArriveWithheld, ArriveKnown, ArriveAckFirst,
                    ArriveExpired, ArriveRegistered
<1>8. legacy'[p] = LegacySeen(p)
  BY <1>2 DEF InboxTypeOK
<1>9. \* the five outcomes for p itself
      \/ /\ legacy'[p] # Null /\ legacy'[p].state = "unresolved"
         /\ live'[p] # Null /\ tomb'[p] = tomb[p] /\ pending'[p] = pending[p]
         /\ isAcked'[p] = isAcked[p]
         /\ acks'[p] = IF live[p] = Null THEN Null ELSE acks[p]
      \/ /\ live'[p] = live[p] /\ tomb'[p] = tomb[p] /\ pending'[p] = pending[p]
         /\ isAcked'[p] = isAcked[p]
         /\ acks'[p] = IF live[p] = Null THEN Null ELSE acks[p]
      \/ /\ live[p] = Null /\ tomb[p] = Null /\ pending[p] # Null
         /\ live'[p] # Null /\ tomb'[p] = Null /\ pending'[p] = Null
         /\ isAcked'[p] = TRUE /\ acks'[p] # Null
      \/ /\ live[p] = Null /\ tomb[p] = Null /\ live'[p] = Null /\ tomb'[p] # Null
         /\ pending'[p] = pending[p] /\ isAcked'[p] = isAcked[p] /\ acks'[p] = Null
      \/ /\ live[p] = Null /\ tomb[p] = Null /\ pending[p] = Null
         /\ live'[p] # Null /\ tomb'[p] = Null /\ pending'[p] = Null
         /\ isAcked'[p] = isAcked[p] /\ acks'[p] = Null
  <2>1. CASE ArriveWithheld(p, e)
    <3>1. Withheld(p)
      BY <2>1 DEF ArriveWithheld, Verdict, Withheld
    <3>2. QED
      BY <1>3, <1>4, <1>8, <2>1, <3>1 DEF ArriveWithheld, Withheld, InboxTypeOK
  <2>2. CASE ArriveKnown(p, e)
    BY <1>4, <2>2 DEF ArriveKnown, InboxTypeOK
  <2>3. CASE ArriveAckFirst(p, e)
    <3>1. live[p] = Null /\ tomb[p] = Null /\ pending[p] # Null
      BY <2>3 DEF ArriveAckFirst, Verdict
    <3>2. QED
      BY <1>3, <2>3, <3>1 DEF ArriveAckFirst, InboxTypeOK
  <2>4. CASE ArriveExpired(p, e)
    <3>1. live[p] = Null /\ tomb[p] = Null
      BY <2>4 DEF ArriveExpired, Verdict
    <3>2. QED
      BY <1>3, <1>4, <2>4, <3>1 DEF ArriveExpired, InboxTypeOK
  <2>5. CASE ArriveRegistered(p, e)
    <3>1. live[p] = Null /\ tomb[p] = Null /\ pending[p] = Null
      BY <2>5 DEF ArriveRegistered, Verdict
    <3>2. QED
      BY <1>3, <1>4, <2>5, <3>1 DEF ArriveRegistered, InboxTypeOK
  <2>6. QED
    BY <2>1, <2>2, <2>3, <2>4, <2>5 DEF Arrive
<1>10. AckAnchored'
  BY <1>5, <1>7, <1>9 DEF AckAnchored, Bare
<1>11. FlagMatchesAck'
  BY <1>7, <1>9 DEF FlagMatchesAck
<1>12. OnlyGenuineAcks'
  BY <1>5, <1>7, <1>9 DEF OnlyGenuineAcks, ParkedIsGenuine, FlagMatchesAck, Acked
<1>13. ParkedIsGenuine'
  BY <1>5, <1>7, <1>9 DEF ParkedIsGenuine
<1>14. RetiredBehindQuarantine'
  BY <1>1, <1>7, <1>8, <1>9 DEF RetiredBehindQuarantine
<1>15. PromotionSticks'
  BY <1>1, <1>7, <1>8, <1>9 DEF PromotionSticks, FlagMatchesAck, Acked
<1>16. QED
  BY <1>6, <1>10, <1>11, <1>12, <1>13, <1>14, <1>15

\* Acknowledging: both writers give the message its ack and its flag together.
LEMMA AckInvariant ==
  ASSUME IInv, NEW p \in Pair, NEW a \in AckTime, RecordAck(p, a) \/ RecordRemoteAck(p, a)
  PROVE  IInv'
<1> USE DEF IInv
<1>1. a # Null
  BY ConstantsAssumption
<1>2. UNCHANGED <<schema, live, tomb, legacy, audit, recovery, now, oldBare>>
  BY DEF RecordAck, RecordRemoteAck
<1>3. confirmed' = confirmed \cup {p}
  BY DEF RecordAck, RecordRemoteAck
<1>4. CASE live[p] # Null /\ WriteAck(p, a) /\ UNCHANGED pending
  <2>1. InboxTypeOK'
    BY <1>2, <1>3, <1>4 DEF InboxTypeOK, WriteAck
  <2>2. AckAnchored' /\ FlagMatchesAck' /\ OnlyGenuineAcks' /\ ParkedIsGenuine'
    BY <1>1, <1>2, <1>3, <1>4 DEF InboxTypeOK, WriteAck, AckAnchored, FlagMatchesAck,
       OnlyGenuineAcks, ParkedIsGenuine, Acked, Bare
  <2>3. RetiredBehindQuarantine' /\ PromotionSticks'
    BY <1>1, <1>2, <1>4 DEF InboxTypeOK, WriteAck, RetiredBehindQuarantine, PromotionSticks, Acked
  <2>4. QED
    BY <2>1, <2>2, <2>3
<1>5. CASE UNCHANGED <<acks, isAcked>> /\ pending' \in {pending, [pending EXCEPT ![p] = a]}
  <2>1. InboxTypeOK'
    BY <1>2, <1>3, <1>5 DEF InboxTypeOK
  <2>2. AckAnchored' /\ FlagMatchesAck' /\ OnlyGenuineAcks'
    BY <1>2, <1>3, <1>5 DEF AckAnchored, FlagMatchesAck, OnlyGenuineAcks, Acked, Bare
  <2>3. ParkedIsGenuine'
    BY <1>2, <1>3, <1>5 DEF ParkedIsGenuine, InboxTypeOK
  <2>4. RetiredBehindQuarantine' /\ PromotionSticks'
    BY <1>2, <1>5 DEF RetiredBehindQuarantine, PromotionSticks, Acked
  <2>5. QED
    BY <2>1, <2>2, <2>3, <2>4
<1>6. QED
  BY <1>4, <1>5 DEF RecordAck, RecordRemoteAck

\* Retiring: the message and its ack go together, and the id stays retired.
LEMMA PurgeInvariant ==
  ASSUME IInv, PurgeExpired
  PROVE  IInv'
<1> USE DEF IInv
<1>1. UNCHANGED <<schema, pending, legacy, audit, recovery, now, oldBare>>
  BY DEF PurgeExpired
<1>2. Expiring \subseteq Pair /\ \A p \in Expiring : live[p] # Null /\ live[p] \in Envelope
  BY DEF Expiring, InboxTypeOK
<1>3. \A p \in Pair :
        IF p \in Expiring
        THEN /\ live'[p] = Null /\ acks'[p] = Null /\ isAcked'[p] = FALSE
             /\ tomb'[p] # Null /\ p \notin confirmed'
        ELSE /\ live'[p] = live[p] /\ acks'[p] = acks[p] /\ isAcked'[p] = isAcked[p]
             /\ tomb'[p] = tomb[p] /\ (p \in confirmed' <=> p \in confirmed)
  BY <1>2 DEF PurgeExpired, TombAfterPurge
<1>4. InboxTypeOK'
  <2>1. live' \in [Pair -> Envelope \cup {Null}] /\ acks' \in [Pair -> AckTime \cup {Null}]
    BY DEF PurgeExpired, InboxTypeOK
  <2>2. tomb' \in [Pair -> Envelope \cup {Null, Unrecorded}]
    BY <1>2 DEF PurgeExpired, TombAfterPurge, InboxTypeOK
  <2>3. isAcked' \in [Pair -> BOOLEAN]
    <3>1. \A p \in Pair : (IF p \in Expiring THEN FALSE ELSE isAcked[p]) \in BOOLEAN
      BY DEF InboxTypeOK
    <3>2. QED
      BY <3>1 DEF PurgeExpired
  <2>4. confirmed' \subseteq Pair
    BY DEF PurgeExpired, InboxTypeOK
  <2>5. QED
    BY <1>1, <2>1, <2>2, <2>3, <2>4 DEF InboxTypeOK
<1>5. AckAnchored'
  BY <1>1, <1>3 DEF AckAnchored, Bare
<1>6. FlagMatchesAck'
  BY <1>3 DEF FlagMatchesAck
<1>7. OnlyGenuineAcks'
  BY <1>3 DEF OnlyGenuineAcks, Acked
<1>8. ParkedIsGenuine' /\ RetiredBehindQuarantine'
  BY <1>1, <1>3 DEF ParkedIsGenuine, RetiredBehindQuarantine
<1>9. PromotionSticks'
  BY <1>1, <1>3 DEF PromotionSticks, Acked
<1>10. QED
  BY <1>4, <1>5, <1>6, <1>7, <1>8, <1>9

\* The migration moves exactly the bare acks.
LEMMA MigrateInvariant ==
  ASSUME IInv, Migrate
  PROVE  IInv'
<1> USE DEF IInv
<1>1. UNCHANGED <<live, isAcked, pending, tomb, audit, recovery, now, confirmed, oldBare>>
  BY DEF Migrate
<1>2. \A p \in Pair :
        IF Bare(p)
        THEN /\ acks'[p] = Null /\ legacy'[p] \in LegacyRow
             /\ legacy'[p].state = IF legacy[p] = Null THEN "unresolved" ELSE legacy[p].state
        ELSE acks'[p] = acks[p] /\ legacy'[p] = legacy[p]
  BY QuarantinedRow DEF Migrate, Bare
<1>3. InboxTypeOK'
  <2>1. acks' \in [Pair -> AckTime \cup {Null}]
    BY DEF Migrate, InboxTypeOK
  <2>2. legacy' \in [Pair -> LegacyRow \cup {Null}]
    BY QuarantinedRow DEF Migrate, InboxTypeOK, Bare
  <2>3. QED
    BY <1>1, <2>1, <2>2 DEF InboxTypeOK, Migrate
<1>4. AckAnchored' /\ FlagMatchesAck' /\ OnlyGenuineAcks'
  BY <1>1, <1>2 DEF AckAnchored, FlagMatchesAck, OnlyGenuineAcks, Acked, Bare
<1>5. ParkedIsGenuine'
  BY <1>1 DEF ParkedIsGenuine
<1>6. RetiredBehindQuarantine'
  BY <1>1, <1>2 DEF RetiredBehindQuarantine, Bare
<1>7. PromotionSticks'
  BY <1>1, <1>2 DEF PromotionSticks, Acked, Bare
<1>8. QED
  BY <1>3, <1>4, <1>5, <1>6, <1>7

\* The write half of a recovery: it goes on only on the row that was read, and
\* a promotion only under a live message.
LEMMA RecoverWriteInvariant ==
  ASSUME IInv, NEW o \in Operator, RecoverWrite(o)
  PROVE  IInv'
<1> USE DEF IInv
<1> DEFINE plan == recovery[o]
           p == plan.pair
           promote == plan.action = "promote"
<1>1. /\ plan \in Plan /\ p \in Pair /\ plan.before \in LegacyRow
      /\ plan.before.acked \in AckTime /\ plan.before.acked # Null
  BY ConstantsAssumption DEF InboxTypeOK, RecoverWrite, Plan, LegacyRow
<1>2. /\ legacy[p] = plan.before /\ legacy[p] # Null
      /\ promote => live[p] # Null
  BY <1>1, ConstantsAssumption DEF RecoverWrite, StillAsRead, Promotable
<1>3. UNCHANGED <<schema, live, pending, tomb, now, oldBare>>
  BY DEF RecoverWrite
<1>4. /\ acks' = IF promote THEN [acks EXCEPT ![p] = plan.before.acked] ELSE acks
      /\ isAcked' = IF promote THEN [isAcked EXCEPT ![p] = TRUE] ELSE isAcked
      /\ legacy' = [legacy EXCEPT ![p].state = Resolution(plan.action),
                                  ![p].also = {},
                                  ![p].revision = @ + 1]
      /\ audit' = [audit EXCEPT ![p] = @ \cup {plan.before.acked} \cup plan.before.also
                                         \cup ({acks[p]} \ {Null})]
      /\ confirmed' = IF promote THEN confirmed \cup {p} ELSE confirmed
      /\ recovery' = [recovery EXCEPT ![o] = Null]
  BY DEF RecoverWrite
<1> HIDE DEF plan, p, promote
<1>5. Resolution(plan.action) = IF promote THEN "promoted" ELSE "released"
  BY DEF Resolution, promote
<1>6. /\ legacy' \in [Pair -> LegacyRow \cup {Null}]
      /\ legacy'[p] \in LegacyRow
      /\ legacy'[p].state = IF promote THEN "promoted" ELSE "released"
      /\ \A q \in Pair \ {p} : legacy'[q] = legacy[q]
  <2>1. legacy \in [Pair -> LegacyRow \cup {Null}] /\ legacy[p] \in LegacyRow
    BY <1>1, <1>2 DEF InboxTypeOK
  <2> DEFINE row == [legacy[p] EXCEPT !.state = Resolution(plan.action), !.also = {},
                                      !.revision = @ + 1]
  <2>2. row \in LegacyRow /\ row.state = Resolution(plan.action)
    <3>1. legacy[p].revision + 1 \in Nat
      BY <2>1 DEF LegacyRow
    <3>2. Resolution(plan.action) \in {"released", "promoted"}
      BY <1>5
    <3>3. QED
      BY <2>1, <3>1, <3>2 DEF LegacyRow
  <2>3. legacy' = [legacy EXCEPT ![p] = row]
    BY <1>1, <1>4, <2>1
  <2>4. QED
    BY <1>1, <1>5, <2>1, <2>2, <2>3
<1>7. InboxTypeOK'
  <2>1. acks' \in [Pair -> AckTime \cup {Null}] /\ isAcked' \in [Pair -> BOOLEAN]
    BY <1>1, <1>4 DEF InboxTypeOK
  <2>2. audit' \in [Pair -> SUBSET AckTime]
    <3>1. plan.before.also \subseteq AckTime /\ {acks[p]} \ {Null} \subseteq AckTime
      BY <1>1 DEF InboxTypeOK, LegacyRow
    <3>2. QED
      BY <1>1, <1>4, <3>1 DEF InboxTypeOK
  <2>3. recovery' \in [Operator -> Plan \cup {Null}] /\ confirmed' \subseteq Pair
    BY <1>1, <1>4 DEF InboxTypeOK
  <2>4. QED
    BY <1>3, <1>6, <2>1, <2>2, <2>3 DEF InboxTypeOK
<1>8. CASE promote
  <2>1. /\ acks'[p] # Null /\ isAcked'[p] = TRUE /\ live'[p] # Null /\ p \in confirmed'
        /\ \A q \in Pair \ {p} : acks'[q] = acks[q] /\ isAcked'[q] = isAcked[q]
    BY <1>1, <1>2, <1>3, <1>4, <1>8 DEF InboxTypeOK
  <2>2. AckAnchored' /\ FlagMatchesAck' /\ OnlyGenuineAcks' /\ ParkedIsGenuine'
    BY <1>3, <1>4, <1>8, <2>1 DEF AckAnchored, FlagMatchesAck, OnlyGenuineAcks,
       ParkedIsGenuine, Acked, Bare
  <2>3. RetiredBehindQuarantine'
    BY <1>2, <1>3, <1>6, ConstantsAssumption DEF RetiredBehindQuarantine
  <2>4. PromotionSticks'
    BY <1>3, <1>6, <2>1 DEF PromotionSticks, Acked
  <2>5. QED
    BY <1>7, <2>2, <2>3, <2>4
<1>9. CASE ~promote
  <2>1. acks' = acks /\ isAcked' = isAcked /\ confirmed' = confirmed
    BY <1>4, <1>9
  <2>2. AckAnchored' /\ FlagMatchesAck' /\ OnlyGenuineAcks' /\ ParkedIsGenuine'
    BY <1>3, <2>1 DEF AckAnchored, FlagMatchesAck, OnlyGenuineAcks,
       ParkedIsGenuine, Acked, Bare
  <2>3. RetiredBehindQuarantine'
    BY <1>2, <1>3, <1>6, ConstantsAssumption DEF RetiredBehindQuarantine
  <2>4. PromotionSticks'
    BY <1>3, <1>6, <1>9, <2>1 DEF PromotionSticks, Acked
  <2>5. QED
    BY <1>7, <2>2, <2>3, <2>4
<1>10. QED
  BY <1>8, <1>9

\* The steps that touch at most an operator's plan, the clock, or nothing.
LEMMA QuietInvariant ==
  ASSUME IInv,
         \/ \E o \in Operator, p \in Pair, action \in {"release", "promote"} :
              RecoverRead(o, p, action)
         \/ \E o \in Operator : RecoverAbandon(o)
         \/ Tick
         \/ UNCHANGED inboxVars
  PROVE  IInv'
<1> USE DEF IInv
<1>1. UNCHANGED <<schema, tables, confirmed, oldBare>>
  BY DEF RecoverRead, RecoverAbandon, Tick, inboxVars, tables
<1>2. recovery' \in [Operator -> Plan \cup {Null}]
  <2>1. ASSUME NEW o \in Operator, NEW p \in Pair, NEW action \in {"release", "promote"},
               RecoverRead(o, p, action)
        PROVE  recovery' \in [Operator -> Plan \cup {Null}]
    <3>1. legacy[p] \in LegacyRow
      BY <2>1 DEF RecoverRead, InboxTypeOK
    <3>2. [pair |-> p, action |-> action, before |-> legacy[p]] \in Plan
      BY <3>1 DEF Plan
    <3>3. QED
      BY <2>1, <3>2 DEF RecoverRead, InboxTypeOK
  <2>2. CASE \E o \in Operator : RecoverAbandon(o)
    BY <2>2 DEF RecoverAbandon, InboxTypeOK
  <2>3. CASE Tick \/ UNCHANGED inboxVars
    BY <2>3 DEF Tick, inboxVars, InboxTypeOK
  <2>4. QED
    BY <2>1, <2>2, <2>3
<1>3. now' \in 0..MaxTime
  BY ConstantsAssumption DEF RecoverRead, RecoverAbandon, Tick, inboxVars, InboxTypeOK
<1>4. InboxTypeOK'
  BY <1>1, <1>2, <1>3 DEF InboxTypeOK, tables
<1>5. AckAnchored' /\ FlagMatchesAck' /\ OnlyGenuineAcks' /\ ParkedIsGenuine'
  BY <1>1 DEF tables, AckAnchored, FlagMatchesAck, OnlyGenuineAcks, ParkedIsGenuine, Acked, Bare
<1>6. RetiredBehindQuarantine' /\ PromotionSticks'
  BY <1>1 DEF tables, RetiredBehindQuarantine, PromotionSticks, Acked
<1>7. QED
  BY <1>4, <1>5, <1>6

\* What an old binary leaves is bare, and recorded as its doing.
LEMMA OldBinaryInvariant ==
  ASSUME IInv, NEW p \in Pair, NEW a \in AckTime, OldBinaryLeavesBareAck(p, a)
  PROVE  IInv'
<1> USE DEF IInv
<1>1. /\ live[p] = Null /\ acks' = [acks EXCEPT ![p] = a] /\ oldBare' = oldBare \cup {p}
      /\ UNCHANGED <<schema, live, isAcked, pending, tomb, legacy, audit, recovery, now, confirmed>>
  BY DEF OldBinaryLeavesBareAck
<1>2. InboxTypeOK'
  BY <1>1 DEF InboxTypeOK
<1>3. AckAnchored' /\ FlagMatchesAck' /\ OnlyGenuineAcks' /\ ParkedIsGenuine'
  BY <1>1 DEF InboxTypeOK, AckAnchored, FlagMatchesAck, OnlyGenuineAcks, ParkedIsGenuine, Acked, Bare
<1>4. RetiredBehindQuarantine' /\ PromotionSticks'
  BY <1>1 DEF InboxTypeOK, RetiredBehindQuarantine, PromotionSticks, Acked
<1>5. QED
  BY <1>2, <1>3, <1>4

-----------------------------------------------------------------------------
LEMMA StepInvariant == IInv /\ [InboxNext]_inboxVars => IInv'
<1> SUFFICES ASSUME IInv, [InboxNext]_inboxVars PROVE IInv'
  OBVIOUS
<1>1. ASSUME NEW p \in Pair, NEW e \in Envelope, Arrive(p, e) PROVE IInv'
  BY <1>1, ArriveInvariant
<1>2. ASSUME NEW p \in Pair, NEW a \in AckTime, RecordAck(p, a) \/ RecordRemoteAck(p, a)
      PROVE  IInv'
  BY <1>2, AckInvariant
<1>3. CASE PurgeExpired
  BY <1>3, PurgeInvariant
<1>4. CASE Migrate
  BY <1>4, MigrateInvariant
<1>5. ASSUME NEW o \in Operator, RecoverWrite(o) PROVE IInv'
  BY <1>5, RecoverWriteInvariant
<1>6. ASSUME NEW p \in Pair, NEW a \in AckTime, OldBinaryLeavesBareAck(p, a) PROVE IInv'
  BY <1>6, OldBinaryInvariant
<1>7. ASSUME \/ \E o \in Operator, p \in Pair, action \in {"release", "promote"} :
                  RecoverRead(o, p, action)
             \/ \E o \in Operator : RecoverAbandon(o)
             \/ Tick
             \/ UNCHANGED inboxVars
      PROVE  IInv'
  BY <1>7, QuietInvariant
<1>8. QED
  BY <1>1, <1>2, <1>3, <1>4, <1>5, <1>6, <1>7 DEF InboxNext

\* Every reachable state of the inbox satisfies the inductive invariant.
THEOREM InboxInvariant == InboxSpec => []IInv
<1>1. InboxInit => IInv
  BY InitInvariant
<1>2. IInv /\ [InboxNext]_inboxVars => IInv'
  BY StepInvariant
<1>3. QED
  BY <1>1, <1>2, PTL DEF InboxSpec

\* The tables keep their types: the schema of messaging/local_index.py.
THEOREM TypeCorrect == InboxSpec => []InboxTypeOK
<1>1. IInv => InboxTypeOK
  BY DEF IInv
<1>2. QED
  BY <1>1, InboxInvariant, PTL

\* No path of the current code leaves an ack without its message: only an old
\* binary does (record_ack, record_remote_ack, purge_expired, the migration,
\* recover).
THEOREM AcksAnchored == InboxSpec => []AckAnchored
<1>1. IInv => AckAnchored
  BY DEF IInv
<1>2. QED
  BY <1>1, InboxInvariant, PTL

\* The message's flag and the acks table agree (_write_ack_locked and every
\* other writer of the two).
THEOREM FlagAgrees == InboxSpec => []FlagMatchesAck
<1>1. IInv => FlagMatchesAck
  BY DEF IInv
<1>2. QED
  BY <1>1, InboxInvariant, PTL

\* No message is ever read because of an ack that was not for it: what the
\* quarantine of _classify_locked, _migrate and recover is for.
THEOREM NoFalseRead == InboxSpec => []OnlyGenuineAcks
<1>1. IInv => OnlyGenuineAcks
  BY DEF IInv
<1>2. QED
  BY <1>1, InboxInvariant, PTL

\* A retired id is live again only behind a quarantined ack (_classify_locked
\* and _retired_result).
THEOREM RetiredStaysRetired == InboxSpec => []RetiredBehindQuarantine
<1>1. IInv => RetiredBehindQuarantine
  BY DEF IInv
<1>2. QED
  BY <1>1, InboxInvariant, PTL

\* A promotion of recover is never undone while its message lives.
THEOREM PromotionIsKept == InboxSpec => []PromotionSticks
<1>1. IInv => PromotionSticks
  BY DEF IInv
<1>2. QED
  BY <1>1, InboxInvariant, PTL

-----------------------------------------------------------------------------
\* A tombstone is never rewritten nor removed, by an arrival on a reused id or
\* by a later purge (INSERT OR IGNORE in purge_expired).
THEOREM TombstonesStay == InboxSpec => TombstonesPermanent
<1> DEFINE Stays == \A p \in Pair : tomb[p] # Null => tomb'[p] = tomb[p]
<1>1. InboxTypeOK /\ [InboxNext]_inboxVars => [Stays]_inboxVars
  <2> SUFFICES ASSUME InboxTypeOK, InboxNext PROVE Stays
    OBVIOUS
  <2>1. ASSUME NEW p \in Pair, NEW e \in Envelope, Arrive(p, e) PROVE Stays
    <3>1. CASE ArriveExpired(p, e)
      <4>1. tomb[p] = Null
        BY <3>1 DEF ArriveExpired, Verdict
      <4>2. QED
        BY <3>1, <4>1 DEF ArriveExpired, InboxTypeOK
    <3>2. CASE ~ArriveExpired(p, e)
      BY <2>1, <3>2 DEF Arrive, ArriveWithheld, ArriveKnown, ArriveAckFirst, ArriveRegistered
    <3>3. QED
      BY <3>1, <3>2
  <2>2. CASE PurgeExpired
    BY <2>2 DEF PurgeExpired, TombAfterPurge
  <2>3. CASE UNCHANGED tomb
    BY <2>3
  <2>4. QED
    BY <2>1, <2>2, <2>3 DEF InboxNext, RecordAck, RecordRemoteAck, Migrate, RecoverRead,
       RecoverWrite, RecoverAbandon, Tick, OldBinaryLeavesBareAck, tables
<1>2. QED
  BY <1>1, TypeCorrect, PTL DEF InboxSpec, TombstonesPermanent

-----------------------------------------------------------------------------
\* Quarantining a bare ack keeps its time and those noted before it.
LEMMA QuarantinedEvidence ==
  ASSUME InboxTypeOK, NEW p \in Pair, NEW provenance
  PROVE  LET row == Quarantined(p, provenance)
         IN  /\ acks[p] \in {row.acked} \cup row.also
             /\ legacy[p] # Null => /\ row.acked = legacy[p].acked
                                    /\ legacy[p].also \subseteq row.also
<1>1. CASE legacy[p] = Null
  BY <1>1 DEF Quarantined
<1>2. CASE legacy[p] # Null
  <2>1. legacy[p] \in LegacyRow
    BY <1>2 DEF InboxTypeOK
  <2>2. QED
    BY <1>2, <2>1 DEF Quarantined, LegacyRow
<1>3. QED
  BY <1>1, <1>2

\* The ack times of a pair whose meaning is open survive every step: INSERT OR
\* IGNORE with its note in quarantine_bare_ack, the before images of recover.
THEOREM EvidenceIsKept == InboxSpec => EvidenceKept
<1> DEFINE Kept == \A p \in Pair : Evidence(p) \subseteq Evidence(p)'
<1>1. IInv /\ [InboxNext]_inboxVars => [Kept]_inboxVars
  <2> SUFFICES ASSUME IInv, InboxNext, NEW p \in Pair PROVE Evidence(p) \subseteq Evidence(p)'
    OBVIOUS
  <2> USE DEF IInv
  <2>1. InboxTypeOK /\ IInv'
    BY StepInvariant
  <2>2. \A a \in AckTime : a # Null
    BY ConstantsAssumption
  <2>3. ASSUME NEW q \in Pair, NEW e \in Envelope, Arrive(q, e)
        PROVE  Evidence(p) \subseteq Evidence(p)'
    <3>1. legacy' = [legacy EXCEPT ![q] = LegacySeen(q)] /\ UNCHANGED audit
      BY <2>3 DEF Arrive, QuarantineOnArrival
    <3>2. CASE q = p /\ Bare(p)
      <4>1. legacy'[p] = Quarantined(p, "post_migration_ack")
        BY <2>1, <3>1, <3>2 DEF LegacySeen, InboxTypeOK
      <4>2. legacy'[p] # Null
        BY <3>2, <4>1, <2>1, QuarantinedRow, ConstantsAssumption DEF Bare
      <4>3. QED
        BY <2>1, <3>1, <3>2, <4>1, <4>2, QuarantinedEvidence DEF Evidence
    <3>3. CASE ~(q = p /\ Bare(p))
      <4>1. legacy'[p] = legacy[p]
        BY <2>1, <3>1, <3>3 DEF LegacySeen, InboxTypeOK
      <4>2. Bare(p) => live'[p] = live[p] /\ acks'[p] = acks[p]
        BY <2>1, <2>3, <3>3 DEF Arrive, ArriveWithheld, ArriveKnown, ArriveAckFirst,
           ArriveExpired, ArriveRegistered, AcksWithoutBare, InboxTypeOK
      <4>3. QED
        BY <3>1, <4>1, <4>2 DEF Evidence, Bare
    <3>4. QED
      BY <3>2, <3>3
  <2>4. CASE Migrate
    <3>1. CASE Bare(p)
      <4>1. legacy'[p] = Quarantined(p, "migration") /\ audit' = audit
        BY <2>4, <3>1 DEF Migrate
      <4>2. legacy'[p] # Null
        BY <2>1, <3>1, <4>1, QuarantinedRow, ConstantsAssumption DEF Bare
      <4>3. QED
        BY <2>1, <3>1, <4>1, <4>2, QuarantinedEvidence DEF Evidence
    <3>2. CASE ~Bare(p)
      BY <2>4, <3>2 DEF Migrate, Evidence
    <3>3. QED
      BY <3>1, <3>2
  <2>5. ASSUME NEW o \in Operator, RecoverWrite(o)
        PROVE  Evidence(p) \subseteq Evidence(p)'
    <3> DEFINE plan == recovery[o]
    <3>1. plan \in Plan /\ legacy[plan.pair] = plan.before /\ plan.pair \in Pair
          /\ plan.before \in LegacyRow
      BY <2>1, <2>5 DEF RecoverWrite, StillAsRead, InboxTypeOK, Plan
    <3>2. CASE p = plan.pair
      <4>1. audit'[p] = audit[p] \cup {plan.before.acked} \cup plan.before.also
                                 \cup ({acks[p]} \ {Null})
        BY <2>1, <2>5, <3>1, <3>2 DEF RecoverWrite, InboxTypeOK
      <4>2. QED
        BY <3>1, <3>2, <4>1 DEF Evidence, Bare
    <3>3. CASE p # plan.pair
      BY <2>1, <2>5, <3>1, <3>3 DEF RecoverWrite, InboxTypeOK, Evidence, Bare
    <3>4. QED
      BY <3>2, <3>3
  <2>6. CASE PurgeExpired
    <3>1. Bare(p) => p \notin Expiring
      BY DEF Bare, Expiring
    <3>2. Bare(p) => live'[p] = Null /\ acks'[p] = acks[p]
      BY <2>6, <3>1 DEF PurgeExpired, Bare
    <3>3. UNCHANGED <<legacy, audit>>
      BY <2>6 DEF PurgeExpired
    <3>4. QED
      BY <3>2, <3>3 DEF Evidence, Bare
  <2>7. ASSUME NEW q \in Pair, NEW a \in AckTime,
               RecordAck(q, a) \/ RecordRemoteAck(q, a) \/ OldBinaryLeavesBareAck(q, a)
        PROVE  Evidence(p) \subseteq Evidence(p)'
    <3>1. UNCHANGED <<legacy, audit, live>>
      BY <2>7 DEF RecordAck, RecordRemoteAck, OldBinaryLeavesBareAck
    <3>2. Bare(p) => acks'[p] = acks[p]
      BY <2>1, <2>7 DEF RecordAck, RecordRemoteAck, OldBinaryLeavesBareAck, WriteAck, Bare, InboxTypeOK
    <3>3. QED
      BY <3>1, <3>2 DEF Evidence, Bare
  <2>8. CASE UNCHANGED <<acks, live, legacy, audit>>
    BY <2>8 DEF Evidence, Bare
  <2>9. QED
    BY <2>3, <2>4, <2>5, <2>6, <2>7, <2>8 DEF InboxNext, RecoverRead, RecoverAbandon, Tick, tables
<1>2. QED
  BY <1>1, InboxInvariant, PTL DEF InboxSpec, EvidenceKept

\* A decision changes the row its operator saw, and no ack that is in force:
\* recover re-reads the row and the ack under the write lock.
THEOREM DecisionsFollowReading == InboxSpec => DecisionsOnTheRowSeen
<1> DEFINE Decided == \A p \in Pair : legacy[p] # Null /\ legacy'[p].state # legacy[p].state =>
             /\ \E o \in Operator : /\ recovery[o] # Null
                                    /\ recovery[o].pair = p
                                    /\ recovery[o].before = legacy[p]
             /\ live[p] # Null /\ acks[p] # Null => acks'[p] = acks[p]
<1>1. InboxTypeOK /\ [InboxNext]_inboxVars => [Decided]_inboxVars
  <2> SUFFICES ASSUME InboxTypeOK, InboxNext, NEW p \in Pair, legacy[p] # Null,
                      legacy'[p].state # legacy[p].state
               PROVE  /\ \E o \in Operator : /\ recovery[o] # Null
                                             /\ recovery[o].pair = p
                                             /\ recovery[o].before = legacy[p]
                      /\ live[p] # Null /\ acks[p] # Null => acks'[p] = acks[p]
    OBVIOUS
  <2>1. ASSUME NEW q \in Pair, NEW e \in Envelope, Arrive(q, e) PROVE FALSE
    <3>1. legacy' = [legacy EXCEPT ![q] = LegacySeen(q)]
      BY <2>1 DEF Arrive, QuarantineOnArrival
    <3>2. LegacySeen(p).state = legacy[p].state
      BY LegacySeenRow
    <3>3. QED
      BY <3>1, <3>2 DEF InboxTypeOK
  <2>2. CASE Migrate
    <3>1. Bare(p) => Quarantined(p, "migration").state = legacy[p].state
      BY QuarantinedRow DEF Bare
    <3>2. QED
      BY <2>2, <3>1 DEF Migrate
  <2>3. ASSUME NEW o \in Operator, RecoverWrite(o)
        PROVE  /\ recovery[o] # Null /\ recovery[o].pair = p /\ recovery[o].before = legacy[p]
               /\ live[p] # Null /\ acks[p] # Null => acks'[p] = acks[p]
    <3> DEFINE plan == recovery[o]
    <3>1. plan \in Plan /\ plan.pair \in Pair /\ plan # Null /\ legacy[plan.pair] = plan.before
      BY <2>3 DEF RecoverWrite, StillAsRead, InboxTypeOK, Plan
    <3>2. p = plan.pair
      BY <2>3, <3>1 DEF RecoverWrite, InboxTypeOK
    <3>3. plan.action = "promote" => acks[p] \in {Null, plan.before.acked}
      BY <2>3, <3>2 DEF RecoverWrite, StillAsRead, Promotable
    <3>4. acks' = IF plan.action = "promote"
                  THEN [acks EXCEPT ![plan.pair] = plan.before.acked] ELSE acks
      BY <2>3 DEF RecoverWrite
    <3>5. QED
      BY <3>1, <3>2, <3>3, <3>4 DEF InboxTypeOK
  <2>4. CASE UNCHANGED legacy
    BY <2>4
  <2>5. QED
    BY <2>1, <2>2, <2>3, <2>4 DEF InboxNext, RecordAck, RecordRemoteAck, PurgeExpired,
       RecoverRead, RecoverAbandon, Tick, OldBinaryLeavesBareAck, tables
<1>2. QED
  BY <1>1, TypeCorrect, PTL DEF InboxSpec, DecisionsOnTheRowSeen
=============================================================================
