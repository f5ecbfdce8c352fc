---------------------------- MODULE MessageInbox ----------------------------
(***************************************************************************)
(* The inbox database of one host (messaging/local_index.py) with its      *)
(* quarantine of unmatched acks (messaging/orphan_acks.py).                *)
(*                                                                         *)
(* A pair is a (msg_id, recipient_session_id); every table of the inbox is *)
(* keyed by it.  Each write of the code is one BEGIN IMMEDIATE             *)
(* transaction, so each is one action here; a transaction that raises      *)
(* rolls back and is a stuttering step.  orphan_acks.recover is the        *)
(* exception: it decides on a read-only snapshot, takes a backup, and only *)
(* then writes, so it is two actions and everything may happen in between. *)
(*                                                                         *)
(* An "old binary" is a process that predates the quarantine and still     *)
(* shares the database: it can leave an ack that has no message.           *)
(***************************************************************************)
EXTENDS Naturals

CONSTANTS
  Pair,        \* (msg_id, recipient_session_id) pairs
  Envelope,    \* envelopes a sender may put on a pair
  AckTime,     \* acked_at timestamps
  Operator,    \* people running `orphan-acks recover'
  Deadline,    \* when an envelope is past its TTL (models.is_expired)
  Expiry,      \* its expires_at column, the only deadline the purge reads
  MaxTime,     \* bound on the clock
  MaxRevision, \* bound on the rewrites of one quarantined row
  Null,        \* no row, no column value
  Unrecorded   \* a tombstone written before schema v3: NULL envelope columns

\* A legacy_unknown_acks row.  `also' holds the other ack times noted in
\* resolution_note; `revision' counts the rewrites of its timestamped columns
\* (resolved_at, resolution_note), so that two states of a row never compare
\* equal by accident.
LegacyRow == [acked : AckTime, state : {"unresolved", "released", "promoted"},
              provenance : {"migration", "post_migration_ack"},
              also : SUBSET AckTime, revision : Nat]

\* A recover call between its read and its write.
Plan == [pair : Pair, action : {"release", "promote"}, before : LegacyRow]

ASSUME ConstantsAssumption ==
  /\ Null \notin Envelope /\ Null \notin AckTime
  /\ Null \notin LegacyRow /\ Null \notin Plan
  /\ Unrecorded \notin Envelope /\ Unrecorded # Null
  /\ MaxTime \in Nat /\ MaxRevision \in Nat
  /\ Deadline \in [Envelope -> Nat \cup {Null}]
  /\ Expiry \in [Envelope -> Nat \cup {Null}]
  /\ Null \notin Nat

VARIABLES
  schema,      \* "old" until _migrate has committed, then "current"
  live,        \* messages table: the envelope registered for a pair
  isAcked,     \* messages.is_acked
  acks,        \* acks table: acked_at
  pending,     \* pending_acks table: acked_at
  tomb,        \* message_tombstones table: the envelope the id retired with
  legacy,      \* legacy_unknown_acks table
  audit,       \* ack times the before images of recovery_audit hold
  recovery,    \* the recover call each operator has in progress
  now,         \* wall clock
  confirmed,   \* history: pairs somebody really acknowledged
  oldBare      \* history: pairs an old binary left a bare ack on, after the
               \* migration

tables == <<live, isAcked, acks, pending, tomb, legacy, audit>>
inboxVars == <<schema, live, isAcked, acks, pending, tomb, legacy, audit,
               recovery, now, confirmed, oldBare>>

InboxTypeOK ==
  /\ schema \in {"old", "current"}
  /\ live \in [Pair -> Envelope \cup {Null}]
  /\ isAcked \in [Pair -> BOOLEAN]
  /\ acks \in [Pair -> AckTime \cup {Null}]
  /\ pending \in [Pair -> AckTime \cup {Null}]
  /\ tomb \in [Pair -> Envelope \cup {Null, Unrecorded}]
  /\ legacy \in [Pair -> LegacyRow \cup {Null}]
  /\ audit \in [Pair -> SUBSET AckTime]
  /\ recovery \in [Operator -> Plan \cup {Null}]
  /\ now \in 0..MaxTime
  /\ confirmed \subseteq Pair
  /\ oldBare \subseteq Pair

(***************************************************************************)
(* Reading the tables.                                                     *)
(***************************************************************************)

\* LocalMessageIndex.is_acked: an ack counts only under its message.
Acked(p) == live[p] # Null /\ (isAcked[p] \/ acks[p] # Null)

\* An ack with no message, which proves nothing.
Bare(p) == live[p] = Null /\ acks[p] # Null

\* models.is_expired
PastDeadline(e) == Deadline[e] # Null /\ Deadline[e] <= now

\* The rows purge_expired selects: expires_at IS NOT NULL AND <= now.
Expiring == {p \in Pair : live[p] # Null /\ Expiry[live[p]] # Null
                                         /\ Expiry[live[p]] <= now}

(***************************************************************************)
(* The quarantine.  INSERT OR IGNORE keeps the row a pair already has; a   *)
(* differing acked_at is appended to its note (also), because the source   *)
(* row is deleted.                                                         *)
(***************************************************************************)
QuarantinedWithoutNote(p, provenance) ==   \* mutant: no _record_conflicting_ack_times
  IF legacy[p] = Null
  THEN [acked |-> acks[p], state |-> "unresolved", provenance |-> provenance,
        also |-> {}, revision |-> 0]
  ELSE legacy[p]

Quarantined(p, provenance) ==
  IF legacy[p] = Null
  THEN [acked |-> acks[p], state |-> "unresolved", provenance |-> provenance,
        also |-> {}, revision |-> 0]
  ELSE IF acks[p] = legacy[p].acked THEN legacy[p]
  ELSE [legacy[p] EXCEPT !.also = @ \cup {acks[p]}, !.revision = @ + 1]

\* The legacy row a classification of p works with: quarantine_bare_ack has
\* run first if p has no message.
LegacySeen(p) == IF Bare(p) THEN Quarantined(p, "post_migration_ack") ELSE legacy[p]

Withheld(p) == LegacySeen(p) # Null /\ LegacySeen(p).state = "unresolved"

(***************************************************************************)
(* register_or_classify: what the arrival of envelope e on p comes to.     *)
(***************************************************************************)
VerdictIgnoringTombstones(p, e) ==   \* mutant: the retired id is not looked up
  CASE Withheld(p)       -> "legacy_ack_conflict"
    [] ~Withheld(p) /\ live[p] # Null -> "duplicate_live"
    [] ~Withheld(p) /\ live[p] = Null /\ pending[p] # Null -> "ack_first_promoted"
    [] OTHER -> IF PastDeadline(e) THEN "expired_on_arrival" ELSE "registered"

Verdict(p, e) ==
  CASE Withheld(p) -> "legacy_ack_conflict"
    [] ~Withheld(p) /\ live[p] # Null -> "duplicate_live"
    [] ~Withheld(p) /\ live[p] = Null /\ tomb[p] # Null ->
         IF tomb[p] \in {e, Unrecorded} THEN "duplicate_retired" ELSE "protocol_violation"
    [] ~Withheld(p) /\ live[p] = Null /\ tomb[p] = Null /\ pending[p] # Null ->
         "ack_first_promoted"
    [] OTHER -> IF PastDeadline(e) THEN "expired_on_arrival" ELSE "registered"

\* quarantine_bare_ack, the first write of every classification.
QuarantineOnArrival(p) == legacy' = [legacy EXCEPT ![p] = LegacySeen(p)]

AcksUnquarantined(p) == acks   \* mutant: a bare ack stays where it is

\* The acks table once a bare ack on p has moved to the quarantine.
AcksWithoutBare(p) == IF Bare(p) THEN [acks EXCEPT ![p] = Null] ELSE acks

\* The pair is quarantined: keep the payload, but out of normal mail.
ArriveWithheld(p, e) ==
  /\ Verdict(p, e) = "legacy_ack_conflict"
  /\ live' = IF live[p] = Null THEN [live EXCEPT ![p] = e] ELSE live
  /\ acks' = AcksWithoutBare(p)
  /\ UNCHANGED <<isAcked, pending, tomb>>

\* The message is in the inbox already, or its id is retired: nothing is
\* registered (a bare ack has moved to the quarantine all the same).
ArriveKnown(p, e) ==
  /\ Verdict(p, e) \in {"duplicate_live", "duplicate_retired", "protocol_violation"}
  /\ acks' = AcksWithoutBare(p)
  /\ UNCHANGED <<live, isAcked, pending, tomb>>

\* The ack came first: register the message as read and consume the ack.
ArriveAckFirst(p, e) ==
  /\ Verdict(p, e) = "ack_first_promoted"
  /\ live' = [live EXCEPT ![p] = e]
  /\ isAcked' = [isAcked EXCEPT ![p] = TRUE]
  /\ acks' = [acks EXCEPT ![p] = pending[p]]
  /\ pending' = [pending EXCEPT ![p] = Null]
  /\ UNCHANGED tomb

\* Dead on arrival: the id is retired in the transaction that saw it.
ArriveExpired(p, e) ==
  /\ Verdict(p, e) = "expired_on_arrival"
  /\ tomb' = [tomb EXCEPT ![p] = e]
  /\ acks' = AcksWithoutBare(p)
  /\ UNCHANGED <<live, isAcked, pending>>

ArriveRegistered(p, e) ==
  /\ Verdict(p, e) = "registered"
  /\ live' = [live EXCEPT ![p] = e]
  /\ acks' = AcksWithoutBare(p)
  /\ UNCHANGED <<isAcked, pending, tomb>>

Arrive(p, e) ==
  /\ schema = "current"
  /\ \/ ArriveWithheld(p, e)
     \/ ArriveKnown(p, e)
     \/ ArriveAckFirst(p, e)
     \/ ArriveExpired(p, e)
     \/ ArriveRegistered(p, e)
  /\ QuarantineOnArrival(p)
  /\ UNCHANGED <<schema, audit, recovery, now, confirmed, oldBare>>

(***************************************************************************)
(* Acknowledging and retiring.                                             *)
(***************************************************************************)

WriteAckRowOnly(p, a) == acks' = [acks EXCEPT ![p] = a] /\ UNCHANGED isAcked   \* mutant

\* _write_ack_locked
WriteAck(p, a) ==
  /\ acks' = [acks EXCEPT ![p] = a]
  /\ isAcked' = [isAcked EXCEPT ![p] = TRUE]

\* record_ack: raises unless the message is registered.
RecordAck(p, a) ==
  /\ schema = "current"
  /\ live[p] # Null
  /\ WriteAck(p, a)
  /\ confirmed' = confirmed \cup {p}
  /\ UNCHANGED <<schema, live, pending, tomb, legacy, audit, recovery, now, oldBare>>

\* record_remote_ack: an ack ahead of its message is parked (INSERT OR IGNORE).
RecordRemoteAck(p, a) ==
  /\ schema = "current"
  /\ \/ live[p] # Null /\ WriteAck(p, a) /\ UNCHANGED pending
     \/ /\ live[p] = Null
        /\ pending' = IF pending[p] = Null THEN [pending EXCEPT ![p] = a] ELSE pending
        /\ UNCHANGED <<acks, isAcked>>
  /\ confirmed' = confirmed \cup {p}
  /\ UNCHANGED <<schema, live, tomb, legacy, audit, recovery, now, oldBare>>

TombAfterReplacingPurge ==   \* mutant: INSERT OR REPLACE
  [p \in Pair |-> IF p \in Expiring THEN live[p] ELSE tomb[p]]

TombAfterForgetfulPurge == tomb   \* mutant: the message is deleted, its id is not retired

TombAfterPurge ==
  [p \in Pair |-> IF p \in Expiring /\ tomb[p] = Null THEN live[p] ELSE tomb[p]]

\* purge_expired: tombstone (INSERT OR IGNORE), then drop the ack and the
\* message of every expiring pair, in one transaction.
PurgeExpired ==
  /\ schema = "current"
  /\ Expiring # {}
  /\ tomb' = TombAfterPurge
  /\ acks' = [p \in Pair |-> IF p \in Expiring THEN Null ELSE acks[p]]
  /\ live' = [p \in Pair |-> IF p \in Expiring THEN Null ELSE live[p]]
  /\ isAcked' = [p \in Pair |-> IF p \in Expiring THEN FALSE ELSE isAcked[p]]
  /\ confirmed' = confirmed \ Expiring
  /\ UNCHANGED <<schema, pending, legacy, audit, recovery, now, oldBare>>

(***************************************************************************)
(* Opening the database: the one-time classification of unmatched acks.    *)
(***************************************************************************)
Migrate ==
  /\ schema = "old"
  /\ schema' = "current"
  /\ legacy' = [p \in Pair |-> IF Bare(p) THEN Quarantined(p, "migration") ELSE legacy[p]]
  /\ acks' = [p \in Pair |-> IF Bare(p) THEN Null ELSE acks[p]]
  /\ UNCHANGED <<live, isAcked, pending, tomb, audit, recovery, now, confirmed, oldBare>>

(***************************************************************************)
(* orphan_acks.recover.                                                    *)
(***************************************************************************)

PromotableUnanchored(p, before) == acks[p] \in {Null, before.acked}   \* mutant: no message needed

\* _require_promotable
Promotable(p, before) == live[p] # Null /\ acks[p] \in {Null, before.acked}

\* The read-only half: find the row, check a promotion, take the backup.
\* Without --execute the call ends here (RecoverAbandon).
RecoverRead(o, p, action) ==
  /\ schema = "current"
  /\ recovery[o] = Null
  /\ legacy[p] # Null
  /\ legacy[p].revision < MaxRevision
  /\ action = "promote" => Promotable(p, legacy[p])
  /\ recovery' = [recovery EXCEPT ![o] = [pair |-> p, action |-> action, before |-> legacy[p]]]
  /\ UNCHANGED <<schema, tables, now, confirmed, oldBare>>

StillPromotable(plan) ==   \* mutant: the row is not read again
  plan.action = "promote" => Promotable(plan.pair, plan.before)

\* What the write half re-checks under the write lock.
StillAsRead(plan) ==
  /\ legacy[plan.pair] = plan.before
  /\ plan.action = "promote" => Promotable(plan.pair, plan.before)

Resolution(action) == IF action = "promote" THEN "promoted" ELSE "released"

\* The write half.  resolution_note is overwritten (also becomes empty), after
\* the before image, the authoritative ack included, went to recovery_audit.
RecoverWrite(o) ==
  /\ recovery[o] # Null
  /\ StillAsRead(recovery[o])
  /\ LET plan == recovery[o]
         p == plan.pair
         promote == plan.action = "promote"
     IN /\ acks' = IF promote THEN [acks EXCEPT ![p] = plan.before.acked] ELSE acks
        /\ isAcked' = IF promote THEN [isAcked EXCEPT ![p] = TRUE] ELSE isAcked
        /\ legacy' = [legacy EXCEPT ![p].state = Resolution(plan.action),
                                    ![p].also = {},
                                    ![p].revision = @ + 1]
        /\ audit' = [audit EXCEPT ![p] = @ \cup {plan.before.acked} \cup plan.before.also
                                           \cup ({acks[p]} \ {Null})]
        /\ confirmed' = IF promote THEN confirmed \cup {p} ELSE confirmed
  /\ recovery' = [recovery EXCEPT ![o] = Null]
  /\ UNCHANGED <<schema, live, pending, tomb, now, oldBare>>

\* A dry run, a failed backup, a crash, or the refusal under the lock.
RecoverAbandon(o) ==
  /\ recovery[o] # Null
  /\ recovery' = [recovery EXCEPT ![o] = Null]
  /\ UNCHANGED <<schema, tables, now, confirmed, oldBare>>

(***************************************************************************)
(* The environment: the clock, and a binary that was not restarted.        *)
(***************************************************************************)
Tick ==
  /\ now < MaxTime
  /\ now' = now + 1
  /\ UNCHANGED <<schema, tables, recovery, confirmed, oldBare>>

\* An old binary purged the message of an ack, or lost the race between its
\* check and its write: an ack without a message remains.
OldBinaryLeavesBareAck(p, a) ==
  /\ schema = "current"
  /\ live[p] = Null /\ acks[p] = Null
  /\ legacy[p] # Null => legacy[p].revision < MaxRevision
  /\ acks' = [acks EXCEPT ![p] = a]
  /\ oldBare' = oldBare \cup {p}
  /\ UNCHANGED <<schema, live, isAcked, pending, tomb, legacy, audit, recovery, now, confirmed>>

\* A row of the quarantine before schema v4, which added the provenance: the upgrade pass
\* found it, and an operator may have decided on it.
Classified == [acked : AckTime, state : {"unresolved", "released", "promoted"},
               provenance : {"migration"}, also : {{}}, revision : {0}]

\* A fresh database, or one an older schema left behind: any messages, acks under them or
\* bare; since schema v2 also parked acks, quarantined ones, a promoted one of them on its
\* message or retired with it, and tombstones, whose id is reused only in the quarantine
\* and which have no envelope before v3.
InboxInit ==
  /\ schema = "old"
  /\ live \in [Pair -> Envelope \cup {Null}]
  /\ acks \in [Pair -> AckTime \cup {Null}]
  /\ isAcked = [p \in Pair |-> live[p] # Null /\ acks[p] # Null]
  /\ pending \in [Pair -> AckTime \cup {Null}]
  /\ tomb \in [Pair -> Envelope \cup {Null, Unrecorded}]
  /\ legacy \in [Pair -> Classified \cup {Null}]
  /\ \A p \in Pair : tomb[p] # Null /\ live[p] # Null => legacy[p] # Null
  /\ \A p \in Pair : legacy[p] # Null /\ legacy[p].state = "promoted" =>
       IF live[p] # Null THEN acks[p] # Null ELSE tomb[p] # Null
  /\ audit = [p \in Pair |-> {}]
  /\ recovery = [o \in Operator |-> Null]
  /\ now = 0
  /\ confirmed = {p \in Pair : pending[p] # Null \/ (live[p] # Null /\ acks[p] # Null)}
  /\ oldBare = {}

InboxNext ==
  \/ \E p \in Pair, e \in Envelope : Arrive(p, e)
  \/ \E p \in Pair, a \in AckTime : RecordAck(p, a)
  \/ \E p \in Pair, a \in AckTime : RecordRemoteAck(p, a)
  \/ PurgeExpired
  \/ Migrate
  \/ \E o \in Operator, p \in Pair, action \in {"release", "promote"} : RecoverRead(o, p, action)
  \/ \E o \in Operator : RecoverWrite(o)
  \/ \E o \in Operator : RecoverAbandon(o)
  \/ Tick
  \/ \E p \in Pair, a \in AckTime : OldBinaryLeavesBareAck(p, a)

InboxSpec == InboxInit /\ [][InboxNext]_inboxVars

-----------------------------------------------------------------------------
(***************************************************************************)
(* Properties.                                                             *)
(***************************************************************************)

\* Once the database is migrated, every ack has its message, except where an
\* old binary left one behind: no path of the current code (record_ack racing
\* purge_expired, a promotion whose message was purged after the operator
\* looked, the migration itself) manufactures a bare ack.
AckAnchored ==
  schema = "current" => \A p \in Pair : Bare(p) => p \in oldBare

\* The two places that record an acknowledgement agree, so list_unacked (which
\* reads the flag) and is_acked (which reads either) cannot disagree.
FlagMatchesAck ==
  \A p \in Pair : isAcked[p] <=> (live[p] # Null /\ acks[p] # Null)

\* A message counts as read only if somebody acknowledged this message: never
\* because an unmatched ack was lying on its pair.  This is the failure the
\* quarantine exists to end.
OnlyGenuineAcks == \A p \in Pair : Acked(p) => p \in confirmed

\* A retired id carries a message again only behind a quarantined ack; every
\* other arrival on it is refused.
RetiredBehindQuarantine ==
  \A p \in Pair : tomb[p] # Null /\ live[p] # Null => legacy[p] # Null

\* An ack that was promoted stays in force until its message is retired, and
\* then its id is retired with it.
PromotionSticks ==
  \A p \in Pair : legacy[p] # Null /\ legacy[p].state = "promoted" =>
    IF live[p] # Null THEN Acked(p) ELSE tomb[p] # Null

\* The first tombstone of a pair is kept as it was written, whatever arrives
\* or is purged later: it is what a reused id is compared with.
TombstonesPermanent ==
  [][\A p \in Pair : tomb[p] # Null => tomb'[p] = tomb[p]]_inboxVars

\* A decision of an operator takes effect only on the row the operator saw,
\* and a promotion never replaces an acknowledgement the message already has.
DecisionsOnTheRowSeen ==
  [][\A p \in Pair : legacy[p] # Null /\ legacy'[p].state # legacy[p].state =>
       /\ \E o \in Operator : /\ recovery[o] # Null
                              /\ recovery[o].pair = p
                              /\ recovery[o].before = legacy[p]
       /\ live[p] # Null /\ acks[p] # Null => acks'[p] = acks[p]]_inboxVars

\* The ack times known for a pair whose meaning is open: a bare ack, the
\* quarantined ack and the times noted beside it, the audited before images.
Evidence(p) ==
  (IF Bare(p) THEN {acks[p]} ELSE {})
  \cup (IF legacy[p] # Null THEN {legacy[p].acked} \cup legacy[p].also ELSE {})
  \cup audit[p]

\* No ack time is ever lost by classifying, quarantining again or recovering.
EvidenceKept ==
  [][\A p \in Pair : Evidence(p) \subseteq Evidence(p)']_inboxVars

\* rollout_status: nothing blocks the completion of the rollout.
RolloutComplete ==
  /\ schema = "current"
  /\ \A p \in Pair : ~Bare(p)
  /\ \A p \in Pair : legacy[p] # Null => legacy[p].provenance = "migration"

\* The status check says an old writer that left a bare ack after the
\* migration blocks completion ("find it before calling the rollout done").
OldWriterBlocksCompletion == oldBare # {} => ~RolloutComplete
=============================================================================
