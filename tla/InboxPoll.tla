------------------------------ MODULE InboxPoll ------------------------------
(***************************************************************************)
(* The MCP tools check_messages, ack_message and purge_expired_messages    *)
(* (mcp_server.py, messaging/purge.py) over the inbox database of          *)
(* MessageInbox and the message keys of the mesh.                          *)
(*                                                                         *)
(* A pair is a msg_id, the recipient being the session that polls.  A      *)
(* place is one of the selectors it asks: its session inbox and its agent  *)
(* inbox, in each configured scope.  Between any two steps of a poll other *)
(* processes publish, acknowledge, purge and sweep, and the clock moves.   *)
(* Message bodies are not in the model: an over-limit one is listed with a *)
(* notice in its place, which changes nothing here.                        *)
(***************************************************************************)
EXTENDS MessageInbox, FiniteSets

CONSTANTS
  Place,       \* the selectors of a poll
  Early,       \* envelopes created before the caller's since_iso
  PageLimit,   \* the limit argument, clamped to 1..100
  MaxMail      \* bound on the messages published

VARIABLES
  mesh,        \* the message keys: the envelope stored at a place for a pair
  sent,        \* messages published so far
  poll,        \* the check_messages call, or Null
  sweep,       \* the keys a purge_expired_messages call has yet to delete, or Null
  read         \* history: pairs ever acknowledged

pollVars == <<schema, live, isAcked, acks, pending, tomb, legacy, audit,
              recovery, now, confirmed, oldBare, mesh, sent, poll, sweep, read>>

Key == Place \X Pair
Arrival == [place : Place, pair : Pair, envelope : Envelope]
Options == [expired : BOOLEAN, acked : BOOLEAN, since : BOOLEAN]

DiagnosticCodesWithoutFailure ==   \* mutant: a failed classification is not a diagnostic
  {"duplicate_retired", "protocol_violation", "legacy_ack_conflict",
   "ack_first_promoted", "expired_on_arrival"}

DiagnosticCodes ==
  {"duplicate_retired", "protocol_violation", "legacy_ack_conflict",
   "ack_first_promoted", "expired_on_arrival", "classification_failed"}

Judgement == [pair : Pair, envelope : Envelope, acked : BOOLEAN,
              code : DiagnosticCodes \cup {"registered", "duplicate_live"}]

Poll == [stage : {"asking", "purged", "reported"}, options : Options,
         todo : SUBSET Place,          \* selectors not asked yet
         replies : SUBSET Arrival,     \* replies of this selector, not looked at yet
         judged : SUBSET Judgement,    \* messages with their classifications
         last : Arrival \cup {Null},   \* the reply whose key may have to go
         incomplete : BOOLEAN,         \* ingress_errors is not empty
         page : SUBSET Pair, truncated : BOOLEAN,
         readBefore : SUBSET Pair, retiredBefore : SUBSET Pair]   \* history

\* Null is no poll and no reply; the limit is clamped to 1..100 by the caller.
ASSUME PollAssumption ==
  /\ PageLimit \in Nat \ {0} /\ MaxMail \in Nat
  /\ Null \notin Poll /\ Null \notin Arrival

PollTypeOK ==
  /\ InboxTypeOK
  /\ mesh \in [Key -> Envelope \cup {Null}]
  /\ sent \in 0..MaxMail
  /\ poll # Null => poll \in Poll /\ Cardinality(poll.page) <= PageLimit
  /\ sweep # Null => sweep \subseteq Key
  /\ read \subseteq Pair

Asking == poll # Null /\ poll.stage = "asking"

Remembered(p) == live[p] # Null \/ tomb[p] # Null

(***************************************************************************)
(* check_messages.                                                         *)
(***************************************************************************)
PollStart(options) ==
  /\ schema = "current"
  /\ poll # Null => poll.stage = "reported"
  /\ poll' = [stage |-> "asking", options |-> options, todo |-> Place, replies |-> {},
              judged |-> {}, last |-> Null, incomplete |-> FALSE, page |-> {},
              truncated |-> FALSE, readBefore |-> read,
              retiredBefore |-> {p \in Pair : tomb[p] # Null}]
  /\ UNCHANGED <<inboxVars, mesh, sent, sweep, read>>

\* session.get on the next selector: a storage may be missing from the
\* answers, and one may answer with an error.
Ask(place) ==
  /\ Asking /\ poll.replies = {} /\ poll.last = Null /\ place \in poll.todo
  /\ \E answered \in SUBSET {p \in Pair : mesh[<<place, p>>] # Null}, failed \in BOOLEAN :
       poll' = [poll EXCEPT
         !.todo = @ \ {place},
         !.replies = {[place |-> place, pair |-> p, envelope |-> mesh[<<place, p>>]] : p \in answered},
         !.incomplete = @ \/ failed]
  /\ UNCHANGED <<inboxVars, mesh, sent, sweep, read>>

\* The get or its iterator raises: what it has not yielded yet is not seen.
SelectorFails ==
  /\ Asking /\ poll.last = Null
  /\ \/ poll.replies # {} /\ poll' = [poll EXCEPT !.replies = {}, !.incomplete = TRUE]
     \/ /\ poll.replies = {}
        /\ \E place \in poll.todo :
             poll' = [poll EXCEPT !.todo = @ \ {place}, !.incomplete = TRUE]
  /\ UNCHANGED <<inboxVars, mesh, sent, sweep, read>>

\* A reply that does not parse.
Undecodable(reply) ==
  /\ Asking /\ poll.last = Null /\ reply \in poll.replies
  /\ poll' = [poll EXCEPT !.replies = @ \ {reply}, !.incomplete = TRUE]
  /\ UNCHANGED <<inboxVars, mesh, sent, sweep, read>>

SeenIds == {j.pair : j \in poll.judged}

\* The id was seen under another selector.
SeenBefore(reply) ==
  /\ Asking /\ poll.last = Null /\ reply \in poll.replies
  /\ reply.pair \in SeenIds
  /\ poll' = [poll EXCEPT !.replies = @ \ {reply}]
  /\ UNCHANGED <<inboxVars, mesh, sent, sweep, read>>

\* The acked field of an IngressResult.
AckedVerdictAlwaysUnread(p, code) == code = "ack_first_promoted"   \* mutant

AckedVerdict(p, code) ==
  code = "ack_first_promoted" \/ (code = "duplicate_live" /\ Acked(p))

\* register_or_classify commits.
Classify(reply) ==
  /\ Asking /\ poll.last = Null /\ reply \in poll.replies
  /\ reply.pair \notin SeenIds
  /\ Arrive(reply.pair, reply.envelope)
  /\ LET code == Verdict(reply.pair, reply.envelope)
     IN poll' = [poll EXCEPT
          !.replies = @ \ {reply},
          !.last = reply,
          !.judged = @ \cup {[pair |-> reply.pair, envelope |-> reply.envelope, code |-> code,
                              acked |-> AckedVerdict(reply.pair, code)]}]
  /\ UNCHANGED <<mesh, sent, sweep, read>>

\* The reply whose key may have to go after a classification that failed.
ExpungedAnyway(reply) == reply   \* mutant: the key is deleted whatever the index said

KeptForRetry(reply) == Null

\* register_or_classify raises and rolls back.
ClassifyFails(reply) ==
  /\ Asking /\ poll.last = Null /\ reply \in poll.replies
  /\ reply.pair \notin SeenIds
  /\ poll' = [poll EXCEPT
       !.replies = @ \ {reply},
       !.last = KeptForRetry(reply),
       !.judged = @ \cup {[pair |-> reply.pair, envelope |-> reply.envelope, acked |-> FALSE,
                           code |-> "classification_failed"]}]
  /\ UNCHANGED <<inboxVars, mesh, sent, sweep, read>>

\* The key of an expired arrival goes once its classification has committed,
\* unless the call only inspects; a delete that raises is passed over.
Expunge ==
  /\ Asking /\ poll.last # Null
  /\ poll' = [poll EXCEPT !.last = Null]
  /\ \/ /\ PastDeadline(poll.last.envelope) /\ ~poll.options.expired
        /\ mesh' = [mesh EXCEPT ![<<poll.last.place, poll.last.pair>>] = Null]
     \/ UNCHANGED mesh
  /\ UNCHANGED <<inboxVars, sent, sweep, read>>

\* index.purge_expired, or its failure.
PollPurge ==
  /\ Asking /\ poll.todo = {} /\ poll.replies = {} /\ poll.last = Null
  /\ poll' = [poll EXCEPT !.stage = "purged"]
  /\ PurgeExpired \/ UNCHANGED inboxVars
  /\ UNCHANGED <<mesh, sent, sweep, read>>

AskedToSeeRetired(j) ==   \* mutant: the debug view shows every retired arrival
  poll.options.expired /\ j.code \in {"expired_on_arrival", "duplicate_retired"}

AskedToSee(j) == poll.options.expired /\ j.code = "expired_on_arrival"

Diagnosed(j) == j.code \in DiagnosticCodes /\ ~AskedToSee(j)

Filtered ==
  {j \in poll.judged :
     /\ ~Diagnosed(j)
     /\ poll.options.expired \/ ~PastDeadline(j.envelope)
     /\ poll.options.acked \/ ~j.acked
     /\ poll.options.since => j.envelope \notin Early}

\* Sort and cut: which of the messages are the oldest is left open.
Page(page, ids) ==
  \/ Cardinality(page) = PageLimit
  \/ Cardinality(page) < PageLimit /\ page = ids

PollReport ==
  /\ poll # Null /\ poll.stage = "purged"
  /\ LET ids == {j.pair : j \in Filtered}
     IN \E page \in SUBSET ids :
          /\ Page(page, ids)
          /\ poll' = [poll EXCEPT !.stage = "reported", !.page = page,
                                  !.truncated = Cardinality(ids) > PageLimit]
  /\ UNCHANGED <<inboxVars, mesh, sent, sweep, read>>

(***************************************************************************)
(* The other tools and the other processes.                                *)
(***************************************************************************)

\* ack_message: only a registered message can be acknowledged.  The ack key it
\* then publishes, or fails to publish, is read by nothing in the code.
AckMessage(p, a) ==
  /\ RecordAck(p, a)
  /\ read' = read \cup {p}
  /\ UNCHANGED <<mesh, sent, poll, sweep>>

\* send_message of some peer, or a storage that comes back with a message the
\* others have deleted.
Publish(place, p, e) ==
  /\ sent < MaxMail
  /\ sent' = sent + 1
  /\ mesh' = [mesh EXCEPT ![<<place, p>>] = e]
  /\ UNCHANGED <<inboxVars, poll, sweep, read>>

\* purge_expired_msgs: scan, delete key by key, sweep the index.
SweepScan ==
  /\ schema = "current" /\ sweep = Null
  /\ \E found \in SUBSET {k \in Key : mesh[k] # Null /\ PastDeadline(mesh[k])} :
       found # {} /\ sweep' = found
  /\ UNCHANGED <<inboxVars, mesh, sent, poll, read>>

SweepDelete(k) ==
  /\ sweep # Null /\ k \in sweep
  /\ sweep' = sweep \ {k}
  /\ mesh' = [mesh EXCEPT ![k] = Null] \/ UNCHANGED mesh
  /\ UNCHANGED <<inboxVars, sent, poll, read>>

\* The sweep of another host purges its own index, not this one.
SweepEnd ==
  /\ sweep = {}
  /\ sweep' = Null
  /\ PurgeExpired \/ UNCHANGED inboxVars
  /\ UNCHANGED <<mesh, sent, poll, read>>

Clock == Tick /\ UNCHANGED <<mesh, sent, poll, sweep, read>>

\* An empty inbox on a current database.
PollInit ==
  /\ schema = "current"
  /\ live = [p \in Pair |-> Null] /\ acks = [p \in Pair |-> Null]
  /\ isAcked = [p \in Pair |-> FALSE]
  /\ pending = [p \in Pair |-> Null] /\ tomb = [p \in Pair |-> Null]
  /\ legacy = [p \in Pair |-> Null] /\ audit = [p \in Pair |-> {}]
  /\ recovery = [o \in Operator |-> Null]
  /\ now = 0 /\ confirmed = {} /\ oldBare = {}
  /\ mesh = [k \in Key |-> Null]
  /\ sent = 0 /\ poll = Null /\ sweep = Null /\ read = {}

PollNext ==
  \/ \E options \in Options : PollStart(options)
  \/ \E place \in Place : Ask(place)
  \/ SelectorFails
  \/ \E reply \in Arrival : Undecodable(reply)
  \/ \E reply \in Arrival : SeenBefore(reply)
  \/ \E reply \in Arrival : Classify(reply)
  \/ \E reply \in Arrival : ClassifyFails(reply)
  \/ Expunge
  \/ PollPurge
  \/ PollReport
  \/ \E p \in Pair, a \in AckTime : AckMessage(p, a)
  \/ \E place \in Place, p \in Pair, e \in Envelope : Publish(place, p, e)
  \/ SweepScan
  \/ \E k \in Key : SweepDelete(k)
  \/ SweepEnd
  \/ Clock

PollSpec == PollInit /\ [][PollNext]_pollVars

-----------------------------------------------------------------------------
(***************************************************************************)
(* Properties.                                                             *)
(***************************************************************************)

Reported == poll # Null /\ poll.stage = "reported"

\* A poll takes a message off the mesh only when the index has its id, live or
\* retired: the id cannot come back as new mail, whatever classification
\* failed and whoever purged in between (issue #215 and its fix).
PollDeletesKnown ==
  [][\A k \in Key : mesh[k] # Null /\ mesh'[k] = Null /\ sweep' = sweep => Remembered(k[2])]_pollVars

\* No arrival vanishes without a trace: an id a finished poll has seen is
\* listed, named in the diagnostics, or cut from a page that says truncated;
\* or it is one the index has, and it is read, expired or older than asked for.
ArrivalsAccountedFor ==
  Reported => \A j \in poll.judged :
    \/ j.pair \in poll.page
    \/ Diagnosed(j)
    \/ poll.truncated /\ j \in Filtered
    \/ /\ Remembered(j.pair)
       /\ \/ j.pair \in read /\ ~poll.options.acked
          \/ PastDeadline(j.envelope) /\ ~poll.options.expired
          \/ j.envelope \in Early /\ poll.options.since

\* What this session acknowledged before a poll is never listed by it as
\* unread, even when the message was purged since and arrives again.
AckedStaysRead ==
  Reported => \A j \in poll.judged :
    j.pair \in poll.page \cap poll.readBefore => j.acked

\* An id that was retired before a poll is not listed by it, in any view.
RetiredNotDelivered == Reported => poll.page \cap poll.retiredBefore = {}
=============================================================================
