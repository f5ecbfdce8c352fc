------------------------------ MODULE MCRecords ------------------------------
(***************************************************************************)
(* The two databases of a host, for TLC: the inbox and the index beside    *)
(* the mesh.  They share no state, so a behaviour exercises one of them:   *)
(* `file' says which, and the other's variables keep one value.            *)
(*                                                                         *)
(* The inbox has one pair, since no transaction relates two; two envelopes *)
(* let a retired id be reused, and two operators can race on its row.      *)
(***************************************************************************)
EXTENDS MessageInbox, MeshIndex

CONSTANTS dated, timed    \* an envelope with expires_at, and one with only ttl_sec, which the purge never reads

VARIABLE file

Dated == [e \in Envelope |-> IF e = dated THEN 1 ELSE Null]
Timed == [e \in Envelope |-> IF e = dated THEN 1 ELSE 2]

Alone == [o \in Obs |-> {}]

\* Bound: a memory is physically deleted only in behaviours with at most one fault.
PurgeBound == faults = 2 => purged = {}

MCInit ==
  /\ Init /\ InboxInit
  /\ \/ file = "inbox"
     \/ file = "index" /\ \A p \in Pair : live[p] = Null /\ acks[p] = Null /\ tomb[p] = Null
                                           /\ pending[p] = Null /\ legacy[p] = Null

MCNext ==
  /\ UNCHANGED file
  /\ \/ file = "index" /\ Next /\ PurgeBound' /\ UNCHANGED inboxVars
     \/ file = "inbox" /\ InboxNext /\ UNCHANGED vars

\* Fairness is about the index; what only reads the inbox is not affected by it.
MCSpec == MCInit /\ [][MCNext]_<<file, vars, inboxVars>> /\ Fairness
=============================================================================
