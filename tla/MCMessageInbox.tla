--------------------------- MODULE MCMessageInbox ---------------------------
(***************************************************************************)
(* Instance of MessageInbox for TLC.  No transaction relates two pairs, so *)
(* one pair sees every interleaving a pair can see; two envelopes let a    *)
(* retired id be reused, and two operators can race on the same row.       *)
(***************************************************************************)
EXTENDS MessageInbox

CONSTANTS e1, e2

\* e1 sets expires_at = 1; e2 sets only ttl_sec, which the purge never reads.
MCExpiry == [e \in Envelope |-> IF e = e1 THEN 1 ELSE Null]
MCDeadline == [e \in Envelope |-> IF e = e1 THEN 1 ELSE 2]
=============================================================================
