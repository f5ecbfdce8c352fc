------------------------------ MODULE MCServer ------------------------------
(***************************************************************************)
(* One MCP server process for TLC: its messaging tools over the inbox      *)
(* database and its threads over the mesh session.  The two share no       *)
(* state, so a behaviour exercises one: `part' says which, and the other's *)
(* variables keep one value.                                               *)
(***************************************************************************)
EXTENDS InboxPoll, SessionLifecycle, TLC

CONSTANTS lasting, brief   \* envelopes without and with a deadline

VARIABLE part

Due == (lasting :> Null) @@ (brief :> 1)

Symmetry == Permutations(Pair) \cup Permutations(Place) \cup Permutations(Worker)

MCInit ==
  /\ part \in {"messages", "threads"}
  /\ PollInit /\ SessionInit
  /\ part = "messages" => session = 0

\* Bound: a poll departs from the defaults of at most one of its options.
OneOption == poll' # Null => Cardinality({o \in DOMAIN poll'.options : poll'.options[o]}) <= 1

MCNext ==
  /\ UNCHANGED part
  /\ \/ part = "messages" /\ PollNext /\ OneOption /\ UNCHANGED threadVars
     \/ part = "threads" /\ SessionNext /\ UNCHANGED pollVars

MCSpec == MCInit /\ [][MCNext]_<<part, pollVars, threadVars>>
=============================================================================
