------------------------------ MODULE MCSaves ------------------------------
(***************************************************************************)
(* Saving on a mesh host, for TLC: what becomes of a put, through the      *)
(* pending queue, and what the caller of a decision is told afterwards.    *)
(* The two models share no state, so a behaviour exercises one: `part'     *)
(* says which, and the other's variables keep one value.                   *)
(***************************************************************************)
EXTENDS PendingQueue, SupersedeHint

CONSTANTS
  scoped, tomb, plain,   \* an observation whose scope may be withdrawn, a tombstone, another observation
  topic                  \* of the decisions

VARIABLE part

(***************************************************************************)
(* Three decisions on one topic, the third of which supersedes the first.  *)
(* A hint has room for one.                                                *)
(***************************************************************************)
OneTopic  == [o \in Obs |-> topic]
ById      == [o \in Obs |-> o]
LastOfAll == [o \in Obs |-> IF o = 3 THEN {1} ELSE {}]

\* Bounds: a router that is up at first and serves every scope (both change), and
\* of the decisions' failures and steps of others two together.
TwoEvents == upsets + changes <= 2

MCInit ==
  /\ Init /\ HintInit
  /\ part \in {"queue", "decisions"}
  /\ up /\ blocked = {}
  /\ part = "decisions" => queue = <<>> /\ mesh = {}

MCNext ==
  /\ UNCHANGED part
  /\ \/ part = "queue" /\ Next /\ UNCHANGED hintVars
     \/ part = "decisions" /\ HintNext /\ TwoEvents' /\ UNCHANGED vars

MCSpec == MCInit /\ [][MCNext]_<<part, vars, hintVars>>
          /\ \A p \in Process : WF_vars(DrainStep(p))
=============================================================================
