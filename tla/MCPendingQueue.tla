--------------------------- MODULE MCPendingQueue ---------------------------
(***************************************************************************)
(* Instance of PendingQueue for TLC: an observation whose scope may be     *)
(* withdrawn, a tombstone, and another observation.                        *)
(***************************************************************************)
EXTENDS PendingQueue, TLC

CONSTANTS scoped, tomb, plain

ProcessSymmetry == Permutations(Process)
=============================================================================
