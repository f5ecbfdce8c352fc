----------------------------- MODULE MCBackends -----------------------------
(***************************************************************************)
(* The two backends of a host for TLC, over two memories of which n, the   *)
(* newer one, supersedes m.  A process chooses its backend once            *)
(* (get_backend_mode), so a behaviour is one backend at work: `backend`    *)
(* says which, and the other's variables keep one value.                   *)
(***************************************************************************)
EXTENDS LocalBackend, MeshIndex, TLC

CONSTANTS
  m, n,
  MaxFlight   \* bound: samples on their way to the index at a time

VARIABLE backend

AgentSymmetry == Permutations(Agent)

MCSupersedes == [o \in Obs |-> IF o = n /\ m \in Obs THEN {m} ELSE {}]

MCInit ==
  /\ LocalInit /\ Init
  /\ \/ backend = "local"
     \/ backend = "zenoh" /\ ~made

MCNext ==
  /\ UNCHANGED backend
  /\ \/ backend = "local" /\ LocalNext /\ UNCHANGED vars
     \/ backend = "zenoh" /\ Next /\ Cardinality(flight') <= MaxFlight /\ UNCHANGED localVars

MCSpec == MCInit /\ [][MCNext]_<<backend, localVars, vars>>
=============================================================================
