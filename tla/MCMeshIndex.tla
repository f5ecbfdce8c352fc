----------------------------- MODULE MCMeshIndex -----------------------------
(***************************************************************************)
(* Instances of MeshIndex for TLC: n, the newer memory, supersedes m.      *)
(***************************************************************************)
EXTENDS MeshIndex, TLC

CONSTANTS m, n

ProcessSymmetry == Permutations(Process)

MCSupersedes == [o \in Obs |-> IF o = n /\ m \in Obs THEN {m} ELSE {}]
=============================================================================
