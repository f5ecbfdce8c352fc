------------------------------ MODULE NoValue ------------------------------
(***************************************************************************)
(* The value that stands for Python's None and SQL's NULL in the modules   *)
(* that are checked together.                                              *)
(***************************************************************************)
CONSTANT None
=============================================================================
