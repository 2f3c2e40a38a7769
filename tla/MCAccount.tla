------------------------------ MODULE MCAccount ------------------------------
(***************************************************************************)
(* Small instances of Account.                                             *)
(***************************************************************************)
EXTENDS Account, TLC

Either == Permutations(Procs) \cup Permutations(Objects)
=============================================================================
