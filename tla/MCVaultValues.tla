--------------------------- MODULE MCVaultValues ----------------------------
(***************************************************************************)
(* Small instances of VaultValues.                                         *)
(***************************************************************************)
EXTENDS VaultValues, TLC

CONSTANTS c1, c2, f1, v1, v2

\* Clients and values are interchangeable, and no property is a liveness one.
Interchangeable == Permutations(Clients) \cup Permutations(Values)
=============================================================================
