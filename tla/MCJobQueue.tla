----------------------------- MODULE MCJobQueue -----------------------------
(***************************************************************************)
(* Small instances of JobQueue: the first jobs belong to one student, the  *)
(* last to another.                                                        *)
(***************************************************************************)
EXTENDS JobQueue, TLC

CONSTANTS k1, k2

TwoOfOneKey   == [j \in {1, 2} |-> k1]
TwoAndAnother == (1 :> k1) @@ (2 :> k1) @@ (3 :> k2)
=============================================================================
