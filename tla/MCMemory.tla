------------------------------ MODULE MCMemory ------------------------------
(***************************************************************************)
(* Small instances of Memory: a city that is said, said again in other     *)
(* letters and changed, next to a second fact and a weaker draft of it.    *)
(***************************************************************************)
EXTENDS Memory, TLC

CONSTANTS w1, w2

Either == Permutations(Workers)

Says(k, s, st, c) ==
  [key |-> k, content |-> s, status |-> st, confidence |-> c, quoted |-> s # "bs"]
FourTurns == [t \in {1, 2, 3, 4} |->
  CASE t = 1 -> <<Says("city", "lahore", "candidate", 1)>>
    [] t = 2 -> <<Says("city", "karachi", "active", 1), Says("city", "Lahore", "active", 2)>>
    [] t = 3 -> <<Says("city", "quetta", "active", 1), Says("degree", "bs", "active", 1)>>
    [] t = 4 -> <<Says("city", "lahore", "active", 1)>>]
Said == {"lahore", "Lahore", "karachi", "quetta", "bs"}
Alike == {p \in Said \X Said : p[1] = p[2] \/ p \in {"lahore", "Lahore"} \X {"lahore", "Lahore"}}
=============================================================================
