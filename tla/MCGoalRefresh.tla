--------------------------- MODULE MCGoalRefresh ----------------------------
(***************************************************************************)
(* Small instances of GoalRefresh.                                         *)
(***************************************************************************)
EXTENDS GoalRefresh, TLC

CONSTANTS e1, e2, a1, a2, w1, w2
=============================================================================
