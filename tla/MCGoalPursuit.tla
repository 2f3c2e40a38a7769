--------------------------- MODULE MCGoalPursuit ----------------------------
(***************************************************************************)
(* Small instances of GoalPursuit.                                         *)
(***************************************************************************)
EXTENDS GoalPursuit, TLC

CONSTANTS g1, g2, g3, h1, h2, e1, e2
=============================================================================
