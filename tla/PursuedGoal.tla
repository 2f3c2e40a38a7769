----------------------------- MODULE PursuedGoal -----------------------------
(***************************************************************************)
(* Which goal a student pursues: the lifecycle of the goal rows, and the   *)
(* pointer of the chat thread (conversations.active_goal_id).              *)
(***************************************************************************)
EXTENDS Integers, FiniteSets

CONSTANTS Goals, NoGoal

VARIABLES
  lifecycle,   \* goals.lifecycle_status
  pointer,     \* conversations.active_goal_id, if the student has a thread
  opened       \* the student has a chat thread

Lifecycles == {"absent", "draft", "active", "paused"}

Active == {g \in Goals : lifecycle[g] = "active"}

-----------------------------------------------------------------------------
(* Properties.                                                             *)

\* The goal the chat thread points at is the goal that is active, and no other
\* goal is: what the counselor is told and what the profile shows agree.  Only a
\* goal that was made active before there was a thread has no pointer.
PursuitAgrees ==
  IF pointer = NoGoal THEN \A g, h \in Active : g = h ELSE Active = {pointer}

\* activate_goal's claim: a student with a thread and an active goal has a
\* pointer.  It fails: nothing sets the pointer of a thread that is created
\* after the goal was made active.
PointerNotNull == opened /\ Active # {} => pointer # NoGoal

\* activate_goal's claim: it pauses the siblings, so that at most one goal of a
\* student is active.  It fails if two activations of the endpoint overlap.
SingleActive == \A g, h \in Active : g = h
=============================================================================
