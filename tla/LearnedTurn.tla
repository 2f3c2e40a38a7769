----------------------------- MODULE LearnedTurn -----------------------------
(***************************************************************************)
(* What the turns of a chat have taught: the job of each turn, and how     *)
(* often its facts, goals, memories and tasks were committed.              *)
(***************************************************************************)
EXTENDS Integers, FiniteSets, Lease

CONSTANT Turns

VARIABLES
  job,         \* the status of the turn's row of person_jobs
  deliveries,  \* its attempts
  applied,     \* how often the effects of the turn were committed
  interrupted  \* the turns whose stream was cancelled or raised

-----------------------------------------------------------------------------
(* Properties.                                                             *)

\* What a turn taught is applied once, although its job is delivered again
\* after a crash, a lost lease or a failure that follows the commit.  It fails for
\* a turn whose stream was interrupted: see the README.
AppliedOnce == \A t \in Turns : applied[t] <= 1

\* It is applied once, for every turn whose stream ran to its end.
CompleteTurnAppliedOnce == \A t \in Turns \ interrupted : applied[t] <= 1

\* A job that is done was applied, also when the stream of its turn was
\* interrupted and recorded as cancelled or failed.
DoneIsApplied == \A t \in Turns : job[t] = "completed" => applied[t] > 0

Delivery == INSTANCE JobLifecycle WITH Jobs <- Turns, status <- job, attempts <- deliveries

\* The jobs of the turns go only where the queue lets them: no late outcome
\* overwrites that of a later attempt.
TurnsKeepLifecycle == Delivery!Spec

\* Everything a saved reply left to learn is learned, or its job says that it
\* failed.
LearnedOrFailed ==
  \A t \in Turns : job[t] = "pending" ~> applied[t] > 0 \/ job[t] = "failed"
=============================================================================
