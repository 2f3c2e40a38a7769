---------------------------- MODULE JobLifecycle ----------------------------
(***************************************************************************)
(* What a durable queue of this system promises about each job, whatever   *)
(* the number of workers: the job waits, an attempt takes it, and the      *)
(* attempt ends in a final outcome, in another wait, or in a requeue that  *)
(* gives the attempts back.  There are never more than MaxAttempts         *)
(* attempts between two requeues, a job that waits has an attempt left,    *)
(* and a final outcome is final.                                           *)
(*                                                                         *)
(* A transaction of the queue commits the transitions of several jobs at   *)
(* once (every lease it reclaims and the job it claims), so a step of this *)
(* specification lets every job take one transition of its own.            *)
(***************************************************************************)
EXTENDS Naturals

CONSTANTS Jobs,         \* the rows of one job table
          MaxAttempts   \* MAX_ATTEMPTS of lease.py

VARIABLES status,       \* the committed status of every row
          attempts      \* its committed attempt counter

jobVars == <<status, attempts>>

Terminal == {"completed", "failed"}

Init ==
  /\ status = [j \in Jobs |-> "absent"]
  /\ attempts = [j \in Jobs |-> 0]

Keep(j) == status'[j] = status[j] /\ attempts'[j] = attempts[j]

Enqueued(j) ==
  /\ status[j] = "absent" /\ status'[j] = "pending"
  /\ attempts'[j] = attempts[j]

Attempted(j) ==
  /\ status[j] = "pending" /\ attempts[j] < MaxAttempts
  /\ status'[j] = "processing" /\ attempts'[j] = attempts[j] + 1

(* The attempt is lost or has failed: the job waits again exactly when it  *)
(* has an attempt left.                                                    *)
Lapsed(j) ==
  /\ status[j] = "processing"
  /\ status'[j] = IF attempts[j] < MaxAttempts THEN "pending" ELSE "failed"
  /\ attempts'[j] = attempts[j]

Settled(j) ==
  /\ status[j] = "processing" /\ status'[j] \in Terminal
  /\ attempts'[j] = attempts[j]

Requeued(j) ==
  /\ status[j] = "processing" /\ status'[j] = "pending"
  /\ attempts'[j] = 0

Transition(j) ==
  Keep(j) \/ Enqueued(j) \/ Attempted(j) \/ Lapsed(j) \/ Settled(j) \/ Requeued(j)

Next ==
  /\ DOMAIN status' = Jobs
  /\ DOMAIN attempts' = Jobs
  /\ \A j \in Jobs : Transition(j)

Spec == Init /\ [][Next]_jobVars
=============================================================================
