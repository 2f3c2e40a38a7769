-------------------------------- MODULE Lease --------------------------------
(***************************************************************************)
(* What the three job tables have in common (platform/jobs/lease.py).      *)
(***************************************************************************)
EXTENDS Integers

CONSTANT MaxAttempts   \* MAX_ATTEMPTS

ASSUME AttemptsAllowed == MaxAttempts \in Nat \ {0}
=============================================================================
