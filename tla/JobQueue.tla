------------------------------ MODULE JobQueue ------------------------------
(***************************************************************************)
(* The durable job queues of the backend.  person_jobs, goal_jobs and      *)
(* document_jobs are three Postgres tables polled by the same protocol: a  *)
(* claim transaction (platform/jobs/lease.py, the _CLAIM_SQL statements),  *)
(* a pinned attempt and an outcome (interfaces/workers/intelligence.py,    *)
(* intelligences/goals/worker.py, documents/workers/analysis_worker.py).   *)
(* This module is that protocol for one table; what an attempt computes is *)
(* in other modules.                                                       *)
(*                                                                         *)
(* The database runs at READ COMMITTED.  status, attempts, ready and       *)
(* expired are committed state; the pending writes of an open transaction  *)
(* are in its worker's variables until the commit.  A statement that reads *)
(* more than one row reads them in a snapshot taken when it starts.        *)
(***************************************************************************)
EXTENDS Integers, FiniteSets, Lease

CONSTANTS Jobs,          \* job rows; their order is created_at
          Workers,       \* poll loops, one per server process
          Keys,          \* the person, goal or document a job belongs to
          KeyOf,         \* KeyOf[j]: the key of row j
          CrashBound,    \* how many crashes a behaviour has at most
          RequeueBound,  \* how many attempts end in a requeue at most
          NoWorker, NoJob

ASSUME JobsAreNumbers == Jobs \subseteq Nat
ASSUME KeysOfJobs == KeyOf \in [Jobs -> Keys]
ASSUME Bounds == CrashBound \in Nat /\ RequeueBound \in Nat
ASSUME NoneOfThem == NoWorker \notin Workers /\ NoJob \notin Jobs

VARIABLES
  status,     \* status[j]; "absent" before the row is inserted
  attempts,   \* attempts[j]
  ready,      \* the rows whose available_at has passed
  expired,    \* the rows whose locked_at is older than the lease
  rowLock,    \* who holds the FOR UPDATE lock of row j
  advLock,    \* who holds pg_try_advisory_xact_lock of key k
  pc,         \* where worker w is in its iteration
  scan,       \* scan[w]: rows that pass the scalar filters of the claim
  cand,       \* cand[w]: those of them whose key has nothing processing
  reclaimed,  \* reclaimed[w]: expired leases this transaction took back
  mine,       \* mine[w]: the job of this iteration
  att,        \* att[w]: the attempt number the worker believes it runs
  crashes, requeues

rows   == <<status, attempts, ready, expired>>
locks  == <<rowLock, advLock>>
local  == <<pc, scan, cand, reclaimed, mine, att>>
bounds == <<crashes, requeues>>
vars   == <<rows, locks, local, bounds>>

Statuses == {"absent", "pending", "processing", "completed", "failed"}
Terminal == {"completed", "failed"}

\* Inside the claim transaction, from its first statement to its commit.
Claiming == {"reclaimed", "scanned", "selected", "nothing"}
Points   == {"idle", "claimed", "loaded", "running", "rolledback"} \cup Claiming

TypeOK ==
  /\ status \in [Jobs -> Statuses]
  /\ attempts \in [Jobs -> 0..MaxAttempts]
  /\ ready \in SUBSET Jobs
  /\ expired \in SUBSET Jobs
  /\ rowLock \in [Jobs -> Workers \cup {NoWorker}]
  /\ advLock \in [Keys -> Workers \cup {NoWorker}]
  /\ pc \in [Workers -> Points]
  /\ scan \in [Workers -> SUBSET Jobs]
  /\ cand \in [Workers -> SUBSET Jobs]
  /\ reclaimed \in [Workers -> SUBSET Jobs]
  /\ mine \in [Workers -> Jobs \cup {NoJob}]
  /\ att \in [Workers -> 0..MaxAttempts]
  /\ crashes \in 0..CrashBound
  /\ requeues \in 0..RequeueBound

Init ==
  /\ status = [j \in Jobs |-> "absent"]
  /\ attempts = [j \in Jobs |-> 0]
  /\ ready = {} /\ expired = {}
  /\ rowLock = [j \in Jobs |-> NoWorker]
  /\ advLock = [k \in Keys |-> NoWorker]
  /\ pc = [w \in Workers |-> "idle"]
  /\ scan = [w \in Workers |-> {}]
  /\ cand = [w \in Workers |-> {}]
  /\ reclaimed = [w \in Workers |-> {}]
  /\ mine = [w \in Workers |-> NoJob]
  /\ att = [w \in Workers |-> 0]
  /\ crashes = 0 /\ requeues = 0

-----------------------------------------------------------------------------
(* Helpers.                                                                *)

Free(j) == rowLock[j] = NoWorker

\* The scalar conditions of _CLAIM_SQL on a row, as committed now.
Claimable(j) ==
  status[j] = "pending" /\ attempts[j] < MaxAttempts /\ j \in ready

BusyKeys == {KeyOf[j] : j \in {i \in Jobs : status[i] = "processing"}}

\* Fault: the last attempt is counted as one more retry.
AfterLostAttemptLenient(j) == IF attempts[j] > MaxAttempts THEN "failed" ELSE "pending"

\* Retry while an attempt is left, else give up: both reclaim_expired_leases
\* and apply_failure decide this way.
AfterLostAttempt(j) == IF attempts[j] >= MaxAttempts THEN "failed" ELSE "pending"

\* Fault: the row is looked up by id alone, or by id and attempt.
CurrentAttemptAnyNumber(w) == status[mine[w]] = "processing"
CurrentAttemptAnyStatus(w) == attempts[mine[w]] = att[w]

\* The worker's attempt is the one the row is in: the test of pin_lease and
\* of load_attempt_for_failure.
CurrentAttempt(w) == status[mine[w]] = "processing" /\ attempts[mine[w]] = att[w]

\* Fault: a session-level advisory lock, which a commit does not release.
AdvLocksKept(w) == advLock

\* The end of w's transaction releases its row locks and advisory locks.
RowLocksWithout(w) == [j \in Jobs |-> IF rowLock[j] = w THEN NoWorker ELSE rowLock[j]]
AdvLocksWithout(w) == [k \in Keys |-> IF advLock[k] = w THEN NoWorker ELSE advLock[k]]

ReleaseLocks(w) ==
  /\ rowLock' = RowLocksWithout(w)
  /\ advLock' = AdvLocksWithout(w)

Goto(w, point) == pc' = [pc EXCEPT ![w] = point]

\* The iteration is over: the worker's session is closed.
ForgetJob(w) ==
  /\ Goto(w, "idle")
  /\ scan' = [scan EXCEPT ![w] = {}]
  /\ cand' = [cand EXCEPT ![w] = {}]
  /\ reclaimed' = [reclaimed EXCEPT ![w] = {}]
  /\ mine' = [mine EXCEPT ![w] = NoJob]
  /\ att' = [att EXCEPT ![w] = 0]

-----------------------------------------------------------------------------
(* The producers.                                                          *)

\* A request inserts a pending row and commits.
Enqueue(j) ==
  /\ status[j] = "absent"
  /\ \A i \in Jobs : i < j => status[i] # "absent"
  /\ status' = [status EXCEPT ![j] = "pending"]
  /\ ready' = ready \cup {j}
  /\ UNCHANGED <<attempts, expired, locks, local, bounds>>

-----------------------------------------------------------------------------
(* The claim transaction of one worker.                                    *)

\* SELECT the expired leases FOR UPDATE SKIP LOCKED.  The new values stay in
\* the session until the commit.
Reclaim(w) ==
  /\ pc[w] = "idle"
  /\ LET lapsed == {j \in Jobs : status[j] = "processing" /\ j \in expired /\ Free(j)}
     IN /\ reclaimed' = [reclaimed EXCEPT ![w] = lapsed]
        /\ rowLock' = [j \in Jobs |-> IF j \in lapsed THEN w ELSE rowLock[j]]
  /\ Goto(w, "reclaimed")
  /\ UNCHANGED <<rows, advLock, scan, cand, mine, att, bounds>>

\* _CLAIM_SQL starts: its snapshot is taken before any lock is tried.
Scan(w) ==
  /\ pc[w] = "reclaimed"
  /\ LET visible == {j \in Jobs : Claimable(j)}
     IN /\ scan' = [scan EXCEPT ![w] = visible]
        /\ cand' = [cand EXCEPT ![w] = {j \in visible : KeyOf[j] \notin BusyKeys}]
  /\ Goto(w, "scanned")
  /\ UNCHANGED <<rows, locks, reclaimed, mine, att, bounds>>

\* The advisory locks the scan obtains: at least the free keys of the
\* candidates, and those of every scanned row when the planner evaluates the
\* function below the anti-join.
ObtainableKeys(w) ==
  LET freeOf(S) == {k \in {KeyOf[j] : j \in S} : advLock[k] = NoWorker}
  IN  {freeOf(cand[w]), freeOf(scan[w])}

\* FOR UPDATE SKIP LOCKED keeps a row that is free and whose latest version
\* still passes the scalar filters.
StillFit(j) == Free(j) /\ Claimable(j)

\* ORDER BY created_at FOR UPDATE SKIP LOCKED LIMIT 1: the oldest candidate
\* with its advisory lock whose row is free and, re-read, is still claimable.
\* The rows re-read and rejected before it stay locked to the end of the
\* transaction.
Select(w) ==
  /\ pc[w] = "scanned"
  /\ \E keys \in ObtainableKeys(w) :
       LET got == {j \in cand[w] : KeyOf[j] \in keys}
           fit == {j \in got : StillFit(j)}
           locked(last) == {j \in got : Free(j) /\ j <= last}
           take(S) == [j \in Jobs |-> IF j \in S THEN w ELSE rowLock[j]]
       IN /\ advLock' = [k \in Keys |-> IF k \in keys THEN w ELSE advLock[k]]
          /\ \/ \E j \in fit :
                  /\ \A i \in fit : j <= i
                  /\ mine' = [mine EXCEPT ![w] = j]
                  /\ rowLock' = take(locked(j))
                  /\ Goto(w, "selected")
             \/ /\ fit = {}
                /\ rowLock' = take({j \in got : Free(j)})
                /\ Goto(w, "nothing")
                /\ UNCHANGED mine
  /\ UNCHANGED <<rows, scan, cand, reclaimed, att, bounds>>

\* The commit publishes the reclaimed rows with the claimed one, if any.
CommitClaim(w) ==
  /\ pc[w] \in {"selected", "nothing"}
  /\ LET claimed == IF pc[w] = "selected" THEN {mine[w]} ELSE {}
     IN /\ status' = [j \in Jobs |->
                        IF j \in claimed THEN "processing"
                        ELSE IF j \in reclaimed[w] THEN AfterLostAttempt(j)
                        ELSE status[j]]
        /\ attempts' = [j \in Jobs |->
                          IF j \in claimed THEN attempts[j] + 1 ELSE attempts[j]]
        /\ expired' = expired \ (claimed \cup reclaimed[w])
  /\ ReleaseLocks(w)
  /\ IF pc[w] = "selected"
     THEN /\ Goto(w, "claimed")
          /\ scan' = [scan EXCEPT ![w] = {}]
          /\ cand' = [cand EXCEPT ![w] = {}]
          /\ reclaimed' = [reclaimed EXCEPT ![w] = {}]
          /\ UNCHANGED <<mine, att>>
     ELSE ForgetJob(w)
  /\ UNCHANGED <<ready, bounds>>

-----------------------------------------------------------------------------
(* The attempt.                                                            *)

\* session.refresh(job) after the commit: the worker's attempt number is the
\* one the row has now, which need not be the one it committed.
Refresh(w) ==
  /\ pc[w] = "claimed"
  /\ att' = [att EXCEPT ![w] = attempts[mine[w]]]
  /\ Goto(w, "loaded")
  /\ UNCHANGED <<rows, locks, scan, cand, reclaimed, mine, bounds>>

\* pin_lease: SELECT ... FOR UPDATE waits for the row, then the attempt goes on
\* only if it is still the current one.
Pin(w) ==
  /\ pc[w] = "loaded"
  /\ Free(mine[w])
  /\ IF CurrentAttempt(w)
     THEN /\ rowLock' = [rowLock EXCEPT ![mine[w]] = w]
          /\ Goto(w, "running")
          /\ UNCHANGED <<scan, cand, reclaimed, mine, att>>
     ELSE ForgetJob(w) /\ UNCHANGED rowLock
  /\ UNCHANGED <<rows, advLock, bounds>>

\* The attempt's transaction commits its outcome, under the pin.
Publish(w, outcome) ==
  /\ status' = [status EXCEPT ![mine[w]] = outcome]
  /\ expired' = expired \ {mine[w]}
  /\ ReleaseLocks(w)
  /\ ForgetJob(w)

Complete(w) ==
  /\ pc[w] = "running"
  /\ Publish(w, "completed")
  /\ UNCHANGED <<attempts, ready, bounds>>

\* A goal or its person is gone: the goal job fails at once.
FailForGood(w) ==
  /\ pc[w] = "running"
  /\ Publish(w, "failed")
  /\ UNCHANGED <<attempts, ready, bounds>>

\* The profile moved while the attempt ran: back to pending, attempts reset.
Requeue(w) ==
  /\ pc[w] = "running"
  /\ requeues < RequeueBound
  /\ requeues' = requeues + 1
  /\ attempts' = [attempts EXCEPT ![mine[w]] = 0]
  /\ Publish(w, "pending")
  /\ UNCHANGED <<ready, crashes>>

\* An exception or the 540 s timeout: session.rollback() releases the row
\* before the failure is recorded.
RollBack(w) ==
  /\ pc[w] \in {"loaded", "running"}
  /\ ReleaseLocks(w)
  /\ Goto(w, "rolledback")
  /\ UNCHANGED <<rows, scan, cand, reclaimed, mine, att, bounds>>

\* load_attempt_for_failure and apply_failure, in one transaction.
RecordFailure(w) ==
  /\ pc[w] = "rolledback"
  /\ LET j == mine[w]
     IN \/ /\ CurrentAttempt(w) /\ Free(j)
           /\ status' = [status EXCEPT ![j] = AfterLostAttempt(j)]
           /\ ready' = IF attempts[j] < MaxAttempts THEN ready \ {j} ELSE ready
           /\ expired' = expired \ {j}
        \/ /\ ~CurrentAttempt(w)
           /\ UNCHANGED <<status, ready, expired>>
  /\ ForgetJob(w)
  /\ UNCHANGED <<attempts, locks, bounds>>

-----------------------------------------------------------------------------
(* The environment.                                                        *)

\* The process stops, or a statement outside the handler's try block raises:
\* the open transaction is rolled back and the iteration is over.
Crash(w) ==
  /\ pc[w] # "idle"
  /\ crashes < CrashBound
  /\ crashes' = crashes + 1
  /\ ReleaseLocks(w)
  /\ ForgetJob(w)
  /\ UNCHANGED <<rows, requeues>>

LeaseExpires(j) ==
  /\ status[j] = "processing" /\ j \notin expired
  /\ expired' = expired \cup {j}
  /\ UNCHANGED <<status, attempts, ready, locks, local, bounds>>

BackoffElapses(j) ==
  /\ status[j] # "absent" /\ j \notin ready
  /\ ready' = ready \cup {j}
  /\ UNCHANGED <<status, attempts, expired, locks, local, bounds>>

-----------------------------------------------------------------------------
Claim(w)   == Reclaim(w) \/ Scan(w) \/ Select(w) \/ CommitClaim(w)
Outcome(w) == Complete(w) \/ FailForGood(w) \/ Requeue(w) \/ RollBack(w)
Step(w)    == Claim(w) \/ Refresh(w) \/ Pin(w) \/ Outcome(w) \/ RecordFailure(w)
Clock(j)   == LeaseExpires(j) \/ BackoffElapses(j)

Next ==
  \/ \E j \in Jobs : Enqueue(j) \/ Clock(j)
  \/ \E w \in Workers : Step(w) \/ Crash(w)

Spec == Init /\ [][Next]_vars

\* Every poll loop keeps stepping (an attempt ends within its timeout) and
\* time passes.  Nothing is assumed of producers and crashes.
Fairness ==
  /\ \A w \in Workers : WF_vars(Step(w))
  /\ \A j \in Jobs : WF_vars(LeaseExpires(j)) /\ WF_vars(BackoffElapses(j))

FairSpec == Spec /\ Fairness

-----------------------------------------------------------------------------
(* Properties.                                                             *)

\* A worker that passed pin_lease stays the owner of the current attempt until
\* it commits or rolls back: nobody reclaims, fails or re-claims the job under
\* it, even when its lease has expired.
PinnedAttemptCurrent ==
  \A w \in Workers : pc[w] = "running" =>
    /\ mine[w] \in Jobs
    /\ rowLock[mine[w]] = w
    /\ status[mine[w]] = "processing"
    /\ attempts[mine[w]] = att[w]

\* A waiting job can still be claimed: no path leaves a pending row whose
\* attempts are used up, which the claim statement would skip for ever.
PendingClaimable ==
  \A j \in Jobs : status[j] = "pending" => attempts[j] < MaxAttempts

\* One student (or goal, or document) is processed by one attempt at a time.
SerializedPerKey ==
  \A i, j \in Jobs :
    status[i] = "processing" /\ status[j] = "processing" /\ KeyOf[i] = KeyOf[j] => i = j

\* Whatever leases, crashes and stalled workers do, each row goes through the
\* life the abstract queue promises.
Life == INSTANCE JobLifecycle
KeepsLifecycle == Life!Spec

\* Every job that was enqueued ends: a crashed attempt is reclaimed, a failed
\* one retried, and no two claim transactions block each other for ever.
EveryJobSettles ==
  \A j \in Jobs : status[j] = "pending" ~> status[j] \in Terminal
=============================================================================
