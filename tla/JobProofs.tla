------------------------------ MODULE JobProofs ------------------------------
(***************************************************************************)
(* The queue (JobQueue), for any number of jobs, workers, keys, attempts,  *)
(* crashes and requeues: it keeps its types, a pinned attempt stays the    *)
(* current one, a waiting job is claimable, and the queue implements       *)
(* JobLifecycle.                                                           *)
(*                                                                         *)
(* The jobs of chat turns (ChatTurn, seen as C), for any number of turns,  *)
(* workers, attempts, crashes and interrupted streams: a turn whose stream *)
(* ran to its end is applied at most once, a job that is done was applied, *)
(* and the jobs of the turns implement JobLifecycle.                       *)
(***************************************************************************)
EXTENDS JobQueue, LearnedTurn, TLAPS

\* The turns, what became of their requests, and the workers that learn from them.
CONSTANTS InterruptBound, NoTurn
VARIABLES run, tpc, runLock, wpc, wturn, watt, turnCrashes

C == INSTANCE ChatTurn
       WITH crashes <- turnCrashes, Nobody <- NoWorker

-----------------------------------------------------------------------------
(* The inductive invariant.  A row changes only under its row lock, so it  *)
(* says what each worker knows of the rows it has locked.                  *)

HasJob == {"selected", "claimed", "loaded", "running", "rolledback"}

JobKnown == \A w \in Workers : pc[w] \in HasJob => mine[w] \in Jobs

\* The selected row is locked and was re-read after the lock.
SelectedLocked ==
  \A w \in Workers : pc[w] = "selected" =>
    /\ rowLock[mine[w]] = w
    /\ status[mine[w]] = "pending"
    /\ attempts[mine[w]] < MaxAttempts

ReclaimedLocked ==
  \A w \in Workers : \A j \in reclaimed[w] :
    /\ pc[w] \in Claiming
    /\ rowLock[j] = w
    /\ status[j] = "processing"

AbsentUntried == \A j \in Jobs : status[j] = "absent" => attempts[j] = 0

IInv ==
  /\ TypeOK
  /\ JobKnown
  /\ SelectedLocked
  /\ ReclaimedLocked
  /\ PinnedAttemptCurrent
  /\ PendingClaimable
  /\ AbsentUntried

-----------------------------------------------------------------------------
(* Type correctness.                                                       *)

LEMMA LockTypes ==
  ASSUME TypeOK, NEW w \in Workers
  PROVE  /\ RowLocksWithout(w) \in [Jobs -> Workers \cup {NoWorker}]
         /\ AdvLocksWithout(w) \in [Keys -> Workers \cup {NoWorker}]
  BY DEF TypeOK, RowLocksWithout, AdvLocksWithout

LEMMA ForgetTypes ==
  ASSUME TypeOK, NEW w \in Workers, ForgetJob(w)
  PROVE  /\ pc' \in [Workers -> Points]
         /\ scan' \in [Workers -> SUBSET Jobs]
         /\ cand' \in [Workers -> SUBSET Jobs]
         /\ reclaimed' \in [Workers -> SUBSET Jobs]
         /\ mine' \in [Workers -> Jobs \cup {NoJob}]
         /\ att' \in [Workers -> 0..MaxAttempts]
  BY AttemptsAllowed DEF TypeOK, ForgetJob, Goto, Points, Claiming

LEMMA InitIInv == Init => IInv
  BY AttemptsAllowed, Bounds
  DEF Init, IInv, TypeOK, JobKnown, SelectedLocked, ReclaimedLocked,
      PinnedAttemptCurrent, PendingClaimable, AbsentUntried, Statuses, Points, Claiming, HasJob

LEMMA ClaimType ==
  ASSUME IInv, NEW w \in Workers, Claim(w)
  PROVE  TypeOK'
<1>1. CASE Reclaim(w)
  BY <1>1 DEF IInv, TypeOK, Reclaim, Goto, Points, Claiming, rows, bounds
<1>2. CASE Scan(w)
  BY <1>2 DEF IInv, TypeOK, Scan, Goto, Points, Claiming, rows, locks, bounds
<1>3. CASE Select(w)
  BY <1>3 DEF IInv, TypeOK, Select, StillFit, Goto, Points, Claiming, rows, bounds
<1>4. CASE CommitClaim(w)
  <2>1. pc[w] = "selected" => mine[w] \in Jobs /\ attempts[mine[w]] < MaxAttempts
    BY <1>4 DEF IInv, JobKnown, SelectedLocked, HasJob
  <2>2. status' \in [Jobs -> Statuses] /\ attempts' \in [Jobs -> 0..MaxAttempts]
    BY <1>4, <2>1, AttemptsAllowed
    DEF IInv, TypeOK, CommitClaim, AfterLostAttempt, Statuses
  <2>3. expired' \in SUBSET Jobs /\ ready' \in SUBSET Jobs
    BY <1>4 DEF IInv, TypeOK, CommitClaim
  <2>4. /\ rowLock' \in [Jobs -> Workers \cup {NoWorker}]
        /\ advLock' \in [Keys -> Workers \cup {NoWorker}]
    BY <1>4, LockTypes DEF IInv, CommitClaim, ReleaseLocks
  <2>5. /\ pc' \in [Workers -> Points]
        /\ scan' \in [Workers -> SUBSET Jobs]
        /\ cand' \in [Workers -> SUBSET Jobs]
        /\ reclaimed' \in [Workers -> SUBSET Jobs]
        /\ mine' \in [Workers -> Jobs \cup {NoJob}]
        /\ att' \in [Workers -> 0..MaxAttempts]
    BY <1>4, ForgetTypes DEF IInv, TypeOK, CommitClaim, Goto, Points, Claiming
  <2>6. crashes' \in 0..CrashBound /\ requeues' \in 0..RequeueBound
    BY <1>4 DEF IInv, TypeOK, CommitClaim, bounds
  <2> QED
    BY <2>2, <2>3, <2>4, <2>5, <2>6 DEF TypeOK
<1> QED
  BY <1>1, <1>2, <1>3, <1>4 DEF Claim

LEMMA AttemptType ==
  ASSUME IInv, NEW w \in Workers,
         Refresh(w) \/ Pin(w) \/ Outcome(w) \/ RecordFailure(w) \/ Crash(w)
  PROVE  TypeOK'
<1> USE DEF IInv
<1>1. CASE Refresh(w)
  BY <1>1 DEF TypeOK, Refresh, Goto, Points, JobKnown, HasJob, rows, locks, bounds
<1>2. CASE Pin(w)
  BY <1>2, ForgetTypes DEF TypeOK, Pin, Goto, Points, rows, bounds
<1>3. CASE Complete(w)
  BY <1>3, ForgetTypes, LockTypes
  DEF TypeOK, Complete, Publish, ReleaseLocks, Statuses, bounds
<1>4. CASE FailForGood(w)
  BY <1>4, ForgetTypes, LockTypes
  DEF TypeOK, FailForGood, Publish, ReleaseLocks, Statuses, bounds
<1>5. CASE Requeue(w)
  <2>1. requeues' \in 0..RequeueBound /\ crashes' \in 0..CrashBound
    BY <1>5, Bounds DEF TypeOK, Requeue
  <2>2. attempts' \in [Jobs -> 0..MaxAttempts]
    <3>1. 0 \in 0..MaxAttempts
      BY AttemptsAllowed
    <3> QED
      BY <1>5, <3>1 DEF TypeOK, Requeue
  <2>3. Publish(w, "pending") /\ ready' = ready
    BY <1>5 DEF Requeue
  <2> QED
    BY <2>1, <2>2, <2>3, ForgetTypes, LockTypes
    DEF TypeOK, Publish, ReleaseLocks, Statuses
<1>6. CASE RollBack(w)
  BY <1>6, LockTypes DEF TypeOK, RollBack, ReleaseLocks, Goto, Points, rows, bounds
<1>7. CASE RecordFailure(w)
  BY <1>7, ForgetTypes
  DEF TypeOK, RecordFailure, AfterLostAttempt, Statuses, locks, bounds
<1>8. CASE Crash(w)
  BY <1>8, ForgetTypes, LockTypes, Bounds DEF TypeOK, Crash, ReleaseLocks, rows
<1> QED
  BY <1>1, <1>2, <1>3, <1>4, <1>5, <1>6, <1>7, <1>8 DEF Outcome

LEMMA NextType == IInv /\ [Next]_vars => TypeOK'
<1> SUFFICES ASSUME IInv, [Next]_vars PROVE TypeOK'
  OBVIOUS
<1>1. CASE \E j \in Jobs : Enqueue(j) \/ Clock(j)
  BY <1>1 DEF IInv, TypeOK, Enqueue, Clock, LeaseExpires, BackoffElapses,
              Statuses, locks, local, bounds
<1>2. CASE \E w \in Workers : Step(w) \/ Crash(w)
  BY <1>2, ClaimType, AttemptType DEF Step
<1>3. CASE UNCHANGED vars
  BY <1>3 DEF IInv, TypeOK, vars, rows, locks, local, bounds
<1> QED
  BY <1>1, <1>2, <1>3 DEF Next

-----------------------------------------------------------------------------
(* A step of one worker leaves the others what they hold.                  *)

LockedRowsKept(v) ==
  \A j \in Jobs : rowLock[j] = v =>
    rowLock'[j] = v /\ status'[j] = status[j] /\ attempts'[j] = attempts[j]

Untouched(v) ==
  /\ pc'[v] = pc[v] /\ mine'[v] = mine[v] /\ att'[v] = att[v]
  /\ reclaimed'[v] = reclaimed[v]

LEMMA ForgetOther ==
  ASSUME TypeOK, NEW w \in Workers, NEW v \in Workers, v # w, ForgetJob(w)
  PROVE  Untouched(v)
  BY DEF TypeOK, ForgetJob, Goto, Untouched

LEMMA ReleaseOther ==
  ASSUME NEW w \in Workers, NEW v \in Workers, v # w, ReleaseLocks(w)
  PROVE  \A j \in Jobs : rowLock[j] = v => rowLock'[j] = v
  BY DEF ReleaseLocks, RowLocksWithout

LEMMA OthersUntouched ==
  ASSUME IInv, NEW w \in Workers, Step(w) \/ Crash(w),
         NEW v \in Workers, v # w
  PROVE  Untouched(v)
<1> USE DEF IInv
<1>1. CASE Reclaim(w)
  BY <1>1 DEF TypeOK, Reclaim, Goto, Untouched
<1>2. CASE Scan(w)
  BY <1>2 DEF TypeOK, Scan, Goto, Untouched
<1>3. CASE Select(w)
  BY <1>3 DEF TypeOK, Select, Goto, Untouched
<1>4. CASE CommitClaim(w)
  BY <1>4, ForgetOther DEF TypeOK, CommitClaim, Goto, Untouched
<1>5. CASE Refresh(w)
  BY <1>5 DEF TypeOK, Refresh, Goto, Untouched
<1>6. CASE Pin(w)
  BY <1>6, ForgetOther DEF TypeOK, Pin, Goto, Untouched
<1>7. CASE RollBack(w)
  BY <1>7 DEF TypeOK, RollBack, Goto, Untouched
<1>8. CASE Complete(w) \/ FailForGood(w) \/ Requeue(w)
  BY <1>8, ForgetOther DEF Complete, FailForGood, Requeue, Publish
<1>9. CASE RecordFailure(w) \/ Crash(w)
  BY <1>9, ForgetOther DEF RecordFailure, Crash
<1> QED
  BY <1>1, <1>2, <1>3, <1>4, <1>5, <1>6, <1>7, <1>8, <1>9
  DEF Step, Claim, Outcome

LEMMA OthersLockedRows ==
  ASSUME IInv, NEW w \in Workers, Step(w) \/ Crash(w),
         NEW v \in Workers, v # w
  PROVE  LockedRowsKept(v)
<1> USE NoneOfThem DEF IInv, LockedRowsKept
<1>1. CASE Reclaim(w)
  BY <1>1 DEF TypeOK, Reclaim, Free, rows
<1>2. CASE Scan(w) \/ Refresh(w)
  BY <1>2 DEF Scan, Refresh, rows, locks
<1>3. CASE Select(w)
  BY <1>3 DEF TypeOK, Select, StillFit, Free, rows
<1>4. CASE CommitClaim(w)
  BY <1>4, ReleaseOther
  DEF TypeOK, CommitClaim, JobKnown, SelectedLocked, ReclaimedLocked, HasJob
<1>5. CASE Pin(w)
  BY <1>5 DEF TypeOK, Pin, JobKnown, HasJob, Free, rows
<1>6. CASE RollBack(w) \/ Crash(w)
  BY <1>6, ReleaseOther DEF RollBack, Crash, rows
<1>7. CASE Complete(w) \/ FailForGood(w) \/ Requeue(w)
  <2>1. rowLock[mine[w]] = w /\ mine[w] \in Jobs
    BY <1>7 DEF PinnedAttemptCurrent, Complete, FailForGood, Requeue
  <2>2. \A j \in Jobs : j # mine[w] => status'[j] = status[j] /\ attempts'[j] = attempts[j]
    BY <1>7 DEF TypeOK, Complete, FailForGood, Requeue, Publish
  <2>3. ReleaseLocks(w)
    BY <1>7 DEF Complete, FailForGood, Requeue, Publish
  <2> QED
    BY <2>1, <2>2, <2>3, ReleaseOther
<1>8. CASE RecordFailure(w)
  BY <1>8 DEF TypeOK, RecordFailure, Free, locks
<1> QED
  BY <1>1, <1>2, <1>3, <1>4, <1>5, <1>6, <1>7, <1>8 DEF Step, Claim, Outcome

-----------------------------------------------------------------------------
(* The clauses of the invariant, worker by worker.                         *)

WorkerInv(v) ==
  /\ pc[v] \in HasJob => mine[v] \in Jobs
  /\ pc[v] = "selected" =>
       /\ rowLock[mine[v]] = v
       /\ status[mine[v]] = "pending"
       /\ attempts[mine[v]] < MaxAttempts
  /\ \A j \in reclaimed[v] :
       pc[v] \in Claiming /\ rowLock[j] = v /\ status[j] = "processing"
  /\ pc[v] = "running" =>
       /\ mine[v] \in Jobs
       /\ rowLock[mine[v]] = v
       /\ status[mine[v]] = "processing"
       /\ attempts[mine[v]] = att[v]

LEMMA InvByWorker ==
  IInv <=> TypeOK /\ PendingClaimable /\ AbsentUntried /\ \A v \in Workers : WorkerInv(v)
  BY DEF IInv, WorkerInv, JobKnown, SelectedLocked, ReclaimedLocked,
         PinnedAttemptCurrent

LEMMA OtherWorkers ==
  ASSUME IInv, NEW w \in Workers, Step(w) \/ Crash(w),
         NEW v \in Workers, v # w
  PROVE  WorkerInv(v)'
<1>1. Untouched(v) /\ LockedRowsKept(v)
  BY OthersUntouched, OthersLockedRows
<1>2. WorkerInv(v) /\ reclaimed[v] \in SUBSET Jobs
  BY InvByWorker DEF IInv, TypeOK
<1> QED
  BY <1>1, <1>2 DEF WorkerInv, Untouched, LockedRowsKept, HasJob

LEMMA OwnWorker ==
  ASSUME IInv, NEW w \in Workers, Step(w) \/ Crash(w)
  PROVE  WorkerInv(w)'
<1>0. WorkerInv(w) /\ TypeOK
  BY InvByWorker
<1> USE <1>0
<1>1. CASE Reclaim(w)
  BY <1>1 DEF TypeOK, WorkerInv, Reclaim, Goto, HasJob, Claiming, Free, rows
<1>2. CASE Scan(w)
  BY <1>2 DEF TypeOK, WorkerInv, Scan, Goto, HasJob, Claiming, rows, locks
<1>3. CASE Select(w)
  BY <1>3 DEF TypeOK, WorkerInv, Select, StillFit, Claimable, Free, Goto,
              HasJob, Claiming, rows
<1>4. CASE CommitClaim(w)
  BY <1>4 DEF TypeOK, WorkerInv, CommitClaim, ForgetJob, Goto, HasJob
<1>5. CASE Refresh(w)
  BY <1>5 DEF TypeOK, WorkerInv, Refresh, Goto, HasJob, Claiming, rows, locks
<1>6. CASE Pin(w)
  BY <1>6 DEF TypeOK, WorkerInv, Pin, CurrentAttempt, ForgetJob, Goto, HasJob,
              Claiming, rows
<1>7. CASE RollBack(w)
  BY <1>7 DEF TypeOK, WorkerInv, RollBack, Goto, HasJob, Claiming
<1>8. ASSUME ForgetJob(w) PROVE WorkerInv(w)'
  BY <1>8 DEF TypeOK, WorkerInv, ForgetJob, Goto, HasJob
<1> QED
  BY <1>1, <1>2, <1>3, <1>4, <1>5, <1>6, <1>7, <1>8
  DEF Step, Claim, Outcome, Complete, FailForGood, Requeue, Publish,
      RecordFailure, Crash

-----------------------------------------------------------------------------
(* What a step does to a row, in the terms of the abstract queue.          *)

LEMMA WorkerTransitions ==
  ASSUME IInv, NEW w \in Workers, Step(w) \/ Crash(w), NEW j \in Jobs
  PROVE  Life!Transition(j)
<1> USE DEF IInv, Life!Transition
<1>1. CASE Reclaim(w) \/ Scan(w) \/ Select(w) \/ Refresh(w) \/ Pin(w)
           \/ RollBack(w) \/ Crash(w)
  BY <1>1 DEF Reclaim, Scan, Select, Refresh, Pin, RollBack, Crash, rows, Life!Keep
<1>2. CASE CommitClaim(w)
  <2>1. CASE pc[w] = "selected" /\ j = mine[w]
    BY <1>2, <2>1 DEF TypeOK, CommitClaim, SelectedLocked, Life!Attempted
  <2>2. CASE j \in reclaimed[w] /\ ~(pc[w] = "selected" /\ j = mine[w])
    BY <1>2, <2>2, AttemptsAllowed
    DEF TypeOK, CommitClaim, ReclaimedLocked, AfterLostAttempt, Life!Lapsed
  <2>3. CASE j \notin reclaimed[w] /\ ~(pc[w] = "selected" /\ j = mine[w])
    BY <1>2, <2>3 DEF TypeOK, CommitClaim, Life!Keep
  <2> QED
    BY <2>1, <2>2, <2>3
<1>3. CASE Complete(w) \/ FailForGood(w)
  BY <1>3 DEF TypeOK, Complete, FailForGood, Publish, PinnedAttemptCurrent,
              Life!Keep, Life!Settled, Life!Terminal
<1>4. CASE Requeue(w)
  BY <1>4 DEF TypeOK, Requeue, Publish, PinnedAttemptCurrent,
              Life!Keep, Life!Requeued
<1>5. CASE RecordFailure(w)
  BY <1>5, AttemptsAllowed
  DEF TypeOK, RecordFailure, CurrentAttempt, JobKnown, HasJob, AfterLostAttempt,
      Life!Keep, Life!Lapsed
<1> QED
  BY <1>1, <1>2, <1>3, <1>4, <1>5 DEF Step, Claim, Outcome

LEMMA Transitions ==
  ASSUME IInv, [Next]_vars, NEW j \in Jobs
  PROVE  Life!Transition(j)
<1>1. CASE \E i \in Jobs : Enqueue(i) \/ Clock(i)
  BY <1>1 DEF IInv, TypeOK, Enqueue, Clock, LeaseExpires, BackoffElapses,
              Life!Transition, Life!Keep, Life!Enqueued
<1>2. CASE \E w \in Workers : Step(w) \/ Crash(w)
  BY <1>2, WorkerTransitions
<1>3. CASE UNCHANGED vars
  BY <1>3 DEF vars, rows, Life!Transition, Life!Keep
<1> QED
  BY <1>1, <1>2, <1>3 DEF Next

LEMMA RowsKept ==
  ASSUME IInv, [Next]_vars
  PROVE  PendingClaimable' /\ AbsentUntried'
<1> SUFFICES ASSUME NEW j \in Jobs
             PROVE  /\ status'[j] = "pending" => attempts'[j] < MaxAttempts
                    /\ status'[j] = "absent" => attempts'[j] = 0
  BY DEF PendingClaimable, AbsentUntried
<1>1. Life!Transition(j)
  BY Transitions
<1> QED
  BY <1>1, AttemptsAllowed
  DEF IInv, TypeOK, PendingClaimable, AbsentUntried, Life!Transition, Life!Keep,
      Life!Enqueued, Life!Attempted, Life!Lapsed, Life!Settled, Life!Requeued,
      Life!Terminal

LEMMA EnvironmentKept ==
  ASSUME IInv, NEW j \in Jobs, Enqueue(j) \/ Clock(j), NEW v \in Workers
  PROVE  WorkerInv(v)'
<1>1. WorkerInv(v) /\ TypeOK
  BY InvByWorker
<1> QED
  BY <1>1 DEF TypeOK, WorkerInv, HasJob, Enqueue, Clock, LeaseExpires, BackoffElapses,
              locks, local

LEMMA NextIInv == IInv /\ [Next]_vars => IInv'
<1> SUFFICES ASSUME IInv, [Next]_vars PROVE IInv'
  OBVIOUS
<1>1. TypeOK' /\ PendingClaimable' /\ AbsentUntried'
  BY NextType, RowsKept
<1>2. ASSUME NEW v \in Workers PROVE WorkerInv(v)'
  <2>1. CASE \E j \in Jobs : Enqueue(j) \/ Clock(j)
    BY <2>1, EnvironmentKept
  <2>2. CASE \E w \in Workers : Step(w) \/ Crash(w)
    BY <2>2, OwnWorker, OtherWorkers
  <2>3. CASE UNCHANGED vars
    BY <2>3, InvByWorker DEF WorkerInv, vars, rows, locks, local
  <2> QED
    BY <2>1, <2>2, <2>3 DEF Next
<1> QED
  BY <1>1, <1>2
  DEF IInv, WorkerInv, JobKnown, SelectedLocked, ReclaimedLocked, PinnedAttemptCurrent

-----------------------------------------------------------------------------
(* The theorems.                                                           *)

LEMMA Invariance == Spec => []IInv
<1>1. Init => IInv
  BY InitIInv
<1>2. IInv /\ [Next]_vars => IInv'
  BY NextIInv
<1> QED
  BY <1>1, <1>2, PTL DEF Spec

\* Every reachable state has its types: in particular no row counts more than
\* MAX_ATTEMPTS attempts.
THEOREM TypeCorrect == Spec => []TypeOK
  BY Invariance, PTL DEF IInv

\* pin_lease protects an attempt for as long as it runs, for any number of
\* reclaiming, claiming and failing workers.
THEOREM PinnedStaysCurrent == Spec => []PinnedAttemptCurrent
  BY Invariance, PTL DEF IInv

\* apply_failure and reclaim_expired_leases never leave a pending row that the
\* claim statement's attempts < 3 would skip.
THEOREM WaitingIsClaimable == Spec => []PendingClaimable
  BY Invariance, PTL DEF IInv

\* The queue implements JobLifecycle.
THEOREM QueueKeepsLifecycle == Spec => KeepsLifecycle
<1>1. Init => Life!Init
  BY DEF Init, Life!Init
<1>2. IInv /\ IInv' /\ [Next]_vars => [Life!Next]_(Life!jobVars)
  <2> SUFFICES ASSUME IInv, IInv', [Next]_vars PROVE Life!Next
    OBVIOUS
  <2>1. DOMAIN status' = Jobs /\ DOMAIN attempts' = Jobs
    BY DEF IInv, TypeOK
  <2> QED
    BY <2>1, Transitions DEF Life!Next
<1> QED
  BY <1>1, <1>2, Invariance, PTL DEF Spec, KeepsLifecycle, Life!Spec

-----------------------------------------------------------------------------
(* What is learned from a chat turn (ChatTurn).                            *)
(* The inductive invariant.                                                *)

\* What the point a request has reached says of its run and of its job.
RequestState ==
  \A t \in Turns :
    /\ tpc[t] = "new" => run[t] = "none"
    /\ tpc[t] = "open" => run[t] = "running"
    /\ tpc[t] \in {"new", "open", "closing"} => job[t] = "absent"
    /\ tpc[t] \in {"failing", "overwriting"} => t \in interrupted

Pinning == {"claimed", "working", "committed"}

\* The attempts that hold a pin are the current ones of different jobs.
PinsApart ==
  \A w \in Workers : wpc[w] \in Pinning =>
    /\ wturn[w] \in Turns
    /\ job[wturn[w]] = "processing"
    /\ \A v \in Workers : wpc[v] \in Pinning /\ wturn[v] = wturn[w] => v = w

\* A follow-up that works holds its run, which nobody has completed.
FollowupOwnsRun ==
  \A w \in Workers : wpc[w] = "working" =>
    runLock[wturn[w]] = w /\ run[wturn[w]] # "completed"

\* An attempt that goes on to mark its job done has learned, or found it done.
CommittedIsApplied ==
  \A w \in Workers : wpc[w] = "committed" => applied[wturn[w]] > 0

\* The run remembers what was applied, unless an interruption overwrote it.
RunRemembers ==
  \A t \in Turns :
    /\ applied[t] > 0 => job[t] # "absent"
    /\ applied[t] > 0 /\ t \notin interrupted => run[t] = "completed"
    /\ run[t] = "completed" /\ job[t] # "absent" => applied[t] > 0

TurnInv ==
  /\ C!TypeOK
  /\ RequestState
  /\ PinsApart
  /\ FollowupOwnsRun
  /\ CommittedIsApplied
  /\ RunRemembers
  /\ CompleteTurnAppliedOnce
  /\ DoneIsApplied

-----------------------------------------------------------------------------
(* Type correctness.                                                       *)

LEMMA InitType == C!Init => C!TypeOK
  BY AttemptsAllowed, Bounds DEF C!Init, C!TypeOK, C!RunStatuses, C!JobStatuses, C!TurnPoints, C!WorkPoints

LEMMA RequestType ==
  ASSUME C!TypeOK, NEW t \in Turns, C!Request(t)
  PROVE  C!TypeOK'
<1>1. run' \in [Turns -> C!RunStatuses]
  BY DEF C!TypeOK, C!Request, C!Begin, C!SaveReply, C!CloseRun, C!Finish, C!FailRequest, C!Interrupt,
         C!ReadFailedRun, C!OverwriteRun, C!CrashRequest, C!RunBecomes, C!RunStatuses
<1>2. job' \in [Turns -> C!JobStatuses] /\ deliveries' \in [Turns -> 0..MaxAttempts]
  BY DEF C!TypeOK, C!Request, C!Begin, C!SaveReply, C!CloseRun, C!Finish, C!FailRequest, C!Interrupt,
         C!ReadFailedRun, C!OverwriteRun, C!CrashRequest, C!queue, C!JobStatuses
<1>3. tpc' \in [Turns -> C!TurnPoints]
  BY DEF C!TypeOK, C!Request, C!Begin, C!SaveReply, C!CloseRun, C!Finish, C!FailRequest, C!Interrupt,
         C!ReadFailedRun, C!OverwriteRun, C!CrashRequest, C!TurnGoes, C!TurnPoints
<1>4. turnCrashes' \in 0..CrashBound /\ interrupted' \in SUBSET Turns
  BY AttemptsAllowed, Bounds
  DEF C!TypeOK, C!Request, C!Begin, C!SaveReply, C!CloseRun, C!Finish, C!FailRequest, C!Interrupt,
      C!ReadFailedRun, C!OverwriteRun, C!CrashRequest, C!bounds
<1>5. UNCHANGED <<applied, runLock, C!worker>>
  BY DEF C!Request, C!Begin, C!SaveReply, C!CloseRun, C!Finish, C!FailRequest, C!Interrupt,
         C!ReadFailedRun, C!OverwriteRun, C!CrashRequest
<1> QED
  BY <1>1, <1>2, <1>3, <1>4, <1>5 DEF C!TypeOK, C!worker

LEMMA IdleType ==
  ASSUME C!TypeOK, NEW w \in Workers, C!WorkerIdle(w)
  PROVE  /\ wpc' \in [Workers -> C!WorkPoints]
         /\ wturn' \in [Workers -> Turns \cup {NoTurn}]
         /\ watt' \in [Workers -> 0..MaxAttempts]
  BY AttemptsAllowed, Bounds DEF C!TypeOK, C!WorkerIdle, C!WorkPoints

LEMMA LostType ==
  ASSUME NEW t
  PROVE  C!AfterLostAttempt(t) \in C!JobStatuses
  BY DEF C!AfterLostAttempt, C!JobStatuses

LEMMA WorkerType ==
  ASSUME C!TypeOK, NEW w \in Workers, C!Claim(w) \/ C!Attempt(w) \/ C!CrashWorker(w)
  PROVE  C!TypeOK'
<1>1. CASE C!Claim(w)
  BY <1>1, AttemptsAllowed, Bounds
  DEF C!Claim, C!Claimable, C!TypeOK, C!WorkerGoes, C!WorkPoints, C!JobStatuses, C!bounds
<1>2. CASE C!OpenFollowup(w)
  BY <1>2 DEF C!OpenFollowup, C!TypeOK, C!WorkerGoes, C!WorkPoints, C!queue, C!bounds
<1>3. CASE C!Learn(w)
  <2>1. applied' \in [Turns -> Nat]
    <3>1. applied' = [t \in Turns |-> IF t = wturn[w] THEN applied[t] + 1 ELSE applied[t]]
      BY <1>3 DEF C!Learn, C!TypeOK
    <3>2. \A t \in Turns : applied[t] \in Nat
      BY DEF C!TypeOK
    <3> QED
      BY <3>1, <3>2
  <2>2. run' \in [Turns -> C!RunStatuses] /\ wpc' \in [Workers -> C!WorkPoints]
    BY <1>3 DEF C!Learn, C!TypeOK, C!RunBecomes, C!RunStatuses, C!WorkerGoes, C!WorkPoints
  <2>3. runLock' \in [Turns -> Workers \cup {NoWorker}]
    BY <1>3 DEF C!Learn, C!TypeOK, C!Unlocked
  <2> QED
    BY <1>3, <2>1, <2>2, <2>3 DEF C!Learn, C!TypeOK, C!queue, C!bounds
<1>4. CASE C!MarkDone(w)
  <2>1. job' \in [Turns -> C!JobStatuses]
    BY <1>4 DEF C!MarkDone, C!TypeOK, C!JobStatuses
  <2> QED
    BY <1>4, <2>1, IdleType DEF C!MarkDone, C!TypeOK, C!bounds
<1>5. CASE C!RollBack(w)
  <2>1. wpc' \in [Workers -> C!WorkPoints] /\ runLock' \in [Turns -> Workers \cup {NoWorker}]
    BY <1>5 DEF C!RollBack, C!TypeOK, C!WorkerGoes, C!WorkPoints, C!Unlocked
  <2> QED
    BY <1>5, <2>1 DEF C!RollBack, C!TypeOK, C!queue, C!bounds
<1>6. CASE C!RecordFailure(w)
  <2>1. job' \in [Turns -> C!JobStatuses]
    BY <1>6, LostType DEF C!RecordFailure, C!TypeOK
  <2> QED
    BY <1>6, <2>1, IdleType DEF C!RecordFailure, C!TypeOK, C!bounds
<1>7. CASE C!CrashWorker(w)
  <2>1. turnCrashes' \in 0..CrashBound /\ runLock' \in [Turns -> Workers \cup {NoWorker}]
    BY <1>7, AttemptsAllowed, Bounds DEF C!CrashWorker, C!TypeOK, C!Unlocked
  <2> QED
    BY <1>7, <2>1, IdleType DEF C!CrashWorker, C!TypeOK, C!queue
<1> QED
  BY <1>1, <1>2, <1>3, <1>4, <1>5, <1>6, <1>7 DEF C!Attempt

LEMMA ReclaimType ==
  ASSUME C!TypeOK, NEW t \in Turns, C!Reclaim(t)
  PROVE  C!TypeOK'
  BY LostType DEF C!Reclaim, C!TypeOK, C!worker, C!bounds

LEMMA TurnNextType == C!TypeOK /\ [C!Next]_(C!vars) => C!TypeOK'
<1> SUFFICES ASSUME C!TypeOK, [C!Next]_(C!vars) PROVE C!TypeOK'
  OBVIOUS
<1>1. CASE UNCHANGED C!vars
  BY <1>1 DEF C!TypeOK, C!vars, C!queue, C!worker, C!bounds
<1>2. CASE C!Next
  BY <1>2, RequestType, WorkerType, ReclaimType DEF C!Next
<1> QED
  BY <1>1, <1>2

\* Every variable keeps its type.
THEOREM TurnTypeCorrect == C!Spec => []C!TypeOK
  BY InitType, TurnNextType, PTL DEF C!Spec

-----------------------------------------------------------------------------
(* The invariant holds initially and is kept by every step.                *)

LEMMA TurnInitIInv == C!Init => TurnInv
<1> SUFFICES ASSUME C!Init PROVE TurnInv
  OBVIOUS
<1>1. C!TypeOK
  BY InitType
<1>2. RequestState /\ PinsApart /\ FollowupOwnsRun /\ CommittedIsApplied
  BY DEF C!Init, RequestState, PinsApart, Pinning, FollowupOwnsRun, CommittedIsApplied
<1>3. RunRemembers /\ CompleteTurnAppliedOnce /\ DoneIsApplied
  BY DEF C!Init, RunRemembers, CompleteTurnAppliedOnce, DoneIsApplied
<1> QED
  BY <1>1, <1>2, <1>3 DEF TurnInv

\* A request writes the run of its own turn only, and creates its job.
LEMMA RequestKeeps ==
  ASSUME TurnInv, NEW t \in Turns, C!Request(t), C!TypeOK'
  PROVE  TurnInv'
<1> USE DEF TurnInv
<1>1. UNCHANGED <<applied, runLock, C!worker>>
  BY DEF C!Request, C!Begin, C!SaveReply, C!CloseRun, C!Finish, C!FailRequest, C!Interrupt,
         C!ReadFailedRun, C!OverwriteRun, C!CrashRequest
<1>2. /\ interrupted \subseteq interrupted'
      /\ \A u \in Turns \ {t} :
           run'[u] = run[u] /\ job'[u] = job[u] /\ tpc'[u] = tpc[u]
  BY DEF C!TypeOK, C!Request, C!Begin, C!SaveReply, C!CloseRun, C!Finish, C!FailRequest, C!Interrupt,
         C!ReadFailedRun, C!OverwriteRun, C!CrashRequest, C!RunBecomes, C!TurnGoes, C!queue, C!bounds
<1>3. job'[t] = job[t] \/ (tpc[t] = "open" /\ job'[t] = "pending" /\ run'[t] = run[t])
  BY DEF C!TypeOK, C!Request, C!Begin, C!SaveReply, C!CloseRun, C!Finish, C!FailRequest, C!Interrupt,
         C!ReadFailedRun, C!OverwriteRun, C!CrashRequest, C!TurnGoes, C!queue
<1>4. \/ run'[t] = run[t]
      \/ tpc[t] \in {"new", "open", "closing"} /\ job'[t] = job[t]
      \/ tpc[t] = "overwriting" /\ run'[t] # "completed"
  BY DEF C!TypeOK, C!Request, C!Begin, C!SaveReply, C!CloseRun, C!Finish, C!FailRequest, C!Interrupt,
         C!ReadFailedRun, C!OverwriteRun, C!CrashRequest, C!RunBecomes, C!TurnGoes, C!queue
<1>5. RequestState'
  <2>1. CASE C!Begin(t) \/ C!SaveReply(t) \/ C!CloseRun(t) \/ C!Finish(t) \/ C!FailRequest(t)
    BY <2>1, <1>2
    DEF C!TypeOK, RequestState, C!Begin, C!SaveReply, C!CloseRun, C!Finish, C!FailRequest,
        C!RunBecomes, C!TurnGoes, C!queue, C!bounds
  <2>2. CASE C!Interrupt(t) \/ C!ReadFailedRun(t) \/ C!OverwriteRun(t) \/ C!CrashRequest(t)
    BY <2>2, <1>2
    DEF C!TypeOK, RequestState, C!Interrupt, C!ReadFailedRun, C!OverwriteRun, C!CrashRequest,
        C!RunBecomes, C!TurnGoes, C!queue, C!bounds
  <2> QED
    BY <2>1, <2>2 DEF C!Request
<1>6. PinsApart'
  BY <1>1, <1>2, <1>3 DEF PinsApart, RequestState, C!worker
<1>7. FollowupOwnsRun'
  BY <1>1, <1>2, <1>4 DEF FollowupOwnsRun, PinsApart, Pinning, RequestState, C!worker
<1>8. CommittedIsApplied'
  BY <1>1 DEF CommittedIsApplied, C!worker
<1>9. RunRemembers'
  <2> SUFFICES ASSUME NEW u \in Turns
               PROVE  /\ applied[u] > 0 => job'[u] # "absent"
                      /\ applied[u] > 0 /\ u \notin interrupted' => run'[u] = "completed"
                      /\ run'[u] = "completed" /\ job'[u] # "absent" => applied[u] > 0
    BY <1>1 DEF RunRemembers
  <2>1. CASE u # t
    BY <2>1, <1>2 DEF RunRemembers
  <2>2. CASE u = t
    BY <2>2, <1>2, <1>3, <1>4 DEF RunRemembers, RequestState
  <2> QED
    BY <2>1, <2>2
<1>10. CompleteTurnAppliedOnce' /\ DoneIsApplied'
  BY <1>1, <1>2, <1>3 DEF CompleteTurnAppliedOnce, DoneIsApplied
<1> QED
  BY <1>5, <1>6, <1>7, <1>8, <1>9, <1>10

\* What a worker leaves alone unless it learns.
LEMMA WorkerFrame ==
  ASSUME C!TypeOK, PinsApart, NEW w \in Workers,
         C!Claim(w) \/ C!OpenFollowup(w) \/ C!MarkDone(w) \/ C!RollBack(w)
           \/ C!RecordFailure(w) \/ C!CrashWorker(w)
  PROVE  /\ UNCHANGED <<run, applied, tpc, interrupted>>
         /\ \A v \in Workers \ {w} : wpc'[v] = wpc[v] /\ wturn'[v] = wturn[v]
         /\ \A t \in Turns : (job'[t] = "absent") <=> (job[t] = "absent")
<1>1. UNCHANGED <<run, applied, tpc, interrupted>>
  BY DEF C!Claim, C!OpenFollowup, C!MarkDone, C!RollBack, C!RecordFailure, C!CrashWorker, C!bounds
<1>2. \A v \in Workers \ {w} : wpc'[v] = wpc[v] /\ wturn'[v] = wturn[v]
  BY DEF C!TypeOK, C!Claim, C!OpenFollowup, C!MarkDone, C!RollBack, C!RecordFailure, C!CrashWorker,
         C!WorkerGoes, C!WorkerIdle
<1>3. \A t \in Turns : (job'[t] = "absent") <=> (job[t] = "absent")
  <2>1. CASE C!Claim(w)
    BY <2>1 DEF C!TypeOK, C!Claim, C!Claimable
  <2>2. CASE C!MarkDone(w)
    BY <2>2 DEF C!TypeOK, C!MarkDone, PinsApart, Pinning, C!WorkerGoes
  <2>3. CASE C!RecordFailure(w)
    BY <2>3 DEF C!TypeOK, C!RecordFailure, C!AfterLostAttempt
  <2> QED
    BY <2>1, <2>2, <2>3 DEF C!OpenFollowup, C!RollBack, C!CrashWorker, C!queue
<1> QED
  BY <1>1, <1>2, <1>3

\* The lock of a run changes hands only when nobody else has it.
LEMMA LockFrame ==
  ASSUME C!TypeOK, NEW w \in Workers,
         C!Claim(w) \/ C!OpenFollowup(w) \/ C!MarkDone(w) \/ C!RollBack(w)
           \/ C!RecordFailure(w) \/ C!CrashWorker(w) \/ C!Learn(w)
  PROVE  \A v \in Workers \ {w}, t \in Turns : runLock[t] = v => runLock'[t] = v
  BY NoneOfThem DEF C!TypeOK, C!Claim, C!OpenFollowup, C!MarkDone, C!RollBack, C!RecordFailure,
         C!CrashWorker, C!Learn, C!Unlocked

\* The end of an attempt, in any way.
LEMMA EndKeeps ==
  ASSUME TurnInv, NEW w \in Workers,
         C!MarkDone(w) \/ C!RollBack(w) \/ C!RecordFailure(w) \/ C!CrashWorker(w), C!TypeOK'
  PROVE  TurnInv'
<1> USE DEF TurnInv
<1>1. wpc'[w] \notin Pinning
  BY DEF C!MarkDone, C!RollBack, C!RecordFailure, C!CrashWorker, C!WorkerGoes, C!WorkerIdle, C!TypeOK,
         Pinning
<1>2. \A v \in Workers \ {w} : wpc[v] \in Pinning => job'[wturn[v]] = job[wturn[v]]
  <2>1. CASE C!MarkDone(w)
    BY <2>1 DEF C!MarkDone, PinsApart, Pinning, C!TypeOK
  <2>2. CASE C!RecordFailure(w)
    BY <2>2 DEF C!RecordFailure, PinsApart, Pinning, C!Pinned, C!TypeOK
  <2> QED
    BY <2>1, <2>2 DEF C!RollBack, C!CrashWorker, C!queue
<1>3. \A t \in Turns : job'[t] = "completed" => job[t] = "completed" \/ applied[t] > 0
  BY DEF C!MarkDone, C!RollBack, C!RecordFailure, C!CrashWorker, C!AfterLostAttempt, C!TypeOK, C!queue,
         CommittedIsApplied, C!WorkerGoes
<1>4. RequestState' /\ RunRemembers' /\ CompleteTurnAppliedOnce'
  BY WorkerFrame DEF RequestState, RunRemembers, CompleteTurnAppliedOnce
<1>5. PinsApart'
  BY <1>1, <1>2, WorkerFrame DEF PinsApart
<1>6. FollowupOwnsRun' /\ CommittedIsApplied'
  BY <1>1, WorkerFrame, LockFrame DEF FollowupOwnsRun, CommittedIsApplied, PinsApart, Pinning
<1>7. DoneIsApplied'
  BY <1>3, WorkerFrame DEF DoneIsApplied
<1> QED
  BY <1>4, <1>5, <1>6, <1>7

LEMMA ClaimKeeps ==
  ASSUME TurnInv, NEW w \in Workers, C!Claim(w), C!TypeOK'
  PROVE  TurnInv'
<1> USE DEF TurnInv
<1>1. PICK t \in Turns :
        /\ job[t] = "pending" /\ job' = [job EXCEPT ![t] = "processing"]
        /\ wturn' = [wturn EXCEPT ![w] = t]
  BY DEF C!Claim, C!Claimable
<1>2. wpc' = [wpc EXCEPT ![w] = "claimed"] /\ UNCHANGED runLock
  BY DEF C!Claim, C!WorkerGoes
<1>3. RequestState' /\ RunRemembers' /\ CompleteTurnAppliedOnce'
  BY WorkerFrame DEF RequestState, RunRemembers, CompleteTurnAppliedOnce
<1>4. PinsApart'
  BY <1>1, <1>2 DEF PinsApart, Pinning, C!TypeOK
<1>5. FollowupOwnsRun' /\ CommittedIsApplied'
  BY <1>1, <1>2, WorkerFrame DEF FollowupOwnsRun, CommittedIsApplied, C!TypeOK
<1>6. DoneIsApplied'
  BY <1>1, WorkerFrame DEF DoneIsApplied, C!TypeOK
<1> QED
  BY <1>3, <1>4, <1>5, <1>6

LEMMA OpenKeeps ==
  ASSUME TurnInv, NEW w \in Workers, C!OpenFollowup(w), C!TypeOK'
  PROVE  TurnInv'
<1> USE DEF TurnInv
<1>1. wpc[w] = "claimed" /\ UNCHANGED <<C!queue, wturn>>
  BY DEF C!OpenFollowup
<1>2. \/ run[wturn[w]] = "completed" /\ wpc' = [wpc EXCEPT ![w] = "committed"]
      \/ /\ run[wturn[w]] # "completed" /\ wpc' = [wpc EXCEPT ![w] = "working"]
         /\ runLock' = [runLock EXCEPT ![wturn[w]] = w]
  BY DEF C!OpenFollowup, C!AlreadyLearned, C!WorkerGoes
<1>3. wturn[w] \in Turns /\ job[wturn[w]] = "processing"
  BY <1>1 DEF PinsApart, Pinning
<1>4. RequestState' /\ RunRemembers' /\ CompleteTurnAppliedOnce' /\ DoneIsApplied'
  BY <1>1, WorkerFrame
  DEF RequestState, RunRemembers, CompleteTurnAppliedOnce, DoneIsApplied, C!queue
<1>5. PinsApart'
  BY <1>1, <1>2, WorkerFrame DEF PinsApart, Pinning, C!TypeOK, C!queue
<1>6. FollowupOwnsRun'
  <2> SUFFICES ASSUME NEW v \in Workers, wpc'[v] = "working"
               PROVE  runLock'[wturn'[v]] = v /\ run'[wturn'[v]] # "completed"
    BY DEF FollowupOwnsRun
  <2>1. CASE v = w
    BY <2>1, <1>1, <1>2, <1>3, WorkerFrame DEF C!TypeOK
  <2>2. CASE v # w
    BY <2>2, <1>1, WorkerFrame, LockFrame DEF FollowupOwnsRun, PinsApart, Pinning
  <2> QED
    BY <2>1, <2>2
<1>7. CommittedIsApplied'
  BY <1>1, <1>2, <1>3, WorkerFrame DEF CommittedIsApplied, RunRemembers, C!TypeOK
<1> QED
  BY <1>4, <1>5, <1>6, <1>7

\* The commit of the follow-up: its run was not completed, so the turn had
\* not been applied, unless it was interrupted.
LEMMA LearnKeeps ==
  ASSUME TurnInv, NEW w \in Workers, C!Learn(w), C!TypeOK'
  PROVE  TurnInv'
<1> USE DEF TurnInv
<1> DEFINE t == wturn[w]
<1>1. /\ wpc[w] = "working" /\ wpc' = [wpc EXCEPT ![w] = "committed"]
      /\ UNCHANGED <<C!queue, tpc, wturn, interrupted>>
  BY DEF C!Learn, C!WorkerGoes, C!bounds
<1>2. t \in Turns /\ job[t] = "processing" /\ run[t] # "completed"
  BY <1>1 DEF PinsApart, Pinning, FollowupOwnsRun
<1>3. /\ run' = [run EXCEPT ![t] = "completed"]
      /\ applied' = [applied EXCEPT ![t] = @ + 1]
  BY DEF C!Learn, C!RunBecomes
<1>4. /\ applied[t] \in Nat /\ applied'[t] = applied[t] + 1
      /\ \A u \in Turns \ {t} : applied'[u] = applied[u] /\ run'[u] = run[u]
  BY <1>2, <1>3 DEF C!TypeOK
<1>5. RequestState'
  BY <1>1, <1>2, <1>4 DEF RequestState, C!queue
<1>6. PinsApart'
  BY <1>1 DEF PinsApart, Pinning, C!TypeOK, C!queue
<1>7. FollowupOwnsRun'
  <2> SUFFICES ASSUME NEW v \in Workers, wpc'[v] = "working"
               PROVE  runLock'[wturn[v]] = v /\ run'[wturn[v]] # "completed"
    BY <1>1 DEF FollowupOwnsRun
  <2>1. v # w /\ wpc[v] = "working"
    BY <1>1 DEF C!TypeOK
  <2>2. wturn[v] \in Turns \ {t}
    BY <2>1, <1>1 DEF PinsApart, Pinning
  <2> QED
    BY <2>1, <2>2, <1>4, LockFrame DEF FollowupOwnsRun
<1>8. CommittedIsApplied'
  <2> SUFFICES ASSUME NEW v \in Workers, wpc'[v] = "committed"
               PROVE  applied'[wturn[v]] > 0
    BY <1>1 DEF CommittedIsApplied
  <2>1. CASE v = w
    BY <2>1, <1>4
  <2>2. CASE v # w
    <3>1. wpc[v] = "committed" /\ wturn[v] \in Turns \ {t}
      BY <2>2, <1>1 DEF PinsApart, Pinning, C!TypeOK
    <3> QED
      BY <3>1, <1>4 DEF CommittedIsApplied
  <2> QED
    BY <2>1, <2>2
<1>9. RunRemembers'
  BY <1>1, <1>2, <1>3, <1>4 DEF RunRemembers, C!TypeOK, C!queue
<1>10. CompleteTurnAppliedOnce'
  BY <1>1, <1>2, <1>4 DEF CompleteTurnAppliedOnce, RunRemembers, C!TypeOK
<1>11. DoneIsApplied'
  BY <1>1, <1>2, <1>4 DEF DoneIsApplied, C!queue
<1> QED
  BY <1>5, <1>6, <1>7, <1>8, <1>9, <1>10, <1>11

LEMMA ReclaimKeeps ==
  ASSUME TurnInv, NEW t \in Turns, C!Reclaim(t), C!TypeOK'
  PROVE  TurnInv'
<1> USE DEF TurnInv
<1>1. /\ UNCHANGED <<run, applied, tpc, runLock, C!worker, interrupted>>
      /\ job[t] = "processing" /\ ~C!Pinned(t)
      /\ job' = [job EXCEPT ![t] = C!AfterLostAttempt(t)]
  BY DEF C!Reclaim, C!bounds
<1>2. C!AfterLostAttempt(t) \in {"pending", "failed"}
  BY DEF C!AfterLostAttempt
<1>3. RequestState' /\ RunRemembers' /\ CompleteTurnAppliedOnce' /\ DoneIsApplied'
  BY <1>1, <1>2
  DEF RequestState, RunRemembers, CompleteTurnAppliedOnce, DoneIsApplied, C!TypeOK
<1>4. PinsApart'
  BY <1>1 DEF PinsApart, Pinning, C!Pinned, C!TypeOK, C!worker
<1>5. FollowupOwnsRun' /\ CommittedIsApplied'
  BY <1>1 DEF FollowupOwnsRun, CommittedIsApplied, C!worker
<1> QED
  BY <1>3, <1>4, <1>5

LEMMA TurnNextIInv == TurnInv /\ [C!Next]_(C!vars) => TurnInv'
<1> SUFFICES ASSUME TurnInv, [C!Next]_(C!vars) PROVE TurnInv'
  OBVIOUS
<1>1. C!TypeOK'
  BY TurnNextType DEF TurnInv
<1>2. CASE UNCHANGED C!vars
  BY <1>1, <1>2
  DEF TurnInv, RequestState, PinsApart, FollowupOwnsRun, CommittedIsApplied, RunRemembers,
      CompleteTurnAppliedOnce, DoneIsApplied, C!vars, C!queue, C!worker, C!bounds
<1>3. CASE \E t \in Turns : C!Request(t) \/ C!Reclaim(t)
  BY <1>1, <1>3, RequestKeeps, ReclaimKeeps
<1>4. CASE \E w \in Workers : C!Claim(w) \/ C!Attempt(w) \/ C!CrashWorker(w)
  BY <1>1, <1>4, ClaimKeeps, OpenKeeps, LearnKeeps, EndKeeps DEF C!Attempt
<1> QED
  BY <1>2, <1>3, <1>4 DEF C!Next

\* A turn whose stream ran to its end is applied at most once, however often
\* its job is delivered.
THEOREM CompleteTurnOnce == C!Spec => []CompleteTurnAppliedOnce
<1>1. TurnInv => CompleteTurnAppliedOnce
  BY DEF TurnInv
<1> QED
  BY <1>1, TurnInitIInv, TurnNextIInv, PTL DEF C!Spec

\* A job that is done was applied, whatever was interrupted.
THEOREM DoneWasApplied == C!Spec => []DoneIsApplied
<1>1. TurnInv => DoneIsApplied
  BY DEF TurnInv
<1> QED
  BY <1>1, TurnInitIInv, TurnNextIInv, PTL DEF C!Spec

\* What a step does to the job of a turn.
LEMMA TurnTransitions ==
  ASSUME TurnInv, [C!Next]_(C!vars), NEW t \in Turns
  PROVE  Delivery!Transition(t)
<1> USE DEF TurnInv, Delivery!Transition, Delivery!Keep
<1>1. ASSUME NEW u \in Turns, C!Request(u) PROVE Delivery!Transition(t)
  <2>1. CASE C!SaveReply(u)
    BY <2>1 DEF C!SaveReply, C!TurnGoes, C!TypeOK, RequestState, Delivery!Enqueued
  <2>2. CASE ~C!SaveReply(u)
    <3>1. UNCHANGED <<job, deliveries>>
      BY <1>1, <2>2 DEF C!Request, C!Begin, C!CloseRun, C!Finish, C!FailRequest, C!Interrupt,
                        C!ReadFailedRun, C!OverwriteRun, C!CrashRequest, C!queue
    <3> QED
      BY <3>1
  <2> QED
    BY <2>1, <2>2
<1>2. ASSUME NEW u \in Turns, C!Reclaim(u) PROVE Delivery!Transition(t)
  BY <1>2 DEF C!Reclaim, C!AfterLostAttempt, C!TypeOK, Delivery!Lapsed
<1>3. ASSUME NEW w \in Workers, C!Claim(w) PROVE Delivery!Transition(t)
  BY <1>3 DEF C!Claim, C!Claimable, C!TypeOK, Delivery!Attempted
<1>4. ASSUME NEW w \in Workers, C!MarkDone(w) PROVE Delivery!Transition(t)
  <2>1. job[wturn[w]] = "processing" /\ wturn[w] \in Turns
    BY <1>4 DEF C!MarkDone, PinsApart, Pinning
  <2> QED
    BY <1>4, <2>1 DEF C!MarkDone, C!TypeOK, Delivery!Settled, Delivery!Terminal
<1>5. ASSUME NEW w \in Workers, C!RecordFailure(w) PROVE Delivery!Transition(t)
  BY <1>5 DEF C!RecordFailure, C!AfterLostAttempt, C!TypeOK, Delivery!Lapsed
<1>6. ASSUME NEW w \in Workers, C!OpenFollowup(w) \/ C!Learn(w) \/ C!RollBack(w) \/ C!CrashWorker(w)
      PROVE  Delivery!Transition(t)
  BY <1>6 DEF C!OpenFollowup, C!Learn, C!RollBack, C!CrashWorker, C!queue
<1>7. CASE UNCHANGED C!vars
  BY <1>7 DEF C!vars, C!queue
<1> QED
  BY <1>1, <1>2, <1>3, <1>4, <1>5, <1>6, <1>7 DEF C!Next, C!Attempt

\* The jobs of the turns implement JobLifecycle: an attempt that was overtaken
\* decides nothing, however late it reports.
THEOREM TurnsLiveTheirLife == C!Spec => TurnsKeepLifecycle
<1>1. C!Init => Delivery!Init
  BY DEF C!Init, Delivery!Init
<1>2. TurnInv /\ TurnInv' /\ [C!Next]_(C!vars) => [Delivery!Next]_(Delivery!jobVars)
  <2> SUFFICES ASSUME TurnInv, TurnInv', [C!Next]_(C!vars) PROVE Delivery!Next
    OBVIOUS
  <2>1. DOMAIN job' = Turns /\ DOMAIN deliveries' = Turns
    BY DEF TurnInv, C!TypeOK
  <2> QED
    BY <2>1, TurnTransitions DEF Delivery!Next
<1> QED
  BY <1>1, <1>2, TurnInitIInv, TurnNextIInv, PTL DEF C!Spec, TurnsKeepLifecycle, Delivery!Spec
=============================================================================
