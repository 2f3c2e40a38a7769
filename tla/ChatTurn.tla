------------------------------ MODULE ChatTurn ------------------------------
(***************************************************************************)
(* A chat turn and what is learned from it afterwards.                     *)
(*                                                                         *)
(* The request saves the student's message with an orchestration run,      *)
(* streams the reply, and commits the reply together with a person job.    *)
(* A worker later applies the facts, goals, memories and tasks of the turn *)
(* in one transaction that also completes the run; the job is marked done  *)
(* in another session.  Delivery is at least once: what makes a redelivery *)
(* harmless is the run's status, which an interrupted stream also writes.  *)
(*                                                                         *)
(* The queue is JobQueue seen through JobLifecycle; a claim and its pin    *)
(* are one step.  runLock is the row lock of the orchestration run.        *)
(***************************************************************************)
EXTENDS LearnedTurn

CONSTANTS Workers,
          CrashBound,      \* crashes of workers and of requests
          InterruptBound,  \* streams that are cancelled or raise
          Nobody, NoTurn

ASSUME ConstantTypes == CrashBound \in Nat /\ InterruptBound \in Nat
ASSUME Distinct == Nobody \notin Workers /\ NoTurn \notin Turns

VARIABLES
  run,        \* orchestration_runs.status
  tpc,        \* where the request of the turn is
  runLock,
  wpc, wturn, watt,
  crashes

queue  == <<job, deliveries>>
worker == <<wpc, wturn, watt>>
bounds == <<crashes, interrupted>>
vars   == <<run, queue, applied, tpc, runLock, worker, bounds>>

RunStatuses == {"none", "running", "completed", "failed", "cancelled"}
JobStatuses == {"absent", "pending", "processing", "completed", "failed"}
TurnPoints  == {"new", "open", "replied", "closing", "failing", "overwriting", "ended"}
WorkPoints  == {"idle", "claimed", "working", "committed", "rolledback"}

TypeOK ==
  /\ run \in [Turns -> RunStatuses]
  /\ job \in [Turns -> JobStatuses]
  /\ deliveries \in [Turns -> 0..MaxAttempts]
  /\ applied \in [Turns -> Nat]
  /\ tpc \in [Turns -> TurnPoints]
  /\ runLock \in [Turns -> Workers \cup {Nobody}]
  /\ wpc \in [Workers -> WorkPoints]
  /\ wturn \in [Workers -> Turns \cup {NoTurn}]
  /\ watt \in [Workers -> 0..MaxAttempts]
  /\ crashes \in 0..CrashBound
  /\ interrupted \in SUBSET Turns

Init ==
  /\ run = [t \in Turns |-> "none"]
  /\ job = [t \in Turns |-> "absent"]
  /\ deliveries = [t \in Turns |-> 0]
  /\ applied = [t \in Turns |-> 0]
  /\ tpc = [t \in Turns |-> "new"]
  /\ runLock = [t \in Turns |-> Nobody]
  /\ wpc = [w \in Workers |-> "idle"]
  /\ wturn = [w \in Workers |-> NoTurn]
  /\ watt = [w \in Workers |-> 0]
  /\ crashes = 0 /\ interrupted = {}

-----------------------------------------------------------------------------
(* The request.                                                            *)

TurnGoes(t, from, to) == tpc[t] = from /\ tpc' = [tpc EXCEPT ![t] = to]
RunBecomes(t, status) == run' = [run EXCEPT ![t] = status]

\* begin_chat_turn: the student's message and the run, in one commit.
Begin(t) ==
  /\ TurnGoes(t, "new", "open")
  /\ RunBecomes(t, "running")
  /\ UNCHANGED <<queue, applied, runLock, worker, bounds>>

\* The reply is generated; save_assistant_message commits it with the job that
\* enqueue_intelligence staged, if the turn has anything to learn from.
SaveReply(t) ==
  /\ \/ TurnGoes(t, "open", "replied") /\ job' = [job EXCEPT ![t] = "pending"]
     \/ TurnGoes(t, "open", "closing") /\ UNCHANGED job
  /\ UNCHANGED <<run, deliveries, applied, runLock, worker, bounds>>

\* Nothing was queued: a second commit completes the run.
CloseRun(t) ==
  /\ TurnGoes(t, "closing", "ended")
  /\ RunBecomes(t, "completed")
  /\ UNCHANGED <<queue, applied, runLock, worker, bounds>>

\* The last events of the stream are sent.
Finish(t) ==
  /\ TurnGoes(t, "replied", "ended")
  /\ UNCHANGED <<run, queue, applied, runLock, worker, bounds>>

\* The counselor raises in the request that does not stream.
FailRequest(t) ==
  /\ TurnGoes(t, "open", "ended")
  /\ RunBecomes(t, "failed")
  /\ UNCHANGED <<queue, applied, runLock, worker, bounds>>

\* The stream's generator is cancelled at an await, or raises.
Interrupt(t) ==
  /\ Cardinality(interrupted) < InterruptBound
  /\ interrupted' = interrupted \cup {t}
  /\ \E point \in {"open", "replied", "closing"} : TurnGoes(t, point, "failing")
  /\ UNCHANGED <<run, queue, applied, runLock, worker, crashes>>

\* record_stream_failure reads the run in a session of its own, without a lock.
ReadFailedRun(t) ==
  /\ IF run[t] = "completed" THEN TurnGoes(t, "failing", "ended")
                             ELSE TurnGoes(t, "failing", "overwriting")
  /\ UNCHANGED <<run, queue, applied, runLock, worker, bounds>>

\* Its UPDATE waits for the row lock and does not look at the row again.
OverwriteRun(t) ==
  /\ TurnGoes(t, "overwriting", "ended")
  /\ runLock[t] = Nobody
  /\ \E status \in {"cancelled", "failed"} : RunBecomes(t, status)
  /\ UNCHANGED <<queue, applied, runLock, worker, bounds>>

\* The server stops with the request open.
CrashRequest(t) ==
  /\ crashes < CrashBound
  /\ crashes' = crashes + 1
  /\ \E point \in TurnPoints \ {"new", "ended"} : TurnGoes(t, point, "ended")
  /\ UNCHANGED <<run, queue, applied, runLock, worker, interrupted>>

-----------------------------------------------------------------------------
(* The intelligence worker.                                                *)

Pinned(t) == \E w \in Workers : wturn[w] = t /\ wpc[w] # "rolledback"

\* Fault: a lost attempt is always retried.
AfterLostAttemptRetried(t) == "pending"

AfterLostAttempt(t) == IF deliveries[t] < MaxAttempts THEN "pending" ELSE "failed"

WorkerGoes(w, from, to) == wpc[w] = from /\ wpc' = [wpc EXCEPT ![w] = to]

WorkerIdle(w) ==
  /\ wpc' = [wpc EXCEPT ![w] = "idle"]
  /\ wturn' = [wturn EXCEPT ![w] = NoTurn]
  /\ watt' = [watt EXCEPT ![w] = 0]

\* The end of the follow-up's transaction.
Unlocked(w) == [t \in Turns |-> IF runLock[t] = w THEN Nobody ELSE runLock[t]]

Claimable(t) == job[t] = "pending" /\ deliveries[t] < MaxAttempts

Claim(w) ==
  /\ WorkerGoes(w, "idle", "claimed")
  /\ \E t \in Turns :
       /\ Claimable(t)
       /\ job' = [job EXCEPT ![t] = "processing"]
       /\ deliveries' = [deliveries EXCEPT ![t] = @ + 1]
       /\ wturn' = [wturn EXCEPT ![w] = t]
       /\ watt' = [watt EXCEPT ![w] = deliveries[t] + 1]
  /\ UNCHANGED <<run, applied, tpc, runLock, bounds>>

\* Fault: every redelivery is taken for a first delivery.
AlreadyLearnedNever(t) == FALSE
\* Fault: a turn that was interrupted is taken for one that was learned.
AlreadyLearnedInterrupted(t) == run[t] # "running"

AlreadyLearned(t) == run[t] = "completed"

\* The follow-up locks the run; it returns at once when the run is completed.
OpenFollowup(w) ==
  /\ wpc[w] = "claimed"
  /\ runLock[wturn[w]] = Nobody
  /\ IF AlreadyLearned(wturn[w])
     THEN WorkerGoes(w, "claimed", "committed") /\ UNCHANGED runLock
     ELSE /\ WorkerGoes(w, "claimed", "working")
          /\ runLock' = [runLock EXCEPT ![wturn[w]] = w]
  /\ UNCHANGED <<run, queue, applied, tpc, wturn, watt, bounds>>

\* finish_intelligence and the run's completion, in one commit.
Learn(w) ==
  /\ WorkerGoes(w, "working", "committed")
  /\ applied' = [applied EXCEPT ![wturn[w]] = @ + 1]
  /\ RunBecomes(wturn[w], "completed")
  /\ runLock' = Unlocked(w)
  /\ UNCHANGED <<queue, tpc, wturn, watt, bounds>>

\* mark_job_done, in the session that holds the pin.
MarkDone(w) ==
  /\ wpc[w] = "committed"
  /\ job' = [job EXCEPT ![wturn[w]] = "completed"]
  /\ WorkerIdle(w)
  /\ UNCHANGED <<run, deliveries, applied, tpc, runLock, bounds>>

\* An exception or the timeout; embedding the new memories may still raise
\* after the commit.
RollBack(w) ==
  /\ \E point \in {"claimed", "working", "committed"} : WorkerGoes(w, point, "rolledback")
  /\ runLock' = Unlocked(w)
  /\ UNCHANGED <<run, queue, applied, tpc, wturn, watt, bounds>>

RecordFailure(w) ==
  /\ wpc[w] = "rolledback"
  /\ LET t == wturn[w]
     IN IF job[t] = "processing" /\ deliveries[t] = watt[w]
        THEN ~Pinned(t) /\ job' = [job EXCEPT ![t] = AfterLostAttempt(t)]
        ELSE UNCHANGED job
  /\ WorkerIdle(w)
  /\ UNCHANGED <<run, deliveries, applied, tpc, runLock, bounds>>

CrashWorker(w) ==
  /\ wpc[w] # "idle" /\ crashes < CrashBound
  /\ crashes' = crashes + 1
  /\ runLock' = Unlocked(w)
  /\ WorkerIdle(w)
  /\ UNCHANGED <<run, queue, applied, tpc, interrupted>>

\* The lease of an attempt that nobody pins expires and is taken back.
Reclaim(t) ==
  /\ job[t] = "processing" /\ ~Pinned(t)
  /\ job' = [job EXCEPT ![t] = AfterLostAttempt(t)]
  /\ UNCHANGED <<run, deliveries, applied, tpc, runLock, worker, bounds>>

-----------------------------------------------------------------------------
Request(t) ==
  \/ Begin(t) \/ SaveReply(t) \/ CloseRun(t) \/ Finish(t) \/ FailRequest(t)
  \/ Interrupt(t) \/ ReadFailedRun(t) \/ OverwriteRun(t) \/ CrashRequest(t)

Attempt(w) ==
  OpenFollowup(w) \/ Learn(w) \/ MarkDone(w) \/ RollBack(w) \/ RecordFailure(w)

Next ==
  \/ \E t \in Turns : Request(t) \/ Reclaim(t)
  \/ \E w \in Workers : Claim(w) \/ Attempt(w) \/ CrashWorker(w)

Spec == Init /\ [][Next]_vars

\* Workers poll, attempts end within their timeout, leases expire.
FairSpec ==
  /\ Spec
  /\ \A w \in Workers : WF_vars(Claim(w)) /\ WF_vars(Attempt(w))
  /\ \A t \in Turns : WF_vars(Reclaim(t))
=============================================================================
