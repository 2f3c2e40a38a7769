-------------------------- MODULE DocumentAnalysis --------------------------
(***************************************************************************)
(* One document of a student, from its upload to its deletion.             *)
(*                                                                         *)
(* A client's request uploads the document, reviews the facts read from    *)
(* it, resolves a verification case, orders another analysis or deletes    *)
(* it.  A worker, or the request that uploads an onboarding CV, analyses   *)
(* it for minutes in one transaction, which holds the pin of its job from  *)
(* the start, the document's row from its first flush and the person's row *)
(* from its first vault write.  The deletion and the review take no lock   *)
(* before they read.                                                       *)
(*                                                                         *)
(* What a process has read or decided but not committed is in work[p]; a   *)
(* run's facts and candidates are its pair of run number and field, runs   *)
(* being numbered in the order of their commits.                           *)
(***************************************************************************)
EXTENDS Naturals, FiniteSets

CONSTANTS Clients,       \* requests of the student
          Workers,       \* document worker loops
          Fields,        \* profile fields the document has values for
          JobIds,        \* rows of document_jobs for it, at most
          RunBound,      \* completed analyses in a behaviour
          RequestBound,  \* requests in a behaviour
          FaultBound,    \* requests and attempts that fail of themselves
          MaxAttempts,
          Nobody, NoJob

ASSUME NumberedJobs == JobIds \subseteq Nat \ {0}
ASSUME Bounds ==
  /\ RunBound \in Nat /\ RequestBound \in Nat /\ FaultBound \in Nat
  /\ MaxAttempts \in Nat \ {0}
ASSUME Distinct ==
  /\ Clients \cap Workers = {}
  /\ Nobody \notin Clients \cup Workers
  /\ NoJob \notin JobIds

VARIABLES
  file,        \* the stored object exists
  docStatus,   \* documents.status, "none" without a row
  deleted,     \* documents.deleted_at is set
  mismatch,    \* documents.identity_status = "mismatch"
  runs,        \* completed rows of document_analysis_runs
  review,      \* document_candidates.review_status
  case,        \* the newest verification case of each field
  applied,     \* facts of the document in the vault, and what put them there
  jstatus, jattempts, inline,  \* the jobs; the one a CV upload runs itself
  docLock, personLock,
  pc, work, requests, faults,
  orphaned,    \* an upload ended without its compensation
  halfDeleted, \* a deletion ended between its two steps
  contested,   \* candidates two reviews were deciding at once
  overtaken    \* a review's status was computed from what another replaced

document == <<file, docStatus, deleted, mismatch>>
results  == <<runs, review, case, applied>>
jobs     == <<jstatus, jattempts, inline>>
locks    == <<docLock, personLock>>
history  == <<orphaned, halfDeleted, contested, overtaken>>
bounds   == <<requests, faults>>
vars     == <<document, results, jobs, locks, pc, work, bounds, history>>

Procs      == Clients \cup Workers
Runs       == 1..RunBound
Reviews    == {"none", "pending", "accepted", "rejected"}
\* What reconciliation makes of a candidate: nothing anyone reads again, a fact
\* for the vault, a question for the review, or one that also opens a case.
Decisions  == {"none", "apply", "propose", "conflict"}
Resolutions == {"document_correct", "existing_correct", "wrong_document"}
DocStatuses == {"none", "uploaded", "queued", "digitizing", "awaiting_review",
                "processed", "failed", "deleted"}
AnalysisPoints == {"pinned", "started", "digitized", "reconciled", "applying", "rolledback"}
ReviewPoints   == {"reviewing", "decided", "flushed", "confirming"}
Points == {"idle", "uploading", "compensating", "removed", "reprocessing",
           "resolving", "pinning"} \cup AnalysisPoints \cup ReviewPoints

Rested == [job |-> NoJob, attempt |-> 0, run |-> 0, status |-> "none",
           accept |-> {}, reject |-> {}, found |-> [f \in Fields |-> "none"],
           mismatch |-> FALSE, choice |-> "none", field |-> {},
           saw |-> FALSE]

Work == [job : JobIds \cup {NoJob}, attempt : 0..MaxAttempts, run : 0..RunBound,
         status : DocStatuses, accept : SUBSET Fields, reject : SUBSET Fields,
         found : [Fields -> Decisions], mismatch : BOOLEAN,
         choice : Resolutions \cup {"none"}, field : SUBSET Fields,
         saw : BOOLEAN]  \* the document was not deleted when it was read

TypeOK ==
  /\ file \in BOOLEAN /\ docStatus \in DocStatuses
  /\ deleted \in BOOLEAN /\ mismatch \in BOOLEAN
  /\ runs \in 0..RunBound
  /\ review \in [Runs -> [Fields -> Reviews]]
  /\ case \in [Fields -> [open : BOOLEAN, run : 0..RunBound]]
  /\ applied \subseteq Runs \X Fields \X {"analysis", "review", "case"}
  /\ jstatus \in [JobIds -> {"absent", "pending", "processing", "completed", "failed"}]
  /\ jattempts \in [JobIds -> 0..MaxAttempts]
  /\ inline \in SUBSET JobIds
  /\ docLock \in Procs \cup {Nobody} /\ personLock \in Procs \cup {Nobody}
  /\ pc \in [Procs -> Points]
  /\ work \in [Procs -> Work]
  /\ requests \in 0..RequestBound /\ faults \in 0..FaultBound
  /\ orphaned \in BOOLEAN /\ halfDeleted \in BOOLEAN
  /\ contested \subseteq Runs \X Fields
  /\ overtaken \in BOOLEAN

Init ==
  /\ file = FALSE /\ docStatus = "none" /\ deleted = FALSE /\ mismatch = FALSE
  /\ runs = 0
  /\ review = [r \in Runs |-> [f \in Fields |-> "none"]]
  /\ case = [f \in Fields |-> [open |-> FALSE, run |-> 0]]
  /\ applied = {}
  /\ jstatus = [j \in JobIds |-> "absent"] /\ jattempts = [j \in JobIds |-> 0]
  /\ inline = {}
  /\ docLock = Nobody /\ personLock = Nobody
  /\ pc = [p \in Procs |-> "idle"] /\ work = [p \in Procs |-> Rested]
  /\ requests = 0 /\ faults = 0
  /\ orphaned = FALSE /\ halfDeleted = FALSE /\ contested = {} /\ overtaken = FALSE

-----------------------------------------------------------------------------
Live == docStatus # "none" /\ ~deleted

Goto(p, point) == pc' = [pc EXCEPT ![p] = point]
Note(p, what)  == work' = [work EXCEPT ![p] = what]


\* The end of p's transaction frees its row locks.
Release(p) ==
  /\ docLock' = IF docLock = p THEN Nobody ELSE docLock
  /\ personLock' = IF personLock = p THEN Nobody ELSE personLock

Finish(p) == Goto(p, "idle") /\ Note(p, Rested) /\ Release(p)

\* A request starts at point q.
Begin(c, q, what) ==
  /\ pc[c] = "idle" /\ requests < RequestBound
  /\ requests' = requests + 1 /\ UNCHANGED faults
  /\ Goto(c, q) /\ Note(c, what)

-----------------------------------------------------------------------------
(* Upload.                                                                 *)

\* The object is stored under the person's lock, before any row names it.
Upload(c) ==
  /\ Begin(c, "uploading", Rested)
  /\ docStatus = "none" /\ ~file /\ \A d \in Clients : pc[d] # "uploading"
  /\ personLock = Nobody /\ personLock' = c
  /\ file' = TRUE
  /\ UNCHANGED <<docStatus, deleted, mismatch, results, jobs, docLock, history>>

\* The row and its job; the job of an onboarding CV is born in processing and
\* the request goes on to run it.
CommitUpload(c) ==
  /\ pc[c] = "uploading" /\ docStatus' = "uploaded"
  /\ \E j \in {k \in JobIds : jstatus[k] = "absent"} :
       \/ /\ jstatus' = [jstatus EXCEPT ![j] = "pending"]
          /\ Finish(c)
          /\ UNCHANGED <<jattempts, inline>>
       \/ /\ jstatus' = [jstatus EXCEPT ![j] = "processing"]
          /\ jattempts' = [jattempts EXCEPT ![j] = 1]
          /\ inline' = inline \cup {j}
          /\ Goto(c, "pinning") /\ Release(c)
          /\ Note(c, [Rested EXCEPT !.job = j, !.attempt = 1])
  /\ UNCHANGED <<file, deleted, mismatch, results, bounds, history>>

FailUpload(c) ==
  /\ pc[c] = "uploading" /\ Goto(c, "compensating") /\ Release(c)
  /\ UNCHANGED <<document, results, jobs, work, history>>

\* Fault: nothing removes the object.
CompensateNothing(c) ==
  /\ pc[c] = "compensating"
  /\ Finish(c)
  /\ UNCHANGED <<document, results, jobs, bounds, history>>

Compensate(c) ==
  /\ pc[c] = "compensating" /\ file' = FALSE
  /\ Finish(c)
  /\ UNCHANGED <<docStatus, deleted, mismatch, results, jobs, bounds, history>>

-----------------------------------------------------------------------------
(* Analysis.                                                               *)

\* Fault: the attempt's row is not locked.
PinnedNever(j) == j \notin JobIds

Pinned(j) ==
  \E p \in Procs : work[p].job = j /\ pc[p] \in AnalysisPoints \ {"rolledback"}

\* Fault: the last attempt is not the last.
AfterLostAttemptAlways(j) == IF j \in JobIds THEN "pending" ELSE "failed"

AfterLostAttempt(j) == IF jattempts[j] < MaxAttempts THEN "pending" ELSE "failed"

\* The claim of JobQueue, with its pin.
Claim(w) ==
  /\ pc[w] = "idle" /\ \A k \in JobIds : jstatus[k] # "processing"
  /\ \E j \in JobIds :
       /\ jstatus[j] = "pending" /\ jattempts[j] < MaxAttempts
       /\ jstatus' = [jstatus EXCEPT ![j] = "processing"]
       /\ jattempts' = [jattempts EXCEPT ![j] = @ + 1]
       /\ Note(w, [Rested EXCEPT !.job = j, !.attempt = jattempts'[j]])
  /\ Goto(w, "pinned")
  /\ UNCHANGED <<document, results, inline, locks, bounds, history>>

PinInline(c) ==
  /\ pc[c] = "pinning"
  /\ LET j == work[c].job IN
       IF jstatus[j] = "processing" /\ jattempts[j] = work[c].attempt
       THEN Goto(c, "pinned") /\ UNCHANGED work
       ELSE Goto(c, "idle") /\ Note(c, Rested)
  /\ UNCHANGED <<document, results, jobs, locks, bounds, history>>

\* Fault: the document is found by its id alone.
StartAnalysisById(p) ==
  /\ pc[p] = "pinned"
  /\ Goto(p, "started") /\ Note(p, [work[p] EXCEPT !.saw = Live])
  /\ UNCHANGED <<document, results, jobs, locks, bounds, history>>

\* deleted_at is looked at here only.
StartAnalysis(p) ==
  /\ pc[p] = "pinned"
  /\ IF Live
     THEN /\ Goto(p, "started") /\ Note(p, [work[p] EXCEPT !.saw = Live])
          /\ UNCHANGED <<locks, jstatus>>
     ELSE Finish(p) /\ jstatus' = [jstatus EXCEPT ![work[p].job] = "failed"]
  /\ UNCHANGED <<document, results, jattempts, inline, bounds, history>>

\* The first flush after doc.status = "digitizing" locks the row; the text comes
\* from an earlier run or from the stored object.
Digitize(p) ==
  /\ pc[p] = "started" /\ (file \/ runs > 0) /\ runs < RunBound
  /\ docLock = Nobody /\ docLock' = p
  /\ Goto(p, "digitized")
  /\ UNCHANGED <<document, results, jobs, personLock, work, bounds, history>>

Completes(p) ==
  /\ runs' = runs + 1
  /\ jstatus' = [jstatus EXCEPT ![work[p].job] = "completed"]
  /\ UNCHANGED <<jattempts, inline>>

NoText(p) ==
  /\ pc[p] = "digitized" /\ docStatus' = "failed"
  /\ Completes(p) /\ Finish(p)
  /\ UNCHANGED <<file, deleted, mismatch, review, case, applied, bounds, history>>

\* A document about somebody else asks about every fact.
Reconcilable(wrong, found) ==
  wrong => \A f \in Fields : found[f] \in {"none", "propose"}

Reconcile(p) ==
  /\ pc[p] = "digitized"
  /\ \E wrong \in BOOLEAN, found \in [Fields -> Decisions] :
       /\ Reconcilable(wrong, found)
       /\ Note(p, [work[p] EXCEPT !.mismatch = wrong, !.found = found])
  /\ Goto(p, "reconciled")
  /\ UNCHANGED <<document, results, jobs, locks, bounds, history>>

Having(p, decisions) == {f \in Fields : work[p].found[f] \in decisions}

LockForFacts(p) ==
  /\ pc[p] = "reconciled" /\ Having(p, {"apply"}) # {}
  /\ personLock = Nobody /\ personLock' = p
  /\ Goto(p, "applying")
  /\ UNCHANGED <<document, results, jobs, docLock, work, bounds, history>>

Reviewed(found) ==
  CASE found = "none" -> "none" [] found = "apply" -> "accepted" [] OTHER -> "pending"

\* An open case of the field is used again for the new fact.
OpenCases(p) ==
  case' = [f \in Fields |-> IF f \in Having(p, {"conflict"})
                            THEN [open |-> TRUE, run |-> runs + 1] ELSE case[f]]

Reviewing == {c \in Clients : pc[c] \in ReviewPoints}

\* Fault: a proposal does not call for a review.
AfterAnalysisConflictsOnly(p) ==
  IF Having(p, {"conflict"}) # {} THEN "awaiting_review" ELSE "processed"

AfterAnalysis(p) ==
  IF Having(p, {"propose", "conflict"}) # {} THEN "awaiting_review" ELSE "processed"

CommitAnalysis(p) ==
  /\ \/ pc[p] = "applying"
     \/ /\ pc[p] = "reconciled"
        /\ Having(p, {"apply"}) = {}
  /\ review' = [review EXCEPT ![runs + 1] = [f \in Fields |-> Reviewed(work[p].found[f])]]
  /\ applied' = applied \cup {<<runs + 1, f, "analysis">> : f \in Having(p, {"apply"})}
  /\ OpenCases(p)
  /\ mismatch' = work[p].mismatch
  /\ docStatus' = AfterAnalysis(p)
  /\ overtaken' = (Reviewing # {})
  /\ Completes(p) /\ Finish(p)
  /\ UNCHANGED <<file, deleted, bounds, orphaned, halfDeleted, contested>>

\* An exception, a timeout or a deadlock rolls the attempt back ...
RollBack(p) ==
  /\ pc[p] \in AnalysisPoints \ {"rolledback"}
  /\ Goto(p, "rolledback") /\ Release(p)
  /\ UNCHANGED <<document, results, jobs, work, history>>

\* ... and another transaction records its failure: a worker's if the attempt is
\* still the job's, the CV request's by the id of the job alone.
RecordFailure(p) ==
  /\ pc[p] = "rolledback"
  /\ LET j == work[p].job IN
       IF p \in Clients
       THEN ~Pinned(j) /\ jstatus' = [jstatus EXCEPT ![j] = "failed"]
       ELSE IF jstatus[j] = "processing" /\ jattempts[j] = work[p].attempt
       THEN jstatus' = [jstatus EXCEPT ![j] = AfterLostAttempt(j)]
       ELSE UNCHANGED jstatus
  /\ Finish(p)
  /\ UNCHANGED <<document, results, jattempts, inline, bounds, history>>

\* The process ends, or a CV request fails with an AuthError: nothing is recorded.
Vanish(p) ==
  /\ pc[p] \in AnalysisPoints \cup {"pinning"}
  /\ Finish(p)
  /\ UNCHANGED <<document, results, jobs, history>>

Reclaim(j) ==
  /\ jstatus[j] = "processing" /\ ~Pinned(j)
  /\ jstatus' = [jstatus EXCEPT ![j] = AfterLostAttempt(j)]
  /\ UNCHANGED <<document, results, jattempts, inline, locks, pc, work, bounds, history>>

-----------------------------------------------------------------------------
(* Deletion.                                                               *)

DeleteObjects(c) ==
  /\ Live /\ Begin(c, "removed", Rested)
  /\ file' = FALSE
  /\ UNCHANGED <<docStatus, deleted, mismatch, results, jobs, locks, history>>

\* Fault: a document that is being analysed is skipped.
MarkDeletedUnlessBusy(c) ==
  /\ pc[c] = "removed"
  /\ IF Live /\ docLock = Nobody
     THEN deleted' = TRUE /\ docStatus' = "deleted"
     ELSE UNCHANGED <<deleted, docStatus>>
  /\ Finish(c)
  /\ UNCHANGED <<file, mismatch, results, jobs, bounds, history>>

MarkDeleted(c) ==
  /\ pc[c] = "removed"
  /\ IF Live
     THEN /\ docLock = Nobody
          /\ deleted' = TRUE /\ docStatus' = "deleted"
     ELSE UNCHANGED <<deleted, docStatus>>
  /\ Finish(c)
  /\ UNCHANGED <<file, mismatch, results, jobs, bounds, history>>

-----------------------------------------------------------------------------
(* Reprocessing.                                                           *)

EnqueueReprocess(c) ==
  /\ Live /\ \E j \in JobIds : jstatus[j] = "absent"
  /\ Begin(c, "reprocessing", [Rested EXCEPT !.status = docStatus])
  /\ personLock = Nobody /\ personLock' = c
  /\ UNCHANGED <<document, results, jobs, docLock, history>>

CommitReprocess(c) ==
  /\ pc[c] = "reprocessing"
  /\ \E j \in {k \in JobIds : jstatus[k] = "absent"} :
       jstatus' = [jstatus EXCEPT ![j] = "pending"]
  /\ IF work[c].status = "queued" THEN UNCHANGED docStatus
     ELSE docLock = Nobody /\ docStatus' = "queued"
  /\ Finish(c)
  /\ UNCHANGED <<file, deleted, mismatch, results, jattempts, inline, bounds, history>>

-----------------------------------------------------------------------------
(* Review.                                                                 *)

\* Fault: an accepted candidate can be decided again.
PendingOrAccepted(r) ==
  {f \in Fields : r \in Runs /\ review[r][f] \in {"pending", "accepted"}}

Pending(r) == {f \in Fields : r \in Runs /\ review[r][f] = "pending"}

\* The document and its latest completed run ...
OpenReview(c) ==
  /\ Live
  /\ Begin(c, "reviewing", [Rested EXCEPT !.run = runs, !.status = docStatus,
                                          !.mismatch = mismatch,
                                          !.saw = Live])
  /\ UNCHANGED <<document, results, jobs, locks, history>>

\* ... the candidates, which have to be that run's pending ones, and what is left.
\* A review may name none, even of a document that was never analysed.
Decide(c) ==
  /\ pc[c] = "reviewing"
  /\ \E accept, reject \in SUBSET Pending(work[c].run) :
       LET left   == Pending(work[c].run) \ (accept \cup reject)
           status == IF left # {} THEN "awaiting_review" ELSE "processed"
       IN /\ accept \cap reject = {}
          /\ accept # {} => ~work[c].mismatch
          /\ Note(c, [work[c] EXCEPT
                        !.accept = accept, !.reject = reject,
                        !.status = IF status = @ THEN "none" ELSE status])
          /\ contested' = contested \cup
               {<<work[c].run, f>> : f \in {g \in accept \cup reject :
                  \E d \in Reviewing \ {c} :
                    work[d].run = work[c].run /\ g \in work[d].accept \cup work[d].reject}}
  /\ Goto(c, "decided")
  /\ UNCHANGED <<document, results, jobs, locks, bounds, orphaned, halfDeleted, overtaken>>

\* A status that differs from the one read is an UPDATE of the row.
FlushReview(c) ==
  /\ pc[c] = "decided"
  /\ IF work[c].status = "none" THEN UNCHANGED docLock
     ELSE docLock = Nobody /\ docLock' = c
  /\ Goto(c, "flushed")
  /\ UNCHANGED <<document, results, jobs, personLock, work, bounds, history>>

AcceptFacts(c) ==
  /\ pc[c] = "flushed" /\ work[c].accept # {}
  /\ personLock = Nobody /\ personLock' = c
  /\ Goto(c, "confirming")
  /\ UNCHANGED <<document, results, jobs, docLock, work, bounds, history>>

\* Cases of the accepted fields are closed with the review.
CommitReview(c) ==
  LET w == work[c] IN
  /\ \/ pc[c] = "confirming"
     \/ /\ pc[c] = "flushed"
        /\ w.accept = {}
  /\ review' = [review EXCEPT ![w.run] = [f \in Fields |->
                  IF f \in w.accept THEN "accepted"
                  ELSE IF f \in w.reject THEN "rejected" ELSE @[f]]]
  /\ applied' = applied \cup {<<w.run, f, "review">> : f \in w.accept}
  /\ case' = [f \in Fields |-> IF f \in w.accept THEN [case[f] EXCEPT !.open = FALSE]
                               ELSE case[f]]
  /\ docStatus' = IF w.status = "none" THEN docStatus ELSE w.status
  /\ overtaken' = (overtaken \/ Reviewing # {c})
  /\ Finish(c)
  /\ UNCHANGED <<file, deleted, mismatch, runs, jobs, bounds, orphaned, halfDeleted, contested>>

-----------------------------------------------------------------------------
(* Verification cases.                                                     *)

ResolveCase(c) ==
  /\ \E f \in Fields, choice \in Resolutions :
       /\ case[f].open
       /\ Begin(c, "resolving", [Rested EXCEPT !.field = {f}, !.choice = choice])
  /\ personLock = Nobody /\ personLock' = c
  /\ UNCHANGED <<document, results, jobs, docLock, history>>

\* The analysis that uses an open case again holds its row.
HoldsCase(p, f) ==
  pc[p] \in {"reconciled", "applying"} /\ work[p].found[f] = "conflict" /\ case[f].open

\* The case is read again under its row lock: its fact may be a newer one.
CommitResolve(c) ==
  /\ pc[c] = "resolving"
  /\ \E f \in work[c].field :
       /\ \A p \in Procs : ~HoldsCase(p, f)
       /\ IF ~case[f].open THEN UNCHANGED <<case, applied, mismatch>>
          ELSE /\ case' = [case EXCEPT ![f].open = FALSE]
               /\ applied' = IF work[c].choice = "document_correct"
                             THEN applied \cup {<<case[f].run, f, "case">>} ELSE applied
               /\ IF work[c].choice = "wrong_document"
                  THEN docLock = Nobody /\ mismatch' = TRUE
                  ELSE UNCHANGED mismatch
  /\ Finish(c)
  /\ UNCHANGED <<file, docStatus, deleted, runs, review, jobs, bounds, history>>

-----------------------------------------------------------------------------
(* Requests that fail, and what waits for what.                            *)

\* A request ends with an exception, a disconnect or its process.
Abandon(c) ==
  /\ pc[c] \notin AnalysisPoints \cup {"idle", "pinning"}
  /\ orphaned' = (orphaned \/ pc[c] \in {"uploading", "compensating"})
  /\ halfDeleted' = (halfDeleted \/ pc[c] = "removed")
  /\ Finish(c)
  /\ UNCHANGED <<document, results, jobs, contested, overtaken>>

NeedsDocument(p) ==
  \/ pc[p] = "started"
  \/ pc[p] = "removed" /\ Live
  \/ pc[p] = "reprocessing" /\ work[p].status # "queued"
  \/ pc[p] = "decided" /\ work[p].status # "none"
  \/ pc[p] = "resolving" /\ work[p].choice = "wrong_document"

NeedsPerson(p) ==
  \/ pc[p] = "reconciled" /\ Having(p, {"apply"}) # {}
  \/ pc[p] = "flushed" /\ work[p].accept # {}

WaitsFor(p, q) ==
  \/ docLock = q /\ NeedsDocument(p)
  \/ personLock = q /\ NeedsPerson(p)
  \/ pc[p] = "resolving" /\ (\E f \in work[p].field : HoldsCase(q, f))

Deadlocked(p) ==
  \E S \in SUBSET Procs :
    p \in S /\ \A q \in S : \E r \in S \ {q} : WaitsFor(q, r)

\* Postgres ends a cycle of waiting transactions by failing one of them.
BreakDeadlock ==
  /\ \E p \in Procs : Deadlocked(p) /\ (RollBack(p) \/ (p \in Clients /\ Abandon(p)))
  /\ UNCHANGED bounds

-----------------------------------------------------------------------------
Analysis(p) ==
  StartAnalysis(p) \/ Digitize(p) \/ NoText(p) \/ Reconcile(p) \/ LockForFacts(p)
  \/ CommitAnalysis(p) \/ RecordFailure(p)

\* What goes on with a request that is open.
Request(c) ==
  CommitUpload(c) \/ Compensate(c) \/ PinInline(c) \/ MarkDeleted(c)
  \/ CommitReprocess(c) \/ Decide(c) \/ FlushReview(c) \/ AcceptFacts(c)
  \/ CommitReview(c) \/ CommitResolve(c)

Ask(c) ==
  Upload(c) \/ DeleteObjects(c) \/ EnqueueReprocess(c) \/ OpenReview(c) \/ ResolveCase(c)

\* Something fails of itself.
Fault ==
  /\ faults < FaultBound /\ faults' = faults + 1
  /\ \/ \E c \in Clients : FailUpload(c) \/ Abandon(c)
     \/ \E p \in Procs : RollBack(p) \/ Vanish(p)
  /\ UNCHANGED requests

\* A request or an attempt is refused: ids that are not pending, nothing to read.
Refuse ==
  /\ \/ \E c \in Clients : pc[c] = "reviewing" /\ Abandon(c)
     \/ \E p \in Procs : pc[p] = "started" /\ ~(file \/ runs > 0) /\ RollBack(p)
  /\ UNCHANGED bounds

Next ==
  \/ \E c \in Clients : Ask(c) \/ Request(c)
  \/ \E w \in Workers : Claim(w)
  \/ \E p \in Procs : Analysis(p)
  \/ Fault \/ Refuse \/ BreakDeadlock
  \/ \E j \in JobIds : Reclaim(j)

Spec == Init /\ [][Next]_vars

\* Workers poll, attempts and requests go on or fail, Postgres breaks deadlocks
\* and leases expire.
FairSpec ==
  /\ Spec
  /\ \A w \in Workers : WF_vars(Claim(w))
  /\ \A p \in Procs : WF_vars(Analysis(p))
  /\ \A c \in Clients : WF_vars(Request(c))
  /\ WF_vars(Refuse) /\ WF_vars(BreakDeadlock)
  /\ \A j \in JobIds : WF_vars(Reclaim(j))

-----------------------------------------------------------------------------
(* Properties.                                                             *)

\* A stored object has a row that names it, or an upload that will make one or
\* remove it again, unless an upload was cut off.
StoredHasRow ==
  file /\ docStatus = "none" =>
    orphaned \/ \E c \in Clients : pc[c] \in {"uploading", "compensating"}

\* A document the student can see has its file, unless a deletion is under way
\* or was cut off between the objects and the row.
LiveHasFile ==
  Live /\ ~file => halfDeleted \/ \E c \in Clients : pc[c] = "removed"

\* A fact the student rejected did not come into the vault by a review or an
\* analysis, unless two reviews decided about it at once.
RejectedNotApplied ==
  \A r \in Runs, f \in Fields :
    review[r][f] = "rejected" /\ <<r, f>> \notin contested =>
      \A via \in {"analysis", "review"} : <<r, f, via>> \notin applied

\* A document shown as processed leaves the student nothing to review, unless a
\* review's idea of the latest run was replaced before it committed.
ProcessedIsReviewed ==
  docStatus = "processed" /\ ~overtaken => Pending(runs) = {}

\* After its deletion a document gives the vault only facts of an analysis or a
\* review that had read it before, or of a case the student resolves.
DeletedGivesNothingNew ==
  [][deleted => \A fact \in applied' \ applied :
       \/ fact[3] = "case"
       \/ \E p \in Procs : work[p].saw /\ pc'[p] = "idle"]_vars

\* A job's row goes through the life of a queued job; a CV's own attempt may end
\* it without the attempts it had left.
Queued == JobIds \ inline

Life == INSTANCE JobLifecycle WITH
          Jobs <- JobIds,
          status <- [j \in JobIds |-> IF j \in inline THEN "absent" ELSE jstatus[j]],
          attempts <- [j \in JobIds |-> IF j \in inline THEN 0 ELSE jattempts[j]]

JobsKeepLifecycle == Life!Spec

\* Every analysis that was ordered ends, whatever fails, waits or deadlocks.
EveryAnalysisEnds ==
  \A j \in JobIds : jstatus[j] = "pending" ~> jstatus[j] \in {"completed", "failed"}
=============================================================================
