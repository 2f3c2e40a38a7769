------------------------ MODULE DocumentAnalysisProofs ------------------------
(***************************************************************************)
(* For any number of requests, workers, fields, jobs and analyses: an      *)
(* object has its row and a row its file, what the student rejected is not *)
(* applied, a document shown as processed is reviewed, a deleted document  *)
(* gives nothing new, and the jobs of the document live the life of        *)
(* JobLifecycle.                                                           *)
(***************************************************************************)
EXTENDS DocumentAnalysis, TLAPS

-----------------------------------------------------------------------------
(* The inductive invariant.                                                *)

Holding   == AnalysisPoints \cup {"pinning"}
PinnedAt  == AnalysisPoints \ {"rolledback"}
LockedAt  == {"digitized", "reconciled", "applying"}
DecidedAt == {"decided", "flushed", "confirming"}

\* From its first flush an analysis holds the document's row, so that there is
\* one such analysis, and room for its run.
RowHeld ==
  \A p \in Procs : pc[p] \in LockedAt => docLock = p /\ runs < RunBound

\* An attempt is of a job that exists; requests run inline jobs only.
AttemptOf(p) ==
  /\ work[p].job \in JobIds /\ jstatus[work[p].job] # "absent"
  /\ work[p].attempt \in 1..jattempts[work[p].job]
  /\ p \in Clients => work[p].job \in inline

Current(p) ==
  /\ jstatus[work[p].job] = "processing"
  /\ work[p].attempt = jattempts[work[p].job]

\* A pinned attempt is its job's current one, and no attempt is made by two.
Fencing ==
  /\ \A p \in Procs : pc[p] \in Holding => AttemptOf(p)
  /\ \A p \in Procs : pc[p] \in PinnedAt => Current(p)
  /\ \A p, q \in Procs :
       (/\ pc[p] \in Holding /\ pc[q] \in Holding
        /\ work[p].job = work[q].job /\ work[p].attempt = work[q].attempt) => p = q

Untried == \A j \in JobIds : jstatus[j] = "absent" => jattempts[j] = 0

\* Cases and reviews are about runs that were completed.
RunsKnown ==
  /\ \A f \in Fields : case[f].open => case[f].run \in 1..runs
  /\ \A p \in Procs : pc[p] = "reviewing" => work[p].run <= runs
  /\ \A p \in Procs : pc[p] \in DecidedAt =>
       /\ work[p].run <= runs
       /\ work[p].accept \cup work[p].reject # {} => work[p].run \in 1..runs

\* One upload at a time, as long as there is no document.
OneUpload ==
  \A p, q \in Procs :
    pc[p] \in {"uploading", "compensating"} /\ pc[q] \in {"uploading", "compensating"} =>
      p = q /\ file /\ docStatus = "none"

\* Before there is a document, there is nothing but its upload.
NothingBefore ==
  docStatus = "none" =>
    /\ \A p \in Procs : pc[p] \in {"idle", "uploading", "compensating"}
    /\ \A j \in JobIds : jstatus[j] = "absent"
    /\ \A f \in Fields : ~case[f].open

\* Only requests upload, delete and review.
ClientsOnly ==
  \A p \in Procs : pc[p] \notin AnalysisPoints \cup {"idle"} => p \in Clients

\* What applies facts has seen the document before it was deleted.
Seen == \A p \in Procs : pc[p] \in {"started"} \cup LockedAt \cup ReviewPoints => work[p].saw

Decides(p, r, f) ==
  pc[p] \in DecidedAt /\ work[p].run = r /\ f \in work[p].accept \cup work[p].reject

\* What two reviews do not contest is decided by one of them, while it is pending,
\* and once accepted it stays so.
Judged ==
  /\ \A p, q \in Procs, r \in Runs, f \in Fields :
       Decides(p, r, f) /\ Decides(q, r, f) /\ <<r, f>> \notin contested => p = q
  /\ \A p \in Procs, r \in Runs, f \in Fields :
       Decides(p, r, f) /\ <<r, f>> \notin contested => review[r][f] = "pending"
  /\ \A r \in Runs, f \in Fields, via \in {"analysis", "review"} :
       <<r, f, via>> \in applied =>
         r <= runs /\ (<<r, f>> \notin contested => review[r][f] = "accepted")

IInv ==
  /\ TypeOK /\ ClientsOnly /\ RowHeld /\ Fencing /\ Untried /\ RunsKnown
  /\ OneUpload /\ NothingBefore /\ Seen /\ Judged
  /\ StoredHasRow /\ LiveHasFile

-----------------------------------------------------------------------------
(* Types.                                                                  *)

USE DEF Goto, Note, document, results, jobs, locks, history, bounds

\* What a process that is through leaves, and what it may note.
LEMMA FinishType ==
  ASSUME TypeOK, NEW p \in Procs, Finish(p)
  PROVE  /\ pc' \in [Procs -> Points] /\ work' \in [Procs -> Work]
         /\ docLock' \in Procs \cup {Nobody} /\ personLock' \in Procs \cup {Nobody}
<1>1. Rested \in Work
  BY Bounds DEF Rested, Work, DocStatuses, Decisions
<1> QED
  BY <1>1 DEF TypeOK, Finish, Release, Points

LEMMA RestedType ==
  /\ Rested \in Work
  /\ \A d \in DocStatuses : [Rested EXCEPT !.status = d] \in Work
  /\ \A j \in JobIds, n \in 0..MaxAttempts : [Rested EXCEPT !.job = j, !.attempt = n] \in Work
  /\ \A f \in Fields, c \in Resolutions : [Rested EXCEPT !.field = {f}, !.choice = c] \in Work
  /\ \A r \in 0..RunBound, d \in DocStatuses, m, s \in BOOLEAN :
       [Rested EXCEPT !.run = r, !.status = d, !.mismatch = m, !.saw = s] \in Work
<1>1. Rested \in Work
  BY Bounds DEF Rested, Work, DocStatuses, Decisions
<1> QED
  BY <1>1 DEF Rested, Work

LEMMA NotedType ==
  ASSUME NEW w \in Work
  PROVE  /\ \A s \in BOOLEAN : [w EXCEPT !.saw = s] \in Work
         /\ \A m \in BOOLEAN, g \in [Fields -> Decisions] :
              [w EXCEPT !.mismatch = m, !.found = g] \in Work
         /\ \A a, r \in SUBSET Fields, d \in DocStatuses :
              [w EXCEPT !.accept = a, !.reject = r, !.status = d] \in Work
BY DEF Work

LEMMA NoteType ==
  ASSUME TypeOK, NEW p \in Procs, NEW w \in Work, Note(p, w)
  PROVE  work' \in [Procs -> Work]
BY DEF TypeOK

LEMMA BeginType ==
  ASSUME TypeOK, NEW c \in Clients, NEW q \in Points, NEW w \in Work, Begin(c, q, w)
  PROVE  /\ pc' \in [Procs -> Points] /\ work' \in [Procs -> Work]
         /\ requests' \in 0..RequestBound /\ faults' \in 0..FaultBound
<1>1. c \in Procs /\ RequestBound \in Nat
  BY Bounds DEF Procs
<1>2. work' \in [Procs -> Work]
  BY <1>1, NoteType DEF Begin
<1> QED
  BY <1>1, <1>2 DEF TypeOK, Begin

LEMMA AskType == ASSUME TypeOK, NEW c \in Clients, Ask(c) PROVE TypeOK'
<1>0. c \in Procs /\ Rested \in Work
  BY RestedType DEF Procs
<1> DEFINE Bound == /\ pc' \in [Procs -> Points] /\ work' \in [Procs -> Work]
                    /\ requests' \in 0..RequestBound /\ faults' \in 0..FaultBound
<1>1. CASE Upload(c)
  <2>1. Bound
    BY <1>0, <1>1, BeginType DEF Upload, Points
  <2> QED
    BY <1>0, <1>1, <2>1 DEF TypeOK, Upload
<1>2. CASE DeleteObjects(c)
  <2>1. Bound
    BY <1>0, <1>2, BeginType DEF DeleteObjects, Points
  <2> QED
    BY <1>0, <1>2, <2>1 DEF TypeOK, DeleteObjects
<1>3. CASE EnqueueReprocess(c)
  <2>1. [Rested EXCEPT !.status = docStatus] \in Work
    BY RestedType DEF TypeOK
  <2>2. Bound
    BY <1>3, <2>1, BeginType DEF EnqueueReprocess, Points
  <2> QED
    BY <1>0, <1>3, <2>2 DEF TypeOK, EnqueueReprocess
<1>4. CASE OpenReview(c)
  <2>1. Live \in BOOLEAN
    BY DEF Live, TypeOK
  <2>2. [Rested EXCEPT !.run = runs, !.status = docStatus, !.mismatch = mismatch,
                       !.saw = Live] \in Work
    BY <2>1, RestedType DEF TypeOK
  <2>3. Bound
    BY <1>4, <2>2, BeginType DEF OpenReview, Points, ReviewPoints
  <2> QED
    BY <1>0, <1>4, <2>3 DEF TypeOK, OpenReview
<1>5. CASE ResolveCase(c)
  <2>1. PICK f \in Fields, choice \in Resolutions :
          Begin(c, "resolving", [Rested EXCEPT !.field = {f}, !.choice = choice])
    BY <1>5 DEF ResolveCase
  <2>2. [Rested EXCEPT !.field = {f}, !.choice = choice] \in Work
    BY RestedType
  <2>3. Bound
    BY <2>1, <2>2, BeginType DEF Points
  <2> QED
    BY <1>0, <1>5, <2>3 DEF TypeOK, ResolveCase
<1> QED
  BY <1>1, <1>2, <1>3, <1>4, <1>5 DEF Ask

LEMMA UploadType ==
  ASSUME TypeOK, NEW c \in Clients, CommitUpload(c) \/ Compensate(c) \/ PinInline(c)
  PROVE  TypeOK'
<1>0. c \in Procs /\ 1 \in 0..MaxAttempts
  BY Bounds DEF Procs
<1>1. CASE CommitUpload(c)
  <2>1. PICK j \in JobIds :
          \/ /\ jstatus' = [jstatus EXCEPT ![j] = "pending"]
             /\ Finish(c)
             /\ UNCHANGED <<jattempts, inline>>
          \/ /\ jstatus' = [jstatus EXCEPT ![j] = "processing"]
             /\ jattempts' = [jattempts EXCEPT ![j] = 1]
             /\ inline' = inline \cup {j}
             /\ Goto(c, "pinning") /\ Release(c)
             /\ Note(c, [Rested EXCEPT !.job = j, !.attempt = 1])
    BY <1>1 DEF CommitUpload
  <2>2. CASE Finish(c) /\ UNCHANGED <<jattempts, inline>>
    BY <1>0, <1>1, <2>1, <2>2, FinishType DEF TypeOK, CommitUpload, DocStatuses
  <2>3. CASE Goto(c, "pinning")
    <3>1. pc'[c] = "pinning"
      BY <1>0, <2>3 DEF TypeOK
    <3>2. /\ jstatus' = [jstatus EXCEPT ![j] = "processing"]
          /\ jattempts' = [jattempts EXCEPT ![j] = 1]
          /\ inline' = inline \cup {j} /\ Release(c)
          /\ Note(c, [Rested EXCEPT !.job = j, !.attempt = 1])
      BY <1>0, <2>1, <3>1 DEF Finish, TypeOK
    <3>3. work' \in [Procs -> Work]
      <4>1. [Rested EXCEPT !.job = j, !.attempt = 1] \in Work
        BY <1>0, RestedType
      <4> QED
        BY <1>0, <3>2, <4>1, NoteType
    <3> QED
      BY <1>0, <1>1, <2>3, <3>2, <3>3 DEF TypeOK, CommitUpload, DocStatuses, Points, Release
  <2> QED
    BY <2>1, <2>2, <2>3
<1>2. CASE Compensate(c)
  BY <1>0, <1>2, FinishType DEF TypeOK, Compensate
<1>3. CASE PinInline(c)
  BY <1>0, <1>3, RestedType DEF TypeOK, PinInline, Points, AnalysisPoints
<1> QED
  BY <1>1, <1>2, <1>3

LEMMA ReprocessType ==
  ASSUME TypeOK, NEW c \in Clients, MarkDeleted(c) \/ CommitReprocess(c) PROVE TypeOK'
<1>0. c \in Procs
  BY DEF Procs
<1>1. CASE MarkDeleted(c)
  BY <1>0, <1>1, FinishType DEF TypeOK, MarkDeleted, DocStatuses
<1>2. CASE CommitReprocess(c)
  BY <1>0, <1>2, FinishType DEF TypeOK, CommitReprocess, DocStatuses
<1> QED
  BY <1>1, <1>2

LEMMA ReviewType ==
  ASSUME TypeOK, RunsKnown, NEW c \in Clients,
         Decide(c) \/ FlushReview(c) \/ AcceptFacts(c) \/ CommitReview(c) \/ CommitResolve(c)
  PROVE  TypeOK'
<1>0. c \in Procs /\ work[c] \in Work /\ RunBound \in Nat /\ runs \in 0..RunBound
  BY Bounds DEF Procs, TypeOK
<1>1. CASE Decide(c)
  <2>1. Pending(work[c].run) \subseteq Fields /\ work[c].status \in DocStatuses
    BY <1>0 DEF Pending, Work
  <2>2. PICK accept, reject \in SUBSET Pending(work[c].run) :
          /\ \E s \in {"none", "awaiting_review", "processed"} :
               Note(c, [work[c] EXCEPT !.accept = accept, !.reject = reject, !.status = s])
          /\ contested' \subseteq contested \cup {<<work[c].run, f>> : f \in accept \cup reject}
    <3>1. PICK accept, reject \in SUBSET Pending(work[c].run) :
            LET left   == Pending(work[c].run) \ (accept \cup reject)
                status == IF left # {} THEN "awaiting_review" ELSE "processed"
            IN /\ Note(c, [work[c] EXCEPT
                        !.accept = accept, !.reject = reject,
                        !.status = IF status = @ THEN "none" ELSE status])
               /\ contested' = contested \cup
                    {<<work[c].run, f>> : f \in {g \in accept \cup reject :
                       \E d \in Reviewing \ {c} :
                         work[d].run = work[c].run /\ g \in work[d].accept \cup work[d].reject}}
      BY <1>1 DEF Decide
    <3> DEFINE left   == Pending(work[c].run) \ (accept \cup reject)
               status == IF left # {} THEN "awaiting_review" ELSE "processed"
               s      == IF status = work[c].status THEN "none" ELSE status
    <3>2. Note(c, [work[c] EXCEPT !.accept = accept, !.reject = reject, !.status = s])
      BY <3>1
    <3>3. s \in {"none", "awaiting_review", "processed"}
      OBVIOUS
    <3> HIDE DEF s
    <3>4. \E t \in {"none", "awaiting_review", "processed"} :
            Note(c, [work[c] EXCEPT !.accept = accept, !.reject = reject, !.status = t])
      BY <3>2, <3>3
    <3>5. contested' \subseteq contested \cup {<<work[c].run, f>> : f \in accept \cup reject}
      BY <3>1
    <3> QED
      BY <3>1, <3>4, <3>5
  <2>3. work' \in [Procs -> Work]
    <3>1. PICK s \in {"none", "awaiting_review", "processed"} :
            Note(c, [work[c] EXCEPT !.accept = accept, !.reject = reject, !.status = s])
      BY <2>2
    <3>2. s \in DocStatuses /\ accept \in SUBSET Fields /\ reject \in SUBSET Fields
      BY <2>1 DEF DocStatuses
    <3>3. [work[c] EXCEPT !.accept = accept, !.reject = reject, !.status = s] \in Work
      BY <1>0, <3>2, NotedType
    <3> QED
      BY <1>0, <3>1, <3>3, NoteType
  <2>4. accept \cup reject # {} => work[c].run \in Runs
    BY <2>2 DEF Pending
  <2>5. contested' \subseteq Runs \X Fields
    BY <2>1, <2>2, <2>4 DEF TypeOK
  <2> QED
    BY <1>0, <1>1, <2>3, <2>5 DEF TypeOK, Decide, Points, ReviewPoints
<1>2. CASE FlushReview(c) \/ AcceptFacts(c)
  BY <1>0, <1>2 DEF TypeOK, FlushReview, AcceptFacts, Points, ReviewPoints
<1>3. CASE CommitReview(c)
  <2>1. work[c].accept # {} => work[c].run \in Runs
    BY <1>0, <1>3 DEF CommitReview, RunsKnown, DecidedAt, Runs
  <2>2. review' \in [Runs -> [Fields -> Reviews]]
    BY <1>3 DEF CommitReview, TypeOK, Reviews
  <2>3. applied' \subseteq Runs \X Fields \X {"analysis", "review", "case"}
    BY <1>0, <1>3, <2>1 DEF CommitReview, TypeOK, Work
  <2>4. case' \in [Fields -> [open : BOOLEAN, run : 0..RunBound]]
    BY <1>3 DEF CommitReview, TypeOK
  <2>5. docStatus' \in DocStatuses
    BY <1>0, <1>3 DEF CommitReview, TypeOK, Work
  <2>6. overtaken' \in BOOLEAN
    BY <1>3 DEF CommitReview, TypeOK
  <2> QED
    BY <1>0, <1>3, <2>2, <2>3, <2>4, <2>5, <2>6, FinishType DEF CommitReview, TypeOK
<1>4. CASE CommitResolve(c)
  <2>1. PICK f \in work[c].field :
          IF ~case[f].open THEN UNCHANGED <<case, applied, mismatch>>
          ELSE /\ case' = [case EXCEPT ![f].open = FALSE]
               /\ applied' \in {applied, applied \cup {<<case[f].run, f, "case">>}}
               /\ mismatch' \in {mismatch, TRUE}
    BY <1>4 DEF CommitResolve
  <2>2. f \in Fields
    BY <1>0, <2>1 DEF Work
  <2>3. case' \in [Fields -> [open : BOOLEAN, run : 0..RunBound]]
    <3>1. [case[f] EXCEPT !.open = FALSE] \in [open : BOOLEAN, run : 0..RunBound]
      BY <2>2 DEF TypeOK
    <3> QED
      BY <2>1, <2>2, <3>1 DEF TypeOK
  <2>4. case[f].open => case[f].run \in Runs
    BY <1>0, <2>2 DEF RunsKnown, Runs
  <2>5. applied' \subseteq Runs \X Fields \X {"analysis", "review", "case"} /\ mismatch' \in BOOLEAN
    <3>1. CASE ~case[f].open
      BY <2>1, <3>1 DEF TypeOK
    <3>2. CASE case[f].open
      <4> DEFINE fact == <<case[f].run, f, "case">>
      <4>1. fact \in Runs \X Fields \X {"analysis", "review", "case"}
        BY <2>2, <2>4, <3>2
      <4>2. applied' \subseteq applied \cup {fact} /\ mismatch' \in {mismatch, TRUE}
        BY <2>1, <3>2
      <4> HIDE DEF fact
      <4>3. /\ applied \subseteq Runs \X Fields \X {"analysis", "review", "case"}
            /\ mismatch \in BOOLEAN
        BY DEF TypeOK
      <4>4. applied' \subseteq Runs \X Fields \X {"analysis", "review", "case"}
        BY <4>1, <4>2, <4>3
      <4> QED
        BY <4>2, <4>3, <4>4
    <3> QED
      BY <3>1, <3>2
  <2> QED
    BY <1>0, <1>4, <2>3, <2>5, FinishType DEF CommitResolve, TypeOK
<1> QED
  BY <1>1, <1>2, <1>3, <1>4

LEMMA ClaimType == ASSUME TypeOK, NEW w \in Workers, Claim(w) PROVE TypeOK'
<1>1. w \in Procs /\ MaxAttempts \in Nat
  BY Bounds DEF Procs
<1>2. PICK j \in JobIds :
        /\ jattempts[j] < MaxAttempts
        /\ jstatus' = [jstatus EXCEPT ![j] = "processing"]
        /\ jattempts' = [jattempts EXCEPT ![j] = @ + 1]
        /\ Note(w, [Rested EXCEPT !.job = j, !.attempt = jattempts'[j]])
  BY DEF Claim
<1>3. jattempts[j] + 1 \in 0..MaxAttempts
  BY <1>1, <1>2 DEF TypeOK
<1>4. jattempts' \in [JobIds -> 0..MaxAttempts] /\ jattempts'[j] \in 0..MaxAttempts
  BY <1>2, <1>3 DEF TypeOK
<1>5. work' \in [Procs -> Work]
  BY <1>1, <1>2, <1>4, RestedType DEF TypeOK
<1> QED
  BY <1>1, <1>2, <1>4, <1>5 DEF Claim, TypeOK, Points, AnalysisPoints

LEMMA AnalysisType ==
  ASSUME TypeOK, RowHeld, Fencing, NEW p \in Procs, Analysis(p) PROVE TypeOK'
<1>0. /\ work[p] \in Work /\ RunBound \in Nat /\ runs \in 0..RunBound
      /\ pc[p] \in LockedAt => runs + 1 \in Runs /\ runs + 1 \in 0..RunBound
      /\ pc[p] \in AnalysisPoints => work[p].job \in JobIds
  BY Bounds DEF TypeOK, RowHeld, Fencing, AttemptOf, Runs, Holding
<1>1. CASE StartAnalysis(p)
  <2>1. Live \in BOOLEAN
    BY DEF Live
  <2> QED
    BY <1>0, <1>1, <2>1, FinishType, NotedType
    DEF TypeOK, StartAnalysis, Points, AnalysisPoints
<1>2. CASE Digitize(p) \/ LockForFacts(p)
  BY <1>2 DEF TypeOK, Digitize, LockForFacts, Points, AnalysisPoints
<1>3. CASE NoText(p)
  BY <1>0, <1>3, FinishType DEF TypeOK, NoText, Completes, LockedAt, DocStatuses
<1>4. CASE Reconcile(p)
  <2>1. work' \in [Procs -> Work]
    <3>1. PICK wrong \in BOOLEAN, found \in [Fields -> Decisions] :
            Note(p, [work[p] EXCEPT !.mismatch = wrong, !.found = found])
      BY <1>4 DEF Reconcile
    <3>2. [work[p] EXCEPT !.mismatch = wrong, !.found = found] \in Work
      BY <1>0, NotedType
    <3> QED
      BY <3>1, <3>2, NoteType
  <2> QED
    BY <1>4, <2>1 DEF TypeOK, Reconcile, Points, AnalysisPoints
<1>5. CASE CommitAnalysis(p)
  <2>0. pc[p] \in LockedAt /\ work[p].found \in [Fields -> Decisions]
    BY <1>0, <1>5 DEF CommitAnalysis, LockedAt, Work
  <2>1. [f \in Fields |-> Reviewed(work[p].found[f])] \in [Fields -> Reviews]
    BY DEF Reviewed, Reviews
  <2>2. review' \in [Runs -> [Fields -> Reviews]]
    BY <1>5, <2>1 DEF CommitAnalysis, TypeOK
  <2>3. applied' \subseteq Runs \X Fields \X {"analysis", "review", "case"}
    BY <1>0, <1>5, <2>0 DEF CommitAnalysis, TypeOK, Having
  <2>4. case' \in [Fields -> [open : BOOLEAN, run : 0..RunBound]]
    BY <1>0, <1>5, <2>0 DEF CommitAnalysis, OpenCases, TypeOK
  <2>5. /\ docStatus' \in DocStatuses /\ mismatch' \in BOOLEAN /\ overtaken' \in BOOLEAN
        /\ runs' \in 0..RunBound
        /\ jstatus' \in [JobIds -> {"absent", "pending", "processing", "completed", "failed"}]
    BY <1>0, <1>5, <2>0 DEF CommitAnalysis, AfterAnalysis, Completes, TypeOK, DocStatuses, Work
  <2> QED
    BY <1>5, <2>2, <2>3, <2>4, <2>5, FinishType DEF CommitAnalysis, Completes, TypeOK
<1>6. CASE RecordFailure(p)
  BY <1>6, FinishType DEF TypeOK, RecordFailure, AfterLostAttempt
<1> QED
  BY <1>1, <1>2, <1>3, <1>4, <1>5, <1>6 DEF Analysis

\* The ends that are not a commit.
LEMMA EndType ==
  ASSUME TypeOK, NEW p \in Procs, RollBack(p) \/ Vanish(p) \/ Abandon(p) \/ FailUpload(p)
  PROVE  requests' \in 0..RequestBound /\ faults' \in 0..FaultBound => TypeOK'
<1>1. CASE RollBack(p) \/ FailUpload(p)
  BY <1>1 DEF TypeOK, RollBack, FailUpload, Release, Points, AnalysisPoints
<1>2. CASE Vanish(p)
  BY <1>2, FinishType DEF TypeOK, Vanish
<1>3. CASE Abandon(p)
  BY <1>3, FinishType DEF TypeOK, Abandon
<1> QED
  BY <1>1, <1>2, <1>3

\* Everything else that ends a transaction: see Fault, Refuse and BreakDeadlock.
Ends(p) == RollBack(p) \/ Vanish(p) \/ ((Abandon(p) \/ FailUpload(p)) /\ p \in Clients)

LEMMA OtherSteps ==
  ASSUME Next, TypeOK
  PROVE  \/ \E c \in Clients : Ask(c) \/ Request(c)
         \/ \E w \in Workers : Claim(w)
         \/ \E p \in Procs : Analysis(p)
         \/ \E j \in JobIds : Reclaim(j)
         \/ /\ \E p \in Procs : Ends(p)
            /\ requests' \in 0..RequestBound /\ faults' \in 0..FaultBound
<1>1. CASE Fault
  BY <1>1, Bounds DEF Fault, Ends, TypeOK, Procs
<1>2. CASE Refuse
  BY <1>2 DEF Refuse, Ends, TypeOK, Procs
<1>3. CASE BreakDeadlock
  BY <1>3 DEF BreakDeadlock, Ends, TypeOK, Procs
<1> QED
  BY <1>1, <1>2, <1>3 DEF Next

LEMMA StepType ==
  ASSUME TypeOK, RowHeld, Fencing, RunsKnown, [Next]_vars PROVE TypeOK'
<1>1. CASE UNCHANGED vars
  BY <1>1 DEF TypeOK, vars
<1>2. ASSUME NEW j \in JobIds, Reclaim(j) PROVE TypeOK'
  BY <1>2 DEF TypeOK, Reclaim, AfterLostAttempt
<1>3. ASSUME NEW c \in Clients, Request(c) PROVE TypeOK'
  BY <1>3, UploadType, ReprocessType, ReviewType DEF Request
<1>4. ASSUME NEW p \in Procs, Ends(p),
             requests' \in 0..RequestBound, faults' \in 0..FaultBound
      PROVE  TypeOK'
  BY <1>4, EndType DEF Ends
<1> QED
  BY <1>1, <1>2, <1>3, <1>4, OtherSteps, AskType, ClaimType, AnalysisType

-----------------------------------------------------------------------------
(* Who moves.                                                              *)

\* A step of p leaves the others where they are.
Alone(p) == \A q \in Procs \ {p} : pc'[q] = pc[q] /\ work'[q] = work[q]

LEMMA ClientsAndWorkers == Clients \subseteq Procs /\ Workers \subseteq Procs
BY DEF Procs

LEMMA FinishMoves ==
  ASSUME TypeOK, NEW p \in Procs, Finish(p)
  PROVE  /\ Alone(p) /\ pc'[p] = "idle" /\ work'[p] = Rested
         /\ docLock = p \/ docLock' = docLock
BY DEF TypeOK, Finish, Release, Alone

LEMMA AskMoves ==
  ASSUME TypeOK, NEW c \in Clients, Ask(c)
  PROVE  /\ Alone(c) /\ pc[c] = "idle"
         /\ pc'[c] \in {"uploading", "removed", "reprocessing", "reviewing", "resolving"}
         /\ UNCHANGED <<docLock, jstatus, jattempts, inline, runs, review, case, applied,
                        docStatus, deleted, contested, orphaned, halfDeleted>>
<1> USE ClientsAndWorkers DEF Begin, TypeOK, Alone
<1>1. CASE Upload(c)
  BY <1>1 DEF Upload
<1>2. CASE DeleteObjects(c)
  BY <1>2 DEF DeleteObjects
<1>3. CASE EnqueueReprocess(c)
  BY <1>3 DEF EnqueueReprocess
<1>4. CASE OpenReview(c)
  BY <1>4 DEF OpenReview
<1>5. CASE ResolveCase(c)
  BY <1>5 DEF ResolveCase
<1> QED
  BY <1>1, <1>2, <1>3, <1>4, <1>5 DEF Ask

LEMMA RequestMoves ==
  ASSUME TypeOK, NEW c \in Clients, Request(c)
  PROVE  /\ Alone(c) /\ runs' = runs
         /\ docLock \in {c, Nobody} \/ docLock' = docLock
         /\ pc'[c] \in {"idle", "pinning", "pinned", "decided", "flushed", "confirming"}
<1>0. c \in Procs
  BY DEF Procs
<1> USE <1>0, FinishMoves DEF TypeOK, Alone
<1>1. CASE CommitUpload(c)
  BY <1>1 DEF CommitUpload, Release
<1>2. CASE PinInline(c)
  BY <1>2 DEF PinInline
<1>3. CASE Decide(c)
  BY <1>3 DEF Decide
<1>4. CASE FlushReview(c) \/ AcceptFacts(c)
  BY <1>4 DEF FlushReview, AcceptFacts
<1>5. CASE Compensate(c) \/ MarkDeleted(c) \/ CommitReprocess(c) \/ CommitReview(c) \/ CommitResolve(c)
  BY <1>5 DEF Compensate, MarkDeleted, CommitReprocess, CommitReview, CommitResolve
<1> QED
  BY <1>1, <1>2, <1>3, <1>4, <1>5 DEF Request

LEMMA AnalysisMoves ==
  ASSUME TypeOK, NEW p \in Procs, Analysis(p)
  PROVE  /\ Alone(p)
         /\ pc[p] \in AnalysisPoints /\ pc'[p] \in AnalysisPoints \cup {"idle"}
         /\ docLock \in {p, Nobody} \/ docLock' = docLock
<1> USE FinishMoves DEF TypeOK, Alone, AnalysisPoints
<1>1. CASE StartAnalysis(p)
  BY <1>1 DEF StartAnalysis
<1>2. CASE Digitize(p) \/ Reconcile(p) \/ LockForFacts(p)
  BY <1>2 DEF Digitize, Reconcile, LockForFacts
<1>3. CASE NoText(p) \/ RecordFailure(p)
  BY <1>3 DEF NoText, RecordFailure
<1>4. CASE CommitAnalysis(p)
  BY <1>4 DEF CommitAnalysis
<1> QED
  BY <1>1, <1>2, <1>3, <1>4 DEF Analysis

LEMMA EndMoves ==
  ASSUME TypeOK, NEW p \in Procs, Ends(p)
  PROVE  /\ Alone(p) /\ work'[p] \in {work[p], Rested}
         /\ docLock \in {p, Nobody} \/ docLock' = docLock
         /\ UNCHANGED <<document, results, jobs, contested>>
         /\ \/ pc'[p] = "idle"
            \/ pc[p] \in PinnedAt /\ pc'[p] = "rolledback"
            \/ pc[p] = "uploading" /\ pc'[p] = "compensating"
<1> USE FinishMoves DEF TypeOK, Alone, AnalysisPoints
<1>1. CASE RollBack(p)
  BY <1>1 DEF RollBack, Release, PinnedAt
<1>2. CASE Vanish(p)
  BY <1>2 DEF Vanish
<1>3. CASE Abandon(p)
  BY <1>3 DEF Abandon
<1>4. CASE FailUpload(p)
  BY <1>4 DEF FailUpload, Release
<1> QED
  BY <1>1, <1>2, <1>3, <1>4 DEF Ends

LEMMA ClaimMoves ==
  ASSUME TypeOK, NEW w \in Workers, Claim(w)
  PROVE  /\ Alone(w) /\ pc[w] = "idle" /\ pc'[w] = "pinned"
         /\ UNCHANGED <<document, results, locks, history>>
BY ClientsAndWorkers DEF TypeOK, Claim, Alone

LEMMA DecideKeeps ==
  ASSUME TypeOK, NEW c \in Procs, Decide(c)
  PROVE  /\ work'[c].run = work[c].run /\ work'[c].saw = work[c].saw
         /\ work'[c].accept \cup work'[c].reject \subseteq Pending(work[c].run)
         /\ contested' = contested \cup
              {<<work[c].run, f>> : f \in {g \in work'[c].accept \cup work'[c].reject :
                 \E d \in Reviewing \ {c} :
                   work[d].run = work[c].run /\ g \in work[d].accept \cup work[d].reject}}
<1>0. work[c] \in Work
  BY DEF TypeOK
<1>1. PICK accept \in SUBSET Pending(work[c].run), reject \in SUBSET Pending(work[c].run),
           status \in DocStatuses :
        /\ work' = [work EXCEPT ![c] = [work[c] EXCEPT !.accept = accept, !.reject = reject,
                                                       !.status = status]]
        /\ contested' = contested \cup
              {<<work[c].run, f>> : f \in {g \in accept \cup reject :
                 \E d \in Reviewing \ {c} :
                   work[d].run = work[c].run /\ g \in work[d].accept \cup work[d].reject}}
  BY DEF Decide, DocStatuses
<1>2. work'[c] = [work[c] EXCEPT !.accept = accept, !.reject = reject, !.status = status]
  BY <1>1 DEF TypeOK
<1>3. /\ work'[c].run = work[c].run /\ work'[c].saw = work[c].saw
      /\ work'[c].accept = accept /\ work'[c].reject = reject
  BY <1>0, <1>2 DEF Work
<1> QED
  BY <1>1, <1>3

LEMMA StepClientsOnly == ASSUME IInv, [Next]_vars PROVE ClientsOnly'
<1>0. TypeOK /\ ClientsOnly
  BY DEF IInv
<1>1. CASE UNCHANGED vars
  BY <1>0, <1>1 DEF ClientsOnly, vars
<1>2. ASSUME NEW c \in Clients, Ask(c) \/ Request(c) PROVE ClientsOnly'
  BY <1>0, <1>2, AskMoves, RequestMoves DEF ClientsOnly, Alone
<1>3. ASSUME NEW w \in Workers, Claim(w) PROVE ClientsOnly'
  BY <1>0, <1>3, ClaimMoves DEF ClientsOnly, Alone, AnalysisPoints
<1>4. ASSUME NEW p \in Procs, Analysis(p) PROVE ClientsOnly'
  BY <1>0, <1>4, AnalysisMoves DEF ClientsOnly, Alone
<1>5. ASSUME NEW p \in Procs, Ends(p) PROVE ClientsOnly'
  BY <1>0, <1>5, EndMoves DEF ClientsOnly, Alone, AnalysisPoints
<1>6. ASSUME NEW j \in JobIds, Reclaim(j) PROVE ClientsOnly'
  BY <1>0, <1>6 DEF ClientsOnly, Reclaim
<1> QED
  BY <1>0, <1>1, <1>2, <1>3, <1>4, <1>5, <1>6, OtherSteps

-----------------------------------------------------------------------------
(* The document's row.                                                     *)

LEMMA RowKept ==
  ASSUME RowHeld, NEW p \in Procs, Alone(p), pc'[p] \notin LockedAt,
         docLock \in {p, Nobody} \/ docLock' = docLock, runs' = runs \/ docLock = p
  PROVE  RowHeld'
BY Distinct DEF RowHeld, Alone, Procs

LEMMA StepRowHeld == ASSUME IInv, [Next]_vars PROVE RowHeld'
<1>0. TypeOK /\ RowHeld
  BY DEF IInv
<1>1. CASE UNCHANGED vars
  BY <1>0, <1>1 DEF RowHeld, vars
<1>2. ASSUME NEW c \in Clients, Ask(c) \/ Request(c) PROVE RowHeld'
  BY <1>0, <1>2, AskMoves, RequestMoves, RowKept, ClientsAndWorkers DEF LockedAt
<1>3. ASSUME NEW w \in Workers, Claim(w) PROVE RowHeld'
  BY <1>0, <1>3, ClaimMoves, RowKept, ClientsAndWorkers DEF LockedAt
<1>4. ASSUME NEW p \in Procs, Analysis(p) PROVE RowHeld'
  <2>0. Alone(p) /\ (docLock \in {p, Nobody} \/ docLock' = docLock)
    BY <1>0, <1>4, AnalysisMoves
  <2>1. CASE StartAnalysis(p) \/ RecordFailure(p)
    <3>1. pc'[p] \notin LockedAt /\ runs' = runs
      BY <1>0, <2>1, FinishMoves DEF StartAnalysis, RecordFailure, LockedAt, TypeOK
    <3> QED
      BY <1>0, <2>0, <3>1, RowKept
  <2>2. CASE NoText(p) \/ CommitAnalysis(p)
    <3>1. pc'[p] \notin LockedAt /\ pc[p] \in LockedAt
      BY <1>0, <2>2, FinishMoves DEF NoText, CommitAnalysis, LockedAt
    <3>2. docLock = p
      BY <1>0, <3>1 DEF RowHeld
    <3> QED
      BY <1>0, <2>0, <3>1, <3>2, RowKept
  <2>3. CASE Digitize(p)
    BY <1>0, <2>0, <2>3, Distinct DEF Digitize, RowHeld, Alone, Procs
  <2>4. CASE Reconcile(p) \/ LockForFacts(p)
    BY <1>0, <2>0, <2>4 DEF Reconcile, LockForFacts, RowHeld, Alone, LockedAt
  <2> QED
    BY <1>4, <2>1, <2>2, <2>3, <2>4 DEF Analysis
<1>5. ASSUME NEW p \in Procs, Ends(p) PROVE RowHeld'
  BY <1>0, <1>5, EndMoves, RowKept DEF LockedAt
<1>6. ASSUME NEW j \in JobIds, Reclaim(j) PROVE RowHeld'
  BY <1>0, <1>6 DEF RowHeld, Reclaim
<1> QED
  BY <1>0, <1>1, <1>2, <1>3, <1>4, <1>5, <1>6, OtherSteps

-----------------------------------------------------------------------------
(* Jobs and attempts.                                                      *)

\* A step that gives no attempt, and changes the status of no job that another
\* process has pinned.
LEMMA FencingKept ==
  ASSUME Fencing, NEW p \in Procs, Alone(p), jattempts' = jattempts, inline \subseteq inline',
         \/ pc'[p] \notin Holding
         \/ /\ pc[p] \in Holding
            /\ pc'[p] \in PinnedAt => pc[p] \in PinnedAt
            /\ work'[p].job = work[p].job /\ work'[p].attempt = work[p].attempt,
         \A j \in JobIds : jstatus[j] # "absent" => jstatus'[j] # "absent",
         \A q \in Procs : pc'[q] \in PinnedAt => jstatus'[work[q].job] = jstatus[work[q].job]
  PROVE  Fencing'
<1>0. \A q \in Procs : pc'[q] \in Holding =>
        /\ pc[q] \in Holding /\ work'[q].job = work[q].job /\ work'[q].attempt = work[q].attempt
        /\ pc'[q] \in PinnedAt => pc[q] \in PinnedAt
  <2>1. ASSUME NEW q \in Procs \ {p}
        PROVE  pc'[q] = pc[q] /\ work'[q] = work[q]
    BY DEF Alone
  <2>2. CASE pc'[p] \notin Holding
    BY <2>1, <2>2 DEF Holding, PinnedAt
  <2>3. CASE pc'[p] \in Holding
    BY <2>1, <2>3
  <2> QED
    BY <2>2, <2>3
<1>1. \A q \in Procs : pc'[q] \in Holding => AttemptOf(q)'
  BY <1>0 DEF Fencing, AttemptOf
<1>2. \A q \in Procs : pc'[q] \in PinnedAt => Current(q)'
  BY <1>0 DEF Fencing, Current, Holding, PinnedAt
<1> QED
  BY <1>0, <1>1, <1>2 DEF Fencing

\* A job without an attempt of anybody is not pinned.
LEMMA AbsentUnpinned ==
  ASSUME Fencing, NEW j \in JobIds, jstatus[j] = "absent",
         NEW q \in Procs, pc[q] \in Holding
  PROVE  work[q].job # j
BY DEF Fencing, AttemptOf

LEMMA UploadFencing ==
  ASSUME IInv, NEW c \in Clients, CommitUpload(c) PROVE Fencing' /\ Untried'
<1>0. TypeOK /\ Fencing /\ Untried /\ c \in Procs
  BY DEF IInv, Procs
<1>1. PICK j \in JobIds :
        /\ jstatus[j] = "absent"
        /\ \/ /\ jstatus' = [jstatus EXCEPT ![j] = "pending"]
              /\ Finish(c)
              /\ UNCHANGED <<jattempts, inline>>
           \/ /\ jstatus' = [jstatus EXCEPT ![j] = "processing"]
              /\ jattempts' = [jattempts EXCEPT ![j] = 1]
              /\ inline' = inline \cup {j}
              /\ Goto(c, "pinning") /\ Release(c)
              /\ Note(c, [Rested EXCEPT !.job = j, !.attempt = 1])
  BY DEF CommitUpload
<1>2. CASE Finish(c)
  <2>1. /\ jstatus' = [jstatus EXCEPT ![j] = "pending"] /\ UNCHANGED <<jattempts, inline>>
        /\ Alone(c) /\ pc'[c] = "idle"
    BY <1>0, <1>1, <1>2, FinishMoves DEF TypeOK
  <2>2. \A q \in Procs : pc'[q] \in PinnedAt => pc[q] \in Holding
    BY <2>1 DEF Alone, PinnedAt, Holding, AnalysisPoints
  <2>3. Fencing'
    BY <1>0, <1>1, <2>1, <2>2, AbsentUnpinned, FencingKept
    DEF TypeOK, Holding, AnalysisPoints
  <2> QED
    BY <1>0, <2>1, <2>3 DEF Untried, TypeOK
<1>3. CASE ~Finish(c)
  <2>0. /\ jstatus' = [jstatus EXCEPT ![j] = "processing"]
        /\ jattempts' = [jattempts EXCEPT ![j] = 1]
        /\ inline' = inline \cup {j}
        /\ Goto(c, "pinning") /\ Note(c, [Rested EXCEPT !.job = j, !.attempt = 1])
    BY <1>1, <1>3
  <2>a. LET what == [Rested EXCEPT !.job = j, !.attempt = 1]
        IN  what.job = j /\ what.attempt = 1
    BY DEF Rested
  <2>1. /\ jstatus' = [jstatus EXCEPT ![j] = "processing"]
        /\ jattempts' = [jattempts EXCEPT ![j] = 1]
        /\ inline' = inline \cup {j}
        /\ pc'[c] = "pinning" /\ work'[c].job = j /\ work'[c].attempt = 1
        /\ Alone(c)
    BY <1>0, <2>0, <2>a DEF TypeOK, Alone
  <2>2. \A q \in Procs \ {c} : pc'[q] \in Holding =>
          pc[q] \in Holding /\ work'[q] = work[q] /\ work[q].job # j /\ work[q].job \in JobIds
    BY <1>0, <1>1, <2>1, AbsentUnpinned DEF Alone, Fencing, AttemptOf
  <2>3. AttemptOf(c)'
    BY <1>0, <2>1 DEF AttemptOf, TypeOK
  <2>4. \A q \in Procs : pc'[q] \in Holding => AttemptOf(q)'
    BY <1>0, <2>1, <2>2, <2>3 DEF AttemptOf, Fencing, TypeOK
  <2>5. \A q \in Procs : pc'[q] \in PinnedAt => Current(q)'
    <3> SUFFICES ASSUME NEW q \in Procs, pc'[q] \in PinnedAt PROVE Current(q)'
      OBVIOUS
    <3>1. q # c /\ pc'[q] \in Holding
      BY <2>1 DEF PinnedAt, Holding, AnalysisPoints
    <3>2. pc[q] \in PinnedAt /\ work'[q] = work[q] /\ work[q].job # j /\ work[q].job \in JobIds
      BY <2>1, <2>2, <3>1 DEF Alone
    <3> QED
      BY <1>0, <2>1, <3>2 DEF Current, Fencing, TypeOK
  <2>6. Fencing'
    BY <1>0, <2>1, <2>2, <2>4, <2>5 DEF Fencing
  <2> QED
    BY <1>0, <2>1, <2>6 DEF Untried, TypeOK
<1> QED
  BY <1>2, <1>3

LEMMA RequestFencing ==
  ASSUME IInv, NEW c \in Clients, Request(c) PROVE Fencing' /\ Untried'
<1>0. TypeOK /\ Fencing /\ Untried /\ c \in Procs /\ Alone(c)
  BY RequestMoves DEF IInv, Procs
<1>1. CASE CommitUpload(c)
  BY <1>1, UploadFencing
<1>2. CASE PinInline(c)
  <2>0. jobs' = jobs /\ pc[c] = "pinning" /\ pc[c] \in Holding
    BY <1>2 DEF PinInline, Holding
  <2>1. CASE jstatus[work[c].job] = "processing" /\ jattempts[work[c].job] = work[c].attempt
    <3>1. work' = work /\ pc'[c] = "pinned"
      BY <1>0, <1>2, <2>1 DEF PinInline, TypeOK
    <3>2. \A q \in Procs : pc'[q] \in Holding => pc[q] \in Holding
      BY <1>0, <2>0 DEF Alone
    <3>3. \A q \in Procs : pc'[q] \in Holding => AttemptOf(q)'
      BY <1>0, <2>0, <3>1, <3>2 DEF Fencing, AttemptOf
    <3>4. \A q \in Procs : pc'[q] \in PinnedAt => Current(q)'
      BY <1>0, <2>0, <2>1, <3>1 DEF Fencing, Current, Alone
    <3> QED
      BY <1>0, <2>0, <3>1, <3>2, <3>3, <3>4 DEF Fencing, Untried
  <2>2. CASE ~(jstatus[work[c].job] = "processing" /\ jattempts[work[c].job] = work[c].attempt)
    <3>1. pc'[c] = "idle"
      BY <1>0, <1>2, <2>2 DEF PinInline, TypeOK
    <3> QED
      BY <1>0, <2>0, <3>1, FencingKept DEF Holding, AnalysisPoints, Untried
  <2> QED
    BY <2>1, <2>2
<1>3. CASE CommitReprocess(c)
  <2>1. PICK j \in JobIds : jstatus[j] = "absent" /\ jstatus' = [jstatus EXCEPT ![j] = "pending"]
    BY <1>3 DEF CommitReprocess
  <2>2. pc'[c] = "idle" /\ UNCHANGED <<jattempts, inline>>
    BY <1>0, <1>3, FinishMoves DEF CommitReprocess
  <2>3. \A q \in Procs : pc'[q] \in PinnedAt => pc[q] \in Holding
    BY <1>0, <2>2 DEF Alone, PinnedAt, Holding, AnalysisPoints
  <2>4. Fencing'
    BY <1>0, <2>1, <2>2, <2>3, AbsentUnpinned, FencingKept
    DEF TypeOK, Holding, AnalysisPoints
  <2> QED
    BY <1>0, <2>1, <2>2, <2>4 DEF Untried, TypeOK
<1>4. CASE \/ Compensate(c) \/ MarkDeleted(c) \/ Decide(c) \/ FlushReview(c) \/ AcceptFacts(c)
           \/ CommitReview(c) \/ CommitResolve(c)
  <2>1. jobs' = jobs
    BY <1>4 DEF Compensate, MarkDeleted, Decide, FlushReview, AcceptFacts, CommitReview, CommitResolve
  <2>2. pc'[c] \in {"idle", "decided", "flushed", "confirming"}
    BY <1>0, <1>4, FinishMoves
    DEF TypeOK, Compensate, MarkDeleted, Decide, FlushReview, AcceptFacts, CommitReview, CommitResolve
  <2> QED
    BY <1>0, <2>1, <2>2, FencingKept DEF Holding, AnalysisPoints, Untried
<1> QED
  BY <1>1, <1>2, <1>3, <1>4 DEF Request

LEMMA ClaimFencing == ASSUME IInv, NEW w \in Workers, Claim(w) PROVE Fencing' /\ Untried'
<1>0. TypeOK /\ Fencing /\ Untried /\ w \in Procs /\ w \notin Clients /\ Alone(w)
  BY ClaimMoves, Distinct DEF IInv, Procs
<1>1. PICK j \in JobIds :
        /\ jstatus[j] = "pending" /\ jattempts[j] < MaxAttempts
        /\ jstatus' = [jstatus EXCEPT ![j] = "processing"]
        /\ jattempts' = [jattempts EXCEPT ![j] = @ + 1]
        /\ Note(w, [Rested EXCEPT !.job = j, !.attempt = jattempts'[j]])
  BY DEF Claim
<1>2. /\ \A k \in JobIds : jstatus[k] # "processing" /\ jattempts[k] \in Nat
      /\ inline' = inline /\ pc'[w] = "pinned"
  <2>1. \A k \in JobIds : jattempts[k] \in Nat
    BY <1>0, Bounds DEF TypeOK
  <2>2. \A k \in JobIds : jstatus[k] # "processing"
    BY DEF Claim
  <2>3. inline' = inline /\ Goto(w, "pinned")
    BY DEF Claim
  <2> QED
    BY <1>0, <2>1, <2>2, <2>3 DEF TypeOK
<1>3. work'[w].job = j /\ work'[w].attempt = jattempts[j] + 1
  BY <1>0, <1>1, <1>2 DEF TypeOK, Rested
<1>4. \A q \in Procs \ {w} : pc'[q] \in Holding =>
        /\ pc[q] \in Holding /\ work'[q] = work[q] /\ AttemptOf(q)
        /\ pc'[q] \notin PinnedAt
  BY <1>0, <1>2 DEF Alone, Fencing, Current, AttemptOf
<1>5. \A q \in Procs : pc'[q] \in Holding => AttemptOf(q)'
  <2>1. AttemptOf(w)'
    BY <1>0, <1>1, <1>2, <1>3 DEF AttemptOf, TypeOK
  <2>2. ASSUME NEW q \in Procs \ {w}, pc'[q] \in Holding PROVE AttemptOf(q)'
    BY <1>0, <1>1, <1>2, <1>4, <2>2 DEF AttemptOf, TypeOK
  <2> QED
    BY <2>1, <2>2
<1>6. \A q \in Procs : pc'[q] \in PinnedAt => Current(q)'
  <2>1. Current(w)'
    BY <1>0, <1>1, <1>2, <1>3 DEF Current, TypeOK
  <2> QED
    BY <1>4, <2>1 DEF PinnedAt, Holding
<1>7. \A q \in Procs \ {w} : pc'[q] \in Holding =>
        ~(work'[q].job = work'[w].job /\ work'[q].attempt = work'[w].attempt)
  BY <1>0, <1>2, <1>3, <1>4 DEF AttemptOf
<1>8. Fencing'
  BY <1>0, <1>4, <1>5, <1>6, <1>7 DEF Fencing
<1> QED
  BY <1>0, <1>1, <1>2, <1>8 DEF Untried, TypeOK

LEMMA AnalysisFencing ==
  ASSUME IInv, NEW p \in Procs, Analysis(p) PROVE Fencing' /\ Untried'
<1>0. /\ TypeOK /\ Fencing /\ Untried /\ Alone(p)
      /\ pc[p] \in AnalysisPoints /\ pc[p] \in Holding /\ AttemptOf(p)
  BY AnalysisMoves DEF IInv, Fencing, Holding
<1>1. CASE Digitize(p) \/ Reconcile(p) \/ LockForFacts(p) \/ (StartAnalysis(p) /\ Live)
  <2>1. /\ jobs' = jobs /\ work'[p].job = work[p].job /\ work'[p].attempt = work[p].attempt
        /\ pc[p] \in PinnedAt
    <3>0. work[p] \in Work
      BY <1>0 DEF TypeOK
    <3>1. CASE Digitize(p) \/ LockForFacts(p)
      BY <1>0, <3>1 DEF Digitize, LockForFacts, AnalysisPoints, PinnedAt
    <3>2. CASE StartAnalysis(p) /\ Live
      <4>1. work' = [work EXCEPT ![p] = [work[p] EXCEPT !.saw = Live]]
        BY <3>2 DEF StartAnalysis
      <4>2. work'[p] = [work[p] EXCEPT !.saw = Live]
        BY <1>0, <4>1 DEF TypeOK
      <4>3. work'[p].job = work[p].job /\ work'[p].attempt = work[p].attempt
        BY <3>0, <4>2 DEF Work
      <4> QED
        BY <3>2, <4>3 DEF StartAnalysis, AnalysisPoints, PinnedAt
    <3>3. CASE Reconcile(p)
      <4>1. PICK wrong \in BOOLEAN, found \in [Fields -> Decisions] :
              work' = [work EXCEPT ![p] = [work[p] EXCEPT !.mismatch = wrong, !.found = found]]
        BY <3>3 DEF Reconcile
      <4>2. work'[p] = [work[p] EXCEPT !.mismatch = wrong, !.found = found]
        BY <1>0, <4>1 DEF TypeOK
      <4>3. work'[p].job = work[p].job /\ work'[p].attempt = work[p].attempt
        BY <3>0, <4>2 DEF Work
      <4> QED
        BY <3>3, <4>3 DEF Reconcile, AnalysisPoints, PinnedAt
    <3> QED
      BY <1>1, <3>1, <3>2, <3>3
  <2> QED
    BY <1>0, <2>1, FencingKept DEF Untried
<1>2. CASE NoText(p) \/ CommitAnalysis(p) \/ (StartAnalysis(p) /\ ~Live)
  <2>1. /\ \E s \in {"completed", "failed"} : jstatus' = [jstatus EXCEPT ![work[p].job] = s]
        /\ UNCHANGED <<jattempts, inline>> /\ pc[p] \in PinnedAt /\ pc'[p] = "idle"
    BY <1>0, <1>2, FinishMoves DEF NoText, CommitAnalysis, StartAnalysis, Completes,
                                  AnalysisPoints, PinnedAt
  <2>2. \A q \in Procs : pc'[q] \in PinnedAt => work[q].job # work[p].job /\ work[q].job \in JobIds
    <3> SUFFICES ASSUME NEW q \in Procs, pc'[q] \in PinnedAt
                 PROVE  work[q].job # work[p].job /\ work[q].job \in JobIds
      OBVIOUS
    <3>1. q # p /\ pc[q] \in PinnedAt /\ pc[q] \in Holding
      BY <1>0, <2>1 DEF Alone, PinnedAt, AnalysisPoints, Holding
    <3> QED
      BY <1>0, <2>1, <3>1 DEF Fencing, Current, AttemptOf
  <2>3. Fencing'
    BY <1>0, <2>1, <2>2, FencingKept DEF TypeOK, Holding, AnalysisPoints
  <2> QED
    BY <1>0, <2>1, <2>3 DEF Untried, AttemptOf, TypeOK
<1>3. CASE RecordFailure(p)
  <2>1. /\ pc'[p] = "idle" /\ pc[p] = "rolledback" /\ UNCHANGED <<jattempts, inline>>
        /\ \/ jstatus' = jstatus
           \/ /\ \E s \in {"pending", "failed"} : jstatus' = [jstatus EXCEPT ![work[p].job] = s]
              /\ ~Pinned(work[p].job) \/ Current(p)
    BY <1>0, <1>3, FinishMoves DEF RecordFailure, AfterLostAttempt, Current
  <2>2. \A q \in Procs : pc'[q] \in PinnedAt =>
          pc[q] \in PinnedAt /\ pc[q] \in Holding /\ q # p /\ work[q].job \in JobIds
    BY <1>0, <2>1 DEF Alone, PinnedAt, AnalysisPoints, Holding, Fencing, AttemptOf
  <2>3. ASSUME ~Pinned(work[p].job) \/ Current(p), NEW q \in Procs, pc'[q] \in PinnedAt
        PROVE  work[q].job # work[p].job
    BY <1>0, <2>2, <2>3 DEF Pinned, PinnedAt, Fencing, Current
  <2>4. \A q \in Procs : pc'[q] \in PinnedAt => jstatus'[work[q].job] = jstatus[work[q].job]
    BY <1>0, <2>1, <2>2, <2>3 DEF TypeOK
  <2>5. \A j \in JobIds : jstatus'[j] = jstatus[j] \/ (jstatus[j] # "absent" /\ jstatus'[j] # "absent")
    BY <1>0, <2>1 DEF TypeOK, AttemptOf
  <2>6. Fencing'
    BY <1>0, <2>1, <2>4, <2>5, FencingKept DEF Holding, AnalysisPoints
  <2> QED
    BY <1>0, <2>1, <2>5, <2>6 DEF Untried
<1> QED
  BY <1>1, <1>2, <1>3 DEF Analysis

LEMMA StepFencing == ASSUME IInv, [Next]_vars PROVE Fencing' /\ Untried'
<1>0. TypeOK /\ Fencing /\ Untried
  BY DEF IInv
<1>1. CASE UNCHANGED vars
  BY <1>0, <1>1 DEF Fencing, AttemptOf, Current, Untried, vars
<1>2. ASSUME NEW c \in Clients, Ask(c) PROVE Fencing' /\ Untried'
  BY <1>0, <1>2, AskMoves, FencingKept, ClientsAndWorkers DEF Holding, AnalysisPoints, Untried
<1>3. ASSUME NEW p \in Procs, Ends(p) PROVE Fencing' /\ Untried'
  <2>1. /\ Alone(p) /\ jobs' = jobs
        /\ \/ pc'[p] \notin Holding
           \/ pc[p] \in PinnedAt /\ pc'[p] = "rolledback" /\ work' = work
    BY <1>0, <1>3, EndMoves, FinishMoves
    DEF Ends, RollBack, Vanish, Abandon, FailUpload, TypeOK, Holding, AnalysisPoints, PinnedAt
  <2> QED
    BY <1>0, <2>1, FencingKept DEF Holding, AnalysisPoints, PinnedAt, Untried
<1>4. ASSUME NEW j \in JobIds, Reclaim(j) PROVE Fencing' /\ Untried'
  <2>1. /\ jstatus[j] = "processing" /\ ~Pinned(j)
        /\ \E s \in {"pending", "failed"} : jstatus' = [jstatus EXCEPT ![j] = s]
        /\ UNCHANGED <<jattempts, inline, pc, work>>
    BY <1>4 DEF Reclaim, AfterLostAttempt
  <2>2. \A k \in JobIds : jstatus'[k] = jstatus[k] \/ (k = j /\ jstatus'[k] # "absent")
    BY <1>0, <2>1 DEF TypeOK
  <2>3. \A q \in Procs : pc[q] \in PinnedAt => work[q].job # j
    BY <2>1 DEF Pinned, PinnedAt
  <2>4. \A q \in Procs : pc[q] \in Holding => AttemptOf(q)'
    BY <1>0, <2>1, <2>2 DEF Fencing, AttemptOf
  <2>5. \A q \in Procs : pc[q] \in PinnedAt => Current(q)'
    BY <1>0, <2>1, <2>2, <2>3 DEF Fencing, Current, AttemptOf, PinnedAt, Holding
  <2> QED
    BY <1>0, <2>1, <2>2, <2>4, <2>5 DEF Fencing, Untried
<1> QED
  BY <1>0, <1>1, <1>2, <1>3, <1>4, RequestFencing, ClaimFencing, AnalysisFencing, OtherSteps

-----------------------------------------------------------------------------
(* Runs, uploads and what was seen.                                        *)

LEMMA ReviewsAreNot ==
  /\ "reviewing" \notin AnalysisPoints \cup {"idle"}
  /\ DecidedAt \cap (AnalysisPoints \cup {"idle"}) = {}
BY DEF DecidedAt, AnalysisPoints

LEMMA RunsKept ==
  ASSUME TypeOK, RunsKnown, NEW p \in Procs, Alone(p), runs' \in {runs, runs + 1},
         \A f \in Fields : case'[f].open => \/ case[f].open /\ case'[f].run = case[f].run
                                            \/ case'[f].run = runs + 1 /\ runs' = runs + 1,
         pc'[p] = "reviewing" => work'[p].run <= runs',
         pc'[p] \in DecidedAt =>
           /\ work'[p].run <= runs'
           /\ work'[p].accept \cup work'[p].reject # {} => work'[p].run \in 1..runs'
  PROVE  RunsKnown'
<1>0. /\ runs \in Nat /\ runs <= runs' /\ runs' \in Nat
      /\ \A q \in Procs : work[q].run \in Nat
  BY Bounds DEF TypeOK, Work
<1>1. ASSUME NEW f \in Fields, case'[f].open PROVE case'[f].run \in 1..runs'
  BY <1>0, <1>1 DEF RunsKnown
<1>2. ASSUME NEW q \in Procs, pc'[q] = "reviewing" PROVE work'[q].run <= runs'
  BY <1>0, <1>2 DEF RunsKnown, Alone
<1>3. ASSUME NEW q \in Procs, pc'[q] \in DecidedAt 
      PROVE  /\ work'[q].run <= runs'
             /\ work'[q].accept \cup work'[q].reject # {} => work'[q].run \in 1..runs'
  <2>1. CASE q = p
    BY <1>3, <2>1
  <2>2. CASE q # p
    <3>1. pc[q] \in DecidedAt /\ work'[q] = work[q]
      BY <1>3, <2>2 DEF Alone
    <3>2. /\ work[q].run <= runs
          /\ work[q].accept \cup work[q].reject # {} => work[q].run \in 1..runs
      BY <3>1 DEF RunsKnown
    <3> QED
      BY <1>0, <3>1, <3>2
  <2> QED
    BY <2>1, <2>2
<1> QED
  BY <1>1, <1>2, <1>3 DEF RunsKnown

LEMMA StepRunsKnown == ASSUME IInv, [Next]_vars PROVE RunsKnown'
<1>0. TypeOK /\ RowHeld /\ RunsKnown
  BY DEF IInv
<1>1. CASE UNCHANGED vars
  BY <1>0, <1>1 DEF RunsKnown, vars
<1>2. ASSUME NEW c \in Clients, Ask(c) PROVE RunsKnown'
  <2>0. c \in Procs /\ Alone(c) /\ runs' = runs /\ case' = case
    BY <1>0, <1>2, AskMoves DEF Procs
  <2>1. pc'[c] \notin DecidedAt
    BY <1>0, <1>2, AskMoves DEF DecidedAt
  <2>2. ASSUME pc'[c] = "reviewing" PROVE work'[c].run <= runs'
    <3>1. OpenReview(c)
      BY <1>0, <1>2, <2>0, <2>2
      DEF Ask, Upload, DeleteObjects, EnqueueReprocess, ResolveCase, Begin, TypeOK
    <3>2. work'[c].run = runs
      BY <1>0, <2>0, <3>1 DEF OpenReview, Begin, TypeOK, Rested
    <3> QED
      BY <1>0, <2>0, <3>2, Bounds DEF TypeOK
  <2> QED
    BY <1>0, <2>0, <2>1, <2>2, RunsKept
<1>3. ASSUME NEW c \in Clients, Request(c) PROVE RunsKnown'
  <2>0. c \in Procs /\ Alone(c) /\ runs' = runs /\ pc'[c] # "reviewing"
    BY <1>0, <1>3, RequestMoves DEF Procs
  <2>1. \A f \in Fields : case'[f].open => case[f].open /\ case'[f].run = case[f].run
    <3>1. CASE CommitReview(c)
      <4>1. \A f \in Fields : case'[f] \in {case[f], [case[f] EXCEPT !.open = FALSE]}
        BY <3>1 DEF CommitReview
      <4> QED
        BY <1>0, <4>1 DEF TypeOK
    <3>2. CASE CommitResolve(c)
      <4>1. \A f \in Fields : case'[f] \in {case[f], [case[f] EXCEPT !.open = FALSE]}
        BY <1>0, <3>2 DEF CommitResolve, TypeOK
      <4> QED
        BY <1>0, <4>1 DEF TypeOK
    <3>3. CASE ~(CommitReview(c) \/ CommitResolve(c))
      BY <1>3, <3>3 DEF Request, CommitUpload, Compensate, PinInline, MarkDeleted,
                        CommitReprocess, Decide, FlushReview, AcceptFacts
    <3> QED
      BY <3>1, <3>2, <3>3
  <2>2. ASSUME pc'[c] \in DecidedAt
        PROVE  /\ work'[c].run <= runs'
               /\ work'[c].accept \cup work'[c].reject # {} => work'[c].run \in 1..runs'
    <3>1. Decide(c) \/ FlushReview(c) \/ AcceptFacts(c)
      <4>1. ~CommitUpload(c) /\ ~PinInline(c)
        BY <1>0, <2>0, <2>2, FinishMoves DEF CommitUpload, PinInline, DecidedAt, TypeOK
      <4>2. ~(\/ Compensate(c) \/ MarkDeleted(c) \/ CommitReprocess(c)
              \/ CommitReview(c) \/ CommitResolve(c))
        BY <1>0, <2>0, <2>2, FinishMoves
        DEF Compensate, MarkDeleted, CommitReprocess, CommitReview, CommitResolve, DecidedAt
      <4> QED
        BY <1>3, <4>1, <4>2 DEF Request
    <3>2. CASE Decide(c)
      <4>1. work[c].run <= runs
        BY <1>0, <2>0, <3>2 DEF Decide, RunsKnown
      <4>2. /\ work'[c].run = work[c].run
            /\ work'[c].accept \cup work'[c].reject # {} => work[c].run \in Runs
        BY <1>0, <2>0, <3>2, DecideKeeps DEF Pending
      <4> QED
        BY <1>0, <2>0, <4>1, <4>2, Bounds DEF Runs, TypeOK
    <3>3. CASE FlushReview(c) \/ AcceptFacts(c)
      BY <1>0, <2>0, <3>3 DEF FlushReview, AcceptFacts, RunsKnown, DecidedAt
    <3> QED
      BY <3>1, <3>2, <3>3
  <2> QED
    BY <1>0, <2>0, <2>1, <2>2, RunsKept
<1>4. ASSUME NEW w \in Workers, Claim(w) PROVE RunsKnown'
  BY <1>0, <1>4, ClaimMoves, ClientsAndWorkers, RunsKept DEF DecidedAt
<1>5. ASSUME NEW p \in Procs, Analysis(p) PROVE RunsKnown'
  <2>0. Alone(p) /\ pc'[p] # "reviewing" /\ pc'[p] \notin DecidedAt
    BY <1>0, <1>5, AnalysisMoves, ReviewsAreNot
  <2>1. CASE CommitAnalysis(p)
    <3>1. runs' = runs + 1
      BY <2>1 DEF CommitAnalysis, Completes
    <3>2. \A f \in Fields : case'[f] \in {case[f], [open |-> TRUE, run |-> runs + 1]}
      BY <2>1 DEF CommitAnalysis, OpenCases
    <3> QED
      BY <1>0, <2>0, <3>1, <3>2, RunsKept
  <2>2. CASE ~CommitAnalysis(p)
    <3>1. case' = case /\ runs' \in {runs, runs + 1}
      BY <1>5, <2>2 DEF Analysis, StartAnalysis, Digitize, NoText, Completes, Reconcile,
                        LockForFacts, RecordFailure
    <3> QED
      BY <1>0, <2>0, <3>1, RunsKept
  <2> QED
    BY <2>1, <2>2
<1>6. ASSUME NEW p \in Procs, Ends(p) PROVE RunsKnown'
  BY <1>0, <1>6, EndMoves, RunsKept DEF DecidedAt
<1>7. ASSUME NEW j \in JobIds, Reclaim(j) PROVE RunsKnown'
  BY <1>0, <1>7 DEF RunsKnown, Reclaim
<1> QED
  BY <1>0, <1>1, <1>2, <1>3, <1>4, <1>5, <1>6, <1>7, OtherSteps

\* A document does not go out of being: not even its deletion removes its row.
LEMMA RowStays == ASSUME IInv, [Next]_vars, docStatus' = "none" PROVE docStatus = "none"
<1>0. TypeOK
  BY DEF IInv
<1>1. CASE UNCHANGED vars
  BY <1>1 DEF vars
<1>2. ASSUME NEW c \in Clients, Ask(c) PROVE docStatus = "none"
  BY <1>0, <1>2, AskMoves
<1>3. ASSUME NEW c \in Clients, Request(c) PROVE docStatus = "none"
  BY <1>3 DEF Request, CommitUpload, Compensate, PinInline, MarkDeleted, CommitReprocess,
              Decide, FlushReview, AcceptFacts, CommitReview, CommitResolve
<1>4. ASSUME NEW w \in Workers, Claim(w) PROVE docStatus = "none"
  BY <1>0, <1>4, ClaimMoves
<1>5. ASSUME NEW p \in Procs, Analysis(p) PROVE docStatus = "none"
  BY <1>5 DEF Analysis, StartAnalysis, Digitize, NoText, Reconcile, LockForFacts,
              CommitAnalysis, AfterAnalysis, RecordFailure
<1>6. ASSUME NEW p \in Procs, Ends(p) PROVE docStatus = "none"
  BY <1>0, <1>6, EndMoves
<1>7. ASSUME NEW j \in JobIds, Reclaim(j) PROVE docStatus = "none"
  BY <1>7 DEF Reclaim
<1> QED
  BY <1>0, <1>1, <1>2, <1>3, <1>4, <1>5, <1>6, <1>7, OtherSteps

\* What can happen before there is a document.
LEMMA BeforeSteps ==
  ASSUME IInv, Next, docStatus = "none"
  PROVE  \/ \E c \in Clients : Upload(c) \/ CommitUpload(c) \/ Compensate(c)
         \/ \E c \in Clients : FailUpload(c) \/ Abandon(c)
<1>0. /\ TypeOK /\ ~Live
      /\ \A p \in Procs : pc[p] \in {"idle", "uploading", "compensating"}
      /\ \A j \in JobIds : jstatus[j] = "absent"
      /\ \A f \in Fields : ~case[f].open
  BY DEF IInv, NothingBefore, Live
<1>1. ASSUME NEW c \in Clients, Ask(c) PROVE Upload(c)
  BY <1>0, <1>1 DEF Ask, DeleteObjects, EnqueueReprocess, OpenReview, ResolveCase
<1>2. ASSUME NEW c \in Clients, Request(c) PROVE CommitUpload(c) \/ Compensate(c)
  BY <1>0, <1>2, ClientsAndWorkers
  DEF Request, PinInline, MarkDeleted, CommitReprocess, Decide, FlushReview, AcceptFacts,
      CommitReview, CommitResolve
<1>3. \A w \in Workers : ~Claim(w)
  BY <1>0 DEF Claim
<1>4. \A p \in Procs : ~Analysis(p)
  BY <1>0, AnalysisMoves DEF AnalysisPoints
<1>5. ASSUME NEW p \in Procs, Ends(p) PROVE p \in Clients /\ (FailUpload(p) \/ Abandon(p))
  BY <1>0, <1>5 DEF Ends, RollBack, Vanish, AnalysisPoints
<1>6. \A j \in JobIds : ~Reclaim(j)
  BY <1>0 DEF Reclaim
<1> QED
  BY <1>0, <1>1, <1>2, <1>3, <1>4, <1>5, <1>6, OtherSteps

LEMMA StepNothingBefore == ASSUME IInv, [Next]_vars PROVE NothingBefore'
<1> SUFFICES ASSUME docStatus' = "none"
             PROVE  /\ \A p \in Procs : pc'[p] \in {"idle", "uploading", "compensating"}
                    /\ \A j \in JobIds : jstatus'[j] = "absent"
                    /\ \A f \in Fields : ~case'[f].open
  BY DEF NothingBefore
<1>0. /\ docStatus = "none" /\ TypeOK
      /\ \A p \in Procs : pc[p] \in {"idle", "uploading", "compensating"}
      /\ \A j \in JobIds : jstatus[j] = "absent"
      /\ \A f \in Fields : ~case[f].open
  BY RowStays DEF IInv, NothingBefore
<1>1. CASE UNCHANGED vars
  BY <1>0, <1>1 DEF vars
<1>2. ASSUME NEW c \in Clients, Upload(c)
      PROVE  /\ \A p \in Procs : pc'[p] \in {"idle", "uploading", "compensating"}
             /\ jstatus' = jstatus /\ case' = case
  BY <1>0, <1>2 DEF Upload, Begin, TypeOK
<1>3. ASSUME NEW c \in Clients, Compensate(c) \/ FailUpload(c) \/ Abandon(c)
      PROVE  /\ \A p \in Procs : pc'[p] \in {"idle", "uploading", "compensating"}
             /\ jstatus' = jstatus /\ case' = case
  BY <1>0, <1>3 DEF Compensate, FailUpload, Abandon, Finish, TypeOK
<1>4. \A c \in Clients : ~CommitUpload(c)
  BY DEF CommitUpload
<1> QED
  BY <1>0, <1>1, <1>2, <1>3, <1>4, BeforeSteps

\* Upload, deletion and commit change the object and the status; once there is a
\* row nobody uploads any more.
LEMMA StepOneUpload == ASSUME IInv, [Next]_vars PROVE OneUpload'
<1>0. TypeOK /\ OneUpload /\ NothingBefore /\ ClientsOnly
  BY DEF IInv
<1> DEFINE Up(q) == q \in {"uploading", "compensating"}
<1>1. CASE UNCHANGED vars
  BY <1>0, <1>1 DEF OneUpload, vars
<1>2. ASSUME Next, docStatus # "none" PROVE OneUpload'
  <2>1. \A p \in Procs : ~Up(pc[p])
    BY <1>0, <1>2 DEF OneUpload
  <2>2. \A p \in Procs : ~Up(pc'[p])
    <3>1. ASSUME NEW c \in Clients, Ask(c) PROVE c \in Procs /\ Alone(c) /\ ~Up(pc'[c])
      BY <1>0, <1>2, <3>1, ClientsAndWorkers, AskMoves
      DEF Ask, Upload, DeleteObjects, EnqueueReprocess, OpenReview, ResolveCase, Begin, TypeOK
    <3>2. ASSUME NEW c \in Clients, Request(c) PROVE c \in Procs /\ Alone(c) /\ ~Up(pc'[c])
      BY <1>0, <3>2, RequestMoves, ClientsAndWorkers
    <3>3. ASSUME NEW w \in Workers, Claim(w) PROVE w \in Procs /\ Alone(w) /\ ~Up(pc'[w])
      BY <1>0, <3>3, ClaimMoves, ClientsAndWorkers
    <3>4. ASSUME NEW p \in Procs, Analysis(p) PROVE Alone(p) /\ ~Up(pc'[p])
      BY <1>0, <3>4, AnalysisMoves DEF AnalysisPoints
    <3>5. ASSUME NEW p \in Procs, Ends(p) PROVE Alone(p) /\ ~Up(pc'[p])
      BY <1>0, <2>1, <3>5, EndMoves
    <3>6. ASSUME NEW j \in JobIds, Reclaim(j) PROVE pc' = pc
      BY <3>6 DEF Reclaim
    <3> QED
      BY <1>0, <1>2, <2>1, <3>1, <3>2, <3>3, <3>4, <3>5, <3>6, OtherSteps DEF Alone
  <2> QED
    BY <2>2 DEF OneUpload
<1>3. ASSUME NEW c \in Clients, Upload(c) PROVE OneUpload'
  <2>1. ~file /\ docStatus = "none" /\ file' /\ docStatus' = "none"
    BY <1>3 DEF Upload
  <2>2. \A p \in Procs : ~Up(pc[p])
    BY <1>0, <2>1 DEF OneUpload
  <2>3. Alone(c) /\ c \in Procs
    BY <1>0, <1>3, AskMoves, ClientsAndWorkers DEF Ask
  <2> QED
    BY <2>1, <2>2, <2>3 DEF OneUpload, Alone
<1>4. ASSUME NEW c \in Clients, CommitUpload(c) \/ Compensate(c) PROVE OneUpload'
  <2>1. Up(pc[c]) /\ c \in Procs /\ Alone(c) /\ ~Up(pc'[c])
    BY <1>0, <1>4, RequestMoves, ClientsAndWorkers DEF Request, CommitUpload, Compensate
  <2>2. \A p \in Procs \ {c} : ~Up(pc[p])
    BY <1>0, <2>1 DEF OneUpload
  <2> QED
    BY <2>1, <2>2 DEF OneUpload, Alone
<1>5. ASSUME NEW c \in Clients, FailUpload(c) \/ Abandon(c) PROVE OneUpload'
  <2>1. /\ c \in Procs /\ Alone(c) /\ document' = document
        /\ pc'[c] = "idle" \/ (pc[c] \in AnalysisPoints) \/ Up(pc[c])
    BY <1>0, <1>5, EndMoves, ClientsAndWorkers DEF Ends, PinnedAt
  <2>2. \A p \in Procs : Up(pc'[p]) => Up(pc[p])
    <3>1. Up(pc'[c]) => Up(pc[c])
      BY <1>0, <1>5, <2>1, FinishMoves DEF FailUpload, Abandon
    <3> QED
      BY <2>1, <3>1 DEF Alone
  <2> QED
    BY <1>0, <2>1, <2>2 DEF OneUpload
<1> QED
  BY <1>1, <1>2, <1>3, <1>4, <1>5, BeforeSteps

LEMMA StepSeen == ASSUME IInv, [Next]_vars PROVE Seen'
<1>0. TypeOK /\ Seen
  BY DEF IInv
<1> DEFINE At == {"started"} \cup LockedAt \cup ReviewPoints
<1>1. CASE UNCHANGED vars
  BY <1>0, <1>1 DEF Seen, vars
<1>2. ASSUME NEW c \in Clients, Ask(c) PROVE Seen'
  <2>1. c \in Procs /\ Alone(c)
    BY <1>0, <1>2, AskMoves, ClientsAndWorkers
  <2>2. CASE OpenReview(c)
    <3>1. work'[c].saw
      BY <1>0, <2>1, <2>2 DEF OpenReview, Begin, TypeOK, Rested
    <3> QED
      BY <1>0, <2>1, <3>1 DEF Seen, Alone
  <2>3. CASE ~OpenReview(c)
    <3>1. pc'[c] \notin At
      BY <1>0, <1>2, <2>1, <2>3
      DEF Ask, Upload, DeleteObjects, EnqueueReprocess, ResolveCase, Begin, TypeOK,
          LockedAt, ReviewPoints
    <3> QED
      BY <1>0, <2>1, <3>1 DEF Seen, Alone
  <2> QED
    BY <2>2, <2>3
<1>3. ASSUME NEW c \in Clients, Request(c) PROVE Seen'
  <2>1. c \in Procs /\ Alone(c)
    BY <1>0, <1>3, RequestMoves, ClientsAndWorkers
  <2>2. CASE Decide(c)
    <3>1. work'[c].saw = work[c].saw /\ pc[c] \in At
      BY <1>0, <2>1, <2>2, DecideKeeps DEF Decide, ReviewPoints
    <3> QED
      BY <1>0, <2>1, <3>1 DEF Seen, Alone
  <2>3. CASE FlushReview(c) \/ AcceptFacts(c)
    BY <1>0, <2>1, <2>3 DEF FlushReview, AcceptFacts, Seen, Alone, ReviewPoints
  <2>4. CASE ~Decide(c) /\ ~FlushReview(c) /\ ~AcceptFacts(c)
    <3>1. pc'[c] \in {"idle", "pinning", "pinned"}
      <4>1. CASE CommitUpload(c) \/ PinInline(c)
        BY <1>0, <2>1, <4>1, FinishMoves DEF CommitUpload, PinInline, TypeOK
      <4>2. CASE \/ Compensate(c) \/ MarkDeleted(c) \/ CommitReprocess(c)
                 \/ CommitReview(c) \/ CommitResolve(c)
        BY <1>0, <2>1, <4>2, FinishMoves
        DEF Compensate, MarkDeleted, CommitReprocess, CommitReview, CommitResolve
      <4> QED
        BY <1>3, <2>4, <4>1, <4>2 DEF Request
    <3> QED
      BY <1>0, <2>1, <3>1 DEF Seen, Alone, LockedAt, ReviewPoints
  <2> QED
    BY <2>2, <2>3, <2>4
<1>4. ASSUME NEW w \in Workers, Claim(w) PROVE Seen'
  BY <1>0, <1>4, ClaimMoves, ClientsAndWorkers DEF Seen, Alone, LockedAt, ReviewPoints
<1>5. ASSUME NEW p \in Procs, Analysis(p) PROVE Seen'
  <2>0. Alone(p) /\ work[p] \in Work
    BY <1>0, <1>5, AnalysisMoves DEF TypeOK
  <2>1. CASE StartAnalysis(p) /\ Live
    <3>1. work'[p] = [work[p] EXCEPT !.saw = Live]
      BY <1>0, <2>1 DEF StartAnalysis, TypeOK
    <3>2. work'[p].saw
      BY <2>0, <2>1, <3>1 DEF Work
    <3> QED
      BY <1>0, <2>0, <3>2 DEF Seen, Alone
  <2>2. CASE Reconcile(p)
    <3>1. PICK wrong \in BOOLEAN, found \in [Fields -> Decisions] :
            work' = [work EXCEPT ![p] = [work[p] EXCEPT !.mismatch = wrong, !.found = found]]
      BY <2>2 DEF Reconcile
    <3>2. work'[p] = [work[p] EXCEPT !.mismatch = wrong, !.found = found]
      BY <1>0, <3>1 DEF TypeOK
    <3>3. work'[p].saw = work[p].saw /\ pc[p] \in At
      BY <2>0, <2>2, <3>2 DEF Work, Reconcile, LockedAt
    <3> QED
      BY <1>0, <2>0, <3>3 DEF Seen, Alone
  <2>3. CASE Digitize(p) \/ LockForFacts(p)
    BY <1>0, <2>0, <2>3 DEF Digitize, LockForFacts, Seen, Alone, LockedAt
  <2>4. CASE (StartAnalysis(p) /\ ~Live) \/ NoText(p) \/ CommitAnalysis(p) \/ RecordFailure(p)
    <3>1. pc'[p] = "idle"
      BY <1>0, <2>4, FinishMoves DEF StartAnalysis, NoText, CommitAnalysis, RecordFailure
    <3> QED
      BY <1>0, <2>0, <3>1 DEF Seen, Alone, LockedAt, ReviewPoints
  <2> QED
    BY <1>5, <2>1, <2>2, <2>3, <2>4 DEF Analysis
<1>6. ASSUME NEW p \in Procs, Ends(p) PROVE Seen'
  BY <1>0, <1>6, EndMoves DEF Seen, Alone, LockedAt, ReviewPoints
<1>7. ASSUME NEW j \in JobIds, Reclaim(j) PROVE Seen'
  BY <1>0, <1>7 DEF Seen, Reclaim
<1> QED
  BY <1>0, <1>1, <1>2, <1>3, <1>4, <1>5, <1>6, <1>7, OtherSteps

-----------------------------------------------------------------------------
(* Decisions.                                                              *)

\* A step that decides nothing.
LEMMA JudgedKept ==
  ASSUME TypeOK, Judged, NEW p \in Procs, Alone(p), contested' = contested,
         review' = review, runs' \in {runs, runs + 1},
         \A r \in Runs, f \in Fields, via \in {"analysis", "review"} :
           <<r, f, via>> \in applied' => <<r, f, via>> \in applied,
         \/ pc'[p] \notin DecidedAt
         \/ pc[p] \in DecidedAt /\ work' = work
  PROVE  Judged'
<1>1. \A q \in Procs, r \in Runs, f \in Fields : Decides(q, r, f)' => Decides(q, r, f)
  BY DEF Decides, Alone
<1>2. runs \in Nat /\ \A r \in Runs : r <= runs => r <= runs'
  BY Bounds DEF TypeOK, Runs
<1> QED
  BY <1>1, <1>2 DEF Judged

LEMMA DecideJudged == ASSUME IInv, NEW c \in Clients, Decide(c) PROVE Judged'
<1>0. /\ TypeOK /\ Judged /\ ClientsOnly /\ c \in Procs
      /\ UNCHANGED <<review, applied, runs>>
  BY DEF IInv, Procs, Decide
<1>a. Alone(c)
  BY <1>0, RequestMoves DEF Request
<1> DEFINE mine == work'[c].accept \cup work'[c].reject
<1>1. /\ work'[c].run = work[c].run /\ mine \subseteq Pending(work[c].run)
      /\ contested' = contested \cup
           {<<work[c].run, f>> : f \in {g \in mine :
              \E d \in Reviewing \ {c} :
                work[d].run = work[c].run /\ g \in work[d].accept \cup work[d].reject}}
  BY <1>0, DecideKeeps
<1>2. ASSUME NEW q \in Procs \ {c}, NEW r \in Runs, NEW f \in Fields,
             Decides(q, r, f)', Decides(c, r, f)'
      PROVE  <<r, f>> \in contested'
  <2>1. /\ pc[q] \in DecidedAt /\ work[q].run = r /\ f \in work[q].accept \cup work[q].reject
        /\ r = work[c].run /\ f \in mine
    BY <1>a, <1>1, <1>2 DEF Decides, Alone
  <2>2. q \in Reviewing \ {c}
    BY <1>0, <2>1 DEF ClientsOnly, Reviewing, ReviewPoints, DecidedAt, AnalysisPoints
  <2> QED
    BY <1>1, <2>1, <2>2
<1>3. ASSUME NEW q \in Procs \ {c}, NEW r \in Runs, NEW f \in Fields, Decides(q, r, f)'
      PROVE  Decides(q, r, f)
  BY <1>a, <1>3 DEF Decides, Alone
<1>4. contested \subseteq contested'
  BY <1>1
<1>5. ASSUME NEW p \in Procs, NEW q \in Procs, NEW r \in Runs, NEW f \in Fields,
             Decides(p, r, f)', Decides(q, r, f)', <<r, f>> \notin contested'
      PROVE  p = q
  BY <1>0, <1>2, <1>3, <1>4, <1>5 DEF Judged
<1>6. ASSUME NEW p \in Procs, NEW r \in Runs, NEW f \in Fields,
             Decides(p, r, f)', <<r, f>> \notin contested'
      PROVE  review'[r][f] = "pending"
  <2>1. CASE p = c
    BY <1>0, <1>1, <1>6, <2>1 DEF Decides, Pending
  <2>2. CASE p # c
    BY <1>0, <1>3, <1>4, <1>6, <2>2 DEF Judged
  <2> QED
    BY <2>1, <2>2
<1> QED
  BY <1>0, <1>4, <1>5, <1>6 DEF Judged

LEMMA CommitJudged == ASSUME IInv, NEW c \in Clients, CommitReview(c) PROVE Judged'
<1>0. TypeOK /\ Judged /\ RunsKnown /\ c \in Procs /\ Alone(c) /\ pc'[c] = "idle"
  BY ClientsAndWorkers, FinishMoves DEF IInv, CommitReview
<1> DEFINE w == work[c]
           mine == w.accept \cup w.reject
<1>1. /\ pc[c] \in DecidedAt
      /\ mine # {} => w.run \in 1..runs /\ w.run \in Runs
      /\ UNCHANGED <<runs, contested>>
  <2>1. pc[c] \in DecidedAt
    BY DEF CommitReview, DecidedAt
  <2> QED
    BY <1>0, <2>1, Bounds DEF CommitReview, RunsKnown, TypeOK, Runs
<1>2. \A r \in Runs, f \in Fields :
        review'[r][f] = IF r = w.run /\ f \in w.accept THEN "accepted"
                        ELSE IF r = w.run /\ f \in w.reject THEN "rejected"
                        ELSE review[r][f]
  BY <1>0, <1>1 DEF CommitReview, TypeOK
<1>3. \A r \in Runs, f \in Fields : r = w.run /\ f \in mine => Decides(c, r, f)
  BY <1>1 DEF Decides
<1>4. ASSUME NEW q \in Procs, NEW r \in Runs, NEW f \in Fields, Decides(q, r, f)'
      PROVE  q # c /\ Decides(q, r, f)
  BY <1>0, <1>4 DEF Decides, Alone, DecidedAt
<1>5. ASSUME NEW q \in Procs, NEW r \in Runs, NEW f \in Fields,
             Decides(q, r, f)', <<r, f>> \notin contested'
      PROVE  review'[r][f] = "pending"
  <2>1. ~(r = w.run /\ f \in mine)
    BY <1>0, <1>1, <1>3, <1>4, <1>5 DEF Judged
  <2> QED
    BY <1>0, <1>1, <1>2, <1>4, <1>5, <2>1 DEF Judged
<1>6. ASSUME NEW r \in Runs, NEW f \in Fields, NEW via \in {"analysis", "review"},
             <<r, f, via>> \in applied'
      PROVE  r <= runs' /\ (<<r, f>> \notin contested' => review'[r][f] = "accepted")
  <2>1. <<r, f, via>> \in applied \/ (r = w.run /\ f \in w.accept)
    BY <1>6 DEF CommitReview
  <2>2. CASE r = w.run /\ f \in w.accept
    BY <1>0, <1>1, <1>2, <2>2, Bounds DEF TypeOK, Runs
  <2>3. CASE <<r, f, via>> \in applied
    <3>1. r <= runs /\ (<<r, f>> \notin contested => review[r][f] = "accepted")
      BY <1>0, <2>3 DEF Judged
    <3>2. ASSUME <<r, f>> \notin contested PROVE ~(r = w.run /\ f \in mine)
      <4>1. review[r][f] # "pending"
        BY <3>1, <3>2
      <4> QED
        BY <1>0, <1>3, <3>2, <4>1 DEF Judged
    <3> QED
      BY <1>1, <1>2, <3>1, <3>2
  <2> QED
    BY <2>1, <2>2, <2>3
<1>7. ASSUME NEW p \in Procs, NEW q \in Procs, NEW r \in Runs, NEW f \in Fields,
             Decides(p, r, f)', Decides(q, r, f)', <<r, f>> \notin contested'
      PROVE  p = q
  BY <1>0, <1>1, <1>4, <1>7 DEF Judged
<1> QED
  BY <1>5, <1>6, <1>7 DEF Judged

LEMMA AnalysisJudged == ASSUME IInv, NEW p \in Procs, CommitAnalysis(p) PROVE Judged'
<1>0. TypeOK /\ Judged /\ RunsKnown /\ RowHeld /\ Alone(p) /\ pc'[p] = "idle"
  BY FinishMoves DEF IInv, CommitAnalysis
<1>1. /\ runs' = runs + 1 /\ runs + 1 \in Runs /\ contested' = contested /\ runs \in Nat
      /\ \A q \in Procs : work[q].found \in [Fields -> Decisions]
  <2>1. pc[p] \in LockedAt
    BY DEF CommitAnalysis, LockedAt
  <2> QED
    BY <1>0, <2>1, Bounds DEF CommitAnalysis, Completes, RowHeld, TypeOK, Runs, Work
<1>2. ASSUME NEW r \in Runs, NEW f \in Fields
      PROVE  review'[r][f] = IF r = runs + 1 THEN Reviewed(work[p].found[f]) ELSE review[r][f]
  BY <1>0, <1>1 DEF CommitAnalysis, TypeOK
<1>3. ASSUME NEW q \in Procs, NEW r \in Runs, NEW f \in Fields, Decides(q, r, f)'
      PROVE  Decides(q, r, f) /\ r # runs + 1
  <2>1. q # p /\ Decides(q, r, f)
    BY <1>0, <1>3 DEF Decides, Alone, DecidedAt
  <2> QED
    BY <1>0, <1>1, <2>1 DEF Decides, RunsKnown
<1>4. ASSUME NEW r \in Runs, NEW f \in Fields, NEW via \in {"analysis", "review"},
             <<r, f, via>> \in applied'
      PROVE  r <= runs' /\ (<<r, f>> \notin contested' => review'[r][f] = "accepted")
  <2>1. <<r, f, via>> \in applied \/ (r = runs + 1 /\ f \in Having(p, {"apply"}))
    BY <1>4 DEF CommitAnalysis
  <2>2. CASE r = runs + 1 /\ f \in Having(p, {"apply"})
    BY <1>1, <1>2, <2>2 DEF Having, Reviewed
  <2>3. CASE <<r, f, via>> \in applied
    <3>1. r <= runs /\ (<<r, f>> \notin contested => review[r][f] = "accepted")
      BY <1>0, <2>3 DEF Judged
    <3>2. r \in Nat /\ r # runs + 1 /\ r <= runs'
      BY <1>1, <3>1, Bounds DEF Runs
    <3> QED
      BY <1>1, <1>2, <3>1, <3>2
  <2> QED
    BY <2>1, <2>2, <2>3
<1>5. ASSUME NEW q \in Procs, NEW r \in Runs, NEW f \in Fields,
             Decides(q, r, f)', <<r, f>> \notin contested'
      PROVE  review'[r][f] = "pending"
  BY <1>0, <1>1, <1>2, <1>3, <1>5 DEF Judged
<1>6. ASSUME NEW o \in Procs, NEW q \in Procs, NEW r \in Runs, NEW f \in Fields,
             Decides(o, r, f)', Decides(q, r, f)', <<r, f>> \notin contested'
      PROVE  o = q
  BY <1>0, <1>1, <1>3, <1>6 DEF Judged
<1> QED
  BY <1>4, <1>5, <1>6 DEF Judged

LEMMA StepJudged == ASSUME IInv, [Next]_vars PROVE Judged'
<1>0. TypeOK /\ Judged
  BY DEF IInv
<1>1. CASE UNCHANGED vars
  BY <1>0, <1>1 DEF Judged, Decides, vars
<1>2. ASSUME NEW c \in Clients, Ask(c) PROVE Judged'
  BY <1>0, <1>2, AskMoves, JudgedKept, ClientsAndWorkers DEF DecidedAt
<1>3. ASSUME NEW c \in Clients, Request(c) PROVE Judged'
  <2>0. c \in Procs /\ Alone(c) /\ runs' = runs
    BY <1>0, <1>3, RequestMoves, ClientsAndWorkers
  <2>1. CASE FlushReview(c) \/ AcceptFacts(c)
    <3>1. /\ pc[c] \in DecidedAt /\ UNCHANGED <<work, review, applied, contested>>
      BY <2>1 DEF FlushReview, AcceptFacts, DecidedAt
    <3> QED
      BY <1>0, <2>0, <3>1, JudgedKept
  <2>2. CASE CommitUpload(c) \/ PinInline(c)
    <3>1. pc'[c] \notin DecidedAt /\ UNCHANGED <<review, applied, contested>>
      BY <1>0, <2>0, <2>2, FinishMoves DEF CommitUpload, PinInline, DecidedAt, TypeOK
    <3> QED
      BY <1>0, <2>0, <3>1, JudgedKept
  <2>3. CASE Compensate(c) \/ MarkDeleted(c) \/ CommitReprocess(c)
    <3>1. pc'[c] \notin DecidedAt /\ UNCHANGED <<review, applied, contested>>
      BY <1>0, <2>0, <2>3, FinishMoves DEF Compensate, MarkDeleted, CommitReprocess, DecidedAt
    <3> QED
      BY <1>0, <2>0, <3>1, JudgedKept
  <2>4. CASE CommitResolve(c)
    <3>1. pc'[c] \notin DecidedAt /\ UNCHANGED <<review, contested>>
      BY <1>0, <2>0, <2>4, FinishMoves DEF CommitResolve, DecidedAt
    <3>2. \A r, f, via : via # "case" /\ <<r, f, via>> \in applied' => <<r, f, via>> \in applied
      BY <2>4 DEF CommitResolve
    <3> QED
      BY <1>0, <2>0, <3>1, <3>2, JudgedKept
  <2> QED
    BY <1>3, <2>1, <2>2, <2>3, <2>4, DecideJudged, CommitJudged DEF Request
<1>4. ASSUME NEW w \in Workers, Claim(w) PROVE Judged'
  BY <1>0, <1>4, ClaimMoves, ClientsAndWorkers, JudgedKept DEF DecidedAt
<1>5. ASSUME NEW p \in Procs, Analysis(p), ~CommitAnalysis(p) PROVE Judged'
  <2>1. Alone(p) /\ pc'[p] \notin DecidedAt
    BY <1>0, <1>5, AnalysisMoves, ReviewsAreNot
  <2>2. UNCHANGED <<review, applied, contested>> /\ runs' \in {runs, runs + 1}
    BY <1>5 DEF Analysis, StartAnalysis, Digitize, NoText, Completes, Reconcile,
                LockForFacts, RecordFailure
  <2> QED
    BY <1>0, <2>1, <2>2, JudgedKept
<1>6. ASSUME NEW p \in Procs, Ends(p) PROVE Judged'
  BY <1>0, <1>6, EndMoves, JudgedKept DEF DecidedAt
<1>7. ASSUME NEW j \in JobIds, Reclaim(j) PROVE Judged'
  BY <1>0, <1>7 DEF Judged, Decides, Reclaim
<1> QED
  BY <1>0, <1>1, <1>2, <1>3, <1>4, <1>5, <1>6, <1>7, AnalysisJudged, OtherSteps

-----------------------------------------------------------------------------
(* The object and the row.                                                 *)

LEMMA StepStoredHasRow == ASSUME IInv, [Next]_vars PROVE StoredHasRow'
<1>0. TypeOK /\ StoredHasRow
  BY DEF IInv
<1> SUFFICES ASSUME file', docStatus' = "none"
             PROVE  orphaned' \/ \E c \in Clients : pc'[c] \in {"uploading", "compensating"}
  BY DEF StoredHasRow
<1>1. docStatus = "none"
  BY RowStays
<1>2. CASE UNCHANGED vars
  BY <1>0, <1>1, <1>2 DEF StoredHasRow, vars
<1>3. ASSUME NEW c \in Clients, Upload(c) PROVE pc'[c] = "uploading"
  BY <1>0, <1>3, ClientsAndWorkers DEF Upload, Begin, TypeOK
<1>4. ASSUME NEW c \in Clients, CommitUpload(c) \/ Compensate(c) PROVE FALSE
  BY <1>4 DEF CommitUpload, Compensate
<1>5. ASSUME NEW c \in Clients, FailUpload(c) PROVE pc'[c] = "compensating"
  BY <1>0, <1>5, ClientsAndWorkers DEF FailUpload, TypeOK
<1>6. ASSUME NEW c \in Clients, Abandon(c)
      PROVE  orphaned' \/ \E d \in Clients : pc'[d] \in {"uploading", "compensating"}
  <2>1. /\ file /\ Alone(c)
        /\ orphaned' = (orphaned \/ pc[c] \in {"uploading", "compensating"})
    BY <1>0, <1>6, FinishMoves, ClientsAndWorkers DEF Abandon
  <2> QED
    BY <1>0, <1>1, <2>1, ClientsAndWorkers DEF StoredHasRow, Alone
<1> QED
  BY <1>1, <1>2, <1>3, <1>4, <1>5, <1>6, BeforeSteps

\* What can take away an object, make a row, or end a deletion.
LEMMA StepLiveHasFile == ASSUME IInv, [Next]_vars PROVE LiveHasFile'
<1>0. TypeOK /\ LiveHasFile /\ OneUpload
  BY DEF IInv
<1> SUFFICES ASSUME docStatus' # "none", ~deleted', ~file'
             PROVE  halfDeleted' \/ \E c \in Clients : pc'[c] = "removed"
  BY DEF LiveHasFile, Live
<1> DEFINE Missing == halfDeleted \/ \E c \in Clients : pc[c] = "removed"
<1>1. CASE UNCHANGED vars
  BY <1>0, <1>1 DEF LiveHasFile, Live, vars
<1>2. ASSUME Next, docStatus = "none" PROVE FALSE
  <2>1. ASSUME NEW c \in Clients, CommitUpload(c) PROVE FALSE
    BY <1>0, <2>1, ClientsAndWorkers DEF CommitUpload, OneUpload
  <2>2. ASSUME NEW c \in Clients,
               Upload(c) \/ Compensate(c) \/ FailUpload(c) \/ Abandon(c)
        PROVE  FALSE
    BY <1>2, <2>2 DEF Upload, Compensate, FailUpload, Abandon
  <2> QED
    BY <1>2, <2>1, <2>2, BeforeSteps
<1>3. ASSUME Next, docStatus # "none"
      PROVE  halfDeleted' \/ \E c \in Clients : pc'[c] = "removed"
  <2>1. ASSUME deleted' = deleted, file' = file PROVE Missing
    BY <1>0, <1>3, <2>1 DEF LiveHasFile, Live
  <2>2. ASSUME NEW c \in Clients, Ask(c)
        PROVE  halfDeleted' \/ \E d \in Clients : pc'[d] = "removed"
    <3>1. Alone(c) /\ c \in Procs /\ pc[c] = "idle" /\ UNCHANGED <<deleted, halfDeleted>>
      BY <1>0, <2>2, AskMoves, ClientsAndWorkers
    <3>2. CASE DeleteObjects(c)
      BY <1>0, <3>1, <3>2 DEF DeleteObjects, Begin, TypeOK
    <3>3. CASE ~DeleteObjects(c)
      <4>1. file' = file
        BY <1>3, <2>2, <3>3 DEF Ask, Upload, EnqueueReprocess, OpenReview, ResolveCase
      <4> QED
        BY <2>1, <3>1, <4>1, ClientsAndWorkers DEF Alone
    <3> QED
      BY <3>2, <3>3
  <2>3. ASSUME NEW c \in Clients, Request(c)
        PROVE  halfDeleted' \/ \E d \in Clients : pc'[d] = "removed"
    <3>0. c \in Procs /\ Alone(c)
      BY <1>0, <2>3, RequestMoves, ClientsAndWorkers
    <3>1. ~MarkDeleted(c) /\ pc[c] # "removed"
      <4>1. ASSUME MarkDeleted(c) PROVE FALSE
        BY <1>3, <4>1 DEF MarkDeleted, Live
      <4> QED
        BY <2>3, <4>1 DEF Request, CommitUpload, Compensate, PinInline, CommitReprocess,
                          Decide, FlushReview, AcceptFacts, CommitReview, CommitResolve
    <3>2. ~Compensate(c)
      BY <1>0, <1>3, <3>0 DEF Compensate, OneUpload
    <3>3. UNCHANGED <<file, deleted, halfDeleted>>
      BY <2>3, <3>1, <3>2 DEF Request, CommitUpload, PinInline, CommitReprocess,
                              Decide, FlushReview, AcceptFacts, CommitReview, CommitResolve
    <3> QED
      BY <2>1, <3>0, <3>1, <3>3, ClientsAndWorkers DEF Alone
  <2>4. ASSUME NEW w \in Workers, Claim(w)
        PROVE  halfDeleted' \/ \E d \in Clients : pc'[d] = "removed"
    BY <1>0, <2>1, <2>4, ClaimMoves, ClientsAndWorkers DEF Alone
  <2>5. ASSUME NEW p \in Procs, Analysis(p)
        PROVE  halfDeleted' \/ \E d \in Clients : pc'[d] = "removed"
    <3>1. Alone(p) /\ pc[p] # "removed"
      BY <1>0, <2>5, AnalysisMoves DEF AnalysisPoints
    <3>2. UNCHANGED <<file, deleted, halfDeleted>>
      BY <2>5 DEF Analysis, StartAnalysis, Digitize, NoText, Reconcile,
                  LockForFacts, CommitAnalysis, RecordFailure
    <3> QED
      BY <2>1, <3>1, <3>2, ClientsAndWorkers DEF Alone
  <2>6. ASSUME NEW p \in Procs, Ends(p)
        PROVE  halfDeleted' \/ \E d \in Clients : pc'[d] = "removed"
    <3>1. Alone(p) /\ UNCHANGED <<file, deleted>>
      BY <1>0, <2>6, EndMoves
    <3>2. (halfDeleted => halfDeleted') /\ (pc[p] = "removed" => halfDeleted')
      <4>1. CASE RollBack(p) \/ Vanish(p) \/ FailUpload(p)
        BY <4>1 DEF RollBack, Vanish, FailUpload, AnalysisPoints
      <4>2. CASE Abandon(p)
        BY <4>2 DEF Abandon
      <4> QED
        BY <2>6, <4>1, <4>2 DEF Ends
    <3> QED
      BY <2>1, <3>1, <3>2, ClientsAndWorkers DEF Alone
  <2>7. ASSUME NEW j \in JobIds, Reclaim(j)
        PROVE  halfDeleted' \/ \E d \in Clients : pc'[d] = "removed"
    BY <2>1, <2>7 DEF Reclaim
  <2> QED
    BY <1>0, <1>3, <2>2, <2>3, <2>4, <2>5, <2>6, <2>7, OtherSteps
<1> QED
  BY <1>1, <1>2, <1>3

-----------------------------------------------------------------------------
(* The jobs, as JobLifecycle sees them.                                    *)

\* What happens to the rows of the jobs, if anything does.
Changed(j, s) == jstatus' = [jstatus EXCEPT ![j] = s]

LEMMA JobSteps ==
  ASSUME IInv, [Next]_vars
  PROVE  /\ inline \subseteq inline'
         /\ \/ jobs' = jobs
            \/ \E j \in JobIds :
                 /\ jstatus[j] = "absent" /\ Changed(j, "pending")
                 /\ UNCHANGED <<jattempts, inline>>
            \/ \E j \in JobIds :
                 /\ jstatus[j] = "absent" /\ Changed(j, "processing")
                 /\ jattempts' = [jattempts EXCEPT ![j] = 1] /\ inline' = inline \cup {j}
            \/ \E j \in JobIds :
                 /\ jstatus[j] = "pending" /\ jattempts[j] < MaxAttempts
                 /\ Changed(j, "processing")
                 /\ jattempts' = [jattempts EXCEPT ![j] = @ + 1] /\ inline' = inline
            \/ \E j \in JobIds :
                 /\ jstatus[j] = "processing"
                 /\ Changed(j, "completed") \/ Changed(j, "failed")
                 /\ UNCHANGED <<jattempts, inline>>
            \/ \E j \in JobIds :
                 /\ jstatus[j] = "processing" /\ Changed(j, AfterLostAttempt(j))
                 /\ UNCHANGED <<jattempts, inline>>
            \/ \E j \in inline : Changed(j, "failed") /\ UNCHANGED <<jattempts, inline>>
<1> USE DEF Changed
<1>0. TypeOK /\ Fencing
  BY DEF IInv
<1>1. CASE UNCHANGED vars
  BY <1>1 DEF vars
<1>2. ASSUME NEW c \in Clients, Ask(c) PROVE jobs' = jobs
  BY <1>0, <1>2, AskMoves
<1>3. ASSUME NEW c \in Clients, Request(c), ~CommitUpload(c), ~CommitReprocess(c)
      PROVE  jobs' = jobs
  BY <1>3 DEF Request, Compensate, PinInline, MarkDeleted, Decide, FlushReview, AcceptFacts,
              CommitReview, CommitResolve
<1>4. ASSUME NEW c \in Clients, CommitUpload(c)
      PROVE  \E j \in JobIds :
               /\ jstatus[j] = "absent"
               /\ \/ Changed(j, "pending") /\ UNCHANGED <<jattempts, inline>>
                  \/ /\ Changed(j, "processing")
                     /\ jattempts' = [jattempts EXCEPT ![j] = 1] /\ inline' = inline \cup {j}
  BY <1>4 DEF CommitUpload
<1>5. ASSUME NEW c \in Clients, CommitReprocess(c)
      PROVE  /\ \E j \in JobIds : jstatus[j] = "absent" /\ Changed(j, "pending")
             /\ UNCHANGED <<jattempts, inline>>
  BY <1>5 DEF CommitReprocess
<1>6. ASSUME NEW w \in Workers, Claim(w)
      PROVE  /\ \E j \in JobIds :
                  /\ jstatus[j] = "pending" /\ jattempts[j] < MaxAttempts
                  /\ Changed(j, "processing") /\ jattempts' = [jattempts EXCEPT ![j] = @ + 1]
             /\ inline' = inline
  BY <1>6 DEF Claim
<1>7. ASSUME NEW p \in Procs, Analysis(p)
      PROVE  /\ UNCHANGED <<jattempts, inline>> /\ work[p].job \in JobIds
             /\ \/ jobs' = jobs
                \/ /\ jstatus[work[p].job] = "processing"
                   /\ Changed(work[p].job, "completed") \/ Changed(work[p].job, "failed")
                \/ /\ jstatus[work[p].job] = "processing"
                   /\ Changed(work[p].job, AfterLostAttempt(work[p].job))
                \/ work[p].job \in inline /\ Changed(work[p].job, "failed")
  <2>0. /\ pc[p] \in AnalysisPoints /\ AttemptOf(p) /\ work[p].job \in JobIds
        /\ pc[p] # "rolledback" => jstatus[work[p].job] = "processing"
    BY <1>0, <1>7, AnalysisMoves DEF Fencing, Holding, PinnedAt, AttemptOf, Current
  <2>1. CASE Digitize(p) \/ Reconcile(p) \/ LockForFacts(p) \/ (StartAnalysis(p) /\ Live)
    BY <2>0, <2>1 DEF Digitize, Reconcile, LockForFacts, StartAnalysis
  <2>2. CASE NoText(p) \/ CommitAnalysis(p) \/ (StartAnalysis(p) /\ ~Live)
    BY <2>0, <2>2 DEF NoText, CommitAnalysis, Completes, StartAnalysis
  <2>3. CASE RecordFailure(p)
    BY <2>0, <2>3 DEF RecordFailure, AttemptOf
  <2> QED
    BY <1>7, <2>1, <2>2, <2>3 DEF Analysis
<1>8. ASSUME NEW p \in Procs, Ends(p) PROVE jobs' = jobs
  BY <1>0, <1>8, EndMoves
<1>9. ASSUME NEW j \in JobIds, Reclaim(j)
      PROVE  /\ jstatus[j] = "processing" /\ Changed(j, AfterLostAttempt(j))
             /\ UNCHANGED <<jattempts, inline>>
  BY <1>9 DEF Reclaim
<1> QED
  BY <1>0, <1>1, <1>2, <1>3, <1>4, <1>5, <1>6, <1>7, <1>8, <1>9, OtherSteps

LEMMA Transitions == ASSUME IInv, [Next]_vars, NEW j \in JobIds PROVE Life!Transition(j)
<1>0. TypeOK /\ Untried /\ inline \subseteq inline'
  BY JobSteps DEF IInv
<1> USE <1>0 DEF TypeOK, Changed, Life!Transition, Life!Keep
<1>1. CASE j \in inline
  BY <1>1
<1>2. CASE j \notin inline
  <2>1. CASE jobs' = jobs
    BY <2>1
  <2>2. CASE \E k \in JobIds :
               /\ jstatus[k] = "absent" /\ Changed(k, "pending")
               /\ UNCHANGED <<jattempts, inline>>
    BY <1>2, <2>2 DEF Life!Enqueued
  <2>3. CASE \E k \in JobIds :
               /\ jstatus[k] = "absent" /\ Changed(k, "processing")
               /\ jattempts' = [jattempts EXCEPT ![k] = 1] /\ inline' = inline \cup {k}
    BY <1>2, <2>3 DEF Untried
  <2>4. CASE \E k \in JobIds :
               /\ jstatus[k] = "pending" /\ jattempts[k] < MaxAttempts
               /\ Changed(k, "processing")
               /\ jattempts' = [jattempts EXCEPT ![k] = @ + 1] /\ inline' = inline
    BY <1>2, <2>4 DEF Life!Attempted
  <2>5. CASE \E k \in JobIds :
               /\ jstatus[k] = "processing"
               /\ Changed(k, "completed") \/ Changed(k, "failed")
               /\ UNCHANGED <<jattempts, inline>>
    BY <1>2, <2>5 DEF Life!Settled, Life!Terminal
  <2>6. CASE \E k \in JobIds :
               /\ jstatus[k] = "processing" /\ Changed(k, AfterLostAttempt(k))
               /\ UNCHANGED <<jattempts, inline>>
    BY <1>2, <2>6 DEF AfterLostAttempt, Life!Lapsed
  <2>7. CASE \E k \in inline : Changed(k, "failed") /\ UNCHANGED <<jattempts, inline>>
    BY <1>2, <2>7
  <2> QED
    BY <2>1, <2>2, <2>3, <2>4, <2>5, <2>6, <2>7, JobSteps
<1> QED
  BY <1>1, <1>2

-----------------------------------------------------------------------------
(* The theorems.                                                           *)

LEMMA InitIInv == Init => IInv
<1> SUFFICES ASSUME Init PROVE IInv
  OBVIOUS
<1>1. TypeOK
  <2>1. Rested \in Work
    BY RestedType
  <2>2. review \in [Runs -> [Fields -> Reviews]]
    BY DEF Init, Reviews
  <2>3. case \in [Fields -> [open : BOOLEAN, run : 0..RunBound]]
    BY Bounds DEF Init
  <2>4. /\ jstatus \in [JobIds -> {"absent", "pending", "processing", "completed", "failed"}]
        /\ jattempts \in [JobIds -> 0..MaxAttempts] /\ inline \in SUBSET JobIds
    BY Bounds DEF Init
  <2>5. pc \in [Procs -> Points] /\ work \in [Procs -> Work]
    BY <2>1 DEF Init, Points
  <2>6. runs \in 0..RunBound /\ requests \in 0..RequestBound /\ faults \in 0..FaultBound
    BY Bounds DEF Init
  <2> QED
    BY <2>2, <2>3, <2>4, <2>5, <2>6 DEF Init, TypeOK, DocStatuses
<1>2. \A p \in Procs : pc[p] = "idle"
  BY DEF Init
<1>3. ClientsOnly /\ RowHeld /\ Fencing /\ OneUpload /\ Seen
  BY <1>2 DEF ClientsOnly, RowHeld, Fencing, Holding, PinnedAt, AnalysisPoints, LockedAt,
              OneUpload, Seen, ReviewPoints
<1>4. Untried /\ NothingBefore /\ RunsKnown
  BY <1>2 DEF Init, Untried, NothingBefore, RunsKnown, DecidedAt
<1>5. Judged
  BY <1>2 DEF Init, Judged, Decides, DecidedAt
<1>6. StoredHasRow /\ LiveHasFile
  BY DEF Init, StoredHasRow, LiveHasFile, Live
<1> QED
  BY <1>1, <1>3, <1>4, <1>5, <1>6 DEF IInv

LEMMA StepIInv == IInv /\ [Next]_vars => IInv'
<1> SUFFICES ASSUME IInv, [Next]_vars PROVE IInv'
  OBVIOUS
<1>1. TypeOK'
  BY StepType DEF IInv
<1> QED
  BY <1>1, StepClientsOnly, StepRowHeld, StepFencing, StepRunsKnown, StepOneUpload,
     StepNothingBefore, StepSeen, StepJudged, StepStoredHasRow, StepLiveHasFile
  DEF IInv

LEMMA Invariance == Spec => []IInv
<1>1. Init => IInv
  BY InitIInv
<1>2. IInv /\ [Next]_vars => IInv'
  BY StepIInv
<1> QED
  BY <1>1, <1>2, PTL DEF Spec

\* The document, its results, its jobs and every process keep their types; no job of
\* it makes more than MAX_ATTEMPTS attempts.
THEOREM TypeCorrect == Spec => []TypeOK
  BY Invariance, PTL DEF IInv

\* However uploads fail, an object without a row has an upload that will commit the
\* row or compensate, or one was cut off.
THEOREM NoStrayObject == Spec => []StoredHasRow
  BY Invariance, PTL DEF IInv

\* However deletions, uploads and failures overlap, only an unfinished deletion leaves
\* a visible document without its file.
THEOREM NoBrokenDocument == Spec => []LiveHasFile
  BY Invariance, PTL DEF IInv

\* Whatever reviews and analyses overlap, only two reviews of the same candidate can
\* put into the vault what one of them rejected.
THEOREM RejectionsHold == Spec => []RejectedNotApplied
<1>1. IInv => RejectedNotApplied
  <2> SUFFICES ASSUME IInv, NEW r \in Runs, NEW f \in Fields, NEW via \in {"analysis", "review"},
                      review[r][f] = "rejected", <<r, f>> \notin contested,
                      <<r, f, via>> \in applied
               PROVE  FALSE
    BY DEF RejectedNotApplied
  <2> QED
    BY DEF IInv, Judged
<1> QED
  BY <1>1, Invariance, PTL

\* A fact that comes into the vault after the deletion comes from an analysis or a
\* review that had read the document before it, or from a case.
THEOREM NothingNewAfterDeletion == Spec => DeletedGivesNothingNew
<1>1. IInv /\ [Next]_vars =>
        [deleted => \A fact \in applied' \ applied :
           \/ fact[3] = "case"
           \/ \E p \in Procs : work[p].saw /\ pc'[p] = "idle"]_vars
  <2> SUFFICES ASSUME IInv, [Next]_vars, NEW fact \in applied' \ applied
               PROVE  \/ fact[3] = "case"
                      \/ \E p \in Procs : work[p].saw /\ pc'[p] = "idle"
    OBVIOUS
  <2>0. TypeOK /\ Seen
    BY DEF IInv
  <2>1. ASSUME NEW p \in Procs, CommitAnalysis(p) PROVE work[p].saw /\ pc'[p] = "idle"
    BY <2>0, <2>1, FinishMoves DEF CommitAnalysis, Seen, LockedAt
  <2>2. ASSUME NEW c \in Clients, CommitReview(c)
        PROVE  c \in Procs /\ work[c].saw /\ pc'[c] = "idle"
    BY <2>0, <2>2, FinishMoves, ClientsAndWorkers DEF CommitReview, Seen, ReviewPoints
  <2>3. ASSUME NEW c \in Clients, CommitResolve(c) PROVE fact[3] = "case"
    BY <2>3 DEF CommitResolve
  <2>4. ASSUME NEW c \in Clients, Request(c), ~CommitReview(c), ~CommitResolve(c)
        PROVE  applied' = applied
    BY <2>4 DEF Request, CommitUpload, Compensate, PinInline, MarkDeleted, CommitReprocess,
                Decide, FlushReview, AcceptFacts
  <2>5. ASSUME NEW p \in Procs, Analysis(p), ~CommitAnalysis(p) PROVE applied' = applied
    BY <2>5 DEF Analysis, StartAnalysis, Digitize, NoText, Reconcile, LockForFacts,
                RecordFailure
  <2>6. ASSUME NEW c \in Clients, Ask(c) PROVE applied' = applied
    BY <2>0, <2>6, AskMoves
  <2>7. ASSUME NEW w \in Workers, Claim(w) PROVE applied' = applied
    BY <2>0, <2>7, ClaimMoves
  <2>8. ASSUME NEW p \in Procs, Ends(p) PROVE applied' = applied
    BY <2>0, <2>8, EndMoves
  <2>9. CASE UNCHANGED vars \/ \E j \in JobIds : Reclaim(j)
    BY <2>9 DEF vars, Reclaim
  <2> QED
    BY <2>0, <2>1, <2>2, <2>3, <2>4, <2>5, <2>6, <2>7, <2>8, <2>9, OtherSteps
<1> QED
  BY <1>1, Invariance, PTL DEF Spec, DeletedGivesNothingNew

\* The document's jobs implement JobLifecycle, with a worker, a CV's own request and
\* the reclaiming of leases at work on them.
THEOREM JobsLiveTheirLife == Spec => JobsKeepLifecycle
<1>1. Init => Life!Init
  BY DEF Init, Life!Init
<1>2. IInv /\ [Next]_vars => [Life!Next]_(Life!jobVars)
  <2> SUFFICES ASSUME IInv, [Next]_vars PROVE Life!Next
    OBVIOUS
  <2> QED
    BY Transitions DEF Life!Next
<1> QED
  BY <1>1, <1>2, Invariance, PTL DEF Spec, JobsKeepLifecycle, Life!Spec

-----------------------------------------------------------------------------
(* The status of a document and what is left to review.                    *)

\* A run that is not there has no candidates.
FutureEmpty == \A r \in Runs, f \in Fields : r > runs => review[r][f] = "none"

\* While nobody was overtaken, a review is about the latest run, or nothing of that
\* run is left to review; a review that will say "processed" leaves nothing of it.
Foresight(p) ==
  /\ pc[p] = "reviewing" => work[p].run = runs \/ Pending(runs) = {}
  /\ pc[p] \in DecidedAt /\ work[p].status = "processed" =>
       \/ Pending(runs) = {}
       \/ work[p].run = runs /\ Pending(runs) \subseteq work[p].accept \cup work[p].reject

ReviewsCurrent == ~overtaken => \A p \in Procs : Foresight(p)

RInv == FutureEmpty /\ ReviewsCurrent /\ ProcessedIsReviewed

LEMMA InitRInv == Init => RInv
BY DEF Init, RInv, FutureEmpty, ReviewsCurrent, Foresight, ProcessedIsReviewed, DecidedAt

LEMMA NoFuturePending == FutureEmpty /\ runs \in Nat => Pending(runs + 1) = {}
BY DEF FutureEmpty, Pending

\* A step that writes no candidate, no run and no "processed", and after which every
\* open review is at the work it was at.
LEMMA QuietReview ==
  ASSUME RInv, UNCHANGED <<review, runs, overtaken>>,
         docStatus' = docStatus \/ docStatus' # "processed",
         \A p \in Procs : pc'[p] \in {"reviewing"} \cup DecidedAt =>
           /\ work'[p] = work[p]
           /\ pc'[p] = pc[p] \/ (pc[p] \in DecidedAt /\ pc'[p] \in DecidedAt)
  PROVE  RInv'
<1>1. Pending(runs)' = Pending(runs)
  BY DEF Pending
<1>2. FutureEmpty' /\ ProcessedIsReviewed'
  BY <1>1 DEF RInv, FutureEmpty, ProcessedIsReviewed
<1>3. ReviewsCurrent'
  <2> SUFFICES ASSUME ~overtaken, NEW p \in Procs PROVE Foresight(p)'
    BY DEF ReviewsCurrent
  <2>1. Foresight(p)
    BY DEF RInv, ReviewsCurrent
  <2>2. "reviewing" \notin DecidedAt
    BY DEF DecidedAt
  <2> QED
    BY <1>1, <2>1, <2>2 DEF Foresight
<1> QED
  BY <1>2, <1>3 DEF RInv

LEMMA AskReview == ASSUME IInv, RInv, NEW c \in Clients, Ask(c) PROVE RInv'
<1>0. TypeOK /\ c \in Procs
  BY ClientsAndWorkers DEF IInv
<1>1. Alone(c) /\ UNCHANGED <<runs, review, docStatus>>
  BY <1>0, AskMoves
<1>2. overtaken' = overtaken
  BY DEF Ask, Upload, DeleteObjects, EnqueueReprocess, OpenReview, ResolveCase
<1>3. CASE pc'[c] # "reviewing"
  <2>1. pc'[c] \notin {"reviewing"} \cup DecidedAt
    BY <1>0, <1>3, AskMoves DEF DecidedAt
  <2> QED
    BY <1>1, <1>2, <2>1, QuietReview DEF Alone
<1>4. CASE pc'[c] = "reviewing"
  <2>1. OpenReview(c)
    BY <1>0, <1>4 DEF Ask, Upload, DeleteObjects, EnqueueReprocess, ResolveCase, Begin, TypeOK
  <2>2. work'[c].run = runs
    BY <1>0, <2>1 DEF OpenReview, Begin, TypeOK, Rested
  <2>3. Pending(runs)' = Pending(runs)
    BY <1>1 DEF Pending
  <2>4. ReviewsCurrent'
    <3> SUFFICES ASSUME ~overtaken, NEW p \in Procs PROVE Foresight(p)'
      BY <1>2 DEF ReviewsCurrent
    <3>1. CASE p = c
      BY <1>1, <1>4, <2>2, <3>1 DEF Foresight, DecidedAt
    <3>2. CASE p # c
      BY <1>1, <2>3, <3>2 DEF RInv, ReviewsCurrent, Foresight, Alone
    <3> QED
      BY <3>1, <3>2
  <2>5. FutureEmpty' /\ ProcessedIsReviewed'
    BY <1>1, <1>2, <2>3 DEF RInv, FutureEmpty, ProcessedIsReviewed
  <2> QED
    BY <2>4, <2>5 DEF RInv
<1> QED
  BY <1>3, <1>4

\* A decision that leaves nothing says so of the latest run.
LEMMA DecideReview == ASSUME IInv, RInv, NEW c \in Clients, Decide(c) PROVE RInv'
<1>0. TypeOK /\ c \in Procs /\ work[c] \in Work
  BY ClientsAndWorkers DEF IInv, TypeOK
<1>1. PICK accept \in SUBSET Pending(work[c].run), reject \in SUBSET Pending(work[c].run),
           status \in {"none", "awaiting_review", "processed"} :
        /\ work' = [work EXCEPT ![c] = [work[c] EXCEPT !.accept = accept, !.reject = reject,
                                                       !.status = status]]
        /\ status = "processed" => Pending(work[c].run) \subseteq accept \cup reject
  <2>1. PICK accept \in SUBSET Pending(work[c].run), reject \in SUBSET Pending(work[c].run) :
          LET left   == Pending(work[c].run) \ (accept \cup reject)
              status == IF left # {} THEN "awaiting_review" ELSE "processed"
          IN Note(c, [work[c] EXCEPT
                        !.accept = accept, !.reject = reject,
                        !.status = IF status = @ THEN "none" ELSE status])
    BY DEF Decide
  <2> DEFINE left   == Pending(work[c].run) \ (accept \cup reject)
             status == IF left # {} THEN "awaiting_review" ELSE "processed"
             s      == IF status = work[c].status THEN "none" ELSE status
  <2>2. work' = [work EXCEPT ![c] = [work[c] EXCEPT !.accept = accept, !.reject = reject,
                                                    !.status = s]]
    BY <2>1
  <2>3. /\ s \in {"none", "awaiting_review", "processed"}
        /\ s = "processed" => Pending(work[c].run) \subseteq accept \cup reject
    OBVIOUS
  <2> HIDE DEF s
  <2> QED
    BY <2>2, <2>3
<1>2. work'[c] = [work[c] EXCEPT !.accept = accept, !.reject = reject, !.status = status]
  BY <1>0, <1>1 DEF TypeOK
<1>3. /\ work'[c].run = work[c].run /\ work'[c].status = status
      /\ work'[c].accept = accept /\ work'[c].reject = reject
  BY <1>0, <1>2 DEF Work
<1>4. /\ UNCHANGED <<review, runs, docStatus, overtaken>>
      /\ pc[c] = "reviewing" /\ pc'[c] = "decided"
      /\ \A p \in Procs \ {c} : pc'[p] = pc[p] /\ work'[p] = work[p]
  BY <1>0, <1>1 DEF Decide, TypeOK
<1>5. \A r : Pending(r)' = Pending(r)
  BY <1>4 DEF Pending
<1>6. ReviewsCurrent'
  <2> SUFFICES ASSUME ~overtaken, NEW p \in Procs PROVE Foresight(p)'
    BY <1>4 DEF ReviewsCurrent
  <2>1. Foresight(p)
    BY DEF RInv, ReviewsCurrent
  <2>2. CASE p = c
    BY <1>1, <1>3, <1>4, <1>5, <2>1, <2>2 DEF Foresight
  <2>3. CASE p # c
    BY <1>4, <1>5, <2>1, <2>3 DEF Foresight
  <2> QED
    BY <2>2, <2>3
<1>7. FutureEmpty' /\ ProcessedIsReviewed'
  BY <1>4, <1>5 DEF RInv, FutureEmpty, ProcessedIsReviewed
<1> QED
  BY <1>6, <1>7 DEF RInv

\* A review that nobody else overlaps leaves what it foresaw; any other overtakes.
LEMMA CommitReviewReview == ASSUME IInv, RInv, NEW c \in Clients, CommitReview(c) PROVE RInv'
<1>0. TypeOK /\ RunsKnown /\ c \in Procs /\ work[c] \in Work /\ runs \in Nat
  BY ClientsAndWorkers, Bounds DEF IInv, TypeOK
<1> DEFINE w == work[c]
<1>1. pc[c] \in DecidedAt /\ w.run \in 0..runs
  <2>1. pc[c] \in DecidedAt /\ w.run \in Nat
    BY <1>0, Bounds DEF CommitReview, DecidedAt, Work
  <2> QED
    BY <1>0, <2>1 DEF RunsKnown
<1>2. /\ runs' = runs /\ Alone(c) /\ pc'[c] = "idle"
      /\ overtaken' = (overtaken \/ Reviewing # {c})
      /\ docStatus' = IF w.status = "none" THEN docStatus ELSE w.status
  BY <1>0, FinishMoves DEF CommitReview
<1>3. \A r \in Runs, f \in Fields :
        review'[r][f] = IF r # w.run THEN review[r][f]
                        ELSE IF f \in w.accept THEN "accepted"
                        ELSE IF f \in w.reject THEN "rejected" ELSE review[r][f]
  BY <1>0, <1>1 DEF CommitReview, TypeOK
<1>4. FutureEmpty'
  <2> SUFFICES ASSUME NEW r \in Runs, NEW f \in Fields, r > runs
               PROVE  review'[r][f] = "none"
    BY <1>2 DEF FutureEmpty
  <2>1. r # w.run
    BY <1>0, <1>1
  <2> QED
    BY <1>3, <2>1 DEF RInv, FutureEmpty
<1>5. /\ Pending(runs)' \subseteq Pending(runs)
      /\ w.run = runs => Pending(runs)' \cap (w.accept \cup w.reject) = {}
  <2>1. \A f \in Fields : runs \in Runs /\ review'[runs][f] = "pending" =>
          review[runs][f] = "pending" /\ ~(w.run = runs /\ f \in w.accept \cup w.reject)
    BY <1>3
  <2> QED
    BY <1>2, <2>1 DEF Pending
<1>6. ASSUME ~overtaken' PROVE ~overtaken /\ \A p \in Procs : pc'[p] \notin ReviewPoints
  <2>1. ~overtaken /\ Reviewing = {c}
    BY <1>2, <1>6
  <2>2. \A p \in Procs \ {c} : pc[p] \notin ReviewPoints
    <3>1. \A p \in Procs : pc[p] \in ReviewPoints => p \in Clients
      BY DEF IInv, ClientsOnly, ReviewPoints, AnalysisPoints
    <3> QED
      BY <2>1, <3>1 DEF Reviewing
  <2> QED
    BY <1>2, <2>1, <2>2 DEF Alone, ReviewPoints
<1>7. ReviewsCurrent'
  BY <1>6 DEF ReviewsCurrent, Foresight, ReviewPoints, DecidedAt
<1>8. ProcessedIsReviewed'
  <2> SUFFICES ASSUME docStatus' = "processed", ~overtaken' PROVE Pending(runs)' = {}
    BY <1>2 DEF ProcessedIsReviewed
  <2>1. ~overtaken /\ Foresight(c)
    BY <1>0, <1>6 DEF RInv, ReviewsCurrent
  <2>2. CASE w.status = "none"
    BY <1>2, <1>5, <2>1, <2>2 DEF RInv, ProcessedIsReviewed
  <2>3. CASE w.status = "processed"
    BY <1>1, <1>5, <2>1, <2>3 DEF Foresight
  <2> QED
    BY <1>2, <2>2, <2>3
<1> QED
  BY <1>4, <1>7, <1>8 DEF RInv

LEMMA RequestReview == ASSUME IInv, RInv, NEW c \in Clients, Request(c) PROVE RInv'
<1>0. TypeOK /\ c \in Procs
  BY ClientsAndWorkers DEF IInv
<1>1. Alone(c)
  BY <1>0, RequestMoves
<1>2. CASE CommitUpload(c) \/ Compensate(c) \/ PinInline(c) \/ MarkDeleted(c)
           \/ CommitReprocess(c) \/ CommitResolve(c)
  <2>1. /\ UNCHANGED <<review, runs, overtaken>>
        /\ docStatus' = docStatus \/ docStatus' # "processed"
    BY <1>2 DEF CommitUpload, Compensate, PinInline, MarkDeleted, CommitReprocess, CommitResolve
  <2>2. pc'[c] \notin {"reviewing"} \cup DecidedAt
    BY <1>0, <1>2, FinishMoves
    DEF CommitUpload, Compensate, PinInline, MarkDeleted, CommitReprocess, CommitResolve,
        DecidedAt, TypeOK
  <2> QED
    BY <1>1, <2>1, <2>2, QuietReview DEF Alone
<1>3. CASE FlushReview(c) \/ AcceptFacts(c)
  <2>1. UNCHANGED <<review, runs, overtaken, docStatus, work>>
    BY <1>3 DEF FlushReview, AcceptFacts
  <2>2. pc[c] \in DecidedAt /\ pc'[c] \in DecidedAt
    BY <1>0, <1>3 DEF FlushReview, AcceptFacts, DecidedAt, TypeOK
  <2> QED
    BY <1>1, <2>1, <2>2, QuietReview DEF Alone
<1> QED
  BY <1>2, <1>3, DecideReview, CommitReviewReview DEF Request

\* A new run without a question has nothing to review; with one, it says so; and
\* a review that is open has been overtaken.
LEMMA CompletionReview ==
  ASSUME IInv, RInv, NEW p \in Procs, NoText(p) \/ CommitAnalysis(p) PROVE RInv'
<1>0. TypeOK /\ Alone(p) /\ pc'[p] = "idle" /\ runs' = runs + 1 /\ runs \in Nat
  BY FinishMoves, Bounds DEF IInv, NoText, CommitAnalysis, Completes, TypeOK
<1>1. CASE NoText(p)
  <2>1. UNCHANGED <<review, overtaken>> /\ docStatus' # "processed"
    BY <1>1 DEF NoText
  <2>2. Pending(runs)' = {}
    <3>1. Pending(runs)' = Pending(runs + 1)
      BY <1>0, <2>1 DEF Pending
    <3> QED
      BY <1>0, <3>1, NoFuturePending DEF RInv
  <2>3. FutureEmpty'
    BY <1>0, <2>1 DEF RInv, FutureEmpty, Runs
  <2> QED
    BY <2>1, <2>2, <2>3 DEF RInv, ReviewsCurrent, Foresight, ProcessedIsReviewed
<1>2. CASE CommitAnalysis(p)
  <2>1. runs < RunBound /\ runs + 1 \in Runs /\ work[p] \in Work
    BY <1>0, <1>2, Bounds DEF CommitAnalysis, IInv, RowHeld, LockedAt, Runs, TypeOK
  <2>2. \A r \in Runs, f \in Fields :
          review'[r][f] = IF r = runs + 1 THEN Reviewed(work[p].found[f]) ELSE review[r][f]
    BY <1>0, <1>2, <2>1 DEF CommitAnalysis, TypeOK
  <2>3. FutureEmpty'
    BY <1>0, <2>2 DEF RInv, FutureEmpty, Runs
  <2>4. ReviewsCurrent'
    <3> SUFFICES ASSUME ~overtaken', NEW q \in Procs PROVE Foresight(q)'
      BY DEF ReviewsCurrent
    <3>1. Reviewing = {}
      BY <1>2 DEF CommitAnalysis
    <3>2. pc[q] \notin ReviewPoints
      BY <3>1 DEF Reviewing, IInv, ClientsOnly, ReviewPoints, AnalysisPoints
    <3> QED
      BY <1>0, <3>2 DEF Foresight, Alone, ReviewPoints, DecidedAt
  <2>5. ProcessedIsReviewed'
    <3> SUFFICES ASSUME docStatus' = "processed" PROVE Pending(runs)' = {}
      BY DEF ProcessedIsReviewed
    <3>1. Having(p, {"propose", "conflict"}) = {}
      BY <1>2 DEF CommitAnalysis, AfterAnalysis
    <3>2. \A f \in Fields : work[p].found[f] \in {"none", "apply"}
      BY <2>1, <3>1 DEF Having, Work, Decisions
    <3>3. \A f \in Fields : review'[runs + 1][f] # "pending"
      BY <2>1, <2>2, <3>2 DEF Reviewed
    <3> QED
      BY <1>0, <3>3 DEF Pending
  <2> QED
    BY <2>3, <2>4, <2>5 DEF RInv
<1> QED
  BY <1>1, <1>2

LEMMA AnalysisReview == ASSUME IInv, RInv, NEW p \in Procs, Analysis(p) PROVE RInv'
<1>0. TypeOK /\ Alone(p) /\ pc'[p] \in AnalysisPoints \cup {"idle"}
  BY AnalysisMoves DEF IInv
<1>1. CASE NoText(p) \/ CommitAnalysis(p)
  BY <1>1, CompletionReview
<1>2. CASE ~(NoText(p) \/ CommitAnalysis(p))
  <2>1. UNCHANGED <<review, runs, overtaken, docStatus>>
    BY <1>2 DEF Analysis, StartAnalysis, Digitize, Reconcile, LockForFacts, RecordFailure
  <2>2. pc'[p] \notin {"reviewing"} \cup DecidedAt
    BY <1>0 DEF AnalysisPoints, DecidedAt
  <2> QED
    BY <1>0, <2>1, <2>2, QuietReview DEF Alone
<1> QED
  BY <1>1, <1>2

LEMMA StepRInv == ASSUME IInv, [Next]_vars, RInv PROVE RInv'
<1>0. TypeOK
  BY DEF IInv
<1>1. CASE UNCHANGED vars
  BY <1>1, QuietReview DEF vars
<1>2. ASSUME NEW c \in Clients, Ask(c) \/ Request(c) PROVE RInv'
  BY <1>2, AskReview, RequestReview
<1>3. ASSUME NEW w \in Workers, Claim(w) PROVE RInv'
  <2>1. /\ Alone(w) /\ pc'[w] = "pinned" /\ UNCHANGED <<document, results, history>>
    BY <1>0, <1>3, ClaimMoves
  <2> QED
    BY <2>1, QuietReview DEF Alone, DecidedAt
<1>4. ASSUME NEW p \in Procs, Analysis(p) PROVE RInv'
  BY <1>4, AnalysisReview
<1>5. ASSUME NEW p \in Procs, Ends(p) PROVE RInv'
  <2>1. /\ Alone(p) /\ UNCHANGED <<document, results>>
        /\ pc'[p] \notin {"reviewing"} \cup DecidedAt
    BY <1>0, <1>5, EndMoves DEF DecidedAt
  <2>2. overtaken' = overtaken
    BY <1>5 DEF Ends, RollBack, Vanish, Abandon, FailUpload
  <2> QED
    BY <2>1, <2>2, QuietReview DEF Alone
<1>6. ASSUME NEW j \in JobIds, Reclaim(j) PROVE RInv'
  BY <1>6, QuietReview DEF Reclaim
<1> QED
  BY <1>0, <1>1, <1>2, <1>3, <1>4, <1>5, <1>6, OtherSteps

\* Whatever analyses, reviews and failures overlap, a document shown as processed
\* leaves nothing of its latest run to review, unless another commit came between
\* what a review read and its own.
THEOREM ProcessedMeansReviewed == Spec => []ProcessedIsReviewed
<1>1. Init => IInv /\ RInv
  BY InitIInv, InitRInv
<1>2. (IInv /\ RInv) /\ [Next]_vars => (IInv /\ RInv)'
  BY StepIInv, StepRInv
<1>3. RInv => ProcessedIsReviewed
  BY DEF RInv
<1> QED
  BY <1>1, <1>2, <1>3, PTL DEF Spec
=============================================================================
