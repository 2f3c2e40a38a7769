----------------------------- MODULE GoalProofs -----------------------------
(***************************************************************************)
(* The refresh of a goal's intelligence (GoalRefresh), for any number of   *)
(* editors, activators, workers, jobs, edits and crashes and with racing   *)
(* claims: the model keeps its types; an analysis that is shown as usable  *)
(* was computed from the current profile and anchors, when no edit is a    *)
(* second onboarding form; a goal that waits has a job until a worker      *)
(* stops or stalls; the unlocked activation endpoint is the only reason    *)
(* for a second live job; and the jobs take only steps of JobLifecycle.    *)
(*                                                                         *)
(* Which goal is pursued (GoalPursuit, seen as P), for any number of goals,*)
(* writers and requests: as long as nothing overlaps a request of the      *)
(* endpoint, at most one goal is active, and it is the one that the thread *)
(* points at, if the thread points at a goal.                              *)
(***************************************************************************)
EXTENDS GoalRefresh, PursuedGoal, FiniteSetTheorems, WellFoundedInduction, TLAPS

\* The requests that choose which goal is pursued.
CONSTANTS Holders, Endpoints, RequestBound, EndpointsAlone, Unread, NoThread
VARIABLES pursuitLock, point, target, known, thread, rivals, makes, requests

P == INSTANCE GoalPursuit WITH personLock <- pursuitLock, rpc <- point

-----------------------------------------------------------------------------
(* The inductive invariant of the analysis that is shown.                  *)

\* An open editor holds the person's lock.
EditorLocks ==
  \A r \in Editors : rpc[r] # "idle" => rpc[r] = "flushed" /\ personLock = r

\* What an open editor is about to change is either marked in its transaction
\* or already shown as outdated.
EditMarked ==
  \A r \in Editors : rpc[r] = "flushed" =>
    /\ kind[r] = "anchors" => touches[r]
    /\ kind[r] = "relevant" => touches[r] \/ ~Usable
    /\ kind[r] # "onboarding"

HasGoal    == {"gotGoal", "gotVersion", "analyzed"}
HasVersion == {"gotVersion", "analyzed"}

\* What an attempt can tell from the revisions it read.
AttemptKnows ==
  \A w \in Workers :
    /\ wpc[w] \in HasGoal => wanchors[w] = anchors \/ w \in moved
    /\ wpc[w] \in HasVersion => wversion[w] <= version
    /\ wpc[w] = "analyzed" => wfacts[w] = facts \/ wversion[w] < version

IInv ==
  /\ TypeOK
  /\ EditorLocks
  /\ EditMarked
  /\ AttemptKnows
  /\ ReadyIsCurrent

Requests == Editors \cup Activators

-----------------------------------------------------------------------------
(* Type correctness, by groups of variables.                               *)

LEMMA IdleTypes ==
  ASSUME TypeOK, NEW w \in Workers, WorkerIdle(w)
  PROVE  /\ wpc' \in [Workers -> WorkPoints]
         /\ wjob' \in [Workers -> JobIds \cup {NoJob}]
         /\ watt' \in [Workers -> 0..MaxAttempts]
         /\ wanchors' \in [Workers -> Nat]
         /\ wversion' \in [Workers -> Nat]
         /\ wfacts' \in [Workers -> Nat]
         /\ wresearch' \in [Workers -> Researched]
  BY ConstantTypes DEF TypeOK, WorkerIdle, WorkPoints, Researched

LEMMA DoneTypes ==
  ASSUME TypeOK, NEW r \in Requests, RequestDone(r)
  PROVE  /\ rpc' \in [Editors \cup Activators -> {"idle", "read", "flushed"}]
         /\ stages' \in [Editors \cup Activators -> BOOLEAN]
         /\ touches' \in [Editors \cup Activators -> BOOLEAN]
         /\ goalLock' \in Editors \cup Activators \cup {Nobody}
         /\ kind' \in [Editors -> Kinds]
         /\ seen' \in [Activators -> [status : GoalStatuses, active : BOOLEAN]]
<1>1. Unseen \in [status : GoalStatuses, active : BOOLEAN] /\ "relevant" \in Kinds
  BY DEF Unseen, GoalStatuses, Kinds
<1> QED
  BY <1>1 DEF TypeOK, RequestDone, Requests

LEMMA StatusTypes ==
  ASSUME TypeOK, NEW s \in GoalStatuses, SetGoalStatus(s)
  PROVE  goalStatus' \in GoalStatuses /\ moved' \in SUBSET Workers
  BY DEF TypeOK, SetGoalStatus

LEMMA StagedTypes ==
  ASSUME TypeOK, NEW r, NEW k \in JobKinds, InsertJob(r, k)
  PROVE  jstatus' \in [JobIds -> JobStatuses] /\ jkind' \in [JobIds -> JobKinds]
  BY DEF TypeOK, InsertJob, JobStatuses

LEMMA InitType == Init => TypeOK
<1>1. Init => overtaken \in BOOLEAN
  BY DEF Init
<1> QED
  BY <1>1, ConstantTypes
  DEF Init, TypeOK, GoalStatuses, JobStatuses, JobKinds, Kinds, WorkPoints, Researched, Unseen

LEMMA RequestType ==
  ASSUME TypeOK, [Next]_vars,
         \/ \E r \in Editors, k \in EditKinds : Edit(r, k)
         \/ \E r \in Editors : CommitEdit(r)
         \/ \E r \in Activators : ReadGoal(r) \/ CheckJobs(r) \/ CommitActivation(r)
         \/ \E r \in Editors \cup Activators : Abandon(r)
  PROVE  TypeOK'
<1>1. ASSUME NEW r \in Editors, NEW k \in EditKinds, Edit(r, k) PROVE TypeOK'
  <2>1. edits' \in 0..EditBound
    BY <1>1, ConstantTypes DEF Edit, TypeOK
  <2>2. touches' \in [Editors \cup Activators -> BOOLEAN]
    BY <1>1 DEF Edit, TypeOK, Affects
  <2>3. stages' \in [Editors \cup Activators -> BOOLEAN]
    BY <1>1 DEF Edit, TypeOK, Affects, Enqueues, StagesJob
  <2>4. goalLock' \in Editors \cup Activators \cup {Nobody} /\ personLock' \in Editors \cup {Nobody}
    BY <1>1 DEF Edit, TypeOK
  <2>5. /\ kind' \in [Editors -> Kinds]
        /\ rpc' \in [Editors \cup Activators -> {"idle", "read", "flushed"}]
    BY <1>1, KnownKinds DEF Edit, TypeOK
  <2> QED
    BY <1>1, <2>1, <2>2, <2>3, <2>4, <2>5
    DEF Edit, TypeOK, profile, goal, analysis, jobs, worker
<1>2. ASSUME NEW r \in Editors, CommitEdit(r) PROVE TypeOK'
  <2>1. version' \in Nat /\ facts' \in Nat /\ anchors' \in Nat
    BY <1>2 DEF CommitEdit, TypeOK, profile
  <2>2. goalStatus' \in GoalStatuses /\ moved' \in SUBSET Workers /\ active' \in BOOLEAN
    BY <1>2 DEF CommitEdit, TypeOK, GoalStatuses
  <2>3. jstatus' \in [JobIds -> JobStatuses] /\ jkind' \in [JobIds -> JobKinds]
    <3>1. StagedKind(kind[r]) \in JobKinds
      BY DEF StagedKind, JobKinds
    <3> QED
      BY <1>2, <3>1, StagedTypes DEF CommitEdit
  <2>4. /\ rpc' \in [Editors \cup Activators -> {"idle", "read", "flushed"}]
        /\ stages' \in [Editors \cup Activators -> BOOLEAN]
        /\ touches' \in [Editors \cup Activators -> BOOLEAN]
        /\ goalLock' \in Editors \cup Activators \cup {Nobody}
        /\ kind' \in [Editors -> Kinds]
        /\ seen' \in [Activators -> [status : GoalStatuses, active : BOOLEAN]]
    BY <1>2, DoneTypes DEF CommitEdit, Requests
  <2> QED
    BY <1>2, <2>1, <2>2, <2>3, <2>4 DEF CommitEdit, TypeOK, analysis, worker, bounds
<1>3. ASSUME NEW r \in Activators, ReadGoal(r) PROVE TypeOK'
  <2>1. activations' \in 0..ActivationBound
    BY <1>3, ConstantTypes DEF ReadGoal, TypeOK
  <2>2. seen' \in [Activators -> [status : GoalStatuses, active : BOOLEAN]]
    BY <1>3 DEF ReadGoal, TypeOK
  <2> QED
    BY <1>3, <2>1, <2>2 DEF ReadGoal, TypeOK, profile, goal, analysis, jobs, held, worker
<1>4. ASSUME NEW r \in Activators, CheckJobs(r) PROVE TypeOK'
  <2>1. /\ touches' \in [Editors \cup Activators -> BOOLEAN]
        /\ stages' \in [Editors \cup Activators -> BOOLEAN]
        /\ goalLock' \in Editors \cup Activators \cup {Nobody}
    BY <1>4 DEF CheckJobs, TypeOK, StagesJob
  <2> QED
    BY <1>4, <2>1 DEF CheckJobs, TypeOK, profile, goal, analysis, jobs, worker, bounds
<1>5. ASSUME NEW r \in Activators, CommitActivation(r) PROVE TypeOK'
  <2>1. jstatus' \in [JobIds -> JobStatuses] /\ jkind' \in [JobIds -> JobKinds]
    BY <1>5, StagedTypes DEF CommitActivation, JobKinds
  <2>2. active' \in BOOLEAN /\ moved' \in SUBSET Workers
    BY <1>5 DEF CommitActivation, TypeOK
  <2>3. /\ rpc' \in [Editors \cup Activators -> {"idle", "read", "flushed"}]
        /\ stages' \in [Editors \cup Activators -> BOOLEAN]
        /\ touches' \in [Editors \cup Activators -> BOOLEAN]
        /\ goalLock' \in Editors \cup Activators \cup {Nobody}
        /\ kind' \in [Editors -> Kinds]
        /\ seen' \in [Activators -> [status : GoalStatuses, active : BOOLEAN]]
    BY <1>5, DoneTypes DEF CommitActivation, Requests
  <2> QED
    BY <1>5, <2>1, <2>2, <2>3 DEF CommitActivation, TypeOK, profile, analysis, worker, bounds
<1>6. ASSUME NEW r \in Editors \cup Activators, Abandon(r) PROVE TypeOK'
  <2>1. personLock' \in Editors \cup {Nobody}
    BY <1>6 DEF Abandon, TypeOK
  <2> QED
    BY <1>6, <2>1, DoneTypes
    DEF Abandon, Requests, TypeOK, profile, goal, analysis, jobs, worker, bounds
<1> QED
  BY <1>1, <1>2, <1>3, <1>4, <1>5, <1>6

LEMMA WorkerType ==
  ASSUME TypeOK,
         \/ \E w \in Workers : Claim(w) \/ Attempt(w) \/ Crash(w)
         \/ \E j \in JobIds : Reclaim(j)
  PROVE  TypeOK'
<1>1. ASSUME NEW w \in Workers, Claim(w) PROVE TypeOK'
  <2>1. PICK j \in JobIds :
          /\ Claimable(j)
          /\ jstatus' = [jstatus EXCEPT ![j] = "processing"]
          /\ jattempts' = [jattempts EXCEPT ![j] = @ + 1]
          /\ wjob' = [wjob EXCEPT ![w] = j]
          /\ watt' = [watt EXCEPT ![w] = jattempts[j] + 1]
    BY <1>1 DEF Claim
  <2>2. jattempts[j] + 1 \in 0..MaxAttempts
    BY <2>1, ConstantTypes DEF TypeOK, Claimable
  <2>3. /\ jstatus' \in [JobIds -> JobStatuses]
        /\ jattempts' \in [JobIds -> 0..MaxAttempts]
        /\ wjob' \in [Workers -> JobIds \cup {NoJob}]
        /\ watt' \in [Workers -> 0..MaxAttempts]
    BY <2>1, <2>2 DEF TypeOK, JobStatuses
  <2>4. wpc' \in [Workers -> WorkPoints]
    BY <1>1 DEF Claim, TypeOK, WorkPoints
  <2> QED
    BY <1>1, <2>3, <2>4 DEF Claim, TypeOK, profile, goal, analysis, held, request, bounds
<1>2. ASSUME NEW w \in Workers, LoadGoal(w) \/ LoadVersion(w) \/ RollBack(w)
      PROVE  TypeOK'
  BY <1>2
  DEF LoadGoal, LoadVersion, RollBack, TypeOK, WorkPoints, profile, goal, analysis,
      jobs, held, request, bounds
<1>8. ASSUME NEW w \in Workers, Analyze(w) PROVE TypeOK'
  <2>1. ResearchOf(w) \subseteq Researched
    BY DEF ResearchOf, RunResearch, Researched, TypeOK
  <2>2. wresearch' \in [Workers -> Researched]
    BY <1>8, <2>1 DEF Analyze, TypeOK
  <2> QED
    BY <1>8, <2>2
    DEF Analyze, TypeOK, WorkPoints, profile, goal, analysis, jobs, held, request, bounds
<1>3. ASSUME NEW w \in Workers, Publish(w) PROVE TypeOK'
  <2>1. goalStatus' \in GoalStatuses /\ moved' \in SUBSET Workers
    BY <1>3, StatusTypes DEF Publish, Outcomes, GoalStatuses
  <2>2. /\ result' \in Inputs \cup {NoResult} /\ research' \in Researched
        /\ jstatus' \in [JobIds -> JobStatuses]
    BY <1>3 DEF Publish, TypeOK, Inputs, JobStatuses
  <2> QED
    BY <1>3, <2>1, <2>2, IdleTypes DEF Publish, TypeOK, profile, held, request, bounds
<1>4. ASSUME NEW w \in Workers, Requeue(w) PROVE TypeOK'
  <2>1. goalStatus' \in GoalStatuses /\ moved' \in SUBSET Workers
    BY <1>4, StatusTypes DEF Requeue, GoalStatuses
  <2>2. jstatus' \in [JobIds -> JobStatuses]
    BY <1>4 DEF Requeue, TypeOK, JobStatuses
  <2>3. jattempts' \in [JobIds -> 0..MaxAttempts]
    <3>1. 0 \in 0..MaxAttempts
      BY ConstantTypes
    <3> QED
      BY <1>4, <3>1 DEF Requeue, TypeOK
  <2> QED
    BY <1>4, <2>1, <2>2, <2>3, IdleTypes
    DEF Requeue, TypeOK, profile, analysis, held, request, bounds
<1>5. ASSUME NEW w \in Workers, RecordFailure(w) PROVE TypeOK'
  <2>1. /\ goalStatus' \in GoalStatuses /\ moved' \in SUBSET Workers
        /\ overtaken' \in BOOLEAN
    BY <1>5, StatusTypes
    DEF RecordFailure, AfterLostAttempt, GoalStatuses, TypeOK
  <2>2. jstatus' \in [JobIds -> JobStatuses]
    BY <1>5 DEF RecordFailure, AfterLostAttempt, TypeOK, JobStatuses
  <2> QED
    BY <1>5, <2>1, <2>2, IdleTypes
    DEF RecordFailure, TypeOK, profile, analysis, held, request
<1>6. ASSUME NEW w \in Workers, Crash(w) PROVE TypeOK'
  <2>1. crashes' \in 0..CrashBound
    BY <1>6, ConstantTypes DEF Crash, TypeOK
  <2> QED
    BY <1>6, <2>1, IdleTypes DEF Crash, TypeOK, profile, goal, analysis, jobs, held, request
<1>7. ASSUME NEW j \in JobIds, Reclaim(j) PROVE TypeOK'
  <2>1. crashes' \in 0..CrashBound
    BY <1>7, ConstantTypes DEF Reclaim, TypeOK
  <2>2. jstatus' \in [JobIds -> JobStatuses]
    BY <1>7 DEF Reclaim, AfterLostAttempt, TypeOK, JobStatuses
  <2> QED
    BY <1>7, <2>1, <2>2 DEF Reclaim, TypeOK, profile, goal, analysis, held, request, worker
<1> QED
  BY <1>1, <1>2, <1>3, <1>4, <1>5, <1>6, <1>7, <1>8 DEF Attempt

LEMMA NextType == TypeOK /\ [Next]_vars => TypeOK'
<1> SUFFICES ASSUME TypeOK, [Next]_vars PROVE TypeOK'
  OBVIOUS
<1>1. CASE UNCHANGED vars
  BY <1>1 DEF TypeOK, vars, profile, goal, analysis, jobs, held, request, worker, bounds
<1> QED
  BY <1>1, RequestType, WorkerType DEF Next

\* The model keeps its types, for every value of the constants.
THEOREM TypeCorrect == Spec => []TypeOK
  BY InitType, NextType, PTL DEF Spec

-----------------------------------------------------------------------------
(* The invariant is inductive.                                             *)

LEMMA InitIInv == Init => IInv
<1> SUFFICES ASSUME Init PROVE IInv
  OBVIOUS
<1>1. TypeOK
  BY InitType
<1>2. EditorLocks /\ EditMarked /\ AttemptKnows /\ ReadyIsCurrent
  BY DEF Init, EditorLocks, EditMarked, AttemptKnows, ReadyIsCurrent, Usable, HasGoal,
         HasVersion
<1> QED
  BY <1>1, <1>2 DEF IInv

\* An edit that opens marks what it is about to outdate.
LEMMA EditKeeps ==
  ASSUME IInv, NEW r \in Editors, NEW k \in EditKinds, Edit(r, k), TypeOK',
         "onboarding" \notin EditKinds
  PROVE  IInv'
<1>1. EditorLocks'
  BY Distinct DEF Edit, IInv, EditorLocks, TypeOK
<1>2. EditMarked'
  <2> SUFFICES ASSUME NEW q \in Editors, rpc'[q] = "flushed"
               PROVE  /\ kind'[q] = "anchors" => touches'[q]
                      /\ kind'[q] = "relevant" => touches'[q] \/ ~Usable'
                      /\ kind'[q] # "onboarding"
    BY DEF EditMarked
  <2>1. CASE q # r
    BY <2>1, Distinct DEF Edit, IInv, EditorLocks, TypeOK, worker
  <2>2. CASE q = r
    <3>1. /\ kind'[r] = k
          /\ k # "pursuit" =>
               touches'[r] = (Affects(k) /\ (goalStatus # "stale" \/ k = "anchors"))
      BY DEF Edit, IInv, TypeOK
    <3>2. goalStatus' = goalStatus
      BY DEF Edit, goal
    <3> QED
      BY <2>2, <3>1, <3>2 DEF Affects, Usable
  <2> QED
    BY <2>1, <2>2
<1>3. AttemptKnows' /\ ReadyIsCurrent'
  BY DEF Edit, IInv, AttemptKnows, ReadyIsCurrent, Usable, profile, goal, analysis, worker
<1> QED
  BY <1>1, <1>2, <1>3 DEF IInv

\* The commit outdates no usable analysis without its mark, and every attempt
\* that is under way can tell.
LEMMA CommitEditKeeps ==
  ASSUME IInv, NEW r \in Editors, CommitEdit(r), TypeOK'
  PROVE  IInv'
<1>1. personLock = r /\ rpc[r] = "flushed"
  BY DEF CommitEdit, IInv, EditorLocks
<1>2. \A q \in Editors : q # r => rpc[q] = "idle"
  BY <1>1, Distinct DEF IInv, EditorLocks
<1>3. \A q \in Editors : rpc'[q] = "idle"
  BY <1>2 DEF CommitEdit, RequestDone, IInv, TypeOK
<1>4. EditorLocks' /\ EditMarked'
  BY <1>3 DEF EditorLocks, EditMarked
<1>5. AttemptKnows'
  <2> SUFFICES ASSUME NEW w \in Workers
               PROVE  /\ wpc[w] \in HasGoal => wanchors[w] = anchors' \/ w \in moved'
                      /\ wpc[w] \in HasVersion => wversion[w] <= version'
                      /\ wpc[w] = "analyzed" => wfacts[w] = facts' \/ wversion[w] < version'
    BY DEF AttemptKnows, CommitEdit, worker
  <2>1. wpc[w] \in HasGoal => wanchors[w] = anchors' \/ w \in moved'
    <3>1. CASE kind[r] = "anchors"
      BY <1>1, <3>1 DEF CommitEdit, IInv, EditMarked
    <3>2. CASE kind[r] # "anchors"
      BY <3>2 DEF CommitEdit, IInv, AttemptKnows
    <3> QED
      BY <3>1, <3>2
  <2>0. kind[r] \in Kinds /\ kind[r] # "onboarding"
    BY <1>1 DEF IInv, TypeOK, EditMarked
  <2>2. version \in Nat /\ wversion[w] \in Nat
    BY DEF IInv, TypeOK
  <2>3. \/ version' = version + 1
        \/ version' = version /\ facts' = facts
    BY <2>0 DEF CommitEdit, IInv, TypeOK, Kinds
  <2>4. /\ wpc[w] \in HasVersion => wversion[w] <= version
        /\ wpc[w] = "analyzed" => wfacts[w] = facts \/ wversion[w] < version
    BY DEF IInv, AttemptKnows
  <2>5. "analyzed" \in HasVersion
    BY DEF HasVersion
  <2> QED
    BY <2>1, <2>2, <2>3, <2>4, <2>5
<1>6. ReadyIsCurrent'
  <2>1. CASE touches[r]
    BY <2>1 DEF CommitEdit, IInv, ReadyIsCurrent, Usable, analysis
  <2>2. CASE ~touches[r]
    BY <1>1, <2>2 DEF CommitEdit, IInv, EditMarked, ReadyIsCurrent, Usable,
        analysis
  <2> QED
    BY <2>1, <2>2
<1> QED
  BY <1>4, <1>5, <1>6 DEF IInv

LEMMA ActivatorKeeps ==
  ASSUME IInv, NEW r \in Activators, ReadGoal(r) \/ CheckJobs(r) \/ CommitActivation(r), TypeOK'
  PROVE  IInv'
<1>1. \A q \in Editors : rpc'[q] = rpc[q] /\ touches'[q] = touches[q]
  BY Distinct DEF ReadGoal, CheckJobs, CommitActivation, RequestDone, IInv, TypeOK
<1>2. /\ UNCHANGED <<personLock, goalStatus, anchors, version, facts, result>>
      /\ UNCHANGED <<wpc, wanchors, wversion, wfacts>>
      /\ \A q \in Editors : kind'[q] = kind[q]
  BY Distinct
  DEF ReadGoal, CheckJobs, CommitActivation, RequestDone, goal, profile, analysis, held, worker
<1>3. moved' = moved \/ moved' = Workers
  BY DEF ReadGoal, CheckJobs, CommitActivation, goal
<1>4. EditorLocks' /\ EditMarked'
  BY <1>1, <1>2 DEF IInv, EditorLocks, EditMarked, Usable
<1>5. AttemptKnows' /\ ReadyIsCurrent'
  BY <1>2, <1>3 DEF IInv, AttemptKnows, ReadyIsCurrent, Usable
<1> QED
  BY <1>4, <1>5 DEF IInv

LEMMA AbandonKeeps ==
  ASSUME IInv, NEW r \in Editors \cup Activators, Abandon(r), TypeOK'
  PROVE  IInv'
<1>1. UNCHANGED <<profile, goal, result, worker>>
  BY DEF Abandon, analysis
<1>2. rpc'[r] = "idle"
  BY DEF Abandon, RequestDone, IInv, TypeOK
<1>3. \A q \in Editors : q # r =>
        /\ rpc'[q] = rpc[q] /\ touches'[q] = touches[q] /\ kind'[q] = kind[q]
        /\ personLock = q => personLock' = q
  BY DEF Abandon, RequestDone, IInv, TypeOK
<1>4. EditorLocks' /\ EditMarked'
  BY <1>1, <1>2, <1>3 DEF IInv, EditorLocks, EditMarked, Usable, goal
<1>5. AttemptKnows' /\ ReadyIsCurrent'
  BY <1>1 DEF IInv, AttemptKnows, ReadyIsCurrent, Usable, profile, goal, worker
<1> QED
  BY <1>4, <1>5 DEF IInv

\* A worker that goes idle, or moves on with no status written, tells nothing.
LEMMA IdleKnows ==
  ASSUME IInv, NEW w \in Workers, WorkerIdle(w), UNCHANGED profile, UNCHANGED anchors,
         moved' = moved \/ moved' = Workers
  PROVE  AttemptKnows'
<1> SUFFICES ASSUME NEW v \in Workers
             PROVE  /\ wpc'[v] \in HasGoal => wanchors'[v] = anchors' \/ v \in moved'
                    /\ wpc'[v] \in HasVersion => wversion'[v] <= version'
                    /\ wpc'[v] = "analyzed" => wfacts'[v] = facts' \/ wversion'[v] < version'
  BY DEF AttemptKnows
<1>1. CASE v = w
  BY <1>1 DEF WorkerIdle, IInv, TypeOK, HasGoal, HasVersion
<1>2. CASE v # w
  BY <1>2 DEF WorkerIdle, IInv, TypeOK, AttemptKnows, profile
<1> QED
  BY <1>1, <1>2

LEMMA LoadKeeps ==
  ASSUME IInv, NEW w \in Workers,
         Claim(w) \/ LoadGoal(w) \/ LoadVersion(w) \/ Analyze(w) \/ RollBack(w), TypeOK'
  PROVE  IInv'
<1>1. UNCHANGED <<request, personLock, goalStatus, anchors, version, facts, result>>
  BY DEF Claim, LoadGoal, LoadVersion, Analyze, RollBack, goal, profile, analysis, held
<1>2. EditorLocks' /\ EditMarked' /\ ReadyIsCurrent'
  BY <1>1 DEF IInv, EditorLocks, EditMarked, ReadyIsCurrent, Usable, request
<1>3. AttemptKnows'
  <2> SUFFICES ASSUME NEW v \in Workers
               PROVE  /\ wpc'[v] \in HasGoal => wanchors'[v] = anchors \/ v \in moved'
                      /\ wpc'[v] \in HasVersion => wversion'[v] <= version
                      /\ wpc'[v] = "analyzed" => wfacts'[v] = facts \/ wversion'[v] < version
    BY <1>1 DEF AttemptKnows
  <2>1. CASE v # w
    BY <2>1
    DEF Claim, LoadGoal, LoadVersion, Analyze, RollBack, goal, IInv, TypeOK, AttemptKnows
  <2>2. CASE v = w /\ (Claim(w) \/ RollBack(w))
    BY <2>2 DEF Claim, RollBack, IInv, TypeOK, HasGoal, HasVersion
  <2>3. CASE v = w /\ LoadGoal(w)
    BY <2>3 DEF LoadGoal, IInv, TypeOK, HasGoal, HasVersion
  <2>4. CASE v = w /\ LoadVersion(w)
    BY <2>4 DEF LoadVersion, goal, IInv, TypeOK, AttemptKnows, HasGoal, HasVersion
  <2>5. CASE v = w /\ Analyze(w)
    BY <2>5 DEF Analyze, goal, IInv, TypeOK, AttemptKnows, HasGoal, HasVersion
  <2> QED
    BY <2>1, <2>2, <2>3, <2>4, <2>5
<1> QED
  BY <1>2, <1>3 DEF IInv

\* The comparison under the person's lock: the attempt's facts and anchors are
\* the current ones, and no edit is open.
LEMMA PublishKeeps ==
  ASSUME IInv, NEW w \in Workers, Publish(w), TypeOK'
  PROVE  IInv'
<1>1. \A r \in Editors : rpc[r] = "idle"
  BY Distinct DEF Publish, IInv, EditorLocks
<1>2. EditorLocks' /\ EditMarked'
  BY <1>1 DEF Publish, EditorLocks, EditMarked, request
<1>3. AttemptKnows'
  BY IdleKnows DEF Publish, SetGoalStatus
<1>4. ReadyIsCurrent'
  <2>1. wversion[w] = version /\ w \notin moved /\ version \in Nat
    BY DEF Publish, Unmoved, IInv, TypeOK
  <2>2. wfacts[w] = facts /\ wanchors[w] = anchors
    BY <2>1 DEF Publish, IInv, AttemptKnows, HasGoal
  <2> QED
    BY <2>2 DEF Publish, ReadyIsCurrent, profile
<1> QED
  BY <1>2, <1>3, <1>4 DEF IInv

\* Every other end of an attempt leaves the goal as it is or unusable.
LEMMA EndKeeps ==
  ASSUME IInv, NEW w \in Workers, Requeue(w) \/ RecordFailure(w) \/ Crash(w), TypeOK'
  PROVE  IInv'
<1>1. /\ UNCHANGED <<request, personLock, profile, anchors, result>>
      /\ WorkerIdle(w)
  BY DEF Requeue, RecordFailure, Crash, goal, analysis, held
<1>2. goalStatus' = goalStatus \/ goalStatus' \in {"stale", "pending", "failed"}
  BY DEF Requeue, RecordFailure, Crash, SetGoalStatus, AfterLostAttempt, goal
<1>3. moved' = moved \/ moved' = Workers
  BY DEF Requeue, RecordFailure, Crash, SetGoalStatus, goal
<1>4. EditorLocks' /\ EditMarked' /\ ReadyIsCurrent'
  BY <1>1, <1>2
  DEF IInv, EditorLocks, EditMarked, ReadyIsCurrent, Usable, request, profile
<1>5. AttemptKnows'
  BY <1>1, <1>3, IdleKnows
<1> QED
  BY <1>4, <1>5 DEF IInv

LEMMA ReclaimKeeps ==
  ASSUME IInv, NEW j \in JobIds, Reclaim(j), TypeOK'
  PROVE  IInv'
  BY DEF Reclaim, IInv, EditorLocks, EditMarked, AttemptKnows, ReadyIsCurrent, Usable,
         profile, goal, analysis, held, request, worker

LEMMA NextIInv ==
  ASSUME IInv, [Next]_vars, "onboarding" \notin EditKinds
  PROVE  IInv'
<1>1. TypeOK'
  BY NextType DEF IInv
<1>2. CASE UNCHANGED vars
  BY <1>1, <1>2
  DEF IInv, EditorLocks, EditMarked, AttemptKnows, ReadyIsCurrent, Usable, vars, profile,
      goal, analysis, held, request, worker
<1>3. CASE \E r \in Editors, k \in EditKinds : Edit(r, k)
  BY <1>1, <1>3, EditKeeps
<1>4. CASE \E r \in Editors : CommitEdit(r)
  BY <1>1, <1>4, CommitEditKeeps
<1>5. CASE \E r \in Activators : ReadGoal(r) \/ CheckJobs(r) \/ CommitActivation(r)
  BY <1>1, <1>5, ActivatorKeeps
<1>6. CASE \E w \in Workers : Claim(w) \/ Attempt(w) \/ Crash(w)
  BY <1>1, <1>6, LoadKeeps, PublishKeeps, EndKeeps DEF Attempt
<1>7. CASE \E j \in JobIds : Reclaim(j)
  BY <1>1, <1>7, ReclaimKeeps
<1>8. CASE \E r \in Editors \cup Activators : Abandon(r)
  BY <1>1, <1>8, AbandonKeeps
<1> QED
  BY <1>2, <1>3, <1>4, <1>5, <1>6, <1>7, <1>8 DEF Next

\* However many editors, activations and racing workers there are, an analysis
\* shown as usable is the analysis of what the student's profile and the
\* goal's anchors are now, unless the onboarding form is sent a second time.
THEOREM UsableIsCurrent ==
  ASSUME "onboarding" \notin EditKinds
  PROVE  Spec => []ReadyIsCurrent
<1>1. IInv => ReadyIsCurrent
  BY DEF IInv
<1>2. IInv /\ [Next]_vars => IInv'
  BY NextIInv
<1> QED
  BY <1>1, <1>2, InitIInv, PTL DEF Spec
-----------------------------------------------------------------------------
(* Jobs: a goal that waits has one, and the unlocked endpoint is the only  *)
(* reason for more than one.  No hypothesis on the edits.                  *)

Busy(w)   == wpc[w] # "idle"
PinHeld(w) == wpc[w] \notin {"idle", "rolledback"}

\* Who holds what, whatever crashed: the job under a pin is being processed, and
\* no two pins are on one job.
JobsPinned ==
  /\ \A w \in Workers : IF Busy(w) THEN wjob[w] \in JobIds ELSE wjob[w] = NoJob
  /\ \A w \in Workers : PinHeld(w) => jstatus[wjob[w]] = "processing"
  /\ \A v, w \in Workers : PinHeld(v) /\ PinHeld(w) /\ v # w => wjob[v] # wjob[w]

\* Before the first crash or stall, a job in processing and the attempt of a
\* worker belong to each other.
Attended ==
  crashes = 0 =>
    /\ \A w \in Workers : Busy(w) =>
         jstatus[wjob[w]] = "processing" /\ jattempts[wjob[w]] = watt[w]
    /\ \A v, w \in Workers : Busy(v) /\ Busy(w) /\ v # w => wjob[v] # wjob[w]
    /\ \A j \in JobIds : jstatus[j] = "processing" => \E w \in Workers : wjob[w] = j

\* What an editor saw when it looked for a live job still holds while it is open.
LooksStay ==
  \A r \in Editors : rpc[r] = "flushed" =>
    /\ stages[r] => LiveJobs = {}
    /\ touches[r] => goalLock = r
    /\ crashes = 0 /\ ~overtaken /\ touches[r] /\ kind[r] # "pursuit" /\ ~stages[r]
         => LiveJobs # {}

Open == {a \in Activators : rpc[a] # "idle"}

\* Every activation that was ever opened accounts for one job or is still open.
Counted ==
  /\ IsFiniteSet(LiveJobs) /\ IsFiniteSet(Open)
  /\ Cardinality(Open) <= activations
  /\ Cardinality(LiveJobs) + Cardinality(Open) <= 1 + activations

JInv ==
  /\ TypeOK
  /\ EditorLocks
  /\ JobsPinned
  /\ Attended
  /\ LooksStay
  /\ Counted
  /\ WaitingHasJob

-----------------------------------------------------------------------------
(* Lemmas: the fresh row, and what a step does to the live jobs.           *)

\* The least number of a set of numbers, which a fresh row is given.
LEMMA LeastExists ==
  ASSUME NEW S \in SUBSET Nat, S # {}
  PROVE  \E least \in S : \A i \in S : least <= i
<1> DEFINE Less == OpToRel(<, Nat)
<1>1. IsWellFoundedOn(Less, Nat)
  BY NatLessThanWellFounded
<1>2. \A x, y \in Nat : x < y => <<x, y>> \in Less
  BY DEF OpToRel
<1> HIDE DEF Less
<1>3. PICK x \in S : \A y \in S : ~ (<<y, x>> \in Less)
  BY <1>1, WFMin
<1>4. \A i \in S : x <= i
  <2> SUFFICES ASSUME NEW i \in S PROVE x <= i
    OBVIOUS
  <2>1. i \in Nat /\ x \in Nat
    OBVIOUS
  <2>2. ~(i < x)
    BY <2>1, <1>2, <1>3
  <2> QED
    BY <2>1, <2>2
<1> QED
  BY <1>4

LEMMA Inserted ==
  ASSUME TypeOK, NEW r, NEW k, InsertJob(r, k), stages[r] => Unused # {}
  PROVE  /\ \A j \in JobIds : jstatus'[j] = "processing" <=> jstatus[j] = "processing"
         /\ stages[r] => \E f \in JobIds \ LiveJobs : LiveJobs' = LiveJobs \cup {f}
         /\ ~stages[r] => LiveJobs' = LiveJobs
<1>1. CASE ~stages[r]
  BY <1>1 DEF InsertJob, LiveJobs
<1>2. CASE stages[r]
  <2> DEFINE f == CHOOSE j \in Unused : \A i \in Unused : j <= i
  <2>1. f \in Unused
    <3>1. Unused \in SUBSET Nat /\ Unused # {}
      BY <1>2, NumberedJobs DEF Unused
    <3> QED
      BY <3>1, LeastExists
  <2>2. jstatus' = [jstatus EXCEPT ![f] = "pending"]
    BY <1>2 DEF InsertJob
  <2> HIDE DEF f
  <2>3. f \in JobIds /\ jstatus[f] = "absent" /\ f \notin LiveJobs
    BY <2>1 DEF Unused, LiveJobs
  <2>4. LiveJobs' = LiveJobs \cup {f}
    BY <2>2, <2>3 DEF LiveJobs, TypeOK
  <2>5. \A j \in JobIds : jstatus'[j] = "processing" <=> jstatus[j] = "processing"
    BY <2>2, <2>3 DEF TypeOK
  <2> QED
    BY <1>2, <2>3, <2>4, <2>5
<1> QED
  BY <1>1, <1>2

\* A request leaves the workers and the jobs that are being processed alone.
LEMMA RequestPins ==
  ASSUME JInv, UNCHANGED worker, jattempts' = jattempts, crashes' = crashes,
         \A j \in JobIds : jstatus'[j] = "processing" <=> jstatus[j] = "processing"
  PROVE  JobsPinned' /\ Attended'
<1>1. UNCHANGED <<wpc, wjob, watt>>
  BY DEF worker
<1>2. \A w \in Workers : Busy(w) => wjob[w] \in JobIds
  BY DEF JInv, JobsPinned
<1>3. \A w \in Workers : PinHeld(w) => Busy(w)
  BY DEF PinHeld, Busy
<1>4. JobsPinned'
  BY <1>1, <1>2, <1>3 DEF JInv, JobsPinned, Busy, PinHeld
<1>5. Attended'
  BY <1>1, <1>2 DEF JInv, Attended, Busy
<1> QED
  BY <1>4, <1>5

\* A step of a worker adds no live job, and takes the last one only while no
\* request holds the goal, or the person, or has marked the goal, or with its
\* verdict past one that has.
LEMMA WorkerLooks ==
  ASSUME JInv, UNCHANGED <<request, held, activations>>, LiveJobs' \subseteq LiveJobs,
         crashes' = 0 => crashes = 0,
         overtaken => overtaken',
         \/ LiveJobs' = LiveJobs \/ goalLock = Nobody \/ personLock = Nobody
         \/ \A r \in Editors : touches[r] => kind[r] = "pursuit"
         \/ crashes' # 0 \/ overtaken'
  PROVE  EditorLocks' /\ LooksStay' /\ Counted'
<1>1. EditorLocks'
  BY DEF JInv, EditorLocks, request, held
<1>2. LooksStay'
  <2> SUFFICES ASSUME NEW r \in Editors, rpc[r] = "flushed"
               PROVE  /\ stages[r] => LiveJobs' = {}
                      /\ touches[r] => goalLock = r
                      /\ crashes' = 0 /\ ~overtaken' /\ touches[r] /\ kind[r] # "pursuit"
                         /\ ~stages[r] => LiveJobs' # {}
    BY DEF LooksStay, request, held
  <2>1. /\ stages[r] => LiveJobs = {}
        /\ touches[r] => goalLock = r
        /\ personLock = r
        /\ crashes = 0 /\ ~overtaken /\ touches[r] /\ kind[r] # "pursuit" /\ ~stages[r]
             => LiveJobs # {}
    BY DEF JInv, LooksStay, EditorLocks
  <2>2. r # Nobody
    BY Distinct
  <2> QED
    BY <2>1, <2>2
<1>3. Counted'
  <2>1. Open' = Open
    BY DEF Open, request
  <2>2. IsFiniteSet(LiveJobs') /\ Cardinality(LiveJobs') <= Cardinality(LiveJobs)
    BY FS_Subset DEF JInv, Counted
  <2>3. /\ Cardinality(LiveJobs) \in Nat /\ Cardinality(LiveJobs') \in Nat
        /\ Cardinality(Open) \in Nat /\ activations \in Nat
    BY <2>2, FS_CardinalityType, ConstantTypes DEF JInv, Counted, TypeOK
  <2> QED
    BY <2>1, <2>2, <2>3 DEF JInv, Counted
<1> QED
  BY <1>1, <1>2, <1>3

\* A worker that ends leaves no other worker's job behind, nor its own.
LEMMA EndPins ==
  ASSUME JInv, NEW w \in Workers, Busy(w), WorkerIdle(w), TypeOK',
         \A j \in JobIds \ {wjob[w]} :
           jstatus'[j] = jstatus[j] /\ jattempts'[j] = jattempts[j],
         \/ jstatus' = jstatus
         \/ \A v \in Workers \ {w} : PinHeld(v) => wjob[v] # wjob[w],
         crashes' = 0 => crashes = 0 /\ jstatus'[wjob[w]] # "processing"
  PROVE  JobsPinned' /\ Attended'
<1>0. wjob[w] \in JobIds /\ NoJob \notin JobIds
  BY Distinct DEF JInv, JobsPinned
<1>1. wpc'[w] = "idle" /\ wjob'[w] = NoJob
  BY DEF WorkerIdle, JInv, TypeOK
<1>2. \A v \in Workers \ {w} : wpc'[v] = wpc[v] /\ wjob'[v] = wjob[v] /\ watt'[v] = watt[v]
  BY DEF WorkerIdle, JInv, TypeOK
<1>3. JobsPinned'
  <2>1. \A v \in Workers : IF Busy(v)' THEN wjob'[v] \in JobIds ELSE wjob'[v] = NoJob
    BY <1>1, <1>2 DEF JInv, JobsPinned, Busy
  <2>2. ~PinHeld(w)'
    BY <1>1 DEF PinHeld
  <2>3. ASSUME NEW v \in Workers, PinHeld(v)'
        PROVE  jstatus'[wjob'[v]] = "processing"
    <3>1. v # w /\ PinHeld(v) /\ wjob'[v] = wjob[v]
      BY <1>2, <2>2, <2>3 DEF PinHeld
    <3>2. jstatus[wjob[v]] = "processing" /\ wjob[v] \in JobIds
      BY <3>1 DEF JInv, JobsPinned, PinHeld, Busy
    <3> QED
      BY <3>1, <3>2
  <2>4. \A u, v \in Workers : PinHeld(u)' /\ PinHeld(v)' /\ u # v => wjob'[u] # wjob'[v]
    BY <1>2, <2>2 DEF JInv, JobsPinned, PinHeld
  <2> QED
    BY <2>1, <2>3, <2>4 DEF JobsPinned
<1>4. Attended'
  <2> SUFFICES ASSUME crashes' = 0
               PROVE
                 /\ \A v \in Workers : Busy(v)' =>
                      jstatus'[wjob'[v]] = "processing" /\ jattempts'[wjob'[v]] = watt'[v]
                 /\ \A u, v \in Workers : Busy(u)' /\ Busy(v)' /\ u # v => wjob'[u] # wjob'[v]
                 /\ \A j \in JobIds :
                      jstatus'[j] = "processing" => \E v \in Workers : wjob'[v] = j
    BY DEF Attended
  <2>1. /\ \A v \in Workers : Busy(v) =>
             jstatus[wjob[v]] = "processing" /\ jattempts[wjob[v]] = watt[v]
        /\ \A u, v \in Workers : Busy(u) /\ Busy(v) /\ u # v => wjob[u] # wjob[v]
        /\ \A j \in JobIds : jstatus[j] = "processing" => \E v \in Workers : wjob[v] = j
    BY DEF JInv, Attended
  <2>2. \A v \in Workers : Busy(v)' => v # w /\ Busy(v)
    BY <1>1, <1>2 DEF Busy
  <2>3. \A v \in Workers : Busy(v) => wjob[v] \in JobIds
    BY DEF JInv, JobsPinned
  <2>4. ASSUME NEW v \in Workers, Busy(v)'
        PROVE  jstatus'[wjob'[v]] = "processing" /\ jattempts'[wjob'[v]] = watt'[v]
    <3>1. wjob'[v] = wjob[v] /\ watt'[v] = watt[v] /\ wjob[v] # wjob[w] /\ wjob[v] \in JobIds
      BY <1>2, <2>1, <2>2, <2>3, <2>4
    <3> QED
      BY <2>1, <2>2, <2>4, <3>1
  <2>5. \A u, v \in Workers : Busy(u)' /\ Busy(v)' /\ u # v => wjob'[u] # wjob'[v]
    BY <1>2, <2>1, <2>2
  <2>6. ASSUME NEW j \in JobIds, jstatus'[j] = "processing"
        PROVE  \E v \in Workers : wjob'[v] = j
    <3>1. j # wjob[w] /\ jstatus[j] = "processing"
      BY <2>6
    <3>2. PICK v \in Workers : wjob[v] = j
      BY <2>1, <3>1
    <3> QED
      BY <1>2, <3>1, <3>2
  <2> QED
    BY <2>4, <2>5, <2>6
<1> QED
  BY <1>3, <1>4

-----------------------------------------------------------------------------
(* The invariant on the jobs is inductive.                                 *)

LEMMA InitJInv == Init => JInv
<1> SUFFICES ASSUME Init PROVE JInv
  OBVIOUS
<1>1. TypeOK
  BY InitType
<1>2. PICK first \in JobIds :
        jstatus = [j \in JobIds |-> IF j = first THEN "pending" ELSE "absent"]
  BY DEF Init
<1>3. LiveJobs = {first} /\ Open = {}
  BY <1>2 DEF Init, LiveJobs, Open
<1>4. /\ IsFiniteSet(LiveJobs) /\ Cardinality(LiveJobs) = 1
      /\ IsFiniteSet(Open) /\ Cardinality(Open) = 0
  BY <1>3, FS_Singleton, FS_EmptySet
<1>5. Counted
  BY <1>4 DEF Counted, Init
<1>6. EditorLocks /\ LooksStay
  BY DEF Init, EditorLocks, LooksStay
<1>7. JobsPinned /\ Attended
  BY <1>2 DEF Init, JobsPinned, Attended, Busy, PinHeld
<1>8. WaitingHasJob
  BY <1>3 DEF WaitingHasJob
<1> QED
  BY <1>1, <1>5, <1>6, <1>7, <1>8 DEF JInv

\* An edit that outdates the analysis sees a live job or stages one.
LEMMA EditJobs ==
  ASSUME JInv, NEW r \in Editors, NEW k \in EditKinds, Edit(r, k), TypeOK'
  PROVE  JInv'
<1>1. UNCHANGED <<jobs, goal, worker, crashes, activations, overtaken>> /\ LiveJobs' = LiveJobs
  BY DEF Edit, LiveJobs, jobs
<1>2. EditorLocks'
  BY Distinct DEF Edit, JInv, EditorLocks, TypeOK
<1>3. JobsPinned' /\ Attended'
  BY <1>1, RequestPins DEF jobs
<1>4. LooksStay'
  <2> SUFFICES ASSUME NEW q \in Editors, rpc'[q] = "flushed"
               PROVE  /\ stages'[q] => LiveJobs = {}
                      /\ touches'[q] => goalLock' = q
                      /\ crashes = 0 /\ ~overtaken /\ touches'[q] /\ kind'[q] # "pursuit"
                         /\ ~stages'[q] => LiveJobs # {}
    BY <1>1 DEF LooksStay
  <2>1. q = r
    <3>1. \A e \in Editors : e # r => rpc'[e] = "idle"
      BY Distinct DEF Edit, JInv, EditorLocks, TypeOK
    <3> QED
      BY <3>1
  <2>2. kind'[r] = k /\ stages'[r] = (Enqueues(k) /\ StagesJob)
    BY DEF Edit, JInv, TypeOK
  <2>3. touches'[r] => goalLock' = r
    BY DEF Edit, JInv, TypeOK
  <2>4. k # "pursuit" =>
          touches'[r] = (Affects(k) /\ (goalStatus # "stale" \/ k = "anchors"))
    BY DEF Edit, JInv, TypeOK
  <2>5. stages'[r] => LiveJobs = {}
    BY <2>2 DEF StagesJob
  <2>6. touches'[r] /\ k # "pursuit" /\ ~stages'[r] => LiveJobs # {}
    BY <2>2, <2>4 DEF StagesJob, Enqueues
  <2> QED
    BY <2>1, <2>2, <2>3, <2>5, <2>6
<1>5. Counted'
  <2>1. Open' = Open
    BY Distinct DEF Edit, Open, JInv, TypeOK
  <2> QED
    BY <1>1, <2>1 DEF JInv, Counted
<1>6. WaitingHasJob'
  BY <1>1 DEF JInv, WaitingHasJob, goal
<1> QED
  BY <1>2, <1>3, <1>4, <1>5, <1>6 DEF JInv

\* No other request that holds the lock is open, and a job is inserted only
\* where none is alive.
LEMMA CommitEditJobs ==
  ASSUME JInv, NEW r \in Editors, CommitEdit(r), TypeOK'
  PROVE  JInv'
<1>1. \A q \in Editors : rpc'[q] = "idle"
  <2>1. rpc'[r] = "idle" /\ \A q \in Editors : q # r => rpc'[q] = rpc[q]
    BY DEF CommitEdit, RequestDone, JInv, TypeOK
  <2>2. \A q \in Editors : q # r => rpc[q] = "idle"
    BY Distinct DEF CommitEdit, JInv, EditorLocks
  <2> QED
    BY <2>1, <2>2
<1>2. EditorLocks' /\ LooksStay'
  BY <1>1 DEF EditorLocks, LooksStay
<1>3. /\ \A j \in JobIds : jstatus'[j] = "processing" <=> jstatus[j] = "processing"
      /\ stages[r] => \E f \in JobIds \ LiveJobs : LiveJobs' = LiveJobs \cup {f}
      /\ ~stages[r] => LiveJobs' = LiveJobs
  BY Inserted DEF CommitEdit, JInv
<1>4. JobsPinned' /\ Attended'
  BY <1>3, RequestPins DEF CommitEdit, bounds
<1>5. /\ stages[r] => LiveJobs = {}
      /\ crashes = 0 /\ ~overtaken /\ touches[r] /\ kind[r] # "pursuit" /\ ~stages[r]
           => LiveJobs # {}
  BY DEF JInv, LooksStay, CommitEdit
<1>6. Counted'
  <2>1. Open' = Open /\ activations' = activations
    BY Distinct DEF CommitEdit, RequestDone, Open, JInv, TypeOK, bounds
  <2>2. Cardinality(Open) \in Nat /\ activations \in Nat
    BY FS_CardinalityType, ConstantTypes DEF JInv, Counted, TypeOK
  <2>3. CASE stages[r]
    <3>1. PICK f : LiveJobs' = {f}
      BY <1>3, <1>5, <2>3
    <3>2. IsFiniteSet(LiveJobs') /\ Cardinality(LiveJobs') = 1
      BY <3>1, FS_Singleton
    <3> QED
      BY <2>1, <2>2, <3>2 DEF JInv, Counted
  <2>4. CASE ~stages[r]
    BY <1>3, <2>1, <2>4 DEF JInv, Counted
  <2> QED
    BY <2>3, <2>4
<1>7. WaitingHasJob'
  <2> SUFFICES ASSUME crashes = 0, ~overtaken, goalStatus' \in {"pending", "stale"}
               PROVE  LiveJobs' # {}
    BY DEF WaitingHasJob, CommitEdit, bounds
  <2>1. CASE stages[r]
    BY <1>3, <2>1
  <2>2. CASE ~stages[r] /\ touches[r] /\ kind[r] # "pursuit"
    BY <1>3, <1>5, <2>2
  <2>3. CASE ~stages[r] /\ ~(touches[r] /\ kind[r] # "pursuit")
    BY <1>3, <2>3 DEF CommitEdit, JInv, WaitingHasJob
  <2> QED
    BY <2>1, <2>2, <2>3
<1> QED
  BY <1>2, <1>4, <1>6, <1>7 DEF JInv

\* The unlocked endpoint: it is counted when it reads the goal, and its job, if
\* any, takes its place in the count.
LEMMA ActivatorJobs ==
  ASSUME JInv, NEW r \in Activators, ReadGoal(r) \/ CheckJobs(r) \/ CommitActivation(r), TypeOK'
  PROVE  JInv'
<1>1. /\ UNCHANGED <<worker, jattempts, goalStatus, personLock, crashes, overtaken>>
      /\ \A q \in Editors :
           /\ rpc'[q] = rpc[q] /\ kind'[q] = kind[q]
           /\ stages'[q] = stages[q] /\ touches'[q] = touches[q]
  BY Distinct
  DEF ReadGoal, CheckJobs, CommitActivation, RequestDone, JInv, TypeOK, goal, jobs, held, bounds
<1>2. EditorLocks'
  BY <1>1 DEF JInv, EditorLocks
<1>3. \A q \in Editors : goalLock = q => goalLock' = q
  <2>1. \A q \in Editors : q # r /\ q # Nobody
    BY Distinct
  <2> QED
    BY <2>1 DEF ReadGoal, CheckJobs, CommitActivation, RequestDone, held
<1>4. CASE ReadGoal(r) \/ CheckJobs(r)
  <2>1. UNCHANGED jobs /\ LiveJobs' = LiveJobs
    BY <1>4 DEF ReadGoal, CheckJobs, LiveJobs, jobs
  <2>2. JobsPinned' /\ Attended'
    BY <1>1, <2>1, RequestPins DEF jobs
  <2>3. LooksStay'
    BY <1>1, <1>3, <2>1 DEF JInv, LooksStay
  <2>4. WaitingHasJob'
    BY <1>1, <2>1 DEF JInv, WaitingHasJob
  <2>5. /\ Cardinality(Open) \in Nat /\ activations \in Nat /\ Cardinality(LiveJobs) \in Nat
        /\ IsFiniteSet(Open)
    BY FS_CardinalityType, ConstantTypes DEF JInv, Counted, TypeOK
  <2>6. CASE ReadGoal(r)
    <3>1. Open' = Open \cup {r} /\ r \notin Open /\ activations' = activations + 1
      BY <2>6 DEF ReadGoal, Open, JInv, TypeOK
    <3>2. IsFiniteSet(Open') /\ Cardinality(Open') = Cardinality(Open) + 1
      BY <2>5, <3>1, FS_AddElement
    <3>3. Counted'
      BY <2>1, <2>5, <3>1, <3>2 DEF JInv, Counted
    <3> QED
      BY <1>2, <2>2, <2>3, <2>4, <3>3 DEF JInv
  <2>7. CASE CheckJobs(r)
    <3>1. Open' = Open /\ activations' = activations
      BY <2>7 DEF CheckJobs, Open, JInv, TypeOK, bounds
    <3>2. Counted'
      BY <2>1, <3>1 DEF JInv, Counted
    <3> QED
      BY <1>2, <2>2, <2>3, <2>4, <3>2 DEF JInv
  <2> QED
    BY <1>4, <2>6, <2>7
<1>5. CASE CommitActivation(r)
  <2>1. /\ \A j \in JobIds : jstatus'[j] = "processing" <=> jstatus[j] = "processing"
        /\ stages[r] => \E f \in JobIds \ LiveJobs : LiveJobs' = LiveJobs \cup {f}
        /\ ~stages[r] => LiveJobs' = LiveJobs
    BY <1>5, Inserted DEF CommitActivation, JInv
  <2>2. JobsPinned' /\ Attended'
    BY <1>1, <2>1, RequestPins
  <2>3. LooksStay'
    <3>1. CASE stages[r]
      <4>1. \A q \in Editors : rpc'[q] = "idle"
        BY <1>1, <1>5, <3>1, Distinct DEF CommitActivation, JInv, EditorLocks
      <4> QED
        BY <4>1 DEF LooksStay
    <3>2. CASE ~stages[r]
      BY <1>1, <1>3, <2>1, <3>2 DEF JInv, LooksStay
    <3> QED
      BY <3>1, <3>2
  <2>4. WaitingHasJob'
    BY <1>1, <2>1 DEF JInv, WaitingHasJob
  <2>5. /\ Cardinality(Open) \in Nat /\ activations \in Nat /\ Cardinality(LiveJobs) \in Nat
        /\ IsFiniteSet(Open) /\ IsFiniteSet(LiveJobs)
    BY FS_CardinalityType, ConstantTypes DEF JInv, Counted, TypeOK
  <2>6. Open' = Open \ {r} /\ r \in Open /\ activations' = activations
    BY <1>5 DEF CommitActivation, RequestDone, Open, JInv, TypeOK, bounds
  <2>7. IsFiniteSet(Open') /\ Cardinality(Open') = Cardinality(Open) - 1
    BY <2>5, <2>6, FS_RemoveElement
  <2>8. IsFiniteSet(LiveJobs') /\ Cardinality(LiveJobs') <= Cardinality(LiveJobs) + 1
    BY <2>1, <2>5, FS_AddElement
  <2>9. Cardinality(LiveJobs') \in Nat
    BY <2>8, FS_CardinalityType
  <2>10. Counted'
    BY <2>5, <2>6, <2>7, <2>8, <2>9 DEF JInv, Counted
  <2> QED
    BY <1>2, <2>2, <2>3, <2>4, <2>10 DEF JInv
<1> QED
  BY <1>4, <1>5

LEMMA AbandonJobs ==
  ASSUME JInv, NEW r \in Editors \cup Activators, Abandon(r), TypeOK'
  PROVE  JInv'
<1>1. UNCHANGED <<jobs, goal, worker, crashes, activations, overtaken>> /\ LiveJobs' = LiveJobs
  BY DEF Abandon, LiveJobs, jobs, bounds
<1>2. rpc'[r] = "idle"
  BY DEF Abandon, RequestDone, JInv, TypeOK
<1>3. \A q \in Editors : q # r =>
        /\ rpc'[q] = rpc[q] /\ kind'[q] = kind[q]
        /\ stages'[q] = stages[q] /\ touches'[q] = touches[q]
        /\ personLock = q => personLock' = q
        /\ goalLock = q => goalLock' = q
  BY DEF Abandon, RequestDone, JInv, TypeOK
<1>4. EditorLocks'
  BY <1>2, <1>3 DEF JInv, EditorLocks
<1>5. LooksStay'
  <2> SUFFICES ASSUME NEW q \in Editors, rpc'[q] = "flushed"
               PROVE  /\ stages'[q] => LiveJobs = {}
                      /\ touches'[q] => goalLock' = q
                      /\ crashes = 0 /\ ~overtaken /\ touches'[q] /\ kind'[q] # "pursuit"
                         /\ ~stages'[q] => LiveJobs # {}
    BY <1>1 DEF LooksStay
  <2>1. q # r
    BY <1>2
  <2> QED
    BY <1>3, <2>1 DEF JInv, LooksStay
<1>6. JobsPinned' /\ Attended'
  BY <1>1, RequestPins DEF jobs
<1>7. Counted'
  <2>1. Open' = Open \ {r} /\ Open' \subseteq Open
    BY DEF Abandon, RequestDone, Open, JInv, TypeOK
  <2>2. IsFiniteSet(Open') /\ Cardinality(Open') <= Cardinality(Open)
    BY <2>1, FS_Subset DEF JInv, Counted
  <2>3. /\ Cardinality(Open) \in Nat /\ Cardinality(Open') \in Nat /\ activations \in Nat
        /\ Cardinality(LiveJobs) \in Nat
    BY <2>2, FS_CardinalityType, ConstantTypes DEF JInv, Counted, TypeOK
  <2> QED
    BY <1>1, <2>2, <2>3 DEF JInv, Counted
<1>8. WaitingHasJob'
  BY <1>1 DEF JInv, WaitingHasJob, goal
<1> QED
  BY <1>4, <1>5, <1>6, <1>7, <1>8 DEF JInv

LEMMA ClaimJobs ==
  ASSUME JInv, NEW w \in Workers, Claim(w), TypeOK'
  PROVE  JInv'
<1>1. PICK j \in JobIds :
        /\ Claimable(j)
        /\ jstatus' = [jstatus EXCEPT ![j] = "processing"]
        /\ jattempts' = [jattempts EXCEPT ![j] = @ + 1]
        /\ wjob' = [wjob EXCEPT ![w] = j]
        /\ watt' = [watt EXCEPT ![w] = jattempts[j] + 1]
  BY DEF Claim
<1>2. LiveJobs' = LiveJobs
  BY <1>1 DEF LiveJobs, Claimable, JInv, TypeOK
<1>3. /\ UNCHANGED <<request, held, activations, crashes, overtaken, goalStatus>>
      /\ wpc' = [wpc EXCEPT ![w] = "claimed"] /\ ~Busy(w)
  BY DEF Claim, bounds, goal, Busy
<1>4. EditorLocks' /\ LooksStay' /\ Counted'
  BY <1>2, <1>3, WorkerLooks
<1>5. WaitingHasJob'
  BY <1>2, <1>3 DEF JInv, WaitingHasJob
<1>6. /\ wpc'[w] = "claimed" /\ wjob'[w] = j /\ watt'[w] = jattempts[j] + 1
      /\ jstatus[j] = "pending" /\ jstatus'[j] = "processing"
      /\ jattempts'[j] = jattempts[j] + 1
  BY <1>1, <1>3 DEF JInv, TypeOK, Claimable
<1>7. /\ \A v \in Workers \ {w} : wpc'[v] = wpc[v] /\ wjob'[v] = wjob[v] /\ watt'[v] = watt[v]
      /\ \A i \in JobIds \ {j} : jstatus'[i] = jstatus[i] /\ jattempts'[i] = jattempts[i]
  BY <1>1, <1>3 DEF JInv, TypeOK
<1>8. JobsPinned'
  <2>1. \A v \in Workers : IF Busy(v)' THEN wjob'[v] \in JobIds ELSE wjob'[v] = NoJob
    BY <1>6, <1>7 DEF JInv, JobsPinned, Busy
  <2>2. ASSUME NEW v \in Workers \ {w}, PinHeld(v)'
        PROVE  wjob'[v] # j /\ jstatus'[wjob'[v]] = "processing"
    <3>1. PinHeld(v) /\ wjob'[v] = wjob[v]
      BY <1>7, <2>2 DEF PinHeld
    <3>2. jstatus[wjob[v]] = "processing" /\ wjob[v] \in JobIds
      BY <3>1 DEF JInv, JobsPinned, PinHeld, Busy
    <3> QED
      BY <1>6, <1>7, <3>1, <3>2
  <2>3. \A v \in Workers : PinHeld(v)' => jstatus'[wjob'[v]] = "processing"
    BY <1>6, <2>2
  <2>4. \A u, v \in Workers : PinHeld(u)' /\ PinHeld(v)' /\ u # v => wjob'[u] # wjob'[v]
    <3> SUFFICES ASSUME NEW u \in Workers, NEW v \in Workers, PinHeld(u)', PinHeld(v)', u # v
                 PROVE  wjob'[u] # wjob'[v]
      OBVIOUS
    <3>1. CASE u = w \/ v = w
      BY <1>6, <2>2, <3>1
    <3>2. CASE u # w /\ v # w
      BY <1>7, <3>2 DEF JInv, JobsPinned, PinHeld
    <3> QED
      BY <3>1, <3>2
  <2> QED
    BY <2>1, <2>3, <2>4 DEF JobsPinned
<1>9. Attended'
  <2> SUFFICES ASSUME crashes = 0
               PROVE
                 /\ \A v \in Workers : Busy(v)' =>
                      jstatus'[wjob'[v]] = "processing" /\ jattempts'[wjob'[v]] = watt'[v]
                 /\ \A u, v \in Workers : Busy(u)' /\ Busy(v)' /\ u # v => wjob'[u] # wjob'[v]
                 /\ \A i \in JobIds :
                      jstatus'[i] = "processing" => \E v \in Workers : wjob'[v] = i
    BY <1>3 DEF Attended
  <2>1. /\ \A v \in Workers : Busy(v) =>
             jstatus[wjob[v]] = "processing" /\ jattempts[wjob[v]] = watt[v]
        /\ \A u, v \in Workers : Busy(u) /\ Busy(v) /\ u # v => wjob[u] # wjob[v]
        /\ \A i \in JobIds : jstatus[i] = "processing" => \E v \in Workers : wjob[v] = i
    BY DEF JInv, Attended
  <2>2. ASSUME NEW v \in Workers \ {w}, Busy(v)'
        PROVE  /\ Busy(v) /\ wjob'[v] = wjob[v] /\ wjob'[v] # j
               /\ jstatus'[wjob'[v]] = "processing" /\ jattempts'[wjob'[v]] = watt'[v]
    <3>1. Busy(v) /\ wjob'[v] = wjob[v] /\ watt'[v] = watt[v]
      BY <1>7, <2>2 DEF Busy
    <3>2. wjob[v] \in JobIds /\ jstatus[wjob[v]] = "processing" /\ jattempts[wjob[v]] = watt[v]
      BY <2>1, <3>1 DEF JInv, JobsPinned
    <3> QED
      BY <1>6, <1>7, <3>1, <3>2
  <2>3. \A v \in Workers : Busy(v)' =>
          jstatus'[wjob'[v]] = "processing" /\ jattempts'[wjob'[v]] = watt'[v]
    BY <1>6, <2>2
  <2>4. \A u, v \in Workers : Busy(u)' /\ Busy(v)' /\ u # v => wjob'[u] # wjob'[v]
    <3> SUFFICES ASSUME NEW u \in Workers, NEW v \in Workers, Busy(u)', Busy(v)', u # v
                 PROVE  wjob'[u] # wjob'[v]
      OBVIOUS
    <3>1. CASE u = w \/ v = w
      BY <1>6, <2>2, <3>1
    <3>2. CASE u # w /\ v # w
      BY <2>1, <2>2, <3>2
    <3> QED
      BY <3>1, <3>2
  <2>5. ASSUME NEW i \in JobIds, jstatus'[i] = "processing"
        PROVE  \E v \in Workers : wjob'[v] = i
    <3>1. CASE i = j
      BY <1>6, <3>1
    <3>2. CASE i # j
      <4>1. PICK v \in Workers : wjob[v] = i
        BY <1>7, <2>1, <2>5, <3>2
      <4>2. v # w
        BY <1>3, <4>1, Distinct DEF JInv, JobsPinned
      <4> QED
        BY <1>7, <4>1, <4>2
    <3> QED
      BY <3>1, <3>2
  <2> QED
    BY <2>3, <2>4, <2>5
<1> QED
  BY <1>4, <1>5, <1>8, <1>9 DEF JInv

\* Under its pin an attempt reads, or loses the pin; it keeps its job.
LEMMA LoadJobs ==
  ASSUME JInv, NEW w \in Workers,
         LoadGoal(w) \/ LoadVersion(w) \/ Analyze(w) \/ RollBack(w), TypeOK'
  PROVE  JInv'
<1>1. /\ UNCHANGED <<jobs, request, held, activations, crashes, overtaken, goalStatus, wjob,
                     watt>>
      /\ LiveJobs' = LiveJobs
  BY DEF LoadGoal, LoadVersion, Analyze, RollBack, bounds, goal, LiveJobs, jobs
<1>2. EditorLocks' /\ LooksStay' /\ Counted'
  BY <1>1, WorkerLooks
<1>3. WaitingHasJob'
  BY <1>1 DEF JInv, WaitingHasJob
<1>4. \A v \in Workers : (Busy(v)' <=> Busy(v)) /\ (PinHeld(v)' => PinHeld(v))
  BY DEF LoadGoal, LoadVersion, Analyze, RollBack, Busy, PinHeld, JInv, TypeOK
<1>5. JobsPinned'
  BY <1>1, <1>4 DEF JInv, JobsPinned, jobs
<1>6. Attended'
  BY <1>1, <1>4 DEF JInv, Attended, jobs
<1> QED
  BY <1>2, <1>3, <1>5, <1>6 DEF JInv

\* The end of an attempt under its pin: no other pin is on the job.
LEMMA PublishJobs ==
  ASSUME JInv, NEW w \in Workers, Publish(w) \/ Requeue(w), TypeOK'
  PROVE  JInv'
<1>1. /\ UNCHANGED <<request, held, activations, crashes, overtaken>>
      /\ personLock = Nobody /\ WorkerIdle(w) /\ PinHeld(w) /\ Busy(w)
  BY DEF Publish, Requeue, bounds, PinHeld, Busy
<1>2. wjob[w] \in JobIds /\ jstatus[wjob[w]] = "processing"
  BY <1>1 DEF JInv, JobsPinned
<1>3. /\ \A j \in JobIds \ {wjob[w]} : jstatus'[j] = jstatus[j] /\ jattempts'[j] = jattempts[j]
      /\ Publish(w) => jstatus'[wjob[w]] = "completed"
      /\ Requeue(w) => jstatus'[wjob[w]] = "pending"
  BY <1>2 DEF Publish, Requeue, JInv, TypeOK
<1>4. LiveJobs' \subseteq LiveJobs
  BY <1>2, <1>3 DEF LiveJobs
<1>5. EditorLocks' /\ LooksStay' /\ Counted'
  BY <1>1, <1>4, WorkerLooks
<1>6. JobsPinned' /\ Attended'
  <2>1. \A v \in Workers \ {w} : PinHeld(v) => wjob[v] # wjob[w]
    BY <1>1 DEF JInv, JobsPinned
  <2>2. jstatus'[wjob[w]] # "processing"
    BY <1>3
  <2> QED
    BY <1>1, <1>3, <2>1, <2>2, EndPins
<1>7. WaitingHasJob'
  <2>1. CASE Publish(w)
    BY <2>1 DEF Publish, SetGoalStatus, Outcomes, WaitingHasJob
  <2>2. CASE Requeue(w)
    BY <1>2, <1>3, <2>2 DEF WaitingHasJob, LiveJobs
  <2> QED
    BY <2>1, <2>2
<1> QED
  BY <1>5, <1>6, <1>7 DEF JInv

\* The verdict on a lost attempt ends the job and the wait of the goal together.
LEMMA FailureJobs ==
  ASSUME JInv, NEW w \in Workers, RecordFailure(w), TypeOK'
  PROVE  JInv'
<1> DEFINE j == wjob[w]
<1>1. /\ UNCHANGED <<request, held, activations, crashes, jattempts>>
      /\ WorkerIdle(w) /\ Busy(w)
  BY DEF RecordFailure, Busy
<1>2. j \in JobIds
  BY <1>1 DEF JInv, JobsPinned
<1>3. CASE jstatus[j] = "processing" /\ jattempts[j] = watt[w]
  <2>1. /\ ~Pinned(j)
        /\ goalStatus # AfterLostAttempt(j) => goalLock = Nobody
        /\ jstatus' = [jstatus EXCEPT ![j] = AfterLostAttempt(j)]
        /\ goalStatus' = AfterLostAttempt(j)
        /\ overtaken' = (overtaken \/ PassesEdit(j))
    BY <1>3 DEF RecordFailure, SetGoalStatus
  <2>2. /\ jstatus'[j] = AfterLostAttempt(j) /\ AfterLostAttempt(j) \in {"pending", "failed"}
        /\ \A i \in JobIds \ {j} : jstatus'[i] = jstatus[i]
    BY <1>2, <2>1 DEF JInv, TypeOK, AfterLostAttempt
  <2>3. LiveJobs' \subseteq LiveJobs
    BY <1>3, <2>2 DEF LiveJobs
  <2>4. EditorLocks' /\ LooksStay' /\ Counted'
    <3>1. CASE AfterLostAttempt(j) = "pending"
      <4>1. LiveJobs' = LiveJobs
        BY <1>2, <1>3, <2>2, <3>1 DEF LiveJobs
      <4> QED
        BY <1>1, <2>1, <4>1, WorkerLooks
    <3>2. CASE AfterLostAttempt(j) = "failed"
      <4>1. \/ goalLock = Nobody \/ overtaken'
            \/ \A r \in Editors : touches[r] => kind[r] = "pursuit"
        BY <2>1, <3>2 DEF PassesEdit
      <4> QED
        BY <1>1, <2>1, <2>3, <4>1, WorkerLooks
    <3> QED
      BY <2>2, <3>1, <3>2
  <2>5. \A v \in Workers \ {w} : PinHeld(v) => wjob[v] # wjob[w]
    BY <2>1 DEF Pinned, PinHeld
  <2>6. JobsPinned' /\ Attended'
    BY <1>1, <2>2, <2>5, EndPins
  <2>7. WaitingHasJob'
    BY <1>2, <2>1, <2>2 DEF WaitingHasJob, LiveJobs
  <2> QED
    BY <2>4, <2>6, <2>7 DEF JInv
<1>4. CASE ~(jstatus[j] = "processing" /\ jattempts[j] = watt[w])
  <2>1. UNCHANGED <<jstatus, goalStatus, overtaken>> /\ LiveJobs' = LiveJobs
    BY <1>4 DEF RecordFailure, LiveJobs
  <2>2. crashes # 0
    BY <1>1, <1>4 DEF JInv, Attended
  <2>3. EditorLocks' /\ LooksStay' /\ Counted'
    BY <1>1, <2>1, WorkerLooks
  <2>4. JobsPinned' /\ Attended'
    BY <1>1, <2>1, <2>2, EndPins
  <2>5. WaitingHasJob'
    BY <1>1, <2>2 DEF WaitingHasJob
  <2> QED
    BY <2>3, <2>4, <2>5 DEF JInv
<1> QED
  BY <1>3, <1>4

LEMMA CrashJobs ==
  ASSUME JInv, NEW w \in Workers, Crash(w), TypeOK'
  PROVE  JInv'
<1>1. /\ UNCHANGED <<request, held, activations, overtaken, jattempts, jstatus>>
      /\ LiveJobs' = LiveJobs
      /\ WorkerIdle(w) /\ Busy(w)
  BY DEF Crash, jobs, Busy, LiveJobs
<1>2. crashes' # 0
  BY ConstantTypes DEF Crash, JInv, TypeOK
<1>3. EditorLocks' /\ LooksStay' /\ Counted'
  BY <1>1, <1>2, WorkerLooks
<1>4. JobsPinned' /\ Attended'
  BY <1>1, <1>2, EndPins
<1>5. WaitingHasJob'
  BY <1>2 DEF WaitingHasJob
<1> QED
  BY <1>3, <1>4, <1>5 DEF JInv

\* A job that is reclaimed has lost its worker: something crashed or stalled.
LEMMA ReclaimJobs ==
  ASSUME JInv, NEW j \in JobIds, Reclaim(j), TypeOK'
  PROVE  JInv'
<1>1. /\ UNCHANGED <<request, held, activations, overtaken, jattempts, worker>>
      /\ jstatus[j] = "processing" /\ ~Pinned(j)
      /\ jstatus' = [jstatus EXCEPT ![j] = AfterLostAttempt(j)]
  BY DEF Reclaim
<1>2. crashes' # 0
  <2>1. CASE crashes = 0
    <3>1. \E w \in Workers : wjob[w] = j
      BY <1>1, <2>1 DEF JInv, Attended
    <3> QED
      BY <2>1, <3>1 DEF Reclaim
  <2>2. CASE crashes # 0
    BY <2>2, ConstantTypes DEF Reclaim, JInv, TypeOK
  <2> QED
    BY <2>1, <2>2
<1>3. LiveJobs' \subseteq LiveJobs
  BY <1>1 DEF LiveJobs, AfterLostAttempt, JInv, TypeOK
<1>4. EditorLocks' /\ LooksStay' /\ Counted'
  BY <1>1, <1>2, <1>3, WorkerLooks
<1>5. Attended' /\ WaitingHasJob'
  BY <1>2 DEF Attended, WaitingHasJob
<1>6. JobsPinned'
  <2>1. UNCHANGED <<wpc, wjob>>
    BY <1>1 DEF worker
  <2>2. \A w \in Workers : PinHeld(w) => wjob[w] # j /\ wjob[w] \in JobIds
    BY <1>1 DEF Pinned, PinHeld, JInv, JobsPinned, Busy
  <2>3. \A i \in JobIds : i # j => jstatus'[i] = jstatus[i]
    BY <1>1 DEF JInv, TypeOK
  <2>4. \A w \in Workers : PinHeld(w) => jstatus'[wjob[w]] = "processing"
    BY <2>2, <2>3 DEF JInv, JobsPinned
  <2> QED
    BY <2>1, <2>4 DEF JInv, JobsPinned, PinHeld, Busy
<1> QED
  BY <1>4, <1>5, <1>6 DEF JInv

LEMMA NextJInv ==
  ASSUME JInv, [Next]_vars
  PROVE  JInv'
<1>1. TypeOK'
  BY NextType DEF JInv
<1>2. CASE UNCHANGED vars
  <2>1. UNCHANGED <<profile, goal, analysis, jobs, held, request, worker, bounds>>
    BY <1>2 DEF vars
  <2>2. LiveJobs' = LiveJobs /\ Open' = Open
    BY <2>1 DEF LiveJobs, Open, jobs, request
  <2>3. JobsPinned' /\ Attended'
    BY <2>1, RequestPins DEF jobs, bounds
  <2>4. EditorLocks' /\ LooksStay' /\ Counted'
    BY <2>1, <2>2, WorkerLooks DEF bounds
  <2>5. WaitingHasJob'
    BY <2>1, <2>2 DEF JInv, WaitingHasJob, goal, bounds
  <2> QED
    BY <1>1, <2>3, <2>4, <2>5 DEF JInv
<1>3. CASE \E r \in Editors, k \in EditKinds : Edit(r, k)
  BY <1>1, <1>3, EditJobs
<1>4. CASE \E r \in Editors : CommitEdit(r)
  BY <1>1, <1>4, CommitEditJobs
<1>5. CASE \E r \in Activators : ReadGoal(r) \/ CheckJobs(r) \/ CommitActivation(r)
  BY <1>1, <1>5, ActivatorJobs
<1>6. CASE \E r \in Editors \cup Activators : Abandon(r)
  BY <1>1, <1>6, AbandonJobs
<1>7. CASE \E w \in Workers : Claim(w) \/ Attempt(w) \/ Crash(w)
  BY <1>1, <1>7, ClaimJobs, LoadJobs, PublishJobs, FailureJobs, CrashJobs DEF Attempt
<1>8. CASE \E j \in JobIds : Reclaim(j)
  BY <1>1, <1>8, ReclaimJobs
<1> QED
  BY <1>2, <1>3, <1>4, <1>5, <1>6, <1>7, <1>8 DEF Next

\* However the requests, the racing workers and the failures interleave, and
\* whatever the edits change: before a worker stops or stalls, and unless the last
\* verdict on a goal that had failed already passed an open edit, a goal shown as
\* pending or stale has a job alive that will bring its intelligence.
THEOREM WaitingIsServed == Spec => []WaitingHasJob
<1>1. JInv => WaitingHasJob
  BY DEF JInv
<1>2. JInv /\ [Next]_vars => JInv'
  BY NextJInv
<1> QED
  BY <1>1, <1>2, InitJInv, PTL DEF Spec

\* The look for a live job and the insert are made under the person's lock by
\* all but the activation endpoint, so that a goal has at most one live job more
\* than activations were ever sent; crashes, retries and reclaims add none.
THEOREM JobsAreFew == Spec => []AtMostOneLiveJob
<1>1. JInv => AtMostOneLiveJob
  <2> SUFFICES ASSUME JInv PROVE AtMostOneLiveJob
    OBVIOUS
  <2>1. /\ Cardinality(LiveJobs) \in Nat /\ Cardinality(Open) \in Nat /\ activations \in Nat
        /\ Cardinality(LiveJobs) + Cardinality(Open) <= 1 + activations
    BY FS_CardinalityType, ConstantTypes DEF JInv, Counted, TypeOK
  <2> QED
    BY <2>1 DEF AtMostOneLiveJob
<1>2. JInv /\ [Next]_vars => JInv'
  BY NextJInv
<1> QED
  BY <1>1, <1>2, InitJInv, PTL DEF Spec

\* What a step does to a job of the goal.
LEMMA JobTransitions ==
  ASSUME JInv, [Next]_vars, NEW j \in JobIds
  PROVE  Life!Transition(j)
<1> USE DEF JInv, Life!Transition, Life!Keep
<1>1. ASSUME NEW r, NEW k, InsertJob(r, k), stages[r] => Unused # {}, UNCHANGED jattempts
      PROVE  Life!Transition(j)
  <2>1. CASE ~stages[r]
    BY <1>1, <2>1 DEF InsertJob
  <2>2. CASE stages[r]
    <3> DEFINE f == CHOOSE i \in Unused : \A u \in Unused : i <= u
    <3>1. f \in Unused
      <4>1. Unused \in SUBSET Nat /\ Unused # {}
        BY <1>1, <2>2, NumberedJobs DEF Unused
      <4> QED
        BY <4>1, LeastExists
    <3>2. jstatus' = [jstatus EXCEPT ![f] = "pending"]
      BY <1>1, <2>2 DEF InsertJob
    <3> HIDE DEF f
    <3> QED
      BY <1>1, <3>1, <3>2 DEF Unused, TypeOK, Life!Enqueued
  <2> QED
    BY <2>1, <2>2
<1>2. ASSUME NEW r \in Editors, CommitEdit(r) PROVE Life!Transition(j)
  BY <1>1, <1>2 DEF CommitEdit
<1>3. ASSUME NEW r \in Activators, CommitActivation(r) PROVE Life!Transition(j)
  BY <1>1, <1>3 DEF CommitActivation
<1>4. ASSUME NEW w \in Workers, Claim(w) PROVE Life!Transition(j)
  BY <1>4 DEF Claim, Claimable, TypeOK, Life!Attempted
<1>5. ASSUME NEW w \in Workers, Publish(w) \/ Requeue(w) PROVE Life!Transition(j)
  <2>1. jstatus[wjob[w]] = "processing" /\ wjob[w] \in JobIds
    BY <1>5 DEF Publish, Requeue, JobsPinned, PinHeld, Busy
  <2>2. CASE Publish(w)
    BY <2>1, <2>2 DEF Publish, TypeOK, Life!Settled, Life!Terminal
  <2>3. CASE Requeue(w)
    BY <2>1, <2>3 DEF Requeue, TypeOK, Life!Requeued
  <2> QED
    BY <1>5, <2>2, <2>3
<1>6. ASSUME NEW w \in Workers, RecordFailure(w) PROVE Life!Transition(j)
  BY <1>6 DEF RecordFailure, AfterLostAttempt, TypeOK, Life!Lapsed
<1>7. ASSUME NEW i \in JobIds, Reclaim(i) PROVE Life!Transition(j)
  BY <1>7 DEF Reclaim, AfterLostAttempt, TypeOK, Life!Lapsed
<1>8. ASSUME NEW w \in Workers,
             LoadGoal(w) \/ LoadVersion(w) \/ Analyze(w) \/ RollBack(w) \/ Crash(w)
      PROVE  Life!Transition(j)
  BY <1>8 DEF LoadGoal, LoadVersion, Analyze, RollBack, Crash, jobs
<1>9. CASE \/ \E r \in Editors, k \in EditKinds : Edit(r, k)
           \/ \E r \in Activators : ReadGoal(r) \/ CheckJobs(r)
           \/ \E r \in Editors \cup Activators : Abandon(r)
           \/ UNCHANGED vars
  <2>1. UNCHANGED jobs
    BY <1>9 DEF Edit, ReadGoal, CheckJobs, Abandon, vars
  <2> QED
    BY <2>1 DEF jobs
<1> QED
  BY <1>2, <1>3, <1>4, <1>5, <1>6, <1>7, <1>8, <1>9 DEF Next, Attempt

\* The jobs of the goal live as JobLifecycle says, with any number of workers, racing
\* claims and reclaimed leases: a worker that lost its attempt decides nothing.
THEOREM JobsLiveTheirLife == Spec => JobsKeepLifecycle
<1>1. JInv /\ JInv' /\ [Next]_vars => [Life!Next]_(Life!jobVars)
  <2> SUFFICES ASSUME JInv, JInv', [Next]_vars PROVE Life!Next
    OBVIOUS
  <2>1. DOMAIN jstatus' = JobIds /\ DOMAIN jattempts' = JobIds
    BY DEF JInv, TypeOK
  <2> QED
    BY <2>1, JobTransitions DEF Life!Next
<1>2. JInv /\ [Next]_vars => JInv'
  BY NextJInv
<1> QED
  BY <1>1, <1>2, InitJInv, PTL DEF Spec, JobsKeepLifecycle

-----------------------------------------------------------------------------
(* Which goal the student pursues (GoalPursuit).                           *)

\* What GoalPursuit assumes of its constants.
PursuitConstants ==
  /\ RequestBound \in Nat /\ EndpointsAlone \in BOOLEAN
  /\ NoGoal \notin Goals /\ Unread \notin Goals \cup {NoGoal}
  /\ NoThread \notin Goals \cup {NoGoal, Unread}
  /\ Nobody \notin Holders /\ Holders \cap Endpoints = {}

\* The condition under which the writers of goals exclude one another.
Apart == EndpointsAlone \/ Endpoints = {}

-----------------------------------------------------------------------------
(* The inductive invariant of the pursuit.                                 *)

\* An open request of a writer with the lock holds it.
HoldersLock == \A r \in Holders : point[r] # "idle" => pursuitLock = r

\* No two requests are open at once.
OneOpen == \A q, r \in P!Writers : point[q] # "idle" /\ point[r] # "idle" => q = r

\* What the session of the open request has read is what the rows say.
SessionCurrent ==
  \A r \in P!Writers : point[r] # "idle" =>
    /\ target[r] \in Goals
    /\ known[r][target[r]] = lifecycle[target[r]]
    /\ \A g \in Goals : known[r][g] \in {P!Unknown, lifecycle[g]}
    /\ thread[r] \in {Unread, pointer, NoThread}
    /\ thread[r] = NoThread => pointer = NoGoal
    /\ thread[r] \in {Unread, NoThread} \/ opened
    /\ makes[r] = "draft" => lifecycle[target[r]] = "absent"
    /\ point[r] \in {"read", "gotThread"} => makes[r] = "active"

\* After the search it knows every goal it will pause, and the pointer.
SearchComplete ==
  \A r \in P!Writers : point[r] = "searched" =>
    /\ makes[r] = "active" /\ thread[r] # Unread
    /\ rivals[r] = P!Siblings(r)
    /\ \A g \in rivals[r] : known[r][g] = lifecycle[g]

\* A request that has not searched pauses no goal.
NoRivalsYet == \A r \in P!Writers : point[r] # "searched" => rivals[r] = {}

\* No thread points at a goal before there is one.
NoThreadYet == ~opened => pointer = NoGoal

PursuitInv ==
  /\ P!TypeOK
  /\ NoThreadYet
  /\ HoldersLock
  /\ OneOpen
  /\ SessionCurrent
  /\ SearchComplete
  /\ NoRivalsYet
  /\ P!PursuitAgrees

-----------------------------------------------------------------------------
(* Type correctness of the pursuit.                                        *)

LEMMA PInitType == ASSUME PursuitConstants, P!Init PROVE P!TypeOK
<1>1. P!Fresh \in [Goals -> P!Lifecycles \cup {P!Unknown}]
  BY DEF P!Fresh
<1>2. known \in [P!Writers -> [Goals -> P!Lifecycles \cup {P!Unknown}]]
  BY <1>1 DEF P!Init
<1>3. lifecycle \in [Goals -> P!Lifecycles] /\ requests \in 0..RequestBound
  BY DEF PursuitConstants, P!Init, P!Lifecycles
<1> QED
  BY <1>2, <1>3 DEF P!Init, P!TypeOK

LEMMA OpenType ==
  ASSUME PursuitConstants, P!TypeOK, NEW r \in P!Writers,
         (P!Decide(r) /\ r \in Holders) \/ P!ReadGoal(r)
  PROVE  P!TypeOK'
<1>1. /\ lifecycle' = lifecycle /\ pointer' = pointer /\ opened' = opened
      /\ pursuitLock' \in Holders \cup {Nobody}
  BY DEF P!TypeOK, P!Decide, P!ReadGoal, P!row
<1>2. point' \in [P!Writers -> {"idle", "read", "gotThread", "decided", "searched"}]
  BY DEF P!TypeOK, P!Decide, P!ReadGoal, P!Opens
<1>7. requests' \in 0..RequestBound
  BY DEF PursuitConstants, P!TypeOK, P!Decide, P!ReadGoal, P!Opens
<1>3. target' \in [P!Writers -> Goals \cup {NoGoal}]
  BY DEF P!TypeOK, P!Decide, P!ReadGoal
<1>4. known' \in [P!Writers -> [Goals -> P!Lifecycles \cup {P!Unknown}]]
  <2>1. \A g \in Goals : [P!Fresh EXCEPT ![g] = lifecycle[g]] \in [Goals -> P!Lifecycles \cup {P!Unknown}]
    BY DEF P!TypeOK, P!Fresh
  <2>2. \E g \in Goals : known' = [known EXCEPT ![r] = [P!Fresh EXCEPT ![g] = lifecycle[g]]]
    BY DEF P!Decide, P!ReadGoal
  <2> QED
    BY <2>1, <2>2 DEF P!TypeOK
<1>5. /\ thread' \in [P!Writers -> Goals \cup {NoGoal, Unread, NoThread}]
      /\ rivals' \in [P!Writers -> SUBSET Goals]
  <2>1. \E found \in {Unread, pointer} : thread' = [thread EXCEPT ![r] = found]
    BY DEF P!Decide, P!ReadGoal
  <2>2. rivals' = [rivals EXCEPT ![r] = {}]
    BY DEF P!Decide, P!ReadGoal
  <2> QED
    BY <2>1, <2>2 DEF P!TypeOK
<1>8. makes' \in [P!Writers -> {"draft", "active", "kept"}]
  <2>1. \E m \in {"draft", "active", "kept"} : makes' = [makes EXCEPT ![r] = m]
    BY DEF P!Decide, P!ReadGoal
  <2> QED
    BY <2>1 DEF P!TypeOK
<1>6. opened' \in BOOLEAN
  BY <1>1 DEF P!TypeOK
<1> QED
  BY <1>1, <1>2, <1>3, <1>4, <1>5, <1>6, <1>7, <1>8 DEF P!TypeOK

LEMMA OpenThreadType == ASSUME P!TypeOK, P!OpenThread PROVE P!TypeOK'
  BY DEF P!TypeOK, P!OpenThread, P!Create, P!session

LEMMA ReadThreadType == ASSUME P!TypeOK, NEW r \in P!Writers, P!ReadThread(r) PROVE P!TypeOK'
<1>1. opened' \in BOOLEAN
  BY DEF P!TypeOK, P!ReadThread, P!Create
<1> QED
  BY <1>1 DEF P!TypeOK, P!ReadThread

LEMMA FindSiblingsType == ASSUME P!TypeOK, NEW r \in P!Writers, P!FindSiblings(r) PROVE P!TypeOK'
<1>1. known' \in [P!Writers -> [Goals -> P!Lifecycles \cup {P!Unknown}]]
  BY DEF P!TypeOK, P!FindSiblings, P!Reads
<1>2. rivals' \in [P!Writers -> SUBSET Goals]
  BY DEF P!TypeOK, P!FindSiblings, P!Siblings, P!Active
<1>3. P!Thread(r) \in Goals \cup {NoGoal, Unread, NoThread}
  BY DEF P!TypeOK, P!Thread
<1> QED
  BY <1>1, <1>2, <1>3 DEF P!TypeOK, P!FindSiblings, P!row

LEMMA WrittenType ==
  ASSUME P!TypeOK, NEW r \in P!Writers, NEW g \in Goals
  PROVE  P!Written(r, g) \in P!Lifecycles
  BY DEF P!TypeOK, P!Written, P!Assigned, P!Lifecycles, P!Unknown

LEMMA EndType == ASSUME P!TypeOK, NEW r \in P!Writers, P!Commit(r) \/ P!Abandon(r) PROVE P!TypeOK'
<1>1. lifecycle' \in [Goals -> P!Lifecycles]
  BY WrittenType DEF P!TypeOK, P!Commit, P!Abandon, P!row
<1>2. pointer' \in Goals \cup {NoGoal} /\ opened' \in BOOLEAN
  BY DEF P!TypeOK, P!Commit, P!Abandon, P!row, P!PointerAfter
<1>3. known' \in [P!Writers -> [Goals -> P!Lifecycles \cup {P!Unknown}]]
  BY DEF P!TypeOK, P!Commit, P!Abandon, P!Fresh
<1>4. requests' = requests /\ pursuitLock' \in Holders \cup {Nobody}
  BY DEF P!TypeOK, P!Commit, P!Abandon
<1>5. point' \in [P!Writers -> {"idle", "read", "gotThread", "decided", "searched"}]
      /\ target' \in [P!Writers -> Goals \cup {NoGoal}]
  BY DEF P!TypeOK, P!Commit, P!Abandon
<1>6. thread' \in [P!Writers -> Goals \cup {NoGoal, Unread, NoThread}] /\ rivals' \in [P!Writers -> SUBSET Goals]
      /\ makes' \in [P!Writers -> {"draft", "active", "kept"}]
  BY DEF P!TypeOK, P!Commit, P!Abandon
<1> QED
  BY <1>1, <1>2, <1>3, <1>4, <1>5, <1>6 DEF P!TypeOK

LEMMA PNextType == ASSUME PursuitConstants, P!TypeOK, [P!Next]_(P!vars) PROVE P!TypeOK'
<1>1. CASE UNCHANGED P!vars
  BY <1>1 DEF P!TypeOK, P!vars, P!row, P!session
<1>2. CASE P!Next
  BY <1>2, OpenThreadType, OpenType, ReadThreadType, FindSiblingsType, EndType
  DEF P!Next, P!Writers
<1> QED
  BY <1>1, <1>2

\* Every variable of the goals and of the requests about them keeps its type.
THEOREM PursuitTypeCorrect ==
  ASSUME PursuitConstants
  PROVE  P!Spec => []P!TypeOK
<1>1. P!Init => P!TypeOK
  BY PInitType
<1>2. P!TypeOK /\ [P!Next]_(P!vars) => P!TypeOK'
  BY PNextType
<1> QED
  BY <1>1, <1>2, PTL DEF P!Spec
-----------------------------------------------------------------------------
(* The pointer and the active goal.                                        *)

\* The requests a writer finds open when it begins: none, if writers exclude one
\* another.
LEMMA BeginsAlone ==
  ASSUME PursuitConstants, Apart, PursuitInv, NEW r \in P!Writers,
         (P!Decide(r) /\ r \in Holders) \/ (P!ReadGoal(r) /\ r \in Endpoints)
  PROVE  \A q \in P!Writers : point[q] = "idle"
<1>1. CASE EndpointsAlone
  <2>1. CASE r \in Endpoints
    BY <1>1, <2>1 DEF P!Decide, P!ReadGoal, P!Opens
  <2>2. CASE r \notin Endpoints
    <3>1. \A q \in Endpoints : point[q] = "idle"
      BY <1>1, <2>2 DEF P!Decide, P!ReadGoal, P!Opens, P!Writers
    <3>2. \A q \in Holders : point[q] = "idle"
      BY <2>2 DEF PursuitConstants, P!Decide, P!ReadGoal, P!MayLock, PursuitInv, HoldersLock, P!Writers
    <3> QED
      BY <3>1, <3>2 DEF P!Writers
  <2> QED
    BY <2>1, <2>2
<1>2. CASE Endpoints = {}
  BY <1>2 DEF PursuitConstants, P!Decide, P!ReadGoal, P!MayLock, PursuitInv, HoldersLock, P!Writers
<1> QED
  BY <1>1, <1>2 DEF Apart

LEMMA InitInv == ASSUME PursuitConstants, P!Init PROVE PursuitInv
<1>1. P!Active = {} /\ pointer = NoGoal
  BY DEF P!Init, P!Active
<1>2. P!PursuitAgrees
  BY <1>1 DEF P!PursuitAgrees
<1> QED
  BY <1>1, <1>2, PInitType
  DEF P!Init, PursuitInv, NoThreadYet, HoldersLock, OneOpen, SessionCurrent, SearchComplete,
      NoRivalsYet, P!Writers

LEMMA OpenInv ==
  ASSUME PursuitConstants, Apart, PursuitInv, NEW r \in P!Writers,
         (P!Decide(r) /\ r \in Holders) \/ (P!ReadGoal(r) /\ r \in Endpoints)
  PROVE  PursuitInv'
<1>1. \A q \in P!Writers : point[q] = "idle"
  BY BeginsAlone
<1>2. P!TypeOK /\ P!TypeOK'
  BY OpenType DEF PursuitInv
<1>3. UNCHANGED P!row
  BY DEF P!Decide, P!ReadGoal, P!row
<1>4. \A q \in P!Writers : point'[q] =
       IF q # r THEN "idle" ELSE IF P!Decide(r) /\ r \in Holders THEN "decided" ELSE "read"
  BY <1>1, <1>2 DEF PursuitConstants, P!TypeOK, P!Decide, P!ReadGoal, P!Opens
<1>5. HoldersLock' /\ OneOpen'
  BY <1>2, <1>4 DEF PursuitConstants, P!TypeOK, HoldersLock, OneOpen, P!Decide, P!ReadGoal, P!Writers
<1>6. SessionCurrent'
  <2>1. /\ target'[r] \in Goals
        /\ known'[r] = [P!Fresh EXCEPT ![target'[r]] = lifecycle[target'[r]]]
    BY <1>2 DEF P!TypeOK, P!Decide, P!ReadGoal
  <2>5. thread'[r] = Unread \/ (thread'[r] = pointer /\ opened)
    BY <1>2 DEF P!TypeOK, P!Decide, P!ReadGoal
  <2>6. pointer # NoThread
    BY <1>2 DEF PursuitConstants, P!TypeOK
  <2>2. makes'[r] = "draft" => lifecycle[target'[r]] = "absent"
    BY <1>2 DEF P!TypeOK, P!Decide, P!ReadGoal
  <2>3. point'[r] = "read" => makes'[r] = "active"
    BY <1>2, <1>4 DEF P!TypeOK, P!ReadGoal
  <2>4. \A g \in Goals : known'[r][g] = IF g = target'[r] THEN lifecycle[g] ELSE P!Unknown
    BY <2>1 DEF P!Fresh
  <2> QED
    BY <1>3, <1>4, <2>1, <2>2, <2>3, <2>4, <2>5, <2>6 DEF PursuitConstants, SessionCurrent, P!row
<1>7. SearchComplete'
  BY <1>4 DEF SearchComplete
<1>8. NoRivalsYet'
  <2>1. rivals' = [rivals EXCEPT ![r] = {}] /\ \A q \in P!Writers : rivals[q] = {}
    BY <1>1 DEF P!Decide, P!ReadGoal, PursuitInv, NoRivalsYet
  <2> QED
    BY <1>2, <2>1 DEF NoRivalsYet, P!TypeOK
<1>9. P!PursuitAgrees' /\ NoThreadYet'
  BY <1>3 DEF PursuitInv, NoThreadYet, P!PursuitAgrees, P!Active, P!row
<1> QED
  BY <1>2, <1>5, <1>6, <1>7, <1>8, <1>9 DEF PursuitInv

\* A new thread points at no goal, as if there were none.
LEMMA OpenThreadInv == ASSUME PursuitInv, P!OpenThread PROVE PursuitInv'
<1>1. P!TypeOK /\ P!TypeOK'
  BY OpenThreadType DEF PursuitInv
<1>2. UNCHANGED <<lifecycle, pointer, pursuitLock, P!session>> /\ opened' = TRUE
  BY DEF P!OpenThread, P!Create
<1>3. HoldersLock' /\ OneOpen' /\ NoRivalsYet' /\ NoThreadYet'
  BY <1>2 DEF PursuitInv, HoldersLock, OneOpen, NoRivalsYet, NoThreadYet, P!session
<1>4. SessionCurrent' /\ SearchComplete' /\ P!PursuitAgrees'
  BY <1>2
  DEF PursuitInv, SessionCurrent, SearchComplete, P!PursuitAgrees, P!Siblings, P!Active, P!session
<1> QED
  BY <1>1, <1>3, <1>4 DEF PursuitInv

LEMMA ReadThreadInv ==
  ASSUME PursuitConstants, PursuitInv, NEW r \in P!Writers, P!ReadThread(r)
  PROVE  PursuitInv'
<1>1. P!TypeOK /\ P!TypeOK'
  BY ReadThreadType DEF PursuitInv
<1>2. /\ UNCHANGED <<lifecycle, pointer, pursuitLock, target, known, rivals, makes>>
      /\ point' = [point EXCEPT ![r] = "gotThread"] /\ point[r] = "read"
      /\ thread' = [thread EXCEPT ![r] = pointer] /\ opened' = TRUE
  BY DEF PursuitInv, P!TypeOK, P!ReadThread, P!Create
<1>3. HoldersLock' /\ OneOpen'
  BY <1>1, <1>2 DEF PursuitInv, P!TypeOK, HoldersLock, OneOpen, P!Writers
<1>4. SessionCurrent' /\ NoThreadYet'
  <2>1. pointer # NoThread
    BY <1>1 DEF PursuitConstants, P!TypeOK
  <2> QED
    BY <1>1, <1>2, <2>1 DEF PursuitInv, P!TypeOK, SessionCurrent, NoThreadYet
<1>5. SearchComplete' /\ NoRivalsYet'
  BY <1>1, <1>2 DEF PursuitInv, P!TypeOK, SearchComplete, NoRivalsYet, P!Siblings, P!Active
<1>6. P!PursuitAgrees'
  BY <1>2 DEF PursuitInv, P!PursuitAgrees, P!Active
<1> QED
  BY <1>1, <1>3, <1>4, <1>5, <1>6 DEF PursuitInv

LEMMA FindSiblingsInv ==
  ASSUME PursuitConstants, PursuitInv, NEW r \in P!Writers, P!FindSiblings(r)
  PROVE  PursuitInv'
<1>1. P!TypeOK /\ P!TypeOK'
  BY FindSiblingsType DEF PursuitInv
<1>2. /\ UNCHANGED <<lifecycle, pointer, opened, pursuitLock, target, makes>>
      /\ point' = [point EXCEPT ![r] = "searched"] /\ point[r] \in {"gotThread", "decided"}
      /\ rivals' = [rivals EXCEPT ![r] = P!Siblings(r)]
      /\ makes[r] = "active"
      /\ thread' = [thread EXCEPT ![r] = P!Thread(r)]
  BY DEF P!FindSiblings, P!row
<1>3. HoldersLock' /\ OneOpen'
  BY <1>1, <1>2 DEF PursuitInv, P!TypeOK, HoldersLock, OneOpen, P!Writers
<1>4. \A q \in P!Writers \ {r} : known'[q] = known[q]
  BY <1>1 DEF P!TypeOK, P!FindSiblings
<1>5. \A g \in Goals : known'[r][g] = IF g \in P!Siblings(r) THEN lifecycle[g] ELSE known[r][g]
  <2> SUFFICES ASSUME NEW g \in Goals
               PROVE  known'[r][g] = IF g \in P!Siblings(r) THEN lifecycle[g] ELSE known[r][g]
    OBVIOUS
  <2>1. known'[r][g] = IF g \in P!Siblings(r) THEN P!Reads(r, g) ELSE known[r][g]
    BY <1>1 DEF P!TypeOK, P!FindSiblings
  <2>2. P!Reads(r, g) = lifecycle[g]
    BY <1>2 DEF PursuitInv, SessionCurrent, P!Reads
  <2> QED
    BY <2>1, <2>2
<1>10. /\ P!Thread(r) \in {pointer, NoThread}
       /\ P!Thread(r) = NoThread => pointer = NoGoal
       /\ P!Thread(r) = NoThread \/ opened
  <2>1. pointer # NoThread
    BY <1>1 DEF PursuitConstants, P!TypeOK
  <2>2. /\ thread[r] \in {Unread, pointer, NoThread}
        /\ thread[r] = NoThread => pointer = NoGoal
        /\ thread[r] \in {Unread, NoThread} \/ opened
        /\ ~opened => pointer = NoGoal
    BY <1>2 DEF PursuitInv, SessionCurrent, NoThreadYet
  <2> QED
    BY <2>1, <2>2 DEF P!Thread
<1>6. SessionCurrent' /\ NoThreadYet'
  BY <1>1, <1>2, <1>4, <1>5, <1>10 DEF PursuitInv, P!TypeOK, SessionCurrent, NoThreadYet
<1>7. SearchComplete'
  <2>1. P!Siblings(r) \subseteq Goals
    BY DEF P!Siblings, P!Active
  <2>2. \A q \in P!Writers : P!Siblings(q)' = P!Siblings(q)
    BY <1>2 DEF P!Siblings, P!Active
  <2>3. thread'[r] # Unread
    BY <1>1, <1>2, <1>10 DEF PursuitConstants, PursuitInv, P!TypeOK
  <2> QED
    BY <1>1, <1>2, <1>4, <1>5, <2>1, <2>2, <2>3 DEF PursuitInv, P!TypeOK, SearchComplete
<1>8. NoRivalsYet'
  BY <1>1, <1>2 DEF PursuitInv, P!TypeOK, NoRivalsYet
<1>9. P!PursuitAgrees'
  BY <1>2 DEF PursuitInv, P!PursuitAgrees, P!Active
<1> QED
  BY <1>1, <1>3, <1>6, <1>7, <1>8, <1>9 DEF PursuitInv

\* What a commit makes of the rows: the goal of the request is the active one and
\* the thread, if the session found one, points at it; or neither changes.
LEMMA CommitWrites ==
  ASSUME PursuitConstants, PursuitInv, NEW r \in P!Writers, P!Commit(r)
  PROVE  P!PursuitAgrees' /\ NoThreadYet'
<1>1. P!TypeOK /\ target[r] \in Goals
  BY DEF PursuitInv, P!Commit, SessionCurrent
<1>2. \A g \in Goals : lifecycle'[g] = P!Written(r, g)
  BY DEF P!Commit
<1>3. CASE point[r] = "searched"
  <2>1. makes[r] = "active" /\ rivals[r] = P!Active \ {target[r]}
    BY <1>3 DEF PursuitInv, SearchComplete, P!Siblings
  <2>2. \/ thread[r] = NoThread /\ pointer' = NoGoal
        \/ opened' /\ pointer' = target[r]
    <3>1. /\ thread[r] \in {pointer, NoThread}
          /\ thread[r] = NoThread => pointer = NoGoal
          /\ thread[r] = NoThread \/ opened
      BY <1>3 DEF PursuitInv, SearchComplete, SessionCurrent
    <3> QED
      BY <2>1, <3>1 DEF P!Commit, P!PointerAfter
  <2>3. lifecycle'[target[r]] = "active"
    BY <1>1, <1>2, <1>3, <2>1 DEF PursuitInv, SessionCurrent, P!Written, P!Assigned
  <2>4. ASSUME NEW g \in Goals, g # target[r] PROVE lifecycle'[g] # "active"
    <3>1. CASE g \in rivals[r]
      <4>1. known[r][g] = lifecycle[g] /\ lifecycle[g] = "active"
        BY <1>3, <2>1, <3>1 DEF PursuitInv, SearchComplete, P!Active
      <4>2. P!Assigned(r, g) = "paused"
        BY <2>4, <3>1 DEF P!Assigned
      <4> QED
        BY <1>2, <4>1, <4>2 DEF P!Written
    <3>2. CASE g \notin rivals[r]
      <4>1. P!Assigned(r, g) = known[r][g] /\ lifecycle[g] # "active"
        BY <2>1, <2>4, <3>2 DEF P!Assigned, P!Active
      <4> QED
        BY <1>2, <4>1 DEF P!Written
    <3> QED
      BY <3>1, <3>2
  <2>5. P!Active' = {target[r]}
    BY <1>1, <2>3, <2>4 DEF P!Active
  <2> QED
    BY <1>1, <2>2, <2>5 DEF PursuitConstants, P!PursuitAgrees, NoThreadYet
<1>4. CASE point[r] # "searched"
  <2>1. point[r] = "decided" /\ makes[r] # "active" /\ rivals[r] = {}
    BY <1>4 DEF P!Commit, PursuitInv, NoRivalsYet
  <2>2. pointer' = pointer /\ opened' = opened
    BY <2>1 DEF P!Commit, P!PointerAfter
  <2>3. ASSUME NEW g \in Goals PROVE lifecycle'[g] = "active" <=> lifecycle[g] = "active"
    <3>1. CASE g = target[r] /\ makes[r] = "draft"
      <4>1. lifecycle[g] = "absent" /\ known[r][g] = "absent"
        BY <2>1, <3>1 DEF PursuitInv, SessionCurrent
      <4> QED
        BY <1>2, <3>1, <4>1 DEF P!Written, P!Assigned
    <3>2. CASE g # target[r] \/ makes[r] = "kept"
      BY <1>2, <2>1, <3>2 DEF P!Written, P!Assigned
    <3> QED
      BY <1>1, <2>1, <3>1, <3>2 DEF P!TypeOK
  <2>4. P!Active' = P!Active
    BY <2>3 DEF P!Active
  <2> QED
    BY <2>2, <2>4 DEF PursuitInv, P!PursuitAgrees, NoThreadYet
<1> QED
  BY <1>3, <1>4

LEMMA EndInv ==
  ASSUME PursuitConstants, PursuitInv, NEW r \in P!Writers, P!Commit(r) \/ P!Abandon(r)
  PROVE  PursuitInv'
<1>1. P!TypeOK /\ P!TypeOK'
  BY EndType DEF PursuitInv
<1>2. \A q \in P!Writers : point'[q] = "idle"
  <2>1. point[r] # "idle" /\ point' = [point EXCEPT ![r] = "idle"]
    BY DEF P!Commit, P!Abandon
  <2>2. \A q \in P!Writers \ {r} : point[q] = "idle"
    BY <2>1 DEF PursuitInv, OneOpen
  <2> QED
    BY <1>1, <2>1, <2>2 DEF P!TypeOK
<1>3. rivals' = [rivals EXCEPT ![r] = {}]
  BY DEF P!Commit, P!Abandon
<1>4. P!PursuitAgrees' /\ NoThreadYet'
  <2>1. CASE P!Commit(r)
    BY <2>1, CommitWrites
  <2>2. CASE P!Abandon(r)
    BY <2>2 DEF PursuitInv, P!PursuitAgrees, NoThreadYet, P!Active, P!Abandon, P!row
  <2> QED
    BY <2>1, <2>2
<1>5. NoRivalsYet'
  <2>1. \A q \in P!Writers \ {r} : rivals[q] = {}
    BY DEF PursuitInv, NoRivalsYet, OneOpen, P!Commit, P!Abandon
  <2> QED
    BY <1>1, <1>3, <2>1 DEF P!TypeOK, NoRivalsYet
<1> QED
  BY <1>1, <1>2, <1>4, <1>5 DEF PursuitInv, HoldersLock, OneOpen, SessionCurrent, SearchComplete, P!Writers

LEMMA NextInv == ASSUME PursuitConstants, Apart, PursuitInv, [P!Next]_(P!vars) PROVE PursuitInv'
<1>1. CASE UNCHANGED P!vars
  BY <1>1
  DEF P!vars, P!row, P!session, PursuitInv, P!TypeOK, NoThreadYet, HoldersLock, OneOpen, SessionCurrent,
      SearchComplete, NoRivalsYet, P!PursuitAgrees, P!Siblings, P!Active
<1>2. CASE P!Next
  <2>1. ASSUME NEW r \in Holders, P!Decide(r) PROVE PursuitInv'
    <3>1. r \in P!Writers
      BY DEF P!Writers
    <3> QED
      BY <2>1, <3>1, OpenInv
  <2>2. ASSUME NEW r \in Endpoints, P!ReadGoal(r) \/ P!ReadThread(r) PROVE PursuitInv'
    BY <2>2, OpenInv, ReadThreadInv DEF P!Writers
  <2>3. ASSUME NEW r \in P!Writers, P!FindSiblings(r) \/ P!Commit(r) \/ P!Abandon(r) PROVE PursuitInv'
    BY <2>3, FindSiblingsInv, EndInv
  <2> QED
    BY <1>2, <2>1, <2>2, <2>3, OpenThreadInv DEF P!Next
<1> QED
  BY <1>1, <1>2

\* At most one goal is active, and it is the thread's goal unless it was made active
\* before there was a thread, with any number of writers that hold the person's
\* lock, if nothing overlaps a request of the endpoint.
THEOREM PointerIsActive ==
  ASSUME PursuitConstants, Apart
  PROVE  P!Spec => []PursuitAgrees
<1>1. P!Init => PursuitInv
  BY InitInv
<1>2. PursuitInv /\ [P!Next]_(P!vars) => PursuitInv'
  BY NextInv
<1>3. PursuitInv => PursuitAgrees
  BY DEF PursuitInv, P!PursuitAgrees, P!Active, PursuitAgrees, Active
<1> QED
  BY <1>1, <1>2, <1>3, PTL DEF P!Spec
=============================================================================
