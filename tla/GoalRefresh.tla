---------------------------- MODULE GoalRefresh -----------------------------
(***************************************************************************)
(* The background intelligence of one goal, and what invalidates it.       *)
(*                                                                         *)
(* A request that changes the student's profile (or the anchors of the     *)
(* goal) holds the person's row lock, marks the goal stale and stages a    *)
(* refresh job unless one is alive.  A worker runs the job under its pin   *)
(* for minutes, without the person's lock, and takes that lock only to     *)
(* compare revisions and publish.  The activation endpoint stages jobs     *)
(* without the lock, and so does the failure handler end them.             *)
(*                                                                         *)
(* The queue is JobQueue seen through JobLifecycle: a claim is one step.   *)
(* Uncommitted writes of a request are in its variables; goalLock is the   *)
(* row lock its flushed UPDATE of the goal holds until the commit.         *)
(***************************************************************************)
EXTENDS Integers, FiniteSets

CONSTANTS Editors,      \* requests that take lock_person
          Activators,   \* requests of POST /goals/{id}/activate
          Workers,      \* goal worker loops
          JobIds,       \* the job rows of this goal, at most
          EditKinds,    \* what the edits change
          MaxAttempts,
          EditBound,    \* edits in a behaviour
          ActivationBound,
          CrashBound,   \* crashes and stalls
          ClaimRace,    \* two processes may claim two jobs of the goal at once
          Nobody, NoJob, NoResult

ASSUME NumberedJobs == JobIds \subseteq Nat
ASSUME ConstantTypes ==
  /\ MaxAttempts \in Nat \ {0}
  /\ EditBound \in Nat /\ ActivationBound \in Nat /\ CrashBound \in Nat
  /\ ClaimRace \in BOOLEAN
ASSUME Distinct ==
  /\ Nobody \notin Editors \cup Activators \cup Workers
  /\ NoJob \notin JobIds
  /\ Editors \cap Activators = {} /\ Editors \cap Workers = {}
  /\ Activators \cap Workers = {}

VARIABLES
  \* Committed rows.
  version,     \* vaults.version
  facts,       \* revision of the profile facts an analysis reads
  anchors,     \* revision of the goal's anchors
  moved,       \* the workers for which goals.updated_at is no longer the one
               \* they read: every UPDATE of the goal row renews it
  goalStatus,  \* goals.intelligence_status
  active,      \* goals.lifecycle_status = "active"
  result,      \* the inputs goal_intelligence was computed from
  research,    \* the anchors its research was made for, if it has research
  jstatus, jattempts, jkind,
  \* Locks.
  personLock, goalLock,
  \* Open requests.
  rpc,         \* where a request is
  kind,        \* what an editor changes
  stages,      \* its transaction inserts a job
  touches,     \* its transaction updates the goal row
  seen,        \* the goal an activator read
  \* Workers.
  wpc, wjob, watt, wanchors, wversion, wfacts,
  wresearch,   \* the research stored when the attempt began, then its own
  \* Bounds.
  edits, activations, crashes,
  \* History: a last verdict left the goal row alone while an edit was open.
  overtaken

profile == <<version, facts>>
goal    == <<anchors, moved, goalStatus, active>>
analysis == <<result, research>>
jobs    == <<jstatus, jattempts, jkind>>
held    == <<personLock, goalLock>>
request == <<rpc, kind, stages, touches, seen>>
worker  == <<wpc, wjob, watt, wanchors, wversion, wfacts, wresearch>>
bounds  == <<edits, activations, crashes, overtaken>>
vars    == <<profile, goal, analysis, jobs, held, request, worker, bounds>>

GoalStatuses == {"pending", "stale", "ready", "partial", "failed"}
\* A full analysis, or one that reuses the research of the last one.
JobKinds     == {"goal_intelligence", "assessment_refresh"}
JobStatuses  == {"absent", "pending", "processing", "completed", "failed"}
\* Profile facts the goal's analysis reads or not, anchors of the goal, the goal
\* that is pursued, or facts sent again with the onboarding form.
Kinds        == {"relevant", "irrelevant", "anchors", "pursuit", "onboarding"}
WorkPoints   == {"idle", "claimed", "gotGoal", "gotVersion", "analyzed", "rolledback"}
Inputs       == [facts : Nat, anchors : Nat]
Researched   == Nat \cup {NoResult}
Unseen       == [status |-> "pending", active |-> FALSE]

ASSUME KnownKinds == EditKinds \subseteq Kinds

TypeOK ==
  /\ version \in Nat /\ facts \in Nat /\ anchors \in Nat
  /\ moved \in SUBSET Workers
  /\ goalStatus \in GoalStatuses
  /\ active \in BOOLEAN
  /\ result \in Inputs \cup {NoResult}
  /\ research \in Researched
  /\ jstatus \in [JobIds -> JobStatuses]
  /\ jattempts \in [JobIds -> 0..MaxAttempts]
  /\ jkind \in [JobIds -> JobKinds]
  /\ personLock \in Editors \cup {Nobody}
  /\ goalLock \in Editors \cup Activators \cup {Nobody}
  /\ rpc \in [Editors \cup Activators -> {"idle", "read", "flushed"}]
  /\ kind \in [Editors -> Kinds]
  /\ stages \in [Editors \cup Activators -> BOOLEAN]
  /\ touches \in [Editors \cup Activators -> BOOLEAN]
  /\ seen \in [Activators -> [status : GoalStatuses, active : BOOLEAN]]
  /\ wpc \in [Workers -> WorkPoints]
  /\ wjob \in [Workers -> JobIds \cup {NoJob}]
  /\ watt \in [Workers -> 0..MaxAttempts]
  /\ wanchors \in [Workers -> Nat]
  /\ wversion \in [Workers -> Nat]
  /\ wfacts \in [Workers -> Nat]
  /\ wresearch \in [Workers -> Researched]
  /\ edits \in 0..EditBound
  /\ activations \in 0..ActivationBound
  /\ crashes \in 0..CrashBound
  /\ overtaken \in BOOLEAN

\* A goal was created together with its first job.
Init ==
  /\ version = 0 /\ facts = 0 /\ anchors = 0 /\ moved = {}
  /\ goalStatus = "pending"
  /\ active \in BOOLEAN
  /\ result = NoResult /\ research = NoResult
  /\ \E first \in JobIds :
       /\ \A j \in JobIds : first <= j
       /\ jstatus = [j \in JobIds |-> IF j = first THEN "pending" ELSE "absent"]
  /\ jattempts = [j \in JobIds |-> 0]
  /\ jkind = [j \in JobIds |-> "goal_intelligence"]
  /\ personLock = Nobody /\ goalLock = Nobody
  /\ rpc = [r \in Editors \cup Activators |-> "idle"]
  /\ kind = [r \in Editors |-> "relevant"]
  /\ stages = [r \in Editors \cup Activators |-> FALSE]
  /\ touches = [r \in Editors \cup Activators |-> FALSE]
  /\ seen = [r \in Activators |-> Unseen]
  /\ wpc = [w \in Workers |-> "idle"]
  /\ wjob = [w \in Workers |-> NoJob]
  /\ watt = [w \in Workers |-> 0]
  /\ wanchors = [w \in Workers |-> 0]
  /\ wversion = [w \in Workers |-> 0]
  /\ wfacts = [w \in Workers |-> 0]
  /\ wresearch = [w \in Workers |-> NoResult]
  /\ edits = 0 /\ activations = 0 /\ crashes = 0 /\ overtaken = FALSE

-----------------------------------------------------------------------------
(* Helpers.                                                                *)

LiveJobs == {j \in JobIds : jstatus[j] \in {"pending", "processing"}}
Unused   == {j \in JobIds : jstatus[j] = "absent"}

\* scalar_one_or_none raises when two jobs are alive: the request fails.
CanCheckJobs == Cardinality(LiveJobs) <= 1

\* Fault: the job is staged without looking for one.
StagesJobBlindly == TRUE

\* Fault: a job that has ended is taken for a live one.
StagesJobOnce == \A j \in JobIds : jstatus[j] = "absent"

\* enqueue_goal_intelligence_job without force.
StagesJob == LiveJobs = {}

\* dependencies.affects: with no recorded inputs every change matters; the
\* resolver marks the goal whenever its anchors change, not when it is only
\* mentioned, activated or paused.  The key the onboarding form passes is in no
\* list of recorded inputs.
Affects(k) ==
  k # "pursuit" /\ (result = NoResult \/ k \notin {"irrelevant", "onboarding"})

\* A goal that is mentioned while it waits gets a job, if it has none.
Enqueues(k) == Affects(k) \/ (k = "pursuit" /\ goalStatus \in {"pending", "stale"})

\* mark_intelligence_stale_for_vault_update asks for a refresh, everyone else
\* for a full analysis.
StagedKind(k) ==
  IF k \in {"relevant", "irrelevant", "onboarding"} THEN "assessment_refresh"
  ELSE "goal_intelligence"

\* The commit inserts the staged job, if any, in a fresh row.
InsertJob(r, k) ==
  IF stages[r]
  THEN LET fresh == CHOOSE j \in Unused : \A i \in Unused : j <= i
       IN /\ jstatus' = [jstatus EXCEPT ![fresh] = "pending"]
          /\ jkind' = [jkind EXCEPT ![fresh] = k]
  ELSE UNCHANGED <<jstatus, jkind>>

Pinned(j) == \E w \in Workers : wjob[w] = j /\ wpc[w] # "rolledback"

\* Fault: only the vault's revision is compared.
UnmovedVault(w) == wversion[w] = version

\* The inputs did not move since the attempt read them.
Unmoved(w) == wversion[w] = version /\ w \notin moved

WorkerIdle(w) ==
  /\ wpc' = [wpc EXCEPT ![w] = "idle"]
  /\ wjob' = [wjob EXCEPT ![w] = NoJob]
  /\ watt' = [watt EXCEPT ![w] = 0]
  /\ wanchors' = [wanchors EXCEPT ![w] = 0]
  /\ wversion' = [wversion EXCEPT ![w] = 0]
  /\ wfacts' = [wfacts EXCEPT ![w] = 0]
  /\ wresearch' = [wresearch EXCEPT ![w] = NoResult]

\* What a request holds in memory goes with it.
RequestDone(r) ==
  /\ kind' = [q \in Editors |-> IF q = r THEN "relevant" ELSE kind[q]]
  /\ seen' = [q \in Activators |-> IF q = r THEN Unseen ELSE seen[q]]
  /\ rpc' = [rpc EXCEPT ![r] = "idle"]
  /\ stages' = [stages EXCEPT ![r] = FALSE]
  /\ touches' = [touches EXCEPT ![r] = FALSE]
  /\ goalLock' = IF goalLock = r THEN Nobody ELSE goalLock

\* The UPDATE waits for the row's lock; assigning the status the row has writes
\* nothing and waits for nobody.
SetGoalStatus(s) ==
  /\ goalStatus # s => goalLock = Nobody
  /\ goalStatus' = s
  /\ moved' = IF goalStatus = s THEN moved ELSE Workers

-----------------------------------------------------------------------------
(* Requests that hold the person's lock: a vault or typed-record write with *)
(* mark_intelligence_stale_for_vault_update, or the goal resolver.          *)

\* lock_person, the writes, the stale mark (flushed before the next SELECT),
\* and the look for a live job.
Edit(r, k) ==
  /\ rpc[r] = "idle" /\ edits < EditBound
  /\ personLock = Nobody
  /\ Enqueues(k) => CanCheckJobs
  /\ Enqueues(k) /\ StagesJob => Unused # {}
  /\ LET marks == Affects(k) /\ (goalStatus # "stale" \/ k = "anchors")
     IN \E writes \in IF k = "pursuit" THEN BOOLEAN ELSE {marks} :
          /\ writes => goalLock = Nobody
          /\ touches' = [touches EXCEPT ![r] = writes]
          /\ goalLock' = IF writes THEN r ELSE goalLock
  /\ stages' = [stages EXCEPT ![r] = Enqueues(k) /\ StagesJob]
  /\ kind' = [kind EXCEPT ![r] = k]
  /\ personLock' = r
  /\ rpc' = [rpc EXCEPT ![r] = "flushed"]
  /\ edits' = edits + 1
  /\ UNCHANGED <<profile, goal, analysis, jobs, seen, worker, activations, crashes, overtaken>>

CommitEdit(r) ==
  /\ rpc[r] = "flushed"
  /\ stages[r] => Unused # {}
  /\ anchors' = IF kind[r] = "anchors" THEN anchors + 1 ELSE anchors
  /\ facts' = IF kind[r] \in {"relevant", "onboarding"} THEN facts + 1 ELSE facts
  /\ version' = IF kind[r] \in {"relevant", "irrelevant"} THEN version + 1 ELSE version
  /\ moved' = IF touches[r] THEN Workers ELSE moved
  /\ goalStatus' = IF touches[r] /\ kind[r] # "pursuit" THEN "stale" ELSE goalStatus
  /\ active' = IF touches[r] /\ kind[r] = "pursuit" THEN ~active ELSE active
  /\ InsertJob(r, StagedKind(kind[r]))
  /\ personLock' = Nobody
  /\ RequestDone(r)
  /\ UNCHANGED <<analysis, jattempts, worker, bounds>>

-----------------------------------------------------------------------------
(* POST /goals/{id}/activate: no lock_person.                              *)

ReadGoal(r) ==
  /\ rpc[r] = "idle" /\ activations < ActivationBound
  /\ activations' = activations + 1
  /\ seen' = [seen EXCEPT ![r] = [status |-> goalStatus, active |-> active]]
  /\ rpc' = [rpc EXCEPT ![r] = "read"]
  /\ UNCHANGED <<profile, goal, analysis, jobs, held, kind, stages, touches,
                 worker, edits, crashes, overtaken>>

\* The lifecycle change is flushed by the look for a live job, which is made
\* when the goal, as read before, was waiting for its intelligence.
CheckJobs(r) ==
  /\ rpc[r] = "read"
  /\ LET waits == seen[r].status \in {"stale", "pending"}
         moves == ~seen[r].active
     IN /\ waits => CanCheckJobs
        /\ waits /\ StagesJob => Unused # {}
        /\ moves => goalLock = Nobody
        /\ goalLock' = IF moves THEN r ELSE goalLock
        /\ touches' = [touches EXCEPT ![r] = moves]
        /\ stages' = [stages EXCEPT ![r] = waits /\ StagesJob]
  /\ rpc' = [rpc EXCEPT ![r] = "flushed"]
  /\ UNCHANGED <<profile, goal, analysis, jobs, personLock, kind, seen, worker, bounds>>

\* The inserted job refers to the person: the insert takes a share lock on that
\* row, which waits for lock_person.
CommitActivation(r) ==
  /\ rpc[r] = "flushed"
  /\ stages[r] => Unused # {} /\ personLock = Nobody
  /\ IF touches[r]
     THEN active' = TRUE /\ moved' = Workers
     ELSE UNCHANGED <<active, moved>>
  /\ InsertJob(r, "goal_intelligence")
  /\ RequestDone(r)
  /\ UNCHANGED <<profile, anchors, goalStatus, analysis, jattempts, personLock, worker,
                 bounds>>

\* A request rolls back: a later statement of it fails, Postgres breaks a
\* deadlock at its expense, or its server stops.
Abandon(r) ==
  /\ rpc[r] # "idle"
  /\ personLock' = IF personLock = r THEN Nobody ELSE personLock
  /\ RequestDone(r)
  /\ UNCHANGED <<profile, goal, analysis, jobs, worker, bounds>>

-----------------------------------------------------------------------------
(* The goal worker.                                                        *)

Claimable(j) == jstatus[j] = "pending" /\ jattempts[j] < MaxAttempts

Claim(w) ==
  /\ wpc[w] = "idle"
  /\ ClaimRace \/ \A j \in JobIds : jstatus[j] # "processing"
  /\ \E j \in JobIds :
       /\ Claimable(j)
       /\ jstatus' = [jstatus EXCEPT ![j] = "processing"]
       /\ jattempts' = [jattempts EXCEPT ![j] = @ + 1]
       /\ wjob' = [wjob EXCEPT ![w] = j]
       /\ watt' = [watt EXCEPT ![w] = jattempts[j] + 1]
  /\ wpc' = [wpc EXCEPT ![w] = "claimed"]
  /\ UNCHANGED <<profile, goal, analysis, held, jkind, request, wanchors, wversion, wfacts,
                 wresearch, bounds>>

\* The goal row: anchors, title and updated_at in one read.
LoadGoal(w) ==
  /\ wpc[w] = "claimed"
  /\ wanchors' = [wanchors EXCEPT ![w] = anchors]
  /\ wresearch' = [wresearch EXCEPT ![w] = research]
  /\ moved' = moved \ {w}
  /\ wpc' = [wpc EXCEPT ![w] = "gotGoal"]
  /\ UNCHANGED <<profile, anchors, goalStatus, active, analysis, jobs, held, request,
                 wjob, watt, wversion, wfacts, bounds>>

\* The person with the vault: profile_version is read before the facts.
LoadVersion(w) ==
  /\ wpc[w] = "gotGoal"
  /\ wversion' = [wversion EXCEPT ![w] = version]
  /\ wpc' = [wpc EXCEPT ![w] = "gotVersion"]
  /\ UNCHANGED <<profile, goal, analysis, jobs, held, request, wjob, watt, wanchors,
                 wfacts, wresearch, bounds>>

\* Research for the anchors the attempt read, or none when the search or the
\* structuring of its hits fails.
RunResearch(w) == {wanchors[w], NoResult}

\* A refresh reuses stored research that is younger than a day: whether it is
\* nothing here can tell.
ResearchOf(w) ==
  RunResearch(w)
    \cup (IF jkind[wjob[w]] = "assessment_refresh" THEN {wresearch[w]} ELSE {})

\* The typed records and the unified vault, then research and the analysis
\* stages; the other stages answer something whatever fails in them.
Analyze(w) ==
  /\ wpc[w] = "gotVersion"
  /\ \E found \in ResearchOf(w) : wresearch' = [wresearch EXCEPT ![w] = found]
  /\ wfacts' = [wfacts EXCEPT ![w] = facts]
  /\ wpc' = [wpc EXCEPT ![w] = "analyzed"]
  /\ UNCHANGED <<profile, goal, analysis, jobs, held, request, wjob, watt, wanchors,
                 wversion, bounds>>

\* Without research nothing is better than partial.
Outcomes(w) == IF wresearch[w] = NoResult THEN {"partial"} ELSE {"ready", "partial"}

\* lock_person, refresh of goal and vault, comparison, and the commit.
Publish(w) ==
  /\ wpc[w] = "analyzed"
  /\ personLock = Nobody
  /\ Unmoved(w)
  /\ \E outcome \in Outcomes(w) : SetGoalStatus(outcome)
  /\ result' = [facts |-> wfacts[w], anchors |-> wanchors[w]]
  /\ research' = wresearch[w]
  /\ jstatus' = [jstatus EXCEPT ![wjob[w]] = "completed"]
  /\ WorkerIdle(w)
  /\ UNCHANGED <<profile, anchors, active, jattempts, jkind, held, request, bounds>>

\* The inputs moved: the goal is stale and the same job runs again.
Requeue(w) ==
  /\ wpc[w] = "analyzed"
  /\ personLock = Nobody
  /\ ~Unmoved(w)
  /\ SetGoalStatus("stale")
  /\ jstatus' = [jstatus EXCEPT ![wjob[w]] = "pending"]
  /\ jattempts' = [jattempts EXCEPT ![wjob[w]] = 0]
  /\ WorkerIdle(w)
  /\ UNCHANGED <<profile, anchors, active, analysis, jkind, held, request, bounds>>

\* A stage raises, the provider is down, or 540 s have passed.
RollBack(w) ==
  /\ wpc[w] \in {"claimed", "gotGoal", "gotVersion", "analyzed"}
  /\ wpc' = [wpc EXCEPT ![w] = "rolledback"]
  /\ UNCHANGED <<profile, goal, analysis, jobs, held, request, wjob, watt, wanchors,
                 wversion, wfacts, wresearch, bounds>>

\* Fault: a lost attempt is always retried.
AfterLostAttemptRetried(j) == "pending"

AfterLostAttempt(j) == IF jattempts[j] < MaxAttempts THEN "pending" ELSE "failed"

\* The last verdict of a goal that has failed already writes no goal row, so it
\* does not wait for an edit that has written one and saw the job alive.
PassesEdit(j) ==
  /\ AfterLostAttempt(j) = "failed" /\ goalStatus = "failed"
  /\ \E r \in Editors : touches[r] /\ kind[r] # "pursuit"

\* The verdict needs the row lock of the job and, when it changes the goal, of
\* the goal, but not the person's.
RecordFailure(w) ==
  /\ wpc[w] = "rolledback"
  /\ LET j == wjob[w]
     IN IF jstatus[j] = "processing" /\ jattempts[j] = watt[w]
        THEN /\ ~Pinned(j)
             /\ jstatus' = [jstatus EXCEPT ![j] = AfterLostAttempt(j)]
             /\ SetGoalStatus(AfterLostAttempt(j))
             /\ overtaken' = (overtaken \/ PassesEdit(j))
        ELSE UNCHANGED <<jstatus, goalStatus, moved, overtaken>>
  /\ WorkerIdle(w)
  /\ UNCHANGED <<profile, anchors, active, analysis, jattempts, jkind, held, request, edits,
                 activations, crashes>>

\* The process stops: its job stays in processing until the lease expires.
Crash(w) ==
  /\ wpc[w] # "idle" /\ crashes < CrashBound
  /\ crashes' = crashes + 1
  /\ WorkerIdle(w)
  /\ UNCHANGED <<profile, goal, analysis, jobs, held, request, edits, activations, overtaken>>

\* reclaim_expired_leases, by whichever worker polls next.  The goal row is
\* not written.  A worker that rolled back within its 540 s has a minute of
\* lease left: losing the lease there takes a stall, counted with the crashes.
Reclaim(j) ==
  /\ jstatus[j] = "processing" /\ ~Pinned(j)
  /\ IF \E w \in Workers : wjob[w] = j
     THEN crashes < CrashBound /\ crashes' = crashes + 1
     ELSE UNCHANGED crashes
  /\ jstatus' = [jstatus EXCEPT ![j] = AfterLostAttempt(j)]
  /\ UNCHANGED <<profile, goal, analysis, jattempts, jkind, held, request, worker, edits,
                 activations, overtaken>>

-----------------------------------------------------------------------------
Attempt(w) ==
  LoadGoal(w) \/ LoadVersion(w) \/ Analyze(w) \/ Publish(w) \/ Requeue(w)
  \/ RollBack(w) \/ RecordFailure(w)

Next ==
  \/ \E r \in Editors, k \in EditKinds : Edit(r, k)
  \/ \E r \in Editors : CommitEdit(r)
  \/ \E r \in Activators : ReadGoal(r) \/ CheckJobs(r) \/ CommitActivation(r)
  \/ \E r \in Editors \cup Activators : Abandon(r)
  \/ \E w \in Workers : Claim(w) \/ Attempt(w) \/ Crash(w)
  \/ \E j \in JobIds : Reclaim(j)

Spec == Init /\ [][Next]_vars

\* Workers poll and their attempts end within the timeout; an open request
\* commits; leases expire.  No request has to come and no process to crash.
FairSpec ==
  /\ Spec
  /\ \A w \in Workers : WF_vars(Claim(w)) /\ WF_vars(Attempt(w))
  /\ \A r \in Editors : WF_vars(CommitEdit(r))
  /\ \A r \in Activators : WF_vars(CheckJobs(r)) /\ WF_vars(CommitActivation(r))
  /\ \A j \in JobIds : WF_vars(Reclaim(j))

-----------------------------------------------------------------------------
(* Properties.                                                             *)

Usable == goalStatus \in {"ready", "partial"}

\* An analysis shown as usable was computed from the profile facts and anchors
\* the student has now, however long it ran and whatever was written meanwhile.
ReadyIsCurrent ==
  Usable => result = [facts |-> facts, anchors |-> anchors]

\* The research of an analysis shown as usable was made for the goal's anchors.
ResearchMatches == Usable => research \in {anchors, NoResult}

\* While no worker process stops or stalls, a goal that shows its intelligence
\* as coming has a job that will bring it, unless a verdict passed an open edit
\* that counted on the job: that edit leaves a stale goal without one.
WaitingHasJob ==
  crashes = 0 /\ ~overtaken /\ goalStatus \in {"pending", "stale"} => LiveJobs # {}

\* mark_intelligence_stale_for_vault_update: what is marked stale is enqueued again.
\* It fails for the edit that a verdict has passed.
StaleIsEnqueued == crashes = 0 /\ goalStatus = "stale" => LiveJobs # {}

\* The writers that hold the person's lock keep one refresh job of a goal alive;
\* an activation, which does not, adds one at most.
AtMostOneLiveJob == Cardinality(LiveJobs) <= 1 + activations

Life == INSTANCE JobLifecycle WITH Jobs <- JobIds, status <- jstatus, attempts <- jattempts

\* The jobs of the goal go only where the queue lets them: a worker that lost its
\* attempt decides nothing of the next one.
JobsKeepLifecycle == [][Life!Next]_(Life!jobVars)

\* While no worker process stops or stalls and no verdict passes an open edit, the
\* intelligence of a goal that waits for it comes, or the goal says it failed.
WaitingSettles ==
  goalStatus \in {"pending", "stale"}
    ~> goalStatus \in {"ready", "partial", "failed"} \/ crashes > 0 \/ overtaken
=============================================================================
