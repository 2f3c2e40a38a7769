----------------------------- MODULE AccountProofs -----------------------------
(***************************************************************************)
(* For any number of processes, objects and requests: a deleted account    *)
(* stays deleted, no stored object loses the row that names it, and when   *)
(* the identity is gone nothing fenced is left of the person.              *)
(***************************************************************************)
EXTENDS Account, TLAPS

-----------------------------------------------------------------------------
(* The inductive invariant.                                                *)

Types ==
  /\ identity \in {"none", "unverified", "verified", "gone"}
  /\ token \in BOOLEAN /\ refresh \in BOOLEAN /\ missed \in BOOLEAN
  /\ person \in {"none", "live", "tombstone"}
  /\ details \in BOOLEAN /\ vault \in BOOLEAN
  /\ rows \subseteq Kinds
  /\ stored \in SUBSET Objects /\ named \in SUBSET Objects /\ orphans \in SUBSET Objects
  /\ lock \in SUBSET Procs /\ runLock \in SUBSET Procs
  /\ pc \in [Procs -> Points] /\ seen \in [Procs -> SUBSET Objects]
  /\ asks \in 0..AskBound

Deleting == {"listing", "removing", "purging", "identity"}

\* One insert of the person at a time, before there is one; a deletion found the
\* person, and past its first commit the tombstone stands.
Lifetime ==
  /\ \A p \in Procs : pc[p] = "created" =>
       person = "none" /\ \A q \in Procs : pc[q] = "created" => q = p
  /\ \A p \in Procs : pc[p] = "delete" => person # "none"
  /\ \A p \in Procs : pc[p] \in Deleting => person = "tombstone"
  /\ person = "tombstone" => ~details
  /\ person = "live" => vault

\* An upload holds the row of a live person.
UploadLocks ==
  \A p \in Procs : pc[p] \in {"uploading", "put"} => lock = {p} /\ person = "live"

InFlight(p) == pc[p] \in {"put", "compensate"}

\* Whose an object is: a row's, nobody's any more, or that of one upload.
Ownership ==
  /\ orphans \subseteq stored /\ orphans \cap named = {}
  /\ person # "tombstone" => named \subseteq stored
  /\ \A p \in Procs : InFlight(p) =>
       seen[p] \subseteq stored /\ seen[p] \cap (named \cup orphans) = {}
  /\ \A p, q \in Procs : p # q /\ InFlight(p) /\ (InFlight(q) \/ pc[q] = "removing") =>
       seen[p] \cap seen[q] = {}
  /\ \A p \in Procs : pc[p] = "removing" => seen[p] \cap orphans = {}

\* How far a deletion has come with the objects.
Progress ==
  \A p \in Procs : /\ pc[p] = "removing" => stored \cap named \subseteq seen[p]
                   /\ pc[p] = "purging" => stored \cap named = {}

\* After the purge nothing is written that waits for the person.
Emptied == person = "tombstone" /\ rows \cap {"content", "run"} = {} /\ named = {}
PurgedFirst ==
  /\ \A p \in Procs : pc[p] = "identity" => Emptied
  /\ identity = "gone" /\ ~missed => Emptied

IInv ==
  /\ Types /\ Lifetime /\ UploadLocks
  /\ Ownership /\ Progress /\ PathsRetained
  /\ PurgedFirst

-----------------------------------------------------------------------------
(* Types.                                                                  *)

USE DEF Goto, Step, Ask, provider, account, files, locks, control

LEMMA EnterTypes == ASSUME Types, NEW p \in Procs, Enter(p) PROVE Types'
<1>1. CASE Open(p)
  BY <1>1, Asked DEF Types, Open, Points
<1>2. CASE AskBootstrap(p)
  BY <1>2, Asked DEF Types, AskBootstrap, Points
<1>3. CASE Find(p)
  BY <1>3 DEF Types, Find, Points
<1>4. CASE Sync(p)
  BY <1>4 DEF Types, Sync, Fenced, Points
<1>5. CASE Insert(p)
  BY <1>5 DEF Types, Insert, Points
<1>6. CASE Refused(p)
  BY <1>6 DEF Types, Refused, Points
<1>7. CASE Create(p)
  BY <1>7 DEF Types, Create, Points
<1>8. CASE Retry(p)
  BY <1>8 DEF Types, Retry, Points
<1> QED
  BY <1>1, <1>2, <1>3, <1>4, <1>5, <1>6, <1>7, <1>8 DEF Enter

LEMMA WorkTypes == ASSUME Types, NEW p \in Procs, Work(p) PROVE Types'
<1>1. ASSUME NEW point \in {"write", "post", "upload", "cv"}, Request(p, point) PROVE Types'
  BY <1>1, Asked DEF Types, Request, Points
<1>2. CASE FindThread(p)
  BY <1>2 DEF Types, FindThread, Points, Kinds
<1>3. CASE Write(p)
  BY <1>3 DEF Types, Write, Fenced, Points, Kinds, Facts
<1>4. CASE LockUpload(p)
  BY <1>4 DEF Types, LockUpload, Fenced, Points
<1>5. CASE PutObject(p)
  BY <1>5 DEF Types, PutObject, Points
<1>6. CASE CommitUpload(p)
  BY <1>6 DEF Types, CommitUpload, Points, Kinds
<1>7. CASE FailUpload(p)
  BY <1>7 DEF Types, FailUpload, Points
<1>8. CASE Compensate(p)
  BY <1>8 DEF Types, Compensate, Points
<1>9. CASE ApplyCv(p)
  BY <1>9 DEF Types, ApplyCv, Fenced, Points, Kinds, Facts
<1>10. CASE FinishCv(p)
  BY <1>10 DEF Types, FinishCv, Points, Kinds
<1>11. CASE FollowUp(p)
  BY <1>11, Asked DEF Types, FollowUp, Points
<1>12. CASE LockRun(p)
  BY <1>12 DEF Types, LockRun, Points
<1>13. CASE Learn(p)
  BY <1>13 DEF Types, Learn, Fenced, Points, Kinds, Facts
<1> QED
  BY <1>1, <1>2, <1>3, <1>4, <1>5, <1>6, <1>7, <1>8, <1>9, <1>10, <1>11, <1>12, <1>13 DEF Work

LEMMA DeleteTypes == ASSUME Types, NEW p \in Procs, DeleteAccount(p) \/ Die(p) PROVE Types'
<1>1. CASE AskDelete(p)
  BY <1>1, Asked DEF Types, AskDelete, Points
<1>2. CASE Tombstone(p)
  BY <1>2 DEF Types, Tombstone, Points
<1>3. CASE ListPaths(p)
  BY <1>3 DEF Types, ListPaths, Points
<1>4. CASE RemoveObject(p)
  BY <1>4 DEF Types, RemoveObject
<1>5. CASE AllRemoved(p)
  BY <1>5 DEF Types, AllRemoved, Points
<1>6. CASE RemoveFails(p)
  BY <1>6 DEF Types, RemoveFails, AfterFailure, Points
<1>7. CASE Purge(p)
  BY <1>7 DEF Types, Purge, Points, Kinds
<1>8. CASE DeleteIdentity(p)
  BY <1>8 DEF Types, DeleteIdentity, Points
<1>9. CASE Die(p)
  BY <1>9 DEF Types, Die, Points
<1> QED
  BY <1>1, <1>2, <1>3, <1>4, <1>5, <1>6, <1>7, <1>8, <1>9 DEF DeleteAccount

LEMMA NextTypes == ASSUME Types, [Next]_vars PROVE Types'
<1>1. CASE Session
  BY <1>1 DEF Types, Session, SignUp, Refresh, LogOut, Expire
<1>2. CASE UNCHANGED vars
  BY <1>2 DEF Types, vars
<1> QED
  BY <1>1, <1>2, EnterTypes, WorkTypes, DeleteTypes DEF Next

-----------------------------------------------------------------------------
(* The person.                                                             *)

LEMMA EnterLifetime ==
  ASSUME Types, Lifetime, UploadLocks, NEW p \in Procs, Enter(p)
  PROVE  Lifetime' /\ UploadLocks'
<1>1. CASE Open(p) \/ AskBootstrap(p) \/ Find(p)
  BY <1>1 DEF Types, Lifetime, UploadLocks, Open, AskBootstrap, Find, Deleting
<1>2. CASE Sync(p)
  BY <1>2 DEF Types, Lifetime, UploadLocks, Sync, Fenced, Deleting
<1>3. CASE Insert(p)
  BY <1>3 DEF Types, Lifetime, UploadLocks, Insert, Deleting
<1>4. CASE Refused(p) \/ Retry(p)
  BY <1>4 DEF Types, Lifetime, UploadLocks, Refused, Retry, Deleting
<1>5. CASE Create(p)
  BY <1>5 DEF Types, Lifetime, UploadLocks, Create, Deleting
<1> QED
  BY <1>1, <1>2, <1>3, <1>4, <1>5 DEF Enter

LEMMA WorkLifetime ==
  ASSUME Types, Lifetime, UploadLocks, NEW p \in Procs, Work(p)
  PROVE  Lifetime' /\ UploadLocks'
<1>1. ASSUME NEW point \in {"write", "post", "upload", "cv"}, Request(p, point)
      PROVE  Lifetime' /\ UploadLocks'
  BY <1>1 DEF Types, Lifetime, UploadLocks, Request, Deleting
<1>2. CASE FindThread(p) \/ Write(p) \/ ApplyCv(p) \/ FinishCv(p)
  BY <1>2 DEF Types, Lifetime, UploadLocks, FindThread, Write, ApplyCv, FinishCv, Fenced, Deleting
<1>3. CASE LockUpload(p)
  BY <1>3 DEF Types, Lifetime, UploadLocks, LockUpload, Fenced, Deleting
<1>4. CASE PutObject(p)
  BY <1>4 DEF Types, Lifetime, UploadLocks, PutObject, Deleting
<1>5. CASE CommitUpload(p) \/ FailUpload(p) \/ Compensate(p)
  BY <1>5 DEF Types, Lifetime, UploadLocks, CommitUpload, FailUpload, Compensate, Deleting
<1>6. CASE FollowUp(p) \/ LockRun(p) \/ Learn(p)
  BY <1>6 DEF Types, Lifetime, UploadLocks, FollowUp, LockRun, Learn, Deleting
<1> QED
  BY <1>1, <1>2, <1>3, <1>4, <1>5, <1>6 DEF Work

LEMMA DeleteLifetime ==
  ASSUME Types, Lifetime, UploadLocks, NEW p \in Procs, DeleteAccount(p) \/ Die(p)
  PROVE  Lifetime' /\ UploadLocks'
<1>1. CASE AskDelete(p)
  BY <1>1 DEF Types, Lifetime, UploadLocks, AskDelete, Deleting
<1>2. CASE Tombstone(p)
  BY <1>2 DEF Types, Lifetime, UploadLocks, Tombstone, Deleting
<1>3. CASE ListPaths(p) \/ AllRemoved(p) \/ RemoveFails(p)
  BY <1>3
  DEF Types, Lifetime, UploadLocks, ListPaths, AllRemoved, RemoveFails, AfterFailure, Deleting
<1>4. CASE RemoveObject(p)
  BY <1>4 DEF Types, Lifetime, UploadLocks, RemoveObject
<1>5. CASE Purge(p) \/ DeleteIdentity(p)
  BY <1>5 DEF Types, Lifetime, UploadLocks, Purge, DeleteIdentity, Deleting
<1>6. CASE Die(p)
  BY <1>6 DEF Types, Lifetime, UploadLocks, Die, Deleting
<1> QED
  BY <1>1, <1>2, <1>3, <1>4, <1>5, <1>6 DEF DeleteAccount

LEMMA NextLifetime ==
  ASSUME Types, Lifetime, UploadLocks, [Next]_vars
  PROVE  Lifetime' /\ UploadLocks'
<1>1. CASE Session
  BY <1>1 DEF Lifetime, UploadLocks, Session, SignUp, Refresh, LogOut, Expire
<1>2. CASE UNCHANGED vars
  BY <1>2 DEF Lifetime, UploadLocks, vars
<1> QED
  BY <1>1, <1>2, EnterLifetime, WorkLifetime, DeleteLifetime DEF Next

-----------------------------------------------------------------------------
(* The objects.                                                            *)

Files == Ownership /\ Progress /\ PathsRetained

\* A step of a process that has nothing to do with the objects.
LEMMA QuietFiles ==
  ASSUME Types, Types', Files, NEW p \in Procs, NEW point \in Points,
         UNCHANGED files, person = "tombstone" => person' = "tombstone",
         ~InFlight(p), point \notin {"put", "compensate", "removing", "purging"},
         pc' = [pc EXCEPT ![p] = point],
         seen' = seen \/ seen' = [seen EXCEPT ![p] = {}]
  PROVE  Files'
<1>1. \A q \in Procs : q # p => pc'[q] = pc[q] /\ seen'[q] = seen[q]
  BY DEF Types
<1>2. pc'[p] = point
  BY DEF Types
<1>3. Ownership'
  BY <1>1, <1>2 DEF Files, Ownership, InFlight
<1>4. Progress'
  BY <1>1, <1>2 DEF Files, Progress
<1>5. PathsRetained'
  BY <1>1, <1>2 DEF Files, PathsRetained, InFlight
<1> QED
  BY <1>3, <1>4, <1>5 DEF Files

LEMMA EnterFiles ==
  ASSUME Types, Types', Lifetime, Lifetime', Files, NEW p \in Procs, Enter(p)
  PROVE  Files'
<1>1. PICK point \in {"ensure", "bootstrap", "sync", "idle", "created", "retry"} :
        pc' = [pc EXCEPT ![p] = point]
  BY DEF Enter, Open, AskBootstrap, Find, Sync, Insert, Refused, Create, Retry
<1>2. UNCHANGED files /\ ~InFlight(p)
  BY DEF Enter, Open, AskBootstrap, Find, Sync, Insert, Refused, Create, Retry, InFlight
<1>3. seen' = seen \/ seen' = [seen EXCEPT ![p] = {}]
  BY DEF Enter, Open, AskBootstrap, Find, Sync, Insert, Refused, Create, Retry
<1>4. person = "tombstone" => person' = "tombstone"
  BY DEF Enter, Open, AskBootstrap, Find, Sync, Insert, Refused, Create, Retry, Fenced, Lifetime
<1> QED
  BY <1>1, <1>2, <1>3, <1>4, QuietFiles DEF Points

LEMMA PutFiles ==
  ASSUME Types, Types', Lifetime, UploadLocks, Files, NEW p \in Procs, PutObject(p)
  PROVE  Files'
<1>1. PICK o \in Objects \ stored :
        stored' = stored \cup {o} /\ seen' = [seen EXCEPT ![p] = {o}]
  BY DEF PutObject
<1>2. person = "live" /\ o \notin named /\ o \notin orphans
      /\ \A q \in Procs : pc[q] \notin Deleting
  BY <1>1 DEF PutObject, UploadLocks, Files, Ownership, Lifetime
<1>3. /\ pc' = [pc EXCEPT ![p] = "put"] /\ pc[p] = "uploading"
      /\ UNCHANGED <<person, named, orphans>>
  BY DEF PutObject
<1>4. \A q \in Procs : q # p => pc'[q] = pc[q] /\ seen'[q] = seen[q]
  BY <1>1, <1>3 DEF Types
<1>5. pc'[p] = "put" /\ seen'[p] = {o}
  BY <1>1, <1>3 DEF Types
<1>6. Ownership'
  BY <1>1, <1>2, <1>3, <1>4, <1>5 DEF Files, Ownership, InFlight, Deleting
<1>7. Progress'
  BY <1>2, <1>4, <1>5 DEF Progress, Deleting
<1>8. PathsRetained'
  BY <1>1, <1>3, <1>4, <1>5 DEF Files, PathsRetained
<1> QED
  BY <1>6, <1>7, <1>8 DEF Files

LEMMA CommitUploadFiles ==
  ASSUME Types, Types', Lifetime, UploadLocks, Files, NEW p \in Procs, CommitUpload(p)
  PROVE  Files'
<1>1. /\ pc' = [pc EXCEPT ![p] = "idle"] /\ pc[p] = "put"
      /\ named' = named \cup seen[p]
      /\ UNCHANGED <<person, stored, orphans, seen>>
  BY DEF CommitUpload
<1>2. person = "live" /\ \A q \in Procs : pc[q] \notin Deleting
  BY <1>1 DEF UploadLocks, Lifetime, Deleting
<1>3. \A q \in Procs : q # p => pc'[q] = pc[q]
  BY <1>1 DEF Types
<1>4. pc'[p] = "idle"
  BY <1>1 DEF Types
<1>5. Ownership'
  BY <1>1, <1>2, <1>3, <1>4 DEF Files, Ownership, InFlight, Deleting
<1>6. Progress'
  BY <1>2, <1>3, <1>4 DEF Progress, Deleting
<1>7. PathsRetained'
  BY <1>1, <1>3, <1>4 DEF Files, PathsRetained
<1> QED
  BY <1>5, <1>6, <1>7 DEF Files

LEMMA UndoUploadFiles ==
  ASSUME Types, Types', Files, NEW p \in Procs, FailUpload(p) \/ Compensate(p)
  PROVE  Files'
<1>1. CASE FailUpload(p)
  <2>1. /\ pc' = [pc EXCEPT ![p] = "compensate"] /\ pc[p] = "put"
        /\ UNCHANGED <<person, stored, named, orphans, seen>>
    BY <1>1 DEF FailUpload
  <2>2. \A q \in Procs : q # p => pc'[q] = pc[q]
    BY <2>1 DEF Types
  <2>3. pc'[p] = "compensate"
    BY <2>1 DEF Types
  <2> QED
    BY <2>1, <2>2, <2>3 DEF Files, Ownership, Progress, PathsRetained, InFlight
<1>2. CASE Compensate(p)
  <2>1. /\ pc' = [pc EXCEPT ![p] = "idle"] /\ pc[p] = "compensate"
        /\ stored' = stored \ seen[p]
        /\ UNCHANGED <<person, named, orphans, seen>>
    BY <1>2 DEF Compensate
  <2>2. \A q \in Procs : q # p => pc'[q] = pc[q]
    BY <2>1 DEF Types
  <2>3. pc'[p] = "idle"
    BY <2>1 DEF Types
  <2>4. Ownership'
    BY <2>1, <2>2, <2>3 DEF Files, Ownership, InFlight
  <2>5. Progress' /\ PathsRetained'
    BY <2>1, <2>2, <2>3 DEF Files, Progress, PathsRetained
  <2> QED
    BY <2>4, <2>5 DEF Files
<1> QED
  BY <1>1, <1>2

LEMMA WorkFiles ==
  ASSUME Types, Types', Lifetime, UploadLocks, Files, NEW p \in Procs, Work(p)
  PROVE  Files'
<1>1. CASE PutObject(p) \/ CommitUpload(p) \/ FailUpload(p) \/ Compensate(p)
  BY <1>1, PutFiles, CommitUploadFiles, UndoUploadFiles
<1>2. CASE ~(PutObject(p) \/ CommitUpload(p) \/ FailUpload(p) \/ Compensate(p))
  <2>1. PICK point \in {"write", "post", "upload", "cv", "idle", "uploading", "finish",
                        "recall", "learn"} : pc' = [pc EXCEPT ![p] = point]
    BY <1>2 DEF Work, Request, FindThread, Write, LockUpload, ApplyCv, FinishCv, FollowUp,
                LockRun, Learn
  <2>2. UNCHANGED files /\ ~InFlight(p) /\ UNCHANGED person
    BY <1>2 DEF Work, Request, FindThread, Write, LockUpload, ApplyCv, FinishCv, FollowUp,
                LockRun, Learn, InFlight
  <2>3. seen' = seen \/ seen' = [seen EXCEPT ![p] = {}]
    BY <1>2 DEF Work, Request, FindThread, Write, LockUpload, ApplyCv, FinishCv, FollowUp,
                LockRun, Learn
  <2> QED
    BY <2>1, <2>2, <2>3, QuietFiles DEF Points
<1> QED
  BY <1>1, <1>2

LEMMA ListFiles ==
  ASSUME Types, Files, NEW p \in Procs, ListPaths(p)
  PROVE  Files'
<1>1. /\ pc' = [pc EXCEPT ![p] = "removing"] /\ pc[p] = "listing"
      /\ seen' = [seen EXCEPT ![p] = named] /\ UNCHANGED <<person, files>>
  BY DEF ListPaths
<1>2. \A q \in Procs : q # p => pc'[q] = pc[q] /\ seen'[q] = seen[q]
  BY <1>1 DEF Types
<1>3. pc'[p] = "removing" /\ seen'[p] = named
  BY <1>1 DEF Types
<1>4. Ownership'
  BY <1>1, <1>2, <1>3 DEF Files, Ownership, InFlight
<1> QED
  BY <1>1, <1>2, <1>3, <1>4 DEF Files, Progress, PathsRetained

LEMMA RemoveFiles ==
  ASSUME Types, Lifetime, Files, NEW p \in Procs, RemoveObject(p)
  PROVE  Files'
<1>1. PICK o \in seen[p] : stored' = stored \ {o} /\ seen' = [seen EXCEPT ![p] = @ \ {o}]
  BY DEF RemoveObject
<1>2. pc[p] = "removing" /\ UNCHANGED <<person, named, orphans, pc>> /\ person = "tombstone"
  BY DEF RemoveObject, Lifetime, Deleting
<1>3. \A q \in Procs : q # p => seen'[q] = seen[q]
  BY <1>1 DEF Types
<1>4. seen'[p] = seen[p] \ {o}
  BY <1>1 DEF Types
<1>5. \A q \in Procs : InFlight(q) => q # p /\ o \notin seen[q]
  BY <1>1, <1>2 DEF Files, Ownership, InFlight
<1>6. Ownership'
  BY <1>1, <1>2, <1>3, <1>4, <1>5 DEF Files, Ownership, InFlight
<1>7. Progress'
  BY <1>1, <1>2, <1>3, <1>4 DEF Files, Progress
<1>8. PathsRetained'
  BY <1>1, <1>2, <1>3, <1>4 DEF Files, PathsRetained
<1> QED
  BY <1>6, <1>7, <1>8 DEF Files

LEMMA AfterRemovalFiles ==
  ASSUME Types, Lifetime, Files, NEW p \in Procs, AllRemoved(p) \/ Purge(p)
  PROVE  Files'
<1>1. CASE AllRemoved(p)
  <2>1. /\ pc' = [pc EXCEPT ![p] = "purging"] /\ pc[p] = "removing" /\ seen[p] = {}
        /\ UNCHANGED <<person, files, seen>>
    BY <1>1 DEF AllRemoved
  <2>2. \A q \in Procs : q # p => pc'[q] = pc[q]
    BY <2>1 DEF Types
  <2>3. pc'[p] = "purging"
    BY <2>1 DEF Types
  <2> QED
    BY <2>1, <2>2, <2>3 DEF Files, Ownership, Progress, PathsRetained, InFlight
<1>2. CASE Purge(p)
  <2>1. /\ pc' = [pc EXCEPT ![p] = "identity"] /\ pc[p] = "purging" /\ named' = {}
        /\ UNCHANGED <<person, stored, orphans, seen>>
    BY <1>2 DEF Purge
  <2>2. \A q \in Procs : q # p => pc'[q] = pc[q]
    BY <2>1 DEF Types
  <2>3. pc'[p] = "identity" /\ person = "tombstone"
    BY <2>1 DEF Types, Lifetime, Deleting
  <2>4. PathsRetained'
    BY <2>1, <2>2, <2>3 DEF Files, Progress, PathsRetained
  <2> QED
    BY <2>1, <2>2, <2>3, <2>4 DEF Files, Ownership, Progress, InFlight
<1> QED
  BY <1>1, <1>2

LEMMA DieFiles ==
  ASSUME Types, Types', Files, NEW p \in Procs, Die(p)
  PROVE  Files'
<1>1. /\ pc' = [pc EXCEPT ![p] = "idle"]
      /\ orphans' = IF InFlight(p) THEN orphans \cup seen[p] ELSE orphans
      /\ UNCHANGED <<person, stored, named, seen>>
  BY DEF Die, InFlight
<1>2. \A q \in Procs : q # p => pc'[q] = pc[q]
  BY <1>1 DEF Types
<1>3. pc'[p] = "idle"
  BY <1>1 DEF Types
<1>4. Ownership'
  BY <1>1, <1>2, <1>3 DEF Files, Ownership, InFlight
<1>5. Progress'
  BY <1>1, <1>2, <1>3 DEF Files, Progress
<1>6. PathsRetained'
  BY <1>1, <1>2, <1>3 DEF Files, PathsRetained, InFlight
<1> QED
  BY <1>4, <1>5, <1>6 DEF Files

LEMMA DeleteFiles ==
  ASSUME Types, Types', Lifetime, Files, NEW p \in Procs, DeleteAccount(p) \/ Die(p)
  PROVE  Files'
<1>1. CASE AskDelete(p) \/ Tombstone(p) \/ RemoveFails(p) \/ DeleteIdentity(p)
  <2>1. PICK point \in {"alone", "delete", "listing", "idle"} : pc' = [pc EXCEPT ![p] = point]
    BY <1>1 DEF AskDelete, Tombstone, RemoveFails, DeleteIdentity, AfterFailure
  <2>2. UNCHANGED files /\ ~InFlight(p)
    BY <1>1 DEF AskDelete, Tombstone, RemoveFails, DeleteIdentity, InFlight
  <2>3. seen' = seen \/ seen' = [seen EXCEPT ![p] = {}]
    BY <1>1 DEF AskDelete, Tombstone, RemoveFails, DeleteIdentity
  <2>4. person = "tombstone" => person' = "tombstone"
    BY <1>1 DEF AskDelete, Tombstone, RemoveFails, DeleteIdentity
  <2> QED
    BY <2>1, <2>2, <2>3, <2>4, QuietFiles DEF Points
<1> QED
  BY <1>1, ListFiles, RemoveFiles, AfterRemovalFiles, DieFiles DEF DeleteAccount

LEMMA NextFiles ==
  ASSUME Types, Types', Lifetime, Lifetime', UploadLocks, Files, [Next]_vars
  PROVE  Files'
<1>1. CASE Session \/ UNCHANGED vars
  <2>1. UNCHANGED <<person, files, pc, seen>>
    BY <1>1 DEF Session, SignUp, Refresh, LogOut, Expire, vars
  <2> QED
    BY <2>1 DEF Files, Ownership, Progress, PathsRetained, InFlight
<1> QED
  BY <1>1, EnterFiles, WorkFiles, DeleteFiles DEF Next

-----------------------------------------------------------------------------
(* What is left of the person.                                             *)

\* A step that adds no fenced row, and lets the person be, leaves what the purge
\* has made.
LEMMA QuietPurge ==
  ASSUME Types, PurgedFirst, NEW p \in Procs, NEW point \in Points \ {"identity"},
         pc' = [pc EXCEPT ![p] = point],
         person = "tombstone" =>
           /\ person' = "tombstone" /\ named' \subseteq named
           /\ rows' \cap {"content", "run"} \subseteq rows,
         identity' = "gone" => identity = "gone", missed' = missed
  PROVE  PurgedFirst'
<1>1. \A q \in Procs : q # p => pc'[q] = pc[q]
  BY DEF Types
<1>2. pc'[p] = point
  BY DEF Types
<1>3. Emptied => Emptied'
  BY DEF Emptied
<1> QED
  BY <1>1, <1>2, <1>3 DEF PurgedFirst

LEMMA EnterPurge ==
  ASSUME Types, Lifetime, PurgedFirst, NEW p \in Procs, Enter(p)
  PROVE  PurgedFirst'
<1>1. PICK point \in {"ensure", "bootstrap", "sync", "idle", "created", "retry"} :
        pc' = [pc EXCEPT ![p] = point]
  BY DEF Enter, Open, AskBootstrap, Find, Sync, Insert, Refused, Create, Retry
<1>2. UNCHANGED <<rows, named, missed>>
  BY DEF Enter, Open, AskBootstrap, Find, Sync, Insert, Refused, Create, Retry
<1>3. identity' = "gone" => identity = "gone"
  BY DEF Enter, Open, AskBootstrap, Find, Sync, Insert, Refused, Create, Retry
<1>4. person = "tombstone" => person' = "tombstone"
  BY DEF Enter, Open, AskBootstrap, Find, Sync, Insert, Refused, Create, Retry, Fenced, Lifetime
<1> QED
  BY <1>1, <1>2, <1>3, <1>4, QuietPurge DEF Points

LEMMA WorkPurge ==
  ASSUME Types, UploadLocks, PurgedFirst, NEW p \in Procs, Work(p)
  PROVE  PurgedFirst'
<1>1. PICK point \in {"write", "post", "upload", "cv", "idle", "uploading", "put", "compensate",
                      "finish", "recall", "learn"} : pc' = [pc EXCEPT ![p] = point]
  BY DEF Work, Request, FindThread, Write, LockUpload, PutObject, CommitUpload, FailUpload,
         Compensate, ApplyCv, FinishCv, FollowUp, LockRun, Learn
<1>2. UNCHANGED <<person, identity, missed>>
  BY DEF Work, Request, FindThread, Write, LockUpload, PutObject, CommitUpload, FailUpload,
         Compensate, ApplyCv, FinishCv, FollowUp, LockRun, Learn
<1>3. person = "tombstone" => named' \subseteq named
  BY DEF Work, Request, FindThread, Write, LockUpload, PutObject, CommitUpload, FailUpload,
         Compensate, ApplyCv, FinishCv, FollowUp, LockRun, Learn, UploadLocks
<1>4. person = "tombstone" => rows' \cap {"content", "run"} \subseteq rows
  <2>1. CASE FindThread(p) \/ FinishCv(p)
    BY <2>1 DEF FindThread, FinishCv
  <2>2. CASE Write(p) \/ ApplyCv(p)
    BY <2>2 DEF Write, ApplyCv, Fenced
  <2>3. CASE CommitUpload(p)
    BY <2>3 DEF CommitUpload, UploadLocks
  <2>4. CASE Learn(p)
    BY <2>4 DEF Learn, Fenced
  <2> QED
    BY <2>1, <2>2, <2>3, <2>4
    DEF Work, Request, LockUpload, PutObject, FailUpload, Compensate, FollowUp, LockRun
<1> QED
  BY <1>1, <1>2, <1>3, <1>4, QuietPurge DEF Points

LEMMA DeletePurge ==
  ASSUME Types, Lifetime, PurgedFirst, NEW p \in Procs, DeleteAccount(p) \/ Die(p)
  PROVE  PurgedFirst'
<1>1. CASE Purge(p)
  <2>1. person' = "tombstone" /\ rows' \cap {"content", "run"} = {} /\ named' = {}
    BY <1>1 DEF Purge, Lifetime, Deleting
  <2> QED
    BY <2>1 DEF PurgedFirst, Emptied
<1>2. CASE DeleteIdentity(p)
  <2>1. UNCHANGED <<person, rows, named>> /\ pc' = [pc EXCEPT ![p] = "idle"]
    BY <1>2 DEF DeleteIdentity
  <2>2. identity' = "gone" /\ ~missed' => (identity = "gone" /\ ~missed) \/ pc[p] = "identity"
    BY <1>2 DEF DeleteIdentity, Types
  <2>3. \A q \in Procs : pc'[q] = "identity" => pc[q] = "identity"
    BY <2>1 DEF Types
  <2> QED
    BY <2>1, <2>2, <2>3 DEF PurgedFirst, Emptied
<1>3. CASE RemoveObject(p)
  BY <1>3 DEF RemoveObject, PurgedFirst, Emptied
<1>4. CASE \/ AskDelete(p) \/ Tombstone(p) \/ ListPaths(p)
            \/ AllRemoved(p) \/ RemoveFails(p) \/ Die(p)
  <2>1. PICK point \in {"alone", "delete", "listing", "removing", "purging", "idle"} :
          pc' = [pc EXCEPT ![p] = point]
    BY <1>4 DEF AskDelete, Tombstone, ListPaths, AllRemoved, RemoveFails, AfterFailure, Die
  <2>2. UNCHANGED <<rows, named, identity, missed>>
    BY <1>4 DEF AskDelete, Tombstone, ListPaths, AllRemoved, RemoveFails, Die
  <2>3. person = "tombstone" => person' = "tombstone"
    BY <1>4 DEF AskDelete, Tombstone, ListPaths, AllRemoved, RemoveFails, Die
  <2> QED
    BY <2>1, <2>2, <2>3, QuietPurge DEF Points
<1> QED
  BY <1>1, <1>2, <1>3, <1>4 DEF DeleteAccount

LEMMA NextPurge ==
  ASSUME Types, Lifetime, UploadLocks, PurgedFirst, [Next]_vars
  PROVE  PurgedFirst'
<1>1. CASE Session \/ UNCHANGED vars
  <2>1. UNCHANGED <<person, rows, named, pc, missed>> /\ (identity' = "gone" => identity = "gone")
    BY <1>1 DEF Session, SignUp, Refresh, LogOut, Expire, vars
  <2> QED
    BY <2>1 DEF PurgedFirst, Emptied
<1> QED
  BY <1>1, EnterPurge, WorkPurge, DeletePurge DEF Next

-----------------------------------------------------------------------------
(* The theorems.                                                           *)

LEMMA InitInv == Init => IInv
<1> SUFFICES ASSUME Init PROVE IInv
  OBVIOUS
<1>1. Types
  <2>1. pc \in [Procs -> Points] /\ seen \in [Procs -> SUBSET Objects]
    BY DEF Init, Points
  <2>2. asks \in 0..AskBound
    BY Asked DEF Init
  <2> QED
    BY <2>1, <2>2 DEF Init, Types
<1>2. Lifetime /\ UploadLocks
  BY DEF Init, Lifetime, UploadLocks, Deleting
<1>3. Ownership /\ Progress /\ PathsRetained
  BY DEF Init, Ownership, Progress, PathsRetained, InFlight
<1>4. PurgedFirst
  BY DEF Init, PurgedFirst
<1> QED
  BY <1>1, <1>2, <1>3, <1>4 DEF IInv

LEMMA NextInv == ASSUME IInv, [Next]_vars PROVE IInv'
<1>1. Types /\ Lifetime /\ UploadLocks /\ Files /\ PurgedFirst
  BY DEF IInv, Files
<1>2. Types'
  BY <1>1, NextTypes
<1>3. Lifetime' /\ UploadLocks'
  BY <1>1, NextLifetime
<1>4. Files'
  BY <1>1, <1>2, <1>3, NextFiles
<1>5. PurgedFirst'
  BY <1>1, NextPurge
<1> QED
  BY <1>2, <1>3, <1>4, <1>5 DEF IInv, Files

LEMMA InvHolds == IInv => TypeOK /\ PathsRetained /\ IdentityLast
<1> SUFFICES ASSUME IInv PROVE TypeOK /\ PathsRetained /\ IdentityLast
  OBVIOUS
<1>1. TypeOK
  BY DEF IInv, Types, TypeOK, Lifetime, Ownership
<1>2. IdentityLast
  <2> SUFFICES ASSUME identity = "gone", ~missed
               PROVE  Emptied /\ stored \subseteq orphans \cup UNION {seen[p] : p \in Procs}
    BY DEF IdentityLast, Emptied
  <2>1. Emptied
    BY DEF IInv, PurgedFirst
  <2>2. ASSUME NEW o \in stored PROVE o \in orphans \cup UNION {seen[p] : p \in Procs}
    BY <2>1, <2>2 DEF IInv, PathsRetained, Emptied
  <2> QED
    BY <2>1, <2>2
<1> QED
  BY <1>1, <1>2 DEF IInv

\* The person, the provider, the storage and every process keep their types; a live
\* person has a vault and no object without a row is unknown.
THEOREM TypeCorrect == Spec => []TypeOK
  BY InitInv, NextInv, InvHolds, PTL DEF Spec

\* A failed deletion can be repeated: whatever failed or died, a stored object is
\* named by a row, in the hands of its upload, or of one that died.
THEOREM ObjectsFound == Spec => []PathsRetained
  BY InitInv, NextInv, InvHolds, PTL DEF Spec

\* When the identity is gone, so is every row with the person's id that was written
\* under the person's lock.
THEOREM IdentityGoesLast == Spec => []IdentityLast
  BY InitInv, NextInv, InvHolds, PTL DEF Spec

\* No sign-in, bootstrap or write brings a deleted account back.
THEOREM DeletedStays == Spec => TombstoneStands
<1>1. IInv /\ [Next]_vars => [person = "tombstone" => person' = "tombstone" /\ ~details']_vars
  <2> SUFFICES ASSUME IInv, [Next]_vars, person = "tombstone"
               PROVE  person' = "tombstone" /\ ~details'
    OBVIOUS
  <2>1. IInv'
    BY NextInv
  <2>2. person' = "tombstone"
    <3>1. ASSUME NEW p \in Procs, Enter(p) PROVE person' = "tombstone"
      BY <3>1
      DEF IInv, Lifetime, Enter, Open, AskBootstrap, Find, Sync, Insert, Refused, Create, Retry,
          Fenced
    <3>2. ASSUME NEW p \in Procs, Work(p) PROVE person' = "tombstone"
      BY <3>2
      DEF Work, Request, FindThread, Write, LockUpload, PutObject, CommitUpload, FailUpload,
          Compensate, ApplyCv, FinishCv, FollowUp, LockRun, Learn
    <3>3. ASSUME NEW p \in Procs, DeleteAccount(p) \/ Die(p) PROVE person' = "tombstone"
      BY <3>3
      DEF DeleteAccount, AskDelete, Tombstone, ListPaths, RemoveObject, AllRemoved, RemoveFails,
          Purge, DeleteIdentity, Die
    <3>4. CASE Session \/ UNCHANGED vars
      BY <3>4 DEF Session, SignUp, Refresh, LogOut, Expire, vars
    <3> QED
      BY <3>1, <3>2, <3>3, <3>4 DEF Next
  <2> QED
    BY <2>1, <2>2 DEF IInv, Lifetime
<1> QED
  BY <1>1, InitInv, NextInv, PTL DEF Spec, TombstoneStands
=============================================================================
