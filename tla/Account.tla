-------------------------------- MODULE Account --------------------------------
(***************************************************************************)
(* The life of one account: the identity that the provider keeps, the      *)
(* person that the first verified sign-in creates, what the student's      *)
(* requests and the workers write for it, and its deletion.                *)
(*                                                                         *)
(* A deletion makes the person a tombstone in a first transaction, removes *)
(* the stored objects one by one, purges the rows of the person in a       *)
(* second one and asks the provider to delete the identity at last.  It    *)
(* may fail or die at any point, and the student may ask again.  What the   *)
(* purge does not reach is the evidence of typed entities, a quote of the  *)
(* student with no key to the person.                                      *)
(*                                                                         *)
(* lock_person selects a live person for update.  A writer with nothing to *)
(* wait for under that lock is one step here; one that never takes it only *)
(* waits for the deletion's own lock (the foreign key of its insert).      *)
(***************************************************************************)
EXTENDS Naturals, FiniteSets

CONSTANTS Procs,      \* requests and workers that run at once
          Objects,    \* files that may be uploaded
          AskBound    \* requests and rounds of workers

ASSUME Asked == AskBound \in Nat

VARIABLES
  identity,   \* the provider's user
  token,      \* an access token that has not expired is around
  refresh,    \* the provider accepts the refresh token
  person,     \* persons: the row of this identity
  details,    \* ... has a name and an address
  vault,      \* person_vaults
  rows,       \* kinds of rows there are about the person
  stored,     \* objects in the storage
  named,      \* objects that a document row names
  missed,     \* the identity was deleted by a request that found no person
  orphans,    \* objects whose upload died, or could not be undone
  lock,       \* who holds the person's row for update
  runLock,    \* who holds the orchestration run
  pc,         \* where each process is
  seen,       \* what a process holds: the person it found, an object, paths
  asks

provider == <<identity, token, refresh, missed>>
account  == <<person, details, vault>>
files    == <<stored, named, orphans>>
locks    == <<lock, runLock>>
control  == <<pc, seen, asks>>
vars     == <<provider, account, rows, files, locks, control>>

\* "evidence" are the rows of vault_evidence about a typed entity: no person_id,
\* no key to a row that has one.
Kinds == {"thread", "content", "run", "memory", "event", "evidence"}

\* What a writer of facts leaves: evidence as well if one is of a typed entity.
Facts == {{"content"}, {"content", "evidence"}}
Points == {"idle", "ensure", "sync", "bootstrap", "created", "retry",
           "write", "post", "upload", "uploading", "put", "compensate",
           "cv", "finish", "recall", "learn",
           "delete", "listing", "removing", "purging", "identity", "alone"}

TypeOK ==
  /\ identity \in {"none", "unverified", "verified", "gone"}
  /\ token \in BOOLEAN /\ refresh \in BOOLEAN /\ missed \in BOOLEAN
  /\ person \in {"none", "live", "tombstone"}
  /\ details \in BOOLEAN /\ vault \in BOOLEAN
  /\ person = "live" => vault
  /\ rows \subseteq Kinds /\ orphans \subseteq stored /\ stored \cup named \subseteq Objects
  /\ lock \subseteq Procs /\ runLock \subseteq Procs
  /\ pc \in [Procs -> Points] /\ seen \in [Procs -> SUBSET Objects]
  /\ asks \in 0..AskBound

Init ==
  /\ identity = "none" /\ token = FALSE /\ refresh = FALSE /\ missed = FALSE
  /\ person = "none" /\ details = FALSE /\ vault = FALSE
  /\ rows = {} /\ stored = {} /\ named = {} /\ orphans = {}
  /\ lock = {} /\ runLock = {}
  /\ pc = [p \in Procs |-> "idle"] /\ seen = [p \in Procs |-> {}] /\ asks = 0

Goto(p, point) == pc' = [pc EXCEPT ![p] = point]

\* A request or a round of a worker begins.
Ask(p, point) ==
  /\ pc[p] = "idle" /\ asks < AskBound
  /\ asks' = asks + 1 /\ seen' = [seen EXCEPT ![p] = {}]
  /\ Goto(p, point)

Step(p, from, to) == pc[p] = from /\ Goto(p, to) /\ UNCHANGED asks

\* lock_person: waits for the row, and refuses a person who is not live.
\* Fault: the row is selected by its id alone.
FencedById == person # "none"
Fenced == person = "live"

-----------------------------------------------------------------------------
(* The identity and its sessions.                                          *)

\* signup: the address is not yet confirmed.
SignUp ==
  /\ identity = "none" /\ identity' = "unverified"
  /\ UNCHANGED <<token, refresh, missed, account, rows, files, locks, control>>

\* confirm_verification, establish_session and login give a session, and attach
\* the person to it.
Open(p) ==
  /\ \/ identity = "unverified" /\ identity' = "verified"
     \/ identity = "verified" /\ UNCHANGED identity
  /\ Ask(p, "ensure")
  /\ token' = TRUE /\ refresh' = TRUE
  /\ UNCHANGED <<missed, account, rows, files, locks>>

Refresh ==
  /\ refresh /\ identity = "verified" /\ token' = TRUE
  /\ UNCHANGED <<identity, refresh, missed, account, rows, files, locks, control>>

\* logout ends the session at the provider; the access token stays good until it
\* expires.
LogOut ==
  /\ token /\ identity = "verified" /\ refresh' = FALSE
  /\ UNCHANGED <<identity, token, missed, account, rows, files, locks, control>>

Expire ==
  /\ token' = FALSE
  /\ UNCHANGED <<identity, refresh, missed, account, rows, files, locks, control>>

-----------------------------------------------------------------------------
(* ensure_person and bootstrap.                                            *)

\* POST /person/bootstrap asks the provider for the user.
AskBootstrap(p) ==
  /\ token /\ identity = "verified" /\ Ask(p, "bootstrap")
  /\ UNCHANGED <<provider, account, rows, files, locks>>

Find(p) ==
  /\ Step(p, "ensure", IF person = "live" THEN "sync" ELSE "bootstrap")
  /\ UNCHANGED <<provider, account, rows, files, locks, seen>>

\* _sync_identity under the lock; without the person the sign-in goes on alone.
Sync(p) ==
  /\ lock = {} /\ Step(p, "sync", "idle")
  /\ IF Fenced THEN person' = "live" /\ details' = TRUE ELSE UNCHANGED <<person, details>>
  /\ UNCHANGED <<provider, vault, rows, files, locks, seen>>

\* The first transaction of bootstrap: a row that it finds it locks and updates,
\* and an insert waits for the insert of another.
Insert(p) ==
  /\ lock = {}
  /\ IF person = "none"
     THEN /\ \A q \in Procs : pc[q] # "created"
          /\ Step(p, "bootstrap", "created") /\ UNCHANGED details
     ELSE Step(p, "bootstrap", "idle") /\ details' = (details \/ person = "live")
  /\ UNCHANGED <<provider, person, vault, rows, files, locks, seen>>

\* Another insert was first: the unique identity refuses this one.
Refused(p) ==
  /\ pc[p] = "bootstrap" /\ \E q \in Procs : pc[q] = "created"
  /\ Goto(p, "retry")
  /\ UNCHANGED <<provider, account, rows, files, locks, seen, asks>>

Create(p) ==
  /\ Step(p, "created", "idle") /\ person' = "live" /\ details' = TRUE /\ vault' = TRUE
  /\ UNCHANGED <<provider, rows, files, locks, seen>>

\* The refused insert returns when the other transaction has ended: what that one
\* created is used, and if it created nothing the insert is made after all.
Retry(p) ==
  /\ lock = {} /\ \A q \in Procs : pc[q] # "created"
  /\ Step(p, "retry", IF person = "none" THEN "bootstrap" ELSE "idle")
  /\ UNCHANGED <<provider, account, rows, files, locks, seen>>

-----------------------------------------------------------------------------
(* Writers.                                                                *)

\* resolve_person_from_token reads a live person; nothing is locked.
Request(p, point) ==
  /\ token /\ person = "live" /\ Ask(p, point)
  /\ UNCHANGED <<provider, account, rows, files, locks>>

\* get_or_create_person_conversation: the insert takes no lock_person.
FindThread(p) ==
  /\ Step(p, "post", "write")
  /\ "thread" \in rows \/ lock = {}
  /\ rows' = rows \cup {"thread"}
  /\ UNCHANGED <<provider, account, files, locks, seen>>

\* A write under lock_person: a message with its run, an edit, a form.
Write(p) ==
  /\ lock = {} /\ Step(p, "write", "idle")
  /\ \E facts \in Facts :
       rows' = IF ~Fenced THEN rows
               ELSE rows \cup facts \cup (IF "thread" \in rows THEN {"run"} ELSE {})
  /\ UNCHANGED <<provider, account, files, locks, seen>>

\* create_document_upload holds the person's row while the storage works.
LockUpload(p) ==
  /\ lock = {} /\ stored # Objects
  /\ Step(p, "upload", IF Fenced THEN "uploading" ELSE "idle")
  /\ lock' = IF Fenced THEN {p} ELSE lock
  /\ UNCHANGED <<provider, account, rows, files, runLock, seen>>

PutObject(p) ==
  /\ Step(p, "uploading", "put")
  /\ \E o \in Objects \ stored : stored' = stored \cup {o} /\ seen' = [seen EXCEPT ![p] = {o}]
  /\ UNCHANGED <<provider, account, rows, named, orphans, locks>>

CommitUpload(p) ==
  /\ Step(p, "put", "idle")
  /\ named' = named \cup seen[p] /\ rows' = rows \cup {"content"} /\ lock' = {}
  /\ UNCHANGED <<provider, account, stored, orphans, runLock, seen>>

\* The commit fails: the rollback gives up the lock before the object is removed.
FailUpload(p) ==
  /\ Step(p, "put", "compensate") /\ lock' = {}
  /\ UNCHANGED <<provider, account, rows, files, runLock, seen>>

Compensate(p) ==
  /\ Step(p, "compensate", "idle")
  /\ stored' = stored \ seen[p]
  /\ UNCHANGED <<provider, account, rows, named, orphans, locks, seen>>

\* ingest_cv: facts under lock_person, then the end of onboarding in an UPDATE and
\* INSERTs that lock nothing first.
ApplyCv(p) ==
  /\ lock = {} /\ Step(p, "cv", IF Fenced THEN "finish" ELSE "idle")
  /\ \E facts \in Facts : rows' = IF Fenced THEN rows \cup facts ELSE rows
  /\ UNCHANGED <<provider, account, files, locks, seen>>

FinishCv(p) ==
  /\ lock = {} /\ Step(p, "finish", "idle")
  /\ rows' = rows \cup {"event"}
  /\ UNCHANGED <<provider, account, files, locks, seen>>

\* run_deferred_intelligence: reads the person, locks the run of its message if
\* that is still there, and commits memories, with facts under lock_person or
\* without any.
FollowUp(p) ==
  /\ "run" \in rows /\ person = "live" /\ Ask(p, "recall")
  /\ UNCHANGED <<provider, account, rows, files, locks>>

LockRun(p) ==
  /\ Step(p, "recall", "learn")
  /\ "run" \in rows => runLock = {}
  /\ runLock' = IF "run" \in rows THEN {p} ELSE runLock
  /\ UNCHANGED <<provider, account, rows, files, lock, seen>>

Learn(p) ==
  /\ lock = {} /\ Step(p, "learn", "idle")
  /\ \E facts \in Facts \cup {{}} :
       rows' = IF facts # {} /\ ~Fenced THEN rows ELSE rows \cup {"memory"} \cup facts
  /\ runLock' = runLock \ {p}
  /\ UNCHANGED <<provider, account, files, lock, seen>>

-----------------------------------------------------------------------------
(* The deletion.                                                           *)

\* delete_account finds the person, live or not; without one only the identity
\* is left to delete.
AskDelete(p) ==
  /\ token /\ Ask(p, IF person = "none" THEN "alone" ELSE "delete")
  /\ UNCHANGED <<provider, account, rows, files, locks>>

Tombstone(p) ==
  /\ lock = {} /\ Step(p, "delete", "listing")
  /\ person' = "tombstone" /\ details' = FALSE
  /\ UNCHANGED <<provider, vault, rows, files, locks, seen>>

ListPaths(p) ==
  /\ Step(p, "listing", "removing")
  /\ seen' = [seen EXCEPT ![p] = named]
  /\ UNCHANGED <<provider, account, rows, files, locks>>

\* delete_object takes an object that is not there for removed.
RemoveObject(p) ==
  /\ pc[p] = "removing"
  /\ \E o \in seen[p] : stored' = stored \ {o} /\ seen' = [seen EXCEPT ![p] = @ \ {o}]
  /\ UNCHANGED <<provider, account, rows, named, orphans, locks, pc, asks>>

AllRemoved(p) ==
  /\ seen[p] = {} /\ Step(p, "removing", "purging")
  /\ UNCHANGED <<provider, account, rows, files, locks, seen>>

\* Fault: a failed cleanup is logged and the identity deleted all the same.
AfterFailureGoOn == "identity"
\* Fault: a failed removal is logged and the rows purged all the same.
AfterFailurePurge == "purging"
\* The storage fails: the request answers that the cleanup is incomplete.
AfterFailure == "idle"

RemoveFails(p) ==
  /\ Step(p, "removing", AfterFailure)
  /\ UNCHANGED <<provider, account, rows, files, locks, seen>>

\* The tables with a person_id are emptied, and what their keys cascade to.  The
\* deletes of runs come before those of memories, and wait for a follow-up that
\* holds its run.
Purge(p) ==
  /\ runLock = {} /\ Step(p, "purging", "identity")
  /\ rows' = rows \cap {"evidence"} /\ named' = {} /\ vault' = FALSE
  /\ UNCHANGED <<provider, person, details, stored, orphans, locks, seen>>

\* delete_user; a call that timed out may have deleted the identity, and one for
\* an identity that is gone fails.
DeleteIdentity(p) ==
  /\ Step(p, "identity", "idle") \/ Step(p, "alone", "idle")
  /\ identity' \in {identity} \cup (IF identity = "verified" THEN {"gone"} ELSE {})
  /\ missed' = (missed \/ (pc[p] = "alone" /\ identity' # identity))
  /\ refresh' = (refresh /\ identity' # "gone")
  /\ UNCHANGED <<token, account, rows, files, locks, seen>>

\* The process ends, or the request fails, between two steps: its transaction is
\* rolled back, and an object it has put into the storage stays there.
Die(p) ==
  /\ pc[p] # "idle" /\ Goto(p, "idle")
  /\ lock' = lock \ {p}
  /\ runLock' = runLock \ {p}
  /\ orphans' = IF pc[p] \in {"put", "compensate"} THEN orphans \cup seen[p] ELSE orphans
  /\ UNCHANGED <<provider, account, rows, stored, named, seen, asks>>

-----------------------------------------------------------------------------
Session == SignUp \/ Refresh \/ LogOut \/ Expire
Enter(p) == Open(p) \/ AskBootstrap(p) \/ Find(p) \/ Sync(p) \/ Insert(p)
            \/ Refused(p) \/ Create(p) \/ Retry(p)
Work(p) == \/ \E point \in {"write", "post", "upload", "cv"} : Request(p, point)
           \/ FindThread(p) \/ Write(p) \/ LockUpload(p) \/ PutObject(p)
           \/ CommitUpload(p) \/ FailUpload(p) \/ Compensate(p) \/ ApplyCv(p)
           \/ FinishCv(p) \/ FollowUp(p) \/ LockRun(p) \/ Learn(p)
DeleteAccount(p) == AskDelete(p) \/ Tombstone(p) \/ ListPaths(p) \/ RemoveObject(p)
             \/ AllRemoved(p) \/ RemoveFails(p) \/ Purge(p) \/ DeleteIdentity(p)

Next == Session \/ \E p \in Procs : Enter(p) \/ Work(p) \/ DeleteAccount(p) \/ Die(p)

Spec == Init /\ [][Next]_vars

-----------------------------------------------------------------------------
\* A deleted account stays deleted and nameless: no sign-in, bootstrap or profile
\* edit that began before the deletion, or came after a failed one, brings the
\* person or what identified it back (soft_delete_person_data, lock_person).
TombstoneStands ==
  [][person = "tombstone" => person' = "tombstone" /\ ~details']_vars

\* The identity is the handle on a retry: when it is gone, no row with the person's
\* id that was written under lock_person and no object with a row is left of the
\* account.  A deletion that looked before the first sign-in had made the person is
\* apart.
IdentityLast ==
  identity = "gone" /\ ~missed =>
    /\ person = "tombstone" /\ rows \cap {"content", "run"} = {}
    /\ named = {} /\ stored \subseteq orphans \cup UNION {seen[p] : p \in Procs}

\* The comment in soft_delete_person_data: all descendants are deleted.  It fails
\* for the evidence of typed entities.
DescendantsDeleted ==
  identity = "gone" /\ ~missed => rows \cap {"content", "run", "evidence"} = {}

\* A stored object can be found by its row until it is removed, so that a failed
\* deletion can be repeated ("retries retain every path").
PathsRetained ==
  \A o \in stored : o \in named \cup orphans
                    \/ \E p \in Procs : pc[p] \in {"put", "compensate"} /\ o \in seen[p]

\* person/service.py: the account is durably fenced and its data purged; when the
\* identity is gone nothing of the person is left.  It fails for a writer that
\* takes no lock of the person: see the README.
PurgedForGood == identity = "gone" /\ ~missed => rows \subseteq {"evidence"}
=============================================================================
