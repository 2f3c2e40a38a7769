----------------------------- MODULE GoalPursuit -----------------------------
(***************************************************************************)
(* The writers of the goal that a student pursues (PursuedGoal).           *)
(*                                                                         *)
(* They change the rows of the goals and the pointer of the chat thread    *)
(* with activate_goal, in one transaction.  The goal resolver of a chat    *)
(* turn, accepted career interests and onboarding hold the person's row    *)
(* lock (Holders); the activation endpoint does not (Endpoints).           *)
(*                                                                         *)
(* A student has no chat thread until a request asks for it: onboarding    *)
(* activates the first goal before.                                        *)
(*                                                                         *)
(* A session keeps the rows it has read: a later SELECT returns them as    *)
(* they were, and assigning the value it already has writes nothing.       *)
(***************************************************************************)
EXTENDS PursuedGoal

CONSTANTS Holders, Endpoints,
          RequestBound,   \* requests in a behaviour
          EndpointsAlone, \* a request of the endpoint overlaps no other request
          Nobody, Unread,
          NoThread        \* what a session found that looked for a thread too early

ASSUME ConstantTypes == RequestBound \in Nat /\ EndpointsAlone \in BOOLEAN
ASSUME Distinct ==
  /\ NoGoal \notin Goals /\ Unread \notin Goals \cup {NoGoal}
  /\ NoThread \notin Goals \cup {NoGoal, Unread}
  /\ Nobody \notin Holders /\ Holders \cap Endpoints = {}

VARIABLES
  personLock,
  rpc,         \* where a request is
  target,      \* the goal it is about
  known,       \* known[r][g]: lifecycle of g in r's session, or Unread
  thread,      \* thread[r]: the pointer in r's session, or Unread, or NoThread
  rivals,      \* rivals[r]: the other goals it found active
  makes,       \* makes[r]: the lifecycle it gives its goal
  requests

row     == <<lifecycle, pointer, opened>>
session == <<rpc, target, known, thread, rivals, makes>>
vars    == <<row, personLock, session, requests>>

Writers == Holders \cup Endpoints
Unknown == "unread"

TypeOK ==
  /\ lifecycle \in [Goals -> Lifecycles]
  /\ pointer \in Goals \cup {NoGoal} /\ opened \in BOOLEAN
  /\ personLock \in Holders \cup {Nobody}
  /\ rpc \in [Writers -> {"idle", "read", "gotThread", "decided", "searched"}]
  /\ target \in [Writers -> Goals \cup {NoGoal}]
  /\ known \in [Writers -> [Goals -> Lifecycles \cup {Unknown}]]
  /\ thread \in [Writers -> Goals \cup {NoGoal, Unread, NoThread}]
  /\ rivals \in [Writers -> SUBSET Goals]
  /\ makes \in [Writers -> {"draft", "active", "kept"}]
  /\ requests \in 0..RequestBound

Fresh == [g \in Goals |-> Unknown]

Init ==
  /\ lifecycle = [g \in Goals |-> "absent"]
  /\ pointer = NoGoal /\ opened = FALSE
  /\ personLock = Nobody
  /\ rpc = [r \in Writers |-> "idle"]
  /\ target = [r \in Writers |-> NoGoal]
  /\ known = [r \in Writers |-> Fresh]
  /\ thread = [r \in Writers |-> Unread]
  /\ rivals = [r \in Writers |-> {}]
  /\ makes = [r \in Writers |-> "kept"]
  /\ requests = 0

-----------------------------------------------------------------------------
(* Helpers.                                                                *)

Opens(r, point) ==
  /\ rpc[r] = "idle" /\ requests < RequestBound
  /\ EndpointsAlone =>
       \A q \in Writers : r \in Endpoints \/ q \in Endpoints => rpc[q] = "idle"
  /\ requests' = requests + 1
  /\ rpc' = [rpc EXCEPT ![r] = point]

\* A row the session has not read yet is read as committed now.
Reads(r, g) == IF known[r][g] = Unknown THEN lifecycle[g] ELSE known[r][g]

\* Fault: the writer does not wait for the other one.
MayLockAlways == TRUE

\* lock_person waits for the row lock of the person.
MayLock == personLock = Nobody

\* The goals activate_goal pauses.
Siblings(r) == Active \ {target[r]}

-----------------------------------------------------------------------------
(* The chat thread.                                                        *)

\* create_conversation commits a thread that points at no goal.  Its row refers
\* to the person, so the insert waits for lock_person.
Create ==
  /\ MayLock
  /\ opened' = TRUE

\* The student opens the chat, or asks for the active goal, for the first time.
OpenThread ==
  /\ ~opened
  /\ Create
  /\ UNCHANGED <<lifecycle, pointer, personLock, session, requests>>

-----------------------------------------------------------------------------
(* Writers that hold the person's lock.                                    *)

\* lock_person, the thread's goal, and the matching goal or a new one.  The
\* resolver works for a turn of the thread, and activates when the student
\* supersedes the goal of the thread or has none; a career interest and
\* onboarding always activate, and have not looked at a thread.
Decide(r) ==
  /\ Opens(r, "decided")
  /\ MayLock
  /\ personLock' = r
  /\ \E g \in Goals, activates \in BOOLEAN, found \in {Unread, pointer} :
       /\ found # Unread => opened
       /\ found \in {Unread, NoGoal} => activates
       /\ thread' = [thread EXCEPT ![r] = found]
       /\ target' = [target EXCEPT ![r] = g]
       /\ known' = [known EXCEPT ![r] =
                      [Fresh EXCEPT ![g] = lifecycle[g]]]
       /\ makes' = [makes EXCEPT ![r] =
                      IF activates THEN "active"
                      ELSE IF lifecycle[g] = "absent" THEN "draft" ELSE "kept"]
  /\ rivals' = [rivals EXCEPT ![r] = {}]
  /\ UNCHANGED row

-----------------------------------------------------------------------------
(* POST /goals/{id}/activate.                                              *)

ReadGoal(r) ==
  /\ Opens(r, "read")
  /\ \E g \in Goals :
       /\ lifecycle[g] # "absent"
       /\ target' = [target EXCEPT ![r] = g]
       /\ known' = [known EXCEPT ![r] = [Fresh EXCEPT ![g] = lifecycle[g]]]
  /\ thread' = [thread EXCEPT ![r] = Unread]
  /\ rivals' = [rivals EXCEPT ![r] = {}]
  /\ makes' = [makes EXCEPT ![r] = "active"]
  /\ UNCHANGED <<row, personLock>>

\* get_or_create_person_conversation.
ReadThread(r) ==
  /\ rpc[r] = "read"
  /\ \/ opened /\ UNCHANGED opened
     \/ ~opened /\ Create
  /\ thread' = [thread EXCEPT ![r] = pointer]
  /\ rpc' = [rpc EXCEPT ![r] = "gotThread"]
  /\ UNCHANGED <<lifecycle, pointer, personLock, target, known, rivals, makes, requests>>

-----------------------------------------------------------------------------
(* activate_goal and the commit.                                           *)

\* What a session knows of the thread once it has looked.
Thread(r) ==
  IF thread[r] # Unread THEN thread[r] ELSE IF opened THEN pointer ELSE NoThread

\* SELECT of the other active goals, and of the latest thread if the caller
\* named none.
FindSiblings(r) ==
  /\ rpc[r] \in {"gotThread", "decided"}
  /\ makes[r] = "active"
  /\ rivals' = [rivals EXCEPT ![r] = Siblings(r)]
  /\ known' = [known EXCEPT ![r] =
                 [g \in Goals |-> IF g \in Siblings(r) THEN Reads(r, g) ELSE known[r][g]]]
  /\ thread' = [thread EXCEPT ![r] = Thread(r)]
  /\ rpc' = [rpc EXCEPT ![r] = "searched"]
  /\ UNCHANGED <<row, personLock, target, makes, requests>>

\* The pointer of the thread, if the session found one, is written when it
\* differs from the one the session read.
PointerAfter(r) ==
  IF makes[r] = "active" /\ thread[r] \notin {target[r], NoThread}
  THEN target[r] ELSE pointer

\* What the session assigns to goal g.
Assigned(r, g) ==
  IF g = target[r] /\ makes[r] # "kept" THEN makes[r]
  ELSE IF g \in rivals[r] THEN "paused"
  ELSE known[r][g]

Written(r, g) == IF Assigned(r, g) # known[r][g] THEN Assigned(r, g) ELSE lifecycle[g]

\* The commit: an UPDATE of each row whose value changed in the session.
Commit(r) ==
  /\ \/ rpc[r] = "searched"
     \/ rpc[r] = "decided" /\ makes[r] # "active"
  /\ lifecycle' = [g \in Goals |-> Written(r, g)]
  /\ pointer' = PointerAfter(r) /\ UNCHANGED opened
  /\ personLock' = IF personLock = r THEN Nobody ELSE personLock
  /\ rpc' = [rpc EXCEPT ![r] = "idle"]
  /\ target' = [target EXCEPT ![r] = NoGoal]
  /\ known' = [known EXCEPT ![r] = Fresh]
  /\ thread' = [thread EXCEPT ![r] = Unread]
  /\ rivals' = [rivals EXCEPT ![r] = {}]
  /\ makes' = [makes EXCEPT ![r] = "kept"]
  /\ UNCHANGED requests

\* The transaction is rolled back: a follow-up that fails later, or a crash.
Abandon(r) ==
  /\ rpc[r] # "idle"
  /\ personLock' = IF personLock = r THEN Nobody ELSE personLock
  /\ rpc' = [rpc EXCEPT ![r] = "idle"]
  /\ target' = [target EXCEPT ![r] = NoGoal]
  /\ known' = [known EXCEPT ![r] = Fresh]
  /\ thread' = [thread EXCEPT ![r] = Unread]
  /\ rivals' = [rivals EXCEPT ![r] = {}]
  /\ makes' = [makes EXCEPT ![r] = "kept"]
  /\ UNCHANGED <<row, requests>>

-----------------------------------------------------------------------------
Next ==
  \/ OpenThread
  \/ \E r \in Holders : Decide(r)
  \/ \E r \in Endpoints : ReadGoal(r) \/ ReadThread(r)
  \/ \E r \in Writers : FindSiblings(r) \/ Commit(r) \/ Abandon(r)

Spec == Init /\ [][Next]_vars
=============================================================================
