---------------------------- MODULE VaultValues -----------------------------
(***************************************************************************)
(* The values of a person's vault: one row per value ever held or proposed *)
(* for a field, of which the active one is what the system believes.       *)
(*                                                                         *)
(* A client is one request or worker transaction after the other.  What it *)
(* decides on is read without a lock: a student looks at the vault or at   *)
(* the proposals and sends the version that page showed; a chat turn or a  *)
(* document analysis compares a fact with the active value.  Only then is  *)
(* the person's row locked (write_lock.py), the active row of the field    *)
(* read again, and the change committed.  vault.version grows with every   *)
(* committed change except an onboarding submit.                           *)
(*                                                                         *)
(* The row ids that a version check, a proposal or the history refer to    *)
(* are sets of at most one row: {} is SQL's NULL.  The version of a single *)
(* proposal row is left out: it changes only together with the status that *)
(* is checked beside it.                                                   *)
(***************************************************************************)
EXTENDS Naturals

CONSTANTS Clients,     \* requests and workers of one person
          Rows,        \* vault_values rows; used in the order of their numbers
          Fields, Values,
          MaxVersion,  \* no write starts once the vault has this version
          None

ASSUME RowsAreNumbers == Rows \subseteq Nat
ASSUME NoneIsNone == None \notin Clients \cup Rows \cup Fields \cup Values
ASSUME VersionBound == MaxVersion \in Nat

VARIABLES
  row,      \* vault_values
  version,  \* person_vaults.version
  lock,     \* who holds the row lock of the person
  pc,
  seen,     \* seen[c]: what the page in front of the client shows
  req,      \* req[c]: the write the client asks for
  found     \* found[c]: the active row of the field, read under the lock

store  == <<row, version>>
client == <<pc, seen, req, found>>
vars   == <<store, lock, client>>

Statuses == {"none", "active", "superseded", "deleted",
             "pending_confirmation", "confirmed", "rejected"}
Held     == {"active", "superseded", "deleted"}
Sources  == {"manual", "onboarding", "learned"}
Kinds    == {"set", "delete", "upsert", "apply", "propose", "accept", "reject"}
Viewed   == {"set", "delete", "accept", "reject"}

RowRecord == [status: Statuses, field: Fields \cup {None}, value: Values \cup {None},
              supersedes: SUBSET Rows, source: Sources \cup {None}, from: SUBSET Rows]

\* A row number that is not used yet.
Unused == [status |-> "none", field |-> None, value |-> None,
           supersedes |-> {}, source |-> None, from |-> {}]

View    == [field: Fields \cup {None}, version: Nat, active: SUBSET Rows, proposal: SUBSET Rows]
Request == [kind: Kinds \cup {None}, field: Fields \cup {None}, value: Values \cup {None},
            source: Sources \cup {None}, versioned: BOOLEAN, target: SUBSET Rows]

NoView    == [field |-> None, version |-> 0, active |-> {}, proposal |-> {}]
NoRequest == [kind |-> None, field |-> None, value |-> None,
              source |-> None, versioned |-> FALSE, target |-> {}]

TypeOK ==
  /\ row \in [Rows -> RowRecord]
  /\ version \in Nat
  /\ lock \in Clients \cup {None}
  /\ pc \in [Clients -> {"idle", "opening", "viewing", "waiting", "holding"}]
  /\ seen \in [Clients -> View]
  /\ req \in [Clients -> Request]
  /\ found \in [Clients -> SUBSET Rows]

Init ==
  /\ row = [r \in Rows |-> Unused]
  /\ version = 1
  /\ lock = None
  /\ pc = [c \in Clients |-> "idle"]
  /\ seen = [c \in Clients |-> NoView]
  /\ req = [c \in Clients |-> NoRequest]
  /\ found = [c \in Clients |-> {}]

Active(f)  == {r \in Rows : row[r].field = f /\ row[r].status = "active"}
Pending(f) == {r \in Rows : row[r].field = f /\ row[r].status = "pending_confirmation"}
ValuesOf(S) == {row[r].value : r \in S}

\* The row an INSERT creates.
Fresh(r) == row[r].status = "none" /\ \A q \in Rows : q < r => row[q].status # "none"

-----------------------------------------------------------------------------
(* What a client looks at before it asks for a write. *)

\* The request of a page reads the vault's version with the person, first.
OpenView(c, f) ==
  /\ pc[c] = "idle"
  /\ pc' = [pc EXCEPT ![c] = "opening"]
  /\ seen' = [seen EXCEPT ![c] = [NoView EXCEPT !.field = f, !.version = version]]
  /\ UNCHANGED <<store, lock, req, found>>

\* Then it reads the rows: the active value, and a proposal if there is one.
ShowView(c) ==
  LET f == seen[c].field IN
  /\ pc[c] = "opening"
  /\ \E P \in {{p} : p \in Pending(f)} \cup {{}} :
       seen' = [seen EXCEPT ![c] = [@ EXCEPT !.active = Active(f), !.proposal = P]]
  /\ pc' = [pc EXCEPT ![c] = "viewing"]
  /\ UNCHANGED <<store, lock, req, found>>

CloseView(c) ==
  /\ pc[c] = "viewing"
  /\ pc' = [pc EXCEPT ![c] = "idle"]
  /\ seen' = [seen EXCEPT ![c] = NoView]
  /\ UNCHANGED <<store, lock, req, found>>

Ask(c, request) ==
  /\ version < MaxVersion
  /\ pc' = [pc EXCEPT ![c] = "waiting"]
  /\ req' = [req EXCEPT ![c] = request]
  /\ UNCHANGED <<store, lock, seen, found>>

\* A student edits or removes the value on the page; the version is optional.
AskEdit(c) ==
  /\ pc[c] = "viewing"
  /\ \E b \in BOOLEAN, e \in {<<"set", v>> : v \in Values} \cup {<<"delete", None>>} :
       Ask(c, [NoRequest EXCEPT !.kind = e[1], !.field = seen[c].field, !.value = e[2],
                                !.source = "manual", !.versioned = b])

\* A student decides a proposal; vaultVersion is required.
AskResolve(c) ==
  /\ pc[c] = "viewing" /\ seen[c].proposal # {}
  /\ \E k \in {"accept", "reject"} :
       Ask(c, [NoRequest EXCEPT !.kind = k, !.field = seen[c].field, !.source = "manual",
                                !.versioned = TRUE, !.target = seen[c].proposal])

\* The onboarding form writes the fields the student filled in.
AskOnboarding(c) ==
  /\ pc[c] = "idle"
  /\ \E f \in Fields, v \in Values :
       Ask(c, [NoRequest EXCEPT !.kind = "upsert", !.field = f, !.value = v,
                                !.source = "onboarding"])

\* The gate of a chat turn, against the active values it reads before the lock:
\* a contradiction that is not an explicit correction, or a fact that policy does
\* not accept at sight (unsure), becomes a proposal.
EvaluateCandidate(c) ==
  /\ pc[c] = "idle"
  /\ \E f \in Fields, v \in Values, correction \in BOOLEAN, sure \in BOOLEAN :
       LET agrees == ValuesOf(Active(f)) \subseteq {v}
           kind   == IF sure /\ (agrees \/ correction) THEN "apply" ELSE "propose"
       IN Ask(c, [NoRequest EXCEPT !.kind = kind, !.field = f, !.value = v, !.source = "learned"])

\* A document analysis applies a fact that is new or that confirms the belief it
\* reads, before the lock, from the active and the pending rows.
ReconcileFact(c) ==
  /\ pc[c] = "idle"
  /\ \E f \in Fields, v \in Values :
       LET beliefs == ValuesOf(Active(f) \cup Pending(f)) IN
       /\ beliefs = {} \/ v \in beliefs
       /\ Ask(c, [NoRequest EXCEPT !.kind = "apply", !.field = f, !.value = v,
                                   !.source = "learned"])

\* A student confirms a document's fact, in a review or a verification case:
\* it is applied whatever the active value is.
ConfirmFact(c) ==
  /\ pc[c] = "idle"
  /\ \E f \in Fields, v \in Values :
       Ask(c, [NoRequest EXCEPT !.kind = "apply", !.field = f, !.value = v,
                                !.source = "learned"])

-----------------------------------------------------------------------------
(* The write, under the lock of the person's row. *)

\* Fault: a read of the person that does not lock.
LockPersonUnfenced(c) ==
  /\ pc[c] = "waiting"
  /\ lock' = c
  /\ pc' = [pc EXCEPT ![c] = "holding"]
  /\ found' = [found EXCEPT ![c] = Active(req[c].field)]
  /\ UNCHANGED <<store, seen, req>>

\* SELECT ... FOR UPDATE on the person, then the active row of the field.
LockPerson(c) ==
  /\ pc[c] = "waiting" /\ lock = None
  /\ lock' = c
  /\ pc' = [pc EXCEPT ![c] = "holding"]
  /\ found' = [found EXCEPT ![c] = Active(req[c].field)]
  /\ UNCHANGED <<store, seen, req>>

\* The end of a transaction.
Release(c) ==
  /\ lock' = None
  /\ pc' = [pc EXCEPT ![c] = "idle"]
  /\ seen' = [seen EXCEPT ![c] = NoView]
  /\ req' = [req EXCEPT ![c] = NoRequest]
  /\ found' = [found EXCEPT ![c] = {}]

Holds(c, kinds) == pc[c] = "holding" /\ req[c].kind \in kinds

\* The version check, on the vault as it was refreshed under the lock.
Current(c) == req[c].versioned => version = seen[c].version

\* r as the client's request fills it in, with the given status and value.
NewRow(c, status, value) ==
  [status |-> status, field |-> req[c].field, value |-> value,
   supersedes |-> found[c], source |-> req[c].source, from |-> req[c].target]

\* The rows after r became the active one in place of what was found.
Superseding(c, r, value) ==
  [q \in Rows |-> IF q = r THEN NewRow(c, "active", value)
                  ELSE IF q \in found[c] THEN [row[q] EXCEPT !.status = "superseded"]
                  ELSE row[q]]

SetField(c) ==
  /\ Holds(c, {"set"}) /\ Current(c)
  /\ \E r \in Rows : Fresh(r) /\ row' = Superseding(c, r, req[c].value)
  /\ version' = version + 1
  /\ Release(c)

DeleteField(c) ==
  /\ Holds(c, {"delete"}) /\ Current(c)
  /\ found[c] # {}
  /\ row' = [q \in Rows |-> IF q \in found[c] THEN [row[q] EXCEPT !.status = "deleted"]
                            ELSE row[q]]
  /\ version' = version + 1
  /\ Release(c)

UpsertSparseFields(c) ==
  /\ Holds(c, {"upsert"})
  /\ \E r \in Rows : Fresh(r) /\ row' = Superseding(c, r, req[c].value)
  /\ UNCHANGED version
  /\ Release(c)

\* A fact that equals the active value only adds evidence to it.
Reinforces(c, value) == value \in ValuesOf(found[c])

\* Fault: completion, and with it the version, is not recomputed.
ApplyCandidateQuietly(c) ==
  /\ Holds(c, {"apply"})
  /\ IF Reinforces(c, req[c].value)
     THEN UNCHANGED row
     ELSE \E r \in Rows : Fresh(r) /\ row' = Superseding(c, r, req[c].value)
  /\ UNCHANGED version
  /\ Release(c)

ApplyCandidate(c) ==
  /\ Holds(c, {"apply"})
  /\ IF Reinforces(c, req[c].value)
     THEN UNCHANGED row
     ELSE \E r \in Rows : Fresh(r) /\ row' = Superseding(c, r, req[c].value)
  /\ version' = version + 1
  /\ Release(c)

\* A proposal names the active row it would replace and leaves it active.
ProposeCandidate(c) ==
  /\ Holds(c, {"propose"})
  /\ \E r \in Rows :
       /\ Fresh(r)
       /\ row' = [row EXCEPT ![r] = NewRow(c, "pending_confirmation", req[c].value)]
  /\ version' = version + 1
  /\ Release(c)

\* Fault: the status is not looked at again, and the row named by the proposal
\* need only exist.
UndecidedUnread(p) == TRUE

StillNamedOnce(p) == \A q \in row[p].supersedes : row[q].status # "none"

\* What resolve_proposal requires of the proposal it read under the lock.
Undecided(p) == row[p].status = "pending_confirmation"
StillNamed(p) == \A q \in row[p].supersedes : row[q].status = "active"

AcceptProposal(c) ==
  /\ Holds(c, {"accept"}) /\ Current(c)
  /\ \E p \in req[c].target :
       /\ Undecided(p) /\ StillNamed(p)
       /\ IF Reinforces(c, row[p].value)
          THEN row' = [row EXCEPT ![p].status = "confirmed"]
          ELSE \E r \in Rows :
                 /\ Fresh(r)
                 /\ row' = [Superseding(c, r, row[p].value) EXCEPT ![p].status = "confirmed"]
  /\ version' = version + 1
  /\ Release(c)

RejectProposal(c) ==
  /\ Holds(c, {"reject"})
  /\ \E p \in req[c].target :
       Undecided(p) /\ row' = [row EXCEPT ![p].status = "rejected"]
  /\ UNCHANGED version
  /\ Release(c)

\* The request is refused, has nothing to do, or its connection is lost.
Rollback(c) ==
  /\ pc[c] = "holding"
  /\ Release(c)
  /\ UNCHANGED store

-----------------------------------------------------------------------------
Look(c) == (\E f \in Fields : OpenView(c, f)) \/ ShowView(c) \/ CloseView(c)

Start(c) == \/ AskEdit(c) \/ AskResolve(c) \/ AskOnboarding(c)
            \/ EvaluateCandidate(c) \/ ReconcileFact(c) \/ ConfirmFact(c)

Write(c) == \/ SetField(c) \/ DeleteField(c) \/ UpsertSparseFields(c)
            \/ ApplyCandidate(c) \/ ProposeCandidate(c)
            \/ AcceptProposal(c) \/ RejectProposal(c)

Next == \E c \in Clients : Look(c) \/ Start(c) \/ LockPerson(c) \/ Write(c) \/ Rollback(c)

Spec == Init /\ [][Next]_vars

-----------------------------------------------------------------------------
(* Properties. *)

\* At most one row of a field is active: no unique index says so, and every
\* later request for the field fails on scalar_one_or_none() if there are two.
OneActive == \A f \in Fields : \A q, r \in Active(f) : q = r

\* The history of a field is a chain: a row is superseded exactly if a row that
\* took effect names it, and one row does.  A proposal, whatever becomes of it,
\* supersedes nothing.
HistoryLinear ==
  \A p \in Rows :
    LET successors == {r \in Rows : row[r].status \in Held /\ p \in row[r].supersedes} IN
    /\ row[p].status = "superseded" <=> successors # {}
    /\ \A q, r \in successors : q = r

\* A proposal takes effect at most once, and only if the student's one decision
\* about it was to accept it.
ProposalAppliedOnce ==
  \A p \in Rows :
    LET outcome == {r \in Rows : p \in row[r].from} IN
    /\ outcome # {} => row[p].status = "confirmed"
    /\ \A q, r \in outcome : q = r

\* A proposal that named a current value when it was made replaces that value
\* and no other, however much later it is accepted.
AcceptedOverReviewed ==
  \A r \in Rows : \A p \in row[r].from :
    row[p].supersedes # {} => row[r].supersedes = row[p].supersedes

\* What is decided stays decided: a row that was replaced, removed, confirmed or
\* rejected keeps that status, whatever requests were already on their way.
Final == {"superseded", "deleted", "confirmed", "rejected"}
DecisionsFinal ==
  [][\A r \in Rows : row[r].status \in Final => row'[r].status = row[r].status]_vars

\* A request that sends the version of its page changes the field only if the
\* value on the page is still the active one: nobody's edit, turn or document is
\* lost to it.  An onboarding submit does not raise the version and is excepted.
PageIsCurrent(c) ==
  \/ Active(req[c].field) = seen[c].active
  \/ \E r \in Active(req[c].field) : row[r].source = "onboarding"

NoLostEdit ==
  [][\A c \in Clients :
       pc[c] = "holding" /\ req[c].versioned /\ req[c].kind # "reject" /\ row' # row
         => PageIsCurrent(c)]_vars
=============================================================================
