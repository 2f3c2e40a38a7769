------------------------- MODULE VaultValuesProofs --------------------------
(***************************************************************************)
(* Proofs about VaultValues, for any number of clients, rows, fields and   *)
(* values, Rows = Nat included.                                            *)
(***************************************************************************)
EXTENDS VaultValues, TLAPS

\* Who is in the database and what for.
Control ==
  /\ version >= 1
  /\ \A c \in Clients :
       /\ pc[c] = "holding" <=> lock = c
       /\ pc[c] = "idle" => seen[c] = NoView
       /\ pc[c] \in {"opening", "viewing"} => seen[c].field \in Fields
       /\ pc[c] \in {"waiting", "holding"} =>
            /\ req[c].kind \in Kinds
            /\ req[c].field \in Fields
            /\ req[c].kind \notin {"accept", "reject"} => req[c].target = {}
            /\ req[c].kind \in {"accept", "reject"} => req[c].target = seen[c].proposal
            /\ req[c].kind \in {"accept", "reject"} => req[c].field = seen[c].field
            /\ req[c].versioned => req[c].field = seen[c].field /\ req[c].kind \in Viewed
            /\ req[c].kind = "upsert" => req[c].source = "onboarding"

\* What a page showed of the proposals is still a proposal of that field.
Pages ==
  \A c \in Clients :
    /\ \A p, q \in seen[c].proposal : p = q
    /\ \A p \in seen[c].proposal :
         /\ row[p].field = seen[c].field
         /\ row[p].status \in {"pending_confirmation", "confirmed", "rejected"}

\* A page that shows the current version shows the current value.
Versions ==
  \A c \in Clients :
    /\ seen[c].version <= version
    /\ pc[c] # "opening" /\ seen[c].version = version =>
         \/ Active(seen[c].field) = seen[c].active
         \/ \E r \in Active(seen[c].field) : row[r].source = "onboarding"

\* Nobody changes the rows of a field between the locked read and the commit.
FoundIsActive ==
  \A c \in Clients : pc[c] = "holding" => found[c] = Active(req[c].field)

RowsWellFormed ==
  \A r \in Rows :
    /\ row[r].status = "none" => row[r] = Unused
    /\ row[r].status # "none" => row[r].field \in Fields
    /\ \A p, q \in row[r].supersedes : p = q
    /\ \A q \in row[r].supersedes :
         row[q].field = row[r].field /\ row[q].status \in Held

IInv == /\ TypeOK /\ Control /\ Pages /\ Versions /\ FoundIsActive /\ RowsWellFormed
        /\ OneActive /\ HistoryLinear /\ ProposalAppliedOnce /\ AcceptedOverReviewed

-----------------------------------------------------------------------------
(* Requests.                                                               *)

\* A request as a page, a form or a worker sends it.
Sent(c, q) ==
  /\ q.kind \in Kinds
  /\ q.field \in Fields
  /\ q.kind \notin {"accept", "reject"} => q.target = {}
  /\ q.kind \in {"accept", "reject"} => q.target = seen[c].proposal /\ q.field = seen[c].field
  /\ q.versioned => q.field = seen[c].field /\ q.kind \in Viewed
  /\ q.kind = "upsert" => q.source = "onboarding"

LEMMA StartSends ==
  ASSUME TypeOK, Control, NEW c \in Clients, Start(c)
  PROVE  pc[c] \in {"idle", "viewing"} /\ \E q \in Request : Ask(c, q) /\ Sent(c, q)
<1>1. CASE AskEdit(c)
  <2>1. pc[c] = "viewing" /\ seen[c].field \in Fields
    BY <1>1 DEF AskEdit, Control
  <2>2. PICK b \in BOOLEAN, e \in {<<"set", v>> : v \in Values} \cup {<<"delete", None>>} :
          Ask(c, [NoRequest EXCEPT !.kind = e[1], !.field = seen[c].field, !.value = e[2],
                                   !.source = "manual", !.versioned = b])
    BY <1>1 DEF AskEdit
  <2>3. e[1] \in {"set", "delete"} /\ e[2] \in Values \cup {None}
    OBVIOUS
  <2> DEFINE q == [NoRequest EXCEPT !.kind = e[1], !.field = seen[c].field, !.value = e[2],
                                    !.source = "manual", !.versioned = b]
  <2>4. q \in Request /\ Sent(c, q)
    BY <2>1, <2>3 DEF Request, NoRequest, Sent, Kinds, Sources, Viewed
  <2> QED
    BY <2>1, <2>2, <2>4
<1>2. CASE AskResolve(c)
  <2>1. pc[c] = "viewing" /\ seen[c].field \in Fields /\ seen[c] \in View
    BY <1>2 DEF AskResolve, Control, TypeOK
  <2>2. PICK k \in {"accept", "reject"} :
          Ask(c, [NoRequest EXCEPT !.kind = k, !.field = seen[c].field, !.source = "manual",
                                   !.versioned = TRUE, !.target = seen[c].proposal])
    BY <1>2 DEF AskResolve
  <2> DEFINE q == [NoRequest EXCEPT !.kind = k, !.field = seen[c].field, !.source = "manual",
                                    !.versioned = TRUE, !.target = seen[c].proposal]
  <2>3. q \in Request /\ Sent(c, q)
    BY <2>1 DEF Request, NoRequest, Sent, Kinds, Sources, View, Viewed
  <2> QED
    BY <2>1, <2>2, <2>3
<1>3. ASSUME NEW f \in Fields, NEW v \in Values, NEW k \in {"upsert", "apply", "propose"},
             NEW s \in Sources, k = "upsert" => s = "onboarding"
      PROVE  LET q == [NoRequest EXCEPT !.kind = k, !.field = f, !.value = v, !.source = s]
             IN  q \in Request /\ Sent(c, q)
  <2> DEFINE q == [NoRequest EXCEPT !.kind = k, !.field = f, !.value = v, !.source = s]
  <2>1. q \in Request
    BY DEF Request, NoRequest, Kinds
  <2>3. /\ q.kind = k /\ q.field = f /\ q.source = s /\ q.versioned = FALSE /\ q.target = {}
    BY DEF NoRequest
  <2>4. k \notin {"accept", "reject"} /\ k \in Kinds
    BY DEF Kinds
  <2> HIDE DEF q
  <2>5. Sent(c, q)
    BY <1>3, <2>3, <2>4 DEF Sent
  <2> QED
    BY <2>1, <2>5 DEF q
<1>4. CASE AskOnboarding(c)
  <2>1. PICK f \in Fields, v \in Values :
          Ask(c, [NoRequest EXCEPT !.kind = "upsert", !.field = f, !.value = v,
                                   !.source = "onboarding"])
    BY <1>4 DEF AskOnboarding
  <2>2. pc[c] = "idle" /\ "onboarding" \in Sources
    BY <1>4 DEF AskOnboarding, Sources
  <2> QED
    BY <1>3, <2>1, <2>2
<1>5. CASE EvaluateCandidate(c) \/ ReconcileFact(c) \/ ConfirmFact(c)
  <2>1. "learned" \in Sources
    BY DEF Sources
  <2>2. PICK f \in Fields, v \in Values, k \in {"apply", "propose"} :
          Ask(c, [NoRequest EXCEPT !.kind = k, !.field = f, !.value = v, !.source = "learned"])
    BY <1>5 DEF EvaluateCandidate, ReconcileFact, ConfirmFact
  <2>3. pc[c] = "idle"
    BY <1>5 DEF EvaluateCandidate, ReconcileFact, ConfirmFact
  <2> QED
    BY <1>3, <2>1, <2>2, <2>3
<1> QED
  BY <1>1, <1>2, <1>4, <1>5 DEF Start

-----------------------------------------------------------------------------
(* Type correctness.                                                       *)

LEMMA NewRowType ==
  ASSUME TypeOK, NEW c \in Clients, NEW s \in Statuses, NEW v \in Values \cup {None}
  PROVE  NewRow(c, s, v) \in RowRecord
<1>1. req[c] \in Request /\ found[c] \in SUBSET Rows
  BY DEF TypeOK
<1> QED
  BY <1>1 DEF NewRow, RowRecord, Request

LEMMA RestatusType ==
  ASSUME TypeOK, NEW q \in Rows, NEW s \in Statuses
  PROVE  [row[q] EXCEPT !.status = s] \in RowRecord
<1>1. row[q] \in RowRecord
  BY DEF TypeOK
<1> QED
  BY <1>1 DEF RowRecord

LEMMA SupersedingType ==
  ASSUME TypeOK, NEW c \in Clients, NEW r \in Rows, NEW v \in Values \cup {None}
  PROVE  Superseding(c, r, v) \in [Rows -> RowRecord]
<1>1. NewRow(c, "active", v) \in RowRecord
  BY NewRowType DEF Statuses
<1>2. \A q \in Rows : [row[q] EXCEPT !.status = "superseded"] \in RowRecord /\ row[q] \in RowRecord
  BY RestatusType DEF Statuses, TypeOK
<1> QED
  BY <1>1, <1>2 DEF Superseding

LEMMA ReleaseType ==
  ASSUME TypeOK, NEW c \in Clients, Release(c), row' \in [Rows -> RowRecord], version' \in Nat
  PROVE  TypeOK'
<1>1. NoView \in View /\ NoRequest \in Request
  BY DEF NoView, NoRequest, View, Request
<1> QED
  BY <1>1 DEF Release, TypeOK

LEMMA WriteType ==
  ASSUME TypeOK, NEW c \in Clients, Write(c)
  PROVE  TypeOK'
<1>1. Release(c)
  BY DEF Write, SetField, DeleteField, UpsertSparseFields, ApplyCandidate, ProposeCandidate,
         AcceptProposal, RejectProposal
<1>2. version' \in Nat
  BY DEF Write, SetField, DeleteField, UpsertSparseFields, ApplyCandidate, ProposeCandidate,
         AcceptProposal, RejectProposal, TypeOK
<1>3. req[c].value \in Values \cup {None} /\ req[c].target \in SUBSET Rows
  BY DEF TypeOK, Request
<1>4. row \in [Rows -> RowRecord] /\ \A p \in Rows : row[p].value \in Values \cup {None}
  BY DEF TypeOK, RowRecord
<1>5. row' \in [Rows -> RowRecord]
  <2>1. CASE SetField(c)
    BY <2>1, <1>3, SupersedingType DEF SetField
  <2>2. CASE UpsertSparseFields(c)
    BY <2>2, <1>3, SupersedingType DEF UpsertSparseFields
  <2>3. CASE ApplyCandidate(c)
    BY <2>3, <1>3, <1>4, SupersedingType DEF ApplyCandidate
  <2>4. CASE DeleteField(c)
    <3>1. \A q \in Rows : [row[q] EXCEPT !.status = "deleted"] \in RowRecord
      BY RestatusType DEF Statuses
    <3> QED
      BY <2>4, <3>1, <1>4 DEF DeleteField
  <2>5. CASE ProposeCandidate(c)
    <3>1. NewRow(c, "pending_confirmation", req[c].value) \in RowRecord
      BY <1>3, NewRowType DEF Statuses
    <3> QED
      BY <2>5, <3>1, <1>4 DEF ProposeCandidate
  <2>6. CASE AcceptProposal(c)
    <3>1. PICK p \in req[c].target :
            IF Reinforces(c, row[p].value)
            THEN row' = [row EXCEPT ![p].status = "confirmed"]
            ELSE \E r \in Rows :
                   row' = [Superseding(c, r, row[p].value) EXCEPT ![p].status = "confirmed"]
      BY <2>6 DEF AcceptProposal
    <3>2. p \in Rows /\ row[p].value \in Values \cup {None}
      BY <1>3, <1>4
    <3>3. CASE row' = [row EXCEPT ![p].status = "confirmed"]
      <4>1. [row[p] EXCEPT !.status = "confirmed"] \in RowRecord
        BY <3>2, RestatusType DEF Statuses
      <4> QED
        BY <3>2, <3>3, <4>1, <1>4
    <3>4. ASSUME NEW r \in Rows,
                 row' = [Superseding(c, r, row[p].value) EXCEPT ![p].status = "confirmed"]
          PROVE  row' \in [Rows -> RowRecord]
      <4> DEFINE S == Superseding(c, r, row[p].value)
      <4>1. S \in [Rows -> RowRecord]
        BY <3>2, SupersedingType
      <4>2. [S[p] EXCEPT !.status = "confirmed"] \in RowRecord
        <5> HIDE DEF S
        <5> QED
          BY <3>2, <4>1 DEF RowRecord, Statuses
      <4> HIDE DEF S
      <4>3. row' = [S EXCEPT ![p].status = "confirmed"]
        BY <3>4 DEF S
      <4> QED
        BY <3>2, <4>1, <4>2, <4>3
    <3> QED
      BY <3>1, <3>3, <3>4
  <2>7. CASE RejectProposal(c)
    <3>1. PICK p \in req[c].target : row' = [row EXCEPT ![p].status = "rejected"]
      BY <2>7 DEF RejectProposal
    <3>2. [row[p] EXCEPT !.status = "rejected"] \in RowRecord
      BY <1>3, RestatusType DEF Statuses
    <3> QED
      BY <3>1, <3>2, <1>3, <1>4
  <2> QED
    BY <2>1, <2>2, <2>3, <2>4, <2>5, <2>6, <2>7 DEF Write
<1> QED
  BY <1>1, <1>2, <1>5, ReleaseType

LEMMA LookType ==
  ASSUME TypeOK, NEW c \in Clients, Look(c)
  PROVE  TypeOK'
<1>1. seen' \in [Clients -> View]
  <2>1. ASSUME NEW f \in Fields, OpenView(c, f) PROVE seen' \in [Clients -> View]
    <3>1. [NoView EXCEPT !.field = f, !.version = version] \in View
      BY DEF NoView, View, TypeOK
    <3> QED
      BY <2>1, <3>1 DEF OpenView, TypeOK
  <2>2. CASE ShowView(c)
    <3>1. PICK P \in {{p} : p \in Pending(seen[c].field)} \cup {{}} :
            seen' = [seen EXCEPT ![c] = [seen[c] EXCEPT !.active = Active(seen[c].field),
                                                        !.proposal = P]]
      BY <2>2 DEF ShowView, TypeOK
    <3>2. P \subseteq Rows
      BY DEF Pending
    <3>3. [seen[c] EXCEPT !.active = Active(seen[c].field), !.proposal = P] \in View
      BY <3>2 DEF TypeOK, View, Active
    <3> QED
      BY <3>1, <3>3 DEF TypeOK
  <2>3. CASE CloseView(c)
    <3>1. NoView \in View
      BY DEF NoView, View
    <3> QED
      BY <2>3, <3>1 DEF CloseView, TypeOK
  <2> QED
    BY <2>1, <2>2, <2>3 DEF Look
<1>2. UNCHANGED <<store, lock, req, found>>
  BY DEF Look, OpenView, ShowView, CloseView
<1>3. pc' \in [Clients -> {"idle", "opening", "viewing", "waiting", "holding"}]
  BY DEF Look, OpenView, ShowView, CloseView, TypeOK
<1> QED
  BY <1>1, <1>2, <1>3 DEF TypeOK, store

LEMMA NextType ==
  ASSUME TypeOK, Control, [Next]_vars
  PROVE  TypeOK'
<1>1. ASSUME NEW c \in Clients, Look(c) PROVE TypeOK'
  BY <1>1, LookType
<1>2. ASSUME NEW c \in Clients, Start(c) PROVE TypeOK'
  <2>1. PICK q \in Request : Ask(c, q)
    BY <1>2, StartSends
  <2> QED
    BY <2>1 DEF Ask, TypeOK, store
<1>3. ASSUME NEW c \in Clients, LockPerson(c) PROVE TypeOK'
  <2>1. Active(req[c].field) \in SUBSET Rows
    BY DEF Active
  <2> QED
    BY <1>3, <2>1 DEF LockPerson, TypeOK, store
<1>4. ASSUME NEW c \in Clients, Write(c) PROVE TypeOK'
  BY <1>4, WriteType
<1>5. ASSUME NEW c \in Clients, Rollback(c) PROVE TypeOK'
  <2>1. row' \in [Rows -> RowRecord] /\ version' \in Nat
    BY <1>5 DEF Rollback, store, TypeOK
  <2> QED
    BY <1>5, <2>1, ReleaseType DEF Rollback
<1>6. CASE UNCHANGED vars
  BY <1>6 DEF vars, store, client, TypeOK
<1> QED
  BY <1>1, <1>2, <1>3, <1>4, <1>5, <1>6 DEF Next

-----------------------------------------------------------------------------
(* Who holds the lock, and for which request.                              *)

LEMMA NextControl ==
  ASSUME TypeOK, Control, [Next]_vars
  PROVE  Control'
<1>1. ASSUME NEW c \in Clients, Look(c) PROVE Control'
  <2>1. UNCHANGED <<version, lock, req>>
    BY <1>1 DEF Look, OpenView, ShowView, CloseView, store
  <2>2. /\ pc[c] \notin {"waiting", "holding"}
        /\ pc'[c] \in {"idle", "opening", "viewing"}
        /\ pc'[c] = "idle" => seen'[c] = NoView
        /\ pc'[c] \in {"opening", "viewing"} => seen'[c].field \in Fields
        /\ \A d \in Clients \ {c} : pc'[d] = pc[d] /\ seen'[d] = seen[d]
    <3>1. ASSUME NEW f \in Fields, OpenView(c, f) PROVE <2>2!1 /\ <2>2!2 /\ <2>2!3 /\ <2>2!4 /\ <2>2!5
      BY <3>1 DEF OpenView, TypeOK, NoView
    <3>2. CASE ShowView(c)
      BY <3>2 DEF ShowView, TypeOK, Control, View
    <3>3. CASE CloseView(c)
      BY <3>3 DEF CloseView, TypeOK
    <3> QED
      BY <1>1, <3>1, <3>2, <3>3 DEF Look
  <2> QED
    BY <2>1, <2>2 DEF Control, TypeOK
<1>2. ASSUME NEW c \in Clients, Start(c) PROVE Control'
  <2>1. pc[c] \in {"idle", "viewing"}
    BY <1>2, StartSends
  <2>2. PICK q \in Request : Ask(c, q) /\ Sent(c, q)
    BY <1>2, StartSends
  <2> QED
    BY <2>1, <2>2 DEF Ask, Sent, Control, TypeOK, store
<1>3. ASSUME NEW c \in Clients, LockPerson(c) PROVE Control'
  BY <1>3, NoneIsNone DEF LockPerson, Control, TypeOK, store
<1>4. ASSUME NEW c \in Clients, Release(c), pc[c] = "holding", version' \in {version, version + 1}
      PROVE  Control'
  BY <1>4, NoneIsNone DEF Release, Control, TypeOK
<1>5. ASSUME NEW c \in Clients, Write(c) \/ Rollback(c) PROVE Control'
  <2>1. Release(c) /\ pc[c] = "holding" /\ version' \in {version, version + 1}
    BY <1>5 DEF Write, SetField, DeleteField, UpsertSparseFields, ApplyCandidate, store,
           ProposeCandidate, AcceptProposal, RejectProposal, Rollback, Holds
  <2> QED
    BY <1>4, <2>1
<1>6. CASE UNCHANGED vars
  BY <1>6 DEF vars, store, client, Control
<1> QED
  BY <1>1, <1>2, <1>3, <1>5, <1>6 DEF Next

-----------------------------------------------------------------------------
(* What a write does to the rows, field by field.                          *)

\* Row q is as it was but for its status, which is now s.
Restatus(q, s) ==
  /\ row'[q].field = row[q].field
  /\ row'[q].supersedes = row[q].supersedes
  /\ row'[q].source = row[q].source
  /\ row'[q].from = row[q].from
  /\ row'[q].status = s

\* Row r is new, filled in from c's request.
Inserted(c, r, s) ==
  /\ row[r].status = "none"
  /\ row'[r].field = req[c].field
  /\ row'[r].supersedes = found[c]
  /\ row'[r].source = req[c].source
  /\ row'[r].from = req[c].target
  /\ row'[r].status = s

\* r takes the place of what c found; a proposal it comes from is confirmed.
Supersedes(c, r) ==
  /\ Inserted(c, r, "active")
  /\ \A p \in req[c].target : Undecided(p) /\ StillNamed(p)
  /\ \A q \in Rows \ {r} :
       /\ q \in found[c] => Restatus(q, "superseded")
       /\ q \in req[c].target => Restatus(q, "confirmed")
       /\ q \notin found[c] \cup req[c].target => row'[q] = row[q]

Removes(c) ==
  \A q \in Rows : IF q \in found[c] THEN Restatus(q, "deleted") ELSE row'[q] = row[q]

Proposes(c, r) ==
  /\ Inserted(c, r, "pending_confirmation")
  /\ req[c].target = {}
  /\ \A q \in Rows \ {r} : row'[q] = row[q]

Decides(p, s) ==
  /\ Undecided(p)
  /\ Restatus(p, s)
  /\ \A q \in Rows \ {p} : row'[q] = row[q]

Change(c) ==
  \/ UNCHANGED row
  \/ \E r \in Rows : Supersedes(c, r)
  \/ Removes(c)
  \/ \E r \in Rows : Proposes(c, r)
  \/ \E p \in req[c].target, s \in {"confirmed", "rejected"} : Decides(p, s)

LEMMA RestatusFields ==
  ASSUME TypeOK, NEW q \in Rows, NEW s, row'[q] = [row[q] EXCEPT !.status = s]
  PROVE  Restatus(q, s)
  BY DEF TypeOK, RowRecord, Restatus

LEMMA SupersedingFields ==
  ASSUME TypeOK, FoundIsActive, NEW c \in Clients, pc[c] = "holding",
         NEW r \in Rows, NEW v, Fresh(r), req[c].target = {}, row' = Superseding(c, r, v)
  PROVE  Supersedes(c, r)
<1>1. Inserted(c, r, "active")
  BY DEF Superseding, NewRow, Inserted, Fresh
<1>2. ASSUME NEW q \in Rows \ {r}, q \in found[c] PROVE Restatus(q, "superseded")
  BY <1>2, RestatusFields DEF Superseding
<1>3. ASSUME NEW q \in Rows \ {r}, q \notin found[c] PROVE row'[q] = row[q]
  BY <1>3 DEF Superseding
<1> QED
  BY <1>1, <1>2, <1>3 DEF Supersedes

LEMMA AcceptingFields ==
  ASSUME TypeOK, FoundIsActive, NEW c \in Clients, pc[c] = "holding",
         NEW r \in Rows, NEW p \in Rows, Fresh(r), req[c].target = {p},
         Undecided(p), StillNamed(p),
         row' = [Superseding(c, r, row[p].value) EXCEPT ![p].status = "confirmed"]
  PROVE  Supersedes(c, r)
<1> DEFINE S == Superseding(c, r, row[p].value)
<1>1. p # r /\ p \notin found[c]
  BY DEF Undecided, Fresh, FoundIsActive, Active
<1>2. S[p] = row[p] /\ \A q \in Rows : q \notin found[c] \cup {r} => S[q] = row[q]
  BY <1>1 DEF Superseding
<1>3. \A q \in found[c] \ {r} : q \in Rows => S[q] = [row[q] EXCEPT !.status = "superseded"]
  BY DEF Superseding
<1>4. S[r] = NewRow(c, "active", row[p].value)
  BY DEF Superseding
<1>5. DOMAIN S = Rows
  BY DEF Superseding
<1> HIDE DEF S
<1>6. row' = [S EXCEPT ![p].status = "confirmed"]
  BY DEF S
<1>7. row'[p] = [S[p] EXCEPT !.status = "confirmed"] /\ \A q \in Rows \ {p} : row'[q] = S[q]
  BY <1>5, <1>6
<1>8. Inserted(c, r, "active")
  BY <1>1, <1>4, <1>7 DEF NewRow, Inserted, Fresh
<1>9. Restatus(p, "confirmed")
  BY <1>2, <1>7, RestatusFields
<1>10. ASSUME NEW q \in Rows \ {r}, q \in found[c] PROVE Restatus(q, "superseded")
  BY <1>1, <1>3, <1>7, <1>10, RestatusFields
<1>11. ASSUME NEW q \in Rows \ {r}, q \notin found[c] \cup {p} PROVE row'[q] = row[q]
  BY <1>2, <1>7, <1>11
<1> QED
  BY <1>8, <1>9, <1>10, <1>11 DEF Supersedes

LEMMA WriteChanges ==
  ASSUME TypeOK, Control, Pages, FoundIsActive, NEW c \in Clients, Write(c)
  PROVE  pc[c] = "holding" /\ Release(c) /\ Change(c)
<1>1. pc[c] = "holding" /\ Release(c)
  BY DEF Write, SetField, DeleteField, UpsertSparseFields, ApplyCandidate, ProposeCandidate,
         AcceptProposal, RejectProposal, Holds
<1>2. /\ req[c].kind \notin {"accept", "reject"} => req[c].target = {}
      /\ \A p, q \in req[c].target : p = q
      /\ req[c].target \subseteq Rows /\ found[c] \subseteq Rows
  <2>1. req[c].target \subseteq Rows /\ found[c] \subseteq Rows
    BY DEF TypeOK, Request
  <2> QED
    BY <1>1, <2>1 DEF Control, Pages
<1>3. CASE SetField(c) \/ UpsertSparseFields(c) \/ ApplyCandidate(c)
  <2>1. req[c].target = {}
    BY <1>2, <1>3 DEF SetField, UpsertSparseFields, ApplyCandidate, Holds
  <2>2. UNCHANGED row \/ \E r \in Rows : Fresh(r) /\ row' = Superseding(c, r, req[c].value)
    BY <1>3 DEF SetField, UpsertSparseFields, ApplyCandidate
  <2> QED
    BY <1>1, <2>1, <2>2, SupersedingFields DEF Change
<1>4. CASE DeleteField(c)
  <2>1. \A q \in Rows : row'[q] = IF q \in found[c] THEN [row[q] EXCEPT !.status = "deleted"] ELSE row[q]
    BY <1>4 DEF DeleteField
  <2>2. Removes(c)
    BY <2>1, RestatusFields DEF Removes
  <2> QED
    BY <1>1, <2>2 DEF Change
<1>5. CASE ProposeCandidate(c)
  <2>1. req[c].target = {}
    BY <1>2, <1>5 DEF ProposeCandidate, Holds
  <2>2. PICK r \in Rows :
          Fresh(r) /\ row' = [row EXCEPT ![r] = NewRow(c, "pending_confirmation", req[c].value)]
    BY <1>5 DEF ProposeCandidate
  <2>3. Proposes(c, r)
    BY <2>1, <2>2 DEF Proposes, Inserted, NewRow, Fresh, TypeOK
  <2> QED
    BY <1>1, <2>3 DEF Change
<1>6. ASSUME NEW p \in req[c].target, NEW s \in {"confirmed", "rejected"}, Undecided(p),
             row' = [row EXCEPT ![p].status = s]
      PROVE  Change(c)
  <2>1. row'[p] = [row[p] EXCEPT !.status = s] /\ \A q \in Rows \ {p} : row'[q] = row[q]
    BY <1>2, <1>6 DEF TypeOK
  <2>2. Decides(p, s)
    BY <1>2, <1>6, <2>1, RestatusFields DEF Decides
  <2> QED
    BY <2>2 DEF Change
<1>7. CASE AcceptProposal(c)
  <2>1. PICK p \in req[c].target :
          /\ Undecided(p) /\ StillNamed(p)
          /\ \/ row' = [row EXCEPT ![p].status = "confirmed"]
             \/ \E r \in Rows :
                  /\ Fresh(r)
                  /\ row' = [Superseding(c, r, row[p].value) EXCEPT ![p].status = "confirmed"]
    BY <1>7 DEF AcceptProposal
  <2>2. req[c].target = {p} /\ p \in Rows
    BY <1>2
  <2>3. CASE row' = [row EXCEPT ![p].status = "confirmed"]
    BY <1>1, <1>6, <2>1, <2>3
  <2>4. ASSUME NEW r \in Rows, Fresh(r),
               row' = [Superseding(c, r, row[p].value) EXCEPT ![p].status = "confirmed"]
        PROVE  Supersedes(c, r)
    BY <1>1, <2>1, <2>2, <2>4, AcceptingFields
  <2> QED
    BY <1>1, <2>1, <2>3, <2>4 DEF Change
<1>8. CASE RejectProposal(c)
  BY <1>1, <1>6, <1>8 DEF RejectProposal
<1> QED
  BY <1>3, <1>4, <1>5, <1>7, <1>8 DEF Write

-----------------------------------------------------------------------------
(* The rows after a write.                                                 *)

Rowwise == RowsWellFormed /\ OneActive /\ HistoryLinear /\ ProposalAppliedOnce
           /\ AcceptedOverReviewed

\* What the locked read found, and the request it is for.
Locked(c) ==
  /\ req[c].field \in Fields
  /\ found[c] = Active(req[c].field)
  /\ \A p, q \in found[c] : p = q
  /\ req[c].target \subseteq Rows
  /\ \A p, q \in req[c].target : p = q
  /\ \A p \in req[c].target : row[p].field = req[c].field

LEMMA HoldingIsLocked ==
  ASSUME IInv, NEW c \in Clients, pc[c] = "holding"
  PROVE  Locked(c)
<1>1. req[c].field \in Fields /\ found[c] = Active(req[c].field)
  BY DEF IInv, Control, FoundIsActive
<1>2. req[c].target \subseteq Rows
  BY DEF IInv, TypeOK, Request
<1>3. /\ req[c].target = {} \/ (req[c].target = seen[c].proposal /\ req[c].field = seen[c].field)
  BY DEF IInv, Control
<1> QED
  BY <1>1, <1>2, <1>3 DEF IInv, OneActive, Pages, Locked

LEMMA SupersedesRowwise ==
  ASSUME TypeOK, Rowwise, NEW c \in Clients, Locked(c), NEW r \in Rows, Supersedes(c, r)
  PROVE  Rowwise'
<1>1. /\ row[r] = Unused
      /\ \A q \in found[c] : q \in Rows /\ row[q].status = "active" /\ row[q].field = req[c].field
      /\ r \notin found[c] \cup req[c].target
      /\ found[c] \cap req[c].target = {}
  BY DEF Supersedes, Inserted, Undecided, Rowwise, RowsWellFormed, Locked, Active
<1>2. \A q \in Rows \ {r} :
        /\ row'[q].field = row[q].field
        /\ row'[q].supersedes = row[q].supersedes
        /\ row'[q].from = row[q].from
        /\ row'[q].status = IF q \in found[c] THEN "superseded"
                            ELSE IF q \in req[c].target THEN "confirmed"
                            ELSE row[q].status
  BY <1>1 DEF Supersedes, Restatus
<1>3. /\ row'[r].field = req[c].field
      /\ row'[r].supersedes = found[c]
      /\ row'[r].from = req[c].target
      /\ row'[r].status = "active"
  BY DEF Supersedes, Inserted
<1>4. \A q \in Rows : row[q].status # "none" \/ row[q] = Unused
  BY DEF Rowwise, RowsWellFormed
\* A row that is not used yet is named by no other.
<1>5. \A q \in Rows : r \notin row[q].supersedes /\ r \notin row[q].from
  BY <1>1 DEF Rowwise, RowsWellFormed, ProposalAppliedOnce, Unused, Held
<1>6. RowsWellFormed'
  <2>1. ASSUME NEW q \in Rows, row'[q].status = "none" PROVE row'[q] = Unused
    <3>1. q # r /\ q \notin found[c] \cup req[c].target
      BY <1>2, <1>3, <2>1
    <3> QED
      BY <1>4, <2>1, <3>1 DEF Supersedes
  <2>2. ASSUME NEW q \in Rows, row'[q].status # "none" PROVE row'[q].field \in Fields
    BY <1>1, <1>2, <1>3, <2>2 DEF Locked, Undecided, Supersedes, Rowwise, RowsWellFormed
  <2>3. ASSUME NEW q \in Rows
        PROVE  /\ \A a, b \in row'[q].supersedes : a = b
               /\ \A a \in row'[q].supersedes :
                    row'[a].field = row'[q].field /\ row'[a].status \in Held
    <3>1. CASE q = r
      BY <1>1, <1>2, <1>3, <3>1 DEF Locked, Held
    <3>2. CASE q # r
      <4>1. \A a \in row[q].supersedes : a \in Rows \ {r} /\ row[a].field = row[q].field
                                         /\ row[a].status \in Held
        BY <1>5 DEF Rowwise, RowsWellFormed, TypeOK, RowRecord
      <4>2. \A a \in row[q].supersedes : a \notin req[c].target
        BY <4>1 DEF Supersedes, Undecided, Held
      <4> QED
        BY <1>2, <3>2, <4>1, <4>2 DEF Rowwise, RowsWellFormed, Held
    <3> QED
      BY <3>1, <3>2
  <2> QED
    BY <2>1, <2>2, <2>3 DEF RowsWellFormed, Unused
<1>7. OneActive'
  BY <1>2, <1>3 DEF OneActive, Active, Locked, Rowwise
<1>8. HistoryLinear'
  <2>1. \A q \in Rows \ {r} : row'[q].status \in Held <=> row[q].status \in Held
    BY <1>1, <1>2 DEF Held, Supersedes, Undecided
  <2>2. row'[r].status \in Held
    BY <1>3 DEF Held
  <2>3. ASSUME NEW p \in Rows
        PROVE  LET successors == {q \in Rows : row[q].status \in Held /\ p \in row[q].supersedes}
                   after == {q \in Rows : row'[q].status \in Held /\ p \in row'[q].supersedes}
               IN after = IF p \in found[c] THEN successors \cup {r} ELSE successors
    BY <1>1, <1>2, <1>3, <2>1, <2>2 DEF Unused, Held
  <2>4. ASSUME NEW p \in Rows
        PROVE  row'[p].status = "superseded" <=> p \in found[c] \/ row[p].status = "superseded"
    BY <1>1, <1>2, <1>3 DEF Unused, Supersedes, Undecided
  <2>5. ASSUME NEW p \in found[c]
        PROVE  {q \in Rows : row[q].status \in Held /\ p \in row[q].supersedes} = {}
    BY <1>1 DEF Rowwise, HistoryLinear
  <2> QED
    BY <1>1, <2>3, <2>4, <2>5 DEF Rowwise, HistoryLinear
<1>9. ProposalAppliedOnce'
  <2>1. ASSUME NEW p \in req[c].target PROVE \A q \in Rows : p \notin row[q].from
    BY <2>1 DEF Supersedes, Undecided, Rowwise, ProposalAppliedOnce, Locked
  <2>2. ASSUME NEW p \in Rows, row[p].status = "confirmed" PROVE row'[p].status = "confirmed"
    BY <1>1, <1>2, <2>2 DEF Unused
  <2>3. \A p \in req[c].target : row'[p].status = "confirmed"
    BY <1>1, <1>2 DEF Locked
  <2>4. \A q \in Rows : row'[q].from = IF q = r THEN req[c].target ELSE row[q].from
    BY <1>2, <1>3
  <2> QED
    BY <1>1, <2>1, <2>2, <2>3, <2>4 DEF Rowwise, ProposalAppliedOnce, Unused
<1>10. AcceptedOverReviewed'
  <2>1. ASSUME NEW p \in req[c].target, row[p].supersedes # {}
        PROVE  row[p].supersedes = found[c]
    <3>1. PICK a \in row[p].supersedes : TRUE
      BY <2>1
    <3>2. a \in Rows /\ row[a].field = req[c].field /\ row[a].status = "active"
      BY <3>1, <2>1 DEF Supersedes, StillNamed, Rowwise, RowsWellFormed, Locked, TypeOK, RowRecord
    <3>3. a \in found[c]
      BY <3>2 DEF Locked, Active
    <3>4. row[p].supersedes = {a}
      BY <2>1, <3>1 DEF Rowwise, RowsWellFormed, Locked
    <3> QED
      BY <3>3, <3>4 DEF Locked
  <2>2. ASSUME NEW q \in Rows, q # r, NEW p \in row[q].from
        PROVE  p \in Rows \ {r}
    BY <1>5, <2>2 DEF TypeOK, RowRecord
  <2> QED
    BY <1>1, <1>2, <1>3, <2>1, <2>2 DEF Rowwise, AcceptedOverReviewed, Locked
<1> QED
  BY <1>6, <1>7, <1>8, <1>9, <1>10 DEF Rowwise

LEMMA RemovesRowwise ==
  ASSUME TypeOK, Rowwise, NEW c \in Clients, Locked(c), Removes(c)
  PROVE  Rowwise'
<1>1. \A q \in found[c] : q \in Rows /\ row[q].status = "active"
  BY DEF Locked, Active
<1>2. \A q \in Rows :
        /\ row'[q].field = row[q].field
        /\ row'[q].supersedes = row[q].supersedes
        /\ row'[q].from = row[q].from
        /\ row'[q].status = IF q \in found[c] THEN "deleted" ELSE row[q].status
  BY DEF Removes, Restatus
<1>3. \A q \in Rows : row[q].supersedes \subseteq Rows /\ row[q].from \subseteq Rows
  BY DEF TypeOK, RowRecord
<1>4. \A q \in Rows : /\ row'[q].status \in Held <=> row[q].status \in Held
                      /\ row'[q].status = "superseded" <=> row[q].status = "superseded"
                      /\ row[q].status = "confirmed" => row'[q].status = "confirmed"
  BY <1>1, <1>2 DEF Held
<1>5. RowsWellFormed'
  <2>1. ASSUME NEW q \in Rows, row'[q].status = "none" PROVE row'[q] = Unused
    BY <1>2, <2>1 DEF Removes, Rowwise, RowsWellFormed
  <2>2. \A q \in Rows :
          /\ row'[q].status # "none" => row'[q].field \in Fields
          /\ \A a, b \in row'[q].supersedes : a = b
    BY <1>1, <1>2 DEF Rowwise, RowsWellFormed
  <2>3. \A q \in Rows : \A a \in row'[q].supersedes :
          row'[a].field = row'[q].field /\ row'[a].status \in Held
    BY <1>2, <1>3, <1>4 DEF Rowwise, RowsWellFormed
  <2> QED
    BY <2>1, <2>2, <2>3 DEF RowsWellFormed
<1>6. OneActive'
  BY <1>2 DEF OneActive, Active, Rowwise
<1>7. HistoryLinear' /\ ProposalAppliedOnce' /\ AcceptedOverReviewed'
  BY <1>2, <1>3, <1>4 DEF Rowwise, HistoryLinear, ProposalAppliedOnce, AcceptedOverReviewed
<1> QED
  BY <1>5, <1>6, <1>7 DEF Rowwise

LEMMA ProposesRowwise ==
  ASSUME TypeOK, Rowwise, NEW c \in Clients, Locked(c), NEW r \in Rows, Proposes(c, r)
  PROVE  Rowwise'
<1>1. row[r] = Unused /\ \A q \in found[c] : q \in Rows \ {r} /\ row[q].status = "active"
                                           /\ row[q].field = req[c].field
  BY DEF Proposes, Inserted, Rowwise, RowsWellFormed, Locked, Active
<1>2. /\ row'[r].field = req[c].field /\ row'[r].supersedes = found[c]
      /\ row'[r].from = {} /\ row'[r].status = "pending_confirmation"
      /\ \A q \in Rows \ {r} : row'[q] = row[q]
  BY DEF Proposes, Inserted
<1>3. \A q \in Rows : /\ row[q].supersedes \subseteq Rows /\ row[q].from \subseteq Rows
                      /\ r \notin row[q].supersedes /\ r \notin row[q].from
  BY <1>1 DEF TypeOK, RowRecord, Rowwise, RowsWellFormed, ProposalAppliedOnce, Unused, Held
<1>4. RowsWellFormed'
  <2>1. ASSUME NEW q \in Rows \ {r}, NEW a \in row'[q].supersedes
        PROVE  row'[a].field = row'[q].field /\ row'[a].status \in Held
    BY <1>2, <1>3, <2>1 DEF Rowwise, RowsWellFormed
  <2>2. ASSUME NEW a \in row'[r].supersedes
        PROVE  row'[a].field = row'[r].field /\ row'[a].status \in Held
    BY <1>1, <1>2, <2>2 DEF Held
  <2>3. \A q \in Rows : \A a, b \in row'[q].supersedes : a = b
    BY <1>2 DEF Rowwise, RowsWellFormed, Locked
  <2>4. ASSUME NEW q \in Rows
        PROVE  /\ row'[q].status = "none" => row'[q] = Unused
               /\ row'[q].status # "none" => row'[q].field \in Fields
    BY <1>2 DEF Rowwise, RowsWellFormed, Locked
  <2> QED
    BY <2>1, <2>2, <2>3, <2>4 DEF RowsWellFormed, Unused
<1>5. OneActive'
  BY <1>2 DEF OneActive, Active, Rowwise
<1>6. HistoryLinear'
  <2>1. ASSUME NEW p \in Rows
        PROVE  {q \in Rows : row'[q].status \in Held /\ p \in row'[q].supersedes}
                 = {q \in Rows : row[q].status \in Held /\ p \in row[q].supersedes}
    BY <1>1, <1>2 DEF Unused, Held
  <2>2. \A p \in Rows : row'[p].status = "superseded" <=> row[p].status = "superseded"
    BY <1>1, <1>2 DEF Unused
  <2> QED
    BY <2>1, <2>2 DEF Rowwise, HistoryLinear
<1>7. ProposalAppliedOnce'
  BY <1>1, <1>2, <1>3 DEF Rowwise, ProposalAppliedOnce
<1>8. AcceptedOverReviewed'
  BY <1>2, <1>3 DEF Rowwise, AcceptedOverReviewed
<1> QED
  BY <1>4, <1>5, <1>6, <1>7, <1>8 DEF Rowwise

LEMMA DecidesRowwise ==
  ASSUME TypeOK, Rowwise, NEW p \in Rows, NEW s \in {"confirmed", "rejected"}, Decides(p, s)
  PROVE  Rowwise'
<1>1. \A q \in Rows :
        /\ row'[q].field = row[q].field
        /\ row'[q].supersedes = row[q].supersedes
        /\ row'[q].from = row[q].from
        /\ row'[q].status = IF q = p THEN s ELSE row[q].status
  BY DEF Decides, Restatus
<1>2. \A q \in Rows : row[q].supersedes \subseteq Rows /\ row[q].from \subseteq Rows
  BY DEF TypeOK, RowRecord
<1>3. \A q \in Rows : /\ row'[q].status \in Held <=> row[q].status \in Held
                      /\ row'[q].status = "superseded" <=> row[q].status = "superseded"
                      /\ row[q].status = "confirmed" => row'[q].status = "confirmed"
  BY <1>1 DEF Held, Decides, Undecided
<1>4. RowsWellFormed'
  <2>1. ASSUME NEW q \in Rows, row'[q].status = "none" PROVE row'[q] = Unused
    BY <1>1, <2>1 DEF Decides, Rowwise, RowsWellFormed
  <2>2. ASSUME NEW q \in Rows, row'[q].status # "none" PROVE row'[q].field \in Fields
    BY <1>1, <2>2 DEF Decides, Undecided, Rowwise, RowsWellFormed
  <2>3. \A q \in Rows : \A a, b \in row'[q].supersedes : a = b
    BY <1>1 DEF Rowwise, RowsWellFormed
  <2>4. \A q \in Rows : \A a \in row'[q].supersedes :
          row'[a].field = row'[q].field /\ row'[a].status \in Held
    BY <1>1, <1>2, <1>3 DEF Rowwise, RowsWellFormed
  <2> QED
    BY <2>1, <2>2, <2>3, <2>4 DEF RowsWellFormed
<1>5. OneActive'
  BY <1>1 DEF OneActive, Active, Rowwise
<1>6. HistoryLinear' /\ ProposalAppliedOnce' /\ AcceptedOverReviewed'
  BY <1>1, <1>2, <1>3 DEF Rowwise, HistoryLinear, ProposalAppliedOnce, AcceptedOverReviewed
<1> QED
  BY <1>4, <1>5, <1>6 DEF Rowwise

LEMMA ChangeRowwise ==
  ASSUME IInv, NEW c \in Clients, Write(c)
  PROVE  Rowwise'
<1>1. pc[c] = "holding" /\ Change(c)
  BY WriteChanges DEF IInv
<1>2. Rowwise /\ TypeOK /\ Locked(c)
  BY <1>1, HoldingIsLocked DEF IInv, Rowwise
<1>3. CASE UNCHANGED row
  <2>1. RowsWellFormed'
    BY <1>2, <1>3 DEF Rowwise, RowsWellFormed
  <2>2. OneActive'
    BY <1>2, <1>3 DEF Rowwise, OneActive, Active
  <2>3. HistoryLinear'
    BY <1>2, <1>3 DEF Rowwise, HistoryLinear
  <2>4. ProposalAppliedOnce' /\ AcceptedOverReviewed'
    BY <1>2, <1>3 DEF Rowwise, ProposalAppliedOnce, AcceptedOverReviewed
  <2> QED
    BY <2>1, <2>2, <2>3, <2>4 DEF Rowwise
<1> QED
  BY <1>1, <1>2, <1>3, SupersedesRowwise, RemovesRowwise, ProposesRowwise, DecidesRowwise
  DEF Change, Locked

\* A row in use keeps its field, a decided row its status, and a proposal stays
\* one until it is decided.
LEMMA ChangeKeeps ==
  ASSUME IInv, NEW c \in Clients, Write(c), NEW q \in Rows
  PROVE  /\ row[q].status # "none" => row'[q].field = row[q].field
         /\ row[q].status \in Final => row'[q].status = row[q].status
         /\ row[q].status = "pending_confirmation" =>
              row'[q].status \in {"pending_confirmation", "confirmed", "rejected"}
<1>1. Change(c) /\ Locked(c)
  BY WriteChanges, HoldingIsLocked DEF IInv
<1>2. q \in found[c] => row[q].status = "active"
  BY <1>1 DEF Locked, Active
<1>3. CASE UNCHANGED row
  BY <1>3
<1>4. ASSUME NEW r \in Rows, Supersedes(c, r)
      PROVE  /\ row[q].status # "none" => row'[q].field = row[q].field
             /\ row[q].status \in Final => row'[q].status = row[q].status
             /\ row[q].status = "pending_confirmation" =>
                  row'[q].status \in {"pending_confirmation", "confirmed"}
  BY <1>2, <1>4 DEF Supersedes, Inserted, Restatus, Undecided, Final
<1>5. CASE Removes(c)
  BY <1>2, <1>5 DEF Removes, Restatus, Final
<1>6. ASSUME NEW r \in Rows, Proposes(c, r)
      PROVE  row[q].status # "none" => row'[q] = row[q]
  BY <1>6 DEF Proposes, Inserted
<1>7. ASSUME NEW p \in req[c].target, NEW s \in {"confirmed", "rejected"}, Decides(p, s)
      PROVE  /\ row[q].status # "none" => row'[q].field = row[q].field
             /\ row[q].status \in Final => row'[q].status = row[q].status
             /\ row[q].status = "pending_confirmation" =>
                  row'[q].status \in {"pending_confirmation", "confirmed", "rejected"}
  BY <1>7 DEF Decides, Restatus, Undecided, Final
<1>8. row[q].status \in Final => row[q].status # "none"
  BY DEF Final
<1> QED
  BY <1>1, <1>3, <1>4, <1>5, <1>6, <1>7, <1>8 DEF Change

\* The next state, for a client that is not c.
Others(c) == \A d \in Clients \ {c} : /\ pc'[d] = pc[d] /\ seen'[d] = seen[d]
                                     /\ req'[d] = req[d] /\ found'[d] = found[d]

LEMMA ReleaseOthers ==
  ASSUME TypeOK, NEW c \in Clients, Release(c)
  PROVE  Others(c) /\ pc'[c] = "idle" /\ seen'[c] = NoView
  BY DEF TypeOK, Release, Others

LEMMA NextPages ==
  ASSUME IInv, [Next]_vars
  PROVE  Pages'
<1>1. NoView.proposal = {}
  BY DEF NoView
<1>2. \A c \in Clients : seen[c].proposal \subseteq Rows
  BY DEF IInv, TypeOK, View
<1>3. ASSUME NEW c \in Clients, Look(c) PROVE Pages'
  <2>1. UNCHANGED row /\ \A d \in Clients \ {c} : seen'[d] = seen[d]
    BY <1>3 DEF Look, OpenView, ShowView, CloseView, store, IInv, TypeOK
  <2>2. ASSUME NEW f \in Fields, OpenView(c, f) PROVE seen'[c].proposal = {}
    BY <2>2 DEF OpenView, NoView, IInv, TypeOK
  <2>3. CASE CloseView(c)
    BY <2>1, <2>3, <1>1, <1>2 DEF CloseView, IInv, TypeOK, Pages
  <2>4. CASE ShowView(c)
    <3>1. PICK P \in {{p} : p \in Pending(seen[c].field)} \cup {{}} :
            seen' = [seen EXCEPT ![c] = [seen[c] EXCEPT !.active = Active(seen[c].field),
                                                        !.proposal = P]]
      BY <2>4 DEF ShowView, IInv, TypeOK
    <3>2. seen'[c].proposal = P /\ seen'[c].field = seen[c].field
      BY <3>1 DEF IInv, TypeOK, View
    <3>3. P \subseteq Pending(seen[c].field) /\ \A p, q \in P : p = q
      OBVIOUS
    <3> QED
      BY <2>1, <3>2, <3>3 DEF Pending, Pages, IInv
  <2> QED
    BY <1>3, <2>1, <2>2, <2>3, <2>4 DEF Look, Pages, IInv
<1>4. ASSUME NEW c \in Clients, Start(c) PROVE Pages'
  <2>1. UNCHANGED <<row, seen>>
    BY <1>4 DEF Start, AskEdit, AskResolve, AskOnboarding, EvaluateCandidate, ReconcileFact,
           ConfirmFact, Ask, store
  <2> QED
    BY <2>1 DEF Pages, IInv
<1>5. ASSUME NEW c \in Clients, LockPerson(c) PROVE Pages'
  BY <1>5 DEF LockPerson, store, Pages, IInv
<1>6. ASSUME NEW c \in Clients, Write(c) PROVE Pages'
  <2>1. Others(c) /\ seen'[c] = NoView
    BY <1>6, WriteChanges, ReleaseOthers DEF IInv
  <2>2. ASSUME NEW d \in Clients \ {c}, NEW p \in seen[d].proposal
        PROVE  /\ row'[p].field = seen[d].field
               /\ row'[p].status \in {"pending_confirmation", "confirmed", "rejected"}
    <3>1. p \in Rows /\ row[p].field = seen[d].field
          /\ row[p].status \in {"pending_confirmation", "confirmed", "rejected"}
      BY <1>2 DEF IInv, Pages
    <3> QED
      BY <1>6, <3>1, ChangeKeeps DEF Final
  <2> QED
    BY <1>1, <2>1, <2>2 DEF Others, Pages, IInv
<1>7. ASSUME NEW c \in Clients, Rollback(c) PROVE Pages'
  <2>1. Others(c) /\ seen'[c] = NoView /\ UNCHANGED row
    BY <1>7, ReleaseOthers DEF Rollback, store, IInv
  <2> QED
    BY <1>1, <2>1 DEF Others, Pages, IInv
<1>8. CASE UNCHANGED vars
  BY <1>8 DEF vars, store, client, Pages, IInv
<1> QED
  BY <1>3, <1>4, <1>5, <1>6, <1>7, <1>8 DEF Next

\* The one write that changes what is active without a new version marks it.
LEMMA SameVersionActive ==
  ASSUME IInv, NEW c \in Clients, Write(c), version' = version, NEW f \in Fields \cup {None}
  PROVE  \/ Active(f)' = Active(f) /\ \A r \in Active(f) : row'[r].source = row[r].source
         \/ \E r \in Active(f)' : row'[r].source = "onboarding"
<1>1. pc[c] = "holding" /\ Locked(c)
  BY WriteChanges, HoldingIsLocked DEF IInv
<1>2. UpsertSparseFields(c) \/ RejectProposal(c)
  BY DEF Write, SetField, DeleteField, ApplyCandidate, ProposeCandidate, AcceptProposal,
         IInv, TypeOK
<1>3. CASE UpsertSparseFields(c)
  <2>1. PICK r \in Rows : Fresh(r) /\ row' = Superseding(c, r, req[c].value)
    BY <1>3 DEF UpsertSparseFields
  <2>2. req[c].target = {} /\ req[c].source = "onboarding"
    BY <1>1, <1>3 DEF UpsertSparseFields, Holds, IInv, Control
  <2>3. Supersedes(c, r)
    BY <1>1, <2>1, <2>2, SupersedingFields DEF IInv
  <2>4. CASE f = req[c].field
    <3>1. r \in Active(f)' /\ row'[r].source = "onboarding"
      BY <2>2, <2>3, <2>4 DEF Supersedes, Inserted, Active
    <3> QED
      BY <3>1
  <2>5. CASE f # req[c].field
    <3>1. r \notin Active(f) /\ r \notin Active(f)'
      BY <2>3, <2>5 DEF Supersedes, Inserted, Active
    <3>2. \A q \in found[c] : q \in Rows /\ row[q].field # f
      BY <1>1, <2>5 DEF Locked, Active
    <3>3. \A q \in Rows \ {r} :
            IF q \in found[c] THEN row[q].field # f /\ row'[q].field # f ELSE row'[q] = row[q]
      BY <2>2, <2>3, <3>2 DEF Supersedes, Restatus
    <3> QED
      BY <3>1, <3>3 DEF Active
  <2> QED
    BY <2>4, <2>5
<1>4. CASE RejectProposal(c)
  <2>1. PICK p \in req[c].target : Undecided(p) /\ row' = [row EXCEPT ![p].status = "rejected"]
    BY <1>4 DEF RejectProposal
  <2>2. p \in Rows /\ row[p].status # "active"
    BY <1>1, <2>1 DEF Locked, Undecided
  <2>3. \A q \in Rows \ {p} : row'[q] = row[q]
    BY <2>1 DEF IInv, TypeOK
  <2>4. row'[p] = [row[p] EXCEPT !.status = "rejected"]
    BY <2>1, <2>2 DEF IInv, TypeOK
  <2>5. row'[p].status = "rejected"
    BY <2>2, <2>4, RestatusFields DEF IInv, Restatus
  <2> QED
    BY <2>2, <2>3, <2>5 DEF Active
<1> QED
  BY <1>2, <1>3, <1>4

LEMMA NextVersions ==
  ASSUME IInv, [Next]_vars
  PROVE  Versions'
<1>1. /\ version \in Nat /\ version >= 1 /\ NoView.version = 0
      /\ \A d \in Clients : seen[d].version \in Nat /\ seen[d].field \in Fields \cup {None}
  BY DEF IInv, TypeOK, Control, NoView, View
<1>2. ASSUME NEW c \in Clients, Look(c) PROVE Versions'
  <2>1. UNCHANGED store /\ \A d \in Clients \ {c} : seen'[d] = seen[d] /\ pc'[d] = pc[d]
    BY <1>2 DEF Look, OpenView, ShowView, CloseView, IInv, TypeOK
  <2>2. \/ pc'[c] = "opening" /\ seen'[c].version = version
        \/ seen'[c].version <= version /\ seen'[c].active = Active(seen'[c].field)
        \/ seen'[c] = NoView
    <3>1. ASSUME NEW f \in Fields, OpenView(c, f)
          PROVE  pc'[c] = "opening" /\ seen'[c].version = version
      BY <3>1 DEF OpenView, NoView, IInv, TypeOK
    <3>2. CASE ShowView(c)
      BY <3>2 DEF ShowView, IInv, TypeOK, View, Versions
    <3>3. CASE CloseView(c)
      BY <3>3 DEF CloseView, IInv, TypeOK
    <3> QED
      BY <1>2, <3>1, <3>2, <3>3 DEF Look
  <2> QED
    BY <1>1, <2>1, <2>2 DEF store, Versions, IInv, Active
<1>3. ASSUME NEW c \in Clients, Start(c) \/ LockPerson(c) PROVE Versions'
  <2>1. UNCHANGED <<store, seen>>
    BY <1>3 DEF Start, AskEdit, AskResolve, AskOnboarding, EvaluateCandidate, ReconcileFact,
           ConfirmFact, Ask, LockPerson
  <2>2. \A d \in Clients : pc'[d] # "opening" => pc[d] # "opening"
    <3>1. pc[c] # "opening" /\ \A d \in Clients \ {c} : pc'[d] = pc[d]
      BY <1>3, StartSends DEF Ask, LockPerson, IInv, TypeOK
    <3> QED
      BY <3>1
  <2> QED
    BY <2>1, <2>2 DEF store, Versions, IInv, Active
<1>4. ASSUME NEW c \in Clients, Write(c) PROVE Versions'
  <2>1. Others(c) /\ seen'[c] = NoView
    BY <1>4, WriteChanges, ReleaseOthers DEF IInv
  <2>2. version' \in {version, version + 1}
    BY <1>4 DEF Write, SetField, DeleteField, UpsertSparseFields, ApplyCandidate,
           ProposeCandidate, AcceptProposal, RejectProposal
  <2>3. ASSUME NEW d \in Clients \ {c}, pc[d] # "opening", seen[d].version = version'
        PROVE  \/ Active(seen[d].field)' = seen[d].active
               \/ \E r \in Active(seen[d].field)' : row'[r].source = "onboarding"
    <3>1. version' = version /\ seen[d].field \in Fields \cup {None}
      BY <1>1, <2>2, <2>3 DEF IInv, Versions
    <3>2. \/ Active(seen[d].field) = seen[d].active
          \/ \E r \in Active(seen[d].field) : row[r].source = "onboarding"
      BY <2>3, <3>1 DEF IInv, Versions
    <3> DEFINE f == seen[d].field
    <3>3. \/ Active(f)' = Active(f) /\ \A r \in Active(f) : row'[r].source = row[r].source
          \/ \E r \in Active(f)' : row'[r].source = "onboarding"
      <4>1. f' = f
        BY <2>1 DEF Others
      <4> QED
        BY <1>4, <3>1, <4>1, SameVersionActive DEF Active
    <3> QED
      BY <2>1, <3>2, <3>3 DEF Others
  <2> QED
    BY <1>1, <2>1, <2>2, <2>3 DEF Others, Versions, IInv
<1>5. ASSUME NEW c \in Clients, Rollback(c) PROVE Versions'
  <2>1. Others(c) /\ seen'[c] = NoView /\ UNCHANGED store
    BY <1>5, ReleaseOthers DEF Rollback, IInv
  <2> QED
    BY <1>1, <2>1 DEF Others, store, Versions, IInv, Active
<1>6. CASE UNCHANGED vars
  BY <1>6 DEF vars, store, client, Versions, IInv, Active
<1> QED
  BY <1>2, <1>3, <1>4, <1>5, <1>6 DEF Next

LEMMA NextFound ==
  ASSUME IInv, [Next]_vars
  PROVE  FoundIsActive'
<1>1. \A c, d \in Clients : pc[c] = "holding" /\ pc[d] = "holding" => c = d
  BY DEF IInv, Control
<1>2. ASSUME NEW c \in Clients, Look(c) \/ Start(c) PROVE FoundIsActive'
  <2>1. UNCHANGED <<row, found>>
    BY <1>2 DEF Look, OpenView, ShowView, CloseView, Start, AskEdit, AskResolve, AskOnboarding,
           EvaluateCandidate, ReconcileFact, ConfirmFact, Ask, store
  <2>2. \A d \in Clients : pc'[d] = "holding" => pc[d] = "holding" /\ req'[d] = req[d]
    <3>1. pc'[c] # "holding"
      BY <1>2 DEF Look, OpenView, ShowView, CloseView, Start, AskEdit, AskResolve, AskOnboarding,
             EvaluateCandidate, ReconcileFact, ConfirmFact, Ask, IInv, TypeOK
    <3>2. \A d \in Clients \ {c} : pc'[d] = pc[d] /\ req'[d] = req[d]
      BY <1>2 DEF Look, OpenView, ShowView, CloseView, Start, AskEdit, AskResolve, AskOnboarding,
             EvaluateCandidate, ReconcileFact, ConfirmFact, Ask, IInv, TypeOK
    <3> QED
      BY <3>1, <3>2
  <2> QED
    BY <2>1, <2>2 DEF FoundIsActive, IInv, Active
<1>3. ASSUME NEW c \in Clients, LockPerson(c) PROVE FoundIsActive'
  <2>1. \A d \in Clients \ {c} : pc'[d] # "holding"
    BY <1>3, NoneIsNone DEF LockPerson, IInv, Control, TypeOK
  <2>2. found'[c] = Active(req[c].field) /\ UNCHANGED <<row, req>>
    BY <1>3 DEF LockPerson, store, IInv, TypeOK
  <2> QED
    BY <2>1, <2>2 DEF FoundIsActive, Active
<1>4. ASSUME NEW c \in Clients, Write(c) \/ Rollback(c) PROVE FoundIsActive'
  <2>1. pc[c] = "holding" /\ Release(c)
    BY <1>4, WriteChanges DEF Rollback, IInv
  <2>2. \A d \in Clients : pc'[d] # "holding"
    BY <1>1, <2>1, ReleaseOthers DEF Others, IInv
  <2> QED
    BY <2>2 DEF FoundIsActive
<1>5. CASE UNCHANGED vars
  BY <1>5 DEF vars, store, client, FoundIsActive, IInv, Active
<1> QED
  BY <1>2, <1>3, <1>4, <1>5 DEF Next

LEMMA NextRowwise ==
  ASSUME IInv, [Next]_vars
  PROVE  Rowwise'
<1>1. ASSUME NEW c \in Clients, Write(c) PROVE Rowwise'
  BY <1>1, ChangeRowwise
<1>2. ASSUME UNCHANGED row PROVE Rowwise'
  <2>1. RowsWellFormed'
    BY <1>2 DEF IInv, RowsWellFormed
  <2>2. OneActive'
    BY <1>2 DEF IInv, OneActive, Active
  <2>3. HistoryLinear'
    BY <1>2 DEF IInv, HistoryLinear
  <2>4. ProposalAppliedOnce' /\ AcceptedOverReviewed'
    BY <1>2 DEF IInv, ProposalAppliedOnce, AcceptedOverReviewed
  <2> QED
    BY <2>1, <2>2, <2>3, <2>4 DEF Rowwise
<1>3. ASSUME NEW c \in Clients, Look(c) \/ Start(c) \/ LockPerson(c) \/ Rollback(c)
      PROVE  UNCHANGED row
  BY <1>3 DEF Look, OpenView, ShowView, CloseView, Start, AskEdit, AskResolve, AskOnboarding,
         EvaluateCandidate, ReconcileFact, ConfirmFact, Ask, LockPerson, Rollback, store
<1>4. CASE UNCHANGED vars
  BY <1>2, <1>4 DEF vars, store
<1> QED
  BY <1>1, <1>2, <1>3, <1>4 DEF Next

LEMMA InitIInv == Init => IInv
<1> SUFFICES ASSUME Init PROVE IInv
  OBVIOUS
<1>1. Unused \in RowRecord /\ NoView \in View /\ NoRequest \in Request
  BY DEF Unused, RowRecord, NoView, View, NoRequest, Request, Statuses
<1>2. TypeOK
  BY <1>1 DEF Init, TypeOK
<1>3. \A r \in Rows : row[r].status = "none" /\ row[r] = Unused /\ row[r].supersedes = {}
                      /\ row[r].from = {}
  BY DEF Init, Unused
<1>4. \A c \in Clients : /\ pc[c] = "idle" /\ seen[c] = NoView /\ seen[c].proposal = {}
                         /\ seen[c].version = 0
  BY DEF Init, NoView
<1>5. Control /\ Pages /\ FoundIsActive
  BY <1>4, NoneIsNone DEF Init, Control, Pages, FoundIsActive
<1>6. Versions
  <2>1. version = 1
    BY DEF Init
  <2>2. ASSUME NEW c \in Clients
        PROVE  seen[c].version <= version /\ seen[c].version # version
    <3>1. seen[c].version = 0
      BY <1>4
    <3> QED
      BY <2>1, <3>1
  <2> QED
    BY <2>2 DEF Versions
<1>7. RowsWellFormed /\ OneActive
  BY <1>3 DEF RowsWellFormed, OneActive, Active
<1>8. HistoryLinear /\ ProposalAppliedOnce /\ AcceptedOverReviewed
  BY <1>3 DEF HistoryLinear, ProposalAppliedOnce, AcceptedOverReviewed
<1> QED
  BY <1>2, <1>5, <1>6, <1>7, <1>8 DEF IInv

LEMMA NextIInv == IInv /\ [Next]_vars => IInv'
<1> SUFFICES ASSUME IInv, [Next]_vars PROVE IInv'
  OBVIOUS
<1>1. TypeOK' /\ Control'
  BY NextType, NextControl DEF IInv
<1> QED
  BY <1>1, NextPages, NextVersions, NextFound, NextRowwise DEF IInv, Rowwise

-----------------------------------------------------------------------------
(* The theorems.                                                           *)

\* The inductive invariant holds of every behaviour.
THEOREM Invariance == Spec => []IInv
  BY InitIInv, NextIInv, PTL DEF Spec

\* Every variable keeps its type.
THEOREM TypeCorrect == Spec => []TypeOK
<1>1. IInv => TypeOK
  BY DEF IInv
<1> QED
  BY <1>1, Invariance, PTL

\* However many requests and workers write, a field has one active value, and
\* its history is a chain in which a proposal supersedes nothing.
THEOREM OneTruth == Spec => [](OneActive /\ HistoryLinear)
<1>1. IInv => OneActive /\ HistoryLinear
  BY DEF IInv
<1> QED
  BY <1>1, Invariance, PTL

\* A proposal takes effect at most once, however many requests accept it.
THEOREM ProposalsOnce == Spec => []ProposalAppliedOnce
<1>1. IInv => ProposalAppliedOnce
  BY DEF IInv
<1> QED
  BY <1>1, Invariance, PTL

\* An accepted proposal took the place of the value it named when it was
\* reviewed.
THEOREM ProposalsAsReviewed == Spec => []AcceptedOverReviewed
<1>1. IInv => AcceptedOverReviewed
  BY DEF IInv
<1> QED
  BY <1>1, Invariance, PTL

\* A decided row keeps its status.
THEOREM DecisionsStay == Spec => DecisionsFinal
<1>1. ASSUME IInv, [Next]_vars
      PROVE  \A r \in Rows : row[r].status \in Final => row'[r].status = row[r].status
  <2>1. ASSUME NEW c \in Clients, Write(c)
        PROVE  \A r \in Rows : row[r].status \in Final => row'[r].status = row[r].status
    BY <1>1, <2>1, ChangeKeeps
  <2>2. ASSUME NEW c \in Clients, Look(c) \/ Start(c) \/ LockPerson(c) \/ Rollback(c)
        PROVE  UNCHANGED row
    BY <2>2 DEF Look, OpenView, ShowView, CloseView, Start, AskEdit, AskResolve, AskOnboarding,
           EvaluateCandidate, ReconcileFact, ConfirmFact, Ask, LockPerson, Rollback, store
  <2>3. CASE UNCHANGED vars
    BY <2>3 DEF vars, store
  <2> QED
    BY <1>1, <2>1, <2>2, <2>3 DEF Next
<1> QED
  BY <1>1, Invariance, PTL DEF Spec, DecisionsFinal

\* No versioned request replaces a value that its page did not show, onboarding
\* values excepted.
THEOREM EditsAreSeen == Spec => NoLostEdit
<1>1. ASSUME IInv, [Next]_vars, NEW c \in Clients, pc[c] = "holding", req[c].versioned,
             req[c].kind # "reject", row' # row
      PROVE  PageIsCurrent(c)
  <2>1. PICK d \in Clients : Write(d)
    <3>1. ASSUME NEW d \in Clients, Look(d) \/ Start(d) \/ LockPerson(d) \/ Rollback(d)
          PROVE  UNCHANGED row
      BY <3>1 DEF Look, OpenView, ShowView, CloseView, Start, AskEdit, AskResolve, AskOnboarding,
             EvaluateCandidate, ReconcileFact, ConfirmFact, Ask, LockPerson, Rollback, store
    <3>2. CASE UNCHANGED vars
      BY <1>1, <3>2 DEF vars, store
    <3> QED
      BY <1>1, <3>1, <3>2 DEF Next
  <2>2. d = c
    BY <1>1, <2>1, WriteChanges DEF IInv, Control
  <2>3. req[c].field = seen[c].field /\ req[c].kind \in Viewed
    BY <1>1 DEF IInv, Control
  <2>4. version = seen[c].version
    BY <1>1, <2>1, <2>2, <2>3
    DEF Write, SetField, DeleteField, UpsertSparseFields, ApplyCandidate, ProposeCandidate,
        AcceptProposal, RejectProposal, Holds, Current, Viewed
  <2> QED
    BY <1>1, <2>3, <2>4 DEF IInv, Versions, PageIsCurrent
<1>2. ASSUME IInv, [Next]_vars
      PROVE  \A c \in Clients :
               pc[c] = "holding" /\ req[c].versioned /\ req[c].kind # "reject" /\ row' # row
                 => PageIsCurrent(c)
  BY <1>1, <1>2
<1> QED
  BY <1>2, Invariance, PTL DEF Spec, NoLostEdit
=============================================================================
