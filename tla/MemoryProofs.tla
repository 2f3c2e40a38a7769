----------------------------- MODULE MemoryProofs -----------------------------
(***************************************************************************)
(* For any number of follow-ups, turns, deliveries and drafts: the versions *)
(* of a memory are a chain with one live end, it counts each message once,  *)
(* it remembers every turn that was learned alone, and its vector quotes    *)
(* messages it rests on.                                                    *)
(***************************************************************************)
EXTENDS Memory, FiniteSetTheorems, FunctionTheorems, SequenceTheorems, TLAPS

-----------------------------------------------------------------------------
(* The inductive invariant.                                                *)

\* The parts of VersionsChained: the versions of a key differ, each follows the one
\* before it, and exactly the newest is live.
Distinct ==
  \A r, s \in Rows : r # s /\ memories[r].key = memories[s].key =>
    memories[r].version # memories[s].version

Follows(m) ==
  \/ m.version = 1 /\ m.previous = ""
  \/ \E r \in Rows : /\ memories[r].key = m.key /\ memories[r].version + 1 = m.version
                     /\ memories[r].content = m.previous

Linked == \A r \in Rows : Follows(memories[r])

Newest(r) ==
  \A s \in Rows : memories[s].key = memories[r].key => memories[s].version <= memories[r].version

EndsAreLive == \A r \in Rows : Live(memories[r]) <=> Newest(r)

\* Every key that has rows has a live one: without it two workers could leave a
\* key without a memory, and the next draft would start its chain again.
HasLive ==
  \A r \in Rows : \E l \in Rows : memories[l].key = memories[r].key /\ Live(memories[l])

Chain == Distinct /\ Linked /\ EndsAreLive /\ HasLive

\* What a worker holds at the points of a follow-up.
Stage(w) ==
  /\ pc[w] \in {"idle", "committed"} => work[w] = Nothing
  /\ pc[w] = "embedding" => work[w].turn = {} /\ work[w].inserts = << >>
  /\ pc[w] = "learning" => \E t \in Turns : work[w].turn = {t}

\* A transaction updates a row once.
OneEach(w) == \A u, v \in work[w].updates : u[1] = v[1] => u = v

\* An update that counts a message, one that makes room for a new version, and one
\* that writes a vector.
Strengthens(u) ==
  /\ {"recurrence", "refs", "evidence"} \subseteq DOMAIN u[2]
  /\ DOMAIN u[2] \subseteq {"recurrence", "refs", "confidence", "evidence", "status"}
  /\ u[2].refs \in (SUBSET Turns) \ {{}} /\ IsFiniteSet(u[2].refs)
  /\ u[2].recurrence = Cardinality(u[2].refs)
  /\ u[2].evidence \subseteq u[2].refs
  /\ "confidence" \in DOMAIN u[2] => u[2].confidence \in Nat
  /\ "status" \in DOMAIN u[2] => u[2].status = "active"

Supersedes(w, u) ==
  /\ u[2] = [status |-> "superseded"]
  /\ \E i \in DOMAIN work[w].inserts :
       /\ work[w].inserts[i].key = memories[u[1]].key
       /\ work[w].inserts[i].version = memories[u[1]].version + 1

Embeds(u) ==
  /\ DOMAIN u[2] = {"vector"}
  /\ u[2].vector \subseteq Texts \X SUBSET Turns
  /\ \A v \in u[2].vector : /\ v[1] = memories[u[1]].content
                             /\ v[2] \subseteq memories[u[1]].refs \cup overlapped

UpdatesPlanned(w) ==
  \A u \in work[w].updates :
    \/ pc[w] = "learning" /\ (Strengthens(u) \/ Supersedes(w, u))
    \/ pc[w] = "embedding" /\ Embeds(u)

\* A new row is the first of its key or follows one that is there.
InsertsPlanned(w) ==
  \A i \in DOMAIN work[w].inserts :
    LET m == work[w].inserts[i]
    IN /\ Live(m) /\ m.recurrence = 1 /\ m.refs = work[w].turn
       /\ m.vector = {} /\ m.evidence \subseteq m.refs /\ Follows(m)

Held(w) == Stage(w) /\ OneEach(w) /\ UpdatesPlanned(w) /\ InsertsPlanned(w)

\* Follow-ups that run next to each other are known to.
Overlap ==
  \A v, w \in Workers : v # w /\ work[v].turn # {} /\ work[w].turn # {} =>
    work[v].turn \cup work[w].turn \subseteq overlapped

\* The messages that an update will write are those of the row and its own turn,
\* but for turns that ran next to another: a worker whose row changes under it
\* writes an older set.
RefsKnown(w) ==
  \A u \in work[w].updates : "refs" \in DOMAIN u[2] =>
    /\ memories[u[1]].refs \subseteq u[2].refs \cup overlapped
    /\ u[2].refs \subseteq memories[u[1]].refs \cup overlapped \cup work[w].turn

\* What a turn taught is in a row, or will be.
Covered(w, d, t) ==
  \/ t \in overlapped
  \/ \E r \in Rows : memories[r].key = d.key /\ t \in memories[r].refs
  \/ \E u \in work[w].updates :
       memories[u[1]].key = d.key /\ "refs" \in DOMAIN u[2] /\ t \in u[2].refs
  \/ \E i \in DOMAIN work[w].inserts :
       work[w].inserts[i].key = d.key /\ t \in work[w].inserts[i].refs

Coverage(w) == \A t \in work[w].turn : \A d \in Merged(Taught[t]) : Covered(w, d, t)

FiniteRefs == \A r \in Rows : IsFiniteSet(memories[r].refs)

IInv ==
  /\ TypeOK /\ Chain
  /\ CountedOnce /\ FiniteRefs
  /\ \A w \in Workers : Held(w) /\ RefsKnown(w) /\ Coverage(w)
  /\ Overlap
  /\ TurnRemembered /\ VectorQuotes

-----------------------------------------------------------------------------
(* Sequences and sets.                                                     *)

\* SetToSeq lists a finite set.
LEMMA Listed ==
  ASSUME NEW S, IsFiniteSet(S)
  PROVE  /\ SetToSeq(S) \in Seq(S)
         /\ \A x \in S : \E i \in DOMAIN SetToSeq(S) : SetToSeq(S)[i] = x
         /\ \A i \in DOMAIN SetToSeq(S) : SetToSeq(S)[i] \in S
<1> DEFINE N == Cardinality(S)
<1>1. N \in Nat /\ ExistsBijection(1..N, S)
  BY FS_CardinalityType
<1>2. \E f \in [1..N -> S] : IsInjective(f)
  BY <1>1 DEF ExistsBijection, Bijection, Injection
<1>3. SetToSeq(S) \in [1..N -> S] /\ IsInjective(SetToSeq(S))
  BY <1>2 DEF SetToSeq
<1>4. SetToSeq(S) \in Injection(1..N, S)
  BY <1>3 DEF Injection
<1>5. Cardinality(1..N) = N
  BY <1>1, FS_Interval
<1>6. SetToSeq(S) \in Surjection(1..N, S)
  BY <1>1, <1>4, <1>5, FS_Injection
<1>7. SetToSeq(S) \in Seq(S)
  BY <1>1, <1>3, SeqDef
<1>8. \A x \in S : \E i \in 1..N : SetToSeq(S)[i] = x
  BY <1>6 DEF Surjection
<1> QED
  BY <1>3, <1>7, <1>8

\* The drafts of a turn.
LEMMA MergedDrafts ==
  ASSUME NEW t \in Turns
  PROVE  /\ Merged(Taught[t]) \subseteq Draft
         /\ IsFiniteSet(Merged(Taught[t]))
         /\ \A d, e \in Merged(Taught[t]) : d.key = e.key => d = e
<1> DEFINE s == Taught[t]
<1>1. s \in Seq(Draft)
  BY Drafted
<1>2. Len(s) \in Nat /\ DOMAIN s = 1..Len(s) /\ s \in [1..Len(s) -> Draft]
  BY <1>1, LenProperties
<1>3. IsFiniteSet(DOMAIN s)
  BY <1>2, FS_Interval
<1>4. ToSet(s) \subseteq Draft
  BY <1>2 DEF ToSet
<1>5. IsFiniteSet(ToSet(s))
  <2>1. s \in Surjection(DOMAIN s, ToSet(s))
    BY <1>2 DEF Surjection, ToSet
  <2> QED
    BY <2>1, <1>3, FS_Surjection
<1>6. Merged(s) \subseteq ToSet(s)
  BY DEF Merged
<1>7. IsFiniteSet(Merged(s))
  BY <1>5, <1>6, FS_Subset
<1>8. ASSUME NEW d \in Merged(s), NEW e \in Merged(s), d.key = e.key
      PROVE  d = e
  <2> DEFINE First(n, x) == /\ s[n] = x
                            /\ \A k \in DOMAIN s : s[k].key = x.key /\ k # n =>
                                 s[k].confidence < x.confidence
                                   \/ (s[k].confidence = x.confidence /\ k < n)
  <2>1. PICK n \in DOMAIN s : First(n, d)
    BY DEF Merged
  <2>2. PICK k \in DOMAIN s : First(k, e)
    BY DEF Merged
  <2>3. n \in Nat /\ k \in Nat /\ d.confidence \in Nat /\ e.confidence \in Nat
    BY <1>2, <2>1, <2>2 DEF Draft
  <2>4. CASE n = k
    BY <2>1, <2>2, <2>4
  <2>5. CASE n # k
    <3>1. d.confidence < e.confidence \/ (d.confidence = e.confidence /\ n < k)
      BY <2>1, <2>2, <2>5, <1>8
    <3>2. e.confidence < d.confidence \/ (e.confidence = d.confidence /\ k < n)
      BY <2>1, <2>2, <2>5, <1>8
    <3> QED
      BY <3>1, <3>2, <2>3
  <2> QED
    BY <2>4, <2>5
<1> QED
  BY <1>4, <1>6, <1>7, <1>8
-----------------------------------------------------------------------------
(* The rows after a transaction.                                           *)

Columns == {"key", "content", "previous", "vector", "status", "confidence", "version",
            "recurrence", "refs", "evidence"}

LEMMA MemoFields ==
  ASSUME NEW m \in Memo
  PROVE  /\ DOMAIN m = Columns
         /\ m.key \in Keys /\ m.content \in Texts /\ m.previous \in Texts \cup {""}
         /\ m.vector \in SUBSET (Texts \X SUBSET Turns) /\ m.status \in {"active", "candidate", "superseded"}
         /\ m.confidence \in Nat /\ m.version \in Nat \ {0} /\ m.recurrence \in Nat \ {0}
         /\ m.refs \in (SUBSET Turns) \ {{}} /\ m.evidence \in SUBSET Turns
  BY DEF Memo, Columns

LEMMA OverwrittenMemo ==
  ASSUME NEW m \in Memo, NEW set,
         DOMAIN set \subseteq {"recurrence", "refs", "confidence", "evidence", "status", "vector"},
         "recurrence" \in DOMAIN set => set.recurrence \in Nat \ {0},
         "refs" \in DOMAIN set => set.refs \in (SUBSET Turns) \ {{}},
         "confidence" \in DOMAIN set => set.confidence \in Nat,
         "status" \in DOMAIN set => set.status \in {"active", "candidate", "superseded"},
         "evidence" \in DOMAIN set => set.evidence \in SUBSET Turns,
         "vector" \in DOMAIN set => set.vector \in SUBSET (Texts \X SUBSET Turns)
  PROVE  Overwritten(m, set) \in Memo
<1> DEFINE F == Overwritten(m, set)
<1>1. DOMAIN m = Columns
  BY DEF Memo, Columns
<1>2. F = [c \in Columns |-> IF c \in DOMAIN set THEN set[c] ELSE m[c]]
  BY <1>1 DEF Overwritten
<1> HIDE DEF F
<1>3. /\ F.key = m.key /\ F.content = m.content /\ F.previous = m.previous
      /\ F.version = m.version
      /\ F.vector = IF "vector" \in DOMAIN set THEN set.vector ELSE m.vector
      /\ F.status = IF "status" \in DOMAIN set THEN set.status ELSE m.status
      /\ F.confidence = IF "confidence" \in DOMAIN set THEN set.confidence ELSE m.confidence
      /\ F.recurrence = IF "recurrence" \in DOMAIN set THEN set.recurrence ELSE m.recurrence
      /\ F.refs = IF "refs" \in DOMAIN set THEN set.refs ELSE m.refs
      /\ F.evidence = IF "evidence" \in DOMAIN set THEN set.evidence ELSE m.evidence
  BY <1>2 DEF Columns
<1>4. F.key \in Keys /\ F.content \in Texts /\ F.previous \in Texts \cup {""} /\ F.version \in Nat \ {0}
  BY <1>3, MemoFields
<1>5. /\ F.vector \in SUBSET (Texts \X SUBSET Turns) /\ F.evidence \in SUBSET Turns
      /\ F.status \in {"active", "candidate", "superseded"}
      /\ F.confidence \in Nat /\ F.recurrence \in Nat \ {0} /\ F.refs \in (SUBSET Turns) \ {{}}
  BY <1>3, MemoFields
<1>6. F = [key |-> F.key, content |-> F.content, previous |-> F.previous, vector |-> F.vector,
           status |-> F.status, confidence |-> F.confidence, version |-> F.version,
           recurrence |-> F.recurrence, refs |-> F.refs, evidence |-> F.evidence]
  BY <1>2 DEF Columns
<1> QED
  BY <1>4, <1>5, <1>6 DEF Memo, F

LEMMA RowTypes ==
  ASSUME IInv
  PROVE  /\ memories \in Seq(Memo) /\ Len(memories) \in Nat /\ Rows = 1..Len(memories)
         /\ \A r \in Rows : memories[r] \in Memo
  BY LenProperties, ElementOfSeq DEF IInv, TypeOK, Rows

\* What an update does to its row.
Applied(r, u) ==
  /\ memories'[r] = Overwritten(memories[r], u[2])
  /\ \A c \in {"key", "content", "previous", "version"} : memories'[r][c] = memories[r][c]

LEMMA Plans ==
  ASSUME IInv, NEW w \in Workers, NEW u \in work[w].updates
  PROVE  /\ u[1] \in Rows
         /\ Overwritten(memories[u[1]], u[2]) \in Memo
         /\ \A c \in {"key", "content", "previous", "version"} :
              Overwritten(memories[u[1]], u[2])[c] = memories[u[1]][c]
<1> DEFINE m == memories[u[1]]
<1>1. u[1] \in Rows /\ DOMAIN u[2] \subseteq {"recurrence", "refs", "confidence", "evidence", "status", "vector"}
  BY DEF IInv, TypeOK
<1>2. m \in Memo
  BY <1>1, RowTypes
<1>3. Strengthens(u) \/ Supersedes(w, u) \/ Embeds(u)
  BY DEF IInv, Held, UpdatesPlanned
<1>4. Overwritten(m, u[2]) \in Memo
  <2>1. CASE Strengthens(u)
    <3>1. u[2].recurrence \in Nat \ {0}
      BY <2>1, FS_CardinalityType, FS_EmptySet DEF Strengthens
    <3>2. "vector" \notin DOMAIN u[2]
      BY <2>1 DEF Strengthens
    <3> QED
      BY <1>1, <1>2, <2>1, <3>1, <3>2, OverwrittenMemo DEF Strengthens
  <2>2. CASE Supersedes(w, u)
    <3>1. DOMAIN u[2] = {"status"} /\ u[2].status = "superseded"
      BY <2>2 DEF Supersedes
    <3> QED
      BY <1>1, <1>2, <3>1, OverwrittenMemo
  <2>3. CASE Embeds(u)
    <3>1. DOMAIN u[2] = {"vector"} /\ u[2].vector \in SUBSET (Texts \X SUBSET Turns)
      BY <2>3 DEF Embeds
    <3> QED
      BY <1>1, <1>2, <3>1, OverwrittenMemo
  <2> QED
    BY <1>3, <2>1, <2>2, <2>3
<1>5. DOMAIN m = Columns
  BY <1>2 DEF Memo, Columns
<1>6. \A c \in {"key", "content", "previous", "version"} : Overwritten(m, u[2])[c] = m[c]
  BY <1>1, <1>5 DEF Overwritten, Columns
<1> QED
  BY <1>1, <1>4, <1>6

LEMMA Rewritten ==
  ASSUME IInv, NEW w \in Workers, memories' = Written(w)
  PROVE  /\ memories' \in Seq(Memo)
         /\ Rows = 1..Len(memories) /\ Len(memories) \in Nat
         /\ DOMAIN work[w].inserts = 1..Len(work[w].inserts) /\ Len(work[w].inserts) \in Nat
         /\ Rows' = 1..(Len(memories) + Len(work[w].inserts))
         /\ \A r \in Rows' : memories'[r] \in Memo
         /\ \A r \in Rows : \/ memories'[r] = memories[r] /\ \A u \in work[w].updates : u[1] # r
                            \/ \E u \in work[w].updates : u[1] = r /\ Applied(r, u)
         /\ \A i \in DOMAIN work[w].inserts : memories'[Len(memories) + i] = work[w].inserts[i]
<1> DEFINE Inserts == work[w].inserts
           Picked(r) == CHOOSE u \in work[w].updates : u[1] = r
           Updated == [r \in Rows |-> IF \E u \in work[w].updates : u[1] = r
                                    THEN Overwritten(memories[r], Picked(r)[2])
                                    ELSE memories[r]]
<1>1. /\ memories \in Seq(Memo) /\ Len(memories) \in Nat
      /\ Rows = 1..Len(memories) /\ \A r \in Rows : memories[r] \in Memo
  BY RowTypes
<1>2. Inserts \in Seq(Memo) /\ Len(Inserts) \in Nat /\ DOMAIN Inserts = 1..Len(Inserts)
  BY LenProperties DEF IInv, TypeOK
<1>3. \A r \in Rows : (\E u \in work[w].updates : u[1] = r) =>
        Picked(r) \in work[w].updates /\ Picked(r)[1] = r
  OBVIOUS
<1>4. \A r \in Rows : Updated[r] \in Memo
  <2> SUFFICES ASSUME NEW r \in Rows PROVE Updated[r] \in Memo
    OBVIOUS
  <2>1. CASE \E u \in work[w].updates : u[1] = r
    BY <1>3, <2>1, Plans
  <2>2. CASE ~ \E u \in work[w].updates : u[1] = r
    BY <1>1, <2>2
  <2> QED
    BY <2>1, <2>2
<1>5. Updated \in Seq(Memo)
  BY <1>1, <1>4, SeqDef
<1>6. Len(Updated) = Len(memories)
  BY <1>1, <1>5, LenProperties
<1>7. memories' = Updated \o Inserts
  BY DEF Written
<1> HIDE DEF Inserts, Updated
<1>8. /\ memories' \in Seq(Memo) /\ Len(memories') = Len(memories) + Len(Inserts)
      /\ \A i \in 1..Len(memories) + Len(Inserts) : memories'[i] =
           IF i <= Len(memories) THEN Updated[i] ELSE Inserts[i - Len(memories)]
  <2>1. /\ Updated \o Inserts \in Seq(Memo)
        /\ Len(Updated \o Inserts) = Len(Updated) + Len(Inserts)
        /\ \A i \in 1..Len(Updated) + Len(Inserts) : (Updated \o Inserts)[i] =
             IF i <= Len(Updated) THEN Updated[i] ELSE Inserts[i - Len(Updated)]
    BY <1>2, <1>5, ConcatProperties, Zenon
  <2> QED
    BY <2>1, <1>6, <1>7
<1>9. Rows' = 1..(Len(memories) + Len(Inserts))
  BY <1>8, LenProperties DEF Rows
<1>10. \A r \in Rows : memories'[r] = Updated[r]
  BY <1>1, <1>2, <1>8, <1>6
<1>11. ASSUME NEW i \in DOMAIN Inserts
       PROVE  memories'[Len(memories) + i] = Inserts[i]
  <2>1. /\ Len(memories) + i \in 1..Len(memories) + Len(Inserts)
        /\ ~(Len(memories) + i <= Len(memories)) /\ (Len(memories) + i) - Len(memories) = i
    BY <1>1, <1>2
  <2> QED
    BY <1>8, <2>1
<1>12. ASSUME NEW r \in Rows
       PROVE  \/ memories'[r] = memories[r] /\ \A u \in work[w].updates : u[1] # r
              \/ \E u \in work[w].updates : u[1] = r /\ Applied(r, u)
  <2> USE DEF Updated
  <2>1. CASE \E u \in work[w].updates : u[1] = r
    <3>1. Picked(r) \in work[w].updates /\ Picked(r)[1] = r
      BY <1>3, <2>1
    <3>2. memories'[r] = Overwritten(memories[r], Picked(r)[2])
      BY <1>10, <2>1
    <3>3. Applied(r, Picked(r))
      BY <3>1, <3>2, Plans DEF Applied
    <3> QED
      BY <3>1, <3>3
  <2>2. CASE ~ \E u \in work[w].updates : u[1] = r
    BY <1>10, <2>2
  <2> QED
    BY <2>1, <2>2
<1>13. \A r \in Rows' : memories'[r] \in Memo
  <2>1. Rows' = 1..Len(memories')
    BY <1>8, <1>9
  <2> QED
    BY <1>8, <2>1, ElementOfSeq
<1> QED
  BY <1>1, <1>2, <1>8, <1>9, <1>11, <1>12, <1>13 DEF Inserts

-----------------------------------------------------------------------------
(* The versions.                                                           *)

\* No transaction touches what a row is a version of.
Persist ==
  \A r \in Rows :
    /\ r \in Rows'
    /\ memories'[r].key = memories[r].key /\ memories'[r].version = memories[r].version
    /\ memories'[r].content = memories[r].content /\ memories'[r].previous = memories[r].previous

LEMMA RowsPersist ==
  ASSUME IInv, NEW w \in Workers, memories' = Written(w)
  PROVE  Persist
<1> SUFFICES ASSUME NEW r \in Rows
             PROVE  /\ r \in Rows'
                    /\ memories'[r].key = memories[r].key
                    /\ memories'[r].version = memories[r].version
                    /\ memories'[r].content = memories[r].content
                    /\ memories'[r].previous = memories[r].previous
  BY DEF Persist
<1>1. Rows = 1..Len(memories) /\ Len(memories) \in Nat /\ Len(work[w].inserts) \in Nat
      /\ Rows' = 1..(Len(memories) + Len(work[w].inserts))
  BY Rewritten
<1>2. memories'[r] = memories[r] \/ \E u \in work[w].updates : u[1] = r /\ Applied(r, u)
  BY Rewritten
<1> QED
  BY <1>1, <1>2 DEF Applied

\* The live memory of a key is one row.
LEMMA OneLive ==
  ASSUME IInv, NEW r \in Rows, NEW s \in Rows, memories[r].key = memories[s].key,
         Live(memories[r]), Live(memories[s])
  PROVE  r = s
<1>1. memories[r].version \in Nat /\ memories[s].version \in Nat
  BY RowTypes DEF Memo
<1>2. memories[s].version <= memories[r].version /\ memories[r].version <= memories[s].version
  BY DEF IInv, Chain, EndsAreLive, Newest
<1> QED
  BY <1>1, <1>2 DEF IInv, Chain, Distinct

\* What a commit does to the live memory of a key: it stays, or the transaction
\* inserts the next version.
LEMMA LiveGoesOn ==
  ASSUME IInv, NEW w \in Workers, pc[w] = "learning", memories' = Written(w),
         NEW l \in Rows, Live(memories[l])
  PROVE  \/ Live(memories'[l])
         \/ \E s \in Rows' : /\ memories'[s].key = memories[l].key /\ Live(memories'[s])
                             /\ memories'[s].version = memories[l].version + 1
<1> DEFINE Inserts == work[w].inserts
           n == Len(memories)
<1>1. memories'[l] = memories[l] \/ \E u \in work[w].updates : u[1] = l /\ Applied(l, u)
  BY Rewritten
<1>2. CASE memories'[l] = memories[l]
  BY <1>2
<1>3. ASSUME NEW u \in work[w].updates, u[1] = l, Applied(l, u)
      PROVE  \/ Live(memories'[l])
             \/ \E s \in Rows' : /\ memories'[s].key = memories[l].key /\ Live(memories'[s])
                                 /\ memories'[s].version = memories[l].version + 1
  <2>1. Strengthens(u) \/ Supersedes(w, u)
    BY DEF IInv, Held, UpdatesPlanned
  <2>2. memories[l] \in Memo
    BY RowTypes
  <2>3. CASE Strengthens(u)
    <3>1. memories'[l].status = IF "status" \in DOMAIN u[2] THEN "active" ELSE memories[l].status
      BY <1>3, <2>2, <2>3 DEF Applied, Overwritten, Strengthens, Memo
    <3> QED
      BY <3>1 DEF Live
  <2>4. CASE Supersedes(w, u)
    <3>1. PICK i \in DOMAIN Inserts : /\ Inserts[i].key = memories[l].key
                                      /\ Inserts[i].version = memories[l].version + 1
      BY <1>3, <2>4 DEF Supersedes
    <3>2. n + i \in Rows' /\ memories'[n + i] = Inserts[i]
      BY Rewritten
    <3>3. Live(Inserts[i])
      BY DEF IInv, Held, InsertsPlanned
    <3> QED
      BY <3>1, <3>2, <3>3
  <2> QED
    BY <2>1, <2>3, <2>4
<1> QED
  BY <1>1, <1>2, <1>3

LEMMA CommitChain ==
  ASSUME IInv, NEW w \in Workers, pc[w] = "learning", Unique(Written(w)), memories' = Written(w)
  PROVE  Chain'
<1> DEFINE Inserts == work[w].inserts
           n == Len(memories)
<1>0. Persist
  BY RowsPersist
<1>1. /\ memories' \in Seq(Memo) /\ Rows = 1..n /\ n \in Nat
      /\ DOMAIN Inserts = 1..Len(Inserts) /\ Len(Inserts) \in Nat
      /\ Rows' = 1..(n + Len(Inserts))
      /\ \A i \in DOMAIN Inserts : memories'[n + i] = Inserts[i]
  BY Rewritten
<1>2. \A r \in Rows' : memories'[r].version \in Nat \ {0}
  BY Rewritten DEF Memo
<1>3. \A r \in Rows : memories[r].version \in Nat \ {0}
  BY <1>0, <1>2 DEF Persist
<1>4. \A r, s \in Rows' : r # s /\ memories'[r].key = memories'[s].key =>
        memories'[r].version # memories'[s].version /\ ~(Live(memories'[r]) /\ Live(memories'[s]))
  BY DEF Unique, Rows
<1>5. ASSUME NEW r \in Rows', r \notin Rows
      PROVE  Live(memories'[r]) /\ Follows(memories'[r])
  <2>1. r - n \in DOMAIN Inserts /\ memories'[r] = Inserts[r - n]
    BY <1>1, <1>5
  <2> QED
    BY <2>1 DEF IInv, Held, InsertsPlanned
<1>6. Distinct'
  BY <1>4 DEF Distinct
<1>7. Linked'
  <2> SUFFICES ASSUME NEW r \in Rows' PROVE Follows(memories[r])'
    BY DEF Linked
  <2>1. Follows(memories'[r])
    <3>1. CASE r \in Rows
      <4>1. Follows(memories[r])
        BY <3>1 DEF IInv, Chain, Linked
      <4>2. /\ memories'[r].key = memories[r].key /\ memories'[r].version = memories[r].version
            /\ memories'[r].previous = memories[r].previous
        BY <1>0, <3>1 DEF Persist
      <4> QED
        BY <4>1, <4>2 DEF Follows
    <3>2. CASE r \notin Rows
      BY <1>5, <3>2
    <3> QED
      BY <3>1, <3>2
  <2>2. CASE memories'[r].version = 1 /\ memories'[r].previous = ""
    BY <2>2 DEF Follows
  <2>3. ASSUME NEW s \in Rows, memories[s].key = memories'[r].key,
               memories[s].version + 1 = memories'[r].version,
               memories[s].content = memories'[r].previous
        PROVE  Follows(memories[r])'
    BY <1>0, <2>3 DEF Persist, Follows
  <2> QED
    BY <2>1, <2>2, <2>3 DEF Follows
<1>8. HasLive'
  <2> SUFFICES ASSUME NEW r \in Rows'
               PROVE  \E l \in Rows' : memories'[l].key = memories'[r].key /\ Live(memories'[l])
    BY DEF HasLive
  <2>1. CASE r \notin Rows
    BY <1>5, <2>1
  <2>2. CASE r \in Rows
    <3>1. PICK l \in Rows : memories[l].key = memories[r].key /\ Live(memories[l])
      BY <2>2 DEF IInv, Chain, HasLive
    <3> QED
      BY <1>0, <2>2, <3>1, LiveGoesOn DEF Persist
  <2> QED
    BY <2>1, <2>2
<1>9. ASSUME NEW r \in Rows', Live(memories'[r])
      PROVE  Newest(r)'
  <2> SUFFICES ASSUME NEW s \in Rows', memories'[s].key = memories'[r].key,
                      memories'[s].version > memories'[r].version
               PROVE  FALSE
    BY <1>2 DEF Newest
  <2>1. s # r
    BY <1>2
  <2>2. s \in Rows
    BY <1>4, <1>5, <1>9, <2>1
  <2>3. PICK l \in Rows : memories[l].key = memories[s].key /\ Live(memories[l])
    BY <2>2 DEF IInv, Chain, HasLive
  <2>4. memories[s].version <= memories[l].version
    BY <2>2, <2>3 DEF IInv, Chain, EndsAreLive, Newest
  <2>5. memories'[l].key = memories'[r].key /\ memories'[l].version = memories[l].version
        /\ memories'[s].version = memories[s].version /\ l \in Rows'
    BY <1>0, <2>2, <2>3 DEF Persist
  <2>6. CASE Live(memories'[l])
    <3>1. l = r
      BY <1>4, <1>9, <2>5, <2>6
    <3> QED
      BY <1>3, <2>2, <2>4, <2>5, <3>1
  <2>7. CASE \E k \in Rows' : /\ memories'[k].key = memories[l].key /\ Live(memories'[k])
                              /\ memories'[k].version = memories[l].version + 1
    <3>1. PICK k \in Rows' : /\ memories'[k].key = memories[l].key /\ Live(memories'[k])
                             /\ memories'[k].version = memories[l].version + 1
      BY <2>7
    <3>2. memories'[k].key = memories'[r].key
      BY <1>0, <2>3, <2>5, <3>1 DEF Persist
    <3>3. k = r
      BY <1>4, <1>9, <3>1, <3>2
    <3> QED
      BY <1>3, <2>2, <2>4, <2>5, <3>1, <3>3
  <2> QED
    BY <2>3, <2>6, <2>7, LiveGoesOn
<1>10. ASSUME NEW r \in Rows', Newest(r)'
       PROVE  Live(memories'[r])
  <2>1. PICK l \in Rows' : memories'[l].key = memories'[r].key /\ Live(memories'[l])
    BY <1>8 DEF HasLive
  <2>2. memories'[r].version <= memories'[l].version
    BY <1>9, <2>1 DEF Newest
  <2>3. memories'[l].version <= memories'[r].version
    BY <1>10, <2>1 DEF Newest
  <2>4. l = r
    BY <1>2, <1>4, <2>1, <2>2, <2>3
  <2> QED
    BY <2>1, <2>4
<1>11. EndsAreLive'
  BY <1>9, <1>10 DEF EndsAreLive
<1> QED
  BY <1>6, <1>7, <1>8, <1>11 DEF Chain

-----------------------------------------------------------------------------
(* What the commit of a follow-up keeps.                                   *)

\* No row loses a message, but for turns that ran next to another.
Keeps ==
  /\ overlapped \subseteq overlapped'
  /\ \A r \in Rows : memories[r].refs \subseteq memories'[r].refs \cup overlapped'

\* A worker that does not move keeps its plans: they rest on what persists.
LEMMA OthersHold ==
  ASSUME IInv, Persist, Keeps, NEW v \in Workers, work'[v] = work[v], pc'[v] = pc[v]
  PROVE  Held(v)'
<1>1. Held(v)
  BY DEF IInv
<1>2. \A u \in work[v].updates : u[1] \in Rows
  BY DEF IInv, TypeOK
<1>3. Stage(v)' /\ OneEach(v)'
  BY <1>1 DEF Held, Stage, OneEach, Nothing
<1>4. ASSUME NEW u \in work[v].updates
      PROVE  /\ Supersedes(v, u) => Supersedes(v, u)'
             /\ Embeds(u) => Embeds(u)'
  <2>1. Supersedes(v, u) => Supersedes(v, u)'
    BY <1>2 DEF Supersedes, Persist
  <2>2. Embeds(u) => Embeds(u)'
    <3>1. /\ u[1] \in Rows /\ memories'[u[1]].content = memories[u[1]].content
          /\ memories[u[1]].refs \cup overlapped \subseteq memories'[u[1]].refs \cup overlapped'
      BY <1>2 DEF Persist, Keeps
    <3> QED
      BY <3>1 DEF Embeds
  <2> QED
    BY <2>1, <2>2
<1>5. UpdatesPlanned(v)'
  BY <1>1, <1>4 DEF Held, UpdatesPlanned, Strengthens
<1>6. ASSUME NEW m, Follows(m)
      PROVE  Follows(m)'
  BY <1>6 DEF Follows, Persist
<1>7. InsertsPlanned(v)'
  BY <1>1, <1>6 DEF Held, InsertsPlanned
<1> QED
  BY <1>3, <1>5, <1>7 DEF Held

\* The columns that a follow-up writes.
LEMMA LearningRow ==
  ASSUME IInv, NEW w \in Workers, pc[w] = "learning", memories' = Written(w), NEW r \in Rows
  PROVE  /\ memories'[r].vector = memories[r].vector
         /\ \/ /\ memories'[r].refs = memories[r].refs
               /\ memories'[r].evidence = memories[r].evidence
               /\ memories'[r].recurrence = memories[r].recurrence
               /\ \A u \in work[w].updates : u[1] = r => "refs" \notin DOMAIN u[2]
            \/ \E u \in work[w].updates :
                 /\ u[1] = r /\ "refs" \in DOMAIN u[2] /\ Strengthens(u)
                 /\ memories'[r].refs = u[2].refs /\ memories'[r].recurrence = u[2].recurrence
                 /\ memories'[r].evidence = u[2].evidence
<1>1. memories[r] \in Memo
  BY RowTypes
<1>2. CASE memories'[r] = memories[r] /\ \A u \in work[w].updates : u[1] # r
  BY <1>2
<1>3. ASSUME NEW u \in work[w].updates, u[1] = r, Applied(r, u), Strengthens(u)
      PROVE  /\ memories'[r].vector = memories[r].vector /\ "refs" \in DOMAIN u[2]
             /\ memories'[r].refs = u[2].refs /\ memories'[r].recurrence = u[2].recurrence
             /\ memories'[r].evidence = u[2].evidence
  <2>1. DOMAIN memories[r] = Columns
    BY <1>1, MemoFields
  <2>2. /\ "vector" \notin DOMAIN u[2] /\ "refs" \in DOMAIN u[2]
        /\ "recurrence" \in DOMAIN u[2] /\ "evidence" \in DOMAIN u[2]
    BY <1>3 DEF Strengthens
  <2>3. \A c \in Columns : memories'[r][c] = IF c \in DOMAIN u[2] THEN u[2][c] ELSE memories[r][c]
    BY <1>3, <2>1 DEF Applied, Overwritten
  <2>4. {"vector", "refs", "recurrence", "evidence"} \subseteq Columns
    BY DEF Columns
  <2> QED
    BY <2>2, <2>3, <2>4
<1>4. ASSUME NEW u \in work[w].updates, u[1] = r, Applied(r, u), Supersedes(w, u)
      PROVE  /\ memories'[r].vector = memories[r].vector /\ memories'[r].refs = memories[r].refs
             /\ memories'[r].recurrence = memories[r].recurrence
             /\ memories'[r].evidence = memories[r].evidence
             /\ \A x \in work[w].updates : x[1] = r => "refs" \notin DOMAIN x[2]
  <2>1. DOMAIN u[2] = {"status"}
    BY <1>4 DEF Supersedes
  <2>2. \A x \in work[w].updates : x[1] = r => x = u
    BY <1>4 DEF IInv, Held, OneEach
  <2>3. \A c \in Columns \ {"status"} : memories'[r][c] = memories[r][c]
    <3>1. DOMAIN memories[r] = Columns
      BY <1>1, MemoFields
    <3>2. memories'[r] = Overwritten(memories[r], u[2])
      BY <1>4 DEF Applied
    <3> QED
      BY <2>1, <3>1, <3>2 DEF Overwritten
  <2>4. {"vector", "refs", "recurrence", "evidence"} \subseteq Columns \ {"status"}
    BY DEF Columns
  <2>5. "refs" \notin DOMAIN u[2]
    BY <2>1
  <2> QED
    BY <2>2, <2>3, <2>4, <2>5
<1>5. \A u \in work[w].updates : Strengthens(u) \/ Supersedes(w, u)
  BY DEF IInv, Held, UpdatesPlanned
<1> QED
  BY <1>2, <1>3, <1>4, <1>5, Rewritten

LEMMA InsertedRow ==
  ASSUME IInv, NEW w \in Workers, memories' = Written(w), NEW r \in Rows', r \notin Rows
  PROVE  \E i \in DOMAIN work[w].inserts : memories'[r] = work[w].inserts[i]
<1>1. r - Len(memories) \in DOMAIN work[w].inserts
      /\ Len(memories) + (r - Len(memories)) = r
  BY Rewritten
<1> QED
  BY <1>1, Rewritten

LEMMA CommitKeeps ==
  ASSUME IInv, NEW w \in Workers, pc[w] = "learning", memories' = Written(w),
         overlapped' = overlapped
  PROVE  Keeps
<1> SUFFICES ASSUME NEW r \in Rows PROVE memories[r].refs \subseteq memories'[r].refs \cup overlapped
  BY DEF Keeps
<1>1. CASE memories'[r].refs = memories[r].refs
  BY <1>1
<1>2. ASSUME NEW u \in work[w].updates, u[1] = r, "refs" \in DOMAIN u[2],
             memories'[r].refs = u[2].refs
      PROVE  memories[r].refs \subseteq memories'[r].refs \cup overlapped
  BY <1>2 DEF IInv, RefsKnown
<1> QED
  BY <1>1, <1>2, LearningRow

LEMMA CommitCounts ==
  ASSUME IInv, NEW w \in Workers, pc[w] = "learning", memories' = Written(w),
         overlapped' = overlapped
  PROVE  CountedOnce' /\ FiniteRefs' /\ VectorQuotes'
<1> SUFFICES ASSUME NEW r \in Rows'
             PROVE  /\ memories'[r].recurrence = Cardinality(memories'[r].refs)
                    /\ IsFiniteSet(memories'[r].refs)
                    /\ memories'[r].evidence \subseteq memories'[r].refs
                    /\ \A v \in memories'[r].vector :
                         /\ v[1] = memories'[r].content
                         /\ v[2] \subseteq memories'[r].refs \cup overlapped
  BY DEF CountedOnce, FiniteRefs, VectorQuotes
<1>1. CASE r \in Rows
  <2>1. memories'[r].content = memories[r].content
    BY <1>1, RowsPersist DEF Persist
  <2>2. /\ memories[r].recurrence = Cardinality(memories[r].refs)
        /\ IsFiniteSet(memories[r].refs)
        /\ memories[r].evidence \subseteq memories[r].refs
        /\ \A v \in memories[r].vector : /\ v[1] = memories[r].content
                                         /\ v[2] \subseteq memories[r].refs \cup overlapped
    BY <1>1 DEF IInv, CountedOnce, FiniteRefs, VectorQuotes
  <2>3. memories'[r].vector = memories[r].vector
    BY <1>1, LearningRow
  <2>4. /\ memories'[r].recurrence = Cardinality(memories'[r].refs)
        /\ IsFiniteSet(memories'[r].refs)
        /\ memories'[r].evidence \subseteq memories'[r].refs
    <3>1. CASE /\ memories'[r].refs = memories[r].refs
               /\ memories'[r].evidence = memories[r].evidence
               /\ memories'[r].recurrence = memories[r].recurrence
      BY <2>2, <3>1
    <3>2. CASE \E u \in work[w].updates :
                 /\ Strengthens(u) /\ memories'[r].refs = u[2].refs
                 /\ memories'[r].recurrence = u[2].recurrence
                 /\ memories'[r].evidence = u[2].evidence
      BY <3>2 DEF Strengthens
    <3> QED
      BY <1>1, <3>1, <3>2, LearningRow
  <2>5. memories[r].refs \subseteq memories'[r].refs \cup overlapped
    BY <1>1, CommitKeeps DEF Keeps
  <2>6. \A v \in memories'[r].vector : /\ v[1] = memories'[r].content
                                      /\ v[2] \subseteq memories'[r].refs \cup overlapped
    BY <2>1, <2>2, <2>3, <2>5
  <2> QED
    BY <2>4, <2>6
<1>2. CASE r \notin Rows
  <2>1. PICK i \in DOMAIN work[w].inserts : memories'[r] = work[w].inserts[i]
    BY <1>2, InsertedRow
  <2>2. PICK t \in Turns : work[w].turn = {t}
    BY DEF IInv, Held, Stage
  <2>3. /\ memories'[r].recurrence = 1 /\ memories'[r].refs = {t} /\ memories'[r].vector = {}
        /\ memories'[r].evidence \subseteq memories'[r].refs
    BY <2>1, <2>2 DEF IInv, Held, InsertsPlanned
  <2> QED
    BY <2>3, FS_Singleton
<1> QED
  BY <1>1, <1>2

\* Another follow-up that is under way when one commits is known to overlap it.
LEMMA CommitKnown ==
  ASSUME IInv, NEW w \in Workers, pc[w] = "learning", memories' = Written(w),
         overlapped' = overlapped, NEW v \in Workers, v # w, work'[v] = work[v]
  PROVE  RefsKnown(v)' /\ Coverage(v)'
<1>1. work[w].turn # {}
  BY DEF IInv, Held, Stage
<1>2. work[v].turn # {} => work[w].turn \subseteq overlapped /\ work[v].turn \subseteq overlapped
  BY <1>1 DEF IInv, Overlap
<1>3. Coverage(v)'
  BY <1>2 DEF Coverage, Covered
<1>4. ASSUME NEW u \in work[v].updates, "refs" \in DOMAIN u[2]
      PROVE  /\ memories'[u[1]].refs \subseteq u[2].refs \cup overlapped
             /\ u[2].refs \subseteq memories'[u[1]].refs \cup overlapped \cup work[v].turn
  <2>1. u[1] \in Rows
    BY DEF IInv, TypeOK
  <2>2. pc[v] = "learning"
    <3>1. ~Embeds(u)
      BY <1>4 DEF Embeds
    <3> QED
      BY <3>1 DEF IInv, Held, UpdatesPlanned
  <2>3. work[w].turn \subseteq overlapped
    BY <1>2, <2>2 DEF IInv, Held, Stage
  <2>4. /\ memories[u[1]].refs \subseteq u[2].refs \cup overlapped
        /\ u[2].refs \subseteq memories[u[1]].refs \cup overlapped \cup work[v].turn
    BY <1>4 DEF IInv, RefsKnown
  <2>5. CASE memories'[u[1]].refs = memories[u[1]].refs
    BY <2>4, <2>5
  <2>6. ASSUME NEW x \in work[w].updates, x[1] = u[1], "refs" \in DOMAIN x[2],
               memories'[u[1]].refs = x[2].refs
        PROVE  /\ memories'[u[1]].refs \subseteq u[2].refs \cup overlapped
               /\ u[2].refs \subseteq memories'[u[1]].refs \cup overlapped \cup work[v].turn
    <3>1. /\ memories[u[1]].refs \subseteq x[2].refs \cup overlapped
          /\ x[2].refs \subseteq memories[u[1]].refs \cup overlapped \cup work[w].turn
      BY <2>6 DEF IInv, RefsKnown
    <3> QED
      BY <2>3, <2>4, <2>6, <3>1
  <2> QED
    BY <2>1, <2>5, <2>6, LearningRow
<1>5. RefsKnown(v)'
  BY <1>4 DEF RefsKnown
<1> QED
  BY <1>3, <1>5

LEMMA CommitRemembers ==
  ASSUME IInv, NEW w \in Workers, pc[w] = "learning", memories' = Written(w),
         overlapped' = overlapped, learned' = learned \cup work[w].turn
  PROVE  TurnRemembered'
<1> SUFFICES ASSUME NEW t \in learned', t \notin overlapped, NEW d \in Merged(Taught[t])
             PROVE  \E r \in Rows' : memories'[r].key = d.key /\ t \in memories'[r].refs
  BY DEF TurnRemembered
<1>1. Persist
  BY RowsPersist
<1>2. ASSUME NEW r \in Rows, memories[r].key = d.key, t \in memories[r].refs
      PROVE  r \in Rows' /\ memories'[r].key = d.key /\ t \in memories'[r].refs
  <2>1. r \in Rows' /\ memories'[r].key = d.key
    BY <1>1, <1>2 DEF Persist
  <2>2. CASE memories'[r].refs = memories[r].refs
    BY <1>2, <2>1, <2>2
  <2>3. ASSUME NEW u \in work[w].updates, u[1] = r, "refs" \in DOMAIN u[2],
               memories'[r].refs = u[2].refs
        PROVE  t \in memories'[r].refs
    BY <1>2, <2>3 DEF IInv, RefsKnown
  <2> QED
    BY <2>1, <2>2, <2>3, <1>2, LearningRow
<1>3. CASE t \in learned
  <2>1. PICK r \in Rows : memories[r].key = d.key /\ t \in memories[r].refs
    BY <1>3 DEF IInv, TurnRemembered
  <2> QED
    BY <1>2, <2>1
<1>4. CASE t \in work[w].turn
  <2>1. Covered(w, d, t)
    BY <1>4 DEF IInv, Coverage
  <2>2. CASE \E r \in Rows : memories[r].key = d.key /\ t \in memories[r].refs
    BY <1>2, <2>2
  <2>3. ASSUME NEW u \in work[w].updates, memories[u[1]].key = d.key, "refs" \in DOMAIN u[2],
               t \in u[2].refs
        PROVE  \E r \in Rows' : memories'[r].key = d.key /\ t \in memories'[r].refs
    <3>1. u[1] \in Rows
      BY DEF IInv, TypeOK
    <3>2. u[1] \in Rows' /\ memories'[u[1]].key = d.key
      BY <1>1, <2>3, <3>1 DEF Persist
    <3>3. \A x \in work[w].updates : x[1] = u[1] => x = u
      BY DEF IInv, Held, OneEach
    <3>4. memories'[u[1]].refs = u[2].refs
      BY <2>3, <3>1, <3>3, LearningRow
    <3> QED
      BY <2>3, <3>2, <3>4
  <2>4. ASSUME NEW i \in DOMAIN work[w].inserts, work[w].inserts[i].key = d.key,
               t \in work[w].inserts[i].refs
        PROVE  \E r \in Rows' : memories'[r].key = d.key /\ t \in memories'[r].refs
    <3>1. Len(memories) + i \in Rows' /\ memories'[Len(memories) + i] = work[w].inserts[i]
      BY Rewritten
    <3> QED
      BY <2>4, <3>1
  <2> QED
    BY <2>1, <2>2, <2>3, <2>4 DEF Covered
<1> QED
  BY <1>3, <1>4

-----------------------------------------------------------------------------
(* The steps.                                                              *)

\* The end of a transaction: its worker holds nothing.
Empties(w) ==
  /\ DOMAIN work' = Workers /\ work'[w] = Nothing
  /\ \A v \in Workers \ {w} : work'[v] = work[v]

LEMMA Cleared ==
  ASSUME IInv, Persist, Keeps, NEW w \in Workers, Empties(w),
         NEW point \in {"idle", "committed"}, Goto(w, point), overlapped' = overlapped
  PROVE  /\ \A v \in Workers : Held(v)'
         /\ RefsKnown(w)' /\ Coverage(w)' /\ Overlap'
         /\ \A v \in Workers \ {w} : work'[v] = work[v]
         /\ pc' \in [Workers -> {"idle", "learning", "committed", "embedding"}]
         /\ DOMAIN work' = Workers
         /\ \A v \in Workers :
              /\ DOMAIN work'[v] = {"turn", "updates", "inserts"} /\ work'[v].turn \subseteq Turns
              /\ work'[v].inserts \in Seq(Memo)
              /\ \A u \in work'[v].updates :
                   /\ u[1] \in Rows'
                   /\ DOMAIN u[2] \subseteq {"recurrence", "refs", "confidence", "evidence", "status", "vector"}
<1>1. DOMAIN work = Workers /\ pc \in [Workers -> {"idle", "learning", "committed", "embedding"}]
  BY DEF IInv, TypeOK
<1>2. work'[w] = Nothing /\ DOMAIN work' = Workers /\ \A v \in Workers \ {w} : work'[v] = work[v]
  BY DEF Empties
<1>3. /\ pc'[w] = point /\ \A v \in Workers \ {w} : pc'[v] = pc[v]
      /\ pc' \in [Workers -> {"idle", "learning", "committed", "embedding"}]
  BY <1>1 DEF Goto
<1>4. /\ work'[w].turn = {} /\ work'[w].updates = {} /\ work'[w].inserts = << >>
      /\ DOMAIN work'[w] = {"turn", "updates", "inserts"} /\ DOMAIN work'[w].inserts = {}
  BY <1>2 DEF Nothing
<1>5. Held(w)'
  BY <1>2, <1>3, <1>4 DEF Held, Stage, OneEach, UpdatesPlanned, InsertsPlanned, Nothing
<1>6. \A v \in Workers : Held(v)'
  BY <1>2, <1>3, <1>5, OthersHold
<1>7. RefsKnown(w)' /\ Coverage(w)'
  BY <1>4 DEF RefsKnown, Coverage
<1>8. Overlap'
  BY <1>2, <1>4 DEF IInv, Overlap
<1>9. \A v \in Workers :
        /\ DOMAIN work'[v] = {"turn", "updates", "inserts"} /\ work'[v].turn \subseteq Turns
        /\ work'[v].inserts \in Seq(Memo)
        /\ \A u \in work'[v].updates :
             /\ u[1] \in Rows'
             /\ DOMAIN u[2] \subseteq {"recurrence", "refs", "confidence", "evidence", "status", "vector"}
  <2>1. << >> \in Seq(Memo)
    BY EmptySeq
  <2> QED
    BY <1>2, <1>4, <2>1 DEF IInv, TypeOK, Persist
<1> QED
  BY <1>2, <1>3, <1>6, <1>7, <1>8, <1>9

LEMMA CommitInv ==
  ASSUME IInv, NEW w \in Workers, CommitTurn(w)
  PROVE  IInv'
<1>1. /\ pc[w] = "learning" /\ Unique(Written(w)) /\ memories' = Written(w)
      /\ learned' = learned \cup work[w].turn /\ delivered' = delivered
      /\ overlapped' = overlapped /\ Empties(w) /\ Goto(w, "committed")
  BY DEF CommitTurn, IInv, TypeOK, Empties
<1>2. Persist /\ Keeps
  BY <1>1, RowsPersist, CommitKeeps
<1>3. /\ \A v \in Workers : Held(v)'
      /\ RefsKnown(w)' /\ Coverage(w)' /\ Overlap'
      /\ \A v \in Workers \ {w} : work'[v] = work[v]
      /\ pc' \in [Workers -> {"idle", "learning", "committed", "embedding"}]
      /\ DOMAIN work' = Workers
      /\ \A v \in Workers :
           /\ DOMAIN work'[v] = {"turn", "updates", "inserts"} /\ work'[v].turn \subseteq Turns
           /\ work'[v].inserts \in Seq(Memo)
           /\ \A u \in work'[v].updates :
                /\ u[1] \in Rows'
                /\ DOMAIN u[2] \subseteq {"recurrence", "refs", "confidence", "evidence", "status", "vector"}
  BY <1>1, <1>2, Cleared
<1>4. memories' \in Seq(Memo)
  BY <1>1, Rewritten
<1>5. TypeOK'
  <2>1. learned' \subseteq Turns
    BY <1>1 DEF IInv, TypeOK
  <2> QED
    BY <1>1, <1>3, <1>4, <2>1 DEF IInv, TypeOK
<1>6. Chain'
  BY <1>1, CommitChain
<1>7. CountedOnce' /\ FiniteRefs' /\ VectorQuotes'
  BY <1>1, CommitCounts
<1>8. \A v \in Workers : RefsKnown(v)' /\ Coverage(v)'
  BY <1>1, <1>3, CommitKnown
<1>9. TurnRemembered'
  BY <1>1, CommitRemembers
<1> QED
  BY <1>3, <1>5, <1>6, <1>7, <1>8, <1>9 DEF IInv

\* A step that leaves the table alone.
LEMMA SameTable ==
  ASSUME IInv, memories' = memories, learned' = learned, overlapped \subseteq overlapped'
  PROVE  /\ Rows' = Rows /\ Persist /\ Keeps
         /\ Chain' /\ CountedOnce' /\ FiniteRefs' /\ VectorQuotes' /\ TurnRemembered'
<1>1. Rows' = Rows
  BY DEF Rows
<1>2. Persist /\ Keeps
  BY <1>1 DEF Persist, Keeps
<1>3. Chain'
  BY <1>1 DEF IInv, Chain, Distinct, Linked, Follows, EndsAreLive, Newest, HasLive
<1>4. CountedOnce' /\ FiniteRefs' /\ VectorQuotes' /\ TurnRemembered'
  BY <1>1 DEF IInv, CountedOnce, FiniteRefs, VectorQuotes, TurnRemembered
<1> QED
  BY <1>1, <1>2, <1>3, <1>4

LEMMA OthersKnown ==
  ASSUME IInv, memories' = memories, overlapped \subseteq overlapped',
         NEW v \in Workers, work'[v] = work[v]
  PROVE  RefsKnown(v)' /\ Coverage(v)'
<1>1. RefsKnown(v)'
  <2>1. RefsKnown(v)
    BY DEF IInv
  <2> QED
    BY <2>1 DEF RefsKnown
<1>2. Coverage(v)'
  <2>1. Coverage(v)
    BY DEF IInv
  <2>2. ASSUME NEW d, NEW t, Covered(v, d, t)
        PROVE  Covered(v, d, t)'
    BY <2>2 DEF Covered, Rows
  <2> QED
    BY <2>1, <2>2 DEF Coverage
<1> QED
  BY <1>1, <1>2

LEMMA Stopped ==
  ASSUME IInv, NEW w \in Workers, Empties(w), Goto(w, "idle"),
         UNCHANGED <<memories, delivered, learned, overlapped>>
  PROVE  IInv'
<1>1. /\ memories' = memories /\ learned' = learned /\ delivered' = delivered
      /\ overlapped' = overlapped
  OBVIOUS
<1>2. /\ Rows' = Rows /\ Persist /\ Keeps
      /\ Chain' /\ CountedOnce' /\ FiniteRefs' /\ VectorQuotes' /\ TurnRemembered'
  BY <1>1, SameTable
<1>3. /\ \A v \in Workers : Held(v)'
      /\ RefsKnown(w)' /\ Coverage(w)' /\ Overlap'
      /\ \A v \in Workers \ {w} : work'[v] = work[v]
      /\ pc' \in [Workers -> {"idle", "learning", "committed", "embedding"}]
      /\ DOMAIN work' = Workers
      /\ \A v \in Workers :
           /\ DOMAIN work'[v] = {"turn", "updates", "inserts"} /\ work'[v].turn \subseteq Turns
           /\ work'[v].inserts \in Seq(Memo)
           /\ \A u \in work'[v].updates :
                /\ u[1] \in Rows'
                /\ DOMAIN u[2] \subseteq {"recurrence", "refs", "confidence", "evidence", "status", "vector"}
  BY <1>1, <1>2, Cleared
<1>4. TypeOK'
  BY <1>1, <1>3 DEF IInv, TypeOK
<1>5. ASSUME NEW v \in Workers
      PROVE  RefsKnown(v)' /\ Coverage(v)'
  <2>1. CASE v = w
    BY <1>3, <2>1
  <2>2. CASE v # w
    BY <1>1, <1>3, <2>2, OthersKnown
  <2> QED
    BY <2>1, <2>2
<1> QED
  BY <1>2, <1>3, <1>4, <1>5 DEF IInv

LEMMA RollBackInv ==
  ASSUME IInv, NEW w \in Workers, RollBack(w)
  PROVE  IInv'
<1>1. Empties(w)
  BY DEF RollBack, IInv, TypeOK, Empties
<1> QED
  BY <1>1, Stopped DEF RollBack

\* The column that an embedding call writes.
Embedded(r) ==
  \/ memories'[r].vector = memories[r].vector
  \/ \A v \in memories'[r].vector : /\ v[1] = memories[r].content
                                    /\ v[2] \subseteq memories[r].refs \cup overlapped

LEMMA EmbeddingRow ==
  ASSUME IInv, NEW w \in Workers, pc[w] = "embedding", memories' = Written(w)
  PROVE  /\ Rows' = Rows
         /\ \A r \in Rows :
              /\ memories'[r].status = memories[r].status
              /\ memories'[r].refs = memories[r].refs
              /\ memories'[r].recurrence = memories[r].recurrence
              /\ memories'[r].evidence = memories[r].evidence
              /\ Embedded(r)
<1>1. work[w].inserts = << >> /\ Len(work[w].inserts) = 0
  BY EmptySeq DEF IInv, Held, Stage
<1>2. Rows' = Rows
  BY <1>1, Rewritten
<1>3. ASSUME NEW r \in Rows
      PROVE  /\ memories'[r].status = memories[r].status
             /\ memories'[r].refs = memories[r].refs
             /\ memories'[r].recurrence = memories[r].recurrence
             /\ memories'[r].evidence = memories[r].evidence
             /\ Embedded(r)
  <2>1. memories[r] \in Memo
    BY RowTypes
  <2>2. CASE memories'[r] = memories[r]
    BY <2>2 DEF Embedded
  <2>3. ASSUME NEW u \in work[w].updates, u[1] = r, Applied(r, u)
        PROVE  /\ memories'[r].status = memories[r].status
               /\ memories'[r].refs = memories[r].refs
               /\ memories'[r].recurrence = memories[r].recurrence
               /\ memories'[r].evidence = memories[r].evidence
               /\ Embedded(r)
    <3>1. Embeds(u)
      BY DEF IInv, Held, UpdatesPlanned
    <3> QED
      <4>1. DOMAIN memories[r] = Columns
        BY <2>1, MemoFields
      <4>2. /\ DOMAIN u[2] = {"vector"}
            /\ \A v \in u[2].vector : /\ v[1] = memories[r].content
                                      /\ v[2] \subseteq memories[r].refs \cup overlapped
        BY <2>3, <3>1 DEF Embeds
      <4>3. /\ memories'[r].vector = u[2].vector
            /\ memories'[r].status = memories[r].status
            /\ memories'[r].refs = memories[r].refs
            /\ memories'[r].recurrence = memories[r].recurrence
            /\ memories'[r].evidence = memories[r].evidence
        BY <2>3, <4>1, <4>2 DEF Applied, Overwritten, Columns
      <4> QED
        BY <4>2, <4>3 DEF Embedded
  <2> QED
    BY <2>2, <2>3, Rewritten
<1> QED
  BY <1>2, <1>3

LEMMA WriteVectorsInv ==
  ASSUME IInv, NEW w \in Workers, WriteVectors(w)
  PROVE  IInv'
<1>1. /\ pc[w] = "embedding" /\ memories' = Written(w)
      /\ learned' = learned /\ delivered' = delivered
      /\ overlapped' = overlapped /\ Empties(w) /\ Goto(w, "idle")
  BY DEF WriteVectors, IInv, TypeOK, Empties
<1>2. Persist /\ Keeps
  BY <1>1, RowsPersist, EmbeddingRow DEF Keeps
<1>3. /\ \A v \in Workers : Held(v)'
      /\ RefsKnown(w)' /\ Coverage(w)' /\ Overlap'
      /\ \A v \in Workers \ {w} : work'[v] = work[v]
      /\ pc' \in [Workers -> {"idle", "learning", "committed", "embedding"}]
      /\ DOMAIN work' = Workers
      /\ \A v \in Workers :
           /\ DOMAIN work'[v] = {"turn", "updates", "inserts"} /\ work'[v].turn \subseteq Turns
           /\ work'[v].inserts \in Seq(Memo)
           /\ \A u \in work'[v].updates :
                /\ u[1] \in Rows'
                /\ DOMAIN u[2] \subseteq {"recurrence", "refs", "confidence", "evidence", "status", "vector"}
  BY <1>1, <1>2, Cleared
<1>4. TypeOK'
  <2>1. memories' \in Seq(Memo)
    BY <1>1, Rewritten
  <2> QED
    BY <1>1, <1>3, <2>1 DEF IInv, TypeOK
<1>5. /\ Rows' = Rows
      /\ \A r \in Rows :
           /\ memories'[r].status = memories[r].status
           /\ memories'[r].refs = memories[r].refs
           /\ memories'[r].recurrence = memories[r].recurrence
           /\ memories'[r].evidence = memories[r].evidence
           /\ Embedded(r)
  BY <1>1, EmbeddingRow
<1>6. \A r \in Rows :
        /\ memories'[r].key = memories[r].key /\ memories'[r].version = memories[r].version
        /\ memories'[r].content = memories[r].content
        /\ memories'[r].previous = memories[r].previous
  BY <1>2 DEF Persist
<1>7. Chain'
  <2>1. Distinct'
    BY <1>5, <1>6 DEF IInv, Chain, Distinct
  <2>2. Linked'
    <3>1. ASSUME NEW r \in Rows
          PROVE  Follows(memories[r])'
      <4>1. Follows(memories[r])
        BY DEF IInv, Chain, Linked
      <4>2. CASE memories[r].version = 1 /\ memories[r].previous = ""
        BY <1>6, <4>2 DEF Follows
      <4>3. ASSUME NEW s \in Rows, memories[s].key = memories[r].key,
                   memories[s].version + 1 = memories[r].version,
                   memories[s].content = memories[r].previous
            PROVE  Follows(memories[r])'
        BY <1>5, <1>6, <4>3 DEF Follows
      <4> QED
        BY <4>1, <4>2, <4>3 DEF Follows
    <3> QED
      BY <1>5, <3>1 DEF Linked
  <2>3. EndsAreLive'
    BY <1>5, <1>6 DEF IInv, Chain, EndsAreLive, Newest, Live
  <2>4. HasLive'
    BY <1>5, <1>6 DEF IInv, Chain, HasLive, Live
  <2> QED
    BY <2>1, <2>2, <2>3, <2>4 DEF Chain
<1>8. CountedOnce' /\ FiniteRefs'
  BY <1>5 DEF IInv, CountedOnce, FiniteRefs
<1>9. VectorQuotes'
  <2> SUFFICES ASSUME NEW r \in Rows
               PROVE  /\ memories'[r].evidence \subseteq memories'[r].refs
                      /\ \A v \in memories'[r].vector :
                           /\ v[1] = memories'[r].content
                           /\ v[2] \subseteq memories'[r].refs \cup overlapped
    BY <1>1, <1>5 DEF VectorQuotes
  <2>1. /\ memories'[r].refs = memories[r].refs /\ memories'[r].evidence = memories[r].evidence
        /\ memories'[r].content = memories[r].content
    BY <1>5, <1>6
  <2>2. /\ memories[r].evidence \subseteq memories[r].refs
        /\ \A v \in memories[r].vector : /\ v[1] = memories[r].content
                                         /\ v[2] \subseteq memories[r].refs \cup overlapped
    BY DEF IInv, VectorQuotes
  <2> QED
    BY <1>5, <2>1, <2>2 DEF Embedded
<1>10. TurnRemembered'
  BY <1>1, <1>5, <1>6 DEF IInv, TurnRemembered
<1>11. ASSUME NEW v \in Workers
       PROVE  RefsKnown(v)' /\ Coverage(v)'
  <2>1. CASE v = w
    BY <1>3, <2>1
  <2>2. CASE v # w
    <3>1. work'[v] = work[v] /\ \A u \in work[v].updates : u[1] \in Rows
      BY <1>3, <2>2 DEF IInv, TypeOK
    <3>2. RefsKnown(v)'
      <4>1. RefsKnown(v)
        BY DEF IInv
      <4>2. \A u \in work[v].updates : memories'[u[1]].refs = memories[u[1]].refs
        BY <1>5, <3>1
      <4> QED
        BY <1>1, <3>1, <4>1, <4>2 DEF RefsKnown
    <3>3. ASSUME NEW d, NEW t, Covered(v, d, t)
          PROVE  Covered(v, d, t)'
      BY <1>1, <1>5, <1>6, <3>1, <3>3 DEF Covered
    <3>4. Coverage(v)'
      BY <3>1, <3>3 DEF IInv, Coverage
    <3> QED
      BY <3>2, <3>4
  <2> QED
    BY <2>1, <2>2
<1> QED
  BY <1>3, <1>4, <1>7, <1>8, <1>9, <1>10, <1>11 DEF IInv

\* What embed_pending_memories reads.
LEMMA ReadPendingInv ==
  ASSUME IInv, NEW w \in Workers, ReadPending(w)
  PROVE  IInv'
<1>1. /\ pc[w] = "committed" /\ memories' = memories /\ delivered' = delivered
      /\ learned' = learned /\ overlapped' = overlapped
  BY DEF ReadPending
<1>2. PICK some \in SUBSET Rows :
        IF some = {} THEN Goto(w, "idle") /\ UNCHANGED work
        ELSE /\ work' = [work EXCEPT ![w] = [Nothing EXCEPT !.updates =
                           {<<r, [vector |-> {Text(memories[r])}]>> : r \in some}]]
             /\ Goto(w, "embedding")
  BY DEF ReadPending
<1>3. /\ Rows' = Rows /\ Persist /\ Keeps
      /\ Chain' /\ CountedOnce' /\ FiniteRefs' /\ VectorQuotes' /\ TurnRemembered'
  BY <1>1, SameTable
<1>4. work[w] = Nothing /\ DOMAIN work = Workers
      /\ pc \in [Workers -> {"idle", "learning", "committed", "embedding"}]
  BY <1>1 DEF IInv, Held, Stage, TypeOK
<1>5. CASE some = {}
  <2>1. Goto(w, "idle") /\ work' = work
    BY <1>2, <1>5
  <2>2. Empties(w)
    BY <1>4, <2>1 DEF Empties
  <2> QED
    BY <1>1, <2>1, <2>2, Stopped
<1>6. CASE some # {}
  <2> DEFINE U == {<<r, [vector |-> {Text(memories[r])}]>> : r \in some}
             W == [Nothing EXCEPT !.updates = U]
  <2>1. work' = [work EXCEPT ![w] = W] /\ Goto(w, "embedding")
    BY <1>2, <1>6
  <2>2. /\ W.turn = {} /\ W.updates = U /\ W.inserts = << >>
        /\ DOMAIN W = {"turn", "updates", "inserts"} /\ DOMAIN W.inserts = {}
    <3> HIDE DEF U
    <3> QED
      BY DEF Nothing
  <2> HIDE DEF W
  <2>3. /\ work'[w] = W /\ DOMAIN work' = Workers /\ \A v \in Workers \ {w} : work'[v] = work[v]
        /\ pc'[w] = "embedding" /\ \A v \in Workers \ {w} : pc'[v] = pc[v]
        /\ pc' \in [Workers -> {"idle", "learning", "committed", "embedding"}]
    BY <1>4, <2>1 DEF Goto
  <2>4. /\ work'[w].turn = {} /\ work'[w].updates = U /\ work'[w].inserts = << >>
        /\ DOMAIN work'[w] = {"turn", "updates", "inserts"} /\ DOMAIN work'[w].inserts = {}
    BY <2>2, <2>3
  <2>5. \A u \in U : u[1] \in Rows /\ u[2] = [vector |-> {Text(memories[u[1]])}]
    OBVIOUS
  <2>6. \A u \in U : DOMAIN u[2] = {"vector"}
    BY <2>5
  <2>7. OneEach(w)'
    <3> DEFINE F(r) == <<r, [vector |-> {Text(memories[r])}]>>
    <3>1. \A u \in U : u = F(u[1])
      OBVIOUS
    <3> HIDE DEF F, U
    <3> QED
      BY <2>4, <3>1 DEF OneEach
  <2>8. UpdatesPlanned(w)'
    <3>1. ASSUME NEW u \in U
          PROVE  Embeds(u)'
      <4> DEFINE m == memories[u[1]]
      <4>1. /\ u[1] \in Rows /\ DOMAIN u[2] = {"vector"} /\ u[2].vector = {Text(m)}
            /\ m \in Memo
        BY <2>5, <2>6, RowTypes
      <4>2. /\ m.content \in Texts /\ m.evidence \in SUBSET Turns /\ m.evidence \subseteq m.refs
        BY <4>1, MemoFields DEF IInv, VectorQuotes
      <4>3. /\ u[2].vector \subseteq Texts \X SUBSET Turns
            /\ \A v \in u[2].vector : v[1] = m.content /\ v[2] \subseteq m.refs \cup overlapped
        BY <4>1, <4>2 DEF Text
      <4> QED
        BY <1>1, <4>1, <4>3 DEF Embeds
    <3> QED
      BY <2>3, <2>4, <3>1 DEF UpdatesPlanned
  <2>9. Stage(w)' /\ InsertsPlanned(w)'
    BY <2>3, <2>4 DEF Stage, InsertsPlanned
  <2>10. Held(w)'
    BY <2>7, <2>8, <2>9 DEF Held
  <2>11. RefsKnown(w)' /\ Coverage(w)'
    BY <2>4, <2>6 DEF RefsKnown, Coverage
  <2>12. ASSUME NEW v \in Workers
         PROVE  Held(v)' /\ RefsKnown(v)' /\ Coverage(v)'
    <3>1. CASE v = w
      BY <2>10, <2>11, <3>1
    <3>2. CASE v # w
      BY <1>1, <1>3, <2>3, <3>2, OthersHold, OthersKnown
    <3> QED
      BY <3>1, <3>2
  <2>13. Overlap'
    BY <1>1, <2>3, <2>4 DEF IInv, Overlap
  <2>14. TypeOK'
    <3>1. << >> \in Seq(Memo)
      BY EmptySeq
    <3>2. \A v \in Workers :
            /\ DOMAIN work'[v] = {"turn", "updates", "inserts"} /\ work'[v].turn \subseteq Turns
            /\ work'[v].inserts \in Seq(Memo)
            /\ \A u \in work'[v].updates :
                 /\ u[1] \in Rows'
                 /\ DOMAIN u[2] \subseteq {"recurrence", "refs", "confidence", "evidence", "status", "vector"}
      <4> SUFFICES ASSUME NEW v \in Workers
                   PROVE  /\ DOMAIN work'[v] = {"turn", "updates", "inserts"}
                          /\ work'[v].turn \subseteq Turns /\ work'[v].inserts \in Seq(Memo)
                          /\ \A u \in work'[v].updates :
                               /\ u[1] \in Rows'
                               /\ DOMAIN u[2] \subseteq
                                    {"recurrence", "refs", "confidence", "evidence", "status", "vector"}
        OBVIOUS
      <4>1. CASE v = w
        BY <1>3, <2>4, <2>5, <2>6, <3>1, <4>1
      <4>2. CASE v # w
        BY <1>3, <2>3, <4>2 DEF IInv, TypeOK
      <4> QED
        BY <4>1, <4>2
    <3> QED
      BY <1>1, <2>3, <3>2 DEF IInv, TypeOK
  <2> QED
    BY <1>3, <2>12, <2>13, <2>14 DEF IInv
<1> QED
  BY <1>5, <1>6

-----------------------------------------------------------------------------
(* What a follow-up reads and plans.                                       *)

LEMMA DraftFields ==
  ASSUME NEW d \in Draft
  PROVE  /\ d.key \in Keys /\ d.content \in Texts
         /\ d.status \in {"active", "candidate"} /\ d.confidence \in Nat
         /\ d.quoted \in BOOLEAN
  BY DEF Draft

\* A repetition counts the message that the memory did not rest on.
LEMMA Strengthened ==
  ASSUME NEW m \in Memo, NEW d \in Draft, NEW t \in Turns, IsFiniteSet(m.refs),
         m.recurrence = Cardinality(m.refs), m.evidence \subseteq m.refs,
         t \notin m.refs, NEW r
  PROVE  /\ Strengthens(<<r, Strengthen(m, d, t)>>)
         /\ "refs" \in DOMAIN Strengthen(m, d, t)
         /\ Strengthen(m, d, t).refs = m.refs \cup {t}
<1> DEFINE s == Strengthen(m, d, t)
           u == <<r, s>>
<1>1. /\ {"recurrence", "refs", "confidence", "evidence"} \subseteq DOMAIN s
      /\ DOMAIN s \subseteq {"recurrence", "refs", "confidence", "evidence", "status"}
  BY DEF Strengthen
<1>2. s.recurrence = m.recurrence + 1 /\ s.refs = m.refs \cup {t}
  BY DEF Strengthen
<1>3. s.confidence \in Nat
  BY DEF Strengthen, Memo, Draft
<1>4. "status" \in DOMAIN s => s.status = "active"
  BY DEF Strengthen
<1>5. IsFiniteSet(s.refs) /\ Cardinality(s.refs) = Cardinality(m.refs) + 1
  <2>1. /\ IsFiniteSet(m.refs \cup {t})
        /\ Cardinality(m.refs \cup {t}) = Cardinality(m.refs) + 1
    BY FS_AddElement
  <2> QED
    BY <1>2, <2>1
<1>6. s.refs \in (SUBSET Turns) \ {{}}
  BY <1>2 DEF Memo
<1>7. u[2] = s
  OBVIOUS
<1>7a. s.evidence \subseteq s.refs
  <2>1. s.evidence = Quote(m, d, t)
    BY DEF Strengthen
  <2> HIDE DEF s
  <2> QED
    BY <1>2, <2>1 DEF Quote
<1> HIDE DEF s, u
<1>8. Strengthens(u)
  BY <1>1, <1>2, <1>3, <1>4, <1>5, <1>6, <1>7, <1>7a DEF Strengthens
<1> QED
  BY <1>1, <1>2, <1>8 DEF s, u

\* A new row follows the live memory of its key.
LEMMA Formed ==
  ASSUME IInv, NEW d \in Draft, NEW t \in Turns
  PROVE  LET m == Form(d, t, {memories[r] : r \in Existing(d)})
         IN /\ m \in Memo /\ m.key = d.key
            /\ Live(m) /\ m.recurrence = 1 /\ m.refs = {t} /\ m.vector = {}
            /\ m.evidence \subseteq m.refs /\ Follows(m)
            /\ \A r \in Existing(d) : m.version = memories[r].version + 1
<1> DEFINE before == {memories[r] : r \in Existing(d)}
           m == Form(d, t, before)
           last == CHOOSE x \in before : TRUE
<1>1. \A r \in Existing(d) : r \in Rows /\ memories[r] \in Memo /\ memories[r].key = d.key
                             /\ Live(memories[r])
  BY RowTypes DEF Existing
<1>2. \A r, s \in Existing(d) : r = s
  BY <1>1, OneLive
<1>3. /\ m.key = d.key /\ m.content = d.content /\ m.status = d.status
      /\ m.confidence = d.confidence /\ m.recurrence = 1 /\ m.refs = {t} /\ m.vector = {}
      /\ m.evidence = (IF d.quoted THEN {t} ELSE {})
      /\ m.version = (IF before = {} THEN 1 ELSE last.version + 1)
      /\ m.previous = (IF before = {} THEN "" ELSE last.content)
  BY DEF Form
<1> HIDE DEF m
<1>3a. ASSUME m.version \in Nat \ {0}, m.previous \in Texts \cup {""}
       PROVE  m \in Memo
  <2>1. m = [key |-> m.key, content |-> m.content, status |-> m.status,
             confidence |-> m.confidence, version |-> m.version, previous |-> m.previous,
             recurrence |-> m.recurrence, refs |-> m.refs, vector |-> m.vector,
             evidence |-> m.evidence]
    BY DEF Form, m
  <2>2. /\ m.key \in Keys /\ m.content \in Texts /\ m.vector \in SUBSET (Texts \X SUBSET Turns)
        /\ m.evidence \in SUBSET Turns
        /\ m.status \in {"active", "candidate", "superseded"} /\ m.confidence \in Nat
        /\ m.recurrence \in Nat \ {0} /\ m.refs \in (SUBSET Turns) \ {{}}
    <3>1. /\ d.key \in Keys /\ d.content \in Texts /\ d.confidence \in Nat
          /\ d.status \in {"active", "candidate", "superseded"}
      BY DraftFields
    <3>2. m.refs \in (SUBSET Turns) \ {{}}
      BY <1>3
    <3>3. m.vector \in SUBSET (Texts \X SUBSET Turns) /\ m.evidence \in SUBSET Turns
      BY <1>3
    <3>4. m.recurrence \in Nat \ {0}
      <4>1. m.recurrence = 1
        BY <1>3
      <4> QED
        BY <4>1
    <3> QED
      BY <1>3, <3>1, <3>2, <3>3, <3>4
  <2> QED
    BY <1>3a, <2>1, <2>2 DEF Memo
<1>4. Live(m) /\ m.evidence \subseteq m.refs
  BY <1>3 DEF Live, Draft
<1>5. m \in Memo /\ Follows(m) /\ \A r \in Existing(d) : m.version = memories[r].version + 1
  <2>1. CASE Existing(d) = {}
    <3>1. m.version = 1
      BY <1>3, <2>1
    <3>2. m.previous = ""
      BY <1>3, <2>1
    <3>3. m.version \in Nat \ {0}
      BY <3>1
    <3>4. m.previous \in Texts \cup {""}
      BY <3>2
    <3>5. m \in Memo
      BY <1>3a, <3>3, <3>4
    <3>6. Follows(m)
      BY <3>1, <3>2, Zenon DEF Follows
    <3> QED
      BY <2>1, <3>5, <3>6
  <2>2. CASE Existing(d) # {}
    <3>1. PICK r \in Existing(d) : TRUE
      BY <2>2
    <3>2. before = {memories[r]}
      BY <1>2, <3>1
    <3>3. last = memories[r]
      BY <3>2
    <3>4. m.version = memories[r].version + 1 /\ m.previous = memories[r].content
      BY <1>3, <3>2, <3>3
    <3>5. /\ memories[r].version \in Nat \ {0} /\ memories[r].version + 1 \in Nat \ {0}
          /\ memories[r].content \in Texts /\ memories[r].content \in Texts \cup {""}
      <4>1. memories[r].version \in Nat \ {0}
        BY <1>1, <3>1, MemoFields
      <4>2. memories[r].version + 1 \in Nat \ {0}
        BY <4>1
      <4>3. memories[r].content \in Texts
        BY <1>1, <3>1, MemoFields
      <4>4. memories[r].content \in Texts \cup {""}
        BY <4>3
      <4> QED
        BY <4>1, <4>2, <4>3, <4>4
    <3>6. m \in Memo
      BY <1>3a, <3>4, <3>5
    <3>7. Follows(m)
      BY <1>1, <1>3, <3>1, <3>4 DEF Follows
    <3> QED
      BY <1>2, <3>1, <3>4, <3>6, <3>7
  <2> QED
    BY <2>1, <2>2
<1> QED
  BY <1>3, <1>4, <1>5 DEF m

\* What apply_memory_drafts plans of what it reads.
Reads(t, fresh, same, changed) ==
  /\ fresh = {d \in Merged(Taught[t]) : \A r \in Existing(d) : ~Known(memories[r], t)}
  /\ same \subseteq fresh \X Rows /\ changed \subseteq fresh \X Rows /\ same \cap changed = {}
  /\ \A d \in fresh : \A r \in Existing(d) : <<d, r>> \in same \cup changed
  /\ \A p \in same \cup changed : p[2] \in Existing(p[1])

NewRow(d, t) == Form(d, t, {memories[r] : r \in Existing(d)})
Unmatched(fresh, same) == {d \in fresh : \A p \in same : p[1] # d}

Writes(t, fresh, same, changed, updates, news) ==
  /\ news = {NewRow(d, t) : d \in Unmatched(fresh, same)}
  /\ updates = {<<p[2], Strengthen(memories[p[2]], p[1], t)>> : p \in same}
                 \cup {<<p[2], [status |-> "superseded"]>> : p \in changed}

LEMMA LearnPlans ==
  ASSUME IInv, NEW w \in Workers, NEW t \in Turns,
         NEW updates, NEW news, NEW fresh, NEW same, NEW changed,
         Reads(t, fresh, same, changed), Writes(t, fresh, same, changed, updates, news),
         work'[w].turn = {t}, work'[w].updates = updates, work'[w].inserts = SetToSeq(news),
         pc'[w] = "learning", memories' = memories, overlapped \subseteq overlapped'
  PROVE  /\ Held(w)' /\ RefsKnown(w)' /\ Coverage(w)'
         /\ work'[w].inserts \in Seq(Memo)
         /\ \A u \in work'[w].updates :
              /\ u[1] \in Rows
              /\ DOMAIN u[2] \subseteq {"recurrence", "refs", "confidence", "evidence", "status", "vector"}
<1> DEFINE U == Unmatched(fresh, same)
           F(d) == NewRow(d, t)
<1>1. /\ fresh \subseteq Draft /\ IsFiniteSet(fresh)
      /\ \A d, e \in fresh : d.key = e.key => d = e
  <2>1. fresh \subseteq Merged(Taught[t])
    BY DEF Reads
  <2> QED
    BY <2>1, MergedDrafts, FS_Subset
<1>2. \A d \in fresh : /\ F(d) \in Memo /\ F(d).key = d.key
                       /\ Live(F(d)) /\ F(d).recurrence = 1 /\ F(d).refs = {t}
                       /\ F(d).vector = {} /\ F(d).evidence \subseteq F(d).refs
                       /\ Follows(F(d))
                       /\ \A r \in Existing(d) : F(d).version = memories[r].version + 1
  BY <1>1, Formed DEF NewRow
<1>3. news = {F(d) : d \in U} /\ U \subseteq fresh
  BY DEF Writes, Unmatched
<1>4. IsFiniteSet(news)
  <2> DEFINE f == [d \in U |-> F(d)]
  <2>1. f \in Surjection(U, news)
    BY <1>3 DEF Surjection
  <2>2. IsFiniteSet(U)
    BY <1>1, <1>3, FS_Subset
  <2> QED
    BY <2>1, <2>2, FS_Surjection
<1>5. /\ SetToSeq(news) \in Seq(news)
      /\ \A x \in news : \E i \in DOMAIN SetToSeq(news) : SetToSeq(news)[i] = x
      /\ \A i \in DOMAIN SetToSeq(news) : SetToSeq(news)[i] \in news
  BY <1>4, Listed
<1>6. news \subseteq Memo
  BY <1>2, <1>3
<1>7. work'[w].inserts \in Seq(Memo)
  BY <1>5, <1>6, SeqMonotonic
<1>8. \A p \in same \cup changed :
        /\ p[1] \in fresh /\ p[2] \in Rows /\ p[2] \in Existing(p[1]) /\ memories[p[2]].key = p[1].key
        /\ Live(memories[p[2]]) /\ t \notin memories[p[2]].refs
  BY DEF Existing, Known, Reads
<1>9. \A p, q \in same \cup changed : p[2] = q[2] => p = q
  <2> SUFFICES ASSUME NEW p \in same \cup changed, NEW q \in same \cup changed, p[2] = q[2]
               PROVE  p = q
    OBVIOUS
  <2>1. p[1] = q[1]
    BY <1>1, <1>8
  <2>2. p = <<p[1], p[2]>> /\ q = <<q[1], q[2]>>
    BY DEF Reads
  <2> QED
    BY <2>1, <2>2
<1>10. \A p, q \in same \cup changed : p[1] = q[1] => p = q
  <2> SUFFICES ASSUME NEW p \in same \cup changed, NEW q \in same \cup changed, p[1] = q[1]
               PROVE  p = q
    OBVIOUS
  <2>1. p[2] = q[2]
    BY <1>8, OneLive
  <2> QED
    BY <1>9, <2>1
<1>11. \A p \in same : /\ Strengthens(<<p[2], Strengthen(memories[p[2]], p[1], t)>>)
                       /\ "refs" \in DOMAIN Strengthen(memories[p[2]], p[1], t)
                       /\ Strengthen(memories[p[2]], p[1], t).refs = memories[p[2]].refs \cup {t}
  <2> SUFFICES ASSUME NEW p \in same
               PROVE  /\ Strengthens(<<p[2], Strengthen(memories[p[2]], p[1], t)>>)
                      /\ "refs" \in DOMAIN Strengthen(memories[p[2]], p[1], t)
                      /\ Strengthen(memories[p[2]], p[1], t).refs = memories[p[2]].refs \cup {t}
    OBVIOUS
  <2>1. /\ memories[p[2]] \in Memo /\ IsFiniteSet(memories[p[2]].refs)
        /\ memories[p[2]].recurrence = Cardinality(memories[p[2]].refs)
        /\ memories[p[2]].evidence \subseteq memories[p[2]].refs
    BY <1>8, RowTypes DEF IInv, FiniteRefs, CountedOnce, VectorQuotes
  <2>2. p[1] \in Draft /\ t \notin memories[p[2]].refs
    BY <1>1, <1>8
  <2> QED
    BY <2>1, <2>2, Strengthened
<1>12. \A u \in updates : \/ \E p \in same : u = <<p[2], Strengthen(memories[p[2]], p[1], t)>>
                          \/ \E p \in changed : u = <<p[2], [status |-> "superseded"]>>
  BY DEF Writes
<1>13. ASSUME NEW p \in changed
       PROVE  \E i \in DOMAIN SetToSeq(news) :
                /\ SetToSeq(news)[i].key = memories[p[2]].key
                /\ SetToSeq(news)[i].version = memories[p[2]].version + 1
  <2>1. p[1] \in U
    BY <1>8, <1>10 DEF Unmatched, Reads
  <2>2. F(p[1]) \in news /\ F(p[1]).key = memories[p[2]].key
        /\ F(p[1]).version = memories[p[2]].version + 1
    BY <1>2, <1>3, <1>8, <2>1
  <2> QED
    BY <1>5, <2>2
<1>14. OneEach(w)'
  <2> SUFFICES ASSUME NEW u \in updates, NEW v \in updates, u[1] = v[1]
               PROVE  u = v
    BY DEF OneEach
  <2>1. CASE \E p \in same : u = <<p[2], Strengthen(memories[p[2]], p[1], t)>>
    <3>1. PICK p \in same : u = <<p[2], Strengthen(memories[p[2]], p[1], t)>>
      BY <2>1
    <3>2. CASE \E q \in same : v = <<q[2], Strengthen(memories[q[2]], q[1], t)>>
      BY <1>9, <3>1, <3>2 DEF Reads
    <3>3. CASE \E q \in changed : v = <<q[2], [status |-> "superseded"]>>
      BY <1>9, <3>1, <3>3 DEF Reads
    <3> QED
      BY <1>12, <3>2, <3>3
  <2>2. CASE \E p \in changed : u = <<p[2], [status |-> "superseded"]>>
    <3>1. PICK p \in changed : u = <<p[2], [status |-> "superseded"]>>
      BY <2>2
    <3>2. CASE \E q \in same : v = <<q[2], Strengthen(memories[q[2]], q[1], t)>>
      BY <1>9, <3>1, <3>2 DEF Reads
    <3>3. CASE \E q \in changed : v = <<q[2], [status |-> "superseded"]>>
      BY <3>1, <3>3
    <3> QED
      BY <1>12, <3>2, <3>3
  <2> QED
    BY <1>12, <2>1, <2>2
<1>15. ASSUME NEW u \in updates
       PROVE  /\ u[1] \in Rows
              /\ DOMAIN u[2] \subseteq {"recurrence", "refs", "confidence", "evidence", "status", "vector"}
              /\ (Strengthens(u) \/ Supersedes(w, u))'
              /\ "refs" \in DOMAIN u[2] => u[2].refs = memories[u[1]].refs \cup {t}
  <2>1. ASSUME NEW p \in same, u = <<p[2], Strengthen(memories[p[2]], p[1], t)>>
        PROVE  /\ u[1] \in Rows
               /\ DOMAIN u[2] \subseteq {"recurrence", "refs", "confidence", "evidence", "status", "vector"}
               /\ (Strengthens(u) \/ Supersedes(w, u))'
               /\ "refs" \in DOMAIN u[2] => u[2].refs = memories[u[1]].refs \cup {t}
    <3>1. Strengthens(u)
      BY <1>11, <2>1
    <3>2. DOMAIN u[2] \subseteq {"recurrence", "refs", "confidence", "evidence", "status", "vector"}
      BY <3>1 DEF Strengthens
    <3>3. Strengthens(u)'
      BY <3>1 DEF Strengthens
    <3>4. u[1] = p[2] /\ u[2] = Strengthen(memories[p[2]], p[1], t)
      BY <2>1
    <3> QED
      BY <1>8, <1>11, <3>2, <3>3, <3>4
  <2>2. ASSUME NEW p \in changed, u = <<p[2], [status |-> "superseded"]>>
        PROVE  /\ u[1] \in Rows
               /\ DOMAIN u[2] \subseteq {"recurrence", "refs", "confidence", "evidence", "status", "vector"}
               /\ (Strengthens(u) \/ Supersedes(w, u))'
               /\ "refs" \in DOMAIN u[2] => u[2].refs = memories[u[1]].refs \cup {t}
    <3>1. u[1] = p[2] /\ u[2] = [status |-> "superseded"] /\ DOMAIN u[2] = {"status"}
      BY <2>2
    <3>2. Supersedes(w, u)'
      BY <1>13, <3>1 DEF Supersedes
    <3> QED
      BY <1>8, <3>1, <3>2
  <2> QED
    BY <1>12, <2>1, <2>2
<1>16. UpdatesPlanned(w)'
  BY <1>15 DEF UpdatesPlanned
<1>17. InsertsPlanned(w)'
  <2> SUFFICES ASSUME NEW i \in DOMAIN SetToSeq(news)
               PROVE  LET m == SetToSeq(news)[i]
                      IN /\ Live(m) /\ m.recurrence = 1 /\ m.refs = {t} /\ m.vector = {}
                         /\ m.evidence \subseteq m.refs /\ Follows(m)'
    BY DEF InsertsPlanned
  <2>1. PICK x \in news : SetToSeq(news)[i] = x
    BY <1>5
  <2>2. /\ Live(x) /\ x.recurrence = 1 /\ x.refs = {t} /\ x.vector = {}
        /\ x.evidence \subseteq x.refs /\ Follows(x)
    BY <1>2, <1>3
  <2>3. Follows(x)'
    BY <2>2 DEF Follows, Rows
  <2> QED
    BY <2>1, <2>2, <2>3
<1>18. Stage(w)'
  BY DEF Stage
<1>19. RefsKnown(w)'
  BY <1>15 DEF RefsKnown
<1>20. Coverage(w)'
  <2> SUFFICES ASSUME NEW d \in Merged(Taught[t])
               PROVE  Covered(w, d, t)'
    BY DEF Coverage
  <2>1. CASE d \notin fresh
    <3>1. PICK r \in Existing(d) : t \in memories[r].refs
      BY <2>1 DEF Known, Reads
    <3> QED
      BY <3>1 DEF Covered, Existing, Rows
  <2>2. ASSUME d \in fresh, NEW p \in same, p[1] = d
        PROVE  Covered(w, d, t)'
    <3> DEFINE u == <<p[2], Strengthen(memories[p[2]], p[1], t)>>
    <3>1. u \in updates
      BY DEF Writes
    <3>2. u[1] = p[2] /\ u[2] = Strengthen(memories[p[2]], p[1], t)
      OBVIOUS
    <3>3. memories[u[1]].key = d.key /\ "refs" \in DOMAIN u[2] /\ t \in u[2].refs
      BY <1>8, <1>11, <2>2, <3>2
    <3> HIDE DEF u
    <3> QED
      BY <3>1, <3>3 DEF Covered
  <2>3. CASE d \in U
    <3>1. F(d) \in news /\ F(d).key = d.key /\ t \in F(d).refs
      BY <1>2, <1>3, <2>3
    <3>2. PICK i \in DOMAIN SetToSeq(news) : SetToSeq(news)[i] = F(d)
      BY <1>5, <3>1
    <3> QED
      BY <3>1, <3>2 DEF Covered
  <2> QED
    BY <2>1, <2>2, <2>3 DEF Unmatched
<1>21. Held(w)'
  BY <1>14, <1>16, <1>17, <1>18 DEF Held
<1> QED
  BY <1>7, <1>15, <1>19, <1>20, <1>21

LEMMA LearnInv ==
  ASSUME IInv, NEW w \in Workers, NEW t \in Turns, Learn(w, t)
  PROVE  IInv'
<1> DEFINE drafts  == Merged(Taught[t])
           fresh   == {d \in drafts : \A r \in Existing(d) : ~Known(memories[r], t)}
           found   == {p \in fresh \X Rows : p[2] \in Existing(p[1])}
           same    == {p \in found : <<memories[p[2]].content, p[1].content>> \in SameMeaning}
           changed == found \ same
           news    == {Form(d, t, {memories[r] : r \in Existing(d)}) :
                         d \in {d \in fresh : \A p \in same : p[1] # d}}
           updates == {<<p[2], Strengthen(memories[p[2]], p[1], t)>> : p \in same}
                        \cup {<<p[2], [status |-> "superseded"]>> : p \in changed}
           others  == UNION {work[v].turn : v \in Workers}
           W       == [turn |-> {t}, updates |-> updates, inserts |-> SetToSeq(news)]
<1>1. /\ pc[w] = "idle" /\ delivered[t] < Deliveries
      /\ delivered' = [delivered EXCEPT ![t] = @ + 1]
      /\ work' = [work EXCEPT ![w] = W] /\ Goto(w, "learning")
      /\ overlapped' = IF others = {} THEN overlapped ELSE overlapped \cup others \cup {t}
      /\ memories' = memories /\ learned' = learned
  BY DEF Learn
<1>2. Reads(t, fresh, same, changed)
  <2>1. \A d \in fresh : \A r \in Existing(d) : <<d, r>> \in found
    BY DEF Existing
  <2> QED
    BY <2>1 DEF Reads
<1>3. Writes(t, fresh, same, changed, updates, news)
  BY DEF Writes, NewRow, Unmatched
<1> HIDE DEF fresh, found, same, changed, news, updates, drafts
<1>4. /\ W.turn = {t} /\ W.updates = updates /\ W.inserts = SetToSeq(news)
      /\ DOMAIN W = {"turn", "updates", "inserts"}
  OBVIOUS
<1> HIDE DEF W, others
<1>5. DOMAIN work = Workers /\ pc \in [Workers -> {"idle", "learning", "committed", "embedding"}]
      /\ delivered \in [Turns -> 0..Deliveries] /\ overlapped \subseteq Turns
  BY DEF IInv, TypeOK
<1>6. /\ work'[w] = W /\ DOMAIN work' = Workers /\ \A v \in Workers \ {w} : work'[v] = work[v]
      /\ pc'[w] = "learning" /\ \A v \in Workers \ {w} : pc'[v] = pc[v]
      /\ pc' \in [Workers -> {"idle", "learning", "committed", "embedding"}]
  BY <1>1, <1>5 DEF Goto
<1>7. overlapped \subseteq overlapped'
  BY <1>1
<1>8. /\ Rows' = Rows /\ Persist /\ Keeps
      /\ Chain' /\ CountedOnce' /\ FiniteRefs' /\ VectorQuotes' /\ TurnRemembered'
  BY <1>1, <1>7, SameTable
<1>9. /\ Held(w)' /\ RefsKnown(w)' /\ Coverage(w)'
      /\ work'[w].inserts \in Seq(Memo)
      /\ \A u \in work'[w].updates :
           /\ u[1] \in Rows
           /\ DOMAIN u[2] \subseteq {"recurrence", "refs", "confidence", "evidence", "status", "vector"}
  BY <1>1, <1>2, <1>3, <1>4, <1>6, <1>7, LearnPlans
<1>10. ASSUME NEW v \in Workers
       PROVE  Held(v)' /\ RefsKnown(v)' /\ Coverage(v)'
  <2>1. CASE v = w
    BY <1>9, <2>1
  <2>2. CASE v # w
    BY <1>1, <1>6, <1>7, <1>8, <2>2, OthersHold, OthersKnown
  <2> QED
    BY <2>1, <2>2
<1>11. Overlap'
  <2> SUFFICES ASSUME NEW u \in Workers, NEW v \in Workers, u # v,
                      work'[u].turn # {}, work'[v].turn # {}
               PROVE  work'[u].turn \cup work'[v].turn \subseteq overlapped'
    BY DEF Overlap
  <2>1. ASSUME NEW x \in Workers, x # w, work'[x].turn # {}
        PROVE  work'[x].turn \cup {t} \subseteq overlapped'
    <3>1. work'[x].turn = work[x].turn /\ work[x].turn \subseteq others
      BY <1>6, <2>1 DEF others
    <3>2. others # {}
      BY <2>1, <3>1
    <3> QED
      BY <1>1, <3>1, <3>2
  <2>2. work'[w].turn = {t}
    BY <1>4, <1>6
  <2>3. CASE u # w /\ v # w
    BY <2>1, <2>3
  <2>4. CASE u = w
    BY <2>1, <2>2, <2>4
  <2>5. CASE v = w
    BY <2>1, <2>2, <2>5
  <2> QED
    BY <2>3, <2>4, <2>5
<1>12. TypeOK'
  <2>1. others \subseteq Turns
    BY DEF others, IInv, TypeOK
  <2>2. overlapped' \subseteq Turns
    BY <1>1, <1>5, <2>1
  <2>3. delivered' \in [Turns -> 0..Deliveries]
    BY <1>1, <1>5, Bounds
  <2>4. ASSUME NEW v \in Workers
        PROVE  /\ DOMAIN work'[v] = {"turn", "updates", "inserts"}
               /\ work'[v].turn \subseteq Turns /\ work'[v].inserts \in Seq(Memo)
               /\ \A u \in work'[v].updates :
                    /\ u[1] \in Rows'
                    /\ DOMAIN u[2] \subseteq
                         {"recurrence", "refs", "confidence", "evidence", "status", "vector"}
    <3>1. CASE v = w
      BY <1>4, <1>6, <1>8, <1>9, <3>1
    <3>2. CASE v # w
      BY <1>6, <1>8, <3>2 DEF IInv, TypeOK
    <3> QED
      BY <3>1, <3>2
  <2> QED
    BY <1>1, <1>6, <2>2, <2>3, <2>4 DEF IInv, TypeOK
<1> QED
  BY <1>8, <1>10, <1>11, <1>12 DEF IInv

-----------------------------------------------------------------------------
(* The theorems.                                                           *)

LEMMA InitInv == Init => IInv
<1> SUFFICES ASSUME Init PROVE IInv
  OBVIOUS
<1>1. Rows = {} /\ memories \in Seq(Memo)
  BY EmptySeq DEF Init, Rows
<1>2. << >> \in Seq(Memo)
  BY EmptySeq
<1>3. \A w \in Workers :
        /\ pc[w] = "idle" /\ work[w] = Nothing /\ work[w].turn = {} /\ work[w].updates = {}
        /\ work[w].inserts = << >> /\ DOMAIN work[w].inserts = {}
        /\ DOMAIN work[w] = {"turn", "updates", "inserts"}
  BY DEF Init, Nothing
<1>4. TypeOK
  <2>1. delivered \in [Turns -> 0..Deliveries] /\ learned = {} /\ overlapped = {}
        /\ pc \in [Workers -> {"idle", "learning", "committed", "embedding"}]
        /\ DOMAIN work = Workers
    BY Bounds DEF Init
  <2> QED
    BY <1>1, <1>2, <1>3, <2>1 DEF TypeOK
<1>5. Chain /\ CountedOnce /\ FiniteRefs /\ VectorQuotes
  BY <1>1 DEF Chain, Distinct, Linked, EndsAreLive, HasLive, CountedOnce, FiniteRefs,
              VectorQuotes
<1>6. TurnRemembered
  BY DEF Init, TurnRemembered
<1>7. \A w \in Workers : Held(w) /\ RefsKnown(w) /\ Coverage(w)
  BY <1>3 DEF Held, Stage, OneEach, UpdatesPlanned, InsertsPlanned, RefsKnown, Coverage
<1>8. Overlap
  BY <1>3 DEF Overlap
<1> QED
  BY <1>4, <1>5, <1>6, <1>7, <1>8 DEF IInv

LEMMA NextInv == IInv /\ [Next]_vars => IInv'
<1> SUFFICES ASSUME IInv, [Next]_vars PROVE IInv'
  OBVIOUS
<1>1. ASSUME NEW w \in Workers, NEW t \in Turns, Learn(w, t)
      PROVE  IInv'
  BY <1>1, LearnInv
<1>2. ASSUME NEW w \in Workers, CommitTurn(w) \/ RollBack(w)
      PROVE  IInv'
  BY <1>2, CommitInv, RollBackInv
<1>3. ASSUME NEW w \in Workers, ReadPending(w) \/ WriteVectors(w)
      PROVE  IInv'
  BY <1>3, ReadPendingInv, WriteVectorsInv
<1>4. CASE UNCHANGED vars
  <2>1. /\ memories' = memories /\ delivered' = delivered /\ learned' = learned
        /\ overlapped' = overlapped /\ pc' = pc /\ work' = work
    BY <1>4 DEF vars
  <2>2. /\ Rows' = Rows /\ Persist /\ Keeps
        /\ Chain' /\ CountedOnce' /\ FiniteRefs' /\ VectorQuotes' /\ TurnRemembered'
    BY <2>1, SameTable
  <2>3. \A v \in Workers : Held(v)' /\ RefsKnown(v)' /\ Coverage(v)'
    BY <2>1, <2>2, OthersHold, OthersKnown
  <2>4. TypeOK' /\ Overlap'
    BY <2>1, <2>2 DEF IInv, TypeOK, Overlap
  <2> QED
    BY <2>2, <2>3, <2>4 DEF IInv
<1> QED
  BY <1>1, <1>2, <1>3, <1>4 DEF Next

\* The parts of the chain make the property.
LEMMA ChainIsVersions == IInv => VersionsChained
<1> SUFFICES ASSUME IInv, NEW r \in Rows
             PROVE  LET m     == memories[r]
                        older == {s \in Rows : memories[s].key = m.key
                                                 /\ memories[s].version + 1 = m.version}
                        newer == {s \in Rows : memories[s].key = m.key
                                                 /\ memories[s].version > m.version}
                    IN /\ \A s \in Rows \ {r} : memories[s].key = m.key =>
                            memories[s].version # m.version
                       /\ IF m.version = 1 THEN m.previous = "" ELSE
                            \E s \in older : memories[s].content = m.previous
                       /\ Live(m) <=> newer = {}
  BY DEF VersionsChained
<1> DEFINE m == memories[r]
           older == {s \in Rows : memories[s].key = m.key /\ memories[s].version + 1 = m.version}
           newer == {s \in Rows : memories[s].key = m.key /\ memories[s].version > m.version}
<1>1. \A s \in Rows : memories[s].version \in Nat \ {0}
  BY RowTypes, MemoFields
<1>2. \A s \in Rows \ {r} : memories[s].key = m.key => memories[s].version # m.version
  BY DEF IInv, Chain, Distinct
<1>3. IF m.version = 1 THEN m.previous = "" ELSE \E s \in older : memories[s].content = m.previous
  <2>1. Follows(m)
    BY DEF IInv, Chain, Linked
  <2>2. ASSUME NEW s \in Rows, memories[s].key = m.key, memories[s].version + 1 = m.version,
               memories[s].content = m.previous
        PROVE  m.version # 1 /\ \E x \in older : memories[x].content = m.previous
    BY <1>1, <2>2
  <2> QED
    BY <2>1, <2>2 DEF Follows
<1>4. Live(m) <=> newer = {}
  <2>1. Newest(r) <=> newer = {}
    BY <1>1 DEF Newest
  <2> QED
    BY <2>1 DEF IInv, Chain, EndsAreLive
<1> QED
  BY <1>2, <1>3, <1>4

\* The inductive invariant holds of every behaviour.
THEOREM Invariance == Spec => []IInv
  BY InitInv, NextInv, PTL DEF Spec

\* Every variable keeps its type.
THEOREM TypeCorrect == Spec => []TypeOK
<1>1. IInv => TypeOK
  BY DEF IInv
<1> QED
  BY <1>1, Invariance, PTL

\* However follow-ups overlap, fail and come again, the versions of a memory are a
\* chain with one live end.
THEOREM OneHistory == Spec => []VersionsChained
  BY ChainIsVersions, Invariance, PTL

\* A memory counts each message once, however often its turn is delivered.
THEOREM MessagesCountOnce == Spec => []CountedOnce
<1>1. IInv => CountedOnce
  BY DEF IInv
<1> QED
  BY <1>1, Invariance, PTL

\* What a turn taught is in the history of each of its memories, unless another
\* follow-up of the student ran next to it.
THEOREM TurnsRemembered == Spec => []TurnRemembered
<1>1. IInv => TurnRemembered
  BY DEF IInv
<1> QED
  BY <1>1, Invariance, PTL

\* However often a row is strengthened while its text is embedded and after, its
\* vector is of words that a message it rests on was quoted for, unless two
\* follow-ups ran next to each other.
THEOREM VectorsQuote == Spec => []VectorQuotes
<1>1. IInv => VectorQuotes
  BY DEF IInv
<1> QED
  BY <1>1, Invariance, PTL
=============================================================================
