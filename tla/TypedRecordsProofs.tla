-------------------------- MODULE TypedRecordsProofs --------------------------
(***************************************************************************)
(* For any observations, forms, tests, skills and rows: what the timeline  *)
(* shows is what the rows say, claims that lost stay open, judgements stay,*)
(* documents hold against remarks, and no row is guessed.                  *)
(***************************************************************************)
EXTENDS TypedRecords, FiniteSetTheorems, SequenceTheorems, WellFoundedInduction, TLAPS

-----------------------------------------------------------------------------
(* The inductive invariant.                                                *)

\* Rows with their evidence: what a document wrote is recorded and is a value.
Sound(r, v, d) ==
  /\ IsFiniteSet(DOMAIN r) /\ DOMAIN r \subseteq Ids
  /\ \A i \in DOMAIN r : Attributes \subseteq DOMAIN r[i]
  /\ v \in [Ids -> SUBSET Guarded] /\ d \in [Ids -> SUBSET Guarded]
  /\ \A i \in DOMAIN r : \A a \in d[i] : a \in v[i] /\ r[i][a] # None(a)

\* What the open transaction will leave: an ambiguous observation changes no
\* row, and a remark no value of a document.
PlanSound ==
  pending.busy =>
    /\ Sound(pending.rows, pending.verified, pending.documented)
    /\ pending.by = "nobody" => pending.rows = rows
    /\ pending.by = "remark" =>
         \A i \in Present : \A a \in documented[i] : pending.rows[i][a] = rows[i][a]

\* It has read the issues as they are but for judgements made since.
ReadsIssues ==
  pending.busy =>
    /\ DOMAIN pending.seen = DOMAIN issues
    /\ \A fp \in DOMAIN issues :
         pending.seen[fp] \in Statuses /\ (fp \notin crossed => pending.seen[fp] = issues[fp])

\* What record_issue and sync_issues make of the issues seen.
Outcome(seen, new, scan, t) ==
  /\ DOMAIN seen \subseteq DOMAIN new
  /\ \A fp \in DOMAIN new : new[fp] \in Statuses /\ (fp \notin DOMAIN seen => new[fp] = "open")
  /\ \A fp \in DOMAIN seen :
       /\ seen[fp] = "settled" <=> new[fp] = "settled"
       /\ seen[fp] = "open" /\ fp.type \notin TimelineTypes => new[fp] = "open"
  /\ \A fp \in DOMAIN new \cup Detected(t) : fp.type \in TimelineTypes =>
       IF scan
       THEN (fp \in DOMAIN seen => seen[fp] # "settled") =>
              (fp \in Detected(t) <=> fp \in DOMAIN new /\ new[fp] = "open")
       ELSE fp \in DOMAIN new => fp \in DOMAIN seen /\ new[fp] = seen[fp]

PlansIssues ==
  pending.busy =>
    Outcome(pending.seen, pending.issues, pending.by \notin {"form", "nobody"}, pending.rows)

\* Only the student settles an issue, or closes one that no scan detects.
Unjudged ==
  \A fp \in DOMAIN issues \ judged :
    issues[fp] # "settled" /\ (fp.type \notin TimelineTypes => issues[fp] = "open")

\* TimelineCurrent, also while a transaction is open.
ScanCurrent ==
  ~unchecked =>
    \A fp \in (DOMAIN issues \cup Detected(rows)) \ judged :
      fp.type \in TimelineTypes =>
        (fp \in Detected(rows) <=> fp \in DOMAIN issues /\ issues[fp] = "open")

\* The attempts that reports make.
Sittings == Tests \cup [date : Nat, score : {t.score : t \in Tests}]

IInv ==
  /\ TypeOK
  /\ attempts \in Seq(Sittings)
  /\ Sound(rows, verified, documented)
  /\ PlanSound
  /\ ReadsIssues
  /\ PlansIssues
  /\ Unjudged
  /\ ScanCurrent

LEMMA NoRowsNoIssues == Detected(<< >>) = {}
<1> DEFINE t == << >>
           leveled == {i \in DOMAIN t : t[i].level # ""}
<1>1. DOMAIN t = {} /\ leveled = {}
  OBVIOUS
<1>2. Adjacent(t, leveled) = {} /\ Adjacent(t, DOMAIN t) = {}
  BY <1>1 DEF Adjacent
<1> HIDE DEF t
<1>3. SUFFICES Detected(t) = {}
  BY DEF t
<1>4. ~ \E l \in DOMAIN Ranks : \E p \in Adjacent(t, leveled) :
          Rank(t[p[1]].level) < Rank(l) /\ Rank(l) < Rank(t[p[2]].level)
  BY <1>2
<1>5. {i \in DOMAIN t : t[i].year = 0} = {} /\ leveled \X leveled = {}
  BY <1>1
<1> HIDE DEF leveled
<1> QED
  BY <1>1, <1>2, <1>4, <1>5 DEF Detected, leveled

LEMMA InitInv == Init => IInv
<1> SUFFICES ASSUME Init PROVE IInv
  OBVIOUS
<1>1. Present = {} /\ DOMAIN issues = {} /\ DOMAIN attempts = {} /\ Detected(rows) = Detected(<< >>)
  BY DEF Init, Present
<1>2. pending.busy = FALSE
  BY DEF Init, Idle
<1>3. verified \in [Ids -> SUBSET Guarded] /\ documented \in [Ids -> SUBSET Guarded]
  <2>1. verified = [i \in Ids |-> {}] /\ documented = [i \in Ids |-> {}]
    BY DEF Init
  <2> QED
    BY <2>1
<1>4. attempts \in Seq(Sittings)
  <2>1. attempts = << >>
    BY DEF Init
  <2> QED
    BY <2>1
<1>5. TypeOK
  <2>1. used \subseteq Ids /\ Present \subseteq used
    BY <1>1 DEF Init
  <2>2. judged \subseteq DOMAIN issues /\ crossed \subseteq judged
    BY DEF Init
  <2>3. submitted \in BOOLEAN /\ unchecked \in BOOLEAN /\ pending.busy \in BOOLEAN
    BY <1>2 DEF Init
  <2>4. writes \in 0..WriteBound
    BY Reported DEF Init
  <2> QED
    BY <1>1, <1>3, <2>1, <2>2, <2>3, <2>4 DEF TypeOK
<1>6. Sound(rows, verified, documented)
  BY <1>1, <1>3, FS_EmptySet DEF Sound, Present
<1>7. judged = {} /\ crossed = {}
  BY DEF Init
<1>8. ScanCurrent
  BY <1>1, NoRowsNoIssues DEF ScanCurrent
<1> QED
  BY <1>1, <1>2, <1>4, <1>5, <1>6, <1>8 DEF IInv, PlanSound, ReadsIssues, PlansIssues, Unjudged

-----------------------------------------------------------------------------
(* The two steps of a transaction, and the judgement between them.         *)

\* What record_issue and sync_issues leave of the statuses they read.
LEMMA Recording ==
  ASSUME NEW seen, NEW raised, NEW scan \in BOOLEAN, NEW t,
         \A fp \in DOMAIN seen : seen[fp] \in Statuses,
         \A fp \in raised : fp.type \notin TimelineTypes
  PROVE  Outcome(seen, Recorded(seen, raised, scan, t), scan, t)
<1> DEFINE D   == Detected(t)
           all == raised \cup (IF scan THEN D ELSE {})
           new == Recorded(seen, raised, scan, t)
<1>1. DOMAIN new = DOMAIN seen \cup all
  BY DEF Recorded
<1>2. \A fp \in DOMAIN seen \cup all : new[fp] =
        IF fp \in all THEN IF fp \in DOMAIN seen /\ ~Reopens(seen, fp) THEN seen[fp] ELSE "open"
        ELSE IF scan /\ seen[fp] = "open" /\ Closing(fp, IF scan THEN D ELSE {}) THEN "resolved"
        ELSE seen[fp]
  BY DEF Recorded
<1> HIDE DEF D, new
<1>3. \A fp \in DOMAIN new : new[fp] \in Statuses /\ (fp \notin DOMAIN seen => new[fp] = "open")
  BY <1>1, <1>2 DEF Statuses
<1>4. \A fp \in DOMAIN seen :
        /\ seen[fp] = "settled" <=> new[fp] = "settled"
        /\ seen[fp] = "open" /\ fp.type \notin TimelineTypes => new[fp] = "open"
  BY <1>1, <1>2 DEF Reopens, Closing
<1>5. ASSUME NEW fp \in DOMAIN new \cup D, fp.type \in TimelineTypes
      PROVE  IF scan
             THEN (fp \in DOMAIN seen => seen[fp] # "settled") =>
                    (fp \in D <=> fp \in DOMAIN new /\ new[fp] = "open")
             ELSE fp \in DOMAIN new => fp \in DOMAIN seen /\ new[fp] = seen[fp]
  <2>1. fp \notin raised
    BY <1>5
  <2>2. CASE scan
    BY <1>1, <1>2, <1>5, <2>1, <2>2 DEF Reopens, Closing
  <2>3. CASE ~scan
    BY <1>1, <1>2, <1>5, <2>1, <2>3
  <2> QED
    BY <2>2, <2>3
<1> QED
  BY <1>1, <1>3, <1>4, <1>5 DEF Outcome, D, new

\* A transaction that decides on sound rows keeps the invariant.
LEMMA Decided ==
  ASSUME IInv, Free, NEW by, NEW r, NEW v, NEW d, NEW raised,
         Decide(by, r, v, d, raised),
         Sound(r, v, d),
         \A fp \in raised : fp.type \notin TimelineTypes,
         by = "nobody" => r = rows,
         by = "remark" => \A i \in Present : \A a \in documented[i] : r[i][a] = rows[i][a]
  PROVE  IInv'
<1> DEFINE scan == by \notin {"form", "nobody"}
<1>1. UNCHANGED <<rows, used, verified, documented, issues, judged, crossed,
                  attempts, skills, submitted, unchecked>>
  BY DEF Decide, records, lists, flags
<1>2. /\ pending'.busy = TRUE /\ pending'.by = by /\ pending'.rows = r
      /\ pending'.verified = v /\ pending'.documented = d /\ pending'.seen = issues
      /\ pending'.issues = Recorded(issues, raised, scan, r)
  BY DEF Decide
<1>3. writes' \in 0..WriteBound
  BY Reported DEF Decide, Free, IInv, TypeOK
<1>4. \A fp \in DOMAIN issues : issues[fp] \in Statuses
  BY DEF IInv, TypeOK
<1>5. Outcome(issues, Recorded(issues, raised, scan, r), scan, r)
  BY <1>4, Recording
<1>6. TypeOK'
  BY <1>1, <1>2, <1>3 DEF IInv, TypeOK, Present
<1>7. PlanSound'
  BY <1>1, <1>2 DEF PlanSound, Sound, Present
<1>8. ReadsIssues'
  BY <1>1, <1>2, <1>4 DEF ReadsIssues
<1>9. PlansIssues'
  BY <1>1, <1>2, <1>5 DEF PlansIssues, Outcome
<1>10. /\ attempts' \in Seq(Sittings) /\ Sound(rows, verified, documented)'
       /\ Unjudged' /\ ScanCurrent'
  BY <1>1 DEF IInv, Sound, Unjudged, ScanCurrent
<1> QED
  BY <1>6, <1>7, <1>8, <1>9, <1>10 DEF IInv

\* What Commit writes of the issues: for one that was not judged since it was
\* read, what the transaction decided.
LEMMA Written ==
  ASSUME IInv, Commit
  PROVE  /\ DOMAIN issues' = DOMAIN pending.issues
         /\ DOMAIN pending.seen = DOMAIN issues /\ DOMAIN issues \subseteq DOMAIN issues'
         /\ \A fp \in DOMAIN issues' : issues'[fp] \in Statuses
         /\ \A fp \in DOMAIN issues' \ crossed : issues'[fp] = pending.issues[fp]
         /\ \A fp \in DOMAIN issues \ crossed : pending.seen[fp] = issues[fp]
<1> DEFINE seen == pending.seen
           new  == pending.issues
<1>1. /\ DOMAIN issues' = DOMAIN new
      /\ \A fp \in DOMAIN new : issues'[fp] =
           IF fp \in DOMAIN seen /\ new[fp] = seen[fp] THEN issues[fp] ELSE new[fp]
  BY DEF Commit
<1>2. /\ DOMAIN seen = DOMAIN issues
      /\ \A fp \in DOMAIN issues \ crossed : seen[fp] = issues[fp]
  BY DEF IInv, ReadsIssues, Commit
<1>3. DOMAIN seen \subseteq DOMAIN new /\ \A fp \in DOMAIN new : new[fp] \in Statuses
  BY DEF IInv, PlansIssues, Outcome, Commit
<1>4. \A fp \in DOMAIN issues : issues[fp] \in Statuses
  BY DEF IInv, TypeOK
<1> HIDE DEF seen, new
<1> QED
  BY <1>1, <1>2, <1>3, <1>4 DEF seen, new

LEMMA CommitInv == ASSUME IInv, Commit PROVE IInv'
<1> DEFINE seen == pending.seen
           new  == pending.issues
           scan == pending.by \notin {"form", "nobody"}
<1>1. /\ rows' = pending.rows /\ verified' = pending.verified /\ documented' = pending.documented
      /\ used' = used \cup DOMAIN pending.rows /\ ~pending'.busy /\ pending'.busy \in BOOLEAN
      /\ UNCHANGED <<judged, crossed, attempts, writes>>
  BY DEF Commit, Idle, lists
<1>2. Sound(rows, verified, documented)'
  BY <1>1 DEF IInv, PlanSound, Commit, Sound
<1>3. submitted' \in BOOLEAN /\ unchecked' \in BOOLEAN
  BY DEF Commit
<1>4. \A fp \in DOMAIN issues' : issues'[fp] \in Statuses
  BY Written
<1>5. judged' \subseteq DOMAIN issues' /\ crossed' \subseteq judged'
  BY <1>1, Written DEF IInv, TypeOK
<1>6. TypeOK'
  <2>1. used' \subseteq Ids /\ Present' \subseteq used'
    BY <1>1, <1>2 DEF Sound, Present, IInv, TypeOK
  <2>2. /\ \A i \in Present' : Attributes \subseteq DOMAIN rows'[i]
        /\ verified' \in [Ids -> SUBSET Guarded] /\ documented' \in [Ids -> SUBSET Guarded]
        /\ \A i \in Present' : \A a \in documented'[i] : a \in verified'[i] /\ rows'[i][a] # None(a)
    BY <1>2 DEF Sound, Present
  <2>3. (\A n \in DOMAIN attempts' : attempts'[n].date \in Nat) /\ writes' \in 0..WriteBound
    BY <1>1 DEF IInv, TypeOK
  <2> QED
    BY <1>1, <1>3, <1>4, <1>5, <2>1, <2>2, <2>3 DEF TypeOK
<1>7. Outcome(seen, new, scan, pending.rows)
  BY DEF IInv, PlansIssues, Commit
<1>8. /\ DOMAIN issues' = DOMAIN new /\ DOMAIN seen = DOMAIN issues
      /\ \A fp \in DOMAIN issues' \ crossed : issues'[fp] = new[fp]
      /\ \A fp \in DOMAIN issues \ crossed : seen[fp] = issues[fp]
  BY Written
<1>9. crossed \subseteq judged
  BY DEF IInv, TypeOK
<1>10. Unjudged
  BY DEF IInv
<1>11. Unjudged'
  BY <1>1, <1>7, <1>8, <1>9, <1>10 DEF Unjudged, Outcome
<1>12. ScanCurrent'
  <2> SUFFICES ASSUME ~unchecked',
                      NEW fp \in (DOMAIN issues' \cup Detected(rows')) \ judged',
                      fp.type \in TimelineTypes
               PROVE  fp \in Detected(rows') <=> fp \in DOMAIN issues' /\ issues'[fp] = "open"
    BY DEF ScanCurrent
  <2>1. fp \notin judged /\ fp \notin crossed
    BY <1>1, <1>9
  <2>2. fp \in DOMAIN new \cup Detected(pending.rows)
    BY <1>1, <1>8
  <2>3. CASE scan
    BY <1>1, <1>7, <1>8, <1>10, <2>1, <2>2, <2>3 DEF Outcome, Unjudged
  <2>4. CASE pending.by = "form"
    BY <2>4 DEF Commit
  <2>5. CASE pending.by = "nobody"
    <3>1. rows' = rows
      BY <1>1, <2>5 DEF IInv, PlanSound, Commit
    <3>2. ~unchecked
      BY <2>5 DEF Commit
    <3>3. /\ fp \in DOMAIN issues' <=> fp \in DOMAIN issues
          /\ fp \in DOMAIN issues => issues'[fp] = issues[fp]
      <4>1. fp \in DOMAIN new => fp \in DOMAIN seen /\ new[fp] = seen[fp]
        BY <1>7, <2>2, <2>5 DEF Outcome
      <4>2. DOMAIN seen \subseteq DOMAIN new
        BY <1>7 DEF Outcome
      <4> QED
        BY <1>8, <2>1, <4>1, <4>2
    <3> QED
      BY <1>8, <2>1, <3>1, <3>2, <3>3 DEF IInv, ScanCurrent
  <2> QED
    BY <2>3, <2>4, <2>5
<1> QED
  BY <1>1, <1>2, <1>6, <1>11, <1>12 DEF IInv, PlanSound, ReadsIssues, PlansIssues

LEMMA JudgeInv ==
  ASSUME IInv, NEW fp \in DOMAIN issues, NEW status \in {"resolved", "settled"}, Judge(fp, status)
  PROVE  IInv'
<1>1. /\ UNCHANGED <<rows, used, verified, documented, attempts, skills, submitted, unchecked,
                     pending, writes>>
      /\ fp \notin judged /\ judged' = judged \cup {fp}
      /\ crossed' = IF pending.busy THEN crossed \cup {fp} ELSE crossed
  BY DEF Judge, records, lists, flags
<1>2. /\ DOMAIN issues' = DOMAIN issues
      /\ issues'[fp] = status /\ \A q \in DOMAIN issues : q # fp => issues'[q] = issues[q]
  BY DEF Judge
<1>3. status \in Statuses
  BY DEF Statuses
<1>4. TypeOK'
  BY <1>1, <1>2, <1>3 DEF IInv, TypeOK, Present
<1>5. PlanSound' /\ Sound(rows, verified, documented)' /\ attempts' \in Seq(Sittings)
  BY <1>1 DEF IInv, PlanSound, Sound, Present
<1>6. PlansIssues'
  BY <1>1 DEF IInv, PlansIssues, Outcome
<1>7. ReadsIssues'
  BY <1>1, <1>2 DEF IInv, ReadsIssues
<1>8. Unjudged'
  BY <1>1, <1>2 DEF IInv, Unjudged
<1>9. ScanCurrent'
  BY <1>1, <1>2 DEF IInv, ScanCurrent
<1> QED
  BY <1>4, <1>5, <1>6, <1>7, <1>8, <1>9 DEF IInv

-----------------------------------------------------------------------------
(* Lemmas: the least and the greatest number, and one row overwritten.     *)

LEMMA LeastExists ==
  ASSUME NEW S \in SUBSET Nat, S # {} PROVE \E x \in S : \A y \in S : x =< y
<1> DEFINE Less == OpToRel(<, Nat)
<1>1. IsWellFoundedOn(Less, Nat)
  BY NatLessThanWellFounded
<1>2. \A x, y \in Nat : x < y => <<x, y>> \in Less
  BY DEF OpToRel
<1> HIDE DEF Less
<1>3. PICK x \in S : \A y \in S : ~ (<<y, x>> \in Less)
  BY <1>1, WFMin
<1>4. \A y \in S : x =< y
  <2> SUFFICES ASSUME NEW y \in S PROVE x =< y
    OBVIOUS
  <2>1. x \in Nat /\ y \in Nat /\ ~(y < x)
    BY <1>2, <1>3
  <2> QED
    BY <2>1
<1> QED
  BY <1>4

LEMMA LeastIsMin == ASSUME NEW S \in SUBSET Nat, S # {} PROVE Min(S) \in S
BY LeastExists DEF Min

LEMMA Overwriting ==
  ASSUME NEW i \in Present, NEW o, NEW given, NEW touched
  PROVE  LET r == Overwrite(i, o, given, touched)
         IN /\ DOMAIN r = Present
            /\ \A j \in Present \ {i} : r[j] = rows[j]
            /\ DOMAIN r[i] = DOMAIN rows[i]
            /\ \A a \in DOMAIN rows[i] : a \in given => r[i][a] = o[a]
            /\ \A a \in DOMAIN rows[i] : a \notin given /\ a # "at" => r[i][a] = rows[i][a]
BY DEF Overwrite, Present

\* The student's hand, or the form, on a row: the values it replaces are no
\* document's any more.
LEMMA HandSound ==
  ASSUME IInv, NEW i \in Present, NEW f, NEW given, NEW g, given \cap Guarded \subseteq g
  PROVE  Sound(Overwrite(i, f, given, TRUE), verified, NoLonger(i, g))
<1> DEFINE r == Overwrite(i, f, given, TRUE)
           d == NoLonger(i, g)
<1>1. Sound(rows, verified, documented)
  BY DEF IInv
<1>2. /\ DOMAIN r = Present
      /\ \A j \in Present \ {i} : r[j] = rows[j]
      /\ DOMAIN r[i] = DOMAIN rows[i]
      /\ \A a \in DOMAIN rows[i] : a \notin given /\ a # "at" => r[i][a] = rows[i][a]
  BY DEF Overwrite, Present
<1>3. i \in Ids
  BY <1>1 DEF Sound, Present
<1>4. /\ d \in [Ids -> SUBSET Guarded]
      /\ d[i] = documented[i] \ g
      /\ \A j \in Present \ {i} : d[j] = documented[j]
  BY <1>1, <1>3 DEF NoLonger, Sound
<1> HIDE DEF r, d
<1>5. \A j \in Present : Attributes \subseteq DOMAIN r[j]
  BY <1>1, <1>2 DEF Sound, Present
<1>6. ASSUME NEW j \in Present, NEW a \in d[j]
      PROVE  a \in verified[j] /\ r[j][a] # None(a)
  <2>1. CASE j # i
    BY <1>1, <1>2, <1>4, <1>6, <2>1 DEF Sound, Present
  <2>2. CASE j = i
    <3>1. a \in documented[i] /\ a \in Guarded /\ a \notin given
      BY <1>1, <1>3, <1>4, <1>6, <2>2 DEF Sound
    <3>2. a # "at" /\ a \in DOMAIN rows[i]
      BY <1>1, <3>1 DEF Guarded, Attributes, Sound, Present
    <3> QED
      BY <1>1, <1>2, <2>2, <3>1, <3>2 DEF Sound, Present
  <2> QED
    BY <2>1, <2>2
<1> QED
  BY <1>1, <1>2, <1>4, <1>5, <1>6 DEF Sound, Present, r, d

\* An observation merged into a row changes only that row, and where a document
\* speaks only if it is one itself, or a correction.
LEMMA Merged ==
  ASSUME IInv, Free, NEW o \in Observations, NEW i \in Present, MergeInto(o, i)
  PROVE  IInv' /\ \A j \in Present \ {i} : pending'.rows[j] = rows[j]
<1> DEFINE written == Said(o, i) \ Lost(o, i)
           all     == written \cup {a \in {"scale", "level"} \cap Given(o) : o[a] # rows[i][a]}
           r       == Overwrite(i, o, all, all \cup Lost(o, i) # {})
           v       == [verified EXCEPT ![i] = IF o.verified THEN @ \cup written ELSE @]
           d       == [documented EXCEPT ![i] = IF o.verified THEN @ \cup written ELSE @ \ written]
           raised  == {Fingerprint("contradiction", {i}, a) : a \in Lost(o, i)}
<1>1. Decide(Source(o), r, v, d, raised)
  BY DEF MergeInto
<1>2. Sound(rows, verified, documented)
  BY DEF IInv
<1>3. i \in Ids
  BY <1>2 DEF Sound, Present
<1>4. /\ written \subseteq Guarded
      /\ \A a \in written : o[a] # None(a)
      /\ \A a \in written : rows[i][a] # None(a) => ~Outranked(o, i, a)
      /\ \A a \in Guarded : a \in all => a \in written
  BY DEF Said, Lost, Given, Guarded
<1>5. \A fp \in raised : fp.type \notin TimelineTypes
  BY DEF Fingerprint, TimelineTypes
<1>6. /\ DOMAIN r = Present
      /\ \A j \in Present \ {i} : r[j] = rows[j]
      /\ DOMAIN r[i] = DOMAIN rows[i]
      /\ \A a \in DOMAIN rows[i] : a \in all => r[i][a] = o[a]
      /\ \A a \in DOMAIN rows[i] : a \notin all /\ a # "at" => r[i][a] = rows[i][a]
  BY Overwriting
<1>7. written \subseteq all
  OBVIOUS
<1> HIDE DEF written
<1>8. /\ v \in [Ids -> SUBSET Guarded] /\ d \in [Ids -> SUBSET Guarded]
      /\ \A j \in Present \ {i} : v[j] = verified[j] /\ d[j] = documented[j]
      /\ v[i] = IF o.verified THEN verified[i] \cup written ELSE verified[i]
      /\ d[i] = IF o.verified THEN documented[i] \cup written ELSE documented[i] \ written
  BY <1>2, <1>3, <1>4 DEF Sound, Present
<1>9. \A a \in Guarded : a # "at" /\ a \in DOMAIN rows[i]
  BY <1>2 DEF Guarded, Attributes, Sound, Present
<1> HIDE DEF all, r, v, d, raised
<1>10. ASSUME NEW j \in Present, NEW a \in d[j]
       PROVE  a \in v[j] /\ r[j][a] # None(a)
  <2>1. CASE j # i
    BY <1>2, <1>6, <1>8, <1>10, <2>1 DEF Sound, Present
  <2>2. CASE j = i /\ a \in written
    <3>1. o.verified
      BY <1>8, <1>10, <2>2
    <3> QED
      BY <1>4, <1>6, <1>7, <1>8, <1>9, <2>2, <3>1
  <2>3. CASE j = i /\ a \notin written
    <3>1. a \in documented[i] /\ a \in Guarded
      BY <1>2, <1>3, <1>8, <1>10, <2>3 DEF Sound
    <3>2. a \in verified[i] /\ rows[i][a] # None(a)
      BY <1>2, <3>1 DEF Sound, Present
    <3>3. r[i][a] = rows[i][a]
      BY <1>4, <1>6, <1>9, <2>3, <3>1
    <3> QED
      BY <1>8, <2>3, <3>2, <3>3
  <2> QED
    BY <2>1, <2>2, <2>3
<1>11. Sound(r, v, d)
  <2>1. \A j \in Present : Attributes \subseteq DOMAIN r[j]
    BY <1>2, <1>6 DEF Sound, Present
  <2> QED
    BY <1>2, <1>6, <1>8, <1>10, <2>1 DEF Sound, Present
<1>12. ASSUME Source(o) = "remark", NEW j \in Present, NEW a \in documented[j]
       PROVE  r[j][a] = rows[j][a]
  <2>1. CASE j # i
    BY <1>6, <2>1
  <2>2. CASE j = i
    <3>1. ~o.verified /\ ~o.correction
      BY <1>12, Reported DEF Source
    <3>2. a \in verified[i] /\ rows[i][a] # None(a) /\ a \in Guarded
      BY <1>2, <1>3, <1>12, <2>2 DEF Sound, Present
    <3>3. a \notin written
      BY <1>4, <3>1, <3>2 DEF Outranked
    <3> QED
      BY <1>4, <1>6, <1>9, <2>2, <3>2, <3>3
  <2> QED
    BY <2>1, <2>2
<1>13. Source(o) # "nobody"
  BY DEF Source
<1>14. IInv'
  BY <1>1, <1>5, <1>11, <1>12, <1>13, Decided
<1>15. pending'.rows = r
  BY <1>1 DEF Decide
<1> QED
  BY <1>6, <1>14, <1>15

\* A row created, by an observation, by the student or by the form.
LEMMA Added ==
  ASSUME IInv, Free, NEW o, NEW by, AddRow(o, by), by # "nobody"
  PROVE  IInv' /\ \A j \in Present : pending'.rows[j] = rows[j]
<1> DEFINE i == NextId
           e == IF by = "document" THEN Given(o) \cap Guarded ELSE {}
           r == [j \in Present \cup {i} |-> IF j = i THEN NewRow(o) ELSE rows[j]]
           v == [verified EXCEPT ![i] = e]
           d == [documented EXCEPT ![i] = e]
<1>1. Decide(by, r, v, d, {})
  BY DEF AddRow
<1>2. Sound(rows, verified, documented) /\ Present \subseteq used /\ used \subseteq Ids
  BY DEF IInv, TypeOK
<1>3. i \in Ids /\ i \notin Present
  <2>1. Ids \ used \in SUBSET Nat /\ Ids \ used # {}
    BY <1>2, NumberedRows DEF AddRow
  <2>2. i \in Ids \ used
    BY <2>1, LeastIsMin DEF NextId
  <2> QED
    BY <1>2, <2>2
<1>4. e \subseteq Guarded /\ \A a \in e : o[a] # None(a)
  BY DEF Given
<1> HIDE DEF i, e
<1>5. DOMAIN NewRow(o) = Attributes \cup {"at"} /\ \A a \in Guarded : NewRow(o)[a] = o[a]
  BY DEF NewRow, Guarded, Attributes
<1>6. /\ DOMAIN r = Present \cup {i} /\ r[i] = NewRow(o)
      /\ \A j \in Present : r[j] = rows[j]
  BY <1>3
<1>7. /\ v \in [Ids -> SUBSET Guarded] /\ d \in [Ids -> SUBSET Guarded]
      /\ v[i] = e /\ d[i] = e
      /\ \A j \in Present : v[j] = verified[j] /\ d[j] = documented[j]
  BY <1>2, <1>3, <1>4 DEF Sound, Present
<1> HIDE DEF r, v, d
<1>8. IsFiniteSet(DOMAIN r)
  BY <1>2, <1>6, FS_AddElement DEF Sound, Present
<1>9. \A j \in DOMAIN r : Attributes \subseteq DOMAIN r[j]
  BY <1>2, <1>5, <1>6 DEF Sound, Present
<1>10. ASSUME NEW j \in DOMAIN r, NEW a \in d[j]
       PROVE  a \in v[j] /\ r[j][a] # None(a)
  <2>1. CASE j = i
    BY <1>4, <1>5, <1>6, <1>7, <1>10, <2>1
  <2>2. CASE j \in Present
    BY <1>2, <1>6, <1>7, <1>10, <2>2 DEF Sound, Present
  <2> QED
    BY <1>6, <2>1, <2>2
<1>11. Sound(r, v, d)
  BY <1>2, <1>3, <1>6, <1>7, <1>8, <1>9, <1>10 DEF Sound, Present
<1>12. IInv'
  BY <1>1, <1>6, <1>11, Decided
<1>13. pending'.rows = r
  BY <1>1 DEF Decide
<1> QED
  BY <1>6, <1>12, <1>13

LEMMA HandInv ==
  ASSUME IInv, NEW i \in Present, NEW f, NEW given, NEW g, given \cap Guarded \subseteq g, Free,
         NEW by \in {"hand", "form"},
         Decide(by, Overwrite(i, f, given, TRUE), verified, NoLonger(i, g), {})
  PROVE  IInv'
<1> DEFINE r == Overwrite(i, f, given, TRUE)
           d == NoLonger(i, g)
<1>1. Sound(r, verified, d)
  BY HandSound
<1>2. Decide(by, r, verified, d, {}) /\ by # "nobody" /\ by # "remark"
  OBVIOUS
<1> HIDE DEF r, d
<1> QED
  BY <1>1, <1>2, Decided

LEMMA EditInv == ASSUME IInv, NEW i \in Ids, NEW f, Edit(i, f) PROVE IInv'
<1> DEFINE given == Given(f) \ {"level"}
<1>1. /\ Free /\ i \in Present
      /\ Decide("hand", Overwrite(i, f, given, TRUE), verified, NoLonger(i, given), {})
  BY DEF Edit
<1> HIDE DEF given
<1> QED
  BY <1>1, HandInv

LEMMA FormInv == ASSUME IInv, NEW f, Form(f) PROVE IInv'
<1> DEFINE given == Given(f) \cap Guarded
           both  == given \cup (IF "gpa" \in given THEN {"scale"} ELSE {})
           i     == Min(Present)
<1>1. Free
  BY DEF Form
<1>2. CASE AddRow([f EXCEPT !.level = ""], "form")
  <2> DEFINE o == [f EXCEPT !.level = ""]
  <2>1. AddRow(o, "form") /\ "form" # "nobody"
    BY <1>2
  <2> HIDE DEF o
  <2> QED
    BY <1>1, <2>1, Added
<1>3. CASE Present # {} /\ Decide("form", Overwrite(i, f, both, TRUE), verified,
                                  NoLonger(i, given), {})
  <2>1. Present \in SUBSET Nat
    BY NumberedRows DEF IInv, TypeOK
  <2>2. i \in Present
    BY <1>3, <2>1, LeastIsMin
  <2>3. both \cap Guarded \subseteq given
    BY DEF Guarded
  <2> HIDE DEF i, given, both
  <2> QED
    BY <1>1, <1>3, <2>2, <2>3, HandInv
<1> QED
  BY <1>2, <1>3 DEF Form

LEMMA DeleteInv == ASSUME IInv, NEW i \in Ids, Delete(i) PROVE IInv'
<1> DEFINE r == [j \in Present \ {i} |-> rows[j]]
<1>1. Free /\ Decide("hand", r, verified, documented, {})
  BY DEF Delete
<1>2. Sound(rows, verified, documented)
  BY DEF IInv
<1>3. IsFiniteSet(Present \ {i})
  BY <1>2, FS_Subset DEF Sound, Present
<1>4. DOMAIN r = Present \ {i} /\ \A j \in Present \ {i} : r[j] = rows[j]
  OBVIOUS
<1> HIDE DEF r
<1>5. Sound(r, verified, documented)
  BY <1>2, <1>3, <1>4 DEF Sound, Present
<1> QED
  BY <1>1, <1>5, Decided

LEMMA CreateInv == ASSUME IInv, NEW f, Create(f) PROVE IInv'
<1> DEFINE o == [f EXCEPT !.level = ""]
<1>1. Free /\ AddRow(o, "hand") /\ "hand" # "nobody"
  BY DEF Create
<1> HIDE DEF o
<1> QED
  BY <1>1, Added

-----------------------------------------------------------------------------
(* Which row an observation is resolved to.                                *)

\* Two rows an observation cannot tell apart, whatever it says.
Twins(i, j) ==
  i # j /\ \A a \in {"inst", "degree", "major", "year", "level"} : rows[i][a] = rows[j][a]

LEMMA ScoreBounded == ASSUME NEW o, NEW r PROVE Score(o, r) \in 0..155
<1> DEFINE level == IF ObservedLevel(o) # "" /\ r.level # "" THEN 45 ELSE 0
           inst  == IF ~Both(o, r, "inst") THEN 0
                    ELSE IF o.inst = r.inst THEN 50
                    ELSE IF Overlap[<<o.inst, r.inst>>] >= 50 THEN 22
                    ELSE IF Overlap[<<o.inst, r.inst>>] > 0 THEN 8 ELSE 0
           degree == IF ~Both(o, r, "degree") THEN 0
                     ELSE IF o.degree = r.degree THEN 25
                     ELSE IF Overlap[<<o.degree, r.degree>>] >= 50 THEN 12 ELSE 0
           major == IF Both(o, r, "major") /\ o.major = r.major THEN 15 ELSE 0
           year  == IF ~Both(o, r, "year") THEN 0 ELSE IF o.year = r.year THEN 20 ELSE 8
<1>1. level \in 0..45
  OBVIOUS
<1>2. inst \in 0..50
  OBVIOUS
<1>3. degree \in 0..25
  OBVIOUS
<1>4. major \in 0..15
  OBVIOUS
<1>5. year \in 0..20
  OBVIOUS
<1>6. Score(o, r) = level + inst + degree + major + year
  BY DEF Score
<1> HIDE DEF level, inst, degree, major, year
<1> QED
  BY <1>1, <1>2, <1>3, <1>4, <1>5, <1>6

\* Twins are treated alike.
LEMMA TwinsAlike ==
  ASSUME NEW i, NEW j, Twins(i, j), NEW o
  PROVE  /\ Compatible(o, rows[i]) <=> Compatible(o, rows[j])
         /\ NamesExactly(o, rows[i]) <=> NamesExactly(o, rows[j])
         /\ Score(o, rows[i]) = Score(o, rows[j])
<1>1. /\ rows[i].inst = rows[j].inst /\ rows[i].degree = rows[j].degree
      /\ rows[i].major = rows[j].major /\ rows[i].year = rows[j].year
      /\ rows[i].level = rows[j].level
  BY DEF Twins
<1>2. \A a \in {"inst", "degree", "major", "year"} : Both(o, rows[i], a) <=> Both(o, rows[j], a)
  BY DEF Twins, Both
<1>3. Compatible(o, rows[i]) <=> Compatible(o, rows[j])
  BY <1>1, <1>2 DEF Compatible
<1>4. NamesExactly(o, rows[i]) <=> NamesExactly(o, rows[j])
  BY <1>1, <1>2, <1>3 DEF NamesExactly
<1>5. Score(o, rows[i]) = Score(o, rows[j])
  <2> DEFINE level(r) == IF ObservedLevel(o) # "" /\ r.level # "" THEN 45 ELSE 0
             inst(r)  == IF ~Both(o, r, "inst") THEN 0
                         ELSE IF o.inst = r.inst THEN 50
                         ELSE IF Overlap[<<o.inst, r.inst>>] >= 50 THEN 22
                         ELSE IF Overlap[<<o.inst, r.inst>>] > 0 THEN 8 ELSE 0
             degree(r) == IF ~Both(o, r, "degree") THEN 0
                          ELSE IF o.degree = r.degree THEN 25
                          ELSE IF Overlap[<<o.degree, r.degree>>] >= 50 THEN 12 ELSE 0
             major(r) == IF Both(o, r, "major") /\ o.major = r.major THEN 15 ELSE 0
             year(r)  == IF ~Both(o, r, "year") THEN 0 ELSE IF o.year = r.year THEN 20 ELSE 8
  <2>1. \A r : Score(o, r) = level(r) + inst(r) + degree(r) + major(r) + year(r)
    BY DEF Score
  <2>2. level(rows[i]) = level(rows[j]) /\ inst(rows[i]) = inst(rows[j])
    BY <1>1, <1>2
  <2>3. /\ degree(rows[i]) = degree(rows[j]) /\ major(rows[i]) = major(rows[j])
        /\ year(rows[i]) = year(rows[j])
    BY <1>1, <1>2
  <2> HIDE DEF level, inst, degree, major, year
  <2> QED
    BY <2>1, <2>2, <2>3
<1> QED
  BY <1>3, <1>4, <1>5

LEMMA BestExists ==
  ASSUME NEW o, NEW fit \in SUBSET Present, fit # {}
  PROVE  \E i \in fit : \A j \in fit : Score(o, rows[i]) >= Score(o, rows[j])
<1> DEFINE S == {155 - Score(o, rows[i]) : i \in fit}
<1>1. \A i \in fit : Score(o, rows[i]) \in 0..155
  BY ScoreBounded
<1>2. S \in SUBSET Nat /\ S # {}
  BY <1>1
<1>3. PICK n \in S : \A m \in S : n =< m
  BY <1>2, LeastExists
<1>4. PICK i \in fit : n = 155 - Score(o, rows[i])
  BY <1>3
<1>5. \A j \in fit : 155 - Score(o, rows[i]) =< 155 - Score(o, rows[j])
  BY <1>3, <1>4
<1> HIDE DEF S
<1> QED
  BY <1>1, <1>5

\* The row that Scored takes leads the next one; a twin would be level with it.
LEMMA ScoredApart ==
  ASSUME IsFiniteSet(Present), NEW o, NEW out \in Scored(o), out.kind = "match"
  PROVE  out.row \in Present /\ \A j \in Present : ~Twins(out.row, j)
<1> DEFINE fit      == {i \in Present : Compatible(o, rows[i])}
           score(i) == Score(o, rows[i])
           best     == {i \in fit : \A j \in fit : score(i) >= score(j)}
           top      == CHOOSE i \in best : TRUE
           second   == IF Cardinality(best) > 1 THEN best
                       ELSE {i \in fit \ best : \A j \in fit \ best : score(i) >= score(j)}
           next     == IF second = {} THEN 0 ELSE score(CHOOSE i \in second : TRUE)
           rivals   == IF Cardinality(best) > 1 THEN kSubset(2, best)
                       ELSE IF second = {} THEN {best} ELSE {best \cup {i} : i \in second}
<1>1. Scored(o) = IF fit = {} \/ score(top) < 45 THEN {Unknown}
                  ELSE (IF score(top) - next >= 15 THEN {Match(top)} ELSE {})
                       \cup (IF score(top) - next <= 15 THEN {Guess(is) : is \in rivals} ELSE {})
  BY DEF Scored
<1> HIDE DEF rivals
<1>2. fit # {} /\ score(top) - next >= 15 /\ out = Match(top)
  <2>1. Unknown.kind # "match" /\ \A is : Guess(is).kind # "match"
    BY DEF Unknown, Guess
  <2> HIDE DEF fit, score, top, next
  <2> QED
    BY <1>1, <2>1
<1>3. best # {}
  <2>1. fit \in SUBSET Present
    OBVIOUS
  <2> QED
    BY <1>2, <2>1, BestExists
<1>4. top \in best
  BY <1>3
<1>5. out.row = top /\ top \in fit
  BY <1>2, <1>4 DEF Match
<1>6. \A i : score(i) \in Nat
  BY ScoreBounded
<1>7. ASSUME NEW j \in Present, Twins(top, j) PROVE FALSE
  <2>1. j \in fit /\ score(j) = score(top)
    BY <1>5, <1>7, TwinsAlike
  <2>2. \A k \in fit : score(top) >= score(k)
    BY <1>4
  <2>3. j \in best /\ top # j
    BY <1>7, <2>1, <2>2 DEF Twins
  <2>4. Cardinality(best) > 1
    <3>1. IsFiniteSet(best)
      <4>1. best \in SUBSET Present
        OBVIOUS
      <4> QED
        BY <4>1, FS_Subset
    <3>2. Cardinality(best) \in Nat
      BY <3>1, FS_CardinalityType
    <3>3. Cardinality(best) # 0 /\ Cardinality(best) # 1
      BY <1>4, <2>3, <3>1, FS_EmptySet, FS_Singleton
    <3> QED
      BY <3>2, <3>3
  <2>5. second = best
    BY <2>4
  <2> HIDE DEF fit, best, second, score
  <2>6. next = score(CHOOSE i \in best : TRUE)
    BY <1>3, <2>5
  <2>7. next = score(top)
    BY <2>6
  <2> QED
    BY <1>2, <1>6, <2>7
<1> QED
  BY <1>5, <1>7

\* Resolve takes a row that no other row is like, or the one that is named.
LEMMA ResolvedApart ==
  ASSUME IsFiniteSet(Present), Present \in SUBSET Nat,
         NEW o, NEW out \in Resolve(o), out.kind = "match"
  PROVE  /\ out.row \in Present
         /\ o.id = out.row \/ \A j \in Present : ~Twins(out.row, j)
<1> DEFINE exact == {i \in Present : NamesExactly(o, rows[i])}
<1>1. /\ \A i : Match(i).kind = "match" /\ Match(i).row = i
      /\ Unknown.kind # "match" /\ \A is : Guess(is).kind # "match"
  BY DEF Match, Unknown, Guess
<1>2. CASE Present = {}
  BY <1>1, <1>2 DEF Resolve
<1>3. CASE Present # {} /\ o.id # 0
  BY <1>1, <1>3 DEF Resolve
<1>4. CASE Present # {} /\ o.id = 0 /\ Cardinality(exact) = 1
  <2>1. Resolve(o) = {Match(i) : i \in exact}
    BY <1>4 DEF Resolve
  <2>2. PICK i \in exact : out = Match(i)
    BY <2>1
  <2>3. IsFiniteSet(exact)
    <3>1. exact \in SUBSET Present
      OBVIOUS
    <3> QED
      BY <3>1, FS_Subset
  <2>4. PICK x : exact = {x}
    BY <1>4, <2>3, FS_Singleton
  <2>5. \A j \in Present : Twins(i, j) => j \in exact /\ i # j
    BY <2>2, TwinsAlike DEF Twins
  <2> QED
    BY <1>1, <2>2, <2>4, <2>5
<1>5. CASE Present # {} /\ o.id = 0 /\ Cardinality(exact) # 1 /\ exact # {}
  <2>1. Resolve(o) = {Guess(exact)}
    BY <1>5 DEF Resolve
  <2> QED
    BY <1>1, <2>1
<1>6. CASE Present # {} /\ o.id = 0 /\ Cardinality(exact) # 1 /\ exact = {} /\ BareMeasurement(o)
  <2>1. out = IF Cardinality(Present) = 1 THEN Match(Min(Present)) ELSE Guess(Present)
    BY <1>6 DEF Resolve
  <2>2. Cardinality(Present) = 1 /\ out = Match(Min(Present))
    BY <1>1, <2>1
  <2>3. PICK x : Present = {x}
    BY <2>2, FS_Singleton
  <2>4. out.row \in Present
    BY <1>1, <1>6, <2>2, LeastIsMin
  <2> QED
    BY <2>3, <2>4 DEF Twins
<1>7. CASE Present # {} /\ o.id = 0 /\ Cardinality(exact) # 1 /\ exact = {} /\ ~BareMeasurement(o)
  <2>1. Resolve(o) = Scored(o)
    BY <1>7 DEF Resolve
  <2> QED
    BY <2>1, ScoredApart
<1> QED
  BY <1>2, <1>3, <1>4, <1>5, <1>6, <1>7

\* An observation leaves every row that has a twin as it was, unless it names it.
LEMMA ObserveInv ==
  ASSUME IInv, NEW o \in Observations, Observe(o)
  PROVE  /\ IInv'
         /\ \A i, j \in Present : Twins(i, j) => pending'.rows[i] = rows[i] \/ o.id = i
<1>1. Free
  BY DEF Observe
<1>2. IsFiniteSet(Present) /\ Present \in SUBSET Nat
  BY NumberedRows DEF IInv, Sound, Present
<1>3. PICK out \in Resolve(o) :
       \/ out.kind = "match" /\ MergeInto(o, out.row)
       \/ out.kind = "new" /\ AddRow(o, Source(o))
       \/ /\ out.kind = "ambiguous"
          /\ Decide("nobody", rows, verified, documented,
                    {Fingerprint("ambiguous_entity", out.rivals, "")})
  BY DEF Observe
<1>4. CASE out.kind = "match" /\ MergeInto(o, out.row)
  <2>1. /\ out.row \in Present
        /\ o.id = out.row \/ \A j \in Present : ~Twins(out.row, j)
    BY <1>2, <1>4, ResolvedApart
  <2>2. IInv' /\ \A j \in Present \ {out.row} : pending'.rows[j] = rows[j]
    BY <1>1, <1>4, <2>1, Merged
  <2> QED
    BY <2>1, <2>2
<1>5. CASE AddRow(o, Source(o))
  <2>1. Source(o) # "nobody"
    BY DEF Source
  <2> QED
    BY <1>1, <1>5, <2>1, Added
<1>6. CASE Decide("nobody", rows, verified, documented,
                  {Fingerprint("ambiguous_entity", out.rivals, "")})
  <2> DEFINE raised == {Fingerprint("ambiguous_entity", out.rivals, "")}
  <2>1. \A fp \in raised : fp.type \notin TimelineTypes
    <3> DEFINE fp == Fingerprint("ambiguous_entity", out.rivals, "")
    <3>1. raised = {fp} /\ fp.type = "ambiguous_entity"
      BY DEF Fingerprint
    <3> HIDE DEF fp, raised
    <3>2. "ambiguous_entity" \notin TimelineTypes
      BY DEF TimelineTypes
    <3> QED
      BY <3>1, <3>2
  <2>2. Sound(rows, verified, documented) /\ "nobody" # "remark"
    BY DEF IInv
  <2>3. Decide("nobody", rows, verified, documented, raised) /\ pending'.rows = rows
    BY <1>6 DEF Decide
  <2> HIDE DEF raised
  <2>4. IInv'
    BY <1>1, <2>1, <2>2, <2>3, Decided
  <2> QED
    BY <2>3, <2>4
<1> QED
  BY <1>3, <1>4, <1>5, <1>6

-----------------------------------------------------------------------------
(* Tests and skills leave the education and the issues alone.              *)

LEMMA ListsInv ==
  ASSUME IInv, Free, writes' = writes + 1, attempts' \in Seq(Sittings),
         submitted' \in BOOLEAN, UNCHANGED <<records, issues, judged, crossed, unchecked, pending>>
  PROVE  IInv'
<1>1. UNCHANGED <<rows, used, verified, documented, issues, judged, crossed, unchecked, pending>>
  BY DEF records
<1>2. writes' \in 0..WriteBound
  BY Reported DEF Free, IInv, TypeOK
<1>3. \A n \in DOMAIN attempts' : attempts'[n].date \in Nat
  BY Reported DEF Sittings
<1>4. TypeOK'
  BY <1>1, <1>2, <1>3 DEF IInv, TypeOK, Present
<1> QED
  BY <1>1, <1>4 DEF IInv, Sound, PlanSound, ReadsIssues, PlansIssues, Outcome, Unjudged,
                    ScanCurrent, Present

\* The report of a sitting leaves those with another date as they were.
LEMMA ReportInv ==
  ASSUME IInv, NEW t \in Tests, ReportTest(t)
  PROVE  /\ IInv'
         /\ \A n \in DOMAIN attempts : attempts[n].date # 0 =>
              n \in DOMAIN attempts' /\ attempts'[n].date = attempts[n].date
<1> DEFINE matches == {n \in DOMAIN attempts : SameSitting(attempts[n], t)}
<1>1. /\ Free /\ writes' = writes + 1
      /\ UNCHANGED <<records, issues, judged, crossed, submitted, unchecked, pending>>
  BY DEF ReportTest, flags
<1>2. attempts \in Seq(Sittings) /\ submitted \in BOOLEAN /\ DOMAIN attempts = 1..Len(attempts)
  BY DEF IInv, TypeOK
<1>3. t \in Sittings /\ t.date \in Nat
  BY Reported DEF Sittings
<1>4. /\ attempts' \in Seq(Sittings)
      /\ \A n \in DOMAIN attempts : attempts[n].date # 0 =>
           n \in DOMAIN attempts' /\ attempts'[n].date = attempts[n].date
  <2>1. CASE matches = {}
    <3>1. attempts' = Append(attempts, t)
      BY <2>1 DEF ReportTest
    <3> QED
      BY <1>2, <1>3, <3>1, AppendProperties
  <2>2. CASE matches # {}
    <3> DEFINE m == Min(matches)
               e == [date |-> IF t.date # 0 THEN t.date ELSE attempts[m].date, score |-> t.score]
    <3>1. m \in matches
      <4>1. matches \in SUBSET Nat
        BY <1>2
      <4> QED
        BY <2>2, <4>1, LeastIsMin
    <3>2. attempts' = [attempts EXCEPT ![m] = e]
      BY <2>2 DEF ReportTest
    <3>3. m \in 1..Len(attempts) /\ SameSitting(attempts[m], t)
      BY <1>2, <3>1
    <3> HIDE DEF m
    <3>4. attempts[m].date \in Nat
      BY <1>2, <3>3 DEF IInv, TypeOK
    <3>5. e \in Sittings
      BY <1>3, <3>4 DEF Sittings
    <3>6. attempts[m].date # 0 => e.date = attempts[m].date
      BY <1>3, <3>3 DEF SameSitting
    <3> HIDE DEF e
    <3>7. /\ attempts' \in Seq(Sittings) /\ Len(attempts') = Len(attempts)
          /\ \A n \in 1..Len(attempts) : attempts'[n] = IF n = m THEN e ELSE attempts[n]
      BY <1>2, <3>2, <3>3, <3>5, ExceptSeq
    <3> QED
      BY <1>2, <3>6, <3>7
  <2> QED
    BY <2>1, <2>2
<1> QED
  BY <1>1, <1>2, <1>4, ListsInv

LEMMA SkillsInv ==
  ASSUME IInv, NEW s \in Skills, MentionSkill(s) \/ SubmitSkill(s)
  PROVE  IInv'
<1>1. attempts \in Seq(Sittings) /\ submitted \in BOOLEAN
  BY DEF IInv, TypeOK
<1>2. /\ Free /\ writes' = writes + 1 /\ UNCHANGED attempts
      /\ UNCHANGED <<records, issues, judged, crossed, unchecked, pending>>
      /\ submitted' = submitted \/ submitted' = TRUE
  BY DEF MentionSkill, SubmitSkill, flags
<1> QED
  BY <1>1, <1>2, ListsInv

-----------------------------------------------------------------------------
(* The theorems.                                                           *)

LEMMA Step == IInv /\ [Next]_vars => IInv'
<1> SUFFICES ASSUME IInv, [Next]_vars PROVE IInv'
  OBVIOUS
<1>1. ASSUME NEW o \in Observations, Observe(o) PROVE IInv'
  BY <1>1, ObserveInv
<1>2. ASSUME NEW f \in Forms, Create(f) PROVE IInv'
  BY <1>2, CreateInv
<1>3. ASSUME NEW f \in Forms, Form(f) PROVE IInv'
  BY <1>3, FormInv
<1>4. ASSUME NEW f \in Forms, NEW i \in Ids, Edit(i, f) PROVE IInv'
  BY <1>4, EditInv
<1>5. ASSUME NEW i \in Ids, Delete(i) PROVE IInv'
  BY <1>5, DeleteInv
<1>6. CASE Commit
  BY <1>6, CommitInv
<1>7. ASSUME NEW fp \in DOMAIN issues, NEW status \in {"resolved", "settled"}, Judge(fp, status)
      PROVE  IInv'
  BY <1>7, JudgeInv
<1>8. ASSUME NEW t \in Tests, ReportTest(t) PROVE IInv'
  BY <1>8, ReportInv
<1>9. ASSUME NEW s \in Skills, MentionSkill(s) \/ SubmitSkill(s) PROVE IInv'
  BY <1>9, SkillsInv
<1>10. CASE UNCHANGED vars
  <2>1. UNCHANGED <<rows, used, verified, documented, issues, judged, crossed, attempts,
                    skills, submitted, unchecked, pending, writes>>
    BY <1>10 DEF vars, records, lists, flags
  <2>2. TypeOK'
    BY <2>1 DEF IInv, TypeOK, Present
  <2> QED
    BY <2>1, <2>2 DEF IInv, Sound, PlanSound, ReadsIssues, PlansIssues, Outcome, Unjudged,
                      ScanCurrent, Present
<1> QED
  BY <1>1, <1>2, <1>3, <1>4, <1>5, <1>6, <1>7, <1>8, <1>9, <1>10 DEF Next

LEMMA Invariant == Spec => []IInv
<1>1. Init => IInv
  BY InitInv
<1>2. IInv /\ [Next]_vars => IInv'
  BY Step
<1> QED
  BY <1>1, <1>2, PTL DEF Spec

\* Every state is well formed: a row's documented values are values, and have
\* evidence (attribute_verification).
THEOREM TypeCorrect == Spec => []TypeOK
<1>1. IInv => TypeOK
  BY DEF IInv
<1> QED
  BY <1>1, Invariant, PTL

\* Unless the form wrote since, the open timeline issues are what the validator
\* finds in the rows, but for those the student has judged (sync_issues).
THEOREM ShownIsFound == Spec => []TimelineCurrent
<1>1. IInv => TimelineCurrent
  BY DEF IInv, ScanCurrent, TimelineCurrent
<1> QED
  BY <1>1, Invariant, PTL

\* A transaction, a judgement, or a step that is neither.
LEMMA IssueSteps ==
  ASSUME IInv, [Next]_vars
  PROVE  \/ Commit
         \/ \E fp \in DOMAIN issues, status \in {"resolved", "settled"} : Judge(fp, status)
         \/ UNCHANGED <<issues, rows, judged, crossed>> /\ (pending.busy => UNCHANGED vars)
<1>1. ASSUME NEW o \in Observations, Observe(o)
      PROVE  UNCHANGED <<issues, rows, judged, crossed>> /\ ~pending.busy
  BY <1>1 DEF Observe, MergeInto, AddRow, Decide, records, Free
<1>2. ASSUME NEW f \in Forms, Create(f) \/ Form(f) \/ \E i \in Ids : Edit(i, f)
      PROVE  UNCHANGED <<issues, rows, judged, crossed>> /\ ~pending.busy
  BY <1>2 DEF Create, Form, Edit, AddRow, Decide, records, Free
<1>3. ASSUME NEW i \in Ids, Delete(i)
      PROVE  UNCHANGED <<issues, rows, judged, crossed>> /\ ~pending.busy
  BY <1>3 DEF Delete, Decide, records, Free
<1>4. ASSUME NEW t \in Tests, ReportTest(t)
      PROVE  UNCHANGED <<issues, rows, judged, crossed>> /\ ~pending.busy
  BY <1>4 DEF ReportTest, records, Free
<1>5. ASSUME NEW s \in Skills, MentionSkill(s) \/ SubmitSkill(s)
      PROVE  UNCHANGED <<issues, rows, judged, crossed>> /\ ~pending.busy
  BY <1>5 DEF MentionSkill, SubmitSkill, records, Free
<1>6. CASE UNCHANGED vars
  BY <1>6 DEF vars, records
<1> QED
  BY <1>1, <1>2, <1>3, <1>4, <1>5, <1>6 DEF Next

\* A claim that lost to a document is asked about until the student answers.
THEOREM ClaimsStayOpen == Spec => LostClaimStaysOpen
<1>1. ASSUME IInv, [Next]_vars,
             NEW fp \in DOMAIN issues \ judged', fp.type \notin TimelineTypes
      PROVE  issues'[fp] = "open"
  <2>1. CASE UNCHANGED <<issues, rows, judged, crossed>>
    BY <1>1, <2>1 DEF IInv, Unjudged
  <2>2. ASSUME NEW q \in DOMAIN issues, NEW status \in {"resolved", "settled"}, Judge(q, status)
        PROVE  issues'[fp] = "open"
    BY <1>1, <2>2 DEF Judge, IInv, Unjudged
  <2>3. CASE Commit
    <3>1. fp \notin judged /\ fp \notin crossed /\ issues[fp] = "open"
      BY <1>1, <2>3 DEF Commit, IInv, TypeOK, Unjudged
    <3>2. pending.seen[fp] = "open" /\ fp \in DOMAIN pending.seen
      BY <1>1, <2>3, <3>1, Written
    <3>3. pending.issues[fp] = "open"
      BY <1>1, <2>3, <3>2 DEF Commit, IInv, PlansIssues, Outcome
    <3> QED
      BY <1>1, <2>3, <3>1, <3>3, Written
  <2> QED
    BY <1>1, <2>1, <2>2, <2>3, IssueSteps
<1>2. IInv /\ [Next]_vars =>
        [\A fp \in DOMAIN issues \ judged' :
           fp.type \notin TimelineTypes => issues'[fp] = "open"]_vars
  BY <1>1
<1> QED
  BY <1>2, Invariant, PTL DEF Spec, LostClaimStaysOpen

\* What the student settled while no transaction was reading stays settled.
THEOREM SettledStays == Spec => JudgementKept
<1>1. ASSUME IInv, [Next]_vars, NEW fp \in DOMAIN issues \ crossed, issues[fp] = "settled"
      PROVE  issues'[fp] = "settled"
  <2>1. CASE UNCHANGED <<issues, rows, judged, crossed>>
    BY <1>1, <2>1
  <2>2. ASSUME NEW q \in DOMAIN issues, NEW status \in {"resolved", "settled"}, Judge(q, status)
        PROVE  issues'[fp] = "settled"
    BY <1>1, <2>2 DEF Judge, IInv, Unjudged
  <2>3. CASE Commit
    <3>1. pending.seen[fp] = "settled" /\ fp \in DOMAIN pending.seen
      BY <1>1, <2>3, Written
    <3>2. pending.issues[fp] = "settled"
      BY <1>1, <2>3, <3>1 DEF Commit, IInv, PlansIssues, Outcome
    <3> QED
      BY <1>1, <2>3, <3>2, Written
  <2> QED
    BY <1>1, <2>1, <2>2, <2>3, IssueSteps
<1>2. IInv /\ [Next]_vars =>
        [\A fp \in DOMAIN issues \ crossed :
           issues[fp] = "settled" => issues'[fp] = "settled"]_vars
  BY <1>1
<1> QED
  BY <1>2, Invariant, PTL DEF Spec, JudgementKept

\* No remark of a chat turn replaces a document's value, in whichever row.
THEOREM DocumentsHold == Spec => DocumentHolds
<1>1. ASSUME IInv, [Next]_vars, pending.busy, pending.by = "remark",
             NEW i \in Present, NEW a \in documented[i]
      PROVE  rows'[i][a] = rows[i][a]
  <2>1. CASE UNCHANGED rows
    BY <2>1
  <2>2. CASE Commit
    BY <1>1, <2>2 DEF Commit, IInv, PlanSound
  <2>3. ASSUME NEW q \in DOMAIN issues, NEW status \in {"resolved", "settled"}, Judge(q, status)
        PROVE  UNCHANGED rows
    BY <2>3 DEF Judge, records
  <2> QED
    BY <1>1, <2>1, <2>2, <2>3, IssueSteps
<1>2. IInv /\ [Next]_vars =>
        [pending.busy /\ pending.by = "remark" =>
           \A i \in Present : \A a \in documented[i] : rows'[i][a] = rows[i][a]]_vars
  BY <1>1
<1> QED
  BY <1>2, Invariant, PTL DEF Spec, DocumentHolds

\* Of two rows alike in all that identifies them, an observation takes neither,
\* unless it names the row.
THEOREM NoRowGuessed == Spec => NeverGuesses
<1>1. ASSUME IInv, [Next]_vars, Free, pending'.busy,
             pending'.by \in {"remark", "document", "correction"},
             NEW i \in Present, NEW j \in Present, Twins(i, j)
      PROVE  pending'.rows[i] = rows[i] \/ \E o \in Observations : o.id = i
  <2>1. ASSUME NEW o \in Observations, Observe(o)
        PROVE  pending'.rows[i] = rows[i] \/ o.id = i
    BY <1>1, <2>1, ObserveInv
  <2>2. ASSUME NEW f \in Forms, Create(f) \/ Form(f) \/ \E k \in Ids : Edit(k, f)
        PROVE  FALSE
    <3>1. \A o, by : AddRow(o, by) => pending'.by = by
      BY DEF AddRow, Decide
    <3>2. CASE Create(f)
      BY <1>1, <3>1, <3>2 DEF Create
    <3>3. CASE Form(f)
      <4>1. CASE AddRow([f EXCEPT !.level = ""], "form")
        <5> DEFINE o == [f EXCEPT !.level = ""]
        <5>1. AddRow(o, "form")
          BY <4>1
        <5> HIDE DEF o
        <5> QED
          BY <1>1, <3>1, <5>1
      <4>2. CASE ~AddRow([f EXCEPT !.level = ""], "form")
        <5>1. \A r, v, d, q : Decide("form", r, v, d, q) => pending'.by = "form"
          BY DEF Decide
        <5>2. \E r, d : Decide("form", r, verified, d, {})
          BY <3>3, <4>2 DEF Form
        <5> QED
          BY <1>1, <5>1, <5>2
      <4> QED
        BY <4>1, <4>2
    <3>4. CASE \E k \in Ids : Edit(k, f)
      BY <1>1, <3>4 DEF Edit, Decide
    <3> QED
      BY <2>2, <3>2, <3>3, <3>4
  <2>3. ASSUME NEW k \in Ids, Delete(k) PROVE FALSE
    BY <1>1, <2>3 DEF Delete, Decide
  <2>4. CASE Commit
    BY <1>1, <2>4 DEF Commit, Free
  <2>5. ASSUME NEW fp \in DOMAIN issues, NEW status \in {"resolved", "settled"}, Judge(fp, status)
        PROVE  FALSE
    BY <1>1, <2>5 DEF Judge, Free
  <2>6. ASSUME NEW t \in Tests, ReportTest(t) PROVE FALSE
    BY <1>1, <2>6 DEF ReportTest, Free
  <2>7. ASSUME NEW s \in Skills, MentionSkill(s) \/ SubmitSkill(s) PROVE FALSE
    BY <1>1, <2>7 DEF MentionSkill, SubmitSkill, Free
  <2>8. ASSUME UNCHANGED vars PROVE FALSE
    BY <1>1, <2>8 DEF vars, Free
  <2> QED
    BY <1>1, <2>1, <2>2, <2>3, <2>4, <2>5, <2>6, <2>7, <2>8 DEF Next
<1>2. IInv /\ [Next]_vars =>
        [Free /\ pending'.busy /\ pending'.by \in {"remark", "document", "correction"} =>
           \A i, j \in Present :
             /\ i # j /\ \A a \in {"inst", "degree", "major", "year", "level"} : rows[i][a] = rows[j][a]
             => pending'.rows[i] = rows[i] \/ \E o \in Observations : o.id = i]_vars
  <2>1. SUFFICES ASSUME IInv, [Next]_vars, Free, pending'.busy,
                        pending'.by \in {"remark", "document", "correction"},
                        NEW i \in Present, NEW j \in Present, i # j,
                        \A a \in {"inst", "degree", "major", "year", "level"} :
                          rows[i][a] = rows[j][a]
                 PROVE  pending'.rows[i] = rows[i] \/ \E o \in Observations : o.id = i
    OBVIOUS
  <2>2. Twins(i, j)
    BY <2>1 DEF Twins
  <2> QED
    BY <1>1, <2>1, <2>2
<1> QED
  BY <1>2, Invariant, PTL DEF Spec, NeverGuesses

\* A dated sitting keeps its place and its date, whatever is reported later.
THEOREM SittingsStay == Spec => SittingsKept
<1>1. ASSUME IInv, [Next]_vars, NEW n \in DOMAIN attempts, attempts[n].date # 0
      PROVE  n \in DOMAIN attempts' /\ attempts'[n].date = attempts[n].date
  <2>1. ASSUME NEW t \in Tests, ReportTest(t)
        PROVE  n \in DOMAIN attempts' /\ attempts'[n].date = attempts[n].date
    BY <1>1, <2>1, ReportInv
  <2>2. ASSUME NEW o \in Observations, Observe(o) PROVE UNCHANGED attempts
    BY <2>2 DEF Observe, MergeInto, AddRow, Decide, lists
  <2>3. ASSUME NEW f \in Forms, Create(f) \/ Form(f) \/ \E k \in Ids : Edit(k, f)
        PROVE  UNCHANGED attempts
    BY <2>3 DEF Create, Form, Edit, AddRow, Decide, lists
  <2>4. ASSUME NEW k \in Ids, Delete(k) PROVE UNCHANGED attempts
    BY <2>4 DEF Delete, Decide, lists
  <2>5. CASE Commit
    BY <1>1, <2>5 DEF Commit, lists
  <2>6. ASSUME NEW fp \in DOMAIN issues, NEW status \in {"resolved", "settled"}, Judge(fp, status)
        PROVE  UNCHANGED attempts
    BY <2>6 DEF Judge, lists
  <2>7. ASSUME NEW s \in Skills, MentionSkill(s) \/ SubmitSkill(s) PROVE UNCHANGED attempts
    BY <2>7 DEF MentionSkill, SubmitSkill
  <2>8. CASE UNCHANGED vars
    BY <2>8 DEF vars, lists
  <2> QED
    BY <1>1, <2>1, <2>2, <2>3, <2>4, <2>5, <2>6, <2>7, <2>8 DEF Next
<1>2. IInv /\ [Next]_vars =>
        [\A n \in DOMAIN attempts : attempts[n].date # 0 =>
           n \in DOMAIN attempts' /\ attempts'[n].date = attempts[n].date]_vars
  BY <1>1
<1> QED
  BY <1>2, Invariant, PTL DEF Spec, SittingsKept
=============================================================================
