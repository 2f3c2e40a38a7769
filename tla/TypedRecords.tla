----------------------------- MODULE TypedRecords -----------------------------
(***************************************************************************)
(* The typed records of one student: education rows with the issues that   *)
(* are raised about them, test attempts and skills.                        *)
(*                                                                         *)
(* Observations of chat turns and documents, the student's own edits and   *)
(* the onboarding form all write under lock_person, one transaction after  *)
(* another.  The student's judgement of an issue takes no lock, so a       *)
(* transaction has two steps here: it reads and decides, then it commits.  *)
(* What it has read of the issues is in pending.seen.                      *)
(*                                                                         *)
(* An observation is a record of attributes, each of them given or None.   *)
(* Scores are hundredths.                                                  *)
(***************************************************************************)
EXTENDS Naturals, Sequences, FiniteSets, FiniteSetsExt

CONSTANTS Ids,           \* education rows, numbered in the order of creation
          Observations,  \* what chat and documents say of an education
          Forms,         \* what the student types into the profile, or the form
          Tests,         \* test results that are reported
          Skills,        \* skills that are mentioned
          Overlap,       \* Overlap[<<a, b>>]: shared words, percent of the shorter name
          LevelNamed,    \* LevelNamed[d]: the canonical level a degree's name is
          WriteBound     \* transactions in a behaviour

ASSUME NumberedRows == Ids \subseteq Nat \ {0}
ASSUME Reported ==
  /\ \A o \in Observations : o.verified \in BOOLEAN /\ o.correction \in BOOLEAN
  /\ \A t \in Tests : t.date \in Nat
  /\ WriteBound \in Nat

VARIABLES
  rows,        \* the education rows: a function on the ids present
  used,        \* ids given out
  verified,    \* evidence: attributes a document was recorded for
  documented,  \* attributes whose present value a document wrote
  issues,      \* profile_issues: the status of each fingerprint recorded
  judged,      \* fingerprints the student has judged
  crossed,     \* judgements made while a transaction had read the issue
  attempts,    \* test attempts, in the order of attempt_number
  skills,      \* rows of skills
  submitted,   \* person.onboarding_completed_at is set
  unchecked,   \* rows were written that no timeline scan has seen
  pending,     \* the transaction that has read and not committed
  writes

records == <<rows, used, verified, documented>>
lists   == <<attempts, skills>>
flags   == <<submitted, unchecked>>
vars    == <<records, issues, judged, crossed, lists, flags, pending, writes>>

Guarded    == {"inst", "degree", "major", "gpa", "year"}
Attributes == Guarded \cup {"scale", "level"}
None(a)    == IF a \in {"gpa", "year", "scale"} THEN 0 ELSE ""
Given(o)   == {a \in Attributes : o[a] # None(a)}
Ranks      == [higher_secondary |-> 1, bachelor |-> 2, master |-> 3]
Rank(l)    == IF l \in DOMAIN Ranks THEN Ranks[l] ELSE 5
Statuses   == {"open", "resolved", "settled"}

Present == DOMAIN rows

\* No transaction holds the person's lock.
Idle == [busy |-> FALSE]
Free == ~pending.busy /\ writes < WriteBound

TypeOK ==
  /\ used \subseteq Ids /\ Present \subseteq used
  /\ \A i \in Present : Attributes \subseteq DOMAIN rows[i]
  /\ verified \in [Ids -> SUBSET Guarded]
  /\ documented \in [Ids -> SUBSET Guarded]
  /\ \A i \in Present : \A a \in documented[i] : a \in verified[i] /\ rows[i][a] # None(a)
  /\ \A fp \in DOMAIN issues : issues[fp] \in Statuses
  /\ judged \subseteq DOMAIN issues /\ crossed \subseteq judged
  /\ \A n \in DOMAIN attempts : attempts[n].date \in Nat
  /\ submitted \in BOOLEAN /\ unchecked \in BOOLEAN
  /\ pending.busy \in BOOLEAN
  /\ writes \in 0..WriteBound

Init ==
  /\ rows = << >> /\ used = {}
  /\ verified = [i \in Ids |-> {}] /\ documented = [i \in Ids |-> {}]
  /\ issues = << >> /\ judged = {} /\ crossed = {}
  /\ attempts = << >> /\ skills = << >>
  /\ submitted = FALSE /\ unchecked = FALSE
  /\ pending = Idle /\ writes = 0

-----------------------------------------------------------------------------
(* Which record an observation describes.                                  *)

Apart(m, n) == IF m > n THEN m - n ELSE n - m
Both(o, r, a) == o[a] # None(a) /\ r[a] # None(a)

\* The level of an observation is its wording's: the payload that is resolved
\* has no canonical_level, whatever the candidate said.
ObservedLevel(o) ==
  IF LevelNamed[o.degree] # "" THEN LevelNamed[o.degree] ELSE LevelNamed[o.major]

Compatible(o, r) ==
  /\ ObservedLevel(o) # "" /\ r.level # "" => ObservedLevel(o) = r.level
  /\ Both(o, r, "year") => Apart(o.year, r.year) <= 1

Score(o, r) ==
  LET level == IF ObservedLevel(o) # "" /\ r.level # "" THEN 45 ELSE 0
      inst  == IF ~Both(o, r, "inst") THEN 0
               ELSE IF o.inst = r.inst THEN 50
               ELSE IF Overlap[<<o.inst, r.inst>>] >= 50 THEN 22
               ELSE IF Overlap[<<o.inst, r.inst>>] > 0 THEN 8 ELSE 0
      degree == IF ~Both(o, r, "degree") THEN 0
                ELSE IF o.degree = r.degree THEN 25
                ELSE IF Overlap[<<o.degree, r.degree>>] >= 50 THEN 12 ELSE 0
      major == IF Both(o, r, "major") /\ o.major = r.major THEN 15 ELSE 0
      year  == IF ~Both(o, r, "year") THEN 0 ELSE IF o.year = r.year THEN 20 ELSE 8
  IN level + inst + degree + major + year

NamesExactly(o, r) ==
  /\ Both(o, r, "degree") /\ o.degree = r.degree
  /\ Both(o, r, "major") /\ o.major = r.major
  /\ Compatible(o, r)
  /\ Both(o, r, "inst") => o.inst = r.inst

BareMeasurement(o) ==
  Given(o) \ {"level"} # {} /\ Given(o) \subseteq {"gpa", "scale", "level"}

Match(i)   == [kind |-> "match", row |-> i, rivals |-> {}]
Unknown    == [kind |-> "new", row |-> 0, rivals |-> {}]
Guess(is)  == [kind |-> "ambiguous", row |-> 0, rivals |-> is]

\* Fault: the best row is taken however close the next one is.
ScoredUnmargined(o) ==
  LET fit      == {i \in Present : Compatible(o, rows[i])}
      best     == {i \in fit : \A j \in fit : Score(o, rows[i]) >= Score(o, rows[j])}
  IN IF \E i \in best : Score(o, rows[i]) >= 45 THEN {Match(i) : i \in best} ELSE {Unknown}

\* The best of several rows must lead by 0.15.  At that very distance the
\* floating point difference decides, and two rows equally behind may change
\* places.
Scored(o) ==
  LET fit      == {i \in Present : Compatible(o, rows[i])}
      score(i) == Score(o, rows[i])
      best     == {i \in fit : \A j \in fit : score(i) >= score(j)}
      top      == CHOOSE i \in best : TRUE
      second   == IF Cardinality(best) > 1 THEN best
                  ELSE {i \in fit \ best : \A j \in fit \ best : score(i) >= score(j)}
      next     == IF second = {} THEN 0 ELSE score(CHOOSE i \in second : TRUE)
      rivals   == IF Cardinality(best) > 1 THEN kSubset(2, best)
                  ELSE IF second = {} THEN {best} ELSE {best \cup {i} : i \in second}
  IN IF fit = {} \/ score(top) < 45 THEN {Unknown}
     ELSE (IF score(top) - next >= 15 THEN {Match(top)} ELSE {})
          \cup (IF score(top) - next <= 15 THEN {Guess(is) : is \in rivals} ELSE {})

Resolve(o) ==
  LET exact == {i \in Present : NamesExactly(o, rows[i])}
  IN IF Present = {} THEN {Unknown}
     ELSE IF o.id # 0 THEN {IF o.id \in Present THEN Match(o.id) ELSE Guess({})}
     ELSE IF Cardinality(exact) = 1 THEN {Match(i) : i \in exact}
     ELSE IF exact # {} THEN {Guess(exact)}
     ELSE IF BareMeasurement(o)
       THEN {IF Cardinality(Present) = 1 THEN Match(Min(Present)) ELSE Guess(Present)}
     ELSE Scored(o)

-----------------------------------------------------------------------------
(* Issues.                                                                 *)

Fingerprint(type, about, of) == [type |-> type, about |-> about, of |-> of]
TimelineTypes == {"missing_stage", "missing_dates", "duplicate_entity", "impossible_transition"}

\* order_timeline: by year, an unknown one last, by level, and the row that was
\* changed last before the others.
Before(t, i, j) ==
  LET year(k) == IF t[k].year = 0 THEN 9999 ELSE t[k].year
  IN \/ year(i) < year(j)
     \/ year(i) = year(j) /\ Rank(t[i].level) < Rank(t[j].level)
     \/ year(i) = year(j) /\ Rank(t[i].level) = Rank(t[j].level) /\ t[i].at > t[j].at
Adjacent(t, among) ==
  {p \in among \X among :
     Before(t, p[1], p[2]) /\ \A k \in among : ~(Before(t, p[1], k) /\ Before(t, k, p[2]))}

\* Education has no start_date that anything sets: validate_education_timeline
\* finds no gap and no overlap.
Detected(t) ==
  LET leveled == {i \in DOMAIN t : t[i].level # ""}
  IN {Fingerprint("missing_stage", {}, l) : l \in
        {l \in DOMAIN Ranks : \E p \in Adjacent(t, leveled) :
           Rank(t[p[1]].level) < Rank(l) /\ Rank(l) < Rank(t[p[2]].level)}}
     \cup {Fingerprint("missing_dates", {i}, "") : i \in {i \in DOMAIN t : t[i].year = 0}}
     \cup {Fingerprint("duplicate_entity", {p[1], p[2]}, "") : p \in
            {p \in leveled \X leveled :
               /\ p[1] < p[2] /\ t[p[1]].level = t[p[2]].level
               /\ t[p[1]].inst # "" /\ t[p[2]].inst # ""
               /\ Overlap[<<t[p[1]].inst, t[p[2]].inst>>] >= 60}}
     \cup {Fingerprint("impossible_transition", {p[1], p[2]},
                       IF p[1] < p[2] THEN "rising" ELSE "falling") : p \in
            {p \in Adjacent(t, DOMAIN t) :
               /\ {t[p[1]].level, t[p[2]].level} \subseteq DOMAIN Ranks
               /\ Rank(t[p[2]].level) < Rank(t[p[1]].level)}}

\* Fault: a type the validator reports is not among those a scan closes.
ClosingButDates(fp, found) == fp.type \in TimelineTypes \ {"missing_dates"} /\ fp \notin found
\* Fault: a scan closes issues it does not look for as well.
ClosingAnyType(fp, found) == fp \notin found
\* What sync_issues closes: an open issue of its types that was not found again.
Closing(fp, found) == fp.type \in TimelineTypes /\ fp \notin found

\* Fault: a new detection opens whatever is on record.
ReopensAlways(seen, fp) == TRUE
\* record_issue on an issue on record.
Reopens(seen, fp) == seen[fp] # "settled"

\* The issues once raised ones are recorded and, if scan, the timeline is
\* scanned, from the statuses that were seen.
Recorded(seen, raised, scan, t) ==
  LET found == IF scan THEN Detected(t) ELSE {}
      all   == raised \cup found
  IN [fp \in DOMAIN seen \cup all |->
        IF fp \in all THEN IF fp \in DOMAIN seen /\ ~Reopens(seen, fp) THEN seen[fp] ELSE "open"
        ELSE IF scan /\ seen[fp] = "open" /\ Closing(fp, found) THEN "resolved"
        ELSE seen[fp]]

-----------------------------------------------------------------------------
(* Writers of education.                                                   *)

\* A transaction has read, and decided to leave these rows and issues.  All but
\* the form scan the timeline, and an ambiguous observation changes no row.
Decide(by, newRows, newVerified, newDocumented, raised) ==
  /\ pending' = [busy |-> TRUE, by |-> by, rows |-> newRows, verified |-> newVerified,
                 documented |-> newDocumented, seen |-> issues,
                 issues |-> Recorded(issues, raised, by \notin {"form", "nobody"}, newRows)]
  /\ writes' = writes + 1
  /\ UNCHANGED <<records, issues, judged, crossed, lists, flags>>

\* The attributes of o that would change row i, and those that lose to evidence.
\* Fault: only documents yield to documents.
OutrankedDocuments(o, i, a) == o.verified /\ a \in verified[i]
Outranked(o, i, a) == ~o.verified /\ ~o.correction /\ a \in verified[i]

Said(o, i) ==
  LET invented == o.inst # "" /\ o.inst \in {o.degree, o.major}
  IN {a \in Given(o) \cap Guarded : ~(a = "inst" /\ invented) /\ rows[i][a] # o[a]}

Lost(o, i) == {a \in Said(o, i) : rows[i][a] # None(a) /\ Outranked(o, i, a)}

Overwrite(i, o, given, touched) ==
  [rows EXCEPT ![i] = [a \in DOMAIN @ |-> IF a \in given THEN o[a]
                                           ELSE IF a = "at" /\ touched THEN writes ELSE @[a]]]

Source(o) == IF o.correction THEN "correction" ELSE IF o.verified THEN "document" ELSE "remark"

\* _apply_education_fields and what _apply_education_one does around it.  The
\* scale and the level are written whatever they were.
MergeInto(o, i) ==
  LET written == Said(o, i) \ Lost(o, i)
      all     == written \cup {a \in {"scale", "level"} \cap Given(o) : o[a] # rows[i][a]}
  IN Decide(Source(o), Overwrite(i, o, all, all \cup Lost(o, i) # {}),
            [verified EXCEPT ![i] = IF o.verified THEN @ \cup written ELSE @],
            [documented EXCEPT ![i] = IF o.verified THEN @ \cup written ELSE @ \ written],
            {Fingerprint("contradiction", {i}, a) : a \in Lost(o, i)})

NextId == Min(Ids \ used)

NewRow(o) == [a \in Attributes \cup {"at"} |-> IF a = "at" THEN writes ELSE o[a]]

AddRow(o, by) ==
  /\ used # Ids
  /\ LET i == NextId
         e == IF by = "document" THEN Given(o) \cap Guarded ELSE {}
     IN Decide(by, [j \in Present \cup {i} |-> IF j = i THEN NewRow(o) ELSE rows[j]],
               [verified EXCEPT ![i] = e], [documented EXCEPT ![i] = e], {})

\* _apply_education_one for a chat turn's or a document's observation.
Observe(o) ==
  /\ Free
  /\ \E out \in Resolve(o) :
       \/ out.kind = "match" /\ MergeInto(o, out.row)
       \/ /\ out.kind = "new"
          /\ o.inst # "" \/ o.degree # ""
          /\ o.inst = "" \/ o.inst \notin {o.degree, o.major}
          /\ AddRow(o, Source(o))
       \/ /\ out.kind = "ambiguous"
          /\ Decide("nobody", rows, verified, documented,
                    {Fingerprint("ambiguous_entity", out.rivals, "")})

\* create_resource, update_resource and delete_resource.
Create(f) == Free /\ AddRow([f EXCEPT !.level = ""], "hand")

NoLonger(i, given) == [documented EXCEPT ![i] = @ \ given]

Edit(i, f) ==
  LET given == Given(f) \ {"level"}
  IN /\ Free /\ i \in Present
     /\ Decide("hand", Overwrite(i, f, given, TRUE), verified, NoLonger(i, given), {})

Delete(i) ==
  /\ Free /\ i \in Present
  /\ Decide("hand", [j \in Present \ {i} |-> rows[j]], verified, documented, {})

\* _upsert_education of the onboarding form: a new row the first time, later
\* the oldest row.  It records no evidence and scans no timeline.
Form(f) ==
  LET given == Given(f) \cap Guarded
      both  == given \cup (IF "gpa" \in given THEN {"scale"} ELSE {})
      i     == Min(Present)
  IN /\ Free
     /\ \/ (~submitted \/ Present = {}) /\ AddRow([f EXCEPT !.level = ""], "form")
        \/ /\ submitted /\ Present # {}
           /\ Decide("form", Overwrite(i, f, both, TRUE), verified, NoLonger(i, given), {})

\* The end of the transaction writes the statuses it changed.
Commit ==
  /\ pending.busy
  /\ rows' = pending.rows /\ used' = used \cup DOMAIN pending.rows
  /\ verified' = pending.verified /\ documented' = pending.documented
  /\ LET seen == pending.seen
         new  == pending.issues
     IN issues' = [fp \in DOMAIN new |->
                     IF fp \in DOMAIN seen /\ new[fp] = seen[fp] THEN issues[fp] ELSE new[fp]]
  /\ unchecked' = (pending.by = "form" \/ (unchecked /\ pending.by = "nobody"))
  /\ submitted' = (submitted \/ pending.by = "form")
  /\ pending' = Idle
  /\ UNCHANGED <<judged, crossed, lists, writes>>

\* resolve_issue: the student says what an issue was, in no one's lock.
Judge(fp, status) ==
  /\ writes < WriteBound \/ pending.busy
  /\ fp \in DOMAIN issues /\ fp \notin judged
  /\ issues' = [issues EXCEPT ![fp] = status]
  /\ judged' = judged \cup {fp}
  /\ crossed' = IF pending.busy THEN crossed \cup {fp} ELSE crossed
  /\ UNCHANGED <<records, lists, flags, pending, writes>>

-----------------------------------------------------------------------------
(* Test attempts and skills.                                               *)

\* Fault: the same score is the same sitting.
SameSittingByScore(row, t) == row.score = t.score
SameSitting(row, t) ==
  IF row.date # 0 /\ t.date # 0 THEN row.date = t.date ELSE row.score = t.score

\* upsert_test_attempt: the first attempt it may be is updated.
ReportTest(t) ==
  LET matches == {n \in DOMAIN attempts : SameSitting(attempts[n], t)}
  IN /\ Free /\ writes' = writes + 1
     /\ attempts' =
          IF matches = {} THEN Append(attempts, t)
          ELSE [attempts EXCEPT ![Min(matches)] =
                  [date |-> IF t.date # 0 THEN t.date ELSE @.date, score |-> t.score]]
     /\ UNCHANGED <<records, issues, judged, crossed, skills, flags, pending>>

KnownSkill(row, s) == row.name = s.name

\* _upsert_skills, from a turn or a document and from the form.
MentionSkill(s) ==
  LET known == {n \in DOMAIN skills : KnownSkill(skills[n], s)}
  IN /\ Free /\ writes' = writes + 1
     /\ skills' =
          IF known = {} THEN Append(skills, [name |-> s.name, level |-> s.level])
          ELSE [skills EXCEPT ![Max(known)].level = IF @ = "" THEN s.level ELSE @]
     /\ UNCHANGED <<records, issues, judged, crossed, attempts, flags, pending>>

SubmitSkill(s) ==
  /\ Free /\ writes' = writes + 1
  /\ submitted => \A n \in DOMAIN skills : skills[n].name # s.name
  /\ skills' = Append(skills, [name |-> s.name, level |-> s.level])
  /\ submitted' = TRUE
  /\ UNCHANGED <<records, issues, judged, crossed, attempts, unchecked, pending>>

-----------------------------------------------------------------------------
Next ==
  \/ \E o \in Observations : Observe(o)
  \/ \E f \in Forms : Create(f) \/ Form(f) \/ \E i \in Ids : Edit(i, f)
  \/ \E i \in Ids : Delete(i)
  \/ Commit
  \/ \E fp \in DOMAIN issues, status \in {"resolved", "settled"} : Judge(fp, status)
  \/ \E t \in Tests : ReportTest(t)
  \/ \E s \in Skills : MentionSkill(s) \/ SubmitSkill(s)

Spec == Init /\ [][Next]_vars

-----------------------------------------------------------------------------
\* Unless the form wrote rows since, the open timeline issues are what the
\* validator finds in the rows, but for those the student has judged: no scan
\* leaves one open that is over, and none is missed (sync_issues).
TimelineCurrent ==
  ~pending.busy /\ ~unchecked =>
    \A fp \in (DOMAIN issues \cup Detected(rows)) \ judged :
      fp.type \in TimelineTypes =>
        (fp \in Detected(rows) <=> fp \in DOMAIN issues /\ issues[fp] = "open")

\* A claim that lost to a document's value stays asked about: only the student
\* closes it, never a later scan (_apply_education_fields, sync_issues).
LostClaimStaysOpen ==
  [][\A fp \in DOMAIN issues \ judged' :
       fp.type \notin TimelineTypes => issues'[fp] = "open"]_vars

\* What the student settled while no transaction was reading stays settled,
\* whatever is detected later (record_issue).
JudgementKept ==
  [][\A fp \in DOMAIN issues \ crossed : issues[fp] = "settled" => issues'[fp] = "settled"]_vars

\* A value that a document wrote is not replaced by a remark of a chat turn,
\* through whichever row the remark is resolved to (attribute_verification).
DocumentHolds ==
  [][pending.busy /\ pending.by = "remark" =>
       \A i \in Present : \A a \in documented[i] : rows'[i][a] = rows[i][a]]_vars

\* Of two rows that differ in nothing that identifies them, neither is taken
\* for the one an observation means, unless it gives the row's id.
NeverGuesses ==
  [][Free /\ pending'.busy /\ pending'.by \in {"remark", "document", "correction"} =>
       \A i, j \in Present :
         /\ i # j /\ \A a \in {"inst", "degree", "major", "year", "level"} : rows[i][a] = rows[j][a]
         => pending'.rows[i] = rows[i] \/ \E o \in Observations : o.id = i]_vars

\* A dated sitting is never lost to, or moved by, the report of another one
\* (upsert_test_attempt).
SittingsKept ==
  [][\A n \in DOMAIN attempts :
       attempts[n].date # 0 => n \in DOMAIN attempts' /\ attempts'[n].date = attempts[n].date]_vars

\* tests/test_longitudinal_student_model.py: an observation of another level
\* never lands on a record, even at the same college.  It fails: see the README.
LevelsNeverMerge ==
  [][\A i \in Present \cap DOMAIN rows' : rows[i].level # "" => rows'[i].level = rows[i].level]_vars

\* issues/service.py: what the student settled is never reopened.  It fails for a
\* scan that read the issue before: see the README.
JudgementFinal ==
  [][\A fp \in DOMAIN issues : issues[fp] = "settled" => issues'[fp] = "settled"]_vars
=============================================================================
