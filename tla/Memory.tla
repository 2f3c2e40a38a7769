-------------------------------- MODULE Memory --------------------------------
(***************************************************************************)
(* The formed memories of one student.                                     *)
(*                                                                         *)
(* A follow-up turns what a chat turn taught into drafts, looks up the live *)
(* memories of their keys and strengthens, supersedes or inserts; all of   *)
(* it is written at its commit.  After the commit, in a session of its own,*)
(* it embeds the memories without a vector: it reads them, awaits the      *)
(* provider and writes the vectors by row.  A recall may come at any time. *)
(*                                                                         *)
(* The job queue means to run one follow-up of the student at a time, and  *)
(* does not always (JobQueue); a follow-up that finds nothing for the vault *)
(* takes no lock of the person.  Where two overlap, only the unique indexes*)
(* of the table keep them apart; overlapped has their turns.  A turn whose *)
(* stream was interrupted may be delivered again although it was learned   *)
(* (ChatTurn).                                                             *)
(***************************************************************************)
EXTENDS Naturals, Sequences, FiniteSets, SequencesExt

CONSTANTS Workers,      \* follow-ups and their embedding calls
          Turns,        \* messages of the student
          Interrupted,  \* those whose stream was interrupted
          Keys, Texts,  \* what a memory is about, and what it may say
          Taught,       \* Taught[t]: the drafts of a turn, in order
          SameMeaning,  \* pairs of texts, equal but for case and spaces
          Limit,        \* memories embedded in a call
          Deliveries    \* deliveries of a turn, at most

ASSUME Bounds == Limit \in Nat \ {0} /\ Deliveries \in Nat \ {0}
\* A draft may come with the words of the message it is taken from.
Draft == [key : Keys, content : Texts, status : {"active", "candidate"}, confidence : Nat,
          quoted : BOOLEAN]
ASSUME Drafted == \A t \in Turns : Taught[t] \in Seq(Draft)

VARIABLES memories,   \* person_semantic_memories, in the order of insertion
          delivered,  \* deliveries of each turn
          learned,    \* turns whose follow-up has committed
          overlapped, \* turns that were learned next to another one
          pc, work    \* what each worker has read
vars == <<memories, delivered, learned, overlapped, pc, work>>

Live(m) == m.status \in {"active", "candidate"}
Rows    == DOMAIN memories
Nothing == [turn |-> {}, updates |-> {}, inserts |-> << >>]

\* A row of the table.  evidence is the turn whose words it quotes, if any; vector
\* is empty, or the content and the evidence that were embedded.
Memo == [key : Keys, content : Texts, previous : Texts \cup {""},
         vector : SUBSET (Texts \X SUBSET Turns),
         status : {"active", "candidate", "superseded"}, confidence : Nat,
         version : Nat \ {0}, recurrence : Nat \ {0}, refs : (SUBSET Turns) \ {{}},
         evidence : SUBSET Turns]

TypeOK ==
  /\ memories \in Seq(Memo)
  /\ delivered \in [Turns -> 0..Deliveries] /\ learned \subseteq Turns
  /\ overlapped \subseteq Turns
  /\ pc \in [Workers -> {"idle", "learning", "committed", "embedding"}]
  /\ DOMAIN work = Workers
  /\ \A w \in Workers :
       /\ DOMAIN work[w] = {"turn", "updates", "inserts"} /\ work[w].turn \subseteq Turns
       /\ work[w].inserts \in Seq(Memo)
       /\ \A u \in work[w].updates :
            /\ u[1] \in Rows
            /\ DOMAIN u[2] \subseteq
                 {"recurrence", "refs", "confidence", "evidence", "status", "vector"}

Init ==
  /\ memories = << >> /\ delivered = [t \in Turns |-> 0] /\ learned = {}
  /\ pc = [w \in Workers |-> "idle"] /\ work = [w \in Workers |-> Nothing]
  /\ overlapped = {}

-----------------------------------------------------------------------------
(* apply_draft.                                                            *)

\* merge_drafts: of the drafts of a key the surest, and of equally sure ones
\* the last.
Merged(drafts) ==
  {d \in ToSet(drafts) : \E n \in DOMAIN drafts :
     /\ drafts[n] = d
     /\ \A k \in DOMAIN drafts : drafts[k].key = d.key /\ k # n =>
          drafts[k].confidence < d.confidence \/ (drafts[k].confidence = d.confidence /\ k < n)}

\* Fault: a row that was superseded is found as well.
ExistingAny(d) == {r \in Rows : memories[r].key = d.key}

\* The row apply_memory_drafts finds for a draft.
Existing(d) == {r \in Rows : memories[r].key = d.key /\ Live(memories[r])}

\* Fault: every delivery counts.
KnownNever(m, t) == FALSE
\* The draft's only reference is one the memory rests on.
Known(m, t) == t \in m.refs

\* Fault: the message of a repetition is not kept.
StrengthenUnsourced(m, d, t) ==
  [recurrence |-> m.recurrence + 1, status |-> d.status]

\* The latest words of the student, or those there are.
Quote(m, d, t) == IF d.quoted THEN {t} ELSE m.evidence

\* Fault: the references are the draft's.
StrengthenForgetful(m, d, t) ==
  [recurrence |-> 1, refs |-> {t}, evidence |-> Quote(m, d, t)]

\* The columns a draft of the same meaning changes: formation as a whole, status
\* if a candidate is confirmed.  The vector stays, of the words that were quoted.
Strengthen(m, d, t) ==
  [c \in {"recurrence", "refs", "confidence", "evidence"} \cup
         (IF d.status = "active" /\ m.status # "active" THEN {"status"} ELSE {}) |->
     CASE c = "recurrence" -> m.recurrence + 1
       [] c = "refs"       -> m.refs \cup {t}
       [] c = "confidence" -> IF d.confidence > m.confidence THEN d.confidence ELSE m.confidence
       [] c = "evidence"   -> Quote(m, d, t)
       [] c = "status"     -> "active"]

\* A new row, after the memory it replaces if there is one.
Form(d, t, before) ==
  [key |-> d.key, content |-> d.content, status |-> d.status, confidence |-> d.confidence,
   version |-> IF before = {} THEN 1 ELSE (CHOOSE m \in before : TRUE).version + 1,
   previous |-> IF before = {} THEN "" ELSE (CHOOSE m \in before : TRUE).content,
   recurrence |-> 1, refs |-> {t}, vector |-> {},
   evidence |-> IF d.quoted THEN {t} ELSE {}]

-----------------------------------------------------------------------------
(* A follow-up.                                                            *)

Goto(w, point) == pc' = [pc EXCEPT ![w] = point]

\* apply_memory_drafts in the transaction of the follow-up: what it reads, and
\* the updates and inserts it will make of it.
Learn(w, t) ==
  LET drafts  == Merged(Taught[t])
      fresh   == {d \in drafts : \A r \in Existing(d) : ~Known(memories[r], t)}
      found   == {p \in fresh \X Rows : p[2] \in Existing(p[1])}
      same    == {p \in found : <<memories[p[2]].content, p[1].content>> \in SameMeaning}
      changed == found \ same
      news    == {Form(d, t, {memories[r] : r \in Existing(d)}) :
                    d \in {d \in fresh : \A p \in same : p[1] # d}}
  IN /\ pc[w] = "idle"
     /\ delivered[t] < Deliveries
     /\ \A v \in Workers : t \notin work[v].turn  \* the run is locked
     /\ t \in learned => t \in Interrupted
     /\ delivered' = [delivered EXCEPT ![t] = @ + 1]
     /\ work' = [work EXCEPT ![w] =
          [turn    |-> {t},
           updates |-> {<<p[2], Strengthen(memories[p[2]], p[1], t)>> : p \in same}
                       \cup {<<p[2], [status |-> "superseded"]>> : p \in changed},
           inserts |-> SetToSeq(news)]]
     /\ Goto(w, "learning")
     /\ LET others == UNION {work[v].turn : v \in Workers}
        IN overlapped' = IF others = {} THEN overlapped ELSE overlapped \cup others \cup {t}
     /\ UNCHANGED <<memories, learned>>

\* A row with some of its columns written.
Overwritten(m, set) == [c \in DOMAIN m |-> IF c \in DOMAIN set THEN set[c] ELSE m[c]]

\* The table after the UPDATEs, which write the columns that the follow-up
\* changed in what it read, and the INSERTs.
Written(w) ==
  [r \in Rows |->
     IF \E u \in work[w].updates : u[1] = r
     THEN Overwritten(memories[r], (CHOOSE u \in work[w].updates : u[1] = r)[2])
     ELSE memories[r]] \o work[w].inserts

\* uq_person_memories_live_key, and external_id, which is of key and version.
Unique(table) ==
  \A r, s \in DOMAIN table : r # s /\ table[r].key = table[s].key =>
    table[r].version # table[s].version /\ ~(Live(table[r]) /\ Live(table[s]))

CommitTurn(w) ==
  /\ pc[w] = "learning" /\ Unique(Written(w))
  /\ memories' = Written(w)
  /\ learned' = learned \cup work[w].turn
  /\ work' = [work EXCEPT ![w] = Nothing] /\ Goto(w, "committed")
  /\ UNCHANGED <<delivered, overlapped>>

\* An error, a violated index or the end of the process: nothing is kept.
RollBack(w) ==
  /\ pc[w] # "idle"
  /\ work' = [work EXCEPT ![w] = Nothing] /\ Goto(w, "idle")
  /\ UNCHANGED <<memories, delivered, learned, overlapped>>

\* What is embedded of a row: its content and the words it quotes.
Text(m) == <<m.content, m.evidence>>

\* embed_pending_memories reads up to Limit rows that have no vector ...
ReadPending(w) ==
  /\ pc[w] = "committed"
  /\ LET without == {r \in Rows : memories[r].vector = {}}
     IN \E some \in SUBSET without :
          /\ Cardinality(some) = IF Cardinality(without) < Limit THEN Cardinality(without) ELSE Limit
          /\ IF some = {} THEN Goto(w, "idle") /\ UNCHANGED work
             ELSE /\ work' = [work EXCEPT ![w] = [Nothing EXCEPT !.updates = {<<r, [vector |-> {Text(memories[r])}]>> : r \in some}]]
                  /\ Goto(w, "embedding")
  /\ UNCHANGED <<memories, delivered, learned, overlapped>>

\* ... and writes the vectors of the texts it read.  When the call fails none is
\* written, which is RollBack.
WriteVectors(w) ==
  /\ pc[w] = "embedding"
  /\ memories' = Written(w)
  /\ work' = [work EXCEPT ![w] = Nothing] /\ Goto(w, "idle")
  /\ UNCHANGED <<delivered, learned, overlapped>>

\* AsyncPostgresMemoryStore.search: the rows a recall may rank.  If the provider
\* answers and one of them has a vector, those with a vector; else all of them,
\* by their words.
Recalled(answers) ==
  LET all     == {r \in Rows : Live(memories[r])}
      vectors == {r \in all : memories[r].vector # {}}
  IN IF answers /\ vectors # {} THEN vectors ELSE all

Next ==
  \E w \in Workers :
    \/ \E t \in Turns : Learn(w, t)
    \/ CommitTurn(w) \/ RollBack(w) \/ ReadPending(w) \/ WriteVectors(w)

Spec == Init /\ [][Next]_vars

-----------------------------------------------------------------------------
\* The versions of a memory are a chain, whatever follow-ups overlap: each names
\* what the one before it said, and the last one is the one live memory of its key.
VersionsChained ==
  \A r \in Rows :
    LET m     == memories[r]
        older == {s \in Rows : memories[s].key = m.key /\ memories[s].version + 1 = m.version}
        newer == {s \in Rows : memories[s].key = m.key /\ memories[s].version > m.version}
    IN /\ \A s \in Rows \ {r} : memories[s].key = m.key => memories[s].version # m.version
       /\ IF m.version = 1 THEN m.previous = "" ELSE
            \E s \in older : memories[s].content = m.previous
       /\ Live(m) <=> newer = {}

\* A memory counts each message once, however often its turn is delivered.
CountedOnce == \A r \in Rows : memories[r].recurrence = Cardinality(memories[r].refs)

\* What a committed turn taught is in the history of each of its memories, if
\* no other follow-up of the student ran next to it.
TurnRemembered ==
  \A t \in learned \ overlapped : \A d \in Merged(Taught[t]) :
    \E r \in Rows : memories[r].key = d.key /\ t \in memories[r].refs

\* A memory quotes a message it rests on, and its vector is of its content and of
\* words it quotes or has quoted: the row may be strengthened, and so quote another
\* message, while its first text is being embedded and ever after, but it never
\* loses the message its vector is of, unless two follow-ups ran next to each other.
VectorQuotes ==
  \A r \in Rows :
    LET m == memories[r]
    IN /\ m.evidence \subseteq m.refs
       /\ \A v \in m.vector : v[1] = m.content /\ v[2] \subseteq m.refs \cup overlapped

\* formation.py: a memory without a vector stays recallable by its words.  It
\* fails while others have vectors: see the README.
UnembeddedRecallable ==
  \A r \in Rows, answers \in BOOLEAN : Live(memories[r]) => r \in Recalled(answers)
=============================================================================
