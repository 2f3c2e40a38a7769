------------------------- MODULE CounselorTurnProofs -------------------------
(***************************************************************************)
(* For any number of turns, fields, issues and tool rounds: a reply is     *)
(* stored with the job that learns from its turn, it is what the student   *)
(* saw, and it does not ask for the field that its conversation had        *)
(* recorded as asked for last.                                             *)
(***************************************************************************)
EXTENDS CounselorTurn, SequenceTheorems, TLAPS

-----------------------------------------------------------------------------
(* The inductive invariant.                                                *)

\* A request that has found its conversation holds one that is stored.
Seated == \A t \in Turns : pc[t] \notin {"find", "create", "over"} =>
                           thread[t] \in 1..Len(asked)

\* Nothing is stored, and no job staged, before the commit of the reply.
Unsaved == \A t \in Turns : stored[t] # None => pc[t] \in {"close", "over"}

\* What was yielded was shown, and what will be saved is fit to be.
Spoken ==
  \A t \in Turns :
    /\ pc[t] = "said" /\ Streamed(t) => shown[t] = reply[t]
    /\ pc[t] = "save" =>
         /\ reply[t] # None
         /\ IF Streamed(t) THEN shown[t] # None => reply[t] = shown[t]
            ELSE reply[t] \in Prose \cup {Fallback}

Asks(t) == stored[t] = "asks" /\ plan[t].field # None

\* What a conversation remembers as asked is what the reply asked for which it was
\* written.
Remembered ==
  \A c \in 1..Len(asked) : latest[c] # None =>
    Asks(latest[c]) /\ asked[c] = plan[latest[c]].field

\* So it is in the row that a session holds, however old.
Kept ==
  \A t \in Turns : found[t].latest # None =>
    Asks(found[t].latest) /\ found[t].asked = plan[found[t].latest].field

\* A plan that was made after such a reply asks for another field, or about an issue.
Heard ==
  \A t \in Turns : plan[t].heard # None =>
    /\ Asks(plan[t].heard)
    /\ plan[t].field \in Fields => plan[t].field # plan[plan[t].heard].field

IInv ==
  /\ TypeOK /\ Seated /\ Unsaved /\ Spoken
  /\ Remembered /\ Kept /\ Heard
  /\ ReplyWithJob /\ StoredIsSeen

\* A step of a request that has its answer.
Yields(t) == (\E text : Yield(t, text)) /\ Goto(t, "said") /\ mode' = mode

-----------------------------------------------------------------------------
(* Types.                                                                  *)

USE DEF Goto, Step, student, local, rows

LEMMA InitType == Init => TypeOK
BY Limits, RequestModes DEF Init, TypeOK, Modes, Points, Plans, NoPlan, NoRow, Outputs

RowsHeld == [asked : Keys \cup {None}, latest : Turns \cup {None}]

\* A row that is read is one of a conversation.
LEMMA RowType ==
  ASSUME TypeOK, NEW c \in 1..Len(asked)
  PROVE  Row(c) \in RowsHeld
<1>1. asked[c] \in Keys \cup {None}
  BY ElementOfSeq DEF TypeOK
<1>2. latest[c] \in Turns \cup {None}
  BY ElementOfSeq DEF TypeOK
<1> QED
  BY <1>1, <1>2 DEF Row, RowsHeld

LEMMA HeldType ==
  ASSUME TypeOK, Seated, NEW t \in Turns, pc[t] \notin {"find", "create", "over"}
  PROVE  Held(t) \in RowsHeld
<1>1. Row(thread[t]) \in RowsHeld
  BY RowType DEF Seated
<1>2. found[t] \in RowsHeld
  BY DEF TypeOK, RowsHeld
<1> QED
  BY <1>1, <1>2 DEF Held

\* What a request leaves behind.
LEMMA LeaveType ==
  ASSUME TypeOK, NEW t \in Turns, Leave(t)
  PROVE  /\ pc' \in [Turns -> Points] /\ thread' \in [Turns -> 0..Len(asked)]
         /\ found' \in [Turns -> RowsHeld] /\ plan' \in [Turns -> Plans] /\ rounds' \in [Turns -> 0..MaxRounds]
         /\ reply' \in [Turns -> Outputs]
<1>1. NoPlan \in Plans /\ plan[t] \in Plans
  BY DEF TypeOK, NoPlan, Plans
<1>2. plan' \in [Turns -> Plans]
  BY <1>1 DEF Leave, TypeOK
<1>3. Len(asked) \in Nat
  BY LenProperties DEF TypeOK
<1>4. thread' \in [Turns -> 0..Len(asked)] /\ rounds' \in [Turns -> 0..MaxRounds]
  BY <1>3, Limits DEF Leave, TypeOK
<1>5. found' \in [Turns -> RowsHeld]
  BY DEF Leave, TypeOK, NoRow, RowsHeld
<1> QED
  BY <1>2, <1>4, <1>5 DEF Leave, TypeOK, Points, Outputs

LEMMA StartType == ASSUME TypeOK, NEW t \in Turns, Start(t) PROVE TypeOK'
<1>0. /\ Len(asked) \in Nat /\ Len(latest) \in Nat
      /\ DOMAIN asked = 1..Len(asked)
  BY LenProperties DEF TypeOK
<1>1. CASE FindThread(t)
  <2>1. thread' \in [Turns -> 0..Len(asked)]
    <3>1. thread' = thread \/ \E c \in 1..Len(asked) : thread' = [thread EXCEPT ![t] = c]
      BY <1>0, <1>1 DEF FindThread
    <3>2. thread \in [Turns -> 0..Len(asked)] /\ \A c \in 1..Len(asked) : c \in 0..Len(asked)
      BY <1>0 DEF TypeOK
    <3> QED
      BY <3>1, <3>2
  <2>2. found' \in [Turns -> RowsHeld]
    <3>1. found' = found \/ \E c \in 1..Len(asked) :
            found' = [found EXCEPT ![t] = IF Streamed(t) THEN NoRow ELSE Row(c)]
      BY <1>0, <1>1 DEF FindThread
    <3>2. NoRow \in RowsHeld /\ \A c \in 1..Len(asked) : Row(c) \in RowsHeld
      BY RowType DEF NoRow, RowsHeld
    <3>3. found \in [Turns -> RowsHeld]
      BY DEF TypeOK, RowsHeld
    <3> QED
      BY <3>1, <3>2, <3>3
  <2> QED
    BY <1>1, <2>1, <2>2 DEF TypeOK, FindThread, Points, RowsHeld
<1>2. CASE CreateThread(t)
  <2>1. /\ asked' \in Seq(Keys \cup {None}) /\ Len(asked') = Len(asked) + 1
        /\ latest' \in Seq(Turns \cup {None}) /\ Len(latest') = Len(latest) + 1
    BY <1>2, AppendProperties DEF TypeOK, CreateThread
  <2>2. thread' \in [Turns -> 0..Len(asked')]
    BY <1>0, <1>2, <2>1 DEF TypeOK, CreateThread
  <2> QED
    BY <1>2, <2>1, <2>2 DEF TypeOK, CreateThread, Points
<1>3. CASE CountMessages(t)
  BY <1>3 DEF TypeOK, CountMessages, Points
<1>4. CASE Greet(t)
  BY <1>4 DEF TypeOK, Greet, Points
<1>5. CASE Begin(t)
  BY <1>5 DEF TypeOK, Begin, Points
<1> QED
  BY <1>1, <1>2, <1>3, <1>4, <1>5 DEF Start

LEMMA YieldType ==
  ASSUME TypeOK, NEW t \in Turns, NEW text \in Outputs, Yield(t, text)
  PROVE  reply' \in [Turns -> Outputs] /\ shown' \in [Turns -> Outputs]
BY DEF Yield, TypeOK

LEMMA TextsFit ==
  \A text \in Texts : Public(text) \in Outputs /\ Released(text) \in Outputs
BY DEF Texts, Prose, Public, Released, Outputs

LEMMA AnswerType == ASSUME TypeOK, Seated, NEW t \in Turns, Answer(t) PROVE TypeOK'
<1>1. CASE Understand(t)
  <2>1. PICK issues \in SUBSET Issues, tasks \in BOOLEAN, web \in BOOLEAN :
          \E field \in Candidates(Context(t, issues)) \cup {None} :
            /\ plan' = [plan EXCEPT ![t] = [field |-> field, tasks |-> tasks,
                                            heard |-> Context(t, issues).heard]]
            /\ Goto(t, IF web THEN "decide" ELSE "stream")
    BY <1>1 DEF Understand
  <2>5. PICK field \in Candidates(Context(t, issues)) \cup {None} :
          /\ plan' = [plan EXCEPT ![t] = [field |-> field, tasks |-> tasks,
                                          heard |-> Context(t, issues).heard]]
          /\ Goto(t, IF web THEN "decide" ELSE "stream")
    BY <2>1
  <2>2. field \in Keys \cup {None}
    BY DEF Candidates, Context, Missing, Keys
  <2>3. Context(t, issues).heard \in Turns \cup {None}
    BY <1>1, HeldType DEF Understand, Context, RowsHeld
  <2>4. plan' \in [Turns -> Plans]
    BY <2>5, <2>2, <2>3 DEF TypeOK, Plans
  <2> QED
    BY <1>1, <2>5, <2>4 DEF TypeOK, Understand, Points
<1>2. CASE Decide(t)
  <2>1. rounds' \in [Turns -> 0..MaxRounds]
    <3>1. \A n \in 0..MaxRounds : (n + 1) % MaxRounds \in 0..MaxRounds
      BY Limits
    <3>2. 0 \in 0..MaxRounds
      BY Limits
    <3>3. \/ rounds' = [rounds EXCEPT ![t] = (@ + 1) % MaxRounds]
          \/ rounds' = [rounds EXCEPT ![t] = 0]
      BY <1>2 DEF Decide
    <3>4. (rounds[t] + 1) % MaxRounds \in 0..MaxRounds
      BY <3>1 DEF TypeOK
    <3>5. rounds \in [Turns -> 0..MaxRounds]
      BY DEF TypeOK
    <3> QED
      BY <3>2, <3>3, <3>4, <3>5
  <2>2. pc' \in [Turns -> Points]
    BY <1>2 DEF TypeOK, Decide, Points
  <2>3. reply' \in [Turns -> Outputs] /\ shown' \in [Turns -> Outputs]
    BY <1>2, YieldType, TextsFit DEF TypeOK, Decide
  <2> QED
    BY <1>2, <2>1, <2>2, <2>3 DEF TypeOK, Decide
<1>3. CASE Stream(t)
  <2>1. reply' \in [Turns -> Outputs] /\ shown' \in [Turns -> Outputs]
    BY <1>3, YieldType, TextsFit DEF TypeOK, Stream
  <2> QED
    BY <1>3, <2>1 DEF TypeOK, Stream, Points
<1>4. CASE Again(t)
  <2>1. reply' \in [Turns -> Outputs] /\ shown' \in [Turns -> Outputs]
    BY <1>4, YieldType, TextsFit DEF TypeOK, Again, Outputs
  <2> QED
    BY <1>4, <2>1 DEF TypeOK, Again, Points
<1>5. CASE Said(t)
  <2>1. ReplyOf(t) \in Outputs
    BY TextsFit DEF ReplyOf, Outputs, TypeOK
  <2>2. plan' \in [Turns -> Plans]
    <3>1. PICK tasks \in BOOLEAN : plan' = [plan EXCEPT ![t].tasks = tasks]
      BY <1>5 DEF Said, TypeOK, Plans
    <3>2. plan[t] \in Plans
      BY DEF TypeOK
    <3>3. [plan[t] EXCEPT !.tasks = tasks] \in Plans
      BY <3>2 DEF Plans
    <3> QED
      BY <3>1, <3>3 DEF TypeOK
  <2>3. found' \in [Turns -> RowsHeld]
    BY <1>5, HeldType DEF TypeOK, Said, RowsHeld
  <2> QED
    BY <1>5, <2>1, <2>2, <2>3 DEF TypeOK, Said, Points, RowsHeld
<1>6. CASE Refuse(t)
  BY <1>6, LeaveType DEF TypeOK, Refuse, Marked, RowsHeld
<1>7. CASE ProviderFails(t)
  <2>1. shown' \in [Turns -> Outputs]
    BY <1>7, TextsFit DEF TypeOK, ProviderFails, Outputs
  <2> QED
    BY <1>7, <2>1, LeaveType DEF TypeOK, ProviderFails, Marked, RowsHeld
<1> QED
  BY <1>1, <1>2, <1>3, <1>4, <1>5, <1>6, <1>7 DEF Answer

LEMMA EndType == ASSUME TypeOK, Seated, NEW t \in Turns, End(t) PROVE TypeOK'
<1>1. CASE Save(t)
  <2>1. /\ asked' \in Seq(Keys \cup {None}) /\ Len(asked') = Len(asked)
        /\ latest' \in Seq(Turns \cup {None}) /\ Len(latest') = Len(latest)
    <3> DEFINE F == Keys \cup {None}  T == Turns \cup {None}
    <3>1. thread[t] \in 1..Len(asked) /\ thread[t] \in 1..Len(latest)
      BY <1>1 DEF Seated, Save, TypeOK
    <3>2. plan[t].field \in Keys \cup {None}
      BY DEF TypeOK, Plans
    <3>3. asked \in Seq(F) /\ latest \in Seq(T) /\ plan[t].field \in F /\ t \in T
      BY <3>2 DEF TypeOK
    <3> HIDE DEF F, T
    <3>4. /\ [asked EXCEPT ![thread[t]] = plan[t].field] \in Seq(F)
          /\ Len([asked EXCEPT ![thread[t]] = plan[t].field]) = Len(asked)
      BY <3>1, <3>3, ExceptSeq
    <3>5. /\ [latest EXCEPT ![thread[t]] = t] \in Seq(T)
          /\ Len([latest EXCEPT ![thread[t]] = t]) = Len(latest)
      BY <3>1, <3>3, ExceptSeq
    <3> QED
      BY <1>1, <3>3, <3>4, <3>5 DEF Save, Remember, F, T
  <2> QED
    BY <1>1, <2>1 DEF TypeOK, Save, Points
<1>2. CASE Close(t)
  BY <1>2, LeaveType DEF TypeOK, Close, RowsHeld
<1>3. CASE LateFailure(t)
  BY <1>3, LeaveType DEF TypeOK, LateFailure, Marked, RowsHeld
<1> QED
  BY <1>1, <1>2, <1>3 DEF End

LEMMA StepType == ASSUME TypeOK, Seated, [Next]_vars PROVE TypeOK'
<1>1. CASE UNCHANGED vars
  BY <1>1 DEF TypeOK, vars
<1>2. ASSUME NEW t \in Turns, Request(t) PROVE TypeOK'
  BY <1>2, StartType, AnswerType, EndType DEF Request
<1>3. ASSUME NEW t \in Turns, Work(t) PROVE TypeOK'
  BY <1>3 DEF TypeOK, Work
<1>4. ASSUME NEW t \in Turns, Cancel(t) PROVE TypeOK'
  BY <1>4, LeaveType DEF TypeOK, Cancel, Marked, RowsHeld
<1>5. ASSUME NEW t \in Turns, Die(t) PROVE TypeOK'
  BY <1>5, LeaveType DEF TypeOK, Die, RowsHeld
<1> QED
  BY <1>1, <1>2, <1>3, <1>4, <1>5 DEF Next

-----------------------------------------------------------------------------
(* The question that is asked.                                             *)

LEMMA StepSeated == ASSUME IInv, [Next]_vars PROVE Seated'
<1>0. TypeOK /\ Seated /\ Len(asked) \in Nat /\ DOMAIN asked = 1..Len(asked)
  BY LenProperties DEF IInv, TypeOK
<1>1. CASE UNCHANGED vars
  BY <1>0, <1>1 DEF Seated, vars
<1>2. ASSUME NEW t \in Turns, Start(t) PROVE Seated'
  <2>1. CASE FindThread(t)
    BY <1>0, <2>1 DEF Seated, FindThread, TypeOK
  <2>2. CASE CreateThread(t)
    <3>1. Len(asked') = Len(asked) + 1
      BY <2>2, AppendProperties DEF TypeOK, CreateThread, IInv
    <3> QED
      BY <1>0, <2>2, <3>1 DEF Seated, CreateThread, TypeOK
  <2>3. CASE CountMessages(t) \/ Greet(t) \/ Begin(t)
    BY <1>0, <2>3 DEF Seated, CountMessages, Greet, Begin, TypeOK
  <2> QED
    BY <1>2, <2>1, <2>2, <2>3 DEF Start
<1>3. ASSUME NEW t \in Turns, Leave(t), asked' = asked PROVE Seated'
  BY <1>0, <1>3 DEF Seated, Leave, TypeOK
<1>4. ASSUME NEW t \in Turns, pc[t] \notin {"find", "create", "over"},
             \E point \in Points : Goto(t, point), asked' = asked, thread' = thread
      PROVE  Seated'
  BY <1>0, <1>4 DEF Seated, TypeOK
<1>5. ASSUME NEW t \in Turns, Save(t) PROVE Seated'
  <2>1. Len(asked') = Len(asked)
    <3> DEFINE writes == Asking(t) /\ plan[t].field # found[t].asked
    <3>1. CASE writes
      <4> DEFINE F == Keys \cup {None}
      <4>1. asked \in Seq(F) /\ plan[t].field \in F /\ thread[t] \in 1..Len(asked)
        BY <1>0, <1>5 DEF TypeOK, Plans, Seated, Save
      <4> HIDE DEF F
      <4>2. asked' = [asked EXCEPT ![thread[t]] = plan[t].field]
        BY <1>5, <3>1 DEF Save, Remember
      <4> QED
        BY <4>1, <4>2, ExceptSeq
    <3>2. CASE ~writes
      BY <1>5, <3>2 DEF Save, Remember
    <3> QED
      BY <3>1, <3>2
  <2> QED
    BY <1>0, <1>5, <2>1 DEF Seated, Save, TypeOK
<1>6. ASSUME NEW t \in Turns, Work(t) PROVE Seated'
  BY <1>0, <1>6 DEF Seated, Work
<1>7. ASSUME NEW t \in Turns,
             Understand(t) \/ Decide(t) \/ Stream(t) \/ Again(t) \/ Said(t)
      PROVE  Seated'
  <2>1. \E point \in Points : Goto(t, point)
    BY <1>7 DEF Understand, Decide, Stream, Again, Said, Points
  <2> QED
    BY <1>4, <1>7, <2>1 DEF Understand, Decide, Stream, Again, Said
<1> QED
  BY <1>1, <1>2, <1>3, <1>5, <1>6, <1>7
  DEF Next, Request, Answer, End, Refuse, ProviderFails, Close, LateFailure, Cancel, Die

LEMMA StepUnsaved == ASSUME IInv, [Next]_vars PROVE Unsaved'
<1>0. TypeOK /\ Unsaved
  BY DEF IInv
<1>1. CASE UNCHANGED vars
  BY <1>0, <1>1 DEF Unsaved, vars
<1>2. ASSUME NEW t \in Turns, Start(t) PROVE Unsaved'
  BY <1>0, <1>2 DEF Unsaved, Start, FindThread, CreateThread, CountMessages, Greet, Begin, TypeOK
<1>3. ASSUME NEW t \in Turns, Answer(t) PROVE Unsaved'
  BY <1>0, <1>3 DEF Unsaved, Answer, Understand, Decide, Stream, Again, Said, Refuse,
                    ProviderFails, Leave, TypeOK
<1>4. ASSUME NEW t \in Turns, End(t) \/ Work(t) \/ Cancel(t) \/ Die(t) PROVE Unsaved'
  BY <1>0, <1>4 DEF Unsaved, End, Save, Close, LateFailure, Work, Cancel, Die, Leave, TypeOK
<1> QED
  BY <1>1, <1>2, <1>3, <1>4 DEF Next, Request

\* Of a reply that asks, what it asked is never changed.
LEMMA AskedStays ==
  ASSUME IInv, [Next]_vars, NEW o \in Turns, Asks(o)
  PROVE  Asks(o)' /\ plan'[o].field = plan[o].field
<1>0. TypeOK /\ Unsaved /\ stored[o] = "asks" /\ pc[o] \in {"close", "over"}
  BY DEF IInv, Unsaved, Asks, None
<1>1. CASE UNCHANGED vars
  BY <1>0, <1>1 DEF Asks, vars
<1>2. ASSUME NEW t \in Turns, Start(t) PROVE plan' = plan /\ stored' = stored
  BY <1>2 DEF Start, FindThread, CreateThread, CountMessages, Greet, Begin
<1>3. ASSUME NEW t \in Turns, Leave(t) PROVE plan'[o] = plan[o]
  BY <1>0, <1>3 DEF Leave, TypeOK
<1>4. ASSUME NEW t \in Turns, Understand(t) \/ Said(t)
      PROVE  plan'[o] = plan[o] /\ stored' = stored
  BY <1>0, <1>4 DEF Understand, Said, TypeOK
<1>5. ASSUME NEW t \in Turns, Decide(t) \/ Stream(t) \/ Again(t) \/ Work(t)
      PROVE  plan' = plan /\ stored' = stored
  BY <1>5 DEF Decide, Stream, Again, Work
<1>6. ASSUME NEW t \in Turns, Save(t) PROVE plan' = plan /\ stored'[o] = stored[o]
  BY <1>0, <1>6 DEF Save, TypeOK
<1>7. ASSUME NEW t \in Turns,
             Refuse(t) \/ ProviderFails(t) \/ Close(t) \/ LateFailure(t) \/ Cancel(t) \/ Die(t)
      PROVE  plan'[o] = plan[o] /\ stored' = stored
  BY <1>3, <1>7 DEF Refuse, ProviderFails, Close, LateFailure, Cancel, Die
<1>8. plan'[o] = plan[o] /\ stored'[o] = stored[o]
  BY <1>1, <1>2, <1>4, <1>5, <1>6, <1>7 DEF vars, Next, Request, Answer, End
<1> QED
  BY <1>8 DEF Asks

LEMMA StepRemembered == ASSUME IInv, [Next]_vars PROVE Remembered'
<1>0. /\ TypeOK /\ Seated /\ Remembered /\ Len(asked) \in Nat
      /\ asked \in Seq(Keys \cup {None}) /\ latest \in Seq(Turns \cup {None})
      /\ Len(asked) = Len(latest)
  BY LenProperties DEF IInv, TypeOK
<1> DEFINE F == Keys \cup {None}  T == Turns \cup {None}
<1>1. CASE asked' = asked /\ latest' = latest
  <2> SUFFICES ASSUME NEW c \in 1..Len(asked), latest[c] # None
               PROVE  Asks(latest[c])' /\ asked[c] = plan'[latest[c]].field
    BY <1>1 DEF Remembered
  <2>1. latest[c] \in Turns
    BY <1>0, ElementOfSeq
  <2> QED
    BY <1>0, <1>1, <2>1, AskedStays DEF Remembered, Asks
<1>2. ASSUME NEW t \in Turns, CreateThread(t) PROVE Remembered'
  <2> HIDE DEF F, T
  <2>1. asked \in Seq(F) /\ latest \in Seq(T) /\ None \in F /\ None \in T
    BY <1>0 DEF F, T
  <2>2. /\ Len(asked') = Len(asked) + 1 /\ asked'[Len(asked) + 1] = None
        /\ \A c \in 1..Len(asked) : asked'[c] = asked[c]
    BY <1>2, <2>1, AppendProperties DEF CreateThread
  <2>3. /\ latest'[Len(asked) + 1] = None
        /\ \A c \in 1..Len(asked) : latest'[c] = latest[c]
    BY <1>0, <1>2, <2>1, AppendProperties DEF CreateThread
  <2> QED
    BY <1>0, <1>2, <2>2, <2>3 DEF Remembered, CreateThread, Asks
<1>3. ASSUME NEW t \in Turns, Save(t), Asking(t), plan[t].field # found[t].asked
      PROVE  Remembered'
  <2> DEFINE h == thread[t]
  <2>1. /\ h \in 1..Len(asked) /\ plan[t].field \in F /\ t \in T
        /\ asked \in Seq(F) /\ latest \in Seq(T)
    BY <1>0, <1>3 DEF Seated, Save, TypeOK, Plans
  <2> HIDE DEF F, T
  <2>2. /\ asked' = [asked EXCEPT ![h] = plan[t].field]
        /\ latest' = [latest EXCEPT ![h] = t]
    BY <1>3 DEF Save, Remember
  <2>3. /\ Len(asked') = Len(asked)
        /\ \A c \in 1..Len(asked) : asked'[c] = IF c = h THEN plan[t].field ELSE asked[c]
    BY <2>1, <2>2, ExceptSeq
  <2>4. \A c \in 1..Len(asked) : latest'[c] = IF c = h THEN t ELSE latest[c]
    BY <1>0, <2>1, <2>2, ExceptSeq
  <2>5. Asks(t)' /\ plan' = plan
    BY <1>0, <1>3 DEF Save, Asking, Asks, TypeOK
  <2> SUFFICES ASSUME NEW c \in 1..Len(asked), latest'[c] # None
               PROVE  Asks(latest[c])' /\ asked'[c] = plan'[latest'[c]].field
    BY <2>3 DEF Remembered
  <2>6. CASE c = h
    BY <2>3, <2>4, <2>5, <2>6 DEF Asks
  <2>7. CASE c # h
    <3>1. latest'[c] = latest[c] /\ asked'[c] = asked[c]
      BY <2>3, <2>4, <2>7
    <3>2. latest[c] \in Turns
      BY <1>0, <3>1, ElementOfSeq
    <3> QED
      BY <1>0, <3>1, <3>2, AskedStays DEF Remembered, Asks
  <2> QED
    BY <2>6, <2>7
<1>4. ASSUME NEW t \in Turns, Save(t), ~(Asking(t) /\ plan[t].field # found[t].asked)
      PROVE  asked' = asked /\ latest' = latest
  BY <1>4 DEF Save, Remember
<1>5. ASSUME NEW t \in Turns, Request(t), ~CreateThread(t), ~Save(t)
      PROVE  asked' = asked /\ latest' = latest
  BY <1>5 DEF Request, Start, FindThread, CountMessages, Greet, Begin, Answer, Understand,
              Decide, Stream, Again, Said, Refuse, ProviderFails, End, Close, LateFailure
<1>6. ASSUME NEW t \in Turns, Work(t) \/ Cancel(t) \/ Die(t)
      PROVE  asked' = asked /\ latest' = latest
  BY <1>6 DEF Work, Cancel, Die
<1> QED
  BY <1>1, <1>2, <1>3, <1>4, <1>5, <1>6 DEF Next, vars

\* The row that a session holds is read in a step of its request.
LEMMA StepKept == ASSUME IInv, [Next]_vars PROVE Kept'
<1>0. /\ TypeOK /\ Seated /\ Remembered /\ Kept
      /\ found \in [Turns -> RowsHeld] /\ DOMAIN asked = 1..Len(asked)
  BY LenProperties DEF IInv, TypeOK, RowsHeld
<1> SUFFICES ASSUME NEW t \in Turns, found'[t].latest # None
             PROVE  /\ Asks(found[t].latest)'
                    /\ found'[t].asked = plan'[found'[t].latest].field
  BY DEF Kept
<1> DEFINE Read(row) == row.latest # None =>
             /\ row.latest \in Turns /\ Asks(row.latest)
             /\ row.asked = plan[row.latest].field
<1>1. Read(found[t])
  BY <1>0 DEF Kept, RowsHeld
<1>2. \A c \in 1..Len(asked) : Read(Row(c))
  BY <1>0, ElementOfSeq DEF Row, Remembered, TypeOK
<1>3. ~Read(NoRow) => FALSE
  BY DEF NoRow
<1>4. ASSUME NEW row, found'[t] = row, Read(row)
      PROVE  /\ Asks(found[t].latest)'
             /\ found'[t].asked = plan'[found'[t].latest].field
  <2>1. row.latest \in Turns /\ Asks(row.latest) /\ row.asked = plan[row.latest].field
    BY <1>4
  <2>2. stored'[row.latest] = "asks" /\ plan'[row.latest].field = plan[row.latest].field
    BY <2>1, AskedStays DEF Asks
  <2> QED
    BY <1>4, <2>1, <2>2 DEF Asks
<1> HIDE DEF Read
<1>5. CASE found'[t] = found[t]
  BY <1>1, <1>4, <1>5
<1>6. CASE found'[t] = NoRow
  BY <1>3, <1>4, <1>6
<1>7. ASSUME NEW c \in 1..Len(asked), found'[t] = Row(c)
      PROVE  /\ Asks(found[t].latest)'
             /\ found'[t].asked = plan'[found'[t].latest].field
  BY <1>2, <1>4, <1>7
<1>8. \/ found'[t] = found[t] \/ found'[t] = NoRow
      \/ \E c \in 1..Len(asked) : found'[t] = Row(c)
  <2>1. CASE UNCHANGED vars
    BY <2>1 DEF vars
  <2>2. ASSUME NEW u \in Turns, FindThread(u)
        PROVE  \/ found'[t] = found[t] \/ found'[t] = NoRow
               \/ \E c \in 1..Len(asked) : found'[t] = Row(c)
    BY <1>0, <2>2 DEF FindThread
  <2>3. ASSUME NEW u \in Turns, Said(u)
        PROVE  \/ found'[t] = found[t] \/ \E c \in 1..Len(asked) : found'[t] = Row(c)
    <3>1. thread[u] \in 1..Len(asked)
      BY <1>0, <2>3 DEF Seated, Said
    <3> QED
      BY <1>0, <2>3, <3>1 DEF Said, Held
  <2>4. ASSUME NEW u \in Turns, Leave(u) PROVE found'[t] = found[t] \/ found'[t] = NoRow
    BY <1>0, <2>4 DEF Leave
  <2>5. ASSUME NEW u \in Turns,
               \/ CreateThread(u) \/ CountMessages(u) \/ Greet(u) \/ Begin(u) \/ Understand(u)
               \/ Decide(u) \/ Stream(u) \/ Again(u) \/ Save(u) \/ Work(u)
        PROVE  found' = found
    BY <2>5 DEF CreateThread, CountMessages, Greet, Begin, Understand, Decide, Stream, Again,
                Save, Work
  <2> QED
    BY <2>1, <2>2, <2>3, <2>4, <2>5
    DEF Next, Request, Start, Answer, End, Refuse, ProviderFails, Close, LateFailure, Cancel, Die
<1> QED
  BY <1>5, <1>6, <1>7, <1>8

LEMMA StepHeard == ASSUME IInv, [Next]_vars PROVE Heard'
<1>0. TypeOK /\ Heard /\ Remembered /\ Kept /\ Seated /\ Len(asked) = Len(latest)
  BY DEF IInv, TypeOK
<1> SUFFICES ASSUME NEW t \in Turns, plan'[t].heard # None
             PROVE  /\ Asks(plan[t].heard)'
                    /\ plan'[t].field \in Fields =>
                         plan'[t].field # plan'[plan'[t].heard].field
  BY DEF Heard
<1>1. CASE plan'[t].heard = plan[t].heard /\ plan'[t].field = plan[t].field
  <2>1. plan[t].heard \in Turns /\ Asks(plan[t].heard)
    BY <1>0, <1>1 DEF TypeOK, Plans, Heard
  <2>2. /\ Asks(plan[t].heard) => stored'[plan[t].heard] = "asks"
        /\ plan'[plan[t].heard].field = plan[plan[t].heard].field
        /\ plan'[plan[t].heard].field # None
    BY <2>1, AskedStays DEF Asks
  <2> QED
    BY <1>0, <1>1, <2>1, <2>2 DEF Heard, Asks
<1>2. CASE Understand(t)
  <2> DEFINE o == Held(t).latest
  <2>1. PICK issues \in SUBSET Issues :
          /\ plan'[t].heard = o
          /\ plan'[t].field \in Candidates(Context(t, issues)) \cup {None}
    <3>1. PICK issues \in SUBSET Issues, tasks \in BOOLEAN, web \in BOOLEAN :
            \E field \in Candidates(Context(t, issues)) \cup {None} :
              plan' = [plan EXCEPT ![t] = [field |-> field, tasks |-> tasks,
                                           heard |-> Context(t, issues).heard]]
      BY <1>2 DEF Understand
    <3>2. PICK field \in Candidates(Context(t, issues)) \cup {None} :
            plan' = [plan EXCEPT ![t] = [field |-> field, tasks |-> tasks,
                                         heard |-> Context(t, issues).heard]]
      BY <3>1
    <3>3. Context(t, issues).heard = o
      BY DEF Context
    <3> HIDE DEF o
    <3> QED
      BY <1>0, <3>2, <3>3 DEF TypeOK
  <2>2. o \in Turns /\ Asks(o) /\ Held(t).asked = plan[o].field
    <3>1. CASE Streamed(t)
      <4>1. thread[t] \in 1..Len(asked)
        BY <1>0, <1>2 DEF Seated, Understand
      <4>2. o = latest[thread[t]] /\ Held(t).asked = asked[thread[t]]
        BY <3>1 DEF Held, Row
      <4> QED
        BY <1>0, <2>1, <4>1, <4>2, ElementOfSeq DEF Remembered, TypeOK
    <3>2. CASE ~Streamed(t)
      <4>1. Held(t) = found[t]
        BY <3>2 DEF Held
      <4> QED
        BY <1>0, <2>1, <4>1 DEF Kept, TypeOK
    <3> QED
      BY <3>1, <3>2
  <2>3. plan'[t].field \in Fields => plan'[t].field # Held(t).asked
    BY <2>1, <2>2, IssuesApart DEF Candidates, Context, Asks
  <2>4. stored'[o] = "asks" /\ plan'[o].field # None /\ plan'[o].field = plan[o].field
    BY <2>2, AskedStays DEF Asks
  <2> QED
    BY <2>1, <2>2, <2>3, <2>4 DEF Asks
<1>3. (plan'[t].heard = plan[t].heard /\ plan'[t].field = plan[t].field) \/ Understand(t)
  <2>1. CASE UNCHANGED vars
    BY <2>1 DEF vars
  <2>2. ASSUME NEW u \in Turns, Start(u) \/ Decide(u) \/ Stream(u) \/ Again(u) \/ Work(u) \/ Save(u)
        PROVE  plan' = plan
    BY <2>2 DEF Start, FindThread, CreateThread, CountMessages, Greet, Begin, Decide, Stream,
                Again, Work, Save
  <2>3. ASSUME NEW u \in Turns, Understand(u), u # t PROVE plan'[t] = plan[t]
    BY <1>0, <2>3 DEF Understand, TypeOK
  <2>4. ASSUME NEW u \in Turns, Said(u)
        PROVE  plan'[t].heard = plan[t].heard /\ plan'[t].field = plan[t].field
    <3>1. PICK tasks \in BOOLEAN : plan' = [plan EXCEPT ![u].tasks = tasks]
      BY <1>0, <2>4 DEF Said, TypeOK, Plans
    <3> QED
      BY <1>0, <3>1 DEF TypeOK, Plans
  <2>5. ASSUME NEW u \in Turns, Leave(u) PROVE plan'[t] = plan[t]
    <3>1. plan'[t] # NoPlan
      BY DEF NoPlan
    <3> QED
      BY <1>0, <2>5, <3>1 DEF Leave, TypeOK
  <2>6. ASSUME NEW u \in Turns,
               Refuse(u) \/ ProviderFails(u) \/ Close(u) \/ LateFailure(u) \/ Cancel(u) \/ Die(u)
        PROVE  plan'[t] = plan[t]
    BY <2>5, <2>6 DEF Refuse, ProviderFails, Close, LateFailure, Cancel, Die
  <2> QED
    BY <2>1, <2>2, <2>3, <2>4, <2>6 DEF Next, Request, Answer, End
<1> QED
  BY <1>1, <1>2, <1>3

-----------------------------------------------------------------------------
(* The reply that is stored.                                               *)

LEMMA StepSpoken == ASSUME IInv, [Next]_vars PROVE Spoken'
<1>0. TypeOK /\ Spoken
  BY DEF IInv
<1>1. CASE UNCHANGED vars
  BY <1>0, <1>1 DEF Spoken, Streamed, vars
<1>2. ASSUME NEW t \in Turns, Start(t) PROVE Spoken'
  <2>1. /\ mode' = mode /\ shown' = shown /\ reply' = reply
        /\ \E point \in Points \ {"said", "save"} : Goto(t, point)
    BY <1>2 DEF Start, FindThread, CreateThread, CountMessages, Greet, Begin, Points
  <2> QED
    BY <1>0, <2>1 DEF Spoken, Streamed, TypeOK
<1>3. ASSUME NEW t \in Turns, Yields(t) PROVE Spoken'
  <2>1. PICK text : Yield(t, text)
    BY <1>3 DEF Yields
  <2> QED
    BY <1>0, <1>3, <2>1 DEF Yields, Yield, Spoken, Streamed, TypeOK
<1>4. ASSUME NEW t \in Turns, Decide(t) \/ Stream(t) \/ Again(t) \/ Understand(t)
      PROVE  Spoken'
  <2>1. CASE Yields(t)
    BY <1>3, <2>1
  <2>2. CASE ~Yields(t)
    <3>1. /\ reply' = reply /\ shown' = shown /\ mode' = mode
          /\ \E point \in Points \ {"said", "save"} : Goto(t, point)
      BY <1>4, <2>2 DEF Decide, Stream, Again, Understand, Yields, Points
    <3> QED
      BY <1>0, <3>1 DEF Spoken, Streamed, TypeOK
  <2> QED
    BY <2>1, <2>2
<1>5. ASSUME NEW t \in Turns, Said(t) PROVE Spoken'
  <2>1. ReplyOf(t) # None
    BY DEF ReplyOf, Fallback, None
  <2>2. Streamed(t) /\ shown[t] # None => ReplyOf(t) = shown[t]
    BY <1>0, <1>5 DEF Spoken, ReplyOf, Said
  <2>3. ~Streamed(t) => ReplyOf(t) \in Prose \cup {Fallback}
    BY DEF ReplyOf, Public, Prose
  <2>4. reply' = [reply EXCEPT ![t] = ReplyOf(t)] /\ pc' = [pc EXCEPT ![t] = "save"]
        /\ shown' = shown /\ mode' = mode
    BY <1>5 DEF Said
  <2> QED
    BY <1>0, <2>1, <2>2, <2>3, <2>4 DEF Spoken, Streamed, TypeOK
<1>6. ASSUME NEW t \in Turns, Leave(t), mode' = mode, \A u \in Turns \ {t} : shown'[u] = shown[u]
      PROVE  Spoken'
  BY <1>0, <1>6 DEF Spoken, Streamed, Leave, TypeOK
<1>7. ASSUME NEW t \in Turns, Save(t) PROVE Spoken'
  BY <1>0, <1>7 DEF Spoken, Streamed, Save, TypeOK
<1>8. ASSUME NEW t \in Turns, Work(t) PROVE Spoken'
  BY <1>0, <1>8 DEF Spoken, Streamed, Work
<1>9. ASSUME NEW t \in Turns,
             Refuse(t) \/ ProviderFails(t) \/ Close(t) \/ LateFailure(t) \/ Cancel(t) \/ Die(t)
      PROVE  Spoken'
  <2>1. /\ Leave(t) /\ mode' = mode
        /\ \A u \in Turns \ {t} : shown'[u] = shown[u]
    BY <1>0, <1>9 DEF Refuse, ProviderFails, Close, LateFailure, Cancel, Die, TypeOK
  <2> QED
    BY <1>6, <2>1
<1> QED
  BY <1>1, <1>2, <1>4, <1>5, <1>7, <1>8, <1>9 DEF Next, Request, Answer, End

LEMMA StepReplyWithJob == ASSUME IInv, [Next]_vars PROVE ReplyWithJob'
<1>0. TypeOK /\ ReplyWithJob /\ Unsaved /\ Spoken
  BY DEF IInv
<1>1. CASE UNCHANGED vars
  BY <1>0, <1>1 DEF ReplyWithJob, vars
<1>2. ASSUME NEW t \in Turns, Start(t) \/ Answer(t) \/ Close(t) \/ LateFailure(t) \/ Cancel(t) \/ Die(t)
      PROVE  ReplyWithJob'
  <2>1. stored' = stored /\ job' = job /\ mode' = mode
    BY <1>2 DEF Start, FindThread, CreateThread, CountMessages, Greet, Begin, Answer, Understand,
                Decide, Stream, Again, Said, Refuse, ProviderFails, Close, LateFailure, Cancel, Die
  <2> QED
    BY <1>0, <2>1 DEF ReplyWithJob
<1>3. ASSUME NEW t \in Turns, Save(t) PROVE ReplyWithJob'
  BY <1>0, <1>3 DEF ReplyWithJob, Save, Learns, Spoken, TypeOK, None
<1>4. ASSUME NEW t \in Turns, Work(t) PROVE ReplyWithJob'
  BY <1>0, <1>4 DEF ReplyWithJob, Work, TypeOK, None
<1> QED
  BY <1>1, <1>2, <1>3, <1>4 DEF Next, Request, End

LEMMA StepStoredIsSeen == ASSUME IInv, [Next]_vars PROVE StoredIsSeen'
<1>0. TypeOK /\ StoredIsSeen /\ Unsaved /\ Spoken
  BY DEF IInv
<1>1. CASE UNCHANGED vars
  BY <1>0, <1>1 DEF StoredIsSeen, Streamed, vars
<1>2. ASSUME NEW t \in Turns, Start(t) \/ Work(t) \/ Said(t) \/ Understand(t) \/ Refuse(t)
                              \/ LateFailure(t) \/ Cancel(t) \/ Die(t)
      PROVE  StoredIsSeen'
  <2>1. stored' = stored /\ shown' = shown /\ mode' = mode
    BY <1>2 DEF Start, FindThread, CreateThread, CountMessages, Greet, Begin, Work, Understand,
                Said, Refuse, LateFailure, Cancel, Die
  <2> QED
    BY <1>0, <2>1 DEF StoredIsSeen, Streamed
<1>3. ASSUME NEW t \in Turns, Decide(t) \/ Stream(t) \/ Again(t) \/ ProviderFails(t)
      PROVE  StoredIsSeen'
  <2>1. stored' = stored /\ mode' = mode /\ stored[t] = None
    BY <1>0, <1>3 DEF Decide, Stream, Again, ProviderFails, Unsaved
  <2>2. \A u \in Turns \ {t} : shown'[u] = shown[u]
    BY <1>0, <1>3 DEF Decide, Stream, Again, ProviderFails, Yield, TypeOK
  <2> QED
    BY <1>0, <2>1, <2>2 DEF StoredIsSeen, Streamed
<1>4. ASSUME NEW t \in Turns, Save(t) PROVE StoredIsSeen'
  <2>1. /\ stored' = [stored EXCEPT ![t] = reply[t]] /\ shown' = shown /\ mode' = mode
        /\ pc[t] = "save"
    BY <1>4 DEF Save
  <2> QED
    BY <1>0, <2>1 DEF StoredIsSeen, Streamed, Spoken, TypeOK
<1>5. ASSUME NEW t \in Turns, Close(t) PROVE StoredIsSeen'
  <2>1. stored' = stored /\ shown' = [shown EXCEPT ![t] = stored[t]] /\ mode' = mode
    BY <1>5 DEF Close
  <2> QED
    BY <1>0, <2>1 DEF StoredIsSeen, Streamed, TypeOK
<1> QED
  BY <1>1, <1>2, <1>3, <1>4, <1>5 DEF Next, Request, Answer, End

-----------------------------------------------------------------------------
(* The theorems.                                                           *)

LEMMA InitIInv == Init => IInv
<1> SUFFICES ASSUME Init PROVE IInv
  OBVIOUS
<1>1. Len(asked) = 0 /\ \A t \in Turns : pc[t] = "find" /\ stored[t] = None /\ job[t] = None
  BY DEF Init
<1>2. \A t \in Turns : plan[t].heard = None
  BY DEF Init, NoPlan
<1>3. Seated /\ Unsaved /\ Spoken /\ ReplyWithJob /\ StoredIsSeen
  BY <1>1 DEF Seated, Unsaved, Spoken, ReplyWithJob, StoredIsSeen
<1>4. Remembered /\ Kept /\ Heard
  BY <1>1, <1>2 DEF Remembered, Kept, Heard, Init, NoRow
<1> QED
  BY <1>3, <1>4, InitType DEF IInv

LEMMA StepIInv == IInv /\ [Next]_vars => IInv'
<1> SUFFICES ASSUME IInv, [Next]_vars PROVE IInv'
  OBVIOUS
<1>1. TypeOK'
  BY StepType DEF IInv
<1> QED
  BY <1>1, StepSeated, StepUnsaved, StepSpoken, StepRemembered, StepKept, StepHeard,
     StepReplyWithJob, StepStoredIsSeen DEF IInv

LEMMA Invariance == Spec => []IInv
BY InitIInv, StepIInv, PTL DEF Spec

\* Every variable keeps its type.
THEOREM TypeCorrect == Spec => []TypeOK
<1>1. IInv => TypeOK
  BY DEF IInv
<1> QED
  BY <1>1, Invariance, PTL

\* A reply and the job that learns from its turn are committed together, whatever
\* fails before, between or after (enqueue_intelligence, save_assistant_message).
THEOREM RepliesHaveJobs == Spec => []ReplyWithJob
<1>1. IInv => ReplyWithJob
  BY DEF IInv
<1> QED
  BY <1>1, Invariance, PTL

\* What is stored of a turn is what its student saw (iter_reply_tokens,
\* node_run_conversation_agent).
THEOREM RepliesAreSeen == Spec => []StoredIsSeen
<1>1. IInv => StoredIsSeen
  BY DEF IInv
<1> QED
  BY <1>1, Invariance, PTL

\* No turn asks for the field that its conversation had recorded as asked for when
\* the turn read it, with any number of turns at once and of open issues
\* (_record_discovery_question).
THEOREM QuestionsAreNew == Spec => []AsksAnew
<1>1. IInv => AsksAnew
  <2> SUFFICES ASSUME IInv, NEW t \in Turns, plan[t].heard # None, plan[t].field \in Fields
               PROVE  plan[t].field # plan[plan[t].heard].field
    BY DEF AsksAnew
  <2> QED
    BY DEF IInv, Heard
<1> QED
  BY <1>1, Invariance, PTL
=============================================================================
