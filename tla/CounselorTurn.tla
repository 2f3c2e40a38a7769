----------------------------- MODULE CounselorTurn -----------------------------
(***************************************************************************)
(* How a turn of the chat is answered, up to the commit of its reply; what *)
(* follows that commit is in ChatTurn.                                     *)
(*                                                                         *)
(* A turn is streamed (chat_stream) or answered at once (chat).  The model *)
(* is asked for an interpretation first, for tool calls when live research *)
(* is wanted, and for the reply; a call that the limits of the day do not  *)
(* grant is never made.  What the model writes is prose (with or without   *)
(* the question that the interpretation suggested), its reasoning, an      *)
(* envelope {"reply": ...}, nothing, or a text that as a whole is unfit    *)
(* but does not begin like reasoning: JSON without a reply, or prose that  *)
(* turns into reasoning later.                                             *)
(*                                                                         *)
(* The suggested question is about a field that the profile lacks, or      *)
(* about an open issue, which is there or not as scans have left it.  What *)
(* is modelled happens within the three days for which a conversation does *)
(* not ask for the same field again.                                       *)
(***************************************************************************)
EXTENDS Naturals, Sequences

CONSTANTS Turns,       \* messages of one student, each with its request
          Fields,      \* the fields of the profile worth asking for
          Issues,      \* the keys of issues, "issue.<domain>.<type>"
          Requests,    \* how the turns are asked for: see mode
          MaxRounds    \* COUNSELOR_MAX_TOOL_ROUNDS

ASSUME Limits == MaxRounds \in Nat \ {0}
ASSUME IssuesApart == Fields \cap Issues = {}

VARIABLES
  known,      \* fields that the profile has
  greetings,  \* opening messages stored
  asked,      \* per conversation of the student: last_discovery_field_key
  latest,     \* and the turn whose reply it was written for
  mode,       \* per turn: streamed or plain, of a message or of blanks
  pc,         \* where its request is
  thread,     \* its conversation
  found,      \* the row of it that the request's session holds
  plan,       \* what the interpretation suggested
  rounds,     \* tool rounds made
  reply,      \* what the counselor graph yielded, then assistant_reply
  shown,      \* what the student has seen
  stored,     \* the stored assistant message
  run,        \* orchestration_runs.status
  job         \* the follow-up's job in person_jobs

student == <<known, greetings, asked, latest>>
local   == <<thread, found, plan, rounds, reply>>
rows    == <<stored, run, job>>
vars    == <<student, mode, pc, local, shown, rows>>

Modes == {"streamed", "plain", "blank"}
Streamed(t) == mode[t] # "plain"

ASSUME RequestModes == Requests \subseteq [Turns -> Modes]

Prose == {"prose", "asks"}
Texts == Prose \cup {"reasoning", "envelope", "unfit", "empty"}
Fallback == "fallback"   \* NO_REPLY_FALLBACK
None == "none"
Outputs == Texts \cup {Fallback, None}
Keys == Fields \cup Issues
NoRow == [asked |-> None, latest |-> None]
NoPlan == [field |-> None, tasks |-> FALSE, heard |-> None]
Plans == [field : Keys \cup {None}, tasks : BOOLEAN, heard : Turns \cup {None}]
Points == {"find", "create", "count", "greet", "begin", "understand", "decide",
           "stream", "again", "said", "save", "close", "over"}

TypeOK ==
  /\ known \subseteq Fields /\ greetings \in Nat
  /\ asked \in Seq(Keys \cup {None}) /\ latest \in Seq(Turns \cup {None})
  /\ Len(asked) = Len(latest) /\ thread \in [Turns -> 0..Len(asked)]
  /\ found \in [Turns -> [asked : Keys \cup {None}, latest : Turns \cup {None}]]
  /\ mode \in [Turns -> Modes] /\ pc \in [Turns -> Points] /\ plan \in [Turns -> Plans]
  /\ rounds \in [Turns -> 0..MaxRounds] /\ reply \in [Turns -> Outputs]
  /\ shown \in [Turns -> Outputs] /\ stored \in [Turns -> Outputs]
  /\ run \in [Turns -> {None, "running", "completed", "failed", "cancelled"}]
  /\ job \in [Turns -> {None, "pending", "done"}]

Init ==
  /\ known = {} /\ greetings = 0 /\ asked = <<>> /\ latest = <<>>
  /\ mode \in Requests /\ pc = [t \in Turns |-> "find"]
  /\ thread = [t \in Turns |-> 0] /\ found = [t \in Turns |-> NoRow]
  /\ plan = [t \in Turns |-> NoPlan] /\ rounds = [t \in Turns |-> 0]
  /\ reply = [t \in Turns |-> None] /\ shown = [t \in Turns |-> None]
  /\ stored = [t \in Turns |-> None] /\ run = [t \in Turns |-> None]
  /\ job = [t \in Turns |-> None]

Goto(t, point) == pc' = [pc EXCEPT ![t] = point]
Step(t, from, to) == pc[t] = from /\ Goto(t, to)

\* The request is over; what it held is gone, and of its plan there is what a
\* stored reply says of it.
Leave(t) ==
  /\ Goto(t, "over")
  /\ thread' = [thread EXCEPT ![t] = 0] /\ rounds' = [rounds EXCEPT ![t] = 0]
  /\ found' = [found EXCEPT ![t] = NoRow]
  /\ plan' = [plan EXCEPT ![t] = IF stored[t] = "asks" THEN @ ELSE NoPlan]
  /\ reply' = [reply EXCEPT ![t] = None]

-----------------------------------------------------------------------------
(* What the student may see of a text.                                     *)

\* public_reply on a whole text.
Public(text) == IF text \in Prose THEN text
                ELSE IF text = "envelope" THEN "prose" ELSE None

\* The opening of a stream is held back until it can be judged.
Released(text) == IF text = "reasoning" THEN None ELSE text

-----------------------------------------------------------------------------
(* The turn begins.                                                        *)

Row(c) == [asked |-> asked[c], latest |-> latest[c]]

\* The conversation as the session of a request has it: a plain turn keeps the row
\* it found in its identity map, a stream has a session of its own that reads it.
Held(t) == IF Streamed(t) THEN Row(thread[t]) ELSE found[t]

\* get_or_create_person_conversation: the conversation is looked for without a
\* lock and made in a transaction of its own.
FindThread(t) ==
  /\ IF asked = <<>> THEN Step(t, "find", "create") /\ UNCHANGED <<thread, found>>
     ELSE /\ Step(t, "find", "count")
          /\ \E c \in DOMAIN asked :
               /\ thread' = [thread EXCEPT ![t] = c]
               /\ found' = [found EXCEPT ![t] = IF Streamed(t) THEN NoRow ELSE Row(c)]
  /\ UNCHANGED <<student, mode, plan, rounds, reply, shown, rows>>

CreateThread(t) ==
  /\ Step(t, "create", "count")
  /\ asked' = Append(asked, None) /\ latest' = Append(latest, None)
  /\ thread' = [thread EXCEPT ![t] = Len(asked')]
  /\ UNCHANGED <<known, greetings, mode, found, plan, rounds, reply, shown, rows>>

\* ensure_thread_opening: nothing is said to a student with messages.
CountMessages(t) ==
  /\ Step(t, "count", IF greetings = 0 /\ \A o \in Turns : run[o] = None
                      THEN "greet" ELSE "begin")
  /\ UNCHANGED <<student, mode, local, shown, rows>>

Greet(t) ==
  /\ Step(t, "greet", "begin") /\ greetings' = greetings + 1
  /\ UNCHANGED <<known, asked, latest, mode, local, shown, rows>>

\* begin_chat_turn: the message and its run in one commit.
Begin(t) ==
  /\ Step(t, "begin", "understand")
  /\ run' = [run EXCEPT ![t] = "running"]
  /\ UNCHANGED <<student, mode, local, shown, stored, job>>

\* compute_completion_from_snapshot
Missing == Fields \ known

\* build_counselor_context: what the profile lacks, the open issues but the most
\* pressing one (runners_up), and what the conversation remembers.
Context(t, issues) == [missing |-> Missing, issues |-> issues,
                       asked |-> Held(t).asked, heard |-> Held(t).latest]

\* select_discovery_candidates: a field that was asked for last is left out; issues
\* are not compared.
\* Fault: what was asked last is a candidate again.
CandidatesAll(context) == context.missing \cup context.issues

Candidates(context) == (context.missing \ {context.asked}) \cup context.issues

\* node_load_student_context: without an interpretation (denied, late, invalid or
\* ungrounded) the turn goes on with an empty plan.
Understand(t) ==
  /\ pc[t] = "understand"
  /\ \E issues \in SUBSET Issues, tasks, web \in BOOLEAN :
       \E field \in Candidates(Context(t, issues)) \cup {None} :
         /\ plan' = [plan EXCEPT ![t] = [field |-> field, tasks |-> tasks,
                                         heard |-> Context(t, issues).heard]]
         /\ Goto(t, IF web THEN "decide" ELSE "stream")
  /\ UNCHANGED <<student, mode, thread, found, rounds, reply, shown, rows>>

-----------------------------------------------------------------------------
(* iter_counselor_tokens.                                                  *)

Yield(t, text) ==
  /\ reply' = [reply EXCEPT ![t] = text]
  /\ shown' = [shown EXCEPT ![t] = IF Streamed(t) THEN text ELSE @]

\* Fault: a round that called tools is followed by another.
MoreRoundsAlways(t) == TRUE

MoreRounds(t) == rounds[t] + 1 < MaxRounds

\* A tool decision: tools to run, or an answer that is taken if it is prose.
Decide(t) ==
  /\ pc[t] = "decide"
  /\ \/ /\ rounds' = [rounds EXCEPT ![t] = (@ + 1) % MaxRounds]
        /\ Goto(t, IF MoreRounds(t) THEN "decide" ELSE "stream")
        /\ UNCHANGED <<reply, shown>>
     \/ /\ rounds' = [rounds EXCEPT ![t] = 0]
        /\ \E text \in Texts :
             IF Public(text) # None THEN Yield(t, Public(text)) /\ Goto(t, "said")
             ELSE Goto(t, "stream") /\ UNCHANGED <<reply, shown>>
  /\ UNCHANGED <<student, mode, thread, found, plan, rows>>

\* _yield_student_text; an empty stream is followed by a second call.
Stream(t) ==
  /\ pc[t] = "stream"
  /\ \E text \in Texts :
       IF text = "empty" THEN Goto(t, "again") /\ UNCHANGED <<reply, shown>>
       ELSE Yield(t, Released(text)) /\ Goto(t, "said")
  /\ UNCHANGED <<student, mode, thread, found, plan, rounds, rows>>

Again(t) ==
  /\ Step(t, "again", "said")
  /\ \E text \in Texts :
       Yield(t, IF Public(text) # None THEN Public(text) ELSE Fallback)
  /\ UNCHANGED <<student, mode, thread, found, plan, rounds, rows>>

\* iter_reply_tokens keeps what was seen; node_run_conversation_agent filters what
\* was written as a whole.
\* Fault: the text of a stream is filtered as well.
ReplyOfFiltered(t) ==
  IF reply[t] \in {None, Fallback} \/ Public(reply[t]) = None THEN Fallback
  ELSE Public(reply[t])

ReplyOf(t) ==
  IF reply[t] \in {None, Fallback} THEN Fallback
  ELSE IF Streamed(t) THEN reply[t]
  ELSE IF Public(reply[t]) # None THEN Public(reply[t]) ELSE Fallback

\* The answer of a plain turn brings its own proposals, mostly none, in place of
\* those of the interpretation.  To record the question the conversation is fetched
\* from the session.
Said(t) ==
  /\ Step(t, "said", "save")
  /\ reply' = [reply EXCEPT ![t] = ReplyOf(t)]
  /\ \E tasks \in {plan[t].tasks, FALSE, TRUE} :
       /\ Streamed(t) => tasks = plan[t].tasks
       /\ ~Streamed(t) /\ tasks => reply[t] = "envelope"
       /\ plan' = [plan EXCEPT ![t].tasks = tasks]
  /\ found' = [found EXCEPT ![t] = Held(t)]
  /\ UNCHANGED <<student, mode, thread, rounds, shown, rows>>

-----------------------------------------------------------------------------
(* The turn ends.                                                          *)

\* needs_intelligence
Learns(t) == mode[t] # "blank" \/ plan[t].tasks

\* _record_discovery_question: only what the reply asks is remembered as asked, and
\* a key that the session's row has is not written again.
Asking(t) == plan[t].field # None /\ reply[t] = "asks"

Remember(t) ==
  IF Asking(t) /\ plan[t].field # found[t].asked
  THEN /\ asked' = [asked EXCEPT ![thread[t]] = plan[t].field]
       /\ latest' = [latest EXCEPT ![thread[t]] = t]
  ELSE UNCHANGED <<asked, latest>>

\* enqueue_intelligence and save_assistant_message: one commit.
\* Fault: the job is staged after the commit, by Close.
SaveAlone(t) ==
  /\ Step(t, "save", "close") /\ Remember(t)
  /\ stored' = [stored EXCEPT ![t] = reply[t]]
  /\ UNCHANGED <<known, greetings, mode, local, shown, run, job>>

Save(t) ==
  /\ Step(t, "save", "close") /\ Remember(t)
  /\ stored' = [stored EXCEPT ![t] = reply[t]]
  /\ job' = [job EXCEPT ![t] = IF Learns(t) THEN "pending" ELSE None]
  /\ UNCHANGED <<known, greetings, mode, local, shown, run>>

\* The answer, or the events reply and done; a turn without a job is completed in a
\* commit of its own.
Close(t) ==
  /\ pc[t] = "close" /\ Leave(t)
  /\ run' = [run EXCEPT ![t] = IF job[t] = None THEN "completed" ELSE @]
  /\ shown' = [shown EXCEPT ![t] = stored[t]]
  /\ UNCHANGED <<student, mode, stored, job>>

\* The follow-up of ChatTurn learns what the message tells.
Work(t) ==
  /\ job[t] = "pending" /\ job' = [job EXCEPT ![t] = "done"]
  /\ run' = [run EXCEPT ![t] = "completed"]
  /\ \E told \in SUBSET Fields : known' = known \cup told
  /\ UNCHANGED <<greetings, asked, latest, mode, pc, local, shown, stored>>

\* record_stream_failure
Marked(t, status) == run' = [run EXCEPT ![t] = IF @ = "completed" THEN @ ELSE status]

\* A call is denied by the limits, or no provider is configured: an AuthError.  A
\* plain turn passes it on before it commits the failure of its run.
Refuse(t) ==
  /\ pc[t] \in {"decide", "stream", "again"} /\ Leave(t)
  /\ IF Streamed(t) THEN Marked(t, "failed") ELSE UNCHANGED run
  /\ UNCHANGED <<student, mode, shown, stored, job>>

\* The provider fails; a stream may have shown its beginning by then.
ProviderFails(t) ==
  /\ pc[t] \in {"decide", "stream", "again"} /\ Marked(t, "failed")
  /\ \E text \in {None} \cup {Released(x) : x \in Texts \ {"empty"}} :
       shown' = [shown EXCEPT ![t] = IF Streamed(t) /\ pc[t] = "stream" THEN text ELSE @]
  /\ Leave(t) /\ UNCHANGED <<student, mode, stored, job>>

\* The commit of the reply fails, or something after it: a stream is marked either
\* way, a plain turn not at all.
LateFailure(t) ==
  /\ pc[t] \in {"save", "close"} /\ Leave(t)
  /\ IF Streamed(t) THEN Marked(t, "failed") ELSE UNCHANGED run
  /\ UNCHANGED <<student, mode, shown, stored, job>>

\* The student goes away.
Cancel(t) ==
  /\ Streamed(t) /\ pc[t] \notin {"find", "create", "count", "greet", "begin", "over"}
  /\ Leave(t) /\ Marked(t, "cancelled")
  /\ UNCHANGED <<student, mode, shown, stored, job>>

\* The process dies.
Die(t) ==
  /\ pc[t] # "over" /\ Leave(t)
  /\ UNCHANGED <<student, mode, shown, rows>>

-----------------------------------------------------------------------------
Start(t) == FindThread(t) \/ CreateThread(t) \/ CountMessages(t) \/ Greet(t) \/ Begin(t)
Answer(t) == Understand(t) \/ Decide(t) \/ Stream(t) \/ Again(t) \/ Said(t)
             \/ Refuse(t) \/ ProviderFails(t)
End(t) == Save(t) \/ Close(t) \/ LateFailure(t)
Request(t) == Start(t) \/ Answer(t) \/ End(t)

Next == \E t \in Turns : Request(t) \/ Work(t) \/ Cancel(t) \/ Die(t)

\* Every call to the model and to the database has a timeout.
Spec == Init /\ [][Next]_vars /\ \A t \in Turns : WF_vars(Request(t))

-----------------------------------------------------------------------------
\* A reply and the job that learns from its turn are committed together: no reply
\* of a message that says something is stored without a job, and no job without
\* its reply (enqueue_intelligence: "same txn as the assistant message").
ReplyWithJob ==
  \A t \in Turns : /\ job[t] # None => stored[t] # None
                   /\ stored[t] # None /\ mode[t] # "blank" => job[t] # None

\* What is stored is what was seen: a stream that showed anything is stored as it
\* was shown, and a plain turn shows and stores prose, or says that it has no
\* answer (iter_reply_tokens, node_run_conversation_agent).
StoredIsSeen ==
  \A t \in Turns : stored[t] # None =>
    IF Streamed(t) THEN shown[t] # None => stored[t] = shown[t]
    ELSE stored[t] \in Prose \cup {Fallback}

\* A turn does not ask for the field that its conversation had recorded as asked for
\* when the turn read it: a stream as it is understood, a plain turn as it began
\* (_record_discovery_question: "don't keep re-suggesting the same field turn after
\* turn").
AsksAnew ==
  \A t \in Turns : stored[t] = "asks" /\ plan[t].field \in Fields /\ plan[t].heard # None =>
    plan[t].field # plan[plan[t].heard].field

\* The same of every key that is recorded.  It fails for those of issues, which are
\* suggested for as long as they are open.
KeysAnew ==
  \A t \in Turns : stored[t] = "asks" /\ plan[t].field # None /\ plan[t].heard # None =>
    plan[t].field # plan[plan[t].heard].field

\* Every request ends, with tools that call for more tools, streams that say
\* nothing and calls that are denied.
TurnEnds == \A t \in Turns : <>(pc[t] = "over")

\* counselor_graph.public_reply: prose only; an envelope is never the message,
\* and neither is the model's reasoning.  It fails for a streamed turn: see the
\* README.
ProseOnly == \A t \in Turns : shown[t] \in Prose \cup {Fallback, None}
=============================================================================
