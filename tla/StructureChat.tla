---------------------------- MODULE StructureChat ----------------------------
(***************************************************************************)
(* The questions of one user about one symbol                              *)
(* (engines/ai_native/structure_chat_service.py).                          *)
(*   - A question is answered in one reply, in a thread of the pool, or    *)
(*     as a stream on the event loop; both find or make the session, take  *)
(*     the intent from the question and the last message, ask the          *)
(*     language model about the saved reasoning, and save a message.       *)
(*   - Without a model or a reasoning the answer is made of the lines of   *)
(*     the context; without a ready context it only says to wait.          *)
(*   - Every question that reached the model has its entry in the log of   *)
(*     the triggers.                                                       *)
(* What others do in the meantime: contexts and reasonings are saved, a    *)
(* memory warning comes up, a statement or the model raises, the client    *)
(* of a stream goes away.                                                  *)
(* A text is a sequence of pieces, of which some begin or end with a stop. *)
(***************************************************************************)
EXTENDS Integers, Sequences, SequencesExt, FiniteSets

CONSTANTS
    Questions,      \* what is asked, see Classify
    Contexts,       \* the contexts in the order in which they are saved
    Sayings,        \* what the model says
    HasKey,         \* the user has a key for the model
    MaxAsks,        \* bound: questions
    MaxEvents,      \* bound: contexts, reasonings and warnings that come up
    MaxFaults       \* bound: calls that raise, clients that go away

ASSUME ChatBounds ==
    /\ {MaxAsks, MaxEvents, MaxFaults, Len(Contexts)} \subseteq Nat
    /\ HasKey \in BOOLEAN /\ Sayings \subseteq Seq({"say", "say.", "risk"})

VARIABLES
    current,        \* the latest context that is stored, or None
    ready,          \* the contexts whose reasoning is ready
    withText,       \* the contexts with the text of a reasoning run
    warned,         \* the user's memory has an active warning
    sessions,       \* ai_structure_chat_sessions: latest_context_id of each
    recent,         \* the session that was updated last, or None
    messages,       \* ai_structure_chat_messages
    logs,           \* ai_trigger_logs of the questions
    asking,         \* what each of the two requests does
    asked,          \* history: of each question what the client saw and its end
    events,         \* history: see MaxEvents
    faults          \* history: see MaxFaults

world == <<current, ready, withText, warned, events>>
stored == <<sessions, recent, messages, logs>>
chatVars == <<current, ready, withText, warned, sessions, recent, messages, logs,
              asking, asked, events, faults>>

Callers == {"chat", "stream"}
None == 0
Unknown == -1
NoIntent == "none"

Quiet ==
    [at |-> "idle", ask |-> 0, given |-> None, nested |-> FALSE, question |-> None,
     context |-> None, ready |-> FALSE, session |-> None, intent |-> NoIntent,
     warned |-> FALSE, kind |-> "", text |-> <<>>, pending |-> <<>>]
-----------------------------------------------------------------------------
(* The intent of a question. *)

(* A question names subjects by its words; it may carry on from the last   *)
(* message, and hint at one of three subjects while it does.               *)
Precedence ==
    <<"out_of_scope", "review", "invalidation", "hold_or_exit", "reminder", "divergence",
      "resonance", "trend_growth", "explain_structure">>
Hinted == [falls |-> "invalidation", wakes |-> "reminder", errs |-> "review"]
Repeated ==
    {"buy_window", "invalidation", "hold_or_exit", "reminder", "explain_structure", "review"}
Intents == ToSet(Precedence) \cup {"buy_window"}

(* _followup_intent                                                        *)
FollowUp(q, last) ==
    IF q.hint \in DOMAIN Hinted THEN Hinted[q.hint]
    ELSE IF last \in Repeated THEN last
    ELSE "buy_window"

(* classify_intent                                                         *)
Classify(q, last) ==
    LET named == {i \in DOMAIN Precedence : Precedence[i] \in q.subjects}
    IN  IF named # {} THEN Precedence[CHOOSE i \in named : \A k \in named : i <= k]
        ELSE IF q.carries /\ last # NoIntent THEN FollowUp(q, last)
        ELSE "buy_window"

OfSession(s) == {i \in DOMAIN messages : messages[i].session = s}

(* Mutant: the last message of the user, whatever its session.             *)
LastIntentAnywhere(s) == IF messages = <<>> THEN NoIntent ELSE Last(messages).intent

(* get_recent_conversation_context                                         *)
LastIntent(s) ==
    IF OfSession(s) = {} THEN NoIntent
    ELSE messages[CHOOSE i \in OfSession(s) : \A k \in OfSession(s) : k <= i].intent
-----------------------------------------------------------------------------
(* What is answered. *)

Lines(c) ==
    (IF Contexts[c].zg > 0 THEN {[role |-> "trigger", price |-> Contexts[c].zg]} ELSE {})
        \cup (IF Contexts[c].zd > 0
              THEN {[role |-> "invalidation", price |-> Contexts[c].zd]} ELSE {})

(* _reminder_candidates: lines that the price of the snapshot has not      *)
(* crossed yet.                                                            *)
Reminders(c, intent) ==
    LET price == Contexts[c].price
    IN  {l \in Lines(c) :
            \/ /\ l.role = "trigger" /\ (price = 0 \/ price < l.price)
               /\ intent \in {"buy_window", "reminder", "explain_structure"}
            \/ /\ l.role = "invalidation" /\ (price = 0 \/ price > l.price)
               /\ intent \in {"invalidation", "hold_or_exit", "reminder", "buy_window"}}

(* What the model says may end with a stop, the disclaimer may begin with  *)
(* one.                                                                    *)
Risk == {"risk", ".risk"}
Unstopped(piece) ==
    IF piece = "say." THEN "say" ELSE IF piece = ".risk" THEN "risk" ELSE piece

(* The text without its last stop.                                         *)
Trimmed(text) ==
    [i \in DOMAIN text |-> IF i = Len(text) THEN Unstopped(text[i]) ELSE text[i]]

WithRisk(text) ==
    IF Risk \cap ToSet(text) # {} THEN text ELSE Trimmed(text) \o <<".risk">>

(* _apply_memory_warning                                                   *)
Warned(text, warn) ==
    IF ~warn THEN text
    ELSE IF Last(text) \in Risk THEN Front(text) \o <<"warn", ".risk">>
    ELSE text \o <<"warn">>

(* _build_answer                                                           *)
LocalText(c, intent, warn) ==
    IF intent = "out_of_scope" THEN <<"scope", "risk">>
    ELSE IF Cardinality(Lines(c)) < 2 THEN <<"unclear", "risk">>
    ELSE IF intent = "review" THEN <<"review", "risk">>
    ELSE Warned(<<"local", "risk">>, warn)

LocalLines(c, intent) ==
    IF intent # "out_of_scope" /\ Cardinality(Lines(c)) < 2 THEN {} ELSE Lines(c)

(* Mutant: the disclaimer is added to what is saved only.                  *)
RestWithoutRisk(text, warn) ==
    LET told == Warned(WithRisk(text), warn)
    IN  IF warn THEN <<told>> ELSE <<>>

(* What a stream still sends when the model has said all: the disclaimer,  *)
(* and what replacing the text in the warned text leaves, which is all of  *)
(* it when the warning stands before the disclaimer.                       *)
Rest(text, warn) ==
    LET risky == WithRisk(text)
        told == Warned(risky, warn)
    IN  (IF risky = text THEN <<>> ELSE <<<<".risk">>>>)
            \o (IF told = risky THEN <<>>
                ELSE IF IsPrefix(risky, told)
                     THEN <<SubSeq(told, Len(risky) + 1, Len(told))>>
                ELSE <<told>>)
-----------------------------------------------------------------------------
ChatInit ==
    /\ current = 0 /\ ready = {} /\ withText = {} /\ warned = FALSE
    /\ sessions = <<>> /\ recent = None /\ messages = <<>> /\ logs = <<>>
    /\ asking = [c \in Callers |-> Quiet]
    /\ asked = <<>> /\ events = 0 /\ faults = 0

At(c, at) == asking[c].at = at
Goes(c, r) == asking' = [asking EXCEPT ![c] = r]
Streams(c) == c = "stream" /\ ~asking[c].nested
Shows(c, pieces) == [asked EXCEPT ![asking[c].ask].seen = @ \o pieces]
EndsAs(c, end) == [asked EXCEPT ![asking[c].ask].end = end]

(* The request ends without a message.                                     *)
Closes(c, end) ==
    /\ asked' = EndsAs(c, end)
    /\ Goes(c, Quiet)

Asks(c, q, given) ==
    /\ At(c, "idle") /\ Len(asked) < MaxAsks
    /\ asked' = Append(asked, [by |-> c, question |-> q, seen |-> <<>>, end |-> "open"])
    /\ Goes(c, [Quiet EXCEPT !.at = "context", !.ask = Len(asked) + 1, !.question = q,
                             !.given = given])
    /\ UNCHANGED <<world, stored, faults>>

(* get_latest_ai_structure_context.  A stream that finds none, or none     *)
(* that is ready, leaves the question to answer_structure_question, which  *)
(* reads again.                                                            *)
ReadContext(c) ==
    /\ At(c, "context")
    /\ Goes(c, IF Streams(c) /\ current \notin ready
               THEN [asking[c] EXCEPT !.nested = TRUE]
               ELSE [asking[c] EXCEPT !.at = "session", !.context = current,
                                      !.ready = current \in ready])
    /\ UNCHANGED <<world, stored, asked, faults>>

(* upsert_chat_session looks for the session ...                           *)
FindSession(c) ==
    LET given == asking[c].given
        found == IF given # None THEN given ELSE recent
    IN  /\ At(c, "session")
        /\ IF found = Unknown THEN Closes(c, "error")
           ELSE /\ Goes(c, [asking[c] EXCEPT !.at = "write", !.session = found])
                /\ UNCHANGED asked
        /\ UNCHANGED <<world, stored, faults>>

(* ... and writes its row or a new one.                                    *)
WriteSession(c) ==
    LET r == asking[c]
        s == IF r.session = None THEN Len(sessions) + 1 ELSE r.session
    IN  /\ At(c, "write")
        /\ sessions' = IF r.session = None THEN Append(sessions, r.context)
                       ELSE [sessions EXCEPT ![s] = r.context]
        /\ recent' = s
        /\ Goes(c, [r EXCEPT !.at = "talk", !.session = s])
        /\ UNCHANGED <<world, messages, logs, asked, faults>>

(* The messages of the session give the intent.  Without a ready context   *)
(* the answer is to wait.                                                  *)
ReadTalk(c) ==
    LET r == [asking[c] EXCEPT !.intent = Classify(asking[c].question,
                                                   LastIntent(asking[c].session))]
    IN  /\ At(c, "talk")
        /\ Goes(c, IF r.context = None
                   THEN [r EXCEPT !.at = "save", !.kind = "wait", !.text = <<"wait", "risk">>]
                   ELSE IF ~r.ready
                   THEN [r EXCEPT !.at = "save", !.kind = "wait", !.text = <<"later">>]
                   ELSE [r EXCEPT !.at = "memory"])
        /\ UNCHANGED <<world, stored, asked, faults>>

ReadMemory(c) ==
    /\ At(c, "memory")
    /\ Goes(c, [asking[c] EXCEPT !.at = "material", !.warned = warned])
    /\ UNCHANGED <<world, stored, asked, faults>>

(* r with the answer that is made of the lines of the context.             *)
Locally(r) ==
    [r EXCEPT !.kind = "local", !.text = LocalText(r.context, r.intent, r.warned)]

(* The text of the reasoning and the key are looked up.  A stream sends    *)
(* the local answer before it saves it; a request that runs on the event   *)
(* loop without being a stream does not call the model.                    *)
ReadMaterial(c) ==
    LET r == asking[c]
        local == Locally(r)
    IN  /\ At(c, "material")
        /\ \/ /\ HasKey /\ r.context \in withText /\ ~r.nested
              /\ \E text \in Sayings : Goes(c, [r EXCEPT !.at = "model", !.text = text])
           \/ /\ ~HasKey \/ r.context \notin withText \/ r.nested
              /\ Goes(c, IF Streams(c)
                         THEN [local EXCEPT !.at = "tail", !.pending = <<local.text>>]
                         ELSE [local EXCEPT !.at = "save"])
        /\ UNCHANGED <<world, stored, asked, faults>>

LogOf(c, decision) == Append(logs, [ask |-> asking[c].ask, decision |-> decision])

(* A piece of the model's answer goes to the client of the stream.         *)
Delta(c) ==
    LET r == asking[c]
        sent == Len(asked[r.ask].seen)
    IN  /\ At(c, "model") /\ Streams(c) /\ sent < Len(r.text)
        /\ asked' = Shows(c, <<r.text[sent + 1]>>)
        /\ UNCHANGED <<world, stored, asking, faults>>

(* The model has said all.                                                 *)
Answered(c) ==
    LET r == asking[c]
        told == [r EXCEPT !.kind = "model", !.text = Warned(WithRisk(r.text), r.warned)]
    IN  /\ At(c, "model") /\ r.text # <<>>
        /\ Streams(c) => Len(asked[r.ask].seen) = Len(r.text)
        /\ Goes(c, IF Streams(c)
                   THEN [told EXCEPT !.at = "tail", !.pending = Rest(r.text, r.warned)]
                   ELSE [told EXCEPT !.at = "log"])
        /\ UNCHANGED <<world, stored, asked, faults>>

(* The model said nothing, or it failed: the stream ends, the reply falls  *)
(* back on the context.                                                    *)
NoAnswer(c) ==
    /\ At(c, "model")
    /\ \/ /\ asking[c].text = <<>>
          /\ logs' = LogOf(c, "skipped") /\ UNCHANGED faults
       \/ /\ faults < MaxFaults /\ faults' = faults + 1
          /\ logs' = LogOf(c, "error")
    /\ IF Streams(c) THEN Closes(c, "error")
       ELSE Goes(c, [Locally(asking[c]) EXCEPT !.at = "save"]) /\ UNCHANGED asked
    /\ UNCHANGED <<world, sessions, recent, messages>>

(* What is left to send goes out, piece by piece.                          *)
SendRest(c) ==
    LET r == asking[c]
    IN  /\ At(c, "tail")
        /\ IF r.pending = <<>>
           THEN /\ Goes(c, [r EXCEPT !.at = IF r.kind = "model" THEN "log" ELSE "save"])
                /\ UNCHANGED asked
           ELSE /\ asked' = Shows(c, Head(r.pending))
                /\ Goes(c, [r EXCEPT !.pending = Tail(@)])
        /\ UNCHANGED <<world, stored, faults>>

WriteLog(c) ==
    /\ At(c, "log")
    /\ logs' = LogOf(c, "generated")
    /\ Goes(c, [asking[c] EXCEPT !.at = "save"])
    /\ UNCHANGED <<world, sessions, recent, messages, asked, faults>>

(* save_chat_message                                                       *)
Message(r) ==
    [ask |-> r.ask, session |-> r.session, context |-> r.context,
     intent |-> r.intent, kind |-> r.kind, text |-> r.text,
     lines |-> CASE r.kind = "wait" -> {}
                 [] r.kind = "local" -> LocalLines(r.context, r.intent)
                 [] OTHER -> Lines(r.context),
     reminders |-> IF r.kind = "wait" THEN {} ELSE Reminders(r.context, r.intent)]

(* The message is saved, and the reply or the stream ends.                 *)
SaveMessage(c) ==
    LET r == asking[c]
    IN  /\ At(c, "save")
        /\ messages' = Append(messages, Message(r))
        /\ asked' = [asked EXCEPT ![r.ask].end = "done",
                                  ![r.ask].seen = IF Streams(c) THEN @ ELSE r.text]
        /\ Goes(c, Quiet)
        /\ UNCHANGED <<world, sessions, recent, logs, faults>>

(* A statement raises, and nothing catches it.                             *)
Raises(c) ==
    /\ asking[c].at \in {"context", "session", "write", "talk", "memory", "log", "save"}
    /\ faults < MaxFaults /\ faults' = faults + 1
    /\ Closes(c, "raised")
    /\ UNCHANGED <<world, stored>>

(* The client goes away while the stream waits for it to take a piece.     *)
Leaves(c) ==
    /\ Streams(c)
    /\ At(c, "model") \/ (At(c, "tail") /\ asked[asking[c].ask].seen # <<>>)
    /\ faults < MaxFaults /\ faults' = faults + 1
    /\ Closes(c, "gone")
    /\ UNCHANGED <<world, stored>>
-----------------------------------------------------------------------------
(* The work of others. *)

Happens ==
    /\ events < MaxEvents /\ events' = events + 1
    /\ UNCHANGED <<stored, asking, asked, faults>>

SaveContext ==
    /\ current < Len(Contexts) /\ current' = current + 1
    /\ UNCHANGED <<ready, withText, warned>> /\ Happens

(* A reasoning succeeds, or the run of one is reset by a later attempt.    *)
Reason ==
    /\ current > 0 /\ current \notin ready
    /\ ready' = ready \cup {current} /\ withText' = withText \cup {current}
    /\ UNCHANGED <<current, warned>> /\ Happens

LoseRun ==
    /\ \E s \in withText : withText' = withText \ {s}
    /\ UNCHANGED <<current, ready, warned>> /\ Happens

Remember ==
    /\ warned' = ~warned
    /\ UNCHANGED <<current, ready, withText>> /\ Happens

ChatNext ==
    \/ \E c \in Callers :
          \/ \E q \in Questions : Asks(c, q, None) \/ Asks(c, q, Unknown)
          \/ \E q \in Questions, s \in DOMAIN sessions : Asks(c, q, s)
          \/ ReadContext(c) \/ FindSession(c) \/ WriteSession(c) \/ ReadTalk(c)
          \/ ReadMemory(c) \/ ReadMaterial(c) \/ Delta(c) \/ Answered(c) \/ NoAnswer(c)
          \/ SendRest(c) \/ WriteLog(c) \/ SaveMessage(c) \/ Raises(c) \/ Leaves(c)
    \/ SaveContext \/ Reason \/ LoseRun \/ Remember

ChatSpec == ChatInit /\ [][ChatNext]_chatVars
-----------------------------------------------------------------------------
(* Properties. *)

ChatTypeOK ==
    /\ current \in 0..Len(Contexts) /\ ready \cup withText \subseteq 1..current
    /\ \A s \in DOMAIN sessions : sessions[s] \in 0..current
    /\ recent \in IF sessions = <<>> THEN {None} ELSE DOMAIN sessions
    /\ \A m \in ToSet(messages) :
          /\ m.ask \in DOMAIN asked /\ m.session \in DOMAIN sessions
          /\ m.context \in 0..current /\ m.intent \in Intents
    /\ \A c \in Callers : At(c, "idle") \/ asking[c].ask \in DOMAIN asked

(* Two rows of one question.                                               *)
Twice(rows) == \E i, j \in DOMAIN rows : i # j /\ rows[i].ask = rows[j].ask

(* A question that ended with an answer has one message, any other has     *)
(* none: nothing is saved that a client has seen fail, and nothing is      *)
(* saved twice.                                                            *)
AnsweredIsSaved ==
    /\ ~Twice(messages)
    /\ \A k \in DOMAIN asked :
          asked[k].end = "done" <=> \E m \in ToSet(messages) : m.ask = k

(* Every question that reached the model has one entry in the log, and the *)
(* entry says what became of it.                                           *)
OneDecision ==
    /\ ~Twice(logs)
    /\ \A m \in ToSet(messages) :
          m.kind = "model" <=>
              \E x \in ToSet(logs) : x.ask = m.ask /\ x.decision = "generated"

(* "AI 推演暂未完成，当前不展示本地算法边界": lines and reminders are shown   *)
(* only for a context whose reasoning is ready.                            *)
LinesNeedReasoning ==
    \A m \in ToSet(messages) : m.lines \cup m.reminders # {} => m.context \in ready

(* A question that says nothing of its own carries on a subject of its own *)
(* session.                                                                *)
FollowsOwnSession ==
    \A j \in DOMAIN messages :
        LET q == asked[messages[j].ask].question
        IN  q.subjects = {} /\ q.hint = "none" =>
                \/ messages[j].intent = "buy_window"
                \/ \E i \in 1..j - 1 : /\ messages[i].session = messages[j].session
                                       /\ messages[i].intent = messages[j].intent

(* A text without its stops.                                               *)
Said(text) == [i \in DOMAIN text |-> Unstopped(text[i])]

EndsWith(text, end) == \E n \in 0..Len(text) : SubSeq(text, n + 1, Len(text)) = end

(* What the client has seen of an answer ends with the text that is saved, *)
(* and is that text where no warning was added, punctuation aside; the     *)
(* risk disclaimer is the last thing it sees, or was in the answer.        *)
SeenIsSaved ==
    \A m \in ToSet(messages) :
        LET seen == Said(asked[m.ask].seen)
            text == Said(m.text)
        IN  /\ EndsWith(seen, text)
            /\ "warn" \notin ToSet(text) => text = seen
            /\ m.kind # "wait" => "risk" \in ToSet(seen)

(* A chat: rows of their types, an answer saved for each question that     *)
(* ended with one and for no other, one decision in the log, lines only of *)
(* reasoned contexts, a follow-up in its own session, and the text that was*)
(* seen (answer_structure_question, stream_structure_question).            *)
ChatSound ==
    /\ ChatTypeOK /\ AnsweredIsSaved /\ OneDecision /\ LinesNeedReasoning
    /\ FollowsOwnSession /\ SeenIsSaved
=============================================================================
