---------------------------- MODULE LiveInterview ----------------------------
(***************************************************************************)
(* One live interview: the WebSocket handlers of api/routes/               *)
(* interview_live.py and the HTTP handlers of api/routes/                  *)
(* interview_sessions.py over the rows of one interview session.           *)
(*                                                                         *)
(* Every handler is a small state machine whose steps are the COMMITS of   *)
(* the code: between two commits another handler may run, the socket may   *)
(* be lost, the process may crash.  What a handler loaded earlier and uses *)
(* later (its ORM objects) is kept in its record, so a stale read is stale *)
(* here too.  The in-flight registry lives in the process and dies with    *)
(* it; everything else is in the database.                                 *)
(***************************************************************************)
EXTENDS TurnGuard, SessionLifecycle, Sequences, FiniteSets

CONSTANTS
    Sockets,          \* WebSocket connections of the session
    Requests,         \* concurrent HTTP requests
    Answers,          \* client event ids of submitted answers
    None,             \* no client event
    SocketOps,        \* what the sockets' clients ask for in this instance
    RequestOps,       \* what the HTTP clients ask for in this instance
    TimePoints,       \* the seconds-left values the clock may show
    MaxRestatements,  \* bound: restatements per interview
    Faults            \* whether sockets drop, providers fail, the server crashes

Handlers == Sockets \cup Requests

\* The status operations exist over both transports.
OpsOf(h) == IF h \in Sockets THEN SocketOps ELSE RequestOps

ASSUME InstanceAssumption ==
    /\ Sockets \cap Requests = {}
    /\ None \notin Answers
    /\ SocketOps \subseteq {"start", "submit", "retry", "restate", "pause", "resume", "finish"}
    /\ RequestOps \subseteq {"start", "pause", "resume", "finish"}
    /\ TimePoints \subseteq Nat
    /\ \E t \in TimePoints : \A u \in TimePoints : u <= t   \* the plan's time budget
    /\ MaxRestatements \in Nat
    /\ Faults \in BOOLEAN

VARIABLES
    status,      \* interview.status
    progress,    \* interview.current_question_sequence, 0 for NULL
    context,     \* the InterviewContextState row
    messages,    \* the InterviewMessage rows, by their sequence
    segments,    \* the ConversationSegment rows, by their sequence
    acked,       \* client event ids with a stored event (find_client_event)
    evaluation,  \* the session's evaluation job
    evaluated,   \* messages the evaluator has read, 0 before it ran
    remaining,   \* seconds left of the plan's time budget
    inFlight,    \* whether InFlightAnswerRegistry holds this session
    handlers     \* per handler: program counter and what it has loaded

rowVars == <<status, progress, context, messages, segments, acked>>
jobVars == <<evaluation, evaluated>>
vars == <<rowVars, jobVars, remaining, inFlight, handlers>>

-----------------------------------------------------------------------------
(* Types *)

Kinds == {"answer", "main_question", "follow_up", "closing", "restatement"}

Message == [ kind: Kinds, question: Questions, segment: Nat,
             event: Answers \cup {None},   \* message_metadata.client_event_id
             to: Nat ]                     \* the answer a turn replies to

Segment == [question: Questions, open: BOOLEAN, end: Nat]

Turn == [question: Questions, kind: Kinds]

TurnPcs == {"save", "ack", "decide", "prepare", "advance", "reply", "commit",
            "seal", "publish"}

Pcs == TurnPcs \cup {"idle", "start", "acquire", "restate", "restated", "write",
                     "close", "complete"}

Handler == [ pc: Pcs,
             op: {"none", "submit", "retry", "restate", "pause", "resume",
                  "finish", "start"},
             event: Answers \cup {None},    \* the client event being handled
             seen: Statuses,                \* interview.status as loaded
             seenProgress: Nat,             \* current_question_sequence as loaded
             answer: Nat,                   \* sequence of the saved answer
             action: Actions \cup {"none"}, \* guarded decision
             turn: Turn,                    \* the prepared TurnPlan
             segment: Nat,                  \* open segment read before an insert
             tail: Nat ]                    \* max(sequence) + 1 read before an insert

Idle == [ pc |-> "idle", op |-> "none", event |-> None, seen |-> "ready",
          seenProgress |-> 0, answer |-> 0, action |-> "none",
          turn |-> [question |-> 1, kind |-> "answer"], segment |-> 0, tail |-> 0 ]

TypeOK ==
    /\ status \in Statuses
    /\ progress \in 0..NumQuestions
    /\ context \in [question: Questions, followUps: Nat, completed: Seq(Questions),
                    pending: Nat]
    /\ messages \in Seq(Message)
    /\ segments \in Seq(Segment)
    /\ acked \subseteq Answers
    /\ evaluation \in {"none", "queued", "running", "done"}
    /\ evaluated \in Nat
    /\ remaining \in TimePoints
    /\ inFlight \in BOOLEAN
    /\ handlers \in [Handlers -> Handler]

\* create_session: a READY session on the first question of a frozen plan.
Init ==
    /\ status = "ready"
    /\ progress = 0
    /\ context = [question |-> 1, followUps |-> 0, completed |-> <<>>, pending |-> 0]
    /\ messages = <<>>
    /\ segments = <<>>
    /\ acked = {}
    /\ evaluation = "none"
    /\ evaluated = 0
    /\ remaining = CHOOSE t \in TimePoints : \A u \in TimePoints : u <= t
    /\ inFlight = FALSE
    /\ handlers = [h \in Handlers |-> Idle]

-----------------------------------------------------------------------------
(* Handler control *)

At(h, pc) == handlers[h].pc = pc

Goto(h, pc) == handlers' = [handlers EXCEPT ![h].pc = pc]

\* The handler returns, its socket closes, or its request is answered.
Return(h) == handlers' = [handlers EXCEPT ![h] = Idle]

\* A handler between in_flight_answers.acquire and release.
Generating(h) ==
    handlers[h].op \in {"submit", "retry"} /\ ~ handlers[h].pc \in {"idle", "start", "acquire"}

\* Bug: a way out of the turn that forgets the registry.
Bug_LeaksSlot(h) == Return(h) /\ UNCHANGED inFlight

\* The release on every way out of a turn: normal return, finally, and
\* "except BaseException: release; raise".
ReleaseAndReturn(h) ==
    /\ Return(h)
    /\ inFlight' = (inFlight /\ ~Generating(h))

\* A client event or request arrives; the session row is loaded unlocked.  Of
\* what was loaded only the columns a later step reads are remembered.
Load(h, op, pc) ==
    /\ At(h, "idle")
    /\ handlers' = [handlers EXCEPT ![h] =
                       [Idle EXCEPT !.pc = pc, !.op = op,
                                    !.seen = IF op = "finish" THEN status ELSE @,
                                    !.seenProgress = IF op = "start" THEN progress ELSE @]]

-----------------------------------------------------------------------------
(* Segments and messages (context/segmentation.py) *)

\* get_open_segment: the open segment of a question, 0 when there is none.
OpenSegment(q) ==
    LET open == {i \in DOMAIN segments : segments[i].question = q /\ segments[i].open}
    IN  IF open = {} THEN 0 ELSE CHOOSE i \in open : TRUE

MessagesOf(q) == {i \in DOMAIN messages : messages[i].question = q}

LastOf(q) ==
    IF MessagesOf(q) = {} THEN 0
    ELSE CHOOSE i \in MessagesOf(q) : \A j \in MessagesOf(q) : j <= i

NewSegment(q) == [question |-> q, open |-> TRUE, end |-> 0]

\* Bug: the status is not set on closing.
Bug_NeverCloses(s, q) == [segments EXCEPT ![s].end = LastOf(q)]

Closed(s, q) == [segments EXCEPT ![s].open = FALSE, ![s].end = LastOf(q)]

\* close_current_segment(q, next): one transaction that attaches the loose
\* messages, closes the segment and, when a next question is given, makes sure
\* that one has an open segment.  Without an open segment it returns at once,
\* and then the next question gets no segment either.
CloseSegment(q, next) ==
    LET s == OpenSegment(q)
    IN  IF s = 0 THEN UNCHANGED <<segments, messages>>
        ELSE /\ messages' = [i \in DOMAIN messages |->
                   IF messages[i].question = q /\ messages[i].segment = 0
                   THEN [messages[i] EXCEPT !.segment = s] ELSE messages[i]]
             /\ segments' = IF next = 0 \/ OpenSegment(next) # 0 THEN Closed(s, q)
                            ELSE Append(Closed(s, q), NewSegment(next))

NewMessage(kind, q, s, event, to) ==
    [kind |-> kind, question |-> q, segment |-> s, event |-> event, to |-> to]

-----------------------------------------------------------------------------
(* start_session *)

\* HTTP POST /start, which the page also issues on every load and refetch.
\* INTERVIEWING returns unchanged; other statuses fail ensure_transition.
StartRequest(r) ==
    /\ "start" \in RequestOps
    /\ CanMove(status, "interviewing")
    /\ Load(r, "start", "start")
    /\ UNCHANGED <<rowVars, jobVars, remaining, inFlight>>

\* The write of start_session, from the row as it was loaded.  An attribute set
\* to the value it was loaded with is not written.
Start(h) ==
    /\ At(h, "start")
    /\ status' = "interviewing"
    /\ progress' = IF handlers[h].seenProgress = 1 THEN progress ELSE 1
    /\ IF messages = <<>>
       THEN /\ segments' = Append(segments, NewSegment(1))
            /\ messages' = << NewMessage("main_question", 1, Len(segments) + 1, None, 0) >>
       ELSE UNCHANGED <<segments, messages>>
    /\ IF handlers[h].op = "submit" THEN Goto(h, "acquire") ELSE Return(h)
    /\ UNCHANGED <<context, acked, jobVars, remaining, inFlight>>

-----------------------------------------------------------------------------
(* Pause, resume, finish *)

\* pause_session / resume_session: checked on the loaded status, then written.
\* Over a socket, session.resume only resumes a session it has seen PAUSED.
AskPause(h) ==
    /\ "pause" \in OpsOf(h)
    /\ CanMove(status, "paused")
    /\ Load(h, "pause", "write")
    /\ UNCHANGED <<rowVars, jobVars, remaining, inFlight>>

AskResume(h) ==
    /\ "resume" \in OpsOf(h)
    /\ CanMove(status, "interviewing")
    /\ h \in Sockets => status = "paused"
    /\ Load(h, "resume", "write")
    /\ UNCHANGED <<rowVars, jobVars, remaining, inFlight>>

WriteStatus(h) ==
    /\ At(h, "write")
    /\ status' = IF handlers[h].op = "pause" THEN "paused" ELSE "interviewing"
    /\ Return(h)
    /\ UNCHANGED <<progress, context, messages, segments, acked, jobVars, remaining, inFlight>>

\* finish_session on a COMPLETED session only makes sure the job exists.
AskFinish(h) ==
    /\ "finish" \in OpsOf(h)
    /\ status # "completed"
    /\ Load(h, "finish", "close")
    /\ UNCHANGED <<rowVars, jobVars, remaining, inFlight>>

\* close_current_segment commits on its own, before the status is written.
FinishClose(h) ==
    /\ At(h, "close")
    /\ CloseSegment(context.question, 0)
    /\ Goto(h, "complete")
    /\ UNCHANGED <<status, progress, context, acked, jobVars, remaining, inFlight>>

FinishComplete(h) ==
    /\ At(h, "complete")
    /\ IF CanMove(handlers[h].seen, "completing")
       THEN /\ status' = "completed"
            /\ evaluation' = IF evaluation = "none" THEN "queued" ELSE evaluation
       ELSE UNCHANGED <<status, evaluation>>
    /\ ReleaseAndReturn(h)
    /\ UNCHANGED <<progress, context, messages, segments, acked, evaluated, remaining>>

-----------------------------------------------------------------------------
(* Submitting an answer: user.text.submit and user.answer.commit *)

\* Bug: the lookup by client event id never finds anything.
Bug_ForgetsEvent(e) == {}

Saved(e) == {i \in DOMAIN messages : messages[i].event = e}

\* The page sends a pending answer again, under the same event id, only after
\* it lost its socket (InterviewSocket.open).
MaySend(e) == Faults \/ (Saved(e) = {} /\ \A h \in Handlers : handlers[h].event # e)

\* A submission whose event is already stored is answered with that event and
\* changes nothing, and one that finds a turn in flight gets answer_pending:
\* neither is a step.  A READY session is started first ("start" in SocketOps:
\* the page itself opens its socket after POST /start); otherwise nothing is
\* awaited between find_client_event and in_flight_answers.acquire.
ReceiveAnswer(s) ==
    /\ "submit" \in SocketOps
    /\ At(s, "idle")
    /\ \E e \in {a \in Answers \ acked : MaySend(a)} :
         LET begin(pc) == handlers' = [handlers EXCEPT ![s] =
                              [Idle EXCEPT !.pc = pc, !.op = "submit", !.event = e]]
         IN  \/ /\ status = "ready" /\ "start" \in SocketOps
                /\ begin("start") /\ UNCHANGED inFlight
             \/ /\ status # "ready" /\ ~inFlight
                /\ begin("save") /\ inFlight' = TRUE
    /\ UNCHANGED <<rowVars, jobVars, remaining>>

\* The acquire after start_session, whose commit let other handlers run.
Acquire(s) ==
    /\ At(s, "acquire")
    /\ IF inFlight THEN Return(s) /\ UNCHANGED inFlight
       ELSE Goto(s, "save") /\ inFlight' = TRUE
    /\ UNCHANGED <<rowVars, jobVars, remaining>>

\* Bug: the status is not looked at.
Bug_AcceptsAlways == TRUE

Accepts == status = "interviewing"

\* save_user_answer, under the session row lock: refused unless INTERVIEWING
\* (the AppError closes the socket), and an answer that is already stored is
\* returned instead of being stored again.
SaveAnswer(s) ==
    LET e == handlers[s].event
        seq == Len(messages) + 1
    IN  /\ At(s, "save")
        /\ IF ~Accepts
           THEN ReleaseAndReturn(s) /\ UNCHANGED <<messages, context>>
           ELSE /\ UNCHANGED inFlight
                /\ IF Saved(e) # {}
                   THEN /\ handlers' = [handlers EXCEPT ![s].pc = "ack",
                               ![s].answer = CHOOSE i \in Saved(e) : TRUE]
                        /\ UNCHANGED <<messages, context>>
                   ELSE /\ messages' = Append(messages,
                               NewMessage("answer", context.question,
                                          OpenSegment(context.question), e, 0))
                        /\ context' = [context EXCEPT !.pending = seq]
                        /\ handlers' = [handlers EXCEPT ![s].pc = "ack", ![s].answer = seq]
        /\ UNCHANGED <<status, progress, segments, acked, jobVars, remaining>>

\* append_event(input.ack, client_event_id).
Acknowledge(s) ==
    /\ At(s, "ack")
    /\ acked' = acked \cup {handlers[s].event}
    /\ handlers' = [handlers EXCEPT ![s].pc = "decide", ![s].event = None]
    /\ UNCHANGED <<status, progress, context, messages, segments, jobVars, remaining, inFlight>>

\* turn.retry: refused while a turn runs; without a pending answer it only
\* reports turn_retry_unavailable; otherwise the turn starts over from the
\* saved answer, never from a new submission.
Retry(s) ==
    /\ "retry" \in SocketOps
    /\ At(s, "idle")
    /\ ~inFlight
    /\ context.pending # 0
    /\ inFlight' = TRUE
    /\ handlers' = [handlers EXCEPT ![s] =
           [Idle EXCEPT !.pc = "decide", !.op = "retry", !.answer = context.pending]]
    /\ UNCHANGED <<rowVars, jobVars, remaining>>

-----------------------------------------------------------------------------
(* _generate_turn_from_saved_answer *)

\* Bug: the pending answer is dropped when the decision is stored.
Bug_DropsPending(s, proposal) ==
    /\ At(s, "decide")
    /\ context' = [context EXCEPT !.pending = 0]
    /\ handlers' = [handlers EXCEPT ![s].pc = "prepare",
           ![s].action = Guard(proposal, context.question, context.followUps, remaining)]
    /\ UNCHANGED <<status, progress, messages, segments, acked, jobVars, remaining, inFlight>>

\* decide_turn with a proposal of the controller, or the stable fallback.
Decide(s, proposal) ==
    /\ At(s, "decide")
    /\ handlers' = [handlers EXCEPT ![s].pc = "prepare",
           ![s].action = Guard(proposal, context.question, context.followUps, remaining)]
    /\ UNCHANGED <<rowVars, jobVars, remaining, inFlight>>

DecideTurn(s) ==
    \/ \E p \in Actions : Decide(s, p)
    \/ Decide(s, StableAction(context.question))

\* Bug: prepare_turn trusts the earlier decision.
Bug_NoReguard(s) == handlers[s].action

PreparedAction(s) ==
    Guard(handlers[s].action, context.question, context.followUps, remaining)

SetTurn(s, pc, kind, q) ==
    handlers' = [handlers EXCEPT ![s].pc = pc, ![s].action = "none",
                                 ![s].turn = [question |-> q, kind |-> kind]]

\* prepare_turn guards again.  A follow-up and a finish write nothing here.
PrepareReply(s) ==
    /\ At(s, "prepare")
    /\ \/ PreparedAction(s) = "follow_up"
          /\ SetTurn(s, "reply", "follow_up", context.question)
       \/ PreparedAction(s) = "finish"
          /\ SetTurn(s, "reply", "closing", context.question)
    /\ UNCHANGED <<rowVars, jobVars, remaining, inFlight>>

\* Bug: the current question is put again instead of the next one.
Bug_AsksOldQuestion(s) ==
    /\ At(s, "prepare")
    /\ PreparedAction(s) = "advance"
    /\ CloseSegment(context.question, context.question + 1)
    /\ SetTurn(s, "advance", "main_question", context.question)
    /\ UNCHANGED <<status, progress, context, acked, jobVars, remaining, inFlight>>

\* An advance commits twice: close_current_segment opens the next segment...
PrepareAdvance(s) ==
    /\ At(s, "prepare")
    /\ PreparedAction(s) = "advance"
    /\ CloseSegment(context.question, context.question + 1)
    /\ SetTurn(s, "advance", "main_question", context.question + 1)
    /\ UNCHANGED <<status, progress, context, acked, jobVars, remaining, inFlight>>

\* Bug: the counter is not reset.
Bug_KeepsFollowUps(q) ==
    [context EXCEPT !.completed = Append(@, context.question), !.question = q]

MovedTo(q) ==
    [context EXCEPT !.completed = Append(@, context.question), !.question = q, !.followUps = 0]

\* ...and _advance_to_next_question moves the context and the progress counter.
AdvanceContext(s) ==
    /\ At(s, "advance")
    /\ context' = MovedTo(context.question + 1)
    /\ progress' = context.question + 1
    /\ Goto(s, "reply")
    /\ UNCHANGED <<status, messages, segments, acked, jobVars, remaining, inFlight>>

\* The stream of a follow-up fails, times out or is empty, or its context does
\* not fit: an error event is stored and the answer stays pending.
ProviderFails(s) ==
    /\ Faults
    /\ At(s, "reply")
    /\ handlers[s].turn.kind = "follow_up"
    /\ ReleaseAndReturn(s)
    /\ UNCHANGED <<rowVars, jobVars, remaining>>

\* save_assistant_message reads the open segment and max(sequence) without the
\* session row lock...
ReadTail(h, q, pc) ==
    handlers' = [handlers EXCEPT ![h].pc = pc, ![h].segment = OpenSegment(q),
                                 ![h].tail = Len(messages) + 1]

BeginReply(s) ==
    /\ At(s, "reply")
    /\ ReadTail(s, handlers[s].turn.question, "commit")
    /\ UNCHANGED <<rowVars, jobVars, remaining, inFlight>>

\* Bug: the answer stays pending after its turn was stored.
Bug_KeepsPending(kind) ==
    [context EXCEPT !.followUps = IF kind = "follow_up" THEN @ + 1 ELSE @]

AfterReply(kind) ==
    [context EXCEPT !.pending = 0, !.followUps = IF kind = "follow_up" THEN @ + 1 ELSE @]

\* ...and inserts.  When the sequence was taken meanwhile the unique constraint
\* raises an IntegrityError, which nothing handles: the turn dies, the answer
\* stays pending.
CommitReply(s) ==
    LET h == handlers[s]
    IN  /\ At(s, "commit")
        /\ IF h.tail = Len(messages) + 1
           THEN /\ messages' = Append(messages,
                       NewMessage(h.turn.kind, h.turn.question, h.segment, None, h.answer))
                /\ context' = AfterReply(h.turn.kind)
                /\ handlers' = [handlers EXCEPT ![s].segment = 0, ![s].tail = 0,
                       ![s].answer = 0,
                       ![s].pc = IF h.turn.kind = "closing" THEN "seal" ELSE "publish"]
                /\ UNCHANGED inFlight
           ELSE ReleaseAndReturn(s) /\ UNCHANGED <<messages, context>>
        /\ UNCHANGED <<status, progress, segments, acked, jobVars, remaining>>

\* The closing message is stored before the last segment is closed.
Seal(s) ==
    /\ At(s, "seal")
    /\ CloseSegment(handlers[s].turn.question, 0)
    /\ Goto(s, "publish")
    /\ UNCHANGED <<status, progress, context, acked, jobVars, remaining, inFlight>>

\* append_event(assistant.message) refreshes the session row under its lock; a
\* closing turn then goes on to finish_session with that row.
Publish(s) ==
    /\ At(s, "publish")
    /\ IF handlers[s].turn.kind = "closing" /\ status # "completed"
       THEN /\ handlers' = [handlers EXCEPT ![s].pc = "close", ![s].seen = status]
            /\ UNCHANGED inFlight
       ELSE ReleaseAndReturn(s)
    /\ UNCHANGED <<rowVars, jobVars, remaining>>

-----------------------------------------------------------------------------
(* session.restate *)

\* save_restatement repeats the latest interviewer message of the question; it
\* takes no lock and no in-flight slot.
AskRestate(s) ==
    /\ "restate" \in SocketOps
    /\ status \in {"interviewing", "paused"}
    /\ Cardinality({i \in DOMAIN messages : messages[i].kind = "restatement"}) < MaxRestatements
    /\ Load(s, "restate", "restate")
    /\ UNCHANGED <<rowVars, jobVars, remaining, inFlight>>

BeginRestate(s) ==
    /\ At(s, "restate")
    /\ handlers' = [handlers EXCEPT ![s].pc = "restated",
           ![s].turn = [question |-> context.question, kind |-> "restatement"],
           ![s].segment = OpenSegment(context.question),
           ![s].tail = Len(messages) + 1]
    /\ UNCHANGED <<rowVars, jobVars, remaining, inFlight>>

CommitRestate(s) ==
    LET h == handlers[s]
    IN  /\ At(s, "restated")
        /\ messages' = IF h.tail = Len(messages) + 1
                       THEN Append(messages, NewMessage("restatement", h.turn.question,
                                                        h.segment, None, 0))
                       ELSE messages
        /\ Return(s)
        /\ UNCHANGED <<status, progress, context, segments, acked, jobVars, remaining, inFlight>>

-----------------------------------------------------------------------------
(* The evaluation worker, as far as it touches the session row *)

\* handle_evaluate_interview marks the session, then reads its transcript.
BeginEvaluation ==
    /\ evaluation = "queued"
    /\ status \in {"completed", "evaluating"}
    /\ status' = "evaluating"
    /\ evaluation' = "running"
    /\ evaluated' = Len(messages)
    /\ UNCHANGED <<progress, context, messages, segments, acked, remaining, inFlight, handlers>>

\* _persist_draft and mark_report_failed both leave the session COMPLETED.
EndEvaluation ==
    /\ evaluation = "running"
    /\ evaluation' = "done"
    /\ status' = "completed"
    /\ UNCHANGED <<progress, context, messages, segments, acked, evaluated, remaining,
                   inFlight, handlers>>

-----------------------------------------------------------------------------
(* The environment *)

\* A send on a lost socket raises in the handler: after the acknowledgement and
\* between the stages of a turn (turn.status, assistant.delta, the reply).
SendPcs == {"decide", "prepare", "reply", "close"}

Drop(s) ==
    /\ Faults
    /\ Generating(s)
    /\ handlers[s].pc \in SendPcs
    /\ ReleaseAndReturn(s)
    /\ UNCHANGED <<rowVars, jobVars, remaining>>

\* The server process stops between any two commits and is started again.
Crash ==
    /\ Faults
    /\ inFlight' = FALSE
    /\ handlers' = [h \in Handlers |-> Idle]
    /\ handlers' # handlers
    /\ UNCHANGED <<rowVars, jobVars, remaining>>

Tick ==
    /\ status # "ready"
    /\ \E t \in TimePoints : t < remaining /\ remaining' = t
    /\ UNCHANGED <<rowVars, jobVars, inFlight, handlers>>

-----------------------------------------------------------------------------

\* What a handler does once it has been given something to do.
HandlerStep(h) ==
    \/ Start(h)
    \/ Acquire(h)
    \/ SaveAnswer(h)
    \/ Acknowledge(h)
    \/ DecideTurn(h)
    \/ PrepareReply(h)
    \/ PrepareAdvance(h)
    \/ AdvanceContext(h)
    \/ BeginReply(h)
    \/ CommitReply(h)
    \/ Seal(h)
    \/ Publish(h)
    \/ BeginRestate(h)
    \/ CommitRestate(h)
    \/ WriteStatus(h)
    \/ FinishClose(h)
    \/ FinishComplete(h)

ClientAsks ==
    \/ \E s \in Sockets :
         \/ ReceiveAnswer(s)
         \/ Retry(s)
         \/ AskRestate(s)
    \/ \E r \in Requests : StartRequest(r)
    \/ \E h \in Handlers :
         \/ AskPause(h)
         \/ AskResume(h)
         \/ AskFinish(h)

Next ==
    \/ ClientAsks
    \/ \E h \in Handlers : HandlerStep(h)
    \/ \E s \in Sockets : ProviderFails(s) \/ Drop(s)
    \/ BeginEvaluation
    \/ EndEvaluation
    \/ Crash
    \/ Tick

Spec == Init /\ [][Next]_vars

-----------------------------------------------------------------------------
(***************************************************************************)
(* Properties                                                              *)
(***************************************************************************)

\* The registry admits one turn at a time and never leaks a slot: it holds the
\* session exactly while one handler is inside a turn.
OneTurnAtATime ==
    /\ \A g, h \in Handlers : Generating(g) /\ Generating(h) => g = h
    /\ inFlight <=> \E h \in Handlers : Generating(h)

\* An answer is stored at most once however often it is resent, and one that
\* has been acknowledged is stored: resubmission neither loses nor repeats it.
AnswersStoredOnce ==
    \A e \in Answers :
        LET rows == {i \in DOMAIN messages : messages[i].event = e}
        IN  /\ Cardinality(rows) <= 1
            /\ e \in acked => rows # {}

\* The last message that is not a restatement.
Exchange == {i \in DOMAIN messages : messages[i].kind # "restatement"}
LastExchanged(i) == i \in Exchange /\ \A j \in Exchange : j <= i

\* Whatever was lost on the way, a conversation that ends with the candidate's
\* answer can be taken up again: turn.retry finds exactly that answer.
StalledTurnIsRetryable ==
    \A i \in DOMAIN messages :
        LastExchanged(i) /\ messages[i].kind = "answer" => context.pending = i

FollowUpsOf(q) == {i \in DOMAIN messages : messages[i].kind = "follow_up" /\ messages[i].question = q}

\* The rows keep their types, and the context row tells what the transcript shows:
\* it walks the plan one question
\* at a time, its counter is the number of follow-ups there are, and no question
\* gets more than its budget, across retries, crashes and concurrent sockets.
ContextMatchesTranscript ==
    /\ TypeOK
    /\ context.completed = [i \in 1..(context.question - 1) |-> i]
    /\ context.followUps = Cardinality(FollowUpsOf(context.question))
    /\ \A q \in Questions : Cardinality(FollowUpsOf(q)) <= FollowUpBudget[q]

\* At most one segment is open, and it belongs to the current question or, after
\* a crash between the two commits of an advance, to the one after it.
OneOpenSegment ==
    \A i \in DOMAIN segments : segments[i].open =>
        /\ \A j \in DOMAIN segments : segments[j].open => i = j
        /\ segments[i].question \in {context.question, context.question + 1}

\* Provider failures are retried without repeating the interviewer: what waits for
\* a retry, and what one is working on, has no reply yet, over lost sockets,
\* crashes, two tabs that retry, and answers sent again.  (An answer sent again
\* whose acknowledgement was lost may be replied to once more: that turn belongs
\* to a submission.)
Replied(n) == \E i \in DOMAIN messages : messages[i].to = n

RetriesRepeatNothing ==
    /\ context.pending # 0 => ~Replied(context.pending)
    /\ \A h \in Handlers :
         handlers[h].op = "retry"
         /\ handlers[h].pc \in {"decide", "prepare", "advance", "reply", "commit"}
             => ~Replied(handlers[h].answer)

(***************************************************************************)
(* What holds as long as nothing fails and nobody else changes the status. *)
(***************************************************************************)

\* The conversation about a question begins with the question: none is recorded
\* as completed, followed up or closed without having been put to the candidate.
Asked(q, bound) ==
    \E j \in 1..bound : messages[j].kind = "main_question" /\ messages[j].question = q

QuestionsAreAsked ==
    /\ \A q \in 1..(context.question - 1) : Asked(q, Len(messages))
    /\ \A i \in DOMAIN messages :
         messages[i].kind \in {"follow_up", "closing"} => Asked(messages[i].question, i - 1)

Settled == status = "completed" /\ \A h \in Handlers : At(h, "idle")

\* The record of an interview that its own closing turn has finished is complete
\* and sealed: nothing is added once the evaluation has read it, and when it is
\* over every message lies inside a closed segment.
RecordIsComplete ==
    /\ evaluated # 0 => evaluated = Len(messages)
    /\ Settled => \A i \in DOMAIN messages :
         LET s == messages[i].segment
         IN  s # 0 /\ ~segments[s].open /\ i <= segments[s].end
=============================================================================
