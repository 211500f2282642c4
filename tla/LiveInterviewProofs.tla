------------------------- MODULE LiveInterviewProofs -------------------------
(***************************************************************************)
(* What is proved about the live interview, for any plan and any number of *)
(* sockets, requests, answers and restatements, with lost sockets, failing *)
(* providers and crashes wherever the model has them.                      *)
(*                                                                         *)
(* The invariant is built in layers, each proved on top of the ones before:*)
(*                                                                         *)
(*   ControlInv   what each program counter says of its handler, and that  *)
(*                the in-flight registry holds exactly the one turn        *)
(*   AnswersInv   an answer is stored before anything acknowledges it      *)
(*   ContextInv   the context row against the transcript, and the turn in  *)
(*                preparation against the context row: only the holder of  *)
(*                the registry moves either                                *)
(*   SegmentsInv  which segment may be open, and that no conversation is   *)
(*                about to be continued that was not begun                 *)
(*   RepliesInv   what a retry works on, or waits for one, has no reply    *)
(*   QuestionsInv the current question was put, or is being put            *)
(*   EndInv       the closing message is the last, and only the end of its *)
(*                own turn is left to be done                              *)
(*   RecordInv    every message lies in a segment of its question, and the *)
(*                one for the next message is open until that end          *)
(*   FlowInv      the context row stands where the last turn of the        *)
(*                transcript left it, or one question ahead                *)
(*                                                                         *)
(* StalledTurnIsRetryable is inductive on top of ContextInv.  The last four*)
(* layers suppose that nothing fails, and say what that means.  With them  *)
(* every step of the server is a step of InterviewFlow, or none.           *)
(***************************************************************************)
EXTENDS LiveInterviewFlow, SequenceTheorems, FiniteSetTheorems, WellFoundedInduction, TLAPS

\* A set of numbers up to n has a greatest one.
LEMMA MaximumExists ==
    ASSUME NEW n \in Nat, NEW S \in SUBSET (1..n), S # {}
    PROVE  \E i \in S : \A j \in S : j <= i
  <1> DEFINE T == {n - i : i \in S}
  <1>1. T \subseteq Nat /\ T # {}
    <2>1. \A i \in S : i \in Nat /\ n - i \in Nat
      OBVIOUS
    <2> QED
      BY <2>1
  <1>2. PICK x \in T : \A y \in T : ~ (<<y, x>> \in OpToRel(<, Nat))
    <2> HIDE DEF T
    <2> QED BY <1>1, NatLessThanWellFounded, WFMin
  <1>3. \A y \in T : ~ (y < x)
    BY <1>1, <1>2 DEF OpToRel
  <1>4. PICK i \in S : x = n - i
    OBVIOUS
  <1>5. ASSUME NEW j \in S PROVE j <= i
    <2>1. n - j \in T
      OBVIOUS
    <2> QED
      BY SMTT(60), <1>3, <1>4, <2>1
  <1> QED
    BY <1>5

\* The last message of a question, or 0, is well defined.
LEMMA LastOfType ==
    ASSUME messages \in Seq(Message), NEW q
    PROVE  LastOf(q) \in Nat
  <1>1. MessagesOf(q) \in SUBSET (1..Len(messages)) /\ Len(messages) \in Nat
    BY DEF MessagesOf
  <1>2. CASE MessagesOf(q) = {}
    BY <1>2 DEF LastOf
  <1>3. CASE MessagesOf(q) # {}
    <2>1. \E i \in MessagesOf(q) : \A j \in MessagesOf(q) : j <= i
      BY <1>1, <1>3, MaximumExists
    <2>2. LastOf(q) \in MessagesOf(q)
      BY <1>3, <2>1 DEF LastOf
    <2> QED
      BY <1>1, <2>2
  <1> QED
    BY <1>2, <1>3

\* get_open_segment finds an open segment of the question if there is one.
LEMMA OpenSegmentFound ==
    ASSUME segments \in Seq(Segment), NEW q
    PROVE  /\ OpenSegment(q) \in Nat
           /\ OpenSegment(q) # 0 =>
                /\ OpenSegment(q) \in DOMAIN segments
                /\ segments[OpenSegment(q)].question = q
                /\ segments[OpenSegment(q)].open
           /\ OpenSegment(q) = 0 =>
                \A i \in DOMAIN segments : ~(segments[i].question = q /\ segments[i].open)
  <1> DEFINE open == {i \in DOMAIN segments : segments[i].question = q /\ segments[i].open}
  <1>0. DOMAIN segments = 1..Len(segments) /\ Len(segments) \in Nat
    OBVIOUS
  <1>1. CASE open = {}
    BY <1>1 DEF OpenSegment
  <1>2. CASE open # {}
    <2>1. OpenSegment(q) \in open
      BY <1>2 DEF OpenSegment
    <2> QED
      BY <1>0, <2>1
  <1> QED
    BY <1>1, <1>2

\* What the program counter of a handler says of what it was asked and has loaded.
HandlerOK(h) ==
    LET s == handlers[h]
    IN  /\ s.pc = "start" => s.op \in {"start", "submit"}
        /\ s.pc = "acquire" => s.op = "submit"
        /\ s.pc \in TurnPcs => s.op \in {"submit", "retry"}
        /\ s.pc \in {"restate", "restated", "write"} => ~ s.op \in {"submit", "retry"}
        /\ s.pc \in {"save", "ack"} => s.op = "submit"
        /\ s.op = "submit" /\ s.pc \in {"start", "acquire", "save", "ack"} => s.event \in Answers
        /\ s.pc = "prepare" => s.action \in Actions
        /\ s.pc = "advance" => HasNext(context.question)

\* The rows and handlers keep their types, one turn at a time.
ControlInv ==
    /\ TypeOK
    /\ OneTurnAtATime
    /\ \A h \in Handlers : HandlerOK(h)

-----------------------------------------------------------------------------
(* The moves of a handler *)

\* Nobody but h moves.
Moved(h) ==
    /\ handlers' \in [Handlers -> Handler]
    /\ \A g \in Handlers : g # h => handlers'[g] = handlers[g]

LEMMA IdleType == Idle \in Handler
  BY PlanAssumption DEF Idle, Handler, Pcs, TurnPcs, Statuses, Actions, Turn, Kinds, Questions

LEMMA ReturnMoves ==
    ASSUME handlers \in [Handlers -> Handler], NEW h \in Handlers, Return(h)
    PROVE  Moved(h) /\ handlers'[h] = Idle /\ HandlerOK(h)' /\ ~Generating(h)'
  <1>1. Moved(h) /\ handlers'[h] = Idle
    BY IdleType DEF Return, Moved
  <1> QED
    BY <1>1 DEF HandlerOK, Idle, TurnPcs, Generating

LEMMA GotoMoves ==
    ASSUME handlers \in [Handlers -> Handler], NEW h \in Handlers, NEW pc \in Pcs, Goto(h, pc)
    PROVE  Moved(h) /\ handlers'[h] = [handlers[h] EXCEPT !.pc = pc]
  <1>1. [handlers[h] EXCEPT !.pc = pc] \in Handler
    BY DEF Handler
  <1> QED
    BY <1>1 DEF Goto, Moved

\* The three ways in which a step may treat the registry.
LEMMA RegistryKept ==
    ASSUME OneTurnAtATime, NEW h \in Handlers, Moved(h),
           Generating(h)' <=> Generating(h), UNCHANGED inFlight
    PROVE  OneTurnAtATime'
  BY DEF OneTurnAtATime, Moved, Generating

LEMMA RegistryTaken ==
    ASSUME OneTurnAtATime, NEW h \in Handlers, Moved(h),
           ~inFlight, inFlight' = TRUE, Generating(h)'
    PROVE  OneTurnAtATime'
  BY DEF OneTurnAtATime, Moved, Generating

LEMMA RegistryReleased ==
    ASSUME OneTurnAtATime, handlers \in [Handlers -> Handler], inFlight \in BOOLEAN,
           NEW h \in Handlers, ReleaseAndReturn(h)
    PROVE  Moved(h) /\ handlers'[h] = Idle /\ HandlerOK(h)' /\ OneTurnAtATime'
  <1>1. Moved(h) /\ handlers'[h] = Idle /\ HandlerOK(h)' /\ ~Generating(h)'
    BY ReturnMoves DEF ReleaseAndReturn
  <1>2. \A g \in Handlers : g # h => (Generating(g)' <=> Generating(g))
    BY <1>1 DEF Moved, Generating
  <1>3. inFlight' <=> inFlight /\ ~Generating(h)
    BY DEF ReleaseAndReturn
  <1> QED
    BY <1>1, <1>2, <1>3, Zenon DEF OneTurnAtATime

\* What a step of handler h does to the handlers and the registry.
ControlStep(h) ==
    /\ Moved(h)
    /\ OneTurnAtATime'
    /\ HandlerOK(h)'

Leaves(h) == Return(h) /\ ~Generating(h) /\ UNCHANGED inFlight

LEMMA ControlTypes ==
    ASSUME ControlInv, NEW h \in Handlers
    PROVE  /\ handlers \in [Handlers -> Handler]
           /\ handlers[h] \in Handler
           /\ inFlight \in BOOLEAN
           /\ OneTurnAtATime
           /\ HandlerOK(h)
  BY DEF ControlInv, TypeOK

LEMMA ReleasesControl ==
    ASSUME ControlInv, NEW h \in Handlers, ReleaseAndReturn(h)
    PROVE  ControlStep(h)
  BY ControlTypes, RegistryReleased DEF ControlStep

LEMMA LeavesControl ==
    ASSUME ControlInv, NEW h \in Handlers, Leaves(h)
    PROVE  ControlStep(h)
  <1>1. Moved(h) /\ HandlerOK(h)' /\ ~Generating(h)'
    BY ControlTypes, ReturnMoves DEF Leaves
  <1> QED
    BY <1>1, ControlTypes, RegistryKept DEF Leaves, ControlStep

\* A step inside a turn, or inside finish_session.
LEMMA StaysInside ==
    ASSUME ControlInv, NEW h \in Handlers, NEW r \in Handler,
           handlers' = [handlers EXCEPT ![h] = r], UNCHANGED inFlight,
           r.op = handlers[h].op,
           ~ handlers[h].pc \in {"idle", "start", "acquire"},
           r.pc \in TurnPcs \cup {"close", "complete"},
           r.pc \in TurnPcs => handlers[h].pc \in TurnPcs,
           r.pc # "save",
           r.pc = "ack" => handlers[h].pc = "save" /\ r.event = handlers[h].event,
           r.pc = "prepare" => r.action \in Actions,
           r.pc = "advance" => HasNext(context'.question)
    PROVE  ControlStep(h)
  <1>1. Moved(h) /\ handlers'[h] = r
    BY ControlTypes DEF Moved
  <1>2. HandlerOK(h)'
    BY <1>1, ControlTypes DEF HandlerOK, TurnPcs
  <1>3. Generating(h)' <=> Generating(h)
    BY <1>1 DEF Generating, TurnPcs
  <1> QED
    BY <1>1, <1>2, <1>3, ControlTypes, RegistryKept DEF ControlStep

\* A step of a handler that has nothing to do with turns.
LEMMA StaysOutside ==
    ASSUME ControlInv, NEW h \in Handlers, NEW r \in Handler,
           handlers' = [handlers EXCEPT ![h] = r], UNCHANGED inFlight,
           ~Generating(h),
           r.op = "submit" => r.event \in Answers,
           \/ r.pc = "start" /\ r.op \in {"start", "submit"}
           \/ r.pc = "acquire" /\ r.op = "submit"
           \/ /\ r.pc \in {"restate", "restated", "write", "close"}
              /\ ~ r.op \in {"submit", "retry"}
    PROVE  ControlStep(h)
  <1>1. Moved(h) /\ handlers'[h] = r
    BY ControlTypes DEF Moved
  <1>2. HandlerOK(h)' /\ ~Generating(h)'
    BY <1>1, ControlTypes DEF HandlerOK, TurnPcs, Generating
  <1> QED
    BY <1>1, <1>2, ControlTypes, RegistryKept DEF ControlStep

LEMMA EntersTurn ==
    ASSUME ControlInv, NEW h \in Handlers, NEW r \in Handler,
           handlers' = [handlers EXCEPT ![h] = r], ~inFlight, inFlight' = TRUE,
           \/ r.op = "submit" /\ r.event \in Answers /\ r.pc = "save"
           \/ r.op = "retry" /\ r.pc = "decide"
    PROVE  ControlStep(h)
  <1>1. Moved(h) /\ handlers'[h] = r
    BY ControlTypes DEF Moved
  <1>2. HandlerOK(h)' /\ Generating(h)'
    BY <1>1 DEF HandlerOK, Generating
  <1> QED
    BY <1>1, <1>2, ControlTypes, RegistryTaken DEF ControlStep

LEMMA GotoRecord ==
    ASSUME NEW h \in Handlers, handlers[h] \in Handler, NEW pc \in Pcs, Goto(h, pc)
    PROVE  \E r \in Handler : /\ r = [handlers[h] EXCEPT !.pc = pc]
                              /\ r.pc = pc /\ r.op = handlers[h].op
                              /\ r.event = handlers[h].event
                              /\ handlers' = [handlers EXCEPT ![h] = r]
  <1>1. [handlers[h] EXCEPT !.pc = pc] \in Handler
    BY DEF Handler
  <1> QED
    BY <1>1 DEF Goto, Handler

LEMMA PcNames ==
    /\ TurnPcs \subseteq Pcs
    /\ {"idle", "start", "acquire", "restate", "restated", "write", "close", "complete"} \subseteq Pcs
    /\ {"save", "ack", "decide", "prepare", "advance", "reply", "commit", "seal", "publish"} \subseteq TurnPcs
    /\ {"save", "ack", "decide", "prepare", "advance", "reply", "commit", "seal", "publish"} \subseteq Pcs
  BY DEF TurnPcs, Pcs

\* Load: a handler of any operation but a turn.
LEMMA LoadControl ==
    ASSUME ControlInv, NEW h \in Handlers, NEW op, NEW pc, Load(h, op, pc), UNCHANGED inFlight,
           \/ op = "start" /\ pc = "start"
           \/ op = "restate" /\ pc = "restate"
           \/ op \in {"pause", "resume"} /\ pc = "write"
           \/ op = "finish" /\ pc = "close"
    PROVE  ControlStep(h)
  <1> DEFINE r == [Idle EXCEPT !.pc = pc, !.op = op,
                               !.seen = IF op = "finish" THEN status ELSE @,
                               !.seenProgress = IF op = "start" THEN progress ELSE @]
  <1>1. status \in Statuses /\ progress \in Nat
    BY PlanAssumption DEF ControlInv, TypeOK
  <1>2. pc \in Pcs /\ op \in {"none", "submit", "retry", "restate", "pause", "resume", "finish", "start"}
    BY PcNames
  <1>3. r \in Handler /\ r.pc = pc /\ r.op = op
    BY <1>1, <1>2, IdleType DEF Handler
  <1>4. ~Generating(h)
    BY DEF Load, At, Generating
  <1>5. handlers' = [handlers EXCEPT ![h] = r]
    BY DEF Load
  <1> QED
    BY <1>3, <1>4, <1>5, StaysOutside

-----------------------------------------------------------------------------
(* Who holds the registry: one step per action *)

LEMMA AsksControl ==
    ASSUME ControlInv, NEW h \in Handlers,
           \/ h \in Requests /\ StartRequest(h)
           \/ AskPause(h) \/ AskResume(h) \/ AskFinish(h)
           \/ h \in Sockets /\ AskRestate(h)
    PROVE  ControlStep(h)
  BY LoadControl DEF StartRequest, AskPause, AskResume, AskFinish, AskRestate

LEMMA StartControl ==
    ASSUME ControlInv, NEW h \in Handlers, Start(h) PROVE ControlStep(h)
  <1>1. ~Generating(h) /\ UNCHANGED inFlight
    BY DEF Start, At, Generating
  <1>2. CASE handlers[h].op = "submit"
    <2>1. Goto(h, "acquire")
      BY <1>2 DEF Start
    <2>2. PICK r \in Handler : /\ r.pc = "acquire" /\ r.op = handlers[h].op
                               /\ r.event = handlers[h].event
                               /\ handlers' = [handlers EXCEPT ![h] = r]
      BY <2>1, ControlTypes, PcNames, GotoRecord
    <2>3. r.event \in Answers
      BY <1>2, <2>2, ControlTypes DEF Start, At, HandlerOK
    <2> QED
      BY <1>1, <1>2, <2>2, <2>3, StaysOutside
  <1>3. CASE handlers[h].op # "submit"
    BY <1>1, <1>3, LeavesControl DEF Start, Leaves
  <1> QED
    BY <1>2, <1>3

LEMMA ReceiveControl ==
    ASSUME ControlInv, NEW h \in Sockets, ReceiveAnswer(h) PROVE ControlStep(h)
  <1>1. h \in Handlers /\ ~Generating(h)
    BY DEF Handlers, ReceiveAnswer, At, Generating
  <1>2. PICK e \in Answers :
           \/ /\ handlers' = [handlers EXCEPT ![h] =
                                [Idle EXCEPT !.pc = "start", !.op = "submit", !.event = e]]
              /\ UNCHANGED inFlight
           \/ /\ handlers' = [handlers EXCEPT ![h] =
                                [Idle EXCEPT !.pc = "save", !.op = "submit", !.event = e]]
              /\ ~inFlight /\ inFlight' = TRUE
    BY DEF ReceiveAnswer
  <1>3. ASSUME NEW pc \in {"start", "save"}
        PROVE  /\ [Idle EXCEPT !.pc = pc, !.op = "submit", !.event = e] \in Handler
               /\ [Idle EXCEPT !.pc = pc, !.op = "submit", !.event = e].pc = pc
               /\ [Idle EXCEPT !.pc = pc, !.op = "submit", !.event = e].op = "submit"
               /\ [Idle EXCEPT !.pc = pc, !.op = "submit", !.event = e].event = e
    <2>1. pc \in Pcs
      BY PcNames
    <2> QED
      BY <2>1, IdleType DEF Handler
  <1> QED
    BY <1>1, <1>2, <1>3, StaysOutside, EntersTurn

LEMMA AcquireControl ==
    ASSUME ControlInv, NEW h \in Handlers, Acquire(h) PROVE ControlStep(h)
  <1>1. ~Generating(h) /\ handlers[h].op = "submit"
    BY ControlTypes DEF Acquire, At, Generating, HandlerOK
  <1>2. CASE inFlight
    BY <1>1, <1>2, LeavesControl DEF Acquire, Leaves
  <1>3. CASE ~inFlight
    <2>1. Goto(h, "save") /\ inFlight' = TRUE
      BY <1>3 DEF Acquire
    <2>2. PICK r \in Handler : /\ r.pc = "save" /\ r.op = handlers[h].op
                               /\ r.event = handlers[h].event
                               /\ handlers' = [handlers EXCEPT ![h] = r]
      BY <2>1, ControlTypes, PcNames, GotoRecord
    <2>3. r.event \in Answers
      BY <1>1, <2>2, ControlTypes DEF Acquire, At, HandlerOK
    <2> QED
      BY <1>1, <1>3, <2>1, <2>2, <2>3, EntersTurn
  <1> QED
    BY <1>2, <1>3

LEMMA RetryControl ==
    ASSUME ControlInv, NEW h \in Sockets, Retry(h) PROVE ControlStep(h)
  <1> DEFINE r == [Idle EXCEPT !.pc = "decide", !.op = "retry", !.answer = context.pending]
  <1>1. context.pending \in Nat
    BY DEF ControlInv, TypeOK
  <1>2. r \in Handler /\ r.op = "retry" /\ r.pc = "decide"
    BY <1>1, PcNames, IdleType DEF Handler
  <1>3. h \in Handlers /\ ~inFlight /\ inFlight' = TRUE /\ handlers' = [handlers EXCEPT ![h] = r]
    BY DEF Retry, Handlers
  <1> QED
    BY <1>2, <1>3, EntersTurn

LEMMA SavedType ==
    ASSUME messages \in Seq(Message), NEW e
    PROVE  Saved(e) \subseteq 1..Len(messages) /\ Len(messages) \in Nat
  BY DEF Saved

LEMMA SaveAnswerControl ==
    ASSUME ControlInv, NEW h \in Handlers, SaveAnswer(h) PROVE ControlStep(h)
  <1>1. CASE ~Accepts
    BY <1>1, ReleasesControl DEF SaveAnswer
  <1>2. CASE Accepts
    <2>1. messages \in Seq(Message)
      BY DEF ControlInv, TypeOK
    <2>2. PICK n \in Nat : handlers' = [handlers EXCEPT ![h] =
                                          [handlers[h] EXCEPT !.pc = "ack", !.answer = n]]
      <3>1. CASE Saved(handlers[h].event) # {}
        <4>1. (CHOOSE i \in Saved(handlers[h].event) : TRUE) \in Nat
          BY <2>1, <3>1, SavedType
        <4> QED
          BY <1>2, <3>1, <4>1, ControlTypes DEF SaveAnswer, Handler
      <3>2. CASE Saved(handlers[h].event) = {}
        <4>1. Len(messages) + 1 \in Nat
          BY <2>1
        <4>2. handlers' = [handlers EXCEPT ![h].pc = "ack", ![h].answer = Len(messages) + 1]
          BY <1>2, <3>2 DEF SaveAnswer
        <4> QED
          BY <4>1, <4>2, ControlTypes DEF Handler
      <3> QED
        BY <3>1, <3>2
    <2>3. [handlers[h] EXCEPT !.pc = "ack", !.answer = n] \in Handler
      BY ControlTypes, PcNames DEF Handler
    <2>4. handlers[h].pc = "save" /\ UNCHANGED inFlight
      BY <1>2 DEF SaveAnswer, At
    <2> QED
      BY ZenonT(60), <2>2, <2>3, <2>4, ControlTypes, PcNames, StaysInside DEF Handler
  <1> QED
    BY <1>1, <1>2

LEMMA AcknowledgeControl ==
    ASSUME ControlInv, NEW h \in Handlers, Acknowledge(h) PROVE ControlStep(h)
  <1> DEFINE r == [handlers[h] EXCEPT !.pc = "decide", !.event = None]
  <1>1. r \in Handler /\ r.op = handlers[h].op /\ r.pc = "decide"
    BY ZenonT(60), ControlTypes, PcNames DEF Handler
  <1>2. handlers' = [handlers EXCEPT ![h] = r]
    BY ControlTypes DEF Acknowledge, Handler
  <1> QED
    BY <1>1, <1>2, PcNames, StaysInside DEF Acknowledge, At

\* The policy answers with an action, whatever the plan and the clock.
LEMMA GuardType ==
    ASSUME NEW a \in Actions, NEW q \in Questions, NEW i \in Nat, NEW r \in Nat
    PROVE  /\ Guard(a, q, i, r) \in Actions
           /\ Guard(a, q, i, r) = "follow_up" => i < FollowUpBudget[q]
           /\ Guard(a, q, i, r) = "advance" => HasNext(q)
  BY DEF Guard, Actions, CanFollowUp, CanAdvance, MustCover

LEMMA PolicyInputs ==
    ASSUME ControlInv
    PROVE  context.question \in Questions /\ context.followUps \in Nat /\ remaining \in Nat
  BY InstanceAssumption DEF ControlInv, TypeOK

LEMMA DecideControl ==
    ASSUME ControlInv, NEW h \in Handlers, DecideTurn(h) PROVE ControlStep(h)
  <1>1. PICK p \in Actions : Decide(h, p)
    <2>1. StableAction(context.question) \in Actions
      BY DEF StableAction, Actions
    <2> QED
      BY <2>1 DEF DecideTurn
  <1> DEFINE a == Guard(p, context.question, context.followUps, remaining)
             r == [handlers[h] EXCEPT !.pc = "prepare", !.action = a]
  <1>2. a \in Actions
    BY PolicyInputs, GuardType
  <1> HIDE DEF a
  <1>3. r \in Handler /\ r.op = handlers[h].op /\ r.pc = "prepare" /\ r.action = a
    BY <1>2, ControlTypes, PcNames DEF Handler
  <1>4. handlers' = [handlers EXCEPT ![h] = r]
    BY <1>1, ControlTypes DEF Decide, Handler, a
  <1> QED
    BY <1>1, <1>2, <1>3, <1>4, PcNames, StaysInside DEF Decide, At

\* prepare_turn admits a follow-up and an advance only while the policy does.
LEMMA PreparedGuard ==
    ASSUME ControlInv, NEW h \in Handlers, At(h, "prepare")
    PROVE  /\ PreparedAction(h) \in Actions
           /\ PreparedAction(h) = "follow_up" =>
                context.followUps < FollowUpBudget[context.question]
           /\ PreparedAction(h) = "advance" => HasNext(context.question)
  <1>1. handlers[h].action \in Actions
    BY ControlTypes DEF At, HandlerOK
  <1> QED
    BY <1>1, PolicyInputs, GuardType DEF PreparedAction

LEMMA NextQuestion ==
    ASSUME NEW q \in Questions, HasNext(q)
    PROVE  q + 1 \in Questions
  BY PlanAssumption DEF HasNext, Questions

LEMMA SetTurnRecord ==
    ASSUME NEW h \in Handlers, handlers \in [Handlers -> Handler], NEW pc \in Pcs,
           NEW kind \in Kinds, NEW q \in Questions, SetTurn(h, pc, kind, q)
    PROVE  \E r \in Handler : /\ r.pc = pc /\ r.op = handlers[h].op
                              /\ r.turn = [question |-> q, kind |-> kind]
                              /\ handlers' = [handlers EXCEPT ![h] = r]
  <1> DEFINE t == [question |-> q, kind |-> kind]
             r == [handlers[h] EXCEPT !.pc = pc, !.action = "none", !.turn = t]
  <1>1. t \in Turn
    BY DEF Turn
  <1> HIDE DEF t
  <1>2. r \in Handler /\ r.pc = pc /\ r.op = handlers[h].op /\ r.turn = t
    BY ZenonT(60), <1>1 DEF Handler
  <1>3. handlers' = [handlers EXCEPT ![h] = r]
    BY DEF SetTurn, Handler, t
  <1> QED
    BY <1>2, <1>3 DEF t

LEMMA PrepareReplyControl ==
    ASSUME ControlInv, NEW h \in Handlers, PrepareReply(h) PROVE ControlStep(h)
  <1>1. PICK kind \in {"follow_up", "closing"} : SetTurn(h, "reply", kind, context.question)
    BY DEF PrepareReply
  <1>2. kind \in Kinds
    BY DEF Kinds
  <1>3. PICK r \in Handler : /\ r.pc = "reply" /\ r.op = handlers[h].op
                             /\ handlers' = [handlers EXCEPT ![h] = r]
    BY <1>1, <1>2, ControlTypes, PolicyInputs, PcNames, SetTurnRecord
  <1> QED
    BY <1>3, PcNames, StaysInside DEF PrepareReply, At

LEMMA PrepareAdvanceControl ==
    ASSUME ControlInv, NEW h \in Handlers, PrepareAdvance(h) PROVE ControlStep(h)
  <1> DEFINE q == context.question + 1
  <1>1. HasNext(context.question) /\ q \in Questions
    BY PreparedGuard, PolicyInputs, NextQuestion DEF PrepareAdvance
  <1>2. "main_question" \in Kinds /\ SetTurn(h, "advance", "main_question", q)
    BY DEF PrepareAdvance, Kinds
  <1> HIDE DEF q
  <1>3. PICK r \in Handler : /\ r.pc = "advance" /\ r.op = handlers[h].op
                             /\ handlers' = [handlers EXCEPT ![h] = r]
    BY ZenonT(60), <1>1, <1>2, ControlTypes, PcNames, SetTurnRecord
  <1> QED
    BY <1>1, <1>3, PcNames, StaysInside DEF PrepareAdvance, At

LEMMA GotoControl ==
    ASSUME ControlInv, NEW h \in Handlers,
           AdvanceContext(h) \/ Seal(h) \/ FinishClose(h)
    PROVE  ControlStep(h)
  <1>1. PICK pc \in {"reply", "publish", "complete"} :
          /\ Goto(h, pc) /\ UNCHANGED inFlight
          /\ handlers[h].pc = "close" => pc = "complete"
          /\ handlers[h].pc \in {"advance", "seal", "close"}
    BY DEF AdvanceContext, Seal, FinishClose, At
  <1>2. PICK r \in Handler : /\ r.pc = pc /\ r.op = handlers[h].op
                             /\ handlers' = [handlers EXCEPT ![h] = r]
    BY <1>1, ControlTypes, PcNames, GotoRecord
  <1>3. r.pc \in TurnPcs => handlers[h].pc \in TurnPcs
    BY <1>1, <1>2, PcNames DEF TurnPcs
  <1> QED
    BY <1>1, <1>2, <1>3, PcNames, StaysInside

LEMMA BeginReplyControl ==
    ASSUME ControlInv, NEW h \in Handlers, BeginReply(h) PROVE ControlStep(h)
  <1> DEFINE s == OpenSegment(handlers[h].turn.question)
             n == Len(messages) + 1
             r == [handlers[h] EXCEPT !.pc = "commit", !.segment = s, !.tail = n]
  <1>1. s \in Nat /\ n \in Nat
    BY OpenSegmentFound DEF ControlInv, TypeOK
  <1> HIDE DEF s, n
  <1>2. r \in Handler /\ r.pc = "commit" /\ r.op = handlers[h].op
    BY ZenonT(60), <1>1, ControlTypes, PcNames DEF Handler
  <1>3. handlers' = [handlers EXCEPT ![h] = r]
    BY ControlTypes DEF BeginReply, ReadTail, Handler, s, n
  <1> QED
    BY <1>2, <1>3, PcNames, StaysInside DEF BeginReply, At

LEMMA CommitReplyControl ==
    ASSUME ControlInv, NEW h \in Handlers, CommitReply(h) PROVE ControlStep(h)
  <1>1. CASE ReleaseAndReturn(h)
    BY <1>1, ReleasesControl
  <1>2. CASE ~ReleaseAndReturn(h)
    <2>1. PICK pc \in {"seal", "publish"} :
            handlers' = [handlers EXCEPT ![h].segment = 0, ![h].tail = 0, ![h].answer = 0,
                                         ![h].pc = pc]
      BY <1>2 DEF CommitReply
    <2> DEFINE r == [handlers[h] EXCEPT !.segment = 0, !.tail = 0, !.answer = 0, !.pc = pc]
    <2>2. r \in Handler /\ r.pc = pc /\ r.op = handlers[h].op
      BY ZenonT(60), ControlTypes, PcNames DEF Handler
    <2>3. handlers' = [handlers EXCEPT ![h] = r]
      BY <2>1, ControlTypes DEF Handler
    <2>4. handlers[h].pc = "commit" /\ UNCHANGED inFlight
      BY <1>2 DEF CommitReply, At
    <2> QED
      BY <2>2, <2>3, <2>4, PcNames, StaysInside
  <1> QED
    BY <1>1, <1>2

LEMMA PublishControl ==
    ASSUME ControlInv, NEW h \in Handlers, Publish(h) PROVE ControlStep(h)
  <1>1. CASE ReleaseAndReturn(h)
    BY <1>1, ReleasesControl
  <1>2. CASE ~ReleaseAndReturn(h)
    <2> DEFINE r == [handlers[h] EXCEPT !.pc = "close", !.seen = status]
    <2>1. status \in Statuses
      BY DEF ControlInv, TypeOK
    <2>2. r \in Handler /\ r.pc = "close" /\ r.op = handlers[h].op
      BY ZenonT(60), <2>1, ControlTypes, PcNames DEF Handler
    <2>3. handlers' = [handlers EXCEPT ![h] = r] /\ handlers[h].pc = "publish" /\ UNCHANGED inFlight
      BY <1>2, ControlTypes DEF Publish, Handler, At
    <2> QED
      BY <2>2, <2>3, PcNames, StaysInside DEF TurnPcs
  <1> QED
    BY <1>1, <1>2

LEMMA BeginRestateControl ==
    ASSUME ControlInv, NEW h \in Handlers, BeginRestate(h) PROVE ControlStep(h)
  <1> DEFINE s == OpenSegment(context.question)
             n == Len(messages) + 1
             t == [question |-> context.question, kind |-> "restatement"]
             r == [handlers[h] EXCEPT !.pc = "restated", !.turn = t, !.segment = s, !.tail = n]
  <1>1. s \in Nat /\ n \in Nat
    BY OpenSegmentFound DEF ControlInv, TypeOK
  <1>2. t \in Turn
    BY PolicyInputs DEF Turn, Kinds
  <1> HIDE DEF s, n, t
  <1>3. r \in Handler /\ r.pc = "restated" /\ r.op = handlers[h].op
    BY ZenonT(60), <1>1, <1>2, ControlTypes, PcNames DEF Handler
  <1>4. handlers' = [handlers EXCEPT ![h] = r] /\ UNCHANGED inFlight
    BY ControlTypes DEF BeginRestate, Handler, s, n, t
  <1>5. ~ handlers[h].op \in {"submit", "retry"}
    BY ControlTypes DEF BeginRestate, At, HandlerOK
  <1> QED
    BY <1>3, <1>4, <1>5, StaysOutside DEF Generating

LEMMA ReturnControl ==
    ASSUME ControlInv, NEW h \in Handlers,
           WriteStatus(h) \/ CommitRestate(h)
    PROVE  ControlStep(h)
  <1>1. Leaves(h)
    BY ControlTypes DEF WriteStatus, CommitRestate, At, HandlerOK, Generating, Leaves
  <1> QED
    BY <1>1, LeavesControl

LEMMA ReleaseControl ==
    ASSUME ControlInv, NEW h \in Handlers,
           FinishComplete(h) \/ ProviderFails(h) \/ Drop(h)
    PROVE  ControlStep(h)
  BY ReleasesControl DEF FinishComplete, ProviderFails, Drop

-----------------------------------------------------------------------------
(* The rows *)

\* The conversation is the same; messages may have been put into a segment.
SameConversation ==
    /\ messages' \in Seq(Message)
    /\ Len(messages') = Len(messages)
    /\ \A i \in 1..Len(messages) :
         /\ messages'[i].kind = messages[i].kind
         /\ messages'[i].question = messages[i].question
         /\ messages'[i].event = messages[i].event
         /\ messages'[i].to = messages[i].to

LEMMA ConversationKept ==
    ASSUME messages \in Seq(Message), UNCHANGED messages
    PROVE  SameConversation
  BY DEF SameConversation

\* One more message.
LEMMA MessageAppended ==
    ASSUME messages \in Seq(Message), NEW m \in Message, messages' = Append(messages, m)
    PROVE  /\ messages' \in Seq(Message)
           /\ Len(messages) \in Nat
           /\ Len(messages') = Len(messages) + 1
           /\ \A i \in 1..Len(messages) : messages'[i] = messages[i]
           /\ messages'[Len(messages) + 1] = m
           /\ \A i \in 1..Len(messages') : i \in 1..Len(messages) \/ i = Len(messages) + 1
  BY AppendProperties

LEMMA SegmentTypes ==
    ASSUME segments \in Seq(Segment), messages \in Seq(Message),
           NEW q \in Questions, NEW s \in 1..Len(segments)
    PROVE  /\ NewSegment(q) \in Segment
           /\ Closed(s, q) \in Seq(Segment)
           /\ Len(Closed(s, q)) = Len(segments)
           /\ ~Closed(s, q)[s].open
           /\ \A i \in 1..Len(segments) : i # s => Closed(s, q)[i] = segments[i]
           /\ \A i \in 1..Len(segments) : Closed(s, q)[i].question = segments[i].question
  <1>1. NewSegment(q) \in Segment
    BY DEF NewSegment, Segment
  <1> DEFINE c == [segments[s] EXCEPT !.open = FALSE, !.end = LastOf(q)]
  <1>2. LastOf(q) \in Nat /\ segments[s] \in Segment
    BY LastOfType, ElementOfSeq
  <1>3. c \in Segment /\ ~c.open /\ c.question = segments[s].question
    BY <1>2 DEF Segment
  <1>4. Closed(s, q) = [segments EXCEPT ![s] = c]
    BY <1>2 DEF Closed, Segment
  <1> HIDE DEF c
  <1> QED
    BY <1>1, <1>3, <1>4, ExceptSeq

\* close_current_segment closes at most one segment and opens at most one.
LEMMA CloseSegmentRows ==
    ASSUME segments \in Seq(Segment), messages \in Seq(Message),
           NEW q \in Questions, NEW next \in Questions \cup {0}, CloseSegment(q, next)
    PROVE  /\ segments' \in Seq(Segment)
           /\ SameConversation
           /\ OpenSegment(q) = 0 => UNCHANGED <<segments, messages>>
           /\ OpenSegment(q) # 0 =>
                LET c == Closed(OpenSegment(q), q)
                IN  \/ segments' = c /\ (next = 0 \/ OpenSegment(next) # 0)
                    \/ segments' = Append(c, NewSegment(next)) /\ next # 0 /\ OpenSegment(next) = 0
  <1>1. CASE OpenSegment(q) = 0
    BY <1>1, ConversationKept DEF CloseSegment
  <1>2. CASE OpenSegment(q) # 0
    <2> DEFINE s == OpenSegment(q)
               c == Closed(s, q)
    <2>1. s \in 1..Len(segments)
      BY <1>2, OpenSegmentFound, LenProperties
    <2>2. c \in Seq(Segment)
      BY <2>1, SegmentTypes
    <2>3. \/ segments' = c /\ (next = 0 \/ OpenSegment(next) # 0)
          \/ segments' = Append(c, NewSegment(next)) /\ next # 0 /\ OpenSegment(next) = 0
      <3> DEFINE opened == next = 0 \/ OpenSegment(next) # 0
      <3>1. segments' = IF opened THEN c ELSE Append(c, NewSegment(next))
        BY <1>2 DEF CloseSegment
      <3> HIDE DEF c
      <3> QED
        BY <3>1
    <2>4. next # 0 => NewSegment(next) \in Segment
      BY DEF NewSegment, Segment
    <2>5. segments' \in Seq(Segment)
      BY SMTT(60), <2>2, <2>3, <2>4, AppendProperties
    <2>6. messages' = [i \in 1..Len(messages) |->
                         IF messages[i].question = q /\ messages[i].segment = 0
                         THEN [messages[i] EXCEPT !.segment = s] ELSE messages[i]]
      BY <1>2 DEF CloseSegment
    <2>7. s \in Nat /\ Len(messages) \in Nat /\ \A i \in 1..Len(messages) : messages[i] \in Message
      BY <2>1, ElementOfSeq
    <2>8. \A i \in 1..Len(messages) : [messages[i] EXCEPT !.segment = s] \in Message
      BY <2>7 DEF Message
    <2>9. messages' \in Seq(Message) /\ Len(messages') = Len(messages)
      BY <2>6, <2>7, <2>8
    <2>10. SameConversation
      BY <2>6, <2>7, <2>9 DEF SameConversation, Message
    <2> QED
      BY <1>2, <2>3, <2>5, <2>10
  <1> QED
    BY <1>1, <1>2

LEMMA NewMessageType ==
    ASSUME NEW kind \in Kinds, NEW q \in Questions, NEW s \in Nat,
           NEW e \in Answers \cup {None}, NEW n \in Nat
    PROVE  NewMessage(kind, q, s, e, n) \in Message
  BY DEF NewMessage, Message

\* What the row types need beyond the control of the handlers.
RowsOK ==
    /\ status \in Statuses
    /\ progress \in 0..NumQuestions
    /\ context \in [question: Questions, followUps: Nat, completed: Seq(Questions),
                    pending: Nat]
    /\ messages \in Seq(Message)
    /\ segments \in Seq(Segment)
    /\ acked \subseteq Answers

LEMMA RowTypes ==
    ASSUME ControlInv
    PROVE  /\ RowsOK
           /\ Len(messages) \in Nat
           /\ context.question \in Questions
           /\ context.pending \in Nat
           /\ context.followUps \in Nat
           /\ \A q : OpenSegment(q) \in Nat
  BY OpenSegmentFound DEF ControlInv, TypeOK, RowsOK

LEMMA RowsKept == ASSUME RowsOK, UNCHANGED rowVars PROVE RowsOK'
  BY DEF RowsOK, rowVars

LEMMA StartRows ==
    ASSUME ControlInv, NEW h \in Handlers, Start(h) PROVE RowsOK'
  <1>1. 1 \in Questions /\ 1 \in 0..NumQuestions
    BY PlanAssumption DEF Questions
  <1>2. CASE messages = <<>>
    <2>1. NewSegment(1) \in Segment
      BY <1>1 DEF NewSegment, Segment
    <2>2. Len(segments) + 1 \in Nat
      BY RowTypes DEF RowsOK
    <2>3. NewMessage("main_question", 1, Len(segments) + 1, None, 0) \in Message
      BY <1>1, <2>2, NewMessageType DEF Kinds
    <2> DEFINE m == NewMessage("main_question", 1, Len(segments) + 1, None, 0)
               g == NewSegment(1)
    <2>a. segments' = Append(segments, g) /\ messages' = <<m>>
      BY <1>2 DEF Start
    <2> HIDE DEF m, g
    <2>4. segments' \in Seq(Segment) /\ messages' \in Seq(Message)
      BY <2>1, <2>3, <2>a, RowTypes, AppendProperties DEF RowsOK, m, g
    <2> QED
      BY <1>1, <2>4, RowTypes DEF Start, RowsOK, Statuses
  <1>3. CASE messages # <<>>
    BY <1>1, <1>3, RowTypes DEF Start, RowsOK, Statuses
  <1> QED
    BY <1>2, <1>3

LEMMA SaveAnswerRows ==
    ASSUME ControlInv, NEW h \in Handlers, SaveAnswer(h) PROVE RowsOK'
  <1>1. CASE UNCHANGED <<messages, context>>
    BY <1>1, RowTypes DEF SaveAnswer, RowsOK
  <1>2. CASE ~UNCHANGED <<messages, context>>
    <2> DEFINE m == NewMessage("answer", context.question, OpenSegment(context.question),
                               handlers[h].event, 0)
               n == Len(messages) + 1
    <2>1. messages' = Append(messages, m) /\ context' = [context EXCEPT !.pending = n]
      BY <1>2 DEF SaveAnswer
    <2>2. handlers[h].event \in Answers \cup {None}
      BY ControlTypes DEF Handler
    <2>3. m \in Message
      BY <2>2, RowTypes, NewMessageType DEF Kinds
    <2>4. messages' \in Seq(Message)
      BY <2>1, <2>3, RowTypes, AppendProperties DEF RowsOK
    <2>5. n \in Nat
      BY RowTypes
    <2> QED
      BY <2>1, <2>4, <2>5, RowTypes DEF SaveAnswer, RowsOK
  <1> QED
    BY <1>1, <1>2

LEMMA AdvanceContextRows ==
    ASSUME ControlInv, NEW h \in Handlers, AdvanceContext(h) PROVE RowsOK'
  <1> DEFINE q == context.question + 1
  <1>1. q \in Questions /\ q \in 0..NumQuestions
    BY ControlTypes, RowTypes, NextQuestion DEF AdvanceContext, At, HandlerOK, Questions
  <1>2. Append(context.completed, context.question) \in Seq(Questions)
    BY RowTypes, AppendProperties DEF RowsOK
  <1>3. context' = [context EXCEPT !.completed = Append(@, context.question), !.question = q,
                                   !.followUps = 0]
    BY DEF AdvanceContext, MovedTo
  <1>4. progress' = q /\ UNCHANGED <<status, messages, segments, acked>>
    BY DEF AdvanceContext
  <1> HIDE DEF q
  <1> QED
    BY <1>1, <1>2, <1>3, <1>4, RowTypes DEF RowsOK

LEMMA CommitReplyRows ==
    ASSUME ControlInv, NEW h \in Handlers, CommitReply(h) PROVE RowsOK'
  <1>1. CASE UNCHANGED <<messages, context>>
    BY <1>1, RowTypes DEF CommitReply, RowsOK
  <1>2. CASE ~UNCHANGED <<messages, context>>
    <2> DEFINE t == handlers[h]
               m == NewMessage(t.turn.kind, t.turn.question, t.segment, None, t.answer)
    <2>1. messages' = Append(messages, m) /\ context' = AfterReply(t.turn.kind)
      BY <1>2 DEF CommitReply
    <2>2. t.turn.kind \in Kinds /\ t.turn.question \in Questions /\ t.segment \in Nat /\ t.answer \in Nat
      BY ControlTypes DEF Handler, Turn
    <2>3. m \in Message
      BY <2>2, NewMessageType
    <2>4. messages' \in Seq(Message)
      BY <2>1, <2>3, RowTypes, AppendProperties DEF RowsOK
    <2>5. context' \in [question: Questions, followUps: Nat, completed: Seq(Questions), pending: Nat]
      <3> DEFINE n == IF t.turn.kind = "follow_up" THEN context.followUps + 1 ELSE context.followUps
      <3>1. n \in Nat
        BY RowTypes
      <3>2. context' = [context EXCEPT !.pending = 0, !.followUps = n]
        BY <2>1, RowTypes DEF AfterReply, RowsOK
      <3> HIDE DEF n
      <3> QED
        BY <3>1, <3>2, RowTypes DEF RowsOK
    <2> QED
      BY <2>4, <2>5, RowTypes DEF CommitReply, RowsOK
  <1> QED
    BY <1>1, <1>2

LEMMA CommitRestateRows ==
    ASSUME ControlInv, NEW h \in Handlers, CommitRestate(h) PROVE RowsOK'
  <1> DEFINE m == NewMessage("restatement", handlers[h].turn.question, handlers[h].segment, None, 0)
  <1>1. m \in Message
    BY ControlTypes, NewMessageType DEF Handler, Turn, Kinds
  <1>2. messages' = messages \/ messages' = Append(messages, m)
    BY DEF CommitRestate
  <1> HIDE DEF m
  <1>3. messages \in Seq(Message) /\ Append(messages, m) \in Seq(Message)
    BY <1>1, RowTypes, AppendProperties DEF RowsOK
  <1>4. messages' \in Seq(Message)
    BY <1>2, <1>3
  <1> QED
    BY <1>4, RowTypes DEF CommitRestate, RowsOK

LEMMA CloseRows ==
    ASSUME ControlInv, NEW h \in Handlers, PrepareAdvance(h) \/ Seal(h) \/ FinishClose(h)
    PROVE  /\ RowsOK'
           /\ UNCHANGED <<status, progress, context, acked>>
           /\ SameConversation
  <1>1. PICK q \in Questions, next \in Questions \cup {0} : CloseSegment(q, next)
    <2>1. CASE PrepareAdvance(h)
      BY <2>1, RowTypes, PreparedGuard, NextQuestion DEF PrepareAdvance
    <2>2. CASE Seal(h)
      <3>1. handlers[h].turn.question \in Questions
        BY ControlTypes DEF Handler, Turn
      <3> QED
        BY <2>2, <3>1 DEF Seal
    <2>3. CASE FinishClose(h)
      BY <2>3, RowTypes DEF FinishClose
    <2> QED
      BY <2>1, <2>2, <2>3
  <1>2. segments' \in Seq(Segment) /\ SameConversation
    BY <1>1, RowTypes, CloseSegmentRows DEF RowsOK
  <1>3. UNCHANGED <<status, progress, context, acked>>
    BY DEF PrepareAdvance, Seal, FinishClose
  <1> QED
    BY <1>2, <1>3, RowTypes DEF RowsOK, SameConversation

LEMMA StatusRows ==
    ASSUME ControlInv, NEW h \in Handlers, WriteStatus(h) \/ FinishComplete(h) \/ Acknowledge(h)
    PROVE  RowsOK'
  <1>1. CASE WriteStatus(h)
    BY <1>1, RowTypes DEF WriteStatus, RowsOK, Statuses
  <1>2. CASE FinishComplete(h)
    BY <1>2, RowTypes DEF FinishComplete, RowsOK, Statuses
  <1>3. CASE Acknowledge(h)
    BY <1>3, ControlTypes, RowTypes DEF Acknowledge, At, HandlerOK, RowsOK
  <1> QED
    BY <1>1, <1>2, <1>3

-----------------------------------------------------------------------------
(* The control invariant is inductive *)

\* A handler step of h keeps the control invariant.
LEMMA ControlFromStep ==
    ASSUME ControlInv, NEW h \in Handlers, ControlStep(h), RowsOK',
           UNCHANGED <<jobVars, remaining>> \/ (evaluation' \in {"none", "queued", "running", "done"}
                                                /\ UNCHANGED <<evaluated, remaining>>),
           inFlight' \in BOOLEAN,
           UNCHANGED context \/ handlers[h].pc \in {"save", "advance", "commit"}
    PROVE  ControlInv'
  <1>1. TypeOK'
    BY DEF ControlInv, ControlStep, Moved, RowsOK, TypeOK, jobVars
  <1>2. ASSUME NEW g \in Handlers PROVE HandlerOK(g)'
    <2>1. CASE g = h
      BY <2>1 DEF ControlStep
    <2>2. CASE g # h
      <3>1. handlers'[g] = handlers[g] /\ HandlerOK(g) /\ HandlerOK(h)
        BY <2>2 DEF ControlInv, ControlStep, Moved
      <3>2. UNCHANGED context \/ handlers[g].pc # "advance"
        <4>1. CASE handlers[h].pc \in {"save", "advance", "commit"} /\ handlers[g].pc = "advance"
          <5>1. Generating(h) /\ Generating(g)
            BY <3>1, <4>1, PcNames DEF HandlerOK, Generating
          <5> QED
            BY <2>2, <5>1 DEF ControlInv, OneTurnAtATime
        <4> QED
          BY <4>1
      <3> QED
        BY <3>1, <3>2 DEF HandlerOK
    <2> QED
      BY <2>1, <2>2
  <1> QED
    BY <1>1, <1>2 DEF ControlInv, ControlStep

LEMMA ControlInit == Init => ControlInv
  <1> SUFFICES ASSUME Init PROVE ControlInv
    OBVIOUS
  <1>1. handlers \in [Handlers -> Handler]
    BY IdleType DEF Init
  <1>2. \A h \in Handlers : handlers[h] = Idle
    BY DEF Init
  <1>3. remaining \in TimePoints
    BY InstanceAssumption DEF Init
  <1>4. context \in [question: Questions, followUps: Nat, completed: Seq(Questions), pending: Nat]
    BY PlanAssumption DEF Init, Questions
  <1>5. TypeOK
    <2>1. messages \in Seq(Message) /\ segments \in Seq(Segment) /\ progress \in 0..NumQuestions
      BY EmptySeq, PlanAssumption DEF Init
    <2> QED
      BY <1>1, <1>3, <1>4, <2>1 DEF Init, TypeOK, Statuses
  <1>6. OneTurnAtATime
    BY <1>2 DEF Init, OneTurnAtATime, Generating, Idle
  <1>7. \A h \in Handlers : HandlerOK(h)
    BY <1>2 DEF HandlerOK, Idle, TurnPcs
  <1> QED
    BY <1>5, <1>6, <1>7 DEF ControlInv

LEMMA AsksKeep ==
    ASSUME ControlInv, NEW h \in Handlers,
           \/ h \in Requests /\ StartRequest(h)
           \/ AskPause(h) \/ AskResume(h) \/ AskFinish(h)
           \/ h \in Sockets /\ (ReceiveAnswer(h) \/ Retry(h) \/ AskRestate(h))
    PROVE  ControlInv'
  <1>1. UNCHANGED <<rowVars, jobVars, remaining>> /\ inFlight' \in BOOLEAN
    BY ControlTypes DEF StartRequest, AskPause, AskResume, AskFinish, ReceiveAnswer, Retry, AskRestate
  <1>2. ControlStep(h)
    BY AsksControl, ReceiveControl, RetryControl
  <1> QED
    BY <1>1, <1>2, RowTypes, RowsKept, ControlFromStep DEF rowVars

LEMMA EnvironmentKeeps ==
    ASSUME ControlInv, BeginEvaluation \/ EndEvaluation \/ Crash \/ Tick PROVE ControlInv'
  <1>1. CASE BeginEvaluation \/ EndEvaluation
    <2>1. TypeOK'
      BY <1>1 DEF ControlInv, TypeOK, BeginEvaluation, EndEvaluation, Statuses
    <2> QED
      BY <1>1, <2>1 DEF ControlInv, OneTurnAtATime, HandlerOK, Generating, BeginEvaluation, EndEvaluation
  <1>2. CASE Crash
    <2>1. handlers' \in [Handlers -> Handler] /\ \A h \in Handlers : handlers'[h] = Idle
      BY <1>2, IdleType DEF Crash
    <2>2. TypeOK'
      BY <1>2, <2>1 DEF ControlInv, TypeOK, Crash, rowVars, jobVars
    <2>3. OneTurnAtATime' /\ \A h \in Handlers : HandlerOK(h)'
      BY <1>2, <2>1 DEF Crash, OneTurnAtATime, Generating, Idle, HandlerOK, TurnPcs
    <2> QED
      BY <2>2, <2>3 DEF ControlInv
  <1>3. CASE Tick
    BY <1>3 DEF ControlInv, TypeOK, OneTurnAtATime, HandlerOK, Generating, Tick, rowVars, jobVars
  <1> QED
    BY <1>1, <1>2, <1>3

LEMMA StepKeeps ==
    ASSUME ControlInv, NEW h \in Handlers, HandlerStep(h) \/ ProviderFails(h) \/ Drop(h)
    PROVE  ControlInv'
  <1> USE ControlTypes, RowTypes
  <1>0. inFlight' \in BOOLEAN
    BY DEF HandlerStep, Start, Acquire, SaveAnswer, Acknowledge, DecideTurn, Decide, PrepareReply,
           PrepareAdvance, AdvanceContext, BeginReply, CommitReply, Seal, Publish, BeginRestate,
           CommitRestate, WriteStatus, FinishClose, FinishComplete, ProviderFails, Drop,
           ReleaseAndReturn
  <1>1. CASE Start(h)
    BY <1>0, <1>1, StartControl, StartRows, ControlFromStep DEF Start
  <1>2. CASE Acquire(h)
    BY <1>0, <1>2, AcquireControl, RowsKept, ControlFromStep DEF Acquire, rowVars
  <1>3. CASE SaveAnswer(h)
    BY <1>0, <1>3, SaveAnswerControl, SaveAnswerRows, ControlFromStep DEF SaveAnswer, At
  <1>4. CASE Acknowledge(h)
    BY <1>0, <1>4, AcknowledgeControl, StatusRows, ControlFromStep DEF Acknowledge
  <1>5. CASE DecideTurn(h)
    BY <1>0, <1>5, DecideControl, RowsKept, ControlFromStep DEF DecideTurn, Decide, rowVars
  <1>6. CASE PrepareReply(h)
    BY <1>0, <1>6, PrepareReplyControl, RowsKept, ControlFromStep DEF PrepareReply, rowVars
  <1>7. CASE PrepareAdvance(h)
    BY <1>0, <1>7, PrepareAdvanceControl, CloseRows, ControlFromStep DEF PrepareAdvance
  <1>8. CASE AdvanceContext(h)
    BY <1>0, <1>8, GotoControl, AdvanceContextRows, ControlFromStep DEF AdvanceContext, At
  <1>9. CASE BeginReply(h)
    BY <1>0, <1>9, BeginReplyControl, RowsKept, ControlFromStep DEF BeginReply, rowVars
  <1>10. CASE CommitReply(h)
    BY <1>0, <1>10, CommitReplyControl, CommitReplyRows, ControlFromStep DEF CommitReply, At
  <1>11. CASE Seal(h)
    BY <1>0, <1>11, GotoControl, CloseRows, ControlFromStep DEF Seal
  <1>12. CASE Publish(h)
    BY <1>0, <1>12, PublishControl, RowsKept, ControlFromStep DEF Publish, rowVars
  <1>13. CASE BeginRestate(h)
    BY <1>0, <1>13, BeginRestateControl, RowsKept, ControlFromStep DEF BeginRestate, rowVars
  <1>14. CASE CommitRestate(h)
    BY <1>0, <1>14, ReturnControl, CommitRestateRows, ControlFromStep DEF CommitRestate
  <1>15. CASE WriteStatus(h)
    BY <1>0, <1>15, ReturnControl, StatusRows, ControlFromStep DEF WriteStatus
  <1>16. CASE FinishClose(h)
    BY <1>0, <1>16, GotoControl, CloseRows, ControlFromStep DEF FinishClose
  <1>17. CASE FinishComplete(h)
    <2>1. evaluation' \in {"none", "queued", "running", "done"} /\ UNCHANGED <<evaluated, remaining, context>>
      BY <1>17 DEF FinishComplete, ControlInv, TypeOK
    <2> QED
      BY <1>0, <1>17, <2>1, ReleaseControl, StatusRows, ControlFromStep
  <1>18. CASE ProviderFails(h) \/ Drop(h)
    BY <1>0, <1>18, ReleaseControl, RowsKept, ControlFromStep DEF ProviderFails, Drop, rowVars
  <1> QED
    BY <1>1, <1>2, <1>3, <1>4, <1>5, <1>6, <1>7, <1>8, <1>9, <1>10, <1>11, <1>12, <1>13, <1>14,
       <1>15, <1>16, <1>17, <1>18 DEF HandlerStep

LEMMA ControlNext == ControlInv /\ [Next]_vars => ControlInv'
  <1> SUFFICES ASSUME ControlInv, [Next]_vars PROVE ControlInv'
    OBVIOUS
  <1>1. CASE ClientAsks
    BY <1>1, AsksKeep DEF ClientAsks, Handlers
  <1>2. CASE \E h \in Handlers : HandlerStep(h)
    BY <1>2, StepKeeps
  <1>3. CASE \E s \in Sockets : ProviderFails(s) \/ Drop(s)
    BY <1>3, StepKeeps DEF Handlers
  <1>4. CASE BeginEvaluation \/ EndEvaluation \/ Crash \/ Tick
    BY <1>4, EnvironmentKeeps
  <1>5. CASE UNCHANGED vars
    BY <1>5 DEF vars, rowVars, jobVars, ControlInv, TypeOK, OneTurnAtATime, HandlerOK, Generating
  <1> QED
    BY <1>1, <1>2, <1>3, <1>4, <1>5 DEF Next

LEMMA ControlInvariance == Spec => []ControlInv
  BY ControlInit, ControlNext, PTL DEF Spec

-----------------------------------------------------------------------------
(* What a step may do to the conversation, the context and a handler *)

\* Every step that is somebody's is one of these.
LEMMA WhoSteps ==
    ASSUME ControlInv, [Next]_vars
    PROVE  \/ UNCHANGED vars
           \/ BeginEvaluation \/ EndEvaluation \/ Crash \/ Tick
           \/ \E h \in Handlers :
                /\ ControlStep(h)
                /\ \/ HandlerStep(h) \/ ProviderFails(h) \/ Drop(h)
                   \/ h \in Requests /\ StartRequest(h)
                   \/ AskPause(h) \/ AskResume(h) \/ AskFinish(h)
                   \/ h \in Sockets /\ (ReceiveAnswer(h) \/ Retry(h) \/ AskRestate(h))
  <1>1. ASSUME NEW h \in Handlers, HandlerStep(h) PROVE ControlStep(h)
    BY <1>1, StartControl, AcquireControl, SaveAnswerControl, AcknowledgeControl, DecideControl,
       PrepareReplyControl, PrepareAdvanceControl, GotoControl, BeginReplyControl,
       CommitReplyControl, PublishControl, BeginRestateControl, ReturnControl, ReleaseControl
       DEF HandlerStep
  <1>2. CASE ClientAsks
    BY <1>2, AsksControl, ReceiveControl, RetryControl DEF ClientAsks, Handlers
  <1>3. CASE \E h \in Handlers : HandlerStep(h)
    BY <1>1, <1>3
  <1>4. CASE \E s \in Sockets : ProviderFails(s) \/ Drop(s)
    BY <1>4, ReleaseControl DEF Handlers
  <1> QED
    BY <1>2, <1>3, <1>4 DEF Next

\* The handlers that are asked, and those that give up, change no row.
LEMMA OnlyRegistry ==
    ASSUME NEW h,
           \/ ProviderFails(h) \/ Drop(h) \/ StartRequest(h)
           \/ AskPause(h) \/ AskResume(h) \/ AskFinish(h)
           \/ ReceiveAnswer(h) \/ Retry(h) \/ AskRestate(h)
    PROVE  UNCHANGED <<rowVars, jobVars>>
  BY DEF ProviderFails, Drop, StartRequest, AskPause, AskResume, AskFinish, ReceiveAnswer,
         Retry, AskRestate

LEMMA NoRowStep ==
    ASSUME BeginEvaluation \/ EndEvaluation \/ Crash \/ Tick \/ UNCHANGED vars
    PROVE  UNCHANGED <<progress, context, messages, segments, acked>>
  BY DEF BeginEvaluation, EndEvaluation, Crash, Tick, vars, rowVars

\* The handler steps that store no message.
LEMMA TranscriptStep ==
    ASSUME ControlInv, [Next]_vars
    PROVE  \/ SameConversation
           \/ \E h \in Handlers : Start(h) \/ SaveAnswer(h) \/ CommitReply(h) \/ CommitRestate(h)
  <1>1. messages \in Seq(Message)
    BY RowTypes DEF RowsOK
  <1>2. CASE UNCHANGED messages
    BY <1>1, <1>2, ConversationKept
  <1>3. CASE ~UNCHANGED messages
    <2>1. PICK h \in Handlers : HandlerStep(h)
      BY <1>3, WhoSteps, NoRowStep, OnlyRegistry DEF rowVars
    <2>2. Start(h) \/ SaveAnswer(h) \/ CommitReply(h) \/ CommitRestate(h)
          \/ PrepareAdvance(h) \/ Seal(h) \/ FinishClose(h)
      BY <1>3, <2>1 DEF HandlerStep, Acquire, Acknowledge, DecideTurn, Decide, PrepareReply,
         AdvanceContext, BeginReply, Publish, BeginRestate, WriteStatus, FinishComplete, rowVars
    <2> QED
      BY <2>2, CloseRows
  <1> QED
    BY <1>2, <1>3

LEMMA SegmentsStep ==
    ASSUME ControlInv, [Next]_vars
    PROVE  \/ UNCHANGED segments
           \/ \E h \in Handlers : Start(h) \/ PrepareAdvance(h) \/ Seal(h) \/ FinishClose(h)
  <1>1. CASE ~UNCHANGED segments
    <2>1. PICK h \in Handlers : HandlerStep(h)
      BY <1>1, WhoSteps, NoRowStep, OnlyRegistry DEF rowVars
    <2> QED
      BY <1>1, <2>1 DEF HandlerStep, Acquire, SaveAnswer, Acknowledge, DecideTurn, Decide,
         PrepareReply, AdvanceContext, BeginReply, CommitReply, Publish, BeginRestate,
         CommitRestate, WriteStatus, FinishComplete, rowVars
  <1> QED
    BY <1>1

LEMMA ContextStep ==
    ASSUME ControlInv, [Next]_vars
    PROVE  \/ UNCHANGED context
           \/ \E h \in Handlers : SaveAnswer(h) \/ AdvanceContext(h) \/ CommitReply(h)
  <1>1. CASE ~UNCHANGED context
    <2>1. PICK h \in Handlers : HandlerStep(h)
      BY <1>1, WhoSteps, NoRowStep, OnlyRegistry DEF rowVars
    <2> QED
      BY <1>1, <2>1 DEF HandlerStep, Start, Acquire, Acknowledge, DecideTurn, Decide,
         PrepareReply, PrepareAdvance, BeginReply, Seal, Publish, BeginRestate, CommitRestate,
         WriteStatus, FinishClose, FinishComplete, rowVars
  <1> QED
    BY <1>1

LEMMA AckedStep ==
    ASSUME ControlInv, [Next]_vars
    PROVE  UNCHANGED acked \/ \E h \in Handlers : Acknowledge(h)
  <1>1. CASE ~UNCHANGED acked
    <2>1. PICK h \in Handlers : HandlerStep(h)
      BY <1>1, WhoSteps, NoRowStep, OnlyRegistry DEF rowVars
    <2> QED
      BY <1>1, <2>1 DEF HandlerStep, Start, Acquire, SaveAnswer, DecideTurn, Decide,
         PrepareReply, PrepareAdvance, AdvanceContext, BeginReply, CommitReply, Seal, Publish,
         BeginRestate, CommitRestate, WriteStatus, FinishClose, FinishComplete, rowVars
  <1> QED
    BY <1>1

\* Where the steps of a handler lead.
Into(h, pcs) == handlers'[h].pc \in pcs

LEMMA LeadTo ==
    ASSUME ControlInv, NEW h \in Handlers
    PROVE  /\ Start(h) => Into(h, {"acquire", "idle"})
           /\ Acquire(h) => Into(h, {"save", "idle"})
           /\ SaveAnswer(h) => Into(h, {"ack", "idle"})
           /\ Acknowledge(h) => Into(h, {"decide"})
           /\ DecideTurn(h) => Into(h, {"prepare"})
           /\ PrepareReply(h) => Into(h, {"reply"})
           /\ PrepareAdvance(h) => Into(h, {"advance"})
           /\ AdvanceContext(h) => Into(h, {"reply"})
           /\ BeginReply(h) => Into(h, {"commit"})
           /\ CommitReply(h) => Into(h, {"seal", "publish", "idle"})
           /\ Seal(h) => Into(h, {"publish"})
           /\ Publish(h) => Into(h, {"close", "idle"})
           /\ BeginRestate(h) => Into(h, {"restated"})
           /\ CommitRestate(h) => Into(h, {"idle"})
           /\ WriteStatus(h) => Into(h, {"idle"})
           /\ FinishClose(h) => Into(h, {"complete"})
           /\ FinishComplete(h) => Into(h, {"idle"})
           /\ ProviderFails(h) => Into(h, {"idle"})
           /\ Drop(h) => Into(h, {"idle"})
  <1> USE ControlTypes DEF Into
  <1>1. Return(h) => handlers'[h].pc = "idle"
    BY DEF Return, Idle
  <1>2. ReleaseAndReturn(h) => handlers'[h].pc = "idle"
    BY <1>1 DEF ReleaseAndReturn
  <1>3. \A pc : Goto(h, pc) => handlers'[h].pc = pc
    BY DEF Goto, Handler
  <1>5. /\ Start(h) => Into(h, {"acquire", "idle"})
        /\ Acquire(h) => Into(h, {"save", "idle"})
    BY <1>1, <1>3 DEF Start, Acquire
  <1>6. SaveAnswer(h) => Into(h, {"ack", "idle"})
    BY <1>2 DEF SaveAnswer, Handler
  <1>7. Acknowledge(h) => Into(h, {"decide"})
    BY DEF Acknowledge, Handler
  <1>8. DecideTurn(h) => Into(h, {"prepare"})
    BY DEF DecideTurn, Decide, Handler
  <1>9. PrepareReply(h) => Into(h, {"reply"})
    BY DEF PrepareReply, SetTurn, Handler
  <1>10. PrepareAdvance(h) => Into(h, {"advance"})
    BY DEF PrepareAdvance, SetTurn, Handler
  <1>11. AdvanceContext(h) => Into(h, {"reply"})
    BY <1>3 DEF AdvanceContext
  <1>12. BeginReply(h) => Into(h, {"commit"})
    BY DEF BeginReply, ReadTail, Handler
  <1>13. CommitReply(h) => Into(h, {"seal", "publish", "idle"})
    BY <1>2 DEF CommitReply, Handler
  <1>14. Seal(h) => Into(h, {"publish"})
    BY <1>3 DEF Seal
  <1>15. Publish(h) => Into(h, {"close", "idle"})
    BY <1>2 DEF Publish, Handler
  <1>16. BeginRestate(h) => Into(h, {"restated"})
    BY DEF BeginRestate, Handler
  <1>17. CommitRestate(h) \/ WriteStatus(h) => Into(h, {"idle"})
    BY <1>1 DEF CommitRestate, WriteStatus
  <1>18. FinishClose(h) => Into(h, {"complete"})
    BY <1>3 DEF FinishClose
  <1>19. FinishComplete(h) \/ ProviderFails(h) \/ Drop(h) => Into(h, {"idle"})
    BY <1>2 DEF FinishComplete, ProviderFails, Drop
  <1> QED
    BY <1>5, <1>6, <1>7, <1>8, <1>9, <1>10, <1>11, <1>12, <1>13, <1>14, <1>15, <1>16, <1>17,
       <1>18, <1>19

LEMMA AsksLeadTo ==
    ASSUME ControlInv, NEW h \in Handlers
    PROVE  /\ StartRequest(h) => Into(h, {"start"})
           /\ AskPause(h) \/ AskResume(h) => Into(h, {"write"})
           /\ AskFinish(h) => Into(h, {"close"})
           /\ AskRestate(h) => Into(h, {"restate"})
           /\ ReceiveAnswer(h) => Into(h, {"start", "save"})
           /\ Retry(h) => Into(h, {"decide"})
  <1> USE ControlTypes, IdleType
  <1>1. \A op, pc : Load(h, op, pc) => handlers'[h].pc = pc
    BY DEF Load, Idle
  <1>2. ReceiveAnswer(h) => Into(h, {"start", "save"})
    BY DEF ReceiveAnswer, Into, Idle
  <1>3. Retry(h) => Into(h, {"decide"})
    BY DEF Retry, Into, Idle
  <1> QED
    BY <1>1, <1>2, <1>3 DEF StartRequest, AskPause, AskResume, AskFinish, AskRestate, Into

\* Whose step brings a handler to a place inside a turn.
LEMMA EntersPc ==
    ASSUME ControlInv, [Next]_vars, NEW g \in Handlers, handlers'[g] # handlers[g]
    PROVE  /\ Into(g, {"ack"}) => SaveAnswer(g)
           /\ Into(g, {"decide"}) => Acknowledge(g) \/ Retry(g)
           /\ Into(g, {"prepare"}) => DecideTurn(g)
           /\ Into(g, {"advance"}) => PrepareAdvance(g)
           /\ Into(g, {"reply"}) => PrepareReply(g) \/ AdvanceContext(g)
           /\ Into(g, {"commit"}) => BeginReply(g)
           /\ Into(g, {"seal"}) => CommitReply(g)
           /\ Into(g, {"publish"}) => CommitReply(g) \/ Seal(g)
  <1>1. CASE Crash
    <2>1. handlers'[g] = Idle
      BY <1>1 DEF Crash
    <2> QED
      BY <2>1 DEF Idle, Into
  <1>2. CASE BeginEvaluation \/ EndEvaluation \/ Tick \/ UNCHANGED vars
    BY <1>2 DEF BeginEvaluation, EndEvaluation, Tick, vars
  <1>3. ASSUME NEW h \in Handlers, ControlStep(h) PROVE h = g
    BY <1>3 DEF ControlStep, Moved
  <1>4. CASE HandlerStep(g)
    BY <1>4, LeadTo DEF HandlerStep, Into
  <1>5. CASE \/ ProviderFails(g) \/ Drop(g) \/ StartRequest(g)
             \/ AskPause(g) \/ AskResume(g) \/ AskFinish(g)
             \/ ReceiveAnswer(g) \/ Retry(g) \/ AskRestate(g)
    BY <1>5, LeadTo, AsksLeadTo DEF Into
  <1> QED
    BY <1>1, <1>2, <1>3, <1>4, <1>5, WhoSteps

-----------------------------------------------------------------------------
(* Answers *)

Stored(e) == \E i \in 1..Len(messages) : messages[i].event = e

\* A client event is stored once; it is stored before it is acknowledged, and
\* the handler about to acknowledge it has seen it stored.
AnswersInv ==
    /\ \A i, j \in 1..Len(messages) :
         messages[i].event \in Answers /\ messages[i].event = messages[j].event => i = j
    /\ \A e \in acked : Stored(e)
    /\ \A h \in Handlers : handlers[h].pc = "ack" => Stored(handlers[h].event)

LEMMA NewMessageFields ==
    ASSUME NEW kind, NEW q, NEW s, NEW e, NEW n
    PROVE  /\ NewMessage(kind, q, s, e, n).kind = kind
           /\ NewMessage(kind, q, s, e, n).question = q
           /\ NewMessage(kind, q, s, e, n).event = e
           /\ NewMessage(kind, q, s, e, n).to = n
  BY DEF NewMessage

\* What is stored stays stored, and only SaveAnswer stores an event, which was
\* not stored before.
LEMMA NewMessageStored ==
    ASSUME ControlInv, [Next]_vars, ~SameConversation
    PROVE  \E m \in Message :
             /\ messages' = Append(messages, m)
             /\ \/ \E h \in Handlers :
                     /\ SaveAnswer(h) /\ m.event = handlers[h].event /\ ~Stored(m.event)
                     /\ m = NewMessage("answer", context.question,
                                       OpenSegment(context.question), handlers[h].event, 0)
                     /\ context' = [context EXCEPT !.pending = Len(messages) + 1]
                     /\ handlers'[h].answer = Len(messages) + 1
                \/ \E h \in Handlers :
                     /\ CommitReply(h)
                     /\ m = NewMessage(handlers[h].turn.kind, handlers[h].turn.question,
                                       handlers[h].segment, None, handlers[h].answer)
                     /\ context' = AfterReply(handlers[h].turn.kind)
                \/ \E h \in Handlers :
                     /\ CommitRestate(h)
                     /\ m = NewMessage("restatement", handlers[h].turn.question,
                                       handlers[h].segment, None, 0)
                \/ /\ messages = <<>>
                   /\ \E h \in Handlers : Start(h)
                   /\ m = NewMessage("main_question", 1, Len(segments) + 1, None, 0)
  <1>1. messages \in Seq(Message) /\ ~UNCHANGED messages
    BY ConversationKept, RowTypes DEF RowsOK
  <1>2. PICK h \in Handlers : Start(h) \/ SaveAnswer(h) \/ CommitReply(h) \/ CommitRestate(h)
    BY TranscriptStep
  <1>3. /\ handlers[h].turn.question \in Questions /\ handlers[h].turn.kind \in Kinds
        /\ handlers[h].segment \in Nat /\ handlers[h].event \in Answers \cup {None}
        /\ handlers[h].answer \in Nat
    BY ControlTypes DEF Handler, Turn
  <1>4. CASE Start(h)
    <2> DEFINE m == NewMessage("main_question", 1, Len(segments) + 1, None, 0)
    <2>1. messages = <<>> /\ messages' = <<m>>
      BY <1>1, <1>4 DEF Start
    <2>2. 1 \in Questions /\ Len(segments) + 1 \in Nat
      BY RowTypes, PlanAssumption DEF RowsOK, Questions
    <2>3. m \in Message
      BY <2>2, NewMessageType DEF Kinds
    <2> HIDE DEF m
    <2>4. messages' = Append(messages, m)
      BY <2>1
    <2> QED
      BY <1>4, <2>1, <2>3, <2>4 DEF m
  <1>5. CASE SaveAnswer(h)
    <2> DEFINE m == NewMessage("answer", context.question, OpenSegment(context.question),
                               handlers[h].event, 0)
    <2>1. Saved(handlers[h].event) = {} /\ messages' = Append(messages, m)
      BY <1>1, <1>5 DEF SaveAnswer
    <2>2. ~Stored(handlers[h].event)
      BY <1>1, <2>1 DEF Saved, Stored
    <2>3. m \in Message /\ m.event = handlers[h].event
      <3>1. m \in Message
        BY <1>3, RowTypes, NewMessageType DEF Kinds
      <3>2. m.event = handlers[h].event
        BY NewMessageFields
      <3> QED
        BY <3>1, <3>2
    <2>4. context' = [context EXCEPT !.pending = Len(messages) + 1]
      BY <1>1, <1>5 DEF SaveAnswer
    <2>5. handlers' = [handlers EXCEPT ![h].pc = "ack", ![h].answer = Len(messages) + 1]
      BY <1>1, <1>5 DEF SaveAnswer
    <2>6. handlers'[h].answer = Len(messages) + 1
      BY <2>5, ControlTypes DEF Handler
    <2> QED
      BY <1>5, <2>1, <2>2, <2>3, <2>4, <2>6
  <1>6. CASE CommitReply(h)
    <2> DEFINE m == NewMessage(handlers[h].turn.kind, handlers[h].turn.question,
                               handlers[h].segment, None, handlers[h].answer)
    <2>1. messages' = Append(messages, m) /\ context' = AfterReply(handlers[h].turn.kind)
      BY <1>1, <1>6 DEF CommitReply
    <2>2. m \in Message
      BY <1>3, NewMessageType
    <2> QED
      BY <1>6, <2>1, <2>2
  <1>7. CASE CommitRestate(h)
    <2> DEFINE m == NewMessage("restatement", handlers[h].turn.question, handlers[h].segment, None, 0)
    <2>1. messages' = Append(messages, m)
      BY <1>1, <1>7 DEF CommitRestate
    <2>2. m \in Message
      BY <1>3, NewMessageType DEF Kinds
    <2> QED
      BY <1>7, <2>1, <2>2
  <1> QED
    BY <1>2, <1>4, <1>5, <1>6, <1>7

LEMMA AnswersStep == ControlInv /\ AnswersInv /\ [Next]_vars => AnswersInv'
  <1> SUFFICES ASSUME ControlInv, AnswersInv, [Next]_vars PROVE AnswersInv'
    OBVIOUS
  <1>1. messages \in Seq(Message) /\ Len(messages) \in Nat /\ ~(None \in Answers)
    BY RowTypes, InstanceAssumption DEF RowsOK
  <1>2. /\ \A i, j \in 1..Len(messages') :
             messages'[i].event \in Answers /\ messages'[i].event = messages'[j].event => i = j
        /\ \A e : Stored(e) => Stored(e)'
    <2>1. CASE SameConversation
      BY <1>1, <2>1 DEF SameConversation, Stored, AnswersInv
    <2>2. CASE ~SameConversation
      <3>1. PICK m \in Message :
              /\ messages' = Append(messages, m)
              /\ m.event = None \/ ~Stored(m.event)
        BY <2>2, NewMessageStored, NewMessageFields
      <3>2. /\ Len(messages') = Len(messages) + 1
            /\ \A i \in 1..Len(messages) : messages'[i] = messages[i]
            /\ messages'[Len(messages) + 1] = m
            /\ \A i \in 1..Len(messages') : i \in 1..Len(messages) \/ i = Len(messages) + 1
        BY <1>1, <3>1, MessageAppended
      <3>3. \A e : Stored(e) => Stored(e)'
        BY <1>1, <3>2 DEF Stored
      <3>4. ASSUME NEW i \in 1..Len(messages'), NEW j \in 1..Len(messages'),
                   messages'[i].event \in Answers, messages'[i].event = messages'[j].event
            PROVE  i = j
        BY <1>1, <3>1, <3>2, <3>4 DEF Stored, AnswersInv
      <3> QED
        BY <3>3, <3>4
    <2> QED
      BY <2>1, <2>2
  <1>3. ASSUME NEW e \in acked' PROVE Stored(e)'
    <2>1. Stored(e)
      <3>1. CASE e \in acked
        BY <3>1 DEF AnswersInv
      <3>2. CASE ~(e \in acked)
        <4>1. PICK h \in Handlers : Acknowledge(h)
          BY <3>2, <1>3, AckedStep
        <4>2. e = handlers[h].event /\ handlers[h].pc = "ack"
          BY <1>3, <3>2, <4>1 DEF Acknowledge, At
        <4> QED
          BY <4>2 DEF AnswersInv
      <3> QED
        BY <3>1, <3>2
    <2> QED
      BY <1>2, <2>1
  <1>4. ASSUME NEW h \in Handlers, handlers'[h].pc = "ack" PROVE Stored(handlers[h].event)'
    <2>1. CASE handlers'[h] = handlers[h]
      <3>1. Stored(handlers[h].event)
        BY <1>4, <2>1 DEF AnswersInv
      <3>2. \E i \in 1..Len(messages') : messages'[i].event = handlers[h].event
        BY <1>2, <3>1 DEF Stored
      <3> QED
        BY <2>1, <3>2 DEF Stored
    <2>2. CASE handlers'[h] # handlers[h]
      <3>1. SaveAnswer(h)
        BY <1>4, <2>2, EntersPc DEF Into
      <3>2. Accepts
        BY <1>4, <3>1, ControlTypes DEF SaveAnswer, ReleaseAndReturn, Return, Idle
      <3>3. handlers'[h].event = handlers[h].event
        BY <3>1, <3>2, ControlTypes DEF SaveAnswer, Handler
      <3>4. CASE Saved(handlers[h].event) # {}
        <4>1. Stored(handlers[h].event)
          BY <1>1, <3>4 DEF Saved, Stored
        <4>2. \E i \in 1..Len(messages') : messages'[i].event = handlers[h].event
          BY <1>2, <4>1 DEF Stored
        <4> QED
          BY <3>3, <4>2 DEF Stored
      <3>5. CASE Saved(handlers[h].event) = {}
        <4> DEFINE m == NewMessage("answer", context.question, OpenSegment(context.question),
                                   handlers[h].event, 0)
        <4>1. messages' = Append(messages, m)
          BY <3>1, <3>2, <3>5 DEF SaveAnswer
        <4>2. handlers[h].event \in Answers \cup {None}
          BY ControlTypes DEF Handler
        <4>3. m \in Message /\ m.event = handlers[h].event
          BY <4>2, RowTypes, NewMessageType, NewMessageFields DEF Kinds
        <4>4. Len(messages) + 1 \in 1..Len(messages') /\ messages'[Len(messages) + 1] = m
          BY <1>1, <4>1, <4>3, MessageAppended
        <4> QED
          BY <3>3, <4>3, <4>4 DEF Stored
      <3> QED
        BY <3>4, <3>5
    <2> QED
      BY <2>1, <2>2
  <1> QED
    BY <1>2, <1>3, <1>4 DEF AnswersInv

LEMMA AnswersInvariance == Spec => []AnswersInv
  <1>1. Init => AnswersInv
    BY DEF Init, AnswersInv, Idle
  <1> QED
    BY <1>1, AnswersStep, ControlInvariance, PTL DEF Spec

(* The context row *)

\* The turn in preparation is about the current question, or the next one while
\* the advance is between its two commits.
TurnOK(h) ==
    LET s == handlers[h]
    IN  /\ s.pc = "advance" =>
             s.turn = [question |-> context.question + 1, kind |-> "main_question"]
        /\ s.pc \in {"reply", "commit"} =>
             /\ s.turn.question = context.question
             /\ s.turn.kind \in {"main_question", "follow_up", "closing"}
             /\ s.turn.kind = "follow_up" => context.followUps < FollowUpBudget[context.question]

\* The completed questions are those before the current one, and the follow-ups
\* counted are those there are.
ContextInv ==
    /\ \A h \in Handlers : TurnOK(h)
    /\ context.completed = [i \in 1..(context.question - 1) |-> i]
    /\ context.followUps = Cardinality(FollowUpsOf(context.question))
    /\ \A q \in Questions : q > context.question => FollowUpsOf(q) = {}
    /\ \A q \in Questions : Cardinality(FollowUpsOf(q)) <= FollowUpBudget[q]

\* A handler inside a turn holds the registry, so that two of them are one.
LEMMA TurnHolder ==
    ASSUME ControlInv, NEW g \in Handlers, NEW h \in Handlers,
           handlers[g].pc \in TurnPcs, handlers[h].pc \in TurnPcs
    PROVE  g = h
  <1>1. Generating(g) /\ Generating(h)
    BY ControlTypes DEF HandlerOK, Generating, TurnPcs
  <1> QED
    BY <1>1, ControlTypes DEF OneTurnAtATime

\* Only the handler that advances or replies moves the position in the plan.
LEMMA PositionStep ==
    ASSUME ControlInv, [Next]_vars
    PROVE  \/ /\ context'.question = context.question
              /\ context'.followUps = context.followUps
              /\ context'.completed = context.completed
           \/ \E h \in Handlers : AdvanceContext(h)
           \/ \E h \in Handlers :
                /\ CommitReply(h) /\ ~SameConversation /\ context' = AfterReply(handlers[h].turn.kind)
  <1>1. CASE UNCHANGED context
    BY <1>1
  <1>2. CASE \E h \in Handlers : SaveAnswer(h)
    <2>1. PICK h \in Handlers : SaveAnswer(h)
      BY <1>2
    <2>2. UNCHANGED context \/ context' = [context EXCEPT !.pending = Len(messages) + 1]
      BY <2>1 DEF SaveAnswer
    <2> QED
      BY <2>2, RowTypes DEF RowsOK
  <1>3. ASSUME NEW h \in Handlers, CommitReply(h), ~UNCHANGED context
        PROVE  ~SameConversation /\ context' = AfterReply(handlers[h].turn.kind)
    <2> DEFINE m == NewMessage(handlers[h].turn.kind, handlers[h].turn.question,
                               handlers[h].segment, None, handlers[h].answer)
    <2>1. messages' = Append(messages, m) /\ context' = AfterReply(handlers[h].turn.kind)
      BY <1>3 DEF CommitReply
    <2>2. messages \in Seq(Message)
      BY RowTypes DEF RowsOK
    <2>3. Len(messages') # Len(messages)
      BY <2>1, <2>2
    <2> QED
      BY <2>1, <2>3 DEF SameConversation
  <1> QED
    BY <1>1, <1>2, <1>3, ContextStep

LEMMA TurnStep ==
    ASSUME ControlInv, ContextInv, [Next]_vars, NEW g \in Handlers
    PROVE  TurnOK(g)'
  <1>1. CASE handlers'[g] = handlers[g]
    <2>1. CASE handlers[g].pc \in {"advance", "reply", "commit"}
      <3>1. ASSUME NEW h \in Handlers, AdvanceContext(h) \/ CommitReply(h) PROVE FALSE
        <4>1. handlers[h].pc \in {"advance", "commit"}
          BY <3>1 DEF AdvanceContext, CommitReply, At
        <4>2. g = h
          BY <2>1, <4>1, TurnHolder, PcNames
        <4>3. handlers'[h].pc # handlers[h].pc
          BY <3>1, LeadTo DEF AdvanceContext, CommitReply, At, Into
        <4> QED
          BY <1>1, <4>2, <4>3
      <3>2. context'.question = context.question /\ context'.followUps = context.followUps
        BY <3>1, PositionStep
      <3> QED
        BY <1>1, <3>2 DEF ContextInv, TurnOK
    <2>2. CASE ~(handlers[g].pc \in {"advance", "reply", "commit"})
      BY <1>1, <2>2 DEF TurnOK
    <2> QED
      BY <2>1, <2>2
  <1>2. CASE handlers'[g] # handlers[g]
    <2>1. CASE PrepareAdvance(g)
      <3>1. handlers'[g].turn = [question |-> context.question + 1, kind |-> "main_question"]
            /\ handlers'[g].pc = "advance" /\ context' = context
        BY <2>1, ControlTypes DEF PrepareAdvance, SetTurn, Handler
      <3> QED
        BY <3>1 DEF TurnOK
    <2>2. CASE PrepareReply(g)
      <3>1. PICK kind \in {"follow_up", "closing"} :
               /\ SetTurn(g, "reply", kind, context.question)
               /\ kind = "follow_up" => PreparedAction(g) = "follow_up"
        BY <2>2 DEF PrepareReply
      <3>2. handlers'[g].turn = [question |-> context.question, kind |-> kind]
            /\ handlers'[g].pc = "reply" /\ context' = context
        BY <2>2, <3>1, ControlTypes DEF PrepareReply, SetTurn, Handler, rowVars
      <3>3. kind = "follow_up" => context.followUps < FollowUpBudget[context.question]
        BY <2>2, <3>1, PreparedGuard DEF PrepareReply
      <3> QED
        BY <3>2, <3>3 DEF TurnOK
    <2>3. CASE AdvanceContext(g)
      <3>1. handlers'[g].turn = handlers[g].turn /\ handlers'[g].pc = "reply"
        BY <2>3, ControlTypes DEF AdvanceContext, Goto, Handler
      <3>2. handlers[g].turn = [question |-> context.question + 1, kind |-> "main_question"]
        BY <2>3 DEF AdvanceContext, At, ContextInv, TurnOK
      <3>3. context'.question = context.question + 1
        BY <2>3, RowTypes DEF AdvanceContext, MovedTo, RowsOK
      <3> QED
        BY <3>1, <3>2, <3>3 DEF TurnOK
    <2>4. CASE BeginReply(g)
      <3>1. handlers'[g].turn = handlers[g].turn /\ handlers'[g].pc = "commit" /\ context' = context
        BY <2>4, ControlTypes DEF BeginReply, ReadTail, Handler, rowVars
      <3> QED
        BY <2>4, <3>1 DEF TurnOK, ContextInv, BeginReply, At
    <2>5. CASE ~ handlers'[g].pc \in {"advance", "reply", "commit"}
      BY <2>5 DEF TurnOK
    <2> QED
      BY <1>2, <2>1, <2>2, <2>3, <2>4, <2>5, EntersPc DEF Into
  <1> QED
    BY <1>1, <1>2

\* The follow-ups of a question are counted by the rows.
LEMMA FollowUpsFinite ==
    ASSUME messages \in Seq(Message), NEW q
    PROVE  IsFiniteSet(FollowUpsOf(q)) /\ Cardinality(FollowUpsOf(q)) \in Nat
  <1>1. FollowUpsOf(q) \in SUBSET (1..Len(messages)) /\ Len(messages) \in Int
    BY DEF FollowUpsOf
  <1>2. IsFiniteSet(1..Len(messages))
    BY <1>1, FS_Interval
  <1>3. IsFiniteSet(FollowUpsOf(q))
    BY <1>1, <1>2, FS_Subset
  <1> QED
    BY <1>3, FS_CardinalityType

LEMMA FollowUpsSame ==
    ASSUME messages \in Seq(Message), SameConversation, NEW q
    PROVE  FollowUpsOf(q)' = FollowUpsOf(q)
  <1>1. DOMAIN messages' = DOMAIN messages
    BY DEF SameConversation
  <1> QED
    BY <1>1 DEF SameConversation, FollowUpsOf

LEMMA FollowUpsAppend ==
    ASSUME messages \in Seq(Message), NEW m \in Message, messages' = Append(messages, m), NEW q
    PROVE  /\ m.kind = "follow_up" /\ m.question = q =>
                /\ FollowUpsOf(q)' = FollowUpsOf(q) \cup {Len(messages) + 1}
                /\ Cardinality(FollowUpsOf(q))' = Cardinality(FollowUpsOf(q)) + 1
           /\ ~(m.kind = "follow_up" /\ m.question = q) => FollowUpsOf(q)' = FollowUpsOf(q)
  <1>1. /\ Len(messages) \in Nat /\ Len(messages') = Len(messages) + 1
        /\ \A i \in 1..Len(messages) : messages'[i] = messages[i]
        /\ messages'[Len(messages) + 1] = m
        /\ DOMAIN messages = 1..Len(messages) /\ DOMAIN messages' = 1..(Len(messages) + 1)
    BY MessageAppended
  <1>2. CASE m.kind = "follow_up" /\ m.question = q
    <2>1. FollowUpsOf(q)' = FollowUpsOf(q) \cup {Len(messages) + 1}
      BY <1>1, <1>2 DEF FollowUpsOf
    <2>2. ~(Len(messages) + 1 \in FollowUpsOf(q))
      BY <1>1 DEF FollowUpsOf
    <2> QED
      BY <1>2, <2>1, <2>2, FollowUpsFinite, FS_AddElement
  <1>3. CASE ~(m.kind = "follow_up" /\ m.question = q)
    <2>1. FollowUpsOf(q)' = FollowUpsOf(q)
      BY <1>1, <1>3 DEF FollowUpsOf
    <2> QED
      BY <1>3, <2>1
  <1> QED
    BY <1>2, <1>3

\* The counted rows, over one step.
CountsOK ==
    /\ context.followUps = Cardinality(FollowUpsOf(context.question))
    /\ \A q \in Questions : q > context.question => FollowUpsOf(q) = {}
    /\ \A q \in Questions : Cardinality(FollowUpsOf(q)) <= FollowUpBudget[q]

LEMMA CountsStep ==
    ASSUME ControlInv, ContextInv, [Next]_vars
    PROVE  CountsOK'
  <1>1. messages \in Seq(Message) /\ context.question \in Questions /\ context.question \in Nat
    BY RowTypes DEF RowsOK, Questions
  <1>2. CASE \A q \in Questions : FollowUpsOf(q)' = FollowUpsOf(q)
    <2>1. CASE /\ context'.question = context.question
               /\ context'.followUps = context.followUps
      BY <1>1, <1>2, <2>1 DEF ContextInv, CountsOK
    <2>2. CASE \E h \in Handlers : AdvanceContext(h)
      <3>1. PICK n \in Questions : /\ context'.question = n /\ context'.followUps = 0
                                   /\ n = context.question + 1
        BY <2>2, <1>1, RowTypes, ControlTypes, NextQuestion
           DEF AdvanceContext, MovedTo, RowsOK, At, HandlerOK
      <3>2. FollowUpsOf(n)' = {}
        BY <1>1, <1>2, <3>1 DEF ContextInv
      <3>3. Cardinality(FollowUpsOf(n)') = 0
        BY <3>2, FS_EmptySet
      <3>4. n \in Nat
        BY DEF Questions
      <3> QED
        BY SMTT(60), <1>1, <1>2, <3>1, <3>3, <3>4 DEF ContextInv, CountsOK, Questions
    <2>3. CASE \E h \in Handlers :
                 /\ CommitReply(h) /\ ~SameConversation
                 /\ context' = AfterReply(handlers[h].turn.kind)
      <3>1. PICK h \in Handlers : /\ CommitReply(h) /\ ~SameConversation
                                  /\ context' = AfterReply(handlers[h].turn.kind)
        BY <2>3
      <3> DEFINE m == NewMessage(handlers[h].turn.kind, handlers[h].turn.question,
                                 handlers[h].segment, None, handlers[h].answer)
      <3>2. messages' = Append(messages, m)
        BY <1>1, <3>1, ConversationKept DEF CommitReply
      <3>3. m \in Message /\ m.kind = handlers[h].turn.kind /\ m.question = context.question
        <4>1. m \in Message
          BY ControlTypes, NewMessageType DEF Handler, Turn
        <4>2. handlers[h].turn.question = context.question
          BY <3>1 DEF CommitReply, At, ContextInv, TurnOK
        <4> QED
          BY <4>1, <4>2, NewMessageFields
      <3>4. handlers[h].turn.kind # "follow_up"
        <4>1. ASSUME handlers[h].turn.kind = "follow_up" PROVE FALSE
          <5>1. PICK q \in Questions : q = context.question
            BY <1>1
          <5> HIDE DEF m
          <5>2. Cardinality(FollowUpsOf(q))' = Cardinality(FollowUpsOf(q)) + 1
            BY <1>1, <3>2, <3>3, <4>1, <5>1, FollowUpsAppend
          <5> QED
            BY <1>1, <1>2, <5>2, FollowUpsFinite
        <4> QED
          BY <4>1
      <3> QED
        BY <2>1, <3>1, <3>4, RowTypes DEF AfterReply, RowsOK
    <2> QED
      BY <2>1, <2>2, <2>3, PositionStep
  <1>3. CASE ~ \A q \in Questions : FollowUpsOf(q)' = FollowUpsOf(q)
    <2>1. ~SameConversation
      BY <1>1, <1>3, FollowUpsSame
    <2>2. PICK m \in Message :
            /\ messages' = Append(messages, m)
            /\ m.kind = "follow_up"
            /\ \E h \in Handlers :
                 /\ CommitReply(h)
                 /\ m.kind = handlers[h].turn.kind /\ m.question = handlers[h].turn.question
                 /\ context' = AfterReply(handlers[h].turn.kind)
      <3>1. PICK m \in Message :
              /\ messages' = Append(messages, m)
              /\ \/ m.kind \in {"answer", "restatement", "main_question"}
                 \/ \E h \in Handlers :
                      /\ CommitReply(h)
                      /\ m.kind = handlers[h].turn.kind /\ m.question = handlers[h].turn.question
                      /\ context' = AfterReply(handlers[h].turn.kind)
        BY <2>1, NewMessageStored, NewMessageFields
      <3>2. m.kind = "follow_up"
        BY <1>1, <1>3, <3>1, FollowUpsAppend
      <3> QED
        BY <3>1, <3>2
    <2>3. PICK h \in Handlers :
            /\ CommitReply(h)
            /\ handlers[h].turn.kind = "follow_up" /\ m.question = handlers[h].turn.question
            /\ context' = AfterReply("follow_up")
      BY <2>2
    <2>4. /\ handlers[h].turn.question = context.question
          /\ context.followUps < FollowUpBudget[context.question]
      BY <2>3 DEF CommitReply, At, ContextInv, TurnOK
    <2>5. /\ context'.question = context.question
          /\ context'.followUps = context.followUps + 1
      BY <2>3, RowTypes DEF AfterReply, RowsOK
    <2>6. PICK n \in Questions : n = context.question
      BY <1>1
    <2>7. Cardinality(FollowUpsOf(n))' = Cardinality(FollowUpsOf(n)) + 1
      BY <1>1, <2>2, <2>3, <2>4, <2>6, FollowUpsAppend
    <2>8. \A q \in Questions : q # n => FollowUpsOf(q)' = FollowUpsOf(q)
      BY <1>1, <2>2, <2>3, <2>4, <2>6, FollowUpsAppend
    <2>9. context.followUps \in Nat /\ context.followUps = Cardinality(FollowUpsOf(n))
          /\ FollowUpBudget[n] \in Nat /\ context'.question = n
      BY <2>5, <2>6, RowTypes, PlanAssumption DEF ContextInv
    <2>10. context'.followUps = Cardinality(FollowUpsOf(n))'
      BY <2>5, <2>7, <2>9
    <2>11. \A q \in Questions : q > context'.question => FollowUpsOf(q)' = {}
      BY <1>1, <2>5, <2>6, <2>8 DEF ContextInv
    <2>12. ASSUME NEW q \in Questions PROVE Cardinality(FollowUpsOf(q))' <= FollowUpBudget[q]
      <3>1. CASE q = n
        BY <2>4, <2>6, <2>7, <2>9, <3>1
      <3>2. CASE q # n
        BY <2>8, <3>2 DEF ContextInv
      <3> QED
        BY <3>1, <3>2
    <2> QED
      BY <2>9, <2>10, <2>11, <2>12 DEF CountsOK
  <1> QED
    BY <1>2, <1>3

LEMMA CompletedStep ==
    ASSUME ControlInv, ContextInv, [Next]_vars
    PROVE  (context.completed = [i \in 1..(context.question - 1) |-> i])'
  <1>1. CASE /\ context'.question = context.question
             /\ context'.completed = context.completed
    BY <1>1 DEF ContextInv
  <1>2. CASE \E h \in Handlers : AdvanceContext(h)
    <2> DEFINE n == context.question
    <2>1. n \in Nat \ {0}
      BY RowTypes DEF Questions
    <2>2. context'.question = n + 1 /\ context'.completed = Append([i \in 1..(n - 1) |-> i], n)
      BY ZenonT(60), <1>2, RowTypes DEF AdvanceContext, MovedTo, RowsOK, ContextInv
    <2> HIDE DEF n
    <2>3. Append([i \in 1..(n - 1) |-> i], n) = [i \in 1..n |-> i]
      BY <2>1
    <2> QED
      BY <2>1, <2>2, <2>3
  <1>3. CASE \E h \in Handlers :
               /\ CommitReply(h) /\ context' = AfterReply(handlers[h].turn.kind)
    BY <1>1, <1>3, RowTypes DEF AfterReply, RowsOK
  <1> QED
    BY <1>1, <1>2, <1>3, PositionStep

LEMMA ContextInvariance == Spec => []ContextInv
  <1>1. Init => ContextInv
    <2> SUFFICES ASSUME Init PROVE ContextInv
      OBVIOUS
    <2>1. \A q : FollowUpsOf(q) = {}
      BY DEF Init, FollowUpsOf
    <2>2. \A q : Cardinality(FollowUpsOf(q)) = 0
      BY <2>1, FS_EmptySet
    <2>3. context.question = 1 /\ context.followUps = 0 /\ context.completed = <<>>
      BY DEF Init
    <2>4. <<>> = [i \in 1..(1 - 1) |-> i]
      OBVIOUS
    <2>5. \A h \in Handlers : TurnOK(h)
      BY DEF Init, Idle, TurnOK
    <2> QED
      BY <2>1, <2>2, <2>3, <2>4, <2>5, PlanAssumption DEF ContextInv
  <1>2. ControlInv /\ ContextInv /\ [Next]_vars => ContextInv'
    BY TurnStep, CountsStep, CompletedStep DEF ContextInv, CountsOK
  <1> QED
    BY <1>1, <1>2, ControlInvariance, PTL DEF Spec

(* The answer that waits for its turn *)

LEMMA PendingStep ==
    ASSUME ControlInv, [Next]_vars, SameConversation
    PROVE  context'.pending = context.pending
  <1>0. messages \in Seq(Message) /\ Len(messages') = Len(messages)
    BY RowTypes DEF RowsOK, SameConversation
  <1>1. ASSUME NEW h \in Handlers, SaveAnswer(h) PROVE UNCHANGED context
    <2>1. \/ UNCHANGED context
          \/ messages' = Append(messages, NewMessage("answer", context.question,
                                OpenSegment(context.question), handlers[h].event, 0))
      BY <1>1 DEF SaveAnswer
    <2> QED
      BY <1>0, <2>1
  <1>2. ASSUME NEW h \in Handlers, CommitReply(h) PROVE UNCHANGED context
    <2>1. \/ UNCHANGED context
          \/ messages' = Append(messages, NewMessage(handlers[h].turn.kind, handlers[h].turn.question,
                                handlers[h].segment, None, handlers[h].answer))
      BY <1>2 DEF CommitReply
    <2> QED
      BY <1>0, <2>1
  <1>3. ASSUME NEW h \in Handlers, AdvanceContext(h) PROVE context'.pending = context.pending
    BY <1>3, RowTypes DEF AdvanceContext, MovedTo, RowsOK
  <1> QED
    BY <1>1, <1>2, <1>3, ContextStep

LEMMA StalledStep ==
    ASSUME ControlInv, ContextInv, StalledTurnIsRetryable, [Next]_vars
    PROVE  StalledTurnIsRetryable'
  <1>1. messages \in Seq(Message) /\ Len(messages) \in Nat /\ DOMAIN messages = 1..Len(messages)
    BY RowTypes DEF RowsOK
  <1>2. CASE SameConversation
    <2>1. DOMAIN messages' = DOMAIN messages /\ Exchange' = Exchange
      BY <1>1, <1>2 DEF SameConversation, Exchange
    <2> QED
      BY <1>1, <1>2, <2>1, PendingStep DEF StalledTurnIsRetryable, LastExchanged, SameConversation
  <1>3. CASE ~SameConversation
    <2>1. PICK m \in Message :
            /\ messages' = Append(messages, m)
            /\ \/ m.kind = "answer" /\ context'.pending = Len(messages) + 1
               \/ m.kind \in {"main_question", "follow_up", "closing"}
               \/ m.kind = "restatement" /\ UNCHANGED context
      <3>1. ASSUME NEW h \in Handlers, CommitReply(h)
            PROVE  handlers[h].turn.kind \in {"main_question", "follow_up", "closing"}
        BY <3>1 DEF CommitReply, At, ContextInv, TurnOK
      <3>2. ASSUME context' = [context EXCEPT !.pending = Len(messages) + 1]
            PROVE  context'.pending = Len(messages) + 1
        BY <3>2, RowTypes DEF RowsOK
      <3>3. ASSUME NEW h \in Handlers, CommitRestate(h) PROVE UNCHANGED context
        BY <3>3 DEF CommitRestate
      <3> QED
        BY <1>3, <3>1, <3>2, <3>3, NewMessageStored, NewMessageFields
    <2>2. /\ DOMAIN messages' = 1..(Len(messages) + 1)
          /\ \A i \in 1..Len(messages) : messages'[i] = messages[i]
          /\ messages'[Len(messages) + 1] = m
      BY <1>1, <2>1, MessageAppended
    <2>3. CASE m.kind = "restatement" /\ UNCHANGED context
      <3>1. Exchange' = Exchange
        BY <1>1, <2>2, <2>3 DEF Exchange
      <3> QED
        BY <1>1, <2>2, <2>3, <3>1 DEF StalledTurnIsRetryable, LastExchanged, Exchange
    <2>4. CASE m.kind # "restatement"
      <3>1. Len(messages) + 1 \in Exchange'
        BY <1>1, <2>2, <2>4 DEF Exchange
      <3>2. ASSUME NEW i \in DOMAIN messages', LastExchanged(i)', messages'[i].kind = "answer"
            PROVE  context'.pending = i
        <4>1. i = Len(messages) + 1
          BY <1>1, <2>2, <3>1, <3>2 DEF LastExchanged
        <4> QED
          BY <2>1, <2>2, <3>2, <4>1
      <3> QED
        BY <3>2 DEF StalledTurnIsRetryable
    <2> QED
      BY <2>1, <2>3, <2>4
  <1> QED
    BY <1>2, <1>3

LEMMA StalledInvariance == Spec => []StalledTurnIsRetryable
  <1>1. Init => StalledTurnIsRetryable
    BY DEF Init, StalledTurnIsRetryable
  <1> QED
    BY <1>1, StalledStep, ControlInvariance, ContextInvariance, PTL DEF Spec

(* Segments *)

NoOpen(q) == \A i \in 1..Len(segments) : segments[i].open => segments[i].question # q

\* Nothing is open or decided before the first message, and an advance has closed
\* the segment it comes from.
SegmentsInv ==
    /\ messages = <<>> => segments = <<>> /\ context.question = 1 /\ context.pending = 0
    /\ \A h \in Handlers : handlers[h].pc \in TurnPcs \ {"save"} => messages # <<>>
    /\ \A h \in Handlers : handlers[h].pc = "advance" => NoOpen(context.question)
    /\ OneOpenSegment

LEMMA InTurnAlready ==
    ASSUME ControlInv, [Next]_vars, NEW g \in Handlers,
           handlers'[g] # handlers[g], handlers'[g].pc \in TurnPcs \ {"save"}
    PROVE  \/ SaveAnswer(g) /\ handlers'[g].pc = "ack"
           \/ Retry(g)
           \/ handlers[g].pc \in TurnPcs \ {"save"}
  <1>1. handlers'[g].pc \in {"ack", "decide", "prepare", "advance", "reply", "commit", "seal", "publish"}
    BY DEF TurnPcs
  <1>2. \/ SaveAnswer(g) /\ handlers'[g].pc = "ack"
        \/ Acknowledge(g) \/ Retry(g) \/ DecideTurn(g) \/ PrepareAdvance(g) \/ PrepareReply(g)
        \/ AdvanceContext(g) \/ BeginReply(g) \/ CommitReply(g) \/ Seal(g)
    BY <1>1, EntersPc DEF Into
  <1> QED
    BY <1>2 DEF Acknowledge, DecideTurn, Decide, PrepareAdvance, PrepareReply, AdvanceContext,
                BeginReply, CommitReply, Seal, At, TurnPcs

LEMMA ConversationBegun ==
    ASSUME ControlInv, SegmentsInv, [Next]_vars
    PROVE  /\ (messages = <<>> => segments = <<>> /\ context.question = 1 /\ context.pending = 0)'
           /\ \A h \in Handlers : (handlers[h].pc \in TurnPcs \ {"save"} => messages # <<>>)'
  <1>1. messages \in Seq(Message) /\ (messages = <<>> <=> Len(messages) = 0)
    BY RowTypes DEF RowsOK
  <1>2. messages' = <<>> => messages = <<>> /\ SameConversation
    <2>1. CASE SameConversation
      BY <1>1, <2>1 DEF SameConversation
    <2>2. CASE ~SameConversation
      <3>1. PICK m \in Message : messages' = Append(messages, m)
        BY <2>2, NewMessageStored
      <3>2. Len(messages') = Len(messages) + 1 /\ Len(messages) \in Nat
        BY <1>1, <3>1, MessageAppended
      <3> QED
        BY <3>2
    <2> QED
      BY <2>1, <2>2
  <1>3. ASSUME messages' = <<>>
        PROVE  UNCHANGED segments /\ UNCHANGED context
               /\ \A h \in Handlers : ~(handlers'[h].pc \in TurnPcs \ {"save"})
    <2>1. messages = <<>> /\ \A h \in Handlers : ~(handlers[h].pc \in TurnPcs \ {"save"})
      BY <1>2, <1>3 DEF SegmentsInv
    <2>2. ASSUME NEW h \in Handlers, SaveAnswer(h)
          PROVE  ~Into(h, {"ack"}) /\ UNCHANGED context
      <3>1. Saved(handlers[h].event) = {}
        BY <1>1, <2>1 DEF Saved
      <3>2. ~Accepts
        BY <1>1, <1>3, <2>2, <3>1 DEF SaveAnswer
      <3> QED
        BY <2>2, <3>2, ControlTypes DEF SaveAnswer, ReleaseAndReturn, Return, Idle, Into
    <2>3. ASSUME NEW h \in Handlers
          PROVE  ~AdvanceContext(h) /\ ~CommitReply(h) /\ ~PrepareAdvance(h) /\ ~Seal(h)
      BY <2>1 DEF AdvanceContext, CommitReply, PrepareAdvance, Seal, At, TurnPcs
    <2>4. UNCHANGED context
      BY <2>2, <2>3, ContextStep
    <2>5. ASSUME NEW h \in Handlers, Start(h) PROVE FALSE
      BY <1>3, <2>1, <2>5 DEF Start
    <2>6. ASSUME NEW h \in Handlers, FinishClose(h) PROVE UNCHANGED segments
      <3>1. OpenSegment(context.question) = 0
        BY <2>1 DEF SegmentsInv, OpenSegment
      <3> QED
        BY <2>6, <3>1 DEF FinishClose, CloseSegment
    <2>7. UNCHANGED segments
      BY <2>3, <2>5, <2>6, SegmentsStep
    <2>8. ASSUME NEW h \in Handlers, Retry(h) PROVE FALSE
      BY <2>1, <2>8 DEF SegmentsInv, Retry
    <2>9. \A h \in Handlers : ~(handlers'[h].pc \in TurnPcs \ {"save"})
      BY <2>1, <2>2, <2>8, InTurnAlready DEF Into
    <2> QED
      BY <2>4, <2>7, <2>9
  <1> QED
    BY <1>2, <1>3 DEF SegmentsInv

\* Closing the segment of a question leaves at most the next one open.
LEMMA CloseKeeps ==
    ASSUME segments \in Seq(Segment), messages \in Seq(Message), OneOpenSegment,
           UNCHANGED context, NEW q \in Questions, NEW next \in Questions \cup {0},
           CloseSegment(q, next),
           next # 0 => next = context.question + 1
    PROVE  /\ OneOpenSegment'
           /\ NoOpen(q)' \/ next = q
           /\ \A p : NoOpen(p) /\ p # next => NoOpen(p)'
  <1>0. DOMAIN segments = 1..Len(segments) /\ Len(segments) \in Nat
    OBVIOUS
  <1>1. CASE OpenSegment(q) = 0
    <2>1. UNCHANGED segments
      BY <1>1 DEF CloseSegment
    <2>2. NoOpen(q)
      BY <1>0, <1>1, OpenSegmentFound DEF NoOpen
    <2> QED
      BY <2>1, <2>2 DEF OneOpenSegment, NoOpen
  <1>2. CASE OpenSegment(q) # 0
    <2>1. PICK s \in 1..Len(segments) : s = OpenSegment(q) /\ segments[s].open
      BY <1>0, <1>2, OpenSegmentFound
    <2>2. PICK c \in Seq(Segment) : c = Closed(s, q)
      BY <2>1, SegmentTypes
    <2>3. Len(c) = Len(segments) /\ ~c[s].open
          /\ \A i \in 1..Len(segments) : i # s => c[i] = segments[i]
      BY <2>1, <2>2, SegmentTypes
    <2>4. \A i \in 1..Len(c) : ~c[i].open
      BY <1>0, <2>1, <2>3 DEF OneOpenSegment
    <2>5. \/ segments' = c
          \/ segments' = Append(c, NewSegment(next)) /\ next # 0
      BY <1>2, <2>1, <2>2, CloseSegmentRows
    <2>6. CASE segments' = c
      BY <2>4, <2>6 DEF OneOpenSegment, NoOpen
    <2>7. CASE segments' = Append(c, NewSegment(next)) /\ next # 0
      <3>1. NewSegment(next) \in Segment /\ NewSegment(next).question = next
        BY <2>7 DEF NewSegment, Segment
      <3>2. /\ Len(segments') = Len(c) + 1 /\ Len(c) \in Nat
            /\ DOMAIN segments' = 1..(Len(c) + 1)
            /\ \A i \in 1..Len(c) : segments'[i] = c[i]
            /\ segments'[Len(c) + 1].question = next
        BY <2>7, <3>1, AppendProperties
      <3>3. \A i \in 1..(Len(c) + 1) : segments'[i].open => i = Len(c) + 1
        BY <2>4, <3>2
      <3> QED
        BY <2>7, <3>2, <3>3 DEF OneOpenSegment, NoOpen
    <2> QED
      BY <2>5, <2>6, <2>7
  <1> QED
    BY <1>1, <1>2

\* A handler that has advanced the segments has left none open behind it.
LEMMA AdvancedStep ==
    ASSUME ControlInv, SegmentsInv, [Next]_vars, NEW g \in Handlers, handlers'[g].pc = "advance"
    PROVE  NoOpen(context.question)'
  <1>0. segments \in Seq(Segment) /\ messages \in Seq(Message) /\ context.question \in Questions
    BY RowTypes DEF RowsOK
  <1>1. CASE handlers'[g] # handlers[g]
    <2>1. PrepareAdvance(g)
      BY <1>1, EntersPc DEF Into
    <2>2. UNCHANGED context /\ CloseSegment(context.question, context.question + 1)
          /\ context.question + 1 \in Questions
      BY <1>0, <2>1, PreparedGuard, NextQuestion DEF PrepareAdvance
    <2>3. PICK n \in Questions : n = context.question
      BY <1>0
    <2>4. PICK k \in Questions : k = n + 1 /\ k # 0 /\ k # n
      BY <2>2, <2>3 DEF Questions
    <2>5. NoOpen(n)'
      BY <1>0, <2>2, <2>3, <2>4, CloseKeeps DEF SegmentsInv
    <2> QED
      BY <2>2, <2>3, <2>5 DEF NoOpen
  <1>2. CASE handlers'[g] = handlers[g]
    <2>1. handlers[g].pc = "advance" /\ NoOpen(context.question) /\ messages # <<>>
      BY <1>2 DEF SegmentsInv, TurnPcs
    <2>2. ASSUME NEW h \in Handlers, AdvanceContext(h) \/ CommitReply(h) \/ SaveAnswer(h)
                                     \/ PrepareAdvance(h) \/ Seal(h)
          PROVE  FALSE
      <3>1. h = g
        BY <2>1, <2>2, TurnHolder, PcNames
           DEF AdvanceContext, CommitReply, SaveAnswer, PrepareAdvance, Seal, At
      <3>2. handlers'[h].pc # handlers[h].pc
        BY <2>2, LeadTo DEF AdvanceContext, CommitReply, SaveAnswer, PrepareAdvance, Seal, At, Into
      <3> QED
        BY <1>2, <3>1, <3>2
    <2>3. UNCHANGED context
      BY <2>2, ContextStep
    <2>4. PICK n \in Questions : n = context.question
      BY <1>0
    <2>5. CASE UNCHANGED segments
      BY <2>1, <2>3, <2>5 DEF NoOpen
    <2>6. CASE \E h \in Handlers : FinishClose(h)
      <3>1. CloseSegment(context.question, 0)
        BY <2>6 DEF FinishClose
      <3>2. n # 0
        BY DEF Questions
      <3>3. NoOpen(n)'
        BY <1>0, <2>1, <2>3, <2>4, <3>1, <3>2, CloseKeeps DEF SegmentsInv
      <3> QED
        BY <2>3, <2>4, <3>3 DEF NoOpen
    <2>7. CASE \E h \in Handlers : Start(h)
      BY <2>1, <2>5, <2>7 DEF Start
    <2> QED
      BY <2>2, <2>5, <2>6, <2>7, SegmentsStep
  <1> QED
    BY <1>1, <1>2

LEMMA OneOpenStep ==
    ASSUME ControlInv, SegmentsInv, [Next]_vars
    PROVE  OneOpenSegment'
  <1>0. /\ segments \in Seq(Segment) /\ messages \in Seq(Message)
        /\ context.question \in Questions /\ context.question \in Nat
        /\ DOMAIN segments = 1..Len(segments)
    BY RowTypes DEF RowsOK, Questions
  <1>1. CASE UNCHANGED segments
    <2>1. CASE context'.question = context.question
      BY <1>1, <2>1 DEF SegmentsInv, OneOpenSegment
    <2>2. CASE \E h \in Handlers : AdvanceContext(h)
      <3>1. PICK h \in Handlers : AdvanceContext(h)
        BY <2>2
      <3>2. NoOpen(context.question)
        BY <3>1 DEF AdvanceContext, At, SegmentsInv
      <3>3. context'.question = context.question + 1
        BY <3>1, RowTypes DEF AdvanceContext, MovedTo, RowsOK
      <3> QED
        BY <1>0, <1>1, <3>2, <3>3 DEF SegmentsInv, OneOpenSegment, NoOpen
    <2>3. CASE \E h \in Handlers : CommitReply(h) /\ context' = AfterReply(handlers[h].turn.kind)
      BY <2>1, <2>3, RowTypes DEF AfterReply, RowsOK
    <2> QED
      BY <2>1, <2>2, <2>3, PositionStep
  <1>2. ASSUME NEW h \in Handlers, Start(h) PROVE OneOpenSegment'
    <2>1. CASE messages = <<>>
      <3>1. segments = <<>> /\ context.question = 1 /\ UNCHANGED context
        BY <1>2, <2>1 DEF Start, SegmentsInv
      <3>2. segments' = <<NewSegment(1)>>
        BY <1>2, <2>1, <3>1 DEF Start
      <3> QED
        BY <3>1, <3>2 DEF OneOpenSegment, NewSegment
    <2>2. CASE messages # <<>>
      BY <1>1, <1>2, <2>2 DEF Start
    <2> QED
      BY <2>1, <2>2
  <1>3. ASSUME NEW h \in Handlers, PrepareAdvance(h) \/ Seal(h) \/ FinishClose(h)
        PROVE  OneOpenSegment'
    <2>1. UNCHANGED context
      BY <1>3, CloseRows
    <2>2. PICK q \in Questions, next \in Questions \cup {0} :
            /\ CloseSegment(q, next)
            /\ next # 0 => next = context.question + 1
      <3>1. CASE PrepareAdvance(h)
        BY <1>0, <3>1, PreparedGuard, NextQuestion DEF PrepareAdvance
      <3>2. CASE Seal(h)
        <4>1. handlers[h].turn.question \in Questions
          BY ControlTypes DEF Handler, Turn
        <4> QED
          BY <3>2, <4>1 DEF Seal
      <3>3. CASE FinishClose(h)
        BY <1>0, <3>3 DEF FinishClose
      <3> QED
        BY <1>3, <3>1, <3>2, <3>3
    <2> QED
      BY <1>0, <2>1, <2>2, CloseKeeps DEF SegmentsInv
  <1> QED
    BY <1>1, <1>2, <1>3, SegmentsStep

LEMMA SegmentsInvariance == Spec => []SegmentsInv
  <1>1. Init => SegmentsInv
    BY DEF Init, SegmentsInv, OneOpenSegment, Idle, TurnPcs
  <1>2. ControlInv /\ SegmentsInv /\ [Next]_vars => SegmentsInv'
    BY ConversationBegun, AdvancedStep, OneOpenStep DEF SegmentsInv
  <1> QED
    BY <1>1, <1>2, ControlInvariance, PTL DEF Spec

(* Replies *)

\* The program counters of a turn that has its answer and no reply yet.
Working == {"ack", "decide", "prepare", "advance", "reply", "commit"}

\* How a handler comes to work on an answer, and that it then keeps to it.
LEMMA WorkStep ==
    ASSUME ControlInv, [Next]_vars, NEW g \in Handlers,
           handlers'[g] # handlers[g], handlers'[g].pc \in Working
    PROVE  \/ SaveAnswer(g) /\ handlers'[g].pc = "ack"
           \/ Retry(g) /\ handlers'[g].answer = context.pending
           \/ /\ handlers[g].pc \in Working \ {"commit"}
              /\ handlers'[g].answer = handlers[g].answer
              /\ handlers'[g].op = handlers[g].op
  <1> USE ControlTypes
  <1>1. \/ SaveAnswer(g) /\ handlers'[g].pc = "ack"
        \/ Acknowledge(g) \/ Retry(g) \/ DecideTurn(g) \/ PrepareAdvance(g) \/ PrepareReply(g)
        \/ AdvanceContext(g) \/ BeginReply(g)
    BY EntersPc DEF Into, Working
  <1>2. CASE Acknowledge(g)
    BY <1>2 DEF Acknowledge, At, Handler, Working
  <1>3. CASE Retry(g)
    BY <1>3 DEF Retry, Idle
  <1>4. CASE DecideTurn(g)
    BY <1>4 DEF DecideTurn, Decide, At, Handler, Working
  <1>5. CASE PrepareAdvance(g) \/ PrepareReply(g)
    BY <1>5 DEF PrepareAdvance, PrepareReply, SetTurn, At, Handler, Working
  <1>6. CASE AdvanceContext(g)
    BY <1>6 DEF AdvanceContext, Goto, At, Handler, Working
  <1>7. CASE BeginReply(g)
    BY <1>7 DEF BeginReply, ReadTail, At, Handler, Working
  <1> QED
    BY <1>1, <1>2, <1>3, <1>4, <1>5, <1>6, <1>7

\* Message n has no reply.
Unanswered(n) == n \in 1..Len(messages) /\ \A i \in 1..Len(messages) : messages[i].to # n

\* What is being worked on is a message; if a retry took it up, or if it waits
\* for one, it has no reply.
RepliesInv ==
    /\ \A i \in 1..Len(messages) : messages[i].to <= Len(messages)
    /\ \A h \in Handlers : handlers[h].pc \in Working =>
          /\ handlers[h].answer <= Len(messages)
          /\ handlers[h].op = "retry" => Unanswered(handlers[h].answer)
    /\ context.pending # 0 => Unanswered(context.pending)

\* What a step adds to the transcript, as far as replies go.
LEMMA ReplyAdded ==
    ASSUME ControlInv, [Next]_vars, ~SameConversation
    PROVE  \E m \in Message :
             /\ Len(messages) \in Nat /\ Len(messages') = Len(messages) + 1
             /\ \A i \in 1..Len(messages) : messages'[i] = messages[i]
             /\ messages'[Len(messages) + 1] = m
             /\ \A i \in 1..Len(messages') : i \in 1..Len(messages) \/ i = Len(messages) + 1
             /\ \/ m.to = 0 /\ context'.pending = Len(messages) + 1
                \/ m.to = 0 /\ UNCHANGED context
                \/ /\ \E h \in Handlers : CommitReply(h) /\ m.to = handlers[h].answer
                   /\ context'.pending = 0
  <1>1. messages \in Seq(Message)
    BY RowTypes DEF RowsOK
  <1>2. PICK m \in Message :
          /\ messages' = Append(messages, m)
          /\ \/ m.to = 0 /\ context' = [context EXCEPT !.pending = Len(messages) + 1]
             \/ m.to = 0 /\ UNCHANGED context
             \/ \E h \in Handlers : /\ CommitReply(h) /\ m.to = handlers[h].answer
                                    /\ context' = AfterReply(handlers[h].turn.kind)
    <2>1. ASSUME NEW h \in Handlers, CommitRestate(h) \/ Start(h) PROVE UNCHANGED context
      BY <2>1 DEF CommitRestate, Start
    <2> QED
      BY <2>1, NewMessageStored, NewMessageFields
  <1>3. context' = [context EXCEPT !.pending = Len(messages) + 1] => context'.pending = Len(messages) + 1
    BY RowTypes DEF RowsOK
  <1>4. \A kind : context' = AfterReply(kind) => context'.pending = 0
    BY RowTypes DEF RowsOK, AfterReply
  <1>5. /\ Len(messages) \in Nat /\ Len(messages') = Len(messages) + 1
        /\ \A i \in 1..Len(messages) : messages'[i] = messages[i]
        /\ messages'[Len(messages) + 1] = m
        /\ \A i \in 1..Len(messages') : i \in 1..Len(messages) \/ i = Len(messages) + 1
    BY <1>1, <1>2, MessageAppended
  <1> QED
    BY <1>2, <1>3, <1>4, <1>5

LEMMA UnansweredKept ==
    ASSUME ControlInv, [Next]_vars, NEW n, Unanswered(n),
           \A h \in Handlers : CommitReply(h) => handlers[h].answer # n
    PROVE  Unanswered(n)'
  <1>1. CASE SameConversation
    <2>1. n \in 1..Len(messages') /\ \A i \in 1..Len(messages') : messages'[i].to # n
      BY <1>1 DEF SameConversation, Unanswered
    <2> QED
      BY <2>1 DEF Unanswered
  <1>2. CASE ~SameConversation
    <2>1. n # 0
      BY DEF Unanswered
    <2>2. /\ Len(messages) \in Nat /\ Len(messages') = Len(messages) + 1
          /\ \A i \in 1..Len(messages) : messages'[i] = messages[i]
          /\ messages'[Len(messages) + 1].to # n
          /\ \A i \in 1..Len(messages') : i \in 1..Len(messages) \/ i = Len(messages) + 1
      BY <1>2, <2>1, ReplyAdded
    <2>3. n \in 1..Len(messages') /\ \A i \in 1..Len(messages') : messages'[i].to # n
      BY <2>2 DEF Unanswered
    <2> QED
      BY <2>3 DEF Unanswered
  <1> QED
    BY <1>1, <1>2

\* Only the one turn there is replies, and it is then no longer working.
LEMMA OnlyWorker ==
    ASSUME ControlInv, [Next]_vars, NEW g \in Handlers, handlers[g].pc \in Working,
           handlers'[g] = handlers[g] \/ handlers[g].pc # "commit",
           NEW h \in Handlers, CommitReply(h)
    PROVE  FALSE
  <1>1. handlers[h].pc = "commit"
    BY DEF CommitReply, At
  <1>2. g = h
    BY <1>1, TurnHolder, PcNames DEF Working
  <1>3. handlers'[h].pc # "commit"
    BY LeadTo DEF Into
  <1> QED
    BY <1>1, <1>2, <1>3

\* A handler that saves goes on with a message, new or stored before.
LEMMA SavesMessage ==
    ASSUME ControlInv, NEW g \in Handlers, SaveAnswer(g), handlers'[g].pc = "ack"
    PROVE  handlers'[g].answer <= Len(messages') /\ handlers'[g].op = "submit"
  <1> DEFINE e == handlers[g].event
             m == NewMessage("answer", context.question, OpenSegment(context.question), e, 0)
  <1>1. Accepts
    BY ControlTypes DEF SaveAnswer, ReleaseAndReturn, Return, Idle
  <1>2. handlers[g].op = "submit" /\ handlers[g].pc = "save"
    BY ControlTypes DEF SaveAnswer, At, HandlerOK
  <1>3. messages \in Seq(Message) /\ Len(messages) \in Nat /\ handlers \in [Handlers -> Handler]
    BY ControlTypes, RowTypes DEF RowsOK
  <1>4. CASE Saved(e) # {}
    <2>1. /\ handlers' = [handlers EXCEPT ![g].pc = "ack", ![g].answer = CHOOSE i \in Saved(e) : TRUE]
          /\ UNCHANGED messages
      BY <1>1, <1>4 DEF SaveAnswer
    <2>2. PICK n : n = CHOOSE i \in Saved(e) : TRUE
      OBVIOUS
    <2>3. n \in 1..Len(messages)
      BY <1>3, <1>4, <2>2 DEF Saved
    <2>4. handlers'[g].answer = n /\ handlers'[g].op = handlers[g].op
      BY <1>3, <2>1, <2>2 DEF Handler
    <2>5. Len(messages') = Len(messages)
      BY <2>1
    <2> QED
      BY <1>2, <1>3, <2>3, <2>4, <2>5
  <1>5. CASE Saved(e) = {}
    <2>1. /\ handlers' = [handlers EXCEPT ![g].pc = "ack", ![g].answer = Len(messages) + 1]
          /\ messages' = Append(messages, m)
      BY <1>1, <1>5 DEF SaveAnswer
    <2>2. handlers'[g].answer = Len(messages) + 1 /\ handlers'[g].op = handlers[g].op
      BY <1>3, <2>1 DEF Handler
    <2>3. Len(messages') = Len(messages) + 1
      BY <1>3, <2>1
    <2> QED
      BY <1>2, <1>3, <2>2, <2>3
  <1> QED
    BY <1>4, <1>5

\* The last message of a transcript that has just grown has no reply.
LEMMA NewUnanswered ==
    ASSUME ControlInv, RepliesInv, [Next]_vars, ~SameConversation,
           ~ \E h \in Handlers : CommitReply(h), NEW n \in Nat, n = Len(messages) + 1
    PROVE  Unanswered(n)'
  <1>1. ASSUME NEW i \in 1..Len(messages) PROVE messages[i].to \in Nat /\ messages[i].to < n
    <2>1. messages[i] \in Message
      BY RowTypes, ElementOfSeq DEF RowsOK
    <2>2. messages[i].to \in Nat /\ messages[i].to <= Len(messages) /\ Len(messages) \in Nat
      BY <2>1, RowTypes DEF RepliesInv, Message
    <2> QED
      BY <2>2
  <1>2. /\ Len(messages) \in Nat /\ Len(messages') = n
        /\ \A i \in 1..Len(messages) : messages'[i] = messages[i]
        /\ messages'[n].to = 0
        /\ \A i \in 1..Len(messages') : i \in 1..Len(messages) \/ i = n
    BY ReplyAdded
  <1>3. n \in 1..Len(messages') /\ \A i \in 1..Len(messages') : messages'[i].to # n
    BY <1>1, <1>2
  <1> QED
    BY <1>3 DEF Unanswered

LEMMA RepliesStep ==
    ASSUME ControlInv, RepliesInv, [Next]_vars PROVE RepliesInv'
  <1>0. /\ messages \in Seq(Message) /\ Len(messages) \in Nat /\ context.pending \in Nat
        /\ \A h \in Handlers : handlers[h].answer \in Nat
    BY RowTypes, ControlTypes DEF RowsOK, Handler
  <1>1. ASSUME NEW i \in 1..Len(messages') PROVE messages'[i].to <= Len(messages')
    <2>0. ASSUME NEW k \in 1..Len(messages) PROVE messages[k].to \in Nat
      <3>1. messages[k] \in Message
        BY <1>0, ElementOfSeq
      <3> QED
        BY <3>1 DEF Message
    <2>1. CASE SameConversation
      BY <1>0, <2>1 DEF RepliesInv, SameConversation
    <2>2. CASE ~SameConversation
      <3>1. PICK m \in Message :
              /\ Len(messages') = Len(messages) + 1
              /\ \A k \in 1..Len(messages) : messages'[k] = messages[k]
              /\ messages'[Len(messages) + 1] = m
              /\ \A k \in 1..Len(messages') : k \in 1..Len(messages) \/ k = Len(messages) + 1
              /\ m.to = 0 \/ \E h \in Handlers : CommitReply(h) /\ m.to = handlers[h].answer
        BY <2>2, ReplyAdded
      <3>2. m.to \in Nat /\ m.to <= Len(messages)
        <4>1. m.to \in Nat
          BY <3>1 DEF Message
        <4>2. CASE m.to = 0
          BY <1>0, <4>1, <4>2
        <4>3. CASE \E h \in Handlers : CommitReply(h) /\ m.to = handlers[h].answer
          <5>1. PICK h \in Handlers : CommitReply(h) /\ m.to = handlers[h].answer
            BY <4>3
          <5>2. handlers[h].pc = "commit"
            BY <5>1 DEF CommitReply, At
          <5>3. handlers[h].answer <= Len(messages)
            BY <5>2 DEF RepliesInv, Working
          <5> QED
            BY <4>1, <5>1, <5>3
        <4> QED
          BY <3>1, <4>2, <4>3
      <3>3. CASE i = Len(messages) + 1
        <4>1. messages'[i].to = m.to /\ Len(messages') = Len(messages) + 1
          BY <3>1, <3>3
        <4> QED
          BY <1>0, <3>2, <4>1
      <3>4. CASE i \in 1..Len(messages)
        <4>1. messages'[i].to = messages[i].to /\ messages[i].to <= Len(messages)
          BY <3>1, <3>4 DEF RepliesInv
        <4> QED
          BY <1>0, <2>0, <3>1, <3>4, <4>1
      <3> QED
        BY <3>1, <3>3, <3>4
    <2> QED
      BY <2>1, <2>2
  <1>a. Len(messages') \in Nat /\ Len(messages) <= Len(messages')
    <2>1. CASE SameConversation
      BY <1>0, <2>1 DEF SameConversation
    <2>2. CASE ~SameConversation
      BY <1>0, <2>2, ReplyAdded
    <2> QED
      BY <2>1, <2>2
  <1>2. ASSUME NEW g \in Handlers, handlers'[g].pc \in Working
        PROVE  /\ handlers'[g].answer <= Len(messages')
               /\ handlers'[g].op = "retry" => Unanswered(handlers[g].answer)'
    <2>1. PICK n : n = handlers'[g].answer
      OBVIOUS
    <2>2. CASE \/ handlers'[g] = handlers[g]
               \/ /\ handlers[g].pc \in Working \ {"commit"}
                  /\ handlers'[g].answer = handlers[g].answer
                  /\ handlers'[g].op = handlers[g].op
      <3>1. handlers[g].pc \in Working /\ n = handlers[g].answer /\ handlers'[g].op = handlers[g].op
        BY <1>2, <2>1, <2>2
      <3>2. n \in Nat /\ n <= Len(messages)
        BY <1>0, <3>1 DEF RepliesInv
      <3>3. ~ \E h \in Handlers : CommitReply(h)
        BY <2>2, <3>1, OnlyWorker
      <3>4. ASSUME handlers'[g].op = "retry" PROVE Unanswered(n)'
        BY <3>1, <3>3, <3>4, UnansweredKept DEF RepliesInv
      <3> QED
        BY <1>0, <1>a, <2>1, <3>2, <3>4 DEF Unanswered
    <2>3. CASE SaveAnswer(g) /\ handlers'[g].pc = "ack"
      BY <2>3, SavesMessage
    <2>4. CASE Retry(g) /\ handlers'[g].answer = context.pending
      <3>1. Unanswered(n) /\ UNCHANGED messages
        BY <2>1, <2>4 DEF RepliesInv, Retry, rowVars
      <3>2. n \in 1..Len(messages') /\ \A i \in 1..Len(messages') : messages'[i].to # n
        BY <3>1 DEF Unanswered
      <3> QED
        BY <1>a, <2>1, <3>2 DEF Unanswered
    <2> QED
      BY <1>2, <2>2, <2>3, <2>4, WorkStep
  <1>3. ASSUME context'.pending # 0 PROVE Unanswered(context.pending)'
    <2>1. PICK n : n = context'.pending
      OBVIOUS
    <2>2. CASE SameConversation
      <3>1. Unanswered(n)
        BY <1>3, <2>1, <2>2, PendingStep DEF RepliesInv
      <3>2. n \in 1..Len(messages') /\ \A i \in 1..Len(messages') : messages'[i].to # n
        BY <2>2, <3>1 DEF Unanswered, SameConversation
      <3> QED
        BY <2>1, <3>2 DEF Unanswered
    <2>3. CASE ~SameConversation
      <3>1. \/ n = Len(messages) + 1
            \/ UNCHANGED context
        BY <1>3, <2>1, <2>3, ReplyAdded
      <3>2. ~ \E h \in Handlers : CommitReply(h)
        <4>1. ASSUME NEW h \in Handlers, CommitReply(h) PROVE context'.pending = 0
          <5>1. ~UNCHANGED messages
            BY <1>0, <2>3, ConversationKept
          <5>2. context' = AfterReply(handlers[h].turn.kind)
            BY <4>1, <5>1 DEF CommitReply
          <5> QED
            BY <5>2, RowTypes DEF RowsOK, AfterReply
        <4> QED
          BY <1>3, <4>1
      <3>3. CASE n = Len(messages) + 1
        <4>1. Unanswered(n)'
          BY <1>0, <2>3, <3>2, <3>3, NewUnanswered
        <4> QED
          BY <2>1, <4>1 DEF Unanswered
      <3>4. CASE UNCHANGED context
        <4>1. Unanswered(n)
          BY <1>3, <2>1, <3>4 DEF RepliesInv
        <4>2. Unanswered(n)'
          BY <3>2, <4>1, UnansweredKept
        <4> QED
          BY <2>1, <4>2 DEF Unanswered
      <3> QED
        BY <3>1, <3>3, <3>4
    <2> QED
      BY <2>2, <2>3
  <1> QED
    BY <1>1, <1>2, <1>3 DEF RepliesInv

(* Questions *)

\* The transcript only grows, and what it says of a question stays.
LEMMA ConversationGrows ==
    ASSUME ControlInv, [Next]_vars
    PROVE  /\ Len(messages) \in Nat /\ Len(messages') \in Nat /\ Len(messages) <= Len(messages')
           /\ DOMAIN messages = 1..Len(messages) /\ DOMAIN messages' = 1..Len(messages')
           /\ \A i \in 1..Len(messages) : /\ messages'[i].kind = messages[i].kind
                                          /\ messages'[i].question = messages[i].question
           /\ SameConversation => Len(messages') = Len(messages)
           /\ ~SameConversation => /\ Len(messages') = Len(messages) + 1
                                   /\ \E m \in Message : messages' = Append(messages, m)
  <1>1. messages \in Seq(Message)
    BY RowTypes DEF RowsOK
  <1>2. CASE SameConversation
    BY <1>1, <1>2 DEF SameConversation
  <1>3. CASE ~SameConversation
    <2>1. PICK m \in Message : messages' = Append(messages, m)
      BY <1>3, NewMessageStored
    <2>2. /\ messages' \in Seq(Message) /\ Len(messages) \in Nat
          /\ Len(messages') = Len(messages) + 1
          /\ \A i \in 1..Len(messages) : messages'[i] = messages[i]
      BY <1>1, <2>1, MessageAppended
    <2> QED
      BY <1>1, <1>3, <2>1, <2>2
  <1> QED
    BY <1>2, <1>3

LEMMA AskedKept ==
    ASSUME ControlInv, [Next]_vars, NEW q, NEW b \in Int, b <= Len(messages), Asked(q, b),
           NEW c \in Int, b <= c
    PROVE  Asked(q, c)'
  <1>1. PICK j \in 1..b : messages[j].kind = "main_question" /\ messages[j].question = q
    BY DEF Asked
  <1>2. j \in 1..Len(messages) /\ j \in 1..c
    BY ConversationGrows
  <1>3. messages'[j].kind = "main_question" /\ messages'[j].question = q
    BY <1>1, <1>2, ConversationGrows
  <1> QED
    BY <1>2, <1>3 DEF Asked

\* What the theorem about questions supposes: nothing fails, nothing is restated,
\* and no request resumes an interview that was never started.
NothingFails == ~Faults /\ ~("restate" \in SocketOps) /\ ~("resume" \in RequestOps)

\* The current question has been put to the candidate or is about to be.
Asking(h) == handlers[h].pc \in {"reply", "commit"} /\ handlers[h].turn.kind = "main_question"

QuestionsInv ==
    /\ messages = <<>> => ~(status \in {"interviewing", "paused"})
                          /\ \A h \in Handlers : handlers[h].pc # "write"
    /\ \A h \in Handlers : handlers[h].pc = "commit" => handlers[h].tail = Len(messages) + 1
    /\ \A h \in Handlers : ~(handlers[h].pc \in {"restate", "restated"})
    /\ \/ messages = <<>>
       \/ Asked(context.question, Len(messages))
       \/ \E h \in Handlers : Asking(h)
    /\ QuestionsAreAsked

LEMMA StatusStep ==
    ASSUME ControlInv, [Next]_vars
    PROVE  \/ UNCHANGED status
           \/ status' \in {"completed", "evaluating"}
           \/ \E h \in Handlers : Start(h) \/ WriteStatus(h)
  <1>1. CASE ~UNCHANGED status
    <2>1. CASE \E h \in Handlers : HandlerStep(h)
      BY <1>1, <2>1 DEF HandlerStep, Acquire, SaveAnswer, Acknowledge, DecideTurn, Decide,
         PrepareReply, PrepareAdvance, AdvanceContext, BeginReply, CommitReply, Seal, Publish,
         BeginRestate, CommitRestate, FinishClose, FinishComplete, rowVars
    <2>2. CASE BeginEvaluation \/ EndEvaluation
      BY <2>2 DEF BeginEvaluation, EndEvaluation
    <2>3. CASE Crash \/ Tick \/ UNCHANGED vars
      BY <1>1, <2>3 DEF Crash, Tick, vars, rowVars
    <2> QED
      BY <1>1, <2>1, <2>2, <2>3, WhoSteps, OnlyRegistry DEF rowVars
  <1> QED
    BY <1>1

\* Without faults a turn that reaches its reply commits it.
LEMMA QuietStep ==
    ASSUME NothingFails, ControlInv, [Next]_vars, NEW g \in Handlers, handlers'[g] # handlers[g]
    PROVE  /\ Into(g, {"write"}) => AskPause(g) \/ AskResume(g)
           /\ Into(g, {"restate"}) => FALSE
           /\ Into(g, {"restated"}) => BeginRestate(g)
           /\ handlers[g].pc = "reply" => BeginReply(g)
           /\ handlers[g].pc = "commit" => CommitReply(g)
  <1>1. CASE Crash
    BY <1>1 DEF Crash, NothingFails
  <1>2. CASE BeginEvaluation \/ EndEvaluation \/ Tick \/ UNCHANGED vars
    BY <1>2 DEF BeginEvaluation, EndEvaluation, Tick, vars
  <1>3. ASSUME NEW h \in Handlers, ControlStep(h) PROVE h = g
    BY <1>3 DEF ControlStep, Moved
  <1>4. CASE HandlerStep(g)
    <2>1. /\ handlers[g].pc = "reply" => BeginReply(g)
          /\ handlers[g].pc = "commit" => CommitReply(g)
      <3> DEFINE elsewhere == ~(handlers[g].pc \in {"reply", "commit"})
      <3>1. Start(g) \/ Acquire(g) \/ SaveAnswer(g) \/ Acknowledge(g) => elsewhere
        BY DEF Start, Acquire, SaveAnswer, Acknowledge, At
      <3>2. DecideTurn(g) \/ PrepareReply(g) \/ PrepareAdvance(g) => elsewhere
        BY DEF DecideTurn, Decide, PrepareReply, PrepareAdvance, At
      <3>3. AdvanceContext(g) \/ Seal(g) \/ Publish(g) => elsewhere
        BY DEF AdvanceContext, Seal, Publish, At
      <3>4. BeginRestate(g) \/ CommitRestate(g) \/ WriteStatus(g) => elsewhere
        BY DEF BeginRestate, CommitRestate, WriteStatus, At
      <3>5. FinishClose(g) \/ FinishComplete(g) => elsewhere
        BY DEF FinishClose, FinishComplete, At
      <3>6. BeginReply(g) => handlers[g].pc = "reply"
        BY DEF BeginReply, At
      <3>7. CommitReply(g) => handlers[g].pc = "commit"
        BY DEF CommitReply, At
      <3> QED
        BY <1>4, <3>1, <3>2, <3>3, <3>4, <3>5, <3>6, <3>7 DEF HandlerStep
    <2>2. /\ ~Into(g, {"write"}) /\ ~Into(g, {"restate"})
          /\ Into(g, {"restated"}) => BeginRestate(g)
      BY <1>4, LeadTo DEF HandlerStep, Into
    <2> QED
      BY <2>1, <2>2
  <1>5. CASE \/ StartRequest(g) \/ AskPause(g) \/ AskResume(g) \/ AskFinish(g)
             \/ ReceiveAnswer(g) \/ Retry(g)
    <2>1. handlers[g].pc = "idle"
      BY <1>5 DEF StartRequest, AskPause, AskResume, AskFinish, ReceiveAnswer, Retry, Load, At
    <2> QED
      BY <1>5, <2>1, AsksLeadTo DEF Into
  <1>6. ~ProviderFails(g) /\ ~Drop(g) /\ ~AskRestate(g)
    BY DEF ProviderFails, Drop, AskRestate, NothingFails
  <1> QED
    BY <1>1, <1>2, <1>3, <1>4, <1>5, <1>6, WhoSteps

\* What a step adds, when nothing fails.
LEMMA QuietAdds ==
    ASSUME NothingFails, ControlInv, ContextInv, SegmentsInv, QuestionsInv, [Next]_vars,
           ~SameConversation
    PROVE  \E m \in Message :
             /\ messages' = Append(messages, m)
             /\ \/ /\ messages # <<>> /\ m.kind = "answer"
                   /\ \E h \in Handlers : SaveAnswer(h)
                \/ /\ messages # <<>> /\ m.question = context.question
                   /\ \E h \in Handlers : CommitReply(h) /\ m.kind = handlers[h].turn.kind
                \/ /\ messages = <<>> /\ m.kind = "main_question" /\ m.question = 1
                   /\ context.question = 1 /\ \E h \in Handlers : Start(h)
  <1>1. PICK m \in Message :
             /\ messages' = Append(messages, m)
             /\ \/ m.kind = "answer" /\ \E h \in Handlers : SaveAnswer(h)
                \/ \E h \in Handlers : /\ CommitReply(h) /\ m.kind = handlers[h].turn.kind
                                       /\ m.question = handlers[h].turn.question
                \/ \E h \in Handlers : CommitRestate(h)
                \/ /\ messages = <<>> /\ m.kind = "main_question" /\ m.question = 1
                   /\ \E h \in Handlers : Start(h)
    BY NewMessageStored, NewMessageFields
  <1>2. ~UNCHANGED messages
    BY RowTypes, ConversationKept DEF RowsOK
  <1>3. ASSUME NEW h \in Handlers, SaveAnswer(h) PROVE messages # <<>>
    <2>1. status = "interviewing"
      BY <1>2, <1>3 DEF SaveAnswer, Accepts
    <2> QED
      BY <2>1 DEF QuestionsInv
  <1>4. ASSUME NEW h \in Handlers, CommitReply(h)
        PROVE  messages # <<>> /\ handlers[h].turn.question = context.question
    <2>1. handlers[h].pc = "commit" /\ "commit" \in TurnPcs \ {"save"}
      BY <1>4, PcNames DEF CommitReply, At
    <2> QED
      BY <2>1 DEF SegmentsInv, ContextInv, TurnOK
  <1>5. ASSUME NEW h \in Handlers, CommitRestate(h) PROVE FALSE
    BY <1>5 DEF CommitRestate, At, QuestionsInv
  <1>6. messages = <<>> => context.question = 1
    BY DEF SegmentsInv
  <1> QED
    BY <1>1, <1>3, <1>4, <1>5, <1>6

LEMMA QuestionsStep ==
    ASSUME NothingFails, ControlInv, ContextInv, SegmentsInv, QuestionsInv, [Next]_vars
    PROVE  QuestionsInv'
  <1>0. /\ messages \in Seq(Message) /\ (messages = <<>> <=> Len(messages) = 0)
        /\ messages' \in Seq(Message) /\ (messages' = <<>> <=> Len(messages') = 0)
        /\ Len(messages) \in Nat /\ Len(messages') \in Nat /\ Len(messages) <= Len(messages')
        /\ context.question \in Questions /\ context.question \in Nat
        /\ ControlInv'
    <2>1. ControlInv'
      BY ControlNext
    <2>2. messages \in Seq(Message) /\ messages' \in Seq(Message)
      BY <2>1 DEF ControlInv, TypeOK
    <2> QED
      BY <2>1, <2>2, RowTypes, ConversationGrows DEF Questions
  <1>1. ASSUME messages' = <<>>
        PROVE  /\ ~(status' \in {"interviewing", "paused"})
               /\ \A h \in Handlers : handlers'[h].pc # "write"
    <2>1. messages = <<>>
      BY <1>0, <1>1
    <2>2. ~(status \in {"interviewing", "paused"}) /\ \A h \in Handlers : handlers[h].pc # "write"
      BY <2>1 DEF QuestionsInv
    <2>3. ASSUME NEW h \in Handlers PROVE ~Start(h) /\ ~WriteStatus(h)
      BY <1>1, <2>1, <2>2 DEF Start, WriteStatus, At
    <2>4. ~(status' \in {"interviewing", "paused"})
      BY <2>2, <2>3, StatusStep
    <2>5. ASSUME NEW h \in Handlers PROVE ~AskPause(h) /\ ~AskResume(h)
      <3>1. ~CanMove(status, "paused")
        BY <2>2, RowTypes DEF CanMove, AllowedTransitions, RowsOK, Statuses
      <3> QED
        BY <2>2, <3>1 DEF AskPause, AskResume, OpsOf, NothingFails, Handlers
    <2>6. ASSUME NEW h \in Handlers PROVE handlers'[h].pc # "write"
      BY <2>2, <2>5, QuietStep DEF Into
    <2> QED
      BY <2>4, <2>6
  <1>2. ASSUME NEW g \in Handlers, handlers'[g].pc = "commit"
        PROVE  handlers'[g].tail = Len(messages') + 1
    <2>1. CASE handlers'[g] # handlers[g]
      <3>1. BeginReply(g)
        BY <1>2, <2>1, EntersPc DEF Into
      <3> QED
        BY <3>1, ControlTypes DEF BeginReply, ReadTail, Handler, rowVars
    <2>2. CASE handlers'[g] = handlers[g]
      <3>1. handlers[g].pc = "commit" /\ handlers'[g].tail = Len(messages) + 1 /\ messages # <<>>
        BY <1>2, <2>2 DEF QuestionsInv, SegmentsInv, TurnPcs
      <3>2. ASSUME NEW h \in Handlers, SaveAnswer(h) \/ CommitReply(h) PROVE FALSE
        <4>1. h = g
          BY <3>1, <3>2, TurnHolder, PcNames DEF SaveAnswer, CommitReply, At
        <4>2. handlers'[h].pc # handlers[h].pc
          BY <3>2, LeadTo DEF SaveAnswer, CommitReply, At, Into
        <4> QED
          BY <2>2, <4>1, <4>2
      <3>3. SameConversation
        BY <3>1, <3>2, QuietAdds
      <3> QED
        BY <3>1, <3>3 DEF SameConversation
    <2> QED
      BY <2>1, <2>2
  <1>3. ASSUME NEW g \in Handlers PROVE ~(handlers'[g].pc \in {"restate", "restated"})
    <2>1. ~(handlers[g].pc \in {"restate", "restated"})
      BY DEF QuestionsInv
    <2> QED
      BY <2>1, QuietStep DEF Into, BeginRestate, At
  <1>4. ASSUME messages # <<>>, ~ \E h \in Handlers : Asking(h)
        PROVE  Asked(context.question, Len(messages))
    BY <1>4 DEF QuestionsInv
  <1>5. ASSUME NEW h \in Handlers, AdvanceContext(h)
        PROVE  /\ Asked(context.question, Len(messages))
               /\ context'.question = context.question + 1
               /\ Asking(h)'
    <2>1. handlers[h].pc = "advance"
      BY <1>5 DEF AdvanceContext, At
    <2>2. messages # <<>>
      BY <2>1, PcNames DEF SegmentsInv
    <2>3. ASSUME NEW g \in Handlers, Asking(g) PROVE FALSE
      BY <2>1, <2>3, TurnHolder, PcNames DEF Asking
    <2>4. context'.question = context.question + 1
      BY <1>5, RowTypes DEF AdvanceContext, MovedTo, RowsOK
    <2>5. handlers'[h].pc = "reply" /\ handlers'[h].turn = handlers[h].turn
      BY <1>5, ControlTypes DEF AdvanceContext, Goto, Handler
    <2>6. handlers[h].turn.kind = "main_question"
      BY <2>1 DEF ContextInv, TurnOK
    <2> QED
      BY <1>4, <2>2, <2>3, <2>4, <2>5, <2>6 DEF Asking
  <1>6. context'.question = context.question \/ \E h \in Handlers : AdvanceContext(h)
    BY RowTypes, PositionStep DEF AfterReply, RowsOK
  <1>7. ASSUME NEW q, NEW b \in Nat, b <= Len(messages), Asked(q, b), NEW c \in Nat, b <= c
        PROVE  \E j \in 1..c : messages'[j].kind = "main_question" /\ messages'[j].question = q
    <2>1. Asked(q, c)'
      BY <1>7, AskedKept
    <2> QED
      BY <2>1 DEF Asked
  <1>b. ASSUME NEW q, Asked(q, Len(messages))
        PROVE  \E j \in 1..Len(messages') : messages'[j].kind = "main_question" /\ messages'[j].question = q
    <2>1. PICK b \in Nat, c \in Nat : b = Len(messages) /\ c = Len(messages') /\ b <= c
      BY <1>0
    <2>2. Asked(q, b)
      BY <1>b, <2>1 DEF Asked
    <2> QED
      BY <1>7, <2>1, <2>2
  <1>8. \/ messages' = <<>>
        \/ Asked(context.question, Len(messages))'
        \/ \E h \in Handlers : Asking(h)'
    <2>1. CASE \E h \in Handlers : AdvanceContext(h)
      BY <1>5, <2>1
    <2>2. CASE context'.question = context.question
      <3>1. CASE messages = <<>> /\ messages' # <<>>
        <4>1. ~SameConversation
          BY <1>0, <3>1 DEF SameConversation
        <4>2. PICK m \in Message :
                /\ messages' = Append(messages, m)
                /\ m.kind = "main_question" /\ m.question = context.question
          BY <3>1, <4>1, QuietAdds
        <4>3. Len(messages) + 1 \in 1..Len(messages') /\ messages'[Len(messages) + 1] = m
          BY <1>0, <4>2, MessageAppended
        <4> QED
          BY <2>2, <4>2, <4>3 DEF Asked
      <3>2. CASE messages # <<>> /\ Asked(context.question, Len(messages))
        <4>1. PICK q : q = context.question
          OBVIOUS
        <4>2. Asked(q, Len(messages))
          BY <3>2, <4>1 DEF Asked
        <4>3. \E j \in 1..Len(messages') : messages'[j].kind = "main_question" /\ messages'[j].question = q
          BY <1>b, <4>2
        <4> QED
          BY <2>2, <4>1, <4>3 DEF Asked
      <3>3. ASSUME NEW h \in Handlers, Asking(h), handlers'[h] # handlers[h]
            PROVE  Asking(h)' \/ Asked(context.question, Len(messages))'
        <4>1. CASE handlers[h].pc = "reply"
          <5>1. BeginReply(h)
            BY <3>3, <4>1, QuietStep
          <5>2. handlers'[h].pc = "commit" /\ handlers'[h].turn = handlers[h].turn
            BY <5>1, ControlTypes DEF BeginReply, ReadTail, Handler
          <5> QED
            BY <3>3, <5>2 DEF Asking
        <4>2. CASE handlers[h].pc = "commit"
          <5>1. CommitReply(h) /\ handlers[h].tail = Len(messages) + 1
            BY <3>3, <4>2, QuietStep DEF QuestionsInv
          <5> DEFINE m == NewMessage(handlers[h].turn.kind, handlers[h].turn.question,
                                     handlers[h].segment, None, handlers[h].answer)
          <5>2. messages' = Append(messages, m)
            BY <5>1 DEF CommitReply
          <5>3. m.kind = "main_question" /\ m.question = context.question
            BY <3>3, <4>2, NewMessageFields DEF Asking, ContextInv, TurnOK
          <5>4. m \in Message
            BY ControlTypes, NewMessageType DEF Handler, Turn
          <5>5. Len(messages) + 1 \in 1..Len(messages') /\ messages'[Len(messages) + 1] = m
            BY <1>0, <5>2, <5>4, MessageAppended
          <5> QED
            BY <2>2, <5>3, <5>5 DEF Asked
        <4> QED
          BY <3>3, <4>1, <4>2 DEF Asking
      <3>4. ASSUME NEW h \in Handlers, Asking(h), handlers'[h] = handlers[h] PROVE Asking(h)'
        BY <3>4 DEF Asking
      <3> QED
        BY <3>1, <3>2, <3>3, <3>4 DEF QuestionsInv
    <2> QED
      BY <1>6, <2>1, <2>2
  <1>9. ASSUME NEW q \in 1..(context'.question - 1) PROVE Asked(q, Len(messages))'
    <2>1. Asked(q, Len(messages))
      <3>1. CASE context'.question = context.question
        BY <3>1 DEF QuestionsInv, QuestionsAreAsked
      <3>2. CASE context'.question = context.question + 1 /\ Asked(context.question, Len(messages))
        <4>1. q \in 1..(context.question - 1) \/ q = context.question
          BY <1>0, <3>2
        <4> QED
          BY <3>2, <4>1 DEF QuestionsInv, QuestionsAreAsked
      <3> QED
        BY <1>5, <1>6, <3>1, <3>2
    <2>2. \E j \in 1..Len(messages') : messages'[j].kind = "main_question" /\ messages'[j].question = q
      BY <1>b, <2>1
    <2> QED
      BY <2>2 DEF Asked
  <1>10. ASSUME NEW i \in 1..Len(messages'), messages'[i].kind \in {"follow_up", "closing"}
         PROVE  Asked(messages[i].question, i - 1)'
    <2>1. CASE i \in 1..Len(messages)
      <3>1. messages[i].kind = messages'[i].kind /\ messages[i].question = messages'[i].question
        BY <2>1, ConversationGrows
      <3>2. Asked(messages[i].question, i - 1)
        BY <1>0, <1>10, <2>1, <3>1 DEF QuestionsInv, QuestionsAreAsked
      <3>3. i - 1 \in Nat /\ i - 1 <= Len(messages)
        BY <1>0, <2>1
      <3>4. PICK b \in Nat : b = i - 1 /\ b <= Len(messages)
        BY <3>3
      <3> DEFINE q == messages[i].question
      <3> HIDE DEF q
      <3>5. Asked(q, b)
        BY <3>2, <3>4 DEF Asked, q
      <3>6. \E j \in 1..b : messages'[j].kind = "main_question" /\ messages'[j].question = q
        <4>1. PICK j \in 1..b : messages[j].kind = "main_question" /\ messages[j].question = q
          BY <3>5 DEF Asked
        <4>2. j \in 1..Len(messages)
          BY <1>0, <3>4
        <4>3. messages'[j].kind = "main_question" /\ messages'[j].question = q
          BY <4>1, <4>2, ConversationGrows
        <4> QED
          BY <4>1, <4>3
      <3> QED
        BY <3>1, <3>4, <3>6 DEF Asked, q
    <2>2. CASE ~(i \in 1..Len(messages))
      <3>1. ~SameConversation
        BY <1>10, <2>2 DEF SameConversation
      <3>2. i = Len(messages) + 1
        BY <1>0, <2>2, <3>1, ConversationGrows
      <3>3. PICK m \in Message :
              /\ messages' = Append(messages, m)
              /\ \/ m.kind \in {"answer", "main_question"}
                 \/ /\ messages # <<>> /\ m.question = context.question
                    /\ \E h \in Handlers : CommitReply(h) /\ m.kind = handlers[h].turn.kind
        BY <3>1, QuietAdds
      <3>4. messages'[i] = m
        BY <1>0, <3>2, <3>3, MessageAppended
      <3>5. PICK h \in Handlers : CommitReply(h) /\ m.kind = handlers[h].turn.kind
        BY <1>10, <3>3, <3>4
      <3>6. messages # <<>> /\ m.question = context.question
        BY <1>10, <3>3, <3>4
      <3>7. ASSUME NEW g \in Handlers, Asking(g) PROVE FALSE
        <4>1. g = h
          BY <3>5, <3>7, TurnHolder, PcNames DEF CommitReply, At, Asking
        <4> QED
          BY <1>10, <3>4, <3>5, <3>7, <4>1 DEF Asking
      <3>8. Asked(m.question, Len(messages))
        BY <1>4, <3>6, <3>7
      <3>9. i - 1 = Len(messages)
        BY <1>0, <3>2
      <3>10. PICK q, b : q = m.question /\ b = Len(messages) /\ b \in Nat /\ b <= Len(messages)
        BY <1>0
      <3>11. Asked(q, b)
        BY <3>8, <3>10 DEF Asked
      <3>12. \E j \in 1..b : messages'[j].kind = "main_question" /\ messages'[j].question = q
        BY <1>7, <3>10, <3>11
      <3> QED
        BY <3>4, <3>9, <3>10, <3>12 DEF Asked
    <2> QED
      BY <2>1, <2>2
  <1>11. QuestionsAreAsked'
    <2>1. DOMAIN messages' = 1..Len(messages')
      BY <1>0
    <2> QED
      BY <1>9, <1>10, <2>1 DEF QuestionsAreAsked
  <1> QED
    BY <1>1, <1>2, <1>3, <1>8, <1>11 DEF QuestionsInv

LEMMA QuestionsInvariance == ASSUME NothingFails PROVE Spec => []QuestionsInv
  <1>1. Init => QuestionsInv
    BY DEF Init, QuestionsInv, QuestionsAreAsked, Idle
  <1>2. ControlInv /\ ContextInv /\ SegmentsInv /\ QuestionsInv /\ [Next]_vars => QuestionsInv'
    BY QuestionsStep
  <1> QED
    BY <1>1, <1>2, ControlInvariance, ContextInvariance, SegmentsInvariance, PTL DEF Spec

-----------------------------------------------------------------------------
(* The end of the interview and its record *)

\* What the theorem about the record supposes: nothing fails, a client starts the
\* interview, sockets answer and retry, and only the closing turn finishes it.
OnlyTurnsFinish ==
    /\ ~Faults
    /\ SocketOps \subseteq {"submit", "retry"} /\ RequestOps \subseteq {"start"}
    /\ \A g, h \in Requests : g = h

Ending == {"seal", "publish", "close", "complete"}
Over == {"completed", "evaluating"}

\* The closing message is stored.
HasClosed == \E i \in 1..Len(messages) : messages[i].kind = "closing"

\* A handler on its way from storing the closing message to finish_session.
Closing(h) == handlers[h].pc \in Ending /\ handlers[h].turn.kind = "closing"

\* What a handler may be at, by how far the interview is.
StageOK(h) ==
    LET s == handlers[h]
    IN  /\ ~(s.pc \in {"acquire", "restate", "restated", "write"})
        /\ s.pc = "start" => h \in Requests /\ s.op = "start" /\ status = "ready"
        /\ s.pc \in Working => status = "interviewing" /\ ~HasClosed
        /\ s.pc \in Ending => status = "interviewing"
        /\ s.pc \in {"close", "complete"} => Generating(h) /\ s.seen = "interviewing"
        /\ s.pc \in {"seal", "close", "complete"} => s.turn.kind = "closing"
        /\ Closing(h) => HasClosed

\* The closing message is the last one, and nothing is worked on after it but the
\* end of its own turn, which is what completes the interview.
EndInv ==
    /\ status \in {"ready", "interviewing"} \cup Over
    /\ messages = <<>> <=> status = "ready"
    /\ \A h \in Handlers : StageOK(h)
    /\ \A i \in 1..Len(messages) : messages[i].kind = "closing" => i = Len(messages)
    /\ HasClosed => context.pending = 0
    /\ HasClosed /\ status = "interviewing" => \E h \in Handlers : Closing(h)
    /\ status \in Over => HasClosed
    /\ evaluation # "none" => status \in Over
    /\ evaluated # 0 => evaluation # "none" /\ evaluated = Len(messages)

\* The closing turn has closed its segment.
Sealed == status \in Over \/ \E h \in Handlers : Closing(h) /\ handlers[h].pc # "seal"

Open(q) == \E s \in 1..Len(segments) : segments[s].open /\ segments[s].question = q

\* A message lies in a segment of its question, and within it once it is closed.
Filed(i) ==
    LET s == messages[i].segment
    IN  /\ s \in 1..Len(segments)
        /\ segments[s].question = messages[i].question
        /\ ~segments[s].open => i <= segments[s].end

\* Every message is filed, and as long as the conversation goes on the segment for
\* its next message is open.
RecordInv ==
    /\ \A i \in 1..Len(messages) : Filed(i)
    /\ \A h \in Handlers : handlers[h].pc = "seal" => handlers[h].turn.question = context.question
    /\ \A h \in Handlers : handlers[h].pc = "commit" =>
         /\ handlers[h].segment \in 1..Len(segments)
         /\ segments[handlers[h].segment].open
         /\ segments[handlers[h].segment].question = context.question
    /\ \A h \in Handlers : handlers[h].pc = "advance" => Open(context.question + 1)
    /\ messages # <<>> /\ ~Sealed /\ (\A h \in Handlers : handlers[h].pc # "advance")
         => Open(context.question)
    /\ Sealed => \A s \in 1..Len(segments) : ~segments[s].open

\* Who steps, when only turns finish the interview.
TurnStepOf(h) ==
    \/ SaveAnswer(h) \/ Acknowledge(h) \/ Retry(h) \/ DecideTurn(h) \/ PrepareReply(h)
    \/ PrepareAdvance(h) \/ AdvanceContext(h) \/ BeginReply(h) \/ CommitReply(h) \/ Seal(h)
    \/ Publish(h) \/ FinishClose(h) \/ FinishComplete(h)

LEMMA TurnsOnly ==
    ASSUME OnlyTurnsFinish, ControlInv, EndInv, [Next]_vars
    PROVE  \/ UNCHANGED vars
           \/ BeginEvaluation \/ EndEvaluation \/ Tick
           \/ \E h \in Handlers :
                /\ ControlStep(h)
                /\ \/ TurnStepOf(h) \/ Start(h)
                   \/ h \in Requests /\ StartRequest(h)
                   \/ h \in Sockets /\ ReceiveAnswer(h) /\ handlers'[h].pc = "save"
  <1>1. ~Crash /\ \A h : ~ProviderFails(h) /\ ~Drop(h)
    BY DEF OnlyTurnsFinish, Crash, ProviderFails, Drop
  <1>2. \A h \in Handlers : ~AskPause(h) /\ ~AskResume(h) /\ ~AskFinish(h) /\ ~AskRestate(h)
    <2>1. /\ ~("pause" \in SocketOps) /\ ~("resume" \in SocketOps) /\ ~("finish" \in SocketOps)
          /\ ~("restate" \in SocketOps)
          /\ ~("pause" \in RequestOps) /\ ~("resume" \in RequestOps) /\ ~("finish" \in RequestOps)
      BY DEF OnlyTurnsFinish
    <2> QED
      BY <2>1 DEF AskPause, AskResume, AskFinish, AskRestate, OpsOf
  <1>3. \A h \in Handlers : ~Acquire(h) /\ ~BeginRestate(h) /\ ~CommitRestate(h) /\ ~WriteStatus(h)
    BY DEF EndInv, StageOK, Acquire, BeginRestate, CommitRestate, WriteStatus, At
  <1>4. ASSUME NEW h \in Handlers, ReceiveAnswer(h) PROVE handlers'[h].pc = "save"
    <2>1. ~("start" \in SocketOps)
      BY DEF OnlyTurnsFinish
    <2> QED
      BY <1>4, <2>1, ControlTypes DEF ReceiveAnswer, Idle
  <1> QED
    BY <1>1, <1>2, <1>3, <1>4, WhoSteps DEF HandlerStep, TurnStepOf

\* A handler in its turn, to the end of finish_session, is alone.
LEMMA EndHolder ==
    ASSUME ControlInv, EndInv, NEW g \in Handlers, NEW h \in Handlers,
           handlers[g].pc \in TurnPcs \cup {"close", "complete"},
           handlers[h].pc \in TurnPcs \cup {"close", "complete"}
    PROVE  g = h
  <1>1. Generating(g) /\ Generating(h)
    BY ControlTypes DEF HandlerOK, Generating, TurnPcs, EndInv, StageOK
  <1> QED
    BY <1>1, ControlTypes DEF OneTurnAtATime

LEMMA StageNames ==
    /\ Working \subseteq TurnPcs /\ Ending \subseteq TurnPcs \cup {"close", "complete"}
    /\ ~("save" \in Working \cup Ending) /\ ~("idle" \in Working \cup Ending)
    /\ ~("start" \in Working \cup Ending) /\ Working \cap Ending = {}
  BY DEF Working, Ending, TurnPcs

\* The conversation goes on without a closing message, or does not move.
LEMMA StageKept ==
    ASSUME ControlInv, EndInv, NEW h \in Handlers, Moved(h), SameConversation,
           UNCHANGED <<status, jobVars>>, StageOK(h)',
           context'.pending # 0 => context.pending # 0,
           Closing(h) => Closing(h)'
    PROVE  EndInv'
  <1>1. HasClosed' <=> HasClosed
    BY DEF SameConversation, HasClosed
  <1>2. messages' = <<>> <=> messages = <<>>
    BY RowTypes DEF SameConversation, RowsOK
  <1>3. ASSUME NEW g \in Handlers PROVE StageOK(g)'
    <2>1. CASE g # h
      BY <1>1, <2>1 DEF StageOK, Moved, EndInv, Closing, Generating
    <2> QED
      BY <2>1
  <1>4. \A i \in 1..Len(messages') : messages'[i].kind = "closing" => i = Len(messages')
    BY DEF SameConversation, EndInv
  <1>5. HasClosed => context'.pending = 0
    BY DEF EndInv
  <1>6. (HasClosed /\ status = "interviewing" => \E g \in Handlers : Closing(g))'
    BY <1>1 DEF EndInv, Closing, Moved
  <1>7. /\ (status \in Over => HasClosed)' /\ (evaluation # "none" => status \in Over)'
        /\ (evaluated # 0 => evaluation # "none" /\ evaluated = Len(messages))'
    BY <1>1 DEF EndInv, SameConversation, jobVars
  <1> QED
    BY <1>1, <1>2, <1>3, <1>4, <1>5, <1>6, <1>7 DEF EndInv

\* What the closing message and the status say of each other during a turn.
LEMMA TurnStatus ==
    ASSUME ControlInv, EndInv, NEW h \in Handlers, handlers[h].pc \in Working \cup Ending
    PROVE  /\ status = "interviewing" /\ evaluation = "none" /\ evaluated = 0
           /\ messages # <<>>
           /\ \A g \in Handlers : handlers[g].pc \in Working \cup Ending => g = h
           /\ \A g \in Handlers : handlers[g].pc # "start"
  <1>1. status = "interviewing"
    BY DEF EndInv, StageOK
  <1>2. \A g \in Handlers : handlers[g].pc \in Working \cup Ending => g = h
    BY StageNames, EndHolder
  <1>3. \A g \in Handlers : handlers[g].pc # "start"
    BY <1>1 DEF EndInv, StageOK
  <1> QED
    BY <1>1, <1>2, <1>3 DEF EndInv, Over

\* Before the closing message nobody is on the way to the end.
LEMMA NoClosingTurn ==
    ASSUME EndInv, ~HasClosed, NEW h \in Handlers PROVE ~Closing(h)
  BY DEF EndInv, StageOK

\* A message is stored.
LEMMA StageAppended ==
    ASSUME ControlInv, EndInv, NEW h \in Handlers, Moved(h), NEW m \in Message,
           messages' = Append(messages, m), ~HasClosed,
           UNCHANGED <<status, jobVars>>, status = "interviewing",
           \A g \in Handlers : handlers[g].pc \in Working \cup Ending => g = h,
           StageOK(h)',
           m.kind = "closing" => Closing(h)' /\ context'.pending = 0
    PROVE  EndInv'
  <1>1. /\ Len(messages) \in Nat /\ Len(messages') = Len(messages) + 1
        /\ \A i \in 1..Len(messages) : messages'[i] = messages[i]
        /\ messages'[Len(messages) + 1] = m
        /\ \A i \in 1..Len(messages') : i \in 1..Len(messages) \/ i = Len(messages) + 1
    BY RowTypes, MessageAppended DEF RowsOK
  <1>2. HasClosed' <=> m.kind = "closing"
    BY <1>1 DEF HasClosed
  <1>3. messages' # <<>> /\ status' = "interviewing"
    BY <1>1
  <1>4. \A i \in 1..Len(messages') : messages'[i].kind = "closing" => i = Len(messages')
    BY <1>1 DEF HasClosed
  <1>5. ASSUME NEW g \in Handlers PROVE StageOK(g)'
    <2>1. CASE g # h
      <3>1. handlers'[g] = handlers[g] /\ ~(handlers[g].pc \in Working \cup Ending)
        BY <2>1 DEF Moved
      <3>2. StageOK(g)
        BY DEF EndInv
      <3>3. {"seal", "close", "complete"} \subseteq Ending
        BY DEF Ending
      <3> QED
        BY <3>1, <3>2, <3>3 DEF StageOK, Closing
    <2> QED
      BY <2>1
  <1>6. evaluation' = "none" /\ evaluated' = 0
    BY DEF EndInv, Over, jobVars
  <1> QED
    BY <1>2, <1>3, <1>4, <1>5, <1>6 DEF EndInv, Over

LEMMA StartEnd ==
    ASSUME OnlyTurnsFinish, ControlInv, SegmentsInv, EndInv, NEW h \in Handlers, ControlStep(h), Start(h)
    PROVE  EndInv'
  <1>1. h \in Requests /\ status = "ready" /\ messages = <<>> /\ handlers[h].op = "start"
    BY DEF Start, At, EndInv, StageOK
  <1>2. Moved(h) /\ handlers'[h] = Idle
    BY <1>1, ControlTypes, ReturnMoves DEF Start
  <1> DEFINE m == NewMessage("main_question", 1, Len(segments) + 1, None, 0)
  <1>3. messages' = <<m>> /\ m.kind = "main_question" /\ status' = "interviewing"
    BY <1>1, NewMessageFields DEF Start
  <1> HIDE DEF m
  <1>4. ~HasClosed' /\ messages' # <<>>
        /\ \A i \in 1..Len(messages') : messages'[i].kind = "closing" => i = Len(messages')
    BY <1>3 DEF HasClosed
  <1>5. ASSUME NEW g \in Handlers PROVE StageOK(g)'
    <2>1. CASE g = h
      BY <1>2, <2>1, StageNames DEF StageOK, Idle, Closing, Ending
    <2>2. CASE g # h
      <3>1. handlers'[g] = handlers[g] /\ StageOK(g)
        BY <1>2, <2>2 DEF Moved, EndInv
      <3>2. ~(handlers[g].pc \in Working \cup Ending)
        BY <1>1, <3>1 DEF StageOK
      <3>3. handlers[g].pc # "start"
        BY <1>1, <2>2, <3>1 DEF StageOK, OnlyTurnsFinish
      <3> QED
        BY <3>1, <3>2, <3>3 DEF StageOK, Closing, Ending
    <2> QED
      BY <2>1, <2>2
  <1>6. evaluation' = "none" /\ evaluated' = 0
    BY <1>1 DEF EndInv, Over, Start, jobVars
  <1> QED
    BY <1>3, <1>4, <1>5, <1>6 DEF EndInv, Over

LEMMA SaveAnswerEnd ==
    ASSUME ControlInv, EndInv, NEW h \in Handlers, ControlStep(h), SaveAnswer(h)
    PROVE  EndInv'
  <1>1. Moved(h) /\ handlers[h].pc = "save" /\ handlers[h] \in Handler /\ ~Closing(h)
    BY ControlTypes DEF ControlStep, SaveAnswer, At, Closing, Ending
  <1>2. UNCHANGED <<status, jobVars>>
    BY DEF SaveAnswer
  <1>3. CASE ~Accepts
    <2>1. handlers'[h] = Idle /\ SameConversation /\ UNCHANGED context
      BY <1>3, ControlTypes, ReturnMoves, RowTypes, ConversationKept
         DEF SaveAnswer, ReleaseAndReturn, RowsOK
    <2>2. StageOK(h)'
      BY <2>1, StageNames DEF StageOK, Idle, Closing, Ending
    <2> QED
      BY <1>1, <1>2, <2>1, <2>2, StageKept
  <1>4. CASE Accepts
    <2>1. handlers'[h].pc = "ack"
      BY <1>1, <1>4, ControlTypes DEF SaveAnswer, Handler
    <2>2. status = "interviewing" /\ ~HasClosed
      <3>1. \A g \in Handlers : ~Closing(g)
        BY <1>1, StageNames, EndHolder, PcNames DEF Closing
      <3> QED
        BY <1>4, <3>1 DEF Accepts, EndInv
    <2>3. ~HasClosed' => StageOK(h)'
      BY <1>2, <2>1, <2>2 DEF StageOK, Working, Ending, Closing
    <2>4. \A g \in Handlers : handlers[g].pc \in Working \cup Ending => g = h
      BY <1>1, StageNames, EndHolder, PcNames
    <2>5. CASE UNCHANGED <<messages, context>>
      <3>1. SameConversation /\ ~HasClosed'
        BY <2>2, <2>5, RowTypes, ConversationKept DEF RowsOK, HasClosed
      <3> QED
        BY <1>1, <1>2, <2>3, <2>5, <3>1, StageKept
    <2>6. CASE ~UNCHANGED <<messages, context>>
      <3> DEFINE m == NewMessage("answer", context.question, OpenSegment(context.question),
                                 handlers[h].event, 0)
      <3>1. messages' = Append(messages, m)
        BY <1>4, <2>6 DEF SaveAnswer
      <3>2. m \in Message
        BY <1>1, RowTypes, NewMessageType, ControlTypes DEF Kinds, Handler
      <3>3. m.kind = "answer"
        BY NewMessageFields
      <3> HIDE DEF m
      <3>4. ~HasClosed'
        BY <2>2, <3>1, <3>2, <3>3, RowTypes, MessageAppended DEF RowsOK, HasClosed
      <3> QED
        BY <1>1, <1>2, <2>2, <2>3, <2>4, <3>1, <3>2, <3>3, <3>4, StageAppended
    <2> QED
      BY <2>5, <2>6
  <1> QED
    BY <1>3, <1>4

\* The steps that lead a turn to its reply.
Prepares(h) ==
    \/ Acknowledge(h) \/ Retry(h) \/ DecideTurn(h) \/ PrepareReply(h) \/ PrepareAdvance(h)
    \/ AdvanceContext(h) \/ BeginReply(h)

LEMMA PreparesMoves ==
    ASSUME ControlInv, NEW h \in Handlers, Prepares(h)
    PROVE  /\ handlers'[h].pc \in Working /\ SameConversation /\ UNCHANGED <<status, jobVars>>
           /\ context'.pending = context.pending
           /\ Retry(h) \/ handlers[h].pc \in Working
  <1>1. handlers'[h].pc \in Working
    BY LeadTo, AsksLeadTo DEF Prepares, Into, Working
  <1>2. CASE PrepareAdvance(h)
    BY <1>1, <1>2, CloseRows DEF PrepareAdvance, At, Working
  <1>3. CASE AdvanceContext(h)
    <2>1. context'.pending = context.pending
      BY <1>3, RowTypes DEF AdvanceContext, MovedTo, RowsOK
    <2> QED
      BY <1>1, <1>3, <2>1, RowTypes, ConversationKept DEF AdvanceContext, At, Working, RowsOK
  <1>4. CASE Acknowledge(h) \/ Retry(h) \/ DecideTurn(h) \/ PrepareReply(h) \/ BeginReply(h)
    <2>1. SameConversation /\ UNCHANGED <<status, context, jobVars>>
      BY <1>4, RowTypes, ConversationKept
         DEF Acknowledge, Retry, DecideTurn, Decide, PrepareReply, BeginReply, rowVars, RowsOK
    <2>2. Retry(h) \/ handlers[h].pc \in Working
      BY <1>4 DEF Acknowledge, DecideTurn, Decide, PrepareReply, BeginReply, At, Working
    <2> QED
      BY <1>1, <2>1, <2>2
  <1> QED
    BY <1>2, <1>3, <1>4 DEF Prepares

LEMMA PreparesEnd ==
    ASSUME ControlInv, SegmentsInv, EndInv, NEW h \in Handlers, ControlStep(h), Prepares(h)
    PROVE  EndInv'
  <1>1. /\ handlers'[h].pc \in Working /\ SameConversation /\ UNCHANGED <<status, jobVars>>
        /\ context'.pending = context.pending
        /\ Retry(h) \/ handlers[h].pc \in Working
    BY PreparesMoves
  <1>2. status = "interviewing" /\ ~HasClosed
    <2>1. CASE handlers[h].pc \in Working
      BY <2>1 DEF EndInv, StageOK
    <2>2. CASE Retry(h)
      <3>1. context.pending # 0
        BY <2>2 DEF Retry
      <3>2. ~HasClosed /\ messages # <<>>
        BY <3>1 DEF EndInv, SegmentsInv
      <3> QED
        BY <3>2 DEF EndInv
    <2> QED
      BY <1>1, <2>1, <2>2
  <1>3. ~HasClosed'
    BY <1>1, <1>2 DEF HasClosed, SameConversation
  <1>4. StageOK(h)'
    BY <1>1, <1>2, <1>3 DEF StageOK, Working, Ending, Closing
  <1>5. Moved(h) /\ ~Closing(h)
    BY <1>2, NoClosingTurn DEF ControlStep
  <1> QED
    BY <1>1, <1>4, <1>5, StageKept

LEMMA CommitReplyEnd ==
    ASSUME ControlInv, ContextInv, EndInv, NEW h \in Handlers, ControlStep(h), CommitReply(h)
    PROVE  EndInv'
  <1>1. /\ Moved(h) /\ handlers[h].pc = "commit" /\ handlers[h] \in Handler
        /\ UNCHANGED <<status, jobVars>>
    BY ControlTypes DEF ControlStep, CommitReply, At
  <1>2. status = "interviewing" /\ ~HasClosed /\ ~Closing(h)
        /\ \A g \in Handlers : handlers[g].pc \in Working \cup Ending => g = h
    <2>1. handlers[h].pc \in Working /\ ~(handlers[h].pc \in Ending)
      BY <1>1 DEF Working, Ending
    <2> QED
      BY <2>1, TurnStatus DEF EndInv, StageOK, Closing
  <1>3. CASE handlers[h].tail = Len(messages) + 1
    <2> DEFINE m == NewMessage(handlers[h].turn.kind, handlers[h].turn.question,
                               handlers[h].segment, None, handlers[h].answer)
    <2>1. messages' = Append(messages, m) /\ context' = AfterReply(handlers[h].turn.kind)
      BY <1>3 DEF CommitReply
    <2>2. m \in Message /\ m.kind = handlers[h].turn.kind
      <3>1. m \in Message
        BY <1>1, NewMessageType DEF Handler, Turn
      <3>2. m.kind = handlers[h].turn.kind
        BY NewMessageFields
      <3> QED
        BY <3>1, <3>2
    <2> HIDE DEF m
    <2>3. context'.pending = 0
      BY <2>1, RowTypes DEF AfterReply, RowsOK
    <2>4. handlers'[h].turn = handlers[h].turn
          /\ handlers'[h].pc = IF handlers[h].turn.kind = "closing" THEN "seal" ELSE "publish"
      BY <1>1, <1>3, ControlTypes DEF CommitReply, Handler
    <2>5. m.kind = "closing" => Closing(h)' /\ HasClosed'
      <3>1. messages'[Len(messages) + 1] = m /\ Len(messages) + 1 \in 1..Len(messages')
        BY <2>1, <2>2, RowTypes, MessageAppended DEF RowsOK
      <3> QED
        BY <2>2, <2>4, <3>1 DEF HasClosed, Closing, Ending
    <2>6. StageOK(h)'
      BY <1>1, <1>2, <2>2, <2>4, <2>5 DEF StageOK, Closing, Working, Ending
    <2> QED
      BY <1>1, <1>2, <2>1, <2>2, <2>3, <2>5, <2>6, StageAppended
  <1>4. CASE handlers[h].tail # Len(messages) + 1
    <2>1. handlers'[h] = Idle /\ SameConversation /\ UNCHANGED context
      BY <1>4, ControlTypes, ReturnMoves, RowTypes, ConversationKept
         DEF CommitReply, ReleaseAndReturn, RowsOK
    <2>2. StageOK(h)'
      BY <2>1, StageNames DEF StageOK, Idle, Closing, Ending
    <2> QED
      BY <1>1, <1>2, <2>1, <2>2, StageKept
  <1> QED
    BY <1>3, <1>4

\* The steps that follow the reply, up to the end of finish_session.
LEMMA EndingEnd ==
    ASSUME ControlInv, EndInv, NEW h \in Handlers, ControlStep(h),
           Seal(h) \/ Publish(h) \/ FinishClose(h)
    PROVE  EndInv'
  <1>1. Moved(h) /\ handlers[h] \in Handler /\ handlers'[h] \in Handler /\ StageOK(h)
    BY ControlTypes DEF ControlStep, Moved, EndInv
  <1>2. handlers[h].pc \in {"seal", "publish", "close"} /\ "close" \in Ending
        /\ {"seal", "publish", "close"} \subseteq Ending
    BY DEF Seal, Publish, FinishClose, At, Ending
  <1>3. status = "interviewing" /\ UNCHANGED <<status, jobVars>>
    BY <1>1, <1>2 DEF StageOK, Seal, Publish, FinishClose, rowVars
  <1>4. SameConversation /\ UNCHANGED context
    BY CloseRows, RowTypes, ConversationKept DEF Publish, rowVars, RowsOK
  <1>5. HasClosed' <=> HasClosed
    BY <1>4 DEF HasClosed, SameConversation
  <1>6. CASE Seal(h) \/ FinishClose(h)
    <2>1. Closing(h) /\ HasClosed
      BY <1>1, <1>6 DEF Seal, FinishClose, At, StageOK, Closing, Ending
    <2>2. handlers'[h].pc = (IF handlers[h].pc = "seal" THEN "publish" ELSE "complete")
          /\ handlers'[h].turn = handlers[h].turn /\ handlers'[h].seen = handlers[h].seen
          /\ handlers'[h].op = handlers[h].op
      BY <1>6, ControlTypes DEF Seal, FinishClose, At, Goto, Handler
    <2>3. FinishClose(h) => handlers[h].seen = "interviewing" /\ Generating(h)
      BY <1>1 DEF FinishClose, At, StageOK
    <2>4. FinishClose(h) => Generating(h)'
      BY <2>2, <2>3 DEF Generating, FinishClose, At
    <2>5. StageOK(h)' /\ Closing(h)'
      BY <1>3, <1>5, <1>6, <2>1, <2>2, <2>3, <2>4
         DEF StageOK, Closing, Working, Ending, Seal, FinishClose, At
    <2> QED
      BY <1>1, <1>3, <1>4, <2>5, StageKept DEF ControlStep
  <1>7. CASE Publish(h)
    <2>0. handlers[h].pc = "publish" /\ status # "completed"
      BY <1>3, <1>7 DEF Publish, At
    <2>1. CASE handlers[h].turn.kind = "closing"
      <3>1. handlers'[h].pc = "close" /\ handlers'[h].turn = handlers[h].turn
            /\ handlers'[h].seen = "interviewing" /\ handlers'[h].op = handlers[h].op
        BY <1>1, <1>3, <1>7, <2>0, <2>1, ControlTypes DEF Publish, Handler
      <3>2. HasClosed /\ handlers[h].op \in {"submit", "retry"}
        BY <1>1, <2>0, <2>1, ControlTypes, PcNames DEF StageOK, Closing, Ending, HandlerOK
      <3>3. StageOK(h)' /\ Closing(h)'
        BY <1>3, <1>5, <2>1, <3>1, <3>2 DEF StageOK, Closing, Working, Ending, Generating
      <3> QED
        BY <1>1, <1>3, <1>4, <3>3, StageKept DEF ControlStep
    <2>2. CASE handlers[h].turn.kind # "closing"
      <3>1. handlers'[h] = Idle /\ ~Closing(h)
        BY <1>7, <2>2, ControlTypes, ReturnMoves DEF Publish, ReleaseAndReturn, Closing
      <3>2. StageOK(h)'
        BY <3>1, StageNames DEF StageOK, Idle, Closing, Ending
      <3> QED
        BY <1>1, <1>3, <1>4, <3>1, <3>2, StageKept DEF ControlStep
    <2> QED
      BY <2>1, <2>2
  <1> QED
    BY <1>6, <1>7

LEMMA FinishCompleteEnd ==
    ASSUME ControlInv, EndInv, NEW h \in Handlers, ControlStep(h), FinishComplete(h)
    PROVE  EndInv'
  <1>1. handlers[h].pc = "complete" /\ StageOK(h) /\ "complete" \in Ending
    BY DEF FinishComplete, At, EndInv, Ending
  <1>2. handlers[h].seen = "interviewing" /\ HasClosed
    BY <1>1 DEF StageOK, Closing
  <1>3. /\ status = "interviewing" /\ evaluation = "none" /\ evaluated = 0 /\ messages # <<>>
        /\ \A g \in Handlers : handlers[g].pc \in Working \cup Ending => g = h
        /\ \A g \in Handlers : handlers[g].pc # "start"
    BY <1>1, TurnStatus
  <1>4. CanMove(handlers[h].seen, "completing")
    BY <1>2 DEF CanMove, AllowedTransitions, Statuses
  <1>5. status' = "completed" /\ UNCHANGED <<messages, context, evaluated>>
    BY <1>4 DEF FinishComplete
  <1>6. Moved(h) /\ handlers'[h] = Idle
    BY ControlTypes, ReturnMoves DEF FinishComplete, ReleaseAndReturn
  <1>7. ASSUME NEW g \in Handlers PROVE StageOK(g)'
    <2>1. CASE g = h
      BY <1>6, <2>1, StageNames DEF StageOK, Idle, Closing, Ending
    <2>2. CASE g # h
      <3>1. handlers'[g] = handlers[g] /\ StageOK(g)
        BY <1>6, <2>2 DEF Moved, EndInv
      <3>2. ~(handlers[g].pc \in Working \cup Ending) /\ handlers[g].pc # "start"
        BY <1>3, <2>2
      <3> QED
        BY <3>1, <3>2 DEF StageOK, Closing, Ending
    <2> QED
      BY <2>1, <2>2
  <1> QED
    BY <1>2, <1>3, <1>5, <1>7 DEF EndInv, Over, HasClosed

\* What moves no handler.
LEMMA EnvironmentEnd ==
    ASSUME EndInv, BeginEvaluation \/ EndEvaluation \/ Tick \/ UNCHANGED vars
    PROVE  EndInv'
  <1>1. UNCHANGED <<messages, context, handlers>>
    BY DEF BeginEvaluation, EndEvaluation, Tick, vars, rowVars
  <1>2. CASE BeginEvaluation \/ EndEvaluation
    <2>1. status \in Over /\ status' \in Over /\ evaluation' # "none"
          /\ evaluated' \in {evaluated, Len(messages)}
      BY <1>2 DEF BeginEvaluation, EndEvaluation, EndInv, Over
    <2>2. ASSUME NEW g \in Handlers PROVE StageOK(g)'
      <3>1. StageOK(g) /\ ~(status \in {"ready", "interviewing"})
        BY <2>1 DEF EndInv, Over
      <3> QED
        BY <1>1, <3>1 DEF StageOK, Closing, Ending
    <2> QED
      BY <1>1, <2>1, <2>2 DEF EndInv, Over, HasClosed
  <1>3. CASE Tick \/ UNCHANGED vars
    <2>1. UNCHANGED <<status, evaluation, evaluated>>
      BY <1>3 DEF Tick, vars, rowVars, jobVars
    <2> QED
      BY <1>1, <2>1 DEF EndInv, StageOK, Closing, HasClosed, Generating
  <1> QED
    BY <1>2, <1>3

LEMMA AsksEnd ==
    ASSUME ControlInv, EndInv, NEW h \in Handlers, ControlStep(h),
           \/ h \in Requests /\ StartRequest(h)
           \/ ReceiveAnswer(h) /\ handlers'[h].pc = "save"
    PROVE  EndInv'
  <1>1. UNCHANGED <<rowVars, jobVars>>
    BY OnlyRegistry
  <1>2. SameConversation /\ UNCHANGED <<status, context, jobVars>>
    BY <1>1, RowTypes, ConversationKept DEF rowVars, RowsOK
  <1>3. ~Closing(h) /\ Moved(h)
    BY DEF StartRequest, ReceiveAnswer, Load, At, Closing, Ending, ControlStep
  <1>4. StageOK(h)'
    <2>1. CASE handlers'[h].pc = "save"
      BY <2>1 DEF StageOK, Working, Ending, Closing
    <2>2. CASE h \in Requests /\ StartRequest(h)
      <3>1. status = "ready"
        BY <2>2 DEF StartRequest, EndInv, Over, CanMove, AllowedTransitions, Statuses
      <3>2. handlers'[h].pc = "start" /\ handlers'[h].op = "start"
        BY <2>2, ControlTypes DEF StartRequest, Load, Idle
      <3> QED
        BY <1>2, <2>2, <3>1, <3>2 DEF StageOK, Working, Ending, Closing
    <2> QED
      BY <2>1, <2>2
  <1> QED
    BY <1>2, <1>3, <1>4, StageKept

LEMMA EndStep ==
    ASSUME OnlyTurnsFinish, ControlInv, ContextInv, SegmentsInv, EndInv, [Next]_vars
    PROVE  EndInv'
  BY TurnsOnly, StartEnd, SaveAnswerEnd, PreparesEnd, CommitReplyEnd, EndingEnd,
     FinishCompleteEnd, EnvironmentEnd, AsksEnd DEF TurnStepOf, Prepares

LEMMA EndInit == Init => EndInv /\ ~Sealed
  <1> SUFFICES ASSUME Init PROVE EndInv /\ ~Sealed
    OBVIOUS
  <1>1. /\ status = "ready" /\ messages = <<>> /\ evaluation = "none" /\ evaluated = 0
        /\ \A h \in Handlers : handlers[h].pc = "idle"
    BY DEF Init, Idle
  <1>2. \A h \in Handlers : StageOK(h) /\ ~Closing(h)
    BY <1>1, StageNames DEF StageOK, Closing
  <1> QED
    BY <1>1, <1>2 DEF EndInv, HasClosed, Over, Sealed

LEMMA EndInvariance == ASSUME OnlyTurnsFinish PROVE Spec => []EndInv
  <1>1. ControlInv /\ ContextInv /\ SegmentsInv /\ EndInv /\ [Next]_vars => EndInv'
    BY EndStep
  <1> QED
    BY <1>1, EndInit, ControlInvariance, ContextInvariance, SegmentsInvariance, PTL DEF Spec

\* LastOf is not before any message of the question.
LEMMA LastOfBounds ==
    ASSUME messages \in Seq(Message), NEW q, NEW i \in 1..Len(messages), messages[i].question = q
    PROVE  i <= LastOf(q)
  <1>1. MessagesOf(q) \in SUBSET (1..Len(messages)) /\ Len(messages) \in Nat /\ i \in MessagesOf(q)
    BY DEF MessagesOf
  <1>2. \E k \in MessagesOf(q) : \A j \in MessagesOf(q) : j <= k
    BY <1>1, MaximumExists
  <1>3. \A j \in MessagesOf(q) : j <= LastOf(q)
    BY <1>1, <1>2 DEF LastOf
  <1> QED
    BY <1>1, <1>3

\* The open segment of a question, as save_user_answer and save_assistant_message find it.
LEMMA OpenFound ==
    ASSUME segments \in Seq(Segment), NEW q, Open(q)
    PROVE  /\ OpenSegment(q) \in 1..Len(segments) /\ segments[OpenSegment(q)].open
           /\ segments[OpenSegment(q)].question = q
  BY OpenSegmentFound DEF Open

\* close_current_segment leaves a conversation filed, and opens the next segment.
LEMMA CloseFiles ==
    ASSUME segments \in Seq(Segment), messages \in Seq(Message), OneOpenSegment,
           NEW q \in Questions, NEW next \in Questions \cup {0}, next # q,
           Open(q), CloseSegment(q, next), \A i \in 1..Len(messages) : Filed(i)
    PROVE  /\ UNCHANGED messages
           /\ \A i \in 1..Len(messages') : Filed(i)'
           /\ next # 0 => Open(next)'
           /\ next = 0 => \A s \in 1..Len(segments') : ~segments'[s].open
  <1>0. DOMAIN segments = 1..Len(segments) /\ Len(segments) \in Nat
        /\ DOMAIN messages = 1..Len(messages) /\ Len(messages) \in Nat
    OBVIOUS
  <1>1. PICK s \in 1..Len(segments) :
          s = OpenSegment(q) /\ s # 0 /\ segments[s].open /\ segments[s].question = q
    BY <1>0, OpenSegmentFound DEF Open
  <1>2. \A j \in 1..Len(segments) : segments[j].open => j = s
    BY <1>0, <1>1 DEF OneOpenSegment
  <1>3. UNCHANGED messages
    <2>1. \A i \in 1..Len(messages) : messages[i].segment # 0
      BY <1>0 DEF Filed
    <2>2. messages' = [i \in DOMAIN messages |-> messages[i]]
      BY <1>0, <1>1, <2>1 DEF CloseSegment
    <2> QED
      BY <2>2
  <1>4. next # 0 => OpenSegment(next) = 0
    BY <1>0, <1>1, <1>2, OpenSegmentFound
  <1>5. PICK c \in Seq(Segment) : c = Closed(s, q)
    BY SegmentTypes
  <1>6. /\ Len(c) = Len(segments) /\ \A i \in 1..Len(c) : ~c[i].open
        /\ \A i \in 1..Len(segments) : i # s => c[i] = segments[i]
        /\ \A i \in 1..Len(segments) : c[i].question = segments[i].question
    <2>1. /\ Len(c) = Len(segments) /\ ~c[s].open
          /\ \A i \in 1..Len(segments) : i # s => c[i] = segments[i]
          /\ \A i \in 1..Len(segments) : c[i].question = segments[i].question
      BY <1>5, SegmentTypes
    <2>2. \A i \in 1..Len(c) : ~c[i].open
      BY <1>2, <2>1
    <2> QED
      BY <2>1, <2>2
  <1>7. c[s].end = LastOf(q)
    <2>1. segments[s] \in Segment
      BY ElementOfSeq
    <2>2. c = [segments EXCEPT ![s] = [segments[s] EXCEPT !.open = FALSE, !.end = LastOf(q)]]
      BY <1>5, <2>1 DEF Closed, Segment
    <2>3. c[s] = [segments[s] EXCEPT !.open = FALSE, !.end = LastOf(q)]
      BY <1>0, <2>2
    <2> QED
      BY <2>1, <2>3 DEF Segment
  <1>8. \/ segments' = c /\ next = 0
        \/ segments' = Append(c, NewSegment(next)) /\ next # 0
    BY <1>1, <1>4, <1>5, CloseSegmentRows
  <1>9. /\ Len(segments') >= Len(c) /\ \A i \in 1..Len(c) : segments'[i] = c[i]
        /\ next # 0 => /\ Len(c) + 1 \in 1..Len(segments')
                       /\ segments'[Len(c) + 1] = NewSegment(next)
        /\ next = 0 => segments' = c
    <2>1. CASE next = 0
      BY <1>0, <1>6, <1>8, <2>1
    <2>2. CASE next # 0
      <3>1. NewSegment(next) \in Segment
        BY <2>2 DEF NewSegment, Segment
      <3>2. segments' = Append(c, NewSegment(next)) /\ Len(c) \in Nat
        BY <1>8, <2>2
      <3>3. /\ Len(segments') = Len(c) + 1 /\ segments'[Len(c) + 1] = NewSegment(next)
            /\ \A i \in 1..Len(c) : segments'[i] = c[i]
        BY <3>1, <3>2, AppendProperties
      <3> QED
        BY <2>2, <3>2, <3>3
    <2> QED
      BY <2>1, <2>2
  <1>10. ASSUME NEW i \in 1..Len(messages') PROVE Filed(i)'
    <2>1. PICK k \in 1..Len(segments) :
            /\ k = messages[i].segment /\ segments[k].question = messages[i].question
            /\ ~segments[k].open => i <= segments[k].end
      BY <1>3 DEF Filed
    <2>2. k \in 1..Len(segments') /\ segments'[k] = c[k] /\ c[k].question = messages[i].question
      BY <1>0, <1>6, <1>9, <2>1
    <2>3. i <= c[k].end
      <3>1. CASE k = s
        BY <1>1, <1>3, <1>7, <2>1, <3>1, LastOfBounds
      <3>2. CASE k # s
        BY <1>2, <1>6, <2>1, <3>2
      <3> QED
        BY <3>1, <3>2
    <2> QED
      BY <1>3, <2>1, <2>2, <2>3 DEF Filed
  <1>11. next # 0 => Open(next)'
    BY <1>9 DEF Open, NewSegment
  <1>12. next = 0 => \A k \in 1..Len(segments') : ~segments'[k].open
    BY <1>6, <1>9
  <1> QED
    BY <1>3, <1>10, <1>11, <1>12

\* What handler h, which moves alone, may be at while the segments stay as they are.
PlaceOK(h) ==
    /\ handlers[h].pc = "seal" => handlers[h].turn.question = context.question
    /\ handlers[h].pc = "commit" =>
         /\ handlers[h].segment \in 1..Len(segments)
         /\ segments[handlers[h].segment].open
         /\ segments[handlers[h].segment].question = context.question
    /\ handlers[h].pc = "advance" => Open(context.question + 1)

Past(h) == Closing(h) /\ handlers[h].pc # "seal"

\* No segment moves and the interview stays where it is.
LEMMA RecordKept ==
    ASSUME ControlInv, RecordInv, NEW h \in Handlers, Moved(h),
           UNCHANGED <<status, messages, segments>>,
           context'.question = context.question,
           PlaceOK(h)', handlers[h].pc # "advance", Past(h)' <=> Past(h)
    PROVE  RecordInv'
  <1>1. Sealed' <=> Sealed
    <2>1. \A g \in Handlers : Past(g)' <=> Past(g)
      BY DEF Moved, Past, Closing
    <2> QED
      BY <2>1 DEF Sealed, Past
  <1>2. ASSUME NEW g \in Handlers PROVE PlaceOK(g)'
    BY DEF RecordInv, PlaceOK, Moved, Open
  <1>3. \A i \in 1..Len(messages') : Filed(i)'
    BY DEF RecordInv, Filed
  <1>4. (messages # <<>> /\ ~Sealed /\ (\A g \in Handlers : handlers[g].pc # "advance")
           => Open(context.question))'
    <2>1. (\A g \in Handlers : handlers'[g].pc # "advance")
             => \A g \in Handlers : handlers[g].pc # "advance"
      BY DEF Moved
    <2> QED
      BY <1>1, <2>1 DEF RecordInv, Open
  <1>5. (Sealed => \A s \in 1..Len(segments) : ~segments[s].open)'
    BY <1>1 DEF RecordInv
  <1> QED
    BY <1>2, <1>3, <1>4, <1>5 DEF RecordInv, PlaceOK

LEMMA TurnNames ==
    /\ {"save", "ack", "decide", "prepare", "advance", "reply", "commit", "seal", "publish"}
         \subseteq TurnPcs \cup {"close", "complete"}
    /\ {"ack", "decide", "prepare", "advance", "reply", "commit"} \subseteq Working
    /\ {"seal", "publish", "close", "complete"} \subseteq Ending
  BY DEF TurnPcs, Working, Ending

\* During a turn the segment of its question is open.
LEMMA OpenDuringTurn ==
    ASSUME ControlInv, EndInv, RecordInv, NEW h \in Handlers,
           \/ handlers[h].pc \in Working \ {"advance"}
           \/ handlers[h].pc = "seal"
           \/ handlers[h].pc = "save" /\ status = "interviewing"
    PROVE  Open(context.question) /\ ~Sealed
  <1>1. ASSUME NEW g \in Handlers, handlers[g].pc \in TurnPcs \cup {"close", "complete"} PROVE g = h
    BY <1>1, EndHolder, TurnNames, StageNames
  <1>2. status = "interviewing"
    BY TurnNames DEF EndInv, StageOK
  <1>3. messages # <<>>
    BY <1>2 DEF EndInv
  <1>4. ~Sealed
    <2>1. ASSUME NEW g \in Handlers, Past(g) PROVE FALSE
      <3>1. g = h
        BY <1>1, <2>1, StageNames DEF Past, Closing
      <3> QED
        BY <2>1, <3>1, StageNames DEF Past, Closing
    <2> QED
      BY <1>2, <2>1 DEF Sealed, Past, Over
  <1>5. ASSUME NEW g \in Handlers, handlers[g].pc = "advance" PROVE FALSE
    <2>1. g = h
      BY <1>1, <1>5, TurnNames
    <2> QED
      BY <1>5, <2>1 DEF Working
  <1> QED
    BY <1>3, <1>4, <1>5 DEF RecordInv

LEMMA StartRecord ==
    ASSUME OnlyTurnsFinish, ControlInv, SegmentsInv, EndInv, NEW h \in Handlers,
           ControlStep(h), Start(h)
    PROVE  RecordInv'
  <1>1. status = "ready" /\ messages = <<>> /\ handlers[h].op = "start"
    BY DEF Start, At, EndInv, StageOK
  <1>2. segments = <<>> /\ context.question = 1
    BY <1>1 DEF SegmentsInv
  <1>3. Moved(h) /\ handlers'[h] = Idle
    BY <1>1, ControlTypes, ReturnMoves DEF Start
  <1> DEFINE m == NewMessage("main_question", 1, 1, None, 0)
             s == NewSegment(1)
  <1>4. messages' = <<m>> /\ segments' = <<s>> /\ status' = "interviewing" /\ UNCHANGED context
    BY <1>1, <1>2 DEF Start
  <1>5. m.segment = 1 /\ m.question = 1 /\ s.open /\ s.question = 1
    BY DEF NewMessage, NewSegment
  <1> HIDE DEF m, s
  <1>6. \A i \in 1..Len(messages') : Filed(i)'
    BY <1>4, <1>5 DEF Filed
  <1>7. Open(1)'
    BY <1>4, <1>5 DEF Open
  <1>8. ASSUME NEW g \in Handlers PROVE ~(handlers'[g].pc \in Working \cup Ending)
    <2>1. CASE g = h
      BY <1>3, <2>1, StageNames DEF Idle
    <2>2. CASE g # h
      BY <1>1, <1>3, <2>2 DEF Moved, EndInv, StageOK
    <2> QED
      BY <2>1, <2>2
  <1>9. ~Sealed'
    BY <1>4, <1>8 DEF Sealed, Closing, Over
  <1>10. Open(context.question)'
    BY <1>2, <1>4, <1>7 DEF Open
  <1> QED
    BY <1>6, <1>8, <1>9, <1>10, TurnNames DEF RecordInv

\* A message is put into the open segment of its question.
LEMMA RecordAppended ==
    ASSUME ControlInv, EndInv, RecordInv, NEW h \in Handlers, Moved(h), NEW m \in Message,
           messages' = Append(messages, m), UNCHANGED <<status, segments>>,
           context'.question = context.question,
           handlers[h].pc \in {"save", "commit"}, status = "interviewing",
           m.question = context.question,
           m.segment \in 1..Len(segments), segments[m.segment].open,
           segments[m.segment].question = context.question,
           PlaceOK(h)', ~Past(h)'
    PROVE  RecordInv'
  <1>1. /\ Len(messages) \in Nat /\ Len(messages') = Len(messages) + 1
        /\ \A i \in 1..Len(messages) : messages'[i] = messages[i]
        /\ messages'[Len(messages) + 1] = m
        /\ \A i \in 1..Len(messages') : i \in 1..Len(messages) \/ i = Len(messages) + 1
    BY RowTypes, MessageAppended DEF RowsOK
  <1>2. ASSUME NEW i \in 1..Len(messages') PROVE Filed(i)'
    <2>1. CASE i \in 1..Len(messages)
      BY <1>1, <2>1 DEF RecordInv, Filed
    <2>2. CASE i = Len(messages) + 1
      BY <1>1, <2>2 DEF Filed
    <2> QED
      BY <1>1, <2>1, <2>2
  <1>3. Open(context.question) /\ ~Sealed
    BY OpenDuringTurn DEF Working
  <1>4. ~Sealed'
    <2>1. \A g \in Handlers : ~Past(g)'
      BY <1>3 DEF Moved, Past, Closing, Sealed
    <2> QED
      BY <1>3, <2>1 DEF Sealed, Past
  <1>5. ASSUME NEW g \in Handlers PROVE PlaceOK(g)'
    BY DEF RecordInv, PlaceOK, Moved, Open
  <1>6. Open(context.question)'
    BY <1>3 DEF Open
  <1> QED
    BY <1>2, <1>4, <1>5, <1>6 DEF RecordInv, PlaceOK

LEMMA SaveAnswerRecord ==
    ASSUME ControlInv, EndInv, RecordInv, NEW h \in Handlers, ControlStep(h), SaveAnswer(h)
    PROVE  RecordInv'
  <1>1. Moved(h) /\ handlers[h].pc = "save" /\ handlers[h] \in Handler
    BY ControlTypes DEF ControlStep, SaveAnswer, At
  <1>2. UNCHANGED <<status, segments>>
    BY DEF SaveAnswer
  <1>3. handlers'[h].pc \in {"ack", "idle"} /\ ~Past(h) /\ ~Past(h)' /\ PlaceOK(h)'
    BY <1>1, LeadTo DEF Into, Past, Closing, Ending, PlaceOK
  <1>4. CASE UNCHANGED <<messages, context>>
    BY <1>1, <1>2, <1>3, <1>4, RecordKept
  <1>5. CASE ~UNCHANGED <<messages, context>>
    <2> DEFINE s == OpenSegment(context.question)
               m == NewMessage("answer", context.question, s, handlers[h].event, 0)
    <2>1. status = "interviewing" /\ messages' = Append(messages, m)
          /\ context' = [context EXCEPT !.pending = Len(messages) + 1]
      BY <1>5 DEF SaveAnswer, Accepts
    <2>2. m \in Message
      BY <1>1, RowTypes, NewMessageType, ControlTypes DEF Kinds, Handler
    <2>3. m.question = context.question /\ m.segment = s
      BY DEF NewMessage
    <2>4. s \in 1..Len(segments) /\ segments[s].open /\ segments[s].question = context.question
      BY <1>1, <2>1, OpenDuringTurn, OpenFound, RowTypes DEF RowsOK
    <2>5. context'.question = context.question
      BY <2>1, RowTypes DEF RowsOK
    <2> HIDE DEF s, m
    <2> QED
      BY <1>1, <1>2, <1>3, <2>1, <2>2, <2>3, <2>4, <2>5, RecordAppended
  <1> QED
    BY <1>4, <1>5

\* A step of the only handler that is inside a turn.
LEMMA RecordAlone ==
    ASSUME NEW h \in Handlers, Moved(h),
           \A g \in Handlers : g # h => ~(handlers[g].pc \in TurnPcs \cup {"close", "complete"}),
           \A i \in 1..Len(messages') : Filed(i)',
           PlaceOK(h)',
           \/ /\ status' = "interviewing" /\ ~Past(h)'
              /\ handlers'[h].pc # "advance" => Open(context.question)'
           \/ /\ status' \in Over \/ Past(h)'
              /\ \A s \in 1..Len(segments') : ~segments'[s].open
    PROVE  RecordInv'
  <1>1. ASSUME NEW g \in Handlers, g # h PROVE PlaceOK(g)' /\ ~Past(g)'
    BY <1>1, StageNames, TurnNames DEF Moved, PlaceOK, Past, Closing
  <1>2. \A g \in Handlers : PlaceOK(g)'
    BY <1>1
  <1>3. CASE /\ status' = "interviewing" /\ ~Past(h)'
             /\ handlers'[h].pc # "advance" => Open(context.question)'
    <2>1. ~Sealed'
      BY <1>1, <1>3 DEF Sealed, Past, Over
    <2> QED
      BY <1>2, <1>3, <2>1 DEF RecordInv, PlaceOK
  <1>4. CASE /\ status' \in Over \/ Past(h)'
             /\ \A s \in 1..Len(segments') : ~segments'[s].open
    <2>1. Sealed'
      BY <1>4 DEF Sealed, Past
    <2> QED
      BY <1>2, <1>4, <2>1 DEF RecordInv, PlaceOK
  <1> QED
    BY <1>3, <1>4

\* Who is at the end of an interview, or on the way to it, is alone.
LEMMA Alone ==
    ASSUME ControlInv, EndInv, NEW h \in Handlers,
           handlers[h].pc \in TurnPcs \cup {"close", "complete"}
    PROVE  \A g \in Handlers : g # h => ~(handlers[g].pc \in TurnPcs \cup {"close", "complete"})
  BY EndHolder

LEMMA PreparesRecord ==
    ASSUME ControlInv, ContextInv, SegmentsInv, EndInv, RecordInv, NEW h \in Handlers, ControlStep(h),
           Prepares(h)
    PROVE  RecordInv'
  <1>1. Moved(h) /\ UNCHANGED status /\ handlers'[h].pc \in Working
    BY PreparesMoves DEF ControlStep
  <1>2. ~Past(h)'
    BY <1>1, StageNames DEF Past, Closing
  <1>3. CASE Acknowledge(h) \/ Retry(h) \/ DecideTurn(h) \/ PrepareReply(h)
    <2>1. handlers'[h].pc \in {"decide", "prepare", "reply"}
      BY <1>3, LeadTo, AsksLeadTo DEF Into
    <2>2. handlers[h].pc \in {"idle", "ack", "decide", "prepare"}
          /\ UNCHANGED <<messages, segments, context>>
      BY <1>3 DEF Acknowledge, Retry, DecideTurn, Decide, PrepareReply, At, rowVars
    <2>3. ~Past(h) /\ PlaceOK(h)'
      BY <2>1, <2>2 DEF Past, Closing, Ending, PlaceOK
    <2> QED
      BY <1>1, <1>2, <2>2, <2>3, RecordKept
  <1>4. CASE BeginReply(h)
    <2>1. handlers[h].pc = "reply" /\ UNCHANGED <<messages, segments, context>>
      BY <1>4 DEF BeginReply, At, rowVars
    <2>2. handlers[h].turn.question = context.question
      BY <2>1 DEF ContextInv, TurnOK
    <2>3. handlers'[h].pc = "commit" /\ handlers'[h].segment = OpenSegment(context.question)
      BY <1>4, <2>2, ControlTypes DEF BeginReply, ReadTail, Handler
    <2>4. Open(context.question)
      BY <2>1, OpenDuringTurn, TurnNames
    <2>5. ~Past(h) /\ PlaceOK(h)'
      BY <2>1, <2>3, <2>4, OpenFound, RowTypes DEF RowsOK, Past, Closing, Ending, PlaceOK
    <2> QED
      BY <1>1, <1>2, <2>1, <2>5, RecordKept
  <1>5. CASE PrepareAdvance(h)
    <2>0. PICK q \in Questions : q = context.question
      BY RowTypes
    <2>1. handlers[h].pc = "prepare" /\ UNCHANGED context /\ handlers'[h].pc = "advance"
      BY <1>5, LeadTo DEF PrepareAdvance, At, Into
    <2>2. q \in Questions /\ q + 1 \in Questions /\ q + 1 # q /\ q + 1 # 0
      <3>1. HasNext(q)
        BY <1>5, <2>0, PreparedGuard DEF PrepareAdvance
      <3>2. q + 1 \in Questions
        BY <3>1, NextQuestion
      <3> QED
        BY <3>2 DEF Questions
    <2>3. Open(q)
      BY <2>0, <2>1, OpenDuringTurn, TurnNames
    <2>4. CloseSegment(q, q + 1)
      BY <1>5, <2>0 DEF PrepareAdvance
    <2>5. segments \in Seq(Segment) /\ messages \in Seq(Message) /\ OneOpenSegment
          /\ \A i \in 1..Len(messages) : Filed(i)
      BY RowTypes DEF RowsOK, RecordInv, SegmentsInv
    <2>6. (\A i \in 1..Len(messages') : Filed(i)') /\ Open(q + 1)'
      BY <2>2, <2>3, <2>4, <2>5, CloseFiles
    <2>7. PlaceOK(h)'
      BY <2>0, <2>1, <2>6 DEF PlaceOK, Open
    <2>8. status' = "interviewing"
      BY <1>1, <2>1, TurnNames DEF EndInv, StageOK
    <2>9. handlers[h].pc \in TurnPcs \cup {"close", "complete"}
      BY <2>1, TurnNames
    <2> QED
      BY <1>1, <1>2, <2>1, <2>6, <2>7, <2>8, <2>9, Alone, RecordAlone
  <1>6. CASE AdvanceContext(h)
    <2>1. handlers[h].pc = "advance" /\ handlers'[h].pc = "reply"
          /\ UNCHANGED <<messages, segments>> /\ context' = MovedTo(context.question + 1)
      BY <1>6, LeadTo DEF AdvanceContext, At, Into
    <2>2. context'.question = context.question + 1
      BY <2>1, RowTypes DEF MovedTo, RowsOK
    <2>3. Open(context.question)'
      BY <2>1, <2>2 DEF RecordInv, Open
    <2>4. \A i \in 1..Len(messages') : Filed(i)'
      BY <2>1 DEF RecordInv, Filed
    <2>5. PlaceOK(h)'
      BY <2>1 DEF PlaceOK
    <2>6. status' = "interviewing"
      BY <1>1, <2>1, TurnNames DEF EndInv, StageOK
    <2>7. handlers[h].pc \in TurnPcs \cup {"close", "complete"}
      BY <2>1, TurnNames
    <2> QED
      BY <1>1, <1>2, <2>3, <2>4, <2>5, <2>6, <2>7, Alone, RecordAlone
  <1> QED
    BY <1>3, <1>4, <1>5, <1>6 DEF Prepares

LEMMA CommitReplyRecord ==
    ASSUME ControlInv, ContextInv, EndInv, RecordInv, NEW h \in Handlers, ControlStep(h),
           CommitReply(h)
    PROVE  RecordInv'
  <1>1. /\ Moved(h) /\ handlers[h].pc = "commit" /\ handlers[h] \in Handler
        /\ UNCHANGED <<status, segments>>
    BY ControlTypes DEF ControlStep, CommitReply, At
  <1>2. handlers'[h].pc \in {"seal", "publish", "idle"} /\ ~Past(h)
    BY <1>1, LeadTo DEF Into, Past, Closing, Ending
  <1>3. CASE handlers[h].tail = Len(messages) + 1
    <2> DEFINE m == NewMessage(handlers[h].turn.kind, handlers[h].turn.question,
                               handlers[h].segment, None, handlers[h].answer)
    <2>1. messages' = Append(messages, m) /\ context' = AfterReply(handlers[h].turn.kind)
      BY <1>3 DEF CommitReply
    <2>2. m \in Message
      BY <1>1, NewMessageType DEF Handler, Turn
    <2>3. m.question = context.question /\ m.segment = handlers[h].segment
          /\ handlers[h].turn.question = context.question
      BY <1>1 DEF NewMessage, ContextInv, TurnOK
    <2>4. m.segment \in 1..Len(segments) /\ segments[m.segment].open
          /\ segments[m.segment].question = context.question
      BY <1>1, <2>3 DEF RecordInv
    <2> HIDE DEF m
    <2>5. context'.question = context.question
      BY <2>1, RowTypes DEF AfterReply, RowsOK
    <2>6. handlers'[h].turn = handlers[h].turn
          /\ handlers'[h].pc = IF handlers[h].turn.kind = "closing" THEN "seal" ELSE "publish"
      BY <1>1, <1>3, ControlTypes DEF CommitReply, Handler
    <2>7. PlaceOK(h)' /\ ~Past(h)'
      BY <2>3, <2>5, <2>6 DEF PlaceOK, Past, Closing
    <2>8. status = "interviewing"
      BY <1>1, TurnNames DEF EndInv, StageOK
    <2> QED
      BY <1>1, <2>1, <2>2, <2>3, <2>4, <2>5, <2>7, <2>8, RecordAppended
  <1>4. CASE handlers[h].tail # Len(messages) + 1
    <2>1. handlers'[h] = Idle /\ UNCHANGED <<messages, context>>
      BY <1>4, ControlTypes, ReturnMoves DEF CommitReply, ReleaseAndReturn
    <2>2. PlaceOK(h)' /\ ~Past(h)'
      BY <2>1, StageNames DEF Idle, PlaceOK, Past, Closing
    <2> QED
      BY <1>1, <1>2, <2>1, <2>2, RecordKept
  <1> QED
    BY <1>3, <1>4

\* The steps after the reply: the closing turn seals the record, and what follows
\* finds nothing left to close.
LEMMA EndingRecord ==
    ASSUME ControlInv, SegmentsInv, EndInv, RecordInv, NEW h \in Handlers, ControlStep(h),
           Seal(h) \/ Publish(h) \/ FinishClose(h) \/ FinishComplete(h)
    PROVE  RecordInv'
  <1>1. Moved(h) /\ StageOK(h) /\ UNCHANGED context
    BY DEF ControlStep, EndInv, Seal, Publish, FinishClose, FinishComplete, rowVars
  <1>2. segments \in Seq(Segment) /\ messages \in Seq(Message) /\ OneOpenSegment
        /\ (\A i \in 1..Len(messages) : Filed(i)) /\ context.question \in Questions
    BY RowTypes DEF RowsOK, RecordInv, SegmentsInv
  <1>3. CASE Seal(h)
    <2>1. handlers[h].pc = "seal" /\ handlers'[h].pc = "publish" /\ UNCHANGED status
      BY <1>3, LeadTo DEF Seal, At, Into
    <2>2. CloseSegment(context.question, 0) /\ Open(context.question)
      BY <1>3, <2>1, OpenDuringTurn DEF Seal, RecordInv
    <2>3. 0 # context.question
      BY <1>2 DEF Questions
    <2>4. (\A i \in 1..Len(messages') : Filed(i)') /\ \A s \in 1..Len(segments') : ~segments'[s].open
      BY <1>2, <2>2, <2>3, CloseFiles
    <2>5. handlers'[h].turn = handlers[h].turn
      BY <1>3, ControlTypes DEF Seal, Goto, Handler
    <2>6. Past(h)' /\ PlaceOK(h)'
      BY <1>1, <2>1, <2>5 DEF StageOK, Past, Closing, Ending, PlaceOK
    <2>7. handlers[h].pc \in TurnPcs \cup {"close", "complete"}
      BY <2>1, TurnNames
    <2> QED
      BY <1>1, <2>4, <2>6, <2>7, Alone, RecordAlone
  <1>4. CASE Publish(h)
    <2>1. handlers[h].pc = "publish" /\ handlers'[h].pc \in {"close", "idle"}
          /\ UNCHANGED <<status, messages, segments>>
      BY <1>4, LeadTo DEF Publish, At, Into, rowVars
    <2>2. PlaceOK(h)'
      BY <2>1 DEF PlaceOK
    <2>3. Past(h)' <=> Past(h)
      <3>1. CASE handlers[h].turn.kind = "closing"
        <4>1. status # "completed"
          BY <1>1, <2>1, TurnNames DEF StageOK
        <4>2. handlers'[h].pc = "close" /\ handlers'[h].turn = handlers[h].turn
          BY <1>4, <3>1, <4>1, ControlTypes DEF Publish, Handler
        <4> QED
          BY <2>1, <3>1, <4>2 DEF Past, Closing, Ending
      <3>2. CASE handlers[h].turn.kind # "closing"
        <4>1. handlers'[h] = Idle
          BY <1>4, <3>2, ControlTypes, ReturnMoves DEF Publish, ReleaseAndReturn
        <4> QED
          BY <3>2, <4>1, StageNames DEF Idle, Past, Closing
      <3> QED
        BY <3>1, <3>2
    <2> QED
      BY <1>1, <2>1, <2>2, <2>3, RecordKept
  <1>5. CASE FinishClose(h) \/ FinishComplete(h)
    <2>1. handlers[h].pc \in {"close", "complete"} /\ Past(h)
      BY <1>1, <1>5 DEF FinishClose, FinishComplete, At, StageOK, Past, Closing, Ending
    <2>2. \A s \in 1..Len(segments) : ~segments[s].open
      BY <2>1 DEF Past, Sealed, RecordInv
    <2>3. UNCHANGED <<segments, messages>>
      <3>1. CASE FinishClose(h)
        <4>1. OpenSegment(context.question) = 0
          BY <1>2, <2>2, OpenSegmentFound
        <4> QED
          BY <3>1, <4>1 DEF FinishClose, CloseSegment
      <3> QED
        BY <1>5, <3>1 DEF FinishComplete
    <2>4. (\A i \in 1..Len(messages') : Filed(i)') /\ \A s \in 1..Len(segments') : ~segments'[s].open
      BY <1>2, <2>2, <2>3 DEF Filed
    <2>5. PlaceOK(h)'
      BY <1>5, LeadTo DEF Into, PlaceOK
    <2>6. status' \in Over \/ Past(h)'
      <3>1. CASE FinishClose(h)
        <4>1. handlers'[h].pc = "complete" /\ handlers'[h].turn = handlers[h].turn
          BY <3>1, ControlTypes DEF FinishClose, Goto, Handler
        <4> QED
          BY <2>1, <4>1 DEF Past, Closing, Ending
      <3>2. CASE FinishComplete(h)
        <4>1. handlers[h].seen = "interviewing"
          BY <1>1, <3>2 DEF FinishComplete, At, StageOK
        <4>2. CanMove(handlers[h].seen, "completing")
          BY <4>1 DEF CanMove, AllowedTransitions, Statuses
        <4> QED
          BY <3>2, <4>2 DEF FinishComplete, Over
      <3> QED
        BY <1>5, <3>1, <3>2
    <2>7. handlers[h].pc \in TurnPcs \cup {"close", "complete"}
      BY <2>1
    <2> QED
      BY <1>1, <2>4, <2>5, <2>6, <2>7, Alone, RecordAlone
  <1> QED
    BY <1>3, <1>4, <1>5

LEMMA AsksRecord ==
    ASSUME ControlInv, RecordInv, NEW h \in Handlers, ControlStep(h),
           \/ h \in Requests /\ StartRequest(h)
           \/ ReceiveAnswer(h) /\ handlers'[h].pc = "save"
    PROVE  RecordInv'
  <1>1. UNCHANGED <<rowVars, jobVars>>
    BY OnlyRegistry
  <1>2. UNCHANGED <<status, messages, segments, context>>
    BY <1>1 DEF rowVars
  <1>3. handlers[h].pc = "idle" /\ handlers'[h].pc \in {"start", "save"} /\ Moved(h)
    BY AsksLeadTo DEF StartRequest, ReceiveAnswer, Load, At, Into, ControlStep
  <1>4. PlaceOK(h)' /\ ~Past(h) /\ ~Past(h)'
    BY <1>3 DEF PlaceOK, Past, Closing, Ending
  <1> QED
    BY <1>2, <1>3, <1>4, RecordKept

LEMMA EnvironmentRecord ==
    ASSUME EndInv, RecordInv, BeginEvaluation \/ EndEvaluation \/ Tick \/ UNCHANGED vars
    PROVE  RecordInv'
  <1>1. UNCHANGED <<messages, segments, context, handlers>>
    BY DEF BeginEvaluation, EndEvaluation, Tick, vars, rowVars
  <1>2. status' \in Over <=> status \in Over
    BY DEF BeginEvaluation, EndEvaluation, Tick, vars, rowVars, Over, EndInv
  <1>3. Sealed' <=> Sealed
    BY <1>1, <1>2 DEF Sealed, Closing
  <1> QED
    BY <1>1, <1>3 DEF RecordInv, Filed, Open

LEMMA RecordStep ==
    ASSUME OnlyTurnsFinish, ControlInv, ContextInv, SegmentsInv, EndInv, RecordInv, [Next]_vars
    PROVE  RecordInv'
  BY TurnsOnly, StartRecord, SaveAnswerRecord, PreparesRecord, CommitReplyRecord, EndingRecord,
     EnvironmentRecord, AsksRecord DEF TurnStepOf, Prepares

-----------------------------------------------------------------------------
(* The sequential interview *)

\* The turns of the transcript, by what is appended to it.
LEMMA TurnsSame ==
    ASSUME messages \in Seq(Message), SameConversation
    PROVE  UNCHANGED <<InterviewerTurns, LastTurn, TurnRows>>
  <1>1. DOMAIN messages' = DOMAIN messages /\ DOMAIN messages = 1..Len(messages)
    BY DEF SameConversation
  <1>2. TurnRows' = TurnRows /\ TurnRows \subseteq 1..Len(messages)
    BY <1>1 DEF TurnRows, IsTurn, SameConversation
  <1>3. ASSUME NEW k PROVE Said(k)' = Said(k)
    <2>1. RowsAt(k)' = RowsAt(k)
      BY <1>2 DEF RowsAt, Rank
    <2>2. \A i \in RowsAt(k) : /\ messages'[i].kind = messages[i].kind
                              /\ messages'[i].question = messages[i].question
      BY <1>2 DEF SameConversation, RowsAt
    <2> QED
      BY <2>1, <2>2, Zenon DEF Said
  <1>4. InterviewerTurns' = InterviewerTurns
    BY <1>2, <1>3 DEF InterviewerTurns
  <1> QED
    BY <1>2, <1>4 DEF LastTurn

LEMMA TurnRowsFinite ==
    ASSUME messages \in Seq(Message)
    PROVE  /\ TurnRows \subseteq 1..Len(messages) /\ IsFiniteSet(TurnRows)
           /\ Cardinality(TurnRows) \in Nat
           /\ TurnRows # {} => Cardinality(TurnRows) # 0
  <1>1. TurnRows \subseteq 1..Len(messages) /\ Len(messages) \in Nat
    BY DEF TurnRows
  <1>2. IsFiniteSet(1..Len(messages))
    BY <1>1, FS_Interval
  <1>3. IsFiniteSet(TurnRows)
    BY <1>1, <1>2, FS_Subset
  <1> QED
    BY <1>1, <1>3, FS_CardinalityType, FS_EmptySet

LEMMA RankBounded ==
    ASSUME messages \in Seq(Message), NEW i
    PROVE  Rank(i) \in Nat /\ Rank(i) <= Cardinality(TurnRows)
  <1>1. {t \in TurnRows : t <= i} \subseteq TurnRows
    OBVIOUS
  <1> QED
    BY <1>1, TurnRowsFinite, FS_Subset, FS_CardinalityType DEF Rank

\* A turn stored is the next one, and any other message leaves the turns alone.
LEMMA TurnsAppended ==
    ASSUME messages \in Seq(Message), TurnRows # {}, NEW m \in Message,
           messages' = Append(messages, m)
    PROVE  /\ IsTurn(m) => /\ InterviewerTurns' = Append(InterviewerTurns, <<m.kind, m.question>>)
                           /\ LastTurn' = <<m.kind, m.question>>
           /\ ~IsTurn(m) => UNCHANGED <<InterviewerTurns, LastTurn>>
           /\ TurnRows' # {}
  <1> PICK n : n = Len(messages) + 1
    OBVIOUS
  <1> PICK C : C = Cardinality(TurnRows)
    OBVIOUS
  <1>1. /\ Len(messages) \in Nat /\ DOMAIN messages = 1..Len(messages)
        /\ DOMAIN messages' = 1..n /\ messages'[n] = m
        /\ \A i \in 1..Len(messages) : messages'[i] = messages[i]
    BY MessageAppended
  <1>2. TurnRows \subseteq 1..Len(messages) /\ IsFiniteSet(TurnRows) /\ C \in Nat /\ C # 0
    BY TurnRowsFinite
  <1>3. TurnRows' = IF IsTurn(m) THEN TurnRows \cup {n} ELSE TurnRows
    BY <1>1 DEF TurnRows, IsTurn
  <1>4. ASSUME NEW k, RowsAt(k)' = RowsAt(k) PROVE Said(k)' = Said(k)
    <2>1. \A i \in RowsAt(k) : messages'[i] = messages[i]
      BY <1>1, <1>2 DEF RowsAt
    <2> QED
      BY <1>4, <2>1, Zenon DEF Said
  <1>5. CASE ~IsTurn(m)
    <2>1. TurnRows' = TurnRows
      BY <1>3, <1>5
    <2>2. \A k : RowsAt(k)' = RowsAt(k)
      BY <2>1 DEF RowsAt, Rank
    <2>3. InterviewerTurns' = InterviewerTurns
      BY <1>4, <2>1, <2>2 DEF InterviewerTurns
    <2> QED
      BY <1>2, <1>5, <2>1, <2>3 DEF LastTurn
  <1>6. CASE IsTurn(m)
    <2>1. TurnRows' = TurnRows \cup {n} /\ ~(n \in TurnRows) /\ TurnRows' # {}
      BY <1>1, <1>2, <1>3, <1>6
    <2>2. Cardinality(TurnRows)' = C + 1
      BY <1>2, <2>1, FS_AddElement
    <2>3. ASSUME NEW j \in TurnRows PROVE Rank(j)' = Rank(j) /\ Rank(j) \in Nat /\ Rank(j) <= C
      <3>1. {t \in TurnRows' : t <= j} = {t \in TurnRows : t <= j}
        BY <1>1, <1>2, <2>1
      <3> QED
        BY <3>1, RankBounded DEF Rank
    <2>4. Rank(n)' = C + 1
      <3>1. \A t \in TurnRows' : t <= n
        BY <1>1, <1>2, <2>1
      <3>2. {t \in TurnRows' : t <= n} = TurnRows'
        BY <3>1
      <3> QED
        BY <2>2, <3>2 DEF Rank
    <2>5. ASSUME NEW k \in 1..C PROVE Said(k)' = Said(k)
      <3>1. k # C + 1
        BY <1>2
      <3>2. RowsAt(k)' = RowsAt(k)
        BY <2>1, <2>3, <2>4, <3>1 DEF RowsAt
      <3> QED
        BY <1>4, <3>2
    <2>6. Said(C + 1)' = {<<m.kind, m.question>>}
      <3>1. RowsAt(C + 1)' = {n}
        <4>1. \A j \in TurnRows : Rank(j)' # C + 1
          BY <1>2, <2>3
        <4> QED
          BY <2>1, <2>4, <4>1 DEF RowsAt
      <3> QED
        BY <1>1, <3>1, Zenon DEF Said
    <2> DEFINE x == <<m.kind, m.question>>
    <2>7. InterviewerTurns = [k \in 1..C |-> Only(Said(k))]
      BY DEF InterviewerTurns
    <2>8. InterviewerTurns' = [k \in 1..(C + 1) |-> Only(Said(k)')]
      BY <2>1, <2>2 DEF InterviewerTurns
    <2>9. Only(Said(C + 1)') = x
      BY <2>6 DEF Only
    <2> HIDE DEF x
    <2> DEFINE S == {Only(Said(k)) : k \in 1..C} \cup {x}
    <2>10. \A k \in 1..C : InterviewerTurns'[k] = InterviewerTurns[k]
      BY <1>2, <2>5, <2>7, <2>8
    <2>11. InterviewerTurns'[C + 1] = x /\ DOMAIN InterviewerTurns' = 1..(C + 1)
      BY <1>2, <2>8, <2>9
    <2> HIDE DEF S
    <2>12. InterviewerTurns \in Seq(S) /\ InterviewerTurns' \in Seq(S) /\ x \in S
      <3>1. x \in S /\ \A k \in 1..C : Only(Said(k)) \in S
        BY DEF S
      <3>2. InterviewerTurns \in [1..C -> S]
        BY <2>7, <3>1
      <3>3. InterviewerTurns' \in [1..(C + 1) -> S]
        BY <1>2, <2>5, <2>8, <2>9, <3>1
      <3>4. C \in Nat /\ C + 1 \in Nat
        BY <1>2
      <3>5. \A i \in Nat : [1..i -> S] \subseteq Seq(S)
        BY SeqDef
      <3> QED
        BY <3>1, <3>2, <3>3, <3>4, <3>5, Zenon
    <2>13. Len(InterviewerTurns) = C /\ Len(InterviewerTurns') = C + 1
      BY <1>2, <2>7, <2>11, <2>12
    <2>14. InterviewerTurns' = Append(InterviewerTurns, x)
      <3> DEFINE G == Append(InterviewerTurns, x)
      <3>1. /\ G \in Seq(S) /\ Len(G) = C + 1 /\ G[C + 1] = x
            /\ \A k \in 1..C : G[k] = InterviewerTurns[k]
        BY <2>12, <2>13, AppendProperties
      <3>2. \A k \in 1..(C + 1) : InterviewerTurns'[k] = G[k]
        BY <1>2, <2>10, <2>11, <3>1
      <3> HIDE DEF G
      <3>3. InterviewerTurns' = G
        BY <2>12, <2>13, <3>1, <3>2, SeqEqual
      <3> QED
        BY <3>3 DEF G
    <2>15. LastTurn' = x
      BY <2>11, <2>13 DEF LastTurn
    <2> QED
      BY <1>6, <2>1, <2>14, <2>15 DEF x
  <1> QED
    BY <1>5, <1>6

\* The position in the plan is where the last turn left it, except while the next
\* question is on its way from the context row to the transcript.
FlowInv ==
    /\ messages # <<>> => TurnRows # {}
    /\ LastTurn[1] = "closing" => HasClosed
    /\ LastQuestion = IF \E h \in Handlers : Asking(h) THEN context.question - 1 ELSE context.question
    /\ (\E h \in Handlers : Asking(h)) => context.followUps = 0

\* A step of the server, seen from the sequential interview.
FlowStep == FlowInv' /\ [Flow!Next]_(Flow!vars)

\* A step that stores no turn.
SaysNothing ==
    /\ UNCHANGED <<InterviewerTurns, LastTurn, LastQuestion, FollowUpsSpoken>>
    /\ TurnRows # {} => TurnRows' # {}
    /\ messages' # <<>> => messages # <<>>
    /\ HasClosed => HasClosed'

LEMMA ConversationSaysNothing ==
    ASSUME messages \in Seq(Message), SameConversation PROVE SaysNothing
  <1>1. UNCHANGED <<InterviewerTurns, LastTurn, TurnRows>>
    BY TurnsSame
  <1>2. LastQuestion' = LastQuestion
    BY <1>1 DEF LastQuestion
  <1>3. FollowUpsSpoken' = FollowUpsSpoken
    BY <1>2, FollowUpsSame DEF FollowUpsSpoken
  <1>4. HasClosed => HasClosed'
    BY DEF SameConversation, HasClosed
  <1>5. messages' # <<>> => messages # <<>>
    BY DEF SameConversation
  <1> QED
    BY <1>1, <1>2, <1>3, <1>4, <1>5 DEF SaysNothing

LEMMA AnswerSaysNothing ==
    ASSUME messages \in Seq(Message), TurnRows # {}, NEW m \in Message, m.kind = "answer",
           messages' = Append(messages, m)
    PROVE  SaysNothing
  <1>1. UNCHANGED <<InterviewerTurns, LastTurn>> /\ TurnRows' # {}
    BY TurnsAppended DEF IsTurn
  <1>2. LastQuestion' = LastQuestion
    BY <1>1 DEF LastQuestion
  <1>3. FollowUpsSpoken' = FollowUpsSpoken
    BY <1>2, FollowUpsAppend DEF FollowUpsSpoken
  <1>4. HasClosed => HasClosed'
    BY MessageAppended DEF HasClosed
  <1>5. messages # <<>>
    BY TurnRowsFinite DEF TurnRows
  <1> QED
    BY <1>1, <1>2, <1>3, <1>4, <1>5 DEF SaysNothing

\* The turn in progress, when it is h's.
Speaking == {"advance", "reply", "commit"}

PhaseOf(h) ==
    LET s == handlers[h]
    IN  /\ Phase = IF s.pc = "prepare" THEN "decided"
                   ELSE IF s.pc \in Speaking THEN "prepared" ELSE "listening"
        /\ Decision = IF s.pc = "prepare" THEN s.action
                      ELSE IF s.pc \in Speaking THEN ActionOfKind[s.turn.kind] ELSE "none"
        /\ (\E g \in Handlers : Asking(g)) <=> Asking(h)

LEMMA PhaseNow ==
    ASSUME NEW h \in Handlers, HandlerOK(h),
           \A g \in Handlers : g # h => ~(handlers[g].pc \in TurnPcs)
    PROVE  PhaseOf(h)
  <1>1. Decided = IF handlers[h].pc = "prepare" THEN {h} ELSE {}
    BY DEF Decided, InPhase, Generating, HandlerOK, TurnPcs
  <1>2. Prepared = IF handlers[h].pc \in Speaking THEN {h} ELSE {}
    BY DEF Prepared, InPhase, Generating, HandlerOK, TurnPcs, Speaking
  <1>3. Only({h}) = h
    BY DEF Only
  <1>4. (\E g \in Handlers : Asking(g)) <=> Asking(h)
    BY DEF Asking, TurnPcs
  <1> QED
    BY <1>1, <1>2, <1>3, <1>4 DEF PhaseOf, Phase, Decision

LEMMA PhaseNext ==
    ASSUME NEW h \in Handlers, HandlerOK(h)',
           \A g \in Handlers : g # h => ~(handlers'[g].pc \in TurnPcs)
    PROVE  PhaseOf(h)'
  <1>1. Decided' = IF handlers'[h].pc = "prepare" THEN {h} ELSE {}
    BY DEF Decided, InPhase, Generating, HandlerOK, TurnPcs
  <1>2. Prepared' = IF handlers'[h].pc \in Speaking THEN {h} ELSE {}
    BY DEF Prepared, InPhase, Generating, HandlerOK, TurnPcs, Speaking
  <1>3. Only({h}) = h
    BY DEF Only
  <1>4. (\E g \in Handlers : Asking(g))' <=> Asking(h)'
    BY DEF Asking, TurnPcs
  <1> QED
    BY <1>1, <1>2, <1>3, <1>4 DEF PhaseOf, Phase, Decision

\* A handler that is not speaking leaves the turn in progress alone.
LEMMA PhaseKept ==
    ASSUME NEW h \in Handlers, Moved(h),
           ~(handlers[h].pc \in Speaking \cup {"prepare"}),
           ~(handlers'[h].pc \in Speaking \cup {"prepare"})
    PROVE  /\ UNCHANGED <<Phase, Decision>>
           /\ (\E g \in Handlers : Asking(g))' <=> \E g \in Handlers : Asking(g)
  <1>1. Decided' = Decided /\ Prepared' = Prepared
    BY DEF Decided, Prepared, InPhase, Generating, Moved, Speaking
  <1>2. \A g \in Decided \cup Prepared : handlers'[g] = handlers[g]
    BY DEF Decided, Prepared, InPhase, Moved, Speaking
  <1>3. \A S : S # {} => Only(S) \in S
    BY DEF Only
  <1>4. (\E g \in Handlers : Asking(g))' <=> \E g \in Handlers : Asking(g)
    BY DEF Asking, Moved, Speaking
  <1> QED
    BY <1>1, <1>2, <1>3, <1>4 DEF Phase, Decision

LEMMA FlowQuiet ==
    ASSUME FlowInv, SaysNothing, UNCHANGED <<Phase, Decision, remaining>>,
           context'.question = context.question, context'.followUps = context.followUps,
           (\E g \in Handlers : Asking(g))' <=> \E g \in Handlers : Asking(g)
    PROVE  FlowStep
  <1>1. FlowInv'
    BY DEF FlowInv, SaysNothing
  <1>2. UNCHANGED Flow!vars
    BY DEF Flow!vars, SaysNothing
  <1> QED
    BY <1>1, <1>2 DEF FlowStep

\* Both modules are about the same policy.
LEMMA SamePolicy ==
    /\ \A a, q, i, r : Flow!Guard(a, q, i, r) = Guard(a, q, i, r)
    /\ \A q : Flow!StableAction(q) = StableAction(q)
    /\ \A q : Flow!HasNext(q) <=> HasNext(q)
    /\ \A q : Flow!CoverageSeconds(q) = CoverageSeconds(q)
    /\ Flow!Actions = Actions
  BY DEF Flow!Guard, Flow!CanFollowUp, Flow!CanAdvance, Flow!MustCover, Flow!CoverageSeconds,
     Flow!HasNext, Flow!MinFollowUpSeconds, Flow!MinNextQuestionSeconds, Flow!StableAction,
     Flow!Actions, Guard, CanFollowUp, CanAdvance, MustCover, CoverageSeconds, HasNext,
     MinFollowUpSeconds, MinNextQuestionSeconds, StableAction, Actions

\* The first question is the first turn.
LEMMA NoTurnYet ==
    ASSUME messages = <<>>
    PROVE  /\ InterviewerTurns = << <<"main_question", 1>> >> /\ TurnRows = {}
           /\ LastTurn = <<"main_question", 1>> /\ LastQuestion = 1 /\ FollowUpsSpoken = 0
  <1>1. TurnRows = {}
    BY DEF TurnRows
  <1>2. InterviewerTurns = << <<"main_question", 1>> >>
    BY <1>1 DEF InterviewerTurns
  <1>3. LastTurn = <<"main_question", 1>> /\ LastQuestion = 1
    BY <1>2 DEF LastTurn, LastQuestion
  <1>4. FollowUpsOf(1) = {}
    BY DEF FollowUpsOf
  <1> QED
    BY <1>1, <1>2, <1>3, <1>4, FS_EmptySet DEF FollowUpsSpoken

LEMMA FirstTurn ==
    ASSUME NEW m, messages' = <<m>>, m.kind = "main_question", m.question = 1
    PROVE  /\ InterviewerTurns' = << <<"main_question", 1>> >> /\ TurnRows' = {1}
           /\ LastTurn' = <<"main_question", 1>> /\ LastQuestion' = 1 /\ FollowUpsSpoken' = 0
  <1>1. DOMAIN messages' = {1} /\ messages'[1] = m
    OBVIOUS
  <1>2. TurnRows' = {1}
    BY <1>1 DEF TurnRows, IsTurn
  <1>3. Cardinality({1}) = 1
    BY FS_Singleton
  <1>4. RowsAt(1)' = {1}
    <2>1. {t \in TurnRows' : t <= 1} = {1}
      BY <1>2
    <2> QED
      BY <1>2, <1>3, <2>1 DEF RowsAt, Rank
  <1>5. Said(1)' = {<<"main_question", 1>>}
    <2>1. Said(1)' = {<<messages'[i].kind, messages'[i].question>> : i \in {1}}
      BY <1>4, Zenon DEF Said
    <2> QED
      BY <1>1, <2>1
  <1>6. Only(Said(1)') = <<"main_question", 1>>
    BY <1>5 DEF Only
  <1>7. InterviewerTurns' = [k \in 1..1 |-> Only(Said(k)')]
    BY <1>2, <1>3 DEF InterviewerTurns
  <1>8. InterviewerTurns' = << <<"main_question", 1>> >>
    BY <1>6, <1>7
  <1>9. LastTurn' = <<"main_question", 1>> /\ LastQuestion' = 1
    BY <1>8 DEF LastTurn, LastQuestion
  <1>10. FollowUpsOf(1)' = {}
    BY <1>1 DEF FollowUpsOf
  <1> QED
    BY <1>2, <1>8, <1>9, <1>10, FS_EmptySet DEF FollowUpsSpoken

-----------------------------------------------------------------------------
(* One step of the server is at most one of the sequential interview *)

\* The steps of a handler that neither prepare nor store a turn.
Silent(h) ==
    \/ StartRequest(h)
    \/ ReceiveAnswer(h) /\ handlers'[h].pc = "save"
    \/ SaveAnswer(h) \/ Acknowledge(h) \/ Retry(h)
    \/ Seal(h) \/ Publish(h) \/ FinishClose(h) \/ FinishComplete(h)

LEMMA IdleFlow ==
    ASSUME ControlInv, FlowInv, UNCHANGED <<messages, context, handlers>>,
           remaining' = remaining \/ Tick
    PROVE  FlowStep
  <1>1. SaysNothing
    BY RowTypes, ConversationKept, ConversationSaysNothing DEF RowsOK
  <1>2. UNCHANGED <<Phase, Decision>> /\ ((\E g \in Handlers : Asking(g))' <=> \E g \in Handlers : Asking(g))
    BY DEF Phase, Decision, Decided, Prepared, InPhase, Generating, Asking
  <1>3. CASE remaining' = remaining
    BY <1>1, <1>2, <1>3, FlowQuiet
  <1>4. CASE Tick
    <2>1. Flow!Tick
      BY <1>1, <1>2, <1>4 DEF Tick, Flow!Tick, SaysNothing
    <2>2. FlowInv'
      BY <1>1, <1>2 DEF FlowInv, SaysNothing
    <2> QED
      BY <2>1, <2>2 DEF FlowStep, Flow!Next
  <1> QED
    BY <1>3, <1>4

LEMMA QuietFlow ==
    ASSUME ControlInv, EndInv, FlowInv, NEW h \in Handlers, ControlStep(h), Silent(h)
    PROVE  FlowStep
  <1>1. Moved(h) /\ handlers[h] \in Handler
    BY ControlTypes DEF ControlStep
  <1>2. ~(handlers[h].pc \in Speaking \cup {"prepare"})
    BY DEF Silent, StartRequest, ReceiveAnswer, SaveAnswer, Acknowledge, Retry, Seal, Publish,
           FinishClose, FinishComplete, At, Load, Speaking
  <1>3. ~(handlers'[h].pc \in Speaking \cup {"prepare"})
    BY LeadTo, AsksLeadTo DEF Silent, Into, Speaking
  <1>4. UNCHANGED remaining
    BY DEF Silent, StartRequest, ReceiveAnswer, SaveAnswer, Acknowledge, Retry, Seal, Publish,
           FinishClose, FinishComplete
  <1>5. SaysNothing /\ context'.question = context.question /\ context'.followUps = context.followUps
    <2>1. CASE SaveAnswer(h) /\ ~UNCHANGED <<messages, context>>
      <3> DEFINE m == NewMessage("answer", context.question, OpenSegment(context.question),
                                 handlers[h].event, 0)
      <3>1. /\ messages' = Append(messages, m) /\ status = "interviewing"
            /\ context' = [context EXCEPT !.pending = Len(messages) + 1]
        BY <2>1 DEF SaveAnswer, Accepts
      <3>6. handlers[h].event \in Answers \cup {None}
        BY <1>1 DEF Handler
      <3>7. m \in Message
        BY <3>6, RowTypes, NewMessageType DEF Kinds
      <3>2. m \in Message /\ m.kind = "answer"
        BY <3>7, NewMessageFields
      <3>3. TurnRows # {}
        BY <3>1 DEF EndInv, FlowInv
      <3> HIDE DEF m
      <3>4. SaysNothing
        BY <3>1, <3>2, <3>3, RowTypes, AnswerSaysNothing DEF RowsOK
      <3>5. context'.question = context.question /\ context'.followUps = context.followUps
        BY <3>1, RowTypes DEF RowsOK
      <3> QED
        BY <3>4, <3>5
    <2>2. CASE ~(SaveAnswer(h) /\ ~UNCHANGED <<messages, context>>)
      <3>1. SameConversation /\ UNCHANGED context
        BY <2>2, CloseRows, RowTypes, ConversationKept
           DEF Silent, StartRequest, ReceiveAnswer, Acknowledge, Retry, Publish, FinishComplete,
               rowVars, RowsOK
      <3> QED
        BY <3>1, RowTypes, ConversationSaysNothing DEF RowsOK
    <2> QED
      BY <2>1, <2>2
  <1> QED
    BY <1>1, <1>2, <1>3, <1>4, <1>5, PhaseKept, FlowQuiet

\* The request that starts the interview stores the turn it begins with.
LEMMA StartFlow ==
    ASSUME ControlInv, SegmentsInv, FlowInv, EndInv, NEW h \in Handlers, ControlStep(h), Start(h)
    PROVE  FlowStep
  <1>1. h \in Requests /\ messages = <<>> /\ context.question = 1
    BY DEF Start, At, EndInv, StageOK, SegmentsInv
  <1>2. UNCHANGED <<Phase, Decision>> /\ ((\E g \in Handlers : Asking(g))' <=> \E g \in Handlers : Asking(g))
    <2>1. ~(handlers[h].pc \in Speaking \cup {"prepare"})
      BY DEF Start, At, Speaking
    <2>2. Moved(h) /\ handlers'[h] = Idle
      BY <1>1, ControlTypes, ReturnMoves DEF Start, At, EndInv, StageOK
    <2>3. ~(handlers'[h].pc \in Speaking \cup {"prepare"})
      BY <2>2 DEF Idle, Speaking
    <2> QED
      BY <2>1, <2>2, <2>3, PhaseKept
  <1> DEFINE m == NewMessage("main_question", 1, Len(segments) + 1, None, 0)
  <1>3. messages' = <<m>> /\ m.kind = "main_question" /\ m.question = 1
    BY <1>1, NewMessageFields DEF Start
  <1> HIDE DEF m
  <1>4. /\ InterviewerTurns' = << <<"main_question", 1>> >> /\ TurnRows' = {1}
        /\ LastTurn' = <<"main_question", 1>> /\ LastQuestion' = 1 /\ FollowUpsSpoken' = 0
    BY <1>3, FirstTurn
  <1>5. UNCHANGED <<context, remaining>>
    BY DEF Start
  <1>6. UNCHANGED Flow!vars
    BY <1>1, <1>2, <1>4, <1>5, NoTurnYet DEF Flow!vars
  <1>7. FlowInv'
    BY <1>1, <1>2, <1>4, <1>5, NoTurnYet DEF FlowInv
  <1> QED
    BY <1>6, <1>7 DEF FlowStep

\* A turn at work is alone, and its transcript is not closed.
LEMMA TurnAlone ==
    ASSUME ControlInv, EndInv, FlowInv, NEW h \in Handlers, ControlStep(h),
           handlers[h].pc \in {"decide", "prepare"} \cup Speaking
    PROVE  /\ PhaseOf(h) /\ PhaseOf(h)'
           /\ LastQuestion = IF Asking(h) THEN context.question - 1 ELSE context.question
           /\ Asking(h) => context.followUps = 0
           /\ LastTurn[1] # "closing" /\ TurnRows # {}
  <1>1. handlers[h].pc \in TurnPcs /\ handlers[h].pc \in Working
    BY DEF Speaking, TurnPcs, Working
  <1>2. \A g \in Handlers : g # h => ~(handlers[g].pc \in TurnPcs)
    BY <1>1, TurnHolder
  <1>3. \A g \in Handlers : g # h => ~(handlers'[g].pc \in TurnPcs)
    BY <1>2 DEF ControlStep, Moved
  <1>4. PhaseOf(h) /\ PhaseOf(h)'
    BY <1>2, <1>3, ControlTypes, PhaseNow, PhaseNext DEF ControlStep
  <1>5. ~HasClosed /\ messages # <<>>
    BY <1>1, TurnStatus DEF EndInv, StageOK
  <1> QED
    BY <1>4, <1>5 DEF FlowInv, PhaseOf

\* What the policy is asked about is what the transcript shows.
LEMMA PositionSpoken ==
    ASSUME ContextInv, LastQuestion = context.question
    PROVE  FollowUpsSpoken = context.followUps
  BY DEF ContextInv, FollowUpsSpoken

LEMMA DecideFlow ==
    ASSUME ControlInv, ContextInv, EndInv, FlowInv, NEW h \in Handlers, ControlStep(h), DecideTurn(h)
    PROVE  FlowStep
  <1>1. handlers[h].pc = "decide" /\ UNCHANGED <<messages, context, remaining>>
    BY DEF DecideTurn, Decide, At, rowVars
  <1>2. PICK p : /\ p \in Actions \/ p = StableAction(context.question)
                 /\ handlers'[h].pc = "prepare"
                 /\ handlers'[h].action = Guard(p, context.question, context.followUps, remaining)
                 /\ handlers'[h].turn = handlers[h].turn
    BY ControlTypes DEF DecideTurn, Decide, Handler
  <1>3. /\ PhaseOf(h) /\ PhaseOf(h)'
        /\ LastQuestion = IF Asking(h) THEN context.question - 1 ELSE context.question
        /\ LastTurn[1] # "closing" /\ TurnRows # {}
    BY <1>1, TurnAlone
  <1>4. ~Asking(h) /\ ~Asking(h)'
    BY <1>1, <1>2 DEF Asking
  <1>5. LastQuestion = context.question /\ FollowUpsSpoken = context.followUps
    BY <1>3, <1>4, PositionSpoken
  <1>6. Phase = "listening" /\ Phase' = "decided" /\ Decision' = handlers'[h].action
    BY <1>1, <1>2, <1>3 DEF PhaseOf, Speaking
  <1>7. SaysNothing
    BY <1>1, RowTypes, ConversationKept, ConversationSaysNothing DEF RowsOK
  <1>8. Flow!Decide(p)
    BY <1>1, <1>2, <1>3, <1>5, <1>6, <1>7, SamePolicy
       DEF Flow!Decide, Flow!Closed, SaysNothing, LastTurn
  <1>9. Flow!Next
    BY <1>2, <1>5, <1>8, SamePolicy DEF Flow!Next, Flow!DecideByController, Flow!DecideByFallback
  <1>10. FlowInv'
    BY <1>1, <1>3, <1>4, <1>5, <1>7 DEF FlowInv, SaysNothing, PhaseOf
  <1> QED
    BY <1>9, <1>10 DEF FlowStep

LEMMA PrepareFlow ==
    ASSUME ControlInv, ContextInv, EndInv, FlowInv, NEW h \in Handlers, ControlStep(h),
           PrepareReply(h) \/ PrepareAdvance(h)
    PROVE  FlowStep
  <1>1. handlers[h].pc = "prepare" /\ UNCHANGED <<context, remaining>> /\ SameConversation
    BY CloseRows, RowTypes, ConversationKept DEF PrepareReply, PrepareAdvance, At, rowVars, RowsOK
  <1>2. /\ ActionOfKind[handlers'[h].turn.kind] = PreparedAction(h)
        /\ handlers'[h].pc \in {"advance", "reply"}
        /\ handlers'[h].pc = "reply" => handlers'[h].turn.kind # "main_question"
    BY ControlTypes DEF PrepareReply, PrepareAdvance, SetTurn, Handler, ActionOfKind
  <1>3. /\ PhaseOf(h) /\ PhaseOf(h)'
        /\ LastQuestion = IF Asking(h) THEN context.question - 1 ELSE context.question
        /\ LastTurn[1] # "closing" /\ TurnRows # {}
    BY <1>1, TurnAlone
  <1>4. ~Asking(h) /\ ~Asking(h)'
    BY <1>1, <1>2 DEF Asking
  <1>5. LastQuestion = context.question /\ FollowUpsSpoken = context.followUps
    BY <1>3, <1>4, PositionSpoken
  <1>6. /\ Phase = "decided" /\ Phase' = "prepared"
        /\ Decision = handlers[h].action /\ Decision' = PreparedAction(h)
    BY <1>1, <1>2, <1>3 DEF PhaseOf, Speaking
  <1>7. SaysNothing
    BY <1>1, RowTypes, ConversationSaysNothing DEF RowsOK
  <1>8. Flow!Reguard
    BY <1>1, <1>5, <1>6, <1>7, SamePolicy DEF Flow!Reguard, SaysNothing, PreparedAction
  <1>9. FlowInv'
    BY <1>1, <1>3, <1>4, <1>5, <1>7 DEF FlowInv, SaysNothing, PhaseOf
  <1> QED
    BY <1>8, <1>9 DEF FlowStep, Flow!Next

\* Between the commits of a turn the sequential interview waits.
LEMMA WaitFlow ==
    ASSUME ControlInv, ContextInv, EndInv, FlowInv, NEW h \in Handlers, ControlStep(h),
           AdvanceContext(h) \/ BeginReply(h)
    PROVE  FlowStep
  <1>1. /\ handlers[h].pc \in {"advance", "reply"} /\ UNCHANGED <<messages, remaining>>
        /\ handlers'[h].pc \in Speaking /\ handlers'[h].turn = handlers[h].turn
    BY ControlTypes DEF AdvanceContext, BeginReply, Goto, ReadTail, At, rowVars, Speaking, Handler
  <1>2. /\ PhaseOf(h) /\ PhaseOf(h)'
        /\ LastQuestion = IF Asking(h) THEN context.question - 1 ELSE context.question
        /\ Asking(h) => context.followUps = 0
        /\ LastTurn[1] # "closing" /\ TurnRows # {}
    BY <1>1, TurnAlone DEF Speaking
  <1>3. UNCHANGED <<Phase, Decision>>
    BY <1>1, <1>2 DEF PhaseOf, Speaking
  <1>4. SaysNothing
    BY <1>1, RowTypes, ConversationKept, ConversationSaysNothing DEF RowsOK
  <1>5. UNCHANGED Flow!vars
    BY <1>1, <1>3, <1>4 DEF Flow!vars, SaysNothing
  <1>6. /\ LastQuestion = IF Asking(h)' THEN context'.question - 1 ELSE context'.question
        /\ Asking(h)' => context'.followUps = 0
    <2>1. CASE AdvanceContext(h)
      <3>1. handlers[h].pc = "advance" /\ handlers'[h].pc = "reply"
        BY <2>1, LeadTo DEF AdvanceContext, At, Into
      <3>2. context'.question = context.question + 1 /\ context'.followUps = 0
        BY <2>1, RowTypes DEF AdvanceContext, MovedTo, RowsOK
      <3>3. handlers[h].turn.kind = "main_question"
        BY <3>1 DEF ContextInv, TurnOK
      <3>4. context.question \in Nat
        BY RowTypes DEF Questions
      <3> QED
        BY <1>1, <1>2, <3>1, <3>2, <3>3, <3>4 DEF Asking
    <2>2. CASE BeginReply(h)
      <3>1. handlers[h].pc = "reply" /\ handlers'[h].pc = "commit" /\ UNCHANGED context
        BY <2>2, LeadTo DEF BeginReply, At, Into, rowVars
      <3> QED
        BY <1>1, <1>2, <3>1 DEF Asking
    <2> QED
      BY <2>1, <2>2
  <1>7. FlowInv'
    BY <1>2, <1>4, <1>6 DEF FlowInv, SaysNothing, PhaseOf
  <1> QED
    BY <1>5, <1>7 DEF FlowStep

\* The reply is stored: the turn the sequential interview speaks.
LEMMA CommitFlow ==
    ASSUME ControlInv, ContextInv, QuestionsInv, EndInv, FlowInv,
           NEW h \in Handlers, ControlStep(h), CommitReply(h)
    PROVE  FlowStep
  <1> DEFINE t == handlers[h]
             m == NewMessage(t.turn.kind, t.turn.question, t.segment, None, t.answer)
  <1>1. /\ t.pc = "commit" /\ t.tail = Len(messages) + 1
        /\ t.turn.question = context.question
        /\ t.turn.kind \in {"main_question", "follow_up", "closing"}
    BY DEF CommitReply, At, QuestionsInv, ContextInv, TurnOK
  <1>2. /\ messages' = Append(messages, m)
        /\ context' = AfterReply(t.turn.kind)
        /\ handlers'[h].pc \in {"seal", "publish"}
        /\ UNCHANGED remaining
    BY <1>1, ControlTypes DEF CommitReply, Handler
  <1>3. m \in Message /\ m.kind = t.turn.kind /\ m.question = context.question
    <2>1. t.turn.kind \in Kinds /\ t.turn.question \in Questions /\ t.segment \in Nat /\ t.answer \in Nat
      BY ControlTypes DEF Handler, Turn
    <2>2. m \in Message
      BY <2>1, NewMessageType
    <2>3. m.kind = t.turn.kind /\ m.question = t.turn.question
      BY NewMessageFields
    <2> QED
      BY <1>1, <2>2, <2>3
  <1>4. context'.question = context.question
    BY <1>2, RowTypes DEF AfterReply, RowsOK
  <1>5. /\ PhaseOf(h) /\ PhaseOf(h)'
        /\ LastQuestion = IF Asking(h) THEN context.question - 1 ELSE context.question
        /\ Asking(h) => context.followUps = 0
        /\ TurnRows # {}
    BY <1>1, TurnAlone DEF Speaking
  <1>6. /\ Phase = "prepared" /\ Phase' = "listening"
        /\ Decision = ActionOfKind[t.turn.kind] /\ Decision' = "none"
        /\ ~Asking(h)'
    BY <1>1, <1>2, <1>5 DEF PhaseOf, Speaking, Asking
  <1>7. messages \in Seq(Message) /\ context.question \in Nat
    BY RowTypes DEF RowsOK, Questions
  <1> HIDE DEF m
  <1>8. /\ InterviewerTurns' = Append(InterviewerTurns, <<t.turn.kind, context.question>>)
        /\ LastTurn' = <<t.turn.kind, context.question>>
        /\ LastQuestion' = context.question
        /\ TurnRows' # {}
    <2>1. IsTurn(m)
      BY <1>1, <1>3 DEF IsTurn
    <2>2. LastTurn' = <<t.turn.kind, context.question>>
      BY <1>2, <1>3, <1>5, <1>7, <2>1, TurnsAppended
    <2>3. LastQuestion' = context.question
      BY <2>2 DEF LastQuestion
    <2> QED
      BY <1>2, <1>3, <1>5, <1>7, <2>1, <2>2, <2>3, TurnsAppended
  <1>9. FollowUpsSpoken' = IF t.turn.kind = "follow_up" THEN context.followUps + 1
                           ELSE context.followUps
    <2> PICK q : q = context.question
      OBVIOUS
    <2>1. FollowUpsSpoken' = Cardinality(FollowUpsOf(q))'
      BY <1>8 DEF FollowUpsSpoken
    <2>2. context.followUps = Cardinality(FollowUpsOf(q))
      BY DEF ContextInv
    <2> QED
      BY <1>2, <1>3, <1>7, <2>1, <2>2, FollowUpsAppend
  <1>10. Flow!AskFollowUp \/ Flow!Advance \/ Flow!Close
    <2>1. CASE t.turn.kind = "main_question"
      <3>1. Decision = "advance" /\ Asking(h)
        BY <1>1, <1>6, <2>1 DEF ActionOfKind, Asking
      <3>2. context.question = LastQuestion + 1 /\ context.followUps = 0
        BY <1>5, <1>7, <3>1
      <3> QED
        BY <1>8, <1>9, <2>1, <3>1, <3>2 DEF Flow!Advance
    <2>2. CASE t.turn.kind # "main_question"
      <3>1. LastQuestion = context.question
        BY <1>5, <2>2 DEF Asking
      <3>2. FollowUpsSpoken = context.followUps
        BY <3>1, PositionSpoken
      <3>3. CASE t.turn.kind = "follow_up"
        BY <1>6, <1>8, <1>9, <3>1, <3>2, <3>3 DEF Flow!AskFollowUp, ActionOfKind
      <3>4. CASE t.turn.kind = "closing"
        BY <1>6, <1>8, <1>9, <3>1, <3>2, <3>4 DEF Flow!Close, ActionOfKind
      <3> QED
        BY <1>1, <2>2, <3>3, <3>4
    <2> QED
      BY <2>1, <2>2
  <1>11. Flow!Next
    BY <1>2, <1>6, <1>10 DEF Flow!Next, Flow!Speak
  <1>12. t.turn.kind = "closing" => HasClosed'
    BY <1>2, <1>3, <1>7, MessageAppended DEF HasClosed
  <1>13. FlowInv'
    BY <1>4, <1>5, <1>6, <1>8, <1>12 DEF FlowInv, PhaseOf
  <1> QED
    BY <1>11, <1>13 DEF FlowStep

LEMMA EveryFlowStep ==
    ASSUME OnlyTurnsFinish, ControlInv, ContextInv, SegmentsInv, QuestionsInv, EndInv, FlowInv,
           [Next]_vars
    PROVE  FlowStep
  <1>1. CASE UNCHANGED vars \/ BeginEvaluation \/ EndEvaluation \/ Tick
    <2>1. UNCHANGED <<messages, context, handlers>> /\ (remaining' = remaining \/ Tick)
      BY <1>1 DEF vars, rowVars, BeginEvaluation, EndEvaluation, Tick
    <2> QED
      BY <2>1, IdleFlow
  <1>2. ASSUME NEW h \in Handlers, ControlStep(h),
               \/ TurnStepOf(h) \/ Start(h) \/ StartRequest(h)
               \/ ReceiveAnswer(h) /\ handlers'[h].pc = "save"
        PROVE  FlowStep
    <2>1. CASE Silent(h)
      BY <1>2, <2>1, QuietFlow
    <2>2. CASE Start(h)
      BY <1>2, <2>2, StartFlow
    <2>3. CASE DecideTurn(h) \/ PrepareReply(h) \/ PrepareAdvance(h)
      BY <1>2, <2>3, DecideFlow, PrepareFlow
    <2>4. CASE AdvanceContext(h) \/ BeginReply(h) \/ CommitReply(h)
      BY <1>2, <2>4, WaitFlow, CommitFlow
    <2>5. CASE TurnStepOf(h)
      BY <2>1, <2>3, <2>4, <2>5 DEF TurnStepOf, Silent
    <2>6. CASE ~TurnStepOf(h)
      BY <1>2, <2>1, <2>2, <2>6 DEF Silent
    <2> QED
      BY <2>5, <2>6
  <1> QED
    BY <1>1, <1>2, TurnsOnly

LEMMA FlowInit == Init => FlowInv /\ Flow!Init
  <1> SUFFICES ASSUME Init PROVE FlowInv /\ Flow!Init
    OBVIOUS
  <1>1. messages = <<>> /\ context.question = 1 /\ \A h \in Handlers : handlers[h].pc = "idle"
    BY DEF Init, Idle
  <1>2. Decided = {} /\ Prepared = {} /\ \A h \in Handlers : ~Asking(h)
    BY <1>1 DEF Decided, Prepared, InPhase, Asking
  <1>3. Phase = "listening" /\ Decision = "none"
    BY <1>2 DEF Phase, Decision
  <1>4. remaining \in TimePoints
    BY InstanceAssumption DEF Init
  <1> QED
    BY <1>1, <1>2, <1>3, <1>4, NoTurnYet DEF FlowInv, Flow!Init

\* InterviewFlow as its theorems speak of it.
Promised == INSTANCE InterviewFlowProofs WITH
    question <- LastQuestion,
    followUps <- FollowUpsSpoken,
    phase <- Phase,
    decision <- Decision,
    turns <- InterviewerTurns

LEMMA SamePromisedPolicy ==
    /\ \A a, q, i, r : Promised!Guard(a, q, i, r) = Guard(a, q, i, r)
    /\ \A q : Promised!StableAction(q) = StableAction(q)
    /\ \A q : Promised!HasNext(q) <=> HasNext(q)
    /\ \A q : Promised!CoverageSeconds(q) = CoverageSeconds(q)
    /\ Promised!Actions = Actions
  BY DEF Promised!Guard, Promised!CanFollowUp, Promised!CanAdvance, Promised!MustCover,
     Promised!CoverageSeconds, Promised!HasNext, Promised!MinFollowUpSeconds,
     Promised!MinNextQuestionSeconds, Promised!StableAction, Promised!Actions, Guard,
     CanFollowUp, CanAdvance, MustCover, CoverageSeconds, HasNext, MinFollowUpSeconds,
     MinNextQuestionSeconds, StableAction, Actions

LEMMA FlowIsPromised == ImplementsFlow => Promised!Spec
  <1>1. Flow!Init => Promised!Init
    BY DEF Flow!Init, Promised!Init
  <1>2. [Flow!Next]_(Flow!vars) => [Promised!Next]_(Promised!vars)
    <2>1. ASSUME NEW p, Flow!Decide(p) PROVE Promised!Decide(p)
      BY <2>1, SamePolicy, SamePromisedPolicy
         DEF Flow!Decide, Promised!Decide, Flow!Closed, Promised!Closed
    <2>2. Flow!DecideByController => Promised!DecideByController
      BY <2>1, SamePolicy, SamePromisedPolicy DEF Flow!DecideByController, Promised!DecideByController
    <2>3. Flow!DecideByFallback => Promised!DecideByFallback
      BY <2>1, SamePolicy, SamePromisedPolicy DEF Flow!DecideByFallback, Promised!DecideByFallback
    <2>4. Flow!Reguard => Promised!Reguard
      BY SamePolicy, SamePromisedPolicy DEF Flow!Reguard, Promised!Reguard
    <2>5. Flow!Speak => Promised!Speak
      BY DEF Flow!Speak, Flow!AskFollowUp, Flow!Advance, Flow!Close,
             Promised!Speak, Promised!AskFollowUp, Promised!Advance, Promised!Close
    <2>6. Flow!ProviderFails \/ Flow!Tick => Promised!ProviderFails \/ Promised!Tick
      BY DEF Flow!ProviderFails, Flow!Tick, Promised!ProviderFails, Promised!Tick
    <2> QED
      BY <2>2, <2>3, <2>4, <2>5, <2>6 DEF Flow!Next, Promised!Next, Flow!vars, Promised!vars
  <1> QED
    BY <1>1, <1>2, PTL DEF ImplementsFlow, Flow!Spec, Promised!Spec

-----------------------------------------------------------------------------
(* The theorems *)

\* For any number of sockets, requests and answers, lost connections and crashes
\* included, InFlightAnswerRegistry admits one turn at a time and holds the
\* session exactly while a handler is between acquire and release.
THEOREM LiveOneTurnAtATime == Spec => []OneTurnAtATime
  <1>1. ControlInv => OneTurnAtATime
    BY DEF ControlInv
  <1> QED
    BY <1>1, ControlInvariance, PTL

\* However often a client sends an answer again, over however many sockets,
\* save_user_answer stores it once, and what append_event acknowledged is stored.
THEOREM LiveAnswersStoredOnce == Spec => []AnswersStoredOnce
  <1>1. ASSUME ControlInv, AnswersInv PROVE AnswersStoredOnce
    <2> SUFFICES ASSUME NEW e \in Answers
                 PROVE  LET rows == {i \in DOMAIN messages : messages[i].event = e}
                        IN  Cardinality(rows) <= 1 /\ (e \in acked => rows # {})
      BY DEF AnswersStoredOnce
    <2> DEFINE rows == {i \in DOMAIN messages : messages[i].event = e}
    <2>1. DOMAIN messages = 1..Len(messages)
      BY <1>1, RowTypes DEF RowsOK
    <2>2. \A i, j \in rows : i = j
      BY <1>1, <2>1 DEF AnswersInv
    <2>3. e \in acked => rows # {}
      BY <1>1, <2>1 DEF AnswersInv, Stored
    <2>4. Cardinality(rows) <= 1
      <3> HIDE DEF rows
      <3>1. CASE rows = {}
        BY <3>1, FS_EmptySet
      <3>2. CASE rows # {}
        <4>1. PICK i \in rows : rows = {i}
          BY <2>2, <3>2
        <4>2. Cardinality({i}) = 1
          BY FS_Singleton
        <4> QED
          BY <4>1, <4>2
      <3> QED
        BY <3>1, <3>2
    <2> QED
      BY <2>3, <2>4
  <1> QED
    BY <1>1, ControlInvariance, AnswersInvariance, PTL

\* For every plan and every interleaving, InterviewContextState says what the
\* transcript shows: the questions passed in order, the follow-ups there are,
\* and none of them over its budget; and all rows keep their types.
THEOREM LiveContextMatchesTranscript == Spec => []ContextMatchesTranscript
  <1>1. ControlInv /\ ContextInv => ContextMatchesTranscript
    BY DEF ControlInv, ContextInv, ContextMatchesTranscript
  <1> QED
    BY <1>1, ControlInvariance, ContextInvariance, PTL

\* Whatever fails after save_user_answer, the answer the conversation ends with
\* is the pending one that turn.retry takes up.
THEOREM LiveStalledTurnIsRetryable == Spec => []StalledTurnIsRetryable
  BY StalledInvariance, PTL

\* close_current_segment and start_session never leave two segments open, nor
\* one of a question the interview has passed.
THEOREM LiveOneOpenSegment == Spec => []OneOpenSegment
  <1>1. SegmentsInv => OneOpenSegment
    BY DEF SegmentsInv
  <1> QED
    BY <1>1, SegmentsInvariance, PTL

\* A retry never repeats the interviewer: whatever sockets are lost, providers fail
\* and crashes happen, and however often an answer is sent again, the answer that
\* turn.retry takes up and the one it is working on have no reply in the transcript.
THEOREM LiveRetriesRepeatNothing == Spec => []RetriesRepeatNothing
  <1>1. Init => RepliesInv
    BY DEF Init, RepliesInv, Idle, Working
  <1>2. ControlInv /\ RepliesInv /\ [Next]_vars => RepliesInv'
    BY RepliesStep
  <1>3. ControlInv /\ RepliesInv => RetriesRepeatNothing
    <2> SUFFICES ASSUME ControlInv, RepliesInv PROVE RetriesRepeatNothing
      OBVIOUS
    <2>1. DOMAIN messages = 1..Len(messages)
      BY RowTypes DEF RowsOK
    <2>2. \A n : Unanswered(n) => ~Replied(n)
      BY <2>1 DEF Unanswered, Replied
    <2> QED
      BY <2>2 DEF RepliesInv, RetriesRepeatNothing, Working
  <1> QED
    BY <1>1, <1>2, <1>3, ControlInvariance, PTL DEF Spec

\* As long as nothing fails, no question is followed up, closed or passed over
\* without having been put to the candidate: the advance commits its context
\* before the question is stored, but the same handler goes on to store it.
THEOREM LiveQuestionsAreAsked == ASSUME NothingFails PROVE Spec => []QuestionsAreAsked
  <1>1. QuestionsInv => QuestionsAreAsked
    BY DEF QuestionsInv
  <1> QED
    BY <1>1, QuestionsInvariance, PTL

\* The record of an interview that its own closing turn finishes is complete and
\* sealed: handle_evaluate_interview reads a transcript to which nothing is added
\* any more, and once the interview is over every message lies within a segment
\* that close_current_segment has closed.
THEOREM LiveRecordIsComplete == ASSUME OnlyTurnsFinish PROVE Spec => []RecordIsComplete
  <1>1. Init => RecordInv
    <2> SUFFICES ASSUME Init PROVE RecordInv
      OBVIOUS
    <2>1. messages = <<>> /\ segments = <<>> /\ \A h \in Handlers : handlers[h].pc = "idle"
      BY DEF Init, Idle
    <2>2. ~Sealed
      BY EndInit
    <2> QED
      BY <2>1, <2>2 DEF RecordInv
  <1>2. ControlInv /\ ContextInv /\ SegmentsInv /\ EndInv /\ RecordInv /\ [Next]_vars
          => RecordInv'
    BY RecordStep
  <1>3. ControlInv /\ EndInv /\ RecordInv => RecordIsComplete
    <2> SUFFICES ASSUME ControlInv, EndInv, RecordInv PROVE RecordIsComplete
      OBVIOUS
    <2>1. DOMAIN messages = 1..Len(messages)
      BY RowTypes DEF RowsOK
    <2>2. ASSUME Settled, NEW i \in DOMAIN messages
          PROVE  LET s == messages[i].segment
                 IN  s # 0 /\ ~segments[s].open /\ i <= segments[s].end
      <3>1. Sealed
        BY <2>2 DEF Settled, Sealed, Over
      <3> QED
        BY <2>1, <2>2, <3>1 DEF RecordInv, Filed
    <2> QED
      BY <2>2 DEF RecordIsComplete, EndInv
  <1> QED
    BY <1>1, <1>2, <1>3, ControlInvariance, ContextInvariance, SegmentsInvariance, EndInvariance,
       PTL DEF Spec

\* However many sockets submit and retry at once, the transcript grows exactly as
\* the sequential interview would let it grow: the position in the plan, the turn
\* in preparation and the turns in the transcript make every step of the server a
\* step of InterviewFlow, or none.
THEOREM LiveImplementsFlow == ASSUME OnlyTurnsFinish PROVE Spec => ImplementsFlow
  <1>1. NothingFails
    BY DEF OnlyTurnsFinish, NothingFails
  <1>2. ControlInv /\ ContextInv /\ SegmentsInv /\ QuestionsInv /\ EndInv /\ FlowInv /\ [Next]_vars
          => FlowStep
    BY EveryFlowStep
  <1>3. FlowStep => FlowInv' /\ [Flow!Next]_(Flow!vars)
    BY DEF FlowStep
  <1>4. Spec => []QuestionsInv
    BY <1>1, QuestionsInvariance
  <1> QED
    BY <1>2, <1>3, <1>4, FlowInit, ControlInvariance, ContextInvariance, SegmentsInvariance,
       EndInvariance, PTL DEF Spec, ImplementsFlow, Flow!Spec

\* So the server keeps what is proved of the sequential interview: the transcript
\* asks the main questions of the plan in order, each once, and gives up a planned
\* question only when the seconds left do not allow asking it.
THEOREM LiveTurnsFollowPlan ==
    ASSUME OnlyTurnsFinish
    PROVE  Spec => [](Flow!AsksPlanInOrder /\ Flow!CoverageBeforeEarlyFinish)
  <1>1. Promised!PlanAssumption /\ Promised!TimeAssumption
    BY PlanAssumption, InstanceAssumption
       DEF Promised!PlanAssumption, Promised!TimeAssumption, Promised!Questions, Questions
  <1>2. Promised!Spec => []Promised!AsksPlanInOrder
    BY <1>1, Promised!FlowAsksPlanInOrder
  <1>3. Promised!Spec => []Promised!CoverageBeforeEarlyFinish
    BY <1>1, Promised!FlowCoverageBeforeEarlyFinish
  <1>4. Promised!AsksPlanInOrder => Flow!AsksPlanInOrder
    BY DEF Promised!AsksPlanInOrder, Flow!AsksPlanInOrder
  <1>5. Promised!CoverageBeforeEarlyFinish => Flow!CoverageBeforeEarlyFinish
    BY SamePolicy, SamePromisedPolicy
       DEF Promised!CoverageBeforeEarlyFinish, Promised!Closed,
           Flow!CoverageBeforeEarlyFinish, Flow!Closed
  <1> QED
    BY <1>2, <1>3, <1>4, <1>5, LiveImplementsFlow, FlowIsPromised, PTL

=============================================================================
