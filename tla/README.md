# A TLA+ model of interview-helper

interview-helper is a mock-interview trainer: a FastAPI server with a PostgreSQL
database, a worker process that runs background jobs, and a React client that
holds the live interview over a WebSocket. This directory models its core logic
in TLA+, checks it with TLC on small instances, and proves most of the safety
properties so checked for instances of any size with TLAPS.

Paths below are relative to the repository; `app/` stands for `backend/app/`,
`docs/` for `docs/superpowers/`. `PROJECT.json` maps every definition that
models code to the lines it stands for.

1. [The system](#1-the-system)
2. [Modules](#2-modules)
3. [Runs](#3-runs)
4. [Where the code and its documents part](#4-where-the-code-and-its-documents-part)
5. [Proofs](#5-proofs)
6. [What is only model-checked, what is left out](#6-what-is-only-model-checked-what-is-left-out)
7. [Plan](#7-plan)

## 1. The system

### Components

| Component | State | Operations | What makes it correct |
|---|---|---|---|
| **Turn policy** (`app/services/interview_orchestrator.py`) | none of its own: plan, position, seconds left | `_stable_decision`, `_guard_decision`, `decide_turn`, `prepare_turn` | questions in plan order, follow-ups within budget, coverage before an early finish, the interview closes |
| **Live turns** (`app/api/routes/interview_live.py`, `app/context/segmentation.py`) | context row (current question, follow-up index, completed questions, pending answer), messages, segments; the in-flight registry in memory | submit, retry, restate, the stages of a turn | one turn at a time, an answer stored once and answered once, a turn that failed can be retried, segments do not overlap |
| **Session lifecycle** (`app/services/interview_sessions.py`, `app/realtime/state_machine.py`) | status, progress counter, the evaluation job | start, pause, resume, finish over HTTP and over the socket | status follows the transition table, progress agrees with the transcript |
| **Event log and connections** (`app/realtime/event_store.py`, `connection_manager.py`) | numbered events, `last_event_sequence`, the table of connections | append, replay, look up by client event id, connect, disconnect | a dense log, a client event stored once, an exact table within its cap |
| **Browser socket** (`frontend/src/lib/realtime/interviewSocket.ts`) | last sequence, pending answer, back-off | open, send, receive, reconnect | no answer forgotten before it is stored, every answer acknowledged in the end |
| **Evaluation** (`app/workers/evaluation_jobs.py`, `app/services/evaluation.py`) | job row, report, session status | claim, run, persist, fail, retry | bounded attempts, one evaluator at a time, job, report and session agree, an evaluation ends |
| **Question discovery** (`app/workers/discovery_jobs.py`, `app/services/question_discovery.py`) | run, job, source cards | create, cancel, delete, expire; claim, retrieve, curate, complete, fail, recover | cap on active runs, run and job end together, cards resolved, every run ends |
| **Embedding index** (`app/memory/embedding_index.py`, `app/workers/embedding_jobs.py`) | index versions, their vectors and job | rebuild; claim, page, embed, persist, reconcile, promote, yield, fail, recover | one active index which is never lost, promoted only when it covers its sources, vectors of one model, builds end and make way for interviews |
| **Question library** (`app/services/discovery_imports.py`, `questions.py`) | questions of the banks, import audit under an idempotency key, counters of the candidates, tags | prepare, replay, validate, persist; create, edit, archive; delete a run | all or nothing, a key imports once, a prompt is in a bank once, audit and library agree, no request waits for ever |
| **Interview setup** (`app/services/resumes.py`, `interview_planning.py`, `question_retrieval.py`, `practice_tasks.py`, `app/workers/resume_jobs.py`, `plan_jobs.py`) | resume and its file, plans, practice tasks, their jobs | upload, retry, delete; create task, move it; plan, generate, freeze; claim, process, fail | a resume has its file and its job, a plan is playable or refused by its schema, jobs and plans end |
| **Database** (`alembic/versions/`, `app/db/models/`, what services write and delete) | revision, schema, rows | upgrade, downgrade; write, delete with its cascades | the schema is a function of the revision and that of the classes, migrations run on filled databases, deletions succeed and spare the records |
| **Worker process** (`app/workers/run.py`, `heartbeat.py`, `context_summary_jobs.py`) | job rows, heartbeat rows | poll the kinds of jobs in turn | a job that is queued is run |
| **Rate limiting** (`app/core/security.py`) | sliding windows per key, the in-flight registry | allow, acquire, release | no slot leaks |
| **Context, memory** (`app/context/`, `app/memory/`) | token budgets, memory items | degrade, write, retrieve, supersede | budgets are kept |
| **CRUD and I/O** (companies, model connections, connectors, providers, local AI runtime) | independent rows, HTTP, containers | create, update, delete, probe | outside of the model, but for what the database makes of deletions |

### How they interact

- A page loads, issues `POST /start`, and opens a socket with the last sequence
  it has seen. The server replays what came later and sends `session.state`.
- An answer travels under a client event id. The handler stores it
  (`save_user_answer`, under the row lock of the session), appends `input.ack`,
  and generates the turn: decide, prepare, stream, save, publish. Everything it
  appends it sends to *its own* socket only.
- Any number of tabs may be connected (up to a cap), and every tab may also pause,
  resume and finish over HTTP. What keeps their turns apart is a set of session
  ids in the memory of the one server process.
- `finish_session`, and the closing turn of an interview, queue the evaluation.
  The worker claims it (`FOR UPDATE SKIP LOCKED`), marks the session EVALUATING,
  asks a model, and writes report, session and job.
- Discovery runs are independent of interviews; they share the pattern of run,
  job and worker, and add cancellation through a status the worker looks for. Their
  candidates are imported into the question banks by a request of the user.
- A plan draws on the bank, on the claims a worker found in the resume and on templates; a
  practice task of an earlier report may be its focus. A session freezes its plan,
  and that is the plan the live interview follows.
- What one service deletes reaches the rows of others through the foreign keys.

### What is hard about it

- **Commits inside handlers.** A turn commits up to five times
  (`close_current_segment` commits in the middle of its callers' work), and every
  `await` lets other handlers of the process run. A crash, a lost socket or a
  provider failure may fall between any two commits.
- **Unlocked reads.** Status operations load the session without a lock, check the
  transition, and write later. `save_assistant_message` takes `max(sequence) + 1`
  without a lock. The in-flight registry protects turns, not status operations or
  restatements.
- **Redelivery.** The browser resends an unacknowledged answer after every
  reconnect, while the handler of the lost socket still works on its first copy.
- **Cursors.** The browser's cursor is the highest sequence received, not the
  highest contiguous one.
- **Killed and slow workers.** Discovery and the embedding index have a recovery of
  lost jobs; evaluation, plans and resumes have not. The recovery cannot tell a dead worker from a slow
  one.
- **Pages without locks.** An index is built from pages of sources that are edited,
  deleted and created meanwhile, under random ids.
- **Look, then write.** A discovery run is cancelled by a status that is looked at
  before the terminal write, in a transaction that does not lock the row.
- **Locks of three kinds.** An import takes an advisory lock, row locks and entries of
  unique indexes in its own order, beside requests that take only some of them.
- **Files and rows.** A resume's file is written before its row is committed and
  removed after the row is.
- **Two descriptions of one schema.** Migrations and classes are written apart, and
  the migrations have to run, in both directions, over whatever the services wrote.
- **Thresholds.** The policy compares whole seconds at 0, 45, 60 and a third of an
  allocation, and does so twice per turn on a clock that moves.

The `hazards` of `PROJECT.json` list these, and the smaller ones, at their lines.

## 2. Modules

| Module | Models | State and actions |
|---|---|---|
| `TurnGuard` | the policy of `interview_orchestrator.py:153-240` | no state: `StableAction` is `_stable_decision`, `Guard` is `_guard_decision`, with their thresholds |
| `InterviewFlow` | the interview one turn at a time; the **abstract specification** of the live server | `question`, `followUps`, `phase`, `decision`, `turns`, `remaining`; `DecideByController`, `DecideByFallback`, `Reguard`, `Speak` (`AskFollowUp`, `Advance`, `Close`), `ProviderFails`, `Tick` |
| `SessionLifecycle` | `realtime/state_machine.py` | `AllowedTransitions`, `CanMove` |
| `LiveInterview` | every client event and HTTP request of one interview that changes rows | the rows (`status`, `progress`, `context`, `messages`, `segments`, `acked`, `evaluation`), the registry (`inFlight`), and per handler a program counter with what it has loaded |
| `LiveInterviewFlow` | the refinement mapping of `LiveInterview` to `InterviewFlow` | the abstract position is that of the last turn in the transcript |
| `EventLog` | `event_store.py`, `connection_manager.py`, the skeleton of the socket handler, the cursor of `interviewSocket.ts` | `rows`, `lastEventSequence`, `connections`, `handler`, `wire`, `client` |
| `ClientSocket` | `interviewSocket.ts` against the replies to one submission | `link`, `attempt`, `pending`, the two directions of the wire, what the server makes of an answer |
| `EvaluationJobs` | `evaluation_jobs.py`, `handlers/evaluate_interview.py`, the status writes of `evaluation.py` | `job`, `report`, `session`, per worker a program counter, per retry request what it has loaded; `overruns` counts the retries written over another |
| `DiscoveryRun` | `discovery_jobs.py`, creation, cancellation and deletion in `question_discovery.py`, retention, the row lock of `question_curation.py` | `status`, `sources`, `job`, per worker a program counter, its run and whether it locks the row |
| `EmbeddingIndex` | `memory/embedding_index.py`, `workers/embedding_jobs.py` | `index`, `job`, `vectors` against `sources`, `binding`, `interviewing`; per worker a program counter, its page, and what it knows of target and dimensions |
| `QuestionLibrary` | `discovery_imports.py`, the writes of `questions.py`, the deletion of runs | the committed rows (`runs`, `archived`, `questions`, `audit`, `imported`, `slugs`), what the keys were answered with (`answers`) and, per request, its transaction `tx`: where it is, what it holds and what it has added |
| `PlanSelection` | `question_retrieval.py`, `validate_planner_draft`, the fallback of `interview_planning.py` | no state: `Pool`, `SelectCandidates` (the set of selections its floating point may come to), `DeterministicQuestions`, `ValidDraft`, `FitsSchema` |
| `InterviewSetup` | `resumes.py`, `resume_jobs.py`, `interview_planning.py`, `plan_jobs.py`, `practice_tasks.py`, `create_session` | `resume`, `files`, `jobs`, `plans`, `tasks`; per request what it has loaded (`req`), per worker its job (`work`) |
| `Schema` | the migrations as scripts of DDL, and PostgreSQL's way with them | no state: `Upgrades`, `Downgrades`, `Ran` |
| `Models` | the references the ORM classes declare | no state: `Declared` |
| `Database` | a database that is migrated, filled by the services and deleted from | `revision`, `schema`, `rows`; `Migrate`, one action per service that writes, `Delete` |
| `MC...` | values of the constants and symmetry sets for TLC | |
| `...Proofs` | theorems, see [Proofs](#5-proofs) | |

Type invariants are conjuncts of a property of the same module that needs them
(`ContextMatchesTranscript`, `JobAndRunAgree`, `IndexRowIsTrue`, `AuditMatchesLibrary`,
`ResumeIsBacked`). Invariants that are theorems are in no run of their own where a run
would add nothing: `TypeOK` of `InterviewFlow`, `EventLog` and `EvaluationJobs`, `LogIsDense`, and `FollowUpsWithinBudget` and `ReguardOnlyShortens` of `InterviewFlow`.

Definitions named `Bug_...` are not part of any specification. Each is a
plausible mistake in the definition after it; `PROJECT.json` (`mutants`) says
which property notices it.

### How code becomes actions

**One action per commit.** A handler is a record with a program counter; the code
between two commits is one action, because asyncio runs it without letting
another handler touch the rows, or because the row lock it holds does the same.
What a handler loaded and uses after a commit is part of its record: `seen` is
the `interview.status` it loaded, `tail` the sequence number it computed, `action` the decision
of `decide_turn`. SQLAlchemy does not write an attribute that is set to the value
it was loaded with; `Start` models that for the progress counter.

A turn in `LiveInterview`, with the code it stands for:

| Program counter | Action | Code |
|---|---|---|
| `idle` | `ReceiveAnswer`, `Retry` | the client event is read, `in_flight_answers.acquire` |
| `save` | `SaveAnswer` | `save_user_answer`, under the session's row lock |
| `ack` | `Acknowledge` | `append_event(input.ack)` |
| `decide` | `DecideTurn` | `decide_turn`: a proposal of the controller model, or the fallback, guarded |
| `prepare` | `PrepareReply`, `PrepareAdvance` | `prepare_turn` guards again; an advance commits the segments |
| `advance` | `AdvanceContext` | `_advance_to_next_question` commits context and progress |
| `reply` | `BeginReply`, `ProviderFails` | the stream; open segment and last sequence are read |
| `commit` | `CommitReply` | `save_assistant_message`; a taken sequence number is an IntegrityError |
| `seal` | `Seal` | a closing turn closes its segment |
| `publish` | `Publish` | `append_event(assistant.message)`; a closing turn goes on to `finish_session` |
| `close`, `complete` | `FinishClose`, `FinishComplete` | `finish_session`, `_ensure_evaluation_job` |

**One action per statement.** In `QuestionLibrary` two transactions meet at their
locks, so a step is a statement: it runs when nobody else holds what it wants (`Wanted`,
`Blockers`), keeps its locks to the end, and leaves what it writes in its own record
until the commit. Foreign keys lock what they refer to, shared.

**Faults.** `Drop` is a send that raises on a lost socket, at the points where the
handler sends; `ProviderFails` is an error, a timeout or an empty stream; `Crash`
ends the server process with its registry; in the worker modules `Crash` (`Kill` in
`InterviewSetup`) kills one worker between two commits; `Lose` ends a request between
two statements, and the database rolls its transaction back.

**Data.** Texts, tokens, scores and evidence are left out. A message is its kind,
its question, its segment, the client event it came with and the answer it
replies to. The clock is a number that falls through a small set of values; the
policy reads it twice in a turn, as the code does.

**What is merged.** Events of the log other than `input.ack`, `assistant.message`
and `session.state` are not stored in the model (a failed turn's `error` stands
with the message it replaces). In `EventLog` a submission is stored in the log
only; that a transcript row goes with it is `LiveInterview`'s matter. Blocked
source cards of a discovery run count as failed, as `_source_counts` counts them.
In `EmbeddingIndex` the hash of a
source's text goes with its version, a new interview or binding stands for all that
count as one, and `changed`, `late` and `overran` are history for the properties.
In `DiscoveryRun` the writes of `_set_stage`, which change no status, are part of
the step they announce. In `InterviewSetup` there is one resume at a time, of one
content; a plan's questions are keys with a source, seconds and follow-ups; weights are hundredths, and what
floating point may make of their shares and gaps is a choice of the model. `Database` has
at most one row per table, with the set of its nullable columns that are set: a
reference then points to the one row there is. What a migration refuses, and what a deletion
reaches, depends on which tables and columns are filled and not on how often.

### Assumptions on the environment

- One server process, as `docker-compose` starts it: the registry and the
  connection table are in its memory.
- PostgreSQL at READ COMMITTED: an UPDATE waits for a row lock and then sees the
  committed row.
- A discovery worker that lives finishes within its lease, which is four times the
  timeout of a run (at least 240 seconds): only a job whose worker is gone is
  stale. An embedding worker need not: `Overrun` lets its lease run out while it
  works, as when the machine sleeps in the middle of a request.
- Database statements themselves do not fail in the modules of sessions, runs and the index,
  apart from the unique constraint on message sequences and the foreign key from a vector to its
  source. `QuestionLibrary` has the unique indexes and the detector of deadlocks, `InterviewSetup` the
  unique keys of jobs and tasks, `Database` every refusal by a reference.

## 3. Runs

All passing runs explore their whole state space. `Deadlock` is not checked: an
interview ends, a queue runs empty, and the browser and the user owe the system
nothing.

| Run | Instance | Distinct states | Properties |
|---|---|---|---|
| `interview_flow` | three questions with 2, 0 and 1 follow-ups, allocations of 300, 300 and 90 seconds, nine clock values | 558 | `AsksPlanInOrder`, `CoverageBeforeEarlyFinish`, `EventuallyCloses` |
| `live_turns` | two sockets and one answer; start, submit, retry, one restatement, pause, resume, finish; the clock at 70 seconds; faults | 2 935 277 | `OneTurnAtATime`, `AnswersStoredOnce`, `ContextMatchesTranscript`, `StalledTurnIsRetryable`, `RetriesRepeatNothing`, `OneOpenSegment` |
| `live_flow` | three questions, five answers, two sockets, no faults | 50 065 | `QuestionsAreAsked`, `RecordIsComplete`, `ImplementsFlow` |
| `event_follow` | one browser, three sockets, a cap of two connections, a log of four events | 2 496 521 | `OwnEventsAreDelivered`, `ClientEventStoredOnce`, `ConnectionsTracked` |
| `client_socket` | three answers, six lost sockets, turns of another tab, status changes | 2 244 | `PendingAnswerSettles`, `ForgetsOnlyStoredAnswers` |
| `evaluation_workers` | three workers, two kills, four retries by the user, two at a time, three attempts, late status writes | 76 247 | `AttemptsBounded`, `OneEvaluatorAtATime`, `JobAndReportAgree`, `EvaluationSettles` |
| `discovery_run` | two runs under a cap of one, two workers, one crash | 9 132 | `ActiveWithinCap`, `JobAndRunAgree`, `TerminalIsFinal`, `RunsEnd` |
| `embedding_index` | two builds, two memories and a plan question of which one exists at the start, pages of two, two targets, two dimensions, one reconciliation pass, two attempts; any two of a further rebuild, an edit or deletion, a new binding, a crash, an overrun | 460 936 | `IndexRowIsTrue`, `PromotesCovered`, `OneRequestPerInterview`, `KeepsAnActiveIndex`, `RebuildsEnd` |
| `question_library` | two requests at a time, two runs and two banks, three candidates with tags in opposite orders, three imports under two keys and one that is malformed, questions written and edited by hand, one run deleted, one bank archived | 136 244 | `NoDuplicatePrompts`, `KeyImportsOnce`, `AuditMatchesLibrary`, `RequestsEnd` |
| `database` | the ten revisions, up and down; every service that writes, every deletion of a row | 76 733 | `SchemaMatchesRevision`, `StatementsSucceed`, `RecordsOutliveDeletions` |
| `interview_setup` | four requests, two at a time, two workers, two uploads, one retry, a plan for a resume and a task under one of three configs, two attempts per job, two faults | 225 771 | `ResumeIsBacked`, `PlansArePlayable`, `SetupSettles` |

**Why the bounds are enough.** The clock of `interview_flow` has every threshold of
the guard and its lower neighbour, and the allocations lie on both sides of the
45 second floor of the coverage rule, so that every branch of `Guard` is taken
with every outcome. Two sockets are what it takes for a turn to meet another
turn, a resend of its own answer, a retry, a restatement and each operation on the status; a third
adds no new pair. In `live_turns` the clock stands at 70 seconds of 300 for the next question, where
the guard lets the controller follow up, advance and close; one answer is enough for each of them to meet
every fault, since a retry after a failure decides again. The run without faults
uses three questions, so that an advance is followed by an advance, five answers and a clock that falls. In `event_follow` one
browser with three sockets has two handlers of lost connections still at work
while it follows a third one, and the cap of two is reached. Six losses in `client_socket` take the back-off
to its cap and beyond. Three workers in `evaluation_workers` are the evaluation, the one
that a retry written over another adds, and a second such; four retries let both requests overrun each other twice,
and two kills lose the same job twice with attempts left. A cap of one run and two runs
make a creation wait for the end of a cancellation. In `embedding_index` two events
are what the limits need: two edits use up the one reconciliation pass, a crash and
a failure the two attempts, an overrun and an edit put an old page into another
worker's index, an overrun alone makes two workers learn different dimensions; interviews are not bounded.
`MaxEvents` is shared by all of these, so that every pair occurs and no triple.
Two requests of `question_library` make every pair of transactions; the tags make
them wait for each other, and the keys, banks and edits are chosen so that a replay,
a changed body, a duplicate prompt and a duplicate candidate occur. `database` needs no
bound on rows, and `MaxDepth` is the longest chain of cascades that takes something new. In
`interview_setup` four requests are an upload, a task, a plan and one that disturbs them, the bank, the
claims and the templates leave one source short, and the weights do not sum to one. The second config is one at
which the code's division loses a place (`3 * 0.35 / 0.35`), the third one question of more than two hours. Two faults use
up the attempts of a job, or kill its worker and lose the request that would repair it.

**Fairness.** Handlers and workers are weakly fair: asyncio runs every task that
is ready, every stage of a turn has a timeout (`interview_live.py:164-219`), the
worker loop polls for ever and is restarted by its container. Users, tabs, the
network and crashes are not fair at all. `InterviewFlow` asks for strong fairness
of `Speak` in addition: a provider that fails again and again while the candidate
retries again and again would keep the interview from closing, and nothing in the
code bounds that; `EventuallyCloses` says what holds when a retry succeeds some time.
The requests of `QuestionLibrary` are strongly fair: PostgreSQL grants a lock in the order in which
it was asked for, and its detector ends a circle; `Lose` is not fair. The requests and workers of
`InterviewSetup` are weakly fair.
The liveness properties that need a quiet environment say so in the formula:
`PendingAnswerSettles` starts with `[]Undisturbed` (nobody else drives the
interview), `EvaluationSettles` with `[](crashes = 0)`, `RebuildsEnd` with
`<>[]~interviewing` (a profile that interviews at every look of the worker never gets its index);
`SetupSettles` does not count a job whose worker was killed (`Abandoned`).

### What the runs show

- The policy asks the plan in order and always closes; guarding twice only
  shortens the interview.
- However sockets, retries, faults and status operations interleave: one turn at
  a time, no leaked slot, each answer stored once, follow-ups counted as the
  transcript shows them and the context row on a prefix of the plan
  (`ContextMatchesTranscript`), at most one
  open segment, and a conversation that stopped at an answer can be taken up
  again with exactly that answer, which no retry has replied to before (`RetriesRepeatNothing`). That one is worth a look:
  a restatement may take the sequence number of a reply whose model call has succeeded; the turn
  then dies with an IntegrityError, and is still retryable.
- Without faults and without status changes from elsewhere the concurrent server
  *is* the sequential interview (`ImplementsFlow`).
- What a connection makes its browser miss was stored by another handler after
  the replay (`OwnEventsAreDelivered`): the gap has exactly this shape, see the
  next section.
- A discovery run and a build of the index end in states where all their rows agree, the build also when two
  workers hold the same job. So does an evaluation as long as no retry was written over another; each one that was
  costs at most one worker too many and one attempt too many, and nothing else costs any (`overruns`).
- The index in use is never lost before its successor is complete; what the
  successor misses was written after its last coverage check (`PromotesCovered`).
- The unique index decides what the looks of imports and of edits by hand leave open: a
  bank holds a prompt once, an import is whole or not at all, its key is used once, whoever asks under it again with the
  same body is told the batch it made, or a conflict once the run is deleted, and the audit explains each imported question. Imports that wait for each other end by the detector.
- Going up and down the migrations is the same from every state, the last revision is what the
  classes declare, the only migration that refuses a database is the one that says so
  (0007, with a local binding), and no deletion a service allows is refused or reaches a record.
- However uploads, retries, deletions and the parser meet, a resume has its file, and one that
  waits has a job. A plan has as many different questions as there are to be had, each source what rounding leaves of
  its share, as far as it goes, and times that its schema takes and that sum to the interview, whether a model or the
  fallback wrote it; a plan whose one question would be too long fails after its attempts (`RejectPlan`).

## 4. Where the code and its documents part

One disagreement has a run of its own that finds it (`findings` in `PROJECT.json`):
in `event_skip` (`NoMessageIsSkipped`) a message stored by the handler of a lost socket falls below the
cursor of its replacement and is never delivered, against the product design, line 500:
"断线后客户端携带最后确认序号恢复，服务端补发缺失事件。"

The model shows others, which are noted here for whoever works on this code:

- **Status against the table.** A `POST /start` that loaded READY writes INTERVIEWING over
  COMPLETED when a finish came in between (`interview_sessions.py:332`): the transition is checked
  on what was loaded. The phase-1 plan, line 637, has "只允许设计规格定义的状态迁移。"
- **An evaluation nobody resumes.** A worker killed during an evaluation leaves its job RUNNING;
  nothing looks for such a job (`evaluation_jobs.py:36` claims queued ones) and a retry answers with
  the job that seems to run (`evaluation.py:791`), while the page says
  "后台正在进行结构化评估。页面会自动更新，" (`InterviewReportPage.tsx:270`). `EvaluationSettles` has its
  hypothesis for this. Jobs for plans and resumes are left in the same way: `SetupSettles` leaves them out.
- **A question that is never put.** After a crash between the commits of an advance
  the context row is on the next question and the answer is still pending; the retry
  decides about a question that was never put (`interview_orchestrator.py:385`; the
  reliability design, line 234, promises recovery after a restart).
  `QuestionsAreAsked` holds without faults (`live_flow`) and fails with a crash.
- **Two replies to one answer.** The server stops between the commit of
  `save_user_answer` and the acknowledgement; one tab has the turn retried, the
  tab that submitted reconnects and resends. `save_user_answer` returns the stored
  row and the handler generates a second turn (`interview_live.py:510`; its
  docstring at 157-162 says "without duplicate transcript rows"). The same happens to a resend that has
  passed the lookup of the event before its first copy is stored. So no property has one reply per answer; what holds
  over all faults is that the other way to a turn, the retry, takes up no answer that has a reply
  (`RetriesRepeatNothing`).
- **A message after the end.** `finish_session` does not look at the in-flight
  registry, and `save_assistant_message` does not look at the status: a turn that
  was generating adds a message to a finished interview, possibly after its evaluation has
  read the record (`interview_sessions.py:361`; the product design, line 291, has
  the evaluator work "基于完整记录"). A finish of an interview that is being evaluated closes the segment first and
  answers 409 then. `RecordIsComplete` holds when only the closing turn finishes an interview; in `live_turns` requests do
  (`AskFinish`, `FinishClose`, `FinishComplete`) and what is checked there holds all the same.
- **An interview without a question.** `POST /resume` accepts a READY session, as the transition table
  does (`interview_sessions.py:351`), and an answer sent then precedes the first question. The page
  starts before it does anything else.
- **Progress starts over.** `POST /start` accepts a paused interview and resets
  `current_question_sequence` to 1 (`interview_sessions.py:334`); the reliability
  design, line 27, promises "断线、刷新和短暂服务重启后可恢复本轮面试". The
  context row, from which turns are decided, is not affected.
- **Reconnecting for ever.** With an answer pending for an interview that no
  longer accepts answers, the browser resends on every open and is closed with 1008
  every time (`interviewSocket.ts:84`); the reliability design, line 183, says
  "1008/1009 等不可恢复关闭不无限重连".
- **A refused answer stays.** After `answer_pending` the server has dropped the
  answer, the browser keeps it, refuses the next one and resends only on a new
  connection (`interviewSocket.ts:95`), while the message says
  "请等待确认后再提交" (`interview_live.py:506`). This is why
  `PendingAnswerSettles` has its hypothesis.
- **Concurrent retries of an evaluation.** Two retry requests that both saw the
  failed job both queue it; the second one does so while a worker is running it
  (`evaluation.py:791` reads without a lock). Two workers then evaluate one session, and one may fail the job the other
  has completed the report of. `evaluation_workers` has two requests at a time: `overruns` counts the retries that were
  written over another, and the properties say what each of them costs and what holds without.
- **A stale page in a promoted index.** A worker that outlived its lease writes the
  page it read before an edit over the vector its successor has made of the edited
  source, after the successor's coverage check: `persist_embedding_batch` overwrites
  whatever version is there (`embedding_index.py:724`; `docs/local-ai.md:87` has the check
  keep "构建期间的编辑漏入新索引" from happening). Retrieval compares versions, so the source is missed and not
  misused. This is why `PromotesCovered` excludes builds that `overran`. An edit between the last coverage check and the
  promotion is not in the promoted index either, without any fault.
- **A deletion costs an attempt.** A memory deleted while its page is at the provider
  breaks the foreign key of its vector; the worker counts that as an internal error
  of the whole build (`embedding_jobs.py:695`), and a few of them end it.
- **A cancelled discovery run may succeed.** The comment at
  `discovery_jobs.py:645` says a cancellation "always wins over a success state".
  A request that commits between the look in `_complete_run` and the write
  after it is overwritten, unless curation has written candidates and so locked the
  row. `TerminalIsFinal` and `JobAndRunAgree` hold all the same.
- **A replay after the run is gone.** The docstring at `discovery_imports.py:884` says a retry of the same key
  and body "returns the original result"; deleting the run sets the candidate of the audit rows to
  null, and the replay is refused with a conflict instead. Nothing is inserted twice. `KeyImportsOnce` says which
  answers are given: the batch of the key, or a conflict when the body is another or the run is gone.
- **Weights that do not sum to one.** The request accepts them (`schemas/interview_plan.py`), shares are
  computed from their sum, but the places that rounding leaves go to the source furthest below its
  raw weight (`question_retrieval.py:224`): a source of weight zero may get one.
- **Shares in floating point.** A share that is a whole number may calculate to one less: `int(3 * 0.35 / 0.35)` is 2
  (`question_retrieval.py:243`). The place goes to whichever source is furthest below its weight, most often, but not
  always, the one that lost it. `PlansArePlayable` promises a source what rounding leaves it (`LeastShare`).
- **A plan nobody can generate.** The request accepts one question for up to 240 minutes; the fallback then makes a question of
  more than 7 200 seconds, which its own schema refuses (`schemas/interview_plan.py:60`) outside of the `try`
  (`interview_planning.py:350`), and so do answers of the model. The plan fails after all its attempts.
- **Retries that load too early.** A retry that loaded a resume before it became READY
  queues it again and sets it to PENDING (`resumes.py:296`); two that loaded different versions queue
  two parse jobs; one that runs between the two DELETEs of a deletion leaves a job that fails. The
  resume ends READY or failed all the same, and `ResumeIsBacked` holds.
- **Lost updates of a practice task.** `link_task_to_session` and `update_practice_task` write what they
  have loaded: a task completed in one tab goes back to in progress with the session another
  tab opens (`practice_tasks.py:278`).
- **A task asked for twice.** Of two concurrent requests to make tasks of the same actions, the second one dies of the
  IntegrityError of its commit (`practice_tasks.py:163`), which nothing catches, although the comment below it calls
  the repeat "idempotent". The unique index keeps one task (`InsertTask`).

## 5. Proofs

The theorems hold for every value of the constants that satisfies the named
assumptions: any plan, any number of sockets, tabs, requests, workers, answers, runs,
sources and candidates, and no bound on the bounds. TLC evaluates the assumptions in every
run. They say no more than what kind of thing a parameter is, and what the code has of it:

| Assumption | Beyond the types of the constants |
|---|---|
| `PlanAssumption` | a plan has a question, each with a budget and an allocation |
| `TimeAssumption`, `InstanceAssumption` | times are naturals with a greatest one, the plan's time budget; a handler is a socket or an HTTP request and not both |
| `EventLogAssumption`, `EvaluationAssumption`, `DiscoveryAssumption` | the set of sockets, and that of runs, is finite; a job may be attempted |
| `EmbeddingAssumption` | finitely many sources, each a memory or a question; a page holds something, a job may be attempted |
| `LibraryAssumption` | every candidate belongs to a run and has a prompt; imports are of the shape that their schema accepts |
| `SetupAssumption` | a plan asks for 1 to 20 questions with some weight and the least time for each, as `schemas/interview_plan.py` demands; there is a template |
| `CandidateAssumption` | finitely many questions, claims and templates; no two of them have the same id |

Each invariant below was an INVARIANT of a TLC run on the instance of the component's run
before it was proved. Several first versions were not inductive: the counterexample to
induction was then a state of rows and handlers that the code never reaches, and the conjunct that
excludes it is part of the invariant now. The sections say which conjuncts those are.

### InterviewFlow (`InterviewFlowProofs`)

`FlowTypeOK`, `FlowFollowUpsWithinBudget`, `FlowAsksPlanInOrder`,
`FlowCoverageBeforeEarlyFinish`, `FlowReguardOnlyShortens`.

No safety property is inductive by itself: a follow-up within budget now may be one too
many when it is spoken, if nothing is known of the decision in between. `IInv` is
`TypeOK`, the three invariants, and two facts about the time between decision and
speech: `DecisionGuarded` (a prepared follow-up is below the budget, a prepared
advance has a next question, a prepared finish need not cover one) and `AtLastTurn`
(the last turn of the transcript is about the current question). Lemmas about
`Guard` say what each of its answers implies; each action then needs only those.

### LiveInterview (`LiveInterviewProofs`)

| Theorem | Property | Supposes |
|---|---|---|
| `LiveOneTurnAtATime` | `OneTurnAtATime` | |
| `LiveAnswersStoredOnce` | `AnswersStoredOnce` | |
| `LiveContextMatchesTranscript` | `ContextMatchesTranscript` | |
| `LiveStalledTurnIsRetryable` | `StalledTurnIsRetryable` | |
| `LiveOneOpenSegment` | `OneOpenSegment` | |
| `LiveRetriesRepeatNothing` | `RetriesRepeatNothing` | |
| `LiveQuestionsAreAsked` | `QuestionsAreAsked` | `NothingFails` |
| `LiveRecordIsComplete` | `RecordIsComplete` | `OnlyTurnsFinish` |
| `LiveImplementsFlow` | `ImplementsFlow` | `OnlyTurnsFinish` |
| `LiveTurnsFollowPlan` | `AsksPlanInOrder` and `CoverageBeforeEarlyFinish` of `InterviewFlow`, of the live server | `OnlyTurnsFinish` |

The first six hold with lost sockets, failing providers, crashes and every operation. The
invariant is built in layers, each proved on top of the ones before:

1. `ControlInv`: the types of the rows, what a program counter says of its handler, and that the
   registry is taken exactly while one handler is in a turn. From this, `TurnHolder`:
   two handlers in a turn are the same handler.
2. `AnswersInv`: what is acknowledged, or about to be, is stored.
3. `ContextInv`: the follow-up index counts the follow-ups of the current question
   that the transcript shows, and `TurnOK` says what a turn in preparation
   knows of the context row. It is kept because no other handler moves the row
   while a turn is in preparation; a restatement adds messages all the same, so a
   prepared reply may be stale in its sequence number (`tail`) and in nothing else.
4. `StalledTurnIsRetryable` itself: unless a turn is in preparation, an answer at the end of the transcript is pending.
5. `SegmentsInv`: before the first message there is no segment and nothing pending, a turn
   past its save has a message, and one that is about to advance has closed the current question's segment; an
   open segment is the current question's, or the next one's between the two commits of an
   advance, also when the handler died there.
6. `RepliesInv`: an answer that waits for a retry, or that a retry works on, has no reply yet. Of a submission
   this would be false (section 4). It takes that a commit of a reply clears what is pending in the same
   transaction, and that nobody else commits one while the retry is in its turn.
7. `QuestionsInv`: a conversation that has begun put its current question, or one handler
   is between the commit of an advance and that of its question (`Asking`). `NothingFails` has a
   reason for each part: a crash or a restatement in that gap leaves the
   question unasked, a resume over HTTP of an interview that was never started lets an answer come
   before the first question. Both are in section 4.
8. `EndInv`, under `OnlyTurnsFinish`: the closing message is the last of the transcript, nothing is pending or
   worked on after it, and until the interview is completed some handler is on its way from that message to
   `finish_session`; an evaluation exists only afterwards, and what it has read is all there is.
9. `RecordInv`, under the same: every message lies in a segment of its question, whose end is not before it once
   it is closed, and until the closing turn has sealed the record the segment of the current question (of the next
   one, in the gap of an advance) is open, so that the next message has where to go.

10. `FlowInv`, under the same: the abstract position (the question of the last turn in the transcript) is the
    context row's question, except in the gap of an advance (`Asking`), when it is the one before and no
    follow-up is counted yet; only a closed interview ends with a closing turn.

The refinement is then a case for each step (`FlowStep`). Most are silent: they change neither the turns, nor
the phase, nor the clock. `DecideTurn` is `DecideByController` or `DecideByFallback`, the second guard in
`prepare_turn` is `Reguard`, `CommitReply` is `Speak`, `POST /start` commits the first question, which the
abstract interview has from its beginning. What the transcript says is the set of its turns by rank
(`Said`), so that a row added at the end is one fact about cardinalities (`TurnsAppended`); `EndInv` and
`RecordInv` exclude a turn after the closing one. `LiveTurnsFollowPlan` takes the theorems of `InterviewFlowProofs`
through the mapping: what is proved of the sequential interview need not be proved of the server again.

`OnlyTurnsFinish` says that there are no faults, sockets only submit and retry, and requests only start, one client
at a time. Each part is needed: after a crash between the seal and `finish_session` the interview goes on without an open
segment; a finish or a restatement from elsewhere lets a message follow the end (section 4); a pause, or a second
`POST /start`, that has loaded the status before the end writes PAUSED or INTERVIEWING after it and reopens
the interview.

TLC checked layers 1 to 6 on the instance of `live_turns` (2 935 277 states), `QuestionsInv` with two
sockets, a request and two answers (1 522 487 states), `EndInv`, `RecordInv` and `FlowInv` on the
instance of `live_flow` (50 065 states).

### EventLog (`EventLogProofs`)

`EventLogTypeOK`, `LogAlwaysDense`, `ClientEventsOnce`, `ConnectionsAlwaysTracked`, `OwnEventsAlwaysDelivered`;
of `ClientSocket`, the browser's end of the same connection, `BrowserForgetsOnlyStored`.

`LogInv` (density, distinct client events, the counter is a number) is kept by
`AppendEvent`, the only writer, whatever its caller: `LogAppend` is the one lemma
with content and the steps cite it. `TableInv` is the connection table together
with the types of the handlers; that a handler in `connect` is not yet in the
table and one past it is, is what makes `HandlerEnds` give back exactly its own
place.

`DeliveryInv` carries the last theorem: what a handler owes its client, the rows of the replay and those
it has appended since, was seen, or is on the wire above the cursor, behind nothing that would move the
cursor past it. It needs that nothing is sent before the replay and nothing that the log does not
have yet, so that a row just appended is above everything in front of it, and that the page of the
replay ends at or below the counter the handler found (`since`), so that its own rows come after it. TLC checked it on the instance of `event_follow` (2 496 521 states).

`SocketInv` is about one answer of the browser: on its way up it is pending and nothing comes down, an
acknowledgement on its way down means that it is stored, and a connection that is not open carries nothing. So an
acknowledgement that arrives is about the answer that is pending, not about an earlier one.

### EvaluationJobs (`EvaluationJobsProofs`)

`EvaluationTypeOK`, `EvaluationAttemptsBounded`, `OneEvaluator`, `JobReportAgreement`, for any number of retry requests
at once.

`Hands` counts the workers that have the evaluation and the one a queued job will go to. `HandsInv` has at most one
more of them than `overruns`, none more while the job is over, and none more either while a retry holds a finished job that
nobody has queued since it loaded it: the write of such a retry adds the one that is missing, the write of one that is `stale`
adds an overrun with its hand. The bound on the evaluators is a part of it. `AttemptsInv` adds to the bound on attempts that a
queued job has one left, which a claim then uses up; a retry leaves the attempts alone only when it loaded zero of
them, which a finished job has only after an overrun. `JobInv`, as long as there is no overrun: a worker that is not idle is
the only one and the job is RUNNING, and what a worker persisted is still there when it completes the job. TLC checked
the three on the instance of `evaluation_workers` (76 247 states).

### DiscoveryRun (`DiscoveryRunProofs`)

`DiscoveryJobAndRunAgree`, `DiscoveryTerminalIsFinal`, `DiscoveryActiveWithinCap`.

`RunsInv` gives each RUNNING job to one worker or to none: a worker that is not idle is alone
on its run (`OneWorkerPerRun`) and past curation it has left no card pending
(`WorkerOK`), which is what a completed run claims of its cards. `RunOK` is about rows alone; it covers
the rows of deleted runs too, for retention may leave an ended job behind, and never a live one that a
worker would claim. `TerminalIsFinal`, an action property, follows since every write of a worker is to a run
whose job is RUNNING. The cap is a fact about cardinalities: a step makes at most one run active, and
only `Create` does, after it has counted. TLC checked `RunsInv` with a cap of two as well (25 300 states).

### EmbeddingIndex (`EmbeddingIndexProofs`)

`IndexRowsAreTrue`, `ActiveIndexIsKept`, `OneRequestEach`, `PromotionsAreCovered`.

A worker whose lease ran out goes on, so no invariant may give a job to one worker. `IndexInv` has what is
true all the same: index and job of a build end together (`RowOK`), and a worker past its start has the provider of its
index's own target and never persists without dimensions (`WorkerOK`), so that even a late write is of the
right model. `RequestsInv` says where a worker that has asked the provider once during
an interview may be: on the way to its next look at the interviews, which asks no more. `CoverageInv` is about
builds no lease was lost on (`overran`): they have one worker, its batch is what it read,
and after its coverage check only what was written later is uncovered. TLC checked
the three together on the instance of `embedding_index` (460 936 states).

### QuestionLibrary (`QuestionLibraryProofs`)

`LibraryNoDuplicatePrompts`, `LibraryKeyImportsOnce`, `LibraryAuditMatches`.

A transaction reads what is committed and writes what nobody sees before it commits. What it has found
out stays true only because of its locks, and this is the invariant: `RequestsInv` (how far a
transaction is and which rows it has added, `IsTx` and `RowAt`), `LocksInv` (no two hold conflicting locks),
`EntriesInv` (each row added is new to the library, and its entry of the unique index is locked),
`KeysInv` (a key whose lock is held has no rows; a batch in the audit is whole), `AuditInv` (an import holds
its bank from its validation on, so that archiving waits) and `TablesInv`. A step that takes a
lock keeps `LocksInv` by its guard, one that commits turns `EntriesInv` into `NoDuplicatePrompts`; `RequestKept`
says that the transactions that do not move are not disturbed. `AnswersInv` is about the answers that were given: a result names
the batch that is under its key now, a conflict another body or a deleted run, since the rows of a key name the candidates of
their request as long as the run exists (`KeyRows` counts them). TLC checked all of them on the instance
of `question_library` (136 244 states).

### InterviewSetup (`InterviewSetupProofs`)

`SetupResumeIsBacked`, `SetupPlansArePlayable`, `SetupPlansStay`.

Requests write what they have loaded, so `SetupInv` says what a request has in hand at each point (`ReqOK`): a
file written and not committed belongs to no resume and to no other request, one to be unlinked belongs to
no resume any more, the jobs a deletion took are those of the resume it deletes. `ResumeOK` has a live job
for a resume that waits (the job of a killed worker is RUNNING for ever and counts); `WorksOK` that a
worker has a job of its own, RUNNING or deleted, so that nobody else ends it; `JobsOK` that a queued job has an
attempt left; `TasksOK`, `PlansOK` and `CountsOK` are the rows and bounds those refer to. TLC checked it on the instance
of `interview_setup` (225 771 states).

`PlansArePlayable` says of every plan an interview can be started from how many questions it has, that none occurs twice, that
each source has what rounding leaves of its share as far as it goes, and that the times are ones that the schema takes and
are those of the interview, for every way in which the code's floating point may round. That is a fact
about sums, sorting and counting over any bank, weights and answer of the model, and needs induction. The
library's induction theorems are of no use to the provers installed here, so each induction is made
from a least counterexample (`SmallestNat`, `SmallestSet`, from the library's well-founded orders):

1. A sum over a finite set is the only function that adds its elements one by one (`SumIs`); so the sum over the
   sources is that of four numbers (`SumOfFour`), and the equal shares of the fallback sum to the total (`SharedOut`).
2. `SharesFit` and `QuotasAre`: the shares, rounded in whichever way, fit the target; the places that rounding leaves are
   given out one at a time, to whichever source calculates to be the neediest (there is always one), so that the quotas sum
   to the target and none is below its share.
3. `InOrderIs`: a candidate stands where the number of those before it says; the order is total since keys differ,
   so that the list has each candidate once.
4. `SelectionIs`: the blocks of the four sources have nothing in common and fit the target, the rest fills what they
   leave, and no block is cut.
5. `FallbackIsPlayable` and `DraftIsPlayable`: an answer of the model that passes `validate_planner_draft` is the
   selection in another order. Nothing but its set of keys is compared; that it takes each question
   once is since a map of a finite set onto itself is one to one.
6. `ReadyOK`, on top of `SetupInv`, carries this through the state: a plan has one job, which is completed when the plan can
   be started from, so nobody writes its questions again and no failure of a job reaches it; a session is
   opened on such a plan only, and no other step writes what it has locked. The same facts give `SetupPlansStay`, the action
   property that such a plan keeps its questions and never goes back. A plan that the schema
   refuses is never READY. TLC checked `ReadyOK` on the same instance.

## 6. What is only model-checked, what is left out

Only TLC shows:

- the liveness properties (`EventuallyCloses`, `PendingAnswerSettles`, `EvaluationSettles`, `RunsEnd`,
  `RebuildsEnd`, `RequestsEnd`, `SetupSettles`): TLAPS has no support for fairness and ENABLED here;
- the properties of `Database`, which with `Schema` and `Models` has no parameter to generalise over: TLC's
  run is exhaustive for this schema;
- `NoMessageIsSkipped`, which is false (section 4).

Not modelled:

- weights of more than two decimals: they are hundredths here, of which the model has every rounding of `select_candidates`
  (a share may lose its last whole place, equal gaps of unequal weights compare either way);
- the selection of context by token budgets, the content of reports and summaries, the scoring and the
  conflicts of memories: sequential functions of texts and numbers the models leave out;
- readiness: a pure read of other components;
- the sliding window of the rate limiter: sequential, between two awaits, tested at its boundaries;
- segment summaries and the heartbeat: they write rows nothing else depends on for its correctness;
- companies' style packs, discovery connectors: versioned or independent rows;
- model providers, HTTP clients, local containers, model downloads, encryption, rendering: I/O.

## 7. Plan

Done: the policy, the live interview with its abstraction, the event stream, the
browser socket, evaluation jobs, discovery runs, the embedding index, the question library, the
setup of interviews, the database over its migrations, and eight modules of proofs. Every safety property that a
run checks is a theorem but those of `Database`, whose instance is the only one there is.

What would come next: the context builder's token budgets and the memory conflicts as pure operators; the
settings of `OnlyTurnsFinish` one by one, once the code looks at the status when it stores a turn.
