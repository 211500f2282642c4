---------------------------- MODULE EvaluationJobs ----------------------------
(***************************************************************************)
(* The evaluation of one finished interview: its INTERVIEW_EVALUATION job, *)
(* the report and the session's status, written by the workers             *)
(* (workers/evaluation_jobs.py, workers/handlers/evaluate_interview.py,    *)
(* services/evaluation.py), by finish_session, which queues the job, and   *)
(* by retry_evaluation, which queues it again.  One action per commit: a   *)
(* worker process may be killed between any two, and nothing in the        *)
(* repository looks for the RUNNING job it leaves behind.                  *)
(***************************************************************************)
EXTENDS Naturals, FiniteSets

CONSTANTS
    Workers,       \* worker processes
    Retriers,      \* concurrent POST /reports/{id}/retry requests
    MaxAttempts,   \* BackgroundJob.max_attempts, 3 in _ensure_evaluation_job
    MaxRetries,    \* bound: evaluations asked for again
    MaxCrashes,    \* bound: workers killed
    LateWrites     \* whether stale status writes of LiveInterview happen

ASSUME EvaluationAssumption ==
    /\ MaxAttempts \in Nat \ {0}
    /\ MaxRetries \in Nat
    /\ MaxCrashes \in Nat
    /\ LateWrites \in BOOLEAN

VARIABLES
    job,       \* the BackgroundJob row: status and attempts
    report,    \* report.status, "none" before ensure_report
    session,   \* interview.status
    worker,    \* per worker: where it is and whether its failure is retryable
    retrier,   \* per retry request: what it has loaded, and whether it is stale
    retries,   \* evaluations asked for again so far
    overruns,  \* history: retries written over another written since they loaded
    crashes    \* workers killed so far

vars == <<job, report, session, worker, retrier, retries, overruns, crashes>>

JobStatuses == {"none", "queued", "running", "completed", "failed"}
WorkerPcs == {"idle", "ready", "load", "evaluate", "persist", "finish", "fail"}

TypeOK ==
    /\ job \in [status: JobStatuses, attempts: Nat]
    /\ report \in {"none", "pending", "running", "completed", "failed"}
    /\ session \in {"interviewing", "completed", "evaluating"}
    /\ worker \in [Workers -> [pc: WorkerPcs, retryable: BOOLEAN]]
    /\ retrier \in [Retriers -> [pc: {"idle", "write", "stale"}, keeps: SUBSET {"attempts", "report"}]]
    /\ retries \in 0..MaxRetries
    /\ overruns \in Nat
    /\ crashes \in 0..MaxCrashes

Idle == [pc |-> "idle", retryable |-> FALSE]
NoRequest == [pc |-> "idle", keeps |-> {}]

Init ==
    /\ job = [status |-> "none", attempts |-> 0]
    /\ report = "none"
    /\ session = "interviewing"
    /\ worker = [w \in Workers |-> Idle]
    /\ retrier = [r \in Retriers |-> NoRequest]
    /\ retries = 0
    /\ overruns = 0
    /\ crashes = 0

-----------------------------------------------------------------------------
(* The session *)

\* finish_session and _ensure_evaluation_job: one job per session, ever.
FinishSession ==
    /\ session = "interviewing"
    /\ session' = "completed"
    /\ job' = IF job.status = "none" THEN [job EXCEPT !.status = "queued"] ELSE job
    /\ UNCHANGED <<report, worker, retrier, retries, overruns, crashes>>

\* A handler of LiveInterview that loaded the session before it was finished
\* writes its status now (start_session, resume_session).
LateStatusWrite ==
    /\ LateWrites
    /\ session # "interviewing"
    /\ session' = "interviewing"
    /\ UNCHANGED <<job, report, worker, retrier, retries, overruns, crashes>>

-----------------------------------------------------------------------------
(* The worker *)

At(w, pc) == worker[w].pc = pc
Goto(w, pc) == worker' = [worker EXCEPT ![w].pc = pc]
Raise(w, retryable) == worker' = [worker EXCEPT ![w] = [pc |-> "fail", retryable |-> retryable]]
Return(w) == worker' = [worker EXCEPT ![w] = Idle]

\* Bug: the attempt is not counted.
Bug_CountsNoAttempt(w) ==
    /\ At(w, "idle")
    /\ job.status = "queued"
    /\ job' = [job EXCEPT !.status = "running"]
    /\ Goto(w, "ready")
    /\ UNCHANGED <<report, session, retrier, retries, overruns, crashes>>

\* claim_next_evaluation_job, FOR UPDATE SKIP LOCKED.
Claim(w) ==
    /\ At(w, "idle")
    /\ job.status = "queued"
    /\ job' = [status |-> "running", attempts |-> job.attempts + 1]
    /\ Goto(w, "ready")
    /\ UNCHANGED <<report, session, retrier, retries, overruns, crashes>>

\* handle_evaluate_interview: a 409 unless the interview is over.
Prepare(w) ==
    /\ At(w, "ready")
    /\ \/ /\ job.status # "running"
          /\ Return(w)
          /\ UNCHANGED session
       \/ /\ job.status = "running"
          /\ session = "interviewing"
          /\ Raise(w, FALSE)
          /\ UNCHANGED session
       \/ /\ job.status = "running"
          /\ session # "interviewing"
          /\ session' = "evaluating"
          /\ Goto(w, "load")
    /\ UNCHANGED <<job, report, retrier, retries, overruns, crashes>>

\* evaluate_interview loads its input, which may be gone (an AppError), and
\* marks the report.
Load(w) ==
    /\ At(w, "load")
    /\ \/ Raise(w, FALSE) /\ UNCHANGED report
       \/ Goto(w, "evaluate") /\ report' = "running"
    /\ UNCHANGED <<job, session, retrier, retries, overruns, crashes>>

\* The model answers with a valid draft, or the evaluation fails: retryable
\* for a transient ProviderError and for anything unforeseen.
Evaluate(w) ==
    /\ At(w, "evaluate")
    /\ \/ Goto(w, "persist")
       \/ \E retryable \in BOOLEAN : Raise(w, retryable)
    /\ UNCHANGED <<job, report, session, retrier, retries, overruns, crashes>>

\* _persist_draft: report and session in one transaction.
Persist(w) ==
    /\ At(w, "persist")
    /\ report' = "completed"
    /\ session' = "completed"
    /\ Goto(w, "finish")
    /\ UNCHANGED <<job, retrier, retries, overruns, crashes>>

FinishJob(w) ==
    /\ At(w, "finish")
    /\ job' = IF job.status = "running" THEN [job EXCEPT !.status = "completed"] ELSE job
    /\ Return(w)
    /\ UNCHANGED <<report, session, retrier, retries, overruns, crashes>>

\* Bug: one attempt more than max_attempts.
Bug_RetriesOnceMore(w) == worker[w].retryable /\ job.attempts <= MaxAttempts

MayRetry(w) == worker[w].retryable /\ job.attempts < MaxAttempts

\* Bug: the report keeps saying what it said before.
Bug_FailKeepsReport(w) ==
    /\ At(w, "fail")
    /\ IF MayRetry(w)
       THEN job' = [job EXCEPT !.status = "queued"] /\ UNCHANGED session
       ELSE job' = [job EXCEPT !.status = "failed"] /\ session' = "completed"
    /\ Return(w)
    /\ UNCHANGED <<report, retrier, retries, overruns, crashes>>

\* _fail_job: queued again with the report PENDING, or FAILED for good with
\* mark_report_failed, whatever the job's status is by now.
Fail(w) ==
    /\ At(w, "fail")
    /\ IF MayRetry(w)
       THEN /\ job' = [job EXCEPT !.status = "queued"]
            /\ report' = "pending"
            /\ UNCHANGED session
       ELSE /\ job' = [job EXCEPT !.status = "failed"]
            /\ report' = "failed"
            /\ session' = "completed"
    /\ Return(w)
    /\ UNCHANGED <<retrier, retries, overruns, crashes>>

\* The worker process is killed and started again.
Crash(w) ==
    /\ crashes < MaxCrashes
    /\ ~At(w, "idle")
    /\ crashes' = crashes + 1
    /\ Return(w)
    /\ UNCHANGED <<job, report, session, retrier, retries, overruns>>

-----------------------------------------------------------------------------
(* retry_evaluation *)

\* Bug: the guard on a running job is missing.
Bug_RetriesAnyJob == job.status # "queued"

Retriable == job.status \notin {"queued", "running"}

\* The report and its job are loaded unlocked; a job that is queued or running
\* is returned as it is.  An attribute that has the new value already when it
\* is loaded is not in the UPDATE.
AskRetry(r) ==
    /\ retrier[r].pc = "idle"
    /\ retries < MaxRetries
    /\ report # "none"
    /\ Retriable
    /\ \E keeps \in SUBSET {"attempts", "report"} :
          /\ "attempts" \in keeps <=> job.attempts = 0
          /\ "report" \in keeps <=> report = "pending"
          /\ retrier' = [retrier EXCEPT ![r] = [pc |-> "write", keeps |-> keeps]]
    /\ retries' = retries + 1
    /\ UNCHANGED <<job, report, session, worker, overruns, crashes>>

\* The commit: what another request wrote since the load is not looked at.
Requeue(r) ==
    /\ retrier[r].pc # "idle"
    /\ job' = [status |-> "queued",
               attempts |-> IF "attempts" \in retrier[r].keeps THEN job.attempts ELSE 0]
    /\ report' = IF "report" \in retrier[r].keeps THEN report ELSE "pending"
    /\ retrier' = [q \in Retriers |->
          IF q = r THEN NoRequest
          ELSE IF retrier[q].pc = "write" THEN [retrier[q] EXCEPT !.pc = "stale"]
          ELSE retrier[q]]
    /\ overruns' = IF retrier[r].pc = "stale" THEN overruns + 1 ELSE overruns
    /\ UNCHANGED <<session, worker, retries, crashes>>

-----------------------------------------------------------------------------

WorkerStep(w) ==
    \/ Claim(w)
    \/ Prepare(w)
    \/ Load(w)
    \/ Evaluate(w)
    \/ Persist(w)
    \/ FinishJob(w)
    \/ Fail(w)

Next ==
    \/ FinishSession
    \/ LateStatusWrite
    \/ \E w \in Workers : WorkerStep(w) \/ Crash(w)
    \/ \E r \in Retriers : AskRetry(r) \/ Requeue(r)

Spec == Init /\ [][Next]_vars

\* The worker loop polls for ever and each of its steps has a timeout; nobody
\* has to finish an interview or to ask for a retry.
FairSpec == Spec /\ \A w \in Workers : WF_vars(WorkerStep(w))

-----------------------------------------------------------------------------
(***************************************************************************)
(* Properties                                                              *)
(***************************************************************************)

\* Automatic retries stop at max_attempts, over failures, crashes and retries
\* asked for by the user; each retry written over another may add an attempt.
AttemptsBounded == job.attempts <= MaxAttempts + overruns

\* One worker at a time has the session's evaluation in hand: their drafts would
\* be written over one another.  retry_evaluation locks nothing, so a retry that
\* was written over another queues a job that is being worked on; each such
\* retry, and nothing else, puts one more worker to work.
OneEvaluatorAtATime == Cardinality({w \in Workers : ~At(w, "idle")}) <= 1 + overruns

\* As long as no retry was written over another: the job and the report tell the
\* same story once the job is over, and a session is EVALUATING only while its job
\* is live, for nobody else would end it.  (Afterwards two workers write them in
\* turn, and one can fail the job the other has completed the report of.)
JobAndReportAgree ==
    overruns = 0 =>
        /\ job.status = "completed" => report = "completed"
        /\ job.status = "failed" => report = "failed"
        /\ session = "evaluating" => job.status \in {"queued", "running"}

\* A queued evaluation ends, completed or failed after its last attempt, as long
\* as no worker is killed.
EvaluationSettles ==
    [](crashes = 0) =>
        ((job.status = "queued") ~> (job.status \in {"completed", "failed"}))
=============================================================================
