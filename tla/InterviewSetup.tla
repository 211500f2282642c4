---------------------------- MODULE InterviewSetup ----------------------------
(***************************************************************************)
(* What comes before an interview: the user's resume and its parsing       *)
(* (services/resumes.py, workers/resume_jobs.py), plans and their          *)
(* generation (services/interview_planning.py, workers/plan_jobs.py), the  *)
(* practice task a plan may be for (services/practice_tasks.py), and the   *)
(* session that freezes the plan.                                          *)
(*                                                                         *)
(* Requests read first and write in a later transaction; none of them      *)
(* locks what it has read, except the plan of a new session.  UPDATEs      *)
(* write the columns that differ from what was loaded and check no         *)
(* version.  Uploads are of one file: its content is the same.  A worker   *)
(* may be killed at any moment, and nothing looks for the jobs it leaves.  *)
(***************************************************************************)
EXTENDS PlanSelection, FiniteSets

CONSTANTS
    Handlers,     \* requests being served at the same time
    Workers,      \* worker processes
    Questions,    \* active questions of the bank
    Claims,       \* claims a parser finds in the file
    Templates,    \* scenario templates of the role
    Company, Round,
    PlanConfigs,  \* what a user may ask for: target, weights, seconds, resume, task
    Allocations,  \* shares of time a model may propose
    MaxAttempts,  \* max_attempts of a job
    MaxUploads,   \* uploads that get as far as a file (bound)
    MaxRetries,   \* retry jobs (bound)
    MaxPlans,     \* plans (bound)
    MaxRequests,  \* requests (bound)
    MaxFaults,    \* failed attempts, killed workers and lost requests (bound)
    None

ASSUME SetupAssumption ==
    /\ \A n \in {MaxAttempts, MaxUploads, MaxRequests} : n \in Nat \ {0}
    /\ \A n \in {MaxRetries, MaxPlans, MaxFaults} : n \in Nat
    /\ Templates # {}
    /\ \A c \in PlanConfigs : /\ c.target \in 1..20
                              /\ c.weights \in [SourceSet -> Nat] /\ TotalWeight(c.weights) > 0
                              /\ c.seconds \in Nat /\ c.seconds >= c.target * MinQuestionSeconds

\* Rows of the bank, claims and templates are identified by their ids.
ASSUME CandidateAssumption ==
    /\ IsFiniteSet(Questions) /\ IsFiniteSet(Claims) /\ IsFiniteSet(Templates)
    /\ \A q \in Questions : q.key \in Int /\ q.used \in Nat /\ q.source \in SourceSet
    /\ \A q, r \in Questions : q.key = r.key => q = r
    /\ Claims \cup Templates \subseteq Int /\ Claims \cap Templates = {}
    /\ \A q \in Questions : q.key \notin Claims \cup Templates

VARIABLES
    resume,    \* its row, or None
    files,     \* uploads on disk
    uploads,   \* paths given out so far
    jobs,      \* background_jobs, by creation; deleted rows are "gone"
    plans,     \* plans with their configs and questions
    tasks,     \* practice tasks of one action of a report
    requests,  \* requests begun so far
    req,       \* per handler: its request
    work,      \* per worker: the job it runs
    faults     \* faults so far

vars == <<resume, files, uploads, jobs, plans, tasks, requests, req, work, faults>>

NoReq == [pc |-> "idle", upload |-> 0, version |-> 0, status |-> None, taken |-> {},
          config |-> None, plan |-> 0]
Free == [pc |-> "idle", job |-> 0, version |-> 0, parsed |-> FALSE]

TypeOK ==
    /\ resume # None =>
         resume \in [upload: 1..uploads, parsed: BOOLEAN, version: Nat,
                    status: {"pending", "parsing", "ready", "failed"}]
    /\ files \subseteq 1..uploads /\ uploads \in 0..MaxUploads
    /\ \A i \in DOMAIN jobs :
         jobs[i] \in [kind: {"parse", "plan"}, of: Nat, suffix: Nat, attempts: 0..MaxAttempts,
                     status: {"queued", "running", "completed", "failed", "gone"}]
    /\ \A p \in DOMAIN plans :
         plans[p].status \in {"draft", "ready", "frozen", "failed"}
    /\ \A t \in DOMAIN tasks :
         tasks[t].status \in {"pending", "in progress", "completed", "dismissed"}
    /\ \A w \in Workers : work[w].job \in {0} \cup DOMAIN jobs
    /\ requests \in 0..MaxRequests /\ faults \in 0..MaxFaults

Init ==
    /\ resume = None /\ files = {} /\ uploads = 0
    /\ jobs = <<>>
    /\ plans = <<>>
    /\ tasks = <<>>
    /\ requests = 0
    /\ req = [h \in Handlers |-> NoReq]
    /\ work = [w \in Workers |-> Free]
    /\ faults = 0

-----------------------------------------------------------------------------
(* Jobs *)

\* The kind, what it is of, and the suffix are its idempotency key.
NewJob(kind, of, suffix) ==
    [kind |-> kind, of |-> of, suffix |-> suffix, status |-> "queued", attempts |-> 0]

SameKey(x, y) == x.kind = y.kind /\ x.of = y.of /\ x.suffix = y.suffix
KeyTaken(job) == \E i \in DOMAIN jobs : jobs[i].status # "gone" /\ SameKey(jobs[i], job)

Live(i) == jobs[i].status \in {"queued", "running"}
ParseJobs(upload) ==
    {i \in DOMAIN jobs : jobs[i].kind = "parse" /\ jobs[i].of = upload
                         /\ jobs[i].status # "gone"}

\* Rows that an open deletion has deleted are locked.
Locked(i) == \E h \in Handlers : req[h].pc = "deleting" /\ i \in req[h].taken

At(h, pc) == req[h].pc = pc
Done(h) == req' = [req EXCEPT ![h] = NoReq]
Goto(h, r) == req' = [req EXCEPT ![h] = r]

-----------------------------------------------------------------------------
(* The resume: upload, retry, delete *)

\* create_resume_upload: the look for the content hash, then an insert that holds
\* the unique entry, under which the file is written.
BeginUpload(h) ==
    /\ At(h, "idle")
    /\ resume = None
    /\ Goto(h, [NoReq EXCEPT !.pc = "insert"])
    /\ UNCHANGED <<resume, files, uploads, jobs, plans, tasks, work, faults>>

WriteUpload(h) ==
    /\ At(h, "insert")
    /\ ~\E g \in Handlers : At(g, "written")
    /\ IF resume # None
       THEN /\ Done(h)
            /\ UNCHANGED <<files, uploads>>
       ELSE /\ uploads < MaxUploads
            /\ uploads' = uploads + 1
            /\ files' = files \cup {uploads'}
            /\ Goto(h, [NoReq EXCEPT !.pc = "written", !.upload = uploads'])
    /\ UNCHANGED <<resume, jobs, plans, tasks, requests, work, faults>>

CommitUpload(h) ==
    /\ At(h, "written")
    /\ resume' = [upload |-> req[h].upload, status |-> "pending", version |-> 1,
                  parsed |-> FALSE]
    /\ jobs' = Append(jobs, NewJob("parse", req[h].upload, 0))
    /\ Done(h)
    /\ UNCHANGED <<files, uploads, plans, tasks, requests, work, faults>>

\* get_resume of the routes that retry and delete.
LoadResume(h) ==
    /\ At(h, "idle")
    /\ resume # None
    /\ \E pc \in {"retry", "delete"} :
         Goto(h, [NoReq EXCEPT !.pc = pc, !.upload = resume.upload,
                               !.version = resume.version, !.status = resume.status])
    /\ UNCHANGED <<resume, files, uploads, jobs, plans, tasks, work, faults>>

\* retry_resume_parse answers with a live job, and with nothing new when the
\* resume it has loaded is ready.
LookAtJob(h) ==
    /\ At(h, "retry")
    /\ LET found == ParseJobs(req[h].upload)
       IN  IF \/ found # {} /\ Live(Max(found))
              \/ req[h].status = "ready"
           THEN Done(h)
           ELSE Goto(h, [req[h] EXCEPT !.pc = "requeue"])
    /\ UNCHANGED <<resume, files, uploads, jobs, plans, tasks, requests, work, faults>>

Retries == Cardinality({i \in DOMAIN jobs : jobs[i].kind = "parse" /\ jobs[i].suffix > 0})

\* Bug: the resume keeps its status until the worker starts.
Bug_RequeuesOnly(h) ==
    /\ At(h, "requeue")
    /\ LET job == NewJob("parse", req[h].upload, req[h].version + 1)
           gone == resume = None \/ resume.upload # req[h].upload
       IN  IF gone \/ KeyTaken(job)
           THEN UNCHANGED <<resume, jobs>>
           ELSE /\ Retries < MaxRetries
                /\ resume' = [resume EXCEPT !.status = "pending"]
                /\ UNCHANGED jobs
    /\ Done(h)
    /\ UNCHANGED <<files, uploads, plans, tasks, requests, work, faults>>

\* A row that is gone and a key that is taken fail the request.  The status is
\* written if it is not the one that was loaded.
Requeue(h) ==
    /\ At(h, "requeue")
    /\ LET job == NewJob("parse", req[h].upload, req[h].version + 1)
           gone == resume = None \/ resume.upload # req[h].upload
       IN  IF gone \/ KeyTaken(job)
           THEN UNCHANGED <<resume, jobs>>
           ELSE /\ Retries < MaxRetries
                /\ resume' = [resume EXCEPT
                                !.status = IF req[h].status = "pending" THEN @ ELSE "pending",
                                !.version = req[h].version + 1]
                /\ jobs' = Append(jobs, job)
    /\ Done(h)
    /\ UNCHANGED <<files, uploads, plans, tasks, requests, work, faults>>

\* delete_resume: the jobs there are now, then the row; it commits, and last it
\* unlinks the file.
DeleteJobs(h) ==
    /\ At(h, "delete")
    /\ ~\E i \in ParseJobs(req[h].upload) : Locked(i)
    /\ Goto(h, [req[h] EXCEPT !.pc = "deleting", !.taken = ParseJobs(req[h].upload)])
    /\ UNCHANGED <<resume, files, uploads, jobs, plans, tasks, requests, work, faults>>

CommitDelete(h) ==
    /\ At(h, "deleting")
    /\ jobs' = [i \in DOMAIN jobs |->
                  IF i \in req[h].taken THEN [jobs[i] EXCEPT !.status = "gone"] ELSE jobs[i]]
    /\ resume' = IF resume # None /\ resume.upload = req[h].upload THEN None ELSE resume
    /\ plans' = [p \in DOMAIN plans |->
                   IF plans[p].resume = req[h].upload
                   THEN [plans[p] EXCEPT !.resume = None] ELSE plans[p]]
    /\ Goto(h, [NoReq EXCEPT !.pc = "unlink", !.upload = req[h].upload])
    /\ UNCHANGED <<files, uploads, tasks, requests, work, faults>>

Unlink(h) ==
    /\ At(h, "unlink")
    /\ files' = files \ {req[h].upload}
    /\ Done(h)
    /\ UNCHANGED <<resume, uploads, jobs, plans, tasks, requests, work, faults>>

-----------------------------------------------------------------------------
(* Practice tasks, of one action of a completed report *)

\* create_tasks_from_report: what exists stays as it is.
BeginTask(h) ==
    /\ At(h, "idle")
    /\ tasks = <<>>
    /\ Goto(h, [NoReq EXCEPT !.pc = "new task"])
    /\ UNCHANGED <<resume, files, uploads, jobs, plans, tasks, work, faults>>

\* A request that loses the race for the unique entry fails: nothing catches the
\* IntegrityError of its commit, and none of the tasks it is for are written.
InsertTask(h) ==
    /\ At(h, "new task")
    /\ \/ tasks = <<>> /\ tasks' = <<[status |-> "pending", last |-> 0]>>
       \/ tasks # <<>> /\ UNCHANGED tasks
    /\ Done(h)
    /\ UNCHANGED <<resume, files, uploads, jobs, plans, requests, work, faults>>

\* _ALLOWED_STATUS_TRANSITIONS, without those that stay.
Transitions(status) ==
    CASE status = "pending" -> {"in progress", "completed", "dismissed"}
      [] status = "in progress" -> {"pending", "completed", "dismissed"}
      [] OTHER -> {"pending"}

\* update_practice_task, which checks what it has loaded.
LoadTask(h) ==
    /\ At(h, "idle")
    /\ tasks # <<>>
    /\ \E status \in Transitions(tasks[1].status) :
         Goto(h, [NoReq EXCEPT !.pc = "update task", !.status = status])
    /\ UNCHANGED <<resume, files, uploads, jobs, plans, tasks, work, faults>>

WriteTask(h) ==
    /\ At(h, "update task")
    /\ tasks' = [tasks EXCEPT ![1].status = req[h].status]
    /\ Done(h)
    /\ UNCHANGED <<resume, files, uploads, jobs, plans, requests, work, faults>>

\* get_plannable_practice_task
TaskPlannable == tasks # <<>> /\ tasks[1].status \in {"pending", "in progress"}

-----------------------------------------------------------------------------
(* Plans and the session *)

\* _validate_sources
SourcesValid(config) ==
    /\ config.resume => resume # None /\ resume.status = "ready"
    /\ config.task => TaskPlannable

LookAtSources(h) ==
    /\ At(h, "idle")
    /\ Len(plans) < MaxPlans
    /\ \E config \in PlanConfigs :
         /\ SourcesValid(config)
         /\ Goto(h, [NoReq EXCEPT !.pc = "plan", !.config = config,
                                  !.upload = IF config.resume THEN resume.upload ELSE 0])
    /\ UNCHANGED <<resume, files, uploads, jobs, plans, tasks, work, faults>>

\* create_plan_job: config, plan and job in one transaction.  The foreign key
\* refuses a resume that was deleted in between.
CommitPlan(h) ==
    /\ At(h, "plan")
    /\ LET r == req[h]
           there == r.upload = 0 \/ (resume # None /\ resume.upload = r.upload)
       IN  IF there /\ Len(plans) < MaxPlans
           THEN /\ plans' = Append(plans,
                        [status |-> "draft", config |-> r.config, parsed |-> FALSE,
                         resume |-> IF r.upload = 0 THEN None ELSE r.upload,
                         questions |-> <<>>])
                /\ jobs' = Append(jobs, NewJob("plan", Len(plans'), 0))
           ELSE UNCHANGED <<plans, jobs>>
    /\ Done(h)
    /\ UNCHANGED <<resume, files, uploads, tasks, requests, work, faults>>

\* create_session: the plan FOR UPDATE, and the task once more.
LockPlan(h) ==
    /\ At(h, "idle")
    /\ \E p \in DOMAIN plans :
         /\ plans[p].status \in {"ready", "frozen"}
         /\ plans[p].questions # <<>>
         /\ plans[p].config.task => TaskPlannable
         /\ ~\E g \in Handlers : At(g, "session") /\ req[g].plan = p
         /\ Goto(h, [NoReq EXCEPT !.pc = "session", !.plan = p,
                        !.status = IF plans[p].config.task THEN tasks[1].status ELSE None])
    /\ UNCHANGED <<resume, files, uploads, jobs, plans, tasks, work, faults>>

\* link_task_to_session writes the status only if it loaded a pending task.
CommitSession(h) ==
    /\ At(h, "session")
    /\ plans' = [plans EXCEPT ![req[h].plan].status = "frozen"]
    /\ tasks' = IF req[h].status = None THEN tasks
                ELSE [tasks EXCEPT ![1].last = req[h].plan,
                                   ![1].status = IF req[h].status = "pending"
                                                 THEN "in progress" ELSE @]
    /\ Done(h)
    /\ UNCHANGED <<resume, files, uploads, jobs, requests, work, faults>>

-----------------------------------------------------------------------------
(* Workers *)

\* Bug: only jobs that were not tried before.
Bug_ClaimsFreshJobs(i) == jobs[i].status = "queued" /\ ~Locked(i) /\ jobs[i].attempts = 0

Claimable(i) == jobs[i].status = "queued" /\ ~Locked(i)

\* claim_next_resume_job comes before claim_next_plan_job; a job that failed is
\* put off, so that any queued one of a kind may be next.
Claim(w) ==
    /\ work[w].pc = "idle"
    /\ \E i \in DOMAIN jobs :
         /\ Claimable(i)
         /\ jobs' = [jobs EXCEPT ![i].status = "running", ![i].attempts = @ + 1]
         /\ work' = [work EXCEPT ![w] = [Free EXCEPT !.pc = jobs[i].kind, !.job = i]]
    /\ UNCHANGED <<resume, files, uploads, plans, tasks, requests, req, faults>>

Job(w) == jobs[work[w].job]
HasResume(w) == resume # None /\ resume.upload = Job(w).of

\* _fail_job of both kinds, in a session of its own; a job that is gone is left.
Fail(w, retryable) ==
    /\ LET again == retryable /\ Job(w).attempts < MaxAttempts
       IN  IF Job(w).status = "gone"
           THEN UNCHANGED <<resume, jobs, plans>>
           ELSE /\ jobs' = [jobs EXCEPT ![work[w].job].status =
                                IF again THEN "queued" ELSE "failed"]
                /\ resume' = IF Job(w).kind = "parse" /\ HasResume(w)
                             THEN [resume EXCEPT !.status = IF again THEN "pending" ELSE "failed",
                                                 !.version = @ + 1]
                             ELSE resume
                /\ plans' = IF Job(w).kind = "plan" /\ ~again
                            THEN [plans EXCEPT ![Job(w).of].status = "failed"] ELSE plans
    /\ work' = [work EXCEPT ![w] = Free]
    /\ UNCHANGED <<files, uploads, tasks, requests, req>>

\* process_resume_job: the first commit says that parsing has begun.
BeginParse(w) ==
    /\ work[w].pc = "parse"
    /\ ~Locked(work[w].job)
    /\ \/ /\ Job(w).status = "gone"
          /\ work' = [work EXCEPT ![w] = Free]
          /\ UNCHANGED <<resume, files, uploads, jobs, plans, tasks, requests, req, faults>>
       \/ /\ Job(w).status # "gone"
          /\ ~HasResume(w)
          /\ Fail(w, FALSE)
          /\ UNCHANGED faults
       \/ /\ Job(w).status # "gone"
          /\ HasResume(w)
          /\ resume' = [resume EXCEPT !.status = "parsing", !.version = @ + 1]
          /\ work' = [work EXCEPT ![w].pc = "parsing", ![w].version = resume.version + 1]
          /\ UNCHANGED <<files, uploads, jobs, plans, tasks, requests, req, faults>>

\* Sections, claims, the resume's status and the job's in one commit, over rows
\* that are still there and a file that was.
FinishParse(w) ==
    /\ work[w].pc = "parsing"
    /\ ~Locked(work[w].job)
    /\ Job(w).status # "gone"
    /\ HasResume(w)
    /\ resume' = [resume EXCEPT !.status = "ready", !.parsed = TRUE,
                                !.version = work[w].version + 1]
    /\ jobs' = [jobs EXCEPT ![work[w].job].status = "completed"]
    /\ work' = [work EXCEPT ![w] = Free]
    /\ UNCHANGED <<files, uploads, plans, tasks, requests, req, faults>>

\* A row that is gone; else a timeout, an unreadable text, a database error.
FailParse(w) ==
    /\ work[w].pc = "parsing"
    /\ ~Locked(work[w].job)
    /\ IF Job(w).status # "gone" /\ HasResume(w)
       THEN faults < MaxFaults /\ faults' = faults + 1
       ELSE UNCHANGED faults
    /\ \E retryable \in BOOLEAN : Fail(w, retryable)

\* The candidates of a plan: the bank, the templates, and the claims that were
\* found in its resume.
Candidates(parsed) ==
    Pool(Questions, IF parsed THEN Claims ELSE {}, Templates, Company, Round)

Selections == [config \in PlanConfigs |-> [parsed \in BOOLEAN |->
                SelectCandidates(Candidates(parsed), config.target, config.weights)]]

\* What the model may answer: any order, any shares of time, budgets to the limit
\* and beyond.
Drafts(selected) ==
    {[i \in DOMAIN selected |-> PlanQuestion(selected[f[i]], a[i], selected[f[i]].followUps + e)] :
        f \in [DOMAIN selected -> DOMAIN selected],
        a \in [DOMAIN selected -> Allocations], e \in {0, 1}}

\* _try_model_plan and the fallback for a model that fails or does not keep to it.
Arranged(selected, total, draft) ==
    IF EnoughTime(selected, total) /\ ValidDraft(draft, selected, total)
    THEN draft ELSE DeterministicQuestions(selected, total)

Arrangements == [config \in PlanConfigs |-> [parsed \in BOOLEAN |->
                    UNION {{Arranged(selected, config.seconds, draft) :
                                draft \in Drafts(selected)} :
                             selected \in Selections[config][parsed]}]]

\* Those whose questions the schema lets be.
Accepted == [config \in PlanConfigs |-> [parsed \in BOOLEAN |->
                {questions \in Arrangements[config][parsed] : FitsSchema(questions)}]]

\* generate_plan, up to its call of the model: the candidates there are now.
CollectPool(w) ==
    /\ work[w].pc = "plan"
    /\ LET p == plans[Job(w).of]
       IN  work' = [work EXCEPT ![w].pc = "planning",
                                ![w].parsed = p.resume # None /\ resume.parsed]
    /\ UNCHANGED <<resume, files, uploads, jobs, plans, tasks, requests, req, faults>>

\* The questions, READY and the job's COMPLETED in one commit.
FinishPlan(w) ==
    /\ work[w].pc = "planning"
    /\ LET p == Job(w).of
       IN  \E questions \in Accepted[plans[p].config][work[w].parsed] :
             plans' = [plans EXCEPT ![p].status = "ready", ![p].parsed = work[w].parsed,
                                    ![p].questions = questions]
    /\ jobs' = [jobs EXCEPT ![work[w].job].status = "completed"]
    /\ work' = [work EXCEPT ![w] = Free]
    /\ UNCHANGED <<resume, files, uploads, tasks, requests, req, faults>>

\* The fallback makes a question that its schema refuses, which no call of it expects:
\* the attempt fails as one that may be repeated, and so will the next.
RejectPlan(w) ==
    /\ work[w].pc = "planning"
    /\ LET config == plans[Job(w).of].config
       IN  Accepted[config][work[w].parsed] # Arrangements[config][work[w].parsed]
    /\ Fail(w, TRUE)
    /\ UNCHANGED faults

FailPlan(w) ==
    /\ work[w].pc \in {"plan", "planning"}
    /\ faults < MaxFaults
    /\ faults' = faults + 1
    /\ \E retryable \in BOOLEAN : Fail(w, retryable)

-----------------------------------------------------------------------------
(* Faults *)

Kill(w) ==
    /\ faults < MaxFaults
    /\ work[w] # Free
    /\ work' = [work EXCEPT ![w] = Free]
    /\ faults' = faults + 1
    /\ UNCHANGED <<resume, files, uploads, jobs, plans, tasks, requests, req>>

\* The server stops: an open transaction is rolled back, a file stays.
Lose(h) ==
    /\ faults < MaxFaults
    /\ ~At(h, "idle")
    /\ Done(h)
    /\ faults' = faults + 1
    /\ UNCHANGED <<resume, files, uploads, jobs, plans, tasks, requests, work>>

-----------------------------------------------------------------------------

WorkerStep(w) ==
    \/ Claim(w)
    \/ BeginParse(w)
    \/ FinishParse(w)
    \/ FailParse(w)
    \/ CollectPool(w)
    \/ FinishPlan(w)
    \/ RejectPlan(w)
    \/ FailPlan(w)

HandlerStep(h) ==
    \/ WriteUpload(h)
    \/ CommitUpload(h)
    \/ LookAtJob(h)
    \/ Requeue(h)
    \/ DeleteJobs(h)
    \/ CommitDelete(h)
    \/ Unlink(h)
    \/ InsertTask(h)
    \/ WriteTask(h)
    \/ CommitPlan(h)
    \/ CommitSession(h)

Begin(h) ==
    /\ requests < MaxRequests
    /\ requests' = requests + 1
    /\ \/ BeginUpload(h)
       \/ LoadResume(h)
       \/ BeginTask(h)
       \/ LoadTask(h)
       \/ LookAtSources(h)
       \/ LockPlan(h)

Next ==
    \/ \E h \in Handlers : Begin(h) \/ HandlerStep(h) \/ Lose(h)
    \/ \E w \in Workers : WorkerStep(w) \/ Kill(w)

Spec == Init /\ [][Next]_vars

\* A request that was begun goes on, and a worker polls and works.
FairSpec ==
    /\ Spec
    /\ \A h \in Handlers : WF_vars(HandlerStep(h))
    /\ \A w \in Workers : WF_vars(WorkerStep(w))

-----------------------------------------------------------------------------
(***************************************************************************)
(* Properties                                                              *)
(***************************************************************************)

\* The rows keep their types.  The row of a resume has its file, through uploads,
\* deletions and stops between their steps, and a resume that waits for its parser
\* has a job that is queued or claimed, if only by a worker that was killed since.
ResumeIsBacked ==
    /\ TypeOK
    /\ resume # None =>
         /\ resume.upload \in files
         /\ resume.status \in {"pending", "parsing"} =>
               \E i \in ParseJobs(resume.upload) : Live(i)
         /\ resume.status = "ready" => resume.parsed

\* What a candidate pool allows of a target.
Wanted(plan) == Min({plan.config.target, Cardinality(Candidates(plan.parsed))})

\* A plan that an interview can be started from has as many different questions
\* as there are to be had, each source has its share as far as it goes (less at most
\* the one place that rounding may cost), every question a time its schema allows,
\* and the times are those of the interview.
PlansArePlayable ==
    \A p \in DOMAIN plans : plans[p].status \in {"ready", "frozen"} =>
        LET plan == plans[p]
            qs == plan.questions
            from(s) == Cardinality({i \in DOMAIN qs : qs[i].source = s})
            there(s) == Cardinality({c \in Candidates(plan.parsed) : c.source = s})
        IN  /\ Len(qs) = Wanted(plan)
            /\ Cardinality({qs[i].key : i \in DOMAIN qs}) = Len(qs)
            /\ \A s \in SourceSet :
                 from(s) >= Min({LeastShare(s, plan.config.target, plan.config.weights), there(s)})
            /\ FitsSchema(qs)
            /\ Seconds(qs) = plan.config.seconds

\* A worker that was killed leaves its job to nobody.
Abandoned(i) == jobs[i].status = "running" /\ \A w \in Workers : work[w].job # i

JobIsOpen(i) == i \in DOMAIN jobs /\ Live(i) /\ ~Abandoned(i)

PlanIsOpen(p) ==
    /\ p \in DOMAIN plans
    /\ plans[p].status = "draft"
    /\ \A i \in DOMAIN jobs : jobs[i].kind = "plan" /\ jobs[i].of = p => ~Abandoned(i)

\* Every job ends, and every plan becomes one an interview can be started from or
\* is marked as failed, unless the worker was killed.
SetupSettles ==
    /\ \A i \in 1..(MaxUploads + MaxRetries + MaxPlans) : JobIsOpen(i) ~> ~JobIsOpen(i)
    /\ \A p \in 1..MaxPlans : PlanIsOpen(p) ~> ~PlanIsOpen(p)
=============================================================================
