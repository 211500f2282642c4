------------------------- MODULE InterviewSetupProofs -------------------------
(***************************************************************************)
(* What is proved about the setup of an interview, for any number of       *)
(* handlers, workers, jobs, plans and faults.                              *)
(*                                                                         *)
(* Requests write what they loaded without looking again, so the invariant *)
(* says what a request has in hand at each point (ReqOK): a file that is   *)
(* written belongs to no resume, and nobody else knows it; one about to be *)
(* unlinked belongs to no resume any more; the jobs a deletion has taken   *)
(* are jobs of the resume it deletes.  A worker that is not idle has a job *)
(* of its own which is running or was deleted (WorksOK), and a resume that *)
(* waits has a live job (ResumeOK).                                        *)
(*                                                                         *)
(* That the questions of a plan are those the properties ask for is a      *)
(* statement about sums, sorting and counting over any bank and any        *)
(* answer of the model.  The induction over numbers and sets this needs is *)
(* made by a least counterexample (SmallestNat, SmallestSet); the sum of a *)
(* set is the only function that adds its elements (SumIs).  QuotasAre,    *)
(* InOrderIs, SelectionIs, DeterministicTime and DraftIsPlayable then say  *)
(* what each function of the selection returns, and ReadyOK carries it     *)
(* from the worker that writes a plan to all that follows.                 *)
(***************************************************************************)
EXTENDS InterviewSetup, SequenceTheorems, FiniteSetTheorems, WellFoundedInduction, TLAPS

ResumeStatuses == {"pending", "parsing", "ready", "failed"}
TaskStatuses == {"pending", "in progress", "completed", "dismissed"}

\* The rows of the tables, and what requests and workers may hold.
JobRow == [kind: {"parse", "plan"}, of: Nat, suffix: Nat, attempts: 0..MaxAttempts,
           status: {"queued", "running", "completed", "failed", "gone"}]

\* What a worker may have written as the questions of a plan.
QuestionsFor(c) == UNION {Accepted[c][b] : b \in BOOLEAN}
SomeQuestions == {<<>>} \cup UNION {QuestionsFor(c) : c \in PlanConfigs}

PlanRow == [status: {"draft", "ready", "frozen", "failed"}, config: PlanConfigs,
            parsed: BOOLEAN, resume: Nat \cup {None}, questions: SomeQuestions]

TaskRow == [status: TaskStatuses, last: Nat]

\* A request, by what it does next and what it has loaded.
ReqPcs == {"idle", "insert", "written", "retry", "requeue", "delete", "deleting", "unlink",
           "new task", "update task", "plan", "session"}
Req == [pc: ReqPcs, upload: Nat, version: Nat, taken: SUBSET Nat, plan: Nat,
        status: {None} \cup ResumeStatuses \cup TaskStatuses, config: PlanConfigs \cup {None}]

Work == [pc: {"idle", "parse", "parsing", "plan", "planning"}, job: Nat, version: Nat,
         parsed: BOOLEAN]

\* A queued job may be tried once more.
JobsOK ==
    /\ jobs \in Seq(JobRow)
    /\ \A i \in DOMAIN jobs : jobs[i].status = "queued" => jobs[i].attempts < MaxAttempts

\* What a request has in hand.  An upload that is written is nobody's resume yet;
\* one whose file is about to be unlinked is nobody's any more.
ReqOK(r) ==
    /\ r.upload <= uploads
    /\ r.pc = "written" => resume = None /\ r.upload \in files
    /\ r.pc = "unlink" => resume = None \/ resume.upload # r.upload
    /\ r.pc = "deleting" => \A i \in r.taken : /\ i \in DOMAIN jobs
                                               /\ jobs[i].kind = "parse"
                                               /\ jobs[i].of = r.upload
    /\ r.pc = "update task" => r.status \in TaskStatuses
    /\ r.pc = "plan" => r.config \in PlanConfigs

\* Nobody else knows an upload that is being written.
ReqsOK ==
    /\ req \in [Handlers -> Req]
    /\ \A h \in Handlers : ReqOK(req[h])
    /\ \A g, h \in Handlers : g # h /\ req[h].pc = "written" =>
         req[g].pc # "written" /\ req[g].upload # req[h].upload

\* What a worker's program counter says of its job.
WorkOK(x) ==
    /\ x.pc = "idle" => x.job = 0
    /\ x.pc # "idle" =>
         /\ x.job \in DOMAIN jobs
         /\ jobs[x.job].status \in {"running", "gone"}
         /\ jobs[x.job].kind = IF x.pc \in {"parse", "parsing"} THEN "parse" ELSE "plan"

\* A worker that is not idle has a job of its own.
WorksOK ==
    /\ work \in [Workers -> Work]
    /\ \A w \in Workers : WorkOK(work[w])
    /\ \A v, w \in Workers : v # w /\ work[w].pc # "idle" => work[v].job # work[w].job

\* A parser is to come, or at work.
Backed(upload) == \E i \in ParseJobs(upload) : Live(i)

ResumeRow == [upload: 1..uploads, parsed: BOOLEAN, version: Nat, status: ResumeStatuses]

\* A resume has its file and, as long as it waits, its parser.
ResumeOK ==
    resume # None =>
      /\ resume \in ResumeRow
      /\ resume.upload \in files
      /\ resume.status \in {"pending", "parsing"} => Backed(resume.upload)
      /\ resume.status = "ready" => resume.parsed

CountsOK ==
    /\ uploads \in 0..MaxUploads /\ files \subseteq 1..uploads
    /\ requests \in 0..MaxRequests /\ faults \in 0..MaxFaults

TasksOK == tasks \in Seq(TaskRow) /\ Len(tasks) <= 1
PlansOK == plans \in Seq(PlanRow)

\* The inductive invariant.
SetupInv ==
    /\ JobsOK /\ PlansOK /\ TasksOK /\ ReqsOK /\ WorksOK /\ ResumeOK /\ CountsOK

LEMMA Constants ==
    /\ MaxAttempts \in Nat \ {0} /\ MaxUploads \in Nat /\ MaxRequests \in Nat /\ MaxFaults \in Nat
  BY SetupAssumption

-----------------------------------------------------------------------------
(* Jobs *)

\* A job keeps what it is of.
JobsKeep ==
    /\ DOMAIN jobs \subseteq DOMAIN jobs'
    /\ \A i \in DOMAIN jobs : jobs'[i].kind = jobs[i].kind /\ jobs'[i].of = jobs[i].of

LEMMA JobTypes ==
    ASSUME JobsOK, NEW i \in DOMAIN jobs
    PROVE  jobs[i] \in JobRow /\ i \in Nat /\ i # 0
  BY DEF JobsOK

\* A job is added at the end.
LEMMA JobAdded ==
    ASSUME JobsOK, NEW kind \in {"parse", "plan"}, NEW of \in Nat, NEW suffix \in Nat,
           jobs' = Append(jobs, NewJob(kind, of, suffix))
    PROVE  /\ JobsOK' /\ JobsKeep
           /\ \A i \in DOMAIN jobs : jobs'[i] = jobs[i]
           /\ Len(jobs) + 1 \in DOMAIN jobs'
           /\ jobs'[Len(jobs) + 1] = NewJob(kind, of, suffix)
  <1> DEFINE x == NewJob(kind, of, suffix)
  <1>1. x \in JobRow /\ x.attempts < MaxAttempts
    BY Constants DEF NewJob, JobRow
  <1> HIDE DEF x
  <1>2. jobs \in Seq(JobRow) /\ jobs' = Append(jobs, x)
    BY DEF JobsOK, x
  <1>3. jobs' \in Seq(JobRow) /\ DOMAIN jobs' = 1..(Len(jobs) + 1) /\ DOMAIN jobs = 1..Len(jobs)
        /\ Len(jobs) \in Nat
        /\ jobs'[Len(jobs) + 1] = x
        /\ \A i \in DOMAIN jobs : jobs'[i] = jobs[i]
    BY <1>1, <1>2
  <1>4. \A i \in DOMAIN jobs' : i \in DOMAIN jobs \/ i = Len(jobs) + 1
    BY <1>3
  <1>5. DOMAIN jobs \subseteq DOMAIN jobs' /\ Len(jobs) + 1 \in DOMAIN jobs'
    BY <1>3
  <1>6. ASSUME NEW i \in DOMAIN jobs', jobs'[i].status = "queued"
        PROVE  jobs'[i].attempts < MaxAttempts
    <2>1. CASE i \in DOMAIN jobs
      BY <1>3, <1>6, <2>1 DEF JobsOK
    <2>2. CASE i = Len(jobs) + 1
      <3>1. jobs'[i] = x
        BY <1>3, <2>2
      <3> QED
        BY <1>1, <3>1
    <2> QED
      BY <1>4, <2>1, <2>2
  <1>7. JobsOK'
    BY <1>3, <1>6 DEF JobsOK
  <1> QED
    BY <1>3, <1>5, <1>7 DEF JobsKeep, x

\* The status of one job is written.
LEMMA JobMoves ==
    ASSUME JobsOK, NEW i \in DOMAIN jobs,
           NEW s \in {"queued", "running", "completed", "failed", "gone"},
           jobs' = [jobs EXCEPT ![i].status = s],
           s = "queued" => jobs[i].attempts < MaxAttempts
    PROVE  /\ JobsOK' /\ JobsKeep /\ DOMAIN jobs' = DOMAIN jobs
           /\ \A j \in DOMAIN jobs : j # i => jobs'[j] = jobs[j]
           /\ jobs'[i].status = s
  <1> DEFINE x == [jobs[i] EXCEPT !.status = s]
  <1>1. x \in JobRow /\ x.kind = jobs[i].kind /\ x.of = jobs[i].of /\ x.status = s
        /\ x.attempts = jobs[i].attempts
    BY JobTypes DEF JobRow
  <1>2. jobs' = [jobs EXCEPT ![i] = x] /\ jobs \in Seq(JobRow)
    BY DEF JobsOK
  <1> HIDE DEF x
  <1>3. jobs' \in Seq(JobRow) /\ DOMAIN jobs' = DOMAIN jobs /\ jobs'[i] = x
        /\ \A j \in DOMAIN jobs : j # i => jobs'[j] = jobs[j]
    BY <1>1, <1>2
  <1>4. JobsOK'
    BY <1>1, <1>3 DEF JobsOK
  <1> QED
    BY <1>1, <1>3, <1>4 DEF JobsKeep

LEMMA JobsUntouched == ASSUME JobsOK, jobs' = jobs PROVE JobsOK' /\ JobsKeep
  BY DEF JobsOK, JobsKeep

-----------------------------------------------------------------------------
(* Requests *)

\* The resume's row stays where it is.
ResumeStays ==
    /\ resume = None => resume' = None
    /\ resume # None => resume'.upload = resume.upload

LEMMA ReqKept ==
    ASSUME JobsKeep, ResumeStays, UNCHANGED <<files, uploads>>, NEW r, ReqOK(r)
    PROVE  ReqOK(r)'
  <1>1. r.pc = "deleting" => \A i \in r.taken : /\ i \in DOMAIN jobs'
                                                 /\ jobs'[i].kind = "parse"
                                                 /\ jobs'[i].of = r.upload
    BY DEF ReqOK, JobsKeep
  <1>2. r.pc = "written" => resume' = None /\ r.upload \in files'
    BY DEF ReqOK, ResumeStays
  <1>3. r.pc = "unlink" => resume' = None \/ resume'.upload # r.upload
    BY DEF ReqOK, ResumeStays
  <1> QED
    BY <1>1, <1>2, <1>3 DEF ReqOK

\* A request moves on; what it knows of an upload is what it knew, or the resume's.
LEMMA ReqMoves ==
    ASSUME ReqsOK, CountsOK, JobsKeep, ResumeStays, UNCHANGED <<files, uploads>>,
           NEW h \in Handlers, NEW r \in Req, req' = [req EXCEPT ![h] = r], ReqOK(r),
           r.pc # "written", r.upload \in {0, req[h].upload} \/ resume # None
    PROVE  ReqsOK'
  <1>1. req' \in [Handlers -> Req] /\ req'[h] = r /\ \A g \in Handlers : g # h => req'[g] = req[g]
    BY DEF ReqsOK
  <1>2. ASSUME NEW g \in Handlers PROVE ReqOK(req[g])'
    <2>1. PICK x : x = req'[g]
      OBVIOUS
    <2>2. ReqOK(x)
      BY <1>1, <2>1 DEF ReqsOK
    <2>3. ReqOK(x)'
      BY <2>2, ReqKept
    <2> QED
      BY <2>1, <2>3
  <1>3. ASSUME NEW f \in Handlers, NEW g \in Handlers, f # g, req'[g].pc = "written"
        PROVE  req'[f].pc # "written" /\ req'[f].upload # req'[g].upload
    <2>1. g # h /\ req'[g] = req[g]
      BY <1>1, <1>3
    <2>2. ReqOK(req[g]) /\ req[g].pc = "written"
      BY <1>3, <2>1 DEF ReqsOK
    <2>3. resume = None /\ req[g].upload # 0
      <3>1. resume = None /\ req[g].upload \in files
        BY <2>2 DEF ReqOK
      <3>2. 0 \notin files
        BY Constants DEF CountsOK
      <3> QED
        BY <3>1, <3>2
    <2> QED
      BY <1>1, <1>3, <2>1, <2>3 DEF ReqsOK
  <1> QED
    BY <1>1, <1>2, <1>3 DEF ReqsOK

LEMMA ReqsUntouched ==
    ASSUME ReqsOK, JobsKeep, ResumeStays, UNCHANGED <<files, uploads, req>>
    PROVE  ReqsOK'
  <1>1. ASSUME NEW g \in Handlers PROVE ReqOK(req[g])'
    <2>1. PICK x : x = req[g]
      OBVIOUS
    <2>2. ReqOK(x)'
      BY <2>1, ReqKept DEF ReqsOK
    <2> QED
      BY <2>1, <2>2
  <1> QED
    BY <1>1 DEF ReqsOK

LEMMA NoReqType == NoReq \in Req
  BY DEF NoReq, Req, ReqPcs

LEMMA DoneMoves ==
    ASSUME ReqsOK, CountsOK, JobsKeep, ResumeStays, UNCHANGED <<files, uploads>>,
           NEW h \in Handlers, Done(h)
    PROVE  ReqsOK'
  <1>1. NoReq.pc = "idle" /\ NoReq.upload = 0
    BY DEF NoReq
  <1>2. ReqOK(NoReq)
    BY <1>1 DEF ReqOK, CountsOK
  <1> QED
    BY <1>1, <1>2, NoReqType, ReqMoves DEF Done

-----------------------------------------------------------------------------
(* Workers *)

LEMMA WorkTypes ==
    ASSUME WorksOK, JobsOK, NEW w \in Workers
    PROVE  /\ work[w] \in Work /\ WorkOK(work[w])
           /\ work[w].pc # "idle" => /\ work[w].job \in DOMAIN jobs
                                     /\ Job(w) \in JobRow /\ Job(w).status \in {"running", "gone"}
           /\ work[w].pc \in {"parse", "parsing"} => Job(w).kind = "parse"
           /\ work[w].pc \in {"plan", "planning"} => Job(w).kind = "plan"
  <1>1. work[w] \in Work /\ WorkOK(work[w])
    BY DEF WorksOK
  <1> QED
    BY <1>1, JobTypes DEF WorkOK, Job

\* The jobs of the workers are left to them, or deleted.
JobsLeft(w) ==
    \A v \in Workers : v # w /\ work[v].pc # "idle" =>
        jobs'[work[v].job].status \in {jobs[work[v].job].status, "gone"}

LEMMA WorksKept ==
    ASSUME WorksOK, JobsKeep, work' = work,
           \A v \in Workers : work[v].pc # "idle" =>
               jobs'[work[v].job].status \in {jobs[work[v].job].status, "gone"}
    PROVE  WorksOK'
  <1>1. ASSUME NEW w \in Workers PROVE WorkOK(work[w])'
    BY DEF WorksOK, WorkOK, JobsKeep
  <1> QED
    BY <1>1 DEF WorksOK

\* A worker moves on, with its job or without.
LEMMA WorkMoves ==
    ASSUME WorksOK, JobsOK', JobsKeep, NEW w \in Workers, NEW x \in Work,
           work' = [work EXCEPT ![w] = x], WorkOK(x)',
           x.job \in {0, work[w].job}, x.pc = "idle" \/ work[w].pc # "idle",
           JobsLeft(w)
    PROVE  WorksOK'
  <1>1. work' \in [Workers -> Work] /\ work'[w] = x /\ \A v \in Workers : v # w => work'[v] = work[v]
    BY DEF WorksOK
  <1>2. ASSUME NEW v \in Workers PROVE WorkOK(work[v])'
    <2>1. CASE v = w
      <3>1. work'[v] = x
        BY <1>1, <2>1
      <3> QED
        BY <3>1 DEF WorkOK
    <2>2. CASE v # w
      BY <1>1, <2>2 DEF WorksOK, WorkOK, JobsKeep, JobsLeft
    <2> QED
      BY <2>1, <2>2
  <1>3. ASSUME NEW u \in Workers, NEW v \in Workers, u # v, work'[v].pc # "idle"
        PROVE  work'[u].job # work'[v].job
    <2>0. \A z \in Workers : work'[z].job \in {0, work[z].job}
          /\ (work'[z].pc # "idle" => work[z].pc # "idle" /\ work'[z].job # 0)
      <3> TAKE z \in Workers
      <3>1. WorkOK(work[z])' /\ WorkOK(work[z])
        BY <1>2 DEF WorksOK
      <3>2. 0 \notin DOMAIN jobs'
        BY DEF JobsOK
      <3> QED
        BY <1>1, <3>1, <3>2 DEF WorkOK
    <2> QED
      BY <1>3, <2>0 DEF WorksOK
  <1> QED
    BY <1>1, <1>2, <1>3 DEF WorksOK

-----------------------------------------------------------------------------
(* The resume *)

\* The live parse jobs of an upload are left alive.
LiveKept(upload) ==
    \A i \in DOMAIN jobs : jobs[i].kind = "parse" /\ jobs[i].of = upload /\ Live(i) =>
        jobs'[i].status \in {"queued", "running"}

LEMMA BackedKept ==
    ASSUME JobsKeep, NEW u, LiveKept(u), Backed(u)
    PROVE  Backed(u)'
  BY DEF JobsKeep, LiveKept, Backed, ParseJobs, Live

LEMMA ResumeKept ==
    ASSUME ResumeOK, JobsKeep, resume' = resume, files' = files, uploads' = uploads,
           resume # None => LiveKept(resume.upload)
    PROVE  ResumeOK'
  <1>1. SUFFICES ASSUME resume # None PROVE ResumeOK'
    BY DEF ResumeOK
  <1>2. PICK u : u = resume.upload
    OBVIOUS
  <1>3. resume.status \in {"pending", "parsing"} => Backed(u)'
    BY <1>1, <1>2, BackedKept DEF ResumeOK
  <1>4. resume'.upload = u
    BY <1>2
  <1>5. Backed(resume.upload)' <=> Backed(u)'
    BY <1>4
  <1> QED
    BY <1>1, <1>3, <1>5 DEF ResumeOK, ResumeRow

LEMMA LiveUntouched == ASSUME jobs' = jobs, NEW u PROVE LiveKept(u)
  BY DEF LiveKept, Live

LEMMA Untouched ==
    ASSUME SetupInv, UNCHANGED <<resume, files, uploads, jobs, work>>
    PROVE  JobsOK' /\ JobsKeep /\ ResumeStays /\ ResumeOK' /\ WorksOK'
  <1>1. JobsOK' /\ JobsKeep
    BY JobsUntouched DEF SetupInv
  <1>2. ResumeOK'
    BY <1>1, ResumeKept, LiveUntouched DEF SetupInv
  <1>3. WorksOK'
    BY <1>1, WorksKept DEF SetupInv
  <1> QED
    BY <1>1, <1>2, <1>3 DEF ResumeStays

-----------------------------------------------------------------------------
(* A request begins *)

LEMMA TransitionsTypes == ASSUME NEW s PROVE Transitions(s) \subseteq TaskStatuses
  BY DEF Transitions, TaskStatuses

LEMMA ResumeTypes ==
    ASSUME SetupInv
    PROVE  /\ uploads \in Nat
           /\ resume # None => /\ resume.upload \in Nat \ {0} /\ resume.upload <= uploads
                              /\ resume.version \in Nat /\ resume.status \in ResumeStatuses
  <1>1. uploads \in Nat
    BY Constants DEF SetupInv, CountsOK
  <1>2. resume # None => resume \in ResumeRow
    BY DEF SetupInv, ResumeOK
  <1> QED
    BY <1>1, <1>2 DEF ResumeRow

LEMMA BeginKeeps == ASSUME SetupInv, NEW h \in Handlers, Begin(h) PROVE SetupInv'
  <1>1. UNCHANGED <<resume, files, uploads, jobs, plans, tasks, work, faults>>
    BY DEF Begin, BeginUpload, LoadResume, BeginTask, LoadTask, LookAtSources, LockPlan
  <1>2. JobsOK' /\ JobsKeep /\ ResumeStays /\ ResumeOK' /\ WorksOK'
    BY <1>1, Untouched
  <1>3. CountsOK' /\ TasksOK' /\ PlansOK'
    BY <1>1, Constants DEF Begin, SetupInv, CountsOK, TasksOK, PlansOK
  <1>4. ASSUME NEW r \in Req, Goto(h, r), r.pc \in {"insert", "retry", "delete", "new task",
                   "update task", "plan", "session"},
               r.upload = 0 \/ (resume # None /\ r.upload = resume.upload),
               r.pc = "update task" => r.status \in TaskStatuses,
               r.pc = "plan" => r.config \in PlanConfigs
        PROVE  ReqsOK'
    <2>1. r.upload <= uploads
      <3>1. uploads \in Nat /\ (resume # None => resume.upload <= uploads)
        BY ResumeTypes
      <3>2. r.upload = 0 \/ (resume # None /\ r.upload = resume.upload)
        BY <1>4
      <3> QED
        BY <3>1, <3>2
    <2>2. ReqOK(r)
      BY <1>4, <2>1 DEF ReqOK
    <2> QED
      BY <1>1, <1>2, <1>4, <2>2, ReqMoves DEF Goto, SetupInv
  <1>5. CASE BeginUpload(h)
    <2> DEFINE r == [NoReq EXCEPT !.pc = "insert"]
    <2>1. r \in Req /\ r.pc = "insert" /\ r.upload = 0
      BY DEF NoReq, Req, ReqPcs
    <2>2. Goto(h, r)
      BY <1>5 DEF BeginUpload
    <2> HIDE DEF r
    <2>3. ReqsOK'
      BY <1>4, <2>1, <2>2
    <2> QED
      BY <1>2, <1>3, <2>3 DEF SetupInv
  <1>6. CASE LoadResume(h)
    <2>1. resume # None /\ resume \in ResumeRow
      BY <1>6 DEF LoadResume, SetupInv, ResumeOK
    <2>2. PICK pc \in {"retry", "delete"} :
            Goto(h, [NoReq EXCEPT !.pc = pc, !.upload = resume.upload,
                                  !.version = resume.version, !.status = resume.status])
      BY <1>6 DEF LoadResume
    <2> DEFINE r == [NoReq EXCEPT !.pc = pc, !.upload = resume.upload,
                                  !.version = resume.version, !.status = resume.status]
    <2>3. r \in Req /\ r.pc = pc /\ r.upload = resume.upload
      BY <2>1, ResumeTypes DEF NoReq, Req, ReqPcs
    <2> HIDE DEF r
    <2>4. ReqsOK'
      BY <1>4, <2>1, <2>2, <2>3 DEF r
    <2> QED
      BY <1>2, <1>3, <2>4 DEF SetupInv
  <1>7. CASE BeginTask(h)
    <2> DEFINE r == [NoReq EXCEPT !.pc = "new task"]
    <2>1. r \in Req /\ r.pc = "new task" /\ r.upload = 0
      BY DEF NoReq, Req, ReqPcs
    <2>2. Goto(h, r)
      BY <1>7 DEF BeginTask
    <2> HIDE DEF r
    <2>3. ReqsOK'
      BY <1>4, <2>1, <2>2
    <2> QED
      BY <1>2, <1>3, <2>3 DEF SetupInv
  <1>8. CASE LoadTask(h)
    <2>1. PICK s \in TaskStatuses : Goto(h, [NoReq EXCEPT !.pc = "update task", !.status = s])
      BY <1>8, TransitionsTypes DEF LoadTask
    <2> DEFINE r == [NoReq EXCEPT !.pc = "update task", !.status = s]
    <2>2. r \in Req /\ r.pc = "update task" /\ r.upload = 0 /\ r.status = s
      BY DEF NoReq, Req, ReqPcs
    <2>3. Goto(h, r)
      BY <2>1
    <2> HIDE DEF r
    <2>4. ReqsOK'
      BY <1>4, <2>2, <2>3
    <2> QED
      BY <1>2, <1>3, <2>4 DEF SetupInv
  <1>9. CASE LookAtSources(h)
    <2>1. PICK c \in PlanConfigs :
            /\ SourcesValid(c)
            /\ Goto(h, [NoReq EXCEPT !.pc = "plan", !.config = c,
                                     !.upload = IF c.resume THEN resume.upload ELSE 0])
      BY <1>9 DEF LookAtSources
    <2> DEFINE u == IF c.resume THEN resume.upload ELSE 0
               r == [NoReq EXCEPT !.pc = "plan", !.config = c, !.upload = u]
    <2>2. u = 0 \/ (resume # None /\ u = resume.upload)
      BY <2>1 DEF SourcesValid
    <2>3. u \in Nat
      BY <2>2, Constants DEF SetupInv, ResumeOK, ResumeRow, CountsOK
    <2>4. Goto(h, r)
      BY <2>1
    <2> HIDE DEF u
    <2>5. r \in Req /\ r.pc = "plan" /\ r.upload = u /\ r.config = c
      BY <2>3 DEF NoReq, Req, ReqPcs
    <2> HIDE DEF r
    <2>6. ReqsOK'
      BY <1>4, <2>2, <2>4, <2>5
    <2> QED
      BY <1>2, <1>3, <2>6 DEF SetupInv
  <1>10. CASE LockPlan(h)
    <2>1. PICK p \in DOMAIN plans :
            /\ plans[p].config.task => TaskPlannable
            /\ Goto(h, [NoReq EXCEPT !.pc = "session", !.plan = p,
                        !.status = IF plans[p].config.task THEN tasks[1].status ELSE None])
      BY <1>10 DEF LockPlan
    <2> DEFINE s == IF plans[p].config.task THEN tasks[1].status ELSE None
               r == [NoReq EXCEPT !.pc = "session", !.plan = p, !.status = s]
    <2>2. s \in {None} \cup TaskStatuses
      BY <2>1 DEF TaskPlannable, TaskStatuses
    <2>3. p \in Nat
      BY DEF SetupInv, PlansOK
    <2>4. Goto(h, r)
      BY <2>1
    <2> HIDE DEF s
    <2>5. r \in Req /\ r.pc = "session" /\ r.upload = 0
      BY <2>2, <2>3 DEF NoReq, Req, ReqPcs
    <2> HIDE DEF r
    <2>6. ReqsOK'
      BY <1>4, <2>4, <2>5
    <2> QED
      BY <1>2, <1>3, <2>6 DEF SetupInv
  <1> QED
    BY <1>5, <1>6, <1>7, <1>8, <1>9, <1>10 DEF Begin

-----------------------------------------------------------------------------
(* A request goes on *)

LEMMA WriteUploadKeeps == ASSUME SetupInv, NEW h \in Handlers, WriteUpload(h) PROVE SetupInv'
  <1>1. UNCHANGED <<resume, jobs, plans, tasks, requests, work, faults>>
        /\ \A g \in Handlers : req[g].pc # "written"
    BY DEF WriteUpload, At
  <1>2. JobsOK' /\ JobsKeep /\ ResumeStays /\ WorksOK' /\ TasksOK' /\ PlansOK'
    BY <1>1, JobsUntouched, WorksKept DEF SetupInv, TasksOK, PlansOK, ResumeStays
  <1>3. CASE Done(h) /\ UNCHANGED <<files, uploads>>
    <2>1. ReqsOK'
      BY <1>2, <1>3, DoneMoves DEF SetupInv
    <2>2. ResumeOK' /\ CountsOK'
      BY <1>1, <1>3, Untouched DEF SetupInv, CountsOK
    <2> QED
      BY <1>2, <2>1, <2>2 DEF SetupInv
  <1>4. CASE /\ resume = None /\ uploads < MaxUploads /\ uploads' = uploads + 1
             /\ files' = files \cup {uploads'}
             /\ Goto(h, [NoReq EXCEPT !.pc = "written", !.upload = uploads'])
    <2>0. uploads \in Nat
      BY ResumeTypes
    <2>1. PICK u \in Nat : u = uploads + 1
      BY <2>0
    <2> DEFINE r == [NoReq EXCEPT !.pc = "written", !.upload = u]
    <2>2. r \in Req /\ r.pc = "written" /\ r.upload = u
      BY DEF NoReq, Req, ReqPcs
    <2>3. req' = [req EXCEPT ![h] = r]
      BY <1>4, <2>1 DEF Goto
    <2> HIDE DEF r
    <2>4. req' \in [Handlers -> Req] /\ req'[h] = r /\ \A g \in Handlers : g # h => req'[g] = req[g]
      BY <2>2, <2>3 DEF SetupInv, ReqsOK
    <2>5. ASSUME NEW g \in Handlers PROVE ReqOK(req[g])'
      <3>1. PICK x \in Req : x = req'[g]
        BY <2>4
      <3>2. CASE g = h
        <4>1. x.pc = "written" /\ x.upload = u
          BY <2>2, <2>4, <3>1, <3>2
        <4>2. uploads' = u /\ u \in files' /\ resume' = None
          BY <1>1, <1>4, <2>1
        <4>3. ReqOK(x)'
          BY <2>1, <4>1, <4>2 DEF ReqOK
        <4> QED
          BY <3>1, <4>3
      <3>3. CASE g # h
        <4>1. ReqOK(x) /\ x.pc # "written" /\ x.upload \in Nat
          BY <1>1, <2>4, <3>1, <3>3 DEF SetupInv, ReqsOK, Req
        <4>0. x.upload <= uploads /\ uploads' = uploads + 1
          BY <1>4, <4>1 DEF ReqOK
        <4>2. x.upload <= uploads'
          BY <2>0, <4>0, <4>1
        <4>3. ReqOK(x)'
          BY <1>1, <4>1, <4>2 DEF ReqOK
        <4> QED
          BY <3>1, <4>3
      <3> QED
        BY <3>2, <3>3
    <2>6. ASSUME NEW f \in Handlers, NEW g \in Handlers, f # g, req'[g].pc = "written"
          PROVE  req'[f].pc # "written" /\ req'[f].upload # req'[g].upload
      <3>1. g = h /\ req'[g].upload = u /\ req'[f] = req[f]
        BY <1>1, <2>2, <2>4, <2>6
      <3>2. ReqOK(req[f]) /\ req[f].upload \in Nat /\ req[f].pc # "written"
        BY <1>1 DEF SetupInv, ReqsOK, Req
      <3>3. req[f].upload <= uploads
        BY <3>2 DEF ReqOK
      <3>4. req[f].upload # u
        BY <2>0, <2>1, <3>2, <3>3
      <3> QED
        BY <3>1, <3>2, <3>4
    <2>7. ReqsOK'
      BY <2>4, <2>5, <2>6 DEF ReqsOK
    <2>8. uploads' \in 0..MaxUploads /\ files' \subseteq 1..uploads'
      BY <1>4, <2>0, Constants DEF SetupInv, CountsOK
    <2>9. ResumeOK' /\ CountsOK'
      BY <1>1, <1>4, <2>8 DEF SetupInv, ResumeOK, CountsOK
    <2> QED
      BY <1>2, <2>7, <2>9 DEF SetupInv
  <1> QED
    BY <1>3, <1>4 DEF WriteUpload

LEMMA CommitUploadKeeps == ASSUME SetupInv, NEW h \in Handlers, CommitUpload(h) PROVE SetupInv'
  <1>1. PICK u : u = req[h].upload
    OBVIOUS
  <1>2. /\ req[h].pc = "written" /\ resume = None /\ u \in files /\ u \in 1..uploads
        /\ uploads \in Nat
    <2>1. ReqOK(req[h]) /\ req[h].pc = "written"
      BY DEF CommitUpload, At, SetupInv, ReqsOK
    <2>2. files \subseteq 1..uploads
      BY DEF SetupInv, CountsOK
    <2> QED
      BY <1>1, <2>1, <2>2, ResumeTypes DEF ReqOK
  <1>3. /\ resume' = [upload |-> u, status |-> "pending", version |-> 1, parsed |-> FALSE]
        /\ jobs' = Append(jobs, NewJob("parse", u, 0))
        /\ req' = [req EXCEPT ![h] = NoReq]
        /\ UNCHANGED <<files, uploads, plans, tasks, requests, work, faults>>
    BY <1>1 DEF CommitUpload, Done
  <1>4. /\ JobsOK' /\ JobsKeep
        /\ \A i \in DOMAIN jobs : jobs'[i] = jobs[i]
        /\ Len(jobs) + 1 \in DOMAIN jobs' /\ jobs'[Len(jobs) + 1] = NewJob("parse", u, 0)
    BY <1>2, <1>3, JobAdded DEF SetupInv
  <1>5. WorksOK'
    <2>1. \A v \in Workers : work[v].pc # "idle" => work[v].job \in DOMAIN jobs
      BY DEF SetupInv, WorksOK, WorkOK
    <2> QED
      BY <1>3, <1>4, <2>1, WorksKept DEF SetupInv
  <1>6. ResumeOK'
    <2>1. Backed(u)'
      BY <1>4 DEF Backed, ParseJobs, Live, NewJob
    <2>2. resume'.upload = u /\ resume'.status = "pending" /\ resume' \in ResumeRow'
      BY <1>2, <1>3 DEF ResumeRow, ResumeStatuses
    <2>3. Backed(resume.upload)' <=> Backed(u)'
      BY <2>2
    <2> QED
      BY <1>2, <1>3, <2>1, <2>2, <2>3 DEF ResumeOK
  <1>7. ReqsOK'
    <2>1. req' \in [Handlers -> Req] /\ req'[h] = NoReq /\ \A g \in Handlers : g # h => req'[g] = req[g]
      BY <1>3, NoReqType DEF SetupInv, ReqsOK
    <2>2. \A g \in Handlers : req'[g].pc # "written"
      BY <1>2, <2>1 DEF SetupInv, ReqsOK, NoReq
    <2>3. ASSUME NEW g \in Handlers PROVE ReqOK(req[g])'
      <3>1. PICK x \in Req : x = req'[g]
        BY <2>1
      <3>2. CASE g = h
        <4>1. x.pc = "idle" /\ x.upload = 0
          BY <2>1, <3>1, <3>2 DEF NoReq
        <4>2. ReqOK(x)'
          BY <1>2, <1>3, <4>1 DEF ReqOK
        <4> QED
          BY <3>1, <4>2
      <3>3. CASE g # h
        <4>1. ReqOK(x) /\ x.upload # u
          BY <1>1, <1>2, <2>1, <3>1, <3>3 DEF SetupInv, ReqsOK
        <4>2. x.pc # "written"
          BY <2>2, <3>1
        <4>3. resume'.upload = u
          BY <1>3
        <4>4. x.pc = "deleting" => \A i \in x.taken : /\ i \in DOMAIN jobs'
                                                      /\ jobs'[i].kind = "parse"
                                                      /\ jobs'[i].of = x.upload
          BY <1>4, <4>1 DEF ReqOK, JobsKeep
        <4>5. ReqOK(x)'
          BY <1>3, <4>1, <4>2, <4>3, <4>4 DEF ReqOK
        <4> QED
          BY <3>1, <4>5
      <3> QED
        BY <3>2, <3>3
    <2> QED
      BY <2>1, <2>2, <2>3 DEF ReqsOK
  <1>8. CountsOK' /\ TasksOK' /\ PlansOK'
    BY <1>3 DEF SetupInv, CountsOK, TasksOK, PlansOK
  <1> QED
    BY <1>4, <1>5, <1>6, <1>7, <1>8 DEF SetupInv

\* Only the request of a handler changes.
LEMMA OnlyRequest ==
    ASSUME SetupInv, UNCHANGED <<resume, files, uploads, jobs, plans, tasks, requests, work>>,
           faults' \in 0..MaxFaults, ReqsOK'
    PROVE  SetupInv'
  <1>1. JobsOK' /\ ResumeOK' /\ WorksOK'
    BY Untouched
  <1>2. CountsOK' /\ TasksOK' /\ PlansOK'
    BY DEF SetupInv, CountsOK, TasksOK, PlansOK
  <1> QED
    BY <1>1, <1>2 DEF SetupInv

LEMMA LookAtJobKeeps == ASSUME SetupInv, NEW h \in Handlers, LookAtJob(h) PROVE SetupInv'
  <1>1. UNCHANGED <<resume, files, uploads, jobs, plans, tasks, requests, work, faults>>
    BY DEF LookAtJob
  <1>2. faults' \in 0..MaxFaults /\ JobsKeep /\ ResumeStays
    BY <1>1, Untouched DEF SetupInv, CountsOK
  <1>3. CASE Done(h)
    <2>1. ReqsOK'
      BY <1>1, <1>2, <1>3, DoneMoves DEF SetupInv
    <2> QED
      BY <1>1, <1>2, <2>1, OnlyRequest
  <1>4. CASE Goto(h, [req[h] EXCEPT !.pc = "requeue"])
    <2> DEFINE r == [req[h] EXCEPT !.pc = "requeue"]
    <2>1. req[h] \in Req /\ ReqOK(req[h])
      BY DEF SetupInv, ReqsOK
    <2>2. r \in Req /\ r.pc = "requeue" /\ r.upload = req[h].upload
      BY <2>1 DEF Req, ReqPcs
    <2>3. req' = [req EXCEPT ![h] = r]
      BY <1>4 DEF Goto
    <2> HIDE DEF r
    <2>4. ReqOK(r)
      BY <2>1, <2>2 DEF ReqOK
    <2>5. ReqsOK'
      BY <1>1, <1>2, <2>2, <2>3, <2>4, ReqMoves DEF SetupInv
    <2> QED
      BY <1>1, <1>2, <2>5, OnlyRequest
  <1> QED
    BY <1>3, <1>4 DEF LookAtJob

LEMMA DeleteJobsKeeps == ASSUME SetupInv, NEW h \in Handlers, DeleteJobs(h) PROVE SetupInv'
  <1>1. UNCHANGED <<resume, files, uploads, jobs, plans, tasks, requests, work, faults>>
    BY DEF DeleteJobs
  <1>2. faults' \in 0..MaxFaults /\ JobsKeep /\ ResumeStays
    BY <1>1, Untouched DEF SetupInv, CountsOK
  <1>3. PICK u : u = req[h].upload
    OBVIOUS
  <1>4. PICK taken : taken = ParseJobs(u)
    OBVIOUS
  <1> DEFINE r == [req[h] EXCEPT !.pc = "deleting", !.taken = taken]
  <1>5. req[h] \in Req /\ ReqOK(req[h])
    BY DEF SetupInv, ReqsOK
  <1>6. taken \in SUBSET Nat
        /\ \A i \in taken : i \in DOMAIN jobs /\ jobs[i].kind = "parse" /\ jobs[i].of = u
    BY <1>4 DEF ParseJobs, SetupInv, JobsOK
  <1>7. r \in Req /\ r.pc = "deleting" /\ r.upload = u /\ r.taken = taken
    BY <1>3, <1>5, <1>6 DEF Req, ReqPcs
  <1>8. req' = [req EXCEPT ![h] = r]
    BY <1>3, <1>4 DEF DeleteJobs, Goto
  <1> HIDE DEF r
  <1>9. ReqOK(r)
    BY <1>3, <1>5, <1>6, <1>7 DEF ReqOK
  <1>10. ReqsOK'
    BY <1>1, <1>2, <1>3, <1>7, <1>8, <1>9, ReqMoves DEF SetupInv
  <1> QED
    BY <1>1, <1>2, <1>10, OnlyRequest

LEMMA LoseKeeps == ASSUME SetupInv, NEW h \in Handlers, Lose(h) PROVE SetupInv'
  <1>1. UNCHANGED <<resume, files, uploads, jobs, plans, tasks, requests, work>> /\ Done(h)
    BY DEF Lose
  <1>2. JobsKeep /\ ResumeStays
    BY <1>1, Untouched
  <1>3. faults' \in 0..MaxFaults
    BY Constants DEF Lose, SetupInv, CountsOK
  <1>4. ReqsOK'
    BY <1>1, <1>2, DoneMoves DEF SetupInv
  <1> QED
    BY <1>1, <1>3, <1>4, OnlyRequest

\* Only the tasks and the request of a handler change.
LEMMA TaskStep ==
    ASSUME SetupInv, NEW h \in Handlers, Done(h), TasksOK',
           UNCHANGED <<resume, files, uploads, jobs, plans, requests, work, faults>>
    PROVE  SetupInv'
  <1>1. JobsOK' /\ JobsKeep /\ ResumeStays /\ ResumeOK' /\ WorksOK'
    BY Untouched
  <1>2. ReqsOK'
    BY <1>1, DoneMoves DEF SetupInv
  <1>3. CountsOK' /\ PlansOK'
    BY DEF SetupInv, CountsOK, PlansOK
  <1> QED
    BY <1>1, <1>2, <1>3 DEF SetupInv

\* The task keeps its type when a member of its row is written.
LEMMA TaskWritten ==
    ASSUME TasksOK, NEW x, 1 \in DOMAIN tasks => x \in TaskRow,
           tasks' = [tasks EXCEPT ![1] = x]
    PROVE  TasksOK'
  <1>1. tasks \in Seq(TaskRow) /\ Len(tasks) <= 1 /\ DOMAIN tasks = 1..Len(tasks)
    BY DEF TasksOK
  <1>2. CASE 1 \in DOMAIN tasks
    <2>1. [tasks EXCEPT ![1] = x] \in Seq(TaskRow) /\ Len([tasks EXCEPT ![1] = x]) = Len(tasks)
      BY <1>1, <1>2, ExceptSeq
    <2> QED
      BY <1>1, <2>1 DEF TasksOK
  <1>3. CASE 1 \notin DOMAIN tasks
    <2>1. tasks' = tasks
      BY <1>1, <1>3
    <2> QED
      BY <2>1 DEF TasksOK
  <1> QED
    BY <1>2, <1>3

LEMMA InsertTaskKeeps == ASSUME SetupInv, NEW h \in Handlers, InsertTask(h) PROVE SetupInv'
  <1>1. TasksOK'
    <2>1. CASE tasks = <<>>
      <3> DEFINE x == [status |-> "pending", last |-> 0]
      <3>1. x \in TaskRow /\ tasks' = <<x>>
        BY <2>1 DEF InsertTask, TaskRow, TaskStatuses
      <3> HIDE DEF x
      <3>2. tasks' \in Seq(TaskRow) /\ Len(tasks') = 1
        BY <3>1
      <3> QED
        BY <3>2 DEF TasksOK
    <2>2. CASE tasks # <<>>
      BY <2>2 DEF InsertTask, SetupInv, TasksOK
    <2> QED
      BY <2>1, <2>2
  <1> QED
    BY <1>1, TaskStep DEF InsertTask

LEMMA WriteTaskKeeps == ASSUME SetupInv, NEW h \in Handlers, WriteTask(h) PROVE SetupInv'
  <1>1. req[h].status \in TaskStatuses
    BY DEF WriteTask, At, SetupInv, ReqsOK, ReqOK
  <1>2. PICK s \in TaskStatuses : s = req[h].status
    BY <1>1
  <1>3. tasks' = [tasks EXCEPT ![1].status = s]
    BY <1>2 DEF WriteTask
  <1> DEFINE x == [tasks[1] EXCEPT !.status = s]
  <1>4. 1 \in DOMAIN tasks => x \in TaskRow
    <2>1. 1 \in DOMAIN tasks => tasks[1] \in TaskRow
      BY DEF SetupInv, TasksOK
    <2> QED
      BY <2>1 DEF TaskRow
  <1>5. tasks' = [tasks EXCEPT ![1] = x]
    BY <1>3
  <1> HIDE DEF x
  <1>6. TasksOK'
    BY <1>4, <1>5, TaskWritten DEF SetupInv
  <1> QED
    BY <1>6, TaskStep DEF WriteTask

LEMMA UnlinkKeeps == ASSUME SetupInv, NEW h \in Handlers, Unlink(h) PROVE SetupInv'
  <1>1. PICK u : u = req[h].upload
    OBVIOUS
  <1>2. /\ UNCHANGED <<resume, uploads, jobs, plans, tasks, requests, work, faults>>
        /\ files' = files \ {u} /\ req' = [req EXCEPT ![h] = NoReq]
    BY <1>1 DEF Unlink, Done
  <1>3. req[h].pc = "unlink" /\ (resume = None \/ resume.upload # u)
    BY <1>1 DEF Unlink, At, SetupInv, ReqsOK, ReqOK
  <1>4. JobsOK' /\ JobsKeep /\ WorksOK'
    BY <1>2, JobsUntouched, WorksKept DEF SetupInv
  <1>5. ResumeOK'
    <2>1. SUFFICES ASSUME resume # None PROVE ResumeOK'
      BY <1>2 DEF ResumeOK
    <2>2. PICK v : v = resume.upload
      OBVIOUS
    <2>3. Backed(v) => Backed(v)'
      BY <1>2, <1>4, LiveUntouched, BackedKept
    <2>4. Backed(resume.upload)' <=> Backed(v)'
      BY <1>2, <2>2
    <2>5. resume.upload \in files'
      BY <1>2, <1>3, <2>1 DEF SetupInv, ResumeOK
    <2> QED
      BY <1>2, <2>1, <2>2, <2>3, <2>4, <2>5 DEF SetupInv, ResumeOK, ResumeRow
  <1>6. ReqsOK'
    <2>1. req' \in [Handlers -> Req] /\ req'[h] = NoReq /\ \A g \in Handlers : g # h => req'[g] = req[g]
      BY <1>2, NoReqType DEF SetupInv, ReqsOK
    <2>2. NoReq.pc = "idle" /\ NoReq.upload = 0
      BY DEF NoReq
    <2>3. ASSUME NEW g \in Handlers PROVE ReqOK(req[g])'
      <3>1. PICK x \in Req : x = req'[g]
        BY <2>1
      <3>2. CASE g = h
        <4>1. x.pc = "idle" /\ x.upload = 0
          BY <2>1, <2>2, <3>1, <3>2
        <4>2. ReqOK(x)'
          BY <1>2, <4>1, ResumeTypes DEF ReqOK
        <4> QED
          BY <3>1, <4>2
      <3>3. CASE g # h
        <4>1. ReqOK(x) /\ (x.pc = "written" => x.upload # u)
          BY <1>1, <2>1, <3>1, <3>3 DEF SetupInv, ReqsOK
        <4>2. x.pc = "written" => x.upload \in files'
          BY <1>2, <4>1 DEF ReqOK
        <4>3. ReqOK(x)'
          BY <1>2, <4>1, <4>2 DEF ReqOK
        <4> QED
          BY <3>1, <4>3
      <3> QED
        BY <3>2, <3>3
    <2>4. ASSUME NEW f \in Handlers, NEW g \in Handlers, f # g, req'[g].pc = "written"
          PROVE  req'[f].pc # "written" /\ req'[f].upload # req'[g].upload
      <3>1. g # h /\ req'[g] = req[g]
        BY <2>1, <2>2, <2>4
      <3>2. ReqOK(req[g]) /\ req[g].pc = "written"
        BY <2>4, <3>1 DEF SetupInv, ReqsOK
      <3>3. req[g].upload # 0
        <4>1. 0 \notin files
          BY Constants DEF SetupInv, CountsOK
        <4> QED
          BY <3>2, <4>1 DEF ReqOK
      <3> QED
        BY <2>1, <2>2, <2>4, <3>1, <3>3 DEF SetupInv, ReqsOK
    <2> QED
      BY <2>1, <2>3, <2>4 DEF ReqsOK
  <1>7. CountsOK' /\ TasksOK' /\ PlansOK'
    BY <1>2 DEF SetupInv, CountsOK, TasksOK, PlansOK
  <1> QED
    BY <1>4, <1>5, <1>6, <1>7 DEF SetupInv

LEMMA RequeueKeeps == ASSUME SetupInv, NEW h \in Handlers, Requeue(h) PROVE SetupInv'
  <1>1. UNCHANGED <<files, uploads, plans, tasks, requests, work, faults>> /\ Done(h)
    BY DEF Requeue
  <1>2. CASE UNCHANGED <<resume, jobs>>
    <2>1. JobsKeep /\ ResumeStays
      BY <1>1, <1>2, Untouched
    <2>2. ReqsOK'
      BY <1>1, <2>1, DoneMoves DEF SetupInv
    <2>3. faults' \in 0..MaxFaults
      BY <1>1 DEF SetupInv, CountsOK
    <2> QED
      BY <1>1, <1>2, <2>2, <2>3, OnlyRequest
  <1>3. CASE ~UNCHANGED <<resume, jobs>>
    <2>1. /\ resume # None /\ resume.upload = req[h].upload
          /\ resume' = [resume EXCEPT
                          !.status = IF req[h].status = "pending" THEN @ ELSE "pending",
                          !.version = req[h].version + 1]
          /\ jobs' = Append(jobs, NewJob("parse", req[h].upload, req[h].version + 1))
      BY <1>3 DEF Requeue
    <2>2. req[h] \in Req /\ req[h].version \in Nat
      BY DEF SetupInv, ReqsOK, Req
    <2>3. PICK n \in Nat : n = req[h].version + 1
      BY <2>2
    <2>4. PICK s : s = IF req[h].status = "pending" THEN resume.status ELSE "pending"
      OBVIOUS
    <2>5. PICK u \in Nat : u = resume.upload
      BY <2>1, ResumeTypes
    <2>6. resume \in ResumeRow /\ u \in files /\ (resume.status = "ready" => resume.parsed)
      BY <2>1, <2>5 DEF SetupInv, ResumeOK
    <2>7. resume' = [resume EXCEPT !.status = s, !.version = n]
      BY <2>1, <2>3, <2>4
    <2>8. /\ JobsOK' /\ JobsKeep
          /\ \A i \in DOMAIN jobs : jobs'[i] = jobs[i]
          /\ Len(jobs) + 1 \in DOMAIN jobs' /\ jobs'[Len(jobs) + 1] = NewJob("parse", u, n)
      BY <2>1, <2>3, <2>5, JobAdded DEF SetupInv
    <2>9. /\ resume'.upload = u /\ resume'.status = s
          /\ resume' \in ResumeRow /\ resume'.parsed = resume.parsed
      <3>1. s \in ResumeStatuses
        BY <2>4, <2>6 DEF ResumeRow, ResumeStatuses
      <3>2. resume' \in ResumeRow /\ resume'.upload = u /\ resume'.status = s
            /\ resume'.parsed = resume.parsed
        BY <2>5, <2>6, <2>7, <3>1 DEF ResumeRow
      <3> QED
        BY <3>2
    <2>10. ResumeStays
      BY <2>1, <2>5, <2>9 DEF ResumeStays
    <2>11. ReqsOK'
      BY <1>1, <2>8, <2>10, DoneMoves DEF SetupInv
    <2>12. ResumeOK'
      <3>1. Backed(u)'
        BY <2>8 DEF Backed, ParseJobs, Live, NewJob
      <3>2. Backed(resume.upload)' <=> Backed(u)'
        BY <2>9
      <3>3. s = "ready" => resume.parsed
        BY <2>4, <2>6
      <3> QED
        BY <1>1, <2>6, <2>9, <3>1, <3>2, <3>3 DEF ResumeOK, ResumeRow
    <2>13. WorksOK'
      <3>1. \A v \in Workers : work[v].pc # "idle" => work[v].job \in DOMAIN jobs
        BY DEF SetupInv, WorksOK, WorkOK
      <3> QED
        BY <1>1, <2>8, <3>1, WorksKept DEF SetupInv
    <2>14. CountsOK' /\ TasksOK' /\ PlansOK'
      BY <1>1 DEF SetupInv, CountsOK, TasksOK, PlansOK
    <2> QED
      BY <2>8, <2>11, <2>12, <2>13, <2>14 DEF SetupInv
  <1> QED
    BY <1>2, <1>3

LEMMA CommitPlanKeeps == ASSUME SetupInv, NEW h \in Handlers, CommitPlan(h) PROVE SetupInv'
  <1>1. UNCHANGED <<resume, files, uploads, tasks, requests, work, faults>> /\ Done(h)
    BY DEF CommitPlan
  <1>2. CASE UNCHANGED <<plans, jobs>>
    <2>1. JobsKeep /\ ResumeStays
      BY <1>1, <1>2, Untouched
    <2>2. ReqsOK'
      BY <1>1, <2>1, DoneMoves DEF SetupInv
    <2>3. faults' \in 0..MaxFaults
      BY <1>1 DEF SetupInv, CountsOK
    <2> QED
      BY <1>1, <1>2, <2>2, <2>3, OnlyRequest
  <1>3. CASE ~UNCHANGED <<plans, jobs>>
    <2> DEFINE x == [status |-> "draft", config |-> req[h].config, parsed |-> FALSE,
                     resume |-> IF req[h].upload = 0 THEN None ELSE req[h].upload,
                     questions |-> <<>>]
    <2>1. plans' = Append(plans, x) /\ jobs' = Append(jobs, NewJob("plan", Len(plans'), 0))
      BY <1>3 DEF CommitPlan
    <2>2. req[h].upload \in Nat /\ req[h].config \in PlanConfigs
      BY DEF CommitPlan, At, SetupInv, ReqsOK, ReqOK, Req
    <2>3. x \in PlanRow
      BY <2>2 DEF PlanRow, SomeQuestions
    <2> HIDE DEF x
    <2>4. plans' \in Seq(PlanRow) /\ Len(plans') \in Nat
      BY <2>1, <2>3 DEF SetupInv, PlansOK
    <2>5. /\ JobsOK' /\ JobsKeep
          /\ \A i \in DOMAIN jobs : jobs'[i] = jobs[i]
      BY <2>1, <2>4, JobAdded DEF SetupInv
    <2>6. ResumeStays
      BY <1>1 DEF ResumeStays
    <2>7. ReqsOK'
      BY <1>1, <2>5, <2>6, DoneMoves DEF SetupInv
    <2>8. ResumeOK'
      <3>1. resume # None => LiveKept(resume.upload)
        BY <2>5 DEF LiveKept, Live
      <3> QED
        BY <1>1, <2>5, <3>1, ResumeKept DEF SetupInv
    <2>9. WorksOK'
      <3>1. \A v \in Workers : work[v].pc # "idle" => work[v].job \in DOMAIN jobs
        BY DEF SetupInv, WorksOK, WorkOK
      <3> QED
        BY <1>1, <2>5, <3>1, WorksKept DEF SetupInv
    <2>10. CountsOK' /\ TasksOK' /\ PlansOK'
      BY <1>1, <2>4 DEF SetupInv, CountsOK, TasksOK, PlansOK
    <2> QED
      BY <2>5, <2>7, <2>8, <2>9, <2>10 DEF SetupInv
  <1> QED
    BY <1>2, <1>3

\* A plan's row is written.
LEMMA PlanWritten ==
    ASSUME PlansOK, NEW p, NEW x, p \in DOMAIN plans => x \in PlanRow,
           plans' = [plans EXCEPT ![p] = x]
    PROVE  PlansOK'
  <1>1. plans \in Seq(PlanRow) /\ DOMAIN plans = 1..Len(plans)
    BY DEF PlansOK
  <1>2. CASE p \in DOMAIN plans
    <2>1. [plans EXCEPT ![p] = x] \in Seq(PlanRow)
      BY <1>1, <1>2, ExceptSeq
    <2> QED
      BY <2>1 DEF PlansOK
  <1>3. CASE p \notin DOMAIN plans
    <2>1. plans' = plans
      BY <1>1, <1>3
    <2> QED
      BY <2>1 DEF PlansOK
  <1> QED
    BY <1>2, <1>3

LEMMA PlanTypes == ASSUME PlansOK, NEW p \in DOMAIN plans PROVE plans[p] \in PlanRow
  BY DEF PlansOK

LEMMA PlanStatusWritten ==
    ASSUME PlansOK, NEW p, NEW s \in {"draft", "ready", "frozen", "failed"},
           plans' = [plans EXCEPT ![p].status = s]
    PROVE  PlansOK'
  <1> DEFINE x == [plans[p] EXCEPT !.status = s]
  <1>1. p \in DOMAIN plans => x \in PlanRow
    BY PlanTypes DEF PlanRow
  <1>2. plans' = [plans EXCEPT ![p] = x]
    OBVIOUS
  <1> HIDE DEF x
  <1> QED
    BY <1>1, <1>2, PlanWritten

LEMMA CommitSessionKeeps == ASSUME SetupInv, NEW h \in Handlers, CommitSession(h) PROVE SetupInv'
  <1>1. UNCHANGED <<resume, files, uploads, jobs, requests, work, faults>> /\ Done(h)
    BY DEF CommitSession
  <1>2. JobsOK' /\ JobsKeep /\ ResumeStays /\ ResumeOK' /\ WorksOK'
    BY <1>1, Untouched
  <1>3. ReqsOK'
    BY <1>1, <1>2, DoneMoves DEF SetupInv
  <1>4. PlansOK'
    BY PlanStatusWritten DEF CommitSession, SetupInv
  <1>5. TasksOK'
    <2>1. CASE tasks' = tasks
      BY <2>1 DEF SetupInv, TasksOK
    <2>2. CASE tasks' = [tasks EXCEPT ![1].last = req[h].plan,
                                      ![1].status = IF req[h].status = "pending"
                                                    THEN "in progress" ELSE @]
      <3>1. PICK n \in Nat : n = req[h].plan
        BY DEF SetupInv, ReqsOK, Req
      <3>2. PICK s : s = IF req[h].status = "pending" THEN "in progress" ELSE tasks[1].status
        OBVIOUS
      <3> DEFINE x == [tasks[1] EXCEPT !.last = n, !.status = s]
      <3>3. 1 \in DOMAIN tasks => x \in TaskRow
        <4>1. 1 \in DOMAIN tasks => tasks[1] \in TaskRow
          BY DEF SetupInv, TasksOK
        <4> QED
          BY <3>2, <4>1 DEF TaskRow, TaskStatuses
      <3>4. CASE 1 \in DOMAIN tasks
        <4>1. tasks[1] \in TaskRow
          BY <3>4 DEF SetupInv, TasksOK
        <4>2. tasks' = [tasks EXCEPT ![1] = x]
          BY <2>2, <3>1, <3>2, <3>4, <4>1 DEF TaskRow
        <4> HIDE DEF x
        <4> QED
          BY <3>3, <4>2, TaskWritten DEF SetupInv
      <3>5. CASE 1 \notin DOMAIN tasks
        <4>1. tasks \in Seq(TaskRow) /\ DOMAIN tasks = 1..Len(tasks)
          BY DEF SetupInv, TasksOK
        <4>2. [tasks EXCEPT ![1].last = req[h].plan] = tasks
          BY <3>5, <4>1
        <4>3. PICK z : z = [tasks EXCEPT ![1].last = req[h].plan]
          OBVIOUS
        <4>4. tasks' = [z EXCEPT ![1].status = IF req[h].status = "pending"
                                               THEN "in progress" ELSE @]
          BY <2>2, <4>3
        <4>5. tasks' = tasks
          BY <3>5, <4>1, <4>2, <4>3, <4>4
        <4> QED
          BY <4>5 DEF SetupInv, TasksOK
      <3> QED
        BY <3>4, <3>5
    <2> QED
      BY <2>1, <2>2 DEF CommitSession
  <1>6. CountsOK'
    BY <1>1 DEF SetupInv, CountsOK
  <1> QED
    BY <1>2, <1>3, <1>4, <1>5, <1>6 DEF SetupInv

LEMMA CommitDeleteKeeps == ASSUME SetupInv, NEW h \in Handlers, CommitDelete(h) PROVE SetupInv'
  <1>1. PICK u \in Nat : u = req[h].upload
    BY DEF SetupInv, ReqsOK, Req
  <1>2. PICK taken : taken = req[h].taken
    OBVIOUS
  <1> DEFINE job(i) == IF i \in taken THEN [jobs[i] EXCEPT !.status = "gone"] ELSE jobs[i]
             plan(p) == IF plans[p].resume = u THEN [plans[p] EXCEPT !.resume = None] ELSE plans[p]
             r == [NoReq EXCEPT !.pc = "unlink", !.upload = u]
  <1>3. /\ jobs' = [i \in DOMAIN jobs |-> job(i)] /\ plans' = [p \in DOMAIN plans |-> plan(p)]
        /\ resume' = IF resume # None /\ resume.upload = u THEN None ELSE resume
        /\ req' = [req EXCEPT ![h] = r]
        /\ UNCHANGED <<files, uploads, tasks, requests, work, faults>>
    BY <1>1, <1>2 DEF CommitDelete, Goto
  <1>4. ReqOK(req[h]) /\ req[h].pc = "deleting"
    BY DEF CommitDelete, At, SetupInv, ReqsOK
  <1>5. \A i \in taken : i \in DOMAIN jobs /\ jobs[i].kind = "parse" /\ jobs[i].of = u
    BY <1>1, <1>2, <1>4 DEF ReqOK
  <1>6. \A i \in DOMAIN jobs : /\ jobs[i] \in JobRow /\ job(i) \in JobRow
                               /\ job(i).kind = jobs[i].kind /\ job(i).of = jobs[i].of
                               /\ job(i).attempts = jobs[i].attempts
                               /\ job(i).status \in {jobs[i].status, "gone"}
                               /\ i \notin taken => job(i) = jobs[i]
    <2> TAKE i \in DOMAIN jobs
    <2>1. jobs[i] \in JobRow
      BY JobTypes DEF SetupInv
    <2> QED
      BY <2>1 DEF JobRow
  <1>7. \A p \in DOMAIN plans : plan(p) \in PlanRow
    <2> TAKE p \in DOMAIN plans
    <2>1. plans[p] \in PlanRow
      BY PlanTypes DEF SetupInv
    <2> QED
      BY <2>1 DEF PlanRow
  <1>8. r \in Req /\ r.pc = "unlink" /\ r.upload = u
    BY DEF NoReq, Req, ReqPcs
  <1> HIDE DEF job, plan, r
  <1>9. /\ JobsOK' /\ JobsKeep /\ DOMAIN jobs' = DOMAIN jobs
        /\ \A i \in DOMAIN jobs : jobs'[i] = job(i)
    <2>1. jobs \in Seq(JobRow) /\ DOMAIN jobs = 1..Len(jobs) /\ Len(jobs) \in Nat
      BY DEF SetupInv, JobsOK
    <2>2. jobs' \in [1..Len(jobs) -> JobRow] /\ DOMAIN jobs' = DOMAIN jobs
          /\ \A i \in DOMAIN jobs : jobs'[i] = job(i)
      BY <1>3, <1>6, <2>1
    <2>3. jobs' \in Seq(JobRow)
      BY <2>1, <2>2, SeqDef
    <2>4. \A i \in DOMAIN jobs' : jobs'[i].status = "queued" => jobs'[i].attempts < MaxAttempts
      BY <1>6, <2>2 DEF SetupInv, JobsOK
    <2> QED
      BY <1>6, <2>2, <2>3, <2>4 DEF JobsOK, JobsKeep
  <1>10. PlansOK'
    <2>1. plans \in Seq(PlanRow) /\ DOMAIN plans = 1..Len(plans) /\ Len(plans) \in Nat
      BY DEF SetupInv, PlansOK
    <2>2. plans' \in [1..Len(plans) -> PlanRow]
      BY <1>3, <1>7, <2>1
    <2> QED
      BY <2>1, <2>2, SeqDef DEF PlansOK
  <1>11. WorksOK'
    <2>1. \A v \in Workers : work[v].pc # "idle" => work[v].job \in DOMAIN jobs
      BY DEF SetupInv, WorksOK, WorkOK
    <2> QED
      BY <1>3, <1>6, <1>9, <2>1, WorksKept DEF SetupInv
  <1>12. ResumeOK'
    <2>1. SUFFICES ASSUME resume' # None PROVE ResumeOK'
      BY DEF ResumeOK
    <2>2. resume' = resume /\ resume # None /\ resume.upload # u
      BY <1>3, <2>1
    <2>3. LiveKept(resume.upload)
      BY <1>5, <1>6, <1>9, <2>2 DEF LiveKept, Live
    <2> QED
      BY <1>3, <1>9, <2>2, <2>3, ResumeKept DEF SetupInv
  <1>13. ReqsOK'
    <2>1. req' \in [Handlers -> Req] /\ req'[h] = r /\ \A g \in Handlers : g # h => req'[g] = req[g]
      BY <1>3, <1>8 DEF SetupInv, ReqsOK
    <2>2. ASSUME NEW g \in Handlers PROVE ReqOK(req[g])'
      <3>1. PICK x \in Req : x = req'[g]
        BY <2>1
      <3>2. CASE g = h
        <4>1. x.pc = "unlink" /\ x.upload = u
          BY <1>8, <2>1, <3>1, <3>2
        <4>2. x.upload <= uploads' /\ (resume' = None \/ resume'.upload # u)
          BY <1>1, <1>3, <1>4, <4>1 DEF ReqOK
        <4>3. ReqOK(x)'
          BY <4>1, <4>2 DEF ReqOK
        <4> QED
          BY <3>1, <4>3
      <3>3. CASE g # h
        <4>1. ReqOK(x)
          BY <2>1, <3>1, <3>3 DEF SetupInv, ReqsOK
        <4>2. x.pc = "deleting" => \A i \in x.taken : /\ i \in DOMAIN jobs'
                                                      /\ jobs'[i].kind = "parse"
                                                      /\ jobs'[i].of = x.upload
          BY <1>9, <4>1 DEF ReqOK, JobsKeep
        <4>3. resume' = None \/ resume' = resume
          BY <1>3
        <4>4. ReqOK(x)'
          BY <1>3, <4>1, <4>2, <4>3 DEF ReqOK
        <4> QED
          BY <3>1, <4>4
      <3> QED
        BY <3>2, <3>3
    <2>3. ASSUME NEW f \in Handlers, NEW g \in Handlers, f # g, req'[g].pc = "written"
          PROVE  req'[f].pc # "written" /\ req'[f].upload # req'[g].upload
      <3>1. g # h /\ req'[g] = req[g]
        BY <1>8, <2>1, <2>3
      <3> QED
        BY <1>1, <1>8, <2>1, <2>3, <3>1 DEF SetupInv, ReqsOK
    <2> QED
      BY <2>1, <2>2, <2>3 DEF ReqsOK
  <1>14. CountsOK' /\ TasksOK'
    BY <1>3 DEF SetupInv, CountsOK, TasksOK
  <1> QED
    BY <1>9, <1>10, <1>11, <1>12, <1>13, <1>14 DEF SetupInv

-----------------------------------------------------------------------------
(* A worker goes on *)

\* What a worker's step has to keep.
LEMMA WorkerKeeps ==
    ASSUME SetupInv, JobsOK', JobsKeep, ResumeStays, PlansOK', WorksOK', ResumeOK',
           UNCHANGED <<files, uploads, tasks, requests, req>>, faults' \in 0..MaxFaults
    PROVE  SetupInv'
  <1>1. ReqsOK'
    BY ReqsUntouched DEF SetupInv
  <1>2. CountsOK' /\ TasksOK'
    BY DEF SetupInv, CountsOK, TasksOK
  <1> QED
    BY <1>1, <1>2 DEF SetupInv

LEMMA FreeType == Free \in Work /\ Free.pc = "idle" /\ Free.job = 0
  BY DEF Free, Work

LEMMA FreeMoves ==
    ASSUME WorksOK, JobsOK', JobsKeep, NEW w \in Workers, work' = [work EXCEPT ![w] = Free],
           JobsLeft(w)
    PROVE  WorksOK'
  <1>1. PICK x \in Work : x = Free
    BY FreeType
  <1>2. x.pc = "idle" /\ x.job = 0
    BY <1>1, FreeType
  <1>3. WorkOK(x)'
    BY <1>2 DEF WorkOK
  <1> QED
    BY <1>1, <1>2, <1>3, WorkMoves

\* A worker that changes its own job leaves the others theirs.
LEMMA OthersLeft ==
    ASSUME WorksOK, NEW w \in Workers, work[w].pc # "idle",
           \A j \in DOMAIN jobs : j # work[w].job => jobs'[j] = jobs[j]
    PROVE  JobsLeft(w)
  BY DEF WorksOK, WorkOK, JobsLeft

LEMMA ClaimKeeps == ASSUME SetupInv, NEW w \in Workers, Claim(w) PROVE SetupInv'
  <1>1. UNCHANGED <<resume, files, uploads, plans, tasks, requests, req, faults>>
        /\ work[w].pc = "idle"
    BY DEF Claim
  <1>2. PICK i \in DOMAIN jobs :
          /\ Claimable(i)
          /\ jobs' = [jobs EXCEPT ![i].status = "running", ![i].attempts = @ + 1]
          /\ work' = [work EXCEPT ![w] = [Free EXCEPT !.pc = jobs[i].kind, !.job = i]]
    BY DEF Claim
  <1>3. jobs[i] \in JobRow /\ i \in Nat /\ i # 0 /\ jobs[i].status = "queued"
        /\ jobs[i].attempts < MaxAttempts
    BY <1>2, JobTypes DEF SetupInv, JobsOK, Claimable
  <1> DEFINE y == [jobs[i] EXCEPT !.status = "running", !.attempts = @ + 1]
             x == [Free EXCEPT !.pc = jobs[i].kind, !.job = i]
  <1>4. y \in JobRow /\ y.status = "running" /\ y.kind = jobs[i].kind /\ y.of = jobs[i].of
    <2>1. jobs[i].attempts \in Nat /\ jobs[i].attempts + 1 \in 0..MaxAttempts
      BY <1>3, Constants DEF JobRow
    <2> QED
      BY <1>3, <2>1 DEF JobRow
  <1>5. x \in Work /\ x.pc = jobs[i].kind /\ x.job = i /\ x.pc \in {"parse", "plan"}
    BY <1>3 DEF JobRow, Free, Work
  <1>6. jobs' = [jobs EXCEPT ![i] = y]
    BY <1>2, <1>3 DEF JobRow
  <1>7. work' = [work EXCEPT ![w] = x]
    BY <1>2
  <1> HIDE DEF x, y
  <1>8. /\ jobs' \in Seq(JobRow) /\ DOMAIN jobs' = DOMAIN jobs /\ jobs'[i] = y
        /\ \A j \in DOMAIN jobs : j # i => jobs'[j] = jobs[j]
    BY <1>4, <1>6 DEF SetupInv, JobsOK
  <1>9. JobsOK' /\ JobsKeep
    BY <1>4, <1>8 DEF SetupInv, JobsOK, JobsKeep
  <1>10. ResumeStays /\ PlansOK' /\ faults' \in 0..MaxFaults
    BY <1>1 DEF ResumeStays, SetupInv, PlansOK, CountsOK
  <1>11. ResumeOK'
    <2>1. resume # None => LiveKept(resume.upload)
      BY <1>4, <1>8 DEF LiveKept, Live
    <2> QED
      BY <1>1, <1>9, <2>1, ResumeKept DEF SetupInv
  <1>12. work' \in [Workers -> Work] /\ work'[w] = x /\ \A v \in Workers : v # w => work'[v] = work[v]
    BY <1>5, <1>7 DEF SetupInv, WorksOK
  <1>13. \A v \in Workers : work[v].pc # "idle" => work[v].job # i
    BY <1>3 DEF SetupInv, WorksOK, WorkOK
  <1>14. ASSUME NEW v \in Workers PROVE WorkOK(work[v])'
    <2>1. CASE v = w
      <3>1. work'[v] = x
        BY <1>12, <2>1
      <3>2. jobs'[i].status = "running" /\ jobs'[i].kind = jobs[i].kind /\ i \in DOMAIN jobs'
        BY <1>4, <1>8
      <3> QED
        BY <1>5, <3>1, <3>2 DEF WorkOK
    <2>2. CASE v # w
      <3>1. work'[v] = work[v] /\ WorkOK(work[v])
        BY <1>12, <2>2 DEF SetupInv, WorksOK
      <3> QED
        BY <1>8, <1>13, <3>1 DEF WorkOK
    <2> QED
      BY <2>1, <2>2
  <1>15. ASSUME NEW u \in Workers, NEW v \in Workers, u # v, work'[v].pc # "idle"
         PROVE  work'[u].job # work'[v].job
    <2>1. \A z \in Workers : work[z].job # i
      BY <1>3, <1>13 DEF SetupInv, WorksOK, WorkOK
    <2>2. CASE v = w
      BY <1>5, <1>12, <1>15, <2>1, <2>2
    <2>3. CASE v # w
      BY <1>5, <1>12, <1>13, <1>15, <2>3 DEF SetupInv, WorksOK
    <2> QED
      BY <2>2, <2>3
  <1>16. WorksOK'
    BY <1>12, <1>14, <1>15 DEF WorksOK
  <1> QED
    BY <1>1, <1>9, <1>10, <1>11, <1>16, WorkerKeeps

\* An attempt that fails is tried again, or the job, its resume and its plan are
\* marked as failed.
LEMMA FailKeeps ==
    ASSUME SetupInv, NEW w \in Workers, NEW retryable \in BOOLEAN, work[w].pc # "idle",
           Fail(w, retryable), faults' \in 0..MaxFaults
    PROVE  SetupInv'
  <1>1. UNCHANGED <<files, uploads, tasks, requests, req>> /\ work' = [work EXCEPT ![w] = Free]
    BY DEF Fail
  <1>2. PICK i \in DOMAIN jobs : i = work[w].job
    BY DEF SetupInv, WorksOK, WorkOK
  <1>3. jobs[i] \in JobRow /\ jobs[i].status \in {"running", "gone"} /\ Job(w) = jobs[i]
    BY <1>2, WorkTypes DEF SetupInv, Job
  <1>4. CASE jobs[i].status = "gone"
    <2>1. UNCHANGED <<resume, jobs, plans>>
      BY <1>3, <1>4 DEF Fail
    <2>2. JobsOK' /\ JobsKeep
      BY <2>1, JobsUntouched DEF SetupInv
    <2>3. ResumeOK' /\ ResumeStays /\ PlansOK'
      BY <1>1, <2>1, <2>2, ResumeKept, LiveUntouched DEF ResumeStays, SetupInv, PlansOK
    <2>4. WorksOK'
      BY <1>1, <2>1, <2>2, OthersLeft, FreeMoves DEF SetupInv
    <2> QED
      BY <1>1, <2>2, <2>3, <2>4, WorkerKeeps
  <1>5. CASE jobs[i].status # "gone"
    <2> DEFINE again == retryable /\ jobs[i].attempts < MaxAttempts
               s == IF again THEN "queued" ELSE "failed"
               mine == jobs[i].kind = "parse" /\ resume # None /\ resume.upload = jobs[i].of
    <2>1. /\ jobs' = [jobs EXCEPT ![i].status = s]
          /\ resume' = IF mine THEN [resume EXCEPT !.status = IF again THEN "pending" ELSE "failed",
                                                   !.version = @ + 1]
                       ELSE resume
          /\ plans' = IF jobs[i].kind = "plan" /\ ~again
                      THEN [plans EXCEPT ![jobs[i].of].status = "failed"] ELSE plans
      BY <1>2, <1>3, <1>5 DEF Fail, HasResume, Job
    <2>2. s \in {"queued", "failed"} /\ (s = "queued" => again) /\ (again => s = "queued")
      OBVIOUS
    <2>3. again => jobs[i].attempts < MaxAttempts
      OBVIOUS
    <2> HIDE DEF again, s
    <2>4. /\ JobsOK' /\ JobsKeep /\ DOMAIN jobs' = DOMAIN jobs
          /\ \A j \in DOMAIN jobs : j # i => jobs'[j] = jobs[j]
          /\ jobs'[i].status = s
      BY <2>1, <2>2, <2>3, JobMoves DEF SetupInv
    <2>5. PlansOK'
      <3>1. CASE plans' = plans
        BY <3>1 DEF SetupInv, PlansOK
      <3>2. CASE plans' = [plans EXCEPT ![jobs[i].of].status = "failed"]
        BY <3>2, PlanStatusWritten DEF SetupInv
      <3> QED
        BY <2>1, <3>1, <3>2
    <2>6. WorksOK'
      BY <1>1, <1>2, <2>4, OthersLeft, FreeMoves DEF SetupInv
    <2>7. ResumeOK' /\ ResumeStays
      <3>1. CASE mine
        <4>1. PICK u \in Nat : u = resume.upload
          BY <3>1, ResumeTypes
        <4>2. resume \in ResumeRow /\ u \in files
          BY <3>1, <4>1 DEF SetupInv, ResumeOK
        <4>3. PICK t \in {"pending", "failed"} : t = IF again THEN "pending" ELSE "failed"
          OBVIOUS
        <4>0. PICK n \in Nat : n = resume.version + 1
          BY <3>1, ResumeTypes
        <4>4. resume' = [resume EXCEPT !.status = t, !.version = n]
          BY <2>1, <3>1, <4>0, <4>2, <4>3 DEF ResumeRow
        <4>5. resume' \in ResumeRow /\ resume'.upload = u /\ resume'.status = t
          BY <4>1, <4>2, <4>4 DEF ResumeRow, ResumeStatuses
        <4>6. t = "pending" => Backed(u)'
          <5>1. SUFFICES ASSUME t = "pending" PROVE Backed(u)'
            OBVIOUS
          <5>2. jobs'[i].status = "queued"
            BY <2>2, <2>4, <4>3, <5>1
          <5>3. i \in DOMAIN jobs' /\ jobs'[i].kind = "parse" /\ jobs'[i].of = u
            BY <2>4, <3>1, <4>1 DEF JobsKeep
          <5> QED
            BY <5>2, <5>3 DEF Backed, ParseJobs, Live
        <4>7. Backed(resume.upload)' <=> Backed(u)'
          BY <4>5
        <4>8. ResumeOK'
          BY <1>1, <4>2, <4>5, <4>6, <4>7 DEF ResumeOK, ResumeRow
        <4>9. ResumeStays
          BY <3>1, <4>1, <4>5 DEF ResumeStays
        <4> QED
          BY <4>8, <4>9
      <3>2. CASE ~mine
        <4>1. resume' = resume
          BY <2>1, <3>2
        <4>2. resume # None => LiveKept(resume.upload)
          BY <2>4, <3>2 DEF LiveKept, Live
        <4> QED
          BY <1>1, <2>4, <4>1, <4>2, ResumeKept DEF ResumeStays, SetupInv
      <3> QED
        BY <3>1, <3>2
    <2> QED
      BY <1>1, <2>4, <2>5, <2>6, <2>7, WorkerKeeps
  <1> QED
    BY <1>4, <1>5

LEMMA BeginParseKeeps == ASSUME SetupInv, NEW w \in Workers, BeginParse(w) PROVE SetupInv'
  <1>1. work[w].pc = "parse"
    BY DEF BeginParse
  <1>2. PICK i \in DOMAIN jobs : i = work[w].job
    BY <1>1 DEF SetupInv, WorksOK, WorkOK
  <1>3. jobs[i] \in JobRow /\ jobs[i].status \in {"running", "gone"} /\ Job(w) = jobs[i]
        /\ jobs[i].kind = "parse"
    BY <1>1, <1>2, WorkTypes DEF SetupInv, Job
  <1>4. CASE /\ work' = [work EXCEPT ![w] = Free]
             /\ UNCHANGED <<resume, files, uploads, jobs, plans, tasks, requests, req, faults>>
    <2>1. JobsOK' /\ JobsKeep
      BY <1>4, JobsUntouched DEF SetupInv
    <2>2. ResumeOK' /\ ResumeStays /\ PlansOK' /\ faults' \in 0..MaxFaults
      BY <1>4, <2>1, ResumeKept, LiveUntouched DEF ResumeStays, SetupInv, PlansOK, CountsOK
    <2>3. WorksOK'
      BY <1>1, <1>4, <2>1, OthersLeft, FreeMoves DEF SetupInv
    <2> QED
      BY <1>4, <2>1, <2>2, <2>3, WorkerKeeps
  <1>5. CASE Fail(w, FALSE) /\ UNCHANGED faults
    <2>1. faults' \in 0..MaxFaults
      BY <1>5 DEF SetupInv, CountsOK
    <2> QED
      BY <1>1, <1>5, <2>1, FailKeeps
  <1>6. CASE /\ jobs[i].status # "gone" /\ HasResume(w)
             /\ resume' = [resume EXCEPT !.status = "parsing", !.version = @ + 1]
             /\ work' = [work EXCEPT ![w].pc = "parsing", ![w].version = resume.version + 1]
             /\ UNCHANGED <<files, uploads, jobs, plans, tasks, requests, req, faults>>
    <2>1. resume # None /\ resume.upload = jobs[i].of /\ resume \in ResumeRow
      BY <1>3, <1>6 DEF HasResume, SetupInv, ResumeOK
    <2>2. PICK u \in Nat : u = resume.upload
      BY <2>1, ResumeTypes
    <2>3. PICK n \in Nat : n = resume.version + 1
      BY <2>1, ResumeTypes
    <2>4. resume' = [resume EXCEPT !.status = "parsing", !.version = n]
      BY <1>6, <2>1, <2>3 DEF ResumeRow
    <2>5. resume' \in ResumeRow /\ resume'.upload = u /\ resume'.status = "parsing"
      BY <2>1, <2>2, <2>4 DEF ResumeRow, ResumeStatuses
    <2>6. JobsOK' /\ JobsKeep
      BY <1>6, JobsUntouched DEF SetupInv
    <2>7. Backed(u)'
      BY <1>3, <1>6, <2>1, <2>2 DEF Backed, ParseJobs, Live
    <2>8. Backed(resume.upload)' <=> Backed(u)'
      BY <2>5
    <2>9. ResumeOK'
      BY <1>6, <2>1, <2>2, <2>5, <2>7, <2>8 DEF SetupInv, ResumeOK, ResumeRow
    <2>10. ResumeStays /\ PlansOK' /\ faults' \in 0..MaxFaults
      BY <1>6, <2>1, <2>2, <2>5 DEF ResumeStays, SetupInv, PlansOK, CountsOK
    <2>16. PICK x : x = [work[w] EXCEPT !.pc = "parsing", !.version = n]
      OBVIOUS
    <2>11. x \in Work /\ x.pc = "parsing" /\ x.job = i
      BY <1>2, <2>16, WorkTypes DEF SetupInv, Work
    <2>12. work' = [work EXCEPT ![w] = x]
      BY <1>6, <2>3, <2>16, WorkTypes DEF SetupInv, WorksOK, Work
    <2>13. WorkOK(x)'
      BY <1>3, <1>6, <2>11 DEF WorkOK
    <2>14. JobsLeft(w)
      BY <1>6 DEF JobsLeft
    <2>15. WorksOK'
      BY <1>1, <1>2, <2>6, <2>11, <2>12, <2>13, <2>14, WorkMoves DEF SetupInv
    <2> QED
      BY <1>6, <2>6, <2>9, <2>10, <2>15, WorkerKeeps
  <1> QED
    BY <1>3, <1>4, <1>5, <1>6 DEF BeginParse

\* A worker's job is completed, and the worker is free.
LEMMA JobCompletes ==
    ASSUME SetupInv, NEW w \in Workers, work[w].pc # "idle",
           jobs' = [jobs EXCEPT ![work[w].job].status = "completed"],
           work' = [work EXCEPT ![w] = Free]
    PROVE  /\ JobsOK' /\ JobsKeep /\ WorksOK'
           /\ \A j \in DOMAIN jobs : j # work[w].job => jobs'[j] = jobs[j]
  <1>1. PICK i \in DOMAIN jobs : i = work[w].job
    BY DEF SetupInv, WorksOK, WorkOK
  <1>2. /\ JobsOK' /\ JobsKeep
        /\ \A j \in DOMAIN jobs : j # i => jobs'[j] = jobs[j]
    BY <1>1, JobMoves DEF SetupInv
  <1>3. WorksOK'
    BY <1>1, <1>2, OthersLeft, FreeMoves DEF SetupInv
  <1> QED
    BY <1>1, <1>2, <1>3

LEMMA FinishParseKeeps == ASSUME SetupInv, NEW w \in Workers, FinishParse(w) PROVE SetupInv'
  <1>1. /\ work[w].pc = "parsing" /\ HasResume(w)
        /\ resume' = [resume EXCEPT !.status = "ready", !.parsed = TRUE,
                                    !.version = work[w].version + 1]
        /\ jobs' = [jobs EXCEPT ![work[w].job].status = "completed"]
        /\ work' = [work EXCEPT ![w] = Free]
        /\ UNCHANGED <<files, uploads, plans, tasks, requests, req, faults>>
    BY DEF FinishParse
  <1>2. JobsOK' /\ JobsKeep /\ WorksOK'
    BY <1>1, JobCompletes
  <1>3. resume # None /\ resume \in ResumeRow
    BY <1>1 DEF HasResume, SetupInv, ResumeOK
  <1>4. PICK n \in Nat : n = work[w].version + 1
    <2>1. work[w].version \in Nat
      BY WorkTypes DEF SetupInv, Work
    <2> QED
      BY <2>1
  <1>5. /\ resume' \in ResumeRow /\ resume'.upload = resume.upload
        /\ resume'.status = "ready" /\ resume'.parsed = TRUE
    BY <1>1, <1>3, <1>4 DEF ResumeRow, ResumeStatuses
  <1>6. ResumeOK' /\ ResumeStays
    BY <1>1, <1>3, <1>5 DEF SetupInv, ResumeOK, ResumeRow, ResumeStays
  <1>7. PlansOK' /\ faults' \in 0..MaxFaults
    BY <1>1 DEF SetupInv, PlansOK, CountsOK
  <1> QED
    BY <1>1, <1>2, <1>6, <1>7, WorkerKeeps

LEMMA FailParseKeeps == ASSUME SetupInv, NEW w \in Workers, FailParse(w) PROVE SetupInv'
  <1>1. work[w].pc = "parsing"
    BY DEF FailParse
  <1>2. faults' \in 0..MaxFaults
    BY Constants DEF FailParse, SetupInv, CountsOK
  <1>3. PICK retryable \in BOOLEAN : Fail(w, retryable)
    BY DEF FailParse
  <1> QED
    BY <1>1, <1>2, <1>3, FailKeeps

LEMMA FailPlanKeeps == ASSUME SetupInv, NEW w \in Workers, FailPlan(w) PROVE SetupInv'
  <1>1. work[w].pc # "idle"
    BY DEF FailPlan
  <1>2. faults' \in 0..MaxFaults
    BY Constants DEF FailPlan, SetupInv, CountsOK
  <1>3. PICK retryable \in BOOLEAN : Fail(w, retryable)
    BY DEF FailPlan
  <1> QED
    BY <1>1, <1>2, <1>3, FailKeeps

LEMMA RejectPlanKeeps == ASSUME SetupInv, NEW w \in Workers, RejectPlan(w) PROVE SetupInv'
  <1>1. work[w].pc # "idle" /\ Fail(w, TRUE)
    BY DEF RejectPlan
  <1>2. faults' \in 0..MaxFaults
    BY DEF RejectPlan, SetupInv, CountsOK
  <1> QED
    BY <1>1, <1>2, FailKeeps

LEMMA CollectPoolKeeps == ASSUME SetupInv, NEW w \in Workers, CollectPool(w) PROVE SetupInv'
  <1>1. work[w].pc = "plan"
        /\ UNCHANGED <<resume, files, uploads, jobs, plans, tasks, requests, req, faults>>
    BY DEF CollectPool
  <1>2. PICK b \in BOOLEAN : work' = [work EXCEPT ![w].pc = "planning", ![w].parsed = b]
    <2>1. (plans[Job(w).of].resume # None /\ resume.parsed) \in BOOLEAN
      OBVIOUS
    <2> QED
      BY <2>1 DEF CollectPool
  <1>10. PICK x : x = [work[w] EXCEPT !.pc = "planning", !.parsed = b]
    OBVIOUS
  <1>3. x \in Work /\ x.pc = "planning" /\ x.job = work[w].job
    BY <1>10, WorkTypes DEF SetupInv, Work
  <1>4. work' = [work EXCEPT ![w] = x]
    BY <1>2, <1>10, WorkTypes DEF SetupInv, WorksOK, Work
  <1>5. JobsOK' /\ JobsKeep
    BY <1>1, JobsUntouched DEF SetupInv
  <1>6. ResumeOK' /\ ResumeStays /\ PlansOK' /\ faults' \in 0..MaxFaults
    BY <1>1, <1>5, ResumeKept, LiveUntouched DEF ResumeStays, SetupInv, PlansOK, CountsOK
  <1>7. WorkOK(x)'
    BY <1>1, <1>3 DEF SetupInv, WorksOK, WorkOK
  <1>8. JobsLeft(w)
    BY <1>1 DEF JobsLeft
  <1>9. WorksOK'
    BY <1>1, <1>3, <1>4, <1>5, <1>7, <1>8, WorkMoves DEF SetupInv
  <1> QED
    BY <1>1, <1>5, <1>6, <1>9, WorkerKeeps

\* The questions a worker writes are an arrangement of some candidates that fits its schema.
LEMMA QuestionsWritten ==
    ASSUME NEW w \in Workers, FinishPlan(w), work[w].parsed \in BOOLEAN
    PROVE  \E questions :
             /\ plans[Job(w).of].config \in PlanConfigs => questions \in SomeQuestions
             /\ plans' = [plans EXCEPT ![Job(w).of].status = "ready",
                                      ![Job(w).of].parsed = work[w].parsed,
                                      ![Job(w).of].questions = questions]
  <1>1. PICK questions \in Accepted[plans[Job(w).of].config][work[w].parsed] :
          plans' = [plans EXCEPT ![Job(w).of].status = "ready",
                                 ![Job(w).of].parsed = work[w].parsed,
                                 ![Job(w).of].questions = questions]
    BY Zenon DEF FinishPlan
  <1>2. ASSUME NEW c \in PlanConfigs, NEW b \in BOOLEAN PROVE Accepted[c][b] \subseteq SomeQuestions
    <2>1. Accepted[c][b] \subseteq QuestionsFor(c)
      BY Zenon DEF QuestionsFor
    <2>2. QuestionsFor(c) \subseteq SomeQuestions
      BY DEF SomeQuestions
    <2> QED
      BY <2>1, <2>2, Zenon
  <1>3. plans[Job(w).of].config \in PlanConfigs => questions \in SomeQuestions
    BY <1>1, <1>2, Zenon
  <1> QED
    BY <1>1, <1>3, Zenon

LEMMA FinishPlanKeeps == ASSUME SetupInv, NEW w \in Workers, FinishPlan(w) PROVE SetupInv'
  <1>1. /\ work[w].pc = "planning"
        /\ jobs' = [jobs EXCEPT ![work[w].job].status = "completed"]
        /\ work' = [work EXCEPT ![w] = Free]
        /\ UNCHANGED <<resume, files, uploads, tasks, requests, req, faults>>
    BY DEF FinishPlan
  <1>2. PICK i \in DOMAIN jobs : i = work[w].job
    BY <1>1 DEF SetupInv, WorksOK, WorkOK
  <1>3. jobs[i].kind = "plan" /\ Job(w) = jobs[i]
    BY <1>1, <1>2, WorkTypes DEF SetupInv, Job
  <1>4. /\ JobsOK' /\ JobsKeep /\ WorksOK'
        /\ \A j \in DOMAIN jobs : j # i => jobs'[j] = jobs[j]
    BY <1>1, <1>2, JobCompletes
  <1>5. ResumeOK'
    <2>1. resume # None => LiveKept(resume.upload)
      BY <1>3, <1>4 DEF LiveKept, Live
    <2> QED
      BY <1>1, <1>4, <2>1, ResumeKept DEF SetupInv
  <1>6. PlansOK'
    <2>1. PICK p : p = Job(w).of
      OBVIOUS
    <2>2. PICK b \in BOOLEAN : b = work[w].parsed
      BY WorkTypes DEF SetupInv, Work
    <2>6. PICK questions :
            /\ plans[Job(w).of].config \in PlanConfigs => questions \in SomeQuestions
            /\ plans' = [plans EXCEPT ![Job(w).of].status = "ready",
                                     ![Job(w).of].parsed = work[w].parsed,
                                     ![Job(w).of].questions = questions]
      BY <2>2, QuestionsWritten
    <2>3. /\ plans[p].config \in PlanConfigs => questions \in SomeQuestions
          /\ plans' = [plans EXCEPT ![p].status = "ready", ![p].parsed = b,
                                   ![p].questions = questions]
      BY <2>1, <2>2, <2>6
    <2> DEFINE x == [plans[p] EXCEPT !.status = "ready", !.parsed = b, !.questions = questions]
    <2>4. CASE p \in DOMAIN plans
      <3>1. plans[p] \in PlanRow /\ plans[p].config \in PlanConfigs
        BY <2>4, PlanTypes DEF SetupInv, PlanRow
      <3>2. questions \in SomeQuestions
        BY <2>3, <3>1
      <3>3. x \in PlanRow
        BY <3>1, <3>2 DEF PlanRow
      <3>4. plans' = [plans EXCEPT ![p] = x]
        BY <2>3, <2>4, <3>1 DEF SetupInv, PlansOK, PlanRow
      <3> HIDE DEF x
      <3> QED
        BY <3>3, <3>4, PlanWritten DEF SetupInv
    <2>5. CASE p \notin DOMAIN plans
      <3>1. plans \in Seq(PlanRow) /\ DOMAIN plans = 1..Len(plans)
        BY DEF SetupInv, PlansOK
      <3>2. \A y : [plans EXCEPT ![p] = y] = plans
        BY <2>5, <3>1
      <3>3. PICK y : y = [plans EXCEPT ![p].status = "ready"]
        OBVIOUS
      <3>4. PICK z : z = [y EXCEPT ![p].parsed = b]
        OBVIOUS
      <3>5. y = plans
        BY <3>2, <3>3
      <3>6. z = plans
        BY <3>2, <3>4, <3>5
      <3>7. plans' = [z EXCEPT ![p].questions = questions]
        BY <2>3, <3>3, <3>4
      <3>8. plans' = plans
        BY <3>2, <3>6, <3>7
      <3> QED
        BY <3>8 DEF SetupInv, PlansOK
    <2> QED
      BY <2>4, <2>5
  <1>7. ResumeStays /\ faults' \in 0..MaxFaults
    BY <1>1 DEF ResumeStays, SetupInv, CountsOK
  <1> QED
    BY <1>1, <1>4, <1>5, <1>6, <1>7, WorkerKeeps

LEMMA KillKeeps == ASSUME SetupInv, NEW w \in Workers, Kill(w) PROVE SetupInv'
  <1>1. UNCHANGED <<resume, files, uploads, jobs, plans, tasks, requests, req>>
        /\ work' = [work EXCEPT ![w] = Free]
    BY DEF Kill
  <1>2. faults' \in 0..MaxFaults
    BY Constants DEF Kill, SetupInv, CountsOK
  <1>3. JobsOK' /\ JobsKeep
    BY <1>1, JobsUntouched DEF SetupInv
  <1>4. ResumeOK' /\ ResumeStays /\ PlansOK'
    BY <1>1, <1>3, ResumeKept, LiveUntouched DEF ResumeStays, SetupInv, PlansOK
  <1>5. JobsLeft(w)
    BY <1>1 DEF JobsLeft
  <1>6. WorksOK'
    BY <1>1, <1>3, <1>5, FreeMoves DEF SetupInv
  <1> QED
    BY <1>1, <1>2, <1>3, <1>4, <1>6, WorkerKeeps

-----------------------------------------------------------------------------
(* The specification *)

LEMMA InitSetupInv == ASSUME Init PROVE SetupInv
  <1>1. JobsOK /\ PlansOK /\ TasksOK /\ ResumeOK
    BY DEF Init, JobsOK, PlansOK, TasksOK, ResumeOK
  <1>2. CountsOK
    BY Constants DEF Init, CountsOK
  <1>3. ReqsOK
    <2>1. NoReq.pc = "idle" /\ NoReq.upload = 0
      BY DEF NoReq
    <2>2. ReqOK(NoReq)
      BY <2>1 DEF ReqOK, Init
    <2> QED
      BY <2>1, <2>2, NoReqType DEF Init, ReqsOK
  <1>4. WorksOK
    <2>1. WorkOK(Free)
      BY FreeType DEF WorkOK
    <2> QED
      BY <2>1, FreeType DEF Init, WorksOK
  <1> QED
    BY <1>1, <1>2, <1>3, <1>4 DEF SetupInv

LEMMA StutterKeeps == ASSUME SetupInv, UNCHANGED vars PROVE SetupInv'
  <1>1. UNCHANGED <<resume, files, uploads, jobs, plans, tasks, requests, req, work, faults>>
    BY DEF vars
  <1>2. JobsOK' /\ JobsKeep /\ ResumeStays /\ ResumeOK' /\ WorksOK'
    BY <1>1, Untouched
  <1>3. PlansOK' /\ faults' \in 0..MaxFaults
    BY <1>1 DEF SetupInv, PlansOK, CountsOK
  <1> QED
    BY <1>1, <1>2, <1>3, WorkerKeeps

LEMMA StepSetupInv == ASSUME SetupInv, [Next]_vars PROVE SetupInv'
  <1>1. ASSUME NEW h \in Handlers, Begin(h) PROVE SetupInv'
    BY <1>1, BeginKeeps
  <1>2. ASSUME NEW h \in Handlers, HandlerStep(h) PROVE SetupInv'
    BY <1>2, WriteUploadKeeps, CommitUploadKeeps, LookAtJobKeeps, RequeueKeeps, DeleteJobsKeeps,
       CommitDeleteKeeps, UnlinkKeeps, InsertTaskKeeps, WriteTaskKeeps, CommitPlanKeeps,
       CommitSessionKeeps DEF HandlerStep
  <1>3. ASSUME NEW h \in Handlers, Lose(h) PROVE SetupInv'
    BY <1>3, LoseKeeps
  <1>4. ASSUME NEW w \in Workers, WorkerStep(w) PROVE SetupInv'
    BY <1>4, ClaimKeeps, BeginParseKeeps, FinishParseKeeps, FailParseKeeps, CollectPoolKeeps,
       FinishPlanKeeps, RejectPlanKeeps, FailPlanKeeps DEF WorkerStep
  <1>5. ASSUME NEW w \in Workers, Kill(w) PROVE SetupInv'
    BY <1>5, KillKeeps
  <1>6. CASE UNCHANGED vars
    BY <1>6, StutterKeeps
  <1> QED
    BY <1>1, <1>2, <1>3, <1>4, <1>5, <1>6 DEF Next

LEMMA SetupInvariant == Spec => []SetupInv
  <1>1. Init => SetupInv
    BY InitSetupInv
  <1>2. SetupInv /\ [Next]_vars => SetupInv'
    BY StepSetupInv
  <1> QED
    BY <1>1, <1>2, PTL DEF Spec

LEMMA ImpliesBacked == ASSUME SetupInv PROVE ResumeIsBacked
  <1>1. resume # None => resume \in [upload: 1..uploads, parsed: BOOLEAN, version: Nat,
                                    status: {"pending", "parsing", "ready", "failed"}]
    BY DEF SetupInv, ResumeOK, ResumeRow, ResumeStatuses
  <1>2. \A i \in DOMAIN jobs : jobs[i] \in JobRow
    BY JobTypes DEF SetupInv
  <1>3. \A p \in DOMAIN plans : plans[p].status \in {"draft", "ready", "frozen", "failed"}
    BY PlanTypes DEF SetupInv, PlanRow
  <1>4. \A t \in DOMAIN tasks : tasks[t].status \in {"pending", "in progress", "completed", "dismissed"}
    <2>1. \A t \in DOMAIN tasks : tasks[t] \in TaskRow
      BY DEF SetupInv, TasksOK
    <2> QED
      BY <2>1 DEF TaskRow, TaskStatuses
  <1>5. \A w \in Workers : work[w].job \in {0} \cup DOMAIN jobs
    BY DEF SetupInv, WorksOK, WorkOK
  <1>6. TypeOK
    BY <1>1, <1>2, <1>3, <1>4, <1>5 DEF TypeOK, JobRow, SetupInv, CountsOK
  <1> QED
    BY <1>6 DEF SetupInv, ResumeOK, Backed, ResumeIsBacked

\* The row of a resume has its file, and a resume that waits for its parser has a
\* job that is queued or claimed: for any number of uploads, retries and deletions
\* at once, and with lost requests and killed workers between any two steps.
THEOREM SetupResumeIsBacked == Spec => []ResumeIsBacked
  <1>1. SetupInv => ResumeIsBacked
    BY ImpliesBacked
  <1> QED
    BY <1>1, SetupInvariant, PTL

-----------------------------------------------------------------------------
(* Induction, and sums over finite sets *)

\* A set of finite sets has a smallest one: what induction over finite sets comes to.
LEMMA SmallestSet ==
    ASSUME NEW D, IsFiniteSet(D), NEW T \in SUBSET SUBSET D, T # {}
    PROVE  \E x \in T : \A y \in T : y \subseteq x => y = x
  <1>1. IsWellFoundedOn(StrictSubsetOrdering(D), FiniteSubsetsOf(D))
    BY FS_StrictSubsetOrderingWellFounded
  <1>2. FiniteSubsetsOf(D) = SUBSET D
    BY FS_FiniteSubsetsOfFinite
  <1>3. PICK x \in T : \A y \in T : ~ (<<y, x>> \in StrictSubsetOrdering(D))
    BY <1>1, <1>2, WFMin
  <1> QED
    BY <1>3 DEF StrictSubsetOrdering

\* A sum is the only function of subsets that adds its elements one by one.
Adds(H, F, D) ==
    /\ H \in [SUBSET D -> Int]
    /\ H[{}] = 0
    /\ \A S \in SUBSET D : \A x \in S : H[S] = F[x] + H[S \ {x}]

\* So that the library's fold, which picks its elements one at a time, is that function.
LEMMA SumIs ==
    ASSUME NEW D, IsFiniteSet(D), NEW F, NEW H, Adds(H, F, D)
    PROVE  SumFunctionOnSet(F, D) = H[D]
  <1>0. /\ H \in [SUBSET D -> Int] /\ H[{}] = 0
        /\ \A S \in SUBSET D : \A x \in S : H[S] = F[x] + H[S \ {x}]
    BY DEF Adds
  <1> DEFINE Add(g) == [S \in SUBSET D |-> IF S = {} THEN 0
                         ELSE F[CHOOSE x \in S : TRUE] + g[S \ {CHOOSE x \in S : TRUE}]]
             Iter == CHOOSE g : g = Add(g)
  <1>1. H = Add(H)
    <2>1. \A S \in SUBSET D : S # {} => (CHOOSE x \in S : TRUE) \in S
      OBVIOUS
    <2>2. \A S \in SUBSET D : H[S] = Add(H)[S]
      BY <2>1, <1>0
    <2> HIDE DEF Add
    <2>3. Add(H) = [S \in SUBSET D |-> Add(H)[S]]
      BY DEF Add
    <2> QED
      BY <2>2, <2>3, <1>0
  <1>2. Iter = Add(Iter)
    <2> HIDE DEF Add
    <2> QED
      BY <1>1
  <1>3. SumFunctionOnSet(F, D) = Iter[D]
    BY DEF SumFunctionOnSet, FoldFunctionOnSet, MapThenFoldSet
  <1> HIDE DEF Iter
  <1>4. \A S \in SUBSET D : Iter[S] = IF S = {} THEN 0
                         ELSE F[CHOOSE x \in S : TRUE] + Iter[S \ {CHOOSE x \in S : TRUE}]
    BY <1>2
  <1> DEFINE Wrong == {S \in SUBSET D : Iter[S] # H[S]}
  <1>5. ASSUME Wrong # {} PROVE FALSE
    <2>0. Wrong \in SUBSET SUBSET D
      OBVIOUS
    <2>1. PICK S \in Wrong : \A y \in Wrong : y \subseteq S => y = S
      <3> HIDE DEF Wrong
      <3> QED
        BY <1>5, <2>0, SmallestSet
    <2>2. S # {}
      BY <1>4, <1>0
    <2> DEFINE c == CHOOSE x \in S : TRUE
    <2>3. c \in S
      BY <2>2
    <2>4. Iter[S \ {c}] = H[S \ {c}]
      <3>1. S \ {c} \in SUBSET D /\ S \ {c} \subseteq S /\ S \ {c} # S
        BY <2>1, <2>3
      <3>2. S \ {c} \notin Wrong
        <4> HIDE DEF Wrong, c
        <4> QED
          BY <2>1, <3>1
      <3> QED
        BY <3>1, <3>2
    <2>5. Iter[S] = F[c] + Iter[S \ {c}]
      BY <1>4, <2>2
    <2>6. H[S] = F[c] + H[S \ {c}]
      BY <2>3, <1>0
    <2> QED
      BY <2>4, <2>5, <2>6
  <1> QED
    BY <1>3, <1>5

-----------------------------------------------------------------------------
(* Sums over the four sources *)

\* There are four sources, which Sources lists once each.
LEMMA FourSources ==
    /\ SourceSet = {"manual", "link_import", "resume", "generated"}
    /\ IsFiniteSet(SourceSet)
    /\ DOMAIN Sources = 1..4 /\ Sources[1] = "manual" /\ Sources[2] = "link_import"
    /\ Sources[3] = "resume" /\ Sources[4] = "generated"
    /\ \A s \in SourceSet : Position(s) \in 1..4 /\ Sources[Position(s)] = s
  <1>1. /\ DOMAIN Sources = 1..4 /\ Sources[1] = "manual" /\ Sources[2] = "link_import"
        /\ Sources[3] = "resume" /\ Sources[4] = "generated"
    BY DEF Sources
  <1>2. SourceSet = {Sources[1], Sources[2], Sources[3], Sources[4]}
    BY <1>1 DEF SourceSet
  <1>3. IsFiniteSet({"manual", "link_import", "resume", "generated"})
    <2>1. IsFiniteSet({"manual"})
      BY FS_Singleton
    <2>2. IsFiniteSet({"manual"} \cup {"link_import"})
      BY <2>1, FS_AddElement
    <2>3. IsFiniteSet(({"manual"} \cup {"link_import"}) \cup {"resume"})
      BY <2>2, FS_AddElement
    <2>4. IsFiniteSet((({"manual"} \cup {"link_import"}) \cup {"resume"}) \cup {"generated"})
      BY <2>3, FS_AddElement
    <2>5. (({"manual"} \cup {"link_import"}) \cup {"resume"}) \cup {"generated"}
            = {"manual", "link_import", "resume", "generated"}
      OBVIOUS
    <2> QED
      BY <2>4, <2>5
  <1>4. \A s \in SourceSet : \E i \in DOMAIN Sources : Sources[i] = s
    BY DEF SourceSet
  <1>5. \A s \in SourceSet : Position(s) \in 1..4 /\ Sources[Position(s)] = s
    BY <1>1, <1>4 DEF Position
  <1> QED
    BY <1>1, <1>2, <1>3, <1>5

\* What a sum over the sources adds up.
LEMMA SumOfFour ==
    ASSUME NEW F \in [SourceSet -> Int]
    PROVE  SumFunctionOnSet(F, SourceSet)
             = F["manual"] + F["link_import"] + F["resume"] + F["generated"]
  <1> DEFINE Of(s, S) == IF s \in S THEN F[s] ELSE 0
             H == [S \in SUBSET SourceSet |->
                     Of("manual", S) + Of("link_import", S) + Of("resume", S) + Of("generated", S)]
  <1>1. H[{}] = 0
    OBVIOUS
  <1>2. ASSUME NEW S \in SUBSET SourceSet, NEW x \in S PROVE H[S] = F[x] + H[S \ {x}]
    <2>1. \A s \in SourceSet : Of(s, S) = Of(s, S \ {x}) + (IF s = x THEN F[x] ELSE 0)
      OBVIOUS
    <2>2. \A s \in SourceSet : Of(s, S \ {x}) \in Int /\ F[x] \in Int
      OBVIOUS
    <2>3. x \in {"manual", "link_import", "resume", "generated"}
      BY FourSources
    <2>4. S \ {x} \in SUBSET SourceSet
      OBVIOUS
    <2> HIDE DEF Of
    <2> QED
      BY <2>1, <2>2, <2>3, <2>4, FourSources
  <1>3. H \in [SUBSET SourceSet -> Int]
    OBVIOUS
  <1>4. SumFunctionOnSet(F, SourceSet) = H[SourceSet]
    <2>1. \A S \in SUBSET SourceSet : \A x \in S : H[S] = F[x] + H[S \ {x}]
      BY <1>2
    <2>2. IsFiniteSet(SourceSet)
      BY FourSources
    <2> HIDE DEF H
    <2>3. Adds(H, F, SourceSet)
      BY <1>1, <1>3, <2>1 DEF Adds
    <2> QED
      BY <2>2, <2>3, SumIs
  <1> QED
    BY <1>4, FourSources

-----------------------------------------------------------------------------
(* Small things *)

\* The smaller and the larger of two.
LEMMA MinOfTwo ==
    ASSUME NEW a \in Int, NEW b \in Int PROVE Min({a, b}) = IF a <= b THEN a ELSE b
  <1>1. \A x \in {a, b} : (\A y \in {a, b} : x <= y) => x = IF a <= b THEN a ELSE b
    OBVIOUS
  <1>2. \E x \in {a, b} : \A y \in {a, b} : x <= y
    OBVIOUS
  <1> QED
    BY <1>1, <1>2 DEF Min

LEMMA MaxOfTwo ==
    ASSUME NEW a \in Int, NEW b \in Int PROVE Max({a, b}) = IF a >= b THEN a ELSE b
  <1>1. \A x \in {a, b} : (\A y \in {a, b} : x >= y) => x = IF a >= b THEN a ELSE b
    OBVIOUS
  <1>2. \E x \in {a, b} : \A y \in {a, b} : x >= y
    OBVIOUS
  <1> QED
    BY <1>1, <1>2 DEF Max

\* At most so many from the front.
LEMMA FirstOfIs ==
    ASSUME NEW S, NEW s \in Seq(S), NEW n \in Nat
    PROVE  /\ FirstOf(s, n) \in Seq(S)
           /\ Len(FirstOf(s, n)) = IF n <= Len(s) THEN n ELSE Len(s)
           /\ \A i \in DOMAIN FirstOf(s, n) : i \in DOMAIN s /\ FirstOf(s, n)[i] = s[i]
  <1>1. Min({n, Len(s)}) = IF n <= Len(s) THEN n ELSE Len(s)
    BY MinOfTwo
  <1> DEFINE m == IF n <= Len(s) THEN n ELSE Len(s)
  <1>2. m \in 0..Len(s) /\ FirstOf(s, n) = SubSeq(s, 1, m)
    <2>1. Len(s) \in Nat /\ m \in 0..Len(s)
      OBVIOUS
    <2>2. FirstOf(s, n) = SubSeq(s, 1, Min({n, Len(s)}))
      BY DEF FirstOf
    <2>3. Min({n, Len(s)}) = m
      BY <1>1
    <2> HIDE DEF m
    <2> QED
      BY <2>1, <2>2, <2>3
  <1> HIDE DEF m
  <1>3. SubSeq(s, 1, m) \in Seq(S) /\ Len(SubSeq(s, 1, m)) = m
        /\ \A i \in 1..m : SubSeq(s, 1, m)[i] = s[i]
    BY <1>2
  <1>4. DOMAIN SubSeq(s, 1, m) = 1..m /\ DOMAIN s = 1..Len(s) /\ Len(s) \in Nat
    BY <1>3
  <1> QED
    BY <1>2, <1>3, <1>4 DEF m

\* No element twice.
Distinct(s) == \A i, j \in DOMAIN s : s[i] = s[j] => i = j

\* Without repetition, places count elements.
LEMMA DistinctCount ==
    ASSUME NEW S, NEW s \in Seq(S), Distinct(s), NEW T
    PROVE  /\ IsFiniteSet(ToSet(s)) /\ IsFiniteSet(ToSet(s) \cap T)
           /\ Cardinality(ToSet(s)) = Len(s)
           /\ IsFiniteSet({i \in DOMAIN s : s[i] \in T})
           /\ Cardinality({i \in DOMAIN s : s[i] \in T}) = Cardinality(ToSet(s) \cap T)
  <1>1. DOMAIN s = 1..Len(s) /\ Len(s) \in Nat
    OBVIOUS
  <1>2. IsFiniteSet(DOMAIN s) /\ Cardinality(DOMAIN s) = Len(s)
    BY <1>1, FS_Interval
  <1>3. ASSUME NEW U
        PROVE  /\ IsFiniteSet({i \in DOMAIN s : s[i] \in U}) /\ IsFiniteSet(ToSet(s) \cap U)
               /\ Cardinality({i \in DOMAIN s : s[i] \in U}) = Cardinality(ToSet(s) \cap U)
    <2> DEFINE D == {i \in DOMAIN s : s[i] \in U}
               f == [i \in D |-> s[i]]
    <2>1. IsFiniteSet(D)
      BY <1>2, FS_Subset
    <2>2. f \in Bijection(D, ToSet(s) \cap U)
      BY DEF Bijection, Injection, Surjection, IsInjective, ToSet, Distinct
    <2>3. ExistsBijection(D, ToSet(s) \cap U)
      BY <2>2 DEF ExistsBijection
    <2> HIDE DEF D
    <2>4. IsFiniteSet(ToSet(s) \cap U) /\ Cardinality(ToSet(s) \cap U) = Cardinality(D)
      BY <2>1, <2>3, FS_Bijection
    <2> QED
      BY <2>1, <2>4 DEF D
  <1>4. {i \in DOMAIN s : s[i] \in ToSet(s)} = DOMAIN s /\ ToSet(s) \cap ToSet(s) = ToSet(s)
    BY DEF ToSet
  <1> QED
    BY <1>2, <1>3, <1>4

-----------------------------------------------------------------------------
(* The quotas *)

\* What induction over the natural numbers comes to.
LEMMA SmallestNat ==
    ASSUME NEW T \in SUBSET Nat, T # {}
    PROVE  \E x \in T : \A y \in T : x <= y
  <1>1. PICK x \in T : \A y \in T : ~ (<<y, x>> \in OpToRel(<, Nat))
    BY NatLessThanWellFounded, WFMin
  <1>2. \A y \in T : ~ (y < x)
    BY <1>1 DEF OpToRel
  <1> QED
    BY <1>2

\* Quotient and remainder.
LEMMA Divided ==
    ASSUME NEW a \in Nat, NEW n \in Nat \ {0}
    PROVE  /\ a \div n \in Nat /\ a % n \in 0..(n - 1)
           /\ a = n * (a \div n) + (a % n)
           /\ n * (a \div n) <= a
  OBVIOUS

\* A common factor is cancelled.
LEMMA Cancelled ==
    ASSUME NEW a \in Nat, NEW b \in Nat, NEW n \in Nat \ {0}, n * a <= n * b
    PROVE  a <= b
  <1>1. SUFFICES ASSUME a >= b + 1 PROVE FALSE
    OBVIOUS
  <1>2. n * a >= n * (b + 1)
    BY <1>1
  <1>3. n * (b + 1) = n * b + n
    OBVIOUS
  <1> QED
    BY <1>2, <1>3

\* The four summands.
Four(F) == F["manual"] + F["link_import"] + F["resume"] + F["generated"]

\* Shares are whole numbers.
LEMMA ShareTypes ==
    ASSUME NEW target \in Nat, NEW weights \in [SourceSet -> Nat], TotalWeight(weights) > 0,
           NEW s \in SourceSet
    PROVE  LeastShare(s, target, weights) \in Nat
  <1>1. PICK n \in Nat : n = target * weights[s]
    OBVIOUS
  <1>2. TotalWeight(weights) = Four(weights)
    BY SumOfFour DEF TotalWeight, Four
  <1>3. TotalWeight(weights) \in Nat \ {0}
    BY <1>2, FourSources DEF Four
  <1>4. Exact(s, target, weights) \in Nat
    BY <1>1, <1>3, Divided DEF Exact
  <1> QED
    BY <1>4 DEF LeastShare

\* What the sources are due is no more than the target, and no less than their shares
\* after rounding.
LEMMA SharesFit ==
    ASSUME NEW target \in Nat, NEW weights \in [SourceSet -> Nat], TotalWeight(weights) > 0,
           NEW due \in Due(target, weights)
    PROVE  /\ due \in [SourceSet -> Nat]
           /\ Four(due) \in 0..target
           /\ \A s \in SourceSet : /\ LeastShare(s, target, weights) \in Nat
                                   /\ due[s] >= LeastShare(s, target, weights)
  <1> DEFINE W == TotalWeight(weights)
             n(s) == target * weights[s]
             exact(s) == Exact(s, target, weights)
             least(s) == LeastShare(s, target, weights)
  <1>1. W = Four(weights)
    BY SumOfFour DEF TotalWeight, Four
  <1>2. \A s \in SourceSet : weights[s] \in Nat /\ n(s) \in Nat
    OBVIOUS
  <1>3. W \in Nat \ {0}
    BY <1>1, <1>2, FourSources DEF Four
  <1>4. \A s \in SourceSet : exact(s) = n(s) \div W
    BY DEF Exact
  <1> HIDE DEF W
  <1>5. \A s \in SourceSet : exact(s) \in Nat /\ W * exact(s) <= n(s)
    <2> TAKE s \in SourceSet
    <2>1. PICK a \in Nat : a = n(s)
      BY <1>2
    <2>2. a \div W \in Nat /\ W * (a \div W) <= a
      BY <1>3, Divided
    <2> QED
      BY <1>4, <2>1, <2>2
  <1>6. \A s \in SourceSet : least(s) = exact(s) \/ (exact(s) > 0 /\ least(s) = exact(s) - 1)
    BY DEF LeastShare
  <1>7. \A s \in SourceSet : due[s] \in least(s)..exact(s)
    BY DEF Due, Shares
  <1> HIDE DEF exact, least
  <1>8. \A s \in SourceSet : least(s) \in Nat /\ due[s] \in Nat /\ least(s) <= due[s] /\ due[s] <= exact(s)
    BY <1>5, <1>6, <1>7
  <1>9. \A s \in SourceSet : W * due[s] \in Nat /\ W * due[s] <= n(s)
    <2> TAKE s \in SourceSet
    <2>1. PICK d \in Nat, e \in Nat : d = due[s] /\ e = exact(s) /\ d <= e
      BY <1>5, <1>8
    <2>2. PICK c \in Nat : e = d + c
      <3>1. e - d \in Nat /\ e = d + (e - d)
        BY <2>1
      <3> QED
        BY <3>1
    <2>3. W * e = W * d + W * c /\ W * d \in Nat /\ W * c \in Nat
      BY <1>3, <2>2
    <2>4. W * e <= n(s)
      BY <1>5, <2>1
    <2> HIDE DEF n
    <2> QED
      BY <1>2, <2>1, <2>3, <2>4
  <1>10. due \in [SourceSet -> Nat]
    BY <1>8 DEF Due
  <1>11. Four(due) \in Nat
    BY <1>10, FourSources DEF Four
  <1>12. n("manual") + n("link_import") + n("resume") + n("generated") = W * target
    <2>1. \A a, b, c, d \in Nat :
            target * a + target * b + target * c + target * d = (a + b + c + d) * target
      OBVIOUS
    <2> QED
      BY <1>1, <1>2, <2>1, FourSources DEF Four
  <1>13. W * Four(due) <= W * target
    <2>1. \A a, b, c, d \in Nat : W * (a + b + c + d) = W * a + W * b + W * c + W * d
      BY <1>3
    <2>2. W * Four(due) = W * due["manual"] + W * due["link_import"] + W * due["resume"]
                          + W * due["generated"]
      <3>1. PICK a \in Nat, b \in Nat, c \in Nat, d \in Nat :
              a = due["manual"] /\ b = due["link_import"] /\ c = due["resume"] /\ d = due["generated"]
        BY <1>8, FourSources
      <3>2. W * (a + b + c + d) = W * a + W * b + W * c + W * d
        BY <2>1
      <3> QED
        BY <3>1, <3>2 DEF Four
    <2> HIDE DEF n
    <2> QED
      BY <1>2, <1>9, <1>12, <2>2, FourSources
  <1>14. Four(due) <= target
    BY <1>3, <1>11, <1>13, Cancelled
  <1> QED
    BY <1>8, <1>10, <1>11, <1>14 DEF least

\* One more place goes to some source, until there are as many as the target.
LEMMA PlaceGiven ==
    ASSUME NEW target \in Nat, NEW weights, NEW q \in [SourceSet -> Nat],
           NEW r \in WithPlace(q, target, weights)
    PROVE  /\ r \in [SourceSet -> Nat]
           /\ IF Four(q) < target THEN Four(r) = Four(q) + 1 ELSE r = q
           /\ \A s \in SourceSet : r[s] >= q[s]
  <1>1. SumFunctionOnSet(q, SourceSet) = Four(q)
    BY SumOfFour DEF Four
  <1>2. CASE Four(q) < target
    <2>1. PICK h \in SourceSet : r = [q EXCEPT ![h] = q[h] + 1]
      BY <1>1, <1>2 DEF WithPlace, Hungriest
    <2> QED
      BY <1>2, <2>1, FourSources DEF Four
  <1>3. CASE ~ (Four(q) < target)
    BY <1>1, <1>3 DEF WithPlace
  <1> QED
    BY <1>2, <1>3

\* The quotas add up to the target and give every source its share at least: by the
\* first of the places given out after which they would not.
LEMMA QuotasAre ==
    ASSUME NEW target \in Nat, NEW weights \in [SourceSet -> Nat], TotalWeight(weights) > 0,
           NEW quotas \in Quotas(target, weights)
    PROVE  /\ quotas \in [SourceSet -> Nat]
           /\ Four(quotas) = target
           /\ \A s \in SourceSet : quotas[s] >= LeastShare(s, target, weights)
  <1> DEFINE due == Due(target, weights)
             More(Qs) == UNION {WithPlace(q, target, weights) : q \in Qs}
             Given(g) == [n \in 0..target |-> IF n = 0 THEN due ELSE More(g[n - 1])]
             given == CHOOSE g : g = Given(g)
             Q == SUBSET [SourceSet -> Nat]
             Least(s) == LeastShare(s, target, weights)
  <1>1. Quotas(target, weights) = given[target]
    BY DEF Quotas
  <1>2. /\ due \in Q
        /\ \A q \in due : /\ Four(q) \in 0..target
                          /\ \A s \in SourceSet : q[s] >= Least(s)
        /\ \A q \in due : \A s \in SourceSet : Least(s) \in Nat
    BY SharesFit
  <1>3. \A Qs \in Q : /\ More(Qs) \in Q
                      /\ \A r \in More(Qs) : \E q \in Qs :
                           /\ r \in [SourceSet -> Nat]
                           /\ IF Four(q) < target THEN Four(r) = Four(q) + 1 ELSE r = q
                           /\ \A s \in SourceSet : r[s] >= q[s]
    <2> TAKE Qs \in Q
    <2>1. ASSUME NEW r \in More(Qs)
          PROVE  \E q \in Qs : /\ r \in [SourceSet -> Nat]
                               /\ IF Four(q) < target THEN Four(r) = Four(q) + 1 ELSE r = q
                               /\ \A s \in SourceSet : r[s] >= q[s]
      <3>1. PICK q \in Qs : r \in WithPlace(q, target, weights)
        OBVIOUS
      <3>2. q \in [SourceSet -> Nat]
        OBVIOUS
      <3>3. /\ r \in [SourceSet -> Nat]
            /\ IF Four(q) < target THEN Four(r) = Four(q) + 1 ELSE r = q
            /\ \A s \in SourceSet : r[s] >= q[s]
        BY <3>1, <3>2, PlaceGiven
      <3> QED
        BY <3>3
    <2> HIDE DEF More
    <2> QED
      BY <2>1
  <1> HIDE DEF due, More, Q
  \* There is such a function, whatever the number of steps.
  <1> DEFINE Ok(n, g) == /\ g \in [0..n -> Q] /\ g[0] = due
                         /\ \A k \in 1..n : g[k] = More(g[k - 1])
             None0 == {n \in Nat : ~ \E g : Ok(n, g)}
  <1>5. ASSUME None0 # {} PROVE FALSE
    <2>1. PICK n \in None0 : \A m \in None0 : n <= m
      <3>1. None0 \in SUBSET Nat
        OBVIOUS
      <3> HIDE DEF None0
      <3> QED
        BY <1>5, <3>1, SmallestNat
    <2>2. CASE n = 0
      <3>1. Ok(0, [k \in 0..0 |-> due])
        BY <1>2
      <3> QED
        BY <2>1, <2>2, <3>1
    <2>3. CASE n # 0
      <3>1. n - 1 \in Nat /\ n - 1 \notin None0
        <4>1. n \in Nat /\ n - 1 \in Nat
          BY <2>3
        <4> HIDE DEF None0
        <4> QED
          BY <2>1, <4>1
      <3>2. PICK g : Ok(n - 1, g)
        BY <3>1
      <3> DEFINE f == [k \in 0..n |-> IF k = n THEN More(g[n - 1]) ELSE g[k]]
      <3>3. g[n - 1] \in Q
        BY <3>1, <3>2
      <3>4. f \in [0..n -> Q] /\ f[0] = due
        BY <1>3, <2>3, <3>1, <3>2, <3>3
      <3>5. \A k \in 1..n : f[k] = More(f[k - 1])
        BY <3>1, <3>2
      <3>6. Ok(n, f)
        BY <3>4, <3>5
      <3> QED
        BY <2>1, <3>6
    <2> QED
      BY <2>2, <2>3
  <1>6. PICK g : Ok(target, g)
    BY <1>2, <1>5
  <1>7. g = Given(g)
    <2>1. \A n \in 0..target : g[n] = Given(g)[n]
      BY <1>2, <1>6
    <2>2. DOMAIN Given(g) = 0..target
      OBVIOUS
    <2>3. g = [n \in 0..target |-> g[n]]
      BY <1>6
    <2>4. Given(g) = [n \in 0..target |-> Given(g)[n]]
      OBVIOUS
    <2> HIDE DEF Given
    <2> QED
      BY <2>1, <2>3, <2>4
  <1>8. given = Given(given)
    <2> HIDE DEF Given
    <2> QED
      BY <1>7
  <1> HIDE DEF given
  <1>9. given[0] = due /\ \A n \in 1..target : given[n] = More(given[n - 1])
    BY <1>8
  <1> DEFINE Fine(n) == /\ given[n] \in Q
                        /\ \A q \in given[n] : /\ Four(q) \in n..target
                                               /\ \A s \in SourceSet : q[s] >= Least(s)
             Bad == {n \in 0..target : ~ Fine(n)}
  <1>10. ASSUME Bad # {} PROVE FALSE
    <2>1. PICK n \in Bad : \A m \in Bad : n <= m
      <3>1. Bad \in SUBSET Nat
        OBVIOUS
      <3> HIDE DEF Bad
      <3> QED
        BY <1>10, <3>1, SmallestNat
    <2>2. n # 0
      BY <1>2, <1>9, <2>1
    <2>3. n - 1 \in 0..target /\ n - 1 \notin Bad /\ n \in 1..target
      BY <2>1, <2>2
    <2>4. Fine(n - 1)
      BY <2>3
    <2>5. given[n] = More(given[n - 1])
      BY <1>9, <2>3
    <2>6. given[n] \in Q
      BY <1>3, <2>4, <2>5
    <2>7. ASSUME NEW r \in given[n]
          PROVE  Four(r) \in n..target /\ \A s \in SourceSet : r[s] >= Least(s)
      <3>1. PICK q \in given[n - 1] :
              /\ r \in [SourceSet -> Nat]
              /\ IF Four(q) < target THEN Four(r) = Four(q) + 1 ELSE r = q
              /\ \A s \in SourceSet : r[s] >= q[s]
        BY <1>3, <2>4, <2>5, <2>7
      <3>2. Four(q) \in (n - 1)..target /\ \A s \in SourceSet : q[s] >= Least(s)
        BY <2>4
      <3>3. q \in [SourceSet -> Nat]
        BY <2>4 DEF Q
      <3>4. \A s \in SourceSet : r[s] \in Nat /\ q[s] \in Nat /\ Least(s) \in Int
        BY <3>1, <3>3, ShareTypes
      <3>5. Four(r) \in n..target
        BY <2>3, <3>1, <3>2
      <3> HIDE DEF Least
      <3>6. \A s \in SourceSet : r[s] >= Least(s)
        BY <3>1, <3>2, <3>4
      <3> QED
        BY <3>5, <3>6
    <2>8. Fine(n)
      BY <2>6, <2>7
    <2> QED
      BY <2>1, <2>8
  <1>11. Fine(target)
    BY <1>10
  <1> QED
    BY <1>1, <1>11 DEF Q

-----------------------------------------------------------------------------
(* The order of the candidates *)

\* Candidates are told apart by their keys.
AreCandidates(C) ==
    /\ IsFiniteSet(C)
    /\ \A c \in C : c.rank \in Int /\ c.used \in Int /\ c.source \in SourceSet /\ c.key \in Int
    /\ \A c, d \in C : c.key = d.key => c = d

\* Candidates are compared by rank, use, source and key, in this order.
LEMMA BeforeIs ==
    ASSUME NEW C, AreCandidates(C), NEW c \in C, NEW d \in C
    PROVE  Before(c, d) <=>
              \/ c.rank < d.rank
              \/ /\ c.rank = d.rank
                 /\ \/ c.used < d.used
                    \/ /\ c.used = d.used
                       /\ \/ Position(c.source) < Position(d.source)
                          \/ /\ Position(c.source) = Position(d.source)
                             /\ c.key < d.key
  <1> DEFINE x == SortKey(c)
             y == SortKey(d)
  <1>1. /\ x[1] = c.rank /\ x[2] = c.used /\ x[3] = Position(c.source) /\ x[4] = c.key
        /\ y[1] = d.rank /\ y[2] = d.used /\ y[3] = Position(d.source) /\ y[4] = d.key
    BY DEF SortKey
  <1>2. Before(c, d) <=> \E i \in 1..4 : x[i] < y[i] /\ \A j \in 1..(i - 1) : x[j] = y[j]
    BY DEF Before
  <1> HIDE DEF x, y
  <1>3. (\E i \in 1..4 : x[i] < y[i] /\ \A j \in 1..(i - 1) : x[j] = y[j])
        <=> \/ x[1] < y[1]
            \/ x[2] < y[2] /\ x[1] = y[1]
            \/ x[3] < y[3] /\ x[1] = y[1] /\ x[2] = y[2]
            \/ x[4] < y[4] /\ x[1] = y[1] /\ x[2] = y[2] /\ x[3] = y[3]
    OBVIOUS
  <1> QED
    BY <1>1, <1>2, <1>3

\* It is a strict order of all the candidates, which their keys tell apart.
LEMMA BeforeOrders ==
    ASSUME NEW C, AreCandidates(C)
    PROVE  /\ \A c \in C : ~ Before(c, c)
           /\ \A c, d \in C : c # d => Before(c, d) \/ Before(d, c)
           /\ \A c, d, e \in C : Before(c, d) /\ Before(d, e) => Before(c, e)
  <1>1. \A c \in C : /\ c.rank \in Int /\ c.used \in Int /\ c.key \in Int
                     /\ Position(c.source) \in Int
    BY FourSources DEF AreCandidates
  <1>2. \A c, d \in C : c # d => c.key # d.key
    BY DEF AreCandidates
  <1>3. \A c \in C : ~ Before(c, c)
    BY <1>1, BeforeIs
  <1>4. \A c, d \in C : c # d => Before(c, d) \/ Before(d, c)
    BY <1>1, <1>2, BeforeIs
  <1>5. \A c, d, e \in C : Before(c, d) /\ Before(d, e) => Before(c, e)
    BY <1>1, BeforeIs
  <1> QED
    BY <1>3, <1>4, <1>5

\* The candidates in their order: each once.
LEMMA InOrderIs ==
    ASSUME NEW C, AreCandidates(C)
    PROVE  /\ InOrder(C) \in Seq(C) /\ Distinct(InOrder(C)) /\ ToSet(InOrder(C)) = C
           /\ Len(InOrder(C)) = Cardinality(C)
  <1> DEFINE n == Cardinality(C)
             Ahead(c) == {d \in C : Before(d, c)}
             r == [c \in C |-> Cardinality(Ahead(c))]
  <1>1. IsFiniteSet(C) /\ n \in Nat
    BY FS_CardinalityType DEF AreCandidates
  <1>2. \A c \in C : IsFiniteSet(Ahead(c)) /\ Cardinality(Ahead(c)) \in Nat
    BY <1>1, FS_Subset, FS_CardinalityType
  <1>3. ASSUME NEW c \in C PROVE r[c] \in 0..(n - 1)
    <2>1. c \notin Ahead(c) /\ Ahead(c) \in SUBSET C
      BY BeforeOrders
    <2>2. Cardinality(Ahead(c)) <= n /\ Cardinality(Ahead(c)) # n
      BY <1>1, <2>1, FS_Subset
    <2> QED
      BY <1>1, <1>2, <2>2
  <1>4. ASSUME NEW c \in C, NEW d \in C, Before(c, d) PROVE r[c] < r[d]
    <2>1. Ahead(c) \in SUBSET Ahead(d) /\ c \in Ahead(d) /\ c \notin Ahead(c)
      BY <1>4, BeforeOrders
    <2>2. Cardinality(Ahead(c)) <= Cardinality(Ahead(d))
          /\ Cardinality(Ahead(c)) # Cardinality(Ahead(d))
      BY <1>2, <2>1, FS_Subset
    <2> QED
      BY <1>2, <2>2
  <1> HIDE DEF r
  <1>5. r \in Injection(C, 0..(n - 1))
    <2>1. r \in [C -> 0..(n - 1)]
      BY <1>3 DEF r
    <2>2. \A c, d \in C : r[c] = r[d] => c = d
      BY <1>1, <1>3, <1>4, BeforeOrders
    <2> QED
      BY <2>1, <2>2 DEF Injection, IsInjective
  <1>6. IsFiniteSet(0..(n - 1)) /\ Cardinality(0..(n - 1)) = n
    BY <1>1, FS_Interval
  <1>7. r \in Surjection(C, 0..(n - 1))
    <2>1. IsFiniteSet(0..(n - 1)) /\ Cardinality(C) = Cardinality(0..(n - 1))
      BY <1>6
    <2> QED
      BY <1>5, <2>1, FS_Injection
  <1>8. /\ r \in [C -> 0..(n - 1)]
        /\ \A c, d \in C : r[c] = r[d] => c = d
        /\ \A k \in 0..(n - 1) : \E c \in C : r[c] = k
    BY <1>5, <1>7 DEF Injection, IsInjective, Surjection
  <1>9. \A c \in C : r[c] = Cardinality({d \in C : Before(d, c)})
    BY DEF r
  <1>10. InOrder(C) = [i \in 1..n |-> CHOOSE c \in C : Cardinality({d \in C : Before(d, c)}) = i - 1]
    BY DEF InOrder
  <1>11. \A i \in 1..n : InOrder(C)[i] \in C /\ r[InOrder(C)[i]] = i - 1
    <2> TAKE i \in 1..n
    <2>1. \E c \in C : Cardinality({d \in C : Before(d, c)}) = i - 1
      BY <1>1, <1>8, <1>9
    <2>2. InOrder(C)[i] = CHOOSE c \in C : Cardinality({d \in C : Before(d, c)}) = i - 1
      BY <1>10
    <2>3. /\ InOrder(C)[i] \in C
          /\ Cardinality({d \in C : Before(d, InOrder(C)[i])}) = i - 1
      BY <2>1, <2>2
    <2> QED
      BY <1>9, <2>3
  <1>12. DOMAIN InOrder(C) = 1..n /\ InOrder(C) \in [1..n -> C]
    BY <1>10, <1>11
  <1> HIDE DEF n
  <1>13. InOrder(C) \in Seq(C) /\ Len(InOrder(C)) = n
    BY <1>1, <1>12
  <1>14. Distinct(InOrder(C))
    <2>1. ASSUME NEW i \in 1..n, NEW j \in 1..n, InOrder(C)[i] = InOrder(C)[j] PROVE i = j
      <3>1. i - 1 = j - 1
        BY <1>11, <2>1, Zenon
      <3> QED
        BY <1>1, <3>1
    <2> QED
      BY <1>12, <2>1 DEF Distinct
  <1>15. \A c \in C : \E i \in 1..n : InOrder(C)[i] = c
    <2> TAKE c \in C
    <2>1. r[c] \in 0..(n - 1)
      BY <1>8
    <2>2. r[c] + 1 \in 1..n /\ (r[c] + 1) - 1 = r[c]
      BY <1>1, <2>1
    <2> QED
      BY <1>8, <1>11, <2>2
  <1>16. ToSet(InOrder(C)) = C
    BY <1>11, <1>12, <1>15 DEF ToSet
  <1> QED
    BY <1>13, <1>14, <1>16 DEF n

-----------------------------------------------------------------------------
(* The selection *)

\* What one source after the other comes to.
LEMMA FlattenFour ==
    ASSUME NEW S, NEW f \in [1..4 -> Seq(S)]
    PROVE  FlattenSeq(f) = ((f[1] \o f[2]) \o f[3]) \o f[4]
  <1> DEFINE Flat(g) == [i \in 1..Len(f) |-> IF i = 1 THEN f[i] ELSE g[i - 1] \o f[i]]
             flatten == CHOOSE g : g = Flat(g)
             h == [i \in 1..4 |-> IF i = 1 THEN f[1] ELSE IF i = 2 THEN f[1] \o f[2]
                                  ELSE IF i = 3 THEN (f[1] \o f[2]) \o f[3]
                                  ELSE ((f[1] \o f[2]) \o f[3]) \o f[4]]
  <1>1. Len(f) = 4
    OBVIOUS
  <1>2. FlattenSeq(f) = flatten[4]
    BY <1>1 DEF FlattenSeq
  <1>3. h = Flat(h)
    <2>1. \A i \in 1..4 : h[i] = Flat(h)[i]
      BY <1>1
    <2>2. Flat(h) = [i \in 1..4 |-> Flat(h)[i]] /\ h = [i \in 1..4 |-> h[i]]
      BY <1>1
    <2> HIDE DEF Flat, h
    <2> QED
      BY <2>1, <2>2
  <1>4. flatten = Flat(flatten)
    <2> HIDE DEF Flat, h
    <2> QED
      BY <1>3
  <1> HIDE DEF flatten
  <1>5. \A i \in 1..4 : flatten[i] = IF i = 1 THEN f[i] ELSE flatten[i - 1] \o f[i]
    BY <1>1, <1>4
  <1>6. flatten[1] = f[1] /\ flatten[2] = f[1] \o f[2]
    <2>1. 1 \in 1..4 /\ 2 \in 1..4 /\ 2 # 1 /\ 2 - 1 = 1
      OBVIOUS
    <2> QED
      BY <1>5, <2>1
  <1>7. flatten[3] = (f[1] \o f[2]) \o f[3]
    <2>1. 3 \in 1..4 /\ 3 # 1 /\ 3 - 1 = 2
      OBVIOUS
    <2> QED
      BY <1>5, <1>6, <2>1
  <1>8. flatten[4] = ((f[1] \o f[2]) \o f[3]) \o f[4]
    <2>1. 4 \in 1..4 /\ 4 # 1 /\ 4 - 1 = 3
      OBVIOUS
    <2> QED
      BY <1>5, <1>7, <2>1
  <1> QED
    BY <1>2, <1>8

\* Without a common element.
Apart(s, t) == ToSet(s) \cap ToSet(t) = {}

\* One after the other without repetition, if they share nothing.
LEMMA Joined ==
    ASSUME NEW S, NEW s \in Seq(S), NEW t \in Seq(S), Distinct(s), Distinct(t), Apart(s, t)
    PROVE  /\ s \o t \in Seq(S) /\ Distinct(s \o t)
           /\ ToSet(s \o t) = ToSet(s) \cup ToSet(t)
           /\ Len(s \o t) = Len(s) + Len(t)
  <1> DEFINE u == s \o t
  <1>1. /\ u \in Seq(S) /\ Len(u) = Len(s) + Len(t)
        /\ DOMAIN u = 1..(Len(s) + Len(t)) /\ DOMAIN s = 1..Len(s) /\ DOMAIN t = 1..Len(t)
        /\ Len(s) \in Nat /\ Len(t) \in Nat
        /\ \A i \in DOMAIN u : u[i] = IF i <= Len(s) THEN s[i] ELSE t[i - Len(s)]
    OBVIOUS
  <1> HIDE DEF u
  <1>2. \A i \in DOMAIN u : \/ i \in DOMAIN s /\ u[i] = s[i]
                            \/ i - Len(s) \in DOMAIN t /\ u[i] = t[i - Len(s)]
    BY <1>1
  <1>3. \A i \in DOMAIN s, j \in DOMAIN t : s[i] # t[j]
    BY DEF ToSet, Apart
  <1>4. Distinct(u)
    BY <1>1, <1>2, <1>3 DEF Distinct
  <1>5. \A x \in ToSet(u) : x \in ToSet(s) \cup ToSet(t)
    BY <1>2 DEF ToSet
  <1>6. \A i \in DOMAIN s : i \in DOMAIN u /\ u[i] = s[i]
    BY <1>1
  <1>7. \A j \in DOMAIN t : Len(s) + j \in DOMAIN u /\ u[Len(s) + j] = t[j]
    BY <1>1
  <1>8. \A x \in ToSet(s) \cup ToSet(t) : x \in ToSet(u)
    BY <1>6, <1>7 DEF ToSet
  <1> QED
    BY <1>1, <1>4, <1>5, <1>8 DEF u

\* The first so many of a sequence without repetition.
LEMMA FirstOfDistinct ==
    ASSUME NEW S, NEW s \in Seq(S), Distinct(s), NEW n \in Nat
    PROVE  Distinct(FirstOf(s, n)) /\ ToSet(FirstOf(s, n)) \subseteq ToSet(s)
  BY FirstOfIs DEF Distinct, ToSet

\* A sequence without repetition is no longer than its set is large.
LEMMA DistinctSize ==
    ASSUME NEW S, NEW s \in Seq(S), Distinct(s)
    PROVE  IsFiniteSet(ToSet(s)) /\ Cardinality(ToSet(s)) = Len(s) /\ Len(s) \in Nat
  <1>1. IsFiniteSet(ToSet(s)) /\ Cardinality(ToSet(s)) = Len(s)
    BY DistinctCount
  <1> QED
    BY <1>1

\* The candidates of a source.
OfSource(C, s) == {c \in C : c.source = s}

\* The candidates of one source are candidates.
LEMMA SourceCandidates ==
    ASSUME NEW C, AreCandidates(C), NEW D \in SUBSET C
    PROVE  AreCandidates(D)
  BY FS_Subset DEF AreCandidates

\* What select_candidates returns: as many of the pool as were asked for or are there,
\* each once, and of each source its share or all.
IsSelection(selected, C, target, weights) ==
    /\ selected \in Seq(C) /\ Distinct(selected)
    /\ Len(selected) = Min({target, Cardinality(C)})
    /\ \A s \in SourceSet :
         Cardinality({i \in DOMAIN selected : selected[i].source = s})
            >= Min({LeastShare(s, target, weights), Cardinality(OfSource(C, s))})

\* The block of one source: as many of its candidates as its quota and they allow.
LEMMA FirstBlock ==
    ASSUME NEW C, AreCandidates(C), NEW s \in SourceSet, NEW q \in Nat
    PROVE  LET block == FirstOf(InOrder(OfSource(C, s)), q)
               there == Cardinality(OfSource(C, s))
           IN  /\ block \in Seq(C) /\ Distinct(block)
               /\ ToSet(block) \subseteq OfSource(C, s)
               /\ there \in Nat
               /\ Len(block) = IF q <= there THEN q ELSE there
  <1> DEFINE D == OfSource(C, s)
             all == InOrder(D)
             block == FirstOf(all, q)
  <1>1. D \in SUBSET C
    BY DEF OfSource
  <1>2. AreCandidates(D)
    BY <1>1, SourceCandidates
  <1> HIDE DEF D
  <1>3. all \in Seq(D) /\ Distinct(all) /\ ToSet(all) = D /\ Len(all) = Cardinality(D)
    BY <1>2, InOrderIs
  <1> HIDE DEF all
  <1>4. block \in Seq(D) /\ Len(block) = IF q <= Len(all) THEN q ELSE Len(all)
    BY <1>3, FirstOfIs
  <1>5. Distinct(block) /\ ToSet(block) \subseteq D
    BY <1>3, FirstOfDistinct
  <1>6. Len(all) \in Nat
    BY <1>3
  <1> HIDE DEF block
  <1>7. block \in Seq(C)
    BY <1>1, <1>4
  <1> QED
    BY <1>3, <1>4, <1>5, <1>6, <1>7 DEF block, all, D

\* Four blocks of different sources, one after the other.
LEMMA FourJoined ==
    ASSUME NEW S, NEW p \in Seq(S), NEW q \in Seq(S), NEW r \in Seq(S), NEW t \in Seq(S),
           Distinct(p), Distinct(q), Distinct(r), Distinct(t),
           Apart(p, q), Apart(p, r), Apart(p, t), Apart(q, r), Apart(q, t), Apart(r, t)
    PROVE  LET u == ((p \o q) \o r) \o t
           IN  /\ u \in Seq(S) /\ Distinct(u)
               /\ ToSet(u) = ((ToSet(p) \cup ToSet(q)) \cup ToSet(r)) \cup ToSet(t)
               /\ Len(u) = Len(p) + Len(q) + Len(r) + Len(t)
  <1>1. PICK a : a = p \o q
    OBVIOUS
  <1>2. /\ a \in Seq(S) /\ Distinct(a) /\ ToSet(a) = ToSet(p) \cup ToSet(q)
        /\ Len(a) = Len(p) + Len(q)
    BY <1>1, Joined
  <1>3. PICK b : b = a \o r
    OBVIOUS
  <1>4. Apart(a, r)
    BY <1>2 DEF Apart
  <1>5. /\ b \in Seq(S) /\ Distinct(b) /\ ToSet(b) = ToSet(a) \cup ToSet(r)
        /\ Len(b) = Len(a) + Len(r)
    BY <1>2, <1>3, <1>4, Joined
  <1>6. PICK u : u = b \o t
    OBVIOUS
  <1>7. Apart(b, t)
    BY <1>2, <1>5 DEF Apart
  <1>8. /\ u \in Seq(S) /\ Distinct(u) /\ ToSet(u) = ToSet(b) \cup ToSet(t)
        /\ Len(u) = Len(b) + Len(t)
    <2>1. b \in Seq(S) /\ Distinct(b) /\ t \in Seq(S) /\ Distinct(t)
      BY <1>5
    <2> QED
      BY ONLY <2>1, <1>6, <1>7, Joined
  <1> QED
    BY <1>1, <1>2, <1>3, <1>5, <1>6, <1>8

\* Every source up to its quota, and no more than the target.
LEMMA FirstBlocksAre ==
    ASSUME NEW C, AreCandidates(C), NEW target \in Nat, NEW weights \in [SourceSet -> Nat],
           TotalWeight(weights) > 0, NEW quotas \in Quotas(target, weights)
    PROVE  LET first == FirstBlocks(C, quotas)
           IN  /\ first \in Seq(C) /\ Distinct(first) /\ Len(first) <= target
               /\ \A s \in SourceSet : \E block \in Seq(C) :
                    LET share == LeastShare(s, target, weights)
                        there == Cardinality(OfSource(C, s))
                    IN  /\ Distinct(block)
                        /\ ToSet(block) \subseteq ToSet(first) \cap OfSource(C, s)
                        /\ share \in Nat /\ there \in Nat
                        /\ Len(block) >= IF share <= there THEN share ELSE there
  <1> DEFINE Of(s) == OfSource(C, s)
             There(s) == Cardinality(Of(s))
             Block(s) == FirstOf(InOrder(Of(s)), quotas[s])
             first == FirstBlocks(C, quotas)
  <1>1. /\ quotas \in [SourceSet -> Nat] /\ Four(quotas) = target
        /\ \A s \in SourceSet : quotas[s] >= LeastShare(s, target, weights)
    BY QuotasAre
  <1>2. \A s \in SourceSet :
          /\ Block(s) \in Seq(C) /\ Distinct(Block(s))
          /\ ToSet(Block(s)) \subseteq Of(s)
          /\ There(s) \in Nat
          /\ Len(Block(s)) = IF quotas[s] <= There(s) THEN quotas[s] ELSE There(s)
    <2> TAKE s \in SourceSet
    <2>1. quotas[s] \in Nat
      BY <1>1
    <2> QED
      BY <2>1, FirstBlock
  <1>3. first = FlattenSeq([i \in DOMAIN Sources |-> Block(Sources[i])])
    BY DEF FirstBlocks, OfSource
  <1> HIDE DEF Block
  <1>4. first = ((Block("manual") \o Block("link_import")) \o Block("resume")) \o Block("generated")
    <2> DEFINE blocks == [i \in DOMAIN Sources |-> Block(Sources[i])]
    <2>1. \A s \in {"manual", "link_import", "resume", "generated"} : Block(s) \in Seq(C)
      BY <1>2, FourSources
    <2>2. blocks \in [1..4 -> Seq(C)] /\ blocks[1] = Block("manual")
          /\ blocks[2] = Block("link_import") /\ blocks[3] = Block("resume")
          /\ blocks[4] = Block("generated")
      BY <2>1, FourSources
    <2>3. first = FlattenSeq(blocks)
      BY <1>3
    <2> HIDE DEF blocks, first
    <2> QED
      BY <2>2, <2>3, FlattenFour
  <1> HIDE DEF first
  <1>5. \A s \in SourceSet : Block(s) \in Seq(C) /\ Distinct(Block(s))
    BY <1>2
  <1>6. \A s, t \in SourceSet : s # t => Apart(Block(s), Block(t))
    <2>1. \A s \in SourceSet : ToSet(Block(s)) \subseteq Of(s)
      BY <1>2
    <2>2. \A s, t \in SourceSet : s # t => Of(s) \cap Of(t) = {}
      BY DEF OfSource
    <2> QED
      BY <2>1, <2>2 DEF Apart
  <1>7. \A s \in SourceSet : Len(Block(s)) \in Nat /\ quotas[s] \in Nat /\ Len(Block(s)) <= quotas[s]
    <2> TAKE s \in SourceSet
    <2>1. quotas[s] \in Nat /\ There(s) \in Nat
      BY <1>1, <1>2
    <2>2. Len(Block(s)) = IF quotas[s] <= There(s) THEN quotas[s] ELSE There(s)
      BY <1>2
    <2> HIDE DEF There
    <2> QED
      BY <2>1, <2>2
  <1>8. PICK p, q, r, t : p = Block("manual") /\ q = Block("link_import") /\ r = Block("resume")
                          /\ t = Block("generated")
    OBVIOUS
  <1>9. /\ p \in Seq(C) /\ q \in Seq(C) /\ r \in Seq(C) /\ t \in Seq(C)
        /\ Distinct(p) /\ Distinct(q) /\ Distinct(r) /\ Distinct(t)
    BY <1>5, <1>8, FourSources
  <1>10. /\ Apart(p, q) /\ Apart(p, r) /\ Apart(p, t)
         /\ Apart(q, r) /\ Apart(q, t) /\ Apart(r, t)
    BY <1>6, <1>8, FourSources
  <1>11. /\ first \in Seq(C) /\ Distinct(first)
         /\ ToSet(first) = ((ToSet(p) \cup ToSet(q)) \cup ToSet(r)) \cup ToSet(t)
         /\ Len(first) = Len(p) + Len(q) + Len(r) + Len(t)
    <2>1. first = ((p \o q) \o r) \o t
      BY <1>4, <1>8
    <2> QED
      BY <1>9, <1>10, <2>1, FourJoined
  <1>12. Len(first) <= target
    <2>1. /\ Len(p) \in Nat /\ Len(q) \in Nat /\ Len(r) \in Nat /\ Len(t) \in Nat
          /\ Len(p) <= quotas["manual"] /\ Len(q) <= quotas["link_import"]
          /\ Len(r) <= quotas["resume"] /\ Len(t) <= quotas["generated"]
          /\ quotas["manual"] \in Nat /\ quotas["link_import"] \in Nat
          /\ quotas["resume"] \in Nat /\ quotas["generated"] \in Nat
      BY <1>7, <1>8, FourSources
    <2>2. target = quotas["manual"] + quotas["link_import"] + quotas["resume"] + quotas["generated"]
      BY <1>1 DEF Four
    <2>3. Len(first) = Len(p) + Len(q) + Len(r) + Len(t)
      BY <1>11
    <2>4. \A a, b, c, d \in Nat : \A k, l, m, n \in Nat :
            a <= k /\ b <= l /\ c <= m /\ d <= n => a + b + c + d <= k + l + m + n
      OBVIOUS
    <2>5. /\ quotas["manual"] \in Nat /\ quotas["link_import"] \in Nat
          /\ quotas["resume"] \in Nat /\ quotas["generated"] \in Nat
      BY <2>1
    <2>6. Len(p) + Len(q) + Len(r) + Len(t)
            <= quotas["manual"] + quotas["link_import"] + quotas["resume"] + quotas["generated"]
      BY <2>1, <2>4, <2>5
    <2> QED
      BY <2>2, <2>3, <2>6
  <1>13. \A s \in SourceSet : ToSet(Block(s)) \subseteq ToSet(first)
    BY <1>8, <1>11, FourSources
  <1>14. ASSUME NEW s \in SourceSet
         PROVE  /\ Block(s) \in Seq(C) /\ Distinct(Block(s))
                /\ ToSet(Block(s)) \subseteq ToSet(first) \cap Of(s)
                /\ LeastShare(s, target, weights) \in Nat /\ There(s) \in Nat
                /\ Len(Block(s)) >= IF LeastShare(s, target, weights) <= There(s)
                                    THEN LeastShare(s, target, weights) ELSE There(s)
    <2>1. Block(s) \in Seq(C) /\ Distinct(Block(s)) /\ ToSet(Block(s)) \subseteq ToSet(first)
      BY <1>5, <1>13
    <2>2. ToSet(Block(s)) \subseteq Of(s) /\ There(s) \in Nat
      BY <1>2
    <2>3. LeastShare(s, target, weights) \in Nat
      BY ShareTypes
    <2>4. quotas[s] \in Nat /\ quotas[s] >= LeastShare(s, target, weights)
      BY <1>1
    <2>5. Len(Block(s)) = IF quotas[s] <= There(s) THEN quotas[s] ELSE There(s)
      BY <1>2
    <2> HIDE DEF There, Of
    <2> QED
      BY <2>1, <2>2, <2>3, <2>4, <2>5
  <1> QED
    BY <1>11, <1>12, <1>14 DEF first

\* What select_candidates returns: as many as there are to be had, and each source's share.
LEMMA SelectionIs ==
    ASSUME NEW C, AreCandidates(C), NEW target \in Nat, NEW weights \in [SourceSet -> Nat],
           TotalWeight(weights) > 0, NEW x \in SelectCandidates(C, target, weights)
    PROVE  IsSelection(x, C, target, weights)
  <1>0. PICK quotas \in Quotas(target, weights) : x = Select(C, target, quotas)
    BY DEF SelectCandidates
  <1> DEFINE first == FirstBlocks(C, quotas)
             rest == InOrder(C \ ToSet(first))
             all == first \o rest
             selected == FirstOf(all, target)
  <1>1. x = selected
    BY <1>0 DEF Select
  <1>2. /\ first \in Seq(C) /\ Distinct(first) /\ Len(first) <= target
        /\ \A s \in SourceSet : \E block \in Seq(C) :
             LET share == LeastShare(s, target, weights)
                 there == Cardinality(OfSource(C, s))
             IN  /\ Distinct(block)
                 /\ ToSet(block) \subseteq ToSet(first) \cap OfSource(C, s)
                 /\ share \in Nat /\ there \in Nat
                 /\ Len(block) >= IF share <= there THEN share ELSE there
    BY FirstBlocksAre
  <1> HIDE DEF first
  <1>3. rest \in Seq(C) /\ Distinct(rest) /\ Apart(first, rest) /\ ToSet(first) \cup ToSet(rest) = C
    <2>1. AreCandidates(C \ ToSet(first))
      BY SourceCandidates
    <2>2. rest \in Seq(C \ ToSet(first)) /\ Distinct(rest) /\ ToSet(rest) = C \ ToSet(first)
      BY <2>1, InOrderIs
    <2> HIDE DEF rest
    <2>3. rest \in Seq(C)
      BY <2>2
    <2>4. ToSet(first) \subseteq C
      BY <1>2 DEF ToSet
    <2> QED
      BY <2>2, <2>3, <2>4 DEF Apart
  <1> HIDE DEF rest
  <1>4. all \in Seq(C) /\ Distinct(all) /\ ToSet(all) = C /\ Len(all) = Len(first) + Len(rest)
    <2>1. first \in Seq(C) /\ Distinct(first)
      BY <1>2
    <2>2. /\ all \in Seq(C) /\ Distinct(all) /\ ToSet(all) = ToSet(first) \cup ToSet(rest)
          /\ Len(all) = Len(first) + Len(rest)
      BY <1>3, <2>1, Joined
    <2> QED
      BY <1>3, <2>2
  <1>5. Len(all) = Cardinality(C)
    BY <1>4, DistinctCount
  <1>6. Len(first) \in Nat /\ Len(rest) \in Nat /\ DOMAIN first = 1..Len(first)
        /\ \A i \in DOMAIN first : all[i] = first[i]
    BY <1>2, <1>3
  <1> HIDE DEF all
  <1>7. /\ selected \in Seq(C) /\ Len(selected) = IF target <= Len(all) THEN target ELSE Len(all)
        /\ \A i \in DOMAIN selected : i \in DOMAIN all /\ selected[i] = all[i]
        /\ Distinct(selected)
    BY <1>4, FirstOfIs, FirstOfDistinct
  <1> HIDE DEF selected
  <1>8. Len(selected) = Min({target, Cardinality(C)})
    BY <1>4, <1>5, <1>6, <1>7, MinOfTwo
  <1>9. ToSet(first) \subseteq ToSet(selected)
    <2>1. DOMAIN selected = 1..Len(selected)
      BY <1>7
    <2>2. \A i \in DOMAIN first : i \in DOMAIN selected
      BY <1>2, <1>4, <1>6, <1>7, <2>1
    <2> QED
      BY <1>6, <1>7, <2>2 DEF ToSet
  <1>10. ASSUME NEW s \in SourceSet
         PROVE  Cardinality({i \in DOMAIN selected : selected[i].source = s})
                  >= Min({LeastShare(s, target, weights), Cardinality(OfSource(C, s))})
    <2>1. PICK T : T = OfSource(C, s)
      OBVIOUS
    <2>2. PICK block \in Seq(C) :
             LET share == LeastShare(s, target, weights)
                 there == Cardinality(T)
             IN  /\ Distinct(block)
                 /\ ToSet(block) \subseteq ToSet(first) \cap T
                 /\ share \in Nat /\ there \in Nat
                 /\ Len(block) >= IF share <= there THEN share ELSE there
      BY <1>2, <2>1
    <2>3. Len(block) >= Min({LeastShare(s, target, weights), Cardinality(T)})
      BY <2>2, MinOfTwo
    <2>4. {i \in DOMAIN selected : selected[i].source = s} = {i \in DOMAIN selected : selected[i] \in T}
      BY <1>7, <2>1 DEF OfSource
    <2>5. /\ Cardinality({i \in DOMAIN selected : selected[i] \in T})
               = Cardinality(ToSet(selected) \cap T)
          /\ IsFiniteSet(ToSet(selected) \cap T)
      BY <1>7, DistinctCount
    <2>6. ToSet(block) \in SUBSET (ToSet(selected) \cap T)
      BY <1>9, <2>2
    <2>7. Cardinality(ToSet(block)) = Len(block) /\ Len(block) \in Nat
      <3>1. Distinct(block)
        BY <2>2
      <3> QED
        BY <3>1, DistinctSize
    <2>8. Cardinality(ToSet(block)) <= Cardinality(ToSet(selected) \cap T)
          /\ Cardinality(ToSet(selected) \cap T) \in Nat
      BY <2>5, <2>6, FS_Subset, FS_CardinalityType
    <2>9. PICK m \in Nat : m = Min({LeastShare(s, target, weights), Cardinality(T)})
      BY <2>2, MinOfTwo
    <2>10. PICK k \in Nat : k = Cardinality({i \in DOMAIN selected : selected[i].source = s})
      BY <2>4, <2>5, <2>8
    <2>11. k >= m
      <3>1. PICK j \in Nat : j = Len(block)
        BY <2>7
      <3>2. k >= j
        BY <2>4, <2>5, <2>7, <2>8, <2>10, <3>1
      <3>3. j >= m
        BY <2>3, <2>9, <3>1
      <3> QED
        BY <3>2, <3>3
    <2> QED
      BY <2>1, <2>9, <2>10, <2>11
  <1> QED
    BY <1>1, <1>7, <1>8, <1>10 DEF IsSelection

-----------------------------------------------------------------------------
(* The shares of time, and the draft of the model *)

\* The first r of n get one more than the others.
FairShares(F, n, q, r) == \A i \in 1..n : F[i] = q + (IF i <= r THEN 1 ELSE 0)

\* Shares that differ by one add up to the whole: the sum is a linear function of r.
LEMMA SharedOut ==
    ASSUME NEW n \in Nat, NEW q \in Nat, NEW r \in 0..n, NEW F, FairShares(F, n, q, r)
    PROVE  SumFunctionOnSet(F, 1..n) = n * q + r
  <1> DEFINE D == 1..n
             R == 1..r
             H == [S \in SUBSET D |-> Cardinality(S) * q + Cardinality(S \cap R)]
  <1>1. IsFiniteSet(D) /\ Cardinality(D) = n /\ Cardinality(R) = r /\ D \cap R = R
    BY FS_Interval
  <1>2. \A x \in D : F[x] \in Nat /\ F[x] = q + (IF x \in R THEN 1 ELSE 0)
    BY DEF FairShares
  <1> HIDE DEF D, R
  <1>3. \A S \in SUBSET D : /\ IsFiniteSet(S) /\ IsFiniteSet(S \cap R)
                            /\ Cardinality(S) \in Nat /\ Cardinality(S \cap R) \in Nat
    <2> TAKE S \in SUBSET D
    <2>1. IsFiniteSet(S)
      BY <1>1, FS_Subset
    <2>2. IsFiniteSet(S \cap R)
      BY <2>1, FS_Intersection
    <2> QED
      BY <2>1, <2>2, FS_CardinalityType
  <1>4. H \in [SUBSET D -> Int]
    <2>1. \A S \in SUBSET D : H[S] \in Int
      <3> TAKE S \in SUBSET D
      <3>1. PICK a \in Nat, b \in Nat : a = Cardinality(S) /\ b = Cardinality(S \cap R)
        BY <1>3
      <3>2. a * q + b \in Int
        OBVIOUS
      <3> QED
        BY <3>1, <3>2
    <2> QED
      BY <2>1
  <1>5. H[{}] = 0
    <2>1. Cardinality({}) = 0 /\ {} \cap R = {}
      BY FS_EmptySet
    <2> QED
      BY <2>1
  <1>6. ASSUME NEW S \in SUBSET D, NEW x \in S PROVE H[S] = F[x] + H[S \ {x}]
    <2>1. Cardinality(S \ {x}) = Cardinality(S) - 1
      BY <1>3, FS_RemoveElement
    <2>2. Cardinality((S \ {x}) \cap R) = Cardinality(S \cap R) - (IF x \in R THEN 1 ELSE 0)
      <3>1. (S \ {x}) \cap R = (S \cap R) \ {x}
        OBVIOUS
      <3>2. PICK T : T = S \cap R
        OBVIOUS
      <3>3. IsFiniteSet(T) /\ Cardinality(T) \in Nat /\ (x \in T <=> x \in R)
        BY <1>3, <3>2
      <3>4. Cardinality(T \ {x}) = IF x \in T THEN Cardinality(T) - 1 ELSE Cardinality(T)
        BY <3>3, FS_RemoveElement
      <3> QED
        BY <3>1, <3>2, <3>3, <3>4
    <2>3. PICK a \in Nat, b \in Nat, d \in 0..1 :
             a = Cardinality(S) /\ b = Cardinality(S \cap R) /\ d = IF x \in R THEN 1 ELSE 0
      BY <1>3
    <2>4. H[S] = a * q + b
      BY <2>3
    <2>5. H[S \ {x}] = (a - 1) * q + (b - d)
      <3>1. S \ {x} \in SUBSET D
        OBVIOUS
      <3> QED
        BY <2>1, <2>2, <2>3, <3>1
    <2>6. F[x] = q + d
      BY <1>2, <2>3
    <2>7. a * q + b = (q + d) + ((a - 1) * q + (b - d))
      OBVIOUS
    <2> QED
      BY <2>4, <2>5, <2>6, <2>7
  <1>7. H[D] = n * q + r
    BY <1>1
  <1> HIDE DEF H
  <1>8. Adds(H, F, D)
    BY <1>4, <1>5, <1>6 DEF Adds
  <1>9. SumFunctionOnSet(F, D) = H[D]
    BY <1>1, <1>8, SumIs
  <1> QED
    BY <1>7, <1>9 DEF D

\* The fallback gives out all the time.
LEMMA DeterministicTime ==
    ASSUME NEW n \in Nat \ {0}, NEW total \in Nat, total >= n * MinQuestionSeconds,
           NEW F, \A i \in 1..n : F[i] = Max({MinQuestionSeconds,
                                (total \div n) + IF i <= total % n THEN 1 ELSE 0})
    PROVE  SumFunctionOnSet(F, 1..n) = total
  <1>1. PICK q \in Nat, r \in 0..(n - 1) : q = total \div n /\ r = total % n /\ total = n * q + r
    BY Divided
  <1>2. q >= 30
    <2>1. SUFFICES ASSUME q <= 29 PROVE FALSE
      OBVIOUS
    <2>2. n * q <= n * 29
      BY <2>1
    <2>3. n * 30 = n * 29 + n /\ n * q \in Nat /\ n * 29 \in Nat
      OBVIOUS
    <2> QED
      BY <1>1, <2>2, <2>3 DEF MinQuestionSeconds
  <1>3. \A x \in Nat : x >= 30 => Max({MinQuestionSeconds, x}) = x
    <2> TAKE x \in Nat
    <2>1. Max({30, x}) = IF 30 >= x THEN 30 ELSE x
      BY MaxOfTwo
    <2> QED
      BY <2>1 DEF MinQuestionSeconds
  <1>4. \A i \in 1..n : F[i] = q + (IF i <= r THEN 1 ELSE 0)
    <2> TAKE i \in 1..n
    <2>1. PICK x \in Nat : x = q + (IF i <= r THEN 1 ELSE 0)
      OBVIOUS
    <2>2. Max({MinQuestionSeconds, x}) = x
      BY <1>2, <1>3, <2>1
    <2> QED
      BY <1>1, <2>1, <2>2
  <1>6. SumFunctionOnSet(F, 1..n) = n * q + r
    <2>1. FairShares(F, n, q, r) /\ r \in 0..n
      BY <1>4 DEF FairShares
    <2> QED
      BY <2>1, SharedOut
  <1> QED
    BY <1>1, <1>6

-----------------------------------------------------------------------------
(* The questions of a plan *)

\* No key twice.
KeysDiffer(qs) == \A i, j \in DOMAIN qs : qs[i].key = qs[j].key => i = j

\* Keys that differ are as many as the questions.
LEMMA KeysCount ==
    ASSUME NEW n \in Nat, NEW qs, DOMAIN qs = 1..n, KeysDiffer(qs)
    PROVE  Cardinality({qs[i].key : i \in DOMAIN qs}) = n
  <1> DEFINE K == {qs[i].key : i \in 1..n}
             f == [i \in 1..n |-> qs[i].key]
  <1>1. f \in Bijection(1..n, K)
    BY DEF Bijection, Injection, Surjection, IsInjective, KeysDiffer
  <1>2. ExistsBijection(1..n, K)
    BY <1>1 DEF ExistsBijection
  <1> HIDE DEF K
  <1>3. Cardinality(K) = n
    BY <1>2, FS_CountingElements
  <1> QED
    BY <1>3 DEF K

\* What PlansArePlayable asks of the questions, besides that they fit their schema.
Playable(qs, C, target, weights, total) ==
    /\ Len(qs) = Min({target, Cardinality(C)})
    /\ Cardinality({qs[i].key : i \in DOMAIN qs}) = Len(qs)
    /\ \A s \in SourceSet :
         Cardinality({i \in DOMAIN qs : qs[i].source = s})
            >= Min({LeastShare(s, target, weights), Cardinality(OfSource(C, s))})
    /\ Seconds(qs) = total

\* A selection has a question, and no key twice.
LEMMA SelectionTypes ==
    ASSUME NEW C, AreCandidates(C), C # {}, NEW target \in Nat \ {0}, NEW weights, NEW selected,
           IsSelection(selected, C, target, weights)
    PROVE  /\ selected \in Seq(C) /\ DOMAIN selected = 1..Len(selected)
           /\ Len(selected) \in Nat \ {0} /\ Len(selected) <= target
           /\ KeysDiffer(selected)
  <1>1. selected \in Seq(C) /\ Distinct(selected) /\ Len(selected) = Min({target, Cardinality(C)})
    BY DEF IsSelection
  <1>2. Cardinality(C) \in Nat \ {0}
    BY FS_CardinalityType, FS_EmptySet DEF AreCandidates
  <1>3. Len(selected) \in Nat \ {0} /\ Len(selected) <= target
    BY <1>1, <1>2, MinOfTwo
  <1>4. KeysDiffer(selected)
    <2>1. \A i \in DOMAIN selected : selected[i] \in C
      BY <1>1
    <2>2. \A c, d \in C : c.key = d.key => c = d
      BY DEF AreCandidates
    <2> QED
      BY <1>1, <2>1, <2>2 DEF Distinct, KeysDiffer
  <1>5. DOMAIN selected = 1..Len(selected)
    BY <1>1
  <1> QED
    BY <1>1, <1>3, <1>4, <1>5

\* The questions of the fallback can be played.
LEMMA FallbackIsPlayable ==
    ASSUME NEW C, AreCandidates(C), C # {}, NEW target \in Nat \ {0}, NEW weights, NEW selected,
           IsSelection(selected, C, target, weights),
           NEW total \in Nat, total >= target * MinQuestionSeconds
    PROVE  Playable(DeterministicQuestions(selected, total), C, target, weights, total)
  <1> DEFINE n == Len(selected)
             seconds(i) == Max({MinQuestionSeconds,
                                (total \div n) + IF i <= total % n THEN 1 ELSE 0})
             qs == [i \in 1..n |-> PlanQuestion(selected[i], seconds(i), selected[i].followUps)]
             F == [i \in DOMAIN qs |-> qs[i].seconds]
  <1>1. DeterministicQuestions(selected, total) = qs
    BY DEF DeterministicQuestions
  <1>2. /\ selected \in Seq(C) /\ DOMAIN selected = 1..n /\ n \in Nat \ {0} /\ n <= target
        /\ KeysDiffer(selected)
    BY SelectionTypes
  <1> HIDE DEF n
  <1>3. DOMAIN qs = 1..n /\ Len(qs) = n
    BY <1>2
  <1>4. \A i \in 1..n : /\ qs[i].key = selected[i].key /\ qs[i].source = selected[i].source
                        /\ qs[i].seconds = seconds(i)
    BY DEF PlanQuestion
  <1> HIDE DEF qs
  <1>5. total >= n * MinQuestionSeconds
    <2>1. n * 30 <= target * 30
      BY <1>2
    <2>2. n * 30 \in Nat /\ target * 30 \in Nat
      BY <1>2
    <2> QED
      BY <2>1, <2>2 DEF MinQuestionSeconds
  <1>6. \A i \in 1..n : F[i] = seconds(i)
    BY <1>3, <1>4
  <1>7. F \in [1..n -> {seconds(i) : i \in 1..n}] /\ DOMAIN F = 1..n
    BY <1>3, <1>4
  <1> HIDE DEF F
  <1>8. SumFunctionOnSet(F, 1..n) = total
    BY <1>2, <1>5, <1>6, DeterministicTime
  <1>9. Seconds(qs) = total
    BY <1>7, <1>8 DEF Seconds, SumFunction, F
  <1>11. Cardinality({qs[i].key : i \in DOMAIN qs}) = n
    <2>1. KeysDiffer(qs)
      BY <1>2, <1>3, <1>4 DEF KeysDiffer
    <2> QED
      BY <1>2, <1>3, <2>1, KeysCount
  <1>12. \A s \in SourceSet : {i \in DOMAIN qs : qs[i].source = s}
                                = {i \in DOMAIN selected : selected[i].source = s}
    BY <1>2, <1>3, <1>4
  <1> QED
    BY <1>1, <1>3, <1>9, <1>11, <1>12 DEF Playable, IsSelection, n

\* The questions are those selected, in the order f.
Reorders(draft, selected, f) ==
    /\ DOMAIN draft = DOMAIN selected
    /\ \A i \in DOMAIN selected : /\ f[i] \in DOMAIN selected
                                  /\ draft[i].key = selected[f[i]].key
                                  /\ draft[i].source = selected[f[i]].source

\* An answer of the model that keeps to the selection reorders it, by a bijection, since
\* it names each key: it can be played too.
LEMMA DraftIsPlayable ==
    ASSUME NEW C, AreCandidates(C), C # {}, NEW target \in Nat \ {0}, NEW weights, NEW selected,
           IsSelection(selected, C, target, weights), NEW total,
           NEW f \in [DOMAIN selected -> DOMAIN selected], NEW draft,
           Reorders(draft, selected, f), ValidDraft(draft, selected, total)
    PROVE  Playable(draft, C, target, weights, total)
  <1> DEFINE n == Len(selected)
  <1>1. selected \in Seq(C) /\ DOMAIN selected = 1..n /\ n \in Nat \ {0} /\ KeysDiffer(selected)
    BY SelectionTypes
  <1> HIDE DEF n
  <1>2. DOMAIN draft = 1..n /\ Len(draft) = n
    BY <1>1 DEF ValidDraft, Reorders, n
  <1>3. \A i \in 1..n : /\ f[i] \in 1..n
                        /\ draft[i].key = selected[f[i]].key
                        /\ draft[i].source = selected[f[i]].source
    BY <1>1 DEF Reorders
  <1>4. /\ {draft[i].key : i \in DOMAIN draft} = {selected[i].key : i \in DOMAIN selected}
        /\ Seconds(draft) = total
    BY DEF ValidDraft
  <1>5. \A j \in 1..n : \E i \in 1..n : f[i] = j
    <2> TAKE j \in 1..n
    <2>1. selected[j].key \in {draft[i].key : i \in DOMAIN draft}
      BY <1>1, <1>4
    <2>2. PICK i \in 1..n : draft[i].key = selected[j].key
      BY <1>2, <2>1
    <2>3. selected[f[i]].key = selected[j].key /\ f[i] \in DOMAIN selected /\ j \in DOMAIN selected
      BY <1>1, <1>3, <2>2
    <2>4. f[i] = j
      BY <1>1, <2>3 DEF KeysDiffer
    <2> QED
      BY <2>4
  <1>6. \A i, j \in 1..n : f[i] = f[j] => i = j
    <2>1. f \in Surjection(1..n, 1..n)
      BY <1>1, <1>5 DEF Surjection
    <2>2. IsFiniteSet(1..n)
      BY <1>1, FS_Interval
    <2>3. f \in Injection(1..n, 1..n)
      BY <2>1, <2>2, FS_SurjSameCardinalityImpliesInj
    <2> QED
      BY <2>3 DEF Injection, IsInjective
  <1>7. Cardinality({draft[i].key : i \in DOMAIN draft}) = n
    <2>1. ASSUME NEW i \in 1..n, NEW j \in 1..n, draft[i].key = draft[j].key PROVE f[i] = f[j]
      <3>1. PICK x \in 1..n : x = f[i]
        BY <1>3
      <3>2. PICK y \in 1..n : y = f[j]
        BY <1>3
      <3>3. selected[x].key = selected[y].key
        BY <1>3, <2>1, <3>1, <3>2
      <3>4. x = y
        BY <1>1, <3>3 DEF KeysDiffer
      <3> QED
        BY <3>1, <3>2, <3>4
    <2>2. KeysDiffer(draft)
      BY <1>2, <1>6, <2>1 DEF KeysDiffer
    <2> QED
      BY <1>1, <1>2, <2>2, KeysCount
  <1>8. ASSUME NEW s \in SourceSet
        PROVE  Cardinality({i \in DOMAIN draft : draft[i].source = s})
                 = Cardinality({i \in DOMAIN selected : selected[i].source = s})
    <2> DEFINE D == {i \in 1..n : draft[i].source = s}
               E == {i \in 1..n : selected[i].source = s}
               g == [i \in D |-> f[i]]
    <2>1. IsFiniteSet(D)
      <3>1. IsFiniteSet(1..n) /\ D \in SUBSET (1..n)
        BY <1>1, FS_Interval
      <3> QED
        BY <3>1, FS_Subset
    <2>2. g \in [D -> E]
      BY <1>3
    <2>3. \A i, j \in D : g[i] = g[j] => i = j
      BY <1>6
    <2>4. \A j \in E : \E i \in D : g[i] = j
      <3> TAKE j \in E
      <3>1. PICK i \in 1..n : f[i] = j
        BY <1>5
      <3>2. i \in D
        BY <1>3, <3>1
      <3> QED
        BY <3>1, <3>2
    <2>5. g \in Bijection(D, E)
      <3> HIDE DEF g, D, E
      <3> QED
        BY <2>2, <2>3, <2>4 DEF Bijection, Injection, Surjection, IsInjective
    <2>6. ExistsBijection(D, E)
      BY <2>5 DEF ExistsBijection
    <2> HIDE DEF D, E
    <2>7. Cardinality(D) = Cardinality(E)
      BY <2>1, <2>6, FS_Bijection
    <2> QED
      BY <1>1, <1>2, <2>7 DEF D, E
  <1> QED
    BY <1>2, <1>4, <1>7, <1>8 DEF Playable, IsSelection, n

-----------------------------------------------------------------------------
(* The questions of a plan *)

\* The candidates of a plan are identified by their keys, and there always are some.
LEMMA CandidatesAre ==
    ASSUME NEW b \in BOOLEAN
    PROVE  AreCandidates(Candidates(b)) /\ Candidates(b) # {}
  <1> DEFINE Q == {FromQuestion(q, Company, Round) : q \in Questions}
             R == {FromClaim(c) : c \in IF b THEN Claims ELSE {}}
             G == {FromTemplate(t) : t \in Templates}
  <1>1. Candidates(b) = Q \cup R \cup G
    BY DEF Candidates, Pool
  <1>2. IsFiniteSet(Q) /\ IsFiniteSet(R) /\ IsFiniteSet(G)
    <2>1. IsFiniteSet(IF b THEN Claims ELSE {})
      BY CandidateAssumption, FS_EmptySet
    <2>2. IsFiniteSet(Q)
      <3> DEFINE f == [q \in Questions |-> FromQuestion(q, Company, Round)]
      <3>1. f \in Surjection(Questions, Q)
        BY DEF Surjection
      <3> QED
        BY <3>1, CandidateAssumption, FS_Surjection
    <2>3. IsFiniteSet(R)
      <3> DEFINE S == IF b THEN Claims ELSE {}
                 f == [x \in S |-> FromClaim(x)]
      <3>1. f \in Surjection(S, R)
        BY DEF Surjection
      <3> QED
        BY <2>1, <3>1, FS_Surjection
    <2>4. IsFiniteSet(G)
      <3> DEFINE f == [t \in Templates |-> FromTemplate(t)]
      <3>1. f \in Surjection(Templates, G)
        BY DEF Surjection
      <3> QED
        BY <3>1, CandidateAssumption, FS_Surjection
    <2> QED
      BY <2>2, <2>3, <2>4
  <1>3. IsFiniteSet(Q \cup R \cup G)
    BY <1>2, FS_Union
  <1>4. ASSUME NEW c \in Q
        PROVE  /\ c.rank \in Int /\ c.used \in Int /\ c.source \in SourceSet /\ c.key \in Int
               /\ c.key \notin Claims \cup Templates
               /\ \E q \in Questions : c = FromQuestion(q, Company, Round) /\ c.key = q.key
    <2>1. PICK q \in Questions : c = FromQuestion(q, Company, Round)
      OBVIOUS
    <2>2. c.key = q.key /\ c.source = q.source /\ c.used = q.used
          /\ c.rank = MatchRank(q, Company, Round)
      BY <2>1 DEF FromQuestion
    <2>3. MatchRank(q, Company, Round) \in Int
      BY DEF MatchRank
    <2>4. q.key \in Int /\ q.used \in Int /\ q.source \in SourceSet /\ q.key \notin Claims \cup Templates
      BY CandidateAssumption
    <2>5. \E r \in Questions : c = FromQuestion(r, Company, Round) /\ c.key = r.key
      BY <2>1, <2>2
    <2> QED
      BY <2>2, <2>3, <2>4, <2>5
  <1>5. "resume" \in SourceSet /\ "generated" \in SourceSet
    BY FourSources
  <1>6. \A x : /\ FromClaim(x).key = x /\ FromClaim(x).rank = 0 /\ FromClaim(x).used = 0
               /\ FromClaim(x).source = "resume"
               /\ FromTemplate(x).key = x /\ FromTemplate(x).rank = 0 /\ FromTemplate(x).used = 0
               /\ FromTemplate(x).source = "generated"
    BY DEF FromClaim, FromTemplate
  <1>7. ASSUME NEW c \in R
        PROVE  /\ c.rank \in Int /\ c.used \in Int /\ c.source \in SourceSet /\ c.key \in Claims
               /\ c = FromClaim(c.key)
    <2>1. PICK x \in Claims : c = FromClaim(x)
      OBVIOUS
    <2> QED
      BY <1>5, <1>6, <2>1
  <1>8. ASSUME NEW c \in G
        PROVE  /\ c.rank \in Int /\ c.used \in Int /\ c.source \in SourceSet /\ c.key \in Templates
               /\ c = FromTemplate(c.key)
    <2>1. PICK x \in Templates : c = FromTemplate(x)
      OBVIOUS
    <2> QED
      BY <1>5, <1>6, <2>1
  <1>9. Claims \subseteq Int /\ Templates \subseteq Int /\ Claims \cap Templates = {}
    BY CandidateAssumption
  <1>10. G # {}
    BY SetupAssumption
  <1>11. ASSUME NEW c \in Q, NEW d \in Q, c.key = d.key PROVE c = d
    <2>1. PICK q \in Questions : c = FromQuestion(q, Company, Round) /\ c.key = q.key
      BY <1>4
    <2>2. PICK r \in Questions : d = FromQuestion(r, Company, Round) /\ d.key = r.key
      BY <1>4
    <2>3. q = r
      BY <1>11, <2>1, <2>2, CandidateAssumption
    <2> QED
      BY <2>1, <2>2, <2>3
  <1> HIDE DEF Q, R, G
  <1>12. ASSUME NEW c \in Q \cup R \cup G, NEW d \in Q \cup R \cup G, c.key = d.key PROVE c = d
    <2>1. CASE c \in Q
      <3>1. d \in Q
        BY <1>4, <1>7, <1>8, <1>12, <2>1
      <3> QED
        BY <1>11, <1>12, <2>1, <3>1
    <2>2. CASE c \in R
      <3>1. d \in R
        BY <1>4, <1>7, <1>8, <1>9, <1>12, <2>2
      <3>2. c = FromClaim(c.key) /\ d = FromClaim(d.key)
        BY <1>7, <2>2, <3>1
      <3> QED
        BY <1>12, <3>2
    <2>3. CASE c \in G
      <3>1. d \in G
        BY <1>4, <1>7, <1>8, <1>9, <1>12, <2>3
      <3>2. c = FromTemplate(c.key) /\ d = FromTemplate(d.key)
        BY <1>8, <2>3, <3>1
      <3> QED
        BY <1>12, <3>2
    <2> QED
      BY <2>1, <2>2, <2>3
  <1>13. \A c \in Q \cup R \cup G :
           c.rank \in Int /\ c.used \in Int /\ c.source \in SourceSet /\ c.key \in Int
    BY <1>4, <1>7, <1>8, <1>9
  <1> QED
    BY <1>1, <1>3, <1>10, <1>12, <1>13 DEF AreCandidates

\* What the model answers names the selected questions in some order.
LEMMA DraftIs ==
    ASSUME NEW selected, NEW draft \in Drafts(selected)
    PROVE  \E f \in [DOMAIN selected -> DOMAIN selected],
              a \in [DOMAIN selected -> Allocations], e \in {0, 1} :
              draft = [i \in DOMAIN selected |->
                          PlanQuestion(selected[f[i]], a[i], selected[f[i]].followUps + e)]
  <1> DEFINE F == [DOMAIN selected -> DOMAIN selected]
             A == [DOMAIN selected -> Allocations]
             D(f, a, e) == [i \in DOMAIN selected |->
                               PlanQuestion(selected[f[i]], a[i], selected[f[i]].followUps + e)]
  <1>1. Drafts(selected) = {D(f, a, e) : f \in F, a \in A, e \in {0, 1}}
    BY DEF Drafts
  <1>2. \E f \in F, a \in A, e \in {0, 1} : draft = D(f, a, e)
    <2> HIDE DEF D, F, A
    <2> QED
      BY <1>1
  <1> QED
    BY <1>2, Zenon

\* Whatever the model answers, the questions a worker writes can be played.
LEMMA ArrangementsPlayable ==
    ASSUME NEW c \in PlanConfigs, NEW b \in BOOLEAN, NEW questions \in Accepted[c][b]
    PROVE  /\ Playable(questions, Candidates(b), c.target, c.weights, c.seconds)
           /\ FitsSchema(questions)
  <1>1. /\ c.target \in Nat \ {0}
        /\ c.weights \in [SourceSet -> Nat] /\ TotalWeight(c.weights) > 0
        /\ c.seconds \in Nat /\ c.seconds >= c.target * MinQuestionSeconds
    BY SetupAssumption
  <1>2. AreCandidates(Candidates(b)) /\ Candidates(b) # {}
    BY CandidatesAre
  <1>3. questions \in Arrangements[c][b] /\ FitsSchema(questions)
    BY DEF Accepted
  <1>4. PICK selected \in Selections[c][b] :
          \E draft \in Drafts(selected) : questions = Arranged(selected, c.seconds, draft)
    BY <1>3, Zenon DEF Arrangements
  <1>6. PICK draft \in Drafts(selected) : questions = Arranged(selected, c.seconds, draft)
    BY <1>4
  <1>5. IsSelection(selected, Candidates(b), c.target, c.weights)
    <2>1. selected \in SelectCandidates(Candidates(b), c.target, c.weights)
      BY <1>4 DEF Selections
    <2> QED
      BY <1>1, <1>2, <2>1, SelectionIs
  <1>7. CASE questions = DeterministicQuestions(selected, c.seconds)
    BY <1>1, <1>2, <1>3, <1>5, <1>7, FallbackIsPlayable
  <1>8. CASE questions = draft /\ ValidDraft(draft, selected, c.seconds)
    <2>1. PICK f \in [DOMAIN selected -> DOMAIN selected],
               a \in [DOMAIN selected -> Allocations], e \in {0, 1} :
            draft = [i \in DOMAIN selected |->
                        PlanQuestion(selected[f[i]], a[i], selected[f[i]].followUps + e)]
      BY DraftIs
    <2>2. DOMAIN draft = DOMAIN selected
      BY <2>1
    <2>3. ASSUME NEW i \in DOMAIN selected
          PROVE  /\ f[i] \in DOMAIN selected
                 /\ draft[i].key = selected[f[i]].key
                 /\ draft[i].source = selected[f[i]].source
      <3>1. draft[i] = PlanQuestion(selected[f[i]], a[i], selected[f[i]].followUps + e)
        BY <2>1
      <3> QED
        BY <3>1 DEF PlanQuestion
    <2>4. Reorders(draft, selected, f)
      BY <2>2, <2>3 DEF Reorders
    <2>5. Playable(draft, Candidates(b), c.target, c.weights, c.seconds)
      BY <1>1, <1>2, <1>5, <1>8, <2>4, DraftIsPlayable
    <2> QED
      BY <1>3, <1>8, <2>5
  <1> QED
    BY <1>3, <1>6, <1>7, <1>8 DEF Arranged

-----------------------------------------------------------------------------
(* Plans that can be started from *)

\* An interview can be started from a plan.
Startable(p) == plans[p].status \in {"ready", "frozen"}

PlanJob(i) == jobs[i].kind = "plan"

\* A plan that can be started from has the questions its worker wrote for the
\* candidates it collected; it is the last thing its one job does.
ReadyOK ==
    /\ \A p \in DOMAIN plans : Startable(p) =>
         plans[p].questions \in Accepted[plans[p].config][plans[p].parsed]
    /\ \A i \in DOMAIN jobs : PlanJob(i) =>
         /\ jobs[i].of \in DOMAIN plans
         /\ Startable(jobs[i].of) => jobs[i].status = "completed"
    /\ \A i, j \in DOMAIN jobs : PlanJob(i) /\ PlanJob(j) /\ jobs[i].of = jobs[j].of => i = j
    /\ \A h \in Handlers : req[h].pc = "session" =>
         req[h].plan \in DOMAIN plans /\ Startable(req[h].plan)

\* The jobs of plans are those there were, and what is completed stays so.
PlanJobsKept ==
    \A i \in DOMAIN jobs' : jobs'[i].kind = "plan" =>
        /\ i \in DOMAIN jobs /\ PlanJob(i) /\ jobs'[i].of = jobs[i].of
        /\ jobs[i].status = "completed" => jobs'[i].status = "completed"

\* Plans keep their questions, and none becomes startable.
PlansKept ==
    /\ DOMAIN plans' = DOMAIN plans
    /\ \A p \in DOMAIN plans :
         /\ plans'[p].questions = plans[p].questions /\ plans'[p].config = plans[p].config
         /\ plans'[p].parsed = plans[p].parsed
         /\ plans'[p].status \in {"ready", "frozen"} => Startable(p)

\* A session is opened on a plan that can be started from, and that stays so.
SessionsKept ==
    \A h \in Handlers : req'[h].pc = "session" =>
        /\ req'[h].plan \in DOMAIN plans
        /\ plans'[req'[h].plan].status \in {"ready", "frozen"}

LEMMA ReadyKept == ASSUME ReadyOK, PlanJobsKept, PlansKept, SessionsKept PROVE ReadyOK'
  <1>1. ASSUME NEW p \in DOMAIN plans', Startable(p)'
        PROVE  plans'[p].questions \in Accepted[plans'[p].config][plans'[p].parsed]
    BY <1>1 DEF PlansKept, ReadyOK, Startable
  <1>2. ASSUME NEW i \in DOMAIN jobs', PlanJob(i)'
        PROVE  /\ jobs'[i].of \in DOMAIN plans'
               /\ Startable(jobs[i].of)' => jobs'[i].status = "completed"
    <2>1. i \in DOMAIN jobs /\ PlanJob(i) /\ jobs'[i].of = jobs[i].of
          /\ (jobs[i].status = "completed" => jobs'[i].status = "completed")
      BY <1>2 DEF PlanJobsKept, PlanJob
    <2> QED
      BY <2>1 DEF PlansKept, ReadyOK, Startable
  <1>3. ASSUME NEW i \in DOMAIN jobs', NEW j \in DOMAIN jobs', PlanJob(i)', PlanJob(j)',
               jobs'[i].of = jobs'[j].of
        PROVE  i = j
    BY <1>3 DEF PlanJobsKept, PlanJob, ReadyOK
  <1>4. \A h \in Handlers : req'[h].pc = "session" =>
          req'[h].plan \in DOMAIN plans' /\ Startable(req[h].plan)'
    BY DEF PlansKept, SessionsKept, Startable
  <1> QED
    BY <1>1, <1>2, <1>3, <1>4 DEF ReadyOK

LEMMA PlansUntouched ==
    ASSUME jobs' = jobs, plans' = plans
    PROVE  PlanJobsKept /\ PlansKept
  BY DEF PlanJobsKept, PlansKept, PlanJob, Startable

\* What an interview is started from is settled: its questions, and what they are for.
StartedFromFixed ==
    \A p \in DOMAIN plans : Startable(p) =>
        /\ p \in DOMAIN plans' /\ Startable(p)'
        /\ plans'[p].questions = plans[p].questions /\ plans'[p].config = plans[p].config
        /\ plans'[p].parsed = plans[p].parsed

\* The questions an interview has are those of its plan, and stay them.
ReadyKeeps == ReadyOK' /\ StartedFromFixed

LEMMA ReadyFixed ==
    ASSUME ReadyOK, PlanJobsKept, PlansKept,
           \A p \in DOMAIN plans : Startable(p) => plans'[p].status \in {"ready", "frozen"},
           \A h \in Handlers : req'[h].pc = "session" =>
               req[h].pc = "session" /\ req'[h].plan = req[h].plan
    PROVE  ReadyKeeps
  <1>1. SessionsKept
    BY DEF SessionsKept, ReadyOK
  <1>2. StartedFromFixed
    BY DEF StartedFromFixed, PlansKept, Startable
  <1> QED
    BY <1>1, <1>2, ReadyKept DEF ReadyKeeps

\* A request moves on, and does not begin a session.
LEMMA RequestReady ==
    ASSUME SetupInv, ReadyOK, PlanJobsKept, PlansKept, NEW h \in Handlers, NEW r,
           req' = [req EXCEPT ![h] = r], r.pc # "session",
           \A p \in DOMAIN plans : Startable(p) => plans'[p].status \in {"ready", "frozen"}
    PROVE  ReadyKeeps
  <1>1. req'[h] = r /\ \A g \in Handlers : g # h => req'[g] = req[g]
    BY DEF SetupInv, ReqsOK
  <1> QED
    BY <1>1, ReadyFixed

LEMMA OnlyRequestReady ==
    ASSUME SetupInv, ReadyOK, jobs' = jobs, plans' = plans, NEW h \in Handlers, NEW r,
           req' = [req EXCEPT ![h] = r], r.pc # "session"
    PROVE  ReadyKeeps
  <1>1. PlanJobsKept /\ PlansKept
    BY PlansUntouched
  <1>2. \A p \in DOMAIN plans : Startable(p) => plans'[p].status \in {"ready", "frozen"}
    BY DEF Startable
  <1> QED
    BY <1>1, <1>2, RequestReady

LEMMA NothingReady ==
    ASSUME ReadyOK, jobs' = jobs, plans' = plans, req' = req
    PROVE  ReadyKeeps
  <1>1. PlanJobsKept /\ PlansKept
    BY PlansUntouched
  <1> QED
    BY <1>1, ReadyFixed DEF Startable

LEMMA NoReqIdle == NoReq.pc = "idle"
  BY DEF NoReq

-----------------------------------------------------------------------------
(* Requests and the plans *)

LEMMA BeginReady == ASSUME SetupInv, ReadyOK, NEW h \in Handlers, Begin(h) PROVE ReadyKeeps
  <1>1. jobs' = jobs /\ plans' = plans
    BY DEF Begin, BeginUpload, LoadResume, BeginTask, LoadTask, LookAtSources, LockPlan
  <1>2. ASSUME NEW r, Goto(h, r), r.pc # "session" PROVE ReadyKeeps
    BY <1>1, <1>2, OnlyRequestReady DEF Goto
  <1>3. CASE BeginUpload(h)
    BY <1>2, <1>3 DEF BeginUpload, NoReq
  <1>4. CASE LoadResume(h)
    <2>1. PICK pc \in {"retry", "delete"} :
            Goto(h, [NoReq EXCEPT !.pc = pc, !.upload = resume.upload,
                                  !.version = resume.version, !.status = resume.status])
      BY <1>4 DEF LoadResume
    <2> QED
      BY <1>2, <2>1 DEF NoReq
  <1>5. CASE BeginTask(h)
    BY <1>2, <1>5 DEF BeginTask, NoReq
  <1>6. CASE LoadTask(h)
    <2>1. PICK status : Goto(h, [NoReq EXCEPT !.pc = "update task", !.status = status])
      BY <1>6 DEF LoadTask
    <2> QED
      BY <1>2, <2>1 DEF NoReq
  <1>7. CASE LookAtSources(h)
    <2>1. PICK config \in PlanConfigs :
            Goto(h, [NoReq EXCEPT !.pc = "plan", !.config = config,
                                  !.upload = IF config.resume THEN resume.upload ELSE 0])
      BY <1>7 DEF LookAtSources
    <2> QED
      BY <1>2, <2>1 DEF NoReq
  <1>8. CASE LockPlan(h)
    <2>4. PICK p \in DOMAIN plans :
            /\ plans[p].status \in {"ready", "frozen"}
            /\ Goto(h, [NoReq EXCEPT !.pc = "session", !.plan = p,
                          !.status = IF plans[p].config.task THEN tasks[1].status ELSE None])
      BY <1>8 DEF LockPlan
    <2> DEFINE r == [NoReq EXCEPT !.pc = "session", !.plan = p,
                          !.status = IF plans[p].config.task THEN tasks[1].status ELSE None]
    <2>1. req' = [req EXCEPT ![h] = r] /\ r.plan = p /\ Startable(p)
      BY <2>4 DEF Goto, NoReq, Startable
    <2> HIDE DEF r
    <2>2. req'[h] = r /\ \A g \in Handlers : g # h => req'[g] = req[g]
      BY <2>1 DEF SetupInv, ReqsOK
    <2>3. SessionsKept
      BY <1>1, <2>1, <2>2 DEF SessionsKept, ReadyOK, Startable
    <2>5. StartedFromFixed
      BY <1>1 DEF StartedFromFixed, Startable
    <2> QED
      BY <1>1, <2>3, <2>5, PlansUntouched, ReadyKept DEF ReadyKeeps
  <1> QED
    BY <1>3, <1>4, <1>5, <1>6, <1>7, <1>8 DEF Begin

\* What neither writes plans nor jobs.
LEMMA QuietReady ==
    ASSUME SetupInv, ReadyOK, NEW h \in Handlers,
           \/ WriteUpload(h) \/ LookAtJob(h) \/ DeleteJobs(h) \/ Unlink(h)
           \/ InsertTask(h) \/ WriteTask(h) \/ Lose(h)
    PROVE  ReadyKeeps
  <1>1. jobs' = jobs /\ plans' = plans
    BY DEF WriteUpload, LookAtJob, DeleteJobs, Unlink, InsertTask, WriteTask, Lose
  <1>2. \E r : req' = [req EXCEPT ![h] = r] /\ r.pc # "session"
    <2>1. CASE Done(h)
      BY <2>1, NoReqIdle DEF Done
    <2>2. CASE WriteUpload(h) /\ ~Done(h)
      <3>1. PICK x : x = [NoReq EXCEPT !.pc = "written", !.upload = uploads']
        OBVIOUS
      <3>2. req' = [req EXCEPT ![h] = x] /\ x.pc = "written"
        BY <2>2, <3>1 DEF WriteUpload, Goto, NoReq
      <3> QED
        BY <3>2
    <2>3. CASE (LookAtJob(h) \/ DeleteJobs(h)) /\ ~Done(h)
      <3>1. PICK x \in Req : x = req[h]
        BY DEF SetupInv, ReqsOK
      <3>2. CASE LookAtJob(h)
        <4>1. req' = [req EXCEPT ![h] = [x EXCEPT !.pc = "requeue"]]
          BY <2>3, <3>1, <3>2 DEF LookAtJob, Goto
        <4>2. [x EXCEPT !.pc = "requeue"].pc = "requeue"
          BY DEF Req
        <4> QED
          BY <4>1, <4>2
      <3>3. CASE DeleteJobs(h)
        <4>1. req' = [req EXCEPT ![h] = [x EXCEPT !.pc = "deleting",
                                                  !.taken = ParseJobs(x.upload)]]
          BY <3>1, <3>3 DEF DeleteJobs, Goto
        <4>2. [x EXCEPT !.pc = "deleting", !.taken = ParseJobs(x.upload)].pc = "deleting"
          BY DEF Req
        <4> QED
          BY <4>1, <4>2
      <3> QED
        BY <2>3, <3>2, <3>3
    <2> QED
      BY <2>1, <2>2, <2>3 DEF Unlink, InsertTask, WriteTask, Lose
  <1> QED
    BY <1>1, <1>2, OnlyRequestReady

\* A parse job is added.
LEMMA ParseJobReady ==
    ASSUME SetupInv, ReadyOK, NEW h \in Handlers, Done(h), plans' = plans,
           NEW of \in Nat, NEW suffix \in Nat, jobs' = Append(jobs, NewJob("parse", of, suffix))
    PROVE  ReadyKeeps
  <1>1. jobs \in Seq(JobRow)
    BY DEF SetupInv, JobsOK
  <1>2. /\ DOMAIN jobs' = DOMAIN jobs \cup {Len(jobs) + 1}
        /\ \A i \in DOMAIN jobs : jobs'[i] = jobs[i]
        /\ jobs'[Len(jobs) + 1] = NewJob("parse", of, suffix)
    BY <1>1
  <1>3. NewJob("parse", of, suffix).kind = "parse"
    BY DEF NewJob
  <1>4. PlanJobsKept
    BY <1>2, <1>3 DEF PlanJobsKept, PlanJob
  <1>5. PlansKept
    BY DEF PlansKept, Startable
  <1> QED
    BY <1>4, <1>5, NoReqIdle, RequestReady DEF Done, Startable

LEMMA CommitUploadReady ==
    ASSUME SetupInv, ReadyOK, NEW h \in Handlers, CommitUpload(h) PROVE ReadyKeeps
  <1>1. req[h].upload \in Nat
    BY DEF SetupInv, ReqsOK, Req
  <1> QED
    BY <1>1, ParseJobReady DEF CommitUpload

LEMMA RequeueReady == ASSUME SetupInv, ReadyOK, NEW h \in Handlers, Requeue(h) PROVE ReadyKeeps
  <1>1. req[h].upload \in Nat /\ req[h].version + 1 \in Nat
    BY DEF SetupInv, ReqsOK, Req
  <1>2. Done(h) /\ plans' = plans
    BY DEF Requeue
  <1>3. CASE jobs' = jobs
    BY <1>2, <1>3, NoReqIdle, OnlyRequestReady DEF Done
  <1>4. CASE jobs' = Append(jobs, NewJob("parse", req[h].upload, req[h].version + 1))
    BY <1>1, <1>2, <1>4, ParseJobReady
  <1> QED
    BY <1>3, <1>4 DEF Requeue

LEMMA CommitDeleteReady ==
    ASSUME SetupInv, ReadyOK, NEW h \in Handlers, CommitDelete(h) PROVE ReadyKeeps
  <1>1. /\ req[h].pc = "deleting"
        /\ jobs' = [i \in DOMAIN jobs |->
                      IF i \in req[h].taken THEN [jobs[i] EXCEPT !.status = "gone"] ELSE jobs[i]]
        /\ plans' = [p \in DOMAIN plans |->
                       IF plans[p].resume = req[h].upload
                       THEN [plans[p] EXCEPT !.resume = None] ELSE plans[p]]
    BY DEF CommitDelete, At
  <1>2. \A i \in req[h].taken : jobs[i].kind = "parse"
    BY <1>1 DEF SetupInv, ReqsOK, ReqOK
  <1>3. PlanJobsKept
    <2>1. ASSUME NEW i \in DOMAIN jobs, i \in req[h].taken PROVE jobs'[i].kind = "parse"
      <3>1. jobs[i] \in JobRow /\ jobs'[i] = [jobs[i] EXCEPT !.status = "gone"]
        BY <1>1, <2>1, JobTypes DEF SetupInv
      <3> QED
        BY <1>2, <2>1, <3>1 DEF JobRow
    <2>2. \A i \in DOMAIN jobs : i \notin req[h].taken => jobs'[i] = jobs[i]
      BY <1>1
    <2>3. DOMAIN jobs' = DOMAIN jobs
      BY <1>1
    <2> QED
      BY <2>1, <2>2, <2>3 DEF PlanJobsKept, PlanJob
  <1>4. \A p \in DOMAIN plans :
          /\ plans'[p].questions = plans[p].questions /\ plans'[p].config = plans[p].config
          /\ plans'[p].parsed = plans[p].parsed /\ plans'[p].status = plans[p].status
    <2> TAKE p \in DOMAIN plans
    <2>1. plans[p] \in PlanRow
      BY PlanTypes DEF SetupInv
    <2>2. plans'[p] \in {plans[p], [plans[p] EXCEPT !.resume = None]}
      BY <1>1
    <2> QED
      BY <2>1, <2>2 DEF PlanRow
  <1>5. DOMAIN plans' = DOMAIN plans
    BY <1>1
  <1>6. PlansKept
    BY <1>4, <1>5 DEF PlansKept, Startable
  <1>7. PICK x : req' = [req EXCEPT ![h] = x] /\ x.pc = "unlink"
    <2>1. PICK x : x = [NoReq EXCEPT !.pc = "unlink", !.upload = req[h].upload]
      OBVIOUS
    <2>2. req' = [req EXCEPT ![h] = x] /\ x.pc = "unlink"
      BY <2>1 DEF CommitDelete, Goto, NoReq
    <2> QED
      BY <2>2
  <1> QED
    BY <1>3, <1>4, <1>6, <1>7, RequestReady DEF Startable

\* A plan and its job are new.
LEMMA CommitPlanReady ==
    ASSUME SetupInv, ReadyOK, NEW h \in Handlers, CommitPlan(h) PROVE ReadyKeeps
  <1>1. req' = [req EXCEPT ![h] = NoReq]
    BY DEF CommitPlan, Done
  <1>2. CASE UNCHANGED <<plans, jobs>>
    BY <1>1, <1>2, NoReqIdle, OnlyRequestReady
  <1>3. CASE ~UNCHANGED <<plans, jobs>>
    <2>1. PICK x : /\ plans' = Append(plans, x)
                   /\ x = [status |-> "draft", config |-> req[h].config, parsed |-> FALSE,
                           resume |-> IF req[h].upload = 0 THEN None ELSE req[h].upload,
                           questions |-> <<>>]
      BY <1>3 DEF CommitPlan
    <2>2. x.status = "draft"
      BY <2>1
    <2>3. jobs' = Append(jobs, NewJob("plan", Len(plans'), 0))
      BY <1>3 DEF CommitPlan
    <2>4. plans \in Seq(PlanRow) /\ jobs \in Seq(JobRow)
      BY DEF SetupInv, PlansOK, JobsOK
    <2>5. PICK n \in Nat : n = Len(plans)
      BY <2>4
    <2>6. /\ DOMAIN plans = 1..n /\ DOMAIN plans' = 1..(n + 1) /\ Len(plans') = n + 1
          /\ plans'[n + 1] = x /\ \A p \in 1..n : plans'[p] = plans[p]
      BY <2>1, <2>4, <2>5
    <2>7. PICK m \in Nat : m = Len(jobs)
      BY <2>4
    <2>8. /\ DOMAIN jobs = 1..m /\ DOMAIN jobs' = 1..(m + 1)
          /\ jobs'[m + 1] = NewJob("plan", n + 1, 0) /\ \A i \in 1..m : jobs'[i] = jobs[i]
      BY <2>3, <2>4, <2>6, <2>7
    <2>9. jobs'[m + 1].of = n + 1
      BY <2>8 DEF NewJob
    <2>10. \A i \in 1..m : jobs[i].kind = "plan" => jobs[i].of \in 1..n
      BY <2>6, <2>8 DEF ReadyOK, PlanJob
    <2>11. req'[h].pc = "idle" /\ \A g \in Handlers : g # h => req'[g] = req[g]
      BY <1>1, NoReqIdle DEF SetupInv, ReqsOK
    <2>12. \A p \in DOMAIN plans' : Startable(p)' => p \in 1..n /\ Startable(p)
      BY <2>2, <2>6 DEF Startable
    <2>13. \A p \in DOMAIN plans' : Startable(p)' =>
             plans'[p].questions \in Accepted[plans'[p].config][plans'[p].parsed]
      BY <2>6, <2>12 DEF ReadyOK
    <2>14. ASSUME NEW i \in DOMAIN jobs', PlanJob(i)'
           PROVE  /\ jobs'[i].of \in DOMAIN plans'
                  /\ Startable(jobs[i].of)' => jobs'[i].status = "completed"
      <3>1. CASE i = m + 1
        BY <2>6, <2>9, <2>12, <3>1
      <3>2. CASE i # m + 1
        <4>1. i \in 1..m /\ jobs'[i] = jobs[i] /\ PlanJob(i)
          BY <2>8, <2>14, <3>2 DEF PlanJob
        <4>2. jobs[i].of \in 1..n /\ (Startable(jobs[i].of) => jobs[i].status = "completed")
          BY <2>6, <2>8, <4>1 DEF ReadyOK
        <4>3. Startable(jobs[i].of)' => Startable(jobs[i].of)
          BY <2>6, <4>1, <4>2 DEF Startable
        <4> QED
          BY <2>6, <4>1, <4>2, <4>3
      <3> QED
        BY <3>1, <3>2
    <2>15. ASSUME NEW i \in DOMAIN jobs', NEW j \in DOMAIN jobs', PlanJob(i)', PlanJob(j)',
                  jobs'[i].of = jobs'[j].of
           PROVE  i = j
      <3>1. \A k \in DOMAIN jobs' : PlanJob(k)' /\ k # m + 1 =>
              k \in 1..m /\ PlanJob(k) /\ jobs'[k].of = jobs[k].of /\ jobs[k].of \in 1..n
        BY <2>8, <2>10 DEF PlanJob
      <3>2. n + 1 \notin 1..n
        OBVIOUS
      <3>3. CASE i = m + 1
        BY <2>9, <2>15, <3>1, <3>2, <3>3
      <3>4. CASE j = m + 1
        BY <2>9, <2>15, <3>1, <3>2, <3>4
      <3>5. CASE i # m + 1 /\ j # m + 1
        BY <2>8, <2>15, <3>1, <3>5 DEF ReadyOK
      <3> QED
        BY <3>3, <3>4, <3>5
    <2>16. \A g \in Handlers : req'[g].pc = "session" =>
             req'[g].plan \in DOMAIN plans' /\ Startable(req[g].plan)'
      <3> SUFFICES ASSUME NEW g \in Handlers, req'[g].pc = "session"
                   PROVE  req'[g].plan \in DOMAIN plans' /\ Startable(req[g].plan)'
        OBVIOUS
      <3>1. req'[g] = req[g]
        BY <2>11
      <3>2. req[g].plan \in 1..n /\ Startable(req[g].plan)
        BY <2>6, <3>1 DEF ReadyOK
      <3> QED
        BY <2>6, <3>1, <3>2 DEF Startable
    <2>17. StartedFromFixed
      BY <2>6 DEF StartedFromFixed, Startable
    <2> QED
      BY <2>13, <2>14, <2>15, <2>16, <2>17 DEF ReadyKeeps, ReadyOK
  <1> QED
    BY <1>2, <1>3

\* A session freezes the plan that it has locked.
LEMMA CommitSessionReady ==
    ASSUME SetupInv, ReadyOK, NEW h \in Handlers, CommitSession(h) PROVE ReadyKeeps
  <1>1. PICK p \in DOMAIN plans : p = req[h].plan /\ Startable(p)
    BY DEF CommitSession, At, ReadyOK
  <1>2. plans' = [plans EXCEPT ![p].status = "frozen"] /\ jobs' = jobs
        /\ req' = [req EXCEPT ![h] = NoReq]
    BY <1>1 DEF CommitSession, Done
  <1>3. plans[p] \in PlanRow
    BY PlanTypes DEF SetupInv
  <1>4. /\ DOMAIN plans' = DOMAIN plans
        /\ plans'[p] = [plans[p] EXCEPT !.status = "frozen"]
        /\ \A q \in DOMAIN plans : q # p => plans'[q] = plans[q]
    BY <1>2 DEF SetupInv, PlansOK
  <1>5. /\ plans'[p].questions = plans[p].questions /\ plans'[p].config = plans[p].config
        /\ plans'[p].parsed = plans[p].parsed /\ plans'[p].status = "frozen"
    BY <1>3, <1>4 DEF PlanRow
  <1>6. PlansKept
    BY <1>1, <1>4, <1>5 DEF PlansKept, Startable
  <1>7. PlanJobsKept
    BY <1>2 DEF PlanJobsKept, PlanJob
  <1> QED
    BY <1>2, <1>4, <1>5, <1>6, <1>7, NoReqIdle, RequestReady DEF Startable

-----------------------------------------------------------------------------
(* Workers and the plans *)

\* The status of a job that is not completed is written, and perhaps of a plan that
\* cannot be started from.
LEMMA JobMovesReady ==
    ASSUME SetupInv, ReadyOK, NEW i \in DOMAIN jobs, NEW x, jobs' = [jobs EXCEPT ![i] = x],
           x.kind = jobs[i].kind, x.of = jobs[i].of, jobs[i].status # "completed",
           req' = req, PlansKept,
           \A p \in DOMAIN plans : Startable(p) => plans'[p].status \in {"ready", "frozen"}
    PROVE  ReadyKeeps
  <1>1. /\ DOMAIN jobs' = DOMAIN jobs /\ jobs'[i] = x
        /\ \A j \in DOMAIN jobs : j # i => jobs'[j] = jobs[j]
    BY DEF SetupInv, JobsOK
  <1>2. PlanJobsKept
    BY <1>1 DEF PlanJobsKept, PlanJob
  <1> QED
    BY <1>2, ReadyFixed

LEMMA SamePlans ==
    ASSUME plans' = plans
    PROVE  /\ PlansKept
           /\ \A p \in DOMAIN plans : Startable(p) => plans'[p].status \in {"ready", "frozen"}
  BY DEF PlansKept, Startable

LEMMA ClaimReady == ASSUME SetupInv, ReadyOK, NEW w \in Workers, Claim(w) PROVE ReadyKeeps
  <1>1. plans' = plans /\ req' = req
    BY DEF Claim
  <1>2. PICK i \in DOMAIN jobs :
          /\ jobs[i].status = "queued"
          /\ jobs' = [jobs EXCEPT ![i].status = "running", ![i].attempts = @ + 1]
    BY DEF Claim, Claimable
  <1>3. jobs[i] \in JobRow
    BY JobTypes DEF SetupInv
  <1>4. PICK x : x = [jobs[i] EXCEPT !.status = "running", !.attempts = @ + 1]
    OBVIOUS
  <1>5. x.kind = jobs[i].kind /\ x.of = jobs[i].of
    BY <1>3, <1>4 DEF JobRow
  <1>6. jobs' = [jobs EXCEPT ![i] = x]
    BY <1>2, <1>3, <1>4 DEF SetupInv, JobsOK, JobRow
  <1> QED
    BY <1>1, <1>2, <1>5, <1>6, SamePlans, JobMovesReady

\* The job of a plan that fails was not completed, so its plan could not be started from.
LEMMA FailReady ==
    ASSUME SetupInv, ReadyOK, NEW w \in Workers, NEW retryable \in BOOLEAN, work[w].pc # "idle",
           Fail(w, retryable)
    PROVE  ReadyKeeps
  <1>1. req' = req
    BY DEF Fail
  <1>2. PICK i \in DOMAIN jobs : i = work[w].job
    BY DEF SetupInv, WorksOK, WorkOK
  <1>3. jobs[i] \in JobRow /\ jobs[i].status \in {"running", "gone"} /\ Job(w) = jobs[i]
    BY <1>2, WorkTypes DEF SetupInv, Job
  <1>4. CASE jobs[i].status = "gone"
    BY <1>1, <1>3, <1>4, NothingReady DEF Fail
  <1>5. CASE jobs[i].status # "gone"
    <2>1. PICK again \in BOOLEAN : again <=> (retryable /\ jobs[i].attempts < MaxAttempts)
      OBVIOUS
    <2>2. PICK s \in {"queued", "failed"} : jobs' = [jobs EXCEPT ![i].status = s]
      BY <1>2, <1>3, <1>5 DEF Fail
    <2>3. PICK x : x = [jobs[i] EXCEPT !.status = s]
      OBVIOUS
    <2>4. x.kind = jobs[i].kind /\ x.of = jobs[i].of /\ jobs' = [jobs EXCEPT ![i] = x]
      BY <1>3, <2>2, <2>3 DEF JobRow
    <2>5. CASE plans' = plans
      BY <1>1, <1>3, <2>4, <2>5, SamePlans, JobMovesReady
    <2>6. CASE plans' # plans
      <3>1. jobs[i].kind = "plan" /\ plans' = [plans EXCEPT ![jobs[i].of].status = "failed"]
        BY <1>2, <1>3, <1>5, <2>6 DEF Fail
      <3>2. PICK p \in DOMAIN plans : p = jobs[i].of /\ ~Startable(p)
        BY <1>3, <3>1 DEF ReadyOK, PlanJob
      <3>3. plans[p] \in PlanRow
        BY PlanTypes DEF SetupInv
      <3>4. /\ DOMAIN plans' = DOMAIN plans
            /\ plans'[p] = [plans[p] EXCEPT !.status = "failed"]
            /\ \A q \in DOMAIN plans : q # p => plans'[q] = plans[q]
        BY <3>1, <3>2 DEF SetupInv, PlansOK
      <3>5. /\ plans'[p].questions = plans[p].questions /\ plans'[p].config = plans[p].config
            /\ plans'[p].parsed = plans[p].parsed /\ plans'[p].status = "failed"
        BY <3>3, <3>4 DEF PlanRow
      <3>6. PlansKept
        BY <3>4, <3>5 DEF PlansKept, Startable
      <3>7. \A q \in DOMAIN plans : Startable(q) => plans'[q].status \in {"ready", "frozen"}
        BY <3>2, <3>4 DEF Startable
      <3> QED
        BY <1>1, <1>3, <2>4, <3>6, <3>7, JobMovesReady
    <2> QED
      BY <2>5, <2>6
  <1> QED
    BY <1>4, <1>5

LEMMA BeginParseReady ==
    ASSUME SetupInv, ReadyOK, NEW w \in Workers, BeginParse(w) PROVE ReadyKeeps
  <1>1. CASE Fail(w, FALSE)
    BY <1>1, FailReady DEF BeginParse
  <1>2. CASE ~Fail(w, FALSE)
    <2>1. jobs' = jobs /\ plans' = plans /\ req' = req
      BY <1>2 DEF BeginParse
    <2> QED
      BY <2>1, NothingReady
  <1> QED
    BY <1>1, <1>2

LEMMA FinishParseReady ==
    ASSUME SetupInv, ReadyOK, NEW w \in Workers, FinishParse(w) PROVE ReadyKeeps
  <1>1. /\ work[w].pc = "parsing" /\ plans' = plans /\ req' = req
        /\ jobs' = [jobs EXCEPT ![work[w].job].status = "completed"]
    BY DEF FinishParse
  <1>2. PICK i \in DOMAIN jobs : i = work[w].job
    BY <1>1 DEF SetupInv, WorksOK, WorkOK
  <1>3. jobs[i] \in JobRow /\ jobs[i].status \in {"running", "gone"}
    BY <1>1, <1>2, WorkTypes DEF SetupInv, Job
  <1>4. PICK x : x = [jobs[i] EXCEPT !.status = "completed"]
    OBVIOUS
  <1>5. x.kind = jobs[i].kind /\ x.of = jobs[i].of /\ jobs' = [jobs EXCEPT ![i] = x]
    BY <1>1, <1>2, <1>3, <1>4 DEF JobRow
  <1> QED
    BY <1>1, <1>3, <1>5, SamePlans, JobMovesReady

\* The plan of a worker's job was not written by anyone else, and there is no other
\* job of it: this is the one time that it gets its questions.
LEMMA FinishPlanReady ==
    ASSUME SetupInv, ReadyOK, NEW w \in Workers, FinishPlan(w) PROVE ReadyKeeps
  <1>1. work[w].pc = "planning" /\ req' = req
        /\ jobs' = [jobs EXCEPT ![work[w].job].status = "completed"]
    BY DEF FinishPlan
  <1>2. PICK i \in DOMAIN jobs : i = work[w].job
    BY <1>1 DEF SetupInv, WorksOK, WorkOK
  <1>3. /\ jobs[i] \in JobRow /\ jobs[i].status \in {"running", "gone"}
        /\ jobs[i].kind = "plan" /\ Job(w) = jobs[i]
    BY <1>1, <1>2, WorkTypes DEF SetupInv, Job
  <1>4. PICK p \in DOMAIN plans : p = jobs[i].of /\ ~Startable(p)
    BY <1>3 DEF ReadyOK, PlanJob
  <1>5. PICK b \in BOOLEAN : b = work[w].parsed
    BY WorkTypes DEF SetupInv, Work
  <1>6. PICK questions \in Accepted[plans[p].config][b] :
          plans' = [plans EXCEPT ![p].status = "ready", ![p].parsed = b, ![p].questions = questions]
    <2>1. p = Job(w).of
      BY <1>3, <1>4
    <2>2. PICK questions \in Accepted[plans[Job(w).of].config][work[w].parsed] :
            plans' = [plans EXCEPT ![Job(w).of].status = "ready",
                                   ![Job(w).of].parsed = work[w].parsed,
                                   ![Job(w).of].questions = questions]
      BY Zenon DEF FinishPlan
    <2> QED
      BY <1>5, <2>1, <2>2
  <1>7. plans[p] \in PlanRow
    BY PlanTypes DEF SetupInv
  <1>8. /\ DOMAIN plans' = DOMAIN plans
        /\ plans'[p] = [plans[p] EXCEPT !.status = "ready", !.parsed = b, !.questions = questions]
        /\ \A q \in DOMAIN plans : q # p => plans'[q] = plans[q]
    BY <1>6, <1>7 DEF SetupInv, PlansOK, PlanRow
  <1>9. /\ plans'[p].questions = questions /\ plans'[p].config = plans[p].config
        /\ plans'[p].parsed = b
    BY <1>7, <1>8 DEF PlanRow
  <1>10. PICK x : x = [jobs[i] EXCEPT !.status = "completed"]
    OBVIOUS
  <1>11. /\ DOMAIN jobs' = DOMAIN jobs /\ jobs'[i] = x
         /\ \A j \in DOMAIN jobs : j # i => jobs'[j] = jobs[j]
    BY <1>1, <1>2, <1>3, <1>10 DEF SetupInv, JobsOK
  <1>12. x.kind = "plan" /\ x.of = p /\ x.status = "completed"
    BY <1>3, <1>4, <1>10 DEF JobRow
  <1>13. \A q \in DOMAIN plans' : Startable(q)' =>
           plans'[q].questions \in Accepted[plans'[q].config][plans'[q].parsed]
    <2> SUFFICES ASSUME NEW q \in DOMAIN plans', Startable(q)'
                 PROVE  plans'[q].questions \in Accepted[plans'[q].config][plans'[q].parsed]
      OBVIOUS
    <2>1. CASE q = p
      BY <1>6, <1>9, <2>1
    <2>2. CASE q # p
      BY <1>8, <2>2 DEF ReadyOK, Startable
    <2> QED
      BY <2>1, <2>2
  <1>14. ASSUME NEW j \in DOMAIN jobs', PlanJob(j)'
         PROVE  /\ jobs'[j].of \in DOMAIN plans'
                /\ Startable(jobs[j].of)' => jobs'[j].status = "completed"
    <2>1. CASE j = i
      BY <1>8, <1>11, <1>12, <2>1
    <2>2. CASE j # i
      <3>1. j \in DOMAIN jobs /\ jobs'[j] = jobs[j] /\ PlanJob(j)
        BY <1>11, <1>14, <2>2 DEF PlanJob
      <3>2. PICK q \in DOMAIN plans : q = jobs[j].of
        BY <3>1 DEF ReadyOK
      <3>3. q # p
        BY <1>3, <1>4, <2>2, <3>1, <3>2 DEF ReadyOK, PlanJob
      <3>4. Startable(q)' <=> Startable(q)
        BY <1>8, <3>2, <3>3 DEF Startable
      <3>5. Startable(jobs[j].of)' <=> Startable(q)'
        BY <3>1, <3>2 DEF Startable
      <3> QED
        BY <1>8, <3>1, <3>2, <3>4, <3>5 DEF ReadyOK
    <2> QED
      BY <2>1, <2>2
  <1>15. ASSUME NEW j \in DOMAIN jobs', NEW k \in DOMAIN jobs', PlanJob(j)', PlanJob(k)',
                jobs'[j].of = jobs'[k].of
         PROVE  j = k
    <2>1. \A m \in DOMAIN jobs : jobs'[m].kind = jobs[m].kind /\ jobs'[m].of = jobs[m].of
      BY <1>3, <1>4, <1>11, <1>12
    <2> QED
      BY <1>11, <1>15, <2>1 DEF ReadyOK, PlanJob
  <1>16. \A h \in Handlers : req'[h].pc = "session" =>
           req'[h].plan \in DOMAIN plans' /\ Startable(req[h].plan)'
    <2> SUFFICES ASSUME NEW h \in Handlers, req[h].pc = "session"
                 PROVE  req[h].plan \in DOMAIN plans' /\ plans'[req[h].plan].status \in {"ready", "frozen"}
      BY <1>1 DEF Startable
    <2>1. req[h].plan \in DOMAIN plans /\ Startable(req[h].plan) /\ req[h].plan # p
      BY <1>4 DEF ReadyOK
    <2> QED
      BY <1>8, <2>1 DEF Startable
  <1>17. StartedFromFixed
    BY <1>4, <1>8 DEF StartedFromFixed, Startable
  <1> QED
    BY <1>13, <1>14, <1>15, <1>16, <1>17 DEF ReadyKeeps, ReadyOK

-----------------------------------------------------------------------------
(* What can be started from can be played *)

LEMMA StepReady == ASSUME SetupInv, ReadyOK, [Next]_vars PROVE ReadyKeeps
  <1>1. ASSUME NEW h \in Handlers, Begin(h) \/ HandlerStep(h) \/ Lose(h) PROVE ReadyKeeps
    BY <1>1, BeginReady, QuietReady, CommitUploadReady, RequeueReady, CommitDeleteReady,
       CommitPlanReady, CommitSessionReady DEF HandlerStep
  <1>2. ASSUME NEW w \in Workers, FailParse(w) \/ RejectPlan(w) \/ FailPlan(w) PROVE ReadyKeeps
    <2>1. work[w].pc # "idle" /\ \E retryable \in BOOLEAN : Fail(w, retryable)
      BY <1>2 DEF FailParse, RejectPlan, FailPlan
    <2> QED
      BY <2>1, FailReady
  <1>3. ASSUME NEW w \in Workers, CollectPool(w) \/ Kill(w) PROVE ReadyKeeps
    <2>1. jobs' = jobs /\ plans' = plans /\ req' = req
      BY <1>3 DEF CollectPool, Kill
    <2> QED
      BY <2>1, NothingReady
  <1>4. ASSUME NEW w \in Workers, WorkerStep(w) PROVE ReadyKeeps
    BY <1>2, <1>3, <1>4, ClaimReady, BeginParseReady, FinishParseReady, FinishPlanReady
    DEF WorkerStep
  <1>5. CASE UNCHANGED vars
    BY <1>5, NothingReady DEF vars
  <1> QED
    BY <1>1, <1>3, <1>4, <1>5 DEF Next

LEMMA ReadyInvariant == Spec => [](SetupInv /\ ReadyOK)
  <1>1. Init => SetupInv /\ ReadyOK
    <2>1. Init => ReadyOK
      BY DEF Init, ReadyOK, NoReq
    <2> QED
      BY <2>1, InitSetupInv
  <1>2. SetupInv /\ ReadyOK /\ [Next]_vars => (SetupInv /\ ReadyOK)'
    BY StepSetupInv, StepReady DEF ReadyKeeps
  <1> QED
    BY <1>1, <1>2, PTL DEF Spec

LEMMA ImpliesPlayable == ASSUME SetupInv, ReadyOK PROVE PlansArePlayable
  <1>1. SUFFICES ASSUME NEW p \in DOMAIN plans, Startable(p)
        PROVE  LET plan == plans[p]
                   qs == plan.questions
                   from(s) == Cardinality({i \in DOMAIN qs : qs[i].source = s})
                   there(s) == Cardinality({c \in Candidates(plan.parsed) : c.source = s})
               IN  /\ Len(qs) = Wanted(plan)
                   /\ Cardinality({qs[i].key : i \in DOMAIN qs}) = Len(qs)
                   /\ \A s \in SourceSet :
                        from(s) >= Min({LeastShare(s, plan.config.target, plan.config.weights), there(s)})
                   /\ FitsSchema(qs)
                   /\ Seconds(qs) = plan.config.seconds
    BY DEF PlansArePlayable, Startable
  <1>2. PICK plan : plan = plans[p]
    OBVIOUS
  <1>3. plan.config \in PlanConfigs /\ plan.parsed \in BOOLEAN
    BY <1>2, PlanTypes DEF SetupInv, PlanRow
  <1>4. PICK c \in PlanConfigs, b \in BOOLEAN : c = plan.config /\ b = plan.parsed
    BY <1>3
  <1>5. PICK questions \in Accepted[c][b] : questions = plan.questions
    BY <1>1, <1>2, <1>4, Zenon DEF ReadyOK
  <1>6. /\ Playable(questions, Candidates(b), c.target, c.weights, c.seconds)
        /\ FitsSchema(questions)
    BY ArrangementsPlayable
  <1> QED
    BY <1>2, <1>4, <1>5, <1>6 DEF Playable, OfSource, Wanted

\* An interview that can be started has as many different questions as there are,
\* its sources in the shares that were asked for, and just the time it was given:
\* for any bank, claims, templates, weights and answers of the model, and however
\* requests, workers and faults interleave.
THEOREM SetupPlansArePlayable == Spec => []PlansArePlayable
  <1>1. SetupInv /\ ReadyOK => PlansArePlayable
    BY ImpliesPlayable
  <1> QED
    BY <1>1, ReadyInvariant, PTL

\* A plan that an interview can be started from keeps its questions and what they
\* are for, however often sessions freeze it and whatever the jobs and the deletion of
\* its resume do meanwhile: the interview plays the plan its user has seen.
THEOREM SetupPlansStay == Spec => [][StartedFromFixed]_vars
  <1>1. SetupInv /\ ReadyOK /\ [Next]_vars => StartedFromFixed
    BY StepReady DEF ReadyKeeps
  <1>2. SetupInv /\ ReadyOK /\ [Next]_vars => [StartedFromFixed]_vars
    BY <1>1
  <1> QED
    BY <1>2, ReadyInvariant, PTL DEF Spec

===============================================================================
