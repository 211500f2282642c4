------------------------- MODULE EvaluationJobsProofs -------------------------
(***************************************************************************)
(* EvaluationJobs for any number of workers, crashes, late status writes   *)
(* and retry requests, overlapping or not.  What the requests do to one    *)
(* another is counted by overruns: the workers busy with the session and   *)
(* the attempts of its job are bounded by it, and the job, the report and  *)
(* the session agree as long as it is 0.                                   *)
(***************************************************************************)
EXTENDS EvaluationJobs, FiniteSetTheorems, TLAPS

-----------------------------------------------------------------------------
(* The moves of a worker *)

WorkerState == [pc: WorkerPcs, retryable: BOOLEAN]

LEMMA GotoType ==
    ASSUME worker \in [Workers -> WorkerState], NEW w \in Workers, NEW pc \in WorkerPcs,
           Goto(w, pc)
    PROVE  /\ worker' \in [Workers -> WorkerState]
           /\ worker'[w].pc = pc
           /\ \A v \in Workers : v # w => worker'[v] = worker[v]
  <1>1. [worker[w] EXCEPT !.pc = pc] \in WorkerState
    BY DEF WorkerState
  <1> QED
    BY <1>1 DEF Goto, WorkerState

LEMMA RaiseType ==
    ASSUME worker \in [Workers -> WorkerState], NEW w \in Workers, NEW b \in BOOLEAN,
           Raise(w, b)
    PROVE  /\ worker' \in [Workers -> WorkerState]
           /\ worker'[w].pc = "fail"
           /\ \A v \in Workers : v # w => worker'[v] = worker[v]
  <1>1. [pc |-> "fail", retryable |-> b] \in WorkerState
    BY DEF WorkerState, WorkerPcs
  <1> QED
    BY <1>1 DEF Raise

LEMMA ReturnType ==
    ASSUME worker \in [Workers -> WorkerState], NEW w \in Workers, Return(w)
    PROVE  /\ worker' \in [Workers -> WorkerState]
           /\ worker'[w].pc = "idle"
           /\ \A v \in Workers : v # w => worker'[v] = worker[v]
  BY DEF Return, Idle, WorkerState, WorkerPcs

\* A worker's step moves that worker only, along the code's order.
LEMMA StepMoves ==
    ASSUME TypeOK, NEW w \in Workers, WorkerStep(w) \/ Crash(w)
    PROVE  /\ worker' \in [Workers -> WorkerState]
           /\ \A v \in Workers : v # w => worker'[v] = worker[v]
           /\ UNCHANGED <<retrier, retries, overruns>>
  <1>1. worker \in [Workers -> WorkerState]
    BY DEF TypeOK, WorkerState
  <1>2. {"ready", "load", "evaluate", "persist", "finish"} \subseteq WorkerPcs
    BY DEF WorkerPcs
  <1>3. CASE Claim(w)
    BY <1>1, <1>2, <1>3, GotoType DEF Claim
  <1>4. CASE Prepare(w)
    BY <1>1, <1>2, <1>4, GotoType, RaiseType, ReturnType DEF Prepare
  <1>5. CASE Load(w)
    BY <1>1, <1>2, <1>5, GotoType, RaiseType DEF Load
  <1>6. CASE Evaluate(w)
    BY <1>1, <1>2, <1>6, GotoType, RaiseType DEF Evaluate
  <1>7. CASE Persist(w)
    BY <1>1, <1>2, <1>7, GotoType DEF Persist
  <1>8. CASE FinishJob(w) \/ Fail(w) \/ Crash(w)
    BY <1>1, <1>8, ReturnType DEF FinishJob, Fail, Crash
  <1> QED
    BY <1>3, <1>4, <1>5, <1>6, <1>7, <1>8 DEF WorkerStep

-----------------------------------------------------------------------------
(* Types *)

LEMMA InitType == Init => TypeOK
  BY EvaluationAssumption DEF Init, TypeOK, JobStatuses, WorkerPcs, Idle, NoRequest

\* What a busy worker's step, or its end, does to the job.
LEMMA JobMoves ==
    ASSUME TypeOK, NEW w \in Workers, WorkerStep(w) \/ Crash(w)
    PROVE  \/ UNCHANGED job
           \/ /\ Claim(w)
              /\ job.status = "queued"
              /\ job' = [status |-> "running", attempts |-> job.attempts + 1]
           \/ /\ worker'[w].pc = "idle"
              /\ job.status = "running"
              /\ job' = [job EXCEPT !.status = "completed"]
           \/ /\ worker'[w].pc = "idle"
              /\ job' = [job EXCEPT !.status = "failed"]
           \/ /\ worker'[w].pc = "idle"
              /\ job.attempts < MaxAttempts
              /\ job' = [job EXCEPT !.status = "queued"]
  <1>1. worker \in [Workers -> WorkerState]
    BY DEF TypeOK, WorkerState
  <1>2. CASE FinishJob(w)
    BY <1>1, <1>2, ReturnType DEF FinishJob
  <1>3. CASE Fail(w)
    BY <1>1, <1>3, ReturnType DEF Fail, MayRetry
  <1>4. CASE Claim(w)
    BY <1>4 DEF Claim
  <1> QED
    BY <1>2, <1>3, <1>4 DEF WorkerStep, Crash, Prepare, Load, Evaluate, Persist

LEMMA StepType == TypeOK /\ [Next]_vars => TypeOK'
  <1> SUFFICES ASSUME TypeOK, [Next]_vars PROVE TypeOK'
    OBVIOUS
  <1> USE EvaluationAssumption DEF TypeOK, JobStatuses, WorkerPcs
  <1>1. CASE FinishSession
    BY <1>1 DEF FinishSession
  <1>2. CASE LateStatusWrite
    BY <1>2 DEF LateStatusWrite
  <1>3. ASSUME NEW w \in Workers, WorkerStep(w) \/ Crash(w) PROVE TypeOK'
    <2>1. worker' \in [Workers -> WorkerState] /\ UNCHANGED <<retrier, retries, overruns>>
      BY <1>3, StepMoves
    <2>2. job' \in [status: JobStatuses, attempts: Nat]
      BY <1>3, JobMoves
    <2>3. report' \in {"none", "pending", "running", "completed", "failed"}
      BY <1>3 DEF WorkerStep, Crash, Claim, Prepare, Load, Evaluate, Persist, FinishJob, Fail
    <2>4. session' \in {"interviewing", "completed", "evaluating"}
      BY <1>3 DEF WorkerStep, Crash, Claim, Prepare, Load, Evaluate, Persist, FinishJob, Fail
    <2>5. \/ UNCHANGED crashes
          \/ crashes < MaxCrashes /\ crashes' = crashes + 1
      BY <1>3 DEF WorkerStep, Crash, Claim, Prepare, Load, Evaluate, Persist, FinishJob, Fail
    <2> QED
      BY <2>1, <2>2, <2>3, <2>4, <2>5 DEF WorkerState
  <1>4. ASSUME NEW r \in Retriers, AskRetry(r) PROVE TypeOK'
    BY <1>4 DEF AskRetry
  <1>5. ASSUME NEW r \in Retriers, Requeue(r) PROVE TypeOK'
    <2>1. retrier' \in [Retriers -> [pc: {"idle", "write", "stale"},
                                     keeps: SUBSET {"attempts", "report"}]]
      BY <1>5 DEF Requeue, NoRequest
    <2> QED
      BY <1>5, <2>1 DEF Requeue
  <1>6. CASE UNCHANGED vars
    BY <1>6 DEF vars
  <1> QED
    BY <1>1, <1>2, <1>3, <1>4, <1>5, <1>6 DEF Next

-----------------------------------------------------------------------------
(* Who has the job in hand *)

Busy(w) == worker[w].pc # "idle"
BusyWorkers == {w \in Workers : ~At(w, "idle")}

\* The workers that have the session's evaluation in hand and the one that a
\* queued job will be handed to.
Hands == Cardinality(BusyWorkers) + (IF job.status = "queued" THEN 1 ELSE 0)

\* There is one more of them than overruns, none more once the job is over; and
\* as long as nobody has written the job since a retry loaded it, there is room
\* for the one that retry adds.
HandsInv ==
    /\ IsFiniteSet(BusyWorkers)
    /\ Hands <= 1 + overruns
    /\ job.status \notin {"queued", "running"} => Hands <= overruns
    /\ \A r \in Retriers : retrier[r].pc = "write" => Hands <= overruns
    /\ job.status = "none" => report = "none" /\ BusyWorkers = {}
    /\ job.status = "none" => \A r \in Retriers : retrier[r].pc # "write"

LEMMA HandsInit == Init => HandsInv
  <1> SUFFICES ASSUME Init PROVE HandsInv
    OBVIOUS
  <1>1. BusyWorkers = {}
    BY DEF Init, BusyWorkers, At, Idle
  <1> QED
    BY <1>1, FS_EmptySet DEF Init, HandsInv, Hands, NoRequest

\* How many are busy after a worker's step.
LEMMA BusyAfter ==
    ASSUME TypeOK, IsFiniteSet(BusyWorkers), NEW w \in Workers, WorkerStep(w) \/ Crash(w)
    PROVE  /\ IsFiniteSet(BusyWorkers')
           /\ Claim(w) => Cardinality(BusyWorkers') = Cardinality(BusyWorkers) + 1
           /\ ~Claim(w) =>
                 /\ w \in BusyWorkers
                 /\ Cardinality(BusyWorkers) \in Nat \ {0}
                 /\ BusyWorkers' \subseteq BusyWorkers
                 /\ Cardinality(BusyWorkers') <= Cardinality(BusyWorkers)
           /\ ~Claim(w) /\ worker'[w].pc = "idle" =>
                 Cardinality(BusyWorkers') = Cardinality(BusyWorkers) - 1
           /\ Cardinality(BusyWorkers') \in Nat
  <1>1. /\ worker \in [Workers -> WorkerState]
        /\ worker' \in [Workers -> WorkerState]
        /\ \A v \in Workers : v # w => worker'[v] = worker[v]
    BY StepMoves DEF TypeOK, WorkerState
  <1>2. Cardinality(BusyWorkers) \in Nat
    BY FS_CardinalityType
  <1>3. CASE Claim(w)
    <2>1. worker[w].pc = "idle" /\ worker'[w].pc = "ready"
      BY <1>1, <1>3, GotoType DEF Claim, At, WorkerPcs
    <2>2. w \notin BusyWorkers /\ BusyWorkers' = BusyWorkers \cup {w}
      BY <1>1, <2>1 DEF BusyWorkers, At
    <2> QED
      BY <1>2, <1>3, <2>2, FS_AddElement, FS_CardinalityType
  <1>4. CASE ~Claim(w)
    <2>1. w \in BusyWorkers
      BY <1>4 DEF WorkerStep, Crash, Prepare, Load, Evaluate, Persist, FinishJob, Fail,
                  BusyWorkers, At
    <2>2. BusyWorkers' = IF worker'[w].pc = "idle" THEN BusyWorkers \ {w} ELSE BusyWorkers
      BY <1>1, <2>1 DEF BusyWorkers, At
    <2>3. /\ IsFiniteSet(BusyWorkers \ {w})
          /\ Cardinality(BusyWorkers \ {w}) = Cardinality(BusyWorkers) - 1
      BY <2>1, FS_RemoveElement
    <2>4. Cardinality(BusyWorkers \ {w}) \in Nat
      BY <2>3, FS_CardinalityType
    <2> QED
      BY <1>2, <1>4, <2>1, <2>2, <2>3, <2>4
  <1> QED
    BY <1>3, <1>4

LEMMA HandsWorker ==
    ASSUME TypeOK, HandsInv, NEW w \in Workers, WorkerStep(w) \/ Crash(w)
    PROVE  HandsInv'
  <1> DEFINE N == Cardinality(BusyWorkers)
             M == Cardinality(BusyWorkers')
  <1>1. UNCHANGED <<retrier, retries, overruns>> /\ overruns \in Nat
    BY StepMoves DEF TypeOK
  <1>2. /\ IsFiniteSet(BusyWorkers') /\ M \in Nat /\ N \in Nat
        /\ Claim(w) => M = N + 1
        /\ ~Claim(w) => N # 0 /\ M <= N /\ w \in BusyWorkers
        /\ ~Claim(w) /\ worker'[w].pc = "idle" => M = N - 1
    BY BusyAfter, FS_CardinalityType DEF HandsInv
  <1>3. job \in [status: JobStatuses, attempts: Nat]
    BY DEF TypeOK
  <1>4. Claim(w) => job.status = "queued" /\ job'.status = "running"
    BY DEF Claim
  <1>5. job.status # "none" /\ job'.status # "none"
    <2>1. CASE Claim(w)
      BY <1>4, <2>1
    <2>2. CASE ~Claim(w)
      BY <1>2, <1>3, <2>2, JobMoves DEF HandsInv
    <2> QED
      BY <2>1, <2>2
  <1> HIDE DEF N, M
  <1>6. /\ Hands = N + (IF job.status = "queued" THEN 1 ELSE 0)
        /\ Hands' = M + (IF job'.status = "queued" THEN 1 ELSE 0)
    BY DEF Hands, N, M
  <1>7. /\ Hands <= 1 + overruns
        /\ job.status \notin {"queued", "running"} => Hands <= overruns
        /\ \A r \in Retriers : retrier[r].pc = "write" => Hands <= overruns
    BY DEF HandsInv
  <1>8. Hands' <= Hands
    BY <1>2, <1>3, <1>4, <1>6, JobMoves
  <1>9. job'.status \notin {"queued", "running"} => Hands' <= overruns
    BY <1>1, <1>2, <1>3, <1>4, <1>6, <1>7, <1>8, JobMoves
  <1>10. Hands \in Nat /\ Hands' \in Nat
    BY <1>2, <1>6
  <1> QED
    BY <1>1, <1>2, <1>5, <1>7, <1>8, <1>9, <1>10 DEF HandsInv

LEMMA HandsStep ==
    ASSUME TypeOK, HandsInv, [Next]_vars
    PROVE  HandsInv'
  <1>1. /\ Cardinality(BusyWorkers) \in Nat /\ overruns \in Nat
        /\ job \in [status: JobStatuses, attempts: Nat]
    BY FS_CardinalityType DEF HandsInv, TypeOK
  <1> USE <1>1 DEF HandsInv, Hands
  <1>2. CASE UNCHANGED <<job, worker, report, retrier, overruns>>
    BY <1>2 DEF BusyWorkers, At
  <1>3. CASE FinishSession
    <2>1. UNCHANGED <<worker, report, retrier, overruns>> /\ BusyWorkers' = BusyWorkers
      BY <1>3 DEF FinishSession, BusyWorkers, At
    <2>2. CASE job.status = "none"
      BY <1>3, <2>1, <2>2 DEF FinishSession
    <2> QED
      BY <1>2, <1>3, <2>1, <2>2 DEF FinishSession
  <1>4. ASSUME NEW w \in Workers, WorkerStep(w) \/ Crash(w) PROVE HandsInv'
    BY <1>4, HandsWorker
  <1>5. ASSUME NEW r \in Retriers, AskRetry(r) PROVE HandsInv'
    <2>1. /\ job.status \notin {"none", "queued", "running"}
          /\ UNCHANGED <<job, worker, report, overruns>> /\ BusyWorkers' = BusyWorkers
      BY <1>5 DEF AskRetry, Retriable, BusyWorkers, At
    <2> QED
      BY <2>1
  <1>6. ASSUME NEW r \in Retriers, Requeue(r) PROVE HandsInv'
    <2>1. /\ job'.status = "queued" /\ BusyWorkers' = BusyWorkers
          /\ \A q \in Retriers : retrier'[q].pc # "write"
      BY <1>6 DEF Requeue, BusyWorkers, At, NoRequest, TypeOK
    <2>2. CASE retrier[r].pc = "write"
      BY <1>6, <2>1, <2>2 DEF Requeue
    <2>3. CASE retrier[r].pc = "stale"
      BY <1>6, <2>1, <2>3 DEF Requeue
    <2> QED
      BY <1>6, <2>2, <2>3 DEF Requeue, TypeOK
  <1> QED
    BY <1>2, <1>3, <1>4, <1>5, <1>6 DEF Next, LateStatusWrite, vars

-----------------------------------------------------------------------------
(* Attempts *)

\* A job is queued below its last attempt, but for one attempt per overrun.  Only
\* an overrun leaves a finished job without an attempt, so that the retry that
\* loads it leaves the attempts alone.
AttemptsInv ==
    /\ AttemptsBounded
    /\ job.status = "none" => job.attempts = 0
    /\ job.status = "queued" => job.attempts < MaxAttempts + overruns
    /\ job.status \in {"running", "completed", "failed"} /\ job.attempts = 0 => overruns # 0
    /\ \A r \in Retriers : retrier[r].pc = "write" /\ "attempts" \in retrier[r].keeps =>
          /\ overruns # 0
          /\ job.attempts <= MaxAttempts
          /\ job.status = "queued" => job.attempts < MaxAttempts

LEMMA AttemptsInit == Init => AttemptsInv
  BY EvaluationAssumption DEF Init, AttemptsInv, AttemptsBounded, NoRequest

LEMMA AttemptsStep ==
    ASSUME TypeOK, HandsInv, AttemptsInv, [Next]_vars
    PROVE  AttemptsInv'
  <1>1. /\ job \in [status: JobStatuses, attempts: Nat] /\ overruns \in Nat
        /\ MaxAttempts \in Nat \ {0}
    BY EvaluationAssumption DEF TypeOK
  <1> USE <1>1 DEF AttemptsInv, AttemptsBounded
  <1>2. CASE UNCHANGED <<job, retrier, overruns>>
    BY <1>2
  <1>3. CASE FinishSession
    BY <1>3, <1>2 DEF FinishSession, HandsInv
  <1>4. ASSUME NEW w \in Workers, WorkerStep(w) \/ Crash(w) PROVE AttemptsInv'
    <2>1. UNCHANGED <<retrier, overruns>>
      BY <1>4, StepMoves
    \* Whoever fails a queued job holds it beside its next worker.
    <2>2. ~Claim(w) /\ job.status = "queued" => overruns # 0
      <3>1. IsFiniteSet(BusyWorkers)
        BY DEF HandsInv
      <3>2. ~Claim(w) => Cardinality(BusyWorkers) \in Nat \ {0}
        BY <1>4, <3>1, BusyAfter
      <3> QED
        BY <3>2 DEF HandsInv, Hands
    <2>3. ~Claim(w) => job.status # "none"
      BY <1>4, BusyAfter DEF HandsInv
    <2>4. Claim(w) => job.status = "queued" /\ job'.status = "running"
      BY DEF Claim
    <2>5. CASE UNCHANGED job
      BY <1>2, <2>1, <2>5
    <2>6. CASE job.status = "queued" /\ job' = [status |-> "running", attempts |-> job.attempts + 1]
      BY <2>1, <2>6
    <2>7. CASE job.status = "running" /\ job' = [job EXCEPT !.status = "completed"]
      BY <2>1, <2>7
    <2>8. CASE ~Claim(w) /\ job' = [job EXCEPT !.status = "failed"]
      BY <2>1, <2>2, <2>3, <2>8 DEF JobStatuses
    <2>9. CASE job.attempts < MaxAttempts /\ job' = [job EXCEPT !.status = "queued"]
      BY <2>1, <2>9
    <2> QED
      BY <1>4, <2>4, <2>5, <2>6, <2>7, <2>8, <2>9, JobMoves
  <1>5. ASSUME NEW r \in Retriers, AskRetry(r) PROVE AttemptsInv'
    <2>1. job.status \in {"completed", "failed"} /\ UNCHANGED <<job, overruns>>
      BY <1>5 DEF AskRetry, Retriable, HandsInv, JobStatuses
    <2>2. /\ \A q \in Retriers \ {r} : retrier'[q] = retrier[q]
          /\ "attempts" \in retrier'[r].keeps => job.attempts = 0
      BY <1>5 DEF AskRetry, TypeOK
    <2> QED
      BY <2>1, <2>2
  <1>6. ASSUME NEW r \in Retriers, Requeue(r) PROVE AttemptsInv'
    <2>1. /\ job' = [status |-> "queued",
                     attempts |-> IF "attempts" \in retrier[r].keeps THEN job.attempts ELSE 0]
          /\ overruns' = IF retrier[r].pc = "stale" THEN overruns + 1 ELSE overruns
          /\ retrier[r].pc \in {"write", "stale"}
          /\ \A q \in Retriers : retrier'[q].pc # "write"
      BY <1>6 DEF Requeue, NoRequest, TypeOK
    <2> QED
      BY <2>1
  <1> QED
    BY <1>2, <1>3, <1>4, <1>5, <1>6 DEF Next, LateStatusWrite, vars

LEMMA HandsInvariance == Spec => [](TypeOK /\ HandsInv /\ AttemptsInv)
  <1>1. Init => TypeOK /\ HandsInv /\ AttemptsInv
    BY InitType, HandsInit, AttemptsInit
  <1>2. TypeOK /\ HandsInv /\ AttemptsInv /\ [Next]_vars => (TypeOK /\ HandsInv /\ AttemptsInv)'
    BY StepType, HandsStep, AttemptsStep
  <1> QED
    BY <1>1, <1>2, PTL DEF Spec

-----------------------------------------------------------------------------
(* One evaluation at a time *)

\* A worker that is not idle holds the running job, alone; nobody works on the
\* job a retry request has found over, unless it was written since; and what a
\* worker has persisted is still there when it completes the job.
JobInv ==
    /\ \A v, w \in Workers : Busy(v) /\ Busy(w) => v = w
    /\ \A w \in Workers : Busy(w) => job.status = "running"
    /\ \A w \in Workers : worker[w].pc = "finish" =>
          report = "completed" /\ session # "evaluating"
    /\ \A r \in Retriers : retrier[r].pc = "write" => job.status \in {"completed", "failed"}
    /\ report # "none" => job.status # "none"
    /\ JobAndReportAgree

LEMMA JobInit == Init => JobInv
  BY DEF Init, JobInv, Idle, NoRequest, Busy, JobAndReportAgree

LEMMA JobWorker ==
    ASSUME TypeOK, JobInv, overruns = 0, NEW w \in Workers, WorkerStep(w) \/ Crash(w)
    PROVE  JobInv'
  <1> USE DEF JobInv, JobAndReportAgree, At
  <1>1. /\ worker' \in [Workers -> WorkerState]
        /\ \A v \in Workers : v # w => worker'[v] = worker[v]
        /\ UNCHANGED <<retrier, retries, overruns>>
    BY StepMoves
  <1>2. worker \in [Workers -> WorkerState] /\ job \in [status: JobStatuses, attempts: Nat]
    BY DEF TypeOK, WorkerState
  \* Whoever moves, the others are idle: one worker is concerned at a time.
  <1>3. (\A v \in Workers : v # w => ~Busy(v)) => \A v \in Workers : v # w => ~Busy(v)'
    BY <1>1 DEF Busy
  <1>4. CASE Claim(w)
    <2>1. /\ job.status = "queued" /\ job'.status = "running"
          /\ UNCHANGED <<report, session>>
      BY <1>4 DEF Claim
    <2>2. worker'[w].pc = "ready"
      BY <1>2, <1>4, GotoType DEF Claim, WorkerPcs
    <2>3. \A v \in Workers : ~Busy(v)
      BY <2>1
    <2> QED
      BY <1>1, <1>3, <2>1, <2>2, <2>3 DEF Busy
  <1>5. CASE Busy(w)
    <2>1. \A v \in Workers : v # w => ~Busy(v)
      BY <1>5
    <2>2. job.status = "running" /\ \A r \in Retriers : retrier[r].pc # "write"
      BY <1>5
    <2>3. ASSUME job'.status = "running", worker'[w].pc # "finish", report' # "none" \/ report = report'
          PROVE  JobInv'
      BY <1>1, <1>3, <2>1, <2>2, <2>3 DEF Busy
    <2>4. CASE Prepare(w) \/ Load(w) \/ Evaluate(w)
      <3>1. UNCHANGED job /\ (report' # "none" \/ report = report')
        BY <2>4 DEF Prepare, Load, Evaluate
      <3>2. worker'[w].pc # "finish"
        BY <1>2, <2>4, GotoType, RaiseType, ReturnType DEF Prepare, Load, Evaluate, WorkerPcs
      <3> QED
        BY <2>2, <2>3, <3>1, <3>2
    <2>5. CASE Persist(w)
      <3>1. UNCHANGED job /\ report' = "completed" /\ session' = "completed"
        BY <2>5 DEF Persist
      <3> QED
        BY <1>1, <1>3, <2>1, <2>2, <3>1 DEF Busy
    <2>6. CASE FinishJob(w)
      <3>1. /\ job' = [job EXCEPT !.status = "completed"] /\ UNCHANGED <<report, session>>
            /\ worker[w].pc = "finish"
        BY <2>2, <2>6 DEF FinishJob
      <3>2. worker'[w].pc = "idle" /\ job'.status = "completed"
        BY <1>2, <2>6, <3>1, ReturnType DEF FinishJob
      <3> QED
        BY <1>1, <1>3, <2>1, <2>2, <3>1, <3>2 DEF Busy
    <2>7. CASE Fail(w)
      <3>1. worker'[w].pc = "idle"
        BY <1>2, <2>7, ReturnType DEF Fail
      <3>2. \/ job'.status = "queued" /\ report' = "pending"
            \/ job'.status = "failed" /\ report' = "failed" /\ session' = "completed"
        BY <1>2, <2>7 DEF Fail
      <3> QED
        BY <1>1, <1>3, <2>1, <2>2, <3>1, <3>2 DEF Busy
    <2>8. CASE Crash(w)
      <3>1. worker'[w].pc = "idle" /\ UNCHANGED <<job, report, session>>
        BY <1>2, <2>8, ReturnType DEF Crash
      <3> QED
        BY <2>2, <2>3, <3>1
    <2> QED
      BY <1>5, <2>4, <2>5, <2>6, <2>7, <2>8 DEF WorkerStep, Claim, Busy
  <1> QED
    BY <1>4, <1>5 DEF WorkerStep, Prepare, Load, Evaluate, Persist, FinishJob, Fail, Crash, Busy

LEMMA JobStep ==
    ASSUME TypeOK, overruns = 0 => JobInv, [Next]_vars, overruns' = 0
    PROVE  JobInv'
  <1>1. overruns = 0
    <2>1. overruns' = overruns \/ overruns' = overruns + 1
      BY StepMoves DEF Next, FinishSession, LateStatusWrite, AskRetry, Requeue, vars
    <2> QED
      BY <2>1 DEF TypeOK
  <1>2. JobInv
    BY <1>1
  <1> USE <1>1 DEF JobInv, JobAndReportAgree, Busy
  <1>3. CASE FinishSession
    BY <1>2, <1>3 DEF FinishSession, TypeOK, JobStatuses
  <1>4. CASE LateStatusWrite
    BY <1>2, <1>4 DEF LateStatusWrite
  <1>5. ASSUME NEW w \in Workers, WorkerStep(w) \/ Crash(w) PROVE JobInv'
    BY <1>2, <1>5, JobWorker
  <1>6. ASSUME NEW r \in Retriers, AskRetry(r) PROVE JobInv'
    <2>1. job.status \in {"completed", "failed"}
      BY <1>2, <1>6 DEF AskRetry, Retriable, TypeOK, JobStatuses
    <2> QED
      BY <1>2, <1>6, <2>1 DEF AskRetry
  <1>7. ASSUME NEW r \in Retriers, Requeue(r) PROVE JobInv'
    <2>1. retrier[r].pc = "write"
      BY <1>7 DEF Requeue, TypeOK
    <2>2. \A s \in Retriers : retrier'[s].pc # "write"
      BY <1>7 DEF Requeue, NoRequest, TypeOK
    <2>3. \A w \in Workers : worker[w].pc = "idle"
      BY <1>2, <2>1
    <2> QED
      BY <1>2, <1>7, <2>1, <2>2, <2>3 DEF Requeue
  <1>8. CASE UNCHANGED vars
    BY <1>2, <1>8 DEF vars
  <1> QED
    BY <1>3, <1>4, <1>5, <1>6, <1>7, <1>8 DEF Next

LEMMA JobInvariance == Spec => [](overruns = 0 => JobInv)
  <1>1. Init => (overruns = 0 => JobInv)
    BY JobInit
  <1>2. TypeOK /\ (overruns = 0 => JobInv) /\ [Next]_vars => (overruns = 0 => JobInv)'
    BY JobStep
  <1>3. TypeOK /\ HandsInv /\ AttemptsInv => TypeOK
    OBVIOUS
  <1> QED
    BY <1>1, <1>2, <1>3, HandsInvariance, PTL DEF Spec

-----------------------------------------------------------------------------
(* The theorems *)

\* The job row, the report, the session and the workers keep their types.
THEOREM EvaluationTypeOK == Spec => []TypeOK
  BY HandsInvariance, PTL

\* Whatever fails, crashes or is asked for again, the job is attempted at most
\* max_attempts times in a row, and once more per retry written over another
\* (claim_next_evaluation_job, _fail_job, retry_evaluation).
THEOREM EvaluationAttemptsBounded == Spec => []AttemptsBounded
  <1>1. AttemptsInv => AttemptsBounded
    BY DEF AttemptsInv
  <1> QED
    BY <1>1, HandsInvariance, PTL

\* However many workers there are, are killed, and however many retry requests
\* overlap: beyond the first, every worker that has the evaluation in hand is there
\* for a retry that was written over another (retry_evaluation locks no row).
THEOREM OneEvaluator == Spec => []OneEvaluatorAtATime
  <1>1. TypeOK /\ HandsInv => OneEvaluatorAtATime
    <2> SUFFICES ASSUME TypeOK, HandsInv PROVE OneEvaluatorAtATime
      OBVIOUS
    <2>1. Cardinality(BusyWorkers) \in Nat /\ overruns \in Nat
      BY FS_CardinalityType DEF HandsInv, TypeOK
    <2>2. Cardinality(BusyWorkers) <= 1 + overruns
      BY <2>1 DEF HandsInv, Hands
    <2> QED
      BY <2>2 DEF OneEvaluatorAtATime, BusyWorkers
  <1> QED
    BY <1>1, HandsInvariance, PTL

\* Until a retry is written over another, a job that is over and its report agree,
\* and a session that is EVALUATING has a job that will end it, with any number of
\* overlapping requests and whatever stale status write interferes (_fail_job,
\* _persist_draft, retry_evaluation).
THEOREM JobReportAgreement == Spec => []JobAndReportAgree
  <1>1. (overruns = 0 => JobInv) => JobAndReportAgree
    BY DEF JobInv, JobAndReportAgree
  <1> QED
    BY <1>1, JobInvariance, PTL
=============================================================================
