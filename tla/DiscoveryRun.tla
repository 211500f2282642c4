----------------------------- MODULE DiscoveryRun -----------------------------
(***************************************************************************)
(* Question discovery runs: the user's side (services/question_discovery), *)
(* the worker (workers/discovery_jobs.py, with the row lock question       *)
(* curation takes), the recovery of lost workers, and retention.           *)
(*                                                                         *)
(* A run is cancelled by a status the worker looks for between its steps.  *)
(* A look and the write it protects are two actions here where the write   *)
(* is one of the status; a worker that has written candidates holds the    *)
(* row's lock from then to its commit, so that no cancellation gets in     *)
(* between.                                                                *)
(***************************************************************************)
EXTENDS Naturals, FiniteSets

CONSTANTS
    Runs,            \* discovery runs of one profile, each with its own job
    Workers,         \* worker processes
    MaxConcurrent,   \* discovery_max_concurrent_runs_per_profile
    MaxCrashes,      \* bound: workers killed
    NoRun            \* a worker without a run

ASSUME DiscoveryAssumption ==
    /\ NoRun \notin Runs
    /\ IsFiniteSet(Runs)
    /\ MaxConcurrent \in Nat
    /\ MaxCrashes \in Nat

VARIABLES
    status,    \* run.status; "none" before create_run, "deleted" after deletion
    sources,   \* per run: which statuses its source cards have
    job,       \* status of the run's BackgroundJob, "none" when there is no row
    worker,    \* per worker: where it is, on which run, whether it locks the row
    crashes    \* workers killed so far

vars == <<status, sources, job, worker, crashes>>

-----------------------------------------------------------------------------
(* Types *)

Successes == {"succeeded", "partial", "no_results"}
TerminalStatuses == Successes \cup {"failed", "cancelled"}
ActiveStatuses == {"queued", "running", "cancel_requested"}
SourceStatuses == {"pending", "fetched", "failed"}   \* BLOCKED counts as failed

Pcs == {"idle", "load", "check_start", "start", "retrieve", "extract", "curate",
        "persist", "check_end", "complete", "cancel", "check_fail", "fail"}

TypeOK ==
    /\ status \in [Runs -> ActiveStatuses \cup TerminalStatuses \cup {"none", "deleted"}]
    /\ sources \in [Runs -> SUBSET SourceStatuses]
    /\ job \in [Runs -> {"none", "queued", "running", "completed", "failed", "cancelled"}]
    /\ worker \in [Workers -> [pc: Pcs, run: Runs \cup {NoRun}, locks: BOOLEAN]]
    /\ crashes \in 0..MaxCrashes

Idle == [pc |-> "idle", run |-> NoRun, locks |-> FALSE]

Init ==
    /\ status = [r \in Runs |-> "none"]
    /\ sources = [r \in Runs |-> {}]
    /\ job = [r \in Runs |-> "none"]
    /\ worker = [w \in Workers |-> Idle]
    /\ crashes = 0

-----------------------------------------------------------------------------
(* The user, and retention *)

\* Bug: a run that is being cancelled does not count.
Bug_CancellingIsFree == {r \in Runs : status[r] \in {"queued", "running"}}

ActiveRuns == {r \in Runs : status[r] \in ActiveStatuses}

\* create_run, under the profile's advisory lock: run and job together.
Create(r) ==
    /\ status[r] = "none"
    /\ Cardinality(ActiveRuns) < MaxConcurrent
    /\ status' = [status EXCEPT ![r] = "queued"]
    /\ job' = [job EXCEPT ![r] = "queued"]
    /\ UNCHANGED <<sources, worker, crashes>>

\* request_cancel: an UPDATE guarded by the status, which waits for a row lock.
RequestCancel(r) ==
    /\ status[r] \in {"queued", "running"}
    /\ \A w \in Workers : ~(worker[w].run = r /\ worker[w].locks)
    /\ status' = [status EXCEPT ![r] = "cancel_requested"]
    /\ UNCHANGED <<sources, job, worker, crashes>>

\* delete_run: a finished run goes with its job and its source cards.
Delete(r) ==
    /\ status[r] \in TerminalStatuses
    /\ status' = [status EXCEPT ![r] = "deleted"]
    /\ sources' = [sources EXCEPT ![r] = {}]
    /\ job' = [job EXCEPT ![r] = "none"]
    /\ UNCHANGED <<worker, crashes>>

\* cleanup_expired_discovery_runs leaves the job row.
Expire(r) ==
    /\ status[r] \in TerminalStatuses
    /\ status' = [status EXCEPT ![r] = "deleted"]
    /\ sources' = [sources EXCEPT ![r] = {}]
    /\ UNCHANGED <<job, worker, crashes>>

-----------------------------------------------------------------------------
(* The worker *)

At(w, pc) == worker[w].pc = pc
Run(w) == worker[w].run
Goto(w, pc) == worker' = [worker EXCEPT ![w].pc = pc]
Return(w) == worker' = [worker EXCEPT ![w] = Idle]

CancelRequested(w) == status[Run(w)] = "cancel_requested"

\* _raise_if_cancelled: DiscoveryCancelled leaves the transaction, which is
\* rolled back, for _cancel_job.
Cancelled(w) ==
    /\ CancelRequested(w)
    /\ worker' = [worker EXCEPT ![w].pc = "cancel", ![w].locks = FALSE]

Claim(w) ==
    /\ At(w, "idle")
    /\ \E r \in Runs :
         /\ job[r] = "queued"
         /\ job' = [job EXCEPT ![r] = "running"]
         /\ worker' = [worker EXCEPT ![w] = [pc |-> "load", run |-> r, locks |-> FALSE]]
    /\ UNCHANGED <<status, sources, crashes>>

\* process_discovery_job loads job and run, then resolves the connector, whose
\* drift or loss is an AppError.
Load(w) ==
    /\ At(w, "load")
    /\ \/ Cancelled(w)
       \/ ~CancelRequested(w) /\ \E pc \in {"check_start", "check_fail"} : Goto(w, pc)
    /\ UNCHANGED <<status, sources, job, crashes>>

\* _set_running: the look...
CheckStart(w) ==
    /\ At(w, "check_start")
    /\ \/ Cancelled(w)
       \/ ~CancelRequested(w) /\ Goto(w, "start")
    /\ UNCHANGED <<status, sources, job, crashes>>

\* ...and the write, whatever the status is by now.
Start(w) ==
    /\ At(w, "start")
    /\ status' = [status EXCEPT ![Run(w)] = "running"]
    /\ Goto(w, "retrieve")
    /\ UNCHANGED <<sources, job, crashes>>

\* _retrieve_search / _retrieve_urls up to the source cards: refused URLs become
\* blocked cards, and when none is left that is all; the rest are written from
\* search snippets at once, or are pending until they are extracted.  The
\* provider may fail or time out.
Retrieve(w) ==
    /\ At(w, "retrieve")
    /\ \E blocked \in SUBSET {"failed"} :
         \/ /\ sources' = [sources EXCEPT ![Run(w)] = blocked]
            /\ \/ Cancelled(w)
               \/ ~CancelRequested(w) /\ \E pc \in {"curate", "check_fail"} : Goto(w, pc)
         \/ /\ ~CancelRequested(w)
            /\ \E cards \in {{"fetched"}, {"failed"}, {"fetched", "failed"}} :
                 sources' = [sources EXCEPT ![Run(w)] = blocked \cup cards]
            /\ Goto(w, "curate")
         \/ /\ ~CancelRequested(w)
            /\ sources' = [sources EXCEPT ![Run(w)] = blocked \cup {"pending"}]
            /\ Goto(w, "extract")
    /\ UNCHANGED <<status, job, crashes>>

\* provider.extract and _apply_extract_response: every pending card is resolved.
Extract(w) ==
    /\ At(w, "extract")
    /\ \/ Cancelled(w) /\ UNCHANGED sources
       \/ ~CancelRequested(w) /\ Goto(w, "check_fail") /\ UNCHANGED sources
       \/ /\ ~CancelRequested(w)
          /\ \E cards \in (SUBSET {"fetched", "failed"}) \ {{}} :
               sources' = [sources EXCEPT ![Run(w)] = (@ \ {"pending"}) \cup cards]
          /\ Goto(w, "curate")
    /\ UNCHANGED <<status, job, crashes>>

\* curate_discovery_run: without fetched sources or a Researcher, or when its
\* answer is unusable, there are no candidates.
Curate(w) ==
    /\ At(w, "curate")
    /\ \/ Cancelled(w)
       \/ ~CancelRequested(w) /\ \E pc \in {"check_end", "check_fail"} : Goto(w, pc)
       \/ ~CancelRequested(w) /\ "fetched" \in sources[Run(w)] /\ Goto(w, "persist")
    /\ UNCHANGED <<status, sources, job, crashes>>

\* _persist_candidates flushes the run row and with that locks it.
Persist(w) ==
    /\ At(w, "persist")
    /\ \/ Cancelled(w)
       \/ /\ ~CancelRequested(w)
          /\ worker' = [worker EXCEPT ![w].pc = "check_end", ![w].locks = TRUE]
    /\ UNCHANGED <<status, sources, job, crashes>>

\* _complete_run: the last look...
CheckEnd(w) ==
    /\ At(w, "check_end")
    /\ \/ Cancelled(w)
       \/ ~CancelRequested(w) /\ Goto(w, "complete")
    /\ UNCHANGED <<status, sources, job, crashes>>

\* The terminal status: partial also when curation failed recoverably.
FinalStatuses(r) ==
    IF "fetched" \in sources[r]
    THEN IF "failed" \in sources[r] THEN {"partial"} ELSE {"succeeded", "partial"}
    ELSE IF "failed" \in sources[r] THEN {"failed"} ELSE {"no_results"}

\* Bug: the job is completed in a later transaction that never comes.
Bug_CompletesRunOnly(w) ==
    /\ At(w, "complete")
    /\ \E final \in FinalStatuses(Run(w)) : status' = [status EXCEPT ![Run(w)] = final]
    /\ Return(w)
    /\ UNCHANGED <<sources, job, crashes>>

\* ...and the terminal write of run and job.
Complete(w) ==
    /\ At(w, "complete")
    /\ \E final \in FinalStatuses(Run(w)) : status' = [status EXCEPT ![Run(w)] = final]
    /\ job' = [job EXCEPT ![Run(w)] = "completed"]
    /\ Return(w)
    /\ UNCHANGED <<sources, crashes>>

\* _cancel_job leaves the source cards as they are.
CancelJob(w) ==
    /\ At(w, "cancel")
    /\ status' = [status EXCEPT ![Run(w)] = IF @ \in TerminalStatuses THEN @ ELSE "cancelled"]
    /\ job' = [job EXCEPT ![Run(w)] = "cancelled"]
    /\ Return(w)
    /\ UNCHANGED <<sources, crashes>>

\* _fail_job: a failure of a run that is being cancelled is a cancellation.
CheckFail(w) ==
    /\ At(w, "check_fail")
    /\ \/ Cancelled(w)
       \/ ~CancelRequested(w) /\ Goto(w, "fail")
    /\ UNCHANGED <<status, sources, job, crashes>>

\* _mark_pending_sources_failed
PendingFailed(r) ==
    IF "pending" \in sources[r] THEN (sources[r] \ {"pending"}) \cup {"failed"} ELSE sources[r]

Fail(w) ==
    /\ At(w, "fail")
    /\ sources' = [sources EXCEPT ![Run(w)] = PendingFailed(Run(w))]
    /\ status' = [status EXCEPT ![Run(w)] = "failed"]
    /\ job' = [job EXCEPT ![Run(w)] = "failed"]
    /\ Return(w)
    /\ UNCHANGED crashes

\* The process is killed; its transaction is rolled back.
Crash(w) ==
    /\ crashes < MaxCrashes
    /\ ~At(w, "idle")
    /\ crashes' = crashes + 1
    /\ Return(w)
    /\ UNCHANGED <<status, sources, job>>

\* Bugs: a job is taken for lost while its worker is at work; a run that is being
\* cancelled is not looked for.
Bug_AnyRunning(r) == job[r] = "running"
Bug_RunningOnly(r) ==
    /\ job[r] = "running" /\ status[r] = "running"
    /\ \A w \in Workers : worker[w].run # r

\* A RUNNING job is stale once its lease is over, which is four times the time
\* a run may take: its worker is gone.
Stale(r) == job[r] = "running" /\ \A w \in Workers : worker[w].run # r

\* _recover_stale_discovery_jobs, before a worker claims a job: one commit.
RecoverStale(w) ==
    LET lost == {r \in Runs : Stale(r)}
    IN  /\ At(w, "idle")
        /\ lost # {}
        /\ sources' = [r \in Runs |-> IF r \in lost /\ status[r] \in ActiveStatuses
                                      THEN PendingFailed(r) ELSE sources[r]]
        /\ status' = [r \in Runs |-> IF r \in lost /\ status[r] \in ActiveStatuses
                                     THEN "failed" ELSE status[r]]
        /\ job' = [r \in Runs |-> IF r \in lost THEN "failed" ELSE job[r]]
        /\ UNCHANGED <<worker, crashes>>

-----------------------------------------------------------------------------

WorkerStep(w) ==
    \/ Claim(w)
    \/ RecoverStale(w)
    \/ Load(w)
    \/ CheckStart(w)
    \/ Start(w)
    \/ Retrieve(w)
    \/ Extract(w)
    \/ Curate(w)
    \/ Persist(w)
    \/ CheckEnd(w)
    \/ Complete(w)
    \/ CancelJob(w)
    \/ CheckFail(w)
    \/ Fail(w)

Next ==
    \/ \E r \in Runs : Create(r) \/ RequestCancel(r) \/ Delete(r) \/ Expire(r)
    \/ \E w \in Workers : WorkerStep(w) \/ Crash(w)

Spec == Init /\ [][Next]_vars

\* The worker loop polls for ever and restarts after a kill; retrieval and the
\* Researcher have timeouts.  Users owe nothing.
FairSpec == Spec /\ \A w \in Workers : WF_vars(WorkerStep(w))

-----------------------------------------------------------------------------
(***************************************************************************)
(* Properties                                                              *)
(***************************************************************************)

\* The cap on concurrent runs of a profile: the advisory lock covers creations
\* only, so nothing else may make a run active.
ActiveWithinCap == Cardinality({r \in Runs : status[r] \in ActiveStatuses}) <= MaxConcurrent

\* The rows keep their types, a run and its job end together and tell the same
\* story, over cancellations, failures and workers that are lost, and a run that
\* was not cancelled ends with all its source cards resolved.
JobAndRunAgree ==
    /\ TypeOK
    /\ \A r \in Runs \ {x \in Runs : status[x] = "deleted"} :
         /\ status[r] \in TerminalStatuses <=> job[r] \in {"completed", "failed", "cancelled"}
         /\ status[r] = "cancelled" <=> job[r] = "cancelled"
         /\ job[r] = "failed" => status[r] = "failed"
         /\ status[r] \in TerminalStatuses \ {"cancelled"} => "pending" \notin sources[r]

\* What a run ended with is never rewritten: not by a second worker, not by the
\* recovery of lost ones.
TerminalIsFinal ==
    [][\A r \in Runs : status[r] \in TerminalStatuses => status'[r] \in {status[r], "deleted"}]_vars

\* Every run that was created ends, although workers are killed on the way.
RunsEnd == \A r \in Runs : (status[r] \in ActiveStatuses) ~> (status[r] \notin ActiveStatuses)
=============================================================================
