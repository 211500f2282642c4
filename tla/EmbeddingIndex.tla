---------------------------- MODULE EmbeddingIndex ----------------------------
(***************************************************************************)
(* The semantic index of one profile: versions of the index                *)
(* (memory/embedding_index.py) built by a background job                    *)
(* (workers/embedding_jobs.py) page by page, while memories and plan        *)
(* questions are created, edited and deleted, the embedding model is bound  *)
(* to another role target, interviews start, and workers die.               *)
(*                                                                         *)
(* Sources are numbers in the order of their ids, which are random: a new   *)
(* source may lie before the cursor of a running build. A transaction of    *)
(* the worker is one action. Nothing but the status of the job and its      *)
(* lease says who works on it: a worker that outlives its lease goes on     *)
(* beside its successor.                                                    *)
(***************************************************************************)
EXTENDS Integers, FiniteSets, FiniteSetsExt

CONSTANTS
    Workers,                  \* worker processes
    Memories, Questions,      \* sources: numbers in the order of their ids
    Existing,                 \* those that exist at the start
    Targets, Unbound,         \* what the embedding role may be bound to, or nothing
    Dimensions,               \* lengths of the vectors a provider may return
    BatchSize,                \* EMBEDDING_BATCH_SIZE
    MaxReconciliationPasses,  \* MAX_RECONCILIATION_PASSES
    MaxAttempts,              \* job.max_attempts
    MaxRebuilds,              \* bound: index versions
    MaxEvents                 \* bound: further rebuilds, changes of sources and of the
                              \* binding, crashes and overrun leases, taken together

Sources == Memories \cup Questions

ASSUME EmbeddingAssumption ==
    /\ Sources \subseteq Nat \ {0}
    /\ Memories \cap Questions = {}
    /\ IsFiniteSet(Sources)
    /\ Existing \subseteq Sources
    /\ Targets # {} /\ Unbound \notin Targets
    /\ Dimensions \subseteq Nat \ {0}
    /\ {BatchSize, MaxAttempts} \subseteq Nat \ {0}
    /\ {MaxReconciliationPasses, MaxRebuilds, MaxEvents} \subseteq Nat

VARIABLES
    index,          \* EmbeddingProfile rows, in the order of their creation
    job,            \* the EMBEDDING_REINDEX job of each
    vectors,        \* per index, the vector stored for each source
    sources,        \* the version of each source, NotYet or Gone
    memoryEnabled,  \* profile.memory_enabled
    binding,        \* the target the embedding role is bound to
    interviewing,   \* the profile has an INTERVIEWING session
    worker,         \* per worker: where it is and what it has loaded
    overran,        \* history: builds that outlived a lease
    events          \* how much of MaxEvents is used up

rows == <<index, job, vectors>>
environment == <<sources, memoryEnabled, binding, interviewing, overran, events>>
vars == <<rows, worker, environment>>

-----------------------------------------------------------------------------
(* Types *)

Rebuilds == 1..MaxRebuilds
NotYet == 0
Gone == -1
NoDimensions == 0

Vector == [version: Nat, model: Targets, dims: Dimensions]
NoVector == [version |-> 0]

Kinds == {"memory", "plan_question"}
Pcs == {"idle", "load", "yield", "verify", "read", "embed", "persist", "progress",
        "cover", "complete", "fail"}

TypeOK ==
    /\ index \in [Rebuilds -> [status: {"none", "building", "active", "retired", "failed"},
                               target: Targets, dims: Dimensions \cup {NoDimensions}]]
    /\ job \in [Rebuilds -> [status: {"none", "queued", "running", "completed", "failed"},
                             attempts: 0..MaxAttempts, stale: BOOLEAN]]
    /\ vectors \in [Rebuilds -> [Sources -> Vector \cup {NoVector}]]
    /\ sources \in [Sources -> Nat \cup {Gone}]
    /\ memoryEnabled \in BOOLEAN
    /\ binding \in Targets \cup {Unbound}
    /\ interviewing \in BOOLEAN
    /\ worker \in [Workers ->
           [at: Pcs, stage: {"start", "page", "probe"}, job: Rebuilds \cup {0},
            kind: Kinds, cursor: Nat, batch: [Sources -> Nat],
            dims: Dimensions \cup {NoDimensions}, provider: Targets,
            pass: 0..MaxReconciliationPasses, retryable: BOOLEAN,
            changed: SUBSET Sources, late: Nat]]
    /\ overran \subseteq Rebuilds
    /\ events \in 0..MaxEvents

NoBatch == [s \in Sources |-> 0]
SomeTarget == CHOOSE t \in Targets : TRUE

Idle ==
    [at |-> "idle", stage |-> "start", job |-> 0, kind |-> "memory", cursor |-> 0,
     batch |-> NoBatch, dims |-> NoDimensions, provider |-> SomeTarget, pass |-> 0,
     retryable |-> FALSE, changed |-> {}, late |-> 0]

Init ==
    /\ index = [p \in Rebuilds |-> [status |-> "none", target |-> SomeTarget,
                                    dims |-> NoDimensions]]
    /\ job = [p \in Rebuilds |-> [status |-> "none", attempts |-> 0, stale |-> FALSE]]
    /\ vectors = [p \in Rebuilds |-> [s \in Sources |-> NoVector]]
    /\ sources = [s \in Sources |-> IF s \in Existing THEN 1 ELSE NotYet]
    /\ memoryEnabled = TRUE
    /\ binding = SomeTarget
    /\ interviewing = FALSE
    /\ worker = [w \in Workers |-> Idle]
    /\ overran = {}
    /\ events = 0

-----------------------------------------------------------------------------
(* Sources *)

\* What the pages and the coverage check select: memories only while memory is
\* enabled, plan questions always.
Retrievable == {s \in Sources : sources[s] > 0 /\ (s \in Memories => memoryEnabled)}

\* next_memory_embedding_batch, next_plan_question_embedding_batch.
Page(kind, cursor) ==
    LET rest == {s \in Retrievable : /\ s > cursor
                                     /\ s \in Memories <=> kind = "memory"}
    IN  {s \in rest : Cardinality({r \in rest : r < s}) < BatchSize}

\* documents_needing_embeddings: the versions of a page without a vector of theirs.
Pending(p, page) ==
    [s \in Sources |-> IF s \in page /\ vectors[p][s].version # sources[s]
                       THEN sources[s] ELSE 0]

\* current_sources_need_embeddings.
Uncovered(p) == {s \in Retrievable : vectors[p][s].version # sources[s]}

\* A worker that has checked the coverage of its index, on its way to promotion.
HasChecked(w) == worker[w].at = "complete" \/ worker[w].stage = "probe"

\* History: what has changed since each worker's coverage check.
Notice(changed) ==
    worker' = [w \in Workers |->
        IF HasChecked(w) THEN [worker[w] EXCEPT !.changed = @ \cup changed] ELSE worker[w]]

HasEvent ==
    /\ events < MaxEvents
    /\ events' = events + 1

\* A memory is written or a plan question generated; a memory is edited.
WriteSource(s) ==
    /\ HasEvent
    /\ \/ sources[s] = NotYet
       \/ s \in Memories /\ sources[s] > 0
    /\ sources' = [sources EXCEPT ![s] = @ + 1]
    /\ Notice({s})
    /\ UNCHANGED <<rows, memoryEnabled, binding, interviewing, overran>>

\* delete_memory and forget_session: the foreign key takes the vectors along.
DeleteMemory(s) ==
    /\ HasEvent
    /\ sources[s] > 0
    /\ sources' = [sources EXCEPT ![s] = Gone]
    /\ vectors' = [p \in Rebuilds |-> [vectors[p] EXCEPT ![s] = NoVector]]
    /\ UNCHANGED <<index, job, worker, memoryEnabled, binding, interviewing, overran>>

\* update_settings.
ToggleMemory ==
    /\ HasEvent
    /\ memoryEnabled' = ~memoryEnabled
    /\ Notice(Memories)
    /\ UNCHANGED <<rows, sources, binding, interviewing, overran>>

-----------------------------------------------------------------------------
(* The user: the binding, interviews, and the request for a rebuild *)

\* bind_role and unbind_role.
Rebind ==
    /\ HasEvent
    /\ binding' \in (Targets \cup {Unbound}) \ {binding}
    /\ UNCHANGED <<rows, worker, sources, memoryEnabled, interviewing, overran>>

StartInterview ==
    /\ ~interviewing
    /\ interviewing' = TRUE
    /\ UNCHANGED <<rows, worker, sources, memoryEnabled, binding, overran, events>>

EndInterview ==
    /\ interviewing
    /\ interviewing' = FALSE
    /\ worker' = [w \in Workers |-> [worker[w] EXCEPT !.late = 0]]
    /\ UNCHANGED <<rows, sources, memoryEnabled, binding, overran, events>>

Building == {p \in Rebuilds : index[p].status = "building"}
Active == {p \in Rebuilds : index[p].status = "active"}
Unused == {p \in Rebuilds : index[p].status = "none"}

\* Bug: the old index is retired when its successor is begun.
Bug_RetiresEarly(p) ==
    [q \in Rebuilds |->
        IF q = p THEN [status |-> "building", target |-> binding, dims |-> NoDimensions]
        ELSE IF q \in Active THEN [index[q] EXCEPT !.status = "retired"]
        ELSE index[q]]

\* The new row; a BUILDING one without live work is marked as abandoned.
WithRebuild(p) ==
    [q \in Rebuilds |->
        IF q = p THEN [status |-> "building", target |-> binding, dims |-> NoDimensions]
        ELSE IF q \in Building THEN [index[q] EXCEPT !.status = "failed"]
        ELSE index[q]]

LiveJob(p) == job[p].status \in {"queued", "running"}

\* enqueue_embedding_rebuild, under the profile's advisory lock. While a build
\* has a live job the request replays it and changes nothing.
Enqueue ==
    /\ Unused # {} /\ binding # Unbound
    /\ \A p \in Building : ~LiveJob(p)
    /\ index' = WithRebuild(Min(Unused))
    /\ job' = [job EXCEPT ![Min(Unused)].status = "queued"]
    /\ IF Unused = Rebuilds THEN UNCHANGED events ELSE HasEvent
    /\ UNCHANGED <<vectors, worker, sources, memoryEnabled, binding, interviewing, overran>>

-----------------------------------------------------------------------------
(* The job row *)

\* The job goes back to the queue, with its attempt given back after a yield.
Requeued(p, attempts) == [status |-> "queued", attempts |-> attempts, stale |-> FALSE]

Yielded(p) == Requeued(p, Max({0, job[p].attempts - 1}))

\* mark_embedding_profile_failed touches only a BUILDING row.
MarkedFailed(p) ==
    IF p \in Building THEN [index[p] EXCEPT !.status = "failed"] ELSE index[p]

\* Whether a failure of the job is its last.
Terminal(p, retryable) == ~retryable \/ job[p].attempts >= MaxAttempts

JobAfterFailure(p, retryable) ==
    IF Terminal(p, retryable)
    THEN [job[p] EXCEPT !.status = "failed", !.stale = FALSE]
    ELSE Requeued(p, job[p].attempts)

IndexAfterFailure(p, retryable) ==
    IF Terminal(p, retryable) THEN MarkedFailed(p) ELSE index[p]

-----------------------------------------------------------------------------
(* The worker *)

At(w, pc) == worker[w].at = pc
Build(w) == worker[w].job
Goto(w, pc) == worker' = [worker EXCEPT ![w].at = pc]
Return(w) == worker' = [worker EXCEPT ![w] = Idle]
Raise(w, retryable) ==
    worker' = [worker EXCEPT ![w].at = "fail", ![w].retryable = retryable]

Running(p) == job[p].status = "running"

\* Bug: a lost job is only looked for while it can be tried again.
Bug_LeavesExhausted ==
    {p \in Rebuilds : Running(p) /\ job[p].stale /\ job[p].attempts < MaxAttempts}

Lost == {p \in Rebuilds : Running(p) /\ job[p].stale}

\* _recover_stale_embedding_jobs, at the start of every round.
Recover(w) ==
    /\ At(w, "idle")
    /\ Lost # {}
    /\ job' = [p \in Rebuilds |-> IF p \in Lost THEN JobAfterFailure(p, TRUE) ELSE job[p]]
    /\ index' = [p \in Rebuilds |-> IF p \in Lost THEN IndexAfterFailure(p, TRUE) ELSE index[p]]
    /\ UNCHANGED <<vectors, worker, environment>>

Claim(w) ==
    /\ At(w, "idle")
    /\ \E p \in Rebuilds :
         /\ job[p].status = "queued"
         /\ job' = [job EXCEPT ![p] = [status |-> "running", attempts |-> @.attempts + 1,
                                       stale |-> FALSE]]
         /\ worker' = [worker EXCEPT ![w].at = "load", ![w].job = p]
    /\ UNCHANGED <<index, vectors, environment>>

\* _load_context.
LoadContext(w) ==
    /\ At(w, "load")
    /\ \/ ~Running(Build(w)) /\ Return(w)
       \/ /\ Running(Build(w))
          /\ IF Build(w) \in Building THEN Goto(w, "yield") ELSE Raise(w, FALSE)
    /\ UNCHANGED <<rows, environment>>

\* Bug: only the beginning of a build yields.
Bug_YieldsAtStart(w) == interviewing /\ worker[w].stage = "start"

MustYield(w) == interviewing

\* _pause_for_interview.
Yield(w) ==
    /\ At(w, "yield")
    /\ \/ /\ MustYield(w)
          /\ job' = IF Running(Build(w))
                    THEN [job EXCEPT ![Build(w)] = Yielded(Build(w))] ELSE job
          /\ Return(w)
       \/ ~MustYield(w) /\ Goto(w, "verify") /\ UNCHANGED job
    /\ UNCHANGED <<index, vectors, environment>>

\* verified_embedding_target_for_profile.
TargetUnchanged(p) == binding = index[p].target

\* _assert_target_unchanged; at the start also the provider is built from the
\* binding, and the dimensions are taken from the row.
Verify(w) ==
    /\ At(w, "verify")
    /\ LET p == Build(w)
           ok == p \in Building /\ TargetUnchanged(p)
       IN  \/ ~ok /\ Raise(w, FALSE)
           \/ /\ ok /\ worker[w].stage = "start"
              /\ worker' = [worker EXCEPT ![w].at = "progress", ![w].provider = binding,
                                          ![w].dims = index[p].dims]
           \/ ok /\ worker[w].stage = "page" /\ Goto(w, "read")
           \/ ok /\ worker[w].stage = "probe" /\ Goto(w, "embed")
    /\ UNCHANGED <<rows, environment>>

\* _read_batch. An empty page ends its kind; both kinds make a pass.
ReadPage(w) ==
    /\ At(w, "read")
    /\ LET page == Page(worker[w].kind, worker[w].cursor)
           pending == Pending(Build(w), page)
       IN  \/ /\ page = {} /\ worker[w].kind = "memory"
              /\ worker' = [worker EXCEPT ![w].at = "yield", ![w].kind = "plan_question",
                                          ![w].cursor = 0]
           \/ /\ page = {} /\ worker[w].kind = "plan_question"
              /\ Goto(w, "cover")
           \/ /\ page # {}
              /\ worker' = [worker EXCEPT
                    ![w].at = IF pending = NoBatch THEN "progress" ELSE "embed",
                    ![w].cursor = Max(page), ![w].batch = pending]
    /\ UNCHANGED <<rows, environment>>

\* provider.embed, for a page or for the dimension probe, and the validation of
\* its answer: the length of the vectors must be the one known so far.
Embed(w) ==
    /\ At(w, "embed")
    /\ \/ \E d \in Dimensions :
            \/ /\ worker[w].dims \in {NoDimensions, d}
               /\ worker' = [worker EXCEPT ![w].at = "persist", ![w].dims = d,
                      ![w].late = IF interviewing THEN @ + 1 ELSE @]
            \/ worker[w].dims \notin {NoDimensions, d} /\ Raise(w, FALSE)
       \/ \E retryable \in BOOLEAN : Raise(w, retryable)
    /\ UNCHANGED <<rows, environment>>

Documents(w) == {s \in Sources : worker[w].batch[s] > 0}

DimensionsFit(w) == index[Build(w)].dims \in {NoDimensions, worker[w].dims}

\* What a batch writes over whatever is there.
Upserted(w) ==
    [s \in Sources |->
        IF s \in Documents(w)
        THEN [version |-> worker[w].batch[s], model |-> worker[w].provider,
              dims |-> worker[w].dims]
        ELSE vectors[Build(w)][s]]

\* persist_embedding_batch and persist_verified_embedding_dimensions, under the
\* lock of the index row. A memory deleted in the meantime breaks the foreign
\* key, which the worker takes for an internal, retryable error.
Persist(w) ==
    /\ At(w, "persist")
    /\ LET p == Build(w)
           refused == p \notin Building \/ ~DimensionsFit(w)
           dangling == \E s \in Documents(w) : sources[s] = Gone
       IN  \/ refused /\ Raise(w, FALSE) /\ UNCHANGED <<index, vectors>>
           \/ ~refused /\ dangling /\ Raise(w, TRUE) /\ UNCHANGED <<index, vectors>>
           \/ /\ ~refused /\ ~dangling
              /\ index' = [index EXCEPT ![p].dims = worker[w].dims]
              /\ vectors' = [vectors EXCEPT ![p] = Upserted(w)]
              /\ worker' = [worker EXCEPT ![w].batch = NoBatch,
                    ![w].at = IF worker[w].stage = "probe" THEN "complete" ELSE "progress"]
    /\ UNCHANGED <<job, environment>>

\* _update_progress renews the lease of a RUNNING job, whoever runs it.
UpdateProgress(w) ==
    /\ At(w, "progress")
    /\ job' = IF Running(Build(w)) THEN [job EXCEPT ![Build(w)].stale = FALSE] ELSE job
    /\ worker' = [worker EXCEPT ![w].at = "yield", ![w].stage = "page"]
    /\ UNCHANGED <<index, vectors, environment>>

\* Bug: after the last pass the index is good enough.
Bug_GivesUpChecking(w) == Uncovered(Build(w)) # {} /\ worker[w].pass < MaxReconciliationPasses

NeedsReconciliation(w) == Uncovered(Build(w)) # {}

\* The reconciliation loop: another pass, or embedding_source_churn. An index
\* without any vector asks the provider for its dimensions.
CheckCoverage(w) ==
    /\ At(w, "cover")
    /\ \/ /\ NeedsReconciliation(w) /\ worker[w].pass < MaxReconciliationPasses
          /\ worker' = [worker EXCEPT ![w].at = "progress", ![w].kind = "memory",
                                      ![w].cursor = 0, ![w].pass = @ + 1]
       \/ /\ NeedsReconciliation(w) /\ worker[w].pass = MaxReconciliationPasses
          /\ Raise(w, TRUE)
       \/ /\ ~NeedsReconciliation(w) /\ worker[w].dims = NoDimensions
          /\ worker' = [worker EXCEPT ![w].at = "yield", ![w].stage = "probe"]
       \/ /\ ~NeedsReconciliation(w) /\ worker[w].dims # NoDimensions
          /\ Goto(w, "complete")
    /\ UNCHANGED <<rows, environment>>

\* promote_embedding_profile retires the ACTIVE row in the same transaction.
Promoted(p) ==
    [q \in Rebuilds |->
        IF q = p THEN [index[q] EXCEPT !.status = "active"]
        ELSE IF q \in Active THEN [index[q] EXCEPT !.status = "retired"]
        ELSE index[q]]

Promotable(p) ==
    p \in Building /\ index[p].dims # NoDimensions /\ TargetUnchanged(p)

\* _complete_job: promotion and completion in one transaction.
Complete(w) ==
    /\ At(w, "complete")
    /\ LET p == Build(w)
       IN  \/ ~Running(p) /\ Return(w) /\ UNCHANGED <<index, job>>
           \/ /\ Running(p) /\ interviewing
              /\ job' = [job EXCEPT ![p] = Yielded(p)]
              /\ Return(w)
              /\ UNCHANGED index
           \/ /\ Running(p) /\ ~interviewing /\ ~Promotable(p)
              /\ Raise(w, FALSE)
              /\ UNCHANGED <<index, job>>
           \/ /\ Running(p) /\ ~interviewing /\ Promotable(p)
              /\ index' = Promoted(p)
              /\ job' = [job EXCEPT ![p].status = "completed", ![p].stale = FALSE]
              /\ Return(w)
    /\ UNCHANGED <<vectors, environment>>

\* Bug: a job that is no longer this worker's is failed all the same.
Bug_FailsAnyJob(p) == TRUE

MayFail(p) == Running(p)

\* _fail_job.
Fail(w) ==
    /\ At(w, "fail")
    /\ LET p == Build(w)
       IN  IF MayFail(p)
           THEN /\ job' = [job EXCEPT ![p] = JobAfterFailure(p, worker[w].retryable)]
                /\ index' = [index EXCEPT ![p] = IndexAfterFailure(p, worker[w].retryable)]
           ELSE UNCHANGED <<index, job>>
    /\ Return(w)
    /\ UNCHANGED <<vectors, environment>>

-----------------------------------------------------------------------------
(* Faults *)

Crash(w) ==
    /\ ~At(w, "idle")
    /\ HasEvent
    /\ Return(w)
    /\ UNCHANGED <<rows, sources, memoryEnabled, binding, interviewing, overran>>

Holders(p) == {w \in Workers : ~At(w, "idle") /\ Build(w) = p}

\* A RUNNING job has not been renewed for _embedding_job_lease_seconds: its
\* worker is gone ...
LeaseExpires(p) ==
    /\ Running(p) /\ ~job[p].stale
    /\ Holders(p) = {}
    /\ job' = [job EXCEPT ![p].stale = TRUE]
    /\ UNCHANGED <<index, vectors, worker, environment>>

\* ... or was held up for so long, as on a machine that slept.
Overrun(p) ==
    /\ Running(p) /\ ~job[p].stale
    /\ Holders(p) # {}
    /\ HasEvent
    /\ job' = [job EXCEPT ![p].stale = TRUE]
    /\ overran' = overran \cup {p}
    /\ UNCHANGED <<index, vectors, worker, sources, memoryEnabled, binding, interviewing>>

-----------------------------------------------------------------------------

WorkerStep(w) ==
    \/ Recover(w) \/ Claim(w) \/ LoadContext(w) \/ Yield(w) \/ Verify(w) \/ ReadPage(w)
    \/ Embed(w) \/ Persist(w) \/ UpdateProgress(w) \/ CheckCoverage(w)
    \/ Complete(w) \/ Fail(w)

UserStep ==
    \/ \E s \in Sources : WriteSource(s)
    \/ \E s \in Memories : DeleteMemory(s)
    \/ ToggleMemory \/ Rebind \/ StartInterview \/ EndInterview \/ Enqueue

Next ==
    \/ UserStep
    \/ \E w \in Workers : WorkerStep(w) \/ Crash(w)
    \/ \E p \in Rebuilds : LeaseExpires(p) \/ Overrun(p)

\* Workers poll for ever and are restarted; time passes. The user owes nothing.
Fairness ==
    /\ \A w \in Workers : WF_vars(WorkerStep(w))
    /\ \A p \in Rebuilds : WF_vars(LeaseExpires(p))

Spec == Init /\ [][Next]_vars /\ Fairness

-----------------------------------------------------------------------------
(* Properties *)

\* What the row of an index says is so.  Its status agrees with its job, by
\* whichever of promotion, failure and recovery they ended, even when a worker
\* that outlived its lease comes back to a job that another one has finished: an
\* index that stays BUILDING without a live job would be shown as work in progress
\* for ever.  Its target and dimensions describe each of its vectors, although the
\* binding changes, an endpoint answers with other dimensions, and two workers may
\* write the same index.  And there is never a second ACTIVE or a second BUILDING
\* index, which the partial unique indexes of db/models/embedding.py:58-69 would
\* answer with an IntegrityError.
IndexRowIsTrue ==
    /\ TypeOK
    /\ \A p \in Rebuilds :
         /\ index[p].status = "building" <=> LiveJob(p)
         /\ index[p].status \in {"active", "retired"} <=> job[p].status = "completed"
         /\ index[p].status = "failed" <=> job[p].status = "failed"
         /\ \A s \in Sources : vectors[p][s] # NoVector =>
              /\ vectors[p][s].model = index[p].target
              /\ vectors[p][s].dims = index[p].dims
    /\ Cardinality(Active) <= 1 /\ Cardinality(Building) <= 1

\* A worker about to promote an index that was its own all the time misses no
\* source but those written after its last coverage check: edits, deletions and
\* ids before the cursor during the build have all been caught up with.
PromotesCovered ==
    \A w \in Workers :
        At(w, "complete") /\ Running(Build(w)) /\ Build(w) \notin overran =>
            Uncovered(Build(w)) \subseteq worker[w].changed

\* A live interview waits for at most one request to the embedding provider per
\* worker, the one that was on its way when the interview started.
OneRequestPerInterview ==
    interviewing => \A w \in Workers : worker[w].late <= 1

\* Retrieval never loses the index it has: no request, failure, recovery or
\* change of the binding takes the ACTIVE index away, only its successor does.
KeepsAnActiveIndex == [][Active # {} => Active' # {}]_vars

\* When interviews stop for good every build ends, active or failed, although
\* workers die, leases run out, sources churn and yields give attempts back.
RebuildsEnd ==
    <>[]~interviewing =>
        \A p \in Rebuilds : index[p].status = "building" ~> index[p].status # "building"

=============================================================================
