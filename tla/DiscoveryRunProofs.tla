-------------------------- MODULE DiscoveryRunProofs --------------------------
(***************************************************************************)
(* What is proved about discovery runs, for any number of runs and         *)
(* workers.                                                                *)
(*                                                                         *)
(* Run and job are two rows with two statuses, written by whoever holds    *)
(* the job.  The invariant says who that is: a worker that is not idle is  *)
(* alone on its run, its job is RUNNING and therefore the run is active,   *)
(* so whatever it writes, and however stale the look that allowed it,      *)
(* replaces no terminal status.                                            *)
(***************************************************************************)
EXTENDS DiscoveryRun, FiniteSetTheorems, TLAPS

Ended == {"completed", "failed", "cancelled"}

\* A worker that is not idle holds the RUNNING job of its run, and from curation
\* on the run has no unresolved source.
WorkerOK(w) ==
    /\ At(w, "idle") <=> Run(w) = NoRun
    /\ ~At(w, "idle") => job[Run(w)] = "running"
    /\ worker[w].pc \in {"curate", "persist", "check_end", "complete"} =>
         "pending" \notin sources[Run(w)]

OneWorkerPerRun ==
    \A v, w \in Workers : Run(v) = Run(w) /\ ~At(w, "idle") => v = w

\* The rows of a run, those of a deleted one included: retention may leave an
\* ended job behind, never one that is still to be worked on.
RunOK(r) ==
    /\ status[r] \in ActiveStatuses <=> job[r] \in {"queued", "running"}
    /\ status[r] # "deleted" =>
         /\ status[r] \in TerminalStatuses <=> job[r] \in Ended
         /\ status[r] = "cancelled" <=> job[r] = "cancelled"
         /\ job[r] = "failed" => status[r] = "failed"
         /\ status[r] \in TerminalStatuses \ {"cancelled"} => "pending" \notin sources[r]

RunsInv ==
    /\ TypeOK
    /\ \A w \in Workers : WorkerOK(w)
    /\ OneWorkerPerRun
    /\ \A r \in Runs : RunOK(r)

-----------------------------------------------------------------------------
(* What a step may touch *)

RowsKept(r) == status'[r] = status[r] /\ sources'[r] = sources[r] /\ job'[r] = job[r]

LEMMA RowsTypes ==
    ASSUME RunsInv
    PROVE  /\ DOMAIN status = Runs /\ DOMAIN sources = Runs /\ DOMAIN job = Runs
           /\ DOMAIN worker = Workers
           /\ \A r \in Runs : RunOK(r) /\ sources[r] \subseteq SourceStatuses
           /\ \A w \in Workers : WorkerOK(w) /\ (~At(w, "idle") => Run(w) \in Runs)
  BY DEF RunsInv, TypeOK, WorkerOK, At, Run

\* A run whose rows are kept is as good as before.
LEMMA RunKept == ASSUME NEW r \in Runs, RunOK(r), RowsKept(r) PROVE RunOK(r)'
  BY DEF RunOK, RowsKept

\* A run's worker is alone on it: the rows of the others' runs are kept when a
\* worker writes those of its own.
LEMMA OthersKept ==
    ASSUME RunsInv, NEW w \in Workers, ~At(w, "idle"),
           \A v \in Workers \ {w} : worker'[v] = worker[v],
           \A r \in Runs \ {Run(w)} : RowsKept(r)
    PROVE  \A v \in Workers \ {w} : WorkerOK(v)'
  <1> SUFFICES ASSUME NEW v \in Workers \ {w} PROVE WorkerOK(v)'
    OBVIOUS
  <1>1. CASE At(v, "idle")
    BY <1>1, RowsTypes DEF WorkerOK, At, Run
  <1>2. CASE ~At(v, "idle")
    <2>1. Run(v) \in Runs \ {Run(w)}
      BY <1>2, RowsTypes DEF RunsInv, OneWorkerPerRun
    <2> QED
      BY <1>2, <2>1, RowsTypes DEF WorkerOK, At, Run, RowsKept
  <1> QED
    BY <1>1, <1>2

-----------------------------------------------------------------------------
(* Worker w goes on with its run, and the run stays active. *)

GoesOn(w) ==
    /\ ~At(w, "idle")
    /\ \E pc \in Pcs \ {"idle"}, locks \in BOOLEAN :
         /\ worker' = [worker EXCEPT ![w] = [pc |-> pc, run |-> Run(w), locks |-> locks]]
         /\ pc \in {"curate", "persist", "check_end", "complete"} =>
              "pending" \notin sources'[Run(w)]
    /\ \E s \in {status[Run(w)], "running"} : status' = [status EXCEPT ![Run(w)] = s]
    /\ \E c \in SUBSET SourceStatuses : sources' = [sources EXCEPT ![Run(w)] = c]
    /\ UNCHANGED <<job, crashes>>

LEMMA GoesOnKeeps ==
    ASSUME RunsInv, NEW w \in Workers, GoesOn(w)
    PROVE  RunsInv'
  <1>1. PICK r \in Runs : r = Run(w) /\ job[r] = "running" /\ status[r] \in ActiveStatuses
    BY RowsTypes DEF GoesOn, WorkerOK, RunOK
  <1>2. TypeOK'
    BY <1>1 DEF GoesOn, RunsInv, TypeOK, ActiveStatuses
  <1>3. /\ \A v \in Workers \ {w} : worker'[v] = worker[v]
        /\ \A x \in Runs \ {r} : RowsKept(x)
        /\ worker'[w].run = r /\ worker'[w].pc # "idle"
        /\ worker'[w].pc \in {"curate", "persist", "check_end", "complete"} =>
             "pending" \notin sources'[r]
        /\ status'[r] \in ActiveStatuses
        /\ job' = job
    BY <1>1, RowsTypes DEF GoesOn, RowsKept, ActiveStatuses
  <1>4. \A v \in Workers : WorkerOK(v)'
    <2>1. WorkerOK(w)'
      BY <1>1, <1>3, DiscoveryAssumption DEF WorkerOK, At, Run
    <2> QED
      BY <1>1, <1>3, <2>1, OthersKept DEF GoesOn
  <1>5. OneWorkerPerRun'
    BY <1>1, <1>3, RowsTypes DEF RunsInv, OneWorkerPerRun, At, Run, GoesOn
  <1>6. \A x \in Runs : RunOK(x)'
    <2>1. RunOK(r)'
      BY <1>1, <1>3 DEF RunOK, ActiveStatuses, TerminalStatuses, Successes, Ended
    <2> QED
      BY <1>3, <2>1, RowsTypes, RunKept
  <1> QED
    BY <1>2, <1>4, <1>5, <1>6 DEF RunsInv

\* The looks and the steps in between.
LEMMA WorkGoesOn ==
    ASSUME RunsInv, NEW w \in Workers,
           \/ Load(w) \/ CheckStart(w) \/ Start(w) \/ Retrieve(w) \/ Extract(w)
           \/ Curate(w) \/ Persist(w) \/ CheckEnd(w) \/ CheckFail(w)
    PROVE  GoesOn(w)
  <1> DEFINE r == Run(w)
             To(pc, locks) ==
               worker' = [worker EXCEPT ![w] = [pc |-> pc, run |-> r, locks |-> locks]]
  <1>0. /\ ~At(w, "idle") /\ r \in Runs /\ sources[r] \subseteq SourceStatuses
        /\ worker[w].locks \in BOOLEAN
        /\ status = [status EXCEPT ![r] = status[r]]
        /\ sources = [sources EXCEPT ![r] = sources[r]]
    BY RowsTypes DEF RunsInv, TypeOK, At, Run, Load, CheckStart, Start, Retrieve, Extract,
                     Curate, Persist, CheckEnd, CheckFail
  <1>a. worker[w] \in [pc: Pcs, run: Runs \cup {NoRun}, locks: BOOLEAN]
    BY DEF RunsInv, TypeOK
  <1>1. \A pc \in Pcs : Goto(w, pc) => To(pc, worker[w].locks)
    <2>1. ASSUME NEW pc \in Pcs
          PROVE  [worker[w] EXCEPT !.pc = pc] = [pc |-> pc, run |-> r, locks |-> worker[w].locks]
      BY <1>a DEF Run
    <2> QED
      BY <2>1 DEF Goto
  <1>d. \A pc \in Pcs, l \in BOOLEAN :
           worker' = [worker EXCEPT ![w].pc = pc, ![w].locks = l] => To(pc, l)
    <2>1. ASSUME NEW pc \in Pcs, NEW l \in BOOLEAN,
                 worker' = [worker EXCEPT ![w].pc = pc, ![w].locks = l]
          PROVE  To(pc, l)
      <3>1. worker' = [worker EXCEPT ![w] = [[worker[w] EXCEPT !.pc = pc] EXCEPT !.locks = l]]
        BY <2>1, RowsTypes
      <3>2. [worker[w] EXCEPT !.pc = pc] = [pc |-> pc, run |-> r, locks |-> worker[w].locks]
        BY <1>a DEF Run
      <3>3. [[pc |-> pc, run |-> r, locks |-> worker[w].locks] EXCEPT !.locks = l]
              = [pc |-> pc, run |-> r, locks |-> l]
        OBVIOUS
      <3> QED
        BY <3>1, <3>2, <3>3
    <2> QED
      BY <2>1
  <1>2. Cancelled(w) => To("cancel", FALSE)
    BY <1>d DEF Cancelled, Pcs
  <1>b. {"check_start", "check_fail", "start", "retrieve", "extract", "curate", "persist",
         "check_end", "complete", "fail", "cancel"} \subseteq Pcs \ {"idle"}
    BY DEF Pcs
  <1>c. At(w, "curate") \/ At(w, "persist") \/ At(w, "check_end") => "pending" \notin sources[r]
    BY RowsTypes DEF WorkerOK, At
  <1> HIDE DEF To
  <1>3. CASE Load(w) \/ CheckStart(w) \/ CheckFail(w)
    <2>1. \E pc \in {"check_start", "check_fail", "start", "fail", "cancel"}, locks \in BOOLEAN : To(pc, locks)
      BY <1>0, <1>1, <1>2, <1>3, <1>b DEF Load, CheckStart, CheckFail
    <2> QED
      BY <1>0, <1>3, <1>b, <2>1 DEF GoesOn, Load, CheckStart, CheckFail, To
  <1>4. CASE Start(w)
    <2>1. To("retrieve", worker[w].locks)
      BY <1>1, <1>4, <1>b DEF Start
    <2> QED
      BY <1>0, <1>4, <1>b, <2>1 DEF GoesOn, Start, To
  <1>5. CASE Retrieve(w)
    <2>1. PICK c \in SUBSET SourceStatuses :
             /\ sources' = [sources EXCEPT ![r] = c]
             /\ \/ Cancelled(w)
                \/ Goto(w, "check_fail")
                \/ Goto(w, "extract")
                \/ Goto(w, "curate") /\ "pending" \notin c
      BY <1>5 DEF Retrieve, SourceStatuses
    <2>2. PICK pc \in Pcs \ {"idle"}, locks \in BOOLEAN :
             To(pc, locks) /\ (pc \in {"curate", "persist", "check_end", "complete"} =>
                                  "pending" \notin c)
      BY <1>0, <1>1, <1>2, <1>b, <2>1
    <2>3. sources'[r] = c
      BY <1>0, <2>1, RowsTypes
    <2> QED
      BY <1>0, <1>5, <2>1, <2>2, <2>3 DEF GoesOn, Retrieve, To
  <1>6. CASE Extract(w)
    <2>1. PICK c \in SUBSET SourceStatuses :
             /\ sources' = [sources EXCEPT ![r] = c]
             /\ \/ Cancelled(w)
                \/ Goto(w, "check_fail")
                \/ Goto(w, "curate") /\ "pending" \notin c
      <3>1. CASE UNCHANGED sources /\ (Cancelled(w) \/ Goto(w, "check_fail"))
        BY <1>0, <3>1
      <3>2. CASE Goto(w, "curate") /\ \E cards \in (SUBSET {"fetched", "failed"}) \ {{}} :
                   sources' = [sources EXCEPT ![r] = (@ \ {"pending"}) \cup cards]
        <4>1. PICK cards \in SUBSET {"fetched", "failed"} :
                   sources' = [sources EXCEPT ![r] = (sources[r] \ {"pending"}) \cup cards]
          BY <3>2
        <4>2. (sources[r] \ {"pending"}) \cup cards \in SUBSET SourceStatuses
          BY <1>0 DEF SourceStatuses
        <4> QED
          BY <3>2, <4>1, <4>2
      <3> QED
        BY <1>6, <3>1, <3>2 DEF Extract
    <2>2. PICK pc \in Pcs \ {"idle"}, locks \in BOOLEAN :
             To(pc, locks) /\ (pc \in {"curate", "persist", "check_end", "complete"} =>
                                  "pending" \notin c)
      BY <1>0, <1>1, <1>2, <1>b, <2>1
    <2>3. sources'[r] = c
      BY <1>0, <2>1, RowsTypes
    <2> QED
      BY <1>0, <1>6, <2>1, <2>2, <2>3 DEF GoesOn, Extract, To
  <1>7. CASE Curate(w) \/ Persist(w) \/ CheckEnd(w)
    <2>1. \E pc \in Pcs \ {"idle"}, locks \in BOOLEAN : To(pc, locks)
      <3>1. CASE Curate(w)
        BY <1>0, <1>1, <1>2, <1>b, <3>1 DEF Curate
      <3>2. CASE Persist(w)
        BY <1>2, <1>b, <1>d, <3>2 DEF Persist
      <3>3. CASE CheckEnd(w)
        BY <1>0, <1>1, <1>2, <1>b, <3>3 DEF CheckEnd
      <3> QED
        BY <1>7, <3>1, <3>2, <3>3
    <2> QED
      BY <1>0, <1>7, <1>c, <2>1 DEF GoesOn, Curate, Persist, CheckEnd, To
  <1> QED
    BY <1>3, <1>4, <1>5, <1>6, <1>7

-----------------------------------------------------------------------------
(* Worker w is done with its run: run and job end in one commit. *)

Finishes(w) ==
    /\ ~At(w, "idle")
    /\ Return(w)
    /\ \E s \in TerminalStatuses, c \in SUBSET SourceStatuses, j \in Ended :
         /\ s = "cancelled" <=> j = "cancelled"
         /\ j = "failed" => s = "failed"
         /\ s # "cancelled" => "pending" \notin c
         /\ status' = [status EXCEPT ![Run(w)] = s]
         /\ sources' = [sources EXCEPT ![Run(w)] = c]
         /\ job' = [job EXCEPT ![Run(w)] = j]
    /\ UNCHANGED crashes

LEMMA FinishesKeeps ==
    ASSUME RunsInv, NEW w \in Workers, Finishes(w)
    PROVE  RunsInv'
  <1>1. PICK r \in Runs : r = Run(w) /\ job[r] = "running" /\ status[r] \in ActiveStatuses
    BY RowsTypes DEF Finishes, WorkerOK, RunOK
  <1>2. TypeOK'
    BY <1>1 DEF Finishes, RunsInv, TypeOK, Ended, Return, Idle, Pcs
  <1>3. /\ \A v \in Workers \ {w} : worker'[v] = worker[v]
        /\ \A x \in Runs \ {r} : RowsKept(x)
        /\ worker'[w].run = NoRun /\ worker'[w].pc = "idle"
    BY <1>1, RowsTypes DEF Finishes, RowsKept, Return, Idle
  <1>4. \A v \in Workers : WorkerOK(v)'
    <2>1. WorkerOK(w)'
      BY <1>3 DEF WorkerOK, At, Run
    <2> QED
      BY <1>1, <1>3, <2>1, OthersKept DEF Finishes
  <1>5. OneWorkerPerRun'
    BY <1>3, RowsTypes DEF RunsInv, OneWorkerPerRun, At, Run, WorkerOK
  <1>6. \A x \in Runs : RunOK(x)'
    <2>1. RunOK(r)'
      BY <1>1, RowsTypes DEF Finishes, RunOK, ActiveStatuses, TerminalStatuses, Successes, Ended
    <2> QED
      BY <1>3, <2>1, RowsTypes, RunKept
  <1> QED
    BY <1>2, <1>4, <1>5, <1>6 DEF RunsInv

\* Complete, _cancel_job and _fail_job, whatever the status is by then.
LEMMA EndsFinish ==
    ASSUME RunsInv, NEW w \in Workers, Complete(w) \/ CancelJob(w) \/ Fail(w)
    PROVE  Finishes(w)
  <1>a. ~At(w, "idle")
    BY DEF At, Complete, CancelJob, Fail
  <1>b. Run(w) \in Runs /\ sources[Run(w)] \subseteq SourceStatuses
    BY <1>a, RowsTypes
  <1>c. status[Run(w)] \in ActiveStatuses
    BY <1>a, <1>b, RowsTypes DEF WorkerOK, RunOK
  <1>d. sources = [sources EXCEPT ![Run(w)] = sources[Run(w)]]
    BY DEF RunsInv, TypeOK
  <1>1. CASE Complete(w)
    <2>1. "pending" \notin sources[Run(w)]
      BY <1>1, RowsTypes DEF Complete, At, WorkerOK
    <2>2. PICK s \in FinalStatuses(Run(w)) : status' = [status EXCEPT ![Run(w)] = s]
      BY <1>1 DEF Complete
    <2>3. s \in TerminalStatuses /\ s # "cancelled"
      BY <2>2 DEF FinalStatuses, TerminalStatuses, Successes
    <2> QED
      BY <1>a, <1>b, <1>d, <1>1, <2>1, <2>2, <2>3 DEF Complete, Finishes, Ended
  <1>2. CASE CancelJob(w)
    <2>1. status' = [status EXCEPT ![Run(w)] = "cancelled"]
      BY <1>c, <1>2 DEF CancelJob, ActiveStatuses, TerminalStatuses, Successes
    <2> QED
      BY <1>a, <1>b, <1>d, <1>2, <2>1 DEF CancelJob, Finishes, Ended, TerminalStatuses
  <1>3. CASE Fail(w)
    <2>1. /\ PendingFailed(Run(w)) \in SUBSET SourceStatuses
          /\ "pending" \notin PendingFailed(Run(w))
      BY <1>b DEF PendingFailed, SourceStatuses
    <2> QED
      BY <1>a, <1>3, <2>1 DEF Fail, Finishes, Ended, TerminalStatuses
  <1> QED
    BY <1>1, <1>2, <1>3

-----------------------------------------------------------------------------
(* The steps that take a run from nobody, or take it away *)

LEMMA ClaimKeeps ==
    ASSUME RunsInv, NEW w \in Workers, Claim(w)
    PROVE  RunsInv'
  <1>1. PICK r \in Runs :
           /\ job[r] = "queued"
           /\ job' = [job EXCEPT ![r] = "running"]
           /\ worker' = [worker EXCEPT ![w] = [pc |-> "load", run |-> r, locks |-> FALSE]]
           /\ UNCHANGED <<status, sources, crashes>>
    BY DEF Claim
  <1>2. TypeOK'
    BY <1>1 DEF RunsInv, TypeOK, Pcs
  <1>3. /\ \A v \in Workers \ {w} : worker'[v] = worker[v]
        /\ \A x \in Runs \ {r} : RowsKept(x)
        /\ worker'[w].run = r /\ worker'[w].pc = "load"
        /\ job'[r] = "running" /\ status'[r] = status[r] /\ sources'[r] = sources[r]
    BY <1>1, RowsTypes DEF RowsKept
  <1>4. \A v \in Workers : ~At(v, "idle") => Run(v) # r
    BY <1>1, RowsTypes DEF WorkerOK
  <1>5. ASSUME NEW v \in Workers PROVE WorkerOK(v)'
    <2>1. CASE v = w
      BY <1>3, <2>1, DiscoveryAssumption DEF WorkerOK, At, Run
    <2>2. CASE v # w /\ At(v, "idle")
      BY <1>3, <2>2, RowsTypes DEF WorkerOK, At, Run
    <2>3. CASE v # w /\ ~At(v, "idle")
      <3>1. Run(v) \in Runs \ {r}
        BY <1>4, <2>3, RowsTypes
      <3> QED
        BY <1>3, <2>3, <3>1, RowsTypes DEF WorkerOK, At, Run, RowsKept
    <2> QED
      BY <2>1, <2>2, <2>3
  <1>6. OneWorkerPerRun'
    BY <1>3, <1>4, RowsTypes, DiscoveryAssumption DEF RunsInv, OneWorkerPerRun, WorkerOK, At, Run
  <1>7. ASSUME NEW x \in Runs PROVE RunOK(x)'
    <2>1. RunOK(r)'
      BY <1>1, <1>3, RowsTypes DEF RunOK, ActiveStatuses, TerminalStatuses, Successes, Ended
    <2> QED
      BY <1>3, <2>1, RowsTypes, RunKept
  <1> QED
    BY <1>2, <1>5, <1>6, <1>7 DEF RunsInv

LEMMA CrashKeeps ==
    ASSUME RunsInv, NEW w \in Workers, Crash(w)
    PROVE  RunsInv'
  <1>1. TypeOK'
    BY DiscoveryAssumption DEF Crash, Return, Idle, RunsInv, TypeOK, Pcs
  <1>2. /\ \A v \in Workers \ {w} : worker'[v] = worker[v]
        /\ worker'[w].run = NoRun /\ worker'[w].pc = "idle"
        /\ UNCHANGED <<status, sources, job>>
    BY RowsTypes DEF Crash, Return, Idle
  <1>3. \A v \in Workers : WorkerOK(v)'
    BY <1>2, RowsTypes DEF WorkerOK, At, Run
  <1>4. OneWorkerPerRun'
    BY <1>2, RowsTypes DEF RunsInv, OneWorkerPerRun, At, Run, WorkerOK
  <1>5. \A r \in Runs : RunOK(r)'
    BY <1>2, RowsTypes, RunKept DEF RowsKept
  <1> QED
    BY <1>1, <1>3, <1>4, <1>5 DEF RunsInv

\* The recovery of lost workers writes the rows of runs nobody works on.
LEMMA RecoverKeeps ==
    ASSUME RunsInv, NEW w \in Workers, RecoverStale(w)
    PROVE  RunsInv'
  <1> DEFINE lost == {r \in Runs : Stale(r)}
  <1>1. \A r \in lost : status[r] \in ActiveStatuses
    BY RowsTypes DEF Stale, RunOK
  <1>2. /\ \A r \in Runs \ lost : RowsKept(r)
        /\ \A r \in lost : status'[r] = "failed" /\ job'[r] = "failed"
                           /\ sources'[r] = PendingFailed(r)
        /\ UNCHANGED <<worker, crashes>>
    BY <1>1 DEF RecoverStale, RowsKept
  <1>3. \A r \in Runs : PendingFailed(r) \in SUBSET SourceStatuses
                        /\ "pending" \notin PendingFailed(r)
    BY RowsTypes DEF PendingFailed, SourceStatuses
  <1>4. TypeOK'
    <2>1. /\ status' \in [Runs -> ActiveStatuses \cup TerminalStatuses \cup {"none", "deleted"}]
          /\ sources' \in [Runs -> SUBSET SourceStatuses]
          /\ job' \in [Runs -> {"none", "queued", "running", "completed", "failed", "cancelled"}]
      BY <1>3 DEF RecoverStale, RunsInv, TypeOK, TerminalStatuses
    <2> QED
      BY <1>2, <2>1 DEF RunsInv, TypeOK
  <1>5. \A v \in Workers : WorkerOK(v)'
    <2> SUFFICES ASSUME NEW v \in Workers PROVE WorkerOK(v)'
      OBVIOUS
    <2>1. ~At(v, "idle") => Run(v) \in Runs \ lost
      BY RowsTypes DEF Stale, Run
    <2>2. UNCHANGED worker
      BY <1>2
    <2> HIDE DEF lost
    <2> QED
      BY <1>2, <2>1, <2>2, RowsTypes DEF WorkerOK, At, Run, RowsKept
  <1>6. OneWorkerPerRun'
    BY <1>2 DEF RunsInv, OneWorkerPerRun, At, Run
  <1>7. ASSUME NEW r \in Runs PROVE RunOK(r)'
    <2>1. CASE r \in lost
      BY <1>2, <1>3, <2>1 DEF RunOK, ActiveStatuses, TerminalStatuses, Successes, Ended
    <2>2. CASE r \notin lost
      BY <1>2, <2>2, RowsTypes, RunKept
    <2> QED
      BY <2>1, <2>2
  <1> QED
    BY <1>4, <1>5, <1>6, <1>7 DEF RunsInv

\* The user and retention write the status of runs no worker has, except that a
\* cancellation may be requested under its worker's eyes.
LEMMA UserKeeps ==
    ASSUME RunsInv, NEW r \in Runs,
           Create(r) \/ RequestCancel(r) \/ Delete(r) \/ Expire(r)
    PROVE  RunsInv'
  <1>1. /\ \A x \in Runs \ {r} : RowsKept(x)
        /\ UNCHANGED <<worker, crashes>>
        /\ \/ status'[r] = "queued" /\ job'[r] = "queued" /\ sources'[r] = sources[r]
              /\ job[r] # "running"
           \/ status'[r] = "cancel_requested" /\ status[r] \in ActiveStatuses
              /\ job'[r] = job[r] /\ sources'[r] = sources[r]
           \/ status'[r] = "deleted" /\ job'[r] \in {"none", job[r]} /\ sources'[r] = {}
              /\ status[r] \in TerminalStatuses
    BY RowsTypes DEF Create, RequestCancel, Delete, Expire, RowsKept, RunOK, ActiveStatuses
  <1>2. TypeOK'
    BY DEF Create, RequestCancel, Delete, Expire, RunsInv, TypeOK, ActiveStatuses, SourceStatuses
  <1>3. ASSUME NEW v \in Workers PROVE WorkerOK(v)'
    <2>1. CASE At(v, "idle") \/ Run(v) # r
      <3>1. ~At(v, "idle") => Run(v) \in Runs \ {r}
        BY <2>1, RowsTypes
      <3> QED
        BY <1>1, <3>1, RowsTypes DEF WorkerOK, At, Run, RowsKept
    <2>2. CASE ~At(v, "idle") /\ Run(v) = r
      <3>1. job[r] = "running" /\ status[r] \in ActiveStatuses
        BY <2>2, RowsTypes DEF WorkerOK, RunOK
      <3>2. job'[r] = job[r] /\ sources'[r] = sources[r]
        BY <1>1, <3>1 DEF ActiveStatuses, TerminalStatuses, Successes
      <3> QED
        BY <1>1, <2>2, <3>2, RowsTypes DEF WorkerOK, At, Run
    <2> QED
      BY <2>1, <2>2
  <1>4. OneWorkerPerRun'
    BY <1>1 DEF RunsInv, OneWorkerPerRun, At, Run
  <1>5. ASSUME NEW x \in Runs PROVE RunOK(x)'
    <2>1. RunOK(r)'
      BY <1>1, RowsTypes DEF RunOK, ActiveStatuses, TerminalStatuses, Successes, Ended
    <2> QED
      BY <1>1, <2>1, RowsTypes, RunKept
  <1> QED
    BY <1>2, <1>3, <1>4, <1>5 DEF RunsInv

-----------------------------------------------------------------------------
(* The invariant *)

LEMMA RunsInit == Init => RunsInv
  BY DiscoveryAssumption
  DEF Init, RunsInv, TypeOK, WorkerOK, OneWorkerPerRun, RunOK, Idle, Pcs, At, Run,
      ActiveStatuses, TerminalStatuses, Successes, Ended, SourceStatuses

LEMMA RunsNext == RunsInv /\ [Next]_vars => RunsInv'
  <1> SUFFICES ASSUME RunsInv, [Next]_vars PROVE RunsInv'
    OBVIOUS
  <1>1. ASSUME NEW w \in Workers, WorkerStep(w) \/ Crash(w) PROVE RunsInv'
    BY <1>1, GoesOnKeeps, WorkGoesOn, FinishesKeeps, EndsFinish, ClaimKeeps, CrashKeeps,
       RecoverKeeps DEF WorkerStep
  <1>2. CASE UNCHANGED vars
    BY <1>2 DEF vars, RunsInv, TypeOK, WorkerOK, OneWorkerPerRun, RunOK, At, Run
  <1> QED
    BY <1>1, <1>2, UserKeeps DEF Next

LEMMA RunsInvariance == Spec => []RunsInv
  BY RunsInit, RunsNext, PTL DEF Spec

-----------------------------------------------------------------------------
(***************************************************************************)
(* Theorems                                                                *)
(***************************************************************************)

\* The rows keep their types, a run and its job end together and tell the same
\* story, and a run that was not cancelled ends with its source cards resolved,
\* for any number of workers, runs and kills (_complete_run, _cancel_job,
\* _fail_job and _recover_stale_discovery_jobs write both rows).
THEOREM DiscoveryJobAndRunAgree == Spec => []JobAndRunAgree
  <1>1. RunsInv => JobAndRunAgree
    BY DEF RunsInv, JobAndRunAgree, RunOK, Ended
  <1> QED
    BY <1>1, RunsInvariance, PTL

\* What a run ended with is never rewritten, neither by a second worker nor by
\* the recovery: whoever writes a status holds a RUNNING job, and then the run
\* is active.
THEOREM DiscoveryTerminalIsFinal == Spec => TerminalIsFinal
  <1> DEFINE Final == \A r \in Runs :
               status[r] \in TerminalStatuses => status'[r] \in {status[r], "deleted"}
  <1>1. RunsInv /\ [Next]_vars => [Final]_vars
    <2> SUFFICES ASSUME RunsInv, Next, NEW r \in Runs, status[r] \in TerminalStatuses
                 PROVE  status'[r] \in {status[r], "deleted"}
      OBVIOUS
    <2>0. status[r] \notin ActiveStatuses /\ status[r] # "none"
      BY DEF ActiveStatuses, TerminalStatuses, Successes
    <2>1. ASSUME NEW x \in Runs, Create(x) \/ RequestCancel(x) \/ Delete(x) \/ Expire(x)
          PROVE  status'[r] \in {status[r], "deleted"}
      BY <2>0, <2>1, RowsTypes DEF Create, RequestCancel, Delete, Expire, ActiveStatuses
    <2>2. ASSUME NEW w \in Workers, GoesOn(w) \/ Finishes(w)
          PROVE  status'[r] = status[r]
      <3>1. status[Run(w)] \in ActiveStatuses /\ Run(w) \in Runs
        BY <2>2, RowsTypes DEF GoesOn, Finishes, WorkerOK, RunOK
      <3> QED
        BY <2>0, <2>2, <3>1, RowsTypes DEF GoesOn, Finishes
    <2>3. ASSUME NEW w \in Workers, Claim(w) \/ Crash(w) \/ RecoverStale(w)
          PROVE  status'[r] = status[r]
      BY <2>0, <2>3 DEF Claim, Crash, RecoverStale
    <2> QED
      BY <2>1, <2>2, <2>3, WorkGoesOn, EndsFinish DEF Next, WorkerStep
  <1> QED
    BY <1>1, RunsInvariance, PTL DEF Spec, TerminalIsFinal

\* No more than MaxConcurrent runs of a profile are active: only create_run, under
\* the advisory lock, makes an inactive run active.
THEOREM DiscoveryActiveWithinCap == Spec => []ActiveWithinCap
  <1>0. ActiveWithinCap <=> Cardinality(ActiveRuns) <= MaxConcurrent
    BY DEF ActiveWithinCap, ActiveRuns
  <1>1. ActiveRuns \subseteq Runs /\ IsFiniteSet(ActiveRuns) /\ Cardinality(ActiveRuns) \in Nat
    BY DiscoveryAssumption, FS_Subset, FS_CardinalityType DEF ActiveRuns
  <1>2. Init => ActiveWithinCap
    <2> SUFFICES ASSUME Init PROVE Cardinality(ActiveRuns) <= MaxConcurrent
      BY <1>0
    <2>1. ActiveRuns = {}
      BY DEF Init, ActiveRuns, ActiveStatuses
    <2> QED
      BY <2>1, FS_EmptySet, DiscoveryAssumption
  <1>3. RunsInv /\ ActiveWithinCap /\ [Next]_vars => ActiveWithinCap'
    <2> SUFFICES ASSUME RunsInv, Cardinality(ActiveRuns) <= MaxConcurrent, [Next]_vars
                 PROVE  Cardinality(ActiveRuns') <= MaxConcurrent
      BY <1>0 DEF ActiveWithinCap, ActiveRuns
    <2>1. CASE ActiveRuns' \subseteq ActiveRuns
      BY <1>1, <2>1, FS_Subset, FS_CardinalityType, DiscoveryAssumption
    <2>2. ASSUME NEW r \in Runs, Create(r)
          PROVE  Cardinality(ActiveRuns') <= MaxConcurrent
      <3>1. ActiveRuns' = ActiveRuns \cup {r} /\ r \notin ActiveRuns
        BY <2>2, RowsTypes DEF Create, ActiveRuns, ActiveStatuses
      <3>2. Cardinality(ActiveRuns') = Cardinality(ActiveRuns) + 1
        BY <1>1, <3>1, FS_AddElement
      <3> QED
        BY <1>1, <2>2, <3>2, DiscoveryAssumption DEF Create
    <2>3. ASSUME NEW r \in Runs, RequestCancel(r) \/ Delete(r) \/ Expire(r)
          PROVE  ActiveRuns' \subseteq ActiveRuns
      BY <2>3, RowsTypes DEF RequestCancel, Delete, Expire, ActiveRuns, ActiveStatuses
    <2>4. ASSUME NEW w \in Workers, GoesOn(w) \/ Finishes(w)
          PROVE  ActiveRuns' \subseteq ActiveRuns
      <3>1. status[Run(w)] \in ActiveStatuses /\ Run(w) \in Runs
        BY <2>4, RowsTypes DEF GoesOn, Finishes, WorkerOK, RunOK
      <3> QED
        BY <2>4, <3>1, RowsTypes DEF GoesOn, Finishes, ActiveRuns
    <2>5. ASSUME NEW w \in Workers, Claim(w) \/ Crash(w) \/ RecoverStale(w)
          PROVE  ActiveRuns' \subseteq ActiveRuns
      BY <2>5 DEF Claim, Crash, RecoverStale, ActiveRuns, ActiveStatuses
    <2>6. UNCHANGED vars => ActiveRuns' \subseteq ActiveRuns
      BY DEF vars, ActiveRuns
    <2> QED
      BY <2>1, <2>2, <2>3, <2>4, <2>5, <2>6, WorkGoesOn, EndsFinish DEF Next, WorkerStep
  <1> QED
    BY <1>2, <1>3, RunsInvariance, PTL DEF Spec
===============================================================================
