------------------------- MODULE EmbeddingIndexProofs -------------------------
(***************************************************************************)
(* What is proved about the semantic index, for any number of workers,     *)
(* sources, rebuilds and events.                                           *)
(*                                                                         *)
(* IndexInv relates the three rows a build is made of, index, job and      *)
(* vectors, and says what a worker has loaded from them: whatever lease it *)
(* has lost, its provider is that of the index' own target.  RequestsInv   *)
(* says where a worker that has asked the provider during an interview may *)
(* still be.  CoverageInv says who works on a build no lease was lost on,  *)
(* and what a worker that has checked the coverage may not have seen.      *)
(***************************************************************************)
EXTENDS EmbeddingIndex, FiniteSetTheorems, WellFoundedInduction, TLAPS

IndexRow == [status: {"none", "building", "active", "retired", "failed"},
             target: Targets, dims: Dimensions \cup {NoDimensions}]
JobRow == [status: {"none", "queued", "running", "completed", "failed"},
           attempts: 0..MaxAttempts, stale: BOOLEAN]
Stages == {"start", "page", "probe"}
WorkerState ==
    [at: Pcs, stage: Stages, job: Rebuilds \cup {0},
     kind: Kinds, cursor: Nat, batch: [Sources -> Nat],
     dims: Dimensions \cup {NoDimensions}, provider: Targets,
     pass: 0..MaxReconciliationPasses, retryable: BOOLEAN,
     changed: SUBSET Sources, late: Nat]

\* The rows of one version of the index.  A job that may be claimed has attempts left.
RowOK(p) ==
    /\ index[p].status = "building" <=> LiveJob(p)
    /\ index[p].status \in {"active", "retired"} <=> job[p].status = "completed"
    /\ index[p].status = "failed" <=> job[p].status = "failed"
    /\ job[p].status \in {"none", "queued"} => job[p].attempts < MaxAttempts
    /\ \A s \in Sources : vectors[p][s] # NoVector =>
         /\ index[p].status # "none"
         /\ vectors[p][s].model = index[p].target
         /\ vectors[p][s].dims = index[p].dims

RowsTyped ==
    /\ index \in [Rebuilds -> IndexRow]
    /\ job \in [Rebuilds -> JobRow]
    /\ vectors \in [Rebuilds -> [Sources -> Vector \cup {NoVector}]]

OneIsCurrent ==
    /\ \A p, q \in Building : p = q
    /\ \A p, q \in Active : p = q

RowsOK ==
    /\ RowsTyped
    /\ \A p \in Rebuilds : RowOK(p)
    /\ OneIsCurrent

\* What a worker has loaded: a job that was begun, and once it has been through
\* its first verification a provider of the index' own target.
WorkerOK(w) ==
    /\ At(w, "idle") <=> Build(w) = 0
    /\ At(w, "idle") => worker[w].stage = "start"
    /\ ~At(w, "idle") => job[Build(w)].status # "none"
    /\ worker[w].stage = "start" =>
         worker[w].at \in {"idle", "load", "yield", "verify", "progress", "fail"}
    /\ worker[w].stage # "start" \/ At(w, "progress") =>
         worker[w].provider = index[Build(w)].target
    /\ At(w, "persist") => worker[w].dims # NoDimensions

IndexInv ==
    /\ TypeOK
    /\ RowsOK
    /\ \A w \in Workers : WorkerOK(w)

-----------------------------------------------------------------------------
(* The rows *)

LEMMA Constants ==
    /\ SomeTarget \in Targets
    /\ MaxAttempts \in Nat /\ MaxAttempts > 0
    /\ MaxReconciliationPasses \in Nat /\ MaxEvents \in Nat /\ MaxRebuilds \in Nat
    /\ Dimensions \subseteq Nat /\ NoDimensions \notin Dimensions
    /\ 0 \notin Rebuilds /\ Rebuilds \subseteq Nat
  BY EmbeddingAssumption DEF SomeTarget, NoDimensions, Rebuilds

\* No version becomes current but one that was.
LEMMA RowsFollow ==
    ASSUME RowsOK, RowsTyped', \A p \in Rebuilds : RowOK(p)',
           \A p \in Rebuilds : /\ index'[p].status = "building" => p \in Building
                               /\ index'[p].status = "active" => p \in Active
    PROVE  RowsOK'
  BY DEF RowsOK, OneIsCurrent, Building, Active

\* A job and what has been made of its version are kept, but for a new lease.
LEMMA RowKept ==
    ASSUME NEW p \in Rebuilds, RowOK(p), index'[p] = index[p], vectors'[p] = vectors[p],
           job'[p].status = job[p].status, job'[p].attempts = job[p].attempts
    PROVE  RowOK(p)'
  BY DEF RowOK, LiveJob

LEMMA MaxOfTwo ==
    ASSUME NEW a \in Int
    PROVE  Max({0, a}) = IF a > 0 THEN a ELSE 0
  <1> DEFINE m == IF a > 0 THEN a ELSE 0
  <1>1. m \in {0, a} /\ \A y \in {0, a} : m >= y
    OBVIOUS
  <1>2. \A x \in {0, a} : (\A y \in {0, a} : x >= y) => x = m
    OBVIOUS
  <1> HIDE DEF m
  <1>3. Max({0, a}) = m
    BY <1>1, <1>2 DEF Max
  <1> QED
    BY <1>3 DEF m

\* A running job that yields goes back to the queue with an attempt to spare.
LEMMA YieldRow ==
    ASSUME RowsOK, NEW p \in Rebuilds, Running(p)
    PROVE  /\ Yielded(p) \in JobRow
           /\ Yielded(p).status = "queued"
           /\ Yielded(p).attempts < MaxAttempts
  <1>1. job[p].attempts \in 0..MaxAttempts
    BY DEF RowsOK, RowsTyped, JobRow
  <1>2. Max({0, job[p].attempts - 1}) \in 0..MaxAttempts /\ Max({0, job[p].attempts - 1}) < MaxAttempts
    <2> DEFINE a == job[p].attempts - 1
    <2>1. a \in Int /\ a < MaxAttempts
      BY <1>1, Constants
    <2> QED
      BY <2>1, Constants, MaxOfTwo
  <1> QED
    BY <1>2 DEF Yielded, Requeued, JobRow

\* A running job that fails is queued again or takes its version with it.
LEMMA FailureRow ==
    ASSUME RowsOK, NEW p \in Rebuilds, Running(p), NEW r \in BOOLEAN
    PROVE  /\ JobAfterFailure(p, r) \in JobRow
           /\ IndexAfterFailure(p, r) \in IndexRow
           /\ IndexAfterFailure(p, r).target = index[p].target
           /\ IndexAfterFailure(p, r).dims = index[p].dims
           /\ \/ /\ JobAfterFailure(p, r).status = "queued"
                 /\ JobAfterFailure(p, r).attempts < MaxAttempts
                 /\ IndexAfterFailure(p, r).status = "building"
              \/ /\ JobAfterFailure(p, r).status = "failed"
                 /\ IndexAfterFailure(p, r).status = "failed"
  <1>1. job[p] \in JobRow /\ index[p] \in IndexRow /\ index[p].status = "building" /\ p \in Building
    BY DEF RowsOK, RowsTyped, RowOK, LiveJob, Running, Building
  <1>2. CASE Terminal(p, r)
    <2>1. JobAfterFailure(p, r) = [job[p] EXCEPT !.status = "failed", !.stale = FALSE]
      BY <1>2 DEF JobAfterFailure
    <2>2. IndexAfterFailure(p, r) = [index[p] EXCEPT !.status = "failed"]
      BY <1>1, <1>2 DEF IndexAfterFailure, MarkedFailed
    <2> QED
      BY <1>1, <2>1, <2>2 DEF JobRow, IndexRow
  <1>3. CASE ~Terminal(p, r)
    <2>1. JobAfterFailure(p, r) = [status |-> "queued", attempts |-> job[p].attempts, stale |-> FALSE]
      BY <1>3 DEF JobAfterFailure, Requeued
    <2>2. IndexAfterFailure(p, r) = index[p]
      BY <1>3 DEF IndexAfterFailure
    <2>3. job[p].attempts < MaxAttempts
      BY <1>1, <1>3, Constants DEF Terminal, JobRow
    <2> QED
      BY <1>1, <2>1, <2>2, <2>3 DEF JobRow
  <1> QED
    BY <1>2, <1>3

\* What a step leaves of the rows a worker relies on.
RowsLead == \A p \in Rebuilds : job[p].status # "none" =>
                job'[p].status # "none" /\ index'[p].target = index[p].target

LEMMA RowsUntouched == ASSUME RowsOK, UNCHANGED rows PROVE RowsOK' /\ RowsLead
  BY DEF RowsOK, RowsTyped, RowOK, OneIsCurrent, RowsLead, LiveJob, Building, Active, rows

LEMMA DeleteMemoryRows ==
    ASSUME RowsOK, NEW s \in Memories, DeleteMemory(s)
    PROVE  RowsOK' /\ RowsLead
  <1>1. vectors' \in [Rebuilds -> [Sources -> Vector \cup {NoVector}]]
    BY DEF RowsOK, RowsTyped, DeleteMemory
  <1>2. ASSUME NEW p \in Rebuilds PROVE RowOK(p)'
    <2>1. \A q \in Sources : vectors'[p][q] \in {vectors[p][q], NoVector}
      BY DEF RowsOK, RowsTyped, DeleteMemory
    <2> QED
      BY <2>1 DEF RowsOK, RowOK, LiveJob, DeleteMemory
  <1> QED
    BY <1>1, <1>2, RowsFollow DEF RowsOK, RowsTyped, RowsLead, DeleteMemory, Building, Active

\* The first number of a nonempty set of versions.
LEMMA FirstUnused ==
    ASSUME Unused # {}
    PROVE  Min(Unused) \in Unused
  <1>1. Unused \subseteq Nat
    BY Constants DEF Unused
  <1>2. PICK x \in Unused : \A y \in Unused : ~ (<<y, x>> \in OpToRel(<, Nat))
    BY <1>1, NatLessThanWellFounded, WFMin
  <1>3. \A y \in Unused : ~ (y < x)
    BY <1>1, <1>2 DEF OpToRel
  <1>4. \A y \in Unused : x =< y
    BY <1>1, <1>3
  <1> QED
    BY <1>4 DEF Min

LEMMA EnqueueRows ==
    ASSUME RowsOK, binding \in Targets \cup {Unbound}, Enqueue
    PROVE  RowsOK' /\ RowsLead
  <1> DEFINE n == Min(Unused)
             row == [status |-> "building", target |-> binding, dims |-> NoDimensions]
  <1>1. n \in Rebuilds /\ index[n].status = "none"
    BY FirstUnused DEF Enqueue, Unused
  <1>2. Building = {}
    BY DEF RowsOK, RowOK, Enqueue, Building
  <1>3. index' = [q \in Rebuilds |-> IF q = n THEN row ELSE index[q]]
    BY <1>2 DEF Enqueue, WithRebuild
  <1>4. job' = [job EXCEPT ![n].status = "queued"] /\ vectors' = vectors
    BY DEF Enqueue
  <1>5. row \in IndexRow
    BY DEF Enqueue, IndexRow
  <1> HIDE DEF n
  <1>6. job[n].status = "none" /\ job[n] \in JobRow
    BY <1>1 DEF RowsOK, RowsTyped, RowOK, LiveJob, JobRow
  <1>7. job' \in [Rebuilds -> JobRow] /\ job'[n].status = "queued"
        /\ job'[n].attempts = job[n].attempts
        /\ \A q \in Rebuilds : q # n => job'[q] = job[q]
    BY <1>1, <1>4 DEF RowsOK, RowsTyped, JobRow
  <1>8. ASSUME NEW p \in Rebuilds PROVE RowOK(p)'
    <2>1. CASE p = n
      <3>1. index'[p] = row
        BY <1>1, <1>3, <2>1
      <3>2. LiveJob(p)'
        BY <1>7, <2>1 DEF LiveJob
      <3>3. \A s \in Sources : vectors'[p][s] = NoVector
        BY <1>1, <1>4, <1>6, <2>1 DEF RowsOK, RowsTyped, RowOK
      <3>4. job'[p].attempts < MaxAttempts
        BY <1>6, <1>7, <2>1 DEF RowsOK, RowOK
      <3> QED
        BY <1>7, <2>1, <3>1, <3>2, <3>3, <3>4 DEF RowOK
    <2>2. CASE p # n
      <3>1. index'[p] = index[p] /\ job'[p] = job[p] /\ vectors'[p] = vectors[p]
        BY <1>3, <1>4, <1>7, <2>2
      <3> QED
        BY <3>1, RowKept DEF RowsOK
    <2> QED
      BY <2>1, <2>2
  <1>9. index' \in [Rebuilds -> IndexRow]
    BY <1>3, <1>5 DEF RowsOK, RowsTyped
  <1>10. RowsTyped'
    BY <1>4, <1>7, <1>9 DEF RowsOK, RowsTyped
  <1>11. OneIsCurrent'
    <2>1. \A p \in Building' : p = n
      BY <1>2, <1>3 DEF Building
    <2>2. Active' \subseteq Active
      BY <1>3 DEF Active
    <2> QED
      BY <2>1, <2>2 DEF OneIsCurrent, RowsOK
  <1>12. RowsLead
    BY <1>3, <1>6, <1>7 DEF RowsLead
  <1> QED
    BY <1>8, <1>10, <1>11, <1>12 DEF RowsOK

\* Some running jobs fail, by recovery or by their worker.
LEMMA FailedRows ==
    ASSUME RowsOK, NEW r \in BOOLEAN, vectors' = vectors,
           job' = [p \in Rebuilds |-> job'[p]], index' = [p \in Rebuilds |-> index'[p]],
           \A p \in Rebuilds :
              \/ job'[p] = job[p] /\ index'[p] = index[p]
              \/ /\ Running(p)
                 /\ job'[p] = JobAfterFailure(p, r) /\ index'[p] = IndexAfterFailure(p, r)
    PROVE  RowsOK' /\ RowsLead
  <1>1. ASSUME NEW p \in Rebuilds
        PROVE  /\ job'[p] \in JobRow /\ index'[p] \in IndexRow
               /\ RowOK(p)'
               /\ index'[p].status \in {index[p].status, "failed"}
               /\ index'[p].target = index[p].target
               /\ job[p].status # "none" => job'[p].status # "none"
    <2>1. CASE job'[p] = job[p] /\ index'[p] = index[p]
      BY <2>1, RowKept DEF RowsOK, RowsTyped
    <2>2. CASE /\ Running(p)
               /\ job'[p] = JobAfterFailure(p, r) /\ index'[p] = IndexAfterFailure(p, r)
      <3>1. RowOK(p) /\ index[p].status = "building"
        BY <2>2 DEF RowsOK, RowOK, LiveJob, Running
      <3>2. RowOK(p)'
        BY <2>2, <3>1, FailureRow DEF RowOK, LiveJob
      <3> QED
        BY <2>2, <3>1, <3>2, FailureRow
    <2> QED
      BY <2>1, <2>2
  <1>2. RowsTyped'
    BY <1>1 DEF RowsOK, RowsTyped
  <1>3. \A p \in Rebuilds : /\ index'[p].status = "building" => p \in Building
                            /\ index'[p].status = "active" => p \in Active
    BY <1>1 DEF Building, Active
  <1> QED
    BY <1>1, <1>2, <1>3, RowsFollow DEF RowsLead

LEMMA RecoverRows ==
    ASSUME RowsOK, NEW w \in Workers, Recover(w)
    PROVE  RowsOK' /\ RowsLead
  <1>1. ASSUME NEW p \in Rebuilds
        PROVE  \/ job'[p] = job[p] /\ index'[p] = index[p]
               \/ /\ Running(p)
                  /\ job'[p] = JobAfterFailure(p, TRUE) /\ index'[p] = IndexAfterFailure(p, TRUE)
    BY DEF Recover, Lost
  <1>2. vectors' = vectors
        /\ job' = [p \in Rebuilds |-> job'[p]] /\ index' = [p \in Rebuilds |-> index'[p]]
    BY DEF Recover
  <1> QED
    BY <1>1, <1>2, FailedRows

LEMMA ClaimRows ==
    ASSUME RowsOK, NEW w \in Workers, Claim(w)
    PROVE  RowsOK' /\ RowsLead
  <1>1. PICK p \in Rebuilds :
          /\ job[p].status = "queued"
          /\ job' = [job EXCEPT ![p] = [status |-> "running", attempts |-> job[p].attempts + 1,
                                        stale |-> FALSE]]
    BY DEF Claim
  <1>2. job[p].attempts + 1 \in 0..MaxAttempts
    BY <1>1, Constants DEF RowsOK, RowsTyped, RowOK, JobRow
  <1>3. job' \in [Rebuilds -> JobRow] /\ job'[p].status = "running"
        /\ \A q \in Rebuilds : q # p => job'[q] = job[q]
    BY <1>1, <1>2 DEF RowsOK, RowsTyped, JobRow
  <1>4. index' = index /\ vectors' = vectors
    BY DEF Claim
  <1>5. ASSUME NEW q \in Rebuilds PROVE RowOK(q)'
    BY <1>1, <1>3, <1>4, RowKept DEF RowsOK, RowOK, LiveJob
  <1>6. RowsTyped'
    BY <1>3, <1>4 DEF RowsOK, RowsTyped
  <1>7. RowsLead
    BY <1>3, <1>4 DEF RowsLead
  <1> QED
    BY <1>4, <1>5, <1>6, <1>7, RowsFollow DEF Building, Active

LEMMA YieldRows ==
    ASSUME RowsOK, NEW p \in Rebuilds, Running(p), job' = [job EXCEPT ![p] = Yielded(p)],
           UNCHANGED <<index, vectors>>
    PROVE  RowsOK' /\ RowsLead
  <1>1. job' \in [Rebuilds -> JobRow] /\ job'[p] = Yielded(p)
        /\ \A q \in Rebuilds : q # p => job'[q] = job[q]
    BY YieldRow DEF RowsOK, RowsTyped
  <1>2. job'[p].status = "queued" /\ job'[p].attempts < MaxAttempts
    BY <1>1, YieldRow
  <1>3. ASSUME NEW q \in Rebuilds PROVE RowOK(q)'
    BY <1>1, <1>2, RowKept DEF RowsOK, RowOK, LiveJob, Running
  <1>4. RowsTyped'
    BY <1>1 DEF RowsOK, RowsTyped
  <1>5. RowsLead
    BY <1>1, <1>2 DEF RowsLead
  <1> QED
    BY <1>3, <1>4, <1>5, RowsFollow DEF Building, Active

\* A lease is renewed or runs out.
LEMMA LeaseRows ==
    ASSUME RowsOK, NEW p \in Rebuilds, NEW stale \in BOOLEAN,
           job' = [job EXCEPT ![p].stale = stale], UNCHANGED <<index, vectors>>
    PROVE  RowsOK' /\ RowsLead
  <1>1. job' \in [Rebuilds -> JobRow]
    BY DEF RowsOK, RowsTyped, JobRow
  <1>2. \A q \in Rebuilds : job'[q].status = job[q].status /\ job'[q].attempts = job[q].attempts
    BY DEF RowsOK, RowsTyped, JobRow
  <1>3. ASSUME NEW q \in Rebuilds PROVE RowOK(q)'
    BY <1>2, RowKept DEF RowsOK
  <1>4. RowsTyped'
    BY <1>1 DEF RowsOK, RowsTyped
  <1>5. RowsLead
    BY <1>2 DEF RowsLead
  <1> QED
    BY <1>3, <1>4, <1>5, RowsFollow DEF Building, Active

LEMMA FailRows ==
    ASSUME RowsOK, NEW w \in Workers, Build(w) \in Rebuilds, worker[w].retryable \in BOOLEAN, Fail(w)
    PROVE  RowsOK' /\ RowsLead
  <1> DEFINE p == Build(w)
  <1>1. CASE ~Running(p)
    BY <1>1, RowsUntouched DEF Fail, MayFail, rows
  <1>2. CASE Running(p)
    <2>1. /\ job' = [job EXCEPT ![p] = JobAfterFailure(p, worker[w].retryable)]
          /\ index' = [index EXCEPT ![p] = IndexAfterFailure(p, worker[w].retryable)]
          /\ vectors' = vectors
      BY <1>2 DEF Fail, MayFail
    <2>2. ASSUME NEW q \in Rebuilds
          PROVE  \/ job'[q] = job[q] /\ index'[q] = index[q]
                 \/ /\ Running(q)
                    /\ job'[q] = JobAfterFailure(q, worker[w].retryable)
                    /\ index'[q] = IndexAfterFailure(q, worker[w].retryable)
      BY <1>2, <2>1 DEF RowsOK, RowsTyped
    <2>3. job' = [q \in Rebuilds |-> job'[q]] /\ index' = [q \in Rebuilds |-> index'[q]]
      BY <2>1 DEF RowsOK, RowsTyped
    <2> QED
      BY <2>1, <2>2, <2>3, FailedRows
  <1> QED
    BY <1>1, <1>2

LEMMA CompleteRows ==
    ASSUME RowsOK, NEW w \in Workers, Build(w) \in Rebuilds, Complete(w)
    PROVE  RowsOK' /\ RowsLead
  <1> DEFINE p == Build(w)
  <1>1. CASE UNCHANGED <<index, job>>
    BY <1>1, RowsUntouched DEF Complete, rows
  <1>2. CASE /\ Running(p) /\ job' = [job EXCEPT ![p] = Yielded(p)] /\ UNCHANGED index
    BY <1>2, YieldRows DEF Complete
  <1>3. CASE /\ Running(p) /\ Promotable(p) /\ index' = Promoted(p)
             /\ job' = [job EXCEPT ![p].status = "completed", ![p].stale = FALSE]
    <2> DEFINE newStatus(q) == IF q = p THEN "active"
                               ELSE IF q \in Active THEN "retired" ELSE index[q].status
    <2>0. p \in Building /\ p \in Rebuilds
      BY <1>3 DEF Promotable
    <2>1. job' \in [Rebuilds -> JobRow] /\ job'[p].status = "completed"
          /\ \A q \in Rebuilds : q # p => job'[q] = job[q]
      BY <1>3 DEF RowsOK, RowsTyped, JobRow
    <2>2. index' \in [Rebuilds -> IndexRow]
          /\ \A q \in Rebuilds : /\ index'[q].status = newStatus(q)
                                 /\ index'[q].target = index[q].target
                                 /\ index'[q].dims = index[q].dims
      BY <1>3 DEF RowsOK, RowsTyped, IndexRow, Promoted
    <2>3. vectors' = vectors
      BY DEF Complete
    <2> HIDE DEF p
    <2>4. ASSUME NEW q \in Rebuilds PROVE RowOK(q)'
      <3>1. CASE q = p
        BY <2>0, <2>1, <2>2, <2>3, <3>1 DEF RowsOK, RowOK, LiveJob, Building
      <3>2. CASE q # p /\ q \in Active
        BY <2>1, <2>2, <2>3, <3>2 DEF RowsOK, RowOK, LiveJob, Active
      <3>3. CASE q # p /\ q \notin Active
        BY <2>1, <2>2, <2>3, <3>3 DEF RowsOK, RowOK, LiveJob
      <3> QED
        BY <3>1, <3>2, <3>3
    <2>5. RowsTyped'
      BY <2>1, <2>2, <2>3 DEF RowsOK, RowsTyped
    <2>6. OneIsCurrent'
      <3>1. \A q \in Active' : q = p
        BY <2>2 DEF Active
      <3>2. Building' \subseteq Building
        BY <2>2 DEF Building
      <3> QED
        BY <3>1, <3>2 DEF RowsOK, OneIsCurrent
    <2>7. RowsLead
      BY <2>1, <2>2 DEF RowsLead
    <2> QED
      BY <2>4, <2>5, <2>6, <2>7 DEF RowsOK
  <1> QED
    BY <1>1, <1>2, <1>3 DEF Complete

LEMMA PersistRows ==
    ASSUME RowsOK, worker \in [Workers -> WorkerState], NEW w \in Workers, WorkerOK(w), Persist(w)
    PROVE  RowsOK' /\ RowsLead
  <1> DEFINE d == worker[w].dims
  <1>0. PICK p : p = Build(w)
    OBVIOUS
  <1>1. CASE UNCHANGED <<index, vectors>>
    BY <1>1, RowsUntouched DEF Persist, rows
  <1>2. CASE /\ p \in Building /\ DimensionsFit(w)
             /\ index' = [index EXCEPT ![p].dims = d]
             /\ vectors' = [vectors EXCEPT ![p] = Upserted(w)]
    <2>1. p \in Rebuilds /\ index[p].status = "building"
      BY <1>2 DEF Building
    <2>2. /\ d \in Dimensions /\ worker[w].provider = index[p].target
          /\ worker[w].provider \in Targets /\ worker[w].batch \in [Sources -> Nat]
      BY <1>0 DEF WorkerOK, Persist, At, WorkerState
    <2>3. index' \in [Rebuilds -> IndexRow]
          /\ \A q \in Rebuilds : index'[q].status = index[q].status
                                 /\ index'[q].target = index[q].target
          /\ index'[p].dims = d
          /\ \A r \in Rebuilds : r # p => index'[r] = index[r]
      BY <1>2, <2>1, <2>2 DEF RowsOK, RowsTyped, IndexRow
    <2>4. Upserted(w) \in [Sources -> Vector \cup {NoVector}]
      BY <1>0, <2>1, <2>2 DEF Upserted, RowsOK, RowsTyped, Vector
    <2>5. vectors' \in [Rebuilds -> [Sources -> Vector \cup {NoVector}]]
          /\ vectors'[p] = Upserted(w) /\ \A q \in Rebuilds : q # p => vectors'[q] = vectors[q]
      BY <1>2, <2>1, <2>4 DEF RowsOK, RowsTyped
    <2>6. job' = job
      BY DEF Persist
    <2>7. ASSUME NEW s \in Sources, vectors[p][s] # NoVector
          PROVE  vectors[p][s].model = index[p].target /\ vectors[p][s].dims = d
      <3>1. vectors[p][s] \in Vector /\ vectors[p][s].dims = index[p].dims
            /\ vectors[p][s].model = index[p].target
        BY <2>1, <2>7 DEF RowsOK, RowsTyped, RowOK
      <3>2. index[p].dims # NoDimensions
        BY <3>1, Constants DEF Vector
      <3> QED
        BY <1>0, <1>2, <3>1, <3>2 DEF DimensionsFit
    <2>8. RowOK(p)'
      <3>1. ASSUME NEW s \in Sources, Upserted(w)[s] # NoVector
            PROVE  Upserted(w)[s].model = index[p].target /\ Upserted(w)[s].dims = d
        BY <1>0, <2>2, <2>7, <3>1 DEF Upserted
      <3> QED
        BY <2>1, <2>3, <2>5, <2>6, <3>1 DEF RowsOK, RowOK, LiveJob
    <2>9. ASSUME NEW q \in Rebuilds PROVE RowOK(q)'
      BY <2>3, <2>5, <2>6, <2>8, RowKept DEF RowsOK
    <2>10. RowsTyped'
      BY <2>3, <2>5, <2>6 DEF RowsOK, RowsTyped
    <2>11. RowsLead
      BY <2>3, <2>6 DEF RowsLead
    <2> QED
      BY <2>3, <2>9, <2>10, <2>11, RowsFollow DEF Building, Active
  <1> QED
    BY <1>0, <1>1, <1>2 DEF Persist

-----------------------------------------------------------------------------
(* The workers *)

\* Nobody but w moves.
Moved(w) ==
    /\ worker' \in [Workers -> WorkerState]
    /\ \A v \in Workers : v # w => worker'[v] = worker[v]

LEMMA IdleType == Idle \in WorkerState
  BY Constants DEF Idle, WorkerState, Pcs, Stages, Kinds, NoBatch

LEMMA ReturnMoves ==
    ASSUME worker \in [Workers -> WorkerState], NEW w \in Workers, Return(w)
    PROVE  Moved(w) /\ worker'[w] = Idle /\ WorkerOK(w)'
  <1>1. Moved(w) /\ worker'[w] = Idle
    BY IdleType DEF Return, Moved
  <1> QED
    BY <1>1 DEF WorkerOK, Idle, At, Build

LEMMA GotoMoves ==
    ASSUME worker \in [Workers -> WorkerState], NEW w \in Workers, NEW pc \in Pcs, Goto(w, pc)
    PROVE  Moved(w) /\ worker'[w] = [worker[w] EXCEPT !.at = pc]
  <1>1. [worker[w] EXCEPT !.at = pc] \in WorkerState
    BY DEF WorkerState
  <1> QED
    BY <1>1 DEF Goto, Moved

LEMMA RaiseMoves ==
    ASSUME worker \in [Workers -> WorkerState], NEW w \in Workers, NEW r \in BOOLEAN, Raise(w, r)
    PROVE  Moved(w) /\ worker'[w] = [worker[w] EXCEPT !.at = "fail", !.retryable = r]
  <1>1. [worker[w] EXCEPT !.at = "fail", !.retryable = r] \in WorkerState
    BY ZenonT(60) DEF WorkerState, Pcs
  <1>2. worker' = [worker EXCEPT ![w] = [worker[w] EXCEPT !.at = "fail", !.retryable = r]]
    BY DEF Raise
  <1> QED
    BY <1>1, <1>2 DEF Moved

LEMMA OthersOK ==
    ASSUME IndexInv, RowsLead, NEW w \in Workers, Moved(w), WorkerOK(w)'
    PROVE  \A v \in Workers : WorkerOK(v)'
  <1> SUFFICES ASSUME NEW v \in Workers, v # w PROVE WorkerOK(v)'
    OBVIOUS
  <1>1. worker'[v] = worker[v] /\ WorkerOK(v) /\ worker[v].job \in Rebuilds \cup {0}
    BY DEF Moved, IndexInv, TypeOK
  <1>2. CASE At(v, "idle")
    BY <1>1, <1>2 DEF WorkerOK, At, Build
  <1>3. CASE ~At(v, "idle")
    <2>1. worker[v].job \in Rebuilds /\ job[worker[v].job].status # "none"
      BY <1>1, <1>3 DEF WorkerOK, Build
    <2> QED
      BY <1>1, <1>3, <2>1 DEF WorkerOK, RowsLead, At, Build
  <1> QED
    BY <1>2, <1>3

LEMMA WorkerTypes ==
    ASSUME IndexInv, NEW w \in Workers
    PROVE  /\ worker \in [Workers -> WorkerState]
           /\ worker[w] \in WorkerState
           /\ WorkerOK(w)
           /\ ~At(w, "idle") => Build(w) \in Rebuilds /\ job[Build(w)].status # "none"
  <1>1. worker \in [Workers -> WorkerState] /\ WorkerOK(w)
    BY DEF IndexInv, TypeOK, WorkerState, Stages
  <1> QED
    BY <1>1 DEF WorkerOK, Build, WorkerState

\* A worker goes on with its build.
LEMMA Continues ==
    ASSUME IndexInv, RowsLead, NEW w \in Workers, ~At(w, "idle"), NEW x \in WorkerState,
           worker' = [worker EXCEPT ![w] = x], x.job = Build(w), x.at # "idle",
           x.stage = "start" => x.at \in {"load", "yield", "verify", "progress", "fail"},
           x.stage # "start" \/ x.at = "progress" => x.provider = index[Build(w)].target,
           x.at = "persist" => x.dims # NoDimensions
    PROVE  Moved(w) /\ WorkerOK(w)'
  <1>1. worker \in [Workers -> WorkerState] /\ Build(w) \in Rebuilds /\ job[Build(w)].status # "none"
    BY WorkerTypes
  <1>2. Moved(w) /\ worker'[w] = x
    BY <1>1 DEF Moved
  <1>3. index'[x.job].target = index[x.job].target /\ job'[x.job].status # "none"
    BY <1>1 DEF RowsLead
  <1>4. x.job # 0
    BY <1>1, Constants
  <1> QED
    BY <1>2, <1>3, <1>4 DEF WorkerOK, At, Build

LEMMA GotoContinues ==
    ASSUME IndexInv, RowsLead, NEW w \in Workers, ~At(w, "idle"),
           NEW pc \in Pcs \ {"idle", "persist", "progress"}, Goto(w, pc),
           worker[w].stage = "start" => pc \in {"load", "yield", "verify", "fail"}
    PROVE  Moved(w) /\ WorkerOK(w)'
  <1> DEFINE x == [worker[w] EXCEPT !.at = pc]
  <1>1. worker[w] \in WorkerState /\ WorkerOK(w)
    BY WorkerTypes
  <1>2. x \in WorkerState /\ x.job = Build(w) /\ x.at = pc /\ x.stage = worker[w].stage
        /\ x.provider = worker[w].provider
    BY <1>1 DEF WorkerState, Build
  <1>3. worker' = [worker EXCEPT ![w] = x]
    BY DEF Goto
  <1>4. x.stage # "start" => x.provider = index[Build(w)].target
    BY <1>1, <1>2 DEF WorkerOK
  <1> HIDE DEF x
  <1> QED
    BY <1>2, <1>3, <1>4, Continues

LEMMA RaiseContinues ==
    ASSUME IndexInv, RowsLead, NEW w \in Workers, ~At(w, "idle"), NEW r \in BOOLEAN, Raise(w, r)
    PROVE  Moved(w) /\ WorkerOK(w)'
  <1> DEFINE x == [worker[w] EXCEPT !.at = "fail", !.retryable = r]
  <1>1. worker[w] \in WorkerState /\ WorkerOK(w)
    BY WorkerTypes
  <1>2. x \in WorkerState /\ x.job = Build(w) /\ x.at = "fail" /\ x.stage = worker[w].stage
        /\ x.provider = worker[w].provider
    BY <1>1 DEF WorkerState, Build, Pcs
  <1>3. worker' = [worker EXCEPT ![w] = x]
    BY DEF Raise
  <1>4. x.stage # "start" => x.provider = index[Build(w)].target
    BY <1>1, <1>2 DEF WorkerOK
  <1> HIDE DEF x
  <1> QED
    BY <1>2, <1>3, <1>4, Continues

LEMMA ClaimWorker ==
    ASSUME IndexInv, RowsLead, NEW w \in Workers, Claim(w)
    PROVE  Moved(w) /\ WorkerOK(w)'
  <1>1. PICK p \in Rebuilds : job[p].status = "queued"
                              /\ worker' = [worker EXCEPT ![w].at = "load", ![w].job = p]
    BY DEF Claim
  <1>2. worker \in [Workers -> WorkerState] /\ WorkerOK(w) /\ worker[w].stage = "start"
    BY WorkerTypes DEF Claim, WorkerOK
  <1> DEFINE x == [worker[w] EXCEPT !.at = "load", !.job = p]
  <1>3. x \in WorkerState /\ x.at = "load" /\ x.job = p /\ x.stage = "start"
    BY ZenonT(60), <1>2 DEF WorkerState, Pcs
  <1>4. worker' = [worker EXCEPT ![w] = x]
    BY <1>1
  <1>5. Moved(w) /\ worker'[w] = x
    BY <1>2, <1>3, <1>4 DEF Moved
  <1>6. job'[p].status # "none" /\ p # 0
    BY <1>1, Constants DEF RowsLead
  <1> HIDE DEF x
  <1> QED
    BY <1>3, <1>5, <1>6 DEF WorkerOK, At, Build

LEMMA VerifyWorker ==
    ASSUME IndexInv, RowsLead, NEW w \in Workers, Verify(w)
    PROVE  Moved(w) /\ WorkerOK(w)'
  <1>0. ~At(w, "idle") /\ worker[w] \in WorkerState /\ WorkerOK(w)
    BY WorkerTypes DEF Verify, At
  <1>1. CASE Raise(w, FALSE)
    BY <1>0, <1>1, RaiseContinues
  <1>2. CASE /\ Build(w) \in Building /\ TargetUnchanged(Build(w)) /\ worker[w].stage = "start"
             /\ worker' = [worker EXCEPT ![w].at = "progress", ![w].provider = binding,
                                         ![w].dims = index[Build(w)].dims]
    <2> DEFINE x == [worker[w] EXCEPT !.at = "progress", !.provider = binding,
                                      !.dims = index[Build(w)].dims]
    <2>1. binding = index[Build(w)].target /\ index[Build(w)] \in IndexRow
      BY <1>2 DEF TargetUnchanged, Building, IndexInv, RowsOK, RowsTyped
    <2>2. x \in WorkerState /\ x.at = "progress" /\ x.job = Build(w) /\ x.provider = binding
      BY <1>0, <2>1 DEF WorkerState, Pcs, Build, IndexRow
    <2>3. worker' = [worker EXCEPT ![w] = x]
      BY <1>2
    <2> HIDE DEF x
    <2> QED
      BY <1>0, <2>1, <2>2, <2>3, Continues
  <1>3. CASE worker[w].stage # "start" /\ (Goto(w, "read") \/ Goto(w, "embed"))
    BY <1>0, <1>3, GotoContinues DEF Pcs
  <1> QED
    BY <1>1, <1>2, <1>3 DEF Verify

\* A finite set of numbers has a greatest: a smallest set without one would still
\* have none without one of its members.
LEMMA FiniteMaximum ==
    ASSUME NEW S \in SUBSET Nat, IsFiniteSet(S), S # {}
    PROVE  \E m \in S : \A y \in S : m >= y
  <1> DEFINE Bad(R) == IsFiniteSet(R) /\ R # {} /\ ~ \E m \in R : \A y \in R : m >= y
             T == {n \in Nat : \E R \in SUBSET Nat : Bad(R) /\ Cardinality(R) = n}
  <1> SUFFICES ASSUME Bad(S) PROVE FALSE
    OBVIOUS
  <1>1. T # {}
    BY FS_CardinalityType
  <1>2. T \subseteq Nat
    OBVIOUS
  <1>3. PICK n \in T : \A k \in T : ~ (<<k, n>> \in OpToRel(<, Nat))
    <2> HIDE DEF T
    <2> QED BY <1>1, <1>2, NatLessThanWellFounded, WFMin
  <1>4. \A k \in T : ~ (k < n)
    BY <1>2, <1>3 DEF OpToRel
  <1>5. PICK R \in SUBSET Nat : Bad(R) /\ Cardinality(R) = n
    OBVIOUS
  <1>6. PICK x : x \in R
    BY <1>5
  <1>7. IsFiniteSet(R \ {x}) /\ Cardinality(R \ {x}) = n - 1 /\ n \in Nat
    BY <1>5, <1>6, FS_RemoveElement
  <1>8. R \ {x} # {}
    <2>1. R = {x} => \A y \in R : x >= y
      BY <1>6
    <2> QED
      BY <1>5, <1>6, <2>1
  <1>9. n - 1 \in Nat
    BY <1>7, FS_CardinalityType
  <1>10. ~ Bad(R \ {x})
    <2>1. n - 1 \notin T
      BY <1>4, <1>7, <1>9
    <2>2. R \ {x} \in SUBSET Nat
      OBVIOUS
    <2> QED
      BY <1>7, <1>9, <2>1, <2>2
  <1>11. PICK m \in R \ {x} : \A y \in R \ {x} : m >= y
    BY <1>7, <1>8, <1>10
  <1>12. \A y \in R : (IF m >= x THEN m ELSE x) >= y
    BY <1>6, <1>11
  <1> QED
    BY <1>5, <1>6, <1>11, <1>12

LEMMA LastOfPage ==
    ASSUME NEW page \in SUBSET Sources, page # {}
    PROVE  Max(page) \in page
  <1>1. page \in SUBSET Nat /\ IsFiniteSet(page)
    BY EmbeddingAssumption, FS_Subset
  <1>2. \E m \in page : \A y \in page : m >= y
    BY <1>1, FiniteMaximum
  <1> QED
    BY <1>2 DEF Max

LEMMA ReadPageWorker ==
    ASSUME IndexInv, RowsLead, NEW w \in Workers, ReadPage(w)
    PROVE  Moved(w) /\ WorkerOK(w)'
  <1>0. ~At(w, "idle") /\ worker[w] \in WorkerState /\ WorkerOK(w) /\ worker[w].stage # "start"
    BY WorkerTypes DEF ReadPage, At, WorkerOK
  <1> DEFINE page == Page(worker[w].kind, worker[w].cursor)
             pending == Pending(Build(w), page)
  <1>1. CASE worker' = [worker EXCEPT ![w].at = "yield", ![w].kind = "plan_question",
                                      ![w].cursor = 0]
    <2> DEFINE x == [worker[w] EXCEPT !.at = "yield", !.kind = "plan_question", !.cursor = 0]
    <2>1. x \in WorkerState /\ x.at = "yield" /\ x.job = Build(w) /\ x.stage = worker[w].stage
          /\ x.provider = worker[w].provider
      BY <1>0 DEF WorkerState, Pcs, Build, Kinds
    <2>2. worker' = [worker EXCEPT ![w] = x]
      BY <1>1
    <2>3. x.provider = index[Build(w)].target
      BY <1>0, <2>1 DEF WorkerOK
    <2> HIDE DEF x
    <2> QED
      BY <1>0, <2>1, <2>2, <2>3, Continues
  <1>2. CASE Goto(w, "cover")
    BY <1>0, <1>2, GotoContinues DEF Pcs
  <1>3. CASE /\ page # {}
             /\ worker' = [worker EXCEPT
                    ![w].at = IF pending = NoBatch THEN "progress" ELSE "embed",
                    ![w].cursor = Max(page), ![w].batch = pending]
    <2> DEFINE pc == IF pending = NoBatch THEN "progress" ELSE "embed"
               x == [worker[w] EXCEPT !.at = pc, !.cursor = Max(page), !.batch = pending]
    <2>1. page \in SUBSET Sources
      BY DEF Page, Retrievable
    <2>2. Max(page) \in Nat
      BY <1>3, <2>1, LastOfPage, EmbeddingAssumption
    <2>3. pending \in [Sources -> Nat]
      <3>1. \A s \in page : sources[s] \in Nat
        BY DEF Page, Retrievable, IndexInv, TypeOK, Gone
      <3> QED
        BY <3>1 DEF Pending
    <2>4. pc \in {"progress", "embed"}
      OBVIOUS
    <2> HIDE DEF page, pending, pc
    <2>5. x \in WorkerState /\ x.at = pc /\ x.job = Build(w) /\ x.stage = worker[w].stage
          /\ x.provider = worker[w].provider
      BY <1>0, <2>2, <2>3, <2>4 DEF WorkerState, Pcs, Build
    <2>6. worker' = [worker EXCEPT ![w] = x]
      BY <1>3 DEF pc
    <2>7. x.provider = index[Build(w)].target
      BY <1>0, <2>5 DEF WorkerOK
    <2> HIDE DEF x
    <2> QED
      BY <1>0, <2>4, <2>5, <2>6, <2>7, Continues
  <1> QED
    BY <1>1, <1>2, <1>3 DEF ReadPage

LEMMA EmbedWorker ==
    ASSUME IndexInv, RowsLead, NEW w \in Workers, Embed(w)
    PROVE  Moved(w) /\ WorkerOK(w)'
  <1>0. ~At(w, "idle") /\ worker[w] \in WorkerState /\ WorkerOK(w) /\ worker[w].stage # "start"
    BY WorkerTypes DEF Embed, At, WorkerOK
  <1>1. ASSUME NEW d \in Dimensions,
               worker' = [worker EXCEPT ![w].at = "persist", ![w].dims = d,
                      ![w].late = IF interviewing THEN worker[w].late + 1 ELSE worker[w].late]
        PROVE  Moved(w) /\ WorkerOK(w)'
    <2> DEFINE l == IF interviewing THEN worker[w].late + 1 ELSE worker[w].late
               x == [worker[w] EXCEPT !.at = "persist", !.dims = d, !.late = l]
    <2>1. l \in Nat
      BY <1>0 DEF WorkerState
    <2>2. worker' = [worker EXCEPT ![w] = x]
      BY <1>1
    <2> HIDE DEF l
    <2>3. x \in WorkerState /\ x.at = "persist" /\ x.job = Build(w) /\ x.stage = worker[w].stage
          /\ x.provider = worker[w].provider /\ x.dims = d
      BY <1>0, <2>1 DEF WorkerState, Pcs, Build
    <2>4. x.provider = index[Build(w)].target /\ d # NoDimensions
      BY <1>0, <2>3, Constants DEF WorkerOK
    <2> HIDE DEF x
    <2> QED
      BY <1>0, <2>2, <2>3, <2>4, Continues
  <1>2. ASSUME NEW r \in BOOLEAN, Raise(w, r) PROVE Moved(w) /\ WorkerOK(w)'
    BY <1>0, <1>2, RaiseContinues
  <1> QED
    BY <1>1, <1>2 DEF Embed

LEMMA PersistWorker ==
    ASSUME IndexInv, RowsLead, NEW w \in Workers, Persist(w)
    PROVE  Moved(w) /\ WorkerOK(w)'
  <1>0. ~At(w, "idle") /\ worker[w] \in WorkerState /\ WorkerOK(w) /\ worker[w].stage # "start"
    BY WorkerTypes DEF Persist, At, WorkerOK
  <1>1. ASSUME NEW r \in BOOLEAN, Raise(w, r) PROVE Moved(w) /\ WorkerOK(w)'
    BY <1>0, <1>1, RaiseContinues
  <1>2. CASE worker' = [worker EXCEPT ![w].batch = NoBatch,
                    ![w].at = IF worker[w].stage = "probe" THEN "complete" ELSE "progress"]
    <2> DEFINE pc == IF worker[w].stage = "probe" THEN "complete" ELSE "progress"
               x == [worker[w] EXCEPT !.batch = NoBatch, !.at = pc]
    <2>1. pc \in {"complete", "progress"} /\ NoBatch \in [Sources -> Nat]
      BY DEF NoBatch
    <2>2. worker' = [worker EXCEPT ![w] = x]
      BY <1>2
    <2> HIDE DEF pc
    <2>3. x \in WorkerState /\ x.at = pc /\ x.job = Build(w) /\ x.stage = worker[w].stage
          /\ x.provider = worker[w].provider
      BY <1>0, <2>1 DEF WorkerState, Pcs, Build
    <2>4. x.provider = index[Build(w)].target
      BY <1>0, <2>3 DEF WorkerOK
    <2> HIDE DEF x
    <2> QED
      BY <1>0, <2>1, <2>2, <2>3, <2>4, Continues
  <1> QED
    BY <1>1, <1>2 DEF Persist

LEMMA UpdateProgressWorker ==
    ASSUME IndexInv, RowsLead, NEW w \in Workers, UpdateProgress(w)
    PROVE  Moved(w) /\ WorkerOK(w)'
  <1>0. ~At(w, "idle") /\ worker[w] \in WorkerState /\ WorkerOK(w) /\ At(w, "progress")
    BY WorkerTypes DEF UpdateProgress, At
  <1> DEFINE x == [worker[w] EXCEPT !.at = "yield", !.stage = "page"]
  <1>1. worker' = [worker EXCEPT ![w] = x]
    BY DEF UpdateProgress
  <1>2. x \in WorkerState /\ x.at = "yield" /\ x.job = Build(w)
        /\ x.stage = "page" /\ x.provider = worker[w].provider
    BY <1>0 DEF WorkerState, Pcs, Build, Stages
  <1>3. x.provider = index[Build(w)].target
    BY <1>0, <1>2 DEF WorkerOK
  <1> HIDE DEF x
  <1> QED
    BY <1>0, <1>1, <1>2, <1>3, Continues

LEMMA CheckCoverageWorker ==
    ASSUME IndexInv, RowsLead, NEW w \in Workers, CheckCoverage(w)
    PROVE  Moved(w) /\ WorkerOK(w)'
  <1>0. ~At(w, "idle") /\ worker[w] \in WorkerState /\ WorkerOK(w) /\ worker[w].stage # "start"
    BY WorkerTypes DEF CheckCoverage, At, WorkerOK
  <1>1. CASE /\ worker[w].pass < MaxReconciliationPasses
             /\ worker' = [worker EXCEPT ![w].at = "progress", ![w].kind = "memory",
                                         ![w].cursor = 0, ![w].pass = worker[w].pass + 1]
    <2> DEFINE n == worker[w].pass + 1
               x == [worker[w] EXCEPT !.at = "progress", !.kind = "memory",
                                      !.cursor = 0, !.pass = n]
    <2>1. n \in 0..MaxReconciliationPasses
      BY <1>0, <1>1, Constants DEF WorkerState
    <2>2. worker' = [worker EXCEPT ![w] = x]
      BY <1>1
    <2> HIDE DEF n
    <2>3. x \in WorkerState /\ x.at = "progress" /\ x.job = Build(w)
          /\ x.stage = worker[w].stage /\ x.provider = worker[w].provider
      BY <1>0, <2>1 DEF WorkerState, Pcs, Build, Kinds
    <2>4. x.provider = index[Build(w)].target
      BY <1>0, <2>3 DEF WorkerOK
    <2> HIDE DEF x
    <2> QED
      BY <1>0, <2>2, <2>3, <2>4, Continues
  <1>2. CASE worker' = [worker EXCEPT ![w].at = "yield", ![w].stage = "probe"]
    <2> DEFINE x == [worker[w] EXCEPT !.at = "yield", !.stage = "probe"]
    <2>1. worker' = [worker EXCEPT ![w] = x]
      BY <1>2
    <2>2. x \in WorkerState /\ x.at = "yield" /\ x.job = Build(w)
          /\ x.stage = "probe" /\ x.provider = worker[w].provider
      BY <1>0 DEF WorkerState, Pcs, Build, Stages
    <2>3. x.provider = index[Build(w)].target
      BY <1>0, <2>2 DEF WorkerOK
    <2> HIDE DEF x
    <2> QED
      BY <1>0, <2>1, <2>2, <2>3, Continues
  <1>3. CASE Raise(w, TRUE)
    BY <1>0, <1>3, RaiseContinues
  <1>4. CASE Goto(w, "complete")
    BY <1>0, <1>4, GotoContinues DEF Pcs
  <1> QED
    BY <1>1, <1>2, <1>3, <1>4 DEF CheckCoverage

-----------------------------------------------------------------------------
(* The environment, and the invariant of the rows and the workers *)

LEMMA HasEventTypes == ASSUME events \in 0..MaxEvents, HasEvent PROVE events' \in 0..MaxEvents
  BY Constants DEF HasEvent

\* Where the invariant leaves a step to be shown: the rows, and the one worker
\* that moves.
LEMMA WorkerMoves ==
    ASSUME IndexInv, RowsOK', RowsLead, NEW w \in Workers, Moved(w), WorkerOK(w)',
           UNCHANGED <<sources, memoryEnabled, binding, interviewing, overran>>,
           events' \in 0..MaxEvents
    PROVE  IndexInv'
  <1>1. \A v \in Workers : WorkerOK(v)'
    BY OthersOK
  <1>2. TypeOK'
    BY DEF IndexInv, TypeOK, RowsOK, RowsTyped, IndexRow, JobRow, Moved, WorkerState, Stages
  <1> QED
    BY <1>1, <1>2 DEF IndexInv

LEMMA WorkersKept ==
    ASSUME IndexInv, RowsLead, UNCHANGED worker
    PROVE  \A w \in Workers : WorkerOK(w)'
  <1> TAKE w \in Workers
  <1>1. Moved(w)
    BY WorkerTypes DEF Moved
  <1>2. WorkerOK(w) /\ worker[w].job \in Rebuilds \cup {0}
    BY DEF IndexInv, TypeOK
  <1> QED
    BY <1>2 DEF WorkerOK, RowsLead, At, Build

\* What is noticed, or counted afresh, is nothing the invariant depends on.
LEMMA HistoryKept ==
    ASSUME IndexInv, RowsLead, worker' \in [Workers -> WorkerState],
           \A w \in Workers : \A x \in {"at", "stage", "job", "provider", "dims"} :
              worker'[w][x] = worker[w][x]
    PROVE  \A w \in Workers : WorkerOK(w)'
  <1> TAKE w \in Workers
  <1>1. WorkerOK(w) /\ worker[w].job \in Rebuilds \cup {0}
    BY DEF IndexInv, TypeOK
  <1>2. /\ worker'[w].at = worker[w].at /\ worker'[w].stage = worker[w].stage
        /\ worker'[w].job = worker[w].job /\ worker'[w].provider = worker[w].provider
        /\ worker'[w].dims = worker[w].dims
    OBVIOUS
  <1> QED
    BY <1>1, <1>2 DEF WorkerOK, RowsLead, At, Build

LEMMA NoticeKeeps ==
    ASSUME IndexInv, RowsLead, NEW S \in SUBSET Sources, Notice(S)
    PROVE  /\ worker' \in [Workers -> WorkerState]
           /\ \A w \in Workers : WorkerOK(w)'
  <1>1. worker \in [Workers -> WorkerState]
    BY DEF IndexInv, TypeOK, WorkerState, Stages
  <1>2. ASSUME NEW w \in Workers
        PROVE  /\ worker'[w] \in WorkerState
               /\ \A x \in {"at", "stage", "job", "provider", "dims"} :
                    worker'[w][x] = worker[w][x]
    <2>1. worker[w] \in WorkerState
      BY <1>1
    <2>2. worker'[w] = IF HasChecked(w) THEN [worker[w] EXCEPT !.changed = @ \cup S] ELSE worker[w]
      BY DEF Notice
    <2>3. /\ [worker[w] EXCEPT !.changed = @ \cup S] \in WorkerState
          /\ \A x \in {"at", "stage", "job", "provider", "dims"} :
               [worker[w] EXCEPT !.changed = @ \cup S][x] = worker[w][x]
      BY <2>1 DEF WorkerState
    <2> QED
      BY <2>1, <2>2, <2>3
  <1>3. worker' \in [Workers -> WorkerState]
    BY <1>2 DEF Notice
  <1> QED
    BY <1>2, <1>3, HistoryKept

LEMMA EndInterviewKeeps ==
    ASSUME IndexInv, RowsLead, EndInterview
    PROVE  /\ worker' \in [Workers -> WorkerState]
           /\ \A w \in Workers : WorkerOK(w)'
  <1>1. worker \in [Workers -> WorkerState]
    BY DEF IndexInv, TypeOK, WorkerState, Stages
  <1>2. ASSUME NEW w \in Workers
        PROVE  /\ worker'[w] \in WorkerState
               /\ \A x \in {"at", "stage", "job", "provider", "dims"} :
                    worker'[w][x] = worker[w][x]
    <2>1. worker[w] \in WorkerState
      BY <1>1
    <2>2. worker'[w] = [worker[w] EXCEPT !.late = 0]
      BY DEF EndInterview
    <2> QED
      BY <2>1, <2>2 DEF WorkerState
  <1>3. worker' \in [Workers -> WorkerState]
    BY <1>2 DEF EndInterview
  <1> QED
    BY <1>2, <1>3, HistoryKept

LEMMA UserKeepsIndexInv == ASSUME IndexInv, UserStep PROVE IndexInv'
  <1>0. RowsOK /\ worker \in [Workers -> WorkerState]
    BY DEF IndexInv, TypeOK, WorkerState, Stages
  <1>1. ASSUME RowsOK', RowsLead, worker' \in [Workers -> WorkerState],
               \A w \in Workers : WorkerOK(w)',
               sources' \in [Sources -> Nat \cup {Gone}], memoryEnabled' \in BOOLEAN,
               binding' \in Targets \cup {Unbound}, interviewing' \in BOOLEAN,
               overran' = overran, events' \in 0..MaxEvents
        PROVE  IndexInv'
    <2>1. TypeOK'
      BY <1>1 DEF IndexInv, TypeOK, RowsOK, RowsTyped, IndexRow, JobRow, WorkerState, Stages
    <2> QED
      BY <1>1, <2>1 DEF IndexInv
  <1>2. ASSUME NEW s \in Sources, WriteSource(s) PROVE IndexInv'
    <2>1. RowsOK' /\ RowsLead
      BY <1>0, <1>2, RowsUntouched DEF WriteSource, rows
    <2>2. sources' \in [Sources -> Nat \cup {Gone}]
      <3>1. sources[s] \in Nat
        BY <1>2 DEF IndexInv, TypeOK, WriteSource, NotYet, Gone
      <3> QED
        BY <1>2, <3>1 DEF WriteSource, IndexInv, TypeOK
    <2>3. HasEvent /\ Notice({s}) /\ UNCHANGED <<memoryEnabled, binding, interviewing, overran>>
      BY <1>2 DEF WriteSource
    <2>4. worker' \in [Workers -> WorkerState] /\ \A w \in Workers : WorkerOK(w)'
      BY <2>1, <2>3, NoticeKeeps
    <2> QED
      BY <1>1, <2>1, <2>2, <2>3, <2>4, HasEventTypes DEF IndexInv, TypeOK
  <1>3. ASSUME NEW s \in Memories, DeleteMemory(s) PROVE IndexInv'
    <2>1. RowsOK' /\ RowsLead
      BY <1>0, <1>3, DeleteMemoryRows
    <2>2. sources' \in [Sources -> Nat \cup {Gone}]
      BY <1>3 DEF DeleteMemory, IndexInv, TypeOK
    <2>3. HasEvent /\ UNCHANGED <<worker, memoryEnabled, binding, interviewing, overran>>
      BY <1>3 DEF DeleteMemory
    <2> QED
      BY <1>0, <1>1, <2>1, <2>2, <2>3, WorkersKept, HasEventTypes DEF IndexInv, TypeOK
  <1>4. CASE ToggleMemory
    <2>1. RowsOK' /\ RowsLead
      BY <1>0, <1>4, RowsUntouched DEF ToggleMemory, rows
    <2>2. HasEvent /\ Notice(Memories) /\ UNCHANGED <<sources, binding, interviewing, overran>>
          /\ memoryEnabled' \in BOOLEAN
      BY <1>4 DEF ToggleMemory
    <2>3. worker' \in [Workers -> WorkerState] /\ \A w \in Workers : WorkerOK(w)'
      BY <2>1, <2>2, NoticeKeeps DEF Sources
    <2> QED
      BY <1>1, <2>1, <2>2, <2>3, HasEventTypes DEF IndexInv, TypeOK
  <1>5. CASE Rebind
    <2>1. RowsOK' /\ RowsLead
      BY <1>0, <1>5, RowsUntouched DEF Rebind, rows
    <2>2. HasEvent /\ UNCHANGED <<worker, sources, memoryEnabled, interviewing, overran>>
          /\ binding' \in Targets \cup {Unbound}
      BY <1>5 DEF Rebind
    <2> QED
      BY <1>0, <1>1, <2>1, <2>2, WorkersKept, HasEventTypes DEF IndexInv, TypeOK
  <1>6. CASE StartInterview
    <2>1. RowsOK' /\ RowsLead
      BY <1>0, <1>6, RowsUntouched DEF StartInterview, rows
    <2>2. UNCHANGED <<worker, sources, memoryEnabled, binding, overran, events>>
          /\ interviewing' \in BOOLEAN
      BY <1>6 DEF StartInterview
    <2> QED
      BY <1>0, <1>1, <2>1, <2>2, WorkersKept DEF IndexInv, TypeOK
  <1>7. CASE EndInterview
    <2>1. RowsOK' /\ RowsLead
      BY <1>0, <1>7, RowsUntouched DEF EndInterview, rows
    <2>2. UNCHANGED <<sources, memoryEnabled, binding, overran, events>>
          /\ interviewing' \in BOOLEAN
      BY <1>7 DEF EndInterview
    <2> QED
      BY <1>1, <1>7, <2>1, <2>2, EndInterviewKeeps DEF IndexInv, TypeOK
  <1>8. CASE Enqueue
    <2>1. RowsOK' /\ RowsLead
      BY <1>0, <1>8, EnqueueRows DEF IndexInv, TypeOK
    <2>2. UNCHANGED <<worker, sources, memoryEnabled, binding, interviewing, overran>>
          /\ (UNCHANGED events \/ HasEvent)
      BY <1>8 DEF Enqueue
    <2>3. events' \in 0..MaxEvents
      BY <2>2, HasEventTypes DEF IndexInv, TypeOK
    <2> QED
      BY <1>0, <1>1, <2>1, <2>2, <2>3, WorkersKept DEF IndexInv, TypeOK
  <1> QED
    BY <1>2, <1>3, <1>4, <1>5, <1>6, <1>7, <1>8 DEF UserStep

LEMMA WorkerKeepsIndexInv ==
    ASSUME IndexInv, NEW w \in Workers, WorkerStep(w) PROVE IndexInv'
  <1>0. RowsOK /\ worker \in [Workers -> WorkerState] /\ worker[w] \in WorkerState /\ WorkerOK(w)
        /\ (~At(w, "idle") => Build(w) \in Rebuilds)
    BY WorkerTypes DEF IndexInv
  <1>1. UNCHANGED <<sources, memoryEnabled, binding, interviewing, overran>>
        /\ events' \in 0..MaxEvents
    BY DEF WorkerStep, Recover, Claim, LoadContext, Yield, Verify, ReadPage, Embed, Persist,
           UpdateProgress, CheckCoverage, Complete, Fail, environment, IndexInv, TypeOK
  <1>2. SUFFICES RowsOK' /\ RowsLead /\ (RowsLead => Moved(w) /\ WorkerOK(w)')
    BY <1>1, WorkerMoves
  <1>3. CASE Recover(w)
    <2>1. RowsOK' /\ RowsLead
      BY <1>0, <1>3, RecoverRows
    <2>2. worker' = worker
      BY <1>3 DEF Recover
    <2> QED
      BY <1>0, <2>1, <2>2, WorkersKept DEF Moved
  <1>4. CASE Claim(w)
    BY <1>0, <1>4, ClaimRows, ClaimWorker
  <1>5. CASE LoadContext(w)
    <2>1. RowsOK' /\ RowsLead
      BY <1>0, <1>5, RowsUntouched DEF LoadContext
    <2>2. ~At(w, "idle")
      BY <1>5 DEF LoadContext, At
    <2>3. Return(w) \/ Raise(w, FALSE) \/ Goto(w, "yield")
      BY <1>5 DEF LoadContext
    <2> QED
      BY <1>0, <2>1, <2>2, <2>3, ReturnMoves, RaiseContinues, GotoContinues DEF Pcs
  <1>6. CASE Yield(w)
    <2>1. ~At(w, "idle") /\ At(w, "yield")
      BY <1>6 DEF Yield, At
    <2>2. RowsOK' /\ RowsLead
      <3>1. CASE Running(Build(w)) /\ job' = [job EXCEPT ![Build(w)] = Yielded(Build(w))]
        BY <1>0, <1>6, <2>1, <3>1, YieldRows DEF Yield
      <3>2. CASE job' = job
        BY <1>0, <1>6, <3>2, RowsUntouched DEF Yield, rows
      <3> QED
        BY <1>6, <3>1, <3>2 DEF Yield
    <2>3. Return(w) \/ Goto(w, "verify")
      BY <1>6 DEF Yield
    <2> QED
      BY <1>0, <2>1, <2>2, <2>3, ReturnMoves, GotoContinues DEF Pcs
  <1>7. CASE Verify(w)
    BY <1>0, <1>7, RowsUntouched, VerifyWorker DEF Verify
  <1>8. CASE ReadPage(w)
    BY <1>0, <1>8, RowsUntouched, ReadPageWorker DEF ReadPage
  <1>9. CASE Embed(w)
    BY <1>0, <1>9, RowsUntouched, EmbedWorker DEF Embed
  <1>10. CASE Persist(w)
    BY <1>0, <1>10, PersistRows, PersistWorker
  <1>11. CASE UpdateProgress(w)
    <2>1. RowsOK' /\ RowsLead
      <3>1. CASE job' = [job EXCEPT ![Build(w)].stale = FALSE]
        BY <1>0, <1>11, <3>1, LeaseRows DEF UpdateProgress, At
      <3>2. CASE job' = job
        BY <1>0, <1>11, <3>2, RowsUntouched DEF UpdateProgress, rows
      <3> QED
        BY <1>11, <3>1, <3>2 DEF UpdateProgress
    <2> QED
      BY <1>11, <2>1, UpdateProgressWorker
  <1>12. CASE CheckCoverage(w)
    BY <1>0, <1>12, RowsUntouched, CheckCoverageWorker DEF CheckCoverage
  <1>13. CASE Complete(w)
    <2>1. ~At(w, "idle")
      BY <1>13 DEF Complete, At
    <2>2. RowsOK' /\ RowsLead
      BY <1>0, <1>13, <2>1, CompleteRows
    <2>3. Return(w) \/ Raise(w, FALSE)
      BY <1>13 DEF Complete
    <2> QED
      BY <1>0, <2>1, <2>2, <2>3, ReturnMoves, RaiseContinues
  <1>14. CASE Fail(w)
    <2>1. ~At(w, "idle") /\ worker[w].retryable \in BOOLEAN /\ Return(w)
      BY <1>0, <1>14 DEF Fail, At, WorkerState
    <2> QED
      BY <1>0, <1>14, <2>1, FailRows, ReturnMoves
  <1> QED
    BY <1>3, <1>4, <1>5, <1>6, <1>7, <1>8, <1>9, <1>10, <1>11, <1>12, <1>13, <1>14 DEF WorkerStep

LEMMA InitIndexInv == Init => IndexInv
  <1> SUFFICES ASSUME Init PROVE IndexInv
    OBVIOUS
  <1>1. \A p \in Rebuilds : index[p].status = "none" /\ job[p].status = "none"
                            /\ job[p].attempts = 0 /\ \A s \in Sources : vectors[p][s] = NoVector
    BY DEF Init
  <1>2. RowsTyped
    BY Constants DEF Init, RowsTyped, IndexRow, JobRow
  <1>3. RowsOK
    BY <1>1, <1>2, Constants DEF RowsOK, RowOK, LiveJob, OneIsCurrent, Building, Active
  <1>4. worker \in [Workers -> WorkerState] /\ \A w \in Workers : worker[w] = Idle
    BY IdleType DEF Init
  <1>5. \A w \in Workers : WorkerOK(w)
    BY <1>4 DEF WorkerOK, Idle, At, Build
  <1>6. TypeOK
    <2>1. sources \in [Sources -> Nat \cup {Gone}]
      BY DEF Init, NotYet, Gone
    <2>2. memoryEnabled \in BOOLEAN /\ interviewing \in BOOLEAN
      BY Zenon DEF Init
    <2>3. /\ binding \in Targets \cup {Unbound} /\ overran \subseteq Rebuilds
          /\ events \in 0..MaxEvents
      BY Constants DEF Init
    <2> QED
      BY <1>2, <1>4, <2>1, <2>2, <2>3 DEF TypeOK, RowsTyped, IndexRow, JobRow, WorkerState, Stages
  <1> QED
    BY <1>3, <1>5, <1>6 DEF IndexInv

LEMMA StepIndexInv == IndexInv /\ [Next]_vars => IndexInv'
  <1> SUFFICES ASSUME IndexInv, [Next]_vars PROVE IndexInv'
    OBVIOUS
  <1>0. RowsOK /\ worker \in [Workers -> WorkerState]
    BY DEF IndexInv, TypeOK, WorkerState, Stages
  <1>1. CASE UserStep
    BY <1>1, UserKeepsIndexInv
  <1>2. ASSUME NEW w \in Workers, WorkerStep(w) PROVE IndexInv'
    BY <1>2, WorkerKeepsIndexInv
  <1>3. ASSUME NEW w \in Workers, Crash(w) PROVE IndexInv'
    <2>1. Return(w) /\ HasEvent
          /\ UNCHANGED <<sources, memoryEnabled, binding, interviewing, overran>>
      BY <1>3 DEF Crash
    <2>2. RowsOK' /\ RowsLead
      BY <1>0, <1>3, RowsUntouched DEF Crash
    <2>3. events' \in 0..MaxEvents
      BY <2>1, HasEventTypes DEF IndexInv, TypeOK
    <2> QED
      BY <1>0, <2>1, <2>2, <2>3, ReturnMoves, WorkerMoves
  <1>4. ASSUME NEW p \in Rebuilds, LeaseExpires(p) \/ Overrun(p) PROVE IndexInv'
    <2>1. RowsOK' /\ RowsLead
      BY <1>0, <1>4, LeaseRows DEF LeaseExpires, Overrun
    <2>2. UNCHANGED <<worker, sources, memoryEnabled, binding, interviewing>>
          /\ overran' \subseteq Rebuilds /\ events' \in 0..MaxEvents
      BY <1>4, HasEventTypes DEF LeaseExpires, Overrun, environment, IndexInv, TypeOK
    <2>3. \A w \in Workers : WorkerOK(w)'
      BY <2>1, <2>2, WorkersKept
    <2>4. TypeOK'
      BY <2>1, <2>2 DEF IndexInv, TypeOK, RowsOK, RowsTyped, IndexRow, JobRow
    <2> QED
      BY <2>1, <2>3, <2>4 DEF IndexInv
  <1>5. CASE UNCHANGED vars
    <2>1. RowsOK' /\ RowsLead
      BY <1>0, <1>5, RowsUntouched DEF vars
    <2>2. UNCHANGED <<rows, worker, environment>>
      BY <1>5 DEF vars
    <2>3. \A w \in Workers : WorkerOK(w)'
      BY <2>1, <2>2, WorkersKept
    <2>4. TypeOK'
      BY <2>2 DEF IndexInv, TypeOK, rows, environment
    <2> QED
      BY <2>1, <2>3, <2>4 DEF IndexInv
  <1> QED
    BY <1>1, <1>2, <1>3, <1>4, <1>5 DEF Next

LEMMA IndexInvAlways == Spec => []IndexInv
  <1> QED
    BY InitIndexInv, StepIndexInv, PTL DEF Spec

LEMMA AtMostOne ==
    ASSUME NEW S, \A x, y \in S : x = y
    PROVE  Cardinality(S) <= 1
  <1>1. CASE S = {}
    BY <1>1, FS_EmptySet
  <1>2. CASE S # {}
    <2>1. PICK x : S = {x}
      BY <1>2
    <2> QED
      BY <2>1, FS_Singleton
  <1> QED
    BY <1>1, <1>2

\* The row of an index is true of its job and of its vectors, and never are there two
\* versions ACTIVE or two BUILDING, for any number of workers and rebuilds: a worker
\* that comes back to a build that was recovered, and whatever else it finds there,
\* writes what the rows still say.
THEOREM IndexRowsAreTrue == Spec => []IndexRowIsTrue
  <1>1. IndexInv => IndexRowIsTrue
    <2> SUFFICES ASSUME IndexInv PROVE IndexRowIsTrue
      OBVIOUS
    <2>1. TypeOK /\ \A p \in Rebuilds : RowOK(p)
      BY DEF IndexInv, RowsOK
    <2>2. Cardinality(Active) <= 1 /\ Cardinality(Building) <= 1
      BY AtMostOne DEF IndexInv, RowsOK, OneIsCurrent
    <2> QED
      BY <2>1, <2>2 DEF IndexRowIsTrue, RowOK
  <1> QED
    BY <1>1, IndexInvAlways, PTL

-----------------------------------------------------------------------------
(* The ACTIVE index *)

\* The ACTIVE index is only ever taken away by the promotion of its successor,
\* whoever asks for a rebuild, fails, recovers or rebinds in the meantime.
THEOREM ActiveIndexIsKept == Spec => KeepsAnActiveIndex
  <1> DEFINE Kept == Active # {} => Active' # {}
  <1>1. ASSUME IndexInv, Next PROVE Kept
    <2> SUFFICES ASSUME NEW a \in Rebuilds, index[a].status = "active" PROVE Active' # {}
      BY DEF Active
    <2>0. a \notin Building /\ a \in Active /\ ~Running(a) /\ job[a].status # "none"
          /\ a \notin Unused
      BY <1>1 DEF Building, Active, Unused, Running, IndexInv, RowsOK, RowOK
    <2>1. CASE index' = index
      BY <2>1 DEF Active
    <2>2. ASSUME index'[a] = index[a] PROVE Active' # {}
      BY <2>2 DEF Active
    <2>3. CASE UserStep
      <3>1. CASE Enqueue
        <4>1. a # Min(Unused)
          BY <2>0, <3>1, FirstUnused DEF Enqueue
        <4> QED
          BY <2>0, <2>2, <3>1, <4>1 DEF Enqueue, WithRebuild
      <3> QED
        BY <2>1, <2>3, <3>1 DEF UserStep, WriteSource, DeleteMemory, ToggleMemory, Rebind,
           StartInterview, EndInterview, rows
    <2>4. ASSUME NEW w \in Workers, WorkerStep(w) PROVE Active' # {}
      <3>1. CASE Recover(w)
        BY <2>0, <2>2, <3>1 DEF Recover, Lost
      <3>2. CASE Persist(w)
        <4>1. CASE index' = index
          BY <2>1, <4>1
        <4>2. CASE Build(w) \in Building /\ index' = [index EXCEPT ![Build(w)].dims = worker[w].dims]
          BY <2>0, <2>2, <4>2
        <4> QED
          BY <3>2, <4>1, <4>2 DEF Persist
      <3>3. CASE Complete(w)
        <4>1. CASE Build(w) \in Building /\ index' = Promoted(Build(w))
          <5>1. Build(w) \in Rebuilds
            BY <4>1 DEF Building
          <5>2. index'[Build(w)].status = "active"
            BY <1>1, <4>1, <5>1 DEF Promoted, IndexInv, RowsOK, RowsTyped, IndexRow
          <5> QED
            BY <5>1, <5>2 DEF Active
        <4> QED
          BY <2>1, <3>3, <4>1 DEF Complete, Promotable
      <3>4. CASE Fail(w)
        <4>1. CASE index' = index
          BY <2>1, <4>1
        <4>2. CASE Running(Build(w)) /\ index' = [index EXCEPT ![Build(w)] =
                        IndexAfterFailure(Build(w), worker[w].retryable)]
          BY <1>1, <2>0, <2>2, <4>2 DEF IndexInv, RowsOK, RowsTyped
        <4> QED
          BY <3>4, <4>1, <4>2 DEF Fail, MayFail
      <3>5. CASE index' = index
        BY <2>1, <3>5
      <3> QED
        BY <2>4, <3>1, <3>2, <3>3, <3>4, <3>5 DEF WorkerStep, Claim, LoadContext, Yield, Verify,
           ReadPage, Embed, UpdateProgress, CheckCoverage, rows
    <2>5. ASSUME NEW w \in Workers, Crash(w) PROVE Active' # {}
      BY <2>1, <2>5 DEF Crash, rows
    <2>6. ASSUME NEW p \in Rebuilds, LeaseExpires(p) \/ Overrun(p) PROVE Active' # {}
      BY <2>1, <2>6 DEF LeaseExpires, Overrun
    <2> QED
      BY <1>1, <2>3, <2>4, <2>5, <2>6 DEF Next
  <1>2. IndexInv /\ [Next]_vars => [Kept]_vars
    BY <1>1
  <1> QED
    BY <1>2, IndexInvAlways, PTL DEF Spec, KeepsAnActiveIndex

-----------------------------------------------------------------------------
(* Requests to the provider during an interview *)

\* A worker that has asked the provider while an interview was going on is on its
\* way to the next place where it yields, and asks nothing more before that.
LateOK(w) ==
    /\ ~interviewing => worker[w].late = 0
    /\ worker[w].late <= 1
    /\ worker[w].late = 1 => worker[w].at \in {"persist", "progress", "yield", "complete", "fail"}

RequestsInv == \A w \in Workers : LateOK(w)

LEMMA RaiseLate ==
    ASSUME worker \in [Workers -> WorkerState], NEW w \in Workers, NEW r \in BOOLEAN,
           LateOK(w), Raise(w, r), interviewing' = interviewing
    PROVE  LateOK(w)'
  <1>0. worker[w] \in WorkerState /\ worker'[w] = [worker[w] EXCEPT !.at = "fail", !.retryable = r]
    BY RaiseMoves
  <1>1. worker'[w].at = "fail" /\ worker'[w].late = worker[w].late
    BY <1>0 DEF WorkerState
  <1> QED
    BY <1>1 DEF LateOK

LEMMA ReturnLate ==
    ASSUME worker \in [Workers -> WorkerState], NEW w \in Workers, Return(w)
    PROVE  LateOK(w)'
  BY ReturnMoves DEF LateOK, Idle

LEMMA GotoLate ==
    ASSUME worker \in [Workers -> WorkerState], NEW w \in Workers, NEW pc \in Pcs,
           LateOK(w), Goto(w, pc), interviewing' = interviewing,
           worker[w].late = 0 \/ pc \in {"persist", "progress", "yield", "complete", "fail"}
    PROVE  LateOK(w)'
  <1>0. worker[w] \in WorkerState /\ worker'[w] = [worker[w] EXCEPT !.at = pc]
    BY GotoMoves
  <1>1. worker'[w].at = pc /\ worker'[w].late = worker[w].late
    BY <1>0 DEF WorkerState
  <1> QED
    BY <1>1 DEF LateOK

LEMMA WorkerLate ==
    ASSUME IndexInv, NEW w \in Workers, LateOK(w), WorkerStep(w)
    PROVE  LateOK(w)'
  <1>0. worker \in [Workers -> WorkerState] /\ worker[w] \in WorkerState /\ worker[w].late \in Nat
        /\ interviewing \in BOOLEAN
    BY WorkerTypes DEF WorkerState, IndexInv, TypeOK
  <1>1. interviewing' = interviewing
    BY DEF WorkerStep, Recover, Claim, LoadContext, Yield, Verify, ReadPage, Embed, Persist,
           UpdateProgress, CheckCoverage, Complete, Fail, environment
  <1>2. worker[w].late \in {0, 1}
    BY <1>0 DEF LateOK
  <1>3. worker[w].late = 1 =>
          interviewing /\ worker[w].at \in {"persist", "progress", "yield", "complete", "fail"}
    BY <1>0 DEF LateOK
  <1>4. ASSUME worker[w].late = 0, worker'[w].late = 0 PROVE LateOK(w)'
    BY <1>4 DEF LateOK
  <1>5. CASE Recover(w)
    BY <1>1, <1>5 DEF Recover, LateOK
  <1>6. CASE Claim(w)
    <2>1. worker[w].late = 0
      BY <1>2, <1>3, <1>6 DEF Claim, At
    <2>2. worker'[w].late = worker[w].late
      BY <1>0, <1>6 DEF Claim, WorkerState
    <2> QED
      BY <1>4, <2>1, <2>2
  <1>7. CASE LoadContext(w)
    BY <1>0, <1>1, <1>7, ReturnLate, GotoLate, RaiseLate DEF LoadContext, Pcs
  <1>8. CASE Yield(w)
    <2>1. CASE Goto(w, "verify") /\ ~interviewing
      <3>1. worker[w].late = 0
        BY <1>2, <1>3, <2>1
      <3> QED
        BY <1>0, <1>1, <2>1, <3>1, GotoLate DEF Pcs
    <2> QED
      BY <1>0, <1>8, <2>1, ReturnLate DEF Yield, MustYield
  <1>9. CASE Verify(w)
    <2>1. worker[w].late = 0
      BY <1>2, <1>3, <1>9 DEF Verify, At
    <2>2. CASE worker' = [worker EXCEPT ![w].at = "progress", ![w].provider = binding,
                                        ![w].dims = index[Build(w)].dims]
      <3>1. worker'[w].late = worker[w].late
        BY <1>0, <2>2 DEF WorkerState
      <3> QED
        BY <1>4, <2>1, <3>1
    <2>3. CASE Goto(w, "read") \/ Goto(w, "embed")
      BY <1>0, <1>1, <2>1, <2>3, GotoLate DEF Pcs
    <2> QED
      BY <1>0, <1>1, <1>9, <2>2, <2>3, RaiseLate DEF Verify
  <1>10. CASE ReadPage(w)
    <2>1. worker[w].late = 0
      BY <1>2, <1>3, <1>10 DEF ReadPage, At
    <2>2. worker'[w].late = worker[w].late
      BY <1>0, <1>10 DEF ReadPage, Goto, WorkerState
    <2> QED
      BY <1>4, <2>1, <2>2
  <1>11. CASE Embed(w)
    <2>1. worker[w].late = 0
      BY <1>2, <1>3, <1>11 DEF Embed, At
    <2>2. ASSUME NEW d \in Dimensions,
               worker' = [worker EXCEPT ![w].at = "persist", ![w].dims = d,
                      ![w].late = IF interviewing THEN worker[w].late + 1 ELSE worker[w].late]
          PROVE  LateOK(w)'
      <3>1. worker'[w].at = "persist" /\ worker'[w].late = IF interviewing THEN 1 ELSE 0
        BY <1>0, <2>1, <2>2 DEF WorkerState
      <3> QED
        BY <1>1, <3>1 DEF LateOK
    <2> QED
      BY <1>0, <1>1, <1>11, <2>2, RaiseLate DEF Embed
  <1>12. CASE Persist(w)
    <2>1. CASE worker' = [worker EXCEPT ![w].batch = NoBatch,
                    ![w].at = IF worker[w].stage = "probe" THEN "complete" ELSE "progress"]
      <3>1. worker'[w].at \in {"complete", "progress"} /\ worker'[w].late = worker[w].late
        BY <1>0, <2>1 DEF WorkerState
      <3> QED
        BY <1>1, <3>1 DEF LateOK
    <2> QED
      BY <1>0, <1>1, <1>12, <2>1, RaiseLate DEF Persist
  <1>13. CASE UpdateProgress(w)
    <2>1. worker'[w].at = "yield" /\ worker'[w].late = worker[w].late
      BY <1>0, <1>13 DEF UpdateProgress, WorkerState
    <2> QED
      BY <1>1, <2>1 DEF LateOK
  <1>14. CASE CheckCoverage(w)
    <2>1. worker[w].late = 0
      BY <1>2, <1>3, <1>14 DEF CheckCoverage, At
    <2>2. worker'[w].late = worker[w].late
      BY <1>0, <1>14 DEF CheckCoverage, Goto, Raise, WorkerState
    <2> QED
      BY <1>4, <2>1, <2>2
  <1>15. CASE Complete(w)
    BY <1>0, <1>1, <1>15, ReturnLate, RaiseLate DEF Complete
  <1>16. CASE Fail(w)
    BY <1>0, <1>16, ReturnLate DEF Fail
  <1> QED
    BY <1>5, <1>6, <1>7, <1>8, <1>9, <1>10, <1>11, <1>12, <1>13, <1>14, <1>15, <1>16 DEF WorkerStep

\* Who moves in a step of a worker, or in none.
LEMMA WorkerStepMoves ==
    ASSUME IndexInv, NEW w \in Workers, WorkerStep(w) \/ Crash(w), NEW v \in Workers, v # w
    PROVE  worker'[v] = worker[v]
  <1>1. worker \in [Workers -> WorkerState]
    BY DEF IndexInv, TypeOK, WorkerState, Stages
  <1> QED
    BY <1>1 DEF WorkerStep, Crash, Recover, Claim, LoadContext, Yield, Verify, ReadPage, Embed,
       Persist, UpdateProgress, CheckCoverage, Complete, Fail, Return, Goto, Raise

LEMMA StepRequestsInv == IndexInv /\ RequestsInv /\ [Next]_vars => RequestsInv'
  <1> SUFFICES ASSUME IndexInv, RequestsInv, [Next]_vars, NEW v \in Workers PROVE LateOK(v)'
    BY DEF RequestsInv
  <1>0. worker \in [Workers -> WorkerState] /\ worker[v] \in WorkerState /\ LateOK(v)
        /\ interviewing \in BOOLEAN
    BY DEF IndexInv, TypeOK, WorkerState, Stages, RequestsInv
  <1>1. ASSUME interviewing' = interviewing, worker'[v].at = worker[v].at,
               worker'[v].late = worker[v].late
        PROVE  LateOK(v)'
    BY <1>0, <1>1 DEF LateOK
  <1>2. ASSUME NEW S \in SUBSET Sources, Notice(S), interviewing' = interviewing PROVE LateOK(v)'
    <2>1. worker'[v].at = worker[v].at /\ worker'[v].late = worker[v].late
      BY <1>0, <1>2 DEF Notice, WorkerState
    <2> QED
      BY <1>1, <1>2, <2>1
  <1>3. CASE UserStep
    <2>1. ASSUME NEW s \in Sources, WriteSource(s) PROVE LateOK(v)'
      BY <1>2, <2>1 DEF WriteSource
    <2>2. CASE ToggleMemory
      BY <1>2, <2>2 DEF ToggleMemory, Sources
    <2>3. CASE StartInterview
      BY <1>0, <2>3 DEF StartInterview, LateOK
    <2>4. CASE EndInterview
      <3>1. worker'[v].late = 0
        BY <1>0, <2>4 DEF EndInterview, WorkerState
      <3> QED
        BY <3>1 DEF LateOK
    <2>5. CASE UNCHANGED <<worker, interviewing>>
      BY <1>1, <2>5
    <2> QED
      BY <1>3, <2>1, <2>2, <2>3, <2>4, <2>5 DEF UserStep, DeleteMemory, Rebind, Enqueue
  <1>4. ASSUME NEW w \in Workers, WorkerStep(w) PROVE LateOK(v)'
    <2>1. interviewing' = interviewing
      BY <1>4 DEF WorkerStep, Recover, Claim, LoadContext, Yield, Verify, ReadPage, Embed, Persist,
           UpdateProgress, CheckCoverage, Complete, Fail, environment
    <2>2. CASE v = w
      BY <1>0, <1>4, <2>2, WorkerLate
    <2>3. CASE v # w
      BY <1>1, <1>4, <2>1, <2>3, WorkerStepMoves
    <2> QED
      BY <2>2, <2>3
  <1>5. ASSUME NEW w \in Workers, Crash(w) PROVE LateOK(v)'
    <2>1. Return(w) /\ interviewing' = interviewing
      BY <1>5 DEF Crash
    <2> QED
      BY <1>0, <1>1, <1>5, <2>1, WorkerStepMoves, ReturnLate
  <1>6. ASSUME NEW p \in Rebuilds, LeaseExpires(p) \/ Overrun(p) PROVE LateOK(v)'
    BY <1>1, <1>6 DEF LeaseExpires, Overrun, environment
  <1>7. CASE UNCHANGED vars
    BY <1>1, <1>7 DEF vars, environment
  <1> QED
    BY <1>3, <1>4, <1>5, <1>6, <1>7 DEF Next

\* An interview waits for one request of each worker to the embedding provider at
\* most: where a build has asked once, it yields before it asks again.
THEOREM OneRequestEach == Spec => []OneRequestPerInterview
  <1>1. Init => RequestsInv
    BY DEF Init, RequestsInv, LateOK, Idle
  <1>2. RequestsInv => OneRequestPerInterview
    BY DEF RequestsInv, LateOK, OneRequestPerInterview
  <1> QED
    BY <1>1, <1>2, StepRequestsInv, IndexInvAlways, PTL DEF Spec

-----------------------------------------------------------------------------
(* Coverage at the promotion *)

\* Between pages a worker holds no batch, and where it only asks for dimensions it
\* writes nothing.
BatchOK(w) ==
    /\ worker[w].stage = "probe" =>
         worker[w].at \in {"yield", "verify", "embed", "persist", "complete", "fail"}
    /\ worker[w].at \notin {"embed", "persist", "fail"} \/ worker[w].stage = "probe" =>
         worker[w].batch = NoBatch

\* Unless a build has outlived a lease, one worker at most works on it, and none
\* while its job waits or has been lost.
HoldersOK(p) ==
    p \notin overran =>
        /\ \A v, w \in Holders(p) : v = w
        /\ ~Running(p) \/ job[p].stale => Holders(p) = {}

\* What a worker that has checked the coverage has not seen has changed since.
CheckedOK(w) ==
    HasChecked(w) /\ Build(w) \notin overran => Uncovered(Build(w)) \subseteq worker[w].changed

CoverageInv ==
    /\ \A w \in Workers : BatchOK(w) /\ CheckedOK(w)
    /\ \A p \in Rebuilds : HoldersOK(p)

LEMMA WorkerBatch ==
    ASSUME IndexInv, NEW w \in Workers, BatchOK(w), WorkerStep(w)
    PROVE  BatchOK(w)'
  <1>0. worker \in [Workers -> WorkerState] /\ worker[w] \in WorkerState /\ WorkerOK(w)
    BY WorkerTypes
  <1>1. ASSUME Return(w) PROVE BatchOK(w)'
    BY <1>0, <1>1, ReturnMoves DEF BatchOK, Idle, NoBatch
  <1>2. ASSUME NEW r \in BOOLEAN, Raise(w, r) PROVE BatchOK(w)'
    <2>1. worker'[w].at = "fail" /\ worker'[w].stage = worker[w].stage
          /\ worker'[w].batch = worker[w].batch
      BY <1>0, <1>2 DEF Raise, WorkerState
    <2> QED
      BY <2>1 DEF BatchOK, NoBatch
  <1>3. ASSUME NEW pc \in Pcs, Goto(w, pc), worker[w].batch = NoBatch,
               worker[w].stage = "probe" => pc \in {"yield", "verify", "embed", "complete"}
        PROVE BatchOK(w)'
    <2>1. worker'[w].at = pc /\ worker'[w].stage = worker[w].stage
          /\ worker'[w].batch = worker[w].batch
      BY <1>0, <1>3 DEF Goto, WorkerState
    <2> QED
      BY <1>3, <2>1 DEF BatchOK, NoBatch
  <1>4. CASE Recover(w)
    BY <1>4 DEF Recover, BatchOK, NoBatch
  <1>5. CASE Claim(w)
    <2>1. worker'[w].at = "load" /\ worker'[w].stage = "start" /\ worker[w].stage = "start"
          /\ worker'[w].batch = worker[w].batch
      BY <1>0, <1>5 DEF Claim, WorkerState, WorkerOK
    <2> QED
      BY <1>5, <2>1 DEF BatchOK, NoBatch, Claim, At
  <1>6. CASE LoadContext(w)
    BY <1>0, <1>1, <1>2, <1>3, <1>6 DEF LoadContext, Pcs, BatchOK, At
  <1>7. CASE Yield(w)
    BY <1>0, <1>1, <1>3, <1>7 DEF Yield, Pcs, BatchOK, At
  <1>8. CASE Verify(w)
    <2>1. worker[w].batch = NoBatch
      BY <1>8 DEF Verify, At, BatchOK
    <2>2. CASE /\ worker[w].stage = "start"
               /\ worker' = [worker EXCEPT ![w].at = "progress", ![w].provider = binding,
                                           ![w].dims = index[Build(w)].dims]
      <3>1. worker'[w].at = "progress" /\ worker'[w].stage = "start"
            /\ worker'[w].batch = worker[w].batch
        BY <1>0, <2>2 DEF WorkerState
      <3> QED
        BY <2>1, <3>1 DEF BatchOK, NoBatch
    <2> QED
      BY <1>2, <1>3, <1>8, <2>1, <2>2 DEF Verify, Pcs
  <1>9. CASE ReadPage(w)
    <2>1. worker[w].batch = NoBatch /\ worker[w].stage # "probe"
      BY <1>9 DEF ReadPage, At, BatchOK
    <2>2. CASE worker' = [worker EXCEPT ![w].at = "yield", ![w].kind = "plan_question",
                                        ![w].cursor = 0]
      <3>1. worker'[w].at = "yield" /\ worker'[w].stage = worker[w].stage
            /\ worker'[w].batch = worker[w].batch
        BY <1>0, <2>2 DEF WorkerState
      <3> QED
        BY <2>1, <3>1 DEF BatchOK, NoBatch
    <2>3. ASSUME NEW pending, NEW c, worker' = [worker EXCEPT
                    ![w].at = IF pending = NoBatch THEN "progress" ELSE "embed",
                    ![w].cursor = c, ![w].batch = pending]
          PROVE  BatchOK(w)'
      <3>1. worker'[w].at = (IF pending = NoBatch THEN "progress" ELSE "embed")
            /\ worker'[w].stage = worker[w].stage /\ worker'[w].batch = pending
        BY <1>0, <2>3 DEF WorkerState
      <3> QED
        BY <2>1, <3>1 DEF BatchOK, NoBatch
    <2> QED
      BY <1>3, <1>9, <2>1, <2>2, <2>3 DEF ReadPage, Pcs
  <1>10. CASE Embed(w)
    <2>1. ASSUME NEW d \in Dimensions,
               worker' = [worker EXCEPT ![w].at = "persist", ![w].dims = d,
                      ![w].late = IF interviewing THEN worker[w].late + 1 ELSE worker[w].late]
          PROVE  BatchOK(w)'
      <3>1. worker'[w].at = "persist" /\ worker'[w].stage = worker[w].stage
            /\ worker'[w].batch = worker[w].batch
        BY <1>0, <2>1 DEF WorkerState
      <3> QED
        BY <3>1 DEF BatchOK, NoBatch
    <2> QED
      BY <1>2, <1>10, <2>1 DEF Embed
  <1>11. CASE Persist(w)
    <2>1. CASE worker' = [worker EXCEPT ![w].batch = NoBatch,
                    ![w].at = IF worker[w].stage = "probe" THEN "complete" ELSE "progress"]
      <3>1. worker'[w].at = (IF worker[w].stage = "probe" THEN "complete" ELSE "progress")
            /\ worker'[w].stage = worker[w].stage /\ worker'[w].batch = NoBatch
        BY <1>0, <2>1 DEF WorkerState
      <3> QED
        BY <3>1 DEF BatchOK, NoBatch
    <2> QED
      BY <1>2, <1>11, <2>1 DEF Persist
  <1>12. CASE UpdateProgress(w)
    <2>1. worker'[w].at = "yield" /\ worker'[w].stage = "page"
          /\ worker'[w].batch = worker[w].batch /\ worker[w].at = "progress"
      BY <1>0, <1>12 DEF UpdateProgress, WorkerState, At
    <2> QED
      BY <2>1 DEF BatchOK, NoBatch
  <1>13. CASE CheckCoverage(w)
    <2>1. worker[w].batch = NoBatch /\ worker[w].stage # "probe"
      BY <1>13 DEF CheckCoverage, At, BatchOK
    <2>2. CASE worker' = [worker EXCEPT ![w].at = "progress", ![w].kind = "memory",
                                        ![w].cursor = 0, ![w].pass = worker[w].pass + 1]
      <3>1. worker'[w].at = "progress" /\ worker'[w].stage = worker[w].stage
            /\ worker'[w].batch = worker[w].batch
        BY <1>0, <2>2 DEF WorkerState
      <3> QED
        BY <2>1, <3>1 DEF BatchOK, NoBatch
    <2>3. CASE worker' = [worker EXCEPT ![w].at = "yield", ![w].stage = "probe"]
      <3>1. worker'[w].at = "yield" /\ worker'[w].stage = "probe"
            /\ worker'[w].batch = worker[w].batch
        BY <1>0, <2>3 DEF WorkerState
      <3> QED
        BY <2>1, <3>1 DEF BatchOK, NoBatch
    <2> QED
      BY <1>2, <1>3, <1>13, <2>1, <2>2, <2>3 DEF CheckCoverage, Pcs
  <1>14. CASE Complete(w)
    BY <1>1, <1>2, <1>14 DEF Complete
  <1>15. CASE Fail(w)
    BY <1>1, <1>15 DEF Fail
  <1> QED
    BY <1>4, <1>5, <1>6, <1>7, <1>8, <1>9, <1>10, <1>11, <1>12, <1>13, <1>14, <1>15 DEF WorkerStep

\* A worker that goes on keeps its build, and the job's status with it.
LEMMA WorkerHolds ==
    ASSUME IndexInv, NEW w \in Workers, WorkerStep(w), ~Claim(w), ~Recover(w)
    PROVE  /\ ~At(w, "idle")
           /\ \/ Return(w)
              \/ /\ Build(w)' = Build(w)
                 /\ job' = job \/ job' = [job EXCEPT ![Build(w)].stale = FALSE]
           /\ \A q \in Rebuilds : q # Build(w) => job'[q] = job[q]
  <1>0. worker \in [Workers -> WorkerState] /\ worker[w] \in WorkerState
        /\ job \in [Rebuilds -> JobRow]
    BY WorkerTypes DEF IndexInv, RowsOK, RowsTyped
  <1>1. ASSUME NEW pc, Goto(w, pc) PROVE Build(w)' = Build(w)
    BY <1>0, <1>1 DEF Goto, Build, WorkerState
  <1>2. ASSUME NEW r, Raise(w, r) PROVE Build(w)' = Build(w)
    BY <1>0, <1>2 DEF Raise, Build, WorkerState
  <1>3. CASE LoadContext(w)
    BY <1>1, <1>2, <1>3 DEF LoadContext, rows, At
  <1>4. CASE Yield(w)
    BY <1>0, <1>1, <1>4 DEF Yield, At
  <1>5. CASE Verify(w)
    <2>1. UNCHANGED job /\ ~At(w, "idle")
      BY <1>5 DEF Verify, rows, At
    <2>2. Build(w)' = Build(w)
      BY <1>0, <1>5 DEF Verify, Goto, Raise, Build, WorkerState
    <2> QED
      BY <2>1, <2>2
  <1>6. CASE ReadPage(w)
    <2>1. UNCHANGED job /\ ~At(w, "idle")
      BY <1>6 DEF ReadPage, rows, At
    <2> SUFFICES Build(w)' = Build(w)
      BY <2>1
    <2>2. CASE worker' = [worker EXCEPT ![w].at = "yield", ![w].kind = "plan_question",
                                        ![w].cursor = 0]
      BY <1>0, <2>2 DEF Build, WorkerState
    <2> DEFINE page == Page(worker[w].kind, worker[w].cursor)
               pending == Pending(Build(w), page)
               pc == IF pending = NoBatch THEN "progress" ELSE "embed"
               c == Max(page)
    <2>3. CASE worker' = [worker EXCEPT ![w].at = pc, ![w].cursor = c, ![w].batch = pending]
      <3> HIDE DEF pc, c, pending
      <3>1. worker'[w].job = worker[w].job
        BY <1>0, <2>3 DEF WorkerState
      <3> QED
        BY <3>1 DEF Build
    <2>4. CASE Goto(w, "cover")
      BY <1>1, <2>4
    <2> QED
      BY <1>6, <2>2, <2>3, <2>4 DEF ReadPage
  <1>7. CASE Embed(w)
    <2>1. UNCHANGED job /\ ~At(w, "idle")
      BY <1>7 DEF Embed, rows, At
    <2> SUFFICES Build(w)' = Build(w)
      BY <2>1
    <2>2. ASSUME NEW d \in Dimensions,
               worker' = [worker EXCEPT ![w].at = "persist", ![w].dims = d,
                      ![w].late = IF interviewing THEN worker[w].late + 1 ELSE worker[w].late]
          PROVE  Build(w)' = Build(w)
      BY <1>0, <2>2 DEF Build, WorkerState
    <2> QED
      BY <1>2, <1>7, <2>2 DEF Embed
  <1>8. CASE Persist(w)
    <2>1. UNCHANGED job /\ ~At(w, "idle")
      BY <1>8 DEF Persist, At
    <2>2. Build(w)' = Build(w)
      BY <1>0, <1>8 DEF Persist, Raise, Build, WorkerState
    <2> QED
      BY <2>1, <2>2
  <1>9. CASE UpdateProgress(w)
    <2>1. Build(w)' = Build(w) /\ ~At(w, "idle")
      BY <1>0, <1>9 DEF UpdateProgress, Build, At, WorkerState
    <2> QED
      BY <1>0, <1>9, <2>1 DEF UpdateProgress
  <1>10. CASE CheckCoverage(w)
    <2>1. UNCHANGED job /\ ~At(w, "idle")
      BY <1>10 DEF CheckCoverage, rows, At
    <2>2. Build(w)' = Build(w)
      BY <1>0, <1>10 DEF CheckCoverage, Goto, Raise, Build, WorkerState
    <2> QED
      BY <2>1, <2>2
  <1>11. CASE Complete(w)
    BY <1>0, <1>2, <1>11 DEF Complete, At
  <1>12. CASE Fail(w)
    BY <1>0, <1>12 DEF Fail, At
  <1> QED
    BY <1>3, <1>4, <1>5, <1>6, <1>7, <1>8, <1>9, <1>10, <1>11, <1>12 DEF WorkerStep

LEMMA WorkerHolders ==
    ASSUME IndexInv, CoverageInv, NEW w \in Workers, WorkerStep(w), NEW p \in Rebuilds
    PROVE  HoldersOK(p)'
  <1> SUFFICES ASSUME p \notin overran
               PROVE  /\ \A u, v \in Holders(p)' : u = v
                      /\ ~Running(p)' \/ job'[p].stale => Holders(p)' = {}
    <2>1. overran' = overran
      BY DEF WorkerStep, Recover, Claim, LoadContext, Yield, Verify, ReadPage, Embed, Persist,
           UpdateProgress, CheckCoverage, Complete, Fail, environment
    <2> QED
      BY <2>1 DEF HoldersOK
  <1>0. worker \in [Workers -> WorkerState] /\ job \in [Rebuilds -> JobRow] /\ WorkerOK(w)
    BY WorkerTypes DEF IndexInv, RowsOK, RowsTyped
  <1>1. /\ \A u, v \in Holders(p) : u = v
        /\ ~Running(p) \/ job[p].stale => Holders(p) = {}
    BY DEF CoverageInv, HoldersOK
  <1>2. \A v \in Workers : v # w => (v \in Holders(p)' <=> v \in Holders(p))
    BY WorkerStepMoves DEF Holders, At, Build
  <1>3. CASE Recover(w)
    <2>1. Holders(p)' = Holders(p)
      BY <1>3 DEF Recover, Holders, At, Build
    <2>2. job'[p] = job[p] \/ (Running(p) /\ job[p].stale)
      BY <1>3 DEF Recover, Lost
    <2> QED
      BY <1>1, <2>1, <2>2 DEF Running
  <1>4. CASE Claim(w)
    <2>1. PICK q \in Rebuilds :
            /\ job[q].status = "queued"
            /\ job' = [job EXCEPT ![q] = [status |-> "running", attempts |-> job[q].attempts + 1,
                                          stale |-> FALSE]]
            /\ worker' = [worker EXCEPT ![w].at = "load", ![w].job = q]
      BY <1>4 DEF Claim
    <2>2. w \notin Holders(p) /\ (w \in Holders(p)' <=> p = q)
      BY <1>0, <1>4, <2>1 DEF Claim, Holders, At, Build, WorkerState
    <2>3. CASE p # q
      <3>1. Holders(p)' = Holders(p)
        BY <1>2, <2>2, <2>3 DEF Holders
      <3>2. job'[p] = job[p]
        BY <1>0, <2>1, <2>3
      <3> QED
        BY <1>1, <3>1, <3>2 DEF Running
    <2>4. CASE p = q
      <3>1. Holders(p) = {}
        BY <1>1, <2>1, <2>4 DEF Running
      <3>2. Holders(p)' \subseteq {w}
        BY <1>2, <3>1 DEF Holders
      <3>3. job'[p] = [status |-> "running", attempts |-> job[q].attempts + 1, stale |-> FALSE]
        BY <1>0, <2>1, <2>4
      <3>4. Running(p)' /\ ~job'[p].stale
        BY <3>3 DEF Running
      <3> QED
        BY <3>2, <3>4
    <2> QED
      BY <2>3, <2>4
  <1>5. CASE ~Claim(w) /\ ~Recover(w)
    <2>1. w \in Holders(p) <=> Build(w) = p
      BY <1>5, WorkerHolds DEF Holders
    <2>2. CASE Build(w) # p
      <3>1. job'[p] = job[p]
        BY <1>5, <2>2, WorkerHolds
      <3>2. w \notin Holders(p)'
        <4>1. CASE Return(w)
          BY <1>0, <4>1, ReturnMoves DEF Holders, At, Idle
        <4>2. CASE Build(w)' = Build(w)
          BY <2>2, <4>2 DEF Holders
        <4> QED
          BY <1>5, <4>1, <4>2, WorkerHolds
      <3>3. Holders(p)' = Holders(p)
        BY <1>2, <2>1, <2>2, <3>2 DEF Holders
      <3> QED
        BY <1>1, <3>1, <3>3 DEF Running
    <2>3. CASE Build(w) = p
      <3>1. Holders(p) = {w}
        BY <1>1, <2>1, <2>3
      <3>2. Holders(p)' \subseteq {w}
        BY <1>2, <3>1 DEF Holders
      <3>3. CASE Return(w)
        <4>1. w \notin Holders(p)'
          BY <1>0, <3>3, ReturnMoves DEF Holders, At, Idle
        <4> QED
          BY <3>2, <4>1
      <3>4. CASE job' = job \/ job' = [job EXCEPT ![Build(w)].stale = FALSE]
        <4>1. Running(p) /\ ~job[p].stale
          BY <1>1, <3>1
        <4>2. job'[p].status = job[p].status /\ job'[p].stale \in {job[p].stale, FALSE}
          BY <1>0, <2>3, <3>4 DEF JobRow
        <4> QED
          BY <3>2, <4>1, <4>2 DEF Running
      <3> QED
        BY <1>5, <3>3, <3>4, WorkerHolds
    <2> QED
      BY <2>2, <2>3
  <1> QED
    BY <1>3, <1>4, <1>5

LEMMA UncoveredKept ==
    ASSUME NEW p, vectors'[p] = vectors[p], UNCHANGED <<sources, memoryEnabled>>
    PROVE  Uncovered(p)' = Uncovered(p)
  BY DEF Uncovered, Retrievable

\* A batch that is empty is written over nothing.
LEMMA EmptyBatch ==
    ASSUME IndexInv, NEW w \in Workers, Build(w) \in Rebuilds, worker[w].batch = NoBatch
    PROVE  Upserted(w) = vectors[Build(w)]
  <1>1. Documents(w) = {}
    BY DEF Documents, NoBatch
  <1>2. vectors[Build(w)] \in [Sources -> Vector \cup {NoVector}]
    BY DEF IndexInv, RowsOK, RowsTyped
  <1>3. Upserted(w) = [s \in Sources |-> vectors[Build(w)][s]]
    BY <1>1 DEF Upserted
  <1> QED
    BY <1>2, <1>3

LEMMA WorkerVectors ==
    ASSUME IndexInv, CoverageInv, NEW w \in Workers, WorkerStep(w), NEW v \in Workers,
           HasChecked(v), Build(v) \notin overran
    PROVE  vectors'[Build(v)] = vectors[Build(v)]
  <1>0. vectors' = vectors \/ Persist(w)
    BY DEF WorkerStep, Recover, Claim, LoadContext, Yield, Verify, ReadPage, Embed,
           UpdateProgress, CheckCoverage, Complete, Fail, rows
  <1>1. CASE vectors' = vectors
    BY <1>1
  <1>2. CASE Persist(w) /\ vectors' = [vectors EXCEPT ![Build(w)] = Upserted(w)]
    <2>1. ~At(w, "idle") /\ Build(w) \in Rebuilds /\ BatchOK(w)
      BY <1>2, WorkerTypes DEF Persist, At, CoverageInv
    <2>2. ~At(v, "idle") /\ Build(v) \in Rebuilds
      BY WorkerTypes DEF HasChecked, WorkerOK, At
    <2>3. vectors \in [Rebuilds -> [Sources -> Vector \cup {NoVector}]]
      BY DEF IndexInv, RowsOK, RowsTyped
    <2>4. CASE v # w
      <3>1. Build(v) # Build(w)
        BY <2>1, <2>2, <2>4 DEF CoverageInv, HoldersOK, Holders
      <3> QED
        BY <1>2, <3>1
    <2>5. CASE v = w
      <3>1. worker[w].stage = "probe"
        BY <1>2, <2>5 DEF Persist, HasChecked, At
      <3>2. worker[w].batch = NoBatch
        BY <2>1, <3>1 DEF BatchOK
      <3>3. Upserted(w) = vectors[Build(w)]
        BY <2>1, <3>2, EmptyBatch
      <3> QED
        BY <1>2, <2>1, <2>3, <2>5, <3>3
    <2> QED
      BY <2>4, <2>5
  <1> QED
    BY <1>0, <1>1, <1>2 DEF Persist

\* As long as a worker goes on with what it has checked.
LEMMA CheckedKept ==
    ASSUME IndexInv, CoverageInv, NEW w \in Workers, WorkerStep(w), NEW v \in Workers,
           worker'[v].stage = worker[v].stage, worker'[v].changed = worker[v].changed,
           Build(v)' = Build(v), worker'[v].at = "complete" => HasChecked(v)
    PROVE  CheckedOK(v)'
  <1> SUFFICES ASSUME HasChecked(v)', Build(v) \notin overran
               PROVE  Uncovered(Build(v))' \subseteq worker[v].changed
    <2>1. overran' = overran
      BY DEF WorkerStep, Recover, Claim, LoadContext, Yield, Verify, ReadPage, Embed, Persist,
           UpdateProgress, CheckCoverage, Complete, Fail, environment
    <2> QED
      BY <2>1 DEF CheckedOK
  <1>1. HasChecked(v)
    BY DEF HasChecked, At
  <1>2. vectors'[Build(v)] = vectors[Build(v)]
    BY <1>1, WorkerVectors
  <1>3. UNCHANGED <<sources, memoryEnabled>>
    BY DEF WorkerStep, Recover, Claim, LoadContext, Yield, Verify, ReadPage, Embed, Persist,
           UpdateProgress, CheckCoverage, Complete, Fail, environment
  <1>4. PICK p : p = Build(v)
    OBVIOUS
  <1>5. Build(v)' = p
    BY <1>4
  <1>6. Uncovered(p)' = Uncovered(p)
    BY <1>2, <1>3, <1>4, UncoveredKept
  <1>7. Uncovered(Build(v))' = Uncovered(p)'
    BY <1>5
  <1> QED
    BY <1>1, <1>4, <1>6, <1>7 DEF CoverageInv, CheckedOK

LEMMA WorkerChecked ==
    ASSUME IndexInv, CoverageInv, NEW w \in Workers, WorkerStep(w), NEW v \in Workers
    PROVE  CheckedOK(v)'
  <1>0. worker \in [Workers -> WorkerState] /\ worker[w] \in WorkerState /\ WorkerOK(w) /\ BatchOK(w)
    BY WorkerTypes DEF CoverageInv
  <1>1. CASE v # w
    <2>1. worker'[v] = worker[v]
      BY <1>1, WorkerStepMoves
    <2> QED
      BY <2>1, CheckedKept DEF HasChecked, At, Build
  <1>2. CASE v = w
    <2>1. ASSUME Return(w) PROVE CheckedOK(w)'
      BY <1>0, <2>1, ReturnMoves DEF CheckedOK, HasChecked, At, Idle
    <2>2. ASSUME NEW r, Raise(w, r) PROVE CheckedOK(w)'
      <3>1. worker'[w].stage = worker[w].stage /\ worker'[w].changed = worker[w].changed
            /\ worker'[w].job = worker[w].job /\ worker'[w].at = "fail"
        BY <1>0, <2>2 DEF Raise, WorkerState
      <3> QED
        BY <3>1, CheckedKept DEF Build
    <2>3. ASSUME NEW pc, Goto(w, pc), pc # "complete" PROVE CheckedOK(w)'
      <3>1. worker'[w].stage = worker[w].stage /\ worker'[w].changed = worker[w].changed
            /\ worker'[w].job = worker[w].job /\ worker'[w].at = pc
        BY <1>0, <2>3 DEF Goto, WorkerState
      <3> QED
        BY <2>3, <3>1, CheckedKept DEF Build
    <2>4. ASSUME worker'[w].at # "complete", worker'[w].stage # "probe" PROVE CheckedOK(w)'
      BY <2>4 DEF CheckedOK, HasChecked, At
    <2>5. CASE Recover(w)
      <3>1. worker' = worker
        BY <2>5 DEF Recover
      <3> QED
        BY <1>2, <3>1, CheckedKept DEF HasChecked, At, Build
    <2>6. CASE Claim(w)
      <3>1. worker'[w].at = "load" /\ worker'[w].stage = worker[w].stage /\ worker[w].stage = "start"
        BY <1>0, <2>6 DEF Claim, WorkerState, WorkerOK
      <3> QED
        BY <1>2, <2>4, <3>1
    <2>7. CASE LoadContext(w)
      BY <1>2, <2>1, <2>2, <2>3, <2>7 DEF LoadContext
    <2>8. CASE Yield(w)
      BY <1>2, <2>1, <2>3, <2>8 DEF Yield
    <2>9. CASE Verify(w)
      <3>1. CASE /\ worker[w].stage = "start"
                 /\ worker' = [worker EXCEPT ![w].at = "progress", ![w].provider = binding,
                                             ![w].dims = index[Build(w)].dims]
        <4>1. worker'[w].at = "progress" /\ worker'[w].stage = "start"
          BY <1>0, <3>1 DEF WorkerState
        <4> QED
          BY <1>2, <2>4, <4>1
      <3> QED
        BY <1>2, <2>2, <2>3, <2>9, <3>1 DEF Verify
    <2>10. CASE ReadPage(w)
      <3>1. worker[w].stage # "probe"
        BY <1>0, <2>10 DEF ReadPage, At, BatchOK
      <3>2. CASE worker' = [worker EXCEPT ![w].at = "yield", ![w].kind = "plan_question",
                                          ![w].cursor = 0]
        <4>1. worker'[w].at = "yield" /\ worker'[w].stage = worker[w].stage
          BY <1>0, <3>2 DEF WorkerState
        <4> QED
          BY <1>2, <2>4, <3>1, <4>1
      <3> DEFINE page == Page(worker[w].kind, worker[w].cursor)
                 pending == Pending(Build(w), page)
                 pc == IF pending = NoBatch THEN "progress" ELSE "embed"
                 c == Max(page)
      <3>3. CASE worker' = [worker EXCEPT ![w].at = pc, ![w].cursor = c, ![w].batch = pending]
        <4>0. pc # "complete"
          OBVIOUS
        <4> HIDE DEF pc, c, pending
        <4>1. worker'[w].at = pc /\ worker'[w].stage = worker[w].stage
          BY <1>0, <3>3 DEF WorkerState
        <4> QED
          BY <1>2, <2>4, <3>1, <4>0, <4>1
      <3>4. CASE Goto(w, "cover")
        BY <1>2, <2>3, <3>4
      <3> QED
        BY <2>10, <3>2, <3>3, <3>4 DEF ReadPage
    <2>11. CASE Embed(w)
      <3>1. ASSUME NEW d \in Dimensions,
               worker' = [worker EXCEPT ![w].at = "persist", ![w].dims = d,
                      ![w].late = IF interviewing THEN worker[w].late + 1 ELSE worker[w].late]
            PROVE  CheckedOK(w)'
        <4>1. worker'[w].at = "persist" /\ worker'[w].stage = worker[w].stage
              /\ worker'[w].changed = worker[w].changed /\ worker'[w].job = worker[w].job
          BY <1>0, <3>1 DEF WorkerState
        <4> QED
          BY <4>1, CheckedKept DEF Build
      <3> QED
        BY <1>2, <2>2, <2>11, <3>1 DEF Embed
    <2>12. CASE Persist(w)
      <3>1. CASE worker' = [worker EXCEPT ![w].batch = NoBatch,
                    ![w].at = IF worker[w].stage = "probe" THEN "complete" ELSE "progress"]
        <4>1. worker'[w].at = (IF worker[w].stage = "probe" THEN "complete" ELSE "progress")
              /\ worker'[w].stage = worker[w].stage
              /\ worker'[w].changed = worker[w].changed /\ worker'[w].job = worker[w].job
          BY <1>0, <3>1 DEF WorkerState
        <4>2. worker'[w].at = "complete" => HasChecked(w)
          BY <4>1 DEF HasChecked
        <4> QED
          BY <1>2, <4>1, <4>2, CheckedKept DEF Build
      <3> QED
        BY <1>2, <2>2, <2>12, <3>1 DEF Persist
    <2>13. CASE UpdateProgress(w)
      <3>1. worker'[w].at = "yield" /\ worker'[w].stage = "page"
        BY <1>0, <2>13 DEF UpdateProgress, WorkerState
      <3> QED
        BY <1>2, <2>4, <3>1
    <2>14. CASE CheckCoverage(w)
      <3>0. worker[w].stage # "probe" /\ vectors' = vectors /\ UNCHANGED <<sources, memoryEnabled>>
        BY <1>0, <2>14 DEF CheckCoverage, At, BatchOK, rows, environment
      <3>1. CASE worker' = [worker EXCEPT ![w].at = "progress", ![w].kind = "memory",
                                          ![w].cursor = 0, ![w].pass = worker[w].pass + 1]
        <4>1. worker'[w].at = "progress" /\ worker'[w].stage = worker[w].stage
          BY <1>0, <3>1 DEF WorkerState
        <4> QED
          BY <1>2, <2>4, <3>0, <4>1
      <3>2. CASE /\ ~NeedsReconciliation(w)
                 /\ \/ worker' = [worker EXCEPT ![w].at = "yield", ![w].stage = "probe"]
                    \/ Goto(w, "complete")
        <4>1. worker'[w].job = worker[w].job
          BY <1>0, <3>2 DEF Goto, WorkerState
        <4>2. PICK p : p = Build(w)
          OBVIOUS
        <4>3. Build(w)' = p /\ Uncovered(p) = {}
          BY <3>2, <4>1, <4>2 DEF Build, NeedsReconciliation
        <4>4. Uncovered(p)' = {}
          BY <3>0, <4>3, UncoveredKept
        <4>5. Uncovered(Build(w))' = {}
          BY <4>3, <4>4
        <4> QED
          BY <1>2, <4>5 DEF CheckedOK
      <3> QED
        BY <1>2, <2>2, <2>14, <3>1, <3>2 DEF CheckCoverage
    <2>15. CASE Complete(w)
      BY <1>2, <2>1, <2>2, <2>15 DEF Complete
    <2>16. CASE Fail(w)
      BY <1>2, <2>1, <2>16 DEF Fail
    <2> QED
      BY <2>5, <2>6, <2>7, <2>8, <2>9, <2>10, <2>11, <2>12, <2>13, <2>14, <2>15, <2>16
         DEF WorkerStep
  <1> QED
    BY <1>1, <1>2

-----------------------------------------------------------------------------
(* Coverage and the user *)

\* What the user changes is noticed by the workers that have checked.
LEMMA NoticeChecked ==
    ASSUME IndexInv, CoverageInv, NEW S \in SUBSET Sources, Notice(S), NEW v \in Workers,
           \A p \in Rebuilds : Uncovered(p)' \subseteq Uncovered(p) \cup S,
           overran' = overran
    PROVE  CheckedOK(v)' /\ BatchOK(v)'
  <1>0. worker \in [Workers -> WorkerState] /\ worker[v] \in WorkerState /\ WorkerOK(v)
        /\ CheckedOK(v) /\ BatchOK(v)
    BY WorkerTypes DEF CoverageInv
  <1>1. /\ worker'[v].at = worker[v].at /\ worker'[v].stage = worker[v].stage
        /\ worker'[v].job = worker[v].job /\ worker'[v].batch = worker[v].batch
        /\ HasChecked(v) => worker'[v].changed = worker[v].changed \cup S
    BY <1>0 DEF Notice, WorkerState
  <1>2. BatchOK(v)'
    BY <1>0, <1>1 DEF BatchOK, NoBatch
  <1>3. CASE ~HasChecked(v)
    BY <1>1, <1>2, <1>3 DEF CheckedOK, HasChecked, At
  <1>4. CASE HasChecked(v)
    <2>1. Build(v) \in Rebuilds
      BY <1>0, <1>4 DEF HasChecked, WorkerOK, At, Build, WorkerState
    <2>2. PICK p \in Rebuilds : p = Build(v)
      BY <2>1
    <2>3. Build(v)' = p
      BY <1>1, <2>2 DEF Build
    <2>4. Uncovered(p)' \subseteq Uncovered(p) \cup S
      OBVIOUS
    <2>5. Uncovered(Build(v))' = Uncovered(p)'
      BY <2>3
    <2> QED
      BY <1>0, <1>1, <1>2, <1>4, <2>2, <2>3, <2>4, <2>5 DEF CheckedOK
  <1> QED
    BY <1>2, <1>3, <1>4

\* Who holds what is not changed by the user.
LEMMA UserHolders ==
    ASSUME IndexInv, CoverageInv, UserStep, NEW p \in Rebuilds
    PROVE  HoldersOK(p)'
  <1>0. worker \in [Workers -> WorkerState] /\ HoldersOK(p) /\ RowsOK /\ job \in [Rebuilds -> JobRow]
    BY DEF IndexInv, TypeOK, WorkerState, Stages, CoverageInv, RowsOK, RowsTyped
  <1>1. \A w \in Workers : worker'[w].at = worker[w].at /\ worker'[w].job = worker[w].job
    <2>1. CASE worker' = worker
      BY <2>1
    <2>2. ASSUME NEW S, Notice(S)
          PROVE  \A w \in Workers : worker'[w].at = worker[w].at /\ worker'[w].job = worker[w].job
      BY <1>0, <2>2 DEF Notice, WorkerState
    <2>3. CASE EndInterview
      BY <1>0, <2>3 DEF EndInterview, WorkerState
    <2> QED
      BY <2>1, <2>2, <2>3 DEF UserStep, WriteSource, DeleteMemory, ToggleMemory, Rebind,
         StartInterview, Enqueue
  <1>2. Holders(p)' = Holders(p)
    BY <1>1 DEF Holders, At, Build
  <1>3. overran' = overran
    BY DEF UserStep, WriteSource, DeleteMemory, ToggleMemory, Rebind, StartInterview,
       EndInterview, Enqueue
  <1>4. job'[p] = job[p] \/ ~Running(p)
    <2>1. CASE Enqueue
      <3>1. Min(Unused) \in Unused
        BY <2>1, FirstUnused DEF Enqueue
      <3>2. CASE p = Min(Unused)
        BY <1>0, <3>1, <3>2 DEF Unused, Running, RowsOK, RowOK, LiveJob
      <3>3. CASE p # Min(Unused)
        BY <1>0, <2>1, <3>3 DEF Enqueue
      <3> QED
        BY <3>2, <3>3
    <2>2. CASE job' = job
      BY <2>2
    <2> QED
      BY <2>1, <2>2 DEF UserStep, WriteSource, DeleteMemory, ToggleMemory, Rebind, StartInterview,
         EndInterview, rows
  <1> QED
    BY <1>0, <1>2, <1>3, <1>4 DEF HoldersOK, Running

LEMMA UserChecked ==
    ASSUME IndexInv, CoverageInv, UserStep, NEW v \in Workers
    PROVE  CheckedOK(v)' /\ BatchOK(v)'
  <1>0. worker \in [Workers -> WorkerState] /\ worker[v] \in WorkerState /\ WorkerOK(v)
        /\ CheckedOK(v) /\ BatchOK(v) /\ vectors \in [Rebuilds -> [Sources -> Vector \cup {NoVector}]]
    BY WorkerTypes DEF CoverageInv, IndexInv, RowsOK, RowsTyped
  <1>1. ASSUME worker'[v].at = worker[v].at, worker'[v].stage = worker[v].stage,
               worker'[v].job = worker[v].job, worker'[v].batch = worker[v].batch,
               worker'[v].changed = worker[v].changed,
               \A p \in Rebuilds : Uncovered(p)' \subseteq Uncovered(p), overran' = overran
        PROVE  CheckedOK(v)' /\ BatchOK(v)'
    <2>1. BatchOK(v)'
      BY <1>0, <1>1 DEF BatchOK, NoBatch
    <2>2. CASE ~HasChecked(v)
      BY <1>1, <2>1, <2>2 DEF CheckedOK, HasChecked, At
    <2>3. CASE HasChecked(v)
      <3>1. PICK p \in Rebuilds : p = Build(v)
        BY <1>0, <2>3 DEF HasChecked, WorkerOK, At, Build, WorkerState
      <3>2. Build(v)' = p
        BY <1>1, <3>1 DEF Build
      <3>3. Uncovered(Build(v))' = Uncovered(p)'
        BY <3>2
      <3> QED
        BY <1>0, <1>1, <2>1, <2>3, <3>1, <3>2, <3>3 DEF CheckedOK
    <2> QED
      BY <2>2, <2>3
  <1>2. ASSUME NEW s \in Sources, WriteSource(s) PROVE CheckedOK(v)' /\ BatchOK(v)'
    <2>1. \A r \in Sources : r # s => sources'[r] = sources[r]
      BY <1>2 DEF WriteSource, IndexInv, TypeOK
    <2>2. \A p \in Rebuilds : Uncovered(p)' \subseteq Uncovered(p) \cup {s}
      BY <1>2, <2>1 DEF WriteSource, Uncovered, Retrievable, rows
    <2>3. Notice({s}) /\ overran' = overran
      BY <1>2 DEF WriteSource
    <2> QED
      BY <2>2, <2>3, NoticeChecked
  <1>3. ASSUME NEW s \in Memories, DeleteMemory(s) PROVE CheckedOK(v)' /\ BatchOK(v)'
    <2>1. sources' = [sources EXCEPT ![s] = Gone] /\ s \in Sources
          /\ sources \in [Sources -> Nat \cup {Gone}]
      BY <1>3 DEF DeleteMemory, IndexInv, TypeOK, Sources
    <2>2. sources'[s] = -1 /\ \A r \in Sources : r # s => sources'[r] = sources[r]
      BY <2>1 DEF Gone
    <2>3. \A p \in Rebuilds, r \in Sources : r # s => vectors'[p][r] = vectors[p][r]
      BY <1>0, <1>3 DEF DeleteMemory
    <2>4. memoryEnabled' = memoryEnabled
      BY <1>3 DEF DeleteMemory
    <2>5. Retrievable' \subseteq Retrievable \ {s}
      BY <2>2, <2>4 DEF Retrievable
    <2>6. \A p \in Rebuilds : Uncovered(p)' \subseteq Uncovered(p)
      BY <2>2, <2>3, <2>5 DEF Uncovered, Retrievable
    <2>7. worker' = worker /\ overran' = overran
      BY <1>3 DEF DeleteMemory
    <2> QED
      BY <1>1, <2>6, <2>7
  <1>4. CASE ToggleMemory
    <2>1. \A p \in Rebuilds : Uncovered(p)' \subseteq Uncovered(p) \cup Memories
      BY <1>4 DEF ToggleMemory, Uncovered, Retrievable, rows
    <2>2. Notice(Memories) /\ overran' = overran /\ Memories \in SUBSET Sources
      BY <1>4 DEF ToggleMemory, Sources
    <2> QED
      BY <2>1, <2>2, NoticeChecked
  <1>5. ASSUME UNCHANGED <<vectors, sources, memoryEnabled>>
        PROVE  \A p \in Rebuilds : Uncovered(p)' \subseteq Uncovered(p)
    BY <1>5 DEF Uncovered, Retrievable
  <1>6. CASE Rebind \/ StartInterview \/ Enqueue
    <2>1. worker' = worker /\ overran' = overran /\ UNCHANGED <<vectors, sources, memoryEnabled>>
      BY <1>6 DEF Rebind, StartInterview, Enqueue, rows
    <2> QED
      BY <1>1, <1>5, <2>1
  <1>7. CASE EndInterview
    <2>1. /\ worker'[v].at = worker[v].at /\ worker'[v].stage = worker[v].stage
          /\ worker'[v].job = worker[v].job /\ worker'[v].batch = worker[v].batch
          /\ worker'[v].changed = worker[v].changed
      BY <1>0, <1>7 DEF EndInterview, WorkerState
    <2>2. overran' = overran /\ UNCHANGED <<vectors, sources, memoryEnabled>>
      BY <1>7 DEF EndInterview, rows
    <2> QED
      BY <1>1, <1>5, <2>1, <2>2
  <1> QED
    BY <1>2, <1>3, <1>4, <1>6, <1>7 DEF UserStep

LEMMA StepCoverageInv == IndexInv /\ CoverageInv /\ [Next]_vars => CoverageInv'
  <1> SUFFICES ASSUME IndexInv, CoverageInv, [Next]_vars PROVE CoverageInv'
    OBVIOUS
  <1>0. worker \in [Workers -> WorkerState] /\ job \in [Rebuilds -> JobRow]
    BY DEF IndexInv, TypeOK, WorkerState, Stages, RowsOK, RowsTyped
  <1>1. CASE UserStep
    BY <1>1, UserHolders, UserChecked DEF CoverageInv
  <1>2. ASSUME NEW w \in Workers, WorkerStep(w) PROVE CoverageInv'
    <2>1. ASSUME NEW v \in Workers PROVE BatchOK(v)'
      <3>1. CASE v = w
        BY <1>2, <3>1, WorkerBatch DEF CoverageInv
      <3>2. CASE v # w
        <4>1. worker'[v] = worker[v]
          BY <1>2, <3>2, WorkerStepMoves
        <4> QED
          BY <4>1 DEF CoverageInv, BatchOK, NoBatch
      <3> QED
        BY <3>1, <3>2
    <2> QED
      BY <1>2, <2>1, WorkerHolders, WorkerChecked DEF CoverageInv
  <1>3. ASSUME NEW w \in Workers, Crash(w) PROVE CoverageInv'
    <2>1. Return(w) /\ UNCHANGED <<rows, sources, memoryEnabled, overran>>
      BY <1>3 DEF Crash
    <2>2. worker'[w] = Idle /\ \A v \in Workers : v # w => worker'[v] = worker[v]
      BY <1>0, <2>1, ReturnMoves DEF Moved
    <2>3. ASSUME NEW p \in Rebuilds PROVE HoldersOK(p)'
      <3>1. Holders(p)' \subseteq Holders(p)
        BY <2>2 DEF Holders, At, Build, Idle
      <3>2. job' = job /\ overran' = overran /\ HoldersOK(p)
        BY <2>1 DEF rows, CoverageInv
      <3> QED
        BY <3>1, <3>2 DEF HoldersOK, Running
    <2>4. ASSUME NEW v \in Workers PROVE BatchOK(v)' /\ CheckedOK(v)'
      <3>1. CASE v = w
        BY <2>2, <3>1 DEF BatchOK, CheckedOK, HasChecked, At, Idle, NoBatch
      <3>2. CASE v # w
        BY <2>1, <2>2, <3>2 DEF CoverageInv, BatchOK, CheckedOK, HasChecked, At, Build, NoBatch,
           Uncovered, Retrievable, rows
      <3> QED
        BY <3>1, <3>2
    <2> QED
      BY <2>3, <2>4 DEF CoverageInv
  <1>4. ASSUME NEW q \in Rebuilds, LeaseExpires(q) \/ Overrun(q) PROVE CoverageInv'
    <2>1. UNCHANGED <<worker, vectors, sources, memoryEnabled>> /\ overran \subseteq overran'
          /\ job' = [job EXCEPT ![q].stale = TRUE]
      BY <1>4 DEF LeaseExpires, Overrun, environment
    <2>2. ASSUME NEW p \in Rebuilds PROVE HoldersOK(p)'
      <3>1. Holders(p)' = Holders(p)
        BY <2>1 DEF Holders, At, Build
      <3>2. p # q => job'[p] = job[p]
        BY <1>0, <2>1
      <3>3. job'[p].status = job[p].status
        BY <1>0, <2>1 DEF JobRow
      <3>4. Holders(q) = {} \/ q \in overran'
        BY <1>4 DEF LeaseExpires, Overrun
      <3> QED
        BY <2>1, <3>1, <3>2, <3>3, <3>4 DEF CoverageInv, HoldersOK, Running
    <2>3. ASSUME NEW v \in Workers PROVE BatchOK(v)' /\ CheckedOK(v)'
      BY <2>1 DEF CoverageInv, BatchOK, CheckedOK, HasChecked, At, Build, NoBatch, Uncovered,
         Retrievable
    <2> QED
      BY <2>2, <2>3 DEF CoverageInv
  <1>5. CASE UNCHANGED vars
    BY <1>5 DEF vars, rows, environment, CoverageInv, BatchOK, CheckedOK, HoldersOK, HasChecked,
       Holders, Running, At, Build, NoBatch, Uncovered, Retrievable
  <1> QED
    BY <1>1, <1>2, <1>3, <1>4, <1>5 DEF Next

\* A worker that promotes a build it never lost a lease on leaves out no memory and no
\* plan question but what was written after its last look at the coverage, for any
\* number of sources, pages, passes and workers.
THEOREM PromotionsAreCovered == Spec => []PromotesCovered
  <1>1. Init => CoverageInv
    BY DEF Init, CoverageInv, BatchOK, CheckedOK, HoldersOK, HasChecked, Holders, At, Idle, NoBatch
  <1>2. CoverageInv => PromotesCovered
    BY DEF CoverageInv, CheckedOK, HasChecked, At, PromotesCovered
  <1> QED
    BY <1>1, <1>2, StepCoverageInv, IndexInvAlways, PTL DEF Spec

===============================================================================
