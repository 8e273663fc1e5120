-------------------------- MODULE JobStoreProofs --------------------------
(***************************************************************************)
(* For any number of jobs, nodes and lock keys, any leases and either back *)
(* end: the type invariant, the consistency of the rows, the exclusion of  *)
(* conflicting jobs, and that the store implements JobLifecycle.           *)
(***************************************************************************)
EXTENDS JobStore, TLAPS

\* The inductive invariant: exclusion alone is not inductive, because what an
\* expiry or a late result does to a row depends on the row being well formed.
IndInv == TypeOK /\ RowsConsistent /\ OneActivePerLock

-----------------------------------------------------------------------------
(* What the row functions return *)

LEMMA NewJobType ==
  ASSUME NEW n \in Nodes, NEW type \in JobTypes, NEW key \in Keys \cup {NoKey}, NEW t \in Nat
  PROVE  NewJob(n, type, key, t) \in Job
BY DEF NewJob, Job, JobTypes, Statuses, Errors

LEMMA NoRowType ==
  ASSUME NEW status \in Statuses
  PROVE  NoRow(status) \in Job /\ NoRow(status).status = status
<1>1. (CHOOSE n \in Nodes : TRUE) \in Nodes
  BY JobConstants
<1>2. NewJob(CHOOSE n \in Nodes : TRUE, "deep_probe", NoKey, 0) \in Job
  BY <1>1, NewJobType DEF JobTypes
<1> QED
  BY <1>2 DEF NoRow, Job

\* An expiry leaves a row alone or fails a claimed one; it never activates a job.
LEMMA ExpireRowFacts ==
  ASSUME NEW job \in Job, NEW t \in Nat
  PROVE  /\ ExpireRow(job, t) \in Job
         /\ ExpireRow(job, t).node = job.node
         /\ ExpireRow(job, t).type = job.type
         /\ ExpireRow(job, t).key = job.key
         /\ jobStatusIsActive(ExpireRow(job, t)) => ExpireRow(job, t) = job
BY DEF ExpireRow, Job, Statuses, Errors, jobStatusIsActive

LEMMA SettledRowType ==
  ASSUME NEW job \in Job, NEW payload \in Results \cup {NoResult}, NEW t \in Nat
  PROVE  /\ CompleteRow(job, payload, t) \in Job
         /\ FailRow(job, payload, t) \in Job
         /\ LateRow(job, payload, t) \in Job
<1>1. CompleteRow(job, payload, t) \in Job
  BY DEF CompleteRow, Job, Statuses
<1>2. FailRow(job, payload, t) \in Job
  BY DEF FailRow, Job, Statuses, Errors
<1>3. LateRow(job, payload, t) \in Job
  BY DEF LateRow, Job, Errors
<1> QED
  BY <1>1, <1>2, <1>3

\* A result settles a claimed job, is attached to a lapsed one, or is refused.
LEMMA SubmitRowCases ==
  ASSUME NEW job \in Job, NEW res \in JobResult, NEW t \in Nat
  PROVE  \/ job.status = "claimed" /\ res.status = "completed"
              /\ SubmitRow(job, res, t) = CompleteRow(job, res.payload, t)
         \/ job.status = "claimed" /\ SubmitRow(job, res, t) = FailRow(job, res.payload, t)
         \/ IsJobClaimTimeout(job) /\ SubmitRow(job, res, t) = LateRow(job, res.payload, t)
         \/ SubmitRow(job, res, t) = job
<1>1. res.status \in {"completed", "failed"}
  BY DEF JobResult
<1>2. CASE job.status = "claimed"
  <2>1. ~IsJobClaimTimeout(job)
    BY <1>2 DEF IsJobClaimTimeout
  <2> QED
    BY <1>1, <1>2, <2>1 DEF SubmitRow
<1>3. CASE job.status # "claimed"
  BY <1>3 DEF SubmitRow
<1> QED
  BY <1>2, <1>3

(* Each row function preserves the consistency of a row *)

LEMMA ExpireRowOK ==
  ASSUME NEW job \in Job, NEW t \in Nat \ {0}, RowOK(job)
  PROVE  RowOK(ExpireRow(job, t))
BY DEF ExpireRow, RowOK, Job, Statuses, Errors, Terminal

LEMMA ClaimRowOK ==
  ASSUME NEW job \in Job, NEW t \in Nat \ {0}, RowOK(job), job.status = "pending"
  PROVE  ClaimRow(job, t) \in Job /\ RowOK(ClaimRow(job, t))
<1>1. jobClaimLease(job.type) \in Nat \ {0}
  BY JobConstants DEF jobClaimLease
<1>2. t + jobClaimLease(job.type) \in Nat \ {0}
  BY <1>1
<1> QED
  BY <1>2 DEF ClaimRow, RowOK, Job, Statuses, Terminal

LEMMA SubmitRowOK ==
  ASSUME NEW job \in Job, NEW res \in JobResult, NEW t \in Nat \ {0}, RowOK(job)
  PROVE  SubmitRow(job, res, t) \in Job /\ RowOK(SubmitRow(job, res, t))
<1>1. res.payload \in Results \cup {NoResult}
  BY DEF JobResult
<1>2. CASE SubmitRow(job, res, t) = job
  BY <1>2
<1>3. CASE job.status = "claimed" /\ SubmitRow(job, res, t) = CompleteRow(job, res.payload, t)
  <2>1. RowOK(CompleteRow(job, res.payload, t))
    BY <1>1, <1>3 DEF CompleteRow, RowOK, Job, Terminal
  <2> QED
    BY <1>1, <1>3, <2>1, SettledRowType
<1>4. CASE job.status = "claimed" /\ SubmitRow(job, res, t) = FailRow(job, res.payload, t)
  <2>1. RowOK(FailRow(job, res.payload, t))
    BY <1>1, <1>4 DEF FailRow, RowOK, Job, Terminal
  <2> QED
    BY <1>1, <1>4, <2>1, SettledRowType
<1>5. CASE IsJobClaimTimeout(job) /\ SubmitRow(job, res, t) = LateRow(job, res.payload, t)
  <2>1. RowOK(LateRow(job, res.payload, t))
    BY <1>1, <1>5 DEF LateRow, IsJobClaimTimeout, RowOK, Job, Terminal
  <2> QED
    BY <1>1, <1>5, <2>1, SettledRowType
<1> QED
  BY <1>2, <1>3, <1>4, <1>5, SubmitRowCases

LEMMA NewRowsOK ==
  /\ \A n \in Nodes, type \in JobTypes, key \in Keys \cup {NoKey}, t \in Nat :
       RowOK(NewJob(n, type, key, t))
  /\ RowOK(NoRow("absent")) /\ RowOK(NoRow("deleted"))
<1>1. ASSUME NEW n \in Nodes, NEW type \in JobTypes, NEW key \in Keys \cup {NoKey}, NEW t \in Nat
      PROVE  RowOK(NewJob(n, type, key, t))
  BY JobConstants DEF RowOK, NewJob, Terminal
<1>2. RowOK(NoRow("absent")) /\ RowOK(NoRow("deleted"))
  BY DEF RowOK, NoRow, NewJob, Terminal
<1> QED
  BY <1>1, <1>2

-----------------------------------------------------------------------------
(* Exclusion *)

\* A step that activates no job, and leaves the lock of every job that stays
\* active alone, keeps conflicting jobs apart.
LEMMA NoNewActive ==
  ASSUME OneActivePerLock,
         \A id \in JobIDs : jobStatusIsActive(jobs'[id]) =>
            /\ jobStatusIsActive(jobs[id])
            /\ jobs'[id].node = jobs[id].node
            /\ jobs'[id].type = jobs[id].type
            /\ jobs'[id].key = jobs[id].key
  PROVE  OneActivePerLock'
BY DEF OneActivePerLock, activeJobConflict

LEMMA ExpiredRows ==
  ASSUME TypeOK, RowsConsistent, OneActivePerLock
  PROVE  /\ expireClaimedJobs(jobs, now) \in [JobIDs -> Job]
         /\ \A id \in JobIDs :
              LET job == expireClaimedJobs(jobs, now)[id] IN
              /\ RowOK(job)
              /\ jobStatusIsActive(job) => job = jobs[id]
         /\ \A i, j \in JobIDs :
              i # j /\ jobStatusIsActive(expireClaimedJobs(jobs, now)[i]) =>
                ~activeJobConflict(expireClaimedJobs(jobs, now)[i], expireClaimedJobs(jobs, now)[j])
<1> DEFINE ex == expireClaimedJobs(jobs, now)
<1>1. \A id \in JobIDs : ex[id] = ExpireRow(jobs[id], now) /\ jobs[id] \in Job
  BY DEF TypeOK, expireClaimedJobs
<1>2. ex \in [JobIDs -> Job]
  BY <1>1, ExpireRowFacts DEF TypeOK, expireClaimedJobs
<1>3. \A id \in JobIDs : RowOK(ex[id])
  BY <1>1, ExpireRowOK DEF TypeOK, RowsConsistent
<1>4. \A id \in JobIDs : jobStatusIsActive(ex[id]) => ex[id] = jobs[id]
  BY <1>1, ExpireRowFacts DEF TypeOK
<1>5. \A i, j \in JobIDs : i # j /\ jobStatusIsActive(ex[i]) => ~activeJobConflict(ex[i], ex[j])
  BY <1>4 DEF OneActivePerLock, activeJobConflict
<1> QED
  BY <1>2, <1>3, <1>4, <1>5

-----------------------------------------------------------------------------
(* The invariant *)

LEMMA InitInv == Init => IndInv
<1> SUFFICES ASSUME Init PROVE IndInv
  OBVIOUS
<1>1. TypeOK
  BY NoRowType DEF Init, TypeOK, Statuses
<1>2. \A id \in JobIDs : jobs[id] = NoRow("absent")
  BY DEF Init
<1>3. RowsConsistent
  BY <1>2, NewRowsOK DEF RowsConsistent
<1>4. OneActivePerLock
  BY <1>2, NoRowType DEF OneActivePerLock, jobStatusIsActive, Statuses
<1> QED
  BY <1>1, <1>3, <1>4 DEF IndInv

LEMMA CreateJobInv ==
  ASSUME IndInv, NEW id \in JobIDs, NEW n \in Nodes, NEW type \in JobTypes,
         NEW key \in Keys \cup {NoKey}, CreateJob(id, n, type, key)
  PROVE  IndInv'
<1> DEFINE ex == expireClaimedJobs(jobs, now)
           job == NewJob(n, type, key, now)
<1>1. /\ jobs' = [ex EXCEPT ![id] = job]
      /\ now' = now
      /\ \A other \in JobIDs : ~activeJobConflict(job, ex[other])
  BY DEF CreateJob
<1>2. /\ ex \in [JobIDs -> Job]
      /\ \A i \in JobIDs : RowOK(ex[i])
      /\ \A i, k \in JobIDs : i # k /\ jobStatusIsActive(ex[i]) => ~activeJobConflict(ex[i], ex[k])
  BY ExpiredRows DEF IndInv
<1>3. job \in Job /\ RowOK(job) /\ now \in Nat \ {0}
  BY NewJobType, NewRowsOK DEF IndInv, TypeOK
<1> HIDE DEF ex, job
<1>4. TypeOK'
  BY <1>1, <1>2, <1>3 DEF TypeOK
<1>5. \A i \in JobIDs : jobs'[i] = IF i = id THEN job ELSE ex[i]
  BY <1>1, <1>2
<1>6. RowsConsistent'
  BY <1>2, <1>3, <1>5 DEF RowsConsistent
<1>7. job.status = "pending"
  BY DEF job, NewJob
<1>8. OneActivePerLock'
  <2> SUFFICES ASSUME NEW i \in JobIDs, NEW k \in JobIDs, i # k, jobStatusIsActive(jobs'[i])
               PROVE  ~activeJobConflict(jobs'[i], jobs'[k])
    BY DEF OneActivePerLock
  <2>1. CASE i # id /\ k # id
    BY <1>2, <1>5, <2>1
  <2>2. CASE i = id
    BY <1>1, <1>5, <2>2
  <2>3. CASE k = id
    BY <1>1, <1>5, <1>7, <2>3 DEF activeJobConflict, jobStatusIsActive
  <2> QED
    BY <2>1, <2>2, <2>3
<1> QED
  BY <1>4, <1>6, <1>8 DEF IndInv

LEMMA ExpireInv ==
  ASSUME IndInv, jobs' = expireClaimedJobs(jobs, now), now' = now
  PROVE  IndInv'
<1>1. TypeOK'
  BY ExpiredRows DEF IndInv, TypeOK
<1>2. RowsConsistent'
  BY ExpiredRows DEF IndInv, RowsConsistent
<1>3. OneActivePerLock'
  BY ExpiredRows DEF IndInv, OneActivePerLock
<1> QED
  BY <1>1, <1>2, <1>3 DEF IndInv

LEMMA ClaimNextJobInv ==
  ASSUME IndInv, NEW n \in Nodes, ClaimNextJob(n)
  PROVE  IndInv'
<1> DEFINE ex == expireClaimedJobs(jobs, now)
<1>1. PICK id \in OldestPending(ex, n) :
        jobs' = [ex EXCEPT ![id] = ClaimRow(ex[id], now)] /\ now' = now
  BY DEF ClaimNextJob
<1>2. id \in JobIDs /\ ex[id].status = "pending"
  BY <1>1 DEF OldestPending
<1>3. /\ ex \in [JobIDs -> Job]
      /\ \A i \in JobIDs : RowOK(ex[i])
      /\ \A i \in JobIDs : jobStatusIsActive(ex[i]) => ex[i] = jobs[i]
  BY ExpiredRows DEF IndInv
<1>4. now \in Nat \ {0}
  BY DEF IndInv, TypeOK
<1> HIDE DEF ex
<1>5. ClaimRow(ex[id], now) \in Job /\ RowOK(ClaimRow(ex[id], now))
  BY <1>2, <1>3, <1>4, ClaimRowOK
<1>6. \A i \in JobIDs : jobs'[i] = IF i = id THEN ClaimRow(ex[id], now) ELSE ex[i]
  BY <1>1, <1>2, <1>3
<1>7. TypeOK'
  BY <1>1, <1>2, <1>3, <1>4, <1>5 DEF TypeOK
<1>8. RowsConsistent'
  BY <1>3, <1>5, <1>6 DEF RowsConsistent
<1>9. OneActivePerLock'
  <2>1. /\ ClaimRow(ex[id], now).node = ex[id].node
        /\ ClaimRow(ex[id], now).type = ex[id].type
        /\ ClaimRow(ex[id], now).key = ex[id].key
        /\ ex[id] = jobs[id]
        /\ jobStatusIsActive(jobs[id])
    BY <1>2, <1>3 DEF ClaimRow, Job, jobStatusIsActive
  <2>2. \A i \in JobIDs : jobStatusIsActive(jobs'[i]) =>
            /\ jobStatusIsActive(jobs[i])
            /\ jobs'[i].node = jobs[i].node
            /\ jobs'[i].type = jobs[i].type
            /\ jobs'[i].key = jobs[i].key
    BY <1>3, <1>6, <2>1
  <2> QED
    BY <2>2, NoNewActive DEF IndInv
<1> QED
  BY <1>7, <1>8, <1>9 DEF IndInv

LEMMA SubmitResultInv ==
  ASSUME IndInv, NEW id \in JobIDs, NEW res \in JobResult, SubmitResult(id, res)
  PROVE  IndInv'
<1>1. jobs \in [JobIDs -> Job] /\ now \in Nat \ {0} /\ RowOK(jobs[id])
  BY DEF IndInv, TypeOK, RowsConsistent
<1>2. jobs' = [jobs EXCEPT ![id] = SubmitRow(jobs[id], res, now)] /\ now' = now
  BY DEF SubmitResult
<1>3. SubmitRow(jobs[id], res, now) \in Job /\ RowOK(SubmitRow(jobs[id], res, now))
  BY <1>1, SubmitRowOK
<1>4. \A i \in JobIDs : jobs'[i] = IF i = id THEN SubmitRow(jobs[id], res, now) ELSE jobs[i]
  BY <1>1, <1>2
<1>5. TypeOK'
  BY <1>1, <1>2, <1>3 DEF TypeOK
<1>6. RowsConsistent'
  BY <1>3, <1>4 DEF IndInv, RowsConsistent
<1>7. jobStatusIsActive(SubmitRow(jobs[id], res, now)) => SubmitRow(jobs[id], res, now) = jobs[id]
  <2>1. res.payload \in Results \cup {NoResult}
    BY DEF JobResult
  <2>2. jobs[id] \in Job
    BY <1>1
  <2>3. /\ CompleteRow(jobs[id], res.payload, now).status = "completed"
        /\ FailRow(jobs[id], res.payload, now).status = "failed"
        /\ LateRow(jobs[id], res.payload, now).status = jobs[id].status
    BY <2>2 DEF CompleteRow, FailRow, LateRow, Job
  <2> QED
    BY <1>1, <2>2, <2>3, SubmitRowCases DEF jobStatusIsActive, IsJobClaimTimeout
<1>8. OneActivePerLock'
  BY <1>4, <1>7, NoNewActive DEF IndInv
<1> QED
  BY <1>5, <1>6, <1>8 DEF IndInv

\* The pruner and DeleteNode: some rows go, the others stay as they are.
LEMMA DeleteRowsInv ==
  ASSUME IndInv, now' = now, jobs' \in [JobIDs -> {NoRow("deleted")} \cup Job],
         \A id \in JobIDs : jobs'[id] \in {jobs[id], NoRow("deleted")}
  PROVE  IndInv'
<1>1. NoRow("deleted") \in Job /\ NoRow("deleted").status = "deleted"
  BY NoRowType DEF Statuses
<1>2. TypeOK'
  BY <1>1 DEF IndInv, TypeOK
<1>3. RowsConsistent'
  BY NewRowsOK DEF IndInv, RowsConsistent
<1>4. OneActivePerLock'
  BY <1>1, NoNewActive DEF IndInv, jobStatusIsActive
<1> QED
  BY <1>2, <1>3, <1>4 DEF IndInv

LEMMA NextInv == IndInv /\ [Next]_vars => IndInv'
<1> SUFFICES ASSUME IndInv, [Next]_vars PROVE IndInv'
  OBVIOUS
<1>0. jobs \in [JobIDs -> Job] /\ now \in Nat \ {0}
  BY DEF IndInv, TypeOK
<1>1. ASSUME NEW id \in JobIDs, NEW n \in Nodes, NEW type \in JobTypes,
             NEW key \in Keys \cup {NoKey}, CreateJob(id, n, type, key)
      PROVE  IndInv'
  BY <1>1, CreateJobInv
<1>2. ASSUME NEW n \in Nodes, NEW type \in JobTypes, NEW key \in Keys \cup {NoKey},
             CreateJobConflict(n, type, key)
      PROVE  IndInv'
  <2>1. CASE jobs' = expireClaimedJobs(jobs, now)
    BY <1>2, <2>1, ExpireInv DEF CreateJobConflict
  <2>2. CASE jobs' = jobs
    BY <1>2, <2>2 DEF CreateJobConflict, IndInv, TypeOK, RowsConsistent, OneActivePerLock
  <2> QED
    BY <1>2, <2>1, <2>2 DEF CreateJobConflict
<1>3. ASSUME NEW n \in Nodes, ClaimNextJob(n) PROVE IndInv'
  BY <1>3, ClaimNextJobInv
<1>4. CASE ListNodeJobs
  BY <1>4, ExpireInv DEF ListNodeJobs
<1>5. ASSUME NEW id \in JobIDs, NEW res \in JobResult, SubmitResult(id, res) PROVE IndInv'
  BY <1>5, SubmitResultInv
<1>6. CASE PruneTerminalJobs
  BY <1>0, <1>6, DeleteRowsInv DEF PruneTerminalJobs
<1>7. ASSUME NEW n \in Nodes, DeleteNode(n) PROVE IndInv'
  BY <1>0, <1>7, DeleteRowsInv DEF DeleteNode
<1>8. CASE Tick
  BY <1>0, <1>8 DEF Tick, IndInv, TypeOK, RowsConsistent, OneActivePerLock
<1>9. CASE UNCHANGED vars
  BY <1>9 DEF vars, IndInv, TypeOK, RowsConsistent, OneActivePerLock
<1> QED
  BY <1>1, <1>2, <1>3, <1>4, <1>5, <1>6, <1>7, <1>8, <1>9 DEF Next

\* Every reachable row is well typed and consistent, and conflicting jobs are
\* never active together, for every number of jobs, nodes, keys and any lease.
THEOREM StoreInvariant == Spec => []IndInv
BY InitInv, NextInv, PTL DEF Spec

\* The type invariant of the store.
THEOREM StoreTypeOK == Spec => []TypeOK
BY StoreInvariant, PTL DEF IndInv

\* The job lock of CreateJob: no two active jobs of a node hold the same lock.
THEOREM StoreExclusion == Spec => []OneActivePerLock
BY StoreInvariant, PTL DEF IndInv

\* What expiry and the pruner select rows by is consistent in every row.
THEOREM StoreRowsConsistent == Spec => []RowsConsistent
BY StoreInvariant, PTL DEF IndInv

-----------------------------------------------------------------------------
(* Refinement of JobLifecycle *)

\* What JobLifecycle allows one job's row to become in one step.
RowStep(a, b) ==
  \/ /\ PhaseOf(b) = PhaseOf(a)
     /\ \/ b.result = a.result
        \/ PhaseOf(a) = "lapsed" /\ b.result \in Results \cup {NoResult}
  \/ /\ <<PhaseOf(a), PhaseOf(b)>> \in Lifecycle!Moves
     /\ \/ b.result = a.result
        \/ PhaseOf(b) \in {"completed", "rejected"} /\ b.result \in Results \cup {NoResult}
        \/ PhaseOf(b) = "deleted" /\ b.result = NoResult

LEMMA ExpireRowStep ==
  ASSUME NEW job \in Job, NEW t \in Nat
  PROVE  RowStep(job, ExpireRow(job, t))
<1>1. CASE job.status = "claimed" /\ job.expires <= t
  <2> DEFINE b == ExpireRow(job, t)
  <2>1. b.status = "failed" /\ b.error = "timeout" /\ b.result = job.result
    BY <1>1 DEF ExpireRow, Job
  <2>2. PhaseOf(job) = "claimed" /\ PhaseOf(b) = "lapsed"
    BY <1>1, <2>1 DEF PhaseOf, IsJobClaimTimeout
  <2> QED
    BY <2>1, <2>2 DEF RowStep, Lifecycle!Moves
<1>2. CASE ~(job.status = "claimed" /\ job.expires <= t)
  BY <1>2 DEF ExpireRow, RowStep
<1> QED
  BY <1>1, <1>2

LEMMA ClaimRowStep ==
  ASSUME NEW job \in Job, NEW t \in Nat, job.status = "pending"
  PROVE  RowStep(job, ClaimRow(job, t))
<1> DEFINE b == ClaimRow(job, t)
<1>1. b.status = "claimed" /\ b.result = job.result
  BY DEF ClaimRow, Job
<1>2. PhaseOf(job) = "pending" /\ PhaseOf(b) = "claimed"
  BY <1>1 DEF PhaseOf
<1> QED
  BY <1>1, <1>2 DEF RowStep, Lifecycle!Moves

LEMMA SubmitRowStep ==
  ASSUME NEW job \in Job, NEW res \in JobResult, NEW t \in Nat
  PROVE  RowStep(job, SubmitRow(job, res, t))
<1> DEFINE p == res.payload
           b == SubmitRow(job, res, t)
<1>1. p \in Results \cup {NoResult}
  BY DEF JobResult
<1>2. CASE b = job
  BY <1>2 DEF RowStep
<1>3. CASE job.status = "claimed" /\ b = CompleteRow(job, p, t)
  <2>1. b.status = "completed" /\ b.result = p
    BY <1>3 DEF CompleteRow, Job
  <2>2. PhaseOf(job) = "claimed" /\ PhaseOf(b) = "completed"
    BY <1>3, <2>1 DEF PhaseOf
  <2> QED
    BY <1>1, <2>1, <2>2 DEF RowStep, Lifecycle!Moves
<1>4. CASE job.status = "claimed" /\ b = FailRow(job, p, t)
  <2>1. b.status = "failed" /\ b.error = "reported" /\ b.result = p
    BY <1>4 DEF FailRow, Job
  <2>2. PhaseOf(job) = "claimed" /\ PhaseOf(b) = "rejected"
    BY <1>4, <2>1 DEF PhaseOf, IsJobClaimTimeout
  <2> QED
    BY <1>1, <2>1, <2>2 DEF RowStep, Lifecycle!Moves
<1>5. CASE IsJobClaimTimeout(job) /\ b = LateRow(job, p, t)
  <2>1. b.status = job.status /\ b.error = "late" /\ b.result = p
    BY <1>5 DEF LateRow, Job
  <2>2. PhaseOf(job) = "lapsed" /\ PhaseOf(b) = "lapsed"
    BY <1>5, <2>1 DEF PhaseOf, IsJobClaimTimeout
  <2> QED
    BY <1>1, <2>1, <2>2 DEF RowStep
<1> QED
  BY <1>2, <1>3, <1>4, <1>5, SubmitRowCases

LEMMA DeleteRowStep ==
  ASSUME NEW job \in Job, job.status # "absent", RowOK(job)
  PROVE  RowStep(job, NoRow("deleted"))
<1> DEFINE b == NoRow("deleted")
<1>1. b.status = "deleted" /\ b.result = NoResult
  BY DEF NoRow, NewJob
<1>2. PhaseOf(b) = "deleted"
  BY <1>1 DEF PhaseOf
<1>3. PhaseOf(job) \in {"pending", "claimed", "completed", "rejected", "lapsed", "deleted"}
  BY DEF PhaseOf, Job, Statuses
<1>4. job.status = "deleted" => PhaseOf(job) = "deleted"
  BY DEF PhaseOf
<1>5. PhaseOf(job) = "deleted" => job.status = "deleted"
  BY DEF PhaseOf
<1>6. CASE PhaseOf(job) # "deleted"
  BY <1>1, <1>2, <1>3, <1>6 DEF RowStep, Lifecycle!Moves
<1>7. CASE PhaseOf(job) = "deleted"
  <2>1. job.result = NoResult
    BY <1>5, <1>7 DEF RowOK
  <2> QED
    BY <1>1, <1>2, <1>7, <2>1 DEF RowStep
<1> QED
  BY <1>6, <1>7

LEMMA NextRowSteps ==
  ASSUME IndInv, [Next]_vars
  PROVE  \A id \in JobIDs : RowStep(jobs[id], jobs'[id])
<1>0. /\ jobs \in [JobIDs -> Job] /\ now \in Nat
      /\ \A id \in JobIDs : RowOK(jobs[id])
  BY DEF IndInv, TypeOK, RowsConsistent
<1> DEFINE ex == expireClaimedJobs(jobs, now)
<1>a. \A id \in JobIDs : ex[id] = ExpireRow(jobs[id], now)
  BY DEF expireClaimedJobs
<1>b. /\ ex \in [JobIDs -> Job]
      /\ \A id \in JobIDs : jobStatusIsActive(ex[id]) => ex[id] = jobs[id]
  BY ExpiredRows DEF IndInv
<1>c. \A id \in JobIDs : RowStep(jobs[id], ex[id])
  BY <1>0, <1>a, ExpireRowStep
<1>d. \A id \in JobIDs : RowStep(jobs[id], jobs[id])
  BY DEF RowStep
<1> HIDE DEF ex
<1>1. ASSUME NEW i \in JobIDs, NEW n \in Nodes, NEW type \in JobTypes,
             NEW key \in Keys \cup {NoKey}, CreateJob(i, n, type, key)
      PROVE  \A id \in JobIDs : RowStep(jobs[id], jobs'[id])
  <2>1. jobs' = [ex EXCEPT ![i] = NewJob(n, type, key, now)] /\ jobs[i].status = "absent"
    BY <1>1 DEF CreateJob, ex
  <2>2. jobs[i].result = NoResult
    BY <1>0, <2>1 DEF RowOK
  <2>3. NewJob(n, type, key, now).status = "pending" /\ NewJob(n, type, key, now).result = NoResult
    BY DEF NewJob
  <2>4. PhaseOf(jobs[i]) = "absent" /\ PhaseOf(NewJob(n, type, key, now)) = "pending"
    BY <2>1, <2>3 DEF PhaseOf
  <2>5. RowStep(jobs[i], NewJob(n, type, key, now))
    BY <2>2, <2>3, <2>4 DEF RowStep, Lifecycle!Moves
  <2> QED
    BY <1>b, <1>c, <2>1, <2>5
<1>2. ASSUME NEW n \in Nodes, NEW type \in JobTypes, NEW key \in Keys \cup {NoKey},
             CreateJobConflict(n, type, key)
      PROVE  \A id \in JobIDs : RowStep(jobs[id], jobs'[id])
  BY <1>2, <1>c, <1>d DEF CreateJobConflict, ex
<1>3. ASSUME NEW n \in Nodes, ClaimNextJob(n)
      PROVE  \A id \in JobIDs : RowStep(jobs[id], jobs'[id])
  <2>1. PICK i \in OldestPending(ex, n) : jobs' = [ex EXCEPT ![i] = ClaimRow(ex[i], now)]
    BY <1>3 DEF ClaimNextJob, ex
  <2>2. i \in JobIDs /\ ex[i].status = "pending" /\ ex[i] = jobs[i]
    BY <1>b, <2>1 DEF OldestPending, jobStatusIsActive
  <2>3. RowStep(jobs[i], ClaimRow(ex[i], now))
    BY <1>0, <2>2, ClaimRowStep
  <2> QED
    BY <1>b, <1>c, <2>1, <2>2, <2>3
<1>4. CASE ListNodeJobs
  BY <1>4, <1>c DEF ListNodeJobs, ex
<1>5. ASSUME NEW i \in JobIDs, NEW res \in JobResult, SubmitResult(i, res)
      PROVE  \A id \in JobIDs : RowStep(jobs[id], jobs'[id])
  BY <1>0, <1>5, <1>d, SubmitRowStep DEF SubmitResult
<1>6. CASE PruneTerminalJobs
  BY <1>0, <1>6, <1>d, DeleteRowStep DEF PruneTerminalJobs, Terminal
<1>7. ASSUME NEW n \in Nodes, DeleteNode(n)
      PROVE  \A id \in JobIDs : RowStep(jobs[id], jobs'[id])
  BY <1>0, <1>7, <1>d, DeleteRowStep DEF DeleteNode
<1>8. CASE Tick
  BY <1>8, <1>d DEF Tick
<1>9. CASE UNCHANGED vars
  BY <1>9, <1>d DEF vars
<1> QED
  BY <1>1, <1>2, <1>3, <1>4, <1>5, <1>6, <1>7, <1>8, <1>9 DEF Next

LEMMA InitRefines == Init => Lifecycle!LInit
<1>1. NoRow("absent").status = "absent" /\ NoRow("absent").result = NoResult
  BY DEF NoRow, NewJob
<1>2. PhaseOf(NoRow("absent")) = "absent"
  BY <1>1 DEF PhaseOf
<1> QED
  BY <1>1, <1>2 DEF Init, Lifecycle!LInit

LEMMA NextRefines ==
  IndInv /\ [Next]_vars
    => [Lifecycle!LNext]_<<[id \in JobIDs |-> PhaseOf(jobs[id])],
                           [id \in JobIDs |-> jobs[id].result]>>
<1> SUFFICES ASSUME IndInv, [Next]_vars PROVE Lifecycle!LNext
  OBVIOUS
<1>1. \A id \in JobIDs : Lifecycle!JobStep(id)
  BY NextRowSteps DEF RowStep, Lifecycle!JobStep
<1> QED
  BY <1>1 DEF Lifecycle!LNext

\* The store implements JobLifecycle: under every interleaving of calls a job is
\* handed out at most once, settled at most once, and keeps its verdict.
THEOREM StoreRefinesLifecycle == Spec => RefinesLifecycle
<1>1. IndInv /\ [Next]_vars
        => [Lifecycle!LNext]_<<[id \in JobIDs |-> PhaseOf(jobs[id])],
                               [id \in JobIDs |-> jobs[id].result]>>
  BY NextRefines
<1> QED
  BY <1>1, InitRefines, StoreInvariant, PTL DEF Spec, RefinesLifecycle, Lifecycle!LSpec
====================================
