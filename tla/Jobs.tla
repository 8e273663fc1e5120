------------------------------ MODULE Jobs ------------------------------
(***************************************************************************)
(* The rows of the jobs table and the pure functions on them that both     *)
(* store back ends share: the lock that keeps two conflicting jobs from    *)
(* being active together, the claim lease, the expiry of leases, and what  *)
(* a sidecar's result does to a row.                                       *)
(*                                                                         *)
(* A job identifier is a fresh random string (newRandomID), so a row that  *)
(* was deleted keeps its identifier for ever: "deleted" is not "absent".   *)
(* One unit of time is one second.  SQLite orders rows by the RFC3339Nano  *)
(* text of created_at, which drops trailing zeros and is therefore         *)
(* chronological only between different seconds; rows created in the same  *)
(* second come back in an order the model leaves open.                     *)
(***************************************************************************)
EXTENDS Naturals

CONSTANTS
  JobIDs,            \* identifiers a job can be given
  Nodes,             \* enrolled nodes
  Keys,              \* (runtime type, config path) pairs a signed plan names
  NoKey,             \* a payload whose lock fields cannot be read
  Results,           \* result payloads a sidecar can report
  NoResult,          \* the empty result_json
  DefaultLease,      \* defaultJobClaimLease
  ConfigApplyLease   \* configApplyJobClaimLease

ASSUME JobConstants ==
  /\ Nodes # {}
  /\ NoKey \notin Keys
  /\ NoResult \notin Results
  /\ DefaultLease \in Nat \ {0}
  /\ ConfigApplyLease \in Nat \ {0}

JobTypes == {"deep_probe", "restart", "rollback", "config_apply"}

Statuses == {"absent", "pending", "claimed", "completed", "failed", "deleted"}

\* The error column: empty, reported by the sidecar, jobClaimTimeoutError, or
\* jobClaimTimeoutError with the late result appended.
Errors == {"none", "reported", "timeout", "late"}

\* A time of 0 is the zero time.Time (NULL in SQLite).
Job == [node : Nodes, type : JobTypes, key : Keys \cup {NoKey},
        status : Statuses, created : Nat, expires : Nat, finished : Nat,
        error : Errors, result : Results \cup {NoResult}]

\* protocol.JobResultRequest.  A completed job always carries a payload.
JobResult ==
  [status : {"completed"}, payload : Results]
    \cup [status : {"failed"}, payload : Results \cup {NoResult}]

jobStatusIsActive(job) == job.status \in {"pending", "claimed"}

Terminal(job) == job.status \in {"completed", "failed"}

jobClaimLease(type) == IF type = "config_apply" THEN ConfigApplyLease ELSE DefaultLease

IsJobClaimTimeout(job) == job.status = "failed" /\ job.error \in {"timeout", "late"}

(***************************************************************************)
(* The job lock.  Two config_apply jobs exclude each other when they name  *)
(* the same runtime and path, or when either payload cannot be read; every *)
(* other type excludes itself on a node.                                   *)
(***************************************************************************)
\* Slip: the lock looks at queued jobs only and lets a claimed one be joined.
ConflictWithQueuedOnly(candidate, existing) ==
  /\ candidate.node = existing.node
  /\ candidate.type = existing.type
  /\ existing.status = "pending"
  /\ candidate.type = "config_apply" => candidate.key = existing.key

activeJobConflict(candidate, existing) ==
  /\ candidate.node = existing.node
  /\ candidate.type = existing.type
  /\ jobStatusIsActive(existing)
  /\ candidate.type = "config_apply" =>
       \/ candidate.key = NoKey
       \/ existing.key = NoKey
       \/ candidate.key = existing.key

\* Slip: the expired row keeps its lease.
ExpireRowKeepingLease(job, t) ==
  IF job.status = "claimed" /\ job.expires <= t
  THEN [job EXCEPT !.status = "failed", !.error = "timeout", !.finished = t]
  ELSE job

\* Slip: the lease must have been over for a full unit.
ExpireRowLate(job, t) ==
  IF job.status = "claimed" /\ job.expires < t
  THEN [job EXCEPT !.status = "failed", !.error = "timeout",
                   !.finished = t, !.expires = 0]
  ELSE job

\* Slip: a claim whose lease has run out is queued again.
ExpireRowRequeues(job, t) ==
  IF job.status = "claimed" /\ job.expires <= t
  THEN [job EXCEPT !.status = "pending", !.expires = 0]
  ELSE job

\* One row under expireClaimedJobs: a claim whose lease has run out fails.
ExpireRow(job, t) ==
  IF job.status = "claimed" /\ job.expires <= t
  THEN [job EXCEPT !.status = "failed", !.error = "timeout",
                   !.finished = t, !.expires = 0]
  ELSE job

expireClaimedJobs(jobs, t) == [id \in JobIDs |-> ExpireRow(jobs[id], t)]

NewJob(n, type, key, t) ==
  [node |-> n, type |-> type, key |-> key, status |-> "pending",
   created |-> t, expires |-> 0, finished |-> 0,
   error |-> "none", result |-> NoResult]

\* The pending jobs of a node that ORDER BY created_at may put first.
OldestPending(jobs, n) ==
  LET pending == {id \in JobIDs : jobs[id].node = n /\ jobs[id].status = "pending"}
  IN  {id \in pending : \A other \in pending : jobs[id].created <= jobs[other].created}

ClaimRow(job, t) ==
  [job EXCEPT !.status = "claimed", !.expires = t + jobClaimLease(job.type)]

\* CompleteJob and FailJob on a claimed row.
CompleteRow(job, payload, t) ==
  [job EXCEPT !.status = "completed", !.result = payload,
              !.finished = t, !.expires = 0]

FailRow(job, payload, t) ==
  [job EXCEPT !.status = "failed", !.error = "reported", !.result = payload,
              !.finished = t, !.expires = 0]

\* Slip: a late result settles the job as if the lease had not run out.
LateRowSettles(job, payload, t) ==
  [job EXCEPT !.status = "completed", !.error = "none", !.result = payload,
              !.finished = t, !.expires = 0]

\* recordLateJobResult: the result is attached, the job stays failed.
LateRow(job, payload, t) ==
  [job EXCEPT !.error = "late", !.result = payload, !.finished = t, !.expires = 0]

\* The row after a submitted result; the same row when the store refuses it.
SubmitRow(job, res, t) ==
  CASE job.status = "claimed" /\ res.status = "completed" -> CompleteRow(job, res.payload, t)
    [] job.status = "claimed" /\ res.status = "failed"    -> FailRow(job, res.payload, t)
    [] IsJobClaimTimeout(job)                             -> LateRow(job, res.payload, t)
    [] OTHER                                              -> job

\* The HTTP status submitJobResult answers with.
SubmitCode(job) ==
  CASE job.status \in {"absent", "deleted"}              -> 404
    [] job.status = "claimed" \/ IsJobClaimTimeout(job)  -> 200
    [] OTHER                                             -> 500

\* A job identifier that has no row: not used yet, or its row was deleted.
NoRow(status) ==
  [NewJob(CHOOSE n \in Nodes : TRUE, "deep_probe", NoKey, 0) EXCEPT !.status = status]
=============================================================================
