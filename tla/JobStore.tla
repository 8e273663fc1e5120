---------------------------- MODULE JobStore ----------------------------
(***************************************************************************)
(* The job half of the server's store, as the HTTP handlers, the rollout   *)
(* orchestrator, the sidecars' polls and the retention pruner call it.     *)
(* Every call is one transaction (SQLite with one connection) or one       *)
(* critical section of the mutex (memory), so every call is one action.    *)
(*                                                                         *)
(* The two back ends differ in one place: when CreateJob finds a conflict, *)
(* the memory store keeps the expiries it has just made and SQLite's       *)
(* deferred Rollback undoes them.  CreateJobConflict allows both.          *)
(***************************************************************************)
EXTENDS Jobs

CONSTANTS
  Retention,   \* job retention of the pruner
  MaxNow       \* bound on the clock

ASSUME StoreConstants ==
  /\ Retention \in Nat
  /\ MaxNow \in Nat

VARIABLES
  jobs,   \* the jobs table
  now     \* the server's clock

vars == <<jobs, now>>

TypeOK ==
  /\ jobs \in [JobIDs -> Job]
  /\ now \in Nat \ {0}

Init ==
  /\ jobs = [id \in JobIDs |-> NoRow("absent")]
  /\ now = 1

-----------------------------------------------------------------------------
(* Server calls *)

\* CreateJob: leases that ran out are expired first, so they no longer lock.
CreateJob(id, n, type, key) ==
  LET expired == expireClaimedJobs(jobs, now)
      job == NewJob(n, type, key, now)
  IN  /\ jobs[id].status = "absent"
      /\ type = "config_apply" <=> key \in Keys
      /\ \A other \in JobIDs : ~activeJobConflict(job, expired[other])
      /\ jobs' = [expired EXCEPT ![id] = job]
      /\ UNCHANGED now

\* ErrActiveJobExists: SQLite rolls the whole transaction back, memory keeps the
\* expiries.
CreateJobConflict(n, type, key) ==
  LET expired == expireClaimedJobs(jobs, now)
  IN  /\ type = "config_apply" <=> key \in Keys
      /\ \E other \in JobIDs :
           activeJobConflict(NewJob(n, type, key, now), expired[other])
      /\ jobs' \in {jobs, expired}
      /\ UNCHANGED now

\* ClaimNextJob: the node's oldest pending job is handed out under a lease.
ClaimNextJob(n) ==
  LET expired == expireClaimedJobs(jobs, now)
  IN  \E id \in OldestPending(expired, n) :
        /\ jobs' = [expired EXCEPT ![id] = ClaimRow(expired[id], now)]
        /\ UNCHANGED now

\* ClaimNextJob with nothing pending, and ListNodeJobs: only expiry happens.
ListNodeJobs ==
  /\ jobs' = expireClaimedJobs(jobs, now)
  /\ UNCHANGED now

\* CompleteJob and FailJob.  Neither looks at the lease: a result that comes
\* after the lease but before anybody expired it still settles the job.  A
\* sidecar only reports jobs it was handed.
SubmitResult(id, res) ==
  /\ jobs[id].status \notin {"absent", "pending"}
  /\ jobs' = [jobs EXCEPT ![id] = SubmitRow(@, res, now)]
  /\ UNCHANGED now

\* The retention pruner.
PruneTerminalJobs ==
  /\ jobs' = [id \in JobIDs |->
                IF Terminal(jobs[id]) /\ jobs[id].finished # 0
                   /\ jobs[id].finished + Retention < now
                THEN NoRow("deleted") ELSE jobs[id]]
  /\ UNCHANGED now

\* DeleteNode: the node's jobs go with it (ON DELETE CASCADE).
DeleteNode(n) ==
  /\ jobs' = [id \in JobIDs |->
                IF jobs[id].node = n /\ jobs[id].status # "absent"
                THEN NoRow("deleted") ELSE jobs[id]]
  /\ UNCHANGED now

Tick ==
  /\ now < MaxNow
  /\ now' = now + 1
  /\ UNCHANGED jobs

Next ==
  \/ \E id \in JobIDs, n \in Nodes, type \in JobTypes, key \in Keys \cup {NoKey} :
       CreateJob(id, n, type, key)
  \/ \E n \in Nodes, type \in JobTypes, key \in Keys \cup {NoKey} :
       CreateJobConflict(n, type, key)
  \/ \E n \in Nodes : ClaimNextJob(n)
  \/ ListNodeJobs
  \/ \E id \in JobIDs, res \in JobResult : SubmitResult(id, res)
  \/ PruneTerminalJobs
  \/ \E n \in Nodes : DeleteNode(n)
  \/ Tick

Spec == Init /\ [][Next]_vars

-----------------------------------------------------------------------------
(* Properties *)

\* No two active jobs of a node hold the same lock, so a sidecar is never given
\* two applies of one config file, two restarts, two rollbacks or two probes.
OneActivePerLock ==
  \A i, j \in JobIDs :
    i # j /\ jobStatusIsActive(jobs[i]) => ~activeJobConflict(jobs[i], jobs[j])

RowOK(job) ==
  /\ job.expires # 0 <=> job.status = "claimed"
  /\ job.finished # 0 <=> Terminal(job)
  /\ job.error # "none" <=> job.status = "failed"
  /\ job.result # NoResult => job.status = "completed" \/ job.error \in {"reported", "late"}

\* Exactly the claimed rows carry a lease, and exactly the settled rows a finish
\* time (what expiry and the pruner select rows by); a verdict the server gave
\* alone has no result, a completed row has no error.
RowsConsistent == \A id \in JobIDs : RowOK(jobs[id])

PhaseOf(job) ==
  IF job.status # "failed" THEN job.status
  ELSE IF IsJobClaimTimeout(job) THEN "lapsed" ELSE "rejected"

Lifecycle ==
  INSTANCE JobLifecycle WITH
    Reports <- Results \cup {NoResult},
    NoReport <- NoResult,
    phase <- [id \in JobIDs |-> PhaseOf(jobs[id])],
    report <- [id \in JobIDs |-> jobs[id].result]

\* Under every interleaving of calls the store keeps the promise of JobLifecycle:
\* handed out at most once, settled at most once, verdicts never change.
RefinesLifecycle == Lifecycle!LSpec
=============================================================================
