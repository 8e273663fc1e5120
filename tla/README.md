# Sideplane: a TLA+ verification project

Sideplane is a control plane for agent runtimes (Hermes, OpenClaw).  A server
keeps the fleet's state in a store and offers an HTTP API; on every node a
sidecar reports heartbeats, polls for jobs and executes them (probe a runtime,
apply a signed config plan, restart, roll back); operators use a CLI and a web
UI.  Rollouts stage a provider/model change over many nodes in batches.

## Inventory

| Component | State | Operations | What is hard | What makes it correct |
|---|---|---|---|---|
| Job store (`internal/store`) | jobs table: status, lease, error, result | CreateJob, ClaimNextJob, CompleteJob, FailJob, ListNodeJobs, PruneTerminalJobs, DeleteNode | leases that run out under a running sidecar, late and duplicate results, the per-node job lock | conflicting jobs never active together; handed out once; settled once; verdicts are final |
| Operator job handlers, labels, maintenance, bulk operations (`http.go`) | labels, maintenance flags, timed-out set, counters | create, list, claim and settle jobs; set labels; bulk requests | every handler is several store calls with others in between, node removal among them | no job without its node; a job is counted once; locks and lifecycle still hold |
| Rollout engine (`internal/rollout`) | none: a pure function of one rollout snapshot | PlanBatches, Step, Resume, Abort | order of timeout/offline/failure checks, partial dispatch, auto-rollback | batches in order; completed means every node applied |
| Rollout orchestrator and rollout API (`internal/server`) | rollouts table | ReconcileOnce, createRollout, rolloutAction | snapshot, step and blind write interleave with operators' read-modify-write; crash between job creation and write | batches in order; what a row claims is true; an abort yields only to older reads; a rollback on record is not repeated |
| Sidecar job poller (`internal/sidecar/jobs.go`) | retry buffer (memory only) | PollAndExecute, retryBufferedJobResults, bufferJobResult | lost requests and lost answers, restarts, full buffer | a job is executed at most once; a result is not forgotten while the sidecar lives |
| Config apply, rollback, restart (`internal/sidecar`) | config file, env file, run directories, runtime | Execute, executeRollback, restart, pruneApplyRuns | failure or crash at each step, double failures in the undo | dry runs change nothing; a failed apply restores what it replaced; completed means in effect |
| Enrollment, credentials, heartbeats | tokens, credentials, nodes, heartbeats, the sidecar's state file | CreateEnrollmentToken, EnrollNode, VerifyNodeCredential, RecordHeartbeat, PruneHeartbeats, DeleteNode | two sidecars racing for one token; a lost answer; removal between check and record | a token enrolls one node; removal is final; a running sidecar is heard |
| Desired config, history, catalog | layered desired config, history, provider secrets | put, provider put and delete, revert, effective config, drift, plan | whole-document read-modify-write; key and entry stored one after the other; paging while others write | layers merge by precedence; a plan is made of one version; keys are served while they are promised |
| Event hub, alert dispatcher, webhooks | subscribers and buffers, alert queue, webhooks | Subscribe, publish, handleEvent, deliver | full buffers, slow subscribers, retries, full queue | a subscriber sees a gap-free stretch; no delivery lost uncounted, but for a failed listing of the webhooks; each is settled |
| Operator tokens and authorization | operator tokens | create, verify, touch, list, revoke | revocation while a request, or another revocation, is under way | no escalation; revocation is final |
| Rate limiter | windows per key | Allow | window borders, a clock read before the lock, eviction at the key limit | bounded attempts in any stretch of a window's length |
| Event tickets | tickets in memory | Create, Consume | use at the instant of expiry, double use | one stream per ticket |
| Templates, settings, audit log | three tables | create, delete, get, put, append, prune | two writes in one request; concurrent deletions | omitted fields survive; one deletion is answered; changes are attributed |
| Scheduled backups | database copies | copy, keep N | file names, disk errors | not modelled |
| CLI, web UI, adapters, crypto, migrations, metrics, command wiring | none that the server's decisions depend on | | I/O and formatting | not modelled |

Interactions: the CLI and UI call HTTP handlers; handlers, the orchestrator and
the pruners share the store; sidecars call the HTTP API (heartbeat, claim,
result); the orchestrator creates jobs through the same CreateJob as operators;
handlers and the orchestrator publish to the event hub, which feeds server-sent
event clients and the alert dispatcher.

## Modules

| Module | Models | Extends / instantiates |
|---|---|---|
| `Jobs` | rows of the jobs table and the pure functions on them: the job lock (`job_lock.go`), leases, expiry, what a result does to a row | |
| `JobStore` | the store's job calls, one action per call (each is one SQLite transaction or one critical section of the memory store) | `Jobs` |
| `JobLifecycle` | abstract: what the store promises about one job's life | instantiated by `JobStore` |
| `NodeJobs` | the HTTP handlers around the job store, in the store calls they make: jobs, bulk jobs, labels, maintenance, removal, counters | `JobStore` |
| `JobDelivery` | the sidecars' poll loop and retry buffer over a network that loses, delays and repeats, composed with the store | `JobStore` |
| `JobStoreProofs` | theorems about `JobStore` | `JobStore` |
| `JobClientsProofs` | theorems about `NodeJobs` and `JobDelivery` | `NodeJobs`, `JobDelivery`, `JobStoreProofs` |
| `RolloutEngine` | `PlanBatches`, `Step`, `Resume`, `Abort`, pause and validation as operators on one rollout snapshot | |
| `RolloutControl` | the rollouts table shared by the orchestrator's passes and the HTTP handlers; jobs and nodes as the engine sees them | `RolloutEngine` |
| `RolloutLifecycle` | abstract: the moves of the rollout state diagram of `docs/fleet-rollouts.md`, made on drafts by several parties | instantiated by `RolloutControl` |
| `RolloutProofs` | theorems about `RolloutControl` and `RolloutEngine` | `RolloutControl` |
| `ConfigApply` | the apply pipeline, its undo, the rollback and restart jobs and run retention on one node | |
| `ConfigApplyProofs` | theorems about `ConfigApply` | `ConfigApply` |
| `Fleet` | enrollment tokens, credentials, the sidecar's state file, heartbeats and their retention, node removal | |
| `FleetProofs` | theorems about `Fleet` | `Fleet` |
| `Alerts` | event hub, event streams, freshness, alert dispatcher with queue, workers and retries, webhooks | |
| `AlertsProofs` | theorems about `Alerts` | `Alerts` |
| `DesiredConfig` | layers and merging, validation, history and revert, catalog and keys, drift, config plans | |
| `DesiredConfigProofs` | theorems about `DesiredConfig` | `DesiredConfig` |
| `Access` | operator tokens and scopes, rate limiter, event tickets, settings, templates, audit entries | |
| `AccessProofs` | theorems about `Access` | `Access` |
| `MC*` | symmetry sets and inputs for the runs | the module they are named after |

Definitions keep the names of the functions they model where there is one
(`ClaimNextJob`, `expireClaimedJobs`, `bufferJobResult`, `prepareManagedEnv`, ...);
`PROJECT.json` maps every definition to its lines. A definition whose comment
starts with "Slip:" is a plausible mistake in the definition after it; it is not
part of any specification. Putting it in place of the real definition makes the
property it is paired with fail, which shows that the property watches that code.

### Job store and the handlers around it

`jobs` is the table, one row per identifier; `"absent"` is an identifier not yet
given out and `"deleted"` one whose row is gone (identifiers are random and never
reused). `now` is the server's clock in seconds. SQLite orders rows by the text of
`created_at`, in which trailing zeros of the fraction are dropped, so the order
inside one second is left open. The back ends differ in one place:
when `CreateJob` meets a conflict, memory keeps the expiries it has just made and
SQLite rolls them back. `CreateJobConflict` allows either, so every result holds
for both.

`NodeJobs` adds `nodes` (there or not, labels, maintenance) and `ops`, one slot per
request in progress. A handler is a sequence of actions, one per store call: look
the node up, then create; load the job, then settle it; read labels, then write
them. A bulk request works through its nodes one after the other. `timedOut` and
`counted` are the server's memory of jobs it has put in its counters, for one life of the process: a
restart, which empties them and the counters, is not modelled there. The store is
SQLite's there: a row for a node that is gone is refused by the foreign key.

### Rollouts

`RolloutEngine!Step` is a function of a snapshot and of a record of what the
engine's collaborators answer (`World`): which nodes can be dispatched to, which
jobs have ended, whose deadline has passed, which nodes are offline, which look-ups
fail. A pass is three kinds of action, as in `ReconcileOnce`: list, step one
snapshot (jobs are created here), write it back. A handler's action is two: read
and write. Nothing but the store's single statements is atomic. A job is `"active"`
until it is settled; the order in which a node's sidecar runs jobs is kept.
Health deadlines and scheduled starts are events that may come at any time.
`ListRollouts` gives a pass the newest `ListLimit` rollouts, ended ones included, as the
store does; numbers are given in the order of creation, and rows that were created within
one second, which the store orders by the text of their times, are not told apart from it.
`ReconcileFails` and `Crash` may come between any two steps.

`RolloutLifecycle` does not say that a rollout's state moves as the diagram draws it: that is
false, since a write replaces whatever is there (see the disagreements below). Its state has
*drafts*, what requests and passes hold of a rollout: a draft is the state as it was read or
one move away from it, and a write makes a draft the state. Under the mapping, the drafts
are the states of all snapshots held (`Copies`).

A request's specification is normalised and validated before anything else
(`normalizeRolloutSpec`, `validateRolloutSpec`, `ValidateRolloutSpec`): the instances
contain one that names a node twice and some that are refused. A loop over a batch's
nodes is written as the positions it picks (`Among`, `Pick`), in the order of the batch.

### Delivery

`pc`, `cur`, `buffer`, `todo` are the poller's place in `PollAndExecute`, the job it
holds, `resultBuffer`, and the part of it that the retry loop has not looked at yet.
`flying` holds submissions whose sender has timed out and which may still arrive.
`runs`, `told` and `gone` are history: how often a job was executed, its outcome,
and which outcomes a restart or a full buffer has dropped.

### Config apply

One action per step of `Execute` that touches a file, the runtime or the network,
each with its failure. `saved` is what the job has read for its undo, `broken`
whether the first half of the undo failed. A `"stuck"` verdict is the result that
names a failed undo, `"died"` stands for a sidecar that never reported: `FailedApplyLeavesNoTrace`
promises nothing of it, `CompletedRollbackRestores` says that a rollback makes it good. `before` and `original` are history. Plan identifiers are
numbers in the order of their names, given out in any order: they are random.
A restart job is `StartRestart`, `Bounce` and the health check that follows it.

### Fleet

A host exchanges its token (`EnrollNode`, one transaction), writes the answer to its
state file and runs; it may die at any of these points, and the answer may be lost.
The heartbeat handler is two actions, verify and record, with removal and new
enrollments in between. A credential is the position of its exchange in `issued`.
Time counts the smallest fractions of a second: `Digits` places of base `Base` make one (9
of base 10 in the code). `PruneHeartbeats` goes by the text of `observed_at`, which leaves
out zeros at the end of the fraction and closes with a `Z`, which sorts after every digit: `TextAfter` is
that order, and within a second it is not the order of time (`.12Z` comes before `.1Z`).
`issued`, `removed` and `stragglers` are history.

### Alerts

`publish` is one step, as it runs under the hub's lock: each client's buffer gets the
event or the client is cut off. The dispatcher is one of the clients. `handleEvent`
takes one event and has three ways on (`Dispatch`): the alert is suppressed because its node is
in maintenance; the webhooks that want it are listed, and their deliveries enqueued one by
one, where a full queue drops them and counts the drop; or the listing fails, and the alert
is gone with a line in the server's log. `owed` and `unlisted` are history: what was due, and
which alerts were lost to a failed listing. A look-up of the maintenance flag that fails
suppresses nothing. A worker makes up to `MaxAttempts`
attempts; a receiver may answer anything. `StateFor` is the freshness policy.

### Desired configuration

Layers are functions from keys (kind of layer, then the parts of the target that are not blank) to selections and
catalog entries; merging, validation, previews, drift and the plan are operators.
`probes` are the reports of a node's deep probes as its job list shows them, newest job first,
each a sequence of snapshots, one per runtime found. A probe may complete after one that was created
later (`DeepProbe`), and leaves the list when newer jobs fill its page or retention takes its
row (`DropProbe`). `latestActualSnapshots` is all that the newest probe with anything to say
reports; `latestActualSnapshot` walks back until a probe has a snapshot for the target asked for.
Handlers (`ops` per operator) are sequences of store calls, any of which may fail and
leave what was written before it. Paging through the history is one action per page.
Properties compare the merging operators with reference definitions by precedence.

### Access

A request verifies its token, notes the token's use, does its work in one or more
calls, looks the operator's name up and appends the audit entry; requests run side by
side and the server may restart between any two calls, which empties limiter and
tickets. A look-up of the name that fails ends the request as any failing call does (`fail`);
the code goes on with the name `unknown`.
A revocation loads the token and marks it in a second statement that does not ask again, so
`revoked`, the row's `revoked_at`, may be written twice. An attempt with a wrong credential
reads the clock (`refuse`) and then gets the limiter's lock (`allow`); `waiting` are the
attempts in between. `Deployments` are five small configurations that ask for different things:
tokens; settings; templates; tickets; wrong credentials.

## Runs

| Run | Specification | Checks |
|---|---|---|
| `node_jobs` | `NodeJobs!NSpec`, every job type | `OneActivePerLock`, `RowsConsistent`, `NoOrphanJobs`, `CountedOnce`, refinement of `JobLifecycle`, with handlers interleaved and nodes removed between their calls |
| `rollout_races` | `RolloutControl!Spec`, canary + 1, requests and passes interleave, crashes, failed writes, silent nodes | `CanaryFirst`, `ProgressIsReal`: what the races cannot break; `AbortYieldsOnlyToOlderReads`: the only way to lose an abort; refinement of `RolloutLifecycle` |
| `rollout_fair` | `FairSpec`, two rollouts of one node, a page of one, requests and passes interleave, crashes, lost leases | `RolloutsSettle` |
| `rollout_undo` | `RolloutControl!Spec`, one batch of two with auto-rollback, crashes, failed writes, store errors | `RollbackOnceOnRecord` |
| `delivery` | `DSpec`, 2 jobs, buffer of 1 | `ExecutedOnce`, `StoredAsTold`, `NothingForgotten` |
| `delivery_fair` | `DFairSpec` | `ResultsArrive`, `ClaimsEnd` |
| `config_apply` | `ConfigApply!Spec`, 2 plans, 1 run directory kept | `TypeOK`, `FailedApplyLeavesNoTrace`, `CompletedIsLive`, `CompletedRollbackRestores`, `DryRunIsInert` |
| `fleet` | `Fleet!FairSpec`, 2 hosts, 2 nodes, 2 tokens, two seconds of two instants | `TokenEnrollsOnce`, `AccessUntilRemoval`, `NewestHeartbeatKept`, `RunningIsHeard` |
| `alerts` | `Alerts!FairSpec`, one browser, one webhook, one worker | `StreamsAreContiguous`, `DeliveriesAccounted`, `DeliveriesSettle` |
| `alerts_offline` | `Alerts!FairSpec` | `OfflineIsAlerted` fails |
| `desired_config` | `DesiredConfig!Spec`, 2 operators, a node with 2 runtimes | `VersionsAreSound`, `LayersFollowPrecedence`, `KeysAreServed`, `PlanFromOneVersion`, `FoundUnlessOvertaken`, `DriftIsReal` |
| `access` | `Access!Spec`, 5 deployments, 2 requests or attempts at a time | `NoEscalation`, `ChangesAreAttributed`, `BoundedGuessing`, `TicketBuysOneStream`, `FrozenAfterRevocation`, `OmittedVersionsSurvive` |

A module's type invariant is checked with one of its properties, as its first conjunct
(`ProgressIsReal`, `NothingForgotten`, `NoOrphanJobs`, `AccessUntilRemoval`, `DeliveriesAccounted`,
`VersionsAreSound`, `BoundedGuessing`). Each property is stated in words above its definition.

### Bounds

- `NodeJobs`: one node, since locks, labels and removal are per node; two jobs conflict
  or not by type and key; two requests are a handler and what overtakes it. Leases of 1
  with `MaxNow = 2` let a claim run out before and after a report. `Retention = 0` lets the
  pruner take any settled row. The proofs about `JobStore` remove the bounds of its part.
- `RolloutControl`: two nodes are a canary and a follower, or one batch with a
  partial failure. `MaxActions` counts operator requests (create and one or two
  of pause, resume, abort) and the server's faults (crashes and failed writes);
  `MaxJobs = 3` in the races is the smallest number with a
  second dispatch of a node after a crash or a resume. In `rollout_undo`, `MaxJobs = 5` is two applies, their
  rollbacks and one job more. In `rollout_fair`, `MaxJobs = 3` does not bind, which the fairness formula
  needs: with one node, three actions make no more. `ListLimit = 1` with two rollouts
  there pushes the first off the page (the code's page is 500); one rollout is always on it. `Faults`
  selects what goes wrong in a run, since all faults together are too many states:
  `outage` (look-ups and job creation fail), `unwritten` (`UpdateRollout` fails),
  `crash` (server), `lease` (results lost, leases expire), `silence` (heartbeats stop).
- `JobDelivery`: `BufferLimit = 1` makes the second undelivered result drop the
  first; the code's limit is 100. With one place, a result that is refused for good is never in
  front of one that could be delivered: that order is not in the fair run. The fair run has one job type and
  `MaxNow = 2`, because TLC's liveness check multiplies the states.
- `ConfigApply`: `Keep = 1` with two plans makes every second apply prune (the code
  keeps 20); two configs and two secrets tell old from new.
- `Fleet`: two hosts race for one token, and one enrolls again with the second; `TokenTTL = 1`
  has tokens used before, at and after their expiry; one heartbeat
  row kept is the case in which retention could take the wrong one. `Base = 2` and
  `Digits = 1` is the coarsest clock whose texts are out of order (`.1Z` before `Z`); it has two instants per
  second. A run begins at the second 1 with both tokens to spend, or at the instant before it with
  one (`Starts`): `MaxNow = 3` then has two instants of one second, or heartbeats of two seconds.
- `Alerts`: buffers and queue of one place overflow with the second event;
  `MaxAttempts = 2` has one retry. `MaxEvents` leaves room for an event after a cut-off.
- `DesiredConfig`: `PageLimit = 1` makes two versions two pages (the code reads 500 per
  page). `MaxProbes = 2` is a latest probe and one to walk back to; three reports are two
  runtimes, one of them alone, and a runtime whose file was not found. Four inputs are a layered configuration, a target-specific one, one that names
  a provider twice and one with an unusable value.
- `Access`: `Limit = 2` and `Window = 2` put requests on both sides of a window's border;
  `MaxKeys = 1` evicts with the second client; two `Callers` are a delayed attempt and one that
  overtakes it, and `LockWait = 1` is half a window, the most that is assumed; `TicketTTL` and `AuditRetention` of 1 with
  `MaxNow = 3` reach both sides of either limit.

### Fairness

`rollout_fair`: the orchestrator's ticker keeps firing (infinitely many steps of passes, which is
weak fairness, since some step of a pass is always possible), a handler that has read
also writes, deadlines pass and scheduled times arrive (weak). Passes and requests overlap as
they like. The server fails finitely often (`MaxActions`): if it died in every pass, nothing
could be promised. Nodes are given no fairness: a rollout must settle even if no node ever
answers. The run states it of rollouts on the page that a pass reads.

`delivery_fair`: the clock and the poller's ticker go on (weak fairness), and strong
fairness says that the network is not down for ever: if a claim or a buffered result
can be delivered again and again, one of them is, and not every poll is cut off by
a restart. Restarts, drops and lost answers stay possible for ever, and `ResultsArrive`
allows for what they drop.

`fleet`: a running sidecar's loop goes on sending (weak), not every heartbeat is lost
(strong, for the arrival at the server), and a handler that has verified also records
(weak). Hosts may stop and operators may remove nodes at any time.

`alerts`, `alerts_offline`: time passes, the dispatcher's goroutine and its workers run,
and every attempt ends, since the HTTP client has a timeout (all weak). Receivers,
browsers, nodes and operators owe nothing.

## Finding

**Silent nodes are never alerted** (`alerts_offline`). `docs/operations.md:98` says that
webhooks "receive alerts for `node.offline`, `node.drift`, ...". Node events are published
only by the heartbeat handler (`internal/server/http.go:1012`), with the state of the node
that has just been heard of, which is always fresh, and without a drift field; nothing
publishes when a node falls silent. In the counterexample a node is heard once, its one event says
`fresh`, and it is silent from then on.

### Disagreements seen without a run of their own

The models contain these behaviours, and the passing runs state what holds beside them.

- An abort can be undone: `ReconcileOnce` writes its stepped snapshot with an unconditional
  `UpdateRollout` (`rollout_orchestrator.go:115`); `docs/fleet-rollouts.md:56-57` calls abort
  terminal. `AbortYieldsOnlyToOlderReads` says that nothing but such an older read does it.
- A pass reads the newest 500 rollouts, ended ones included (`rollout_orchestrator.go:100`), and
  the program never calls `PruneTerminalRollouts`; the comment at line 98 says that it "steps
  all currently non-terminal rollouts once". An older scheduled, paused or running rollout
  beyond the page is not stepped; `RolloutsSettle` speaks of those on the page.
- A node may be rolled back twice: when the server dies, or `UpdateRollout` fails, after
  `DispatchRollback` has made the job, or an older snapshot is written over the row, a later pass
  finds no rollback in its snapshot and dispatches another once the first has ended. The comment at
  `internal/rollout/engine.go:275` calls the dispatch "never retried". `RollbackOnceOnRecord`
  says that nothing but a rollback missing from the row or from a snapshot that may replace it is done again.
- `PruneHeartbeats` orders by text, so within a second it may keep an older heartbeat and delete the
  newest; the comment at `sqlite.go:658` says that it "keeps the latest keep heartbeat rows".
  `NewestHeartbeatKept` holds to the second.
- The limiter reads its clock before it takes its lock (`rate_limit.go:110`), so a delayed attempt is
  counted in a window that began after the time it goes by. `BoundedGuessing` bounds what
  gets through by three times the limit, not two.
- A second revocation that has loaded the token before the first one's update overwrites `revoked_at`
  in SQLite (`sqlite.go:991`); the memory store checks and marks under one lock.
- The overlap check and the creation of a rollout are separate store calls
  (`http.go:1166`); `docs/operations.md:204-206` says an overlapping request is rejected.
- Auto-rollback restores a node's newest backup (`rollout_orchestrator.go:152`), which for a
  node that was dispatched twice is a copy of the target; the comment at line 140 speaks of
  the pre-rollout backup.
- A result whose answer was lost is sent again and answered with 500 (`http.go:2905`);
  `docs/operations.md:198-199` says duplicates are accepted.
- `pruneApplyRuns` orders run directories by their random plan identifiers
  (`internal/sidecar/apply.go:713`), so it may delete the newest; its comments speak of
  the oldest.
- A revert answers 404 for an entry that exists when another version is recorded while its
  pages are read (`http.go:1572`); `README.md:278`. `FoundUnlessOvertaken` says that
  this is the only way.
- A bulk label request reads, merges and writes (`http.go:2300`), so a key that another
  operator adds in between is lost; `docs/operations.md:86` says other keys are preserved.

## Proofs

Everything below holds for every value of the constants, subject only to the assumption
named in the module that declares them (`JobConstants`, `StoreConstants`,
`DeliveryConstants`, `ControlConstants`, `ApplyConstants`, `FleetConstants`,
`AlertsConstants`, `AccessBounds`, `DesiredConstants`, `DesiredInputs`): sets of the right kind, bounds in `Nat`, special values
different from ordinary ones, and in `AccessBounds` that an attempt waits for the limiter's lock for at
most half a window (the operator limiter's window is a minute). No theorem has a hypothesis of its own. The bounds on counters stay in the models,
so a theorem speaks of runs up to any bound.

- `JobStoreProofs`: `Spec => []TypeOK`, `[]RowsConsistent`, `[]OneActivePerLock`, and
  `Spec => RefinesLifecycle`. Exclusion is not inductive alone: it survives an
  expiry or a result because those never make a job active, which needs the row to
  be typed and its lease and status to agree. `IndInv` is the conjunction of the three.
  The refinement is proved row by row: `RowStep` says what any call may do to one row,
  each row function is shown to be a `RowStep`, and `RowStep` is `JobLifecycle`'s
  `JobStep` under the mapping `PhaseOf`.
- `JobClientsProofs`, on `NodeJobs`: every step of a handler is a call of the store or leaves its rows alone
  (`NodeJobsImplementsStore`), so exclusion, `RowsConsistent` and the refinement carry over to
  `NSpec`. `NoOrphanJobs` needs to know what a handler remembers between its calls, and
  that a removed node's rows are deleted in the same transaction. `CountedOnce` needs
  `CountsInv`: a job that was counted has a verdict, and by the lifecycle it never loses it.
- `JobClientsProofs`, on `JobDelivery`: `DSpec => []ExecutedOnce`, `[]StoredAsTold`, `[]NothingForgotten`. The
  invariant says what a poller holds at each of its places (`PollersInv`), and that only
  executed jobs are buffered or under way and an executed job is never pending again
  (`OutcomesInv`). By the same invariant every submission, retried, late or repeated, carries the
  outcome of a job that was handed out and run, so every step of a sidecar or of the network is
  a call of the store or leaves its rows alone: `DSpec => Spec` (`DeliveryImplementsStore`), and
  exclusion, `RowsConsistent` and the refinement of `JobLifecycle` carry over to `DSpec`.
- `RolloutProofs`, for `Spec`, where requests, passes, crashes and failed writes interleave:
  `CanaryFirst`, `ProgressIsReal`, `RollbackOnceOnRecord`, `RefinesRolloutLifecycle` and
  `AbortYieldsOnlyToOlderReads`. Rows are overwritten with
  old snapshots, so no invariant of the rows alone is inductive. `Sound` says of any copy,
  wherever it is held, that what it shows of a node is true of the jobs table and that a
  batch it has reached has succeeded predecessors; jobs are only added and what is completed
  stays so, hence a sound copy stays sound; `AdvanceSound`, `StepRunningSound` and
  `OperatorSound` show that the engine turns sound copies into sound copies. `ControlInv`
  is soundness of all copies.
  The other theorems, also for `Spec`, rest on a classification: whoever takes a step, it leaves rows and copies
  alone, creates a row, reads copies of rows, advances a copy (and makes jobs for it), or writes a
  copy back (`OfAKind`; `EveryKind`). `HoldInv` says of every row and copy that it is `Fit`: its
  plan has a node, it has no jobs while its time has not come, and only nodes that
  succeeded are rolled back. `RollbackOnceOnRecord`: a pass makes a rollback job only from a copy
  that shows none, and a row and copies that all show it have only such successors.
  `RefinesRolloutLifecycle`: each kind is one of `RolloutLifecycle`'s actions, and the
  engine's step is at most one move. `AbortYieldsOnlyToOlderReads`: no move leads out of an end.
- `ConfigApplyProofs`: `Spec => []TypeOK`, `[]FailedApplyLeavesNoTrace`,
  `[]CompletedIsLive` (applies and restarts), `[]CompletedRollbackRestores`, and
  `Spec => DryRunIsInert`. The properties speak of ended jobs only; `Stages` says for
  every step what is on the disk, what has been remembered for the undo, that live steps
  belong to live plans, and that every backup is the config from before its plan's apply.
  `IndInv` is `TypeOK`, `Stages` and the outcomes.
- `FleetProofs`: `TokenEnrollsOnce`, `AccessUntilRemoval`, `NewestHeartbeatKept`. An exchange marks its
  token in the step that issues the credential (`Exchanges`); a credential is its node's
  until it is in `removed` (`CredsIssued`), and so are the identities that hosts hold and handlers
  have checked. What a pruner
  keeps of a node's heartbeats always contains the last of their texts, which is of the latest second.
- `AlertsProofs`: `StreamsAreContiguous`, `DeliveriesAccounted`. A client's buffer is the part of the
  log after what it has received (`Follows`). The dispatcher's events have growing numbers,
  so a delivery it makes is new, and each is in exactly one place, unless its event is in `unlisted`,
  and then nothing of it is in any.
- `AccessProofs`: `NoEscalation`, `FrozenAfterRevocation`, `OmittedVersionsSurvive`,
  `TicketBuysOneStream`, `ChangesAreAttributed`, `BoundedGuessing`. The first part of the invariant
  (`Core`) says what a request in progress knows of its operator; the others rest on it. A ticket
  in memory has opened nothing (`TicketsInv`). `RevokeInv` knows when each token ended, which no
  revocation's time exceeds. The attempts let through in a window's length are of at
  most three windows, each within its limit, and the first of the three has lost its first attempt
  (`Split`), since an attempt goes by a time that is at most half a window old (`LimiterInv`). A token's request was cut short, has
  its entry or is about to write it; a deletion on record or about to be is the only one of its
  template (`AuditInv`).
- `DesiredConfigProofs`: `VersionsAreSound`, `KeysAreServed`, `PlanFromOneVersion`, `FoundUnlessOvertaken`,
  `DriftIsReal` and `LayersFollowPrecedence`. The invariant says what a handler holds between its calls (`HandlerOK`): a
  version on its way is validated, its stamp is nobody else's, its key is in the store when
  the entry's turn comes; a search whose history has not grown has read only pages without
  its entry; a plan in the making has the config of a version on record. It is stated with
  history, stored keys and clock as arguments, so that one lemma (`HandlerKept`) shows that a
  handler survives whatever the others add. `RanksFill` shows that the sort by time
  (`NewestFirst`) and the removal of entries (`Pick`) are total: distinct stamps have ranks
  1 to the length. `DesiredInputs` says that what operators send decodes to configurations
  and targets are records, `DesiredConstants` that special values are not names.
  `LayersFollowPrecedence` is proved part by part. Selections are four merges
  (`EffectiveIsMostSpecific`). For catalogs (`CatalogIsMostSpecific`), `mergeProviderDefinitions` is
  a loop, written as a recursive function; `MergeRuns` shows that it has a value after any
  number of entries and `MergeNamed` what it has kept of each name by then, both from the least
  number at which that fails, in place of an induction. That the layer names no provider twice
  is used there, and comes from the invariant. Keys join the parts of a target that are not blank,
  and the handlers do not check that the results differ: a profile `hermes` without a runtime has the
  key of the runtime `hermes` without a profile. So a preview is for its key, and shows for every target
  with that key; the layers of targets with other keys are untouched (`LayersDiffer`). A slash
  inside a name, which could make two keys equal as well, is not in the model, where keys are
  sequences of parts. `DriftIsReal` is proved for any number of runtimes and probes: `DriftByPlan`
  compares the node list with a plan, `DriftHasAPage` with the effective-config pages.

Lemmas on operators that the proofs share are stated once: `MinOf` and `MaxOf` (from the library's
well-founded induction, applied to the order of the naturals), what
`PlanBatches` makes of a list of nodes, `Append`, `SubSeq` and concatenation on typed
sequences, what a row function does to a row.

Only model-checked:

- liveness: `RolloutsSettle`, `ResultsArrive`, `ClaimsEnd`, `RunningIsHeard`, `DeliveriesSettle`.
  Fairness and `ENABLED` are out of the prover's reach.

## Not modelled

- Web UI and CLI: they keep no state the server depends on.
- Runtime adapters and the deep probe: parsing, rendering and calls of docker or systemctl;
  their outcomes are choices of the modelled steps.
- Cryptography: a check passes or fails.
- Schema migrations: SQL run once at start. Metrics, static files, base path, middleware: no
  decision depends on them.
- Server and sidecar commands: flags, wiring and shutdown. Scheduled copies of the
  database file: names and disk errors. The listing, filtering and export of audit events.
- `PruneTerminalRollouts`, which the program declares and never calls, and the removal of a
  node while a rollout names it.

## Plan

Every safety property and every refinement that a run checks is stated by a theorem. What is left
are the parts under "Not modelled", and the liveness properties, which stay with the runs.
