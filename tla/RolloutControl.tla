-------------------------- MODULE RolloutControl --------------------------
(***************************************************************************)
(* Rollouts on the server: the orchestrator's reconcile loop and the HTTP   *)
(* handlers that create, pause, resume and abort rollouts share the         *)
(* rollouts table; jobs run on nodes and change what heartbeats report.     *)
(*                                                                         *)
(* Nothing serialises the two kinds of writers.  A reconcile pass lists the *)
(* newest rollouts, steps each snapshot (creating jobs as it goes) and then *)
(* writes the result back; a handler reads a rollout, changes its copy and writes  *)
(* it back.  UpdateRollout replaces the row whatever it holds by then.      *)
(* List, step, write, read are separate actions here; a server crash may    *)
(* come between any two of them.                                            *)
(*                                                                         *)
(* Jobs are coarser than in JobStore: pending and claimed are "active",     *)
(* and the lease may run out at any moment.  Time is abstracted to events:  *)
(* a dispatched job's health deadline passes, a scheduled start arrives.    *)
(***************************************************************************)
EXTENDS RolloutEngine

CONSTANTS
  Values,       \* provider/model pairs a node can be configured with
  InitialValue, \* what every node runs before the first rollout
  Specs,        \* rollout specs that operators ask for, by node
  Probed,       \* nodes whose config path a deep probe has found
  Handlers,     \* concurrent HTTP requests of operators
  MaxRollouts,  \* bound on rollouts created
  MaxJobs,      \* bound on jobs created
  MaxActions,   \* bound on operator requests and server faults
  ListLimit,    \* MaxRolloutListLimit: how many rollouts a pass looks at
  Faults        \* what goes wrong in a run: "outage", "unwritten", "crash", "lease", "silence"

\* What a request may ask for; a batch size of 0 stands for one left out or below 1.
RolloutSpec ==
  [nodes : Seq(Nodes), batchSize : Nat, live : BOOLEAN, autoRollback : BOOLEAN,
   allowOverlap : BOOLEAN, start : {"now", "later", "out of range"}, target : Values]

ASSUME ControlConstants ==
  /\ InitialValue \in Values
  /\ \A spec \in Specs : spec \in RolloutSpec
  /\ Probed \subseteq Nodes
  /\ {MaxRollouts, MaxJobs, MaxActions} \subseteq Nat
  /\ ListLimit \in Nat \ {0}
  /\ Faults \subseteq {"outage", "unwritten", "crash", "lease", "silence"}

VARIABLES
  rollouts,     \* the rollouts table, oldest first
  jobs,         \* the jobs table, oldest first; identifiers are positions
  config,       \* what is configured on each node
  reported,     \* what each node's last heartbeat said
  online,       \* nodes whose last heartbeat is fresh
  due,          \* jobs whose health deadline has passed
  begun,        \* rollouts whose StartAt has arrived
  orch,         \* the orchestrator's pass: what is left of its list, and a write
  http,         \* the handlers' copies of what they read
  actions       \* operator requests and server faults so far

store == <<rollouts, jobs>>
world == <<config, reported, online, due, begun>>
vars == <<rollouts, jobs, config, reported, online, due, begun, orch, http, actions>>

None == [pc |-> "none"]
NoBackup == [known |-> FALSE, value |-> InitialValue]

JobIDs == 1..MaxJobs

Rollout ==
  [state : RolloutStates, live : BOOLEAN, autoRollback : BOOLEAN, allowOverlap : BOOLEAN,
   target : Values, batches : Seq([nodes : Seq(Nodes), state : BatchStates]),
   prog : [Nodes -> [state : NodeStates, job : 0..MaxJobs, rollback : 0..MaxJobs]],
   failing : SUBSET Nodes]

\* value is what a live job writes; backup is the copy an apply's result names.
Job ==
  [kind : {"apply", "rollback"}, node : Nodes, rollout : 1..MaxRollouts, live : BOOLEAN,
   value : Values, status : {"active", "completed", "failed"}, ran : BOOLEAN,
   backup : [known : BOOLEAN, value : Values]]

TypeOK ==
  /\ rollouts \in Seq(Rollout) /\ Len(rollouts) <= MaxRollouts
  /\ jobs \in Seq(Job) /\ Len(jobs) <= MaxJobs
  /\ config \in [Nodes -> Values]
  /\ reported \in [Nodes -> Values]
  /\ online \subseteq Nodes
  /\ due \subseteq JobIDs
  /\ begun \subseteq 1..MaxRollouts
  /\ orch.pc \in {"idle", "step", "write"}
  /\ \A h \in Handlers : http[h].pc \in {"none", "create", "update"}
  /\ actions \in 0..MaxActions

Idle == [pc |-> "idle"]

Init ==
  /\ rollouts = <<>>
  /\ jobs = <<>>
  /\ config = [n \in Nodes |-> InitialValue]
  /\ reported = config
  /\ online = Nodes
  /\ due = {}
  /\ begun = {}
  /\ orch = Idle
  /\ http = [h \in Handlers |-> None]
  /\ actions = 0

-----------------------------------------------------------------------------
(* Operators' requests *)

TargetNodes(ro) == UNION {ToSet(ro.batches[k].nodes) : k \in DOMAIN ro.batches}

NonTerminal == {r \in DOMAIN rollouts : ~terminal(rollouts[r].state)}

\* ListActiveRolloutConflicts
Conflicts(nodes) == {r \in NonTerminal : TargetNodes(rollouts[r]) \cap nodes # {}}

\* The first occurrence of each node, in order.
uniqueTrimmedStrings(nodes) ==
  Pick(nodes, {i \in DOMAIN nodes : \A j \in 1..i - 1 : nodes[j] # nodes[i]})

normalizeRolloutSpec(spec) ==
  [spec EXCEPT !.batchSize = IF @ = 0 THEN 1 ELSE @, !.nodes = uniqueTrimmedStrings(@)]

\* A start may be a little in the past, and at most so far ahead.
validateRolloutStartAt(start) == start # "out of range"

validateRolloutSpec(spec) == ValidateRolloutSpec(spec) /\ validateRolloutStartAt(spec.start)

\* createRollout up to the overlap check: nothing is reserved by the check.
CreateCheck(h, asked) ==
  LET spec == normalizeRolloutSpec(asked) IN
  /\ http[h].pc = "none"
  /\ actions < MaxActions
  /\ validateRolloutSpec(spec)
  /\ spec.allowOverlap \/ Conflicts(ToSet(spec.nodes)) = {}
  /\ http' = [http EXCEPT ![h] = [pc |-> "create", spec |-> spec]]
  /\ actions' = actions + 1
  /\ UNCHANGED <<store, world, orch>>

rolloutStartsInFuture(spec) == spec.start = "later"

NewRollout(spec) ==
  [state |-> IF rolloutStartsInFuture(spec) THEN "scheduled" ELSE "pending",
   live |-> spec.live, autoRollback |-> spec.autoRollback,
   allowOverlap |-> spec.allowOverlap, target |-> spec.target,
   batches |-> PlanBatches(spec.nodes, spec.batchSize),
   prog |-> [n \in Nodes |-> NoProgress],
   failing |-> {}]

\* The rest of createRollout: CreateRollout with the planned batches.
CreateRollout(h) ==
  /\ http[h].pc = "create"
  /\ Len(rollouts) < MaxRollouts
  /\ rollouts' = Append(rollouts, NewRollout(http[h].spec))
  /\ begun' = IF rolloutStartsInFuture(http[h].spec) THEN begun ELSE begun \cup {Len(rollouts) + 1}
  /\ http' = [http EXCEPT ![h] = None]
  /\ UNCHANGED <<jobs, config, reported, online, due, orch, actions>>

GetRollout(r) == rollouts[r]

\* rolloutAction up to the copy it changes.
ActionRead(h, r, action) ==
  /\ http[h].pc = "none"
  /\ actions < MaxActions
  /\ http' = [http EXCEPT ![h] = [pc |-> "update", id |-> r,
                                  ro |-> OperatorAction(action, GetRollout(r))]]
  /\ actions' = actions + 1
  /\ UNCHANGED <<store, world, orch>>

\* rolloutAction's UpdateRollout of the copy it changed.
ActionWrite(h) ==
  /\ http[h].pc = "update"
  /\ rollouts' = [rollouts EXCEPT ![http[h].id] = http[h].ro]
  /\ http' = [http EXCEPT ![h] = None]
  /\ UNCHANGED <<jobs, world, orch, actions>>

-----------------------------------------------------------------------------
(* The orchestrator *)

\* A page of ListRollouts from the start: copies, newest first, ended ones included.
ListRollouts(limit) ==
  [i \in 1..Min({limit, Len(rollouts)}) |->
     [id |-> Len(rollouts) + 1 - i, ro |-> rollouts[Len(rollouts) + 1 - i]]]

\* ReconcileOnce takes one page.
ReconcileList ==
  /\ orch.pc = "idle"
  /\ orch' = [pc |-> "step", list |-> ListRollouts(ListLimit)]
  /\ UNCHANGED <<store, world, http, actions>>

ActiveJob(n, kind) ==
  \E j \in DOMAIN jobs : jobs[j].node = n /\ jobs[j].kind = kind /\ jobs[j].status = "active"

\* ListRollbackBackups of a node: settled applies whose result names a backup.
Backups(n) == {j \in DOMAIN jobs : /\ jobs[j].node = n
                                   /\ jobs[j].kind = "apply"
                                   /\ jobs[j].status # "active"
                                   /\ jobs[j].backup.known}

\* What the store knows of the nodes: their last heartbeats.
ListNodes == [n \in Nodes |-> [value |-> reported[n], fresh |-> n \in online]]

\* nodeRuntimeMatchesTarget
Matching(ro) == {n \in Nodes : ListNodes[n].value = ro.target}

\* Whether the node's recent jobs have a deep probe that found the config path.
latestActualSnapshotFromStore(n) == n \in Probed

\* Nodes for which createSignedConfigApplyJob gets through: the config path is
\* known and no other apply holds the lock.
Dispatchable == {n \in Nodes : latestActualSnapshotFromStore(n) /\ ~ActiveJob(n, "apply")}

\* Nodes for which DispatchRollback gets through.
Restorable == {n \in Nodes : Backups(n) # {} /\ ~ActiveJob(n, "rollback")}

\* What the engine's collaborators answer for rollout r.  For the nodes in lost
\* the store answers with an error.
World(r, ro, lost) ==
  [future |-> r \notin begun,
   dispatchable |-> Dispatchable \ lost,
   restorable |-> Restorable \ lost,
   unreadable |-> lost,
   offline |-> {n \in Nodes : ~ListNodes[n].fresh},
   completed |-> {j \in DOMAIN jobs : jobs[j].status = "completed"},
   failed |-> {j \in DOMAIN jobs : jobs[j].status = "failed"},
   due |-> due,
   matching |-> Matching(ro),
   next |-> Len(jobs)]

\* createSignedConfigApplyJob
ApplyJob(r, ro, n) ==
  [kind |-> "apply", node |-> n, rollout |-> r, live |-> ro.live, value |-> ro.target,
   status |-> "active", ran |-> FALSE, backup |-> NoBackup]

\* DispatchRollback: a live rollback to the newest backup of the node.
RollbackJob(r, n) ==
  [kind |-> "rollback", node |-> n, rollout |-> r, live |-> TRUE,
   value |-> jobs[Max(Backups(n))].backup.value,
   status |-> "active", ran |-> FALSE, backup |-> NoBackup]

NewJobs(r, ro, out) ==
  [i \in DOMAIN out.apply |-> ApplyJob(r, ro, out.apply[i])]
    \o [i \in DOMAIN out.rollback |-> RollbackJob(r, out.rollback[i])]

\* One turn of ReconcileOnce's loop up to UpdateRollout.  A running rollout
\* always has a new UpdatedAt, so only paused and still scheduled ones are equal
\* to their snapshot and skipped.
ReconcileStep ==
  /\ orch.pc = "step"
  /\ orch.list # <<>>
  /\ \E lost \in IF "outage" \in Faults THEN SUBSET Nodes ELSE {{}} :
       LET r == Head(orch.list).id
           ro == Head(orch.list).ro
           out == Step(ro, World(r, ro, lost))
           made == NewJobs(r, ro, out)
       IN  /\ Len(jobs) + Len(made) <= MaxJobs
           /\ jobs' = jobs \o made
           /\ orch' = IF out.ro = ro /\ ro.state # "running"
                      THEN [orch EXCEPT !.list = Tail(@)]
                      ELSE [pc |-> "write", list |-> Tail(orch.list), id |-> r, ro |-> out.ro]
  /\ UNCHANGED <<rollouts, world, http, actions>>

ReconcileWrite ==
  /\ orch.pc = "write"
  /\ rollouts' = [rollouts EXCEPT ![orch.id] = orch.ro]
  /\ orch' = [pc |-> "step", list |-> orch.list]
  /\ UNCHANGED <<jobs, world, http, actions>>

ReconcileDone ==
  /\ orch.pc = "step"
  /\ orch.list = <<>>
  /\ orch' = Idle
  /\ UNCHANGED <<store, world, http, actions>>

\* UpdateRollout failed: the pass ends, the jobs it made stay.
ReconcileFails ==
  /\ "unwritten" \in Faults
  /\ actions < MaxActions
  /\ orch.pc = "write"
  /\ orch' = Idle
  /\ actions' = actions + 1
  /\ UNCHANGED <<store, world, http>>

\* The server process dies, and the pass and the requests in flight with it.
Crash ==
  /\ "crash" \in Faults
  /\ actions < MaxActions
  /\ orch.pc # "idle" \/ \E h \in Handlers : http[h] # None
  /\ orch' = Idle
  /\ http' = [h \in Handlers |-> None]
  /\ actions' = actions + 1
  /\ UNCHANGED <<store, world>>

-----------------------------------------------------------------------------
(* Nodes *)

\* The node's sidecar runs one job at a time, oldest first, each once.  An older
\* job that never ran was claimed by a request whose answer got lost, or by a
\* sidecar that died: nobody will run it any more.
NextToRun(j) ==
  /\ ~jobs[j].ran
  /\ \A i \in DOMAIN jobs : jobs[i].node = jobs[j].node /\ jobs[i].ran => i < j

\* The status a reported outcome leaves: an expired job stays failed.
Settled(j, status) == IF jobs[j].status = "active" THEN status ELSE jobs[j].status

\* The job succeeds: a live one has changed the config, an apply kept a backup.
JobSucceeds(j) ==
  /\ NextToRun(j)
  /\ config' = IF jobs[j].live THEN [config EXCEPT ![jobs[j].node] = jobs[j].value] ELSE config
  /\ jobs' = [jobs EXCEPT ![j].ran = TRUE, ![j].status = Settled(j, "completed"),
       ![j].backup = IF jobs[j].kind = "apply"
                     THEN [known |-> TRUE, value |-> config[jobs[j].node]] ELSE NoBackup]
  /\ UNCHANGED <<rollouts, reported, online, due, begun, orch, http, actions>>

\* The job fails, before or after its backup was written.  A live job has put
\* the old config back, unless the restore failed as well.
JobFails(j) ==
  /\ NextToRun(j)
  /\ \E backup, stuck \in BOOLEAN :
       /\ stuck => backup /\ jobs[j].live
       /\ jobs' = [jobs EXCEPT ![j].ran = TRUE, ![j].status = Settled(j, "failed"),
            ![j].backup = IF jobs[j].kind = "apply" /\ backup
                          THEN [known |-> TRUE, value |-> config[jobs[j].node]] ELSE NoBackup]
       /\ config' = IF stuck THEN [config EXCEPT ![jobs[j].node] = jobs[j].value] ELSE config
  /\ UNCHANGED <<rollouts, reported, online, due, begun, orch, http, actions>>

\* The sidecar dies after it did a job's work, before it reported anything.
JobUnreported(j) ==
  /\ "lease" \in Faults
  /\ NextToRun(j)
  /\ jobs' = [jobs EXCEPT ![j].ran = TRUE]
  /\ config' = IF jobs[j].live THEN [config EXCEPT ![jobs[j].node] = jobs[j].value] ELSE config
  /\ UNCHANGED <<rollouts, reported, online, due, begun, orch, http, actions>>

\* The claim's lease runs out; the sidecar may still be at work, or gone.
JobExpires(j) ==
  /\ "lease" \in Faults
  /\ jobs[j].status = "active"
  /\ jobs' = [jobs EXCEPT ![j].status = "failed"]
  /\ UNCHANGED <<rollouts, world, orch, http, actions>>

DeadlinePasses(j) ==
  /\ jobs[j].kind = "apply"
  /\ j \notin due
  /\ due' = due \cup {j}
  /\ UNCHANGED <<store, config, reported, online, begun, orch, http, actions>>

StartArrives(r) ==
  /\ r \notin begun
  /\ begun' = begun \cup {r}
  /\ UNCHANGED <<store, config, reported, online, due, orch, http, actions>>

Heartbeat(n) ==
  /\ reported' = [reported EXCEPT ![n] = config[n]]
  /\ online' = online \cup {n}
  /\ UNCHANGED <<store, config, due, begun, orch, http, actions>>

GoesStale(n) ==
  /\ "silence" \in Faults
  /\ n \in online
  /\ online' = online \ {n}
  /\ UNCHANGED <<store, config, reported, due, begun, orch, http, actions>>

Requests ==
  \E h \in Handlers :
    \/ \E spec \in Specs : CreateCheck(h, spec)
    \/ CreateRollout(h)
    \/ \E r \in DOMAIN rollouts, action \in {"pause", "resume", "abort"} : ActionRead(h, r, action)
    \/ ActionWrite(h)

Reconcile == ReconcileList \/ ReconcileStep \/ ReconcileWrite \/ ReconcileDone

Environment ==
  \/ \E j \in DOMAIN jobs :
       \/ JobSucceeds(j) \/ JobFails(j) \/ JobUnreported(j) \/ JobExpires(j)
       \/ DeadlinePasses(j)
  \/ \E r \in DOMAIN rollouts : StartArrives(r)
  \/ \E n \in Nodes : Heartbeat(n) \/ GoesStale(n)

Next == Requests \/ Reconcile \/ ReconcileFails \/ Crash \/ Environment

Spec == Init /\ [][Next]_vars

\* The orchestrator's ticker, the clock and the requests in flight keep going; how
\* often the server fails is bounded by MaxActions.  The second conjunct is
\* WF_vars(Reconcile): some part of a pass is always possible, so ENABLED need not
\* be computed (MaxJobs must not bind).
FairSpec ==
  /\ Spec
  /\ []<><<Reconcile>>_vars
  /\ \A h \in Handlers : WF_vars(CreateRollout(h) \/ ActionWrite(h))
  /\ \A j \in JobIDs : WF_vars(j \in DOMAIN jobs /\ DeadlinePasses(j))
  /\ \A r \in 1..MaxRollouts : WF_vars(r \in DOMAIN rollouts /\ StartArrives(r))

-----------------------------------------------------------------------------
(* Properties *)

JobsOf(r) == {j \in DOMAIN jobs : jobs[j].rollout = r}

ApplyJobs(r, n) ==
  {j \in JobsOf(r) : jobs[j].kind = "apply" /\ jobs[j].node = n}

Applied(r, n) == \E j \in ApplyJobs(r, n) : jobs[j].status = "completed"

\* The canary goes first: a node of a later batch is never given a job before
\* every node of the earlier batches has completed one for this rollout, however
\* passes, requests, crashes and stale writes interleave.
CanaryFirst ==
  \A r \in DOMAIN rollouts : \A k \in DOMAIN rollouts[r].batches :
    (\E n \in ToSet(rollouts[r].batches[k].nodes) : ApplyJobs(r, n) # {}) =>
      \A e \in 1..(k - 1) : \A n \in ToSet(rollouts[r].batches[e].nodes) : Applied(r, n)

\* What a rollout row shows is well formed and true of its own jobs, even when it
\* was written from a stale snapshot: the job of a node is an apply for this
\* rollout and node, its rollback job a rollback, a node shown as succeeded has a
\* job that did, and a rollout shown as completed one on every target node.
ProgressIsReal ==
  /\ TypeOK
  /\ \A r \in DOMAIN rollouts, n \in Nodes :
       LET p == rollouts[r].prog[n]
       IN  /\ p.job # 0 => p.job \in ApplyJobs(r, n)
           /\ p.state = "succeeded" => jobs[p.job].status = "completed"
           /\ p.rollback # 0 => /\ jobs[p.rollback].kind = "rollback"
                                /\ jobs[p.rollback].rollout = r
                                /\ jobs[p.rollback].node = n
  /\ \A r \in DOMAIN rollouts :
       rollouts[r].state = "completed" => \A n \in TargetNodes(rollouts[r]) : Applied(r, n)

\* The snapshots of r that a pass and the requests in flight will write back.
Copies(r) ==
  {http[h].ro : h \in {g \in Handlers : http[g].pc = "update" /\ http[g].id = r}}
    \cup (IF orch.pc = "write" /\ orch.id = r THEN {orch.ro} ELSE {})
    \cup (IF orch.pc = "idle" THEN {}
          ELSE {e.ro : e \in {f \in ToSet(orch.list) : f.id = r}})

RollbackJobs(r, n) == {j \in JobsOf(r) : jobs[j].kind = "rollback" /\ jobs[j].node = n}

\* The rollback is on record: in the row, and in every snapshot that may replace it.
RolledBack(r, n) ==
  /\ rollouts[r].prog[n].rollback # 0
  /\ \A ro \in Copies(r) : ro.prog[n].rollback # 0

\* Auto-rollback undoes what the rollout did: a rollback job is made only for a
\* node on which an apply of the same rollout completed, and never again once a
\* rollback of that node is on record, however often the rollout is resumed and
\* fails and whatever fails or overlaps.  A rollback that a crash, a failed
\* UpdateRollout or an older snapshot took off the record may be made again.
RollbackOnceOnRecord ==
  [][\A r \in DOMAIN rollouts, n \in Nodes :
       /\ RollbackJobs(r, n)' # RollbackJobs(r, n) => Applied(r, n) /\ ~RolledBack(r, n)
       /\ RolledBack(r, n) => RolledBack(r, n)']_vars

\* What operators see of a rollout.
PhaseOf(r) == IF r \in DOMAIN rollouts THEN rollouts[r].state ELSE "none"

DraftsOf(r) == {ro.state : ro \in Copies(r)}

Lifecycle ==
  INSTANCE RolloutLifecycle WITH
    Rollouts <- 1..MaxRollouts,
    phase <- [r \in 1..MaxRollouts |-> PhaseOf(r)],
    drafts <- [r \in 1..MaxRollouts |-> DraftsOf(r)],
    work <- [r \in 1..MaxRollouts |-> JobsOf(r)]

\* Whatever overlaps, crashes or stays unwritten, what a request or a pass writes
\* is one move of the documented lifecycle away from a state the row showed when it
\* was read, and a pass makes jobs only for a rollout it read as under way.
RefinesRolloutLifecycle == Lifecycle!LSpec

\* Among the rollouts that a pass looks at.
InPage(r) == Len(rollouts) < r + ListLimit

\* A rollout never hangs: whatever nodes, requests and the server do, it is paused
\* or finished in the end (the health deadline catches nodes that never answer),
\* unless newer rollouts push it off the page that ReconcileOnce reads.
RolloutsSettle ==
  \A r \in 1..MaxRollouts :
    (PhaseOf(r) \in {"pending", "scheduled", "running"} /\ InPage(r))
      ~> (PhaseOf(r) \in {"paused", "completed", "aborted"} \/ ~InPage(r))

Aborted(r) == rollouts[r].state = "aborted" /\ \A ro \in Copies(r) : ro.state = "aborted"

\* An abort can be lost only to a snapshot taken before it (ReconcileOnce and
\* rolloutAction write whole rows back without comparing): once no older snapshot
\* is held, no pass, action, failed write or crash revives the rollout.
AbortYieldsOnlyToOlderReads ==
  [][\A r \in DOMAIN rollouts : Aborted(r) => Aborted(r)']_vars
=============================================================================
