------------------------ MODULE JobClientsProofs ------------------------
(***************************************************************************)
(* Proofs about the two sides that work with the job store, each for any     *)
(* value of its constants.                                                  *)
(*                                                                         *)
(* NodeJobs, the handlers of operators: every step is a call of the store or *)
(* leaves the store alone, so NodeJobs implements JobStore and inherits what *)
(* is proved of it; on top of that, no job outlives its node and no job is   *)
(* counted twice.                                                           *)
(*                                                                         *)
(* JobDelivery, the sidecars and the network: whatever requests and answers  *)
(* get lost and whoever restarts, no job is executed twice, the store shows   *)
(* what the sidecar found, and no outcome is silently forgotten; and they      *)
(* implement JobStore, too.                                                 *)
(***************************************************************************)
EXTENDS NodeJobs, JobDelivery, JobStoreProofs, SequenceTheorems

-----------------------------------------------------------------------------
(* Operators: NodeJobs *)

NodeRows == [there : BOOLEAN, labels : SUBSET LabelKeys, maintenance : BOOLEAN]

\* What a request's handler remembers between its store calls.
CreateOps == [step : {"create"}, node : Nodes, type : JobTypes, key : Keys \cup {NoKey}]
BulkOps == [step : {"bulk"}, todo : SUBSET Nodes]
ReadOps == [step : {"read"}, todo : SUBSET Nodes, labels : SUBSET LabelKeys]
MergeOps == [step : {"merge"}, todo : SUBSET Nodes, labels : SUBSET LabelKeys,
             node : Nodes, merged : SUBSET LabelKeys]
SettleOps == [step : {"settle"}, id : JobIDs, res : JobResult]
Ops == {Idle} \cup CreateOps \cup BulkOps \cup ReadOps \cup MergeOps \cup SettleOps

\* Handlers remember only nodes, jobs and results there are; a node that is gone has
\* neither labels nor the flag.
HandlersOK ==
  /\ nodes \in [Nodes -> NodeRows]
  /\ \A n \in Nodes : ~nodes[n].there => nodes[n] = Gone
  /\ ops \in [Requests -> Ops]

JobsHaveNodes ==
  \A id \in JobIDs : jobs[id].status \notin {"absent", "deleted"} => nodes[jobs[id].node].there

\* A job that was counted has a verdict it will not lose; one whose timeout was
\* observed stays timed out until its row goes.
CountsInv ==
  /\ timedOut \subseteq JobIDs
  /\ counted \in [JobIDs -> {0, 1}]
  /\ \A id \in timedOut : PhaseOf(jobs[id]) \in {"lapsed", "deleted"}
  /\ \A id \in JobIDs :
       counted[id] = 1 => id \in timedOut \/ PhaseOf(jobs[id]) \in {"completed", "rejected", "deleted"}

\* The inductive invariant.
NodeJobsInv == IndInv /\ HandlersOK /\ JobsHaveNodes /\ CountsInv

-----------------------------------------------------------------------------
(* Handlers *)

\* The step of a request says what it remembers.
LEMMA OpsByStep ==
  ASSUME NEW op \in Ops
  PROVE  /\ op.step = "create" => op \in CreateOps
         /\ op.step = "bulk" => op \in BulkOps
         /\ op.step = "read" => op \in ReadOps
         /\ op.step = "merge" => op \in MergeOps
         /\ op.step = "settle" => op \in SettleOps
         /\ op.step \in {"idle", "create", "bulk", "read", "merge", "settle"}
<1>1. CASE op = Idle
  BY <1>1 DEF Idle
<1>2. CASE op \in CreateOps
  BY <1>2 DEF CreateOps
<1>3. CASE op \in BulkOps
  BY <1>3 DEF BulkOps
<1>4. CASE op \in ReadOps
  BY <1>4 DEF ReadOps
<1>5. CASE op \in MergeOps
  BY <1>5 DEF MergeOps
<1>6. CASE op \in SettleOps
  BY <1>6 DEF SettleOps
<1> QED
  BY <1>1, <1>2, <1>3, <1>4, <1>5, <1>6 DEF Ops

LEMMA BecomeOps ==
  ASSUME HandlersOK, NEW r \in Requests, NEW op \in Ops, Become(r, op)
  PROVE  ops' \in [Requests -> Ops]
BY DEF HandlersOK, Become

\* Steps that change what a node's row says.
LEMMA NodeRowsKept ==
  ASSUME HandlersOK, NEW n \in Nodes,
         \/ \E labels \in SUBSET LabelKeys : SetNodeLabels(n, labels)
         \/ \E on \in BOOLEAN : SetNodeMaintenance(n, on)
         \/ nodes' = [nodes EXCEPT ![n] = Gone]
         \/ nodes' = [nodes EXCEPT ![n].there = TRUE]
  PROVE  /\ nodes' \in [Nodes -> NodeRows]
         /\ \A m \in Nodes : ~nodes'[m].there => nodes'[m] = Gone
<1>0. nodes \in [Nodes -> NodeRows] /\ \A m \in Nodes : ~nodes[m].there => nodes[m] = Gone
  BY DEF HandlersOK
<1>1. ASSUME NEW labels \in SUBSET LabelKeys, SetNodeLabels(n, labels)
      PROVE  /\ nodes' \in [Nodes -> NodeRows]
             /\ \A m \in Nodes : ~nodes'[m].there => nodes'[m] = Gone
  BY <1>0, <1>1 DEF SetNodeLabels, NodeExists, NodeRows
<1>2. ASSUME NEW on \in BOOLEAN, SetNodeMaintenance(n, on)
      PROVE  /\ nodes' \in [Nodes -> NodeRows]
             /\ \A m \in Nodes : ~nodes'[m].there => nodes'[m] = Gone
  BY <1>0, <1>2 DEF SetNodeMaintenance, NodeExists, NodeRows
<1>3. CASE nodes' = [nodes EXCEPT ![n] = Gone]
  BY <1>0, <1>3 DEF Gone, NodeRows
<1>4. CASE nodes' = [nodes EXCEPT ![n].there = TRUE]
  BY <1>0, <1>4 DEF NodeRows
<1> QED
  BY <1>1, <1>2, <1>3, <1>4

LEMMA HandlersInit == NInit => HandlersOK
<1> SUFFICES ASSUME NInit PROVE HandlersOK
  OBVIOUS
<1>1. [Gone EXCEPT !.there = TRUE] \in NodeRows /\ [Gone EXCEPT !.there = TRUE].there
  BY DEF Gone, NodeRows
<1>2. nodes = [n \in Nodes |-> [Gone EXCEPT !.there = TRUE]] /\ ops = [r \in Requests |-> Idle]
  BY DEF NInit
<1> QED
  BY <1>1, <1>2 DEF HandlersOK, Ops

LEMMA HandlersNext == HandlersOK /\ [NNext]_nvars => HandlersOK'
<1> SUFFICES ASSUME HandlersOK, [NNext]_nvars PROVE HandlersOK'
  OBVIOUS
<1>0. nodes \in [Nodes -> NodeRows] /\ ops \in [Requests -> Ops]
  BY DEF HandlersOK
<1>1. ASSUME NEW n \in Nodes, NEW labels \in SUBSET LabelKeys, setNodeLabels(n, labels)
      PROVE  HandlersOK'
  BY <1>0, <1>1, NodeRowsKept DEF setNodeLabels, HandlersOK
<1>2. ASSUME NEW n \in Nodes, NEW on \in BOOLEAN, setNodeMaintenance(n, on) PROVE HandlersOK'
  BY <1>0, <1>2, NodeRowsKept DEF setNodeMaintenance, HandlersOK
<1>3. ASSUME NEW n \in Nodes, deleteNode(n) \/ enrollAgain(n) PROVE HandlersOK'
  BY <1>0, <1>3, NodeRowsKept DEF deleteNode, enrollAgain, HandlersOK
<1>4. ASSUME NEW n \in Nodes, listNodeJobs(n) \/ claimNextJob(n) \/ pruneAndTick PROVE HandlersOK'
  BY <1>4 DEF listNodeJobs, claimNextJob, pruneAndTick, HandlersOK
<1>5. ASSUME NEW r \in Requests, NEW n \in Nodes,
             \/ createNodeJob(r, n) \/ createRestartJob(r, n) \/ createRollbackJob(r, n)
             \/ \E key \in Keys : createConfigApplyJob(r, n, key)
      PROVE  HandlersOK'
  <2>1. nodes' = nodes
    BY <1>5 DEF createNodeJob, createRestartJob, createRollbackJob, createConfigApplyJob
  <2>2. \A type \in JobTypes, key \in Keys \cup {NoKey} : Prepared(n, type, key) \in Ops
    BY DEF Prepared, Ops, CreateOps
  <2>3. \E op \in Ops : Become(r, op)
    BY <1>5, <2>2 DEF createNodeJob, createRestartJob, createRollbackJob, createConfigApplyJob, JobTypes
  <2> QED
    BY <2>1, <2>3, BecomeOps DEF HandlersOK
<1>6. ASSUME NEW r \in Requests, finishCreate(r) \/ settleJob(r) PROVE HandlersOK'
  <2>1. nodes' = nodes /\ Become(r, Idle) /\ Idle \in Ops
    BY <1>6 DEF finishCreate, settleJob, Ops
  <2> QED
    BY <2>1, BecomeOps DEF HandlersOK
<1>7. ASSUME NEW r \in Requests, NEW ids \in SUBSET Nodes, NEW selector \in SUBSET LabelKeys,
             NEW include \in BOOLEAN,
             \/ bulkJobs(r, ids, selector, include)
             \/ \E labels \in SUBSET LabelKeys : bulkNodeLabels(r, ids, selector, include, labels)
      PROVE  HandlersOK'
  <2> DEFINE targets == resolveTargetNodes(ids, selector, include)
  <2>1. targets \in SUBSET Nodes
    BY DEF resolveTargetNodes, ListNodesFiltered
  <2>2. CASE bulkJobs(r, ids, selector, include)
    <3>1. [step |-> "bulk", todo |-> targets] \in Ops
      BY <2>1 DEF Ops, BulkOps
    <3>2. Become(r, [step |-> "bulk", todo |-> targets]) /\ nodes' = nodes
      BY <2>2 DEF bulkJobs
    <3> QED
      BY <3>1, <3>2, BecomeOps DEF HandlersOK
  <2>3. ASSUME NEW labels \in SUBSET LabelKeys, bulkNodeLabels(r, ids, selector, include, labels)
        PROVE  HandlersOK'
    <3>1. [step |-> "read", todo |-> targets, labels |-> labels] \in Ops
      BY <2>1 DEF Ops, ReadOps
    <3>2. Become(r, [step |-> "read", todo |-> targets, labels |-> labels]) /\ nodes' = nodes
      BY <2>3 DEF bulkNodeLabels
    <3> QED
      BY <3>1, <3>2, BecomeOps DEF HandlersOK
  <2> QED
    BY <1>7, <2>2, <2>3
<1>8. ASSUME NEW r \in Requests, NEW n \in Nodes, bulkJob(r, n) PROVE HandlersOK'
  <2>1. ops[r] \in BulkOps
    BY <1>0, <1>8, OpsByStep DEF bulkJob
  <2>2. [ops[r] EXCEPT !.todo = @ \ {n}] \in BulkOps
    BY <2>1 DEF BulkOps
  <2>3. \E op \in Ops : Become(r, op)
    BY <1>8, <2>2 DEF bulkJob, Ops
  <2> QED
    BY <1>8, <2>3, BecomeOps DEF HandlersOK, bulkJob
<1>9. ASSUME NEW r \in Requests, NEW n \in Nodes, bulkReadLabels(r, n) PROVE HandlersOK'
  <2> DEFINE op == [step |-> "merge", todo |-> ops[r].todo \ {n}, labels |-> ops[r].labels,
                    node |-> n, merged |-> nodes[n].labels \cup ops[r].labels]
  <2>1. ops[r] \in ReadOps /\ nodes[n] \in NodeRows
    BY <1>0, <1>9, OpsByStep DEF bulkReadLabels
  <2>2. op \in Ops /\ Idle \in Ops
    BY <2>1 DEF ReadOps, NodeRows, MergeOps, Ops
  <2>3. (Become(r, op) \/ Become(r, Idle)) /\ nodes' = nodes
    BY <1>9 DEF bulkReadLabels
  <2> HIDE DEF op
  <2> QED
    BY <2>2, <2>3, BecomeOps DEF HandlersOK
<1>10. ASSUME NEW r \in Requests, bulkWriteLabels(r) PROVE HandlersOK'
  <2> DEFINE op == [step |-> "read", todo |-> ops[r].todo, labels |-> ops[r].labels]
  <2>1. ops[r] \in MergeOps
    BY <1>0, <1>10, OpsByStep DEF bulkWriteLabels
  <2>2. op \in Ops /\ Idle \in Ops
    BY <2>1 DEF MergeOps, ReadOps, Ops
  <2>3. /\ Become(r, op) \/ Become(r, Idle)
        /\ SetNodeLabels(ops[r].node, ops[r].merged) \/ nodes' = nodes
    BY <1>10 DEF bulkWriteLabels
  <2>4. ops[r].node \in Nodes /\ ops[r].merged \in SUBSET LabelKeys
    BY <2>1 DEF MergeOps
  <2>5. /\ nodes' \in [Nodes -> NodeRows]
        /\ \A m \in Nodes : ~nodes'[m].there => nodes'[m] = Gone
    BY <2>3, <2>4, NodeRowsKept DEF HandlersOK
  <2> HIDE DEF op
  <2>6. ops' \in [Requests -> Ops]
    BY <2>2, <2>3, BecomeOps
  <2> QED
    BY <2>5, <2>6 DEF HandlersOK
<1>11. ASSUME NEW r \in Requests, NEW id \in JobIDs, NEW res \in JobResult,
              submitJobResult(r, id, res)
       PROVE  HandlersOK'
  <2>1. [step |-> "settle", id |-> id, res |-> res] \in Ops
    BY DEF Ops, SettleOps
  <2>2. Become(r, [step |-> "settle", id |-> id, res |-> res]) /\ nodes' = nodes
    BY <1>11 DEF submitJobResult
  <2> QED
    BY <2>1, <2>2, BecomeOps DEF HandlersOK
<1>12. CASE pruneAndTick
  BY <1>12 DEF pruneAndTick, HandlersOK
<1>13. CASE UNCHANGED nvars
  BY <1>13 DEF nvars, HandlersOK
<1> QED
  BY <1>1, <1>2, <1>3, <1>4, <1>5, <1>6, <1>7, <1>8, <1>9, <1>10, <1>11, <1>12, <1>13 DEF NNext

-----------------------------------------------------------------------------
(* Every handler step is a store call or leaves the store alone *)

LEMMA CreateIsStoreStep ==
  ASSUME NEW n \in Nodes, NEW type \in JobTypes, NEW key \in Keys \cup {NoKey},
         CreateNodeJob(n, type, key)
  PROVE  [Next]_vars
<1>1. CASE \E id \in JobIDs : CreateJob(id, n, type, key)
  BY <1>1 DEF Next
<1>2. CASE CreateJobConflict(n, type, key)
  BY <1>2 DEF Next
<1>3. CASE UNCHANGED store
  BY <1>3 DEF store, vars
<1> QED
  BY <1>1, <1>2, <1>3 DEF CreateNodeJob

LEMMA HandlersCallStore == HandlersOK /\ [NNext]_nvars => [Next]_vars
<1> SUFFICES ASSUME HandlersOK, [NNext]_nvars PROVE [Next]_vars
  OBVIOUS
<1>0. ops \in [Requests -> Ops]
  BY DEF HandlersOK
<1>1. ASSUME NEW n \in Nodes,
             \/ \E labels \in SUBSET LabelKeys : setNodeLabels(n, labels)
             \/ \E on \in BOOLEAN : setNodeMaintenance(n, on)
             \/ enrollAgain(n)
      PROVE  [Next]_vars
  BY <1>1 DEF setNodeLabels, setNodeMaintenance, enrollAgain, store, vars
<1>2. ASSUME NEW n \in Nodes, deleteNode(n) \/ listNodeJobs(n) \/ claimNextJob(n)
      PROVE  [Next]_vars
  BY <1>2 DEF deleteNode, listNodeJobs, claimNextJob, Next
<1>3. ASSUME NEW r \in Requests, NEW n \in Nodes,
             \/ createNodeJob(r, n) \/ createRestartJob(r, n) \/ createRollbackJob(r, n)
             \/ \E key \in Keys : createConfigApplyJob(r, n, key)
      PROVE  [Next]_vars
  BY <1>3 DEF createNodeJob, createRestartJob, createRollbackJob, createConfigApplyJob,
              findRollbackBackup, Next, store, vars
<1>4. ASSUME NEW r \in Requests, finishCreate(r) PROVE [Next]_vars
  <2>1. ops[r] \in CreateOps
    BY <1>0, <1>4, OpsByStep DEF finishCreate
  <2>2. ops[r].node \in Nodes /\ ops[r].type \in JobTypes /\ ops[r].key \in Keys \cup {NoKey}
    BY <2>1 DEF CreateOps
  <2> QED
    BY <1>4, <2>2, CreateIsStoreStep DEF finishCreate
<1>5. ASSUME NEW r \in Requests, NEW ids, NEW selector, NEW include, NEW labels,
             \/ bulkJobs(r, ids, selector, include)
             \/ bulkNodeLabels(r, ids, selector, include, labels)
             \/ bulkWriteLabels(r)
      PROVE  [Next]_vars
  BY <1>5 DEF bulkJobs, bulkNodeLabels, bulkWriteLabels, store, vars
<1>6. ASSUME NEW r \in Requests, NEW n \in Nodes, bulkJob(r, n) \/ bulkReadLabels(r, n)
      PROVE  [Next]_vars
  <2>1. CASE bulkJob(r, n)
    BY <2>1, CreateIsStoreStep DEF bulkJob, JobTypes
  <2>2. CASE bulkReadLabels(r, n)
    BY <2>2 DEF bulkReadLabels, store, vars
  <2> QED
    BY <1>6, <2>1, <2>2
<1>7. ASSUME NEW r \in Requests, NEW id \in JobIDs, NEW res \in JobResult,
             submitJobResult(r, id, res)
      PROVE  [Next]_vars
  BY <1>7 DEF submitJobResult, store, vars
<1>8. ASSUME NEW r \in Requests, settleJob(r) PROVE [Next]_vars
  <2>1. ops[r] \in SettleOps
    BY <1>0, <1>8, OpsByStep DEF settleJob
  <2>2. ops[r].id \in JobIDs /\ ops[r].res \in JobResult
    BY <2>1 DEF SettleOps
  <2> QED
    BY <1>8, <2>2 DEF settleJob, Next
<1>9. CASE pruneAndTick
  BY <1>9 DEF pruneAndTick, Next
<1>10. CASE UNCHANGED nvars
  BY <1>10 DEF nvars, vars
<1> QED
  BY <1>1, <1>2, <1>3, <1>4, <1>5, <1>6, <1>7, <1>8, <1>9, <1>10 DEF NNext

\* Handlers that make several store calls, with anything in between, do to the jobs
\* table only what single store calls do.
THEOREM NodeJobsImplementsStore == NSpec => Spec
<1>1. NInit => Init
  BY DEF NInit
<1>2. HandlersOK /\ [NNext]_nvars => [Next]_vars
  BY HandlersCallStore
<1> QED
  BY <1>1, <1>2, HandlersInit, HandlersNext, PTL DEF NSpec, Spec

\* The job lock holds under the handlers: no two conflicting jobs of a node are active.
THEOREM NodeJobsExclusion == NSpec => []OneActivePerLock
BY NodeJobsImplementsStore, StoreExclusion, PTL

\* The rows stay consistent under the handlers.
THEOREM NodeJobsRowsConsistent == NSpec => []RowsConsistent
BY NodeJobsImplementsStore, StoreRowsConsistent, PTL

\* The handlers over the store keep the promise of JobLifecycle.
THEOREM NodeJobsRefinesLifecycle == NSpec => RefinesLifecycle
BY NodeJobsImplementsStore, StoreRefinesLifecycle, PTL

-----------------------------------------------------------------------------
(* Jobs and their nodes *)

\* A store call that is no creation keeps a job's node and brings no job back.
NodeKept(a, b) ==
  b.status \notin {"absent", "deleted"} =>
    a.status \notin {"absent", "deleted"} /\ b.node = a.node

LEMMA RowsKeepNode ==
  ASSUME NEW job \in Job, NEW t \in Nat, NEW res \in JobResult
  PROVE  /\ NodeKept(job, ExpireRow(job, t))
         /\ job.status = "pending" => NodeKept(job, ClaimRow(job, t))
         /\ NodeKept(job, SubmitRow(job, res, t))
         /\ NodeKept(job, NoRow("deleted"))
<1>1. NodeKept(job, ExpireRow(job, t))
  BY DEF NodeKept, ExpireRow, Job
<1>2. job.status = "pending" => NodeKept(job, ClaimRow(job, t))
  BY DEF NodeKept, ClaimRow, Job
<1>3. /\ CompleteRow(job, res.payload, t).node = job.node
      /\ FailRow(job, res.payload, t).node = job.node
      /\ LateRow(job, res.payload, t).node = job.node
  BY DEF CompleteRow, FailRow, LateRow, Job
<1>4. NodeKept(job, SubmitRow(job, res, t))
  BY <1>3, SubmitRowCases DEF NodeKept, IsJobClaimTimeout
<1>5. NodeKept(job, NoRow("deleted"))
  BY NoRowType DEF NodeKept, Statuses
<1> QED
  BY <1>1, <1>2, <1>4, <1>5

\* Every store call but a creation.
LEMMA QuietKeepsNodes ==
  ASSUME IndInv,
         \/ \E n \in Nodes : ClaimNextJob(n)
         \/ ListNodeJobs
         \/ \E id \in JobIDs, res \in JobResult : SubmitResult(id, res)
         \/ PruneTerminalJobs
         \/ \E n \in Nodes : DeleteNode(n)
         \/ Tick
         \/ UNCHANGED jobs
  PROVE  \A id \in JobIDs : NodeKept(jobs[id], jobs'[id])
<1>0. jobs \in [JobIDs -> Job] /\ now \in Nat /\ TypeOK /\ RowsConsistent /\ OneActivePerLock
  BY DEF IndInv, TypeOK
<1>a. PICK res0 \in JobResult : TRUE
  <2>1. [status |-> "failed", payload |-> NoResult] \in JobResult
    BY DEF JobResult
  <2> QED
    BY <2>1
<1> DEFINE ex == expireClaimedJobs(jobs, now)
<1>1. /\ ex \in [JobIDs -> Job]
      /\ \A id \in JobIDs : jobStatusIsActive(ex[id]) => ex[id] = jobs[id]
      /\ \A id \in JobIDs : NodeKept(jobs[id], ex[id])
  <2>1. \A id \in JobIDs : ex[id] = ExpireRow(jobs[id], now)
    BY DEF expireClaimedJobs
  <2> QED
    BY <1>0, <1>a, <2>1, ExpiredRows, RowsKeepNode
<1>2. \A id \in JobIDs : NodeKept(jobs[id], jobs[id])
  BY DEF NodeKept
<1> HIDE DEF ex
<1>3. ASSUME NEW n \in Nodes, ClaimNextJob(n)
      PROVE  \A id \in JobIDs : NodeKept(jobs[id], jobs'[id])
  <2>1. PICK i \in OldestPending(ex, n) : jobs' = [ex EXCEPT ![i] = ClaimRow(ex[i], now)]
    BY <1>3 DEF ClaimNextJob, ex
  <2>2. i \in JobIDs /\ ex[i].status = "pending" /\ ex[i] = jobs[i]
    BY <1>1, <2>1 DEF OldestPending, jobStatusIsActive
  <2>3. NodeKept(jobs[i], ClaimRow(ex[i], now))
    BY <1>0, <1>a, <2>2, RowsKeepNode
  <2> QED
    BY <1>1, <2>1, <2>2, <2>3
<1>4. CASE ListNodeJobs
  BY <1>1, <1>4 DEF ListNodeJobs, ex
<1>5. ASSUME NEW i \in JobIDs, NEW res \in JobResult, SubmitResult(i, res)
      PROVE  \A id \in JobIDs : NodeKept(jobs[id], jobs'[id])
  BY <1>0, <1>2, <1>5, RowsKeepNode DEF SubmitResult
<1>6. CASE PruneTerminalJobs
  BY <1>0, <1>2, <1>6, <1>a, RowsKeepNode DEF PruneTerminalJobs
<1>7. ASSUME NEW n \in Nodes, DeleteNode(n)
      PROVE  \A id \in JobIDs : NodeKept(jobs[id], jobs'[id])
  BY <1>0, <1>2, <1>7, <1>a, RowsKeepNode DEF DeleteNode
<1>8. CASE Tick \/ UNCHANGED jobs
  BY <1>2, <1>8 DEF Tick
<1> QED
  BY <1>3, <1>4, <1>5, <1>6, <1>7, <1>8

\* A step that keeps the jobs' nodes and removes no node leaves no orphan.
LEMMA KeepsJobsHaveNodes ==
  ASSUME IndInv, IndInv', HandlersOK, JobsHaveNodes,
         \A id \in JobIDs : NodeKept(jobs[id], jobs'[id]),
         \A n \in Nodes : nodes[n].there => nodes'[n].there
  PROVE  JobsHaveNodes'
<1>1. \A id \in JobIDs : jobs[id].node \in Nodes
  BY DEF IndInv, TypeOK, Job
<1> QED
  BY <1>1 DEF JobsHaveNodes, NodeKept

\* A creation is for a node that is there, or fails.
LEMMA CreateHasNode ==
  ASSUME IndInv, IndInv', HandlersOK, JobsHaveNodes, UNCHANGED nodes,
         NEW n \in Nodes, NEW type \in JobTypes, NEW key \in Keys \cup {NoKey},
         CreateNodeJob(n, type, key)
  PROVE  JobsHaveNodes'
<1>0. jobs \in [JobIDs -> Job] /\ now \in Nat /\ TypeOK /\ RowsConsistent /\ OneActivePerLock
  BY DEF IndInv, TypeOK
<1> DEFINE ex == expireClaimedJobs(jobs, now)
<1>1. ex \in [JobIDs -> Job] /\ \A id \in JobIDs : NodeKept(jobs[id], ex[id])
  <2>1. \A id \in JobIDs : ex[id] = ExpireRow(jobs[id], now)
    BY DEF expireClaimedJobs
  <2>2. [status |-> "failed", payload |-> NoResult] \in JobResult
    BY DEF JobResult
  <2> QED
    BY <1>0, <2>1, <2>2, ExpiredRows, RowsKeepNode
<1>2. \A id \in JobIDs : NodeKept(jobs[id], jobs[id])
  BY DEF NodeKept
<1> HIDE DEF ex
<1>3. ASSUME NEW i \in JobIDs, CreateJob(i, n, type, key), nodes[n].there PROVE JobsHaveNodes'
  <2>1. jobs' = [ex EXCEPT ![i] = NewJob(n, type, key, now)]
    BY <1>3 DEF CreateJob, ex
  <2>2. jobs'[i].node = n /\ \A id \in JobIDs \ {i} : jobs'[id] = ex[id]
    BY <1>1, <2>1 DEF NewJob
  <2>3. ASSUME NEW id \in JobIDs, id # i, jobs'[id].status \notin {"absent", "deleted"}
        PROVE  nodes'[jobs'[id].node].there
    BY <1>1, <2>2, <2>3 DEF NodeKept, JobsHaveNodes
  <2> QED
    BY <1>3, <2>2, <2>3 DEF JobsHaveNodes
<1>4. CASE CreateJobConflict(n, type, key)
  <2>1. jobs' = jobs \/ jobs' = ex
    BY <1>4 DEF CreateJobConflict, ex
  <2> QED
    BY <1>1, <1>2, <2>1, KeepsJobsHaveNodes
<1>5. CASE UNCHANGED store
  BY <1>2, <1>5, KeepsJobsHaveNodes DEF store
<1> QED
  BY <1>3, <1>4, <1>5 DEF CreateNodeJob, NodeExists

LEMMA OrphanNext == NodeJobsInv /\ [NNext]_nvars => JobsHaveNodes'
<1> SUFFICES ASSUME NodeJobsInv, [NNext]_nvars PROVE JobsHaveNodes'
  OBVIOUS
<1>0. /\ IndInv /\ HandlersOK /\ JobsHaveNodes
      /\ nodes \in [Nodes -> NodeRows] /\ ops \in [Requests -> Ops]
  BY DEF NodeJobsInv, HandlersOK
<1>1. IndInv'
  BY <1>0, HandlersCallStore, NextInv
<1>2. ASSUME NEW n \in Nodes,
             \/ \E labels \in SUBSET LabelKeys : setNodeLabels(n, labels)
             \/ \E on \in BOOLEAN : setNodeMaintenance(n, on)
             \/ enrollAgain(n)
      PROVE  JobsHaveNodes'
  <2>1. UNCHANGED jobs
    BY <1>2 DEF setNodeLabels, setNodeMaintenance, enrollAgain, store
  <2>2. \A m \in Nodes : nodes[m].there => nodes'[m].there
    BY <1>0, <1>2 DEF setNodeLabels, setNodeMaintenance, enrollAgain, SetNodeLabels,
                      SetNodeMaintenance, NodeExists, NodeRows
  <2> QED
    BY <1>0, <1>1, <2>1, <2>2, QuietKeepsNodes, KeepsJobsHaveNodes
<1>3. ASSUME NEW n \in Nodes, deleteNode(n) PROVE JobsHaveNodes'
  <2>1. nodes' = [nodes EXCEPT ![n] = Gone] /\ DeleteNode(n)
    BY <1>3 DEF deleteNode
  <2>2. \A id \in JobIDs : NodeKept(jobs[id], jobs'[id])
    BY <1>0, <2>1, QuietKeepsNodes
  <2>3. \A id \in JobIDs : jobs'[id].status \notin {"absent", "deleted"} => jobs'[id].node # n
    <3>1. NoRow("deleted").status = "deleted"
      BY NoRowType DEF Statuses
    <3> QED
      BY <2>1, <3>1 DEF DeleteNode
  <2>4. \A m \in Nodes \ {n} : nodes'[m] = nodes[m]
    BY <1>0, <2>1
  <2>5. \A id \in JobIDs : jobs[id].node \in Nodes
    BY <1>0 DEF IndInv, TypeOK, Job
  <2> QED
    BY <1>0, <2>2, <2>3, <2>4, <2>5 DEF JobsHaveNodes, NodeKept
<1>4. ASSUME NEW n \in Nodes, listNodeJobs(n) \/ claimNextJob(n) PROVE JobsHaveNodes'
  BY <1>0, <1>1, <1>4, QuietKeepsNodes, KeepsJobsHaveNodes DEF listNodeJobs, claimNextJob
<1>5. ASSUME NEW r \in Requests, NEW n \in Nodes,
             \/ createNodeJob(r, n) \/ createRestartJob(r, n) \/ createRollbackJob(r, n)
             \/ \E key \in Keys : createConfigApplyJob(r, n, key)
      PROVE  JobsHaveNodes'
  <2>1. (ListNodeJobs \/ UNCHANGED jobs) /\ UNCHANGED nodes
    BY <1>5 DEF createNodeJob, createRestartJob, createRollbackJob, createConfigApplyJob,
                findRollbackBackup, store
  <2> QED
    BY <1>0, <1>1, <2>1, QuietKeepsNodes, KeepsJobsHaveNodes
<1>6. ASSUME NEW r \in Requests, finishCreate(r) PROVE JobsHaveNodes'
  <2>1. ops[r] \in CreateOps
    BY <1>0, <1>6, OpsByStep DEF finishCreate
  <2>2. ops[r].node \in Nodes /\ ops[r].type \in JobTypes /\ ops[r].key \in Keys \cup {NoKey}
    BY <2>1 DEF CreateOps
  <2> QED
    BY <1>0, <1>1, <1>6, <2>2, CreateHasNode DEF finishCreate
<1>7. ASSUME NEW r \in Requests, NEW n \in Nodes, bulkJob(r, n) PROVE JobsHaveNodes'
  BY <1>0, <1>1, <1>7, CreateHasNode DEF bulkJob, JobTypes
<1>8. ASSUME NEW r \in Requests, NEW n, NEW ids, NEW selector, NEW include, NEW labels, NEW id,
             NEW res,
             \/ bulkJobs(r, ids, selector, include)
             \/ bulkNodeLabels(r, ids, selector, include, labels)
             \/ bulkReadLabels(r, n)
             \/ submitJobResult(r, id, res)
      PROVE  JobsHaveNodes'
  <2>1. UNCHANGED jobs /\ UNCHANGED nodes
    BY <1>8 DEF bulkJobs, bulkNodeLabels, bulkReadLabels, submitJobResult, store
  <2> QED
    BY <1>0, <1>1, <2>1, QuietKeepsNodes, KeepsJobsHaveNodes
<1>9. ASSUME NEW r \in Requests, bulkWriteLabels(r) PROVE JobsHaveNodes'
  <2>1. UNCHANGED jobs
    BY <1>9 DEF bulkWriteLabels, store
  <2>2. ops[r] \in MergeOps
    BY <1>0, <1>9, OpsByStep DEF bulkWriteLabels
  <2>3. ops[r].node \in Nodes
    BY <2>2 DEF MergeOps
  <2>4. \A m \in Nodes : nodes[m].there => nodes'[m].there
    BY <1>0, <1>9, <2>3 DEF bulkWriteLabels, SetNodeLabels, NodeRows
  <2> QED
    BY <1>0, <1>1, <2>1, <2>4, QuietKeepsNodes, KeepsJobsHaveNodes
<1>10. ASSUME NEW r \in Requests, settleJob(r) PROVE JobsHaveNodes'
  <2>1. ops[r] \in SettleOps
    BY <1>0, <1>10, OpsByStep DEF settleJob
  <2>2. ops[r].id \in JobIDs /\ ops[r].res \in JobResult
    BY <2>1 DEF SettleOps
  <2> QED
    BY <1>0, <1>1, <1>10, <2>2, QuietKeepsNodes, KeepsJobsHaveNodes DEF settleJob
<1>11. CASE pruneAndTick
  BY <1>0, <1>1, <1>11, QuietKeepsNodes, KeepsJobsHaveNodes DEF pruneAndTick
<1>12. CASE UNCHANGED nvars
  BY <1>0, <1>1, <1>12, QuietKeepsNodes, KeepsJobsHaveNodes DEF nvars
<1> QED
  BY <1>2, <1>3, <1>4, <1>5, <1>6, <1>7, <1>8, <1>9, <1>10, <1>11, <1>12 DEF NNext

-----------------------------------------------------------------------------
(* Counting *)

\* What JobLifecycle leaves of a verdict after one more step.
LEMMA VerdictsStay ==
  ASSUME IndInv, [Next]_vars, NEW id \in JobIDs
  PROVE  /\ PhaseOf(jobs[id]) \in {"lapsed", "deleted"}
              => PhaseOf(jobs'[id]) \in {"lapsed", "deleted"}
         /\ PhaseOf(jobs[id]) \in {"completed", "rejected", "deleted"}
              => PhaseOf(jobs'[id]) \in {"completed", "rejected", "deleted"}
<1>1. RowStep(jobs[id], jobs'[id])
  BY NextRowSteps
<1>2. CASE PhaseOf(jobs'[id]) = PhaseOf(jobs[id])
  BY <1>2
<1>3. CASE <<PhaseOf(jobs[id]), PhaseOf(jobs'[id])>> \in Lifecycle!Moves
  BY <1>3 DEF Lifecycle!Moves
<1>4. \/ PhaseOf(jobs'[id]) = PhaseOf(jobs[id])
      \/ <<PhaseOf(jobs[id]), PhaseOf(jobs'[id])>> \in Lifecycle!Moves
  BY <1>1, Zenon DEF RowStep
<1> QED
  BY <1>2, <1>3, <1>4

LEMMA PhaseOfTimeout ==
  ASSUME NEW job \in Job
  PROVE  /\ IsJobClaimTimeout(job) <=> PhaseOf(job) = "lapsed"
         /\ job.status = "claimed" => PhaseOf(job) = "claimed"
BY DEF PhaseOf, IsJobClaimTimeout, Job, Statuses

LEMMA CountType ==
  ASSUME CountsInv, NEW ids \in SUBSET JobIDs, \A id \in ids : counted[id] = 0, Count(ids)
  PROVE  /\ counted' \in [JobIDs -> {0, 1}]
         /\ \A id \in JobIDs : counted'[id] = 1 => counted[id] = 1 \/ id \in ids
<1>1. ASSUME NEW id \in JobIDs
      PROVE  /\ counted'[id] \in {0, 1}
             /\ counted'[id] = 1 => counted[id] = 1 \/ id \in ids
  <2>1. counted[id] \in {0, 1}
    BY DEF CountsInv
  <2>2. CASE id \in ids
    BY <2>2 DEF Count
  <2>3. CASE id \notin ids
    <3>1. counted'[id] = counted[id] + 0
      BY <2>3 DEF Count
    <3> QED
      BY <2>1, <3>1
  <2> QED
    BY <2>2, <2>3
<1>2. counted' = [id \in JobIDs |-> counted[id] + IF id \in ids THEN 1 ELSE 0]
  BY DEF Count
<1>3. DOMAIN counted' = JobIDs /\ counted' = [id \in JobIDs |-> counted'[id]]
  BY <1>2
<1> QED
  BY <1>1, <1>3

\* A store step that counts nothing keeps the counters true.
LEMMA CountsKept ==
  ASSUME IndInv, [Next]_vars, CountsInv, UNCHANGED counters
  PROVE  CountsInv'
BY VerdictsStay DEF CountsInv, counters

\* Timed-out jobs are observed: counted the first time only.
LEMMA ObserveCounts ==
  ASSUME IndInv, [Next]_vars, CountsInv, NEW ids \in SUBSET JobIDs,
         \A id \in ids : PhaseOf(jobs'[id]) = "lapsed",
         observeTimedOutJobs(ids)
  PROVE  CountsInv'
<1>1. \A id \in ids \ timedOut : counted[id] = 0
  BY VerdictsStay DEF CountsInv
<1>2. Count(ids \ timedOut) /\ timedOut' = timedOut \cup ids
  BY DEF observeTimedOutJobs
<1>3. /\ counted' \in [JobIDs -> {0, 1}]
      /\ \A id \in JobIDs : counted'[id] = 1 => counted[id] = 1 \/ id \in ids \ timedOut
  BY <1>1, <1>2, CountType
<1> QED
  BY <1>2, <1>3, VerdictsStay DEF CountsInv

LEMMA CountsNext == NodeJobsInv /\ [NNext]_nvars => CountsInv'
<1> SUFFICES ASSUME NodeJobsInv, [NNext]_nvars PROVE CountsInv'
  OBVIOUS
<1>0. /\ IndInv /\ HandlersOK /\ CountsInv /\ [Next]_vars
      /\ jobs \in [JobIDs -> Job] /\ ops \in [Requests -> Ops]
  BY HandlersCallStore DEF NodeJobsInv, HandlersOK, IndInv, TypeOK
<1>1. jobs' \in [JobIDs -> Job]
  BY <1>0, NextInv DEF IndInv, TypeOK
<1>2. CASE UNCHANGED counters
  BY <1>0, <1>2, CountsKept
<1>3. ASSUME NEW n \in Nodes, listNodeJobs(n) PROVE CountsInv'
  <2> DEFINE seen == {id \in JobIDs : jobs'[id].node = n /\ IsJobClaimTimeout(jobs'[id])}
  <2>1. \A id \in seen : PhaseOf(jobs'[id]) = "lapsed"
    BY <1>1, PhaseOfTimeout
  <2>2. observeTimedOutJobs(seen)
    BY <1>3 DEF listNodeJobs
  <2>3. seen \in SUBSET JobIDs
    OBVIOUS
  <2> HIDE DEF seen
  <2> QED
    BY <1>0, <2>1, <2>2, <2>3, ObserveCounts
<1>4. ASSUME NEW r \in Requests, NEW id \in JobIDs, NEW res \in JobResult,
             submitJobResult(r, id, res)
      PROVE  CountsInv'
  <2> DEFINE seen == {i \in {id} : IsJobClaimTimeout(jobs[i])}
  <2>1. jobs' = jobs
    BY <1>4 DEF submitJobResult, store
  <2>2. \A i \in seen : PhaseOf(jobs'[i]) = "lapsed"
    BY <1>0, <2>1, PhaseOfTimeout
  <2>3. observeTimedOutJobs(seen)
    BY <1>4 DEF submitJobResult
  <2>4. seen \in SUBSET JobIDs
    OBVIOUS
  <2> HIDE DEF seen
  <2> QED
    BY <1>0, <2>2, <2>3, <2>4, ObserveCounts
<1>5. ASSUME NEW r \in Requests, settleJob(r) PROVE CountsInv'
  <2> DEFINE id == ops[r].id
             ids == {i \in {id} : jobs[i].status = "claimed"}
  <2>1. ops[r] \in SettleOps
    BY <1>0, <1>5, OpsByStep DEF settleJob
  <2>2. id \in JobIDs /\ ops[r].res \in JobResult
    BY <2>1 DEF SettleOps
  <2>3. Count(ids) /\ timedOut' = timedOut /\ SubmitResult(id, ops[r].res)
    BY <1>5 DEF settleJob
  <2>4. \A i \in ids : i \in JobIDs /\ counted[i] = 0
    <3>1. \A i \in ids : i \in JobIDs /\ PhaseOf(jobs[i]) = "claimed"
      BY <1>0, <2>2, PhaseOfTimeout
    <3> QED
      BY <1>0, <3>1 DEF CountsInv
  <2>5. /\ counted' \in [JobIDs -> {0, 1}]
        /\ \A i \in JobIDs : counted'[i] = 1 => counted[i] = 1 \/ i \in ids
    <3>1. ids \in SUBSET JobIDs
      BY <2>2
    <3> HIDE DEF ids
    <3> QED
      BY <1>0, <2>3, <2>4, <3>1, CountType
  <2>6. \A i \in ids : PhaseOf(jobs'[i]) \in {"completed", "rejected"}
    <3> SUFFICES ASSUME jobs[id].status = "claimed"
                 PROVE  PhaseOf(jobs'[id]) \in {"completed", "rejected"}
      OBVIOUS
    <3> DEFINE job == jobs[id]
               p == ops[r].res.payload
    <3>1. jobs'[id] = SubmitRow(job, ops[r].res, now) /\ job \in Job
      BY <1>0, <2>2, <2>3 DEF SubmitResult
    <3>2. /\ CompleteRow(job, p, now).status = "completed"
          /\ FailRow(job, p, now).status = "failed" /\ FailRow(job, p, now).error = "reported"
      BY <3>1 DEF CompleteRow, FailRow, Job
    <3>3. ops[r].res.status \in {"completed", "failed"}
      BY <2>2 DEF JobResult
    <3>4. jobs'[id] = CompleteRow(job, p, now) \/ jobs'[id] = FailRow(job, p, now)
      <4>1. ~IsJobClaimTimeout(job)
        BY DEF IsJobClaimTimeout
      <4> QED
        BY <3>1, <3>3, <4>1 DEF SubmitRow
    <3> QED
      BY <3>2, <3>4 DEF PhaseOf, IsJobClaimTimeout
  <2> QED
    BY <1>0, <2>3, <2>5, <2>6, VerdictsStay DEF CountsInv
<1>6. \/ UNCHANGED counters
      \/ \E n \in Nodes : listNodeJobs(n)
      \/ \E r \in Requests : settleJob(r)
      \/ \E r \in Requests, id \in JobIDs, res \in JobResult : submitJobResult(r, id, res)
  <2>1. CASE UNCHANGED nvars
    BY <2>1 DEF nvars, counters
  <2>2. CASE pruneAndTick
    BY <2>2 DEF pruneAndTick
  <2>3. ASSUME NEW n \in Nodes,
               \/ \E labels \in SUBSET LabelKeys : setNodeLabels(n, labels)
               \/ \E on \in BOOLEAN : setNodeMaintenance(n, on)
               \/ deleteNode(n) \/ enrollAgain(n) \/ claimNextJob(n)
        PROVE  UNCHANGED counters
    BY <2>3 DEF setNodeLabels, setNodeMaintenance, deleteNode, enrollAgain, claimNextJob
  <2>4. ASSUME NEW r \in Requests,
               \/ \E n \in Nodes :
                    \/ createNodeJob(r, n) \/ createRestartJob(r, n) \/ createRollbackJob(r, n)
                    \/ \E key \in Keys : createConfigApplyJob(r, n, key)
               \/ finishCreate(r)
               \/ \E ids \in SUBSET Nodes, selector \in SUBSET LabelKeys, include \in BOOLEAN :
                    \/ bulkJobs(r, ids, selector, include)
                    \/ \E labels \in SUBSET LabelKeys :
                         bulkNodeLabels(r, ids, selector, include, labels)
               \/ \E n \in Nodes : bulkJob(r, n) \/ bulkReadLabels(r, n)
               \/ bulkWriteLabels(r)
        PROVE  UNCHANGED counters
    BY <2>4 DEF createNodeJob, createRestartJob, createRollbackJob, createConfigApplyJob,
                finishCreate, bulkJobs, bulkNodeLabels, bulkJob, bulkReadLabels, bulkWriteLabels
  <2> QED
    BY <2>1, <2>2, <2>3, <2>4 DEF NNext
<1> QED
  BY <1>2, <1>3, <1>4, <1>5, <1>6

-----------------------------------------------------------------------------
(* Theorems *)

LEMMA NodeJobsInvariant == NSpec => []NodeJobsInv
<1>1. NInit => NodeJobsInv
  <2> SUFFICES ASSUME NInit PROVE NodeJobsInv
    OBVIOUS
  <2>1. IndInv /\ HandlersOK
    BY InitInv, HandlersInit DEF NInit
  <2>2. \A id \in JobIDs : jobs[id] = NoRow("absent")
    BY DEF NInit, Init
  <2>3. JobsHaveNodes
    BY <2>2, NoRowType DEF JobsHaveNodes, Statuses
  <2>4. CountsInv
    BY DEF NInit, CountsInv
  <2> QED
    BY <2>1, <2>3, <2>4 DEF NodeJobsInv
<1>2. NodeJobsInv /\ [NNext]_nvars => NodeJobsInv'
  BY HandlersCallStore, HandlersNext, NextInv, OrphanNext, CountsNext DEF NodeJobsInv
<1> QED
  BY <1>1, <1>2, PTL DEF NSpec

\* createNodeJob, bulkJobs, deleteNode: a removal between a handler's look at the node
\* and its creation of the job leaves no job, no labels and no flag of a node that is
\* gone, for any number of requests in progress.
THEOREM NodeJobsNoOrphans == NSpec => []NoOrphanJobs
<1>1. NodeJobsInv => NoOrphanJobs
  <2> SUFFICES ASSUME NodeJobsInv PROVE NoOrphanJobs
    OBVIOUS
  <2>1. /\ TypeOK /\ HandlersOK /\ JobsHaveNodes /\ CountsInv
    BY DEF NodeJobsInv, IndInv
  <2>2. \A n \in Nodes : /\ nodes[n].there \in BOOLEAN
                         /\ nodes[n].labels \subseteq LabelKeys /\ nodes[n].maintenance \in BOOLEAN
                         /\ ~nodes[n].there => nodes[n] = Gone
    BY <2>1 DEF HandlersOK, NodeRows
  <2>3. \A r \in Requests : ops[r].step \in {"idle", "create", "bulk", "read", "merge", "settle"}
    BY <2>1, OpsByStep DEF HandlersOK
  <2>4. timedOut \subseteq JobIDs /\ counted \in [JobIDs -> Nat]
    BY <2>1 DEF CountsInv
  <2> QED
    BY <2>1, <2>2, <2>3, <2>4 DEF NoOrphanJobs, NodeJobsTypeOK, JobsHaveNodes, NodeExists
<1> QED
  BY <1>1, NodeJobsInvariant, PTL

\* submitJobResult, observeTimedOutJobs: whoever sees a timeout first, and however
\* results are repeated, late or settled in between, a job is counted at most once.
THEOREM NodeJobsCountedOnce == NSpec => []CountedOnce
<1>1. NodeJobsInv => CountedOnce
  <2> SUFFICES ASSUME NodeJobsInv, NEW id \in JobIDs PROVE counted[id] <= 1
    BY DEF CountedOnce
  <2>1. counted[id] = 0 \/ counted[id] = 1
    BY DEF NodeJobsInv, CountsInv
  <2> QED
    BY <2>1
<1> QED
  BY <1>1, NodeJobsInvariant, PTL

-----------------------------------------------------------------------------
(* Sidecars: JobDelivery *)

\* A job of this row still waits for its sidecar's word.
Owes(job) == job.status = "claimed" \/ job.error = "timeout"

\* What the store shows of a job is what its execution told.
ShowsTold(job, outcome) ==
  /\ job.status = "completed" => outcome.status = "completed"
  /\ job.error = "reported" => outcome.status = "failed"
  /\ job.result # NoResult => job.result = outcome.payload

\* An entry of the sequence is about this job.
InSeq(id, s) == \E i \in 1..Len(s) : s[i].job = id

\* Where a poller is determines what it holds; no two hold one job.
PollersInv ==
  \A n \in Nodes :
    /\ pc[n] # "retry" => todo[n] = <<>>
    /\ pc[n] \notin {"execute", "submit"} => cur[n] = {}
    /\ \A i, j \in cur[n] : i = j
    /\ \A m \in Nodes : m # n => cur[n] \cap cur[m] = {}

\* A job was executed once or never, a job in hand is executed exactly when its
\* poller has come to submit, and only executed jobs are buffered or in flight.
OutcomesInv ==
  \A id \in JobIDs :
    /\ runs[id] = IF told[id] = NoJob THEN 0 ELSE 1
    /\ jobs[id].status \in {"absent", "pending"} => told[id] = NoJob
    /\ id \in flying => told[id] # NoJob
    /\ \A n \in Nodes :
         /\ id \in cur[n] => /\ jobs[id].status \notin {"absent", "pending"}
                             /\ told[id] = NoJob <=> pc[n] = "execute"
         /\ InSeq(id, buffer[n]) \/ InSeq(id, todo[n]) => told[id] # NoJob

\* The inductive invariant.
DeliveryInv ==
  /\ IndInv /\ PollersInv /\ OutcomesInv /\ StoredAsTold /\ NothingForgotten

-----------------------------------------------------------------------------
(* Sequences of entries *)

LEMMA InSeqAppend ==
  ASSUME NEW s \in Seq(Entry), NEW e \in Entry, NEW id
  PROVE  /\ InSeq(id, Append(s, e)) <=> InSeq(id, s) \/ id = e.job
         /\ Append(s, e) \in Seq(Entry) /\ Len(Append(s, e)) = Len(s) + 1
<1>1. /\ Append(s, e) \in Seq(Entry)
      /\ Len(Append(s, e)) = Len(s) + 1
      /\ \A i \in 1..Len(s) : Append(s, e)[i] = s[i]
      /\ Append(s, e)[Len(s) + 1] = e
  BY AppendProperties
<1>2. Len(s) \in Nat
  BY LenProperties
<1>3. \A i \in 1..Len(s) + 1 : i \in 1..Len(s) \/ i = Len(s) + 1
  BY <1>2
<1>4. \A i \in 1..Len(s) : i \in 1..Len(s) + 1
  BY <1>2
<1>5. Len(s) + 1 \in 1..Len(s) + 1
  BY <1>2
<1>6. ASSUME InSeq(id, Append(s, e)) PROVE InSeq(id, s) \/ id = e.job
  <2>1. PICK i \in 1..Len(s) + 1 : Append(s, e)[i].job = id
    BY <1>1, <1>6 DEF InSeq
  <2> QED
    BY <1>1, <1>3, <2>1 DEF InSeq
<1>7. ASSUME InSeq(id, s) \/ id = e.job PROVE InSeq(id, Append(s, e))
  BY <1>1, <1>4, <1>5, <1>7 DEF InSeq
<1> QED
  BY <1>1, <1>6, <1>7

LEMMA InSeqTail ==
  ASSUME NEW s \in Seq(Entry), s # <<>>, NEW id
  PROVE  /\ InSeq(id, s) <=> InSeq(id, Tail(s)) \/ id = Head(s).job
         /\ Tail(s) \in Seq(Entry) /\ Len(Tail(s)) = Len(s) - 1 /\ Len(s) \in Nat \ {0}
         /\ Head(s) \in Entry
<1>1. /\ Head(s) \in Entry
      /\ Tail(s) \in Seq(Entry)
      /\ Len(Tail(s)) = Len(s) - 1
      /\ \A i \in 1..Len(Tail(s)) : Tail(s)[i] = s[i + 1]
  BY HeadTailProperties
<1>2. Len(s) \in Nat \ {0}
  BY EmptySeq
<1>3. Head(s) = s[1]
  BY <1>2
<1>4. ASSUME InSeq(id, s) PROVE InSeq(id, Tail(s)) \/ id = Head(s).job
  <2>1. PICK i \in 1..Len(s) : s[i].job = id
    BY <1>4 DEF InSeq
  <2>2. CASE i = 1
    BY <1>3, <2>1, <2>2
  <2>3. CASE i # 1
    <3>1. i - 1 \in 1..Len(Tail(s)) /\ (i - 1) + 1 = i
      BY <1>1, <1>2, <2>3
    <3>2. Tail(s)[i - 1] = s[i]
      BY <1>1, <3>1
    <3> QED
      BY <2>1, <3>1, <3>2 DEF InSeq
  <2> QED
    BY <2>2, <2>3
<1>5. ASSUME InSeq(id, Tail(s)) \/ id = Head(s).job PROVE InSeq(id, s)
  <2>1. CASE id = Head(s).job
    BY <1>2, <1>3, <2>1 DEF InSeq
  <2>2. CASE InSeq(id, Tail(s))
    <3>1. PICK i \in 1..Len(Tail(s)) : Tail(s)[i].job = id
      BY <2>2 DEF InSeq
    <3>2. i + 1 \in 1..Len(s) /\ s[i + 1].job = id
      BY <1>1, <1>2, <3>1
    <3> QED
      BY <3>2 DEF InSeq
  <2> QED
    BY <1>5, <2>1, <2>2
<1> QED
  BY <1>1, <1>2, <1>4, <1>5

LEMMA InSeqEmpty == \A id : ~InSeq(id, <<>>)
BY DEF InSeq

LEMMA InSeqJobs ==
  ASSUME NEW s \in Seq(Entry), NEW t \in Seq(Entry), NEW id
  PROVE  id \in {e.job : e \in ToSet(s) \cup ToSet(t)} <=> InSeq(id, s) \/ InSeq(id, t)
<1>1. DOMAIN s = 1..Len(s) /\ DOMAIN t = 1..Len(t)
  BY LenProperties
<1> QED
  BY <1>1 DEF ToSet, InSeq

\* What a sidecar holds, entry by entry, before and after a step.
LEMMA HeldIff ==
  ASSUME DeliveryTypeOK, NEW n \in Nodes, NEW id
  PROVE  id \in Held(n) <=> \/ InSeq(id, buffer[n]) \/ InSeq(id, todo[n])
                            \/ (pc[n] = "submit" /\ id \in cur[n])
<1>1. buffer[n] \in Seq(Entry) /\ todo[n] \in Seq(Entry)
  BY DEF DeliveryTypeOK
<1>2. id \in {e.job : e \in ToSet(buffer[n]) \cup ToSet(todo[n])}
        <=> InSeq(id, buffer[n]) \/ InSeq(id, todo[n])
  BY <1>1, InSeqJobs
<1> QED
  BY <1>2 DEF Held

LEMMA HeldIffAfter ==
  ASSUME DeliveryTypeOK', NEW n \in Nodes, NEW id
  PROVE  (id \in Held(n))' <=> \/ InSeq(id, buffer'[n]) \/ InSeq(id, todo'[n])
                               \/ (pc'[n] = "submit" /\ id \in cur'[n])
<1>1. buffer'[n] \in Seq(Entry) /\ todo'[n] \in Seq(Entry)
  BY DEF DeliveryTypeOK
<1>2. id \in {e.job : e \in ToSet(buffer'[n]) \cup ToSet(todo'[n])}
        <=> InSeq(id, buffer'[n]) \/ InSeq(id, todo'[n])
  BY <1>1, InSeqJobs
<1> QED
  BY <1>2 DEF Held

-----------------------------------------------------------------------------
(* Rows *)

\* A row changed without its sidecar's word: no job is queued again, no row begins
\* to wait that was not waiting or queued, and nothing new is shown.
RowKept(a, b) ==
  /\ b.status \in {"absent", "pending"} => a.status \in {"absent", "pending"}
  /\ Owes(b) => Owes(a) \/ a.status = "pending"
  /\ b.status = "completed" => a.status = "completed"
  /\ b.error = "reported" => a.error = "reported"
  /\ b.result # NoResult => b.result = a.result

LEMMA ExpireRowKept ==
  ASSUME NEW job \in Job, NEW t \in Nat
  PROVE  RowKept(job, ExpireRow(job, t))
BY DEF RowKept, Owes, ExpireRow, Job

LEMMA ClaimRowKept ==
  ASSUME NEW job \in Job, NEW t \in Nat, job.status = "pending"
  PROVE  RowKept(job, ClaimRow(job, t)) /\ ClaimRow(job, t).status = "claimed"
BY DEF RowKept, Owes, ClaimRow, Job

LEMMA NewRowKept ==
  ASSUME NEW job \in Job, NEW n, NEW type, NEW key, NEW t
  PROVE  /\ job.status = "absent" => RowKept(job, NewJob(n, type, key, t))
         /\ RowKept(job, NoRow("deleted"))
<1>1. job.status = "absent" => RowKept(job, NewJob(n, type, key, t))
  BY DEF RowKept, Owes, NewJob
<1>2. RowKept(job, NoRow("deleted"))
  BY DEF RowKept, Owes, NoRow, NewJob
<1> QED
  BY <1>1, <1>2

\* A submitted outcome: shown as told; whoever waited for it no longer does.
LEMMA SubmitRowTold ==
  ASSUME NEW job \in Job, NEW res \in JobResult, NEW t \in Nat \ {0}, RowOK(job),
         ShowsTold(job, res), job.status \notin {"absent", "pending"}
  PROVE  /\ ShowsTold(SubmitRow(job, res, t), res)
         /\ SubmitRow(job, res, t).status \notin {"absent", "pending"}
         /\ Owes(SubmitRow(job, res, t)) => Owes(job)
         /\ SubmitCode(job) = 200 => ~Owes(SubmitRow(job, res, t))
<1> DEFINE b == SubmitRow(job, res, t)
           p == res.payload
<1>1. CASE job.status = "claimed" /\ res.status = "completed" /\ b = CompleteRow(job, p, t)
  <2>1. b.status = "completed" /\ b.error = job.error /\ b.result = p
    BY <1>1 DEF CompleteRow, Job
  <2>2. job.error = "none"
    BY <1>1 DEF RowOK
  <2> QED
    BY <1>1, <2>1, <2>2 DEF ShowsTold, Owes
<1>2. CASE job.status = "claimed" /\ res.status = "failed" /\ b = FailRow(job, p, t)
  <2>1. b.status = "failed" /\ b.error = "reported" /\ b.result = p
    BY <1>2 DEF FailRow, Job
  <2> QED
    BY <1>2, <2>1 DEF ShowsTold, Owes
<1>3. CASE IsJobClaimTimeout(job) /\ b = LateRow(job, p, t)
  <2>1. b.status = "failed" /\ b.error = "late" /\ b.result = p
    BY <1>3 DEF LateRow, Job, IsJobClaimTimeout
  <2> QED
    BY <1>3, <2>1 DEF ShowsTold, Owes
<1>4. CASE job.status # "claimed" /\ ~IsJobClaimTimeout(job) /\ b = job
  <2>1. ~Owes(job)
    BY <1>4 DEF Owes, IsJobClaimTimeout, RowOK
  <2> QED
    BY <1>4, <2>1
<1>5. res.status \in {"completed", "failed"}
  BY DEF JobResult
<1>6. \/ job.status = "claimed" /\ res.status = "completed" /\ b = CompleteRow(job, p, t)
      \/ job.status = "claimed" /\ res.status = "failed" /\ b = FailRow(job, p, t)
      \/ IsJobClaimTimeout(job) /\ b = LateRow(job, p, t)
      \/ job.status # "claimed" /\ ~IsJobClaimTimeout(job) /\ b = job
  <2>1. CASE job.status = "claimed"
    <3>1. ~IsJobClaimTimeout(job)
      BY <2>1 DEF IsJobClaimTimeout
    <3> QED
      BY <1>5, <2>1, <3>1 DEF SubmitRow
  <2>2. CASE job.status # "claimed"
    BY <2>2 DEF SubmitRow
  <2> QED
    BY <2>1, <2>2
<1> QED
  BY <1>1, <1>2, <1>3, <1>4, <1>6

-----------------------------------------------------------------------------
(* What a step does to the jobs table, as the sidecars see it *)

StoreMoves ==
  /\ IndInv'
  /\ \A id \in JobIDs :
       /\ jobs'[id].status \in {"absent", "pending"} => jobs[id].status \in {"absent", "pending"}
       /\ told[id] # NoJob /\ Owes(jobs'[id]) => Owes(jobs[id])
       /\ ShowsTold(jobs'[id], told[id])

LEMMA StoreUnchanged ==
  ASSUME DeliveryInv, UNCHANGED <<jobs, now>>
  PROVE  StoreMoves
<1>1. IndInv'
  BY DEF DeliveryInv, IndInv, TypeOK, RowsConsistent, OneActivePerLock
<1> QED
  BY <1>1 DEF DeliveryInv, StoreMoves, StoredAsTold, ShowsTold

\* No store call but a submission moves a job that was executed, except to fail its
\* claim or to delete it.
LEMMA QuietMoves ==
  ASSUME DeliveryInv,
         \/ \E id \in JobIDs, n \in Nodes, type \in JobTypes, key \in Keys \cup {NoKey} :
              CreateJob(id, n, type, key)
         \/ \E n \in Nodes : ClaimNextJob(n)
         \/ ListNodeJobs
         \/ PruneTerminalJobs
         \/ \E n \in Nodes : DeleteNode(n)
         \/ Tick
  PROVE  StoreMoves
<1>0. /\ IndInv /\ TypeOK
      /\ jobs \in [JobIDs -> Job] /\ now \in Nat \ {0}
  BY DEF DeliveryInv, IndInv, TypeOK
<1>1. IndInv'
  BY <1>0, NextInv DEF Next
<1> DEFINE ex == expireClaimedJobs(jobs, now)
<1>2. /\ ex \in [JobIDs -> Job]
      /\ \A id \in JobIDs : jobStatusIsActive(ex[id]) => ex[id] = jobs[id]
  BY <1>0, ExpiredRows DEF IndInv
<1>3. \A id \in JobIDs : RowKept(jobs[id], ex[id])
  BY <1>0, ExpireRowKept DEF expireClaimedJobs
<1>4. \A id \in JobIDs : RowKept(jobs[id], jobs[id])
  BY DEF RowKept
<1> HIDE DEF ex
<1>5. \A id \in JobIDs : RowKept(jobs[id], jobs'[id])
  <2>1. ASSUME NEW i \in JobIDs, NEW n \in Nodes, NEW type \in JobTypes,
               NEW key \in Keys \cup {NoKey}, CreateJob(i, n, type, key)
        PROVE  \A id \in JobIDs : RowKept(jobs[id], jobs'[id])
    <3>1. jobs' = [ex EXCEPT ![i] = NewJob(n, type, key, now)] /\ jobs[i].status = "absent"
      BY <2>1 DEF CreateJob, ex
    <3>2. RowKept(jobs[i], NewJob(n, type, key, now))
      BY <1>0, <3>1, NewRowKept
    <3> QED
      BY <1>2, <1>3, <3>1, <3>2
  <2>2. ASSUME NEW n \in Nodes, ClaimNextJob(n)
        PROVE  \A id \in JobIDs : RowKept(jobs[id], jobs'[id])
    <3>1. PICK i \in OldestPending(ex, n) : jobs' = [ex EXCEPT ![i] = ClaimRow(ex[i], now)]
      BY <2>2 DEF ClaimNextJob, ex
    <3>2. i \in JobIDs /\ ex[i].status = "pending" /\ ex[i] = jobs[i]
      BY <1>2, <3>1 DEF OldestPending, jobStatusIsActive
    <3>3. RowKept(jobs[i], ClaimRow(ex[i], now))
      BY <1>0, <3>2, ClaimRowKept
    <3> QED
      BY <1>2, <1>3, <3>1, <3>2, <3>3
  <2>3. CASE ListNodeJobs
    BY <1>3, <2>3 DEF ListNodeJobs, ex
  <2>4. CASE PruneTerminalJobs
    BY <1>0, <1>4, <2>4, NewRowKept DEF PruneTerminalJobs
  <2>5. ASSUME NEW n \in Nodes, DeleteNode(n)
        PROVE  \A id \in JobIDs : RowKept(jobs[id], jobs'[id])
    BY <1>0, <1>4, <2>5, NewRowKept DEF DeleteNode
  <2>6. CASE Tick
    BY <1>4, <2>6 DEF Tick
  <2> QED
    BY <2>1, <2>2, <2>3, <2>4, <2>5, <2>6
<1>6. \A id \in JobIDs : ShowsTold(jobs[id], told[id])
  BY DEF DeliveryInv, StoredAsTold, ShowsTold
<1>7. \A id \in JobIDs : told[id] # NoJob => jobs[id].status # "pending"
  BY DEF DeliveryInv, OutcomesInv
<1> QED
  BY <1>1, <1>5, <1>6, <1>7 DEF StoreMoves, RowKept, ShowsTold

\* A submitted outcome reaches the store.
LEMMA SubmitMoves ==
  ASSUME DeliveryInv, NEW id \in JobIDs, told[id] # NoJob, SubmitResult(id, told[id])
  PROVE  StoreMoves /\ (SubmitCode(jobs[id]) = 200 => ~Owes(jobs'[id]))
<1>0. /\ IndInv /\ jobs \in [JobIDs -> Job] /\ now \in Nat \ {0}
      /\ \A j \in JobIDs : RowOK(jobs[j])
      /\ told[id] \in JobResult
  BY DEF DeliveryInv, IndInv, TypeOK, RowsConsistent, NothingForgotten, DeliveryTypeOK
<1>1. IndInv'
  BY <1>0, NextInv DEF Next
<1>2. /\ jobs[id].status \notin {"absent", "pending"}
      /\ jobs' = [jobs EXCEPT ![id] = SubmitRow(jobs[id], told[id], now)]
  BY DEF SubmitResult
<1>3. \A j \in JobIDs : ShowsTold(jobs[j], told[j])
  BY DEF DeliveryInv, StoredAsTold, ShowsTold
<1>4. /\ ShowsTold(jobs'[id], told[id])
      /\ jobs'[id].status \notin {"absent", "pending"}
      /\ Owes(jobs'[id]) => Owes(jobs[id])
      /\ SubmitCode(jobs[id]) = 200 => ~Owes(jobs'[id])
  <2>1. jobs'[id] = SubmitRow(jobs[id], told[id], now) /\ jobs[id] \in Job
    BY <1>0, <1>2
  <2> QED
    BY <1>0, <1>2, <1>3, <2>1, SubmitRowTold
<1>5. \A j \in JobIDs \ {id} : jobs'[j] = jobs[j]
  BY <1>0, <1>2
<1> QED
  BY <1>1, <1>3, <1>4, <1>5 DEF StoreMoves

-----------------------------------------------------------------------------
(* What a step does to one sidecar *)

\* A step of one sidecar that executes nothing and claims nothing keeps the
\* invariant if it drops only what is counted as gone or is no longer owed.
LEMMA NodeStep ==
  ASSUME DeliveryInv, StoreMoves, DeliveryTypeOK', UNCHANGED <<runs, told>>, NEW n \in Nodes,
         \A m \in Nodes \ {n} : /\ pc'[m] = pc[m] /\ cur'[m] = cur[m]
                                /\ buffer'[m] = buffer[m] /\ todo'[m] = todo[m],
         pc'[n] # "retry" => todo'[n] = <<>>,
         \/ pc'[n] \notin {"execute", "submit"} /\ cur'[n] = {}
         \/ pc'[n] = pc[n] /\ cur'[n] = cur[n],
         gone \subseteq gone',
         \A id \in flying' : told[id] # NoJob,
         \A id \in JobIDs : InSeq(id, buffer'[n]) \/ InSeq(id, todo'[n]) => told[id] # NoJob,
         \A id \in JobIDs :
           /\ told[id] # NoJob /\ Owes(jobs'[id])
           /\ \/ InSeq(id, buffer[n]) \/ InSeq(id, todo[n])
              \/ (pc[n] = "submit" /\ id \in cur[n])
           => \/ id \in gone' \/ InSeq(id, buffer'[n]) \/ InSeq(id, todo'[n])
              \/ (pc'[n] = "submit" /\ id \in cur'[n])
  PROVE  DeliveryInv'
<1>0. IndInv' /\ DeliveryTypeOK
  BY DEF DeliveryInv, NothingForgotten, StoreMoves
<1>1. PollersInv'
  <2>1. ASSUME NEW m \in Nodes
        PROVE  /\ pc'[m] # "retry" => todo'[m] = <<>>
               /\ pc'[m] \notin {"execute", "submit"} => cur'[m] = {}
               /\ cur'[m] \subseteq cur[m]
    BY DEF DeliveryInv, PollersInv
  <2> QED
    BY <2>1 DEF DeliveryInv, PollersInv
<1>2. OutcomesInv'
  <2> SUFFICES ASSUME NEW id \in JobIDs
               PROVE  /\ runs'[id] = IF told'[id] = NoJob THEN 0 ELSE 1
                      /\ jobs'[id].status \in {"absent", "pending"} => told'[id] = NoJob
                      /\ id \in flying' => told'[id] # NoJob
                      /\ \A m \in Nodes :
                           /\ id \in cur'[m] => /\ jobs'[id].status \notin {"absent", "pending"}
                                                /\ told'[id] = NoJob <=> pc'[m] = "execute"
                           /\ InSeq(id, buffer'[m]) \/ InSeq(id, todo'[m]) => told'[id] # NoJob
    BY DEF OutcomesInv, InSeq
  <2>1. /\ runs[id] = IF told[id] = NoJob THEN 0 ELSE 1
        /\ jobs[id].status \in {"absent", "pending"} => told[id] = NoJob
        /\ \A m \in Nodes :
             /\ id \in cur[m] => /\ jobs[id].status \notin {"absent", "pending"}
                                 /\ told[id] = NoJob <=> pc[m] = "execute"
             /\ InSeq(id, buffer[m]) \/ InSeq(id, todo[m]) => told[id] # NoJob
    BY DEF DeliveryInv, OutcomesInv
  <2>2. jobs'[id].status \in {"absent", "pending"} => jobs[id].status \in {"absent", "pending"}
    BY DEF StoreMoves
  <2>3. ASSUME NEW m \in Nodes
        PROVE  /\ id \in cur'[m] => /\ jobs'[id].status \notin {"absent", "pending"}
                                    /\ told'[id] = NoJob <=> pc'[m] = "execute"
               /\ InSeq(id, buffer'[m]) \/ InSeq(id, todo'[m]) => told'[id] # NoJob
    <3>1. CASE m = n
      BY <2>1, <2>2, <3>1
    <3>2. CASE m # n
      BY <2>1, <2>2, <3>2
    <3> QED
      BY <3>1, <3>2
  <2> QED
    BY <2>1, <2>2, <2>3
<1>3. StoredAsTold'
  BY DEF StoreMoves, StoredAsTold, ShowsTold
<1>4. NothingForgotten'
  <2> SUFFICES ASSUME NEW id \in JobIDs, told[id] # NoJob, Owes(jobs'[id])
               PROVE  id \in gone' \/ \E m \in Nodes : (id \in Held(m))'
    BY DEF NothingForgotten, Owes, NoJob
  <2>1. Owes(jobs[id])
    BY DEF StoreMoves
  <2>2. CASE id \in gone
    BY <2>2
  <2>3. ASSUME NEW m \in Nodes, id \in Held(m)
        PROVE  id \in gone' \/ (id \in Held(m))'
    <3>1. \/ InSeq(id, buffer[m]) \/ InSeq(id, todo[m])
          \/ (pc[m] = "submit" /\ id \in cur[m])
      BY <1>0, <2>3, HeldIff
    <3>2. \/ id \in gone' \/ InSeq(id, buffer'[m]) \/ InSeq(id, todo'[m])
          \/ (pc'[m] = "submit" /\ id \in cur'[m])
      BY <3>1
    <3> QED
      BY <3>2, HeldIffAfter
  <2>4. id \in gone \/ \E m \in Nodes : id \in Held(m)
    BY <2>1 DEF DeliveryInv, NothingForgotten, Owes
  <2> QED
    BY <2>2, <2>3, <2>4
<1> QED
  BY <1>0, <1>1, <1>2, <1>3, <1>4 DEF DeliveryInv

\* The two ends of submitJobResult.
LEMMA DeliveredMoves ==
  ASSUME DeliveryInv, NEW id \in JobIDs, told[id] # NoJob, Delivered(id)
  PROVE  StoreMoves /\ ~Owes(jobs'[id]) /\ flying' = flying
BY SubmitMoves DEF Delivered

LEMMA UndeliveredMoves ==
  ASSUME DeliveryInv, NEW id \in JobIDs, told[id] # NoJob, Undelivered(id)
  PROVE  StoreMoves /\ flying' \subseteq flying \cup {id}
BY SubmitMoves, StoreUnchanged DEF Undelivered

\* What the invariant says of the sidecars' state.
LEMMA SidecarFacts ==
  ASSUME DeliveryInv
  PROVE  /\ pc \in [Nodes -> {"idle", "retry", "claim", "execute", "submit"}]
         /\ cur \in [Nodes -> SUBSET JobIDs]
         /\ buffer \in [Nodes -> Seq(Entry)] /\ todo \in [Nodes -> Seq(Entry)]
         /\ flying \subseteq JobIDs /\ gone \subseteq JobIDs
         /\ runs \in [JobIDs -> 0..2]
         /\ told \in [JobIDs -> JobResult \cup {NoJob}]
         /\ \A id \in flying : told[id] # NoJob
         /\ \A n \in Nodes :
              /\ Len(buffer[n]) + Len(todo[n]) <= BufferLimit
              /\ Len(buffer[n]) \in Nat /\ Len(todo[n]) \in Nat
              /\ pc[n] # "retry" => todo[n] = <<>>
              /\ pc[n] \notin {"execute", "submit"} => cur[n] = {}
              /\ \A i, j \in cur[n] : i = j
              /\ \A id \in JobIDs :
                   /\ id \in cur[n] => (told[id] = NoJob <=> pc[n] = "execute")
                   /\ InSeq(id, buffer[n]) \/ InSeq(id, todo[n]) => told[id] # NoJob
<1>1. \A n \in Nodes : Len(buffer[n]) \in Nat /\ Len(todo[n]) \in Nat
  BY LenProperties DEF DeliveryInv, NothingForgotten, DeliveryTypeOK
<1>2. PollersInv /\ OutcomesInv /\ DeliveryTypeOK
  BY DEF DeliveryInv, NothingForgotten
<1>3. \A id \in flying : told[id] # NoJob
  BY <1>2 DEF OutcomesInv, DeliveryTypeOK
<1>4. \A n \in Nodes :
        /\ pc[n] # "retry" => todo[n] = <<>>
        /\ pc[n] \notin {"execute", "submit"} => cur[n] = {}
        /\ \A i, j \in cur[n] : i = j
  BY <1>2 DEF PollersInv
<1>5. \A n \in Nodes : \A id \in JobIDs :
        /\ id \in cur[n] => (told[id] = NoJob <=> pc[n] = "execute")
        /\ InSeq(id, buffer[n]) \/ InSeq(id, todo[n]) => told[id] # NoJob
  BY <1>2 DEF OutcomesInv
<1>6. /\ pc \in [Nodes -> {"idle", "retry", "claim", "execute", "submit"}]
      /\ cur \in [Nodes -> SUBSET JobIDs]
      /\ buffer \in [Nodes -> Seq(Entry)] /\ todo \in [Nodes -> Seq(Entry)]
      /\ flying \subseteq JobIDs /\ gone \subseteq JobIDs
      /\ runs \in [JobIDs -> 0..2]
      /\ told \in [JobIDs -> JobResult \cup {NoJob}]
      /\ \A n \in Nodes : Len(buffer[n]) + Len(todo[n]) <= BufferLimit
  BY <1>2 DEF DeliveryTypeOK
<1> QED
  BY <1>1, <1>3, <1>4, <1>5, <1>6

LEMMA PollInv ==
  ASSUME DeliveryInv, NEW n \in Nodes, Poll(n)
  PROVE  DeliveryInv'
<1>1. /\ pc[n] = "idle" /\ pc' = [pc EXCEPT ![n] = "retry"]
      /\ todo' = [todo EXCEPT ![n] = buffer[n]] /\ buffer' = [buffer EXCEPT ![n] = <<>>]
      /\ UNCHANGED <<jobs, now, cur, flying, runs, told, gone>>
  BY DEF Poll, Goes
<1>2. StoreMoves /\ TypeOK'
  BY <1>1, StoreUnchanged DEF StoreMoves, IndInv
<1>3. /\ buffer'[n] = <<>> /\ todo'[n] = buffer[n] /\ pc'[n] = "retry"
      /\ \A m \in Nodes \ {n} : pc'[m] = pc[m] /\ buffer'[m] = buffer[m] /\ todo'[m] = todo[m]
      /\ cur[n] = {} /\ todo[n] = <<>>
  BY <1>1, SidecarFacts
<1>4. DeliveryTypeOK'
  <2>1. <<>> \in Seq(Entry) /\ Len(<<>>) = 0
    BY EmptySeq
  <2>2. \A m \in Nodes : Len(buffer'[m]) + Len(todo'[m]) <= BufferLimit
    <3>1. Len(buffer[n]) + Len(todo[n]) <= BufferLimit /\ Len(buffer[n]) \in Nat
      BY SidecarFacts
    <3>2. Len(buffer'[n]) + Len(todo'[n]) <= BufferLimit
      BY <1>3, <2>1, <3>1
    <3> QED
      BY <1>3, <3>2, SidecarFacts
  <2>3. buffer' \in [Nodes -> Seq(Entry)] /\ todo' \in [Nodes -> Seq(Entry)]
    BY <1>1, <2>1, SidecarFacts
  <2> QED
    BY <1>1, <1>2, <2>2, <2>3, SidecarFacts DEF DeliveryTypeOK
<1> QED
  BY <1>1, <1>2, <1>3, <1>4, SidecarFacts, NodeStep, InSeqEmpty

\* One entry is moved from what is to be retried to what was kept.
LEMMA KeepInv ==
  ASSUME DeliveryInv, StoreMoves, NEW n \in Nodes, NEW e \in Entry,
         pc[n] = "retry", todo[n] # <<>>, e.job = Head(todo[n]).job,
         Keep(n, e), todo' = [todo EXCEPT ![n] = Tail(@)],
         flying' \subseteq flying \cup {e.job},
         UNCHANGED <<pc, cur, runs, told, gone>>
  PROVE  DeliveryInv'
<1>1. buffer[n] \in Seq(Entry) /\ todo[n] \in Seq(Entry) /\ e.job \in JobIDs
  BY SidecarFacts DEF Entry
<1>2. /\ buffer'[n] = Append(buffer[n], e) /\ todo'[n] = Tail(todo[n])
      /\ \A m \in Nodes \ {n} : buffer'[m] = buffer[m] /\ todo'[m] = todo[m]
  BY SidecarFacts DEF Keep
<1>3. /\ Append(buffer[n], e) \in Seq(Entry) /\ Len(Append(buffer[n], e)) = Len(buffer[n]) + 1
      /\ Tail(todo[n]) \in Seq(Entry) /\ Len(Tail(todo[n])) = Len(todo[n]) - 1
      /\ \A id \in JobIDs : /\ InSeq(id, buffer'[n]) <=> InSeq(id, buffer[n]) \/ id = e.job
                            /\ InSeq(id, todo[n]) <=> InSeq(id, todo'[n]) \/ id = e.job
  BY <1>1, <1>2, InSeqAppend, InSeqTail
<1>4. told[e.job] # NoJob
  BY <1>1, <1>3, SidecarFacts
<1>5. DeliveryTypeOK'
  <2>1. Len(buffer'[n]) + Len(todo'[n]) = Len(buffer[n]) + Len(todo[n])
    BY <1>2, <1>3, SidecarFacts
  <2>2. \A m \in Nodes : Len(buffer'[m]) + Len(todo'[m]) <= BufferLimit
    BY <1>2, <2>1, SidecarFacts
  <2>3. buffer' \in [Nodes -> Seq(Entry)] /\ todo' \in [Nodes -> Seq(Entry)]
    BY <1>1, <1>3, SidecarFacts DEF Keep
  <2>4. flying' \subseteq JobIDs
    BY <1>1, SidecarFacts
  <2>5. TypeOK'
    BY DEF StoreMoves, IndInv
  <2> QED
    BY <2>2, <2>3, <2>4, <2>5, SidecarFacts DEF DeliveryTypeOK
<1>6. \A id \in flying' : told[id] # NoJob
  BY <1>4, SidecarFacts
<1>7. \A id \in JobIDs : InSeq(id, buffer'[n]) \/ InSeq(id, todo'[n]) => told[id] # NoJob
  BY <1>3, <1>4, SidecarFacts
<1> QED
  BY <1>2, <1>3, <1>5, <1>6, <1>7, NodeStep

LEMMA RetryInv ==
  ASSUME DeliveryInv, NEW n \in Nodes, RetrySkip(n) \/ RetryDelivered(n) \/ RetryUndelivered(n)
  PROVE  DeliveryInv'
<1> DEFINE e == Head(todo[n])
<1>1. /\ pc[n] = "retry" /\ todo[n] # <<>> /\ todo' = [todo EXCEPT ![n] = Tail(@)]
      /\ UNCHANGED <<pc, cur, runs, told, gone>>
  BY DEF RetrySkip, RetryDelivered, RetryUndelivered
<1>2. /\ todo[n] \in Seq(Entry) /\ Tail(todo[n]) \in Seq(Entry) /\ e \in Entry /\ e.job \in JobIDs
      /\ Len(Tail(todo[n])) = Len(todo[n]) - 1
      /\ \A id \in JobIDs : InSeq(id, todo[n]) <=> InSeq(id, Tail(todo[n])) \/ id = e.job
  BY <1>1, SidecarFacts, InSeqTail DEF Entry
<1>3. told[e.job] # NoJob
  BY <1>2, SidecarFacts
<1>4. CASE RetrySkip(n)
  <2>1. StoreMoves
    BY <1>4, StoreUnchanged DEF RetrySkip
  <2> QED
    BY <1>1, <1>2, <1>4, <2>1, KeepInv DEF RetrySkip
<1>5. CASE RetryUndelivered(n)
  <2>1. StoreMoves /\ flying' \subseteq flying \cup {e.job}
    BY <1>2, <1>3, <1>5, UndeliveredMoves DEF RetryUndelivered
  <2>2. [e EXCEPT !.due = FALSE] \in Entry /\ [e EXCEPT !.due = FALSE].job = e.job
    BY <1>2 DEF Entry
  <2> QED
    BY <1>1, <1>2, <1>5, <2>1, <2>2, KeepInv DEF RetryUndelivered
<1>6. CASE RetryDelivered(n)
  <2>1. StoreMoves /\ ~Owes(jobs'[e.job]) /\ flying' = flying /\ TypeOK'
    BY <1>2, <1>3, <1>6, DeliveredMoves DEF RetryDelivered, StoreMoves, IndInv
  <2>2. /\ buffer' = buffer /\ todo'[n] = Tail(todo[n])
        /\ \A m \in Nodes \ {n} : todo'[m] = todo[m]
    BY <1>1, <1>6, SidecarFacts DEF RetryDelivered
  <2>3. DeliveryTypeOK'
    <3>0. Len(buffer[n]) + Len(todo[n]) <= BufferLimit /\ Len(buffer[n]) \in Nat /\ Len(todo[n]) \in Nat
      BY SidecarFacts
    <3>a. Len(buffer'[n]) + Len(todo'[n]) <= BufferLimit
      <4>1. BufferLimit \in Nat
        BY DeliveryConstants
      <4>2. Len(buffer'[n]) = Len(buffer[n]) /\ Len(todo'[n]) = Len(todo[n]) - 1
        BY <1>2, <2>2
      <4>3. \A a, b, l \in Nat : a + b <= l => a + (b - 1) <= l
        OBVIOUS
      <4> QED
        BY <3>0, <4>1, <4>2, <4>3
    <3>1. \A m \in Nodes : Len(buffer'[m]) + Len(todo'[m]) <= BufferLimit
      BY <2>2, <3>a, SidecarFacts
    <3>2. todo' \in [Nodes -> Seq(Entry)]
      BY <1>1, <1>2, SidecarFacts
    <3> QED
      BY <1>1, <2>1, <2>2, <3>1, <3>2, SidecarFacts DEF DeliveryTypeOK
  <2> QED
    BY <1>1, <1>2, <2>1, <2>2, <2>3, SidecarFacts, NodeStep
<1> QED
  BY <1>4, <1>5, <1>6

\* The poller's steps that touch neither the buffer nor a job in hand.
LEMMA MovesOnInv ==
  ASSUME DeliveryInv, StoreMoves, NEW n \in Nodes, NEW where \in {"idle", "claim"},
         cur[n] = {}, todo[n] = <<>>, Goes(n, where),
         UNCHANGED <<cur, buffer, todo, flying, runs, told, gone>>
  PROVE  DeliveryInv'
<1>1. /\ pc' \in [Nodes -> {"idle", "retry", "claim", "execute", "submit"}]
      /\ pc'[n] = where /\ \A m \in Nodes \ {n} : pc'[m] = pc[m]
  BY SidecarFacts DEF Goes
<1>2. DeliveryTypeOK'
  <2>1. TypeOK'
    BY DEF StoreMoves, IndInv
  <2> QED
    BY <1>1, <2>1, SidecarFacts DEF DeliveryTypeOK
<1> QED
  BY <1>1, <1>2, SidecarFacts, NodeStep

LEMMA NoClaimInv ==
  ASSUME DeliveryInv, NEW n \in Nodes,
         RetryDone(n) \/ ClaimUnanswered(n) \/ ClaimNothing(n) \/ ClaimLost(n)
  PROVE  DeliveryInv'
<1>1. cur[n] = {} /\ todo[n] = <<>>
  BY SidecarFacts DEF RetryDone, ClaimUnanswered, ClaimNothing, ClaimLost
<1>2. StoreMoves
  BY QuietMoves, StoreUnchanged DEF RetryDone, ClaimUnanswered, ClaimNothing, ClaimLost
<1> QED
  BY <1>1, <1>2, MovesOnInv DEF RetryDone, ClaimUnanswered, ClaimNothing, ClaimLost

\* The claim hands out one job, which was pending and so is in no other hands.
LEMMA ClaimedInv ==
  ASSUME DeliveryInv, NEW n \in Nodes, Claimed(n)
  PROVE  DeliveryInv'
<1> DEFINE new == {id \in JobIDs : Handed(id)}
           ex == expireClaimedJobs(jobs, now)
<1>1. /\ pc[n] = "claim" /\ ClaimNextJob(n) /\ pc' = [pc EXCEPT ![n] = "execute"]
      /\ cur' = [cur EXCEPT ![n] = new]
      /\ UNCHANGED <<buffer, todo, flying, runs, told, gone>>
  BY DEF Claimed, Goes
<1>2. StoreMoves /\ TypeOK' /\ IndInv'
  BY <1>1, QuietMoves DEF StoreMoves, IndInv
<1>3. /\ PollersInv /\ OutcomesInv /\ DeliveryTypeOK
      /\ jobs \in [JobIDs -> Job] /\ TypeOK /\ RowsConsistent /\ OneActivePerLock
  BY DEF DeliveryInv, NothingForgotten, IndInv, TypeOK
<1>4. \A i, j \in new : i = j
  <2>1. PICK i \in OldestPending(ex, n) : jobs' = [ex EXCEPT ![i] = ClaimRow(ex[i], now)]
    BY <1>1 DEF ClaimNextJob
  <2>2. /\ ex \in [JobIDs -> Job]
        /\ \A id \in JobIDs : jobStatusIsActive(ex[id]) => ex[id] = jobs[id]
    BY <1>3, ExpiredRows
  <2> HIDE DEF ex
  <2>3. \A id \in JobIDs : id # i => jobs'[id] = ex[id]
    BY <2>1, <2>2
  <2>4. \A id \in JobIDs : Handed(id) => id = i
    BY <2>2, <2>3 DEF Handed, jobStatusIsActive
  <2> QED
    BY <2>4
<1>5. \A id \in new : id \in JobIDs /\ jobs[id].status = "pending" /\ jobs'[id].status = "claimed"
  BY DEF Handed
<1> HIDE DEF new
<1>6. \A id \in new : told[id] = NoJob /\ \A m \in Nodes : id \notin cur[m]
  BY <1>3, <1>5 DEF OutcomesInv
<1>7. /\ cur' \in [Nodes -> SUBSET JobIDs] /\ cur'[n] = new
      /\ pc' \in [Nodes -> {"idle", "retry", "claim", "execute", "submit"}] /\ pc'[n] = "execute"
      /\ \A m \in Nodes \ {n} : cur'[m] = cur[m] /\ pc'[m] = pc[m]
  BY <1>1, <1>5, SidecarFacts
<1>8. DeliveryTypeOK'
  BY <1>1, <1>2, <1>7, SidecarFacts DEF DeliveryTypeOK
<1>9. PollersInv'
  <2>1. \A m \in Nodes : m # n => cur'[m] \cap new = {}
    BY <1>6, <1>7
  <2> QED
    BY <1>1, <1>3, <1>4, <1>7, <2>1 DEF PollersInv
<1>10. OutcomesInv'
  <2>1. ASSUME NEW id \in JobIDs
        PROVE  /\ runs'[id] = IF told'[id] = NoJob THEN 0 ELSE 1
               /\ jobs'[id].status \in {"absent", "pending"} => told'[id] = NoJob
               /\ id \in flying' => told'[id] # NoJob
    BY <1>1, <1>2, <1>3 DEF OutcomesInv, StoreMoves
  <2>2. ASSUME NEW id \in JobIDs, NEW m \in Nodes
        PROVE  /\ id \in cur'[m] => /\ jobs'[id].status \notin {"absent", "pending"}
                                    /\ told'[id] = NoJob <=> pc'[m] = "execute"
               /\ InSeq(id, buffer'[m]) \/ InSeq(id, todo'[m]) => told'[id] # NoJob
    <3>1. CASE m = n
      BY <1>1, <1>3, <1>5, <1>6, <1>7, <3>1 DEF OutcomesInv
    <3>2. CASE m # n
      BY <1>1, <1>2, <1>3, <1>7, <3>2 DEF OutcomesInv, StoreMoves
    <3> QED
      BY <3>1, <3>2
  <2> QED
    BY <2>1, <2>2 DEF OutcomesInv, InSeq
<1>11. StoredAsTold'
  BY <1>1, <1>2 DEF StoreMoves, StoredAsTold, ShowsTold
<1>12. NothingForgotten'
  <2> SUFFICES ASSUME NEW id \in JobIDs, told[id] # NoJob, Owes(jobs'[id])
               PROVE  id \in gone' \/ \E m \in Nodes : (id \in Held(m))'
    BY <1>1, <1>8 DEF NothingForgotten, Owes, NoJob
  <2>1. id \in gone \/ \E m \in Nodes : id \in Held(m)
    BY <1>2 DEF StoreMoves, DeliveryInv, NothingForgotten, Owes
  <2>2. ASSUME NEW m \in Nodes, id \in Held(m) PROVE (id \in Held(m))'
    <3>1. \/ InSeq(id, buffer[m]) \/ InSeq(id, todo[m])
          \/ (pc[m] = "submit" /\ id \in cur[m])
      BY <1>3, <2>2, HeldIff
    <3>2. \/ InSeq(id, buffer'[m]) \/ InSeq(id, todo'[m])
          \/ (pc'[m] = "submit" /\ id \in cur'[m])
      BY <1>1, <1>7, <3>1
    <3> QED
      BY <1>8, <3>2, HeldIffAfter
  <2> QED
    BY <1>1, <2>1, <2>2
<1> QED
  BY <1>2, <1>9, <1>10, <1>11, <1>12 DEF DeliveryInv

\* The one place where an outcome comes into being: the job in hand had none.
LEMMA ExecuteInv ==
  ASSUME DeliveryInv, NEW n \in Nodes, Execute(n)
  PROVE  DeliveryInv'
<1>1. PICK i \in cur[n], res \in JobResult :
        /\ told' = [told EXCEPT ![i] = res]
        /\ runs' = [runs EXCEPT ![i] = IF @ < 2 THEN @ + 1 ELSE @]
  BY DEF Execute
<1>2. /\ pc[n] = "execute" /\ pc' = [pc EXCEPT ![n] = "submit"]
      /\ UNCHANGED <<jobs, now, cur, buffer, todo, flying, gone>>
  BY DEF Execute, Goes
<1>3. PollersInv /\ OutcomesInv /\ DeliveryTypeOK /\ StoredAsTold
  BY DEF DeliveryInv, NothingForgotten
<1>4. i \in JobIDs /\ told[i] = NoJob /\ runs[i] = 0 /\ jobs[i].status \notin {"absent", "pending"}
  BY <1>2, <1>3 DEF DeliveryTypeOK, OutcomesInv
<1>5. res # NoJob
  BY DEF JobResult, NoJob
<1>6. /\ told' \in [JobIDs -> JobResult \cup {NoJob}] /\ told'[i] = res
      /\ runs' \in [JobIDs -> 0..2] /\ runs'[i] = 1
      /\ pc' \in [Nodes -> {"idle", "retry", "claim", "execute", "submit"}] /\ pc'[n] = "submit"
      /\ \A id \in JobIDs \ {i} : told'[id] = told[id] /\ runs'[id] = runs[id]
      /\ \A m \in Nodes \ {n} : pc'[m] = pc[m]
  BY <1>1, <1>2, <1>4, SidecarFacts
<1>7. IndInv' /\ TypeOK'
  BY <1>2 DEF DeliveryInv, IndInv, TypeOK, RowsConsistent, OneActivePerLock
<1>8. DeliveryTypeOK'
  BY <1>2, <1>6, <1>7, SidecarFacts DEF DeliveryTypeOK
<1>9. cur[n] = {i} /\ \A m \in Nodes \ {n} : i \notin cur[m]
  BY <1>3 DEF PollersInv
<1>10. PollersInv'
  BY <1>2, <1>3, <1>6 DEF PollersInv
<1>11. OutcomesInv'
  <2>1. ASSUME NEW id \in JobIDs
        PROVE  /\ runs'[id] = IF told'[id] = NoJob THEN 0 ELSE 1
               /\ jobs'[id].status \in {"absent", "pending"} => told'[id] = NoJob
               /\ id \in flying' => told'[id] # NoJob
    BY <1>2, <1>3, <1>4, <1>5, <1>6 DEF OutcomesInv
  <2>2. ASSUME NEW id \in JobIDs, NEW m \in Nodes
        PROVE  /\ id \in cur'[m] => /\ jobs'[id].status \notin {"absent", "pending"}
                                    /\ told'[id] = NoJob <=> pc'[m] = "execute"
               /\ InSeq(id, buffer'[m]) \/ InSeq(id, todo'[m]) => told'[id] # NoJob
    <3>1. CASE id = i
      BY <1>2, <1>4, <1>5, <1>6, <1>9, <3>1
    <3>2. CASE id # i
      BY <1>2, <1>3, <1>6, <1>9, <3>2 DEF OutcomesInv
    <3> QED
      BY <3>1, <3>2
  <2> QED
    BY <2>1, <2>2 DEF OutcomesInv, InSeq
<1>12. StoredAsTold'
  <2>1. jobs[i].status # "completed" /\ jobs[i].error # "reported" /\ jobs[i].result = NoResult
    BY <1>3, <1>4 DEF StoredAsTold, NoJob
  <2> QED
    BY <1>2, <1>3, <1>6, <2>1 DEF StoredAsTold
<1>13. NothingForgotten'
  <2> SUFFICES ASSUME NEW id \in JobIDs, told'[id] # NoJob, Owes(jobs[id])
               PROVE  id \in gone' \/ \E m \in Nodes : (id \in Held(m))'
    BY <1>2, <1>8 DEF NothingForgotten, Owes, NoJob
  <2>1. CASE id = i
    BY <1>2, <1>6, <1>8, <1>9, <2>1, HeldIffAfter
  <2>2. CASE id # i
    <3>1. id \in gone \/ \E m \in Nodes : id \in Held(m)
      BY <1>6, <2>2 DEF DeliveryInv, NothingForgotten, Owes
    <3>2. ASSUME NEW m \in Nodes, id \in Held(m) PROVE (id \in Held(m))'
      <4>1. \/ InSeq(id, buffer[m]) \/ InSeq(id, todo[m])
            \/ (pc[m] = "submit" /\ id \in cur[m])
        BY <1>3, <3>2, HeldIff
      <4>2. \/ InSeq(id, buffer'[m]) \/ InSeq(id, todo'[m])
            \/ (pc'[m] = "submit" /\ id \in cur'[m])
        BY <1>2, <1>6, <4>1
      <4> QED
        BY <1>8, <4>2, HeldIffAfter
    <3> QED
      BY <1>2, <3>1, <3>2
  <2> QED
    BY <2>1, <2>2
<1> QED
  BY <1>7, <1>10, <1>11, <1>12, <1>13 DEF DeliveryInv

LEMMA SubmittedInv ==
  ASSUME DeliveryInv, NEW n \in Nodes, Submitted(n)
  PROVE  DeliveryInv'
<1>1. PICK i \in cur[n] : Delivered(i)
  BY DEF Submitted
<1>2. /\ pc[n] = "submit" /\ pc' = [pc EXCEPT ![n] = "idle"] /\ cur' = [cur EXCEPT ![n] = {}]
      /\ UNCHANGED <<buffer, todo, runs, told, gone>>
  BY DEF Submitted, Goes
<1>3. i \in JobIDs /\ told[i] # NoJob /\ cur[n] = {i} /\ todo[n] = <<>>
  BY <1>2, SidecarFacts
<1>4. StoreMoves /\ ~Owes(jobs'[i]) /\ flying' = flying /\ TypeOK'
  BY <1>1, <1>3, DeliveredMoves DEF StoreMoves, IndInv
<1>5. /\ pc' \in [Nodes -> {"idle", "retry", "claim", "execute", "submit"}] /\ pc'[n] = "idle"
      /\ cur' \in [Nodes -> SUBSET JobIDs] /\ cur'[n] = {}
      /\ \A m \in Nodes \ {n} : pc'[m] = pc[m] /\ cur'[m] = cur[m]
  BY <1>2, SidecarFacts
<1>6. DeliveryTypeOK'
  BY <1>2, <1>4, <1>5, SidecarFacts DEF DeliveryTypeOK
<1>7. \A id \in JobIDs : Owes(jobs'[id]) => id \notin cur[n]
  BY <1>3, <1>4
<1> QED
  BY <1>2, <1>3, <1>4, <1>5, <1>6, <1>7, SidecarFacts, NodeStep

LEMMA SubmitFailedInv ==
  ASSUME DeliveryInv, NEW n \in Nodes, SubmitFailed(n)
  PROVE  DeliveryInv'
<1>1. PICK i \in cur[n] : Undelivered(i) /\ bufferJobResult(n, i)
  BY DEF SubmitFailed
<1> DEFINE full == Len(buffer[n]) >= BufferLimit
           kept == IF full THEN Tail(buffer[n]) ELSE buffer[n]
           e == [job |-> i, due |-> FALSE]
<1>2. /\ pc[n] = "submit" /\ pc' = [pc EXCEPT ![n] = "idle"] /\ cur' = [cur EXCEPT ![n] = {}]
      /\ UNCHANGED <<todo, runs, told>>
  BY DEF SubmitFailed, Goes
<1>3. /\ buffer' = [buffer EXCEPT ![n] = Append(kept, e)]
      /\ gone' = IF full THEN gone \cup {Head(buffer[n]).job} ELSE gone
  BY <1>1 DEF bufferJobResult
<1>4. i \in JobIDs /\ told[i] # NoJob /\ cur[n] = {i} /\ todo[n] = <<>> /\ e \in Entry
  BY <1>2, SidecarFacts DEF Entry
<1>5. StoreMoves /\ flying' \subseteq flying \cup {i} /\ TypeOK'
  BY <1>1, <1>4, UndeliveredMoves DEF StoreMoves, IndInv
<1>6. BufferLimit \in Nat \ {0}
  BY DeliveryConstants
<1>7. buffer[n] \in Seq(Entry) /\ Len(buffer[n]) \in Nat /\ Len(buffer[n]) <= BufferLimit
  <2>1. Len(<<>>) = 0
    BY EmptySeq
  <2> QED
    BY <1>4, <1>6, <2>1, SidecarFacts
<1>8. /\ kept \in Seq(Entry) /\ Len(kept) \in Nat /\ Len(kept) + 1 <= BufferLimit
      /\ gone \subseteq gone' /\ gone' \subseteq JobIDs
      /\ \A id \in JobIDs : InSeq(id, kept) => InSeq(id, buffer[n])
      /\ \A id \in JobIDs : InSeq(id, buffer[n]) => InSeq(id, kept) \/ id \in gone'
  <2>1. CASE full
    <3>1. buffer[n] # <<>>
      <4>1. Len(<<>>) = 0
        BY EmptySeq
      <4> QED
        BY <1>6, <2>1, <4>1
    <3>2. /\ Tail(buffer[n]) \in Seq(Entry) /\ Len(Tail(buffer[n])) = Len(buffer[n]) - 1
          /\ Len(buffer[n]) \in Nat \ {0} /\ Head(buffer[n]).job \in JobIDs
          /\ \A id \in JobIDs : InSeq(id, buffer[n])
                                  <=> InSeq(id, Tail(buffer[n])) \/ id = Head(buffer[n]).job
      BY <1>7, <3>1, InSeqTail DEF Entry
    <3>3. kept = Tail(buffer[n]) /\ gone' = gone \cup {Head(buffer[n]).job}
      BY <1>3, <2>1
    <3>4. Len(kept) \in Nat /\ Len(kept) + 1 <= BufferLimit
      BY <1>6, <1>7, <3>2, <3>3
    <3> QED
      BY <3>2, <3>3, <3>4, SidecarFacts
  <2>2. CASE ~full
    BY <1>3, <1>6, <1>7, <2>2, SidecarFacts
  <2> QED
    BY <2>1, <2>2
<1> HIDE DEF full, kept, e
<1>9. /\ Append(kept, e) \in Seq(Entry) /\ Len(Append(kept, e)) = Len(kept) + 1
      /\ \A id \in JobIDs : InSeq(id, Append(kept, e)) <=> InSeq(id, kept) \/ id = e.job
  BY <1>4, <1>8, InSeqAppend
<1>10. e.job = i
  BY DEF e
<1>11. /\ pc' \in [Nodes -> {"idle", "retry", "claim", "execute", "submit"}] /\ pc'[n] = "idle"
       /\ cur' \in [Nodes -> SUBSET JobIDs] /\ cur'[n] = {}
       /\ buffer' \in [Nodes -> Seq(Entry)] /\ buffer'[n] = Append(kept, e)
       /\ \A m \in Nodes \ {n} : pc'[m] = pc[m] /\ cur'[m] = cur[m] /\ buffer'[m] = buffer[m]
  BY <1>2, <1>3, <1>9, SidecarFacts
<1>12. DeliveryTypeOK'
  <2>1. Len(buffer'[n]) + Len(todo'[n]) <= BufferLimit
    <3>1. Len(<<>>) = 0
      BY EmptySeq
    <3> QED
      BY <1>2, <1>4, <1>6, <1>8, <1>9, <1>11, <3>1
  <2>2. \A m \in Nodes : Len(buffer'[m]) + Len(todo'[m]) <= BufferLimit
    BY <1>2, <1>11, <2>1, SidecarFacts
  <2>3. flying' \subseteq JobIDs
    BY <1>4, <1>5, SidecarFacts
  <2> QED
    BY <1>2, <1>5, <1>8, <1>11, <2>2, <2>3, SidecarFacts DEF DeliveryTypeOK
<1>13. \A id \in flying' : told[id] # NoJob
  BY <1>4, <1>5, SidecarFacts
<1>14. \A id \in JobIDs : InSeq(id, buffer'[n]) \/ InSeq(id, todo'[n]) => told[id] # NoJob
  BY <1>2, <1>4, <1>8, <1>9, <1>10, <1>11, SidecarFacts
<1>15. \A id \in JobIDs : \/ InSeq(id, buffer[n]) \/ InSeq(id, todo[n])
                          \/ (pc[n] = "submit" /\ id \in cur[n])
                          => \/ id \in gone' \/ InSeq(id, buffer'[n]) \/ InSeq(id, todo'[n])
  BY <1>2, <1>4, <1>8, <1>9, <1>10, <1>11
<1> QED
  BY <1>2, <1>4, <1>5, <1>8, <1>11, <1>12, <1>13, <1>14, <1>15, NodeStep

LEMMA BackoffInv ==
  ASSUME DeliveryInv, NEW n \in Nodes, NEW k \in DOMAIN buffer[n], BackoffEnds(n, k)
  PROVE  DeliveryInv'
<1> DEFINE b == [buffer[n] EXCEPT ![k].due = TRUE]
<1>1. /\ buffer' = [buffer EXCEPT ![n] = b]
      /\ UNCHANGED <<jobs, now, pc, cur, todo, flying, runs, told, gone>>
  BY DEF BackoffEnds
<1>2. StoreMoves /\ TypeOK'
  BY <1>1, StoreUnchanged DEF StoreMoves, IndInv
<1>3. /\ buffer[n] \in Seq(Entry) /\ Len(buffer[n]) \in Nat
      /\ buffer[n] \in [1..Len(buffer[n]) -> Entry] /\ DOMAIN buffer[n] = 1..Len(buffer[n])
  BY SidecarFacts, LenProperties
<1>4. /\ b \in [1..Len(buffer[n]) -> Entry]
      /\ \A i \in 1..Len(buffer[n]) : b[i].job = buffer[n][i].job
  BY <1>3 DEF Entry
<1> HIDE DEF b
<1>5. b \in Seq(Entry) /\ Len(b) = Len(buffer[n])
  BY <1>3, <1>4, IsASeq, LenProperties
<1>6. \A id \in JobIDs : InSeq(id, b) <=> InSeq(id, buffer[n])
  BY <1>4, <1>5 DEF InSeq
<1>7. /\ buffer' \in [Nodes -> Seq(Entry)] /\ buffer'[n] = b
      /\ \A m \in Nodes \ {n} : buffer'[m] = buffer[m]
  BY <1>1, <1>5, SidecarFacts
<1>8. DeliveryTypeOK'
  <2>1. \A m \in Nodes : Len(buffer'[m]) + Len(todo'[m]) <= BufferLimit
    BY <1>1, <1>5, <1>7, SidecarFacts
  <2> QED
    BY <1>1, <1>2, <1>7, <2>1, SidecarFacts DEF DeliveryTypeOK
<1> QED
  BY <1>1, <1>2, <1>6, <1>7, <1>8, SidecarFacts, NodeStep

LEMMA RestartInv ==
  ASSUME DeliveryInv, NEW n \in Nodes, Restart(n)
  PROVE  DeliveryInv'
<1>1. /\ pc' = [pc EXCEPT ![n] = "idle"] /\ gone' = gone \cup Held(n)
      /\ cur' = [cur EXCEPT ![n] = {}]
      /\ buffer' = [buffer EXCEPT ![n] = <<>>] /\ todo' = [todo EXCEPT ![n] = <<>>]
      /\ UNCHANGED <<jobs, now, flying, runs, told>>
  BY DEF Restart, Goes
<1>2. StoreMoves /\ TypeOK' /\ DeliveryTypeOK
  BY <1>1, StoreUnchanged DEF StoreMoves, IndInv, DeliveryInv, NothingForgotten
<1>3. <<>> \in Seq(Entry) /\ Len(<<>>) = 0
  BY EmptySeq
<1>4. \A id : InSeq(id, buffer[n]) \/ InSeq(id, todo[n]) \/ (pc[n] = "submit" /\ id \in cur[n])
                <=> id \in Held(n)
  BY <1>2, HeldIff
<1>5. Held(n) \subseteq JobIDs
  <2>1. \A id : InSeq(id, buffer[n]) \/ InSeq(id, todo[n]) => id \in JobIDs
    <3>1. \A i \in 1..Len(buffer[n]) : buffer[n][i] \in Entry
      BY SidecarFacts, ElementOfSeq
    <3>2. \A i \in 1..Len(todo[n]) : todo[n][i] \in Entry
      BY SidecarFacts, ElementOfSeq
    <3> QED
      BY <3>1, <3>2 DEF InSeq, Entry
  <2> QED
    BY <1>4, <2>1, SidecarFacts
<1>6. /\ pc' \in [Nodes -> {"idle", "retry", "claim", "execute", "submit"}] /\ pc'[n] = "idle"
      /\ cur' \in [Nodes -> SUBSET JobIDs] /\ cur'[n] = {}
      /\ buffer' \in [Nodes -> Seq(Entry)] /\ buffer'[n] = <<>>
      /\ todo' \in [Nodes -> Seq(Entry)] /\ todo'[n] = <<>>
      /\ \A m \in Nodes \ {n} : /\ pc'[m] = pc[m] /\ cur'[m] = cur[m]
                                /\ buffer'[m] = buffer[m] /\ todo'[m] = todo[m]
  BY <1>1, <1>3, SidecarFacts
<1>7. DeliveryTypeOK'
  <2>1. Len(buffer'[n]) + Len(todo'[n]) <= BufferLimit
    BY <1>3, <1>6, DeliveryConstants
  <2>2. \A m \in Nodes : Len(buffer'[m]) + Len(todo'[m]) <= BufferLimit
    BY <1>6, <2>1, SidecarFacts
  <2> QED
    BY <1>1, <1>2, <1>5, <1>6, <2>2, SidecarFacts DEF DeliveryTypeOK
<1> QED
  BY <1>1, <1>2, <1>4, <1>6, <1>7, SidecarFacts, NodeStep, InSeqEmpty

\* Steps that leave every sidecar as it is.
LEMMA ServerInv ==
  ASSUME DeliveryInv, StoreMoves, UNCHANGED sidecar, flying' \subseteq flying
  PROVE  DeliveryInv'
<1>1. PICK n \in Nodes : TRUE
  BY JobConstants
<1>2. UNCHANGED <<pc, cur, buffer, todo, runs, told, gone>>
  BY DEF sidecar
<1>3. DeliveryTypeOK'
  <2>1. TypeOK'
    BY DEF StoreMoves, IndInv
  <2> QED
    BY <1>2, <2>1, SidecarFacts DEF DeliveryTypeOK
<1> QED
  BY <1>2, <1>3, SidecarFacts, NodeStep

LEMMA DeliveryInitInv == DInit => DeliveryInv
<1> SUFFICES ASSUME DInit PROVE DeliveryInv
  OBVIOUS
<1>1. IndInv /\ TypeOK
  BY InitInv DEF DInit, IndInv
<1>2. \A id \in JobIDs : jobs[id] = NoRow("absent")
  BY DEF DInit, Init
<1>3. /\ NoRow("absent").status = "absent" /\ NoRow("absent").error = "none"
      /\ NoRow("absent").result = NoResult
  BY DEF NoRow, NewJob
<1>4. <<>> \in Seq(Entry) /\ Len(<<>>) = 0
  BY EmptySeq
<1>5. DeliveryTypeOK
  <2>1. \A n \in Nodes : Len(buffer[n]) + Len(todo[n]) <= BufferLimit
    BY <1>4, DeliveryConstants DEF DInit
  <2> QED
    BY <1>1, <1>4, <2>1 DEF DInit, DeliveryTypeOK
<1>6. PollersInv
  BY DEF DInit, PollersInv
<1>7. OutcomesInv
  BY InSeqEmpty DEF DInit, OutcomesInv
<1>8. StoredAsTold /\ NothingForgotten
  BY <1>2, <1>3, <1>5 DEF StoredAsTold, NothingForgotten
<1> QED
  BY <1>1, <1>6, <1>7, <1>8 DEF DeliveryInv

LEMMA DeliveryNextInv == DeliveryInv /\ [DNext]_dvars => DeliveryInv'
<1> SUFFICES ASSUME DeliveryInv, [DNext]_dvars PROVE DeliveryInv'
  OBVIOUS
<1>1. CASE ServerStep
  <2>1. StoreMoves
    BY <1>1, QuietMoves, DeliveryConstants DEF ServerStep
  <2> QED
    BY <1>1, <2>1, ServerInv DEF ServerStep
<1>2. ASSUME NEW n \in Nodes, SidecarStep(n) PROVE DeliveryInv'
  BY <1>2, PollInv, RetryInv, NoClaimInv, ClaimedInv, ExecuteInv, SubmittedInv, SubmitFailedInv
  DEF SidecarStep
<1>3. ASSUME NEW n \in Nodes, Restart(n) PROVE DeliveryInv'
  BY <1>3, RestartInv
<1>4. ASSUME NEW n \in Nodes, NEW i \in DOMAIN buffer[n], BackoffEnds(n, i) PROVE DeliveryInv'
  BY <1>4, BackoffInv
<1>5. ASSUME NEW id \in JobIDs, ArrivesLate(id) PROVE DeliveryInv'
  <2>1. told[id] # NoJob
    BY <1>5, SidecarFacts DEF ArrivesLate
  <2>2. StoreMoves
    BY <1>5, <2>1, SubmitMoves DEF ArrivesLate
  <2> QED
    BY <1>5, <2>2, ServerInv DEF ArrivesLate
<1>6. CASE UNCHANGED dvars
  <2>1. UNCHANGED <<jobs, now>> /\ UNCHANGED sidecar /\ flying' = flying
    BY <1>6 DEF dvars, sidecar
  <2> QED
    BY <2>1, StoreUnchanged, ServerInv
<1> QED
  BY <1>1, <1>2, <1>3, <1>4, <1>5, <1>6 DEF DNext

-----------------------------------------------------------------------------
(* Theorems *)

LEMMA DeliveryInvariant == DSpec => []DeliveryInv
BY DeliveryInitInv, DeliveryNextInv, PTL DEF DSpec

\* PollAndExecute over ClaimNextJob: no job is executed twice, whatever requests and
\* answers get lost, whoever restarts, and however late results and expiries come.
THEOREM DeliveryExecutesOnce == DSpec => []ExecutedOnce
<1>1. DeliveryInv => ExecutedOnce
  <2> SUFFICES ASSUME DeliveryInv, NEW id \in JobIDs PROVE runs[id] <= 1
    BY DEF ExecutedOnce
  <2>1. runs[id] = 0 \/ runs[id] = 1
    BY DEF DeliveryInv, OutcomesInv
  <2> QED
    BY <2>1
<1> QED
  BY <1>1, DeliveryInvariant, PTL

\* submitJobResult: the outcome and the result a row shows are those of the job's own
\* execution, on time or late.
THEOREM DeliveryStoresAsTold == DSpec => []StoredAsTold
BY DeliveryInvariant, PTL DEF DeliveryInv

\* retryBufferedJobResults and bufferJobResult: an outcome the server still waits for
\* is in its sidecar's hands or was lost in a restart or a logged drop, and the buffer
\* stays within its limit.
THEOREM DeliveryForgetsNothing == DSpec => []NothingForgotten
BY DeliveryInvariant, PTL DEF DeliveryInv

-----------------------------------------------------------------------------
(* Every step of a sidecar, of the network and of the server is a store call or
   leaves the store alone *)

LEMMA SubmitIsStoreStep ==
  ASSUME DeliveryInv, NEW id \in JobIDs, told[id] # NoJob,
         SubmitResult(id, told[id]) \/ Delivered(id) \/ Undelivered(id)
  PROVE  [Next]_vars
<1>1. told[id] \in JobResult
  BY SidecarFacts
<1>2. SubmitResult(id, told[id]) \/ UNCHANGED <<jobs, now>>
  BY DEF Delivered, Undelivered
<1> QED
  BY <1>1, <1>2 DEF Next, vars

LEMMA SidecarsCallStore == DeliveryInv /\ [DNext]_dvars => [Next]_vars
<1> SUFFICES ASSUME DeliveryInv, [DNext]_dvars PROVE [Next]_vars
  OBVIOUS
<1>1. CASE ServerStep
  BY <1>1, DeliveryConstants DEF ServerStep, Next
<1>2. ASSUME NEW n \in Nodes, Poll(n) \/ RetrySkip(n) \/ RetryDone(n) \/ ClaimLost(n) \/ Execute(n)
      PROVE  [Next]_vars
  BY <1>2 DEF Poll, RetrySkip, RetryDone, ClaimLost, Execute, vars
<1>3. ASSUME NEW n \in Nodes, Claimed(n) \/ ClaimUnanswered(n) \/ ClaimNothing(n)
      PROVE  [Next]_vars
  BY <1>3 DEF Claimed, ClaimUnanswered, ClaimNothing, Next
<1>4. ASSUME NEW n \in Nodes, RetryDelivered(n) \/ RetryUndelivered(n) PROVE [Next]_vars
  <2> DEFINE id == Head(todo[n]).job
  <2>1. todo[n] # <<>> /\ (Delivered(id) \/ Undelivered(id))
    BY <1>4 DEF RetryDelivered, RetryUndelivered
  <2>2. /\ todo[n] \in Seq(Entry) /\ Head(todo[n]) \in Entry
        /\ \A j \in JobIDs : InSeq(j, todo[n]) <=> InSeq(j, Tail(todo[n])) \/ j = id
    BY <2>1, SidecarFacts, InSeqTail
  <2>3. id \in JobIDs
    BY <2>2 DEF Entry
  <2>4. told[id] # NoJob
    BY <2>2, <2>3, SidecarFacts
  <2> HIDE DEF id
  <2> QED
    BY <2>1, <2>3, <2>4, SubmitIsStoreStep
<1>5. ASSUME NEW n \in Nodes, Submitted(n) \/ SubmitFailed(n) PROVE [Next]_vars
  <2>1. pc[n] = "submit" /\ \E id \in cur[n] : Delivered(id) \/ Undelivered(id)
    BY <1>5 DEF Submitted, SubmitFailed
  <2>2. PICK id \in cur[n] : Delivered(id) \/ Undelivered(id)
    BY <2>1
  <2>3. id \in JobIDs /\ told[id] # NoJob
    BY <2>1, <2>2, SidecarFacts
  <2> QED
    BY <2>2, <2>3, SubmitIsStoreStep
<1>6. ASSUME NEW n \in Nodes, Restart(n) \/ \E i \in DOMAIN buffer[n] : BackoffEnds(n, i)
      PROVE  [Next]_vars
  BY <1>6 DEF Restart, BackoffEnds, vars
<1>7. ASSUME NEW id \in JobIDs, ArrivesLate(id) PROVE [Next]_vars
  <2>1. told[id] # NoJob /\ SubmitResult(id, told[id])
    BY <1>7, SidecarFacts DEF ArrivesLate
  <2> QED
    BY <2>1, SubmitIsStoreStep
<1>8. CASE UNCHANGED dvars
  BY <1>8 DEF dvars, vars
<1> QED
  BY <1>1, <1>2, <1>3, <1>4, <1>5, <1>6, <1>7, <1>8 DEF DNext, SidecarStep

\* The pollers, their retries, restarts and the network that loses and delays their
\* requests do to the jobs table only what single store calls do: in particular
\* submitJobResult only ever submits the outcome of a job that was handed out and run.
THEOREM DeliveryImplementsStore == DSpec => Spec
<1>1. DInit => Init
  BY DEF DInit
<1>2. DeliveryInv /\ [DNext]_dvars => [Next]_vars
  BY SidecarsCallStore
<1> QED
  BY <1>1, <1>2, DeliveryInvariant, PTL DEF DSpec, Spec

\* The job lock holds under the pollers: expiry, late results and lost answers never
\* leave two conflicting jobs of a node active.
THEOREM DeliveryExclusion == DSpec => []OneActivePerLock
BY DeliveryImplementsStore, StoreExclusion, PTL

\* The rows stay consistent under retries and late results.
THEOREM DeliveryRowsConsistent == DSpec => []RowsConsistent
BY DeliveryImplementsStore, StoreRowsConsistent, PTL

\* With results retried, delayed and delivered twice, a job is still handed out at
\* most once, settled at most once, and its verdict never changes.
THEOREM DeliveryRefinesLifecycle == DSpec => RefinesLifecycle
BY DeliveryImplementsStore, StoreRefinesLifecycle, PTL
=============================================================================
