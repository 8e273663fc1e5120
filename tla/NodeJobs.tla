---------------------------- MODULE NodeJobs ----------------------------
(***************************************************************************)
(* The handlers around the job store: operators create jobs one by one and   *)
(* in bulk, label nodes, put them in maintenance and remove them; sidecars   *)
(* poll and report; timed-out jobs are counted when somebody sees them.      *)
(*                                                                         *)
(* JobStore makes every store call one action.  A handler makes several      *)
(* (look the node up, then create; read the labels, then write them; load     *)
(* the job, then settle it), and other requests run in between, the removal   *)
(* of the node among them.  The store is SQLite's: a job row of a node that   *)
(* is gone is refused by its foreign key.                                    *)
(*                                                                         *)
(* Labels are sets of keys, each with the one value that matters; events and  *)
(* audit entries go where the counters go and are left out.                  *)
(***************************************************************************)
EXTENDS JobStore, FiniteSets

CONSTANTS
  Requests,   \* requests that may be in progress at the same time
  LabelKeys   \* keys of node labels

VARIABLES
  nodes,      \* per node: whether it is there, its labels, its maintenance flag
  ops,        \* per request: the handler in progress
  timedOut,   \* timedOutJobs: jobs whose timeout has been observed
  counted     \* per job: how often it went into the finished-job counters

nvars == <<jobs, now, nodes, ops, timedOut, counted>>

Idle == [step |-> "idle"]
Gone == [there |-> FALSE, labels |-> {}, maintenance |-> FALSE]
Become(r, op) == ops' = [ops EXCEPT ![r] = op]
store == <<jobs, now>>
counters == <<timedOut, counted>>

NInit ==
  /\ Init
  /\ nodes = [n \in Nodes |-> [Gone EXCEPT !.there = TRUE]]
  /\ ops = [r \in Requests |-> Idle]
  /\ timedOut = {}
  /\ counted = [id \in JobIDs |-> 0]

-----------------------------------------------------------------------------
(* Nodes, labels, maintenance                                                *)

NodeExists(n) == nodes[n].there
SetNodeLabels(n, labels) == NodeExists(n) /\ nodes' = [nodes EXCEPT ![n].labels = labels]
SetNodeMaintenance(n, on) == NodeExists(n) /\ nodes' = [nodes EXCEPT ![n].maintenance = on]

setNodeLabels(n, labels) ==
  /\ nodes[n].labels # labels
  /\ SetNodeLabels(n, labels)
  /\ UNCHANGED <<store, ops, counters>>

setNodeMaintenance(n, on) ==
  /\ nodes[n].maintenance # on
  /\ SetNodeMaintenance(n, on)
  /\ UNCHANGED <<store, ops, counters>>

\* The node row goes and takes labels and jobs with it.
deleteNode(n) ==
  /\ NodeExists(n)
  /\ DeleteNode(n)
  /\ nodes' = [nodes EXCEPT ![n] = Gone]
  /\ UNCHANGED <<ops, counters>>

\* An enrollment under the same identifier starts without either.
enrollAgain(n) ==
  /\ ~NodeExists(n)
  /\ nodes' = [nodes EXCEPT ![n].there = TRUE]
  /\ UNCHANGED <<store, ops, counters>>

-----------------------------------------------------------------------------
(* Creating jobs                                                             *)

\* Slip: the memory store's way, where no foreign key refuses the row.
CreateUnchecked(n, type, key) ==
  \/ \E id \in JobIDs : CreateJob(id, n, type, key)
  \/ CreateJobConflict(n, type, key)

\* The create call as a handler sees it: a row, a conflict, or an error because
\* the node is gone.
CreateNodeJob(n, type, key) ==
  \/ NodeExists(n) /\ \E id \in JobIDs : CreateJob(id, n, type, key)
  \/ CreateJobConflict(n, type, key)
  \/ ~NodeExists(n) /\ UNCHANGED store

Unsettled(r, n) == ops[r] = Idle /\ NodeExists(n)
Prepared(n, type, key) == [step |-> "create", node |-> n, type |-> type, key |-> key]

\* Four handlers up to their CreateJob.  What two of them look up among the node's
\* jobs (the listing expires leases) is the probe, or the backup to restore.
\* POST jobs: operators may only ask for deep probes.
createNodeJob(r, n) ==
  /\ Unsettled(r, n)
  /\ Become(r, Prepared(n, "deep_probe", NoKey))
  /\ UNCHANGED <<store, nodes, counters>>

createRestartJob(r, n) ==
  /\ Unsettled(r, n)
  /\ Become(r, Prepared(n, "restart", NoKey))
  /\ UNCHANGED <<store, nodes, counters>>

\* A settled apply whose result names a backup.
RollbackBackupFromJob(job) ==
  job.type = "config_apply" /\ Terminal(job) /\ job.result # NoResult

\* Among the newest DefaultJobListLimit jobs, more than the instances have.
findRollbackBackup(n) ==
  ListNodeJobs /\ \E id \in JobIDs : jobs[id].node = n /\ RollbackBackupFromJob(jobs[id])

createRollbackJob(r, n) ==
  /\ Unsettled(r, n)
  /\ findRollbackBackup(n)
  /\ Become(r, Prepared(n, "rollback", NoKey))
  /\ UNCHANGED <<nodes, counters>>

\* What the plan holds and which probe it needs is the business of DesiredConfig.
createConfigApplyJob(r, n, key) ==
  /\ Unsettled(r, n)
  /\ ListNodeJobs
  /\ Become(r, Prepared(n, "config_apply", key))
  /\ UNCHANGED <<nodes, counters>>

\* The CreateJob of any of the four.
finishCreate(r) ==
  /\ ops[r].step = "create"
  /\ CreateNodeJob(ops[r].node, ops[r].type, ops[r].key)
  /\ Become(r, Idle)
  /\ UNCHANGED <<nodes, counters>>

\* The nodes of a bulk request: an explicit set, of which every node must be
\* known, or those that carry all labels of the selector.
nodeMatchesLabels(n, selector) == selector \subseteq nodes[n].labels

ListNodesFiltered(selector) == {n \in Nodes : NodeExists(n) /\ nodeMatchesLabels(n, selector)}

resolveTargetNodes(ids, selector, includeMaintenance) ==
  {n \in IF ids # {} THEN ids ELSE ListNodesFiltered(selector) :
     includeMaintenance \/ ~nodes[n].maintenance}

\* POST jobs/bulk: a deep probe for every target, one call after the other.
bulkJobs(r, ids, selector, include) ==
  LET targets == resolveTargetNodes(ids, selector, include) IN
  /\ ops[r] = Idle
  /\ (ids = {}) # (selector = {})
  /\ \A n \in ids : NodeExists(n)
  /\ targets # {}
  /\ Become(r, [step |-> "bulk", todo |-> targets])
  /\ UNCHANGED <<store, nodes, counters>>

bulkJob(r, n) ==
  /\ ops[r].step = "bulk" /\ n \in ops[r].todo
  /\ CreateNodeJob(n, "deep_probe", NoKey)
  /\ Become(r, IF ops[r].todo = {n} THEN Idle ELSE [ops[r] EXCEPT !.todo = @ \ {n}])
  /\ UNCHANGED <<nodes, counters>>

\* PUT nodes/labels: for every target the labels are read, merged and written.
\* The request ends where a node turns out to be gone.
bulkNodeLabels(r, ids, selector, include, labels) ==
  LET targets == resolveTargetNodes(ids, selector, include) IN
  /\ ops[r] = Idle
  /\ labels # {}
  /\ (ids = {}) # (selector = {})
  /\ \A n \in ids : NodeExists(n)
  /\ targets # {}
  /\ Become(r, [step |-> "read", todo |-> targets, labels |-> labels])
  /\ UNCHANGED <<store, nodes, counters>>

bulkReadLabels(r, n) ==
  /\ ops[r].step = "read" /\ n \in ops[r].todo
  /\ Become(r, IF NodeExists(n)
               THEN [step |-> "merge", todo |-> ops[r].todo \ {n}, labels |-> ops[r].labels,
                     node |-> n, merged |-> nodes[n].labels \cup ops[r].labels]
               ELSE Idle)
  /\ UNCHANGED <<store, nodes, counters>>

bulkWriteLabels(r) ==
  LET op == ops[r] IN
  /\ op.step = "merge"
  /\ \/ /\ SetNodeLabels(op.node, op.merged)
        /\ Become(r, IF op.todo = {} THEN Idle
                     ELSE [step |-> "read", todo |-> op.todo, labels |-> op.labels])
     \/ /\ ~NodeExists(op.node)
        /\ Become(r, Idle)
        /\ UNCHANGED nodes
  /\ UNCHANGED <<store, counters>>

-----------------------------------------------------------------------------
(* Counting what sidecars finish and what nobody finished                    *)

Count(ids) == counted' = [id \in JobIDs |-> counted[id] + IF id \in ids THEN 1 ELSE 0]

\* Slip: a timed-out job is counted whenever it is seen.
observeEveryTime(ids) == Count(ids) /\ timedOut' = timedOut \cup ids

\* markTimedOutJobObserved: each timed-out job is counted when first seen.
observeTimedOutJobs(ids) == Count(ids \ timedOut) /\ timedOut' = timedOut \cup ids

\* GET jobs, and a poll that finds nothing pending: both list the node's jobs.
listNodeJobs(n) ==
  /\ ListNodeJobs
  /\ observeTimedOutJobs({id \in JobIDs : jobs'[id].node = n /\ IsJobClaimTimeout(jobs'[id])})
  /\ UNCHANGED <<nodes, ops>>

claimNextJob(n) ==
  /\ NodeExists(n)
  /\ ClaimNextJob(n)
  /\ UNCHANGED <<nodes, ops, counters>>

\* POST result: the job is loaded, and counted at once if it has timed out ...
submitJobResult(r, id, res) ==
  /\ ops[r] = Idle
  /\ jobs[id].status \notin {"absent", "pending", "deleted"}
  /\ observeTimedOutJobs({i \in {id} : IsJobClaimTimeout(jobs[i])})
  /\ Become(r, [step |-> "settle", id |-> id, res |-> res])
  /\ UNCHANGED <<store, nodes>>

\* ... then settled.  Only a result that settles it is counted, not a late one.
settleJob(r) ==
  LET op == ops[r] IN
  /\ op.step = "settle"
  /\ SubmitResult(op.id, op.res)
  /\ Count({i \in {op.id} : jobs[i].status = "claimed"})
  /\ Become(r, Idle)
  /\ UNCHANGED <<nodes, timedOut>>

pruneAndTick ==
  /\ PruneTerminalJobs \/ Tick
  /\ UNCHANGED <<nodes, ops, counters>>

NNext ==
  \/ \E n \in Nodes :
       \/ \E labels \in SUBSET LabelKeys : setNodeLabels(n, labels)
       \/ \E on \in BOOLEAN : setNodeMaintenance(n, on)
       \/ deleteNode(n) \/ enrollAgain(n) \/ listNodeJobs(n) \/ claimNextJob(n)
  \/ \E r \in Requests :
       \/ \E n \in Nodes :
            \/ createNodeJob(r, n) \/ createRestartJob(r, n) \/ createRollbackJob(r, n)
            \/ \E key \in Keys : createConfigApplyJob(r, n, key)
       \/ finishCreate(r)
       \/ \E ids \in SUBSET Nodes, selector \in SUBSET LabelKeys, include \in BOOLEAN :
            \/ bulkJobs(r, ids, selector, include)
            \/ \E labels \in SUBSET LabelKeys : bulkNodeLabels(r, ids, selector, include, labels)
       \/ \E n \in Nodes : bulkJob(r, n) \/ bulkReadLabels(r, n)
       \/ bulkWriteLabels(r)
       \/ \E id \in JobIDs, res \in JobResult : submitJobResult(r, id, res)
       \/ settleJob(r)
  \/ pruneAndTick

NSpec == NInit /\ [][NNext]_nvars

-----------------------------------------------------------------------------
(* Properties                                                                *)

\* A node that is gone has no labels and no flag, handlers only name known nodes
\* and jobs, and the observed timeouts are jobs.
NodeJobsTypeOK ==
  /\ TypeOK
  /\ \A n \in Nodes : /\ nodes[n].there \in BOOLEAN
                      /\ nodes[n].labels \subseteq LabelKeys /\ nodes[n].maintenance \in BOOLEAN
                      /\ ~nodes[n].there => nodes[n] = Gone
  /\ \A r \in Requests : ops[r].step \in {"idle", "create", "bulk", "read", "merge", "settle"}
  /\ timedOut \subseteq JobIDs
  /\ counted \in [JobIDs -> Nat]

\* createNodeJob, bulkJobs: a removal that comes between the look at the node and
\* the creation of the job, or between two nodes of a bulk request, leaves nothing
\* behind: no job that nobody would ever claim, no labels, no flag.
NoOrphanJobs ==
  /\ NodeJobsTypeOK
  /\ \A id \in JobIDs :
       jobs[id].status \notin {"absent", "deleted"} => NodeExists(jobs[id].node)

\* submitJobResult, observeTimedOutJobs: whoever sees a timeout first, and however
\* results are repeated or late, a job is counted as finished at most once.
CountedOnce == \A id \in JobIDs : counted[id] <= 1
=============================================================================
