-------------------------- MODULE RolloutEngine --------------------------
(***************************************************************************)
(* internal/rollout: the pure stepper.  Step takes one rollout snapshot and *)
(* what its collaborators would answer, and returns the next snapshot with  *)
(* the jobs it asked for.  The collaborators' answers are the record w:     *)
(*                                                                         *)
(*   w.future        StartAt is still ahead                                *)
(*   w.dispatchable  nodes for which DispatchConfigApply succeeds           *)
(*   w.restorable    nodes for which DispatchRollback succeeds              *)
(*   w.unreadable    nodes for which NodeHealth returns an error            *)
(*   w.offline       nodes whose heartbeat is too old                       *)
(*   w.completed, w.failed   job identifiers by outcome                     *)
(*   w.due           jobs dispatched at least HealthTimeout ago             *)
(*   w.matching      nodes whose last heartbeat shows the rollout's target  *)
(*   w.next          number of jobs so far: new jobs are numbered from here *)
(*                                                                         *)
(* Loops over NodeIDs that pass over some nodes are written with the nodes   *)
(* they stop at (Among), and those that end at the first failure with the   *)
(* index of that failure.  Reasons, error texts and timestamps other than   *)
(* the health deadline are left out.                                        *)
(***************************************************************************)
EXTENDS Naturals, Sequences, FiniteSets, FiniteSetsExt, SequencesExt

CONSTANT Nodes

\* The code also declares "failed" for batches and rollouts and never assigns it.
NodeStates == {"pending", "dispatched", "succeeded", "failed", "timed_out", "offline"}
BatchStates == {"pending", "running", "paused", "completed"}
RolloutStates == {"pending", "scheduled", "running", "paused", "completed", "aborted"}

\* RolloutNodeProgress.  job and rollback are job identifiers, 0 for none;
\* RolledBack is set exactly when RollbackJobID is.
NoProgress == [state |-> "pending", job |-> 0, rollback |-> 0]

terminal(state) == state \in {"completed", "aborted"}

\* What is left of s when a loop looks at the positions in P only, in their order.
Pick(s, P) ==
  [i \in 1..Cardinality(P) |-> s[CHOOSE p \in P : Cardinality({q \in P : q <= p}) = i]]

\* The elements of s that are in S, in their order.
Among(s, S) == Pick(s, {i \in DOMAIN s : s[i] \in S})

NodesIn(ro, state) == {n \in Nodes : ro.prog[n].state = state}

\* Somewhere to go; the target and its runtime are always given here.
ValidateRolloutSpec(spec) == spec.nodes # <<>>

\* PlanBatches: consecutive slices of batchSize nodes, the last one shorter.
PlanBatches(nodeIDs, batchSize) ==
  LET size == IF batchSize = 0 THEN 1 ELSE batchSize
      count == (Len(nodeIDs) + size - 1) \div size
  IN  [k \in 1..count |->
         [nodes |-> SubSeq(nodeIDs, (k - 1) * size + 1, Min({k * size, Len(nodeIDs)})),
          state |-> "pending"]]

BatchIndices(ro, states) == {k \in DOMAIN ro.batches : ro.batches[k].state \in states}

\* activeBatchIndex, 0 for none.
activeBatchIndex(ro) ==
  LET open == BatchIndices(ro, {"pending", "running", "paused"})
  IN  IF open = {} THEN 0 ELSE Min(open)

\* Slip: nodes that are still at work count as done.
BatchDispatched(ro, k) ==
  \A n \in ToSet(ro.batches[k].nodes) : ro.prog[n].state \in {"dispatched", "succeeded"}

batchComplete(ro, k) ==
  \A n \in ToSet(ro.batches[k].nodes) : ro.prog[n].state = "succeeded"

\* The first batch in one of the given states, if any, is moved to the other.
FirstBatchTo(ro, states, state) ==
  LET ks == BatchIndices(ro, states)
  IN  IF ks = {} THEN ro ELSE [ro EXCEPT !.batches[Min(ks)].state = state]

StartBatch(ro, k) ==
  IF ro.batches[k].state = "pending" THEN [ro EXCEPT !.batches[k].state = "running"] ELSE ro

\* What a step returns: the next snapshot and the nodes it made apply and rollback
\* jobs for, in order.
Outcome(ro, apply) == [ro |-> ro, apply |-> apply, rollback |-> <<>>]

PositionIn(s, n) == CHOOSE i \in DOMAIN s : s[i] = n

-----------------------------------------------------------------------------
(* Pausing *)

pauseRollout(ro, failing) ==
  FirstBatchTo([ro EXCEPT !.state = "paused", !.failing = failing], {"running"}, "paused")

\* Slip: nodes that were rolled back already are not left out.
ToRollBackAgain(ro, k) ==
  IF ro.live /\ ro.autoRollback
  THEN Among(ro.batches[k].nodes, NodesIn(ro, "succeeded"))
  ELSE <<>>

\* The nodes of batch k that pauseBatchFailure tries to roll back, in order.
ToRollBack(ro, k) ==
  IF ro.live /\ ro.autoRollback
  THEN Among(ro.batches[k].nodes, {n \in NodesIn(ro, "succeeded") : ro.prog[n].rollback = 0})
  ELSE <<>>

\* pauseBatchFailure: node n of batch k failed after the jobs in sent were made.
pauseBatchFailure(ro, k, n, sent, w) ==
  LET undo == Among(ToRollBack(ro, k), w.restorable)
      prog == [m \in Nodes |->
                 IF m \in ToSet(undo)
                 THEN [ro.prog[m] EXCEPT !.rollback = w.next + Len(sent) + PositionIn(undo, m)]
                 ELSE ro.prog[m]]
  IN  [ro |-> pauseRollout([ro EXCEPT !.prog = prog], {n}),
       apply |-> sent, rollback |-> undo]

-----------------------------------------------------------------------------
(* One step *)

\* dispatchPending after the jobs in sent: pending nodes in order, up to the
\* first whose dispatch fails; that node stays pending and the rollout pauses.
dispatchPending(ro, k, sent, w) ==
  LET todo == Among(ro.batches[k].nodes, NodesIn(ro, "pending"))
      bad == {i \in DOMAIN todo : todo[i] \notin w.dispatchable}
      made == IF bad = {} THEN todo ELSE SubSeq(todo, 1, Min(bad) - 1)
      prog == [n \in Nodes |->
                 IF n \in ToSet(made)
                 THEN [ro.prog[n] EXCEPT !.state = "dispatched",
                                         !.job = w.next + Len(sent) + PositionIn(made, n)]
                 ELSE ro.prog[n]]
      next == [ro EXCEPT !.prog = prog]
  IN  IF bad = {} THEN Outcome(next, sent \o made)
      ELSE pauseBatchFailure(next, k, todo[Min(bad)], sent \o made, w)

\* Slip: no deadline, the engine waits for the node's answer.
VerdictWithoutDeadline(ro, n, w) ==
  LET job == ro.prog[n].job
  IN  IF n \in w.unreadable \/ job \in w.failed THEN "failed"
      ELSE IF n \in w.offline THEN "offline"
      ELSE IF job \in w.completed /\ (ro.live => n \in w.matching) THEN "succeeded"
      ELSE "dispatched"

\* Slip: an apply that has not failed is taken for one that succeeded.
VerdictNotFailed(ro, n, w) ==
  LET job == ro.prog[n].job
  IN  IF job \in w.due THEN "timed_out"
      ELSE IF n \in w.unreadable \/ job \in w.failed THEN "failed"
      ELSE IF n \in w.offline THEN "offline"
      ELSE "succeeded"

\* What evaluateBatch makes of one dispatched node.  The deadline is looked at
\* before the node's health: a success that comes too late is a timeout.
Verdict(ro, n, w) ==
  LET job == ro.prog[n].job
  IN  IF job \in w.due THEN "timed_out"
      ELSE IF n \in w.unreadable THEN "failed"
      ELSE IF n \in w.offline THEN "offline"
      ELSE IF job \in w.failed THEN "failed"
      ELSE IF job \in w.completed /\ (ro.live => n \in w.matching) THEN "succeeded"
      ELSE "dispatched"

Failures == {"failed", "timed_out", "offline"}

\* evaluateBatch: dispatched nodes in order, up to the first that failed.
evaluateBatch(ro, k, sent, w) ==
  LET out == Among(ro.batches[k].nodes, NodesIn(ro, "dispatched"))
      bad == {i \in DOMAIN out : Verdict(ro, out[i], w) \in Failures}
      seen == IF bad = {} THEN out ELSE SubSeq(out, 1, Min(bad))
      prog == [n \in Nodes |->
                 IF n \in ToSet(seen)
                 THEN [ro.prog[n] EXCEPT !.state = Verdict(ro, n, w)]
                 ELSE ro.prog[n]]
      next == [ro EXCEPT !.prog = prog]
  IN  IF bad = {} THEN Outcome(next, sent)
      ELSE pauseBatchFailure(next, k, out[Min(bad)], sent, w)

\* The batch that was just evaluated may be complete: finish, or open the next.
advance(ro, k, sent, w) ==
  LET closed == [ro EXCEPT !.batches[k].state = "completed"]
      next == activeBatchIndex(closed)
  IN  IF ~batchComplete(ro, k) THEN Outcome(ro, sent)
      ELSE IF next = 0 THEN Outcome([closed EXCEPT !.state = "completed"], sent)
      ELSE dispatchPending(StartBatch(closed, next), next, sent, w)

StepRunning(ro, w) ==
  LET k == activeBatchIndex(ro)
      sent == dispatchPending(StartBatch(ro, k), k, <<>>, w)
      seen == evaluateBatch(sent.ro, k, sent.apply, w)
  IN  IF k = 0 THEN Outcome([ro EXCEPT !.state = "completed"], <<>>)
      ELSE IF sent.ro.state = "paused" THEN sent
      ELSE IF seen.ro.state = "paused" THEN seen
      ELSE advance(seen.ro, k, seen.apply, w)

\* Step: one reconciliation of one snapshot.
Step(ro, w) ==
  IF terminal(ro.state) \/ ro.state = "paused" THEN Outcome(ro, <<>>)
  ELSE IF w.future THEN Outcome([ro EXCEPT !.state = "scheduled"], <<>>)
  ELSE StepRunning([ro EXCEPT !.state = "running"], w)

-----------------------------------------------------------------------------
(* Operator actions *)

\* Slip: an aborted rollout can be resumed.
ResumeAborted(ro) ==
  IF ro.state \in {"paused", "aborted"} THEN [ro EXCEPT !.state = "running"] ELSE ro

\* Resume: the first paused batch runs again, its unfinished nodes start afresh.
Resume(ro) ==
  LET ks == BatchIndices(ro, {"paused"})
      redo == IF ks = {} THEN {}
              ELSE {n \in ToSet(ro.batches[Min(ks)].nodes) : ro.prog[n].state # "succeeded"}
      prog == [n \in Nodes |-> IF n \in redo THEN NoProgress ELSE ro.prog[n]]
  IN  IF ro.state # "paused" THEN ro
      ELSE FirstBatchTo([ro EXCEPT !.state = "running", !.failing = {}, !.prog = prog],
                        {"paused"}, "running")

\* Slip: a rollout that has ended can still be aborted.
AbortAny(ro) == [ro EXCEPT !.state = "aborted"]

Abort(ro) == IF terminal(ro.state) THEN ro ELSE [ro EXCEPT !.state = "aborted"]

\* pauseRolloutForOperator: a batch that has not started may be marked, too.
PauseForOperator(ro) ==
  IF terminal(ro.state) THEN ro
  ELSE FirstBatchTo([ro EXCEPT !.state = "paused"], {"running", "pending"}, "paused")

OperatorAction(action, ro) ==
  CASE action = "pause"  -> PauseForOperator(ro)
    [] action = "resume" -> Resume(ro)
    [] action = "abort"  -> Abort(ro)
=============================================================================
