--------------------------- MODULE JobDelivery ---------------------------
(***************************************************************************)
(* The sidecars' job pollers on top of the job store: each poll retries     *)
(* the buffered results, claims the next job, executes it and submits its   *)
(* result.  Requests and answers get lost, a request may reach the server   *)
(* after its sender gave up, sidecars restart with an empty buffer, and the  *)
(* buffer drops its oldest entry when full.                                 *)
(*                                                                         *)
(* A job's work is abstracted to one step that picks its outcome.  Backoff  *)
(* is abstracted to an entry being due or not, and may end at any moment.   *)
(***************************************************************************)
EXTENDS JobStore, Sequences, SequencesExt

CONSTANTS
  Types,        \* job types operators create
  BufferLimit   \* resultBufferLimit

ASSUME DeliveryConstants ==
  /\ Types \subseteq JobTypes
  /\ BufferLimit \in Nat \ {0}

VARIABLES
  pc,       \* where each node's poller is
  cur,      \* the job a poller holds, with its result once executed
  buffer,   \* resultBuffer; while retrying, what was kept so far
  todo,     \* what retryBufferedJobResults has not looked at yet
  flying,   \* results whose sender gave up and that may still arrive
  runs,     \* how often each job was executed
  told,     \* the outcome of each job's execution
  gone      \* jobs whose result a restart or a full buffer has dropped

sidecar == <<pc, cur, buffer, todo, runs, told, gone>>
dvars == <<jobs, now, pc, cur, buffer, todo, flying, runs, told, gone>>

NoJob == [status |-> "none", payload |-> NoResult]

Entry == [job : JobIDs, due : BOOLEAN]

DeliveryTypeOK ==
  /\ TypeOK
  /\ pc \in [Nodes -> {"idle", "retry", "claim", "execute", "submit"}]
  /\ cur \in [Nodes -> SUBSET JobIDs]
  /\ buffer \in [Nodes -> Seq(Entry)] /\ todo \in [Nodes -> Seq(Entry)]
  /\ \A n \in Nodes : Len(buffer[n]) + Len(todo[n]) <= BufferLimit
  /\ flying \subseteq JobIDs
  /\ runs \in [JobIDs -> 0..2]
  /\ told \in [JobIDs -> JobResult \cup {NoJob}]
  /\ gone \subseteq JobIDs

DInit ==
  /\ Init
  /\ pc = [n \in Nodes |-> "idle"]
  /\ cur = [n \in Nodes |-> {}]
  /\ buffer = [n \in Nodes |-> <<>>]
  /\ todo = buffer
  /\ flying = {}
  /\ runs = [id \in JobIDs |-> 0]
  /\ told = [id \in JobIDs |-> NoJob]
  /\ gone = {}

Goes(n, where) == pc' = [pc EXCEPT ![n] = where]

-----------------------------------------------------------------------------
(* submitJobResult of the sidecar *)

\* The request gets through, the server answers 200 and the answer arrives.
Delivered(id) ==
  /\ SubmitCode(jobs[id]) = 200
  /\ SubmitResult(id, told[id])
  /\ UNCHANGED flying

\* The sidecar sees an error: the request was lost before or on its way (and may
\* still arrive), the answer was lost, or the server refused (404, 500).
Undelivered(id) ==
  \/ flying' \in {flying, flying \cup {id}} /\ UNCHANGED <<jobs, now>>
  \/ SubmitResult(id, told[id]) /\ UNCHANGED flying

\* A request arrives that nobody waits for any more.
ArrivesLate(id) ==
  /\ id \in flying
  /\ SubmitResult(id, told[id])
  /\ flying' = flying \ {id}
  /\ UNCHANGED sidecar

-----------------------------------------------------------------------------
(* PollAndExecute *)

\* The ticker fires: retryBufferedJobResults starts on the whole buffer.
Poll(n) ==
  /\ pc[n] = "idle"
  /\ Goes(n, "retry")
  /\ todo' = [todo EXCEPT ![n] = buffer[n]]
  /\ buffer' = [buffer EXCEPT ![n] = <<>>]
  /\ UNCHANGED <<jobs, now, cur, flying, runs, told, gone>>

Keep(n, entry) == buffer' = [buffer EXCEPT ![n] = Append(@, entry)]

\* One entry of the buffer: not due yet, delivered, or kept for later.
RetrySkip(n) ==
  /\ pc[n] = "retry" /\ todo[n] # <<>> /\ ~Head(todo[n]).due
  /\ Keep(n, Head(todo[n]))
  /\ todo' = [todo EXCEPT ![n] = Tail(@)]
  /\ UNCHANGED <<jobs, now, pc, cur, flying, runs, told, gone>>

RetryDelivered(n) ==
  /\ pc[n] = "retry" /\ todo[n] # <<>> /\ Head(todo[n]).due
  /\ Delivered(Head(todo[n]).job)
  /\ todo' = [todo EXCEPT ![n] = Tail(@)]
  /\ UNCHANGED <<pc, cur, buffer, runs, told, gone>>

\* Slip: a result gets one retry only.
RetryOnce(n) ==
  /\ pc[n] = "retry" /\ todo[n] # <<>> /\ Head(todo[n]).due
  /\ Undelivered(Head(todo[n]).job)
  /\ todo' = [todo EXCEPT ![n] = Tail(@)]
  /\ UNCHANGED <<pc, cur, buffer, runs, told, gone>>

RetryUndelivered(n) ==
  /\ pc[n] = "retry" /\ todo[n] # <<>> /\ Head(todo[n]).due
  /\ Undelivered(Head(todo[n]).job)
  /\ Keep(n, [Head(todo[n]) EXCEPT !.due = FALSE])
  /\ todo' = [todo EXCEPT ![n] = Tail(@)]
  /\ UNCHANGED <<pc, cur, runs, told, gone>>

RetryDone(n) ==
  /\ pc[n] = "retry" /\ todo[n] = <<>>
  /\ Goes(n, "claim")
  /\ UNCHANGED <<jobs, now, cur, buffer, todo, flying, runs, told, gone>>

\* The identifier the store has just handed out.
Handed(id) == jobs[id].status = "pending" /\ jobs'[id].status = "claimed"

Claimed(n) ==
  /\ pc[n] = "claim"
  /\ ClaimNextJob(n)
  /\ Goes(n, "execute")
  /\ cur' = [cur EXCEPT ![n] = {id \in JobIDs : Handed(id)}]
  /\ UNCHANGED <<buffer, todo, flying, runs, told, gone>>

\* The server handed a job out and the answer got lost: nobody will run it.
ClaimUnanswered(n) ==
  /\ pc[n] = "claim"
  /\ ClaimNextJob(n)
  /\ Goes(n, "idle")
  /\ UNCHANGED <<cur, buffer, todo, flying, runs, told, gone>>

\* Nothing pending: the server lists the node's jobs and answers 204.
ClaimNothing(n) ==
  /\ pc[n] = "claim"
  /\ \A id \in JobIDs : jobs[id].node = n => jobs[id].status # "pending"
  /\ ListNodeJobs
  /\ Goes(n, "idle")
  /\ UNCHANGED <<cur, buffer, todo, flying, runs, told, gone>>

\* The request does not reach the server.
ClaimLost(n) ==
  /\ pc[n] = "claim"
  /\ Goes(n, "idle")
  /\ UNCHANGED <<jobs, now, cur, buffer, todo, flying, runs, told, gone>>

\* executeJob
Execute(n) ==
  /\ pc[n] = "execute"
  /\ \E id \in cur[n], res \in JobResult :
       /\ told' = [told EXCEPT ![id] = res]
       /\ runs' = [runs EXCEPT ![id] = IF @ < 2 THEN @ + 1 ELSE @]
  /\ Goes(n, "submit")
  /\ UNCHANGED <<jobs, now, cur, buffer, todo, flying, gone>>

Submitted(n) ==
  /\ pc[n] = "submit"
  /\ \E id \in cur[n] : Delivered(id)
  /\ Goes(n, "idle")
  /\ cur' = [cur EXCEPT ![n] = {}]
  /\ UNCHANGED <<buffer, todo, runs, told, gone>>

\* Slip: a full buffer turns the new result away; nothing is logged as dropped.
BufferKeepingOld(n, id) ==
  /\ buffer' = [buffer EXCEPT ![n] = IF Len(@) >= BufferLimit THEN @
                                     ELSE Append(@, [job |-> id, due |-> FALSE])]
  /\ UNCHANGED gone

\* bufferJobResult: a full buffer drops its oldest result.
bufferJobResult(n, id) ==
  LET full == Len(buffer[n]) >= BufferLimit
      kept == IF full THEN Tail(buffer[n]) ELSE buffer[n]
  IN  /\ buffer' = [buffer EXCEPT ![n] = Append(kept, [job |-> id, due |-> FALSE])]
      /\ gone' = IF full THEN gone \cup {Head(buffer[n]).job} ELSE gone

SubmitFailed(n) ==
  /\ pc[n] = "submit"
  /\ \E id \in cur[n] : Undelivered(id) /\ bufferJobResult(n, id)
  /\ Goes(n, "idle")
  /\ cur' = [cur EXCEPT ![n] = {}]
  /\ UNCHANGED <<todo, runs, told>>

BackoffEnds(n, i) ==
  /\ ~buffer[n][i].due
  /\ buffer' = [buffer EXCEPT ![n][i].due = TRUE]
  /\ UNCHANGED <<jobs, now, pc, cur, todo, flying, runs, told, gone>>

\* The results a sidecar still has to deliver.
Held(n) ==
  {e.job : e \in ToSet(buffer[n]) \cup ToSet(todo[n])}
    \cup IF pc[n] = "submit" THEN cur[n] ELSE {}

\* The sidecar restarts: the buffer is only in memory.
Restart(n) ==
  /\ pc[n] # "idle" \/ buffer[n] # <<>>
  /\ Goes(n, "idle")
  /\ gone' = gone \cup Held(n)
  /\ cur' = [cur EXCEPT ![n] = {}]
  /\ buffer' = [buffer EXCEPT ![n] = <<>>]
  /\ todo' = [todo EXCEPT ![n] = <<>>]
  /\ UNCHANGED <<jobs, now, flying, runs, told>>

-----------------------------------------------------------------------------

\* What the rest of the server does to the jobs table.
ServerStep ==
  /\ \/ \E id \in JobIDs, n \in Nodes, type \in Types, key \in Keys \cup {NoKey} :
          CreateJob(id, n, type, key)
     \/ ListNodeJobs
     \/ PruneTerminalJobs
     \/ \E n \in Nodes : DeleteNode(n)
     \/ Tick
  /\ UNCHANGED <<sidecar, flying>>

SidecarStep(n) ==
  \/ Poll(n) \/ RetrySkip(n) \/ RetryDelivered(n) \/ RetryUndelivered(n) \/ RetryDone(n)
  \/ Claimed(n) \/ ClaimUnanswered(n) \/ ClaimNothing(n) \/ ClaimLost(n)
  \/ Execute(n) \/ Submitted(n) \/ SubmitFailed(n)

DNext ==
  \/ ServerStep
  \/ \E n \in Nodes : SidecarStep(n) \/ Restart(n) \/ \E i \in DOMAIN buffer[n] : BackoffEnds(n, i)
  \/ \E id \in JobIDs : ArrivesLate(id)

DSpec == DInit /\ [][DNext]_dvars

\* Time passes, the poller's ticker goes on, backoff ends, not every poll is cut
\* off by a restart before its claim, and the network is not down for ever: a
\* request that could get through again and again does so once.
DFairSpec ==
  /\ DSpec
  /\ WF_dvars(Tick /\ UNCHANGED <<sidecar, flying>>)
  /\ \A n \in Nodes :
       /\ WF_dvars(SidecarStep(n))
       /\ SF_dvars(RetryDone(n))
       /\ SF_dvars(Claimed(n) \/ ClaimNothing(n))
       /\ SF_dvars(RetryDelivered(n))
       /\ SF_dvars(\E i \in DOMAIN buffer[n] : BackoffEnds(n, i))

-----------------------------------------------------------------------------
(* Properties *)

\* No job is executed twice, whatever requests and answers get lost, whoever
\* restarts, and however late results and expiries come.
ExecutedOnce == \A id \in JobIDs : runs[id] <= 1

\* What the store shows is what the sidecar found: a completed job completed, a
\* failure the sidecar reported is one, and a result is the job's own.
StoredAsTold ==
  \A id \in JobIDs :
    /\ jobs[id].status = "completed" => told[id].status = "completed"
    /\ jobs[id].error = "reported" => told[id].status = "failed"
    /\ jobs[id].result # NoResult => jobs[id].result = told[id].payload

\* An outcome is never silently forgotten: until the server has it (or the job
\* was deleted), its sidecar still holds it, unless a restart or a logged drop
\* has lost it; and the buffer that holds it stays within its limit.
NothingForgotten ==
  /\ DeliveryTypeOK
  /\ \A id \in JobIDs :
       told[id] # NoJob /\ (jobs[id].status = "claimed" \/ jobs[id].error = "timeout")
         => id \in gone \/ \E n \in Nodes : id \in Held(n)

\* A result that its sidecar keeps reaches the server in the end.
ResultsArrive ==
  \A id \in JobIDs :
    (\E n \in Nodes : id \in Held(n))
      ~> \/ id \in gone
         \/ jobs[id].status = "deleted"
         \/ Terminal(jobs[id]) /\ jobs[id].error # "timeout"

\* A claim does not outlive its lease by more than the time to the next poll: a
\* job whose answer was lost or whose sidecar died is settled (or deleted) in the
\* end, and its lock is free again.  MaxNow ends the model's time, so only leases
\* that run out before it are meant.
ClaimsEnd ==
  \A id \in JobIDs :
    jobs[id].status = "claimed" /\ jobs[id].expires <= MaxNow
      ~> jobs[id].status # "claimed"
=============================================================================
