------------------------------ MODULE Alerts ------------------------------
(***************************************************************************)
(* From what happens in the server to what operators are told: the event     *)
(* hub with one bounded buffer per client, the event streams of browsers, and  *)
(* the alert dispatcher, a client that turns some events into webhook         *)
(* deliveries for a bounded queue, its workers and their retries.            *)
(*                                                                         *)
(* publish runs under the hub's lock and is one step.  Each client drains    *)
(* its buffer at its own pace; a client that is too slow is cut off.         *)
(* Payload texts, signatures and backoff times are left out.                 *)
(***************************************************************************)
EXTENDS Naturals, Sequences, FiniteSets, SequencesExt

CONSTANTS
  Nodes,         \* nodes of the fleet
  Hooks,         \* webhooks an operator may create
  Streams,       \* browsers that may open an event stream
  Workers,       \* alert workers
  None,
  RolloutStates, \* rollout states whose events the instance looks at
  ClientBuffer,  \* eventClientBuffer
  QueueSize,     \* places in the alert queue
  MaxAttempts,   \* attempts per delivery
  StaleAfter,    \* freshness policy
  OfflineAfter,
  MaxNow,        \* bound on the clock
  MaxEvents      \* bound on published events

Dispatcher == "dispatcher"
Deliveries == [event : 1..MaxEvents, hook : Hooks]
Work == [job : Deliveries, tries : 0..MaxAttempts - 1]  \* a worker's delivery, and the attempts made

ASSUME AlertsConstants ==
  /\ IsFiniteSet(Hooks) /\ IsFiniteSet(Workers)
  /\ None \notin Work /\ Dispatcher \notin Streams
  /\ {StaleAfter, OfflineAfter, MaxEvents} \subseteq Nat
  /\ {ClientBuffer, QueueSize, MaxAttempts, MaxNow} \subseteq Nat \ {0}
  /\ StaleAfter < OfflineAfter
  /\ RolloutStates \subseteq {"running", "paused", "aborted", "completed"}

VARIABLES
  now,
  heard,      \* per node: the last heartbeat, 0 when there was none
  inMaint,    \* nodes in maintenance mode
  hooks,      \* alert_webhooks: the subscribed alerts of each hook, {} when absent
  log,        \* history: the published events
  chan,       \* per client: its channel, closed or open, and what is buffered
  from,       \* history: per client, length of log when it subscribed
  got,        \* history: per client, how many events it has received
  pending,    \* targets of the alert that handleEvent has not enqueued yet
  queue,      \* the dispatcher's queue
  work,       \* per worker: its delivery and the attempts made, or None
  settled,    \* history: deliveries and how they ended
  owed,       \* history: deliveries that were due when handleEvent took their event
  unlisted    \* history: alerts whose webhooks the store failed to list

fleet == <<now, heard, inMaint, hooks>>
hub == <<log, chan, from>>
dispatch == <<pending, queue, work, settled, owed, unlisted>>
vars == <<fleet, hub, got, dispatch>>

Clients == Streams \cup {Dispatcher}
AlertTypes == {"node.offline", "node.drift", "rollout.paused", "rollout.failed"}
Events == [name : {"node"}, node : Nodes, state : {"fresh", "stale", "offline"}, drift : BOOLEAN]
            \cup [name : {"rollout"}, state : RolloutStates]
            \cup [name : {"job"}]

AlertsTypeOK ==
  /\ now \in 1..MaxNow /\ heard \in [Nodes -> 0..MaxNow] /\ inMaint \subseteq Nodes
  /\ hooks \in [Hooks -> SUBSET AlertTypes]
  /\ log \in Seq(Events) /\ Len(log) <= MaxEvents
  /\ chan \in [Clients -> [open : BOOLEAN, buf : Seq(Events)]]
  /\ \A c \in Clients : Len(chan[c].buf) <= ClientBuffer
  /\ from \in [Clients -> 0..MaxEvents] /\ got \in [Clients -> 0..MaxEvents]
  /\ pending \subseteq Deliveries
  /\ queue \in Seq(Deliveries) /\ Len(queue) <= QueueSize
  /\ work \in [Workers -> Work \cup {None}]
  /\ settled \subseteq [job : Deliveries, how : {"succeeded", "failed", "dropped"}]
  /\ owed \subseteq Deliveries /\ unlisted \subseteq 1..MaxEvents

Init ==
  /\ now = 1 /\ heard = [n \in Nodes |-> 0] /\ inMaint = {}
  /\ hooks = [w \in Hooks |-> {}]
  /\ log = <<>>
  /\ chan = [c \in Clients |-> [open |-> c = Dispatcher, buf |-> <<>>]]
  /\ from = [c \in Clients |-> 0] /\ got = from
  /\ pending = {} /\ queue = <<>> /\ work = [w \in Workers |-> None] /\ settled = {}
  /\ owed = {} /\ unlisted = {}

-----------------------------------------------------------------------------
(* The hub *)

\* Slip: a full buffer skips the event and keeps the client.
OfferSkipping(ch, ev) ==
  IF ch.open /\ Len(ch.buf) < ClientBuffer THEN [ch EXCEPT !.buf = Append(@, ev)] ELSE ch

\* What publish does to a client: the event is buffered, or the client is cut off
\* (and may still read what it has).
Offer(ch, ev) ==
  IF ~ch.open THEN ch
  ELSE IF Len(ch.buf) < ClientBuffer THEN [ch EXCEPT !.buf = Append(@, ev)]
  ELSE [ch EXCEPT !.open = FALSE]

publish(ev) ==
  /\ Len(log) < MaxEvents
  /\ log' = Append(log, ev)
  /\ chan' = [c \in Clients |-> Offer(chan[c], ev)]
  /\ UNCHANGED from

\* eventsStream: an authorized browser subscribes.
Subscribe(c) ==
  /\ ~chan[c].open
  /\ chan' = [chan EXCEPT ![c] = [open |-> TRUE, buf |-> <<>>]]
  /\ from' = [from EXCEPT ![c] = Len(log)]
  /\ got' = [got EXCEPT ![c] = 0]
  /\ UNCHANGED <<fleet, log, dispatch>>

\* The stream writes the next event to its browser.
Receive(c) ==
  /\ chan[c].buf # <<>>
  /\ chan' = [chan EXCEPT ![c].buf = Tail(@)]
  /\ got' = [got EXCEPT ![c] = @ + 1]
  /\ UNCHANGED <<fleet, log, from, dispatch>>

\* The request's context ends: the hub closes and forgets the channel.
Disconnect(c) ==
  /\ chan[c].open
  /\ chan' = [chan EXCEPT ![c] = [open |-> FALSE, buf |-> <<>>]]
  /\ UNCHANGED <<fleet, log, from, got, dispatch>>

-----------------------------------------------------------------------------
(* What happens in the server *)

StateFor(last, time) ==
  IF last = 0 THEN "offline"
  ELSE IF time - last <= StaleAfter THEN "fresh"
  ELSE IF time - last <= OfflineAfter THEN "stale" ELSE "offline"

\* publishNodeEvent of the heartbeat handler: the state is computed from the
\* heartbeat just recorded, and drift is not part of the event.
Heartbeat(n) ==
  /\ heard' = [heard EXCEPT ![n] = now]
  /\ publish([name |-> "node", node |-> n, state |-> StateFor(now, now), drift |-> FALSE])
  /\ UNCHANGED <<now, inMaint, hooks, got, dispatch>>

\* publishRolloutEvent: a rollout was created, stepped or acted upon.
RolloutEvent(state) ==
  /\ publish([name |-> "rollout", state |-> state])
  /\ UNCHANGED <<fleet, got, dispatch>>

publishJobEvent ==
  /\ publish([name |-> "job"])
  /\ UNCHANGED <<fleet, got, dispatch>>

SetNodeMaintenance(n, on) ==
  /\ inMaint' = IF on THEN inMaint \cup {n} ELSE inMaint \ {n}
  /\ UNCHANGED <<now, heard, hooks, hub, got, dispatch>>

\* ValidateAlertWebhookRequest: at least one event, all of them known.
ValidAlertEvents(events) == events # {} /\ events \subseteq AlertTypes

CreateAlertWebhook(w, events) == hooks' = [hooks EXCEPT ![w] = events]

createAlertWebhook(w, events) ==
  /\ hooks[w] = {} /\ ValidAlertEvents(events)
  /\ CreateAlertWebhook(w, events)
  /\ UNCHANGED <<now, heard, inMaint, hub, got, dispatch>>

deleteAlertWebhook(w) ==
  /\ hooks[w] # {}
  /\ hooks' = [hooks EXCEPT ![w] = {}]
  /\ UNCHANGED <<now, heard, inMaint, hub, got, dispatch>>

Tick ==
  /\ now < MaxNow
  /\ now' = now + 1
  /\ UNCHANGED <<heard, inMaint, hooks, hub, got, dispatch>>

-----------------------------------------------------------------------------
(* The dispatcher *)

mapAlertEvent(ev) ==
  CASE ev.name = "node" /\ ev.state = "offline" -> "node.offline"
    [] ev.name = "node" /\ ev.state # "offline" /\ ev.drift -> "node.drift"
    [] ev.name = "rollout" /\ ev.state = "paused" -> "rollout.paused"
    [] ev.name = "rollout" /\ ev.state = "failed" -> "rollout.failed"
    [] OTHER -> "none"

\* (Asked for node.offline and node.drift; the other node events are no alerts anyway.)
suppressMaintenanceNodeAlert(ev) == ev.name = "node" /\ ev.node \in inMaint

\* ListAlertWebhookTargets
Targets(ev) == {w \in Hooks : mapAlertEvent(ev) \in hooks[w]}

\* What comes of an alert: nothing when it is suppressed (a failing GetNodeMaintenance is
\* logged and suppresses nothing), its targets, or, when they cannot be listed, a line in the
\* server's log and nothing else.
Dispatch(n, ev) ==
  LET due == [event : {n}, hook : Targets(ev)]
  IN  \/ /\ suppressMaintenanceNodeAlert(ev)
         /\ pending' = {} /\ UNCHANGED <<owed, unlisted>>
      \/ pending' = due /\ owed' = owed \cup due /\ UNCHANGED unlisted
      \/ /\ mapAlertEvent(ev) # "none"
         /\ pending' = {} /\ owed' = owed \cup due /\ unlisted' = unlisted \cup {n}

\* runSubscriber takes the next event; its channel may be closed behind it.
handleEvent ==
  /\ pending = {} /\ chan[Dispatcher].buf # <<>>
  /\ chan' = [chan EXCEPT ![Dispatcher].buf = Tail(@)]
  /\ got' = [got EXCEPT ![Dispatcher] = @ + 1]
  /\ Dispatch(got'[Dispatcher], Head(chan[Dispatcher].buf))
  /\ UNCHANGED <<fleet, log, from, queue, work, settled>>

Settle(d, how) == settled' = settled \cup {[job |-> d, how |-> how]}

\* Slip: a full queue makes room by forgetting its oldest delivery.
EnqueueEvicting(d) ==
  /\ queue' = Append(IF Len(queue) < QueueSize THEN queue ELSE Tail(queue), d)
  /\ UNCHANGED settled

\* enqueue: a full queue drops the delivery and counts it.
enqueue(d) ==
  \/ Len(queue) < QueueSize /\ queue' = Append(queue, d) /\ UNCHANGED settled
  \/ Len(queue) >= QueueSize /\ Settle(d, "dropped") /\ UNCHANGED queue

EnqueueNext(d) ==
  /\ d \in pending
  /\ enqueue(d)
  /\ pending' = pending \ {d}
  /\ UNCHANGED <<fleet, hub, got, work, owed, unlisted>>

\* runWorker
Take(w) ==
  /\ work[w] = None /\ queue # <<>>
  /\ work' = [work EXCEPT ![w] = [job |-> Head(queue), tries |-> 0]]
  /\ queue' = Tail(queue)
  /\ UNCHANGED <<fleet, hub, got, pending, settled, owed, unlisted>>

Done(w, how) ==
  /\ Settle(work[w].job, how)
  /\ work' = [work EXCEPT ![w] = None]

\* Slip: the last attempt starts the count again.
RetryForEver(w) ==
  /\ work' = [work EXCEPT ![w].tries = (@ + 1) % MaxAttempts]
  /\ UNCHANGED settled

\* A network error, a 5xx or a 429: retried after a backoff, or given up.
RetryOrDrop(w) ==
  IF work[w].tries + 1 < MaxAttempts
  THEN work' = [work EXCEPT ![w].tries = @ + 1] /\ UNCHANGED settled
  ELSE Done(w, "dropped")

\* What a receiver may answer, and what attempt makes of it.
Answers == {"2xx", "4xx", "429", "5xx", "error"}
attempt(answer) ==
  [ok |-> answer = "2xx", retryable |-> answer \in {"429", "5xx", "error"}]

deliver(w) ==
  /\ work[w] # None
  /\ \E answer \in Answers :
       \/ attempt(answer).ok /\ Done(w, "succeeded")
       \/ ~attempt(answer).ok /\ attempt(answer).retryable /\ RetryOrDrop(w)
       \/ ~attempt(answer).ok /\ ~attempt(answer).retryable /\ Done(w, "failed")
  /\ UNCHANGED <<fleet, hub, got, pending, queue, owed, unlisted>>

-----------------------------------------------------------------------------

Happenings ==
  \/ \E n \in Nodes : Heartbeat(n) \/ \E on \in BOOLEAN : SetNodeMaintenance(n, on)
  \/ \E state \in RolloutStates : RolloutEvent(state)
  \/ publishJobEvent
  \/ \E w \in Hooks : deleteAlertWebhook(w) \/ createAlertWebhook(w, AlertTypes)
  \/ Tick

Delivering ==
  \/ handleEvent
  \/ \E d \in pending : EnqueueNext(d)
  \/ \E w \in Workers : Take(w) \/ deliver(w)

Next ==
  \/ Happenings
  \/ \E c \in Streams : Subscribe(c) \/ Receive(c) \/ Disconnect(c)
  \/ Delivering

Spec == Init /\ [][Next]_vars

\* The dispatcher's goroutines run, time passes, and every attempt ends (the
\* client has a timeout).  Receivers, browsers and operators owe nothing.
FairSpec ==
  /\ Spec
  /\ WF_vars(Tick)
  /\ WF_vars(handleEvent)
  /\ WF_vars(\E d \in pending : EnqueueNext(d))
  /\ \A w \in Workers : WF_vars(Take(w)) /\ WF_vars(deliver(w))

-----------------------------------------------------------------------------
(* Properties *)

\* A client sees every event from its subscription on, in order and without a gap,
\* until it is cut off; while its channel is open nothing published is missing.
StreamsAreContiguous ==
  \A c \in Clients :
    LET upto == from[c] + got[c] + Len(chan[c].buf)
    IN  /\ upto <= Len(log)
        /\ chan[c].buf = SubSeq(log, from[c] + got[c] + 1, upto)
        /\ chan[c].open => upto = Len(log)

\* The places a delivery can be in.
Underway == pending \cup ToSet(queue) \cup {work[w].job : w \in {v \in Workers : work[v] # None}}

\* What the dispatcher came to owe and could ask the store about.
Kept == {d \in owed : d.event \notin unlisted}

\* Every delivery due for an alert that the dispatcher has taken from its channel is under
\* way in one place or settled and counted once; the one way to lose it uncounted is that the
\* store fails while the alert's webhooks are listed, which loses the whole alert (the code
\* logs it and returns).  Buffers and queue stay within their limits.
DeliveriesAccounted ==
  /\ AlertsTypeOK
  /\ Kept = Underway \cup {s.job : s \in settled}
  /\ Cardinality(Kept) =
       Cardinality(pending) + Len(queue) + Cardinality({w \in Workers : work[w] # None})
         + Cardinality(settled)

\* A delivery under way is settled in the end: bounded attempts, every one of which
\* ends, and a queue that is drained.
DeliveriesSettle ==
  \A d \in Deliveries : d \in Underway ~> \E s \in settled : s.job = d

\* "Operator-configured webhooks receive alerts for `node.offline`" (docs/operations.md):
\* a node that has fallen silent, outside maintenance, is reported to a webhook
\* subscribed to it, unless it is heard again or the webhook is deleted first.
OfflineIsAlerted ==
  \A n \in Nodes, w \in Hooks :
    (/\ heard[n] # 0 /\ StateFor(heard[n], now) = "offline" /\ n \notin inMaint
     /\ "node.offline" \in hooks[w])
    ~>
    (\/ \E d \in owed : d.hook = w /\ mapAlertEvent(log[d.event]) = "node.offline"
     \/ StateFor(heard[n], now) # "offline" \/ n \in inMaint
     \/ hooks[w] = {} \/ Len(log) = MaxEvents)
=============================================================================
