---------------------------- MODULE AlertsProofs ----------------------------
(***************************************************************************)
(* Proofs about Alerts: streams without gaps, and deliveries that are each   *)
(* in one place until they are settled once.                                *)
(*                                                                         *)
(* The first part of the inductive invariant is about the hub and holds by    *)
(* itself; the second is about the dispatcher, whose deliveries are new        *)
(* because the dispatcher's events have ever larger numbers.                  *)
(***************************************************************************)
EXTENDS Alerts, FiniteSetTheorems, SequenceTheorems, TLAPS

Channel == [open : BOOLEAN, buf : Seq(Events)]

\* What a client has in its buffer is the part of the log that follows what it got.
Follows(c) ==
  /\ Len(chan[c].buf) <= ClientBuffer
  /\ from[c] + got[c] + Len(chan[c].buf) <= Len(log)
  /\ \A i \in 1..Len(chan[c].buf) : chan[c].buf[i] = log[from[c] + got[c] + i]
  /\ chan[c].open => from[c] + got[c] + Len(chan[c].buf) = Len(log)

HubInv ==
  /\ log \in Seq(Events) /\ Len(log) <= MaxEvents
  /\ chan \in [Clients -> Channel]
  /\ from \in [Clients -> Nat] /\ got \in [Clients -> Nat]
  /\ \A c \in Clients : Follows(c)

FleetTypes ==
  /\ now \in 1..MaxNow /\ heard \in [Nodes -> 0..MaxNow] /\ inMaint \subseteq Nodes
  /\ hooks \in [Hooks -> SUBSET AlertTypes]

\* The places a delivery can be in, but for the targets not enqueued yet.
Queued(d) == \E i \in 1..Len(queue) : queue[i] = d
AtWork(d) == \E w \in Workers : work[w] # None /\ work[w].job = d
Settled(d) == \E s \in settled : s.job = d
Busy == {w \in Workers : work[w] # None}

Settlement == [job : Deliveries, how : {"succeeded", "failed", "dropped"}]

DispatchTypes ==
  /\ pending \in SUBSET Deliveries /\ IsFiniteSet(pending)
  /\ queue \in Seq(Deliveries) /\ Len(queue) <= QueueSize
  /\ work \in [Workers -> Work \cup {None}]
  /\ settled \in SUBSET Settlement /\ IsFiniteSet(settled)
  /\ owed \in SUBSET Deliveries /\ unlisted \in SUBSET (1..MaxEvents) /\ IsFiniteSet(Kept)

\* One place for each delivery, and one only.
OnePlace ==
  /\ \A d \in Deliveries :
       /\ d \in pending => (~Queued(d) /\ ~AtWork(d) /\ ~Settled(d))
       /\ Queued(d) => (~AtWork(d) /\ ~Settled(d))
       /\ AtWork(d) => ~Settled(d)
  /\ \A i, j \in 1..Len(queue) : queue[i] = queue[j] => i = j
  /\ \A v, w \in Busy : work[v].job = work[w].job => v = w

AllPlaced ==
  \A d \in Deliveries : d \in Kept <=> (d \in pending \/ Queued(d) \/ AtWork(d) \/ Settled(d))

Sums ==
  Cardinality(Kept) =
    Cardinality(pending) + Len(queue) + Cardinality(Busy) + Cardinality(settled)

\* Events reach the dispatcher in the order of their numbers, so what it comes to owe
\* is new: no delivery is owed for an event it has not received.
DispatchInv ==
  /\ DispatchTypes /\ OnePlace /\ AllPlaced /\ Sums
  /\ \A d \in owed : d.event <= got[Dispatcher]
  /\ \A n \in unlisted : n <= got[Dispatcher]
-----------------------------------------------------------------------------
(* The hub *)

\* An event offered to a client that follows the log: buffered, or the client is cut
\* off; either way it still follows.
LEMMA PublishFollows ==
  ASSUME HubInv, NEW ev \in Events, publish(ev), got' = got
  PROVE  HubInv'
<1>0. Len(log) \in Nat /\ MaxEvents \in Nat /\ ClientBuffer \in Nat
  BY LenProperties, AlertsConstants DEF HubInv
<1>1. /\ log' = Append(log, ev) /\ log' \in Seq(Events) /\ Len(log') = Len(log) + 1
      /\ log'[Len(log) + 1] = ev /\ \A i \in 1..Len(log) : log'[i] = log[i]
  BY AppendProperties DEF publish, HubInv
<1>2. Len(log') <= MaxEvents
  BY <1>0, <1>1 DEF publish
<1>3. from' = from /\ chan' = [c \in Clients |-> Offer(chan[c], ev)]
  BY DEF publish
<1>4. ASSUME NEW c \in Clients
      PROVE  chan'[c] \in Channel /\ Follows(c)'
  <2> DEFINE b == chan[c].buf  m == from[c] + got[c]
  <2>1. /\ chan[c] \in Channel /\ b \in Seq(Events) /\ Len(b) \in Nat /\ m \in Nat
        /\ chan'[c] = Offer(chan[c], ev)
    BY <1>3, LenProperties DEF HubInv, Channel
  <2>2. /\ Len(b) <= ClientBuffer /\ m + Len(b) <= Len(log)
        /\ \A i \in 1..Len(b) : b[i] = log[m + i]
        /\ chan[c].open => m + Len(b) = Len(log)
    BY DEF HubInv, Follows
  <2>3. \A i \in 1..Len(b) : m + i \in 1..Len(log) /\ b[i] = log'[m + i]
    <3> TAKE i \in 1..Len(b)
    <3> HIDE DEF b, m
    <3>1. m + i \in 1..Len(log)
      BY <1>0, <2>1, <2>2
    <3> QED BY <3>1, <2>2, <1>1
  <2>4. from'[c] + got'[c] = m
    BY <1>3
  <2>5. CASE ~chan[c].open \/ (chan[c].open /\ ~(Len(b) < ClientBuffer))
    <3>1. chan'[c] \in Channel /\ chan'[c].buf = b /\ ~chan'[c].open
      BY <2>1, <2>5 DEF Offer, Channel
    <3> HIDE DEF b, m
    <3>2. m + Len(b) <= Len(log')
      BY <1>0, <1>1, <2>1, <2>2
    <3> QED BY <2>2, <2>3, <2>4, <3>1, <3>2 DEF Follows
  <2>6. CASE chan[c].open /\ Len(b) < ClientBuffer
    <3> DEFINE b2 == Append(b, ev)
    <3>1. chan'[c] = [chan[c] EXCEPT !.buf = b2]
      BY <2>1, <2>6 DEF Offer
    <3>2. /\ b2 \in Seq(Events) /\ Len(b2) = Len(b) + 1 /\ b2[Len(b) + 1] = ev
          /\ \A i \in 1..Len(b) : b2[i] = b[i]
      <4> HIDE DEF b
      <4> QED BY <2>1, AppendProperties
    <3> HIDE DEF b2
    <3>3. chan'[c] \in Channel /\ chan'[c].buf = b2 /\ chan'[c].open
      BY <2>1, <2>6, <3>1, <3>2 DEF Channel
    <3>4. m + Len(b2) = Len(log') /\ Len(b2) <= ClientBuffer
      <4> HIDE DEF b, m
      <4> QED BY <1>0, <1>1, <2>1, <2>2, <2>6, <3>2
    <3>5. ASSUME NEW i \in 1..Len(b2) PROVE b2[i] = log'[m + i]
      <4> HIDE DEF b, m
      <4>1. CASE i \in 1..Len(b)
        BY <2>3, <3>2, <4>1
      <4>2. CASE i = Len(b) + 1
        <5>1. m + i = Len(log) + 1
          BY <1>0, <2>1, <2>2, <2>6, <4>2
        <5> QED BY <5>1, <1>1, <3>2, <4>2
      <4> QED BY <2>1, <3>2, <4>1, <4>2
    <3> HIDE DEF b, m
    <3>6. m + Len(b2) <= Len(log')
      BY <3>4, <1>0, <1>1
    <3> QED BY <2>4, <3>3, <3>4, <3>5, <3>6 DEF Follows
  <2> QED BY <2>5, <2>6
<1>5. chan' \in [Clients -> Channel]
  BY <1>3, <1>4
<1> QED BY <1>1, <1>2, <1>3, <1>4, <1>5 DEF HubInv

\* The next event leaves a buffer.
LEMMA TakeFollows ==
  ASSUME HubInv, NEW c \in Clients, chan[c].buf # <<>>,
         chan' = [chan EXCEPT ![c].buf = Tail(@)], got' = [got EXCEPT ![c] = @ + 1],
         UNCHANGED <<log, from>>
  PROVE  HubInv' /\ got'[c] = got[c] + 1 /\ got'[c] <= MaxEvents
<1> DEFINE b == chan[c].buf  m == from[c] + got[c]
<1>0. /\ chan[c] \in Channel /\ b \in Seq(Events) /\ from[c] \in Nat /\ got[c] \in Nat /\ m \in Nat
      /\ Len(log) \in Nat /\ MaxEvents \in Nat /\ Len(b) \in Nat /\ Len(log) <= MaxEvents
  BY AlertsConstants, LenProperties DEF HubInv, Channel
<1>1. /\ Tail(b) \in Seq(Events) /\ Len(Tail(b)) = Len(b) - 1
      /\ \A i \in 1..Len(Tail(b)) : Tail(b)[i] = b[i + 1]
      /\ Len(b) > 0
  <2>1. b # <<>> /\ b \in Seq(Events)
    BY <1>0
  <2> HIDE DEF b
  <2>2. /\ Tail(b) \in Seq(Events) /\ Len(Tail(b)) = Len(b) - 1
        /\ \A i \in 1..Len(Tail(b)) : Tail(b)[i] = b[i + 1]
    BY <2>1, HeadTailProperties
  <2>3. Len(b) # 0
    BY <2>1, EmptySeq
  <2> QED BY <1>0, <2>2, <2>3
<1>2. /\ chan' \in [Clients -> Channel] /\ got' \in [Clients -> Nat] /\ got'[c] = got[c] + 1
      /\ chan'[c].buf = Tail(b) /\ chan'[c].open = chan[c].open
      /\ \A d \in Clients \ {c} : chan'[d] = chan[d] /\ got'[d] = got[d]
  <2>1. Tail(b) \in Seq(Events)
    BY <1>1
  <2> DEFINE x == [chan[c] EXCEPT !.buf = Tail(b)]
  <2>2. chan' = [chan EXCEPT ![c] = x]
    OBVIOUS
  <2> HIDE DEF b
  <2>3. x \in Channel /\ x.buf = Tail(b) /\ x.open = chan[c].open
    BY <1>0, <2>1 DEF Channel
  <2> HIDE DEF x
  <2>4. /\ chan' \in [Clients -> Channel] /\ chan'[c] = x
        /\ \A d \in Clients \ {c} : chan'[d] = chan[d]
    BY <2>2, <2>3 DEF HubInv
  <2>5. /\ got' \in [Clients -> Nat] /\ got'[c] = got[c] + 1
        /\ \A d \in Clients \ {c} : got'[d] = got[d]
    BY <1>0 DEF HubInv
  <2> QED BY <2>3, <2>4, <2>5
<1>3. /\ Len(b) <= ClientBuffer /\ m + Len(b) <= Len(log)
      /\ \A i \in 1..Len(b) : b[i] = log[m + i]
      /\ chan[c].open => m + Len(b) = Len(log)
  BY DEF HubInv, Follows
<1>4. Follows(c)'
  <2>1. from'[c] + got'[c] = m + 1
    BY <1>0, <1>2
  <2>2. ClientBuffer \in Nat
    BY AlertsConstants
  <2> HIDE DEF b, m
  <2>3. /\ Len(Tail(b)) <= ClientBuffer /\ m + 1 + Len(Tail(b)) <= Len(log)
        /\ chan[c].open => m + 1 + Len(Tail(b)) = Len(log)
    BY <1>0, <1>1, <1>3, <2>2
  <2>4. \A i \in 1..Len(Tail(b)) : Tail(b)[i] = log[m + 1 + i]
    <3> TAKE i \in 1..Len(Tail(b))
    <3>1. i + 1 \in 1..Len(b) /\ m + 1 + i = m + (i + 1)
      BY <1>0, <1>1
    <3> QED BY <3>1, <1>1, <1>3
  <2> QED BY <1>2, <2>1, <2>3, <2>4 DEF Follows
<1>5. ASSUME NEW d \in Clients \ {c} PROVE Follows(d)'
  <2>1. Follows(d)
    BY DEF HubInv
  <2> QED BY <1>2, <2>1 DEF Follows
<1>6. got[c] + 1 <= MaxEvents
  <2>1. from[c] + got[c] + Len(b) <= Len(log)
    BY DEF HubInv, Follows
  <2> HIDE DEF b, m
  <2> QED BY <1>0, <1>1, <2>1
<1> QED BY <1>2, <1>4, <1>5, <1>6 DEF HubInv

LEMMA HubInit == Init => HubInv
<1> SUFFICES ASSUME Init PROVE HubInv
  OBVIOUS
<1>1. MaxEvents \in Nat /\ ClientBuffer \in Nat
  BY AlertsConstants
<1>2. Len(<<>>) = 0 /\ 1..Len(<<>>) = {} /\ <<>> \in Seq(Events)
  BY EmptySeq
<1>3. /\ log = <<>> /\ \A c \in Clients : /\ from[c] = 0 /\ got[c] = 0
                                          /\ chan[c] = [open |-> c = Dispatcher, buf |-> <<>>]
  BY DEF Init
<1>4. chan \in [Clients -> Channel] /\ from \in [Clients -> Nat] /\ got \in [Clients -> Nat]
  BY <1>2 DEF Init, Channel
<1> QED BY <1>1, <1>2, <1>3, <1>4 DEF HubInv, Follows

LEMMA HubNext == HubInv /\ [Next]_vars => HubInv'
<1> SUFFICES ASSUME HubInv, [Next]_vars PROVE HubInv'
  OBVIOUS
<1>0. Len(log) \in Nat /\ MaxEvents \in Nat /\ ClientBuffer \in Nat
      /\ Len(<<>>) = 0 /\ 1..Len(<<>>) = {} /\ <<>> \in Seq(Events)
  BY LenProperties, AlertsConstants, EmptySeq DEF HubInv
<1>1. ASSUME NEW n \in Nodes, Heartbeat(n) PROVE HubInv'
  <2> DEFINE ev == [name |-> "node", node |-> n, state |-> StateFor(now, now), drift |-> FALSE]
  <2>1. StateFor(now, now) \in {"fresh", "stale", "offline"}
    BY DEF StateFor
  <2>2. ev \in Events
    BY <2>1 DEF Events
  <2>3. publish(ev) /\ got' = got
    BY <1>1 DEF Heartbeat
  <2> HIDE DEF ev
  <2> QED BY <2>2, <2>3, PublishFollows
<1>2. ASSUME NEW state \in RolloutStates, RolloutEvent(state) PROVE HubInv'
  <2> DEFINE ev == [name |-> "rollout", state |-> state]
  <2>1. ev \in Events /\ publish(ev) /\ got' = got
    BY <1>2 DEF Events, RolloutEvent
  <2> HIDE DEF ev
  <2> QED BY <2>1, PublishFollows
<1>3. CASE publishJobEvent
  <2> DEFINE ev == [name |-> "job"]
  <2>1. ev \in Events /\ publish(ev) /\ got' = got
    BY <1>3 DEF Events, publishJobEvent
  <2> HIDE DEF ev
  <2> QED BY <2>1, PublishFollows
<1>4. ASSUME NEW c \in Streams, Subscribe(c) PROVE HubInv'
  <2>1. c \in Clients
    BY DEF Clients
  <2> DEFINE new == [open |-> TRUE, buf |-> <<>>]
  <2>2. /\ chan' = [chan EXCEPT ![c] = new] /\ from' = [from EXCEPT ![c] = Len(log)]
        /\ got' = [got EXCEPT ![c] = 0] /\ log' = log
    BY <1>4 DEF Subscribe
  <2>3. new \in Channel /\ new.buf = <<>>
    BY <1>0 DEF Channel
  <2> HIDE DEF new
  <2>4. /\ chan' \in [Clients -> Channel] /\ from' \in [Clients -> Nat] /\ got' \in [Clients -> Nat]
        /\ chan'[c] = new /\ from'[c] = Len(log) /\ got'[c] = 0
        /\ \A d \in Clients \ {c} : chan'[d] = chan[d] /\ from'[d] = from[d] /\ got'[d] = got[d]
    BY <1>0, <2>1, <2>2, <2>3 DEF HubInv
  <2>5. Follows(c)'
    BY <1>0, <2>2, <2>3, <2>4 DEF Follows
  <2>6. ASSUME NEW d \in Clients \ {c} PROVE Follows(d)'
    <3>1. Follows(d)
      BY DEF HubInv
    <3> QED BY <2>2, <2>4, <3>1 DEF Follows
  <2> QED BY <2>2, <2>4, <2>5, <2>6 DEF HubInv
<1>5. ASSUME NEW c \in Streams, Receive(c) PROVE HubInv'
  <2>1. c \in Clients
    BY DEF Clients
  <2> QED BY <1>5, <2>1, TakeFollows DEF Receive
<1>6. ASSUME NEW c \in Streams, Disconnect(c) PROVE HubInv'
  <2>1. c \in Clients
    BY DEF Clients
  <2> DEFINE new == [open |-> FALSE, buf |-> <<>>]
  <2>2. chan' = [chan EXCEPT ![c] = new] /\ UNCHANGED <<from, got, log>>
    BY <1>6 DEF Disconnect
  <2>3. new \in Channel /\ new.buf = <<>> /\ ~new.open
    BY <1>0 DEF Channel
  <2> HIDE DEF new
  <2>4. /\ chan' \in [Clients -> Channel] /\ chan'[c] = new
        /\ \A d \in Clients \ {c} : chan'[d] = chan[d]
    BY <2>1, <2>2, <2>3 DEF HubInv
  <2>5. Follows(c)'
    <3>1. /\ from[c] \in Nat /\ got[c] \in Nat /\ Len(chan[c].buf) \in Nat
          /\ from[c] + got[c] + Len(chan[c].buf) <= Len(log)
      BY <2>1, LenProperties DEF HubInv, Channel, Follows
    <3>2. from[c] + got[c] + 0 <= Len(log)
      BY <1>0, <3>1
    <3> QED BY <1>0, <2>2, <2>3, <2>4, <3>2 DEF Follows
  <2>6. ASSUME NEW d \in Clients \ {c} PROVE Follows(d)'
    <3>1. Follows(d)
      BY DEF HubInv
    <3> QED BY <2>2, <2>4, <3>1 DEF Follows
  <2> QED BY <2>2, <2>4, <2>5, <2>6 DEF HubInv
<1>7. CASE handleEvent
  <2>1. Dispatcher \in Clients
    BY DEF Clients
  <2> QED BY <1>7, <2>1, TakeFollows DEF handleEvent
<1>8. CASE UNCHANGED <<hub, got>>
  BY <1>8 DEF hub, HubInv, Follows
<1>9. ASSUME NEW n \in Nodes, NEW on \in BOOLEAN, SetNodeMaintenance(n, on) PROVE UNCHANGED <<hub, got>>
  BY <1>9 DEF SetNodeMaintenance
<1>10. ASSUME NEW w \in Hooks, deleteAlertWebhook(w) \/ createAlertWebhook(w, AlertTypes)
       PROVE  UNCHANGED <<hub, got>>
  BY <1>10 DEF deleteAlertWebhook, createAlertWebhook
<1>11. Tick => UNCHANGED <<hub, got>>
  BY DEF Tick
<1>12. ASSUME NEW d \in pending, EnqueueNext(d) PROVE UNCHANGED <<hub, got>>
  BY <1>12 DEF EnqueueNext
<1>13. ASSUME NEW w \in Workers, Take(w) \/ deliver(w) PROVE UNCHANGED <<hub, got>>
  BY <1>13 DEF Take, deliver
<1>14. UNCHANGED vars => UNCHANGED <<hub, got>>
  BY DEF vars
<1> QED BY <1>1, <1>2, <1>3, <1>4, <1>5, <1>6, <1>7, <1>8, <1>9, <1>10, <1>11, <1>12, <1>13, <1>14
        DEF Next, Happenings, Delivering

LEMMA HubHolds == Spec => []HubInv
BY HubInit, HubNext, PTL DEF Spec

\* Every client, browsers and the dispatcher alike, sees all that is published from
\* its subscription on, in order, and misses nothing while its channel is open.
THEOREM StreamsHaveNoGaps == Spec => []StreamsAreContiguous
<1>1. HubInv => StreamsAreContiguous
  <2> SUFFICES ASSUME HubInv, NEW c \in Clients
               PROVE  LET upto == from[c] + got[c] + Len(chan[c].buf)
                      IN  /\ upto <= Len(log)
                          /\ chan[c].buf = SubSeq(log, from[c] + got[c] + 1, upto)
                          /\ chan[c].open => upto = Len(log)
    BY DEF StreamsAreContiguous
  <2> DEFINE b == chan[c].buf  m == from[c] + got[c]  s == SubSeq(log, m + 1, m + Len(b))
  <2>1. /\ b \in Seq(Events) /\ Len(b) \in Nat /\ m \in Nat /\ Len(log) \in Nat
        /\ \A i \in 1..Len(log) : log[i] \in Events
    BY LenProperties, ElementOfSeq DEF HubInv, Channel
  <2>2. /\ m + Len(b) <= Len(log) /\ \A i \in 1..Len(b) : b[i] = log[m + i]
        /\ chan[c].open => m + Len(b) = Len(log)
    BY DEF HubInv, Follows
  <2> HIDE DEF b, m
  <2>3. /\ s \in Seq(Events) /\ Len(s) = Len(b)
        /\ \A i \in 1..Len(b) : s[i] = log[m + i]
    <3> DEFINE lo == m + 1  hi == m + Len(b)
    <3>1. lo \in Int /\ hi \in Int /\ \A i \in lo..hi : log[i] \in Events
      BY <2>1, <2>2
    <3>2. s = SubSeq(log, lo, hi)
      OBVIOUS
    <3> HIDE DEF s, lo, hi
    <3>3. /\ SubSeq(log, lo, hi) \in Seq(Events)
          /\ Len(SubSeq(log, lo, hi)) = IF lo <= hi THEN hi - lo + 1 ELSE 0
          /\ \A i \in 1..hi - lo + 1 : SubSeq(log, lo, hi)[i] = log[lo + i - 1]
      BY <3>1, SubSeqProperties
    <3>4. hi - lo + 1 = Len(b) /\ (lo <= hi <=> Len(b) # 0)
      BY <2>1 DEF lo, hi
    <3>5. Len(s) = Len(b)
      BY <2>1, <3>2, <3>3, <3>4
    <3>6. ASSUME NEW i \in 1..Len(b) PROVE s[i] = log[m + i]
      <4>1. lo + i - 1 = m + i
        BY <2>1 DEF lo
      <4> QED BY <3>2, <3>3, <3>4, <4>1
    <3> QED BY <3>2, <3>3, <3>5, <3>6
  <2> HIDE DEF s
  <2>4. b = s
    BY <2>1, <2>2, <2>3, SeqEqual
  <2> QED BY <2>2, <2>4 DEF b, m, s
<1> QED BY <1>1, HubHolds, PTL
-----------------------------------------------------------------------------
(* The dispatcher *)

LEMMA FleetInit == Init => FleetTypes
<1> SUFFICES ASSUME Init PROVE FleetTypes
  OBVIOUS
<1>1. MaxNow \in Nat \ {0}
  BY AlertsConstants
<1>2. now = 1 /\ heard = [n \in Nodes |-> 0] /\ inMaint = {} /\ hooks = [w \in Hooks |-> {}]
  BY DEF Init
<1> QED BY <1>1, <1>2 DEF FleetTypes

LEMMA FleetNext == FleetTypes /\ [Next]_vars => FleetTypes'
<1> SUFFICES ASSUME FleetTypes, [Next]_vars PROVE FleetTypes'
  OBVIOUS
<1>0. MaxNow \in Nat \ {0}
  BY AlertsConstants
<1>1. ASSUME NEW n \in Nodes, Heartbeat(n) PROVE FleetTypes'
  BY <1>0, <1>1 DEF Heartbeat, FleetTypes
<1>2. ASSUME NEW n \in Nodes, NEW on \in BOOLEAN, SetNodeMaintenance(n, on) PROVE FleetTypes'
  BY <1>2 DEF SetNodeMaintenance, FleetTypes
<1>3. ASSUME NEW w \in Hooks, deleteAlertWebhook(w) PROVE FleetTypes'
  BY <1>3 DEF deleteAlertWebhook, FleetTypes
<1>4. ASSUME NEW w \in Hooks, createAlertWebhook(w, AlertTypes) PROVE FleetTypes'
  BY <1>4 DEF createAlertWebhook, CreateAlertWebhook, FleetTypes
<1>5. CASE Tick
  BY <1>0, <1>5 DEF Tick, FleetTypes
<1>6. CASE UNCHANGED fleet
  BY <1>6 DEF fleet, FleetTypes
<1>7. ASSUME NEW state \in RolloutStates, RolloutEvent(state) PROVE UNCHANGED fleet
  BY <1>7 DEF RolloutEvent
<1>8. publishJobEvent => UNCHANGED fleet
  BY DEF publishJobEvent
<1>9. ASSUME NEW c \in Streams, Subscribe(c) \/ Receive(c) \/ Disconnect(c) PROVE UNCHANGED fleet
  BY <1>9 DEF Subscribe, Receive, Disconnect
<1>10. handleEvent => UNCHANGED fleet
  BY DEF handleEvent
<1>11. ASSUME NEW d \in pending, EnqueueNext(d) PROVE UNCHANGED fleet
  BY <1>11 DEF EnqueueNext
<1>12. ASSUME NEW w \in Workers, Take(w) \/ deliver(w) PROVE UNCHANGED fleet
  BY <1>12 DEF Take, deliver
<1>13. UNCHANGED vars => UNCHANGED fleet
  BY DEF vars
<1> QED BY <1>1, <1>2, <1>3, <1>4, <1>5, <1>6, <1>7, <1>8, <1>9, <1>10, <1>11, <1>12, <1>13
        DEF Next, Happenings, Delivering

LEMMA DispatchInit == Init => DispatchInv
<1> SUFFICES ASSUME Init PROVE DispatchInv
  OBVIOUS
<1>1. /\ pending = {} /\ queue = <<>> /\ work = [w \in Workers |-> None] /\ settled = {}
      /\ owed = {} /\ unlisted = {} /\ Kept = {}
  BY DEF Init, Kept
<1>2. Len(<<>>) = 0 /\ 1..Len(<<>>) = {} /\ <<>> \in Seq(Deliveries) /\ QueueSize \in Nat
  BY EmptySeq, AlertsConstants
<1>3. IsFiniteSet({}) /\ Cardinality({}) = 0
  BY FS_EmptySet
<1>4. Busy = {}
  BY <1>1 DEF Busy
<1>5. DispatchTypes
  BY <1>1, <1>2, <1>3 DEF DispatchTypes
<1>6. ASSUME NEW d PROVE ~Queued(d) /\ ~AtWork(d) /\ ~Settled(d)
  BY <1>1, <1>2 DEF Queued, AtWork, Settled
<1>7. OnePlace
  BY <1>1, <1>2, <1>4, <1>6 DEF OnePlace
<1>8. AllPlaced
  BY <1>1, <1>6 DEF AllPlaced
<1>9. Sums
  BY <1>1, <1>2, <1>3, <1>4 DEF Sums
<1> QED BY <1>1, <1>5, <1>7, <1>8, <1>9 DEF DispatchInv

\* Steps that leave the dispatcher alone.
LEMMA DispatchFrame ==
  ASSUME DispatchInv, UNCHANGED dispatch, got'[Dispatcher] = got[Dispatcher]
  PROVE  DispatchInv'
<1>1. /\ pending' = pending /\ queue' = queue /\ work' = work /\ settled' = settled
      /\ owed' = owed /\ unlisted' = unlisted /\ Kept' = Kept
  BY DEF dispatch, Kept
<1>2. \A d : (Queued(d)' <=> Queued(d)) /\ (AtWork(d)' <=> AtWork(d)) /\ (Settled(d)' <=> Settled(d))
  BY <1>1 DEF Queued, AtWork, Settled
<1>3. Busy' = Busy
  BY <1>1 DEF Busy
<1>4. DispatchTypes'
  BY <1>1 DEF DispatchInv, DispatchTypes
<1>5. OnePlace'
  BY <1>1, <1>2, <1>3 DEF DispatchInv, OnePlace
<1>6. AllPlaced'
  BY <1>1, <1>2 DEF DispatchInv, AllPlaced
<1>7. Sums'
  BY <1>1, <1>3 DEF DispatchInv, Sums
<1> QED BY <1>1, <1>4, <1>5, <1>6, <1>7 DEF DispatchInv

\* The sets and the queue whose sizes are added up have sizes.
LEMMA Sizes ==
  ASSUME DispatchTypes
  PROVE  /\ Cardinality(pending) \in Nat /\ Len(queue) \in Nat /\ Cardinality(settled) \in Nat
         /\ IsFiniteSet(Busy) /\ Cardinality(Busy) \in Nat
         /\ Cardinality(Kept) \in Nat
<1>1. IsFiniteSet(Workers) /\ Busy \in SUBSET Workers
  BY AlertsConstants DEF Busy
<1>2. IsFiniteSet(Busy)
  BY <1>1, FS_Subset
<1> QED BY <1>2, FS_CardinalityType, LenProperties DEF DispatchTypes

\* The event just received is later than any the dispatcher owes for.
LEMMA HandleEventAccounts ==
  ASSUME HubInv, DispatchInv, handleEvent
  PROVE  DispatchInv'
<1> DEFINE n == got'[Dispatcher]  T == Targets(Head(chan[Dispatcher].buf))
           due == [event : {n}, hook : T]
<1>0. Dispatcher \in Clients
  BY DEF Clients
<1>1. /\ n = got[Dispatcher] + 1 /\ n <= MaxEvents /\ got[Dispatcher] \in Nat /\ MaxEvents \in Nat
  <2>1. got[Dispatcher] \in Nat /\ MaxEvents \in Nat
    BY <1>0, AlertsConstants DEF HubInv
  <2>2. got'[Dispatcher] = got[Dispatcher] + 1 /\ got'[Dispatcher] <= MaxEvents
    BY <1>0, TakeFollows DEF handleEvent
  <2> QED BY <2>1, <2>2
<1>2. /\ pending = {} /\ UNCHANGED <<queue, work, settled>>
      /\ \/ pending' = {} /\ owed' = owed /\ unlisted' = unlisted
         \/ pending' = due /\ owed' = owed \cup due /\ unlisted' = unlisted
         \/ pending' = {} /\ owed' = owed \cup due /\ unlisted' = unlisted \cup {n}
  BY DEF handleEvent, Dispatch
<1>3. T \subseteq Hooks
  BY DEF Targets
<1> HIDE DEF n, T
<1>4. /\ pending' \in SUBSET Deliveries /\ due \in SUBSET Deliveries /\ pending' \subseteq due
      /\ \A d \in due : d.event = n
  <2>1. n \in 1..MaxEvents
    BY <1>1
  <2>2. due \in SUBSET Deliveries
    BY <1>3, <2>1 DEF Deliveries
  <2>3. \A d \in due : d.event = n
    OBVIOUS
  <2> HIDE DEF due
  <2> QED BY <1>2, <2>2, <2>3
<1>5. IsFiniteSet(pending')
  <2> DEFINE f == [d \in pending' |-> d.hook]
  <2>1. f \in Injection(pending', Hooks)
    <3>1. f \in [pending' -> Hooks]
      BY <1>3, <1>4
    <3>2. ASSUME NEW d \in pending', NEW e \in pending', f[d] = f[e] PROVE d = e
      BY <1>4, <3>2
    <3> QED BY <3>1, <3>2 DEF Injection, IsInjective
  <2>2. IsFiniteSet(Hooks)
    BY AlertsConstants
  <2> HIDE DEF f
  <2> QED BY <2>1, <2>2, FS_Injection
<1>6. /\ DispatchTypes /\ OnePlace /\ AllPlaced /\ Sums
      /\ \A d \in owed : d.event <= got[Dispatcher]
      /\ \A k \in unlisted : k <= got[Dispatcher]
  BY DEF DispatchInv
<1>7. \A d \in pending' : d.event = n /\ d \notin owed
  <2>1. ASSUME NEW d \in pending' PROVE d.event = n
    BY <1>4
  <2>2. ~(n <= got[Dispatcher])
    BY <1>1
  <2> QED BY <2>1, <2>2, <1>6
<1>16. Kept' = Kept \cup pending'
  <2>1. \A d \in owed : d.event # n
    <3>1. ~(n <= got[Dispatcher])
      BY <1>1
    <3> QED BY <1>6, <3>1
  <2>2. n \notin unlisted
    <3>1. ~(n <= got[Dispatcher])
      BY <1>1
    <3> QED BY <1>6, <3>1
  <2>3. \A d \in due : d.event = n
    BY <1>4
  <2> HIDE DEF due
  <2> QED BY <1>2, <2>1, <2>2, <2>3 DEF Kept
<1>8. \A d : (Queued(d)' <=> Queued(d)) /\ (AtWork(d)' <=> AtWork(d)) /\ (Settled(d)' <=> Settled(d))
  BY <1>2 DEF Queued, AtWork, Settled
<1>9. Busy' = Busy
  BY <1>2 DEF Busy
<1>10. IsFiniteSet(Kept') /\ Cardinality(Kept') = Cardinality(Kept) + Cardinality(pending')
  <2>1. Kept \cap pending' = {}
    BY <1>7 DEF Kept
  <2>2. IsFiniteSet(Kept) /\ Cardinality(Kept) \in Nat /\ Cardinality(pending') \in Nat
    BY <1>5, <1>6, FS_CardinalityType DEF DispatchTypes
  <2>3. /\ IsFiniteSet(Kept \cup pending')
        /\ Cardinality(Kept \cup pending') =
             Cardinality(Kept) + Cardinality(pending') - Cardinality(Kept \cap pending')
    BY <1>5, <2>2, FS_Union
  <2>4. Cardinality(Kept \cap pending') = 0
    BY <2>1, FS_EmptySet
  <2> QED BY <1>16, <2>2, <2>3, <2>4
<1>17. owed' \in SUBSET Deliveries /\ unlisted' \in SUBSET (1..MaxEvents)
  <2>1. n \in 1..MaxEvents
    BY <1>1
  <2> HIDE DEF due
  <2> QED BY <1>2, <1>4, <1>6, <2>1 DEF DispatchTypes
<1>11. DispatchTypes'
  BY <1>2, <1>4, <1>5, <1>6, <1>10, <1>17 DEF DispatchTypes
<1>12. OnePlace'
  <2>1. \A d \in Deliveries : d \in pending' => (~Queued(d) /\ ~AtWork(d) /\ ~Settled(d))
    BY <1>6, <1>7 DEF AllPlaced, Kept
  <2> QED BY <1>2, <1>6, <1>8, <1>9, <2>1 DEF OnePlace
<1>13. AllPlaced'
  BY <1>2, <1>6, <1>8, <1>16 DEF AllPlaced
<1>14. Sums'
  <2>1. Cardinality(pending) = 0
    BY <1>2, FS_EmptySet
  <2>2. Cardinality(pending') \in Nat
    BY <1>5, FS_CardinalityType
  <2> QED BY <1>2, <1>6, <1>9, <1>10, <2>1, <2>2, Sizes DEF Sums
<1>15. \A d \in owed' : d.event <= got'[Dispatcher]
  <2>1. ASSUME NEW d \in owed PROVE d.event <= n
    <3>1. d.event \in Nat /\ d.event <= got[Dispatcher]
      BY <1>1, <1>6 DEF DispatchTypes, Deliveries
    <3> QED BY <1>1, <3>1
  <2>2. n <= n
    BY <1>1
  <2>3. \A d \in owed' : d \in owed \/ d.event = n
    BY <1>2, <1>4
  <2> QED BY <2>1, <2>2, <2>3 DEF n
<1>18. \A k \in unlisted' : k <= got'[Dispatcher]
  <2>1. ASSUME NEW k \in unlisted PROVE k <= n
    BY <1>1, <1>6 DEF DispatchTypes
  <2>2. n <= n
    BY <1>1
  <2> HIDE DEF due
  <2>3. \A k \in unlisted' : k \in unlisted \/ k = n
    BY <1>2
  <2> QED BY <2>1, <2>2, <2>3 DEF n
<1> QED BY <1>11, <1>12, <1>13, <1>14, <1>15, <1>18 DEF DispatchInv

\* A delivery that gets into settled was not there.
LEMMA SettleAdds ==
  ASSUME DispatchTypes, NEW d \in Deliveries, NEW how \in {"succeeded", "failed", "dropped"},
         Settle(d, how), ~Settled(d)
  PROVE  /\ settled' \in SUBSET Settlement /\ IsFiniteSet(settled')
         /\ Cardinality(settled') = Cardinality(settled) + 1
         /\ \A x : Settled(x)' <=> (Settled(x) \/ x = d)
<1> DEFINE s == [job |-> d, how |-> how]
<1>1. s \in Settlement /\ s.job = d /\ settled' = settled \cup {s}
  BY DEF Settlement, Settle
<1> HIDE DEF s
<1>2. s \notin settled
  BY <1>1 DEF Settled
<1>3. IsFiniteSet(settled) /\ settled \in SUBSET Settlement
  BY DEF DispatchTypes
<1>4. IsFiniteSet(settled') /\ Cardinality(settled') = Cardinality(settled) + 1
  BY <1>1, <1>2, <1>3, FS_AddElement
<1>5. \A x : Settled(x)' <=> (Settled(x) \/ x = d)
  BY <1>1 DEF Settled
<1> QED BY <1>1, <1>3, <1>4, <1>5

\* A target moves from the alert at hand to the queue, or is dropped and counted.
LEMMA EnqueueAccounts ==
  ASSUME DispatchInv, NEW d \in pending, EnqueueNext(d)
  PROVE  DispatchInv'
<1>0. /\ DispatchTypes /\ OnePlace /\ AllPlaced /\ Sums
      /\ \A e \in owed : e.event <= got[Dispatcher]
      /\ \A k \in unlisted : k <= got[Dispatcher]
  BY DEF DispatchInv
<1>1. /\ pending' = pending \ {d} /\ UNCHANGED <<work, owed, unlisted, Kept, got>> /\ d \in Deliveries
      /\ enqueue(d)
  BY <1>0 DEF EnqueueNext, DispatchTypes, Kept
<1>2. ~Queued(d) /\ ~AtWork(d) /\ ~Settled(d)
  BY <1>0, <1>1 DEF OnePlace
<1>3. /\ \A x : AtWork(x)' <=> AtWork(x)
      /\ Busy' = Busy
  BY <1>1 DEF AtWork, Busy
<1>4. /\ pending' \in SUBSET Deliveries /\ IsFiniteSet(pending')
      /\ Cardinality(pending') = Cardinality(pending) - 1
  BY <1>0, <1>1, FS_RemoveElement DEF DispatchTypes
<1>5. /\ Cardinality(pending) \in Nat /\ Len(queue) \in Nat /\ Cardinality(settled) \in Nat
      /\ Cardinality(Busy) \in Nat /\ QueueSize \in Nat
  BY <1>0, Sizes, AlertsConstants
<1>6. CASE Len(queue) < QueueSize /\ queue' = Append(queue, d) /\ UNCHANGED settled
  <2>1. /\ queue' \in Seq(Deliveries) /\ Len(queue') = Len(queue) + 1
        /\ queue'[Len(queue) + 1] = d /\ \A i \in 1..Len(queue) : queue'[i] = queue[i]
    BY <1>0, <1>1, <1>6, AppendProperties DEF DispatchTypes
  <2>2. \A x : Settled(x)' <=> Settled(x)
    BY <1>6 DEF Settled
  <2>3. 1..Len(queue') = 1..Len(queue) \cup {Len(queue) + 1} /\ Len(queue) + 1 \notin 1..Len(queue)
    BY <1>5, <2>1
  <2>4. ASSUME NEW x PROVE Queued(x)' <=> (Queued(x) \/ x = d)
    BY <2>1, <2>3 DEF Queued
  <2>5. DispatchTypes'
    <3>1. Len(queue') <= QueueSize
      BY <1>5, <1>6, <2>1
    <3> QED BY <1>0, <1>1, <1>4, <1>6, <2>1, <3>1 DEF DispatchTypes
  <2>6. OnePlace'
    <3>1. ASSUME NEW x \in Deliveries
          PROVE  /\ x \in pending' => (~Queued(x)' /\ ~AtWork(x)' /\ ~Settled(x)')
                 /\ Queued(x)' => (~AtWork(x)' /\ ~Settled(x)')
                 /\ AtWork(x)' => ~Settled(x)'
      BY <1>0, <1>1, <1>2, <1>3, <2>2, <2>4 DEF OnePlace
    <3>2. ASSUME NEW i \in 1..Len(queue'), NEW j \in 1..Len(queue'), queue'[i] = queue'[j]
          PROVE  i = j
      <4>1. \A k \in 1..Len(queue) : queue[k] # d
        BY <1>2 DEF Queued
      <4> QED BY <1>0, <2>1, <2>3, <3>2, <4>1 DEF OnePlace
    <3> QED BY <1>0, <1>1, <1>3, <3>1, <3>2 DEF OnePlace
  <2>7. AllPlaced'
    BY <1>0, <1>1, <1>3, <2>2, <2>4 DEF AllPlaced
  <2>8. Sums'
    BY <1>0, <1>1, <1>3, <1>4, <1>5, <1>6, <2>1 DEF Sums
  <2> QED BY <1>0, <1>1, <2>5, <2>6, <2>7, <2>8 DEF DispatchInv
<1>7. CASE Len(queue) >= QueueSize /\ Settle(d, "dropped") /\ UNCHANGED queue
  <2>1. /\ settled' \in SUBSET Settlement /\ IsFiniteSet(settled')
        /\ Cardinality(settled') = Cardinality(settled) + 1
        /\ \A x : Settled(x)' <=> (Settled(x) \/ x = d)
    BY <1>0, <1>1, <1>2, <1>7, SettleAdds
  <2>2. \A x : Queued(x)' <=> Queued(x)
    BY <1>7 DEF Queued
  <2>3. DispatchTypes'
    BY <1>0, <1>1, <1>4, <1>7, <2>1 DEF DispatchTypes
  <2>4. OnePlace'
    <3>1. ASSUME NEW x \in Deliveries
          PROVE  /\ x \in pending' => (~Queued(x)' /\ ~AtWork(x)' /\ ~Settled(x)')
                 /\ Queued(x)' => (~AtWork(x)' /\ ~Settled(x)')
                 /\ AtWork(x)' => ~Settled(x)'
      BY <1>0, <1>1, <1>2, <1>3, <2>1, <2>2 DEF OnePlace
    <3> QED BY <1>0, <1>1, <1>3, <1>7, <3>1 DEF OnePlace
  <2>5. AllPlaced'
    BY <1>0, <1>1, <1>3, <2>1, <2>2 DEF AllPlaced
  <2>6. Sums'
    BY <1>0, <1>1, <1>3, <1>4, <1>5, <1>7, <2>1 DEF Sums
  <2> QED BY <1>0, <1>1, <2>3, <2>4, <2>5, <2>6 DEF DispatchInv
<1> QED BY <1>1, <1>6, <1>7 DEF enqueue

\* The oldest delivery moves from the queue to a worker.
LEMMA TakeAccounts ==
  ASSUME DispatchInv, NEW w \in Workers, Take(w)
  PROVE  DispatchInv'
<1> SUFFICES ASSUME NEW h, h = Head(queue) PROVE DispatchInv'
  OBVIOUS
<1>0. /\ DispatchTypes /\ OnePlace /\ AllPlaced /\ Sums
      /\ \A e \in owed : e.event <= got[Dispatcher]
      /\ \A k \in unlisted : k <= got[Dispatcher]
  BY DEF DispatchInv
<1>1. /\ work[w] = None /\ queue # <<>> /\ queue' = Tail(queue)
      /\ work' = [work EXCEPT ![w] = [job |-> h, tries |-> 0]]
      /\ UNCHANGED <<pending, settled, owed, unlisted, Kept, got>>
  BY DEF Take, Kept
<1>2. /\ h = queue[1] /\ h \in Deliveries
      /\ queue' \in Seq(Deliveries) /\ Len(queue') = Len(queue) - 1
      /\ \A i \in 1..Len(queue') : queue'[i] = queue[i + 1]
      /\ Len(queue) \in Nat \ {0}
  <2>1. queue \in Seq(Deliveries)
    BY <1>0 DEF DispatchTypes
  <2>2. Len(queue) \in Nat /\ Len(queue) # 0
    BY <1>1, <2>1, LenProperties, EmptySeq
  <2>3. h = queue[1] /\ queue[1] \in Deliveries
    BY <2>1, <2>2, ElementOfSeq
  <2> QED BY <1>1, <2>1, <2>2, <2>3, HeadTailProperties
<1>3. /\ 1 \in 1..Len(queue)
      /\ \A i \in 1..Len(queue') : i + 1 \in 1..Len(queue) /\ i + 1 # 1
      /\ \A k \in 1..Len(queue) : k # 1 => (k - 1 \in 1..Len(queue') /\ (k - 1) + 1 = k)
  BY <1>2
<1>4. /\ work' \in [Workers -> Work \cup {None}]
      /\ work'[w] # None /\ work'[w].job = h
      /\ \A v \in Workers \ {w} : work'[v] = work[v]
  <2> DEFINE item == [job |-> h, tries |-> 0]
  <2>1. MaxAttempts \in Nat \ {0} /\ None \notin Work
    BY AlertsConstants
  <2>2. item \in Work /\ item # None /\ item.job = h
    BY <1>2, <2>1 DEF Work
  <2> HIDE DEF item
  <2>3. work \in [Workers -> Work \cup {None}] /\ work' = [work EXCEPT ![w] = item]
    BY <1>0, <1>1 DEF DispatchTypes, item
  <2> QED BY <2>2, <2>3
<1>5. Queued(h) /\ \A x : Queued(x) <=> (Queued(x)' \/ x = h)
  <2>1. ASSUME NEW k \in 1..Len(queue), k # 1
        PROVE  \E i \in 1..Len(queue') : queue'[i] = queue[k]
    <3>1. k - 1 \in 1..Len(queue') /\ queue'[k - 1] = queue[k]
      BY <1>2, <1>3, <2>1
    <3> QED BY <3>1
  <2>2. ASSUME NEW x, Queued(x), x # h PROVE Queued(x)'
    <3>1. PICK k \in 1..Len(queue) : queue[k] = x
      BY <2>2 DEF Queued
    <3> QED BY <1>2, <2>1, <2>2, <3>1 DEF Queued
  <2>3. ASSUME NEW x, Queued(x)' PROVE Queued(x)
    BY <1>2, <1>3, <2>3 DEF Queued
  <2>4. Queued(h)
    BY <1>2, <1>3 DEF Queued
  <2> QED BY <2>2, <2>3, <2>4
<1>6. ~Queued(h)'
  <2>1. ASSUME NEW i \in 1..Len(queue'), queue'[i] = h PROVE FALSE
    <3>1. queue[i + 1] = queue[1] /\ i + 1 \in 1..Len(queue) /\ i + 1 # 1
      BY <1>2, <1>3, <2>1
    <3> QED BY <1>0, <1>3, <3>1 DEF OnePlace
  <2> QED BY <2>1 DEF Queued
<1>7. ASSUME NEW x PROVE AtWork(x)' <=> (AtWork(x) \/ x = h)
  BY <1>1, <1>4 DEF AtWork
<1>8. \A x : Settled(x)' <=> Settled(x)
  BY <1>1 DEF Settled
<1>9. Busy' = Busy \cup {w} /\ w \notin Busy
  BY <1>1, <1>4 DEF Busy
<1>10. Cardinality(Busy') = Cardinality(Busy) + 1
  BY <1>0, <1>9, Sizes, FS_AddElement
<1>11. DispatchTypes'
  <2>1. Len(queue') <= QueueSize
    BY <1>0, <1>2, AlertsConstants DEF DispatchTypes
  <2> QED BY <1>0, <1>1, <1>2, <1>4, <2>1 DEF DispatchTypes
<1>12. OnePlace'
  <2>1. ASSUME NEW x \in Deliveries
        PROVE  /\ x \in pending' => (~Queued(x)' /\ ~AtWork(x)' /\ ~Settled(x)')
               /\ Queued(x)' => (~AtWork(x)' /\ ~Settled(x)')
               /\ AtWork(x)' => ~Settled(x)'
    BY <1>0, <1>1, <1>2, <1>5, <1>6, <1>7, <1>8 DEF OnePlace
  <2>2. ASSUME NEW i \in 1..Len(queue'), NEW j \in 1..Len(queue'), queue'[i] = queue'[j]
        PROVE  i = j
    <3>1. queue[i + 1] = queue[j + 1] /\ i + 1 \in 1..Len(queue) /\ j + 1 \in 1..Len(queue)
      BY <1>2, <1>3, <2>2
    <3>2. i + 1 = j + 1
      BY <1>0, <3>1 DEF OnePlace
    <3> QED BY <3>2
  <2>3. ASSUME NEW u \in Busy', NEW v \in Busy', work'[u].job = work'[v].job
        PROVE  u = v
    <3>1. ~AtWork(h)
      BY <1>0, <1>2, <1>5 DEF OnePlace
    <3>2. \A k \in Busy : work[k].job # h /\ k \in Workers
      BY <3>1 DEF AtWork, Busy
    <3>3. \A k \in Busy : work'[k] = work[k]
      BY <1>4, <1>9, <3>2
    <3> QED BY <1>0, <1>4, <1>9, <2>3, <3>2, <3>3 DEF OnePlace
  <2> QED BY <2>1, <2>2, <2>3 DEF OnePlace
<1>13. AllPlaced'
  BY <1>0, <1>1, <1>5, <1>7, <1>8 DEF AllPlaced
<1>14. Sums'
  BY <1>0, <1>1, <1>2, <1>10, Sizes DEF Sums
<1> QED BY <1>0, <1>1, <1>11, <1>12, <1>13, <1>14 DEF DispatchInv

\* An attempt settles the worker's delivery once, or leaves it to a further attempt.
LEMMA DeliverAccounts ==
  ASSUME DispatchInv, NEW w \in Workers, deliver(w)
  PROVE  DispatchInv'
<1> SUFFICES ASSUME NEW j, j = work[w].job PROVE DispatchInv'
  OBVIOUS
<1>0. /\ DispatchTypes /\ OnePlace /\ AllPlaced /\ Sums
      /\ \A e \in owed : e.event <= got[Dispatcher]
      /\ \A k \in unlisted : k <= got[Dispatcher]
  BY DEF DispatchInv
<1>1. work[w] # None /\ UNCHANGED <<pending, queue, owed, unlisted, Kept, got>>
  BY DEF deliver, Kept
<1>2. /\ work \in [Workers -> Work \cup {None}] /\ work[w] \in Work /\ j \in Deliveries
      /\ work[w].tries \in 0..MaxAttempts - 1 /\ MaxAttempts \in Nat \ {0} /\ None \notin Work
  BY <1>0, <1>1, AlertsConstants DEF DispatchTypes, Work
<1>3. \A x : Queued(x)' <=> Queued(x)
  BY <1>1 DEF Queued
<1>4. w \in Busy /\ AtWork(j) /\ ~Settled(j) /\ \A v \in Busy : work[v].job = j => v = w
  BY <1>0, <1>1, <1>2 DEF Busy, AtWork, OnePlace
<1>5. CASE /\ work[w].tries + 1 < MaxAttempts
           /\ work' = [work EXCEPT ![w].tries = @ + 1] /\ UNCHANGED settled
  <2> DEFINE item == [work[w] EXCEPT !.tries = @ + 1]
  <2>1. item \in Work /\ item.job = j /\ item # None
    <3>1. work[w].tries + 1 \in 0..MaxAttempts - 1
      BY <1>2, <1>5
    <3> QED BY <1>2, <3>1 DEF Work
  <2>2. work' = [work EXCEPT ![w] = item]
    BY <1>5
  <2> HIDE DEF item
  <2>3. /\ work' \in [Workers -> Work \cup {None}] /\ work'[w] # None /\ work'[w].job = j
        /\ \A v \in Workers \ {w} : work'[v] = work[v]
    BY <1>2, <2>1, <2>2
  <2>4. Busy' = Busy
    BY <1>1, <2>3 DEF Busy
  <2>5. \A v \in Busy : v \in Workers /\ work'[v].job = work[v].job
    BY <2>3 DEF Busy
  <2>6. ASSUME NEW x PROVE (AtWork(x)' <=> AtWork(x)) /\ (Settled(x)' <=> Settled(x))
    BY <1>1, <1>5, <2>3 DEF AtWork, Settled
  <2>7. DispatchTypes'
    BY <1>0, <1>1, <1>5, <2>3 DEF DispatchTypes
  <2>8. OnePlace'
    <3>1. ASSUME NEW x \in Deliveries
          PROVE  /\ x \in pending' => (~Queued(x)' /\ ~AtWork(x)' /\ ~Settled(x)')
                 /\ Queued(x)' => (~AtWork(x)' /\ ~Settled(x)')
                 /\ AtWork(x)' => ~Settled(x)'
      BY <1>0, <1>1, <1>3, <2>6 DEF OnePlace
    <3> QED BY <1>0, <1>1, <2>4, <2>5, <3>1 DEF OnePlace
  <2>9. AllPlaced' /\ Sums'
    BY <1>0, <1>1, <1>3, <1>5, <2>4, <2>6 DEF AllPlaced, Sums
  <2> QED BY <1>0, <1>1, <2>7, <2>8, <2>9 DEF DispatchInv
<1>6. ASSUME NEW how \in {"succeeded", "failed", "dropped"}, Done(w, how)
      PROVE  DispatchInv'
  <2>1. Settle(j, how) /\ work' = [work EXCEPT ![w] = None]
    BY <1>6 DEF Done
  <2>2. /\ settled' \in SUBSET Settlement /\ IsFiniteSet(settled')
        /\ Cardinality(settled') = Cardinality(settled) + 1
        /\ \A x : Settled(x)' <=> (Settled(x) \/ x = j)
    BY <1>0, <1>2, <1>4, <2>1, SettleAdds
  <2>3. /\ work' \in [Workers -> Work \cup {None}] /\ work'[w] = None
        /\ \A v \in Workers \ {w} : work'[v] = work[v]
    BY <1>2, <2>1
  <2>4. Busy' = Busy \ {w}
    BY <1>1, <2>3 DEF Busy
  <2>5. Cardinality(Busy') = Cardinality(Busy) - 1
    BY <1>0, <1>4, <2>4, Sizes, FS_RemoveElement
  <2>6. ASSUME NEW x PROVE AtWork(x)' <=> (AtWork(x) /\ x # j)
    <3>1. \A v \in Workers : work'[v] # None <=> (work[v] # None /\ v # w)
      BY <1>2, <2>3
    <3>2. \A v \in Workers : (work[v] # None /\ v # w) => work[v].job # j
      BY <1>4 DEF Busy
    <3> QED BY <1>2, <2>3, <3>1, <3>2 DEF AtWork
  <2>7. DispatchTypes'
    BY <1>0, <1>1, <2>2, <2>3 DEF DispatchTypes
  <2>8. OnePlace'
    <3>1. ASSUME NEW x \in Deliveries
          PROVE  /\ x \in pending' => (~Queued(x)' /\ ~AtWork(x)' /\ ~Settled(x)')
                 /\ Queued(x)' => (~AtWork(x)' /\ ~Settled(x)')
                 /\ AtWork(x)' => ~Settled(x)'
      BY <1>0, <1>1, <1>3, <1>4, <2>2, <2>6 DEF OnePlace
    <3>2. \A v \in Busy' : v \in Busy /\ work'[v] = work[v]
      BY <2>3, <2>4 DEF Busy
    <3> QED BY <1>0, <1>1, <3>1, <3>2 DEF OnePlace
  <2>9. AllPlaced'
    BY <1>0, <1>1, <1>3, <1>4, <2>2, <2>6 DEF AllPlaced
  <2>10. Sums'
    BY <1>0, <1>1, <2>2, <2>5, Sizes DEF Sums
  <2> QED BY <1>0, <1>1, <2>7, <2>8, <2>9, <2>10 DEF DispatchInv
<1> QED BY <1>5, <1>6 DEF deliver, RetryOrDrop

LEMMA DispatchNext == HubInv /\ DispatchInv /\ [Next]_vars => DispatchInv'
<1> SUFFICES ASSUME HubInv, DispatchInv, [Next]_vars PROVE DispatchInv'
  OBVIOUS
<1>1. CASE handleEvent
  BY <1>1, HandleEventAccounts
<1>2. ASSUME NEW d \in pending, EnqueueNext(d) PROVE DispatchInv'
  BY <1>2, EnqueueAccounts
<1>3. ASSUME NEW w \in Workers, Take(w) PROVE DispatchInv'
  BY <1>3, TakeAccounts
<1>4. ASSUME NEW w \in Workers, deliver(w) PROVE DispatchInv'
  BY <1>4, DeliverAccounts
<1>5. CASE UNCHANGED dispatch /\ got'[Dispatcher] = got[Dispatcher]
  BY <1>5, DispatchFrame
<1>6. ASSUME NEW c \in Streams, Subscribe(c) \/ Receive(c) \/ Disconnect(c)
      PROVE  UNCHANGED dispatch /\ got'[Dispatcher] = got[Dispatcher]
  <2>1. c # Dispatcher /\ Dispatcher \in Clients /\ c \in Clients
    BY AlertsConstants DEF Clients
  <2>2. got \in [Clients -> Nat]
    BY DEF HubInv
  <2> QED BY <1>6, <2>1, <2>2 DEF Subscribe, Receive, Disconnect
<1>7. Happenings => UNCHANGED <<dispatch, got>>
  <2>1. ASSUME NEW n \in Nodes, Heartbeat(n) PROVE UNCHANGED <<dispatch, got>>
    BY <2>1 DEF Heartbeat
  <2>2. ASSUME NEW n \in Nodes, NEW on \in BOOLEAN, SetNodeMaintenance(n, on)
        PROVE  UNCHANGED <<dispatch, got>>
    BY <2>2 DEF SetNodeMaintenance
  <2>3. ASSUME NEW state \in RolloutStates, RolloutEvent(state) PROVE UNCHANGED <<dispatch, got>>
    BY <2>3 DEF RolloutEvent
  <2>4. ASSUME NEW w \in Hooks, deleteAlertWebhook(w) \/ createAlertWebhook(w, AlertTypes)
        PROVE  UNCHANGED <<dispatch, got>>
    BY <2>4 DEF deleteAlertWebhook, createAlertWebhook
  <2>5. publishJobEvent \/ Tick => UNCHANGED <<dispatch, got>>
    BY DEF publishJobEvent, Tick
  <2> QED BY <2>1, <2>2, <2>3, <2>4, <2>5 DEF Happenings
<1>8. UNCHANGED vars => UNCHANGED <<dispatch, got>>
  BY DEF vars
<1> QED BY <1>1, <1>2, <1>3, <1>4, <1>5, <1>6, <1>7, <1>8 DEF Next, Delivering

\* Every delivery due for an alert the dispatcher has taken is in one place or settled once, unless
\* the store failed to list the alert's webhooks.
THEOREM DeliveriesHavePlaces == Spec => []DeliveriesAccounted
<1> DEFINE Inv == FleetTypes /\ HubInv /\ DispatchInv
<1>1. Inv => DeliveriesAccounted
  <2> SUFFICES ASSUME FleetTypes, HubInv, DispatchInv PROVE DeliveriesAccounted
    OBVIOUS
  <2>1. DispatchTypes /\ AllPlaced /\ Sums
    BY DEF DispatchInv
  <2>2. AlertsTypeOK
    <3>1. ASSUME NEW c \in Clients
          PROVE  Len(chan[c].buf) <= ClientBuffer /\ from[c] \in 0..MaxEvents /\ got[c] \in 0..MaxEvents
      <4>1. /\ from[c] \in Nat /\ got[c] \in Nat /\ Len(chan[c].buf) \in Nat
            /\ Len(log) \in Nat /\ MaxEvents \in Nat
        BY LenProperties, AlertsConstants DEF HubInv, Channel
      <4>2. Len(chan[c].buf) <= ClientBuffer /\ from[c] + got[c] + Len(chan[c].buf) <= Len(log)
        BY DEF HubInv, Follows
      <4>3. Len(log) <= MaxEvents
        BY DEF HubInv
      <4> QED BY <4>1, <4>2, <4>3
    <3>2. from \in [Clients -> 0..MaxEvents] /\ got \in [Clients -> 0..MaxEvents]
      BY <3>1 DEF HubInv
    <3> QED BY <2>1, <3>1, <3>2 DEF AlertsTypeOK, FleetTypes, HubInv, Channel, DispatchTypes, Settlement
  <2>3. Kept = Underway \cup {s.job : s \in settled}
    <3>1. \A x : x \in ToSet(queue) <=> Queued(x)
      BY DEF ToSet, Queued
    <3>2. \A x : x \in {work[w].job : w \in {v \in Workers : work[v] # None}} <=> AtWork(x)
      BY DEF AtWork
    <3>3. \A x : x \in {s.job : s \in settled} <=> Settled(x)
      BY DEF Settled
    <3>4. \A x : (Queued(x) \/ AtWork(x) \/ Settled(x) \/ x \in pending \/ x \in Kept) => x \in Deliveries
      <4>1. \A x : Queued(x) => x \in Deliveries
        BY <2>1, ElementOfSeq DEF DispatchTypes, Queued
      <4>2. \A x : AtWork(x) => x \in Deliveries
        BY <2>1 DEF DispatchTypes, AtWork, Work
      <4>3. \A x : Settled(x) => x \in Deliveries
        BY <2>1 DEF DispatchTypes, Settled, Settlement
      <4> QED BY <2>1, <4>1, <4>2, <4>3 DEF DispatchTypes, Kept
    <3>5. \A x : x \in Kept <=> (x \in pending \/ Queued(x) \/ AtWork(x) \/ Settled(x))
      BY <2>1, <3>4 DEF AllPlaced
    <3> QED BY <3>1, <3>2, <3>3, <3>5 DEF Underway
  <2> QED BY <2>1, <2>2, <2>3 DEF DeliveriesAccounted, Sums, Busy
<1>2. Init => Inv
  BY FleetInit, HubInit, DispatchInit
<1>3. Inv /\ [Next]_vars => Inv'
  BY FleetNext, HubNext, DispatchNext
<1> QED BY <1>1, <1>2, <1>3, PTL DEF Spec
=============================================================================
