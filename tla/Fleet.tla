------------------------------ MODULE Fleet ------------------------------
(***************************************************************************)
(* How a host becomes a node of the fleet and stays one: one-time           *)
(* enrollment tokens, the credential a token is exchanged for, the sidecar's *)
(* state file, heartbeats, their retention, and removal.                     *)
(*                                                                         *)
(* A store call is one transaction.  A handler that makes two of them is     *)
(* two actions: the heartbeat handler verifies the credential and then       *)
(* records, and a removal or a new enrollment may come in between.  Requests *)
(* are lost, delayed and overtaken; a host dies between the exchange of its  *)
(* token and the write of its state file.                                   *)
(*                                                                         *)
(* Audit entries, which nothing reads to decide, and what a heartbeat says   *)
(* about runtimes are left out; the event it publishes is in Alerts, labels   *)
(* and maintenance mode are in NodeJobs.                                     *)
(***************************************************************************)
EXTENDS Naturals, Sequences, FiniteSets

CONSTANTS
  Nodes,          \* node identifiers
  Hosts,          \* machines that run a sidecar
  Tokens,         \* enrollment tokens an operator may create
  None,           \* no token, node, credential or request
  TokenTTL,       \* lifetime of an enrollment token
  KeepHeartbeats, \* heartbeat rows kept per node
  Base, Digits,   \* a second is told in Digits places of base Base (9 of base 10)
  Starts,         \* bound of the model: when to look first, and which tokens are spent by then
  MaxNow          \* bound on the clock

\* A credential is known by the position of its exchange; a sidecar's identity is
\* the node it speaks for and the credential it holds; a node's row holds the time
\* of its last heartbeat and the credential that one was sent with.
Credentials == 1..Cardinality(Tokens)
Identity == [node : Nodes, cred : Credentials]
NodeRow == [last : 0..MaxNow, by : Credentials \cup {None}]

\* The clock counts the smallest fractions of a second that a time can tell.
PerSecond == Base ^ Digits
Second(t) == t \div PerSecond

ASSUME FleetConstants ==
  /\ TokenTTL \in Nat \ {0}
  /\ MaxNow \in Nat \ {0}
  /\ KeepHeartbeats \in Nat \ {0}
  /\ Starts \subseteq [at : 1..MaxNow, spent : SUBSET Tokens]
  /\ Base \in Nat /\ Digits \in Nat /\ PerSecond \in Nat \ {0}
  /\ IsFiniteSet(Tokens)
  /\ None \notin Nodes \cup Hosts \cup Tokens
  /\ None \notin Credentials /\ None \notin Identity /\ None \notin NodeRow

VARIABLES
  now,         \* the server's clock
  tokens,      \* enrollment_tokens: expiry, 0 before creation, and whether used
  creds,       \* node_credentials: the credential of each enrolled node
  nodes,       \* nodes: last heartbeat (0: none yet) and who sent it, or None
  heartbeats,  \* the observation times kept per node
  checked,     \* heartbeat handlers between VerifyNodeCredential and RecordHeartbeat
  flight,      \* heartbeats on their way to the server
  answer,      \* per host: the answer to its enrollment, not yet written
  file,        \* per host: the sidecar's state file
  up,          \* per host: what the running sidecar was started with
  issued,      \* history: the exchanges, in order; a credential is its position
  removed,     \* history: credentials that went with their node
  stragglers   \* history: those a handler had already verified at that moment

server == <<now, tokens, creds, nodes, heartbeats, checked>>
hosts == <<answer, file, up>>
history == <<issued, removed, stragglers>>
vars == <<server, flight, hosts, history>>

FleetTypeOK ==
  /\ now \in 1..MaxNow
  /\ tokens \in [Tokens -> [expires : 0..MaxNow + TokenTTL, used : BOOLEAN]]
  /\ creds \in [Nodes -> Credentials \cup {None}]
  /\ nodes \in [Nodes -> NodeRow \cup {None}]
  /\ heartbeats \in [Nodes -> SUBSET (1..MaxNow)]
  /\ checked \subseteq [node : Nodes, cred : Credentials, at : 1..MaxNow]
  /\ flight \subseteq Identity
  /\ answer \in [Hosts -> Identity \cup {None}]
  /\ file \in [Hosts -> Identity \cup {None}]
  /\ up \in [Hosts -> Identity \cup {None}]
  /\ issued \in Seq([token : Tokens, node : Nodes]) /\ Len(issued) <= Cardinality(Tokens)
  /\ stragglers \subseteq removed /\ removed \subseteq Credentials

Init ==
  /\ \E start \in Starts :
       /\ now = start.at
       /\ tokens = [t \in Tokens |-> IF t \in start.spent THEN [expires |-> now, used |-> TRUE]
                                    ELSE [expires |-> 0, used |-> FALSE]]
  /\ creds = [n \in Nodes |-> None]
  /\ nodes = [n \in Nodes |-> None]
  /\ heartbeats = [n \in Nodes |-> {}]
  /\ checked = {} /\ flight = {}
  /\ answer = [h \in Hosts |-> None] /\ file = answer /\ up = answer
  /\ issued = <<>> /\ removed = {} /\ stragglers = {}

-----------------------------------------------------------------------------
(* Enrollment *)

\* The store inserts the token's row.
CreateEnrollmentToken(t, expires) ==
  tokens' = [tokens EXCEPT ![t].expires = expires]

\* An operator asks for a token with the default lifetime.
createEnrollmentToken(t) ==
  /\ tokens[t].expires = 0
  /\ CreateEnrollmentToken(t, now + TokenTTL)
  /\ UNCHANGED <<now, creds, nodes, heartbeats, checked, flight, hosts, history>>

\* Slip: the read of used_at is left to the index, which does not forbid reuse.
RedeemableAgain(t) == tokens[t].expires > now

\* The token's row says it may be exchanged.
Redeemable(t) == tokens[t].expires > now /\ ~tokens[t].used

\* Enrollment lists a node that is not listed yet, as never heard of.
Listed(row) == IF row = None THEN [last |-> 0, by |-> None] ELSE row

\* The store's EnrollNode: one transaction checks the token and the node, lists the
\* node, stores a new credential and marks the token used.
EnrollNode(t, n) ==
  /\ Redeemable(t)
  /\ creds[n] = None
  /\ issued' = Append(issued, [token |-> t, node |-> n])
  /\ tokens' = [tokens EXCEPT ![t].used = TRUE]
  /\ creds' = [creds EXCEPT ![n] = Len(issued')]
  /\ nodes' = [nodes EXCEPT ![n] = Listed(@)]

\* A host's request reaches the handler and is granted.  (A refused one changes
\* nothing.)
enrollNode(h, t, n) ==
  /\ answer[h] = None
  /\ EnrollNode(t, n)
  /\ answer' = [answer EXCEPT ![h] = [node |-> n, cred |-> Len(issued')]]
  /\ UNCHANGED <<now, heartbeats, checked, flight, file, up, removed, stragglers>>

\* The answer arrived; WriteState renames a complete temporary file.
WriteState(h) ==
  /\ answer[h] # None
  /\ file' = [file EXCEPT ![h] = answer[h]]
  /\ answer' = [answer EXCEPT ![h] = None]
  /\ UNCHANGED <<server, flight, up, history>>

\* The answer is lost, the file cannot be written, or the host dies before it is:
\* the token is spent and nobody knows the credential.
EnrollmentLost(h) ==
  /\ answer[h] # None
  /\ answer' = [answer EXCEPT ![h] = None]
  /\ UNCHANGED <<server, flight, file, up, history>>

-----------------------------------------------------------------------------
(* The sidecar process *)

\* run: a sidecar without a credential refuses to start; one that starts keeps the
\* identity it has read, whatever is written to the file later.
StartSidecar(h) ==
  /\ up[h] = None /\ file[h] # None
  /\ up' = [up EXCEPT ![h] = file[h]]
  /\ UNCHANGED <<server, flight, answer, file, history>>

StopSidecar(h) ==
  /\ up[h] # None
  /\ up' = [up EXCEPT ![h] = None]
  /\ UNCHANGED <<server, flight, answer, file, history>>

\* RunHeartbeatLoop: every interval one request; one that failed is not repeated,
\* and the loop goes on whatever the answer was.  (Requests on their way differ
\* only in who sends them, so one of each is enough.)
SendHeartbeat(h) ==
  /\ up[h] # None /\ up[h] \notin flight
  /\ flight' = flight \cup {up[h]}
  /\ UNCHANGED <<server, hosts, history>>

\* A request is lost, or its connection breaks before the handler looks at it.
LoseHeartbeat(req) ==
  /\ req \in flight
  /\ flight' = flight \ {req}
  /\ UNCHANGED <<server, hosts, history>>

-----------------------------------------------------------------------------
(* The heartbeat handler *)

\* Slip: a credential stays good after its node was removed.
VerifyIssued(n, c) == c \in DOMAIN issued /\ issued[c].node = n

VerifyNodeCredential(n, c) == creds[n] = c

\* The first half: the credential is compared, the observation time is taken.
HeartbeatVerified(req) ==
  /\ req \in flight
  /\ VerifyNodeCredential(req.node, req.cred)
  /\ checked' = checked \cup {[node |-> req.node, cred |-> req.cred, at |-> now]}
  /\ flight' = flight \ {req}
  /\ UNCHANGED <<now, tokens, creds, nodes, heartbeats, hosts, history>>

HeartbeatRejected(req) ==
  /\ req \in flight
  /\ ~VerifyNodeCredential(req.node, req.cred)
  /\ flight' = flight \ {req}
  /\ UNCHANGED <<server, hosts, history>>

\* What the store shows of a heartbeat.
Heard(req) == [last |-> req.at, by |-> req.cred]

\* Slip: last_heartbeat_at is not among the columns the upsert overwrites.
RecordKeepingTime(req) ==
  /\ nodes' = [nodes EXCEPT ![req.node] = IF @ = None THEN Heard(req)
                                          ELSE [@ EXCEPT !.by = req.cred]]
  /\ heartbeats' = [heartbeats EXCEPT ![req.node] = @ \cup {req.at}]

\* The store inserts the node's row or overwrites it, whatever became of the node's
\* credential in the meantime and whichever observation is newer.
RecordHeartbeat(req) ==
  /\ nodes' = [nodes EXCEPT ![req.node] = Heard(req)]
  /\ heartbeats' = [heartbeats EXCEPT ![req.node] = @ \cup {req.at}]

\* The second half.
HeartbeatRecorded(req) ==
  /\ req \in checked
  /\ RecordHeartbeat(req)
  /\ checked' = checked \ {req}
  /\ UNCHANGED <<now, tokens, creds, flight, hosts, history>>

-----------------------------------------------------------------------------
(* Removal and retention *)

\* The store's DeleteNode: credential, row and what refers to it in one transaction.
DeleteNode(n) ==
  /\ nodes[n] # None
  /\ nodes' = [nodes EXCEPT ![n] = None]
  /\ creds' = [creds EXCEPT ![n] = None]
  /\ heartbeats' = [heartbeats EXCEPT ![n] = {}]

deleteNode(n) ==
  /\ DeleteNode(n)
  /\ removed' = removed \cup ({creds[n]} \ {None})
  /\ stragglers' = stragglers \cup {req.cred : req \in {r \in checked : r.node = n}}
  /\ UNCHANGED <<now, tokens, checked, flight, hosts, issued>>

\* formatDBTime writes a fraction of a second without the zeros at its end, and a Z after
\* its last digit.  Z sorts after every digit: a text comes before another if it goes on
\* where that one ends, and by the first digit that differs otherwise.
GoesOn(f, g) == f # g /\ \E k \in 0..Digits : g % (Base ^ k) = 0 /\ f - (f % (Base ^ k)) = g
TextBefore(f, g) == GoesOn(f, g) \/ (f < g /\ ~GoesOn(g, f))

\* The place of a time among the texts of its second.
TextRank(t) == Cardinality({f \in 0..PerSecond - 1 : TextBefore(f, t % PerSecond)})

\* The order of the column observed_at.
TextAfter(u, t) == \/ Second(u) > Second(t)
                   \/ Second(u) = Second(t) /\ TextRank(u) > TextRank(t)

\* Slip: ascending instead of descending row numbers.
Oldest(times, k) == {t \in times : Cardinality({u \in times : TextAfter(t, u)}) < k}

\* The first k of a node's observations, in descending order of their texts.
Newest(times, k) == {t \in times : Cardinality({u \in times : TextAfter(u, t)}) < k}

\* The heartbeat pruner.  Observations of one instant count as one here.
PruneHeartbeats ==
  /\ heartbeats' = [n \in Nodes |-> Newest(heartbeats[n], KeepHeartbeats)]
  /\ UNCHANGED <<now, tokens, creds, nodes, checked, flight, hosts, history>>

Tick ==
  /\ now < MaxNow
  /\ now' = now + 1
  /\ UNCHANGED <<tokens, creds, nodes, heartbeats, checked, flight, hosts, history>>

-----------------------------------------------------------------------------

HostStep(h) ==
  \/ \E t \in Tokens, n \in Nodes : enrollNode(h, t, n)
  \/ WriteState(h) \/ EnrollmentLost(h)
  \/ StartSidecar(h) \/ StopSidecar(h) \/ SendHeartbeat(h)

Next ==
  \/ \E t \in Tokens : createEnrollmentToken(t)
  \/ \E h \in Hosts : HostStep(h)
  \/ \E req \in flight : LoseHeartbeat(req) \/ HeartbeatVerified(req) \/ HeartbeatRejected(req)
  \/ \E req \in checked : HeartbeatRecorded(req)
  \/ \E n \in Nodes : deleteNode(n)
  \/ PruneHeartbeats
  \/ Tick

Spec == Init /\ [][Next]_vars

\* A sidecar that runs goes on sending, the network does not lose every request,
\* and a handler finishes what it began.  Operators owe nothing.
FairSpec ==
  /\ Spec
  /\ \A h \in Hosts :
       /\ WF_vars(SendHeartbeat(h))
       /\ SF_vars(up[h] # None /\ HeartbeatVerified(up[h]))
  /\ \A n \in Nodes : WF_vars(\E req \in checked : req.node = n /\ HeartbeatRecorded(req))

-----------------------------------------------------------------------------
(* Properties *)

\* A token enrolls one node, whoever presents it, however often and in parallel.
TokenEnrollsOnce ==
  \A i, j \in DOMAIN issued : issued[i].token = issued[j].token => i = j

\* A credential is good exactly until its node is removed.  Before, no enrollment by
\* another host takes the credential of a state file away.  After, it never opens
\* the server again, and what a row shows was sent under the node's present
\* credential, or by a request that had passed the check at the removal.
AccessUntilRemoval ==
  /\ FleetTypeOK
  /\ \A h \in Hosts :
       file[h] # None => creds[file[h].node] = file[h].cred \/ file[h].cred \in removed
  /\ \A n \in Nodes :
       /\ creds[n] \notin removed
       /\ creds[n] # None => nodes[n] # None
       /\ nodes[n] # None => nodes[n].by \in {None, creds[n]} \cup stragglers

\* PruneHeartbeats: retention never leaves a node with only observations of an earlier second
\* than the one its row (and so its freshness) is computed from, even when handlers finish
\* out of order.  (Within a second the texts are not in the order of time: the very
\* observation may go and one that is older by less than a second stay.)
NewestHeartbeatKept ==
  \A n \in Nodes :
    nodes[n] # None => \/ nodes[n].last = 0
                       \/ \E t \in heartbeats[n] : Second(t) >= Second(nodes[n].last)

\* A sidecar that runs with its node's credential is heard, unless it is stopped or
\* its node is removed.
RunningIsHeard ==
  \A h \in Hosts :
    (up[h] # None /\ creds[up[h].node] = up[h].cred)
      ~> \/ up[h] = None
         \/ up[h].cred \in removed
         \/ nodes[up[h].node].last # 0
=============================================================================
