---------------------------- MODULE FleetProofs ----------------------------
(***************************************************************************)
(* Proofs about Fleet, for any number of hosts, nodes and enrollment tokens, *)
(* any token lifetime, any retention and any clock: a token enrolls once,    *)
(* a credential is good exactly until its node is removed, and retention     *)
(* keeps a heartbeat of the newest second.                                  *)
(***************************************************************************)
EXTENDS Fleet, FiniteSetTheorems, SequenceTheorems, TLAPS

\* What was exchanged is used up, and was exchanged once.
Exchanges ==
  /\ \A i \in 1..Len(issued) : tokens[issued[i].token].used
  /\ \A i, j \in 1..Len(issued) : issued[i].token = issued[j].token => i = j

\* A node's credential came out of an exchange for that node and was not removed.
CredsIssued ==
  /\ removed \subseteq 1..Len(issued)
  /\ \A n \in Nodes :
       creds[n] # None => /\ creds[n] \in 1..Len(issued) \ removed
                          /\ issued[creds[n]].node = n
                          /\ nodes[n] # None

\* An identity a host holds is its node's, or went with the node.
Holds(x) == x # None => creds[x.node] = x.cred \/ x.cred \in removed

HostsHold == \A h \in Hosts : Holds(answer[h]) /\ Holds(file[h])

\* A handler past the check works for the node's credential, or is a straggler.
CheckedKnown == \A r \in checked : creds[r.node] = r.cred \/ r.cred \in stragglers

RowsSigned ==
  \A n \in Nodes : nodes[n] # None => nodes[n].by \in {None, creds[n]} \cup stragglers

\* The inductive invariant.
FleetInv ==
  /\ FleetTypeOK /\ Exchanges /\ CredsIssued /\ HostsHold
  /\ CheckedKnown /\ RowsSigned /\ NewestHeartbeatKept

-----------------------------------------------------------------------------
(* Operators *)

\* A nonempty set of numbers that has an upper bound has a greatest element.
LEMMA GreatestElement ==
  ASSUME NEW b \in Nat, NEW S \in SUBSET (0..b), S # {}
  PROVE  \E m \in S : \A x \in S : x <= m
<1> DEFINE R == OpToRel(<, Nat)
           T == {y \in Nat : \E x \in S : y = b - x}
<1>0. PICK x0 \in S : TRUE
  OBVIOUS
<1>1. T \subseteq Nat /\ b - x0 \in T
  OBVIOUS
<1>2. IsWellFoundedOn(R, Nat)
  BY NatLessThanWellFounded, Zenon
<1>3. \A x, y \in Nat : x < y => <<x, y>> \in R
  BY DEF OpToRel
<1> HIDE DEF R, T
<1>4. PICK x \in T : \A y \in T : ~(<<y, x>> \in R)
  BY <1>1, <1>2, WFMin
<1>5. \A y \in T : x <= y
  <2> SUFFICES ASSUME NEW y \in T PROVE x <= y
    OBVIOUS
  <2>1. x \in Nat /\ y \in Nat
    BY <1>1
  <2>2. ~(y < x)
    BY <1>3, <1>4, <2>1
  <2> QED
    BY <2>1, <2>2
<1>6. PICK m \in S : x = b - m
  BY DEF T
<1>7. \A y \in S : b - y \in T
  BY DEF T
<1>8. \A y \in S : y <= m
  BY <1>5, <1>6, <1>7
<1> QED
  BY <1>8

LEMMA SecondType ==
  ASSUME NEW t \in Nat
  PROVE  Second(t) \in Nat /\ t % PerSecond \in 0..PerSecond - 1 /\ Second(t) <= t
BY FleetConstants DEF Second

LEMMA RankType ==
  ASSUME NEW t \in Nat
  PROVE  TextRank(t) \in 0..PerSecond
<1> DEFINE F == 0..PerSecond - 1
           B == {f \in F : TextBefore(f, t % PerSecond)}
<1>1. PerSecond \in Nat \ {0}
  BY FleetConstants
<1>2. IsFiniteSet(F) /\ Cardinality(F) = PerSecond
  <2>1. 0 \in Int /\ PerSecond - 1 \in Int
    BY <1>1
  <2>2. IsFiniteSet(F) /\ Cardinality(F) = IF 0 > PerSecond - 1 THEN 0 ELSE (PerSecond - 1) - 0 + 1
    BY <2>1, FS_Interval
  <2> QED
    BY <1>1, <2>2
<1>3. B \subseteq F
  OBVIOUS
<1> HIDE DEF F, B
<1>4. IsFiniteSet(B) /\ Cardinality(B) <= Cardinality(F)
  BY <1>2, <1>3, FS_Subset
<1>5. Cardinality(B) \in Nat
  BY <1>4, FS_CardinalityType
<1>6. TextRank(t) = Cardinality(B)
  BY DEF TextRank, B, F
<1> QED
  BY <1>1, <1>2, <1>4, <1>5, <1>6

\* Some observation of the last second survives the pruner, whichever the order of the
\* texts within it.
LEMMA NewestKept ==
  ASSUME NEW times \in SUBSET (1..MaxNow), NEW k \in Nat \ {0}, NEW t \in times
  PROVE  \E u \in Newest(times, k) : Second(u) >= Second(t)
<1>0. MaxNow \in Nat /\ PerSecond \in Nat /\ \A x \in times : x \in Nat /\ x <= MaxNow
  BY FleetConstants
<1>1. \A x \in times : Second(x) \in 0..MaxNow /\ TextRank(x) \in 0..PerSecond
  <2> TAKE x \in times
  <2>1. Second(x) \in Nat /\ Second(x) <= x
    BY <1>0, SecondType
  <2>2. TextRank(x) \in 0..PerSecond
    BY <1>0, RankType
  <2> QED
    BY <1>0, <2>1, <2>2
<1> DEFINE S == {s \in 0..MaxNow : \E x \in times : s = Second(x)}
<1>2. S \in SUBSET (0..MaxNow) /\ S # {}
  BY <1>1
<1>3. PICK s \in S : \A x \in S : x <= s
  <2> HIDE DEF S
  <2> QED
    BY <1>0, <1>2, GreatestElement
<1> DEFINE R == {r \in 0..PerSecond : \E x \in times : s = Second(x) /\ r = TextRank(x)}
<1>4. R \in SUBSET (0..PerSecond) /\ R # {}
  BY <1>1, <1>3
<1>5. PICK r \in R : \A x \in R : x <= r
  <2> HIDE DEF R
  <2> QED
    BY <1>0, <1>4, GreatestElement
<1>6. PICK m \in times : s = Second(m) /\ r = TextRank(m)
  BY <1>5
<1>7. ASSUME NEW u \in times PROVE ~TextAfter(u, m)
  <2>1. Second(u) \in 0..MaxNow /\ TextRank(u) \in 0..PerSecond
    BY <1>1
  <2>2. Second(u) <= s
    BY <1>3, <2>1
  <2>3. Second(u) = s => TextRank(u) <= r
    BY <1>5, <2>1
  <2>4. s \in Nat /\ r \in Nat /\ Second(u) \in Nat /\ TextRank(u) \in Nat
    BY <1>0, <2>1, <1>3, <1>5
  <2>5. ~(Second(u) > Second(m)) /\ (Second(u) = Second(m) => ~(TextRank(u) > TextRank(m)))
    BY <1>6, <2>2, <2>3, <2>4
  <2> QED
    BY <2>5 DEF TextAfter
<1>8. {u \in times : TextAfter(u, m)} = {}
  BY <1>7
<1>9. m \in Newest(times, k)
  BY <1>8, FS_EmptySet DEF Newest
<1>10. Second(m) >= Second(t)
  <2>1. Second(t) \in S
    BY <1>1
  <2>2. Second(t) <= s /\ s \in Nat /\ Second(t) \in Nat
    BY <1>0, <1>1, <1>3, <2>1
  <2> QED
    BY <1>6, <2>2
<1> QED
  BY <1>9, <1>10

\* There are no more exchanges than tokens.
LEMMA IssuedBound ==
  ASSUME NEW s \in Seq([token : Tokens, node : Nodes]),
         \A i, j \in 1..Len(s) : s[i].token = s[j].token => i = j
  PROVE  Len(s) <= Cardinality(Tokens)
<1> DEFINE f == [i \in 1..Len(s) |-> s[i].token]
<1>0. Len(s) \in Nat /\ \A i \in 1..Len(s) : s[i] \in [token : Tokens, node : Nodes]
  BY LenProperties, ElementOfSeq
<1>1. f \in [1..Len(s) -> Tokens]
  BY <1>0
<1>2. IsFiniteSet(1..Len(s)) /\ Cardinality(1..Len(s)) = Len(s)
  <2>1. 1 \in Int /\ Len(s) \in Int
    BY <1>0
  <2>2. /\ IsFiniteSet(1..Len(s))
        /\ Cardinality(1..Len(s)) = IF 1 > Len(s) THEN 0 ELSE Len(s) - 1 + 1
    BY <2>1, FS_Interval
  <2> QED
    BY <1>0, <2>2
<1>3. IsFiniteSet(Tokens) /\ Cardinality(Tokens) \in Nat
  BY FleetConstants, FS_CardinalityType
<1>4. SUFFICES ASSUME Cardinality(Tokens) < Cardinality(1..Len(s)) PROVE FALSE
  BY <1>2, <1>3
<1>5. PICK x, y \in 1..Len(s) : x # y /\ f[x] = f[y]
  <2> HIDE DEF f
  <2> QED
    BY <1>1, <1>2, <1>3, <1>4, FS_PigeonHole
<1> QED
  BY <1>5

-----------------------------------------------------------------------------
(* Steps *)

LEMMA FleetInitInv == Init => FleetInv
<1> SUFFICES ASSUME Init PROVE FleetInv
  OBVIOUS
<1>1. Cardinality(Tokens) \in Nat
  BY FleetConstants, FS_CardinalityType
<1>2. FleetTypeOK
  <2>1. PICK start \in Starts :
          /\ now = start.at
          /\ tokens = [t \in Tokens |-> IF t \in start.spent THEN [expires |-> now, used |-> TRUE]
                                       ELSE [expires |-> 0, used |-> FALSE]]
    BY DEF Init
  <2>2. now \in 1..MaxNow /\ MaxNow \in Nat /\ TokenTTL \in Nat
    BY <2>1, FleetConstants
  <2>3. tokens \in [Tokens -> [expires : 0..MaxNow + TokenTTL, used : BOOLEAN]]
    BY <2>1, <2>2
  <2> QED
    BY <1>1, <2>2, <2>3 DEF Init, FleetTypeOK
<1>3. Exchanges /\ CredsIssued
  BY DEF Init, Exchanges, CredsIssued
<1>4. HostsHold /\ CheckedKnown /\ RowsSigned /\ NewestHeartbeatKept
  BY DEF Init, HostsHold, Holds, CheckedKnown, RowsSigned, NewestHeartbeatKept
<1> QED
  BY <1>2, <1>3, <1>4 DEF FleetInv

LEMMA CreateTokenInv ==
  ASSUME FleetInv, NEW t \in Tokens, createEnrollmentToken(t)
  PROVE  FleetInv'
<1>1. FleetTypeOK
  BY DEF FleetInv
<1>2. /\ tokens' = [tokens EXCEPT ![t].expires = now + TokenTTL]
      /\ UNCHANGED <<now, creds, nodes, heartbeats, checked, flight, answer, file, up,
                     issued, removed, stragglers>>
  BY DEF createEnrollmentToken, CreateEnrollmentToken, hosts, history
<1>3. now + TokenTTL \in 0..MaxNow + TokenTTL
  BY <1>1, FleetConstants DEF FleetTypeOK
<1>4. /\ tokens' \in [Tokens -> [expires : 0..MaxNow + TokenTTL, used : BOOLEAN]]
      /\ \A x \in Tokens : tokens'[x].used = tokens[x].used
  BY <1>1, <1>2, <1>3 DEF FleetTypeOK
<1>5. FleetTypeOK'
  BY <1>1, <1>2, <1>4 DEF FleetTypeOK
<1>6. Exchanges'
  <2>1. \A i \in 1..Len(issued) : issued[i] \in [token : Tokens, node : Nodes]
    BY <1>1, ElementOfSeq DEF FleetTypeOK
  <2> QED
    BY <1>2, <1>4, <2>1 DEF FleetInv, Exchanges
<1>7. CredsIssued' /\ HostsHold' /\ CheckedKnown' /\ RowsSigned' /\ NewestHeartbeatKept'
  BY <1>2 DEF FleetInv, CredsIssued, HostsHold, Holds, CheckedKnown, RowsSigned,
              NewestHeartbeatKept
<1> QED
  BY <1>5, <1>6, <1>7 DEF FleetInv

\* The exchange: the new credential is one nobody has held, and the node had none.
LEMMA EnrollInv ==
  ASSUME FleetInv, NEW h \in Hosts, NEW t \in Tokens, NEW n \in Nodes, enrollNode(h, t, n)
  PROVE  FleetInv'
<1> DEFINE k == Len(issued) + 1
           e == [token |-> t, node |-> n]
<1>0. FleetTypeOK /\ Exchanges /\ CredsIssued
  BY DEF FleetInv
<1>1. /\ issued' = Append(issued, e)
      /\ tokens' = [tokens EXCEPT ![t].used = TRUE]
      /\ creds' = [creds EXCEPT ![n] = Len(issued')]
      /\ nodes' = [nodes EXCEPT ![n] = Listed(@)]
      /\ answer' = [answer EXCEPT ![h] = [node |-> n, cred |-> Len(issued')]]
      /\ UNCHANGED <<now, heartbeats, checked, flight, file, up, removed, stragglers>>
      /\ ~tokens[t].used /\ creds[n] = None
  BY DEF enrollNode, EnrollNode, Redeemable
<1>2. issued \in Seq([token : Tokens, node : Nodes]) /\ e \in [token : Tokens, node : Nodes]
  BY <1>0 DEF FleetTypeOK
<1>3. Len(issued) \in Nat /\ \A i \in 1..Len(issued) : issued[i] \in [token : Tokens, node : Nodes]
  BY <1>2, LenProperties, ElementOfSeq
<1>4. /\ issued' \in Seq([token : Tokens, node : Nodes])
      /\ Len(issued') = k
      /\ \A i \in 1..Len(issued) : issued'[i] = issued[i]
      /\ issued'[k] = e
  <2> HIDE DEF e
  <2> QED
    BY <1>1, <1>2, AppendProperties
<1>5. /\ tokens' \in [Tokens -> [expires : 0..MaxNow + TokenTTL, used : BOOLEAN]]
      /\ tokens'[t].used
      /\ \A x \in Tokens : tokens[x].used => tokens'[x].used
  BY <1>0, <1>1 DEF FleetTypeOK
<1>6. Exchanges'
  <2>1. \A i \in 1..k : i \in 1..Len(issued) \/ i = k
    BY <1>3
  <2>2. \A i \in 1..Len(issued) : issued[i].token # t
    BY <1>0, <1>1 DEF Exchanges
  <2>3. \A i \in 1..k : tokens'[issued'[i].token].used
    BY <1>0, <1>3, <1>4, <1>5, <2>1 DEF Exchanges
  <2>4. \A i, j \in 1..k : issued'[i].token = issued'[j].token => i = j
    BY <1>0, <1>4, <2>1, <2>2 DEF Exchanges
  <2> QED
    BY <1>4, <2>3, <2>4 DEF Exchanges
<1>7. k <= Cardinality(Tokens) /\ Cardinality(Tokens) \in Nat
  <2>1. Cardinality(Tokens) \in Nat
    BY FleetConstants, FS_CardinalityType
  <2> QED
    BY <1>4, <1>6, <2>1, IssuedBound DEF Exchanges
<1>8. k \in Credentials /\ k # None /\ k \notin removed
  BY <1>0, <1>3, <1>7, FleetConstants DEF CredsIssued, Credentials
<1>9. /\ creds' \in [Nodes -> Credentials \cup {None}]
      /\ creds'[n] = k
      /\ \A m \in Nodes \ {n} : creds'[m] = creds[m]
  BY <1>0, <1>1, <1>4, <1>8 DEF FleetTypeOK
<1>10. Listed(nodes[n]) \in NodeRow
  BY <1>0, FleetConstants DEF FleetTypeOK, Listed, NodeRow
<1>11. /\ nodes' \in [Nodes -> NodeRow \cup {None}]
       /\ nodes'[n] = Listed(nodes[n]) /\ nodes'[n] # None
       /\ \A m \in Nodes \ {n} : nodes'[m] = nodes[m]
  BY <1>0, <1>1, <1>10, FleetConstants DEF FleetTypeOK
<1>12. /\ answer' \in [Hosts -> Identity \cup {None}]
       /\ answer'[h] = [node |-> n, cred |-> k]
       /\ \A g \in Hosts \ {h} : answer'[g] = answer[g]
  BY <1>0, <1>1, <1>4, <1>8 DEF FleetTypeOK, Identity
<1>13. FleetTypeOK'
  BY <1>0, <1>1, <1>4, <1>5, <1>7, <1>9, <1>11, <1>12 DEF FleetTypeOK
<1>14. CredsIssued'
  <2>1. removed' \subseteq 1..Len(issued')
    BY <1>0, <1>1, <1>3, <1>4 DEF CredsIssued
  <2>2. ASSUME NEW m \in Nodes, creds'[m] # None
        PROVE  /\ creds'[m] \in 1..Len(issued') \ removed'
               /\ issued'[creds'[m]].node = m
               /\ nodes'[m] # None
    <3>1. CASE m = n
      BY <1>1, <1>3, <1>4, <1>8, <1>9, <1>11, <3>1
    <3>2. CASE m # n
      <4>1. creds[m] \in 1..Len(issued) \ removed /\ issued[creds[m]].node = m /\ nodes[m] # None
        BY <1>0, <1>9, <2>2, <3>2 DEF CredsIssued
      <4> QED
        BY <1>1, <1>3, <1>4, <1>9, <1>11, <3>2, <4>1
    <3> QED
      BY <3>1, <3>2
  <2> QED
    BY <2>1, <2>2 DEF CredsIssued
<1>15. HostsHold'
  <2>1. \A x \in Identity : Holds(x) => Holds(x)'
    BY <1>1, <1>8, <1>9, FleetConstants DEF Holds, Identity
  <2>2. creds'[answer'[h].node] = answer'[h].cred
    BY <1>9, <1>12
  <2>3. \A g \in Hosts : file[g] \in Identity \cup {None} /\ answer[g] \in Identity \cup {None}
    BY <1>0 DEF FleetTypeOK
  <2>4. ASSUME NEW g \in Hosts PROVE Holds(answer[g])' /\ Holds(file[g])'
    <3>1. Holds(answer[g]) /\ Holds(file[g])
      BY DEF FleetInv, HostsHold
    <3>2. Holds(file[g])'
      BY <1>1, <2>1, <2>3, <3>1 DEF Holds
    <3>3. Holds(answer[g])'
      BY <1>12, <2>1, <2>2, <2>3, <3>1 DEF Holds
    <3> QED
      BY <3>2, <3>3
  <2> QED
    BY <2>4 DEF HostsHold
<1>16. CheckedKnown'
  <2>1. \A r \in checked : r.node \in Nodes /\ r.cred \in Credentials
    BY <1>0 DEF FleetTypeOK
  <2> QED
    BY <1>1, <1>9, <2>1, FleetConstants DEF FleetInv, CheckedKnown
<1>17. RowsSigned'
  <2>1. nodes'[n].by \in {None} \cup stragglers
    BY <1>1, <1>11 DEF FleetInv, RowsSigned, Listed
  <2> QED
    BY <1>1, <1>9, <1>11, <2>1 DEF FleetInv, RowsSigned
<1>18. NewestHeartbeatKept'
  <2>1. nodes'[n].last = 0 \/ (nodes[n] # None /\ nodes'[n].last = nodes[n].last)
    BY <1>11 DEF Listed
  <2> QED
    BY <1>1, <1>11, <2>1 DEF FleetInv, NewestHeartbeatKept
<1> QED
  BY <1>6, <1>13, <1>14, <1>15, <1>16, <1>17, <1>18 DEF FleetInv

\* What a host does with its state file and its sidecar: only identities it already
\* holds move.
LEMMA HostInv ==
  ASSUME FleetInv, NEW h \in Hosts,
         \/ WriteState(h) \/ EnrollmentLost(h)
         \/ StartSidecar(h) \/ StopSidecar(h) \/ SendHeartbeat(h)
  PROVE  FleetInv'
<1>1. FleetTypeOK /\ HostsHold
  BY DEF FleetInv
<1>2. UNCHANGED <<now, tokens, creds, nodes, heartbeats, checked, issued, removed, stragglers>>
  BY DEF WriteState, EnrollmentLost, StartSidecar, StopSidecar, SendHeartbeat, server, history
<1>3. /\ answer' \in [Hosts -> Identity \cup {None}]
      /\ file' \in [Hosts -> Identity \cup {None}]
      /\ up' \in [Hosts -> Identity \cup {None}]
      /\ flight' \subseteq Identity
  BY <1>1 DEF FleetTypeOK, WriteState, EnrollmentLost, StartSidecar, StopSidecar,
              SendHeartbeat, hosts
<1>4. FleetTypeOK'
  BY <1>1, <1>2, <1>3 DEF FleetTypeOK
<1>5. \A g \in Hosts : answer'[g] \in {answer[g], None} /\ file'[g] \in {file[g], answer[g]}
  BY <1>1 DEF FleetTypeOK, WriteState, EnrollmentLost, StartSidecar, StopSidecar,
              SendHeartbeat, hosts
<1>6. HostsHold'
  BY <1>1, <1>2, <1>5 DEF HostsHold, Holds
<1>7. Exchanges' /\ CredsIssued' /\ CheckedKnown' /\ RowsSigned' /\ NewestHeartbeatKept'
  BY <1>2 DEF FleetInv, Exchanges, CredsIssued, CheckedKnown, RowsSigned, NewestHeartbeatKept
<1> QED
  BY <1>4, <1>6, <1>7 DEF FleetInv

\* A request is lost, refused, or passes the check.
LEMMA FlightInv ==
  ASSUME FleetInv, NEW req \in flight,
         LoseHeartbeat(req) \/ HeartbeatVerified(req) \/ HeartbeatRejected(req)
  PROVE  FleetInv'
<1>1. FleetTypeOK /\ HostsHold
  BY DEF FleetInv
<1>2. UNCHANGED <<now, tokens, creds, nodes, heartbeats, answer, file, up, issued, removed,
                  stragglers>>
  BY DEF LoseHeartbeat, HeartbeatVerified, HeartbeatRejected, server, hosts, history
<1>3. req.node \in Nodes /\ req.cred \in Credentials
  BY <1>1 DEF FleetTypeOK, Identity
<1>4. /\ flight' \subseteq flight
      /\ \A r \in checked' : \/ r \in checked
                             \/ /\ r = [node |-> req.node, cred |-> req.cred, at |-> now]
                                /\ creds[req.node] = req.cred
  BY DEF LoseHeartbeat, HeartbeatVerified, HeartbeatRejected, VerifyNodeCredential, server
<1>5. checked' \subseteq [node : Nodes, cred : Credentials, at : 1..MaxNow]
  BY <1>1, <1>3, <1>4 DEF FleetTypeOK
<1>6. FleetTypeOK'
  BY <1>1, <1>2, <1>4, <1>5 DEF FleetTypeOK
<1>7. CheckedKnown'
  BY <1>2, <1>4 DEF FleetInv, CheckedKnown
<1>8. Exchanges' /\ CredsIssued' /\ HostsHold' /\ RowsSigned' /\ NewestHeartbeatKept'
  BY <1>2 DEF FleetInv, Exchanges, CredsIssued, HostsHold, Holds, RowsSigned, NewestHeartbeatKept
<1> QED
  BY <1>6, <1>7, <1>8 DEF FleetInv

\* A handler past the check records, whatever happened to the node in between.
LEMMA RecordedInv ==
  ASSUME FleetInv, NEW req \in checked, HeartbeatRecorded(req)
  PROVE  FleetInv'
<1>1. FleetTypeOK
  BY DEF FleetInv
<1>2. /\ nodes' = [nodes EXCEPT ![req.node] = Heard(req)]
      /\ heartbeats' = [heartbeats EXCEPT ![req.node] = heartbeats[req.node] \cup {req.at}]
      /\ checked' = checked \ {req}
      /\ UNCHANGED <<now, tokens, creds, flight, answer, file, up, issued, removed, stragglers>>
  BY DEF HeartbeatRecorded, RecordHeartbeat, hosts, history
<1>3. req.node \in Nodes /\ req.cred \in Credentials /\ req.at \in 1..MaxNow
  BY <1>1 DEF FleetTypeOK
<1>4. /\ Heard(req) \in NodeRow /\ Heard(req) # None
      /\ Heard(req).last = req.at /\ Heard(req).by = req.cred
  BY <1>3, FleetConstants DEF Heard, NodeRow
<1>5. /\ nodes' \in [Nodes -> NodeRow \cup {None}]
      /\ nodes'[req.node] = Heard(req)
      /\ \A m \in Nodes \ {req.node} : nodes'[m] = nodes[m]
  BY <1>1, <1>2, <1>3, <1>4 DEF FleetTypeOK
<1>6. /\ heartbeats' \in [Nodes -> SUBSET (1..MaxNow)]
      /\ req.at \in heartbeats'[req.node]
      /\ \A m \in Nodes \ {req.node} : heartbeats'[m] = heartbeats[m]
  BY <1>1, <1>2, <1>3 DEF FleetTypeOK
<1>7. FleetTypeOK'
  BY <1>1, <1>2, <1>5, <1>6 DEF FleetTypeOK
<1>8. Exchanges' /\ HostsHold' /\ CheckedKnown'
  BY <1>2 DEF FleetInv, Exchanges, HostsHold, Holds, CheckedKnown
<1>9. CredsIssued'
  BY <1>2, <1>4, <1>5 DEF FleetInv, CredsIssued
<1>10. RowsSigned'
  BY <1>2, <1>4, <1>5 DEF FleetInv, RowsSigned, CheckedKnown
<1>11. NewestHeartbeatKept'
  <2>1. Second(req.at) >= Second(req.at)
    BY <1>3, FleetConstants, SecondType
  <2> QED
    BY <1>4, <1>5, <1>6, <2>1 DEF FleetInv, NewestHeartbeatKept
<1> QED
  BY <1>7, <1>8, <1>9, <1>10, <1>11 DEF FleetInv

\* A removal turns the handlers already past the check into stragglers.
LEMMA DeleteNodeInv ==
  ASSUME FleetInv, NEW n \in Nodes, deleteNode(n)
  PROVE  FleetInv'
<1> DEFINE late == {req.cred : req \in {r \in checked : r.node = n}}
<1>1. FleetTypeOK /\ CredsIssued /\ CheckedKnown
  BY DEF FleetInv
<1>2. /\ nodes' = [nodes EXCEPT ![n] = None]
      /\ creds' = [creds EXCEPT ![n] = None]
      /\ heartbeats' = [heartbeats EXCEPT ![n] = {}]
      /\ removed' = removed \cup ({creds[n]} \ {None})
      /\ stragglers' = stragglers \cup late
      /\ UNCHANGED <<now, tokens, checked, flight, answer, file, up, issued>>
  BY DEF deleteNode, DeleteNode, hosts
<1>3. /\ nodes' \in [Nodes -> NodeRow \cup {None}] /\ nodes'[n] = None
      /\ creds' \in [Nodes -> Credentials \cup {None}] /\ creds'[n] = None
      /\ heartbeats' \in [Nodes -> SUBSET (1..MaxNow)]
      /\ \A m \in Nodes \ {n} : /\ nodes'[m] = nodes[m] /\ creds'[m] = creds[m]
                               /\ heartbeats'[m] = heartbeats[m]
  BY <1>1, <1>2 DEF FleetTypeOK
<1>4. \A r \in checked : r.node \in Nodes /\ r.cred \in Credentials /\ r.cred # None
  BY <1>1, FleetConstants DEF FleetTypeOK
<1>5. late \subseteq removed'
  <2> SUFFICES ASSUME NEW r \in checked, r.node = n PROVE r.cred \in removed'
    OBVIOUS
  <2>1. r.cred = creds[n] \/ r.cred \in stragglers
    BY <1>1 DEF CheckedKnown
  <2> QED
    BY <1>1, <1>2, <1>4, <2>1 DEF FleetTypeOK
<1>6. /\ removed' \subseteq Credentials /\ removed' \subseteq 1..Len(issued)
      /\ removed \subseteq removed' /\ stragglers \subseteq stragglers'
  <2> HIDE DEF late
  <2>1. creds[n] # None => creds[n] \in Credentials /\ creds[n] \in 1..Len(issued)
    BY <1>1 DEF FleetTypeOK, CredsIssued
  <2>2. removed \subseteq Credentials /\ removed \subseteq 1..Len(issued)
    BY <1>1 DEF FleetTypeOK, CredsIssued
  <2> QED
    BY <1>2, <2>1, <2>2
<1>7. stragglers' \subseteq removed'
  BY <1>1, <1>2, <1>5 DEF FleetTypeOK
<1>8. FleetTypeOK'
  BY <1>1, <1>2, <1>3, <1>6, <1>7 DEF FleetTypeOK
<1>9. Exchanges'
  BY <1>2 DEF FleetInv, Exchanges
<1>10. CredsIssued'
  <2>1. \A m \in Nodes \ {n} : creds[m] # None => creds[m] # creds[n]
    BY <1>1 DEF CredsIssued
  <2> QED
    BY <1>1, <1>2, <1>3, <1>6, <2>1 DEF CredsIssued
<1>11. HostsHold'
  <2>1. \A x \in Identity : Holds(x) => x = None \/ creds'[x.node] = x.cred \/ x.cred \in removed'
    BY <1>2, <1>3, <1>6, FleetConstants DEF Holds, Identity
  <2>2. \A g \in Hosts : file[g] \in Identity \cup {None} /\ answer[g] \in Identity \cup {None}
    BY <1>1 DEF FleetTypeOK
  <2> QED
    BY <1>2, <2>1, <2>2 DEF FleetInv, HostsHold, Holds
<1>12. CheckedKnown'
  <2>1. \A r \in checked : r.node = n => r.cred \in late
    OBVIOUS
  <2> QED
    BY <1>1, <1>2, <1>3, <1>4, <2>1 DEF CheckedKnown
<1>13. RowsSigned'
  BY <1>2, <1>3 DEF FleetInv, RowsSigned
<1>14. NewestHeartbeatKept'
  BY <1>3 DEF FleetInv, NewestHeartbeatKept
<1> QED
  BY <1>8, <1>9, <1>10, <1>11, <1>12, <1>13, <1>14 DEF FleetInv

LEMMA PruneInv ==
  ASSUME FleetInv, PruneHeartbeats
  PROVE  FleetInv'
<1>1. FleetTypeOK
  BY DEF FleetInv
<1>2. /\ heartbeats' = [n \in Nodes |-> Newest(heartbeats[n], KeepHeartbeats)]
      /\ UNCHANGED <<now, tokens, creds, nodes, checked, flight, answer, file, up,
                     issued, removed, stragglers>>
  BY DEF PruneHeartbeats, hosts, history
<1>3. heartbeats' \in [Nodes -> SUBSET (1..MaxNow)]
  BY <1>1, <1>2 DEF FleetTypeOK, Newest
<1>4. FleetTypeOK'
  BY <1>1, <1>2, <1>3 DEF FleetTypeOK
<1>5. Exchanges' /\ CredsIssued' /\ HostsHold' /\ CheckedKnown' /\ RowsSigned'
  BY <1>2 DEF FleetInv, Exchanges, CredsIssued, HostsHold, Holds, CheckedKnown, RowsSigned
<1>6. ASSUME NEW n \in Nodes, nodes[n] # None, nodes[n].last # 0
      PROVE  \E u \in heartbeats'[n] : Second(u) >= Second(nodes[n].last)
  <2>1. PICK t \in heartbeats[n] : Second(t) >= Second(nodes[n].last)
    BY <1>6 DEF FleetInv, NewestHeartbeatKept
  <2>2. PICK u \in Newest(heartbeats[n], KeepHeartbeats) : Second(u) >= Second(t)
    BY <1>1, FleetConstants, NewestKept DEF FleetTypeOK
  <2>3. Second(t) \in Nat /\ Second(u) \in Nat /\ Second(nodes[n].last) \in Nat
    <3>1. t \in Nat /\ u \in Nat /\ nodes[n].last \in Nat
      BY <1>1, <1>6, FleetConstants DEF FleetTypeOK, NodeRow, Newest
    <3> QED
      BY <3>1, SecondType
  <2> QED
    BY <1>2, <2>1, <2>2, <2>3
<1>7. NewestHeartbeatKept'
  BY <1>2, <1>6 DEF NewestHeartbeatKept
<1> QED
  BY <1>4, <1>5, <1>7 DEF FleetInv

LEMMA FleetNextInv == FleetInv /\ [Next]_vars => FleetInv'
<1> SUFFICES ASSUME FleetInv, [Next]_vars PROVE FleetInv'
  OBVIOUS
<1>1. ASSUME NEW t \in Tokens, createEnrollmentToken(t) PROVE FleetInv'
  BY <1>1, CreateTokenInv
<1>2. ASSUME NEW h \in Hosts, HostStep(h) PROVE FleetInv'
  BY <1>2, EnrollInv, HostInv DEF HostStep
<1>3. ASSUME NEW req \in flight,
             LoseHeartbeat(req) \/ HeartbeatVerified(req) \/ HeartbeatRejected(req)
      PROVE  FleetInv'
  BY <1>3, FlightInv
<1>4. ASSUME NEW req \in checked, HeartbeatRecorded(req) PROVE FleetInv'
  BY <1>4, RecordedInv
<1>5. ASSUME NEW n \in Nodes, deleteNode(n) PROVE FleetInv'
  BY <1>5, DeleteNodeInv
<1>6. CASE PruneHeartbeats
  BY <1>6, PruneInv
<1>7. CASE Tick
  <2>1. /\ now' \in 1..MaxNow
        /\ UNCHANGED <<tokens, creds, nodes, heartbeats, checked, flight, answer, file, up,
                       issued, removed, stragglers>>
    BY <1>7, FleetConstants DEF Tick, hosts, history, FleetInv, FleetTypeOK
  <2> QED
    BY <2>1 DEF FleetInv, FleetTypeOK, Exchanges, CredsIssued, HostsHold, Holds, CheckedKnown,
                RowsSigned, NewestHeartbeatKept
<1>8. CASE UNCHANGED vars
  BY <1>8 DEF vars, server, hosts, history, FleetInv, FleetTypeOK, Exchanges, CredsIssued,
              HostsHold, Holds, CheckedKnown, RowsSigned, NewestHeartbeatKept
<1> QED
  BY <1>1, <1>2, <1>3, <1>4, <1>5, <1>6, <1>7, <1>8 DEF Next

-----------------------------------------------------------------------------
(* Theorems *)

LEMMA FleetInvariant == Spec => []FleetInv
BY FleetInitInv, FleetNextInv, PTL DEF Spec

\* EnrollNode's one transaction: no token is ever exchanged twice, however many hosts
\* present it, in whatever order and after whatever removals.
THEOREM EnrollmentOnce == Spec => []TokenEnrollsOnce
<1>1. FleetInv => TokenEnrollsOnce
  <2> SUFFICES ASSUME FleetInv PROVE TokenEnrollsOnce
    OBVIOUS
  <2>1. DOMAIN issued = 1..Len(issued)
    BY LenProperties DEF FleetInv, FleetTypeOK
  <2> QED
    BY <2>1 DEF FleetInv, Exchanges, TokenEnrollsOnce
<1> QED
  BY <1>1, FleetInvariant, PTL

\* VerifyNodeCredential, EnrollNode and DeleteNode together: a credential opens the
\* server exactly until its node is removed, and what a row shows was sent under the
\* present credential or by a request that was past the check at the removal.
THEOREM CredentialUntilRemoval == Spec => []AccessUntilRemoval
<1>1. FleetInv => AccessUntilRemoval
  <2> SUFFICES ASSUME FleetInv PROVE AccessUntilRemoval
    OBVIOUS
  <2>1. /\ FleetTypeOK
        /\ \A h \in Hosts :
             file[h] # None => creds[file[h].node] = file[h].cred \/ file[h].cred \in removed
    BY DEF FleetInv, HostsHold, Holds
  <2>2. None \notin removed
    BY <2>1, FleetConstants DEF FleetTypeOK
  <2>3. \A n \in Nodes :
          /\ creds[n] \notin removed
          /\ creds[n] # None => nodes[n] # None
          /\ nodes[n] # None => nodes[n].by \in {None, creds[n]} \cup stragglers
    BY <2>2 DEF FleetInv, CredsIssued, RowsSigned
  <2> QED
    BY <2>1, <2>3 DEF AccessUntilRemoval
<1> QED
  BY <1>1, FleetInvariant, PTL

\* PruneHeartbeats: whatever the retention and in whatever order handlers finish, an
\* observation of the second that a row is computed from, or a later one, is kept; although
\* the texts the pruner sorts by are not in the order of time within a second.
THEOREM RetentionKeepsNewest == Spec => []NewestHeartbeatKept
BY FleetInvariant, PTL DEF FleetInv
=============================================================================
