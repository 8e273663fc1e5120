---------------------------- MODULE RolloutProofs ----------------------------
(***************************************************************************)
(* Proofs about RolloutControl: the canary goes first, and what a row shows  *)
(* is true, however passes, requests, crashes and stale writes interleave;    *)
(* and so do the lifecycle, the rollbacks on record and aborts.               *)
(*                                                                         *)
(* The argument is about snapshots.  Whoever holds a copy of a rollout, the   *)
(* copy was sound when it was read and stays so, since jobs are only added    *)
(* and what is completed stays completed; a step of a sound copy is a sound   *)
(* copy, with jobs for nodes whose turn it is; and so it does not matter       *)
(* which copy is written back last.  The later sections reason by what a step *)
(* does with copies, whichever process takes it (OfAKind).                    *)
(***************************************************************************)
EXTENDS RolloutControl, FiniteSetTheorems, SequenceTheorems, WellFoundedInduction, TLAPS

-----------------------------------------------------------------------------
(* Smallest and largest numbers; what a loop looks at *)

LEMMA MinOf ==
  ASSUME NEW S \in SUBSET Nat, S # {}
  PROVE  Min(S) \in S /\ \A y \in S : Min(S) <= y
<1> DEFINE R == OpToRel(<, Nat)
<1>1. IsWellFoundedOn(R, Nat)
  BY NatLessThanWellFounded, Zenon
<1>2. \A x, y \in Nat : x < y => <<x, y>> \in R
  BY DEF OpToRel
<1> HIDE DEF R
<1>3. PICK x \in S : \A y \in S : ~(<<y, x>> \in R)
  BY <1>1, WFMin
<1>4. \A y \in S : x <= y
  <2> TAKE y \in S
  <2>1. ~(y < x) /\ x \in Nat /\ y \in Nat
    BY <1>2, <1>3
  <2> QED BY <2>1
<1> QED BY <1>4 DEF Min

LEMMA MaxOf ==
  ASSUME NEW n \in Nat, NEW S \in SUBSET (1..n), S # {}
  PROVE  Max(S) \in S /\ \A y \in S : Max(S) >= y
<1> DEFINE T == {n - x : x \in S}  m == Min(T)
<1>1. \A x \in S : x \in Nat /\ x <= n /\ n - x \in Nat
  OBVIOUS
<1>2. T \in SUBSET Nat /\ T # {}
  BY <1>1
<1>3. m \in T /\ \A y \in T : m <= y
  <2> HIDE DEF T
  <2> QED BY <1>2, MinOf
<1>4. PICK x \in S : m = n - x
  BY <1>3
<1>5. \A y \in S : x >= y
  <2> TAKE y \in S
  <2>1. m <= n - y
    BY <1>3
  <2> HIDE DEF m
  <2> QED BY <1>1, <1>4, <2>1
<1> QED BY <1>5 DEF Max

\* Pick gives the elements at the positions in P, each of them once.
\* What Pick returns is s at the places at[1], at[2], ..., each of P once.
Places(s, P, at) ==
  /\ at \in [1..Cardinality(P) -> P]
  /\ \A i \in 1..Cardinality(P) : Pick(s, P)[i] = s[at[i]]
  /\ \A i, j \in 1..Cardinality(P) : at[i] = at[j] => i = j
  /\ \A p \in P : \E i \in 1..Cardinality(P) : at[i] = p

LEMMA PickProperties ==
  ASSUME NEW X, NEW s \in Seq(X), NEW P \in SUBSET (1..Len(s))
  PROVE  /\ Cardinality(P) \in Nat /\ Pick(s, P) \in Seq(X) /\ Len(Pick(s, P)) = Cardinality(P)
         /\ \E at : Places(s, P, at)
<1> DEFINE m == Cardinality(P)  Upto(p) == {q \in P : q <= p}  rank(p) == Cardinality(Upto(p))
<1>1. Len(s) \in Nat /\ \A i \in 1..Len(s) : s[i] \in X
  BY LenProperties, ElementOfSeq
<1>2. IsFiniteSet(P) /\ m \in Nat /\ \A p \in P : p \in Nat
  <2>1. IsFiniteSet(1..Len(s))
    BY <1>1, FS_Interval
  <2>2. IsFiniteSet(P)
    BY <2>1, FS_Subset
  <2>3. Cardinality(P) \in Nat
    BY <2>2, FS_CardinalityType
  <2> QED BY <2>2, <2>3
<1>3. ASSUME NEW p \in P
      PROVE  IsFiniteSet(Upto(p)) /\ rank(p) \in 1..m
  <2>1. Upto(p) \in SUBSET P /\ p \in Upto(p)
    BY <1>2
  <2>2. IsFiniteSet(Upto(p)) /\ rank(p) <= m
    <3> HIDE DEF Upto
    <3> QED BY <1>2, <2>1, FS_Subset
  <2>3. rank(p) \in Nat /\ rank(p) # 0
    <3> HIDE DEF Upto
    <3> QED BY <2>1, <2>2, FS_CardinalityType, FS_EmptySet
  <2> HIDE DEF Upto, rank, m
  <2> QED BY <1>2, <2>2, <2>3
<1>4. ASSUME NEW p \in P, NEW r \in P, p < r
      PROVE  rank(p) # rank(r)
  <2>1. Upto(p) \in SUBSET Upto(r) /\ r \in Upto(r) /\ r \notin Upto(p)
    <3>1. p \in Nat /\ r \in Nat /\ ~(r <= p) /\ r <= r
      BY <1>2, <1>4
    <3>2. ASSUME NEW q \in P, q <= p PROVE q <= r
      <4>1. q \in Nat
        BY <1>2
      <4> QED BY <1>4, <3>1, <3>2, <4>1
    <3> QED BY <3>1, <3>2
  <2>2. IsFiniteSet(Upto(r))
    BY <1>3
  <2> HIDE DEF Upto
  <2> QED BY <2>1, <2>2, FS_Subset
<1> DEFINE f == [p \in P |-> rank(p)]
<1>5. f \in Injection(P, 1..m)
  <2>1. f \in [P -> 1..m]
    BY <1>3
  <2>2. ASSUME NEW p \in P, NEW r \in P, f[p] = f[r] PROVE p = r
    <3>1. rank(p) = rank(r)
      BY <2>2
    <3>2. ~(p < r) /\ ~(r < p)
      BY <3>1, <1>4
    <3> HIDE DEF f, rank
    <3> QED BY <1>2, <3>2
  <2> HIDE DEF f
  <2> QED BY <2>1, <2>2 DEF Injection, IsInjective
<1>6. \A i \in 1..m : \E p \in P : rank(p) = i
  <2>1. IsFiniteSet(1..m) /\ Cardinality(1..m) = m
    <3> HIDE DEF m
    <3>1. 1 \in Int /\ m \in Int /\ (1 > m => m = 0) /\ m - 1 + 1 = m
      BY <1>2
    <3> QED BY <3>1, FS_Interval
  <2>2. f \in Surjection(P, 1..m)
    <3> HIDE DEF f
    <3>1. Cardinality(P) = Cardinality(1..m)
      BY <2>1 DEF m
    <3> HIDE DEF m
    <3> QED BY <1>5, <2>1, <3>1, FS_Injection
  <2>3. \A i \in 1..m : \E p \in P : f[p] = i
    <3> HIDE DEF f, m
    <3> QED BY <2>2 DEF Surjection
  <2> QED BY <2>3
<1> DEFINE at == [i \in 1..m |-> CHOOSE p \in P : rank(p) = i]
<1>7. \A i \in 1..m : at[i] \in P /\ rank(at[i]) = i
  <2> HIDE DEF rank, m
  <2> QED BY <1>6
<1>8. \A i \in 1..m : Pick(s, P)[i] = s[at[i]]
  BY DEF Pick
<1>9. Pick(s, P) = [i \in 1..m |-> s[at[i]]]
  BY DEF Pick
<1> HIDE DEF rank
<1>10. at \in [1..m -> P]
  BY <1>7
<1>11. \A i, j \in 1..m : at[i] = at[j] => i = j
  <2> HIDE DEF at
  <2> QED BY <1>7
<1>12. \A p \in P : \E i \in 1..m : at[i] = p
  <2> TAKE p \in P
  <2>1. rank(p) \in 1..m
    BY <1>3
  <2>2. at[rank(p)] \in P /\ rank(at[rank(p)]) = rank(p)
    <3> HIDE DEF at
    <3> QED BY <1>7, <2>1
  <2>3. at[rank(p)] = p
    <3> DEFINE q == at[rank(p)]
    <3>1. q \in P /\ rank(q) = rank(p)
      BY <2>2
    <3> HIDE DEF q
    <3>2. ~(p < q) /\ ~(q < p)
      BY <1>4, <3>1
    <3>3. p = q
      BY <1>2, <3>1, <3>2
    <3> QED BY <3>3 DEF q
  <2> QED BY <2>1, <2>3
<1> HIDE DEF at, m
<1>13. Pick(s, P) \in Seq(X) /\ Len(Pick(s, P)) = m
  <2>1. [i \in 1..m |-> s[at[i]]] \in [1..m -> X]
    BY <1>1, <1>10
  <2> QED BY <1>2, <1>9, <2>1
<1>14. Places(s, P, at)
  BY <1>8, <1>10, <1>11, <1>12 DEF m, Places
<1> QED BY <1>2, <1>13, <1>14 DEF m

LEMMA AmongProperties ==
  ASSUME NEW X, NEW s \in Seq(X), NEW S
  PROVE  /\ Among(s, S) \in Seq(X)
         /\ \A x : (\E i \in 1..Len(Among(s, S)) : Among(s, S)[i] = x)
                     <=> (x \in S /\ \E i \in 1..Len(s) : s[i] = x)
<1> DEFINE P == {i \in DOMAIN s : s[i] \in S}
<1>1. DOMAIN s = 1..Len(s)
  BY LenProperties
<1>2. P \in SUBSET (1..Len(s)) /\ Among(s, S) = Pick(s, P)
  BY <1>1 DEF Among
<1>3. \A x : x \in S /\ (\E i \in 1..Len(s) : s[i] = x) <=> \E p \in P : s[p] = x
  BY <1>1
<1> HIDE DEF P
<1>3a. PICK at : Places(s, P, at)
  BY <1>2, PickProperties
<1>4. /\ at \in [1..Cardinality(P) -> P]
      /\ \A i \in 1..Cardinality(P) : Pick(s, P)[i] = s[at[i]]
      /\ \A p \in P : \E i \in 1..Cardinality(P) : at[i] = p
  BY <1>3a DEF Places
<1>5. Pick(s, P) \in Seq(X) /\ Len(Pick(s, P)) = Cardinality(P)
  BY <1>2, PickProperties
<1>6. \A x : (\E i \in 1..Cardinality(P) : s[at[i]] = x) <=> \E p \in P : s[p] = x
  BY <1>4
<1>7. \A x : (\E i \in 1..Cardinality(P) : Pick(s, P)[i] = x)
                <=> (x \in S /\ \E i \in 1..Len(s) : s[i] = x)
  <2>1. \A i \in 1..Cardinality(P) : Pick(s, P)[i] = s[at[i]]
    BY <1>4
  <2> TAKE x
  <2>2. (\E i \in 1..Cardinality(P) : Pick(s, P)[i] = x) <=> \E i \in 1..Cardinality(P) : s[at[i]] = x
    BY <2>1
  <2>3. (\E i \in 1..Cardinality(P) : s[at[i]] = x) <=> \E p \in P : s[p] = x
    BY <1>6
  <2> QED BY <1>3, <2>2, <2>3
<1> QED BY <1>2, <1>5, <1>7

-----------------------------------------------------------------------------
(* Snapshots *)

Batch == [nodes : Seq(Nodes), state : BatchStates]
Progress == [state : NodeStates, job : Nat, rollback : Nat]
Snapshot ==
  [state : RolloutStates, live : BOOLEAN, autoRollback : BOOLEAN, allowOverlap : BOOLEAN,
   target : Values, batches : Seq(Batch), prog : [Nodes -> Progress], failing : SUBSET Nodes]

Members(ro, k) == ToSet(ro.batches[k].nodes)

\* What no step and no request changes of a rollout.
SamePlan(a, b) ==
  /\ a.live = b.live /\ a.target = b.target
  /\ Len(a.batches) = Len(b.batches)
  /\ \A k \in 1..Len(b.batches) : a.batches[k].nodes = b.batches[k].nodes

\* The jobs by their numbers: those in the table, and those of the present step, which
\* makes apply jobs for the nodes in sent and then rollback jobs for those in undo.
ApplyNumber(r, n, j, sent) ==
  j \in ApplyJobs(r, n) \/ \E i \in 1..Len(sent) : j = Len(jobs) + i /\ sent[i] = n

RollbackNumber(r, n, j, sent, undo) ==
  \/ j \in JobsOf(r) /\ jobs[j].kind = "rollback" /\ jobs[j].node = n
  \/ \E i \in 1..Len(undo) : j = Len(jobs) + Len(sent) + i /\ undo[i] = n

Completed(j) == j \in DOMAIN jobs /\ jobs[j].status = "completed"

\* What a node's progress shows is true.
TrueProgress(r, n, p, sent, undo) ==
  /\ p.job # 0 => ApplyNumber(r, n, p.job, sent)
  /\ p.rollback # 0 => RollbackNumber(r, n, p.rollback, sent, undo)
  /\ p.state = "succeeded" => Completed(p.job)

Batches(ro) ==
  /\ \A k \in 1..Len(ro.batches) :
       ro.batches[k].state = "completed" => \A n \in Members(ro, k) : ro.prog[n].state = "succeeded"
  /\ ro.state = "completed" => \A k \in 1..Len(ro.batches) : ro.batches[k].state = "completed"

SoundWith(r, ro, sent, undo) ==
  /\ ro \in Snapshot
  /\ \A n \in Nodes : TrueProgress(r, n, ro.prog[n], sent, undo)
  /\ Batches(ro)

Sound(r, ro) == SoundWith(r, ro, <<>>, <<>>)

\* Nodes that are given a job in their turn: the batches before theirs are through.
InTurn(r, ro, sent) ==
  \A i \in 1..Len(sent) : \E k \in 1..Len(ro.batches) :
    /\ sent[i] \in Members(ro, k)
    /\ \A e \in 1..k - 1 : \A n \in Members(ro, e) : Applied(r, n)

\* What the proofs use of the collaborators' answers.
Told(w) ==
  /\ w.next = Len(jobs)
  /\ \A j \in w.completed : Completed(j)

JobsTyped == jobs \in Seq(Job)

LEMMA JobsLen ==
  ASSUME JobsTyped
  PROVE  Len(jobs) \in Nat /\ DOMAIN jobs = 1..Len(jobs) /\ \A j \in 1..Len(jobs) : jobs[j] \in Job
BY LenProperties, ElementOfSeq DEF JobsTyped

LEMMA SucceededApplied ==
  ASSUME JobsTyped, NEW r, NEW n \in Nodes, NEW p \in Progress, NEW sent, NEW undo,
         TrueProgress(r, n, p, sent, undo), p.state = "succeeded"
  PROVE  Applied(r, n)
<1>1. p.job \in 1..Len(jobs) /\ jobs[p.job].status = "completed" /\ Len(jobs) \in Nat
  BY JobsLen DEF TrueProgress, Completed
<1>2. p.job \in ApplyJobs(r, n)
  <2>1. ApplyNumber(r, n, p.job, sent)
    BY <1>1 DEF TrueProgress
  <2>2. \A i \in 1..Len(sent) : p.job # Len(jobs) + i
    BY <1>1
  <2> QED BY <2>1, <2>2 DEF ApplyNumber
<1> QED BY <1>1, <1>2 DEF Applied

LEMMA BatchesTyped ==
  ASSUME NEW ro \in Snapshot
  PROVE  /\ ro.batches \in Seq(Batch) /\ Len(ro.batches) \in Nat
         /\ DOMAIN ro.batches = 1..Len(ro.batches)
         /\ \A k \in 1..Len(ro.batches) :
              /\ ro.batches[k] \in Batch /\ ro.batches[k].nodes \in Seq(Nodes)
              /\ Len(ro.batches[k].nodes) \in Nat
              /\ Members(ro, k) \subseteq Nodes
              /\ \A n : n \in Members(ro, k)
                          <=> \E i \in 1..Len(ro.batches[k].nodes) : ro.batches[k].nodes[i] = n
<1>1. ro.batches \in Seq(Batch) /\ Len(ro.batches) \in Nat /\ DOMAIN ro.batches = 1..Len(ro.batches)
      /\ \A k \in 1..Len(ro.batches) : ro.batches[k] \in Batch
  <2>1. ro.batches \in Seq(Batch)
    BY DEF Snapshot
  <2> QED BY <2>1, LenProperties, ElementOfSeq
<1>2. ASSUME NEW k \in 1..Len(ro.batches)
      PROVE  /\ ro.batches[k].nodes \in Seq(Nodes) /\ Len(ro.batches[k].nodes) \in Nat
             /\ Members(ro, k) \subseteq Nodes
             /\ \A n : n \in Members(ro, k)
                         <=> \E i \in 1..Len(ro.batches[k].nodes) : ro.batches[k].nodes[i] = n
  <2>1. ro.batches[k].nodes \in Seq(Nodes)
    BY <1>1 DEF Batch
  <2> DEFINE s == ro.batches[k].nodes
  <2>2. s \in Seq(Nodes) /\ Members(ro, k) = {s[i] : i \in DOMAIN s}
    BY <2>1 DEF Members, ToSet
  <2> HIDE DEF s
  <2>3. Len(s) \in Nat /\ DOMAIN s = 1..Len(s) /\ \A i \in 1..Len(s) : s[i] \in Nodes
    BY <2>2, LenProperties, ElementOfSeq
  <2>4. \A n : n \in Members(ro, k) <=> \E i \in 1..Len(s) : s[i] = n
    BY <2>2, <2>3
  <2>5. Members(ro, k) \subseteq Nodes
    BY <2>3, <2>4
  <2> QED BY <2>1, <2>3, <2>4, <2>5 DEF s
<1> QED BY <1>1, <1>2

\* The state of one batch is changed, and nothing else.
LEMMA BatchSet ==
  ASSUME NEW ro \in Snapshot, NEW k \in 1..Len(ro.batches), NEW st \in BatchStates
  PROVE  LET to == [ro EXCEPT !.batches[k].state = st]
         IN  /\ to \in Snapshot /\ SamePlan(to, ro)
             /\ to.prog = ro.prog /\ to.state = ro.state
             /\ to.autoRollback = ro.autoRollback
             /\ to.batches[k].state = st
             /\ \A i \in 1..Len(ro.batches) : i # k => to.batches[i].state = ro.batches[i].state
<1> DEFINE bs == ro.batches  b == [bs[k] EXCEPT !.state = st]  cs == [bs EXCEPT ![k] = b]
           to == [ro EXCEPT !.batches[k].state = st]
<1>1. bs \in Seq(Batch) /\ Len(bs) \in Nat /\ bs[k] \in Batch /\ k \in 1..Len(bs)
  BY BatchesTyped
<1>2. to = [ro EXCEPT !.batches = cs]
  OBVIOUS
<1> HIDE DEF bs
<1>3. b \in Batch /\ b.nodes = bs[k].nodes /\ b.state = st
  BY <1>1 DEF Batch
<1> HIDE DEF b
<1>4. /\ cs \in Seq(Batch) /\ Len(cs) = Len(bs) /\ cs[k] = b
      /\ \A i \in 1..Len(bs) : i # k => cs[i] = bs[i]
  <2>1. cs \in Seq(Batch) /\ Len(cs) = Len(bs)
    BY <1>1, <1>3, ExceptSeq
  <2> QED BY <1>1, <1>3, <2>1
<1> HIDE DEF cs
<1>5. /\ to \in Snapshot /\ to.batches = cs /\ to.prog = ro.prog /\ to.state = ro.state
      /\ to.autoRollback = ro.autoRollback /\ to.live = ro.live /\ to.target = ro.target
  BY <1>2, <1>4 DEF Snapshot
<1> HIDE DEF to
<1>6. SamePlan(to, ro)
  <2>1. \A i \in 1..Len(bs) : cs[i].nodes = bs[i].nodes
    BY <1>3, <1>4
  <2> QED BY <1>4, <1>5, <2>1 DEF SamePlan, bs
<1>7. /\ to.batches[k].state = st
      /\ \A i \in 1..Len(ro.batches) : i # k => to.batches[i].state = ro.batches[i].state
  BY <1>3, <1>4, <1>5 DEF bs
<1> QED BY <1>5, <1>6, <1>7 DEF to

LEMMA OpenBatches ==
  ASSUME NEW ro \in Snapshot, NEW states
  PROVE  /\ BatchIndices(ro, states) \in SUBSET (1..Len(ro.batches))
         /\ BatchIndices(ro, states) # {} =>
              /\ Min(BatchIndices(ro, states)) \in BatchIndices(ro, states)
              /\ Min(BatchIndices(ro, states)) \in 1..Len(ro.batches)
              /\ \A k \in BatchIndices(ro, states) : Min(BatchIndices(ro, states)) <= k
<1> DEFINE S == BatchIndices(ro, states)
<1>1. S \in SUBSET (1..Len(ro.batches)) /\ S \in SUBSET Nat
  BY BatchesTyped DEF BatchIndices
<1> HIDE DEF S
<1>2. S # {} => (Min(S) \in S /\ \A k \in S : Min(S) <= k)
  BY <1>1, MinOf
<1> QED BY <1>1, <1>2 DEF S

\* A batch is marked anew; as completed when all its nodes have succeeded only.
LEMMA MarkOne ==
  ASSUME NEW r, NEW ro, NEW sent, NEW undo, SoundWith(r, ro, sent, undo), ro.state # "completed",
         NEW k \in 1..Len(ro.batches), NEW to \in BatchStates,
         to = "completed" => \A n \in Members(ro, k) : ro.prog[n].state = "succeeded",
         NEW next, next = [ro EXCEPT !.batches[k].state = to]
  PROVE  /\ SoundWith(r, next, sent, undo) /\ SamePlan(next, ro)
         /\ next.state = ro.state /\ next.prog = ro.prog /\ next.batches[k].state = to
         /\ \A i \in 1..Len(ro.batches) : i # k => next.batches[i].state = ro.batches[i].state
<1>1. ro \in Snapshot /\ Batches(ro) /\ \A n \in Nodes : TrueProgress(r, n, ro.prog[n], sent, undo)
  BY DEF SoundWith
<1>2. /\ next \in Snapshot /\ SamePlan(next, ro) /\ next.prog = ro.prog /\ next.state = ro.state
      /\ next.batches[k].state = to
      /\ \A i \in 1..Len(ro.batches) : i # k => next.batches[i].state = ro.batches[i].state
  BY <1>1, BatchSet
<1>3. ASSUME NEW i \in 1..Len(next.batches), next.batches[i].state = "completed",
             NEW n \in Members(next, i)
      PROVE  next.prog[n].state = "succeeded"
  <2>1. i \in 1..Len(ro.batches) /\ n \in Members(ro, i)
    BY <1>2, <1>3 DEF SamePlan, Members
  <2>2. CASE i = k
    BY <1>2, <1>3, <2>1, <2>2
  <2>3. CASE i # k
    BY <1>1, <1>2, <1>3, <2>1, <2>3 DEF Batches
  <2> QED BY <2>2, <2>3
<1>4. Batches(next)
  BY <1>2, <1>3 DEF Batches
<1> QED BY <1>1, <1>2, <1>4 DEF SoundWith

LEMMA MarkSound ==
  ASSUME NEW r, NEW ro, NEW sent, NEW undo, SoundWith(r, ro, sent, undo),
         ro.state # "completed", NEW from, NEW to \in BatchStates \ {"completed"},
         NEW next, next = FirstBatchTo(ro, from, to)
  PROVE  /\ SoundWith(r, next, sent, undo) /\ SamePlan(next, ro)
         /\ next.state = ro.state /\ next.prog = ro.prog
<1> DEFINE ks == BatchIndices(ro, from)
<1>1. CASE ks = {}
  <2>1. next = ro
    BY <1>1 DEF FirstBatchTo
  <2> QED BY <2>1 DEF SamePlan
<1>2. CASE ks # {}
  <2> DEFINE k == Min(ks)
  <2>1. k \in 1..Len(ro.batches)
    BY <1>2, OpenBatches DEF SoundWith
  <2>2. next = [ro EXCEPT !.batches[k].state = to]
    BY <1>2 DEF FirstBatchTo
  <2> HIDE DEF k
  <2> QED BY <2>1, <2>2, MarkOne
<1> QED BY <1>1, <1>2

\* The rollbacks of a failed batch, and the pause.
LEMMA PauseSound ==
  ASSUME JobsTyped, NEW r, NEW ro, NEW sent \in Seq(Nodes), SoundWith(r, ro, sent, <<>>),
         NEW k \in 1..Len(ro.batches), NEW n \in Nodes, NEW w, Told(w)
  PROVE  LET out == pauseBatchFailure(ro, k, n, sent, w)
         IN  /\ SoundWith(r, out.ro, sent, out.rollback) /\ SamePlan(out.ro, ro)
             /\ out.apply = sent /\ out.rollback \in Seq(Nodes) /\ out.ro.state = "paused"
             /\ \A i \in 1..Len(out.rollback) : out.rollback[i] \in w.restorable
<1> DEFINE back == ToRollBack(ro, k)
           undo == Among(back, w.restorable)
           prog == [m \in Nodes |->
                      IF m \in ToSet(undo)
                      THEN [ro.prog[m] EXCEPT !.rollback = w.next + Len(sent) + PositionIn(undo, m)]
                      ELSE ro.prog[m]]
           mid == [[ro EXCEPT !.prog = prog] EXCEPT !.state = "paused", !.failing = {n}]
           last == FirstBatchTo(mid, {"running"}, "paused")
           out == pauseBatchFailure(ro, k, n, sent, w)
<1>1. ro \in Snapshot /\ Batches(ro) /\ \A m \in Nodes : TrueProgress(r, m, ro.prog[m], sent, <<>>)
  BY DEF SoundWith
<1>2. back \in Seq(Nodes)
  <2>1. ro.batches[k].nodes \in Seq(Nodes)
    BY <1>1, BatchesTyped
  <2>2. <<>> \in Seq(Nodes)
    BY EmptySeq
  <2> QED BY <2>1, <2>2, AmongProperties DEF ToRollBack
<1>3. undo \in Seq(Nodes) /\ \A i \in 1..Len(undo) : undo[i] \in w.restorable
  <2> HIDE DEF back
  <2> QED BY <1>2, AmongProperties
<1>4. out = [ro |-> last, apply |-> sent, rollback |-> undo]
  BY DEF pauseBatchFailure, pauseRollout
<1> HIDE DEF undo, out, back
<1>5. Len(undo) \in Nat /\ DOMAIN undo = 1..Len(undo) /\ Len(jobs) \in Nat /\ Len(sent) \in Nat
      /\ Len(<<>>) = 0 /\ w.next = Len(jobs)
  BY <1>3, LenProperties, JobsLen, EmptySeq DEF Told
<1>6. ASSUME NEW m \in ToSet(undo)
      PROVE  PositionIn(undo, m) \in 1..Len(undo) /\ undo[PositionIn(undo, m)] = m
  BY <1>5 DEF ToSet, PositionIn
<1>7. ASSUME NEW m \in Nodes
      PROVE  /\ prog[m] \in Progress /\ TrueProgress(r, m, prog[m], sent, undo)
             /\ prog[m].state = ro.prog[m].state
  <2>1. ro.prog[m] \in Progress /\ TrueProgress(r, m, ro.prog[m], sent, <<>>)
    BY <1>1 DEF Snapshot
  <2>2. CASE m \in ToSet(undo)
    <3> DEFINE number == w.next + Len(sent) + PositionIn(undo, m)
    <3>1. prog[m] = [ro.prog[m] EXCEPT !.rollback = number]
      BY <2>2
    <3>2. PositionIn(undo, m) \in 1..Len(undo) /\ undo[PositionIn(undo, m)] = m
      BY <1>6, <2>2
    <3>3. number \in Nat /\ number = Len(jobs) + Len(sent) + PositionIn(undo, m)
      BY <1>5, <3>2
    <3> HIDE DEF number, prog
    <3>4. RollbackNumber(r, m, number, sent, undo)
      BY <3>2, <3>3 DEF RollbackNumber
    <3>5. /\ prog[m] \in Progress /\ prog[m].rollback = number
          /\ prog[m].state = ro.prog[m].state /\ prog[m].job = ro.prog[m].job
      BY <2>1, <3>1, <3>3 DEF Progress
    <3> QED BY <2>1, <3>4, <3>5 DEF TrueProgress
  <2>3. CASE m \notin ToSet(undo)
    <3>1. prog[m] = ro.prog[m]
      BY <2>3
    <3> HIDE DEF prog
    <3>2. 1..Len(<<>>) = {}
      BY <1>5
    <3>3. \A j : RollbackNumber(r, m, j, sent, <<>>) => RollbackNumber(r, m, j, sent, undo)
      BY <3>2 DEF RollbackNumber
    <3> QED BY <2>1, <3>1, <3>3 DEF TrueProgress
  <2> QED BY <2>2, <2>3
<1>8. /\ mid \in Snapshot /\ mid.prog = prog /\ mid.state = "paused" /\ mid.batches = ro.batches
      /\ mid.live = ro.live /\ mid.target = ro.target
  <2>1. prog \in [Nodes -> Progress]
    BY <1>7
  <2> HIDE DEF prog
  <2> QED BY <1>1, <2>1 DEF Snapshot, RolloutStates
<1> HIDE DEF prog, mid
<1>9. Batches(mid)
  <2>1. ASSUME NEW i \in 1..Len(ro.batches), ro.batches[i].state = "completed", NEW m \in Members(ro, i)
        PROVE  mid.prog[m].state = "succeeded"
    <3>1. m \in Nodes /\ ro.prog[m].state = "succeeded"
      BY <1>1, <2>1, BatchesTyped DEF Batches
    <3> QED BY <1>7, <1>8, <3>1
  <2> QED BY <1>8, <2>1 DEF Batches, Members
<1>10. SoundWith(r, mid, sent, undo)
  BY <1>7, <1>8, <1>9 DEF SoundWith
<1>11. SoundWith(r, last, sent, undo) /\ SamePlan(last, mid) /\ last.state = "paused"
  <2>1. mid.state # "completed" /\ "paused" \in BatchStates \ {"completed"}
    BY <1>8 DEF BatchStates
  <2> QED BY <1>8, <1>10, <2>1, MarkSound
<1> HIDE DEF last
<1>12. SamePlan(last, ro)
  BY <1>8, <1>11 DEF SamePlan
<1> QED BY <1>3, <1>4, <1>11, <1>12 DEF out

LEMMA PlanTransitive ==
  ASSUME NEW a, NEW b, NEW c, SamePlan(a, b), SamePlan(b, c)
  PROVE  SamePlan(a, c)
BY DEF SamePlan

LEMMA InTurnByPlan ==
  ASSUME NEW r, NEW a, NEW b, NEW sent, a \in Snapshot, b \in Snapshot, SamePlan(a, b), InTurn(r, b, sent)
  PROVE  InTurn(r, a, sent)
<1>1. Len(a.batches) = Len(b.batches) /\ Len(b.batches) \in Nat
      /\ \A k \in 1..Len(b.batches) : Members(a, k) = Members(b, k)
  BY BatchesTyped DEF SamePlan, Members
<1> SUFFICES ASSUME NEW i \in 1..Len(sent)
             PROVE  \E k \in 1..Len(a.batches) :
                      /\ sent[i] \in Members(a, k)
                      /\ \A e \in 1..k - 1 : \A n \in Members(a, e) : Applied(r, n)
  BY DEF InTurn
<1>2. PICK k \in 1..Len(b.batches) :
        /\ sent[i] \in Members(b, k)
        /\ \A e \in 1..k - 1 : \A n \in Members(b, e) : Applied(r, n)
  BY DEF InTurn
<1>3. \A e \in 1..k - 1 : Members(a, e) = Members(b, e)
  BY <1>1, <1>2
<1> QED BY <1>1, <1>2, <1>3

\* New progress of some nodes, none of which had succeeded.
LEMMA ProgressSound ==
  ASSUME NEW r, NEW ro, NEW sent, NEW all, SoundWith(r, ro, sent, <<>>),
         NEW prog \in [Nodes -> Progress],
         \A n \in Nodes : TrueProgress(r, n, prog[n], all, <<>>),
         \A n \in Nodes : ro.prog[n].state = "succeeded" => prog[n].state = "succeeded",
         NEW next, next = [ro EXCEPT !.prog = prog]
  PROVE  /\ SoundWith(r, next, all, <<>>) /\ SamePlan(next, ro)
         /\ next.batches = ro.batches /\ next.state = ro.state /\ next.prog = prog
<1>1. ro \in Snapshot /\ Batches(ro)
  BY DEF SoundWith
<1>2. /\ next \in Snapshot /\ next.batches = ro.batches /\ next.state = ro.state /\ next.prog = prog
      /\ next.live = ro.live /\ next.target = ro.target
  BY <1>1 DEF Snapshot
<1>3. SamePlan(next, ro)
  BY <1>2 DEF SamePlan
<1>4. Batches(next)
  <2>1. ASSUME NEW i \in 1..Len(ro.batches), ro.batches[i].state = "completed", NEW n \in Members(ro, i)
        PROVE  prog[n].state = "succeeded"
    BY <1>1, <2>1, BatchesTyped DEF Batches
  <2> QED BY <1>1, <1>2, <2>1 DEF Batches, Members
<1> QED BY <1>2, <1>3, <1>4 DEF SoundWith

\* What a loop over the nodes in S of a batch has looked at, up to the first at which it
\* stops.
LEMMA LoopNodes ==
  ASSUME NEW ro \in Snapshot, NEW k \in 1..Len(ro.batches), NEW S, NEW s, NEW bad,
         s = Among(ro.batches[k].nodes, S), bad \subseteq DOMAIN s
  PROVE  /\ s \in Seq(Nodes) /\ DOMAIN s = 1..Len(s) /\ Len(s) \in Nat
         /\ \A i \in 1..Len(s) : s[i] \in S /\ s[i] \in Members(ro, k) /\ s[i] \in Nodes
         /\ bad # {} =>
              /\ Min(bad) \in bad
              /\ \A d \in {0, 1} :
                   LET part == SubSeq(s, 1, Min(bad) - d)
                   IN  /\ part \in Seq(Nodes) /\ Len(part) = Min(bad) - d /\ Len(part) \in Nat
                       /\ \A i \in 1..Len(part) : part[i] = s[i] /\ i \in 1..Len(s)
<1>1. ro.batches[k].nodes \in Seq(Nodes)
  BY BatchesTyped
<1>2. s \in Seq(Nodes)
      /\ \A x : (\E i \in 1..Len(s) : s[i] = x)
                  <=> (x \in S /\ \E i \in 1..Len(ro.batches[k].nodes) : ro.batches[k].nodes[i] = x)
  <2> DEFINE t == ro.batches[k].nodes
  <2>1. t \in Seq(Nodes) /\ s = Among(t, S)
    BY <1>1
  <2> HIDE DEF t
  <2>2. /\ Among(t, S) \in Seq(Nodes)
        /\ \A x : (\E i \in 1..Len(Among(t, S)) : Among(t, S)[i] = x)
                   <=> (x \in S /\ \E i \in 1..Len(t) : t[i] = x)
    BY <2>1, AmongProperties
  <2> QED BY <2>1, <2>2 DEF t
<1>3. Len(s) \in Nat /\ DOMAIN s = 1..Len(s) /\ \A i \in 1..Len(s) : s[i] \in Nodes
  BY <1>2, LenProperties, ElementOfSeq
<1>4. \A i \in 1..Len(s) : s[i] \in S /\ s[i] \in Members(ro, k)
  BY <1>2, BatchesTyped
<1>5. ASSUME bad # {}
      PROVE  Min(bad) \in bad /\ Min(bad) \in 1..Len(s)
  <2>1. bad \in SUBSET Nat
    BY <1>3
  <2> QED BY <1>3, <1>5, <2>1, MinOf
<1>6. ASSUME bad # {}, NEW d \in {0, 1}
      PROVE  LET part == SubSeq(s, 1, Min(bad) - d)
             IN  /\ part \in Seq(Nodes) /\ Len(part) = Min(bad) - d /\ Len(part) \in Nat
                 /\ \A i \in 1..Len(part) : part[i] = s[i] /\ i \in 1..Len(s)
  <2> DEFINE m == Min(bad) - d  part == SubSeq(s, 1, m)
  <2>1. m \in Nat /\ m <= Len(s)
    BY <1>3, <1>5, <1>6
  <2> HIDE DEF m
  <2>2. \A i \in 1..m : i \in 1..Len(s) /\ s[i] \in Nodes
    BY <1>3, <2>1
  <2>3. /\ part \in Seq(Nodes)
        /\ Len(part) = IF 1 <= m THEN m - 1 + 1 ELSE 0
        /\ \A i \in 1..m - 1 + 1 : part[i] = s[1 + i - 1]
    BY <2>1, <2>2, SubSeqProperties
  <2> HIDE DEF part
  <2>4. Len(part) = m
    BY <2>1, <2>3
  <2>5. ASSUME NEW i \in 1..m PROVE part[i] = s[i]
    <3>1. 1 + i - 1 = i /\ m - 1 + 1 = m
      BY <2>1
    <3> QED BY <2>3, <3>1
  <2> QED BY <2>1, <2>2, <2>3, <2>4, <2>5 DEF m, part
<1> QED BY <1>2, <1>3, <1>4, <1>5, <1>6

\* What a part of a step makes of a snapshot.
StepOf(r, ro, w, out) ==
  /\ out.apply \in Seq(Nodes) /\ out.rollback \in Seq(Nodes)
  /\ \A i \in 1..Len(out.rollback) : out.rollback[i] \in w.restorable
  /\ SoundWith(r, out.ro, out.apply, out.rollback)
  /\ SamePlan(out.ro, ro)
  /\ InTurn(r, out.ro, out.apply)

\* How a step leaves a rollout that was under way.
Stepped == {"running", "paused", "completed"}

\* Jobs are made for nodes whose batch comes after completed ones only.
LEMMA DispatchSound ==
  ASSUME JobsTyped, NEW r, NEW ro, NEW sent \in Seq(Nodes), SoundWith(r, ro, sent, <<>>),
         InTurn(r, ro, sent), ro.state = "running",
         NEW k \in 1..Len(ro.batches), \A e \in 1..k - 1 : ro.batches[e].state = "completed",
         NEW w, Told(w), NEW out, out = dispatchPending(ro, k, sent, w)
  PROVE  /\ StepOf(r, ro, w, out) /\ out.ro.state \in {"running", "paused"}
         /\ out.ro.state = "running" => (out.rollback = <<>> /\ out.ro.batches = ro.batches)
<1> DEFINE todo == Among(ro.batches[k].nodes, NodesIn(ro, "pending"))
           bad == {i \in DOMAIN todo : todo[i] \notin w.dispatchable}
           made == IF bad = {} THEN todo ELSE SubSeq(todo, 1, Min(bad) - 1)
           all == sent \o made
           prog == [n \in Nodes |->
                      IF n \in ToSet(made)
                      THEN [ro.prog[n] EXCEPT !.state = "dispatched",
                                              !.job = w.next + Len(sent) + PositionIn(made, n)]
                      ELSE ro.prog[n]]
           next == [ro EXCEPT !.prog = prog]
<1>1. ro \in Snapshot /\ Batches(ro) /\ \A n \in Nodes : TrueProgress(r, n, ro.prog[n], sent, <<>>)
  BY DEF SoundWith
<1>2. out = IF bad = {} THEN [ro |-> next, apply |-> all, rollback |-> <<>>]
            ELSE pauseBatchFailure(next, k, todo[Min(bad)], all, w)
  BY DEF dispatchPending, Outcome
<1>3. /\ bad # {} => todo[Min(bad)] \in Nodes
      /\ made \in Seq(Nodes) /\ Len(made) \in Nat
      /\ \A i \in 1..Len(made) : made[i] \in NodesIn(ro, "pending") /\ made[i] \in Members(ro, k)
  <2>1. bad \subseteq DOMAIN todo
    OBVIOUS
  <2>2. /\ todo \in Seq(Nodes) /\ DOMAIN todo = 1..Len(todo) /\ Len(todo) \in Nat
        /\ \A i \in 1..Len(todo) :
             todo[i] \in NodesIn(ro, "pending") /\ todo[i] \in Members(ro, k) /\ todo[i] \in Nodes
        /\ bad # {} =>
              /\ Min(bad) \in bad
              /\ \A d \in {0, 1} :
                   LET part == SubSeq(todo, 1, Min(bad) - d)
                   IN  /\ part \in Seq(Nodes) /\ Len(part) = Min(bad) - d /\ Len(part) \in Nat
                       /\ \A i \in 1..Len(part) : part[i] = todo[i] /\ i \in 1..Len(todo)
    <3> HIDE DEF bad
    <3> QED BY <1>1, <2>1, LoopNodes
  <2> HIDE DEF bad, todo
  <2>3. CASE bad = {}
    BY <2>2, <2>3
  <2>4. CASE bad # {}
    <3>1. made = SubSeq(todo, 1, Min(bad) - 1)
      BY <2>4
    <3>2. Min(bad) \in 1..Len(todo)
      BY <2>1, <2>2, <2>4
    <3> QED BY <2>2, <2>4, <3>1, <3>2
  <2> QED BY <2>3, <2>4
<1> HIDE DEF made, bad, todo
<1>4. Len(jobs) \in Nat /\ Len(sent) \in Nat /\ Len(<<>>) = 0 /\ w.next = Len(jobs)
      /\ DOMAIN made = 1..Len(made)
  BY <1>3, LenProperties, JobsLen, EmptySeq DEF Told
<1>5. /\ all \in Seq(Nodes) /\ Len(all) = Len(sent) + Len(made)
      /\ \A i \in 1..Len(sent) : all[i] = sent[i]
      /\ \A i \in 1..Len(made) : all[Len(sent) + i] = made[i]
  <2>1. /\ all \in Seq(Nodes) /\ Len(all) = Len(sent) + Len(made)
        /\ \A i \in 1..Len(sent) + Len(made) :
             all[i] = IF i <= Len(sent) THEN sent[i] ELSE made[i - Len(sent)]
    BY <1>3, ConcatProperties
  <2> HIDE DEF all
  <2>2. ASSUME NEW i \in 1..Len(sent) PROVE all[i] = sent[i]
    BY <1>3, <1>4, <2>1
  <2>3. ASSUME NEW i \in 1..Len(made) PROVE all[Len(sent) + i] = made[i]
    <3>1. Len(sent) + i \in 1..Len(sent) + Len(made) /\ ~(Len(sent) + i <= Len(sent))
          /\ (Len(sent) + i) - Len(sent) = i
      BY <1>3, <1>4
    <3> QED BY <2>1, <3>1
  <2> QED BY <2>1, <2>2, <2>3
<1> HIDE DEF all
<1>6. ASSUME NEW n \in Nodes
      PROVE  /\ prog[n] \in Progress /\ TrueProgress(r, n, prog[n], all, <<>>)
             /\ ro.prog[n].state = "succeeded" => prog[n].state = "succeeded"
  <2>1. ro.prog[n] \in Progress /\ TrueProgress(r, n, ro.prog[n], sent, <<>>)
    BY <1>1 DEF Snapshot
  <2>2. 1..Len(<<>>) = {}
    BY <1>4
  <2>3. \A j : RollbackNumber(r, n, j, sent, <<>>) => RollbackNumber(r, n, j, all, <<>>)
    BY <2>2 DEF RollbackNumber
  <2>4. CASE n \in ToSet(made)
    <3> DEFINE p == PositionIn(made, n)  number == w.next + Len(sent) + p
    <3>1. p \in 1..Len(made) /\ made[p] = n
      BY <1>4, <2>4 DEF ToSet, PositionIn
    <3>2. prog[n] = [ro.prog[n] EXCEPT !.state = "dispatched", !.job = number]
      BY <2>4
    <3> HIDE DEF p
    <3>3. number \in Nat /\ number = Len(jobs) + (Len(sent) + p) /\ Len(sent) + p \in 1..Len(all)
      BY <1>3, <1>4, <1>5, <3>1
    <3>4. all[Len(sent) + p] = n
      BY <1>5, <3>1
    <3> HIDE DEF number, prog
    <3>5. ApplyNumber(r, n, number, all)
      BY <3>3, <3>4 DEF ApplyNumber
    <3>6. /\ prog[n] \in Progress /\ prog[n].job = number /\ prog[n].state = "dispatched"
          /\ prog[n].rollback = ro.prog[n].rollback
      BY <2>1, <3>2, <3>3 DEF Progress, NodeStates
    <3>7. ro.prog[n].state = "pending"
      BY <1>3, <3>1 DEF NodesIn
    <3> QED BY <2>1, <2>3, <3>5, <3>6, <3>7 DEF TrueProgress
  <2>5. CASE n \notin ToSet(made)
    <3>1. prog[n] = ro.prog[n]
      BY <2>5
    <3> HIDE DEF prog
    <3>2. \A j : ApplyNumber(r, n, j, sent) => ApplyNumber(r, n, j, all)
      <4>1. \A i \in 1..Len(sent) : i \in 1..Len(all) /\ all[i] = sent[i]
        BY <1>3, <1>4, <1>5
      <4> QED BY <4>1 DEF ApplyNumber
    <3> QED BY <2>1, <2>3, <3>1, <3>2 DEF TrueProgress
  <2> QED BY <2>4, <2>5
<1>7. /\ SoundWith(r, next, all, <<>>) /\ SamePlan(next, ro)
      /\ next.batches = ro.batches /\ next.state = "running" /\ next \in Snapshot
  <2>1. prog \in [Nodes -> Progress]
    BY <1>6
  <2> HIDE DEF prog
  <2>2. /\ SoundWith(r, next, all, <<>>) /\ SamePlan(next, ro)
        /\ next.batches = ro.batches /\ next.state = ro.state
    BY <1>6, <2>1, ProgressSound
  <2> QED BY <2>2 DEF SoundWith
<1> HIDE DEF next, prog
<1>8. InTurn(r, ro, all)
  <2> SUFFICES ASSUME NEW i \in 1..Len(all)
               PROVE  \E b \in 1..Len(ro.batches) :
                        /\ all[i] \in Members(ro, b)
                        /\ \A e \in 1..b - 1 : \A n \in Members(ro, e) : Applied(r, n)
    BY DEF InTurn
  <2>1. CASE i <= Len(sent)
    <3>1. i \in 1..Len(sent)
      BY <1>4, <2>1
    <3> QED BY <1>5, <3>1 DEF InTurn
  <2>2. CASE ~(i <= Len(sent))
    <3>1. i - Len(sent) \in 1..Len(made) /\ Len(sent) + (i - Len(sent)) = i
      BY <1>3, <1>4, <1>5, <2>2
    <3>2. all[i] = made[i - Len(sent)] /\ made[i - Len(sent)] \in Members(ro, k)
      BY <1>3, <1>5, <3>1
    <3>3. ASSUME NEW e \in 1..k - 1, NEW n \in Members(ro, e) PROVE Applied(r, n)
      <4>1. e \in 1..Len(ro.batches) /\ ro.batches[e].state = "completed"
        BY <1>1, BatchesTyped
      <4>2. n \in Nodes /\ ro.prog[n].state = "succeeded" /\ ro.prog[n] \in Progress
        BY <1>1, <4>1, BatchesTyped DEF Batches, Snapshot
      <4> QED BY <1>1, <4>2, SucceededApplied
    <3> QED BY <3>2, <3>3
  <2> QED BY <2>1, <2>2
<1>9. InTurn(r, next, all)
  BY <1>1, <1>7, <1>8, InTurnByPlan
<1>10. CASE bad = {}
  <2>1. out.ro = next /\ out.apply = all /\ out.rollback = <<>> /\ <<>> \in Seq(Nodes)
        /\ 1..Len(<<>>) = {}
    BY <1>2, <1>10, EmptySeq
  <2> QED BY <1>5, <1>7, <1>9, <2>1 DEF StepOf
<1>11. CASE bad # {}
  <2>1. /\ out = pauseBatchFailure(next, k, todo[Min(bad)], all, w) /\ todo[Min(bad)] \in Nodes
        /\ k \in 1..Len(next.batches)
    BY <1>2, <1>3, <1>7, <1>11
  <2>2. /\ SoundWith(r, out.ro, all, out.rollback) /\ SamePlan(out.ro, next)
        /\ out.apply = all /\ out.rollback \in Seq(Nodes) /\ out.ro.state = "paused"
        /\ \A i \in 1..Len(out.rollback) : out.rollback[i] \in w.restorable
    BY <1>5, <1>7, <2>1, PauseSound
  <2>3. InTurn(r, out.ro, all) /\ SamePlan(out.ro, ro)
    BY <1>7, <1>9, <2>2, InTurnByPlan, PlanTransitive DEF SoundWith
  <2> QED BY <1>5, <2>2, <2>3 DEF StepOf
<1> QED BY <1>10, <1>11

\* A node is shown as succeeded when its job has completed only.
LEMMA VerdictTold ==
  ASSUME NEW ro, NEW n, NEW w
  PROVE  /\ Verdict(ro, n, w) \in NodeStates
         /\ Verdict(ro, n, w) = "succeeded" => ro.prog[n].job \in w.completed
BY DEF Verdict, NodeStates

LEMMA EvaluateSound ==
  ASSUME JobsTyped, NEW r, NEW ro, NEW sent \in Seq(Nodes), SoundWith(r, ro, sent, <<>>),
         InTurn(r, ro, sent), ro.state = "running",
         NEW k \in 1..Len(ro.batches), NEW w, Told(w), NEW out, out = evaluateBatch(ro, k, sent, w)
  PROVE  /\ StepOf(r, ro, w, out) /\ out.ro.state \in {"running", "paused"}
         /\ out.ro.state = "running" => (out.rollback = <<>> /\ out.ro.batches = ro.batches)
<1> DEFINE todo == Among(ro.batches[k].nodes, NodesIn(ro, "dispatched"))
           bad == {i \in DOMAIN todo : Verdict(ro, todo[i], w) \in Failures}
           seen == IF bad = {} THEN todo ELSE SubSeq(todo, 1, Min(bad))
           prog == [n \in Nodes |->
                      IF n \in ToSet(seen)
                      THEN [ro.prog[n] EXCEPT !.state = Verdict(ro, n, w)]
                      ELSE ro.prog[n]]
           next == [ro EXCEPT !.prog = prog]
<1>1. ro \in Snapshot /\ Batches(ro) /\ \A n \in Nodes : TrueProgress(r, n, ro.prog[n], sent, <<>>)
  BY DEF SoundWith
<1>2. out = IF bad = {} THEN [ro |-> next, apply |-> sent, rollback |-> <<>>]
            ELSE pauseBatchFailure(next, k, todo[Min(bad)], sent, w)
  BY DEF evaluateBatch, Outcome
<1>3. /\ bad # {} => todo[Min(bad)] \in Nodes
      /\ seen \in Seq(Nodes) /\ \A i \in 1..Len(seen) : seen[i] \in NodesIn(ro, "dispatched")
  <2>1. bad \subseteq DOMAIN todo
    OBVIOUS
  <2>2. /\ todo \in Seq(Nodes) /\ DOMAIN todo = 1..Len(todo) /\ Len(todo) \in Nat
        /\ \A i \in 1..Len(todo) :
             todo[i] \in NodesIn(ro, "dispatched") /\ todo[i] \in Members(ro, k) /\ todo[i] \in Nodes
        /\ bad # {} =>
              /\ Min(bad) \in bad
              /\ \A d \in {0, 1} :
                   LET part == SubSeq(todo, 1, Min(bad) - d)
                   IN  /\ part \in Seq(Nodes) /\ Len(part) = Min(bad) - d /\ Len(part) \in Nat
                       /\ \A i \in 1..Len(part) : part[i] = todo[i] /\ i \in 1..Len(todo)
    <3> HIDE DEF bad
    <3> QED BY <1>1, <2>1, LoopNodes
  <2> HIDE DEF bad, todo
  <2>3. CASE bad = {}
    BY <2>2, <2>3
  <2>4. CASE bad # {}
    <3>1. Min(bad) \in 1..Len(todo) /\ Min(bad) - 0 = Min(bad)
      BY <2>1, <2>2, <2>4
    <3>2. seen = SubSeq(todo, 1, Min(bad) - 0)
      BY <2>4, <3>1
    <3> QED BY <2>2, <2>4, <3>1, <3>2
  <2> QED BY <2>3, <2>4
<1> HIDE DEF seen, bad, todo
<1>4. ASSUME NEW n \in Nodes
      PROVE  /\ prog[n] \in Progress /\ TrueProgress(r, n, prog[n], sent, <<>>)
             /\ ro.prog[n].state = "succeeded" => prog[n].state = "succeeded"
  <2>1. ro.prog[n] \in Progress /\ TrueProgress(r, n, ro.prog[n], sent, <<>>)
    BY <1>1 DEF Snapshot
  <2>2. CASE n \in ToSet(seen)
    <3> DEFINE v == Verdict(ro, n, w)
    <3>1. prog[n] = [ro.prog[n] EXCEPT !.state = v]
      BY <2>2
    <3>2. v \in NodeStates /\ (v = "succeeded" => Completed(ro.prog[n].job))
      BY VerdictTold DEF Told
    <3> HIDE DEF v, prog
    <3>3. /\ prog[n] \in Progress /\ prog[n].state = v
          /\ prog[n].job = ro.prog[n].job /\ prog[n].rollback = ro.prog[n].rollback
      BY <2>1, <3>1, <3>2 DEF Progress
    <3>4. n \in NodesIn(ro, "dispatched")
      <4>1. DOMAIN seen = 1..Len(seen)
        BY <1>3, LenProperties
      <4> QED BY <1>3, <2>2, <4>1 DEF ToSet
    <3>5. ro.prog[n].state = "dispatched"
      BY <3>4 DEF NodesIn
    <3> QED BY <2>1, <3>2, <3>3, <3>5 DEF TrueProgress
  <2>3. CASE n \notin ToSet(seen)
    <3>1. prog[n] = ro.prog[n]
      BY <2>3
    <3> HIDE DEF prog
    <3> QED BY <2>1, <3>1
  <2> QED BY <2>2, <2>3
<1>5. /\ SoundWith(r, next, sent, <<>>) /\ SamePlan(next, ro)
      /\ next.batches = ro.batches /\ next.state = "running" /\ next \in Snapshot
  <2>1. prog \in [Nodes -> Progress]
    BY <1>4
  <2> HIDE DEF prog
  <2>2. /\ SoundWith(r, next, sent, <<>>) /\ SamePlan(next, ro)
        /\ next.batches = ro.batches /\ next.state = ro.state
    <3>1. next = [ro EXCEPT !.prog = prog]
      OBVIOUS
    <3>2. \A n \in Nodes : TrueProgress(r, n, prog[n], sent, <<>>)
      BY <1>4
    <3>3. \A n \in Nodes : ro.prog[n].state = "succeeded" => prog[n].state = "succeeded"
      BY <1>4
    <3> HIDE DEF next
    <3> QED BY <2>1, <3>1, <3>2, <3>3, ProgressSound
  <2> QED BY <2>2 DEF SoundWith
<1> HIDE DEF next, prog
<1>6. InTurn(r, next, sent)
  BY <1>1, <1>5, InTurnByPlan
<1>7. CASE bad = {}
  <2>1. out.ro = next /\ out.apply = sent /\ out.rollback = <<>> /\ <<>> \in Seq(Nodes)
        /\ 1..Len(<<>>) = {}
    BY <1>2, <1>7, EmptySeq
  <2> QED BY <1>5, <1>6, <2>1 DEF StepOf
<1>8. CASE bad # {}
  <2>1. /\ out = pauseBatchFailure(next, k, todo[Min(bad)], sent, w) /\ todo[Min(bad)] \in Nodes
        /\ k \in 1..Len(next.batches)
    BY <1>2, <1>3, <1>5, <1>8
  <2>2. /\ SoundWith(r, out.ro, sent, out.rollback) /\ SamePlan(out.ro, next)
        /\ out.apply = sent /\ out.rollback \in Seq(Nodes) /\ out.ro.state = "paused"
        /\ \A i \in 1..Len(out.rollback) : out.rollback[i] \in w.restorable
    BY <1>5, <2>1, PauseSound
  <2>3. InTurn(r, out.ro, sent) /\ SamePlan(out.ro, ro)
    BY <1>5, <1>6, <2>2, InTurnByPlan, PlanTransitive DEF SoundWith
  <2> QED BY <2>2, <2>3 DEF StepOf
<1> QED BY <1>7, <1>8

\* The batch at hand is the first that is not completed.
LEMMA ActiveBatch ==
  ASSUME NEW ro \in Snapshot
  PROVE  /\ activeBatchIndex(ro) = 0 => \A e \in 1..Len(ro.batches) : ro.batches[e].state = "completed"
         /\ activeBatchIndex(ro) # 0 =>
              /\ activeBatchIndex(ro) \in 1..Len(ro.batches)
              /\ \A e \in 1..activeBatchIndex(ro) - 1 : ro.batches[e].state = "completed"
<1> DEFINE S == BatchIndices(ro, {"pending", "running", "paused"})
<1>1. S \in SUBSET (1..Len(ro.batches))
      /\ (S # {} => (Min(S) \in S /\ Min(S) \in 1..Len(ro.batches) /\ \A k \in S : Min(S) <= k))
  BY OpenBatches
<1>2. activeBatchIndex(ro) = IF S = {} THEN 0 ELSE Min(S)
  BY DEF activeBatchIndex
<1>3. \A e \in 1..Len(ro.batches) : e \in S \/ ro.batches[e].state = "completed"
  BY BatchesTyped DEF BatchIndices, Batch, BatchStates
<1>4. Len(ro.batches) \in Nat
  BY BatchesTyped
<1> HIDE DEF S
<1>5. CASE S = {}
  BY <1>2, <1>3, <1>5
<1>6. CASE S # {}
  <2>1. Min(S) \in 1..Len(ro.batches) /\ activeBatchIndex(ro) = Min(S)
    BY <1>1, <1>2, <1>6
  <2>2. ASSUME NEW e \in 1..Min(S) - 1 PROVE ro.batches[e].state = "completed"
    <3>1. e \in 1..Len(ro.batches) /\ ~(Min(S) <= e)
      BY <1>4, <2>1
    <3> QED BY <1>1, <1>3, <1>6, <3>1
  <2>3. Min(S) # 0
    BY <1>4, <2>1
  <2> QED BY <2>1, <2>2, <2>3
<1> QED BY <1>5, <1>6

LEMMA StartSound ==
  ASSUME NEW r, NEW ro, NEW sent, NEW undo, SoundWith(r, ro, sent, undo), ro.state = "running",
         NEW k \in 1..Len(ro.batches), NEW next, next = StartBatch(ro, k)
  PROVE  /\ SoundWith(r, next, sent, undo) /\ SamePlan(next, ro) /\ next.state = "running"
         /\ \A i \in 1..Len(ro.batches) : i # k => next.batches[i].state = ro.batches[i].state
<1>1. CASE ro.batches[k].state = "pending"
  <2>1. next = [ro EXCEPT !.batches[k].state = "running"] /\ "running" \in BatchStates
    BY <1>1 DEF StartBatch, BatchStates
  <2> QED BY <2>1, MarkOne
<1>2. CASE ro.batches[k].state # "pending"
  <2>1. next = ro
    BY <1>2 DEF StartBatch
  <2> QED BY <2>1 DEF SamePlan
<1> QED BY <1>1, <1>2

LEMMA AdvanceSound ==
  ASSUME JobsTyped, NEW r, NEW ro, NEW sent \in Seq(Nodes), SoundWith(r, ro, sent, <<>>),
         InTurn(r, ro, sent), ro.state = "running",
         NEW k \in 1..Len(ro.batches), NEW w, Told(w), NEW out, out = advance(ro, k, sent, w)
  PROVE  StepOf(r, ro, w, out) /\ out.ro.state \in Stepped
<1> DEFINE closed == [ro EXCEPT !.batches[k].state = "completed"]
           nextk == activeBatchIndex(closed)
           started == StartBatch(closed, nextk)
<1>1. out = IF ~batchComplete(ro, k) THEN Outcome(ro, sent)
            ELSE IF nextk = 0 THEN Outcome([closed EXCEPT !.state = "completed"], sent)
            ELSE dispatchPending(started, nextk, sent, w)
  BY DEF advance
<1>2. <<>> \in Seq(Nodes) /\ 1..Len(<<>>) = {} /\ ro \in Snapshot
  BY EmptySeq DEF SoundWith
<1>3. CASE ~batchComplete(ro, k)
  <2>1. out.ro = ro /\ out.apply = sent /\ out.rollback = <<>>
    BY <1>1, <1>3 DEF Outcome
  <2>2. SamePlan(ro, ro)
    BY DEF SamePlan
  <2> QED BY <1>2, <2>1, <2>2 DEF StepOf, Stepped
<1>4. ASSUME batchComplete(ro, k)
      PROVE  /\ SoundWith(r, closed, sent, <<>>) /\ SamePlan(closed, ro) /\ closed.state = "running"
             /\ closed \in Snapshot
  <2>1. \A n \in Members(ro, k) : ro.prog[n].state = "succeeded"
    BY <1>4 DEF batchComplete, Members
  <2>2. "completed" \in BatchStates /\ ro.state # "completed"
    BY DEF BatchStates
  <2>3. SoundWith(r, closed, sent, <<>>) /\ SamePlan(closed, ro) /\ closed.state = ro.state
    BY <2>1, <2>2, MarkOne
  <2> HIDE DEF closed
  <2> QED BY <2>3 DEF SoundWith
<1> HIDE DEF closed
<1>5. CASE batchComplete(ro, k) /\ nextk = 0
  <2> DEFINE last == [closed EXCEPT !.state = "completed"]
  <2>1. out.ro = last /\ out.apply = sent /\ out.rollback = <<>>
    BY <1>1, <1>5 DEF Outcome
  <2>2. SoundWith(r, closed, sent, <<>>) /\ SamePlan(closed, ro) /\ closed \in Snapshot
    BY <1>4, <1>5
  <2>3. \A e \in 1..Len(closed.batches) : closed.batches[e].state = "completed"
    BY <1>5, <2>2, ActiveBatch
  <2>4. /\ last \in Snapshot /\ last.prog = closed.prog /\ last.batches = closed.batches
        /\ last.live = closed.live /\ last.target = closed.target /\ last.state = "completed"
    BY <2>2 DEF Snapshot, RolloutStates
  <2> HIDE DEF last
  <2>5. Batches(last)
    BY <2>2, <2>3, <2>4 DEF Batches, Members, SoundWith
  <2>6. SoundWith(r, last, sent, <<>>)
    BY <2>2, <2>4, <2>5 DEF SoundWith
  <2>7. SamePlan(last, ro)
    BY <2>2, <2>4 DEF SamePlan
  <2>8. InTurn(r, last, sent)
    BY <1>2, <2>4, <2>7, InTurnByPlan
  <2> QED BY <1>2, <2>1, <2>4, <2>6, <2>7, <2>8 DEF StepOf, Stepped
<1>6. CASE batchComplete(ro, k) /\ nextk # 0
  <2>1. /\ SoundWith(r, closed, sent, <<>>) /\ SamePlan(closed, ro) /\ closed \in Snapshot
        /\ closed.state = "running"
    BY <1>4, <1>6
  <2>2. /\ nextk \in 1..Len(closed.batches)
        /\ \A e \in 1..nextk - 1 : closed.batches[e].state = "completed"
    BY <1>6, <2>1, ActiveBatch
  <2>3. out = dispatchPending(started, nextk, sent, w)
    BY <1>1, <1>6
  <2> HIDE DEF nextk
  <2>4. /\ SoundWith(r, started, sent, <<>>) /\ SamePlan(started, closed) /\ started.state = "running"
        /\ \A i \in 1..Len(closed.batches) :
             i # nextk => started.batches[i].state = closed.batches[i].state
    BY <2>1, <2>2, StartSound
  <2> HIDE DEF started
  <2>5. SamePlan(started, ro) /\ started \in Snapshot
    BY <2>1, <2>4, PlanTransitive DEF SoundWith
  <2>6. nextk \in 1..Len(started.batches)
        /\ \A e \in 1..nextk - 1 : started.batches[e].state = "completed"
    <3>1. Len(started.batches) = Len(closed.batches) /\ Len(closed.batches) \in Nat
      BY <2>1, <2>4, BatchesTyped DEF SamePlan
    <3>2. \A e \in 1..nextk - 1 : e \in 1..Len(closed.batches) /\ e # nextk
      BY <2>2, <3>1
    <3> QED BY <2>2, <2>4, <3>1, <3>2
  <2>7. InTurn(r, started, sent)
    BY <1>2, <2>5, InTurnByPlan
  <2>8. StepOf(r, started, w, out) /\ out.ro.state \in {"running", "paused"}
    BY <2>3, <2>4, <2>6, <2>7, DispatchSound
  <2>9. SamePlan(out.ro, ro)
    BY <2>5, <2>8, PlanTransitive DEF StepOf
  <2> QED BY <2>8, <2>9 DEF StepOf, Stepped
<1> QED BY <1>3, <1>5, <1>6

\* A snapshot with another state, which is not completed, is as sound.
LEMMA StateSound ==
  ASSUME NEW r, NEW ro, NEW sent, NEW undo, SoundWith(r, ro, sent, undo),
         NEW st \in RolloutStates, st # "completed", NEW next, next = [ro EXCEPT !.state = st]
  PROVE  /\ SoundWith(r, next, sent, undo) /\ SamePlan(next, ro)
         /\ next.state = st /\ next.batches = ro.batches /\ next.prog = ro.prog
<1>1. ro \in Snapshot /\ Batches(ro)
  BY DEF SoundWith
<1>2. /\ next \in Snapshot /\ next.state = st /\ next.batches = ro.batches /\ next.prog = ro.prog
      /\ next.live = ro.live /\ next.target = ro.target
  BY <1>1 DEF Snapshot
<1>3. Batches(next)
  BY <1>1, <1>2 DEF Batches, Members
<1>4. SamePlan(next, ro)
  BY <1>2 DEF SamePlan
<1> QED BY <1>2, <1>3, <1>4 DEF SoundWith

LEMMA NothingMade ==
  ASSUME NEW r, NEW ro, NEW w, NEW next, Sound(r, next), SamePlan(next, ro),
         NEW out, out = Outcome(next, <<>>)
  PROVE  StepOf(r, ro, w, out)
<1>1. <<>> \in Seq(Nodes) /\ 1..Len(<<>>) = {}
  BY EmptySeq
<1>2. out.ro = next /\ out.apply = <<>> /\ out.rollback = <<>>
  BY DEF Outcome
<1>3. InTurn(r, next, <<>>)
  BY <1>1 DEF InTurn
<1> QED BY <1>1, <1>2, <1>3 DEF StepOf, Sound

LEMMA StepRunningSound ==
  ASSUME JobsTyped, NEW r, NEW ro, Sound(r, ro), ro.state = "running",
         NEW w, Told(w), NEW out, out = StepRunning(ro, w)
  PROVE  StepOf(r, ro, w, out) /\ out.ro.state \in Stepped
<1> DEFINE k == activeBatchIndex(ro)
           started == StartBatch(ro, k)
           sent == dispatchPending(started, k, <<>>, w)
           seen == evaluateBatch(sent.ro, k, sent.apply, w)
<1>1. out = IF k = 0 THEN Outcome([ro EXCEPT !.state = "completed"], <<>>)
            ELSE IF sent.ro.state = "paused" THEN sent
            ELSE IF seen.ro.state = "paused" THEN seen
            ELSE advance(seen.ro, k, seen.apply, w)
  BY DEF StepRunning
<1>2. <<>> \in Seq(Nodes) /\ 1..Len(<<>>) = {} /\ ro \in Snapshot
      /\ Len(ro.batches) \in Nat /\ SoundWith(r, ro, <<>>, <<>>)
  BY EmptySeq, BatchesTyped DEF Sound, SoundWith
<1>3. CASE k = 0
  <2> DEFINE last == [ro EXCEPT !.state = "completed"]
  <2>1. out = Outcome(last, <<>>)
    BY <1>1, <1>3
  <2>2. \A e \in 1..Len(ro.batches) : ro.batches[e].state = "completed"
    BY <1>2, <1>3, ActiveBatch
  <2>3. /\ last \in Snapshot /\ last.prog = ro.prog /\ last.batches = ro.batches
        /\ last.live = ro.live /\ last.target = ro.target /\ last.state = "completed"
    BY <1>2 DEF Snapshot, RolloutStates
  <2> HIDE DEF last
  <2>4. Batches(last)
    BY <1>2, <2>2, <2>3 DEF Batches, Members, SoundWith
  <2>5. Sound(r, last)
    BY <1>2, <2>3, <2>4 DEF Sound, SoundWith
  <2>6. SamePlan(last, ro)
    BY <2>3 DEF SamePlan
  <2>7. out.ro = last
    BY <2>1 DEF Outcome
  <2> QED BY <2>1, <2>3, <2>5, <2>6, <2>7, NothingMade DEF Stepped
<1>4. CASE k # 0
  <2>1. k \in 1..Len(ro.batches) /\ \A e \in 1..k - 1 : ro.batches[e].state = "completed"
    BY <1>2, <1>4, ActiveBatch
  <2> HIDE DEF k
  <2>2. /\ SoundWith(r, started, <<>>, <<>>) /\ SamePlan(started, ro) /\ started.state = "running"
        /\ \A i \in 1..Len(ro.batches) : i # k => started.batches[i].state = ro.batches[i].state
    BY <1>2, <2>1, StartSound
  <2> HIDE DEF started
  <2>3. k \in 1..Len(started.batches)
        /\ \A e \in 1..k - 1 : started.batches[e].state = "completed"
    <3>1. Len(started.batches) = Len(ro.batches)
      BY <2>2 DEF SamePlan
    <3>2. \A e \in 1..k - 1 : e \in 1..Len(ro.batches) /\ e # k
      BY <1>2, <2>1
    <3> QED BY <2>1, <2>2, <3>1, <3>2
  <2>4. InTurn(r, started, <<>>)
    BY <1>2 DEF InTurn
  <2>5. /\ StepOf(r, started, w, sent) /\ sent.ro.state \in {"running", "paused"}
        /\ sent.ro.state = "running" => sent.rollback = <<>>
    BY <1>2, <2>2, <2>3, <2>4, DispatchSound
  <2> HIDE DEF sent
  <2>6. StepOf(r, ro, w, sent)
    BY <2>2, <2>5, PlanTransitive DEF StepOf
  <2>7. CASE sent.ro.state = "paused"
    BY <1>1, <1>4, <2>6, <2>7 DEF Stepped
  <2>8. CASE sent.ro.state = "running"
    <3>1. /\ sent.apply \in Seq(Nodes) /\ SoundWith(r, sent.ro, sent.apply, <<>>)
          /\ SamePlan(sent.ro, ro) /\ InTurn(r, sent.ro, sent.apply)
          /\ k \in 1..Len(sent.ro.batches)
      BY <2>1, <2>5, <2>6, <2>8 DEF StepOf, SamePlan
    <3>2. /\ StepOf(r, sent.ro, w, seen) /\ seen.ro.state \in {"running", "paused"}
          /\ seen.ro.state = "running" => seen.rollback = <<>>
      BY <2>8, <3>1, EvaluateSound
    <3> HIDE DEF seen
    <3>3. StepOf(r, ro, w, seen)
      BY <3>1, <3>2, PlanTransitive DEF StepOf
    <3>4. CASE seen.ro.state = "paused"
      BY <1>1, <1>4, <2>8, <3>3, <3>4 DEF Stepped
    <3>5. CASE seen.ro.state = "running"
      <4>1. /\ seen.apply \in Seq(Nodes) /\ SoundWith(r, seen.ro, seen.apply, <<>>)
            /\ SamePlan(seen.ro, ro) /\ InTurn(r, seen.ro, seen.apply)
            /\ k \in 1..Len(seen.ro.batches)
        BY <2>1, <3>2, <3>3, <3>5 DEF StepOf, SamePlan
      <4>2. out = advance(seen.ro, k, seen.apply, w)
        BY <1>1, <1>4, <2>8, <3>5
      <4>3. StepOf(r, seen.ro, w, out) /\ out.ro.state \in Stepped
        BY <3>5, <4>1, <4>2, AdvanceSound
      <4> QED BY <4>1, <4>3, PlanTransitive DEF StepOf
    <3> QED BY <3>2, <3>4, <3>5
  <2> QED BY <2>5, <2>7, <2>8
<1> QED BY <1>3, <1>4

LEMMA StepSound ==
  ASSUME JobsTyped, NEW r, NEW ro, Sound(r, ro), NEW w, Told(w), NEW out, out = Step(ro, w)
  PROVE  StepOf(r, ro, w, out)
<1>1. ro \in Snapshot /\ SoundWith(r, ro, <<>>, <<>>) /\ SamePlan(ro, ro)
  BY DEF Sound, SoundWith, SamePlan
<1>2. CASE terminal(ro.state) \/ ro.state = "paused"
  <2>1. out = Outcome(ro, <<>>)
    BY <1>2 DEF Step
  <2> QED BY <1>1, <2>1, NothingMade
<1>3. CASE ~(terminal(ro.state) \/ ro.state = "paused") /\ w.future
  <2> DEFINE next == [ro EXCEPT !.state = "scheduled"]
  <2>1. out = Outcome(next, <<>>)
    BY <1>3 DEF Step
  <2>2. SoundWith(r, next, <<>>, <<>>) /\ SamePlan(next, ro)
    <3>1. "scheduled" \in RolloutStates /\ "scheduled" # "completed"
      BY DEF RolloutStates
    <3> QED BY <1>1, <3>1, StateSound
  <2> HIDE DEF next
  <2> QED BY <2>1, <2>2, NothingMade DEF Sound
<1>4. CASE ~(terminal(ro.state) \/ ro.state = "paused") /\ ~w.future
  <2> DEFINE next == [ro EXCEPT !.state = "running"]
  <2>1. out = StepRunning(next, w)
    BY <1>4 DEF Step
  <2>2. SoundWith(r, next, <<>>, <<>>) /\ SamePlan(next, ro) /\ next.state = "running"
    <3>1. "running" \in RolloutStates /\ "running" # "completed"
      BY DEF RolloutStates
    <3> QED BY <1>1, <3>1, StateSound
  <2> HIDE DEF next
  <2>3. StepOf(r, next, w, out)
    BY <2>1, <2>2, StepRunningSound DEF Sound
  <2> QED BY <2>2, <2>3, PlanTransitive DEF StepOf
<1> QED BY <1>2, <1>3, <1>4

-----------------------------------------------------------------------------
(* Operators' actions *)

LEMMA ResumeSound ==
  ASSUME NEW r, NEW ro, Sound(r, ro), NEW next, next = Resume(ro)
  PROVE  Sound(r, next) /\ SamePlan(next, ro)
<1> DEFINE ks == BatchIndices(ro, {"paused"})
           redo == IF ks = {} THEN {}
                   ELSE {n \in ToSet(ro.batches[Min(ks)].nodes) : ro.prog[n].state # "succeeded"}
           prog == [n \in Nodes |-> IF n \in redo THEN NoProgress ELSE ro.prog[n]]
           again == [ro EXCEPT !.prog = prog]
           mid == [ro EXCEPT !.state = "running", !.failing = {}, !.prog = prog]
<1>1. /\ ro \in Snapshot /\ Batches(ro) /\ SamePlan(ro, ro) /\ SoundWith(r, ro, <<>>, <<>>)
      /\ \A n \in Nodes : TrueProgress(r, n, ro.prog[n], <<>>, <<>>)
  BY DEF Sound, SoundWith, SamePlan
<1>2. next = IF ro.state # "paused" THEN ro ELSE FirstBatchTo(mid, {"paused"}, "running")
  BY DEF Resume
<1>3. \A n \in redo : ro.prog[n].state # "succeeded"
  OBVIOUS
<1> HIDE DEF redo
<1>4. ASSUME NEW n \in Nodes
      PROVE  /\ prog[n] \in Progress /\ TrueProgress(r, n, prog[n], <<>>, <<>>)
             /\ ro.prog[n].state = "succeeded" => prog[n].state = "succeeded"
  <2>1. CASE n \in redo
    <3>1. prog[n] = NoProgress
      BY <2>1
    <3> HIDE DEF prog
    <3>2. /\ NoProgress \in Progress /\ NoProgress.job = 0 /\ NoProgress.rollback = 0
          /\ NoProgress.state = "pending"
      BY DEF NoProgress, Progress, NodeStates
    <3> QED BY <1>3, <2>1, <3>1, <3>2 DEF TrueProgress
  <2>2. CASE n \notin redo
    <3>1. prog[n] = ro.prog[n]
      BY <2>2
    <3> HIDE DEF prog
    <3> QED BY <1>1, <3>1 DEF Snapshot
  <2> QED BY <2>1, <2>2
<1>5. prog \in [Nodes -> Progress]
  BY <1>4
<1> HIDE DEF prog
<1>6. SoundWith(r, again, <<>>, <<>>) /\ SamePlan(again, ro)
  BY <1>1, <1>4, <1>5, ProgressSound
<1>7. SoundWith(r, mid, <<>>, <<>>) /\ SamePlan(mid, ro) /\ mid.state = "running"
  <2>1. /\ mid \in Snapshot /\ mid.state = "running" /\ mid.prog = prog /\ mid.batches = ro.batches
        /\ mid.live = ro.live /\ mid.target = ro.target
    BY <1>1, <1>5 DEF Snapshot, RolloutStates
  <2>2. again.prog = prog /\ again.batches = ro.batches
    BY <1>1, <1>5 DEF Snapshot
  <2> HIDE DEF mid, again
  <2>3. Batches(mid)
    BY <1>6, <2>1, <2>2 DEF SoundWith, Batches, Members
  <2>4. SamePlan(mid, ro)
    BY <2>1 DEF SamePlan
  <2> QED BY <1>4, <2>1, <2>3, <2>4 DEF SoundWith
<1> HIDE DEF mid, again
<1>8. CASE ro.state # "paused"
  BY <1>1, <1>2, <1>8 DEF Sound
<1>9. CASE ro.state = "paused"
  <2>1. next = FirstBatchTo(mid, {"paused"}, "running") /\ "running" \in BatchStates \ {"completed"}
    BY <1>2, <1>9 DEF BatchStates
  <2>2. SoundWith(r, next, <<>>, <<>>) /\ SamePlan(next, mid)
    BY <1>7, <2>1, MarkSound
  <2> QED BY <1>7, <2>2, PlanTransitive DEF Sound
<1> QED BY <1>8, <1>9

LEMMA OperatorSound ==
  ASSUME NEW r, NEW ro, Sound(r, ro), NEW action \in {"pause", "resume", "abort"},
         NEW next, next = OperatorAction(action, ro)
  PROVE  Sound(r, next) /\ SamePlan(next, ro)
<1>1. SoundWith(r, ro, <<>>, <<>>) /\ SamePlan(ro, ro)
  BY DEF Sound, SamePlan
<1>2. CASE action = "resume"
  <2>1. next = Resume(ro)
    BY <1>2 DEF OperatorAction
  <2> QED BY <2>1, ResumeSound
<1>3. CASE action = "abort"
  <2>1. next = IF terminal(ro.state) THEN ro ELSE [ro EXCEPT !.state = "aborted"]
    BY <1>3 DEF OperatorAction, Abort
  <2>2. "aborted" \in RolloutStates /\ "aborted" # "completed"
    BY DEF RolloutStates
  <2>3. CASE terminal(ro.state)
    BY <1>1, <2>1, <2>3 DEF Sound
  <2>4. CASE ~terminal(ro.state)
    <3>1. next = [ro EXCEPT !.state = "aborted"]
      BY <2>1, <2>4
    <3> QED BY <1>1, <2>2, <3>1, StateSound DEF Sound
  <2> QED BY <2>3, <2>4
<1>4. CASE action = "pause"
  <2> DEFINE mid == [ro EXCEPT !.state = "paused"]
  <2>1. next = IF terminal(ro.state) THEN ro ELSE FirstBatchTo(mid, {"running", "pending"}, "paused")
    BY <1>4 DEF OperatorAction, PauseForOperator
  <2>2. SoundWith(r, mid, <<>>, <<>>) /\ SamePlan(mid, ro) /\ mid.state # "completed"
    <3>1. "paused" \in RolloutStates /\ "paused" # "completed"
      BY DEF RolloutStates
    <3> QED BY <1>1, <3>1, StateSound
  <2> HIDE DEF mid
  <2>3. CASE terminal(ro.state)
    BY <1>1, <2>1, <2>3 DEF Sound
  <2>4. CASE ~terminal(ro.state)
    <3>1. next = FirstBatchTo(mid, {"running", "pending"}, "paused")
          /\ "paused" \in BatchStates \ {"completed"}
      BY <2>1, <2>4 DEF BatchStates
    <3>2. SoundWith(r, next, <<>>, <<>>) /\ SamePlan(next, mid)
      BY <2>2, <3>1, MarkSound
    <3> QED BY <2>2, <3>2, PlanTransitive DEF Sound
  <2> QED BY <2>3, <2>4
<1> QED BY <1>2, <1>3, <1>4

-----------------------------------------------------------------------------
(* The plan of a new rollout *)

\* Every target node has one place in the plan.
NodesOnce(ro) ==
  \A j, k \in 1..Len(ro.batches) :
    \A i \in 1..Len(ro.batches[j].nodes), l \in 1..Len(ro.batches[k].nodes) :
      ro.batches[j].nodes[i] = ro.batches[k].nodes[l] => (j = k /\ i = l)

Distinct(s) == \A i, j \in 1..Len(s) : s[i] = s[j] => i = j

LEMMA UniqueDistinct ==
  ASSUME NEW nodes \in Seq(Nodes)
  PROVE  uniqueTrimmedStrings(nodes) \in Seq(Nodes) /\ Distinct(uniqueTrimmedStrings(nodes))
<1> DEFINE P == {i \in DOMAIN nodes : \A j \in 1..i - 1 : nodes[j] # nodes[i]}
           u == Pick(nodes, P)
<1>1. DOMAIN nodes = 1..Len(nodes) /\ Len(nodes) \in Nat
  BY LenProperties
<1>2. P \in SUBSET (1..Len(nodes)) /\ uniqueTrimmedStrings(nodes) = u
  BY <1>1 DEF uniqueTrimmedStrings
<1>3. ASSUME NEW p \in P, NEW q \in P, nodes[p] = nodes[q] PROVE p = q
  <2>1. p \in 1..Len(nodes) /\ q \in 1..Len(nodes)
    BY <1>2
  <2>2. (\A j \in 1..p - 1 : nodes[j] # nodes[p]) /\ (\A j \in 1..q - 1 : nodes[j] # nodes[q])
    OBVIOUS
  <2>3. q \notin 1..p - 1 /\ p \notin 1..q - 1
    BY <1>3, <2>2
  <2> QED BY <1>1, <2>1, <2>3
<1> HIDE DEF P
<1>4. u \in Seq(Nodes) /\ Len(u) = Cardinality(P)
  BY <1>2, PickProperties
<1>5. PICK at : Places(nodes, P, at)
  BY <1>2, PickProperties
<1>5a. /\ at \in [1..Cardinality(P) -> P]
       /\ \A i \in 1..Cardinality(P) : u[i] = nodes[at[i]]
       /\ \A i, j \in 1..Cardinality(P) : at[i] = at[j] => i = j
  BY <1>5 DEF Places
<1> HIDE DEF u
<1>6. \A i, j \in 1..Len(u) : u[i] = u[j] => i = j
  BY <1>3, <1>4, <1>5a
<1> QED BY <1>2, <1>4, <1>6 DEF Distinct

LEMMA NormalizedSpec ==
  ASSUME NEW asked \in RolloutSpec, NEW spec, spec = normalizeRolloutSpec(asked)
  PROVE  spec \in RolloutSpec /\ Distinct(spec.nodes)
<1> DEFINE u == uniqueTrimmedStrings(asked.nodes)
           b == IF asked.batchSize = 0 THEN 1 ELSE asked.batchSize
<1>1. asked.nodes \in Seq(Nodes) /\ asked.batchSize \in Nat
  BY DEF RolloutSpec
<1>2. u \in Seq(Nodes) /\ Distinct(u)
  BY <1>1, UniqueDistinct
<1>3. spec = [asked EXCEPT !.batchSize = b, !.nodes = u] /\ b \in Nat
  BY <1>1 DEF normalizeRolloutSpec
<1> HIDE DEF u, b
<1>4. spec \in RolloutSpec /\ spec.nodes = u
  BY <1>1, <1>2, <1>3 DEF RolloutSpec
<1> QED BY <1>2, <1>4

LEMMA Slices ==
  ASSUME NEW size \in Nat, size # 0, NEW j \in Nat, NEW k \in Nat, NEW i \in 1..size, NEW l \in 1..size,
         (j - 1) * size + i = (k - 1) * size + l, j # 0, k # 0
  PROVE  j = k /\ i = l
<1>1. ASSUME NEW a \in Nat, NEW b \in Nat, a < b
      PROVE  a * size + size <= b * size
  <2>1. b - a - 1 \in Nat /\ b = a + 1 + (b - a - 1)
    BY <1>1
  <2>2. PICK d \in Nat : b = a + 1 + d
    BY <2>1
  <2>3. b * size = a * size + size + d * size /\ d * size \in Nat /\ a * size \in Nat
    BY <2>2
  <2> QED BY <2>3
<1>2. j - 1 \in Nat /\ k - 1 \in Nat
  OBVIOUS
<1> DEFINE a == j - 1  b == k - 1  x == a * size  y == b * size
<1>3. a \in Nat /\ b \in Nat /\ (a < b => x + size <= y) /\ (b < a => y + size <= x)
  BY <1>1, <1>2
<1>4. x \in Nat /\ y \in Nat /\ x + i = y + l
  BY <1>2
<1>5. ~(a < b) /\ ~(b < a)
  <2> HIDE DEF x, y, a, b
  <2> QED BY <1>3, <1>4
<1>6. a = b
  <2> HIDE DEF x, y, a, b
  <2> QED BY <1>3, <1>5
<1>7. i = l
  <2>1. x = y
    BY <1>6
  <2> HIDE DEF x, y
  <2> QED BY <1>4, <2>1
<1> QED BY <1>6, <1>7

\* Batch k of a plan holds the nodes from (k - 1) * size on, size at most.
Sliced(plan, nodes, size) ==
  \A k \in 1..Len(plan) : \A i \in 1..Len(plan[k].nodes) :
    /\ i \in 1..size /\ (k - 1) * size + i \in 1..Len(nodes)
    /\ plan[k].nodes[i] = nodes[(k - 1) * size + i]

LEMMA PlanSlices ==
  ASSUME NEW nodes \in Seq(Nodes), NEW batchSize \in Nat, NEW plan, plan = PlanBatches(nodes, batchSize)
  PROVE  /\ plan \in Seq(Batch) /\ Len(plan) \in Nat
         /\ \A k \in 1..Len(plan) : plan[k].state = "pending"
         /\ \E size \in Nat : size # 0 /\ Sliced(plan, nodes, size)
<1> DEFINE size == IF batchSize = 0 THEN 1 ELSE batchSize
           count == (Len(nodes) + size - 1) \div size
           first(k) == (k - 1) * size + 1
           last(k) == Min({k * size, Len(nodes)})
           slice(k) == SubSeq(nodes, first(k), last(k))
<1>1. size \in Nat /\ size # 0 /\ Len(nodes) \in Nat /\ \A i \in 1..Len(nodes) : nodes[i] \in Nodes
  BY LenProperties, ElementOfSeq
<1>2. plan = [k \in 1..count |-> [nodes |-> slice(k), state |-> "pending"]]
  BY DEF PlanBatches
<1> HIDE DEF size
<1>3. count \in Nat
  <2> DEFINE t == Len(nodes) + size - 1
  <2>1. t \in Nat /\ size \in Nat /\ size > 0
    BY <1>1
  <2> HIDE DEF t
  <2>2. t \div size \in Nat
    BY <2>1
  <2> QED BY <2>2 DEF t
<1>4. ASSUME NEW k \in 1..count
      PROVE  /\ slice(k) \in Seq(Nodes)
             /\ \A i \in 1..Len(slice(k)) : /\ i \in 1..size /\ (k - 1) * size + i \in 1..Len(nodes)
                                            /\ slice(k)[i] = nodes[(k - 1) * size + i]
  <2> DEFINE x == (k - 1) * size  y == k * size  e == last(k)
  <2>1. x \in Nat /\ y \in Nat /\ y = x + size
    <3>1. k - 1 \in Nat /\ k \in Nat
      BY <1>3
    <3> QED BY <1>1, <3>1
  <2>2. e \in Nat /\ e <= Len(nodes) /\ e <= y
    <3> DEFINE S == {y, Len(nodes)}
    <3>1. S \in SUBSET Nat /\ S # {}
      BY <1>1, <2>1
    <3>2. y \in S /\ Len(nodes) \in S
      OBVIOUS
    <3> HIDE DEF S
    <3>3. Min(S) \in S /\ \A z \in S : Min(S) <= z
      BY <3>1, MinOf
    <3>4. Min(S) \in Nat /\ Min(S) <= y /\ Min(S) <= Len(nodes)
      BY <3>1, <3>2, <3>3
    <3> QED BY <3>4 DEF S
  <2> HIDE DEF e, y, x, count
  <2>3. slice(k) = SubSeq(nodes, x + 1, e)
    BY DEF e, x
  <2> DEFINE s == SubSeq(nodes, x + 1, e)
  <2>4. x + 1 \in Int /\ e \in Int /\ \A i \in x + 1..e : nodes[i] \in Nodes
    BY <1>1, <2>1, <2>2
  <2>5. /\ s \in Seq(Nodes) /\ Len(s) = (IF x + 1 <= e THEN e - (x + 1) + 1 ELSE 0)
        /\ \A i \in 1..e - (x + 1) + 1 : s[i] = nodes[x + 1 + i - 1]
    BY <2>4, SubSeqProperties
  <2> HIDE DEF s
  <2>6. ASSUME NEW i \in 1..Len(s)
        PROVE  /\ i \in 1..size /\ x + i \in 1..Len(nodes) /\ s[i] = nodes[x + i]
    <3>1. x + 1 <= e /\ Len(s) = e - x /\ e - (x + 1) + 1 = e - x
      BY <2>1, <2>2, <2>5
    <3>2. i \in Nat /\ 1 <= i /\ i <= e - x /\ x + 1 + i - 1 = x + i
      BY <2>1, <2>2, <3>1
    <3> QED BY <1>1, <2>1, <2>2, <2>5, <3>1, <3>2
  <2>7. slice(k) = s
    BY <2>3 DEF s
  <2> HIDE DEF slice
  <2> QED BY <2>5, <2>6, <2>7 DEF x
<1> HIDE DEF slice, count
<1>5. /\ plan \in Seq(Batch) /\ Len(plan) = count
      /\ \A k \in 1..count : plan[k] = [nodes |-> slice(k), state |-> "pending"]
  <2>1. ASSUME NEW k \in 1..count PROVE [nodes |-> slice(k), state |-> "pending"] \in Batch
    BY <1>4 DEF Batch, BatchStates
  <2>2. plan \in [1..count -> Batch]
    BY <1>2, <2>1
  <2> QED BY <1>2, <1>3, <2>2
<1>6. \A k \in 1..count : plan[k].nodes = slice(k) /\ plan[k].state = "pending"
  BY <1>5
<1>7. Sliced(plan, nodes, size)
  <2> SUFFICES ASSUME NEW k \in 1..Len(plan), NEW i \in 1..Len(plan[k].nodes)
               PROVE  /\ i \in 1..size /\ (k - 1) * size + i \in 1..Len(nodes)
                      /\ plan[k].nodes[i] = nodes[(k - 1) * size + i]
    BY DEF Sliced
  <2>1. k \in 1..count /\ plan[k].nodes = slice(k) /\ i \in 1..Len(slice(k))
    BY <1>5, <1>6
  <2> DEFINE at == (k - 1) * size + i
  <2>2. i \in 1..size /\ at \in 1..Len(nodes) /\ slice(k)[i] = nodes[at]
    BY <1>4, <2>1
  <2> HIDE DEF at
  <2>3. plan[k].nodes[i] = nodes[at]
    BY <2>1, <2>2
  <2> QED BY <2>2, <2>3 DEF at
<1>8. \A k \in 1..Len(plan) : plan[k].state = "pending"
  BY <1>5, <1>6
<1> QED BY <1>1, <1>3, <1>5, <1>7, <1>8

LEMMA NewRolloutSound ==
  ASSUME NEW r, NEW spec \in RolloutSpec, Distinct(spec.nodes), NEW ro, ro = NewRollout(spec)
  PROVE  Sound(r, ro) /\ NodesOnce(ro)
<1> DEFINE plan == PlanBatches(spec.nodes, spec.batchSize)
<1>1. spec.nodes \in Seq(Nodes) /\ spec.batchSize \in Nat /\ spec.live \in BOOLEAN
      /\ spec.autoRollback \in BOOLEAN /\ spec.allowOverlap \in BOOLEAN /\ spec.target \in Values
  BY DEF RolloutSpec
<1>2. plan \in Seq(Batch) /\ \A k \in 1..Len(plan) : plan[k].state = "pending"
  BY <1>1, PlanSlices
<1>3. PICK size \in Nat : size # 0 /\ Sliced(plan, spec.nodes, size)
  BY <1>1, PlanSlices
<1> HIDE DEF plan
<1>4. /\ ro.batches = plan /\ ro.state \in RolloutStates \ {"completed"}
      /\ ro.prog = [n \in Nodes |-> NoProgress] /\ ro.failing = {}
      /\ ro.live = spec.live /\ ro.target = spec.target
      /\ ro = [state |-> ro.state, live |-> spec.live, autoRollback |-> spec.autoRollback,
               allowOverlap |-> spec.allowOverlap, target |-> spec.target, batches |-> plan,
               prog |-> ro.prog, failing |-> {}]
  BY DEF NewRollout, plan, RolloutStates
<1>5. NoProgress \in Progress /\ NoProgress.job = 0 /\ NoProgress.rollback = 0
      /\ NoProgress.state = "pending"
  BY DEF NoProgress, Progress, NodeStates
<1>6. ro \in Snapshot
  <2>1. ro.prog \in [Nodes -> Progress]
    BY <1>4, <1>5
  <2> QED BY <1>1, <1>2, <1>4, <2>1 DEF Snapshot
<1>7. \A n \in Nodes : TrueProgress(r, n, ro.prog[n], <<>>, <<>>)
  BY <1>4, <1>5 DEF TrueProgress
<1>8. Batches(ro)
  BY <1>2, <1>4 DEF Batches
<1>9. ASSUME NEW j \in 1..Len(plan), NEW k \in 1..Len(plan),
             NEW i \in 1..Len(plan[j].nodes), NEW l \in 1..Len(plan[k].nodes),
             plan[j].nodes[i] = plan[k].nodes[l]
      PROVE  j = k /\ i = l
  <2> DEFINE p == (j - 1) * size + i  q == (k - 1) * size + l
  <2>1. p = q
    <3>1. p \in 1..Len(spec.nodes) /\ plan[j].nodes[i] = spec.nodes[p]
      BY <1>3 DEF Sliced
    <3>2. q \in 1..Len(spec.nodes) /\ plan[k].nodes[l] = spec.nodes[q]
      BY <1>3 DEF Sliced
    <3> HIDE DEF p, q
    <3> QED BY <1>9, <3>1, <3>2 DEF Distinct
  <2>2. i \in 1..size /\ l \in 1..size
    BY <1>3 DEF Sliced
  <2>3. j \in Nat /\ k \in Nat /\ j # 0 /\ k # 0
    BY <1>2, LenProperties
  <2> QED BY <1>3, <2>1, <2>2, <2>3, Slices
<1>10. NodesOnce(ro)
  BY <1>4, <1>9 DEF NodesOnce
<1> QED BY <1>6, <1>7, <1>8, <1>10 DEF Sound, SoundWith

-----------------------------------------------------------------------------
(* The inductive invariant *)

\* A copy of row r that will be stepped or written.
CopyOf(r, ro) == r \in 1..Len(rollouts) /\ Sound(r, ro) /\ SamePlan(ro, rollouts[r])

Listed == [id : 1..MaxRollouts, ro : Snapshot]

RequestOK(req) ==
  \/ req = None
  \/ req.pc = "create" /\ req.spec \in RolloutSpec /\ Distinct(req.spec.nodes)
  \/ req.pc = "update" /\ CopyOf(req.id, req.ro)

HttpInv == http = [h \in Handlers |-> http[h]] /\ \A h \in Handlers : RequestOK(http[h])

OrchInv ==
  \/ orch = Idle
  \/ /\ orch.list \in Seq(Listed)
     /\ \A i \in 1..Len(orch.list) : CopyOf(orch.list[i].id, orch.list[i].ro)
     /\ \/ orch = [pc |-> "step", list |-> orch.list]
        \/ /\ orch = [pc |-> "write", list |-> orch.list, id |-> orch.id, ro |-> orch.ro]
           /\ CopyOf(orch.id, orch.ro)

JobsOK == JobsTyped /\ Len(jobs) <= MaxJobs /\ \A j \in 1..Len(jobs) : jobs[j].rollout <= Len(rollouts)

WorldTypes ==
  /\ config \in [Nodes -> Values] /\ reported \in [Nodes -> Values]
  /\ online \subseteq Nodes /\ due \subseteq JobIDs /\ begun \subseteq 1..MaxRollouts
  /\ actions \in 0..MaxActions

RowsOK ==
  /\ rollouts \in Seq(Snapshot) /\ Len(rollouts) <= MaxRollouts
  /\ \A r \in 1..Len(rollouts) : Sound(r, rollouts[r]) /\ NodesOnce(rollouts[r])

ControlInv == WorldTypes /\ JobsOK /\ RowsOK /\ HttpInv /\ OrchInv /\ CanaryFirst

-----------------------------------------------------------------------------
(* Jobs are only added, and what is completed stays completed *)

JobsGrow ==
  /\ Len(jobs) <= Len(jobs')
  /\ \A j \in 1..Len(jobs) :
       /\ jobs'[j].kind = jobs[j].kind /\ jobs'[j].node = jobs[j].node
       /\ jobs'[j].rollout = jobs[j].rollout
       /\ jobs[j].status = "completed" => jobs'[j].status = "completed"

LEMMA SetsGrow ==
  ASSUME JobsTyped, JobsTyped', JobsGrow, NEW r, NEW n
  PROVE  /\ \A j \in ApplyJobs(r, n) : j \in ApplyJobs(r, n)'
         /\ \A j : RollbackNumber(r, n, j, <<>>, <<>>) => RollbackNumber(r, n, j, <<>>, <<>>)'
         /\ \A j : Completed(j) => Completed(j)'
         /\ Applied(r, n) => Applied(r, n)'
<1>1. /\ Len(jobs) \in Nat /\ Len(jobs') \in Nat /\ Len(jobs) <= Len(jobs')
      /\ DOMAIN jobs = 1..Len(jobs) /\ DOMAIN jobs' = 1..Len(jobs')
      /\ 1..Len(<<>>) = {}
  BY JobsLen, LenProperties, EmptySeq DEF JobsTyped, JobsGrow
<1>2. \A j \in DOMAIN jobs : /\ j \in DOMAIN jobs'
                             /\ jobs'[j].kind = jobs[j].kind /\ jobs'[j].node = jobs[j].node
                             /\ jobs'[j].rollout = jobs[j].rollout
                             /\ jobs[j].status = "completed" => jobs'[j].status = "completed"
  BY <1>1 DEF JobsGrow
<1>3. \A j \in ApplyJobs(r, n) : j \in ApplyJobs(r, n)' /\ j \in DOMAIN jobs
  BY <1>2 DEF ApplyJobs, JobsOf
<1>4. \A j : RollbackNumber(r, n, j, <<>>, <<>>) => RollbackNumber(r, n, j, <<>>, <<>>)'
  BY <1>1, <1>2 DEF RollbackNumber, JobsOf
<1>5. \A j : Completed(j) => Completed(j)'
  BY <1>2 DEF Completed
<1>6. Applied(r, n) => Applied(r, n)'
  BY <1>2, <1>3 DEF Applied
<1> QED BY <1>3, <1>4, <1>5, <1>6

\* A snapshot stays sound, with the jobs its step has made in the table.
LEMMA SoundGrows ==
  ASSUME JobsTyped, JobsTyped', JobsGrow, NEW r, NEW ro, NEW sent, NEW undo,
         SoundWith(r, ro, sent, undo),
         \A i \in 1..Len(sent) : Len(jobs) + i \in ApplyJobs(r, sent[i])',
         \A i \in 1..Len(undo) : \A j :
           j = Len(jobs) + Len(sent) + i => RollbackNumber(r, undo[i], j, <<>>, <<>>)'
  PROVE  Sound(r, ro)'
<1>1. ASSUME NEW n \in Nodes
      PROVE  TrueProgress(r, n, ro.prog[n], <<>>, <<>>)'
  <2> DEFINE p == ro.prog[n]
  <2>1. TrueProgress(r, n, p, sent, undo)
    BY DEF SoundWith
  <2> HIDE DEF p
  <2>2. ASSUME NEW j, ApplyNumber(r, n, j, sent) PROVE ApplyNumber(r, n, j, <<>>)'
    BY <2>2, SetsGrow DEF ApplyNumber
  <2>3. ASSUME NEW j, RollbackNumber(r, n, j, sent, undo) PROVE RollbackNumber(r, n, j, <<>>, <<>>)'
    <3>1. CASE RollbackNumber(r, n, j, <<>>, <<>>)
      BY <3>1, SetsGrow
    <3>2. CASE \E i \in 1..Len(undo) : j = Len(jobs) + Len(sent) + i /\ undo[i] = n
      <4>1. PICK i \in 1..Len(undo) : j = Len(jobs) + Len(sent) + i /\ undo[i] = n
        BY <3>2
      <4>2. RollbackNumber(r, undo[i], j, <<>>, <<>>)'
        BY <4>1
      <4> QED BY <4>1, <4>2
    <3> QED BY <2>3, <3>1, <3>2 DEF RollbackNumber
  <2>4. Completed(p.job) => Completed(p.job)'
    BY SetsGrow
  <2>5. TrueProgress(r, n, p, <<>>, <<>>)'
    BY <2>1, <2>2, <2>3, <2>4 DEF TrueProgress
  <2> QED BY <2>5 DEF p
<1> QED BY <1>1 DEF Sound, SoundWith, Batches, Members

LEMMA SoundStays ==
  ASSUME JobsTyped, JobsTyped', JobsGrow, NEW r, NEW ro, Sound(r, ro)
  PROVE  Sound(r, ro)'
<1>1. 1..Len(<<>>) = {} /\ SoundWith(r, ro, <<>>, <<>>)
  BY EmptySeq DEF Sound
<1> QED BY <1>1, SoundGrows

\* Rows, and with them all copies, keep their place and plan.
PlansStay ==
  /\ Len(rollouts) <= Len(rollouts')
  /\ \A r \in 1..Len(rollouts) : SamePlan(rollouts'[r], rollouts[r])

CopiesStay == \A r, ro : CopyOf(r, ro) => CopyOf(r, ro)'

LEMMA SamePlanAs ==
  ASSUME NEW a, NEW b, NEW c, SamePlan(a, b), SamePlan(c, b)
  PROVE  SamePlan(a, c)
BY DEF SamePlan

LEMMA CopiesKept ==
  ASSUME JobsTyped, JobsTyped', JobsGrow, PlansStay, Len(rollouts) \in Nat, Len(rollouts') \in Nat
  PROVE  CopiesStay
<1> SUFFICES ASSUME NEW r, NEW ro, CopyOf(r, ro) PROVE CopyOf(r, ro)'
  BY DEF CopiesStay
<1>1. r \in 1..Len(rollouts) /\ Sound(r, ro) /\ SamePlan(ro, rollouts[r])
  BY DEF CopyOf
<1>2. r \in 1..Len(rollouts') /\ SamePlan(rollouts'[r], rollouts[r])
  BY <1>1 DEF PlansStay
<1>3. Sound(r, ro)'
  BY <1>1, SoundStays
<1>4. SamePlan(ro, rollouts'[r])
  BY <1>1, <1>2, SamePlanAs
<1> QED BY <1>2, <1>3, <1>4 DEF CopyOf, SamePlan

LEMMA RequestsStay ==
  ASSUME CopiesStay, HttpInv, UNCHANGED http
  PROVE  HttpInv'
BY DEF CopiesStay, HttpInv, RequestOK

LEMMA PassStays ==
  ASSUME CopiesStay, OrchInv, UNCHANGED orch
  PROVE  OrchInv'
BY DEF CopiesStay, OrchInv

\* Node n of rollout r may have an apply job: the batches before its own are through.
Turn(r, ro, n) ==
  \E k \in 1..Len(ro.batches) :
    n \in Members(ro, k) /\ \A e \in 1..k - 1 : \A m \in Members(ro, e) : Applied(r, m)

LEMMA RowsTyped ==
  ASSUME RowsOK
  PROVE  /\ Len(rollouts) \in Nat /\ DOMAIN rollouts = 1..Len(rollouts)
         /\ \A r \in 1..Len(rollouts) : rollouts[r] \in Snapshot
BY LenProperties, ElementOfSeq DEF RowsOK

\* One place in the plan, so one turn.
LEMMA TurnsAreUnique ==
  ASSUME NEW r, NEW ro \in Snapshot, NodesOnce(ro), NEW n, Turn(r, ro, n),
         NEW k \in 1..Len(ro.batches), n \in Members(ro, k), NEW e \in 1..k - 1, NEW m \in Members(ro, e)
  PROVE  Applied(r, m)
<1>1. PICK b \in 1..Len(ro.batches) :
        n \in Members(ro, b) /\ \A f \in 1..b - 1 : \A q \in Members(ro, f) : Applied(r, q)
  BY DEF Turn
<1>2. b = k
  <2>1. PICK i \in 1..Len(ro.batches[b].nodes) : ro.batches[b].nodes[i] = n
    BY <1>1, BatchesTyped
  <2>2. PICK l \in 1..Len(ro.batches[k].nodes) : ro.batches[k].nodes[l] = n
    <3>1. \A q : q \in Members(ro, k)
                   <=> \E l \in 1..Len(ro.batches[k].nodes) : ro.batches[k].nodes[l] = q
      BY BatchesTyped
    <3> QED BY <3>1
  <2>3. ro.batches[b].nodes[i] = ro.batches[k].nodes[l]
    BY <2>1, <2>2
  <2> QED BY <2>3 DEF NodesOnce
<1> QED BY <1>1, <1>2

LEMMA CanaryKept ==
  ASSUME JobsTyped, JobsTyped', JobsGrow, RowsOK, RowsOK', PlansStay, CanaryFirst,
         \A r \in 1..Len(rollouts) : \A n :
           ApplyJobs(r, n)' # {} => ApplyJobs(r, n) # {} \/ Turn(r, rollouts[r], n),
         \A r \in 1..Len(rollouts') : r \notin 1..Len(rollouts) => \A n : ApplyJobs(r, n)' = {}
  PROVE  CanaryFirst'
<1> SUFFICES ASSUME NEW r \in DOMAIN rollouts', NEW k \in DOMAIN rollouts'[r].batches,
                    NEW n \in ToSet(rollouts'[r].batches[k].nodes), ApplyJobs(r, n)' # {},
                    NEW e \in 1..k - 1, NEW m \in ToSet(rollouts'[r].batches[e].nodes)
             PROVE  Applied(r, m)'
  BY DEF CanaryFirst
<1>1. r \in 1..Len(rollouts') /\ rollouts'[r] \in Snapshot
  BY RowsTyped, RowsOK' DEF RowsOK
<1>2. r \in 1..Len(rollouts) /\ rollouts[r] \in Snapshot /\ SamePlan(rollouts'[r], rollouts[r])
      /\ NodesOnce(rollouts[r]) /\ r \in DOMAIN rollouts
  BY <1>1, RowsTyped DEF PlansStay, RowsOK
<1> DEFINE ro == rollouts[r]
<1>3. k \in 1..Len(ro.batches) /\ k \in DOMAIN ro.batches /\ e \in 1..Len(ro.batches)
      /\ n \in Members(ro, k) /\ m \in Members(ro, e)
  <2>1. k \in 1..Len(rollouts'[r].batches) /\ Len(rollouts'[r].batches) \in Nat
    BY <1>1, BatchesTyped
  <2>2. e \in 1..Len(rollouts'[r].batches)
    BY <2>1
  <2>3. DOMAIN ro.batches = 1..Len(ro.batches)
    BY <1>2, BatchesTyped
  <2> QED BY <1>2, <2>1, <2>2, <2>3 DEF SamePlan, Members
<1>4. CASE Turn(r, ro, n)
  <2>1. Applied(r, m)
    BY <1>2, <1>3, <1>4, TurnsAreUnique
  <2> QED BY <2>1, SetsGrow
<1>5. CASE ApplyJobs(r, n) # {}
  <2>1. Applied(r, m)
    BY <1>2, <1>3, <1>5 DEF CanaryFirst, Members
  <2> QED BY <2>1, SetsGrow
<1> QED BY <1>2, <1>4, <1>5

LEMMA OnceByPlan ==
  ASSUME NEW a, NEW b, SamePlan(a, b), NodesOnce(b)
  PROVE  NodesOnce(a)
<1> SUFFICES ASSUME NEW j \in 1..Len(a.batches), NEW k \in 1..Len(a.batches),
                    NEW i \in 1..Len(a.batches[j].nodes), NEW l \in 1..Len(a.batches[k].nodes),
                    a.batches[j].nodes[i] = a.batches[k].nodes[l]
             PROVE  j = k /\ i = l
  BY DEF NodesOnce
<1>1. j \in 1..Len(b.batches) /\ k \in 1..Len(b.batches)
      /\ a.batches[j].nodes = b.batches[j].nodes /\ a.batches[k].nodes = b.batches[k].nodes
  BY DEF SamePlan
<1> QED BY <1>1 DEF NodesOnce

LEMMA RowsStay ==
  ASSUME JobsOK, JobsOK', JobsGrow, RowsOK, UNCHANGED rollouts
  PROVE  PlansStay /\ RowsOK' /\ CopiesStay
<1>1. JobsTyped /\ JobsTyped' /\ Len(rollouts) \in Nat
  BY RowsTyped DEF JobsOK
<1>2. PlansStay
  BY <1>1 DEF PlansStay, SamePlan
<1>3. RowsOK'
  <2>1. \A r \in 1..Len(rollouts) : Sound(r, rollouts[r])'
    <3> SUFFICES ASSUME NEW r \in 1..Len(rollouts), NEW ro, ro = rollouts[r] PROVE Sound(r, ro)'
      OBVIOUS
    <3>1. Sound(r, ro)
      BY DEF RowsOK
    <3> QED BY <1>1, <3>1, SoundStays
  <2>2. \A r \in 1..Len(rollouts) : NodesOnce(rollouts[r])'
    BY DEF RowsOK
  <2> QED BY <2>1, <2>2 DEF RowsOK
<1>4. CopiesStay
  BY <1>1, <1>2, CopiesKept
<1> QED BY <1>2, <1>3, <1>4

\* Steps that leave the rows and the jobs alone, or mark a job only.
LEMMA StoreStays ==
  ASSUME JobsOK, JobsOK', JobsGrow, Len(jobs') = Len(jobs), RowsOK, CanaryFirst, UNCHANGED rollouts
  PROVE  RowsOK' /\ CopiesStay /\ CanaryFirst'
<1>1. JobsTyped /\ JobsTyped'
  BY DEF JobsOK
<1>2. PlansStay /\ RowsOK' /\ CopiesStay
  BY RowsStay
<1>3. \A r, n : ApplyJobs(r, n)' # {} => ApplyJobs(r, n) # {}
  BY <1>1, JobsLen, LenProperties DEF ApplyJobs, JobsOf, JobsGrow, JobsTyped
<1>4. CanaryFirst'
  BY <1>1, <1>2, <1>3, CanaryKept
<1> QED BY <1>2, <1>4

LEMMA NothingStored ==
  ASSUME JobsOK, RowsOK, CanaryFirst, UNCHANGED <<jobs, rollouts>>
  PROVE  JobsOK' /\ RowsOK' /\ CopiesStay /\ CanaryFirst'
<1>1. JobsOK' /\ JobsGrow /\ Len(jobs') = Len(jobs)
  BY JobsLen DEF JobsOK, JobsTyped, JobsGrow
<1> QED BY <1>1, StoreStays

LEMMA JobMarked ==
  ASSUME JobsOK, NEW j \in DOMAIN jobs, NEW job \in Job, jobs' = [jobs EXCEPT ![j] = job],
         job.kind = jobs[j].kind, job.node = jobs[j].node, job.rollout = jobs[j].rollout,
         jobs[j].status = "completed" => job.status = "completed", UNCHANGED rollouts
  PROVE  JobsOK' /\ JobsGrow /\ Len(jobs') = Len(jobs)
<1>1. jobs \in Seq(Job) /\ Len(jobs) \in Nat /\ j \in 1..Len(jobs) /\ DOMAIN jobs = 1..Len(jobs)
  BY JobsLen DEF JobsOK, JobsTyped
<1>2. jobs' \in Seq(Job) /\ Len(jobs') = Len(jobs)
  BY <1>1, ExceptSeq
<1>3. \A i \in 1..Len(jobs) : jobs'[i] = IF i = j THEN job ELSE jobs[i]
  BY <1>1
<1> QED BY <1>1, <1>2, <1>3 DEF JobsOK, JobsTyped, JobsGrow

\* A copy is written over its row.
LEMMA RowWritten ==
  ASSUME JobsOK, RowsOK, CanaryFirst, NEW r, NEW ro, CopyOf(r, ro),
         rollouts' = [rollouts EXCEPT ![r] = ro], UNCHANGED jobs
  PROVE  JobsOK' /\ RowsOK' /\ CopiesStay /\ CanaryFirst'
<1>1. /\ rollouts \in Seq(Snapshot) /\ Len(rollouts) \in Nat /\ r \in 1..Len(rollouts)
      /\ Sound(r, ro) /\ SamePlan(ro, rollouts[r]) /\ ro \in Snapshot /\ rollouts[r] \in Snapshot
      /\ DOMAIN rollouts = 1..Len(rollouts)
  BY RowsTyped DEF CopyOf, RowsOK, Sound, SoundWith
<1>2. rollouts' \in Seq(Snapshot) /\ Len(rollouts') = Len(rollouts)
      /\ \A s \in 1..Len(rollouts) : rollouts'[s] = IF s = r THEN ro ELSE rollouts[s]
  BY <1>1, ExceptSeq
<1>3. JobsOK' /\ JobsTyped /\ JobsTyped' /\ JobsGrow
  BY <1>2, JobsLen DEF JobsOK, JobsTyped, JobsGrow
<1>4. PlansStay
  BY <1>1, <1>2 DEF PlansStay, SamePlan
<1>5. RowsOK'
  <2>1. ASSUME NEW s \in 1..Len(rollouts), NEW row, row = rollouts'[s]
        PROVE  Sound(s, row)' /\ NodesOnce(row)
    <3>1. CASE s = r
      <4>1. row = ro /\ Sound(r, ro)'
        BY <1>1, <1>2, <1>3, <2>1, <3>1, SoundStays
      <4>2. NodesOnce(ro)
        BY <1>1, OnceByPlan DEF RowsOK
      <4> QED BY <3>1, <4>1, <4>2
    <3>2. CASE s # r
      <4>1. row = rollouts[s] /\ Sound(s, row) /\ NodesOnce(row)
        BY <1>2, <2>1, <3>2 DEF RowsOK
      <4> QED BY <1>3, <4>1, SoundStays
    <3> QED BY <3>1, <3>2
  <2>2. \A s \in 1..Len(rollouts') : Sound(s, rollouts[s])'
    BY <1>2, <2>1
  <2>3. \A s \in 1..Len(rollouts') : NodesOnce(rollouts[s])'
    BY <1>2, <2>1
  <2> QED BY <1>2, <2>2, <2>3 DEF RowsOK
<1>6. CopiesStay
  BY <1>1, <1>2, <1>3, <1>4, CopiesKept
<1>7. CanaryFirst'
  <2>1. \A s, n : ApplyJobs(s, n)' = ApplyJobs(s, n)
    BY DEF ApplyJobs, JobsOf
  <2> QED BY <1>2, <1>3, <1>4, <1>5, <2>1, CanaryKept
<1> QED BY <1>3, <1>5, <1>6, <1>7

-----------------------------------------------------------------------------
(* Every step keeps the invariant *)

LEMMA RequestChanges ==
  ASSUME HttpInv, CopiesStay, NEW h \in Handlers, NEW req, RequestOK(req)',
         http' = [http EXCEPT ![h] = req]
  PROVE  HttpInv'
<1>1. /\ http' = [g \in Handlers |-> http'[g]]
      /\ \A g \in Handlers : http'[g] = IF g = h THEN req ELSE http[g]
  BY DEF HttpInv
<1>2. ASSUME NEW g \in Handlers, NEW own, own = http'[g] PROVE RequestOK(own)'
  <2>1. CASE g = h
    <3>1. own = req
      BY <1>1, <1>2, <2>1
    <3> QED BY <3>1
  <2>2. CASE g # h
    <3>1. RequestOK(own)
      BY <1>1, <1>2, <2>2 DEF HttpInv
    <3> QED BY <3>1 DEF RequestOK, CopiesStay
  <2> QED BY <2>1, <2>2
<1>3. \A g \in Handlers : RequestOK(http[g])'
  BY <1>2
<1> QED BY <1>1, <1>3 DEF HttpInv

LEMMA CreateCheckKeeps ==
  ASSUME ControlInv, ControlConstants, NEW h \in Handlers, NEW asked \in Specs, CreateCheck(h, asked)
  PROVE  ControlInv'
<1>1. JobsOK' /\ RowsOK' /\ CopiesStay /\ CanaryFirst'
  BY NothingStored DEF ControlInv, CreateCheck, store
<1> DEFINE spec == normalizeRolloutSpec(asked)  req == [pc |-> "create", spec |-> spec]
<1>2. spec \in RolloutSpec /\ Distinct(spec.nodes)
  BY NormalizedSpec DEF ControlConstants
<1>3. http' = [http EXCEPT ![h] = req] /\ actions' = actions + 1 /\ actions < MaxActions
      /\ UNCHANGED <<world, orch>>
  BY DEF CreateCheck
<1> HIDE DEF spec
<1>4. RequestOK(req)'
  BY <1>2 DEF RequestOK
<1> HIDE DEF req
<1>5. HttpInv'
  BY <1>1, <1>3, <1>4, RequestChanges DEF ControlInv
<1>6. OrchInv'
  BY <1>1, <1>3, PassStays DEF ControlInv
<1>7. WorldTypes'
  <2>1. actions' \in 0..MaxActions
    BY <1>3 DEF ControlInv, WorldTypes, ControlConstants
  <2> QED BY <1>3, <2>1 DEF ControlInv, WorldTypes, world
<1> QED BY <1>1, <1>5, <1>6, <1>7 DEF ControlInv

LEMMA CreateRolloutKeeps ==
  ASSUME ControlInv, ControlConstants, NEW h \in Handlers, CreateRollout(h)
  PROVE  ControlInv'
<1> DEFINE spec == http[h].spec  new == NewRollout(spec)  r == Len(rollouts) + 1
<1>1. spec \in RolloutSpec /\ Distinct(spec.nodes)
  BY DEF ControlInv, HttpInv, RequestOK, None, CreateRollout
<1>2. /\ rollouts' = Append(rollouts, new) /\ Len(rollouts) < MaxRollouts
      /\ begun' \subseteq begun \cup {r} /\ http' = [http EXCEPT ![h] = None]
      /\ UNCHANGED <<jobs, config, reported, online, due, orch, actions>>
  BY DEF CreateRollout
<1> HIDE DEF spec
<1>3. Sound(r, new) /\ NodesOnce(new) /\ new \in Snapshot
  BY <1>1, NewRolloutSound DEF Sound, SoundWith
<1> HIDE DEF new
<1>4. rollouts \in Seq(Snapshot) /\ Len(rollouts) \in Nat /\ MaxRollouts \in Nat
  BY RowsTyped DEF ControlInv, RowsOK, ControlConstants
<1>5. /\ rollouts' \in Seq(Snapshot) /\ Len(rollouts') = r /\ rollouts'[r] = new
      /\ \A i \in 1..Len(rollouts) : rollouts'[i] = rollouts[i]
  BY <1>2, <1>3, <1>4, AppendProperties
<1>6. r \in Nat /\ r <= MaxRollouts /\ r \notin 1..Len(rollouts)
      /\ \A i \in 1..r : i = r \/ i \in 1..Len(rollouts)
  BY <1>2, <1>4
<1>7. JobsOK' /\ JobsTyped /\ JobsTyped' /\ JobsGrow
  <2>1. JobsTyped /\ JobsTyped' /\ JobsGrow
    BY <1>2, JobsLen DEF ControlInv, JobsOK, JobsTyped, JobsGrow
  <2>2. \A j \in 1..Len(jobs) : jobs[j].rollout <= r
    <3> SUFFICES ASSUME NEW j \in 1..Len(jobs) PROVE jobs[j].rollout <= r
      OBVIOUS
    <3>1. jobs[j].rollout <= Len(rollouts) /\ jobs[j].rollout \in 1..MaxRollouts
      BY <2>1, JobsLen DEF ControlInv, JobsOK, Job
    <3> HIDE DEF r
    <3> QED BY <1>4, <3>1 DEF r
  <2> QED BY <1>2, <1>5, <2>1, <2>2 DEF ControlInv, JobsOK
<1> HIDE DEF r
<1>8. PlansStay
  BY <1>4, <1>5, <1>6 DEF PlansStay, SamePlan, r
<1>9. RowsOK'
  <2>1. ASSUME NEW s \in 1..r, NEW row, row = rollouts'[s]
        PROVE  Sound(s, row)' /\ NodesOnce(row)
    <3>1. Sound(s, row) /\ NodesOnce(row)
      BY <1>3, <1>5, <1>6, <2>1 DEF ControlInv, RowsOK
    <3> QED BY <1>7, <3>1, SoundStays
  <2>2. (\A s \in 1..Len(rollouts') : Sound(s, rollouts[s])')
        /\ (\A s \in 1..Len(rollouts') : NodesOnce(rollouts[s])')
    BY <1>5, <2>1
  <2> QED BY <1>5, <1>6, <2>2 DEF RowsOK
<1>10. CopiesStay
  BY <1>4, <1>5, <1>6, <1>7, <1>8, CopiesKept
<1>11. CanaryFirst'
  <2>1. \A s, n : ApplyJobs(s, n)' = ApplyJobs(s, n)
    BY <1>2 DEF ApplyJobs, JobsOf
  <2>2. \A n : ApplyJobs(r, n) = {}
    <3>1. \A j \in DOMAIN jobs : jobs[j].rollout # r
      <4> SUFFICES ASSUME NEW j \in 1..Len(jobs) PROVE jobs[j].rollout # r
        BY <1>7, JobsLen
      <4>1. jobs[j].rollout <= Len(rollouts) /\ jobs[j].rollout \in 1..MaxRollouts
        BY <1>7, JobsLen DEF ControlInv, JobsOK, Job
      <4> QED BY <1>4, <4>1 DEF r
    <3> QED BY <3>1 DEF ApplyJobs, JobsOf
  <2>3. \A s \in 1..Len(rollouts') : s \notin 1..Len(rollouts) => \A n : ApplyJobs(s, n)' = {}
    BY <1>5, <1>6, <2>1, <2>2
  <2> QED BY <1>7, <1>8, <1>9, <2>1, <2>3, CanaryKept DEF ControlInv
<1>12. HttpInv'
  <2>1. RequestOK(None)'
    BY DEF RequestOK
  <2> QED BY <1>2, <1>10, <2>1, RequestChanges DEF ControlInv
<1>13. OrchInv'
  BY <1>2, <1>10, PassStays DEF ControlInv
<1>14. WorldTypes'
  BY <1>2, <1>4, <1>6 DEF ControlInv, WorldTypes, r
<1> QED BY <1>7, <1>9, <1>11, <1>12, <1>13, <1>14 DEF ControlInv

LEMMA ActionReadKeeps ==
  ASSUME ControlInv, ControlConstants, NEW h \in Handlers, NEW r \in DOMAIN rollouts,
         NEW action \in {"pause", "resume", "abort"}, ActionRead(h, r, action)
  PROVE  ControlInv'
<1>1. JobsOK' /\ RowsOK' /\ CopiesStay /\ CanaryFirst'
  BY NothingStored DEF ControlInv, ActionRead, store
<1>0. PICK ro : ro = OperatorAction(action, rollouts[r])
  OBVIOUS
<1> DEFINE req == [pc |-> "update", id |-> r, ro |-> ro]
<1>2. http' = [http EXCEPT ![h] = req] /\ actions' = actions + 1 /\ actions < MaxActions
      /\ UNCHANGED <<world, orch, jobs, rollouts>>
  BY <1>0 DEF ActionRead, GetRollout, store
<1>3. r \in 1..Len(rollouts) /\ Sound(r, rollouts[r])
  BY RowsTyped DEF ControlInv, RowsOK
<1>4. Sound(r, ro) /\ SamePlan(ro, rollouts[r])
  BY <1>0, <1>3, OperatorSound
<1>5. CopyOf(r, ro)
  BY <1>3, <1>4 DEF CopyOf
<1>6. RequestOK(req)'
  BY <1>1, <1>5 DEF RequestOK, CopiesStay
<1> HIDE DEF req
<1>7. HttpInv'
  BY <1>1, <1>2, <1>6, RequestChanges DEF ControlInv
<1>8. OrchInv'
  BY <1>1, <1>2, PassStays DEF ControlInv
<1>9. WorldTypes'
  <2>1. actions' \in 0..MaxActions
    BY <1>2 DEF ControlInv, WorldTypes, ControlConstants
  <2> QED BY <1>2, <2>1 DEF ControlInv, WorldTypes, world
<1> QED BY <1>1, <1>7, <1>8, <1>9 DEF ControlInv

LEMMA ActionWriteKeeps ==
  ASSUME ControlInv, NEW h \in Handlers, ActionWrite(h)
  PROVE  ControlInv'
<1> DEFINE r == http[h].id  ro == http[h].ro
<1>1. CopyOf(r, ro)
  BY DEF ControlInv, HttpInv, RequestOK, None, ActionWrite
<1>2. rollouts' = [rollouts EXCEPT ![r] = ro] /\ http' = [http EXCEPT ![h] = None]
      /\ UNCHANGED <<jobs, world, orch, actions>>
  BY DEF ActionWrite
<1> HIDE DEF r, ro
<1>3. JobsOK' /\ RowsOK' /\ CopiesStay /\ CanaryFirst'
  BY <1>1, <1>2, RowWritten DEF ControlInv
<1>4. HttpInv'
  <2>1. RequestOK(None)'
    BY DEF RequestOK
  <2> QED BY <1>2, <1>3, <2>1, RequestChanges DEF ControlInv
<1>5. OrchInv'
  BY <1>2, <1>3, PassStays DEF ControlInv
<1>6. WorldTypes'
  BY <1>2 DEF ControlInv, WorldTypes, world
<1> QED BY <1>3, <1>4, <1>5, <1>6 DEF ControlInv

\* The page is the newest rows, the newest first.
LEMMA PageOfRows ==
  ASSUME RowsOK, ControlConstants, NEW list, list = ListRollouts(ListLimit)
  PROVE  /\ list \in Seq(Listed)
         /\ \A i \in 1..Len(list) :
              list[i].id \in 1..Len(rollouts) /\ list[i].ro = rollouts[list[i].id]
<1> DEFINE S == {ListLimit, Len(rollouts)}  m == Min(S)
<1>1. rollouts \in Seq(Snapshot) /\ Len(rollouts) \in Nat /\ Len(rollouts) <= MaxRollouts
      /\ \A r \in 1..Len(rollouts) : rollouts[r] \in Snapshot
  BY RowsTyped DEF RowsOK
<1>2. MaxRollouts \in Nat /\ ListLimit \in Nat
  BY ControlConstants DEF ControlConstants
<1>3. m \in Nat /\ m <= Len(rollouts)
  <2>1. S \in SUBSET Nat /\ S # {} /\ Len(rollouts) \in S
    BY <1>1, <1>2
  <2> HIDE DEF S
  <2> QED BY <2>1, MinOf
<1>4. list = [i \in 1..m |-> [id |-> Len(rollouts) + 1 - i, ro |-> rollouts[Len(rollouts) + 1 - i]]]
  BY DEF ListRollouts
<1> HIDE DEF m
<1>5. ASSUME NEW i \in 1..m
      PROVE  /\ list[i] \in Listed
             /\ list[i].id \in 1..Len(rollouts) /\ list[i].ro = rollouts[list[i].id]
  <2> DEFINE r == Len(rollouts) + 1 - i
  <2>1. r \in 1..Len(rollouts) /\ r \in 1..MaxRollouts
    BY <1>1, <1>2, <1>3
  <2>2. list[i] = [id |-> r, ro |-> rollouts[r]]
    BY <1>4
  <2> HIDE DEF r
  <2> QED BY <1>1, <2>1, <2>2 DEF Listed
<1>6. list \in [1..m -> Listed]
  <2>1. DOMAIN list = 1..m /\ list = [i \in 1..m |-> list[i]]
    BY <1>4
  <2> QED BY <1>5, <2>1
<1>7. list \in Seq(Listed) /\ Len(list) = m
  BY <1>3, <1>6
<1> QED BY <1>5, <1>7

LEMMA ReconcileListKeeps ==
  ASSUME ControlInv, ControlConstants, ReconcileList
  PROVE  ControlInv'
<1>1. JobsOK' /\ RowsOK' /\ CopiesStay /\ CanaryFirst'
  BY NothingStored DEF ControlInv, ReconcileList, store
<1>2. PICK list : list = ListRollouts(ListLimit)
  OBVIOUS
<1>3. /\ list \in Seq(Listed)
      /\ \A i \in 1..Len(list) :
           list[i].id \in 1..Len(rollouts) /\ list[i].ro = rollouts[list[i].id]
  BY <1>2, PageOfRows DEF ControlInv
<1>4. orch' = [pc |-> "step", list |-> list] /\ UNCHANGED <<world, http, actions>>
  BY <1>2 DEF ReconcileList
<1>5. \A i \in 1..Len(list) : CopyOf(list[i].id, list[i].ro)
  BY <1>3 DEF ControlInv, RowsOK, CopyOf, SamePlan
<1>7. \A i \in 1..Len(list) : CopyOf(list[i].id, list[i].ro)'
  BY <1>1, <1>5 DEF CopiesStay
<1>8. OrchInv'
  BY <1>3, <1>4, <1>7 DEF OrchInv
<1>9. HttpInv'
  BY <1>1, <1>4, RequestsStay DEF ControlInv
<1>10. WorldTypes'
  BY <1>4 DEF ControlInv, WorldTypes, world
<1> QED BY <1>1, <1>8, <1>9, <1>10 DEF ControlInv

LEMMA ReconcileWriteKeeps ==
  ASSUME ControlInv, ReconcileWrite
  PROVE  ControlInv'
<1>1. orch = [pc |-> "write", list |-> orch.list, id |-> orch.id, ro |-> orch.ro]
      /\ CopyOf(orch.id, orch.ro) /\ orch.list \in Seq(Listed)
      /\ \A i \in 1..Len(orch.list) : CopyOf(orch.list[i].id, orch.list[i].ro)
  <2>1. orch.pc = "write" /\ orch # Idle
    BY DEF ReconcileWrite, Idle
  <2>2. orch # [pc |-> "step", list |-> orch.list]
    BY <2>1
  <2> QED BY <2>1, <2>2 DEF ControlInv, OrchInv
<1>2. PICK list, r, ro : list = orch.list /\ r = orch.id /\ ro = orch.ro
  OBVIOUS
<1>3. rollouts' = [rollouts EXCEPT ![r] = ro] /\ orch' = [pc |-> "step", list |-> list]
      /\ UNCHANGED <<jobs, world, http, actions>>
  BY <1>2 DEF ReconcileWrite
<1>4. JobsOK' /\ RowsOK' /\ CopiesStay /\ CanaryFirst'
  BY <1>1, <1>2, <1>3, RowWritten DEF ControlInv
<1>5. \A i \in 1..Len(list) : CopyOf(list[i].id, list[i].ro)'
  BY <1>1, <1>2, <1>4 DEF CopiesStay
<1>6. OrchInv'
  BY <1>1, <1>2, <1>3, <1>5 DEF OrchInv
<1>7. HttpInv'
  BY <1>3, <1>4, RequestsStay DEF ControlInv
<1>8. WorldTypes'
  BY <1>3 DEF ControlInv, WorldTypes, world
<1> QED BY <1>4, <1>6, <1>7, <1>8 DEF ControlInv

\* A pass ends, and a server process with all its requests.
LEMMA PassEnds ==
  ASSUME ControlInv, ControlConstants, ReconcileDone \/ ReconcileFails \/ Crash
  PROVE  ControlInv'
<1>1. UNCHANGED <<rollouts, jobs, config, reported, online, due, begun>> /\ orch' = Idle
  BY DEF ReconcileDone, ReconcileFails, Crash, store, world
<1>2. JobsOK' /\ RowsOK' /\ CopiesStay /\ CanaryFirst'
  BY <1>1, NothingStored DEF ControlInv
<1>3. OrchInv'
  BY <1>1 DEF OrchInv, Idle
<1>4. HttpInv'
  <2>1. CASE UNCHANGED http
    BY <1>2, <2>1, RequestsStay DEF ControlInv
  <2>2. CASE http' = [h \in Handlers |-> None]
    BY <2>2 DEF HttpInv, RequestOK
  <2> QED BY <2>1, <2>2 DEF ReconcileDone, ReconcileFails, Crash
<1>5. WorldTypes'
  <2>1. actions' = actions \/ (actions < MaxActions /\ actions' = actions + 1)
    BY DEF ReconcileDone, ReconcileFails, Crash
  <2>2. actions' \in 0..MaxActions
    BY <2>1 DEF ControlInv, WorldTypes, ControlConstants
  <2> QED BY <1>1, <2>2 DEF ControlInv, WorldTypes
<1> QED BY <1>2, <1>3, <1>4, <1>5 DEF ControlInv

LEMMA WorldTold ==
  ASSUME NEW r, NEW ro, NEW lost, NEW w, w = World(r, ro, lost)
  PROVE  Told(w) /\ \A n \in w.restorable : Backups(n) # {}
BY DEF World, Told, Completed, Restorable

LEMMA RollbackJobTyped ==
  ASSUME JobsTyped, NEW r \in 1..MaxRollouts, NEW n \in Nodes, Backups(n) # {}
  PROVE  RollbackJob(r, n) \in Job
<1>1. Len(jobs) \in Nat /\ Backups(n) \in SUBSET (1..Len(jobs))
      /\ \A j \in 1..Len(jobs) : jobs[j] \in Job
  BY JobsLen DEF Backups
<1> DEFINE m == Max(Backups(n))
<1>2. m \in Backups(n)
  BY <1>1, MaxOf
<1> HIDE DEF m
<1>3. jobs[m].backup.value \in Values
  BY <1>1, <1>2 DEF Job
<1> QED BY <1>3, ControlConstants DEF RollbackJob, Job, NoBackup, ControlConstants, m

HaveBackups(nodes) == \A i \in 1..Len(nodes) : Backups(nodes[i]) # {}

\* The jobs of a step, numbered as its snapshot has them.
MadeFor(r, ro, out, made) ==
  /\ made \in Seq(Job) /\ Len(made) = Len(out.apply) + Len(out.rollback)
  /\ \A i \in 1..Len(out.apply) : made[i] = ApplyJob(r, ro, out.apply[i])
  /\ \A i \in 1..Len(out.rollback) : made[Len(out.apply) + i] = RollbackJob(r, out.rollback[i])

LEMMA MadeJobs ==
  ASSUME JobsTyped, NEW r \in 1..MaxRollouts, NEW ro \in Snapshot, NEW out,
         out.apply \in Seq(Nodes), out.rollback \in Seq(Nodes),
         HaveBackups(out.rollback), NEW made, made = NewJobs(r, ro, out)
  PROVE  MadeFor(r, ro, out, made)
<1> DEFINE a == [i \in DOMAIN out.apply |-> ApplyJob(r, ro, out.apply[i])]
           b == [i \in DOMAIN out.rollback |-> RollbackJob(r, out.rollback[i])]
           la == Len(out.apply)  lb == Len(out.rollback)
<1>1. /\ la \in Nat /\ DOMAIN out.apply = 1..la /\ \A i \in 1..la : out.apply[i] \in Nodes
      /\ lb \in Nat /\ DOMAIN out.rollback = 1..lb /\ \A i \in 1..lb : out.rollback[i] \in Nodes
  BY LenProperties, ElementOfSeq
<1>2. made = a \o b
  BY DEF NewJobs
<1>3. ASSUME NEW n \in Nodes PROVE ApplyJob(r, ro, n) \in Job
  <2>1. ro.live \in BOOLEAN /\ ro.target \in Values
    BY DEF Snapshot
  <2> QED BY <2>1, ControlConstants DEF ApplyJob, Job, NoBackup, ControlConstants
<1>4. a \in Seq(Job) /\ Len(a) = la /\ \A i \in 1..la : a[i] = ApplyJob(r, ro, out.apply[i])
  <2> HIDE DEF la
  <2>1. a \in [1..la -> Job]
    BY <1>1, <1>3
  <2>2. DOMAIN a = 1..la /\ \A i \in 1..la : a[i] = ApplyJob(r, ro, out.apply[i])
    BY <1>1
  <2> HIDE DEF a
  <2> QED BY <1>1, <2>1, <2>2
<1>5. b \in Seq(Job) /\ Len(b) = lb /\ \A i \in 1..lb : b[i] = RollbackJob(r, out.rollback[i])
  <2>1. \A i \in 1..lb : RollbackJob(r, out.rollback[i]) \in Job
    BY <1>1, RollbackJobTyped DEF HaveBackups
  <2> HIDE DEF lb
  <2>2. DOMAIN b = 1..lb /\ \A i \in 1..lb : b[i] = RollbackJob(r, out.rollback[i])
    BY <1>1
  <2>3. b \in [1..lb -> Job]
    BY <1>1, <2>1
  <2> HIDE DEF b
  <2> QED BY <1>1, <2>2, <2>3
<1> HIDE DEF a, b, la, lb
<1>6. /\ made \in Seq(Job) /\ Len(made) = la + lb
      /\ \A i \in 1..la + lb : made[i] = IF i <= la THEN a[i] ELSE b[i - la]
  <2>1. /\ a \o b \in Seq(Job) /\ Len(a \o b) = Len(a) + Len(b)
        /\ \A i \in 1..Len(a) + Len(b) : (a \o b)[i] = IF i <= Len(a) THEN a[i] ELSE b[i - Len(a)]
    BY <1>4, <1>5, ConcatProperties
  <2> QED BY <1>2, <1>4, <1>5, <2>1
<1>7. ASSUME NEW i \in 1..la PROVE made[i] = ApplyJob(r, ro, out.apply[i])
  <2>1. i \in 1..la + lb /\ i <= la
    BY <1>1
  <2>2. made[i] = a[i]
    BY <1>6, <2>1
  <2> QED BY <1>4, <2>2
<1>8. ASSUME NEW i \in 1..lb PROVE made[la + i] = RollbackJob(r, out.rollback[i])
  <2>1. la + i \in 1..la + lb /\ ~(la + i <= la) /\ (la + i) - la = i
    BY <1>1
  <2>2. made[la + i] = b[i]
    BY <1>6, <2>1
  <2> QED BY <1>5, <2>2
<1>9. \A i \in 1..lb : made[la + i] = RollbackJob(r, out.rollback[i])
  BY <1>8
<1> QED BY <1>6, <1>7, <1>9 DEF la, lb, MadeFor

LEMMA JobsAdded ==
  ASSUME JobsTyped, NEW made \in Seq(Job), jobs' = jobs \o made
  PROVE  /\ JobsTyped' /\ JobsGrow /\ Len(jobs') = Len(jobs) + Len(made)
         /\ Len(jobs) \in Nat /\ Len(made) \in Nat
         /\ DOMAIN jobs' = 1..Len(jobs) + Len(made)
         /\ \A i \in 1..Len(jobs) : jobs'[i] = jobs[i]
         /\ \A i \in 1..Len(made) : jobs'[Len(jobs) + i] = made[i]
<1> DEFINE l == Len(jobs)  m == Len(made)
<1>1. l \in Nat /\ m \in Nat /\ jobs \in Seq(Job)
  BY JobsLen, LenProperties DEF JobsTyped
<1>2. /\ jobs' \in Seq(Job) /\ Len(jobs') = l + m
      /\ \A i \in 1..l + m : jobs'[i] = IF i <= l THEN jobs[i] ELSE made[i - l]
  BY <1>1, ConcatProperties
<1> HIDE DEF l, m
<1>3. \A i \in 1..l : jobs'[i] = jobs[i]
  BY <1>1, <1>2
<1>4. ASSUME NEW i \in 1..m PROVE jobs'[l + i] = made[i]
  <2>1. l + i \in 1..l + m /\ ~(l + i <= l) /\ (l + i) - l = i
    BY <1>1
  <2> QED BY <1>2, <2>1
<1>5. DOMAIN jobs' = 1..l + m
  BY <1>2, LenProperties
<1>6. JobsTyped' /\ JobsGrow
  BY <1>1, <1>2, <1>3 DEF JobsTyped, JobsGrow, l
<1> QED BY <1>1, <1>2, <1>3, <1>4, <1>5, <1>6 DEF l, m

\* What a turn of the loop did: list is what was left of the pass, rest what is left
\* after it, r and ro its first entry, made the jobs the step of it came to.
Taken(list, rest, r, ro, w, out, made) ==
  /\ orch = [pc |-> "step", list |-> list] /\ list \in Seq(Listed) /\ list # <<>>
  /\ \A i \in 1..Len(list) : CopyOf(list[i].id, list[i].ro)
  /\ rest = Tail(list) /\ r = list[1].id /\ ro = list[1].ro
  /\ CopyOf(r, ro) /\ r \in 1..MaxRollouts /\ ro \in Snapshot
  /\ Told(w) /\ (w.future <=> r \notin begun) /\ out = Step(ro, w) /\ StepOf(r, ro, w, out)
  /\ MadeFor(r, ro, out, made)
  /\ Len(jobs) + Len(made) <= MaxJobs /\ jobs' = jobs \o made
  /\ orch' = IF out.ro = ro /\ ro.state # "running" THEN [pc |-> "step", list |-> rest]
             ELSE [pc |-> "write", list |-> rest, id |-> r, ro |-> out.ro]
  /\ UNCHANGED <<rollouts, world, http, actions>>

LEMMA StepTaken ==
  ASSUME ControlInv, ControlConstants, ReconcileStep
  PROVE  \E list, rest, r, ro, w, out, made : Taken(list, rest, r, ro, w, out, made)
<1>1. PICK list : list = orch.list
  OBVIOUS
<1>2. /\ orch = [pc |-> "step", list |-> list] /\ list \in Seq(Listed) /\ list # <<>>
      /\ \A i \in 1..Len(list) : CopyOf(list[i].id, list[i].ro)
  <2>1. orch.pc = "step" /\ orch # Idle /\ list # <<>>
    BY <1>1 DEF ReconcileStep, Idle
  <2>2. orch # [pc |-> "write", list |-> orch.list, id |-> orch.id, ro |-> orch.ro]
    BY <2>1
  <2> QED BY <1>1, <2>1, <2>2 DEF ControlInv, OrchInv
<1>3. PICK lost \in SUBSET Nodes :
        LET r == Head(orch.list).id
            ro == Head(orch.list).ro
            out == Step(ro, World(r, ro, lost))
            made == NewJobs(r, ro, out)
        IN  /\ Len(jobs) + Len(made) <= MaxJobs
            /\ jobs' = jobs \o made
            /\ orch' = IF out.ro = ro /\ ro.state # "running"
                       THEN [orch EXCEPT !.list = Tail(@)]
                       ELSE [pc |-> "write", list |-> Tail(orch.list), id |-> r, ro |-> out.ro]
  BY DEF ReconcileStep
<1>4. PICK r, ro : r = list[1].id /\ ro = list[1].ro
  OBVIOUS
<1>5. PICK w : w = World(r, ro, lost)
  OBVIOUS
<1>6. PICK out : out = Step(ro, w)
  OBVIOUS
<1>7. PICK made : made = NewJobs(r, ro, out)
  OBVIOUS
<1>8. PICK rest : rest = Tail(list)
  OBVIOUS
<1>9. /\ Len(jobs) + Len(made) <= MaxJobs /\ jobs' = jobs \o made
      /\ orch' = IF out.ro = ro /\ ro.state # "running" THEN [pc |-> "step", list |-> rest]
                 ELSE [pc |-> "write", list |-> rest, id |-> r, ro |-> out.ro]
      /\ UNCHANGED <<rollouts, world, http, actions>>
  <2>1. Head(list) = list[1]
    BY <1>2, HeadTailProperties
  <2>2. UNCHANGED <<rollouts, world, http, actions>>
    BY DEF ReconcileStep
  <2>3. [orch EXCEPT !.list = Tail(@)] = [pc |-> "step", list |-> rest]
    <3>1. [[pc |-> "step", list |-> list] EXCEPT !.list = rest] = [pc |-> "step", list |-> rest]
      OBVIOUS
    <3> QED BY <1>1, <1>2, <1>8, <3>1, Zenon
  <2> QED BY <1>1, <1>3, <1>4, <1>5, <1>6, <1>7, <1>8, <2>1, <2>2, <2>3
<1>10. /\ Len(list) \in Nat /\ rest \in Seq(Listed) /\ Len(rest) = Len(list) - 1
       /\ \A i \in 1..Len(rest) : rest[i] = list[i + 1] /\ i + 1 \in 1..Len(list)
       /\ 1 \in 1..Len(list) /\ list[1] \in Listed
  BY <1>2, <1>8, HeadTailProperties, LenProperties, ElementOfSeq
<1>11. CopyOf(r, ro) /\ r \in 1..MaxRollouts /\ ro \in Snapshot
  BY <1>2, <1>4, <1>10 DEF Listed
<1>12. JobsTyped
  BY DEF ControlInv, JobsOK
<1>13. Told(w) /\ \A n \in w.restorable : Backups(n) # {}
  BY <1>5, WorldTold
<1>14. StepOf(r, ro, w, out)
  BY <1>6, <1>11, <1>12, <1>13, StepSound DEF CopyOf
<1>15. MadeFor(r, ro, out, made)
  <2>1. HaveBackups(out.rollback)
    BY <1>13, <1>14 DEF StepOf, HaveBackups
  <2>2. out.apply \in Seq(Nodes) /\ out.rollback \in Seq(Nodes)
    BY <1>14 DEF StepOf
  <2>3. NewJobs(r, ro, out) = made
    BY <1>7
  <2>4. r \in 1..MaxRollouts /\ ro \in Snapshot /\ JobsTyped
    BY <1>11, <1>12
  <2> QED BY <2>1, <2>2, <2>3, <2>4, MadeJobs
<1>15a. w.future <=> r \notin begun
  BY <1>5 DEF World
<1>16. Taken(list, rest, r, ro, w, out, made)
  BY <1>2, <1>4, <1>6, <1>8, <1>9, <1>11, <1>13, <1>14, <1>15, <1>15a DEF Taken
<1> QED BY <1>16

LEMMA ReconcileStepKeeps ==
  ASSUME ControlInv, ControlConstants, ReconcileStep
  PROVE  ControlInv'
<1>1. PICK list, rest, r, ro, w, out, made : Taken(list, rest, r, ro, w, out, made)
  BY StepTaken
<1>2. /\ orch = [pc |-> "step", list |-> list] /\ list \in Seq(Listed) /\ list # <<>>
      /\ \A i \in 1..Len(list) : CopyOf(list[i].id, list[i].ro)
  BY <1>1 DEF Taken
<1>9. /\ Len(jobs) + Len(made) <= MaxJobs /\ jobs' = jobs \o made
      /\ orch' = IF out.ro = ro /\ ro.state # "running" THEN [pc |-> "step", list |-> rest]
                 ELSE [pc |-> "write", list |-> rest, id |-> r, ro |-> out.ro]
      /\ UNCHANGED <<rollouts, world, http, actions>>
  BY <1>1 DEF Taken
<1>10. /\ Len(list) \in Nat /\ rest \in Seq(Listed) /\ Len(rest) = Len(list) - 1
       /\ \A i \in 1..Len(rest) : rest[i] = list[i + 1] /\ i + 1 \in 1..Len(list)
       /\ 1 \in 1..Len(list) /\ list[1] \in Listed
  BY <1>1, <1>2, HeadTailProperties, LenProperties, ElementOfSeq DEF Taken
<1>11. CopyOf(r, ro) /\ r \in 1..MaxRollouts /\ ro \in Snapshot
  BY <1>1 DEF Taken
<1>12. JobsTyped
  BY DEF ControlInv, JobsOK
<1>14. StepOf(r, ro, w, out)
  BY <1>1 DEF Taken
<1>15. PICK l, m, a, b :
         l = Len(jobs) /\ m = Len(made) /\ a = Len(out.apply) /\ b = Len(out.rollback)
  OBVIOUS
<1>16. /\ made \in Seq(Job) /\ a \in Nat /\ b \in Nat /\ m = a + b
       /\ \A i \in 1..a : made[i] = ApplyJob(r, ro, out.apply[i])
       /\ \A i \in 1..b : made[a + i] = RollbackJob(r, out.rollback[i])
  <2>1. made \in Seq(Job) /\ out.apply \in Seq(Nodes) /\ out.rollback \in Seq(Nodes)
    BY <1>1, <1>14 DEF StepOf, Taken, MadeFor
  <2>2. a \in Nat /\ b \in Nat
    BY <1>15, <2>1, LenProperties
  <2> QED BY <1>1, <1>15, <2>1, <2>2 DEF Taken, MadeFor
<1>27. /\ JobsTyped' /\ JobsGrow /\ Len(jobs') = l + m /\ l \in Nat /\ m \in Nat
       /\ DOMAIN jobs' = 1..l + m
       /\ \A i \in 1..l : jobs'[i] = jobs[i]
       /\ \A i \in 1..m : jobs'[l + i] = made[i]
  BY <1>9, <1>12, <1>15, <1>16, JobsAdded
<1>17. ASSUME NEW j \in 1..l + m
       PROVE  j \in 1..l \/ \E i \in 1..m : j = l + i /\ jobs'[j] = made[i]
  <2>1. CASE j <= l
    BY <1>27, <2>1
  <2>2. CASE ~(j <= l)
    <3>1. j - l \in 1..m /\ j = l + (j - l)
      BY <1>27, <2>2
    <3>2. jobs'[j] = made[j - l]
      BY <1>27, <3>1
    <3> QED BY <3>1, <3>2
  <2> QED BY <2>1, <2>2
<1>18. ASSUME NEW i \in 1..m
       PROVE  /\ made[i].rollout = r
              /\ made[i].kind = "apply" => i \in 1..a /\ made[i].node = out.apply[i]
  <2>1. CASE i <= a
    <3>1. i \in 1..a
      BY <1>16, <2>1
    <3>2. made[i] = ApplyJob(r, ro, out.apply[i])
      BY <1>16, <3>1
    <3> QED BY <3>1, <3>2 DEF ApplyJob
  <2>2. CASE ~(i <= a)
    <3>1. i - a \in 1..b
          /\ i = a + (i - a)
      BY <1>16, <2>2
    <3>2. made[i] = RollbackJob(r, out.rollback[i - a])
      BY <1>16, <3>1
    <3> QED BY <3>2 DEF RollbackJob
  <2> QED BY <2>1, <2>2
<1>19. JobsOK'
  <2>1. \A j \in 1..Len(jobs') : jobs'[j].rollout <= Len(rollouts)
    <3> SUFFICES ASSUME NEW j \in 1..Len(jobs') PROVE jobs'[j].rollout <= Len(rollouts)
      OBVIOUS
    <3>1. CASE j \in 1..l
      BY <1>15, <1>27, <3>1 DEF ControlInv, JobsOK
    <3>2. CASE \E i \in 1..m : j = l + i /\ jobs'[j] = made[i]
      <4>1. jobs'[j].rollout = r
        BY <1>18, <3>2
      <4>2. Len(rollouts) \in Nat /\ r \in 1..Len(rollouts)
        BY <1>11, RowsTyped DEF CopyOf, ControlInv
      <4> QED BY <4>1, <4>2
    <3> QED BY <1>27, <1>17, <3>1, <3>2
  <2> QED BY <1>9, <1>27, <2>1 DEF JobsOK
<1>20. PlansStay /\ RowsOK' /\ CopiesStay
  BY <1>9, <1>27, <1>19, RowsStay DEF ControlInv
<1>21. Sound(r, out.ro)'
  <2>1. SoundWith(r, out.ro, out.apply, out.rollback)
    BY <1>14 DEF StepOf
  <2>2. ASSUME NEW i \in 1..a
        PROVE  l + i \in ApplyJobs(r, out.apply[i])'
    <3>1. i \in 1..m /\ l + i \in DOMAIN jobs'
      BY <1>16, <1>27
    <3>2. jobs'[l + i] = ApplyJob(r, ro, out.apply[i])
      BY <1>16, <1>27, <3>1
    <3> QED BY <3>1, <3>2 DEF ApplyJobs, JobsOf, ApplyJob
  <2>3. ASSUME NEW i \in 1..b, NEW j, j = l + a + i
        PROVE  RollbackNumber(r, out.rollback[i], j, <<>>, <<>>)'
    <3>1. a + i \in 1..m /\ j = l + (a + i)
          /\ j \in DOMAIN jobs'
      BY <1>16, <1>27, <2>3
    <3>2. jobs'[j] = RollbackJob(r, out.rollback[i])
      BY <1>16, <1>27, <3>1
    <3> QED BY <3>1, <3>2 DEF RollbackNumber, JobsOf, RollbackJob
  <2>4. \A i \in 1..Len(out.apply) : Len(jobs) + i \in ApplyJobs(r, out.apply[i])'
    BY <1>15, <2>2
  <2>5. \A i \in 1..Len(out.rollback) : \A j :
          j = Len(jobs) + Len(out.apply) + i => RollbackNumber(r, out.rollback[i], j, <<>>, <<>>)'
    BY <1>15, <2>3
  <2> QED BY <1>12, <1>27, <2>1, <2>4, <2>5, SoundGrows
<1>22. SamePlan(out.ro, rollouts[r]) /\ r \in 1..Len(rollouts) /\ out.ro \in Snapshot
  BY <1>11, <1>14, PlanTransitive DEF StepOf, CopyOf, SoundWith
<1>23. CanaryFirst'
  <2>1. InTurn(r, rollouts[r], out.apply)
    <3>1. SamePlan(rollouts[r], out.ro) /\ rollouts[r] \in Snapshot
      BY <1>22, RowsTyped DEF SamePlan, ControlInv
    <3> QED BY <1>14, <1>22, <3>1, InTurnByPlan DEF StepOf
  <2>2. ASSUME NEW s, NEW n, NEW j \in ApplyJobs(s, n)'
        PROVE  ApplyJobs(s, n) # {} \/ (s = r /\ Turn(s, rollouts[s], n))
    <3>1. j \in 1..l + m /\ jobs'[j].rollout = s /\ jobs'[j].node = n
          /\ jobs'[j].kind = "apply"
      BY <1>27 DEF ApplyJobs, JobsOf
    <3>2. CASE j \in 1..l
      <4>1. j \in ApplyJobs(s, n)
        BY <1>12, <1>15, <1>27, <3>1, <3>2, JobsLen DEF ApplyJobs, JobsOf
      <4> QED BY <4>1
    <3>3. CASE \E i \in 1..m : j = l + i /\ jobs'[j] = made[i]
      <4>1. PICK i \in 1..m : jobs'[j] = made[i]
        BY <3>3
      <4>2. s = r /\ i \in 1..a /\ out.apply[i] = n
        BY <1>18, <3>1, <4>1
      <4>3. i \in 1..Len(out.apply)
        BY <1>15, <4>2
      <4> QED BY <2>1, <4>2, <4>3 DEF InTurn, Turn
    <3> QED BY <1>17, <3>1, <3>2, <3>3
  <2>3. \A s \in 1..Len(rollouts) : \A n :
          ApplyJobs(s, n)' # {} => ApplyJobs(s, n) # {} \/ Turn(s, rollouts[s], n)
    BY <2>2
  <2>4. \A s \in 1..Len(rollouts') : s \notin 1..Len(rollouts) => \A n : ApplyJobs(s, n)' = {}
    BY <1>9
  <2> QED BY <1>12, <1>27, <1>20, <2>3, <2>4, CanaryKept DEF ControlInv
<1>24. OrchInv'
  <2>1. \A i \in 1..Len(rest) : CopyOf(rest[i].id, rest[i].ro)'
    <3>1. \A i \in 1..Len(rest) : CopyOf(rest[i].id, rest[i].ro)
      BY <1>2, <1>10
    <3> QED BY <1>20, <3>1 DEF CopiesStay
  <2>2. CopyOf(r, out.ro)'
    BY <1>9, <1>21, <1>22 DEF CopyOf
  <2>3. CASE orch' = [pc |-> "step", list |-> rest]
    BY <1>10, <2>1, <2>3 DEF OrchInv
  <2>4. CASE orch' = [pc |-> "write", list |-> rest, id |-> r, ro |-> out.ro]
    <3>1. orch'.list = rest /\ orch'.id = r /\ orch'.ro = out.ro
      BY <2>4
    <3> QED BY <1>10, <2>1, <2>2, <2>4, <3>1 DEF OrchInv
  <2> QED BY <1>9, <2>3, <2>4
<1>25. HttpInv'
  BY <1>9, <1>20, RequestsStay DEF ControlInv
<1>26. WorldTypes'
  BY <1>9 DEF ControlInv, WorldTypes, world
<1> QED BY <1>19, <1>20, <1>23, <1>24, <1>25, <1>26 DEF ControlInv

\* A node's job changes the table and what is configured, and nothing else.
LEMMA JobStepKeeps ==
  ASSUME ControlInv, JobsOK', JobsGrow, Len(jobs') = Len(jobs), WorldTypes',
         UNCHANGED <<rollouts, orch, http>>
  PROVE  ControlInv'
<1>1. RowsOK' /\ CopiesStay /\ CanaryFirst'
  BY StoreStays DEF ControlInv
<1>2. OrchInv' /\ HttpInv'
  BY <1>1, PassStays, RequestsStay DEF ControlInv
<1> QED BY <1>1, <1>2 DEF ControlInv

\* The record of a job after one of its steps.
JobAfter(j, ran, status, backup) ==
  [jobs[j] EXCEPT !.ran = ran, !.status = status, !.backup = backup]

Marks == {"active", "completed", "failed"}
Backup == [known : BOOLEAN, value : Values]

\* What all steps of a job have in common.
JobWorked(j) ==
  \E ran \in BOOLEAN : \E status \in Marks : \E backup \in Backup :
    /\ status = jobs[j].status \/ jobs[j].status = "active"
    /\ jobs' = [jobs EXCEPT ![j] = JobAfter(j, ran, status, backup)]
    /\ config' = config \/ config' = [config EXCEPT ![jobs[j].node] = jobs[j].value]
    /\ UNCHANGED <<rollouts, reported, online, due, begun, orch, http, actions>>

LEMMA JobWorks ==
  ASSUME ControlInv, NEW j \in DOMAIN jobs, JobWorked(j)
  PROVE  ControlInv'
<1>0. PICK ran \in BOOLEAN, status \in Marks, backup \in Backup :
        /\ status = jobs[j].status \/ jobs[j].status = "active"
        /\ jobs' = [jobs EXCEPT ![j] = JobAfter(j, ran, status, backup)]
        /\ config' = config \/ config' = [config EXCEPT ![jobs[j].node] = jobs[j].value]
        /\ UNCHANGED <<rollouts, reported, online, due, begun, orch, http, actions>>
  BY DEF JobWorked
<1> DEFINE job == JobAfter(j, ran, status, backup)
<1>1. jobs[j] \in Job
  BY JobsLen DEF ControlInv, JobsOK
<1>2. job \in Job /\ job.kind = jobs[j].kind /\ job.node = jobs[j].node
      /\ job.rollout = jobs[j].rollout /\ job.status = status
  BY <1>1 DEF Job, JobAfter, Marks, Backup
<1>3. jobs[j].status = "completed" => job.status = "completed"
  BY <1>0, <1>2
<1>6. jobs' = [jobs EXCEPT ![j] = job]
  BY <1>0
<1> HIDE DEF job
<1>4. JobsOK' /\ JobsGrow /\ Len(jobs') = Len(jobs)
  BY <1>0, <1>2, <1>3, <1>6, JobMarked DEF ControlInv
<1>5. WorldTypes'
  <2>1. config' \in [Nodes -> Values]
    BY <1>0, <1>1 DEF Job, ControlInv, WorldTypes
  <2> QED BY <1>0, <2>1 DEF ControlInv, WorldTypes
<1> QED BY <1>0, <1>4, <1>5, JobStepKeeps

LEMMA JobStepsWork ==
  ASSUME ControlInv, ControlConstants, NEW j \in DOMAIN jobs,
         JobSucceeds(j) \/ JobFails(j) \/ JobUnreported(j) \/ JobExpires(j)
  PROVE  JobWorked(j)
<1>1. jobs[j] \in Job /\ config \in [Nodes -> Values]
  BY JobsLen DEF ControlInv, JobsOK, WorldTypes
<1>2. /\ jobs[j].status \in Marks /\ jobs[j].ran \in BOOLEAN /\ jobs[j].backup \in Backup
      /\ jobs[j].node \in Nodes /\ config[jobs[j].node] \in Values
  BY <1>1 DEF Job, Marks, Backup
<1>3. NoBackup \in Backup /\ [known |-> TRUE, value |-> config[jobs[j].node]] \in Backup
  BY <1>2, ControlConstants DEF NoBackup, ControlConstants, Backup
<1> USE DEF JobWorked
<1>4. CASE JobSucceeds(j)
  <2> DEFINE s == Settled(j, "completed")
             b == IF jobs[j].kind = "apply"
                  THEN [known |-> TRUE, value |-> config[jobs[j].node]] ELSE NoBackup
  <2>1. /\ jobs' = [jobs EXCEPT ![j] = JobAfter(j, TRUE, s, b)]
        /\ config' = config \/ config' = [config EXCEPT ![jobs[j].node] = jobs[j].value]
        /\ UNCHANGED <<rollouts, reported, online, due, begun, orch, http, actions>>
    BY <1>4 DEF JobSucceeds, JobAfter
  <2>2. s \in Marks /\ (s = jobs[j].status \/ jobs[j].status = "active")
    BY <1>2 DEF Settled, Marks
  <2>3. b \in Backup
    BY <1>3
  <2> HIDE DEF s, b
  <2> QED BY <2>1, <2>2, <2>3
<1>5. CASE JobFails(j)
  <2>1. PICK backup \in BOOLEAN, stuck \in BOOLEAN :
          /\ jobs' = [jobs EXCEPT ![j].ran = TRUE, ![j].status = Settled(j, "failed"),
               ![j].backup = IF jobs[j].kind = "apply" /\ backup
                             THEN [known |-> TRUE, value |-> config[jobs[j].node]] ELSE NoBackup]
          /\ config' = IF stuck THEN [config EXCEPT ![jobs[j].node] = jobs[j].value] ELSE config
          /\ UNCHANGED <<rollouts, reported, online, due, begun, orch, http, actions>>
    BY <1>5 DEF JobFails
  <2> DEFINE s == Settled(j, "failed")
             b == IF jobs[j].kind = "apply" /\ backup
                  THEN [known |-> TRUE, value |-> config[jobs[j].node]] ELSE NoBackup
  <2>2. /\ jobs' = [jobs EXCEPT ![j] = JobAfter(j, TRUE, s, b)]
        /\ config' = config \/ config' = [config EXCEPT ![jobs[j].node] = jobs[j].value]
    BY <2>1 DEF JobAfter
  <2>3. s \in Marks /\ (s = jobs[j].status \/ jobs[j].status = "active")
    BY <1>2 DEF Settled, Marks
  <2>4. b \in Backup
    BY <1>3
  <2> HIDE DEF s, b
  <2> QED BY <2>1, <2>2, <2>3, <2>4
<1>6. CASE JobUnreported(j)
  <2>1. /\ jobs' = [jobs EXCEPT ![j].ran = TRUE]
        /\ config' = config \/ config' = [config EXCEPT ![jobs[j].node] = jobs[j].value]
        /\ UNCHANGED <<rollouts, reported, online, due, begun, orch, http, actions>>
    BY <1>6 DEF JobUnreported
  <2>2. [jobs[j] EXCEPT !.ran = TRUE] = JobAfter(j, TRUE, jobs[j].status, jobs[j].backup)
    BY <1>1 DEF Job, JobAfter
  <2>3. jobs' = [jobs EXCEPT ![j] = JobAfter(j, TRUE, jobs[j].status, jobs[j].backup)]
    BY <2>1, <2>2
  <2> QED BY <1>2, <2>1, <2>3
<1>7. CASE JobExpires(j)
  <2>1. /\ jobs[j].status = "active" /\ jobs' = [jobs EXCEPT ![j].status = "failed"]
        /\ config' = config
        /\ UNCHANGED <<rollouts, reported, online, due, begun, orch, http, actions>>
    BY <1>7 DEF JobExpires, world
  <2>2. [jobs[j] EXCEPT !.status = "failed"] = JobAfter(j, jobs[j].ran, "failed", jobs[j].backup)
    BY <1>1 DEF Job, JobAfter
  <2>3. jobs' = [jobs EXCEPT ![j] = JobAfter(j, jobs[j].ran, "failed", jobs[j].backup)]
    BY <2>1, <2>2
  <2>4. "failed" \in Marks
    BY DEF Marks
  <2> QED BY <1>2, <2>1, <2>3, <2>4
<1> QED BY <1>4, <1>5, <1>6, <1>7

LEMMA JobStepsKeep ==
  ASSUME ControlInv, ControlConstants, NEW j \in DOMAIN jobs,
         JobSucceeds(j) \/ JobFails(j) \/ JobUnreported(j) \/ JobExpires(j)
  PROVE  ControlInv'
BY JobStepsWork, JobWorks

LEMMA WorldStepsKeep ==
  ASSUME ControlInv, ControlConstants,
         \/ \E j \in DOMAIN jobs : DeadlinePasses(j)
         \/ \E r \in DOMAIN rollouts : StartArrives(r)
         \/ \E n \in Nodes : Heartbeat(n) \/ GoesStale(n)
         \/ UNCHANGED vars
  PROVE  ControlInv'
<1>1. UNCHANGED <<rollouts, jobs, orch, http>>
  BY DEF DeadlinePasses, StartArrives, Heartbeat, GoesStale, store, vars
<1>2. JobsOK' /\ JobsGrow /\ Len(jobs') = Len(jobs)
  BY <1>1, JobsLen DEF ControlInv, JobsOK, JobsTyped, JobsGrow
<1>3. MaxJobs \in Nat /\ MaxRollouts \in Nat
  BY ControlConstants DEF ControlConstants
<1>4. CASE \E j \in DOMAIN jobs : DeadlinePasses(j)
  <2>1. PICK j \in DOMAIN jobs : DeadlinePasses(j)
    BY <1>4
  <2>2. j \in JobIDs
    BY <1>3, JobsLen DEF ControlInv, JobsOK, JobIDs
  <2>3. WorldTypes'
    BY <2>1, <2>2 DEF DeadlinePasses, ControlInv, WorldTypes
  <2> QED BY <1>1, <1>2, <2>3, JobStepKeeps
<1>5. CASE \E r \in DOMAIN rollouts : StartArrives(r)
  <2>1. PICK r \in DOMAIN rollouts : StartArrives(r)
    BY <1>5
  <2>2. r \in 1..MaxRollouts
    <3>1. r \in 1..Len(rollouts) /\ Len(rollouts) \in Nat /\ Len(rollouts) <= MaxRollouts
      BY RowsTyped DEF ControlInv, RowsOK
    <3> QED BY <1>3, <3>1
  <2>3. WorldTypes'
    BY <2>1, <2>2 DEF StartArrives, ControlInv, WorldTypes
  <2> QED BY <1>1, <1>2, <2>3, JobStepKeeps
<1>6. CASE \E n \in Nodes : Heartbeat(n) \/ GoesStale(n)
  <2>1. PICK n \in Nodes : Heartbeat(n) \/ GoesStale(n)
    BY <1>6
  <2>2. WorldTypes'
    BY <2>1 DEF Heartbeat, GoesStale, ControlInv, WorldTypes
  <2> QED BY <1>1, <1>2, <2>2, JobStepKeeps
<1>7. CASE UNCHANGED vars
  <2>1. WorldTypes'
    BY <1>7 DEF vars, ControlInv, WorldTypes
  <2> QED BY <1>1, <1>2, <2>1, JobStepKeeps
<1> QED BY <1>4, <1>5, <1>6, <1>7

LEMMA ControlInit ==
  ASSUME ControlConstants, Init
  PROVE  ControlInv
<1>1. <<>> \in Seq(Job) /\ <<>> \in Seq(Snapshot) /\ Len(<<>>) = 0 /\ 1..Len(<<>>) = {}
      /\ DOMAIN <<>> = {}
  BY EmptySeq
<1>2. MaxJobs \in Nat /\ MaxRollouts \in Nat /\ MaxActions \in Nat /\ InitialValue \in Values
  BY ControlConstants DEF ControlConstants
<1>3. JobsOK
  BY <1>1, <1>2 DEF Init, JobsOK, JobsTyped
<1>4. RowsOK
  BY <1>1, <1>2 DEF Init, RowsOK
<1>5. HttpInv /\ OrchInv
  BY DEF Init, HttpInv, RequestOK, OrchInv
<1>6. WorldTypes
  BY <1>2 DEF Init, WorldTypes
<1>7. CanaryFirst
  BY <1>1 DEF Init, CanaryFirst
<1> QED BY <1>3, <1>4, <1>5, <1>6, <1>7 DEF ControlInv

\* What is left of the invariant is kept by every step, of whatever process.
LEMMA ControlStep ==
  ASSUME ControlConstants, ControlInv, [Next]_vars
  PROVE  ControlInv'
<1>1. ASSUME NEW h \in Handlers, NEW asked \in Specs, CreateCheck(h, asked) PROVE ControlInv'
  BY <1>1, CreateCheckKeeps
<1>2. ASSUME NEW h \in Handlers, CreateRollout(h) PROVE ControlInv'
  BY <1>2, CreateRolloutKeeps
<1>3. ASSUME NEW h \in Handlers, NEW r \in DOMAIN rollouts, NEW action \in {"pause", "resume", "abort"},
             ActionRead(h, r, action)
      PROVE  ControlInv'
  BY <1>3, ActionReadKeeps
<1>4. ASSUME NEW h \in Handlers, ActionWrite(h) PROVE ControlInv'
  BY <1>4, ActionWriteKeeps
<1>5. CASE ReconcileList
  BY <1>5, ReconcileListKeeps
<1>6. CASE ReconcileStep
  BY <1>6, ReconcileStepKeeps
<1>7. CASE ReconcileWrite
  BY <1>7, ReconcileWriteKeeps
<1>8. CASE ReconcileDone \/ ReconcileFails \/ Crash
  BY <1>8, PassEnds
<1>9. ASSUME NEW j \in DOMAIN jobs, JobSucceeds(j) \/ JobFails(j) \/ JobUnreported(j) \/ JobExpires(j)
      PROVE  ControlInv'
  BY <1>9, JobStepsKeep
<1>10. CASE \/ \E j \in DOMAIN jobs : DeadlinePasses(j)
            \/ \E r \in DOMAIN rollouts : StartArrives(r)
            \/ \E n \in Nodes : Heartbeat(n) \/ GoesStale(n)
            \/ UNCHANGED vars
  BY <1>10, WorldStepsKeep
<1>11. CASE Requests
  BY <1>1, <1>2, <1>3, <1>4, <1>11 DEF Requests
<1>12. CASE Reconcile
  BY <1>5, <1>6, <1>7, <1>8, <1>12 DEF Reconcile
<1>13. CASE Environment
  BY <1>9, <1>10, <1>13 DEF Environment
<1> QED BY <1>8, <1>10, <1>11, <1>12, <1>13 DEF Next

THEOREM ControlInvariant == Spec => []ControlInv
<1>1. Init => ControlInv
  BY ControlInit, ControlConstants
<1>2. ControlInv /\ [Next]_vars => ControlInv'
  BY ControlStep, ControlConstants
<1> QED BY <1>1, <1>2, PTL DEF Spec

-----------------------------------------------------------------------------
(* What it is for *)

\* The canary goes first, whoever writes rollouts back in whatever order.
THEOREM CanaryGoesFirst == Spec => []CanaryFirst
<1>1. ControlInv => CanaryFirst
  BY DEF ControlInv
<1> QED BY <1>1, ControlInvariant, PTL

\* The numbers a sound snapshot shows are those of jobs in the table.
LEMMA SnapshotIsRollout ==
  ASSUME JobsOK, ControlConstants, NEW r, NEW ro, Sound(r, ro)
  PROVE  ro \in Rollout
<1>1. ro \in Snapshot /\ \A n \in Nodes : TrueProgress(r, n, ro.prog[n], <<>>, <<>>)
  BY DEF Sound, SoundWith
<1>2. JobsTyped /\ Len(jobs) \in Nat /\ DOMAIN jobs = 1..Len(jobs) /\ Len(jobs) <= MaxJobs
      /\ MaxJobs \in Nat /\ 1..Len(<<>>) = {}
  BY JobsLen, EmptySeq DEF JobsOK, ControlConstants
<1>3. ASSUME NEW n \in Nodes
      PROVE  ro.prog[n] \in [state : NodeStates, job : 0..MaxJobs, rollback : 0..MaxJobs]
  <2>1. ro.prog[n] \in Progress /\ TrueProgress(r, n, ro.prog[n], <<>>, <<>>)
    BY <1>1 DEF Snapshot
  <2>2. ro.prog[n].job # 0 => ro.prog[n].job \in 1..Len(jobs)
    BY <1>2, <2>1 DEF TrueProgress, ApplyNumber, ApplyJobs, JobsOf
  <2>3. ro.prog[n].rollback # 0 => ro.prog[n].rollback \in 1..Len(jobs)
    BY <1>2, <2>1 DEF TrueProgress, RollbackNumber, JobsOf
  <2>4. ro.prog[n].job \in 0..MaxJobs /\ ro.prog[n].rollback \in 0..MaxJobs
    BY <1>2, <2>1, <2>2, <2>3 DEF Progress
  <2> QED BY <2>1, <2>4 DEF Progress
<1>4. ro.prog \in [Nodes -> [state : NodeStates, job : 0..MaxJobs, rollback : 0..MaxJobs]]
  BY <1>1, <1>3 DEF Snapshot
<1>5. ro.batches \in Seq([nodes : Seq(Nodes), state : BatchStates])
  BY <1>1 DEF Snapshot, Batch
<1> QED BY <1>1, <1>4, <1>5 DEF Snapshot, Rollout

LEMMA ControlTypes ==
  ASSUME ControlInv, ControlConstants
  PROVE  TypeOK
<1>1. rollouts \in Seq(Rollout)
  <2>1. rollouts \in Seq(Snapshot) /\ Len(rollouts) \in Nat /\ DOMAIN rollouts = 1..Len(rollouts)
    BY RowsTyped DEF ControlInv, RowsOK
  <2>2. \A r \in 1..Len(rollouts) : rollouts[r] \in Rollout
    BY SnapshotIsRollout DEF ControlInv, RowsOK
  <2>3. rollouts = [r \in 1..Len(rollouts) |-> rollouts[r]]
    BY <2>1
  <2>4. rollouts \in [1..Len(rollouts) -> Rollout]
    BY <2>2, <2>3
  <2> QED BY <2>1, <2>4
<1>2. orch.pc \in {"idle", "step", "write"}
  BY DEF ControlInv, OrchInv, Idle
<1>3. \A h \in Handlers : http[h].pc \in {"none", "create", "update"}
  BY DEF ControlInv, HttpInv, RequestOK, None
<1> QED BY <1>1, <1>2, <1>3 DEF ControlInv, WorldTypes, JobsOK, JobsTyped, RowsOK, TypeOK

LEMMA SoundIsReal ==
  ASSUME JobsTyped, NEW r, NEW ro, Sound(r, ro)
  PROVE  /\ \A n \in Nodes :
              LET p == ro.prog[n]
              IN  /\ p.job # 0 => p.job \in ApplyJobs(r, n)
                  /\ p.state = "succeeded" => jobs[p.job].status = "completed"
                  /\ p.rollback # 0 => /\ jobs[p.rollback].kind = "rollback"
                                       /\ jobs[p.rollback].rollout = r
                                       /\ jobs[p.rollback].node = n
         /\ ro.state = "completed" => \A n \in TargetNodes(ro) : Applied(r, n)
<1>1. ro \in Snapshot /\ Batches(ro) /\ \A n \in Nodes : TrueProgress(r, n, ro.prog[n], <<>>, <<>>)
  BY DEF Sound, SoundWith
<1>2. 1..Len(<<>>) = {}
  BY EmptySeq
<1>3. ASSUME NEW n \in Nodes
      PROVE  LET p == ro.prog[n]
             IN  /\ p.job # 0 => p.job \in ApplyJobs(r, n)
                 /\ p.state = "succeeded" => jobs[p.job].status = "completed"
                 /\ p.rollback # 0 => /\ jobs[p.rollback].kind = "rollback"
                                      /\ jobs[p.rollback].rollout = r
                                      /\ jobs[p.rollback].node = n
  <2> DEFINE p == ro.prog[n]
  <2>1. TrueProgress(r, n, p, <<>>, <<>>)
    BY <1>1
  <2> HIDE DEF p
  <2>2. p.job # 0 => p.job \in ApplyJobs(r, n)
    BY <1>2, <2>1 DEF TrueProgress, ApplyNumber
  <2>3. p.state = "succeeded" => jobs[p.job].status = "completed"
    BY <2>1 DEF TrueProgress, Completed
  <2>4. p.rollback # 0 => /\ jobs[p.rollback].kind = "rollback"
                          /\ jobs[p.rollback].rollout = r
                          /\ jobs[p.rollback].node = n
    BY <1>2, <2>1 DEF TrueProgress, RollbackNumber, JobsOf
  <2> QED BY <2>2, <2>3, <2>4 DEF p
<1>4. ASSUME ro.state = "completed", NEW n \in TargetNodes(ro)
      PROVE  Applied(r, n)
  <2>1. PICK k \in 1..Len(ro.batches) : n \in Members(ro, k)
    BY <1>1, BatchesTyped DEF TargetNodes, Members
  <2>2. ro.prog[n].state = "succeeded" /\ n \in Nodes
    BY <1>1, <1>4, <2>1, BatchesTyped DEF Batches
  <2>3. ro.prog[n] \in Progress
    BY <1>1, <2>2 DEF Snapshot
  <2> QED BY <1>1, <2>2, <2>3, SucceededApplied
<1> QED BY <1>3, <1>4

\* What rows show is true of their jobs, even when it was written from a stale snapshot.
THEOREM RowsAreReal == Spec => []ProgressIsReal
<1>1. ASSUME ControlInv PROVE ProgressIsReal
  <2>1. TypeOK
    BY <1>1, ControlTypes, ControlConstants
  <2>2. JobsTyped /\ DOMAIN rollouts = 1..Len(rollouts)
    BY <1>1, RowsTyped DEF ControlInv, JobsOK
  <2>3. ASSUME NEW r \in DOMAIN rollouts
        PROVE  /\ \A n \in Nodes :
                    LET p == rollouts[r].prog[n]
                    IN  /\ p.job # 0 => p.job \in ApplyJobs(r, n)
                        /\ p.state = "succeeded" => jobs[p.job].status = "completed"
                        /\ p.rollback # 0 => /\ jobs[p.rollback].kind = "rollback"
                                             /\ jobs[p.rollback].rollout = r
                                             /\ jobs[p.rollback].node = n
               /\ rollouts[r].state = "completed" => \A n \in TargetNodes(rollouts[r]) : Applied(r, n)
    <3>1. Sound(r, rollouts[r])
      BY <1>1, <2>2 DEF ControlInv, RowsOK
    <3> QED BY <2>2, <3>1, SoundIsReal
  <2> QED BY <2>1, <2>3 DEF ProgressIsReal
<1> QED BY <1>1, ControlInvariant, PTL

-----------------------------------------------------------------------------
(* What a step does to the progress of a node *)

\* Only what succeeded is rolled back.
Tidy(p) == p.rollback # 0 => p.state = "succeeded"

\* A rollback that is shown stays so, and a new job has a new number.
Follows(p, q) ==
  /\ Tidy(p) => Tidy(q) /\ (p.rollback # 0 => q.rollback # 0)
  /\ q.job = p.job \/ ~(q.job \in 1..Len(jobs))

FollowsAll(a, b) == \A n \in Nodes : Follows(a.prog[n], b.prog[n])

\* A part of a step, which rolls back nodes that succeeded and show no rollback yet.
FollowedBy(ro, out) ==
  /\ FollowsAll(ro, out.ro)
  /\ \A i \in 1..Len(out.rollback) :
       /\ Tidy(ro.prog[out.rollback[i]]) => ro.prog[out.rollback[i]].rollback = 0
       /\ out.ro.prog[out.rollback[i]].state = "succeeded"

LEMMA FollowsSame ==
  ASSUME NEW a, NEW b, a.prog = b.prog
  PROVE  FollowsAll(a, b)
BY DEF FollowsAll, Follows

LEMMA NothingUndone ==
  ASSUME NEW ro, NEW out, FollowsAll(ro, out.ro), out.rollback = <<>>
  PROVE  FollowedBy(ro, out)
<1>1. 1..Len(<<>>) = {}
  BY EmptySeq
<1> QED BY <1>1 DEF FollowedBy

LEMMA FollowsOn ==
  ASSUME NEW ro, NEW mid, FollowsAll(ro, mid), NEW out, out.rollback \in Seq(Nodes),
         FollowedBy(mid, out)
  PROVE  FollowedBy(ro, out)
<1>1. ASSUME NEW n \in Nodes, NEW p, NEW q, NEW s, p = ro.prog[n], q = mid.prog[n], s = out.ro.prog[n]
      PROVE  Follows(p, s)
  <2>1. Follows(p, q) /\ Follows(q, s)
    BY <1>1 DEF FollowsAll, FollowedBy
  <2> QED BY <2>1 DEF Follows
<1>2. FollowsAll(ro, out.ro)
  BY <1>1 DEF FollowsAll
<1>3. ASSUME NEW i \in 1..Len(out.rollback), NEW n, n = out.rollback[i], Tidy(ro.prog[n])
      PROVE  ro.prog[n].rollback = 0
  <2>1. n \in Nodes
    BY <1>3, ElementOfSeq
  <2>2. Follows(ro.prog[n], mid.prog[n])
    BY <2>1 DEF FollowsAll
  <2>3. Tidy(mid.prog[n]) => mid.prog[n].rollback = 0
    BY <1>3 DEF FollowedBy
  <2> QED BY <1>3, <2>2, <2>3 DEF Follows
<1>4. \A i \in 1..Len(out.rollback) :
        /\ Tidy(ro.prog[out.rollback[i]]) => ro.prog[out.rollback[i]].rollback = 0
        /\ out.ro.prog[out.rollback[i]].state = "succeeded"
  BY <1>3 DEF FollowedBy
<1> QED BY <1>2, <1>4 DEF FollowedBy

LEMMA FirstBatchProgress ==
  ASSUME NEW ro \in Snapshot, NEW from, NEW to \in BatchStates, NEW next, next = FirstBatchTo(ro, from, to)
  PROVE  next.prog = ro.prog /\ next.state = ro.state
<1> DEFINE ks == BatchIndices(ro, from)  k == Min(ks)
<1>1. CASE ks = {}
  BY <1>1 DEF FirstBatchTo
<1>2. CASE ks # {}
  <2>1. k \in 1..Len(ro.batches)
    BY <1>2, OpenBatches
  <2>2. next = [ro EXCEPT !.batches[k].state = to]
    BY <1>2 DEF FirstBatchTo
  <2> HIDE DEF k
  <2> QED BY <2>1, <2>2, BatchSet
<1> QED BY <1>1, <1>2

\* Who has been rolled back is left out.
LEMMA PauseFollows ==
  ASSUME JobsTyped, NEW ro \in Snapshot, NEW sent \in Seq(Nodes),
         NEW k \in 1..Len(ro.batches), NEW n \in Nodes, NEW w, Told(w),
         NEW out, out = pauseBatchFailure(ro, k, n, sent, w)
  PROVE  FollowedBy(ro, out) /\ out.rollback \in Seq(Nodes)
<1> DEFINE wanted == {m \in NodesIn(ro, "succeeded") : ro.prog[m].rollback = 0}
           back == ToRollBack(ro, k)
           undo == Among(back, w.restorable)
           prog == [m \in Nodes |->
                      IF m \in ToSet(undo)
                      THEN [ro.prog[m] EXCEPT !.rollback = w.next + Len(sent) + PositionIn(undo, m)]
                      ELSE ro.prog[m]]
           mid == [[ro EXCEPT !.prog = prog] EXCEPT !.state = "paused", !.failing = {n}]
           last == FirstBatchTo(mid, {"running"}, "paused")
<1>1. ro.batches[k].nodes \in Seq(Nodes) /\ <<>> \in Seq(Nodes) /\ 1..Len(<<>>) = {}
  BY BatchesTyped, EmptySeq
<1>2. back \in Seq(Nodes) /\ \A i \in 1..Len(back) : back[i] \in wanted
  <2>1. CASE back = <<>>
    BY <1>1, <2>1
  <2>2. CASE back = Among(ro.batches[k].nodes, wanted)
    <3> HIDE DEF wanted, back
    <3> QED BY <1>1, <2>2, AmongProperties
  <2> QED BY <2>1, <2>2 DEF ToRollBack
<1> HIDE DEF back
<1>3. undo \in Seq(Nodes) /\ \A i \in 1..Len(undo) : undo[i] \in wanted
  <2> HIDE DEF wanted
  <2>1. undo \in Seq(Nodes) /\ \A i \in 1..Len(undo) : \E j \in 1..Len(back) : back[j] = undo[i]
    BY <1>2, AmongProperties
  <2> QED BY <1>2, <2>1
<1>4. out = [ro |-> last, apply |-> sent, rollback |-> undo]
  BY DEF pauseBatchFailure, pauseRollout, back
<1> HIDE DEF undo
<1>5. Len(undo) \in Nat /\ DOMAIN undo = 1..Len(undo) /\ Len(jobs) \in Nat /\ Len(sent) \in Nat
      /\ w.next = Len(jobs)
  BY <1>3, LenProperties, JobsLen DEF Told
<1>6. ASSUME NEW m \in ToSet(undo)
      PROVE  PositionIn(undo, m) \in 1..Len(undo) /\ undo[PositionIn(undo, m)] = m
  BY <1>5 DEF ToSet, PositionIn
<1>7. ASSUME NEW m \in Nodes
      PROVE  /\ prog[m] \in Progress /\ Follows(ro.prog[m], prog[m])
             /\ m \in ToSet(undo) => ro.prog[m].rollback = 0 /\ prog[m].state = "succeeded"
  <2>1. ro.prog[m] \in Progress
    BY DEF Snapshot
  <2>2. CASE m \in ToSet(undo)
    <3> DEFINE p == PositionIn(undo, m)  number == w.next + Len(sent) + p
    <3>1. prog[m] = [ro.prog[m] EXCEPT !.rollback = number]
      BY <2>2
    <3>2. p \in 1..Len(undo) /\ undo[p] = m
      BY <1>6, <2>2
    <3> HIDE DEF p
    <3>3. number \in Nat /\ number # 0
      BY <1>5, <3>2
    <3> HIDE DEF number, prog
    <3>4. ro.prog[m].state = "succeeded" /\ ro.prog[m].rollback = 0
      BY <1>3, <3>2 DEF NodesIn
    <3>5. prog[m] \in Progress /\ prog[m].state = "succeeded" /\ prog[m].job = ro.prog[m].job
          /\ prog[m].rollback = number
      BY <2>1, <3>1, <3>3, <3>4 DEF Progress
    <3> QED BY <3>3, <3>4, <3>5 DEF Follows, Tidy
  <2>3. CASE m \notin ToSet(undo)
    <3>1. prog[m] = ro.prog[m]
      BY <2>3
    <3> HIDE DEF prog
    <3> QED BY <2>1, <2>3, <3>1 DEF Follows
  <2> QED BY <2>2, <2>3
<1>8. mid \in Snapshot /\ mid.prog = prog
  <2>1. prog \in [Nodes -> Progress]
    BY <1>7
  <2> HIDE DEF prog
  <2> QED BY <2>1 DEF Snapshot, RolloutStates
<1> HIDE DEF prog, mid
<1>9. last.prog = prog
  BY <1>8, FirstBatchProgress DEF BatchStates
<1> HIDE DEF last
<1>10. out.ro.prog = prog /\ out.rollback = undo
  BY <1>4, <1>9
<1>11. FollowsAll(ro, out.ro)
  BY <1>7, <1>10 DEF FollowsAll
<1>12. ASSUME NEW i \in 1..Len(undo), NEW m, m = undo[i]
       PROVE  ro.prog[m].rollback = 0 /\ prog[m].state = "succeeded"
  <2>1. m \in Nodes /\ m \in ToSet(undo)
    BY <1>3, <1>5, <1>12, ElementOfSeq DEF ToSet
  <2> QED BY <1>7, <2>1
<1> QED BY <1>3, <1>10, <1>11, <1>12 DEF FollowedBy

\* What a loop over nodes that have not succeeded may do to one of them.
Untold(p, q) ==
  \/ q = p
  \/ /\ p.state # "succeeded" /\ q.rollback = p.rollback
     /\ q.job = p.job \/ ~(q.job \in 1..Len(jobs))

LEMMA LoopFollows ==
  ASSUME NEW ro \in Snapshot, NEW prog \in [Nodes -> Progress],
         \A n \in Nodes : Untold(ro.prog[n], prog[n]),
         NEW next, next = [ro EXCEPT !.prog = prog]
  PROVE  next \in Snapshot /\ FollowsAll(ro, next) /\ next.batches = ro.batches
<1>1. next \in Snapshot /\ next.prog = prog /\ next.batches = ro.batches
  BY DEF Snapshot
<1>2. ASSUME NEW n \in Nodes, NEW p, NEW q, p = ro.prog[n], q = prog[n] PROVE Follows(p, q)
  <2>1. Untold(p, q)
    BY <1>2
  <2> QED BY <2>1 DEF Untold, Follows, Tidy
<1> QED BY <1>1, <1>2 DEF FollowsAll

LEMMA DispatchFollows ==
  ASSUME JobsTyped, NEW ro \in Snapshot, NEW sent \in Seq(Nodes),
         NEW k \in 1..Len(ro.batches), NEW w, Told(w), NEW out, out = dispatchPending(ro, k, sent, w)
  PROVE  FollowedBy(ro, out) /\ out.rollback \in Seq(Nodes)
<1> DEFINE todo == Among(ro.batches[k].nodes, NodesIn(ro, "pending"))
           bad == {i \in DOMAIN todo : todo[i] \notin w.dispatchable}
           made == IF bad = {} THEN todo ELSE SubSeq(todo, 1, Min(bad) - 1)
           all == sent \o made
           prog == [n \in Nodes |->
                      IF n \in ToSet(made)
                      THEN [ro.prog[n] EXCEPT !.state = "dispatched",
                                              !.job = w.next + Len(sent) + PositionIn(made, n)]
                      ELSE ro.prog[n]]
           next == [ro EXCEPT !.prog = prog]
<1>1. out = IF bad = {} THEN [ro |-> next, apply |-> all, rollback |-> <<>>]
            ELSE pauseBatchFailure(next, k, todo[Min(bad)], all, w)
  BY DEF dispatchPending, Outcome
<1>2. /\ bad # {} => todo[Min(bad)] \in Nodes
      /\ made \in Seq(Nodes) /\ Len(made) \in Nat
      /\ \A i \in 1..Len(made) : made[i] \in NodesIn(ro, "pending")
  <2>1. bad \subseteq DOMAIN todo
    OBVIOUS
  <2>2. /\ todo \in Seq(Nodes) /\ DOMAIN todo = 1..Len(todo) /\ Len(todo) \in Nat
        /\ \A i \in 1..Len(todo) :
             todo[i] \in NodesIn(ro, "pending") /\ todo[i] \in Members(ro, k) /\ todo[i] \in Nodes
        /\ bad # {} =>
              /\ Min(bad) \in bad
              /\ \A d \in {0, 1} :
                   LET part == SubSeq(todo, 1, Min(bad) - d)
                   IN  /\ part \in Seq(Nodes) /\ Len(part) = Min(bad) - d /\ Len(part) \in Nat
                       /\ \A i \in 1..Len(part) : part[i] = todo[i] /\ i \in 1..Len(todo)
    <3> HIDE DEF bad
    <3> QED BY <2>1, LoopNodes
  <2> HIDE DEF bad, todo
  <2>3. CASE bad = {}
    BY <2>2, <2>3
  <2>4. CASE bad # {}
    <3>1. made = SubSeq(todo, 1, Min(bad) - 1)
      BY <2>4
    <3>2. Min(bad) \in 1..Len(todo)
      BY <2>1, <2>2, <2>4
    <3> QED BY <2>2, <2>4, <3>1, <3>2
  <2> QED BY <2>3, <2>4
<1> HIDE DEF made, bad, todo
<1>3. Len(jobs) \in Nat /\ Len(sent) \in Nat /\ w.next = Len(jobs) /\ DOMAIN made = 1..Len(made)
  BY <1>2, LenProperties, JobsLen DEF Told
<1>4. all \in Seq(Nodes)
  BY <1>2, ConcatProperties
<1> HIDE DEF all
<1>5. ASSUME NEW n \in Nodes
      PROVE  /\ prog[n] \in Progress
             /\ Untold(ro.prog[n], prog[n])
  <2>1. ro.prog[n] \in Progress
    BY DEF Snapshot
  <2>2. CASE n \in ToSet(made)
    <3> DEFINE p == PositionIn(made, n)  number == w.next + Len(sent) + p
    <3>1. p \in 1..Len(made) /\ made[p] = n
      BY <1>3, <2>2 DEF ToSet, PositionIn
    <3>2. prog[n] = [ro.prog[n] EXCEPT !.state = "dispatched", !.job = number]
      BY <2>2
    <3> HIDE DEF p
    <3>3. number \in Nat
      BY <1>2, <1>3, <3>1
    <3>3a. ~(number \in 1..Len(jobs))
      BY <1>2, <1>3, <3>1
    <3> HIDE DEF number, prog
    <3>4. ro.prog[n].state = "pending"
      BY <1>2, <3>1 DEF NodesIn
    <3>5. /\ prog[n] \in Progress /\ prog[n].rollback = ro.prog[n].rollback
          /\ prog[n].job = number
      BY <2>1, <3>2, <3>3 DEF Progress, NodeStates
    <3> QED BY <3>3a, <3>4, <3>5 DEF Untold
  <2>3. CASE n \notin ToSet(made)
    <3>1. prog[n] = ro.prog[n]
      BY <2>3
    <3> HIDE DEF prog
    <3> QED BY <2>1, <3>1 DEF Untold
  <2> QED BY <2>2, <2>3
<1>6. prog \in [Nodes -> Progress]
  BY <1>5
<1>7. next \in Snapshot /\ FollowsAll(ro, next) /\ next.batches = ro.batches
  <2>1. \A n \in Nodes : Untold(ro.prog[n], prog[n])
    BY <1>5
  <2> HIDE DEF prog
  <2> QED BY <1>6, <2>1, LoopFollows
<1> HIDE DEF next, prog
<1>8. CASE bad = {}
  BY <1>1, <1>7, <1>8, NothingUndone, EmptySeq
<1>9. CASE bad # {}
  <2>1. /\ out = pauseBatchFailure(next, k, todo[Min(bad)], all, w) /\ todo[Min(bad)] \in Nodes
        /\ k \in 1..Len(next.batches)
    BY <1>1, <1>2, <1>7, <1>9
  <2> QED BY <1>4, <1>7, <2>1, PauseFollows, FollowsOn
<1> QED BY <1>8, <1>9

LEMMA EvaluateFollows ==
  ASSUME JobsTyped, NEW ro \in Snapshot, NEW sent \in Seq(Nodes),
         NEW k \in 1..Len(ro.batches), NEW w, Told(w), NEW out, out = evaluateBatch(ro, k, sent, w)
  PROVE  FollowedBy(ro, out) /\ out.rollback \in Seq(Nodes)
<1> DEFINE todo == Among(ro.batches[k].nodes, NodesIn(ro, "dispatched"))
           bad == {i \in DOMAIN todo : Verdict(ro, todo[i], w) \in Failures}
           seen == IF bad = {} THEN todo ELSE SubSeq(todo, 1, Min(bad))
           prog == [n \in Nodes |->
                      IF n \in ToSet(seen)
                      THEN [ro.prog[n] EXCEPT !.state = Verdict(ro, n, w)]
                      ELSE ro.prog[n]]
           next == [ro EXCEPT !.prog = prog]
<1>1. out = IF bad = {} THEN [ro |-> next, apply |-> sent, rollback |-> <<>>]
            ELSE pauseBatchFailure(next, k, todo[Min(bad)], sent, w)
  BY DEF evaluateBatch, Outcome
<1>2. /\ bad # {} => todo[Min(bad)] \in Nodes
      /\ seen \in Seq(Nodes) /\ \A i \in 1..Len(seen) : seen[i] \in NodesIn(ro, "dispatched")
  <2>1. bad \subseteq DOMAIN todo
    OBVIOUS
  <2>2. /\ todo \in Seq(Nodes) /\ DOMAIN todo = 1..Len(todo) /\ Len(todo) \in Nat
        /\ \A i \in 1..Len(todo) :
             todo[i] \in NodesIn(ro, "dispatched") /\ todo[i] \in Members(ro, k) /\ todo[i] \in Nodes
        /\ bad # {} =>
              /\ Min(bad) \in bad
              /\ \A d \in {0, 1} :
                   LET part == SubSeq(todo, 1, Min(bad) - d)
                   IN  /\ part \in Seq(Nodes) /\ Len(part) = Min(bad) - d /\ Len(part) \in Nat
                       /\ \A i \in 1..Len(part) : part[i] = todo[i] /\ i \in 1..Len(todo)
    <3> HIDE DEF bad
    <3> QED BY <2>1, LoopNodes
  <2> HIDE DEF bad, todo
  <2>3. CASE bad = {}
    BY <2>2, <2>3
  <2>4. CASE bad # {}
    <3>1. Min(bad) \in 1..Len(todo)
      BY <2>1, <2>2, <2>4
    <3>2. seen = SubSeq(todo, 1, Min(bad)) /\ Min(bad) - 0 = Min(bad)
      BY <2>2, <2>4, <3>1
    <3> QED BY <2>2, <2>4, <3>1, <3>2
  <2> QED BY <2>3, <2>4
<1> HIDE DEF seen, bad, todo
<1>3. DOMAIN seen = 1..Len(seen)
  BY <1>2, LenProperties
<1>4. ASSUME NEW n \in Nodes
      PROVE  /\ prog[n] \in Progress
             /\ Untold(ro.prog[n], prog[n])
  <2>1. ro.prog[n] \in Progress
    BY DEF Snapshot
  <2>2. CASE n \in ToSet(seen)
    <3>1. prog[n] = [ro.prog[n] EXCEPT !.state = Verdict(ro, n, w)]
      BY <2>2
    <3> HIDE DEF prog
    <3>2. Verdict(ro, n, w) \in NodeStates
      BY VerdictTold
    <3>3. ro.prog[n].state = "dispatched"
      BY <1>2, <1>3, <2>2 DEF NodesIn, ToSet
    <3>4. /\ prog[n] \in Progress /\ prog[n].rollback = ro.prog[n].rollback
          /\ prog[n].job = ro.prog[n].job
      BY <2>1, <3>1, <3>2 DEF Progress
    <3> QED BY <3>3, <3>4 DEF Untold
  <2>3. CASE n \notin ToSet(seen)
    <3>1. prog[n] = ro.prog[n]
      BY <2>3
    <3> HIDE DEF prog
    <3> QED BY <2>1, <3>1 DEF Untold
  <2> QED BY <2>2, <2>3
<1>5. prog \in [Nodes -> Progress]
  BY <1>4
<1>6. next \in Snapshot /\ FollowsAll(ro, next) /\ next.batches = ro.batches
  <2>1. \A n \in Nodes : Untold(ro.prog[n], prog[n])
    BY <1>4
  <2> HIDE DEF prog
  <2> QED BY <1>5, <2>1, LoopFollows
<1> HIDE DEF next, prog
<1>7. CASE bad = {}
  BY <1>1, <1>6, <1>7, NothingUndone, EmptySeq
<1>8. CASE bad # {}
  <2>1. /\ out = pauseBatchFailure(next, k, todo[Min(bad)], sent, w) /\ todo[Min(bad)] \in Nodes
        /\ k \in 1..Len(next.batches)
    BY <1>1, <1>2, <1>6, <1>8
  <2> QED BY <1>6, <2>1, PauseFollows, FollowsOn
<1> QED BY <1>7, <1>8

LEMMA BatchMarked ==
  ASSUME NEW ro \in Snapshot, NEW k \in 1..Len(ro.batches), NEW st \in BatchStates,
         NEW next, next = [ro EXCEPT !.batches[k].state = st]
  PROVE  next \in Snapshot /\ SamePlan(next, ro) /\ next.prog = ro.prog
BY BatchSet

LEMMA StartFollows ==
  ASSUME NEW ro \in Snapshot, NEW k \in 1..Len(ro.batches), NEW next, next = StartBatch(ro, k)
  PROVE  next \in Snapshot /\ FollowsAll(ro, next) /\ Len(next.batches) = Len(ro.batches)
<1>1. CASE ro.batches[k].state # "pending"
  BY <1>1, FollowsSame DEF StartBatch
<1>2. CASE ro.batches[k].state = "pending"
  <2>1. next = [ro EXCEPT !.batches[k].state = "running"]
    BY <1>2 DEF StartBatch
  <2>2. next \in Snapshot /\ SamePlan(next, ro) /\ next.prog = ro.prog
    <3>1. "running" \in BatchStates
      BY DEF BatchStates
    <3> QED BY <2>1, <3>1, BatchMarked
  <2> QED BY <2>2, FollowsSame DEF SamePlan
<1> QED BY <1>1, <1>2

LEMMA AdvanceFollows ==
  ASSUME JobsTyped, NEW ro \in Snapshot, NEW sent \in Seq(Nodes),
         NEW k \in 1..Len(ro.batches), NEW w, Told(w), NEW out, out = advance(ro, k, sent, w)
  PROVE  FollowedBy(ro, out)
<1> DEFINE closed == [ro EXCEPT !.batches[k].state = "completed"]
           last == [closed EXCEPT !.state = "completed"]
           nextk == activeBatchIndex(closed)
           started == StartBatch(closed, nextk)
<1>1. out = IF ~batchComplete(ro, k) THEN Outcome(ro, sent)
            ELSE IF nextk = 0 THEN Outcome(last, sent)
            ELSE dispatchPending(started, nextk, sent, w)
  BY DEF advance
<1>2. closed \in Snapshot /\ SamePlan(closed, ro) /\ closed.prog = ro.prog
  <2>1. "completed" \in BatchStates
    BY DEF BatchStates
  <2> QED BY <2>1, BatchMarked
<1> HIDE DEF closed
<1>3. CASE out = Outcome(ro, sent)
  BY <1>3, FollowsSame, NothingUndone DEF Outcome
<1>4. CASE out = Outcome(last, sent)
  <2>1. last.prog = ro.prog
    BY <1>2 DEF Snapshot
  <2> HIDE DEF last
  <2> QED BY <1>4, <2>1, FollowsSame, NothingUndone DEF Outcome
<1>5. CASE nextk # 0 /\ out = dispatchPending(started, nextk, sent, w)
  <2>1. nextk \in 1..Len(closed.batches)
    BY <1>2, <1>5, ActiveBatch
  <2> HIDE DEF nextk
  <2>2. started \in Snapshot /\ FollowsAll(closed, started) /\ Len(started.batches) = Len(closed.batches)
    BY <1>2, <2>1, StartFollows
  <2> HIDE DEF started
  <2>3. FollowedBy(started, out) /\ out.rollback \in Seq(Nodes)
    BY <1>5, <2>1, <2>2, DispatchFollows
  <2>4. FollowedBy(closed, out)
    BY <2>2, <2>3, FollowsOn
  <2>5. FollowsAll(ro, closed)
    BY <1>2, FollowsSame
  <2> QED BY <2>3, <2>4, <2>5, FollowsOn
<1> QED BY <1>1, <1>3, <1>4, <1>5

LEMMA StepRunningFollows ==
  ASSUME JobsTyped, NEW r, NEW ro, Sound(r, ro), ro.state = "running",
         NEW w, Told(w), NEW out, out = StepRunning(ro, w), out.rollback \in Seq(Nodes)
  PROVE  FollowedBy(ro, out)
<1> DEFINE k == activeBatchIndex(ro)
           started == StartBatch(ro, k)
           sent == dispatchPending(started, k, <<>>, w)
           seen == evaluateBatch(sent.ro, k, sent.apply, w)
           last == [ro EXCEPT !.state = "completed"]
<1>1. out = IF k = 0 THEN Outcome(last, <<>>)
            ELSE IF sent.ro.state = "paused" THEN sent
            ELSE IF seen.ro.state = "paused" THEN seen
            ELSE advance(seen.ro, k, seen.apply, w)
  BY DEF StepRunning
<1>2. <<>> \in Seq(Nodes) /\ 1..Len(<<>>) = {} /\ ro \in Snapshot
      /\ Len(ro.batches) \in Nat /\ SoundWith(r, ro, <<>>, <<>>)
  BY EmptySeq, BatchesTyped DEF Sound, SoundWith
<1>3. CASE k = 0
  <2>1. last.prog = ro.prog /\ out = Outcome(last, <<>>)
    BY <1>1, <1>2, <1>3 DEF Snapshot
  <2> HIDE DEF last
  <2> QED BY <2>1, FollowsSame, NothingUndone DEF Outcome
<1>4. CASE k # 0
  <2>1. k \in 1..Len(ro.batches) /\ \A e \in 1..k - 1 : ro.batches[e].state = "completed"
    BY <1>2, <1>4, ActiveBatch
  <2> HIDE DEF k
  <2>2. /\ SoundWith(r, started, <<>>, <<>>) /\ SamePlan(started, ro) /\ started.state = "running"
        /\ \A i \in 1..Len(ro.batches) : i # k => started.batches[i].state = ro.batches[i].state
    BY <1>2, <2>1, StartSound
  <2>3. started \in Snapshot /\ FollowsAll(ro, started)
    BY <1>2, <2>1, StartFollows
  <2> HIDE DEF started
  <2>4. k \in 1..Len(started.batches)
        /\ \A e \in 1..k - 1 : started.batches[e].state = "completed"
    <3>1. Len(started.batches) = Len(ro.batches)
      BY <2>2 DEF SamePlan
    <3>2. \A e \in 1..k - 1 : e \in 1..Len(ro.batches) /\ e # k
      BY <1>2, <2>1
    <3> QED BY <2>1, <2>2, <3>1, <3>2
  <2>5. InTurn(r, started, <<>>)
    BY <1>2 DEF InTurn
  <2>6. /\ StepOf(r, started, w, sent) /\ sent.ro.state \in {"running", "paused"}
        /\ sent.ro.state = "running" => sent.rollback = <<>>
    BY <1>2, <2>2, <2>4, <2>5, DispatchSound
  <2>7. FollowedBy(started, sent) /\ sent.rollback \in Seq(Nodes)
    BY <1>2, <2>3, <2>4, DispatchFollows
  <2>8. FollowedBy(ro, sent)
    BY <2>3, <2>7, FollowsOn
  <2> HIDE DEF sent
  <2>9. CASE sent.ro.state = "paused"
    BY <1>1, <1>4, <2>8, <2>9
  <2>10. CASE sent.ro.state = "running"
    <3>1. /\ sent.apply \in Seq(Nodes) /\ SoundWith(r, sent.ro, sent.apply, <<>>)
          /\ InTurn(r, sent.ro, sent.apply)
          /\ k \in 1..Len(sent.ro.batches) /\ sent.ro \in Snapshot /\ FollowsAll(ro, sent.ro)
      BY <2>4, <2>6, <2>8, <2>10 DEF StepOf, SamePlan, SoundWith, FollowedBy
    <3>2. /\ StepOf(r, sent.ro, w, seen) /\ seen.ro.state \in {"running", "paused"}
          /\ seen.ro.state = "running" => seen.rollback = <<>>
      BY <2>10, <3>1, EvaluateSound
    <3>3. FollowedBy(sent.ro, seen) /\ seen.rollback \in Seq(Nodes)
      BY <3>1, EvaluateFollows
    <3>4. FollowedBy(ro, seen)
      BY <3>1, <3>3, FollowsOn
    <3> HIDE DEF seen
    <3>5. CASE seen.ro.state = "paused"
      BY <1>1, <1>4, <2>10, <3>4, <3>5
    <3>6. CASE seen.ro.state = "running"
      <4>1. /\ seen.apply \in Seq(Nodes) /\ seen.ro \in Snapshot /\ FollowsAll(ro, seen.ro)
            /\ k \in 1..Len(seen.ro.batches)
        BY <3>1, <3>2, <3>4, <3>6 DEF StepOf, SamePlan, SoundWith, FollowedBy
      <4>2. out = advance(seen.ro, k, seen.apply, w)
        BY <1>1, <1>4, <2>10, <3>6
      <4>3. FollowedBy(seen.ro, out)
        BY <4>1, <4>2, AdvanceFollows
      <4> QED BY <4>1, <4>3, FollowsOn
    <3> QED BY <3>2, <3>5, <3>6
  <2> QED BY <2>6, <2>9, <2>10
<1> QED BY <1>3, <1>4


-----------------------------------------------------------------------------
(* What every snapshot is fit for: one move of the lifecycle, and undoing what   *)
(* it shows as done.                                                             *)

\* The moves of RolloutLifecycle, and staying.
Moved(from, to) ==
  \/ to = from
  \/ from \in {"pending", "running"} /\ to = "scheduled"
  \/ from \in {"pending", "scheduled", "paused"} /\ to = "running"
  \/ from \in {"pending", "scheduled", "running"} /\ to = "paused"
  \/ from = "running" /\ to = "completed"
  \/ from \in {"pending", "scheduled", "running", "paused"} /\ to = "aborted"

HasTarget(ro) == \E k \in 1..Len(ro.batches) : \E n \in Nodes : n \in Members(ro, k)

\* No node has a job while a snapshot waits or its time has not come.
Untouched(r, ro) ==
  ro.state \in {"pending", "scheduled"} \/ r \notin begun => \A n \in Nodes : ro.prog[n].job = 0

Fit(r, ro) == HasTarget(ro) /\ Untouched(r, ro) /\ \A n \in Nodes : Tidy(ro.prog[n])

LEMMA PlanNotEmpty ==
  ASSUME NEW nodes \in Seq(Nodes), Len(nodes) # 0, NEW batchSize \in Nat,
         NEW plan, plan = PlanBatches(nodes, batchSize)
  PROVE  Len(plan) \in Nat /\ 1 \in 1..Len(plan) /\ 1 \in 1..Len(plan[1].nodes)
<1> DEFINE size == IF batchSize = 0 THEN 1 ELSE batchSize
           count == (Len(nodes) + size - 1) \div size
           least == Min({1 * size, Len(nodes)})
<1>1. size \in Nat /\ size > 0 /\ Len(nodes) \in Nat /\ Len(nodes) > 0
  BY LenProperties
<1>2. plan = [k \in 1..count |-> [nodes |-> SubSeq(nodes, (k - 1) * size + 1, Min({k * size, Len(nodes)})),
                                  state |-> "pending"]]
  BY DEF PlanBatches
<1> HIDE DEF size
<1>3. count \in Nat /\ count > 0
  <2> DEFINE t == Len(nodes) + size - 1
  <2>1. t \in Nat /\ t >= size /\ size \in Nat /\ size > 0
    BY <1>1
  <2> HIDE DEF t
  <2>2. t \div size \in Nat /\ t \div size > 0
    BY <2>1
  <2> QED BY <2>2 DEF t
<1> HIDE DEF count
<1>4. Len(plan) = count /\ plan[1].nodes = SubSeq(nodes, (1 - 1) * size + 1, least)
  <2>1. Len(plan) = count
    BY <1>2, <1>3
  <2>2. 1 \in 1..count
    BY <1>3
  <2> DEFINE batch(k) == [nodes |-> SubSeq(nodes, (k - 1) * size + 1, Min({k * size, Len(nodes)})),
                          state |-> "pending"]
  <2>3. plan[1] = batch(1)
    <3>1. plan = [k \in 1..count |-> batch(k)]
      BY <1>2
    <3> HIDE DEF batch
    <3> QED BY <2>2, <3>1
  <2>4. batch(1).nodes = SubSeq(nodes, (1 - 1) * size + 1, least)
    <3>1. \A x, y : [nodes |-> x, state |-> y].nodes = x
      OBVIOUS
    <3> QED BY <3>1, Zenon
  <2> HIDE DEF batch, least
  <2> QED BY <2>1, <2>3, <2>4
<1>5. least \in 1..Len(nodes)
  <2> DEFINE S == {1 * size, Len(nodes)}
  <2>1. S \in SUBSET Nat /\ S # {} /\ Len(nodes) \in S /\ \A x \in S : x > 0
    BY <1>1
  <2> HIDE DEF S
  <2>2. Min(S) \in S /\ Min(S) <= Len(nodes)
    BY <2>1, MinOf
  <2>3. Min(S) \in Nat /\ Min(S) > 0
    BY <2>1, <2>2
  <2>4. Min(S) \in 1..Len(nodes)
    BY <1>1, <2>2, <2>3
  <2> QED BY <2>4 DEF S
<1> HIDE DEF least
<1>6. (1 - 1) * size + 1 = 1
  BY <1>1
<1>7. 1 \in Int /\ least \in Int /\ \A i \in 1..least : nodes[i] \in Nodes
  BY <1>1, <1>5, ElementOfSeq
<1>8. Len(SubSeq(nodes, 1, least)) = IF 1 <= least THEN least - 1 + 1 ELSE 0
  BY <1>7, SubSeqProperties
<1>9. 1 <= least /\ least - 1 + 1 = least /\ least \in Nat
  BY <1>5
<1>10. Len(plan[1].nodes) = least
  BY <1>4, <1>6, <1>8, <1>9
<1>11. 1 \in 1..count /\ 1 \in 1..least
  BY <1>3, <1>9
<1> QED BY <1>3, <1>4, <1>10, <1>11

LEMMA NewHasTarget ==
  ASSUME NEW spec \in RolloutSpec, Len(spec.nodes) # 0, NEW ro, ro = NewRollout(spec)
  PROVE  HasTarget(ro)
<1>1. spec.nodes \in Seq(Nodes) /\ spec.batchSize \in Nat
  BY DEF RolloutSpec
<1>2. PICK plan : plan = PlanBatches(spec.nodes, spec.batchSize)
  OBVIOUS
<1>3. /\ Len(plan) \in Nat /\ 1 \in 1..Len(plan) /\ 1 \in 1..Len(plan[1].nodes)
      /\ plan \in Seq(Batch)
  BY <1>1, <1>2, PlanNotEmpty, PlanSlices
<1>4. ro.batches = plan
  BY <1>2 DEF NewRollout
<1>5. plan[1].nodes \in Seq(Nodes)
  <2>1. plan[1] \in Batch
    BY <1>3, ElementOfSeq
  <2> QED BY <2>1 DEF Batch
<1>6. plan[1].nodes[1] \in Nodes /\ plan[1].nodes[1] \in ToSet(plan[1].nodes)
  BY <1>3, <1>5, ElementOfSeq, LenProperties DEF ToSet
<1> QED BY <1>3, <1>4, <1>6 DEF HasTarget, Members

LEMMA TargetByPlan ==
  ASSUME NEW a, NEW b, SamePlan(a, b), HasTarget(b)
  PROVE  HasTarget(a)
BY DEF SamePlan, HasTarget, Members

LEMMA ResumeState ==
  ASSUME NEW ro \in Snapshot, ro.state = "paused"
  PROVE  Resume(ro).state = "running"
<1> DEFINE ks == BatchIndices(ro, {"paused"})
           redo == IF ks = {} THEN {}
                   ELSE {n \in ToSet(ro.batches[Min(ks)].nodes) : ro.prog[n].state # "succeeded"}
           prog == [n \in Nodes |-> IF n \in redo THEN NoProgress ELSE ro.prog[n]]
           mid == [ro EXCEPT !.state = "running", !.failing = {}, !.prog = prog]
<1>1. Resume(ro) = FirstBatchTo(mid, {"paused"}, "running")
  BY DEF Resume
<1>2. NoProgress \in Progress
  BY DEF NoProgress, Progress, NodeStates
<1>3. prog \in [Nodes -> Progress]
  <2> HIDE DEF redo
  <2> QED BY <1>2 DEF Snapshot
<1> HIDE DEF prog
<1>4. mid \in Snapshot /\ mid.state = "running"
  BY <1>3 DEF Snapshot, RolloutStates
<1> HIDE DEF mid
<1> QED BY <1>1, <1>4, FirstBatchProgress DEF BatchStates

\* A step does not complete a rollout whose nodes have had no job before.
LEMMA CompletedHadJobs ==
  ASSUME JobsTyped, NEW r, NEW a, NEW b, NEW sent, NEW undo, SoundWith(r, b, sent, undo),
         HasTarget(b), b.state = "completed", FollowsAll(a, b)
  PROVE  \E n \in Nodes : a.prog[n].job # 0
<1>1. PICK k \in 1..Len(b.batches) : \E n \in Nodes : n \in Members(b, k)
  BY DEF HasTarget
<1>2. PICK n \in Nodes : n \in Members(b, k)
  BY <1>1
<1>3. b.prog[n].state = "succeeded"
  BY <1>1, <1>2 DEF SoundWith, Batches
<1>4. TrueProgress(r, n, b.prog[n], sent, undo)
  BY DEF SoundWith
<1>5. b.prog[n].job \in 1..Len(jobs) /\ Len(jobs) \in Nat
  BY <1>3, <1>4, JobsLen DEF TrueProgress, Completed
<1>6. Follows(a.prog[n], b.prog[n])
  BY DEF FollowsAll
<1>7. b.prog[n].job = a.prog[n].job
  BY <1>5, <1>6 DEF Follows
<1>8. b.prog[n].job # 0
  BY <1>5
<1> QED BY <1>7, <1>8

\* A step of a fit snapshot is a fit one, one move away.  One of a rollout that waits
\* and whose time has not come makes no jobs.
LEMMA StepFit ==
  ASSUME JobsTyped, NEW r, NEW ro, Sound(r, ro), Fit(r, ro),
         NEW w, Told(w), w.future <=> r \notin begun, NEW out, out = Step(ro, w)
  PROVE  /\ Fit(r, out.ro) /\ Moved(ro.state, out.ro.state) /\ FollowedBy(ro, out)
         /\ \/ out.apply = <<>> /\ out.rollback = <<>>
            \/ ro.state \in {"pending", "scheduled", "running"}
<1>1. ro \in Snapshot /\ SoundWith(r, ro, <<>>, <<>>) /\ ro.state \in RolloutStates
  BY DEF Sound, SoundWith, Snapshot
<1>2. CASE terminal(ro.state) \/ ro.state = "paused"
  <2>1. out = Outcome(ro, <<>>)
    BY <1>2 DEF Step
  <2>2. out.ro = ro /\ out.apply = <<>> /\ out.rollback = <<>>
    BY <2>1 DEF Outcome
  <2>3. FollowedBy(ro, out)
    BY <2>2, FollowsSame, NothingUndone
  <2> QED BY <2>2, <2>3 DEF Moved
<1>3. CASE ~(terminal(ro.state) \/ ro.state = "paused") /\ w.future
  <2> DEFINE next == [ro EXCEPT !.state = "scheduled"]
  <2>1. out = Outcome(next, <<>>) /\ next.state = "scheduled" /\ next.prog = ro.prog
        /\ next.batches = ro.batches
    BY <1>1, <1>3 DEF Step, Snapshot
  <2> HIDE DEF next
  <2>2. out.ro = next /\ out.apply = <<>> /\ out.rollback = <<>>
    BY <2>1 DEF Outcome
  <2>3. FollowedBy(ro, out)
    BY <2>1, <2>2, FollowsSame, NothingUndone
  <2>4. Moved(ro.state, "scheduled")
    BY <1>1, <1>3 DEF Moved, terminal, RolloutStates
  <2>5. Fit(r, next)
    BY <1>3, <2>1 DEF Fit, Untouched, HasTarget, Members
  <2> QED BY <2>1, <2>2, <2>3, <2>4, <2>5
<1>4. CASE ~(terminal(ro.state) \/ ro.state = "paused") /\ ~w.future
  <2> DEFINE next == [ro EXCEPT !.state = "running"]
  <2>1. out = StepRunning(next, w)
    BY <1>4 DEF Step
  <2>2. SoundWith(r, next, <<>>, <<>>) /\ SamePlan(next, ro) /\ next.state = "running"
        /\ next.prog = ro.prog
    <3>1. "running" \in RolloutStates /\ "running" # "completed"
      BY DEF RolloutStates
    <3> QED BY <1>1, <3>1, StateSound
  <2> HIDE DEF next
  <2>3. StepOf(r, next, w, out) /\ out.ro.state \in Stepped
    BY <2>1, <2>2, StepRunningSound DEF Sound
  <2>4. FollowedBy(ro, out)
    <3>1. out.rollback \in Seq(Nodes)
      BY <2>3 DEF StepOf
    <3>2. FollowedBy(next, out)
      BY <2>1, <2>2, <3>1, StepRunningFollows DEF Sound
    <3>3. FollowsAll(ro, next)
      BY <2>2, FollowsSame
    <3> QED BY <3>1, <3>2, <3>3, FollowsOn
  <2>5. HasTarget(out.ro)
    <3>1. SamePlan(out.ro, next) /\ HasTarget(ro)
      BY <2>3 DEF StepOf, Fit
    <3> QED BY <2>2, <3>1, TargetByPlan
  <2>6. ro.state \in {"pending", "scheduled", "running"}
    BY <1>1, <1>4 DEF terminal, RolloutStates
  <2>7. ro.state \in {"pending", "scheduled"} => out.ro.state # "completed"
    <3> SUFFICES ASSUME ro.state \in {"pending", "scheduled"}, out.ro.state = "completed" PROVE FALSE
      OBVIOUS
    <3>1. SoundWith(r, out.ro, out.apply, out.rollback) /\ FollowsAll(ro, out.ro)
      BY <2>3, <2>4 DEF StepOf, FollowedBy
    <3>2. \E n \in Nodes : ro.prog[n].job # 0
      BY <2>5, <3>1, CompletedHadJobs
    <3> QED BY <3>2 DEF Fit, Untouched
  <2>8. Moved(ro.state, out.ro.state)
    BY <2>3, <2>6, <2>7 DEF Moved, Stepped
  <2>9. Fit(r, out.ro)
    <3>1. Untouched(r, out.ro)
      BY <1>4, <2>3 DEF Untouched, Stepped
    <3>2. \A n \in Nodes : Tidy(out.ro.prog[n])
      BY <2>4 DEF FollowedBy, FollowsAll, Follows, Fit
    <3> QED BY <2>5, <3>1, <3>2 DEF Fit
  <2> QED BY <2>4, <2>6, <2>8, <2>9
<1> QED BY <1>2, <1>3, <1>4

\* What a resumed node shows: nothing, unless it is through.
LEMMA ResumeProgress ==
  ASSUME NEW ro \in Snapshot, ro.state = "paused", NEW next, next = Resume(ro), NEW n \in Nodes
  PROVE  next.prog[n] = ro.prog[n] \/ (next.prog[n] = NoProgress /\ ro.prog[n].state # "succeeded")
<1> DEFINE ks == BatchIndices(ro, {"paused"})
           redo == IF ks = {} THEN {}
                   ELSE {m \in ToSet(ro.batches[Min(ks)].nodes) : ro.prog[m].state # "succeeded"}
           prog == [m \in Nodes |-> IF m \in redo THEN NoProgress ELSE ro.prog[m]]
           mid == [ro EXCEPT !.state = "running", !.failing = {}, !.prog = prog]
<1>1. next = FirstBatchTo(mid, {"paused"}, "running")
  BY DEF Resume
<1>2. \A m \in redo : ro.prog[m].state # "succeeded"
  OBVIOUS
<1>3. NoProgress \in Progress
  BY DEF NoProgress, Progress, NodeStates
<1> HIDE DEF redo
<1>4. prog \in [Nodes -> Progress] /\ prog[n] = IF n \in redo THEN NoProgress ELSE ro.prog[n]
  BY <1>3 DEF Snapshot
<1> HIDE DEF prog
<1>5. mid \in Snapshot /\ mid.prog = prog
  BY <1>4 DEF Snapshot, RolloutStates
<1> HIDE DEF mid
<1>6. next.prog = prog
  BY <1>1, <1>5, FirstBatchProgress DEF BatchStates
<1> QED BY <1>2, <1>4, <1>6

LEMMA OperatorFit ==
  ASSUME NEW r, NEW ro, Sound(r, ro), Fit(r, ro), NEW action \in {"pause", "resume", "abort"},
         NEW next, next = OperatorAction(action, ro)
  PROVE  /\ Fit(r, next) /\ Moved(ro.state, next.state)
         /\ \A n \in Nodes : ro.prog[n].rollback # 0 => next.prog[n].rollback # 0
<1>1. ro \in Snapshot /\ ro.state \in RolloutStates
  BY DEF Sound, SoundWith, Snapshot
<1>2. HasTarget(next)
  <2>1. SamePlan(next, ro)
    BY OperatorSound
  <2> QED BY <2>1, TargetByPlan DEF Fit
<1>3. CASE next = ro
  BY <1>3 DEF Moved
<1>4. CASE action = "resume" /\ ro.state = "paused"
  <2>1. next = Resume(ro) /\ next.state = "running"
    BY <1>1, <1>4, ResumeState DEF OperatorAction
  <2>2. ASSUME NEW n \in Nodes, NEW p, NEW q, p = ro.prog[n], q = next.prog[n]
        PROVE  /\ Tidy(q) /\ (p.rollback # 0 => q.rollback # 0)
               /\ p.job = 0 => q.job = 0
    <3>1. q = p \/ (q = NoProgress /\ p.state # "succeeded")
      BY <1>1, <1>4, <2>1, <2>2, ResumeProgress
    <3>2. Tidy(p)
      BY <2>2 DEF Fit
    <3> QED BY <3>1, <3>2 DEF Tidy, NoProgress
  <2>3. Untouched(r, next)
    BY <1>4, <2>1, <2>2 DEF Untouched, Fit
  <2> QED BY <1>2, <1>4, <2>1, <2>2, <2>3 DEF Fit, Moved
<1>5. CASE ~terminal(ro.state) /\ next.state \in {"paused", "aborted"} /\ next.prog = ro.prog
  <2>1. Untouched(r, next)
    BY <1>5 DEF Untouched, Fit
  <2>2. Moved(ro.state, next.state)
    BY <1>1, <1>5 DEF Moved, terminal, RolloutStates
  <2> QED BY <1>2, <1>5, <2>1, <2>2 DEF Fit
<1>6. CASE action = "resume" /\ ro.state # "paused"
  BY <1>3, <1>6 DEF OperatorAction, Resume
<1>7. CASE action = "abort"
  <2>1. next = ro \/ (~terminal(ro.state) /\ next = [ro EXCEPT !.state = "aborted"])
    BY <1>7 DEF OperatorAction, Abort
  <2>2. next = [ro EXCEPT !.state = "aborted"] => next.state = "aborted" /\ next.prog = ro.prog
    BY <1>1 DEF Snapshot
  <2> QED BY <1>3, <1>5, <2>1, <2>2
<1>8. CASE action = "pause"
  <2> DEFINE mid == [ro EXCEPT !.state = "paused"]
  <2>1. next = IF terminal(ro.state) THEN ro ELSE FirstBatchTo(mid, {"running", "pending"}, "paused")
    BY <1>8 DEF OperatorAction, PauseForOperator
  <2>2. mid \in Snapshot /\ mid.prog = ro.prog /\ mid.state = "paused"
    BY <1>1 DEF Snapshot, RolloutStates
  <2> HIDE DEF mid
  <2>3. ~terminal(ro.state) => next.prog = ro.prog /\ next.state = "paused"
    BY <2>1, <2>2, FirstBatchProgress DEF BatchStates
  <2> QED BY <1>3, <1>5, <2>1, <2>3
<1> QED BY <1>4, <1>6, <1>7, <1>8

LEMMA NewFit ==
  ASSUME NEW r, NEW spec \in RolloutSpec, Len(spec.nodes) # 0, NEW ro, ro = NewRollout(spec)
  PROVE  Fit(r, ro) /\ ro.state \in {"pending", "scheduled"}
<1>1. \A n \in Nodes : ro.prog[n] = NoProgress
  BY DEF NewRollout
<1>2. ro.state \in {"pending", "scheduled"}
  BY DEF NewRollout
<1>3. HasTarget(ro)
  BY NewHasTarget
<1> QED BY <1>1, <1>2, <1>3 DEF Fit, Untouched, Tidy, NoProgress

-----------------------------------------------------------------------------
(* Who holds what: every step reads a row, works on a copy, writes one back, or  *)
(* leaves rollouts alone.                                                       *)

\* ro is a copy of r in a request, in the pass's write, or in its list.
HeldAs(r, ro) ==
  \/ \E h \in Handlers : http[h].pc = "update" /\ http[h].id = r /\ http[h].ro = ro
  \/ orch.pc = "write" /\ orch.id = r /\ orch.ro = ro
  \/ orch.pc # "idle" /\ \E i \in DOMAIN orch.list : orch.list[i].id = r /\ orch.list[i].ro = ro

LEMMA AnyCopy == \A r, ro : ro \in Copies(r) <=> HeldAs(r, ro)
<1> SUFFICES ASSUME NEW r, NEW ro PROVE ro \in Copies(r) <=> HeldAs(r, ro)
  OBVIOUS
<1> DEFINE A == {http[h].ro : h \in {g \in Handlers : http[g].pc = "update" /\ http[g].id = r}}
           B == IF orch.pc = "write" /\ orch.id = r THEN {orch.ro} ELSE {}
           C == IF orch.pc = "idle" THEN {}
                ELSE {e.ro : e \in {f \in ToSet(orch.list) : f.id = r}}
<1>1. Copies(r) = A \cup B \cup C
  BY DEF Copies
<1>2. ro \in A <=> \E h \in Handlers : http[h].pc = "update" /\ http[h].id = r /\ http[h].ro = ro
  OBVIOUS
<1>3. ro \in B <=> orch.pc = "write" /\ orch.id = r /\ orch.ro = ro
  OBVIOUS
<1>4. ro \in C <=>
        (orch.pc # "idle" /\ \E i \in DOMAIN orch.list : orch.list[i].id = r /\ orch.list[i].ro = ro)
  BY DEF ToSet
<1> HIDE DEF A, B, C
<1> QED BY <1>1, <1>2, <1>3, <1>4 DEF HeldAs

LEMMA AnyCopyNext == \A r, ro : ro \in Copies(r)' <=> HeldAs(r, ro)'
<1>1. (\A r, ro : ro \in Copies(r) <=> HeldAs(r, ro))'
  BY AnyCopy, PTL
<1> QED BY <1>1

\* Every copy is sound.
LEMMA CopiesSound ==
  ASSUME ControlInv, NEW r, NEW ro \in Copies(r)
  PROVE  CopyOf(r, ro)
<1>1. HeldAs(r, ro)
  BY AnyCopy
<1>2. ASSUME NEW h \in Handlers, http[h].pc = "update", http[h].id = r, http[h].ro = ro
      PROVE  CopyOf(r, ro)
  BY <1>2 DEF ControlInv, HttpInv, RequestOK, None
<1>3. CASE orch.pc = "write" /\ orch.id = r /\ orch.ro = ro
  <2>1. orch # Idle /\ orch # [pc |-> "step", list |-> orch.list]
    BY <1>3 DEF Idle
  <2> QED BY <1>3, <2>1 DEF ControlInv, OrchInv
<1>4. CASE orch.pc # "idle" /\ \E i \in DOMAIN orch.list : orch.list[i].id = r /\ orch.list[i].ro = ro
  <2>1. orch # Idle
    BY <1>4 DEF Idle
  <2>2. orch.list \in Seq(Listed) /\ \A i \in 1..Len(orch.list) : CopyOf(orch.list[i].id, orch.list[i].ro)
    BY <2>1 DEF ControlInv, OrchInv
  <2>3. DOMAIN orch.list = 1..Len(orch.list)
    BY <2>2, LenProperties
  <2> QED BY <1>4, <2>2, <2>3
<1> QED BY <1>1, <1>2, <1>3, <1>4 DEF HeldAs

JobsInPlace ==
  /\ DOMAIN jobs' = DOMAIN jobs
  /\ \A j \in DOMAIN jobs :
       jobs'[j].kind = jobs[j].kind /\ jobs'[j].node = jobs[j].node /\ jobs'[j].rollout = jobs[j].rollout

NothingHeldAnew == \A r : Copies(r)' \subseteq Copies(r)

\* Rollouts are left alone.
LeftAlone == UNCHANGED rollouts /\ NothingHeldAnew /\ JobsInPlace /\ begun \subseteq begun'

\* A new row.
Created(spec) ==
  /\ spec \in RolloutSpec /\ Distinct(spec.nodes) /\ Len(rollouts) < MaxRollouts
  /\ rollouts' = Append(rollouts, NewRollout(spec))
  /\ NothingHeldAnew /\ UNCHANGED jobs /\ begun \subseteq begun'

\* Rows are read, by a pass or for an operator.
ReadFrom(s, ro) ==
  /\ s \in 1..Len(rollouts)
  /\ \/ ro = rollouts[s]
     \/ \E action \in {"pause", "resume", "abort"} : ro = OperatorAction(action, rollouts[s])

RowsRead ==
  /\ \A s, ro : ro \in Copies(s)' => ro \in Copies(s) \/ ReadFrom(s, ro)
  /\ UNCHANGED <<rollouts, jobs, begun>>

\* A pass steps a copy of r, and holds what comes of it.
Advanced(r, ro, w, out, made) ==
  /\ ro \in Copies(r) /\ CopyOf(r, ro) /\ r \in 1..MaxRollouts /\ ro \in Snapshot
  /\ Told(w) /\ (w.future <=> r \notin begun) /\ out = Step(ro, w) /\ StepOf(r, ro, w, out)
  /\ MadeFor(r, ro, out, made) /\ jobs' = jobs \o made
  /\ \A s, c : c \in Copies(s)' => c \in Copies(s) \/ (s = r /\ c = out.ro)
  /\ UNCHANGED <<rollouts, begun>>

\* A copy of r replaces the row.
Written(r, ro) ==
  /\ ro \in Copies(r) /\ r \in 1..Len(rollouts)
  /\ rollouts' = [rollouts EXCEPT ![r] = ro]
  /\ NothingHeldAnew /\ UNCHANGED <<jobs, begun>>

OfAKind ==
  \/ LeftAlone
  \/ \E h \in Handlers : http[h].pc = "create" /\ Created(http[h].spec)
  \/ RowsRead
  \/ \E r, ro, w, out, made : Advanced(r, ro, w, out, made)
  \/ \E r, ro : Written(r, ro)

LEMMA HeldAsBefore ==
  ASSUME \A r, ro : HeldAs(r, ro)' => HeldAs(r, ro)
  PROVE  NothingHeldAnew
BY AnyCopy, AnyCopyNext DEF NothingHeldAnew

LEMMA RequestHeld ==
  ASSUME HttpInv, NEW h \in Handlers, NEW req, http' = [http EXCEPT ![h] = req], UNCHANGED orch,
         NEW r, NEW ro, HeldAs(r, ro)'
  PROVE  HeldAs(r, ro) \/ (req.pc = "update" /\ req.id = r /\ req.ro = ro)
<1>1. \A g \in Handlers : http'[g] = IF g = h THEN req ELSE http[g]
  BY DEF HttpInv
<1> QED BY <1>1 DEF HeldAs

LEMMA CreateCheckKind ==
  ASSUME ControlInv, NEW h \in Handlers, NEW asked \in Specs, CreateCheck(h, asked)
  PROVE  OfAKind
<1> DEFINE req == [pc |-> "create", spec |-> normalizeRolloutSpec(asked)]
<1>1. http' = [http EXCEPT ![h] = req] /\ UNCHANGED <<rollouts, jobs, begun, orch>>
  BY DEF CreateCheck, store, world
<1>2. req.pc # "update"
  OBVIOUS
<1> HIDE DEF req
<1>3. \A r, ro : HeldAs(r, ro)' => HeldAs(r, ro)
  BY <1>1, <1>2, RequestHeld DEF ControlInv
<1>4. NothingHeldAnew
  BY <1>3, HeldAsBefore
<1> QED BY <1>1, <1>4 DEF OfAKind, LeftAlone, JobsInPlace

LEMMA CreateRolloutKind ==
  ASSUME ControlInv, NEW h \in Handlers, CreateRollout(h)
  PROVE  OfAKind
<1>1. http[h].pc = "create" /\ http[h].spec \in RolloutSpec /\ Distinct(http[h].spec.nodes)
  BY DEF ControlInv, HttpInv, RequestOK, None, CreateRollout
<1>2. /\ http' = [http EXCEPT ![h] = None] /\ UNCHANGED <<jobs, orch>> /\ begun \subseteq begun'
      /\ Len(rollouts) < MaxRollouts /\ rollouts' = Append(rollouts, NewRollout(http[h].spec))
  BY DEF CreateRollout
<1>3. None.pc # "update"
  BY DEF None
<1>4. \A r, ro : HeldAs(r, ro)' => HeldAs(r, ro)
  BY <1>2, <1>3, RequestHeld DEF ControlInv
<1>5. NothingHeldAnew
  BY <1>4, HeldAsBefore
<1>6. Created(http[h].spec)
  BY <1>1, <1>2, <1>5 DEF Created
<1> QED BY <1>1, <1>6 DEF OfAKind

LEMMA ActionReadKind ==
  ASSUME ControlInv, NEW h \in Handlers, NEW r \in DOMAIN rollouts,
         NEW action \in {"pause", "resume", "abort"}, ActionRead(h, r, action)
  PROVE  OfAKind
<1>1. PICK ro : ro = OperatorAction(action, rollouts[r])
  OBVIOUS
<1> DEFINE req == [pc |-> "update", id |-> r, ro |-> ro]
<1>2. http' = [http EXCEPT ![h] = req] /\ UNCHANGED <<rollouts, jobs, begun, orch>>
  BY <1>1 DEF ActionRead, GetRollout, store, world
<1>3. req.id = r /\ req.ro = ro /\ r \in 1..Len(rollouts)
  BY RowsTyped DEF ControlInv
<1> HIDE DEF req
<1>4. \A s, c : HeldAs(s, c)' => HeldAs(s, c) \/ (s = r /\ c = ro)
  BY <1>2, <1>3, RequestHeld DEF ControlInv
<1>5. ReadFrom(r, ro)
  BY <1>1, <1>3 DEF ReadFrom
<1>6. \A s, c : c \in Copies(s)' => c \in Copies(s) \/ ReadFrom(s, c)
  BY <1>4, <1>5, AnyCopy, AnyCopyNext
<1> QED BY <1>2, <1>6 DEF OfAKind, RowsRead

LEMMA ActionWriteKind ==
  ASSUME ControlInv, NEW h \in Handlers, ActionWrite(h)
  PROVE  OfAKind
<1>1. PICK r, ro : r = http[h].id /\ ro = http[h].ro
  OBVIOUS
<1>2. /\ http[h].pc = "update" /\ rollouts' = [rollouts EXCEPT ![r] = ro]
      /\ http' = [http EXCEPT ![h] = None] /\ UNCHANGED <<jobs, begun, orch>>
  BY <1>1 DEF ActionWrite, world
<1>3. None.pc # "update"
  BY DEF None
<1>4. \A s, c : HeldAs(s, c)' => HeldAs(s, c)
  BY <1>2, <1>3, RequestHeld DEF ControlInv
<1>5. NothingHeldAnew
  BY <1>4, HeldAsBefore
<1>6. ro \in Copies(r)
  <2>1. HeldAs(r, ro)
    BY <1>1, <1>2 DEF HeldAs
  <2> QED BY <2>1, AnyCopy
<1>7. r \in 1..Len(rollouts)
  BY <1>6, CopiesSound DEF CopyOf
<1> QED BY <1>2, <1>5, <1>6, <1>7 DEF OfAKind, Written

LEMMA ListKind ==
  ASSUME ControlInv, ControlConstants, ReconcileList
  PROVE  OfAKind
<1>1. PICK list : list = ListRollouts(ListLimit)
  OBVIOUS
<1>2. orch' = [pc |-> "step", list |-> list] /\ UNCHANGED <<rollouts, jobs, begun, http>>
  BY <1>1 DEF ReconcileList, store, world
<1>3. list \in Seq(Listed)
      /\ \A i \in 1..Len(list) : list[i].id \in 1..Len(rollouts) /\ list[i].ro = rollouts[list[i].id]
  BY <1>1, PageOfRows DEF ControlInv
<1>4. DOMAIN list = 1..Len(list)
  BY <1>3, LenProperties
<1>5. ASSUME NEW s, NEW c, HeldAs(s, c)'
      PROVE  HeldAs(s, c) \/ ReadFrom(s, c)
  <2>1. CASE \E h \in Handlers : http'[h].pc = "update" /\ http'[h].id = s /\ http'[h].ro = c
    BY <1>2, <2>1 DEF HeldAs
  <2>2. CASE \E i \in DOMAIN list : list[i].id = s /\ list[i].ro = c
    BY <1>3, <1>4, <2>2 DEF ReadFrom
  <2>3. orch'.pc # "write" /\ orch'.list = list
    BY <1>2
  <2> QED BY <1>5, <2>1, <2>2, <2>3 DEF HeldAs
<1>6. \A s, c : c \in Copies(s)' => c \in Copies(s) \/ ReadFrom(s, c)
  BY <1>5, AnyCopy, AnyCopyNext
<1> QED BY <1>2, <1>6 DEF OfAKind, RowsRead

LEMMA StepKind ==
  ASSUME ControlInv, ControlConstants, ReconcileStep
  PROVE  OfAKind
<1>1. PICK list, rest, r, ro, w, out, made : Taken(list, rest, r, ro, w, out, made)
  BY StepTaken
<1>2. /\ orch = [pc |-> "step", list |-> list] /\ list \in Seq(Listed) /\ list # <<>>
      /\ rest = Tail(list) /\ r = list[1].id /\ ro = list[1].ro
      /\ orch' = IF out.ro = ro /\ ro.state # "running" THEN [pc |-> "step", list |-> rest]
                 ELSE [pc |-> "write", list |-> rest, id |-> r, ro |-> out.ro]
      /\ UNCHANGED <<rollouts, begun, http>>
  BY <1>1 DEF Taken, world
<1>3. /\ CopyOf(r, ro) /\ r \in 1..MaxRollouts /\ ro \in Snapshot
      /\ Told(w) /\ (w.future <=> r \notin begun) /\ out = Step(ro, w) /\ StepOf(r, ro, w, out)
      /\ MadeFor(r, ro, out, made) /\ jobs' = jobs \o made
  BY <1>1 DEF Taken
<1>4. /\ DOMAIN list = 1..Len(list) /\ 1 \in DOMAIN list
      /\ \A i \in DOMAIN rest : i + 1 \in DOMAIN list /\ rest[i] = list[i + 1]
  <2>1. /\ Len(list) \in Nat /\ Len(list) # 0 /\ rest \in Seq(Listed) /\ Len(rest) = Len(list) - 1
        /\ \A i \in 1..Len(rest) : rest[i] = list[i + 1]
    BY <1>2, HeadTailProperties, LenProperties
  <2>2. DOMAIN list = 1..Len(list) /\ DOMAIN rest = 1..Len(rest)
    BY <1>2, <2>1, LenProperties
  <2> QED BY <2>1, <2>2
<1>5. ASSUME NEW s, NEW c, HeldAs(s, c)'
      PROVE  HeldAs(s, c) \/ (s = r /\ c = out.ro)
  <2>1. CASE \E h \in Handlers : http'[h].pc = "update" /\ http'[h].id = s /\ http'[h].ro = c
    BY <1>2, <2>1 DEF HeldAs
  <2>2. CASE orch'.pc = "write" /\ orch'.id = s /\ orch'.ro = c
    <3>1. orch' = [pc |-> "write", list |-> rest, id |-> r, ro |-> out.ro]
      BY <1>2, <2>2
    <3> QED BY <2>2, <3>1
  <2>3. CASE orch'.pc # "idle" /\ \E i \in DOMAIN orch'.list : orch'.list[i].id = s /\ orch'.list[i].ro = c
    <3>1. orch'.list = rest
      BY <1>2
    <3>2. PICK i \in DOMAIN rest : rest[i].id = s /\ rest[i].ro = c
      BY <2>3, <3>1
    <3>3. i + 1 \in DOMAIN list /\ list[i + 1].id = s /\ list[i + 1].ro = c
      BY <1>4, <3>2
    <3>4. orch.pc # "idle" /\ orch.list = list
      BY <1>2
    <3> QED BY <3>3, <3>4 DEF HeldAs
  <2> QED BY <1>5, <2>1, <2>2, <2>3 DEF HeldAs
<1>6. \A s, c : c \in Copies(s)' => c \in Copies(s) \/ (s = r /\ c = out.ro)
  BY <1>5, AnyCopy, AnyCopyNext
<1>7. ro \in Copies(r)
  <2>1. orch.pc # "idle" /\ orch.list = list
    BY <1>2
  <2>2. HeldAs(r, ro)
    BY <1>2, <1>4, <2>1 DEF HeldAs
  <2> QED BY <2>2, AnyCopy
<1>8. Advanced(r, ro, w, out, made)
  BY <1>2, <1>3, <1>6, <1>7 DEF Advanced
<1> QED BY <1>8 DEF OfAKind

LEMMA WriteKind ==
  ASSUME ControlInv, ReconcileWrite
  PROVE  OfAKind
<1>1. PICK list, r, ro : list = orch.list /\ r = orch.id /\ ro = orch.ro
  OBVIOUS
<1>2. /\ orch.pc = "write" /\ rollouts' = [rollouts EXCEPT ![r] = ro]
      /\ orch' = [pc |-> "step", list |-> list] /\ UNCHANGED <<jobs, begun, http>>
  BY <1>1 DEF ReconcileWrite, world
<1>3. ASSUME NEW s, NEW c, HeldAs(s, c)' PROVE HeldAs(s, c)
  <2>1. orch'.pc # "write" /\ orch'.list = list /\ orch.pc # "idle"
    BY <1>2
  <2> QED BY <1>1, <1>2, <1>3, <2>1 DEF HeldAs
<1>4. NothingHeldAnew
  BY <1>3, HeldAsBefore
<1>5. ro \in Copies(r)
  <2>1. HeldAs(r, ro)
    BY <1>1, <1>2 DEF HeldAs
  <2> QED BY <2>1, AnyCopy
<1>6. r \in 1..Len(rollouts)
  BY <1>5, CopiesSound DEF CopyOf
<1> QED BY <1>2, <1>4, <1>5, <1>6 DEF OfAKind, Written

LEMMA EndKind ==
  ASSUME ReconcileDone \/ ReconcileFails \/ Crash
  PROVE  OfAKind
<1>1. UNCHANGED <<rollouts, jobs, begun>> /\ orch' = Idle /\ (http' = http \/ http' = [h \in Handlers |-> None])
  BY DEF ReconcileDone, ReconcileFails, Crash, store, world
<1>2. Idle.pc = "idle" /\ None.pc # "update"
  BY DEF Idle, None
<1>3. \A r, ro : HeldAs(r, ro)' => HeldAs(r, ro)
  BY <1>1, <1>2 DEF HeldAs
<1>4. NothingHeldAnew
  BY <1>3, HeldAsBefore
<1> QED BY <1>1, <1>4 DEF OfAKind, LeftAlone, JobsInPlace

LEMMA EnvironmentInPlace ==
  ASSUME ControlInv, Environment \/ UNCHANGED vars
  PROVE  UNCHANGED <<rollouts, orch, http>> /\ JobsInPlace /\ begun \subseteq begun'
<1>1. UNCHANGED <<rollouts, orch, http>>
  BY DEF Environment, JobSucceeds, JobFails, JobUnreported, JobExpires, DeadlinePasses, StartArrives,
         Heartbeat, GoesStale, store, vars
<1>2. JobsInPlace
  <2>1. JobsTyped
    BY DEF ControlInv, JobsOK
  <2>2. ASSUME NEW j \in DOMAIN jobs, JobSucceeds(j) \/ JobFails(j) \/ JobUnreported(j) \/ JobExpires(j)
        PROVE  JobsInPlace
    <3>1. jobs[j] \in Job
      BY <2>1, JobsLen
    <3>2. PICK ran \in BOOLEAN, status \in Marks, backup \in Backup :
            jobs' = [jobs EXCEPT ![j] = JobAfter(j, ran, status, backup)]
      BY <2>2, ControlConstants, JobStepsWork DEF JobWorked
    <3> DEFINE job == JobAfter(j, ran, status, backup)
    <3>3. job.kind = jobs[j].kind /\ job.node = jobs[j].node /\ job.rollout = jobs[j].rollout
      BY <3>1 DEF Job, JobAfter
    <3>4. jobs' = [jobs EXCEPT ![j] = job]
      BY <3>2
    <3> HIDE DEF job
    <3> QED BY <3>3, <3>4 DEF JobsInPlace
  <2>3. ASSUME UNCHANGED jobs PROVE JobsInPlace
    BY <2>3 DEF JobsInPlace
  <2> QED BY <2>2, <2>3
          DEF Environment, DeadlinePasses, StartArrives, Heartbeat, GoesStale, store, vars
<1>3. begun \subseteq begun'
  BY DEF Environment, JobSucceeds, JobFails, JobUnreported, JobExpires, DeadlinePasses, StartArrives,
         Heartbeat, GoesStale, world, vars
<1> QED BY <1>1, <1>2, <1>3

LEMMA EnvironmentKind ==
  ASSUME ControlInv, Environment \/ UNCHANGED vars
  PROVE  OfAKind
<1>1. UNCHANGED <<rollouts, orch, http>> /\ JobsInPlace /\ begun \subseteq begun'
  BY EnvironmentInPlace
<1>2. \A r, ro : HeldAs(r, ro)' => HeldAs(r, ro)
  BY <1>1 DEF HeldAs
<1>3. NothingHeldAnew
  BY <1>2, HeldAsBefore
<1> QED BY <1>1, <1>3 DEF OfAKind, LeftAlone

LEMMA EveryKind ==
  ASSUME ControlInv, ControlConstants, [Next]_vars
  PROVE  OfAKind
<1>1. CASE Requests
  BY <1>1, CreateCheckKind, CreateRolloutKind, ActionReadKind, ActionWriteKind DEF Requests
<1>2. CASE Reconcile
  BY <1>2, ListKind, StepKind, WriteKind, EndKind DEF Reconcile
<1>3. CASE ReconcileFails \/ Crash
  BY <1>3, EndKind
<1>4. CASE Environment \/ UNCHANGED vars
  BY <1>4, EnvironmentKind
<1> QED BY <1>1, <1>2, <1>3, <1>4 DEF Next

-----------------------------------------------------------------------------
(* Every snapshot is fit *)

\* ro is the row of r or a copy of it.
Around(r, ro) == ro \in Copies(r) \/ (r \in 1..Len(rollouts) /\ ro = rollouts[r])

HoldInv ==
  /\ \A h \in Handlers : http[h].pc = "create" => Len(http[h].spec.nodes) # 0
  /\ \A r, ro : Around(r, ro) => Fit(r, ro)

LEMMA AroundSound ==
  ASSUME ControlInv, NEW r, NEW ro, Around(r, ro)
  PROVE  r \in 1..Len(rollouts) /\ Sound(r, ro)
BY CopiesSound DEF Around, CopyOf, ControlInv, RowsOK

LEMMA FitStays ==
  ASSUME begun \subseteq begun', NEW r, NEW ro, Fit(r, ro)
  PROVE  Fit(r, ro)'
BY DEF Fit, Untouched, HasTarget, Members, Tidy

LEMMA RowAdded ==
  ASSUME ControlInv, NEW spec, Created(spec)
  PROVE  /\ Len(rollouts) \in Nat /\ Len(rollouts') = Len(rollouts) + 1
         /\ DOMAIN rollouts = 1..Len(rollouts) /\ DOMAIN rollouts' = 1..Len(rollouts')
         /\ Len(rollouts) + 1 \in 1..MaxRollouts
         /\ rollouts'[Len(rollouts) + 1] = NewRollout(spec)
         /\ \A r \in 1..Len(rollouts) : rollouts'[r] = rollouts[r]
         /\ \A r : r \in 1..Len(rollouts') <=> r \in 1..Len(rollouts) \/ r = Len(rollouts) + 1
<1>1. PICK new, l : new = NewRollout(spec) /\ l = Len(rollouts)
  OBVIOUS
<1>2. rollouts' = Append(rollouts, new) /\ l < MaxRollouts
  BY <1>1 DEF Created
<1>3. new \in Snapshot
  BY <1>1, NewRolloutSound DEF Created, Sound, SoundWith
<1>4. rollouts \in Seq(Snapshot) /\ l \in Nat /\ DOMAIN rollouts = 1..l /\ MaxRollouts \in Nat
  BY <1>1, RowsTyped, ControlConstants DEF ControlInv, RowsOK, ControlConstants
<1>5. /\ rollouts' \in Seq(Snapshot) /\ Len(rollouts') = l + 1 /\ rollouts'[l + 1] = new
      /\ \A i \in 1..l : rollouts'[i] = rollouts[i]
  BY <1>1, <1>2, <1>3, <1>4, AppendProperties
<1>6. DOMAIN rollouts' = 1..Len(rollouts')
  BY <1>5, LenProperties
<1>7. l + 1 \in 1..MaxRollouts /\ \A r : r \in 1..l + 1 <=> r \in 1..l \/ r = l + 1
  BY <1>2, <1>4
<1> QED BY <1>1, <1>4, <1>5, <1>6, <1>7

LEMMA RowReplaced ==
  ASSUME ControlInv, NEW r, NEW ro, Written(r, ro)
  PROVE  /\ DOMAIN rollouts = 1..Len(rollouts) /\ DOMAIN rollouts' = DOMAIN rollouts
         /\ Len(rollouts') = Len(rollouts)
         /\ \A s \in 1..Len(rollouts) : rollouts'[s] = IF s = r THEN ro ELSE rollouts[s]
<1>1. rollouts \in Seq(Snapshot) /\ DOMAIN rollouts = 1..Len(rollouts) /\ Len(rollouts) \in Nat
  BY RowsTyped DEF ControlInv, RowsOK
<1>2. ro \in Snapshot /\ r \in 1..Len(rollouts) /\ rollouts' = [rollouts EXCEPT ![r] = ro]
  BY CopiesSound DEF Written, CopyOf, Sound, SoundWith
<1> QED BY <1>1, <1>2

\* Copies come from rows and copies, by an action or a step.
LEMMA SnapshotsStayFit ==
  ASSUME ControlInv, ControlConstants, HoldInv, OfAKind
  PROVE  \A r, ro : Around(r, ro)' => Fit(r, ro)'
<1> SUFFICES ASSUME NEW r, NEW ro, Around(r, ro)' PROVE Fit(r, ro)'
  OBVIOUS
<1>1. JobsTyped
  BY DEF ControlInv, JobsOK
<1>2. begun \subseteq begun'
  BY DEF OfAKind, LeftAlone, Created, RowsRead, Advanced, Written
<1>3. CASE Around(r, ro)
  BY <1>2, <1>3, FitStays DEF HoldInv
<1>4. CASE LeftAlone
  BY <1>3, <1>4 DEF LeftAlone, NothingHeldAnew, Around
<1>5. ASSUME NEW h \in Handlers, http[h].pc = "create", Created(http[h].spec) PROVE Fit(r, ro)'
  <2>1. PICK spec : spec = http[h].spec
    OBVIOUS
  <2>2. Created(spec) /\ Len(spec.nodes) # 0
    BY <1>5, <2>1 DEF HoldInv
  <2>3. Around(r, ro) \/ ro = NewRollout(spec)
    BY <2>2, RowAdded DEF Around, Created, NothingHeldAnew
  <2>4. ASSUME ro = NewRollout(spec) PROVE Fit(r, ro)
    BY <2>2, <2>4, NewFit DEF Created
  <2> QED BY <1>2, <1>3, <2>3, <2>4, FitStays
<1>6. CASE RowsRead
  <2>1. Around(r, ro) \/ ReadFrom(r, ro)
    BY <1>6 DEF RowsRead, Around
  <2>2. ASSUME ReadFrom(r, ro) PROVE Fit(r, ro)
    <3>1. r \in 1..Len(rollouts) /\ Around(r, rollouts[r])
      BY <2>2 DEF ReadFrom, Around
    <3>2. Fit(r, rollouts[r]) /\ Sound(r, rollouts[r])
      BY <3>1, AroundSound DEF HoldInv
    <3>3. CASE ro = rollouts[r]
      BY <3>2, <3>3
    <3>4. ASSUME NEW action \in {"pause", "resume", "abort"}, ro = OperatorAction(action, rollouts[r])
          PROVE  Fit(r, ro)
      BY <3>2, <3>4, OperatorFit
    <3> QED BY <2>2, <3>3, <3>4 DEF ReadFrom
  <2> QED BY <1>2, <1>3, <2>1, <2>2, FitStays
<1>7. ASSUME NEW s, NEW c, NEW w, NEW out, NEW made, Advanced(s, c, w, out, made) PROVE Fit(r, ro)'
  <2>1. Around(r, ro) \/ (r = s /\ ro = out.ro)
    BY <1>7 DEF Advanced, Around
  <2>2. Fit(s, c) /\ Sound(s, c) /\ Told(w) /\ (w.future <=> s \notin begun) /\ out = Step(c, w)
    BY <1>7 DEF Advanced, CopyOf, Around, HoldInv
  <2>3. Fit(s, out.ro)
    BY <1>1, <2>2, StepFit
  <2> QED BY <1>2, <1>3, <2>1, <2>3, FitStays
<1>8. ASSUME NEW s, NEW c, Written(s, c) PROVE Fit(r, ro)'
  <2>1. Around(r, ro)
    BY <1>8, RowReplaced DEF Around, Written, NothingHeldAnew
  <2> QED BY <1>3, <2>1
<1> QED BY <1>4, <1>5, <1>6, <1>7, <1>8 DEF OfAKind

LEMMA RequestsAsk ==
  ASSUME ControlInv, HoldInv, [Next]_vars
  PROVE  \A h \in Handlers : http'[h].pc = "create" => Len(http'[h].spec.nodes) # 0
<1>1. ASSUME NEW h \in Handlers, NEW req, http' = [http EXCEPT ![h] = req],
             req.pc = "create" => Len(req.spec.nodes) # 0,
             NEW g \in Handlers, http'[g].pc = "create"
      PROVE  Len(http'[g].spec.nodes) # 0
  <2>1. http'[g] = IF g = h THEN req ELSE http[g]
    BY <1>1 DEF ControlInv, HttpInv
  <2> QED BY <1>1, <2>1 DEF HoldInv
<1>2. None.pc # "create"
  BY DEF None
<1>3. ASSUME NEW h \in Handlers, NEW asked \in Specs, CreateCheck(h, asked)
      PROVE  \A g \in Handlers : http'[g].pc = "create" => Len(http'[g].spec.nodes) # 0
  <2>1. PICK spec : spec = normalizeRolloutSpec(asked)
    OBVIOUS
  <2> DEFINE req == [pc |-> "create", spec |-> spec]
  <2>2. spec.nodes # <<>> /\ spec.nodes \in Seq(Nodes)
    <3>1. spec \in RolloutSpec
      BY <2>1, NormalizedSpec, ControlConstants DEF ControlConstants
    <3>2. validateRolloutSpec(spec)
      BY <1>3, <2>1 DEF CreateCheck
    <3> QED BY <3>1, <3>2 DEF validateRolloutSpec, ValidateRolloutSpec, RolloutSpec
  <2>3. Len(spec.nodes) # 0
    BY <2>2
  <2>4. http' = [http EXCEPT ![h] = req] /\ req.spec = spec
    BY <1>3, <2>1 DEF CreateCheck
  <2> HIDE DEF req
  <2> QED BY <1>1, <2>3, <2>4
<1>4. ASSUME NEW h \in Handlers, CreateRollout(h) \/ ActionWrite(h)
      PROVE  \A g \in Handlers : http'[g].pc = "create" => Len(http'[g].spec.nodes) # 0
  <2>1. http' = [http EXCEPT ![h] = None]
    BY <1>4 DEF CreateRollout, ActionWrite
  <2> QED BY <1>1, <1>2, <2>1
<1>5. ASSUME NEW h \in Handlers, NEW r, NEW action, ActionRead(h, r, action)
      PROVE  \A g \in Handlers : http'[g].pc = "create" => Len(http'[g].spec.nodes) # 0
  <2>1. PICK req : req = [pc |-> "update", id |-> r, ro |-> OperatorAction(action, GetRollout(r))]
    OBVIOUS
  <2>2. http' = [http EXCEPT ![h] = req] /\ req.pc = "update"
    BY <1>5, <2>1 DEF ActionRead
  <2> QED BY <1>1, <2>2
<1>6. CASE Crash
  BY <1>2, <1>6 DEF Crash
<1>7. CASE UNCHANGED http
  BY <1>7 DEF HoldInv
<1>8. CASE Reconcile \/ ReconcileFails
  BY <1>7, <1>8 DEF Reconcile, ReconcileList, ReconcileStep, ReconcileWrite, ReconcileDone, ReconcileFails
<1>9. CASE Environment \/ UNCHANGED vars
  BY <1>7, <1>9, EnvironmentInPlace
<1>10. CASE Requests
  BY <1>3, <1>4, <1>5, <1>10 DEF Requests
<1> QED BY <1>6, <1>8, <1>9, <1>10 DEF Next

LEMMA HoldInit ==
  ASSUME Init
  PROVE  HoldInv
<1>1. 1..Len(<<>>) = {}
  BY EmptySeq
<1>2. http = [h \in Handlers |-> None] /\ None.pc = "none" /\ orch.pc = "idle" /\ rollouts = <<>>
  BY DEF Init, None, Idle
<1>3. \A r, ro : ~HeldAs(r, ro)
  BY <1>2 DEF HeldAs
<1>4. \A r, ro : ~Around(r, ro)
  BY <1>1, <1>2, <1>3, AnyCopy DEF Around
<1> QED BY <1>2, <1>4 DEF HoldInv

\* Every row, and every copy of one, is fit for what may be done with it.
THEOREM HoldInvariant == Spec => [](ControlInv /\ HoldInv)
<1>1. Init => HoldInv
  BY HoldInit
<1>2. ControlInv /\ HoldInv /\ [Next]_vars => HoldInv'
  <2> SUFFICES ASSUME ControlInv, HoldInv, [Next]_vars PROVE HoldInv'
    OBVIOUS
  <2>1. OfAKind
    BY EveryKind, ControlConstants
  <2>2. \A r, ro : Around(r, ro)' => Fit(r, ro)'
    BY <2>1, SnapshotsStayFit, ControlConstants
  <2>3. \A h \in Handlers : http'[h].pc = "create" => Len(http'[h].spec.nodes) # 0
    BY RequestsAsk
  <2> QED BY <2>2, <2>3 DEF HoldInv
<1> QED BY <1>1, <1>2, ControlInvariant, PTL DEF Spec

-----------------------------------------------------------------------------
(* An abort is lost to snapshots from before it only *)

\* Nobody gets anything else out of an aborted rollout.
LEMMA AbortedStays ==
  ASSUME NEW ro, ro.state = "aborted", NEW w, NEW action \in {"pause", "resume", "abort"}
  PROVE  Step(ro, w).ro = ro /\ OperatorAction(action, ro) = ro
BY DEF Step, Outcome, OperatorAction, PauseForOperator, Resume, Abort, terminal

LEMMA AbortedStep ==
  ASSUME ControlInv, OfAKind, NEW r \in DOMAIN rollouts, Aborted(r)
  PROVE  Aborted(r)'
<1>1. r \in 1..Len(rollouts) /\ rollouts[r].state = "aborted" /\ \A ro \in Copies(r) : ro.state = "aborted"
  BY RowsTyped DEF ControlInv, Aborted
<1>2. CASE LeftAlone
  BY <1>1, <1>2 DEF LeftAlone, NothingHeldAnew, Aborted
<1>3. ASSUME NEW spec, Created(spec) PROVE Aborted(r)'
  BY <1>1, <1>3, RowAdded DEF Created, NothingHeldAnew, Aborted
<1>4. CASE RowsRead
  <2>1. \A ro : ReadFrom(r, ro) => ro.state = "aborted"
    BY <1>1, AbortedStays DEF ReadFrom
  <2> QED BY <1>1, <1>4, <2>1 DEF RowsRead, Aborted
<1>5. ASSUME NEW s, NEW c, NEW w, NEW out, NEW made, Advanced(s, c, w, out, made) PROVE Aborted(r)'
  <2>1. c \in Copies(s) /\ out = Step(c, w) /\ UNCHANGED rollouts
        /\ \A q : q \in Copies(r)' => q \in Copies(r) \/ (r = s /\ q = out.ro)
    BY <1>5 DEF Advanced
  <2>2. r = s => out.ro.state = "aborted"
    BY <1>1, <2>1, AbortedStays
  <2> QED BY <1>1, <2>1, <2>2 DEF Aborted
<1>6. ASSUME NEW s, NEW c, Written(s, c) PROVE Aborted(r)'
  <2>1. rollouts'[r] = (IF r = s THEN c ELSE rollouts[r]) /\ c \in Copies(s)
    BY <1>1, <1>6, RowReplaced DEF Written
  <2> QED BY <1>1, <1>6, <2>1 DEF Written, NothingHeldAnew, Aborted
<1> QED BY <1>2, <1>3, <1>4, <1>5, <1>6 DEF OfAKind

\* No pass, action, failed write or crash revives a rollout that is aborted wherever it is held.
THEOREM AbortsAreFinal == Spec => AbortYieldsOnlyToOlderReads
<1>1. ASSUME ControlInv, [Next]_vars
      PROVE  [\A r \in DOMAIN rollouts : Aborted(r) => Aborted(r)']_vars
  BY <1>1, EveryKind, ControlConstants, AbortedStep
<1> QED BY <1>1, ControlInvariant, PTL DEF Spec, AbortYieldsOnlyToOlderReads

-----------------------------------------------------------------------------
(* A rollback that is on record is not made again *)

LEMMA JobsOfKept ==
  ASSUME JobsInPlace
  PROVE  \A r : JobsOf(r)' = JobsOf(r) /\ \A n : RollbackJobs(r, n)' = RollbackJobs(r, n)
BY DEF JobsInPlace, RollbackJobs, JobsOf

\* The jobs that a turn of the loop makes are the jobs of its rollout.
LEMMA JobsMadeHere ==
  ASSUME JobsTyped, NEW r, NEW ro, NEW out, NEW made, MadeFor(r, ro, out, made),
         out.apply \in Seq(Nodes), out.rollback \in Seq(Nodes), jobs' = jobs \o made
  PROVE  /\ JobsOf(r) \subseteq JobsOf(r)'
         /\ \A s : s # r => JobsOf(s)' = JobsOf(s)
         /\ (out.apply = <<>> /\ out.rollback = <<>>) => UNCHANGED jobs
<1>1. PICK l, m, a, b : l = Len(jobs) /\ m = Len(made) /\ a = Len(out.apply) /\ b = Len(out.rollback)
  OBVIOUS
<1>2. /\ made \in Seq(Job) /\ a \in Nat /\ b \in Nat /\ m = a + b
      /\ \A i \in 1..a : made[i] = ApplyJob(r, ro, out.apply[i])
      /\ \A i \in 1..b : made[a + i] = RollbackJob(r, out.rollback[i])
  BY <1>1, LenProperties DEF MadeFor
<1>3. /\ l \in Nat /\ m \in Nat /\ DOMAIN jobs' = 1..l + m /\ DOMAIN jobs = 1..l
      /\ \A i \in 1..l : jobs'[i] = jobs[i]
      /\ \A i \in 1..m : jobs'[l + i] = made[i]
  BY <1>1, <1>2, JobsAdded, JobsLen
<1>4. ASSUME NEW i \in 1..m PROVE made[i].rollout = r
  <2>1. CASE i <= a
    <3>1. i \in 1..a
      BY <1>2, <2>1
    <3>2. made[i] = ApplyJob(r, ro, out.apply[i])
      BY <1>2, <3>1
    <3> QED BY <3>2 DEF ApplyJob
  <2>2. CASE ~(i <= a)
    <3>1. i - a \in 1..b /\ a + (i - a) = i
      BY <1>2, <1>3, <2>2
    <3>2. made[i] = RollbackJob(r, out.rollback[i - a])
      BY <1>2, <3>1
    <3> QED BY <3>2 DEF RollbackJob
  <2> QED BY <2>1, <2>2
<1>5. ASSUME NEW j \in 1..l + m, j \notin 1..l PROVE jobs'[j].rollout = r
  <2>1. j - l \in 1..m /\ l + (j - l) = j
    BY <1>3, <1>5
  <2>2. jobs'[j] = made[j - l]
    BY <1>3, <2>1
  <2> QED BY <1>4, <2>1, <2>2
<1>6. \A j \in 1..l : j \in 1..l + m
  BY <1>3
<1>7. JobsOf(r) \subseteq JobsOf(r)'
  BY <1>3, <1>6 DEF JobsOf
<1>8. \A s : s # r => JobsOf(s)' = JobsOf(s)
  BY <1>3, <1>5, <1>6 DEF JobsOf
<1>9. (out.apply = <<>> /\ out.rollback = <<>>) => UNCHANGED jobs
  <2> SUFFICES ASSUME out.apply = <<>>, out.rollback = <<>> PROVE jobs' = jobs
    OBVIOUS
  <2>1. m = 0
    BY <1>1, <1>2, EmptySeq
  <2>2. made = <<>>
    BY <1>1, <1>2, <2>1, EmptySeq
  <2>3. jobs \in Seq(Job)
    BY DEF JobsTyped
  <2> QED BY <2>2, <2>3, ConcatEmptySeq
<1> QED BY <1>7, <1>8, <1>9

\* New rollback jobs are for the nodes that the step rolls back.
LEMMA RollbacksMade ==
  ASSUME JobsTyped, NEW r, NEW ro, NEW out, NEW made, MadeFor(r, ro, out, made),
         out.apply \in Seq(Nodes), out.rollback \in Seq(Nodes), jobs' = jobs \o made,
         NEW s, NEW n, RollbackJobs(s, n)' # RollbackJobs(s, n)
  PROVE  s = r /\ \E i \in 1..Len(out.rollback) : out.rollback[i] = n
<1>1. PICK l, m, a, b : l = Len(jobs) /\ m = Len(made) /\ a = Len(out.apply) /\ b = Len(out.rollback)
  OBVIOUS
<1>2. /\ made \in Seq(Job) /\ a \in Nat /\ b \in Nat /\ m = a + b
      /\ \A i \in 1..a : made[i] = ApplyJob(r, ro, out.apply[i])
      /\ \A i \in 1..b : made[a + i] = RollbackJob(r, out.rollback[i])
  BY <1>1, LenProperties DEF MadeFor
<1>3. /\ l \in Nat /\ m \in Nat /\ DOMAIN jobs' = 1..l + m /\ DOMAIN jobs = 1..l
      /\ \A i \in 1..l : jobs'[i] = jobs[i]
      /\ \A i \in 1..m : jobs'[l + i] = made[i]
  BY <1>1, <1>2, JobsAdded, JobsLen
<1>4. \A j \in 1..l : j \in 1..l + m
  BY <1>3
<1>5. \A j \in RollbackJobs(s, n) : j \in RollbackJobs(s, n)'
  BY <1>3, <1>4 DEF RollbackJobs, JobsOf
<1>6. PICK j \in RollbackJobs(s, n)' : j \notin RollbackJobs(s, n)
  BY <1>5
<1>7. j \in 1..l + m /\ jobs'[j].kind = "rollback" /\ jobs'[j].node = n /\ jobs'[j].rollout = s
  BY <1>3, <1>6 DEF RollbackJobs, JobsOf
<1>8. j \notin 1..l
  BY <1>3, <1>6, <1>7 DEF RollbackJobs, JobsOf
<1>9. PICK i : i = j - l
  OBVIOUS
<1>10. i \in 1..m /\ l + i = j
  BY <1>3, <1>7, <1>8, <1>9
<1>11. jobs'[j] = made[i]
  BY <1>3, <1>10
<1>12. CASE i <= a
  <2>1. i \in 1..a
    BY <1>2, <1>10, <1>12
  <2>2. made[i] = ApplyJob(r, ro, out.apply[i])
    BY <1>2, <2>1
  <2> QED BY <1>7, <1>11, <2>2 DEF ApplyJob
<1>13. CASE ~(i <= a)
  <2>1. i - a \in 1..b /\ a + (i - a) = i
    BY <1>2, <1>10, <1>13
  <2>2. made[i] = RollbackJob(r, out.rollback[i - a])
    BY <1>2, <2>1
  <2>3. out.rollback[i - a] = n /\ s = r
    BY <1>7, <1>11, <2>2 DEF RollbackJob
  <2> QED BY <1>1, <2>1, <2>3
<1> QED BY <1>12, <1>13

LEMMA RecordKept ==
  ASSUME ControlInv, HoldInv, OfAKind, NEW r \in DOMAIN rollouts, NEW n \in Nodes, RolledBack(r, n)
  PROVE  RolledBack(r, n)'
<1>1. r \in 1..Len(rollouts) /\ rollouts[r].prog[n].rollback # 0
      /\ \A ro \in Copies(r) : ro.prog[n].rollback # 0
  BY RowsTyped DEF ControlInv, RolledBack
<1>2. CASE LeftAlone
  BY <1>1, <1>2 DEF LeftAlone, NothingHeldAnew, RolledBack
<1>3. ASSUME NEW spec, Created(spec) PROVE RolledBack(r, n)'
  BY <1>1, <1>3, RowAdded DEF Created, NothingHeldAnew, RolledBack
<1>4. CASE RowsRead
  <2>1. Fit(r, rollouts[r]) /\ Sound(r, rollouts[r])
    BY <1>1, AroundSound DEF HoldInv, Around
  <2>2. ASSUME NEW ro, ReadFrom(r, ro) PROVE ro.prog[n].rollback # 0
    <3>1. CASE ro = rollouts[r]
      BY <1>1, <3>1
    <3>2. ASSUME NEW action \in {"pause", "resume", "abort"}, ro = OperatorAction(action, rollouts[r])
          PROVE  ro.prog[n].rollback # 0
      BY <1>1, <2>1, <3>2, OperatorFit
    <3> QED BY <2>2, <3>1, <3>2 DEF ReadFrom
  <2> QED BY <1>1, <1>4, <2>2 DEF RowsRead, RolledBack
<1>5. ASSUME NEW s, NEW c, NEW w, NEW out, NEW made, Advanced(s, c, w, out, made) PROVE RolledBack(r, n)'
  <2>1. c \in Copies(s) /\ UNCHANGED rollouts
        /\ \A q : q \in Copies(r)' => q \in Copies(r) \/ (r = s /\ q = out.ro)
    BY <1>5 DEF Advanced
  <2>2. r = s => out.ro.prog[n].rollback # 0
    <3> SUFFICES ASSUME r = s PROVE out.ro.prog[n].rollback # 0
      OBVIOUS
    <3>1. Fit(s, c) /\ Sound(s, c) /\ Told(w) /\ (w.future <=> s \notin begun) /\ out = Step(c, w)
          /\ JobsTyped
      BY <1>5 DEF Advanced, CopyOf, Around, HoldInv, ControlInv, JobsOK
    <3>2. FollowedBy(c, out)
      BY <3>1, StepFit
    <3>3. Follows(c.prog[n], out.ro.prog[n]) /\ Tidy(c.prog[n])
      BY <3>1, <3>2 DEF FollowedBy, FollowsAll, Fit
    <3>4. c.prog[n].rollback # 0
      BY <1>1, <2>1
    <3> QED BY <3>3, <3>4 DEF Follows
  <2> QED BY <1>1, <2>1, <2>2 DEF RolledBack
<1>6. ASSUME NEW s, NEW c, Written(s, c) PROVE RolledBack(r, n)'
  <2>1. rollouts'[r] = (IF r = s THEN c ELSE rollouts[r]) /\ c \in Copies(s)
    BY <1>1, <1>6, RowReplaced DEF Written
  <2> QED BY <1>1, <1>6, <2>1 DEF Written, NothingHeldAnew, RolledBack
<1> QED BY <1>2, <1>3, <1>4, <1>5, <1>6 DEF OfAKind

LEMMA RollbackOnlyOffRecord ==
  ASSUME ControlInv, HoldInv, OfAKind, NEW r, NEW n \in Nodes,
         RollbackJobs(r, n)' # RollbackJobs(r, n)
  PROVE  Applied(r, n) /\ ~RolledBack(r, n)
<1>1. ~JobsInPlace
  BY JobsOfKept
<1>2. ~(LeftAlone \/ UNCHANGED jobs)
  BY <1>1 DEF LeftAlone, JobsInPlace
<1>3. PICK s, c, w, out, made : Advanced(s, c, w, out, made)
  BY <1>2 DEF OfAKind, Created, RowsRead, Written
<1>4. /\ JobsTyped /\ c \in Copies(s) /\ Fit(s, c) /\ Sound(s, c)
      /\ Told(w) /\ (w.future <=> s \notin begun) /\ out = Step(c, w) /\ StepOf(s, c, w, out)
      /\ MadeFor(s, c, out, made) /\ jobs' = jobs \o made
  BY <1>3 DEF Advanced, CopyOf, Around, HoldInv, ControlInv, JobsOK
<1>5. out.apply \in Seq(Nodes) /\ out.rollback \in Seq(Nodes)
      /\ SoundWith(s, out.ro, out.apply, out.rollback)
  BY <1>4 DEF StepOf
<1>6. s = r /\ \E i \in 1..Len(out.rollback) : out.rollback[i] = n
  BY <1>4, <1>5, RollbacksMade
<1>7. FollowedBy(c, out)
  BY <1>4, StepFit
<1>8. c.prog[n].rollback = 0 /\ out.ro.prog[n].state = "succeeded"
  BY <1>4, <1>6, <1>7 DEF FollowedBy, Fit
<1>9. ~RolledBack(r, n)
  BY <1>4, <1>6, <1>8 DEF RolledBack
<1>10. TrueProgress(s, n, out.ro.prog[n], out.apply, out.rollback) /\ out.ro.prog[n] \in Progress
  BY <1>5 DEF SoundWith, Snapshot
<1>11. Applied(s, n)
  BY <1>4, <1>8, <1>10, SucceededApplied
<1> QED BY <1>6, <1>9, <1>11

\* Once a node's rollback is in the row and in every snapshot held of it, no pass
\* makes another; and one is made only where an apply of the rollout completed.
THEOREM RollsBackOnce == Spec => RollbackOnceOnRecord
<1>1. ASSUME ControlInv, HoldInv, [Next]_vars
      PROVE  [\A r \in DOMAIN rollouts, n \in Nodes :
                /\ RollbackJobs(r, n)' # RollbackJobs(r, n) => Applied(r, n) /\ ~RolledBack(r, n)
                /\ RolledBack(r, n) => RolledBack(r, n)']_vars
  <2>1. OfAKind
    BY <1>1, EveryKind, ControlConstants
  <2> QED BY <1>1, <2>1, RecordKept, RollbackOnlyOffRecord
<1> QED BY <1>1, HoldInvariant, PTL DEF Spec, RollbackOnceOnRecord

-----------------------------------------------------------------------------
(* Rows, drafts and jobs move as RolloutLifecycle says *)

Phase == [r \in 1..MaxRollouts |-> PhaseOf(r)]
Drafts == [r \in 1..MaxRollouts |-> DraftsOf(r)]
Made == [r \in 1..MaxRollouts |-> JobsOf(r)]

LEMMA MovedReaches ==
  ASSUME NEW p \in RolloutStates, NEW q, Moved(p, q)
  PROVE  Lifecycle!Reaches(p, q)
BY DEF Moved, RolloutStates, Lifecycle!Reaches, Lifecycle!Moves, Lifecycle!Phases, Lifecycle!UnderWay,
       Lifecycle!Waiting

LEMMA DraftsAre ==
  ASSUME ControlInv
  PROVE  \A r, d : d \in DraftsOf(r) => d \in RolloutStates
BY CopiesSound DEF DraftsOf, CopyOf, Sound, SoundWith, Snapshot

LEMMA DraftsTyped ==
  ASSUME ControlInv
  PROVE  Drafts \in [1..MaxRollouts -> SUBSET Lifecycle!Phases]
<1>1. RolloutStates = Lifecycle!Phases
  BY DEF RolloutStates, Lifecycle!Phases, Lifecycle!UnderWay, Lifecycle!Waiting
<1>2. \A r : DraftsOf(r) \subseteq Lifecycle!Phases
  BY <1>1, DraftsAre
<1> QED BY <1>2 DEF Drafts

\* A copy that is new to r is a draft that is new, or known by its state.
LEMMA NewDraft ==
  ASSUME NEW r, NEW d \in DraftsOf(r)'
  PROVE  d \in DraftsOf(r) \/ \E ro : ro \in Copies(r)' /\ ro \notin Copies(r) /\ d = ro.state
<1>1. PICK ro \in Copies(r)' : d = ro.state
  BY DEF DraftsOf
<1> QED BY <1>1 DEF DraftsOf

LEMMA NothingNewDrafted ==
  ASSUME NothingHeldAnew
  PROVE  \A r : DraftsOf(r)' \subseteq DraftsOf(r)
BY NewDraft DEF NothingHeldAnew

LEMMA ReadRefines ==
  ASSUME ControlInv, HoldInv, RowsRead
  PROVE  Lifecycle!Read
<1>1. Phase' = Phase /\ Made' = Made
  BY DEF RowsRead, Phase, Made, PhaseOf, JobsOf
<1>2. ASSUME NEW r \in 1..MaxRollouts, NEW d \in DraftsOf(r)'
      PROVE  d \in DraftsOf(r) \/ Lifecycle!Reaches(PhaseOf(r), d)
  <2>1. CASE d \in DraftsOf(r)
    BY <2>1
  <2>2. CASE \E ro : ro \in Copies(r)' /\ ro \notin Copies(r) /\ d = ro.state
    <3>1. PICK ro : ReadFrom(r, ro) /\ d = ro.state
      BY <2>2 DEF RowsRead
    <3>2. r \in 1..Len(rollouts) /\ Around(r, rollouts[r]) /\ PhaseOf(r) = rollouts[r].state
      BY <3>1, RowsTyped DEF ReadFrom, Around, ControlInv, PhaseOf
    <3>3. Fit(r, rollouts[r]) /\ Sound(r, rollouts[r]) /\ rollouts[r].state \in RolloutStates
      BY <3>2, AroundSound DEF HoldInv, Sound, SoundWith, Snapshot
    <3>4. Moved(rollouts[r].state, ro.state)
      <4>1. CASE ro = rollouts[r]
        BY <4>1 DEF Moved
      <4>2. ASSUME NEW action \in {"pause", "resume", "abort"}, ro = OperatorAction(action, rollouts[r])
            PROVE  Moved(rollouts[r].state, ro.state)
        BY <3>3, <4>2, OperatorFit
      <4> QED BY <3>1, <4>1, <4>2 DEF ReadFrom
    <3> QED BY <3>1, <3>2, <3>3, <3>4, MovedReaches
  <2> QED BY <2>1, <2>2, NewDraft
<1>3. \A r \in 1..MaxRollouts : \A d \in Drafts'[r] : d \in Drafts[r] \/ Lifecycle!Reaches(Phase[r], d)
  BY <1>2 DEF Drafts, Phase
<1> QED BY <1>1, <1>3 DEF Lifecycle!Read, Phase, Drafts, Made

LEMMA LeftAloneRefines ==
  ASSUME LeftAlone
  PROVE  Lifecycle!Read
<1>1. Phase' = Phase /\ Made' = Made
  BY JobsOfKept DEF LeftAlone, Phase, Made, PhaseOf
<1>2. \A r \in 1..MaxRollouts : \A d \in Drafts'[r] : d \in Drafts[r]
  BY NothingNewDrafted DEF LeftAlone, Drafts
<1> QED BY <1>1, <1>2 DEF Lifecycle!Read, Phase, Drafts, Made

LEMMA CreatedRefines ==
  ASSUME ControlInv, HoldInv, NEW spec, Len(spec.nodes) # 0, Created(spec)
  PROVE  \E r \in 1..MaxRollouts : Lifecycle!Announce(r)
<1>1. PICK r, new : r = Len(rollouts) + 1 /\ new = NewRollout(spec)
  OBVIOUS
<1>2. /\ DOMAIN rollouts = 1..Len(rollouts) /\ DOMAIN rollouts' = 1..Len(rollouts')
      /\ r \in 1..MaxRollouts /\ rollouts'[r] = new /\ r \notin 1..Len(rollouts)
      /\ \A s \in 1..Len(rollouts) : rollouts'[s] = rollouts[s]
      /\ \A s : s \in 1..Len(rollouts') <=> s \in 1..Len(rollouts) \/ s = r
  BY <1>1, RowAdded
<1>3. PICK p \in {"pending", "scheduled"} : p = new.state
  BY <1>1, NewFit DEF Created
<1>4. PhaseOf(r) = "none" /\ PhaseOf(r)' = p /\ \A s : s # r => PhaseOf(s)' = PhaseOf(s)
  BY <1>2, <1>3 DEF PhaseOf
<1>5. Phase[r] = "none" /\ Phase' = [Phase EXCEPT ![r] = p]
  BY <1>2, <1>4 DEF Phase
<1>6. Made' = Made
  BY DEF Created, Made, JobsOf
<1>7. \A s \in 1..MaxRollouts : Drafts'[s] \subseteq Drafts[s]
  BY NothingNewDrafted DEF Created, Drafts
<1>8. Lifecycle!Announce(r)
  BY <1>3, <1>5, <1>6, <1>7
     DEF Lifecycle!Announce, Lifecycle!Waiting, Lifecycle!NothingNew, Phase, Drafts, Made
<1> QED BY <1>2, <1>8

LEMMA AdvancedRefines ==
  ASSUME ControlInv, HoldInv, NEW r, NEW ro, NEW w, NEW out, NEW made, Advanced(r, ro, w, out, made)
  PROVE  r \in 1..MaxRollouts /\ Lifecycle!Work(r)
<1>1. /\ JobsTyped /\ ro \in Copies(r) /\ Fit(r, ro) /\ Sound(r, ro) /\ r \in 1..MaxRollouts
      /\ Told(w) /\ (w.future <=> r \notin begun) /\ out = Step(ro, w) /\ StepOf(r, ro, w, out)
      /\ MadeFor(r, ro, out, made) /\ jobs' = jobs \o made /\ UNCHANGED rollouts
      /\ \A s, c : c \in Copies(s)' => c \in Copies(s) \/ (s = r /\ c = out.ro)
  BY DEF Advanced, CopyOf, Around, HoldInv, ControlInv, JobsOK
<1>2. PICK p : p = ro.state
  OBVIOUS
<1>3. p \in DraftsOf(r) /\ p \in RolloutStates
  BY <1>1, <1>2, DraftsAre DEF DraftsOf
<1>4. /\ Moved(p, out.ro.state)
      /\ (out.apply = <<>> /\ out.rollback = <<>>) \/ p \in {"pending", "scheduled", "running"}
  BY <1>1, <1>2, StepFit
<1>5. /\ JobsOf(r) \subseteq JobsOf(r)'
      /\ \A s : s # r => JobsOf(s)' = JobsOf(s)
      /\ (out.apply = <<>> /\ out.rollback = <<>>) => UNCHANGED jobs
  BY <1>1, JobsMadeHere DEF StepOf
<1>6. ASSUME NEW d \in DraftsOf(r)' PROVE d \in DraftsOf(r) \/ Lifecycle!Reaches(p, d)
  <2>1. d \in DraftsOf(r) \/ d = out.ro.state
    BY <1>1, <1>6, NewDraft
  <2> QED BY <1>3, <1>4, <2>1, MovedReaches
<1>7. ASSUME NEW s, s # r PROVE DraftsOf(s)' \subseteq DraftsOf(s)
  BY <1>1, <1>7, NewDraft
<1>8. JobsOf(r)' # JobsOf(r) => p \in {"pending", "scheduled", "running"}
  BY <1>4, <1>5 DEF JobsOf
<1>9. /\ p \in Drafts[r]
      /\ \A d \in Drafts'[r] : d \in Drafts[r] \/ Lifecycle!Reaches(p, d)
      /\ Made'[r] # Made[r] => p \in {"pending", "scheduled", "running"}
      /\ Made[r] \subseteq Made'[r]
      /\ \A s \in (1..MaxRollouts) \ {r} : Made'[s] = Made[s] /\ Drafts'[s] \subseteq Drafts[s]
  BY <1>1, <1>3, <1>5, <1>6, <1>7, <1>8 DEF Drafts, Made
<1>10. Phase' = Phase
  BY <1>1 DEF Phase, PhaseOf
<1>11. Lifecycle!Work(r)
  BY <1>9, <1>10
     DEF Lifecycle!Work, Lifecycle!UnderWay, Lifecycle!Waiting, Lifecycle!NothingNew, Phase, Drafts, Made
<1> QED BY <1>1, <1>11

LEMMA WrittenRefines ==
  ASSUME ControlInv, NEW r, NEW ro, Written(r, ro)
  PROVE  r \in 1..MaxRollouts /\ Lifecycle!Write(r)
<1>1. /\ DOMAIN rollouts = 1..Len(rollouts) /\ DOMAIN rollouts' = DOMAIN rollouts
      /\ \A s \in 1..Len(rollouts) : rollouts'[s] = IF s = r THEN ro ELSE rollouts[s]
      /\ r \in 1..Len(rollouts) /\ ro \in Copies(r) /\ UNCHANGED jobs /\ NothingHeldAnew
  BY RowReplaced DEF Written
<1>2. r \in 1..MaxRollouts
  BY <1>1, RowsTyped, ControlConstants DEF ControlInv, RowsOK, ControlConstants
<1>3. PICK d : d = ro.state
  OBVIOUS
<1>4. d \in DraftsOf(r)
  BY <1>1, <1>3 DEF DraftsOf
<1>5. PhaseOf(r)' = d /\ \A s : s # r => PhaseOf(s)' = PhaseOf(s)
  BY <1>1, <1>3 DEF PhaseOf
<1>6. d \in Drafts[r] /\ Phase' = [Phase EXCEPT ![r] = d]
  BY <1>2, <1>4, <1>5 DEF Drafts, Phase
<1>7. Made' = Made
  BY <1>1 DEF Made, JobsOf
<1>8. \A s \in 1..MaxRollouts : Drafts'[s] \subseteq Drafts[s]
  BY <1>1, NothingNewDrafted DEF Drafts
<1>9. Lifecycle!Write(r)
  BY <1>6, <1>7, <1>8 DEF Lifecycle!Write, Lifecycle!NothingNew, Phase, Drafts, Made
<1> QED BY <1>2, <1>9

LEMMA LifecycleInit ==
  ASSUME Init
  PROVE  Lifecycle!LInit
<1>1. DOMAIN <<>> = {} /\ 1..Len(<<>>) = {}
  BY EmptySeq
<1>2. http = [h \in Handlers |-> None] /\ None.pc = "none" /\ orch.pc = "idle"
  BY DEF Init, None, Idle
<1>3. \A r, ro : ~HeldAs(r, ro)
  BY <1>2 DEF HeldAs
<1>4. \A r : PhaseOf(r) = "none" /\ JobsOf(r) = {} /\ DraftsOf(r) = {}
  BY <1>1, <1>3, AnyCopy DEF Init, PhaseOf, JobsOf, DraftsOf
<1> QED BY <1>4 DEF Lifecycle!LInit

LEMMA LifecycleStep ==
  ASSUME ControlInv, HoldInv, ControlInv', OfAKind
  PROVE  Lifecycle!LNext
<1>1. Drafts' \in [1..MaxRollouts -> SUBSET Lifecycle!Phases]
  <2>1. (ControlInv => Drafts \in [1..MaxRollouts -> SUBSET Lifecycle!Phases])'
    BY DraftsTyped, PTL
  <2> QED BY <2>1
<1>2. \/ Lifecycle!Read
      \/ \E r \in 1..MaxRollouts : Lifecycle!Announce(r) \/ Lifecycle!Work(r) \/ Lifecycle!Write(r)
  <2>1. ASSUME NEW h \in Handlers, http[h].pc = "create", Created(http[h].spec)
        PROVE  \E r \in 1..MaxRollouts : Lifecycle!Announce(r)
    <3>1. PICK spec : spec = http[h].spec
      OBVIOUS
    <3>2. Created(spec) /\ Len(spec.nodes) # 0
      BY <2>1, <3>1 DEF HoldInv
    <3> QED BY <3>2, CreatedRefines
  <2> QED BY <2>1, LeftAloneRefines, ReadRefines, AdvancedRefines, WrittenRefines DEF OfAKind
<1> QED BY <1>1, <1>2 DEF Lifecycle!LNext, Drafts

\* However passes, requests, crashes and failed writes interleave, what is written to a
\* row is one move away from what was read of it, and jobs are made only for a rollout
\* that was read under way.
THEOREM RolloutsFollowTheirLifecycle == Spec => RefinesRolloutLifecycle
<1>1. Init => Lifecycle!LInit
  BY LifecycleInit
<1>2. ControlInv /\ HoldInv /\ (ControlInv /\ HoldInv)' /\ [Next]_vars => Lifecycle!LNext
  BY EveryKind, ControlConstants, LifecycleStep
<1> QED BY <1>1, <1>2, HoldInvariant, PTL
       DEF Spec, RefinesRolloutLifecycle, Lifecycle!LSpec, Lifecycle!lvars
=============================================================================
