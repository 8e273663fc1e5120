------------------------- MODULE RolloutLifecycle -------------------------
(***************************************************************************)
(* What a rollout promises its operator, who shares it with others: it      *)
(* waits, runs, may pause and be resumed, and ends.  Whoever works on a     *)
(* rollout does so on a draft: the state it was read in, or one move away   *)
(* from it.  A draft replaces the state whatever that is by then, or is     *)
(* forgotten; jobs are made only while the draft at hand is under way.      *)
(***************************************************************************)
CONSTANT Rollouts

VARIABLES
  phase,  \* the state the operator is shown; "none" before creation
  drafts, \* the states that requests and passes hold of the rollout
  work    \* the jobs made for the rollout so far

lvars == <<phase, drafts, work>>

Waiting == {"pending", "scheduled"}
UnderWay == Waiting \cup {"running"}
Phases == UnderWay \cup {"paused", "completed", "aborted"}

\* The moves: hold, run, pause, complete, abandon.  Nothing leads out of an end.
Moves ==
  ({"pending", "running"} \X {"scheduled"})
    \cup ((Waiting \cup {"paused"}) \X {"running"})
    \cup (UnderWay \X {"paused"})
    \cup ({"running"} \X {"completed"})
    \cup ((UnderWay \cup {"paused"}) \X {"aborted"})

Reaches(p, q) == p \in Phases /\ (p = q \/ <<p, q>> \in Moves)

LInit ==
  /\ phase = [r \in Rollouts |-> "none"]
  /\ drafts = [r \in Rollouts |-> {}]
  /\ work = [r \in Rollouts |-> {}]

\* No rollout has a new draft; some may be forgotten.
NothingNew(S) == \A q \in S : drafts'[q] \subseteq drafts[q]

Announce(r) ==
  /\ phase[r] = "none"
  /\ \E p \in Waiting : phase' = [phase EXCEPT ![r] = p]
  /\ NothingNew(Rollouts)
  /\ UNCHANGED work

\* A request or a pass reads, and drafts what it makes of what it read.
Read ==
  /\ \A q \in Rollouts : \A d \in drafts'[q] : d \in drafts[q] \/ Reaches(phase[q], d)
  /\ UNCHANGED <<phase, work>>

\* A draft is worked on.  Jobs are added, never taken back.
Work(r) ==
  /\ \E p \in drafts[r] :
       /\ \A d \in drafts'[r] : d \in drafts[r] \/ Reaches(p, d)
       /\ work'[r] # work[r] => p \in UnderWay
  /\ work[r] \subseteq work'[r]
  /\ \A q \in Rollouts \ {r} : work'[q] = work[q]
  /\ NothingNew(Rollouts \ {r})
  /\ UNCHANGED phase

Write(r) ==
  /\ \E d \in drafts[r] : phase' = [phase EXCEPT ![r] = d]
  /\ NothingNew(Rollouts)
  /\ UNCHANGED work

LNext ==
  /\ drafts' \in [Rollouts -> SUBSET Phases]
  /\ Read \/ \E r \in Rollouts : Announce(r) \/ Work(r) \/ Write(r)

LSpec == LInit /\ [][LNext]_lvars
=============================================================================
