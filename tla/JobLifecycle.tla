-------------------------- MODULE JobLifecycle --------------------------
(***************************************************************************)
(* What the job store promises its callers, whatever they call and in      *)
(* whatever order: a job is handed to a sidecar at most once, it is        *)
(* settled at most once, a settled job never changes its verdict, and the  *)
(* report that came with a verdict is replaced only while the verdict was  *)
(* the server's own (an expired lease) and the sidecar's is still missing  *)
(* or late.                                                                *)
(***************************************************************************)
CONSTANTS JobIDs, Reports, NoReport

VARIABLES
  phase,    \* where each job is in its life
  report    \* the report stored with each job, and who gave the verdict

Phases == {"absent", "pending", "claimed", "completed", "rejected", "lapsed", "deleted"}

LInit ==
  /\ phase = [id \in JobIDs |-> "absent"]
  /\ report = [id \in JobIDs |-> NoReport]

\* The life of one job.  "rejected" is a failure the sidecar reported, "lapsed"
\* a failure the server declared because the lease ran out.
Moves == { <<"absent", "pending">>, <<"pending", "claimed">>,
           <<"claimed", "completed">>, <<"claimed", "rejected">>, <<"claimed", "lapsed">>,
           <<"pending", "deleted">>, <<"claimed", "deleted">>,
           <<"completed", "deleted">>, <<"rejected", "deleted">>, <<"lapsed", "deleted">> }

JobStep(id) ==
  \/ /\ phase'[id] = phase[id]
     /\ \/ report'[id] = report[id]
        \/ phase[id] = "lapsed" /\ report'[id] \in Reports
  \/ /\ <<phase[id], phase'[id]>> \in Moves
     /\ \/ report'[id] = report[id]
        \/ phase'[id] \in {"completed", "rejected"} /\ report'[id] \in Reports
        \/ phase'[id] = "deleted" /\ report'[id] = NoReport

LNext ==
  /\ \A id \in JobIDs : JobStep(id)
  /\ DOMAIN phase' = JobIDs
  /\ DOMAIN report' = JobIDs

LSpec == LInit /\ [][LNext]_<<phase, report>>
=============================================================================
