------------------------- MODULE ConfigApplyProofs -------------------------
(***************************************************************************)
(* Proofs about ConfigApply, for any number of configs, secrets and plans   *)
(* and any retention.  Where a job stands (pc) determines what is on the    *)
(* disk, what the job remembers and what the backups hold; IndInv says so   *)
(* step by step, and the properties are what is left of it when pc is       *)
(* "idle".                                                                  *)
(***************************************************************************)
EXTENDS ConfigApply, TLAPS

\* Steps of an apply before and after the live config is replaced.
EarlySteps == {"read", "backup", "render", "secrets", "env_backup", "replace"}
LateSteps == {"verify", "env_replace", "restart", "health", "undo", "undo_env"}
RestoreSteps == {"restore", "restore_verify", "restore_restart", "restore_health"}
BounceSteps == {"bounce", "bounce_health"}

\* An apply that is done and has only its old runs to prune, live or dry.
LiveDone == pc = "prune" /\ plan.live
DryDone == pc = "prune" /\ ~plan.live

\* The result is about the plan at hand, and has no verdict before the end.
ReportOfPlan ==
  /\ report.plan = plan.id /\ report.live = plan.live
  /\ pc # "idle" => report.verdict = "none"
  /\ pc # "idle" => (report.kind = "rollback" <=> pc \in RestoreSteps)
  /\ pc # "idle" => (report.kind = "restart" <=> pc \in BounceSteps)

\* The steps that touch live files are steps of a live plan, those about the env
\* file of one with managed secrets.
StepOfPlan ==
  /\ pc \in {"secrets", "env_backup", "replace"} \cup LateSteps \cup RestoreSteps \cup BounceSteps
       => plan.live
  /\ pc \in {"secrets", "env_backup", "env_replace"} => plan.env # NoEnv

\* Before the replacement, in a dry run and in a restart job, the disk is as it was.
Untouched == pc \in EarlySteps \cup BounceSteps \/ DryDone => disk = before

\* What the undo needs has been read before anything was replaced.
Remembered ==
  /\ pc \in (EarlySteps \ {"read"}) \cup LateSteps => saved.config = before.config
  /\ pc \in {"replace"} \cup LateSteps /\ plan.env # NoEnv => saved.env = before.env

\* How far a live apply has come.
InPlace ==
  /\ pc \in {"verify", "env_replace", "restart", "health"} \/ LiveDone => disk.config = plan.config
  /\ pc \in {"restart", "health"} \/ LiveDone => (plan.env # NoEnv => disk.env = plan.env)
  /\ pc \in LateSteps \/ LiveDone => (plan.env = NoEnv => disk.env = before.env)
  /\ pc = "health" \/ LiveDone => runtime = disk
  /\ LiveDone => healthy

\* The first half of the undo worked, or is known not to have.
HalfUndone == pc = "undo_env" /\ ~broken => disk.config = before.config

\* A backup is in a run directory and is the config from before its plan's apply.
BackupsTrue ==
  /\ \A p \in PlanIDs : \A c \in backups[p] : p \in runDirs /\ c = original[p]
  /\ pc \in EarlySteps => original[plan.id] = before.config
  /\ pc \in EarlySteps \ {"read"} => plan.id \in runDirs

\* How far a rollback or a restart job has come.
Restored ==
  /\ pc \in {"restore_verify", "restore_restart", "restore_health"} =>
       disk.config = original[plan.id]
  /\ pc \in {"restore_health", "bounce_health"} => runtime = disk

Stages == ReportOfPlan /\ StepOfPlan /\ Untouched /\ Remembered /\ InPlace /\ HalfUndone
            /\ BackupsTrue /\ Restored

Outcomes == FailedApplyLeavesNoTrace /\ CompletedIsLive /\ CompletedRollbackRestores

IndInv == TypeOK /\ Stages /\ Outcomes

-----------------------------------------------------------------------------
(* Types *)

LEMMA DiskType ==
  ASSUME NEW d \in Disk
  PROVE  /\ d.config \in Configs /\ d.env \in Envs
         /\ \A c \in Configs : [d EXCEPT !.config = c] \in Disk
         /\ \A e \in Envs : [d EXCEPT !.env = e] \in Disk
BY DEF Disk

LEMMA ReportType ==
  ASSUME NEW r \in Report, NEW v \in Verdicts
  PROVE  [r EXCEPT !.verdict = v] \in Report
BY DEF Report

LEMMA PlanType ==
  ASSUME NEW p \in Plan
  PROVE  /\ p.id \in PlanIDs /\ p.live \in BOOLEAN /\ p.config \in Configs /\ p.env \in Envs
         /\ \A live \in BOOLEAN : [p EXCEPT !.live = live] \in Plan
BY DEF Plan

LEMMA InitType == Init => TypeOK
<1> SUFFICES ASSUME Init PROVE TypeOK
  OBVIOUS
<1>1. plan \in Plan /\ disk.config \in Configs
  BY DiskType DEF Init
<1>2. report \in Report
  BY <1>1, PlanType DEF Init, Report, Verdicts
<1> QED
  BY <1>1, <1>2 DEF Init, TypeOK

LEMMA NextType == TypeOK /\ [Next]_vars => TypeOK'
<1> SUFFICES ASSUME TypeOK, [Next]_vars PROVE TypeOK'
  OBVIOUS
<1> USE DiskType, ReportType, PlanType
<1> USE DEF TypeOK, Steps, Verdicts, At, Ends, Goes, files, store, job
<1>1. ASSUME NEW p \in Plan, StartApply(p) PROVE TypeOK'
  BY <1>1 DEF StartApply, Begin, Accepted, Report
<1>2. ASSUME NEW p \in Plan, StartRollback(p) PROVE TypeOK'
  <2>1. report' \in Report /\ pc' \in Steps \cup {"idle"}
    BY <1>2 DEF StartRollback, Report
  <2> QED
    BY <1>2, <2>1 DEF StartRollback, Begin
<1>3. CASE ReadConfig
  BY <1>3 DEF ReadConfig
<1>4. CASE WriteBackup
  BY <1>4 DEF WriteBackup
<1>5. CASE Render
  BY <1>5 DEF Render
<1>6. CASE FetchSecrets
  BY <1>6 DEF FetchSecrets
<1>7. CASE prepareManagedEnv
  BY <1>7 DEF prepareManagedEnv
<1>8. CASE FailEarly
  BY <1>8 DEF FailEarly
<1>9. CASE ReplaceConfig
  BY <1>9 DEF ReplaceConfig
<1>10. CASE VerifyWritten
  BY <1>10 DEF VerifyWritten
<1>11. CASE replaceManagedEnv
  BY <1>11 DEF replaceManagedEnv
<1>12. CASE Restart
  BY <1>12 DEF Restart
<1>13. CASE HealthCheck
  BY <1>13 DEF HealthCheck
<1>14. CASE FailLate
  BY <1>14 DEF FailLate, RestartBotched
<1>15. CASE Prune
  BY <1>15 DEF Prune, Pruned
<1>16. CASE RestoreBackup
  <2>1. PICK c \in backups[plan.id] : disk' = [disk EXCEPT !.config = c]
    BY <1>16 DEF RestoreBackup
  <2>2. backups[plan.id] \in {{}} \cup {{x} : x \in Configs}
    OBVIOUS
  <2>3. c \in Configs
    BY <2>1, <2>2
  <2> QED
    BY <1>16, <2>1, <2>3 DEF RestoreBackup
<1>17. CASE RestoreVerified
  BY <1>17 DEF RestoreVerified
<1>18. CASE RestoreRestart
  BY <1>18 DEF RestoreRestart
<1>19. CASE RestoreHealthy
  BY <1>19 DEF RestoreHealthy
<1>20. CASE RestoreFails
  BY <1>20 DEF RestoreFails, RestartBotched
<1>21. CASE Die
  BY <1>21 DEF Die
<1>22. ASSUME NEW ok \in BOOLEAN, RestoreConfig(ok) PROVE TypeOK'
  BY <1>22 DEF RestoreConfig
<1>23. ASSUME NEW ok \in BOOLEAN, RestoreEnv(ok) PROVE TypeOK'
  BY <1>23 DEF RestoreEnv
<1>24. ASSUME NEW d \in Disk, LocalEdit(d) PROVE TypeOK'
  BY <1>24 DEF LocalEdit
<1>25. ASSUME NEW live \in BOOLEAN, StartRestart(live) PROVE TypeOK'
  <2>1. plan' \in Plan
    BY <1>25 DEF StartRestart, Begin
  <2>2. PICK controller \in BOOLEAN :
          report' = [kind |-> "restart", live |-> live, plan |-> plan.id,
                     verdict |-> IF ~live THEN "completed"
                                 ELSE IF live /\ AllowLive /\ controller THEN "none" ELSE "failed"]
    BY <1>25 DEF StartRestart
  <2>3. report' \in Report
    BY <2>2 DEF Report
  <2>4. pc' \in Steps \cup {"idle"}
    BY <1>25 DEF StartRestart
  <2> QED
    BY <1>25, <2>1, <2>3, <2>4 DEF StartRestart, Begin
<1>26. CASE Bounce
  BY <1>26 DEF Bounce
<1>27. CASE BounceHealthy
  BY <1>27 DEF BounceHealthy
<1>28. CASE BounceFails
  BY <1>28 DEF BounceFails, RestartBotched
<1>29. CASE UNCHANGED vars
  BY <1>29 DEF vars
<1> QED
  BY <1>1, <1>2, <1>3, <1>4, <1>5, <1>6, <1>7, <1>8, <1>9, <1>10, <1>11, <1>12, <1>13, <1>14,
     <1>15, <1>16, <1>17, <1>18, <1>19, <1>20, <1>21, <1>22, <1>23, <1>24, <1>25, <1>26,
     <1>27, <1>28, <1>29
  DEF Next, Apply, Rollback, RestartJob

-----------------------------------------------------------------------------
(* Stages and outcomes *)

LEMMA InitStages == Init => Stages /\ Outcomes
<1> SUFFICES ASSUME Init PROVE Stages /\ Outcomes
  OBVIOUS
<1>1. /\ pc = "idle" /\ plan \in Plan /\ plan.live = FALSE
      /\ report = [kind |-> "apply", live |-> FALSE, plan |-> plan.id, verdict |-> "none"]
  BY DEF Init, Plan
<1>2. BackupsTrue
  BY <1>1 DEF Init, BackupsTrue, EarlySteps
<1>3. Stages
  BY <1>1, <1>2 DEF Stages, ReportOfPlan, StepOfPlan, Untouched, Remembered, InPlace, HalfUndone,
        Restored, LiveDone, DryDone, EarlySteps, LateSteps, RestoreSteps, BounceSteps
<1>4. Outcomes
  BY <1>1 DEF Outcomes, FailedApplyLeavesNoTrace, CompletedIsLive, CompletedRollbackRestores
<1> QED
  BY <1>3, <1>4

\* What each step of Execute and of executeRollback relies on, the step before it
\* has established.
LEMMA NextStages == TypeOK /\ Stages /\ [Next]_vars => Stages'
<1> SUFFICES ASSUME TypeOK, Stages, [Next]_vars PROVE Stages'
  OBVIOUS
<1>0. /\ disk \in Disk /\ saved \in Disk /\ before \in Disk /\ report \in Report /\ plan \in Plan
      /\ backups \in [PlanIDs -> {{}} \cup {{c} : c \in Configs}]
      /\ original \in [PlanIDs -> Configs]
  BY DEF TypeOK
<1> USE <1>0
<1> USE DEF Stages, ReportOfPlan, StepOfPlan, Untouched, Remembered, InPlace, HalfUndone,
        BackupsTrue, Restored, LiveDone, DryDone, EarlySteps, LateSteps, RestoreSteps, BounceSteps,
        At, Ends, Goes, files, store, job, Disk, Plan, Report
<1>1. ASSUME NEW p \in Plan, StartApply(p) PROVE Stages'
  BY <1>1 DEF StartApply, Begin, Accepted
<1>2. ASSUME NEW p \in Plan, StartRollback(p) PROVE Stages'
  BY <1>2 DEF StartRollback, Begin
<1>3. CASE ReadConfig
  BY <1>3 DEF ReadConfig
<1>4. CASE WriteBackup
  <2>1. saved.config = original[plan.id] /\ plan.id \in runDirs
    BY <1>4 DEF WriteBackup
  <2>2. BackupsTrue'
    BY <1>4, <2>1 DEF WriteBackup
  <2> QED
    BY <1>4, <2>2 DEF WriteBackup
<1>5. CASE Render
  BY <1>5 DEF Render
<1>6. CASE FetchSecrets
  BY <1>6 DEF FetchSecrets
<1>7. CASE prepareManagedEnv
  BY <1>7 DEF prepareManagedEnv
<1>8. CASE FailEarly
  BY <1>8 DEF FailEarly
<1>9. CASE ReplaceConfig
  BY <1>9 DEF ReplaceConfig
<1>10. CASE VerifyWritten
  BY <1>10 DEF VerifyWritten
<1>11. CASE replaceManagedEnv
  BY <1>11 DEF replaceManagedEnv
<1>12. CASE Restart
  BY <1>12 DEF Restart
<1>13. CASE HealthCheck
  BY <1>13 DEF HealthCheck
<1>14. CASE FailLate
  BY <1>14 DEF FailLate, RestartBotched
<1>15. CASE Prune
  BY <1>15 DEF Prune, Pruned
<1>16. CASE RestoreBackup
  BY <1>16 DEF RestoreBackup
<1>17. CASE RestoreVerified
  BY <1>17 DEF RestoreVerified
<1>18. CASE RestoreRestart
  BY <1>18 DEF RestoreRestart
<1>19. CASE RestoreHealthy
  BY <1>19 DEF RestoreHealthy
<1>20. CASE RestoreFails
  BY <1>20 DEF RestoreFails, RestartBotched
<1>21. CASE Die
  BY <1>21 DEF Die
<1>22. ASSUME NEW ok \in BOOLEAN, RestoreConfig(ok) PROVE Stages'
  BY <1>22 DEF RestoreConfig
<1>23. ASSUME NEW ok \in BOOLEAN, RestoreEnv(ok) PROVE Stages'
  BY <1>23 DEF RestoreEnv
<1>24. ASSUME NEW d \in Disk, LocalEdit(d) PROVE Stages'
  BY <1>24 DEF LocalEdit
<1>25. ASSUME NEW live \in BOOLEAN, StartRestart(live) PROVE Stages'
  BY <1>25 DEF StartRestart, Begin
<1>26. CASE Bounce
  BY <1>26 DEF Bounce
<1>27. CASE BounceHealthy
  BY <1>27 DEF BounceHealthy
<1>28. CASE BounceFails
  BY <1>28 DEF BounceFails, RestartBotched
<1>29. CASE UNCHANGED vars
  BY <1>29 DEF vars
<1> QED
  BY <1>1, <1>2, <1>3, <1>4, <1>5, <1>6, <1>7, <1>8, <1>9, <1>10, <1>11, <1>12, <1>13, <1>14,
     <1>15, <1>16, <1>17, <1>18, <1>19, <1>20, <1>21, <1>22, <1>23, <1>24, <1>25, <1>26,
     <1>27, <1>28, <1>29
  DEF Next, Apply, Rollback, RestartJob

\* Only a step that ends a job, or one between jobs, can matter for an outcome.
LEMMA NextOutcomes == TypeOK /\ Stages /\ Outcomes /\ [Next]_vars => Outcomes'
<1> SUFFICES ASSUME TypeOK, Stages, Outcomes, [Next]_vars PROVE Outcomes'
  OBVIOUS
<1>0. disk \in Disk /\ saved \in Disk /\ before \in Disk /\ report \in Report /\ plan \in Plan
  BY DEF TypeOK
<1> USE <1>0
<1> USE DEF Outcomes, FailedApplyLeavesNoTrace, CompletedIsLive, CompletedRollbackRestores
<1>1. CASE pc' # "idle"
  <2>1. report'.verdict = "none"
    BY <1>1, NextStages DEF Stages, ReportOfPlan
  <2> QED
    BY <2>1
<1>2. CASE pc' = "idle"
  <2>0. \/ \E p \in Plan : StartApply(p) \/ StartRollback(p)
        \/ FailEarly \/ (\E ok \in BOOLEAN : RestoreEnv(ok)) \/ Prune
        \/ RestoreHealthy \/ RestoreFails \/ Die
        \/ (\E live \in BOOLEAN : StartRestart(live)) \/ BounceHealthy \/ BounceFails
        \/ \E d \in Disk : LocalEdit(d)
        \/ UNCHANGED vars
    BY <1>2 DEF Next, Apply, Rollback, RestartJob, Bounce, At, Goes, ReadConfig, WriteBackup, Render, FetchSecrets,
       prepareManagedEnv, ReplaceConfig, VerifyWritten, replaceManagedEnv, Restart, HealthCheck,
       FailLate, RestoreConfig, RestoreBackup, RestoreVerified, RestoreRestart
  <2> USE DEF Stages, ReportOfPlan, StepOfPlan, Untouched, Remembered, InPlace, HalfUndone,
          Restored, LiveDone, DryDone, EarlySteps, LateSteps, RestoreSteps, BounceSteps,
          Ends, Goes, files, store, job, Disk, Report
  <2>1. ASSUME NEW p \in Plan, StartApply(p) PROVE Outcomes'
    BY <2>1 DEF StartApply, Begin
  <2>2. ASSUME NEW p \in Plan, StartRollback(p) PROVE Outcomes'
    BY <2>2 DEF StartRollback, Begin
  <2>3. CASE FailEarly
    BY <2>3 DEF FailEarly
  <2>4. ASSUME NEW ok \in BOOLEAN, RestoreEnv(ok) PROVE Outcomes'
    BY <2>4 DEF RestoreEnv
  <2>5. CASE Prune
    BY <2>5 DEF Prune
  <2>6. CASE RestoreHealthy
    BY <2>6 DEF RestoreHealthy
  <2>7. CASE RestoreFails
    BY <2>7 DEF RestoreFails
  <2>8. CASE Die
    BY <2>8 DEF Die
  <2>9. ASSUME NEW d \in Disk, LocalEdit(d) PROVE Outcomes'
    BY <2>9 DEF LocalEdit
  <2>10. ASSUME NEW live \in BOOLEAN, StartRestart(live) PROVE Outcomes'
    BY <2>10 DEF StartRestart, Begin
  <2>11. CASE BounceHealthy
    BY <2>11 DEF BounceHealthy
  <2>12. CASE BounceFails
    BY <2>12 DEF BounceFails
  <2>13. CASE UNCHANGED vars
    BY <2>13 DEF vars
  <2> QED
    BY <2>0, <2>1, <2>2, <2>3, <2>4, <2>5, <2>6, <2>7, <2>8, <2>9, <2>10, <2>11,
       <2>12, <2>13
<1> QED
  BY <1>1, <1>2

-----------------------------------------------------------------------------
(* Theorems *)

\* The pipeline is always at a stage that IndInv describes.
THEOREM ApplyInvariant == Spec => []IndInv
<1>1. Init => IndInv
  BY InitType, InitStages DEF IndInv
<1>2. IndInv /\ [Next]_vars => IndInv'
  BY NextType, NextStages, NextOutcomes DEF IndInv
<1> QED
  BY <1>1, <1>2, PTL DEF Spec

\* The sidecar's state stays well typed for any configs, secrets and plans.
THEOREM ApplyTypeOK == Spec => []TypeOK
BY ApplyInvariant, PTL DEF IndInv

\* Whichever step of Execute fails, an apply reported as failed or rolled back has
\* left both files as they were.
THEOREM ApplyFailureLeavesNoTrace == Spec => []FailedApplyLeavesNoTrace
BY ApplyInvariant, PTL DEF IndInv, Outcomes

\* A live apply reported as completed is on the disk and in the running runtime; a
\* live restart leaves a healthy runtime that runs what the files say, and the files
\* as they were.
THEOREM ApplyCompletionIsLive == Spec => []CompletedIsLive
BY ApplyInvariant, PTL DEF IndInv, Outcomes

\* A live rollback job reported as completed has restored the config from before
\* the apply it names, whatever happened in between.
THEOREM RollbackCompletionRestores == Spec => []CompletedRollbackRestores
BY ApplyInvariant, PTL DEF IndInv, Outcomes

\* No step of a dry run, failing or not, touches the live files or the runtime.
THEOREM DryRunsAreInert == Spec => DryRunIsInert
<1>1. IndInv /\ [Next]_vars => [pc # "idle" /\ ~report.live => UNCHANGED files]_vars
  <2> SUFFICES ASSUME IndInv, Next, pc # "idle", ~report.live PROVE UNCHANGED files
    BY DEF vars, files
  <2>1. pc \notin {"replace"} \cup LateSteps \cup RestoreSteps \cup BounceSteps
    BY DEF IndInv, Stages, ReportOfPlan, StepOfPlan
  <2> QED
    BY <2>1 DEF Next, Apply, Rollback, RestartJob, LateSteps, RestoreSteps, BounceSteps,
       StartApply, StartRollback, StartRestart, Begin, Bounce, BounceHealthy, BounceFails,
       ReadConfig, WriteBackup, Render, FetchSecrets, prepareManagedEnv, FailEarly,
       ReplaceConfig, VerifyWritten, replaceManagedEnv, Restart, HealthCheck, FailLate,
       RestoreConfig, RestoreEnv, Prune, RestoreBackup, RestoreVerified, RestoreRestart,
       RestoreHealthy, RestoreFails, Die, LocalEdit, At
<1> QED
  BY <1>1, ApplyInvariant, PTL DEF Spec, DryRunIsInert
=============================================================================
