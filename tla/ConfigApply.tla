---------------------------- MODULE ConfigApply ----------------------------
(***************************************************************************)
(* The sidecar's config pipeline on one node: ConfigApplyExecutor.Execute   *)
(* for dry and live plans, executeRollback and executeRestart.  Every step  *)
(* that touches the disk, the runtime or the network is an action of its    *)
(* own and may fail; the sidecar may die between any two.  Jobs run one at  *)
(* a time.                                                                  *)
(*                                                                         *)
(* A config file is its provider/model value, an env file its managed       *)
(* secret; rendering puts the plan's value in.  A run directory is named    *)
(* <plan id>-<time>, and plan identifiers are random: they are numbers here, *)
(* ordered as their names are, and given out in any order.  Local edits     *)
(* happen between jobs only.                                                *)
(***************************************************************************)
EXTENDS Naturals, FiniteSets

CONSTANTS
  Configs,     \* contents a config file can have
  Secrets,     \* contents an env file can have
  NoEnv,       \* no env file; in a plan, no managed provider
  PlanIDs,     \* plan identifiers
  Keep,        \* defaultApplyRetention
  AllowLive    \* --allow-live-apply

ASSUME ApplyConstants ==
  /\ Configs # {}
  /\ NoEnv \notin Secrets
  /\ PlanIDs \subseteq Nat
  /\ Keep \in Nat \ {0}
  /\ AllowLive \in BOOLEAN

Envs == Secrets \cup {NoEnv}
Disk == [config : Configs, env : Envs]

\* A signed plan that passed the signature and target checks.
Plan == [id : PlanIDs, live : BOOLEAN, config : Configs, env : Envs]

Steps == {"read", "backup", "render", "secrets", "env_backup", "replace", "verify",
          "env_replace", "restart", "health", "undo", "undo_env", "prune",
          "restore", "restore_verify", "restore_restart", "restore_health",
          "bounce", "bounce_health"}

VARIABLES
  disk,      \* the live config and env files
  runtime,   \* what the runtime read at its last start
  healthy,   \* whether it came up
  pc,        \* the step the job at hand is at, or "idle"
  plan,      \* the plan at hand
  saved,     \* the contents the job at hand has read
  broken,    \* whether a part of the undo has failed
  runDirs,   \* run directories present, by plan
  backups,   \* the backup in each run directory, if it has one
  report,    \* the last job's result
  before,    \* the disk when the last job started
  original   \* the config before each plan's apply

vars == <<disk, runtime, healthy, pc, plan, saved, broken, runDirs, backups, report, before, original>>

Verdicts == {"none", "completed", "failed", "rolled_back", "stuck", "died"}
Report == [kind : {"apply", "rollback", "restart"}, live : BOOLEAN, plan : PlanIDs, verdict : Verdicts]

TypeOK ==
  /\ disk \in Disk /\ runtime \in Disk /\ saved \in Disk /\ before \in Disk
  /\ healthy \in BOOLEAN /\ broken \in BOOLEAN
  /\ pc \in Steps \cup {"idle"}
  /\ plan \in Plan
  /\ runDirs \subseteq PlanIDs
  /\ backups \in [PlanIDs -> {{}} \cup {{c} : c \in Configs}]
  /\ report \in Report
  /\ original \in [PlanIDs -> Configs]

Init ==
  /\ disk \in Disk /\ runtime = disk /\ saved = disk /\ before = disk
  /\ healthy = TRUE /\ broken = FALSE
  /\ pc = "idle"
  /\ plan \in {p \in Plan : ~p.live /\ p.env = NoEnv}
  /\ runDirs = {}
  /\ backups = [p \in PlanIDs |-> {}]
  /\ report = [kind |-> "apply", live |-> FALSE, plan |-> plan.id, verdict |-> "none"]
  /\ original = [p \in PlanIDs |-> disk.config]

files == <<disk, runtime, healthy>>
store == <<runDirs, backups>>
job == <<plan, before, original>>

Goes(step) == pc' = step

\* The job ends with a verdict.
Ends(verdict) ==
  /\ pc' = "idle"
  /\ report' = [report EXCEPT !.verdict = verdict]

At(step, next) == pc = step /\ Goes(next) /\ UNCHANGED report

-----------------------------------------------------------------------------
(* Execute: checks, backup, rendering *)

\* The checks before anything is written: mode, policy, replay.
Accepted(p) == (p.live => AllowLive) /\ p.id \notin runDirs

Begin(p) ==
  /\ pc = "idle"
  /\ plan' = p
  /\ before' = disk
  /\ broken' = FALSE

StartApply(p) ==
  /\ Begin(p)
  /\ report' = [kind |-> "apply", live |-> p.live, plan |-> p.id,
                verdict |-> IF Accepted(p) THEN "none" ELSE "failed"]
  /\ Goes(IF Accepted(p) THEN "read" ELSE "idle")
  /\ original' = IF Accepted(p) THEN [original EXCEPT ![p.id] = disk.config] ELSE original
  /\ UNCHANGED <<files, store, saved>>

\* The config is read and the run directory made.
ReadConfig ==
  /\ At("read", "backup")
  /\ saved' = [saved EXCEPT !.config = disk.config]
  /\ runDirs' = runDirs \cup {plan.id}
  /\ UNCHANGED <<files, job, broken, backups>>

\* Slip: the backup is a copy of what the plan wants.
WriteWantedBackup ==
  /\ At("backup", "render")
  /\ backups' = [backups EXCEPT ![plan.id] = {plan.config}]
  /\ UNCHANGED <<files, job, saved, broken, runDirs>>

WriteBackup ==
  /\ At("backup", "render")
  /\ backups' = [backups EXCEPT ![plan.id] = {saved.config}]
  /\ UNCHANGED <<files, job, saved, broken, runDirs>>

\* Slip: a dry run is not stopped after validation.
RenderThenReplace ==
  /\ At("render", IF plan.env = NoEnv THEN "replace" ELSE "secrets")
  /\ UNCHANGED <<files, job, saved, broken, store>>

\* Render, temp file, validation; a dry run is done after that.
Render ==
  /\ At("render", IF ~plan.live THEN "prune"
                  ELSE IF plan.env = NoEnv THEN "replace" ELSE "secrets")
  /\ UNCHANGED <<files, job, saved, broken, store>>

FetchSecrets ==
  /\ At("secrets", "env_backup")
  /\ UNCHANGED <<files, job, saved, broken, store>>

prepareManagedEnv ==
  /\ At("env_backup", "replace")
  /\ saved' = [saved EXCEPT !.env = disk.env]
  /\ UNCHANGED <<files, job, broken, store>>

\* Any of these steps fails: nothing live was touched, the job just ends.  The
\* rename of the replace step is atomic, so a failure leaves the old file.
FailEarly ==
  /\ pc \in {"read", "backup", "render", "secrets", "env_backup", "replace"}
  /\ Ends("failed")
  /\ \/ pc = "read" /\ runDirs' \in {runDirs, runDirs \cup {plan.id}}
     \/ pc # "read" /\ UNCHANGED runDirs
  /\ UNCHANGED <<files, job, saved, broken, backups>>

-----------------------------------------------------------------------------
(* The live part of Execute *)

ReplaceConfig ==
  /\ At("replace", "verify")
  /\ disk' = [disk EXCEPT !.config = plan.config]
  /\ UNCHANGED <<runtime, healthy, job, saved, broken, store>>

VerifyWritten ==
  /\ At("verify", IF plan.env = NoEnv THEN "restart" ELSE "env_replace")
  /\ UNCHANGED <<files, job, saved, broken, store>>

\* Slip: the env file is written after the runtime was started.
EnvLeftForLater ==
  /\ At("env_replace", "restart")
  /\ UNCHANGED <<files, job, saved, broken, store>>

replaceManagedEnv ==
  /\ At("env_replace", "restart")
  /\ disk' = [disk EXCEPT !.env = plan.env]
  /\ UNCHANGED <<runtime, healthy, job, saved, broken, store>>

Restart ==
  /\ At("restart", "health")
  /\ runtime' = disk
  /\ healthy' \in BOOLEAN
  /\ UNCHANGED <<disk, job, saved, broken, store>>

HealthCheck ==
  /\ healthy
  /\ At("health", "prune")
  /\ UNCHANGED <<files, job, saved, broken, store>>

\* A restart that is reported as failed may have stopped the runtime or not.
RestartBotched ==
  /\ runtime' \in {runtime, disk}
  /\ healthy' \in BOOLEAN
  /\ UNCHANGED disk

\* Read-back, env replacement, restart or health check fails: undo.  The env file
\* may have been replaced before its read-back failed.
FailLate ==
  /\ pc \in {"verify", "env_replace", "restart", "health"}
  /\ Goes("undo")
  /\ \/ UNCHANGED files
     \/ pc = "env_replace" /\ disk' = [disk EXCEPT !.env = plan.env] /\ UNCHANGED <<runtime, healthy>>
     \/ pc = "restart" /\ RestartBotched
  /\ UNCHANGED <<report, job, saved, broken, store>>

\* rollbackBoth, first half: the config file is put back, or cannot be.
RestoreConfig(ok) ==
  /\ At("undo", "undo_env")
  /\ disk' = IF ok THEN [disk EXCEPT !.config = saved.config] ELSE disk
  /\ broken' = ~ok
  /\ UNCHANGED <<runtime, healthy, job, saved, store>>

\* Slip: the env file is put back only where there was one before.
RestoreExistingEnv(ok) ==
  /\ pc = "undo_env"
  /\ disk' = IF ok /\ plan.env # NoEnv /\ saved.env # NoEnv
             THEN [disk EXCEPT !.env = saved.env] ELSE disk
  /\ Ends(IF broken \/ (plan.env # NoEnv /\ ~ok) THEN "stuck" ELSE "rolled_back")
  /\ UNCHANGED <<runtime, healthy, job, saved, broken, store>>

\* Slip: the config's backup is written over the env file.
RestoreEnvMixedUp(ok) ==
  /\ pc = "undo_env"
  /\ disk' = IF ok /\ plan.env # NoEnv THEN [disk EXCEPT !.env = saved.config] ELSE disk
  /\ Ends(IF broken \/ (plan.env # NoEnv /\ ~ok) THEN "stuck" ELSE "rolled_back")
  /\ UNCHANGED <<runtime, healthy, job, saved, broken, store>>

\* rollbackBoth, second half: with managed secrets the env file is put back or
\* removed, whether or not the config could be.  The runtime is left as it is.
RestoreEnv(ok) ==
  /\ pc = "undo_env"
  /\ disk' = IF ok /\ plan.env # NoEnv THEN [disk EXCEPT !.env = saved.env] ELSE disk
  /\ Ends(IF broken \/ (plan.env # NoEnv /\ ~ok) THEN "stuck" ELSE "rolled_back")
  /\ UNCHANGED <<runtime, healthy, job, saved, broken, store>>

\* pruneApplyRuns: of more than Keep directories the ones whose names sort last
\* stay.  The names start with the plan's identifier.
Pruned(dirs) == {d \in dirs : Cardinality({e \in dirs : e > d}) < Keep}

Prune ==
  /\ pc = "prune"
  /\ Ends("completed")
  /\ runDirs' = Pruned(runDirs)
  /\ backups' = [d \in PlanIDs |-> IF d \in runDirs' THEN backups[d] ELSE {}]
  /\ UNCHANGED <<files, job, saved, broken>>

-----------------------------------------------------------------------------
(* executeRollback *)

\* Rollback to the backup of an earlier apply.  Policy, a backup that is gone, or
\* one that does not validate: the job fails.  A dry run is done after these checks.
StartRollback(p) ==
  /\ Begin(p)
  /\ \E usable \in BOOLEAN :
       LET go == usable /\ (p.live => AllowLive) /\ backups[p.id] # {}
       IN  /\ report' = [kind |-> "rollback", live |-> p.live, plan |-> p.id,
                         verdict |-> IF ~go THEN "failed" ELSE IF p.live THEN "none" ELSE "completed"]
           /\ Goes(IF go /\ p.live THEN "restore" ELSE "idle")
  /\ UNCHANGED <<files, store, saved, original>>

RestoreBackup ==
  /\ At("restore", "restore_verify")
  /\ \E c \in backups[plan.id] : disk' = [disk EXCEPT !.config = c]
  /\ UNCHANGED <<runtime, healthy, job, saved, broken, store>>

RestoreVerified ==
  /\ At("restore_verify", "restore_restart")
  /\ UNCHANGED <<files, job, saved, broken, store>>

RestoreRestart ==
  /\ At("restore_restart", "restore_health")
  /\ runtime' = disk
  /\ healthy' \in BOOLEAN
  /\ UNCHANGED <<disk, job, saved, broken, store>>

RestoreHealthy ==
  /\ pc = "restore_health"
  /\ healthy
  /\ Ends("completed")
  /\ UNCHANGED <<files, job, saved, broken, store>>

\* A rollback that fails is not undone: the verdict says "stuck" once the file
\* was replaced.
RestoreFails ==
  /\ pc \in {"restore", "restore_verify", "restore_restart", "restore_health"}
  /\ Ends(IF pc = "restore" THEN "failed" ELSE "stuck")
  /\ \/ UNCHANGED files
     \/ pc = "restore_restart" /\ RestartBotched
  /\ UNCHANGED <<job, saved, broken, store>>

-----------------------------------------------------------------------------
(* executeRestart *)

\* Restarts the runtime from the files as they are.  A dry run is done at once;
\* policy, or no controller for the runtime: the job fails.
StartRestart(live) ==
  /\ Begin([plan EXCEPT !.live = live])
  /\ \E controller \in BOOLEAN :
       LET go == live /\ AllowLive /\ controller
       IN  /\ report' = [kind |-> "restart", live |-> live, plan |-> plan.id,
                         verdict |-> IF ~live THEN "completed" ELSE IF go THEN "none" ELSE "failed"]
           /\ Goes(IF go THEN "bounce" ELSE "idle")
  /\ UNCHANGED <<files, store, saved, original>>

Bounce ==
  /\ At("bounce", "bounce_health")
  /\ runtime' = disk
  /\ healthy' \in BOOLEAN
  /\ UNCHANGED <<disk, job, saved, broken, store>>

BounceHealthy ==
  /\ pc = "bounce_health"
  /\ healthy
  /\ Ends("completed")
  /\ UNCHANGED <<files, job, saved, broken, store>>

BounceFails ==
  /\ pc \in {"bounce", "bounce_health"}
  /\ Ends("failed")
  /\ \/ UNCHANGED files
     \/ pc = "bounce" /\ RestartBotched
  /\ UNCHANGED <<job, saved, broken, store>>

-----------------------------------------------------------------------------

\* The sidecar dies; nothing is resumed or cleaned up when it comes back.
Die ==
  /\ pc # "idle"
  /\ Ends("died")
  /\ UNCHANGED <<files, job, saved, broken, store>>

\* The owner of the node edits its files between jobs and restarts the runtime.
LocalEdit(d) ==
  /\ pc = "idle"
  /\ disk' = d /\ runtime' = d /\ healthy' = TRUE
  /\ report' = [report EXCEPT !.verdict = "none"]
  /\ UNCHANGED <<pc, job, saved, broken, store>>

Apply ==
  \/ ReadConfig \/ WriteBackup \/ Render \/ FetchSecrets \/ prepareManagedEnv \/ FailEarly
  \/ ReplaceConfig \/ VerifyWritten \/ replaceManagedEnv \/ Restart \/ HealthCheck \/ FailLate
  \/ \E ok \in BOOLEAN : RestoreConfig(ok) \/ RestoreEnv(ok)
  \/ Prune

Rollback ==
  RestoreBackup \/ RestoreVerified \/ RestoreRestart \/ RestoreHealthy \/ RestoreFails

RestartJob == Bounce \/ BounceHealthy \/ BounceFails

Next ==
  \/ \E p \in Plan : StartApply(p) \/ StartRollback(p)
  \/ \E live \in BOOLEAN : StartRestart(live)
  \/ Apply
  \/ Rollback
  \/ RestartJob
  \/ Die
  \/ \E d \in Disk : LocalEdit(d)

Spec == Init /\ [][Next]_vars

-----------------------------------------------------------------------------
(* Properties *)

\* A failed apply leaves no trace: whichever step failed, unless the undo itself
\* failed and the result says so, both files are what they were before, an env
\* file that the apply created is gone, and nothing was half applied.
FailedApplyLeavesNoTrace ==
  report.kind = "apply" /\ report.verdict \in {"failed", "rolled_back"} => disk = before

\* A live apply or restart that is reported completed is in effect: after an apply
\* both files hold what the plan says, after a restart they are unchanged, and the
\* runtime was started from them and is healthy, also where an undone or cut-off
\* apply had left it with something else.
CompletedIsLive ==
  report.kind \in {"apply", "restart"} /\ report.live /\ report.verdict = "completed" =>
    /\ report.kind = "apply" =>
         /\ disk.config = plan.config
         /\ disk.env = IF plan.env = NoEnv THEN before.env ELSE plan.env
    /\ report.kind = "restart" => disk = before
    /\ runtime = disk
    /\ healthy

\* A rollback job that is reported completed has brought back the config from
\* before the apply it names, and the runtime runs it.
CompletedRollbackRestores ==
  report.kind = "rollback" /\ report.live /\ report.verdict = "completed" =>
    disk.config = original[report.plan] /\ runtime = disk

\* A dry run changes neither the files nor the runtime at any step.
DryRunIsInert ==
  [][pc # "idle" /\ ~report.live => UNCHANGED files]_vars
=============================================================================
