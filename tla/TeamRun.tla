--------------------------------- MODULE TeamRun ---------------------------------
(***************************************************************************)
(* The runs of an AI team in one session (agent/team.go, team_resume.go):  *)
(* a planner, an implementer, checks that may ask for a revision, and a    *)
(* synthesizer, one after the other.  Every transition is saved as a       *)
(* checkpoint in the event log, so that a run which is stopped, or cut off *)
(* by a crash, goes on later with the role that was not finished; the plan *)
(* of the session has events of its own beside the checkpoints.  Other     *)
(* turns of the session (tool_loop.go), which may run while no team run is *)
(* paused, write the same plan.                                            *)
(*                                                                         *)
(* What the current chain of the log restores is kept instead of the log:  *)
(* the last checkpoint and the status of the plan.  The conversation, and  *)
(* writes and restores that fail, are left out; two plans with the same    *)
(* status are taken to differ in their steps, since one that is equal is   *)
(* not written again.  The synthesizer is always enabled, and              *)
(* the implementer unless the sandbox is read-only (normalizeTeamSettings, *)
(* teamSettingsForPolicy), so that a stage that is chosen is enabled.      *)
(***************************************************************************)
EXTENDS Naturals

CONSTANTS
  Switched,         \* roles that may be switched off, also between two turns of a run
  MaxReviewRounds,  \* of the settings
  MaxTeamTurns      \* bound: turns

VARIABLES
  at,       \* where the turn is; "save": a checkpoint is about to be appended;
            \* "turn", "closing": a turn of no team works, and ends
  run,      \* checkpoint of the turn that runs; of another turn, whether it plans
            \* ("planner"), shows its plan ("approval") or works ("implementer")
  next,     \* the status that is about to be appended with it; how another turn ends
  saved,    \* the last checkpoint of the chain
  plan,     \* planState.Status, in memory and as the chain restores it
  author,   \* history: whether a team run or another turn has written it last
  planned,  \* the turn has written the plan
  base,     \* what the chain restored when the turn began
  ctx,      \* of the turn
  set,      \* settings of the turn
  teamTurns,
  worked    \* history: roles whose end a checkpoint of the run has recorded

vars == <<at, run, next, saved, plan, author, planned, base, ctx, set, teamTurns, worked>>
idleVars == <<base, set, teamTurns>>

Roles == {"planner", "implementer", "tester", "reviewer", "synthesizer"}
Stages == Roles \cup {"approval", "finalize"}
Attempts == 1..(MaxReviewRounds + 1)
(* The roles that have found something, and whether a check of this attempt *)
(* asks for changes; one that fails, or that says nothing which can be      *)
(* read, does not.                                                         *)
Runs == [stage : Stages, attempt : Attempts, started : BOOLEAN, approved : BOOLEAN,
         found : SUBSET (Roles \X Attempts), changes : BOOLEAN]
NewRun == [stage |-> "planner", attempt |-> 1, started |-> FALSE, approved |-> FALSE,
           found |-> {}, changes |-> FALSE]
NoRun == [status |-> "none", run |-> NewRun]
NoTurn == [saved |-> NoRun, plan |-> "none", author |-> "none", worked |-> {}]
Settings == [enabled : {Roles \ off : off \in SUBSET Switched}, planMode : BOOLEAN]
NoSettings == [enabled |-> Roles, planMode |-> FALSE]

Init ==
  /\ at = "idle" /\ run = NewRun /\ next = "none" /\ saved = NoRun /\ plan = "none" /\ author = "none"
  /\ planned = FALSE /\ base = NoTurn /\ ctx = "live" /\ set = NoSettings /\ teamTurns = 0 /\ worked = {}

Statuses == {"none", "running", "paused", "completed", "failed", "cancelled", "abandoned"}
States == [status : Statuses, run : Runs]
Authors == {"none", "team", "turn"}
Plans == {"none", "running", "completed", "failed", "cancelled", "interrupted"}

TypeOK ==
  /\ at \in {"idle", "stage", "role", "save", "barrier", "turn", "closing"}
  /\ run \in Runs /\ next \in Statuses \cup {"interrupted"} /\ saved \in States
  /\ plan \in Plans /\ author \in Authors /\ planned \in BOOLEAN
  /\ base \in [saved : States, plan : Plans, author : Authors, worked : SUBSET (Roles \X Attempts)]
  /\ ctx \in {"live", "stopped", "silent"} /\ set \in Settings
  /\ teamTurns \in 0..MaxTeamTurns /\ worked \in SUBSET (Roles \X Attempts)

----------------------------------------------------------------------------
(* Stages.                                                                 *)

Enabled(r) == r \in set'.enabled
AfterChecks == "synthesizer"
NextCheck(r) ==
  IF r = "none" /\ Enabled("tester") THEN "tester"
  ELSE IF r \in {"none", "tester"} /\ Enabled("reviewer") THEN "reviewer" ELSE AfterChecks
AfterImplementation == NextCheck("none")
AfterPlanner == IF Enabled("implementer") THEN "implementer" ELSE AfterImplementation
FirstStage == IF Enabled("planner") THEN "planner" ELSE AfterPlanner

(* availableTeamStage: roles may be switched off while the run is paused.  *)
Available(stage) ==
  IF stage \notin Roles \/ Enabled(stage) THEN stage
  ELSE CASE stage = "planner" -> AfterPlanner
         [] stage = "implementer" -> AfterImplementation
         [] OTHER -> NextCheck(stage)

----------------------------------------------------------------------------
(* A turn.                                                                 *)

Begin(stage, checkpoint) ==
  /\ at' = stage /\ run' = checkpoint /\ next' = "running"
  /\ base' = [saved |-> saved, plan |-> plan, author |-> author, worked |-> worked]
  /\ ctx' = "live" /\ planned' = FALSE /\ teamTurns' = teamTurns + 1
  /\ UNCHANGED <<saved, plan, author>>

(* A message is refused while a run is paused; guidance follows only a     *)
(* turn that has succeeded, and so no paused run either.                   *)
StartRun ==
  /\ at = "idle" /\ teamTurns < MaxTeamTurns /\ saved.status # "paused"
  /\ set' \in Settings
  /\ worked' = {}
  /\ Begin("save", [NewRun EXCEPT !.stage = FirstStage])

ResumeRun ==
  /\ at = "idle" /\ teamTurns < MaxTeamTurns /\ saved.status = "paused"
  /\ set' \in Settings
  /\ Begin("save", [saved.run EXCEPT !.stage = Available(@)])
  /\ UNCHANGED worked

(* An ordinary turn, or guidance, which never plans.                       *)
BeginTurn ==
  /\ at = "idle" /\ teamTurns < MaxTeamTurns /\ saved.status # "paused"
  /\ set' \in [enabled : {NoSettings.enabled}, planMode : BOOLEAN]
  /\ Begin("turn", [NewRun EXCEPT !.stage = IF set'.planMode THEN "planner" ELSE "implementer"])
  /\ UNCHANGED worked

(* syncCheckpoint: the status and stage to be saved; a turn that is not    *)
(* "running" any more ends with it.                                        *)
Saving(status, checkpoint) ==
  /\ at' = "save" /\ run' = checkpoint /\ next' = status
  /\ UNCHANGED <<saved, ctx, worked, idleVars>>

(* What a turn keeps is dropped with it.                                   *)
TurnOver ==
  /\ at' = "idle" /\ run' = NewRun /\ next' = "none" /\ planned' = FALSE
  /\ base' = NoTurn /\ ctx' = "live" /\ set' = NoSettings
  /\ UNCHANGED teamTurns

(* Not the code: the stage that is saved is the one that has just ended.   *)
SaveStageThatEnded ==
  /\ at = "save" /\ next # "abandoned"
  /\ saved' = [status |-> next,
               run |-> [run EXCEPT !.stage = IF saved.status = "running" THEN saved.run.stage ELSE @]]
  /\ worked' = worked \cup run.found
  /\ at' = IF next = "running" THEN "stage" ELSE "barrier"
  /\ UNCHANGED <<run, next, plan, author, planned, ctx, idleVars>>

(* persistTeamRunCheckpoint.                                               *)
Save ==
  /\ at = "save" /\ next # "abandoned"
  /\ saved' = [status |-> next, run |-> run]
  /\ worked' = worked \cup run.found
  /\ at' = IF next = "running" THEN "stage" ELSE "barrier"
  /\ UNCHANGED <<run, next, plan, author, planned, ctx, idleVars>>

WritePlan(status) ==
  /\ plan' = status /\ planned' = TRUE
  /\ author' = IF at \in {"turn", "closing"} THEN "turn" ELSE "team"
KeepPlan == UNCHANGED <<plan, author, planned>>
(* finishPlanState of a plan the run has started.                          *)
FinishPlan(status) == IF run.started /\ plan # "none" THEN WritePlan(status) ELSE KeepPlan

(* pauseRun; what the role that was interrupted has found is not kept.     *)
Pause == KeepPlan /\ Saving("paused", run)

(* persistRunFailure: evidence and changes stay.                           *)
Fail(checkpoint) == FinishPlan("failed") /\ Saving("failed", checkpoint)

(* Noticed between two stages, by a role, or while the plan is shown.      *)
PauseStopped ==
  /\ at = "stage" /\ ctx # "live"
  /\ Pause

BeginRole ==
  /\ at = "stage" /\ ctx = "live" /\ run.stage \in Roles
  /\ at' = "role"
  /\ UNCHANGED <<run, next, saved, plan, author, planned, ctx, worked, idleVars>>

(* A provider may report a cancellation of its own.                        *)
RoleCancelled ==
  /\ at = "role"
  /\ Pause

(* The planner and the synthesizer are always at their first attempt.      *)
Turn(checkpoint) ==
  <<checkpoint.stage, IF checkpoint.stage \in {"planner", "synthesizer"} THEN 1 ELSE checkpoint.attempt>>
With(changes) == [run EXCEPT !.found = @ \cup {Turn(run)}, !.changes = @ \/ changes]
InRole(r) == at = "role" /\ run.stage = r /\ UNCHANGED set

(* A planner that fails is done without; one that succeeds in plan mode    *)
(* has its steps, if any, made the plan of the session.                    *)
Planner(ok, steps) ==
  /\ InRole("planner")
  /\ LET approval == ok /\ set.planMode
         started == approval /\ steps
     IN /\ IF started THEN WritePlan("running") ELSE KeepPlan
        /\ Saving("running", [With(FALSE) EXCEPT !.stage = IF approval THEN "approval" ELSE AfterPlanner,
                                                   !.attempt = 1, !.started = @ \/ started])

AtApproval == at = "stage" /\ ctx = "live" /\ run.stage = "approval" /\ UNCHANGED set
MustApprove == set.planMode /\ ~run.approved

(* With the plan approved, or plan mode switched off, the work begins; the *)
(* first step of the plan is marked.                                       *)
BeginWork ==
  /\ AtApproval
  /\ \/ run.started /\ set.planMode /\ WritePlan("running")
     \/ ~(run.started /\ set.planMode /\ plan # "interrupted") /\ KeepPlan
  /\ Saving("running", [run EXCEPT !.approved = @ \/ set.planMode, !.stage = AfterPlanner, !.attempt = 1])

RejectPlan ==
  /\ AtApproval /\ MustApprove
  /\ FinishPlan("cancelled")
  /\ Saving("cancelled", [run EXCEPT !.stage = "finalize", !.attempt = 1])

Implementer(ok) ==
  /\ InRole("implementer")
  /\ IF ~ok THEN ctx = "live" /\ Fail(With(FALSE))
     ELSE KeepPlan /\ Saving("running", [With(FALSE) EXCEPT !.stage = AfterImplementation])

(* teamNeedsRevision: a check of this attempt has asked for changes.       *)
NeedsRevision(checkpoint) ==
  checkpoint.changes /\ Enabled("implementer") /\ checkpoint.attempt - 1 < MaxReviewRounds

Check(r, changes) ==
  /\ InRole(r)
  /\ KeepPlan
  /\ Saving("running",
       IF NextCheck(r) # AfterChecks THEN [With(changes) EXCEPT !.stage = NextCheck(r)]
       ELSE IF NeedsRevision(With(changes))
       THEN [With(changes) EXCEPT !.stage = "implementer", !.attempt = @ + 1, !.changes = FALSE]
       ELSE [With(changes) EXCEPT !.stage = AfterChecks, !.changes = FALSE])

(* ~ok: it fails, or its answer is empty.                                  *)
Synthesizer(ok) ==
  /\ InRole("synthesizer")
  /\ IF ~ok THEN Fail(With(FALSE))
     ELSE KeepPlan /\ Saving("running", [With(FALSE) EXCEPT !.stage = "finalize", !.attempt = 1])

(* Not the code: the plan is left as it is.                                *)
FinalizeRunOnly ==
  /\ at = "stage" /\ ctx = "live" /\ run.stage = "finalize"
  /\ KeepPlan
  /\ Saving("completed", run)

(* The plan is completed, then the run.                                    *)
Finalize ==
  /\ at = "stage" /\ ctx = "live" /\ run.stage = "finalize"
  /\ FinishPlan("completed")
  /\ Saving("completed", run)

(* The work of a turn without a team (runToolLoopTurn).  Its roles are     *)
(* not recorded in any checkpoint.                                         *)
Working(stage) == at = "turn" /\ run.stage = stage
TurnAt(stage, started) ==
  /\ run' = [run EXCEPT !.stage = stage, !.started = started]
  /\ UNCHANGED <<at, next, saved, ctx, worked, idleVars>>
Closing(status) ==
  /\ at' = "closing" /\ next' = status
  /\ UNCHANGED <<run, saved, ctx, worked, idleVars>>

(* chatTurnWasCancelled, of an error that is one (status "interrupted").   *)
Cancelled(status) == ctx # "silent" /\ (status = "interrupted" \/ ctx = "stopped")

(* runPlanPhase: no plan, one without steps, or one with steps.            *)
TurnPlans ==
  /\ Working("planner")
  /\ \/ KeepPlan /\ \E status \in {"failed", "interrupted"} : Closing(status)
     \/ KeepPlan /\ \E stage \in {"implementer", "approval"} : TurnAt(stage, FALSE)
     \/ WritePlan("running") /\ TurnAt("approval", TRUE)

TurnApproval ==
  /\ Working("approval")
  /\ \/ \E status \in {"failed", "interrupted"} : FinishPlan("failed") /\ Closing(status)
     \/ FinishPlan("cancelled") /\ Closing("completed")
     \/ /\ IF run.started THEN WritePlan("running") ELSE KeepPlan
        /\ TurnAt("implementer", run.started)

(* The tool update_plan, also of a turn that was given no plan.            *)
UpdatePlan(status) ==
  /\ Working("implementer")
  /\ WritePlan(status)
  /\ TurnAt("implementer", run.started)

TurnWorked(status) ==
  /\ Working("implementer")
  /\ FinishPlan(IF status = "completed" THEN status ELSE IF Cancelled(status) THEN "cancelled" ELSE "failed")
  /\ Closing(status)

(* The end of a turn, behind the barrier of workers: an error, also that   *)
(* of the idle watchdog, rolls it back unless what it did is retained      *)
(* (retainInterruptedTurn).  That of a failed team run is; that of a run   *)
(* that was paused or had succeeded, and of a plan, never is.  A plan that *)
(* ended with the turn, or that ran when it was cancelled, is appended     *)
(* again.                                                                  *)
Retained ==
  IF at = "barrier" THEN {next = "failed"}
  ELSE IF next \in {"failed", "interrupted"} /\ run.stage = "implementer" THEN BOOLEAN ELSE {FALSE}
Errs == ctx = "silent" \/ next \in {"failed", "interrupted"}
Terminal == IF planned /\ Cancelled(next) THEN "cancelled" ELSE plan
EndsPlan == planned /\ Terminal \in {"failed", "cancelled"}

EndTurn ==
  /\ at \in {"barrier", "closing"}
  /\ IF Errs
     THEN \E kept \in Retained :
            /\ saved' = IF kept THEN saved ELSE base.saved
            /\ worked' = IF kept THEN worked ELSE base.worked
            /\ plan' = IF EndsPlan THEN Terminal ELSE IF kept THEN plan ELSE base.plan
            /\ author' = IF EndsPlan \/ kept THEN author ELSE base.author
     ELSE UNCHANGED <<saved, plan, author, worked>>
  /\ TurnOver

----------------------------------------------------------------------------
(* The user, the idle watchdog, and crashes.                               *)

(* AbandonPausedTeamTask: the plan, then the checkpoint.                   *)
Abandon ==
  /\ at = "idle" /\ saved.status = "paused"
  /\ at' = "save" /\ run' = saved.run /\ next' = "abandoned"
  /\ plan' = IF saved.run.started /\ plan \notin {"none", "completed", "cancelled"} THEN "cancelled" ELSE plan
  /\ UNCHANGED author
  /\ UNCHANGED <<saved, planned, ctx, worked, idleVars>>

Abandoned ==
  /\ at = "save" /\ next = "abandoned"
  /\ saved' = [status |-> next, run |-> run]
  /\ TurnOver
  /\ UNCHANGED <<plan, author, worked>>

(* The user stops, or nothing is heard of a role, of the user who reads    *)
(* the plan, or of the workers for too long.                               *)
StopTurn ==
  /\ at # "idle" /\ ctx = "live" /\ next # "abandoned"
  /\ ctx' = "stopped"
  /\ UNCHANGED <<at, run, next, saved, plan, author, planned, worked, idleVars>>

Silent ==
  /\ \/ at \in {"role", "barrier", "turn", "closing"}
     \/ at = "stage" /\ run.stage = "approval" /\ MustApprove
  /\ ctx = "live"
  /\ ctx' = "silent"
  /\ UNCHANGED <<at, run, next, saved, plan, author, planned, worked, idleVars>>

(* A crash: reopening restores a run that was running as paused, and the   *)
(* recovery of the task interrupts a plan of a turn that has not recorded  *)
(* its answer (TaskRecovery).                                              *)
Answered == at = "barrier" \/ (at = "closing" /\ next = "completed")
Restored(state) == IF state.status = "running" THEN [state EXCEPT !.status = "paused"] ELSE state

Crash ==
  /\ at # "idle"
  /\ saved' = Restored(saved)
  /\ plan' = IF ~Answered /\ planned /\ plan = "running" THEN "interrupted" ELSE plan
  /\ TurnOver
  /\ UNCHANGED <<author, worked>>

Next ==
  \/ StartRun \/ ResumeRun \/ Save \/ PauseStopped \/ BeginRole \/ RoleCancelled
  \/ \E ok \in BOOLEAN :
       \/ \E steps \in BOOLEAN : Planner(ok, steps)
       \/ Implementer(ok) \/ Synthesizer(ok)
  \/ \E r \in {"tester", "reviewer"}, changes \in BOOLEAN : Check(r, changes)
  \/ BeginWork \/ RejectPlan \/ Finalize \/ EndTurn
  \/ BeginTurn \/ TurnPlans \/ TurnApproval
  \/ \E status \in {"running", "completed"} : UpdatePlan(status)
  \/ \E status \in {"completed", "failed", "interrupted"} : TurnWorked(status)
  \/ Abandon \/ Abandoned \/ StopTurn \/ Silent \/ Crash

Spec == Init /\ [][Next]_vars

----------------------------------------------------------------------------
(* However often a run is stopped, cut off and resumed with other          *)
(* settings, a role whose end was saved is not run again, unless its work  *)
(* was rolled back with the turn.                                          *)
NoRoleTwice ==
  at = "role" => Turn(run) \notin worked

(* Between turns the plan that a team run has written and the run agree: a *)
(* plan that runs belongs to a run that can be resumed or ended; a run     *)
(* that completed or failed has its plan completed or failed with it, or   *)
(* cancelled with a turn that was stopped or rolled back; no other turn    *)
(* has written over the plan of a paused run; a completed run has an       *)
(* answer.  The plan of another turn may run on beside any run.            *)
PlanFollowsRun ==
  at = "idle" =>
    /\ author = "team" =>
         /\ plan = "running" => saved.status = "paused" /\ saved.run.started
         /\ saved.status \in {"completed", "failed"} /\ saved.run.started => plan \in {saved.status, "cancelled"}
    /\ saved.status = "paused" /\ saved.run.started => author = "team"
    /\ saved.status = "completed" => <<"synthesizer", 1>> \in saved.run.found
=============================================================================
