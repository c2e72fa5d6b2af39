------------------------------ MODULE ChatTasks ------------------------------
(***************************************************************************)
(* The life of a chat task (app_chat.go) and of its crash-recovery         *)
(* snapshot (internal/agent/runtime_generation.go, task_runtime.go): a      *)
(* task is registered for its session, its goroutine runs one turn after    *)
(* the other as the user sends guidance, and it ends by itself or because   *)
(* the user stops it.  A stop that is not obeyed within the grace period    *)
(* ends the task by force, while its goroutine may still be running.        *)
(*                                                                         *)
(* Actors: the runner goroutine of each task, the goroutine of a stop       *)
(* request and its watcher, the user interface that starts, guides and      *)
(* stops tasks, and the stream events of turns and of detached workers.     *)
(***************************************************************************)
EXTENDS Naturals, FiniteSets, Sequences

CONSTANTS
  Tasks,            \* task identifiers: one per accepted or refused start
  Sessions,
  SessionOf,        \* the session a task is for
  TeamResumes,      \* the tasks of kind team_resume; the others are messages
  MaxGuidance,      \* bound: guidance messages a task may accept
  PromptRunner,     \* TRUE: the grace period outlasts the runner's own steps
  NoTask

ASSUME SessionOfAssumption == SessionOf \in [Tasks -> Sessions]
ASSUME NoTaskIsNoTask == NoTask \notin Tasks
ASSUME TeamResumesAssumption == TeamResumes \subseteq Tasks
ASSUME BoundsAssumption == MaxGuidance \in Nat /\ PromptRunner \in BOOLEAN

VARIABLES
  pc,          \* where the runner of each task is
  verdict,     \* the terminal event the runner will complete with
  sinks,       \* the generations captured by the event sinks handed out
  ctxDone,     \* the context of the task is cancelled
  tasks,       \* chat.tasks: the registered tasks
  bySession,   \* chat.bySession
  accepting,   \* task.acceptingGuidance
  asked,       \* guidance accepted so far
  guidance,    \* guidance accepted and not taken yet: len(task.guidance)
  generation,  \* task.generation: the runtime generation the app knows
  runtime,     \* the task runtime in the memory of the task's service
  record,      \* task-runtime.json of each session
  once,        \* how far completeChatTask is inside terminalOnce
  gateGen,     \* the generation it read when it closed the gate
  outcome,     \* the terminal event it was called with
  ended,       \* terminal events emitted to the user interface
  stop,        \* where the stop request of each task is
  stopGen,     \* the generation it read
  enforced,    \* it came from StopChatMessage and has a watcher
  stopped      \* history: the user has stopped the task

runner     == <<pc, verdict, sinks>>
registry   == <<tasks, bySession>>
mailbox    == <<accepting, asked, guidance>>
snapshots  == <<runtime, record>>
completion == <<once, gateGen, outcome, ended>>
stopping   == <<stop, stopGen, enforced, stopped>>
vars == <<runner, ctxDone, registry, mailbox, generation, snapshots, completion, stopping>>

-----------------------------------------------------------------------------
(* The task runtime of one service                                         *)

Outcomes == {"completed", "failed", "cancelled"}

(* waiting, retrying and the other live states count as running.           *)
Statuses == {"none", "running", "cancelling"} \cup Outcomes

NoRuntime == [gen |-> 0, status |-> "none", folded |-> {}]

TerminalStatus(r) == r.status \in Outcomes

(* A new generation; whatever the previous one recorded is dropped.        *)
FreshRuntime(r) == [gen |-> r.gen + 1, status |-> "running", folded |-> {}]

GenerationMatches(r, gen) == gen # 0 /\ r.gen = gen

(* Mutant: a sink of an earlier turn is still heard.                       *)
AcceptsStreamOfAnyTurn(r, gen) ==
  gen # 0 /\ ~TerminalStatus(r) /\ r.status # "cancelling"

AcceptsStream(r, gen) ==
  GenerationMatches(r, gen) /\ ~TerminalStatus(r) /\ r.status # "cancelling"

(* ensureTaskRuntimeGenerationLocked: a runtime that was never started gets *)
(* a generation when it is finished.                                       *)
EnsureGeneration(r) == IF r.gen = 0 THEN FreshRuntime(r) ELSE r

(* finishTaskRuntimeLocked is one-shot for its generation; generation 0 is  *)
(* FinishTaskRuntime, which takes whatever generation is current.          *)
FinishedRuntime(r, gen, status) ==
  LET current == IF gen = 0 THEN EnsureGeneration(r) ELSE r
      key     == IF gen = 0 THEN current.gen ELSE gen
  IN IF GenerationMatches(current, key) /\ ~TerminalStatus(current)
       THEN [current EXCEPT !.status = status] ELSE current

(* persistTaskRuntimeLocked replaces the snapshot of the whole session.    *)
Snapshot(t, r) == [task |-> t, gen |-> r.gen, status |-> r.status]

SetRuntime(t, r) ==
  /\ runtime' = [runtime EXCEPT ![t] = r]
  /\ record' = [record EXCEPT ![SessionOf[t]] = Snapshot(t, r)]

-----------------------------------------------------------------------------
Init ==
  /\ pc = [t \in Tasks |-> "idle"]
  /\ verdict = [t \in Tasks |-> "none"]
  /\ sinks = [t \in Tasks |-> {}]
  /\ ctxDone = [t \in Tasks |-> FALSE]
  /\ tasks = {}
  /\ bySession = [s \in Sessions |-> NoTask]
  /\ accepting = [t \in Tasks |-> TRUE]
  /\ asked = [t \in Tasks |-> 0]
  /\ guidance = [t \in Tasks |-> 0]
  /\ generation = [t \in Tasks |-> 0]
  /\ runtime = [t \in Tasks |-> NoRuntime]
  /\ record = [s \in Sessions |-> [task |-> NoTask, gen |-> 0, status |-> "none"]]
  /\ once = [t \in Tasks |-> "free"]
  /\ gateGen = [t \in Tasks |-> 0]
  /\ outcome = [t \in Tasks |-> "none"]
  /\ ended = [t \in Tasks |-> <<>>]
  /\ stop = [t \in Tasks |-> "none"]
  /\ stopGen = [t \in Tasks |-> 0]
  /\ enforced = [t \in Tasks |-> FALSE]
  /\ stopped = [t \in Tasks |-> FALSE]

Goto(t, from, to) == pc[t] = from /\ pc' = [pc EXCEPT ![t] = to]

(* removeChatTaskLocked, under chat.mu.                                    *)
(* Mutant: whoever owns the session loses it.                              *)
RemoveAnyOwner(t) ==
  /\ tasks' = tasks \ {t}
  /\ bySession' = [bySession EXCEPT ![SessionOf[t]] = NoTask]

Remove(t) ==
  /\ tasks' = tasks \ {t}
  /\ bySession' = [bySession EXCEPT ![SessionOf[t]] = IF @ = t THEN NoTask ELSE @]

-----------------------------------------------------------------------------
(* Starting a task                                                         *)

(* A start is refused when the session has a task; otherwise the task is    *)
(* registered and its goroutine is launched.                               *)
Register(t) ==
  /\ Goto(t, "idle", "launched")
  /\ bySession[SessionOf[t]] = NoTask
  /\ tasks' = tasks \cup {t}
  /\ bySession' = [bySession EXCEPT ![SessionOf[t]] = t]
  /\ UNCHANGED <<verdict, sinks, ctxDone, mailbox, generation, snapshots, completion, stopping>>

RefuseBusy(t) ==
  /\ Goto(t, "idle", "gone")
  /\ bySession[SessionOf[t]] # NoTask
  /\ UNCHANGED <<verdict, sinks, ctxDone, registry, mailbox, generation, snapshots,
                 completion, stopping>>

(* StartTaskRuntimeWithGeneration replaces the runtime whatever its state.  *)
StartRuntime(t) ==
  /\ Goto(t, "launched", "started")
  /\ SetRuntime(t, FreshRuntime(runtime[t]))
  /\ UNCHANGED <<verdict, sinks, ctxDone, registry, mailbox, generation, completion, stopping>>

(* setGeneration, then a sink for the turn that follows is made.           *)
BeginTurn(t) ==
  /\ Goto(t, "started", "turn")
  /\ generation' = [generation EXCEPT ![t] = runtime[t].gen]
  /\ sinks' = [sinks EXCEPT ![t] = @ \cup {runtime[t].gen}]
  /\ UNCHANGED <<verdict, ctxDone, registry, mailbox, snapshots, completion, stopping>>

-----------------------------------------------------------------------------
(* Turns                                                                   *)

(* A stream event of some turn, possibly of a worker that outlived it:      *)
(* dropped once the gate is closed, recorded if its generation is current,  *)
(* and written to disk at once or, for throttled deltas, not now.          *)
RecordProgress(t, gen) ==
  LET r == [runtime[t] EXCEPT !.folded = @ \cup {gen}, !.status = "running"] IN
  /\ gen \in sinks[t]
  /\ once[t] = "free"
  /\ AcceptsStream(runtime[t], gen)
  /\ \/ SetRuntime(t, r)
     \/ runtime' = [runtime EXCEPT ![t] = r] /\ UNCHANGED record
  /\ UNCHANGED <<runner, ctxDone, registry, mailbox, generation, completion, stopping>>

(* The turn returns: a result, although its context may have been          *)
(* cancelled in the meantime, or an error.                                 *)
TurnSucceeds(t) ==
  /\ Goto(t, "turn", "returned")
  /\ UNCHANGED <<verdict, sinks, ctxDone, registry, mailbox, generation, snapshots,
                 completion, stopping>>

TurnFails(t) ==
  /\ Goto(t, "turn", "ending")
  /\ verdict' = [verdict EXCEPT ![t] = IF ctxDone[t] THEN "cancelled" ELSE "failed"]
  /\ UNCHANGED <<sinks, ctxDone, registry, mailbox, generation, snapshots,
                 completion, stopping>>

(* err == nil and ctx.Err() != nil: the loop is left, and none of the       *)
(* completions after it applies.                                           *)
ReturnUncompleted(t) ==
  /\ Goto(t, "returned", "gone")
  /\ ctxDone[t]
  /\ UNCHANGED <<verdict, sinks, ctxDone, registry, mailbox, generation, snapshots,
                 completion, stopping>>

(* A resumed team task takes no guidance.                                  *)
FinishTeamResume(t) ==
  /\ t \in TeamResumes
  /\ Goto(t, "returned", "ending")
  /\ ~ctxDone[t]
  /\ verdict' = [verdict EXCEPT ![t] = "completed"]
  /\ UNCHANGED <<sinks, ctxDone, registry, mailbox, generation, snapshots,
                 completion, stopping>>

LookForGuidance(t) ==
  /\ t \notin TeamResumes
  /\ Goto(t, "returned", "between")
  /\ ~ctxDone[t]
  /\ UNCHANGED <<verdict, sinks, ctxDone, registry, mailbox, generation, snapshots,
                 completion, stopping>>

-----------------------------------------------------------------------------
(* Guidance                                                                *)

(* GuideChatMessageWithAttachments, for a registered task that accepts it.  *)
Guide(t) ==
  /\ t \in tasks
  /\ accepting[t]
  /\ asked[t] < MaxGuidance
  /\ asked' = [asked EXCEPT ![t] = @ + 1]
  /\ guidance' = [guidance EXCEPT ![t] = @ + 1]
  /\ UNCHANGED <<runner, ctxDone, registry, accepting, generation, snapshots,
                 completion, stopping>>

(* takeNextChatGuidance, under chat.mu.                                    *)
TakeGuidance(t) ==
  /\ t \in tasks
  /\ accepting[t]
  /\ guidance[t] > 0
  /\ Goto(t, "between", "guided")
  /\ guidance' = [guidance EXCEPT ![t] = @ - 1]
  /\ UNCHANGED <<verdict, sinks, ctxDone, registry, accepting, asked, generation,
                 snapshots, completion, stopping>>

(* Mutant: the mailbox stays open until finishChatTask closes it.          *)
CloseMailboxLater(t) ==
  /\ t \in tasks => ~accepting[t] \/ guidance[t] = 0
  /\ Goto(t, "between", "ending")
  /\ verdict' = [verdict EXCEPT ![t] = "completed"]
  /\ UNCHANGED <<sinks, ctxDone, registry, mailbox, generation, snapshots, completion, stopping>>

(* Nothing to take, or the task was stopped: it is no longer registered,    *)
(* and it completes.                                                       *)
CloseMailbox(t) ==
  /\ t \in tasks => ~accepting[t] \/ guidance[t] = 0
  /\ Goto(t, "between", "ending")
  /\ accepting' = [accepting EXCEPT ![t] = IF t \in tasks THEN FALSE ELSE @]
  /\ Remove(t)
  /\ verdict' = [verdict EXCEPT ![t] = "completed"]
  /\ UNCHANGED <<sinks, ctxDone, asked, guidance, generation, snapshots, completion, stopping>>

(* StartGuidedTaskRuntimeWithGeneration; BeginTurn follows.                *)
StartGuidedRuntime(t) ==
  /\ Goto(t, "guided", "started")
  /\ SetRuntime(t, FreshRuntime(runtime[t]))
  /\ UNCHANGED <<verdict, sinks, ctxDone, registry, mailbox, generation, completion, stopping>>

-----------------------------------------------------------------------------
(* completeChatTask: one caller runs the body of terminalOnce, any other    *)
(* caller waits until it is over.                                          *)

(* task.terminal closes the gate for stream events.                        *)
CloseGate(t, event) ==
  /\ once[t] = "free"
  /\ once' = [once EXCEPT ![t] = "gated"]
  /\ gateGen' = [gateGen EXCEPT ![t] = generation[t]]
  /\ outcome' = [outcome EXCEPT ![t] = event]
  /\ UNCHANGED ended

Complete(t) ==
  /\ pc[t] = "ending"
  /\ CloseGate(t, verdict[t])
  /\ UNCHANGED <<runner, ctxDone, registry, mailbox, generation, snapshots, stopping>>

Advance(t, from, to) == once[t] = from /\ once' = [once EXCEPT ![t] = to]

FinishRuntime(t) ==
  LET r == FinishedRuntime(runtime[t], gateGen[t], outcome[t]) IN
  /\ Advance(t, "gated", "finished")
  /\ IF r = runtime[t] THEN UNCHANGED snapshots ELSE SetRuntime(t, r)
  /\ gateGen' = [gateGen EXCEPT ![t] = 0]
  /\ UNCHANGED <<runner, ctxDone, registry, mailbox, generation, outcome, ended, stopping>>

(* task.cancel, then the service on screen reloads the session.            *)
CancelAndReload(t) ==
  /\ Advance(t, "finished", "reloaded")
  /\ ctxDone' = [ctxDone EXCEPT ![t] = TRUE]
  /\ UNCHANGED <<runner, registry, mailbox, generation, snapshots, gateGen, outcome, ended, stopping>>

(* finishChatTask.                                                         *)
Deregister(t) ==
  /\ Advance(t, "reloaded", "removed")
  /\ accepting' = [accepting EXCEPT ![t] = FALSE]
  /\ Remove(t)
  /\ UNCHANGED <<runner, ctxDone, asked, guidance, generation, snapshots, gateGen, outcome,
                 ended, stopping>>

EmitTerminal(t) ==
  /\ Advance(t, "removed", "fired")
  /\ ended' = [ended EXCEPT ![t] = Append(@, outcome[t])]
  /\ UNCHANGED <<runner, ctxDone, registry, mailbox, generation, snapshots, gateGen, outcome,
                 stopping>>

(* The runner returns and task.done is closed.                             *)
RunnerReturns(t) ==
  /\ Goto(t, "ending", "gone")
  /\ once[t] = "fired"
  /\ UNCHANGED <<verdict, sinks, ctxDone, registry, mailbox, generation, snapshots,
                 completion, stopping>>

-----------------------------------------------------------------------------
(* Stopping a task                                                         *)

(* The first part of cancelActiveChatTask, under chat.mu.                  *)
RequestStop(t) ==
  /\ t \in tasks
  /\ stop[t] = "none"
  /\ accepting' = [accepting EXCEPT ![t] = FALSE]
  /\ stop' = [stop EXCEPT ![t] = "reading"]
  /\ enforced' = [enforced EXCEPT ![t] = TRUE]
  /\ stopped' = [stopped EXCEPT ![t] = TRUE]
  /\ UNCHANGED <<runner, ctxDone, registry, asked, guidance, generation, snapshots,
                 completion, stopGen>>

(* cancelAllChatTasks, when the application shuts down: the same steps for  *)
(* every registered task, without a watcher.                               *)
RequestStopAll ==
  LET chosen == {t \in tasks : stop[t] = "none"} IN
  /\ chosen # {}
  /\ accepting' = [t \in Tasks |-> accepting[t] /\ t \notin tasks]
  /\ stop' = [t \in Tasks |-> IF t \in chosen THEN "reading" ELSE stop[t]]
  /\ enforced' = [t \in Tasks |-> enforced[t] /\ t \notin chosen]
  /\ stopped' = [t \in Tasks |-> stopped[t] \/ t \in chosen]
  /\ UNCHANGED <<runner, ctxDone, registry, asked, guidance, generation, snapshots,
                 completion, stopGen>>

(* task.currentGeneration; 0 before the runner has set it.                 *)
ReadGeneration(t) ==
  /\ stop[t] = "reading"
  /\ stopGen' = [stopGen EXCEPT ![t] = generation[t]]
  /\ stop' = [stop EXCEPT ![t] = "marking"]
  /\ UNCHANGED <<runner, ctxDone, registry, mailbox, generation, snapshots, completion,
                 enforced, stopped>>

(* Mutant: a finished runtime is marked too.                               *)
MarkFinishedToo(r, gen) == GenerationMatches(r, gen)

CanMarkCancelling(r, gen) == GenerationMatches(r, gen) /\ ~TerminalStatus(r)

(* MarkTaskRuntimeCancelling.                                              *)
MarkCancelling(t) ==
  /\ stop[t] = "marking"
  /\ IF CanMarkCancelling(runtime[t], stopGen[t])
       THEN SetRuntime(t, [runtime[t] EXCEPT !.status = "cancelling"])
       ELSE UNCHANGED snapshots
  /\ stop' = [stop EXCEPT ![t] = "cancelling"]
  /\ stopGen' = [stopGen EXCEPT ![t] = 0]
  /\ UNCHANGED <<runner, ctxDone, registry, mailbox, generation, completion,
                 enforced, stopped>>

(* task.cancel; the watcher of StopChatMessage then starts its timer.      *)
CancelContext(t) ==
  /\ stop[t] = "cancelling"
  /\ ctxDone' = [ctxDone EXCEPT ![t] = TRUE]
  /\ stop' = [stop EXCEPT ![t] = IF enforced[t] THEN "grace" ELSE "none"]
  /\ enforced' = [enforced EXCEPT ![t] = FALSE]
  /\ UNCHANGED <<runner, registry, mailbox, generation, snapshots, completion,
                 stopGen, stopped>>

(* enforceChatTaskStop: task.done is closed in time ...                    *)
WatcherSeesDone(t) ==
  /\ stop[t] = "grace"
  /\ pc[t] = "gone"
  /\ stop' = [stop EXCEPT ![t] = "none"]
  /\ UNCHANGED <<runner, ctxDone, registry, mailbox, generation, snapshots, completion,
                 stopGen, enforced, stopped>>

(* ... or the timer fires first, whatever the runner is doing (or, if the   *)
(* runner's own steps are quick, only while it is inside a turn or waits    *)
(* for the completion).                                                    *)
GraceElapses(t) ==
  /\ stop[t] = "grace"
  /\ PromptRunner => pc[t] \in {"turn", "ending", "gone"}
  /\ stop' = [stop EXCEPT ![t] = "forcing"]
  /\ UNCHANGED <<runner, ctxDone, registry, mailbox, generation, snapshots, completion,
                 stopGen, enforced, stopped>>

(* Mutant: a runner that is still inside a turn is left alone.             *)
ForceAfterTurn(t) ==
  /\ stop[t] = "forcing"
  /\ pc[t] # "turn"
  /\ CloseGate(t, "cancelled")
  /\ UNCHANGED <<runner, ctxDone, registry, mailbox, generation, snapshots, stopping>>

ForceComplete(t) ==
  /\ stop[t] = "forcing"
  /\ CloseGate(t, "cancelled")
  /\ UNCHANGED <<runner, ctxDone, registry, mailbox, generation, snapshots, stopping>>

WatcherReturns(t) ==
  /\ stop[t] = "forcing"
  /\ once[t] = "fired"
  /\ stop' = [stop EXCEPT ![t] = "none"]
  /\ UNCHANGED <<runner, ctxDone, registry, mailbox, generation, snapshots, completion,
                 stopGen, enforced, stopped>>

-----------------------------------------------------------------------------
CompletionStep(t) ==
  FinishRuntime(t) \/ CancelAndReload(t) \/ Deregister(t) \/ EmitTerminal(t)

(* What the runner does by itself; a turn may take forever.                *)
RunnerStep(t) ==
  \/ StartRuntime(t) \/ BeginTurn(t)
  \/ ReturnUncompleted(t) \/ FinishTeamResume(t) \/ LookForGuidance(t)
  \/ TakeGuidance(t) \/ CloseMailbox(t) \/ StartGuidedRuntime(t)
  \/ Complete(t) \/ RunnerReturns(t)

StopStep(t) ==
  \/ ReadGeneration(t) \/ MarkCancelling(t) \/ CancelContext(t)
  \/ WatcherSeesDone(t) \/ GraceElapses(t) \/ ForceComplete(t) \/ WatcherReturns(t)

UserStep(t) == Register(t) \/ RefuseBusy(t) \/ Guide(t) \/ RequestStop(t)

TurnStep(t) ==
  TurnSucceeds(t) \/ TurnFails(t) \/ \E gen \in 1..(MaxGuidance + 2) : RecordProgress(t, gen)

Next ==
  \/ RequestStopAll
  \/ \E t \in Tasks : UserStep(t) \/ TurnStep(t) \/ RunnerStep(t) \/ CompletionStep(t) \/ StopStep(t)

Spec == Init /\ [][Next]_vars

(* Goroutines are scheduled and timers fire.  Nobody has to start, guide or *)
(* stop a task, and a turn that ignores its context need not return.       *)
Fairness ==
  \A t \in Tasks :
    WF_vars(RunnerStep(t)) /\ WF_vars(CompletionStep(t)) /\ WF_vars(StopStep(t))

FairSpec == Spec /\ Fairness

-----------------------------------------------------------------------------
(* Correctness                                                             *)

Generations == 0..(MaxGuidance + 2)

(* Types of the state.                                                     *)
TypeOK ==
  /\ pc \in [Tasks -> {"idle", "launched", "started", "turn", "returned", "between",
                       "guided", "ending", "gone"}]
  /\ verdict \in [Tasks -> {"none"} \cup Outcomes]
  /\ sinks \in [Tasks -> SUBSET Generations]
  /\ ctxDone \in [Tasks -> BOOLEAN]
  /\ tasks \subseteq Tasks
  /\ bySession \in [Sessions -> Tasks \cup {NoTask}]
  /\ accepting \in [Tasks -> BOOLEAN]
  /\ asked \in [Tasks -> 0..MaxGuidance]
  /\ guidance \in [Tasks -> 0..MaxGuidance]
  /\ generation \in [Tasks -> Generations]
  /\ runtime \in [Tasks -> [gen : Generations, status : Statuses, folded : SUBSET Generations]]
  /\ record \in [Sessions -> [task : Tasks \cup {NoTask}, gen : Generations, status : Statuses]]
  /\ once \in [Tasks -> {"free", "gated", "finished", "reloaded", "removed", "fired"}]
  /\ gateGen \in [Tasks -> Generations]
  /\ outcome \in [Tasks -> {"none"} \cup Outcomes]
  /\ ended \in [Tasks -> Seq(Outcomes)]
  /\ stop \in [Tasks -> {"none", "reading", "marking", "cancelling", "grace", "forcing"}]
  /\ stopGen \in [Tasks -> Generations]
  /\ enforced \in [Tasks -> BOOLEAN]
  /\ stopped \in [Tasks -> BOOLEAN]

(* The registry and the index by session agree, so that a session has at    *)
(* most one registered task; a completion that comes after the session was  *)
(* handed to a successor does not take it away from the successor.         *)
OneTaskPerSession ==
  \A t \in Tasks : t \in tasks <=> bySession[SessionOf[t]] = t

(* A snapshot only holds output of the turn it is the snapshot of: workers  *)
(* that outlived an earlier turn of the same task add nothing to it.       *)
SnapshotOfOneTurn ==
  \A t \in Tasks : runtime[t].folded \subseteq {runtime[t].gen}

(* A message task that ends as completed has run a turn for every guidance  *)
(* message it accepted, unless it was stopped: none slips in between the    *)
(* last look at the mailbox and the completion.                            *)
GuidanceAnswered ==
  \A t \in Tasks \ TeamResumes :
    ("completed" \in {ended[t][i] : i \in DOMAIN ended[t]} /\ ~stopped[t]) => guidance[t] = 0

(* A task emits one terminal event, and its snapshot says the same: nothing *)
(* that was still on its way changes it afterwards.                        *)
FinalStatus ==
  \A t \in Tasks : ended[t] # <<>> => ended[t] = <<runtime[t].status>>

(* A stop request whose grace period has begun ends the task, even if its   *)
(* turn never returns, or finds that its goroutine has returned.           *)
StopIsHonoured ==
  \A t \in Tasks :
    stop[t] = "grace" ~> once[t] = "fired" \/ (pc[t] = "gone" /\ once[t] = "free")

(* A stopped task reaches a terminal state.                                *)
StoppedTaskEnds ==
  \A t \in Tasks : stop[t] = "grace" ~> once[t] = "fired"

(* The crash-recovery snapshot of a session is that of the task running in  *)
(* it: a predecessor that is still completing does not overwrite it.       *)
SnapshotOfRunningTask ==
  \A t \in tasks : runtime[t].status = "running" => record[SessionOf[t]].task = t
=============================================================================
