# TLA+ models of MHcode

MHcode is a desktop coding agent (Go, Wails, a TypeScript window).  This
directory holds TLA+ specifications of the parts whose correctness depends on
the order in which goroutines, files, user actions and crashes interleave, the
TLC configurations that check them on small instances, and TLAPS proofs of
what holds for every instance.  All paths below are relative to `src/`.

`PROJECT.json` is the index: components, runs, the definition-to-source map,
findings, hazards, theorems, and for every property a mutation of the model
(a plausible bug in the code) that breaks it.

- [1. The system](#1-the-system)
- [2. Modules](#2-modules)
- [3. What the runs show](#3-what-the-runs-show)
- [4. Disagreements between code and documentation](#4-disagreements-between-code-and-documentation)
- [5. What is proved](#5-what-is-proved)
- [6. What is only model-checked, and what is not modelled](#6-what-is-only-model-checked-and-what-is-not-modelled)
- [7. Plan](#7-plan)

## 1. The system

A user talks to an agent in *sessions* of a *project*.  A message becomes a
*chat task* with a goroutine and a private `agent.Service`; the task runs
*turns*, a turn runs a loop of model calls and tool calls, tool calls take
*leases* on resources and change the *workspace*, and everything that happened
is appended to the session's *event log*, a tree with a head.  A turn may
delegate work to *subagents* or be played by an *AI team*.  The user may guide
or stop the task, go back to a checkpoint, fork from a message or switch to
another branch; *automations* start tasks on a schedule.

### Components

| component | state it keeps | operations | what makes it correct | modelled by |
|---|---|---|---|---|
| **Resource coordinator** `internal/agent/resource_lock.go` | readers and writer per key, FIFO of waiters, one mutex | `AcquireAll`, `Release`, cancellation of a call | leases exclude each other across directory hierarchies; the table adds up; no lease leaks and no wake-up is lost when a grant races a cancellation; nobody starves | `ResourceCoordinator`, `ResourceLeases` |
| **Resource plans** `tool_resources.go` | none | tool arguments to resource keys | covers what the tool touches | `ToolCalls` (partly) |
| **Chat task runner** `app_chat.go` | registry of tasks, index by session, mailbox of guidance, one-shot completion | start, guide, stop, stop all, complete, forced end after a grace period | one task per session; accepted guidance is answered; one terminal event; a stop ends the task | `ChatTasks` |
| **Task runtime** `runtime_generation.go`, `task_runtime.go`, `eventlog/task_runtime.go` | generation, status and output of the current turn, `task-runtime.json` | start, guided start, stream event, mark cancelling, finish, recover | late events of older turns change nothing; a finished task stays finished; recovery ends a turn once | `ChatTasks`, `TaskRecovery` |
| **Event log** `internal/eventlog/*` | `events.jsonl`, `HEAD`, a private copy of tree and head per store | open, append, set head, leaves, ancestor, undo and replay lists | nothing acknowledged disappears, whoever writes and whenever the application dies | `SessionTimeline` |
| **Turn commit and rollback** `service.go`, `rewind.go`, `turn_timeline.go` | head and message list at the start of a turn | record user message, change, checkpoint, terminal; roll back; retain; rewind; fork; switch | files and conversation move together, also when a step fails | `SessionTimeline` |
| **Session runtimes** `session_runtime.go` | service on screen, one private service per task | open for a task, reload after it | each operation starts from what was written last | `SessionTimeline` |
| **Tool watchdog, idle watchdog** `watchdog.go` | timers, background goroutines, the workspace gate | run with a timeout, give up, stop a silent task | a goroutine that was given up keeps everybody else off its files until it ends | `ToolCalls`, `Subagents`, `TeamRun` |
| **Approval broker** `approval.go` | pending requests, approvals for a session | ask, answer, give up | nothing happens without consent or over something the user has not seen; nobody blocks | `ToolCalls` |
| **Subagents** `subagent*.go` | workers of a turn, their records and file | delegate, await, cancel, collect, join, detach | no result counted twice, no worker left behind a turn that was not given up and recorded, records only advance | `Subagents` |
| **Tool loop, failure strategy** `tool_loop.go`, `failure_strategy.go` | flags of one-time recoveries, failure records | rounds of calls, recoveries, the guard | failures are not repeated for ever; the loop ends | `ToolLoop` |
| **Provider failover** `provider_failover.go`, `chat_events.go` | index of candidates, a collector and a goroutine per call | open, receive, fail over, give up | an answer has one author; no candidate is skipped | `ProviderCalls` |
| **Team runs** `team.go`, `team_resume.go`; **plan state** `plan.go` | stage, roles that have ended, checkpoints; status of the plan | roles, revisions, pause, fail, resume, abandon | a role whose end was saved is not run again; plan and run agree | `TeamRun`, `TaskRecovery` |
| **Project store** `internal/project/store.go` | manifest, active project and sessions, removed projects | create, switch, remove, restore, archive, delete | a removed project keeps its sessions | `ProjectStore` |
| **Automation scheduler** `internal/automation/service.go`, `app_automation.go` | automations, due times, status of the run | tick, start by hand, report, stop, edit, restart | what is recorded as running has an agent, and ends with it | `Automations` |
| **MCP manager** `internal/mcp/manager.go` | managed servers | configure, watch, fetch tools, close | every open session has somebody who will close it | `McpManager` |
| **Terminal manager** `internal/terminal/manager.go` | sessions, reserved places | start, stop, prune | the limit holds; a process that lives can be reached | `Terminals` |
| **Browser engine** `internal/browserengine/*` | settings, the browser that runs, two locks | configure, start, stop, open a page | never a second browser; one that was switched off does not run | `BrowserEngine` |
| context compression, usage metering, artifacts, plugins, extensions, application update, git, secrets, skills, sandbox, tools, provider protocols, desktop shell, frontend | | | | none, see section 6 |

### How they interact

- The window calls `App`; `app_chat.go` builds a private service for each task
  (`NewProjectSessionRuntime`), which opens *its own* `eventlog.Store` on the
  directory that the service on screen has open too.  The two share files, not
  memory; `ReloadProjectSessionIfActive` brings the screen up to date.
- `completeChatTask` is reached from the runner and from the watcher of a stop
  (`enforceChatTaskStop`); `sync.Once` decides.  Its end is reported to the
  automation scheduler by the id of the task.
- Stream events of a turn and of workers that outlived it call back into
  `recordChatTaskProgressForGeneration`; the generation a sink captured decides
  whether they still count.
- A turn calls the model through a list of candidates that shares one index
  among the calls of the turn, those that were given up included.
- Tool calls of all turns and workers of the process meet in the resource
  coordinator.  The watchdog stands between a call and the goroutine that holds
  the lease, asks the user and writes.
- The barrier at the end of a turn stands between workers and the commit.

### What is hard here

Concurrency (registry, completion, coordinator, barrier), stale private state
(stores, generations, previews, indices), two records that must move together
(files and log, plan and run, record and agent), cancellation that races
success, goroutines that go on after they were given up, and crashes between
two writes.  `PROJECT.json` lists these under `hazards`, each with its line and
the properties that cover it, or the reason why none does.

## 2. Modules

| module | models | state and actions |
|---|---|---|
| `ResourceLeases` | the promise of the coordinator: callers wait in line, a grant is all-or-nothing, never against a holder, never past an earlier caller who wants an overlapping key | abstract |
| `ResourceCoordinator` | `resource_lock.go` | `pc` is the place of a caller in `Acquire`/`Release`; `resources`, `waiters` are the fields of the struct; `mu` the mutex.  `scheduleLocked` is walked one waiter at a time (`scan`), because a waiter whose channel is closed in the middle runs concurrently with the rest of the walk.  The select of `Acquire` takes either branch when both are ready. |
| `ChatTasks` | `app_chat.go` and the task runtime | `pc` is the place of the runner in `runChatTask`, `once` how far the body of `terminalOnce` is, `stop` where a stop request and its watcher are.  Each critical section of `chat.mu`, of the runtime's lock, and each call in between is one action. |
| `SessionTimeline` | `eventlog/store.go`, `branches.go`, `rewind.go`, the turn transaction of `service.go`, `session_runtime.go` | `log`, `headFile` and `files` are on disk; `known` and `head` are the private copy of each store.  An append is two actions (line, HEAD).  A restoration keeps the images still to be undone and to be replayed and is one action per image (`Undo` the newest, `Replay` the oldest), so that crashes fall in between where the code lets them. |
| `ToolCalls` | `executeToolCall`, `watchdog.go`, `approval.go`, `tools/file_write.go`: checking, writing and recording a change | a call has a caller (the loop), a worker (the goroutine), a request to the user and a place at the gate; composed with `ResourceLeases`, whose promise the coordinator is shown to keep. |
| `Subagents` | `subagent.go`, `subagent_registry.go` | a worker, its record in memory and in the file, and which writes are still under way; the turn, its await and the goroutine of an await that was given up. |
| `ToolLoop` | `runToolLoopWithCompletionState`, `failure_strategy.go` | the local flags of the loop, the records of the guard; the answer of the model and the end of a tool are choices. |
| `ProviderCalls` | `collectProviderStreamWithTiming`, `provider_failover.go` | per call of the model a collector, a goroutine and the channel between them; one index of candidates. |
| `TeamRun` | `team.go`, `team_resume.go`, `plan.go`, the plan phase and the end of `runToolLoopTurn` | the run in memory, the last checkpoint and the status of the plan in the log, which other turns of the session write too; every append of a run is an action of its own. |
| `TaskRecovery` | `recoverInterruptedTaskRuntime` and what it judges | the chain of the log beside the snapshot, and which events are later than the snapshot; a crash at any step, also of the recovery. |
| `Automations` | `automation/service.go` over the registry of chat tasks | a start is two critical sections with the launch between them; the launch may be refused for reasons of its own; a stopped agent may stay registered for ever. |
| `McpManager` | `mcp/manager.go` | one server id, the managed servers made for it, calls of `configure`, the watcher. |
| `Terminals` | `terminal/manager.go` | phases of a start, the flag and the process of a session, reserved places. |
| `ProjectStore` | `project/store.go`, `agent/projects.go` | the manifest; every operation is one action, as in the code, which saves before it unlocks. |
| `BrowserEngine` | `browserengine/service.go`, `native_surface_windows.go` | the place of each call in `Configure`, `Stop` or `ensureStarted`; `startMu`; `rootCtx` is the browser the service knows, `alive` those that run; `embedded` says which of the two surfaces the program was built with. |
| `Services` | composes `ToolLoop`, `Automations`, `Terminals`, `McpManager`, `TaskRecovery`, `TeamRun`, `ProjectStore`, `ProviderCalls`, `BrowserEngine` | these share no state in the code, so that interleaving them would show nothing: a behaviour is one of the part that `subject` names, while the others stutter. |
| `MC...` | instances for TLC | |
| `ResourceCoordinatorProofs`, `ChatTasksProofs`, `ToolCallsProofs`, `SubagentsProofs`, `SessionTimelineProofs` | proofs about the module of that name | |
| `OwnershipProofs`, `TurnProofs`, `RunProofs` | proofs about `Services`: `Terminals`, `McpManager`, `BrowserEngine`, `ProjectStore`; `ToolLoop`, `ProviderCalls`; `TeamRun`, `TaskRecovery`, `Automations`, and the types of all | |

Keys are records `[kind, path]` with the path a sequence of components; a
bundle is a set of `<<key, mode>>` pairs.  A task is an identifier, a guidance
message is counted, a generation is a number as in the code.  An event is its
position in `events.jsonl`, a file content a model value: one content per agent
write, one that only the user writes, and one for "no such file".

### Abstractions worth knowing

- *ChatTasks.*  All live states of a runtime (waiting, retrying, ...) are
  `"running"`.  What a snapshot holds is the set of generations whose events
  went into it.  The runtimes of tasks are separate in memory and share one
  file per session, as in the code.  The legacy `active` pointer and the
  ownership of approval requests are left out.
- *SessionTimeline.*  The assistant message and the checkpoint, which are
  appended one after the other, are one event.  Putting back backups after a
  failed restoration is one step.  The user's edits outside MHcode may happen
  at any time except inside a restoration and between a tool's write and its
  record.  Appends may fail for a change and for a fork's marker (the two
  places with compensation), and a HEAD may fail to be written at any append or
  move of the head.  What a property has to leave out is remembered: a crash or a
  hang that hits something half done (`unclean`; the code has no journal for
  restorations), a HEAD that was lost (`headLost`), two actors at work at once
  (`crossed`), a file that a tool put back while others restored it
  (`contested`), a file a switch wrote (`replayed`).
- *ToolCalls.*  Paths are files of a flat workspace; a command owns all of it,
  writes at any time, also after it was given up, and does not report what it
  did.  An edit reports one change, and checks its file and writes it in two
  steps.  The idle watchdog is one more way for a task to be stopped.
- *Subagents.*  One turn; progress of a worker is left out, its record has a
  time that only advances.  A stop of the user cancels the context that the
  workers share.  Whether a turn that failed is retained as committed or rolled
  back, which depends on what it had said, is a choice.
- *ToolLoop.*  Calls that the failure strategy treats alike are one strategy.
  The cycle guard, which compares arguments, may end a round at any time.
- *ProviderCalls.*  Reasoning, usage and notices change nothing and are left
  out.  A timer may be over whenever it is set.
- *TeamRun.*  The log is what its current chain restores: the last checkpoint
  and the last status of the plan.  The turns of a session follow one another;
  one that is no team run (ordinary, or guidance) is at work (`"turn"`) or at
  its end (`"closing"`).  `author` remembers which kind wrote the plan last:
  a plan that another turn has left running belongs to no run.
- *ProjectStore.*  Workspaces are the user's and the two that stand in for it.
- *BrowserEngine.*  The settings are whether the browser is enabled and the
  flags it is started with.  A failure may come at each stage of a start.  The
  thread of WebView2 answers within the five seconds that `Close` waits for it.
- *Bugs next to the code.*  A definition whose comment starts with "Mutant:" or
  "Not the code:" is no part of the specification; it is what a bug in the
  definition next to it would look like.

## 3. What the runs show

| run | instance | shows |
|---|---|---|
| `coordinator` | 3 callers; workspace, directory and file keys above each other | `ExclusiveLeases`, `TableMatchesLeases`, `NothingLeftBehind`, `NobodyForgotten`; every behaviour is one of `ResourceLeases` (`ImplementsLeases`); `EveryCallEnds`: each call that joined the queue gets its lease or is cancelled |
| `tasks_handover` | 2 tasks of one session, one of them a resumed team task | `OneTaskPerSession` |
| `tasks_stopped` | 1 task, up to 2 guidance messages, runner prompt | `SnapshotOfOneTurn`, `GuidanceAnswered`, `FinalStatus`, `StopIsHonoured` |
| `timeline` | 1 file, 1 agent content, 2 task runtimes and the screen, 6 events, 1 trouble | `TypeOK`, `FilesMatchConversation`, `NothingForgotten`, `EditsSurviveGoingBack` |
| `tool_calls` | 2 edits of one file by one task, a workspace command of another that may hang, 1 record that fails | `ExclusiveWork`, `NoEffectWithoutConsent`, `ApprovedChangeOnly`, `ChangesAccounted`; `EveryCallReturns`, `LeasesComeBack` |
| `subagents` | 2 workers, one that hangs and one the user may cancel, 1 await | `UsageCountedOnce`, `FileCatchesUp`, `TurnAccountsForWorkers`, `RecordOnlyAdvances`; `BarrierEnds` |
| `services` | see the bounds below | `TypeOK` of each part; `NoBlindRetry`, `DisabledEnds` (tool loop); `RunIsAgent`, `RunsEnd` (automations); `TerminalsBounded`; `SessionsOwned` (MCP); `EndedOnce` (recovery); `NoRoleTwice`, `PlanFollowsRun` (team); `OneSpeaker`, `NobodySkipped` (model calls); `OneBrowser`, `DisabledIsOff` (browser) |
| `stop_meets_success`, `predecessor_overwrites`, `late_writer`, `round_cut_short`, `removed_project_lost` | smallest instance with the behaviour | a statement of the documentation that the code does not keep; see section 4 |

The type invariants of `ResourceCoordinator`, `ChatTasks`, `ToolCalls` and
`Subagents` are proved for every instance (section 5) and are not repeated in
the runs.

### Bounds and why they suffice

- *Coordinator.*  Three callers give a holder, a waiter and a third one that
  could overtake or be forgotten; the keys give equality, both directions of
  containment and disjointness.  The theorems remove the bound for safety.  The
  state space is finite without further bounds.
- *ChatTasks.*  Two tasks are what a handover has (the predecessor's late steps
  against one successor); two guidance messages give three turns, so that an
  event may be one or two turns late.  `MaxGuidance` is the only bound.  A stop
  may be requested any number of times.
- *SessionTimeline.*  `MaxEvents` bounds the log: six events hold a turn with
  two changes, its checkpoint and the beginning of a second one, or a turn, a
  fork and what follows it (five in `late_writer`).  `MaxTroubles = 1` bounds
  edits outside, forced stops, crashes, failed writes of HEAD and operations
  beside a running task together: each of them meets every operation, at every
  point; the theorems cover any number.  Symmetry exchanges the two runtimes.
  One file with three contents is enough for wrong order (two changes of one
  file), wrong verification and wrong branch.
- *ToolCalls.*  Two edits of a file by one task give a stale preview and an
  approval for the session; the command of the other task meets both at the
  lease and the gate, and its tool may hang for ever.  `MaxFailures = 1` bounds
  the records that fail.
- *Subagents.*  Two workers: one ends late or is cancelled, one never ends.
  `MaxAwaits = 1` bounds the awaits that are given up, whose goroutine then
  runs beside the barrier.
- *ToolLoop.*  One strategy, answers of up to two calls (a round that is left in
  the middle), three rounds (a failure, its retry, and the one that must be
  refused).
- *Automations.*  One automation, started by the user and by the scheduler, two
  chat tasks, three runs.  A launch may be refused at any time.
- *Terminals.*  Four shells with places for two: full, and two more that
  compete for what is pruned.
- *McpManager.*  Three managed servers and two calls of `configure`, so that one
  replaces what the other made, and a closing manager.
- *TaskRecovery.*  Three turns and ten events: a turn in front of the
  interrupted one and one behind it.
- *TeamRun.*  One role that may be switched off, one review round, two turns: a
  run that is interrupted anywhere and resumed, or one turn of each kind in
  either order.
- *ProjectStore.*  Three projects and three sessions (four in
  `removed_project_lost`).
- *ProviderCalls.*  Two calls, so that the goroutine of the first meets the
  second; three candidates, as many as the code takes at most; one place in the
  channel instead of sixteen, which only makes the goroutine wait earlier.

- *BrowserEngine.*  Three callers: one starts, one stops and one changes the
  settings or starts again; two numbers for browsers, so that a second one could
  be there.

### Fairness and what the environment may do

- *Coordinator.*  Goroutines are scheduled (weak fairness on a walk under the
  mutex and on a select that can proceed).  Taking the mutex has strong fairness:
  Go's `sync.Mutex` hands itself over to a waiter that starves.  A tool that
  holds a lease returns it; the tool watchdog is what justifies this.  Nobody
  has to start a call, and no context has to be cancelled.
- *ChatTasks.*  Goroutines are scheduled and timers fire.  A turn need not
  return, a user need not do anything, stream events need not arrive.
- *ToolCalls.*  The caller of a call is scheduled and its timer fires; the
  worker is scheduled unless its tool hangs.  The user need not answer.
- *Subagents.*  A worker that does not hang ends and reports; the turn is
  scheduled; the grace timer of the barrier or the idle watchdog fires.
- *ToolLoop.*  The loop goes on and workers end.  The model need never stop
  asking for tools: `DisabledEnds` speaks of a loop whose tools are disabled.
- *Automations.*  A caller inside a start goes on; a chat task that was stopped
  ends or leaves without a word, and one that has ended is reported.  An agent
  that nobody stops may work for ever, and the scheduler need not tick: `RunsEnd`
  speaks of runs whose agent is not at work any more, and names the stopped
  agent that never reports as the one exception.
- `Services` restates the last two for the part that acts.  The other parts of
  it have safety properties only and no fairness.
- `PromptRunner = TRUE` says that the grace period of a stop (two seconds) does
  not elapse while the runner is between two of its own steps; it may while the
  runner is inside a turn or waits for a completion.  `FinalStatus` and the
  liveness of a stop are stated under it, the first as the hypothesis of its
  theorem.  The other safety properties of chat tasks are proved without it.
- The user may start, rewind, fork and switch at any time the code allows it,
  also while a task runs or the screen has not reloaded.  `crossed` remembers
  that somebody began beside somebody else; `MaxTroubles` bounds how often.  The
  code enforces waiting for forks only.
- `LateWriters = FALSE` in `timeline` says that a task that had to be ended by
  force hangs for ever; with `TRUE` it may go on (also `crossed`), which is what
  `late_writer` shows.  The theorems hold for both values.
- `CHECK_DEADLOCK FALSE` is set where tasks, calls or runs come to an end:
  everything may be over.  The coordinator run checks for deadlock.

## 4. Disagreements between code and documentation

Each of these is a run that TLC ends with a counterexample; `PROJECT.json`
quotes the sentences in question.

1. **A stop that meets success** (`stop_meets_success`, `app_chat.go:496`).  A
   stop that lands after a turn succeeded and before the runner looks at its
   context makes the runner return without completing the task.  The watcher
   sees that the runner is done and does nothing: the session stays busy, the
   snapshot stays "cancelling", and no terminal event is sent.
   `StopIsHonoured` (checked as passing) says that this is the *only* way for a
   stop to come to nothing.
2. **A predecessor overwrites its successor's snapshot**
   (`predecessor_overwrites`, `app_chat.go:684`).  Closing the mailbox takes the
   task out of the registry before its final state is written, against the
   comment at `app_chat.go:591`.
3. **A late writer** (`late_writer`, `eventlog/store.go:138`).  A task that was
   ended by force and goes on appends to its old private head, and HEAD
   follows.
4. **A round that is cut short** (`round_cut_short`, `agent/tool_loop.go:1414`).
   The guard leaves the loop over the calls of an answer; the calls behind stay
   in the transcript without results.
5. **A removed project is lost** (`removed_project_lost`,
   `internal/project/store.go:514`).  A project that stands in for the last one
   takes the place of an earlier one of the same workspace among the removed.

Noticed while modelling, without a run:

- Starting reads the log before it claims the session and does not read it again
  (`app_chat.go:213`); a guided turn that begins after a stop was recorded sets
  the runtime back to running (`task_runtime.go:134`); switching verifies only
  the files that are undone, not those it replays (`rewind.go:1014`, `:1048`);
  a resumed team task accepts guidance and completes without looking at it
  (`app_chat.go:480`), which is why `GuidanceAnswered` speaks of message tasks.
- An await of workers that the watchdog gives up loses the artifacts it would
  have reported (`watchdog.go:256-278`; `docs/agent-operating-contract.zh-CN.md:28`).
  A user's stop inside the barrier commits the turn with workers detached
  (`service.go:1078-1093`; `docs/agent-internal-design.zh-CN.md:71`), and a turn
  that failed may be retained as committed although the barrier gave up on a
  worker (`tool_loop.go:191`, `service.go:879`): `TurnAccountsForWorkers` asks of
  these that the worker was cancelled and is recorded as ended.
  `RecoverInterruptedSubagentTasks` is called by tests only.
- A rewind or switch whose HEAD cannot be written puts the files back and leaves
  the head in memory on the target (`eventlog/store.go:326`, `rewind.go:317`,
  `:1075`), so that the next event continues a conversation the files are not
  at.  The HEAD that an append cannot write is ignored (`eventlog/store.go:154`).
- A command reports no changes (`tools/shell.go:154`): what it did to files is in
  no log, and a rewind does not undo it.
- A stop of an automation that meets the success of its turn (finding 1) leaves
  its run "running", and `runDue` passes over it until the program is started
  again (`automation/service.go:350`).
- An ordinary turn or guidance may leave its plan running beside a team run that
  is completed, or beside none (`tool_loop.go:352`, `service.go:1244`).
- A snapshot that is flushed after the answer was logged makes recovery append
  "interrupted" to a turn that was committed (`task_runtime.go:747`;
  `EndedOnce` exempts it); a crash between the end of a team run and the append
  of its answer loses the answer.
- Overlapping starts of an automation: the failure of the second marks the run
  of the first as failed (`automation/service.go:372`).
- `StopAll` of the terminal manager misses a start that is in progress.
- Of two model calls of a turn that fail together the second is refused the next
  candidate (`provider_failover.go:171`).  The end of an answer without text
  starts a timer (`chat_events.go:298`) that goes on when the stream is lost and
  the next candidate begins.  A goroutine that leaves at its second select
  (`provider_failover.go:79`) does not drain the candidate's stream.  An
  abandoned call may move the index, so that `ActiveRoute` names another model
  than the one that speaks.
- A team run that is ended by the idle watchdog, also while the user reads the
  plan, is rolled back as a whole (against `team_resume.go:19-20`).  A planner,
  tester or reviewer that fails is tolerated and the run completes (against
  `docs/agent-internal-design.zh-CN.md:69`).  A rejected plan of a turn that is
  rolled back is appended again over that of an earlier run
  (`service.go:1104-1131`).
- Settings of the browser that change while it is being started only apply to
  the next start (`browserengine/service.go:110`).  `Open` does not look whether
  the browser was stopped after it was started (`service.go:180`), as the
  screenshot does (`render.go:42`).  `ClearData` removes the profile after it has
  given up `startMu` (`service.go:391-397`).
- Archiving the active session leaves the pointer on an archived session
  (`project/store.go:713-732`, against the comment at `:399`).

## 5. What is proved

TLAPS checks these theorems for every value of the constants that the named
assumptions of the modules allow (`BoundsAssumption`, `ShellsAssumption`, ...);
TLC evaluates the assumptions on every run.  A module that TLC reaches only
through `INSTANCE` has no `ASSUME`; what its theorems need is assumed in
`Services`.  A theorem about a property `X` of a run is called `XAlways`.

`ResourceCoordinatorProofs`

- `TypeCorrect`: types.
- `NothingLeftBehindAlways`: the place of a caller in the code, its place in
  the queue and its lease agree.  The induction needs `QueueInv`: the mutex is
  held exactly by the caller inside a walk (`MutexInv`), and nobody is queued
  twice, in the kept and in the unexamined part of the queue together
  (`OnePlaceInQueue`).  Without these a grant in the middle of a walk could
  meet a caller that has left.
- `TableMatchesLeasesAlways`: the reader counts and writer flags are the
  cardinalities they stand for.  It rests on exclusiveness: clearing the writer
  flag is right only because a key has one writer.
- `ExclusiveLeasesAlways`: it rests in turn on the table, because a grant looks
  only at the table.  The two are proved together (`LeaseInv`).
- `NobodyForgottenAlways`: no lost wake-up.  Whoever a walk passed over conflicts
  with a lease or with a waiter ahead; a release or a leaving waiter starts a
  new walk from the head of the queue, with nobody kept.
- `ImplementsLeasesAlways`: the refinement of `ResourceLeases`.  A caller waits
  in the abstract queue from the moment it is in `waiters` or in what a walk has
  kept or not yet looked at; the abstract grant is the step of the walk that
  closes the channel, allowed because the table tells the leases (`LeaseInv`)
  and because the walk compares a caller with everybody it kept ahead of it.
  Choosing, joining, giving up and returning are abstract steps too; locking,
  unlocking, cancelling a context and keeping a waiter are none.

`ChatTasksProofs`

- `TypeCorrect`: the interesting part is that generations stay within
  `MaxGuidance + 2`, which makes the bound of the model harmless.
  `GenerationBound` relates the generation to guidance taken and to the place of
  the runner.
- `OneTaskPerSessionAlways`: `Remove` may be called twice for a task, and
  between the two its session may have gone to a successor.
- `SnapshotOfOneTurnAlways`: from the types, and from the generation test of
  `AcceptsStream`.
- `GuidanceAnsweredAlways`: the inductive invariant `MailboxInv` says of every
  task that was never stopped that it is registered, accepts guidance and is
  not being completed until its runner has closed the mailbox, and that it is
  not registered any more once it is going to end as completed.  Closing
  and deregistering are one critical section: that is what the mutant
  `CloseMailboxLater` takes away.

- `FinalStatusAlways`, under `PromptRunner`: `FinalInv` follows `terminalOnce`
  and the snapshot together.  `GateInv` says that a snapshot is not final before
  the gate, and is what the event will say behind it; `GenerationKnown` that the
  runner writes for the generation the snapshot has, so that it is not turned
  away; `NoTurnAhead` that no turn can begin any more once somebody completes
  the task.  Without the hypothesis the grace period can elapse in front of
  `StartTaskRuntime`, which then makes a finished snapshot a running one, and
  the statement is false; nothing but two seconds of time prevents that.

`ToolCallsProofs`, for any calls, files and tasks

- `LeaseInv` ties the place of the goroutine, not that of its caller, to the
  lease, says that leases that are held are compatible and that a call that has
  not started has no goroutine; `ExclusiveWorkAlways` follows, because a call
  that was given up keeps its lease until its goroutine leaves.
- `ConsentInv` follows an answer from the user through the request to the
  goroutine, the session's approvals and the write:
  `NoEffectWithoutConsentAlways`.  `ApprovedChangeOnlyAlways` needs `EditInv`
  besides: an edit on its way holds what it was made from, or a put-back has got
  at its file since the check (`overtaken`); the lease keeps all other calls away,
  as two goroutines at work never share a file.  Approvals for a session that
  another call of the same task and fingerprint uses are covered by the proof
  for any number of calls; the run has one.
- `AccountInv` says where the outcome of an edit may be (still in the goroutine,
  on its way, recorded, or of a call that was given up): `ChangesAccountedAlways`.

`SubagentsProofs`, for any workers and any order of their ids

- `CountInv`: a result that was counted is marked as collected, in the record
  of the worker: `UsageCountedOnceAlways`.
- `BarrierInv`: what the turn has seen of each worker when it is past the
  barrier, and that it gives up on workers only when its loop failed or its
  context is done, with all of them cancelled before; `EndedInv` that whoever
  was seen is recorded as ended: `TurnAccountsForWorkersAlways`.
- `RecordOnlyAdvancesAlways`, an action property, from the types and the merge
  of the file alone.

- `FileCatchesUpAlways`: `CatchInv` says of each worker that its last change is
  in the file or on its way (`CatchesUp`) and stands against everything else that
  is in the file or on its way (`Settles`), of which nothing is ahead of the
  control (`NotAhead`).  A statement about the last writer alone is not
  inductive: writers of older changes may come after it.

`OwnershipProofs`

- `TerminalsBoundedAlways`: `PlacesInv` counts the reserved places as the starts
  that are under way; `ReachInv` says that a process that lives belongs to a
  start or is listed as running, so that it is never pruned.
- `SessionsOwnedAlways`: `ConfigureInv` says that the call of `configure` that is
  not idle has the activity, which `Close` waits for; that what it found listed
  is still listed until it swaps; and that an open session is known to whoever
  will close its server.
- `OneBrowserAlways`, `DisabledIsOffAlways`: `LockInv` ties `startMu` to the one
  call that starts or stops; `RunInv` says that what runs is the browser of
  `rootCtx` or that of this call; `OffInv` that a browser that is switched off is
  gone or somebody is about to stop it, with the settings a start has read.

- `ProjectsSoundAlways`: what `Sound` of `ProjectStore` says of the manifest.
  `StoreInv` adds that a project which is not in the manifest has no session and
  that the next ids are unused (`Unused`, `Fresh`), without which a new project
  could take over sessions; `RemoveAtElements` says what remains of a list
  without one of its elements.

`TurnProofs`

- `NoBlindRetryAlways`, for any strategies, from `RetryInv`: the tries of a
  strategy since its last success are the attempts of its record.
- The types of the loop need `EnoughInv`: calls are left only within a round and
  before the final answer is forced, and a strategy that was blocked twice has
  forced it; so none is blocked a third time.
- `OneSpeakerAlways`: `CallInv` follows the text of a call backwards, from the
  result through the channel to what the goroutine is about to send: once there
  is some, the goroutine has seen it and the call keeps its candidate.
- `NobodySkippedAlways`: `AdvanceInv` says that whatever a goroutine fails with
  is a failure of the candidate whose index it holds; the index that moves is
  then the index of one that failed, whichever call moves it.

`RunProofs`

- `NoRoleTwiceAlways`, for any number of review rounds and turns: `TeamInv` says
  that a checkpoint holds no role at or behind its own stage, and that no role
  whose end was saved is missing from the checkpoint that is kept, the one that a
  rollback brings back included.
- `PlanFollowsRunAlways`: between turns the statement is about the last
  checkpoint; within a turn plan and checkpoint are written one after the other,
  and a rollback may bring back either or a terminal plan may outlive it.
  `PlanInv` therefore says that the plan fits the checkpoint held, that what was
  there before the turn fits, that the checkpoint in the log, which may be older
  than the plan, is one that a crash can turn into a paused run, and of another
  turn that no run is paused and that a plan it has not written is the old one.
- `EndedOnceAlways`: `TurnLog` says at every step of the runner and of the
  recovery what the log of the turn holds, and that what has ended it since the
  snapshot was written is found later than that write, where the next recovery
  looks for it.
- `RunIsAgentAlways`: `AgentsOwned` says whose a chat task is, `Agrees` what the
  record of an automation may show at each place of the one start under way, a
  launch that is refused and a stopped agent that never reports included.
- `TypesAlways`: the types of all nine parts, from the invariants of the three
  modules.  What is not bookkeeping: an automation has no more failures than
  runs, and fewer while one is under way (`Counts`); reserved terminals are never
  more than the limit (`PlacesInv`); the channel of a model call is never over
  its buffer (`Channels`); the snapshot of a task never points behind its log
  (`Snapshot`).

`SessionTimelineProofs`, for any tasks, files and number of events

- `TypeOKAlways` holds in every configuration.  Its core is `LogOK`: the parent
  of an event is an earlier one, which makes chains finite.
- What a chain contains is the value of a recursive function over the log.  The
  prover has no induction over it; each fact (`Upwards`, that appending changes
  no older chain, that content is decided by the images on a chain) is proved by
  looking at the least event for which it would fail.
- Nothing is assumed of the user, of HEAD or of tasks that were ended by force.
  What is not claimed of a history stands in the property itself, as `crossed`
  (two actors worked on the session at once) or `headLost` (a HEAD could not be
  written).
- `NothingForgottenAlways`: until actors cross, either one task acts or the
  screen does (`OneActor`), and the store that acts continues the conversation
  HEAD stands for, or what an append whose HEAD failed has put behind it
  (`HeadInv`); this is where the reload in front of every task and after it is
  needed.  `HistoryLasts` says that a history that has crossed stays so.
- `EditsSurviveGoingBackAlways` holds of crossings too.  `EditsInv` says that
  what the user wrote over a file is kept (`Kept`): in the file, with nobody
  about to put another image there (`InFile`), in a recorded image, or held by a
  tool that is about to record it (`Held`).  `WorkSound` adds that whatever is to
  be undone has a backup, that a task rolls back only in the phase of that name,
  and that tools never write what the user writes.
- `FilesMatchConversationAlways`: every image tells what the conversation said
  of its file before (`ImagesRight`).  So in the middle of a restoration a file
  either has what its target says already or will get it from the newest image
  still to be replayed or else the oldest to be undone (`Restored`), and the
  backup is what the head says (`Restoring`); between a tool's write and its
  record only the file written differs (`Wrote`); otherwise the files are what
  the head says (`AtHead`).  Undoing in the other order breaks the first of
  these, which is the mutant of this property.  `TogetherInv` keeps this for as
  long as no actors crossed and no HEAD was lost.

Each proof has the form *initially, for every step, hence always*; the temporal
step is the last one.

## 6. What is only model-checked, and what is not modelled

Every invariant a passing run checks is also a theorem.  Only model-checked:

- liveness (`EveryCallEnds`, `StopIsHonoured`, `EveryCallReturns`,
  `LeasesComeBack`, `BarrierEnds`, `DisabledEnds`, `RunsEnd`), which is out of
- `FinalStatus` without `PromptRunner` (where it is false), and the findings of
  section 4.

Not modelled, in components that are:

- lines torn by a crash, snapshots that cannot be read, metadata of events; what
  a rollback restores in memory (messages, metrics); the frontend's own locks;
  putting back the backups of a failed restoration succeeds as a whole;
- what a command does to more than one file; several changes reported by one
  tool call; the table of tools behind resource plans; heartbeats;
- contexts and prompts of workers; how parts of a turn are merged;
- what earlier turns leave in failure records, the ageing of records, and
  failures that are cancellations, which the code does not count: `NoBlindRetry`
  is about one turn and about calls that failed by themselves;
- model calls of a turn one after the other: `OneSpeaker` speaks of one call.  A
  call that is retried after tools have run may be answered by another candidate
  than the one that asked for the tools (`tool_loop.go:1055-1071`);
- the steps of a plan: plans with the same status are taken to differ, and a
  step that would move backwards is not refused (`plan.go:94`);
- the arithmetic of schedules; writes of automations that fail; several MCP
  servers; input and output of terminals; the pages, popups, profiles and
  downloads of the browser, whose events would have to be invented; names, pins and times of projects.

Not modelled at all:

| component | why |
|---|---|
| context compression `context_window.go` | which messages become a summary, by token budgets: arithmetic over texts within one call that holds the activity of the service |
| usage metering `usage*.go`, `internal/cache`, `internal/storage` | counters and bills, each change one transaction of SQLite |
| artifact registry | an index computed from the log |
| plugins | a process per call; installation by staged copy and rename |
| extensions, application update | file I/O and downloads; updates are serialized by one lock and swapped in by a helper process |
| workspace git, secrets, skills, sandbox | calls into git, the operating system and files; no state of their own |
| tools, provider protocols | what they do to files and networks is, in the models, what a call may do; their parsing is data |
| desktop shell, frontend | glue and user interface: in the models, unconstrained calls of the user |

These parts are most of the lines of the repository, which is why the map
covers a small share of it: what is left is large and sequential.

## 7. Plan

What would add most next:

1. An abstract specification of the life of a task that `ChatTasks` implements,
   and `Automations` over that instead of its own registry.
2. What holds of histories in which two actors worked on a session: which of
   their events a later open still finds, for each kind of crossing apart.
3. Several changes of one tool call in `ToolCalls`.
4. The merging of worker contexts, failure records over several turns, and a
   turn with more than one model call in `ProviderCalls`.
5. A proof that no session is lost from the manifest unless it was deleted, for
   workspaces other than the temporary ones (section 4).
