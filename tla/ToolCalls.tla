------------------------------ MODULE ToolCalls ------------------------------
(***************************************************************************)
(* One tool call from executeToolCall (tool_loop.go) down: the watchdog    *)
(* that waits for the tool and gives up on it (watchdog.go), the goroutine *)
(* that takes the lease and the workspace gate, the approval by the user   *)
(* (approval.go), the effect on a file, and the record of that effect in   *)
(* the event log of the session.  Calls belong to tasks in one workspace,  *)
(* so they share the lease coordinator and the gate; every task has its    *)
(* own service, approval broker and log.                                   *)
(*                                                                         *)
(* The coordinator appears as the service it implements, ResourceLeases.   *)
(* Paths are files of a flat workspace; a command owns all of it.          *)
(***************************************************************************)
EXTENDS Naturals, FiniteSets, Sequences

CONSTANTS
  Calls, Tasks, Files,
  TaskOf,         \* the task that makes a call
  Target,         \* the file a call writes
  Mutating,       \* calls of a MutatingTool: Preview, approval, ApplyPending
  Imprecise,      \* calls without an exact resource plan: they take the gate
  NeedsApproval,  \* calls the approval policy asks the user about
  Fingerprint,    \* tool and arguments, as the broker remembers them
  Hanging,        \* calls whose tool may never return
  MaxFailures,    \* bound: how often the event log may refuse a record
  Base,           \* what a file holds before any call
  Nobody          \* nobody holds the gate

ASSUME SetsAssumption ==
  /\ Mutating \subseteq Calls /\ Imprecise \subseteq Calls
  /\ NeedsApproval \subseteq Calls /\ Hanging \subseteq Calls
  /\ Base \notin Calls /\ Nobody \notin Calls
ASSUME FunctionsAssumption ==
  /\ TaskOf \in [Calls -> Tasks] /\ Target \in [Calls -> Files]
  /\ DOMAIN Fingerprint = Calls
ASSUME MaxFailuresAssumption == MaxFailures \in Nat

VARIABLES
  pc,         \* where the caller of runToolWithWatchdog is
  worker,     \* where its goroutine is
  done,       \* the outcome channel of the goroutine (capacity 1)
  status,     \* the result the caller has got; "recorded": with its change in the log
  toolCtx,    \* the context of the call: live, or done by its timeout or by cancel()
  cancelled,  \* the tasks whose context is done
  ask, line, holders,  \* the lease service: the resource plans and who has what
  gate,       \* toolMutationMu
  preview,    \* what Preview read
  pending,    \* requests the broker knows
  owners,     \* requests the desktop can still answer
  answer,     \* the channel of a request (capacity 1)
  allowed,    \* <<task, fingerprint>> approved for the session
  consent,    \* history: what the user said about a call
  file,       \* what each file holds: the call that wrote it last
  before,     \* what a reported change says its file held: what Preview read
  overtaken,  \* history: calls whose file was put back between their check and their write
  failures

callerVars == <<pc, status, toolCtx, cancelled>>
leaseVars == <<ask, line, holders, gate>>
approvalVars == <<preview, pending, owners, answer, allowed, consent>>
fileVars == <<file, before, overtaken>>
vars == <<callerVars, worker, done, leaseVars, approvalVars, fileVars, failures>>

(* The resource plan: a file, or for a command every file of the workspace *)
(* (resourcesForTool).                                                     *)
ResourcePlan(c) ==
  [f \in Files |-> IF f = Target[c] \/ c \in Imprecise THEN "write" ELSE "none"]
NoPlan == [f \in Files |-> "none"]

SameFile(f, g) == f = g
Lease == INSTANCE ResourceLeases WITH
  Callers <- Calls, Keys <- Files, Conflict <- SameFile

Stages ==
  {"none", "queued", "gate", "check", "asked", "running", "writing", "leaving", "gone"}
(* Outcomes by what they mean for the file; a refusal, an error and a tool *)
(* with nothing to do look the same here, and so do a timeout and a stop.  *)
(* Only a MutatingTool reports its change: the caller cannot tell what a   *)
(* command has left behind ("unreported") from nothing at all.             *)
Results == {"none", "changed", "unreported", "unchanged"}
Reports == Results \cup {"recorded", "unrecorded", "interrupted"}
Answers == {"none", "once", "session", "no"}

TypeOK ==
  /\ pc \in [Calls -> {"idle", "waiting", "recording", "returned"}]
  /\ worker \in [Calls -> Stages] /\ done \in [Calls -> Results]
  /\ status \in [Calls -> Reports] /\ toolCtx \in [Calls -> {"none", "live", "expired", "closed"}]
  /\ cancelled \in SUBSET Tasks
  /\ ask \in [Calls -> {NoPlan} \cup {ResourcePlan(c) : c \in Calls}]
  /\ line \in Seq(Calls) /\ holders \in SUBSET Calls
  /\ gate \in Calls \cup {Nobody}
  /\ preview \in [Calls -> Calls \cup {Base}]
  /\ pending \in SUBSET Calls /\ owners \in SUBSET Calls
  /\ answer \in [Calls -> Answers] /\ consent \in [Calls -> Answers]
  /\ allowed \in SUBSET (Tasks \X {Fingerprint[c] : c \in Calls})
  /\ file \in [Files -> Calls \cup {Base}]
  /\ before \in [Calls -> Calls \cup {Base}]
  /\ overtaken \in SUBSET Calls
  /\ failures \in 0..MaxFailures

Init ==
  /\ pc = [c \in Calls |-> "idle"] /\ worker = [c \in Calls |-> "none"]
  /\ done = [c \in Calls |-> "none"] /\ status = [c \in Calls |-> "none"]
  /\ toolCtx = [c \in Calls |-> "none"] /\ cancelled = {}
  /\ ask = [c \in Calls |-> NoPlan] /\ line = <<>> /\ holders = {} /\ gate = Nobody
  /\ preview = [c \in Calls |-> Base] /\ pending = {} /\ owners = {}
  /\ answer = [c \in Calls |-> "none"] /\ consent = [c \in Calls |-> "none"]
  /\ allowed = {}
  /\ file = [f \in Files |-> Base] /\ before = [c \in Calls |-> Base]
  /\ overtaken = {} /\ failures = 0

TaskDone(c) == TaskOf[c] \in cancelled
ToolDone(c) == toolCtx[c] # "live" \/ TaskDone(c)      \* toolCtx.Done()

----------------------------------------------------------------------------
(* The caller: executeToolCall and the outer half of runToolWithWatchdog.  *)

(* The tool loop of a task makes one call at a time.                       *)
LoopFree(c) ==
  \A d \in Calls : TaskOf[d] = TaskOf[c] => pc[d] \in {"idle", "returned"}

(* A call of a task that is over ends here.  Otherwise its goroutine joins *)
(* the queue of the coordinator at once: all that can happen in between is *)
(* that the context ends, which leads out of the queue as well.            *)
Start(c) ==
  /\ pc[c] = "idle" /\ ~TaskDone(c) /\ LoopFree(c)
  /\ pc' = [pc EXCEPT ![c] = "waiting"]
  /\ toolCtx' = [toolCtx EXCEPT ![c] = "live"]
  /\ worker' = [worker EXCEPT ![c] = "queued"]
  /\ ask' = [ask EXCEPT ![c] = ResourcePlan(c)]
  /\ line' = Append(line, c)
  /\ UNCHANGED <<status, cancelled, done, holders, gate, approvalVars, fileVars, failures>>

StartTooLate(c) ==
  /\ pc[c] = "idle" /\ TaskDone(c) /\ LoopFree(c)
  /\ pc' = [pc EXCEPT ![c] = "returned"]
  /\ status' = [status EXCEPT ![c] = "interrupted"]
  /\ UNCHANGED <<toolCtx, cancelled, worker, done, leaseVars, approvalVars, fileVars, failures>>

(* context.WithTimeout(ctx, timeout).                                      *)
Expire(c) ==
  /\ toolCtx[c] = "live"
  /\ toolCtx' = [toolCtx EXCEPT ![c] = "expired"]
  /\ UNCHANGED <<pc, status, cancelled, worker, done, leaseVars, approvalVars, fileVars, failures>>

(* The user stops the task, or its idle watchdog does.                     *)
CancelTask(t) ==
  /\ t \notin cancelled
  /\ cancelled' = cancelled \cup {t}
  /\ UNCHANGED <<pc, status, toolCtx, worker, done, leaseVars, approvalVars, fileVars, failures>>

(* Returning from runToolWithWatchdog closes the context (defer cancel()). *)
ReturnWith(c, report, next) ==
  /\ status' = [status EXCEPT ![c] = report]
  /\ pc' = [pc EXCEPT ![c] = next]
  /\ toolCtx' = [toolCtx EXCEPT ![c] = "closed"]
  /\ done' = [done EXCEPT ![c] = "none"]
  /\ UNCHANGED <<cancelled, worker, leaseVars, approvalVars, file, overtaken, failures>>

TakeLateOutcome(c) ==      \* mutant: the change of a late outcome is not recorded
  /\ pc[c] = "waiting" /\ done[c] # "none"
  /\ ReturnWith(c, done[c],
       IF done[c] = "changed" /\ ~ToolDone(c) THEN "recording" ELSE "returned")
  /\ UNCHANGED before

TakeOutcome(c) ==
  /\ pc[c] = "waiting" /\ done[c] # "none"
  /\ ReturnWith(c, done[c], IF done[c] = "changed" THEN "recording" ELSE "returned")
  /\ UNCHANGED before

InterruptStopped(c) ==      \* mutant: only a stop ends the wait, not the timeout
  /\ pc[c] = "waiting" /\ TaskDone(c)
  /\ ReturnWith(c, "interrupted", "returned")
  /\ before' = [before EXCEPT ![c] = Base]

InterruptReleases(c) ==      \* mutant: the caller gives back the lease of its goroutine
  /\ pc[c] = "waiting" /\ ToolDone(c)
  /\ pc' = [pc EXCEPT ![c] = "returned"]
  /\ status' = [status EXCEPT ![c] = "interrupted"]
  /\ toolCtx' = [toolCtx EXCEPT ![c] = "closed"]
  /\ done' = [done EXCEPT ![c] = "none"]
  /\ before' = [before EXCEPT ![c] = Base]
  /\ holders' = holders \ {c}
  /\ UNCHANGED <<cancelled, worker, ask, line, gate, approvalVars, file, overtaken, failures>>

(* The caller gives up; its goroutine goes on by itself.                   *)
Interrupt(c) ==
  /\ pc[c] = "waiting" /\ ToolDone(c)
  /\ ReturnWith(c, "interrupted", "returned")
  /\ before' = [before EXCEPT ![c] = Base]

Record(c) ==
  /\ pc[c] = "recording"
  /\ status' = [status EXCEPT ![c] = "recorded"]
  /\ pc' = [pc EXCEPT ![c] = "returned"]
  /\ before' = [before EXCEPT ![c] = Base]
  /\ UNCHANGED <<toolCtx, cancelled, worker, done, leaseVars, approvalVars, file, overtaken,
                 failures>>

(* The log refuses the record: the file is put back to what it was, unless *)
(* that fails too; the call is reported as failed.  The lease is long gone *)
(* by then, so that another call may be about to write.                    *)
RecordFails(c) ==
  /\ pc[c] = "recording" /\ failures < MaxFailures
  /\ failures' = failures + 1
  /\ \/ /\ file' = [file EXCEPT ![Target[c]] = before[c]]
        /\ overtaken' = overtaken \cup
             {d \in Calls : worker[d] = "writing" /\ Target[d] = Target[c]}
     \/ UNCHANGED <<file, overtaken>>
  /\ before' = [before EXCEPT ![c] = Base]
  /\ status' = [status EXCEPT ![c] = "unrecorded"]
  /\ pc' = [pc EXCEPT ![c] = "returned"]
  /\ UNCHANGED <<toolCtx, cancelled, worker, done, leaseVars, approvalVars>>

----------------------------------------------------------------------------
(* The goroutine of runToolWithWatchdog.  Deliver stands for its last      *)
(* select: the outcome goes into the channel; if the context is done it    *)
(* may be dropped instead, which the caller cannot tell from choosing not  *)
(* to read it (Interrupt).  The deferred unlocks follow in Leave.          *)

Deliver(c, result, next) ==
  /\ done' = [done EXCEPT ![c] = IF pc[c] = "waiting" THEN result ELSE @]
  /\ worker' = [worker EXCEPT ![c] = next]

Acquire(c) ==
  /\ worker[c] = "queued"
  /\ \E i \in DOMAIN line : line[i] = c /\ Lease!Grant(i)
  /\ worker' = [worker EXCEPT ![c] = IF c \in Imprecise THEN "gate" ELSE "check"]
  /\ UNCHANGED <<callerVars, done, gate, approvalVars, fileVars, failures>>

GiveUpWaiting(c) ==
  /\ worker[c] = "queued" /\ ToolDone(c)
  /\ \E i \in DOMAIN line : line[i] = c /\ Lease!GiveUp(i)
  /\ Deliver(c, "unchanged", "gone")
  /\ UNCHANGED <<callerVars, gate, approvalVars, fileVars, failures>>

(* lockToolMutationUntilDone: TryLock first, then the context.             *)
LockGate(c) ==
  /\ worker[c] = "gate" /\ gate = Nobody
  /\ gate' = c
  /\ worker' = [worker EXCEPT ![c] = "check"]
  /\ UNCHANGED <<callerVars, done, ask, line, holders, approvalVars, fileVars, failures>>

(* Without the gate, or with a context that is done, nothing is delivered. *)
Abandon(c) ==
  /\ worker[c] \in {"gate", "check"} /\ ToolDone(c)
  /\ worker' = [worker EXCEPT ![c] = "leaving"]
  /\ UNCHANGED <<callerVars, done, leaseVars, approvalVars, fileVars, failures>>

SessionAllowed(c) == <<TaskOf[c], Fingerprint[c]>> \in allowed
MustAsk(c) == c \in NeedsApproval /\ ~SessionAllowed(c)

(* runToolWithApproval: execute at once ...                                *)
Proceed(c) ==
  /\ worker[c] = "check" /\ ~ToolDone(c) /\ ~MustAsk(c)
  /\ worker' = [worker EXCEPT ![c] = "running"]
  /\ UNCHANGED <<callerVars, done, leaseVars, approvalVars, fileVars, failures>>

(* ... or preview the change, if it is one, and show it to the user        *)
(* (approvalBroker.request: the entry, then the card) ...                  *)
Ask(c) ==
  /\ worker[c] = "check" /\ ~ToolDone(c) /\ MustAsk(c)
  /\ preview' = IF c \in Mutating THEN [preview EXCEPT ![c] = file[Target[c]]] ELSE preview
  /\ pending' = pending \cup {c} /\ owners' = owners \cup {c}
  /\ worker' = [worker EXCEPT ![c] = "asked"]
  /\ UNCHANGED <<callerVars, done, leaseVars, answer, allowed, consent, fileVars, failures>>

(* ... unless the preview fails or there is nothing to change.             *)
PreviewEnds(c) ==
  /\ worker[c] = "check" /\ ~ToolDone(c) /\ MustAsk(c) /\ c \in Mutating
  /\ Deliver(c, "unchanged", "leaving")
  /\ UNCHANGED <<callerVars, leaseVars, approvalVars, fileVars, failures>>

(* Answers are routed by owner and an owner answers once (app_chat.go).    *)
Respond(c, d) ==
  /\ c \in owners
  /\ owners' = owners \ {c}
  /\ IF c \in pending
     THEN /\ answer' = [answer EXCEPT ![c] = d]
          /\ consent' = [consent EXCEPT ![c] = d]
          /\ allowed' = IF d = "session" THEN allowed \cup {<<TaskOf[c], Fingerprint[c]>>} ELSE allowed
     ELSE UNCHANGED <<answer, allowed, consent>>
  /\ UNCHANGED <<callerVars, worker, done, leaseVars, preview, pending, fileVars, failures>>

EndRequest(c) ==
  /\ pending' = pending \ {c}
  /\ answer' = [answer EXCEPT ![c] = "none"]
  /\ UNCHANGED <<callerVars, leaseVars, owners, allowed, consent, failures>>

DropPreview(c) == preview' = [preview EXCEPT ![c] = Base]

Rejected(c) ==
  /\ worker[c] = "asked" /\ answer[c] = "no"
  /\ EndRequest(c) /\ DropPreview(c) /\ Deliver(c, "unchanged", "leaving")
  /\ UNCHANGED fileVars

StopAskingAndRun(c) ==      \* mutant: an ended request counts as approved
  /\ worker[c] = "asked" /\ ToolDone(c)
  /\ EndRequest(c) /\ DropPreview(c)
  /\ worker' = [worker EXCEPT ![c] = "running"]
  /\ UNCHANGED <<done, fileVars>>

StopAskingStopped(c) ==      \* mutant: the timeout does not end a request
  /\ worker[c] = "asked" /\ TaskDone(c)
  /\ EndRequest(c) /\ DropPreview(c) /\ Deliver(c, "unchanged", "leaving")
  /\ UNCHANGED fileVars

StopAsking(c) ==
  /\ worker[c] = "asked" /\ ToolDone(c)
  /\ EndRequest(c) /\ DropPreview(c) /\ Deliver(c, "unchanged", "leaving")
  /\ UNCHANGED fileVars

(* After a yes nothing looks at the context again.  A change is written    *)
(* only over what Preview has seen (verifyPendingBase); the file is read   *)
(* for that first and replaced in a later step.                            *)
Approved(c) == worker[c] = "asked" /\ answer[c] \in {"once", "session"}
AboutToWrite(c) == worker' = [worker EXCEPT ![c] = "writing"]

ApplyBlindly(c) ==      \* mutant: no verifyPendingBase
  /\ Approved(c) /\ c \in Mutating
  /\ EndRequest(c) /\ AboutToWrite(c)
  /\ UNCHANGED <<done, preview, fileVars>>

ApplyPending(c) ==
  /\ Approved(c) /\ c \in Mutating /\ file[Target[c]] = preview[c]
  /\ EndRequest(c) /\ AboutToWrite(c)
  /\ UNCHANGED <<done, preview, fileVars>>

ApplyRefused(c) ==
  /\ Approved(c) /\ c \in Mutating /\ file[Target[c]] # preview[c]
  /\ EndRequest(c) /\ DropPreview(c) /\ Deliver(c, "unchanged", "leaving")
  /\ UNCHANGED fileVars

RunApproved(c) ==
  /\ Approved(c) /\ c \notin Mutating
  /\ EndRequest(c) /\ DropPreview(c)
  /\ worker' = [worker EXCEPT ![c] = "running"]
  /\ UNCHANGED <<done, fileVars>>

(* The file is replaced (WriteBytesAtomic), or that fails.                 *)
WriteFile(c) ==
  /\ worker[c] = "writing"
  /\ \/ /\ file' = [file EXCEPT ![Target[c]] = c]
        /\ before' = [before EXCEPT ![c] = IF pc[c] = "waiting" THEN preview[c] ELSE Base]
        /\ Deliver(c, "changed", "leaving")
     \/ UNCHANGED <<file, before>> /\ Deliver(c, "unchanged", "leaving")
  /\ DropPreview(c)
  /\ UNCHANGED <<callerVars, leaseVars, pending, owners, answer, allowed, consent, overtaken,
                 failures>>

(* tool.Execute of a MutatingTool: a preview and a check of its own.       *)
Edit(c) ==
  /\ worker[c] = "running" /\ c \in Mutating
  /\ preview' = [preview EXCEPT ![c] = file[Target[c]]]
  /\ AboutToWrite(c)
  /\ UNCHANGED <<callerVars, done, leaseVars, pending, owners, answer, allowed, consent, fileVars,
                 failures>>

(* tool.Execute of any other tool: it may write at any time, also after it *)
(* was given up, and does not say so.                                      *)
RunCommand(c) ==
  /\ worker[c] = "running" /\ c \notin Mutating
  /\ file' = [file EXCEPT ![Target[c]] = c]
  /\ Deliver(c, "unreported", "leaving")
  /\ UNCHANGED <<callerVars, leaseVars, approvalVars, before, overtaken, failures>>

Execute(c) ==
  \/ Edit(c) \/ RunCommand(c)
  \/ /\ worker[c] = "running"
     /\ Deliver(c, "unchanged", "leaving")
     /\ UNCHANGED <<callerVars, leaseVars, approvalVars, fileVars, failures>>

(* The deferred unlock and lease.Release, in this order.                   *)
Leave(c) ==
  /\ worker[c] = "leaving"
  /\ gate' = IF gate = c THEN Nobody ELSE gate
  /\ IF c \in holders THEN Lease!Return(c) ELSE UNCHANGED <<ask, line, holders>>
  /\ worker' = [worker EXCEPT ![c] = "gone"]
  /\ UNCHANGED <<callerVars, done, approvalVars, fileVars, failures>>

----------------------------------------------------------------------------
Caller(c) == TakeOutcome(c) \/ Interrupt(c) \/ Record(c) \/ RecordFails(c)
Worker(c) ==
  \/ Acquire(c) \/ GiveUpWaiting(c) \/ LockGate(c) \/ Abandon(c)
  \/ Proceed(c) \/ Ask(c) \/ PreviewEnds(c)
  \/ Rejected(c) \/ StopAsking(c) \/ ApplyPending(c) \/ ApplyRefused(c) \/ RunApproved(c)
  \/ WriteFile(c) \/ Leave(c)

Next ==
  \/ \E c \in Calls :
       \/ Start(c) \/ StartTooLate(c) \/ Expire(c) \/ Caller(c) \/ Worker(c) \/ Execute(c)
       \/ \E d \in Answers \ {"none"} : Respond(c, d)
  \/ \E t \in Tasks : CancelTask(t)

Spec == Init /\ [][Next]_vars

(* The scheduler runs goroutines and timers fire; a tool that does not     *)
(* hang ends.  Nothing says that the user answers or stops anything.       *)
Fairness ==
  /\ \A c \in Calls : WF_vars(Expire(c) \/ Caller(c))
  /\ \A c \in Calls : WF_vars(Worker(c) \/ (c \notin Hanging /\ Execute(c)))
FairSpec == Spec /\ Fairness

----------------------------------------------------------------------------
(* Goroutines that touch the workspace exclude each other, those that have *)
(* been given up and reported as timed out included: their lease lives as  *)
(* long as they do (watchdog.go:235).                                      *)
Working(c) == worker[c] \in {"gate", "check", "asked", "running", "writing"}
ExclusiveWork ==
  \A c, d \in Calls : c # d /\ Working(c) /\ Working(d) => Lease!Compatible(c, d)

(* No effect without consent: a call that needs approval and has changed a *)
(* file was approved itself, or by a session-wide approval of the same     *)
(* fingerprint in the same task.                                           *)
ConsentGiven(c) ==
  \/ consent[c] \in {"once", "session"}
  \/ \E d \in Calls : /\ consent[d] = "session" /\ TaskOf[d] = TaskOf[c]
                     /\ Fingerprint[d] = Fingerprint[c]
NoEffectWithoutConsent ==
  \A c \in NeedsApproval, f \in Files : file[f] = c => ConsentGiven(c)

(* An edit replaces the very content its diff was made from, the one the   *)
(* user has seen and agreed to if the call had to be approved: the file    *)
(* may change while the user reads, since a failed record of another call  *)
(* is put back without any lease (tool_loop.go:1904).  The one exception   *)
(* is such a put-back between the check and the write of the edit.         *)
ApprovedChangeOnly ==
  [][\A c \in Calls :
       worker[c] = "writing" /\ file[Target[c]] # c /\ file'[Target[c]] = c =>
         /\ preview[c] = file[Target[c]] \/ c \in overtaken
         /\ c \in NeedsApproval => ConsentGiven(c)]_vars

(* An edit that no log knows of belongs to a call that was reported as     *)
(* interrupted or failed, or whose caller has not got round to recording   *)
(* it: an edit that is reported as done can be rewound.  Nothing of the    *)
(* kind holds of commands, whose effects no log knows of.                  *)
ChangesAccounted ==
  \A f \in Files : LET c == file[f] IN
    c \in Mutating => \/ pc[c] \in {"waiting", "recording"}
                     \/ status[c] \in {"recorded", "unrecorded", "interrupted"}

(* Whatever its tool, the user and the other calls do, a call returns: a   *)
(* task makes finitely many calls here, so one that never came back would  *)
(* be waiting in every later state.                                        *)
EveryCallReturns == []<>(\A c \in Calls : pc[c] # "waiting")

(* Unless its tool hangs, a call gives back its lease and its place on the *)
(* approval list, also if nobody ever answers.                             *)
LeasesComeBack == []<>(holders \cup pending \subseteq Hanging)
=============================================================================
