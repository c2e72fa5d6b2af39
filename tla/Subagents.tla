------------------------------- MODULE Subagents -------------------------------
(***************************************************************************)
(* The workers a turn delegates to (subagent.go) and their registration on *)
(* disk (subagent_registry.go).  delegate_task starts workers and returns; *)
(* await_subagents polls or waits for them; the turn ends with a barrier   *)
(* that joins them all, or gives up on those that do not stop within the   *)
(* grace period after a cancellation.  The user may cancel one worker, or  *)
(* stop the task; the idle watchdog stops a silent one.                    *)
(*                                                                         *)
(* Every change of a worker's record is made under its lock and written    *)
(* to the registry file after the lock is released, by whoever made it:    *)
(* the worker, the turn, an await, or the user's call.  Writes may arrive  *)
(* in another order than the changes; the file merges them.                *)
(*                                                                         *)
(* await_subagents runs in a goroutine of the tool watchdog (watchdog.go): *)
(* when its time is over the turn goes on without its result, while the    *)
(* goroutine, which keeps the lease of the session's subagents, goes       *)
(* through the remaining workers.                                          *)
(*                                                                         *)
(* One turn of one session.  Progress of a worker, from pending to running *)
(* and on, and what it does are left out.                                  *)
(***************************************************************************)
EXTENDS Naturals, FiniteSets

CONSTANTS
  Workers,      \* workers, in one or several delegations
  Id,           \* their task ids, by which controls are sorted
  Hanging,      \* workers that may never return, cancelled or not
  Cancellable,  \* bound: workers the user may cancel
  Limit,        \* MaxConcurrentSubagents
  MaxAwaits,    \* bound: calls of await_subagents
  NoWorker

ASSUME WorkersAssumption ==
  /\ NoWorker \notin Workers /\ Workers \cap {"turn", "await", "user"} = {}
  /\ Hanging \subseteq Workers /\ Cancellable \subseteq Workers
  /\ Id \in [Workers -> Nat] /\ \A w, x \in Workers : Id[w] = Id[x] => w = x
ASSUME BoundsAssumption == Limit \in Nat /\ MaxAwaits \in Nat

VARIABLES
  record,      \* control.taskRecord
  finished,    \* control.finished, with control.done closed
  controls,    \* s.subagents
  worker,      \* where the goroutine of a worker is
  stopped,     \* workers whose context is cancelled; it derives from that of the turn
  file,        \* the registry file
  saving,      \* what each writer has still to write
  turn,        \* where the goroutine of the turn is
  todo,        \* controls the barrier has still to visit
  joined,      \* the controls the barrier found
  patient,     \* the barrier waits for its workers, without a deadline
  grace,       \* the deadline of the cancellation
  detached, failed, verdict,
  turnCtx,     \* context of the turn
  await,       \* the goroutine of await_subagents
  counted,     \* history: how often a worker's usage was recorded
  awaits

workerVars == <<record, finished, worker>>
turnVars == <<turn, todo, joined, patient, grace, detached, failed, verdict>>
awaitVars == <<await, counted, awaits>>
vars == <<workerVars, controls, stopped, file, saving, turnVars, turnCtx, awaitVars>>

(* "ended": completed or failed.                                           *)
Terminal == {"ended", "cancelled"}
Statuses == {"none", "active"} \cup Terminal
(* updated stands for UpdatedAt: the changes of a record are in order.     *)
NoRecord == [status |-> "none", updated |-> 0, cancelRequested |-> FALSE, collected |-> FALSE]
NoSave == [worker |-> NoWorker, rec |-> NoRecord]
Writers == Workers \cup {"turn", "await", "user"}
(* todo: controls it has still to visit.                                   *)
NoAwait == [running |-> FALSE, todo |-> {}]

Records == [status : Statuses, updated : Nat, cancelRequested : BOOLEAN, collected : BOOLEAN]

TypeOK ==
  /\ record \in [Workers -> Records] /\ file \in [Workers -> Records]
  /\ finished \in [Workers -> BOOLEAN] /\ controls \in SUBSET Workers
  /\ worker \in [Workers -> {"none", "busy", "ending", "gone"}]
  /\ stopped \in SUBSET Workers
  /\ saving \in [Writers -> [worker : Workers \cup {NoWorker}, rec : Records]]
  /\ turn \in {"working", "awaiting", "joining", "collecting", "over"}
  /\ todo \in SUBSET Workers /\ joined \in SUBSET Workers
  /\ await \in [running : BOOLEAN, todo : SUBSET Workers]
  /\ patient \in BOOLEAN /\ grace \in {"off", "running", "past"}
  /\ detached \in SUBSET Workers /\ failed \in BOOLEAN
  /\ verdict \in {"none", "committed", "retained", "rolledback"}
  /\ turnCtx \in {"live", "stopped", "silent"}
  /\ counted \in [Workers -> Nat] /\ awaits \in 0..MaxAwaits

Init ==
  /\ record = [w \in Workers |-> NoRecord] /\ finished = [w \in Workers |-> FALSE]
  /\ controls = {} /\ worker = [w \in Workers |-> "none"] /\ stopped = {}
  /\ file = [w \in Workers |-> NoRecord] /\ saving = [p \in Writers |-> NoSave]
  /\ turn = "working" /\ todo = {} /\ joined = {} /\ patient = FALSE /\ grace = "off"
  /\ detached = {} /\ failed = FALSE /\ verdict = "none"
  /\ turnCtx = "live"
  /\ await = NoAwait
  /\ counted = [w \in Workers |-> 0] /\ awaits = 0

----------------------------------------------------------------------------
(* Records and the registry file.                                          *)

Touch(r) == [r EXCEPT !.updated = @ + 1]
(* updateTaskRecordFromPartLocked                                          *)
WithStatus(r, s) == [Touch(r) EXCEPT !.status = s]
Started == [NoRecord EXCEPT !.status = "active", !.updated = 1]

(* Not the code: the later write wins; the first end of a worker wins.    *)
MergeBlindly(old, new) ==
  [new EXCEPT !.collected = old.collected \/ @,
              !.cancelRequested = old.cancelRequested \/ @]

MergeFirstEnd(old, new) ==
  LET base == IF old.status \in Terminal THEN old ELSE new
  IN [base EXCEPT !.collected = old.collected \/ new.collected,
                  !.cancelRequested = old.cancelRequested \/ new.cancelRequested]

(* mergeSubagentTaskRecord: a terminal record stands against one that is   *)
(* not, otherwise the later one counts; two marks are never taken back.    *)
Merge(old, new) ==
  LET base ==
        IF \/ old.status \in Terminal /\ new.status \notin Terminal
           \/ /\ old.status \in Terminal <=> new.status \in Terminal
              /\ new.updated < old.updated
        THEN old ELSE new
  IN [base EXCEPT !.collected = old.collected \/ new.collected,
                  !.cancelRequested = old.cancelRequested \/ new.cancelRequested]

(* persistSubagentControl: the snapshot belongs to the change of record[w] *)
(* that is being made.  In the code it is taken just after, and may hold a *)
(* still later change, which then only reaches the file sooner.            *)
Free(p) == saving[p].worker = NoWorker
Due(p, w) == saving' = [saving EXCEPT ![p] = [worker |-> w, rec |-> record'[w]]]

(* CancelSubagent cancels the worker when it has written the mark.         *)
WriteFile(p) ==
  /\ ~Free(p)
  /\ stopped' = IF p = "user" THEN stopped \cup {saving[p].worker} ELSE stopped
  /\ file' = [file EXCEPT ![saving[p].worker] = Merge(@, saving[p].rec)]
  /\ saving' = [saving EXCEPT ![p] = NoSave]
  /\ UNCHANGED <<workerVars, controls, turnVars, turnCtx, awaitVars>>

----------------------------------------------------------------------------
(* The goroutine of a worker.                                              *)

(* update ignores parts of a control that is finished (detached).          *)
Update(w, s) ==
  IF finished[w]
  THEN UNCHANGED <<record, saving>>
  ELSE /\ record' = [record EXCEPT ![w] = WithStatus(@, s)]
       /\ Due(w, w)

(* runDelegatedTask emits its final part before it returns the result; the *)
(* record is terminal from here on although the control is not finished.   *)
Report(w, s) ==
  /\ worker[w] = "busy" /\ Free(w)
  /\ s \in (IF w \in stopped THEN {"cancelled"} ELSE {"ended"})
  /\ worker' = [worker EXCEPT ![w] = "ending"]
  /\ Update(w, s)
  /\ UNCHANGED <<finished, controls, stopped, file, turnVars, turnCtx, awaitVars>>

(* control.finish: the first one counts.                                   *)
FinishAs(p, w, s) ==
  IF finished[w]
  THEN UNCHANGED <<record, finished, saving>>
  ELSE /\ record' = [record EXCEPT ![w] = WithStatus(@, s)]
       /\ finished' = [finished EXCEPT ![w] = TRUE]
       /\ Due(p, w)

Finish(w) ==
  /\ worker[w] = "ending" /\ Free(w)
  /\ worker' = [worker EXCEPT ![w] = "gone"]
  /\ FinishAs(w, w, record[w].status)
  /\ UNCHANGED <<controls, stopped, file, turnVars, turnCtx, awaitVars>>

----------------------------------------------------------------------------
(* The turn: its tools.                                                    *)

(* selectSubagents sorts the controls by id.                               *)
IsFirst(w, controlSet) == w \in controlSet /\ \A x \in controlSet : Id[w] <= Id[x]

Active == {w \in controls : ~finished[w]}

(* delegate_task: registers on disk, then starts.  (Called just after the  *)
(* task was stopped it records workers as cancelled and starts none.)      *)
Delegate(new) ==
  /\ turn = "working" /\ turnCtx = "live" /\ ~await.running /\ new # {}
  /\ \A w \in new : worker[w] = "none" /\ file[w] = NoRecord
  /\ Cardinality(Active) + Cardinality(new) <= Limit
  /\ file' = [w \in Workers |-> IF w \in new THEN Started ELSE file[w]]
  /\ record' = [w \in Workers |-> IF w \in new THEN Started ELSE record[w]]
  /\ controls' = controls \cup new
  /\ worker' = [w \in Workers |-> IF w \in new THEN "busy" ELSE worker[w]]
  /\ UNCHANGED <<finished, stopped, saving, turnVars, turnCtx, awaitVars>>

(* await_subagents(wait = true) for some controls, or for all uncollected  *)
(* ones; a poll takes the same steps without waiting, and is left out.     *)
(* Like delegate_task it needs the lease an abandoned await still has.     *)
Await(some) ==
  /\ turn = "working" /\ turnCtx = "live" /\ ~await.running /\ awaits < MaxAwaits
  /\ some # {} /\ some \subseteq controls
  /\ turn' = "awaiting"
  /\ await' = [NoAwait EXCEPT !.running = TRUE, !.todo = some]
  /\ awaits' = awaits + 1
  /\ UNCHANGED <<workerVars, controls, stopped, file, saving, todo, joined, patient, grace, detached,
                 failed, verdict, turnCtx, counted>>

(* Not the code: the collected flag is not looked at.                      *)
EveryTime(w) == TRUE

(* collect: the first collection has the artifacts and the usage.          *)
Newly(w) == ~record[w].collected

Collect(p, w) ==
  /\ record' = [record EXCEPT ![w] = [Touch(@) EXCEPT !.collected = TRUE]]
  /\ IF Newly(w)
     THEN Due(p, w) /\ counted' = [counted EXCEPT ![w] = @ + 1]
     ELSE UNCHANGED <<saving, counted>>

AwaitStep(w) ==
  /\ await.running /\ IsFirst(w, await.todo) /\ Free("await")
  /\ finished[w] \/ turn # "awaiting" \/ turnCtx # "live"
  /\ IF finished[w] THEN Collect("await", w) ELSE UNCHANGED <<record, saving, counted>>
  /\ await' = [await EXCEPT !.todo = @ \ {w}]
  /\ UNCHANGED <<finished, worker, controls, stopped, file, turnVars, turnCtx, awaits>>

(* runToolWithWatchdog returns what the goroutine has sent ...             *)
AwaitReturns ==
  /\ await.running /\ await.todo = {} /\ Free("await")
  /\ turn' = IF turn = "awaiting" THEN "working" ELSE turn
  /\ await' = NoAwait
  /\ UNCHANGED <<workerVars, controls, stopped, file, saving, todo, joined, patient, grace, detached,
                 failed, verdict, turnCtx, counted, awaits>>

(* ... or an error, when the time of the tool is over or the task stopped; *)
(* the result that may still come is thrown away, with the artifacts of    *)
(* workers it has collected.                                               *)
AwaitGivenUp ==
  /\ turn = "awaiting"
  /\ turn' = "working"
  /\ UNCHANGED <<workerVars, controls, stopped, file, saving, todo, joined, patient, grace, detached,
                 failed, verdict, turnCtx, awaitVars>>

----------------------------------------------------------------------------
(* The barrier, finishSubagentTurnWithContext.                             *)

(* The tool loop ends, with or without an error; the barrier cancels the   *)
(* workers if it has failed or the task is stopped already.                *)
EndLoop(error) ==
  /\ turn = "working" /\ Free("turn")
  /\ turn' = "joining" /\ todo' = controls /\ joined' = controls
  /\ failed' = error
  /\ patient' = ~(error \/ turnCtx # "live")
  /\ grace' = IF patient' THEN "off" ELSE "running"
  /\ stopped' = IF patient' THEN stopped ELSE Workers
  /\ UNCHANGED <<workerVars, controls, file, saving, detached, verdict, turnCtx,
                 awaitVars>>

Join(w) ==
  /\ turn = "joining" /\ IsFirst(w, todo) /\ finished[w]
  /\ patient \/ grace = "running"
  /\ todo' = todo \ {w}
  /\ UNCHANGED <<workerVars, controls, stopped, file, saving, turn, joined, patient, grace, detached,
                 failed, verdict, turnCtx, awaitVars>>

(* The task is stopped while the barrier waits; the contexts of the        *)
(* workers derive from its own, so cancelling them adds nothing.           *)
JoinStopped ==
  /\ turn = "joining" /\ todo # {} /\ patient /\ turnCtx # "live"
  /\ patient' = FALSE /\ grace' = "running"
  /\ UNCHANGED <<workerVars, controls, stopped, file, saving, turn, todo, joined, detached, failed,
                 verdict, turnCtx, awaitVars>>

(* subagentCancellationJoinGrace is over.                                  *)
GraceOver ==
  /\ turn = "joining" /\ grace = "running"
  /\ grace' = "past"
  /\ UNCHANGED <<workerVars, controls, stopped, file, saving, turn, todo, joined, patient,
                 detached, failed, verdict, turnCtx, awaitVars>>

(* After the deadline the barrier does not even look whether w is done.    *)
Detach(w) ==
  /\ turn = "joining" /\ IsFirst(w, todo) /\ ~patient /\ grace = "past"
  /\ detached' = detached \cup {w}
  /\ todo' = todo \ {w}
  /\ UNCHANGED <<workerVars, controls, stopped, file, saving, turn, joined, patient, grace, failed,
                 verdict, turnCtx, awaitVars>>

AllJoined ==
  /\ turn = "joining" /\ todo = {}
  /\ turn' = "collecting" /\ todo' = joined
  /\ UNCHANGED <<workerVars, controls, stopped, file, saving, joined, patient, grace, detached,
                 failed, verdict, turnCtx, awaitVars>>

(* A detached worker is reported as cancelled, also when it finished after *)
(* the deadline; its result is never collected.                            *)
TakeOver(w) ==
  /\ turn = "collecting" /\ IsFirst(w, todo) /\ w \in detached /\ Free("turn")
  /\ FinishAs("turn", w, "cancelled")
  /\ todo' = todo \ {w}
  /\ UNCHANGED <<worker, controls, stopped, file, turn, joined, patient, grace, detached, failed,
                 verdict, turnCtx, awaitVars>>

CollectJoined(w) ==
  /\ turn = "collecting" /\ IsFirst(w, todo) /\ w \notin detached /\ Free("turn")
  /\ Collect("turn", w)
  /\ todo' = todo \ {w}
  /\ UNCHANGED <<finished, worker, controls, stopped, file, turn, joined, patient, grace, detached,
                 failed, verdict, turnCtx, await, awaits>>

(* A loop that failed has decided before the barrier whether the turn is   *)
(* retained as an interrupted one (retainInterruptedTurn, when there was   *)
(* output worth keeping, or a team run that paused) or rolled back.        *)
FailedVerdicts == {"retained", "rolledback"}

(* Not the code: the verdict of before the join.                           *)
VerdictsOfLoop == IF failed THEN FailedVerdicts ELSE {"committed"}

(* resolvedTaskContextError after the join: a turn the idle watchdog has   *)
(* given up is rolled back although its loop had succeeded.                *)
Verdicts ==
  CASE failed -> FailedVerdicts
    [] ~failed /\ turnCtx = "silent" -> {"rolledback"}
    [] OTHER -> {"committed"}

EndTurn ==
  /\ turn = "collecting" /\ todo = {} /\ Free("turn")
  /\ turn' = "over" /\ controls' = controls \ joined
  /\ verdict' \in Verdicts /\ failed' = FALSE /\ grace' = "off" /\ patient' = FALSE
  /\ UNCHANGED <<workerVars, stopped, file, saving, todo, joined, detached, turnCtx, awaitVars>>

----------------------------------------------------------------------------
(* The user and the idle watchdog.                                         *)

(* CancelSubagent marks and writes the record, then cancels the context.   *)
(* Of a worker whose record is terminal it only cancels a context that     *)
(* nobody reads any more.                                                  *)
CancelSubagent(w) ==
  /\ w \in Cancellable \cap (controls \ stopped) /\ Free("user")
  /\ record[w].status \notin Terminal
  /\ record' = [record EXCEPT ![w] = [Touch(@) EXCEPT !.cancelRequested = TRUE]]
  /\ Due("user", w)
  /\ UNCHANGED <<finished, worker, controls, stopped, file, turnVars, turnCtx, awaitVars>>

StopTask ==
  /\ turn # "over" /\ turnCtx = "live"
  /\ turnCtx' = "stopped" /\ stopped' = Workers
  /\ UNCHANGED <<workerVars, controls, file, saving, turnVars, awaitVars>>

(* Not the code: the watchdog pauses before the barrier, not behind it.    *)
SilentBeforeBarrier ==
  /\ turn = "awaiting" /\ \A w \in await.todo : ~finished[w]
  /\ \A w \in controls : worker[w] \in {"busy", "gone"} /\ (worker[w] = "busy" => w \in Hanging)

(* The idle watchdog fires when nothing is heard of the turn: it waits for *)
(* workers and none of them is getting anywhere.                           *)
Silent ==
  /\ turn \in {"awaiting", "joining"}
  /\ \A w \in (IF turn = "awaiting" THEN await.todo ELSE todo) : ~finished[w]
  /\ \A w \in controls : worker[w] = "busy" => w \in Hanging
  /\ \A w \in controls : worker[w] # "ending"
IdleTimeout ==
  /\ turnCtx = "live" /\ Silent
  /\ turnCtx' = "silent" /\ stopped' = Workers
  /\ UNCHANGED <<workerVars, controls, file, saving, turnVars, awaitVars>>

----------------------------------------------------------------------------
WorkerStep(w) ==
  \/ Finish(w)
  \/ \E s \in Terminal : Report(w, s)
Tool ==
  \/ \E some \in SUBSET Workers :
       Delegate(some) \/ Await(some)
  \/ \E error \in BOOLEAN : EndLoop(error)
TurnStep ==
  \/ \E w \in Workers : Join(w) \/ Detach(w) \/ TakeOver(w) \/ CollectJoined(w)
  \/ JoinStopped \/ AllJoined \/ EndTurn \/ AwaitGivenUp
AwaitRuns == AwaitReturns \/ \E w \in Workers : AwaitStep(w)

Next ==
  \/ \E w \in Workers : WorkerStep(w) \/ CancelSubagent(w)
  \/ \E p \in Writers : WriteFile(p)
  \/ Tool \/ TurnStep \/ AwaitRuns \/ GraceOver \/ IdleTimeout
  \/ StopTask

Spec == Init /\ [][Next]_vars

(* The goroutines of the turn and of workers run, and timers fire; a       *)
(* worker that hangs need not report, and the tool loop, an await and the  *)
(* user need not do anything.                                              *)
Fairness ==
  /\ \A w \in Workers :
       WF_vars(WriteFile(w) \/ Finish(w) \/ (w \notin Hanging /\ \E s \in Terminal : Report(w, s)))
  /\ WF_vars(TurnStep \/ WriteFile("turn"))
  /\ WF_vars(GraceOver \/ IdleTimeout)

FairSpec == Spec /\ Fairness

----------------------------------------------------------------------------
(* The usage and the artifacts of a worker are recorded once, however the  *)
(* model's awaits and the barrier overlap, and every worker of a turn that *)
(* is over is either accounted for or was given up.                        *)
UsageCountedOnce ==
  \A w \in Workers :
    /\ counted[w] <= 1
    /\ turn = "over" /\ w \in joined \ detached => counted[w] = 1

(* Writes of a record that overtake one another never take the file back:  *)
(* an ended worker does not run again, and the marks stay.                 *)
RecordOnlyAdvances ==
  [][\A w \in Workers :
       /\ file[w].status \in Terminal => file'[w].status \in Terminal
       /\ file[w].collected => file'[w].collected
       /\ file[w].cancelRequested => file'[w].cancelRequested]_file

(* When no write is on its way, the file says what the                     *)
(* control says: how the worker ended, that it was to be cancelled, that   *)
(* it was collected, whatever the order of the writes.                     *)
FileCatchesUp ==
  (\A p \in Writers : Free(p)) =>
    \A w \in Workers : worker[w] # "none" =>
      /\ file[w].status = record[w].status
      /\ file[w].collected = record[w].collected
      /\ file[w].cancelRequested = record[w].cancelRequested

(* A turn that is over, committed, retained or rolled back, leaves no      *)
(* worker behind that anybody waits for: each one came back, or it was     *)
(* cancelled, given up at the end of the grace period and recorded as      *)
(* ended.  A turn that commits as a success has given up none, unless the  *)
(* user stopped it when its loop was already over (service.go:1078).       *)
TurnAccountsForWorkers ==
  /\ turn = "over" =>
       \A w \in joined :
         /\ finished[w] /\ record[w].status \in Terminal
         /\ worker[w] # "gone" => w \in detached \cap stopped
  /\ verdict = "committed" /\ turnCtx # "stopped" => joined \cap detached = {}

(* The barrier ends: a worker that ignores its cancellation or hangs does  *)
(* not keep the turn.                                                      *)
BarrierEnds == turn = "joining" ~> turn = "over"
=============================================================================
