------------------------------- MODULE TaskRecovery ------------------------------
(***************************************************************************)
(* The snapshot of the task of a session beside its event log, over        *)
(* crashes at any step (agent/task_runtime.go, rewind.go,                  *)
(* eventlog/task_runtime.go).  The snapshot is replaced as a whole by      *)
(* every write; the log is appended to.  At the next start a snapshot that *)
(* is not final is judged by what the log holds after the moment of its    *)
(* last write, and the turn it belongs to is ended in the log, in up to    *)
(* three writes with a crash possible between any two.                     *)
(***************************************************************************)
EXTENDS Naturals, Sequences, FiniteSets

CONSTANTS MaxTurns, MaxLog   \* bounds: turns, and events on the current chain

VARIABLES
  step,      \* of the runner of the task, or of the recovery
  log,       \* the current chain
  fresh,     \* how many of its last events are later than the snapshot's updatedAt
  anchor,    \* snapshot.anchorId, as a length of the chain
  status,    \* snapshot.status
  turns,
  outlived   \* history: a snapshot was written after the end of its turn was logged

vars == <<step, log, fresh, anchor, status, turns, outlived>>

Final == {"completed", "failed", "interrupted"}
Events == {"user", "plan", "planInterrupted", "assistant", "checkpoint", "failed", "interrupted"}
Ends == {"checkpoint", "failed", "interrupted"}

Init ==
  /\ step = "idle" /\ log = <<>> /\ fresh = 0 /\ anchor = 0 /\ status = "none" /\ turns = 0
  /\ outlived = FALSE

TypeOK ==
  /\ step \in {"idle", "started", "working", "answered", "committed", "ending", "ended",
             "down", "plan", "end", "final"}
  /\ log \in Seq(Events) /\ Len(log) <= MaxLog /\ fresh \in 0..Len(log) /\ anchor \in 0..Len(log)
  /\ status \in Final \cup {"none", "running"} /\ turns \in 0..MaxTurns /\ outlived \in BOOLEAN

Append1(e) ==
  Len(log) < MaxLog /\ log' = Append(log, e) /\ fresh' = fresh + 1
Write(s) == status' = s /\ fresh' = 0
(* The turn of the snapshot.                                               *)
Turn == SubSeq(log, anchor + 1, Len(log))
In(e, events) == \E i \in 1..Len(events) : events[i] = e
(* Where events may still be appended to end the turn.                     *)
Reserve == MaxLog - 3

----------------------------------------------------------------------------
(* The task.                                                               *)

(* StartTaskRuntime, and StartGuidedTaskRuntime for a further turn.        *)
Start ==
  /\ step \in {"idle", "committed"} /\ turns < MaxTurns /\ Len(log) < Reserve
  /\ turns' = turns + 1 /\ anchor' = Len(log)
  /\ Write("running") /\ step' = "started"
  /\ UNCHANGED <<log, outlived>>

RecordUser ==
  /\ step = "started" /\ step' = "working"
  /\ Append1("user")
  /\ UNCHANGED <<anchor, status, turns, outlived>>

(* A plan with steps still to be done.                                     *)
RecordPlan ==
  /\ step = "working" /\ Len(log) < Reserve
  /\ Append1("plan")
  /\ UNCHANGED <<step, anchor, status, turns, outlived>>

(* Stream events; also those of workers that are being waited for when the *)
(* turn has been logged.                                                   *)
Flush ==
  /\ step \in {"started", "working", "answered", "committed", "ending"}
  /\ Write("running")
  /\ outlived' = (outlived \/ In("assistant", Turn))
  /\ UNCHANGED <<step, log, anchor, turns>>

(* recordAssistantAndCheckpoint.                                           *)
RecordAssistant ==
  /\ step = "working" /\ step' = "answered"
  /\ Append1("assistant")
  /\ UNCHANGED <<anchor, status, turns, outlived>>

RecordCheckpoint ==
  /\ step = "answered" /\ step' = "committed"
  /\ Append1("checkpoint")
  /\ UNCHANGED <<anchor, status, turns, outlived>>

(* The turn fails, while it works or as late as in the barrier of workers: *)
(* the head goes back to where the turn began, unless it is retained.      *)
Retain ==
  /\ step = "working" /\ step' = "ending"
  /\ UNCHANGED <<log, fresh, anchor, status, turns, outlived>>

Rollback ==
  /\ step \in {"started", "working", "committed"} /\ step' = "ending"
  /\ log' = SubSeq(log, 1, anchor)
  /\ fresh' = IF Len(log) - fresh < anchor THEN anchor - (Len(log) - fresh) ELSE 0
  /\ UNCHANGED <<anchor, status, turns, outlived>>

RecordTerminal ==
  /\ step = "ending" /\ step' = "ended"
  /\ Append1("failed")
  /\ UNCHANGED <<anchor, status, turns, outlived>>

(* FinishTaskRuntime.                                                      *)
Finish ==
  /\ step \in {"committed", "ended"} /\ step' = "idle"
  /\ Write(IF step = "committed" THEN "completed" ELSE "failed")
  /\ UNCHANGED <<log, anchor, turns, outlived>>

----------------------------------------------------------------------------
(* A crash, and the recovery at the next start.                            *)

Crash ==
  /\ step # "down"
  /\ step' = "down"
  /\ UNCHANGED <<log, fresh, anchor, status, turns, outlived>>

(* Not the code: the log is not looked at.                                 *)
NoCompletion == {}

(* taskRuntimeCompletionAfter: the ends later than the last write.         *)
CompletionAfter ==
  {i \in (Len(log) - fresh + 1)..Len(log) : log[i] \in Ends \cup {"assistant"}}

RecoverNothing ==
  /\ step = "down" /\ status # "running" /\ step' = "idle"
  /\ UNCHANGED <<log, fresh, anchor, status, turns, outlived>>

RecoverCompletion ==
  /\ step = "down" /\ status = "running" /\ CompletionAfter # {}
  /\ LET last == log[CHOOSE i \in CompletionAfter : \A j \in CompletionAfter : j <= i]
     IN Write(IF last \in {"failed", "interrupted"} THEN last ELSE "completed")
  /\ step' = "idle"
  /\ UNCHANGED <<log, anchor, turns, outlived>>

RecoverInterrupted ==
  /\ step = "down" /\ status = "running" /\ CompletionAfter = {}
  /\ step' = "plan"
  /\ UNCHANGED <<log, fresh, anchor, status, turns, outlived>>

(* runningPlanAfterAnchor: the last plan of the turn.                      *)
RunningPlan ==
  \E i \in 1..Len(Turn) : /\ Turn[i] = "plan"
                          /\ \A j \in (i + 1)..Len(Turn) : Turn[j] # "planInterrupted"

RecoverPlan ==
  /\ step = "plan" /\ step' = "end"
  /\ IF RunningPlan THEN Append1("planInterrupted") ELSE UNCHANGED <<log, fresh>>
  /\ UNCHANGED <<anchor, status, turns, outlived>>

RecoverEnd ==
  /\ step = "end" /\ step' = "final"
  /\ IF In("user", Turn) THEN Append1("interrupted") ELSE UNCHANGED <<log, fresh>>
  /\ UNCHANGED <<anchor, status, turns, outlived>>

RecoverSnapshot ==
  /\ step = "final" /\ step' = "idle"
  /\ Write("interrupted")
  /\ UNCHANGED <<log, anchor, turns, outlived>>

Next ==
  \/ Start \/ RecordUser \/ RecordPlan \/ Flush \/ RecordAssistant \/ RecordCheckpoint
  \/ Retain \/ Rollback \/ RecordTerminal \/ Finish
  \/ Crash \/ RecoverNothing \/ RecoverCompletion \/ RecoverInterrupted
  \/ RecoverPlan \/ RecoverEnd \/ RecoverSnapshot

Spec == Init /\ [][Next]_vars

----------------------------------------------------------------------------
(* Wherever crashes fall, recoveries included, a turn is ended in the log  *)
(* once: nothing ends a turn that has ended, unless its snapshot was       *)
(* written after its end was logged; and when no task is left, every turn  *)
(* that asked something has ended and the snapshot says how it did.        *)
EndedOnce ==
  ~outlived =>
    /\ Cardinality({i \in 1..Len(Turn) : Turn[i] \in Ends}) <= 1
    /\ step = "idle" /\ turns > 0 =>
         /\ status \in Final
         /\ In("user", Turn) => In("assistant", Turn) \/ \E e \in Ends : In(e, Turn)
         /\ \A e \in {"failed", "interrupted"} : In(e, Turn) => status = e
=============================================================================
