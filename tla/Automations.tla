------------------------------- MODULE Automations -------------------------------
(***************************************************************************)
(* Scheduled runs of the agent (internal/automation/service.go) over the   *)
(* registry of chat tasks (app_chat.go).  The scheduler and the user start *)
(* an automation in two critical sections with the registration of a chat  *)
(* task between them; the end of that task is reported back by its id, and *)
(* may arrive before the second section.  The application may be quit at   *)
(* any time; every change is on disk when its critical section ends,       *)
(* unless the write fails.                                                 *)
(***************************************************************************)
EXTENDS Naturals, FiniteSets

CONSTANTS
  Autos,
  Callers,    \* the scheduler and the user
  Scheduler,
  Chats,      \* ids of chat tasks; bound: each is used once
  MaxRuns,    \* bound: runs of one automation
  NoAuto, NoChat

VARIABLES
  task,        \* the automations
  caller,      \* calls of startTask
  todo,        \* what runDue has found
  agent,       \* chat tasks
  bySession,   \* the task registered for the session of an automation
  overlapped   \* history: two starts of the automation overlapped

vars == <<task, caller, todo, agent, bySession, overlapped>>

NoTask == [exists |-> TRUE, enabled |-> TRUE, due |-> FALSE, status |-> "none", chat |-> NoChat,
           runs |-> 0, failures |-> 0]
IdleCall == [pc |-> "idle", auto |-> NoAuto, chat |-> NoChat]
NoAgent == [state |-> "none", auto |-> NoAuto]
Active == {"starting", "running"}
(* A chat task that has not left the registry; a stuck one never will.     *)
Running == {"live", "stopping", "stuck"}

Init ==
  /\ task = [a \in Autos |-> NoTask] /\ caller = [c \in Callers |-> IdleCall] /\ todo = {}
  /\ agent = [x \in Chats |-> NoAgent] /\ bySession = [a \in Autos |-> NoChat]
  /\ overlapped = {}

TypeOK ==
  /\ task \in [Autos -> [exists : BOOLEAN, enabled : BOOLEAN, due : BOOLEAN,
                         status : Active \cup {"none", "completed", "failed", "interrupted"},
                         chat : Chats \cup {NoChat}, runs : 0..MaxRuns, failures : 0..MaxRuns]]
  /\ caller \in [Callers -> [pc : {"idle", "launch", "attach", "started", "refused"},
                             auto : Autos \cup {NoAuto}, chat : Chats \cup {NoChat}]]
  /\ todo \in SUBSET Autos /\ overlapped \in SUBSET Autos
  /\ agent \in [Chats -> [state : {"none", "registered", "ended", "reported"} \cup Running,
                          auto : Autos \cup {NoAuto}]]
  /\ bySession \in [Autos -> Chats \cup {NoChat}]

Starting(a) == {c \in Callers : caller[c].auto = a}
SetTask(a, t) == task' = [task EXCEPT ![a] = t]
(* The end of a run: finished with status s.                               *)
Ended(t, s) == [t EXCEPT !.status = s,
                         !.failures = IF s = "completed" THEN @ ELSE @ + 1]

----------------------------------------------------------------------------
(* Starting.                                                               *)

(* runDue: every automation that is due and not running.                   *)
FindDue ==
  /\ todo = {} /\ caller[Scheduler].pc = "idle"
  /\ todo' = {a \in Autos : task[a].exists /\ task[a].enabled /\ task[a].due
                            /\ task[a].status # "running"}
  /\ todo' # {}
  /\ UNCHANGED <<task, caller, agent, bySession, overlapped>>

(* A start that is refused, or whose record cannot be written, changes     *)
(* nothing more; runDue drops its error.                                   *)
Wanted(c, a) ==
  /\ caller[c].pc = "idle" /\ (c = Scheduler => a \in todo)
  /\ todo' = IF c = Scheduler THEN todo \ {a} ELSE todo

Begin(c, a, saved) ==
  /\ Wanted(c, a) /\ task[a].exists /\ task[a].status # "running" /\ task[a].runs < MaxRuns
  /\ SetTask(a, [task[a] EXCEPT !.runs = @ + 1, !.status = "starting", !.chat = NoChat,
                                !.due = @ /\ ~task[a].enabled])
  /\ caller' = IF saved THEN [caller EXCEPT ![c] = [pc |-> "launch", auto |-> a, chat |-> NoChat]]
               ELSE caller
  /\ overlapped' = IF Starting(a) # {} THEN overlapped \cup {a} ELSE overlapped
  /\ UNCHANGED <<agent, bySession>>

Refused(c, a) ==
  /\ c = Scheduler /\ Wanted(c, a) /\ (~task[a].exists \/ task[a].status = "running")
  /\ UNCHANGED <<task, caller, agent, bySession, overlapped>>

(* The runner registers a chat task, unless it cannot get a runtime or a   *)
(* route, or the session has a task, of the automation or a chat of the    *)
(* user's.                                                                 *)
Launch(c) ==
  /\ caller[c].pc = "launch"
  /\ LET a == caller[c].auto IN
     \/ /\ caller' = [caller EXCEPT ![c].pc = "refused"]
        /\ UNCHANGED <<agent, bySession>>
     \/ \E x \in Chats :
          /\ bySession[a] = NoChat /\ agent[x] = NoAgent
          /\ bySession' = [bySession EXCEPT ![a] = x]
          /\ agent' = [agent EXCEPT ![x] = [state |-> "registered", auto |-> a]]
          /\ caller' = [caller EXCEPT ![c].pc = "attach", ![c].chat = x]
  /\ UNCHANGED <<task, todo, overlapped>>

(* Not the code: the id is left to the second critical section.            *)
AttachNothing(c) ==
  /\ caller[c].pc = "attach"
  /\ caller' = [caller EXCEPT ![c].pc = "started"]
  /\ agent' = [agent EXCEPT ![caller[c].chat].state = "live"]
  /\ UNCHANGED <<task, todo, bySession, overlapped>>

(* AttachChatTask, before the goroutine of the chat task starts.           *)
Attach(c) ==
  LET a == caller[c].auto  x == caller[c].chat IN
  /\ caller[c].pc = "attach"
  /\ IF task[a].exists /\ task[a].status \in Active
     THEN SetTask(a, [task[a] EXCEPT !.status = "running", !.chat = x])
     ELSE UNCHANGED task
  /\ caller' = [caller EXCEPT ![c].pc = "started"]
  /\ agent' = [agent EXCEPT ![x].state = "live"]
  /\ UNCHANGED <<todo, bySession, overlapped>>

(* Not the code: without looking at what has become of the run meanwhile.  *)
SettleBlindly(c) ==
  LET a == caller[c].auto IN
  /\ caller[c].pc \in {"started", "refused"}
  /\ SetTask(a, IF caller[c].pc = "refused" THEN Ended(task[a], "failed")
                ELSE [task[a] EXCEPT !.status = "running", !.chat = caller[c].chat])
  /\ caller' = [caller EXCEPT ![c] = IdleCall]
  /\ UNCHANGED <<todo, agent, bySession, overlapped>>

(* The second critical section of startTask.                               *)
Settle(c) ==
  LET a == caller[c].auto IN
  /\ caller[c].pc \in {"started", "refused"}
  /\ IF ~task[a].exists \/ task[a].status \notin Active THEN UNCHANGED task
     ELSE SetTask(a, IF caller[c].pc = "refused" THEN Ended(task[a], "failed")
                     ELSE [task[a] EXCEPT !.status = "running", !.chat = caller[c].chat])
  /\ caller' = [caller EXCEPT ![c] = IdleCall]
  /\ UNCHANGED <<todo, agent, bySession, overlapped>>

----------------------------------------------------------------------------
(* The chat task: leaves the registry, then emits its terminal event.      *)

AgentEnds(x) ==
  /\ agent[x].state \in {"live", "stopping"}
  /\ agent' = [agent EXCEPT ![x].state = "ended"]
  /\ bySession' = [bySession EXCEPT ![agent[x].auto] = NoChat]
  /\ UNCHANGED <<task, caller, todo, overlapped>>

(* StopAutomationTask of a run whose chat task is registered: MarkStopping *)
(* changes no more than the message.  The user's stop in the chat itself   *)
(* is the same.                                                            *)
Stop(x) ==
  /\ agent[x].state = "live"
  /\ agent' = [agent EXCEPT ![x].state = "stopping"]
  /\ UNCHANGED <<task, caller, todo, bySession, overlapped>>

(* A stop that arrives when the turn has just succeeded: runChatTask       *)
(* leaves without a word, and the task stays registered.                   *)
AgentStuck(x) ==
  /\ agent[x].state = "stopping"
  /\ agent' = [agent EXCEPT ![x].state = "stuck"]
  /\ UNCHANGED <<task, caller, todo, bySession, overlapped>>

(* CompleteChatTask: the first automation that is running x.               *)
Completed(x, s) ==
  task' = [a \in Autos |-> IF task[a].exists /\ task[a].status = "running" /\ task[a].chat = x
                           THEN Ended(task[a], s) ELSE task[a]]

Report(x, s) ==
  /\ agent[x].state = "ended"
  /\ agent' = [agent EXCEPT ![x].state = "reported"]
  /\ Completed(x, s)
  /\ UNCHANGED <<caller, todo, bySession, overlapped>>

(* StopAutomationTask of a run whose chat task is no longer registered:    *)
(* its end is not waited for.                                              *)
StopMissing(a) ==
  /\ task[a].exists /\ task[a].status = "running" /\ bySession[a] # task[a].chat
  /\ Completed(task[a].chat, "failed")
  /\ UNCHANGED <<caller, todo, agent, bySession, overlapped>>

----------------------------------------------------------------------------
(* Editing, time, and quitting.                                            *)

(* Save and SetEnabled: the schedule starts anew.                          *)
Save(a) ==
  /\ task[a].exists
  /\ \E e \in BOOLEAN : SetTask(a, [task[a] EXCEPT !.enabled = e, !.due = FALSE])
  /\ UNCHANGED <<caller, todo, agent, bySession, overlapped>>

Delete(a) ==
  /\ task[a].exists /\ task[a].status # "running"
  /\ SetTask(a, [NoTask EXCEPT !.exists = FALSE, !.runs = task[a].runs])
  /\ UNCHANGED <<caller, todo, agent, bySession, overlapped>>

Due(a) ==
  /\ task[a].exists /\ task[a].enabled /\ ~task[a].due
  /\ SetTask(a, [task[a] EXCEPT !.due = TRUE])
  /\ UNCHANGED <<caller, todo, agent, bySession, overlapped>>

(* The application quits or crashes; load marks what was on its way.       *)
Restart ==
  /\ \E a \in Autos : task[a].exists /\ task[a].status \in Active
  /\ task' = [a \in Autos |-> IF task[a].exists /\ task[a].status \in Active
                              THEN Ended(task[a], "interrupted") ELSE task[a]]
  /\ caller' = [c \in Callers |-> IdleCall] /\ todo' = {}
  /\ agent' = [x \in Chats |-> IF agent[x] = NoAgent THEN NoAgent
                               ELSE [agent[x] EXCEPT !.state = "reported"]]
  /\ bySession' = [a \in Autos |-> NoChat] /\ overlapped' = {}

CallRuns(c) == Launch(c) \/ Attach(c) \/ Settle(c)
Reports(x) == \E s \in {"completed", "failed"} : Report(x, s)
AgentRuns(x) == AgentEnds(x) \/ AgentStuck(x) \/ Stop(x) \/ Reports(x)
(* What an agent that was stopped, or has ended, does.                     *)
Leaves(x) == (agent[x].state = "stopping" /\ (AgentEnds(x) \/ AgentStuck(x))) \/ Reports(x)

Next ==
  \/ FindDue \/ Restart
  \/ \E c \in Callers : CallRuns(c)
  \/ \E c \in Callers, a \in Autos : (\E saved \in BOOLEAN : Begin(c, a, saved)) \/ Refused(c, a)
  \/ \E x \in Chats : AgentRuns(x)
  \/ \E a \in Autos : StopMissing(a) \/ Save(a) \/ Delete(a) \/ Due(a)

Spec == Init /\ [][Next]_vars

(* Calls return, a chat task that was stopped leaves in one way or the     *)
(* other (ChatTasks), and one that has ended says so.  An agent that       *)
(* nobody stops may work as long as it likes.                              *)
Fairness == (\A c \in Callers : WF_vars(CallRuns(c))) /\ (\A x \in Chats : WF_vars(Leaves(x)))
FairSpec == Spec /\ Fairness

----------------------------------------------------------------------------
(* Unless starts of it overlapped, the record of an automation and its     *)
(* agents agree whatever the order of an agent's end and of the sections   *)
(* of its start: an agent that runs is the run the record shows, so that   *)
(* it can be stopped, and a run that is shown has an agent that has not    *)
(* been heard of for the last time.                                        *)
RunIsAgent ==
  \A a \in Autos \ overlapped :
    /\ task[a].exists /\ task[a].status = "running" =>
         agent[task[a].chat].state \in Running \cup {"ended"}
    /\ \A x \in Chats :
         task[a].exists /\ Starting(a) = {} /\ agent[x].auto = a /\ agent[x].state \in Running =>
           task[a].status = "running" /\ task[a].chat = x

RunsIn(a, states) ==
  task[a].status = "running" /\ task[a].chat # NoChat /\ agent[task[a].chat].state \in states

(* Unless starts of it overlapped, a run is shown as running no longer     *)
(* than its agent works: when the agent has been stopped or has ended,     *)
(* the record ends too, so that the automation is due again, and no order  *)
(* of the report, a stop and the second section of the start revives it.   *)
(* One way out is left: a stopped agent that leaves without a word keeps   *)
(* its run, and runDue passes over the automation until a restart.         *)
RunsEnd ==
  \A a \in Autos :
    task[a].status = "running" /\ ~RunsIn(a, {"live"}) ~>
      task[a].status # "running" \/ RunsIn(a, {"stuck"}) \/ a \in overlapped
=============================================================================
