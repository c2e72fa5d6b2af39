--------------------------- MODULE SessionTimeline ---------------------------
(***************************************************************************)
(* The conversation of one session as a tree of events on disk              *)
(* (internal/eventlog/store.go, branches.go), the files of its workspace,   *)
(* and the operations that move both together (internal/agent/rewind.go,    *)
(* service.go): turns that edit files, are committed, retained or rolled    *)
(* back, and the user's rewinds, forks and switches between branches.       *)
(*                                                                         *)
(* Every service that opens the session has a Store of its own with a       *)
(* private copy of the tree and of its head: the service on screen          *)
(* (Display) and the runtime of each chat task.  They share the directory,  *)
(* and the workspace, and nothing else.                                     *)
(***************************************************************************)
EXTENDS Naturals, FiniteSets, Sequences, Functions

CONSTANTS
  Paths,        \* workspace files
  Versions,     \* contents the agent writes
  Foreign,      \* a content only the user writes, outside MHcode
  Absent,       \* the content of a file that does not exist
  Display,      \* the service on screen
  Runtimes,     \* the runtimes of chat tasks
  NoTask,
  NoHead,       \* there is no HEAD file yet
  MaxEvents,    \* bound: length of events.jsonl
  MaxTroubles,  \* bound: edits outside MHcode, forced stops, crashes, failed
                \* writes of HEAD, and times the user does not wait
  LateWriters   \* TRUE: a task that was ended by force may still go on

ASSUME StoresAssumption == Display \notin Runtimes /\ NoTask \notin Runtimes
ASSUME ContentsAssumption == Foreign \notin Versions /\ Absent \notin Versions \cup {Foreign}
ASSUME PathsAssumption == Paths # {}
ASSUME HeadAssumption == NoHead \notin Nat
ASSUME BoundsAssumption ==
  /\ {MaxEvents, MaxTroubles} \subseteq Nat
  /\ LateWriters \in BOOLEAN

Stores == Runtimes \cup {Display}
Contents == Versions \cup {Foreign, Absent}
Root == 0   \* the empty event ID

VARIABLES
  log,         \* events.jsonl; an event is named by its position
  headFile,    \* HEAD
  files,       \* the workspace
  known,       \* store.byID
  head,        \* store.head
  unsaved,     \* an append of this store has not written HEAD yet
  work,        \* the restoration a service is carrying out
  phase,       \* where the task of each runtime is
  start,       \* the head at the beginning of its turn
  change,      \* the file change its tool has made
  registered,  \* the task that owns the session
  forced,      \* the tasks that were ended by force (never cleared)
  acked,       \* history: events HEAD stood for and nobody went back behind
  edited,      \* history: paths the user edited outside MHcode
  replayed,    \* history: paths written as after-images of another branch
  contested,   \* history: paths a tool put back while others restored them
  crossed,     \* history: two actors worked on the session at once
  headLost,    \* history: a write of HEAD failed
  unclean,     \* history: a crash or a hang hit something half done
  troubles     \* how many there were

disk   == <<log, headFile>>
memory == <<known, head, unsaved>>
task   == <<phase, start, change, registered, forced>>
trace  == <<edited, replayed, contested, crossed, headLost, unclean, troubles>>
vars   == <<disk, files, memory, work, task, acked, trace>>

-----------------------------------------------------------------------------
(* The tree                                                                *)

Events == 1..Len(log)

(* The events from the root to i.                                          *)
Chain ==
  LET chain[i \in 0..Len(log)] == IF i = Root THEN {} ELSE chain[log[i].parent] \cup {i}
  IN chain

Leaves(s) == {i \in known[s] : \A j \in known[s] : log[j].parent # i}

FileEvents(events) == {i \in events : log[i].type = "file"}

Newest(events) == CHOOSE i \in events : \A j \in events : j <= i
Oldest(events) == CHOOSE i \in events : \A j \in events : i <= j

(* The content a chain gives a file: the after-image of its last change.    *)
FileAt(i, p) ==
  LET images == {j \in FileEvents(Chain[i]) : log[j].path = p} IN
  IF images = {} THEN Absent ELSE log[Newest(images)].after

CommonAncestor(i, j) ==
  LET common == Chain[i] \cap Chain[j] IN
  IF common = {} THEN Root ELSE Newest(common)

(* An empty HEAD means the root; without a usable HEAD it is the event with *)
(* the largest sequence number.                                            *)
LoadHead == IF headFile \in Events \cup {Root} THEN headFile ELSE Len(log)

-----------------------------------------------------------------------------
Blank == [p \in Paths |-> Absent]

Idle == [then |-> "none", target |-> Root, undo |-> {}, replay |-> {},
         backup |-> [p \in {} |-> Absent]]

NoChange == [path |-> CHOOSE p \in Paths : TRUE, before |-> Absent, after |-> Absent]

Init ==
  /\ log = <<>>
  /\ headFile = NoHead
  /\ files = Blank
  /\ known = [s \in Stores |-> {}]
  /\ head = [s \in Stores |-> Root]
  /\ unsaved = [s \in Stores |-> FALSE]
  /\ work = [s \in Stores |-> Idle]
  /\ phase = [r \in Runtimes |-> "closed"]
  /\ start = [r \in Runtimes |-> Root]
  /\ change = [r \in Runtimes |-> NoChange]
  /\ registered = NoTask
  /\ forced = {}
  /\ acked = {}
  /\ edited = {} /\ replayed = {} /\ contested = {}
  /\ crossed = FALSE /\ headLost = FALSE /\ unclean = FALSE
  /\ troubles = 0

Free(s) == work[s].then = "none" /\ ~unsaved[s]

(* Every task the user knows of is over, and the screen shows its result.   *)
AtRest ==
  /\ Free(Display)
  /\ registered = NoTask
  /\ \A r \in Runtimes \ forced : phase[r] \in {"closed", "over"}

Trouble == troubles < MaxTroubles /\ troubles' = troubles + 1

(* Someone begins to work on the session.  The application does not make    *)
(* the user wait until the others have come to rest.                       *)
Begins ==
  /\ IF AtRest THEN UNCHANGED <<troubles, crossed>> ELSE Trouble /\ crossed' = TRUE
  /\ UNCHANGED <<edited, replayed, contested, headLost, unclean>>

Goto(r, from, to) == phase[r] = from /\ phase' = [phase EXCEPT ![r] = to]

-----------------------------------------------------------------------------
(* One store                                                               *)

(* Open reads the whole log and HEAD.                                      *)
Open(s) ==
  /\ known' = [known EXCEPT ![s] = Events]
  /\ head' = [head EXCEPT ![s] = LoadHead]
  /\ UNCHANGED unsaved

(* The private service of a task that is over is dropped.                  *)
Close(r) ==
  /\ known' = [known EXCEPT ![r] = {}]
  /\ head' = [head EXCEPT ![r] = Root]
  /\ UNCHANGED unsaved

(* Mutant: the result of the task is not adopted.                          *)
CloseWithoutOpening(s, r) == Close(r)

(* Store s adopts what the service of r wrote, which is dropped.            *)
OpenAndClose(s, r) ==
  /\ known' = [known EXCEPT ![s] = Events, ![r] = {}]
  /\ head' = [head EXCEPT ![s] = LoadHead, ![r] = Root]
  /\ UNCHANGED unsaved

(* Mutant: the head moves before the parent is read.                        *)
AppendLineToItself(s, type, edit) ==
  /\ Len(log) < MaxEvents
  /\ log' = Append(log, [type |-> type, parent |-> Len(log) + 1, path |-> edit.path,
                         before |-> edit.before, after |-> edit.after])
  /\ known' = [known EXCEPT ![s] = @ \cup {Len(log) + 1}]
  /\ head' = [head EXCEPT ![s] = Len(log) + 1]
  /\ unsaved' = [unsaved EXCEPT ![s] = TRUE]
  /\ UNCHANGED headFile

(* AppendWithHeader: the line is written and synced, then the memory of the *)
(* store moves on; PersistHead follows before the call returns.            *)
AppendLine(s, type, edit) ==
  /\ Len(log) < MaxEvents
  /\ log' = Append(log, [type |-> type, parent |-> head[s], path |-> edit.path,
                         before |-> edit.before, after |-> edit.after])
  /\ known' = [known EXCEPT ![s] = @ \cup {Len(log) + 1}]
  /\ head' = [head EXCEPT ![s] = Len(log) + 1]
  /\ unsaved' = [unsaved EXCEPT ![s] = TRUE]
  /\ UNCHANGED headFile

PersistHead(s) ==
  /\ unsaved[s]
  /\ unsaved' = [unsaved EXCEPT ![s] = FALSE]
  /\ headFile' = head[s]
  /\ acked' = IF s \in forced THEN acked ELSE acked \cup Chain[head[s]]
  /\ UNCHANGED <<log, known, head, files, work, task, trace>>

(* A HEAD that cannot be written is ignored: the append returns all the     *)
(* same, and the store goes on from its event.                             *)
HeadNotWritten(s) ==
  /\ Trouble
  /\ unsaved[s]
  /\ unsaved' = [unsaved EXCEPT ![s] = FALSE]
  /\ headLost' = TRUE
  /\ UNCHANGED <<disk, known, head, files, work, task, acked,
                 edited, replayed, contested, crossed, unclean>>

-----------------------------------------------------------------------------
(* Restoring files and moving the head together                            *)

(* Mutant: nobody looks at the workspace.                                  *)
VerifiedBlindly(undo) == TRUE

(* verifyCurrentFileStates: the newest image of every path to be undone is  *)
(* what the workspace holds.                                               *)
Verified(undo) ==
  \A i \in undo :
    (\A j \in undo : log[j].path = log[i].path => j <= i) => files[log[i].path] = log[i].after

(* What is to be undone and then replayed; captureWorkspaceBackups keeps    *)
(* the present content of every path.                                      *)
Restoration(undo, replay, target, then) ==
  [then |-> then, target |-> target, undo |-> undo, replay |-> replay,
   backup |-> Restrict(files, {log[i].path : i \in undo \cup replay})]

(* restoreCurrentBranchTo, for an ancestor of the head; the alternative is   *)
(* taken when the workspace is not what the log says.                      *)
RestoreTo(s, from, target, then) ==
  LET undo == FileEvents(Chain[from] \ Chain[target]) IN
  /\ Verified(undo)
  /\ work' = [work EXCEPT ![s] = Restoration(undo, {}, target, then)]

RestoreRefused(from, target) == ~Verified(FileEvents(Chain[from] \ Chain[target]))

(* switchBranch: back to the common ancestor, then along the other branch.  *)
SwitchTo(s, target, then) ==
  LET ancestor == CommonAncestor(head[s], target)
      undo     == FileEvents(Chain[head[s]] \ Chain[ancestor])
      replay   == FileEvents(Chain[target] \ Chain[ancestor])
  IN /\ Verified(undo)
     /\ work' = [work EXCEPT ![s] = Restoration(undo, replay, target, then)]

(* Mutant: the images are put back in the order they were taken.           *)
UndoOldest(s) ==
  LET i == Oldest(work[s].undo) IN
  /\ work[s].undo # {}
  /\ files' = [files EXCEPT ![log[i].path] = log[i].before]
  /\ work' = [work EXCEPT ![s].undo = @ \ {i}]
  /\ UNCHANGED replayed

(* The newest image of those to be undone is put back ...                  *)
Undo(s) ==
  LET i == Newest(work[s].undo) IN
  /\ work[s].undo # {}
  /\ files' = [files EXCEPT ![log[i].path] = log[i].before]
  /\ work' = [work EXCEPT ![s].undo = @ \ {i}]
  /\ UNCHANGED replayed

(* ... and after the last one, those to be replayed, the oldest first.      *)
Replay(s) ==
  LET i == Oldest(work[s].replay) IN
  /\ work[s].undo = {} /\ work[s].replay # {}
  /\ files' = [files EXCEPT ![log[i].path] = log[i].after]
  /\ work' = [work EXCEPT ![s].replay = @ \ {i}]
  /\ replayed' = replayed \cup {log[i].path}

RestoreFile(s) ==
  /\ Undo(s) \/ Replay(s)
  /\ UNCHANGED <<disk, memory, task, acked, edited, contested, crossed, headLost,
                 unclean, troubles>>

(* What the caller goes on with when the restoration is over.              *)
Continue(s) ==
  /\ phase' = IF work[s].then = "rollback" THEN [phase EXCEPT ![s] = "terminal"] ELSE phase
  /\ UNCHANGED <<start, change, registered, forced>>

(* restoreWorkspaceBackups puts everything back, and the caller gives up.   *)
PutBack(s) ==
  /\ files' = [p \in Paths |-> IF p \in DOMAIN work[s].backup THEN work[s].backup[p] ELSE files[p]]
  /\ work' = [work EXCEPT ![s] = Idle]
  /\ Continue(s)

(* A file cannot be written.                                               *)
RestoreFails(s) ==
  /\ work[s].undo \cup work[s].replay # {}
  /\ PutBack(s)
  /\ UNCHANGED <<disk, memory, acked, trace>>

FilesRestored(s) ==
  /\ work[s].then \notin {"none", "marker"}
  /\ work[s].undo = {} /\ work[s].replay = {}

(* SetHead moves the head in memory and then fails to write HEAD: the files *)
(* are put back, the head of the store is not.                             *)
SetHeadFails(s) ==
  /\ Trouble
  /\ FilesRestored(s)
  /\ head' = [head EXCEPT ![s] = work[s].target]
  /\ acked' = acked \cap Chain[work[s].target]
  /\ PutBack(s)
  /\ headLost' = TRUE
  /\ UNCHANGED <<disk, known, unsaved, edited, replayed, contested, crossed, unclean>>

(* SetHead; a fork then adds its marker.                                   *)
SetHead(s) ==
  /\ FilesRestored(s)
  /\ head' = [head EXCEPT ![s] = work[s].target]
  /\ headFile' = work[s].target
  /\ acked' = (acked \ Chain[head[s]]) \cup Chain[work[s].target]
  /\ work' = [work EXCEPT ![s] =
                IF @.then = "fork" THEN [Idle EXCEPT !.then = "marker", !.target = head[s]] ELSE Idle]
  /\ Continue(s)
  /\ UNCHANGED <<log, files, known, unsaved, trace>>

-----------------------------------------------------------------------------
(* Tasks and their turns                                                   *)

(* NewProjectSessionRuntime, then the registration of the task, which is   *)
(* refused if the session has one.                                         *)
OpenRuntime(r) ==
  /\ Goto(r, "closed", "opened")
  /\ Begins
  /\ Open(r)
  /\ UNCHANGED <<disk, files, work, start, change, registered, forced, acked>>

Register(r) ==
  /\ phase[r] = "opened"
  /\ IF registered = NoTask
       THEN Goto(r, "opened", "between") /\ registered' = r /\ UNCHANGED memory
       ELSE Goto(r, "opened", "over") /\ UNCHANGED registered /\ Close(r)
  /\ UNCHANGED <<disk, files, work, start, change, forced, acked, trace>>

(* A turn may fail before its message is recorded: there is nothing to     *)
(* roll back.                                                              *)
FailEarly(r) ==
  /\ Free(r)
  /\ Goto(r, "between", "terminal")
  /\ UNCHANGED <<disk, files, memory, work, start, change, registered, forced, acked, trace>>

(* captureTurnSnapshot, then the user message is recorded; also the turn   *)
(* that answers a guidance message.                                        *)
BeginTurn(r) ==
  /\ Free(r)
  /\ Goto(r, "between", "turn")
  /\ start' = [start EXCEPT ![r] = head[r]]
  /\ AppendLine(r, "user", NoChange)
  /\ UNCHANGED <<files, work, change, registered, forced, acked, trace>>

(* A tool writes or deletes a file and reports the change ...              *)
WriteFile(r, p, content) ==
  /\ Free(r)
  /\ Goto(r, "turn", "wrote")
  /\ content # files[p]
  /\ change' = [change EXCEPT ![r] = [path |-> p, before |-> files[p], after |-> content]]
  /\ files' = [files EXCEPT ![p] = content]
  /\ UNCHANGED <<disk, memory, work, start, registered, forced, acked, trace>>

(* ... recordFileSnapshot records it, or the file is put back.             *)
RecordChange(r) ==
  /\ Goto(r, "wrote", "turn")
  /\ AppendLine(r, "file", change[r])
  /\ change' = [change EXCEPT ![r] = NoChange]
  /\ UNCHANGED <<files, work, start, registered, forced, acked, trace>>

RecordFails(r) ==
  LET path == change[r].path IN
  /\ Goto(r, "wrote", "turn")
  /\ files' = [files EXCEPT ![path] = change[r].before]
  /\ change' = [change EXCEPT ![r] = NoChange]
  /\ contested' = IF files[path] # change[r].after \/ \E s \in Stores : path \in DOMAIN work[s].backup
                    THEN contested \cup {path} ELSE contested
  /\ UNCHANGED <<disk, memory, work, start, registered, forced, acked,
                 edited, replayed, crossed, headLost, unclean, troubles>>

(* recordAssistantAndCheckpoint; the subagents of the turn are joined then. *)
Commit(r) ==
  /\ Free(r)
  /\ Goto(r, "turn", "joining")
  /\ AppendLine(r, "checkpoint", NoChange)
  /\ UNCHANGED <<files, work, start, change, registered, forced, acked, trace>>

TurnSucceeds(r) ==
  /\ Free(r)
  /\ Goto(r, "joining", "between")
  /\ UNCHANGED <<disk, files, memory, work, start, change, registered, forced, acked, trace>>

(* A turn that fails or is cancelled keeps what it did ...                 *)
Retain(r) ==
  /\ Free(r)
  /\ Goto(r, "turn", "terminal")
  /\ UNCHANGED <<disk, files, memory, work, start, change, registered, forced, acked, trace>>

(* ... or is rolled back, unless the workspace was changed under it.       *)
Rollback(r) ==
  /\ Free(r)
  /\ phase[r] \in {"turn", "joining"}
  /\ RestoreTo(r, head[r], start[r], "rollback")
  /\ phase' = [phase EXCEPT ![r] = "rollback"]
  /\ UNCHANGED <<disk, files, memory, start, change, registered, forced, acked, trace>>

RollbackRefused(r) ==
  /\ Free(r)
  /\ phase[r] \in {"turn", "joining"}
  /\ RestoreRefused(head[r], start[r])
  /\ phase' = [phase EXCEPT ![r] = "terminal"]
  /\ UNCHANGED <<disk, files, memory, work, start, change, registered, forced, acked, trace>>

(* recordTurnTerminal.                                                     *)
RecordTerminal(r) ==
  /\ Free(r)
  /\ Goto(r, "terminal", "ending")
  /\ AppendLine(r, "terminal", NoChange)
  /\ UNCHANGED <<files, work, start, change, registered, forced, acked, trace>>

(* Without guidance to answer the task leaves the registry.                *)
LeaveRegistry(r) ==
  /\ Free(r)
  /\ Goto(r, "between", "ending")
  /\ registered' = IF registered = r THEN NoTask ELSE registered
  /\ UNCHANGED <<disk, files, memory, work, start, change, forced, acked, trace>>

(* completeChatTask: the screen reloads the session, unless it is busy      *)
(* (ReloadProjectSessionIfActive gives up) or the task was already ended by *)
(* force.                                                                  *)
Complete(r) ==
  /\ Free(r)
  /\ Goto(r, "ending", "over")
  /\ registered' = IF registered = r THEN NoTask ELSE registered
  /\ start' = [start EXCEPT ![r] = Root]
  /\ IF r \notin forced /\ Free(Display)
       THEN OpenAndClose(Display, r)
       ELSE Close(r)
  /\ UNCHANGED <<disk, files, work, change, forced, acked, trace>>

(* The goroutine of a stopped task hangs for ever (never between an event   *)
(* and HEAD) ...                                                           *)
Hangs(r) ==
  /\ IF Free(Display) THEN OpenAndClose(Display, r) ELSE Close(r)
  /\ Goto(r, phase[r], "over")
  /\ work' = [work EXCEPT ![r] = Idle]
  /\ start' = [start EXCEPT ![r] = Root]
  /\ change' = [change EXCEPT ![r] = NoChange]
  /\ unclean' = (unclean \/ work[r].then # "none" \/ phase[r] = "wrote")
  /\ UNCHANGED crossed

(* ... or goes on after all.                                               *)
GoesOn ==
  /\ IF Free(Display) THEN Open(Display) ELSE UNCHANGED memory
  /\ crossed' = TRUE
  /\ UNCHANGED <<work, phase, start, change, unclean>>

(* enforceChatTaskStop: the task is over for everyone but its goroutine.    *)
ForceStop(r) ==
  /\ Trouble
  /\ registered = r
  /\ phase[r] \in {"turn", "wrote", "joining", "rollback", "terminal"}
  /\ ~unsaved[r]
  /\ registered' = NoTask
  /\ forced' = forced \cup {r}
  /\ \E late \in {FALSE, LateWriters} : IF late THEN GoesOn ELSE Hangs(r)
  /\ UNCHANGED <<disk, files, acked, edited, replayed, contested, headLost>>

-----------------------------------------------------------------------------
(* The user                                                                *)

Operates == Free(Display) /\ Begins

RewindToCheckpoint(i) ==
  /\ Operates
  /\ i \in known[Display] \cap Chain[head[Display]]
  /\ log[i].type = "checkpoint"
  /\ RestoreTo(Display, head[Display], i, "rewind")
  /\ UNCHANGED <<disk, files, memory, task, acked>>

SwitchBranch(leaf) ==
  /\ Operates
  /\ leaf \in Leaves(Display) \ {head[Display]}
  /\ SwitchTo(Display, leaf, "switch")
  /\ UNCHANGED <<disk, files, memory, task, acked>>

(* The session must be idle and is reloaded first.  A fork from the user's  *)
(* message continues before it, one from the answer after its checkpoint.   *)
ForkFromMessage(i) ==
  /\ Operates
  /\ registered = NoTask
  /\ Open(Display)
  /\ i \in Chain[LoadHead]
  /\ log[i].type \in {"user", "checkpoint"}
  /\ RestoreTo(Display, LoadHead, IF log[i].type = "user" THEN log[i].parent ELSE i, "fork")
  /\ UNCHANGED <<disk, files, task, acked>>

AppendMarker ==
  /\ work[Display].then = "marker"
  /\ work' = [work EXCEPT ![Display] = Idle]
  /\ AppendLine(Display, "marker", NoChange)
  /\ UNCHANGED <<files, task, acked, trace>>

(* Without its marker the fork is undone by switching back.                *)
MarkerFails ==
  /\ work[Display].then = "marker"
  /\ IF head[Display] = work[Display].target
       THEN work' = [work EXCEPT ![Display] = Idle]
       ELSE SwitchTo(Display, work[Display].target, "switch")
  /\ UNCHANGED <<disk, files, memory, task, acked, trace>>

(* The user edits a file outside MHcode; not in the instants in which files *)
(* are being restored, nor between the write of a tool and its record.     *)
EditOutside(p) ==
  /\ Trouble
  /\ \A s \in Stores : work[s].then = "none"
  /\ \A r \in Runtimes : phase[r] # "wrote"
  /\ files[p] # Foreign
  /\ files' = [files EXCEPT ![p] = Foreign]
  /\ edited' = edited \cup {p}
  /\ UNCHANGED <<disk, memory, work, task, acked, replayed, contested, crossed, headLost, unclean>>

(* The application dies at any point and is started again: only the disk   *)
(* survives.                                                               *)
Restart ==
  /\ Trouble
  /\ unclean' = (unclean \/ (\E s \in Stores : ~Free(s)) \/ (\E r \in Runtimes : phase[r] = "wrote"))
  /\ known' = [s \in Stores |-> IF s = Display THEN Events ELSE {}]
  /\ head' = [s \in Stores |-> IF s = Display THEN LoadHead ELSE Root]
  /\ unsaved' = [s \in Stores |-> FALSE]
  /\ work' = [s \in Stores |-> Idle]
  /\ phase' = [r \in Runtimes |-> IF phase[r] = "closed" THEN "closed" ELSE "over"]
  /\ start' = [r \in Runtimes |-> Root]
  /\ change' = [r \in Runtimes |-> NoChange]
  /\ registered' = NoTask
  /\ UNCHANGED <<disk, files, forced, acked, edited, replayed, contested, crossed, headLost>>

-----------------------------------------------------------------------------
StoreStep(s) ==
  \/ PersistHead(s) \/ HeadNotWritten(s)
  \/ RestoreFile(s) \/ RestoreFails(s) \/ SetHead(s) \/ SetHeadFails(s)

TaskStep(r) ==
  \/ OpenRuntime(r) \/ Register(r) \/ FailEarly(r) \/ BeginTurn(r)
  \/ \E p \in Paths, content \in Versions \cup {Absent} : WriteFile(r, p, content)
  \/ RecordChange(r) \/ RecordFails(r) \/ Commit(r) \/ TurnSucceeds(r)
  \/ Retain(r) \/ Rollback(r) \/ RollbackRefused(r) \/ RecordTerminal(r)
  \/ LeaveRegistry(r) \/ Complete(r) \/ ForceStop(r)

UserStep ==
  \/ \E i \in Events : RewindToCheckpoint(i) \/ SwitchBranch(i) \/ ForkFromMessage(i)
  \/ AppendMarker \/ MarkerFails
  \/ \E p \in Paths : EditOutside(p)
  \/ Restart

Next ==
  \/ \E s \in Stores : StoreStep(s)
  \/ \E r \in Runtimes : TaskStep(r)
  \/ UserStep

Spec == Init /\ [][Next]_vars

-----------------------------------------------------------------------------
(* Correctness                                                             *)

Places == 0..Len(log)
Types == {"user", "file", "checkpoint", "terminal", "marker"}
Changes == [path : Paths, before : Contents, after : Contents]
Entries == [type : Types, parent : Nat, path : Paths, before : Contents, after : Contents]

Restorations ==
  [then : {"none", "rewind", "fork", "marker", "switch", "rollback"},
   target : Places, undo : SUBSET Events, replay : SUBSET Events,
   backup : UNION {[some -> Contents] : some \in SUBSET Paths}]

(* The parent of an event is an earlier one.                               *)
LogOK ==
  /\ log \in Seq(Entries)
  /\ Len(log) <= MaxEvents
  /\ \A i \in Events : log[i].parent < i
  /\ headFile \in Places \cup {NoHead}
StoresOK ==
  /\ known \in [Stores -> SUBSET Events]
  /\ head \in [Stores -> Places]
  /\ unsaved \in [Stores -> BOOLEAN]
WorkOK ==
  /\ files \in [Paths -> Contents]
  /\ work \in [Stores -> Restorations]
TasksOK ==
  /\ phase \in [Runtimes -> {"closed", "opened", "between", "turn", "wrote", "joining",
                             "rollback", "terminal", "ending", "over"}]
  /\ start \in [Runtimes -> Places]
  /\ change \in [Runtimes -> Changes]
  /\ registered \in Runtimes \cup {NoTask}
  /\ forced \subseteq Runtimes
HistoryOK ==
  /\ acked \subseteq Places
  /\ edited \subseteq Paths /\ replayed \subseteq Paths /\ contested \subseteq Paths
  /\ crossed \in BOOLEAN /\ headLost \in BOOLEAN /\ unclean \in BOOLEAN
  /\ troubles \in 0..MaxTroubles

(* Types of the state.                                                     *)
TypeOK == LogOK /\ StoresOK /\ WorkOK /\ TasksOK /\ HistoryOK

(* Nobody is in the middle of changing files and log.                      *)
Settled ==
  /\ \A s \in Stores : Free(s)
  /\ \A r \in Runtimes : phase[r] # "wrote"

(* Files and conversation move together: whenever nobody is half way       *)
(* through an operation, the workspace holds exactly what the conversation  *)
(* on disk says, whatever was rolled back, rewound, forked, switched or     *)
(* failed on the way.  Left out are files the user edited, and histories in *)
(* which two actors worked on the session at once or a HEAD could not be    *)
(* written (then the code itself leaves the two apart).                     *)
FilesMatchConversation ==
  Settled /\ ~unclean /\ ~crossed /\ ~headLost =>
    \A p \in Paths \ edited : files[p] = FileAt(LoadHead, p)

(* An event HEAD has stood for stays in the conversation until someone asks *)
(* to go back behind it: no task, no crash and no failed write of HEAD      *)
(* loses it.                                                               *)
NothingForgotten ==
  ~crossed => acked \subseteq Chain[LoadHead]

(* The same of every history, the ones in which a task that was ended by    *)
(* force goes on included.  (What such a task itself appends does not       *)
(* count.)                                                                 *)
NothingLost ==
  acked \subseteq Chain[LoadHead]

Recorded(p) == \E i \in Events : log[i].path = p /\ Foreign \in {log[i].before, log[i].after}

(* Going back never destroys a content the user wrote outside MHcode: it    *)
(* is still in its file or in a recorded image, whoever works on the        *)
(* session at the same time.  (The exceptions are files that a switch       *)
(* writes for the branch it goes to, and files that a tool puts back in the *)
(* middle of a restoration.)                                               *)
EditsSurviveGoingBack ==
  ~unclean => \A p \in edited \ (replayed \cup contested) :
    \/ files[p] = Foreign
    \/ Recorded(p)
    \/ \E r \in Runtimes : phase[r] = "wrote" /\ change[r].path = p /\ change[r].before = Foreign
=============================================================================
