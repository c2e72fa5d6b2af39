--------------------------- MODULE SubagentsProofs ---------------------------
(***************************************************************************)
(* Proofs about the workers of a turn, for every set of workers, whichever *)
(* of them hang, and every limit.                                          *)
(***************************************************************************)
EXTENDS Subagents, TLAPS

-----------------------------------------------------------------------------
(* Records                                                                 *)

(* What is done to a record gives a record.                                *)
LEMMA RecordType ==
  ASSUME NEW r \in Records, NEW s \in Statuses
  PROVE  /\ Touch(r) \in Records /\ WithStatus(r, s) \in Records
         /\ [Touch(r) EXCEPT !.collected = TRUE] \in Records
         /\ [Touch(r) EXCEPT !.cancelRequested = TRUE] \in Records
         /\ Started \in Records /\ NoRecord \in Records
<1>1. Touch(r) \in Records /\ r.status \in Statuses
  BY DEF Records, Touch
<1>2. \A q \in Records : [q EXCEPT !.status = s] \in Records
  BY DEF Records
<1>3. \A q \in Records : /\ [q EXCEPT !.collected = TRUE] \in Records
                         /\ [q EXCEPT !.cancelRequested = TRUE] \in Records
  BY DEF Records
<1>4. NoRecord \in Records
  BY DEF NoRecord, Records, Statuses
<1>5. \A q \in Records : [q EXCEPT !.status = "active", !.updated = 1] \in Records
  BY DEF Records, Statuses
<1>6. Started \in Records
  BY <1>4, <1>5 DEF Started
<1> QED BY <1>1, <1>2, <1>3, <1>4, <1>6 DEF WithStatus

(* A record that ends gets the status it ends with.                        *)
LEMMA EndType ==
  ASSUME NEW r \in Records, NEW s \in Terminal
  PROVE  WithStatus(r, s) \in Records /\ WithStatus(r, s).status = s
<1>1. s \in Statuses
  BY DEF Statuses
<1>2. Touch(r) \in Records /\ WithStatus(r, s) \in Records
  BY <1>1, RecordType
<1>3. \A q \in Records : [q EXCEPT !.status = s].status = s
  BY DEF Records
<1> QED BY <1>2, <1>3 DEF WithStatus

(* Merging takes the whole of one record and the marks of both.            *)
LEMMA MergeFacts ==
  ASSUME NEW old \in Records, NEW new \in Records
  PROVE  /\ Merge(old, new) \in Records
         /\ old.status \in Terminal => Merge(old, new).status \in Terminal
         /\ old.collected \/ new.collected => Merge(old, new).collected
         /\ old.cancelRequested \/ new.cancelRequested => Merge(old, new).cancelRequested
         /\ Merge(old, new).collected => old.collected \/ new.collected
         /\ Merge(old, new).cancelRequested => old.cancelRequested \/ new.cancelRequested
BY DEF Records, Merge

-----------------------------------------------------------------------------
(* Types                                                                   *)

(* The initial state has the types.                                        *)
LEMMA TypeInit == Init => TypeOK
<1> SUFFICES ASSUME Init PROVE TypeOK
  OBVIOUS
<1>1. NoRecord \in Records
  BY RecordType DEF Statuses, NoRecord, Records
<1>2. NoSave \in [worker : Workers \cup {NoWorker}, rec : Records]
  BY <1>1 DEF NoSave
<1>3. NoAwait \in [running : BOOLEAN, todo : SUBSET Workers]
  BY DEF NoAwait
<1>4. /\ record \in [Workers -> Records] /\ file \in [Workers -> Records]
      /\ saving \in [Writers -> [worker : Workers \cup {NoWorker}, rec : Records]]
  BY <1>1, <1>2 DEF Init
<1>5. /\ finished \in [Workers -> BOOLEAN] /\ counted \in [Workers -> Nat]
      /\ worker \in [Workers -> {"none", "busy", "ending", "gone"}]
  BY DEF Init
<1>6. /\ awaits \in 0..MaxAwaits /\ await \in [running : BOOLEAN, todo : SUBSET Workers]
  BY <1>3, BoundsAssumption DEF Init
<1> QED
  BY <1>4, <1>5, <1>6 DEF Init, TypeOK

(* A change of one record that is due to be written, or is not.            *)
LEMMA ChangeType ==
  ASSUME TypeOK, NEW w \in Workers, NEW p \in Writers, NEW r \in Records,
         record' = [record EXCEPT ![w] = r], UNCHANGED saving \/ Due(p, w)
  PROVE  /\ record' \in [Workers -> Records]
         /\ saving' \in [Writers -> [worker : Workers \cup {NoWorker}, rec : Records]]
<1>1. record' \in [Workers -> Records]
  BY DEF TypeOK
<1>2. [worker |-> w, rec |-> record'[w]] \in [worker : Workers \cup {NoWorker}, rec : Records]
  BY <1>1
<1> QED BY <1>1, <1>2 DEF TypeOK, Due

(* Finishing a control keeps the types.                                    *)
LEMMA FinishType ==
  ASSUME TypeOK, NEW w \in Workers, NEW p \in Writers, NEW s \in Statuses, FinishAs(p, w, s)
  PROVE  /\ record' \in [Workers -> Records] /\ finished' \in [Workers -> BOOLEAN]
         /\ saving' \in [Writers -> [worker : Workers \cup {NoWorker}, rec : Records]]
<1>1. WithStatus(record[w], s) \in Records
  BY RecordType DEF TypeOK
<1> QED BY <1>1, ChangeType DEF FinishAs, TypeOK

(* Collecting from a control keeps the types.                              *)
LEMMA CollectType ==
  ASSUME TypeOK, NEW w \in Workers, NEW p \in Writers, Collect(p, w)
  PROVE  /\ record' \in [Workers -> Records] /\ counted' \in [Workers -> Nat]
         /\ saving' \in [Writers -> [worker : Workers \cup {NoWorker}, rec : Records]]
<1>1. [Touch(record[w]) EXCEPT !.collected = TRUE] \in Records
  BY RecordType DEF TypeOK, Statuses
<1>2. record' = [record EXCEPT ![w] = [Touch(record[w]) EXCEPT !.collected = TRUE]]
  BY DEF Collect
<1>3. /\ record' \in [Workers -> Records]
      /\ saving' \in [Writers -> [worker : Workers \cup {NoWorker}, rec : Records]]
  BY <1>1, <1>2, ChangeType DEF Collect
<1>4. counted' = counted \/ counted' = [counted EXCEPT ![w] = @ + 1]
  BY DEF Collect
<1>5. counted' \in [Workers -> Nat]
  BY <1>4 DEF TypeOK
<1> QED BY <1>3, <1>5

(* Every step keeps the types.                                             *)
LEMMA TypeNext == TypeOK /\ [Next]_vars => TypeOK'
<1> SUFFICES ASSUME TypeOK, [Next]_vars PROVE TypeOK'
  OBVIOUS
<1> USE DEF workerVars, turnVars, awaitVars
<1>1. ASSUME NEW w \in Workers, Finish(w) PROVE TypeOK'
  <2>1. w \in Writers /\ record[w].status \in Statuses
    BY DEF Writers, TypeOK, Records
  <2> QED BY <1>1, <2>1, FinishType DEF Finish, TypeOK
<1>2. ASSUME NEW w \in Workers, NEW s \in Terminal, Report(w, s) PROVE TypeOK'
  <2>1. WithStatus(record[w], s) \in Records /\ w \in Writers
    BY RecordType DEF TypeOK, Statuses, Writers
  <2>2. /\ record' \in [Workers -> Records]
        /\ saving' \in [Writers -> [worker : Workers \cup {NoWorker}, rec : Records]]
    <3>1. CASE finished[w]
      BY <1>2, <3>1 DEF Report, Update, TypeOK
    <3>2. CASE ~finished[w]
      <4>1. record' = [record EXCEPT ![w] = WithStatus(record[w], s)] /\ Due(w, w)
        BY <1>2, <3>2 DEF Report, Update
      <4> QED BY <2>1, <4>1, ChangeType
    <3> QED BY <3>1, <3>2
  <2>3. /\ worker' \in [Workers -> {"none", "busy", "ending", "gone"}]
        /\ UNCHANGED <<finished, controls, stopped, file, turnVars, turnCtx, awaitVars>>
    BY <1>2 DEF Report, TypeOK
  <2> QED BY <2>2, <2>3 DEF TypeOK
<1>3. ASSUME NEW w \in Workers, CancelSubagent(w) PROVE TypeOK'
  <2>1. [Touch(record[w]) EXCEPT !.cancelRequested = TRUE] \in Records /\ "user" \in Writers
    BY RecordType DEF TypeOK, Statuses, Writers
  <2>2. record' = [record EXCEPT ![w] = [Touch(record[w]) EXCEPT !.cancelRequested = TRUE]]
    BY <1>3 DEF CancelSubagent
  <2>3. /\ record' \in [Workers -> Records]
        /\ saving' \in [Writers -> [worker : Workers \cup {NoWorker}, rec : Records]]
    <3>1. Due("user", w)
      BY <1>3 DEF CancelSubagent
    <3> QED BY <2>1, <2>2, <3>1, ChangeType
  <2> QED BY <1>3, <2>3 DEF CancelSubagent, TypeOK
<1>4. ASSUME NEW p \in Writers, WriteFile(p) PROVE TypeOK'
  <2>1. saving[p].worker \in Workers /\ saving[p].rec \in Records
    BY <1>4 DEF WriteFile, Free, TypeOK
  <2>2. NoSave \in [worker : Workers \cup {NoWorker}, rec : Records]
    BY DEF NoSave, NoRecord, Records, Statuses
  <2>3. Merge(file[saving[p].worker], saving[p].rec) \in Records
    BY <2>1, MergeFacts DEF TypeOK
  <2> QED BY <1>4, <2>1, <2>2, <2>3 DEF WriteFile, TypeOK
<1>5. ASSUME NEW some \in SUBSET Workers, Delegate(some) PROVE TypeOK'
  <2>1. Started \in Records
    BY RecordType DEF Records, Statuses, NoRecord, Started, Touch
  <2> QED BY <1>5, <2>1 DEF Delegate, TypeOK
<1>6. ASSUME NEW some \in SUBSET Workers, Await(some) PROVE TypeOK'
  <2>1. await' = [running |-> TRUE, todo |-> some]
    BY <1>6 DEF Await, NoAwait
  <2>2. await' \in [running : BOOLEAN, todo : SUBSET Workers]
    BY <2>1
  <2> QED BY <1>6, <2>2, BoundsAssumption DEF Await, TypeOK
<1>7. ASSUME NEW error \in BOOLEAN, EndLoop(error) PROVE TypeOK'
  <2>1. patient' \in BOOLEAN
    BY <1>7, Zenon DEF EndLoop
  <2>2. failed' \in BOOLEAN /\ grace' \in {"off", "running", "past"}
    BY <1>7 DEF EndLoop
  <2>3. stopped' \in SUBSET Workers
    BY <1>7 DEF EndLoop, TypeOK
  <2>4. UNCHANGED <<record, finished, worker, controls, file, saving, detached, verdict, turnCtx,
                    await, counted, awaits>>
    BY <1>7 DEF EndLoop
  <2>5. turn' = "joining" /\ todo' = controls /\ joined' = controls
    BY <1>7 DEF EndLoop
  <2> HIDE DEF turnVars, awaitVars, workerVars
  <2> QED BY <2>1, <2>2, <2>3, <2>4, <2>5 DEF TypeOK
<1>8. ASSUME NEW w \in Workers, TakeOver(w) PROVE TypeOK'
  <2>1. "turn" \in Writers /\ "cancelled" \in Statuses
    BY DEF Writers, Statuses, Terminal
  <2> QED BY <1>8, <2>1, FinishType DEF TakeOver, TypeOK
<1>9. ASSUME NEW w \in Workers, CollectJoined(w) PROVE TypeOK'
  <2>1. "turn" \in Writers
    BY DEF Writers
  <2> QED BY <1>9, <2>1, CollectType DEF CollectJoined, TypeOK
<1>10. ASSUME NEW w \in Workers, AwaitStep(w) PROVE TypeOK'
  <2>1. "await" \in Writers
    BY DEF Writers
  <2>2. /\ record' \in [Workers -> Records] /\ counted' \in [Workers -> Nat]
        /\ saving' \in [Writers -> [worker : Workers \cup {NoWorker}, rec : Records]]
    BY <1>10, <2>1, CollectType DEF AwaitStep, TypeOK
  <2> QED BY <1>10, <2>2 DEF AwaitStep, TypeOK
<1>11. ASSUME NEW w \in Workers, Join(w) \/ Detach(w) PROVE TypeOK'
  BY <1>11 DEF Join, Detach, IsFirst, TypeOK
<1>12. CASE JoinStopped \/ AllJoined \/ AwaitGivenUp \/ AwaitReturns \/ GraceOver
  <2>1. NoAwait \in [running : BOOLEAN, todo : SUBSET Workers]
    BY DEF NoAwait
  <2>2. CASE JoinStopped \/ AllJoined \/ GraceOver
    BY <2>2 DEF JoinStopped, AllJoined, GraceOver, TypeOK
  <2>3. CASE AwaitGivenUp \/ AwaitReturns
    BY <2>1, <2>3 DEF AwaitGivenUp, AwaitReturns, TypeOK
  <2> QED BY <1>12, <2>2, <2>3
<1>13. CASE EndTurn
  BY <1>13 DEF EndTurn, Verdicts, FailedVerdicts, TypeOK
<1>14. CASE IdleTimeout \/ StopTask
  BY <1>14 DEF IdleTimeout, StopTask, TypeOK
<1>15. CASE UNCHANGED vars
  BY <1>15 DEF vars, TypeOK
<1> QED
  BY <1>1, <1>2, <1>3, <1>4, <1>5, <1>6, <1>7, <1>8, <1>9, <1>10, <1>11, <1>12, <1>13, <1>14, <1>15
  DEF Next, WorkerStep, Tool, TurnStep, AwaitRuns

(* Every variable keeps its type.                                          *)
THEOREM TypeOKAlways == Spec => []TypeOK
BY TypeInit, TypeNext, PTL DEF Spec

(* The registry file never takes back that a worker has ended, that it was *)
(* to be cancelled or that it was collected.                               *)
THEOREM RecordOnlyAdvancesAlways == Spec => RecordOnlyAdvances
<1>1. TypeOK /\ [Next]_vars =>
        [\A w \in Workers :
           /\ file[w].status \in Terminal => file'[w].status \in Terminal
           /\ file[w].collected => file'[w].collected
           /\ file[w].cancelRequested => file'[w].cancelRequested]_file
  <2> SUFFICES ASSUME TypeOK, Next, file' # file, NEW w \in Workers
               PROVE  /\ file[w].status \in Terminal => file'[w].status \in Terminal
                      /\ file[w].collected => file'[w].collected
                      /\ file[w].cancelRequested => file'[w].cancelRequested
    BY DEF vars
  <2>1. ASSUME NEW p \in Writers, WriteFile(p)
        PROVE  /\ file[w].status \in Terminal => file'[w].status \in Terminal
               /\ file[w].collected => file'[w].collected
               /\ file[w].cancelRequested => file'[w].cancelRequested
    <3>1. saving[p].worker \in Workers /\ saving[p].rec \in Records
      BY <2>1 DEF WriteFile, Free, TypeOK
    <3>2. /\ file' = [file EXCEPT ![saving[p].worker] = Merge(file[saving[p].worker], saving[p].rec)]
          /\ file[saving[p].worker] \in Records
      BY <2>1, <3>1 DEF WriteFile, TypeOK
    <3>3. CASE w = saving[p].worker
      <4>1. file'[w] = Merge(file[w], saving[p].rec)
        BY <3>1, <3>2, <3>3 DEF TypeOK
      <4>2. file[w] \in Records
        BY <3>2, <3>3
      <4> QED BY <3>1, <4>1, <4>2, MergeFacts
    <3>4. CASE w # saving[p].worker
      <4>1. file'[w] = file[w]
        BY <3>1, <3>2, <3>4 DEF TypeOK
      <4> QED BY <4>1
    <3> QED BY <3>3, <3>4
  <2>2. ASSUME NEW some \in SUBSET Workers, Delegate(some)
        PROVE  /\ file[w].status \in Terminal => file'[w].status \in Terminal
               /\ file[w].collected => file'[w].collected
               /\ file[w].cancelRequested => file'[w].cancelRequested
    <3>1. CASE w \in some
      BY <2>2, <3>1 DEF Delegate, NoRecord, Terminal
    <3>2. CASE w \notin some
      BY <2>2, <3>2 DEF Delegate
    <3> QED BY <3>1, <3>2
  <2> QED
    BY <2>1, <2>2
    DEF Next, WorkerStep, Finish, Report, CancelSubagent, Tool, Await, EndLoop, TurnStep, Join, Detach,
        TakeOver, CollectJoined, JoinStopped, AllJoined, EndTurn, AwaitGivenUp, AwaitRuns,
        AwaitReturns, AwaitStep, GraceOver, IdleTimeout, StopTask
<1> QED
  BY <1>1, TypeInit, TypeNext, PTL DEF Spec, RecordOnlyAdvances

-----------------------------------------------------------------------------
(* Usage                                                                   *)

(* The collected mark of a record and the usage that was counted go        *)
(* together, and nobody collects from a worker that was not delegated.     *)
CountInv ==
  /\ \A w \in Workers : worker[w] = "none" =>
       w \notin controls \cup joined \cup todo \cup await.todo /\ ~finished[w] /\ ~record[w].collected
  /\ \A w \in Workers : /\ record[w].collected => counted[w] = 1
                        /\ ~record[w].collected => counted[w] = 0
  /\ turn \in {"working", "awaiting"} => joined = {} /\ todo = {} /\ detached = {}
  /\ turn = "collecting" => \A w \in joined \ (todo \cup detached) : counted[w] = 1
  /\ turn = "over" => \A w \in joined \ detached : counted[w] = 1

(* Nothing is counted at first.                                            *)
LEMMA CountInit == Init => CountInv
BY DEF Init, CountInv, NoRecord, NoAwait

(* Changing a status, or asking to cancel, does not touch the mark.        *)
LEMMA MarkKept ==
  ASSUME NEW r \in Records, NEW s \in Statuses
  PROVE  /\ WithStatus(r, s).collected = r.collected
         /\ [Touch(r) EXCEPT !.cancelRequested = TRUE].collected = r.collected
         /\ [Touch(r) EXCEPT !.collected = TRUE].collected = TRUE
BY DEF Records, WithStatus, Touch

(* Steps that collect nothing and delegate nothing.                        *)
LEMMA CountKept ==
  ASSUME TypeOK, CountInv, UNCHANGED <<counted, controls, joined, todo, turn, detached, await>>,
         \A w \in Workers : /\ record'[w].collected = record[w].collected
                            /\ worker'[w] = "none" => worker[w] = "none" /\ finished'[w] = finished[w]
  PROVE  CountInv'
BY DEF CountInv

(* A collection counts once; it needs a worker that was delegated.         *)
LEMMA CollectCounts ==
  ASSUME TypeOK, CountInv, NEW p \in Writers, NEW w \in Workers, Collect(p, w)
  PROVE  /\ record'[w].collected /\ counted'[w] = 1
         /\ \A x \in Workers \ {w} : record'[x] = record[x] /\ counted'[x] = counted[x]
<1>1. record' = [record EXCEPT ![w] = [Touch(record[w]) EXCEPT !.collected = TRUE]]
  BY DEF Collect
<1>2. record'[w] = [Touch(record[w]) EXCEPT !.collected = TRUE] /\ record[w] \in Records
  BY <1>1 DEF TypeOK
<1>3. record'[w].collected
  BY <1>2, MarkKept DEF Statuses
<1>4. \A x \in Workers \ {w} : record'[x] = record[x]
  BY <1>1 DEF TypeOK
<1>5. CASE Newly(w)
  <2>1. counted' = [counted EXCEPT ![w] = @ + 1] /\ counted[w] = 0
    BY <1>5 DEF Collect, Newly, CountInv
  <2> QED BY <1>3, <1>4, <2>1 DEF TypeOK
<1>6. CASE ~Newly(w)
  <2>1. counted' = counted /\ counted[w] = 1
    BY <1>6 DEF Collect, Newly, CountInv
  <2> QED BY <1>3, <1>4, <2>1
<1> QED BY <1>5, <1>6

(* Every step keeps the invariant.                                         *)
LEMMA CountNext == TypeOK /\ CountInv /\ [Next]_vars => CountInv'
<1> SUFFICES ASSUME TypeOK, CountInv, [Next]_vars PROVE CountInv'
  OBVIOUS
<1> USE DEF workerVars, turnVars, awaitVars
<1>1. ASSUME NEW w \in Workers, NEW p \in Writers, NEW s \in Statuses, FinishAs(p, w, s)
      PROVE  /\ \A x \in Workers : record'[x].collected = record[x].collected
             /\ \A x \in Workers \ {w} : finished'[x] = finished[x]
  <2>1. WithStatus(record[w], s).collected = record[w].collected
    BY MarkKept DEF TypeOK
  <2> QED BY <1>1, <2>1 DEF FinishAs, TypeOK
<1>2. ASSUME NEW w \in Workers, Finish(w) PROVE CountInv'
  <2>1. FinishAs(w, w, record[w].status) /\ w \in Writers /\ record[w].status \in Statuses
    BY <1>2 DEF Finish, Writers, TypeOK, Records
  <2>2. worker' = [worker EXCEPT ![w] = "gone"]
    BY <1>2 DEF Finish
  <2> QED BY <1>1, <1>2, <2>1, <2>2, CountKept DEF Finish, TypeOK
<1>3. ASSUME NEW w \in Workers, NEW s \in Terminal, Report(w, s) PROVE CountInv'
  <2>1. WithStatus(record[w], s).collected = record[w].collected
    BY MarkKept DEF TypeOK, Statuses
  <2>2. \A x \in Workers : record'[x].collected = record[x].collected
    BY <1>3, <2>1 DEF Report, Update, TypeOK
  <2> QED BY <1>3, <2>2, CountKept DEF Report, TypeOK
<1>4. ASSUME NEW w \in Workers, CancelSubagent(w) PROVE CountInv'
  <2>1. [Touch(record[w]) EXCEPT !.cancelRequested = TRUE].collected = record[w].collected
    BY MarkKept DEF TypeOK, Statuses
  <2>2. \A x \in Workers : record'[x].collected = record[x].collected
    BY <1>4, <2>1 DEF CancelSubagent, TypeOK
  <2> QED BY <1>4, <2>2, CountKept DEF CancelSubagent
<1>5. ASSUME NEW p \in Writers, WriteFile(p) PROVE CountInv'
  BY <1>5, CountKept DEF WriteFile
<1>6. ASSUME NEW some \in SUBSET Workers, Delegate(some) PROVE CountInv'
  <2>1. /\ UNCHANGED <<counted, finished, joined, todo, turn, detached, await>>
        /\ controls' = controls \cup some /\ turn = "working"
        /\ \A w \in some : worker[w] = "none"
    BY <1>6 DEF Delegate
  <2>2. \A w \in Workers : /\ w \in some => record'[w].collected = FALSE /\ worker'[w] = "busy"
                           /\ w \notin some => record'[w] = record[w] /\ worker'[w] = worker[w]
    BY <1>6 DEF Delegate, Started, NoRecord
  <2> QED BY <2>1, <2>2 DEF CountInv
<1>7. ASSUME NEW some \in SUBSET Workers, Await(some) PROVE CountInv'
  <2>1. await'.todo = some
    BY <1>7 DEF Await, NoAwait
  <2> QED BY <1>7, <2>1 DEF Await, CountInv
<1>8. ASSUME NEW error \in BOOLEAN, EndLoop(error) PROVE CountInv'
  BY <1>8 DEF EndLoop, CountInv
<1>9. ASSUME NEW w \in Workers, Join(w) \/ Detach(w) PROVE CountInv'
  BY <1>9 DEF Join, Detach, CountInv
<1>10. ASSUME NEW w \in Workers, TakeOver(w) PROVE CountInv'
  <2>1. "turn" \in Writers /\ "cancelled" \in Statuses
    BY DEF Writers, Statuses, Terminal
  <2>2. \A x \in Workers : record'[x].collected = record[x].collected
    BY <1>1, <1>10, <2>1 DEF TakeOver
  <2>3. \A x \in Workers \ {w} : finished'[x] = finished[x]
    BY <1>1, <1>10, <2>1 DEF TakeOver
  <2>4. worker[w] # "none" /\ w \in detached /\ turn = "collecting"
    BY <1>10 DEF TakeOver, IsFirst, CountInv
  <2> QED BY <1>10, <2>2, <2>3, <2>4 DEF TakeOver, CountInv
<1>11. ASSUME NEW w \in Workers, CollectJoined(w) PROVE CountInv'
  <2>1. /\ record'[w].collected /\ counted'[w] = 1
        /\ \A x \in Workers \ {w} : record'[x] = record[x] /\ counted'[x] = counted[x]
    BY <1>11, CollectCounts DEF CollectJoined, Writers
  <2>2. worker[w] # "none" /\ turn = "collecting"
    BY <1>11 DEF CollectJoined, IsFirst, CountInv
  <2>3. /\ UNCHANGED <<finished, worker, controls, turn, joined, detached, await>>
        /\ todo' = todo \ {w} /\ w \in todo
    BY <1>11 DEF CollectJoined, IsFirst
  <2>4. \A x \in Workers : worker'[x] = "none" =>
          x \notin controls' \cup joined' \cup todo' \cup await'.todo /\ ~finished'[x]
          /\ ~record'[x].collected
    BY <2>1, <2>2, <2>3 DEF CountInv
  <2>5. \A x \in Workers : /\ record'[x].collected => counted'[x] = 1
                           /\ ~record'[x].collected => counted'[x] = 0
    BY <2>1 DEF CountInv
  <2>6. \A x \in joined' \ (todo' \cup detached') : counted'[x] = 1
    BY <2>1, <2>2, <2>3 DEF CountInv, TypeOK
  <2> QED BY <2>2, <2>3, <2>4, <2>5, <2>6 DEF CountInv
<1>12. ASSUME NEW w \in Workers, AwaitStep(w) PROVE CountInv'
  <2>1. worker[w] # "none"
    BY <1>12 DEF AwaitStep, IsFirst, CountInv
  <2>2. await'.todo = await.todo \ {w}
    BY <1>12 DEF AwaitStep, TypeOK
  <2>3. CASE finished[w]
    <3>1. /\ record'[w].collected /\ counted'[w] = 1
          /\ \A x \in Workers \ {w} : record'[x] = record[x] /\ counted'[x] = counted[x]
      BY <1>12, <2>3, CollectCounts DEF AwaitStep, Writers
    <3>2. UNCHANGED <<finished, worker, controls, turn, joined, todo, detached>>
      BY <1>12 DEF AwaitStep
    <3>3. \A x \in Workers : worker'[x] = "none" =>
            x \notin controls' \cup joined' \cup todo' \cup await'.todo /\ ~finished'[x]
            /\ ~record'[x].collected
      BY <2>1, <2>2, <3>1, <3>2 DEF CountInv
    <3>4. \A x \in Workers : /\ record'[x].collected => counted'[x] = 1
                             /\ ~record'[x].collected => counted'[x] = 0
      BY <3>1 DEF CountInv
    <3>5. /\ turn = "collecting" => \A x \in joined \ (todo \cup detached) : counted'[x] = 1
          /\ turn = "over" => \A x \in joined \ detached : counted'[x] = 1
      BY <3>1 DEF CountInv, TypeOK
    <3> QED BY <3>2, <3>3, <3>4, <3>5 DEF CountInv
  <2>4. CASE ~finished[w]
    BY <1>12, <2>2, <2>4 DEF AwaitStep, CountInv
  <2> QED BY <2>3, <2>4
<1>13. CASE JoinStopped \/ GraceOver \/ IdleTimeout \/ StopTask
  BY <1>13, CountKept DEF JoinStopped, GraceOver, IdleTimeout, StopTask
<1>14. CASE AllJoined
  BY <1>14 DEF AllJoined, CountInv
<1>15. CASE AwaitGivenUp \/ AwaitReturns
  <2>1. await'.todo \subseteq await.todo
    BY <1>15 DEF AwaitGivenUp, AwaitReturns, NoAwait
  <2> QED BY <1>15, <2>1 DEF AwaitGivenUp, AwaitReturns, CountInv
<1>16. CASE EndTurn
  BY <1>16 DEF EndTurn, CountInv
<1>17. CASE UNCHANGED vars
  BY <1>17, CountKept DEF vars
<1> QED
  BY <1>2, <1>3, <1>4, <1>5, <1>6, <1>7, <1>8, <1>9, <1>10, <1>11, <1>12, <1>13, <1>14, <1>15, <1>16,
     <1>17
  DEF Next, WorkerStep, Tool, TurnStep, AwaitRuns

(* The usage of a worker is counted once, and a turn that is over has      *)
(* counted every worker it did not give up.                                *)
THEOREM UsageCountedOnceAlways == Spec => []UsageCountedOnce
<1>1. TypeOK /\ CountInv => UsageCountedOnce
  BY DEF CountInv, UsageCountedOnce, TypeOK, Records
<1> QED
  BY <1>1, TypeInit, TypeNext, CountInit, CountNext, PTL DEF Spec

-----------------------------------------------------------------------------
(* The barrier                                                             *)

(* The record of a worker is terminal from its last report on.             *)
EndedInv ==
  \A w \in Workers :
    finished[w] \/ worker[w] \in {"ending", "gone"} => record[w].status \in Terminal

(* The barrier passes a worker that is done, or gives it up; it gives up   *)
(* on workers only if the turn has failed or was stopped, and has          *)
(* cancelled them then.                                                    *)
BarrierInv ==
  /\ \A w \in Workers : finished[w] => worker[w] = "gone" \/ w \in detached
  /\ turn = "joining" => \A w \in joined \ todo : finished[w] \/ w \in detached
  /\ turn = "collecting" => \A w \in joined : finished[w] \/ w \in detached
  /\ turn = "collecting" => \A w \in joined \ todo : finished[w]
  /\ turn = "over" => \A w \in joined : finished[w]
  /\ turn \in {"joining", "collecting"} =>
       /\ detached # {} => ~patient
       /\ ~patient => failed \/ turnCtx # "live"
       /\ ~patient => stopped = Workers
  /\ turnCtx # "live" \/ detached # {} => stopped = Workers
  /\ turn # "over" => verdict = "none"
  /\ verdict = "committed" /\ turnCtx # "stopped" => joined \cap detached = {}

(* No worker has ended at first.                                           *)
LEMMA EndedInit == Init => EndedInv
BY DEF Init, EndedInv

(* Every step keeps the records of ended workers terminal.                 *)
LEMMA EndedNext == TypeOK /\ CountInv /\ EndedInv /\ [Next]_vars => EndedInv'
<1> SUFFICES ASSUME TypeOK, CountInv, EndedInv, [Next]_vars PROVE EndedInv'
  OBVIOUS
<1> USE DEF workerVars, turnVars, awaitVars
<1>1. ASSUME NEW w \in Workers, NEW r \in Records, record' = [record EXCEPT ![w] = r],
             r.status \in Terminal \/ (r.status = record[w].status /\ finished' = finished),
             \A x \in Workers \ {w} : finished'[x] = finished[x],
             \A x \in Workers : worker'[x] \in {"ending", "gone"} =>
               worker[x] \in {"ending", "gone"} \/ (x = w /\ r.status \in Terminal)
      PROVE  EndedInv'
  <2>1. record'[w] = r /\ \A x \in Workers \ {w} : record'[x] = record[x]
    BY <1>1 DEF TypeOK
  <2> QED BY <1>1, <2>1 DEF EndedInv
<1>2. ASSUME UNCHANGED <<record, finished, worker>> PROVE EndedInv'
  BY <1>2 DEF EndedInv
<1>3. \A w \in Workers : record[w] \in Records
  BY DEF TypeOK
<1>4. ASSUME NEW w \in Workers, NEW s \in Terminal, Report(w, s) PROVE EndedInv'
  <2>1. worker' = [worker EXCEPT ![w] = "ending"] /\ finished' = finished
    BY <1>4 DEF Report
  <2>2. CASE finished[w]
    BY <1>4, <2>1, <2>2 DEF Report, Update, EndedInv, TypeOK
  <2>3. CASE ~finished[w]
    <3>1. WithStatus(record[w], s) \in Records /\ WithStatus(record[w], s).status = s
      BY <1>3, EndType
    <3>2. record' = [record EXCEPT ![w] = WithStatus(@, s)]
      BY <1>4, <2>3 DEF Report, Update
    <3> QED BY <1>1, <2>1, <3>1, <3>2 DEF TypeOK
  <2> QED BY <2>2, <2>3
<1>5. ASSUME NEW p, NEW w \in Workers, NEW s \in Terminal, FinishAs(p, w, s),
             worker' = worker \/ (worker[w] = "ending" /\ worker' = [worker EXCEPT ![w] = "gone"])
      PROVE EndedInv'
  <2>1. CASE finished[w]
    BY <1>5, <2>1 DEF FinishAs, EndedInv, TypeOK
  <2>2. CASE ~finished[w]
    <3>1. WithStatus(record[w], s) \in Records /\ WithStatus(record[w], s).status = s
      BY <1>3, EndType
    <3>2. /\ record' = [record EXCEPT ![w] = WithStatus(@, s)]
          /\ \A x \in Workers \ {w} : finished'[x] = finished[x]
      BY <1>5, <2>2 DEF FinishAs, TypeOK
    <3>3. \A x \in Workers : worker'[x] \in {"ending", "gone"} => worker[x] \in {"ending", "gone"}
      BY <1>5 DEF TypeOK
    <3> QED BY <1>1, <3>1, <3>2, <3>3
  <2> QED BY <2>1, <2>2
<1>6. ASSUME NEW w \in Workers, Finish(w) PROVE EndedInv'
  <2>1. record[w].status \in Terminal
    BY <1>6 DEF Finish, EndedInv
  <2> QED BY <1>5, <1>6, <2>1 DEF Finish
<1>7. ASSUME NEW w \in Workers, TakeOver(w) PROVE EndedInv'
  BY <1>5, <1>7 DEF TakeOver, Terminal
<1>8. ASSUME NEW w \in Workers, CancelSubagent(w) PROVE EndedInv'
  BY <1>8 DEF CancelSubagent, EndedInv, TypeOK, Touch, Records
<1>9. ASSUME NEW p, NEW w \in Workers, Collect(p, w), UNCHANGED <<finished, worker>> PROVE EndedInv'
  BY <1>9 DEF Collect, EndedInv, TypeOK, Touch, Records
<1>10. ASSUME NEW w \in Workers, CollectJoined(w) PROVE EndedInv'
  BY <1>9, <1>10 DEF CollectJoined
<1>11. ASSUME NEW w \in Workers, AwaitStep(w) PROVE EndedInv'
  <2>1. UNCHANGED <<finished, worker>> /\ (Collect("await", w) \/ record' = record)
    BY <1>11 DEF AwaitStep
  <2> QED BY <1>2, <1>9, <2>1
<1>12. ASSUME NEW new \in SUBSET Workers, Delegate(new) PROVE EndedInv'
  <2>1. \A w \in new : ~finished[w]
    BY <1>12 DEF Delegate, CountInv
  <2>2. /\ \A w \in Workers \ new : record'[w] = record[w] /\ worker'[w] = worker[w]
        /\ \A w \in new : worker'[w] = "busy"
        /\ finished' = finished
    BY <1>12 DEF Delegate
  <2> QED BY <2>1, <2>2 DEF EndedInv
<1>13. ASSUME NEW p \in Writers, WriteFile(p) PROVE EndedInv'
  BY <1>2, <1>13 DEF WriteFile
<1>14. ASSUME NEW some \in SUBSET Workers, Await(some) PROVE EndedInv'
  BY <1>2, <1>14 DEF Await
<1>15. ASSUME NEW error \in BOOLEAN, EndLoop(error) PROVE EndedInv'
  BY <1>2, <1>15 DEF EndLoop
<1>16. ASSUME NEW w \in Workers, Join(w) \/ Detach(w) PROVE EndedInv'
  BY <1>2, <1>16 DEF Join, Detach
<1>17. CASE \/ JoinStopped \/ AllJoined \/ EndTurn \/ AwaitGivenUp \/ AwaitReturns \/ GraceOver
            \/ IdleTimeout \/ StopTask \/ UNCHANGED vars
  BY <1>2, <1>17 DEF JoinStopped, AllJoined, EndTurn, AwaitGivenUp, AwaitReturns, GraceOver,
                     IdleTimeout, StopTask, vars
<1> QED
  BY <1>4, <1>6, <1>7, <1>8, <1>10, <1>11, <1>12, <1>13, <1>14, <1>15, <1>16, <1>17
  DEF Next, WorkerStep, Tool, TurnStep, AwaitRuns

(* There is no turn to end at first.                                       *)
LEMMA BarrierInit == Init => BarrierInv
BY DEF Init, BarrierInv

(* Steps of workers and awaits.                                            *)
LEMMA BarrierKept ==
  ASSUME TypeOK, CountInv, BarrierInv,
         UNCHANGED <<joined, todo, detached, patient, failed, verdict, turnCtx>>,
         turn' = turn \/ {turn, turn'} \subseteq {"working", "awaiting"},
         stopped \subseteq stopped', stopped' \subseteq Workers,
         \A w \in Workers : /\ finished[w] => finished'[w]
                            /\ finished'[w] /\ ~finished[w] => worker'[w] = "gone"
                            /\ worker[w] = "gone" => worker'[w] = "gone"
  PROVE  BarrierInv'
BY DEF BarrierInv, TypeOK

(* Every step keeps the invariant.                                         *)
LEMMA BarrierNext == TypeOK /\ CountInv /\ BarrierInv /\ [Next]_vars => BarrierInv'
<1> SUFFICES ASSUME TypeOK, CountInv, BarrierInv, [Next]_vars PROVE BarrierInv'
  OBVIOUS
<1> USE DEF workerVars, turnVars, awaitVars
<1>1. ASSUME NEW w \in Workers, Finish(w) PROVE BarrierInv'
  BY <1>1, BarrierKept DEF Finish, FinishAs, TypeOK
<1>2. ASSUME NEW w \in Workers, NEW s \in Terminal, Report(w, s) PROVE BarrierInv'
  BY <1>2, BarrierKept DEF Report, TypeOK
<1>3. ASSUME NEW w \in Workers, CancelSubagent(w) PROVE BarrierInv'
  BY <1>3, BarrierKept DEF CancelSubagent, TypeOK
<1>4. ASSUME NEW p \in Writers, WriteFile(p) PROVE BarrierInv'
  <2>1. stopped \subseteq stopped' /\ stopped' \subseteq Workers
    BY <1>4 DEF WriteFile, Free, TypeOK
  <2> QED BY <1>4, <2>1, BarrierKept DEF WriteFile
<1>5. ASSUME NEW some \in SUBSET Workers, Delegate(some) \/ Await(some) PROVE BarrierInv'
  <2>1. \A w \in Workers : worker[w] = "gone" => worker'[w] = "gone"
    BY <1>5 DEF Delegate, Await
  <2>2. stopped' = stopped /\ stopped \subseteq Workers
    BY <1>5 DEF Delegate, Await, TypeOK
  <2>3. \A w \in Workers : finished[w] => finished'[w]
    BY <1>5 DEF Delegate, Await
  <2>4. \A w \in Workers : finished'[w] /\ ~finished[w] => worker'[w] = "gone"
    BY <1>5 DEF Delegate, Await
  <2>5. /\ UNCHANGED <<joined, todo, detached, patient, failed, verdict, turnCtx>>
        /\ turn' = turn \/ {turn, turn'} \subseteq {"working", "awaiting"}
    BY <1>5 DEF Delegate, Await
  <2> QED BY <2>1, <2>2, <2>3, <2>4, <2>5, BarrierKept
<1>6. ASSUME NEW error \in BOOLEAN, EndLoop(error) PROVE BarrierInv'
  <2>1. turn = "working" /\ detached = {} /\ joined' = todo' /\ turn' = "joining"
    BY <1>6 DEF EndLoop, CountInv
  <2>2. ~patient' => failed' \/ turnCtx # "live"
    BY <1>6, Zenon DEF EndLoop
  <2>3. UNCHANGED <<finished, worker, detached, verdict, turnCtx>>
    BY <1>6 DEF EndLoop
  <2>4. (~patient' => stopped' = Workers) /\ (stopped = Workers => stopped' = Workers)
    BY <1>6, Zenon DEF EndLoop
  <2> QED BY <2>1, <2>2, <2>3, <2>4 DEF BarrierInv
<1>7. ASSUME NEW w \in Workers, Join(w) PROVE BarrierInv'
  BY <1>7 DEF Join, BarrierInv, TypeOK
<1>8. ASSUME NEW w \in Workers, Detach(w) PROVE BarrierInv'
  BY <1>8 DEF Detach, BarrierInv, TypeOK
<1>9. ASSUME NEW w \in Workers, TakeOver(w) PROVE BarrierInv'
  <2>1. w \in detached /\ \A x \in Workers \ {w} : finished'[x] = finished[x]
    BY <1>9 DEF TakeOver, FinishAs, TypeOK
  <2>2. finished[w] => finished'[w]
    BY <1>9 DEF TakeOver, FinishAs, TypeOK
  <2>3. finished'[w]
    BY <1>9 DEF TakeOver, FinishAs, TypeOK
  <2>4. /\ turn = "collecting" /\ todo' = todo \ {w}
        /\ UNCHANGED <<worker, turn, joined, detached, patient, failed, verdict, turnCtx, stopped>>
    BY <1>9 DEF TakeOver
  <2> QED BY <2>1, <2>3, <2>4 DEF BarrierInv, TypeOK
<1>10. ASSUME NEW w \in Workers, CollectJoined(w) PROVE BarrierInv'
  BY <1>10 DEF CollectJoined, BarrierInv
<1>11. ASSUME NEW w \in Workers, AwaitStep(w) PROVE BarrierInv'
  BY <1>11, BarrierKept DEF AwaitStep, TypeOK
<1>12. CASE AwaitGivenUp \/ AwaitReturns \/ GraceOver
  BY <1>12, BarrierKept DEF AwaitGivenUp, AwaitReturns, GraceOver, TypeOK
<1>13. CASE JoinStopped
  BY <1>13 DEF JoinStopped, BarrierInv
<1>14. CASE IdleTimeout \/ StopTask
  BY <1>14 DEF IdleTimeout, Silent, StopTask, BarrierInv
<1>15. CASE AllJoined
  BY <1>15 DEF AllJoined, BarrierInv
<1>16. CASE EndTurn
  <2>1. /\ turn = "collecting" /\ turn' = "over" /\ verdict' \in Verdicts /\ todo = {}
        /\ UNCHANGED <<finished, worker, joined, detached, turnCtx, stopped>>
    BY <1>16 DEF EndTurn
  <2>2. ASSUME verdict' = "committed", turnCtx # "stopped" PROVE detached = {}
    <3>1. ~failed /\ turnCtx = "live"
      BY <2>1, <2>2 DEF Verdicts, FailedVerdicts, TypeOK
    <3> QED BY <2>1, <3>1 DEF BarrierInv
  <2> QED BY <2>1, <2>2 DEF BarrierInv, TypeOK
<1>17. CASE UNCHANGED vars
  BY <1>17, BarrierKept DEF vars, TypeOK
<1> QED
  BY <1>1, <1>2, <1>3, <1>4, <1>5, <1>6, <1>7, <1>8, <1>9, <1>10, <1>11, <1>12, <1>13, <1>14, <1>15,
     <1>16, <1>17
  DEF Next, WorkerStep, Tool, TurnStep, AwaitRuns

(* A turn that is over has seen every worker of it come back, or has       *)
(* cancelled it, given it up and recorded its end; one that commits as a   *)
(* success, and was not stopped by the user, has given up none.            *)
THEOREM TurnAccountsForWorkersAlways == Spec => []TurnAccountsForWorkers
<1>1. TypeOK /\ BarrierInv /\ EndedInv => TurnAccountsForWorkers
  BY DEF BarrierInv, EndedInv, TypeOK, TurnAccountsForWorkers
<1> QED
  BY <1>1, TypeInit, TypeNext, CountInit, CountNext, EndedInit, EndedNext, BarrierInit, BarrierNext,
     PTL DEF Spec

-----------------------------------------------------------------------------
(* The registry file                                                       *)

(* What is in the file, or on its way there, of a worker.                  *)
Sources(w) == {file[w]} \cup {saving[p].rec : p \in {q \in Writers : saving[q].worker = w}}

SameEnd(x, r) == x.status \in Terminal <=> r.status \in Terminal

(* It is not ahead of the record in the memory.                            *)
NotAhead(x, r) ==
  /\ x.updated <= r.updated
  /\ x.status \in Terminal => r.status \in Terminal
  /\ x.collected => r.collected
  /\ x.cancelRequested => r.cancelRequested

(* Whatever would be taken for later than x says how the worker stands.    *)
Settles(x, w) ==
  /\ x.status = record[w].status
  /\ \A y \in Sources(w) :
       SameEnd(y, record[w]) /\ x.updated <= y.updated => y.status = record[w].status

CatchesUp(w) ==
  /\ \A x \in Sources(w) : NotAhead(x, record[w])
  /\ \E x \in Sources(w) : Settles(x, w)
  /\ record[w].collected => \E x \in Sources(w) : x.collected
  /\ record[w].cancelRequested => \E x \in Sources(w) : x.cancelRequested

(* Nothing is written of a worker that was not delegated; of the others     *)
(* the last change is in the file or on its way, and stands against every   *)
(* other write, whatever their order.                                      *)
CatchInv ==
  \A w \in Workers :
    IF worker[w] = "none" THEN \A p \in Writers : saving[p].worker # w ELSE CatchesUp(w)

(* Nothing has been delegated.                                             *)
LEMMA CatchInit == Init => CatchInv
BY WorkersAssumption DEF Init, CatchInv, NoSave

(* Sources are records, and that in the file is one.                       *)
LEMMA SourceTypes ==
  ASSUME TypeOK, NEW w \in Workers
  PROVE  Sources(w) \subseteq Records /\ file[w] \in Sources(w) /\ record[w] \in Records
BY DEF TypeOK, Sources

(* Nothing is written, and records change neither status nor marks.        *)
LEMMA CatchKept ==
  ASSUME TypeOK, CatchInv, UNCHANGED <<file, saving>>,
         \A w \in Workers :
           /\ worker'[w] = "none" <=> worker[w] = "none"
           /\ record'[w].status = record[w].status /\ record'[w].collected = record[w].collected
           /\ record'[w].cancelRequested = record[w].cancelRequested
           /\ record'[w].updated \in Nat /\ record[w].updated <= record'[w].updated
  PROVE  CatchInv'
<1> SUFFICES ASSUME NEW w \in Workers, worker[w] # "none" PROVE CatchesUp(w)'
  BY DEF CatchInv
<1>1. Sources(w)' = Sources(w)
  BY DEF Sources
<1>2. CatchesUp(w)
  BY DEF CatchInv
<1>3. \A x \in Sources(w) : x.updated \in Nat /\ record[w].updated \in Nat
  BY SourceTypes DEF Records
<1>4. \A x \in Sources(w) : NotAhead(x, record[w]) => NotAhead(x, record'[w])
  BY <1>3 DEF NotAhead
<1>5. \A x \in Sources(w) : Settles(x, w) => Settles(x, w)'
  BY <1>1 DEF Settles, SameEnd
<1> QED BY <1>1, <1>2, <1>4, <1>5 DEF CatchesUp

(* A change of a record that is due to be written settles it.              *)
LEMMA CatchDue ==
  ASSUME TypeOK, CatchInv, NEW w \in Workers, worker[w] # "none", NEW p \in Writers, Free(p),
         NEW r \in Records, record' = [record EXCEPT ![w] = r], Due(p, w), file' = file,
         NotAhead(record[w], r), record[w].updated < r.updated,
         \A x \in Workers : worker'[x] = "none" <=> worker[x] = "none"
  PROVE  CatchInv'
<1>1. record'[w] = r /\ \A x \in Workers \ {w} : record'[x] = record[x]
  BY DEF TypeOK
<1>2. saving' = [saving EXCEPT ![p] = [worker |-> w, rec |-> r]]
  BY <1>1 DEF Due
<1>3. saving'[p] = [worker |-> w, rec |-> r] /\ \A q \in Writers \ {p} : saving'[q] = saving[q]
  BY <1>2 DEF TypeOK
<1>4. \A x \in Workers : saving[p].worker # x
  BY WorkersAssumption DEF Free
<1>5. Sources(w)' = Sources(w) \cup {r}
  BY <1>3, <1>4 DEF Sources
<1>6. CatchesUp(w)'
  <2>1. CatchesUp(w) /\ r.updated \in Nat /\ record[w].updated \in Nat
        /\ \A x \in Sources(w) : x.updated \in Nat
    BY SourceTypes DEF CatchInv, Records
  <2>2. \A x \in Sources(w) : NotAhead(x, r) /\ x.updated < r.updated
    BY <2>1 DEF CatchesUp, NotAhead
  <2>3. NotAhead(r, r)
    BY <2>1 DEF NotAhead
  <2>4. Settles(r, w)'
    BY <1>1, <1>5, <2>1, <2>2 DEF Settles
  <2> QED BY <1>1, <1>5, <2>2, <2>3, <2>4 DEF CatchesUp
<1>7. ASSUME NEW x \in Workers, x # w PROVE Sources(x)' = Sources(x)
  BY <1>3, <1>4, <1>7 DEF Sources
<1>8. ASSUME NEW x \in Workers, x # w, worker[x] # "none" PROVE CatchesUp(x)'
  BY <1>1, <1>7, <1>8 DEF CatchInv, CatchesUp, Settles
<1>9. ASSUME NEW x \in Workers, worker[x] = "none" PROVE \A q \in Writers : saving'[q].worker # x
  BY <1>3, <1>9 DEF CatchInv
<1> QED BY <1>6, <1>8, <1>9 DEF CatchInv

(* A write takes the status of one record and the marks of both; which one  *)
(* it takes is the one that counts.                                        *)
LEMMA CatchWrite ==
  ASSUME TypeOK, CatchInv, NEW p \in Writers, WriteFile(p)
  PROVE  CatchInv'
<1> DEFINE w == saving[p].worker
           new == saving[p].rec
           m == Merge(file[w], new)
<1>1. w \in Workers /\ new \in Records /\ worker[w] # "none"
  BY DEF WriteFile, Free, TypeOK, CatchInv
<1>2. /\ file'[w] = m /\ \A x \in Workers \ {w} : file'[x] = file[x]
      /\ saving'[p].worker = NoWorker /\ \A q \in Writers \ {p} : saving'[q] = saving[q]
      /\ record' = record /\ worker' = worker
  BY <1>1 DEF WriteFile, TypeOK, NoSave, workerVars
<1>3. ASSUME NEW x \in Workers PROVE NoWorker # x
  BY WorkersAssumption
<1>4. file[w] \in Sources(w) /\ new \in Sources(w)
  BY <1>1 DEF Sources
<1>5. Sources(w) = {file[w], new} \cup {saving[q].rec : q \in {q \in Writers \ {p} : saving[q].worker = w}}
  BY DEF Sources
<1>6. PICK z \in Workers : z = w
  BY <1>1
<1>7. Sources(z)' = {m} \cup {saving[q].rec : q \in {q \in Writers \ {p} : saving[q].worker = z}}
  BY <1>2, <1>3, <1>6 DEF Sources
<1> DEFINE Rest == {saving[q].rec : q \in {q \in Writers \ {p} : saving[q].worker = z}}
<1>8. Sources(z) = {file[z], new} \cup Rest /\ Sources(z)' = {m} \cup Rest
  BY <1>5, <1>6, <1>7
<1>9. ASSUME NEW old \in Records, NEW k \in Records
      PROVE  LET n == Merge(old, k) IN
             /\ \/ n.status = old.status /\ n.updated = old.updated
                   /\ \/ old.status \in Terminal /\ k.status \notin Terminal
                      \/ (old.status \in Terminal <=> k.status \in Terminal) /\ k.updated <= old.updated
                \/ n.status = k.status /\ n.updated = k.updated
                   /\ \/ k.status \in Terminal /\ old.status \notin Terminal
                      \/ (old.status \in Terminal <=> k.status \in Terminal) /\ old.updated <= k.updated
             /\ n.collected <=> old.collected \/ k.collected
             /\ n.cancelRequested <=> old.cancelRequested \/ k.cancelRequested
  BY DEF Merge, Records
<1>10. CatchesUp(z)'
  <2>1. /\ CatchesUp(z) /\ record[z] \in Records /\ file[z] \in Records
        /\ \A x \in Sources(z) : x \in Records
    BY <1>1, <1>6, SourceTypes DEF CatchInv
  <2>2. /\ \/ m.status = file[z].status /\ m.updated = file[z].updated
              /\ \/ file[z].status \in Terminal /\ new.status \notin Terminal
                 \/ (file[z].status \in Terminal <=> new.status \in Terminal) /\ new.updated <= file[z].updated
           \/ m.status = new.status /\ m.updated = new.updated
              /\ \/ new.status \in Terminal /\ file[z].status \notin Terminal
                 \/ (file[z].status \in Terminal <=> new.status \in Terminal) /\ file[z].updated <= new.updated
        /\ m.collected <=> file[z].collected \/ new.collected
        /\ m.cancelRequested <=> file[z].cancelRequested \/ new.cancelRequested
    BY <1>1, <1>6, <1>9, <2>1
  <2>3. /\ NotAhead(file[z], record[z]) /\ NotAhead(new, record[z])
        /\ \A x \in Rest : NotAhead(x, record[z])
    BY <1>8, <2>1 DEF CatchesUp
  <2>4. /\ file[z].updated \in Nat /\ new.updated \in Nat /\ \A x \in Rest : x.updated \in Nat
    BY <1>1, <1>8, <2>1 DEF Records
  <2> HIDE DEF m, new, Rest
  <2>5. NotAhead(m, record[z])
    BY <2>2, <2>3 DEF NotAhead
  <2>6. \A x \in Sources(z)' : NotAhead(x, record[z])
    BY <1>8, <2>3, <2>5
  <2>7. \E x \in Sources(z)' : Settles(x, z)'
    <3>1. PICK s \in Sources(z) : Settles(s, z)
      BY <2>1 DEF CatchesUp
    <3>2. \A y \in Sources(z) : SameEnd(y, record[z]) /\ s.updated <= y.updated => y.status = record[z].status
      BY <3>1 DEF Settles
    <3>3. s.status = record[z].status
      BY <3>1 DEF Settles
    <3>4. CASE s \in Rest
      <4>1. SameEnd(m, record[z]) /\ s.updated <= m.updated => m.status = record[z].status
        BY <1>8, <2>2, <3>2 DEF SameEnd
      <4>2. Settles(s, z)'
        BY <1>2, <1>8, <3>2, <3>3, <4>1 DEF Settles, SameEnd
      <4> QED BY <1>8, <3>4, <4>2
    <3>5. CASE s \in {file[z], new}
      <4>1. m.status = record[z].status /\ s.updated <= m.updated /\ m.updated \in Nat
        BY <1>8, <2>2, <2>3, <2>4, <3>2, <3>3, <3>5 DEF NotAhead, SameEnd
      <4>2. \A y \in Rest : SameEnd(y, record[z]) /\ m.updated <= y.updated => y.status = record[z].status
        BY <1>8, <2>4, <3>2, <3>5, <4>1
      <4>3. PICK k \in {m} : TRUE
        OBVIOUS
      <4>4. Settles(k, z)'
        BY <1>2, <1>8, <4>1, <4>2, <4>3 DEF Settles, SameEnd
      <4> QED BY <1>8, <4>3, <4>4
    <3> QED BY <1>8, <3>4, <3>5
  <2>8. (record[z].collected => \E x \in Sources(z)' : x.collected)
        /\ (record[z].cancelRequested => \E x \in Sources(z)' : x.cancelRequested)
    BY <1>8, <2>1, <2>2 DEF CatchesUp
  <2> QED BY <1>2, <2>6, <2>7, <2>8 DEF CatchesUp
<1>11. ASSUME NEW x \in Workers, x # z PROVE Sources(x)' = Sources(x)
  BY <1>2, <1>3, <1>6, <1>11 DEF Sources
<1>12. ASSUME NEW x \in Workers, x # z, worker[x] # "none" PROVE CatchesUp(x)'
  BY <1>2, <1>11, <1>12 DEF CatchInv, CatchesUp, Settles
<1>13. ASSUME NEW x \in Workers, worker[x] = "none" PROVE \A q \in Writers : saving'[q].worker # x
  BY <1>2, <1>3, <1>13 DEF CatchInv
<1> QED BY <1>2, <1>10, <1>12, <1>13 DEF CatchInv

(* What the changes of a record do to it.                                  *)
LEMMA ChangeFacts ==
  ASSUME NEW r \in Records, NEW s \in Statuses, r.status \in Terminal => s \in Terminal
  PROVE  /\ WithStatus(r, s) \in Records /\ NotAhead(r, WithStatus(r, s))
         /\ r.updated < WithStatus(r, s).updated
         /\ [Touch(r) EXCEPT !.collected = TRUE] \in Records
         /\ NotAhead(r, [Touch(r) EXCEPT !.collected = TRUE])
         /\ r.updated < [Touch(r) EXCEPT !.collected = TRUE].updated
         /\ [Touch(r) EXCEPT !.collected = TRUE].status = r.status
         /\ [Touch(r) EXCEPT !.collected = TRUE].collected
         /\ [Touch(r) EXCEPT !.collected = TRUE].cancelRequested = r.cancelRequested
         /\ [Touch(r) EXCEPT !.cancelRequested = TRUE] \in Records
         /\ NotAhead(r, [Touch(r) EXCEPT !.cancelRequested = TRUE])
         /\ r.updated < [Touch(r) EXCEPT !.cancelRequested = TRUE].updated
<1>1. Touch(r) \in Records /\ Touch(r).updated = r.updated + 1 /\ r.updated \in Nat
      /\ Touch(r).status = r.status /\ Touch(r).collected = r.collected
      /\ Touch(r).cancelRequested = r.cancelRequested
  BY DEF Records, Touch
<1> DEFINE t == Touch(r)
<1> HIDE DEF t
<1>2. t \in Records /\ t.updated = r.updated + 1 /\ t.status = r.status
      /\ t.collected = r.collected /\ t.cancelRequested = r.cancelRequested
  BY <1>1 DEF t
<1>3. LET n == [t EXCEPT !.status = s] IN
      n \in Records /\ n.updated = t.updated /\ n.status = s /\ n.collected = t.collected
      /\ n.cancelRequested = t.cancelRequested
  BY <1>2 DEF Records
<1>4. LET n == [t EXCEPT !.collected = TRUE] IN
      n \in Records /\ n.updated = t.updated /\ n.status = t.status /\ n.collected
      /\ n.cancelRequested = t.cancelRequested
  BY <1>2 DEF Records
<1>5. LET n == [t EXCEPT !.cancelRequested = TRUE] IN
      n \in Records /\ n.updated = t.updated /\ n.status = t.status /\ n.collected = t.collected
      /\ n.cancelRequested
  BY <1>2 DEF Records
<1>6. /\ NotAhead(r, [t EXCEPT !.status = s]) /\ r.updated < [t EXCEPT !.status = s].updated
  BY <1>1, <1>2, <1>3 DEF NotAhead
<1>7. /\ NotAhead(r, [t EXCEPT !.collected = TRUE]) /\ r.updated < [t EXCEPT !.collected = TRUE].updated
  BY <1>1, <1>2, <1>4 DEF NotAhead
<1>8. /\ NotAhead(r, [t EXCEPT !.cancelRequested = TRUE])
      /\ r.updated < [t EXCEPT !.cancelRequested = TRUE].updated
  BY <1>1, <1>2, <1>5 DEF NotAhead
<1> QED BY <1>2, <1>3, <1>4, <1>5, <1>6, <1>7, <1>8 DEF t, WithStatus

(* Finishing a control, if it is not finished, is such a change.           *)
LEMMA CatchFinish ==
  ASSUME TypeOK, CatchInv, NEW w \in Workers, worker[w] # "none", NEW p \in Writers, Free(p),
         NEW s \in Statuses, record[w].status \in Terminal => s \in Terminal,
         FinishAs(p, w, s), file' = file,
         \A x \in Workers : worker'[x] = "none" <=> worker[x] = "none"
  PROVE  CatchInv'
<1>0. record[w] \in Records /\ \A x \in Workers : record[x].updated \in Nat
  BY DEF TypeOK, Records
<1>1. CASE finished[w]
  BY <1>0, <1>1, CatchKept DEF FinishAs
<1>2. CASE ~finished[w]
  <2> DEFINE r == WithStatus(record[w], s)
  <2>1. r \in Records /\ NotAhead(record[w], r) /\ record[w].updated < r.updated
    BY <1>0, ChangeFacts
  <2>2. record' = [record EXCEPT ![w] = r] /\ Due(p, w)
    BY <1>2 DEF FinishAs
  <2> HIDE DEF r
  <2> QED BY <2>1, <2>2, CatchDue
<1> QED BY <1>1, <1>2

(* So is collecting, the first time; a second time changes nothing that     *)
(* counts.                                                                 *)
LEMMA CatchCollect ==
  ASSUME TypeOK, CatchInv, NEW w \in Workers, worker[w] # "none", NEW p \in Writers, Free(p),
         Collect(p, w), file' = file, worker' = worker
  PROVE  CatchInv'
<1> DEFINE r == [Touch(record[w]) EXCEPT !.collected = TRUE]
<1>0. record[w] \in Records /\ \A x \in Workers : record[x].updated \in Nat
  BY DEF TypeOK, Records
<1>1. /\ r \in Records /\ NotAhead(record[w], r) /\ record[w].updated < r.updated
      /\ r.status = record[w].status /\ r.collected /\ r.cancelRequested = record[w].cancelRequested
  BY <1>0, ChangeFacts DEF Records
<1>2. record' = [record EXCEPT ![w] = r]
  BY DEF Collect
<1> HIDE DEF r
<1>3. CASE Newly(w)
  BY <1>1, <1>2, <1>3, CatchDue DEF Collect
<1>4. CASE ~Newly(w)
  <2>1. record'[w] = r /\ (\A x \in Workers \ {w} : record'[x] = record[x]) /\ saving' = saving
    BY <1>2, <1>4 DEF Collect, TypeOK
  <2>2. record[w].collected = TRUE /\ r.collected = TRUE
    BY <1>0, <1>1, <1>4 DEF Newly, Records
  <2>3. r.updated \in Nat /\ record[w].updated <= r.updated
    BY <1>0, <1>1 DEF Records
  <2>4. ASSUME NEW x \in Workers
        PROVE  /\ record'[x].status = record[x].status /\ record'[x].collected = record[x].collected
               /\ record'[x].cancelRequested = record[x].cancelRequested
               /\ record'[x].updated \in Nat /\ record[x].updated <= record'[x].updated
    <3>1. CASE x = w
      BY <1>1, <2>1, <2>2, <2>3, <3>1
    <3>2. CASE x # w
      BY <1>0, <2>1, <3>2
    <3> QED BY <3>1, <3>2
  <2> QED BY <2>1, <2>4, CatchKept
<1> QED BY <1>3, <1>4

(* Every step keeps the invariant.                                         *)
LEMMA CatchNext == TypeOK /\ CountInv /\ CatchInv /\ [Next]_vars => CatchInv'
<1> SUFFICES ASSUME TypeOK, CountInv, CatchInv, [Next]_vars PROVE CatchInv'
  OBVIOUS
<1> USE DEF workerVars, turnVars, awaitVars
<1>0. /\ \A x \in Workers : record[x] \in Records /\ record[x].updated \in Nat /\ record[x].status \in Statuses
      /\ {"turn", "await", "user"} \cup Workers = Writers
  BY DEF TypeOK, Records, Writers
<1>s. Terminal \subseteq Statuses
  BY DEF Terminal, Statuses
<1>1. ASSUME UNCHANGED <<record, worker, file, saving>> PROVE CatchInv'
  BY <1>0, <1>1, CatchKept
<1>2. ASSUME NEW w \in Workers, Finish(w) PROVE CatchInv'
  <2>1. \A x \in Workers : worker'[x] = "none" <=> worker[x] = "none"
    BY <1>2 DEF Finish, TypeOK
  <2>2. worker[w] # "none" /\ Free(w) /\ FinishAs(w, w, record[w].status) /\ file' = file
    BY <1>2 DEF Finish
  <2> QED BY <1>0, <2>1, <2>2, CatchFinish
<1>3. ASSUME NEW w \in Workers, NEW s \in Terminal, Report(w, s) PROVE CatchInv'
  <2>1. \A x \in Workers : worker'[x] = "none" <=> worker[x] = "none"
    BY <1>3 DEF Report, TypeOK
  <2>2. worker[w] # "none" /\ Free(w) /\ Update(w, s) /\ file' = file
    BY <1>3 DEF Report
  <2>3. CASE finished[w]
    BY <1>0, <2>1, <2>2, <2>3, CatchKept DEF Update
  <2>4. CASE ~finished[w]
    <3> DEFINE r == WithStatus(record[w], s)
    <3>1. r \in Records /\ NotAhead(record[w], r) /\ record[w].updated < r.updated
      BY <1>0, <1>s, ChangeFacts
    <3>2. record' = [record EXCEPT ![w] = r] /\ Due(w, w)
      BY <2>2, <2>4 DEF Update
    <3> HIDE DEF r
    <3> QED BY <1>0, <2>1, <2>2, <3>1, <3>2, CatchDue
  <2> QED BY <2>3, <2>4
<1>4. ASSUME NEW w \in Workers, CancelSubagent(w) PROVE CatchInv'
  <2> DEFINE r == [Touch(record[w]) EXCEPT !.cancelRequested = TRUE]
  <2>1. r \in Records /\ NotAhead(record[w], r) /\ record[w].updated < r.updated
    BY <1>0, ChangeFacts
  <2>2. /\ record' = [record EXCEPT ![w] = r] /\ Due("user", w) /\ Free("user")
        /\ file' = file /\ worker' = worker
    BY <1>4 DEF CancelSubagent
  <2>3. worker[w] # "none"
    BY <1>4 DEF CancelSubagent, CountInv
  <2> HIDE DEF r
  <2> QED BY <1>0, <2>1, <2>2, <2>3, CatchDue
<1>5. ASSUME NEW p \in Writers, WriteFile(p) PROVE CatchInv'
  BY <1>5, CatchWrite
<1>6. ASSUME NEW new \in SUBSET Workers, Delegate(new) PROVE CatchInv'
  <2>1. /\ file' = [w \in Workers |-> IF w \in new THEN Started ELSE file[w]]
        /\ record' = [w \in Workers |-> IF w \in new THEN Started ELSE record[w]]
        /\ worker' = [w \in Workers |-> IF w \in new THEN "busy" ELSE worker[w]]
        /\ saving' = saving /\ \A w \in new : worker[w] = "none"
    BY <1>6 DEF Delegate
  <2>2. ASSUME NEW w \in new PROVE CatchesUp(w)'
    <3>1. Sources(w)' = {Started} /\ record'[w] = Started
      BY <2>1, <2>2 DEF Sources, CatchInv
    <3>2. Started.updated = 1
      BY DEF Started, NoRecord
    <3> QED BY <3>1, <3>2 DEF CatchesUp, Settles, NotAhead
  <2>3. ASSUME NEW w \in Workers \ new, worker[w] # "none" PROVE CatchesUp(w)'
    <3>1. Sources(w)' = Sources(w) /\ record'[w] = record[w]
      BY <2>1, <2>3 DEF Sources
    <3> QED BY <2>3, <3>1 DEF CatchInv, CatchesUp, Settles
  <2> QED BY <2>1, <2>2, <2>3 DEF CatchInv
<1>7. ASSUME NEW some \in SUBSET Workers, Await(some) PROVE CatchInv'
  BY <1>1, <1>7 DEF Await
<1>8. ASSUME NEW error \in BOOLEAN, EndLoop(error) PROVE CatchInv'
  BY <1>1, <1>8 DEF EndLoop
<1>9. ASSUME NEW w \in Workers, Join(w) \/ Detach(w) PROVE CatchInv'
  BY <1>1, <1>9 DEF Join, Detach
<1>10. ASSUME NEW w \in Workers, TakeOver(w) PROVE CatchInv'
  <2>1. w \in todo /\ Free("turn") /\ FinishAs("turn", w, "cancelled") /\ worker' = worker /\ file' = file
    BY <1>10 DEF TakeOver, IsFirst
  <2>2. worker[w] # "none"
    BY <2>1 DEF CountInv
  <2>3. "cancelled" \in Terminal
    BY DEF Terminal
  <2> QED BY <1>0, <1>s, <2>1, <2>2, <2>3, CatchFinish
<1>11. ASSUME NEW w \in Workers, CollectJoined(w) PROVE CatchInv'
  <2>1. w \in todo /\ Free("turn") /\ Collect("turn", w) /\ worker' = worker /\ file' = file
    BY <1>11 DEF CollectJoined, IsFirst
  <2>2. worker[w] # "none"
    BY <2>1 DEF CountInv
  <2> QED BY <1>0, <2>1, <2>2, CatchCollect
<1>12. ASSUME NEW w \in Workers, AwaitStep(w) PROVE CatchInv'
  <2>1. w \in await.todo /\ Free("await") /\ worker' = worker /\ file' = file
    BY <1>12 DEF AwaitStep, IsFirst
  <2>2. worker[w] # "none"
    BY <2>1 DEF CountInv
  <2>3. Collect("await", w) \/ UNCHANGED <<record, saving>>
    BY <1>12 DEF AwaitStep
  <2> QED BY <1>0, <1>1, <2>1, <2>2, <2>3, CatchCollect
<1>13. CASE AwaitGivenUp \/ AwaitReturns \/ GraceOver \/ JoinStopped \/ AllJoined \/ EndTurn
  BY <1>1, <1>13 DEF AwaitGivenUp, AwaitReturns, GraceOver, JoinStopped, AllJoined, EndTurn
<1>14. CASE IdleTimeout \/ StopTask \/ UNCHANGED vars
  BY <1>1, <1>14 DEF IdleTimeout, StopTask, vars
<1> QED
  BY <1>2, <1>3, <1>4, <1>5, <1>6, <1>7, <1>8, <1>9, <1>10, <1>11, <1>12, <1>13, <1>14
  DEF Next, WorkerStep, Tool, TurnStep, AwaitRuns

(* Once all writes have arrived the registry file says of every worker how  *)
(* it stands, which marks it has included, however the writes of worker,   *)
(* turn, await and user overtook one another (mergeSubagentTaskRecord).    *)
THEOREM FileCatchesUpAlways == Spec => []FileCatchesUp
<1>1. TypeOK /\ CatchInv => FileCatchesUp
  <2> SUFFICES ASSUME TypeOK, CatchInv, \A p \in Writers : Free(p), NEW w \in Workers, worker[w] # "none"
               PROVE  /\ file[w].status = record[w].status
                      /\ file[w].collected = record[w].collected
                      /\ file[w].cancelRequested = record[w].cancelRequested
    BY DEF FileCatchesUp
  <2>1. Sources(w) = {file[w]}
    BY WorkersAssumption DEF Sources, Free
  <2>2. CatchesUp(w) /\ file[w] \in Records /\ record[w] \in Records
    BY DEF CatchInv, TypeOK
  <2>3. /\ file[w].status = record[w].status
        /\ file[w].collected <=> record[w].collected
        /\ file[w].cancelRequested <=> record[w].cancelRequested
    BY <2>1, <2>2 DEF CatchesUp, Settles, NotAhead
  <2> QED BY <2>2, <2>3 DEF Records
<1> QED
  BY <1>1, TypeInit, TypeNext, CountInit, CountNext, CatchInit, CatchNext, PTL DEF Spec
=============================================================================
