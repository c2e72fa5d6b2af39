--------------------------- MODULE ChatTasksProofs ---------------------------
(***************************************************************************)
(* Proofs about chat tasks, for every set of tasks and sessions and every   *)
(* bound on guidance.                                                      *)
(***************************************************************************)
EXTENDS ChatTasks, TLAPS

-----------------------------------------------------------------------------
(* The registry                                                            *)

RegistryType ==
  /\ tasks \subseteq Tasks
  /\ bySession \in [Sessions -> Tasks \cup {NoTask}]

RegistryInv == RegistryType /\ OneTaskPerSession

(* The registry is empty at first.                                         *)
LEMMA RegistryInit == Init => RegistryInv
BY NoTaskIsNoTask, SessionOfAssumption
DEF Init, RegistryInv, RegistryType, OneTaskPerSession

(* Removing a task twice, or after its session has a new one, is harmless.  *)
LEMMA RemoveKeepsRegistry ==
  ASSUME RegistryInv, NEW t \in Tasks, Remove(t)
  PROVE  RegistryInv'
BY NoTaskIsNoTask, SessionOfAssumption
DEF RegistryInv, RegistryType, OneTaskPerSession, Remove

(* Registering needs a free session, and nobody is removed for another.    *)
LEMMA RegistryNext == RegistryInv /\ [Next]_vars => RegistryInv'
<1> SUFFICES ASSUME RegistryInv, [Next]_vars PROVE RegistryInv'
  OBVIOUS
<1>1. ASSUME NEW t \in Tasks, Register(t) PROVE RegistryInv'
  BY <1>1, NoTaskIsNoTask, SessionOfAssumption
  DEF RegistryInv, RegistryType, OneTaskPerSession, Register
<1>2. ASSUME NEW t \in Tasks, CloseMailbox(t) \/ Deregister(t) PROVE RegistryInv'
  BY <1>2, RemoveKeepsRegistry DEF CloseMailbox, Deregister
<1>3. CASE UNCHANGED registry
  BY <1>3 DEF registry, RegistryInv, RegistryType, OneTaskPerSession
<1>4. ASSUME NEW t \in Tasks, UserStep(t) \/ TurnStep(t) PROVE RegistryInv'
  BY <1>1, <1>3, <1>4
  DEF UserStep, TurnStep, RefuseBusy, Guide, RequestStop, TurnSucceeds, TurnFails, RecordProgress
<1>5. ASSUME NEW t \in Tasks, RunnerStep(t) PROVE RegistryInv'
  BY <1>2, <1>3, <1>5
  DEF RunnerStep, StartRuntime, BeginTurn, ReturnUncompleted, FinishTeamResume, LookForGuidance,
      TakeGuidance, StartGuidedRuntime, Complete, RunnerReturns
<1>6. ASSUME NEW t \in Tasks, CompletionStep(t) PROVE RegistryInv'
  BY <1>2, <1>3, <1>6 DEF CompletionStep, FinishRuntime, CancelAndReload, EmitTerminal
<1>7. ASSUME NEW t \in Tasks, StopStep(t) PROVE RegistryInv'
  BY <1>3, <1>7
  DEF StopStep, ReadGeneration, MarkCancelling, CancelContext, WatcherSeesDone, GraceElapses,
      ForceComplete, WatcherReturns
<1> QED
  BY <1>3, <1>4, <1>5, <1>6, <1>7 DEF Next, RequestStopAll, vars

(* A session has at most one registered task, and the index by session      *)
(* agrees with the registry, whatever completes late.                      *)
THEOREM OneTaskPerSessionAlways == Spec => []OneTaskPerSession
<1>1. RegistryInv => OneTaskPerSession
  BY DEF RegistryInv
<1> QED
  BY <1>1, RegistryInit, RegistryNext, PTL DEF Spec

-----------------------------------------------------------------------------
(* Types, and how many generations a task can have                         *)

(* One generation for the start, one for a completion that comes before it, *)
(* and one for every guidance message taken.                               *)
GenerationBound ==
  \A t \in Tasks :
    /\ guidance[t] <= asked[t]
    /\ runtime[t].gen <= asked[t] - guidance[t] + 2
    /\ pc[t] \in {"idle", "launched"} => runtime[t].gen <= 1
    /\ pc[t] = "guided" => runtime[t].gen <= asked[t] - guidance[t] + 1

(* Whoever completes a task knows with which terminal event.               *)
OutcomeKnown ==
  \A t \in Tasks :
    /\ pc[t] = "ending" => verdict[t] \in Outcomes
    /\ once[t] # "free" => outcome[t] \in Outcomes

TypeInv == TypeOK /\ GenerationBound /\ OutcomeKnown

Runtimes == [gen : Generations, status : Statuses, folded : SUBSET Generations]

(* The initial state has the types.                                        *)
LEMMA TypeInit == Init => TypeInv
BY NoTaskIsNoTask, SessionOfAssumption, BoundsAssumption
DEF Init, TypeInv, TypeOK, GenerationBound, OutcomeKnown, Generations, Statuses, Outcomes, NoRuntime

(* A new generation, as long as the bound leaves room for one.             *)
LEMMA FreshRuntimeType ==
  ASSUME NEW r \in Runtimes, r.gen < MaxGuidance + 2
  PROVE  FreshRuntime(r) \in Runtimes /\ FreshRuntime(r).gen = r.gen + 1
BY BoundsAssumption DEF FreshRuntime, Runtimes, Generations, Statuses

(* Finishing a runtime changes its status, and its generation only if it    *)
(* never had one.                                                          *)
LEMMA FinishedRuntimeType ==
  ASSUME NEW r \in Runtimes, NEW gen \in Generations, NEW status \in Statuses
  PROVE  /\ FinishedRuntime(r, gen, status) \in Runtimes
         /\ \/ FinishedRuntime(r, gen, status).gen = r.gen
            \/ r.gen = 0 /\ FinishedRuntime(r, gen, status).gen = 1
<1> DEFINE current == IF gen = 0 THEN EnsureGeneration(r) ELSE r
<1>1. current \in Runtimes /\ (current.gen = r.gen \/ (r.gen = 0 /\ current.gen = 1))
  <2>1. r.gen \in Nat
    BY BoundsAssumption DEF Runtimes, Generations
  <2>2. CASE r.gen = 0
    BY <2>2, FreshRuntimeType, BoundsAssumption DEF EnsureGeneration
  <2>3. CASE r.gen # 0
    BY <2>3 DEF EnsureGeneration
  <2> QED BY <2>2, <2>3
<1>2. [current EXCEPT !.status = status] \in Runtimes
      /\ [current EXCEPT !.status = status].gen = current.gen
  <2> HIDE DEF current
  <2> QED BY <1>1 DEF Runtimes
<1> QED BY <1>1, <1>2 DEF FinishedRuntime

(* Setting the runtime of one task keeps the types of memory and disk.      *)
LEMMA SetRuntimeType ==
  ASSUME TypeOK, NEW t \in Tasks, NEW r \in Runtimes, SetRuntime(t, r)
  PROVE  /\ runtime' \in [Tasks -> Runtimes]
         /\ record' \in [Sessions -> [task : Tasks \cup {NoTask}, gen : Generations, status : Statuses]]
         /\ runtime' = [runtime EXCEPT ![t] = r]
<1>1. Snapshot(t, r) \in [task : Tasks \cup {NoTask}, gen : Generations, status : Statuses]
  BY DEF Snapshot, Runtimes
<1> QED BY <1>1, SessionOfAssumption DEF TypeOK, SetRuntime, Runtimes

(* Every step keeps the types, the bound and the known outcomes.           *)
LEMMA TypeNext == TypeInv /\ [Next]_vars => TypeInv'
<1> SUFFICES ASSUME TypeInv, [Next]_vars PROVE TypeInv'
  OBVIOUS
<1> USE DEF TypeInv
<1>0. MaxGuidance \in Nat /\ Generations = 0..(MaxGuidance + 2)
  BY BoundsAssumption DEF Generations
<1>1. \A t \in Tasks : runtime[t] \in Runtimes
  BY DEF TypeOK, Runtimes
<1>2. \A t \in Tasks : asked[t] \in 0..MaxGuidance /\ guidance[t] \in 0..MaxGuidance
  BY DEF TypeOK
<1>3. \A t \in Tasks : runtime[t].gen \in Nat
  BY <1>0, <1>1 DEF Runtimes

(* A new runtime.                                                          *)
<1>4. ASSUME NEW t \in Tasks, StartRuntime(t) \/ StartGuidedRuntime(t) PROVE TypeInv'
  <2> DEFINE r == FreshRuntime(runtime[t])
  <2>1. runtime[t].gen <= asked[t] - guidance[t] + 1
    BY <1>2, <1>3, <1>4 DEF StartRuntime, StartGuidedRuntime, Goto, GenerationBound
  <2>2. r \in Runtimes /\ r.gen = runtime[t].gen + 1
    BY <1>0, <1>1, <1>2, <1>3, <2>1, FreshRuntimeType
  <2>3. SetRuntime(t, r)
    BY <1>4 DEF StartRuntime, StartGuidedRuntime
  <2> HIDE DEF r
  <2>4. /\ runtime' \in [Tasks -> Runtimes]
        /\ record' \in [Sessions -> [task : Tasks \cup {NoTask}, gen : Generations, status : Statuses]]
        /\ runtime' = [runtime EXCEPT ![t] = r]
    BY <2>2, <2>3, SetRuntimeType
  <2>5. /\ pc' \in [Tasks -> {"idle", "launched", "started", "turn", "returned", "between",
                       "guided", "ending", "gone"}]
        /\ pc' = [pc EXCEPT ![t] = "started"]
    BY <1>4 DEF StartRuntime, StartGuidedRuntime, Goto, TypeOK
  <2>6. UNCHANGED <<verdict, sinks, ctxDone, registry, mailbox, generation, completion, stopping>>
    BY <1>4 DEF StartRuntime, StartGuidedRuntime
  <2>7. TypeOK'
    BY <2>4, <2>5, <2>6 DEF TypeOK, Runtimes, registry, mailbox, completion, stopping
  <2>8. GenerationBound'
    BY <1>2, <1>3, <2>1, <2>2, <2>4, <2>5, <2>6 DEF GenerationBound, mailbox, TypeOK
  <2>9. OutcomeKnown'
    BY <2>5, <2>6 DEF OutcomeKnown, completion, TypeOK
  <2> QED BY <2>7, <2>8, <2>9

(* The same runtime with another status or more output.                    *)
<1>5. ASSUME NEW t \in Tasks, NEW r \in Runtimes, r.gen = runtime[t].gen,
             runtime' = [runtime EXCEPT ![t] = r],
             SetRuntime(t, r) \/ UNCHANGED record,
             UNCHANGED <<runner, ctxDone, registry, mailbox, generation, completion>>,
             /\ stop' \in [Tasks -> {"none", "reading", "marking", "cancelling", "grace", "forcing"}]
             /\ stopGen' \in [Tasks -> Generations]
             /\ UNCHANGED <<enforced, stopped>>
      PROVE  TypeInv'
  <2>1. /\ runtime' \in [Tasks -> Runtimes]
        /\ record' \in [Sessions -> [task : Tasks \cup {NoTask}, gen : Generations, status : Statuses]]
    <3>1. runtime' \in [Tasks -> Runtimes]
      BY <1>1, <1>5 DEF TypeOK
    <3> QED BY <3>1, <1>5, SetRuntimeType DEF TypeOK
  <2>2. TypeOK'
    BY <1>5, <2>1 DEF TypeOK, Runtimes, runner, registry, mailbox, completion
  <2>3. GenerationBound'
    BY <1>2, <1>3, <1>5 DEF GenerationBound, mailbox, runner, TypeOK
  <2>4. OutcomeKnown'
    BY <1>5 DEF OutcomeKnown, completion, runner
  <2> QED BY <2>2, <2>3, <2>4

<1>6. ASSUME NEW t \in Tasks, NEW gen \in 1..(MaxGuidance + 2), RecordProgress(t, gen)
      PROVE  TypeInv'
  <2> DEFINE r == [runtime[t] EXCEPT !.folded = @ \cup {gen}, !.status = "running"]
  <2>1. r \in Runtimes /\ r.gen = runtime[t].gen
    <3>1. runtime[t].folded \cup {gen} \in SUBSET Generations
      BY <1>0, <1>1 DEF Runtimes
    <3> DEFINE f == [runtime[t] EXCEPT !.folded = @ \cup {gen}]
    <3>2. f \in Runtimes /\ f.gen = runtime[t].gen
      BY <1>1, <3>1 DEF Runtimes
    <3>3. r = [f EXCEPT !.status = "running"]
      OBVIOUS
    <3> HIDE DEF f, r
    <3> QED BY <3>2, <3>3 DEF Runtimes, Statuses
  <2>2. /\ runtime' = [runtime EXCEPT ![t] = r]
        /\ SetRuntime(t, r) \/ UNCHANGED record
        /\ UNCHANGED <<runner, ctxDone, registry, mailbox, generation, completion, stopping>>
    BY <1>6 DEF RecordProgress, SetRuntime
  <2> HIDE DEF r
  <2>3. stop' = stop /\ stopGen' = stopGen /\ UNCHANGED <<enforced, stopped>>
    BY <2>2 DEF stopping
  <2> QED BY <1>5, <2>1, <2>2, <2>3 DEF TypeOK

<1>7. ASSUME NEW t \in Tasks, MarkCancelling(t) PROVE TypeInv'
  <2> DEFINE r == IF CanMarkCancelling(runtime[t], stopGen[t])
                    THEN [runtime[t] EXCEPT !.status = "cancelling"] ELSE runtime[t]
  <2>1. r \in Runtimes /\ r.gen = runtime[t].gen
    BY <1>1 DEF Runtimes, Statuses
  <2>2. runtime' = [runtime EXCEPT ![t] = r] /\ (SetRuntime(t, r) \/ UNCHANGED record)
    BY <1>7 DEF MarkCancelling, SetRuntime, snapshots, TypeOK
  <2> HIDE DEF r
  <2>3. /\ stop' \in [Tasks -> {"none", "reading", "marking", "cancelling", "grace", "forcing"}]
        /\ stopGen' \in [Tasks -> Generations]
        /\ UNCHANGED <<runner, ctxDone, registry, mailbox, generation, completion>>
        /\ UNCHANGED <<enforced, stopped>>
    BY <1>0, <1>7 DEF MarkCancelling, TypeOK
  <2> QED BY <1>5, <2>1, <2>2, <2>3

<1>8. ASSUME NEW t \in Tasks, FinishRuntime(t) PROVE TypeInv'
  <2> DEFINE r == FinishedRuntime(runtime[t], gateGen[t], outcome[t])
  <2>1. gateGen[t] \in Generations /\ outcome[t] \in Statuses
    BY DEF TypeOK, Statuses
  <2>2. /\ r \in Runtimes
        /\ r.gen = runtime[t].gen \/ (runtime[t].gen = 0 /\ r.gen = 1)
    BY <1>1, <2>1, FinishedRuntimeType
  <2>3. runtime' = [runtime EXCEPT ![t] = r] /\ (SetRuntime(t, r) \/ UNCHANGED record)
    BY <1>8 DEF FinishRuntime, SetRuntime, snapshots, TypeOK
  <2> HIDE DEF r
  <2>4. /\ once' = [once EXCEPT ![t] = "finished"] /\ once[t] = "gated"
        /\ gateGen' = [gateGen EXCEPT ![t] = 0]
        /\ UNCHANGED <<runner, ctxDone, registry, mailbox, generation, outcome, ended, stopping>>
    BY <1>8 DEF FinishRuntime, Advance
  <2>5. /\ runtime' \in [Tasks -> Runtimes]
        /\ record' \in [Sessions -> [task : Tasks \cup {NoTask}, gen : Generations, status : Statuses]]
    BY <1>1, <2>2, <2>3, SetRuntimeType DEF TypeOK
  <2>6. once' \in [Tasks -> {"free", "gated", "finished", "reloaded", "removed", "fired"}]
        /\ gateGen' \in [Tasks -> Generations]
    BY <1>0, <2>4 DEF TypeOK
  <2>7. TypeOK'
    BY <2>4, <2>5, <2>6 DEF TypeOK, Runtimes, runner, registry, mailbox, stopping
  <2>8. GenerationBound'
    <3>1. pc' = pc /\ asked' = asked /\ guidance' = guidance
      BY <2>4 DEF runner, mailbox
    <3>2. SUFFICES ASSUME NEW u \in Tasks PROVE GenerationBound!(u)'
      BY DEF GenerationBound
    <3>3. CASE u = t
      BY <1>2, <1>3, <2>2, <2>3, <3>1, <3>3 DEF GenerationBound, TypeOK
    <3>4. CASE u # t
      BY <2>3, <3>1, <3>4 DEF GenerationBound, TypeOK
    <3> QED BY <3>3, <3>4
  <2>9. OutcomeKnown'
    BY <2>4 DEF OutcomeKnown, runner, TypeOK
  <2> QED BY <2>7, <2>8, <2>9

(* The steps that leave memory and disk alone.                             *)
<1>9. ASSUME NEW t \in Tasks, Register(t) PROVE TypeInv'
  <2>1. TypeOK'
    BY <1>9, SessionOfAssumption DEF TypeOK, Register, Goto, snapshots, mailbox, registry,
        completion, stopping, runner
  <2>2. GenerationBound'
    BY <1>9, <1>2, <1>3 DEF TypeOK, GenerationBound, Register, Goto, snapshots, mailbox, runner
  <2>3. OutcomeKnown'
    BY <1>9 DEF TypeOK, OutcomeKnown, Register, Goto, completion, runner
  <2> QED BY <2>1, <2>2, <2>3
<1>10. ASSUME NEW t \in Tasks, RefuseBusy(t) PROVE TypeInv'
  <2>1. TypeOK'
    BY <1>10 DEF TypeOK, RefuseBusy, Goto, snapshots, mailbox, registry, completion, stopping,
        runner
  <2>2. GenerationBound'
    BY <1>10, <1>2, <1>3 DEF TypeOK, GenerationBound, RefuseBusy, Goto, snapshots, mailbox,
        runner
  <2>3. OutcomeKnown'
    BY <1>10 DEF TypeOK, OutcomeKnown, RefuseBusy, Goto, completion, runner
  <2> QED BY <2>1, <2>2, <2>3
<1>11. ASSUME NEW t \in Tasks, Guide(t) PROVE TypeInv'
  <2>0. /\ asked[t] + 1 \in 0..MaxGuidance /\ guidance[t] + 1 \in 0..MaxGuidance
        /\ asked' = [asked EXCEPT ![t] = asked[t] + 1]
        /\ guidance' = [guidance EXCEPT ![t] = guidance[t] + 1]
    <3>1. guidance[t] <= asked[t] /\ asked[t] < MaxGuidance
      BY <1>11 DEF Guide, GenerationBound
    <3>2. asked[t] \in 0..MaxGuidance /\ guidance[t] \in 0..MaxGuidance
      BY <1>2
    <3>3. asked[t] + 1 \in 0..MaxGuidance /\ guidance[t] + 1 \in 0..MaxGuidance
      BY <1>0, <3>1, <3>2
    <3> QED BY <1>11, <3>3 DEF Guide
  <2>01. asked' \in [Tasks -> 0..MaxGuidance] /\ guidance' \in [Tasks -> 0..MaxGuidance]
    BY <2>0 DEF TypeOK
  <2>1. TypeOK'
    BY <1>11, <2>01 DEF TypeOK, Guide, snapshots, registry, completion, stopping, runner
  <2>2. GenerationBound'
    <3>1. pc' = pc /\ runtime' = runtime
      BY <1>11 DEF Guide, runner, snapshots
    <3>2. ASSUME NEW u \in Tasks
          PROVE  \/ u # t /\ asked'[u] = asked[u] /\ guidance'[u] = guidance[u]
                 \/ u = t /\ asked'[u] = asked[u] + 1 /\ guidance'[u] = guidance[u] + 1
      BY <2>0 DEF TypeOK
    <3> QED BY <1>2, <1>3, <3>1, <3>2 DEF GenerationBound
  <2>3. OutcomeKnown'
    BY <1>11 DEF TypeOK, OutcomeKnown, Guide, completion, runner
  <2> QED BY <2>1, <2>2, <2>3
<1>12. ASSUME NEW t \in Tasks, RequestStop(t) PROVE TypeInv'
  <2>1. TypeOK'
    BY <1>12 DEF TypeOK, RequestStop, snapshots, mailbox, registry, completion, stopping,
        runner
  <2>2. GenerationBound'
    BY <1>12, <1>2, <1>3 DEF TypeOK, GenerationBound, RequestStop, snapshots, mailbox, runner
  <2>3. OutcomeKnown'
    BY <1>12 DEF TypeOK, OutcomeKnown, RequestStop, completion, runner
  <2> QED BY <2>1, <2>2, <2>3
<1>13. ASSUME NEW t \in Tasks, TurnSucceeds(t) PROVE TypeInv'
  <2>1. TypeOK'
    BY <1>13 DEF TypeOK, TurnSucceeds, Goto, snapshots, mailbox, registry, completion,
        stopping, runner
  <2>2. GenerationBound'
    BY <1>13, <1>2, <1>3 DEF TypeOK, GenerationBound, TurnSucceeds, Goto, snapshots, mailbox,
        runner
  <2>3. OutcomeKnown'
    BY <1>13 DEF TypeOK, OutcomeKnown, TurnSucceeds, Goto, completion, runner
  <2> QED BY <2>1, <2>2, <2>3
<1>14. ASSUME NEW t \in Tasks, TurnFails(t) PROVE TypeInv'
  <2>1. TypeOK'
    BY <1>14 DEF TypeOK, TurnFails, Goto, Outcomes, snapshots, mailbox, registry, completion,
        stopping, runner
  <2>2. GenerationBound'
    BY <1>14, <1>2, <1>3 DEF TypeOK, GenerationBound, TurnFails, Goto, Outcomes, snapshots,
        mailbox, runner
  <2>3. OutcomeKnown'
    BY <1>14 DEF TypeOK, OutcomeKnown, TurnFails, Goto, Outcomes, completion, runner
  <2> QED BY <2>1, <2>2, <2>3
<1>15. ASSUME NEW t \in Tasks, BeginTurn(t) PROVE TypeInv'
  <2>1. TypeOK'
    BY <1>15, <1>1 DEF TypeOK, BeginTurn, Goto, Runtimes, snapshots, mailbox, registry,
        completion, stopping, runner
  <2>2. GenerationBound'
    BY <1>15, <1>2, <1>3 DEF TypeOK, GenerationBound, BeginTurn, Goto, Runtimes, snapshots,
        mailbox, runner
  <2>3. OutcomeKnown'
    BY <1>15 DEF TypeOK, OutcomeKnown, BeginTurn, Goto, Runtimes, completion, runner
  <2> QED BY <2>1, <2>2, <2>3
<1>16. ASSUME NEW t \in Tasks, ReturnUncompleted(t) PROVE TypeInv'
  <2>1. TypeOK'
    BY <1>16 DEF TypeOK, ReturnUncompleted, Goto, snapshots, mailbox, registry, completion,
        stopping, runner
  <2>2. GenerationBound'
    BY <1>16, <1>2, <1>3 DEF TypeOK, GenerationBound, ReturnUncompleted, Goto, snapshots,
        mailbox, runner
  <2>3. OutcomeKnown'
    BY <1>16 DEF TypeOK, OutcomeKnown, ReturnUncompleted, Goto, completion, runner
  <2> QED BY <2>1, <2>2, <2>3
<1>17. ASSUME NEW t \in Tasks, FinishTeamResume(t) PROVE TypeInv'
  <2>1. TypeOK'
    BY <1>17 DEF TypeOK, FinishTeamResume, Goto, Outcomes, snapshots, mailbox, registry,
        completion, stopping, runner
  <2>2. GenerationBound'
    BY <1>17, <1>2, <1>3 DEF TypeOK, GenerationBound, FinishTeamResume, Goto, Outcomes,
        snapshots, mailbox, runner
  <2>3. OutcomeKnown'
    BY <1>17 DEF TypeOK, OutcomeKnown, FinishTeamResume, Goto, Outcomes, completion, runner
  <2> QED BY <2>1, <2>2, <2>3
<1>18. ASSUME NEW t \in Tasks, LookForGuidance(t) PROVE TypeInv'
  <2>1. TypeOK'
    BY <1>18 DEF TypeOK, LookForGuidance, Goto, snapshots, mailbox, registry, completion,
        stopping, runner
  <2>2. GenerationBound'
    BY <1>18, <1>2, <1>3 DEF TypeOK, GenerationBound, LookForGuidance, Goto, snapshots,
        mailbox, runner
  <2>3. OutcomeKnown'
    BY <1>18 DEF TypeOK, OutcomeKnown, LookForGuidance, Goto, completion, runner
  <2> QED BY <2>1, <2>2, <2>3
<1>19. ASSUME NEW t \in Tasks, RunnerReturns(t) PROVE TypeInv'
  <2>1. TypeOK'
    BY <1>19 DEF TypeOK, RunnerReturns, Goto, snapshots, mailbox, registry, completion,
        stopping, runner
  <2>2. GenerationBound'
    BY <1>19, <1>2, <1>3 DEF TypeOK, GenerationBound, RunnerReturns, Goto, snapshots, mailbox,
        runner
  <2>3. OutcomeKnown'
    BY <1>19 DEF TypeOK, OutcomeKnown, RunnerReturns, Goto, completion, runner
  <2> QED BY <2>1, <2>2, <2>3
<1>20. ASSUME NEW t \in Tasks, TakeGuidance(t) PROVE TypeInv'
  <2>0. guidance' \in [Tasks -> 0..MaxGuidance]
    <3>1. guidance[t] \in 0..MaxGuidance /\ guidance[t] > 0
      BY <1>2, <1>20 DEF TakeGuidance
    <3>2. guidance[t] - 1 \in 0..MaxGuidance
      BY <1>0, <3>1
    <3> QED BY <1>20, <3>2 DEF TakeGuidance, TypeOK
  <2>1. TypeOK'
    BY <1>20, <2>0 DEF TypeOK, TakeGuidance, Goto, snapshots, registry,
        completion, stopping, runner
  <2>2. GenerationBound'
    BY <1>20, <1>2, <1>3 DEF TypeOK, GenerationBound, TakeGuidance, Goto, snapshots, mailbox,
        runner
  <2>3. OutcomeKnown'
    BY <1>20 DEF TypeOK, OutcomeKnown, TakeGuidance, Goto, completion, runner
  <2> QED BY <2>1, <2>2, <2>3
<1>21. ASSUME NEW t \in Tasks, CloseMailbox(t) PROVE TypeInv'
  <2>1. TypeOK'
    BY <1>21, SessionOfAssumption DEF TypeOK, CloseMailbox, Goto, Remove, Outcomes, snapshots,
        mailbox, registry, completion, stopping, runner
  <2>2. GenerationBound'
    BY <1>21, <1>2, <1>3 DEF TypeOK, GenerationBound, CloseMailbox, Goto, Remove, Outcomes,
        snapshots, mailbox, runner
  <2>3. OutcomeKnown'
    BY <1>21 DEF TypeOK, OutcomeKnown, CloseMailbox, Goto, Remove, Outcomes, completion, runner
  <2> QED BY <2>1, <2>2, <2>3
<1>22. ASSUME NEW t \in Tasks, Complete(t) PROVE TypeInv'
  <2>1. TypeOK'
    BY <1>22 DEF TypeOK, Complete, CloseGate, Outcomes, snapshots, mailbox, registry,
        completion, stopping, runner
  <2>2. GenerationBound'
    BY <1>22, <1>2, <1>3 DEF TypeOK, GenerationBound, Complete, CloseGate, Outcomes, snapshots,
        mailbox, runner
  <2>3. OutcomeKnown'
    BY <1>22 DEF TypeOK, OutcomeKnown, Complete, CloseGate, Outcomes, completion, runner
  <2> QED BY <2>1, <2>2, <2>3
<1>23. ASSUME NEW t \in Tasks, ForceComplete(t) PROVE TypeInv'
  <2>1. TypeOK'
    BY <1>23 DEF TypeOK, ForceComplete, CloseGate, Outcomes, snapshots, mailbox, registry,
        completion, stopping, runner
  <2>2. GenerationBound'
    BY <1>23, <1>2, <1>3 DEF TypeOK, GenerationBound, ForceComplete, CloseGate, Outcomes,
        snapshots, mailbox, runner
  <2>3. OutcomeKnown'
    BY <1>23 DEF TypeOK, OutcomeKnown, ForceComplete, CloseGate, Outcomes, completion, runner
  <2> QED BY <2>1, <2>2, <2>3
<1>24. ASSUME NEW t \in Tasks, CancelAndReload(t) PROVE TypeInv'
  <2>1. TypeOK'
    BY <1>24 DEF TypeOK, CancelAndReload, Advance, snapshots, mailbox, registry, completion,
        stopping, runner
  <2>2. GenerationBound'
    BY <1>24, <1>2, <1>3 DEF TypeOK, GenerationBound, CancelAndReload, Advance, snapshots,
        mailbox, runner
  <2>3. OutcomeKnown'
    BY <1>24 DEF TypeOK, OutcomeKnown, CancelAndReload, Advance, completion, runner
  <2> QED BY <2>1, <2>2, <2>3
<1>25. ASSUME NEW t \in Tasks, Deregister(t) PROVE TypeInv'
  <2>1. TypeOK'
    BY <1>25, SessionOfAssumption DEF TypeOK, Deregister, Remove, Advance, snapshots, mailbox,
        registry, completion, stopping, runner
  <2>2. GenerationBound'
    BY <1>25, <1>2, <1>3 DEF TypeOK, GenerationBound, Deregister, Remove, Advance, snapshots,
        mailbox, runner
  <2>3. OutcomeKnown'
    BY <1>25 DEF TypeOK, OutcomeKnown, Deregister, Remove, Advance, completion, runner
  <2> QED BY <2>1, <2>2, <2>3
<1>26. ASSUME NEW t \in Tasks, EmitTerminal(t) PROVE TypeInv'
  <2>0. ended' \in [Tasks -> Seq(Outcomes)]
    <3>1. outcome[t] \in Outcomes
      BY <1>26 DEF EmitTerminal, Advance, OutcomeKnown
    <3>2. ended[t] \in Seq(Outcomes)
      BY DEF TypeOK
    <3>3. Append(ended[t], outcome[t]) \in Seq(Outcomes)
      BY <3>1, <3>2
    <3>4. ended' = [ended EXCEPT ![t] = Append(ended[t], outcome[t])]
      BY <1>26 DEF EmitTerminal
    <3> HIDE DEF TypeInv
    <3>5. ended \in [Tasks -> Seq(Outcomes)]
      BY DEF TypeInv, TypeOK
    <3> QED BY <3>3, <3>4, <3>5
  <2>1. TypeOK'
    BY <1>26, <2>0 DEF TypeOK, EmitTerminal, Advance, snapshots, mailbox, registry,
        stopping, runner
  <2>2. GenerationBound'
    BY <1>26, <1>2, <1>3 DEF TypeOK, GenerationBound, EmitTerminal, Advance, snapshots,
        mailbox, runner
  <2>3. OutcomeKnown'
    BY <1>26 DEF TypeOK, OutcomeKnown, EmitTerminal, Advance, completion, runner
  <2> QED BY <2>1, <2>2, <2>3
<1>27. ASSUME NEW t \in Tasks, ReadGeneration(t) PROVE TypeInv'
  <2>1. TypeOK'
    BY <1>27 DEF TypeOK, ReadGeneration, snapshots, mailbox, registry, completion, stopping,
        runner
  <2>2. GenerationBound'
    BY <1>27, <1>2, <1>3 DEF TypeOK, GenerationBound, ReadGeneration, snapshots, mailbox,
        runner
  <2>3. OutcomeKnown'
    BY <1>27 DEF TypeOK, OutcomeKnown, ReadGeneration, completion, runner
  <2> QED BY <2>1, <2>2, <2>3
<1>28. ASSUME NEW t \in Tasks, CancelContext(t) PROVE TypeInv'
  <2>1. TypeOK'
    BY <1>28 DEF TypeOK, CancelContext, snapshots, mailbox, registry, completion, stopping,
        runner
  <2>2. GenerationBound'
    BY <1>28, <1>2, <1>3 DEF TypeOK, GenerationBound, CancelContext, snapshots, mailbox, runner
  <2>3. OutcomeKnown'
    BY <1>28 DEF TypeOK, OutcomeKnown, CancelContext, completion, runner
  <2> QED BY <2>1, <2>2, <2>3
<1>29. ASSUME NEW t \in Tasks, WatcherSeesDone(t) PROVE TypeInv'
  <2>1. TypeOK'
    BY <1>29 DEF TypeOK, WatcherSeesDone, snapshots, mailbox, registry, completion, stopping,
        runner
  <2>2. GenerationBound'
    BY <1>29, <1>2, <1>3 DEF TypeOK, GenerationBound, WatcherSeesDone, snapshots, mailbox,
        runner
  <2>3. OutcomeKnown'
    BY <1>29 DEF TypeOK, OutcomeKnown, WatcherSeesDone, completion, runner
  <2> QED BY <2>1, <2>2, <2>3
<1>30. ASSUME NEW t \in Tasks, GraceElapses(t) PROVE TypeInv'
  <2>1. TypeOK'
    BY <1>30 DEF TypeOK, GraceElapses, snapshots, mailbox, registry, completion, stopping,
        runner
  <2>2. GenerationBound'
    BY <1>30, <1>2, <1>3 DEF TypeOK, GenerationBound, GraceElapses, snapshots, mailbox, runner
  <2>3. OutcomeKnown'
    BY <1>30 DEF TypeOK, OutcomeKnown, GraceElapses, completion, runner
  <2> QED BY <2>1, <2>2, <2>3
<1>31. ASSUME NEW t \in Tasks, WatcherReturns(t) PROVE TypeInv'
  <2>1. TypeOK'
    BY <1>31 DEF TypeOK, WatcherReturns, snapshots, mailbox, registry, completion, stopping,
        runner
  <2>2. GenerationBound'
    BY <1>31, <1>2, <1>3 DEF TypeOK, GenerationBound, WatcherReturns, snapshots, mailbox,
        runner
  <2>3. OutcomeKnown'
    BY <1>31 DEF TypeOK, OutcomeKnown, WatcherReturns, completion, runner
  <2> QED BY <2>1, <2>2, <2>3
<1>32. CASE RequestStopAll
  <2>1. TypeOK'
    BY <1>32 DEF TypeOK, RequestStopAll, snapshots, registry, completion, runner
  <2>2. GenerationBound' /\ OutcomeKnown'
    BY <1>32 DEF GenerationBound, OutcomeKnown, RequestStopAll, snapshots, completion, runner
  <2> QED BY <2>1, <2>2
<1>33. CASE UNCHANGED vars
  BY <1>33
  DEF vars, runner, registry, mailbox, snapshots, completion, stopping, TypeOK, GenerationBound,
      OutcomeKnown
<1> QED
  BY <1>4, <1>6, <1>7, <1>8, <1>9, <1>10, <1>11, <1>12, <1>13, <1>14, <1>15, <1>16, <1>17,
     <1>18, <1>19, <1>20, <1>21, <1>22, <1>23, <1>24, <1>25, <1>26, <1>27, <1>28, <1>29, <1>30,
     <1>31, <1>32, <1>33
  DEF Next, UserStep, TurnStep, RunnerStep, CompletionStep, StopStep

(* Every variable keeps its type; in particular a task has at most one      *)
(* generation for its start, one for an early completion and one for every  *)
(* guidance message it takes.                                              *)
THEOREM TypeCorrect == Spec => []TypeOK
<1>1. TypeInv => TypeOK
  BY DEF TypeInv
<1> QED
  BY <1>1, TypeInit, TypeNext, PTL DEF Spec

-----------------------------------------------------------------------------
(* What a snapshot holds                                                   *)

SnapshotInv == TypeInv /\ SnapshotOfOneTurn

(* Nothing has been recorded before the first turn.                        *)
LEMMA SnapshotInit == Init => SnapshotInv
BY TypeInit DEF Init, SnapshotInv, SnapshotOfOneTurn, NoRuntime

(* Finishing a runtime that holds the output of one turn adds none.        *)
LEMMA FinishedRuntimeOutput ==
  ASSUME NEW r \in Runtimes, NEW gen \in Generations, NEW status \in Statuses,
         r.folded \subseteq {r.gen}
  PROVE  FinishedRuntime(r, gen, status).folded \subseteq {FinishedRuntime(r, gen, status).gen}
<1> DEFINE current == IF gen = 0 THEN EnsureGeneration(r) ELSE r
<1>1. current.folded \subseteq {current.gen}
  BY DEF EnsureGeneration, FreshRuntime
<1>2. current \in Runtimes
  <2>1. r.gen \in Nat
    BY BoundsAssumption DEF Runtimes, Generations
  <2>2. CASE r.gen = 0
    BY <2>2, FreshRuntimeType, BoundsAssumption DEF EnsureGeneration
  <2>3. CASE r.gen # 0
    BY <2>3 DEF EnsureGeneration
  <2> QED BY <2>2, <2>3
<1>3. /\ [current EXCEPT !.status = status].folded = current.folded
      /\ [current EXCEPT !.status = status].gen = current.gen
  <2> HIDE DEF current
  <2> QED BY <1>2 DEF Runtimes
<1> QED BY <1>1, <1>3 DEF FinishedRuntime

(* Only stream events and new runtimes touch what is recorded; an event     *)
(* adds its generation, and only when that is the generation of the runtime. *)
LEMMA SnapshotNext == SnapshotInv /\ [Next]_vars => SnapshotInv'
<1> SUFFICES ASSUME SnapshotInv, [Next]_vars PROVE SnapshotOfOneTurn'
  BY TypeNext DEF SnapshotInv
<1>1. runtime \in [Tasks -> Runtimes]
  BY DEF SnapshotInv, TypeInv, TypeOK, Runtimes
<1>2. ASSUME NEW t \in Tasks, NEW r, r.folded \subseteq {r.gen},
             runtime' = [runtime EXCEPT ![t] = r]
      PROVE  SnapshotOfOneTurn'
  BY <1>1, <1>2 DEF SnapshotInv, SnapshotOfOneTurn
<1>3. CASE UNCHANGED runtime
  BY <1>3 DEF SnapshotInv, SnapshotOfOneTurn
<1>4. ASSUME NEW t \in Tasks, StartRuntime(t) \/ StartGuidedRuntime(t) PROVE SnapshotOfOneTurn'
  BY <1>2, <1>4 DEF StartRuntime, StartGuidedRuntime, SetRuntime, FreshRuntime
<1>5. ASSUME NEW t \in Tasks, NEW gen \in 1..(MaxGuidance + 2), RecordProgress(t, gen)
      PROVE  SnapshotOfOneTurn'
  <2> DEFINE f == [runtime[t] EXCEPT !.folded = @ \cup {gen}]
             r == [f EXCEPT !.status = "running"]
  <2>1. runtime[t].gen = gen /\ runtime' = [runtime EXCEPT ![t] = r]
    BY <1>5 DEF RecordProgress, AcceptsStream, GenerationMatches, SetRuntime
  <2>2. runtime[t].folded \subseteq {runtime[t].gen} /\ runtime[t] \in Runtimes
    BY <1>1 DEF SnapshotInv, SnapshotOfOneTurn
  <2>3. /\ DOMAIN f = {"gen", "status", "folded"}
        /\ f.folded \subseteq {f.gen}
    BY <2>1, <2>2 DEF Runtimes
  <2> HIDE DEF f
  <2>4. r.folded \subseteq {r.gen}
    BY <2>3
  <2> HIDE DEF r
  <2> QED BY <1>2, <2>1, <2>4
<1>6. ASSUME NEW t \in Tasks, FinishRuntime(t) PROVE SnapshotOfOneTurn'
  <2> DEFINE r == FinishedRuntime(runtime[t], gateGen[t], outcome[t])
  <2>1. /\ gateGen[t] \in Generations /\ outcome[t] \in Statuses /\ runtime[t] \in Runtimes
        /\ runtime[t].folded \subseteq {runtime[t].gen}
    BY <1>1 DEF SnapshotInv, SnapshotOfOneTurn, TypeInv, TypeOK, Statuses
  <2>2. r.folded \subseteq {r.gen}
    BY <2>1, FinishedRuntimeOutput
  <2>3. runtime' = [runtime EXCEPT ![t] = r]
    BY <1>1, <1>6 DEF FinishRuntime, SetRuntime, snapshots
  <2> HIDE DEF r
  <2> QED BY <1>2, <2>2, <2>3
<1>7. ASSUME NEW t \in Tasks, MarkCancelling(t) PROVE SnapshotOfOneTurn'
  <2> DEFINE r == [runtime[t] EXCEPT !.status = "cancelling"]
  <2>1. r.folded \subseteq {r.gen}
    BY <1>1 DEF Runtimes, SnapshotInv, SnapshotOfOneTurn
  <2>2. runtime' = [runtime EXCEPT ![t] = r] \/ runtime' = runtime
    BY <1>7 DEF MarkCancelling, SetRuntime, snapshots
  <2> HIDE DEF r
  <2> QED BY <1>2, <1>3, <2>1, <2>2
<1>8. ASSUME NEW t \in Tasks, UserStep(t) \/ TurnSucceeds(t) \/ TurnFails(t)
      PROVE  SnapshotOfOneTurn'
  BY <1>3, <1>8 DEF UserStep, Register, RefuseBusy, Guide, RequestStop, TurnSucceeds, TurnFails,
    snapshots
<1>9. ASSUME NEW t \in Tasks, RunnerStep(t) PROVE SnapshotOfOneTurn'
  BY <1>3, <1>4, <1>9
  DEF RunnerStep, BeginTurn, ReturnUncompleted, FinishTeamResume, LookForGuidance, TakeGuidance,
      CloseMailbox, Complete, RunnerReturns, snapshots
<1>10. ASSUME NEW t \in Tasks, CompletionStep(t) \/ StopStep(t) PROVE SnapshotOfOneTurn'
  BY <1>3, <1>6, <1>7, <1>10
  DEF CompletionStep, StopStep, CancelAndReload, Deregister, EmitTerminal, ReadGeneration,
      CancelContext, WatcherSeesDone, GraceElapses, ForceComplete, WatcherReturns, snapshots
<1> QED
  BY <1>3, <1>5, <1>8, <1>9, <1>10 DEF Next, TurnStep, RequestStopAll, vars, snapshots

(* The snapshot of a task holds output of the turn it is the snapshot of    *)
(* and of no earlier one, however many turns and late workers there are.   *)
THEOREM SnapshotOfOneTurnAlways == Spec => []SnapshotOfOneTurn
<1>1. SnapshotInv => SnapshotOfOneTurn
  BY DEF SnapshotInv
<1> QED
  BY <1>1, SnapshotInit, SnapshotNext, PTL DEF Spec

-----------------------------------------------------------------------------
(* Guidance                                                                *)

(* The completion of the task as completed is decided, under way or over.   *)
Completing(t) ==
  \/ verdict[t] = "completed"
  \/ outcome[t] = "completed"
  \/ \E i \in DOMAIN ended[t] : ended[t][i] = "completed"

(* A task that was never stopped is registered and accepts guidance until   *)
(* its runner has closed the mailbox, and is not registered any more once   *)
(* it is going to end as completed.                                        *)
MailboxInv(t) ==
  /\ stop[t] # "none" => stopped[t]
  /\ pc[t] = "idle" =>
       t \notin tasks /\ accepting[t] /\ once[t] = "free" /\ ~stopped[t] /\ ~Completing(t)
  /\ ~stopped[t] /\ pc[t] \in {"launched", "started", "turn", "returned", "between", "guided"} =>
       t \in tasks /\ accepting[t] /\ once[t] = "free"
  /\ ~stopped[t] /\ Completing(t) => guidance[t] = 0 /\ t \notin tasks

GuidanceInv == TypeInv /\ \A t \in Tasks \ TeamResumes : MailboxInv(t)

(* Nothing has been asked of a task that has not started.                  *)
LEMMA GuidanceInit == Init => GuidanceInv
BY TypeInit DEF Init, GuidanceInv, MailboxInv, Completing

(* What is known of one task survives the steps that leave it alone.       *)
LEMMA MailboxUntouched ==
  ASSUME NEW t, MailboxInv(t), pc'[t] = pc[t], verdict'[t] = verdict[t],
         outcome'[t] = outcome[t], ended'[t] = ended[t], accepting'[t] = accepting[t],
         guidance'[t] = guidance[t], once'[t] = once[t], stop'[t] \in {stop[t], "none"},
         stopped'[t] = stopped[t], t \in tasks' <=> t \in tasks
  PROVE  MailboxInv(t)'
BY DEF MailboxInv, Completing

(* Every step of another task leaves this task alone.                      *)
LEMMA MailboxOfOthers ==
  ASSUME TypeOK, NEW u \in Tasks, MailboxInv(u), NEW t \in Tasks, t # u,
         UserStep(t) \/ TurnStep(t) \/ RunnerStep(t) \/ CompletionStep(t) \/ StopStep(t)
  PROVE  MailboxInv(u)'
<1> USE MailboxUntouched
    DEF TypeOK, Goto, Remove, CloseGate, Advance, runner, registry, mailbox, completion, stopping
<1>1. CASE UserStep(t)
  <2>1. CASE Register(t)
    BY <2>1 DEF Register
  <2>2. CASE RefuseBusy(t)
    BY <2>2 DEF RefuseBusy
  <2>3. CASE Guide(t)
    BY <2>3 DEF Guide
  <2>4. CASE RequestStop(t)
    BY <2>4 DEF RequestStop
  <2> QED BY <1>1, <2>1, <2>2, <2>3, <2>4 DEF UserStep
<1>2. CASE TurnStep(t)
  BY <1>2 DEF TurnStep, TurnSucceeds, TurnFails, RecordProgress
<1>3. CASE RunnerStep(t)
  <2>1. CASE StartRuntime(t) \/ BeginTurn(t) \/ StartGuidedRuntime(t)
    BY <2>1 DEF StartRuntime, BeginTurn, StartGuidedRuntime
  <2>2. CASE ReturnUncompleted(t) \/ FinishTeamResume(t) \/ Complete(t) \/ RunnerReturns(t)
    BY <2>2 DEF ReturnUncompleted, FinishTeamResume, Complete, RunnerReturns
  <2>3. CASE LookForGuidance(t) \/ TakeGuidance(t) \/ CloseMailbox(t)
    BY <2>3 DEF LookForGuidance, TakeGuidance, CloseMailbox
  <2> QED BY <1>3, <2>1, <2>2, <2>3 DEF RunnerStep
<1>4. CASE CompletionStep(t)
  BY <1>4 DEF CompletionStep, FinishRuntime, CancelAndReload, Deregister, EmitTerminal
<1>5. CASE StopStep(t)
  <2>1. CASE ReadGeneration(t) \/ MarkCancelling(t) \/ CancelContext(t)
    BY <2>1 DEF ReadGeneration, MarkCancelling, CancelContext
  <2>2. CASE WatcherSeesDone(t) \/ GraceElapses(t) \/ WatcherReturns(t)
    BY <2>2 DEF WatcherSeesDone, GraceElapses, WatcherReturns
  <2>3. CASE ForceComplete(t)
    BY <2>3 DEF ForceComplete
  <2> QED BY <1>5, <2>1, <2>2, <2>3 DEF StopStep
<1> QED BY <1>1, <1>2, <1>3, <1>4, <1>5

(* One step of anybody, seen from one message task.                        *)
LEMMA MailboxNext ==
  ASSUME GuidanceInv, [Next]_vars, NEW u \in Tasks \ TeamResumes
  PROVE  MailboxInv(u)'
<1>1. TypeOK /\ MailboxInv(u)
  BY DEF GuidanceInv, TypeInv
<1>2. CASE UNCHANGED vars
  BY <1>1, <1>2, MailboxUntouched DEF vars, runner, registry, mailbox, completion, stopping
<1>3. CASE RequestStopAll
  BY <1>1, <1>3
  DEF RequestStopAll, MailboxInv, Completing, TypeOK, runner, registry, completion
<1>4. ASSUME NEW t \in Tasks, t # u,
             UserStep(t) \/ TurnStep(t) \/ RunnerStep(t) \/ CompletionStep(t) \/ StopStep(t)
      PROVE  MailboxInv(u)'
  BY <1>1, <1>4, MailboxOfOthers
<1>5. CASE Register(u)
  BY <1>1, <1>5 DEF Register, Goto, MailboxInv, Completing, TypeOK, mailbox, completion, stopping
<1>6. CASE RefuseBusy(u)
  BY <1>1, <1>6
  DEF RefuseBusy, Goto, MailboxInv, Completing, TypeOK, registry, mailbox, completion, stopping
<1>7. CASE Guide(u)
  BY <1>1, <1>7
  DEF Guide, MailboxInv, Completing, TypeOK, runner, registry, completion, stopping
<1>8. CASE RequestStop(u)
  BY <1>1, <1>8 DEF RequestStop, MailboxInv, Completing, TypeOK, runner, registry, completion
<1>9. CASE StartRuntime(u) \/ BeginTurn(u) \/ TurnSucceeds(u) \/ LookForGuidance(u)
             \/ StartGuidedRuntime(u) \/ ReturnUncompleted(u)
  BY <1>1, <1>9
  DEF StartRuntime, BeginTurn, TurnSucceeds, LookForGuidance, StartGuidedRuntime,
      ReturnUncompleted, Goto, MailboxInv, Completing, TypeOK, registry, mailbox, completion,
      stopping
<1>10. CASE TurnFails(u)
  BY <1>1, <1>10
  DEF TurnFails, Goto, MailboxInv, Completing, TypeOK, registry, mailbox, completion, stopping
<1>11. CASE TakeGuidance(u)
  BY <1>1, <1>11
  DEF TakeGuidance, Goto, MailboxInv, Completing, TypeOK, registry, completion, stopping
<1>12. CASE CloseMailbox(u)
  <2>1. ~stopped[u] => guidance[u] = 0
    BY <1>1, <1>12 DEF CloseMailbox, Goto, MailboxInv
  <2> QED
    BY <1>1, <1>12, <2>1
    DEF CloseMailbox, Goto, Remove, MailboxInv, Completing, TypeOK, completion, stopping
<1>13. CASE Complete(u) \/ ForceComplete(u)
  BY <1>1, <1>13
  DEF Complete, ForceComplete, CloseGate, MailboxInv, Completing, TypeOK, runner, registry,
      mailbox, stopping
<1>14. CASE RunnerReturns(u)
  BY <1>1, <1>14
  DEF RunnerReturns, Goto, MailboxInv, Completing, TypeOK, registry, mailbox, completion, stopping
<1>15. CASE FinishRuntime(u) \/ CancelAndReload(u)
  BY <1>1, <1>15
  DEF FinishRuntime, CancelAndReload, Advance, MailboxInv, Completing, TypeOK, runner, registry,
      mailbox, stopping
<1>16. CASE Deregister(u)
  BY <1>1, <1>16
  DEF Deregister, Remove, Advance, MailboxInv, Completing, TypeOK, runner, stopping
<1>17. CASE EmitTerminal(u)
  <2>1. ended'[u] = Append(ended[u], outcome[u]) /\ ended[u] \in Seq(Outcomes)
    BY <1>1, <1>17 DEF EmitTerminal, TypeOK
  <2>2. ASSUME NEW i \in DOMAIN ended'[u], ended'[u][i] = "completed"
        PROVE  Completing(u)
    BY <2>1, <2>2 DEF Completing
  <2>3. Completing(u)' => Completing(u)
    BY <1>17, <2>2 DEF EmitTerminal, Completing, runner
  <2> QED
    BY <1>1, <1>17, <2>3
    DEF EmitTerminal, Advance, MailboxInv, TypeOK, runner, registry, mailbox, stopping
<1>18. ASSUME NEW gen \in 1..(MaxGuidance + 2), RecordProgress(u, gen) PROVE MailboxInv(u)'
  BY <1>1, <1>18, MailboxUntouched
  DEF RecordProgress, runner, registry, mailbox, completion, stopping
<1>19. CASE StopStep(u) /\ ~ForceComplete(u)
  BY <1>1, <1>19
  DEF StopStep, ReadGeneration, MarkCancelling, CancelContext, WatcherSeesDone, GraceElapses,
      WatcherReturns, MailboxInv, Completing, TypeOK, runner, registry, mailbox, completion
<1>20. ~FinishTeamResume(u)
  BY DEF FinishTeamResume
<1> QED
  BY <1>2, <1>3, <1>4, <1>5, <1>6, <1>7, <1>8, <1>9, <1>10, <1>11, <1>12, <1>13, <1>14, <1>15,
     <1>16, <1>17, <1>18, <1>19, <1>20
  DEF Next, UserStep, TurnStep, RunnerStep, CompletionStep

(* The same for all message tasks at once.                                 *)
LEMMA GuidanceNext == GuidanceInv /\ [Next]_vars => GuidanceInv'
BY MailboxNext, TypeNext DEF GuidanceInv

(* A message task that was not stopped completes with an empty mailbox: no  *)
(* guidance it accepted is left without a turn.                            *)
THEOREM GuidanceAnsweredAlways == Spec => []GuidanceAnswered
<1>1. GuidanceInv => GuidanceAnswered
  BY DEF GuidanceInv, MailboxInv, Completing, GuidanceAnswered
<1> QED
  BY <1>1, GuidanceInit, GuidanceNext, PTL DEF Spec

-----------------------------------------------------------------------------
(* The terminal event and the snapshot                                     *)

(* Until the gate is closed the snapshot is open and nothing is emitted;    *)
(* then it waits for its terminal status under the generation the gate was  *)
(* closed with; then it has the status that is emitted once.               *)
GateInv(t) ==
  /\ once[t] \in {"free", "gated"} => ~TerminalStatus(runtime[t])
  /\ once[t] = "gated" => gateGen[t] # 0 /\ gateGen[t] = runtime[t].gen
  /\ once[t] \in {"finished", "reloaded", "removed", "fired"} => runtime[t].status = outcome[t]
  /\ ended[t] = IF once[t] = "fired" THEN <<outcome[t]>> ELSE <<>>

(* The application knows the generation of the snapshot except while a turn *)
(* is being set up; a task that can be stopped and whose runner has left    *)
(* the setup has one.                                                      *)
GenerationKnown(t) ==
  /\ pc[t] # "started" => generation[t] = runtime[t].gen
  /\ pc[t] \in {"started", "turn", "returned", "between", "guided", "ending"} => runtime[t].gen # 0
  /\ pc[t] = "idle" => t \notin tasks /\ stop[t] = "none"
  /\ pc[t] = "gone" /\ runtime[t].gen = 0 => t \notin tasks /\ stop[t] = "none"

(* A task is completed by force or by its runner only when no turn of it is *)
(* going to be set up.                                                     *)
NoTurnAhead(t) ==
  /\ stop[t] \in {"grace", "forcing"} => ctxDone[t]
  /\ stop[t] = "forcing" \/ once[t] # "free" => pc[t] \in {"turn", "returned", "ending", "gone"}
  /\ once[t] # "free" => ctxDone[t] \/ pc[t] \in {"ending", "gone"}

FinalInv == TypeInv /\ \A t \in Tasks : GateInv(t) /\ GenerationKnown(t) /\ NoTurnAhead(t)

(* Nothing has begun.                                                      *)
LEMMA FinalInit == Init => FinalInv
BY TypeInit
DEF Init, FinalInv, GateInv, GenerationKnown, NoTurnAhead, TerminalStatus, NoRuntime, Outcomes

(* What is known of a task survives the steps that leave it alone.         *)
LEMMA FinalUntouched ==
  ASSUME NEW t, GateInv(t), GenerationKnown(t), NoTurnAhead(t),
         pc'[t] = pc[t], ctxDone'[t] = ctxDone[t], generation'[t] = generation[t],
         runtime'[t] = runtime[t], once'[t] = once[t], gateGen'[t] = gateGen[t],
         outcome'[t] = outcome[t], ended'[t] = ended[t],
         t \in tasks' => t \in tasks,
         stop'[t] = stop[t] \/ (t \in tasks /\ stop[t] = "none" /\ stop'[t] = "reading")
  PROVE  GateInv(t)' /\ GenerationKnown(t)' /\ NoTurnAhead(t)'
BY DEF GateInv, GenerationKnown, NoTurnAhead, TerminalStatus

(* Every step of another task leaves this task alone.                      *)
LEMMA FinalOfOthers ==
  ASSUME TypeOK, NEW u \in Tasks, GateInv(u), GenerationKnown(u), NoTurnAhead(u),
         NEW t \in Tasks, t # u,
         UserStep(t) \/ TurnStep(t) \/ RunnerStep(t) \/ CompletionStep(t) \/ StopStep(t)
  PROVE  GateInv(u)' /\ GenerationKnown(u)' /\ NoTurnAhead(u)'
<1> USE FinalUntouched
    DEF TypeOK, Goto, Remove, CloseGate, Advance, runner, registry, mailbox, snapshots, completion,
        stopping
<1>0. ASSUME NEW r, SetRuntime(t, r) PROVE runtime'[u] = runtime[u]
  BY <1>0 DEF SetRuntime
<1>1. CASE UserStep(t)
  BY <1>1 DEF UserStep, Register, RefuseBusy, Guide, RequestStop
<1>2. CASE TurnSucceeds(t) \/ TurnFails(t)
  BY <1>2 DEF TurnSucceeds, TurnFails
<1>3. ASSUME NEW gen \in 1..(MaxGuidance + 2), RecordProgress(t, gen)
      PROVE  GateInv(u)' /\ GenerationKnown(u)' /\ NoTurnAhead(u)'
  <2>1. runtime'[u] = runtime[u]
    BY <1>0, <1>3 DEF RecordProgress
  <2>2. UNCHANGED <<runner, ctxDone, registry, generation, completion, stopping>>
    BY <1>3 DEF RecordProgress
  <2> QED BY <2>1, <2>2
<1>4. CASE StartRuntime(t) \/ StartGuidedRuntime(t)
  <2>1. runtime'[u] = runtime[u]
    BY <1>0, <1>4 DEF StartRuntime, StartGuidedRuntime
  <2> QED BY <1>4, <2>1 DEF StartRuntime, StartGuidedRuntime
<1>5. CASE BeginTurn(t) \/ ReturnUncompleted(t) \/ FinishTeamResume(t) \/ LookForGuidance(t)
             \/ TakeGuidance(t)
  BY <1>5 DEF BeginTurn, ReturnUncompleted, FinishTeamResume, LookForGuidance, TakeGuidance
<1>6. CASE CloseMailbox(t) \/ Complete(t) \/ RunnerReturns(t)
  BY <1>6 DEF CloseMailbox, Complete, RunnerReturns
<1>7. CASE FinishRuntime(t)
  <2>1. runtime'[u] = runtime[u]
    BY <1>0, <1>7 DEF FinishRuntime
  <2>2. UNCHANGED <<runner, ctxDone, registry, generation, outcome, ended, stopping>>
        /\ once'[u] = once[u] /\ gateGen'[u] = gateGen[u]
    BY <1>7 DEF FinishRuntime
  <2> QED BY <2>1, <2>2
<1>8. CASE CancelAndReload(t) \/ Deregister(t) \/ EmitTerminal(t)
  BY <1>8 DEF CancelAndReload, Deregister, EmitTerminal
<1>9. CASE MarkCancelling(t)
  <2>1. runtime'[u] = runtime[u]
    BY <1>0, <1>9 DEF MarkCancelling
  <2>2. UNCHANGED <<runner, ctxDone, registry, generation, completion>> /\ stop'[u] = stop[u]
    BY <1>9 DEF MarkCancelling
  <2> QED BY <2>1, <2>2
<1>10. CASE ReadGeneration(t) \/ CancelContext(t) \/ WatcherSeesDone(t)
  BY <1>10 DEF ReadGeneration, CancelContext, WatcherSeesDone
<1>11. CASE GraceElapses(t) \/ WatcherReturns(t)
  BY <1>11 DEF GraceElapses, WatcherReturns
<1>12. CASE ForceComplete(t)
  BY <1>12 DEF ForceComplete
<1> QED
  BY <1>1, <1>2, <1>3, <1>4, <1>5, <1>6, <1>7, <1>8, <1>9, <1>10, <1>11, <1>12
  DEF UserStep, TurnStep, RunnerStep, CompletionStep, StopStep

(* A live status keeps a snapshot open, and its generation.                *)
LEMMA LiveRuntime ==
  ASSUME NEW r, DOMAIN r = {"gen", "status", "folded"}, NEW status, status \notin Outcomes
  PROVE  /\ ~TerminalStatus([r EXCEPT !.status = status])
         /\ [r EXCEPT !.status = status].gen = r.gen
BY DEF TerminalStatus

(* One step of anybody, seen from one task, if the grace period of a stop   *)
(* outlasts the runner's own steps.                                        *)
LEMMA FinalNext ==
  ASSUME PromptRunner, FinalInv, [Next]_vars, NEW u \in Tasks
  PROVE  GateInv(u)' /\ GenerationKnown(u)' /\ NoTurnAhead(u)'
<1>1. /\ TypeOK /\ GateInv(u) /\ GenerationKnown(u) /\ NoTurnAhead(u)
      /\ pc[u] = "ending" => verdict[u] \in Outcomes
      /\ once[u] # "free" => outcome[u] \in Outcomes
      /\ pc[u] \in {"idle", "launched"} => runtime[u].gen <= 1
  BY DEF FinalInv, TypeInv, OutcomeKnown, GenerationBound
<1>r. runtime[u] \in Runtimes /\ runtime[u].gen \in Nat /\ runtime \in [Tasks -> Runtimes]
  BY <1>1, BoundsAssumption DEF TypeOK, Runtimes, Generations
<1>2. CASE UNCHANGED vars
  BY <1>1, <1>2, FinalUntouched DEF vars, runner, registry, mailbox, snapshots, completion, stopping
<1>3. CASE RequestStopAll
  BY <1>1, <1>3, FinalUntouched DEF RequestStopAll, runner, registry, snapshots, completion, TypeOK
<1>4. ASSUME NEW t \in Tasks, t # u,
             UserStep(t) \/ TurnStep(t) \/ RunnerStep(t) \/ CompletionStep(t) \/ StopStep(t)
      PROVE  GateInv(u)' /\ GenerationKnown(u)' /\ NoTurnAhead(u)'
  BY <1>1, <1>4, FinalOfOthers
<1>5. CASE Register(u) \/ RefuseBusy(u) \/ Guide(u) \/ RequestStop(u)
  BY <1>1, <1>5
  DEF Register, RefuseBusy, Guide, RequestStop, Goto, GateInv, GenerationKnown, NoTurnAhead,
      TerminalStatus, TypeOK, runner, registry, mailbox, snapshots, completion, stopping
<1>6. CASE StartRuntime(u) \/ StartGuidedRuntime(u)
  <2>1. /\ runtime' = [runtime EXCEPT ![u] = FreshRuntime(runtime[u])]
        /\ pc[u] \in {"launched", "guided"} /\ pc' = [pc EXCEPT ![u] = "started"]
        /\ UNCHANGED <<verdict, sinks, ctxDone, registry, mailbox, generation, completion, stopping>>
    BY <1>6 DEF StartRuntime, StartGuidedRuntime, SetRuntime, Goto
  <2>2. pc'[u] = "started" /\ runtime'[u] = FreshRuntime(runtime[u])
    BY <1>1, <1>r, <2>1 DEF TypeOK
  <2>3. ~TerminalStatus(FreshRuntime(runtime[u])) /\ FreshRuntime(runtime[u]).gen = runtime[u].gen + 1
    BY DEF FreshRuntime, TerminalStatus, Outcomes
  <2> QED
    BY <1>1, <1>r, <2>1, <2>2, <2>3
    DEF GateInv, GenerationKnown, NoTurnAhead, TerminalStatus, registry, mailbox, completion, stopping
<1>7. CASE BeginTurn(u) \/ TurnSucceeds(u) \/ TurnFails(u) \/ ReturnUncompleted(u)
             \/ FinishTeamResume(u) \/ LookForGuidance(u) \/ TakeGuidance(u) \/ RunnerReturns(u)
  BY <1>1, <1>7
  DEF BeginTurn, TurnSucceeds, TurnFails, ReturnUncompleted, FinishTeamResume, LookForGuidance,
      TakeGuidance, RunnerReturns, Goto, GateInv, GenerationKnown, NoTurnAhead, TerminalStatus,
      TypeOK, registry, mailbox, snapshots, completion, stopping
<1>8. CASE CloseMailbox(u)
  BY <1>1, <1>8
  DEF CloseMailbox, Remove, Goto, GateInv, GenerationKnown, NoTurnAhead, TerminalStatus, TypeOK,
      snapshots, completion, stopping
<1>9. CASE Complete(u) \/ ForceComplete(u)
  BY <1>1, <1>9
  DEF Complete, ForceComplete, CloseGate, GateInv, GenerationKnown, NoTurnAhead, TerminalStatus,
      TypeOK, runner, registry, mailbox, snapshots, stopping
<1>10. ASSUME NEW gen \in 1..(MaxGuidance + 2), RecordProgress(u, gen)
       PROVE  GateInv(u)' /\ GenerationKnown(u)' /\ NoTurnAhead(u)'
  <2> DEFINE f == [runtime[u] EXCEPT !.folded = @ \cup {gen}]
             r == [f EXCEPT !.status = "running"]
  <2>1. runtime' = [runtime EXCEPT ![u] = r] /\ once[u] = "free"
        /\ UNCHANGED <<runner, ctxDone, registry, mailbox, generation, completion, stopping>>
    BY <1>10 DEF RecordProgress, SetRuntime
  <2>2. DOMAIN f = {"gen", "status", "folded"} /\ f.gen = runtime[u].gen
    BY <1>r DEF Runtimes
  <2> HIDE DEF f
  <2>3. ~TerminalStatus(r) /\ r.gen = runtime[u].gen
    BY <2>2, LiveRuntime DEF Outcomes
  <2> HIDE DEF r
  <2>4. runtime'[u] = r
    BY <1>r, <2>1
  <2> QED
    BY <1>1, <2>1, <2>3, <2>4
    DEF GateInv, GenerationKnown, NoTurnAhead, runner, registry, mailbox, completion, stopping
<1>11. CASE MarkCancelling(u)
  <2> DEFINE r == [runtime[u] EXCEPT !.status = "cancelling"]
  <2>1. /\ runtime'[u] = runtime[u] \/ (runtime'[u] = r /\ ~TerminalStatus(runtime[u]))
        /\ stop[u] = "marking" /\ stop' = [stop EXCEPT ![u] = "cancelling"]
        /\ UNCHANGED <<runner, ctxDone, registry, mailbox, generation, completion, enforced, stopped>>
    BY <1>r, <1>11 DEF MarkCancelling, SetRuntime, CanMarkCancelling, snapshots
  <2>2. ~TerminalStatus(r) /\ r.gen = runtime[u].gen
    <3>1. DOMAIN runtime[u] = {"gen", "status", "folded"}
      BY <1>r DEF Runtimes
    <3> QED BY <3>1, LiveRuntime DEF Outcomes
  <2> HIDE DEF r
  <2>3. once[u] \in {"finished", "reloaded", "removed", "fired"} => TerminalStatus(runtime[u])
    BY <1>1 DEF GateInv, TerminalStatus
  <2>4. stop'[u] = "cancelling"
    BY <1>1, <2>1 DEF TypeOK
  <2>5. /\ once'[u] = once[u] /\ gateGen'[u] = gateGen[u] /\ outcome'[u] = outcome[u]
        /\ ended'[u] = ended[u] /\ pc'[u] = pc[u] /\ tasks' = tasks /\ ctxDone' = ctxDone
        /\ generation' = generation
    BY <2>1 DEF runner, registry, completion
  <2>6. once[u] \in {"free", "gated", "finished", "reloaded", "removed", "fired"}
    BY <1>1 DEF TypeOK
  <2>7. CASE runtime'[u] = runtime[u]
    BY <1>1, <2>1, <2>4, <2>5, <2>7 DEF GateInv, GenerationKnown, NoTurnAhead, TerminalStatus
  <2>8. CASE runtime'[u] = r /\ ~TerminalStatus(runtime[u])
    BY <1>1, <2>1, <2>2, <2>3, <2>4, <2>5, <2>6, <2>8 DEF GateInv, GenerationKnown, NoTurnAhead
  <2> QED BY <2>1, <2>7, <2>8
<1>12. CASE FinishRuntime(u)
  <2> DEFINE r == [runtime[u] EXCEPT !.status = outcome[u]]
  <2>1. once[u] = "gated" /\ once' = [once EXCEPT ![u] = "finished"] /\ outcome[u] \in Outcomes
        /\ UNCHANGED <<runner, ctxDone, registry, mailbox, generation, outcome, ended, stopping>>
    BY <1>1, <1>12 DEF FinishRuntime, Advance
  <2>2. FinishedRuntime(runtime[u], gateGen[u], outcome[u]) = r
    BY <1>1, <2>1 DEF FinishedRuntime, GateInv, GenerationMatches
  <2>3. runtime'[u] = r
    BY <1>r, <1>12, <2>2 DEF FinishRuntime, SetRuntime, snapshots
  <2>4. r.status = outcome[u] /\ r.gen = runtime[u].gen
    BY <1>r DEF Runtimes
  <2> HIDE DEF r
  <2> QED
    BY <1>1, <2>1, <2>3, <2>4
    DEF GateInv, GenerationKnown, NoTurnAhead, TypeOK, runner, registry, mailbox, stopping
<1>13. CASE CancelAndReload(u)
  BY <1>1, <1>13
  DEF CancelAndReload, Advance, GateInv, GenerationKnown, NoTurnAhead, TerminalStatus, TypeOK,
      runner, registry, mailbox, snapshots, stopping
<1>14. CASE Deregister(u)
  BY <1>1, <1>14
  DEF Deregister, Remove, Advance, GateInv, GenerationKnown, NoTurnAhead, TerminalStatus, TypeOK,
      runner, snapshots, stopping
<1>15. CASE EmitTerminal(u)
  <2>1. /\ once[u] = "removed" /\ once' = [once EXCEPT ![u] = "fired"]
        /\ ended' = [ended EXCEPT ![u] = Append(ended[u], outcome[u])]
        /\ UNCHANGED <<runner, ctxDone, registry, mailbox, generation, snapshots, gateGen, outcome, stopping>>
    BY <1>15 DEF EmitTerminal, Advance
  <2>2. ended[u] = <<>> /\ ended'[u] = Append(ended[u], outcome[u])
    BY <1>1, <2>1 DEF GateInv, TypeOK
  <2>3. ended'[u] = <<outcome[u]>>
    BY <2>2
  <2> QED
    BY <1>1, <2>1, <2>3
    DEF GateInv, GenerationKnown, NoTurnAhead, TerminalStatus, TypeOK, runner, registry, mailbox,
        snapshots, stopping
<1>16. CASE ReadGeneration(u) \/ CancelContext(u) \/ WatcherSeesDone(u) \/ GraceElapses(u)
             \/ WatcherReturns(u)
  BY <1>1, <1>16
  DEF ReadGeneration, CancelContext, WatcherSeesDone, GraceElapses, WatcherReturns, GateInv,
      GenerationKnown, NoTurnAhead, TerminalStatus, TypeOK, runner, registry, mailbox, snapshots,
      completion
<1> QED
  BY <1>2, <1>3, <1>4, <1>5, <1>6, <1>7, <1>8, <1>9, <1>10, <1>11, <1>12, <1>13, <1>14, <1>15, <1>16
  DEF Next, UserStep, TurnStep, RunnerStep, CompletionStep, StopStep

(* A task emits one terminal event and its snapshot says the same for ever, *)
(* whoever completes it, if the grace period of a stop does not elapse      *)
(* between two of the runner's own steps (terminalOnce and the generation   *)
(* of finishTaskRuntimeLocked).                                            *)
THEOREM FinalStatusAlways ==
  ASSUME PromptRunner
  PROVE  Spec => []FinalStatus
<1>1. FinalInv => FinalStatus
  BY DEF FinalInv, GateInv, FinalStatus
<1>2. FinalInv /\ [Next]_vars => FinalInv'
  BY FinalNext, TypeNext DEF FinalInv
<1> QED
  BY <1>1, <1>2, FinalInit, PTL DEF Spec

=============================================================================
