-------------------------------- MODULE ToolLoop --------------------------------
(***************************************************************************)
(* The tool loop of one turn (runToolLoopWithCompletionState, tool_loop.go) *)
(* with its guard and the failure strategy (failure_strategy.go): the      *)
(* model is asked again and again, its tool calls are executed one after   *)
(* the other, and a number of one-time recoveries deal with endpoints that *)
(* reject a field, empty answers, workers whose results nobody has         *)
(* collected, and calls that fail again and again.                         *)
(*                                                                         *)
(* What the model answers, and how a tool ends, is any choice at any time. *)
(* Records of failures start empty; what earlier turns leave in them,      *)
(* their ageing, and failures that say they were cancelled are left out.   *)
(***************************************************************************)
EXTENDS Naturals, Sequences, FiniteSets

CONSTANTS
  Strategies,  \* what toolFailureStrategyKey tells apart among ordinary calls
  MaxCalls,    \* bound: tool calls in one answer of the model
  MaxRounds    \* bound: answers with tool calls

VARIABLES
  pc,               \* "ask": complete is called next; "round": calls are executed
  outcome,
  toolsDisabled, synthesisOnly, forceSubstantiveTool, requiredToolChoiceUnsupported,
  parallelToolCalls, visualVerificationRequested, subagentFinalizationPrompted,
  emptyCompletionStage,
  executed,         \* executed > 0
  records,          \* guard.failureStrategy.Records
  blockedFailures,  \* guard.blockedFailures
  forceFinalResponse,
  calls,            \* tool calls of the answer that are still to be executed
  substantive,      \* roundHasSubstantiveTool
  rounds,           \* rounds the cycle guard has seen
  worker,           \* a delegated worker: hasUncollectedSubagents unless "none"
  visual,           \* pendingVisualArtifactsForCurrentTurn is not empty
  unanswered,       \* history: the transcript holds a tool call without a result
  tries,            \* history: failed executions since anything changed
  asked             \* history: parity of the answers since tools are disabled

guard == <<records, blockedFailures, forceFinalResponse>>
once == <<synthesisOnly, requiredToolChoiceUnsupported, parallelToolCalls,
          visualVerificationRequested, subagentFinalizationPrompted>>
world == <<worker, visual, unanswered, tries>>
vars == <<pc, outcome, toolsDisabled, forceSubstantiveTool, emptyCompletionStage, executed,
          guard, once, calls, substantive, rounds, world, asked>>

Errors == {"parallel", "required", "tools", "other"}
(* Tools the guard does not look at before they run.                       *)
Unguarded == {"update_plan", "delegate_task", "await_subagents"}
(* Calls whose failures the model follows.                                 *)
Failing == Strategies \cup {"await_subagents"}
Tools == Strategies \cup Unguarded
NoRecord == [attempts |-> 0, retryable |-> FALSE]

Init ==
  /\ pc = "ask" /\ outcome = "none" /\ toolsDisabled = FALSE /\ forceSubstantiveTool = FALSE
  /\ emptyCompletionStage = 0 /\ executed = FALSE
  /\ records = [t \in Failing |-> NoRecord] /\ blockedFailures = [s \in Strategies |-> 0]
  /\ forceFinalResponse = FALSE
  /\ synthesisOnly = FALSE /\ requiredToolChoiceUnsupported = FALSE /\ parallelToolCalls = TRUE
  /\ visualVerificationRequested = FALSE /\ subagentFinalizationPrompted = FALSE
  /\ calls = <<>> /\ substantive = FALSE /\ rounds = 0
  /\ worker = "none" /\ visual = FALSE /\ unanswered = FALSE
  /\ tries = [s \in Strategies |-> 0] /\ asked = FALSE

TypeOK ==
  /\ pc \in {"ask", "round"} /\ outcome \in {"none", "completed", "failed", "cancelled"}
  /\ {toolsDisabled, forceSubstantiveTool, executed, forceFinalResponse, synthesisOnly,
      requiredToolChoiceUnsupported, parallelToolCalls, visualVerificationRequested,
      subagentFinalizationPrompted, substantive, visual, unanswered, asked} \subseteq BOOLEAN
  /\ emptyCompletionStage \in 0..3 /\ rounds \in 0..MaxRounds
  /\ records \in [Failing -> [attempts : 0..3, retryable : BOOLEAN]]
  /\ blockedFailures \in [Strategies -> 0..2] /\ tries \in [Strategies -> 0..3]
  /\ calls \in Seq(Tools) /\ Len(calls) <= MaxCalls
  /\ worker \in {"none", "busy", "ended"}

(* Counters stop at three; nothing tells larger values apart.              *)
Up(n) == IF n = 3 THEN 3 ELSE n + 1
HasUncollected == worker # "none"
Asking == pc = "ask" /\ outcome = "none"
(* The model has answered.  Answers that change nothing are steps as well.  *)
Answers == Asking /\ asked' = IF toolsDisabled THEN ~asked ELSE asked

----------------------------------------------------------------------------
(* Errors of complete, after the retries of a connection that was lost     *)
(* behind executed tools; those repeat the same request.                   *)

Required == forceSubstantiveTool /\ ~requiredToolChoiceUnsupported /\ ~toolsDisabled

Recoverable(e) ==
  \/ e = "parallel" /\ parallelToolCalls
  \/ e = "required" /\ Required
  \/ e = "tools" /\ ~toolsDisabled /\ ~executed

Rejected(e) ==
  /\ Answers
  /\ parallelToolCalls' = (parallelToolCalls /\ e # "parallel")
  /\ requiredToolChoiceUnsupported' = (requiredToolChoiceUnsupported \/ (e = "required" /\ Required))
  /\ toolsDisabled' = (toolsDisabled \/ (e = "tools" /\ ~executed))
  /\ outcome' = IF Recoverable(e) THEN outcome ELSE "failed"
  /\ UNCHANGED <<pc, forceSubstantiveTool, emptyCompletionStage, executed, guard, synthesisOnly,
                 visualVerificationRequested, subagentFinalizationPrompted, calls, substantive,
                 rounds, world>>

----------------------------------------------------------------------------
(* Answers without tool calls.                                             *)

(* The wait of a forced await_subagents is over when the worker has ended  *)
(* or the time of the tool is; only then is the loop asked again.          *)
AwaitWorker ==
  worker' = IF worker = "ended" THEN "none" ELSE worker

(* Workers are pointed out once, then awaited at every further answer.     *)
CollectFirst ==
  /\ Answers /\ HasUncollected
  /\ subagentFinalizationPrompted' = TRUE
  /\ IF subagentFinalizationPrompted
     THEN AwaitWorker /\ executed' = TRUE
     ELSE UNCHANGED <<worker, executed>>
  /\ UNCHANGED <<pc, outcome, toolsDisabled, forceSubstantiveTool, emptyCompletionStage, guard,
                 synthesisOnly, requiredToolChoiceUnsupported, parallelToolCalls,
                 visualVerificationRequested, calls, substantive, rounds, visual, unanswered, tries>>

MustVerify == visual /\ ~visualVerificationRequested /\ ~toolsDisabled

AskToVerify ==
  /\ Answers /\ ~HasUncollected /\ MustVerify
  /\ visualVerificationRequested' = TRUE
  /\ UNCHANGED <<pc, outcome, toolsDisabled, forceSubstantiveTool, emptyCompletionStage, executed,
                 guard, synthesisOnly, requiredToolChoiceUnsupported, parallelToolCalls,
                 subagentFinalizationPrompted, calls, substantive, rounds, world>>

Finals == Answers /\ ~HasUncollected /\ ~MustVerify

FinalAnswer ==
  /\ Finals
  /\ outcome' = "completed"
  /\ UNCHANGED <<pc, toolsDisabled, forceSubstantiveTool, emptyCompletionStage, executed, guard,
                 once, calls, substantive, rounds, world>>

(* Not the code: synthesis is asked for whenever the answer is empty.      *)
MayRecoverAgain == executed

(* An empty answer after tools have run is asked for again: once for a     *)
(* synthesis when tools are disabled, otherwise up to three times, with a  *)
(* required tool call from the second on.                                  *)
MayRecover == executed /\ IF toolsDisabled THEN ~synthesisOnly ELSE emptyCompletionStage < 3

EmptyAnswer ==
  /\ Finals
  /\ outcome' = IF MayRecover THEN outcome ELSE "failed"
  /\ synthesisOnly' = (synthesisOnly \/ (toolsDisabled /\ MayRecover))
  /\ emptyCompletionStage' = IF toolsDisabled THEN emptyCompletionStage
                             ELSE Up(emptyCompletionStage)
  /\ forceSubstantiveTool' =
       (forceSubstantiveTool \/ (~toolsDisabled /\ emptyCompletionStage' >= 2))
  /\ UNCHANGED <<pc, toolsDisabled, executed, guard, requiredToolChoiceUnsupported,
                 parallelToolCalls, visualVerificationRequested, subagentFinalizationPrompted,
                 calls, substantive, rounds, world>>

----------------------------------------------------------------------------
(* Answers with tool calls.                                                *)

(* Tools are disabled and the model calls some nevertheless: what there is *)
(* of a synthesis is taken; otherwise the turn has failed.                 *)
IgnoresDisabledTools(content) ==
  /\ Answers /\ toolsDisabled
  /\ outcome' = IF synthesisOnly /\ content THEN "completed" ELSE "failed"
  /\ IF ~synthesisOnly /\ HasUncollected THEN AwaitWorker ELSE UNCHANGED worker
  /\ UNCHANGED <<pc, toolsDisabled, forceSubstantiveTool, emptyCompletionStage, executed, guard,
                 once, calls, substantive, rounds, visual, unanswered, tries>>

Round(round) ==
  /\ Answers /\ ~toolsDisabled /\ rounds < MaxRounds
  /\ pc' = "round" /\ calls' = round /\ substantive' = FALSE
  /\ UNCHANGED <<outcome, toolsDisabled, forceSubstantiveTool, emptyCompletionStage, executed,
                 guard, once, rounds, world>>

(* What every executed, blocked or skipped call does to the loop.  When    *)
(* the guard has had enough, the rest of the round is not executed; the    *)
(* answer with all its calls is in the transcript already.                 *)
Answered(hidden) ==
  /\ executed' = (executed \/ ~hidden)
  /\ substantive' = (substantive \/ ~hidden)
  /\ calls' = IF forceFinalResponse' THEN <<>> ELSE Tail(calls)
  /\ unanswered' = (unanswered \/ (forceFinalResponse' /\ Tail(calls) # <<>>))
  /\ toolsDisabled' = (toolsDisabled \/ forceFinalResponse')
  /\ UNCHANGED <<pc, outcome, forceSubstantiveTool, emptyCompletionStage, once, rounds, asked>>

Turn(t) == pc = "round" /\ outcome = "none" /\ calls # <<>> /\ Head(calls) = t

(* Not the code: a failure that counts as retryable is never blocked.      *)
BlockedNonRetryable(t) ==
  t \in Strategies /\ records[t].attempts >= 1 /\ ~records[t].retryable

(* equivalentFailure, asked by the guard.                                  *)
Blocked(t) ==
  /\ t \in Strategies
  /\ records[t].attempts >= IF records[t].retryable THEN 2 ELSE 1

Block(t) ==
  /\ Turn(t) /\ Blocked(t)
  /\ blockedFailures' = [blockedFailures EXCEPT ![t] = @ + 1]
  /\ forceFinalResponse' = (forceFinalResponse \/ blockedFailures'[t] >= 2)
  /\ Answered(FALSE)
  /\ UNCHANGED <<records, worker, visual, tries>>

(* The guard answers for the tool: a repeated plan or connection test is    *)
(* hidden and does not count, a repeated search or a browser that does not  *)
(* start counts.  Which calls these are is left open.                       *)
Skip(t, hidden) ==
  /\ Turn(t) /\ ~Blocked(t) /\ t \in Strategies \cup {"update_plan"}
  /\ t = "update_plan" => hidden
  /\ UNCHANGED <<guard, worker, visual, tries>>
  /\ Answered(hidden)

Runs(t) == Turn(t) /\ ~Blocked(t)

(* observeFailure.                                                         *)
Fails(t, retryable) ==
  /\ Runs(t) /\ t \in Failing
  /\ t = "await_subagents" => retryable /\ worker = "busy"
  /\ records' = [records EXCEPT ![t] = [attempts |-> Up(@.attempts), retryable |-> retryable]]
  /\ forceFinalResponse' = (forceFinalResponse \/ (retryable /\ records'[t].attempts >= 3))
  /\ tries' = [s \in Strategies |-> IF s = t THEN Up(tries[s]) ELSE tries[s]]
  /\ Answered(FALSE)
  /\ UNCHANGED <<blockedFailures, worker, visual>>

(* observeSuccess: a success takes back the failures of its strategy, a    *)
(* change of the conditions (files, plan) those of all.                    *)
Succeeds(t, changes) ==
  /\ Runs(t) /\ (changes => t \in Strategies)
  /\ t = "delegate_task" => worker = "none"
  /\ records' = [s \in Failing |-> IF changes \/ s = t THEN NoRecord ELSE records[s]]
  /\ tries' = [s \in Strategies |-> IF changes \/ s = t THEN 0 ELSE tries[s]]
  /\ worker' = CASE t = "delegate_task" -> "busy"
                 [] t = "await_subagents" /\ worker = "ended" -> "none"
                 [] OTHER -> worker
  /\ visual' \in (IF t \in Strategies /\ changes THEN BOOLEAN ELSE {visual})
  /\ UNCHANGED <<blockedFailures, forceFinalResponse>>
  /\ Answered(t = "update_plan")

(* The cycle guard compares the last nine rounds; from the third on a      *)
(* round may turn out to repeat.                                           *)
EndRound(stalled) ==
  /\ pc = "round" /\ outcome = "none" /\ calls = <<>>
  /\ pc' = "ask" /\ substantive' = FALSE /\ rounds' = rounds + 1
  /\ stalled => rounds' >= 3
  /\ toolsDisabled' = (toolsDisabled \/ stalled)
  /\ emptyCompletionStage' = IF substantive THEN 0 ELSE emptyCompletionStage
  /\ forceSubstantiveTool' = IF substantive THEN FALSE
                             ELSE forceSubstantiveTool \/ emptyCompletionStage > 0
  /\ UNCHANGED <<outcome, executed, guard, once, calls, world, asked>>

----------------------------------------------------------------------------
(* The task is stopped: noticed before an answer and around every call.    *)
Cancel ==
  /\ outcome = "none"
  /\ outcome' = "cancelled"
  /\ UNCHANGED <<pc, toolsDisabled, forceSubstantiveTool, emptyCompletionStage, executed, guard,
                 once, calls, substantive, rounds, world, asked>>

WorkerEnds ==
  /\ worker = "busy" /\ outcome = "none"
  /\ worker' = "ended"
  /\ UNCHANGED <<pc, outcome, toolsDisabled, forceSubstantiveTool, emptyCompletionStage, executed,
                 guard, once, calls, substantive, rounds, visual, unanswered, tries,
                 asked>>

Rounds == UNION {[1..n -> Tools] : n \in 1..MaxCalls}

Answer ==
  \/ \E e \in Errors : Rejected(e)
  \/ CollectFirst \/ AskToVerify \/ FinalAnswer \/ EmptyAnswer
  \/ \E content \in BOOLEAN : IgnoresDisabledTools(content)
  \/ \E round \in Rounds : Round(round)

Call(t) ==
  \/ Block(t)
  \/ \E b \in BOOLEAN : Skip(t, b) \/ Fails(t, b) \/ Succeeds(t, b)

Loop == Answer \/ (\E t \in Tools : Call(t)) \/ \E b \in BOOLEAN : EndRound(b)

Next == Loop \/ WorkerEnds \/ Cancel

Spec == Init /\ [][Next]_vars

(* Providers answer or fail, tools return (their watchdog sees to it), and *)
(* so do workers.                                                          *)
Fairness == WF_vars(Loop) /\ WF_vars(WorkerEnds)
FairSpec == Spec /\ Fairness

----------------------------------------------------------------------------
(* Once tools are disabled the loop ends, whatever the model answers: each  *)
(* of the recoveries that remain can be used a bounded number of times.    *)
DisabledEnds == toolsDisabled ~> outcome # "none"

(* A call that has failed is not executed again and again: twice when the  *)
(* failure may pass, unless something has changed since.                   *)
NoBlindRetry == \A s \in Strategies : tries[s] <= 2

(* The model is never asked with a transcript that holds a tool call       *)
(* without a result (openhands-sdk-adoption-plan.zh-CN.md:23, :95).        *)
EveryCallAnswered == Asking => ~unanswered
=============================================================================
