------------------------------- MODULE TurnProofs --------------------------------
(***************************************************************************)
(* Proofs about the model calls and the tool calls of one turn: the        *)
(* failure strategy of the tool loop and the candidates of its provider,   *)
(* each carried over to the composition it is a part of.                   *)
(***************************************************************************)
EXTENDS Services, Sequences, FiniteSetTheorems, TLAPS

-----------------------------------------------------------------------------
(* The failure strategy, for any number of strategies, calls and rounds     *)

Record == [attempts : 0..3, retryable : BOOLEAN]

(* What the failure strategy has recorded is how often the call has been   *)
(* executed in vain since anything changed: records are reset by what      *)
(* resets the history, and by nothing else.                                *)
RetryInv ==
  /\ records \in [Loop!Failing -> Record] /\ tries \in [Strategies -> 0..3]
  /\ \A s \in Strategies : tries[s] = records[s].attempts /\ tries[s] <= 2

(* Nothing has been tried.                                                 *)
LEMMA RetryInit == Loop!Init => RetryInv
<1> SUFFICES ASSUME Loop!Init PROVE RetryInv
  OBVIOUS
<1>1. Loop!NoRecord \in Record /\ Loop!NoRecord.attempts = 0
  BY DEF Loop!NoRecord, Record
<1>2. \A s \in Strategies : s \in Loop!Failing
  BY DEF Loop!Failing
<1> QED BY <1>1, <1>2 DEF Loop!Init, RetryInv

(* A call that is not blocked has failed at most once.                     *)
LEMMA NotBlocked ==
  ASSUME RetryInv, NEW t \in Strategies, ~Loop!Blocked(t)
  PROVE  records[t].attempts <= 1
<1>1. t \in Loop!Failing /\ records[t] \in Record
  BY DEF Loop!Failing, RetryInv
<1>2. records[t].attempts \in 0..3
  BY <1>1 DEF Record
<1> QED BY <1>2 DEF Loop!Blocked

(* A failure is counted in the record and in the history.                  *)
LEMMA FailsRetry ==
  ASSUME RetryInv, NEW t \in Loop!Tools, NEW b \in BOOLEAN, Loop!Fails(t, b)
  PROVE  RetryInv'
<1> DEFINE r == [attempts |-> Loop!Up(records[t].attempts), retryable |-> b]
<1>1. /\ t \in Loop!Failing /\ ~Loop!Blocked(t)
      /\ records' = [records EXCEPT ![t] = r]
      /\ tries' = [s \in Strategies |-> IF s = t THEN Loop!Up(tries[s]) ELSE tries[s]]
  BY DEF Loop!Fails, Loop!Runs
<1>2. /\ records \in [Loop!Failing -> Record] /\ records[t] \in Record /\ tries \in [Strategies -> 0..3]
      /\ \A s \in Strategies : s \in Loop!Failing
  BY <1>1 DEF RetryInv, Loop!Failing
<1>3. \A n \in 0..3 : Loop!Up(n) \in 0..3 /\ (n <= 1 => Loop!Up(n) <= 2)
  BY DEF Loop!Up
<1>4. r \in Record /\ r.attempts = Loop!Up(records[t].attempts)
  <2>1. records[t].attempts \in 0..3
    BY <1>2 DEF Record
  <2> QED BY <1>3, <2>1 DEF Record
<1>5. records' \in [Loop!Failing -> Record] /\ tries' \in [Strategies -> 0..3]
  BY <1>1, <1>2, <1>3, <1>4
<1>6. ASSUME NEW s \in Strategies PROVE tries'[s] = records'[s].attempts /\ tries'[s] <= 2
  <2>1. tries[s] = records[s].attempts /\ tries[s] <= 2 /\ tries[s] \in 0..3
    BY <1>2 DEF RetryInv
  <2>2. CASE s = t
    <3>1. records[t].attempts <= 1
      BY <1>1, <2>2, NotBlocked
    <3>2. records'[s] = r /\ tries'[s] = Loop!Up(tries[s])
      BY <1>1, <1>2, <2>2
    <3> HIDE DEF r
    <3> QED BY <1>3, <1>4, <2>1, <2>2, <3>1, <3>2
  <2>3. CASE s # t
    BY <1>1, <1>2, <2>1, <2>3
  <2> QED BY <2>2, <2>3
<1> QED BY <1>5, <1>6 DEF RetryInv

(* A success resets record and history alike.                              *)
LEMMA SucceedsRetry ==
  ASSUME RetryInv, NEW t \in Loop!Tools, NEW b \in BOOLEAN, Loop!Succeeds(t, b)
  PROVE  RetryInv'
<1>1. /\ records' = [s \in Loop!Failing |-> IF b \/ s = t THEN Loop!NoRecord ELSE records[s]]
      /\ tries' = [s \in Strategies |-> IF b \/ s = t THEN 0 ELSE tries[s]]
  BY DEF Loop!Succeeds
<1>2. Loop!NoRecord \in Record /\ Loop!NoRecord.attempts = 0
  BY DEF Loop!NoRecord, Record
<1>3. \A s \in Strategies : s \in Loop!Failing
  BY DEF Loop!Failing
<1>4. records' \in [Loop!Failing -> Record] /\ tries' \in [Strategies -> 0..3]
  BY <1>1, <1>2 DEF RetryInv
<1>5. \A s \in Strategies : tries'[s] = records'[s].attempts /\ tries'[s] <= 2
  BY <1>1, <1>2, <1>3 DEF RetryInv
<1> QED BY <1>4, <1>5 DEF RetryInv

(* Every step keeps records and history in agreement.                      *)
LEMMA RetryStep ==
  ASSUME RetryInv, [Loop!Next]_(Loop!vars)
  PROVE  RetryInv'
<1>1. CASE \E t \in Loop!Tools, b \in BOOLEAN : Loop!Fails(t, b)
  BY <1>1, FailsRetry
<1>2. CASE \E t \in Loop!Tools, b \in BOOLEAN : Loop!Succeeds(t, b)
  BY <1>2, SucceedsRetry
<1>3. ASSUME UNCHANGED <<records, tries>> PROVE RetryInv'
  BY <1>3 DEF RetryInv
<1>4. CASE Loop!Answer
  <2>1. UNCHANGED <<records, tries>>
    BY <1>4 DEF Loop!Answer, Loop!Rejected, Loop!CollectFirst, Loop!AskToVerify, Loop!FinalAnswer, Loop!EmptyAnswer,
                Loop!IgnoresDisabledTools, Loop!Round, Loop!guard, Loop!world
  <2> QED BY <1>3, <2>1
<1>5. CASE \E t \in Loop!Tools : Loop!Block(t) \/ \E b \in BOOLEAN : Loop!Skip(t, b)
  <2>1. UNCHANGED <<records, tries>>
    BY <1>5 DEF Loop!Block, Loop!Skip, Loop!guard
  <2> QED BY <1>3, <2>1
<1>6. CASE (\E b \in BOOLEAN : Loop!EndRound(b)) \/ Loop!WorkerEnds \/ Loop!Cancel
  <2>1. UNCHANGED <<records, tries>>
    BY <1>6 DEF Loop!EndRound, Loop!WorkerEnds, Loop!Cancel, Loop!guard, Loop!world
  <2> QED BY <1>3, <2>1
<1>7. CASE UNCHANGED Loop!vars
  <2>1. UNCHANGED <<records, tries>>
    BY <1>7 DEF Loop!vars, Loop!guard, Loop!world
  <2> QED BY <1>3, <2>1
<1> QED BY <1>1, <1>2, <1>4, <1>5, <1>6, <1>7 DEF Loop!Next, Loop!Loop, Loop!Call

(* A step of the program is a step of the loop or none of its own.         *)
LEMMA LoopMapsStep == [Next]_vars => [Loop!Next]_(Loop!vars)
<1>1. ASSUME UNCHANGED loop PROVE UNCHANGED Loop!vars
  BY <1>1 DEF loop, Loop!vars, Loop!guard, Loop!once, Loop!world
<1> QED BY <1>1 DEF Next, vars

(* A call that failed is executed at most once more unless something has   *)
(* changed since, whatever the model answers and in whatever order calls   *)
(* succeed and fail (equivalentFailure, observeFailure and observeSuccess  *)
(* of failure_strategy.go).                                                *)
THEOREM NoBlindRetryAlways == Spec => []NoBlindRetry
<1>1. Init => RetryInv
  BY RetryInit DEF Init
<1>2. RetryInv /\ [Next]_vars => RetryInv'
  BY RetryStep, LoopMapsStep
<1>3. RetryInv => NoBlindRetry
  BY DEF RetryInv, NoBlindRetry, Loop!NoBlindRetry
<1> QED BY <1>1, <1>2, <1>3, PTL DEF Spec

(* A guard that has had enough disables tools, so that no call of its      *)
(* round is left and no call is blocked a third time.                      *)
EnoughInv ==
  /\ forceFinalResponse => toolsDisabled /\ calls = <<>>
  /\ \A t \in Strategies : blockedFailures[t] = 2 => forceFinalResponse
  /\ pc = "ask" => calls = <<>>
  /\ pc = "round" => rounds < MaxRounds
Flags ==
  /\ toolsDisabled \in BOOLEAN /\ forceSubstantiveTool \in BOOLEAN /\ executed \in BOOLEAN
  /\ substantive \in BOOLEAN /\ visual \in BOOLEAN /\ unanswered \in BOOLEAN /\ asked \in BOOLEAN
Prompts ==
  /\ forceFinalResponse \in BOOLEAN /\ synthesisOnly \in BOOLEAN
  /\ requiredToolChoiceUnsupported \in BOOLEAN /\ parallelToolCalls \in BOOLEAN
  /\ visualVerificationRequested \in BOOLEAN /\ subagentFinalizationPrompted \in BOOLEAN
Switches == Flags /\ Prompts
Places ==
  /\ pc \in {"ask", "round"} /\ outcome \in {"none", "completed", "failed", "cancelled"}
  /\ emptyCompletionStage \in 0..3 /\ rounds \in 0..MaxRounds
  /\ worker \in {"none", "busy", "ended"}
  /\ calls \in Seq(Loop!Tools) /\ Len(calls) <= MaxCalls
  /\ blockedFailures \in [Strategies -> 0..2]
LoopInv == RetryInv /\ Switches /\ Places /\ EnoughInv

(* The loop has just begun.                                                *)
LEMMA LoopInit == Loop!Init => LoopInv
<1> SUFFICES ASSUME Loop!Init PROVE LoopInv
  OBVIOUS
<1>1. MaxCalls \in Nat /\ MaxRounds \in Nat
  BY BoundsAssumption
<1>2. RetryInv
  BY RetryInit
<1>3. Switches
  BY DEF Loop!Init, Switches, Flags, Prompts
<1>4. Places
  BY <1>1 DEF Loop!Init, Places
<1>5. EnoughInv
  BY <1>1 DEF Loop!Init, EnoughInv
<1> QED BY <1>2, <1>3, <1>4, <1>5 DEF LoopInv

(* An answer.                                                              *)
LEMMA AnswerTypes ==
  ASSUME LoopInv, Loop!Answer
  PROVE  Switches' /\ Places' /\ EnoughInv'
<1>0. LoopInv /\ MaxCalls \in Nat /\ MaxRounds \in Nat
  BY BoundsAssumption
<1> USE DEF LoopInv, Loop!Answers, Loop!Asking, Loop!guard, Loop!once, Loop!world
<1>1. ASSUME NEW e \in Loop!Errors, Loop!Rejected(e) PROVE Switches' /\ Places' /\ EnoughInv'
  <2>1. Switches'
    <3>1. Flags'
      BY <1>1 DEF Loop!Rejected, Loop!Required, Switches, Flags
    <3>2. Prompts'
      BY <1>1 DEF Loop!Rejected, Loop!Required, Switches, Prompts
    <3> QED BY <3>1, <3>2 DEF Switches
  <2>2. Places'
    BY <1>1 DEF Loop!Rejected, Places
  <2>3. EnoughInv'
    BY <1>1 DEF Loop!Rejected, EnoughInv
  <2> QED BY <2>1, <2>2, <2>3
<1>2. CASE Loop!CollectFirst
  <2>1. Switches'
    <3>1. Flags'
      BY <1>2 DEF Loop!CollectFirst, Switches, Flags
    <3>2. Prompts'
      BY <1>2 DEF Loop!CollectFirst, Switches, Prompts
    <3> QED BY <3>1, <3>2 DEF Switches
  <2>2. Places'
    BY <1>2 DEF Loop!CollectFirst, Loop!AwaitWorker, Places
  <2>3. EnoughInv'
    BY <1>2 DEF Loop!CollectFirst, EnoughInv
  <2> QED BY <2>1, <2>2, <2>3
<1>3. CASE Loop!AskToVerify \/ Loop!FinalAnswer
  <2>1. Switches'
    <3>1. Flags'
      BY <1>3 DEF Loop!AskToVerify, Loop!FinalAnswer, Loop!Finals, Switches, Flags
    <3>2. Prompts'
      BY <1>3 DEF Loop!AskToVerify, Loop!FinalAnswer, Loop!Finals, Switches, Prompts
    <3> QED BY <3>1, <3>2 DEF Switches
  <2>2. Places'
    BY <1>3 DEF Loop!AskToVerify, Loop!FinalAnswer, Loop!Finals, Places
  <2>3. EnoughInv'
    BY <1>3 DEF Loop!AskToVerify, Loop!FinalAnswer, Loop!Finals, EnoughInv
  <2> QED BY <2>1, <2>2, <2>3
<1>4. CASE Loop!EmptyAnswer
  <2>1. Switches'
    <3>1. Flags'
      BY <1>4 DEF Loop!EmptyAnswer, Loop!Finals, Loop!MayRecover, Switches, Flags
    <3>2. Prompts'
      BY <1>4 DEF Loop!EmptyAnswer, Loop!Finals, Loop!MayRecover, Switches, Prompts
    <3> QED BY <3>1, <3>2 DEF Switches
  <2>2. Places'
    BY <1>4 DEF Loop!EmptyAnswer, Loop!Finals, Loop!Up, Places
  <2>3. EnoughInv'
    BY <1>4 DEF Loop!EmptyAnswer, Loop!Finals, EnoughInv
  <2> QED BY <2>1, <2>2, <2>3
<1>5. ASSUME NEW content \in BOOLEAN, Loop!IgnoresDisabledTools(content)
      PROVE  Switches' /\ Places' /\ EnoughInv'
  <2>1. Switches'
    <3>1. Flags'
      BY <1>5 DEF Loop!IgnoresDisabledTools, Switches, Flags
    <3>2. Prompts'
      BY <1>5 DEF Loop!IgnoresDisabledTools, Switches, Prompts
    <3> QED BY <3>1, <3>2 DEF Switches
  <2>2. Places'
    BY <1>5 DEF Loop!IgnoresDisabledTools, Loop!AwaitWorker, Places
  <2>3. EnoughInv'
    BY <1>5 DEF Loop!IgnoresDisabledTools, EnoughInv
  <2> QED BY <2>1, <2>2, <2>3
<1>6. ASSUME NEW round \in Loop!Rounds, Loop!Round(round) PROVE Switches' /\ Places' /\ EnoughInv'
  <2>1. round \in Seq(Loop!Tools) /\ Len(round) <= MaxCalls
    <3>1. PICK n \in 1..MaxCalls : round \in [1..n -> Loop!Tools]
      BY DEF Loop!Rounds
    <3>2. round \in Seq(Loop!Tools) /\ Len(round) = n
      BY <1>0, <3>1
    <3> QED BY <1>0, <3>1, <3>2
  <2>2. Switches'
    <3>1. Flags'
      BY <1>6 DEF Loop!Round, Switches, Flags
    <3>2. Prompts'
      BY <1>6 DEF Loop!Round, Switches, Prompts
    <3> QED BY <3>1, <3>2 DEF Switches
  <2>3. Places'
    BY <1>6, <2>1 DEF Loop!Round, Places
  <2>4. EnoughInv'
    BY <1>6 DEF Loop!Round, EnoughInv
  <2> QED BY <2>2, <2>3, <2>4
<1> QED BY <1>1, <1>2, <1>3, <1>4, <1>5, <1>6 DEF Loop!Answer

(* A call that is executed, blocked or skipped.                            *)
LEMMA CallTypes ==
  ASSUME LoopInv, NEW t \in Loop!Tools, Loop!Call(t)
  PROVE  Switches' /\ Places' /\ EnoughInv'
<1>0. LoopInv /\ MaxCalls \in Nat
  BY BoundsAssumption
<1>1. calls # <<>> /\ ~forceFinalResponse /\ pc = "round"
  BY DEF LoopInv, EnoughInv, Loop!Call, Loop!Block, Loop!Skip, Loop!Fails, Loop!Succeeds, Loop!Runs, Loop!Turn
<1>2. PICK hidden \in BOOLEAN : Loop!Answered(hidden)
  BY DEF Loop!Call, Loop!Block, Loop!Skip, Loop!Fails, Loop!Succeeds
<1>3. /\ worker' \in {"none", "busy", "ended"} /\ visual' \in BOOLEAN
      /\ forceFinalResponse' \in BOOLEAN
  BY DEF LoopInv, Switches, Flags, Prompts, Places, Loop!Call, Loop!Block, Loop!Skip, Loop!Fails, Loop!Succeeds, Loop!guard
<1>4. /\ blockedFailures' \in [Strategies -> 0..2]
      /\ \A s \in Strategies : blockedFailures'[s] = 2 => forceFinalResponse'
  <2>1. CASE Loop!Block(t)
    <3>1. t \in Strategies /\ blockedFailures \in [Strategies -> 0..2] /\ blockedFailures[t] \in 0..1
      BY <1>1, <2>1 DEF Loop!Block, Loop!Blocked, LoopInv, Places, EnoughInv
    <3>2. /\ blockedFailures' = [blockedFailures EXCEPT ![t] = @ + 1]
          /\ forceFinalResponse' = (forceFinalResponse \/ blockedFailures'[t] >= 2)
      BY <2>1 DEF Loop!Block
    <3>3. /\ blockedFailures'[t] \in 0..2
          /\ \A s \in Strategies \ {t} : blockedFailures'[s] = blockedFailures[s]
          /\ blockedFailures' \in [Strategies -> 0..2]
      BY <3>1, <3>2
    <3>4. \A s \in Strategies : blockedFailures[s] = 2 => forceFinalResponse
      BY DEF LoopInv, EnoughInv
    <3>5. blockedFailures'[t] = 2 => forceFinalResponse'
      <4>1. blockedFailures'[t] = 2 => blockedFailures'[t] >= 2
        OBVIOUS
      <4> QED BY <3>2, <4>1, Zenon
    <3> QED BY <1>1, <3>3, <3>4, <3>5
  <2>2. CASE ~Loop!Block(t)
    <3>1. blockedFailures' = blockedFailures
      BY <2>2 DEF Loop!Call, Loop!Skip, Loop!Fails, Loop!Succeeds, Loop!guard
    <3> QED BY <1>1, <3>1 DEF LoopInv, Places, EnoughInv
  <2> QED BY <2>1, <2>2
<1>5. calls' \in Seq(Loop!Tools) /\ Len(calls') <= MaxCalls /\ (forceFinalResponse' => calls' = <<>>)
  <2>1. Tail(calls) \in Seq(Loop!Tools) /\ Len(Tail(calls)) <= MaxCalls
    BY <1>0, <1>1 DEF LoopInv, Places
  <2> QED BY <1>0, <1>2, <2>1 DEF Loop!Answered
<1>6. Switches'
  <2>1. Flags'
    BY <1>2, <1>3 DEF Loop!Answered, Loop!once, LoopInv, Switches, Flags
  <2>2. Prompts'
    BY <1>2, <1>3 DEF Loop!Answered, Loop!once, LoopInv, Switches, Prompts
  <2> QED BY <2>1, <2>2 DEF Switches
<1>7. Places'
  BY <1>2, <1>3, <1>4, <1>5 DEF Loop!Answered, LoopInv, Places
<1>8. EnoughInv'
  BY <1>1, <1>2, <1>4, <1>5 DEF Loop!Answered, LoopInv, EnoughInv
<1> QED BY <1>6, <1>7, <1>8

(* Every step keeps the types of the loop.                                 *)
LEMMA LoopStep ==
  ASSUME LoopInv, [Loop!Next]_(Loop!vars)
  PROVE  LoopInv'
<1>0. RetryInv'
  BY RetryStep DEF LoopInv
<1>1. CASE Loop!Answer
  BY <1>0, <1>1, AnswerTypes DEF LoopInv
<1>2. CASE \E t \in Loop!Tools : Loop!Call(t)
  BY <1>0, <1>2, CallTypes DEF LoopInv
<1>3. ASSUME NEW stalled \in BOOLEAN, Loop!EndRound(stalled) PROVE LoopInv'
  <2> USE DEF LoopInv, Loop!EndRound, Loop!guard, Loop!once, Loop!world
  <2>1. Switches'
    <3>1. Flags'
      BY <1>3 DEF Places, Switches, Flags
    <3>2. Prompts'
      BY <1>3 DEF Places, Switches, Prompts
    <3> QED BY <3>1, <3>2 DEF Switches
  <2>2. Places'
    BY <1>3, BoundsAssumption DEF Places, EnoughInv
  <2>3. EnoughInv'
    BY <1>3 DEF EnoughInv
  <2> QED BY <1>0, <2>1, <2>2, <2>3
<1>4. CASE Loop!WorkerEnds \/ Loop!Cancel
  BY <1>0, <1>4 DEF Loop!WorkerEnds, Loop!Cancel, Loop!guard, Loop!once, Loop!world, LoopInv, Switches, Flags, Prompts,
                    Places, EnoughInv
<1>5. CASE UNCHANGED Loop!vars
  BY <1>0, <1>5 DEF Loop!vars, Loop!guard, Loop!once, Loop!world, LoopInv, Switches, Flags, Prompts, Places, EnoughInv
<1> QED BY <1>1, <1>2, <1>3, <1>4, <1>5 DEF Loop!Next, Loop!Loop

(* The types of the loop.                                                  *)
LEMMA LoopTypes == Spec => []Loop!TypeOK
<1>1. Init => LoopInv
  BY LoopInit DEF Init
<1>2. LoopInv /\ [Next]_vars => LoopInv'
  BY LoopStep, LoopMapsStep
<1>3. LoopInv => Loop!TypeOK
  BY DEF LoopInv, RetryInv, Record, Switches, Flags, Prompts, Places, Loop!TypeOK
<1> QED BY <1>1, <1>2, <1>3, PTL DEF Spec

-----------------------------------------------------------------------------
(* Candidates, for any number of them, of calls and any buffer              *)

(* Whose text a sequence of events holds, and whose text a call has so     *)
(* far: in its result, on the way to it or about to be sent.               *)
HasText(q, a) == \E i \in 1..Len(q) : q[i].kind = "text" /\ q[i].from = a
Speaks(c, a) ==
  \/ a \in heard[c] \/ HasText(output[c], a)
  \/ forwarder[c] = "sending" /\ holding[c].kind = "text" /\ holding[c].from = a

(* A goroutine is started by its call; nobody has spoken until a candidate *)
(* is connected that is not given up for another one; and then it is this  *)
(* candidate, and the goroutine has seen it.                               *)
CallInv(c) ==
  /\ collector[c] = "none" => forwarder[c] = "none"
  /\ \A a, b : Speaks(c, a) /\ Speaks(c, b) => a = b
  /\ forwarder[c] \in {"none", "asking", "connecting", "failing", "lost"} => \A a : ~Speaks(c, a)
  /\ forwarder[c] \in {"reading", "sending"} => \A a : Speaks(c, a) => a = index[c] /\ seenOutput[c]

(* What a goroutine fails with, or has lost, is a failure of its candidate.*)
AdvanceInv ==
  /\ 1..(active - 1) \subseteq failed
  /\ \A c \in Providers!Calls : forwarder[c] \in {"failing", "lost"} => index[c] \in failed

Queues ==
  /\ active \in 1..Candidates
  /\ collector \in [Providers!Calls -> {"none", "opening", "reading", "over"}]
  /\ finishSeen \in [Providers!Calls -> BOOLEAN]
  /\ heard \in [Providers!Calls -> SUBSET (1..Candidates)]
  /\ forwarder \in [Providers!Calls -> {"none", "asking", "connecting", "failing", "lost", "reading",
                                        "sending", "over"}]
  /\ index \in [Providers!Calls -> 1..Candidates] /\ seenOutput \in [Providers!Calls -> BOOLEAN]
  /\ holding \in [Providers!Calls -> Providers!Events]
  /\ output \in [Providers!Calls -> Seq(Providers!Events)]

ProvidersInv == Queues /\ AdvanceInv /\ \A c \in Providers!Calls : CallInv(c)

-----------------------------------------------------------------------------
(* Events                                                                  *)

(* What an event is.                                                       *)
LEMMA EventTypes ==
  /\ Providers!NoEvent \in Providers!Events /\ Providers!NoEvent.kind # "text"
  /\ \A k \in Providers!Kinds, i \in 1..Candidates :
       /\ Providers!Event(k, i) \in Providers!Events
       /\ Providers!Event(k, i).kind = k /\ Providers!Event(k, i).from = i
  /\ 1 \in 1..Candidates
<1>1. 1 \in 1..Candidates
  BY CandidatesAssumption
<1> QED BY <1>1 DEF Providers!NoEvent, Providers!Event, Providers!Events, Providers!Kinds

(* Taking and appending events add no other text.                          *)
LEMMA TakenText ==
  ASSUME NEW q \in Seq(Providers!Events), q # <<>>
  PROVE  /\ Head(q) \in Providers!Events /\ Tail(q) \in Seq(Providers!Events)
         /\ Head(q).kind = "text" => HasText(q, Head(q).from)
         /\ \A a : HasText(Tail(q), a) => HasText(q, a)
<1>1. Len(q) \in Nat /\ Len(q) >= 1 /\ Head(q) = q[1] /\ q[1] \in Providers!Events
  OBVIOUS
<1>2. Tail(q) \in Seq(Providers!Events) /\ Len(Tail(q)) = Len(q) - 1
  OBVIOUS
<1>3. ASSUME NEW i \in 1..Len(Tail(q)) PROVE Tail(q)[i] = q[i + 1] /\ i + 1 \in 1..Len(q)
  BY <1>1, <1>2
<1>4. ASSUME NEW a, HasText(Tail(q), a) PROVE HasText(q, a)
  BY <1>3, <1>4 DEF HasText
<1>5. Head(q).kind = "text" => HasText(q, Head(q).from)
  BY <1>1 DEF HasText
<1> QED BY <1>1, <1>2, <1>4, <1>5

(* An event that is sent adds its own text to a queue and no other.        *)
LEMMA AppendedText ==
  ASSUME NEW q \in Seq(Providers!Events), NEW e \in Providers!Events
  PROVE  /\ Append(q, e) \in Seq(Providers!Events)
         /\ \A a : HasText(Append(q, e), a) => HasText(q, a) \/ (e.kind = "text" /\ e.from = a)
<1>1. Append(q, e) \in Seq(Providers!Events) /\ Len(Append(q, e)) = Len(q) + 1 /\ Len(q) \in Nat
  OBVIOUS
<1>2. \A i \in 1..(Len(q) + 1) : Append(q, e)[i] = IF i <= Len(q) THEN q[i] ELSE e
  OBVIOUS
<1>3. ASSUME NEW a, HasText(Append(q, e), a) PROVE HasText(q, a) \/ (e.kind = "text" /\ e.from = a)
  <2>1. PICK i \in 1..(Len(q) + 1) : Append(q, e)[i].kind = "text" /\ Append(q, e)[i].from = a
    BY <1>1, <1>3 DEF HasText
  <2>2. CASE i <= Len(q)
    BY <1>1, <1>2, <2>1, <2>2 DEF HasText
  <2>3. CASE ~(i <= Len(q))
    BY <1>2, <2>1, <2>3
  <2> QED BY <2>2, <2>3
<1> QED BY <1>1, <1>3

(* An empty queue holds no text.                                           *)
LEMMA NoText == \A a : ~HasText(<<>>, a)
BY DEF HasText

(* Nobody has spoken.                                                      *)
LEMMA ProvidersInit == Providers!Init => ProvidersInv
<1> SUFFICES ASSUME Providers!Init PROVE ProvidersInv
  OBVIOUS
<1>1. Queues
  BY EventTypes DEF Providers!Init, Queues
<1>2. AdvanceInv
  BY DEF Providers!Init, AdvanceInv
<1>3. ASSUME NEW c \in Providers!Calls PROVE CallInv(c)
  <2>1. collector[c] = "none" /\ forwarder[c] = "none" /\ heard[c] = {} /\ output[c] = <<>>
    BY DEF Providers!Init
  <2> QED BY <2>1, NoText DEF CallInv, Speaks
<1> QED BY <1>1, <1>2, <1>3 DEF ProvidersInv

-----------------------------------------------------------------------------
(* Steps                                                                   *)

(* A step of one call leaves the others as they are.                       *)
LEMMA OtherCall ==
  ASSUME NEW d, CallInv(d), collector'[d] = collector[d], forwarder'[d] = forwarder[d],
         heard'[d] = heard[d], output'[d] = output[d], holding'[d] = holding[d],
         index'[d] = index[d], seenOutput'[d] = seenOutput[d]
  PROVE  CallInv(d)'
<1>1. \A a : Speaks(d, a)' <=> Speaks(d, a)
  BY DEF Speaks, HasText
<1> QED BY <1>1 DEF CallInv

(* A step that adds no text keeps to the candidate, unless nobody has      *)
(* spoken or the goroutine is over.                                        *)
LEMMA Quieter ==
  ASSUME NEW c, CallInv(c), \A a : Speaks(c, a)' => Speaks(c, a),
         collector'[c] = "none" => forwarder'[c] = "none",
         \/ \A a : ~Speaks(c, a)
         \/ forwarder'[c] = "over"
         \/ /\ forwarder[c] \in {"reading", "sending"} /\ forwarder'[c] \in {"reading", "sending"}
            /\ index'[c] = index[c] /\ seenOutput'[c] = seenOutput[c]
         \/ forwarder'[c] = forwarder[c] /\ index'[c] = index[c] /\ seenOutput'[c] = seenOutput[c]
  PROVE  CallInv(c)'
<1>1. ASSUME \A a : ~Speaks(c, a) PROVE CallInv(c)'
  <2>1. \A a : ~Speaks(c, a)'
    BY <1>1
  <2> QED BY <2>1 DEF CallInv
<1> QED BY <1>1 DEF CallInv

(* The index moves on behind a failure of its candidate only.              *)
LEMMA AdvanceStep ==
  ASSUME Queues, AdvanceInv, Providers!Next
  PROVE  AdvanceInv'
<1>1. CASE \E c \in Providers!Calls : \/ Providers!Opened(c) \/ Providers!TimesOut(c)
         \/ Providers!Cancelled(c) \/ Providers!GraceOver(c) \/ Providers!Takes(c)
  BY <1>1 DEF Providers!Opened, Providers!TimesOut, Providers!Cancelled, Providers!GraceOver,
              Providers!Takes, Providers!forwarding, AdvanceInv
<1>2. CASE Providers!Stop
  BY <1>2 DEF Providers!Stop, Providers!forwarding, AdvanceInv
<1>3. ASSUME NEW c \in Providers!Calls, UNCHANGED <<active, failed>>,
             \A d \in Providers!Calls : d # c => forwarder'[d] = forwarder[d] /\ index'[d] = index[d],
             forwarder'[c] \notin {"failing", "lost"}
      PROVE  AdvanceInv'
  BY <1>3 DEF AdvanceInv
<1>4. ASSUME NEW c \in Providers!Calls,
             Providers!Complete(c) \/ Providers!CurrentCandidate(c) \/ Providers!Connects(c)
             \/ Providers!Sends(c) \/ Providers!Quits(c)
      PROVE  AdvanceInv'
  <2>1. \E p \in {"asking", "connecting", "reading", "over"} :
          /\ forwarder' = [forwarder EXCEPT ![c] = p] /\ UNCHANGED <<active, failed>>
          /\ \A d \in Providers!Calls : d # c => index'[d] = index[d]
    BY <1>4 DEF Queues, Providers!Complete, Providers!CurrentCandidate, Providers!Connects,
                Providers!Sends, Providers!Quits, Providers!Over
  <2> QED BY <1>3, <2>1 DEF Queues
<1>5. ASSUME NEW c \in Providers!Calls, Providers!GivesUp(c), UNCHANGED <<active, failed>>
      PROVE  AdvanceInv'
  <2>1. \E p \in {"sending", "over"} :
          /\ forwarder' = [forwarder EXCEPT ![c] = p]
          /\ \A d \in Providers!Calls : d # c => index'[d] = index[d]
    BY <1>5 DEF Queues, Providers!GivesUp, Providers!Over, Providers!Holds
  <2> QED BY <1>3, <1>5, <2>1 DEF Queues
<1>6. ASSUME NEW c \in Providers!Calls, NEW failover \in BOOLEAN, Providers!Refuses(c, failover)
      PROVE  AdvanceInv'
  <2>1. CASE /\ failed' = failed \cup {index[c]} /\ forwarder' = [forwarder EXCEPT ![c] = "failing"]
             /\ index' = index
    BY <1>6, <2>1 DEF Providers!Refuses, AdvanceInv, Queues
  <2>2. CASE Providers!GivesUp(c) /\ UNCHANGED failed
    BY <1>5, <1>6, <2>2 DEF Providers!Refuses
  <2> QED BY <1>6, <2>1, <2>2 DEF Providers!Refuses
<1>7. ASSUME NEW c \in Providers!Calls, Providers!Advance(c)
      PROVE  AdvanceInv'
  <2>1. forwarder[c] \in {"failing", "lost"} /\ index[c] \in failed /\ failed' = failed
    BY <1>7 DEF Providers!Advance, AdvanceInv
  <2>2. CASE Providers!MayAdvance(c) /\ active' = active + 1 /\ index' = index
             /\ forwarder' = [forwarder EXCEPT ![c] = "asking"]
    <3>1. 1..(active' - 1) \subseteq failed'
      BY <2>1, <2>2 DEF Providers!MayAdvance, AdvanceInv, Queues
    <3> QED BY <2>1, <2>2, <3>1 DEF AdvanceInv, Queues
  <2>3. CASE Providers!GivesUp(c) /\ UNCHANGED active
    BY <1>5, <2>1, <2>3
  <2>4. CASE Providers!Holds(c, "lost") /\ UNCHANGED <<active, index>>
    <3>1. forwarder' = [forwarder EXCEPT ![c] = "sending"]
      BY <2>4 DEF Providers!Holds
    <3> QED BY <1>3, <2>1, <2>4, <3>1 DEF Queues
  <2> QED BY <1>7, <2>2, <2>3, <2>4 DEF Providers!Advance
<1>8. ASSUME NEW c \in Providers!Calls, NEW k \in Providers!Kinds, Providers!Receives(c, k)
      PROVE  AdvanceInv'
  <2>1. CASE failed' = failed \cup {index[c]} /\ forwarder' = [forwarder EXCEPT ![c] = "lost"]
    BY <1>8, <2>1 DEF Providers!Receives, AdvanceInv, Queues
  <2>2. CASE Providers!Holds(c, k) /\ UNCHANGED failed
    <3>1. forwarder' = [forwarder EXCEPT ![c] = "sending"] /\ UNCHANGED <<active, index>>
      BY <1>8, <2>2 DEF Providers!Holds, Providers!Receives
    <3> QED BY <1>3, <2>2, <3>1 DEF Queues
  <2> QED BY <1>8, <2>1, <2>2 DEF Providers!Receives
<1> QED BY <1>1, <1>2, <1>4, <1>6, <1>7, <1>8 DEF Providers!Next

(* What a collector does, the start of its goroutine apart, only takes     *)
(* text that is on the way or drops it.                                    *)
LEMMA CollectorStep ==
  ASSUME Queues, NEW c \in Providers!Calls, \A d \in Providers!Calls : CallInv(d),
         \/ Providers!Opened(c) \/ Providers!TimesOut(c) \/ Providers!Cancelled(c)
         \/ Providers!GraceOver(c) \/ Providers!Takes(c)
  PROVE  Queues' /\ \A d \in Providers!Calls : CallInv(d)'
<1> DEFINE Drops(p, seen, q, told) ==
             /\ collector' = [collector EXCEPT ![c] = p]
             /\ finishSeen' = [finishSeen EXCEPT ![c] = seen]
             /\ output' = [output EXCEPT ![c] = q] /\ heard' = [heard EXCEPT ![c] = told]
             /\ \A a : (a \in told \/ HasText(q, a)) => (a \in heard[c] \/ HasText(output[c], a))
           Dropped ==
             \E p \in {"opening", "reading", "over"}, seen \in BOOLEAN,
                q \in Seq(Providers!Events), told \in SUBSET (1..Candidates) : Drops(p, seen, q, told)
<1>0. UNCHANGED <<active, forwarder, index, seenOutput, holding>>
  BY DEF Providers!Opened, Providers!TimesOut, Providers!Cancelled, Providers!GraceOver,
         Providers!Takes, Providers!forwarding
<1>1. /\ <<>> \in Seq(Providers!Events) /\ heard[c] \in SUBSET (1..Candidates)
      /\ output[c] \in Seq(Providers!Events) /\ finishSeen[c] \in BOOLEAN
  BY DEF Queues
<1>2. ASSUME NEW result, Providers!Returns(c, result), heard' = heard
      PROVE  Dropped
  <2>1. Drops("over", FALSE, <<>>, heard[c])
    BY <1>2, NoText DEF Providers!Returns, Queues
  <2> HIDE DEF Drops
  <2> QED BY <1>1, <2>1
<1>3. Dropped
  <2>1. CASE Providers!Opened(c)
    <3>1. heard' = heard
      BY <2>1 DEF Providers!Opened
    <3>2. CASE collector' = [collector EXCEPT ![c] = "reading"] /\ UNCHANGED <<output, finishSeen>>
      <4>1. Drops("reading", finishSeen[c], output[c], heard[c])
        BY <3>1, <3>2 DEF Queues
      <4> HIDE DEF Drops
      <4> QED BY <1>1, <4>1
    <3> QED BY <1>2, <2>1, <3>1, <3>2 DEF Providers!Opened
  <2>2. CASE Providers!TimesOut(c) \/ Providers!Cancelled(c) \/ Providers!GraceOver(c)
    BY <1>2, <2>2 DEF Providers!TimesOut, Providers!Cancelled, Providers!GraceOver
  <2>3. CASE Providers!Takes(c)
    <3> DEFINE e == Head(output[c])
               told == IF e.kind = "text" THEN heard[c] \cup {e.from} ELSE heard[c]
    <3>1. output[c] # <<>> /\ heard' = [heard EXCEPT ![c] = told]
      BY <2>3 DEF Providers!Takes
    <3>2. /\ e \in Providers!Events /\ Tail(output[c]) \in Seq(Providers!Events)
          /\ e.kind = "text" => HasText(output[c], e.from)
          /\ \A a : HasText(Tail(output[c]), a) => HasText(output[c], a)
      BY <1>1, <3>1, TakenText
    <3>3. told \in SUBSET (1..Candidates)
      BY <1>1, <3>2 DEF Providers!Events
    <3>4. \A a \in told : a \in heard[c] \/ HasText(output[c], a)
      BY <3>2
    <3>5. CASE e.kind \in Providers!Last
      <4>1. PICK result \in Providers!ResultOf(c, e.kind) : Providers!Returns(c, result)
        BY <2>3, <3>5 DEF Providers!Takes
      <4>2. Drops("over", FALSE, <<>>, told)
        BY <3>1, <3>4, <4>1, NoText DEF Providers!Returns
      <4> HIDE DEF Drops, told
      <4> QED BY <1>1, <3>3, <4>2
    <3>6. CASE e.kind \notin Providers!Last
      <4>1. /\ output' = [output EXCEPT ![c] = Tail(output[c])]
            /\ finishSeen' = [finishSeen EXCEPT ![c] = finishSeen[c] \/ e.kind = "finish"]
            /\ UNCHANGED collector
        BY <2>3, <3>6 DEF Providers!Takes
      <4>2. collector[c] = "reading"
        BY <2>3 DEF Providers!Takes
      <4>3. Drops("reading", finishSeen[c] \/ e.kind = "finish", Tail(output[c]), told)
        BY <3>1, <3>2, <3>4, <4>1, <4>2 DEF Queues
      <4>4. (finishSeen[c] \/ e.kind = "finish") \in BOOLEAN
        OBVIOUS
      <4> HIDE DEF Drops, told, e
      <4> QED BY <3>2, <3>3, <4>3, <4>4
    <3> QED BY <3>5, <3>6
  <2> QED BY <2>1, <2>2, <2>3
<1>4. PICK p \in {"opening", "reading", "over"}, seen \in BOOLEAN,
           q \in Seq(Providers!Events), told \in SUBSET (1..Candidates) : Drops(p, seen, q, told)
  BY <1>3
<1>5. Queues'
  BY <1>0, <1>4 DEF Queues
<1>6. ASSUME NEW d \in Providers!Calls, d # c PROVE CallInv(d)'
  BY <1>0, <1>4, <1>6, OtherCall DEF Queues
<1>7. CallInv(c)'
  <2>1. collector'[c] # "none" /\ output'[c] = q /\ heard'[c] = told
    BY <1>4 DEF Queues
  <2>2. \A a : Speaks(c, a)' => Speaks(c, a)
    BY <1>0, <1>4, <2>1 DEF Speaks, HasText
  <2> QED BY <1>0, <2>1, <2>2, Quieter
<1> QED BY <1>5, <1>6, <1>7

(* How the goroutine of a call moves without a word.                       *)
Moves(c, p, i, seen, e) ==
  /\ forwarder' = [forwarder EXCEPT ![c] = p] /\ index' = [index EXCEPT ![c] = i]
  /\ seenOutput' = [seenOutput EXCEPT ![c] = seen] /\ holding' = [holding EXCEPT ![c] = e]
Moved(c) ==
  \E p \in {"asking", "connecting", "failing", "lost", "reading", "sending", "over"},
     i \in 1..Candidates, seen \in BOOLEAN, e \in Providers!Events :
       Moves(c, p, i, seen, e) /\ (p = "sending" => e.kind # "text")

(* A goroutine that moves without a word keeps what is known of its call.  *)
LEMMA MovesFacts ==
  ASSUME Queues, NEW c \in Providers!Calls,
         NEW p \in {"asking", "connecting", "failing", "lost", "reading", "sending", "over"},
         NEW i \in 1..Candidates, NEW seen \in BOOLEAN, NEW e \in Providers!Events,
         Moves(c, p, i, seen, e),
         active' \in 1..Candidates, UNCHANGED <<heard, finishSeen>>,
         collector' \in [Providers!Calls -> {"none", "opening", "reading", "over"}],
         output' \in [Providers!Calls -> Seq(Providers!Events)],
         \A d \in Providers!Calls : d # c => collector'[d] = collector[d] /\ output'[d] = output[d],
         \A d \in Providers!Calls : CallInv(d)
  PROVE  /\ Queues' /\ \A d \in Providers!Calls : d # c => CallInv(d)'
         /\ forwarder'[c] = p /\ index'[c] = i /\ seenOutput'[c] = seen /\ holding'[c] = e
<1>1. forwarder'[c] = p /\ index'[c] = i /\ seenOutput'[c] = seen /\ holding'[c] = e
  BY DEF Queues, Moves
<1>2. Queues'
  BY DEF Queues, Moves
<1>3. ASSUME NEW d \in Providers!Calls, d # c PROVE CallInv(d)'
  BY <1>3, OtherCall DEF Queues, Moves
<1> QED BY <1>1, <1>2, <1>3

(* Leaving, and holding what is no text, are such moves.                   *)
LEMMA GivesUpMoves ==
  ASSUME Queues, NEW c \in Providers!Calls
  PROVE  /\ Providers!Over(c) => Moves(c, "over", 1, FALSE, Providers!NoEvent)
         /\ Providers!GivesUp(c) => Moved(c)
         /\ \A k \in {"lost", "error"} :
              Providers!Holds(c, k) /\ UNCHANGED <<index, seenOutput>> => Moved(c)
<1>1. Providers!Over(c) => Moves(c, "over", 1, FALSE, Providers!NoEvent)
  BY DEF Providers!Over, Moves
<1>2. ASSUME NEW k \in {"lost", "error"}, Providers!Holds(c, k), UNCHANGED <<index, seenOutput>>
      PROVE  Moved(c)
  <2>1. /\ Providers!Event(k, 1) \in Providers!Events /\ Providers!Event(k, 1).kind # "text"
        /\ index[c] \in 1..Candidates /\ seenOutput[c] \in BOOLEAN
    BY EventTypes DEF Queues, Providers!Kinds
  <2>2. Moves(c, "sending", index[c], seenOutput[c], Providers!Event(k, 1))
    BY <1>2 DEF Providers!Holds, Moves, Queues
  <2> QED BY <2>1, <2>2 DEF Moved
<1>3. ASSUME Providers!Over(c) PROVE Moved(c)
  BY <1>1, <1>3, EventTypes DEF Moved
<1> QED BY <1>1, <1>2, <1>3 DEF Providers!GivesUp

(* The goroutine of a call until it is connected to a candidate: nobody    *)
(* has spoken.                                                             *)
LEMMA OpenStep ==
  ASSUME Queues, NEW c \in Providers!Calls, \A d \in Providers!Calls : CallInv(d),
         NEW failover \in BOOLEAN,
         \/ Providers!Complete(c) \/ Providers!CurrentCandidate(c) \/ Providers!Connects(c)
         \/ Providers!Refuses(c, failover) \/ Providers!Advance(c)
  PROVE  Queues' /\ \A d \in Providers!Calls : CallInv(d)'
<1>0. /\ UNCHANGED <<heard, output, finishSeen>>
      /\ forwarder[c] \in {"none", "asking", "connecting", "failing", "lost"}
      /\ collector' = collector \/ collector' = [collector EXCEPT ![c] = "opening"]
      /\ forwarder[c] = "none" => collector' = [collector EXCEPT ![c] = "opening"]
      /\ active' = active \/ (active' = active + 1 /\ active < Candidates)
  <2>1. collector[c] = "none" => forwarder[c] = "none"
    BY DEF CallInv
  <2>2. CASE Providers!Advance(c)
    BY <2>2 DEF Providers!Advance, Providers!MayAdvance, Providers!reading, Queues
  <2> QED BY <2>1, <2>2 DEF Providers!Complete, Providers!CurrentCandidate, Providers!Connects,
                            Providers!Refuses, Providers!reading
<1>1. \A a : ~Speaks(c, a)
  BY <1>0 DEF CallInv
<1>2. /\ index[c] \in 1..Candidates /\ seenOutput[c] \in BOOLEAN /\ holding[c] \in Providers!Events
      /\ active \in 1..Candidates
  BY DEF Queues
<1>3. Moved(c)
  <2>1. CASE Providers!Complete(c)
    <3>1. Moves(c, "asking", index[c], seenOutput[c], holding[c])
      BY <2>1 DEF Providers!Complete, Moves, Queues
    <3> QED BY <1>2, <3>1 DEF Moved
  <2>2. CASE Providers!CurrentCandidate(c)
    <3>1. Moves(c, "connecting", active, seenOutput[c], holding[c])
      BY <2>2 DEF Providers!CurrentCandidate, Moves, Queues
    <3> QED BY <1>2, <3>1 DEF Moved
  <2>3. CASE Providers!Connects(c)
    <3>1. Moves(c, "reading", index[c], FALSE, holding[c])
      BY <2>3 DEF Providers!Connects, Moves, Queues
    <3> QED BY <1>2, <3>1 DEF Moved
  <2>4. ASSUME NEW p \in {"failing", "asking"}, forwarder' = [forwarder EXCEPT ![c] = p],
               UNCHANGED <<index, seenOutput, holding>>
        PROVE  Moved(c)
    <3>1. Moves(c, p, index[c], seenOutput[c], holding[c])
      BY <2>4 DEF Moves, Queues
    <3> QED BY <1>2, <3>1 DEF Moved
  <2>5. CASE Providers!Refuses(c, failover)
    BY <2>4, <2>5, GivesUpMoves DEF Providers!Refuses
  <2>6. CASE Providers!Advance(c)
    BY <2>4, <2>6, GivesUpMoves DEF Providers!Advance
  <2> QED BY <2>1, <2>2, <2>3, <2>5, <2>6
<1>4. PICK p \in {"asking", "connecting", "failing", "lost", "reading", "sending", "over"},
           i \in 1..Candidates, seen \in BOOLEAN, e \in Providers!Events :
             Moves(c, p, i, seen, e) /\ (p = "sending" => e.kind # "text")
  BY <1>3 DEF Moved
<1>5. /\ active' \in 1..Candidates
      /\ collector' \in [Providers!Calls -> {"none", "opening", "reading", "over"}]
      /\ output' \in [Providers!Calls -> Seq(Providers!Events)]
      /\ \A d \in Providers!Calls : d # c => collector'[d] = collector[d] /\ output'[d] = output[d]
      /\ collector'[c] # "none"
  <2>1. collector[c] = "none" => forwarder[c] = "none"
    BY DEF CallInv
  <2>2. active' \in 1..Candidates
    BY <1>0, <1>2, CandidatesAssumption
  <2>3. /\ collector' \in [Providers!Calls -> {"none", "opening", "reading", "over"}]
        /\ \A d \in Providers!Calls : d # c => collector'[d] = collector[d]
    BY <1>0 DEF Queues
  <2>4. collector'[c] # "none"
    <3>1. CASE collector' = [collector EXCEPT ![c] = "opening"]
      BY <3>1 DEF Queues
    <3>2. CASE collector' = collector /\ forwarder[c] # "none"
      BY <2>1, <3>2
    <3> QED BY <1>0, <3>1, <3>2
  <2>5. output' = output /\ output \in [Providers!Calls -> Seq(Providers!Events)]
    BY <1>0 DEF Queues
  <2> QED BY <2>2, <2>3, <2>4, <2>5
<1>6. /\ Queues' /\ \A d \in Providers!Calls : d # c => CallInv(d)'
      /\ forwarder'[c] = p /\ holding'[c] = e
  BY <1>0, <1>4, <1>5, MovesFacts
<1>7. CallInv(c)'
  <2>1. \A a : Speaks(c, a)' => Speaks(c, a)
    BY <1>0, <1>4, <1>6 DEF Speaks, HasText
  <2> QED BY <1>1, <1>5, <2>1, Quieter
<1> QED BY <1>6, <1>7

(* The goroutine of a call behind its candidate: it has seen whatever it   *)
(* sends.                                                                  *)
LEMMA StreamStep ==
  ASSUME Queues, NEW c \in Providers!Calls, \A d \in Providers!Calls : CallInv(d),
         NEW k \in Providers!Kinds,
         Providers!Receives(c, k) \/ Providers!Sends(c) \/ Providers!Quits(c)
  PROVE  Queues' /\ \A d \in Providers!Calls : CallInv(d)'
<1>0. /\ UNCHANGED <<active, heard, finishSeen, collector>>
      /\ forwarder[c] \in {"reading", "sending"}
  BY DEF Providers!Receives, Providers!Sends, Providers!Quits, Providers!reading
<1>1. /\ index[c] \in 1..Candidates /\ seenOutput[c] \in BOOLEAN /\ holding[c] \in Providers!Events
      /\ output[c] \in Seq(Providers!Events) /\ active \in 1..Candidates
      /\ collector \in [Providers!Calls -> {"none", "opening", "reading", "over"}]
      /\ collector[c] # "none"
  BY <1>0 DEF Queues, CallInv
<1>2. CASE Providers!Receives(c, k)
  <2>1. forwarder[c] = "reading" /\ output' = output /\ index' = index
        /\ seenOutput' = [seenOutput EXCEPT ![c] = seenOutput[c] \/ k = "text"]
    BY <1>2 DEF Providers!Receives, Providers!Sees
  <2>2. (seenOutput[c] \/ k = "text") \in BOOLEAN
    OBVIOUS
  <2>3. CASE k = "lost" /\ ~seenOutput[c] /\ forwarder' = [forwarder EXCEPT ![c] = "lost"]
             /\ holding' = holding
    <3>1. Moves(c, "lost", index[c], seenOutput[c] \/ k = "text", holding[c])
      BY <2>1, <2>3 DEF Moves, Queues
    <3>2. /\ Queues' /\ \A d \in Providers!Calls : d # c => CallInv(d)'
          /\ forwarder'[c] = "lost"
      BY <1>0, <1>1, <2>1, <2>2, <3>1, MovesFacts DEF Queues
    <3>3. \A a : ~Speaks(c, a)
      BY <2>1, <2>3 DEF CallInv
    <3>4. \A a : Speaks(c, a)' => Speaks(c, a)
      BY <1>0, <2>1, <3>2 DEF Speaks, HasText
    <3>5. CallInv(c)'
      BY <1>0, <1>1, <3>3, <3>4, Quieter
    <3> QED BY <3>2, <3>5
  <2>4. CASE Providers!Holds(c, k)
    <3> DEFINE e == Providers!Event(k, IF k = "text" THEN index[c] ELSE 1)
    <3>1. /\ e \in Providers!Events /\ e.kind = k /\ (k = "text" => e.from = index[c])
      BY <1>1, EventTypes
    <3>2. Moves(c, "sending", index[c], seenOutput[c] \/ k = "text", e)
      BY <2>1, <2>4 DEF Moves, Queues, Providers!Holds
    <3> HIDE DEF e
    <3>3. /\ Queues' /\ \A d \in Providers!Calls : d # c => CallInv(d)'
          /\ forwarder'[c] = "sending" /\ index'[c] = index[c] /\ holding'[c] = e
          /\ seenOutput'[c] = (seenOutput[c] \/ k = "text")
      <4> DEFINE seen == seenOutput[c] \/ k = "text"
      <4>1. seen \in BOOLEAN
        BY <2>2
      <4>2. Moves(c, "sending", index[c], seen, e)
        BY <3>2
      <4> HIDE DEF seen
      <4>3. /\ active' = active /\ collector' = collector /\ output' = output
            /\ UNCHANGED <<heard, finishSeen>>
            /\ output \in [Providers!Calls -> Seq(Providers!Events)]
        BY <1>0, <2>1 DEF Queues
      <4>4. /\ Queues' /\ \A d \in Providers!Calls : d # c => CallInv(d)'
            /\ forwarder'[c] = "sending" /\ index'[c] = index[c] /\ seenOutput'[c] = seen
            /\ holding'[c] = e
        BY <1>1, <3>1, <4>1, <4>2, <4>3, MovesFacts
      <4> QED BY <4>4 DEF seen
    <3>4. \A a : Speaks(c, a)' => Speaks(c, a) \/ (k = "text" /\ a = index[c])
      BY <1>0, <2>1, <3>1, <3>3 DEF Speaks, HasText
    <3>5. \A a : Speaks(c, a)' => a = index'[c] /\ seenOutput'[c]
      BY <2>1, <3>3, <3>4 DEF CallInv
    <3>6. CallInv(c)'
      BY <1>0, <1>1, <3>3, <3>5 DEF CallInv
    <3> QED BY <3>3, <3>6
  <2> QED BY <1>2, <2>3, <2>4 DEF Providers!Receives
<1>3. CASE Providers!Sends(c)
  <2>1. \/ output' = output
        \/ output' = [output EXCEPT ![c] = Append(output[c], holding[c])]
    BY <1>3 DEF Providers!Sends
  <2>2. /\ forwarder[c] = "sending"
        /\ output' \in [Providers!Calls -> Seq(Providers!Events)]
        /\ \A d \in Providers!Calls : d # c => output'[d] = output[d]
        /\ \A a : HasText(output'[c], a) =>
             HasText(output[c], a) \/ (holding[c].kind = "text" /\ holding[c].from = a)
    BY <1>1, <1>3, <2>1, AppendedText DEF Providers!Sends, Queues
  <2>3. \E p \in {"over", "reading"}, i \in 1..Candidates, seen \in BOOLEAN :
          /\ Moves(c, p, i, seen, Providers!NoEvent)
          /\ p = "reading" => i = index[c] /\ seen = seenOutput[c]
    <3>1. CASE Providers!Over(c)
      BY <3>1, GivesUpMoves, EventTypes
    <3>2. CASE /\ forwarder' = [forwarder EXCEPT ![c] = "reading"]
               /\ holding' = [holding EXCEPT ![c] = Providers!NoEvent] /\ UNCHANGED <<index, seenOutput>>
      <4>1. Moves(c, "reading", index[c], seenOutput[c], Providers!NoEvent)
        BY <3>2 DEF Moves, Queues
      <4> QED BY <1>1, <4>1
    <3> QED BY <1>3, <3>1, <3>2 DEF Providers!Sends
  <2>4. PICK p \in {"over", "reading"}, i \in 1..Candidates, seen \in BOOLEAN :
          /\ Moves(c, p, i, seen, Providers!NoEvent)
          /\ p = "reading" => i = index[c] /\ seen = seenOutput[c]
    BY <2>3
  <2>5. /\ Queues' /\ \A d \in Providers!Calls : d # c => CallInv(d)'
        /\ forwarder'[c] = p /\ index'[c] = i /\ seenOutput'[c] = seen
    BY <1>0, <1>1, <2>2, <2>4, EventTypes, MovesFacts
  <2>6. \A a : Speaks(c, a)' => Speaks(c, a)
    <3>1. ASSUME NEW a, Speaks(c, a)' PROVE a \in heard[c] \/ HasText(output'[c], a)
      BY <1>0, <2>5, <3>1 DEF Speaks, HasText
    <3> QED BY <2>2, <3>1 DEF Speaks
  <2>7. CallInv(c)'
    BY <1>0, <1>1, <2>4, <2>5, <2>6, Quieter
  <2> QED BY <2>5, <2>7
<1>4. CASE Providers!Quits(c)
  <2>1. Moves(c, "over", 1, FALSE, Providers!NoEvent) /\ output' = output
    BY <1>4, GivesUpMoves DEF Providers!Quits
  <2>2. /\ Queues' /\ \A d \in Providers!Calls : d # c => CallInv(d)'
        /\ forwarder'[c] = "over"
    BY <1>0, <1>1, <2>1, EventTypes, MovesFacts DEF Queues
  <2>3. \A a : Speaks(c, a)' => Speaks(c, a)
    BY <1>0, <2>1, <2>2 DEF Speaks, HasText
  <2>4. CallInv(c)'
    BY <1>0, <1>1, <2>2, <2>3, Quieter
  <2> QED BY <2>2, <2>4
<1> QED BY <1>2, <1>3, <1>4

(* Every step keeps who speaks and who has failed.                         *)
LEMMA ProvidersStep ==
  ASSUME ProvidersInv, [Providers!Next]_(Providers!vars)
  PROVE  ProvidersInv'
<1>1. Queues /\ AdvanceInv /\ \A c \in Providers!Calls : CallInv(c)
  BY DEF ProvidersInv
<1>2. ASSUME UNCHANGED <<active, collector, finishSeen, heard, forwarder, index, seenOutput, holding,
                         output, failed>>
      PROVE  ProvidersInv'
  <2>1. Queues' /\ AdvanceInv'
    BY <1>1, <1>2 DEF Queues, AdvanceInv
  <2>2. \A c \in Providers!Calls : CallInv(c)'
    BY <1>1, <1>2, OtherCall
  <2> QED BY <2>1, <2>2 DEF ProvidersInv
<1>3. CASE Providers!Next
  <2>1. AdvanceInv'
    BY <1>1, <1>3, AdvanceStep
  <2>2. ASSUME NEW c \in Providers!Calls,
               \/ Providers!Opened(c) \/ Providers!TimesOut(c) \/ Providers!Cancelled(c)
               \/ Providers!GraceOver(c) \/ Providers!Takes(c)
        PROVE  ProvidersInv'
    BY <1>1, <2>1, <2>2, CollectorStep DEF ProvidersInv
  <2>3. ASSUME NEW c \in Providers!Calls, NEW failover \in BOOLEAN,
               \/ Providers!Complete(c) \/ Providers!CurrentCandidate(c) \/ Providers!Connects(c)
               \/ Providers!Refuses(c, failover) \/ Providers!Advance(c)
        PROVE  ProvidersInv'
    BY <1>1, <2>1, <2>3, OpenStep DEF ProvidersInv
  <2>4. ASSUME NEW c \in Providers!Calls, NEW k \in Providers!Kinds,
               Providers!Receives(c, k) \/ Providers!Sends(c) \/ Providers!Quits(c)
        PROVE  ProvidersInv'
    BY <1>1, <2>1, <2>4, StreamStep DEF ProvidersInv
  <2>5. CASE Providers!Stop
    BY <1>2, <2>5 DEF Providers!Stop, Providers!reading, Providers!forwarding
  <2>6. TRUE \in BOOLEAN /\ "text" \in Providers!Kinds
    BY DEF Providers!Kinds
  <2> QED BY <1>3, <2>2, <2>3, <2>4, <2>5, <2>6 DEF Providers!Next
<1>4. CASE UNCHANGED Providers!vars
  BY <1>2, <1>4 DEF Providers!vars, Providers!reading, Providers!forwarding
<1> QED BY <1>3, <1>4

(* A step of the program is a step of the calls or none of theirs.         *)
LEMMA ProvidersMapsStep == [Next]_vars => [Providers!Next]_(Providers!vars)
<1>1. ASSUME UNCHANGED providers PROVE UNCHANGED Providers!vars
  BY <1>1 DEF providers, Providers!vars, Providers!reading, Providers!forwarding
<1> QED BY <1>1 DEF Next, vars

(* The parts of the invariant hold together.                               *)
LEMMA ProvidersInvariant == Spec => []ProvidersInv
<1>1. Init => ProvidersInv
  BY ProvidersInit DEF Init
<1>2. ProvidersInv /\ [Next]_vars => ProvidersInv'
  BY ProvidersStep, ProvidersMapsStep
<1> QED BY <1>1, <1>2, PTL DEF Spec

(* What the user has been shown of an answer is never continued by another *)
(* candidate, whenever streams are lost, given up or time out: seenOutput  *)
(* in Stream (provider_failover.go).                                       *)
THEOREM OneSpeakerAlways == Spec => []OneSpeaker
<1>1. ProvidersInv => OneSpeaker
  <2> SUFFICES ASSUME ProvidersInv, NEW c \in Providers!Calls PROVE Cardinality(heard[c]) <= 1
    BY DEF OneSpeaker, Providers!OneSpeaker, Providers!Cardinality, Cardinality
  <2>1. CASE heard[c] = {}
    BY <2>1, FS_EmptySet
  <2>2. CASE heard[c] # {}
    <3>1. PICK a \in heard[c] : heard[c] = {a}
      BY <2>2 DEF ProvidersInv, CallInv, Speaks
    <3>2. Cardinality({a}) = 1
      BY FS_Singleton
    <3> QED BY <3>1, <3>2
  <2> QED BY <2>1, <2>2
<1> QED BY <1>1, ProvidersInvariant, PTL

(* The index of the turn passes only candidates that have failed, also     *)
(* when goroutines of calls that were given up fail together with the      *)
(* present one (advance of provider_failover.go).                          *)
THEOREM NobodySkippedAlways == Spec => []NobodySkipped
<1>1. ProvidersInv => NobodySkipped
  BY DEF ProvidersInv, AdvanceInv, NobodySkipped, Providers!NobodySkipped
<1> QED BY <1>1, ProvidersInvariant, PTL

(* What a goroutine finds full it waits for.                               *)
Channels ==
  /\ stopped \in BOOLEAN /\ failed \subseteq 1..Candidates
  /\ ended \in [Providers!Calls -> {"none", "ok", "again", "failed"}]
  /\ opened \in [Providers!Calls -> {"none", "events", "error"}]
  /\ \A c \in Providers!Calls : Len(output[c]) <= Buffer

(* Every step keeps the types of the channels.                             *)
LEMMA ChannelsStep ==
  ASSUME Queues, Channels, [Providers!Next]_(Providers!vars)
  PROVE  Channels'
<1>0. /\ Buffer \in Nat /\ output \in [Providers!Calls -> Seq(Providers!Events)]
      /\ index \in [Providers!Calls -> 1..Candidates]
  BY BoundsAssumption DEF Queues
<1>1. ASSUME NEW c \in Providers!Calls, NEW q \in Seq(Providers!Events), Len(q) <= Buffer,
             NEW result \in {"ok", "again", "failed"},
             output' = [output EXCEPT ![c] = q],
             ended' \in {ended, [ended EXCEPT ![c] = result]}, UNCHANGED <<stopped, failed, opened>>
      PROVE  Channels'
  BY <1>0, <1>1 DEF Channels
<1>2. ASSUME UNCHANGED <<output, ended, opened, stopped>>, failed' \subseteq 1..Candidates PROVE Channels'
  BY <1>2 DEF Channels
<1>3. ASSUME NEW c \in Providers!Calls, NEW result \in {"ok", "again", "failed"}, Providers!Returns(c, result),
             UNCHANGED <<stopped, failed, opened>>
      PROVE  Channels'
  <2>1. <<>> \in Seq(Providers!Events) /\ Len(<<>>) <= Buffer
    BY <1>0
  <2> QED BY <1>1, <1>3, <2>1 DEF Providers!Returns
<1>4. ASSUME NEW c \in Providers!Calls, NEW p \in {"events", "error"}, opened' \in {opened, [opened EXCEPT ![c] = p]},
             UNCHANGED <<output, ended, stopped>>, failed' \subseteq 1..Candidates
      PROVE  Channels'
  BY <1>4 DEF Channels
<1>5. ASSUME NEW c \in Providers!Calls,
             \/ Providers!Opened(c) \/ Providers!TimesOut(c) \/ Providers!Cancelled(c) \/ Providers!GraceOver(c)
      PROVE  Channels'
  <2>1. UNCHANGED <<stopped, failed, opened>>
    BY <1>5 DEF Providers!Opened, Providers!TimesOut, Providers!Cancelled, Providers!GraceOver
  <2>2. \/ UNCHANGED <<output, ended>>
        \/ \E result \in {"ok", "again", "failed"} : Providers!Returns(c, result)
    BY <1>5 DEF Providers!Opened, Providers!TimesOut, Providers!Cancelled, Providers!GraceOver
  <2> QED BY <1>2, <1>3, <2>1, <2>2 DEF Channels
<1>6. ASSUME NEW c \in Providers!Calls, Providers!Takes(c) PROVE Channels'
  <2>1. UNCHANGED <<stopped, failed, opened>> /\ output[c] # <<>>
    BY <1>6 DEF Providers!Takes
  <2>2. \/ \E result \in {"ok", "again", "failed"} : Providers!Returns(c, result)
        \/ output' = [output EXCEPT ![c] = Tail(output[c])] /\ ended' = ended
    BY <1>6 DEF Providers!Takes, Providers!ResultOf
  <2>3. Tail(output[c]) \in Seq(Providers!Events) /\ Len(Tail(output[c])) <= Buffer
    BY <1>0, <2>1 DEF Channels
  <2> QED BY <1>1, <1>3, <2>1, <2>2, <2>3
<1>7. ASSUME NEW c \in Providers!Calls, Providers!Sends(c) PROVE Channels'
  <2>1. /\ UNCHANGED <<stopped, failed, opened, ended>> /\ Len(output[c]) < Buffer
        /\ output' \in {output, [output EXCEPT ![c] = Append(@, holding[c])]}
    BY <1>7 DEF Providers!Sends, Providers!reading
  <2>2. holding[c] \in Providers!Events
    BY DEF Queues
  <2>3. Append(output[c], holding[c]) \in Seq(Providers!Events) /\ Len(Append(output[c], holding[c])) <= Buffer
    BY <1>0, <2>1, <2>2
  <2>4. CASE output' = output
    BY <1>2, <2>1, <2>4 DEF Channels
  <2>5. CASE output' = [output EXCEPT ![c] = Append(@, holding[c])]
    BY <1>1, <2>1, <2>3, <2>5
  <2> QED BY <2>1, <2>4, <2>5
<1>8. ASSUME NEW c \in Providers!Calls, NEW failover \in BOOLEAN, NEW k \in Providers!Kinds,
             \/ Providers!Complete(c) \/ Providers!CurrentCandidate(c) \/ Providers!Connects(c)
             \/ Providers!Refuses(c, failover) \/ Providers!Advance(c) \/ Providers!Receives(c, k)
             \/ Providers!Quits(c)
      PROVE  Channels'
  <2>1. UNCHANGED <<output, ended, stopped>>
    BY <1>8 DEF Providers!Complete, Providers!CurrentCandidate, Providers!Connects, Providers!Refuses,
                Providers!Advance, Providers!Receives, Providers!Quits, Providers!reading
  <2>2. failed' \subseteq 1..Candidates
    <3>1. failed' \in {failed, failed \cup {index[c]}}
      BY <1>8 DEF Providers!Complete, Providers!CurrentCandidate, Providers!Connects, Providers!Refuses,
                  Providers!Advance, Providers!Receives, Providers!Quits, Providers!reading
    <3>2. index[c] \in 1..Candidates /\ failed \subseteq 1..Candidates
      BY <1>0 DEF Channels
    <3> QED BY <3>1, <3>2
  <2>3. opened' \in {opened, [opened EXCEPT ![c] = "events"], [opened EXCEPT ![c] = "error"]}
    BY <1>8 DEF Providers!Complete, Providers!CurrentCandidate, Providers!Connects, Providers!Refuses,
                Providers!Advance, Providers!Receives, Providers!Quits, Providers!GivesUp
  <2> QED BY <1>4, <2>1, <2>2, <2>3
<1>9. CASE Providers!Stop
  BY <1>9 DEF Providers!Stop, Providers!reading, Channels
<1>10. CASE UNCHANGED Providers!vars
  BY <1>10 DEF Providers!vars, Providers!reading, Channels
<1>11. TRUE \in BOOLEAN /\ "text" \in Providers!Kinds
  BY DEF Providers!Kinds
<1> QED BY <1>5, <1>6, <1>7, <1>8, <1>9, <1>10, <1>11 DEF Providers!Next

(* The types of model calls.                                               *)
LEMMA ProvidersTypes == Spec => []Providers!TypeOK
<1>1. Init => Channels
  <2>1. Buffer \in Nat /\ Len(<<>>) = 0
    BY BoundsAssumption
  <2> SUFFICES ASSUME Providers!Init PROVE Channels
    BY DEF Init
  <2>2. \A c \in Providers!Calls : output[c] = <<>>
    BY DEF Providers!Init
  <2>3. \A c \in Providers!Calls : Len(output[c]) <= Buffer
    BY <2>1, <2>2
  <2> QED BY <2>3 DEF Providers!Init, Channels
<1>2. ProvidersInv /\ Channels /\ [Next]_vars => Channels'
  BY ChannelsStep, ProvidersMapsStep DEF ProvidersInv
<1>3. ProvidersInv /\ Channels => Providers!TypeOK
  BY DEF ProvidersInv, Queues, Channels, Providers!TypeOK
<1> QED BY <1>1, <1>2, <1>3, ProvidersInvariant, PTL DEF Spec
=============================================================================
