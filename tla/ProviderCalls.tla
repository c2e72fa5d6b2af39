------------------------------ MODULE ProviderCalls ------------------------------
(***************************************************************************)
(* The model calls of one turn: the tool loop makes one after the other    *)
(* (complete, tool_loop.go), each through collectProviderStream            *)
(* (chat_events.go), which opens a stream in a goroutine, reads it and     *)
(* gives up after a time; the provider is a list of candidates with one    *)
(* index for the turn (provider_failover.go).  A call that was given up     *)
(* leaves its goroutine behind, which shares the index with later calls.   *)
(*                                                                         *)
(* A text is a delta or a tool call; reasoning, usage and notices change   *)
(* nothing here.  Clocks are left out: a time may be over whenever its     *)
(* timer is set.                                                           *)
(***************************************************************************)
EXTENDS Naturals, Sequences, FiniteSets

CONSTANTS
  MaxModelCalls,  \* bound: calls of complete in a turn
  Candidates,     \* len(candidates), at most 3
  Buffer          \* cap(output), 16 in the code

VARIABLES
  active,    \* p.active
  collector, \* collectProviderStream of a call
  ended,     \* what it returned; "again" is an error behind which the loop asks again
  finishSeen,
  heard,     \* candidates whose text is in the result
  opened,    \* the channel of that name
  forwarder, \* the goroutine in openStream and, then, in Stream
  index,     \* its currentIndex
  seenOutput,
  holding,   \* the event it is about to send
  output,
  stopped,   \* the context of the turn is done
  failed     \* history: candidates with a failure that asks for another one

reading == <<collector, ended, finishSeen, heard>>
forwarding == <<forwarder, index, seenOutput, holding>>
vars == <<active, reading, opened, forwarding, output, stopped, failed>>

Calls == 1..MaxModelCalls
(* "lost": an error that isProviderFailoverError accepts; "error": other.  *)
Kinds == {"text", "finish", "done", "error", "lost"}
Last == {"done", "error", "lost"}
(* Only of a text it matters who has sent it.                              *)
Event(k, i) == [kind |-> k, from |-> i]
Events == [kind : Kinds, from : 1..Candidates]
NoEvent == Event("done", 1)

Init ==
  /\ active = 1 /\ stopped = FALSE /\ failed = {}
  /\ collector = [c \in Calls |-> "none"] /\ ended = [c \in Calls |-> "none"]
  /\ finishSeen = [c \in Calls |-> FALSE] /\ heard = [c \in Calls |-> {}]
  /\ opened = [c \in Calls |-> "none"]
  /\ forwarder = [c \in Calls |-> "none"] /\ index = [c \in Calls |-> 1]
  /\ seenOutput = [c \in Calls |-> FALSE] /\ holding = [c \in Calls |-> NoEvent]
  /\ output = [c \in Calls |-> <<>>]

TypeOK ==
  /\ active \in 1..Candidates /\ stopped \in BOOLEAN /\ failed \subseteq 1..Candidates
  /\ collector \in [Calls -> {"none", "opening", "reading", "over"}]
  /\ ended \in [Calls -> {"none", "ok", "again", "failed"}]
  /\ finishSeen \in [Calls -> BOOLEAN] /\ heard \in [Calls -> SUBSET (1..Candidates)]
  /\ opened \in [Calls -> {"none", "events", "error"}]
  /\ forwarder \in [Calls -> {"none", "asking", "connecting", "failing", "lost", "reading",
                              "sending", "over"}]
  /\ index \in [Calls -> 1..Candidates] /\ seenOutput \in [Calls -> BOOLEAN]
  /\ holding \in [Calls -> Events]
  /\ \A c \in Calls : output[c] \in Seq(Events) /\ Len(output[c]) <= Buffer

(* streamCtx.Err() # nil: cancelStream is called on every return.          *)
Done(c) == stopped \/ collector[c] = "over"

----------------------------------------------------------------------------
(* The collector.                                                          *)

(* The call of the next round, a retry behind executed tools, or one of    *)
(* the recoveries of ToolLoop.                                             *)
Complete(c) ==
  /\ collector[c] = "none" /\ ~stopped
  /\ c > 1 => ended[c - 1] \in {"ok", "again"}
  /\ collector' = [collector EXCEPT ![c] = "opening"]
  /\ forwarder' = [forwarder EXCEPT ![c] = "asking"]
  /\ UNCHANGED <<active, ended, finishSeen, heard, opened, index, seenOutput, holding, output,
                 stopped, failed>>

(* What is left in output is drained; finishSeen is a local variable.      *)
Returns(c, result) ==
  /\ collector' = [collector EXCEPT ![c] = "over"]
  /\ ended' = [ended EXCEPT ![c] = result]
  /\ output' = [output EXCEPT ![c] = <<>>] /\ finishSeen' = [finishSeen EXCEPT ![c] = FALSE]

Opened(c) ==
  /\ collector[c] = "opening" /\ opened[c] # "none"
  /\ \/ /\ opened[c] = "events"
        /\ collector' = [collector EXCEPT ![c] = "reading"]
        /\ UNCHANGED <<ended, output, finishSeen>>
     \/ /\ opened[c] = "error"
        /\ \E result \in {"again", "failed"} : Returns(c, result)
  /\ UNCHANGED <<active, heard, opened, forwarding, stopped, failed>>

(* ErrProviderStreamOpenTimeout, whose text makes it retryable behind      *)
(* executed tools, and ErrProviderStreamIdle, whose text does not.         *)
TimesOut(c) ==
  /\ \/ collector[c] = "opening" /\ \E result \in {"again", "failed"} : Returns(c, result)
     \/ collector[c] = "reading" /\ Returns(c, "failed")
  /\ UNCHANGED <<active, heard, opened, forwarding, stopped, failed>>

(* ctx.Done, or output closed by a forwarder that saw it.                  *)
Cancelled(c) ==
  /\ stopped /\ collector[c] \in {"opening", "reading"}
  /\ Returns(c, "failed")
  /\ UNCHANGED <<active, heard, opened, forwarding, stopped, failed>>

(* finishDeadline.                                                         *)
GraceOver(c) ==
  /\ collector[c] = "reading" /\ finishSeen[c]
  /\ Returns(c, "ok")
  /\ UNCHANGED <<active, heard, opened, forwarding, stopped, failed>>

(* An error behind finish counts only when the provider reported it as an  *)
(* error of its own.                                                       *)
ResultOf(c, k) ==
  IF k = "done" THEN {"ok"} ELSE {"again", "failed"} \cup (IF finishSeen[c] THEN {"ok"} ELSE {})

Takes(c) ==
  /\ collector[c] = "reading" /\ output[c] # <<>>
  /\ LET e == Head(output[c]) IN
       /\ heard' = [heard EXCEPT ![c] = IF e.kind = "text" THEN @ \cup {e.from} ELSE @]
       /\ IF e.kind \in Last THEN \E result \in ResultOf(c, e.kind) : Returns(c, result)
          ELSE /\ output' = [output EXCEPT ![c] = Tail(@)]
               /\ finishSeen' = [finishSeen EXCEPT ![c] = @ \/ e.kind = "finish"]
               /\ UNCHANGED <<collector, ended>>
  /\ UNCHANGED <<active, opened, forwarding, stopped, failed>>

----------------------------------------------------------------------------
(* The goroutine of a call: openStream.                                    *)

(* currentCandidate.                                                       *)
CurrentCandidate(c) ==
  /\ forwarder[c] = "asking"
  /\ index' = [index EXCEPT ![c] = active]
  /\ forwarder' = [forwarder EXCEPT ![c] = "connecting"]
  /\ UNCHANGED <<active, reading, opened, seenOutput, holding, output, stopped, failed>>

Connects(c) ==
  /\ forwarder[c] = "connecting"
  /\ forwarder' = [forwarder EXCEPT ![c] = "reading"]
  /\ seenOutput' = [seenOutput EXCEPT ![c] = FALSE]
  /\ opened' = [opened EXCEPT ![c] = "events"]
  /\ UNCHANGED <<active, reading, index, holding, output, stopped, failed>>

Holds(c, k) ==
  /\ forwarder' = [forwarder EXCEPT ![c] = "sending"]
  /\ holding' = [holding EXCEPT ![c] = Event(k, IF k = "text" THEN index[c] ELSE 1)]

(* The goroutine returns, with what it knew.                               *)
Over(c) ==
  /\ forwarder' = [forwarder EXCEPT ![c] = "over"] /\ index' = [index EXCEPT ![c] = 1]
  /\ seenOutput' = [seenOutput EXCEPT ![c] = FALSE] /\ holding' = [holding EXCEPT ![c] = NoEvent]

(* openStream returns an error: Stream does so, or puts it into output.    *)
GivesUp(c) ==
  IF opened[c] = "none"
  THEN opened' = [opened EXCEPT ![c] = "error"] /\ Over(c)
  ELSE /\ \E k \in {"lost", "error"} : Holds(c, k)
       /\ UNCHANGED <<opened, index, seenOutput>>

Refuses(c, failover) ==
  /\ forwarder[c] = "connecting"
  /\ IF failover /\ ~Done(c)
     THEN /\ failed' = failed \cup {index[c]}
          /\ forwarder' = [forwarder EXCEPT ![c] = "failing"]
          /\ UNCHANGED <<opened, index, seenOutput, holding>>
     ELSE GivesUp(c) /\ UNCHANGED failed
  /\ UNCHANGED <<active, reading, output, stopped>>

(* Not the code: whoever fails moves the index on.                         *)
MayAdvanceAnyIndex(c) == active < Candidates

MayAdvance(c) == index[c] = active /\ index[c] < Candidates

(* advance, behind a connection that failed or a stream that was lost.     *)
Advance(c) ==
  /\ forwarder[c] \in {"failing", "lost"}
  /\ IF MayAdvance(c)
     THEN /\ active' = active + 1
          /\ forwarder' = [forwarder EXCEPT ![c] = "asking"]
          /\ UNCHANGED <<opened, index, seenOutput, holding>>
     ELSE /\ UNCHANGED active
          /\ IF forwarder[c] = "failing" THEN GivesUp(c)
             ELSE Holds(c, "lost") /\ UNCHANGED <<opened, index, seenOutput>>
  /\ UNCHANGED <<reading, output, stopped, failed>>

----------------------------------------------------------------------------
(* The goroutine of a call: Stream.                                        *)

(* Not the code: only the end of a stream keeps another one from starting. *)
SeesLate(k) == k = "finish"

Sees(k) == k = "text"

Receives(c, k) ==
  /\ forwarder[c] = "reading"
  /\ seenOutput' = [seenOutput EXCEPT ![c] = @ \/ Sees(k)]
  /\ IF k = "lost" /\ ~seenOutput[c] /\ ~Done(c)
     THEN /\ forwarder' = [forwarder EXCEPT ![c] = "lost"]
          /\ failed' = failed \cup {index[c]}
          /\ UNCHANGED holding
     ELSE Holds(c, k) /\ UNCHANGED failed
  /\ UNCHANGED <<active, reading, opened, index, output, stopped>>

(* Providers end their stream behind the last event.                       *)
Sends(c) ==
  /\ forwarder[c] = "sending" /\ Len(output[c]) < Buffer
  /\ output' = IF collector[c] = "over" THEN output
               ELSE [output EXCEPT ![c] = Append(@, holding[c])]
  /\ IF holding[c].kind \in Last THEN Over(c)
     ELSE /\ forwarder' = [forwarder EXCEPT ![c] = "reading"]
          /\ holding' = [holding EXCEPT ![c] = NoEvent]
          /\ UNCHANGED <<index, seenOutput>>
  /\ UNCHANGED <<active, reading, opened, stopped, failed>>

(* ctx.Done in either select.                                              *)
Quits(c) ==
  /\ Done(c) /\ forwarder[c] \in {"reading", "sending"}
  /\ Over(c)
  /\ UNCHANGED <<active, reading, opened, output, stopped, failed>>

(* The task is stopped.                                                    *)
Stop ==
  /\ ~stopped /\ stopped' = TRUE
  /\ UNCHANGED <<active, reading, opened, forwarding, output, failed>>

Next ==
  \/ \E c \in Calls :
       \/ Complete(c) \/ Opened(c) \/ TimesOut(c) \/ Cancelled(c) \/ GraceOver(c) \/ Takes(c)
       \/ CurrentCandidate(c) \/ Connects(c) \/ Advance(c) \/ Sends(c) \/ Quits(c)
       \/ \E failover \in BOOLEAN : Refuses(c, failover)
       \/ \E k \in Kinds : Receives(c, k)
  \/ Stop

Spec == Init /\ [][Next]_vars

----------------------------------------------------------------------------
(* What the user has been shown of an answer is never continued by another *)
(* candidate: the text of a result is that of one (seenOutput in Stream).  *)
OneSpeaker == \A c \in Calls : Cardinality(heard[c]) <= 1

(* The index passes only candidates that have failed, also when goroutines *)
(* of calls that were given up fail together with the present one: the     *)
(* test of the index in advance.                                           *)
NobodySkipped == 1..(active - 1) \subseteq failed
=============================================================================
