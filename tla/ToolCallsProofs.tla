--------------------------- MODULE ToolCallsProofs ---------------------------
(***************************************************************************)
(* Proofs about tool calls, for every set of calls, tasks and files, every *)
(* approval policy and every mix of exact and imprecise resource plans.    *)
(***************************************************************************)
EXTENDS ToolCalls, TLAPS

-----------------------------------------------------------------------------
(* Types                                                                   *)

(* The initial state has the types.                                        *)
LEMMA TypeInit == Init => TypeOK
BY SetsAssumption, FunctionsAssumption, MaxFailuresAssumption
DEF Init, TypeOK, Stages, Results, Reports, Answers

(* What is left of the line when one caller has gone is a line.            *)
LEMMA WithoutType ==
  ASSUME line \in Seq(Calls), NEW i \in DOMAIN line
  PROVE  Lease!Without(i) \in Seq(Calls)
<1>1. i \in 1..Len(line) /\ Len(line) \in Nat
  OBVIOUS
<1>2. SubSeq(line, 1, i - 1) \in Seq(Calls)
  BY <1>1
<1>3. SubSeq(line, i + 1, Len(line)) \in Seq(Calls)
  BY <1>1
<1> QED BY <1>2, <1>3 DEF Lease!Without

(* Every step keeps the types.                                             *)
LEMMA TypeNext == TypeOK /\ [Next]_vars => TypeOK'
<1> SUFFICES ASSUME TypeOK, [Next]_vars PROVE TypeOK'
  OBVIOUS
<1> USE SetsAssumption, FunctionsAssumption, MaxFailuresAssumption
<1>1. ASSUME NEW c \in Calls, Start(c) \/ StartTooLate(c) \/ Expire(c) PROVE TypeOK'
  <2>1. CASE Start(c)
    <3>1. ResourcePlan(c) \in {NoPlan} \cup {ResourcePlan(d) : d \in Calls}
      OBVIOUS
    <3>2. ask' \in [Calls -> {NoPlan} \cup {ResourcePlan(d) : d \in Calls}]
      BY <2>1, <3>1 DEF TypeOK, Start
    <3>3. line' \in Seq(Calls)
      BY <2>1 DEF TypeOK, Start
    <3> QED
      BY <2>1, <3>2, <3>3 DEF TypeOK, Start, approvalVars, fileVars, Stages
  <2>2. CASE StartTooLate(c) \/ Expire(c)
    BY <2>2 DEF TypeOK, StartTooLate, Expire, leaseVars, approvalVars, fileVars, Reports
  <2> QED BY <1>1, <2>1, <2>2
<1>2. ASSUME NEW t \in Tasks, CancelTask(t) PROVE TypeOK'
  BY <1>2 DEF TypeOK, CancelTask, leaseVars, approvalVars, fileVars
<1>3. ASSUME NEW c \in Calls, Caller(c) PROVE TypeOK'
  <2>1. CASE TakeOutcome(c)
    BY <2>1 DEF TypeOK, TakeOutcome, ReturnWith, leaseVars, approvalVars, Results, Reports
  <2>2. CASE Interrupt(c)
    BY <2>2 DEF TypeOK, Interrupt, ReturnWith, leaseVars, approvalVars, Results, Reports
  <2>3. CASE Record(c)
    BY <2>3 DEF TypeOK, Record, leaseVars, approvalVars, Results, Reports
  <2>4. CASE RecordFails(c)
    BY <2>4 DEF TypeOK, RecordFails, leaseVars, approvalVars, Results, Reports
  <2> QED BY <1>3, <2>1, <2>2, <2>3, <2>4 DEF Caller
<1>4. ASSUME NEW c \in Calls, Worker(c) PROVE TypeOK'
  <2>1. CASE Acquire(c)
    BY <2>1, WithoutType
    DEF TypeOK, Acquire, Lease!Grant, callerVars, approvalVars, fileVars, Stages
  <2>2. CASE GiveUpWaiting(c)
    BY <2>2, WithoutType
    DEF TypeOK, GiveUpWaiting, Lease!GiveUp, Deliver, callerVars, approvalVars, fileVars, Stages,
        Results
  <2>3. CASE LockGate(c) \/ Abandon(c) \/ Proceed(c)
    BY <2>3
    DEF TypeOK, LockGate, Abandon, Proceed, callerVars, leaseVars, approvalVars, fileVars, Stages
  <2>4. CASE Ask(c)
    BY <2>4 DEF TypeOK, Ask, callerVars, leaseVars, fileVars, Stages
  <2>5. CASE PreviewEnds(c)
    BY <2>5
    DEF TypeOK, PreviewEnds, Deliver, callerVars, leaseVars, approvalVars, fileVars, Stages, Results
  <2>6. CASE Rejected(c) \/ StopAsking(c) \/ ApplyRefused(c)
    <3>1. /\ EndRequest(c) /\ DropPreview(c) /\ UNCHANGED fileVars
          /\ Deliver(c, "unchanged", "leaving")
      BY <2>6 DEF Rejected, StopAsking, ApplyRefused
    <3>2. worker' \in [Calls -> Stages] /\ done' \in [Calls -> Results]
      BY <3>1 DEF TypeOK, Deliver, Stages, Results
    <3> QED
      BY <3>1, <3>2
      DEF TypeOK, EndRequest, DropPreview, callerVars, leaseVars, fileVars, Answers
  <2>7. CASE ApplyPending(c)
    BY <2>7
    DEF TypeOK, ApplyPending, EndRequest, AboutToWrite, callerVars, leaseVars, fileVars, Stages,
        Answers
  <2>8. CASE RunApproved(c)
    BY <2>8
    DEF TypeOK, RunApproved, EndRequest, DropPreview, callerVars, leaseVars, fileVars, Stages,
        Answers
  <2>9. CASE Leave(c)
    BY <2>9
    DEF TypeOK, Leave, Lease!Return, callerVars, approvalVars, fileVars, Stages
  <2>10. CASE WriteFile(c)
    <3>1. /\ preview' \in [Calls -> Calls \cup {Base}] /\ file' \in [Files -> Calls \cup {Base}]
          /\ before' \in [Calls -> Calls \cup {Base}]
      BY <2>10 DEF TypeOK, WriteFile, DropPreview
    <3>2. worker' \in [Calls -> Stages] /\ done' \in [Calls -> Results]
      <4>1. Deliver(c, "changed", "leaving") \/ Deliver(c, "unchanged", "leaving")
        BY <2>10 DEF WriteFile
      <4> QED BY <4>1 DEF TypeOK, Deliver, Stages, Results
    <3> QED
      BY <2>10, <3>1, <3>2 DEF TypeOK, WriteFile, callerVars, leaseVars
  <2> QED
    BY <1>4, <2>1, <2>2, <2>3, <2>4, <2>5, <2>6, <2>7, <2>8, <2>9, <2>10 DEF Worker
<1>5. ASSUME NEW c \in Calls, Execute(c) PROVE TypeOK'
  <2>1. CASE Edit(c)
    BY <2>1 DEF TypeOK, Edit, AboutToWrite, callerVars, leaseVars, fileVars, Stages
  <2>2. CASE RunCommand(c)
    BY <2>2 DEF TypeOK, RunCommand, Deliver, callerVars, leaseVars, approvalVars, Stages, Results
  <2>3. CASE Deliver(c, "unchanged", "leaving")
             /\ UNCHANGED <<callerVars, leaseVars, approvalVars, fileVars, failures>>
    BY <2>3 DEF TypeOK, Deliver, callerVars, leaseVars, approvalVars, fileVars, Stages, Results
  <2> QED BY <1>5, <2>1, <2>2, <2>3 DEF Execute
<1>6. ASSUME NEW c \in Calls, NEW d \in Answers \ {"none"}, Respond(c, d) PROVE TypeOK'
  <2>1. <<TaskOf[c], Fingerprint[c]>> \in Tasks \X {Fingerprint[e] : e \in Calls}
    OBVIOUS
  <2>2. allowed' \in SUBSET (Tasks \X {Fingerprint[e] : e \in Calls})
    BY <1>6, <2>1 DEF TypeOK, Respond
  <2>3. [answer EXCEPT ![c] = d] \in [Calls -> Answers] /\ [consent EXCEPT ![c] = d] \in [Calls -> Answers]
    BY DEF TypeOK
  <2>4. answer' \in [Calls -> Answers] /\ consent' \in [Calls -> Answers]
    BY <1>6, <2>3 DEF TypeOK, Respond
  <2> QED
    BY <1>6, <2>2, <2>4 DEF TypeOK, Respond, callerVars, leaseVars, fileVars
<1>7. CASE UNCHANGED vars
  BY <1>7 DEF TypeOK, vars, callerVars, leaseVars, approvalVars, fileVars
<1> QED
  BY <1>1, <1>2, <1>3, <1>4, <1>5, <1>6, <1>7 DEF Next

(* Every variable keeps its type.                                          *)
THEOREM TypeOKAlways == Spec => []TypeOK
BY TypeInit, TypeNext, PTL DEF Spec

-----------------------------------------------------------------------------
(* Leases                                                                  *)

(* Sharing a file is the same seen from either side.                       *)
LEMMA CompatibleSymmetric ==
  ASSUME NEW c, NEW d, Lease!Compatible(c, d)
  PROVE  Lease!Compatible(d, c)
BY DEF Lease!Compatible, SameFile

(* A goroutine works only with its lease, whoever waits for it or not;     *)
(* leases that are held do not collide; and a call that has not started    *)
(* has no goroutine, so that no plan changes under a lease.                *)
LeaseInv ==
  /\ \A c \in Calls : Working(c) => c \in holders
  /\ \A c \in holders : worker[c] \notin {"none", "queued"}
  /\ \A c, d \in holders : c # d => Lease!Compatible(c, d)
  /\ \A c \in Calls : pc[c] = "idle" => worker[c] = "none"

(* Nobody has a lease at first.                                            *)
LEMMA LeaseInit == Init => LeaseInv
BY DEF Init, LeaseInv, Working

(* Steps that neither give nor take a lease, and leave the plans alone.    *)
LEMMA LeaseKept ==
  ASSUME TypeOK, LeaseInv, UNCHANGED <<ask, holders>>,
         \A c \in Calls :
           /\ Working(c)' => Working(c)
           /\ worker[c] \notin {"none", "queued"} => worker'[c] \notin {"none", "queued"}
           /\ pc'[c] = "idle" => pc[c] = "idle" /\ worker'[c] = worker[c]
  PROVE  LeaseInv'
BY DEF TypeOK, LeaseInv, Lease!Compatible

(* A goroutine moves on with the lease it has, or to where it needs none.  *)
LEMMA StageKept ==
  ASSUME TypeOK, LeaseInv, NEW c \in Calls, UNCHANGED <<ask, holders, pc>>,
         NEW stage \in Stages \ {"none", "queued"}, worker[c] # "none",
         worker' = [worker EXCEPT ![c] = stage],
         stage \in {"leaving", "gone"} \/ Working(c)
  PROVE  LeaseInv'
<1>1. \A d \in Calls : Working(d)' => Working(d)
  BY DEF Working, TypeOK
<1>2. \A d \in Calls : worker[d] \notin {"none", "queued"} => worker'[d] \notin {"none", "queued"}
  BY DEF TypeOK
<1>3. \A d \in Calls : pc'[d] = "idle" => pc[d] = "idle" /\ worker'[d] = worker[d]
  BY DEF TypeOK, LeaseInv
<1> QED BY <1>1, <1>2, <1>3, LeaseKept

(* Every step keeps the invariant.                                         *)
LEMMA LeaseNext == TypeOK /\ LeaseInv /\ [Next]_vars => LeaseInv'
<1> SUFFICES ASSUME TypeOK, LeaseInv, [Next]_vars PROVE LeaseInv'
  OBVIOUS
<1> USE DEF Stages
<1>1. ASSUME NEW c \in Calls, Start(c) PROVE LeaseInv'
  <2>1. c \notin holders
    BY <1>1 DEF Start, LeaseInv
  <2>2. \A d \in holders : ask'[d] = ask[d]
    BY <1>1, <2>1 DEF Start, TypeOK
  <2>3. \A d, e \in holders : Lease!Compatible(d, e) => Lease!Compatible(d, e)'
    BY <2>2 DEF Lease!Compatible
  <2> QED
    BY <1>1, <2>1, <2>3 DEF Start, TypeOK, LeaseInv, Working
<1>2. ASSUME NEW c \in Calls, Acquire(c) PROVE LeaseInv'
  <2>1. /\ holders' = holders \cup {c} /\ UNCHANGED <<ask, pc>>
        /\ \A d \in holders : Lease!Compatible(c, d)
    BY <1>2 DEF Acquire, Lease!Grant, callerVars
  <2>2. \A d, e \in holders' : d # e => Lease!Compatible(d, e)
    BY <2>1, CompatibleSymmetric DEF LeaseInv
  <2>3. \A d, e : Lease!Compatible(d, e) => Lease!Compatible(d, e)'
    BY <2>1 DEF Lease!Compatible
  <2>4. \A d, e \in holders' : d # e => Lease!Compatible(d, e)'
    BY <2>2, <2>3
  <2>5. worker' = [worker EXCEPT ![c] = IF c \in Imprecise THEN "gate" ELSE "check"]
    BY <1>2 DEF Acquire
  <2>6. pc[c] # "idle"
    BY <1>2 DEF Acquire, LeaseInv
  <2> QED
    BY <2>1, <2>4, <2>5, <2>6 DEF TypeOK, LeaseInv, Working
<1>3. ASSUME NEW c \in Calls, Leave(c) PROVE LeaseInv'
  <2>1. UNCHANGED <<ask, pc>> /\ worker' = [worker EXCEPT ![c] = "gone"]
    BY <1>3 DEF Leave, Lease!Return, callerVars
  <2>2. holders' \subseteq holders /\ \A d \in Calls : d # c /\ d \in holders => d \in holders'
    BY <1>3 DEF Leave, Lease!Return
  <2>3. \A d, e : Lease!Compatible(d, e) => Lease!Compatible(d, e)'
    BY <2>1 DEF Lease!Compatible
  <2> QED
    BY <1>3, <2>1, <2>2, <2>3 DEF Leave, TypeOK, LeaseInv, Working
<1>4. ASSUME NEW c \in Calls, Caller(c) \/ StartTooLate(c) \/ Expire(c) PROVE LeaseInv'
  BY <1>4, LeaseKept
  DEF Caller, TakeOutcome, Interrupt, Record, RecordFails, ReturnWith, StartTooLate, Expire,
      leaseVars, TypeOK, Working
<1>5. ASSUME NEW c \in Calls,
             GiveUpWaiting(c) \/ LockGate(c) \/ Abandon(c) \/ Proceed(c) \/ Ask(c) \/ PreviewEnds(c)
      PROVE  LeaseInv'
  <2>1. CASE GiveUpWaiting(c)
    BY <2>1, StageKept DEF GiveUpWaiting, Deliver, Lease!GiveUp, callerVars
  <2>2. CASE LockGate(c)
    BY <2>2, StageKept DEF LockGate, callerVars, Working
  <2>3. CASE Abandon(c)
    BY <2>3, StageKept DEF Abandon, callerVars, leaseVars
  <2>4. CASE Proceed(c) \/ Ask(c) \/ PreviewEnds(c)
    BY <2>4, StageKept DEF Proceed, Ask, PreviewEnds, Deliver, callerVars, leaseVars, Working
  <2> QED BY <1>5, <2>1, <2>2, <2>3, <2>4
<1>6. ASSUME NEW c \in Calls,
             Rejected(c) \/ StopAsking(c) \/ ApplyPending(c) \/ ApplyRefused(c) \/ RunApproved(c)
      PROVE  LeaseInv'
  <2>1. CASE Rejected(c) \/ StopAsking(c)
    BY <2>1, StageKept DEF Rejected, StopAsking, EndRequest, Deliver, callerVars, leaseVars
  <2>2. CASE ApplyPending(c) \/ ApplyRefused(c) \/ RunApproved(c)
    BY <2>2, StageKept
    DEF ApplyPending, ApplyRefused, RunApproved, Approved, EndRequest, AboutToWrite, Deliver,
        callerVars, leaseVars, Working
  <2> QED BY <1>6, <2>1, <2>2
<1>7. ASSUME NEW c \in Calls, Execute(c) \/ WriteFile(c) PROVE LeaseInv'
  <2>1. CASE Edit(c)
    BY <2>1, StageKept DEF Edit, AboutToWrite, callerVars, leaseVars, Working
  <2>2. CASE ~Edit(c)
    BY <1>7, <2>2, StageKept DEF Execute, RunCommand, WriteFile, Deliver, callerVars, leaseVars
  <2> QED BY <2>1, <2>2
<1>8. ASSUME NEW c \in Calls, NEW d \in Answers, Respond(c, d) PROVE LeaseInv'
  BY <1>8, LeaseKept DEF Respond, callerVars, leaseVars, Working
<1>9. ASSUME NEW t \in Tasks, CancelTask(t) PROVE LeaseInv'
  BY <1>9, LeaseKept DEF CancelTask, leaseVars, Working
<1>10. CASE UNCHANGED vars
  BY <1>10, LeaseKept DEF vars, callerVars, leaseVars, Working
<1> QED
  BY <1>1, <1>2, <1>3, <1>4, <1>5, <1>6, <1>7, <1>8, <1>9, <1>10 DEF Next, Worker

(* Goroutines that touch the workspace exclude each other, also those that *)
(* nobody waits for any more (watchdog.go:235).                            *)
THEOREM ExclusiveWorkAlways == Spec => []ExclusiveWork
<1>1. LeaseInv => ExclusiveWork
  BY DEF LeaseInv, ExclusiveWork
<1> QED
  BY <1>1, TypeInit, TypeNext, LeaseInit, LeaseNext, PTL DEF Spec

-----------------------------------------------------------------------------
(* Consent                                                                 *)

Yes == {"once", "session"}
Held ==
  {file[f] : f \in Files} \cup {before[c] : c \in Calls} \cup {preview[c] : c \in Calls}

(* What the user said is remembered until the call ends and stands for     *)
(* good: a request is answered once.  Whatever a call that needs consent   *)
(* has left in a file, or is about to have left there, has it.             *)
ConsentInv ==
  /\ \A c \in Calls : worker[c] \in {"none", "queued", "gate", "check"} =>
       consent[c] = "none" /\ c \notin pending \cup owners /\ answer[c] = "none"
  /\ \A c \in owners : consent[c] = "none"
  /\ \A c \in Calls : answer[c] # "none" => consent[c] = answer[c]
  /\ \A a \in allowed : \E d \in Calls : consent[d] = "session" /\ a = <<TaskOf[d], Fingerprint[d]>>
  /\ \A c \in NeedsApproval : worker[c] \in {"running", "writing"} \/ c \in Held =>
       ConsentGiven(c)

(* Nothing has been asked or done at first.                                *)
LEMMA ConsentInit == Init => ConsentInv
BY SetsAssumption, FunctionsAssumption DEF Init, ConsentInv, Held, Answers

(* Steps that leave the approvals alone.                                   *)
LEMMA ConsentKept ==
  ASSUME ConsentInv, UNCHANGED <<pending, owners, answer, allowed, consent>>,
         Held' \subseteq Held \cup {Base},
         \A c \in Calls :
           /\ worker'[c] \in {"none", "queued", "gate", "check"} =>
                worker[c] \in {"none", "queued", "gate", "check"}
           /\ worker'[c] \in {"running", "writing"} => worker[c] \in {"running", "writing"}
  PROVE  ConsentInv'
<1>1. \A c \in Calls : ConsentGiven(c)' <=> ConsentGiven(c)
  BY DEF ConsentGiven
<1> QED
  BY <1>1, SetsAssumption DEF ConsentInv

(* A call that writes, or reads what it is to write over, puts at most     *)
(* itself among what is held.                                              *)
LEMMA HeldAfterWrite ==
  ASSUME TypeOK, NEW c \in Calls, WriteFile(c) \/ Execute(c)
  PROVE  Held' \subseteq Held \cup {c, Base}
<1>1. Target[c] \in Files
  BY FunctionsAssumption
<1>2. CASE WriteFile(c)
  <2>1. \A f \in Files : file'[f] \in Held \cup {c}
    BY <1>2 DEF WriteFile, TypeOK, Held
  <2>2. \A d \in Calls : before'[d] \in Held \cup {Base} /\ preview'[d] \in Held \cup {Base}
    BY <1>2 DEF WriteFile, DropPreview, TypeOK, Held
  <2> QED BY <2>1, <2>2 DEF Held
<1>3. CASE Edit(c)
  BY <1>1, <1>3 DEF Edit, fileVars, TypeOK, Held
<1>4. CASE RunCommand(c)
  BY <1>1, <1>4 DEF RunCommand, approvalVars, TypeOK, Held
<1>5. CASE UNCHANGED <<approvalVars, fileVars>>
  BY <1>5 DEF approvalVars, fileVars, Held
<1> QED BY <1>2, <1>3, <1>4, <1>5 DEF Execute

(* A call that ends its request, or does not ask for anything any more.    *)
LEMMA EndRequestKeeps ==
  ASSUME TypeOK, ConsentInv, NEW c \in Calls, EndRequest(c), worker[c] = "asked",
         NEW stage \in {"leaving", "running", "writing"}, worker' = [worker EXCEPT ![c] = stage],
         Held' \subseteq Held \cup {Base}, stage # "leaving" => consent[c] \in Yes
  PROVE  ConsentInv'
<1>1. UNCHANGED <<owners, allowed, consent>> /\ pending' \subseteq pending
  BY DEF EndRequest
<1>2. \A d \in Calls : ConsentGiven(d)' <=> ConsentGiven(d)
  BY <1>1 DEF ConsentGiven
<1>3. answer' = [answer EXCEPT ![c] = "none"]
  BY DEF EndRequest
<1>4. consent[c] \in Yes => ConsentGiven(c)
  BY DEF ConsentGiven, Yes
<1>5. \A d \in NeedsApproval : worker'[d] \in {"running", "writing"} \/ d \in Held' => ConsentGiven(d)
  BY <1>4, SetsAssumption DEF ConsentInv, TypeOK
<1>6. \A d \in Calls : worker'[d] \in {"none", "queued", "gate", "check"} =>
        worker[d] \in {"none", "queued", "gate", "check"} /\ d # c
  BY DEF TypeOK
<1> QED
  BY <1>1, <1>2, <1>3, <1>5, <1>6, SetsAssumption DEF ConsentInv, TypeOK

(* Every step keeps the invariant.                                         *)
LEMMA ConsentNext == TypeOK /\ LeaseInv /\ ConsentInv /\ [Next]_vars => ConsentInv'
<1> SUFFICES ASSUME TypeOK, LeaseInv, ConsentInv, [Next]_vars PROVE ConsentInv'
  OBVIOUS
<1>1. ASSUME NEW c \in Calls, Start(c) \/ StartTooLate(c) \/ Expire(c) PROVE ConsentInv'
  <2>1. Held' = Held
    BY <1>1 DEF Start, StartTooLate, Expire, approvalVars, fileVars, Held
  <2> QED
    BY <1>1, <2>1, ConsentKept DEF Start, StartTooLate, Expire, approvalVars, TypeOK, LeaseInv
<1>2. ASSUME NEW t \in Tasks, CancelTask(t) PROVE ConsentInv'
  BY <1>2, ConsentKept DEF CancelTask, approvalVars, fileVars, Held
<1>3. ASSUME NEW c \in Calls, Caller(c) PROVE ConsentInv'
  <2>1. UNCHANGED <<worker, approvalVars>>
    BY <1>3 DEF Caller, TakeOutcome, Interrupt, Record, RecordFails, ReturnWith
  <2>2. Held' \subseteq Held \cup {Base}
    BY <1>3, FunctionsAssumption
    DEF Caller, TakeOutcome, Interrupt, Record, RecordFails, ReturnWith, approvalVars, Held, TypeOK
  <2> QED
    BY <2>1, <2>2, ConsentKept DEF approvalVars
<1>4. ASSUME NEW c \in Calls,
             Acquire(c) \/ GiveUpWaiting(c) \/ LockGate(c) \/ Abandon(c) \/ PreviewEnds(c) \/ Leave(c)
      PROVE  ConsentInv'
  <2>1. UNCHANGED <<approvalVars, fileVars>>
    BY <1>4 DEF Acquire, GiveUpWaiting, LockGate, Abandon, PreviewEnds, Leave
  <2>2. \E stage \in Stages \ {"running", "writing"} :
          /\ worker' = [worker EXCEPT ![c] = stage]
          /\ stage \in {"none", "queued", "gate", "check"} =>
               worker[c] \in {"none", "queued", "gate", "check"}
    BY <1>4
    DEF Acquire, GiveUpWaiting, LockGate, Abandon, PreviewEnds, Leave, Deliver, Stages
  <2> QED
    BY <2>1, <2>2, ConsentKept DEF approvalVars, fileVars, Held, TypeOK
<1>5. ASSUME NEW c \in Calls, Proceed(c) PROVE ConsentInv'
  <2>1. UNCHANGED approvalVars /\ Held' = Held /\ worker' = [worker EXCEPT ![c] = "running"]
    BY <1>5 DEF Proceed, approvalVars, fileVars, Held
  <2>2. c \in NeedsApproval => ConsentGiven(c)
    BY <1>5 DEF Proceed, MustAsk, SessionAllowed, ConsentInv, ConsentGiven
  <2>3. \A d \in Calls : ConsentGiven(d)' <=> ConsentGiven(d)
    BY <2>1 DEF approvalVars, ConsentGiven
  <2> QED
    BY <2>1, <2>2, <2>3, SetsAssumption DEF ConsentInv, approvalVars, TypeOK
<1>6. ASSUME NEW c \in Calls, Ask(c) PROVE ConsentInv'
  <2>1. /\ UNCHANGED <<answer, allowed, consent>> /\ Held' \subseteq Held
        /\ pending' = pending \cup {c} /\ owners' = owners \cup {c}
        /\ worker' = [worker EXCEPT ![c] = "asked"] /\ worker[c] = "check"
    BY <1>6, FunctionsAssumption DEF Ask, fileVars, Held, TypeOK
  <2>2. \A d \in Calls : ConsentGiven(d)' <=> ConsentGiven(d)
    BY <2>1 DEF ConsentGiven
  <2> QED
    BY <2>1, <2>2, SetsAssumption DEF ConsentInv, TypeOK
<1>7. ASSUME NEW c \in Calls, NEW d \in Answers \ {"none"}, Respond(c, d) PROVE ConsentInv'
  <2>1. /\ UNCHANGED <<worker, pending>> /\ Held' = Held
        /\ c \in owners /\ owners' = owners \ {c} /\ consent[c] = "none"
    BY <1>7 DEF Respond, fileVars, Held, ConsentInv
  <2>2. CASE c \notin pending
    <3>1. UNCHANGED <<answer, allowed, consent>>
      BY <1>7, <2>2 DEF Respond
    <3>2. \A e \in Calls : ConsentGiven(e)' <=> ConsentGiven(e)
      BY <3>1 DEF ConsentGiven
    <3> QED
      BY <2>1, <3>1, <3>2, SetsAssumption DEF ConsentInv
  <2>3. CASE c \in pending
    <3>1. /\ answer' = [answer EXCEPT ![c] = d] /\ consent' = [consent EXCEPT ![c] = d]
          /\ allowed' = IF d = "session" THEN allowed \cup {<<TaskOf[c], Fingerprint[c]>>} ELSE allowed
      BY <1>7, <2>3 DEF Respond
    <3>2. /\ consent'[c] = d /\ answer'[c] = d
          /\ \A e \in Calls \ {c} : consent'[e] = consent[e] /\ answer'[e] = answer[e]
      BY <3>1 DEF TypeOK
    <3>3. \A e \in Calls : ConsentGiven(e) => ConsentGiven(e)'
      BY <2>1, <3>2 DEF ConsentGiven
    <3>4. \A a \in allowed' : \E e \in Calls :
            consent'[e] = "session" /\ a = <<TaskOf[e], Fingerprint[e]>>
      BY <2>1, <3>1, <3>2 DEF ConsentInv
    <3>5. worker[c] \notin {"none", "queued", "gate", "check"}
      BY <2>1 DEF ConsentInv
    <3> QED
      BY <2>1, <3>2, <3>3, <3>4, <3>5, SetsAssumption DEF ConsentInv, TypeOK
  <2> QED BY <2>2, <2>3
<1>8. ASSUME NEW c \in Calls, Rejected(c) \/ StopAsking(c) \/ ApplyRefused(c) PROVE ConsentInv'
  <2>1. Held' \subseteq Held \cup {Base}
    BY <1>8 DEF Rejected, StopAsking, ApplyRefused, DropPreview, fileVars, Held, TypeOK
  <2> QED
    BY <1>8, <2>1, EndRequestKeeps DEF Rejected, StopAsking, ApplyRefused, Approved, Deliver
<1>9. ASSUME NEW c \in Calls, ApplyPending(c) \/ RunApproved(c) PROVE ConsentInv'
  <2>1. consent[c] \in Yes /\ worker[c] = "asked" /\ EndRequest(c)
    BY <1>9 DEF ApplyPending, RunApproved, Approved, ConsentInv, Yes
  <2>2. Held' \subseteq Held \cup {Base}
    BY <1>9 DEF ApplyPending, RunApproved, DropPreview, fileVars, Held, TypeOK
  <2> QED
    BY <1>9, <2>1, <2>2, EndRequestKeeps DEF ApplyPending, RunApproved, AboutToWrite
<1>10. ASSUME NEW c \in Calls, Execute(c) \/ WriteFile(c) PROVE ConsentInv'
  <2>1. UNCHANGED <<pending, owners, answer, allowed, consent>>
    BY <1>10 DEF Execute, Edit, RunCommand, WriteFile, approvalVars
  <2>2. /\ worker[c] \in {"running", "writing"}
        /\ \E stage \in {"leaving", "writing"} : worker' = [worker EXCEPT ![c] = stage]
    BY <1>10 DEF Execute, Edit, RunCommand, WriteFile, AboutToWrite, Deliver
  <2>3. Held' \subseteq Held \cup {c, Base}
    BY <1>10, HeldAfterWrite
  <2>4. \A d \in Calls : ConsentGiven(d)' <=> ConsentGiven(d)
    BY <2>1 DEF ConsentGiven
  <2>5. \A d \in NeedsApproval : worker'[d] \in {"running", "writing"} \/ d \in Held' =>
          ConsentGiven(d)
    BY <2>2, <2>3, SetsAssumption DEF ConsentInv, TypeOK
  <2>6. \A d \in Calls : worker'[d] \in {"none", "queued", "gate", "check"} =>
          worker[d] \in {"none", "queued", "gate", "check"}
    BY <2>2 DEF TypeOK
  <2> QED
    BY <2>1, <2>4, <2>5, <2>6, SetsAssumption DEF ConsentInv
<1>11. CASE UNCHANGED vars
  BY <1>11, ConsentKept DEF vars, approvalVars, fileVars, Held
<1> QED
  BY <1>1, <1>2, <1>3, <1>4, <1>5, <1>6, <1>7, <1>8, <1>9, <1>10, <1>11 DEF Next, Worker

(* No call that needs approval changes a file without consent: its own, or *)
(* one for the session to the same call of the same task.                  *)
THEOREM NoEffectWithoutConsentAlways == Spec => []NoEffectWithoutConsent
<1>1. ConsentInv => NoEffectWithoutConsent
  BY DEF ConsentInv, NoEffectWithoutConsent, Held
<1> QED
  BY <1>1, TypeInit, TypeNext, LeaseInit, LeaseNext, ConsentInit, ConsentNext, PTL DEF Spec

-----------------------------------------------------------------------------
(* Edits                                                                   *)

(* A goroutine has asked for the files of its call; an edit on its way     *)
(* holds what it was made from, or a failed record has got at its file     *)
(* since it was checked.                                                   *)
EditInv ==
  /\ \A c \in Calls : worker[c] # "none" => ask[c] = ResourcePlan(c)
  /\ \A c \in Calls : worker[c] = "writing" => preview[c] = file[Target[c]] \/ c \in overtaken

(* Nothing is about to be written at first.                                *)
LEMMA EditInit == Init => EditInv
BY DEF Init, EditInv

(* Two goroutines at work do not work on the same file: both would have a  *)
(* lease on it.                                                            *)
LEMMA WriterAlone ==
  ASSUME LeaseInv, EditInv, NEW c \in Calls, NEW d \in Calls, c # d, Working(c), Working(d)
  PROVE  Target[c] # Target[d]
<1>1. Lease!Compatible(c, d)
  BY DEF LeaseInv
<1>2. Target[c] \in Files /\ Target[d] \in Files
  BY FunctionsAssumption
<1>3. ask[c] = ResourcePlan(c) /\ ask[d] = ResourcePlan(d)
  BY DEF EditInv, Working
<1>4. ask[c][Target[c]] = "write" /\ ask[d][Target[d]] = "write"
  BY <1>2, <1>3 DEF ResourcePlan
<1> QED
  BY <1>1, <1>2, <1>4 DEF Lease!Compatible, SameFile

(* A step of one call that leaves the files and the other previews alone.  *)
LEMMA EditKept ==
  ASSUME TypeOK, EditInv, NEW c \in Calls, UNCHANGED <<ask, file, overtaken>>,
         \A d \in Calls \ {c} : UNCHANGED <<worker[d], preview[d]>>,
         worker'[c] # "none" => worker[c] # "none",
         worker'[c] = "writing" =>
           preview'[c] = file[Target[c]] \/ (worker[c] = "writing" /\ UNCHANGED preview[c])
  PROVE  EditInv'
BY DEF EditInv

(* Every step keeps the invariant: a write leaves nobody about to write,   *)
(* and a put-back is remembered by those it overtakes.                     *)
LEMMA EditNext == TypeOK /\ LeaseInv /\ EditInv /\ [Next]_vars => EditInv'
<1> SUFFICES ASSUME TypeOK, LeaseInv, EditInv, [Next]_vars PROVE EditInv'
  OBVIOUS
<1>1. ASSUME NEW c \in Calls, Start(c) PROVE EditInv'
  BY <1>1 DEF Start, approvalVars, fileVars, TypeOK, EditInv
<1>2. ASSUME NEW c \in Calls,
             StartTooLate(c) \/ Expire(c) \/ TakeOutcome(c) \/ Interrupt(c) \/ Record(c)
      PROVE  EditInv'
  <2>1. UNCHANGED <<ask, file, overtaken, worker, preview>>
    BY <1>2
    DEF StartTooLate, Expire, TakeOutcome, Interrupt, Record, ReturnWith, leaseVars, approvalVars,
        fileVars
  <2> QED BY <2>1 DEF EditInv
<1>3. ASSUME NEW c \in Calls, RecordFails(c) PROVE EditInv'
  <2>1. UNCHANGED <<ask, worker, preview>>
    BY <1>3 DEF RecordFails, leaseVars, approvalVars
  <2>2. CASE UNCHANGED <<file, overtaken>>
    BY <2>1, <2>2 DEF EditInv
  <2>3. CASE /\ file' = [file EXCEPT ![Target[c]] = before[c]]
             /\ overtaken' = overtaken \cup
                  {d \in Calls : worker[d] = "writing" /\ Target[d] = Target[c]}
    BY <2>1, <2>3, FunctionsAssumption DEF EditInv, TypeOK
  <2> QED BY <1>3, <2>2, <2>3 DEF RecordFails
<1>4. ASSUME NEW c \in Calls,
             Acquire(c) \/ GiveUpWaiting(c) \/ LockGate(c) \/ Abandon(c) \/ Proceed(c)
               \/ PreviewEnds(c) \/ Leave(c)
      PROVE  EditInv'
  <2>1. UNCHANGED <<ask, file, overtaken, preview>> /\ worker[c] # "none"
    BY <1>4
    DEF Acquire, GiveUpWaiting, LockGate, Abandon, Proceed, PreviewEnds, Leave, Lease!Grant,
        Lease!GiveUp, Lease!Return, leaseVars, approvalVars, fileVars
  <2>2. \E stage \in Stages \ {"writing"} : worker' = [worker EXCEPT ![c] = stage]
    BY <1>4
    DEF Acquire, GiveUpWaiting, LockGate, Abandon, Proceed, PreviewEnds, Leave, Deliver, Stages
  <2> QED BY <2>1, <2>2, EditKept DEF TypeOK
<1>5. ASSUME NEW c \in Calls,
             Ask(c) \/ Rejected(c) \/ StopAsking(c) \/ ApplyRefused(c) \/ RunApproved(c)
      PROVE  EditInv'
  <2>1. UNCHANGED <<ask, file, overtaken>> /\ worker[c] # "none"
    BY <1>5
    DEF Ask, Rejected, StopAsking, ApplyRefused, RunApproved, Approved, EndRequest, leaseVars,
        fileVars
  <2>2. \E stage \in Stages \ {"writing"} : worker' = [worker EXCEPT ![c] = stage]
    BY <1>5 DEF Ask, Rejected, StopAsking, ApplyRefused, RunApproved, Deliver, Stages
  <2>3. \A d \in Calls \ {c} : preview'[d] = preview[d]
    BY <1>5 DEF Ask, Rejected, StopAsking, ApplyRefused, RunApproved, DropPreview, TypeOK
  <2> QED BY <2>1, <2>2, <2>3, EditKept DEF TypeOK
<1>6. ASSUME NEW c \in Calls, ApplyPending(c) PROVE EditInv'
  <2>1. UNCHANGED <<ask, file, overtaken, preview>>
    BY <1>6 DEF ApplyPending, EndRequest, leaseVars, fileVars
  <2>2. /\ worker[c] # "none" /\ preview'[c] = file[Target[c]]
        /\ worker' = [worker EXCEPT ![c] = "writing"]
    BY <1>6, <2>1 DEF ApplyPending, Approved, AboutToWrite
  <2> QED BY <2>1, <2>2, EditKept DEF TypeOK
<1>7. ASSUME NEW c \in Calls, Edit(c) PROVE EditInv'
  <2>1. /\ UNCHANGED <<ask, file, overtaken>> /\ worker[c] # "none"
        /\ preview' = [preview EXCEPT ![c] = file[Target[c]]]
        /\ worker' = [worker EXCEPT ![c] = "writing"]
    BY <1>7 DEF Edit, AboutToWrite, leaseVars, fileVars
  <2> QED BY <2>1, EditKept DEF TypeOK
<1>8. ASSUME NEW c \in Calls, WriteFile(c) \/ RunCommand(c) PROVE EditInv'
  <2>1. UNCHANGED <<ask, overtaken>> /\ Working(c)
    BY <1>8 DEF WriteFile, RunCommand, leaseVars, Working
  <2>2. /\ worker[c] # "none" /\ worker'[c] = "leaving"
        /\ \A d \in Calls \ {c} : worker'[d] = worker[d]
    BY <1>8 DEF WriteFile, RunCommand, Deliver, TypeOK
  <2>3. \A d \in Calls \ {c} : preview'[d] = preview[d]
    BY <1>8 DEF WriteFile, DropPreview, RunCommand, approvalVars, TypeOK
  <2>4. \A f \in Files \ {Target[c]} : file'[f] = file[f]
    BY <1>8 DEF WriteFile, RunCommand, TypeOK
  <2>5. \A d \in Calls \ {c} : worker[d] = "writing" => file'[Target[d]] = file[Target[d]]
    <3> SUFFICES ASSUME NEW d \in Calls \ {c}, worker[d] = "writing"
                 PROVE  file'[Target[d]] = file[Target[d]]
      OBVIOUS
    <3>1. Target[d] # Target[c]
      BY <2>1, WriterAlone DEF Working
    <3> QED BY <2>4, <3>1, FunctionsAssumption
  <2> QED BY <2>1, <2>2, <2>3, <2>5 DEF EditInv
<1>9. ASSUME NEW c \in Calls, Execute(c) PROVE EditInv'
  <2>1. CASE /\ worker[c] = "running" /\ Deliver(c, "unchanged", "leaving")
             /\ UNCHANGED <<callerVars, leaseVars, approvalVars, fileVars, failures>>
    BY <2>1, EditKept DEF Deliver, leaseVars, approvalVars, fileVars, TypeOK
  <2> QED BY <1>7, <1>8, <1>9, <2>1 DEF Execute
<1>10. ASSUME NEW c \in Calls, NEW d \in Answers, Respond(c, d) PROVE EditInv'
  BY <1>10 DEF Respond, leaseVars, fileVars, EditInv
<1>11. ASSUME NEW t \in Tasks, CancelTask(t) PROVE EditInv'
  BY <1>11 DEF CancelTask, leaseVars, approvalVars, fileVars, EditInv
<1>12. CASE UNCHANGED vars
  BY <1>12 DEF vars, leaseVars, approvalVars, fileVars, EditInv
<1> QED
  BY <1>1, <1>2, <1>3, <1>4, <1>5, <1>6, <1>7, <1>8, <1>9, <1>10, <1>11, <1>12
  DEF Next, Caller, Worker

(* An edit replaces the content its diff was made from, with the consent   *)
(* it needs, unless a failed record is put back under it between its check *)
(* and its write.                                                          *)
THEOREM ApprovedChangeOnlyAlways == Spec => ApprovedChangeOnly
<1>1. TypeOK /\ ConsentInv /\ EditInv /\ [Next]_vars =>
        [\A c \in Calls :
           worker[c] = "writing" /\ file[Target[c]] # c /\ file'[Target[c]] = c =>
             /\ preview[c] = file[Target[c]] \/ c \in overtaken
             /\ c \in NeedsApproval => ConsentGiven(c)]_vars
  BY DEF ConsentInv, EditInv
<1> QED
  BY <1>1, TypeInit, TypeNext, LeaseInit, LeaseNext, ConsentInit, ConsentNext, EditInit, EditNext,
     PTL
  DEF Spec, ApprovedChangeOnly

-----------------------------------------------------------------------------
(* Accounting                                                              *)

AtWork == {"queued", "gate", "check", "asked", "running", "writing"}
Unsettled(c) == pc[c] \in {"waiting", "recording"} \/ status[c] \in {"recorded", "unrecorded", "interrupted"}

(* A goroutine at work is waited for, or has been given up and reported as *)
(* interrupted; only one that has done its work delivers; what was         *)
(* delivered as unchanged has changed nothing, and what goes unreported is *)
(* no edit.                                                                *)
AccountInv ==
  /\ \A c \in Calls : worker[c] \in AtWork =>
       /\ done[c] = "none" /\ c \notin Held
       /\ pc[c] = "waiting" \/ (pc[c] = "returned" /\ status[c] = "interrupted")
  /\ \A c \in Calls : worker[c] = "none" => c \notin Held /\ done[c] = "none"
  /\ \A c \in Calls : done[c] = "unchanged" => c \notin Held
  /\ \A c \in Mutating : done[c] # "unreported" /\ (c \in Held => Unsettled(c))

(* No file has been touched at first.                                      *)
LEMMA AccountInit == Init => AccountInv
BY SetsAssumption, FunctionsAssumption DEF Init, AccountInv, Held, AtWork

(* A goroutine that changes nothing moves on, and may deliver that.        *)
LEMMA QuietStepKeeps ==
  ASSUME TypeOK, AccountInv, NEW c \in Calls, worker[c] \in AtWork,
         Held' \subseteq Held \cup {Base}, UNCHANGED <<pc, status>>, NEW stage \in Stages \ {"none"},
         worker' = [worker EXCEPT ![c] = stage],
         \/ UNCHANGED done
         \/ stage \notin AtWork
            /\ done' = [done EXCEPT ![c] = IF pc[c] = "waiting" THEN "unchanged" ELSE @]
  PROVE  AccountInv'
<1>1. \A d \in Calls : Unsettled(d)' <=> Unsettled(d)
  BY DEF Unsettled
<1>2. \A d \in Calls \ {c} : worker'[d] = worker[d] /\ done'[d] = done[d]
  BY DEF TypeOK
<1>3. worker'[c] = stage /\ done'[c] \in {"none", "unchanged"} /\ (stage \in AtWork => done'[c] = "none")
  BY DEF TypeOK, AccountInv
<1> QED
  BY <1>1, <1>2, <1>3, SetsAssumption DEF AccountInv

(* A goroutine that writes is then waited for, or was given up.            *)
LEMMA WriteKeepsAccount ==
  ASSUME TypeOK, AccountInv, NEW c \in Calls, worker[c] \in AtWork,
         Held' \subseteq Held \cup {c, Base}, UNCHANGED <<pc, status>>,
         NEW result \in {"changed", "unreported"}, result = "unreported" => c \notin Mutating,
         Deliver(c, result, "leaving")
  PROVE  AccountInv'
<1>1. \A d \in Calls : Unsettled(d)' <=> Unsettled(d)
  BY DEF Unsettled
<1>2. \A d \in Calls \ {c} : worker'[d] = worker[d] /\ done'[d] = done[d]
  BY DEF Deliver, TypeOK
<1>3. worker'[c] = "leaving" /\ done'[c] \in {"none", result}
  BY DEF Deliver, TypeOK, AccountInv
<1>4. Unsettled(c)
  BY DEF AccountInv, Unsettled
<1> QED
  BY <1>1, <1>2, <1>3, <1>4, SetsAssumption DEF AccountInv, AtWork

(* Every step keeps the invariant.                                         *)
LEMMA AccountNext == TypeOK /\ LeaseInv /\ AccountInv /\ [Next]_vars => AccountInv'
<1> SUFFICES ASSUME TypeOK, LeaseInv, AccountInv, [Next]_vars PROVE AccountInv'
  OBVIOUS
<1> USE DEF AtWork, Stages
<1>1. ASSUME NEW c \in Calls, Start(c) \/ StartTooLate(c) PROVE AccountInv'
  <2>1. Held' = Held /\ UNCHANGED done /\ worker[c] = "none" /\ c \notin Held
    BY <1>1 DEF Start, StartTooLate, approvalVars, fileVars, Held, LeaseInv, AccountInv
  <2>2. \/ /\ worker' = [worker EXCEPT ![c] = "queued"] /\ pc' = [pc EXCEPT ![c] = "waiting"]
           /\ UNCHANGED status
        \/ /\ UNCHANGED worker /\ pc' = [pc EXCEPT ![c] = "returned"]
           /\ status' = [status EXCEPT ![c] = "interrupted"]
    BY <1>1 DEF Start, StartTooLate
  <2>3. \A d \in Calls : Unsettled(d) /\ d # c => Unsettled(d)'
    BY <2>2 DEF Unsettled, TypeOK
  <2>4. /\ \A d \in Calls \ {c} : UNCHANGED <<worker[d], pc[d], status[d]>>
        /\ worker'[c] \in AtWork => pc'[c] = "waiting"
    BY <2>1, <2>2 DEF TypeOK
  <2>5. \A d \in Calls : worker'[d] \in AtWork =>
          pc'[d] = "waiting" \/ (pc'[d] = "returned" /\ status'[d] = "interrupted")
    BY <2>4 DEF AccountInv
  <2>6. \A d \in Mutating : d \in Held => Unsettled(d)'
    BY <2>1, <2>3, SetsAssumption DEF AccountInv
  <2> QED
    BY <2>1, <2>4, <2>5, <2>6, SetsAssumption DEF AccountInv
<1>2. ASSUME NEW c \in Calls, Expire(c) PROVE AccountInv'
  BY <1>2 DEF Expire, AccountInv, Unsettled, approvalVars, fileVars, Held
<1>3. ASSUME NEW t \in Tasks, CancelTask(t) PROVE AccountInv'
  BY <1>3 DEF CancelTask, AccountInv, Unsettled, approvalVars, fileVars, Held
<1>4. ASSUME NEW c \in Calls, Caller(c) PROVE AccountInv'
  <2>1. UNCHANGED worker /\ Held' \subseteq Held \cup {Base}
    BY <1>4, FunctionsAssumption
    DEF Caller, TakeOutcome, Interrupt, Record, RecordFails, ReturnWith, approvalVars, Held, TypeOK
  <2>2. \A d \in Calls \ {c} : UNCHANGED <<pc[d], status[d], done[d]>>
    BY <1>4 DEF Caller, TakeOutcome, Interrupt, Record, RecordFails, ReturnWith, TypeOK
  <2>3. CASE TakeOutcome(c)
    <3>1. worker[c] \notin AtWork \cup {"none"} /\ done'[c] = "none"
      BY <2>3 DEF TakeOutcome, ReturnWith, AccountInv, TypeOK
    <3>2. pc'[c] = "recording" \/ c \notin Held \/ c \notin Mutating
      BY <2>3 DEF TakeOutcome, ReturnWith, AccountInv, TypeOK, Results
    <3> QED
      BY <2>1, <2>2, <3>1, <3>2, SetsAssumption DEF AccountInv, Unsettled
  <2>4. CASE Interrupt(c)
    <3>1. done'[c] = "none" /\ pc'[c] = "returned" /\ status'[c] = "interrupted"
      BY <2>4 DEF Interrupt, ReturnWith, TypeOK
    <3> QED
      BY <2>1, <2>2, <3>1, SetsAssumption DEF AccountInv, Unsettled
  <2>5. CASE Record(c) \/ RecordFails(c)
    <3>1. worker[c] \notin AtWork
      BY <2>5 DEF Record, RecordFails, AccountInv
    <3>2. UNCHANGED done /\ status'[c] \in {"recorded", "unrecorded"}
      BY <2>5 DEF Record, RecordFails, TypeOK
    <3> QED
      BY <2>1, <2>2, <3>1, <3>2, SetsAssumption DEF AccountInv, Unsettled
  <2> QED BY <1>4, <2>3, <2>4, <2>5 DEF Caller
<1>5. ASSUME NEW c \in Calls,
             Acquire(c) \/ GiveUpWaiting(c) \/ LockGate(c) \/ Abandon(c) \/ Proceed(c) \/ PreviewEnds(c)
      PROVE  AccountInv'
  <2>1. UNCHANGED <<pc, status>> /\ Held' = Held /\ worker[c] \in AtWork
    BY <1>5
    DEF Acquire, GiveUpWaiting, LockGate, Abandon, Proceed, PreviewEnds, callerVars, approvalVars, fileVars, Held
  <2>2. CASE GiveUpWaiting(c) \/ PreviewEnds(c)
    BY <2>1, <2>2, QuietStepKeeps DEF GiveUpWaiting, PreviewEnds, Deliver
  <2>3. CASE Acquire(c) \/ LockGate(c) \/ Abandon(c) \/ Proceed(c)
    BY <2>1, <2>3, QuietStepKeeps DEF Acquire, LockGate, Abandon, Proceed
  <2> QED BY <1>5, <2>2, <2>3
<1>6. ASSUME NEW c \in Calls,
             Ask(c) \/ Rejected(c) \/ StopAsking(c) \/ ApplyPending(c) \/ ApplyRefused(c)
               \/ RunApproved(c)
      PROVE  AccountInv'
  <2>1. UNCHANGED <<pc, status>> /\ worker[c] \in AtWork
    BY <1>6
    DEF Ask, Rejected, StopAsking, ApplyPending, ApplyRefused, RunApproved, Approved, EndRequest,
        callerVars
  <2>2. Held' \subseteq Held \cup {Base}
    BY <1>6, FunctionsAssumption
    DEF Ask, Rejected, StopAsking, ApplyPending, ApplyRefused, RunApproved, DropPreview, fileVars,
        Held, TypeOK
  <2>3. CASE Rejected(c) \/ StopAsking(c) \/ ApplyRefused(c)
    BY <2>1, <2>2, <2>3, QuietStepKeeps DEF Rejected, StopAsking, ApplyRefused, Deliver
  <2>4. CASE Ask(c) \/ ApplyPending(c) \/ RunApproved(c)
    BY <2>1, <2>2, <2>4, QuietStepKeeps DEF Ask, ApplyPending, RunApproved, AboutToWrite
  <2> QED BY <1>6, <2>3, <2>4
<1>7. ASSUME NEW c \in Calls, WriteFile(c) PROVE AccountInv'
  <2>1. UNCHANGED <<pc, status>> /\ worker[c] \in AtWork
    BY <1>7 DEF WriteFile, callerVars
  <2>2. CASE Deliver(c, "changed", "leaving")
    BY <1>7, <2>1, <2>2, HeldAfterWrite, WriteKeepsAccount
  <2>3. CASE UNCHANGED <<file, before>> /\ Deliver(c, "unchanged", "leaving")
    <3>1. Held' \subseteq Held \cup {Base}
      BY <1>7, <2>3 DEF WriteFile, DropPreview, Held, TypeOK
    <3> QED BY <2>1, <2>3, <3>1, QuietStepKeeps DEF Deliver
  <2> QED BY <1>7, <2>2, <2>3 DEF WriteFile
<1>8. ASSUME NEW c \in Calls, Execute(c) PROVE AccountInv'
  <2>1. UNCHANGED <<pc, status>> /\ worker[c] \in AtWork
    BY <1>8 DEF Execute, Edit, RunCommand, callerVars
  <2>2. CASE Edit(c)
    <3>1. Held' \subseteq Held
      BY <2>2, FunctionsAssumption DEF Edit, fileVars, Held, TypeOK
    <3> QED BY <2>1, <2>2, <3>1, QuietStepKeeps DEF Edit, AboutToWrite
  <2>3. CASE RunCommand(c)
    BY <1>8, <2>1, <2>3, HeldAfterWrite, WriteKeepsAccount DEF RunCommand
  <2>4. CASE UNCHANGED <<approvalVars, fileVars>> /\ Deliver(c, "unchanged", "leaving")
    BY <2>1, <2>4, QuietStepKeeps DEF Deliver, approvalVars, fileVars, Held
  <2> QED BY <1>8, <2>2, <2>3, <2>4 DEF Execute
<1>9. ASSUME NEW c \in Calls, NEW d \in Answers, Respond(c, d) PROVE AccountInv'
  BY <1>9 DEF Respond, callerVars, AccountInv, Unsettled, approvalVars, fileVars, Held
<1>10. ASSUME NEW c \in Calls, Leave(c) PROVE AccountInv'
  BY <1>10 DEF Leave, callerVars, AccountInv, Unsettled, approvalVars, fileVars, Held, TypeOK
<1>11. CASE UNCHANGED vars
  BY <1>11 DEF vars, callerVars, AccountInv, Unsettled, approvalVars, fileVars, Held
<1> QED
  BY <1>1, <1>2, <1>3, <1>4, <1>5, <1>6, <1>7, <1>8, <1>9, <1>10, <1>11 DEF Next, Worker

(* A change the log of its session does not know of belongs to a call that *)
(* has not been reported as done.                                          *)
THEOREM ChangesAccountedAlways == Spec => []ChangesAccounted
<1>1. TypeOK /\ AccountInv => ChangesAccounted
  BY DEF TypeOK, AccountInv, ChangesAccounted, Held, Unsettled
<1> QED
  BY <1>1, TypeInit, TypeNext, LeaseInit, LeaseNext, AccountInit, AccountNext, PTL DEF Spec
=============================================================================
