------------------------ MODULE SessionTimelineProofs ------------------------
(***************************************************************************)
(* Proofs about the conversation tree and the workspace.  What a chain of   *)
(* the tree contains is proved by looking at the smallest event for which   *)
(* it would be wrong.  As long as nobody has begun to work on a session on  *)
(* which others were at work (~crossed), one actor moves it at a time.      *)
(***************************************************************************)
EXTENDS SessionTimeline, WellFoundedInduction, TLAPS

-----------------------------------------------------------------------------
(* Numbers                                                                 *)

(* Every set of numbers has a least one.                                   *)
LEMMA LeastNumber ==
  ASSUME NEW T \in SUBSET Nat, T # {}
  PROVE  \E x \in T : \A y \in T : x <= y
<1>1. PICK x \in T : \A y \in T : ~(<<y, x>> \in OpToRel(<, Nat))
  BY WFMin, NatLessThanWellFounded
<1>2. \A y \in T : ~(y < x)
  BY <1>1 DEF OpToRel
<1> QED BY <1>2

(* The events of a log are finitely many: any of them have an oldest and a  *)
(* newest.                                                                 *)
LEMMA OldestIsLeast ==
  ASSUME NEW n \in Nat, NEW T \in SUBSET (1..n), T # {}
  PROVE  Oldest(T) \in T /\ \A y \in T : Oldest(T) <= y
<1>1. T \in SUBSET Nat
  OBVIOUS
<1>2. \E x \in T : \A y \in T : x <= y
  BY <1>1, LeastNumber
<1> QED BY <1>2 DEF Oldest

(* Newest is the greatest of some events.                                  *)
LEMMA NewestIsGreatest ==
  ASSUME NEW n \in Nat, NEW T \in SUBSET (1..n), T # {}
  PROVE  Newest(T) \in T /\ \A y \in T : y <= Newest(T)
<1> DEFINE Above == {b \in Nat : \A y \in T : y <= b}
<1>1. n \in Above
  OBVIOUS
<1>2. PICK x \in Above : \A y \in Above : x <= y
  <2>1. Above \in SUBSET Nat /\ Above # {}
    BY <1>1
  <2> HIDE DEF Above
  <2> QED BY <2>1, LeastNumber
<1>3. x \in T
  <2>1. CASE x = 0
    <3>1. PICK y \in T : y <= x
      OBVIOUS
    <3>2. y \in 1..n
      OBVIOUS
    <3> QED BY <2>1, <3>1, <3>2
  <2>2. CASE x # 0
    <3>0. x \in Nat
      OBVIOUS
    <3>1. x - 1 \in Nat /\ ~(x - 1 \in Above)
      <4>1. x - 1 \in Nat /\ ~(x <= x - 1)
        BY <2>2, <3>0
      <4> HIDE DEF Above
      <4> QED BY <1>2, <4>1
    <3>2. PICK y \in T : ~(y <= x - 1)
      BY <3>1
    <3>3. y <= x
      BY <1>2
    <3>4. y = x
      BY <1>2, <3>2, <3>3
    <3> QED BY <3>4
  <2> QED BY <2>1, <2>2
<1>4. \E m \in T : \A y \in T : y <= m
  BY <1>2, <1>3
<1> QED BY <1>4 DEF Newest

-----------------------------------------------------------------------------
(* The tree                                                                *)

(* What the type of the log says of its events.                            *)
LEMMA EventsTyped ==
  ASSUME LogOK
  PROVE  /\ Len(log) \in Nat /\ log \in Seq(Entries) /\ Root \in Places
         /\ \A i \in Events : /\ i \in Nat /\ i # 0 /\ i <= Len(log) /\ i \in Places
                              /\ log[i] \in Entries /\ log[i].path \in Paths
                              /\ log[i].before \in Contents /\ log[i].after \in Contents
                              /\ log[i].parent \in Nat /\ log[i].parent < i /\ log[i].parent \in Places
         /\ \A i \in Places : i \in Nat /\ i <= Len(log) /\ (i # 0 => i \in Events)
<1>1. log \in Seq(Entries) /\ Len(log) \in Nat /\ Root \in Places
  BY DEF LogOK, Places, Root
<1>2. ASSUME NEW i \in Events
      PROVE  /\ i \in Nat /\ i # 0 /\ i <= Len(log) /\ i \in Places
             /\ log[i] \in Entries /\ log[i].parent < i
  BY <1>1 DEF LogOK, Events, Places
<1>3. ASSUME NEW e \in Entries
      PROVE  e.path \in Paths /\ e.before \in Contents /\ e.after \in Contents /\ e.parent \in Nat
  BY DEF Entries
<1>4. ASSUME NEW i \in Events PROVE log[i].parent \in Places
  BY <1>1, <1>2, <1>3 DEF Places
<1>5. \A i \in Places : i \in Nat /\ i <= Len(log) /\ (i # 0 => i \in Events)
  BY <1>1 DEF Places, Events
<1> QED BY <1>1, <1>2, <1>3, <1>4, <1>5

(* The recursion of Chain is well founded, for every parent is an earlier   *)
(* event.                                                                  *)
LEMMA ChainExists ==
  ASSUME LogOK
  PROVE  \E f : f = [i \in Places |-> IF i = Root THEN {} ELSE f[log[i].parent] \cup {i}]
<1> DEFINE Fits(n, f) == f = [i \in 0..n |-> IF i = 0 THEN {} ELSE f[log[i].parent] \cup {i}]
           Bad == {n \in Places : ~\E f : Fits(n, f)}
<1>1. /\ Len(log) \in Nat
      /\ \A i \in 1..Len(log) : log[i].parent \in Nat /\ log[i].parent < i
  BY EventsTyped DEF Events
<1>2. ASSUME Bad # {} PROVE FALSE
  <2>1. PICK n \in Bad : \A m \in Bad : n <= m
    <3>1. Bad \in SUBSET Nat
      BY DEF Places
    <3> HIDE DEF Bad
    <3> QED BY <1>2, <3>1, LeastNumber
  <2>2. n \in Nat /\ n <= Len(log) /\ n \in Places /\ ~\E f : Fits(n, f)
    BY <1>1, <2>1 DEF Places
  <2>3. CASE n = 0
    <3>1. Fits(0, [i \in 0..0 |-> {}])
      <4>1. \A i \in 0..0 : i = 0
        OBVIOUS
      <4> QED BY <4>1
    <3> QED BY <2>2, <2>3, <3>1
  <2>4. CASE n # 0
    <3>1. n - 1 \in Nat /\ n - 1 \in Places /\ ~(n <= n - 1)
      BY <1>1, <2>2, <2>4 DEF Places
    <3>2. PICK g : Fits(n - 1, g)
      BY <2>1, <3>1
    <3> DEFINE h == [i \in 0..n |-> IF i = n THEN g[log[n].parent] \cup {n} ELSE g[i]]
    <3>3. ASSUME NEW i \in 0..n PROVE h[i] = IF i = 0 THEN {} ELSE h[log[i].parent] \cup {i}
      <4>1. CASE i = 0
        BY <2>2, <2>4, <3>2, <4>1
      <4>2. CASE i # 0
        <5>1. log[i].parent \in 0..n /\ log[i].parent # n /\ log[i].parent < i
          BY <1>1, <2>2, <4>2
        <5>2. h[log[i].parent] = g[log[i].parent]
          BY <5>1
        <5>3. CASE i = n
          BY <2>4, <5>2, <5>3
        <5>4. CASE i # n
          <6>1. i \in 0..(n - 1)
            BY <2>2, <5>4
          <6>2. g[i] = g[log[i].parent] \cup {i}
            BY <3>2, <4>2, <6>1
          <6> QED BY <4>2, <5>2, <5>4, <6>2
        <5> QED BY <5>3, <5>4
      <4> QED BY <4>1, <4>2
    <3>4. Fits(n, h)
      <4>1. h = [i \in 0..n |-> h[i]]
        OBVIOUS
      <4> HIDE DEF h
      <4> QED BY <3>3, <4>1
    <3> QED BY <2>2, <3>4
  <2> QED BY <2>3, <2>4
<1>3. Len(log) \in Places
  BY <1>1 DEF Places
<1>4. \E f : Fits(Len(log), f)
  BY <1>2, <1>3
<1> QED BY <1>4 DEF Places, Root

(* The defining equation of a chain: parents are earlier.                  *)
LEMMA ChainRecursion ==
  ASSUME LogOK
  PROVE  Chain = [i \in Places |-> IF i = Root THEN {} ELSE Chain[log[i].parent] \cup {i}]
<1> DEFINE Fits(f) == f = [i \in 0..Len(log) |-> IF i = Root THEN {} ELSE f[log[i].parent] \cup {i}]
<1>1. Chain = CHOOSE f : Fits(f)
  BY DEF Chain
<1>2. \E f : Fits(f)
  BY ChainExists DEF Places
<1> HIDE DEF Fits
<1>3. Fits(Chain)
  BY <1>1, <1>2
<1> QED BY <1>3 DEF Fits, Places

(* A chain goes up from its event, and the chain of every event on it is    *)
(* its part up to there.                                                   *)
Upwards ==
  /\ Chain[Root] = {}
  /\ \A i \in Places : Chain[i] \subseteq 1..i
  /\ \A i \in Events : i \in Chain[i] /\ Chain[i] = Chain[log[i].parent] \cup {i}
  /\ \A i \in Places : \A j \in Chain[i] : Chain[j] = Chain[i] \cap (1..j)

(* A least event whose chain does not go up would have a parent.           *)
LEMMA ChainUpwards == LogOK => Upwards
<1> SUFFICES ASSUME LogOK PROVE Upwards
  OBVIOUS
<1>1. /\ Len(log) \in Nat
      /\ \A i \in Events : /\ i \in Places /\ i \in Nat /\ i # 0
                           /\ log[i].parent \in Places /\ log[i].parent \in Nat /\ log[i].parent < i
      /\ \A i \in Places : i \in Nat /\ (i # 0 => i \in Events)
  BY EventsTyped
<1>2. /\ Chain[Root] = {}
      /\ \A i \in Events : Chain[i] = Chain[log[i].parent] \cup {i}
  BY <1>1, ChainRecursion DEF Places, Root
<1> DEFINE Good(i) == Chain[i] \subseteq 1..i /\ \A j \in Chain[i] : Chain[j] = Chain[i] \cap (1..j)
           Bad == {i \in Places : ~Good(i)}
<1>3. ASSUME Bad # {} PROVE FALSE
  <2>1. PICK i \in Bad : \A j \in Bad : i <= j
    <3>1. Bad \in SUBSET Nat
      BY <1>1
    <3> HIDE DEF Bad
    <3> QED BY <1>3, <3>1, LeastNumber
  <2>2. i \in Places /\ ~Good(i)
    BY <2>1
  <2>3. i # 0
    BY <1>2, <2>2 DEF Root
  <2> DEFINE q == log[i].parent
  <2>4. i \in Events /\ q \in Places /\ q \in Nat /\ q < i /\ i \in Nat /\ Chain[i] = Chain[q] \cup {i}
    BY <1>1, <1>2, <2>2, <2>3
  <2>5. Chain[q] \subseteq 1..q /\ \A j \in Chain[q] : Chain[j] = Chain[q] \cap (1..j)
    <3>1. Good(q)
      BY <2>1, <2>4
    <3> QED BY <3>1
  <2> HIDE DEF q, Bad
  <2>6. Chain[i] \subseteq 1..i
    BY <2>4, <2>5
  <2>7. ASSUME NEW j \in Chain[i] PROVE Chain[j] = Chain[i] \cap (1..j)
    <3>1. CASE j = i
      BY <2>6, <3>1
    <3>2. CASE j # i
      <4>1. j \in Chain[q] /\ Chain[j] = Chain[q] \cap (1..j)
        BY <2>4, <2>5, <3>2
      <4>2. ~(i \in 1..j)
        BY <2>4, <2>5, <4>1
      <4> QED BY <2>4, <4>1, <4>2
    <3> QED BY <3>1, <3>2
  <2> QED BY <2>2, <2>6, <2>7
<1>4. \A i \in Places : Good(i)
  BY <1>3
<1> QED BY <1>2, <1>4 DEF Upwards

(* A chain is a set of events.                                             *)
LEMMA ChainOfEvents ==
  ASSUME LogOK, NEW i \in Places
  PROVE  Chain[i] \subseteq Events /\ \A j \in Chain[i] : j \in Places /\ j <= i
<1>1. Chain[i] \subseteq 1..i /\ i \in Nat /\ i <= Len(log) /\ Len(log) \in Nat
  BY ChainUpwards, EventsTyped DEF Upwards
<1>2. 1..i \subseteq 1..Len(log) /\ \A j \in 1..i : j <= i
  BY <1>1
<1> QED BY <1>1, <1>2, EventsTyped DEF Events

(* The chain of an event on a chain, or of the root, is its beginning.     *)
LEMMA ChainPrefix ==
  ASSUME LogOK, NEW h \in Places, NEW t \in Chain[h] \cup {Root}
  PROVE  t \in Places /\ Chain[t] = {i \in Chain[h] : i <= t}
<1>1. Chain[h] \subseteq 1..h /\ h \in Nat /\ Chain[Root] = {} /\ Root \in Places
  BY ChainUpwards, EventsTyped DEF Upwards
<1>2. CASE t = Root
  BY <1>1, <1>2 DEF Root
<1>3. CASE t \in Chain[h]
  <2>1. Chain[t] = Chain[h] \cap (1..t) /\ t \in Places
    BY <1>3, ChainUpwards, ChainOfEvents DEF Upwards
  <2>2. \A i \in 1..h : i \in 1..t <=> i <= t
    BY <1>1, <1>3
  <2> QED BY <1>1, <2>1, <2>2
<1> QED BY <1>2, <1>3

(* The common ancestor lies on both chains.                                *)
LEMMA AncestorOfBoth ==
  ASSUME LogOK, NEW i \in Places, NEW j \in Places
  PROVE  /\ CommonAncestor(i, j) \in Chain[i] \cup {Root}
         /\ CommonAncestor(i, j) \in Chain[j] \cup {Root}
<1> DEFINE common == Chain[i] \cap Chain[j]
<1>1. common \subseteq 1..i /\ i \in Nat
  BY ChainUpwards, EventsTyped DEF Upwards
<1>2. CASE common = {}
  BY <1>2 DEF CommonAncestor
<1>3. CASE common # {}
  <2>1. CommonAncestor(i, j) = Newest(common)
    BY <1>3 DEF CommonAncestor
  <2>2. Newest(common) \in common
    <3> HIDE DEF common
    <3> QED BY <1>1, <1>3, NewestIsGreatest
  <2> QED BY <2>1, <2>2
<1> QED BY <1>2, <1>3

(* The log only grows at its end, and what was there stays what it was.     *)
LEMMA ChainsGrow ==
  ASSUME LogOK, LogOK', NEW e, log' = Append(log, e)
  PROVE  /\ Len(log') = Len(log) + 1 /\ Len(log) + 1 \in Events'
         /\ Events \subseteq Events' /\ Places \subseteq Places'
         /\ log'[Len(log) + 1] = e /\ \A i \in Events : log'[i] = log[i]
         /\ \A i \in Places : Chain'[i] = Chain[i]
<1>1. /\ Len(log) \in Nat /\ Len(log') = Len(log) + 1
      /\ log'[Len(log) + 1] = e /\ \A i \in Events : log'[i] = log[i]
  BY EventsTyped DEF Events
<1>2. Events \subseteq Events' /\ Places \subseteq Places' /\ Len(log) + 1 \in Events'
  BY <1>1 DEF Events, Places
<1>3. Upwards /\ Upwards'
  BY ChainUpwards, PTL
<1> DEFINE Bad == {i \in Places : Chain'[i] # Chain[i]}
<1>4. ASSUME Bad # {} PROVE FALSE
  <2>1. PICK i \in Bad : \A j \in Bad : i <= j
    <3>1. Bad \in SUBSET Nat
      BY EventsTyped
    <3> HIDE DEF Bad
    <3> QED BY <1>4, <3>1, LeastNumber
  <2>2. i \in Places /\ Chain'[i] # Chain[i]
    BY <2>1
  <2>3. i # 0
    BY <1>3, <2>2 DEF Upwards, Root
  <2>4. i \in Events /\ log[i].parent \in Places /\ log[i].parent < i /\ log[i].parent \in Nat /\ i \in Nat
    BY <2>2, <2>3, EventsTyped
  <2>5. Chain[i] = Chain[log[i].parent] \cup {i} /\ Chain'[i] = Chain'[log[i].parent] \cup {i}
    BY <1>1, <1>2, <1>3, <2>4 DEF Upwards
  <2>6. ~(log[i].parent \in Bad)
    <3> HIDE DEF Bad
    <3> QED BY <2>1, <2>4
  <2>7. Chain'[log[i].parent] = Chain[log[i].parent]
    BY <2>4, <2>6
  <2> QED BY <2>2, <2>5, <2>7
<1> QED BY <1>1, <1>2, <1>4

-----------------------------------------------------------------------------
(* Types                                                                   *)

(* Without a new event the tree is what it was.                            *)
LEMMA Steady ==
  ASSUME UNCHANGED log
  PROVE  Events' = Events /\ Places' = Places /\ Chain' = Chain
BY DEF Events, Places, Chain

(* The constants, in the form the steps below use.                         *)
LEMMA Bounds ==
  /\ MaxEvents \in Nat /\ MaxTroubles \in Nat /\ NoHead \notin Nat
  /\ Display \in Stores /\ Runtimes \subseteq Stores /\ Display \notin Runtimes
BY BoundsAssumption, HeadAssumption, StoresAssumption DEF Stores

(* The change before the first one.                                        *)
LEMMA NoChangeTyped == NoChange \in Changes
<1>1. NoChange.path \in Paths
  BY PathsAssumption DEF NoChange
<1> QED BY <1>1 DEF NoChange, Changes, Contents

(* The restoration that is none.                                           *)
LEMMA IdleTyped ==
  ASSUME LogOK
  PROVE  Idle \in Restorations
<1>1. [p \in {} |-> Absent] \in UNION {[some -> Contents] : some \in SUBSET Paths}
  <2>1. [p \in {} |-> Absent] \in [{} -> Contents]
    OBVIOUS
  <2> QED BY <2>1
<1> QED BY <1>1, EventsTyped DEF Idle, Restorations

(* The head that is loaded is the root or an event.                        *)
LEMMA LoadHeadTyped ==
  ASSUME LogOK
  PROVE  LoadHead \in Places
BY EventsTyped DEF LoadHead, Places, Root

(* A line is appended.                                                     *)
LEMMA Appended ==
  ASSUME LogOK, StoresOK, NEW s \in Stores, NEW type \in Types, NEW edit \in Changes,
         AppendLine(s, type, edit)
  PROVE  /\ LogOK' /\ StoresOK'
         /\ Events \subseteq Events' /\ Places \subseteq Places'
         /\ head'[s] = Len(log) + 1
<1> DEFINE e == [type |-> type, parent |-> head[s], path |-> edit.path,
                 before |-> edit.before, after |-> edit.after]
<1>1. /\ Len(log) \in Nat /\ Len(log) + 1 <= MaxEvents /\ log' = Append(log, e)
      /\ log \in Seq(Entries) /\ head[s] \in Places /\ head[s] \in Nat /\ head[s] <= Len(log)
  BY EventsTyped, Bounds DEF AppendLine, StoresOK, Places
<1>2. e \in Entries /\ e.parent = head[s]
  BY <1>1 DEF Entries, Changes
<1> HIDE DEF e
<1>3. /\ Len(log') = Len(log) + 1 /\ log' \in Seq(Entries)
      /\ log'[Len(log) + 1] = e /\ \A i \in Events : log'[i] = log[i]
  BY <1>1, <1>2 DEF Events
<1>4. /\ Events' = Events \cup {Len(log) + 1} /\ Places' = Places \cup {Len(log) + 1}
  BY <1>1, <1>3 DEF Events, Places
<1>5. LogOK'
  <2>1. \A i \in Events' : log'[i].parent < i
    BY <1>1, <1>2, <1>3, <1>4, EventsTyped
  <2>2. headFile' \in Places' \cup {NoHead}
    BY <1>4 DEF AppendLine, LogOK
  <2> QED BY <1>1, <1>3, <2>1, <2>2 DEF LogOK
<1>6. StoresOK'
  <2>1. /\ known' = [known EXCEPT ![s] = @ \cup {Len(log) + 1}]
        /\ head' = [head EXCEPT ![s] = Len(log) + 1]
        /\ unsaved' = [unsaved EXCEPT ![s] = TRUE]
    BY DEF AppendLine
  <2> QED BY <1>4, <2>1 DEF StoresOK
<1> QED BY <1>4, <1>5, <1>6 DEF AppendLine, StoresOK

(* Nothing else of the state has a type that a new event could disturb.     *)
LEMMA AppendedTypes ==
  ASSUME TypeOK, NEW s \in Stores, NEW type \in Types, NEW edit \in Changes,
         AppendLine(s, type, edit), TasksOK', UNCHANGED <<acked, trace>>,
         work' = work \/ work' = [work EXCEPT ![s] = Idle], UNCHANGED files
  PROVE  TypeOK'
<1>1. LogOK' /\ StoresOK' /\ Events \subseteq Events' /\ Places \subseteq Places'
  BY Appended DEF TypeOK
<1>2. WorkOK'
  <2>1. Restorations \subseteq Restorations'
    BY <1>1 DEF Restorations
  <2>2. Idle \in Restorations
    BY IdleTyped DEF TypeOK
  <2> QED BY <2>1, <2>2 DEF TypeOK, WorkOK
<1>3. HistoryOK'
  BY <1>1 DEF TypeOK, HistoryOK, trace
<1> QED BY <1>1, <1>2, <1>3 DEF TypeOK

(* A restoration that is begun has its type.                               *)
LEMMA RestorationTyped ==
  ASSUME LogOK, WorkOK, NEW undo \in SUBSET Events, NEW replay \in SUBSET Events,
         NEW target \in Places, NEW then \in {"rewind", "fork", "switch", "rollback"}
  PROVE  Restoration(undo, replay, target, then) \in Restorations
<1> DEFINE some == {log[i].path : i \in undo \cup replay}
<1>1. some \in SUBSET Paths
  BY EventsTyped
<1>2. Restrict(files, some) \in [some -> Contents]
  BY <1>1 DEF Restrict, WorkOK
<1> HIDE DEF some
<1>3. Restrict(files, some) \in UNION {[q -> Contents] : q \in SUBSET Paths}
  BY <1>1, <1>2
<1> QED BY <1>3 DEF Restoration, Restorations, some

(* What going back is to undo is in the log.                               *)
LEMMA RestoreToTyped ==
  ASSUME LogOK, WorkOK, NEW s \in Stores, NEW from \in Places, NEW target \in Places,
         NEW then \in {"rewind", "fork", "switch", "rollback"},
         RestoreTo(s, from, target, then), UNCHANGED <<log, files>>
  PROVE  WorkOK'
<1>1. FileEvents(Chain[from] \ Chain[target]) \in SUBSET Events
  BY ChainOfEvents DEF FileEvents
<1>2. Restoration(FileEvents(Chain[from] \ Chain[target]), {}, target, then) \in Restorations
  BY <1>1, RestorationTyped
<1>3. Restorations' = Restorations
  BY Steady DEF Restorations
<1> QED BY <1>2, <1>3 DEF RestoreTo, WorkOK

(* What a switch is to undo and to replay is in the log.                   *)
LEMMA SwitchToTyped ==
  ASSUME LogOK, WorkOK, StoresOK, NEW s \in Stores, NEW target \in Places,
         NEW then \in {"rewind", "fork", "switch", "rollback"},
         SwitchTo(s, target, then), UNCHANGED <<log, files>>
  PROVE  WorkOK'
<1> DEFINE ancestor == CommonAncestor(head[s], target)
           undo     == FileEvents(Chain[head[s]] \ Chain[ancestor])
           replay   == FileEvents(Chain[target] \ Chain[ancestor])
<1>1. head[s] \in Places
  BY DEF StoresOK
<1>2. undo \in SUBSET Events /\ replay \in SUBSET Events
  BY <1>1, ChainOfEvents DEF FileEvents
<1>3. work' = [work EXCEPT ![s] = Restoration(undo, replay, target, then)]
  BY DEF SwitchTo
<1> HIDE DEF undo, replay
<1>4. Restoration(undo, replay, target, then) \in Restorations
  BY <1>2, RestorationTyped
<1>5. Restorations' = Restorations
  BY Steady DEF Restorations
<1> QED BY <1>3, <1>4, <1>5 DEF WorkOK

(* The initial state has the types.                                        *)
LEMMA TypeInit == Init => TypeOK
<1> SUFFICES ASSUME Init PROVE TypeOK
  OBVIOUS
<1>1. Len(log) = 0 /\ Places = {0} /\ Events = {} /\ log \in Seq(Entries)
  <2>1. log = <<>> /\ Len(log) = 0
    BY DEF Init
  <2> QED BY <2>1 DEF Places, Events
<1>2. LogOK
  BY <1>1, Bounds DEF Init, LogOK
<1>3. StoresOK
  BY <1>1 DEF Init, StoresOK, Root
<1>4. WorkOK
  BY <1>2, IdleTyped DEF Init, WorkOK, Blank, Contents
<1>5. TasksOK
  BY <1>1, NoChangeTyped DEF Init, TasksOK, Root
<1>6. HistoryOK
  <2>1. troubles \in 0..MaxTroubles
    BY Bounds DEF Init
  <2>2. crossed \in BOOLEAN /\ headLost \in BOOLEAN /\ unclean \in BOOLEAN
    BY DEF Init
  <2>3. acked \subseteq Places /\ edited \subseteq Paths /\ replayed \subseteq Paths /\ contested \subseteq Paths
    BY DEF Init
  <2> QED BY <2>1, <2>2, <2>3 DEF HistoryOK
<1> QED BY <1>2, <1>3, <1>4, <1>5, <1>6 DEF TypeOK

(* Stores that are opened and dropped.                                     *)
LEMMA OpenTyped ==
  ASSUME LogOK, StoresOK, UNCHANGED log, NEW s \in Stores, NEW r \in Stores,
         Open(s) \/ Close(s) \/ OpenAndClose(s, r)
  PROVE  StoresOK'
<1>1. LoadHead \in Places /\ Root \in Places /\ Events' = Events /\ Places' = Places
  BY LoadHeadTyped, EventsTyped, Steady
<1> QED BY <1>1 DEF Open, Close, OpenAndClose, StoresOK

(* A trouble more.                                                         *)
LEMMA TroubleTyped ==
  ASSUME HistoryOK, Trouble
  PROVE  troubles' \in 0..MaxTroubles
BY Bounds DEF Trouble, HistoryOK

(* Someone begins to work on the session.                                  *)
LEMMA BeginsTyped ==
  ASSUME HistoryOK, Begins, UNCHANGED <<log, acked>>
  PROVE  HistoryOK'
<1>1. troubles' \in 0..MaxTroubles /\ crossed' \in BOOLEAN
  BY TroubleTyped DEF Begins, HistoryOK
<1>2. Places' = Places /\ UNCHANGED <<edited, replayed, contested, headLost, unclean>>
  BY Steady DEF Begins
<1> QED BY <1>1, <1>2 DEF HistoryOK

(* Files that are put back.                                                *)
LEMMA PutBackTyped ==
  ASSUME LogOK, WorkOK, TasksOK, NEW s \in Stores, PutBack(s), UNCHANGED log
  PROVE  WorkOK' /\ TasksOK'
<1>0. Events' = Events /\ Places' = Places /\ Restorations' = Restorations
  BY Steady DEF Restorations
<1>1. work[s].backup \in UNION {[some -> Contents] : some \in SUBSET Paths}
  BY DEF WorkOK, Restorations
<1>2. /\ files' = [p \in Paths |-> IF p \in DOMAIN work[s].backup THEN work[s].backup[p] ELSE files[p]]
      /\ work' = [work EXCEPT ![s] = Idle]
  BY DEF PutBack
<1>3. files' \in [Paths -> Contents]
  <2>1. PICK some \in SUBSET Paths : work[s].backup \in [some -> Contents]
    BY <1>1
  <2> QED BY <1>2, <2>1 DEF WorkOK
<1>4. WorkOK'
  BY <1>0, <1>2, <1>3, IdleTyped DEF WorkOK
<1>5. TasksOK'
  BY <1>0 DEF PutBack, Continue, TasksOK
<1> QED BY <1>4, <1>5

(* A step of a store.                                                      *)
LEMMA TypeStore ==
  ASSUME TypeOK, NEW s \in Stores, StoreStep(s)
  PROVE  TypeOK'
<1>0. LogOK /\ StoresOK /\ WorkOK /\ TasksOK /\ HistoryOK /\ log' = log
  BY DEF TypeOK, StoreStep, PersistHead, HeadNotWritten, RestoreFile, RestoreFails, SetHead, SetHeadFails, disk
<1>1. Events' = Events /\ Places' = Places /\ Restorations' = Restorations
  BY <1>0, Steady DEF Restorations
<1>2. head[s] \in Places /\ work[s] \in Restorations /\ work[s].target \in Places
      /\ work[s].undo \in SUBSET Events /\ work[s].replay \in SUBSET Events
      /\ work[s].backup \in UNION {[some -> Contents] : some \in SUBSET Paths}
  BY <1>0 DEF StoresOK, WorkOK, Restorations
<1>3. CASE PersistHead(s)
  <2>1. LogOK'
    BY <1>0, <1>1, <1>2, <1>3 DEF PersistHead, LogOK
  <2>2. HistoryOK'
    <3>1. Chain[head[s]] \subseteq Places
      BY <1>0, <1>2, ChainOfEvents
    <3> QED BY <1>0, <1>1, <1>3, <3>1 DEF PersistHead, HistoryOK, trace
  <2>3. StoresOK' /\ WorkOK' /\ TasksOK'
    BY <1>0, <1>1, <1>3 DEF PersistHead, StoresOK, WorkOK, TasksOK, task
  <2> QED BY <2>1, <2>2, <2>3 DEF TypeOK
<1>4. CASE RestoreFile(s)
  <2>1. UNCHANGED <<disk, memory, task, acked, edited, contested, crossed, headLost, unclean, troubles>>
    BY <1>4 DEF RestoreFile
  <2>2. LogOK' /\ StoresOK' /\ TasksOK'
    BY <1>0, <1>1, <2>1 DEF disk, memory, task, LogOK, StoresOK, TasksOK
  <2>3. CASE Undo(s)
    <3> DEFINE i == Newest(work[s].undo)
    <3>1. i \in Events
      BY <1>0, <1>2, <2>3, NewestIsGreatest, EventsTyped DEF Undo, Events
    <3>2. log[i].path \in Paths /\ log[i].before \in Contents
      BY <1>0, <3>1, EventsTyped
    <3>3. /\ files' = [files EXCEPT ![log[i].path] = log[i].before]
          /\ work' = [work EXCEPT ![s].undo = @ \ {i}] /\ replayed' = replayed
      BY <2>3 DEF Undo
    <3> HIDE DEF i
    <3>4. WorkOK'
      BY <1>0, <1>1, <1>2, <3>2, <3>3 DEF WorkOK, Restorations
    <3>5. HistoryOK'
      BY <1>0, <1>1, <2>1, <3>3 DEF HistoryOK
    <3> QED BY <2>2, <3>4, <3>5 DEF TypeOK
  <2>4. CASE Replay(s)
    <3> DEFINE i == Oldest(work[s].replay)
    <3>1. i \in Events
      <4>1. work[s].replay \in SUBSET (1..Len(log)) /\ work[s].replay # {} /\ Len(log) \in Nat
        BY <1>0, <1>2, <2>4, EventsTyped DEF Replay, Events
      <4>2. i \in work[s].replay
        BY <4>1, OldestIsLeast
      <4> QED BY <4>1, <4>2 DEF Events
    <3>2. log[i].path \in Paths /\ log[i].after \in Contents
      BY <1>0, <3>1, EventsTyped
    <3>3. /\ files' = [files EXCEPT ![log[i].path] = log[i].after]
          /\ work' = [work EXCEPT ![s].replay = @ \ {i}] /\ replayed' = replayed \cup {log[i].path}
      BY <2>4 DEF Replay
    <3> HIDE DEF i
    <3>4. WorkOK'
      BY <1>0, <1>1, <1>2, <3>2, <3>3 DEF WorkOK, Restorations
    <3>5. HistoryOK'
      BY <1>0, <1>1, <2>1, <3>2, <3>3 DEF HistoryOK
    <3> QED BY <2>2, <3>4, <3>5 DEF TypeOK
  <2> QED BY <1>4, <2>3, <2>4 DEF RestoreFile
<1>5. CASE RestoreFails(s)
  <2>1. UNCHANGED <<disk, memory, acked, trace>> /\ PutBack(s)
    BY <1>5 DEF RestoreFails
  <2>2. WorkOK' /\ TasksOK'
    BY <1>0, <2>1, PutBackTyped
  <2>3. LogOK' /\ StoresOK' /\ HistoryOK'
    BY <1>0, <1>1, <2>1 DEF disk, memory, trace, LogOK, StoresOK, HistoryOK
  <2> QED BY <2>2, <2>3 DEF TypeOK
<1>6. CASE SetHead(s)
  <2>1. LogOK'
    BY <1>0, <1>1, <1>2, <1>6 DEF SetHead, LogOK
  <2>2. StoresOK'
    BY <1>0, <1>1, <1>2, <1>6 DEF SetHead, StoresOK
  <2>3. HistoryOK'
    <3>1. Chain[work[s].target] \subseteq Places
      BY <1>0, <1>2, ChainOfEvents
    <3> QED BY <1>0, <1>1, <1>6, <3>1 DEF SetHead, HistoryOK, trace
  <2>4. WorkOK'
    <3> DEFINE new == IF work[s].then = "fork" THEN [Idle EXCEPT !.then = "marker", !.target = head[s]] ELSE Idle
    <3>1. work' = [work EXCEPT ![s] = new] /\ files' = files
      BY <1>0, <1>6 DEF SetHead, WorkOK
    <3>2. Idle \in Restorations
      BY <1>0, IdleTyped
    <3>3. new \in Restorations
      BY <1>2, <3>2 DEF Restorations
    <3> HIDE DEF new
    <3> QED BY <1>0, <1>1, <3>1, <3>3 DEF WorkOK
  <2>5. TasksOK'
    BY <1>0, <1>1, <1>6 DEF SetHead, Continue, TasksOK
  <2> QED BY <2>1, <2>2, <2>3, <2>4, <2>5 DEF TypeOK
<1>7. CASE HeadNotWritten(s)
  <2>1. HistoryOK'
    BY <1>0, <1>1, <1>7, TroubleTyped DEF HeadNotWritten, HistoryOK
  <2>2. LogOK' /\ StoresOK'
    BY <1>0, <1>1, <1>7 DEF HeadNotWritten, LogOK, StoresOK, disk
  <2>3. WorkOK' /\ TasksOK'
    BY <1>0, <1>1, <1>7 DEF HeadNotWritten, WorkOK, TasksOK, task
  <2> QED BY <2>1, <2>2, <2>3 DEF TypeOK
<1>8. CASE SetHeadFails(s)
  <2>1. WorkOK' /\ TasksOK'
    BY <1>0, <1>8, PutBackTyped DEF SetHeadFails
  <2>2. HistoryOK'
    BY <1>0, <1>1, <1>8, TroubleTyped DEF SetHeadFails, HistoryOK
  <2>3. LogOK' /\ StoresOK'
    BY <1>0, <1>1, <1>2, <1>8 DEF SetHeadFails, LogOK, StoresOK, disk
  <2> QED BY <2>1, <2>2, <2>3 DEF TypeOK
<1> QED BY <1>3, <1>4, <1>5, <1>6, <1>7, <1>8 DEF StoreStep

(* A step of a task.                                                       *)
LEMMA TypeTask ==
  ASSUME TypeOK, NEW r \in Runtimes, TaskStep(r)
  PROVE  TypeOK'
<1>0. LogOK /\ StoresOK /\ WorkOK /\ TasksOK /\ HistoryOK /\ r \in Stores
  BY Bounds DEF TypeOK
<1>1. ASSUME UNCHANGED log PROVE Events' = Events /\ Places' = Places /\ Restorations' = Restorations
  BY <1>1, Steady DEF Restorations
<1>2. ASSUME NEW type \in Types, NEW edit \in Changes, AppendLine(r, type, edit), TasksOK',
             UNCHANGED <<files, work, acked, trace>>
      PROVE  TypeOK'
  BY <1>0, <1>2, AppendedTypes
<1>3. ASSUME NEW type \in Types, NEW edit \in Changes, AppendLine(r, type, edit)
      PROVE  Places \subseteq Places'
  BY <1>0, <1>3, Appended
<1>4. ASSUME UNCHANGED <<disk, acked, trace>>, StoresOK', WorkOK', TasksOK' PROVE TypeOK'
  BY <1>0, <1>1, <1>4 DEF TypeOK, LogOK, HistoryOK, disk, trace
<1>5. ASSUME UNCHANGED <<disk, memory, acked, trace>>, WorkOK', TasksOK' PROVE TypeOK'
  BY <1>0, <1>1, <1>4, <1>5 DEF StoresOK, disk, memory
<1>6. ASSUME UNCHANGED <<disk, memory, files, work, acked, trace>>, TasksOK' PROVE TypeOK'
  BY <1>0, <1>1, <1>5, <1>6 DEF WorkOK, disk
<1>7. LoadHead \in Places /\ head[r] \in Places /\ start[r] \in Places /\ change[r] \in Changes /\ Root \in Places
  BY <1>0, LoadHeadTyped, EventsTyped DEF StoresOK, TasksOK
<1>a. ASSUME UNCHANGED <<disk, acked>>, Begins, StoresOK', WorkOK', TasksOK' PROVE TypeOK'
  <2>1. HistoryOK'
    BY <1>0, <1>a, BeginsTyped DEF disk
  <2> QED BY <1>0, <1>1, <1>a, <2>1 DEF TypeOK, LogOK, disk
<1>8. ASSUME OpenRuntime(r) PROVE TypeOK'
  <2>1. TasksOK' /\ WorkOK'
    BY <1>0, <1>1, <1>8 DEF OpenRuntime, Goto, TasksOK, WorkOK, disk
  <2>2. StoresOK'
    BY <1>0, <1>8, OpenTyped DEF OpenRuntime, disk
  <2> QED BY <1>a, <1>8, <2>1, <2>2 DEF OpenRuntime
<1>9. ASSUME Register(r) PROVE TypeOK'
  <2>1. TasksOK' /\ WorkOK'
    BY <1>0, <1>1, <1>9 DEF Register, Goto, TasksOK, WorkOK, disk
  <2>2. UNCHANGED memory \/ Close(r)
    BY <1>9 DEF Register
  <2>3. StoresOK'
    BY <1>0, <1>1, <1>9, <2>2, OpenTyped DEF Register, disk, memory, StoresOK
  <2> QED BY <1>4, <1>9, <2>1, <2>3 DEF Register
<1>10. ASSUME FailEarly(r) PROVE TypeOK'
  <2>1. TasksOK'
    BY <1>0, <1>1, <1>10 DEF FailEarly, Goto, TasksOK, disk
  <2> QED BY <1>6, <1>10, <2>1 DEF FailEarly
<1>11. ASSUME BeginTurn(r) PROVE TypeOK'
  <2>1. "user" \in Types /\ NoChange \in Changes
    BY NoChangeTyped DEF Types
  <2>2. Places \subseteq Places'
    BY <1>3, <1>11, <2>1 DEF BeginTurn
  <2>3. TasksOK'
    BY <1>0, <1>7, <1>11, <2>2 DEF BeginTurn, Goto, TasksOK
  <2> QED BY <1>2, <1>11, <2>1, <2>3 DEF BeginTurn
<1>12. ASSUME NEW p \in Paths, NEW content \in Versions \cup {Absent}, WriteFile(r, p, content) PROVE TypeOK'
  <2>1. files[p] \in Contents /\ content \in Contents
    BY <1>0 DEF WorkOK, Contents
  <2>2. [path |-> p, before |-> files[p], after |-> content] \in Changes
    BY <2>1 DEF Changes
  <2>3. TasksOK'
    BY <1>0, <1>1, <1>12, <2>2 DEF WriteFile, Goto, TasksOK, disk
  <2>4. WorkOK'
    BY <1>0, <1>1, <1>12, <2>1 DEF WriteFile, WorkOK, disk
  <2> QED BY <1>5, <1>12, <2>3, <2>4 DEF WriteFile
<1>13. ASSUME RecordChange(r) PROVE TypeOK'
  <2>1. "file" \in Types
    BY DEF Types
  <2>2. Places \subseteq Places'
    BY <1>3, <1>7, <1>13, <2>1 DEF RecordChange
  <2>3. TasksOK'
    BY <1>0, <1>13, <2>2, NoChangeTyped DEF RecordChange, Goto, TasksOK
  <2> QED BY <1>2, <1>7, <1>13, <2>1, <2>3 DEF RecordChange
<1>14. ASSUME RecordFails(r) PROVE TypeOK'
  <2>1. change[r].path \in Paths /\ change[r].before \in Contents
    BY <1>7 DEF Changes
  <2>2. TasksOK'
    BY <1>0, <1>1, <1>14, NoChangeTyped DEF RecordFails, Goto, TasksOK, disk
  <2>3. WorkOK'
    BY <1>0, <1>1, <1>14, <2>1 DEF RecordFails, WorkOK, disk
  <2>4. HistoryOK'
    BY <1>0, <1>1, <1>14, <2>1 DEF RecordFails, HistoryOK, disk
  <2>5. LogOK' /\ StoresOK'
    BY <1>0, <1>1, <1>14 DEF RecordFails, LogOK, StoresOK, disk, memory
  <2> QED BY <2>2, <2>3, <2>4, <2>5 DEF TypeOK
<1>15. ASSUME Commit(r) PROVE TypeOK'
  <2>1. "checkpoint" \in Types /\ NoChange \in Changes
    BY NoChangeTyped DEF Types
  <2>2. Places \subseteq Places'
    BY <1>3, <1>15, <2>1 DEF Commit
  <2>3. TasksOK'
    BY <1>0, <1>15, <2>2 DEF Commit, Goto, TasksOK
  <2> QED BY <1>2, <1>15, <2>1, <2>3 DEF Commit
<1>16. ASSUME TurnSucceeds(r) PROVE TypeOK'
  <2>1. TasksOK'
    BY <1>0, <1>1, <1>16 DEF TurnSucceeds, Goto, TasksOK, disk
  <2> QED BY <1>6, <1>16, <2>1 DEF TurnSucceeds
<1>17. ASSUME Retain(r) PROVE TypeOK'
  <2>1. TasksOK'
    BY <1>0, <1>1, <1>17 DEF Retain, Goto, TasksOK, disk
  <2> QED BY <1>6, <1>17, <2>1 DEF Retain
<1>18. ASSUME Rollback(r) PROVE TypeOK'
  <2>1. TasksOK'
    BY <1>0, <1>1, <1>18 DEF Rollback, TasksOK, disk
  <2>2. WorkOK'
    BY <1>0, <1>7, <1>18, RestoreToTyped DEF Rollback, disk
  <2> QED BY <1>5, <1>18, <2>1, <2>2 DEF Rollback
<1>19. ASSUME RollbackRefused(r) PROVE TypeOK'
  <2>1. TasksOK'
    BY <1>0, <1>1, <1>19 DEF RollbackRefused, TasksOK, disk
  <2> QED BY <1>6, <1>19, <2>1 DEF RollbackRefused
<1>20. ASSUME RecordTerminal(r) PROVE TypeOK'
  <2>1. "terminal" \in Types /\ NoChange \in Changes
    BY NoChangeTyped DEF Types
  <2>2. Places \subseteq Places'
    BY <1>3, <1>20, <2>1 DEF RecordTerminal
  <2>3. TasksOK'
    BY <1>0, <1>20, <2>2 DEF RecordTerminal, Goto, TasksOK
  <2> QED BY <1>2, <1>20, <2>1, <2>3 DEF RecordTerminal
<1>21. ASSUME LeaveRegistry(r) PROVE TypeOK'
  <2>1. TasksOK'
    BY <1>0, <1>1, <1>21 DEF LeaveRegistry, Goto, TasksOK, disk
  <2> QED BY <1>6, <1>21, <2>1 DEF LeaveRegistry
<1>22. ASSUME Complete(r) PROVE TypeOK'
  <2>1. TasksOK' /\ WorkOK'
    BY <1>0, <1>1, <1>7, <1>22 DEF Complete, Goto, TasksOK, WorkOK, disk
  <2>2. StoresOK'
    BY <1>0, <1>22, OpenTyped, Bounds DEF Complete, disk
  <2> QED BY <1>4, <1>22, <2>1, <2>2 DEF Complete
<1>23. ASSUME ForceStop(r) PROVE TypeOK'
  <2>0. /\ UNCHANGED <<disk, files, acked, edited, replayed, contested, headLost>> /\ log' = log
        /\ registered' = NoTask /\ forced' = forced \cup {r} /\ Trouble
        /\ GoesOn \/ Hangs(r)
    BY <1>23 DEF ForceStop, disk
  <2>1. StoresOK'
    <3>1. UNCHANGED memory \/ Open(Display) \/ OpenAndClose(Display, r) \/ Close(r)
      BY <2>0 DEF GoesOn, Hangs
    <3> QED BY <1>0, <1>1, <2>0, <3>1, OpenTyped, Bounds DEF memory, StoresOK
  <2>2. /\ phase' = phase \/ phase' = [phase EXCEPT ![r] = "over"]
        /\ start' = start \/ start' = [start EXCEPT ![r] = Root]
        /\ change' = change \/ change' = [change EXCEPT ![r] = NoChange]
        /\ work' = work \/ work' = [work EXCEPT ![r] = Idle]
    BY <2>0 DEF GoesOn, Hangs, Goto
  <2>3. TasksOK'
    BY <1>0, <1>1, <1>7, <2>0, <2>2, NoChangeTyped DEF TasksOK
  <2>4. WorkOK'
    BY <1>0, <1>1, <2>0, <2>2, IdleTyped DEF WorkOK
  <2>5. HistoryOK'
    <3>1. troubles' \in 0..MaxTroubles
      BY <1>0, <2>0, TroubleTyped
    <3>2. unclean' \in BOOLEAN
      <4>1. CASE GoesOn
        BY <1>0, <4>1 DEF GoesOn, HistoryOK
      <4>2. CASE Hangs(r)
        <5> DEFINE broken == work[r].then # "none" \/ phase[r] = "wrote"
        <5>1. unclean' = (unclean \/ broken)
          BY <4>2, Zenon DEF Hangs
        <5> HIDE DEF broken
        <5> QED BY <1>0, <5>1, Zenon DEF HistoryOK
      <4> QED BY <2>0, <4>1, <4>2
    <3>3. crossed' \in BOOLEAN
      BY <1>0, <2>0 DEF GoesOn, Hangs, HistoryOK
    <3> QED BY <1>0, <1>1, <2>0, <3>1, <3>2, <3>3 DEF HistoryOK
  <2>6. LogOK'
    BY <1>0, <1>1, <2>0 DEF LogOK, disk
  <2> QED BY <2>1, <2>3, <2>4, <2>5, <2>6 DEF TypeOK
<1> QED BY <1>8, <1>9, <1>10, <1>11, <1>12, <1>13, <1>14, <1>15, <1>16, <1>17, <1>18, <1>19, <1>20,
           <1>21, <1>22, <1>23 DEF TaskStep

(* A step of the user.                                                     *)
LEMMA TypeUser ==
  ASSUME TypeOK, UserStep
  PROVE  TypeOK'
<1>0. LogOK /\ StoresOK /\ WorkOK /\ TasksOK /\ HistoryOK /\ Display \in Stores
  BY Bounds DEF TypeOK
<1>1. ASSUME UNCHANGED log PROVE Events' = Events /\ Places' = Places /\ Restorations' = Restorations
  BY <1>1, Steady DEF Restorations
<1>2. head[Display] \in Places /\ LoadHead \in Places /\ Root \in Places /\ work[Display] \in Restorations
      /\ work[Display].target \in Places
  BY <1>0, LoadHeadTyped, EventsTyped DEF StoresOK, WorkOK, Restorations
<1>3. ASSUME UNCHANGED <<disk, task, acked, trace>>, StoresOK', WorkOK' PROVE TypeOK'
  BY <1>0, <1>1, <1>3 DEF TypeOK, LogOK, TasksOK, HistoryOK, disk, task, trace
<1>4. ASSUME UNCHANGED <<disk, memory, task, acked, trace>>, WorkOK' PROVE TypeOK'
  BY <1>0, <1>1, <1>3, <1>4 DEF StoresOK, disk, memory
<1>a. ASSUME UNCHANGED <<disk, task, acked>>, Operates, StoresOK', WorkOK' PROVE TypeOK'
  <2>1. HistoryOK'
    BY <1>0, <1>a, BeginsTyped DEF Operates, disk
  <2> QED BY <1>0, <1>1, <1>a, <2>1 DEF TypeOK, LogOK, TasksOK, disk, task
<1>b. ASSUME UNCHANGED <<disk, memory, task, acked>>, Operates, WorkOK' PROVE TypeOK'
  BY <1>0, <1>1, <1>a, <1>b DEF StoresOK, disk, memory
<1>5. ASSUME NEW i \in Events, RewindToCheckpoint(i) PROVE TypeOK'
  <2>1. WorkOK'
    BY <1>0, <1>2, <1>5, RestoreToTyped, EventsTyped DEF RewindToCheckpoint, disk
  <2> QED BY <1>b, <1>5, <2>1 DEF RewindToCheckpoint
<1>6. ASSUME NEW leaf \in Events, SwitchBranch(leaf) PROVE TypeOK'
  <2>1. WorkOK'
    BY <1>0, <1>2, <1>6, SwitchToTyped, EventsTyped DEF SwitchBranch, disk
  <2> QED BY <1>b, <1>6, <2>1 DEF SwitchBranch
<1>7. ASSUME NEW i \in Events, ForkFromMessage(i) PROVE TypeOK'
  <2>1. WorkOK'
    <3> DEFINE t == IF log[i].type = "user" THEN log[i].parent ELSE i
    <3>1. t \in Places
      BY <1>0, EventsTyped
    <3>2. RestoreTo(Display, LoadHead, t, "fork") /\ UNCHANGED <<log, files>>
      BY <1>7 DEF ForkFromMessage, disk
    <3> HIDE DEF t
    <3> QED BY <1>0, <1>2, <3>1, <3>2, RestoreToTyped
  <2>2. StoresOK'
    BY <1>0, <1>7, OpenTyped DEF ForkFromMessage, disk
  <2> QED BY <1>a, <1>7, <2>1, <2>2 DEF ForkFromMessage
<1>8. ASSUME AppendMarker PROVE TypeOK'
  <2>1. "marker" \in Types /\ NoChange \in Changes
    BY NoChangeTyped DEF Types
  <2>2. AppendLine(Display, "marker", NoChange)
    BY <1>8 DEF AppendMarker
  <2>3. Places \subseteq Places'
    BY <1>0, <2>1, <2>2, Appended
  <2>4. TasksOK'
    BY <1>0, <1>8, <2>3 DEF AppendMarker, TasksOK, task
  <2> QED BY <1>0, <1>8, <2>1, <2>2, <2>4, AppendedTypes DEF AppendMarker
<1>9. ASSUME MarkerFails PROVE TypeOK'
  <2>1. WorkOK'
    <3>1. CASE head[Display] = work[Display].target
      <4>1. work' = [work EXCEPT ![Display] = Idle] /\ UNCHANGED <<log, files>>
        BY <1>9, <3>1 DEF MarkerFails, disk
      <4> QED BY <1>0, <1>1, <4>1, IdleTyped DEF WorkOK
    <3>2. CASE head[Display] # work[Display].target
      BY <1>0, <1>2, <1>9, <3>2, SwitchToTyped DEF MarkerFails, disk
    <3> QED BY <3>1, <3>2
  <2> QED BY <1>4, <1>9, <2>1 DEF MarkerFails
<1>10. ASSUME NEW p \in Paths, EditOutside(p) PROVE TypeOK'
  <2>1. Foreign \in Contents
    BY DEF Contents
  <2>2. WorkOK'
    BY <1>0, <1>1, <1>10, <2>1 DEF EditOutside, WorkOK, disk
  <2>3. troubles' \in 0..MaxTroubles
    BY <1>0, <1>10, Bounds DEF EditOutside, Trouble, HistoryOK
  <2>4. HistoryOK'
    BY <1>0, <1>1, <1>10, <2>3 DEF EditOutside, HistoryOK, disk
  <2>5. LogOK' /\ StoresOK' /\ TasksOK'
    BY <1>0, <1>1, <1>10 DEF EditOutside, LogOK, StoresOK, TasksOK, disk, memory, task
  <2> QED BY <2>2, <2>4, <2>5 DEF TypeOK
<1>11. ASSUME Restart PROVE TypeOK'
  <2>0. log' = log /\ UNCHANGED <<disk, files, forced, acked, edited, replayed, contested, crossed, headLost>>
    BY <1>11 DEF Restart, disk
  <2>1. StoresOK'
    BY <1>0, <1>1, <1>2, <1>11, <2>0 DEF Restart, StoresOK
  <2>2. WorkOK'
    BY <1>0, <1>1, <1>11, <2>0, IdleTyped DEF Restart, WorkOK
  <2>3. TasksOK'
    BY <1>0, <1>1, <1>2, <1>11, <2>0, NoChangeTyped DEF Restart, TasksOK
  <2>4. troubles' \in 0..MaxTroubles
    BY <1>0, <1>11, Bounds DEF Restart, Trouble, HistoryOK
  <2>5. unclean' \in BOOLEAN
    <3> DEFINE broken == (\E s \in Stores : ~Free(s)) \/ (\E r \in Runtimes : phase[r] = "wrote")
    <3>1. unclean' = (unclean \/ broken)
      BY <1>11, Zenon DEF Restart
    <3> HIDE DEF broken
    <3> QED BY <1>0, <3>1, Zenon DEF HistoryOK
  <2>6. HistoryOK' /\ LogOK'
    BY <1>0, <1>1, <2>0, <2>4, <2>5 DEF HistoryOK, LogOK, disk
  <2> QED BY <2>1, <2>2, <2>3, <2>6 DEF TypeOK
<1> QED BY <1>5, <1>6, <1>7, <1>8, <1>9, <1>10, <1>11 DEF UserStep

(* Every step keeps the types.                                             *)
LEMMA TypeNext == TypeOK /\ [Next]_vars => TypeOK'
<1>1. ASSUME TypeOK, Next PROVE TypeOK'
  BY <1>1, TypeStore, TypeTask, TypeUser DEF Next
<1>2. ASSUME TypeOK, UNCHANGED vars PROVE TypeOK'
  <2>1. LogOK' /\ StoresOK'
    BY <1>2, Steady DEF TypeOK, vars, LogOK, StoresOK, disk, memory
  <2>2. WorkOK'
    BY <1>2, Steady DEF TypeOK, vars, WorkOK, Restorations, disk
  <2>3. TasksOK' /\ HistoryOK'
    BY <1>2, Steady DEF TypeOK, vars, TasksOK, HistoryOK, task, trace, disk
  <2> QED BY <2>1, <2>2, <2>3 DEF TypeOK
<1> QED BY <1>1, <1>2

(* The state of a session is of its type, whoever writes to it: the parent  *)
(* of every event is an earlier one, heads and targets are in the tree.     *)
THEOREM TypeOKAlways == Spec => []TypeOK
BY TypeInit, TypeNext, PTL DEF Spec

-----------------------------------------------------------------------------
(* Restorations                                                            *)

(* Who restores nothing has nothing to restore.                            *)
NothingToRestore ==
  \A s \in Stores : work[s].then \in {"none", "marker"} => work[s].undo = {} /\ work[s].replay = {}

(* A restoration that is begun.                                            *)
LEMMA BegunRestores ==
  ASSUME WorkOK, NEW s \in Stores, NEW from, NEW target, NEW then,
         RestoreTo(s, from, target, then) \/ SwitchTo(s, target, then)
  PROVE  /\ work'[s].then = then /\ work'[s].target = target
         /\ \A q \in Stores \ {s} : work'[q] = work[q]
<1>1. CASE RestoreTo(s, from, target, then)
  <2> DEFINE w == Restoration(FileEvents(Chain[from] \ Chain[target]), {}, target, then)
  <2>1. work' = [work EXCEPT ![s] = w]
    BY <1>1 DEF RestoreTo
  <2>2. w.then = then /\ w.target = target
    BY DEF Restoration
  <2> HIDE DEF w
  <2> QED BY <2>1, <2>2 DEF WorkOK
<1>2. CASE SwitchTo(s, target, then)
  <2> DEFINE a == CommonAncestor(head[s], target)
             w == Restoration(FileEvents(Chain[head[s]] \ Chain[a]), FileEvents(Chain[target] \ Chain[a]),
                              target, then)
  <2>1. work' = [work EXCEPT ![s] = w]
    BY <1>2 DEF SwitchTo
  <2>2. w.then = then /\ w.target = target
    BY DEF Restoration
  <2> HIDE DEF w
  <2> QED BY <2>1, <2>2 DEF WorkOK
<1> QED BY <1>1, <1>2

(* A restoration that ends leaves nothing to restore.                      *)
LEMMA NothingStore ==
  ASSUME WorkOK, NothingToRestore, NEW s \in Stores, StoreStep(s)
  PROVE  NothingToRestore'
<1>1. CASE PersistHead(s) \/ HeadNotWritten(s)
  BY <1>1 DEF PersistHead, HeadNotWritten, NothingToRestore
<1>2. CASE RestoreFile(s)
  <2>1. /\ \A q \in Stores \ {s} : work'[q] = work[q]
        /\ work'[s].then = work[s].then
        /\ work[s].undo # {} \/ work[s].replay # {}
    BY <1>2 DEF RestoreFile, Undo, Replay, WorkOK, Restorations
  <2> QED BY <2>1 DEF NothingToRestore
<1>3. CASE RestoreFails(s) \/ SetHeadFails(s)
  <2>1. work' = [work EXCEPT ![s] = Idle]
    BY <1>3 DEF RestoreFails, SetHeadFails, PutBack
  <2> QED BY <2>1 DEF NothingToRestore, WorkOK, Idle
<1>4. CASE SetHead(s)
  <2> DEFINE new == IF work[s].then = "fork" THEN [Idle EXCEPT !.then = "marker", !.target = head[s]] ELSE Idle
  <2>1. work' = [work EXCEPT ![s] = new]
    BY <1>4 DEF SetHead, WorkOK
  <2>2. new.undo = {} /\ new.replay = {}
    BY DEF Idle
  <2> HIDE DEF new
  <2> QED BY <2>1, <2>2 DEF NothingToRestore, WorkOK
<1> QED BY <1>1, <1>2, <1>3, <1>4 DEF StoreStep

(* A task that begins to restore names what for.                           *)
LEMMA NothingTask ==
  ASSUME WorkOK, NothingToRestore, NEW r \in Runtimes, TaskStep(r)
  PROVE  NothingToRestore'
<1>0. r \in Stores
  BY Bounds
<1>1. ASSUME UNCHANGED work PROVE NothingToRestore'
  BY <1>1 DEF NothingToRestore
<1>2. CASE Rollback(r)
  <2>1. work'[r].then = "rollback" /\ \A q \in Stores \ {r} : work'[q] = work[q]
    BY <1>0, <1>2, BegunRestores DEF Rollback
  <2> QED BY <2>1 DEF NothingToRestore
<1>3. CASE ForceStop(r)
  <2>1. work' = work \/ work' = [work EXCEPT ![r] = Idle]
    BY <1>3 DEF ForceStop, GoesOn, Hangs
  <2> QED BY <1>1, <2>1 DEF NothingToRestore, WorkOK, Idle
<1>4. CASE ~Rollback(r) /\ ~ForceStop(r)
  <2>1. UNCHANGED work
    BY <1>4 DEF TaskStep, OpenRuntime, Register, FailEarly, BeginTurn, WriteFile, RecordChange, RecordFails,
                Commit, TurnSucceeds, Retain, RollbackRefused, RecordTerminal, LeaveRegistry, Complete
  <2> QED BY <1>1, <2>1
<1> QED BY <1>2, <1>3, <1>4

(* So does the user.                                                       *)
LEMMA NothingUser ==
  ASSUME WorkOK, NothingToRestore, UserStep
  PROVE  NothingToRestore'
<1>0. Display \in Stores
  BY Bounds
<1>1. ASSUME work'[Display].then \in {"rewind", "switch", "fork"},
             \A q \in Stores \ {Display} : work'[q] = work[q]
      PROVE  NothingToRestore'
  BY <1>1 DEF NothingToRestore
<1>2. ASSUME work' = [work EXCEPT ![Display] = Idle] PROVE NothingToRestore'
  BY <1>2 DEF NothingToRestore, WorkOK, Idle
<1>a. ASSUME NEW i, NEW j, NEW then \in {"rewind", "switch", "fork"},
             RestoreTo(Display, i, j, then) \/ SwitchTo(Display, j, then)
      PROVE  NothingToRestore'
  <2>1. /\ work'[Display].then = then
        /\ \A q \in Stores \ {Display} : work'[q] = work[q]
    BY <1>0, <1>a, BegunRestores
  <2> QED BY <1>1, <1>a, <2>1
<1>3. ASSUME NEW i \in Events, RewindToCheckpoint(i) \/ SwitchBranch(i) \/ ForkFromMessage(i)
      PROVE  NothingToRestore'
  BY <1>a, <1>3, Zenon DEF RewindToCheckpoint, SwitchBranch, ForkFromMessage
<1>4. CASE AppendMarker
  BY <1>2, <1>4 DEF AppendMarker
<1>5. CASE MarkerFails
  BY <1>a, <1>2, <1>5 DEF MarkerFails
<1>6. CASE \E p \in Paths : EditOutside(p)
  BY <1>6 DEF EditOutside, NothingToRestore
<1>7. CASE Restart
  BY <1>7 DEF Restart, NothingToRestore, Idle
<1> QED BY <1>3, <1>4, <1>5, <1>6, <1>7 DEF UserStep

(* Every step keeps it so.                                                 *)
LEMMA NothingAlways == TypeOK /\ NothingToRestore /\ [Next]_vars => NothingToRestore'
<1>1. ASSUME TypeOK, NothingToRestore, Next PROVE NothingToRestore'
  BY <1>1, NothingStore, NothingTask, NothingUser DEF TypeOK, Next
<1>2. ASSUME NothingToRestore, UNCHANGED vars PROVE NothingToRestore'
  BY <1>2 DEF vars, NothingToRestore
<1> QED BY <1>1, <1>2

-----------------------------------------------------------------------------
(* One actor at a time                                                     *)

Active(r) == phase[r] \notin {"closed", "over"}

(* Either one task acts, or the screen does; a task that was ended by force *)
(* has ended.                                                              *)
OneActor ==
  /\ \A r, q \in Runtimes : Active(r) /\ Active(q) => r = q
  /\ \A r \in Runtimes :
       /\ Active(r) => Free(Display)
       /\ ~Active(r) => Free(r)
       /\ work[r].then \in {"none", "rollback"}
       /\ work[r].then = "rollback" <=> phase[r] = "rollback"
       /\ unsaved[r] => phase[r] \in {"turn", "joining", "ending"}
       /\ r \in forced => phase[r] = "over"
  /\ registered # NoTask => registered \in Runtimes /\ Active(registered) /\ phase[registered] # "opened"
  /\ work[Display].then # "rollback"
  /\ work[Display].then # "none" => ~unsaved[Display]

(* At first nobody acts.                                                   *)
LEMMA ActorInit == Init => OneActor
BY StoresAssumption DEF Init, OneActor, Active, Free, Idle, Stores

(* A task acts, and nobody else is active.                                 *)
LEMMA TaskActsAlone ==
  ASSUME OneActor, NEW r \in Runtimes, Free(Display), \A q \in Runtimes \ {r} : ~Active(q),
         \A q \in Stores \ {r} : work'[q] = work[q] /\ unsaved'[q] = unsaved[q],
         \A q \in Runtimes \ {r} : phase'[q] = phase[q],
         forced' \subseteq forced \cup {r}, r \in forced' => phase'[r] = "over",
         phase'[r] \in {"closed", "over"} => work'[r].then = "none" /\ ~unsaved'[r],
         work'[r].then \in {"none", "rollback"},
         work'[r].then = "rollback" <=> phase'[r] = "rollback",
         unsaved'[r] => phase'[r] \in {"turn", "joining", "ending"},
         registered' \in {NoTask, r},
         registered' = r => phase'[r] \notin {"closed", "over", "opened"}
  PROVE  OneActor'
<1>1. /\ Display \in Stores \ {r} /\ \A q \in Runtimes \ {r} : q \in Stores \ {r}
      /\ work'[Display] = work[Display] /\ unsaved'[Display] = unsaved[Display]
  BY Bounds
<1>2. \A q \in Runtimes \ {r} : ~(Active(q)') /\ (Active(q)' <=> Active(q))
  BY DEF Active
<1>3. Free(Display)'
  BY <1>1 DEF Free
<1>4. \A p, q \in Runtimes : Active(p)' /\ Active(q)' => p = q
  BY <1>2
<1>5. ASSUME NEW q \in Runtimes
      PROVE  /\ Active(q)' => Free(Display)'
             /\ ~Active(q)' => Free(q)'
             /\ work'[q].then \in {"none", "rollback"}
             /\ work'[q].then = "rollback" <=> phase'[q] = "rollback"
             /\ unsaved'[q] => phase'[q] \in {"turn", "joining", "ending"}
             /\ q \in forced' => phase'[q] = "over"
  <2>1. CASE q = r
    BY <1>3, <2>1 DEF Active, Free
  <2>2. CASE q # r
    <3>1. work'[q] = work[q] /\ unsaved'[q] = unsaved[q] /\ phase'[q] = phase[q] /\ (q \in forced' => q \in forced)
      BY <1>1, <2>2
    <3>2. /\ ~Active(q) => Free(q)
          /\ work[q].then \in {"none", "rollback"}
          /\ work[q].then = "rollback" <=> phase[q] = "rollback"
          /\ unsaved[q] => phase[q] \in {"turn", "joining", "ending"}
          /\ q \in forced => phase[q] = "over"
      BY DEF OneActor
    <3>3. Free(q)' <=> Free(q)
      BY <3>1 DEF Free
    <3> QED BY <1>2, <1>3, <2>2, <3>1, <3>2, <3>3
  <2> QED BY <2>1, <2>2
<1>6. registered' # NoTask => registered' \in Runtimes /\ Active(registered)' /\ phase'[registered'] # "opened"
  BY DEF Active
<1>7. work'[Display].then # "rollback" /\ (work'[Display].then # "none" => ~unsaved'[Display])
  BY <1>1 DEF OneActor
<1> QED BY <1>4, <1>5, <1>6, <1>7 DEF OneActor

(* The screen acts, and no task is active.                                 *)
LEMMA DisplayActsAlone ==
  ASSUME OneActor, \A r \in Runtimes : ~Active(r),
         \A r \in Runtimes : work'[r] = work[r] /\ unsaved'[r] = unsaved[r] /\ phase'[r] = phase[r],
         UNCHANGED <<registered, forced>>,
         work'[Display].then # "rollback", work'[Display].then # "none" => ~unsaved'[Display]
  PROVE  OneActor'
<1>1. \A q \in Runtimes : ~(Active(q)') /\ (Free(q)' <=> Free(q))
  BY DEF Active, Free
<1>2. registered' = NoTask
  BY DEF OneActor
<1>3. \A q \in Runtimes : (Free(q) /\ q \notin forced) \/ (Free(q) /\ phase[q] = "over")
  BY DEF OneActor
<1>4. ASSUME NEW q \in Runtimes
      PROVE  /\ work'[q].then \in {"none", "rollback"}
             /\ work'[q].then = "rollback" <=> phase'[q] = "rollback"
             /\ unsaved'[q] => phase'[q] \in {"turn", "joining", "ending"}
             /\ q \in forced' => phase'[q] = "over"
  BY DEF OneActor
<1> QED BY <1>1, <1>2, <1>3, <1>4 DEF OneActor

(* At rest no task is active.                                              *)
LEMMA RestIsQuiet ==
  ASSUME OneActor, AtRest
  PROVE  \A r \in Runtimes : ~Active(r)
BY DEF OneActor, AtRest, Active

(* Whoever is half way through something is the one who acts.              *)
LEMMA BusyIsAlone ==
  ASSUME OneActor, NEW r \in Runtimes, Active(r) \/ ~Free(r)
  PROVE  /\ Active(r) /\ Free(Display) /\ \A q \in Runtimes \ {r} : ~Active(q)
         /\ r \notin forced /\ registered \in {NoTask, r}
<1>1. Active(r)
  BY DEF OneActor
<1> QED BY <1>1 DEF OneActor, Active

(* While the screen works no task does.                                    *)
LEMMA BusyDisplayIsAlone ==
  ASSUME OneActor, ~Free(Display)
  PROVE  (\A r \in Runtimes : ~Active(r)) /\ registered = NoTask
BY DEF OneActor

(* The steps of a store leave the actors as they are.                      *)
LEMMA ActorStore ==
  ASSUME TypeOK, NothingToRestore, OneActor, NEW s \in Stores, StoreStep(s)
  PROVE  OneActor'
<1>0. /\ UNCHANGED <<registered, forced>>
      /\ work \in [Stores -> Restorations] /\ unsaved \in [Stores -> BOOLEAN]
      /\ DOMAIN phase = Runtimes
  BY DEF TypeOK, WorkOK, StoresOK, TasksOK, StoreStep, PersistHead, HeadNotWritten, RestoreFile,
         RestoreFails, SetHead, SetHeadFails, PutBack, Continue, task
<1>1. /\ ~Free(s)
      /\ \A q \in Stores \ {s} : work'[q] = work[q] /\ unsaved'[q] = unsaved[q]
      /\ \/ /\ work'[s].then = work[s].then /\ phase' = phase /\ (unsaved'[s] => unsaved[s])
         \/ /\ work'[s].then \in {"none", "marker"} /\ unsaved' = unsaved /\ work[s].then # "none"
            /\ work'[s].then = "marker" => work[s].then = "fork"
            /\ Continue(s)
  <2>1. CASE PersistHead(s) \/ HeadNotWritten(s)
    BY <1>0, <2>1 DEF PersistHead, HeadNotWritten, Free, task
  <2>2. CASE RestoreFile(s)
    <3>1. work[s].undo # {} \/ work[s].replay # {}
      BY <2>2 DEF RestoreFile, Undo, Replay
    <3>2. work[s].then # "none"
      BY <3>1 DEF NothingToRestore
    <3>3. \A q \in Stores \ {s} : work'[q] = work[q]
      BY <1>0, <2>2 DEF RestoreFile, Undo, Replay
    <3>4. work'[s].then = work[s].then
      BY <1>0, <2>2 DEF RestoreFile, Undo, Replay, Restorations
    <3>5. UNCHANGED <<unsaved, phase>>
      BY <2>2 DEF RestoreFile, memory, task
    <3> QED BY <3>2, <3>3, <3>4, <3>5 DEF Free
  <2>3. CASE RestoreFails(s) \/ SetHeadFails(s)
    <3>1. work[s].undo # {} \/ work[s].replay # {} \/ FilesRestored(s)
      BY <2>3 DEF RestoreFails, SetHeadFails
    <3>2. work[s].then # "none"
      BY <3>1 DEF NothingToRestore, FilesRestored
    <3>3. work' = [work EXCEPT ![s] = Idle] /\ Continue(s) /\ unsaved' = unsaved
      BY <2>3 DEF RestoreFails, SetHeadFails, PutBack, memory
    <3> QED BY <1>0, <3>2, <3>3 DEF Free, Idle
  <2>4. CASE SetHead(s)
    <3> DEFINE new == IF work[s].then = "fork" THEN [Idle EXCEPT !.then = "marker", !.target = head[s]] ELSE Idle
    <3>1. work' = [work EXCEPT ![s] = new]
      BY <1>0, <2>4 DEF SetHead
    <3>2. new.then \in {"none", "marker"} /\ (new.then = "marker" => work[s].then = "fork")
      BY DEF Idle
    <3>3. work[s].then # "none" /\ Continue(s) /\ unsaved' = unsaved
      BY <2>4 DEF SetHead, FilesRestored
    <3> HIDE DEF new
    <3> QED BY <1>0, <3>1, <3>2, <3>3 DEF Free
  <2> QED BY <2>1, <2>2, <2>3, <2>4 DEF StoreStep
<1>2. CASE s \in Runtimes
  <2>1. /\ Active(s) /\ Free(Display) /\ \A q \in Runtimes \ {s} : ~Active(q)
        /\ s \notin forced /\ registered \in {NoTask, s}
    BY <1>1, <1>2, BusyIsAlone
  <2>2. /\ work[s].then \in {"none", "rollback"} /\ (work[s].then = "rollback" <=> phase[s] = "rollback")
        /\ (unsaved[s] => phase[s] \in {"turn", "joining", "ending"})
        /\ (registered = s => phase[s] # "opened")
    BY <1>2, StoresAssumption DEF OneActor
  <2>3. \A q \in Runtimes \ {s} : phase'[q] = phase[q]
    BY <1>0, <1>1 DEF Continue
  <2>4. /\ work'[s].then \in {"none", "rollback"} /\ (work'[s].then = "rollback" <=> phase'[s] = "rollback")
        /\ (unsaved'[s] => phase'[s] \in {"turn", "joining", "ending"})
        /\ phase'[s] \notin {"closed", "over"} /\ (phase'[s] = phase[s] \/ phase'[s] = "terminal")
    <3>1. CASE work'[s].then = work[s].then /\ phase' = phase /\ (unsaved'[s] => unsaved[s])
      BY <2>1, <2>2, <3>1 DEF Active
    <3>2. CASE /\ work'[s].then \in {"none", "marker"} /\ unsaved' = unsaved /\ work[s].then # "none"
               /\ work'[s].then = "marker" => work[s].then = "fork"
               /\ Continue(s)
      BY <1>0, <1>2, <2>1, <2>2, <3>2 DEF Active, Continue
    <3> QED BY <1>1, <3>1, <3>2
  <2> QED BY <1>0, <1>1, <1>2, <2>1, <2>2, <2>3, <2>4, TaskActsAlone
<1>3. CASE s = Display
  <2>1. (\A r \in Runtimes : ~Active(r)) /\ registered = NoTask
    BY <1>1, <1>3, BusyDisplayIsAlone
  <2>2. work[Display].then # "rollback" /\ (work[Display].then # "none" => ~unsaved[Display])
    BY DEF OneActor
  <2>3. phase' = phase
    BY <1>1, <1>3, <2>2 DEF Continue
  <2>4. \A r \in Runtimes : r \in Stores \ {s}
    BY <1>3, Bounds
  <2>5. work'[Display].then # "rollback" /\ (work'[Display].then # "none" => ~unsaved'[Display])
    BY <1>1, <1>3, <2>2
  <2> QED BY <1>0, <1>1, <2>1, <2>3, <2>4, <2>5, DisplayActsAlone
<1> QED BY <1>2, <1>3 DEF Stores

(* A task begins at rest, and its end leaves nobody.                       *)
LEMMA ActorTask ==
  ASSUME ~crossed', TypeOK, OneActor, NEW r \in Runtimes, TaskStep(r)
  PROVE  OneActor'
<1>0. /\ work \in [Stores -> Restorations] /\ unsaved \in [Stores -> BOOLEAN] /\ r \in Stores /\ Display \in Stores
      /\ DOMAIN phase = Runtimes /\ r # Display /\ r # NoTask
  BY Bounds, StoresAssumption DEF TypeOK, WorkOK, StoresOK, TasksOK
<1>1. ASSUME OpenRuntime(r) PROVE OneActor'
  <2>1. AtRest /\ Free(Display) /\ registered = NoTask
    BY <1>1 DEF OpenRuntime, Begins, AtRest
  <2>2. \A q \in Runtimes : ~Active(q)
    BY <2>1, RestIsQuiet
  <2>3. /\ phase[r] = "closed" /\ phase' = [phase EXCEPT ![r] = "opened"]
        /\ UNCHANGED <<work, unsaved, registered, forced>>
    BY <1>1 DEF OpenRuntime, Goto, Open
  <2>4. r \notin forced /\ Free(r)
    BY <2>2, <2>3 DEF OneActor
  <2> QED BY <1>0, <2>1, <2>2, <2>3, <2>4, TaskActsAlone DEF Free
<1> DEFINE Alone == /\ Active(r) /\ Free(Display) /\ \A q \in Runtimes \ {r} : ~Active(q)
                    /\ r \notin forced /\ registered \in {NoTask, r}
<1>2. /\ work[r].then \in {"none", "rollback"} /\ (work[r].then = "rollback" <=> phase[r] = "rollback")
      /\ (unsaved[r] => phase[r] \in {"turn", "joining", "ending"})
      /\ (registered = r => phase[r] # "opened")
  BY StoresAssumption DEF OneActor
<1>3. ASSUME phase[r] \notin {"closed", "over"} PROVE Alone
  BY <1>3, BusyIsAlone DEF Active
<1> HIDE DEF Alone
(* A step from one phase to another that leaves nothing unsaved.           *)
<1>4. ASSUME NEW to \in {"between", "turn", "wrote", "joining", "terminal", "ending", "over"}, Alone,
             phase' = [phase EXCEPT ![r] = to], work[r].then = "none",
             UNCHANGED <<work, unsaved, forced>>, registered' \in {registered, NoTask, r},
             registered' = r => to # "over",
             unsaved[r] => to \in {"turn", "joining", "ending"}
      PROVE  OneActor'
  BY <1>0, <1>4, TaskActsAlone DEF Alone
(* A step that appends a line.                                             *)
<1>5. ASSUME NEW to \in {"turn", "joining", "ending"}, Alone, NEW type, NEW edit,
             phase' = [phase EXCEPT ![r] = to], work[r].then = "none",
             AppendLine(r, type, edit), UNCHANGED <<work, registered, forced>>
      PROVE  OneActor'
  <2>1. unsaved' = [unsaved EXCEPT ![r] = TRUE]
    BY <1>5 DEF AppendLine
  <2> QED BY <1>0, <1>5, <2>1, TaskActsAlone DEF Alone
<1>6. ASSUME Register(r) PROVE OneActor'
  <2>1. Alone /\ phase[r] = "opened"
    BY <1>3, <1>6 DEF Register, Goto
  <2>2. registered = NoTask
    BY <1>2, <2>1 DEF Alone
  <2>3. /\ phase' = [phase EXCEPT ![r] = "between"] /\ registered' = r
        /\ UNCHANGED <<work, unsaved, forced>>
    BY <1>6, <2>2 DEF Register, Goto, memory
  <2> QED BY <1>2, <1>4, <2>1, <2>3
<1>7. ASSUME FailEarly(r) PROVE OneActor'
  <2>1. Alone
    BY <1>3, <1>7 DEF FailEarly, Goto
  <2> QED BY <1>4, <1>7, <2>1 DEF FailEarly, Goto, Free, memory
<1>8. ASSUME BeginTurn(r) PROVE OneActor'
  <2>1. Alone
    BY <1>3, <1>8 DEF BeginTurn, Goto
  <2> QED BY <1>5, <1>8, <2>1 DEF BeginTurn, Goto, Free
<1>9. ASSUME NEW p \in Paths, NEW content \in Versions \cup {Absent}, WriteFile(r, p, content) PROVE OneActor'
  <2>1. Alone
    BY <1>3, <1>9 DEF WriteFile, Goto
  <2> QED BY <1>4, <1>9, <2>1 DEF WriteFile, Goto, Free, memory
<1>10. ASSUME RecordChange(r) PROVE OneActor'
  <2>1. Alone
    BY <1>3, <1>10 DEF RecordChange, Goto
  <2> QED BY <1>2, <1>5, <1>10, <2>1 DEF RecordChange, Goto
<1>11. ASSUME RecordFails(r) PROVE OneActor'
  <2>1. Alone
    BY <1>3, <1>11 DEF RecordFails, Goto
  <2> QED BY <1>2, <1>4, <1>11, <2>1 DEF RecordFails, Goto, memory
<1>12. ASSUME Commit(r) PROVE OneActor'
  <2>1. Alone
    BY <1>3, <1>12 DEF Commit, Goto
  <2> QED BY <1>5, <1>12, <2>1 DEF Commit, Goto, Free
<1>13. ASSUME TurnSucceeds(r) PROVE OneActor'
  <2>1. Alone
    BY <1>3, <1>13 DEF TurnSucceeds, Goto
  <2> QED BY <1>4, <1>13, <2>1 DEF TurnSucceeds, Goto, Free, memory
<1>14. ASSUME Retain(r) PROVE OneActor'
  <2>1. Alone
    BY <1>3, <1>14 DEF Retain, Goto
  <2> QED BY <1>4, <1>14, <2>1 DEF Retain, Goto, Free, memory
<1>15. ASSUME Rollback(r) PROVE OneActor'
  <2>1. Alone
    BY <1>3, <1>15 DEF Rollback
  <2>2. work'[r].then = "rollback" /\ \A q \in Stores \ {r} : work'[q] = work[q]
    BY <1>0, <1>15, BegunRestores DEF Rollback, TypeOK
  <2>3. /\ phase' = [phase EXCEPT ![r] = "rollback"] /\ ~unsaved[r]
        /\ UNCHANGED <<unsaved, registered, forced>>
    BY <1>15 DEF Rollback, Free, memory
  <2> QED BY <1>0, <2>1, <2>2, <2>3, TaskActsAlone DEF Alone
<1>16. ASSUME RollbackRefused(r) PROVE OneActor'
  <2>1. Alone
    BY <1>3, <1>16 DEF RollbackRefused
  <2> QED BY <1>4, <1>16, <2>1 DEF RollbackRefused, Free, memory
<1>17. ASSUME RecordTerminal(r) PROVE OneActor'
  <2>1. Alone
    BY <1>3, <1>17 DEF RecordTerminal, Goto
  <2> QED BY <1>5, <1>17, <2>1 DEF RecordTerminal, Goto, Free
<1>18. ASSUME LeaveRegistry(r) PROVE OneActor'
  <2>1. Alone
    BY <1>3, <1>18 DEF LeaveRegistry, Goto
  <2> QED BY <1>4, <1>18, <2>1 DEF LeaveRegistry, Goto, Free, memory
<1>19. ASSUME Complete(r) PROVE OneActor'
  <2>1. Alone
    BY <1>3, <1>19 DEF Complete, Goto
  <2>2. UNCHANGED unsaved
    BY <1>19 DEF Complete, OpenAndClose, Close
  <2>3. registered' = NoTask
    BY <1>19, <2>1 DEF Complete, Alone
  <2> QED BY <1>0, <1>4, <1>19, <2>1, <2>2, <2>3 DEF Complete, Goto, Free
<1>20. ASSUME ForceStop(r) PROVE OneActor'
  <2>1. Alone
    BY <1>3, <1>20 DEF ForceStop
  <2>2. /\ phase' = [phase EXCEPT ![r] = "over"] /\ work' = [work EXCEPT ![r] = Idle]
        /\ registered' = NoTask /\ forced' = forced \cup {r} /\ ~unsaved[r]
    BY <1>20 DEF ForceStop, GoesOn, Hangs, Goto
  <2>3. UNCHANGED unsaved
    BY <1>20 DEF ForceStop, GoesOn, Hangs, OpenAndClose, Close
  <2>4. Idle.then = "none"
    BY DEF Idle
  <2> QED BY <1>0, <2>1, <2>2, <2>3, <2>4, TaskActsAlone DEF Alone
<1> QED BY <1>1, <1>6, <1>7, <1>8, <1>9, <1>10, <1>11, <1>12, <1>13, <1>14, <1>15, <1>16, <1>17,
           <1>18, <1>19, <1>20 DEF TaskStep

(* The user begins at rest.                                                *)
LEMMA ActorUser ==
  ASSUME ~crossed', TypeOK, OneActor, UserStep
  PROVE  OneActor'
<1>0. /\ work \in [Stores -> Restorations] /\ unsaved \in [Stores -> BOOLEAN] /\ Display \in Stores
      /\ DOMAIN phase = Runtimes /\ \A r \in Runtimes : r \in Stores \ {Display}
  BY Bounds DEF TypeOK, WorkOK, StoresOK, TasksOK
<1>1. ASSUME Operates PROVE Free(Display) /\ \A r \in Runtimes : ~Active(r)
  BY <1>1, RestIsQuiet DEF Operates, Begins
<1>2. ASSUME \A r \in Runtimes : ~Active(r), UNCHANGED <<task, unsaved>>, ~unsaved[Display],
             NEW i, NEW j, NEW then \in {"rewind", "switch", "fork"},
             RestoreTo(Display, i, j, then) \/ SwitchTo(Display, j, then)
      PROVE  OneActor'
  <2>1. work'[Display].then = then /\ \A q \in Stores \ {Display} : work'[q] = work[q]
    BY <1>0, <1>2, BegunRestores DEF TypeOK
  <2> QED BY <1>0, <1>2, <2>1, DisplayActsAlone DEF task
<1>3. ASSUME NEW i \in Events, RewindToCheckpoint(i) PROVE OneActor'
  BY <1>1, <1>2, <1>3 DEF RewindToCheckpoint, Free, memory
<1>4. ASSUME NEW i \in Events, SwitchBranch(i) PROVE OneActor'
  BY <1>1, <1>2, <1>4 DEF SwitchBranch, Free, memory
<1>5. ASSUME NEW i \in Events, ForkFromMessage(i) PROVE OneActor'
  <2>1. UNCHANGED <<task, unsaved>> /\ ~unsaved[Display] /\ \A r \in Runtimes : ~Active(r)
    BY <1>1, <1>5 DEF ForkFromMessage, Free, Open
  <2>2. \E t : RestoreTo(Display, LoadHead, t, "fork")
    BY <1>5 DEF ForkFromMessage
  <2> QED BY <1>2, <2>1, <2>2
<1>6. CASE AppendMarker
  <2>1. ~Free(Display) /\ work' = [work EXCEPT ![Display] = Idle] /\ UNCHANGED task
        /\ unsaved' = [unsaved EXCEPT ![Display] = TRUE]
    BY <1>6 DEF AppendMarker, AppendLine, Free
  <2>2. \A r \in Runtimes : ~Active(r)
    BY <2>1, BusyDisplayIsAlone
  <2> QED BY <1>0, <2>1, <2>2, DisplayActsAlone DEF Idle, task
<1>7. CASE MarkerFails
  <2>1. ~Free(Display) /\ UNCHANGED <<task, unsaved>> /\ work[Display].then = "marker"
    BY <1>7 DEF MarkerFails, Free, memory
  <2>2. (\A r \in Runtimes : ~Active(r)) /\ ~unsaved[Display]
    BY <2>1, BusyDisplayIsAlone DEF OneActor
  <2>3. CASE work' = [work EXCEPT ![Display] = Idle]
    BY <1>0, <2>1, <2>2, <2>3, DisplayActsAlone DEF Idle, task
  <2>4. CASE SwitchTo(Display, work[Display].target, "switch")
    BY <1>2, <2>1, <2>2, <2>4
  <2> QED BY <1>7, <2>3, <2>4 DEF MarkerFails
<1>8. CASE \E p \in Paths : EditOutside(p)
  <2>1. UNCHANGED <<memory, work, task>>
    BY <1>8 DEF EditOutside
  <2> QED BY <2>1 DEF OneActor, Active, Free, memory, task
<1>9. CASE Restart
  <2>1. /\ \A s \in Stores : work'[s].then = "none" /\ unsaved'[s] = FALSE
        /\ \A r \in Runtimes : phase'[r] \in {"closed", "over"} /\ (phase[r] = "over" => phase'[r] = "over")
        /\ registered' = NoTask /\ forced' = forced
    BY <1>9 DEF Restart, Idle
  <2> QED BY <1>0, <2>1 DEF OneActor, Active, Free
<1> QED BY <1>3, <1>4, <1>5, <1>6, <1>7, <1>8, <1>9 DEF UserStep

(* Every step leaves one actor at most.                                    *)
LEMMA ActorNext == ~crossed' /\ TypeOK /\ NothingToRestore /\ OneActor /\ [Next]_vars => OneActor'
<1>1. ASSUME ~crossed', TypeOK, NothingToRestore, OneActor, Next PROVE OneActor'
  BY <1>1, ActorStore, ActorTask, ActorUser DEF Next
<1>2. ASSUME OneActor, UNCHANGED vars PROVE OneActor'
  BY <1>2 DEF OneActor, Active, Free, vars, memory, task
<1> QED BY <1>1, <1>2

-----------------------------------------------------------------------------
(* Nothing is forgotten                                                    *)

(* The store of the task that acts or, if no task does, that of the screen. *)
Current(s) == IF s = Display THEN \A r \in Runtimes : ~Active(r) ELSE Active(s)

(* The head of the store that acts lies behind nothing that HEAD has stood  *)
(* for; and as long as HEAD could always be written, it is HEAD or one event *)
(* ahead of it.                                                            *)
HeadInv ==
  /\ acked \subseteq Chain[LoadHead]
  /\ headFile = NoHead => acked = {}
  /\ \A s \in Stores : Current(s) =>
       /\ acked \subseteq Chain[head[s]]
       /\ ~headLost =>
            /\ ~unsaved[s] => head[s] = LoadHead
            /\ unsaved[s] => /\ head[s] = Len(log) /\ head[s] # Root
                             /\ headFile = NoHead \/ headFile = log[Len(log)].parent

(* There is one current store.                                             *)
LEMMA OneCurrent ==
  ASSUME OneActor, NEW s \in Stores, NEW q \in Stores, Current(s), Current(q)
  PROVE  s = q
BY DEF OneActor, Current, Stores

(* A store at work is the current one.                                     *)
LEMMA BusyIsCurrent ==
  ASSUME OneActor, NEW s \in Stores, ~Free(s)
  PROVE  Current(s)
BY BusyIsAlone, BusyDisplayIsAlone DEF Current, Stores

(* Without HEAD the last event is loaded.                                  *)
LEMMA LoadHeadValue ==
  LogOK => /\ headFile # NoHead => headFile \in Places /\ LoadHead = headFile
           /\ headFile = NoHead => LoadHead = Len(log)
<1> SUFFICES ASSUME LogOK
             PROVE  /\ headFile # NoHead => headFile \in Places /\ LoadHead = headFile
                    /\ headFile = NoHead => LoadHead = Len(log)
  OBVIOUS
<1>1. Places = Events \cup {Root} /\ \A i \in Places : i # NoHead
  BY EventsTyped, HeadAssumption DEF Places, Events, Root
<1> QED BY <1>1 DEF LogOK, LoadHead

(* Nothing is written and nobody else becomes current.                     *)
LEMMA HeadsSame ==
  ASSUME HeadInv, UNCHANGED <<disk, memory, acked, headLost>>, \A s \in Stores : Current(s)' => Current(s)
  PROVE  HeadInv'
<1>1. LoadHead' = LoadHead /\ Chain' = Chain /\ UNCHANGED <<log, headFile, head, unsaved, acked>>
  BY DEF LoadHead, Chain, Events, disk, memory
<1> QED BY <1>1 DEF HeadInv

(* Whoever becomes current has just opened the log.                        *)
LEMMA HeadsOpened ==
  ASSUME HeadInv, UNCHANGED <<disk, acked, headLost>>,
         \A s \in Stores : Current(s)' => head'[s] = LoadHead /\ ~unsaved'[s]
  PROVE  HeadInv'
<1>1. LoadHead' = LoadHead /\ Chain' = Chain /\ UNCHANGED <<log, headFile, acked>>
  BY DEF LoadHead, Chain, Events, disk
<1> QED BY <1>1 DEF HeadInv

(* The current store appends a line.                                       *)
LEMMA HeadsAppended ==
  ASSUME TypeOK, TypeOK', HeadInv, NEW s \in Stores, Current(s), ~unsaved[s],
         NEW type, NEW edit, AppendLine(s, type, edit), UNCHANGED <<acked, headLost>>,
         \A q \in Stores : Current(q)' => q = s
  PROVE  HeadInv'
<1> DEFINE e == [type |-> type, parent |-> head[s], path |-> edit.path,
                 before |-> edit.before, after |-> edit.after]
<1>1. log' = Append(log, e) /\ headFile' = headFile /\ e.parent = head[s]
  BY DEF AppendLine
<1> HIDE DEF e
<1>2. /\ Len(log') = Len(log) + 1 /\ log'[Len(log) + 1] = e /\ Len(log) + 1 \in Events'
      /\ \A i \in Places : Chain'[i] = Chain[i]
      /\ Len(log) \in Nat
  BY <1>1, ChainsGrow, EventsTyped DEF TypeOK
<1>3. LogOK /\ LogOK' /\ LoadHead \in Places /\ head[s] \in Places
  BY LoadHeadTyped DEF TypeOK, StoresOK
<1>4. /\ headFile' # NoHead => headFile' \in Places' /\ LoadHead' = headFile'
      /\ headFile' = NoHead => LoadHead' = Len(log')
  <2>1. (LogOK => /\ headFile # NoHead => headFile \in Places /\ LoadHead = headFile
                  /\ headFile = NoHead => LoadHead = Len(log))'
    BY LoadHeadValue, PTL
  <2> QED BY <1>3, <2>1
<1>5. acked' \subseteq Chain'[LoadHead'] /\ (headFile' = NoHead => acked' = {})
  BY <1>1, <1>2, <1>3, <1>4, LoadHeadValue DEF HeadInv
<1>6. head'[s] = Len(log) + 1 /\ unsaved'[s] = TRUE
  BY DEF AppendLine, TypeOK, StoresOK
<1>7. ~headLost => headFile' = NoHead \/ headFile' = log'[Len(log')].parent
  BY <1>1, <1>2, <1>3, LoadHeadValue DEF HeadInv
<1>8. acked' \subseteq Chain'[head'[s]]
  <2>1. Upwards'
    BY <1>3, ChainUpwards, PTL
  <2>2. Chain'[Len(log) + 1] = Chain'[head[s]] \cup {Len(log) + 1}
    BY <1>1, <1>2, <2>1 DEF Upwards
  <2> QED BY <1>2, <1>3, <1>6, <2>2 DEF HeadInv
<1> QED BY <1>2, <1>5, <1>6, <1>7, <1>8 DEF HeadInv, Root

(* It writes HEAD, which stands for all that leads to it.                  *)
LEMMA HeadPersisted ==
  ASSUME TypeOK, OneActor, HeadInv, NEW s \in Stores, PersistHead(s)
  PROVE  HeadInv'
<1>1. Current(s) /\ unsaved[s]
  BY BusyIsCurrent DEF PersistHead, Free
<1>2. head[s] \in Places /\ LogOK
  BY DEF TypeOK, StoresOK
<1>3. UNCHANGED <<log, head, phase, headLost>> /\ headFile' = head[s] /\ unsaved' = [unsaved EXCEPT ![s] = FALSE]
      /\ acked' \subseteq acked \cup Chain[head[s]]
  BY DEF PersistHead, task, trace
<1>4. acked \subseteq Chain[head[s]]
  BY <1>1 DEF HeadInv
<1>5. LoadHead' = head[s] /\ Chain' = Chain /\ headFile' # NoHead
  <2>1. Chain' = Chain /\ Events' = Events
    BY <1>3, Steady
  <2>2. head[s] \in Events \cup {Root} /\ head[s] # NoHead
    BY <1>2, EventsTyped, HeadAssumption DEF Root
  <2> QED BY <1>3, <2>1, <2>2 DEF LoadHead
<1>6. \A q \in Stores : Current(q)' => q = s
  BY <1>1, <1>3, OneCurrent DEF Current, Active
<1>7. ~unsaved'[s]
  BY <1>3 DEF TypeOK, StoresOK
<1> QED BY <1>3, <1>4, <1>5, <1>6, <1>7 DEF HeadInv

(* Or it cannot.                                                           *)
LEMMA HeadNotPersisted ==
  ASSUME OneActor, HeadInv, NEW s \in Stores, HeadNotWritten(s)
  PROVE  HeadInv'
<1>1. /\ UNCHANGED <<log, headFile, head, acked, phase>> /\ headLost'
      /\ LoadHead' = LoadHead /\ Chain' = Chain
  BY DEF HeadNotWritten, LoadHead, Chain, Events, disk, task
<1>2. \A q \in Stores : Current(q)' => Current(q)
  BY <1>1 DEF Current, Active
<1> QED BY <1>1, <1>2 DEF HeadInv

(* Who has restored the files is current, and stays it.                    *)
LEMMA RestorerStaysCurrent ==
  ASSUME TypeOK, OneActor, NEW s \in Stores, FilesRestored(s), Continue(s)
  PROVE  Current(s) /\ ~unsaved[s] /\ \A q \in Stores : Current(q)' => q = s
<1>0. work[s].then \notin {"none", "marker"}
  BY DEF FilesRestored
<1>1. Current(s) /\ ~unsaved[s]
  BY <1>0, BusyIsCurrent DEF Free, OneActor, Stores
<1>2. \A r \in Runtimes : r # s => phase'[r] = phase[r]
  BY DEF Continue, TypeOK, TasksOK
<1>3. s = Display => phase' = phase
  BY DEF Continue, OneActor
<1>4. s # Display => s \in Runtimes /\ phase[s] = "rollback" /\ phase'[s] = "terminal"
  BY <1>0 DEF Continue, OneActor, Stores, TypeOK, TasksOK
<1>5. s # Display => Active(s)'
  BY <1>4 DEF Active
<1> QED BY <1>1, <1>2, <1>3, <1>4, <1>5, OneCurrent DEF Current, Active, Stores

(* It goes to another event, and what lies behind that is given up.        *)
LEMMA HeadSet ==
  ASSUME TypeOK, OneActor, HeadInv, NEW s \in Stores, SetHead(s)
  PROVE  HeadInv'
<1>1. Current(s) /\ ~unsaved[s] /\ \A q \in Stores : Current(q)' => q = s
  BY RestorerStaysCurrent DEF SetHead
<1>2. /\ work[s].target \in Places /\ LogOK
      /\ work[s].target \in Events \cup {Root} /\ work[s].target # NoHead
  BY EventsTyped, HeadAssumption DEF TypeOK, WorkOK, Restorations, Root
<1>3. /\ log' = log /\ head' = [head EXCEPT ![s] = work[s].target] /\ headFile' = work[s].target
      /\ acked' = (acked \ Chain[head[s]]) \cup Chain[work[s].target] /\ UNCHANGED <<unsaved, headLost>>
  BY DEF SetHead, trace
<1>4. LoadHead' = work[s].target /\ Chain' = Chain
  <2>1. Chain' = Chain /\ Events' = Events
    BY <1>3, Steady
  <2> QED BY <1>2, <1>3, <2>1 DEF LoadHead
<1>5. acked' = Chain[work[s].target]
  BY <1>1, <1>3 DEF HeadInv
<1>6. head'[s] = work[s].target /\ ~unsaved'[s]
  BY <1>1, <1>3 DEF TypeOK, StoresOK
<1> QED BY <1>1, <1>2, <1>3, <1>4, <1>5, <1>6 DEF HeadInv

(* Or only in memory.                                                      *)
LEMMA HeadNotSet ==
  ASSUME TypeOK, OneActor, HeadInv, NEW s \in Stores, SetHeadFails(s)
  PROVE  HeadInv'
<1>1. \A q \in Stores : Current(q)' => q = s
  BY RestorerStaysCurrent DEF SetHeadFails, PutBack
<1>2. /\ UNCHANGED <<log, headFile>> /\ headLost' /\ head'[s] = work[s].target
      /\ acked' = acked \cap Chain[work[s].target]
      /\ LoadHead' = LoadHead /\ Chain' = Chain
  BY DEF SetHeadFails, LoadHead, Chain, Events, disk, TypeOK, StoresOK
<1> QED BY <1>1, <1>2 DEF HeadInv

(* The steps of a store keep head and HEAD together.                       *)
LEMMA HeadStore ==
  ASSUME TypeOK, NothingToRestore, OneActor, HeadInv, NEW s \in Stores, StoreStep(s)
  PROVE  HeadInv'
<1>1. CASE PersistHead(s)
  BY <1>1, HeadPersisted
<1>2. CASE SetHead(s)
  BY <1>2, HeadSet
<1>3. CASE RestoreFile(s)
  <2>1. UNCHANGED <<disk, memory, acked, headLost, phase>>
    BY <1>3 DEF RestoreFile, task
  <2> QED BY <2>1, HeadsSame DEF Current, Active
<1>4. CASE RestoreFails(s)
  <2>1. UNCHANGED <<disk, memory, acked, headLost>>
    BY <1>4 DEF RestoreFails, trace
  <2>3. phase' = phase \/ (s \in Runtimes /\ phase[s] = "rollback" /\ phase' = [phase EXCEPT ![s] = "terminal"])
    BY <1>4 DEF RestoreFails, PutBack, Continue, OneActor, Stores
  <2>4. \A q \in Runtimes : Active(q)' <=> Active(q)
    BY <2>3 DEF Active, TypeOK, TasksOK
  <2> QED BY <2>1, <2>4, HeadsSame DEF Current, Stores
<1>5. CASE HeadNotWritten(s)
  BY <1>5, HeadNotPersisted
<1>6. CASE SetHeadFails(s)
  BY <1>6, HeadNotSet
<1> QED BY <1>1, <1>2, <1>3, <1>4, <1>5, <1>6 DEF StoreStep

(* So do those of a task.                                                  *)
LEMMA HeadTask ==
  ASSUME ~crossed', TypeOK, TypeOK', OneActor, HeadInv, NEW r \in Runtimes, TaskStep(r)
  PROVE  HeadInv'
<1>0. /\ r \in Stores /\ Display \in Stores /\ r # Display /\ r # NoTask
      /\ DOMAIN phase = Runtimes /\ head \in [Stores -> Places] /\ unsaved \in [Stores -> BOOLEAN]
  BY Bounds, StoresAssumption DEF TypeOK, StoresOK, TasksOK
<1>1. ASSUME Active(r) PROVE Current(r) /\ \A s \in Stores : Current(s) => s = r
  BY <1>0, <1>1, OneCurrent DEF Current
(* A step from one phase to another, that writes nothing.                  *)
<1>2. ASSUME NEW to \in {"between", "turn", "wrote", "joining", "rollback", "terminal", "ending"}, Active(r),
             phase' = [phase EXCEPT ![r] = to], UNCHANGED <<disk, memory, acked, headLost>>
      PROVE  HeadInv'
  <2>1. \A q \in Runtimes : Active(q)' <=> Active(q)
    BY <1>0, <1>2 DEF Active
  <2> QED BY <1>2, <2>1, HeadsSame DEF Current, Stores
(* A step that appends a line.                                             *)
<1>3. ASSUME NEW to \in {"turn", "joining", "ending"}, Active(r), ~unsaved[r],
             phase' = [phase EXCEPT ![r] = to], UNCHANGED <<acked, headLost>>, NEW type, NEW edit, AppendLine(r, type, edit)
      PROVE  HeadInv'
  <2>1. \A q \in Runtimes : Active(q)' <=> Active(q)
    BY <1>0, <1>3 DEF Active
  <2>2. \A s \in Stores : Current(s)' => s = r
    BY <1>1, <1>3, <2>1 DEF Current, Stores
  <2> QED BY <1>0, <1>1, <1>3, <2>2, HeadsAppended
(* A step after which no task is active.                                   *)
<1>4. ASSUME Active(r), phase' = [phase EXCEPT ![r] = "over"], UNCHANGED <<disk, acked, headLost>>,
             Free(Display), OpenAndClose(Display, r)
      PROVE  HeadInv'
  <2>1. \A q \in Runtimes : ~(Active(q)')
    BY <1>0, <1>4, BusyIsAlone DEF Active
  <2>2. \A s \in Stores : Current(s)' => s = Display
    BY <2>1 DEF Current, Stores
  <2>3. head'[Display] = LoadHead /\ ~unsaved'[Display]
    BY <1>0, <1>4 DEF OpenAndClose, Free
  <2> QED BY <1>4, <2>2, <2>3, HeadsOpened
<1>5. ASSUME phase[r] \notin {"closed", "over"} PROVE Active(r) /\ Free(Display) /\ r \notin forced
  BY <1>5, BusyIsAlone DEF Active
<1>6. phase[r] \in {"opened", "wrote", "rollback", "over", "closed"} => ~unsaved[r]
  BY DEF OneActor
<1>7. ASSUME OpenRuntime(r) PROVE HeadInv'
  <2>1. AtRest /\ phase[r] = "closed"
    BY <1>7 DEF OpenRuntime, Begins, Goto
  <2>2. \A q \in Runtimes : ~Active(q)
    BY <2>1, RestIsQuiet
  <2>3. phase' = [phase EXCEPT ![r] = "opened"] /\ UNCHANGED <<disk, acked, headLost>> /\ Open(r)
    BY <1>7 DEF OpenRuntime, Begins, Goto
  <2>4. \A q \in Runtimes : Active(q)' <=> q = r
    BY <1>0, <2>2, <2>3 DEF Active
  <2>5. \A s \in Stores : Current(s)' => s = r
    BY <2>4 DEF Current, Stores
  <2>6. head'[r] = LoadHead /\ ~unsaved'[r]
    BY <1>0, <1>6, <2>1, <2>3 DEF Open
  <2> QED BY <2>3, <2>5, <2>6, HeadsOpened
<1>8. ASSUME Register(r) PROVE HeadInv'
  <2>1. Active(r) /\ phase[r] = "opened"
    BY <1>5, <1>8 DEF Register, Goto, trace
  <2>2. registered = NoTask
    BY <2>1, BusyIsAlone DEF OneActor
  <2> QED BY <1>2, <1>8, <2>1, <2>2 DEF Register, Goto, trace
<1>9. ASSUME FailEarly(r) PROVE HeadInv'
  BY <1>2, <1>5, <1>9 DEF FailEarly, Goto, trace
<1>10. ASSUME BeginTurn(r) PROVE HeadInv'
  BY <1>3, <1>5, <1>10 DEF BeginTurn, Goto, trace, Free
<1>11. ASSUME NEW p \in Paths, NEW content \in Versions \cup {Absent}, WriteFile(r, p, content) PROVE HeadInv'
  BY <1>2, <1>5, <1>11 DEF WriteFile, Goto, trace
<1>12. ASSUME RecordChange(r) PROVE HeadInv'
  BY <1>3, <1>5, <1>6, <1>12 DEF RecordChange, Goto, trace
<1>13. ASSUME RecordFails(r) PROVE HeadInv'
  BY <1>2, <1>5, <1>13 DEF RecordFails, Goto, trace
<1>14. ASSUME Commit(r) PROVE HeadInv'
  BY <1>3, <1>5, <1>14 DEF Commit, Goto, trace, Free
<1>15. ASSUME TurnSucceeds(r) PROVE HeadInv'
  BY <1>2, <1>5, <1>15 DEF TurnSucceeds, Goto, trace
<1>16. ASSUME Retain(r) PROVE HeadInv'
  BY <1>2, <1>5, <1>16 DEF Retain, Goto, trace
<1>17. ASSUME Rollback(r) PROVE HeadInv'
  BY <1>2, <1>5, <1>17 DEF Rollback, trace
<1>18. ASSUME RollbackRefused(r) PROVE HeadInv'
  BY <1>2, <1>5, <1>18 DEF RollbackRefused, trace
<1>19. ASSUME RecordTerminal(r) PROVE HeadInv'
  BY <1>3, <1>5, <1>19 DEF RecordTerminal, Goto, trace, Free
<1>20. ASSUME LeaveRegistry(r) PROVE HeadInv'
  BY <1>2, <1>5, <1>20 DEF LeaveRegistry, Goto, trace
<1>21. ASSUME Complete(r) PROVE HeadInv'
  BY <1>4, <1>5, <1>21 DEF Complete, Goto, trace
<1>22. ASSUME ForceStop(r) PROVE HeadInv'
  BY <1>4, <1>5, <1>22 DEF ForceStop, GoesOn, Hangs, Goto
<1> QED BY <1>7, <1>8, <1>9, <1>10, <1>11, <1>12, <1>13, <1>14, <1>15, <1>16, <1>17, <1>18, <1>19,
           <1>20, <1>21, <1>22 DEF TaskStep

(* So do those of the user.                                                *)
LEMMA HeadUser ==
  ASSUME ~crossed', TypeOK, TypeOK', OneActor, HeadInv, UserStep
  PROVE  HeadInv'
<1>0. Display \in Stores /\ \A s \in Stores : s # Display => s \in Runtimes
  BY Bounds DEF Stores
<1>1. ASSUME UNCHANGED <<disk, memory, acked, task, headLost>> PROVE HeadInv'
  BY <1>1, HeadsSame DEF Current, Active, task
<1>2. ASSUME NEW i \in Events, RewindToCheckpoint(i) PROVE HeadInv'
  BY <1>1, <1>2 DEF RewindToCheckpoint, Operates, Begins
<1>3. ASSUME NEW i \in Events, SwitchBranch(i) PROVE HeadInv'
  BY <1>1, <1>3 DEF SwitchBranch, Operates, Begins
<1>4. ASSUME NEW i \in Events, ForkFromMessage(i) PROVE HeadInv'
  <2>1. AtRest /\ Free(Display)
    BY <1>4 DEF ForkFromMessage, Operates, Begins
  <2>2. (\A r \in Runtimes : ~Active(r)) /\ ~unsaved[Display]
    BY <2>1, RestIsQuiet DEF Free
  <2>3. UNCHANGED <<disk, acked, headLost, phase, unsaved>> /\ head' = [head EXCEPT ![Display] = LoadHead]
    BY <1>4 DEF ForkFromMessage, Operates, Begins, Open, task
  <2>4. \A s \in Stores : Current(s)' => s = Display
    BY <1>0, <2>2, <2>3 DEF Current, Active
  <2>5. head'[Display] = LoadHead /\ ~unsaved'[Display]
    BY <1>0, <2>2, <2>3 DEF TypeOK, StoresOK
  <2> QED BY <2>3, <2>4, <2>5, HeadsOpened
<1>5. CASE AppendMarker
  <2>1. ~Free(Display) /\ AppendLine(Display, "marker", NoChange) /\ UNCHANGED <<acked, headLost, phase>>
    BY <1>5 DEF AppendMarker, Free, task, trace
  <2>2. (\A r \in Runtimes : ~Active(r)) /\ Current(Display)
    BY <1>0, <2>1, BusyDisplayIsAlone, BusyIsCurrent
  <2>3. \A s \in Stores : Current(s)' => s = Display
    BY <1>0, <2>1, <2>2 DEF Current, Active
  <2>4. ~unsaved[Display]
    BY <1>5 DEF AppendMarker, OneActor
  <2> QED BY <1>0, <2>1, <2>2, <2>3, <2>4, HeadsAppended
<1>6. CASE MarkerFails
  BY <1>1, <1>6 DEF MarkerFails, trace
<1>7. CASE \E p \in Paths : EditOutside(p)
  BY <1>1, <1>7 DEF EditOutside
<1>8. CASE Restart
  <2>1. UNCHANGED <<disk, acked, headLost>>
    BY <1>8 DEF Restart
  <2>2. \A r \in Runtimes : ~(Active(r)')
    BY <1>8 DEF Restart, Active
  <2>3. \A s \in Stores : Current(s)' => s = Display
    BY <1>0, <2>2 DEF Current
  <2>4. head'[Display] = LoadHead /\ ~unsaved'[Display]
    BY <1>0, <1>8 DEF Restart
  <2> QED BY <2>1, <2>3, <2>4, HeadsOpened
<1> QED BY <1>2, <1>3, <1>4, <1>5, <1>6, <1>7, <1>8 DEF UserStep

(* At first the log is empty.                                              *)
LEMMA HeadInit == Init => HeadInv
<1>1. ASSUME Init PROVE Events = {} /\ LoadHead = 0
  BY <1>1, HeadAssumption DEF Init, Events, LoadHead, Root
<1> QED BY <1>1 DEF Init, HeadInv, Root

(* Every step keeps head and HEAD together.                                *)
LEMMA HeadNext ==
  ~crossed' /\ TypeOK /\ TypeOK' /\ NothingToRestore /\ OneActor /\ HeadInv /\ [Next]_vars => HeadInv'
<1>1. ASSUME ~crossed', TypeOK, TypeOK', NothingToRestore, OneActor, HeadInv, Next PROVE HeadInv'
  BY <1>1, HeadStore, HeadTask, HeadUser DEF Next
<1>2. ASSUME HeadInv, UNCHANGED vars PROVE HeadInv'
  <2>1. UNCHANGED <<disk, memory, acked, headLost, phase>>
    BY <1>2 DEF vars, task, trace
  <2> QED BY <1>2, <2>1, HeadsSame DEF Current, Active
<1> QED BY <1>1, <1>2

(* Crossings and failed writes of HEAD are never forgotten.                *)
LEMMA HistoryLasts ==
  ASSUME TypeOK, [Next]_vars
  PROVE  (crossed => crossed') /\ (headLost => headLost')
<1>1. ASSUME NEW s \in Stores, StoreStep(s) PROVE crossed' = crossed /\ (headLost' = headLost \/ headLost')
  BY <1>1 DEF StoreStep, PersistHead, HeadNotWritten, RestoreFile, RestoreFails, SetHead, SetHeadFails, trace
<1>2. ASSUME NEW r \in Runtimes, TaskStep(r) PROVE (crossed' = crossed \/ crossed') /\ headLost' = headLost
  BY <1>2 DEF TaskStep, OpenRuntime, Begins, Register, FailEarly, BeginTurn, WriteFile, RecordChange, RecordFails,
              Commit, TurnSucceeds, Retain, Rollback, RollbackRefused, RecordTerminal, LeaveRegistry,
              Complete, ForceStop, GoesOn, Hangs, trace
<1>3. ASSUME UserStep PROVE (crossed' = crossed \/ crossed') /\ headLost' = headLost
  BY <1>3 DEF UserStep, RewindToCheckpoint, SwitchBranch, ForkFromMessage, Operates, Begins, AppendMarker,
              MarkerFails, EditOutside, Restart, trace
<1>4. ASSUME UNCHANGED vars PROVE crossed' = crossed /\ headLost' = headLost
  BY <1>4 DEF vars, trace
<1> QED BY <1>1, <1>2, <1>3, <1>4 DEF Next

(* What holds of the actors and of their stores until two of them cross.   *)
Alone == OneActor /\ HeadInv
SessionInv == TypeOK /\ NothingToRestore /\ (~crossed => Alone)

(* The invariant about actors and heads.                                   *)
LEMMA SessionInvStep ==
  ASSUME SessionInv, [Next]_vars
  PROVE  SessionInv'
<1>1. TypeOK' /\ NothingToRestore'
  BY TypeNext, NothingAlways DEF SessionInv
<1>2. ASSUME ~crossed' PROVE OneActor' /\ HeadInv'
  BY <1>1, <1>2, HistoryLasts, ActorNext, HeadNext DEF SessionInv, Alone
<1> QED BY <1>1, <1>2 DEF SessionInv, Alone

LEMMA SessionInvAlways == Spec => []SessionInv
<1>1. Init => SessionInv
  BY TypeInit, ActorInit, HeadInit DEF SessionInv, Alone, Init, NothingToRestore, Idle
<1>2. SessionInv /\ [Next]_vars => SessionInv'
  BY SessionInvStep
<1> QED BY <1>1, <1>2, PTL DEF Spec

(* An event HEAD has stood for stays in the conversation until someone asks *)
(* to go back behind it: no task, no crash and no failed write of HEAD      *)
(* loses it, unless two actors worked on the session at once.              *)
THEOREM NothingForgottenAlways == Spec => []NothingForgotten
<1>1. SessionInv => NothingForgotten
  BY DEF SessionInv, Alone, HeadInv, NothingForgotten
<1> QED BY <1>1, SessionInvAlways, PTL

-----------------------------------------------------------------------------
(* What the user wrote survives                                            *)

(* A tool has written over it and is about to record what it wrote over.    *)
Held(p) == \E r \in Runtimes : phase[r] = "wrote" /\ change[r].path = p /\ change[r].before = Foreign

Quiet(s) == work[s].undo = {} /\ DOMAIN work[s].backup = {}

(* It is in its file, and nobody is about to put another image there.       *)
InFile(p) ==
  /\ files[p] = Foreign
  /\ \A s \in Stores : /\ p \in DOMAIN work[s].backup => work[s].backup[p] = Foreign
                       /\ \A i \in work[s].undo : log[i].path # p

Kept(p) == InFile(p) \/ Recorded(p) \/ Held(p)

(* What is to be undone has a backup, a task rolls back in the phase of that *)
(* name, and tools never write what the user writes.                       *)
WorkSound ==
  /\ \A s \in Stores : /\ work[s].then = "none" => Quiet(s)
                       /\ \A i \in work[s].undo : log[i].path \in DOMAIN work[s].backup
  /\ \A r \in Runtimes : /\ work[r].then = "rollback" => phase[r] = "rollback"
                         /\ phase[r] = "wrote" => change[r].after # Foreign

Lost == replayed \cup contested

EditsInv == WorkSound /\ (~unclean => \A p \in edited \ Lost : Kept(p))

(* The invariant says more than the property.                              *)
LEMMA EditsOfInv == EditsInv => EditsSurviveGoingBack
BY DEF EditsInv, EditsSurviveGoingBack, Lost, Kept, InFile, Held

(* At first nobody has edited anything.                                    *)
LEMMA EditsInit == Init => EditsInv
BY Bounds DEF Init, EditsInv, WorkSound, Quiet, Idle

(* What is recorded stays recorded.                                        *)
LEMMA RecordedStays ==
  ASSUME LogOK, LogOK', NEW p, Recorded(p),
         log' = log \/ \E s, type, edit : AppendLine(s, type, edit)
  PROVE  Recorded(p)'
<1>1. CASE log' = log
  BY <1>1, Steady DEF Recorded
<1>2. CASE \E s, type, edit : AppendLine(s, type, edit)
  <2>1. \E e : log' = Append(log, e)
    BY <1>2 DEF AppendLine
  <2>2. Events \subseteq Events' /\ \A i \in Events : log'[i] = log[i]
    BY <2>1, ChainsGrow
  <2> QED BY <2>2 DEF Recorded
<1> QED BY <1>1, <1>2

(* The events that were there stay what they were.                         *)
LEMMA EventsStay ==
  ASSUME LogOK, LogOK', log' = log \/ \E s, type, edit : AppendLine(s, type, edit)
  PROVE  \A i \in Events : log'[i] = log[i]
<1>1. CASE \E s, type, edit : AppendLine(s, type, edit)
  <2>1. \E e : log' = Append(log, e)
    BY <1>1 DEF AppendLine
  <2> QED BY <2>1, ChainsGrow
<1> QED BY <1>1

(* Restorations go on or end, and a tool writes no content of the user's.   *)
LEMMA SoundKept ==
  ASSUME TypeOK, LogOK', WorkSound, log' = log \/ \E s, type, edit : AppendLine(s, type, edit),
         \A s \in Stores :
           \/ work'[s] = work[s]
           \/ Quiet(s)' /\ work'[s].then # "rollback"
           \/ /\ work'[s].undo \subseteq work[s].undo
              /\ work'[s].backup = work[s].backup /\ work'[s].then = work[s].then,
         \A r \in Runtimes : phase'[r] = "wrote" =>
           (phase[r] = "wrote" /\ change'[r] = change[r]) \/ change'[r].after # Foreign,
         \A r \in Runtimes : phase[r] = "rollback" => phase'[r] = "rollback" \/ work'[r].then # "rollback"
  PROVE  WorkSound'
<1>1. \A i \in Events : log'[i] = log[i]
  BY EventsStay DEF TypeOK
<1>2. ASSUME NEW s \in Stores
      PROVE  /\ work'[s].then = "none" => Quiet(s)'
             /\ \A i \in work'[s].undo : log'[i].path \in DOMAIN work'[s].backup
  <2>1. work[s].undo \subseteq Events
    BY DEF TypeOK, WorkOK, Restorations
  <2>2. /\ work[s].then = "none" => work[s].undo = {} /\ DOMAIN work[s].backup = {}
        /\ \A i \in work[s].undo : log[i].path \in DOMAIN work[s].backup
    BY DEF WorkSound, Quiet
  <2>3. CASE Quiet(s)'
    BY <2>3 DEF Quiet
  <2>4. CASE work'[s] = work[s]
    BY <1>1, <2>1, <2>2, <2>4 DEF Quiet
  <2>5. CASE /\ work'[s].undo \subseteq work[s].undo
             /\ work'[s].backup = work[s].backup /\ work'[s].then = work[s].then
    BY <1>1, <2>1, <2>2, <2>5 DEF Quiet
  <2> QED BY <2>3, <2>4, <2>5
<1>3. \A r \in Runtimes : phase'[r] = "wrote" => change'[r].after # Foreign
  BY DEF WorkSound
<1>4. ASSUME NEW r \in Runtimes PROVE work'[r].then = "rollback" => phase'[r] = "rollback"
  <2>1. r \in Stores
    BY Bounds
  <2> QED BY <2>1 DEF WorkSound
<1> QED BY <1>2, <1>3, <1>4 DEF WorkSound

(* What a step that begins no restoration does to one edited file.         *)
LEMMA EditKept ==
  ASSUME TypeOK, LogOK', NEW p, Kept(p), log' = log \/ \E s, type, edit : AppendLine(s, type, edit),
         \A s \in Stores :
           \/ work'[s] = work[s]
           \/ Quiet(s)'
           \/ work'[s].undo \subseteq work[s].undo /\ work'[s].backup = work[s].backup,
         InFile(p) => files'[p] = Foreign \/ Recorded(p)' \/ Held(p)',
         \A r \in Runtimes : phase[r] = "wrote" /\ change[r].path = p /\ change[r].before = Foreign =>
           (phase'[r] = "wrote" /\ change'[r] = change[r]) \/ Kept(p)'
  PROVE  Kept(p)'
<1>1. \A i \in Events : log'[i] = log[i]
  BY EventsStay DEF TypeOK
<1>2. CASE Recorded(p)
  BY <1>2, RecordedStays DEF Kept, TypeOK
<1>3. CASE Held(p)
  BY <1>3 DEF Held, Kept
<1>4. CASE InFile(p)
  <2>1. ASSUME NEW s \in Stores
        PROVE  /\ p \in DOMAIN work'[s].backup => work'[s].backup[p] = Foreign
               /\ \A i \in work'[s].undo : log'[i].path # p
    <3>1. work[s].undo \subseteq Events
      BY DEF TypeOK, WorkOK, Restorations
    <3>2. /\ p \in DOMAIN work[s].backup => work[s].backup[p] = Foreign
          /\ \A i \in work[s].undo : log[i].path # p
      BY <1>4 DEF InFile
    <3>3. CASE Quiet(s)'
      BY <3>3 DEF Quiet
    <3>4. CASE work'[s] = work[s]
      BY <1>1, <3>1, <3>2, <3>4
    <3>5. CASE work'[s].undo \subseteq work[s].undo /\ work'[s].backup = work[s].backup
      BY <1>1, <3>1, <3>2, <3>5
    <3> QED BY <3>3, <3>4, <3>5
  <2>2. files'[p] = Foreign => InFile(p)'
    BY <2>1 DEF InFile
  <2> QED BY <1>4, <2>2 DEF Kept
<1> QED BY <1>2, <1>3, <1>4 DEF Kept

(* A restoration that is begun: what it will overwrite is what the log says,*)
(* or its backup is what the user wrote.                                   *)
LEMMA EditsBegun ==
  ASSUME TypeOK, WorkSound, UNCHANGED <<files, log, change>>,
         NEW s \in Stores, NEW from \in Places, NEW target \in Places, NEW then, then # "none",
         RestoreTo(s, from, target, then) \/ (from = head[s] /\ SwitchTo(s, target, then)),
         \A r \in Runtimes : phase'[r] = "wrote" <=> phase[r] = "wrote",
         \A r \in Runtimes \ {s} : phase'[r] = phase[r],
         s \in Runtimes /\ then = "rollback" => phase'[s] = "rollback"
  PROVE  WorkSound' /\ \A p : Kept(p) => Kept(p)'
<1>1. \A p : (Recorded(p)' <=> Recorded(p)) /\ (Held(p)' <=> Held(p))
  BY Steady DEF Recorded, Held
<1>2. PICK undo \in SUBSET Events, replay \in SUBSET Events :
        Verified(undo) /\ work' = [work EXCEPT ![s] = Restoration(undo, replay, target, then)]
  <2>1. CASE RestoreTo(s, from, target, then)
    <3> DEFINE undo == FileEvents(Chain[from] \ Chain[target])
    <3>1. undo \in SUBSET Events
      BY ChainOfEvents DEF FileEvents, TypeOK
    <3>2. Verified(undo) /\ work' = [work EXCEPT ![s] = Restoration(undo, {}, target, then)]
      BY <2>1 DEF RestoreTo
    <3> HIDE DEF undo
    <3> QED BY <3>1, <3>2
  <2>2. CASE from = head[s] /\ SwitchTo(s, target, then)
    <3> DEFINE a == CommonAncestor(head[s], target)
               undo == FileEvents(Chain[head[s]] \ Chain[a])
               replay == FileEvents(Chain[target] \ Chain[a])
    <3>1. undo \in SUBSET Events /\ replay \in SUBSET Events
      BY <2>2, ChainOfEvents DEF FileEvents, TypeOK
    <3>2. Verified(undo) /\ work' = [work EXCEPT ![s] = Restoration(undo, replay, target, then)]
      BY <2>2 DEF SwitchTo
    <3> HIDE DEF undo, replay
    <3> QED BY <3>1, <3>2
  <2> QED BY <2>1, <2>2
<1> DEFINE w == Restoration(undo, replay, target, then)
<1>3. /\ w.undo = undo /\ w.then = then
      /\ \A i \in undo : log[i].path \in DOMAIN w.backup
      /\ \A p \in DOMAIN w.backup : w.backup[p] = files[p]
  BY DEF Restoration, Restrict
<1>4. work'[s] = w /\ \A q \in Stores \ {s} : work'[q] = work[q]
  BY <1>2 DEF TypeOK, WorkOK
<1> HIDE DEF w
<1>5. WorkSound'
  <2>1. \A r \in Runtimes : r \in Stores
    BY Bounds
  <2> QED BY <1>3, <1>4, <2>1 DEF WorkSound, Quiet
<1>6. ASSUME NEW i \in undo, files[log[i].path] = Foreign PROVE Recorded(log[i].path)
  <2> DEFINE p == log[i].path
             same == {j \in undo : log[j].path = p}
             k == Newest(same)
  <2>1. same \in SUBSET (1..Len(log)) /\ same # {} /\ Len(log) \in Nat
    BY EventsTyped DEF Events, TypeOK
  <2> HIDE DEF same
  <2>2. k \in same /\ \A j \in same : j <= k
    BY <2>1, NewestIsGreatest
  <2> HIDE DEF k
  <2>3. k \in undo /\ log[k].path = p /\ \A j \in undo : log[j].path = log[k].path => j <= k
    BY <2>2 DEF same
  <2>4. files[p] = log[k].after
    BY <1>2, <2>3 DEF Verified
  <2> QED BY <1>2, <1>6, <2>3, <2>4 DEF Recorded
<1>7. ASSUME NEW p, InFile(p) PROVE InFile(p)' \/ Recorded(p)
  <2>1. CASE \E i \in undo : log[i].path = p
    BY <1>6, <1>7, <2>1 DEF InFile
  <2>2. CASE \A i \in undo : log[i].path # p
    BY <1>3, <1>4, <1>7, <2>2 DEF InFile
  <2> QED BY <2>1, <2>2
<1> QED BY <1>1, <1>5, <1>7 DEF Kept

(* Files that are put back are what they were when they were backed up.     *)
LEMMA EditsPutBack ==
  ASSUME TypeOK, TypeOK', EditsInv, NEW s \in Stores, PutBack(s),
         UNCHANGED <<log, edited, replayed, contested, unclean>>
  PROVE  EditsInv'
<1>1. /\ work' = [work EXCEPT ![s] = Idle] /\ change' = change
      /\ files' = [p \in Paths |-> IF p \in DOMAIN work[s].backup THEN work[s].backup[p] ELSE files[p]]
      /\ \A r \in Runtimes : phase'[r] = phase[r] \/ (phase'[r] = "terminal" /\ r = s /\ work[s].then = "rollback")
  BY DEF PutBack, Continue, TypeOK, TasksOK
<1>2. \A q \in Stores : work'[q] = work[q] \/ (Quiet(q)' /\ work'[q].then # "rollback")
  BY <1>1 DEF Quiet, Idle, TypeOK, WorkOK
<1>a. \A r \in Runtimes : phase[r] = "wrote" <=> phase'[r] = "wrote"
  BY <1>1 DEF EditsInv, WorkSound
<1>b. \A r \in Runtimes : phase[r] = "rollback" => phase'[r] = "rollback" \/ work'[r].then # "rollback"
  <2>1. Idle.then = "none" /\ \A r \in Runtimes : r \in Stores
    BY Bounds DEF Idle
  <2> QED BY <1>1, <2>1 DEF TypeOK, WorkOK
<1>3. ASSUME NEW p \in edited \ Lost, Kept(p) PROVE Kept(p)'
  <2>1. InFile(p) => files'[p] = Foreign
    BY <1>1 DEF InFile, TypeOK, HistoryOK
  <2>2. p \in Paths
    BY DEF TypeOK, HistoryOK
  <2> QED BY <1>1, <1>2, <1>3, <1>a, <2>1, EditKept DEF TypeOK
<1>4. WorkSound'
  BY <1>1, <1>2, <1>a, <1>b, SoundKept DEF EditsInv, TypeOK
<1> QED BY <1>3, <1>4 DEF EditsInv, Lost

(* A step that changes no file but perhaps the log, begins no restoration   *)
(* and writes nothing.                                                     *)
LEMMA EditsSame ==
  ASSUME TypeOK, TypeOK', EditsInv, UNCHANGED <<files, edited, replayed, contested, unclean>>,
         log' = log \/ \E s, type, edit : AppendLine(s, type, edit),
         \A s \in Stores : work'[s] = work[s] \/ (Quiet(s)' /\ work'[s].then # "rollback"),
         \A r \in Runtimes : phase'[r] = "wrote" => phase[r] = "wrote" /\ change'[r] = change[r],
         \A r \in Runtimes : phase[r] = "wrote" =>
           \/ phase'[r] = "wrote" /\ change'[r] = change[r]
           \/ \A p : p = change[r].path /\ change[r].before = Foreign => Recorded(p)',
         \A r \in Runtimes : phase[r] = "rollback" => phase'[r] = "rollback" \/ work'[r].then # "rollback"
  PROVE  EditsInv'
<1>1. WorkSound'
  BY SoundKept DEF EditsInv, TypeOK
<1>2. ASSUME NEW p, Kept(p) PROVE Kept(p)'
  <2>1. InFile(p) => files'[p] = Foreign
    BY DEF InFile
  <2>2. \A r \in Runtimes : phase[r] = "wrote" /\ change[r].path = p /\ change[r].before = Foreign =>
           (phase'[r] = "wrote" /\ change'[r] = change[r]) \/ Kept(p)'
    BY DEF Kept
  <2> QED BY <1>2, <2>1, <2>2, EditKept DEF TypeOK
<1> QED BY <1>1, <1>2 DEF EditsInv, Lost

(* A file is restored, or put back, without losing an edit.                *)
LEMMA EditsStore ==
  ASSUME TypeOK, TypeOK', EditsInv, NEW s \in Stores, StoreStep(s)
  PROVE  EditsInv'
<1>1. CASE PersistHead(s) \/ HeadNotWritten(s)
  <2>1. UNCHANGED <<log, files, work, phase, change, edited, replayed, contested, unclean>>
    BY <1>1 DEF PersistHead, HeadNotWritten, disk, task, trace
  <2> QED BY <2>1, EditsSame
<1>2. CASE RestoreFile(s)
  <2>1. /\ UNCHANGED <<log, phase, change, edited, contested, unclean>>
        /\ replayed \subseteq replayed'
        /\ Undo(s) \/ Replay(s)
    BY <1>2 DEF RestoreFile, Undo, Replay, disk, task
  <2>2. \A q \in Stores : \/ work'[q] = work[q]
                         \/ /\ work'[q].undo \subseteq work[q].undo
                            /\ work'[q].backup = work[q].backup /\ work'[q].then = work[q].then
    BY <2>1 DEF Undo, Replay, TypeOK, WorkOK, Restorations
  <2>3. WorkSound'
    BY <2>1, <2>2, SoundKept DEF EditsInv, TypeOK
  <2>4. ASSUME NEW p \in edited \ Lost', Kept(p) PROVE Kept(p)'
    <3>1. ASSUME InFile(p) PROVE files'[p] = Foreign
      <4>1. CASE Undo(s)
        <5> DEFINE i == Newest(work[s].undo)
        <5>1. work[s].undo # {} /\ work[s].undo \in SUBSET (1..Len(log)) /\ Len(log) \in Nat
          BY <4>1, EventsTyped DEF Undo, TypeOK, WorkOK, Restorations, Events
        <5>2. i \in work[s].undo
          BY <5>1, NewestIsGreatest
        <5>3. files' = [files EXCEPT ![log[i].path] = log[i].before]
          BY <4>1 DEF Undo
        <5> HIDE DEF i
        <5> QED BY <3>1, <5>2, <5>3 DEF InFile, TypeOK, WorkOK
      <4>2. CASE Replay(s)
        <5> DEFINE q == log[Oldest(work[s].replay)].path
        <5>1. \E c : files' = [files EXCEPT ![q] = c]
          BY <4>2 DEF Replay
        <5>2. q \in replayed'
          BY <4>2 DEF Replay
        <5>3. p # q
          BY <2>4, <5>2 DEF Lost
        <5> HIDE DEF q
        <5> QED BY <3>1, <5>1, <5>3 DEF InFile, TypeOK, WorkOK
      <4> QED BY <2>1, <4>1, <4>2
    <3> QED BY <2>1, <2>2, <2>4, <3>1, EditKept DEF TypeOK
  <2> QED BY <2>1, <2>3, <2>4 DEF EditsInv, Lost
<1>3. CASE RestoreFails(s) \/ SetHeadFails(s)
  <2>1. PutBack(s) /\ UNCHANGED <<log, edited, replayed, contested, unclean>>
    BY <1>3 DEF RestoreFails, SetHeadFails, disk, trace
  <2> QED BY <2>1, EditsPutBack
<1>4. CASE SetHead(s)
  <2>1. UNCHANGED <<log, files, change, edited, replayed, contested, unclean>>
    BY <1>4 DEF SetHead, Continue, trace
  <2> DEFINE new == IF work[s].then = "fork" THEN [Idle EXCEPT !.then = "marker", !.target = head[s]] ELSE Idle
  <2>2. work' = [work EXCEPT ![s] = new]
    BY <1>4 DEF SetHead, TypeOK, WorkOK
  <2>3. new.undo = {} /\ DOMAIN new.backup = {} /\ new.then \in {"none", "marker"}
    BY DEF Idle
  <2>4. \A r \in Runtimes : phase'[r] = phase[r] \/ (phase'[r] = "terminal" /\ r = s /\ work[s].then = "rollback")
    BY <1>4 DEF SetHead, Continue, TypeOK, TasksOK
  <2> HIDE DEF new
  <2>5. \A q \in Stores : work'[q] = work[q] \/ (Quiet(q)' /\ work'[q].then # "rollback")
    BY <2>2, <2>3 DEF Quiet, TypeOK, WorkOK
  <2>6. \A r \in Runtimes : phase[r] = "wrote" <=> phase'[r] = "wrote"
    BY <2>4 DEF EditsInv, WorkSound
  <2>7. \A r \in Runtimes : phase[r] = "rollback" => phase'[r] = "rollback" \/ work'[r].then # "rollback"
    BY <2>2, <2>3, <2>4 DEF TypeOK, WorkOK
  <2> QED BY <2>1, <2>5, <2>6, <2>7, EditsSame
<1> QED BY <1>1, <1>2, <1>3, <1>4 DEF StoreStep

(* What a tool writes over is held until it is recorded or put back.        *)
LEMMA EditsTask ==
  ASSUME TypeOK, TypeOK', EditsInv, NEW r \in Runtimes, TaskStep(r)
  PROVE  EditsInv'
<1>0. DOMAIN phase = Runtimes /\ DOMAIN change = Runtimes /\ r \in Stores
  BY Bounds DEF TypeOK, TasksOK
(* A step from one phase to another, that changes no file.                 *)
<1>1. ASSUME NEW to \in {"opened", "between", "turn", "joining", "terminal", "ending", "over"},
             phase[r] \notin {"wrote", "rollback"}, phase' = [phase EXCEPT ![r] = to],
             UNCHANGED <<files, work, change, edited, replayed, contested, unclean>>,
             log' = log \/ \E s, type, edit : AppendLine(s, type, edit)
      PROVE  EditsInv'
  BY <1>0, <1>1, EditsSame
<1>2. ASSUME NEW p \in Paths, NEW content \in Versions \cup {Absent}, WriteFile(r, p, content) PROVE EditsInv'
  <2>1. /\ phase[r] = "turn" /\ phase' = [phase EXCEPT ![r] = "wrote"]
        /\ change' = [change EXCEPT ![r] = [path |-> p, before |-> files[p], after |-> content]]
        /\ files' = [files EXCEPT ![p] = content]
        /\ UNCHANGED <<log, work, edited, replayed, contested, unclean>>
    BY <1>2 DEF WriteFile, Goto, disk, trace
  <2>2. content # Foreign
    BY ContentsAssumption
  <2>3. /\ phase'[r] = "wrote" /\ change'[r].path = p /\ change'[r].before = files[p] /\ change'[r].after = content
        /\ \A q \in Runtimes \ {r} : phase'[q] = phase[q] /\ change'[q] = change[q]
    BY <1>0, <2>1
  <2>4. WorkSound'
    BY <1>0, <2>1, <2>2, <2>3, SoundKept DEF EditsInv, TypeOK
  <2>5. ASSUME NEW n \in edited \ Lost, Kept(n) PROVE Kept(n)'
    <3>1. InFile(n) => files'[n] = Foreign \/ Held(n)'
      <4>1. n = p => (InFile(n) => Held(n)')
        BY <2>3 DEF InFile, Held
      <4>2. n # p => (InFile(n) => files'[n] = Foreign)
        BY <2>1 DEF InFile, TypeOK, WorkOK
      <4> QED BY <4>1, <4>2
    <3>2. \A q \in Runtimes : phase[q] = "wrote" => phase'[q] = "wrote" /\ change'[q] = change[q]
      BY <2>1, <2>3
    <3> QED BY <2>1, <2>5, <3>1, <3>2, EditKept DEF TypeOK
  <2> QED BY <2>1, <2>4, <2>5 DEF EditsInv, Lost
<1>3. ASSUME RecordChange(r) PROVE EditsInv'
  <2>1. /\ phase[r] = "wrote" /\ phase' = [phase EXCEPT ![r] = "turn"]
        /\ AppendLine(r, "file", change[r]) /\ change' = [change EXCEPT ![r] = NoChange]
        /\ UNCHANGED <<files, work, edited, replayed, contested, unclean>>
    BY <1>3 DEF RecordChange, Goto, trace
  <2>2. \A p : p = change[r].path /\ change[r].before = Foreign => Recorded(p)'
    <3> DEFINE e == [type |-> "file", parent |-> head[r], path |-> change[r].path,
                     before |-> change[r].before, after |-> change[r].after]
    <3>1. log' = Append(log, e) /\ e.path = change[r].path /\ e.before = change[r].before
      BY <2>1 DEF AppendLine
    <3> HIDE DEF e
    <3>2. Len(log) + 1 \in Events' /\ log'[Len(log) + 1] = e
      BY <3>1, ChainsGrow DEF TypeOK
    <3> QED BY <3>1, <3>2 DEF Recorded
  <2>3. \E s, type, edit : AppendLine(s, type, edit)
    BY <2>1
  <2>4. \A q \in Runtimes \ {r} : phase'[q] = phase[q] /\ change'[q] = change[q]
    BY <1>0, <2>1
  <2> QED BY <1>0, <2>1, <2>2, <2>3, <2>4, EditsSame
<1>4. ASSUME RecordFails(r) PROVE EditsInv'
  <2> DEFINE path == change[r].path
  <2>1. /\ phase[r] = "wrote" /\ phase' = [phase EXCEPT ![r] = "turn"]
        /\ files' = [files EXCEPT ![path] = change[r].before] /\ change' = [change EXCEPT ![r] = NoChange]
        /\ UNCHANGED <<log, work, edited, replayed, unclean>>
        /\ contested \subseteq contested'
        /\ path \in contested' \/ (files[path] = change[r].after /\ \A s \in Stores : path \notin DOMAIN work[s].backup)
    BY <1>4 DEF RecordFails, Goto, disk, memory
  <2>2. path \in Paths /\ change[r].after # Foreign /\ path \in DOMAIN files
    BY <2>1 DEF TypeOK, TasksOK, Changes, EditsInv, WorkSound, WorkOK
  <2>3. \A q \in Runtimes \ {r} : phase'[q] = phase[q] /\ change'[q] = change[q]
    BY <1>0, <2>1
  <2>4. WorkSound'
    BY <1>0, <2>1, <2>3, SoundKept DEF EditsInv, TypeOK
  <2> HIDE DEF path
  <2>5. ASSUME NEW p \in edited \ Lost', Kept(p) PROVE Kept(p)'
    <3>1. CASE p = path
      <4>1. files[p] # Foreign /\ \A s \in Stores : p \notin DOMAIN work[s].backup
        BY <2>1, <2>2, <2>5, <3>1 DEF Lost
      <4>2. ~InFile(p)
        BY <4>1 DEF InFile
      <4>3. ASSUME change[r].before = Foreign PROVE InFile(p)'
        <5>1. files'[p] = Foreign
          BY <2>1, <2>2, <3>1, <4>3
        <5>2. \A s \in Stores : \A i \in work[s].undo : log[i].path # p
          BY <4>1 DEF EditsInv, WorkSound
        <5> QED BY <2>1, <4>1, <5>1, <5>2 DEF InFile
      <4>4. \A q \in Runtimes : phase[q] = "wrote" /\ change[q].path = p /\ change[q].before = Foreign =>
               (phase'[q] = "wrote" /\ change'[q] = change[q]) \/ Kept(p)'
        BY <2>3, <4>3 DEF Kept
      <4> QED BY <2>1, <2>5, <4>2, <4>4, EditKept DEF TypeOK
    <3>2. CASE p # path
      <4>1. InFile(p) => files'[p] = Foreign
        BY <2>1, <3>2 DEF InFile, TypeOK, WorkOK
      <4>2. \A q \in Runtimes : phase[q] = "wrote" /\ change[q].path = p =>
               (phase'[q] = "wrote" /\ change'[q] = change[q])
        BY <2>3, <3>2 DEF path
      <4> QED BY <2>1, <2>5, <4>1, <4>2, EditKept DEF TypeOK
    <3> QED BY <3>1, <3>2
  <2> QED BY <2>1, <2>4, <2>5 DEF EditsInv, Lost
<1>5. ASSUME Rollback(r) PROVE EditsInv'
  <2>1. /\ RestoreTo(r, head[r], start[r], "rollback") /\ phase' = [phase EXCEPT ![r] = "rollback"]
        /\ phase[r] \in {"turn", "joining"}
        /\ UNCHANGED <<files, log, change, edited, replayed, contested, unclean>>
    BY <1>5 DEF Rollback, disk, trace
  <2>2. head[r] \in Places /\ start[r] \in Places
    BY <1>0 DEF TypeOK, StoresOK, TasksOK
  <2>3. /\ \A q \in Runtimes : phase'[q] = "wrote" <=> phase[q] = "wrote"
        /\ \A q \in Runtimes \ {r} : phase'[q] = phase[q]
        /\ phase'[r] = "rollback"
    BY <1>0, <2>1
  <2>4. WorkSound' /\ \A p : Kept(p) => Kept(p)'
    BY <1>0, <2>1, <2>2, <2>3, EditsBegun DEF EditsInv
  <2> QED BY <2>1, <2>4 DEF EditsInv, Lost
<1>6. ASSUME ForceStop(r) PROVE EditsInv'
  <2>1. /\ UNCHANGED <<log, files, edited, replayed, contested>>
        /\ GoesOn \/ Hangs(r)
    BY <1>6 DEF ForceStop, disk
  <2>2. CASE GoesOn
    <3>1. UNCHANGED <<work, phase, change, unclean>>
      BY <2>2 DEF GoesOn
    <3> QED BY <2>1, <3>1, EditsSame
  <2>3. CASE Hangs(r)
    <3>1. /\ phase' = [phase EXCEPT ![r] = "over"] /\ change' = [change EXCEPT ![r] = NoChange]
          /\ work' = [work EXCEPT ![r] = Idle]
      BY <2>3 DEF Hangs, Goto
    <3>2. ~unclean' => ~unclean /\ phase[r] # "wrote"
      BY <2>3 DEF Hangs
    <3>3. \A q \in Runtimes \ {r} : phase'[q] = phase[q] /\ change'[q] = change[q]
      BY <1>0, <3>1
    <3>4. phase'[r] = "over" /\ \A q \in Stores : work'[q] = work[q] \/ (Quiet(q)' /\ work'[q].then = "none")
      BY <1>0, <3>1 DEF Quiet, Idle, TypeOK, WorkOK
    <3>5. work'[r].then = "none"
      BY <1>0, <3>1 DEF Idle, TypeOK, WorkOK
    <3>6. WorkSound'
      BY <2>1, <3>3, <3>4, <3>5, SoundKept DEF EditsInv, TypeOK
    <3>7. ASSUME ~unclean', NEW p, Kept(p) PROVE Kept(p)'
      <4>1. InFile(p) => files'[p] = Foreign
        BY <2>1 DEF InFile
      <4> QED BY <2>1, <3>2, <3>3, <3>4, <3>7, <4>1, EditKept DEF TypeOK
    <3> QED BY <2>1, <3>2, <3>6, <3>7 DEF EditsInv, Lost
  <2> QED BY <2>1, <2>2, <2>3
<1>7. ASSUME OpenRuntime(r) \/ Register(r) PROVE EditsInv'
  <2>1. phase[r] \notin {"wrote", "rollback"} /\ \E to \in {"opened", "between", "over"} : phase' = [phase EXCEPT ![r] = to]
    BY <1>7 DEF OpenRuntime, Register, Goto
  <2>2. UNCHANGED <<files, log, work, change, edited, replayed, contested, unclean>>
    BY <1>7 DEF OpenRuntime, Register, Begins, disk, trace
  <2> QED BY <1>1, <2>1, <2>2
<1>8. ASSUME BeginTurn(r) \/ Commit(r) \/ RecordTerminal(r) PROVE EditsInv'
  <2>1. phase[r] \notin {"wrote", "rollback"} /\ \E to \in {"turn", "joining", "ending"} : phase' = [phase EXCEPT ![r] = to]
    BY <1>8 DEF BeginTurn, Commit, RecordTerminal, Goto
  <2>2. UNCHANGED <<files, work, change, edited, replayed, contested, unclean>>
    BY <1>8 DEF BeginTurn, Commit, RecordTerminal, trace
  <2>3. \E s, type, edit : AppendLine(s, type, edit)
    BY <1>8 DEF BeginTurn, Commit, RecordTerminal
  <2> QED BY <1>1, <2>1, <2>2, <2>3
<1>9. ASSUME FailEarly(r) \/ TurnSucceeds(r) \/ Retain(r) \/ RollbackRefused(r) \/ LeaveRegistry(r) \/ Complete(r)
      PROVE  EditsInv'
  <2>1. /\ phase[r] \notin {"wrote", "rollback"}
        /\ \E to \in {"between", "terminal", "ending", "over"} : phase' = [phase EXCEPT ![r] = to]
    BY <1>9 DEF FailEarly, TurnSucceeds, Retain, RollbackRefused, LeaveRegistry, Complete, Goto
  <2>2. UNCHANGED <<files, log, work, change, edited, replayed, contested, unclean>>
    BY <1>9 DEF FailEarly, TurnSucceeds, Retain, RollbackRefused, LeaveRegistry, Complete, disk, trace
  <2> QED BY <1>1, <2>1, <2>2
<1> QED BY <1>2, <1>3, <1>4, <1>5, <1>6, <1>7, <1>8, <1>9 DEF TaskStep

(* What the user goes back over is what the log says, and so recorded.      *)
LEMMA EditsUser ==
  ASSUME TypeOK, TypeOK', EditsInv, UserStep
  PROVE  EditsInv'
<1>0. Display \in Stores /\ Display \notin Runtimes /\ LoadHead \in Places /\ head[Display] \in Places
  BY Bounds, LoadHeadTyped DEF TypeOK, StoresOK
<1>1. ASSUME NEW from \in Places, NEW target \in Places, NEW then, then # "none",
             RestoreTo(Display, from, target, then) \/ (from = head[Display] /\ SwitchTo(Display, target, then)),
             UNCHANGED <<files, log, change, phase, edited, replayed, contested, unclean>>
      PROVE  EditsInv'
  <2>1. WorkSound' /\ \A p : Kept(p) => Kept(p)'
    BY <1>0, <1>1, EditsBegun DEF EditsInv
  <2> QED BY <1>1, <2>1 DEF EditsInv, Lost
<1>2. \A i \in Events : i \in Places /\ log[i].parent \in Places
  BY EventsTyped DEF TypeOK
<1>3. ASSUME NEW i \in Events, RewindToCheckpoint(i) PROVE EditsInv'
  <2>1. RestoreTo(Display, head[Display], i, "rewind")
    BY <1>3 DEF RewindToCheckpoint
  <2>2. UNCHANGED <<files, log, change, phase, edited, replayed, contested, unclean>>
    BY <1>3 DEF RewindToCheckpoint, Operates, Begins, disk, task
  <2> QED BY <1>0, <1>1, <1>2, <2>1, <2>2
<1>4. ASSUME NEW i \in Events, SwitchBranch(i) PROVE EditsInv'
  <2>1. SwitchTo(Display, i, "switch")
    BY <1>4 DEF SwitchBranch
  <2>2. UNCHANGED <<files, log, change, phase, edited, replayed, contested, unclean>>
    BY <1>4 DEF SwitchBranch, Operates, Begins, disk, task
  <2> QED BY <1>0, <1>1, <1>2, <2>1, <2>2
<1>5. ASSUME NEW i \in Events, ForkFromMessage(i) PROVE EditsInv'
  <2>1. \E target \in Places : RestoreTo(Display, LoadHead, target, "fork")
    BY <1>2, <1>5 DEF ForkFromMessage
  <2>2. UNCHANGED <<files, log, change, phase, edited, replayed, contested, unclean>>
    BY <1>5 DEF ForkFromMessage, Operates, Begins, disk, task
  <2> QED BY <1>0, <1>1, <2>1, <2>2
<1>6. ASSUME work' = [work EXCEPT ![Display] = Idle],
             UNCHANGED <<files, change, phase, edited, replayed, contested, unclean>>,
             log' = log \/ \E s, type, edit : AppendLine(s, type, edit)
      PROVE  EditsInv'
  <2>1. \A q \in Stores : work'[q] = work[q] \/ (Quiet(q)' /\ work'[q].then # "rollback")
    BY <1>0, <1>6 DEF Quiet, Idle, TypeOK, WorkOK
  <2> QED BY <1>6, <2>1, EditsSame
<1>7. CASE AppendMarker
  <2>1. /\ work' = [work EXCEPT ![Display] = Idle]
        /\ UNCHANGED <<files, change, phase, edited, replayed, contested, unclean>>
        /\ \E s, type, edit : AppendLine(s, type, edit)
    BY <1>7 DEF AppendMarker, task, trace
  <2> QED BY <1>6, <2>1
<1>8. CASE MarkerFails
  <2>1. UNCHANGED <<files, log, change, phase, edited, replayed, contested, unclean>>
    BY <1>8 DEF MarkerFails, disk, task, trace
  <2>2. work[Display].target \in Places
    BY <1>0 DEF TypeOK, WorkOK, Restorations
  <2>3. work' = [work EXCEPT ![Display] = Idle] \/ SwitchTo(Display, work[Display].target, "switch")
    BY <1>8 DEF MarkerFails
  <2> QED BY <1>0, <1>1, <1>6, <2>1, <2>2, <2>3
<1>9. ASSUME NEW p \in Paths, EditOutside(p) PROVE EditsInv'
  <2>1. /\ files' = [files EXCEPT ![p] = Foreign] /\ edited' = edited \cup {p}
        /\ UNCHANGED <<log, work, phase, change, replayed, contested, unclean>>
        /\ \A s \in Stores : work[s].then = "none"
    BY <1>9 DEF EditOutside, disk, task
  <2>2. WorkSound'
    BY <2>1, SoundKept DEF EditsInv, TypeOK
  <2>3. \A s \in Stores : Quiet(s)
    BY <2>1 DEF EditsInv, WorkSound
  <2>4. files'[p] = Foreign /\ \A n : files[n] = Foreign => files'[n] = Foreign
    BY <2>1 DEF TypeOK, WorkOK
  <2>5. InFile(p)'
    BY <2>1, <2>3, <2>4 DEF InFile, Quiet
  <2>6. ASSUME NEW n, Kept(n) PROVE Kept(n)'
    BY <2>1, <2>4, <2>6, EditKept DEF InFile, TypeOK
  <2> QED BY <2>1, <2>2, <2>5, <2>6 DEF EditsInv, Lost, Kept
<1>10. CASE Restart
  <2>1. /\ work' = [s \in Stores |-> Idle]
        /\ phase' = [r \in Runtimes |-> IF phase[r] = "closed" THEN "closed" ELSE "over"]
        /\ UNCHANGED <<log, files, edited, replayed, contested>>
    BY <1>10 DEF Restart, disk
  <2>2. ~unclean' => ~unclean /\ \A r \in Runtimes : phase[r] # "wrote"
    BY <1>10 DEF Restart
  <2>3. \A s \in Stores : Quiet(s)' /\ work'[s].then = "none"
    BY <2>1 DEF Quiet, Idle
  <2>4. \A r \in Runtimes : phase'[r] # "wrote" /\ work'[r].then # "rollback"
    BY <2>1, <2>3, Bounds
  <2>5. WorkSound'
    BY <2>1, <2>3, <2>4, SoundKept DEF EditsInv, TypeOK
  <2>6. ASSUME ~unclean', NEW p, Kept(p) PROVE Kept(p)'
    <3>1. InFile(p) => files'[p] = Foreign
      BY <2>1 DEF InFile
    <3> QED BY <2>1, <2>2, <2>3, <2>6, <3>1, EditKept DEF TypeOK
  <2> QED BY <2>1, <2>2, <2>5, <2>6 DEF EditsInv, Lost
<1> QED BY <1>3, <1>4, <1>5, <1>7, <1>8, <1>9, <1>10 DEF UserStep

(* Every step keeps what the user wrote.                                   *)
LEMMA EditsNext == TypeOK /\ TypeOK' /\ EditsInv /\ [Next]_vars => EditsInv'
<1>1. ASSUME TypeOK, TypeOK', EditsInv, Next PROVE EditsInv'
  BY <1>1, EditsStore, EditsTask, EditsUser DEF Next
<1>2. ASSUME TypeOK, TypeOK', EditsInv, UNCHANGED vars PROVE EditsInv'
  <2>1. UNCHANGED <<log, files, work, phase, change, edited, replayed, contested, unclean>>
    BY <1>2 DEF vars, disk, task, trace
  <2> QED BY <1>2, <2>1, EditsSame
<1> QED BY <1>1, <1>2

(* Going back never destroys a content the user wrote outside MHcode, who-  *)
(* ever works on the session at the same time: what is overwritten was      *)
(* verified against the log, and so recorded, or was backed up.            *)
THEOREM EditsSurviveGoingBackAlways == Spec => []EditsSurviveGoingBack
<1>1. Init => TypeOK /\ EditsInv
  BY TypeInit, EditsInit
<1>2. TypeOK /\ EditsInv /\ [Next]_vars => (TypeOK /\ EditsInv)'
  BY TypeNext, EditsNext
<1> QED BY <1>1, <1>2, EditsOfInv, PTL DEF Spec

-----------------------------------------------------------------------------
(* What the conversation says of the files                                 *)

(* FileAt as a function, and whether an event is an image of a file.        *)
Content == [i \in Places |-> [p \in Paths |-> FileAt(i, p)]]

Image(j, p) == log[j].type = "file" /\ log[j].path = p

(* The content is that of the newest image, if there is one.               *)
ContentRule ==
  \A i \in Places, p \in Paths :
    \/ /\ \A j \in Chain[i] : ~Image(j, p)
       /\ Content[i][p] = Absent
    \/ \E k \in Chain[i] : /\ Image(k, p)
                           /\ \A j \in Chain[i] : Image(j, p) => j <= k
                           /\ Content[i][p] = log[k].after

(* FileAt is the after-image of the newest image.                          *)
LEMMA ContentRuleHolds == LogOK => ContentRule
<1> SUFFICES ASSUME LogOK, NEW i \in Places, NEW p \in Paths
             PROVE  \/ /\ \A j \in Chain[i] : ~Image(j, p)
                       /\ Content[i][p] = Absent
                    \/ \E k \in Chain[i] : /\ Image(k, p)
                                           /\ \A j \in Chain[i] : Image(j, p) => j <= k
                                           /\ Content[i][p] = log[k].after
  BY DEF ContentRule
<1> DEFINE images == {j \in FileEvents(Chain[i]) : log[j].path = p}
<1>1. Content[i][p] = IF images = {} THEN Absent ELSE log[Newest(images)].after
  BY DEF Content, FileAt
<1>2. images = {j \in Chain[i] : Image(j, p)}
  BY DEF FileEvents, Image
<1>3. images \in SUBSET (1..Len(log)) /\ Len(log) \in Nat
  BY ChainOfEvents, EventsTyped DEF FileEvents, Events
<1> HIDE DEF images
<1>4. CASE images = {}
  BY <1>1, <1>2, <1>4
<1>5. CASE images # {}
  <2>1. Newest(images) \in images /\ \A j \in images : j <= Newest(images)
    BY <1>3, <1>5, NewestIsGreatest
  <2> QED BY <1>1, <1>2, <1>5, <2>1
<1> QED BY <1>4, <1>5

(* Chains with the same images of a file give it the same content.         *)
ImagesDecide ==
  \A i, j \in Places, p \in Paths :
    (\A k \in Events : Image(k, p) => (k \in Chain[i] <=> k \in Chain[j])) => Content[i][p] = Content[j][p]

(* Content depends on the images alone.                                    *)
LEMMA SameImages == LogOK => ImagesDecide
<1> SUFFICES ASSUME LogOK, NEW i \in Places, NEW j \in Places, NEW p \in Paths,
                    \A k \in Events : Image(k, p) => (k \in Chain[i] <=> k \in Chain[j])
             PROVE  Content[i][p] = Content[j][p]
  BY DEF ImagesDecide
<1>1. /\ \A k \in Chain[i] : k \in Events /\ k \in Nat
      /\ \A k \in Chain[j] : k \in Events /\ k \in Nat
  BY ChainOfEvents, EventsTyped
<1>2. ContentRule
  BY ContentRuleHolds
<1>3. ASSUME NEW k \in Chain[i], NEW m \in Chain[j], Image(k, p), Image(m, p),
             \A n \in Chain[i] : Image(n, p) => n <= k, \A n \in Chain[j] : Image(n, p) => n <= m
      PROVE  k = m
  <2>1. k \in Chain[j] /\ m \in Chain[i]
    BY <1>1, <1>3
  <2>2. k <= m /\ m <= k
    BY <1>3, <2>1
  <2> QED BY <1>1, <2>2
<1> QED BY <1>1, <1>2, <1>3 DEF ContentRule

(* The content after the newest image.                                     *)
LEMMA NewestImage ==
  ASSUME LogOK, NEW i \in Places, NEW p \in Paths, NEW k \in Chain[i], Image(k, p),
         \A j \in Chain[i] : Image(j, p) => j <= k
  PROVE  Content[i][p] = log[k].after
<1>1. \A m \in Chain[i] : m \in Nat
  BY ChainOfEvents, EventsTyped
<1>2. PICK m \in Chain[i] : Image(m, p) /\ (\A j \in Chain[i] : Image(j, p) => j <= m) /\ Content[i][p] = log[m].after
  BY ContentRuleHolds DEF ContentRule
<1>3. k <= m /\ m <= k
  BY <1>2
<1> QED BY <1>1, <1>2, <1>3

(* Every image of a file tells what the conversation said of it before.    *)
ImagesRight ==
  \A i \in FileEvents(Events) :
    log[i].path \notin edited => log[i].before = Content[log[i].parent][log[i].path]

(* From an event back to one on its chain: what the oldest image on the way *)
(* was taken of, and what did not change on the way.                       *)
LEMMA GoingBack ==
  ASSUME LogOK, NEW h \in Places, NEW t \in Chain[h] \cup {Root}, NEW p \in Paths
  PROVE  /\ (\A i \in Chain[h] \ Chain[t] : ~Image(i, p)) => Content[h][p] = Content[t][p]
         /\ \A o \in Chain[h] \ Chain[t] :
              /\ Image(o, p) /\ (\A i \in Chain[h] \ Chain[t] : Image(i, p) => o <= i)
              /\ ImagesRight /\ p \notin edited
              => log[o].before = Content[t][p]
<1>1. t \in Places /\ Chain[t] = {i \in Chain[h] : i <= t}
  BY ChainPrefix
<1>2. \A k : k \in Chain[t] => k \in Chain[h]
  BY <1>1
<1>3. ASSUME \A i \in Chain[h] \ Chain[t] : ~Image(i, p) PROVE Content[h][p] = Content[t][p]
  BY <1>1, <1>2, <1>3, SameImages DEF ImagesDecide
<1>4. ASSUME NEW o \in Chain[h] \ Chain[t], Image(o, p), \A i \in Chain[h] \ Chain[t] : Image(i, p) => o <= i,
             ImagesRight, p \notin edited
      PROVE  log[o].before = Content[t][p]
  <2> DEFINE q == log[o].parent
  <2>1. /\ o \in Events /\ o \in Nat /\ q \in Places /\ q \in Nat /\ q < o /\ t \in Nat
        /\ \A i \in Chain[h] : i \in Nat /\ i \in Events
    BY <1>1, ChainOfEvents, EventsTyped
  <2>2. Chain[o] = {i \in Chain[h] : i <= o} /\ Chain[o] = Chain[q] \cup {o}
    BY <2>1, ChainPrefix, ChainUpwards DEF Upwards
  <2>3. \A i \in Chain[q] : i <= q /\ i \in Nat
    BY <2>1, ChainOfEvents, EventsTyped
  <2>4. log[o].before = Content[q][p]
    BY <1>4, <2>1 DEF ImagesRight, FileEvents, Image
  <2> HIDE DEF q
  <2>5. ~(o <= t)
    BY <1>1
  <2>6. \A i \in Chain[h] : i \in Chain[q] <=> i < o
    BY <2>1, <2>2, <2>3
  <2>7. \A i \in Chain[t] : i \in Chain[q]
    BY <1>1, <2>1, <2>5, <2>6
  <2>8. \A i \in Chain[q] : i \in Chain[h] /\ (Image(i, p) => i \in Chain[t])
    BY <1>4, <2>1, <2>2, <2>6
  <2>9. Content[q][p] = Content[t][p]
    BY <1>1, <2>1, <2>7, <2>8, SameImages DEF ImagesDecide
  <2> QED BY <2>4, <2>9
<1> QED BY <1>3, <1>4

(* From an event on the chain of another forward to that one: what the      *)
(* newest image on the way holds.                                          *)
LEMMA GoingForward ==
  ASSUME LogOK, NEW h \in Places, NEW t \in Chain[h] \cup {Root}, NEW p \in Paths,
         NEW k \in Chain[h] \ Chain[t], Image(k, p), \A i \in Chain[h] \ Chain[t] : Image(i, p) => i <= k
  PROVE  log[k].after = Content[h][p]
<1>1. t \in Places /\ Chain[t] = {i \in Chain[h] : i <= t}
  BY ChainPrefix
<1>2. t \in Nat /\ \A i \in Chain[h] : i \in Nat
  BY <1>1, ChainOfEvents, EventsTyped
<1>3. ~(k <= t)
  BY <1>1
<1>4. \A i \in Chain[h] : Image(i, p) => i <= k
  BY <1>1, <1>2, <1>3
<1> QED BY <1>4, NewestImage

(* What a new event changes: nothing before it, and at most one file.       *)
LEMMA ContentGrows ==
  ASSUME TypeOK, TypeOK', NEW s \in Stores, NEW type, NEW edit, AppendLine(s, type, edit)
  PROVE  LET n == Len(log) + 1 IN
         /\ head'[s] = n /\ n \in Events' /\ n \in Places'
         /\ log'[n] = [type |-> type, parent |-> head[s], path |-> edit.path,
                       before |-> edit.before, after |-> edit.after]
         /\ Events' = Events \cup {n} /\ \A i \in Events : log'[i] = log[i] /\ i # n
         /\ Places \subseteq Places' /\ \A i \in Places : Chain'[i] = Chain[i]
         /\ Chain'[n] = Chain[head[s]] \cup {n}
         /\ \A i \in Places, p \in Paths : Content'[i][p] = Content[i][p]
         /\ \A p \in Paths : type # "file" \/ edit.path # p => Content'[n][p] = Content[head[s]][p]
         /\ type = "file" /\ edit.path \in Paths => Content'[n][edit.path] = edit.after
<1>0. PICK n : n = Len(log) + 1
  OBVIOUS
<1> DEFINE e == [type |-> type, parent |-> head[s], path |-> edit.path,
                before |-> edit.before, after |-> edit.after]
<1>1. log' = Append(log, e) /\ head'[s] = n /\ e.parent = head[s] /\ e.type = type /\ e.path = edit.path
      /\ e.after = edit.after
  BY <1>0 DEF AppendLine, TypeOK, StoresOK
<1> HIDE DEF e
<1>2. /\ LogOK /\ LogOK' /\ Len(log) \in Nat /\ head[s] \in Places
      /\ \A i \in Events : i \in Nat /\ i <= Len(log)
  BY EventsTyped DEF TypeOK, StoresOK
<1>3. /\ n \in Events' /\ n \in Places' /\ log'[n] = e
      /\ Events \subseteq Events' /\ Places \subseteq Places'
      /\ \A i \in Events : log'[i] = log[i]
      /\ \A i \in Places : Chain'[i] = Chain[i]
      /\ Len(log') = Len(log) + 1
  BY <1>0, <1>1, <1>2, ChainsGrow, EventsTyped DEF Events, Places
<1>4. Events' = Events \cup {n} /\ \A i \in Events : i # n
  BY <1>0, <1>2, <1>3 DEF Events
<1>5. Upwards' /\ ContentRule'
  BY <1>2, ChainUpwards, ContentRuleHolds, PTL
<1>6. Chain'[n] = Chain[head[s]] \cup {n}
  <2>1. \A i \in Events' : Chain'[i] = Chain'[log'[i].parent] \cup {i}
    BY <1>5 DEF Upwards
  <2>2. Chain'[n] = Chain'[log'[n].parent] \cup {n}
    BY <1>3, <2>1
  <2> QED BY <1>1, <1>2, <1>3, <2>2
<1>7. ASSUME NEW i \in Places, NEW p \in Paths PROVE Content'[i][p] = Content[i][p]
  <2>1. \A j \in Chain[i] : j \in Events /\ (Image(j, p)' <=> Image(j, p))
    BY <1>2, <1>3, ChainOfEvents DEF Image
  <2>2. CASE \A j \in Chain[i] : ~Image(j, p)
    <3>1. Content[i][p] = Absent
      BY <1>2, <2>2, ContentRuleHolds DEF ContentRule
    <3>2. Content'[i][p] = Absent
      BY <1>3, <1>5, <2>1, <2>2 DEF ContentRule
    <3> QED BY <3>1, <3>2
  <2>3. CASE ~\A j \in Chain[i] : ~Image(j, p)
    <3>1. PICK k \in Chain'[i] : /\ Image(k, p)' /\ Content'[i][p] = log'[k].after
                                 /\ \A j \in Chain'[i] : Image(j, p)' => j <= k
      BY <1>3, <1>5, <2>1, <2>3 DEF ContentRule
    <3>2. k \in Chain[i] /\ Image(k, p) /\ log'[k] = log[k] /\ \A j \in Chain[i] : Image(j, p) => j <= k
      BY <1>3, <2>1, <3>1
    <3>3. Content[i][p] = log[k].after
      BY <1>2, <3>2, NewestImage
    <3> QED BY <3>1, <3>2, <3>3
  <2> QED BY <2>2, <2>3
<1>8. ASSUME NEW p \in Paths, type # "file" \/ edit.path # p PROVE Content'[n][p] = Content[head[s]][p]
  <2>1. ImagesDecide'
    BY <1>2, SameImages, PTL
  <2>2. ~(Image(n, p)')
    BY <1>1, <1>3, <1>8 DEF Image
  <2>3. \A k \in Events' : Image(k, p)' => (k \in Chain'[n] <=> k \in Chain'[head[s]])
    BY <1>2, <1>3, <1>6, <2>2
  <2>4. Content'[n][p] = Content'[head[s]][p]
    BY <1>2, <1>3, <2>1, <2>3 DEF ImagesDecide
  <2> QED BY <1>2, <1>7, <2>4
<1>9. ASSUME type = "file", edit.path \in Paths PROVE Content'[n][edit.path] = edit.after
  <2>1. PICK p \in Paths : p = edit.path
    BY <1>9
  <2>2. Image(n, p)' /\ n \in Chain'[n]
    BY <1>1, <1>3, <1>6, <1>9, <2>1 DEF Image
  <2>3. PICK k \in Chain'[n] : /\ Content'[n][p] = log'[k].after
                               /\ \A j \in Chain'[n] : Image(j, p)' => j <= k
    BY <1>3, <1>5, <2>2 DEF ContentRule
  <2>4. n <= k /\ k \in Events \cup {n}
    BY <1>2, <1>6, <2>2, <2>3, ChainOfEvents
  <2>5. k = n
    BY <1>0, <1>2, <2>4
  <2> QED BY <1>1, <1>3, <2>1, <2>3, <2>5
<1>10. log'[n] = [type |-> type, parent |-> head[s], path |-> edit.path,
                  before |-> edit.before, after |-> edit.after]
  BY <1>3 DEF e
<1> QED BY <1>0, <1>1, <1>3, <1>4, <1>6, <1>7, <1>8, <1>9, <1>10

-----------------------------------------------------------------------------
(* Files and conversation                                                  *)

(* What a restoration has still to do for a file: the newest image it       *)
(* replays, or else the oldest it undoes, holds the content the file is to  *)
(* have; without either the file has it already.                           *)
Restored(undo, replay, content, p) ==
  /\ \A k \in replay :
       log[k].path = p /\ (\A i \in replay : log[i].path = p => i <= k) => log[k].after = content
  /\ \A k \in undo :
       /\ log[k].path = p /\ (\A i \in undo : log[i].path = p => k <= i)
       /\ \A i \in replay : log[i].path # p
       => log[k].before = content
  /\ (\A i \in undo \cup replay : log[i].path # p) => files[p] = content

(* A service restores files.                                               *)
Moving(s) == work[s].then \notin {"none", "marker"}

(* As it does, it will get to what its target says, and its   *)
(* backup is what its head says.                                           *)
Restoring(s) ==
  /\ \A i \in work[s].undo \cup work[s].replay : log[i].path \in DOMAIN work[s].backup
  /\ \A p \in Paths \ edited :
       /\ Restored(work[s].undo, work[s].replay, Content[work[s].target][p], p)
       /\ p \in DOMAIN work[s].backup => work[s].backup[p] = Content[head[s]][p]
       /\ p \notin DOMAIN work[s].backup => files[p] = Content[head[s]][p]

(* A tool has changed a file.                                              *)
WroteBy(s) == s \in Runtimes /\ phase[s] = "wrote"

Wrote(s) ==
  /\ files[change[s].path] = change[s].after
  /\ \A p \in Paths \ edited :
       /\ p = change[s].path => change[s].before = Content[head[s]][p]
       /\ p # change[s].path => files[p] = Content[head[s]][p]

(* The files are what the head says.                                       *)
AtHead(s) == \A p \in Paths \ edited : files[p] = Content[head[s]][p]

InPlace(s) ==
  /\ Moving(s) => Restoring(s)
  /\ ~Moving(s) /\ WroteBy(s) => Wrote(s)
  /\ ~Moving(s) /\ ~WroteBy(s) => AtHead(s)

FilesInv ==
  ~unclean => ImagesRight /\ \A s \in Stores : Current(s) => InPlace(s)

(* The user rewinds to, and a turn is rolled back to, an event on the chain. *)
StartOnChain ==
  \A r \in Runtimes : phase[r] \in {"turn", "wrote", "joining"} => start[r] \in Chain[head[r]] \cup {Root}

(* Without a new event the conversation says what it said.                 *)
LEMMA SteadyContent ==
  ASSUME UNCHANGED log
  PROVE  Content' = Content
BY DEF Content, FileAt, FileEvents, Newest, Places, Chain, Events

(* When nobody is half way through something the files are what the        *)
(* conversation on disk says.                                              *)
LEMMA FilesOfInv ==
  ASSUME TypeOK, HeadInv, ~headLost, FilesInv, Settled, ~unclean, NEW p \in Paths \ edited
  PROVE  files[p] = FileAt(LoadHead, p)
<1>1. PICK s \in Stores : Current(s)
  BY Bounds DEF Current
<1>2. ~Moving(s) /\ ~WroteBy(s) /\ ~unsaved[s]
  BY DEF Settled, Free, Moving, WroteBy
<1>3. head[s] = LoadHead /\ AtHead(s) /\ head[s] \in Places
  BY <1>1, <1>2 DEF HeadInv, FilesInv, InPlace, TypeOK, StoresOK
<1> QED BY <1>3 DEF AtHead, Content

(* One store acts after the step, and all is as it should be there.        *)
LEMMA FilesOfOne ==
  ASSUME NEW s, \A q \in Stores : Current(q)' => q = s, ~unclean' => ImagesRight' /\ InPlace(s)'
  PROVE  FilesInv'
BY DEF FilesInv

(* The images stay right without a new event.                              *)
LEMMA ImagesStay ==
  ASSUME UNCHANGED log, edited \subseteq edited', ImagesRight
  PROVE  ImagesRight'
<1>1. Content' = Content /\ Events' = Events
  BY SteadyContent, Steady
<1> QED BY <1>1 DEF ImagesRight, FileEvents

(* A step that changes no file and no head, and begins and ends nothing.    *)
LEMMA FilesKept ==
  ASSUME FilesInv, UNCHANGED <<log, files, change, edited, unclean>>,
         \A s \in Stores : Current(s)' =>
           /\ Current(s) /\ head'[s] = head[s]
           /\ work'[s] = work[s] \/ (~Moving(s) /\ ~(Moving(s)'))
           /\ WroteBy(s)' <=> WroteBy(s)
  PROVE  FilesInv'
<1> SUFFICES ASSUME ~unclean' PROVE ImagesRight' /\ \A s \in Stores : Current(s)' => InPlace(s)'
  BY Zenon DEF FilesInv
<1>1. ImagesRight /\ \A s \in Stores : Current(s) => InPlace(s)
  BY DEF FilesInv
<1>2. Content' = Content
  BY SteadyContent
<1>3. ASSUME NEW s \in Stores, Current(s)' PROVE InPlace(s)'
  <2>1. InPlace(s) /\ head'[s] = head[s] /\ (WroteBy(s)' <=> WroteBy(s))
    BY <1>1, <1>3
  <2>2. CASE work'[s] = work[s]
    BY <1>2, <2>1, <2>2 DEF InPlace, Moving, Restoring, Restored, Wrote, AtHead
  <2>3. CASE ~Moving(s) /\ ~(Moving(s)')
    BY <1>2, <2>1, <2>3 DEF InPlace, Wrote, AtHead
  <2> QED BY <1>3, <2>2, <2>3
<1> QED BY <1>1, <1>3, ImagesStay

(* A store that has read HEAD acts alone, after a step that changes nothing. *)
LEMMA FilesOpened ==
  ASSUME TypeOK, FilesInv, UNCHANGED <<log, files, edited, unclean>>, NEW s \in Stores,
         \A q \in Stores : Current(q)' => q = s,
         head'[s] = LoadHead, ~(Moving(s)'), ~(WroteBy(s)'),
         ~unclean => \A p \in Paths \ edited : files[p] = FileAt(LoadHead, p)
  PROVE  FilesInv'
<1>1. Content' = Content /\ LoadHead \in Places
  BY SteadyContent, LoadHeadValue, EventsTyped DEF TypeOK, Places
<1>2. PICK h \in Places : h = LoadHead
  BY <1>1
<1>3. ~unclean => \A p \in Paths \ edited : files[p] = FileAt(h, p)
  BY <1>2
<1>4. ~unclean => AtHead(s)'
  BY <1>1, <1>2, <1>3 DEF AtHead, Content
<1>5. ~unclean => ImagesRight'
  BY ImagesStay DEF FilesInv
<1> QED BY <1>4, <1>5, FilesOfOne DEF InPlace

(* A restoration by way of a common ancestor gets to its target.           *)
LEMMA RestorationRight ==
  ASSUME LogOK, ImagesRight, NEW h \in Places, NEW t \in Places,
         NEW a \in Chain[h] \cup {Root}, a \in Chain[t] \cup {Root},
         NEW p \in Paths \ edited, files[p] = Content[h][p]
  PROVE  Restored(FileEvents(Chain[h] \ Chain[a]), FileEvents(Chain[t] \ Chain[a]), Content[t][p], p)
<1> DEFINE undo == FileEvents(Chain[h] \ Chain[a])
           replay == FileEvents(Chain[t] \ Chain[a])
<1>1. /\ \A i : i \in undo <=> i \in Chain[h] \ Chain[a] /\ log[i].type = "file"
      /\ \A i : i \in replay <=> i \in Chain[t] \ Chain[a] /\ log[i].type = "file"
  BY DEF FileEvents
<1> HIDE DEF undo, replay
<1>2. ASSUME NEW k \in replay, log[k].path = p, \A i \in replay : log[i].path = p => i <= k
      PROVE  log[k].after = Content[t][p]
  BY <1>1, <1>2, GoingForward DEF Image
<1>3. ASSUME \A i \in replay : log[i].path # p PROVE Content[t][p] = Content[a][p]
  BY <1>1, <1>3, GoingBack DEF Image
<1>4. ASSUME NEW k \in undo, log[k].path = p, \A i \in undo : log[i].path = p => k <= i,
             \A i \in replay : log[i].path # p
      PROVE  log[k].before = Content[t][p]
  <2>1. log[k].before = Content[a][p]
    BY <1>1, <1>4, GoingBack DEF Image
  <2> QED BY <1>3, <1>4, <2>1
<1>5. ASSUME \A i \in undo \cup replay : log[i].path # p PROVE files[p] = Content[t][p]
  <2>1. Content[h][p] = Content[a][p]
    BY <1>1, <1>5, GoingBack DEF Image
  <2> QED BY <1>3, <1>5, <2>1
<1>6. Restored(undo, replay, Content[t][p], p)
  BY <1>2, <1>4, <1>5 DEF Restored
<1> QED BY <1>6 DEF undo, replay

(* A restoration is begun where the files are what the head says.          *)
LEMMA FilesBegun ==
  ASSUME TypeOK, FilesInv, UNCHANGED <<log, files, edited, unclean>>, NEW s \in Stores,
         \A q \in Stores : Current(q)' => q = s,
         NEW h \in Places, head'[s] = h, ~unclean => \A p \in Paths \ edited : files[p] = Content[h][p],
         NEW t \in Places, NEW then, then \notin {"none", "marker"},
         \/ t \in Chain[h] \cup {Root} /\ RestoreTo(s, h, t, then)
         \/ h = head[s] /\ SwitchTo(s, t, then)
  PROVE  FilesInv'
<1>1. PICK a \in Chain[h] \cup {Root} :
        /\ a \in Chain[t] \cup {Root}
        /\ work' = [work EXCEPT ![s] = Restoration(FileEvents(Chain[h] \ Chain[a]),
                                                   FileEvents(Chain[t] \ Chain[a]), t, then)]
  <2>1. CASE t \in Chain[h] \cup {Root} /\ RestoreTo(s, h, t, then)
    <3>1. t \in Chain[t] \cup {Root} /\ FileEvents(Chain[t] \ Chain[t]) = {}
      BY ChainUpwards, EventsTyped DEF TypeOK, Upwards, Root, FileEvents
    <3> QED BY <2>1, <3>1 DEF RestoreTo
  <2>2. CASE h = head[s] /\ SwitchTo(s, t, then)
    <3>1. PICK a : a = CommonAncestor(h, t)
      OBVIOUS
    <3>2. a \in Chain[h] \cup {Root} /\ a \in Chain[t] \cup {Root}
      BY <3>1, AncestorOfBoth DEF TypeOK
    <3> QED BY <2>2, <3>1, <3>2 DEF SwitchTo
  <2> QED BY <2>1, <2>2
<1>2. PICK undo, replay : undo = FileEvents(Chain[h] \ Chain[a]) /\ replay = FileEvents(Chain[t] \ Chain[a])
  OBVIOUS
<1>3. work'[s] = Restoration(undo, replay, t, then)
  BY <1>1, <1>2 DEF TypeOK, WorkOK
<1>4. /\ work'[s].undo = undo /\ work'[s].replay = replay /\ work'[s].target = t
      /\ work'[s].then = then
      /\ DOMAIN work'[s].backup = {log[i].path : i \in undo \cup replay}
      /\ \A p \in DOMAIN work'[s].backup : work'[s].backup[p] = files[p]
  BY <1>3 DEF Restoration, Restrict
<1>5. Content' = Content
  BY SteadyContent
<1>6. ASSUME ~unclean PROVE ImagesRight' /\ Restoring(s)'
  <2>1. ImagesRight /\ \A p \in Paths \ edited : files[p] = Content[h][p]
    BY <1>6 DEF FilesInv
  <2>2. \A p \in Paths \ edited : Restored(undo, replay, Content[t][p], p)
    BY <1>1, <1>2, <2>1, RestorationRight DEF TypeOK
  <2>3. \A p \in Paths \ edited' : Restored(work[s].undo, work[s].replay, Content[work[s].target][p], p)'
    BY <1>4, <1>5, <2>2 DEF Restored
  <2>4. \A i \in work'[s].undo \cup work'[s].replay : log'[i].path \in DOMAIN work'[s].backup
    BY <1>4
  <2> QED BY <1>4, <1>5, <2>1, <2>3, <2>4, ImagesStay DEF Restoring
<1>7. Moving(s)'
  BY <1>4 DEF Moving
<1> QED BY <1>6, <1>7, FilesOfOne DEF InPlace

(* One image is put back, the newest first, or replayed, the oldest first.  *)
LEMMA RestoredGoesOn ==
  ASSUME LogOK, UNCHANGED log, NEW undo \in SUBSET Events, NEW replay \in SUBSET Events, NEW content, NEW p,
         Restored(undo, replay, content, p)
  PROVE  /\ \A i \in undo :
              /\ \A j \in undo : j <= i
              /\ files'[p] = IF p = log[i].path THEN log[i].before ELSE files[p]
              => Restored(undo \ {i}, replay, content, p)'
         /\ \A i \in replay :
              /\ undo = {} /\ \A j \in replay : i <= j
              /\ files'[p] = IF p = log[i].path THEN log[i].after ELSE files[p]
              => Restored(undo, replay \ {i}, content, p)'
<1>0. \A j \in undo \cup replay : j \in Nat
  BY EventsTyped
<1>1. ASSUME NEW i \in undo, \A j \in undo : j <= i,
             files'[p] = IF p = log[i].path THEN log[i].before ELSE files[p]
      PROVE  Restored(undo \ {i}, replay, content, p)'
  <2>1. ASSUME NEW k \in undo \ {i}, log[k].path = p, \A j \in undo \ {i} : log[j].path = p => k <= j
        PROVE  \A j \in undo : log[j].path = p => k <= j
    BY <1>1, <2>1
  <2>2. ASSUME \A j \in (undo \ {i}) \cup replay : log[j].path # p, p = log[i].path
        PROVE  log[i].before = content
    BY <1>0, <1>1, <2>2 DEF Restored
  <2>3. ASSUME \A j \in (undo \ {i}) \cup replay : log[j].path # p, p # log[i].path
        PROVE  files[p] = content
    BY <2>3 DEF Restored
  <2> QED BY <1>1, <2>1, <2>2, <2>3 DEF Restored
<1>2. ASSUME NEW i \in replay, undo = {}, \A j \in replay : i <= j,
             files'[p] = IF p = log[i].path THEN log[i].after ELSE files[p]
      PROVE  Restored(undo, replay \ {i}, content, p)'
  <2>1. ASSUME NEW k \in replay \ {i}, log[k].path = p, \A j \in replay \ {i} : log[j].path = p => j <= k
        PROVE  \A j \in replay : log[j].path = p => j <= k
    BY <1>2, <2>1
  <2>2. ASSUME \A j \in replay \ {i} : log[j].path # p, p = log[i].path
        PROVE  log[i].after = content
    BY <1>0, <1>2, <2>2 DEF Restored
  <2>3. ASSUME \A j \in replay \ {i} : log[j].path # p, p # log[i].path
        PROVE  files[p] = content
    BY <1>2, <2>3 DEF Restored
  <2> QED BY <1>2, <2>1, <2>2, <2>3 DEF Restored
<1> QED BY <1>1, <1>2

(* Restoring a file brings it nearer to what the target says.              *)
LEMMA FilesStore ==
  ASSUME TypeOK, NothingToRestore, OneActor, FilesInv, ~headLost', NEW s \in Stores, StoreStep(s)
  PROVE  FilesInv'
<1>0. /\ work \in [Stores -> Restorations] /\ files \in [Paths -> Contents] /\ LogOK
      /\ DOMAIN phase = Runtimes /\ head \in [Stores -> Places]
  BY DEF TypeOK, WorkOK, TasksOK, StoresOK
<1>1. ASSUME Moving(s), \A r \in Runtimes : r # s => phase'[r] = phase[r],
             s = Display => UNCHANGED phase,
             s \in Runtimes => phase'[s] \in {"rollback", "terminal"}
      PROVE  Current(s) /\ ~(WroteBy(s)') /\ \A q \in Stores : Current(q)' => q = s
  <2>1. Current(s)
    BY <1>1, BusyIsCurrent DEF Moving, Free
  <2> QED BY <1>1, <2>1, OneCurrent, Bounds DEF Current, Active, WroteBy, Stores
<1>2. CASE PersistHead(s)
  <2>1. UNCHANGED <<log, files, work, change, head, phase, edited, unclean>>
    BY <1>2 DEF PersistHead, task, trace
  <2> QED BY <2>1, FilesKept DEF Current, Active, WroteBy
<1>3. CASE RestoreFile(s)
  <2>1. UNCHANGED <<log, head, phase, edited, unclean>> /\ (Undo(s) \/ Replay(s))
    BY <1>3 DEF RestoreFile, disk, memory, task
  <2>2. work[s].undo # {} \/ work[s].replay # {}
    BY <2>1 DEF Undo, Replay
  <2>3. Moving(s)
    BY <2>2 DEF NothingToRestore, Moving
  <2>4. Current(s) /\ ~(WroteBy(s)') /\ \A q \in Stores : Current(q)' => q = s
    BY <1>1, <2>1, <2>3 DEF Moving, OneActor
  <2>5. PICK undo \in SUBSET Events, replay \in SUBSET Events : undo = work[s].undo /\ replay = work[s].replay
    BY <1>0 DEF Restorations
  <2>6. Content' = Content
    BY <2>1, SteadyContent
  <2>7. ASSUME ~unclean PROVE ImagesRight' /\ Restoring(s)
    BY <2>1, <2>3, <2>4, <2>7, ImagesStay DEF FilesInv, InPlace
  <2>8. CASE Undo(s)
    <3>1. PICK i : i = Newest(undo)
      OBVIOUS
    <3>2. i \in undo /\ \A j \in undo : j <= i
      BY <1>0, <2>5, <2>8, <3>1, NewestIsGreatest, EventsTyped DEF Undo, Events
    <3>3. files' = [files EXCEPT ![log[i].path] = log[i].before] /\ work' = [work EXCEPT ![s].undo = @ \ {i}]
      BY <2>5, <2>8, <3>1 DEF Undo
    <3>4. work'[s] = [work[s] EXCEPT !.undo = undo \ {i}] /\ log[i].path \in Paths
          /\ \A p \in Paths : files'[p] = IF p = log[i].path THEN log[i].before ELSE files[p]
      BY <1>0, <2>5, <3>2, <3>3, EventsTyped
    <3>5. /\ work'[s].undo = undo \ {i} /\ work'[s].replay = replay /\ work'[s].target = work[s].target
          /\ work'[s].backup = work[s].backup /\ work'[s].then = work[s].then
      BY <1>0, <2>5, <3>4 DEF Restorations
    <3>6. ASSUME ~unclean, NEW p \in Paths \ edited
          PROVE  Restored(work[s].undo, work[s].replay, Content[work[s].target][p], p)'
      <4>1. PICK c : c = Content[work[s].target][p]
        OBVIOUS
      <4>2. Restored(undo, replay, c, p)
        BY <2>5, <2>7, <3>6, <4>1 DEF Restoring
      <4>3. Restored(undo \ {i}, replay, c, p)'
        BY <1>0, <2>1, <3>2, <3>4, <4>2, RestoredGoesOn
      <4> QED BY <2>6, <3>5, <4>1, <4>3 DEF Restored
    <3>7. ASSUME ~unclean PROVE Restoring(s)'
      <4>1. /\ \A j \in undo \cup replay : log[j].path \in DOMAIN work[s].backup
            /\ \A p \in Paths \ edited :
                 /\ p \in DOMAIN work[s].backup => work[s].backup[p] = Content[head[s]][p]
                 /\ p \notin DOMAIN work[s].backup => files[p] = Content[head[s]][p]
        BY <2>5, <2>7, <3>7 DEF Restoring
      <4>2. \A j \in work'[s].undo \cup work'[s].replay : log'[j].path \in DOMAIN work'[s].backup
        BY <2>1, <3>5, <4>1
      <4>3. \A p \in Paths \ edited' :
              /\ p \in DOMAIN work'[s].backup => work'[s].backup[p] = Content'[head'[s]][p]
              /\ p \notin DOMAIN work'[s].backup => files'[p] = Content'[head'[s]][p]
        BY <2>1, <2>6, <3>2, <3>4, <3>5, <4>1
      <4>4. \A p \in Paths \ edited' : Restored(work[s].undo, work[s].replay, Content[work[s].target][p], p)'
        BY <2>1, <3>6, <3>7
      <4> QED BY <4>2, <4>3, <4>4 DEF Restoring
    <3> QED BY <2>1, <2>3, <2>4, <2>7, <3>5, <3>7, FilesOfOne DEF InPlace, Moving
  <2>9. CASE Replay(s)
    <3>1. PICK i : i = Oldest(replay)
      OBVIOUS
    <3>2. undo = {} /\ i \in replay /\ \A j \in replay : i <= j
      BY <1>0, <2>5, <2>9, <3>1, OldestIsLeast, EventsTyped DEF Replay, Events
    <3>3. files' = [files EXCEPT ![log[i].path] = log[i].after] /\ work' = [work EXCEPT ![s].replay = @ \ {i}]
      BY <2>5, <2>9, <3>1 DEF Replay
    <3>4. work'[s] = [work[s] EXCEPT !.replay = replay \ {i}] /\ log[i].path \in Paths
          /\ \A p \in Paths : files'[p] = IF p = log[i].path THEN log[i].after ELSE files[p]
      BY <1>0, <2>5, <3>2, <3>3, EventsTyped
    <3>5. /\ work'[s].undo = undo /\ work'[s].replay = replay \ {i} /\ work'[s].target = work[s].target
          /\ work'[s].backup = work[s].backup /\ work'[s].then = work[s].then
      BY <1>0, <2>5, <3>4 DEF Restorations
    <3>6. ASSUME ~unclean, NEW p \in Paths \ edited
          PROVE  Restored(work[s].undo, work[s].replay, Content[work[s].target][p], p)'
      <4>1. PICK c : c = Content[work[s].target][p]
        OBVIOUS
      <4>2. Restored(undo, replay, c, p)
        BY <2>5, <2>7, <3>6, <4>1 DEF Restoring
      <4>3. Restored(undo, replay \ {i}, c, p)'
        BY <1>0, <2>1, <3>2, <3>4, <4>2, RestoredGoesOn
      <4> QED BY <2>6, <3>5, <4>1, <4>3 DEF Restored
    <3>7. ASSUME ~unclean PROVE Restoring(s)'
      <4>1. /\ \A j \in undo \cup replay : log[j].path \in DOMAIN work[s].backup
            /\ \A p \in Paths \ edited :
                 /\ p \in DOMAIN work[s].backup => work[s].backup[p] = Content[head[s]][p]
                 /\ p \notin DOMAIN work[s].backup => files[p] = Content[head[s]][p]
        BY <2>5, <2>7, <3>7 DEF Restoring
      <4>2. \A j \in work'[s].undo \cup work'[s].replay : log'[j].path \in DOMAIN work'[s].backup
        BY <2>1, <3>5, <4>1
      <4>3. \A p \in Paths \ edited' :
              /\ p \in DOMAIN work'[s].backup => work'[s].backup[p] = Content'[head'[s]][p]
              /\ p \notin DOMAIN work'[s].backup => files'[p] = Content'[head'[s]][p]
        BY <2>1, <2>6, <3>2, <3>4, <3>5, <4>1
      <4>4. \A p \in Paths \ edited' : Restored(work[s].undo, work[s].replay, Content[work[s].target][p], p)'
        BY <2>1, <3>6, <3>7
      <4> QED BY <4>2, <4>3, <4>4 DEF Restoring
    <3> QED BY <2>1, <2>3, <2>4, <2>7, <3>5, <3>7, FilesOfOne DEF InPlace, Moving
  <2> QED BY <2>1, <2>8, <2>9
<1>4. CASE RestoreFails(s)
  <2>1. /\ UNCHANGED <<log, head, edited, unclean>> /\ work' = [work EXCEPT ![s] = Idle] /\ Continue(s)
        /\ files' = [p \in Paths |-> IF p \in DOMAIN work[s].backup THEN work[s].backup[p] ELSE files[p]]
    BY <1>4 DEF RestoreFails, PutBack, disk, memory, trace
  <2>2. work[s].undo # {} \/ work[s].replay # {}
    BY <1>4 DEF RestoreFails
  <2>3. Moving(s)
    BY <2>2 DEF NothingToRestore, Moving
  <2>4. Current(s) /\ ~(WroteBy(s)') /\ \A q \in Stores : Current(q)' => q = s
    BY <1>0, <1>1, <2>1, <2>3 DEF Moving, OneActor, Continue
  <2>5. ~(Moving(s)')
    BY <1>0, <2>1 DEF Moving, Idle
  <2>6. Content' = Content
    BY <2>1, SteadyContent
  <2>7. ASSUME ~unclean PROVE ImagesRight' /\ AtHead(s)'
    <3>1. ImagesRight' /\ Restoring(s)
      BY <2>1, <2>3, <2>4, <2>7, ImagesStay DEF FilesInv, InPlace
    <3> QED BY <2>1, <2>6, <3>1 DEF AtHead, Restoring
  <2> QED BY <2>1, <2>4, <2>5, <2>7, FilesOfOne DEF InPlace
<1>5. CASE SetHead(s)
  <2> DEFINE new == IF work[s].then = "fork" THEN [Idle EXCEPT !.then = "marker", !.target = head[s]] ELSE Idle
  <2>1. /\ UNCHANGED <<log, files, edited, unclean>> /\ work' = [work EXCEPT ![s] = new] /\ Continue(s)
        /\ head' = [head EXCEPT ![s] = work[s].target]
        /\ Moving(s) /\ work[s].undo = {} /\ work[s].replay = {}
    BY <1>0, <1>5 DEF SetHead, FilesRestored, trace, Moving
  <2>2. new.then \in {"none", "marker"}
    BY DEF Idle
  <2> HIDE DEF new
  <2>3. Current(s) /\ ~(WroteBy(s)') /\ \A q \in Stores : Current(q)' => q = s
    BY <1>0, <1>1, <2>1 DEF Moving, OneActor, Continue
  <2>4. ~(Moving(s)') /\ head'[s] = work[s].target
    BY <1>0, <2>1, <2>2 DEF Moving
  <2>5. Content' = Content
    BY <2>1, SteadyContent
  <2>6. ASSUME ~unclean PROVE ImagesRight' /\ AtHead(s)'
    <3>1. ImagesRight' /\ Restoring(s)
      BY <2>1, <2>3, <2>6, ImagesStay DEF FilesInv, InPlace
    <3>2. \A p \in Paths \ edited : files[p] = Content[work[s].target][p]
      BY <2>1, <3>1 DEF Restoring, Restored
    <3> QED BY <2>1, <2>4, <2>5, <3>1, <3>2 DEF AtHead
  <2> QED BY <2>1, <2>3, <2>4, <2>6, FilesOfOne DEF InPlace
<1>6. ~HeadNotWritten(s) /\ ~SetHeadFails(s)
  BY DEF HeadNotWritten, SetHeadFails
<1> QED BY <1>2, <1>3, <1>4, <1>5, <1>6 DEF StoreStep

(* A start stays on the chain of its task when the log grows.              *)
LEMMA StartKept ==
  ASSUME TypeOK, TypeOK', StartOnChain, log' = log \/ \E s \in Stores : \E type, edit : AppendLine(s, type, edit),
         \A r \in Runtimes : phase'[r] \in {"turn", "wrote", "joining"} =>
           \/ phase[r] \in {"turn", "wrote", "joining"} /\ start'[r] = start[r] /\ head'[r] = head[r]
           \/ start'[r] \in Chain'[head'[r]] \cup {Root}
  PROVE  StartOnChain'
<1>1. \A r \in Runtimes : head[r] \in Places
  BY Bounds DEF TypeOK, StoresOK
<1>2. \A i \in Places : Chain'[i] = Chain[i]
  BY Steady, ContentGrows
<1> QED BY <1>1, <1>2 DEF StartOnChain

(* The steps of a store keep the start of a turn on its chain.             *)
LEMMA StartStore ==
  ASSUME TypeOK, TypeOK', NothingToRestore, OneActor, StartOnChain, ~headLost', NEW s \in Stores, StoreStep(s)
  PROVE  StartOnChain'
<1>0. DOMAIN phase = Runtimes /\ DOMAIN head = Stores /\ Runtimes \subseteq Stores
  BY Bounds DEF TypeOK, TasksOK, StoresOK
<1>1. CASE PersistHead(s) \/ RestoreFile(s)
  <2>1. UNCHANGED <<log, head, phase, start>>
    BY <1>1 DEF PersistHead, RestoreFile, disk, memory, task
  <2> QED BY <2>1, StartKept
<1>2. CASE RestoreFails(s)
  <2>1. UNCHANGED <<log, head, start>> /\ (phase' = phase \/ phase' = [phase EXCEPT ![s] = "terminal"])
    BY <1>2 DEF RestoreFails, PutBack, Continue, disk, memory
  <2>2. \A r \in Runtimes : phase'[r] \in {"turn", "wrote", "joining"} => phase[r] \in {"turn", "wrote", "joining"}
    BY <1>0, <2>1
  <2> QED BY <2>1, <2>2, StartKept
<1>3. CASE SetHead(s)
  <2>1. /\ UNCHANGED <<log, start>> /\ head' = [head EXCEPT ![s] = work[s].target]
        /\ phase' = phase \/ phase' = [phase EXCEPT ![s] = "terminal"]
        /\ work[s].then \notin {"none", "marker"}
    BY <1>3 DEF SetHead, FilesRestored, Continue
  <2>2. \A r \in Runtimes : phase'[r] \in {"turn", "wrote", "joining"} => phase[r] \in {"turn", "wrote", "joining"}
    BY <1>0, <2>1
  <2>3. \A r \in Runtimes : r = s => phase[r] = "rollback"
    BY <2>1 DEF OneActor
  <2>4. \A r \in Runtimes : r # s => head'[r] = head[r]
    BY <1>0, <2>1
  <2> QED BY <2>1, <2>2, <2>3, <2>4, StartKept
<1>4. ~HeadNotWritten(s) /\ ~SetHeadFails(s)
  BY DEF HeadNotWritten, SetHeadFails
<1> QED BY <1>1, <1>2, <1>3, <1>4 DEF StoreStep

(* A turn starts at the head.                                              *)
LEMMA StartTask ==
  ASSUME ~crossed', TypeOK, TypeOK', OneActor, StartOnChain, NEW r \in Runtimes, TaskStep(r)
  PROVE  StartOnChain'
<1>0. /\ DOMAIN phase = Runtimes /\ DOMAIN head = Stores /\ DOMAIN start = Runtimes
      /\ r \in Stores /\ Runtimes \subseteq Stores /\ Display \notin Runtimes
      /\ \A q \in Stores : head[q] \in Places
  BY Bounds DEF TypeOK, TasksOK, StoresOK
(* The task is not in a turn afterwards.                                   *)
<1>1. ASSUME NEW to \in {"opened", "between", "rollback", "terminal", "ending", "over"},
             phase' = [phase EXCEPT ![r] = to],
             start' = start \/ start' = [start EXCEPT ![r] = Root],
             \A q \in Stores \ {r, Display} : head'[q] = head[q],
             log' = log \/ \E s \in Stores : \E type, edit : AppendLine(s, type, edit)
      PROVE  StartOnChain'
  <2>1. ASSUME NEW q \in Runtimes, phase'[q] \in {"turn", "wrote", "joining"}
        PROVE  phase[q] \in {"turn", "wrote", "joining"} /\ start'[q] = start[q] /\ head'[q] = head[q]
    BY <1>0, <1>1, <2>1
  <2> QED BY <1>1, <2>1, StartKept
(* It goes on with its turn.                                               *)
<1>2. ASSUME NEW to \in {"turn", "wrote", "joining"}, phase[r] \in {"turn", "wrote", "joining"},
             phase' = [phase EXCEPT ![r] = to], UNCHANGED <<log, start, head>>
      PROVE  StartOnChain'
  BY <1>0, <1>2, StartKept
(* It appends to its chain.                                                *)
<1>3. ASSUME NEW to \in {"turn", "joining"}, phase' = [phase EXCEPT ![r] = to],
             NEW type, NEW edit, AppendLine(r, type, edit), start'[r] \in Chain[head[r]] \cup {head[r]} \cup {Root},
             \A q \in Runtimes \ {r} : start'[q] = start[q]
      PROVE  StartOnChain'
  <2>1. PICK n : n = Len(log) + 1 /\ head'[r] = n /\ Chain'[n] = Chain[head[r]] \cup {n}
    BY <1>0, <1>3, ContentGrows
  <2>2. head[r] \in Chain[head[r]] \cup {Root}
    BY <1>0, EventsTyped, ChainUpwards DEF TypeOK, Upwards, Root
  <2>3. start'[r] \in Chain'[head'[r]] \cup {Root}
    BY <1>3, <2>1, <2>2
  <2>4. \A q \in Runtimes \ {r} : head'[q] = head[q] /\ phase'[q] = phase[q]
    BY <1>0, <1>3 DEF AppendLine
  <2> QED BY <1>0, <1>3, <2>3, <2>4, StartKept
<1>4. ASSUME OpenRuntime(r) PROVE StartOnChain'
  BY <1>0, <1>1, <1>4 DEF OpenRuntime, Goto, Open, disk
<1>5. ASSUME Register(r) PROVE StartOnChain'
  BY <1>0, <1>1, <1>5 DEF Register, Goto, Close, disk, memory
<1>6. ASSUME FailEarly(r) PROVE StartOnChain'
  BY <1>1, <1>6 DEF FailEarly, Goto, disk, memory
<1>7. ASSUME BeginTurn(r) PROVE StartOnChain'
  <2>1. start'[r] = head[r] /\ \A q \in Runtimes \ {r} : start'[q] = start[q]
    BY <1>0, <1>7 DEF BeginTurn
  <2> QED BY <1>3, <1>7, <2>1 DEF BeginTurn, Goto
<1>8. ASSUME NEW p \in Paths, NEW content \in Versions \cup {Absent}, WriteFile(r, p, content) PROVE StartOnChain'
  BY <1>2, <1>8 DEF WriteFile, Goto, disk, memory
<1>9. ASSUME RecordChange(r) PROVE StartOnChain'
  BY <1>3, <1>9 DEF RecordChange, Goto, StartOnChain
<1>10. ASSUME RecordFails(r) PROVE StartOnChain'
  BY <1>2, <1>10 DEF RecordFails, Goto, disk, memory
<1>11. ASSUME Commit(r) PROVE StartOnChain'
  BY <1>3, <1>11 DEF Commit, Goto, StartOnChain
<1>12. ASSUME TurnSucceeds(r) PROVE StartOnChain'
  BY <1>1, <1>12 DEF TurnSucceeds, Goto, disk, memory
<1>13. ASSUME Retain(r) PROVE StartOnChain'
  BY <1>1, <1>13 DEF Retain, Goto, disk, memory
<1>14. ASSUME Rollback(r) PROVE StartOnChain'
  BY <1>1, <1>14 DEF Rollback, disk, memory
<1>15. ASSUME RollbackRefused(r) PROVE StartOnChain'
  BY <1>1, <1>15 DEF RollbackRefused, disk, memory
<1>16. ASSUME RecordTerminal(r) PROVE StartOnChain'
  <2>1. \A q \in Stores \ {r, Display} : head'[q] = head[q]
    BY <1>0, <1>16 DEF RecordTerminal, AppendLine
  <2> QED BY <1>0, <1>1, <1>16, <2>1 DEF RecordTerminal, Goto
<1>17. ASSUME LeaveRegistry(r) PROVE StartOnChain'
  BY <1>1, <1>17 DEF LeaveRegistry, Goto, disk, memory
<1>18. ASSUME Complete(r) PROVE StartOnChain'
  <2>1. \A q \in Stores \ {r, Display} : head'[q] = head[q]
    BY <1>0, <1>18 DEF Complete, OpenAndClose, Close
  <2> QED BY <1>1, <1>18, <2>1 DEF Complete, Goto, disk
<1>19. ASSUME ForceStop(r) PROVE StartOnChain'
  <2>1. \A q \in Stores \ {r, Display} : head'[q] = head[q]
    BY <1>0, <1>19 DEF ForceStop, Hangs, GoesOn, OpenAndClose, Close
  <2> QED BY <1>1, <1>19, <2>1 DEF ForceStop, Hangs, GoesOn, Goto, disk
<1> QED BY <1>4, <1>5, <1>6, <1>7, <1>8, <1>9, <1>10, <1>11, <1>12, <1>13, <1>14, <1>15, <1>16, <1>17,
           <1>18, <1>19 DEF TaskStep

(* The user does not move the start of a turn.                             *)
LEMMA StartUser ==
  ASSUME TypeOK, TypeOK', StartOnChain, UserStep
  PROVE  StartOnChain'
<1>0. DOMAIN head = Stores /\ Runtimes \subseteq Stores /\ Display \notin Runtimes /\ Display \in Stores
  BY Bounds DEF TypeOK, StoresOK
<1>1. ASSUME UNCHANGED <<log, memory, task>> PROVE StartOnChain'
  BY <1>1, StartKept DEF memory, task
<1>2. ASSUME NEW i \in Events, RewindToCheckpoint(i) \/ SwitchBranch(i) PROVE StartOnChain'
  BY <1>1, <1>2 DEF RewindToCheckpoint, SwitchBranch, disk
<1>3. ASSUME NEW i \in Events, ForkFromMessage(i) PROVE StartOnChain'
  <2>1. UNCHANGED <<log, phase, start>> /\ \A r \in Runtimes : head'[r] = head[r]
    BY <1>0, <1>3 DEF ForkFromMessage, Open, disk, task
  <2> QED BY <2>1, StartKept
<1>4. CASE AppendMarker
  <2>1. /\ UNCHANGED <<phase, start>> /\ AppendLine(Display, "marker", NoChange)
        /\ \A r \in Runtimes : head'[r] = head[r]
    BY <1>0, <1>4 DEF AppendMarker, AppendLine, task
  <2> QED BY <1>0, <2>1, StartKept
<1>5. CASE MarkerFails
  BY <1>1, <1>5 DEF MarkerFails, disk
<1>6. CASE \E p \in Paths : EditOutside(p)
  BY <1>1, <1>6 DEF EditOutside, disk
<1>7. CASE Restart
  BY <1>7 DEF Restart, StartOnChain
<1> QED BY <1>2, <1>3, <1>4, <1>5, <1>6, <1>7 DEF UserStep

(* An event that is no image is appended where the files are what the head  *)
(* says.                                                                   *)
LEMMA FilesAppended ==
  ASSUME TypeOK, TypeOK', FilesInv, NEW s \in Stores, NEW type, type # "file", NEW edit, AppendLine(s, type, edit),
         UNCHANGED <<files, edited, unclean>>, ~unclean => AtHead(s),
         \A q \in Stores : Current(q)' => q = s, ~(Moving(s)'), ~(WroteBy(s)')
  PROVE  FilesInv'
<1>0. PICK n : n = Len(log) + 1
  OBVIOUS
<1>1. /\ head'[s] = n /\ Events' = Events \cup {n} /\ log'[n].type = type
      /\ \A i \in Events : log'[i] = log[i] /\ i # n
      /\ \A i \in Places, p \in Paths : Content'[i][p] = Content[i][p]
      /\ \A p \in Paths : Content'[n][p] = Content[head[s]][p]
  <2>1. /\ head'[s] = n /\ Events' = Events \cup {n}
        /\ log'[n] = [type |-> type, parent |-> head[s], path |-> edit.path,
                      before |-> edit.before, after |-> edit.after]
        /\ \A i \in Events : log'[i] = log[i] /\ i # n
        /\ \A i \in Places, p \in Paths : Content'[i][p] = Content[i][p]
        /\ \A p \in Paths : type # "file" \/ edit.path # p => Content'[n][p] = Content[head[s]][p]
    BY <1>0, ContentGrows
  <2>2. log'[n].type = type
    BY <2>1
  <2> QED BY <2>1, <2>2
<1>2. ASSUME ~unclean PROVE ImagesRight'
  <2>1. \A i \in Events : log[i].parent \in Places /\ log[i].path \in Paths
    BY EventsTyped DEF TypeOK
  <2>2. \A i \in FileEvents(Events) : log[i].path \notin edited =>
          log[i].before = Content[log[i].parent][log[i].path]
    BY <1>2 DEF FilesInv, ImagesRight
  <2> QED BY <1>1, <2>1, <2>2 DEF ImagesRight, FileEvents
<1>3. ~unclean => AtHead(s)'
  BY <1>1 DEF AtHead
<1> QED BY <1>2, <1>3, FilesOfOne DEF InPlace

(* A tool writes one file; its record, or putting it back, makes files and head agree. *)
LEMMA FilesTask ==
  ASSUME ~crossed', ~headLost, TypeOK, TypeOK', OneActor, HeadInv, StartOnChain, FilesInv,
         NEW r \in Runtimes, TaskStep(r)
  PROVE  FilesInv'
<1>0. /\ DOMAIN phase = Runtimes /\ DOMAIN head = Stores /\ DOMAIN change = Runtimes /\ DOMAIN work = Stores
      /\ r \in Stores /\ Display \in Stores /\ r # Display /\ head[r] \in Places
      /\ files \in [Paths -> Contents]
  BY Bounds DEF TypeOK, TasksOK, StoresOK, WorkOK
<1>1. ASSUME Active(r) PROVE Current(r) /\ (\A s \in Stores : Current(s) => s = r) /\ Free(Display)
  BY <1>0, <1>1, OneCurrent DEF Current, OneActor
<1>2. ASSUME phase[r] \notin {"closed", "over"}, NEW to, to \notin {"closed", "over"}, phase' = [phase EXCEPT ![r] = to]
      PROVE  \A s \in Stores : Current(s)' => s = r
  <2>1. \A q \in Runtimes : Active(q)' <=> Active(q)
    BY <1>0, <1>2 DEF Active
  <2> QED BY <1>1, <1>2, <2>1 DEF Current, Active, Stores
(* A step from one phase to another, that changes no file.                 *)
<1>3. ASSUME NEW to \in {"between", "joining", "terminal", "ending"}, phase[r] \notin {"closed", "over", "wrote"},
             phase' = [phase EXCEPT ![r] = to], UNCHANGED <<log, head, files, change, work, edited, unclean>>
      PROVE  FilesInv'
  <2>1. \A s \in Stores : Current(s)' => s = r
    BY <1>2, <1>3
  <2>2. Current(r)
    BY <1>1, <1>3 DEF Active
  <2>3. ~WroteBy(r) /\ ~(WroteBy(r)')
    BY <1>0, <1>3 DEF WroteBy
  <2> QED BY <1>3, <2>1, <2>2, <2>3, FilesKept
(* A step that appends a line that is no image.                            *)
<1>4. ASSUME NEW to \in {"turn", "joining", "ending"}, phase[r] \notin {"closed", "over", "wrote"}, Free(r),
             phase' = [phase EXCEPT ![r] = to], NEW type, type # "file", AppendLine(r, type, NoChange),
             UNCHANGED <<files, work, edited, unclean>>
      PROVE  FilesInv'
  <2>1. \A s \in Stores : Current(s)' => s = r
    BY <1>2, <1>4
  <2>2. Current(r) /\ ~Moving(r) /\ ~(Moving(r)') /\ ~WroteBy(r) /\ ~(WroteBy(r)')
    BY <1>0, <1>1, <1>4 DEF Active, Moving, Free, WroteBy
  <2>3. ~unclean => AtHead(r)
    BY <1>0, <2>2 DEF FilesInv, InPlace
  <2> QED BY <1>0, <1>4, <2>1, <2>2, <2>3, FilesAppended
(* Nobody is half way through something while a task leaves its turn.       *)
<1>5. ASSUME Active(r), Free(r), phase[r] # "wrote", ~unclean
      PROVE  \A p \in Paths \ edited : files[p] = FileAt(LoadHead, p)
  <2>1. Settled
    BY <1>5, BusyIsAlone DEF Settled, OneActor, Active, Stores
  <2> QED BY <1>5, <2>1, FilesOfInv
(* A step after which the screen shows what the task did.                  *)
<1>6. ASSUME Active(r), phase' = [phase EXCEPT ![r] = "over"], UNCHANGED <<log, files, edited, unclean>>,
             OpenAndClose(Display, r), work'[Display] = work[Display],
             ~unclean => Free(r) /\ phase[r] # "wrote"
      PROVE  FilesInv'
  <2>1. \A q \in Runtimes : ~(Active(q)')
    BY <1>0, <1>6, BusyIsAlone DEF Active
  <2>2. \A s \in Stores : Current(s)' => s = Display
    BY <2>1 DEF Current, Stores
  <2>3. head'[Display] = LoadHead /\ ~(Moving(Display)') /\ ~(WroteBy(Display)')
    BY <1>0, <1>1, <1>6, Bounds DEF OpenAndClose, Moving, Free, WroteBy
  <2> QED BY <1>0, <1>5, <1>6, <2>2, <2>3, FilesOpened
<1>7. ASSUME OpenRuntime(r) PROVE FilesInv'
  <2>1. /\ AtRest /\ phase[r] = "closed" /\ phase' = [phase EXCEPT ![r] = "opened"]
        /\ UNCHANGED <<log, files, work, edited, unclean>> /\ head' = [head EXCEPT ![r] = LoadHead]
    BY <1>7 DEF OpenRuntime, Begins, Goto, Open, disk
  <2>2. \A q \in Runtimes : ~Active(q)
    BY <2>1, RestIsQuiet
  <2>3. \A q \in Runtimes : Active(q)' <=> q = r
    BY <1>0, <2>1, <2>2 DEF Active
  <2>4. \A s \in Stores : Current(s)' => s = r
    BY <2>3 DEF Current, Stores
  <2>5. Settled
    BY <2>1, <2>2 DEF Settled, OneActor, Active, AtRest, Stores
  <2>6. ~unclean => \A p \in Paths \ edited : files[p] = FileAt(LoadHead, p)
    BY <2>5, FilesOfInv
  <2>7. head'[r] = LoadHead /\ ~(Moving(r)') /\ ~(WroteBy(r)')
    BY <1>0, <2>1, <2>5 DEF Settled, Free, Moving, WroteBy
  <2> QED BY <1>0, <2>1, <2>4, <2>6, <2>7, FilesOpened
<1>8. ASSUME Register(r) PROVE FilesInv'
  <2>1. phase[r] = "opened"
    BY <1>8 DEF Register
  <2>2. registered = NoTask
    BY <2>1, BusyIsAlone DEF OneActor, Active
  <2> QED BY <1>3, <1>8, <2>1, <2>2 DEF Register, Goto, disk, memory, trace
<1>9. ASSUME FailEarly(r) PROVE FilesInv'
  BY <1>3, <1>9 DEF FailEarly, Goto, disk, memory, trace
<1>10. ASSUME BeginTurn(r) PROVE FilesInv'
  BY <1>4, <1>10 DEF BeginTurn, Goto, trace
<1>11. ASSUME NEW p \in Paths, NEW content \in Versions \cup {Absent}, WriteFile(r, p, content) PROVE FilesInv'
  <2>1. /\ Free(r) /\ phase[r] = "turn" /\ phase' = [phase EXCEPT ![r] = "wrote"]
        /\ change' = [change EXCEPT ![r] = [path |-> p, before |-> files[p], after |-> content]]
        /\ files' = [files EXCEPT ![p] = content] /\ UNCHANGED <<log, head, work, edited, unclean>>
    BY <1>11 DEF WriteFile, Goto, disk, memory, trace
  <2>2. \A s \in Stores : Current(s)' => s = r
    BY <1>2, <2>1
  <2>3. Current(r) /\ ~Moving(r) /\ ~(Moving(r)') /\ ~WroteBy(r) /\ WroteBy(r)'
    BY <1>0, <1>1, <2>1 DEF Active, Moving, Free, WroteBy
  <2>4. Content' = Content
    BY <2>1, SteadyContent
  <2>5. change'[r] = [path |-> p, before |-> files[p], after |-> content] /\ files'[p] = content
        /\ \A n \in Paths : n # p => files'[n] = files[n]
    BY <1>0, <2>1
  <2>6. ~unclean => AtHead(r) /\ ImagesRight'
    BY <1>0, <2>1, <2>3, ImagesStay DEF FilesInv, InPlace
  <2>7. ~unclean => Wrote(r)'
    BY <2>1, <2>4, <2>5, <2>6 DEF AtHead, Wrote
  <2> QED BY <2>1, <2>2, <2>3, <2>6, <2>7, FilesOfOne DEF InPlace
<1>12. ASSUME RecordChange(r) PROVE FilesInv'
  <2>1. /\ phase[r] = "wrote" /\ phase' = [phase EXCEPT ![r] = "turn"] /\ AppendLine(r, "file", change[r])
        /\ UNCHANGED <<files, work, edited, unclean>>
    BY <1>12 DEF RecordChange, Goto, trace
  <2>2. \A s \in Stores : Current(s)' => s = r
    BY <1>2, <2>1
  <2>3. Current(r) /\ ~Moving(r) /\ ~(Moving(r)') /\ WroteBy(r) /\ ~(WroteBy(r)')
    BY <1>0, <1>1, <2>1 DEF Active, Moving, OneActor, WroteBy
  <2>4. ~unclean => Wrote(r) /\ ImagesRight
    BY <1>0, <2>3 DEF FilesInv, InPlace
  <2>5. PICK c : c = change[r] /\ c.path \in Paths
    BY DEF TypeOK, TasksOK, Changes
  <2>6. PICK n : n = Len(log) + 1
    OBVIOUS
  <2>7. AppendLine(r, "file", c)
    BY <2>1, <2>5 DEF AppendLine
  <2>8. /\ head'[r] = n /\ Events' = Events \cup {n}
        /\ log'[n] = [type |-> "file", parent |-> head[r], path |-> c.path,
                      before |-> c.before, after |-> c.after]
        /\ \A i \in Events : log'[i] = log[i] /\ i # n
        /\ \A i \in Places, p \in Paths : Content'[i][p] = Content[i][p]
        /\ \A p \in Paths : c.path # p => Content'[n][p] = Content[head[r]][p]
        /\ Content'[n][c.path] = c.after
    BY <1>0, <2>5, <2>6, <2>7, ContentGrows
  <2>9. ASSUME ~unclean PROVE ImagesRight'
    <3>1. \A i \in Events : log[i].parent \in Places /\ log[i].path \in Paths
      BY EventsTyped DEF TypeOK
    <3>2. \A i \in FileEvents(Events) : log[i].path \notin edited =>
            log[i].before = Content[log[i].parent][log[i].path]
      BY <2>4, <2>9 DEF ImagesRight
    <3>3. log'[n].path \notin edited => log'[n].before = Content'[log'[n].parent][log'[n].path]
      BY <1>0, <2>4, <2>5, <2>8, <2>9 DEF Wrote
    <3> QED BY <2>1, <2>8, <3>1, <3>2, <3>3 DEF ImagesRight, FileEvents
  <2>10. ~unclean => AtHead(r)'
    BY <2>1, <2>4, <2>5, <2>8 DEF AtHead, Wrote
  <2> QED BY <2>1, <2>2, <2>3, <2>9, <2>10, FilesOfOne DEF InPlace
<1>13. ASSUME RecordFails(r) PROVE FilesInv'
  <2>1. /\ phase[r] = "wrote" /\ phase' = [phase EXCEPT ![r] = "turn"]
        /\ files' = [files EXCEPT ![change[r].path] = change[r].before]
        /\ UNCHANGED <<log, head, work, edited, unclean>>
    BY <1>13 DEF RecordFails, Goto, disk, memory
  <2>2. \A s \in Stores : Current(s)' => s = r
    BY <1>2, <2>1
  <2>3. Current(r) /\ ~Moving(r) /\ ~(Moving(r)') /\ WroteBy(r) /\ ~(WroteBy(r)')
    BY <1>0, <1>1, <2>1 DEF Active, Moving, OneActor, WroteBy
  <2>4. ~unclean => Wrote(r) /\ ImagesRight'
    BY <1>0, <2>1, <2>3, ImagesStay DEF FilesInv, InPlace
  <2>5. Content' = Content
    BY <2>1, SteadyContent
  <2>6. ~unclean => AtHead(r)'
    BY <1>0, <2>1, <2>4, <2>5 DEF AtHead, Wrote
  <2> QED BY <2>1, <2>2, <2>3, <2>4, <2>6, FilesOfOne DEF InPlace
<1>14. ASSUME Commit(r) PROVE FilesInv'
  BY <1>4, <1>14 DEF Commit, Goto, trace
<1>15. ASSUME TurnSucceeds(r) PROVE FilesInv'
  BY <1>3, <1>15 DEF TurnSucceeds, Goto, disk, memory, trace
<1>16. ASSUME Retain(r) PROVE FilesInv'
  BY <1>3, <1>16 DEF Retain, Goto, disk, memory, trace
<1>17. ASSUME Rollback(r) PROVE FilesInv'
  <2>1. /\ Free(r) /\ phase[r] \in {"turn", "joining"} /\ phase' = [phase EXCEPT ![r] = "rollback"]
        /\ RestoreTo(r, head[r], start[r], "rollback") /\ UNCHANGED <<log, head, files, edited, unclean>>
    BY <1>17 DEF Rollback, disk, memory, trace
  <2>2. \A s \in Stores : Current(s)' => s = r
    BY <1>2, <2>1
  <2>3. Current(r) /\ ~Moving(r) /\ ~WroteBy(r)
    BY <1>1, <2>1 DEF Active, Moving, Free, WroteBy
  <2>4. ~unclean => AtHead(r)
    BY <1>0, <2>3 DEF FilesInv, InPlace
  <2>5. start[r] \in Chain[head[r]] \cup {Root} /\ start[r] \in Places
    BY <2>1 DEF StartOnChain, TypeOK, TasksOK
  <2> QED BY <1>0, <2>1, <2>2, <2>4, <2>5, FilesBegun DEF AtHead
<1>18. ASSUME RollbackRefused(r) PROVE FilesInv'
  BY <1>3, <1>18 DEF RollbackRefused, disk, memory, trace
<1>19. ASSUME RecordTerminal(r) PROVE FilesInv'
  BY <1>4, <1>19 DEF RecordTerminal, Goto, trace
<1>20. ASSUME LeaveRegistry(r) PROVE FilesInv'
  BY <1>3, <1>20 DEF LeaveRegistry, Goto, disk, memory, trace
<1>21. ASSUME Complete(r) PROVE FilesInv'
  <2>1. Active(r) /\ Free(r) /\ phase[r] = "ending" /\ Free(Display) /\ r \notin forced
    BY <1>21, BusyIsAlone DEF Complete, Goto, Active
  <2> QED BY <1>6, <1>21, <2>1 DEF Complete, Goto, disk, trace
<1>22. ASSUME ForceStop(r) PROVE FilesInv'
  <2>1. /\ phase[r] \notin {"closed", "over"} /\ ~unsaved[r] /\ phase' = [phase EXCEPT ![r] = "over"]
        /\ work' = [work EXCEPT ![r] = Idle] /\ UNCHANGED <<log, files, edited>>
        /\ unclean' = (unclean \/ work[r].then # "none" \/ phase[r] = "wrote")
        /\ Free(Display) => OpenAndClose(Display, r)
    BY <1>22 DEF ForceStop, Hangs, GoesOn, Goto, disk
  <2>2. Active(r) /\ OpenAndClose(Display, r) /\ work'[Display] = work[Display]
    BY <1>0, <1>1, <2>1 DEF Active
  <2>3. CASE unclean'
    BY <2>3 DEF FilesInv
  <2>4. CASE ~unclean'
    <3>1. UNCHANGED unclean /\ Free(r) /\ phase[r] # "wrote"
      BY <2>1, <2>4 DEF TypeOK, HistoryOK, Free
    <3> QED BY <1>6, <2>1, <2>2, <3>1
  <2> QED BY <2>3, <2>4
<1> QED BY <1>7, <1>8, <1>9, <1>10, <1>11, <1>12, <1>13, <1>14, <1>15, <1>16, <1>17, <1>18, <1>19,
           <1>20, <1>21, <1>22 DEF TaskStep

(* Going back and switching begin with files and head in agreement.        *)
LEMMA FilesUser ==
  ASSUME ~crossed', ~headLost, TypeOK, TypeOK', OneActor, HeadInv, FilesInv, UserStep
  PROVE  FilesInv'
<1>0. /\ Display \in Stores /\ Display \notin Runtimes /\ \A s \in Stores : s # Display => s \in Runtimes
      /\ head[Display] \in Places /\ DOMAIN head = Stores /\ DOMAIN work = Stores
      /\ files \in [Paths -> Contents] /\ ~WroteBy(Display) /\ ~(WroteBy(Display)')
  BY Bounds DEF TypeOK, StoresOK, WorkOK, Stores, WroteBy
(* Nobody else acts while the user does.                                   *)
<1>1. ASSUME Operates \/ ~Free(Display), UNCHANGED phase
      PROVE  Current(Display) /\ (\A s \in Stores : Current(s)' => s = Display) /\ \A r \in Runtimes : ~Active(r)
  BY <1>0, <1>1, RestIsQuiet, BusyDisplayIsAlone DEF Operates, Begins, Current, Active
<1>2. ASSUME Current(Display), ~Moving(Display), ~unclean PROVE AtHead(Display)
  BY <1>0, <1>2 DEF FilesInv, InPlace
<1>3. ASSUME Operates, UNCHANGED <<log, files, head, phase, edited, unclean>>, NEW t \in Places,
             \/ t \in Chain[head[Display]] \cup {Root} /\ RestoreTo(Display, head[Display], t, "rewind")
             \/ SwitchTo(Display, t, "switch")
      PROVE  FilesInv'
  <2>1. Current(Display) /\ (\A s \in Stores : Current(s)' => s = Display) /\ ~Moving(Display)
    BY <1>1, <1>3 DEF Operates, Free, Moving
  <2> QED BY <1>0, <1>2, <1>3, <2>1, FilesBegun DEF AtHead
<1>4. ASSUME NEW i \in Events, RewindToCheckpoint(i) PROVE FilesInv'
  <2>1. i \in Places
    BY EventsTyped DEF TypeOK
  <2> QED BY <1>3, <1>4, <2>1 DEF RewindToCheckpoint, Operates, Begins, disk, memory, task
<1>5. ASSUME NEW i \in Events, SwitchBranch(i) PROVE FilesInv'
  <2>1. i \in Places
    BY EventsTyped DEF TypeOK
  <2> QED BY <1>3, <1>5, <2>1 DEF SwitchBranch, Operates, Begins, disk, memory, task
<1>6. ASSUME NEW i \in Events, ForkFromMessage(i) PROVE FilesInv'
  <2>1. Operates /\ UNCHANGED <<log, files, phase, edited, unclean>> /\ head' = [head EXCEPT ![Display] = LoadHead]
    BY <1>6 DEF ForkFromMessage, Operates, Begins, Open, disk, task
  <2>2. Current(Display) /\ (\A s \in Stores : Current(s)' => s = Display) /\ ~Moving(Display) /\ ~unsaved[Display]
    BY <1>1, <2>1 DEF Operates, Free, Moving
  <2>3. head[Display] = LoadHead
    BY <1>0, <2>2 DEF HeadInv
  <2>4. PICK t \in Places : t \in Chain[LoadHead] \cup {Root} /\ RestoreTo(Display, LoadHead, t, "fork")
    <3>1. PICK h \in Places : h = LoadHead
      BY <1>0, <2>3
    <3>2. i \in Chain[h] /\ i \in Places /\ log[i].parent \in Places /\ LogOK
      BY <1>6, <3>1, EventsTyped DEF ForkFromMessage, TypeOK
    <3>3. log[i].parent \in Chain[h] \cup {Root}
      <4>1. Chain[i] = Chain[log[i].parent] \cup {i} /\ Chain[i] = Chain[h] \cap (1..i)
        BY <3>2, ChainUpwards DEF Upwards
      <4>2. log[i].parent \in Chain[log[i].parent] \cup {Root}
        BY <3>2, EventsTyped, ChainUpwards DEF Upwards, Root
      <4> QED BY <4>1, <4>2
    <3> QED BY <1>6, <3>1, <3>2, <3>3 DEF ForkFromMessage
  <2>5. head'[Display] = head[Display] /\ t \in Chain[head[Display]] \cup {Root}
        /\ RestoreTo(Display, head[Display], t, "fork")
    BY <1>0, <2>1, <2>3, <2>4 DEF RestoreTo
  <2> QED BY <1>0, <1>2, <2>1, <2>2, <2>5, FilesBegun DEF AtHead
<1>7. CASE AppendMarker
  <2>1. /\ work[Display].then = "marker" /\ work' = [work EXCEPT ![Display] = Idle]
        /\ AppendLine(Display, "marker", NoChange) /\ UNCHANGED <<files, phase, edited, unclean>>
    BY <1>7 DEF AppendMarker, task, trace
  <2>2. Current(Display) /\ (\A s \in Stores : Current(s)' => s = Display)
    BY <1>1, <2>1 DEF Free
  <2>3. ~Moving(Display) /\ ~(Moving(Display)')
    BY <1>0, <2>1 DEF Moving, Idle
  <2>4. ~unclean => AtHead(Display)
    BY <1>2, <2>2, <2>3
  <2> QED BY <1>0, <2>1, <2>2, <2>3, <2>4, FilesAppended
<1>8. CASE MarkerFails
  <2>1. work[Display].then = "marker" /\ UNCHANGED <<log, files, head, phase, change, edited, unclean>>
    BY <1>8 DEF MarkerFails, disk, memory, task, trace
  <2>2. Current(Display) /\ (\A s \in Stores : Current(s)' => s = Display) /\ ~Moving(Display)
    BY <1>1, <2>1 DEF Free, Moving
  <2>3. CASE work' = [work EXCEPT ![Display] = Idle]
    <3>1. ~(Moving(Display)')
      BY <1>0, <2>3 DEF Moving, Idle
    <3> QED BY <1>0, <2>1, <2>2, <3>1, FilesKept
  <2>4. CASE SwitchTo(Display, work[Display].target, "switch")
    <3>1. PICK t \in Places : t = work[Display].target
      BY <1>0 DEF TypeOK, WorkOK, Restorations
    <3>2. SwitchTo(Display, t, "switch")
      BY <2>4, <3>1
    <3> QED BY <1>0, <1>2, <2>1, <2>2, <3>2, FilesBegun DEF AtHead
  <2> QED BY <1>8, <2>3, <2>4 DEF MarkerFails
<1>9. ASSUME NEW p \in Paths, EditOutside(p) PROVE FilesInv'
  <2>1. /\ files' = [files EXCEPT ![p] = Foreign] /\ edited' = edited \cup {p}
        /\ UNCHANGED <<log, head, work, phase, unclean>>
        /\ \A s \in Stores : ~Moving(s) /\ ~WroteBy(s)
    BY <1>9 DEF EditOutside, disk, memory, task, Moving, WroteBy
  <2>2. Content' = Content
    BY <2>1, SteadyContent
  <2>3. \A s \in Stores : (Current(s)' <=> Current(s)) /\ ~(Moving(s)') /\ ~(WroteBy(s)')
    BY <2>1 DEF Current, Active, Moving, WroteBy
  <2>4. ASSUME ~unclean, NEW s \in Stores, Current(s)' PROVE AtHead(s)'
    <3>1. AtHead(s)
      BY <2>1, <2>3, <2>4 DEF FilesInv, InPlace
    <3> QED BY <1>0, <2>1, <2>2, <3>1 DEF AtHead
  <2>5. ~unclean => ImagesRight'
    BY <2>1, ImagesStay DEF FilesInv
  <2> QED BY <2>1, <2>3, <2>4, <2>5 DEF FilesInv, InPlace
<1>10. CASE Restart
  <2>1. /\ UNCHANGED <<log, files, edited>> /\ head'[Display] = LoadHead /\ ~(Moving(Display)')
        /\ \A r \in Runtimes : phase'[r] \in {"closed", "over"}
        /\ unclean' = (unclean \/ (\E s \in Stores : ~Free(s)) \/ (\E r \in Runtimes : phase[r] = "wrote"))
    BY <1>0, <1>10 DEF Restart, disk, Moving, Idle
  <2>2. \A s \in Stores : Current(s)' => s = Display
    BY <1>0, <2>1 DEF Current, Active
  <2>3. CASE unclean'
    BY <2>3 DEF FilesInv
  <2>4. CASE ~unclean'
    <3>1. UNCHANGED unclean /\ Settled
      BY <2>1, <2>4 DEF TypeOK, HistoryOK, Settled
    <3>2. ~unclean => \A p \in Paths \ edited : files[p] = FileAt(LoadHead, p)
      BY <3>1, FilesOfInv
    <3> QED BY <1>0, <2>1, <2>2, <3>1, <3>2, FilesOpened
  <2> QED BY <2>3, <2>4
<1> QED BY <1>4, <1>5, <1>6, <1>7, <1>8, <1>9, <1>10 DEF UserStep

(* At first there are no files and no events.                              *)
LEMMA FilesInit == Init => FilesInv /\ StartOnChain
<1> SUFFICES ASSUME Init PROVE FilesInv /\ StartOnChain
  OBVIOUS
<1>1. TypeOK
  BY TypeInit
<1>2. Len(log) = 0 /\ Events = {} /\ Root \in Places
  BY DEF Init, Events, Places, Root
<1>3. Chain[Root] = {}
  BY <1>1, ChainUpwards DEF Upwards, TypeOK
<1>4. \A p \in Paths : Content[Root][p] = Absent
  BY <1>1, <1>2, <1>3, ContentRuleHolds DEF ContentRule, TypeOK
<1>5. \A s \in Stores : AtHead(s) /\ ~Moving(s) /\ ~WroteBy(s)
  BY <1>4 DEF Init, AtHead, Blank, Moving, Idle, WroteBy
<1>6. ImagesRight
  BY <1>2 DEF ImagesRight, FileEvents
<1> QED BY <1>5, <1>6 DEF FilesInv, InPlace, StartOnChain, Init

(* What holds of the files until two actors cross or a HEAD is not written. *)
Together == StartOnChain /\ FilesInv
TogetherInv == SessionInv /\ (~crossed /\ ~headLost => Together)

(* Every step keeps files and conversation together.                       *)
LEMMA FilesNext ==
  ASSUME TogetherInv, [Next]_vars
  PROVE  TogetherInv'
<1>1. SessionInv /\ SessionInv' /\ TypeOK /\ TypeOK' /\ NothingToRestore
  BY SessionInvStep DEF TogetherInv, SessionInv
<1>2. SUFFICES ASSUME ~crossed', ~headLost' PROVE Together'
  BY <1>1 DEF TogetherInv
<1>3. ~crossed /\ ~headLost
  <2>1. (crossed => crossed') /\ (headLost => headLost')
    BY <1>1, HistoryLasts
  <2> QED BY <1>2, <2>1
<1>4. OneActor /\ HeadInv /\ StartOnChain /\ FilesInv
  BY <1>1, <1>3 DEF TogetherInv, SessionInv, Alone, Together
<1>5. ASSUME NEW s \in Stores, StoreStep(s) PROVE Together'
  BY <1>1, <1>2, <1>4, <1>5, StartStore, FilesStore DEF Together
<1>6. ASSUME NEW r \in Runtimes, TaskStep(r) PROVE Together'
  BY <1>1, <1>2, <1>3, <1>4, <1>6, StartTask, FilesTask DEF Together
<1>7. CASE UserStep
  BY <1>1, <1>2, <1>3, <1>4, <1>7, StartUser, FilesUser DEF Together
<1>8. CASE UNCHANGED vars
  <2>1. UNCHANGED <<log, files, head, work, phase, start, change, edited, unclean>>
    BY <1>8 DEF vars, disk, memory, task, trace
  <2>2. StartOnChain'
    BY <1>1, <1>4, <2>1, StartKept
  <2>3. FilesInv'
    BY <1>4, <2>1, FilesKept DEF Current, Active, WroteBy
  <2> QED BY <2>2, <2>3 DEF Together
<1> QED BY <1>5, <1>6, <1>7, <1>8 DEF Next

(* Files and conversation move together: whenever nobody is half way       *)
(* through an operation, the workspace holds what the conversation on disk  *)
(* says, whatever was rolled back, rewound, forked, switched or failed, in  *)
(* every history in which no two actors crossed and HEAD could be written.  *)
THEOREM FilesMatchConversationAlways == Spec => []FilesMatchConversation
<1>1. Init => TypeOK /\ NothingToRestore /\ OneActor /\ HeadInv /\ Together
  BY TypeInit, ActorInit, HeadInit, FilesInit DEF Together, Init, NothingToRestore, Idle
<1>2. Init => TogetherInv
  BY <1>1 DEF TogetherInv, SessionInv, Alone
<1>3. TogetherInv /\ [Next]_vars => TogetherInv'
  BY FilesNext
<1>4. TogetherInv => FilesMatchConversation
  BY FilesOfInv DEF TogetherInv, SessionInv, Alone, Together, FilesMatchConversation
<1> QED BY <1>2, <1>3, <1>4, PTL DEF Spec

=============================================================================
