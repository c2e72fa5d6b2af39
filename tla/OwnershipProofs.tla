------------------------------ MODULE OwnershipProofs -----------------------------
(***************************************************************************)
(* Proofs about who owns what: terminals and their places, sessions of MCP *)
(* servers, the managed browser, and projects with their sessions of the   *)
(* conversation.  Each part is proved about by itself and the result       *)
(* carried over to the composition, whose steps are steps of one part and  *)
(* leave the others alone.                                                 *)
(***************************************************************************)
EXTENDS Services, FiniteSetTheorems, SequenceTheorems, TLAPS

-----------------------------------------------------------------------------
(* Terminals, for any number of shells and any limit                       *)

(* Shells whose start has a place and is not over.                         *)
Pending == {s \in Shells : phase[s] \in {"reserved", "started"}}

(* Every place that is reserved belongs to a start under way; and while a  *)
(* process lives, its session counts as running once it is listed, so that *)
(* it is never pruned.                                                     *)
PlacesInv == starting = Cardinality(Pending)
ReachInv ==
  /\ \A s \in Shells : process[s] = "alive" => phase[s] \in {"started", "listed"} /\ running[s]
  /\ \A s \in Shells : phase[s] \in {"started", "listed"} /\ ~running[s] => process[s] = "dead"
  /\ \A s \in Shells : phase[s] \in {"none", "reserved"} => process[s] = "none"
  /\ \A s \in Shells : running[s] => phase[s] \in {"started", "listed"}

PhaseTypes ==
  /\ phase \in [Shells -> {"none", "reserved", "started", "listed", "gone"}]
  /\ process \in [Shells -> {"none", "alive", "dead"}]
  /\ running \in [Shells -> BOOLEAN] /\ stops \in SUBSET Shells

TerminalsInv == PhaseTypes /\ PlacesInv /\ ReachInv /\ Cardinality(Term!Listed) + starting <= MaxSessions

-----------------------------------------------------------------------------
(* Counting                                                                *)

(* The size a part speaks of is that of the library.                       *)
LEMMA SameCount == \A some : Term!Cardinality(some) = Cardinality(some)
BY DEF Term!Cardinality, Cardinality

(* Sets of shells are finite, and how their sizes change by one shell.     *)
LEMMA ShellCount ==
  ASSUME NEW some \in SUBSET Shells
  PROVE  /\ IsFiniteSet(some) /\ Cardinality(some) \in Nat
         /\ \A s \in Shells \ some : Cardinality(some \cup {s}) = Cardinality(some) + 1
         /\ \A s \in some : Cardinality(some \ {s}) = Cardinality(some) - 1 /\ Cardinality(some) >= 1
<1>1. IsFiniteSet(some)
  BY FS_Subset, ShellsAssumption
<1>2. Cardinality(some) \in Nat
  BY <1>1, FS_CardinalityType
<1>3. \A s : Cardinality(some \cup {s}) = IF s \in some THEN Cardinality(some) ELSE Cardinality(some) + 1
  BY <1>1, FS_AddElement
<1>4. \A s : Cardinality(some \ {s}) = IF s \in some THEN Cardinality(some) - 1 ELSE Cardinality(some)
  BY <1>1, FS_RemoveElement
<1>5. \A s \in some : Cardinality(some) >= 1
  <2> TAKE s \in some
  <2>1. IsFiniteSet(some \ {s})
    BY <1>1, FS_Subset
  <2>2. Cardinality(some \ {s}) \in Nat
    BY <2>1, FS_CardinalityType
  <2> QED BY <1>2, <1>4, <2>2
<1> QED BY <1>1, <1>2, <1>3, <1>4, <1>5

(* A part of some shells is no larger.                                     *)
LEMMA SubsetCount ==
  ASSUME NEW some \in SUBSET Shells, NEW sub \in SUBSET some
  PROVE  Cardinality(sub) <= Cardinality(some)
BY ShellCount, FS_Subset

(* What is pruned has ended.                                               *)
LEMMA PruneFacts ==
  ASSUME TerminalsInv, NEW n, NEW drop \in Term!PrunedTo(n)
  PROVE  /\ drop \in SUBSET Term!Listed /\ drop \in SUBSET Shells
         /\ \A s \in drop : process[s] = "dead" /\ phase[s] = "listed" /\ ~running[s]
BY DEF Term!PrunedTo, Term!Finished, Term!Listed, TerminalsInv, ReachInv

-----------------------------------------------------------------------------
(* The invariant                                                           *)

(* At first nothing is reserved and nothing lives.                         *)
LEMMA TerminalsInit == ASSUME Term!Init PROVE TerminalsInv
<1>1. Pending = {} /\ Term!Listed = {}
  BY DEF Term!Init, Pending, Term!Listed
<1>2. Cardinality({}) = 0
  BY FS_EmptySet
<1> QED BY <1>1, <1>2, ShellsAssumption DEF Term!Init, TerminalsInv, PhaseTypes, PlacesInv, ReachInv

(* A start takes a place.                                                  *)
LEMMA ReserveStep ==
  ASSUME TerminalsInv, NEW s \in Shells, Term!Reserve(s)
  PROVE  TerminalsInv'
<1>1. PICK drop \in Term!PrunedTo(Term!Room) :
        /\ Term!HasPlace(Term!Listed \ drop)
        /\ phase' = [t \in Shells |-> IF t \in drop THEN "gone" ELSE IF t = s THEN "reserved" ELSE phase[t]]
  BY DEF Term!Reserve
<1>2. phase[s] = "none" /\ starting' = starting + 1 /\ UNCHANGED <<process, running, stops>>
  BY DEF Term!Reserve
<1>3. /\ drop \in SUBSET Term!Listed /\ drop \in SUBSET Shells
      /\ \A t \in drop : process[t] = "dead" /\ phase[t] = "listed" /\ ~running[t]
  BY PruneFacts
<1>4. PhaseTypes'
  BY <1>1, <1>2 DEF TerminalsInv, PhaseTypes
<1>5. s \notin Pending /\ Pending' = Pending \cup {s} /\ Term!Listed' = Term!Listed \ drop
  BY <1>1, <1>2, <1>3 DEF Pending, Term!Listed
<1>6. /\ Cardinality(Pending \cup {s}) = Cardinality(Pending) + 1
      /\ Cardinality(Term!Listed \ drop) \in Nat /\ Cardinality(Pending) \in Nat
  <2>1. Pending \in SUBSET Shells /\ Term!Listed \ drop \in SUBSET Shells
    BY DEF Pending, Term!Listed
  <2> QED BY <1>5, <2>1, ShellCount
<1>7. PlacesInv' /\ Cardinality(Term!Listed') + starting' <= MaxSessions
  BY <1>1, <1>2, <1>5, <1>6, ShellsAssumption, SameCount DEF TerminalsInv, PlacesInv, Term!HasPlace
<1>8. ReachInv'
  BY <1>1, <1>2, <1>3 DEF TerminalsInv, ReachInv
<1> QED BY <1>4, <1>7, <1>8 DEF TerminalsInv, Term!Listed

(* A start that is refused leaves what was pruned gone.                    *)
LEMMA RefuseStep ==
  ASSUME TerminalsInv, NEW s \in Shells, Term!Refuse(s)
  PROVE  TerminalsInv'
<1>1. PICK drop \in Term!PrunedTo(Term!Room) :
        phase' = [t \in Shells |-> IF t \in drop \cup {s} THEN "gone" ELSE phase[t]]
  BY DEF Term!Refuse
<1>2. phase[s] = "none" /\ UNCHANGED <<process, running, starting, stops>>
  BY DEF Term!Refuse
<1>3. /\ drop \in SUBSET Term!Listed /\ drop \in SUBSET Shells
      /\ \A t \in drop : process[t] = "dead" /\ phase[t] = "listed" /\ ~running[t]
  BY PruneFacts
<1>4. PhaseTypes'
  BY <1>1, <1>2 DEF TerminalsInv, PhaseTypes
<1>5. Pending' = Pending /\ Term!Listed' = Term!Listed \ drop
  BY <1>1, <1>2, <1>3 DEF Pending, Term!Listed
<1>6. Cardinality(Term!Listed \ drop) <= Cardinality(Term!Listed) /\ Cardinality(Term!Listed \ drop) \in Nat
  <2>1. Term!Listed \in SUBSET Shells /\ Term!Listed \ drop \in SUBSET Term!Listed /\ Term!Listed \ drop \in SUBSET Shells
    BY DEF Term!Listed
  <2> QED BY <2>1, ShellCount, SubsetCount
<1>7. PlacesInv' /\ Cardinality(Term!Listed') + starting' <= MaxSessions
  <2>1. Cardinality(Term!Listed) \in Nat /\ starting \in Nat
    BY ShellCount DEF Term!Listed, Pending, TerminalsInv, PlacesInv
  <2> QED BY <1>2, <1>5, <1>6, <2>1, ShellsAssumption DEF TerminalsInv, PlacesInv
<1>8. ReachInv'
  BY <1>1, <1>2, <1>3 DEF TerminalsInv, ReachInv
<1> QED BY <1>4, <1>7, <1>8 DEF TerminalsInv, Term!Listed

(* A start that fails gives its place back.                                *)
LEMMA StartFailsStep ==
  ASSUME TerminalsInv, NEW s \in Shells, Term!StartFails(s)
  PROVE  TerminalsInv'
<1>1. /\ phase[s] = "reserved" /\ phase' = [phase EXCEPT ![s] = "gone"]
      /\ starting' = starting - 1 /\ UNCHANGED <<process, running, stops>>
  BY DEF Term!StartFails
<1>2. PhaseTypes'
  BY <1>1 DEF TerminalsInv, PhaseTypes
<1>3. s \in Pending /\ Pending' = Pending \ {s} /\ Term!Listed' = Term!Listed
  BY <1>1 DEF Pending, Term!Listed, TerminalsInv, PhaseTypes
<1>4. /\ Cardinality(Pending \ {s}) = Cardinality(Pending) - 1 /\ Cardinality(Pending) \in Nat
      /\ Cardinality(Term!Listed) \in Nat
  BY <1>3, ShellCount DEF Pending, Term!Listed
<1>5. PlacesInv' /\ Cardinality(Term!Listed') + starting' <= MaxSessions
  BY <1>1, <1>3, <1>4, ShellsAssumption DEF TerminalsInv, PlacesInv
<1>6. ReachInv'
  BY <1>1 DEF TerminalsInv, PhaseTypes, ReachInv
<1> QED BY <1>2, <1>5, <1>6 DEF TerminalsInv, Term!Listed

(* A start that has a place gives it to the session it lists.              *)
LEMMA StartProcessStep ==
  ASSUME TerminalsInv, NEW s \in Shells, Term!StartProcess(s)
  PROVE  TerminalsInv'
<1>1. /\ phase[s] = "reserved" /\ phase' = [phase EXCEPT ![s] = "started"]
      /\ process' = [process EXCEPT ![s] = "alive"] /\ running' = [running EXCEPT ![s] = TRUE]
      /\ UNCHANGED <<starting, stops>>
  BY DEF Term!StartProcess
<1>2. PhaseTypes'
  BY <1>1 DEF TerminalsInv, PhaseTypes
<1>3. Pending' = Pending /\ Term!Listed' = Term!Listed
  BY <1>1 DEF Pending, Term!Listed, TerminalsInv, PhaseTypes
<1>4. PlacesInv' /\ Cardinality(Term!Listed') + starting' <= MaxSessions
  BY <1>1, <1>3 DEF TerminalsInv, PlacesInv
<1>5. ReachInv'
  <2> SUFFICES ASSUME NEW t \in Shells
               PROVE  /\ process'[t] = "alive" => phase'[t] \in {"started", "listed"} /\ running'[t]
                      /\ phase'[t] \in {"started", "listed"} /\ ~running'[t] => process'[t] = "dead"
                      /\ phase'[t] \in {"none", "reserved"} => process'[t] = "none"
                      /\ running'[t] => phase'[t] \in {"started", "listed"}
    BY DEF ReachInv
  <2>1. CASE t = s
    BY <1>1, <2>1 DEF TerminalsInv, PhaseTypes
  <2>2. CASE t # s
    BY <1>1, <2>2 DEF TerminalsInv, PhaseTypes, ReachInv
  <2> QED BY <2>1, <2>2
<1> QED BY <1>2, <1>4, <1>5 DEF TerminalsInv, Term!Listed

(* The place of a start becomes the place of its session.                  *)
LEMMA ListStep ==
  ASSUME TerminalsInv, NEW s \in Shells, Term!List(s)
  PROVE  TerminalsInv'
<1>1. PICK drop \in Term!PrunedTo(MaxSessions - 1) :
        phase' = [t \in Shells |-> IF t \in drop THEN "gone" ELSE IF t = s THEN "listed" ELSE phase[t]]
  BY DEF Term!List
<1>2. phase[s] = "started" /\ starting' = starting - 1 /\ UNCHANGED <<process, running, stops>>
  BY DEF Term!List
<1>3. /\ drop \in SUBSET Term!Listed /\ drop \in SUBSET Shells
      /\ \A t \in drop : process[t] = "dead" /\ phase[t] = "listed" /\ ~running[t]
  BY PruneFacts
<1>4. PhaseTypes'
  BY <1>1, <1>2 DEF TerminalsInv, PhaseTypes
<1>5. /\ s \in Pending /\ Pending' = Pending \ {s}
      /\ s \notin Term!Listed /\ Term!Listed' = (Term!Listed \ drop) \cup {s}
  BY <1>1, <1>2, <1>3 DEF Pending, Term!Listed
<1>6. /\ Cardinality(Pending \ {s}) = Cardinality(Pending) - 1 /\ Cardinality(Pending) \in Nat
      /\ Cardinality((Term!Listed \ drop) \cup {s}) = Cardinality(Term!Listed \ drop) + 1
      /\ Cardinality(Term!Listed \ drop) <= Cardinality(Term!Listed)
      /\ Cardinality(Term!Listed \ drop) \in Nat /\ Cardinality(Term!Listed) \in Nat
  <2>1. /\ Pending \in SUBSET Shells /\ Term!Listed \in SUBSET Shells
        /\ Term!Listed \ drop \in SUBSET Shells /\ Term!Listed \ drop \in SUBSET Term!Listed
        /\ s \in Shells \ (Term!Listed \ drop)
    BY <1>5 DEF Pending, Term!Listed
  <2>2. Cardinality(Pending \ {s}) = Cardinality(Pending) - 1 /\ Cardinality(Pending) \in Nat
    BY <1>5, <2>1, ShellCount
  <2>3. /\ Cardinality((Term!Listed \ drop) \cup {s}) = Cardinality(Term!Listed \ drop) + 1
        /\ Cardinality(Term!Listed \ drop) \in Nat /\ Cardinality(Term!Listed) \in Nat
    BY <2>1, ShellCount
  <2>4. Cardinality(Term!Listed \ drop) <= Cardinality(Term!Listed)
    BY <2>1, SubsetCount
  <2> QED BY <2>2, <2>3, <2>4
<1>7. PlacesInv' /\ Cardinality(Term!Listed') + starting' <= MaxSessions
  BY <1>2, <1>5, <1>6, ShellsAssumption DEF TerminalsInv, PlacesInv
<1>8. ReachInv'
  BY <1>1, <1>2, <1>3 DEF TerminalsInv, ReachInv
<1> QED BY <1>4, <1>7, <1>8 DEF TerminalsInv, Term!Listed

(* Ends of processes and stops leave the places alone.                     *)
LEMMA ShellStep ==
  ASSUME TerminalsInv, NEW s \in Shells, NEW found \in SUBSET Shells,
         Term!Exits(s) \/ Term!Wait(s) \/ Term!StopOne(s) \/ Term!Stop(found) \/ UNCHANGED Term!vars
  PROVE  TerminalsInv'
<1>1. UNCHANGED <<phase, starting>>
  BY DEF Term!Exits, Term!Wait, Term!StopOne, Term!Stop, Term!vars
<1>2. Pending' = Pending /\ Term!Listed' = Term!Listed
  BY <1>1 DEF Pending, Term!Listed
<1>3. PlacesInv' /\ Cardinality(Term!Listed') + starting' <= MaxSessions
  BY <1>1, <1>2 DEF TerminalsInv, PlacesInv
<1>4. CASE Term!Exits(s)
  BY <1>1, <1>3, <1>4 DEF Term!Exits, TerminalsInv, PhaseTypes, ReachInv, Term!Listed
<1>5. CASE Term!Wait(s)
  BY <1>1, <1>3, <1>5 DEF Term!Wait, TerminalsInv, PhaseTypes, ReachInv, Term!Listed
<1>6. CASE Term!StopOne(s)
  <2>1. /\ UNCHANGED running /\ stops' \in SUBSET Shells
        /\ \/ process' = process
           \/ running[s] /\ process' = [process EXCEPT ![s] = "dead"]
    <3>1. CASE running[s]
      BY <1>6, <3>1 DEF Term!StopOne, TerminalsInv, PhaseTypes
    <3>2. CASE ~running[s]
      <4>1. [process EXCEPT ![s] = process[s]] = process
        BY DEF TerminalsInv, PhaseTypes
      <4> QED BY <1>6, <3>2, <4>1 DEF Term!StopOne, TerminalsInv, PhaseTypes
    <3> QED BY <3>1, <3>2
  <2>2. PhaseTypes'
    BY <1>1, <2>1 DEF TerminalsInv, PhaseTypes
  <2>3. ReachInv'
    BY <1>1, <2>1 DEF TerminalsInv, PhaseTypes, ReachInv
  <2> QED BY <1>3, <2>2, <2>3 DEF TerminalsInv, Term!Listed
<1>7. CASE Term!Stop(found)
  BY <1>1, <1>3, <1>7 DEF Term!Stop, TerminalsInv, PhaseTypes, ReachInv, Term!Listed
<1>8. CASE UNCHANGED Term!vars
  BY <1>3, <1>8 DEF Term!vars, TerminalsInv, PhaseTypes, ReachInv, Term!Listed
<1> QED BY <1>4, <1>5, <1>6, <1>7, <1>8

(* Every other step keeps the places and what can be reached.              *)
LEMMA TerminalsStep ==
  ASSUME TerminalsInv, [Term!Next]_(Term!vars)
  PROVE  TerminalsInv'
<1>1. CASE \E s \in Shells : \/ Term!Reserve(s) \/ Term!Refuse(s) \/ Term!StartFails(s) \/ Term!StartProcess(s) \/ Term!List(s)
  BY <1>1, ReserveStep, RefuseStep, StartFailsStep, StartProcessStep, ListStep
<1>2. CASE \E s \in Shells : Term!Exits(s) \/ Term!Wait(s) \/ Term!StopOne(s)
  BY <1>2, ShellStep
<1>3. CASE \E found \in SUBSET Shells : Term!Stop(found)
  <2>1. PICK found \in SUBSET Shells : Term!Stop(found)
    BY <1>3
  <2>2. PICK s \in found : TRUE
    BY <2>1 DEF Term!Stop
  <2> QED BY <2>1, <2>2, ShellStep
<1>4. CASE UNCHANGED Term!vars
  <2>1. UNCHANGED <<phase, process, running, starting, stops>>
    BY <1>4 DEF Term!vars
  <2>2. Pending' = Pending /\ Term!Listed' = Term!Listed
    BY <2>1 DEF Pending, Term!Listed
  <2>3. PhaseTypes' /\ ReachInv'
    BY <2>1 DEF TerminalsInv, PhaseTypes, ReachInv
  <2> QED BY <2>1, <2>2, <2>3 DEF TerminalsInv, PlacesInv
<1> QED BY <1>1, <1>2, <1>3, <1>4 DEF Term!Next

(* A step of the program is a step of the terminals or none of theirs.     *)
LEMMA TerminalsMapsStep == [Next]_vars => [Term!Next]_(Term!vars)
<1>1. ASSUME UNCHANGED terminals PROVE UNCHANGED Term!vars
  BY <1>1 DEF terminals, Term!vars
<1> QED BY <1>1 DEF Next, vars

(* Places and processes are right together.                                *)
LEMMA TerminalsInvariant == Spec => []TerminalsInv
<1>1. Init => TerminalsInv
  BY TerminalsInit DEF Init
<1>2. TerminalsInv /\ [Next]_vars => TerminalsInv'
  BY TerminalsStep, TerminalsMapsStep
<1> QED BY <1>1, <1>2, PTL DEF Spec

(* There are never more terminals than allowed, however starts, failures   *)
(* and pruning overlap, and a process that lives is in reach of Stop or of *)
(* its start (reserveStart, Start, pruneToLocked and wait of manager.go).  *)
THEOREM TerminalsBoundedAlways == Spec => []TerminalsBounded
<1>1. TerminalsInv => TerminalsBounded
  BY SameCount DEF TerminalsInv, ReachInv, Term!Listed, TerminalsBounded, Term!TerminalsBounded
<1> QED BY <1>1, TerminalsInvariant, PTL

(* The types of terminals: there are no more places than sessions.         *)
LEMMA TerminalsTypes == Spec => []Term!TypeOK
<1>1. ASSUME TerminalsInv PROVE Term!TypeOK
  <2>1. starting \in Nat
    BY <1>1, ShellCount DEF TerminalsInv, PlacesInv, Pending
  <2>2. Cardinality(Term!Listed) \in Nat
    BY ShellCount DEF Term!Listed
  <2>3. starting \in 0..MaxSessions
    BY <1>1, <2>1, <2>2, ShellsAssumption DEF TerminalsInv
  <2> QED BY <1>1, <2>3 DEF TerminalsInv, PhaseTypes, Term!TypeOK
<1> QED BY <1>1, TerminalsInvariant, PTL

-----------------------------------------------------------------------------
(* MCP sessions, for any number of connections and of calls of configure   *)

Connections == [session : {"none", "open", "ended"}, known : BOOLEAN,
                state : {"none", "ready", "error"}, watched : BOOLEAN]
Calls == [pc : {"idle", "connect", "fetch", "swap", "close"},
          previous : Managed \cup {None}, next : Managed \cup {None}]

(* The call that is not idle has the activity, and Close waits for it;     *)
(* until it swaps, what it found listed is still listed; and a session     *)
(* that is open is known to whoever closes its server.                     *)
ConfigureInv ==
  /\ \A c \in Configures : call[c].pc # "idle" => activity = c
  /\ \A c \in Configures : call[c].pc \in {"connect", "fetch", "swap"} =>
                             call[c].next \in Managed /\ call[c].previous = server
  /\ closing \in Managed => activity = None
  /\ \A m \in Managed : managed[m].session = "open" => managed[m].known

McpInv == Mcp!TypeOK /\ ConfigureInv /\ Mcp!SessionsOwned

-----------------------------------------------------------------------------
(* Types                                                                   *)

(* The records an action puts in the place of one connection.              *)
LEMMA ConnectionType ==
  ASSUME NEW r \in Connections, NEW b \in BOOLEAN
  PROVE  /\ [r EXCEPT !.state = "ready"] \in Connections
         /\ [r EXCEPT !.session = "ended"] \in Connections
         /\ [r EXCEPT !.watched = b] \in Connections
BY DEF Connections

(* What the goroutine that waits for a session leaves of its connection.   *)
LEMMA WatchedType ==
  ASSUME NEW r \in Connections, NEW b \in BOOLEAN, NEW e \in {"none", "ready", "error"}
  PROVE  [r EXCEPT !.watched = FALSE, !.known = b, !.state = e] \in Connections
BY DEF Connections

(* The states a new server goes through.                                   *)
LEMMA UnmadeType ==
  /\ Mcp!Unmade \in Connections
  /\ [Mcp!Unmade EXCEPT !.session = "open", !.known = TRUE] \in Connections
  /\ [Mcp!Unmade EXCEPT !.state = "error"] \in Connections
  /\ [Mcp!Unmade EXCEPT !.session = "ended", !.state = "error"] \in Connections
BY DEF Connections, Mcp!Unmade

(* The states a call of configure goes through.                            *)
LEMMA CallType ==
  ASSUME NEW r \in Calls, NEW p \in Managed \cup {None}, NEW n \in Managed \cup {None}
  PROVE  /\ [r EXCEPT !.pc = "fetch"] \in Calls /\ [r EXCEPT !.pc = "swap"] \in Calls
         /\ [r EXCEPT !.pc = "close"] \in Calls /\ Mcp!IdleCall \in Calls
         /\ [pc |-> "connect", previous |-> p, next |-> n] \in Calls
BY DEF Calls, Mcp!IdleCall

(* Closing a server keeps types and every other connection, and the server *)
(* has no open session afterwards.                                         *)
LEMMA ClosedFacts ==
  ASSUME Mcp!TypeOK, ConfigureInv, NEW s \in Managed \cup {None}, Mcp!Closed(s)
  PROVE  /\ managed' \in [Managed -> Connections]
         /\ \A m \in Managed : managed'[m].session = "open" =>
              m # s /\ managed[m].session = "open" /\ managed'[m].known
<1>0. managed \in [Managed -> Connections]
  BY DEF Mcp!TypeOK, Connections
<1>1. CASE UNCHANGED managed /\ ~(s # None /\ managed[s].known)
  <2> SUFFICES ASSUME NEW m \in Managed, managed[m].session = "open" PROVE m # s /\ managed[m].known
    BY <1>0, <1>1
  <2>1. managed[m].known
    BY DEF ConfigureInv
  <2> QED BY <1>1, <2>1, ManagedAssumption
<1>2. CASE s \in Managed /\ Mcp!Field(s, [managed[s] EXCEPT !.session = "ended"])
  <2>1. [managed[s] EXCEPT !.session = "ended"] \in Connections
    BY <1>0, <1>2, ConnectionType
  <2>2. [managed[s] EXCEPT !.session = "ended"].session = "ended"
    BY <1>0, <1>2 DEF Connections
  <2> QED BY <1>0, <1>2, <2>1, <2>2 DEF Mcp!Field, ConfigureInv
<1> QED BY <1>1, <1>2 DEF Mcp!Closed

-----------------------------------------------------------------------------
(* The invariant                                                           *)

(* At first there is no server and no call.                                *)
LEMMA McpInit == Mcp!Init => McpInv
<1> SUFFICES ASSUME Mcp!Init PROVE McpInv
  OBVIOUS
<1>1. Mcp!Unmade \in Connections /\ Mcp!IdleCall \in Calls
  BY DEF Mcp!Unmade, Connections, Mcp!IdleCall, Calls
<1>2. Mcp!TypeOK
  BY <1>1 DEF Mcp!Init, Mcp!TypeOK, Connections, Calls
<1>3. ConfigureInv /\ Mcp!SessionsOwned
  BY DEF Mcp!Init, ConfigureInv, Mcp!SessionsOwned, Mcp!Unmade, Mcp!IdleCall
<1> QED BY <1>2, <1>3 DEF McpInv

(* configure                                                               *)
LEMMA ConfigureStep ==
  ASSUME McpInv, NEW c \in Configures, NEW forced \in BOOLEAN, Mcp!Configure(c, forced)
  PROVE  McpInv'
<1> USE DEF McpInv
<1>0. managed \in [Managed -> Connections] /\ call \in [Configures -> Calls]
  BY DEF Mcp!TypeOK, Connections, Calls
<1>1. /\ UNCHANGED <<server, managed, fetching, closing>> /\ settings' = FALSE
      /\ activity = None /\ closing \notin Managed /\ call[c].pc = "idle"
  BY DEF Mcp!Configure, Mcp!MayConfigure
<1>2. CASE UNCHANGED <<call, activity>>
  <2>1. Mcp!TypeOK'
    BY <1>1, <1>2 DEF Mcp!TypeOK
  <2>2. ConfigureInv' /\ Mcp!SessionsOwned'
    BY <1>1, <1>2 DEF ConfigureInv, Mcp!SessionsOwned
  <2> QED BY <2>1, <2>2
<1>3. CASE /\ activity' = c
           /\ \E m \in Managed : call' = [call EXCEPT ![c] = [pc |-> "connect", previous |-> server, next |-> m]]
  <2>1. PICK m \in Managed : call' = [call EXCEPT ![c] = [pc |-> "connect", previous |-> server, next |-> m]]
    BY <1>3
  <2>2. \A d \in Configures : call[d].pc = "idle"
    BY <1>1, ManagedAssumption DEF ConfigureInv
  <2>3. call' \in [Configures -> Calls]
    <3>1. [pc |-> "connect", previous |-> server, next |-> m] \in Calls
      BY CallType, <1>0 DEF Mcp!TypeOK
    <3> QED BY <1>0, <2>1, <3>1
  <2>4. Mcp!TypeOK'
    BY <1>1, <1>3, <2>3, <1>0 DEF Mcp!TypeOK, Connections, Calls
  <2>5. ConfigureInv'
    BY <1>0, <1>1, <1>3, <2>1, <2>2 DEF ConfigureInv
  <2>6. Mcp!SessionsOwned'
    BY <1>0, <1>1, <2>1, <2>2 DEF Mcp!SessionsOwned
  <2> QED BY <2>4, <2>5, <2>6
<1> QED BY <1>2, <1>3 DEF Mcp!Configure

(* The connection of the call is known to the call.                        *)
LEMMA ConnectStep ==
  ASSUME McpInv, NEW c \in Configures, Mcp!Connect(c)
  PROVE  McpInv'
<1> USE DEF McpInv
<1> DEFINE m == call[c].next
<1>0. managed \in [Managed -> Connections] /\ call \in [Configures -> Calls]
  BY DEF Mcp!TypeOK, Connections, Calls
<1>1. /\ UNCHANGED <<settings, server, fetching, closing, activity>>
      /\ call[c].pc = "connect" /\ m \in Managed /\ activity = c
  BY DEF Mcp!Connect, ConfigureInv
<1>2. \E r \in Connections, p \in {"fetch", "swap"} :
        /\ Mcp!Field(m, r) /\ call' = [call EXCEPT ![c].pc = p]
        /\ r.session = "open" => r.known /\ p = "fetch"
  <2>1. CASE /\ Mcp!Field(m, [Mcp!Unmade EXCEPT !.session = "open", !.known = TRUE])
             /\ call' = [call EXCEPT ![c].pc = "fetch"]
    BY <2>1, UnmadeType DEF Mcp!Unmade
  <2>2. CASE /\ Mcp!Field(m, [Mcp!Unmade EXCEPT !.state = "error"])
             /\ call' = [call EXCEPT ![c].pc = "swap"]
    BY <2>2, UnmadeType DEF Mcp!Unmade
  <2> QED BY <2>1, <2>2 DEF Mcp!Connect
<1>3. PICK r \in Connections, p \in {"fetch", "swap"} :
        /\ Mcp!Field(m, r) /\ call' = [call EXCEPT ![c].pc = p]
        /\ r.session = "open" => r.known /\ p = "fetch"
  BY <1>2
<1>4. managed' \in [Managed -> Connections] /\ call' \in [Configures -> Calls]
  <2>1. [call[c] EXCEPT !.pc = p] \in Calls
    BY <1>0 DEF Calls
  <2> QED BY <1>0, <1>1, <1>3, <2>1 DEF Mcp!Field
<1>5. Mcp!TypeOK'
  BY <1>1, <1>4 DEF Mcp!TypeOK, Connections, Calls
<1>6. /\ call'[c].pc = p /\ call'[c].next = m /\ call'[c].previous = server
      /\ \A d \in Configures : d # c => call'[d] = call[d] /\ call[d].pc = "idle"
  BY <1>0, <1>1, <1>3 DEF ConfigureInv, Calls
<1>7. managed'[m] = r /\ \A n \in Managed : n # m => managed'[n] = managed[n]
  BY <1>0, <1>1, <1>3 DEF Mcp!Field
<1>8. ConfigureInv'
  BY <1>1, <1>3, <1>6, <1>7 DEF ConfigureInv
<1>9. Mcp!SessionsOwned'
  <2> SUFFICES ASSUME NEW n \in Managed, managed'[n].session = "open"
               PROVE  \/ server' = n \/ closing' = n
                      \/ \E d \in Configures :
                           \/ call'[d].next = n /\ call'[d].pc \in {"fetch", "swap"}
                           \/ call'[d].previous = n /\ call'[d].pc = "close"
    BY DEF Mcp!SessionsOwned
  <2>1. CASE n = m
    BY <1>3, <1>6, <1>7, <2>1
  <2>2. CASE n # m
    BY <1>1, <1>6, <1>7, <2>2 DEF Mcp!SessionsOwned
  <2> QED BY <2>1, <2>2
<1> QED BY <1>5, <1>8, <1>9

(* A server whose tools were fetched is swapped in or closed by the call.  *)
LEMMA FetchStep ==
  ASSUME McpInv, NEW c \in Configures, Mcp!Fetch(c)
  PROVE  McpInv'
<1> USE DEF McpInv
<1> DEFINE m == call[c].next
<1>0. managed \in [Managed -> Connections] /\ call \in [Configures -> Calls]
  BY DEF Mcp!TypeOK, Connections, Calls
<1>1. /\ UNCHANGED <<settings, server, fetching, closing, activity>>
      /\ call[c].pc = "fetch" /\ m \in Managed /\ activity = c
      /\ call' = [call EXCEPT ![c].pc = "swap"]
  BY DEF Mcp!Fetch, ConfigureInv
<1>2. \E r \in Connections : Mcp!Field(m, r) /\ (r.session = "open" => r.known)
  <2>1. CASE managed[m].session = "open" /\ Mcp!Field(m, [managed[m] EXCEPT !.state = "ready"])
    <3>1. /\ [managed[m] EXCEPT !.state = "ready"] \in Connections
          /\ [managed[m] EXCEPT !.state = "ready"].known = managed[m].known
      BY <1>0, <1>1 DEF Connections
    <3>2. managed[m].known
      BY <1>1, <2>1 DEF ConfigureInv
    <3> QED BY <2>1, <3>1, <3>2
  <2>2. CASE Mcp!Field(m, [Mcp!Unmade EXCEPT !.session = "ended", !.state = "error"])
    BY <2>2, UnmadeType DEF Mcp!Unmade
  <2> QED BY <2>1, <2>2 DEF Mcp!Fetch
<1>3. PICK r \in Connections : Mcp!Field(m, r) /\ (r.session = "open" => r.known)
  BY <1>2
<1>4. managed' \in [Managed -> Connections] /\ call' \in [Configures -> Calls]
  <2>1. [call[c] EXCEPT !.pc = "swap"] \in Calls
    BY <1>0 DEF Calls
  <2> QED BY <1>0, <1>1, <1>3, <2>1 DEF Mcp!Field
<1>5. Mcp!TypeOK'
  BY <1>1, <1>4 DEF Mcp!TypeOK, Connections, Calls
<1>6. /\ call'[c].pc = "swap" /\ call'[c].next = m /\ call'[c].previous = server
      /\ \A d \in Configures : d # c => call'[d] = call[d] /\ call[d].pc = "idle"
  BY <1>0, <1>1 DEF ConfigureInv, Calls
<1>7. managed'[m] = r /\ \A n \in Managed : n # m => managed'[n] = managed[n]
  BY <1>0, <1>1, <1>3 DEF Mcp!Field
<1>8. ConfigureInv'
  BY <1>1, <1>3, <1>6, <1>7 DEF ConfigureInv
<1>9. Mcp!SessionsOwned'
  <2> SUFFICES ASSUME NEW n \in Managed, managed'[n].session = "open"
               PROVE  \/ server' = n \/ closing' = n
                      \/ \E d \in Configures :
                           \/ call'[d].next = n /\ call'[d].pc \in {"fetch", "swap"}
                           \/ call'[d].previous = n /\ call'[d].pc = "close"
    BY DEF Mcp!SessionsOwned
  <2>1. CASE n = m
    BY <1>6, <2>1
  <2>2. CASE n # m
    BY <1>1, <1>6, <1>7, <2>2 DEF Mcp!SessionsOwned
  <2> QED BY <2>1, <2>2
<1> QED BY <1>5, <1>8, <1>9

(* The server that was listed passes to the call, the new one is listed.   *)
LEMMA SwapStep ==
  ASSUME McpInv, NEW c \in Configures, Mcp!Swap(c)
  PROVE  McpInv'
<1> USE DEF McpInv
<1> DEFINE m == call[c].next
           r == [managed[m] EXCEPT !.watched = managed[m].known]
<1>0. managed \in [Managed -> Connections] /\ call \in [Configures -> Calls]
  BY DEF Mcp!TypeOK, Connections, Calls
<1>1. /\ UNCHANGED <<settings, fetching, closing, activity>> /\ server' = m
      /\ call[c].pc = "swap" /\ m \in Managed /\ activity = c /\ call[c].previous = server
      /\ call' = [call EXCEPT ![c].pc = "close"] /\ Mcp!Field(m, r)
  BY DEF Mcp!Swap, ConfigureInv
<1>2. r \in Connections /\ r.session = managed[m].session /\ (r.known <=> managed[m].known)
  <2>1. managed[m].known \in BOOLEAN
    BY <1>0, <1>1 DEF Connections
  <2>2. r \in Connections
    BY <1>0, <1>1, <2>1, ConnectionType
  <2> QED BY <1>0, <1>1, <2>2 DEF Connections
<1>4. managed' \in [Managed -> Connections] /\ call' \in [Configures -> Calls]
  <2>1. [call[c] EXCEPT !.pc = "close"] \in Calls
    BY <1>0 DEF Calls
  <2> QED BY <1>0, <1>1, <1>2, <2>1 DEF Mcp!Field
<1>5. Mcp!TypeOK'
  BY <1>1, <1>4 DEF Mcp!TypeOK, Connections, Calls
<1>6. /\ call'[c].pc = "close" /\ call'[c].previous = server
      /\ \A d \in Configures : d # c => call'[d] = call[d] /\ call[d].pc = "idle"
  BY <1>0, <1>1 DEF ConfigureInv, Calls
<1>7. managed'[m] = r /\ \A n \in Managed : n # m => managed'[n] = managed[n]
  BY <1>0, <1>1 DEF Mcp!Field
<1>8. ConfigureInv'
  <2>1. \A n \in Managed : managed'[n].session = "open" => managed'[n].known
    <3> SUFFICES ASSUME NEW n \in Managed, managed'[n].session = "open" PROVE managed'[n].known
      OBVIOUS
    <3>1. managed[n].session = "open" => managed[n].known
      BY DEF ConfigureInv
    <3> HIDE DEF r
    <3>2. CASE n = m
      BY <1>2, <1>7, <3>1, <3>2
    <3>3. CASE n # m
      BY <1>7, <3>1, <3>3
    <3> QED BY <3>2, <3>3
  <2>2. /\ \A d \in Configures : call'[d].pc # "idle" => activity' = d
        /\ \A d \in Configures : call'[d].pc \notin {"connect", "fetch", "swap"}
        /\ closing' \in Managed => activity' = None
    BY <1>1, <1>6 DEF ConfigureInv
  <2> QED BY <2>1, <2>2 DEF ConfigureInv
<1>9. Mcp!SessionsOwned'
  <2> HIDE DEF r
  <2> QED BY <1>1, <1>2, <1>6, <1>7 DEF Mcp!SessionsOwned
<1> QED BY <1>5, <1>8, <1>9

(* The replaced server is closed by the call that took its place.          *)
LEMMA CloseReplacedStep ==
  ASSUME McpInv, NEW c \in Configures, Mcp!CloseReplaced(c)
  PROVE  McpInv'
<1> USE DEF McpInv
<1>0. managed \in [Managed -> Connections] /\ call \in [Configures -> Calls]
  BY DEF Mcp!TypeOK, Connections, Calls
<1>1. /\ UNCHANGED <<settings, server, fetching, closing>>
      /\ call[c].pc = "close" /\ activity = c /\ activity' = None
      /\ call' = [call EXCEPT ![c] = Mcp!IdleCall] /\ Mcp!Closed(call[c].previous)
  BY DEF Mcp!CloseReplaced, ConfigureInv
<1>2. /\ managed' \in [Managed -> Connections]
      /\ \A m \in Managed : managed'[m].session = "open" =>
           m # call[c].previous /\ managed[m].session = "open" /\ managed'[m].known
  <2>1. call[c].previous \in Managed \cup {None}
    BY <1>0 DEF Calls
  <2> QED BY <1>1, <2>1, ClosedFacts
<1>3. Mcp!TypeOK'
  <2>1. call' \in [Configures -> Calls]
    BY <1>0, <1>1 DEF Calls, Mcp!IdleCall
  <2> QED BY <1>1, <1>2, <2>1 DEF Mcp!TypeOK, Connections, Calls
<1>4. \A d \in Configures : call'[d].pc = "idle" /\ (d # c => call[d].pc = "idle")
  BY <1>0, <1>1 DEF ConfigureInv, Mcp!IdleCall
<1>5. ConfigureInv'
  BY <1>1, <1>2, <1>4 DEF ConfigureInv
<1>6. Mcp!SessionsOwned'
  BY <1>1, <1>2, <1>4 DEF Mcp!SessionsOwned
<1> QED BY <1>3, <1>5, <1>6

(* The other goroutines open no session and change no call.                *)
LEMMA OneConnectionStep ==
  ASSUME McpInv, NEW m \in Managed, NEW r \in Connections, Mcp!Field(m, r),
         r.session = "open" => managed[m].session = "open" /\ r.known,
         fetching' \in SUBSET Managed, UNCHANGED <<settings, server, call, closing, activity>>
  PROVE  McpInv'
<1>0. managed \in [Managed -> Connections]
  BY DEF McpInv, Mcp!TypeOK, Connections
<1>1. managed'[m] = r /\ \A n \in Managed : n # m => managed'[n] = managed[n]
  BY <1>0 DEF Mcp!Field
<1>2. managed' \in [Managed -> Connections]
  BY <1>0 DEF Mcp!Field
<1>3. Mcp!TypeOK'
  BY <1>2 DEF McpInv, Mcp!TypeOK, Connections
<1>4. ConfigureInv'
  BY <1>1 DEF McpInv, ConfigureInv
<1>5. Mcp!SessionsOwned'
  BY <1>1 DEF McpInv, Mcp!SessionsOwned
<1> QED BY <1>3, <1>4, <1>5 DEF McpInv

(* What a session does by itself gives it no new owner.                    *)
LEMMA ConnectionStep ==
  ASSUME McpInv, NEW m \in Managed,
         \/ Mcp!SessionEnds(m) \/ Mcp!Watch(m) \/ Mcp!ToolsChanged(m) \/ \E b \in BOOLEAN : Mcp!TakeTools(m, b)
  PROVE  McpInv'
<1>0. managed \in [Managed -> Connections] /\ managed[m] \in Connections /\ fetching \in SUBSET Managed
  BY DEF McpInv, Mcp!TypeOK, Connections
<1>1. CASE Mcp!SessionEnds(m)
  <2>1. [managed[m] EXCEPT !.session = "ended"] \in Connections
    BY <1>0, ConnectionType
  <2>2. [managed[m] EXCEPT !.session = "ended"].session = "ended"
    BY <1>0 DEF Connections
  <2> QED BY <1>0, <1>1, <2>1, <2>2, OneConnectionStep DEF Mcp!SessionEnds
<1>2. CASE Mcp!Watch(m)
  <2> DEFINE b == managed[m].known /\ server # m
             e == IF server = m THEN "error" ELSE managed[m].state
             r == [managed[m] EXCEPT !.watched = FALSE, !.known = @ /\ server # m,
                                     !.state = IF server = m THEN "error" ELSE @]
  <2>1. r = [managed[m] EXCEPT !.watched = FALSE, !.known = b, !.state = e]
    BY <1>0 DEF Connections
  <2>2. b \in BOOLEAN
    OBVIOUS
  <2>3. e \in {"none", "ready", "error"}
    BY <1>0 DEF Connections
  <2>4. [managed[m] EXCEPT !.watched = FALSE, !.known = b, !.state = e] \in Connections
    <3> HIDE DEF b, e
    <3> QED BY <1>0, <2>2, <2>3, WatchedType
  <2>5. r.session = managed[m].session
    BY <1>0 DEF Connections
  <2>6. Mcp!Field(m, r) /\ managed[m].session = "ended"
    BY <1>2 DEF Mcp!Watch
  <2>7. r \in Connections /\ r.session # "open"
    BY <2>1, <2>4, <2>5, <2>6
  <2> HIDE DEF r
  <2> QED BY <1>0, <1>2, <2>6, <2>7, OneConnectionStep DEF Mcp!Watch
<1>3. CASE Mcp!ToolsChanged(m)
  <2>1. fetching' \in SUBSET Managed
    BY <1>0, <1>3 DEF Mcp!ToolsChanged
  <2> QED BY <1>3, <2>1 DEF Mcp!ToolsChanged, McpInv, Mcp!TypeOK, ConfigureInv, Mcp!SessionsOwned
<1>4. CASE \E b \in BOOLEAN : Mcp!TakeTools(m, b)
  <2>0. fetching' \in SUBSET Managed /\ UNCHANGED <<settings, server, call, closing, activity>>
    BY <1>0, <1>4 DEF Mcp!TakeTools
  <2>1. CASE UNCHANGED managed
    BY <2>0, <2>1 DEF McpInv, Mcp!TypeOK, ConfigureInv, Mcp!SessionsOwned
  <2>2. CASE Mcp!Field(m, [managed[m] EXCEPT !.state = "ready"])
    <3>1. [managed[m] EXCEPT !.state = "ready"] \in Connections
      BY <1>0, ConnectionType
    <3>2. /\ [managed[m] EXCEPT !.state = "ready"].session = managed[m].session
          /\ [managed[m] EXCEPT !.state = "ready"].known = managed[m].known
      BY <1>0 DEF Connections
    <3>3. managed[m].session = "open" => managed[m].known
      BY DEF McpInv, ConfigureInv
    <3> QED BY <2>0, <2>2, <3>1, <3>2, <3>3, OneConnectionStep
  <2> QED BY <1>4, <2>1, <2>2 DEF Mcp!TakeTools
<1> QED BY <1>1, <1>2, <1>3, <1>4

(* Close waits for the call that configures, so that no call is under way. *)
LEMMA CloseStep ==
  ASSUME McpInv, Mcp!Close
  PROVE  McpInv'
<1>1. Mcp!TypeOK'
  BY DEF McpInv, Mcp!TypeOK, Mcp!Close
<1>2. \A c \in Configures : call[c].pc = "idle"
  BY ManagedAssumption DEF McpInv, ConfigureInv, Mcp!Close
<1>3. ConfigureInv'
  BY <1>2 DEF McpInv, ConfigureInv, Mcp!Close
<1>4. Mcp!SessionsOwned'
  BY <1>2, ManagedAssumption DEF McpInv, Mcp!SessionsOwned, Mcp!Close
<1> QED BY <1>1, <1>3, <1>4 DEF McpInv

(* Close takes one listed server after the other.                          *)
LEMMA CloseLastStep ==
  ASSUME McpInv, Mcp!CloseLast
  PROVE  McpInv'
<1>1. /\ managed' \in [Managed -> Connections]
      /\ \A m \in Managed : managed'[m].session = "open" =>
           m # closing /\ managed[m].session = "open" /\ managed'[m].known
  BY ClosedFacts DEF McpInv, Mcp!CloseLast
<1>2. Mcp!TypeOK'
  BY <1>1 DEF McpInv, Mcp!TypeOK, Mcp!CloseLast, Connections
<1>3. ConfigureInv'
  BY <1>1, ManagedAssumption DEF McpInv, ConfigureInv, Mcp!CloseLast
<1>4. Mcp!SessionsOwned'
  BY <1>1 DEF McpInv, Mcp!SessionsOwned, Mcp!CloseLast
<1> QED BY <1>2, <1>3, <1>4 DEF McpInv

(* Every step keeps an owner for every open session.                       *)
LEMMA McpStep ==
  ASSUME McpInv, [Mcp!Next]_(Mcp!vars)
  PROVE  McpInv'
<1>1. CASE \E c \in Configures : \/ \E forced \in BOOLEAN : Mcp!Configure(c, forced)
                                 \/ Mcp!Connect(c) \/ Mcp!Fetch(c) \/ Mcp!Swap(c) \/ Mcp!CloseReplaced(c)
  BY <1>1, ConfigureStep, ConnectStep, FetchStep, SwapStep, CloseReplacedStep
<1>2. CASE \E m \in Managed : \/ Mcp!SessionEnds(m) \/ Mcp!Watch(m) \/ Mcp!ToolsChanged(m)
                              \/ \E b \in BOOLEAN : Mcp!TakeTools(m, b)
  BY <1>2, ConnectionStep
<1>3. CASE Mcp!ChangeSettings
  BY <1>3 DEF Mcp!ChangeSettings, McpInv, Mcp!TypeOK, ConfigureInv, Mcp!SessionsOwned
<1>4. CASE Mcp!Close
  BY <1>4, CloseStep
<1>5. CASE Mcp!CloseLast
  BY <1>5, CloseLastStep
<1>6. CASE UNCHANGED Mcp!vars
  BY <1>6 DEF Mcp!vars, McpInv, Mcp!TypeOK, ConfigureInv, Mcp!SessionsOwned
<1> QED BY <1>1, <1>2, <1>3, <1>4, <1>5, <1>6 DEF Mcp!Next

(* A step of the program is a step of the servers or none of theirs.       *)
LEMMA McpMapsStep == [Next]_vars => [Mcp!Next]_(Mcp!vars)
<1>1. ASSUME UNCHANGED mcp PROVE UNCHANGED Mcp!vars
  BY <1>1 DEF mcp, Mcp!vars
<1> QED BY <1>1 DEF Next, vars

(* Servers, sessions and calls are right together.                         *)
LEMMA McpInvariant == Spec => []McpInv
<1>1. Init => McpInv
  BY McpInit DEF Init
<1>2. McpInv /\ [Next]_vars => McpInv'
  BY McpStep, McpMapsStep
<1> QED BY <1>1, <1>2, PTL DEF Spec

(* Every open session of an MCP server has an owner who will close it,     *)
(* however configuring, breaking, fetching tools and closing everything    *)
(* overlap (configure, watchServer, refreshTools and Close of manager.go). *)
THEOREM SessionsOwnedAlways == Spec => []SessionsOwned
<1>1. McpInv => SessionsOwned
  BY DEF McpInv, SessionsOwned
<1> QED BY <1>1, McpInvariant, PTL

-----------------------------------------------------------------------------
(* The managed browser, for any number of calls                            *)

(* startMu is held by the one call that starts or stops a browser.         *)
Working == {"stopping", "starting", "running", "permit", "clearing"}
LockInv == \A c \in BrowserCallers : startMu = c <=> request[c].pc \in Working

(* What runs is the browser of rootCtx or that of the call at work; the    *)
(* surface alone may still host one that was given up, but hosts only one. *)
RunInv ==
  /\ \A a, b \in alive : a = b
  /\ startMu = Nobody /\ ~embedded => alive = {rootCtx} \ {0}
  /\ \A c \in BrowserCallers :
       /\ request[c].pc \in {"stopping", "starting", "running"} => rootCtx = 0
       /\ ~embedded =>
            /\ request[c].pc \in {"stopping", "running"} => alive = {request[c].browser} \ {0}
            /\ request[c].pc = "permit" =>
                 alive = {request[c].browser} \ {0} /\ rootCtx = request[c].browser
            /\ request[c].pc \in {"starting", "clearing"} => alive = {}

(* Switched off, the browser is gone or somebody is about to stop it.      *)
OffInv ==
  ~wanted.enabled =>
    \/ \E c \in BrowserCallers : request[c].pc \in {"stop", "stopping"}
    \/ startMu = Nobody /\ alive = {} /\ rootCtx = 0

BrowserInv == Browser!TypeOK /\ LockInv /\ RunInv /\ OffInv

(* At first nothing runs and nobody works.                                 *)
LEMMA BrowserInit == Browser!Init => BrowserInv
<1> SUFFICES ASSUME Browser!Init PROVE BrowserInv
  OBVIOUS
<1>1. Browser!TypeOK
  BY DEF Browser!Init, Browser!TypeOK, Browser!Settings, Browser!Idle, Browser!NoBrowser
<1>2. LockInv /\ RunInv /\ OffInv
  BY NobodyAssumption DEF Browser!Init, LockInv, Working, RunInv, OffInv, Browser!Idle, Browser!NoBrowser
<1> QED BY <1>1, <1>2 DEF BrowserInv

(* Where a step leaves the calls.                                          *)
LEMMA GoesFacts ==
  ASSUME Browser!TypeOK, NEW c \in BrowserCallers,
         NEW pc1 \in Browser!AtWork \cup {"idle", "start", "open"}, NEW b \in Browser!Browsers \cup {0},
         Browser!Goes(c, pc1, b)
  PROVE  /\ request' \in [BrowserCallers -> [pc : Browser!AtWork \cup {"idle", "start", "open"},
                                             browser : Browser!Browsers \cup {Browser!NoBrowser}]]
         /\ request'[c].pc = pc1 /\ request'[c].browser = b
         /\ \A d \in BrowserCallers : d # c => request'[d] = request[d]
BY DEF Browser!TypeOK, Browser!Goes, Browser!NoBrowser

(* Nobody at work: calls that begin, that only read, or that change what   *)
(* is wanted, which asks for a stop when the browser is switched off.      *)
LEMMA BrowserBegins ==
  ASSUME BrowserInv, NEW c \in BrowserCallers,
         \/ \E s \in Browser!Settings : Browser!Configure(c, s)
         \/ Browser!CallStop(c) \/ Browser!Open(c) \/ Browser!OpenPage(c)
  PROVE  BrowserInv'
<1> USE DEF BrowserInv, Browser!NoBrowser
<1>1. /\ UNCHANGED <<embedded, startMu, rootCtx, alive>>
      /\ request[c].pc \in {"idle", "open"}
      /\ wanted' \in Browser!Settings
      /\ \/ \E p \in {"idle", "stop", "start"} : Browser!Goes(c, p, 0)
         \/ UNCHANGED request /\ wanted'.enabled
      /\ wanted' = wanted \/ wanted'.enabled \/ Browser!Goes(c, "stop", 0)
  BY DEF Browser!Configure, Browser!MustStop, Browser!CallStop, Browser!Open, Browser!OpenPage,
         Browser!TypeOK
<1>2. CASE UNCHANGED request /\ wanted'.enabled
  BY <1>1, <1>2 DEF Browser!TypeOK, LockInv, RunInv, OffInv
<1>3. ASSUME NEW p \in {"idle", "stop", "start"}, Browser!Goes(c, p, 0)
      PROVE  BrowserInv'
  <2>1. /\ request' \in [BrowserCallers -> [pc : Browser!AtWork \cup {"idle", "start", "open"},
                                            browser : Browser!Browsers \cup {Browser!NoBrowser}]]
        /\ request'[c].pc = p /\ request'[c].browser = 0
        /\ \A d \in BrowserCallers : d # c => request'[d] = request[d]
    BY <1>3, GoesFacts DEF Browser!AtWork
  <2>2. Browser!TypeOK'
    BY <1>1, <2>1 DEF Browser!TypeOK
  <2>3. LockInv'
    BY <1>1, <2>1 DEF LockInv, Working
  <2>4. RunInv'
    BY <1>1, <2>1 DEF RunInv
  <2>5. OffInv'
    <3>1. CASE p = "stop" \/ wanted'.enabled
      BY <2>1, <3>1 DEF OffInv
    <3>2. CASE p # "stop" /\ wanted' = wanted
      BY <1>1, <2>1, <3>2 DEF OffInv
    <3>3. Browser!Goes(c, "stop", 0) => p = "stop"
      BY <1>3, <2>1, GoesFacts DEF Browser!AtWork
    <3> QED BY <1>1, <3>1, <3>2, <3>3
  <2> QED BY <2>2, <2>3, <2>4, <2>5
<1> QED BY <1>1, <1>2, <1>3

(* A stop, under startMu from clearing the fields to the end of Close.     *)
LEMMA StopStep ==
  ASSUME BrowserInv, NEW c \in BrowserCallers, Browser!Clear(c) \/ Browser!Close(c)
  PROVE  BrowserInv'
<1> USE DEF BrowserInv, Browser!NoBrowser
<1>1. CASE Browser!Clear(c)
  <2>1. /\ request[c].pc = "stop" /\ startMu = Nobody /\ startMu' = c /\ rootCtx' = 0
        /\ Browser!Goes(c, "stopping", rootCtx) /\ UNCHANGED <<embedded, wanted, alive>>
    BY <1>1 DEF Browser!Clear
  <2>2. /\ request' \in [BrowserCallers -> [pc : Browser!AtWork \cup {"idle", "start", "open"},
                                            browser : Browser!Browsers \cup {Browser!NoBrowser}]]
        /\ request'[c].pc = "stopping" /\ request'[c].browser = rootCtx
        /\ \A d \in BrowserCallers : d # c => request'[d] = request[d]
    <3>1. rootCtx \in Browser!Browsers \cup {0} /\ "stopping" \in Browser!AtWork
      BY DEF Browser!TypeOK, Browser!AtWork
    <3> QED BY <2>1, <3>1, GoesFacts
  <2>3. Browser!TypeOK'
    BY <2>1, <2>2 DEF Browser!TypeOK
  <2>4. \A d \in BrowserCallers : request[d].pc \notin Working
    BY <2>1, NobodyAssumption DEF LockInv
  <2>5. LockInv'
    BY <2>1, <2>2, <2>4 DEF LockInv, Working
  <2>6. RunInv'
    BY <2>1, <2>2, <2>4, NobodyAssumption DEF RunInv, Working
  <2>7. OffInv'
    BY <2>2 DEF OffInv
  <2> QED BY <2>3, <2>5, <2>6, <2>7
<1>2. CASE Browser!Close(c)
  <2>1. /\ request[c].pc = "stopping" /\ alive' = Browser!Without(request[c].browser)
        /\ startMu' = Nobody /\ Browser!Goes(c, "idle", 0)
        /\ UNCHANGED <<embedded, wanted, rootCtx>>
    BY <1>2 DEF Browser!Close
  <2>2. /\ request' \in [BrowserCallers -> [pc : Browser!AtWork \cup {"idle", "start", "open"},
                                            browser : Browser!Browsers \cup {Browser!NoBrowser}]]
        /\ request'[c].pc = "idle" /\ request'[c].browser = 0
        /\ \A d \in BrowserCallers : d # c => request'[d] = request[d]
    BY <2>1, GoesFacts
  <2>3. startMu = c /\ rootCtx = 0 /\ alive' = {}
    BY <2>1 DEF LockInv, Working, RunInv, Browser!Without
  <2>4. Browser!TypeOK'
    BY <2>1, <2>2, <2>3 DEF Browser!TypeOK
  <2>5. \A d \in BrowserCallers : request'[d].pc \notin Working
    BY <2>2, <2>3 DEF LockInv, Working
  <2>6. LockInv'
    BY <2>1, <2>5, NobodyAssumption DEF LockInv
  <2>7. RunInv' /\ OffInv'
    BY <2>1, <2>3, <2>5 DEF RunInv, OffInv, Working
  <2> QED BY <2>4, <2>6, <2>7
<1> QED BY <1>1, <1>2

(* ensureStarted takes startMu only for a browser that is wanted.          *)
LEMMA EnsureStartedStep ==
  ASSUME BrowserInv, NEW c \in BrowserCallers, Browser!EnsureStarted(c)
  PROVE  BrowserInv'
<1> USE DEF BrowserInv, Browser!NoBrowser
<1>1. /\ request[c].pc = "start" /\ startMu = Nobody
      /\ UNCHANGED <<embedded, wanted, rootCtx, alive>>
      /\ \E p \in {"open", "idle", "starting"} :
           /\ Browser!Goes(c, p, 0)
           /\ startMu' = IF p = "starting" THEN c ELSE startMu
           /\ p = "starting" => rootCtx = 0 /\ wanted.enabled
  BY DEF Browser!EnsureStarted
<1>2. PICK p \in {"open", "idle", "starting"} :
        /\ Browser!Goes(c, p, 0)
        /\ startMu' = IF p = "starting" THEN c ELSE startMu
        /\ p = "starting" => rootCtx = 0 /\ wanted.enabled
  BY <1>1
<1>3. /\ request' \in [BrowserCallers -> [pc : Browser!AtWork \cup {"idle", "start", "open"},
                                          browser : Browser!Browsers \cup {Browser!NoBrowser}]]
      /\ request'[c].pc = p /\ request'[c].browser = 0
      /\ \A d \in BrowserCallers : d # c => request'[d] = request[d]
  BY <1>2, GoesFacts DEF Browser!AtWork
<1>4. \A d \in BrowserCallers : request[d].pc \notin Working
  BY <1>1, NobodyAssumption DEF LockInv
<1>5. Browser!TypeOK'
  BY <1>1, <1>2, <1>3 DEF Browser!TypeOK
<1>6. LockInv'
  BY <1>1, <1>2, <1>3, <1>4, NobodyAssumption DEF LockInv, Working
<1>7. RunInv'
  BY <1>1, <1>2, <1>3, <1>4, NobodyAssumption DEF RunInv, Working
<1>8. OffInv'
  BY <1>1, <1>2, <1>3 DEF OffInv
<1> QED BY <1>5, <1>6, <1>7, <1>8

(* The steps of a start, which has startMu, so that a call that switches   *)
(* the browser off waits for it: whether another program is tried, the     *)
(* start goes on or is over, what runs is known to who comes next.         *)
LEMMA BrowserStarts ==
  ASSUME BrowserInv, NEW c \in BrowserCallers,
         \/ Browser!Launch(c) \/ Browser!LaunchFails(c) \/ Browser!ConnectFails(c)
         \/ Browser!LaunchTimesOut(c) \/ Browser!Install(c) \/ Browser!Permitted(c)
         \/ Browser!PermissionsFail(c) \/ Browser!Uninstall(c)
  PROVE  BrowserInv'
<1> USE DEF BrowserInv, Browser!NoBrowser
<1> DEFINE Onward(p, b) ==
      /\ Browser!Goes(c, p, b)
      /\ startMu' = IF p \in Working THEN startMu ELSE Nobody
      /\ \A x, y \in alive' : x = y
      /\ alive' \subseteq Browser!Browsers /\ rootCtx' \in Browser!Browsers \cup {0}
      /\ p \in {"starting", "running"} => rootCtx' = 0
      /\ ~embedded =>
           /\ p = "running" => alive' = {b} \ {0}
           /\ p = "permit" => alive' = {b} \ {0} /\ rootCtx' = b
           /\ p \in {"starting", "clearing"} => alive' = {}
           /\ p \notin Working => alive' = {rootCtx'} \ {0}
<1>1. /\ UNCHANGED <<embedded, wanted>>
      /\ request[c].pc \in {"starting", "running", "permit", "clearing"}
  BY DEF Browser!Launch, Browser!LaunchFails, Browser!ConnectFails, Browser!LaunchTimesOut,
         Browser!Install, Browser!Permitted, Browser!PermissionsFail, Browser!Uninstall
<1>2. /\ startMu = c
      /\ \A d \in BrowserCallers : d # c => request[d].pc \notin Working
  BY <1>1 DEF LockInv, Working
<1>3. \E p \in {"starting", "running", "permit", "clearing", "idle", "open"},
         b \in Browser!Browsers \cup {0} : Onward(p, b)
  <2>0. /\ alive \subseteq Browser!Browsers /\ rootCtx \in Browser!Browsers \cup {0}
        /\ request[c].browser \in Browser!Browsers \cup {0} /\ 0 \notin Browser!Browsers
    BY DEF Browser!TypeOK, Browser!Browsers
  <2>1. CASE Browser!Launch(c)
    <3>1. PICK b \in Browser!Browsers \ alive :
            alive' = Browser!Without(0) \cup {b} /\ Browser!Goes(c, "running", b)
      BY <2>1 DEF Browser!Launch
    <3>2. alive' = {b} /\ rootCtx' = 0 /\ startMu' = startMu
      BY <2>0, <2>1, <3>1 DEF Browser!Launch, Browser!Without, RunInv
    <3> QED BY <2>0, <3>1, <3>2 DEF Working
  <2>2. CASE Browser!LaunchFails(c)
    <3>1. /\ request[c].pc = "starting" /\ rootCtx' = rootCtx
          /\ alive' = alive \/ alive' = Browser!Without(0)
          /\ \/ ~embedded /\ Browser!Goes(c, "starting", 0) /\ startMu' = startMu
             \/ startMu' = Nobody /\ Browser!Goes(c, "idle", 0)
      BY <2>2 DEF Browser!LaunchFails, Browser!TriesOrFails
    <3>2. /\ rootCtx' = 0 /\ (~embedded => alive' = {}) /\ alive' \subseteq alive
      BY <3>1 DEF RunInv, Browser!Without
    <3>3. \A x, y \in alive' : x = y
      BY <3>2 DEF RunInv
    <3> QED BY <2>0, <3>1, <3>2, <3>3 DEF Working
  <2>3. CASE Browser!ConnectFails(c)
    <3>1. /\ request[c].pc = "running" /\ rootCtx' = rootCtx
          /\ alive' = Browser!Without(request[c].browser)
          /\ \/ ~embedded /\ Browser!Goes(c, "starting", 0) /\ startMu' = startMu
             \/ startMu' = Nobody /\ Browser!Goes(c, "idle", 0)
      BY <2>3 DEF Browser!ConnectFails, Browser!TriesOrFails
    <3>2. rootCtx' = 0 /\ alive' = {}
      BY <3>1 DEF RunInv, Browser!Without
    <3> QED BY <2>0, <3>1, <3>2 DEF Working
  <2>4. CASE Browser!LaunchTimesOut(c)
    <3>1. /\ request[c].pc = "running" /\ rootCtx' = rootCtx /\ alive' = alive /\ embedded
          /\ startMu' = Nobody /\ Browser!Goes(c, "idle", 0)
      BY <2>4 DEF Browser!LaunchTimesOut
    <3> QED BY <2>0, <3>1 DEF Working, RunInv
  <2>5. CASE Browser!Install(c)
    <3>1. /\ request[c].pc = "running" /\ rootCtx' = request[c].browser /\ alive' = alive
          /\ startMu' = startMu /\ Browser!Goes(c, "permit", request[c].browser)
      BY <2>5 DEF Browser!Install
    <3> QED BY <2>0, <3>1 DEF Working, RunInv
  <2>6. CASE Browser!Permitted(c)
    <3>1. /\ request[c].pc = "permit" /\ rootCtx' = rootCtx /\ alive' = alive
          /\ startMu' = Nobody /\ Browser!Goes(c, "open", 0)
      BY <2>6 DEF Browser!Permitted
    <3> QED BY <2>0, <3>1 DEF Working, RunInv
  <2>7. CASE Browser!PermissionsFail(c)
    <3>1. /\ request[c].pc = "permit" /\ rootCtx' = rootCtx
          /\ alive' = Browser!Without(request[c].browser)
          /\ startMu' = startMu /\ Browser!Goes(c, "clearing", 0)
      BY <2>7 DEF Browser!PermissionsFail
    <3>2. alive' = {}
      BY <3>1 DEF RunInv, Browser!Without
    <3> QED BY <2>0, <3>1, <3>2 DEF Working
  <2>8. CASE Browser!Uninstall(c)
    <3>1. /\ request[c].pc = "clearing" /\ rootCtx' = 0 /\ alive' = alive
          /\ \/ ~embedded /\ Browser!Goes(c, "starting", 0) /\ startMu' = startMu
             \/ startMu' = Nobody /\ Browser!Goes(c, "idle", 0)
      BY <2>8 DEF Browser!Uninstall, Browser!TriesOrFails
    <3>2. (~embedded => alive' = {}) /\ \A x, y \in alive' : x = y
      BY <3>1 DEF RunInv
    <3> QED BY <2>0, <3>1, <3>2 DEF Working
  <2> QED BY <2>1, <2>2, <2>3, <2>4, <2>5, <2>6, <2>7, <2>8
<1>4. PICK p \in {"starting", "running", "permit", "clearing", "idle", "open"},
           b \in Browser!Browsers \cup {0} : Onward(p, b)
  BY <1>3
<1>5. /\ request' \in [BrowserCallers -> [pc : Browser!AtWork \cup {"idle", "start", "open"},
                                          browser : Browser!Browsers \cup {Browser!NoBrowser}]]
      /\ request'[c].pc = p /\ request'[c].browser = b
      /\ \A d \in BrowserCallers : d # c => request'[d] = request[d]
  <2>1. p \in Browser!AtWork \cup {"idle", "start", "open"}
    BY DEF Browser!AtWork
  <2> QED BY <1>4, <2>1, GoesFacts
<1>6. Browser!TypeOK'
  BY <1>1, <1>2, <1>4, <1>5 DEF Browser!TypeOK
<1>7. LockInv'
  BY <1>2, <1>4, <1>5, NobodyAssumption DEF LockInv
<1>8. RunInv'
  BY <1>1, <1>2, <1>4, <1>5, NobodyAssumption DEF RunInv, Working
<1>9. OffInv'
  <2>1. ASSUME ~wanted'.enabled PROVE \E d \in BrowserCallers : request'[d].pc \in {"stop", "stopping"}
    <3>1. startMu # Nobody /\ ~wanted.enabled
      BY <1>1, <1>2, <2>1, NobodyAssumption
    <3>2. PICK d \in BrowserCallers : request[d].pc \in {"stop", "stopping"}
      BY <3>1 DEF OffInv
    <3>3. d # c
      BY <1>1, <3>2
    <3> QED BY <1>5, <3>2, <3>3
  <2> QED BY <2>1 DEF OffInv
<1> QED BY <1>6, <1>7, <1>8, <1>9

(* Every step keeps the lock, what runs and what is switched off.          *)
LEMMA BrowserStep ==
  ASSUME BrowserInv, [Browser!Next]_(Browser!vars)
  PROVE  BrowserInv'
<1>1. CASE Browser!Next
  BY <1>1, BrowserBegins, StopStep, EnsureStartedStep, BrowserStarts DEF Browser!Next
<1>2. CASE UNCHANGED Browser!vars
  BY <1>2 DEF Browser!vars, BrowserInv, Browser!TypeOK, LockInv, RunInv, OffInv
<1> QED BY <1>1, <1>2

(* A step of the program is a step of the engine or none of its own.       *)
LEMMA BrowserMapsStep == [Next]_vars => [Browser!Next]_(Browser!vars)
<1>1. ASSUME UNCHANGED browser PROVE UNCHANGED Browser!vars
  BY <1>1 DEF browser, Browser!vars
<1> QED BY <1>1 DEF Next, vars

(* The three parts of the invariant hold together.                         *)
LEMMA BrowserInvariant == Spec => []BrowserInv
<1>1. Init => BrowserInv
  BY BrowserInit DEF Init
<1>2. BrowserInv /\ [Next]_vars => BrowserInv'
  BY BrowserStep, BrowserMapsStep
<1> QED BY <1>1, <1>2, PTL DEF Spec

(* There is never a second managed browser, however starts, failed starts  *)
(* and stops overlap (startMu in Stop and ensureStarted of service.go).    *)
THEOREM OneBrowserAlways == Spec => []OneBrowser
<1>1. BrowserInv => OneBrowser
  <2> SUFFICES ASSUME BrowserInv PROVE Cardinality(alive) <= 1
    BY DEF OneBrowser, Browser!OneBrowser, Browser!Cardinality, Cardinality
  <2>1. CASE alive = {}
    BY <2>1, FS_EmptySet
  <2>2. CASE alive # {}
    <3>1. PICK b \in alive : alive = {b}
      BY <2>2 DEF BrowserInv, RunInv
    <3>2. Cardinality({b}) = 1
      BY FS_Singleton
    <3> QED BY <3>1, <3>2
  <2> QED BY <2>1, <2>2
<1> QED BY <1>1, BrowserInvariant, PTL

(* A browser that was switched off does not run once nobody is starting or *)
(* stopping it, also when it was being started at that time (Configure,    *)
(* ensureStarted and Stop of service.go).                                  *)
THEOREM DisabledIsOffAlways == Spec => []DisabledIsOff
<1>1. BrowserInv => DisabledIsOff
  BY DEF BrowserInv, OffInv, DisabledIsOff, Browser!DisabledIsOff, Browser!AtWork, Browser!NoBrowser
<1> QED BY <1>1, BrowserInvariant, PTL

-----------------------------------------------------------------------------
(* Projects and their sessions, for any number of either                   *)

(* Dropping the i-th element of a sequence without repetitions.            *)
LEMMA RemoveAtElements ==
  ASSUME NEW S, NEW s \in Seq(S), NEW i \in 1..Len(s),
         Store!IsInjective(s)
  PROVE  /\ Store!RemoveAt(s, i) \in Seq(S)
         /\ Store!ToSet(Store!RemoveAt(s, i)) = Store!ToSet(s) \ {s[i]}
         /\ Store!IsInjective(Store!RemoveAt(s, i))
<1> DEFINE r == Store!RemoveAt(s, i)
           left == SubSeq(s, 1, i - 1)
           right == SubSeq(s, i + 1, Len(s))
<1>a. /\ left \in Seq(S) /\ Len(left) = i - 1
      /\ \A m \in 1..(i - 1) : left[m] = s[m]
  <2>1. \A m \in 1..(i - 1) : s[m] \in S
    BY ElementOfSeq
  <2> QED BY <2>1, SubSeqProperties, LenProperties
<1>b. /\ right \in Seq(S) /\ Len(right) = Len(s) - i
      /\ \A m \in 1..(Len(s) - i) : right[m] = s[m + i]
  <2>1. \A m \in (i + 1)..Len(s) : s[m] \in S
    BY ElementOfSeq
  <2> QED BY <2>1, SubSeqProperties, LenProperties
<1> HIDE DEF left, right
<1>c. r = left \o right
  BY DEF Store!RemoveAt, left, right
<1>1. r \in Seq(S) /\ Len(r) = Len(s) - 1
  BY <1>a, <1>b, <1>c, ConcatProperties, LenProperties
<1> HIDE DEF r
<1>2. \A m \in 1..Len(r) : r[m] = IF m < i THEN s[m] ELSE s[m + 1]
  <2> SUFFICES ASSUME NEW m \in 1..Len(r) PROVE r[m] = IF m < i THEN s[m] ELSE s[m + 1]
    OBVIOUS
  <2>1. r[m] = IF m <= Len(left) THEN left[m] ELSE right[m - Len(left)]
    BY <1>1, <1>a, <1>b, <1>c, ConcatProperties, LenProperties
  <2> QED BY <2>1, <1>1, <1>a, <1>b, LenProperties
<1>d. \A m, n \in 1..Len(s) : s[m] = s[n] => m = n
  BY LenProperties DEF Store!IsInjective
<1>3. Store!IsInjective(r)
  <2> DEFINE place(m) == IF m < i THEN m ELSE m + 1
  <2>1. \A m \in 1..Len(r) : place(m) \in 1..Len(s) /\ r[m] = s[place(m)]
    BY <1>1, <1>2, LenProperties
  <2>2. \A m, n \in 1..Len(r) : place(m) = place(n) => m = n
    BY <1>1, LenProperties
  <2> HIDE DEF place
  <2>3. \A m, n \in 1..Len(r) : r[m] = r[n] => m = n
    BY <2>1, <2>2, <1>d
  <2> QED BY <2>3, <1>1, LenProperties DEF Store!IsInjective
<1>4. Store!ToSet(r) \subseteq Store!ToSet(s) \ {s[i]}
  BY <1>1, <1>2, <1>d DEF Store!ToSet
<1>5. ASSUME NEW x \in Store!ToSet(s) \ {s[i]} PROVE x \in Store!ToSet(r)
  <2>1. PICK m \in 1..Len(s) : s[m] = x /\ m # i
    BY DEF Store!ToSet
  <2>2. CASE m < i
    BY <1>1, <1>2, <2>1, <2>2 DEF Store!ToSet
  <2>3. CASE m > i
    <3>1. m - 1 \in 1..Len(r) /\ r[m - 1] = x
      BY <1>1, <1>2, <2>1, <2>3
    <3> QED BY <3>1, <1>1 DEF Store!ToSet
  <2> QED BY <2>1, <2>2, <2>3
<1> QED BY <1>1, <1>3, <1>4, <1>5 DEF r

(* A list with one element more.                                           *)
LEMMA Appended ==
  ASSUME NEW S, NEW q \in Seq(S), Store!IsInjective(q), NEW e \in S, e \notin Store!ToSet(q)
  PROVE  /\ Append(q, e) \in Seq(S) /\ Store!IsInjective(Append(q, e))
         /\ Store!ToSet(Append(q, e)) = Store!ToSet(q) \cup {e}
<1>1. Len(q) \in Nat /\ DOMAIN q = 1..Len(q) /\ Append(q, e) \in Seq(S) /\ Len(Append(q, e)) = Len(q) + 1
  OBVIOUS
<1>2. DOMAIN Append(q, e) = 1..(Len(q) + 1) /\ Append(q, e)[Len(q) + 1] = e
      /\ \A j \in 1..Len(q) : Append(q, e)[j] = q[j]
  BY <1>1
<1>3. Store!IsInjective(Append(q, e))
  BY <1>1, <1>2 DEF Store!IsInjective, Store!ToSet
<1>4. Store!ToSet(Append(q, e)) = Store!ToSet(q) \cup {e}
  BY <1>1, <1>2 DEF Store!ToSet
<1> QED BY <1>1, <1>3, <1>4

(* A manifest in itself: no project or workspace is listed twice, and no    *)
(* session is of two projects.                                             *)
Shape(m) ==
  /\ m \in Store!Manifests /\ Store!IsInjective(m.projects)
  /\ Store!Listed(m) \cap m.detached = {}
  /\ \A p, q \in Store!Listed(m) : m.root[p] = m.root[q] => p = q
  /\ \A p, q \in m.detached : m.root[p] = m.root[q] => p = q
  /\ \A p, q \in Store!Projects : p # q => m.sessions[p] \cap m.sessions[q] = {}

(* What is active is a session of a project that is listed, and its last.  *)
Opens(m) ==
  m.project \in Store!Listed(m) /\ m.session \in m.sessions[m.project] /\ m.last[m.project] = m.session

(* Identifiers that were never given out are used nowhere; one that was     *)
(* just given out is tidy if its project is listed.                        *)
Unused(m, p) == p \notin Store!Listed(m) /\ p \notin m.detached /\ m.sessions[p] = {}

Fresh(m) ==
  /\ \A p \in Store!Projects : p > created.projects => Unused(m, p)
  /\ \A n \in Store!Sessions, p \in Store!Projects : n > created.sessions => n \notin m.sessions[p]

Tidy(m) ==
  /\ \A p \in Store!Projects : p > created.projects + 1 => Unused(m, p)
  /\ \A p \in Store!Projects : p = created.projects + 1 => p \in Store!Listed(m) \/ Unused(m, p)
  /\ \A n \in Store!Sessions, p \in Store!Projects : n > created.sessions + 1 => n \notin m.sessions[p]

Good(m) == Shape(m) /\ Tidy(m)

(* Between operations.                                                     *)
StoreInv ==
  /\ created \in [projects : Store!Projects, sessions : Store!Sessions] /\ kept \subseteq Store!Sessions
  /\ Shape(manifest) /\ Opens(manifest) /\ Fresh(manifest)

(* The fields of a manifest.                                               *)
LEMMA Fields ==
  ASSUME NEW m \in Store!Manifests
  PROVE  /\ m.projects \in Seq(Store!Projects) /\ m.detached \in SUBSET Store!Projects
         /\ m.root \in [Store!Projects -> Store!Roots]
         /\ m.sessions \in [Store!Projects -> SUBSET Store!Sessions] /\ m.archived \in SUBSET Store!Sessions
         /\ m.last \in [Store!Projects -> Store!Sessions \cup {Store!NoId}]
         /\ m.project \in Store!Projects /\ m.session \in Store!Sessions
         /\ Store!Listed(m) \in SUBSET Store!Projects
<1>1. m.projects \in Seq(Store!Projects)
  BY DEF Store!Manifests
<1>2. Store!Listed(m) \in SUBSET Store!Projects
  BY <1>1, LenProperties, ElementOfSeq DEF Store!Listed, Store!ToSet
<1> QED BY <1>1, <1>2 DEF Store!Manifests

(* Between operations a manifest is tidy, and the next session is in none. *)
LEMMA FreshTidy ==
  ASSUME StoreInv
  PROVE  Good(manifest) /\ \A p \in Store!Projects, n \in Store!NewSessions : n \notin manifest.sessions[p]
<1>1. created.projects \in Nat /\ created.sessions \in Nat
  BY DEF StoreInv, Store!Projects, Store!Sessions
<1>2. \A p \in Store!Projects : p \in Nat
  BY DEF Store!Projects
<1>3. \A n \in Store!Sessions : n \in Nat
  BY DEF Store!Sessions
<1> QED BY <1>1, <1>2, <1>3 DEF StoreInv, Fresh, Good, Tidy, Store!NewSessions

(* Saving.                                                                 *)
LEMMA ManifestSaved ==
  ASSUME StoreInv, NEW m, Good(m), Opens(m), Store!Save(m), kept' \subseteq Store!Sessions
  PROVE  StoreInv'
<1> DEFINE np == created.projects + 1
           ns == created.sessions + 1
<1>1. created.projects \in Store!Projects /\ created.sessions \in Store!Sessions
  BY DEF StoreInv
<1>2. created.projects \in Nat /\ created.sessions \in Nat /\ (\A p \in Store!Projects : p \in Nat)
      /\ \A n \in Store!Sessions : n \in Nat
  BY <1>1 DEF Store!Projects, Store!Sessions
<1>3. m \in Store!Manifests /\ Store!Listed(m) \subseteq Store!Projects
      /\ m.sessions \in [Store!Projects -> SUBSET Store!Sessions]
  BY Fields DEF Good, Shape
<1>4. /\ manifest' = m
      /\ created' = [projects |-> created'.projects, sessions |-> created'.sessions]
      /\ created'.projects = created.projects + (IF np \in Store!Listed(m) THEN 1 ELSE 0)
      /\ created'.sessions = created.sessions + (IF \E p \in Store!Projects : ns \in m.sessions[p] THEN 1 ELSE 0)
  BY DEF Store!Save
<1>5. /\ created'.projects \in Store!Projects
      /\ IF np \in Store!Listed(m) THEN created'.projects = np ELSE created'.projects = created.projects
  BY <1>1, <1>2, <1>3, <1>4
<1>6. /\ created'.sessions \in Store!Sessions
      /\ IF \E p \in Store!Projects : ns \in m.sessions[p] THEN created'.sessions = ns
         ELSE created'.sessions = created.sessions
  BY <1>1, <1>2, <1>3, <1>4
<1> HIDE DEF np, ns
<1>7. ASSUME NEW p \in Store!Projects, p > created'.projects PROVE Unused(m, p)
  BY <1>1, <1>2, <1>5, <1>7 DEF Good, Tidy, np
<1>8. ASSUME NEW n \in Store!Sessions, NEW p \in Store!Projects, n > created'.sessions
      PROVE  n \notin m.sessions[p]
  BY <1>1, <1>2, <1>6, <1>8 DEF Good, Tidy, ns
<1>9. Fresh(manifest)'
  BY <1>4, <1>7, <1>8 DEF Fresh, Unused, Store!Listed
<1>10. (Shape(manifest) /\ Opens(manifest))'
  BY <1>4 DEF Good, Shape, Opens, Store!Listed
<1>11. created' \in [projects : Store!Projects, sessions : Store!Sessions]
  BY <1>4, <1>5, <1>6
<1> QED BY <1>9, <1>10, <1>11 DEF StoreInv

(* A new session of p.                                                     *)
LEMMA NewSessionGood ==
  ASSUME StoreInv, NEW m, Good(m), NEW p \in Store!Listed(m), NEW n \in Store!NewSessions,
         \A q \in Store!Projects \ {p} : n \notin m.sessions[q]
  PROVE  LET e == Store!WithSession(m, p, n) IN
         /\ Good(e) /\ e.projects = m.projects /\ Store!Listed(e) = Store!Listed(m)
         /\ e.last[p] = n /\ n \in e.sessions[p] /\ e.project = m.project
<1> DEFINE e == Store!WithSession(m, p, n)
<1>1. m \in Store!Manifests /\ p \in Store!Projects
  BY Fields DEF Good, Shape
<1>2. n \in Store!Sessions /\ n = created.sessions + 1
  BY DEF Store!NewSessions
<1>4. /\ e \in Store!Manifests /\ e.projects = m.projects /\ e.detached = m.detached
      /\ e.root = m.root /\ e.project = m.project
      /\ e.sessions = [m.sessions EXCEPT ![p] = m.sessions[p] \cup {n}]
      /\ e.last = [m.last EXCEPT ![p] = n]
  BY <1>1, <1>2 DEF Store!Manifests, Store!WithSession
<1> HIDE DEF e
<1>5. Store!Listed(e) = Store!Listed(m)
  BY <1>4 DEF Store!Listed
<1>6. /\ e.sessions[p] = m.sessions[p] \cup {n} /\ e.last[p] = n
      /\ \A q \in Store!Projects \ {p} : e.sessions[q] = m.sessions[q]
  BY <1>1, <1>4, Fields
<1>7. Shape(e)
  BY <1>1, <1>4, <1>5, <1>6 DEF Good, Shape
<1>8. created.sessions \in Nat /\ created.projects \in Nat /\ \A q \in Store!Projects : q \in Nat
  BY DEF StoreInv, Store!Sessions, Store!Projects
<1>9. Tidy(e)
  BY <1>1, <1>2, <1>4, <1>5, <1>6, <1>8 DEF Good, Tidy, Unused
<1> QED BY <1>4, <1>5, <1>6, <1>7, <1>9 DEF Good, e

(* What is good about a manifest depends on five of its fields.            *)
LEMMA SameGood ==
  ASSUME NEW m, Good(m), NEW e \in Store!Manifests, e.projects = m.projects, e.detached = m.detached,
         e.root = m.root, e.sessions = m.sessions
  PROVE  Good(e) /\ Store!Listed(e) = Store!Listed(m)
BY DEF Good, Shape, Tidy, Unused, Store!Listed

(* The last session of p, found or made, is one of its sessions.           *)
LEMMA EnsureGood ==
  ASSUME StoreInv, NEW m, Good(m), NEW p \in Store!Listed(m),
         \A n \in Store!NewSessions, q \in Store!Projects \ {p} : n \notin m.sessions[q],
         NEW e \in Store!ensureProjectActiveSession(m, p)
  PROVE  Good(e) /\ Store!Listed(e) = Store!Listed(m) /\ e.last[p] \in e.sessions[p] /\ e.project = m.project
<1> DEFINE open == m.sessions[p] \ m.archived
<1>1. m \in Store!Manifests /\ p \in Store!Projects /\ open \subseteq Store!Sessions
      /\ m.last \in [Store!Projects -> Store!Sessions \cup {Store!NoId}]
  BY Fields DEF Good, Shape
<1>2. CASE m.last[p] \in open /\ e = m
  BY <1>2
<1>3. CASE \E n \in open : e = [m EXCEPT !.last[p] = n]
  <2>1. PICK n \in open : e = [m EXCEPT !.last[p] = n]
    BY <1>3
  <2>2. /\ e \in Store!Manifests /\ e.projects = m.projects /\ e.detached = m.detached
        /\ e.root = m.root /\ e.sessions = m.sessions /\ e.project = m.project
        /\ e.last = [m.last EXCEPT ![p] = n]
    BY <1>1, <2>1 DEF Store!Manifests
  <2>3. e.last[p] = n
    BY <1>1, <2>2
  <2> QED BY <2>2, <2>3, SameGood
<1>4. CASE \E n \in Store!NewSessions : e = Store!WithSession(m, p, n)
  BY <1>4, NewSessionGood
<1> QED BY <1>2, <1>3, <1>4 DEF Store!ensureProjectActiveSession

(* Activating a project makes its last session the active one.             *)
LEMMA ActivatedGood ==
  ASSUME StoreInv, NEW m, Good(m), NEW p \in Store!Listed(m),
         \A n \in Store!NewSessions, q \in Store!Projects \ {p} : n \notin m.sessions[q],
         NEW f \in Store!Activated(m, p)
  PROVE  Good(f) /\ Opens(f)
<1>1. PICK e \in Store!ensureProjectActiveSession(m, p) : f = [e EXCEPT !.project = p, !.session = e.last[p]]
  BY DEF Store!Activated
<1>2. Good(e) /\ Store!Listed(e) = Store!Listed(m) /\ e.last[p] \in e.sessions[p]
  BY EnsureGood
<1>3. e \in Store!Manifests /\ p \in Store!Projects /\ e.last[p] \in Store!Sessions
  BY <1>2, Fields DEF Good, Shape
<1>4. /\ f \in Store!Manifests /\ f.projects = e.projects /\ f.detached = e.detached
      /\ f.root = e.root /\ f.sessions = e.sessions /\ f.last = e.last
      /\ f.project = p /\ f.session = e.last[p]
  BY <1>1, <1>3 DEF Store!Manifests
<1> QED BY <1>2, <1>4, SameGood DEF Opens

(* The last session of the active project is the active one already.       *)
LEMMA RememberSame ==
  ASSUME StoreInv
  PROVE  Store!rememberActiveSession(manifest) = manifest
<1>1. manifest \in Store!Manifests /\ manifest.last[manifest.project] = manifest.session
      /\ manifest.last \in [Store!Projects -> Store!Sessions \cup {Store!NoId}]
      /\ manifest.project \in Store!Projects
  BY Fields DEF StoreInv, Shape, Opens
<1>2. [manifest.last EXCEPT ![manifest.project] = manifest.session] = manifest.last
  BY <1>1
<1>3. [manifest EXCEPT !.last[manifest.project] = manifest.session] = manifest
  BY <1>1, <1>2 DEF Store!Manifests
<1> QED BY <1>3 DEF Store!rememberActiveSession

(* A project more, which was never used.                                   *)
LEMMA WithProjectGood ==
  ASSUME StoreInv, NEW m, Good(m), NEW r \in Store!Roots,
         \A p \in Store!NewProjects : Unused(m, p),
         \A q \in Store!Listed(m) : m.root[q] # r,
         \A n \in Store!NewSessions, q \in Store!Projects : n \notin m.sessions[q],
         NEW f \in Store!WithProject(m, r)
  PROVE  Good(f) /\ Opens(f)
<1>1. PICK p \in Store!NewProjects, n \in Store!NewSessions : f = Store!AddProject(m, r, p, n)
  BY DEF Store!WithProject
<1> DEFINE e == [m EXCEPT !.projects = Append(@, p), !.root[p] = r, !.project = p, !.session = n]
<1>2. /\ p \in Store!Projects /\ n \in Store!Sessions /\ Unused(m, p) /\ m \in Store!Manifests
      /\ p = created.projects + 1 /\ created.projects \in Nat /\ \A q \in Store!Projects : q \in Nat
  BY DEF Good, Shape, Store!NewProjects, Store!NewSessions, StoreInv, Store!Projects
<1>3. /\ Append(m.projects, p) \in Seq(Store!Projects) /\ Store!IsInjective(Append(m.projects, p))
      /\ Store!ToSet(Append(m.projects, p)) = Store!Listed(m) \cup {p}
  BY <1>2, Appended, Fields DEF Good, Shape, Unused, Store!Listed
<1>4. /\ e \in Store!Manifests /\ e.projects = Append(m.projects, p) /\ e.detached = m.detached
      /\ e.root = [m.root EXCEPT ![p] = r] /\ e.sessions = m.sessions /\ e.project = p /\ e.session = n
  BY <1>2, <1>3 DEF Store!Manifests
<1>5. f = Store!WithSession(e, p, n)
  BY <1>1 DEF Store!AddProject
<1> HIDE DEF e
<1>6. Store!Listed(e) = Store!Listed(m) \cup {p}
  BY <1>3, <1>4 DEF Store!Listed
<1>7. e.root[p] = r /\ \A q \in Store!Projects \ {p} : e.root[q] = m.root[q]
  BY <1>2, <1>4, Fields
<1>8. Shape(e)
  <2>1. \A a, b \in Store!Listed(e) : e.root[a] = e.root[b] => a = b
    BY <1>2, <1>6, <1>7, Fields DEF Good, Shape, Unused
  <2>2. \A a, b \in e.detached : e.root[a] = e.root[b] => a = b
    BY <1>2, <1>4, <1>7, Fields DEF Good, Shape, Unused
  <2>3. Store!Listed(e) \cap e.detached = {}
    BY <1>2, <1>4, <1>6 DEF Good, Shape, Unused
  <2> QED BY <1>3, <1>4, <2>1, <2>2, <2>3 DEF Good, Shape
<1>9. Tidy(e)
  BY <1>2, <1>4, <1>6 DEF Good, Tidy, Unused
<1>10. p \in Store!Listed(e) /\ \A q \in Store!Projects \ {p} : n \notin e.sessions[q]
  BY <1>4, <1>6
<1>11. /\ Good(f) /\ Store!Listed(f) = Store!Listed(e) /\ f.last[p] = n /\ n \in f.sessions[p] /\ f.project = p
  BY <1>4, <1>5, <1>8, <1>9, <1>10, NewSessionGood DEF Good
<1>12. f.session = n
  BY <1>4, <1>5 DEF Store!WithSession, Store!Manifests
<1> QED BY <1>10, <1>11, <1>12 DEF Opens

(* A project that was removed is as good as before when it is listed again.*)
LEMMA RestoredGood ==
  ASSUME StoreInv, NEW p \in manifest.detached, \A q \in Store!Listed(manifest) : manifest.root[q] # manifest.root[p],
         NEW e \in Store!Restored(manifest, p)
  PROVE  /\ Good(e) /\ p \in Store!Listed(e)
         /\ \A n \in Store!NewSessions, q \in Store!Projects \ {p} : n \notin e.sessions[q]
<1> DEFINE m == manifest
           back == [m EXCEPT !.detached = @ \ {p}, !.projects = Append(@, p)]
<1>1. /\ m \in Store!Manifests /\ p \in Store!Projects /\ p \notin Store!Listed(m) /\ Good(m)
      /\ \A n \in Store!NewSessions, q \in Store!Projects : n \notin m.sessions[q]
  BY FreshTidy, Fields DEF StoreInv, Shape
<1>2. /\ Append(m.projects, p) \in Seq(Store!Projects) /\ Store!IsInjective(Append(m.projects, p))
      /\ Store!ToSet(Append(m.projects, p)) = Store!Listed(m) \cup {p}
  BY <1>1, Appended, Fields DEF Good, Shape, Store!Listed
<1>3. /\ back \in Store!Manifests /\ back.projects = Append(m.projects, p) /\ back.detached = m.detached \ {p}
      /\ back.root = m.root /\ back.sessions = m.sessions
  BY <1>1, <1>2 DEF Store!Manifests
<1>4. \/ m.sessions[p] # {} /\ e = back
      \/ m.sessions[p] = {} /\ \E n \in Store!NewSessions : e = [back EXCEPT !.sessions[p] = {n}]
  BY DEF Store!Restored
<1> HIDE DEF back, m
<1>5. /\ e \in Store!Manifests /\ e.projects = back.projects /\ e.detached = back.detached /\ e.root = back.root
      /\ \A q \in Store!Projects \ {p} : e.sessions[q] = m.sessions[q]
      /\ e.sessions[p] = m.sessions[p] \/ \E n \in Store!NewSessions : e.sessions[p] = {n}
  <2>1. CASE e = back
    BY <1>3, <2>1
  <2>2. CASE \E n \in Store!NewSessions : e = [back EXCEPT !.sessions[p] = {n}]
    <3>1. PICK n \in Store!NewSessions : e = [back EXCEPT !.sessions[p] = {n}]
      BY <2>2
    <3>2. n \in Store!Sessions
      BY DEF Store!NewSessions
    <3>3. /\ e \in Store!Manifests /\ e.projects = back.projects /\ e.detached = back.detached
          /\ e.root = back.root /\ e.sessions = [back.sessions EXCEPT ![p] = {n}]
      BY <1>3, <3>1, <3>2 DEF Store!Manifests
    <3> QED BY <1>1, <1>3, <3>3, Fields
  <2> QED BY <1>4, <2>1, <2>2
<1>6. Store!Listed(e) = Store!Listed(m) \cup {p}
  BY <1>2, <1>3, <1>5 DEF Store!Listed
<1>7. Shape(e)
  <2>1. \A a, b \in Store!Listed(e) : e.root[a] = e.root[b] => a = b
    BY <1>1, <1>3, <1>5, <1>6 DEF Good, Shape, m
  <2>2. \A a, b \in e.detached : e.root[a] = e.root[b] => a = b
    BY <1>1, <1>3, <1>5 DEF Good, Shape
  <2>3. Store!Listed(e) \cap e.detached = {}
    BY <1>1, <1>3, <1>5, <1>6 DEF Good, Shape
  <2>4. \A a, b \in Store!Projects : a # b => e.sessions[a] \cap e.sessions[b] = {}
    BY <1>1, <1>5 DEF Good, Shape
  <2> QED BY <1>2, <1>3, <1>5, <2>1, <2>2, <2>3, <2>4 DEF Good, Shape
<1>8. Tidy(e)
  <2>1. created.projects \in Nat /\ (\A q \in Store!Projects : q \in Nat) /\ created.sessions \in Nat
    BY DEF StoreInv, Store!Projects, Store!Sessions
  <2>2. p <= created.projects
    BY <1>1, <2>1 DEF StoreInv, Fresh, Unused, m
  <2>3. \A n \in Store!NewSessions : n = created.sessions + 1
    BY DEF Store!NewSessions
  <2>4. \A n \in Store!Sessions, q \in Store!Projects : n > created.sessions + 1 => n \notin e.sessions[q]
    BY <1>1, <1>5, <2>1, <2>3 DEF Good, Tidy
  <2> QED BY <1>1, <1>3, <1>5, <1>6, <2>1, <2>2, <2>4 DEF Good, Tidy, Unused
<1> QED BY <1>1, <1>5, <1>6, <1>7, <1>8 DEF Good

(* A project is taken from the list, and what was detached of its          *)
(* workspace before is gone.                                               *)
LEMMA RemovedGood ==
  ASSUME StoreInv, NEW p \in Store!Listed(manifest)
  PROVE  /\ Good(Store!Without(manifest, p)) /\ Store!Listed(Store!Without(manifest, p)) = Store!Listed(manifest) \ {p}
         /\ \A n \in Store!NewSessions, q \in Store!Projects : n \notin Store!Without(manifest, p).sessions[q]
         /\ \A q \in Store!NewProjects : Unused(Store!Without(manifest, p), q)
         /\ p # manifest.project => Opens(Store!Without(manifest, p))
         /\ manifest.projects \in Seq(Store!Projects) /\ Store!Place(manifest, p) \in 1..Len(manifest.projects)
<1> DEFINE m == manifest
           d == Store!detachProject(m, p)
           replaced == {q \in m.detached : m.root[q] = m.root[p]}
           e == Store!Without(manifest, p)
           i == Store!Place(m, p)
<1>1. /\ m \in Store!Manifests /\ p \in Store!Projects /\ Good(m)
      /\ \A n \in Store!NewSessions, q \in Store!Projects : n \notin m.sessions[q]
  BY FreshTidy, Fields DEF StoreInv, Shape
<1>2. /\ d \in Store!Manifests /\ d.projects = m.projects /\ d.root = m.root /\ d.project = m.project
      /\ d.detached = (m.detached \ replaced) \cup {p} /\ d.session = m.session /\ d.last = m.last
      /\ d.sessions = [q \in Store!Projects |-> IF q \in replaced THEN {} ELSE m.sessions[q]]
  BY <1>1 DEF Store!Manifests, Store!detachProject
<1>3. e = [d EXCEPT !.projects = Store!RemoveAt(m.projects, i)]
  BY DEF Store!Without
<1> HIDE DEF d, e
<1>4. i \in DOMAIN m.projects /\ m.projects[i] = p
  BY DEF Store!Place, Store!Listed, Store!ToSet
<1> HIDE DEF i
<1>5. /\ Store!RemoveAt(m.projects, i) \in Seq(Store!Projects)
      /\ Store!IsInjective(Store!RemoveAt(m.projects, i))
      /\ Store!ToSet(Store!RemoveAt(m.projects, i)) = Store!Listed(m) \ {p}
  <2>1. m.projects \in Seq(Store!Projects) /\ Store!IsInjective(m.projects)
    BY <1>1, Fields DEF Good, Shape
  <2>2. i \in 1..Len(m.projects)
    BY <1>4, <2>1, LenProperties
  <2> QED BY <1>2, <1>4, <2>1, <2>2, RemoveAtElements DEF Store!Listed
<1>6. /\ e \in Store!Manifests /\ e.projects = Store!RemoveAt(m.projects, i) /\ e.root = m.root
      /\ e.project = m.project /\ e.detached = (m.detached \ replaced) \cup {p} /\ e.session = m.session
      /\ e.last = m.last /\ e.sessions = d.sessions
  BY <1>2, <1>3, <1>5 DEF Store!Manifests
<1>7. Store!Listed(e) = Store!Listed(m) \ {p}
  BY <1>5, <1>6 DEF Store!Listed
<1>8. \A q \in Store!Projects : e.sessions[q] = IF q \in replaced THEN {} ELSE m.sessions[q]
  BY <1>2, <1>6
<1>9. Shape(e)
  <2>1. \A a, b \in e.detached : e.root[a] = e.root[b] => a = b
    BY <1>1, <1>6 DEF Good, Shape
  <2>2. Store!Listed(e) \cap e.detached = {}
    BY <1>1, <1>6, <1>7 DEF Good, Shape
  <2>3. \A a, b \in Store!Projects : a # b => e.sessions[a] \cap e.sessions[b] = {}
    BY <1>1, <1>8 DEF Good, Shape
  <2>4. \A a, b \in Store!Listed(e) : e.root[a] = e.root[b] => a = b
    BY <1>1, <1>6, <1>7 DEF Good, Shape
  <2> QED BY <1>5, <1>6, <2>1, <2>2, <2>3, <2>4 DEF Shape
<1>10. \A q \in Store!Projects \ {p} : Unused(m, q) => Unused(e, q)
  BY <1>6, <1>7, <1>8 DEF Unused
<1>11. created.projects \in Nat /\ \A q \in Store!Projects : q \in Nat
  BY DEF StoreInv, Store!Projects
<1>12. p <= created.projects /\ \A q \in Store!NewProjects : Unused(m, q) /\ q # p /\ q \in Store!Projects
  BY <1>1, <1>11 DEF StoreInv, Fresh, Unused, Store!NewProjects
<1>13. Tidy(e)
  <2>1. \A q \in Store!Projects : q > created.projects + 1 => Unused(e, q)
    BY <1>1, <1>10, <1>11, <1>12 DEF Good, Tidy
  <2>2. \A q \in Store!Projects : q = created.projects + 1 => q \in Store!Listed(e) \/ Unused(e, q)
    BY <1>1, <1>7, <1>10, <1>11, <1>12 DEF Good, Tidy
  <2>3. \A n \in Store!Sessions, q \in Store!Projects : n > created.sessions + 1 => n \notin e.sessions[q]
    BY <1>1, <1>8 DEF Good, Tidy
  <2> QED BY <2>1, <2>2, <2>3 DEF Tidy
<1>14. ASSUME p # m.project PROVE Opens(e)
  <2>1. m.project \in Store!Listed(m) /\ m.project \in Store!Projects /\ m.project \notin replaced
    BY <1>1, Fields DEF StoreInv, Opens, Shape
  <2> QED BY <1>6, <1>7, <1>8, <1>14, <2>1 DEF StoreInv, Opens
<1>15. m.projects \in Seq(Store!Projects) /\ i \in 1..Len(m.projects)
  BY <1>1, <1>4, Fields, LenProperties
<1> QED BY <1>1, <1>7, <1>8, <1>9, <1>10, <1>12, <1>13, <1>14, <1>15 DEF Good, i, e

(* At the first start there is one project with one session.               *)
LEMMA StoreInit == Store!Init => StoreInv
<1> SUFFICES ASSUME Store!Init PROVE StoreInv
  OBVIOUS
<1>0. 1 \in Store!Projects /\ 1 \in Store!Sessions
  BY ProjectsAssumption DEF Store!Projects, Store!Sessions
<1>1. /\ manifest.projects = <<1>> /\ manifest.detached = {} /\ manifest.project = 1 /\ manifest.session = 1
      /\ manifest.sessions = [p \in Store!Projects |-> IF p = 1 THEN {1} ELSE {}]
      /\ manifest.last = [p \in Store!Projects |-> IF p = 1 THEN 1 ELSE Store!NoId]
      /\ created = [projects |-> 1, sessions |-> 1] /\ kept = {}
  BY DEF Store!Init
<1>2. manifest \in Store!Manifests
  <2>1. <<1>> \in Seq(Store!Projects)
    BY <1>0
  <2> QED BY <1>0, <2>1 DEF Store!Init, Store!Manifests, Store!Roots
<1>3. Store!Listed(manifest) = {1} /\ Store!IsInjective(manifest.projects)
  BY <1>1 DEF Store!Listed, Store!ToSet, Store!IsInjective
<1>4. Shape(manifest)
  BY <1>1, <1>2, <1>3 DEF Shape
<1>5. Opens(manifest)
  BY <1>0, <1>1, <1>3 DEF Opens
<1>6. Fresh(manifest)
  BY <1>1, <1>3 DEF Fresh, Unused, Store!Projects, Store!Sessions
<1> QED BY <1>0, <1>1, <1>4, <1>5, <1>6 DEF StoreInv

(* Creating, restoring and activating.                                     *)
LEMMA CreateStep ==
  ASSUME StoreInv, NEW r \in Store!Roots, Store!CreateProject(r)
  PROVE  StoreInv'
<1> DEFINE m == manifest
           listed == {p \in Store!Listed(m) : m.root[p] = r}
           removed == {p \in m.detached : m.root[p] = r}
<1>1. /\ Good(m) /\ \A p \in Store!Projects, n \in Store!NewSessions : n \notin m.sessions[p]
      /\ m \in Store!Manifests
  BY FreshTidy DEF StoreInv, Shape
<1>2. Store!rememberActiveSession(manifest) = m
  BY RememberSame
<1>3. PICK new : /\ Store!Save(new)
                 /\ \/ new \in UNION {Store!Activated(m, p) : p \in listed}
                    \/ listed = {} /\ new \in UNION {UNION {Store!Activated(back, p) : back \in Store!Restored(m, p)}
                                                     : p \in removed}
                    \/ listed = {} /\ removed = {} /\ new \in Store!WithProject(m, r)
  BY <1>2 DEF Store!CreateProject
<1>4. kept' \subseteq Store!Sessions
  BY DEF Store!CreateProject, StoreInv
<1>5. ASSUME NEW p \in listed, new \in Store!Activated(m, p) PROVE Good(new) /\ Opens(new)
  BY <1>1, <1>5, ActivatedGood
<1>6. ASSUME listed = {}, NEW p \in removed, NEW back \in Store!Restored(m, p), new \in Store!Activated(back, p)
      PROVE  Good(new) /\ Opens(new)
  <2>1. Good(back) /\ p \in Store!Listed(back)
        /\ \A n \in Store!NewSessions, q \in Store!Projects \ {p} : n \notin back.sessions[q]
    BY <1>6, RestoredGood
  <2> HIDE DEF m
  <2> QED BY <1>6, <2>1, ActivatedGood
<1>7. ASSUME listed = {}, removed = {}, new \in Store!WithProject(m, r) PROVE Good(new) /\ Opens(new)
  <2>1. \A p \in Store!NewProjects : Unused(m, p)
    BY DEF Store!NewProjects, StoreInv, Fresh, Store!Projects
  <2>2. \A q \in Store!Listed(m) : m.root[q] # r
    BY <1>7
  <2> HIDE DEF m
  <2> QED BY <1>1, <1>7, <2>1, <2>2, WithProjectGood
<1>8. Good(new) /\ Opens(new)
  BY <1>3, <1>5, <1>6, <1>7
<1> QED BY <1>3, <1>4, <1>8, ManifestSaved

(* Removing: what is active afterwards is listed.                          *)
LEMMA RemoveStep ==
  ASSUME StoreInv, NEW p \in Store!Projects, Store!RemoveProject(p)
  PROVE  StoreInv'
<1> DEFINE m == manifest
           without == Store!Without(m, p)
           rest == without.projects
           neighbour == Store!Neighbour(m, p)
<1>1. p \in Store!Listed(manifest) /\ kept' \subseteq Store!Sessions
  BY DEF Store!RemoveProject, StoreInv
<1>2. PICK new : /\ Store!Save(new)
                 /\ \/ rest = <<>> /\ new \in Store!WithProject(without, Store!Fallback(m.root[p]))
                    \/ p # m.project /\ new = without
                    \/ rest # <<>> /\ new \in Store!Activated(without, neighbour)
  BY RememberSame DEF Store!RemoveProject
<1>3. /\ Good(without)
      /\ \A n \in Store!NewSessions, q \in Store!Projects : n \notin without.sessions[q]
      /\ \A q \in Store!NewProjects : Unused(without, q)
      /\ p # m.project => Opens(without)
      /\ Store!Place(m, p) \in 1..Len(m.projects) /\ m.projects \in Seq(Store!Projects)
  BY <1>1, RemovedGood
<1>4. rest \in Seq(Store!Projects) /\ Store!Place(m, p) \in Nat \ {0}
  BY <1>3, Fields DEF Good, Shape
<1>5. neighbour = rest[IF Store!Place(m, p) <= Len(rest) THEN Store!Place(m, p) ELSE Len(rest)]
  BY DEF Store!Neighbour
<1> HIDE DEF m, rest, without, neighbour
<1>6. CASE rest = <<>> /\ new \in Store!WithProject(without, Store!Fallback(m.root[p]))
  <2>1. Store!Listed(without) = {}
    BY <1>6 DEF Store!Listed, Store!ToSet, rest
  <2>2. Store!Fallback(m.root[p]) \in Store!Roots
    BY DEF Store!Fallback, Store!Roots
  <2>3. Good(new) /\ Opens(new)
    BY <1>3, <1>6, <2>1, <2>2, WithProjectGood
  <2> QED BY <1>1, <1>2, <2>3, ManifestSaved
<1>7. CASE p # m.project /\ new = without
  BY <1>1, <1>2, <1>3, <1>7, ManifestSaved
<1>8. CASE rest # <<>> /\ new \in Store!Activated(without, neighbour)
  <2>1. Len(rest) \in Nat \ {0} /\ DOMAIN rest = 1..Len(rest)
    BY <1>4, <1>8
  <2>2. neighbour \in Store!Listed(without)
    BY <1>4, <1>5, <2>1 DEF Store!Listed, Store!ToSet, rest
  <2>3. Good(new) /\ Opens(new)
    BY <1>3, <1>8, <2>2, ActivatedGood
  <2> QED BY <1>1, <1>2, <2>3, ManifestSaved
<1> QED BY <1>2, <1>6, <1>7, <1>8

(* Switching to a project, and to a session.                               *)
LEMMA SwitchStep ==
  ASSUME StoreInv, NEW p \in Store!Projects,
         Store!SwitchProject(p) \/ \E n \in Store!Sessions : Store!SwitchProjectSession(p, n)
  PROVE  StoreInv'
<1>1. /\ Good(manifest) /\ \A q \in Store!Projects, n \in Store!NewSessions : n \notin manifest.sessions[q]
      /\ manifest \in Store!Manifests /\ manifest.last \in [Store!Projects -> Store!Sessions \cup {Store!NoId}]
  BY FreshTidy, Fields DEF StoreInv, Shape
<1>2. kept' \subseteq Store!Sessions /\ p \in Store!Listed(manifest)
  BY DEF Store!SwitchProject, Store!SwitchProjectSession, StoreInv
<1>3. CASE Store!SwitchProject(p)
  <2>1. PICK new \in Store!Activated(manifest, p) : Store!Save(new)
    BY <1>3, RememberSame DEF Store!SwitchProject
  <2>2. Good(new) /\ Opens(new)
    BY <1>1, <1>2, ActivatedGood
  <2> QED BY <1>2, <2>1, <2>2, ManifestSaved
<1>4. ASSUME NEW n \in Store!Sessions, Store!SwitchProjectSession(p, n) PROVE StoreInv'
  <2> DEFINE new == [manifest EXCEPT !.project = p, !.session = n, !.last[p] = n]
  <2>1. Store!Save(new) /\ n \in manifest.sessions[p]
    BY <1>4, RememberSame DEF Store!SwitchProjectSession
  <2>2. /\ new \in Store!Manifests /\ new.projects = manifest.projects /\ new.detached = manifest.detached
        /\ new.root = manifest.root /\ new.sessions = manifest.sessions /\ new.project = p /\ new.session = n
        /\ new.last = [manifest.last EXCEPT ![p] = n]
    BY <1>1 DEF Store!Manifests
  <2> HIDE DEF new
  <2>3. new.last[p] = n
    BY <1>1, <2>2
  <2>4. Good(new) /\ Opens(new)
    BY <1>1, <1>2, <2>1, <2>2, <2>3, SameGood DEF Opens
  <2> QED BY <1>2, <2>1, <2>4, ManifestSaved
<1> QED BY <1>3, <1>4

(* A new session in the active project; m may say more of its sessions.    *)
LEMMA ActiveSessionGood ==
  ASSUME StoreInv, NEW m \in Store!Manifests, m.projects = manifest.projects, m.detached = manifest.detached,
         m.root = manifest.root, m.sessions = manifest.sessions, m.project = manifest.project,
         NEW n \in Store!NewSessions, NEW new, new = [Store!WithSession(m, m.project, n) EXCEPT !.session = n]
  PROVE  Good(new) /\ Opens(new)
<1> DEFINE e == Store!WithSession(m, m.project, n)
<1>1. /\ Good(manifest) /\ \A q \in Store!Projects : n \notin manifest.sessions[q]
      /\ manifest.project \in Store!Listed(manifest)
  BY FreshTidy DEF StoreInv, Opens
<1>2. Good(m) /\ Store!Listed(m) = Store!Listed(manifest)
  BY <1>1, SameGood
<1>3. /\ Good(e) /\ Store!Listed(e) = Store!Listed(m) /\ e.last[m.project] = n /\ n \in e.sessions[m.project]
      /\ e.project = m.project
  BY <1>1, <1>2, NewSessionGood
<1>4. e \in Store!Manifests /\ n \in Store!Sessions
  BY <1>3 DEF Good, Shape, Store!NewSessions
<1> HIDE DEF e
<1>5. new = [e EXCEPT !.session = n]
  BY DEF e
<1>6. /\ new \in Store!Manifests /\ new.projects = e.projects /\ new.detached = e.detached
      /\ new.root = e.root /\ new.sessions = e.sessions /\ new.last = e.last /\ new.project = e.project
      /\ new.session = n
  BY <1>4, <1>5 DEF Store!Manifests
<1>7. Good(new) /\ Store!Listed(new) = Store!Listed(e)
  BY <1>3, <1>6, SameGood
<1> QED BY <1>1, <1>2, <1>3, <1>6, <1>7 DEF Opens

(* New sessions, and the archive.                                          *)
LEMMA SessionStep ==
  ASSUME StoreInv,
         \/ Store!NewSession \/ Store!Chat
         \/ \E p \in Store!Projects : Store!SetProjectSessionsArchived(p)
         \/ \E p \in Store!Projects, n \in Store!Sessions : Store!SetArchivedForProject(p, n)
  PROVE  StoreInv'
<1>1. /\ Good(manifest) /\ Opens(manifest) /\ manifest \in Store!Manifests /\ manifest.archived \in SUBSET Store!Sessions
      /\ manifest.sessions \in [Store!Projects -> SUBSET Store!Sessions] /\ manifest.session \in Store!Sessions
  BY FreshTidy, Fields DEF StoreInv, Shape
<1>2. kept' \subseteq Store!Sessions
  BY <1>1 DEF Store!NewSession, Store!Chat, Store!SetProjectSessionsArchived, Store!SetArchivedForProject, StoreInv
<1>3. CASE Store!NewSession
  <2>1. PICK n \in Store!NewSessions :
          Store!Save([Store!WithSession(manifest, manifest.project, n) EXCEPT !.session = n])
    BY <1>3 DEF Store!NewSession
  <2> DEFINE new == [Store!WithSession(manifest, manifest.project, n) EXCEPT !.session = n]
  <2>2. new = [Store!WithSession(manifest, manifest.project, n) EXCEPT !.session = n] /\ Store!Save(new)
    BY <2>1
  <2> HIDE DEF new
  <2>3. Good(new) /\ Opens(new)
    BY <1>1, <2>2, ActiveSessionGood
  <2> QED BY <1>2, <2>2, <2>3, ManifestSaved
<1>4. CASE Store!Chat
  <2>1. Store!Save(manifest)
    BY <1>4, RememberSame, <1>1 DEF Store!Chat, Store!rememberActiveSession, Opens
  <2> QED BY <1>1, <1>2, <2>1, ManifestSaved
<1>5. ASSUME NEW marked \in SUBSET Store!Sessions
      PROVE  LET e == [manifest EXCEPT !.archived = marked] IN
             /\ Good(e) /\ Opens(e) /\ e \in Store!Manifests /\ e.projects = manifest.projects
             /\ e.detached = manifest.detached /\ e.root = manifest.root /\ e.sessions = manifest.sessions
             /\ e.project = manifest.project
  <2> DEFINE e == [manifest EXCEPT !.archived = marked]
  <2>1. /\ e \in Store!Manifests /\ e.projects = manifest.projects /\ e.detached = manifest.detached
        /\ e.root = manifest.root /\ e.sessions = manifest.sessions /\ e.project = manifest.project
        /\ e.session = manifest.session /\ e.last = manifest.last
    BY <1>1 DEF Store!Manifests
  <2> HIDE DEF e
  <2>2. Good(e) /\ Opens(e)
    BY <1>1, <2>1, SameGood DEF Opens
  <2> QED BY <2>1, <2>2 DEF e
<1>6. ASSUME NEW p \in Store!Projects, NEW n \in Store!Sessions, Store!SetArchivedForProject(p, n) PROVE StoreInv'
  <2>1. PICK marked \in SUBSET Store!Sessions : Store!Save([manifest EXCEPT !.archived = marked])
    BY <1>1, <1>6 DEF Store!SetArchivedForProject
  <2> DEFINE new == [manifest EXCEPT !.archived = marked]
  <2>2. Good(new) /\ Opens(new) /\ Store!Save(new)
    BY <1>5, <2>1
  <2> HIDE DEF new
  <2> QED BY <1>2, <2>2, ManifestSaved
<1>7. ASSUME NEW p \in Store!Projects, Store!SetProjectSessionsArchived(p) PROVE StoreInv'
  <2> DEFINE marked == manifest.archived \cup manifest.sessions[p]
             m == [manifest EXCEPT !.archived = marked]
  <2>1. marked \in SUBSET Store!Sessions
    BY <1>1
  <2>2. \/ p # m.project /\ Store!Save(m)
        \/ p = m.project /\ \E n \in Store!NewSessions : Store!Save([Store!WithSession(m, p, n) EXCEPT !.session = n])
    BY <1>7 DEF Store!SetProjectSessionsArchived
  <2>3. /\ Good(m) /\ Opens(m) /\ m \in Store!Manifests /\ m.projects = manifest.projects
        /\ m.detached = manifest.detached /\ m.root = manifest.root /\ m.sessions = manifest.sessions
        /\ m.project = manifest.project
    BY <1>5, <2>1
  <2> HIDE DEF m
  <2>4. CASE Store!Save(m)
    BY <1>2, <2>3, <2>4, ManifestSaved
  <2>5. ASSUME p = m.project, NEW n \in Store!NewSessions,
               Store!Save([Store!WithSession(m, p, n) EXCEPT !.session = n])
        PROVE  StoreInv'
    <3> DEFINE new == [Store!WithSession(m, p, n) EXCEPT !.session = n]
    <3>1. new = [Store!WithSession(m, m.project, n) EXCEPT !.session = n] /\ Store!Save(new)
      BY <2>5
    <3> HIDE DEF new
    <3>2. Good(new) /\ Opens(new)
      BY <2>3, <3>1, ActiveSessionGood
    <3> QED BY <1>2, <3>1, <3>2, ManifestSaved
  <2> QED BY <2>2, <2>4, <2>5
<1> QED BY <1>3, <1>4, <1>6, <1>7

(* A session is deleted; another one becomes active when it was.           *)
LEMMA DeleteStep ==
  ASSUME StoreInv, NEW p \in Store!Projects, NEW s \in Store!Sessions, Store!DeleteProjectSession(p, s)
  PROVE  StoreInv'
<1> DEFINE m == [manifest EXCEPT !.sessions[p] = @ \ {s}, !.archived = @ \ {s},
                                 !.last[p] = IF @ = s THEN Store!NoId ELSE @]
<1>1. /\ Good(manifest) /\ Opens(manifest) /\ manifest \in Store!Manifests
      /\ \A q \in Store!Projects, n \in Store!NewSessions : n \notin manifest.sessions[q]
  BY FreshTidy, Fields DEF StoreInv, Shape
<1>2. p \in Store!Listed(manifest) /\ kept' \subseteq Store!Sessions
  BY DEF Store!DeleteProjectSession, StoreInv
<1>3. \/ p = m.project /\ s = m.session /\ \E new \in Store!Activated(m, p) : Store!Save(new)
      \/ ~(p = m.project /\ s = m.session) /\ Store!Save(m)
  BY DEF Store!DeleteProjectSession
<1>4. /\ m \in Store!Manifests /\ m.projects = manifest.projects /\ m.detached = manifest.detached
      /\ m.root = manifest.root /\ m.project = manifest.project /\ m.session = manifest.session
      /\ m.sessions = [manifest.sessions EXCEPT ![p] = manifest.sessions[p] \ {s}]
      /\ m.last = [manifest.last EXCEPT ![p] = IF manifest.last[p] = s THEN Store!NoId ELSE manifest.last[p]]
  BY <1>1 DEF Store!Manifests
<1> HIDE DEF m
<1>5. /\ m.sessions[p] = manifest.sessions[p] \ {s}
      /\ \A q \in Store!Projects \ {p} : m.sessions[q] = manifest.sessions[q] /\ m.last[q] = manifest.last[q]
      /\ m.last[p] = IF manifest.last[p] = s THEN Store!NoId ELSE manifest.last[p]
  BY <1>1, <1>4, Fields
<1>6. Store!Listed(m) = Store!Listed(manifest) /\ manifest.project \in Store!Projects
  BY <1>1, <1>4, Fields DEF Store!Listed
<1>7. Shape(m)
  BY <1>1, <1>4, <1>5, <1>6 DEF Good, Shape
<1>8. Tidy(m)
  BY <1>1, <1>4, <1>5, <1>6 DEF Good, Tidy, Unused
<1>9. CASE p = m.project /\ s = m.session /\ \E new \in Store!Activated(m, p) : Store!Save(new)
  <2>1. PICK new \in Store!Activated(m, p) : Store!Save(new)
    BY <1>9
  <2>2. Good(new) /\ Opens(new)
    BY <1>1, <1>2, <1>5, <1>6, <1>7, <1>8, ActivatedGood DEF Good
  <2> QED BY <1>2, <2>1, <2>2, ManifestSaved
<1>10. CASE ~(p = m.project /\ s = m.session) /\ Store!Save(m)
  <2>1. Opens(m)
    BY <1>1, <1>4, <1>5, <1>6, <1>10 DEF Opens
  <2> QED BY <1>2, <1>7, <1>8, <1>10, <2>1, ManifestSaved DEF Good
<1> QED BY <1>3, <1>9, <1>10

(* Every step keeps the manifest in order.                                 *)
LEMMA StoreStep ==
  ASSUME StoreInv, [Store!Next]_(Store!vars)
  PROVE  StoreInv'
<1>1. CASE UNCHANGED Store!vars
  BY <1>1 DEF Store!vars, StoreInv, Shape, Opens, Fresh, Unused, Store!Listed
<1> QED BY <1>1, CreateStep, RemoveStep, SwitchStep, SessionStep, DeleteStep DEF Store!Next

(* A step of the program is a step of the project store or none of it.     *)
LEMMA StoreMapsStep == [Next]_vars => [Store!Next]_(Store!vars)
<1>1. ASSUME UNCHANGED projects PROVE UNCHANGED Store!vars
  BY <1>1 DEF projects, Store!vars
<1> QED BY <1>1 DEF Next, vars

(* However projects are added, removed, restored and switched, and sessions *)
(* made, archived and deleted, what is active is a session of a project    *)
(* that is listed, no project is listed twice or both listed and removed,  *)
(* no two projects of one workspace are listed, and no session is of two   *)
(* projects (project/store.go).                                            *)
THEOREM ProjectsSoundAlways == Spec => []Store!TypeOK
<1>1. Init => StoreInv
  BY StoreInit DEF Init
<1>2. StoreInv /\ [Next]_vars => StoreInv'
  BY StoreStep, StoreMapsStep
<1>3. StoreInv => Store!TypeOK
  BY DEF StoreInv, Shape, Opens, Store!TypeOK, Store!Sound
<1> QED BY <1>1, <1>2, <1>3, PTL DEF Spec
=============================================================================
