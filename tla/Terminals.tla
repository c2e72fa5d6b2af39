-------------------------------- MODULE Terminals --------------------------------
(***************************************************************************)
(* The terminal manager (internal/terminal/manager.go): shells started by  *)
(* the user and by tools at the same time, at most MaxSessions of them,    *)
(* with those that have ended kept for their output until room is needed.  *)
(* The place of a session is reserved before its process is started, and   *)
(* the session listed afterwards, each under the lock of the manager.      *)
(***************************************************************************)
EXTENDS Naturals, FiniteSets, FiniteSetsExt

CONSTANTS Shells, MaxSessions

VARIABLES
  phase,     \* of the start of a shell; "listed" is over, "gone" is pruned
  process,   \* its process
  running,   \* its flag, cleared by the goroutine that waits for the process
  starting,  \* reserved places
  stops      \* calls of Stop and, for StopAll, the sessions it has yet to stop

vars == <<phase, process, running, starting, stops>>

Init ==
  /\ phase = [s \in Shells |-> "none"] /\ process = [s \in Shells |-> "none"]
  /\ running = [s \in Shells |-> FALSE] /\ starting = 0 /\ stops = {}

TypeOK ==
  /\ phase \in [Shells -> {"none", "reserved", "started", "listed", "gone"}]
  /\ process \in [Shells -> {"none", "alive", "dead"}]
  /\ running \in [Shells -> BOOLEAN] /\ starting \in 0..MaxSessions /\ stops \in SUBSET Shells

Listed == {s \in Shells : phase[s] = "listed"}
Finished == {s \in Listed : ~running[s]}

(* pruneToLocked: the oldest sessions that have ended, as many as there    *)
(* are too many.  Their start is known to the second, which leaves open    *)
(* which of them are the oldest.                                           *)
PrunedTo(limit) ==
  {drop \in SUBSET Finished :
     Cardinality(drop) = Min({Cardinality(Finished), Max({0, Cardinality(Listed) - limit})})}

(* reserveStart.                                                           *)
Room == IF MaxSessions > starting + 1 THEN MaxSessions - starting - 1 ELSE 0

(* Not the code: places that are reserved do not count.                    *)
HasPlaceListed(listed) == Cardinality(listed) < MaxSessions

HasPlace(listed) == Cardinality(listed) + starting < MaxSessions

Reserve(s) ==
  /\ phase[s] = "none"
  /\ \E drop \in PrunedTo(Room) :
       /\ HasPlace(Listed \ drop)
       /\ phase' = [t \in Shells |-> IF t \in drop THEN "gone" ELSE IF t = s THEN "reserved" ELSE phase[t]]
  /\ starting' = starting + 1
  /\ UNCHANGED <<process, running, stops>>

(* Refused; what was pruned stays so.                                      *)
Refuse(s) ==
  /\ phase[s] = "none"
  /\ \E drop \in PrunedTo(Room) :
       /\ ~HasPlace(Listed \ drop)
       /\ phase' = [t \in Shells |-> IF t \in drop \cup {s} THEN "gone" ELSE phase[t]]
  /\ UNCHANGED <<process, running, starting, stops>>

StartFails(s) ==
  /\ phase[s] = "reserved"
  /\ phase' = [phase EXCEPT ![s] = "gone"] /\ starting' = starting - 1
  /\ UNCHANGED <<process, running, stops>>

StartProcess(s) ==
  /\ phase[s] = "reserved"
  /\ phase' = [phase EXCEPT ![s] = "started"]
  /\ process' = [process EXCEPT ![s] = "alive"] /\ running' = [running EXCEPT ![s] = TRUE]
  /\ UNCHANGED <<starting, stops>>

(* The session is listed, and room made for it: pruneLocked looks at the   *)
(* list with the new session in it.                                        *)
List(s) ==
  /\ phase[s] = "started"
  /\ starting' = starting - 1
  /\ \E drop \in PrunedTo(MaxSessions - 1) :
       phase' = [t \in Shells |-> IF t \in drop THEN "gone" ELSE IF t = s THEN "listed" ELSE phase[t]]
  /\ UNCHANGED <<process, running, stops>>

Exits(s) ==
  /\ process[s] = "alive"
  /\ process' = [process EXCEPT ![s] = "dead"]
  /\ UNCHANGED <<phase, running, starting, stops>>

(* wait, which is only called once the session is listed.                  *)
Wait(s) ==
  /\ phase[s] = "listed" /\ process[s] = "dead" /\ running[s]
  /\ running' = [running EXCEPT ![s] = FALSE]
  /\ UNCHANGED <<phase, process, starting, stops>>

(* Stop of one session, or of those StopAll has found.                     *)
Stop(found) ==
  /\ stops = {} /\ found \in {Listed} \cup {{s} : s \in Listed} /\ found # {}
  /\ stops' = found
  /\ UNCHANGED <<phase, process, running, starting>>

(* One that runs is killed, which may fail, and waited for, but not        *)
(* longer than five seconds.                                               *)
StopOne(s) ==
  /\ s \in stops
  /\ process' \in {process, [process EXCEPT ![s] = IF running[s] THEN "dead" ELSE @]}
  /\ stops' = stops \ {s}
  /\ UNCHANGED <<phase, running, starting>>

Next == \/ \E s \in Shells : \/ Reserve(s) \/ Refuse(s) \/ StartFails(s) \/ StartProcess(s) \/ List(s)
                             \/ Exits(s) \/ Wait(s) \/ StopOne(s)
        \/ \E found \in SUBSET Shells : Stop(found)

Spec == Init /\ [][Next]_vars

----------------------------------------------------------------------------
(* However starts overlap, there are never more sessions than allowed, and *)
(* a process that lives can be reached: its session is listed or being     *)
(* started.                                                                *)
TerminalsBounded ==
  /\ Cardinality(Listed) + starting <= MaxSessions
  /\ \A s \in Shells : process[s] = "alive" => phase[s] \in {"started", "listed"}
=============================================================================
