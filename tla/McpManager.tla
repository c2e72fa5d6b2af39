-------------------------------- MODULE McpManager -------------------------------
(***************************************************************************)
(* The connections to one MCP server (internal/mcp/manager.go) while they  *)
(* are configured anew, break, and report changes of their tools.  A       *)
(* managed server is connected outside the lock, then swapped in; one      *)
(* goroutine waits for its session to end, others fetch its tools again.   *)
(* Callers of configure hold the activity of the service (beginActivity,   *)
(* agent/service.go), so that there is one at a time; Close does without.  *)
(***************************************************************************)
EXTENDS Naturals, FiniteSets

CONSTANTS
  Managed,     \* managed servers, each made once (bound)
  Configures,  \* calls of configure
  None

VARIABLES
  settings,  \* the settings have changed since the managed server was made
  server,    \* servers[id], or None
  managed,   \* the managed servers made so far
  call,      \* calls of configure
  fetching,  \* managed servers whose tools are being fetched again
  closing,   \* Close: "no", a managed server still to be closed, or "done"
  activity   \* who has the activity of the service

vars == <<settings, server, managed, call, fetching, closing, activity>>

Unmade == [session |-> "none", known |-> FALSE, state |-> "none", watched |-> FALSE]
IdleCall == [pc |-> "idle", previous |-> None, next |-> None]

Init ==
  /\ settings = FALSE /\ server = None /\ managed = [m \in Managed |-> Unmade]
  /\ call = [c \in Configures |-> IdleCall] /\ fetching = {} /\ closing = "no" /\ activity = None

TypeOK ==
  /\ settings \in BOOLEAN /\ server \in Managed \cup {None} /\ fetching \in SUBSET Managed
  /\ managed \in [Managed -> [session : {"none", "open", "ended"}, known : BOOLEAN,
                              state : {"none", "ready", "error"}, watched : BOOLEAN]]
  /\ call \in [Configures -> [pc : {"idle", "connect", "fetch", "swap", "close"},
                              previous : Managed \cup {None}, next : Managed \cup {None}]]
  /\ closing \in {"no", "done"} \cup Managed /\ activity \in Configures \cup {None}

Field(m, f) == managed' = [managed EXCEPT ![m] = f]

----------------------------------------------------------------------------
(* configure.                                                              *)

(* Not the code: configure is called whatever else goes on.                *)
MayConfigureAlways(c) == call[c].pc = "idle" /\ closing \notin Managed

(* Close holds the lock that comes with the activity.                      *)
MayConfigure(c) == call[c].pc = "idle" /\ closing \notin Managed /\ activity = None

(* A connection that is ready is kept when nothing has changed and no      *)
(* refresh is forced.                                                      *)
Configure(c, forced) ==
  /\ MayConfigure(c)
  /\ IF server # None /\ ~forced /\ ~settings /\ managed[server].known /\ managed[server].state = "ready"
     THEN UNCHANGED <<call, activity>>
     ELSE /\ activity' = c
          /\ \E m \in Managed :
               /\ managed[m] = Unmade /\ \A d \in Configures : call[d].next # m
               /\ call' = [call EXCEPT ![c] = [pc |-> "connect", previous |-> server, next |-> m]]
  /\ settings' = FALSE
  /\ UNCHANGED <<server, managed, fetching, closing>>

(* connectServer: the session is opened, its tools are fetched, and it is  *)
(* closed again when they cannot be.                                       *)
Connect(c) ==
  LET m == call[c].next IN
  /\ call[c].pc = "connect"
  /\ \/ /\ Field(m, [Unmade EXCEPT !.session = "open", !.known = TRUE])
        /\ call' = [call EXCEPT ![c].pc = "fetch"]
     \/ /\ Field(m, [Unmade EXCEPT !.state = "error"])
        /\ call' = [call EXCEPT ![c].pc = "swap"]
  /\ UNCHANGED <<settings, server, fetching, closing, activity>>

Fetch(c) ==
  LET m == call[c].next IN
  /\ call[c].pc = "fetch"
  /\ \/ managed[m].session = "open" /\ Field(m, [managed[m] EXCEPT !.state = "ready"])
     \/ Field(m, [Unmade EXCEPT !.session = "ended", !.state = "error"])
  /\ call' = [call EXCEPT ![c].pc = "swap"]
  /\ UNCHANGED <<settings, server, fetching, closing, activity>>

Swap(c) ==
  LET m == call[c].next IN
  /\ call[c].pc = "swap"
  /\ server' = m
  /\ Field(m, [managed[m] EXCEPT !.watched = managed[m].known])
  /\ call' = [call EXCEPT ![c].pc = "close"]
  /\ UNCHANGED <<settings, fetching, closing, activity>>

(* closeManagedServer of m.                                                *)
Closed(m) ==
  IF m # None /\ managed[m].known THEN Field(m, [managed[m] EXCEPT !.session = "ended"])
  ELSE UNCHANGED managed

CloseReplaced(c) ==
  /\ call[c].pc = "close"
  /\ Closed(call[c].previous)
  /\ call' = [call EXCEPT ![c] = IdleCall]
  /\ activity' = IF activity = c THEN None ELSE activity
  /\ UNCHANGED <<settings, server, fetching, closing>>

----------------------------------------------------------------------------
(* The other goroutines.                                                   *)

SessionEnds(m) ==
  /\ managed[m].session = "open"
  /\ Field(m, [managed[m] EXCEPT !.session = "ended"])
  /\ UNCHANGED <<settings, server, call, fetching, closing, activity>>

(* watchServer, of the server that is listed only.                         *)
Watch(m) ==
  /\ managed[m].watched /\ managed[m].session = "ended"
  /\ Field(m, [managed[m] EXCEPT !.watched = FALSE, !.known = @ /\ server # m,
                                 !.state = IF server = m THEN "error" ELSE @])
  /\ UNCHANGED <<settings, server, call, fetching, closing, activity>>

(* refreshTools: looks the session up, asks it, and takes what it said.    *)
ToolsChanged(m) ==
  /\ server = m /\ managed[m].known /\ managed[m].session = "open" /\ m \notin fetching
  /\ fetching' = fetching \cup {m}
  /\ UNCHANGED <<settings, server, managed, call, closing, activity>>

TakeTools(m, fetched) ==
  /\ m \in fetching
  /\ fetching' = fetching \ {m}
  /\ IF fetched /\ server = m THEN Field(m, [managed[m] EXCEPT !.state = "ready"])
     ELSE UNCHANGED managed
  /\ UNCHANGED <<settings, server, call, closing, activity>>

ChangeSettings ==
  /\ ~settings /\ activity = None
  /\ settings' = TRUE
  /\ UNCHANGED <<server, managed, call, fetching, closing, activity>>

(* Close waits for a configure under way; nothing keeps later ones out.    *)
Close ==
  /\ closing = "no" /\ activity = None
  /\ server' = None /\ closing' = IF server = None THEN "done" ELSE server
  /\ UNCHANGED <<settings, managed, call, fetching, activity>>

CloseLast ==
  /\ closing \in Managed
  /\ Closed(closing)
  /\ closing' = "done"
  /\ UNCHANGED <<settings, server, call, fetching, activity>>

Next ==
  \/ \E c \in Configures : \/ \E forced \in BOOLEAN : Configure(c, forced)
                           \/ Connect(c) \/ Fetch(c) \/ Swap(c) \/ CloseReplaced(c)
  \/ \E m \in Managed : \/ SessionEnds(m) \/ Watch(m) \/ ToolsChanged(m)
                        \/ \E fetched \in BOOLEAN : TakeTools(m, fetched)
  \/ ChangeSettings \/ Close \/ CloseLast

Spec == Init /\ [][Next]_vars

----------------------------------------------------------------------------
(* Every open session has an owner who will close it: it belongs to the    *)
(* server that is listed, to a configure under way or to Close; no         *)
(* connection is left open when a server is replaced or everything closed. *)
SessionsOwned ==
  \A m \in Managed :
    managed[m].session = "open" =>
      \/ server = m \/ closing = m
      \/ \E c \in Configures :
           \/ call[c].next = m /\ call[c].pc \in {"fetch", "swap"}
           \/ call[c].previous = m /\ call[c].pc = "close"
=============================================================================
