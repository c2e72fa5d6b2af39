------------------------------ MODULE BrowserEngine ------------------------------
(***************************************************************************)
(* Starting, configuring and stopping the managed browser                  *)
(* (internal/browserengine/service.go).  Calls of the window and of tools  *)
(* run at the same time.  startMu is held while a browser is started or    *)
(* stopped, which takes long; mu only guards the fields, so that settings  *)
(* and rootCtx are read and changed while a start is under way.            *)
(*                                                                         *)
(* On Windows the browser is a WebView2 that a thread of the program hosts *)
(* (native_surface_windows.go), elsewhere a process of its own, for which  *)
(* several programs and profiles are tried: the window always asks for     *)
(* NativePresentation.  Pages, profiles and downloads are left out.        *)
(***************************************************************************)
EXTENDS Naturals, FiniteSets

CONSTANTS BrowserCallers, MaxBrowsers, Nobody

VARIABLES
  embedded,  \* the surface is an embeddedNativeBrowserSurface
  wanted,    \* s.settings; flags is what a browser is started with
  startMu,
  rootCtx,   \* the browser of that context, 0 for none
  alive,     \* browsers that run
  request    \* calls

vars == <<embedded, wanted, startMu, rootCtx, alive, request>>

Browsers == 1..MaxBrowsers
NoBrowser == 0
Settings == [enabled : BOOLEAN, flags : BOOLEAN]
(* "stop" and "start" wait for startMu.                                    *)
Idle == [pc |-> "idle", browser |-> NoBrowser]
AtWork == {"stop", "stopping", "starting", "running", "permit", "clearing"}

Init ==
  /\ embedded \in BOOLEAN /\ wanted = [enabled |-> FALSE, flags |-> FALSE]
  /\ startMu = Nobody /\ rootCtx = NoBrowser /\ alive = {}
  /\ request = [c \in BrowserCallers |-> Idle]

TypeOK ==
  /\ embedded \in BOOLEAN /\ wanted \in Settings /\ startMu \in BrowserCallers \cup {Nobody}
  /\ rootCtx \in Browsers \cup {NoBrowser} /\ alive \subseteq Browsers
  /\ request \in [BrowserCallers -> [pc : AtWork \cup {"idle", "start", "open"},
                                     browser : Browsers \cup {NoBrowser}]]

Goes(c, pc, b) == request' = [request EXCEPT ![c] = [pc |-> pc, browser |-> b]]

----------------------------------------------------------------------------
(* Configure and Stop                                                      *)

(* Not the code: only a browser that runs is stopped.                      *)
MustStopRunning(s) == rootCtx # NoBrowser /\ (~s.enabled \/ s.flags # wanted.flags)

MustStop(s) == ~s.enabled \/ (rootCtx # NoBrowser /\ s.flags # wanted.flags)

Configure(c, s) ==
  /\ request[c].pc = "idle"
  /\ wanted' = s
  /\ IF MustStop(s) THEN Goes(c, "stop", NoBrowser) ELSE UNCHANGED request
  /\ UNCHANGED <<embedded, startMu, rootCtx, alive>>

(* By ClearData, and when the program ends.                                *)
CallStop(c) ==
  /\ request[c].pc = "idle"
  /\ Goes(c, "stop", NoBrowser)
  /\ UNCHANGED <<embedded, wanted, startMu, rootCtx, alive>>

(* Not the code: the lock is only held while the fields are cleared.       *)
ClearUnlocked(c) ==
  /\ request[c].pc = "stop" /\ startMu = Nobody
  /\ rootCtx' = NoBrowser
  /\ Goes(c, "stopping", rootCtx)
  /\ UNCHANGED <<embedded, wanted, startMu, alive>>

Clear(c) ==
  /\ request[c].pc = "stop" /\ startMu = Nobody
  /\ startMu' = c /\ rootCtx' = NoBrowser
  /\ Goes(c, "stopping", rootCtx)
  /\ UNCHANGED <<embedded, wanted, alive>>

(* Close ends what the surface hosts.  The thread is taken to answer       *)
(* within the five seconds that Close waits for it.                        *)
Without(b) == IF embedded THEN {} ELSE alive \ {b}

Close(c) ==
  /\ request[c].pc = "stopping"
  /\ alive' = Without(request[c].browser)
  /\ startMu' = Nobody /\ Goes(c, "idle", NoBrowser)
  /\ UNCHANGED <<embedded, wanted, rootCtx>>

----------------------------------------------------------------------------
(* Open and RenderURLScreenshot, with ensureStarted                        *)

Open(c) ==
  /\ request[c].pc = "idle"
  /\ Goes(c, "start", NoBrowser)
  /\ UNCHANGED <<embedded, wanted, startMu, rootCtx, alive>>

EnsureStarted(c) ==
  /\ request[c].pc = "start" /\ startMu = Nobody
  /\ \/ /\ rootCtx # NoBrowser
        /\ Goes(c, "open", NoBrowser) /\ UNCHANGED startMu
     \/ /\ rootCtx = NoBrowser /\ wanted.enabled
        /\ startMu' = c /\ Goes(c, "starting", NoBrowser)
     \/ /\ rootCtx = NoBrowser /\ ~wanted.enabled
        /\ Goes(c, "idle", NoBrowser) /\ UNCHANGED startMu
  /\ UNCHANGED <<embedded, wanted, rootCtx, alive>>

(* startBrowser, or Start of the surface, which closes what it hosts.      *)
Launch(c) ==
  /\ request[c].pc = "starting"
  /\ \E b \in Browsers \ alive :
       /\ \A other \in Browsers \ alive : b <= other
       /\ alive' = Without(NoBrowser) \cup {b}
       /\ Goes(c, "running", b)
  /\ UNCHANGED <<embedded, wanted, startMu, rootCtx>>

(* The next program or profile is tried, or an error returned.             *)
TriesOrFails(c) ==
  \/ /\ ~embedded /\ Goes(c, "starting", NoBrowser) /\ UNCHANGED startMu
  \/ startMu' = Nobody /\ Goes(c, "idle", NoBrowser)

(* No program is found, a directory cannot be made, or, once the surface   *)
(* has closed what it hosts, there is no window or port.                   *)
LaunchFails(c) ==
  /\ request[c].pc = "starting"
  /\ alive' \in {alive, Without(NoBrowser)} /\ TriesOrFails(c)
  /\ UNCHANGED <<embedded, wanted, rootCtx>>

ConnectFails(c) ==
  /\ request[c].pc = "running"
  /\ alive' = Without(request[c].browser) /\ TriesOrFails(c)
  /\ UNCHANGED <<embedded, wanted, rootCtx>>

(* "WebView2 initialization timed out": the thread goes on.                *)
LaunchTimesOut(c) ==
  /\ request[c].pc = "running" /\ embedded
  /\ startMu' = Nobody /\ Goes(c, "idle", NoBrowser)
  /\ UNCHANGED <<embedded, wanted, rootCtx, alive>>

(* The fields are set before the permissions of sites.                     *)
Install(c) ==
  /\ request[c].pc = "running"
  /\ rootCtx' = request[c].browser
  /\ Goes(c, "permit", request[c].browser)
  /\ UNCHANGED <<embedded, wanted, startMu, alive>>

Permitted(c) ==
  /\ request[c].pc = "permit"
  /\ startMu' = Nobody /\ Goes(c, "open", NoBrowser)
  /\ UNCHANGED <<embedded, wanted, rootCtx, alive>>

PermissionsFail(c) ==
  /\ request[c].pc = "permit"
  /\ alive' = Without(request[c].browser)
  /\ Goes(c, "clearing", NoBrowser)
  /\ UNCHANGED <<embedded, wanted, startMu, rootCtx>>

Uninstall(c) ==
  /\ request[c].pc = "clearing"
  /\ rootCtx' = NoBrowser /\ TriesOrFails(c)
  /\ UNCHANGED <<embedded, wanted, alive>>

(* A page is opened in the browser of rootCtx, which may be gone again.    *)
OpenPage(c) ==
  /\ request[c].pc = "open"
  /\ Goes(c, "idle", NoBrowser)
  /\ UNCHANGED <<embedded, wanted, startMu, rootCtx, alive>>

Next ==
  \E c \in BrowserCallers :
    \/ \E s \in Settings : Configure(c, s)
    \/ CallStop(c) \/ Clear(c) \/ Close(c)
    \/ Open(c) \/ EnsureStarted(c) \/ Launch(c) \/ LaunchFails(c) \/ ConnectFails(c)
    \/ LaunchTimesOut(c) \/ Install(c) \/ Permitted(c) \/ PermissionsFail(c) \/ Uninstall(c)
    \/ OpenPage(c)

Spec == Init /\ [][Next]_vars

----------------------------------------------------------------------------
(* There is never a second browser, which would find the profile locked:   *)
(* also not when starts, failures and stops overlap (startMu in Stop and   *)
(* ensureStarted).                                                         *)
OneBrowser == Cardinality(alive) <= 1

(* Once the user has switched the browser off and nobody is starting or    *)
(* stopping it, none runs: also when it was being started at that time, or *)
(* a start has failed half way (Configure, ensureStarted and Stop).        *)
DisabledIsOff ==
  ~wanted.enabled /\ (\A c \in BrowserCallers : request[c].pc \notin AtWork) =>
    alive = {} /\ rootCtx = NoBrowser
=============================================================================
