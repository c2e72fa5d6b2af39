--------------------------------- MODULE Services --------------------------------
(* Nine parts of the program that share no state, each small: a behaviour    *)
(* is one of the part that "subject" names, while the others do nothing.    *)
EXTENDS Naturals, FiniteSets

CONSTANTS
  Strategies, MaxCalls, MaxRounds,
  Autos, Callers, Scheduler, Chats, MaxRuns, NoAuto, NoChat,
  Shells, MaxSessions,
  Managed, Configures, None,
  MaxTurns, MaxLog,
  Switched, MaxReviewRounds, MaxTeamTurns,
  MaxProjects, MaxProjectSessions,
  MaxModelCalls, Candidates, Buffer,
  BrowserCallers, MaxBrowsers, Nobody

(* What the theorems assume of the constants. MaxSessions, MaxReviewRounds  *)
(* and Buffer are limits of the code, the others bounds of these models.    *)
ASSUME ShellsAssumption == IsFiniteSet(Shells) /\ MaxSessions \in Nat
ASSUME ReviewsAssumption == MaxReviewRounds \in Nat
ASSUME CandidatesAssumption == Candidates \in Nat \ {0}
ASSUME BoundsAssumption ==
  \A bound \in {MaxCalls, MaxRounds, MaxRuns, MaxTurns, MaxLog, MaxTeamTurns, Buffer} : bound \in Nat
(* A manifest has a project, and a project a session.                       *)
ASSUME ProjectsAssumption == MaxProjects \in Nat \ {0} /\ MaxProjectSessions \in Nat \ {0}
(* None is no server and no call, and Close tells a server from its own     *)
(* two states; Nobody is no call (different kinds of value in the code).    *)
ASSUME ManagedAssumption ==
  /\ None \notin Managed /\ None \notin Configures
  /\ "no" \notin Managed /\ "done" \notin Managed
ASSUME NobodyAssumption == Nobody \notin BrowserCallers
ASSUME AutosAssumption == NoAuto \notin Autos /\ NoChat \notin Chats

VARIABLES
  subject,
  pc, outcome, toolsDisabled, synthesisOnly, forceSubstantiveTool, requiredToolChoiceUnsupported,
  parallelToolCalls, visualVerificationRequested, subagentFinalizationPrompted,
  emptyCompletionStage, executed, records, blockedFailures, forceFinalResponse, calls,
  substantive, rounds, worker, visual, unanswered, tries, asked,
  task, caller, todo, agent, bySession, overlapped,
  phase, process, running, starting, stops,
  settings, server, managed, call, fetching, closing, activity,
  step, log, fresh, anchor, status, turns, outlived,
  at, run, next, saved, plan, author, planned, base, ctx, set, teamTurns, worked,
  manifest, created, kept,
  active, collector, ended, finishSeen, heard, opened, forwarder, index, seenOutput, holding,
  output, stopped, failed,
  embedded, wanted, startMu, rootCtx, alive, request

loop == <<pc, outcome, toolsDisabled, synthesisOnly, forceSubstantiveTool,
          requiredToolChoiceUnsupported, parallelToolCalls, visualVerificationRequested,
          subagentFinalizationPrompted, emptyCompletionStage, executed, records, blockedFailures,
          forceFinalResponse, calls, substantive, rounds, worker, visual, unanswered, tries,
          asked>>
automations == <<task, caller, todo, agent, bySession, overlapped>>
terminals == <<phase, process, running, starting, stops>>
mcp == <<settings, server, managed, call, fetching, closing, activity>>
recovery == <<step, log, fresh, anchor, status, turns, outlived>>
team == <<at, run, next, saved, plan, author, planned, base, ctx, set, teamTurns, worked>>
projects == <<manifest, created, kept>>
providers == <<active, collector, ended, finishSeen, heard, opened, forwarder, index, seenOutput,
               holding, output, stopped, failed>>
browser == <<embedded, wanted, startMu, rootCtx, alive, request>>
vars == <<subject, loop, automations, terminals, mcp, recovery, team, projects, providers,
          browser>>

Loop == INSTANCE ToolLoop
Autom == INSTANCE Automations
Term == INSTANCE Terminals
Mcp == INSTANCE McpManager
Recovery == INSTANCE TaskRecovery
Team == INSTANCE TeamRun
Store == INSTANCE ProjectStore
Providers == INSTANCE ProviderCalls
Browser == INSTANCE BrowserEngine

Init ==
  /\ subject \in {"loop", "automations", "terminals", "mcp", "recovery", "team", "projects",
                 "providers", "browser"}
  /\ Loop!Init /\ Autom!Init /\ Term!Init /\ Mcp!Init /\ Recovery!Init /\ Team!Init
  /\ Store!Init /\ Providers!Init /\ Browser!Init
  /\ subject # "browser" => ~embedded  \* which only that part tells apart

Next ==
  \/ /\ subject = "loop"
     /\ UNCHANGED <<subject, automations, terminals, mcp, recovery, team,
                    projects, providers, browser>>
     /\ Loop!Next
  \/ /\ subject = "automations"
     /\ UNCHANGED <<subject, loop, terminals, mcp, recovery, team,
                    projects, providers, browser>>
     /\ Autom!Next
  \/ /\ subject = "terminals"
     /\ UNCHANGED <<subject, loop, automations, mcp, recovery, team,
                    projects, providers, browser>>
     /\ Term!Next
  \/ /\ subject = "mcp"
     /\ UNCHANGED <<subject, loop, automations, terminals, recovery, team,
                    projects, providers, browser>>
     /\ Mcp!Next
  \/ /\ subject = "recovery"
     /\ UNCHANGED <<subject, loop, automations, terminals, mcp, team,
                    projects, providers, browser>>
     /\ Recovery!Next
  \/ /\ subject = "team"
     /\ UNCHANGED <<subject, loop, automations, terminals, mcp, recovery,
                    projects, providers, browser>>
     /\ Team!Next
  \/ /\ subject = "projects"
     /\ UNCHANGED <<subject, loop, automations, terminals, mcp, recovery,
                    team, providers, browser>>
     /\ Store!Next
  \/ /\ subject = "providers"
     /\ UNCHANGED <<subject, loop, automations, terminals, mcp, recovery,
                    team, projects, browser>>
     /\ Providers!Next
  \/ /\ subject = "browser"
     /\ UNCHANGED <<subject, loop, automations, terminals, mcp, recovery,
                    team, projects, providers>>
     /\ Browser!Next

(* The fairness of ToolLoop and Automations, for the part that acts.        *)
Fairness ==
  /\ WF_loop(subject = "loop" /\ Loop!Loop) /\ WF_loop(subject = "loop" /\ Loop!WorkerEnds)
  /\ \A c \in Callers : WF_automations(subject = "automations" /\ Autom!CallRuns(c))
  /\ \A n \in Chats : WF_automations(subject = "automations" /\ Autom!Leaves(n))

Spec == Init /\ [][Next]_vars /\ Fairness

(* The state of the part that acts is of its type.                          *)
TypeOK ==
  CASE subject = "loop" -> Loop!TypeOK
    [] subject = "automations" -> Autom!TypeOK
    [] subject = "terminals" -> Term!TypeOK
    [] subject = "mcp" -> Mcp!TypeOK
    [] subject = "recovery" -> Recovery!TypeOK
    [] subject = "team" -> Team!TypeOK
    [] subject = "projects" -> Store!TypeOK
    [] subject = "providers" -> Providers!TypeOK
    [] subject = "browser" -> Browser!TypeOK

(* What has failed is not tried again and again (failure strategy).         *)
NoBlindRetry == Loop!NoBlindRetry
(* With tools disabled the tool loop ends.                                  *)
DisabledEnds == Loop!DisabledEnds
(* The record of an automation and its agents agree.                        *)
RunIsAgent == Autom!RunIsAgent
(* Runs of an automation end.                                               *)
RunsEnd == Autom!RunsEnd
(* Terminals are bounded, and none that lives is out of reach.              *)
TerminalsBounded == Term!TerminalsBounded
(* Every open MCP session has somebody who will close it.                   *)
SessionsOwned == Mcp!SessionsOwned
(* Recovery ends a turn in the log once.                                    *)
EndedOnce == Recovery!EndedOnce
(* No role of a team run is run again once its end was saved.               *)
NoRoleTwice == Team!NoRoleTwice
(* The plan of the session and the team run that made it agree.             *)
PlanFollowsRun == Team!PlanFollowsRun
(* The text of an answer is that of one candidate.                          *)
OneSpeaker == Providers!OneSpeaker
(* The index of the candidates passes only those that have failed.          *)
NobodySkipped == Providers!NobodySkipped
(* There is never a second managed browser.                                 *)
OneBrowser == Browser!OneBrowser
(* A browser that was switched off does not run.                            *)
DisabledIsOff == Browser!DisabledIsOff
=============================================================================
