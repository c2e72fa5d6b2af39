------------------------------ MODULE ProjectStore ------------------------------
(***************************************************************************)
(* The manifest of projects and their sessions (project/store.go), as the  *)
(* user changes it through the service (agent/projects.go): every          *)
(* operation holds the lock of the service, and ends by saving the file.   *)
(*                                                                         *)
(* An operation that cannot save puts the manifest back, which is no step  *)
(* here, and the file is replaced atomically, so that a restart finds the  *)
(* manifest as it is.  Names, pins and times are left out: the most recent *)
(* of several sessions may be any of them.  So are old manifests, and the  *)
(* projects that a packaged program once made of its own directory.        *)
(***************************************************************************)
EXTENDS Naturals, Sequences, SequencesExt

CONSTANTS MaxProjects, MaxProjectSessions   \* bounds: projects and sessions ever created

VARIABLES
  manifest,
  created,   \* how many projects and sessions were ever created: their ids are 1, 2, ...
  kept       \* history: sessions that hold messages and were not deleted

Projects == 1..MaxProjects
Sessions == 1..MaxProjectSessions
NoId == 0
(* Workspaces: one of the user's, and the two that stand in for it when the *)
(* last project is removed.                                                *)
Roots == {"workspace", "temporary", "spare"}

Manifests == [projects : Seq(Projects), detached : SUBSET Projects, root : [Projects -> Roots],
              sessions : [Projects -> SUBSET Sessions], archived : SUBSET Sessions,
              last : [Projects -> Sessions \cup {NoId}],
              project : Projects, session : Sessions]

Listed(m) == ToSet(m.projects)

(* EnsureBootstrap, at the first start.                                    *)
Init ==
  /\ manifest = [projects |-> <<1>>, detached |-> {}, root |-> [p \in Projects |-> "workspace"],
                 sessions |-> [p \in Projects |-> IF p = 1 THEN {1} ELSE {}], archived |-> {},
                 last |-> [p \in Projects |-> IF p = 1 THEN 1 ELSE NoId],
                 project |-> 1, session |-> 1]
  /\ created = [projects |-> 1, sessions |-> 1]
  /\ kept = {}

(* What is active is listed, no project is both listed and detached, no    *)
(* workspace is listed twice or detached twice, and no session is of two   *)
(* projects.                                                               *)
Sound ==
  LET m == manifest
      OneEach(set) == \A p, q \in set : m.root[p] = m.root[q] => p = q
  IN /\ m.project \in Listed(m)
     /\ m.session \in m.sessions[m.project]
     /\ m.last[m.project] = m.session
     /\ IsInjective(m.projects)
     /\ Listed(m) \cap m.detached = {}
     /\ OneEach(Listed(m)) /\ OneEach(m.detached)
     /\ \A p, q \in Projects : p # q => m.sessions[p] \cap m.sessions[q] = {}

TypeOK ==
  /\ manifest \in Manifests
  /\ created \in [projects : Projects, sessions : Sessions]
  /\ kept \subseteq Sessions
  /\ Sound

----------------------------------------------------------------------------
(* Helpers of the store.                                                   *)

NewProjects == {created.projects + 1} \cap Projects
NewSessions == {created.sessions + 1} \cap Sessions

(* p in m with a session n that is new.                                    *)
WithSession(m, p, n) == [m EXCEPT !.sessions[p] = @ \cup {n}, !.last[p] = n]

(* The manifests m may become when p needs a last session not archived.    *)
ensureProjectActiveSession(m, p) ==
  LET open == m.sessions[p] \ m.archived
  IN IF m.last[p] \in open THEN {m}
     ELSE IF open # {} THEN {[m EXCEPT !.last[p] = n] : n \in open}
     ELSE {WithSession(m, p, n) : n \in NewSessions}

Activated(m, p) ==
  {[e EXCEPT !.project = p, !.session = e.last[p]] : e \in ensureProjectActiveSession(m, p)}

rememberActiveSession(m) ==
  IF m.project \in Listed(m) /\ m.session \in m.sessions[m.project]
  THEN [m EXCEPT !.last[m.project] = m.session] ELSE m

(* A project of the same workspace that was detached before is replaced.   *)
detachProject(m, p) ==
  LET replaced == {q \in m.detached : m.root[q] = m.root[p]}
  IN [m EXCEPT !.detached = (@ \ replaced) \cup {p},
               !.sessions = [q \in Projects |-> IF q \in replaced THEN {} ELSE @[q]]]

(* m with one project more, of workspace r, that is active.                *)
AddProject(m, r, p, n) ==
  WithSession([m EXCEPT !.projects = Append(@, p), !.root[p] = r, !.project = p, !.session = n], p, n)

WithProject(m, r) == {AddProject(m, r, p, n) : p \in NewProjects, n \in NewSessions}

Save(m) ==
  /\ manifest' = m
  /\ created' = [projects |-> created.projects +
                                (IF created.projects + 1 \in Listed(m) THEN 1 ELSE 0),
                 sessions |-> created.sessions +
                                (IF \E p \in Projects : created.sessions + 1 \in m.sessions[p]
                                 THEN 1 ELSE 0)]

----------------------------------------------------------------------------
(* Operations.                                                             *)

(* A project that was removed is listed again; it gets a session if it has *)
(* none.                                                                   *)
Restored(m, p) ==
  LET back == [m EXCEPT !.detached = @ \ {p}, !.projects = Append(@, p)]
  IN IF m.sessions[p] # {} THEN {back} ELSE {[back EXCEPT !.sessions[p] = {n}] : n \in NewSessions}

(* CreateProject: a workspace that is listed is activated, one whose       *)
(* project was removed has it restored, any other gets a new project.      *)
CreateProject(r) ==
  LET m == rememberActiveSession(manifest)
      listed == {p \in Listed(m) : m.root[p] = r}
      removed == {p \in m.detached : m.root[p] = r}
  IN /\ \E new \in
          IF listed # {} THEN UNION {Activated(m, p) : p \in listed}
          ELSE IF removed # {}
            THEN UNION {UNION {Activated(back, p) : back \in Restored(m, p)} : p \in removed}
          ELSE WithProject(m, r) : Save(new)
     /\ UNCHANGED kept

(* Where the service has the project made that replaces the last one.      *)
Fallback(r) == IF r = "temporary" THEN "spare" ELSE "temporary"

(* m without p, and what becomes active after the project p: the next one  *)
(* in the list or, after the last, the one before it.                      *)
Place(m, p) == CHOOSE j \in DOMAIN m.projects : m.projects[j] = p
Without(m, p) == [detachProject(m, p) EXCEPT !.projects = RemoveAt(m.projects, Place(m, p))]
Neighbour(m, p) ==
  LET rest == Without(m, p).projects
  IN rest[IF Place(m, p) <= Len(rest) THEN Place(m, p) ELSE Len(rest)]

RemoveProject(p) ==
  LET m == rememberActiveSession(manifest)
  IN /\ p \in Listed(manifest)
     /\ \E new \in
          IF Without(m, p).projects = <<>> THEN WithProject(Without(m, p), Fallback(m.root[p]))
          ELSE IF p # m.project THEN {Without(m, p)}
          ELSE Activated(Without(m, p), Neighbour(m, p)) : Save(new)
     /\ UNCHANGED kept

SwitchProject(p) ==
  /\ p \in Listed(manifest)
  /\ \E new \in Activated(rememberActiveSession(manifest), p) : Save(new)
  /\ UNCHANGED kept

SwitchProjectSession(p, n) ==
  /\ p \in Listed(manifest) /\ n \in manifest.sessions[p]
  /\ Save([rememberActiveSession(manifest) EXCEPT !.project = p, !.session = n, !.last[p] = n])
  /\ UNCHANGED kept

NewSession ==
  /\ \E n \in NewSessions :
       Save([WithSession(manifest, manifest.project, n) EXCEPT !.session = n])
  /\ UNCHANGED kept

SetArchivedForProject(p, n) ==
  /\ p \in Listed(manifest) /\ n \in manifest.sessions[p]
  /\ \E set \in {manifest.archived \cup {n}, manifest.archived \ {n}} :
       Save([manifest EXCEPT !.archived = set])
  /\ UNCHANGED kept

(* With the active project a session is made that is not archived.         *)
SetProjectSessionsArchived(p) ==
  LET m == [manifest EXCEPT !.archived = @ \cup manifest.sessions[p]]
  IN /\ p \in Listed(manifest)
     /\ \E new \in IF p # m.project THEN {m}
                   ELSE {[WithSession(m, p, n) EXCEPT !.session = n] : n \in NewSessions} : Save(new)
     /\ UNCHANGED kept

(* Mutant: no other session takes the place of the active one.             *)
DeleteAndStay(p, n) ==
  /\ p \in Listed(manifest) /\ n \in manifest.sessions[p]
  /\ Save([manifest EXCEPT !.sessions[p] = @ \ {n}, !.archived = @ \ {n},
                           !.last[p] = IF @ = n THEN NoId ELSE @])
  /\ kept' = kept \ {n}

DeleteProjectSession(p, n) ==
  LET m == [manifest EXCEPT !.sessions[p] = @ \ {n}, !.archived = @ \ {n},
                            !.last[p] = IF @ = n THEN NoId ELSE @]
  IN /\ p \in Listed(manifest) /\ n \in manifest.sessions[p]
     /\ \E new \in IF p = m.project /\ n = m.session THEN Activated(m, p) ELSE {m} : Save(new)
     /\ kept' = kept \ {n}

(* A turn in the active session (TouchActiveSession is its last write).    *)
Chat ==
  /\ Save([manifest EXCEPT !.last[manifest.project] = manifest.session])
  /\ kept' = kept \cup {manifest.session}

Next ==
  \/ NewSession \/ Chat
  \/ \E r \in Roots : CreateProject(r)
  \/ \E p \in Projects :
       \/ RemoveProject(p) \/ SwitchProject(p) \/ SetProjectSessionsArchived(p)
       \/ \E n \in Sessions :
            \/ SwitchProjectSession(p, n) \/ SetArchivedForProject(p, n)
            \/ DeleteProjectSession(p, n)

vars == <<manifest, created, kept>>
Spec == Init /\ [][Next]_vars

(* A session that holds messages is there until the user deletes it: it is *)
(* in a project that is listed, or in one that adding its workspace again  *)
(* restores ("RemoveProject hides a project while preserving its sessions  *)
(* and event logs. Adding the same workspace again restores the original   *)
(* project identity.", agent/projects.go).                                 *)
SessionsKept ==
  kept \subseteq UNION {manifest.sessions[p] : p \in Listed(manifest) \cup manifest.detached}
=============================================================================
