-------------------------------- MODULE RunProofs --------------------------------
(***************************************************************************)
(* Proofs about runs that outlive a turn or the program: those of a team,  *)
(* the recovery of the task that was cut off, and those of automations;    *)
(* each carried over to the composition it is a part of. At the end, the   *)
(* types of all parts, with those of the two modules it extends.           *)
(***************************************************************************)
EXTENDS OwnershipProofs, TurnProofs, Integers

-----------------------------------------------------------------------------
(* Team runs, for any number of review rounds, any roles that may be        *)
(* switched off and any number of turns                                    *)

(* The order of stages within an attempt.                                  *)
Place(stage) ==
  IF stage = "planner" THEN 0 ELSE IF stage = "approval" THEN 1
  ELSE IF stage = "implementer" THEN 2 ELSE IF stage = "tester" THEN 3
  ELSE IF stage = "reviewer" THEN 4 ELSE IF stage = "synthesizer" THEN 5 ELSE 6

(* Attempt k of role r comes before a run that is at a stage and attempt.  *)
Earlier(r, k, stage, attempt) ==
  IF r \in {"planner", "synthesizer"} THEN k = 1 /\ Place(r) < Place(stage)
  ELSE /\ Place(stage) >= 2
       /\ \/ Place(stage) >= 5
          \/ k < attempt
          \/ k = attempt /\ Place(r) < Place(stage)

(* A checkpoint holds only what comes before where it stands: no role that *)
(* is still to be run, in this attempt or a later one.                     *)
OnlyBefore(c) ==
  \A r \in Team!Roles, k \in Team!Attempts : <<r, k>> \in c.found => Earlier(r, k, c.stage, c.attempt)

(* So it is with every checkpoint a run may be resumed from (one that      *)
(* failed is not), and no role whose end was saved has been forgotten by   *)
(* the checkpoint that is kept, the one a rollback brings back included.   *)
TeamInv ==
  /\ run \in Team!Runs /\ saved \in Team!States /\ base.saved \in Team!States
  /\ next \in Team!Statuses \/ (at = "closing" /\ next = "interrupted")
  /\ at \in {"idle", "stage", "role", "save", "barrier", "turn", "closing"}
  /\ at \in {"stage", "role", "turn"} => next = "running"
  /\ next # "failed" => OnlyBefore(run)
  /\ saved.status # "failed" => OnlyBefore(saved.run)
  /\ base.saved.status # "failed" => OnlyBefore(base.saved.run)
  /\ worked \subseteq saved.run.found /\ base.worked \subseteq base.saved.run.found
  /\ IF at \in {"turn", "closing"} THEN run.found = {} ELSE at # "idle" => worked \subseteq run.found

-----------------------------------------------------------------------------
(* Stages                                                                  *)

(* Whatever is switched off, the next stage comes later.                   *)
LEMMA StageFacts ==
  /\ Team!AfterImplementation \in {"tester", "reviewer", "synthesizer"}
  /\ Team!NextCheck("tester") \in {"reviewer", "synthesizer"} /\ Team!NextCheck("reviewer") = "synthesizer"
  /\ Team!AfterPlanner \in {"implementer", "tester", "reviewer", "synthesizer"}
  /\ Team!FirstStage \in Team!Roles
  /\ \A stage \in Team!Stages : Team!Available(stage) \in Team!Stages /\ Place(stage) <= Place(Team!Available(stage))
<1>1. /\ Team!AfterImplementation \in {"tester", "reviewer", "synthesizer"}
      /\ Team!NextCheck("tester") \in {"reviewer", "synthesizer"} /\ Team!NextCheck("reviewer") = "synthesizer"
  BY DEF Team!AfterImplementation, Team!NextCheck, Team!AfterChecks
<1>2. Team!AfterPlanner \in {"implementer", "tester", "reviewer", "synthesizer"}
  BY <1>1 DEF Team!AfterPlanner
<1>3. Team!FirstStage \in Team!Roles
  BY <1>2 DEF Team!FirstStage, Team!Roles
<1>4. ASSUME NEW stage \in Team!Stages
      PROVE  Team!Available(stage) \in Team!Stages /\ Place(stage) <= Place(Team!Available(stage))
  <2>1. CASE Team!Available(stage) = stage
    BY <2>1 DEF Place
  <2>2. CASE stage = "planner" /\ Team!Available(stage) = Team!AfterPlanner
    BY <1>2, <2>2 DEF Place, Team!Stages, Team!Roles
  <2>3. CASE stage = "implementer" /\ Team!Available(stage) = Team!AfterImplementation
    BY <1>1, <2>3 DEF Place, Team!Stages, Team!Roles
  <2>4. CASE stage \in {"tester", "reviewer"} /\ Team!Available(stage) = Team!NextCheck(stage)
    BY <1>1, <2>4 DEF Place, Team!Stages, Team!Roles
  <2>5. CASE stage = "synthesizer" /\ Team!Available(stage) = Team!NextCheck(stage)
    BY <2>5 DEF Team!NextCheck, Team!AfterChecks, Place, Team!Stages, Team!Roles
  <2> QED BY <2>1, <2>2, <2>3, <2>4, <2>5 DEF Team!Available, Team!Roles
<1> QED BY <1>1, <1>2, <1>3, <1>4

(* A role that is due has not been run.                                    *)
LEMMA DueIsNew ==
  ASSUME NEW c \in Team!Runs, OnlyBefore(c), c.stage \in Team!Roles
  PROVE  Team!Turn(c) \notin c.found
<1>1. c.attempt \in Team!Attempts /\ c.found \in SUBSET (Team!Roles \X Team!Attempts)
  BY DEF Team!Runs
<1>2. SUFFICES ASSUME Team!Turn(c) \in c.found PROVE FALSE
  OBVIOUS
<1>3. PICK k \in Team!Attempts : Team!Turn(c) = <<c.stage, k>> /\ (c.stage \notin {"planner", "synthesizer"} => k = c.attempt)
  BY <1>1, <1>2 DEF Team!Turn
<1>4. Earlier(c.stage, k, c.stage, c.attempt)
  BY <1>2, <1>3 DEF OnlyBefore
<1>5. k \in Int /\ c.attempt \in Int /\ Place(c.stage) \in Int
  BY <1>1 DEF Team!Attempts, Place
<1>6. c.stage \in {"implementer", "tester", "reviewer"} => Place(c.stage) < 5
  BY DEF Place
<1> QED BY <1>3, <1>4, <1>5, <1>6 DEF Earlier, Team!Roles

(* Going on to a later stage keeps what was run before, with the role that *)
(* has just ended or without.                                              *)
LEMMA Onward ==
  ASSUME NEW c \in Team!Runs, NEW d \in Team!Runs, OnlyBefore(c),
         \/ d.found = c.found /\ Place(c.stage) <= Place(d.stage)
         \/ /\ c.stage \in Team!Roles /\ d.found = c.found \cup {Team!Turn(c)}
            /\ Place(c.stage) < Place(d.stage),
         c.stage \in {"planner", "approval"} \/ d.attempt = c.attempt \/ Place(d.stage) >= 5
  PROVE  OnlyBefore(d)
<1> SUFFICES ASSUME NEW r \in Team!Roles, NEW k \in Team!Attempts, <<r, k>> \in d.found
             PROVE  Earlier(r, k, d.stage, d.attempt)
  BY DEF OnlyBefore
<1>1. /\ c.stage \in Team!Stages /\ d.stage \in Team!Stages
      /\ c.attempt \in Int /\ d.attempt \in Int /\ k \in Int
  BY ReviewsAssumption DEF Team!Runs, Team!Attempts
<1>2. Place(c.stage) \in Int /\ Place(d.stage) \in Int /\ Place(r) \in Int
  BY DEF Place
<1>3. CASE <<r, k>> \in c.found
  <2>1. Earlier(r, k, c.stage, c.attempt)
    BY <1>3 DEF OnlyBefore
  <2>2. Place(c.stage) <= Place(d.stage)
    BY <1>2
  <2>3. CASE r \in {"planner", "synthesizer"}
    BY <1>2, <2>1, <2>2, <2>3 DEF Earlier
  <2>4. CASE r \notin {"planner", "synthesizer"}
    <3>1. Place(c.stage) >= 2
      BY <2>1, <2>4 DEF Earlier
    <3>2. c.stage \notin {"planner", "approval"}
      BY <3>1 DEF Place
    <3> QED BY <1>1, <1>2, <2>1, <2>2, <2>4, <3>1, <3>2 DEF Earlier
  <2> QED BY <2>3, <2>4
<1>4. CASE <<r, k>> = Team!Turn(c) /\ c.stage \in Team!Roles /\ Place(c.stage) < Place(d.stage)
  <2>1. r = c.stage /\ k = IF c.stage \in {"planner", "synthesizer"} THEN 1 ELSE c.attempt
    BY <1>4 DEF Team!Turn
  <2>2. CASE r \in {"planner", "synthesizer"}
    BY <1>4, <2>1, <2>2 DEF Earlier
  <2>3. CASE r \in {"implementer", "tester", "reviewer"}
    <3>1. Place(r) >= 2
      BY <2>3 DEF Place
    <3> QED BY <1>1, <1>2, <1>4, <2>1, <2>3, <3>1 DEF Earlier
  <2> QED BY <2>2, <2>3 DEF Team!Roles
<1> QED BY <1>3, <1>4

(* A revision is a new attempt of everything behind the planner.           *)
LEMMA Revision ==
  ASSUME NEW c \in Team!Runs, NEW d \in Team!Runs, OnlyBefore(c), c.stage \in {"tester", "reviewer"},
         d.found = c.found \cup {Team!Turn(c)}, d.stage = "implementer", d.attempt = c.attempt + 1
  PROVE  OnlyBefore(d)
<1> SUFFICES ASSUME NEW r \in Team!Roles, NEW k \in Team!Attempts, <<r, k>> \in d.found
             PROVE  Earlier(r, k, d.stage, d.attempt)
  BY DEF OnlyBefore
<1>1. c.attempt \in Int /\ k \in Int
  BY ReviewsAssumption DEF Team!Runs, Team!Attempts
<1>2. CASE <<r, k>> \in c.found
  <2>1. Earlier(r, k, c.stage, c.attempt)
    BY <1>2 DEF OnlyBefore
  <2> QED BY <1>1, <2>1 DEF Earlier, Place, Team!Roles
<1>3. CASE <<r, k>> = Team!Turn(c)
  <2>1. r = c.stage /\ k = c.attempt
    BY <1>3 DEF Team!Turn
  <2> QED BY <1>1, <2>1 DEF Earlier, Place
<1> QED BY <1>2, <1>3

-----------------------------------------------------------------------------
(* Steps                                                                   *)

(* No run has been saved.                                                  *)
LEMMA TeamInit == ASSUME Team!Init PROVE TeamInv
<1>1. Team!NewRun \in Team!Runs /\ Team!NewRun.found = {}
  BY ReviewsAssumption DEF Team!NewRun, Team!Runs, Team!Attempts, Team!Stages, Team!Roles
<1>2. Team!NoRun \in Team!States /\ Team!NoRun.run = Team!NewRun /\ Team!NoTurn.saved = Team!NoRun /\ Team!NoTurn.worked = {}
  BY <1>1 DEF Team!NoRun, Team!States, Team!Statuses, Team!NoTurn
<1>3. OnlyBefore(Team!NewRun)
  BY <1>1 DEF OnlyBefore
<1> QED BY <1>1, <1>2, <1>3 DEF Team!Init, TeamInv, Team!Statuses

(* A new run has found nothing.                                            *)
LEMMA NewRunFacts ==
  Team!NewRun \in Team!Runs /\ Team!NewRun.found = {} /\ OnlyBefore(Team!NewRun) /\ Team!NoTurn.saved \in Team!States
         /\ Team!NoTurn.saved.run = Team!NewRun /\ Team!NoTurn.worked = {} /\ "none" \in Team!Statuses
<1>1. Team!NewRun \in Team!Runs /\ Team!NewRun.found = {}
  BY ReviewsAssumption DEF Team!NewRun, Team!Runs, Team!Attempts, Team!Stages, Team!Roles
<1>2. Team!NoRun \in Team!States /\ Team!NoRun.run = Team!NewRun /\ Team!NoTurn.saved = Team!NoRun /\ Team!NoTurn.worked = {}
  BY <1>1 DEF Team!NoRun, Team!States, Team!Statuses, Team!NoTurn
<1> QED BY <1>1, <1>2 DEF OnlyBefore, Team!Statuses

(* Every transition of a turn ends by having a checkpoint saved.           *)
LEMMA SavingStep ==
  ASSUME TeamInv, at \in {"stage", "role"}, NEW d \in Team!Runs, NEW state \in Team!Statuses, Team!Saving(state, d),
         state # "failed" => OnlyBefore(d), run.found \subseteq d.found
  PROVE  TeamInv'
BY DEF TeamInv, Team!Saving, Team!idleVars, OnlyBefore, Earlier, Team!Attempts

(* A turn begins with the checkpoint of a new run or the one it resumes.   *)
LEMMA BeginStep ==
  ASSUME TeamInv, NEW d \in Team!Runs, Team!Begin("save", d), OnlyBefore(d),
         \/ worked' = {}
         \/ worked' = worked /\ d.found = saved.run.found
  PROVE  TeamInv'
<1>1. base'.saved = saved /\ base'.worked = worked
  BY DEF Team!Begin
<1>2. at' = "save" /\ run' = d /\ next' = "running" /\ saved' = saved
  BY DEF Team!Begin
<1>3. "running" \in Team!Statuses
  BY DEF Team!Statuses
<1> QED BY <1>1, <1>2, <1>3 DEF TeamInv, OnlyBefore, Earlier, Team!Attempts

(* A new run forgets nothing that it would have to remember.               *)
LEMMA StartStep == ASSUME TeamInv, Team!StartRun PROVE TeamInv'
<1> DEFINE d == [Team!NewRun EXCEPT !.stage = Team!FirstStage]
<1>1. d \in Team!Runs /\ d.found = {}
  BY NewRunFacts, StageFacts DEF Team!Runs, Team!Stages
<1>2. OnlyBefore(d)
  BY <1>1 DEF OnlyBefore
<1>3. Team!Begin("save", d) /\ worked' = {}
  BY DEF Team!StartRun
<1> HIDE DEF d
<1> QED BY <1>1, <1>2, <1>3, BeginStep

(* A run goes on from a checkpoint that is good to resume from.            *)
LEMMA ResumeStep == ASSUME TeamInv, Team!ResumeRun PROVE TeamInv'
<1> DEFINE c == saved.run
           d == [c EXCEPT !.stage = Team!Available(@)]
<1>1. c \in Team!Runs /\ OnlyBefore(c)
  BY DEF TeamInv, Team!States, Team!ResumeRun
<1>2. c.stage \in Team!Stages
  BY <1>1 DEF Team!Runs
<1>3. Team!Available(c.stage) \in Team!Stages /\ Place(c.stage) <= Place(Team!Available(c.stage))
  BY <1>2, StageFacts
<1>4. d \in Team!Runs /\ d.found = c.found /\ d.attempt = c.attempt /\ d.stage = Team!Available(c.stage)
  BY <1>1, <1>3 DEF Team!Runs
<1>5. OnlyBefore(d)
  <2> HIDE DEF d, c
  <2> QED BY <1>1, <1>3, <1>4, Onward
<1>6. Team!Begin("save", d) /\ worked' = worked
  BY DEF Team!ResumeRun
<1> HIDE DEF d
<1> QED BY <1>4, <1>5, <1>6, BeginStep

(* What is saved is what the run has found.                                *)
LEMMA SaveStep == ASSUME TeamInv, Team!Save PROVE TeamInv'
<1>1. saved' = [status |-> next, run |-> run] /\ saved' \in Team!States
  BY DEF Team!Save, TeamInv, Team!States
<1>2. saved'.status = next /\ saved'.run = run
  BY <1>1
<1>3. /\ worked' = worked \cup run.found /\ worked' \subseteq run.found
      /\ UNCHANGED <<run, next, base>> /\ at = "save" /\ at' = IF next = "running" THEN "stage" ELSE "barrier"
  BY DEF Team!Save, TeamInv, Team!idleVars
<1> QED BY <1>1, <1>2, <1>3 DEF TeamInv, OnlyBefore, Earlier, Team!Attempts

(* Stages that run no role.                                                *)
LEMMA PauseStep == ASSUME TeamInv, Team!PauseStopped \/ Team!RoleCancelled PROVE TeamInv'
<1>1. at \in {"stage", "role"} /\ Team!Saving("paused", run) /\ run \in Team!Runs /\ OnlyBefore(run)
  BY DEF Team!PauseStopped, Team!RoleCancelled, Team!Pause, TeamInv
<1> QED BY <1>1, SavingStep DEF Team!Statuses

(* A role begins where the run stands.                                     *)
LEMMA BeginWorkStep == ASSUME TeamInv, Team!BeginWork PROVE TeamInv'
<1> DEFINE d == [run EXCEPT !.approved = @ \/ set.planMode, !.stage = Team!AfterPlanner, !.attempt = 1]
<1>1. run \in Team!Runs /\ OnlyBefore(run) /\ run.stage = "approval" /\ at = "stage" /\ Team!Saving("running", d)
  BY DEF Team!BeginWork, Team!AtApproval, TeamInv
<1>2. 1 \in Team!Attempts /\ Team!AfterPlanner \in Team!Stages
  BY StageFacts, ReviewsAssumption DEF Team!Attempts, Team!Stages, Team!Roles
<1>3. d \in Team!Runs /\ d.found = run.found /\ d.stage = Team!AfterPlanner
  <2> DEFINE b == run.approved \/ set.planMode
  <2>1. b \in BOOLEAN
    OBVIOUS
  <2>2. d = [run EXCEPT !.approved = b, !.stage = Team!AfterPlanner, !.attempt = 1]
    BY <1>1 DEF Team!Runs
  <2> HIDE DEF b, d
  <2> QED BY <1>1, <1>2, <2>1, <2>2 DEF Team!Runs
<1>4. Place(run.stage) <= Place(d.stage)
  BY <1>1, <1>3, StageFacts DEF Place
<1> HIDE DEF d
<1>5. OnlyBefore(d)
  BY <1>1, <1>3, <1>4, Onward
<1> QED BY <1>1, <1>3, <1>5, SavingStep DEF Team!Statuses

(* A rejected plan ends the run.                                           *)
LEMMA RejectStep == ASSUME TeamInv, Team!RejectPlan PROVE TeamInv'
<1> DEFINE d == [run EXCEPT !.stage = "finalize", !.attempt = 1]
<1>1. run \in Team!Runs /\ OnlyBefore(run) /\ run.stage = "approval" /\ at = "stage" /\ Team!Saving("cancelled", d)
  BY DEF Team!RejectPlan, Team!AtApproval, TeamInv
<1>2. d \in Team!Runs /\ d.found = run.found /\ d.stage = "finalize"
  <2>1. run \in Team!Runs /\ 1 \in Team!Attempts /\ "finalize" \in Team!Stages
    BY <1>1, ReviewsAssumption DEF Team!Attempts, Team!Stages
  <2> QED BY <2>1 DEF Team!Runs
<1>3. Place(run.stage) <= Place(d.stage)
  BY <1>1, <1>2 DEF Place
<1> HIDE DEF d
<1>4. OnlyBefore(d)
  BY <1>1, <1>2, <1>3, Onward
<1> QED BY <1>1, <1>2, <1>4, SavingStep DEF Team!Statuses

(* A run that is finalized runs no role.                                   *)
LEMMA FinalizeStep == ASSUME TeamInv, Team!Finalize PROVE TeamInv'
<1>1. run \in Team!Runs /\ OnlyBefore(run) /\ at = "stage" /\ Team!Saving("completed", run)
  BY DEF Team!Finalize, TeamInv
<1> QED BY <1>1, SavingStep DEF Team!Statuses

(* What a role that ends adds to the checkpoint.                           *)
LEMMA WithFacts ==
  ASSUME TeamInv, run.stage \in Team!Roles, NEW b \in BOOLEAN
  PROVE  /\ run \in Team!Runs /\ Team!With(b) \in Team!Runs /\ Team!With(b).stage = run.stage
         /\ Team!With(b).attempt = run.attempt /\ Team!With(b).found = run.found \cup {Team!Turn(run)}
<1>1. run \in Team!Runs
  BY DEF TeamInv
<1>2. Team!Turn(run) \in Team!Roles \X Team!Attempts
  BY <1>1, ReviewsAssumption DEF Team!Turn, Team!Runs, Team!Attempts
<1>3. run.found \cup {Team!Turn(run)} \in SUBSET (Team!Roles \X Team!Attempts)
  BY <1>1, <1>2 DEF Team!Runs
<1> DEFINE f == run.found \cup {Team!Turn(run)}
           g == run.changes \/ b
<1>4. g \in BOOLEAN
  OBVIOUS
<1>5. Team!With(b) = [run EXCEPT !.found = f, !.changes = g]
  BY <1>1 DEF Team!With, Team!Runs
<1>6. f \in SUBSET (Team!Roles \X Team!Attempts)
  BY <1>3
<1> HIDE DEF f, g
<1>7. /\ [run EXCEPT !.found = f, !.changes = g] \in Team!Runs
      /\ [run EXCEPT !.found = f, !.changes = g].stage = run.stage
      /\ [run EXCEPT !.found = f, !.changes = g].attempt = run.attempt
      /\ [run EXCEPT !.found = f, !.changes = g].found = f
  BY <1>1, <1>4, <1>6 DEF Team!Runs
<1> QED BY <1>1, <1>5, <1>7 DEF f

(* A role that ends and hands over to stage, in the same attempt or, from  *)
(* the planner, in the first.                                              *)
LEMMA RoleEnds ==
  ASSUME TeamInv, at = "role", run.stage \in Team!Roles, NEW d \in Team!Runs, NEW stage \in Team!Stages,
         d.found = run.found \cup {Team!Turn(run)}, d.stage = stage, Place(run.stage) < Place(stage),
         d.attempt = run.attempt \/ run.stage = "planner" \/ stage = "finalize", Team!Saving("running", d)
  PROVE  TeamInv'
<1>1. run \in Team!Runs /\ OnlyBefore(run)
  BY DEF TeamInv
<1>2. run.stage = "planner" \/ d.attempt = run.attempt \/ Place(d.stage) >= 5
  BY DEF Place
<1>3. OnlyBefore(d)
  BY <1>1, <1>2, Onward
<1> QED BY <1>3, SavingStep DEF Team!Statuses

(* What follows the planner is behind it.                                  *)
LEMMA PlannerStep ==
  ASSUME TeamInv, NEW ok \in BOOLEAN, NEW steps \in BOOLEAN, Team!Planner(ok, steps)
  PROVE  TeamInv'
<1> DEFINE approval == ok /\ set.planMode
           started == approval /\ steps
           stage == IF approval THEN "approval" ELSE Team!AfterPlanner
           w == Team!With(FALSE)
           d == [w EXCEPT !.stage = stage, !.attempt = 1, !.started = @ \/ started]
<1>1. at = "role" /\ run.stage = "planner" /\ run.stage \in Team!Roles /\ Team!Saving("running", d)
  BY DEF Team!Planner, Team!InRole, Team!Roles
<1>2. stage \in Team!Stages /\ Place(run.stage) < Place(stage)
  BY <1>1, StageFacts DEF Team!Stages, Team!Roles, Place
<1>3. w \in Team!Runs /\ w.found = run.found \cup {Team!Turn(run)}
  BY <1>1, WithFacts
<1>4. d \in Team!Runs /\ d.found = w.found /\ d.stage = stage
  <2> DEFINE b == w.started \/ started
  <2>1. b \in BOOLEAN
    OBVIOUS
  <2>2. d = [w EXCEPT !.stage = stage, !.attempt = 1, !.started = b]
    BY <1>3 DEF Team!Runs
  <2>3. 1 \in Team!Attempts
    BY ReviewsAssumption DEF Team!Attempts
  <2> HIDE DEF b, d, w, stage
  <2> QED BY <1>2, <1>3, <2>1, <2>2, <2>3 DEF Team!Runs
<1> HIDE DEF d, w, stage
<1> QED BY <1>1, <1>2, <1>3, <1>4, RoleEnds

(* What follows the implementer is behind it.                              *)
LEMMA ImplementerStep ==
  ASSUME TeamInv, NEW ok \in BOOLEAN, Team!Implementer(ok)
  PROVE  TeamInv'
<1> DEFINE w == Team!With(FALSE)
           d == [w EXCEPT !.stage = Team!AfterImplementation]
<1>1. at = "role" /\ run.stage = "implementer" /\ run.stage \in Team!Roles
  BY DEF Team!Implementer, Team!InRole, Team!Roles
<1>2. /\ w \in Team!Runs /\ w.found = run.found \cup {Team!Turn(run)} /\ w.attempt = run.attempt
  BY <1>1, WithFacts
<1>3. CASE Team!Saving("failed", w)
  <2> HIDE DEF w
  <2> QED BY <1>1, <1>2, <1>3, SavingStep DEF Team!Statuses
<1>4. CASE Team!Saving("running", d)
  <2>1. Team!AfterImplementation \in Team!Stages /\ Place(run.stage) < Place(Team!AfterImplementation)
    BY <1>1, StageFacts DEF Team!Stages, Team!Roles, Place
  <2>2. d \in Team!Runs /\ d.found = w.found /\ d.attempt = w.attempt /\ d.stage = Team!AfterImplementation
    <3> HIDE DEF w
    <3> QED BY <1>2, <2>1 DEF Team!Runs
  <2> HIDE DEF d, w
  <2> QED BY <1>1, <1>2, <1>4, <2>1, <2>2, RoleEnds
<1> QED BY <1>3, <1>4 DEF Team!Implementer, Team!Fail

(* Only the end follows the synthesizer.                                   *)
LEMMA SynthesizerStep ==
  ASSUME TeamInv, NEW ok \in BOOLEAN, Team!Synthesizer(ok)
  PROVE  TeamInv'
<1> DEFINE w == Team!With(FALSE)
           d == [w EXCEPT !.stage = "finalize", !.attempt = 1]
<1>1. at = "role" /\ run.stage = "synthesizer" /\ run.stage \in Team!Roles
  BY DEF Team!Synthesizer, Team!InRole, Team!Roles
<1>2. w \in Team!Runs /\ w.found = run.found \cup {Team!Turn(run)}
  BY <1>1, WithFacts
<1>3. CASE Team!Saving("failed", w)
  <2> HIDE DEF w
  <2> QED BY <1>1, <1>2, <1>3, SavingStep DEF Team!Statuses
<1>4. CASE Team!Saving("running", d)
  <2>1. "finalize" \in Team!Stages /\ Place(run.stage) < Place("finalize")
    BY <1>1 DEF Team!Stages, Place
  <2>2. d \in Team!Runs /\ d.found = w.found /\ d.stage = "finalize"
    <3>1. 1 \in Team!Attempts
      BY ReviewsAssumption DEF Team!Attempts
    <3> HIDE DEF w
    <3> QED BY <1>2, <2>1, <3>1 DEF Team!Runs
  <2> HIDE DEF d, w
  <2> QED BY <1>1, <1>2, <1>4, <2>1, <2>2, RoleEnds
<1> QED BY <1>3, <1>4 DEF Team!Synthesizer, Team!Fail

(* A check hands over to the next one, to a revision, or to the end.       *)
LEMMA CheckStep ==
  ASSUME TeamInv, NEW r \in {"tester", "reviewer"}, NEW b \in BOOLEAN, Team!Check(r, b)
  PROVE  TeamInv'
<1> DEFINE w == Team!With(b)
           onward == [w EXCEPT !.stage = Team!NextCheck(r)]
           revise == [w EXCEPT !.stage = "implementer", !.attempt = @ + 1, !.changes = FALSE]
           end == [w EXCEPT !.stage = Team!AfterChecks, !.changes = FALSE]
<1>1. at = "role" /\ run.stage = r /\ run.stage \in Team!Roles
  BY DEF Team!Check, Team!InRole, Team!Roles
<1>2. /\ w \in Team!Runs /\ w.found = run.found \cup {Team!Turn(run)} /\ w.attempt = run.attempt
  BY <1>1, WithFacts
<1>3. CASE Team!Saving("running", onward)
  <2>1. Team!NextCheck(r) \in Team!Stages /\ Place(run.stage) < Place(Team!NextCheck(r))
    BY <1>1, StageFacts DEF Team!Stages, Team!Roles, Place
  <2>2. onward \in Team!Runs /\ onward.found = w.found /\ onward.attempt = w.attempt /\ onward.stage = Team!NextCheck(r)
    <3> HIDE DEF w
    <3> QED BY <1>2, <2>1 DEF Team!Runs
  <2> HIDE DEF onward, w
  <2> QED BY <1>1, <1>2, <1>3, <2>1, <2>2, RoleEnds
<1>4. CASE Team!Saving("running", revise) /\ Team!NeedsRevision(w)
  <2>1. w.attempt + 1 \in Team!Attempts
    <3> HIDE DEF w
    <3> QED BY <1>2, <1>4, ReviewsAssumption DEF Team!NeedsRevision, Team!Runs, Team!Attempts
  <2>2. /\ revise \in Team!Runs /\ revise.found = w.found /\ revise.stage = "implementer"
        /\ revise.attempt = w.attempt + 1
    <3> HIDE DEF w
    <3> QED BY <1>2, <2>1 DEF Team!Runs, Team!Stages, Team!Roles
  <2>3. run \in Team!Runs /\ OnlyBefore(run)
    BY <1>1 DEF TeamInv
  <2> HIDE DEF revise, w
  <2>4. OnlyBefore(revise)
    BY <1>1, <1>2, <2>2, <2>3, Revision
  <2> QED BY <1>1, <1>2, <1>4, <2>2, <2>4, SavingStep DEF Team!Statuses
<1>5. CASE Team!Saving("running", end)
  <2>1. Team!AfterChecks \in Team!Stages /\ Place(run.stage) < Place(Team!AfterChecks)
    BY <1>1 DEF Team!AfterChecks, Team!Stages, Team!Roles, Place
  <2>2. end \in Team!Runs /\ end.found = w.found /\ end.attempt = w.attempt /\ end.stage = Team!AfterChecks
    <3> HIDE DEF w
    <3> QED BY <1>2, <2>1 DEF Team!Runs
  <2> HIDE DEF end, w
  <2> QED BY <1>1, <1>2, <1>5, <2>1, <2>2, RoleEnds
<1> QED BY <1>3, <1>4, <1>5 DEF Team!Check

(* The end of a turn, of a run that is abandoned, and a crash.             *)
LEMMA EndStep == ASSUME TeamInv, Team!EndTurn \/ Team!Abandoned \/ Team!Crash PROVE TeamInv'
<1>1. at' = "idle" /\ run' = Team!NewRun /\ next' = "none" /\ base' = Team!NoTurn
  BY DEF Team!EndTurn, Team!Abandoned, Team!Crash, Team!TurnOver
<1>2. /\ saved' \in Team!States /\ worked' \subseteq saved'.run.found
      /\ saved'.status # "failed" => OnlyBefore(saved'.run)
  <2>1. CASE Team!EndTurn
    <3>1. \/ saved' = saved /\ worked' = worked
          \/ saved' = base.saved /\ worked' = base.worked
      BY <2>1 DEF Team!EndTurn, Team!Retained
    <3> QED BY <3>1 DEF TeamInv
  <2>2. CASE Team!Abandoned
    <3>1. saved' = [status |-> next, run |-> run] /\ UNCHANGED worked /\ at = "save" /\ next = "abandoned"
      BY <2>2 DEF Team!Abandoned
    <3>2. saved'.status = next /\ saved'.run = run /\ saved' \in Team!States
      BY <3>1 DEF TeamInv, Team!States, Team!Statuses
    <3> QED BY <3>1, <3>2 DEF TeamInv
  <2>3. CASE Team!Crash
    <3>1. UNCHANGED worked /\ saved' = Team!Restored(saved)
      BY <2>3 DEF Team!Crash
    <3>2. /\ saved' \in Team!States /\ saved'.run = saved.run
          /\ saved'.status = "failed" => saved.status = "failed"
          /\ saved'.status # "failed" => saved.status # "failed"
      BY <3>1 DEF Team!Restored, Team!States, Team!Statuses, TeamInv
    <3> QED BY <3>1, <3>2 DEF TeamInv
  <2> QED BY <2>1, <2>2, <2>3
<1>3. Team!NewRun \in Team!Runs /\ OnlyBefore(Team!NewRun) /\ Team!NoTurn.saved \in Team!States
      /\ Team!NoTurn.saved.run = Team!NewRun /\ Team!NoTurn.worked = {} /\ "none" \in Team!Statuses
  BY NewRunFacts
<1> QED BY <1>1, <1>2, <1>3 DEF TeamInv, OnlyBefore, Earlier, Team!Attempts

(* The other steps leave checkpoints alone, or take up the paused one.     *)
LEMMA OtherStep ==
  ASSUME TeamInv, Team!BeginRole \/ Team!Abandon \/ Team!StopTurn \/ Team!Silent \/ UNCHANGED Team!vars
  PROVE  TeamInv'
<1>1. CASE Team!BeginRole
  BY <1>1 DEF Team!BeginRole, Team!idleVars, TeamInv, OnlyBefore, Earlier, Team!Attempts
<1>2. CASE Team!Abandon
  <2>1. /\ at' = "save" /\ run' = saved.run /\ next' = "abandoned" /\ saved.status = "paused"
        /\ UNCHANGED <<saved, worked, base>>
    BY <1>2 DEF Team!Abandon, Team!idleVars
  <2>2. saved.run \in Team!Runs /\ "abandoned" \in Team!Statuses
    BY DEF TeamInv, Team!States, Team!Statuses
  <2> QED BY <2>1, <2>2 DEF TeamInv, OnlyBefore, Earlier, Team!Attempts
<1>3. CASE Team!StopTurn \/ Team!Silent \/ UNCHANGED Team!vars
  <2>1. UNCHANGED <<at, run, next, saved, worked, base>>
    BY <1>3 DEF Team!StopTurn, Team!Silent, Team!vars, Team!idleVars
  <2> QED BY <2>1 DEF TeamInv, OnlyBefore, Earlier, Team!Attempts
<1> QED BY <1>1, <1>2, <1>3

(* A turn of no team has no checkpoint of its own.                         *)
LEMMA OrdinaryStep ==
  ASSUME TeamInv, NEW st \in {"running", "completed", "failed", "interrupted"},
         \/ Team!BeginTurn \/ Team!TurnPlans \/ Team!TurnApproval \/ Team!UpdatePlan(st)
         \/ st # "running" /\ Team!TurnWorked(st)
  PROVE  TeamInv'
<1>1. CASE Team!BeginTurn
  <2> DEFINE d == [Team!NewRun EXCEPT !.stage = IF set'.planMode THEN "planner" ELSE "implementer"]
  <2>1. d \in Team!Runs /\ d.found = {}
    BY NewRunFacts DEF Team!Runs, Team!Stages, Team!Roles
  <2>2. /\ at' = "turn" /\ run' = d /\ next' = "running" /\ UNCHANGED <<saved, worked>>
        /\ base'.saved = saved /\ base'.worked = worked
    BY <1>1 DEF Team!BeginTurn, Team!Begin
  <2> HIDE DEF d
  <2> QED BY <2>1, <2>2 DEF TeamInv, OnlyBefore, Earlier, Team!Attempts, Team!Statuses
<1>2. ASSUME at = "turn", UNCHANGED <<saved, worked, base>>,
             \/ at' = "turn" /\ next' = next /\ \E stage \in Team!Stages, b \in BOOLEAN :
                                                run' = [run EXCEPT !.stage = stage, !.started = b]
             \/ at' = "closing" /\ run' = run /\ next' \in {"completed", "failed", "interrupted"}
      PROVE  TeamInv'
  <2>1. run' \in Team!Runs /\ run'.found = run.found
    BY <1>2 DEF TeamInv, Team!Runs
  <2> QED BY <1>2, <2>1 DEF TeamInv, OnlyBefore, Earlier, Team!Attempts, Team!Statuses
<1>3. CASE Team!TurnPlans \/ Team!TurnApproval \/ Team!UpdatePlan(st)
                \/ (st # "running" /\ Team!TurnWorked(st))
  <2>1. at = "turn" /\ UNCHANGED <<saved, worked, base>>
    BY <1>3 DEF Team!TurnPlans, Team!TurnApproval, Team!UpdatePlan, Team!TurnWorked, Team!Working,
                Team!TurnAt, Team!Closing, Team!idleVars
  <2>2. {"implementer", "approval"} \subseteq Team!Stages /\ run.started \in BOOLEAN
    BY DEF Team!Stages, Team!Roles, TeamInv, Team!Runs
  <2>3. \/ at' = at /\ next' = next /\ \E stage \in {"implementer", "approval"}, b \in BOOLEAN :
                                          run' = [run EXCEPT !.stage = stage, !.started = b]
        \/ at' = "closing" /\ run' = run /\ next' \in {"completed", "failed", "interrupted"}
    BY <1>3, <2>2 DEF Team!TurnPlans, Team!TurnApproval, Team!UpdatePlan, Team!TurnWorked,
                Team!TurnAt, Team!Closing
  <2> QED BY <1>2, <2>1, <2>2, <2>3
<1> QED BY <1>1, <1>3

(* Every step keeps what checkpoints hold.                                 *)
LEMMA TeamStep == ASSUME TeamInv, [Team!Next]_(Team!vars) PROVE TeamInv'
<1>1. CASE Team!StartRun \/ Team!ResumeRun \/ Team!Save \/ Team!PauseStopped \/ Team!RoleCancelled
  BY <1>1, StartStep, ResumeStep, SaveStep, PauseStep
<1>2. CASE \E ok \in BOOLEAN : \/ \E steps \in BOOLEAN : Team!Planner(ok, steps)
                               \/ Team!Implementer(ok) \/ Team!Synthesizer(ok)
  BY <1>2, PlannerStep, ImplementerStep, SynthesizerStep
<1>3. CASE \E r \in {"tester", "reviewer"}, changes \in BOOLEAN : Team!Check(r, changes)
  BY <1>3, CheckStep
<1>4. CASE Team!BeginWork \/ Team!RejectPlan \/ Team!Finalize
  BY <1>4, BeginWorkStep, RejectStep, FinalizeStep
<1>5. CASE Team!EndTurn \/ Team!Abandoned \/ Team!Crash
  BY <1>5, EndStep
<1>6. CASE Team!BeginRole \/ Team!Abandon \/ Team!StopTurn \/ Team!Silent \/ UNCHANGED Team!vars
  BY <1>6, OtherStep
<1>7. ASSUME NEW st \in {"running", "completed", "failed", "interrupted"},
             \/ Team!BeginTurn \/ Team!TurnPlans \/ Team!TurnApproval \/ Team!UpdatePlan(st)
             \/ st # "running" /\ Team!TurnWorked(st)
      PROVE  TeamInv'
  BY <1>7, OrdinaryStep
<1> QED BY <1>1, <1>2, <1>3, <1>4, <1>5, <1>6, <1>7 DEF Team!Next

(* A step of the program is a step of the run or none of its own.          *)
LEMMA TeamMapsStep == [Next]_vars => [Team!Next]_(Team!vars)
<1>1. ASSUME UNCHANGED team PROVE UNCHANGED Team!vars
  BY <1>1 DEF team, Team!vars
<1> QED BY <1>1 DEF Next, vars

-----------------------------------------------------------------------------
(* The plan and the run                                                    *)

Synthesized(c) == <<"synthesizer", 1>> \in c.found

(* A plan that fits a checkpoint: one of a team run runs only with a run   *)
(* that has started it and goes on, and it has ended the way the run has;  *)
(* a run that goes on has its plan for itself, and one that is to be       *)
(* finalized has an answer.                                                *)
Fits(st, c, p, who) ==
  /\ who = "team" =>
       /\ p = "running" => st \in {"paused", "running"} /\ c.started
       /\ st \in {"completed", "failed"} /\ c.started => p \in {st, "cancelled"}
  /\ st = "completed" => Synthesized(c)
  /\ st \in {"paused", "running"} =>
       (c.started => p # "none" /\ who = "team") /\ (c.stage = "finalize" => Synthesized(c))

(* Within a turn of a run the plan fits the checkpoint that is held; what  *)
(* was there before the turn fits, as it may be brought back; and the      *)
(* checkpoint in the log, older than the plan, is one a crash can pause.   *)
TurnFits ==
  /\ Fits(next, run, plan, author)
  /\ planned => author = "team" /\ (plan = "failed" => next = "failed")
  /\ at \in {"stage", "role"} => next = "running" /\ saved.status = "running"
  /\ at = "barrier" => saved = [status |-> next, run |-> run] /\ next # "running"
  /\ at = "save" => \/ saved.status = "running"
                    \/ saved = base.saved /\ plan = base.plan /\ author = base.author /\ ~planned
  /\ saved.status = "running" =>
       /\ saved.run.started => plan # "none" /\ author = "team"
       /\ saved.run.stage = "finalize" => Synthesized(saved.run)
       /\ author = "team" /\ plan = "running" /\ ~planned => saved.run.started

(* Another turn, with no paused run beside it, leaves the checkpoint, and  *)
(* makes a plan it writes its own.                                         *)
OrdinaryFits ==
  /\ saved = base.saved /\ saved.status # "paused" /\ next # "abandoned"
  /\ IF planned THEN author = "turn" ELSE plan = base.plan /\ author = base.author

BaseFits ==
  Fits(base.saved.status, base.saved.run, base.plan, base.author) /\ base.saved.status # "running"

PlanInv ==
  /\ at = "idle" => Fits(saved.status, saved.run, plan, author) /\ saved.status # "running"
  /\ at # "idle" /\ next = "abandoned" =>
       at = "save" /\ saved.status = "paused" /\ (author = "team" => plan # "running") /\ Fits("paused", saved.run, plan, author)
  /\ at # "idle" /\ next # "abandoned" =>
       BaseFits /\ IF at \in {"turn", "closing"} THEN OrdinaryFits ELSE TurnFits

(* There is no plan.                                                       *)
LEMMA PlanInit == Team!Init => PlanInv
BY DEF Team!Init, PlanInv, Fits, Team!NoRun, Team!NewRun

(* A step of a turn that has a checkpoint saved keeps what fits it.        *)
LEMMA SavingFits ==
  ASSUME PlanInv, at \in {"stage", "role"}, next # "abandoned",
         NEW st \in Team!Statuses, st # "abandoned", NEW d, Team!Saving(st, d),
         \/ UNCHANGED <<plan, author, planned>>
         \/ plan' # "none" /\ author' = "team" /\ planned' = TRUE /\ (plan' = "failed" => st = "failed"),
         Fits(st, d, plan', author')
  PROVE  PlanInv'
<1>1. TurnFits /\ BaseFits
  BY DEF PlanInv
<1>2. /\ at' = "save" /\ run' = d /\ next' = st /\ UNCHANGED <<saved, base>>
  BY DEF Team!Saving, Team!idleVars
<1>3. saved.status = "running"
  BY <1>1 DEF TurnFits
<1>4. TurnFits' /\ BaseFits'
  BY <1>1, <1>2, <1>3 DEF TurnFits, BaseFits, Fits, Synthesized
<1> QED BY <1>2, <1>4 DEF PlanInv

(* Within a turn.                                                          *)
LEMMA RoleFits ==
  ASSUME TeamInv, PlanInv, NEW ok \in BOOLEAN, NEW steps \in BOOLEAN,
         NEW r \in {"tester", "reviewer"}, NEW changes \in BOOLEAN,
         \/ Team!PauseStopped \/ Team!RoleCancelled \/ Team!Planner(ok, steps)
         \/ Team!Implementer(ok) \/ Team!Synthesizer(ok) \/ Team!Check(r, changes)
         \/ Team!BeginWork \/ Team!RejectPlan \/ Team!Finalize
  PROVE  PlanInv'
<1>0. at \in {"stage", "role"}
  BY DEF Team!PauseStopped, Team!RoleCancelled, Team!Planner, Team!Implementer, Team!Synthesizer,
         Team!Check, Team!BeginWork, Team!RejectPlan, Team!Finalize, Team!InRole, Team!AtApproval
<1>1. next = "running" /\ Fits("running", run, plan, author) /\ run \in Team!Runs
  BY <1>0 DEF TeamInv, PlanInv, TurnFits
<1>2. /\ "running" \in Team!Statuses /\ "paused" \in Team!Statuses /\ "failed" \in Team!Statuses
      /\ "cancelled" \in Team!Statuses /\ "completed" \in Team!Statuses
  BY DEF Team!Statuses
<1>3. ASSUME NEW d, NEW st \in {"running", "paused"}, Team!KeepPlan, Team!Saving(st, d),
             d.started = run.started, d.stage = "finalize" => Synthesized(d)
      PROVE  PlanInv'
  <2>1. Fits(st, d, plan', author')
    BY <1>1, <1>3 DEF Fits, Team!KeepPlan
  <2> QED BY <1>0, <1>1, <1>2, <1>3, <2>1, SavingFits DEF Team!KeepPlan
<1>4. ASSUME NEW d, NEW st \in {"failed", "cancelled", "completed"}, Team!FinishPlan(st), Team!Saving(st, d),
             d.started = run.started, st = "completed" => Synthesized(d)
      PROVE  PlanInv'
  <2>1. Fits(st, d, plan', author')
    BY <1>0, <1>1, <1>4 DEF Fits, Team!FinishPlan, Team!WritePlan, Team!KeepPlan
  <2>2. \/ UNCHANGED <<plan, author, planned>>
        \/ plan' # "none" /\ author' = "team" /\ planned' = TRUE /\ (plan' = "failed" => st = "failed")
    BY <1>0, <1>4 DEF Team!FinishPlan, Team!WritePlan, Team!KeepPlan
  <2> QED BY <1>0, <1>1, <1>2, <1>4, <2>1, <2>2, SavingFits
<1>5. \A b \in BOOLEAN : Team!With(b).started = run.started
  BY <1>1 DEF Team!With, Team!Runs
<1>6. CASE Team!PauseStopped \/ Team!RoleCancelled
  <2>1. Team!KeepPlan /\ Team!Saving("paused", run)
    BY <1>6 DEF Team!PauseStopped, Team!RoleCancelled, Team!Pause
  <2> QED BY <1>1, <1>3, <2>1 DEF Fits
<1>7. CASE Team!Planner(ok, steps)
  <2> DEFINE approval == ok /\ set.planMode
             begun == approval /\ steps
             d == [Team!With(FALSE) EXCEPT !.stage = IF approval THEN "approval" ELSE Team!AfterPlanner,
                                           !.attempt = 1, !.started = @ \/ begun]
  <2>1. Team!Saving("running", d) /\ IF begun THEN Team!WritePlan("running") ELSE Team!KeepPlan
    BY <1>7 DEF Team!Planner
  <2>2. d.stage # "finalize" /\ d.started = (run.started \/ begun)
    <3>1. d.stage = IF approval THEN "approval" ELSE Team!AfterPlanner
      BY <1>1 DEF Team!With, Team!Runs
    <3>2. d.started = (Team!With(FALSE).started \/ begun)
      <4> DEFINE w == Team!With(FALSE)
      <4>1. w \in Team!Runs
        BY <1>7, WithFacts DEF Team!Planner, Team!InRole, Team!Roles
      <4> HIDE DEF w
      <4> DEFINE g == w.started \/ begun
                 place == IF approval THEN "approval" ELSE Team!AfterPlanner
      <4>2. d = [w EXCEPT !.stage = place, !.attempt = 1, !.started = g]
        BY <4>1 DEF w, Team!Runs
      <4> HIDE DEF g, place
      <4>3. [w EXCEPT !.stage = place, !.attempt = 1, !.started = g].started = g
        BY <4>1 DEF Team!Runs
      <4> HIDE DEF d
      <4>4. d.started = g
        BY <4>2, <4>3
      <4> QED BY <4>4, Zenon DEF w, g
    <3> HIDE DEF d, begun
    <3>3. d.stage # "finalize"
      BY <3>1, StageFacts
    <3>4. d.started = (run.started \/ begun)
      BY <1>5, <3>2
    <3> QED BY <3>3, <3>4
  <2> HIDE DEF d
  <2>3. CASE begun
    <3>1. plan' = "running" /\ planned' = TRUE /\ author' = "team"
      BY <1>0, <2>1, <2>3 DEF Team!WritePlan
    <3>2. Fits("running", d, plan', author')
      BY <2>2, <2>3, <3>1 DEF Fits
    <3> QED BY <1>0, <1>1, <1>2, <2>1, <3>1, <3>2, SavingFits
  <2>4. CASE ~begun
    <3>1. d.started = run.started
      BY <1>1, <2>2, <2>4 DEF Team!Runs
    <3> QED BY <1>3, <2>1, <2>2, <2>4, <3>1
  <2> QED BY <2>3, <2>4
<1>8. CASE Team!Implementer(ok)
  <2>1. CASE ~ok
    <3>1. Team!FinishPlan("failed") /\ Team!Saving("failed", Team!With(FALSE))
      BY <1>8, <2>1 DEF Team!Implementer, Team!Fail
    <3> QED BY <1>4, <1>5, <3>1
  <2>2. CASE ok
    <3> DEFINE d == [Team!With(FALSE) EXCEPT !.stage = Team!AfterImplementation]
    <3>1. Team!KeepPlan /\ Team!Saving("running", d)
      BY <1>8, <2>2 DEF Team!Implementer
    <3>2. d.started = run.started /\ d.stage # "finalize"
      BY <1>1, <1>5, StageFacts DEF Team!With, Team!Runs
    <3> HIDE DEF d
    <3> QED BY <1>3, <3>1, <3>2
  <2> QED BY <2>1, <2>2
<1>9. CASE Team!Synthesizer(ok)
  <2>1. CASE ~ok
    <3>1. Team!FinishPlan("failed") /\ Team!Saving("failed", Team!With(FALSE))
      BY <1>9, <2>1 DEF Team!Synthesizer, Team!Fail
    <3> QED BY <1>4, <1>5, <3>1
  <2>2. CASE ok
    <3> DEFINE d == [Team!With(FALSE) EXCEPT !.stage = "finalize", !.attempt = 1]
    <3>1. Team!KeepPlan /\ Team!Saving("running", d) /\ run.stage = "synthesizer"
      BY <1>9, <2>2 DEF Team!Synthesizer, Team!InRole
    <3>2. d.started = run.started /\ Synthesized(d)
      BY <1>1, <1>5, <3>1 DEF Team!With, Team!Runs, Team!Turn, Synthesized
    <3> HIDE DEF d
    <3> QED BY <1>3, <3>1, <3>2
  <2> QED BY <2>1, <2>2
<1>10. CASE Team!Check(r, changes)
  <2> DEFINE w == Team!With(changes)
  <2>1. w \in Team!Runs
    BY <1>10, WithFacts DEF Team!Check, Team!InRole, Team!Roles
  <2>2. w.started = run.started
    BY <1>5
  <2>3. \/ Team!Saving("running", [w EXCEPT !.stage = Team!NextCheck(r)])
        \/ Team!Saving("running", [w EXCEPT !.stage = "implementer", !.attempt = @ + 1, !.changes = FALSE])
        \/ Team!Saving("running", [w EXCEPT !.stage = "synthesizer", !.changes = FALSE])
    BY <1>10 DEF Team!Check, Team!AfterChecks
  <2>4. Team!KeepPlan
    BY <1>10 DEF Team!Check
  <2> HIDE DEF w
  <2>5. CASE Team!Saving("running", [w EXCEPT !.stage = Team!NextCheck(r)])
    <3> DEFINE d == [w EXCEPT !.stage = Team!NextCheck(r)]
    <3>1. d.started = w.started /\ d.stage # "finalize"
      BY <2>1, StageFacts DEF Team!Runs
    <3>2. Team!Saving("running", d)
      BY <2>5
    <3> HIDE DEF d
    <3> QED BY <1>3, <2>2, <2>4, <3>1, <3>2
  <2>6. CASE Team!Saving("running", [w EXCEPT !.stage = "implementer", !.attempt = @ + 1, !.changes = FALSE])
    <3> DEFINE d == [w EXCEPT !.stage = "implementer", !.attempt = @ + 1, !.changes = FALSE]
    <3>1. d.started = w.started /\ d.stage # "finalize"
      BY <2>1 DEF Team!Runs
    <3>2. Team!Saving("running", d)
      BY <2>6
    <3> HIDE DEF d
    <3> QED BY <1>3, <2>2, <2>4, <3>1, <3>2
  <2>7. CASE Team!Saving("running", [w EXCEPT !.stage = "synthesizer", !.changes = FALSE])
    <3> DEFINE d == [w EXCEPT !.stage = "synthesizer", !.changes = FALSE]
    <3>1. d.started = w.started /\ d.stage # "finalize"
      BY <2>1 DEF Team!Runs
    <3>2. Team!Saving("running", d)
      BY <2>7
    <3> HIDE DEF d
    <3> QED BY <1>3, <2>2, <2>4, <3>1, <3>2
  <2> QED BY <2>3, <2>5, <2>6, <2>7
<1>11. CASE Team!BeginWork
  <2> DEFINE d == [run EXCEPT !.approved = @ \/ set.planMode, !.stage = Team!AfterPlanner, !.attempt = 1]
  <2>1. /\ Team!Saving("running", d)
        /\ (run.started /\ Team!WritePlan("running")) \/ Team!KeepPlan
    BY <1>11 DEF Team!BeginWork
  <2>2. d.started = run.started /\ d.stage # "finalize"
    BY <1>1, StageFacts DEF Team!Runs
  <2> HIDE DEF d
  <2>3. CASE run.started /\ Team!WritePlan("running")
    <3>1. Fits("running", d, plan', author') /\ plan' = "running" /\ planned' = TRUE /\ author' = "team"
      BY <1>0, <2>2, <2>3 DEF Fits, Team!WritePlan
    <3> QED BY <1>0, <1>1, <1>2, <2>1, <3>1, SavingFits
  <2>4. CASE Team!KeepPlan
    BY <1>3, <2>1, <2>2, <2>4
  <2> QED BY <2>1, <2>3, <2>4
<1>12. CASE Team!RejectPlan
  <2> DEFINE d == [run EXCEPT !.stage = "finalize", !.attempt = 1]
  <2>1. Team!FinishPlan("cancelled") /\ Team!Saving("cancelled", d)
    BY <1>12 DEF Team!RejectPlan
  <2>2. d.started = run.started
    BY <1>1 DEF Team!Runs
  <2> HIDE DEF d
  <2> QED BY <1>4, <2>1, <2>2
<1>13. CASE Team!Finalize
  <2>1. Team!FinishPlan("completed") /\ Team!Saving("completed", run) /\ run.stage = "finalize"
    BY <1>13 DEF Team!Finalize
  <2> QED BY <1>1, <1>4, <2>1 DEF Fits
<1> QED BY <1>6, <1>7, <1>8, <1>9, <1>10, <1>11, <1>12, <1>13

(* A turn begins between turns, where the plan fits what it resumes and    *)
(* does not run if it resumes nothing.                                     *)
LEMMA BeginFits ==
  ASSUME TeamInv, PlanInv, Team!StartRun \/ Team!ResumeRun
  PROVE  PlanInv'
<1>1. /\ at = "idle" /\ Fits(saved.status, saved.run, plan, author) /\ saved.status # "running"
      /\ saved \in Team!States
  BY DEF Team!StartRun, Team!ResumeRun, PlanInv, TeamInv
<1>2. PICK d : Team!Begin("save", d) /\ Fits("running", d, plan, author)
  <2>1. CASE Team!StartRun
    <3> DEFINE d == [Team!NewRun EXCEPT !.stage = Team!FirstStage]
    <3>1. d.started = FALSE /\ d.stage # "finalize"
      BY StageFacts DEF Team!NewRun, Team!Roles
    <3>2. Team!Begin("save", d) /\ (author = "team" => plan # "running")
      BY <1>1, <2>1 DEF Team!StartRun, Fits
    <3> HIDE DEF d
    <3> QED BY <3>1, <3>2 DEF Fits
  <2>2. CASE Team!ResumeRun
    <3> DEFINE d == [saved.run EXCEPT !.stage = Team!Available(@)]
    <3>1. Team!Begin("save", d) /\ saved.status = "paused"
      BY <2>2 DEF Team!ResumeRun
    <3>2. saved.run \in Team!Runs
      BY <1>1 DEF Team!States
    <3>3. d.started = saved.run.started /\ d.found = saved.run.found /\ d.stage = Team!Available(saved.run.stage)
      BY <3>2 DEF Team!Runs
    <3> HIDE DEF d
    <3>4. d.stage = "finalize" => saved.run.stage = "finalize"
      <4>1. CASE saved.run.stage \notin Team!Roles \/ Team!Enabled(saved.run.stage)
        BY <3>3, <4>1 DEF Team!Available
      <4>2. CASE saved.run.stage = "planner" /\ Team!Available(saved.run.stage) = Team!AfterPlanner
        BY <3>3, <4>2, StageFacts
      <4>3. CASE saved.run.stage = "implementer" /\ Team!Available(saved.run.stage) = Team!AfterImplementation
        BY <3>3, <4>3, StageFacts
      <4>4. CASE Team!Available(saved.run.stage) = Team!NextCheck(saved.run.stage)
        BY <3>3, <4>4 DEF Team!NextCheck, Team!AfterChecks
      <4> QED BY <4>1, <4>2, <4>3, <4>4 DEF Team!Available, Team!Roles
    <3> QED BY <1>1, <3>1, <3>3, <3>4 DEF Fits, Synthesized
  <2> QED BY <2>1, <2>2
<1>3. /\ at' = "save" /\ run' = d /\ next' = "running" /\ saved' = saved /\ plan' = plan
      /\ author' = author /\ planned' = FALSE
      /\ base'.saved = saved /\ base'.plan = plan /\ base'.author = author
  BY <1>2 DEF Team!Begin
<1>4. TurnFits' /\ BaseFits'
  BY <1>1, <1>2, <1>3 DEF TurnFits, BaseFits, Fits, Synthesized
<1> QED BY <1>3, <1>4 DEF PlanInv

(* The checkpoint is saved.                                                *)
LEMMA SaveFits ==
  ASSUME TeamInv, PlanInv, Team!Save
  PROVE  PlanInv'
<1>1. /\ at = "save" /\ next # "abandoned" /\ saved' = [status |-> next, run |-> run]
      /\ at' = (IF next = "running" THEN "stage" ELSE "barrier")
      /\ UNCHANGED <<run, next, plan, author, planned, base>>
  BY DEF Team!Save, Team!idleVars
<1>2. TurnFits /\ BaseFits
  BY <1>1 DEF PlanInv
<1>3. saved'.status = next /\ saved'.run = run
  BY <1>1
<1>4. TurnFits' /\ BaseFits'
  BY <1>1, <1>2, <1>3 DEF TurnFits, BaseFits, Fits, Synthesized
<1> QED BY <1>1, <1>4 DEF PlanInv

(* A turn of no team begins, and writes its plan.                          *)
LEMMA OrdinaryPlan ==
  ASSUME TeamInv, PlanInv, NEW st \in {"running", "completed", "failed", "interrupted"},
         \/ Team!BeginTurn \/ Team!TurnPlans \/ Team!TurnApproval \/ Team!UpdatePlan(st)
         \/ st # "running" /\ Team!TurnWorked(st)
  PROVE  PlanInv'
<1>1. CASE Team!BeginTurn
  <2>1. /\ at = "idle" /\ saved.status # "paused" /\ at' = "turn" /\ next' = "running" /\ planned' = FALSE
        /\ UNCHANGED <<saved, plan, author>>
        /\ base'.saved = saved /\ base'.plan = plan /\ base'.author = author
    BY <1>1 DEF Team!BeginTurn, Team!Begin
  <2> QED BY <2>1 DEF PlanInv, BaseFits, OrdinaryFits, Fits, Synthesized
<1>2. CASE Team!TurnPlans \/ Team!TurnApproval \/ Team!UpdatePlan(st)
                \/ (st # "running" /\ Team!TurnWorked(st))
  <2>1. /\ at = "turn" /\ at' \in {"turn", "closing"} /\ UNCHANGED <<saved, base>>
        /\ next' = next \/ next' \in {"completed", "failed", "interrupted", "running"}
    BY <1>2 DEF Team!TurnPlans, Team!TurnApproval, Team!UpdatePlan, Team!TurnWorked, Team!Working,
                Team!TurnAt, Team!Closing, Team!idleVars
  <2>2. \/ UNCHANGED <<plan, author, planned>>
        \/ planned' = TRUE /\ author' = "turn"
    BY <1>2, <2>1 DEF Team!TurnPlans, Team!TurnApproval, Team!UpdatePlan, Team!TurnWorked,
                Team!FinishPlan, Team!WritePlan, Team!KeepPlan
  <2>3. next = "running" /\ next' # "abandoned"
    BY <2>1 DEF TeamInv
  <2>4. BaseFits /\ OrdinaryFits
    BY <2>1, <2>3 DEF PlanInv
  <2>5. BaseFits' /\ OrdinaryFits'
    BY <2>1, <2>2, <2>3, <2>4 DEF BaseFits, OrdinaryFits, Fits, Synthesized
  <2> QED BY <2>1, <2>3, <2>5 DEF PlanInv
<1> QED BY <1>1, <1>2

(* A turn ends, is rolled back, or is cut off by a crash.                  *)
LEMMA OverFits ==
  ASSUME TeamInv, PlanInv, Team!EndTurn \/ Team!Abandon \/ Team!Abandoned \/ Team!Crash
  PROVE  PlanInv'
<1>1. CASE Team!EndTurn
  <2>1. at \in {"barrier", "closing"} /\ at' = "idle"
    BY <1>1 DEF Team!EndTurn, Team!TurnOver
  <2>2. BaseFits /\ IF at = "closing" THEN OrdinaryFits ELSE TurnFits
    BY <2>1 DEF PlanInv
  <2>3. at = "barrier" => saved.status = next /\ saved.run = run /\ next # "running"
    BY <2>1, <2>2 DEF TurnFits
  <2>4. CASE ~Team!Errs
    <3>1. UNCHANGED <<saved, plan, author>>
      BY <1>1, <2>4 DEF Team!EndTurn
    <3>2. CASE at = "barrier"
      BY <2>1, <2>2, <2>3, <3>1, <3>2 DEF PlanInv, TurnFits, Fits, Synthesized
    <3>3. CASE at = "closing"
      BY <2>1, <2>2, <3>1, <3>3 DEF PlanInv, OrdinaryFits, BaseFits, Fits, Synthesized
    <3> QED BY <2>1, <3>2, <3>3
  <2>5. CASE Team!Errs
    <3>1. PICK stays \in Team!Retained :
            /\ saved' = IF stays THEN saved ELSE base.saved
            /\ plan' = IF Team!EndsPlan THEN Team!Terminal ELSE IF stays THEN plan ELSE base.plan
            /\ author' = IF Team!EndsPlan \/ stays THEN author ELSE base.author
      BY <1>1, <2>5 DEF Team!EndTurn
    <3>2. CASE at = "barrier" /\ stays
      <4>1. next = "failed"
        BY <3>1, <3>2 DEF Team!Retained
      <4>2. plan' = plan \/ (plan' \in {"failed", "cancelled"})
        BY <3>1, <3>2 DEF Team!EndsPlan
      <4>3. saved' = saved /\ author' = author
        BY <3>1, <3>2
      <4> QED BY <2>1, <2>2, <2>3, <3>2, <4>1, <4>2, <4>3 DEF PlanInv, TurnFits, Fits, Synthesized
    <3>3. CASE at = "barrier" /\ ~stays
      <4>1. next # "failed" /\ saved' = base.saved
        BY <3>1, <3>3 DEF Team!Retained
      <4>2. CASE Team!EndsPlan
        <5>1. plan' = "cancelled" /\ author' = "team"
          BY <2>2, <3>1, <3>3, <4>1, <4>2 DEF Team!EndsPlan, Team!Terminal, TurnFits
        <5> QED BY <2>1, <2>2, <4>1, <5>1 DEF PlanInv, BaseFits, Fits, Synthesized
      <4>3. CASE ~Team!EndsPlan
        <5>1. plan' = base.plan /\ author' = base.author
          BY <3>1, <3>3, <4>3
        <5> QED BY <2>1, <2>2, <4>1, <5>1 DEF PlanInv, BaseFits, Fits, Synthesized
      <4> QED BY <4>2, <4>3
    <3>4. CASE at = "closing"
      <4>1. saved' = base.saved /\ saved' = saved
        BY <2>2, <3>1, <3>4 DEF OrdinaryFits
      <4>2. author' = "turn" \/ (plan' = base.plan /\ author' = base.author)
        BY <2>2, <3>1, <3>4 DEF OrdinaryFits, Team!EndsPlan
      <4> QED BY <2>1, <2>2, <3>4, <4>1, <4>2 DEF PlanInv, OrdinaryFits, BaseFits, Fits, Synthesized
    <3> QED BY <2>1, <3>2, <3>3, <3>4
  <2> QED BY <2>4, <2>5
<1>2. CASE Team!Abandon
  <2>1. /\ at = "idle" /\ saved.status = "paused" /\ at' = "save" /\ next' = "abandoned" /\ saved' = saved
        /\ author' = author /\ plan' = IF saved.run.started /\ plan \notin {"none", "completed", "cancelled"} THEN "cancelled" ELSE plan
    BY <1>2 DEF Team!Abandon
  <2>2. Fits("paused", saved.run, plan, author)
    BY <2>1 DEF PlanInv
  <2>3. (author' = "team" => plan' # "running") /\ Fits("paused", saved.run, plan', author')
    BY <2>1, <2>2 DEF Fits
  <2> QED BY <2>1, <2>3 DEF PlanInv
<1>3. CASE Team!Abandoned
  <2>1. /\ at = "save" /\ next = "abandoned" /\ saved' = [status |-> next, run |-> run]
        /\ at' = "idle" /\ plan' = plan /\ author' = author
    BY <1>3 DEF Team!Abandoned, Team!TurnOver
  <2>2. (author = "team" => plan # "running") /\ saved'.status = "abandoned"
    BY <2>1 DEF PlanInv
  <2> QED BY <2>1, <2>2 DEF PlanInv, Fits
<1>4. CASE Team!Crash
  <2>1. /\ at # "idle" /\ saved' = Team!Restored(saved) /\ at' = "idle"
        /\ plan' = IF ~Team!Answered /\ planned /\ plan = "running" THEN "interrupted" ELSE plan
        /\ author' = author
    BY <1>4 DEF Team!Crash, Team!TurnOver
  <2>2. saved \in Team!States
    BY DEF TeamInv
  <2>3. CASE saved.status # "running"
    <3>1. saved' = saved
      BY <2>1, <2>3 DEF Team!Restored
    <3>2. CASE next = "abandoned"
      BY <2>1, <2>3, <3>1, <3>2 DEF PlanInv, Fits, Synthesized
    <3>3. CASE next # "abandoned"
      <4>0. CASE at \in {"turn", "closing"}
        <5>1. BaseFits /\ OrdinaryFits
          BY <3>3, <4>0 DEF PlanInv
        <5>2. author' = "turn" \/ (plan' = base.plan /\ author' = base.author)
          BY <2>1, <5>1 DEF OrdinaryFits
        <5> QED BY <2>1, <3>1, <5>1, <5>2 DEF PlanInv, OrdinaryFits, BaseFits, Fits, Synthesized
      <4>1. CASE at \notin {"turn", "closing"}
       <5>0. BaseFits /\ TurnFits /\ at \in {"save", "barrier"}
        BY <2>1, <2>3, <3>3, <4>1 DEF PlanInv, TurnFits, TeamInv
       <5>2. CASE at = "barrier"
        <6>1. saved.status = next /\ saved.run = run /\ plan' = plan
          BY <2>1, <5>0, <5>2 DEF TurnFits, Team!Answered
        <6> QED BY <2>1, <2>3, <3>1, <5>0, <5>2, <6>1 DEF PlanInv, TurnFits
       <5>3. CASE at = "save"
        <6>1. saved = base.saved /\ plan' = base.plan /\ author' = base.author
          BY <2>1, <2>3, <5>0, <5>3 DEF TurnFits
        <6> QED BY <2>1, <2>3, <3>1, <5>0, <6>1 DEF PlanInv, BaseFits
       <5> QED BY <5>0, <5>2, <5>3
      <4> QED BY <4>0, <4>1
    <3> QED BY <3>2, <3>3
  <2>4. CASE saved.status = "running"
    <3>1. saved'.status = "paused" /\ saved'.run = saved.run
      BY <2>1, <2>2, <2>4 DEF Team!Restored, Team!States
    <3>2. TurnFits /\ ~Team!Answered
      BY <2>1, <2>4 DEF PlanInv, TurnFits, OrdinaryFits, BaseFits, Team!Answered
    <3>3. Fits("paused", saved.run, plan', author')
      BY <2>1, <2>4, <3>2 DEF TurnFits, Fits
    <3> QED BY <2>1, <3>1, <3>3 DEF PlanInv
  <2> QED BY <2>3, <2>4
<1> QED BY <1>1, <1>2, <1>3, <1>4

(* Every step keeps a plan that fits the checkpoints.                      *)
LEMMA PlanStep == ASSUME TeamInv, PlanInv, [Team!Next]_(Team!vars) PROVE PlanInv'
<1>1. CASE Team!StartRun \/ Team!ResumeRun \/ Team!Save
  BY <1>1, BeginFits, SaveFits
<1>2. ASSUME NEW ok \in BOOLEAN, NEW steps \in BOOLEAN, NEW r \in {"tester", "reviewer"}, NEW b \in BOOLEAN,
             \/ Team!PauseStopped \/ Team!RoleCancelled \/ Team!Planner(ok, steps)
             \/ Team!Implementer(ok) \/ Team!Synthesizer(ok) \/ Team!Check(r, b)
             \/ Team!BeginWork \/ Team!RejectPlan \/ Team!Finalize
      PROVE  PlanInv'
  BY <1>2, RoleFits
<1>3. CASE Team!EndTurn \/ Team!Abandon \/ Team!Abandoned \/ Team!Crash
  BY <1>3, OverFits
<1>4. CASE Team!BeginRole
  BY <1>4 DEF Team!BeginRole, Team!idleVars, PlanInv, BaseFits, TurnFits, Fits, Synthesized
<1>5. CASE Team!StopTurn \/ Team!Silent \/ UNCHANGED Team!vars
  <2>1. UNCHANGED <<at, run, next, saved, plan, author, planned, base>>
    BY <1>5 DEF Team!StopTurn, Team!Silent, Team!vars, Team!idleVars
  <2> QED BY <2>1 DEF PlanInv, BaseFits, OrdinaryFits, TurnFits, Fits, Synthesized
<1>6. TRUE \in BOOLEAN /\ "tester" \in {"tester", "reviewer"}
  OBVIOUS
<1>7. ASSUME NEW st \in {"running", "completed", "failed", "interrupted"},
             \/ Team!BeginTurn \/ Team!TurnPlans \/ Team!TurnApproval \/ Team!UpdatePlan(st)
             \/ st # "running" /\ Team!TurnWorked(st)
      PROVE  PlanInv'
  BY <1>7, OrdinaryPlan
<1> QED BY <1>1, <1>2, <1>3, <1>4, <1>5, <1>6, <1>7 DEF Team!Next

(* Checkpoints and plan are right together.                                *)
LEMMA TeamInvariant == Spec => [](TeamInv /\ PlanInv)
<1>1. Init => TeamInv /\ PlanInv
  BY TeamInit, PlanInit DEF Init
<1>2. TeamInv /\ PlanInv /\ [Next]_vars => (TeamInv /\ PlanInv)'
  BY TeamStep, PlanStep, TeamMapsStep
<1> QED BY <1>1, <1>2, PTL DEF Spec

(* A role whose end was saved is not run again, however often the run is   *)
(* stopped, cut off by a crash and resumed with other roles switched on    *)
(* (runTeamTurn, persistTeamRunCheckpoint and resumeTeamRun of             *)
(* team_resume.go).                                                        *)
THEOREM NoRoleTwiceAlways == Spec => []NoRoleTwice
<1>1. TeamInv => NoRoleTwice
  <2> SUFFICES ASSUME TeamInv, at = "role" PROVE Team!Turn(run) \notin worked
    BY DEF NoRoleTwice, Team!NoRoleTwice
  <2>1. run \in Team!Runs /\ OnlyBefore(run) /\ worked \subseteq run.found
    BY DEF TeamInv
  <2>2. CASE run.stage \in Team!Roles
    BY <2>1, <2>2, DueIsNew
  <2>3. CASE run.stage \notin Team!Roles
    <3>1. \A e \in run.found : e # Team!Turn(run)
      BY <2>1, <2>3 DEF Team!Runs, Team!Turn
    <3> QED BY <2>1, <3>1
  <2> QED BY <2>2, <2>3
<1> QED BY <1>1, TeamInvariant, PTL

(* Between turns the plan that a team run has written and the run agree,   *)
(* whatever plans other turns of the session write, and however turns are  *)
(* stopped, rolled back or cut off by a crash between                      *)
(* the writes of the two (finishPlanState, persistRunFailure and the end   *)
(* of a turn).                                                             *)
THEOREM PlanFollowsRunAlways == Spec => []PlanFollowsRun
<1>1. PlanInv => PlanFollowsRun
  BY DEF PlanInv, Fits, Synthesized, PlanFollowsRun, Team!PlanFollowsRun
<1> QED BY <1>1, TeamInvariant, PTL

(* What the invariant does not say of a turn.                              *)
Turns == [saved : Team!States, plan : Team!Plans, author : Team!Authors, worked : SUBSET (Team!Roles \X Team!Attempts)]
TurnTypes ==
  /\ plan \in Team!Plans /\ author \in Team!Authors /\ planned \in BOOLEAN /\ base \in Turns
  /\ ctx \in {"live", "stopped", "silent"} /\ set \in Team!Settings /\ teamTurns \in 0..MaxTeamTurns

(* Roles that have worked are roles, at an attempt.                        *)
LEMMA WorkedTypes == ASSUME TeamInv PROVE worked \in SUBSET (Team!Roles \X Team!Attempts)
BY DEF TeamInv, Team!States, Team!Runs

(* Nothing is switched off.                                                *)
LEMMA NoSettingsType == Team!NoSettings \in Team!Settings
<1>1. Team!Roles \ {} = Team!Roles /\ {} \in SUBSET Switched
  OBVIOUS
<1>2. Team!Roles \in {Team!Roles \ off : off \in SUBSET Switched}
  BY <1>1
<1> QED BY <1>2 DEF Team!NoSettings, Team!Settings

(* A turn that has nothing behind it.                                      *)
LEMMA NoTurnType == Team!NoTurn \in Turns
BY NewRunFacts DEF Team!NoTurn, Turns, Team!NoRun, Team!States, Team!Statuses, Team!Plans, Team!Authors

(* A step of a team run keeps the types of its turn.                       *)
LEMMA TurnTypesStep ==
  ASSUME TeamInv, TurnTypes, [Team!Next]_(Team!vars)
  PROVE  TurnTypes'
<1>0. MaxTeamTurns \in Nat /\ teamTurns \in 0..MaxTeamTurns
  BY BoundsAssumption DEF TurnTypes
<1>1. CASE Team!StartRun \/ Team!ResumeRun \/ Team!BeginTurn
  <2>0. [enabled : {Team!NoSettings.enabled}, planMode : BOOLEAN] \subseteq Team!Settings
    BY NoSettingsType DEF Team!Settings
  <2>1. /\ set' \in Team!Settings /\ teamTurns < MaxTeamTurns
        /\ base' = [saved |-> saved, plan |-> plan, author |-> author, worked |-> worked]
        /\ ctx' = "live" /\ planned' = FALSE /\ teamTurns' = teamTurns + 1 /\ plan' = plan /\ author' = author
    BY <1>1, <2>0 DEF Team!StartRun, Team!ResumeRun, Team!BeginTurn, Team!Begin
  <2>2. base' \in Turns
    BY <2>1, WorkedTypes DEF TeamInv, TurnTypes, Turns
  <2>3. teamTurns' \in 0..MaxTeamTurns
    BY <1>0, <2>1
  <2>4. plan' \in Team!Plans /\ planned' \in BOOLEAN /\ ctx' \in {"live", "stopped", "silent"}
    BY <2>1 DEF TurnTypes
  <2> QED BY <2>1, <2>2, <2>3, <2>4 DEF TurnTypes
<1>2. ASSUME UNCHANGED <<base, teamTurns>>, set' = set, ctx' \in {ctx, "stopped", "silent"},
             \/ UNCHANGED <<plan, author, planned>>
             \/ \E st \in {"running", "failed", "completed", "cancelled"} : Team!WritePlan(st)
      PROVE  TurnTypes'
  BY <1>2 DEF TurnTypes, Team!WritePlan, Team!Plans, Team!Authors
<1>3. ASSUME NEW ok \in BOOLEAN, NEW steps \in BOOLEAN,
             NEW r \in {"tester", "reviewer"}, NEW changes \in BOOLEAN,
             \/ Team!PauseStopped \/ Team!RoleCancelled \/ Team!Planner(ok, steps)
             \/ Team!Implementer(ok) \/ Team!Synthesizer(ok) \/ Team!Check(r, changes)
             \/ Team!BeginWork \/ Team!RejectPlan \/ Team!Finalize
      PROVE  TurnTypes'
  <2>1. /\ UNCHANGED <<base, teamTurns, set, ctx>>
    BY <1>3 DEF Team!PauseStopped, Team!RoleCancelled, Team!Planner, Team!Implementer, Team!Synthesizer,
                Team!Check, Team!BeginWork, Team!RejectPlan, Team!Finalize, Team!Pause, Team!Fail,
                Team!Saving, Team!idleVars
  <2>2. \/ Team!KeepPlan
        \/ \E st \in {"running", "failed", "completed", "cancelled"} : Team!WritePlan(st)
    BY <1>3 DEF Team!PauseStopped, Team!RoleCancelled, Team!Planner, Team!Implementer, Team!Synthesizer,
                Team!Check, Team!BeginWork, Team!RejectPlan, Team!Finalize, Team!Pause, Team!Fail,
                Team!FinishPlan
  <2> QED BY <1>2, <2>1, <2>2 DEF Team!KeepPlan
<1>4. CASE Team!Save \/ Team!BeginRole \/ Team!StopTurn \/ Team!Silent \/ UNCHANGED Team!vars
  <2>1. UNCHANGED <<base, teamTurns, set, plan, author, planned>> /\ ctx' \in {ctx, "stopped", "silent"}
    BY <1>4 DEF Team!Save, Team!BeginRole, Team!StopTurn, Team!Silent, Team!vars, Team!idleVars
  <2> QED BY <1>2, <2>1
<1>5. CASE Team!Abandon
  <2>1. UNCHANGED <<base, teamTurns, set, author, planned, ctx>> /\ plan' \in {plan, "cancelled"}
    BY <1>5 DEF Team!Abandon, Team!idleVars
  <2> QED BY <2>1 DEF TurnTypes, Team!Plans
<1>6. CASE Team!EndTurn \/ Team!Abandoned \/ Team!Crash
  <2>1. /\ plan' \in {plan, base.plan, "interrupted", "cancelled"} /\ author' \in {author, base.author}
        /\ Team!TurnOver
    BY <1>6 DEF Team!EndTurn, Team!Abandoned, Team!Crash, Team!Terminal
  <2>2. base.plan \in Team!Plans /\ plan \in Team!Plans /\ base.author \in Team!Authors /\ author \in Team!Authors
    BY DEF TurnTypes, Turns
  <2> QED BY <2>1, <2>2, NoSettingsType, NoTurnType DEF TurnTypes, Team!TurnOver, Team!Plans
<1>7. TRUE \in BOOLEAN /\ "tester" \in {"tester", "reviewer"}
  OBVIOUS
<1>8. ASSUME Team!TurnPlans \/ Team!TurnApproval
             \/ (\E st \in {"running", "completed"} : Team!UpdatePlan(st))
             \/ \E st \in {"completed", "failed", "interrupted"} : Team!TurnWorked(st)
      PROVE  TurnTypes'
  <2>1. UNCHANGED <<base, teamTurns, set, ctx>>
    BY <1>8 DEF Team!TurnPlans, Team!TurnApproval, Team!UpdatePlan, Team!TurnWorked,
                Team!TurnAt, Team!Closing, Team!idleVars
  <2>2. \/ Team!KeepPlan
        \/ \E st \in {"running", "failed", "completed", "cancelled"} : Team!WritePlan(st)
    BY <1>8 DEF Team!TurnPlans, Team!TurnApproval, Team!UpdatePlan, Team!TurnWorked, Team!FinishPlan
  <2> QED BY <1>2, <2>1, <2>2 DEF Team!KeepPlan
<1> QED BY <1>1, <1>3, <1>4, <1>5, <1>6, <1>7, <1>8 DEF Team!Next

(* The types of team runs.                                                 *)
LEMMA TeamTypes == Spec => []Team!TypeOK
<1>1. Init => TurnTypes
  <2> SUFFICES ASSUME Team!Init PROVE TurnTypes
    BY DEF Init
  <2>1. teamTurns \in 0..MaxTeamTurns
    BY BoundsAssumption DEF Team!Init
  <2>2. base \in Turns /\ set \in Team!Settings
    BY NoSettingsType, NoTurnType DEF Team!Init
  <2> QED BY <2>1, <2>2 DEF Team!Init, TurnTypes, Team!Plans, Team!Authors
<1>2. TeamInv /\ TurnTypes /\ [Next]_vars => TurnTypes'
  BY TurnTypesStep, TeamMapsStep
<1>3. TeamInv /\ TurnTypes => Team!TypeOK
  BY WorkedTypes DEF TeamInv, TurnTypes, Turns, Team!TypeOK
<1> QED BY <1>1, <1>2, <1>3, TeamInvariant, PTL DEF Spec

-----------------------------------------------------------------------------
(* The recovery of a task, for any number of turns and of events           *)

InTurn == (anchor + 1)..Len(log)
Has(events) == \E i \in InTurn : log[i] \in events
Over == Recovery!Ends \cup {"assistant"}

Snapshot ==
  /\ log \in Seq(Recovery!Events) /\ fresh \in Nat /\ anchor \in Nat /\ anchor + fresh <= Len(log)
  /\ status \in Recovery!Final \cup {"none", "running"}
  /\ step \notin {"idle", "down"} => status = "running"
  /\ step = "idle" => status # "running"
  /\ turns > 0 => status # "none"

(* What the log of the turn holds at every step of its runner and of its   *)
(* recovery: while the turn goes on nothing has ended it, what ended it    *)
(* did so once, and what has ended it since the snapshot was last written  *)
(* is found after the moment of that write.                                *)
TurnLog ==
  /\ \A i, j \in InTurn : log[i] \in Recovery!Ends /\ log[j] \in Recovery!Ends => i = j
  /\ Has({"assistant"}) => ~Has({"failed", "interrupted"})
  /\ step = "started" => anchor = Len(log)
  /\ step \in {"working", "ending", "plan", "end"} => ~Has(Over)
  /\ step = "answered" => Has({"assistant"}) /\ ~Has(Recovery!Ends)
  /\ step = "committed" => Has({"assistant"})
  /\ step = "ended" => Has({"failed"})
  /\ step = "final" => (Has({"user"}) => Has({"interrupted"})) /\ ~Has(Over \ {"interrupted"})
  /\ status = "running" => \A i \in InTurn : log[i] \in Over => i > Len(log) - fresh
  /\ status \in Recovery!Final =>
       /\ Has({"user"}) => Has(Over)
       /\ \A e \in {"failed", "interrupted"} : Has({e}) => status = e

RecoveryInv == Snapshot /\ (~outlived => TurnLog)

(* The events of the turn are those of the chain after the anchor.         *)
LEMMA TurnEvents ==
  ASSUME Snapshot
  PROVE  /\ Len(Recovery!Turn) = Len(log) - anchor
         /\ \A i \in 1..Len(Recovery!Turn) : anchor + i \in InTurn /\ Recovery!Turn[i] = log[anchor + i]
         /\ \A j \in InTurn : j - anchor \in 1..Len(Recovery!Turn) /\ Recovery!Turn[j - anchor] = log[j]
         /\ \A e : Recovery!In(e, Recovery!Turn) <=> Has({e})
<1>1. log \in Seq(Recovery!Events) /\ anchor \in Nat /\ anchor <= Len(log) /\ Len(log) \in Nat
  BY DEF Snapshot
<1>2. /\ Len(Recovery!Turn) = Len(log) - anchor
      /\ \A i \in 1..(Len(log) - anchor) : Recovery!Turn[i] = log[anchor + i]
  BY <1>1 DEF Recovery!Turn
<1>3. \A i \in 1..Len(Recovery!Turn) : anchor + i \in InTurn /\ Recovery!Turn[i] = log[anchor + i]
  BY <1>1, <1>2 DEF InTurn
<1>4. ASSUME NEW j \in InTurn PROVE j - anchor \in 1..Len(Recovery!Turn) /\ Recovery!Turn[j - anchor] = log[j]
  <2>1. j - anchor \in 1..(Len(log) - anchor) /\ anchor + (j - anchor) = j
    BY <1>1 DEF InTurn
  <2> QED BY <1>2, <2>1
<1>5. \A e : Recovery!In(e, Recovery!Turn) <=> Has({e})
  BY <1>3, <1>4 DEF Recovery!In, Has
<1> QED BY <1>2, <1>3, <1>4, <1>5

(* What the log says after one more event.                                 *)
LEMMA OneMoreEvent ==
  ASSUME Snapshot, NEW e \in Recovery!Events, Recovery!Append1(e), UNCHANGED anchor
  PROVE  /\ log' \in Seq(Recovery!Events) /\ fresh' \in Nat /\ anchor' + fresh' <= Len(log')
         /\ Len(log') - fresh' = Len(log) - fresh /\ Len(log') = Len(log) + 1
         /\ InTurn' = InTurn \cup {Len(log) + 1} /\ Len(log) + 1 > Len(log) - fresh
         /\ \A i \in InTurn : log'[i] = log[i] /\ i # Len(log) + 1
         /\ log'[Len(log) + 1] = e
         /\ \A some : Has(some)' <=> Has(some) \/ e \in some
<1>1. /\ log \in Seq(Recovery!Events) /\ fresh \in Nat /\ anchor \in Nat /\ anchor + fresh <= Len(log)
      /\ Len(log) \in Nat
  BY DEF Snapshot
<1>2. log' = Append(log, e) /\ fresh' = fresh + 1
  BY DEF Recovery!Append1
<1>3. log' \in Seq(Recovery!Events) /\ Len(log') = Len(log) + 1 /\ log'[Len(log) + 1] = e
  BY <1>1, <1>2
<1>4. \A i \in InTurn : log'[i] = log[i] /\ i # Len(log) + 1
  BY <1>1, <1>2 DEF InTurn
<1>5. InTurn' = InTurn \cup {Len(log) + 1}
  BY <1>1, <1>3 DEF InTurn
<1>6. \A some : Has(some)' <=> Has(some) \/ e \in some
  BY <1>3, <1>4, <1>5 DEF Has
<1>7. /\ fresh' \in Nat /\ anchor' + fresh' <= Len(log')
      /\ Len(log') - fresh' = Len(log) - fresh /\ Len(log) + 1 > Len(log) - fresh
  BY <1>1, <1>2, <1>3
<1> QED BY <1>3, <1>4, <1>5, <1>6, <1>7

(* Nothing is logged.                                                      *)
LEMMA RecoveryInit == ASSUME Recovery!Init PROVE RecoveryInv
<1>1. /\ log = <<>> /\ anchor = 0 /\ fresh = 0 /\ status = "none" /\ step = "idle" /\ turns = 0
  BY DEF Recovery!Init
<1>2. Len(log) = 0 /\ log \in Seq(Recovery!Events)
  BY <1>1
<1>3. InTurn = {}
  BY <1>1, <1>2 DEF InTurn
<1> QED BY <1>1, <1>2, <1>3 DEF RecoveryInv, Snapshot, TurnLog, Has, Recovery!Final

(* A turn begins, or is rolled back: its part of the log is empty.         *)
LEMMA EmptyTurnStep ==
  ASSUME RecoveryInv, Recovery!Start \/ Recovery!Rollback
  PROVE  RecoveryInv'
<1>1. /\ log \in Seq(Recovery!Events) /\ fresh \in Nat /\ anchor \in Nat /\ anchor + fresh <= Len(log)
      /\ Len(log) \in Nat
  BY DEF RecoveryInv, Snapshot
<1>2. log' \in Seq(Recovery!Events) /\ anchor' = Len(log') /\ fresh' = 0 /\ status' = "running"
      /\ step' \in {"started", "ending"} /\ Len(log') \in Nat
  <2>1. CASE Recovery!Start
    BY <1>1, <2>1 DEF Recovery!Start, Recovery!Write
  <2>2. CASE Recovery!Rollback
    <3>1. status' = "running" /\ log' = SubSeq(log, 1, anchor) /\ anchor' = anchor /\ step' = "ending"
      BY <2>2 DEF Recovery!Rollback, RecoveryInv, Snapshot
    <3>2. log' \in Seq(Recovery!Events) /\ Len(log') = anchor
      BY <1>1, <3>1
    <3>3. fresh' = 0
      BY <1>1, <2>2 DEF Recovery!Rollback
    <3> QED BY <1>1, <3>1, <3>2, <3>3
  <2> QED BY <2>1, <2>2
<1>3. InTurn' = {}
  BY <1>2 DEF InTurn
<1> QED BY <1>2, <1>3 DEF RecoveryInv, Snapshot, TurnLog, Has, Recovery!Final

(* The turn is recorded, or ended by its recovery, one event at a time.    *)
LEMMA RecordStep ==
  ASSUME RecoveryInv, NEW e \in Recovery!Events, Recovery!Append1(e),
         UNCHANGED <<anchor, status, turns, outlived>>, step \notin {"idle", "down"}, step' \notin {"idle", "down"},
         ~outlived =>
           /\ e \in Over => ~Has(Recovery!Ends)
           /\ e \in {"failed", "interrupted"} => ~Has({"assistant"})
           /\ step' # "started"
           /\ step' \in {"working", "ending", "plan", "end"} => ~Has(Over) /\ e \notin Over
           /\ step' = "answered" => e = "assistant"
           /\ step' = "committed" => Has({"assistant"})
           /\ step' = "ended" => e = "failed"
           /\ step' = "final" => e = "interrupted" /\ ~Has(Over)
  PROVE  RecoveryInv'
<1>1. Snapshot /\ status = "running"
  BY DEF RecoveryInv, Snapshot
<1>2. Snapshot'
  BY <1>1, OneMoreEvent DEF Snapshot
<1>3. ASSUME ~outlived PROVE TurnLog'
  <2>1. TurnLog
    BY <1>3 DEF RecoveryInv
  <2>2. \A i, j \in InTurn' : log'[i] \in Recovery!Ends /\ log'[j] \in Recovery!Ends => i = j
    BY <1>1, <1>3, <2>1, OneMoreEvent DEF TurnLog, Has, Over
  <2>3. \A i \in InTurn' : log'[i] \in Over => i > Len(log') - fresh'
    BY <1>1, <2>1, OneMoreEvent DEF TurnLog
  <2>4. Has({"assistant"})' => ~Has({"failed", "interrupted"})'
    <3>1. e \in {"assistant"} => ~Has({"failed", "interrupted"})
      BY <1>3 DEF Over, Has, Recovery!Ends
    <3>2. /\ Has({"assistant"})' <=> Has({"assistant"}) \/ e \in {"assistant"}
          /\ Has({"failed", "interrupted"})' <=> Has({"failed", "interrupted"}) \/ e \in {"failed", "interrupted"}
      BY <1>1, OneMoreEvent
    <3>3. Has({"assistant"}) => ~Has({"failed", "interrupted"})
      BY <2>1 DEF TurnLog
    <3> QED BY <1>3, <3>1, <3>2, <3>3
  <2>5. \A some : Has(some)' <=> Has(some) \/ e \in some
    BY <1>1, OneMoreEvent
  <2>6. Has(Over)' <=> Has(Over) \/ e \in Over
    BY <2>5 DEF Over
  <2>7. Has(Over \ {"interrupted"})' <=> Has(Over \ {"interrupted"}) \/ e \in Over \ {"interrupted"}
    BY <2>5 DEF Over
  <2>8. step' = "answered" => Has({"assistant"})' /\ ~Has(Recovery!Ends)'
    <3>1. Has(Recovery!Ends)' <=> Has(Recovery!Ends) \/ e \in Recovery!Ends
      BY <2>5 DEF Recovery!Ends
    <3> QED BY <1>3, <2>5, <3>1 DEF Over, Recovery!Ends
  <2>9. step' = "final" => (Has({"user"})' => Has({"interrupted"})') /\ ~Has(Over \ {"interrupted"})'
    <3>1. Has(Over \ {"interrupted"}) => Has(Over)
      BY DEF Has
    <3> QED BY <1>3, <2>5, <2>7, <3>1
  <2>10. /\ step' \in {"working", "ending", "plan", "end"} => ~Has(Over)'
         /\ step' = "committed" => Has({"assistant"})'
         /\ step' = "ended" => Has({"failed"})'
         /\ step' # "started"
    BY <1>3, <2>5, <2>6
  <2> QED BY <1>1, <2>2, <2>3, <2>4, <2>8, <2>9, <2>10 DEF TurnLog, Recovery!Final
<1> QED BY <1>2, <1>3 DEF RecoveryInv

(* Nothing is appended: the step is another, or the snapshot is written.   *)
LEMMA SnapshotStep ==
  ASSUME RecoveryInv, UNCHANGED <<log, anchor, turns>>,
         \/ fresh' = fresh /\ status' = status
         \/ fresh' = 0 /\ status' \in Recovery!Final \cup {"running"},
         status' = "running" => status = "running",
         Snapshot', outlived => outlived',
         ~outlived' =>
           /\ step' # "started" \/ step' = step
           /\ step' \in {"working", "ending", "plan", "end"} => ~Has(Over)
           /\ step' = "answered" => step = "answered"
           /\ step' = "committed" => step = "committed"
           /\ step' # "ended" \/ step' = step
           /\ step' = "final" => (Has({"user"}) => Has({"interrupted"})) /\ ~Has(Over \ {"interrupted"})
           /\ status' = "running" /\ fresh' # fresh => ~Has(Over)
           /\ status' \in Recovery!Final /\ status' # status =>
                /\ Has({"user"}) => Has(Over)
                /\ \A e \in {"failed", "interrupted"} : Has({e}) => status' = e
  PROVE  RecoveryInv'
<1>1. SUFFICES ASSUME ~outlived' PROVE TurnLog'
  BY DEF RecoveryInv
<1>2. TurnLog
  BY <1>1 DEF RecoveryInv
<1>3. InTurn' = InTurn /\ \A some : Has(some)' <=> Has(some)
  BY DEF InTurn, Has
<1>4. /\ Has(Over)' <=> Has(Over)
      /\ Has(Recovery!Ends)' <=> Has(Recovery!Ends)
      /\ Has(Over \ {"interrupted"})' <=> Has(Over \ {"interrupted"})
  BY DEF InTurn, Has, Over, Recovery!Ends
<1>5. status' = "running" => \A i \in InTurn : log[i] \in Over => i > Len(log) - fresh'
  BY <1>1, <1>2 DEF TurnLog, Has, Recovery!Final
<1>6. status' \in Recovery!Final =>
        /\ Has({"user"}) => Has(Over)
        /\ \A e \in {"failed", "interrupted"} : Has({e}) => status' = e
  BY <1>1, <1>2 DEF TurnLog, Recovery!Final
<1>7. Has({"assistant"}) => ~Has({"failed", "interrupted"})
  BY <1>2 DEF TurnLog
<1>8. \A i, j \in InTurn : log[i] \in Recovery!Ends /\ log[j] \in Recovery!Ends => i = j
  BY <1>2 DEF TurnLog
<1>9. /\ step' = "answered" => Has({"assistant"}) /\ ~Has(Recovery!Ends)
      /\ step' = "committed" => Has({"assistant"})
      /\ step' = "ended" => Has({"failed"})
      /\ step' = "started" => anchor = Len(log)
  BY <1>1, <1>2 DEF TurnLog
<1> QED BY <1>1, <1>3, <1>4, <1>5, <1>6, <1>7, <1>8, <1>9 DEF TurnLog

(* Stream events are written; once the answer is in the log only after the *)
(* end of the turn, which outlived remembers.                              *)
LEMMA FlushStep == ASSUME RecoveryInv, Recovery!Flush PROVE RecoveryInv'
<1>1. /\ status = "running" /\ status' = "running" /\ fresh' = 0 /\ UNCHANGED <<step, log, anchor, turns>>
      /\ step \in {"started", "working", "answered", "committed", "ending"}
      /\ outlived' = (outlived \/ Recovery!In("assistant", Recovery!Turn)) /\ Snapshot
  BY DEF Recovery!Flush, Recovery!Write, RecoveryInv, Snapshot
<1>2. Snapshot'
  BY <1>1 DEF Snapshot
<1>3. ASSUME ~outlived' PROVE ~Has(Over) /\ TurnLog
  <2>1. ~outlived /\ ~Has({"assistant"})
    BY <1>1, <1>3, TurnEvents
  <2>2. TurnLog
    BY <2>1 DEF RecoveryInv
  <2>3. CASE step = "started"
    BY <1>1, <2>2, <2>3 DEF TurnLog, InTurn, Has, Snapshot
  <2> QED BY <1>1, <2>1, <2>2, <2>3 DEF TurnLog
<1> QED BY <1>1, <1>2, <1>3, SnapshotStep DEF TurnLog, Recovery!Final

(* FinishTaskRuntime, of a turn that was committed or has failed.          *)
LEMMA FinishStep == ASSUME RecoveryInv, Recovery!Finish PROVE RecoveryInv'
<1>1. /\ step \in {"committed", "ended"} /\ step' = "idle" /\ fresh' = 0
      /\ status' = (IF step = "committed" THEN "completed" ELSE "failed")
      /\ UNCHANGED <<log, anchor, turns, outlived>> /\ Snapshot
  BY DEF Recovery!Finish, Recovery!Write, RecoveryInv
<1>2. status' \in Recovery!Final /\ Snapshot'
  BY <1>1 DEF Recovery!Final, Snapshot
<1>3. ASSUME ~outlived
      PROVE  (Has({"user"}) => Has(Over)) /\ \A e \in {"failed", "interrupted"} : Has({e}) => status' = e
  <2>1. TurnLog
    BY <1>3 DEF RecoveryInv
  <2>2. CASE step = "committed"
    BY <2>1, <2>2 DEF TurnLog, Has, Over
  <2>3. CASE step = "ended"
    <3>1. Has({"failed"})
      BY <2>1, <2>3 DEF TurnLog
    <3>2. ~Has({"interrupted"})
      BY <2>1, <3>1 DEF TurnLog, Has, Recovery!Ends
    <3> QED BY <1>1, <2>3, <3>1, <3>2 DEF Has, Over, Recovery!Ends
  <2> QED BY <1>1, <2>2, <2>3
<1> QED BY <1>1, <1>2, <1>3, SnapshotStep DEF Recovery!Final

(* Recovery finds the end of the turn after the last write of its          *)
(* snapshot: if the turn failed or was interrupted that is what it finds.  *)
LEMMA CompletionStep == ASSUME RecoveryInv, Recovery!RecoverCompletion PROVE RecoveryInv'
<1> DEFINE found == CHOOSE i \in Recovery!CompletionAfter : \A j \in Recovery!CompletionAfter : j <= i
           last == log[found]
<1>1. /\ status = "running" /\ step' = "idle" /\ fresh' = 0 /\ Recovery!CompletionAfter # {}
      /\ status' = (IF last \in {"failed", "interrupted"} THEN last ELSE "completed")
      /\ UNCHANGED <<log, anchor, turns, outlived>> /\ Snapshot
  BY DEF Recovery!RecoverCompletion, Recovery!Write, RecoveryInv
<1>2. status' \in Recovery!Final
  <2> HIDE DEF last
  <2> QED BY <1>1 DEF Recovery!Final
<1>3. Snapshot'
  <2> HIDE DEF last
  <2> QED BY <1>1, <1>2 DEF Recovery!Final, Snapshot
<1>4. /\ Len(log) \in Nat /\ anchor \in Nat /\ fresh \in Nat /\ anchor + fresh <= Len(log)
  BY <1>1 DEF Snapshot
<1>5. \A i \in Recovery!CompletionAfter : i \in InTurn /\ log[i] \in Over
  BY <1>4 DEF Recovery!CompletionAfter, InTurn, Over
<1>6. Has(Over)
  BY <1>1, <1>5 DEF Has
<1>7. ASSUME ~outlived, NEW e \in {"failed", "interrupted"}, Has({e}) PROVE status' = e
  <2>1. TurnLog
    BY <1>7 DEF RecoveryInv
  <2>2. PICK k \in InTurn : log[k] = e
    BY <1>7 DEF Has
  <2>3. \A i \in InTurn : log[i] \in Over => i = k
    <3>1. ~Has({"assistant"})
      BY <1>7, <2>1 DEF TurnLog, Has
    <3>2. \A i \in InTurn : log[i] \in Over => log[i] \in Recovery!Ends
      BY <3>1 DEF Has, Over
    <3>3. log[k] \in Recovery!Ends
      BY <2>2 DEF Recovery!Ends
    <3> QED BY <2>1, <3>2, <3>3 DEF TurnLog
  <2>4. Recovery!CompletionAfter = {k}
    BY <1>1, <1>5, <2>3
  <2>5. k <= k
    BY <1>4 DEF InTurn
  <2>6. found = k
    BY <2>4, <2>5
  <2> QED BY <1>1, <2>2, <2>6
<1> HIDE DEF last
<1> QED BY <1>1, <1>2, <1>3, <1>6, <1>7, SnapshotStep DEF Recovery!Final

(* Recovery finds no end of the turn; it has none then.                    *)
LEMMA InterruptedStep == ASSUME RecoveryInv, Recovery!RecoverInterrupted PROVE RecoveryInv'
<1>1. /\ status = "running" /\ step' = "plan" /\ Recovery!CompletionAfter = {}
      /\ UNCHANGED <<log, fresh, anchor, status, turns, outlived>> /\ Snapshot
  BY DEF Recovery!RecoverInterrupted, RecoveryInv
<1>2. Snapshot'
  BY <1>1 DEF Snapshot
<1>3. ASSUME ~outlived PROVE ~Has(Over)
  <2>1. \A i \in InTurn : log[i] \in Over => i > Len(log) - fresh
    BY <1>1, <1>3 DEF RecoveryInv, TurnLog
  <2>2. \A i \in InTurn : log[i] \in Over => i \in Recovery!CompletionAfter
    BY <1>1, <2>1 DEF Recovery!CompletionAfter, InTurn, Over, Snapshot
  <2> QED BY <1>1, <2>2 DEF Has
<1> QED BY <1>1, <1>2, <1>3, SnapshotStep

(* The end of the turn that was interrupted, and its snapshot.             *)
LEMMA RecoverSnapshotStep == ASSUME RecoveryInv, Recovery!RecoverSnapshot PROVE RecoveryInv'
<1>1. /\ step = "final" /\ step' = "idle" /\ fresh' = 0 /\ status' = "interrupted"
      /\ UNCHANGED <<log, anchor, turns, outlived>> /\ Snapshot
  BY DEF Recovery!RecoverSnapshot, Recovery!Write, RecoveryInv
<1>2. Snapshot'
  BY <1>1 DEF Snapshot, Recovery!Final
<1>3. ASSUME ~outlived
      PROVE  (Has({"user"}) => Has(Over)) /\ \A e \in {"failed", "interrupted"} : Has({e}) => status' = e
  <2>1. TurnLog
    BY <1>3 DEF RecoveryInv
  <2>2. (Has({"user"}) => Has({"interrupted"})) /\ ~Has(Over \ {"interrupted"})
    BY <1>1, <2>1 DEF TurnLog
  <2>3. ~Has({"failed"})
    BY <2>2 DEF Has, Over, Recovery!Ends
  <2>4. Has({"user"}) => Has(Over)
    BY <2>2 DEF Has, Over, Recovery!Ends
  <2> QED BY <1>1, <2>3, <2>4
<1> QED BY <1>1, <1>2, <1>3, SnapshotStep DEF Recovery!Final

(* Every step of the turn, of a crash and of the recovery keeps the log right. *)
LEMMA RecoveryStep == ASSUME RecoveryInv, [Recovery!Next]_(Recovery!vars) PROVE RecoveryInv'
<1>1. Snapshot /\ (~outlived => TurnLog)
  BY DEF RecoveryInv
<1>2. CASE Recovery!Start \/ Recovery!Rollback
  BY <1>2, EmptyTurnStep
<1>3. /\ "user" \in Recovery!Events /\ "plan" \in Recovery!Events /\ "assistant" \in Recovery!Events
      /\ "checkpoint" \in Recovery!Events /\ "failed" \in Recovery!Events
      /\ "interrupted" \in Recovery!Events /\ "planInterrupted" \in Recovery!Events
  BY DEF Recovery!Events
<1>4. ASSUME ~Has(Over) PROVE ~Has(Recovery!Ends) /\ ~Has({"assistant"})
  BY <1>4 DEF Has, Over
<1>5. CASE Recovery!RecordUser
  <2>1. ~outlived => ~Has(Over)
    BY <1>1, <1>5 DEF Recovery!RecordUser, TurnLog, Has, InTurn, Snapshot
  <2> QED BY <1>3, <1>5, <2>1, RecordStep DEF Recovery!RecordUser, Over, Recovery!Ends
<1>6. CASE Recovery!RecordPlan
  <2>1. ~outlived => ~Has(Over)
    BY <1>1, <1>6 DEF Recovery!RecordPlan, TurnLog
  <2> QED BY <1>3, <1>6, <2>1, RecordStep DEF Recovery!RecordPlan, Over, Recovery!Ends
<1>7. CASE Recovery!RecordAssistant
  <2>1. ~outlived => ~Has(Over)
    BY <1>1, <1>7 DEF Recovery!RecordAssistant, TurnLog
  <2> QED BY <1>3, <1>4, <1>7, <2>1, RecordStep DEF Recovery!RecordAssistant
<1>8. CASE Recovery!RecordCheckpoint
  <2>1. ~outlived => Has({"assistant"}) /\ ~Has(Recovery!Ends)
    BY <1>1, <1>8 DEF Recovery!RecordCheckpoint, TurnLog
  <2> QED BY <1>3, <1>8, <2>1, RecordStep DEF Recovery!RecordCheckpoint
<1>9. CASE Recovery!RecordTerminal
  <2>1. ~outlived => ~Has(Over)
    BY <1>1, <1>9 DEF Recovery!RecordTerminal, TurnLog
  <2> QED BY <1>3, <1>4, <1>9, <2>1, RecordStep DEF Recovery!RecordTerminal
<1>10. CASE Recovery!RecoverPlan
  <2>1. ~outlived => ~Has(Over)
    BY <1>1, <1>10 DEF Recovery!RecoverPlan, TurnLog
  <2>2. CASE Recovery!RunningPlan
    BY <1>3, <1>10, <2>1, <2>2, RecordStep DEF Recovery!RecoverPlan, Over, Recovery!Ends
  <2>3. CASE ~Recovery!RunningPlan
    <3>1. Snapshot'
      BY <1>1, <1>10, <2>3 DEF Recovery!RecoverPlan, Snapshot
    <3> QED BY <1>10, <2>1, <2>3, <3>1, SnapshotStep DEF Recovery!RecoverPlan
  <2> QED BY <2>2, <2>3
<1>11. CASE Recovery!RecoverEnd
  <2>1. ~outlived => ~Has(Over)
    BY <1>1, <1>11 DEF Recovery!RecoverEnd, TurnLog
  <2>2. CASE Recovery!In("user", Recovery!Turn)
    BY <1>3, <1>4, <1>11, <2>1, <2>2, RecordStep DEF Recovery!RecoverEnd
  <2>3. CASE ~Recovery!In("user", Recovery!Turn)
    <3>1. Snapshot'
      BY <1>1, <1>11, <2>3 DEF Recovery!RecoverEnd, Snapshot
    <3>2. ~Has({"user"})
      BY <1>1, <2>3, TurnEvents
    <3>3. ~outlived => ~Has(Over \ {"interrupted"})
      BY <2>1 DEF Has
    <3> QED BY <1>11, <2>3, <3>1, <3>2, <3>3, SnapshotStep DEF Recovery!RecoverEnd
  <2> QED BY <2>2, <2>3
<1>12. CASE Recovery!Retain \/ Recovery!Crash \/ Recovery!RecoverNothing \/ UNCHANGED Recovery!vars
  <2>1. /\ UNCHANGED <<log, fresh, anchor, status, turns, outlived>>
        /\ \/ step = "working" /\ step' = "ending"
           \/ step' = "down"
           \/ status # "running" /\ step' = "idle"
           \/ step' = step
    BY <1>12 DEF Recovery!Retain, Recovery!Crash, Recovery!RecoverNothing, Recovery!vars
  <2>2. Snapshot'
    BY <1>1, <2>1 DEF Snapshot
  <2> QED BY <1>1, <2>1, <2>2, SnapshotStep DEF TurnLog
<1> QED BY <1>2, <1>5, <1>6, <1>7, <1>8, <1>9, <1>10, <1>11, <1>12, FlushStep, FinishStep, CompletionStep,
           InterruptedStep, RecoverSnapshotStep DEF Recovery!Next

(* A step of the program is a step of the recovery or none of its own.     *)
LEMMA RecoveryMapsStep == [Next]_vars => [Recovery!Next]_(Recovery!vars)
<1>1. ASSUME UNCHANGED recovery PROVE UNCHANGED Recovery!vars
  BY <1>1 DEF recovery, Recovery!vars
<1> QED BY <1>1 DEF Next, vars

(* However often and wherever the program is cut off, its recovery         *)
(* included, nothing ends a turn in the log that has ended, and when no    *)
(* task is left its snapshot says how the turn ended (recoverTaskRuntime   *)
(* and taskRuntimeCompletionAfter), for turns whose snapshot was not       *)
(* written after their end.                                                *)
THEOREM EndedOnceAlways == Spec => []EndedOnce
<1>1. Init => RecoveryInv
  BY RecoveryInit DEF Init
<1>2. RecoveryInv /\ [Next]_vars => RecoveryInv'
  BY RecoveryStep, RecoveryMapsStep
<1>3. ASSUME RecoveryInv PROVE EndedOnce
  <2> SUFFICES ASSUME ~outlived PROVE
        /\ Recovery!Cardinality({i \in 1..Len(Recovery!Turn) : Recovery!Turn[i] \in Recovery!Ends}) <= 1
        /\ step = "idle" /\ turns > 0 =>
             /\ status \in Recovery!Final
             /\ Recovery!In("user", Recovery!Turn) => Recovery!In("assistant", Recovery!Turn) \/
                   \E e \in Recovery!Ends : Recovery!In(e, Recovery!Turn)
             /\ \A e \in {"failed", "interrupted"} : Recovery!In(e, Recovery!Turn) => status = e
    BY DEF EndedOnce, Recovery!EndedOnce
  <2>1. Snapshot /\ TurnLog
    BY <1>3 DEF RecoveryInv
  <2> DEFINE ends == {i \in 1..Len(Recovery!Turn) : Recovery!Turn[i] \in Recovery!Ends}
  <2>2. \A i, j \in ends : i = j
    <3> TAKE i \in ends, j \in ends
    <3>1. anchor + i = anchor + j
      BY <2>1, TurnEvents DEF TurnLog
    <3> QED BY <2>1, <3>1, TurnEvents DEF Snapshot
  <2>3. Recovery!Cardinality(ends) <= 1
    <3> HIDE DEF ends
    <3>1. Recovery!Cardinality(ends) = Cardinality(ends)
      BY DEF Recovery!Cardinality, Cardinality
    <3>2. CASE ends = {}
      BY <3>1, <3>2, FS_EmptySet
    <3>3. CASE ends # {}
      <4>1. PICK i : ends = {i}
        BY <2>2, <3>3
      <4>2. Cardinality({i}) = 1
        BY FS_Singleton
      <4> QED BY <3>1, <4>1, <4>2
    <3> QED BY <3>2, <3>3
  <2>4. ASSUME step = "idle", turns > 0
        PROVE  /\ status \in Recovery!Final
               /\ Recovery!In("user", Recovery!Turn) => Recovery!In("assistant", Recovery!Turn) \/
                     \E e \in Recovery!Ends : Recovery!In(e, Recovery!Turn)
               /\ \A e \in {"failed", "interrupted"} : Recovery!In(e, Recovery!Turn) => status = e
    <3>1. status \in Recovery!Final
      BY <2>1, <2>4 DEF Snapshot
    <3>2. (Has({"user"}) => Has(Over)) /\ \A e \in {"failed", "interrupted"} : Has({e}) => status = e
      BY <2>1, <3>1 DEF TurnLog
    <3>3. Has(Over) => Has({"assistant"}) \/ \E e \in Recovery!Ends : Has({e})
      BY DEF Has, Over
    <3> QED BY <2>1, <3>1, <3>2, <3>3, TurnEvents
  <2> QED BY <2>3, <2>4
<1> QED BY <1>1, <1>2, <1>3, PTL DEF Spec

(* The step of a task or of its recovery, and the bounds of its log.       *)
LogTypes ==
  /\ step \in {"idle", "started", "working", "answered", "committed", "ending", "ended",
               "down", "plan", "end", "final"}
  /\ Len(log) <= MaxLog /\ turns \in 0..MaxTurns /\ outlived \in BOOLEAN

(* A step of the runner of a task or of the recovery keeps the bounds.     *)
LEMMA LogTypesStep ==
  ASSUME RecoveryInv, LogTypes, [Recovery!Next]_(Recovery!vars)
  PROVE  LogTypes'
<1>0. /\ MaxLog \in Nat /\ MaxTurns \in Nat
      /\ log \in Seq(Recovery!Events) /\ anchor \in Nat /\ fresh \in Nat /\ anchor + fresh <= Len(log)
  BY BoundsAssumption DEF RecoveryInv, Snapshot
<1>1. ASSUME NEW e, Recovery!Append1(e) PROVE Len(log') <= MaxLog
  BY <1>0, <1>1 DEF Recovery!Append1
<1>2. Len(SubSeq(log, 1, anchor)) <= MaxLog
  BY <1>0 DEF LogTypes
<1>3. CASE Recovery!Start
  BY <1>0, <1>3 DEF Recovery!Start, LogTypes
<1>4. CASE Recovery!Flush
  <2>1. outlived' \in BOOLEAN
    BY <1>4 DEF Recovery!Flush, LogTypes
  <2> QED BY <1>4, <2>1 DEF Recovery!Flush, LogTypes
<1>5. CASE Recovery!Rollback
  BY <1>2, <1>5 DEF Recovery!Rollback, LogTypes
<1>6. CASE Recovery!RecordUser \/ Recovery!RecordPlan \/ Recovery!RecordAssistant
           \/ Recovery!RecordCheckpoint \/ Recovery!RecordTerminal
  <2>1. Len(log') <= MaxLog
    BY <1>1, <1>6 DEF Recovery!RecordUser, Recovery!RecordPlan, Recovery!RecordAssistant,
                      Recovery!RecordCheckpoint, Recovery!RecordTerminal
  <2> QED BY <1>6, <2>1 DEF Recovery!RecordUser, Recovery!RecordPlan, Recovery!RecordAssistant,
                            Recovery!RecordCheckpoint, Recovery!RecordTerminal, LogTypes
<1>7. CASE Recovery!RecoverPlan \/ Recovery!RecoverEnd
  <2>1. Len(log') <= MaxLog
    BY <1>1, <1>7 DEF Recovery!RecoverPlan, Recovery!RecoverEnd, LogTypes
  <2> QED BY <1>7, <2>1 DEF Recovery!RecoverPlan, Recovery!RecoverEnd, LogTypes
<1>8. CASE Recovery!Retain \/ Recovery!Finish \/ Recovery!Crash \/ Recovery!RecoverNothing
           \/ Recovery!RecoverCompletion \/ Recovery!RecoverInterrupted \/ Recovery!RecoverSnapshot
           \/ UNCHANGED Recovery!vars
  BY <1>8 DEF Recovery!Retain, Recovery!Finish, Recovery!Crash, Recovery!RecoverNothing,
              Recovery!RecoverCompletion, Recovery!RecoverInterrupted, Recovery!RecoverSnapshot,
              Recovery!vars, LogTypes
<1> QED BY <1>3, <1>4, <1>5, <1>6, <1>7, <1>8 DEF Recovery!Next

(* The types of the snapshot and of the log beside it.                     *)
LEMMA RecoveryTypes == Spec => []Recovery!TypeOK
<1>1. Init => RecoveryInv /\ LogTypes
  <2>1. MaxLog \in Nat /\ MaxTurns \in Nat /\ Len(<<>>) = 0
    BY BoundsAssumption
  <2>2. Recovery!Init => LogTypes
    <3> SUFFICES ASSUME Recovery!Init PROVE LogTypes
      OBVIOUS
    <3>1. Len(log) <= MaxLog /\ turns \in 0..MaxTurns
      BY <2>1 DEF Recovery!Init
    <3> QED BY <3>1 DEF Recovery!Init, LogTypes
  <2> QED BY <2>2, RecoveryInit DEF Init
<1>2. RecoveryInv /\ LogTypes /\ [Next]_vars => (RecoveryInv /\ LogTypes)'
  BY RecoveryStep, LogTypesStep, RecoveryMapsStep
<1>3. ASSUME RecoveryInv, LogTypes PROVE Recovery!TypeOK
  <2>1. /\ log \in Seq(Recovery!Events) /\ anchor \in Nat /\ fresh \in Nat /\ anchor + fresh <= Len(log)
        /\ Len(log) \in Nat
    BY <1>3 DEF RecoveryInv, Snapshot
  <2>2. fresh \in 0..Len(log) /\ anchor \in 0..Len(log)
    BY <2>1
  <2> QED BY <1>3, <2>1, <2>2 DEF RecoveryInv, Snapshot, LogTypes, Recovery!TypeOK
<1> QED BY <1>1, <1>2, <1>3, PTL DEF Spec

-----------------------------------------------------------------------------
(* Automations, for any number of them, of callers and of chat tasks       *)

Records ==
  [exists : BOOLEAN, enabled : BOOLEAN, due : BOOLEAN,
   status : {"none", "starting", "running", "completed", "failed", "interrupted"},
   chat : Chats \cup {NoChat}, runs : Nat, failures : Nat]

AgentStates == {"none", "registered", "live", "stopping", "stuck", "ended", "reported"}

AutomationTypes ==
  /\ task \in [Autos -> Records]
  /\ caller \in [Callers -> [pc : {"idle", "launch", "attach", "started", "refused"},
                             auto : Autos \cup {NoAuto}, chat : Chats \cup {NoChat}]]
  /\ agent \in [Chats -> [state : AgentStates,
                          auto : Autos \cup {NoAuto}]]
  /\ bySession \in [Autos -> Chats \cup {NoChat}]

Runs(a) == task[a].exists /\ task[a].status = "running"

(* Chat tasks belong to automations: one that may still run is the one     *)
(* registered for its session, a start that has one holds one of its       *)
(* automation, and so does the record of a run.                            *)
AgentsOwned ==
  /\ \A x \in Chats : agent[x].state \in {"registered", "live", "stopping", "stuck"} =>
       agent[x].auto \in Autos /\ bySession[agent[x].auto] = x
  /\ \A x \in Chats : agent[x].auto \in Autos => agent[x].state # "none"
  /\ \A c \in Callers : caller[c].pc # "idle" <=> caller[c].auto \in Autos
  /\ \A c \in Callers : caller[c].pc \in {"attach", "started"} =>
       caller[c].chat \in Chats /\ agent[caller[c].chat].auto = caller[c].auto
  /\ \A c \in Callers : caller[c].pc = "attach" => agent[caller[c].chat].state = "registered"
  /\ \A c, d \in Callers :
       caller[c].pc = "attach" /\ caller[d].pc = "attach" /\ caller[c].chat = caller[d].chat => c = d
  /\ \A a \in Autos : Runs(a) => task[a].chat \in Chats /\ agent[task[a].chat].auto = a

(* The record of an automation no starts of which overlapped agrees with   *)
(* the one start that is under way and with its agents.                    *)
Agrees(a) ==
  /\ \A c, d \in Callers : caller[c].auto = a /\ caller[d].auto = a => c = d
  /\ Runs(a) => agent[task[a].chat].state \in {"live", "stopping", "stuck", "ended"}
  /\ \A x \in Chats :
       task[a].exists /\ agent[x].auto = a /\ agent[x].state \in {"live", "stopping", "stuck"} => Runs(a) /\ task[a].chat = x
  /\ \A c \in Callers : caller[c].auto = a /\ task[a].exists =>
       /\ caller[c].pc \in {"launch", "attach", "refused"} => task[a].status = "starting"
       /\ caller[c].pc = "started" /\ task[a].status \in {"starting", "running"} =>
            task[a].status = "running" /\ task[a].chat = caller[c].chat

AutomationsInv ==
  AutomationTypes /\ AgentsOwned /\ \A a \in Autos : a \notin overlapped => Agrees(a)

(* What a run that ends leaves of its record.                              *)
LEMMA EndedFacts ==
  ASSUME NEW t \in Records, NEW s \in {"completed", "failed", "interrupted"}
  PROVE  /\ Autom!Ended(t, s) \in Records /\ Autom!Ended(t, s).exists = t.exists
         /\ Autom!Ended(t, s).status = s /\ Autom!Ended(t, s).chat = t.chat
<1> DEFINE more == IF s = "completed" THEN t.failures ELSE t.failures + 1
<1>1. more \in Nat
  BY DEF Records
<1>2. Autom!Ended(t, s) = [t EXCEPT !.status = s, !.failures = more]
  BY DEF Autom!Ended
<1> HIDE DEF more
<1> QED BY <1>1, <1>2 DEF Records

(* There is no automation.                                                 *)
LEMMA AutomationsInit == ASSUME Autom!Init PROVE AutomationsInv
<1>1. /\ task = [a \in Autos |-> Autom!NoTask] /\ caller = [c \in Callers |-> Autom!IdleCall]
      /\ agent = [x \in Chats |-> Autom!NoAgent] /\ bySession = [a \in Autos |-> NoChat]
  BY DEF Autom!Init
<1>2. AutomationTypes
  BY <1>1 DEF AutomationTypes, AgentStates, Records, Autom!NoTask, Autom!IdleCall, Autom!NoAgent
<1>3. AgentsOwned /\ \A a \in Autos : Agrees(a)
  BY <1>1, AutosAssumption DEF AgentsOwned, Agrees, Runs, Autom!NoTask, Autom!IdleCall, Autom!NoAgent
<1> QED BY <1>2, <1>3 DEF AutomationsInv

(* Only records of automations change, and a record that changes is        *)
(* deleted, ends its run, or says of its run what it said before.          *)
LEMMA RecordsStep ==
  ASSUME AutomationsInv, UNCHANGED <<caller, agent, bySession, overlapped>>,
         task' \in [Autos -> Records],
         \A a \in Autos :
           \/ task'[a].exists = task[a].exists /\ task'[a].status = task[a].status /\ task'[a].chat = task[a].chat
           \/ ~task'[a].exists
           \/ /\ Runs(a) /\ task'[a].status \notin {"starting", "running"}
              /\ bySession[a] # task[a].chat
  PROVE  AutomationsInv'
<1>1. AutomationTypes'
  BY DEF AutomationsInv, AutomationTypes, AgentStates
<1>2. \A a \in Autos : Runs(a)' => Runs(a) /\ task'[a].chat = task[a].chat
  BY DEF Runs
<1>3. AgentsOwned'
  BY <1>2 DEF AutomationsInv, AgentsOwned
<1>4. ASSUME NEW a \in Autos, a \notin overlapped' PROVE Agrees(a)'
  <2>1. Agrees(a) /\ AgentsOwned
    BY <1>4 DEF AutomationsInv
  <2>2. CASE task'[a].exists = task[a].exists /\ task'[a].status = task[a].status /\ task'[a].chat = task[a].chat
    BY <2>1, <2>2 DEF Agrees, Runs
  <2>3. CASE ~task'[a].exists
    BY <2>1, <2>3 DEF Agrees, Runs
  <2>4. CASE Runs(a) /\ task'[a].status \notin {"starting", "running"} /\ bySession[a] # task[a].chat
    BY <2>1, <2>4 DEF Agrees, Runs, AgentsOwned
  <2> QED BY <2>2, <2>3, <2>4
<1> QED BY <1>1, <1>3, <1>4 DEF AutomationsInv

(* Editing, time, and a stop that waits for no end.                        *)
LEMMA EditStep ==
  ASSUME AutomationsInv, NEW a \in Autos,
         Autom!Save(a) \/ Autom!Delete(a) \/ Autom!Due(a) \/ Autom!StopMissing(a)
  PROVE  AutomationsInv'
<1>1. UNCHANGED <<caller, agent, bySession, overlapped>> /\ task \in [Autos -> Records]
  BY DEF Autom!Save, Autom!Delete, Autom!Due, Autom!StopMissing, AutomationsInv, AutomationTypes, AgentStates
<1>2. CASE Autom!Save(a) \/ Autom!Due(a)
  <2>1. PICK e \in BOOLEAN, due \in BOOLEAN : task' = [task EXCEPT ![a] = [task[a] EXCEPT !.enabled = e, !.due = due]]
    <3>1. CASE Autom!Save(a)
      BY <3>1 DEF Autom!Save, Autom!SetTask
    <3>2. CASE Autom!Due(a)
      <4>1. task[a].enabled \in BOOLEAN /\ task[a] \in Records
        BY <1>1 DEF Records
      <4>2. [task[a] EXCEPT !.due = TRUE] = [task[a] EXCEPT !.enabled = task[a].enabled, !.due = TRUE]
        BY <4>1 DEF Records
      <4> QED BY <3>2, <4>1, <4>2 DEF Autom!Due, Autom!SetTask
    <3> QED BY <1>2, <3>1, <3>2
  <2>2. \A b \in Autos : task'[b].exists = task[b].exists /\ task'[b].status = task[b].status
                          /\ task'[b].chat = task[b].chat
    BY <1>1, <2>1 DEF Records
  <2>3. task' \in [Autos -> Records]
    <3>1. task[a] \in Records
      BY <1>1
    <3>2. [task[a] EXCEPT !.enabled = e, !.due = due] \in Records
      BY <3>1 DEF Records
    <3> QED BY <1>1, <2>1, <3>2
  <2> QED BY <1>1, <2>2, <2>3, RecordsStep
<1>3. CASE Autom!Delete(a)
  <2> DEFINE t == [Autom!NoTask EXCEPT !.exists = FALSE, !.runs = task[a].runs]
  <2>1. t \in Records /\ ~t.exists
    BY <1>1 DEF Records, Autom!NoTask
  <2>2. task' = [task EXCEPT ![a] = t]
    BY <1>3 DEF Autom!Delete, Autom!SetTask
  <2> HIDE DEF t
  <2> QED BY <1>1, <2>1, <2>2, RecordsStep
<1>4. CASE Autom!StopMissing(a)
  <2> DEFINE x == task[a].chat
  <2>1. /\ Runs(a) /\ bySession[a] # x
        /\ task' = [b \in Autos |-> IF task[b].exists /\ task[b].status = "running" /\ task[b].chat = x
                                    THEN Autom!Ended(task[b], "failed") ELSE task[b]]
    BY <1>4 DEF Autom!StopMissing, Autom!Completed, Runs
  <2>2. \A b \in Autos : Runs(b) /\ task[b].chat = x => b = a
    BY <2>1 DEF AutomationsInv, AgentsOwned
  <2> HIDE DEF x
  <2>3. \A b \in Autos : task[b] \in Records
    BY <1>1
  <2>4. task' \in [Autos -> Records]
    BY <2>1, <2>3, EndedFacts
  <2>5. \A b \in Autos : b # a => task'[b] = task[b]
    BY <2>1, <2>2 DEF Runs
  <2>6. task'[a].status \notin {"starting", "running"}
    <3>1. task'[a] = Autom!Ended(task[a], "failed")
      BY <2>1 DEF Runs, x
    <3> QED BY <2>3, <3>1, EndedFacts
  <2>7. bySession[a] # task[a].chat
    BY <2>1 DEF x
  <2> QED BY <1>1, <2>1, <2>4, <2>5, <2>6, <2>7, RecordsStep
<1> QED BY <1>2, <1>3, <1>4

(* A start begins: no agent of its automation runs, unless it overlaps     *)
(* another.                                                                *)
LEMMA BeginStartStep ==
  ASSUME AutomationsInv, NEW c \in Callers, NEW a \in Autos, NEW written \in BOOLEAN, Autom!Begin(c, a, written)
  PROVE  AutomationsInv'
<1> DEFINE t == [task[a] EXCEPT !.runs = @ + 1, !.status = "starting", !.chat = NoChat,
                                !.due = @ /\ ~task[a].enabled]
<1>1. /\ caller[c].pc = "idle" /\ task[a].exists /\ task[a].status # "running"
      /\ task' = [task EXCEPT ![a] = t]
      /\ caller' = (IF written THEN [caller EXCEPT ![c] = [pc |-> "launch", auto |-> a, chat |-> NoChat]]
                   ELSE caller)
      /\ overlapped' = (IF Autom!Starting(a) # {} THEN overlapped \cup {a} ELSE overlapped)
      /\ UNCHANGED <<agent, bySession>>
  BY DEF Autom!Begin, Autom!Wanted, Autom!SetTask
<1>2. AutomationTypes /\ AgentsOwned /\ task[a] \in Records
  BY DEF AutomationsInv, AutomationTypes, AgentStates
<1>3. t \in Records /\ t.exists = task[a].exists /\ t.status = "starting"
  <2> DEFINE d == task[a].due /\ ~task[a].enabled
             n == task[a].runs + 1
  <2>1. d \in BOOLEAN /\ n \in Nat
    BY <1>2 DEF Records
  <2>2. t = [task[a] EXCEPT !.runs = n, !.status = "starting", !.chat = NoChat, !.due = d]
    BY <1>2 DEF Records
  <2> HIDE DEF d, n, t
  <2> QED BY <1>2, <2>1, <2>2 DEF Records
<1> HIDE DEF t
<1>4. AutomationTypes'
  <2>1. caller' \in [Callers -> [pc : {"idle", "launch", "attach", "started", "refused"},
                                 auto : Autos \cup {NoAuto}, chat : Chats \cup {NoChat}]]
    BY <1>1, <1>2 DEF AutomationTypes, AgentStates
  <2> QED BY <1>1, <1>2, <1>3, <2>1 DEF AutomationTypes, AgentStates
<1>5. \A b \in Autos : b # a => task'[b] = task[b]
  BY <1>1, <1>2 DEF AutomationTypes, AgentStates
<1>6. task'[a] = t
  BY <1>1, <1>2 DEF AutomationTypes, AgentStates
<1>7. /\ \A d \in Callers : d # c => caller'[d] = caller[d]
      /\ caller'[c] = caller[c] \/ (caller'[c].pc = "launch" /\ caller'[c].auto = a)
      /\ caller[c].auto \notin Autos
  BY <1>1, <1>2 DEF AutomationTypes, AgentStates, AgentsOwned
<1>8. AgentsOwned'
  <2>1. \A b \in Autos : Runs(b)' => Runs(b) /\ task'[b].chat = task[b].chat
    BY <1>3, <1>5, <1>6 DEF Runs
  <2>2. \A d \in Callers : caller'[d].pc # "idle" <=> caller'[d].auto \in Autos
    BY <1>2, <1>7 DEF AgentsOwned
  <2>3. \A d \in Callers : caller'[d].pc \in {"attach", "started"} => caller'[d] = caller[d]
    BY <1>7
  <2> QED BY <1>1, <1>2, <2>1, <2>2, <2>3 DEF AgentsOwned
<1>9. ASSUME NEW b \in Autos, b \notin overlapped' PROVE Agrees(b)'
  <2>1. Agrees(b)
    BY <1>1, <1>9 DEF AutomationsInv
  <2>2. CASE b # a
    <3>1. \A d \in Callers : caller'[d].auto = b => caller'[d] = caller[d]
      BY <1>7, <2>2
    <3> QED BY <1>1, <1>5, <2>1, <2>2, <3>1 DEF Agrees, Runs
  <2>3. CASE b = a
    <3>1. \A d \in Callers : caller[d].auto # a
      BY <1>1, <1>9, <2>3 DEF Autom!Starting
    <3>2. \A d \in Callers : caller'[d].auto = a => d = c /\ caller'[d].pc = "launch"
      BY <1>7, <3>1
    <3>3. \A x \in Chats : agent[x].auto = a => agent[x].state \notin {"live", "stopping", "stuck"}
      BY <1>1, <2>1, <2>3 DEF Agrees, Runs
    <3> QED BY <1>1, <1>3, <1>6, <2>3, <3>2, <3>3 DEF Agrees, Runs
  <2> QED BY <2>2, <2>3
<1> QED BY <1>4, <1>8, <1>9 DEF AutomationsInv

(* The runner refuses, or registers an agent that has not been used.       *)
LEMMA LaunchStep ==
  ASSUME AutomationsInv, NEW c \in Callers, Autom!Launch(c)
  PROVE  AutomationsInv'
<1> DEFINE a == caller[c].auto
<1>1. caller[c].pc = "launch" /\ UNCHANGED <<task, overlapped>> /\ AutomationTypes /\ AgentsOwned
  BY DEF Autom!Launch, AutomationsInv
<1>2. a \in Autos /\ caller[c] \in [pc : {"idle", "launch", "attach", "started", "refused"},
                                    auto : Autos \cup {NoAuto}, chat : Chats \cup {NoChat}]
  BY <1>1 DEF AgentsOwned, AutomationTypes, AgentStates
<1>3. CASE caller' = [caller EXCEPT ![c].pc = "refused"] /\ UNCHANGED <<agent, bySession>>
  <2>1. /\ caller'[c].pc = "refused" /\ caller'[c].auto = a /\ caller'[c].chat = caller[c].chat
        /\ \A d \in Callers : d # c => caller'[d] = caller[d]
    BY <1>1, <1>2, <1>3 DEF AutomationTypes, AgentStates
  <2>2. AutomationTypes'
    <3>1. caller' \in [Callers -> [pc : {"idle", "launch", "attach", "started", "refused"},
                                   auto : Autos \cup {NoAuto}, chat : Chats \cup {NoChat}]]
      BY <1>1, <1>2, <1>3 DEF AutomationTypes, AgentStates
    <3> QED BY <1>1, <1>3, <3>1 DEF AutomationTypes, AgentStates
  <2>3. AgentsOwned'
    BY <1>1, <1>2, <1>3, <2>1 DEF AgentsOwned, Runs
  <2>4. \A b \in Autos : b \notin overlapped' => Agrees(b)'
    BY <1>1, <1>2, <1>3, <2>1 DEF AutomationsInv, Agrees, Runs
  <2> QED BY <2>2, <2>3, <2>4 DEF AutomationsInv
<1>4. ASSUME NEW x \in Chats, bySession[a] = NoChat, agent[x] = Autom!NoAgent,
             bySession' = [bySession EXCEPT ![a] = x],
             agent' = [agent EXCEPT ![x] = [state |-> "registered", auto |-> a]],
             caller' = [caller EXCEPT ![c].pc = "attach", ![c].chat = x]
      PROVE  AutomationsInv'
  <2>1. /\ caller'[c].pc = "attach" /\ caller'[c].auto = a /\ caller'[c].chat = x
        /\ \A d \in Callers : d # c => caller'[d] = caller[d]
    BY <1>1, <1>2, <1>4 DEF AutomationTypes, AgentStates
  <2>2. /\ agent'[x].state = "registered" /\ agent'[x].auto = a
        /\ \A y \in Chats : y # x => agent'[y] = agent[y]
        /\ bySession'[a] = x /\ \A b \in Autos : b # a => bySession'[b] = bySession[b]
    BY <1>1, <1>2, <1>4 DEF AutomationTypes, AgentStates
  <2>3. agent[x].state = "none" /\ agent[x].auto = NoAuto /\ NoAuto \notin Autos
    BY <1>4, AutosAssumption DEF Autom!NoAgent
  <2>4. AutomationTypes'
    <3>1. caller' \in [Callers -> [pc : {"idle", "launch", "attach", "started", "refused"},
                                   auto : Autos \cup {NoAuto}, chat : Chats \cup {NoChat}]]
      BY <1>1, <1>2, <1>4 DEF AutomationTypes, AgentStates
    <3>2. agent' \in [Chats -> [state : AgentStates,
                                auto : Autos \cup {NoAuto}]]
      BY <1>1, <1>2, <1>4 DEF AutomationTypes, AgentStates
    <3>3. bySession' \in [Autos -> Chats \cup {NoChat}]
      BY <1>1, <1>2, <1>4 DEF AutomationTypes, AgentStates
    <3> QED BY <1>1, <3>1, <3>2, <3>3 DEF AutomationTypes, AgentStates
  <2>5. \A y \in Chats : agent[y].auto \in Autos => y # x
    BY <2>3
  <2>6. \A y \in Chats : agent[y].state \in {"registered", "live", "stopping", "stuck"} => agent[y].auto \in Autos /\ agent[y].auto # a
    BY <1>1, <1>4, AutosAssumption DEF AgentsOwned
  <2>7. \A d \in Callers : caller[d].pc \in {"attach", "started"} => caller[d].chat \in Chats /\ caller[d].chat # x
    BY <1>1, <2>5 DEF AgentsOwned
  <2>8. AgentsOwned'
    <3>1. \A y \in Chats : agent'[y].state \in {"registered", "live", "stopping", "stuck"} =>
            agent'[y].auto \in Autos /\ bySession'[agent'[y].auto] = y
      BY <1>1, <1>2, <2>2, <2>6 DEF AgentsOwned
    <3>2. \A y \in Chats : agent'[y].auto \in Autos => agent'[y].state # "none"
      BY <1>1, <2>2 DEF AgentsOwned
    <3>3. \A d \in Callers : caller'[d].pc # "idle" <=> caller'[d].auto \in Autos
      BY <1>1, <1>2, <2>1 DEF AgentsOwned
    <3>4. \A d \in Callers : caller'[d].pc \in {"attach", "started"} =>
            caller'[d].chat \in Chats /\ agent'[caller'[d].chat].auto = caller'[d].auto
      BY <1>1, <2>1, <2>2, <2>7 DEF AgentsOwned
    <3>5. \A d \in Callers : caller'[d].pc = "attach" => agent'[caller'[d].chat].state = "registered"
      BY <1>1, <2>1, <2>2, <2>7 DEF AgentsOwned
    <3>6. \A d, e \in Callers :
            caller'[d].pc = "attach" /\ caller'[e].pc = "attach" /\ caller'[d].chat = caller'[e].chat => d = e
      BY <1>1, <2>1, <2>7 DEF AgentsOwned
    <3>7. \A b \in Autos : Runs(b)' => task'[b].chat \in Chats /\ agent'[task'[b].chat].auto = b
      BY <1>1, <2>2, <2>5 DEF AgentsOwned, Runs
    <3> QED BY <3>1, <3>2, <3>3, <3>4, <3>5, <3>6, <3>7 DEF AgentsOwned
  <2>9. ASSUME NEW b \in Autos, b \notin overlapped' PROVE Agrees(b)'
    <3>1. Agrees(b)
      BY <1>1, <2>9 DEF AutomationsInv
    <3>2. \A d, e \in Callers : caller'[d].auto = b /\ caller'[e].auto = b => d = e
      BY <2>1, <3>1 DEF Agrees
    <3>3. Runs(b)' => agent'[task'[b].chat].state \in {"live", "stopping", "stuck", "ended"}
      BY <1>1, <2>2, <2>5, <3>1 DEF Agrees, Runs, AgentsOwned
    <3>4. \A y \in Chats : task'[b].exists /\ agent'[y].auto = b /\ agent'[y].state \in {"live", "stopping", "stuck"} =>
            Runs(b)' /\ task'[b].chat = y
      BY <1>1, <2>2, <3>1 DEF Agrees, Runs
    <3>5. \A d \in Callers : caller'[d].auto = b /\ task'[b].exists =>
            /\ caller'[d].pc \in {"launch", "attach", "refused"} => task'[b].status = "starting"
            /\ caller'[d].pc = "started" /\ task'[b].status \in {"starting", "running"} =>
                 task'[b].status = "running" /\ task'[b].chat = caller'[d].chat
      BY <1>1, <2>1, <3>1 DEF Agrees
    <3> QED BY <3>2, <3>3, <3>4, <3>5 DEF Agrees
  <2> QED BY <2>4, <2>8, <2>9 DEF AutomationsInv
<1> QED BY <1>3, <1>4 DEF Autom!Launch

(* The agent that is registered is attached and starts.                    *)
LEMMA AttachStep ==
  ASSUME AutomationsInv, NEW c \in Callers, Autom!Attach(c)
  PROVE  AutomationsInv'
<1> DEFINE a == caller[c].auto
           x == caller[c].chat
           shown == task[a].exists /\ task[a].status \in {"starting", "running"}
<1>1. /\ caller[c].pc = "attach" /\ UNCHANGED <<bySession, overlapped>> /\ AutomationTypes /\ AgentsOwned
      /\ task' = (IF shown THEN [task EXCEPT ![a] = [task[a] EXCEPT !.status = "running", !.chat = x]] ELSE task)
      /\ caller' = [caller EXCEPT ![c].pc = "started"]
      /\ agent' = [agent EXCEPT ![x].state = "live"]
  BY DEF Autom!Attach, Autom!SetTask, Autom!Active, AutomationsInv
<1>2. /\ a \in Autos /\ x \in Chats /\ agent[x].auto = a /\ agent[x].state = "registered" /\ bySession[a] = x
      /\ task[a] \in Records
  BY <1>1 DEF AgentsOwned, AutomationTypes, AgentStates
<1>3. /\ caller'[c].pc = "started" /\ caller'[c].auto = a /\ caller'[c].chat = x
      /\ \A d \in Callers : d # c => caller'[d] = caller[d]
  BY <1>1 DEF AutomationTypes, AgentStates
<1>4. /\ agent'[x].state = "live" /\ agent'[x].auto = a
      /\ \A y \in Chats : y # x => agent'[y] = agent[y]
  BY <1>1, <1>2 DEF AutomationTypes, AgentStates
<1>5. /\ shown => task'[a].exists /\ task'[a].status = "running" /\ task'[a].chat = x
      /\ ~shown => task'[a] = task[a]
      /\ \A b \in Autos : b # a => task'[b] = task[b]
  BY <1>1, <1>2 DEF AutomationTypes, AgentStates, Records
<1>6. AutomationTypes'
  <2>1. task' \in [Autos -> Records]
    BY <1>1, <1>2 DEF AutomationTypes, AgentStates, Records
  <2>2. caller' \in [Callers -> [pc : {"idle", "launch", "attach", "started", "refused"},
                                 auto : Autos \cup {NoAuto}, chat : Chats \cup {NoChat}]]
    BY <1>1 DEF AutomationTypes, AgentStates
  <2>3. agent' \in [Chats -> [state : AgentStates,
                              auto : Autos \cup {NoAuto}]]
    BY <1>1, <1>2 DEF AutomationTypes, AgentStates
  <2> QED BY <1>1, <2>1, <2>2, <2>3 DEF AutomationTypes, AgentStates
<1> HIDE DEF a, x
<1>7. \A d \in Callers : d # c /\ caller[d].pc = "attach" => caller[d].chat # x
  BY <1>1 DEF AgentsOwned, x
<1>8. \A y \in Chats : agent'[y].auto = agent[y].auto
  BY <1>2, <1>4
<1>9. AgentsOwned'
  <2>1. \A y \in Chats : agent'[y].state \in {"registered", "live", "stopping", "stuck"} =>
          agent'[y].auto \in Autos /\ bySession'[agent'[y].auto] = y
    BY <1>1, <1>2, <1>4 DEF AgentsOwned
  <2>2. \A y \in Chats : agent'[y].auto \in Autos => agent'[y].state # "none"
    BY <1>1, <1>4 DEF AgentsOwned
  <2>3. \A d \in Callers : caller'[d].pc # "idle" <=> caller'[d].auto \in Autos
    BY <1>1, <1>2, <1>3 DEF AgentsOwned
  <2>4. \A d \in Callers : caller'[d].pc \in {"attach", "started"} =>
          caller'[d].chat \in Chats /\ agent'[caller'[d].chat].auto = caller'[d].auto
    BY <1>1, <1>2, <1>3, <1>8 DEF AgentsOwned
  <2>5. \A d \in Callers : caller'[d].pc = "attach" => agent'[caller'[d].chat].state = "registered"
    BY <1>1, <1>3, <1>4, <1>7 DEF AgentsOwned
  <2>6. \A d, e \in Callers :
          caller'[d].pc = "attach" /\ caller'[e].pc = "attach" /\ caller'[d].chat = caller'[e].chat => d = e
    BY <1>1, <1>3 DEF AgentsOwned
  <2>7. ASSUME NEW b \in Autos, Runs(b)' PROVE task'[b].chat \in Chats /\ agent'[task'[b].chat].auto = b
    <3>1. CASE b = a /\ shown
      BY <1>2, <1>5, <1>8, <3>1
    <3>2. CASE b # a \/ ~shown
      <4>1. task'[b] = task[b]
        BY <1>5, <3>2
      <4>2. Runs(b)
        BY <2>7, <4>1 DEF Runs
      <4>3. task[b].chat \in Chats /\ agent[task[b].chat].auto = b
        BY <1>1, <4>2 DEF AgentsOwned
      <4> QED BY <1>8, <4>1, <4>3
    <3> QED BY <3>1, <3>2
  <2> QED BY <2>1, <2>2, <2>3, <2>4, <2>5, <2>6, <2>7 DEF AgentsOwned
<1>10. ASSUME NEW b \in Autos, b \notin overlapped' PROVE Agrees(b)'
  <2>1. Agrees(b)
    BY <1>1, <1>10 DEF AutomationsInv
  <2>2. \A d, e \in Callers : caller'[d].auto = b /\ caller'[e].auto = b => d = e
    <3>1. \A d \in Callers : caller'[d].auto = caller[d].auto
      BY <1>3 DEF a
    <3> QED BY <2>1, <3>1 DEF Agrees
  <2>3. CASE b # a
    BY <1>1, <1>2, <1>3, <1>4, <1>5, <2>1, <2>2, <2>3 DEF Agrees, Runs, AgentsOwned
  <2>4. CASE b = a
    <3>1. task[a].exists => shown
      BY <1>1, <2>1, <2>4 DEF Agrees, a
    <3>2. \A y \in Chats : agent'[y].auto = a /\ agent'[y].state \in {"live", "stopping", "stuck"} => y = x
      BY <1>1, <1>2, <1>4 DEF AgentsOwned
    <3>3. \A d \in Callers : caller'[d].auto = a => d = c
      BY <1>3, <2>2, <2>4
    <3>4. CASE shown
      BY <1>2, <1>3, <1>4, <1>5, <2>2, <2>4, <3>2, <3>3, <3>4 DEF Agrees, Runs
    <3>5. CASE ~shown
      <4>1. ~task'[a].exists
        BY <1>5, <3>1, <3>5
      <4> QED BY <2>2, <2>4, <4>1 DEF Agrees, Runs
    <3> QED BY <3>4, <3>5
  <2> QED BY <2>3, <2>4
<1> QED BY <1>6, <1>9, <1>10 DEF AutomationsInv

(* The second section of a start: the record, if the run has not ended     *)
(* meanwhile.                                                              *)
LEMMA SettleStep ==
  ASSUME AutomationsInv, NEW c \in Callers, Autom!Settle(c)
  PROVE  AutomationsInv'
<1> DEFINE a == caller[c].auto
           shown == task[a].exists /\ task[a].status \in {"starting", "running"}
           t == IF caller[c].pc = "refused" THEN Autom!Ended(task[a], "failed")
                ELSE [task[a] EXCEPT !.status = "running", !.chat = caller[c].chat]
<1>1. /\ caller[c].pc \in {"started", "refused"} /\ UNCHANGED <<agent, bySession, overlapped>>
      /\ task' = (IF shown THEN [task EXCEPT ![a] = t] ELSE task)
      /\ caller' = [caller EXCEPT ![c] = Autom!IdleCall]
  BY DEF Autom!Settle, Autom!SetTask, Autom!Active
<1>2. AutomationTypes /\ AgentsOwned /\ a \in Autos /\ task[a] \in Records
  BY <1>1 DEF AutomationsInv, AutomationTypes, AgentsOwned
<1>3. CASE caller[c].pc = "refused"
  <2>1. t \in Records /\ t.exists = task[a].exists /\ t.status = "failed"
    BY <1>2, <1>3, EndedFacts
  <2>2. \A b \in Autos : Runs(b)' => task'[b] = task[b]
    <3> HIDE DEF t
    <3> QED BY <1>1, <1>2, <2>1 DEF Runs, AutomationTypes, AgentStates
  <2>3. a \notin overlapped => (\A x \in Chats : task[a].exists => ~(agent[x].auto = a /\ agent[x].state \in {"live", "stopping", "stuck"}))
                               /\ ~Runs(a)
    BY <1>2, <1>3 DEF AutomationsInv, Agrees, Runs
  <2> HIDE DEF t
  <2>4. task' \in [Autos -> Records] /\ (\A b \in Autos : b # a => task'[b] = task[b])
        /\ task'[a].exists = task[a].exists /\ (task'[a] = task[a] \/ task'[a].status = "failed")
    BY <1>1, <1>2, <2>1 DEF AutomationTypes, AgentStates
  <2>5. /\ \A d \in Callers : d # c => caller'[d] = caller[d]
        /\ caller'[c].pc = "idle" /\ caller'[c].auto = NoAuto /\ NoAuto \notin Autos
    BY <1>1, <1>2, AutosAssumption DEF AutomationTypes, AgentStates, Autom!IdleCall
  <2>6. AutomationTypes'
    <3>1. caller' \in [Callers -> [pc : {"idle", "launch", "attach", "started", "refused"},
                                   auto : Autos \cup {NoAuto}, chat : Chats \cup {NoChat}]]
      BY <1>1, <1>2 DEF AutomationTypes, AgentStates, Autom!IdleCall
    <3> QED BY <1>1, <1>2, <2>4, <3>1 DEF AutomationTypes, AgentStates
  <2>7. AgentsOwned'
    BY <1>1, <1>2, <2>2, <2>5 DEF AgentsOwned, Runs
  <2>8. ASSUME NEW b \in Autos, b \notin overlapped' PROVE Agrees(b)'
    <3>1. Agrees(b)
      BY <1>1, <2>8 DEF AutomationsInv
    <3>2. CASE b # a
      <4>1. task'[b] = task[b] /\ agent' = agent
        BY <1>1, <2>4, <3>2
      <4>2. \A d \in Callers : caller'[d].auto = b => caller'[d] = caller[d]
        BY <2>5
      <4> QED BY <3>1, <4>1, <4>2 DEF Agrees, Runs
    <3>3. CASE b = a
      <4>1. \A d \in Callers : caller'[d].auto # a
        BY <1>2, <2>5, <3>1, <3>3 DEF Agrees
      <4>2. ~Runs(b)'
        BY <1>1, <2>2, <2>3, <2>8, <3>3 DEF Runs
      <4>3. \A x \in Chats : task'[b].exists => ~(agent'[x].auto = b /\ agent'[x].state \in {"live", "stopping", "stuck"})
        BY <1>1, <2>3, <2>4, <2>8, <3>3
      <4>4. \A d \in Callers : caller'[d].auto # b
        BY <3>3, <4>1
      <4> HIDE DEF a
      <4> QED BY <4>2, <4>3, <4>4 DEF Agrees
    <3> QED BY <3>2, <3>3
  <2> QED BY <2>6, <2>7, <2>8 DEF AutomationsInv
<1>4. CASE caller[c].pc = "started"
  <2> DEFINE x == caller[c].chat
  <2>1. x \in Chats /\ agent[x].auto = a
    BY <1>2, <1>4 DEF AgentsOwned
  <2>2. t = [task[a] EXCEPT !.status = "running", !.chat = x]
    BY <1>4
  <2> HIDE DEF x
  <2>3. t \in Records /\ t.exists = task[a].exists /\ t.status = "running" /\ t.chat = x
    BY <1>2, <2>1, <2>2 DEF Records
  <2> HIDE DEF t
  <2>4. task' \in [Autos -> Records] /\ (\A b \in Autos : b # a => task'[b] = task[b])
        /\ (shown => task'[a] = t) /\ (~shown => task'[a] = task[a])
    BY <1>1, <1>2, <2>3 DEF AutomationTypes, AgentStates
  <2>5. /\ \A d \in Callers : d # c => caller'[d] = caller[d]
        /\ caller'[c].pc = "idle" /\ caller'[c].auto = NoAuto /\ NoAuto \notin Autos
    BY <1>1, <1>2, AutosAssumption DEF AutomationTypes, AgentStates, Autom!IdleCall
  <2>6. AutomationTypes'
    <3>1. caller' \in [Callers -> [pc : {"idle", "launch", "attach", "started", "refused"},
                                   auto : Autos \cup {NoAuto}, chat : Chats \cup {NoChat}]]
      BY <1>1, <1>2 DEF AutomationTypes, AgentStates, Autom!IdleCall
    <3> QED BY <1>1, <1>2, <2>4, <3>1 DEF AutomationTypes, AgentStates
  <2>7. AgentsOwned'
    <3>1. ASSUME NEW b \in Autos, Runs(b)' PROVE task'[b].chat \in Chats /\ agent'[task'[b].chat].auto = b
      <4>1. CASE b = a /\ shown
        BY <1>1, <2>1, <2>3, <2>4, <4>1
      <4>2. CASE b # a \/ ~shown
        BY <1>1, <1>2, <2>4, <3>1, <4>2 DEF AgentsOwned, Runs
      <4> QED BY <4>1, <4>2
    <3> QED BY <1>1, <1>2, <2>5, <3>1 DEF AgentsOwned
  <2>8. ASSUME NEW b \in Autos, b \notin overlapped' PROVE Agrees(b)'
    <3>1. Agrees(b)
      BY <1>1, <2>8 DEF AutomationsInv
    <3>2. CASE b # a
      <4>1. task'[b] = task[b] /\ agent' = agent
        BY <1>1, <2>4, <3>2
      <4>2. \A d \in Callers : caller'[d].auto = b => caller'[d] = caller[d]
        BY <2>5
      <4> QED BY <3>1, <4>1, <4>2 DEF Agrees, Runs
    <3>3. CASE b = a
      <4>1. \A d \in Callers : caller'[d].auto # a
        BY <1>2, <2>5, <3>1, <3>3 DEF Agrees
      <4>2. task'[a].exists = task[a].exists /\ task'[a].status = task[a].status
            /\ (Runs(a) => task'[a].chat = task[a].chat)
        BY <1>4, <2>3, <2>4, <3>1, <3>3 DEF Agrees, Runs, x
      <4> QED BY <1>1, <3>1, <3>3, <4>1, <4>2 DEF Agrees, Runs
    <3> QED BY <3>2, <3>3
  <2> QED BY <2>6, <2>7, <2>8 DEF AutomationsInv
<1> QED BY <1>1, <1>3, <1>4

(* An agent ends, and its end is reported.                                 *)
LEMMA AgentStep ==
  ASSUME AutomationsInv, NEW x \in Chats, NEW s \in {"completed", "failed"},
         Autom!AgentEnds(x) \/ Autom!Stop(x) \/ Autom!AgentStuck(x) \/ Autom!Report(x, s)
  PROVE  AutomationsInv'
<1>1. AutomationTypes /\ AgentsOwned /\ UNCHANGED <<caller, overlapped>>
  BY DEF AutomationsInv, Autom!AgentEnds, Autom!Stop, Autom!AgentStuck, Autom!Report
<1>2. CASE Autom!AgentEnds(x)
  <2> DEFINE a == agent[x].auto
  <2>1. /\ agent[x].state \in {"live", "stopping"} /\ agent' = [agent EXCEPT ![x].state = "ended"]
        /\ task' = task
        /\ bySession' = [bySession EXCEPT ![a] = NoChat]
    BY <1>2 DEF Autom!AgentEnds
  <2>2. a \in Autos /\ bySession[a] = x
    BY <1>1, <2>1 DEF AgentsOwned
  <2>3. /\ agent'[x].state = "ended" /\ agent'[x].auto = a /\ \A y \in Chats : y # x => agent'[y] = agent[y]
        /\ \A b \in Autos : b # a => bySession'[b] = bySession[b]
    BY <1>1, <2>1, <2>2 DEF AutomationTypes, AgentStates
  <2>4. AutomationTypes'
    BY <1>1, <2>1, <2>2 DEF AutomationTypes, AgentStates
  <2>5. AgentsOwned'
    BY <1>1, <2>1, <2>2, <2>3 DEF AgentsOwned, Runs
  <2>6. ASSUME NEW b \in Autos, b \notin overlapped' PROVE Agrees(b)'
    <3>1. Agrees(b)
      BY <1>1, <2>6 DEF AutomationsInv
    <3> QED BY <1>1, <2>1, <2>3, <3>1 DEF Agrees, Runs, AgentsOwned
  <2> QED BY <2>4, <2>5, <2>6 DEF AutomationsInv
<1>3. CASE Autom!Report(x, s)
  <2>1. /\ agent[x].state = "ended" /\ agent' = [agent EXCEPT ![x].state = "reported"] /\ bySession' = bySession
        /\ task' = [a \in Autos |-> IF task[a].exists /\ task[a].status = "running" /\ task[a].chat = x
                                    THEN Autom!Ended(task[a], s) ELSE task[a]]
    BY <1>3 DEF Autom!Report, Autom!Completed
  <2>2. agent'[x].state = "reported" /\ agent'[x].auto = agent[x].auto /\ \A y \in Chats : y # x => agent'[y] = agent[y]
    BY <1>1, <2>1 DEF AutomationTypes, AgentStates
  <2>3. \A a \in Autos : task[a] \in Records
    BY <1>1 DEF AutomationTypes, AgentStates
  <2>4. \A a \in Autos :
          /\ task'[a] \in Records /\ task'[a].exists = task[a].exists
          /\ Runs(a) /\ task[a].chat = x => task'[a].status = s
          /\ ~(Runs(a) /\ task[a].chat = x) => task'[a] = task[a]
    BY <2>1, <2>3, EndedFacts DEF Runs
  <2>5. AutomationTypes'
    <3>1. task' \in [Autos -> Records]
      BY <2>1, <2>4
    <3>2. agent' \in [Chats -> [state : AgentStates,
                                auto : Autos \cup {NoAuto}]]
      BY <1>1, <2>1 DEF AutomationTypes, AgentStates
    <3> QED BY <1>1, <2>1, <3>1, <3>2 DEF AutomationTypes, AgentStates
  <2>6. \A a \in Autos : Runs(a)' => Runs(a) /\ task[a].chat # x /\ task'[a] = task[a]
    BY <2>4 DEF Runs
  <2>7. AgentsOwned'
    BY <1>1, <2>1, <2>2, <2>6 DEF AgentsOwned
  <2>8. ASSUME NEW b \in Autos, b \notin overlapped' PROVE Agrees(b)'
    <3>1. Agrees(b)
      BY <1>1, <2>8 DEF AutomationsInv
    <3>2. CASE Runs(b) /\ task[b].chat = x
      BY <1>1, <2>1, <2>2, <2>4, <3>1, <3>2 DEF Agrees, Runs
    <3>3. CASE ~(Runs(b) /\ task[b].chat = x)
      <4>1. task'[b] = task[b]
        BY <2>4, <3>3
      <4> QED BY <1>1, <2>1, <2>2, <3>1, <3>3, <4>1 DEF Agrees, Runs, AgentsOwned
    <3> QED BY <3>2, <3>3
  <2> QED BY <2>5, <2>7, <2>8 DEF AutomationsInv
<1>4. CASE Autom!Stop(x) \/ Autom!AgentStuck(x)
  <2>1. PICK q \in {"stopping", "stuck"} : agent' = [agent EXCEPT ![x].state = q]
    BY <1>4 DEF Autom!Stop, Autom!AgentStuck
  <2>2. agent[x].state \in {"live", "stopping"} /\ UNCHANGED <<task, bySession>>
    BY <1>4 DEF Autom!Stop, Autom!AgentStuck
  <2>3. agent'[x].state = q /\ agent'[x].auto = agent[x].auto /\ \A y \in Chats : y # x => agent'[y] = agent[y]
    BY <1>1, <2>1 DEF AutomationTypes
  <2>4. AutomationTypes'
    BY <1>1, <2>1, <2>2 DEF AutomationTypes, AgentStates
  <2>5. AgentsOwned'
    BY <1>1, <2>2, <2>3 DEF AgentsOwned, Runs
  <2>6. ASSUME NEW b \in Autos, b \notin overlapped' PROVE Agrees(b)'
    <3>1. Agrees(b)
      BY <1>1, <2>6 DEF AutomationsInv
    <3> QED BY <1>1, <2>2, <2>3, <3>1 DEF Agrees, Runs, AgentsOwned
  <2> QED BY <2>4, <2>5, <2>6 DEF AutomationsInv
<1> QED BY <1>2, <1>3, <1>4

(* The application quits or crashes, and load marks what was on its way.   *)
LEMMA RestartStep == ASSUME AutomationsInv, Autom!Restart PROVE AutomationsInv'
<1>1. /\ AutomationTypes /\ AgentsOwned
      /\ task' = [a \in Autos |-> IF task[a].exists /\ task[a].status \in {"starting", "running"}
                                  THEN Autom!Ended(task[a], "interrupted") ELSE task[a]]
      /\ caller' = [c \in Callers |-> Autom!IdleCall]
      /\ agent' = [x \in Chats |-> IF agent[x] = Autom!NoAgent THEN Autom!NoAgent
                                   ELSE [agent[x] EXCEPT !.state = "reported"]]
      /\ bySession' = [a \in Autos |-> NoChat]
  BY DEF AutomationsInv, Autom!Restart, Autom!Active
<1>2. \A a \in Autos : task'[a] \in Records /\ ~Runs(a)'
  <2>1. \A a \in Autos : task[a] \in Records
    BY <1>1 DEF AutomationTypes, AgentStates
  <2> QED BY <1>1, <2>1, EndedFacts DEF Runs
<1>3. \A x \in Chats : agent'[x] \in [state : {"none", "reported"}, auto : Autos \cup {NoAuto}]
                       /\ (agent'[x].auto \in Autos => agent'[x].state # "none")
  BY <1>1, AutosAssumption DEF AutomationTypes, AgentStates, Autom!NoAgent
<1>4. AutomationTypes'
  <2>1. task' \in [Autos -> Records]
    BY <1>1, <1>2
  <2>2. agent' \in [Chats -> [state : AgentStates,
                              auto : Autos \cup {NoAuto}]]
    BY <1>1, <1>3 DEF AgentStates
  <2> QED BY <1>1, <2>1, <2>2 DEF AutomationTypes, AgentStates, Autom!IdleCall
<1>5. AgentsOwned'
  BY <1>1, <1>2, <1>3, AutosAssumption DEF AgentsOwned, Autom!IdleCall
<1>6. \A a \in Autos : Agrees(a)'
  BY <1>1, <1>2, <1>3, AutosAssumption DEF Agrees, Autom!IdleCall
<1> QED BY <1>4, <1>5, <1>6 DEF AutomationsInv

(* Every step keeps the records in agreement with the agents.              *)
LEMMA AutomationsStep == ASSUME AutomationsInv, [Autom!Next]_(Autom!vars) PROVE AutomationsInv'
<1>1. CASE Autom!Restart
  BY <1>1, RestartStep
<1>2. ASSUME NEW c \in Callers, Autom!CallRuns(c) PROVE AutomationsInv'
  BY <1>2, LaunchStep, AttachStep, SettleStep DEF Autom!CallRuns
<1>3. ASSUME NEW c \in Callers, NEW a \in Autos, NEW written \in BOOLEAN, Autom!Begin(c, a, written)
      PROVE  AutomationsInv'
  BY <1>3, BeginStartStep
<1>4. ASSUME NEW x \in Chats, Autom!AgentRuns(x) PROVE AutomationsInv'
  BY <1>4, AgentStep DEF Autom!AgentRuns, Autom!Reports
<1>5. ASSUME NEW a \in Autos, Autom!Save(a) \/ Autom!Delete(a) \/ Autom!Due(a) \/ Autom!StopMissing(a)
      PROVE  AutomationsInv'
  BY <1>5, EditStep
<1>6. ASSUME UNCHANGED <<task, caller, agent, bySession, overlapped>> PROVE AutomationsInv'
  <2>1. task' \in [Autos -> Records]
    BY <1>6 DEF AutomationsInv, AutomationTypes, AgentStates
  <2> QED BY <1>6, <2>1, RecordsStep
<1>7. CASE Autom!FindDue \/ UNCHANGED Autom!vars
  BY <1>6, <1>7 DEF Autom!FindDue, Autom!vars
<1>8. ASSUME NEW c \in Callers, NEW a \in Autos, Autom!Refused(c, a) PROVE AutomationsInv'
  BY <1>6, <1>8 DEF Autom!Refused
<1> QED BY <1>1, <1>2, <1>3, <1>4, <1>5, <1>7, <1>8 DEF Autom!Next

(* A step of the program is a step of the scheduler or none of its own.    *)
LEMMA AutomationsMapsStep == [Next]_vars => [Autom!Next]_(Autom!vars)
<1>1. ASSUME UNCHANGED automations PROVE UNCHANGED Autom!vars
  BY <1>1 DEF automations, Autom!vars
<1> QED BY <1>1 DEF Next, vars

(* Records, starts and agents are right together.                          *)
LEMMA AutomationsInvariant == Spec => []AutomationsInv
<1>1. Init => AutomationsInv
  BY AutomationsInit DEF Init
<1>2. AutomationsInv /\ [Next]_vars => AutomationsInv'
  BY AutomationsStep, AutomationsMapsStep
<1> QED BY <1>1, <1>2, PTL DEF Spec

(* Unless starts of it overlapped, the record of an automation and its     *)
(* agents agree, whatever the order of the end of an agent, its report and *)
(* the two sections of its start (startTask, AttachChatTask,               *)
(* CompleteChatTask and load).                                             *)
THEOREM RunIsAgentAlways == Spec => []RunIsAgent
<1>1. AutomationsInv => RunIsAgent
  BY DEF AutomationsInv, Agrees, Runs, RunIsAgent, Autom!RunIsAgent, Autom!Running
<1> QED BY <1>1, AutomationsInvariant, PTL

(* A run that has failed is one that was started and is over.              *)
Counts ==
  /\ \A a \in Autos : /\ task[a].runs <= MaxRuns
                      /\ task[a].failures <= task[a].runs
                      /\ task[a].status \in {"starting", "running"} => task[a].failures < task[a].runs
  /\ todo \in SUBSET Autos /\ overlapped \in SUBSET Autos

(* What a run may become without another one being started.                *)
Settled(t, u) ==
  /\ u.runs = t.runs
  /\ \/ u.failures = t.failures /\ (u.status \in Autom!Active => t.status \in Autom!Active)
     \/ u.failures = t.failures + 1 /\ u.status \notin Autom!Active /\ t.status \in Autom!Active
     \/ u.failures = 0 /\ u.status \notin Autom!Active

(* Steps that start no run.                                                *)
LEMMA SettledStep ==
  ASSUME AutomationTypes, Counts, \A a \in Autos : Settled(task[a], task'[a]),
         todo' \in SUBSET Autos, overlapped' \in SUBSET Autos
  PROVE  Counts'
<1> SUFFICES ASSUME NEW a \in Autos
             PROVE  /\ task'[a].runs <= MaxRuns
                    /\ task'[a].failures <= task'[a].runs
                    /\ task'[a].status \in {"starting", "running"} => task'[a].failures < task'[a].runs
  BY DEF Counts
<1>1. task[a].runs \in Nat /\ task[a].failures \in Nat
  BY DEF AutomationTypes, AgentStates, Records
<1>2. /\ task[a].runs <= MaxRuns /\ task[a].failures <= task[a].runs
      /\ task[a].status \in Autom!Active => task[a].failures < task[a].runs
  BY DEF Counts, Autom!Active
<1>3. Settled(task[a], task'[a])
  OBVIOUS
<1> QED BY <1>1, <1>2, <1>3 DEF Settled, Autom!Active

(* One record that changes.                                                *)
LEMMA OneSettled ==
  ASSUME AutomationTypes, Counts, NEW a \in Autos, NEW u, Settled(task[a], u), Autom!SetTask(a, u),
         todo' \in SUBSET Autos, overlapped' \in SUBSET Autos
  PROVE  Counts'
<1>1. \A b \in Autos : task'[b] = IF b = a THEN u ELSE task[b]
  BY DEF Autom!SetTask, AutomationTypes, AgentStates
<1>2. \A b \in Autos : Settled(task[b], task'[b])
  BY <1>1 DEF Settled
<1> QED BY <1>2, SettledStep

(* A run that ends.                                                        *)
LEMMA EndedSettled ==
  ASSUME NEW t \in Records, t.status \in Autom!Active, NEW s \in {"completed", "failed", "interrupted"}
  PROVE  Settled(t, Autom!Ended(t, s))
BY DEF Settled, Autom!Ended, Records, Autom!Active

(* Every step keeps the counts of runs and of failures.                    *)
LEMMA CountsStep ==
  ASSUME AutomationsInv, Counts, [Autom!Next]_(Autom!vars)
  PROVE  Counts'
<1>0. AutomationTypes /\ MaxRuns \in Nat /\ \A a \in Autos : task[a] \in Records
  BY BoundsAssumption DEF AutomationsInv, AutomationTypes, AgentStates
<1>1. ASSUME task' = task, todo' \in SUBSET Autos, overlapped' \in SUBSET Autos PROVE Counts'
  BY <1>1 DEF Counts
<1>2. CASE Autom!Restart
  <2>1. \A a \in Autos : Settled(task[a], task'[a])
    <3> TAKE a \in Autos
    <3>1. task'[a] = IF task[a].exists /\ task[a].status \in Autom!Active
                     THEN Autom!Ended(task[a], "interrupted") ELSE task[a]
      BY <1>2 DEF Autom!Restart
    <3> QED BY <1>0, <3>1, EndedSettled DEF Settled
  <2> QED BY <1>0, <1>2, <2>1, SettledStep DEF Autom!Restart
<1>3. ASSUME NEW c \in Callers, Autom!Launch(c) PROVE Counts'
  BY <1>1, <1>3 DEF Autom!Launch, Counts
<1>4. ASSUME NEW c \in Callers, Autom!Attach(c) PROVE Counts'
  <2> DEFINE a == caller[c].auto
             u == [task[a] EXCEPT !.status = "running", !.chat = caller[c].chat]
  <2>1. a \in Autos
    BY <1>4 DEF Autom!Attach, AutomationsInv, AgentsOwned
  <2>2. todo' = todo /\ overlapped' = overlapped
    BY <1>4 DEF Autom!Attach
  <2>3. \/ task' = task
        \/ task[a].status \in Autom!Active /\ Autom!SetTask(a, u)
    BY <1>4 DEF Autom!Attach
  <2>4. ASSUME task[a].status \in Autom!Active PROVE Settled(task[a], u)
    BY <1>0, <2>1, <2>4 DEF Settled, Records, Autom!Active
  <2> HIDE DEF a, u
  <2> QED BY <1>0, <1>1, <2>1, <2>2, <2>3, <2>4, OneSettled DEF Counts
<1>5. ASSUME NEW c \in Callers, Autom!Settle(c) PROVE Counts'
  <2> DEFINE a == caller[c].auto
             u == [task[a] EXCEPT !.status = "running", !.chat = caller[c].chat]
             v == Autom!Ended(task[a], "failed")
  <2>1. a \in Autos
    BY <1>5 DEF Autom!Settle, AutomationsInv, AgentsOwned
  <2>2. todo' = todo /\ overlapped' = overlapped
    BY <1>5 DEF Autom!Settle
  <2>3. \/ task' = task
        \/ task[a].status \in Autom!Active /\ (Autom!SetTask(a, u) \/ Autom!SetTask(a, v))
    BY <1>5 DEF Autom!Settle
  <2>4. ASSUME task[a].status \in Autom!Active PROVE Settled(task[a], u)
    BY <1>0, <2>1, <2>4 DEF Settled, Records, Autom!Active
  <2>5. ASSUME task[a].status \in Autom!Active PROVE Settled(task[a], v)
    BY <1>0, <2>1, <2>5, EndedSettled
  <2> HIDE DEF a, u, v
  <2> QED BY <1>0, <1>1, <2>1, <2>2, <2>3, <2>4, <2>5, OneSettled DEF Counts
<1>6. ASSUME NEW c \in Callers, NEW a \in Autos, NEW written \in BOOLEAN, Autom!Begin(c, a, written)
      PROVE  Counts'
  <2> DEFINE u == [task[a] EXCEPT !.runs = @ + 1, !.status = "starting", !.chat = NoChat,
                                  !.due = @ /\ ~task[a].enabled]
  <2>1. Autom!SetTask(a, u) /\ task[a].runs < MaxRuns
    BY <1>6 DEF Autom!Begin
  <2>2. todo' \in SUBSET Autos /\ overlapped' \in SUBSET Autos
    BY <1>6 DEF Autom!Begin, Autom!Wanted, Counts
  <2>3. u.runs = task[a].runs + 1 /\ u.failures = task[a].failures
    BY <1>0 DEF Records
  <2> HIDE DEF u
  <2>4. \A b \in Autos : task'[b] = IF b = a THEN u ELSE task[b]
    BY <1>0, <2>1 DEF Autom!SetTask, AutomationTypes, AgentStates
  <2>5. task[a].runs \in Nat /\ task[a].failures \in Nat /\ task[a].failures <= task[a].runs
    BY <1>0 DEF Records, Counts
  <2>6. u.runs <= MaxRuns /\ u.failures < u.runs /\ u.failures <= u.runs
    BY <1>0, <2>1, <2>3, <2>5
  <2> QED BY <2>2, <2>4, <2>6 DEF Counts
<1>7. ASSUME NEW x, NEW s \in {"completed", "failed"}, Autom!Completed(x, s),
             todo' = todo, overlapped' = overlapped
      PROVE  Counts'
  <2>1. \A a \in Autos : Settled(task[a], task'[a])
    <3> TAKE a \in Autos
    <3>1. task'[a] = IF task[a].exists /\ task[a].status = "running" /\ task[a].chat = x
                     THEN Autom!Ended(task[a], s) ELSE task[a]
      BY <1>7 DEF Autom!Completed
    <3>2. task[a].status = "running" => task[a].status \in Autom!Active
      BY DEF Autom!Active
    <3> QED BY <1>0, <3>1, <3>2, EndedSettled DEF Settled
  <2> QED BY <1>0, <1>7, <2>1, SettledStep DEF Counts
<1>8. ASSUME NEW x \in Chats, Autom!AgentRuns(x) PROVE Counts'
  <2>1. CASE Autom!AgentEnds(x) \/ Autom!Stop(x) \/ Autom!AgentStuck(x)
    BY <1>1, <2>1 DEF Autom!AgentEnds, Autom!Stop, Autom!AgentStuck, Counts
  <2>2. ASSUME NEW s \in {"completed", "failed"}, Autom!Report(x, s) PROVE Counts'
    BY <1>7, <2>2 DEF Autom!Report
  <2> QED BY <1>8, <2>1, <2>2 DEF Autom!AgentRuns, Autom!Reports
<1>9. ASSUME NEW a \in Autos, Autom!StopMissing(a) PROVE Counts'
  BY <1>7, <1>9 DEF Autom!StopMissing
<1>10. ASSUME NEW a \in Autos, Autom!Save(a) \/ Autom!Delete(a) \/ Autom!Due(a) PROVE Counts'
  <2>1. todo' = todo /\ overlapped' = overlapped
    BY <1>10 DEF Autom!Save, Autom!Delete, Autom!Due
  <2>2. PICK u : Settled(task[a], u) /\ Autom!SetTask(a, u)
    <3>1. CASE Autom!Save(a)
      <4>1. PICK e \in BOOLEAN : Autom!SetTask(a, [task[a] EXCEPT !.enabled = e, !.due = FALSE])
        BY <3>1 DEF Autom!Save
      <4>2. Settled(task[a], [task[a] EXCEPT !.enabled = e, !.due = FALSE])
        BY <1>0 DEF Settled, Records
      <4> QED BY <4>1, <4>2
    <3>2. CASE Autom!Delete(a)
      <4>1. Autom!SetTask(a, [Autom!NoTask EXCEPT !.exists = FALSE, !.runs = task[a].runs])
        BY <3>2 DEF Autom!Delete
      <4>2. Settled(task[a], [Autom!NoTask EXCEPT !.exists = FALSE, !.runs = task[a].runs])
        BY DEF Settled, Autom!NoTask, Autom!Active
      <4> QED BY <4>1, <4>2
    <3>3. CASE Autom!Due(a)
      <4>1. Autom!SetTask(a, [task[a] EXCEPT !.due = TRUE])
        BY <3>3 DEF Autom!Due
      <4>2. Settled(task[a], [task[a] EXCEPT !.due = TRUE])
        BY <1>0 DEF Settled, Records
      <4> QED BY <4>1, <4>2
    <3> QED BY <1>10, <3>1, <3>2, <3>3
  <2> QED BY <1>0, <2>1, <2>2, OneSettled DEF Counts
<1>11. CASE Autom!FindDue \/ UNCHANGED Autom!vars
  BY <1>1, <1>11 DEF Autom!FindDue, Autom!vars, Counts
<1>12. ASSUME NEW c \in Callers, NEW a \in Autos, Autom!Refused(c, a) PROVE Counts'
  BY <1>1, <1>12 DEF Autom!Refused, Autom!Wanted, Counts
<1> QED BY <1>2, <1>3, <1>4, <1>5, <1>6, <1>8, <1>9, <1>10, <1>11, <1>12 DEF Autom!Next, Autom!CallRuns

(* The types of automations.                                               *)
LEMMA AutomationsTypes == Spec => []Autom!TypeOK
<1>1. Init => Counts
  <2> SUFFICES ASSUME Autom!Init PROVE Counts
    BY DEF Init
  <2>1. \A a \in Autos : task[a] = Autom!NoTask
    BY DEF Autom!Init
  <2>2. \A a \in Autos : task[a].runs = 0 /\ task[a].failures = 0 /\ task[a].status = "none"
    BY <2>1 DEF Autom!NoTask
  <2>3. 0 <= MaxRuns
    BY BoundsAssumption
  <2>4. todo = {} /\ overlapped = {}
    BY DEF Autom!Init
  <2> QED BY <2>2, <2>3, <2>4 DEF Counts
<1>2. AutomationsInv /\ Counts /\ [Next]_vars => Counts'
  BY CountsStep, AutomationsMapsStep
<1>3. ASSUME AutomationsInv, Counts PROVE Autom!TypeOK
  <2> DEFINE Bounded == [exists : BOOLEAN, enabled : BOOLEAN, due : BOOLEAN,
                         status : Autom!Active \cup {"none", "completed", "failed", "interrupted"},
                         chat : Chats \cup {NoChat}, runs : 0..MaxRuns, failures : 0..MaxRuns]
  <2>1. MaxRuns \in Nat /\ task \in [Autos -> Records]
    BY <1>3, BoundsAssumption DEF AutomationsInv, AutomationTypes, AgentStates
  <2>2. \A a \in Autos : task[a] \in Bounded
    <3> TAKE a \in Autos
    <3>1. task[a] \in Records /\ task[a].runs \in 0..MaxRuns /\ task[a].failures \in 0..MaxRuns
      BY <1>3, <2>1 DEF Counts, Records
    <3> QED BY <3>1 DEF Records, Autom!Active
  <2>3. task \in [Autos -> Bounded]
    BY <2>1, <2>2
  <2> QED BY <1>3, <2>3 DEF AutomationsInv, AutomationTypes, AgentStates, Counts, Autom!TypeOK, Autom!Running
<1> QED BY <1>1, <1>2, <1>3, AutomationsInvariant, PTL DEF Spec

-----------------------------------------------------------------------------
(* All parts                                                                *)

(* The state of whichever part acts is of its type, for every value of the *)
(* constants.                                                              *)
THEOREM TypesAlways == Spec => []TypeOK
<1> DEFINE Parts == {"loop", "automations", "terminals", "mcp", "recovery", "team", "projects",
                     "providers", "browser"}
<1>1. Spec => [](subject \in Parts)
  <2>1. Init => subject \in Parts
    BY DEF Init
  <2>2. subject \in Parts /\ [Next]_vars => (subject \in Parts)'
    <3>1. [Next]_vars => subject' = subject
      BY DEF Next, vars
    <3> QED BY <3>1
  <2> QED BY <2>1, <2>2, PTL DEF Spec
<1>2. /\ subject \in Parts
      /\ Loop!TypeOK /\ Autom!TypeOK /\ Term!TypeOK /\ Mcp!TypeOK /\ Recovery!TypeOK /\ Team!TypeOK
      /\ Store!TypeOK /\ Providers!TypeOK /\ Browser!TypeOK
      => TypeOK
  BY DEF TypeOK
<1>3. McpInv => Mcp!TypeOK
  BY DEF McpInv
<1>4. BrowserInv => Browser!TypeOK
  BY DEF BrowserInv
<1> QED BY <1>1, <1>2, <1>3, <1>4, LoopTypes, AutomationsTypes, TerminalsTypes, McpInvariant, RecoveryTypes,
           TeamTypes, ProjectsSoundAlways, ProvidersTypes, BrowserInvariant, PTL
=============================================================================
