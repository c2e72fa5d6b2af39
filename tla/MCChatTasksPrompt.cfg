\* One task, guided and stopped, whose own steps are quick next to the grace period.
SPECIFICATION FairSpec
CONSTANTS
  a = a
  b = b
  s1 = s1
  NoTask = NoTask
  Tasks = {a}
  Sessions = {s1}
  SessionOf <- MCSessionOf
  TeamResumes = {}
  MaxGuidance = 2
  PromptRunner = TRUE
CHECK_DEADLOCK FALSE
INVARIANTS
  SnapshotOfOneTurn
  GuidanceAnswered
  FinalStatus
PROPERTY StopIsHonoured
