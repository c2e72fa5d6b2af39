\* A predecessor that is still completing and its successor.
SPECIFICATION Spec
CONSTANTS
  a = a
  b = b
  s1 = s1
  NoTask = NoTask
  Tasks = {a, b}
  Sessions = {s1}
  SessionOf <- MCSessionOf
  TeamResumes = {}
  MaxGuidance = 0
  PromptRunner = TRUE
CHECK_DEADLOCK FALSE
INVARIANT SnapshotOfRunningTask
