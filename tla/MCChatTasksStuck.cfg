\* A stop that meets a turn that has just succeeded.
SPECIFICATION FairSpec
CONSTANTS
  a = a
  b = b
  s1 = s1
  NoTask = NoTask
  Tasks = {a}
  Sessions = {s1}
  SessionOf <- MCSessionOf
  TeamResumes = {}
  MaxGuidance = 0
  PromptRunner = TRUE
CHECK_DEADLOCK FALSE
PROPERTY StoppedTaskEnds
