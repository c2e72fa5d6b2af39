\* Two tasks want the same session, one of them a resumed team task; nobody guides.
SPECIFICATION Spec
CONSTANTS
  a = a
  b = b
  s1 = s1
  NoTask = NoTask
  Tasks = {a, b}
  Sessions = {s1}
  SessionOf <- MCSessionOf
  TeamResumes = {b}
  MaxGuidance = 0
  PromptRunner = FALSE
CHECK_DEADLOCK FALSE
INVARIANTS
  OneTaskPerSession
