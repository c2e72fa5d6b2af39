SPECIFICATION Spec
CONSTANTS
  MaxProjects = 3
  MaxProjectSessions = 4
CHECK_DEADLOCK FALSE
INVARIANTS
  SessionsKept
