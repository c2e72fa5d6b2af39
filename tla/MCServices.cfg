SPECIFICATION Spec
CONSTANTS
  s = s
  a1 = a1
  user = user
  scheduler = scheduler
  x1 = x1
  x2 = x2
  t1 = t1
  t2 = t2
  t3 = t3
  t4 = t4
  m1 = m1
  m2 = m2
  m3 = m3
  c1 = c1
  c2 = c2
  b1 = b1
  b2 = b2
  b3 = b3
  Strategies = {s}
  MaxCalls = 2
  MaxRounds = 3
  Autos = {a1}
  Callers = {user, scheduler}
  Scheduler = scheduler
  Chats = {x1, x2}
  MaxRuns = 3
  NoAuto = NoAuto
  NoChat = NoChat
  Shells = {t1, t2, t3, t4}
  MaxSessions = 2
  Managed = {m1, m2, m3}
  Configures = {c1, c2}
  None = None
  MaxTurns = 3
  MaxLog = 10
  Switched = {"tester"}
  MaxReviewRounds = 1
  MaxTeamTurns = 2
  MaxProjects = 3
  MaxProjectSessions = 3
  MaxModelCalls = 2
  Candidates = 3
  Buffer = 1
  BrowserCallers = {b1, b2, b3}
  MaxBrowsers = 2
  Nobody = Nobody
CHECK_DEADLOCK FALSE
INVARIANTS
  TypeOK
  NoBlindRetry
  RunIsAgent
  TerminalsBounded
  SessionsOwned
  EndedOnce
  NoRoleTwice
  PlanFollowsRun
  OneSpeaker
  NobodySkipped
  OneBrowser
  DisabledIsOff
PROPERTIES
  DisabledEnds
  RunsEnd
