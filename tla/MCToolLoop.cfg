SPECIFICATION Spec
CONSTANTS
  s = s
  Strategies = {s}
  MaxCalls = 2
  MaxRounds = 3
CHECK_DEADLOCK FALSE
INVARIANT EveryCallAnswered
