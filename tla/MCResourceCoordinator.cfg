\* Fairness only concerns EveryCallEnds; the other properties hold without it.
SPECIFICATION FairSpec
CONSTANTS
  c1 = c1
  c2 = c2
  c3 = c3
  Callers = {c1, c2, c3}
  Keys <- MCKeys
  Bundles <- MCBundles
  NoCaller = NoCaller
INVARIANTS
  ExclusiveLeases
  TableMatchesLeases
  NothingLeftBehind
  NobodyForgotten
PROPERTIES
  ImplementsLeases
  EveryCallEnds
