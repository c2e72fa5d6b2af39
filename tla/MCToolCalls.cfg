SPECIFICATION FairSpec
CONSTANTS
  p = p
  q = q
  m = m
  t1 = t1
  t2 = t2
  f1 = f1
  Calls = {p, q, m}
  Tasks = {t1, t2}
  Files = {f1}
  TaskOf <- MCTaskOf
  Target <- MCTarget
  Mutating = {p, q}
  Imprecise = {m}
  NeedsApproval = {p, m}
  Fingerprint <- MCFingerprint
  Hanging = {m}
  MaxFailures = 1
  Base = Base
  Nobody = Nobody
CHECK_DEADLOCK FALSE
INVARIANTS
  ExclusiveWork
  NoEffectWithoutConsent
  ChangesAccounted
PROPERTIES
  ApprovedChangeOnly
  EveryCallReturns
  LeasesComeBack
