SPECIFICATION Spec
CONSTANTS
  w1 = w1  w2 = w2  f1 = f1  i1 = i1  i2 = i2  k1 = k1  p1 = p1  p2 = p2  t1 = t1  r1 = r1
  None = None
  Windows = {w1}
  Freezes = {f1}
  Incidents = {i1}
  Tasks = {k1}
  Processes = {p1, p2}
  Threads = {p1, p2, t1}
  Rules = {r1}
  Rule <- MCRule
  Uncapped <- MCUncapped
  TaskHours <- MCTaskHours
  BaseHours = 1
  MaxTarget = 2
  FreezeTerms = {1}
  FreezeReasons = {"temporary_wear_exemption"}
  StartupLease = 1
  ClaimLease = 1
  BatchSize = 2
  MaxClock = 2
  MaxCrashes = 1
SYMMETRY Symmetry
INVARIANTS TypeOK PlanMirrorsWindow CreditFollowsCompletion OneStartupAtATime
CHECK_DEADLOCK FALSE
