SPECIFICATION Spec
CONSTANTS
  w1 = w1  w2 = w2  f1 = f1  f2 = f2  i1 = i1  i2 = i2
  c1 = c1  c2 = c2  t1 = t1  t2 = t2  r1 = r1
  None = None
  Windows = {w1}
  Freezes = {f1}
  Incidents = {i1}
  Completions = {}
  Threads = {t1}
  Rules = {r1}
  Rule <- MCRule
  Uncapped <- MCUncapped
  TaskHours <- MCTaskHours
  BaseHours = 2
  MaxTarget = 2
  FreezeTerms = {1}
  MaxClock = 3
  MaxCrashes = 1
  Prompt = TRUE
PROPERTIES NotCompletedWhileFrozen
CHECK_DEADLOCK FALSE
