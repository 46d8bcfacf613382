SPECIFICATION Spec
CONSTANTS
  w1 = w1  w2 = w2  f1 = f1  f2 = f2  i1 = i1  i2 = i2
  c1 = c1  c2 = c2  t1 = t1  t2 = t2  r1 = r1
  None = None
  Windows = {w1, w2}
  Freezes = {f1}
  Incidents = {i1, i2}
  Completions = {c1, c2}
  Threads = {t1}
  Rules = {r1}
  Rule <- MCRule
  Uncapped <- MCUncapped
  TaskHours <- MCTaskHours
  BaseHours = 1
  MaxTarget = 2
  FreezeTerms = {1}
  MaxClock = 2
  MaxCrashes = 1
  Prompt = FALSE
SYMMETRY Symmetry
INVARIANTS ExtensionsWithinCap RecoveryCreditWithinHalf EventsTellStatus OneFreshWindow
CHECK_DEADLOCK FALSE
