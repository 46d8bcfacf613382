SPECIFICATION FairSpec
CONSTANTS
  r1 = r1  r2 = r2  t1 = t1  t2 = t2
  None = None
  Requests = {r1, r2}
  Threads = {t1, t2}
  Wait = 1
  MinStay = 1
  MaxClock = 2
  Prompt = TRUE
INVARIANTS TypeOK PremiseHolds
PROPERTIES WaitServed RequestsMoveOn
CHECK_DEADLOCK FALSE
