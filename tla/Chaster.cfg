SPECIFICATION Spec
CONSTANTS
  u1 = u1  a1 = a1  l1 = l1  l2 = l2  b1 = b1  b2 = b2  f1 = f1  f2 = f2  q1 = q1
  None = None
  Users = {u1}
  Accounts = {a1}
  Links = {l1, l2}
  Callbacks = {b1, b2}
  Fetches = {f1, f2}
  Requests = {q1}
  Situations = {"no lock", "several", "locked"}
  LinkLife = 1
  TokenLife = 1
  MaxClock = 1
SYMMETRY MCSymmetry
INVARIANTS TypeOK LinkUsedOnce StoredTokenIsGood ObservationsAreAnswers AuditTellsWhatHappened
CHECK_DEADLOCK FALSE
