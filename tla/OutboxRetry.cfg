SPECIFICATION Spec
CONSTANTS
  e1 = e1  e2 = e2  e3 = e3  c1 = c1  c2 = c2  p1 = p1  p2 = p2
  None = None
  Events = {e1, e2, e3}
  Consumers = {c1, c2}
  Publishers = {p1}
  Roots = {e1, e2}
  Subscribed <- MCSubscribed
  Cascade <- MCCascade
  BatchSize = 2
  ClaimLease = 1
  MaxRounds = 2
  MaxClock = 1
  MaxCrashes = 0
  MaxFailing = 1
INVARIANTS FailureLeavesRetry
