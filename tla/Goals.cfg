SPECIFICATION Spec
CONSTANTS
  g1 = g1  g2 = g2  p1 = p1  p2 = p2  r1 = r1  r2 = r2
  None = None
  GoalIds = {g1, g2}
  Proposals = {p1, p2}
  Recoveries = {r1, r2}
  Expiries = {1}
  MaxRecords = 1
  MaxClock = 1
SYMMETRY MCSymmetry
INVARIANTS TypeOK VersionsFormAChain AcceptedOnceAsProposed EndedOnceByProposal StartupsSettleOverdue
CHECK_DEADLOCK FALSE
