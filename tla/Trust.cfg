SPECIFICATION Spec
CONSTANTS
  d1 = d1  d2 = d2  i1 = i1  i2 = i2  i3 = i3  s1 = s1  s2 = s2
  None = None
  Domains = {d1, d2}
  Incidents = {i1, i2, i3}
  Startups = {s1, s2}
  Legacy = {i1}
  LegacyDomain = d1
  Reports <- MCReports
  Responses <- MCResponses
  InitialScores <- MCInitialScores
  Window = 0
  MaxClock = 1
SYMMETRY MCSymmetry
INVARIANTS TypeOK AssessedWithEvidence FallIsAccountedFor
PROPERTY TrustMovesLittle
CHECK_DEADLOCK FALSE
