------------------------------- MODULE MCTrust -------------------------------
(* An instance of Trust for TLC: an older version's incident, and two that are reported. *)
EXTENDS Trust, TLC

CONSTANTS d1, d2, i1, i2, i3, s1, s2

Report(impact, intentionality, breach, repetition, confidence) ==
  [impact |-> impact, intentionality |-> intentionality, breach |-> breach,
   repetition |-> repetition, confidence |-> confidence]

\* Of severity minor, and critical; the weight of the second exceeds the cap on its own.
MCReports == {Report("low", "unclear", "indirect", 0, "low"),
              Report("high", "deliberate", "direct", 2, "high")}

MCResponses == {[disclosed |-> TRUE, resolving |-> TRUE]}

\* An override that the cap lowers by its full amount once, and the score's bound cuts the next.
MCInitialScores == {2000}

MCSymmetry == Permutations(Incidents \ Legacy) \union Permutations(Startups)

=============================================================================
