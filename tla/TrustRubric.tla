------------------------------ MODULE TrustRubric ------------------------------
(***************************************************************************)
(* The arithmetic of the Trust Manager: trust_manager/severity.py and      *)
(* trust_manager/recalculation.py.  None of it touches the database.       *)
(*                                                                         *)
(* Raw weights are in hundredths and confidences in percent, so that an    *)
(* effective weight and a score are in ten-thousandths: every constant of  *)
(* the code is a whole number of these.                                    *)
(***************************************************************************)
EXTENDS Integers, Sequences

\* IncidentEvidence.  evaluation_window_days and source_incident_ids are stored only.
Evidence ==
  [impact: {"low", "medium", "high"},
   intentionality: {"unintentional", "unclear", "deliberate"},
   breach: {"indirect", "partial", "direct"},
   repetition: Nat,                       \* same_rule_confirmed_count, as the caller says
   confidence: {"low", "medium", "high"}]

Cooperation == [disclosed: BOOLEAN, resolving: BOOLEAN]

NoCooperation == [disclosed |-> FALSE, resolving |-> FALSE]

Severities == <<"minor", "moderate", "major", "critical">>

ImpactPoints == [low |-> 0, medium |-> 1, high |-> 2]
IntentionalityPoints == [unintentional |-> 0, unclear |-> 0, deliberate |-> 1]
BreachPoints == [indirect |-> 0, partial |-> 1, direct |-> 2]

RepetitionContribution(count) ==
  CASE count <= 1 -> 0
    [] count \in 2..3 -> 1
    [] OTHER -> 2

Points(e) == ImpactPoints[e.impact] + IntentionalityPoints[e.intentionality]
             + BreachPoints[e.breach] + RepetitionContribution(e.repetition)

\* The rank of assess_severity()'s tier: its place in _SEVERITY_TIERS.
Rank(e) == IF Points(e) >= 6 THEN 4 ELSE Points(e) \div 2 + 1

AssessSeverity(e) == Severities[Rank(e)]

SeverityBaseWeight == [minor |-> -5, moderate |-> -10, major |-> -20, critical |-> -35]

CooperationTrustOffset(c) ==
  (IF c.disclosed THEN 2 ELSE 0) + (IF c.resolving THEN 2 ELSE 0)

\* Cooperation softens the weight; the clamp keeps it negative.
RawWeightForIncident(severity, c) ==
  LET softened == SeverityBaseWeight[severity] + CooperationTrustOffset(c) IN
    IF softened > -1 THEN -1 ELSE softened

EvidenceConfidence == [low |-> 30, medium |-> 65, high |-> 90]

----------------------------------------------------------------------------
(* recalculation.py *)

Clamp(x, low, high) == IF x < low THEN low ELSE IF x > high THEN high ELSE x

MaxScore == 10000
MaxAbsEffectiveWeight == 5000
MaxAbsoluteDelta == 1500

EffectiveWeight(raw, confidence) ==
  Clamp(raw * confidence, -MaxAbsEffectiveWeight, MaxAbsEffectiveWeight)

\* Mutant of ApplyRecalculation: only the score is clamped.
ApplyUnbounded(previous, proposed) == Clamp(previous + proposed, 0, MaxScore)

ApplyRecalculation(previous, proposed) ==
  Clamp(previous + Clamp(proposed, -MaxAbsoluteDelta, MaxAbsoluteDelta), 0, MaxScore)

=============================================================================
