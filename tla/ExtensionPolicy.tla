---------------------------- MODULE ExtensionPolicy ----------------------------
(***************************************************************************)
(* The four stages of should_extend(), penalty_engine/extension.py: by how *)
(* many hours an incident, once consumed, extends its penalty window.      *)
(* Hours are counted in tenths, so that every constant of the code is a    *)
(* whole number; a fraction is in tenths too.                              *)
(***************************************************************************)
EXTENDS Integers, Sequences

\* ExtensionContext
Context ==
  [severity: {"minor", "moderate", "major", "critical"},
   cooperation: [disclosed: BOOLEAN, resolving: BOOLEAN],
   count: Nat,          \* same_rule_confirmed_incident_count_in_current_window, this one included
   capacity: Nat,       \* remaining_active_hour_capacity, in tenths
   recovering: BOOLEAN] \* occurred_during_recovery_task

IsHighCooperation(c) == c.disclosed /\ c.resolving

\* determine_extension_eligibility(): the reason, from which the verdict follows.
Eligibility(x) ==
  CASE x.severity \in {"major", "critical"} -> "by_severity"
    [] x.severity \notin {"major", "critical"} /\ x.count > 1 -> "by_repetition"
    [] OTHER -> IF IsHighCooperation(x.cooperation) THEN "ineligible" ELSE "by_low_cooperation"

BaseHours == [minor |-> 40, moderate |-> 120, major |-> 240, critical |-> 480]

BaseMagnitude(x) == BaseHours[x.severity] + (IF x.count > 1 THEN 60 * (x.count - 1) ELSE 0)

\* The three reductions add up to less than the whole.
MitigationFraction(x) ==
  (IF x.cooperation.disclosed THEN 3 ELSE 0) + (IF x.cooperation.resolving THEN 3 ELSE 0)
  + (IF x.recovering THEN 2 ELSE 0)

\* MINIMUM_RETAINED_FRACTION: none for the lower two.
RetainedFraction == [minor |-> 0, moderate |-> 0, major |-> 5, critical |-> 7]

\* apply_mitigation(): base hours are whole, so the division is exact.
ApplyMitigation(x) ==
  LET kept == 10 - MitigationFraction(x)
      fraction == IF kept < RetainedFraction[x.severity] THEN RetainedFraction[x.severity] ELSE kept
  IN (BaseMagnitude(x) * fraction) \div 10

ApplyCapacityCap(uncapped, capacity) == IF uncapped < capacity THEN uncapped ELSE capacity

\* ExtensionDecision: no hours are proposed where the incident is not eligible.
Decision ==
  [eligible: BOOLEAN,
   reason: {"by_severity", "by_repetition", "by_low_cooperation", "ineligible"},
   uncapped: Nat, assigned: Nat, limited: BOOLEAN]

\* should_extend()
ShouldExtend(x) ==
  LET eligible == Eligibility(x) # "ineligible"
      uncapped == IF eligible THEN ApplyMitigation(x) ELSE 0
      assigned == ApplyCapacityCap(uncapped, x.capacity)
  IN [eligible |-> eligible, reason |-> Eligibility(x), uncapped |-> uncapped,
      assigned |-> IF eligible THEN assigned ELSE 0,
      limited |-> eligible /\ assigned < uncapped]

=============================================================================
