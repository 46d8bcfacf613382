------------------------------ MODULE TrustProofs ------------------------------
(***************************************************************************)
(* Theorems about the Trust Manager and the extension policy.  The first   *)
(* parts are about their arithmetic, for every piece of evidence and every *)
(* context, of which no instance of a model holds more than a few.  Then:  *)
(* incidents are assessed if and only if they have evidence; what a sum    *)
(* over a finite set is; and how the scores and confidences of domains     *)
(* follow from the evidence applied to them.                               *)
(***************************************************************************)
EXTENDS Trust, ExtensionPolicy, FiniteSetTheorems, TLAPS

----------------------------------------------------------------------------
(* The rubric *)

\* f is at least as bad as e in everything the rubric looks at.
AtLeastAsBad(f, e) ==
  /\ ImpactPoints[f.impact] >= ImpactPoints[e.impact]
  /\ IntentionalityPoints[f.intentionality] >= IntentionalityPoints[e.intentionality]
  /\ BreachPoints[f.breach] >= BreachPoints[e.breach]
  /\ f.repetition >= e.repetition

\* c cooperates at least as much as b.
AtLeastAsHelpful(c, b) == (b.disclosed => c.disclosed) /\ (b.resolving => c.resolving)

\* The points of each part of a piece of evidence are what _IMPACT_POINTS and its like say.
LEMMA PointsTyped ==
  ASSUME NEW e \in Evidence
  PROVE  /\ ImpactPoints[e.impact] \in 0..2
         /\ IntentionalityPoints[e.intentionality] \in 0..1
         /\ BreachPoints[e.breach] \in 0..2
         /\ RepetitionContribution(e.repetition) \in 0..2
         /\ Points(e) \in 0..7
<1>1. ImpactPoints[e.impact] \in 0..2
  BY DEF Evidence, ImpactPoints
<1>2. IntentionalityPoints[e.intentionality] \in 0..1
  BY DEF Evidence, IntentionalityPoints
<1>3. BreachPoints[e.breach] \in 0..2
  BY DEF Evidence, BreachPoints
<1>4. RepetitionContribution(e.repetition) \in 0..2
  BY DEF Evidence, RepetitionContribution
<1> QED
  BY <1>1, <1>2, <1>3, <1>4 DEF Points

\* A tier is a place in _SEVERITY_TIERS.
LEMMA RankTyped ==
  ASSUME NEW e \in Evidence
  PROVE  /\ Rank(e) \in 1..4
         /\ AssessSeverity(e) \in {"minor", "moderate", "major", "critical"}
<1>1. Rank(e) \in 1..4
  BY PointsTyped DEF Rank
<1> QED
  BY <1>1 DEF AssessSeverity, Severities

\* 5.2: what is at least as bad in every respect is of no lower tier.
THEOREM SeverityIsMonotone ==
  ASSUME NEW e \in Evidence, NEW f \in Evidence, AtLeastAsBad(f, e)
  PROVE  Rank(f) >= Rank(e)
<1>1. RepetitionContribution(f.repetition) >= RepetitionContribution(e.repetition)
  BY DEF Evidence, AtLeastAsBad, RepetitionContribution
<1>2. Points(f) >= Points(e)
  BY <1>1, PointsTyped DEF Points, AtLeastAsBad
<1> QED
  BY <1>2, PointsTyped DEF Rank

\* The weight of each tier and each cooperation, between the extremes of 5.3's table.
LEMMA WeightTyped ==
  ASSUME NEW severity \in {"minor", "moderate", "major", "critical"}, NEW c \in Cooperation
  PROVE  /\ SeverityBaseWeight[severity] \in (-35)..(-5)
         /\ CooperationTrustOffset(c) \in 0..4
         /\ RawWeightForIncident(severity, c) \in (-35)..(-1)
<1>1. SeverityBaseWeight[severity] \in (-35)..(-5)
  BY DEF SeverityBaseWeight
<1>2. CooperationTrustOffset(c) \in 0..4
  BY DEF CooperationTrustOffset
<1> QED
  BY <1>1, <1>2 DEF RawWeightForIncident

\* 5.3: what is at least as bad, and answered with no more cooperation, never costs less
\* trust; and no cooperation turns the loss into a gain.
THEOREM WorseCostsNoLessTrust ==
  ASSUME NEW e \in Evidence, NEW f \in Evidence, AtLeastAsBad(f, e),
         NEW b \in Cooperation, NEW c \in Cooperation, AtLeastAsHelpful(c, b)
  PROVE  /\ RawWeightForIncident(AssessSeverity(f), b) <= RawWeightForIncident(AssessSeverity(e), c)
         /\ RawWeightForIncident(AssessSeverity(e), c) < 0
<1> DEFINE weight(x) == SeverityBaseWeight[AssessSeverity(x)]
<1>1. weight(f) <= weight(e)
  <2>1. Rank(f) >= Rank(e) /\ Rank(e) \in 1..4 /\ Rank(f) \in 1..4
    BY SeverityIsMonotone, RankTyped
  <2>2. \A x \in Evidence : Rank(x) \in 1..4 =>
          weight(x) = CASE Rank(x) = 1 -> -5 [] Rank(x) = 2 -> -10 [] Rank(x) = 3 -> -20
                        [] Rank(x) = 4 -> -35
    BY DEF AssessSeverity, Severities, SeverityBaseWeight
  <2> QED
    BY <2>1, <2>2
<1>2. CooperationTrustOffset(b) <= CooperationTrustOffset(c)
  BY DEF AtLeastAsHelpful, Cooperation, CooperationTrustOffset
<1>3. /\ weight(f) \in (-35)..(-5) /\ weight(e) \in -35..-5
      /\ CooperationTrustOffset(b) \in 0..4 /\ CooperationTrustOffset(c) \in 0..4
      /\ RawWeightForIncident(AssessSeverity(e), c) \in (-35)..(-1)
  BY RankTyped, WeightTyped
<1>4. RawWeightForIncident(AssessSeverity(f), b) <= RawWeightForIncident(AssessSeverity(e), c)
  BY <1>1, <1>2, <1>3 DEF RawWeightForIncident
<1> QED
  BY <1>3, <1>4

\* TI19: whatever a recalculation proposes, the score it leaves lies between 0 and 1, has
\* moved by .15 at most, and not the other way.
THEOREM RecalculationIsBounded ==
  ASSUME NEW previous \in 0..MaxScore, NEW proposed \in Int
  PROVE  LET score == ApplyRecalculation(previous, proposed)
         IN /\ score \in 0..MaxScore
            /\ score - previous \in -MaxAbsoluteDelta..MaxAbsoluteDelta
            /\ proposed <= 0 => score <= previous
            /\ proposed >= 0 => score >= previous
<1> DEFINE delta == Clamp(proposed, -MaxAbsoluteDelta, MaxAbsoluteDelta)
           score == Clamp(previous + delta, 0, MaxScore)
<1>1. /\ delta \in -1500..1500
      /\ proposed <= 0 => delta <= 0
      /\ proposed >= 0 => delta >= 0
  BY DEF Clamp, MaxAbsoluteDelta
<1> HIDE DEF delta
<1>2. /\ score \in 0..MaxScore /\ score - previous \in -1500..1500
      /\ delta <= 0 => score <= previous
      /\ delta >= 0 => score >= previous
  BY <1>1 DEF Clamp, MaxScore
<1> HIDE DEF score
<1>3. ApplyRecalculation(previous, proposed) = score
  BY DEF ApplyRecalculation, score, delta
<1> QED
  BY <1>1, <1>2, <1>3 DEF MaxAbsoluteDelta

\* TI9: no single piece of evidence counts for more than .5, however bad or certain.
THEOREM EffectIsBounded ==
  ASSUME NEW severity \in {"minor", "moderate", "major", "critical"}, NEW c \in Cooperation,
         NEW confidence \in {"low", "medium", "high"}
  PROVE  EffectiveWeight(RawWeightForIncident(severity, c), EvidenceConfidence[confidence])
           \in -MaxAbsEffectiveWeight..-1
<1>1. PICK raw \in -35..-1 : raw = RawWeightForIncident(severity, c)
  BY WeightTyped
<1>2. PICK percent \in {30, 65, 90} : percent = EvidenceConfidence[confidence]
  BY DEF EvidenceConfidence
<1>3. raw * percent \in -3150..-30
  <2>1. CASE percent = 30
    BY <1>1, <2>1
  <2>2. CASE percent = 65
    BY <1>1, <2>2
  <2>3. CASE percent = 90
    BY <1>1, <2>3
  <2>4. percent = 30 \/ percent = 65 \/ percent = 90
    BY <1>2
  <2> QED
    BY <2>1, <2>2, <2>3, <2>4
<1> DEFINE product == raw * percent
<1>4. product \in -3150..-30
  BY <1>3
<1>5. EffectiveWeight(raw, percent) = Clamp(product, -5000, 5000)
  BY DEF EffectiveWeight, MaxAbsEffectiveWeight
<1> HIDE DEF product
<1>6. Clamp(product, -5000, 5000) \in -5000..-1
  BY <1>4 DEF Clamp
<1> QED
  BY <1>1, <1>2, <1>5, <1>6 DEF MaxAbsEffectiveWeight

----------------------------------------------------------------------------
(* The extension policy *)

\* Base and mitigation of every context, in tenths.
LEMMA PolicyTyped ==
  ASSUME NEW x \in Context
  PROVE  /\ BaseHours[x.severity] \in {40, 120, 240, 480}
         /\ BaseMagnitude(x) \in Nat /\ BaseMagnitude(x) >= BaseHours[x.severity]
         /\ MitigationFraction(x) \in 0..8
         /\ RetainedFraction[x.severity] \in {0, 5, 7}
<1>1. BaseHours[x.severity] \in {40, 120, 240, 480}
  BY DEF Context, BaseHours
<1>2. BaseMagnitude(x) \in Nat /\ BaseMagnitude(x) >= BaseHours[x.severity]
  BY <1>1 DEF Context, BaseMagnitude
<1>3. MitigationFraction(x) \in 0..8
  BY DEF Context, MitigationFraction
<1>4. RetainedFraction[x.severity] \in {0, 5, 7}
  BY DEF Context, RetainedFraction
<1> QED
  BY <1>1, <1>2, <1>3, <1>4

\* The tenths of the base that mitigation leaves.
Kept(x) ==
  LET kept == 10 - MitigationFraction(x)
  IN IF kept < RetainedFraction[x.severity] THEN RetainedFraction[x.severity] ELSE kept

LEMMA KeptTyped ==
  ASSUME NEW x \in Context
  PROVE  /\ Kept(x) \in 2..10 /\ Kept(x) >= RetainedFraction[x.severity]
         /\ ApplyMitigation(x) = (BaseMagnitude(x) * Kept(x)) \div 10
         /\ BaseMagnitude(x) * Kept(x) \in Nat
         /\ ApplyMitigation(x) \in Nat
<1>1. Kept(x) \in 2..10 /\ Kept(x) >= RetainedFraction[x.severity]
  BY PolicyTyped DEF Kept
<1>2. ApplyMitigation(x) = (BaseMagnitude(x) * Kept(x)) \div 10
  BY DEF ApplyMitigation, Kept
<1>3. PICK base \in Nat : base = BaseMagnitude(x)
  BY PolicyTyped
<1>4. PICK kept \in 2..10 : kept = Kept(x)
  BY <1>1
<1>5. base * kept \in Nat
  BY <1>3, <1>4
<1>6. \A n \in Nat : n \div 10 \in Nat
  OBVIOUS
<1> QED
  BY <1>1, <1>2, <1>3, <1>4, <1>5, <1>6

\* Whatever the context, should_extend() decides on whole tenths of hours, never on a
\* negative number: the table of hours that PenaltyEngine takes as a constant is one.
THEOREM DecisionTyped ==
  ASSUME NEW x \in Context
  PROVE  ShouldExtend(x) \in Decision
<1>1. Eligibility(x) \in {"by_severity", "by_repetition", "by_low_cooperation", "ineligible"}
  BY DEF Eligibility, Context
<1>2. x.capacity \in Nat
  BY DEF Context
<1>3. ApplyMitigation(x) \in Nat
  BY KeptTyped
<1>4. /\ ShouldExtend(x).eligible \in BOOLEAN /\ ShouldExtend(x).limited \in BOOLEAN
      /\ ShouldExtend(x).uncapped \in Nat /\ ShouldExtend(x).assigned \in Nat
  BY <1>2, <1>3 DEF ShouldExtend, ApplyCapacityCap
<1> QED
  BY <1>1, <1>4 DEF ShouldExtend, Decision

\* 3.1: only an incident that is minor or moderate, the first of its rule in the window, and
\* answered with full cooperation, is not extended at all.
THEOREM OnlyIsolatedIsSpared ==
  ASSUME NEW x \in Context
  PROVE  ~ShouldExtend(x).eligible
           <=> /\ x.severity \in {"minor", "moderate"} /\ x.count <= 1
               /\ x.cooperation.disclosed /\ x.cooperation.resolving
<1>1. ShouldExtend(x).eligible <=> Eligibility(x) # "ineligible"
  BY DEF ShouldExtend
<1>2. x.severity \in {"minor", "moderate", "major", "critical"} /\ x.count \in Nat
  BY DEF Context
<1>3. CASE x.severity \in {"major", "critical"}
  BY <1>1, <1>3 DEF Eligibility
<1>4. CASE x.severity \in {"minor", "moderate"} /\ x.count > 1
  BY <1>1, <1>2, <1>4 DEF Eligibility
<1>5. CASE x.severity \in {"minor", "moderate"} /\ x.count <= 1
  <2>1. Eligibility(x) = IF IsHighCooperation(x.cooperation) THEN "ineligible"
                                                            ELSE "by_low_cooperation"
    BY <1>2, <1>5 DEF Eligibility
  <2>2. Eligibility(x) = "ineligible" <=> IsHighCooperation(x.cooperation)
    BY <2>1
  <2> QED
    BY <1>1, <1>5, <2>2, Zenon DEF IsHighCooperation
<1> QED
  BY <1>2, <1>3, <1>4, <1>5

\* EXT-5: whatever the cooperation, and also during a recovery task, a MAJOR incident keeps
\* half of its base hours, and a CRITICAL one seven tenths, before the cap.
THEOREM FloorIsKept ==
  ASSUME NEW x \in Context, x.severity \in {"major", "critical"}
  PROVE  /\ ShouldExtend(x).eligible
         /\ x.severity = "major" => ShouldExtend(x).uncapped >= 120
         /\ x.severity = "critical" => ShouldExtend(x).uncapped >= 336
<1>1. ShouldExtend(x).eligible /\ ShouldExtend(x).uncapped = ApplyMitigation(x)
  BY DEF ShouldExtend, Eligibility
<1>2. PICK base \in Nat : base = BaseMagnitude(x)
  BY PolicyTyped
<1>3. PICK kept \in 2..10 : kept = Kept(x)
  BY KeptTyped
<1>4. CASE x.severity = "major"
  <2>1. base >= 240 /\ kept >= 5
    BY <1>2, <1>3, <1>4, PolicyTyped, KeptTyped DEF BaseHours, RetainedFraction
  <2>2. base * kept >= 240 * 5 /\ base * kept \in Nat
    BY <1>2, <1>3, <2>1
  <2>3. (base * kept) \div 10 >= 120
    BY <2>2
  <2> QED
    BY <1>1, <1>2, <1>3, <1>4, <2>3, KeptTyped
<1>5. CASE x.severity = "critical"
  <2>1. base >= 480 /\ kept >= 7
    BY <1>2, <1>3, <1>5, PolicyTyped, KeptTyped DEF BaseHours, RetainedFraction
  <2>2. base * kept >= 480 * 7 /\ base * kept \in Nat
    BY <1>2, <1>3, <2>1
  <2>3. (base * kept) \div 10 >= 336
    BY <2>2
  <2> QED
    BY <1>1, <1>2, <1>3, <1>5, <2>3, KeptTyped
<1> QED
  BY <1>4, <1>5

\* EXT-6: a decision never assigns more than the capacity or than was proposed, and is marked
\* as limited exactly when the capacity, used up by it, was the smaller.
THEOREM CapIsExact ==
  ASSUME NEW x \in Context
  PROVE  /\ ShouldExtend(x).assigned <= x.capacity
         /\ ShouldExtend(x).assigned <= ShouldExtend(x).uncapped
         /\ ShouldExtend(x).limited <=> ShouldExtend(x).assigned < ShouldExtend(x).uncapped
         /\ ShouldExtend(x).limited => ShouldExtend(x).assigned = x.capacity
<1>1. x.capacity \in Nat /\ ApplyMitigation(x) \in Nat
  BY KeptTyped DEF Context
<1>2. CASE Eligibility(x) = "ineligible"
  <2>1. ShouldExtend(x).assigned = 0 /\ ShouldExtend(x).uncapped = 0
    BY <1>2 DEF ShouldExtend
  <2>2. ~ShouldExtend(x).limited
    BY <1>2 DEF ShouldExtend
  <2>3. ShouldExtend(x).assigned <= x.capacity
    BY <1>1, <2>1
  <2>4. /\ ShouldExtend(x).assigned <= ShouldExtend(x).uncapped
        /\ ~(ShouldExtend(x).assigned < ShouldExtend(x).uncapped)
    BY <2>1
  <2> QED
    BY <2>2, <2>3, <2>4, Zenon
<1>3. CASE Eligibility(x) # "ineligible"
  <2>1. PICK proposed \in Nat : proposed = ApplyMitigation(x)
    BY <1>1
  <2>2. /\ ShouldExtend(x).assigned = ApplyCapacityCap(proposed, x.capacity)
        /\ ShouldExtend(x).uncapped = proposed
    BY <1>3, <2>1 DEF ShouldExtend
  <2>3. ShouldExtend(x).limited <=> ApplyCapacityCap(proposed, x.capacity) < proposed
    BY <1>3, <2>1 DEF ShouldExtend
  <2>4. /\ ApplyCapacityCap(proposed, x.capacity) <= x.capacity
        /\ ApplyCapacityCap(proposed, x.capacity) <= proposed
        /\ ApplyCapacityCap(proposed, x.capacity) < proposed
             => ApplyCapacityCap(proposed, x.capacity) = x.capacity
    BY <1>1 DEF ApplyCapacityCap
  <2> QED
    BY <2>2, <2>3, <2>4, Zenon
<1> QED
  BY <1>2, <1>3

\* y is, as an incident, at least as bad as x: no lower tier, no more cooperation, no fewer
\* incidents of its rule, no recovery task where x had none, and the same capacity.
AtLeastAsGrave(y, x) ==
  /\ BaseHours[y.severity] >= BaseHours[x.severity]
  /\ AtLeastAsHelpful(x.cooperation, y.cooperation)
  /\ y.count >= x.count
  /\ y.recovering => x.recovering
  /\ y.capacity = x.capacity

LEMMA MoreIsKept ==
  ASSUME NEW x \in Context, NEW y \in Context, AtLeastAsGrave(y, x)
  PROVE  BaseMagnitude(y) >= BaseMagnitude(x) /\ Kept(y) >= Kept(x)
<1>1. BaseMagnitude(y) >= BaseMagnitude(x)
  BY PolicyTyped DEF AtLeastAsGrave, BaseMagnitude, Context
<1>2. MitigationFraction(y) <= MitigationFraction(x)
  BY DEF AtLeastAsGrave, AtLeastAsHelpful, MitigationFraction, Context
<1>3. RetainedFraction[y.severity] >= RetainedFraction[x.severity]
  BY DEF AtLeastAsGrave, RetainedFraction, BaseHours, Context
<1>4. Kept(y) >= Kept(x)
  BY <1>2, <1>3, PolicyTyped DEF Kept
<1> QED
  BY <1>1, <1>4

\* EXT-4: of two incidents consumed with the same capacity left, the one that is at least as
\* bad is never extended by less.
THEOREM WorseIsExtendedNoLess ==
  ASSUME NEW x \in Context, NEW y \in Context, AtLeastAsGrave(y, x)
  PROVE  ShouldExtend(y).assigned >= ShouldExtend(x).assigned
<1>1. ShouldExtend(x) \in Decision /\ ShouldExtend(y) \in Decision
  BY DecisionTyped
<1>2. CASE ~ShouldExtend(x).eligible
  <2>1. ShouldExtend(x).assigned = 0
    BY <1>2 DEF ShouldExtend
  <2> QED
    BY <1>1, <2>1 DEF Decision
<1>3. CASE ShouldExtend(x).eligible
  <2>1. ShouldExtend(y).eligible
    <3>1. ~(/\ x.severity \in {"minor", "moderate"} /\ x.count <= 1
            /\ x.cooperation.disclosed /\ x.cooperation.resolving)
      BY <1>3, OnlyIsolatedIsSpared
    <3>2. y.severity \in {"minor", "moderate"} => x.severity \in {"minor", "moderate"}
      BY DEF AtLeastAsGrave, BaseHours, Context
    <3>3. y.count <= 1 => x.count <= 1
      BY DEF AtLeastAsGrave, Context
    <3>4. /\ y.cooperation.disclosed => x.cooperation.disclosed
          /\ y.cooperation.resolving => x.cooperation.resolving
      BY DEF AtLeastAsGrave, AtLeastAsHelpful
    <3> QED
      BY <3>1, <3>2, <3>3, <3>4, OnlyIsolatedIsSpared, Zenon
  <2>2. PICK b \in Nat, k \in 2..10 : b = BaseMagnitude(x) /\ k = Kept(x)
    BY PolicyTyped, KeptTyped
  <2>3. PICK c \in Nat, l \in 2..10 : c = BaseMagnitude(y) /\ l = Kept(y)
    BY PolicyTyped, KeptTyped
  <2>4. b <= c /\ k <= l
    BY <2>2, <2>3, MoreIsKept
  <2>5. b * k <= c * l /\ b * k \in Nat /\ c * l \in Nat
    BY <2>4
  <2>6. (b * k) \div 10 <= (c * l) \div 10
    BY <2>5
  <2>7. ApplyMitigation(x) <= ApplyMitigation(y)
    BY <2>2, <2>3, <2>6, KeptTyped
  <2>8. /\ ShouldExtend(x).assigned = ApplyCapacityCap(ApplyMitigation(x), x.capacity)
        /\ ShouldExtend(y).assigned = ApplyCapacityCap(ApplyMitigation(y), y.capacity)
    BY <1>3, <2>1 DEF ShouldExtend
  <2>9. x.capacity \in Nat /\ y.capacity = x.capacity
    BY DEF Context, AtLeastAsGrave
  <2> QED
    BY <2>7, <2>8, <2>9, KeptTyped DEF ApplyCapacityCap
<1> QED
  BY <1>2, <1>3

----------------------------------------------------------------------------
(* Assessment and evidence *)

\* The types of what this part is about: all but the domains.
EvidenceTypeOK ==
  /\ clock \in Nat
  /\ incidents \in [Incidents -> IncidentRow]
  /\ evidence \in [Incidents -> EvidenceRow]
  /\ startups \in [Startups -> Startup]

\* What was reported has the report it was reported with, and what was not has no
\* assessment; a startup repairs what was.
ReportsStay ==
  /\ \A i \in Incidents : IF Reported(i) THEN incidents[i].report \in Evidence
                                         ELSE incidents[i].severity = None
  /\ \A s \in Startups : \A i \in startups[s].left : Reported(i)

\* An incident is assessed as its evidence weighs, or neither is there.
Matched ==
  \A i \in Incidents :
    /\ incidents[i].severity # None <=> evidence[i].weight # 0
    /\ incidents[i].severity # None =>
         /\ incidents[i].severity = AssessSeverity(incidents[i].report)
         /\ evidence[i].weight = RawWeightForIncident(incidents[i].severity, incidents[i].cooperation)

Unassessed(i) == incidents[i].confirmation = "confirmed" /\ incidents[i].severity = None

\* Only an older version leaves a confirmed incident unassessed, and a startup that has
\* listed them ends as done only with the last of its list: none is added to it.
LeftToRepair ==
  \A i \in Incidents : Unassessed(i) =>
    /\ i \in Legacy
    /\ \A s \in Startups : /\ startups[s].pc # "done"
                           /\ startups[s].pc = "repairing" => i \in startups[s].left

EvidenceInv == EvidenceTypeOK /\ ReportsStay /\ Matched /\ LeftToRepair

\* A tier is a severity on record, and never NULL.
LEMMA SeverityIsNoNull ==
  ASSUME NEW e \in Evidence
  PROVE  AssessSeverity(e) \in Range(Severities) /\ AssessSeverity(e) # None
<1>1. Rank(e) \in DOMAIN Severities
  BY RankTyped DEF Severities
<1>2. AssessSeverity(e) \in Range(Severities)
  BY <1>1 DEF AssessSeverity, Range
<1> QED
  BY <1>2, NoneIsNoDatum

\* A recalculation marks evidence as applied, and neither weighs it anew nor removes it.
LEMMA RecalculationKeepsWeights ==
  ASSUME NEW d, NEW rows \in [Incidents -> EvidenceRow], Recalculate(d, rows)
  PROVE  /\ evidence' \in [Incidents -> EvidenceRow]
         /\ \A i \in Incidents : evidence'[i].weight = rows[i].weight
<1>1. evidence' = [i \in Incidents |-> IF i \in Unconsumed(d, rows)
                     THEN [rows[i] EXCEPT !.applied = TRUE] ELSE rows[i]]
  BY DEF Recalculate
<1>2. ASSUME NEW i \in Incidents
      PROVE  evidence'[i] \in EvidenceRow /\ evidence'[i].weight = rows[i].weight
  <2>1. PICK r \in EvidenceRow : r = rows[i]
    OBVIOUS
  <2>2. [r EXCEPT !.applied = TRUE] \in EvidenceRow /\ [r EXCEPT !.applied = TRUE].weight = r.weight
    BY DEF EvidenceRow
  <2>3. evidence'[i] = [r EXCEPT !.applied = TRUE] \/ evidence'[i] = r
    BY <1>1, <2>1
  <2> QED
    BY <2>1, <2>2, <2>3
<1> QED
  BY <1>1, <1>2

\* i's row once it is assessed, at a level of confirmation.
AssessedAt(i, c, level) == [Assessed(i, c) EXCEPT !.confirmation = level]

\* What ev and row say of i when it has been assessed.
AssessedWith(i, c, level, row, ev) ==
  /\ row \in IncidentRow /\ row.confirmation = level /\ row.report = incidents[i].report
  /\ row.severity # None /\ row.severity = AssessSeverity(row.report)
  /\ row.cooperation = c
  /\ ev \in [Incidents -> EvidenceRow]
  /\ ev[i].weight = RawWeightForIncident(row.severity, c) /\ ev[i].weight # 0
  /\ \A j \in Incidents \ {i} : ev[j] = evidence[j]

\* The assessment of a reported incident, and the evidence that is written with it.
LEMMA AssessmentMatches ==
  ASSUME EvidenceInv, NEW i \in Incidents, Reported(i), NEW c \in Cooperation, NEW now \in Nat,
         NEW level \in Confirmations
  PROVE  AssessedWith(i, c, level, AssessedAt(i, c, level), WithEvidence(i, c, now))
<1> DEFINE row == AssessedAt(i, c, level)
           ev == WithEvidence(i, c, now)
<1>1. PICK r \in IncidentRow : r = incidents[i]
  BY DEF EvidenceInv, EvidenceTypeOK
<1>2. r.report \in Evidence
  BY <1>1 DEF EvidenceInv, ReportsStay
<1>3. PICK tier \in Range(Severities) : tier = AssessSeverity(r.report) /\ tier # None
  BY <1>2, SeverityIsNoNull
<1>4. PICK weight \in (-35)..(-1) : weight = RawWeightForIncident(tier, c)
  <2>1. AssessSeverity(r.report) \in {"minor", "moderate", "major", "critical"}
    BY <1>2, RankTyped
  <2>2. RawWeightForIncident(AssessSeverity(r.report), c) \in (-35)..(-1)
    BY <2>1, WeightTyped
  <2> QED
    BY <1>3, <2>2
<1> DEFINE w == [[r EXCEPT !.severity = tier, !.cooperation = c] EXCEPT !.confirmation = level]
           e == [weight |-> weight, at |-> now, applied |-> FALSE]
<1>5. /\ w \in IncidentRow /\ w.confirmation = level /\ w.report = r.report
      /\ w.severity = tier /\ w.cooperation = c
  BY DEF IncidentRow, Confirmations
<1>6. e \in EvidenceRow /\ e.weight = weight
  BY DEF EvidenceRow
<1>7. [Assessed(i, c) EXCEPT !.confirmation = level] = w
  BY <1>1, <1>3 DEF Assessed
<1>8. WithEvidence(i, c, now) = [evidence EXCEPT ![i] = e]
  BY <1>1, <1>3, <1>4 DEF WithEvidence
<1> HIDE DEF w, e
<1>9. evidence \in [Incidents -> EvidenceRow]
  BY DEF EvidenceInv, EvidenceTypeOK
<1>10. /\ [evidence EXCEPT ![i] = e] \in [Incidents -> EvidenceRow]
       /\ [evidence EXCEPT ![i] = e][i] = e
       /\ \A j \in Incidents \ {i} : [evidence EXCEPT ![i] = e][j] = evidence[j]
  BY <1>6, <1>9
<1>11. row = w /\ ev = [evidence EXCEPT ![i] = e]
  BY <1>7, <1>8 DEF AssessedAt
<1> HIDE DEF row, ev
<1>12. /\ row \in IncidentRow /\ row.confirmation = level /\ row.report = incidents[i].report
       /\ row.severity # None /\ row.severity = AssessSeverity(row.report)
       /\ row.cooperation = c
  BY <1>1, <1>3, <1>5, <1>11
<1>13. /\ ev \in [Incidents -> EvidenceRow]
       /\ ev[i].weight = weight /\ \A j \in Incidents \ {i} : ev[j] = evidence[j]
  BY <1>6, <1>10, <1>11
<1>14. weight = RawWeightForIncident(row.severity, c)
  BY <1>4, <1>5, <1>11
<1>15. AssessedWith(i, c, level, row, ev)
  BY <1>12, <1>13, <1>14 DEF AssessedWith
<1> QED
  BY <1>15 DEF row, ev

LEMMA InitEvidenceInv == Init => EvidenceInv
<1> SUFFICES ASSUME Init PROVE EvidenceInv
  OBVIOUS
<1> DEFINE old(report) == [NoIncident EXCEPT !.confirmation = "confirmed",
                                             !.domain = LegacyDomain, !.report = report]
<1>1. PICK report \in Reports :
        incidents = [i \in Incidents |-> IF i \in Legacy THEN old(report) ELSE NoIncident]
  BY DEF Init
<1>2. report \in Evidence
  BY <1>1, InputsTyped
<1>3. /\ old(report) \in IncidentRow
      /\ old(report).report = report /\ old(report).severity = None
  BY LegacyIsReported DEF IncidentRow, NoIncident, Confirmations, Cooperation, NoCooperation
<1>4. /\ NoIncident \in IncidentRow
      /\ NoIncident.confirmation = "none" /\ NoIncident.severity = None
  BY DEF IncidentRow, NoIncident, Confirmations, Cooperation, NoCooperation
<1> HIDE DEF old
<1>5. \A i \in Incidents : /\ incidents[i] \in IncidentRow /\ incidents[i].severity = None
                           /\ Reported(i) => i \in Legacy /\ incidents[i].report \in Evidence
  BY <1>1, <1>2, <1>3, <1>4 DEF Reported
<1>6. NoEvidence \in EvidenceRow /\ NoEvidence.weight = 0
  BY DEF NoEvidence, EvidenceRow
<1>7. \A i \in Incidents : evidence[i] = NoEvidence
  BY DEF Init
<1>8. \A s \in Startups : startups[s].pc = "idle" /\ startups[s].left = {}
  BY DEF Init
<1>9. EvidenceTypeOK
  <2>1. incidents \in [Incidents -> IncidentRow]
    BY <1>1, <1>3, <1>4
  <2>2. evidence \in [Incidents -> EvidenceRow]
    BY <1>6 DEF Init
  <2>3. startups \in [Startups -> Startup]
    BY DEF Init, Startup
  <2> QED
    BY <2>1, <2>2, <2>3 DEF EvidenceTypeOK, Init
<1>10. ReportsStay
  BY <1>5, <1>8 DEF ReportsStay
<1>11. Matched
  BY <1>5, <1>6, <1>7 DEF Matched
<1>12. LeftToRepair
  BY <1>5, <1>8 DEF LeftToRepair, Unassessed, Reported
<1> QED
  BY <1>9, <1>10, <1>11, <1>12 DEF EvidenceInv

\* A step that changes neither incidents nor startups, and evidence in nothing but whether
\* it is applied.
LEMMA AppliedOnly ==
  ASSUME EvidenceInv, clock' \in Nat, UNCHANGED <<incidents, startups>>,
         evidence' \in [Incidents -> EvidenceRow],
         \A i \in Incidents : evidence'[i].weight = evidence[i].weight
  PROVE  EvidenceInv'
<1>1. EvidenceTypeOK'
  BY DEF EvidenceInv, EvidenceTypeOK
<1>2. ReportsStay'
  BY DEF EvidenceInv, ReportsStay, Reported
<1>3. Matched'
  BY DEF EvidenceInv, Matched
<1>4. LeftToRepair'
  BY DEF EvidenceInv, LeftToRepair, Unassessed
<1> QED
  BY <1>1, <1>2, <1>3, <1>4 DEF EvidenceInv

\* An incident whose row is replaced by a matched one, with the evidence that matches, while
\* the others keep theirs and the startups lose nothing but this incident.
LEMMA OneIncident ==
  ASSUME EvidenceInv, clock' \in Nat, startups' \in [Startups -> Startup],
         NEW i \in Incidents, NEW row \in IncidentRow, incidents' = [incidents EXCEPT ![i] = row],
         row.confirmation # "none", row.report \in Evidence,
         row.severity # None <=> evidence'[i].weight # 0,
         row.severity # None =>
           /\ row.severity = AssessSeverity(row.report)
           /\ evidence'[i].weight = RawWeightForIncident(row.severity, row.cooperation),
         row.confirmation = "confirmed" => row.severity # None,
         evidence' \in [Incidents -> EvidenceRow],
         \A j \in Incidents \ {i} : evidence'[j].weight = evidence[j].weight,
         \A s \in Startups : /\ startups'[s].pc = startups[s].pc
                             /\ startups'[s].left \in {startups[s].left, startups[s].left \ {i}}
  PROVE  EvidenceInv'
<1>1. incidents \in [Incidents -> IncidentRow]
  BY DEF EvidenceInv, EvidenceTypeOK
<1>2. /\ incidents' \in [Incidents -> IncidentRow]
      /\ incidents'[i] = row /\ \A j \in Incidents \ {i} : incidents'[j] = incidents[j]
  BY <1>1
<1>3. EvidenceTypeOK'
  BY <1>2 DEF EvidenceTypeOK
<1>4. ReportsStay'
  <2>1. \A j \in Incidents : IF Reported(j)' THEN incidents'[j].report \in Evidence
                                            ELSE incidents'[j].severity = None
    BY <1>2 DEF EvidenceInv, ReportsStay, Reported
  <2>2. ASSUME NEW s \in Startups, NEW j \in startups'[s].left
        PROVE  Reported(j)'
    <3>1. j \in startups[s].left /\ j \in Incidents
      BY DEF EvidenceInv, EvidenceTypeOK, Startup
    <3>2. Reported(j)
      BY <3>1 DEF EvidenceInv, ReportsStay
    <3> QED
      BY <1>2, <3>1, <3>2 DEF Reported
  <2> QED
    BY <2>1, <2>2 DEF ReportsStay
<1>5. Matched'
  <2> SUFFICES ASSUME NEW j \in Incidents
               PROVE  /\ incidents'[j].severity # None <=> evidence'[j].weight # 0
                      /\ incidents'[j].severity # None =>
                           /\ incidents'[j].severity = AssessSeverity(incidents'[j].report)
                           /\ evidence'[j].weight = RawWeightForIncident(incidents'[j].severity,
                                                                         incidents'[j].cooperation)
    BY DEF Matched
  <2>1. CASE j = i
    BY <1>2, <2>1
  <2>2. CASE j # i
    <3>1. incidents'[j] = incidents[j] /\ evidence'[j].weight = evidence[j].weight
      BY <1>2, <2>2
    <3> QED
      BY <3>1 DEF EvidenceInv, Matched
  <2> QED
    BY <2>1, <2>2
<1>6. LeftToRepair'
  <2> SUFFICES ASSUME NEW j \in Incidents, Unassessed(j)'
               PROVE  /\ j \in Legacy
                      /\ \A s \in Startups : /\ startups'[s].pc # "done"
                                             /\ startups'[s].pc = "repairing" => j \in startups'[s].left
    BY DEF LeftToRepair
  <2>1. j # i /\ Unassessed(j)
    BY <1>2 DEF Unassessed
  <2> QED
    BY <2>1 DEF EvidenceInv, LeftToRepair
<1> QED
  BY <1>3, <1>4, <1>5, <1>6 DEF EvidenceInv

\* Confirming, from any level.
LEMMA ConfirmKeeps ==
  ASSUME EvidenceInv, NEW i \in Incidents, NEW c \in Cooperation, ConfirmIncident(i, c)
  PROVE  EvidenceInv'
<1> DEFINE row == AssessedAt(i, c, "confirmed")
           ev == WithEvidence(i, c, clock)
<1>1. /\ Reported(i) /\ incidents' = [incidents EXCEPT ![i] = row]
      /\ Recalculate(incidents[i].domain, ev) /\ UNCHANGED <<clock, startups>>
  BY DEF ConfirmIncident, AssessedAt
<1>2. clock \in Nat /\ "confirmed" \in Confirmations /\ startups \in [Startups -> Startup]
  BY DEF EvidenceInv, EvidenceTypeOK, Confirmations
<1>3. AssessedWith(i, c, "confirmed", row, ev)
  BY <1>1, <1>2, AssessmentMatches
<1> HIDE DEF row, ev
<1>4. /\ evidence' \in [Incidents -> EvidenceRow]
      /\ \A j \in Incidents : evidence'[j].weight = ev[j].weight
  BY <1>1, <1>3, RecalculationKeepsWeights DEF AssessedWith
<1>5. incidents[i].report \in Evidence
  BY <1>1 DEF EvidenceInv, ReportsStay
<1>6. /\ clock' \in Nat /\ startups' \in [Startups -> Startup]
      /\ \A s \in Startups : startups'[s].pc = startups[s].pc /\ startups'[s].left = startups[s].left
  BY <1>1, <1>2
<1>7. \A j \in Incidents \ {i} : evidence'[j].weight = evidence[j].weight
  BY <1>3, <1>4 DEF AssessedWith
<1>8. /\ row.confirmation # "none" /\ row.report \in Evidence /\ evidence'[i].weight # 0
      /\ evidence'[i].weight = RawWeightForIncident(row.severity, row.cooperation)
  BY <1>3, <1>4, <1>5 DEF AssessedWith
<1> QED
  BY <1>1, <1>3, <1>4, <1>6, <1>7, <1>8, OneIncident DEF AssessedWith

\* Demoting keeps the assessment and the evidence.
LEMMA MoveKeeps ==
  ASSUME EvidenceInv, NEW i \in Incidents, NEW level \in Confirmations, MoveConfirmation(i, level)
  PROVE  EvidenceInv'
<1>1. PICK r \in IncidentRow : r = incidents[i]
  BY DEF EvidenceInv, EvidenceTypeOK
<1> DEFINE row == [r EXCEPT !.confirmation = level]
<1>2. /\ row \in IncidentRow /\ row.confirmation = level /\ row.report = r.report
      /\ row.severity = r.severity /\ row.cooperation = r.cooperation
  BY DEF IncidentRow
<1>3. incidents' = [incidents EXCEPT ![i] = row]
  BY <1>1 DEF MoveConfirmation, EvidenceInv, EvidenceTypeOK
<1> HIDE DEF row
<1>4. row.confirmation # "none" /\ row.confirmation # "confirmed" /\ row.report \in Evidence
  BY <1>1, <1>2 DEF MoveConfirmation, Confirmations, EvidenceInv, ReportsStay
<1>5. /\ evidence' = evidence /\ clock' = clock /\ startups' = startups
      /\ clock \in Nat /\ startups \in [Startups -> Startup]
      /\ evidence \in [Incidents -> EvidenceRow]
  BY DEF MoveConfirmation, EvidenceInv, EvidenceTypeOK
<1>6. /\ row.severity # None <=> evidence[i].weight # 0
      /\ row.severity # None =>
           /\ row.severity = AssessSeverity(row.report)
           /\ evidence[i].weight = RawWeightForIncident(row.severity, row.cooperation)
  BY <1>1, <1>2 DEF EvidenceInv, Matched
<1> QED
  BY <1>2, <1>3, <1>4, <1>5, <1>6, OneIncident

\* A new report has neither assessment nor evidence.
LEMMA RegisterKeeps ==
  ASSUME EvidenceInv, NEW i \in Incidents, NEW d \in Domains, NEW report \in Reports,
         RegisterIncidentReport(i, d, report)
  PROVE  EvidenceInv'
<1> DEFINE row == [NoIncident EXCEPT !.confirmation = "unconfirmed", !.domain = d,
                                     !.report = report]
<1>1. /\ row \in IncidentRow /\ row.confirmation = "unconfirmed" /\ row.report = report
      /\ row.severity = None
  BY DEF IncidentRow, NoIncident, Confirmations, Cooperation, NoCooperation
<1>2. incidents' = [incidents EXCEPT ![i] = row]
  BY DEF RegisterIncidentReport
<1> HIDE DEF row
<1>3. report \in Evidence
  BY InputsTyped
<1>4. /\ evidence' = evidence /\ clock' = clock /\ startups' = startups
      /\ clock \in Nat /\ startups \in [Startups -> Startup]
      /\ evidence \in [Incidents -> EvidenceRow]
  BY DEF RegisterIncidentReport, EvidenceInv, EvidenceTypeOK
<1>5. evidence[i].weight = 0
  <2>1. incidents[i].severity = None
    BY DEF RegisterIncidentReport, EvidenceInv, ReportsStay
  <2> QED
    BY <2>1 DEF EvidenceInv, Matched
<1> QED
  BY <1>1, <1>2, <1>3, <1>4, <1>5, OneIncident

\* The list holds every incident that is confirmed and not assessed.
LEMMA ListKeeps ==
  ASSUME EvidenceInv, NEW s \in Startups, ListUnassessed(s)
  PROVE  EvidenceInv'
<1> DEFINE list == {i \in Incidents : Unassessed(i)}
           next == [pc |-> "repairing", now |-> clock, left |-> list]
<1>1. startups' = [startups EXCEPT ![s] = next]
  BY DEF ListUnassessed, Unassessed
<1>2. next \in Startup /\ next.pc = "repairing" /\ next.left = list
  BY DEF Startup, EvidenceInv, EvidenceTypeOK
<1> HIDE DEF next
<1>3. /\ clock' = clock /\ incidents' = incidents /\ evidence' = evidence
      /\ startups' \in [Startups -> Startup]
      /\ \A t \in Startups : IF t = s THEN startups'[t].pc = "repairing" /\ startups'[t].left = list
                                      ELSE startups'[t] = startups[t]
  BY <1>1, <1>2 DEF ListUnassessed, EvidenceInv, EvidenceTypeOK
<1>4. EvidenceTypeOK'
  BY <1>3 DEF EvidenceInv, EvidenceTypeOK
<1>5. ReportsStay'
  BY <1>3 DEF EvidenceInv, ReportsStay, Reported, Unassessed
<1>6. Matched'
  BY <1>3 DEF EvidenceInv, Matched
<1>7. LeftToRepair'
  BY <1>3 DEF EvidenceInv, LeftToRepair, Unassessed
<1> QED
  BY <1>4, <1>5, <1>6, <1>7 DEF EvidenceInv

\* The repair of an incident, or the end of a startup that finds evidence already there.
LEMMA RepairKeeps ==
  ASSUME EvidenceInv, NEW s \in Startups, NEW i \in Incidents, Repair(s, i)
  PROVE  EvidenceInv'
<1>1. /\ startups[s].pc = "repairing" /\ i \in startups[s].left
      /\ clock' = clock /\ clock \in Nat
      /\ startups \in [Startups -> Startup] /\ startups[s] \in Startup
  BY DEF Repair, EvidenceInv, EvidenceTypeOK
<1>2. CASE /\ evidence[i].weight = 0
           /\ incidents' = [incidents EXCEPT ![i] = Assessed(i, NoCooperation)]
           /\ evidence' = WithEvidence(i, NoCooperation, startups[s].now)
           /\ startups' = [startups EXCEPT ![s].left = @ \ {i}]
  <2>1. PICK r \in IncidentRow : r = incidents[i]
    BY DEF EvidenceInv, EvidenceTypeOK
  <2>2. /\ Reported(i) /\ r.confirmation \in Confirmations /\ r.report \in Evidence
        /\ NoCooperation \in Cooperation /\ startups[s].now \in Nat
    BY <1>1, <2>1 DEF EvidenceInv, ReportsStay, Reported, IncidentRow, Startup, Cooperation,
                      NoCooperation
  <2> DEFINE row == AssessedAt(i, NoCooperation, r.confirmation)
  <2>3. AssessedWith(i, NoCooperation, r.confirmation, row, evidence')
    BY <1>2, <2>2, AssessmentMatches
  <2>4. Assessed(i, NoCooperation) = row
    BY <2>1 DEF Assessed, AssessedAt, IncidentRow
  <2> HIDE DEF row
  <2>5. incidents' = [incidents EXCEPT ![i] = row]
    BY <1>2, <2>4
  <2>6. PICK u \in Startup : u = startups[s]
    BY <1>1
  <2> DEFINE v == [u EXCEPT !.left = u.left \ {i}]
  <2>7. v \in Startup /\ v.pc = u.pc /\ v.left = u.left \ {i}
    BY DEF Startup
  <2>8. startups' = [startups EXCEPT ![s] = v]
    BY <1>1, <1>2, <2>6
  <2> HIDE DEF v
  <2>9. /\ startups' \in [Startups -> Startup]
        /\ \A t \in Startups : /\ startups'[t].pc = startups[t].pc
                               /\ startups'[t].left \in {startups[t].left, startups[t].left \ {i}}
    BY <1>1, <2>6, <2>7, <2>8
  <2>10. /\ row \in IncidentRow /\ row.confirmation # "none" /\ row.report \in Evidence
         /\ row.severity # None /\ evidence'[i].weight # 0
         /\ row.severity = AssessSeverity(row.report)
         /\ evidence'[i].weight = RawWeightForIncident(row.severity, row.cooperation)
         /\ evidence' \in [Incidents -> EvidenceRow]
         /\ \A j \in Incidents \ {i} : evidence'[j].weight = evidence[j].weight
    BY <2>1, <2>2, <2>3 DEF AssessedWith, Confirmations
  <2> QED
    BY <1>1, <2>5, <2>9, <2>10, OneIncident
<1>3. CASE /\ evidence[i].weight # 0
           /\ startups' = [startups EXCEPT ![s] = [pc |-> "raised", now |-> 0, left |-> {}]]
           /\ UNCHANGED <<incidents, evidence>>
  <2> DEFINE raised == [pc |-> "raised", now |-> 0, left |-> {}]
  <2>1. raised \in Startup /\ raised.pc = "raised" /\ raised.left = {}
    BY DEF Startup
  <2> HIDE DEF raised
  <2>2. startups' = [startups EXCEPT ![s] = raised]
    BY <1>3 DEF raised
  <2>3. /\ startups' \in [Startups -> Startup]
        /\ \A t \in Startups : IF t = s THEN startups'[t].pc = "raised" /\ startups'[t].left = {}
                                        ELSE startups'[t] = startups[t]
    BY <1>1, <2>1, <2>2
  <2>4. EvidenceTypeOK'
    BY <1>1, <1>3, <2>3 DEF EvidenceInv, EvidenceTypeOK
  <2>5. ReportsStay'
    BY <1>3, <2>3 DEF EvidenceInv, ReportsStay, Reported
  <2>6. Matched'
    BY <1>3 DEF EvidenceInv, Matched
  <2>7. LeftToRepair'
    BY <1>3, <2>3 DEF EvidenceInv, LeftToRepair, Unassessed
  <2> QED
    BY <2>4, <2>5, <2>6, <2>7 DEF EvidenceInv
<1> QED
  BY <1>2, <1>3 DEF Repair

\* A startup is done with an empty list only: then nothing is left to repair.
LEMMA FinishKeeps ==
  ASSUME EvidenceInv, NEW s \in Startups, FinishRepairs(s)
  PROVE  EvidenceInv'
<1>1. /\ startups \in [Startups -> Startup] /\ clock' = clock
      /\ startups[s].pc = "repairing" /\ startups[s].left = {}
  BY DEF FinishRepairs, EvidenceInv, EvidenceTypeOK
<1>2. PICK u \in Startup : u = startups[s]
  BY <1>1
<1> DEFINE v == [u EXCEPT !.pc = "done"]
<1>3. v \in Startup /\ v.pc = "done" /\ v.left = u.left
  BY DEF Startup
<1>4. startups' = [startups EXCEPT ![s] = v]
  BY <1>1, <1>2 DEF FinishRepairs
<1> HIDE DEF v
<1>5. /\ startups' \in [Startups -> Startup] /\ incidents' = incidents /\ evidence' = evidence
      /\ \A t \in Startups : IF t = s THEN startups'[t].pc = "done" /\ startups'[t].left = {}
                                      ELSE startups'[t] = startups[t]
  BY <1>1, <1>2, <1>3, <1>4 DEF FinishRepairs
<1>6. \A i \in Incidents : ~Unassessed(i)
  BY <1>1 DEF EvidenceInv, LeftToRepair
<1>7. EvidenceTypeOK'
  BY <1>1, <1>5 DEF EvidenceInv, EvidenceTypeOK
<1>8. ReportsStay'
  BY <1>5 DEF EvidenceInv, ReportsStay, Reported
<1>9. Matched'
  BY <1>5 DEF EvidenceInv, Matched
<1>10. LeftToRepair'
  BY <1>5, <1>6 DEF LeftToRepair, Unassessed
<1> QED
  BY <1>7, <1>8, <1>9, <1>10 DEF EvidenceInv

LEMMA StepEvidenceInv == EvidenceInv /\ [Next]_vars => EvidenceInv'
<1> SUFFICES ASSUME EvidenceInv, [Next]_vars PROVE EvidenceInv'
  OBVIOUS
<1>1. evidence \in [Incidents -> EvidenceRow] /\ clock \in Nat
  BY DEF EvidenceInv, EvidenceTypeOK
<1>2. CASE UNCHANGED vars
  BY <1>1, <1>2, AppliedOnly DEF vars
<1>3. CASE Tick
  <2>1. clock' \in Nat /\ UNCHANGED <<incidents, startups, evidence>>
    BY <1>1, <1>3 DEF Tick
  <2> QED
    BY <1>1, <2>1, AppliedOnly
<1>4. ASSUME NEW d \in Domains, NEW score \in InitialScores, CreateDomain(d, score)
      PROVE  EvidenceInv'
  BY <1>1, <1>4, AppliedOnly DEF CreateDomain
<1>5. ASSUME NEW d \in Domains, DeactivateDomain(d) \/ ReactivateDomain(d)
      PROVE  EvidenceInv'
  BY <1>1, <1>5, AppliedOnly DEF DeactivateDomain, ReactivateDomain
<1>6. ASSUME NEW d \in Domains, RecalculateDomainTrust(d)
      PROVE  EvidenceInv'
  <2>1. Recalculate(d, evidence) /\ UNCHANGED <<clock, incidents, startups>>
    BY <1>6 DEF RecalculateDomainTrust
  <2>2. /\ evidence' \in [Incidents -> EvidenceRow]
        /\ \A i \in Incidents : evidence'[i].weight = evidence[i].weight
    BY <1>1, <2>1, RecalculationKeepsWeights
  <2> QED
    BY <1>1, <2>1, <2>2, AppliedOnly
<1>7. ASSUME NEW d \in Domains, NEW i \in Incidents, NEW report \in Reports,
             RegisterIncidentReport(i, d, report)
      PROVE  EvidenceInv'
  BY <1>7, RegisterKeeps
<1>8. ASSUME NEW i \in Incidents, NEW level \in Confirmations, MoveConfirmation(i, level)
      PROVE  EvidenceInv'
  BY <1>8, MoveKeeps
<1>9. ASSUME NEW i \in Incidents, NEW c \in Responses, ConfirmIncident(i, c)
      PROVE  EvidenceInv'
  <2>1. c \in Cooperation
    BY InputsTyped
  <2> QED
    BY <1>9, <2>1, ConfirmKeeps
<1>10. ASSUME NEW s \in Startups, ListUnassessed(s)
       PROVE  EvidenceInv'
  BY <1>10, ListKeeps
<1>11. ASSUME NEW s \in Startups, FinishRepairs(s)
       PROVE  EvidenceInv'
  BY <1>11, FinishKeeps
<1>12. ASSUME NEW s \in Startups, NEW i \in Incidents, Repair(s, i)
       PROVE  EvidenceInv'
  BY <1>12, RepairKeeps
<1> QED
  BY <1>2, <1>3, <1>4, <1>5, <1>6, <1>7, <1>8, <1>9, <1>10, <1>11, <1>12 DEF Next

\* TI23, TI24: an incident is assessed exactly when it has evidence, and as that weighs; and
\* once one startup is through with recover_trust_manager_state(), no confirmed incident is
\* left without: for any number of incidents, users' moves and startups that overlap.
THEOREM AssessedAlways == Spec => []AssessedWithEvidence
<1>1. EvidenceInv => AssessedWithEvidence
  <2> SUFFICES ASSUME EvidenceInv, NEW i \in Incidents
               PROVE  /\ incidents[i].severity # None <=> evidence[i].weight # 0
                      /\ incidents[i].severity # None =>
                           /\ incidents[i].severity = AssessSeverity(incidents[i].report)
                           /\ evidence[i].weight = RawWeightForIncident(incidents[i].severity,
                                                                        incidents[i].cooperation)
                      /\ incidents[i].confirmation = "confirmed" /\ incidents[i].severity = None =>
                           i \in Legacy /\ \A s \in Startups : startups[s].pc # "done"
    BY DEF AssessedWithEvidence
  <2>1. Matched /\ LeftToRepair
    BY DEF EvidenceInv
  <2> QED
    BY <2>1 DEF Matched, LeftToRepair, Unassessed
<1> QED
  BY <1>1, InitEvidenceInv, StepEvidenceInv, PTL DEF Spec

----------------------------------------------------------------------------
(* Sums over a set *)

First(s) == CHOOSE x \in s : TRUE

\* f sums what w gives to the members, for every subset of S.
Sums(f, w, S) ==
  f = [s \in SUBSET S |-> IF s = {} THEN 0 ELSE w[First(s)] + f[s \ {First(s)}]]

Sum(w, S) == MapThenSumSet(LAMBDA i : w[i], S)

\* v and w give the members of S the same.
Alike(v, w, S) == \A i \in S : v[i] = w[i]

LEMMA FirstIsMember == ASSUME NEW s, s # {} PROVE First(s) \in s
  BY DEF First

\* Of the subsets of a finite set, any that are given have a minimal one.
LEMMA MinimalSubset ==
  ASSUME NEW S, IsFiniteSet(S), NEW X \in SUBSET (SUBSET S), X # {}
  PROVE  \E T \in X : \A U \in X : U \subseteq T => U = T
<1>1. FiniteSubsetsOf(S) = SUBSET S
  BY FS_FiniteSubsetsOfFinite
<1>2. IsWellFoundedOn(StrictSubsetOrdering(S), SUBSET S)
  BY <1>1, FS_StrictSubsetOrderingWellFounded
<1>3. PICK T \in X : \A U \in X : <<U, T>> \notin StrictSubsetOrdering(S)
  BY <1>2, WFMin
<1> QED
  BY <1>3 DEF StrictSubsetOrdering

\* There is at most one such function, as far as the members of a set are given the same.
LEMMA SumsAgree ==
  ASSUME NEW S, NEW R, NEW A \in SUBSET S, A \in SUBSET R, IsFiniteSet(A),
         NEW v, NEW w, Alike(v, w, A), NEW f, NEW g, Sums(f, v, S), Sums(g, w, R)
  PROVE  f[A] = g[A]
<1> DEFINE X == {T \in SUBSET A : f[T] # g[T]}
<1>1. SUFFICES ASSUME X # {} PROVE FALSE
  OBVIOUS
<1>2. PICK T \in X : \A U \in X : U \subseteq T => U = T
  <2>1. X \in SUBSET (SUBSET A)
    OBVIOUS
  <2> HIDE DEF X
  <2> QED
    BY <1>1, <2>1, MinimalSubset
<1>3. T # {}
  <2>1. f[{}] = 0 /\ g[{}] = 0
    BY DEF Sums
  <2> QED
    BY <1>2, <2>1
<1>4. PICK x \in T : x = First(T)
  BY <1>3, FirstIsMember
<1>5. f[T \ {x}] = g[T \ {x}]
  BY <1>2, <1>4
<1>6. f[T] = v[x] + f[T \ {x}] /\ g[T] = w[x] + g[T \ {x}]
  <2>1. T \in SUBSET S /\ T \in SUBSET R
    OBVIOUS
  <2> QED
    BY <1>3, <1>4, <2>1 DEF Sums
<1>7. v[x] = w[x]
  BY <1>4 DEF Alike
<1> QED
  BY <1>2, <1>5, <1>6, <1>7

\* MapThenSumSet() is the value of such a function, if there is one.
LEMMA SumIsChosen ==
  ASSUME NEW w, NEW S
  PROVE  Sum(w, S) = (CHOOSE f : Sums(f, w, S))[S]
  BY DEF Sum, MapThenSumSet, MapThenFoldSet, Sums, First

\* There is one for every finite set.
LEMMA SumsExist ==
  ASSUME NEW S, IsFiniteSet(S), NEW w
  PROVE  Sums([s \in SUBSET S |-> Sum(w, s)], w, S)
<1> DEFINE F(T) == [s \in SUBSET T |-> Sum(w, s)]
           X == {T \in SUBSET S : ~Sums(F(T), w, T)}
<1>1. SUFFICES ASSUME X # {} PROVE FALSE
  <2>1. S \notin X
    BY <1>1
  <2> QED
    BY <2>1
<1>2. PICK T \in X : \A U \in X : U \subseteq T => U = T
  <2>1. X \in SUBSET (SUBSET S)
    OBVIOUS
  <2> HIDE DEF X
  <2> QED
    BY <1>1, <2>1, MinimalSubset
<1>3. IsFiniteSet(T) /\ T \in SUBSET S
  BY <1>2, FS_Subset
<1> DEFINE g == [s \in SUBSET T |->
                  IF s = {} THEN 0 ELSE w[First(s)] + Sum(w, s \ {First(s)})]
<1>4. ASSUME NEW U \in SUBSET T, U # T
      PROVE  Sums(F(U), w, U)
  BY <1>2, <1>4
<1>5. ASSUME NEW U \in SUBSET T, U # T
      PROVE  g[U] = Sum(w, U)
  <2>1. Sums(F(U), w, U)
    BY <1>4, <1>5
  <2>2. F(U)[U] = Sum(w, U)
    OBVIOUS
  <2>3. CASE U = {}
    BY <2>1, <2>2, <2>3 DEF Sums
  <2>4. CASE U # {}
    <3>1. First(U) \in U
      BY <2>4, FirstIsMember
    <3>2. F(U)[U] = w[First(U)] + F(U)[U \ {First(U)}]
      <4> HIDE DEF F
      <4> QED
        BY <2>1, <2>4 DEF Sums
    <3>3. F(U)[U \ {First(U)}] = Sum(w, U \ {First(U)})
      OBVIOUS
    <3>4. g[U] = w[First(U)] + Sum(w, U \ {First(U)})
      BY <2>4
    <3> QED
      BY <2>2, <3>2, <3>3, <3>4
  <2> QED
    BY <2>3, <2>4
<1>6. Sums(g, w, T)
  <2>1. ASSUME NEW s \in SUBSET T, s # {}
        PROVE  Sum(w, s \ {First(s)}) = g[s \ {First(s)}]
    <3>1. First(s) \in s
      BY <2>1, FirstIsMember
    <3>2. s \ {First(s)} \in SUBSET T /\ s \ {First(s)} # T
      BY <3>1
    <3> HIDE DEF g
    <3> QED
      BY <3>2, <1>5
  <2>2. g = [s \in SUBSET T |-> IF s = {} THEN 0 ELSE w[First(s)] + g[s \ {First(s)}]]
    <3> DEFINE h == [s \in SUBSET T |-> IF s = {} THEN 0 ELSE w[First(s)] + g[s \ {First(s)}]]
    <3>1. \A s \in SUBSET T : g[s] = h[s]
      BY <2>1
    <3> QED
      BY <3>1
  <2> HIDE DEF g
  <2> QED
    BY <2>2 DEF Sums
<1>7. Sum(w, T) = g[T]
  <2>1. Sums(CHOOSE f : Sums(f, w, T), w, T)
    BY <1>6
  <2> DEFINE f == CHOOSE f : Sums(f, w, T)
  <2>2. Sum(w, T) = f[T]
    BY SumIsChosen
  <2> HIDE DEF f, g
  <2> QED
    BY <1>3, <1>6, <2>1, <2>2, SumsAgree DEF f, Alike
<1>8. F(T) = g
  <2>1. \A s \in SUBSET T : F(T)[s] = g[s]
    <3> HIDE DEF g
    <3> QED
      BY <1>5, <1>7
  <2> QED
    BY <2>1
<1> HIDE DEF F, g
<1> QED
  BY <1>2, <1>6, <1>8

\* The sum over a set, any one of whose members may be taken out first.
LEMMA SumTakesOut ==
  ASSUME NEW S, IsFiniteSet(S), NEW w, \A i \in S : w[i] \in Int
  PROVE  /\ Sum(w, {}) = 0
         /\ Sum(w, S) \in Int
         /\ \A x \in S : Sum(w, S) = w[x] + Sum(w, S \ {x})
<1> DEFINE Holds(T) == /\ Sum(w, T) \in Int
                       /\ \A x \in T : Sum(w, T) = w[x] + Sum(w, T \ {x})
           X == {T \in SUBSET S : ~Holds(T)}
<1>1. /\ Sum(w, {}) = 0
      /\ \A T \in SUBSET S : T # {} => Sum(w, T) = w[First(T)] + Sum(w, T \ {First(T)})
  <2> DEFINE f == [s \in SUBSET S |-> Sum(w, s)]
  <2>1. f = [s \in SUBSET S |-> IF s = {} THEN 0 ELSE w[First(s)] + f[s \ {First(s)}]]
    <3>1. Sums(f, w, S)
      BY SumsExist
    <3> HIDE DEF f
    <3> QED
      BY <3>1 DEF Sums
  <2>2. \A T \in SUBSET S : f[T] = Sum(w, T)
    OBVIOUS
  <2> HIDE DEF f
  <2>3. \A T \in SUBSET S : f[T] = IF T = {} THEN 0 ELSE w[First(T)] + f[T \ {First(T)}]
    BY <2>1
  <2> QED
    BY <2>2, <2>3
<1>2. SUFFICES ASSUME X # {} PROVE FALSE
  <2>1. S \notin X
    BY <1>2
  <2> QED
    BY <1>1, <2>1
<1>3. PICK T \in X : \A U \in X : U \subseteq T => U = T
  <2>1. X \in SUBSET (SUBSET S)
    OBVIOUS
  <2> HIDE DEF X
  <2> QED
    BY <1>2, <2>1, MinimalSubset
<1>4. ASSUME NEW U \in SUBSET T, U # T
      PROVE  Holds(U)
  BY <1>3, <1>4
<1> HIDE DEF Holds
<1>5. CASE T = {}
  BY <1>1, <1>3, <1>5 DEF Holds
<1>6. CASE T # {}
  <2>1. PICK y \in T : y = First(T)
    BY <1>6, FirstIsMember
  <2>2. Sum(w, T) = w[y] + Sum(w, T \ {y})
    BY <1>1, <1>6, <2>1
  <2>3. Holds(T \ {y})
    BY <1>4
  <2>4. Sum(w, T) \in Int
    BY <2>2, <2>3 DEF Holds
  <2>5. ASSUME NEW x \in T, x # y
        PROVE  Sum(w, T) = w[x] + Sum(w, T \ {x})
    <3>1. Holds(T \ {x}) /\ Holds((T \ {x}) \ {y})
      BY <1>4
    <3>2. Sum(w, T \ {x}) = w[y] + Sum(w, (T \ {x}) \ {y})
      BY <2>5, <3>1 DEF Holds
    <3>3. Sum(w, T \ {y}) = w[x] + Sum(w, (T \ {y}) \ {x})
      BY <2>3, <2>5 DEF Holds
    <3>4. (T \ {y}) \ {x} = (T \ {x}) \ {y}
      OBVIOUS
    <3>5. PICK t \in Int, x0 \in Int, y0 \in Int :
            t = Sum(w, (T \ {x}) \ {y}) /\ x0 = w[x] /\ y0 = w[y]
      BY <3>1 DEF Holds
    <3>6. Sum(w, T) = y0 + (x0 + t) /\ Sum(w, T \ {x}) = y0 + t
      BY <2>2, <3>2, <3>3, <3>4, <3>5, Zenon
    <3> QED
      BY <3>5, <3>6
  <2>6. Holds(T)
    BY <2>2, <2>4, <2>5 DEF Holds
  <2> QED
    BY <1>3, <2>6
<1> QED
  BY <1>5, <1>6

\* What is added to a set is added to the sum; sums of what is not positive are not.
LEMMA SumOfUnion ==
  ASSUME NEW S, IsFiniteSet(S), NEW w, \A i \in S : w[i] \in Int,
         NEW A \in SUBSET S, NEW B \in SUBSET S, A \cap B = {}
  PROVE  Sum(w, A \union B) = Sum(w, A) + Sum(w, B)
<1> DEFINE X == {T \in SUBSET B : Sum(w, A \union T) # Sum(w, A) + Sum(w, T)}
<1>1. SUFFICES ASSUME X # {} PROVE FALSE
  OBVIOUS
<1>2. IsFiniteSet(B) /\ \A T \in SUBSET S : IsFiniteSet(T)
  BY FS_Subset
<1>3. PICK T \in X : \A U \in X : U \subseteq T => U = T
  <2>1. X \in SUBSET (SUBSET B)
    OBVIOUS
  <2> HIDE DEF X
  <2> QED
    BY <1>1, <1>2, <2>1, MinimalSubset
<1>4. \A U \in SUBSET S : /\ Sum(w, {}) = 0 /\ Sum(w, U) \in Int
                           /\ \A x \in U : Sum(w, U) = w[x] + Sum(w, U \ {x})
  BY <1>2, SumTakesOut
<1>5. CASE T = {}
  <2>1. A \union T = A
    BY <1>5
  <2>2. PICK a \in Int : Sum(w, T) = 0 /\ Sum(w, A) = a
    BY <1>4, <1>5
  <2>3. Sum(w, A \union T) = Sum(w, A) + Sum(w, T)
    <3>1. a + 0 = a
      OBVIOUS
    <3> QED
      BY <2>1, <2>2, <3>1, Zenon
  <2> QED
    BY <1>3, <2>3
<1>6. CASE T # {}
  <2>1. PICK x \in T : TRUE
    BY <1>6
  <2>2. x \in S /\ x \notin A
    BY <1>3
  <2>3. (A \union T) \ {x} = A \union (T \ {x})
    BY <2>2
  <2>4. Sum(w, A \union T) = w[x] + Sum(w, A \union (T \ {x}))
    BY <1>4, <2>1, <2>2, <2>3
  <2>5. Sum(w, T) = w[x] + Sum(w, T \ {x})
    BY <1>4, <2>1
  <2>6. Sum(w, A \union (T \ {x})) = Sum(w, A) + Sum(w, T \ {x})
    BY <1>3, <2>1
  <2>7. PICK x0 \in Int, a \in Int, t \in Int :
          x0 = w[x] /\ a = Sum(w, A) /\ t = Sum(w, T \ {x})
    BY <1>3, <1>4, <2>2
  <2>8. Sum(w, A \union T) = x0 + (a + t) /\ Sum(w, T) = x0 + t
    BY <2>4, <2>5, <2>6, <2>7, Zenon
  <2>9. Sum(w, A \union T) = Sum(w, A) + Sum(w, T)
    BY <2>7, <2>8
  <2> QED
    BY <1>3, <2>9
<1> QED
  BY <1>5, <1>6

LEMMA SumOfLosses ==
  ASSUME NEW S, IsFiniteSet(S), NEW w, \A i \in S : w[i] \in Int /\ w[i] <= 0
  PROVE  Sum(w, S) \in Int /\ Sum(w, S) <= 0
<1> DEFINE X == {T \in SUBSET S : ~(Sum(w, T) <= 0)}
<1>1. \A U \in SUBSET S : /\ Sum(w, {}) = 0 /\ Sum(w, U) \in Int
                           /\ \A x \in U : Sum(w, U) = w[x] + Sum(w, U \ {x})
  BY FS_Subset, SumTakesOut
<1>2. SUFFICES ASSUME X # {} PROVE FALSE
  <2>1. S \notin X
    BY <1>2
  <2> QED
    BY <1>1, <2>1
<1>3. PICK T \in X : \A U \in X : U \subseteq T => U = T
  <2>1. X \in SUBSET (SUBSET S)
    OBVIOUS
  <2> HIDE DEF X
  <2> QED
    BY <1>2, <2>1, MinimalSubset
<1>4. T # {}
  <2>1. Sum(w, {}) <= 0
    BY <1>1
  <2> QED
    BY <1>3, <2>1
<1>5. PICK x \in T : TRUE
  BY <1>4
<1>6. Sum(w, T) = w[x] + Sum(w, T \ {x}) /\ Sum(w, T \ {x}) <= 0
  BY <1>1, <1>3, <1>5
<1>7. Sum(w, T) \in Int /\ Sum(w, T \ {x}) \in Int /\ w[x] \in Int /\ w[x] <= 0
  BY <1>1, <1>3, <1>5
<1> QED
  BY <1>3, <1>6, <1>7

\* A sum depends on what the members are given only.
LEMMA SameSum ==
  ASSUME NEW S, IsFiniteSet(S), NEW v, NEW w, Alike(v, w, S)
  PROVE  Sum(v, S) = Sum(w, S)
<1> DEFINE f == [s \in SUBSET S |-> Sum(v, s)]
           g == [s \in SUBSET S |-> Sum(w, s)]
<1>1. Sums(f, v, S) /\ Sums(g, w, S)
  BY SumsExist
<1>2. f[S] = Sum(v, S) /\ g[S] = Sum(w, S)
  OBVIOUS
<1> HIDE DEF f, g
<1>3. ASSUME NEW h, NEW k, Sums(h, v, S), Sums(k, w, S)
      PROVE  h[S] = k[S]
  <2>1. S \in SUBSET S
    OBVIOUS
  <2> QED
    BY <1>3, <2>1, SumsAgree
<1>4. f[S] = g[S]
  BY <1>1, <1>3
<1> QED
  BY <1>2, <1>4

----------------------------------------------------------------------------
(* Scores and confidences *)

\* What each piece of evidence in rows takes off a score.
Effects(rows) == [i \in Incidents |-> Effect(i, rows)]

\* The evidence that has been applied to d.
Applied(d) == {i \in Incidents : incidents[i].domain = d /\ evidence[i].applied}

\* What was reported was reported of a domain that there is.
Housed ==
  \A i \in Incidents :
    Reported(i) => incidents[i].domain \in Domains /\ DomainExists(incidents[i].domain)

\* Only evidence that was written is applied.
AppliedIsWritten == \A i \in Incidents : evidence[i].applied => evidence[i].weight # 0

FallInv ==
  \A d \in Domains : DomainExists(d) =>
    domains[d].initial - domains[d].score \in 0 .. -Sum(Effects(evidence), Applied(d))

\* No confidence is computed from more pieces of evidence than were applied.
SupportInv ==
  \A d \in Domains : DomainExists(d) /\ domains[d].support # None =>
    domains[d].support <= Cardinality(Applied(d))

DomainInv ==
  /\ clock \in 0..MaxClock
  /\ domains \in [Domains -> DomainRow]
  /\ Housed /\ AppliedIsWritten /\ FallInv /\ SupportInv

\* The sums of the model are sums of Effects.
LEMMA SumOfEffects ==
  ASSUME NEW rows, NEW T \in SUBSET Incidents
  PROVE  MapThenSumSet(LAMBDA i : Effect(i, rows), T) = Sum(Effects(rows), T)
<1> DEFINE Adds(f) == f = [s \in SUBSET T |-> IF s = {} THEN 0
                                              ELSE Effect(First(s), rows) + f[s \ {First(s)}]]
<1>1. IsFiniteSet(T)
  BY FiniteIncidents, FS_Subset
<1>2. ASSUME NEW f
      PROVE  Adds(f) <=> Sums(f, Effects(rows), T)
  <2> DEFINE g == [s \in SUBSET T |-> IF s = {} THEN 0
                                       ELSE Effect(First(s), rows) + f[s \ {First(s)}]]
             h == [s \in SUBSET T |-> IF s = {} THEN 0
                                       ELSE Effects(rows)[First(s)] + f[s \ {First(s)}]]
  <2>1. \A s \in SUBSET T : s # {} => Effects(rows)[First(s)] = Effect(First(s), rows)
    <3> SUFFICES ASSUME NEW s \in SUBSET T, s # {}
                 PROVE  Effects(rows)[First(s)] = Effect(First(s), rows)
      OBVIOUS
    <3>1. First(s) \in Incidents
      BY FirstIsMember
    <3> QED
      BY <3>1 DEF Effects
  <2>2. \A s \in SUBSET T : g[s] = h[s]
    BY <2>1
  <2>3. g = h
    BY <2>2
  <2> QED
    BY <2>3 DEF Sums
<1>3. \E f : Adds(f)
  <2>1. Sums([s \in SUBSET T |-> Sum(Effects(rows), s)], Effects(rows), T)
    BY <1>1, SumsExist
  <2> HIDE DEF Adds
  <2> QED
    BY <1>2, <2>1
<1> DEFINE f == CHOOSE f : Adds(f)
           g == [s \in SUBSET T |-> Sum(Effects(rows), s)]
<1>4. Adds(f)
  <2> HIDE DEF Adds
  <2> QED
    BY <1>3
<1>5. MapThenSumSet(LAMBDA i : Effect(i, rows), T) = f[T]
  BY DEF MapThenSumSet, MapThenFoldSet, First
<1>6. Sums(f, Effects(rows), T) /\ Sums(g, Effects(rows), T)
  <2> HIDE DEF f, Adds
  <2> QED
    BY <1>1, <1>2, <1>4, SumsExist
<1>7. g[T] = Sum(Effects(rows), T)
  OBVIOUS
<1> HIDE DEF f, g
<1>8. f[T] = g[T]
  <2>1. Alike(Effects(rows), Effects(rows), T)
    BY DEF Alike
  <2> QED
    BY <1>1, <1>6, <2>1, SumsAgree
<1> QED
  BY <1>5, <1>7, <1>8

\* Evidence never raises a score.
LEMMA EffectTyped ==
  ASSUME NEW rows \in [Incidents -> EvidenceRow], NEW i \in Incidents,
         incidents[i].report \in Evidence
  PROVE  Effect(i, rows) \in Int /\ Effect(i, rows) <= 0
<1>1. PICK weight \in (-100)..0 : weight = rows[i].weight
  BY DEF EvidenceRow
<1>2. PICK percent \in {30, 65, 90} : percent = EvidenceConfidence[incidents[i].report.confidence]
  BY DEF EvidenceConfidence, Evidence
<1> DEFINE product == weight * percent
<1>3. product \in Int /\ product <= 0
  <2>1. CASE percent = 30
    BY <1>1, <2>1
  <2>2. CASE percent = 65
    BY <1>1, <2>2
  <2>3. CASE percent = 90
    BY <1>1, <2>3
  <2>4. percent = 30 \/ percent = 65 \/ percent = 90
    BY <1>2
  <2> QED
    BY <2>1, <2>2, <2>3, <2>4
<1>4. Effect(i, rows) = Clamp(product, -5000, 5000)
  BY <1>1, <1>2 DEF Effect, EffectiveWeight, MaxAbsEffectiveWeight
<1> HIDE DEF product
<1> QED
  BY <1>3, <1>4 DEF Clamp

\* What evidence takes off together.
LEMMA LossTyped ==
  ASSUME NEW rows \in [Incidents -> EvidenceRow], NEW T \in SUBSET Incidents,
         \A i \in T : incidents[i].report \in Evidence
  PROVE  Sum(Effects(rows), T) \in Int /\ Sum(Effects(rows), T) <= 0
<1>1. IsFiniteSet(T)
  BY FiniteIncidents, FS_Subset
<1>2. \A i \in T : Effects(rows)[i] \in Int /\ Effects(rows)[i] <= 0
  BY EffectTyped DEF Effects
<1> QED
  BY <1>1, <1>2, SumOfLosses

\* What has evidence was reported.
LEMMA WrittenIsReported ==
  ASSUME EvidenceInv, NEW i \in Incidents, evidence[i].weight # 0
  PROVE  Reported(i) /\ incidents[i].report \in Evidence
<1>1. incidents[i].severity # None
  BY DEF EvidenceInv, Matched
<1> QED
  BY <1>1 DEF EvidenceInv, ReportsStay

\* A score and what it was at first are numbers, and so is a confidence once computed.
LEMMA RowsOfDomains ==
  ASSUME NEW r \in DomainRow
  PROVE  /\ r.initial \in Int /\ 0 <= r.initial /\ r.initial <= MaxScore
         /\ r.score \in Int /\ 0 <= r.score /\ r.score <= MaxScore
         /\ r.support # None => r.support \in Nat
<1>1. MaxScore \in Nat
  BY DEF MaxScore
<1>2. r.initial \in 0..MaxScore /\ r.score \in 0..MaxScore /\ r.support \in Nat \union {None}
  BY DEF DomainRow
<1> QED
  BY <1>1, <1>2

LEMMA RowOfDomain ==
  ASSUME NEW status \in {"none", "active", "inactive"}, NEW support \in Nat \union {None},
         NEW m \in Int, 0 <= m, m <= MaxScore, NEW n \in Int, 0 <= n, n <= MaxScore
  PROVE  [status |-> status, initial |-> m, score |-> n, support |-> support] \in DomainRow
<1>1. MaxScore \in Nat
  BY DEF MaxScore
<1> QED
  BY <1>1 DEF DomainRow

\* What TrustMovesLittle says of a step.
MovesLittle ==
  \A d \in Domains : DomainExists(d) =>
    LET fall == domains[d].score - domains[d].score'
        own == {i \in Incidents : incidents[i].domain = d}
        support == domains[d].support
    IN /\ fall \in 0..MaxAbsoluteDelta
       /\ fall > 0 => \E i \in own : evidence'[i].applied /\ ~evidence[i].applied
       /\ \A i \in own : evidence[i].applied => evidence'[i] = evidence[i]
       /\ support # None /\ domains'[d].support < support =>
            \E i \in own : evidence[i].applied /\ evidence[i].at < clock - Window

\* A step that recalculates nothing: domains may come, incidents be reported, and evidence
\* be written, but what was applied stays and none is applied.
Standing ==
  /\ clock' \in 0..MaxClock /\ domains' \in [Domains -> DomainRow]
  /\ \A d \in Domains :
       IF DomainExists(d)
       THEN /\ DomainExists(d)'
            /\ domains'[d].initial = domains[d].initial /\ domains'[d].score = domains[d].score
            /\ domains'[d].support = domains[d].support
       ELSE DomainExists(d)' =>
              domains'[d].score = domains'[d].initial /\ domains'[d].support = None
  /\ \A i \in Incidents :
       /\ evidence[i].applied =>
            /\ evidence'[i] = evidence[i]
            /\ incidents'[i].domain = incidents[i].domain
            /\ incidents'[i].report = incidents[i].report
       /\ evidence'[i].applied => evidence[i].applied
       /\ Reported(i)' =>
            incidents'[i].domain \in Domains /\ DomainExists(incidents[i].domain)'

\* What was applied was reported, and is finite.
LEMMA AppliedIsReported ==
  ASSUME EvidenceInv, DomainInv, NEW d \in Domains
  PROVE  /\ Applied(d) \in SUBSET Incidents
         /\ IsFiniteSet(Applied(d))
         /\ \A i \in Applied(d) : incidents[i].report \in Evidence
<1>1. Applied(d) \in SUBSET Incidents
  BY DEF Applied
<1>2. IsFiniteSet(Applied(d))
  BY <1>1, FiniteIncidents, FS_Subset
<1>3. \A i \in Applied(d) : incidents[i].report \in Evidence
  BY WrittenIsReported DEF Applied, DomainInv, AppliedIsWritten
<1> QED
  BY <1>1, <1>2, <1>3

LEMMA StandingKeeps ==
  ASSUME EvidenceInv, DomainInv, Standing
  PROVE  DomainInv' /\ MovesLittle
<1>1. Housed' /\ AppliedIsWritten'
  BY DEF Standing, Housed, DomainInv, AppliedIsWritten
<1>2. \A d \in Domains : Applied(d)' = Applied(d)
  BY DEF Standing, Applied
<1>3. ASSUME NEW d \in Domains
      PROVE  /\ Sum(Effects(evidence), Applied(d))' = Sum(Effects(evidence), Applied(d))
             /\ Sum(Effects(evidence), Applied(d)) \in Int
             /\ Sum(Effects(evidence), Applied(d)) <= 0
  <2>1. /\ Applied(d) \in SUBSET Incidents /\ IsFiniteSet(Applied(d))
        /\ \A i \in Applied(d) : incidents[i].report \in Evidence
    BY AppliedIsReported
  <2>2. Alike(Effects(evidence)', Effects(evidence), Applied(d))
    <3>1. ASSUME NEW i \in Applied(d)
          PROVE  Effects(evidence)'[i] = Effects(evidence)[i]
      <4>1. /\ i \in Incidents /\ evidence'[i] = evidence[i]
            /\ incidents'[i].report = incidents[i].report
        BY <2>1 DEF Applied, Standing
      <4>2. Effect(i, evidence)' = Effect(i, evidence)
        BY <4>1 DEF Effect
      <4>3. Effects(evidence)[i] = Effect(i, evidence) /\ Effects(evidence)'[i] = Effect(i, evidence)'
        BY <4>1 DEF Effects
      <4> QED
        BY <4>2, <4>3
    <3> QED
      BY <3>1 DEF Alike
  <2>3. Sum(Effects(evidence)', Applied(d)) = Sum(Effects(evidence), Applied(d))
    BY <2>1, <2>2, SameSum
  <2>4. Sum(Effects(evidence), Applied(d))' = Sum(Effects(evidence)', Applied(d)')
    OBVIOUS
  <2>5. evidence \in [Incidents -> EvidenceRow]
    BY DEF EvidenceInv, EvidenceTypeOK
  <2> QED
    BY <1>2, <2>1, <2>3, <2>4, <2>5, LossTyped
<1>4. FallInv'
  <2> SUFFICES ASSUME NEW d \in Domains, DomainExists(d)'
               PROVE  domains'[d].initial - domains'[d].score
                        \in 0 .. -Sum(Effects(evidence), Applied(d))'
    BY DEF FallInv
  <2>1. CASE DomainExists(d)
    <3>1. /\ domains'[d].initial = domains[d].initial /\ domains'[d].score = domains[d].score
      BY <2>1 DEF Standing
    <3> QED
      BY <1>3, <2>1, <3>1 DEF DomainInv, FallInv
  <2>2. CASE ~DomainExists(d)
    <3>1. PICK r \in DomainRow : r = domains'[d]
      BY DEF Standing
    <3>2. domains'[d].score = domains'[d].initial
      BY <2>2, Zenon DEF Standing
    <3>3. r.initial - r.score = 0
      BY <3>1, <3>2, RowsOfDomains
    <3>4. PICK loss \in Int : loss <= 0 /\ loss = Sum(Effects(evidence), Applied(d))'
      BY <1>3
    <3>5. 0 \in 0 .. -loss
      BY <3>4
    <3> QED
      BY <3>1, <3>3, <3>4, <3>5, Zenon
  <2> QED
    BY <2>1, <2>2
<1>5. SupportInv'
  BY <1>2 DEF Standing, SupportInv, DomainInv
<1>6. MovesLittle
  <2> SUFFICES ASSUME NEW d \in Domains, DomainExists(d)
               PROVE  /\ domains[d].score - domains'[d].score = 0
                      /\ domains[d].support # None => ~(domains'[d].support < domains[d].support)
                      /\ \A i \in Incidents : evidence[i].applied => evidence'[i] = evidence[i]
    BY DEF MovesLittle, MaxAbsoluteDelta
  <2>1. PICK r \in DomainRow : r = domains[d]
    BY DEF DomainInv
  <2>2. r.score \in Int /\ (r.support # None => r.support \in Nat)
    BY RowsOfDomains
  <2>3. domains'[d].score = domains[d].score /\ domains'[d].support = domains[d].support
    BY DEF Standing
  <2>4. domains[d].score - domains'[d].score = 0
    BY <2>1, <2>2, <2>3
  <2>5. domains[d].support # None => ~(domains'[d].support < domains[d].support)
    BY <2>1, <2>2, <2>3
  <2> QED
    BY <2>4, <2>5 DEF Standing
<1> QED
  BY <1>1, <1>4, <1>5, <1>6 DEF DomainInv, Standing

\* A recalculation of what is no gain: the score falls by no more than it and the cap.
LEMMA LossLowersScore ==
  ASSUME NEW previous \in Int, 0 <= previous, previous <= MaxScore, NEW delta \in Int, delta <= 0
  PROVE  /\ ApplyRecalculation(previous, delta) \in Int
         /\ 0 <= ApplyRecalculation(previous, delta)
         /\ ApplyRecalculation(previous, delta) <= MaxScore
         /\ ApplyRecalculation(previous, delta) <= previous
         /\ previous - ApplyRecalculation(previous, delta) <= MaxAbsoluteDelta
         /\ previous - ApplyRecalculation(previous, delta) <= -delta
  BY DEF ApplyRecalculation, Clamp, MaxAbsoluteDelta, MaxScore

\* What a recalculation takes off d's score, and what that leaves.
LEMMA RecalculatedRow ==
  ASSUME DomainInv, NEW d \in Domains, DomainExists(d),
         NEW rows \in [Incidents -> EvidenceRow],
         \A i \in Incidents : rows[i].weight # 0 => incidents[i].report \in Evidence,
         Recalculate(d, rows)
  PROVE  /\ domains' \in [Domains -> DomainRow]
         /\ \A e \in Domains : /\ domains'[e].status = domains[e].status
                               /\ domains'[e].initial = domains[e].initial
                               /\ e # d => domains'[e] = domains[e]
         /\ domains'[d].score = ApplyRecalculation(domains[d].score,
                                                   Sum(Effects(rows), Unconsumed(d, rows)))
         /\ domains'[d].support = Cardinality(AppliedInWindow(d, evidence'))
         /\ Sum(Effects(rows), Unconsumed(d, rows)) \in Int
         /\ Sum(Effects(rows), Unconsumed(d, rows)) <= 0
<1> DEFINE delta == Sum(Effects(rows), Unconsumed(d, rows))
           support == Cardinality(AppliedInWindow(d, evidence'))
<1>1. Unconsumed(d, rows) \in SUBSET Incidents
  BY DEF Unconsumed
<1>2. delta \in Int /\ delta <= 0
  <2>1. \A i \in Unconsumed(d, rows) : incidents[i].report \in Evidence
    BY DEF Unconsumed
  <2> QED
    BY <1>1, <2>1, LossTyped
<1>3. support \in Nat
  <2>1. AppliedInWindow(d, evidence') \in SUBSET Incidents
    BY DEF AppliedInWindow
  <2> QED
    BY <2>1, FiniteIncidents, FS_Subset, FS_CardinalityType
<1>4. PICK r \in DomainRow : r = domains[d]
  BY DEF DomainInv
<1> DEFINE score == ApplyRecalculation(r.score, delta)
           s == [status |-> r.status, initial |-> r.initial, score |-> score,
                 support |-> support]
<1>5. domains' = [domains EXCEPT ![d].score = ApplyRecalculation(@, delta),
                                 ![d].support = support]
  <2>1. MapThenSumSet(LAMBDA i : Effect(i, rows), Unconsumed(d, rows)) = delta
    BY <1>1, SumOfEffects
  <2> QED
    BY <2>1 DEF Recalculate, ComputeConfidence
<1> HIDE DEF delta, support
<1>6. score \in Int /\ 0 <= score /\ score <= MaxScore
  <2>1. PICK p \in Int : p = r.score /\ 0 <= p /\ p <= MaxScore
    BY RowsOfDomains
  <2>2. PICK n \in Int : n = delta /\ n <= 0
    BY <1>2
  <2>3. /\ ApplyRecalculation(p, n) \in Int /\ 0 <= ApplyRecalculation(p, n)
        /\ ApplyRecalculation(p, n) <= MaxScore
    BY <2>1, <2>2, LossLowersScore
  <2> QED
    BY <2>1, <2>2, <2>3
<1> HIDE DEF score
<1>7. domains' = [domains EXCEPT ![d] = s]
  <2>1. [r EXCEPT !.score = score, !.support = support] = s
    <3> DEFINE f == [r EXCEPT !.score = score, !.support = support]
    <3>1. /\ DOMAIN r = {"status", "initial", "score", "support"}
          /\ r = [x \in DOMAIN r |-> r[x]]
      BY DEF DomainRow
    <3>2. /\ DOMAIN f = DOMAIN r /\ f = [x \in DOMAIN f |-> f[x]]
          /\ f["status"] = r["status"] /\ f["initial"] = r["initial"]
          /\ f["score"] = score /\ f["support"] = support
      BY <3>1
    <3>3. /\ DOMAIN s = {"status", "initial", "score", "support"}
          /\ s = [x \in DOMAIN s |-> s[x]]
          /\ s["status"] = r["status"] /\ s["initial"] = r["initial"]
          /\ s["score"] = score /\ s["support"] = support
      OBVIOUS
    <3> HIDE DEF f, s
    <3>4. f = s
      BY <3>1, <3>2, <3>3
    <3> QED
      BY <3>4 DEF f
  <2>2. domains' = [domains EXCEPT ![d] = [r EXCEPT !.score = score, !.support = support]]
    BY <1>4, <1>5 DEF DomainInv, score
  <2> QED
    BY <2>1, <2>2, Zenon
<1>8. /\ s \in DomainRow /\ s.status = r.status /\ s.initial = r.initial
      /\ s.score = score /\ s.support = support
  <2>1. support \in Nat \union {None}
    BY <1>3
  <2>2. r.status \in {"none", "active", "inactive"}
    BY DEF DomainRow
  <2>3. r.initial \in Int /\ 0 <= r.initial /\ r.initial <= MaxScore
    BY RowsOfDomains
  <2>4. s \in DomainRow
    BY <1>6, <2>1, <2>2, <2>3, RowOfDomain
  <2> QED
    BY <2>4
<1> HIDE DEF s
<1>9. /\ domains' \in [Domains -> DomainRow] /\ domains'[d] = s
      /\ \A e \in Domains : e # d => domains'[e] = domains[e]
  BY <1>7, <1>8 DEF DomainInv
<1>10. \A e \in Domains : /\ domains'[e].status = domains[e].status
                          /\ domains'[e].initial = domains[e].initial
  BY <1>4, <1>8, <1>9
<1>11. domains'[d].score = ApplyRecalculation(domains[d].score, delta)
  BY <1>4, <1>8, <1>9 DEF score
<1> QED
  BY <1>2, <1>8, <1>9, <1>10, <1>11 DEF delta, support

\* A step that recalculates d's trust of the evidence in rows, where nothing that was applied
\* is changed and only incidents with a domain and a report may have evidence.
RecalculatesOf(d, rows) ==
  /\ d \in Domains /\ DomainExists(d) /\ rows \in [Incidents -> EvidenceRow]
  /\ Recalculate(d, rows)
  /\ clock' = clock
  /\ \A i \in Incidents :
       /\ incidents'[i].domain = incidents[i].domain
       /\ incidents'[i].report = incidents[i].report
       /\ Reported(i)' <=> Reported(i)
       /\ rows[i].weight # 0 => incidents[i].report \in Evidence
       /\ evidence[i].applied => rows[i] = evidence[i]
       /\ rows[i].applied => evidence[i].applied

\* Evidence stays where it is applied, and what is newly applied is what was not consumed.
LEMMA RecalculationApplies ==
  ASSUME EvidenceInv, DomainInv, NEW d, NEW rows, RecalculatesOf(d, rows)
  PROVE  /\ \A i \in Incidents :
              /\ evidence'[i].weight = rows[i].weight /\ evidence'[i].at = rows[i].at
              /\ evidence'[i].applied <=> evidence[i].applied \/ i \in Unconsumed(d, rows)
              /\ evidence[i].applied => evidence'[i] = evidence[i]
         /\ \A e \in Domains :
              Applied(e)' = IF e = d THEN Applied(e) \union Unconsumed(d, rows) ELSE Applied(e)
         /\ Applied(d) \cap Unconsumed(d, rows) = {}
         /\ \A i \in Unconsumed(d, rows) : ~evidence[i].applied
<1>1. evidence' = [i \in Incidents |-> IF i \in Unconsumed(d, rows)
                     THEN [rows[i] EXCEPT !.applied = TRUE] ELSE rows[i]]
  BY DEF RecalculatesOf, Recalculate
<1>2. ASSUME NEW i \in Incidents
      PROVE  /\ evidence'[i].weight = rows[i].weight /\ evidence'[i].at = rows[i].at
             /\ evidence'[i].applied <=> rows[i].applied \/ i \in Unconsumed(d, rows)
             /\ i \notin Unconsumed(d, rows) => evidence'[i] = rows[i]
  <2>1. PICK r \in EvidenceRow : r = rows[i]
    BY DEF RecalculatesOf
  <2>2. r.applied \in BOOLEAN
    BY DEF EvidenceRow
  <2> DEFINE s == [r EXCEPT !.applied = TRUE]
  <2>3. s.weight = r.weight /\ s.at = r.at /\ s.applied = TRUE
    BY DEF EvidenceRow
  <2>4. evidence'[i] = IF i \in Unconsumed(d, rows) THEN s ELSE r
    BY <1>1, <2>1
  <2> HIDE DEF s
  <2> QED
    BY <2>1, <2>2, <2>3, <2>4
<1>3. \A i \in Unconsumed(d, rows) : i \in Incidents /\ incidents[i].domain = d /\ ~rows[i].applied
  BY DEF Unconsumed
<1>4. \A i \in Incidents : evidence[i].applied <=> rows[i].applied
  BY DEF RecalculatesOf
<1>5. \A i \in Unconsumed(d, rows) : ~evidence[i].applied
  BY <1>3, <1>4
<1>6. \A i \in Incidents : evidence[i].applied => evidence'[i] = evidence[i]
  BY <1>2, <1>5 DEF RecalculatesOf
<1>7. \A i \in Incidents :
        evidence'[i].applied <=> evidence[i].applied \/ i \in Unconsumed(d, rows)
  BY <1>2, <1>4
<1>8. ASSUME NEW e \in Domains
      PROVE  Applied(e)' = IF e = d THEN Applied(e) \union Unconsumed(d, rows) ELSE Applied(e)
  <2>1. Applied(e)' = {i \in Incidents : incidents[i].domain = e /\ evidence'[i].applied}
    BY DEF Applied, RecalculatesOf
  <2> QED
    BY <1>3, <1>7, <2>1 DEF Applied
<1>9. Applied(d) \cap Unconsumed(d, rows) = {}
  BY <1>5 DEF Applied
<1> QED
  BY <1>2, <1>5, <1>6, <1>7, <1>8, <1>9

\* The losses of what is applied after it are those of what was, with those of what is.
LEMMA RecalculationLoses ==
  ASSUME EvidenceInv, DomainInv, NEW d, NEW rows, RecalculatesOf(d, rows), NEW e \in Domains
  PROVE  Sum(Effects(evidence), Applied(e))' =
           Sum(Effects(evidence), Applied(e))
           + (IF e = d THEN Sum(Effects(rows), Unconsumed(d, rows)) ELSE 0)
<1> DEFINE old == Applied(e)
           applying == IF e = d THEN Unconsumed(d, rows) ELSE {}
           w == Effects(evidence)'
<1>1. /\ old \in SUBSET Incidents /\ IsFiniteSet(old)
      /\ \A i \in old : incidents[i].report \in Evidence
  BY AppliedIsReported
<1>2. /\ applying \in SUBSET Incidents /\ IsFiniteSet(applying)
      /\ \A i \in applying : incidents[i].report \in Evidence
  <2>1. Unconsumed(d, rows) \in SUBSET Incidents
    BY DEF Unconsumed
  <2>2. \A i \in Unconsumed(d, rows) : incidents[i].report \in Evidence
    BY DEF Unconsumed, RecalculatesOf
  <2> QED
    BY <2>1, <2>2, FiniteIncidents, FS_Subset, FS_EmptySet
<1>3. /\ evidence \in [Incidents -> EvidenceRow] /\ rows \in [Incidents -> EvidenceRow]
  BY DEF EvidenceInv, EvidenceTypeOK, RecalculatesOf
<1>4. \A i \in Incidents : w[i] = Effects(rows)[i]
  <2>1. \A i \in Incidents : /\ evidence'[i].weight = rows[i].weight
                             /\ incidents'[i].report = incidents[i].report
    BY RecalculationApplies DEF RecalculatesOf
  <2>2. \A i \in Incidents : Effect(i, evidence)' = Effect(i, rows)
    BY <2>1 DEF Effect
  <2> QED
    BY <2>2 DEF Effects
<1>5. \A i \in old : w[i] = Effects(evidence)[i]
  <2>1. \A i \in old : rows[i] = evidence[i]
    BY DEF Applied, RecalculatesOf
  <2>2. \A i \in old : Effect(i, rows) = Effect(i, evidence)
    BY <2>1 DEF Effect
  <2> QED
    BY <1>1, <1>4, <2>2 DEF Effects
<1>6. Applied(e)' = old \union applying /\ old \cap applying = {}
  BY RecalculationApplies
<1> HIDE DEF w, old, applying
<1>7. Sum(w, old) = Sum(Effects(evidence), old) /\ Sum(w, applying) = Sum(Effects(rows), applying)
  <2>1. Alike(w, Effects(evidence), old) /\ Alike(w, Effects(rows), applying)
    BY <1>2, <1>4, <1>5 DEF Alike
  <2> QED
    BY <1>1, <1>2, <2>1, SameSum
<1>8. Sum(w, old \union applying) = Sum(w, old) + Sum(w, applying)
  <2>1. IsFiniteSet(old \union applying)
    BY <1>1, <1>2, FS_Union
  <2>2. ASSUME NEW i \in old \union applying
        PROVE  w[i] \in Int
    <3>1. i \in Incidents /\ incidents[i].report \in Evidence
      BY <1>1, <1>2
    <3>2. Effect(i, rows) \in Int
      BY <1>3, <3>1, EffectTyped
    <3> QED
      BY <1>4, <3>1, <3>2 DEF Effects
  <2> QED
    BY <1>6, <2>1, <2>2, SumOfUnion
<1>9. Sum(Effects(rows), applying) =
        IF e = d THEN Sum(Effects(rows), Unconsumed(d, rows)) ELSE 0
  <2>1. Sum(Effects(rows), {}) = 0
    BY FS_EmptySet, SumTakesOut
  <2> QED
    BY <2>1 DEF applying
<1>10. Sum(Effects(evidence), Applied(e))' = Sum(w, Applied(e)')
  BY DEF w
<1> QED
  BY <1>6, <1>7, <1>8, <1>9, <1>10, Zenon DEF old

\* A recalculation lowers the score of its domain by no more than the evidence it applies,
\* and by no more than the cap; and the confidence is computed from what has been applied.
LEMMA RecalculationKeeps ==
  ASSUME EvidenceInv, DomainInv, NEW d, NEW rows, RecalculatesOf(d, rows)
  PROVE  DomainInv' /\ MovesLittle
<1> DEFINE delta == Sum(Effects(rows), Unconsumed(d, rows))
           window == AppliedInWindow(d, evidence')
<1>1. /\ d \in Domains /\ DomainExists(d) /\ clock' = clock
      /\ domains' \in [Domains -> DomainRow]
      /\ \A e \in Domains : /\ domains'[e].status = domains[e].status
                            /\ domains'[e].initial = domains[e].initial
                            /\ e # d => domains'[e] = domains[e]
      /\ domains'[d].score = ApplyRecalculation(domains[d].score, delta)
      /\ domains'[d].support = Cardinality(window)
      /\ delta \in Int /\ delta <= 0
  BY RecalculatedRow DEF RecalculatesOf
<1>2. /\ \A i \in Incidents :
           /\ evidence'[i].weight = rows[i].weight /\ evidence'[i].at = rows[i].at
           /\ evidence'[i].applied <=> evidence[i].applied \/ i \in Unconsumed(d, rows)
           /\ evidence[i].applied => evidence'[i] = evidence[i]
      /\ \A e \in Domains :
           Applied(e)' = IF e = d THEN Applied(e) \union Unconsumed(d, rows) ELSE Applied(e)
      /\ \A i \in Unconsumed(d, rows) : ~evidence[i].applied
  BY RecalculationApplies
<1> HIDE DEF delta
<1>3. Housed'
  BY <1>1 DEF DomainInv, Housed, DomainExists, RecalculatesOf
<1>4. AppliedIsWritten'
  BY <1>2 DEF DomainInv, AppliedIsWritten, Unconsumed, RecalculatesOf
<1>5. ASSUME NEW e \in Domains, DomainExists(e)
      PROVE  /\ domains[e].score - domains'[e].score \in Int
             /\ 0 <= domains[e].score - domains'[e].score
             /\ domains[e].score - domains'[e].score <= MaxAbsoluteDelta
             /\ domains[e].score - domains'[e].score <= IF e = d THEN -delta ELSE 0
  <2>1. PICK r \in DomainRow : r = domains[e]
    BY DEF DomainInv
  <2>2. PICK p \in Int : p = r.score /\ 0 <= p /\ p <= MaxScore
    BY RowsOfDomains
  <2>3. CASE e = d
    <3>1. domains'[e].score = ApplyRecalculation(p, delta)
      BY <1>1, <2>1, <2>2, <2>3
    <3>2. /\ ApplyRecalculation(p, delta) \in Int /\ ApplyRecalculation(p, delta) <= p
          /\ p - ApplyRecalculation(p, delta) <= MaxAbsoluteDelta
          /\ p - ApplyRecalculation(p, delta) <= -delta
      BY <1>1, <2>2, LossLowersScore
    <3> QED
      BY <2>1, <2>2, <2>3, <3>1, <3>2
  <2>4. CASE e # d
    <3>1. domains'[e].score = p /\ domains[e].score = p
      BY <1>1, <2>1, <2>2, <2>4
    <3>2. p - p = 0
      OBVIOUS
    <3> QED
      BY <2>4, <3>1, <3>2 DEF MaxAbsoluteDelta
  <2> QED
    BY <2>3, <2>4
<1>6. FallInv'
  <2> SUFFICES ASSUME NEW e \in Domains, DomainExists(e)'
               PROVE  domains'[e].initial - domains'[e].score
                        \in 0 .. -Sum(Effects(evidence), Applied(e))'
    BY DEF FallInv
  <2>1. DomainExists(e)
    BY <1>1 DEF DomainExists
  <2>2. PICK r \in DomainRow, s \in DomainRow : r = domains[e] /\ s = domains'[e]
    BY <1>1 DEF DomainInv
  <2>3. /\ r.initial \in Int /\ r.score \in Int /\ s.score \in Int /\ s.initial = r.initial
    BY <1>1, <2>2, RowsOfDomains
  <2>4. PICK loss \in Int : loss = Sum(Effects(evidence), Applied(e))
    <3>1. /\ Applied(e) \in SUBSET Incidents
          /\ \A i \in Applied(e) : incidents[i].report \in Evidence
      BY AppliedIsReported
    <3>2. evidence \in [Incidents -> EvidenceRow]
      BY DEF EvidenceInv, EvidenceTypeOK
    <3> QED
      BY <3>1, <3>2, LossTyped
  <2>5. r.initial - r.score \in 0 .. -loss
    BY <2>1, <2>2, <2>4 DEF DomainInv, FallInv
  <2>6. PICK more \in Int : more = IF e = d THEN delta ELSE 0
    BY <1>1
  <2>7. Sum(Effects(evidence), Applied(e))' = loss + more
    <3>1. Sum(Effects(evidence), Applied(e))' =
            Sum(Effects(evidence), Applied(e)) + (IF e = d THEN delta ELSE 0)
      BY RecalculationLoses DEF delta
    <3> QED
      BY <2>4, <2>6, <3>1, Zenon
  <2>8. 0 <= r.score - s.score /\ r.score - s.score <= -more
    BY <1>1, <1>5, <2>1, <2>2, <2>6
  <2>9. s.initial - s.score \in 0 .. -(loss + more)
    BY <2>3, <2>5, <2>8
  <2> QED
    BY <2>2, <2>7, <2>9, Zenon
<1>7. SupportInv'
  <2> SUFFICES ASSUME NEW e \in Domains, DomainExists(e)', domains'[e].support # None
               PROVE  domains'[e].support <= Cardinality(Applied(e)')
    BY DEF SupportInv
  <2>1. CASE e = d
    <3>1. window \subseteq Applied(e)'
      BY <2>1 DEF AppliedInWindow, Applied, RecalculatesOf
    <3>2. IsFiniteSet(Applied(e)')
      <4>1. Applied(e)' \subseteq Incidents
        BY DEF Applied
      <4> QED
        BY <4>1, FiniteIncidents, FS_Subset
    <3> QED
      BY <1>1, <2>1, <3>1, <3>2, FS_Subset
  <2>2. CASE e # d
    BY <1>1, <1>2, <2>2 DEF DomainInv, SupportInv, DomainExists
  <2> QED
    BY <2>1, <2>2
<1>8. MovesLittle
  <2> SUFFICES ASSUME NEW e \in Domains, DomainExists(e)
               PROVE  LET fall == domains[e].score - domains'[e].score
                          own == {i \in Incidents : incidents[i].domain = e}
                          support == domains[e].support
                      IN /\ fall \in 0..MaxAbsoluteDelta
                         /\ fall > 0 => \E i \in own : evidence'[i].applied /\ ~evidence[i].applied
                         /\ \A i \in own : evidence[i].applied => evidence'[i] = evidence[i]
                         /\ support # None /\ domains'[e].support < support =>
                              \E i \in own : evidence[i].applied /\ evidence[i].at < clock - Window
    BY DEF MovesLittle
  <2> DEFINE fall == domains[e].score - domains'[e].score
             own == {i \in Incidents : incidents[i].domain = e}
             support == domains[e].support
  <2>1. fall \in 0..MaxAbsoluteDelta
    <3>1. MaxAbsoluteDelta \in Int
      BY DEF MaxAbsoluteDelta
    <3> QED
      BY <1>5, <3>1
  <2>2. ASSUME fall > 0
        PROVE  \E i \in own : evidence'[i].applied /\ ~evidence[i].applied
    <3>1. e = d /\ delta # 0
      <4>1. PICK n \in Int : n = fall
        BY <1>5
      <4>2. n > 0 /\ n <= IF e = d THEN -delta ELSE 0
        BY <1>5, <2>2, <4>1
      <4> HIDE DEF fall
      <4> QED
        BY <1>1, <4>2
    <3>2. Unconsumed(d, rows) # {}
      <4>1. Sum(Effects(rows), {}) = 0
        BY FS_EmptySet, SumTakesOut
      <4> QED
        BY <3>1, <4>1 DEF delta
    <3>3. PICK i \in Unconsumed(d, rows) : TRUE
      BY <3>2
    <3>4. i \in own
      BY <3>1, <3>3 DEF Unconsumed
    <3> QED
      BY <1>2, <3>3, <3>4
  <2>3. \A i \in own : evidence[i].applied => evidence'[i] = evidence[i]
    BY <1>2
  <2>4. ASSUME support # None, domains'[e].support < support
        PROVE  \E i \in own : evidence[i].applied /\ evidence[i].at < clock - Window
    <3>1. PICK r \in DomainRow : r = domains[e]
      BY DEF DomainInv
    <3>2. PICK n \in Nat : n = support
      BY <2>4, <3>1, RowsOfDomains
    <3>3. e = d
      <4>1. ~(n < n)
        OBVIOUS
      <4> QED
        BY <1>1, <2>4, <3>2, <4>1
    <3>4. SUFFICES ASSUME \A i \in own : evidence[i].applied => ~(evidence[i].at < clock - Window)
                   PROVE  FALSE
      OBVIOUS
    <3>5. Applied(e) \subseteq window
      <4>1. ASSUME NEW i \in Applied(e)
            PROVE  i \in window
        <5>1. /\ i \in Incidents /\ incidents[i].domain = d /\ evidence[i].applied
              /\ evidence'[i] = evidence[i]
          BY <1>2, <3>3 DEF Applied
        <5>2. evidence[i].at \in Nat /\ clock - Window \in Int
          BY <5>1, TrustBounds DEF EvidenceInv, EvidenceTypeOK, EvidenceRow
        <5>3. evidence[i].at >= clock - Window
          BY <3>3, <3>4, <5>1, <5>2
        <5> QED
          BY <5>1, <5>3 DEF AppliedInWindow
      <4> QED
        BY <4>1
    <3>6. IsFiniteSet(window)
      <4>1. window \subseteq Incidents
        BY DEF AppliedInWindow
      <4> QED
        BY <4>1, FiniteIncidents, FS_Subset
    <3>7. Cardinality(Applied(e)) <= Cardinality(window)
      BY <3>5, <3>6, FS_Subset
    <3>8. n <= Cardinality(Applied(e))
      BY <2>4, <3>2 DEF DomainInv, SupportInv
    <3>9. PICK m \in Nat, k \in Nat : m = Cardinality(Applied(e)) /\ k = Cardinality(window)
      BY <3>6, AppliedIsReported, FS_CardinalityType
    <3>10. k < n /\ n <= m /\ m <= k
      BY <1>1, <2>4, <3>2, <3>3, <3>7, <3>8, <3>9
    <3> QED
      BY <3>10
  <2> QED
    BY <2>1, <2>2, <2>3, <2>4
<1>9. clock' \in 0..MaxClock
  BY <1>1 DEF DomainInv
<1> QED
  BY <1>1, <1>3, <1>4, <1>6, <1>7, <1>8, <1>9 DEF DomainInv

\* At first nothing is applied, and a domain that an older version created has its score.
LEMMA InitDomainInv == Init => DomainInv
<1> SUFFICES ASSUME Init PROVE DomainInv
  OBVIOUS
<1> DEFINE old(score) == [status |-> "active", initial |-> score, score |-> score, support |-> None]
<1>1. PICK score \in InitialScores :
        domains = [d \in Domains |-> IF Legacy # {} /\ d = LegacyDomain THEN old(score) ELSE NoDomain]
  BY DEF Init
<1>2. MaxScore \in Nat /\ score \in Int /\ 0 <= score /\ score <= MaxScore
  <2>1. MaxScore \in Nat
    BY DEF MaxScore
  <2> QED
    BY <2>1, InputsTyped
<1>3. /\ old(score) \in DomainRow /\ old(score).status # "none" /\ old(score).support = None
      /\ old(score).initial = score /\ old(score).score = score
  BY <1>2, RowOfDomain
<1>4. NoDomain \in DomainRow /\ NoDomain.status = "none"
  <2>1. [status |-> "none", initial |-> 0, score |-> 0, support |-> None] \in DomainRow
    <3>1. /\ "none" \in {"none", "active", "inactive"} /\ None \in Nat \union {None}
          /\ 0 \in Int /\ 0 <= 0 /\ 0 <= MaxScore
      BY <1>2
    <3> QED
      BY <1>2, <3>1 DEF DomainRow
  <2> QED
    BY <2>1 DEF NoDomain
<1> HIDE DEF old
<1>5. domains \in [Domains -> DomainRow]
  BY <1>1, <1>3, <1>4
<1>6. \A i \in Incidents : ~evidence[i].applied
  BY DEF Init, NoEvidence
<1>7. AppliedIsWritten
  BY <1>6 DEF AppliedIsWritten
<1>8. Housed
  <2> SUFFICES ASSUME NEW i \in Incidents, Reported(i)
               PROVE  incidents[i].domain \in Domains /\ DomainExists(incidents[i].domain)
    BY DEF Housed
  <2>1. i \in Legacy /\ incidents[i].domain = LegacyDomain
    BY DEF Init, Reported, NoIncident
  <2>2. domains[LegacyDomain] = old(score) /\ LegacyDomain \in Domains
    BY <1>1, <2>1, LegacyIsReported
  <2> QED
    BY <1>3, <2>1, <2>2 DEF DomainExists
<1>9. \A d \in Domains : DomainExists(d) => domains[d] = old(score)
  BY <1>1, <1>4 DEF DomainExists
<1>10. FallInv
  <2> SUFFICES ASSUME NEW d \in Domains, DomainExists(d)
               PROVE  domains[d].initial - domains[d].score \in 0 .. -Sum(Effects(evidence), Applied(d))
    BY DEF FallInv
  <2>1. Applied(d) = {}
    BY <1>6 DEF Applied
  <2>2. Sum(Effects(evidence), {}) = 0
    BY FS_EmptySet, SumTakesOut
  <2>3. score - score = 0 /\ 0 \in 0 .. -0
    BY <1>2
  <2>4. domains[d].initial = score /\ domains[d].score = score
    BY <1>3, <1>9
  <2> QED
    BY <2>1, <2>2, <2>3, <2>4, Zenon
<1>11. SupportInv
  BY <1>3, <1>9 DEF SupportInv
<1>12. clock \in 0..MaxClock
  BY TrustBounds DEF Init
<1> QED
  BY <1>5, <1>7, <1>8, <1>10, <1>11, <1>12 DEF DomainInv

\* A step that leaves the domains alone, and of incidents and evidence what was applied.
LEMMA DomainsStand ==
  ASSUME EvidenceInv, DomainInv, clock' \in 0..MaxClock, domains' = domains,
         \A i \in Incidents :
           /\ evidence[i].applied =>
                /\ evidence'[i] = evidence[i]
                /\ incidents'[i].domain = incidents[i].domain
                /\ incidents'[i].report = incidents[i].report
           /\ evidence'[i].applied => evidence[i].applied
           /\ Reported(i)' =>
                incidents'[i].domain \in Domains /\ DomainExists(incidents'[i].domain)
  PROVE  DomainInv' /\ MovesLittle
<1>1. Standing
  BY DEF Standing, DomainInv, DomainExists
<1> QED
  BY <1>1, StandingKeeps

\* A new domain, or another status of one there is.
LEMMA DomainsComeAndStay ==
  ASSUME EvidenceInv, DomainInv, NEW d \in Domains, NEW row \in DomainRow,
         domains' = [domains EXCEPT ![d] = row], row.status # "none",
         UNCHANGED <<clock, incidents, evidence>>,
         IF DomainExists(d) THEN /\ row.initial = domains[d].initial
                                 /\ row.score = domains[d].score /\ row.support = domains[d].support
                            ELSE row.score = row.initial /\ row.support = None
  PROVE  DomainInv' /\ MovesLittle
<1>1. /\ domains' \in [Domains -> DomainRow] /\ domains'[d] = row
      /\ \A e \in Domains : e # d => domains'[e] = domains[e]
  BY DEF DomainInv
<1>2. \A e \in Domains : DomainExists(e) => DomainExists(e)'
  BY <1>1 DEF DomainExists
<1>3. \A e \in Domains :
        IF DomainExists(e)
        THEN /\ DomainExists(e)'
             /\ domains'[e].initial = domains[e].initial /\ domains'[e].score = domains[e].score
             /\ domains'[e].support = domains[e].support
        ELSE DomainExists(e)' =>
               domains'[e].score = domains'[e].initial /\ domains'[e].support = None
  <2> TAKE e \in Domains
  <2>1. CASE e = d
    BY <1>1, <1>2, <2>1, Zenon
  <2>2. CASE e # d
    BY <1>1, <2>2 DEF DomainExists
  <2> QED
    BY <2>1, <2>2
<1>4. \A i \in Incidents :
        Reported(i)' => incidents'[i].domain \in Domains /\ DomainExists(incidents[i].domain)'
  BY <1>2 DEF DomainInv, Housed, Reported
<1>5. Standing
  BY <1>1, <1>3, <1>4 DEF Standing, DomainInv
<1> QED
  BY <1>5, StandingKeeps

\* create_domain(), deactivate_domain(), reactivate_domain()
LEMMA RegistryKeeps ==
  ASSUME EvidenceInv, DomainInv, NEW d \in Domains,
         \/ \E score \in InitialScores : CreateDomain(d, score)
         \/ DeactivateDomain(d) \/ ReactivateDomain(d)
  PROVE  DomainInv' /\ MovesLittle
<1>1. PICK r \in DomainRow : r = domains[d]
  BY DEF DomainInv
<1>2. ASSUME NEW score \in InitialScores, CreateDomain(d, score)
      PROVE  DomainInv' /\ MovesLittle
  <2> DEFINE row == [status |-> "active", initial |-> score, score |-> score, support |-> None]
  <2>1. row \in DomainRow
    <3>1. MaxScore \in Nat
      BY DEF MaxScore
    <3>2. score \in Int /\ 0 <= score /\ score <= MaxScore
      BY <3>1, InputsTyped
    <3> QED
      BY <3>2, RowOfDomain
  <2>2. row.status = "active" /\ row.initial = score /\ row.score = score /\ row.support = None
    OBVIOUS
  <2>3. ~DomainExists(d) /\ domains' = [domains EXCEPT ![d] = row]
        /\ UNCHANGED <<clock, incidents, evidence>>
    BY <1>2 DEF CreateDomain
  <2> HIDE DEF row
  <2> QED
    BY <2>1, <2>2, <2>3, DomainsComeAndStay
<1>3. ASSUME DeactivateDomain(d) \/ ReactivateDomain(d)
      PROVE  DomainInv' /\ MovesLittle
  <2>1. PICK status \in {"active", "inactive"} : domains' = [domains EXCEPT ![d].status = status]
    BY <1>3 DEF DeactivateDomain, ReactivateDomain
  <2> DEFINE row == [r EXCEPT !.status = status]
  <2>2. domains' = [domains EXCEPT ![d] = row]
    BY <1>1, <2>1 DEF DomainInv
  <2>3. /\ row \in DomainRow /\ row.status = status /\ row.initial = r.initial
        /\ row.score = r.score /\ row.support = r.support
    BY DEF DomainRow
  <2>4. DomainExists(d) /\ UNCHANGED <<clock, incidents, evidence>>
    BY <1>3 DEF DeactivateDomain, ReactivateDomain
  <2> HIDE DEF row
  <2> QED
    BY <1>1, <2>2, <2>3, <2>4, DomainsComeAndStay
<1> QED
  BY <1>2, <1>3

\* recalculate_domain_trust()
LEMMA TriggerKeeps ==
  ASSUME EvidenceInv, DomainInv, NEW d \in Domains, RecalculateDomainTrust(d)
  PROVE  DomainInv' /\ MovesLittle
<1>1. evidence \in [Incidents -> EvidenceRow]
  BY DEF EvidenceInv, EvidenceTypeOK
<1>2. \A i \in Incidents : evidence[i].weight # 0 => incidents[i].report \in Evidence
  BY WrittenIsReported
<1>3. RecalculatesOf(d, evidence)
  BY <1>1, <1>2 DEF RecalculateDomainTrust, RecalculatesOf, Reported
<1> QED
  BY <1>3, RecalculationKeeps

\* Confirming, which writes the evidence that is applied with the rest.
LEMMA ConfirmMovesLittle ==
  ASSUME EvidenceInv, DomainInv, NEW i \in Incidents, NEW c \in Cooperation, ConfirmIncident(i, c)
  PROVE  DomainInv' /\ MovesLittle
<1> DEFINE row == AssessedAt(i, c, "confirmed")
           ev == WithEvidence(i, c, clock)
           d == incidents[i].domain
<1>1. /\ Reported(i) /\ evidence[i].weight = 0
      /\ incidents' = [incidents EXCEPT ![i] = row]
      /\ Recalculate(d, ev) /\ UNCHANGED <<clock, startups>>
  BY DEF ConfirmIncident, AssessedAt
<1>2. clock \in Nat /\ "confirmed" \in Confirmations /\ incidents \in [Incidents -> IncidentRow]
  BY DEF EvidenceInv, EvidenceTypeOK, Confirmations
<1>3. AssessedWith(i, c, "confirmed", row, ev)
  BY <1>1, <1>2, AssessmentMatches
<1>4. ev[i].applied = FALSE
  BY DEF WithEvidence, EvidenceInv, EvidenceTypeOK
<1>5. row.domain = d
  <2>1. PICK r \in IncidentRow : r = incidents[i]
    BY <1>2
  <2> QED
    BY <2>1 DEF AssessedAt, Assessed, IncidentRow
<1>6. d \in Domains /\ DomainExists(d)
  BY <1>1 DEF DomainInv, Housed
<1> HIDE DEF row, ev, d
<1>7. ~evidence[i].applied
  BY <1>1 DEF DomainInv, AppliedIsWritten
<1>8. \A j \in Incidents :
        /\ incidents'[j].domain = incidents[j].domain /\ incidents'[j].report = incidents[j].report
        /\ Reported(j)' <=> Reported(j)
  <2>1. row.confirmation = "confirmed" /\ row.report = incidents[i].report
    BY <1>3 DEF AssessedWith
  <2> QED
    BY <1>1, <1>2, <1>5, <2>1 DEF Reported, d
<1>9. \A j \in Incidents :
        /\ ev[j].weight # 0 => incidents[j].report \in Evidence
        /\ evidence[j].applied => ev[j] = evidence[j]
        /\ ev[j].applied => evidence[j].applied
  <2> TAKE j \in Incidents
  <2>1. CASE j = i
    BY <1>1, <1>4, <1>7, <2>1 DEF EvidenceInv, ReportsStay
  <2>2. CASE j # i
    <3>1. ev[j] = evidence[j]
      BY <1>3, <2>2 DEF AssessedWith
    <3> QED
      BY <3>1, WrittenIsReported
  <2> QED
    BY <2>1, <2>2
<1>10. ev \in [Incidents -> EvidenceRow]
  BY <1>3 DEF AssessedWith
<1>11. RecalculatesOf(d, ev)
  BY <1>1, <1>6, <1>8, <1>9, <1>10 DEF RecalculatesOf
<1> QED
  BY <1>11, RecalculationKeeps

\* Reports, other moves of a confirmation, and repairs apply nothing.
LEMMA IncidentsKeep ==
  ASSUME EvidenceInv, DomainInv, NEW i \in Incidents,
         \/ \E d \in Domains, report \in Reports : RegisterIncidentReport(i, d, report)
         \/ \E level \in Confirmations : MoveConfirmation(i, level)
         \/ \E s \in Startups : Repair(s, i)
  PROVE  DomainInv' /\ MovesLittle
<1>1. /\ clock \in 0..MaxClock /\ incidents \in [Incidents -> IncidentRow]
      /\ evidence \in [Incidents -> EvidenceRow]
      /\ \A j \in Incidents : Reported(j) =>
           incidents[j].domain \in Domains /\ DomainExists(incidents[j].domain)
  BY DEF EvidenceInv, EvidenceTypeOK, DomainInv, Housed
<1>2. PICK r \in IncidentRow : r = incidents[i]
  BY <1>1
<1>3. ASSUME NEW d \in Domains, NEW report \in Reports, RegisterIncidentReport(i, d, report)
      PROVE  DomainInv' /\ MovesLittle
  <2> DEFINE row == [NoIncident EXCEPT !.confirmation = "unconfirmed", !.domain = d,
                                       !.report = report]
  <2>1. row.domain = d
    BY DEF NoIncident
  <2>2. incidents' = [incidents EXCEPT ![i] = row] /\ ~Reported(i) /\ DomainExists(d)
        /\ UNCHANGED <<clock, domains, evidence, startups>>
    BY <1>3 DEF RegisterIncidentReport
  <2> HIDE DEF row
  <2>3. ~evidence[i].applied
    <3>1. incidents[i].severity = None
      BY <2>2 DEF EvidenceInv, ReportsStay
    <3> QED
      BY <3>1 DEF EvidenceInv, Matched, DomainInv, AppliedIsWritten
  <2> QED
    BY <1>1, <2>1, <2>2, <2>3, DomainsStand DEF Reported
<1>4. ASSUME NEW level \in Confirmations, MoveConfirmation(i, level)
      PROVE  DomainInv' /\ MovesLittle
  <2> DEFINE row == [r EXCEPT !.confirmation = level]
  <2>1. row.domain = r.domain /\ row.report = r.report
    BY DEF IncidentRow
  <2>2. incidents' = [incidents EXCEPT ![i] = row] /\ Reported(i)
        /\ UNCHANGED <<clock, domains, evidence, startups>>
    BY <1>1, <1>2, <1>4 DEF MoveConfirmation
  <2> HIDE DEF row
  <2> QED
    BY <1>1, <1>2, <2>1, <2>2, DomainsStand DEF Reported
<1>5. ASSUME NEW s \in Startups, Repair(s, i)
      PROVE  DomainInv' /\ MovesLittle
  <2>1. CASE /\ evidence[i].weight = 0
             /\ incidents' = [incidents EXCEPT ![i] = Assessed(i, NoCooperation)]
             /\ evidence' = WithEvidence(i, NoCooperation, startups[s].now)
    <3> DEFINE row == Assessed(i, NoCooperation)
    <3>1. row.domain = r.domain /\ row.report = r.report /\ row.confirmation = r.confirmation
      BY <1>2 DEF Assessed, IncidentRow
    <3> HIDE DEF row
    <3>2. incidents' = [incidents EXCEPT ![i] = row] /\ clock' = clock /\ domains' = domains
      BY <1>5, <2>1 DEF Repair, row
    <3>3. ~evidence[i].applied
      BY <2>1 DEF DomainInv, AppliedIsWritten
    <3>4. ~evidence'[i].applied /\ \A j \in Incidents : j # i => evidence'[j] = evidence[j]
      BY <1>1, <2>1 DEF WithEvidence
    <3> QED
      BY <1>1, <1>2, <3>1, <3>2, <3>3, <3>4, DomainsStand DEF Reported
  <2>2. CASE UNCHANGED <<incidents, evidence>>
    <3>1. clock' = clock /\ domains' = domains
      BY <1>5 DEF Repair
    <3> QED
      BY <1>1, <2>2, <3>1, DomainsStand DEF Reported
  <2> QED
    BY <1>5, <2>1, <2>2 DEF Repair
<1> QED
  BY <1>3, <1>4, <1>5

LEMMA StepDomainInv == EvidenceInv /\ DomainInv /\ [Next]_vars => DomainInv' /\ MovesLittle
<1> SUFFICES ASSUME EvidenceInv, DomainInv, [Next]_vars PROVE DomainInv' /\ MovesLittle
  OBVIOUS
<1>1. clock \in 0..MaxClock /\ \A i \in Incidents : Reported(i) =>
        incidents[i].domain \in Domains /\ DomainExists(incidents[i].domain)
  BY DEF DomainInv, Housed
<1>2. ASSUME clock' \in 0..MaxClock, UNCHANGED <<domains, incidents, evidence>>
      PROVE  DomainInv' /\ MovesLittle
  BY <1>1, <1>2, DomainsStand DEF Reported
<1>3. CASE UNCHANGED vars \/ Tick
  <2>1. clock' \in 0..MaxClock /\ UNCHANGED <<domains, incidents, evidence>>
    BY <1>1, <1>3, TrustBounds DEF vars, Tick
  <2> QED
    BY <1>2, <2>1
<1>4. ASSUME NEW s \in Startups, ListUnassessed(s) \/ FinishRepairs(s)
      PROVE  DomainInv' /\ MovesLittle
  BY <1>1, <1>2, <1>4 DEF ListUnassessed, FinishRepairs
<1>5. ASSUME NEW i \in Incidents, NEW c \in Responses, ConfirmIncident(i, c)
      PROVE  DomainInv' /\ MovesLittle
  <2>1. c \in Cooperation
    BY InputsTyped
  <2> QED
    BY <1>5, <2>1, ConfirmMovesLittle
<1> QED
  BY <1>3, <1>4, <1>5, RegistryKeeps, TriggerKeeps, IncidentsKeep DEF Next

LEMMA TrustInvariant == Spec => [](EvidenceInv /\ DomainInv)
<1>1. Init => EvidenceInv /\ DomainInv
  BY InitEvidenceInv, InitDomainInv
<1>2. EvidenceInv /\ DomainInv /\ [Next]_vars => (EvidenceInv /\ DomainInv)'
  BY StepEvidenceInv, StepDomainInv
<1> QED
  BY <1>1, <1>2, PTL DEF Spec

\* The tables keep their types, a score stays between 0 and 1, and what was reported was
\* reported of a domain that there is.
THEOREM TypeCorrect == Spec => []TypeOK
<1>1. EvidenceInv /\ DomainInv => TypeOK
  BY DEF EvidenceInv, EvidenceTypeOK, DomainInv, Housed, TypeOK
<1> QED
  BY <1>1, TrustInvariant, PTL

\* TI4: a score has fallen by no more than the evidence that was applied to its domain
\* accounts for, each piece once, and is never above what it was at first.
THEOREM FallAlways == Spec => []FallIsAccountedFor
<1>1. EvidenceInv /\ DomainInv => FallIsAccountedFor
  <2> SUFFICES ASSUME EvidenceInv, DomainInv, NEW d \in Domains, DomainExists(d)
               PROVE  domains[d].initial - domains[d].score
                        \in 0 .. -MapThenSumSet(LAMBDA i : Effect(i, evidence), Applied(d))
    BY DEF FallIsAccountedFor, Applied
  <2>1. MapThenSumSet(LAMBDA i : Effect(i, evidence), Applied(d)) = Sum(Effects(evidence), Applied(d))
    BY AppliedIsReported, SumOfEffects
  <2> QED
    BY <2>1 DEF DomainInv, FallInv
<1> QED
  BY <1>1, TrustInvariant, PTL

\* TI19, 3.6: a step moves a score by .15 at most, and only with evidence of its domain that
\* it applies; applied evidence stays; and a confidence falls only for evidence that is old.
THEOREM MovesAreLittle == Spec => TrustMovesLittle
<1>1. EvidenceInv /\ DomainInv /\ [Next]_vars => [MovesLittle]_vars
  BY StepDomainInv
<1>2. TrustMovesLittle <=> [][MovesLittle]_vars
  BY DEF TrustMovesLittle, MovesLittle
<1> QED
  BY <1>1, <1>2, TrustInvariant, PTL DEF Spec

=============================================================================
