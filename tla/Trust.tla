--------------------------------- MODULE Trust ---------------------------------
(***************************************************************************)
(* The Trust Manager: trust_manager/repository.py.  Users report incidents *)
(* of a trust domain and move their confirmation, up or down.  Confirming  *)
(* one assesses it, writes its evidence and lowers the domain's score by   *)
(* all evidence not yet applied, in one transaction.  A startup repairs    *)
(* the confirmed incidents without an assessment that older versions left: *)
(* it lists them in one transaction and repairs each in another, while     *)
(* users, and other startups, go on.                                       *)
(*                                                                         *)
(* Every operation is one transaction.  One that raises has no effect.     *)
(***************************************************************************)
EXTENDS TrustRubric, FiniteSetsExt

CONSTANTS
  Domains,        \* trust domains that may be created (bound)
  Incidents,      \* incidents that may be reported (bound)
  Startups,       \* runs of recover_trust_manager_state() (bound)
  Legacy,         \* incidents an older version confirmed without assessing them
  LegacyDomain,   \* their domain
  Reports,        \* the evidence an incident may be reported with (bound)
  Responses,      \* the cooperation it may be confirmed with (bound)
  InitialScores,  \* a domain's default score, and the overrides of it (bound)
  Window,         \* CONFIDENCE_ROLLING_WINDOW_DAYS
  None,           \* SQL NULL
  MaxClock        \* bound on time

ASSUME LegacyIsReported == Legacy \subseteq Incidents /\ LegacyDomain \in Domains
ASSUME InputsTyped == /\ Reports \subseteq Evidence
                      /\ Responses \subseteq Cooperation
                      /\ InitialScores \subseteq 0..MaxScore
ASSUME FiniteIncidents == IsFiniteSet(Incidents)
ASSUME NoneIsNoDatum ==
  None \notin Domains /\ None \notin Reports /\ None \notin Range(Severities) /\ None \notin Nat
ASSUME TrustBounds == Window \in Nat /\ MaxClock \in Nat

VARIABLES
  clock,
  domains,     \* trust_domains with trust_domain_state
  incidents,   \* incidents
  evidence,    \* trust_evidence, one row an incident at most (UNIQUE), and whether a
               \* row of trust_recalculation_evidence applies it
  startups     \* the runs of recover_trust_manager_state()

vars == <<clock, domains, incidents, evidence, startups>>

\* The confidence is kept as the number of pieces of evidence it is computed from, from
\* which it follows; None is the confidence a domain is created with.
DomainRow ==
  [status: {"none", "active", "inactive"}, initial: 0..MaxScore, score: 0..MaxScore,
   support: Nat \union {None}]

\* "unconfirmed" stands for PROVISIONAL as well: no code tells them apart.
Confirmations == {"unconfirmed", "confirmed"}

IncidentRow ==
  [confirmation: {"none"} \union Confirmations, domain: Domains \union {None},
   report: Reports \union {None},
   severity: Range(Severities) \union {None}, cooperation: Cooperation]

\* No weight is 0: that stands for no row.
EvidenceRow == [weight: (-100)..0, at: Nat, applied: BOOLEAN]

Startup ==
  [pc: {"idle", "repairing", "done", "raised"}, now: Nat, left: SUBSET Incidents]

NoDomain == [status |-> "none", initial |-> 0, score |-> 0, support |-> None]
NoIncident == [confirmation |-> "none", domain |-> None, report |-> None,
               severity |-> None, cooperation |-> NoCooperation]
NoEvidence == [weight |-> 0, at |-> 0, applied |-> FALSE]

DomainExists(d) == domains[d].status # "none"
Reported(i) == incidents[i].confirmation # "none"

----------------------------------------------------------------------------
(* The domain registry *)

\* create_domain(): the override is part of the consent.
CreateDomain(d, score) ==
  /\ ~DomainExists(d)
  /\ domains' = [domains EXCEPT ![d] = [status |-> "active", initial |-> score, score |-> score,
                                        support |-> None]]
  /\ UNCHANGED <<clock, incidents, evidence, startups>>

\* deactivate_domain(): of a domain in any state.  No operation looks at is_active.
DeactivateDomain(d) ==
  /\ DomainExists(d)
  /\ domains' = [domains EXCEPT ![d].status = "inactive"]
  /\ UNCHANGED <<clock, incidents, evidence, startups>>

\* reactivate_domain()
ReactivateDomain(d) ==
  /\ DomainExists(d)
  /\ domains' = [domains EXCEPT ![d].status = "active"]
  /\ UNCHANGED <<clock, incidents, evidence, startups>>

----------------------------------------------------------------------------
(* Recalculation *)

\* The effective weight of i's evidence.
Effect(i, rows) ==
  EffectiveWeight(rows[i].weight, EvidenceConfidence[incidents[i].report.confidence])

\* Mutant of Unconsumed: evidence that was applied before counts again.
UnconsumedOrNot(d, rows) == {i \in Incidents : incidents[i].domain = d /\ rows[i].weight # 0}

\* _select_unconsumed_evidence()
Unconsumed(d, rows) ==
  {i \in Incidents : incidents[i].domain = d /\ rows[i].weight # 0 /\ ~rows[i].applied}

\* _select_applied_evidence_in_window(), of the evidence's own date
AppliedInWindow(d, rows) ==
  {i \in Incidents : incidents[i].domain = d /\ rows[i].applied /\ rows[i].at >= clock - Window}

\* compute_confidence() grows with the number of pieces, and only with it.
ComputeConfidence(applied) == Cardinality(applied)

\* _recalculate_domain_trust_in_transaction(), where trust_evidence holds `rows': with no
\* evidence to apply it only brings the confidence up to date.
Recalculate(d, rows) ==
  LET applying == Unconsumed(d, rows)
      delta == MapThenSumSet(LAMBDA i : Effect(i, rows), applying)
  IN /\ evidence' = [i \in Incidents |->
                       IF i \in applying THEN [rows[i] EXCEPT !.applied = TRUE] ELSE rows[i]]
     /\ domains' = [domains EXCEPT
          ![d].score = ApplyRecalculation(@, delta),
          ![d].support = ComputeConfidence(AppliedInWindow(d, evidence'))]

\* recalculate_domain_trust(): another trigger.
RecalculateDomainTrust(d) ==
  /\ DomainExists(d)
  /\ Recalculate(d, evidence)
  /\ UNCHANGED <<clock, incidents, startups>>

----------------------------------------------------------------------------
(* Incidents *)

\* Mutant of RegisterIncidentReport: the domain is not looked up.
RegisterAnywhere(i, d, report) ==
  /\ ~Reported(i)
  /\ incidents' = [incidents EXCEPT ![i] = [NoIncident EXCEPT !.confirmation = "unconfirmed",
                                                              !.domain = d, !.report = report]]
  /\ UNCHANGED <<clock, domains, evidence, startups>>

\* register_incident_report(): of a domain that exists (foreign key), active or not.
RegisterIncidentReport(i, d, report) ==
  /\ ~Reported(i) /\ DomainExists(d)
  /\ incidents' = [incidents EXCEPT ![i] = [NoIncident EXCEPT !.confirmation = "unconfirmed",
                                                              !.domain = d, !.report = report]]
  /\ UNCHANGED <<clock, domains, evidence, startups>>

\* _update_incident_assessment()
Assessed(i, c) == [incidents[i] EXCEPT !.severity = AssessSeverity(incidents[i].report),
                                       !.cooperation = c]

\* _insert_trust_evidence_for_incident(): the table with i's row.
WithEvidence(i, c, now) ==
  [evidence EXCEPT ![i] = [weight |-> RawWeightForIncident(AssessSeverity(incidents[i].report), c),
                           at |-> now, applied |-> FALSE]]

\* confirm_incident() to a level below CONFIRMED, from any: an assessment there is stays.
MoveConfirmation(i, level) ==
  /\ Reported(i) /\ level # "confirmed"
  /\ incidents' = [incidents EXCEPT ![i].confirmation = level]
  /\ UNCHANGED <<clock, domains, evidence, startups>>

\* Mutant of ConfirmIncident: the evidence is left to another transaction.
ConfirmAndAssess(i, c) ==
  /\ Reported(i) /\ evidence[i].weight = 0
  /\ incidents' = [incidents EXCEPT ![i] = [Assessed(i, c) EXCEPT !.confirmation = "confirmed"]]
  /\ UNCHANGED <<clock, domains, evidence, startups>>

\* confirm_incident(new_confirmation=CONFIRMED), from any level: assessment, evidence and
\* recalculation.  A second row of evidence violates the UNIQUE constraint and raises.
ConfirmIncident(i, c) ==
  /\ Reported(i) /\ evidence[i].weight = 0
  /\ incidents' = [incidents EXCEPT ![i] = [Assessed(i, c) EXCEPT !.confirmation = "confirmed"]]
  /\ Recalculate(incidents[i].domain, WithEvidence(i, c, clock))
  /\ UNCHANGED <<clock, startups>>

----------------------------------------------------------------------------
(* recover_trust_manager_state() *)

\* get_confirmed_incidents_with_null_assessment()
ListUnassessed(s) ==
  /\ startups[s].pc = "idle"
  /\ startups' = [startups EXCEPT ![s] =
       [pc |-> "repairing", now |-> clock,
        left |-> {i \in Incidents :
                    incidents[i].confirmation = "confirmed" /\ incidents[i].severity = None}]]
  /\ UNCHANGED <<clock, domains, incidents, evidence>>

\* The repair of one, whatever became of it since the listing.  If it has evidence by now
\* the transaction raises, and the startup with it.  Nothing is recalculated.
Repair(s, i) ==
  /\ startups[s].pc = "repairing" /\ i \in startups[s].left
  /\ \/ /\ evidence[i].weight = 0
        /\ incidents' = [incidents EXCEPT ![i] = Assessed(i, NoCooperation)]
        /\ evidence' = WithEvidence(i, NoCooperation, startups[s].now)
        /\ startups' = [startups EXCEPT ![s].left = @ \ {i}]
     \/ /\ evidence[i].weight # 0
        /\ startups' = [startups EXCEPT ![s] = [pc |-> "raised", now |-> 0, left |-> {}]]
        /\ UNCHANGED <<incidents, evidence>>
  /\ UNCHANGED <<clock, domains>>

FinishRepairs(s) ==
  /\ startups[s].pc = "repairing" /\ startups[s].left = {}
  /\ startups' = [startups EXCEPT ![s].pc = "done"]
  /\ UNCHANGED <<clock, domains, incidents, evidence>>

----------------------------------------------------------------------------

\* The database a first startup finds may be an older version's.
Init ==
  /\ clock = 0
  /\ \E score \in InitialScores :
       domains = [d \in Domains |-> IF Legacy # {} /\ d = LegacyDomain
                    THEN [status |-> "active", initial |-> score, score |-> score, support |-> None]
                    ELSE NoDomain]
  /\ \E report \in Reports :
       incidents = [i \in Incidents |-> IF i \in Legacy
                      THEN [NoIncident EXCEPT !.confirmation = "confirmed", !.domain = LegacyDomain,
                                              !.report = report]
                      ELSE NoIncident]
  /\ evidence = [i \in Incidents |-> NoEvidence]
  /\ startups = [s \in Startups |-> [pc |-> "idle", now |-> 0, left |-> {}]]

Tick ==
  /\ clock < MaxClock
  /\ clock' = clock + 1
  /\ UNCHANGED <<domains, incidents, evidence, startups>>

Next ==
  \/ Tick
  \/ \E d \in Domains :
       \/ \E score \in InitialScores : CreateDomain(d, score)
       \/ DeactivateDomain(d) \/ ReactivateDomain(d) \/ RecalculateDomainTrust(d)
       \/ \E i \in Incidents, report \in Reports : RegisterIncidentReport(i, d, report)
  \/ \E i \in Incidents :
       \/ \E level \in Confirmations : MoveConfirmation(i, level)
       \/ \E c \in Responses : ConfirmIncident(i, c)
  \/ \E s \in Startups :
       \/ ListUnassessed(s) \/ FinishRepairs(s)
       \/ \E i \in Incidents : Repair(s, i)

Spec == Init /\ [][Next]_vars

----------------------------------------------------------------------------

\* The types of the tables; an incident's domain exists, and so does that of its evidence.
TypeOK ==
  /\ clock \in 0..MaxClock
  /\ domains \in [Domains -> DomainRow]
  /\ incidents \in [Incidents -> IncidentRow]
  /\ evidence \in [Incidents -> EvidenceRow]
  /\ startups \in [Startups -> Startup]
  /\ \A i \in Incidents :
       Reported(i) => incidents[i].domain \in Domains /\ DomainExists(incidents[i].domain)

\* TI23, TI24: an incident is assessed if and only if it has its one piece of evidence, of
\* the weight that follows from its report and the cooperation on record, however it was
\* confirmed, demoted, confirmed again or repaired, and by however many startups; and once
\* one startup is through, no confirmed incident is left without.
AssessedWithEvidence ==
  \A i \in Incidents :
    LET severity == incidents[i].severity IN
      /\ severity # None <=> evidence[i].weight # 0
      /\ severity # None =>
           /\ severity = AssessSeverity(incidents[i].report)
           /\ evidence[i].weight = RawWeightForIncident(severity, incidents[i].cooperation)
      /\ incidents[i].confirmation = "confirmed" /\ severity = None =>
           i \in Legacy /\ \A s \in Startups : startups[s].pc # "done"

\* TI4: evidence is applied at most once.  A domain's score has fallen by no more than the
\* evidence applied to it accounts for, though what the cap of a recalculation cuts off is
\* never made up for; and it never rises, since there is only evidence of incidents.
FallIsAccountedFor ==
  \A d \in Domains : DomainExists(d) =>
    LET applied == {i \in Incidents : incidents[i].domain = d /\ evidence[i].applied} IN
      domains[d].initial - domains[d].score
        \in 0 .. -MapThenSumSet(LAMBDA i : Effect(i, evidence), applied)

\* TI19: in one step a score moves by .15 at most, whatever the evidence; it moves only
\* where evidence of its own domain is applied in that step, and applied evidence stays so.
\* 3.6: once computed, a confidence falls only because of evidence that became too old.
TrustMovesLittle ==
  [][\A d \in Domains : DomainExists(d) =>
       LET fall == domains[d].score - domains[d].score'
           own == {i \in Incidents : incidents[i].domain = d}
           support == domains[d].support
       IN /\ fall \in 0..MaxAbsoluteDelta
          /\ fall > 0 => \E i \in own : evidence'[i].applied /\ ~evidence[i].applied
          /\ \A i \in own : evidence[i].applied => evidence'[i] = evidence[i]
          /\ support # None /\ domains'[d].support < support =>
               \E i \in own : evidence[i].applied /\ evidence[i].at < clock - Window]_vars

=============================================================================
