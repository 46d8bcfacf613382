-------------------------------- MODULE Goals --------------------------------
(***************************************************************************)
(* Goal Management: goal_management/repository.py.  A goal has a status    *)
(* and a chain of versions; its content and its ending, other than its     *)
(* completion, change only by the acceptance of a change proposal, of      *)
(* which any number may be pending at once.  A startup expires the         *)
(* overdue ones: it lists them in one transaction and resolves each in     *)
(* another, while users, and other startups, go on resolving them.         *)
(*                                                                         *)
(* Every operation is one transaction.  One that raises has no effect.     *)
(***************************************************************************)
EXTENDS Integers, Sequences, FiniteSets

CONSTANTS
  GoalIds,       \* goals that may be made (bound)
  Proposals,     \* change proposals that may be made (bound)
  Recoveries,    \* startups (bound)
  None,          \* SQL NULL
  Expiries,      \* what proposal_expires_at may be (bound)
  MaxRecords,    \* bound on the evidence and evaluations
  MaxClock       \* bound on time

ASSUME NoneIsNoRow == None \notin GoalIds \union Proposals
ASSUME ContentsDiffer == GoalIds \intersect Proposals = {}
ASSUME ExpiriesType == Expiries \subseteq Nat
ASSUME GoalBounds == MaxRecords \in Nat /\ MaxClock \in Nat

VARIABLES
  clock,
  goals,        \* goals
  versions,     \* goal_versions, append-only; a row's id is its place
  proposals,    \* goal_change_proposals with their contents
  records,      \* goal_evidence and goal_evaluations: how many rows they have
  recoveries    \* the runs of recover_goal_management_state()

vars == <<clock, goals, versions, proposals, records, recoveries>>

\* "no_change" stands for INCREASE_SUPPORT as well: neither has an effect on the goal.
Changes == {"adapt_target", "no_change", "propose_replacement", "propose_abandonment"}

Terminal == {"completed", "abandoned", "replaced"}

GoalRow ==
  [status: {"none", "active", "paused"} \union Terminal,
   current: Nat,    \* current_version_id; there is no foreign key
   replaces: GoalIds \union {None}, archived: BOOLEAN]

\* A title with its target description is named for who first had it, a goal at its
\* creation or a proposal; a trust domain for the goal that was created with it.
VersionRow ==
  [goal: GoalIds, version: Nat, title: GoalIds \union Proposals, domain: GoalIds,
   reason: Proposals \union {None},  \* adaptation_reason: every proposal has its own
   supersedes: Nat]                  \* 0 is NULL

ProposalRow ==
  [status: {"none", "pending", "accepted", "declined", "expired"},
   goal: GoalIds \union {None}, change: Changes,
   titled: BOOLEAN,   \* whether a title is proposed; that of another change is never read
   created: Nat, expires: Nat]

Recovery ==
  [pc: {"idle", "starting", "resolving", "done", "raised"}, now: Nat, left: SUBSET Proposals]

NoGoal == [status |-> "none", current |-> 0, replaces |-> None, archived |-> FALSE]
NoProposal == [status |-> "none", goal |-> None, change |-> "no_change",
               titled |-> FALSE, created |-> 0, expires |-> 0]

Exists(g) == goals[g].status # "none"
Current(g) == versions[goals[g].current]
OwnVersions(g) == {i \in DOMAIN versions : versions[i].goal = g}

----------------------------------------------------------------------------
(* Creation, lifecycle and observations *)

\* Mutant of CreateGoal: the version is left for later.
CreateGoalOnly(g) ==
  /\ ~Exists(g)
  /\ goals' = [goals EXCEPT
       ![g] = [NoGoal EXCEPT !.status = "active", !.current = Len(versions) + 1]]
  /\ UNCHANGED <<clock, versions, proposals, records, recoveries>>

\* create_goal(): the goal and its first version, whose id is made beforehand.
CreateGoal(g) ==
  /\ ~Exists(g)
  /\ goals' = [goals EXCEPT
       ![g] = [NoGoal EXCEPT !.status = "active", !.current = Len(versions) + 1]]
  /\ versions' = Append(versions, [goal |-> g, version |-> 1, title |-> g, domain |-> g,
                                   reason |-> None, supersedes |-> 0])
  /\ UNCHANGED <<clock, proposals, records, recoveries>>

\* _transition_goal()
Transition(g, from, to) ==
  /\ goals[g].status \in from
  /\ goals' = [goals EXCEPT ![g].status = to]
  /\ UNCHANGED <<clock, versions, proposals, records, recoveries>>

PauseGoal(g) == Transition(g, {"active"}, "paused")
ResumeGoal(g) == Transition(g, {"paused"}, "active")

\* complete_goal(): needs no proposal.
CompleteGoal(g) == Transition(g, {"active", "paused"}, "completed")

\* archive_goal(): only a goal that has ended, and that any number of times.
ArchiveGoal(g) ==
  /\ goals[g].status \in Terminal
  /\ goals' = [goals EXCEPT ![g].archived = TRUE]
  /\ UNCHANGED <<clock, versions, proposals, records, recoveries>>

\* record_evidence(): of any goal, whatever its status.  No code reads the rows back.
RecordEvidence(g) ==
  /\ Exists(g) /\ records < MaxRecords
  /\ records' = records + 1
  /\ UNCHANGED <<clock, goals, versions, proposals, recoveries>>

\* record_evaluation(): names at least one piece of evidence; nobody looks the names up.
RecordEvaluation(g) ==
  /\ Exists(g) /\ records < MaxRecords
  /\ records' = records + 1
  /\ UNCHANGED <<clock, goals, versions, proposals, recoveries>>

----------------------------------------------------------------------------
(* Change proposals *)

\* create_change_proposal(): of any goal, ended or not, to expire at any time, past or to come.
CreateChangeProposal(p, g, change, titled, expires) ==
  /\ proposals[p].status = "none" /\ Exists(g)
  /\ titled => change \in {"adapt_target", "propose_replacement"}
  /\ proposals' = [proposals EXCEPT ![p] = [status |-> "pending", goal |-> g, change |-> change,
                                            titled |-> titled, created |-> clock, expires |-> expires]]
  /\ UNCHANGED <<clock, goals, versions, records, recoveries>>

\* Mutant of Resolve: the status is not looked at.
ResolveAgain(p, resolution) ==
  /\ proposals[p].status # "none"
  /\ proposals' = [proposals EXCEPT ![p].status = resolution]

\* A resolution is of a PENDING proposal, overdue or not; of any other it raises.
Resolve(p, resolution) ==
  /\ proposals[p].status = "pending"
  /\ proposals' = [proposals EXCEPT ![p].status = resolution]

\* The content that was proposed, where there is none that of the current version.
ProposedTitle(p, g) == IF proposals[p].titled THEN p ELSE Current(g).title

\* Mutant of Adapt: the goal is left at the version that was superseded.
AdaptVersionOnly(p, g) ==
  /\ goals[g].status = "active"
  /\ versions' = Append(versions,
       [goal |-> g, version |-> Current(g).version + 1, title |-> ProposedTitle(p, g),
        domain |-> Current(g).domain, reason |-> p, supersedes |-> goals[g].current])
  /\ goals' = goals

\* _apply_adaptation_in_transaction()
Adapt(p, g) ==
  /\ goals[g].status = "active"
  /\ versions' = Append(versions,
       [goal |-> g, version |-> Current(g).version + 1, title |-> ProposedTitle(p, g),
        domain |-> Current(g).domain, reason |-> p, supersedes |-> goals[g].current])
  /\ goals' = [goals EXCEPT ![g].current = Len(versions) + 1]

\* The goal that replaces g: a goal of its own, with a first version.
Successor(p, g, h) ==
  /\ ~Exists(h)
  /\ versions' = Append(versions, [goal |-> h, version |-> 1, title |-> ProposedTitle(p, g),
                                   domain |-> Current(g).domain, reason |-> None, supersedes |-> 0])
  /\ goals' = [goals EXCEPT
       ![g].status = "replaced",
       ![h] = [NoGoal EXCEPT !.status = "active", !.current = Len(versions) + 1, !.replaces = g]]

\* Mutant of Replace: also a goal that has ended.
ReplaceAny(p, g) == Exists(g) /\ \E h \in GoalIds : Successor(p, g, h)

\* _apply_replacement_in_transaction()
Replace(p, g) == goals[g].status \in {"active", "paused"} /\ \E h \in GoalIds : Successor(p, g, h)

\* _apply_abandonment_in_transaction()
Abandon(g) ==
  /\ goals[g].status \in {"active", "paused"}
  /\ goals' = [goals EXCEPT ![g].status = "abandoned"]
  /\ UNCHANGED versions

\* accept_proposal(): where the goal's status does not permit the change the whole
\* transaction is rolled back and the proposal stays pending.
AcceptProposal(p) ==
  /\ Resolve(p, "accepted")
  /\ LET g == proposals[p].goal IN
       \/ proposals[p].change = "adapt_target" /\ Adapt(p, g)
       \/ proposals[p].change = "propose_replacement" /\ Replace(p, g)
       \/ proposals[p].change = "propose_abandonment" /\ Abandon(g)
       \/ proposals[p].change = "no_change" /\ UNCHANGED <<goals, versions>>
  /\ UNCHANGED <<clock, records, recoveries>>

\* decline_proposal()
DeclineProposal(p) ==
  /\ Resolve(p, "declined")
  /\ UNCHANGED <<clock, goals, versions, records, recoveries>>

----------------------------------------------------------------------------
(* recover_goal_management_state() *)

\* on_system_startup() reads the clock, and recovers two other modules first.
StartRecovery(r) ==
  /\ recoveries[r].pc = "idle"
  /\ recoveries' = [recoveries EXCEPT ![r] = [@ EXCEPT !.pc = "starting", !.now = clock]]
  /\ UNCHANGED <<clock, goals, versions, proposals, records>>

\* Mutant of Overdue: `<' for `<='.
OverdueLater(now) == {p \in Proposals : proposals[p].status = "pending" /\ proposals[p].expires < now}

\* The WHERE clause of the listing.
Overdue(now) == {p \in Proposals : proposals[p].status = "pending" /\ proposals[p].expires <= now}

ListOverdue(r) ==
  /\ recoveries[r].pc = "starting"
  /\ recoveries' = [recoveries EXCEPT ![r] =
                      [@ EXCEPT !.pc = "resolving", !.left = Overdue(recoveries[r].now)]]
  /\ UNCHANGED <<clock, goals, versions, proposals, records>>

\* _resolve_proposal_without_effect(), in a transaction of its own: a proposal that
\* was resolved since the listing raises, and the startup with it.
ExpireListed(r, p) ==
  /\ recoveries[r].pc = "resolving" /\ p \in recoveries[r].left
  /\ \/ /\ Resolve(p, "expired")
        /\ recoveries' = [recoveries EXCEPT ![r].left = @ \ {p}]
     \/ /\ proposals[p].status # "pending"
        /\ recoveries' = [recoveries EXCEPT ![r] = [pc |-> "raised", now |-> 0, left |-> {}]]
        /\ UNCHANGED proposals
  /\ UNCHANGED <<clock, goals, versions, records>>

FinishRecovery(r) ==
  /\ recoveries[r].pc = "resolving" /\ recoveries[r].left = {}
  /\ recoveries' = [recoveries EXCEPT ![r].pc = "done"]
  /\ UNCHANGED <<clock, goals, versions, proposals, records>>

----------------------------------------------------------------------------

Init ==
  /\ clock = 0
  /\ goals = [g \in GoalIds |-> NoGoal]
  /\ versions = <<>>
  /\ proposals = [p \in Proposals |-> NoProposal]
  /\ records = 0
  /\ recoveries = [r \in Recoveries |-> [pc |-> "idle", now |-> 0, left |-> {}]]

Tick ==
  /\ clock < MaxClock
  /\ clock' = clock + 1
  /\ UNCHANGED <<goals, versions, proposals, records, recoveries>>

Next ==
  \/ Tick
  \/ \E g \in GoalIds :
       \/ CreateGoal(g) \/ PauseGoal(g) \/ ResumeGoal(g) \/ CompleteGoal(g) \/ ArchiveGoal(g)
       \/ RecordEvidence(g) \/ RecordEvaluation(g)
       \/ \E p \in Proposals, change \in Changes, titled \in BOOLEAN, expires \in Expiries :
            CreateChangeProposal(p, g, change, titled, expires)
  \/ \E p \in Proposals : AcceptProposal(p) \/ DeclineProposal(p)
  \/ \E r \in Recoveries :
       \/ StartRecovery(r) \/ ListOverdue(r) \/ FinishRecovery(r)
       \/ \E p \in Proposals : ExpireListed(r, p)

Spec == Init /\ [][Next]_vars

----------------------------------------------------------------------------

\* The types of the tables, and every id one row keeps of another is that of a row.
TypeOK ==
  /\ clock \in 0..MaxClock
  /\ goals \in [GoalIds -> GoalRow]
  /\ versions \in Seq(VersionRow)
  /\ proposals \in [Proposals -> ProposalRow]
  /\ records \in 0..MaxRecords
  /\ recoveries \in [Recoveries -> Recovery]
  /\ \A g \in GoalIds : Exists(g) => goals[g].current \in DOMAIN versions
  /\ \A p \in Proposals : proposals[p].status # "none" =>
       proposals[p].goal \in GoalIds /\ Exists(proposals[p].goal)

\* GOAL-5: adapting never edits a version.  The versions of a goal are numbered from 1
\* without a gap or a repetition, though no index of migration 010 says so; each
\* supersedes the one before, in the same trust domain, and the goal is at the last.
VersionsFormAChain ==
  \A g \in GoalIds : Exists(g) =>
    /\ Current(g).goal = g
    /\ \A i \in OwnVersions(g) : versions[i].version <= Current(g).version
    /\ {versions[i].version : i \in OwnVersions(g)} = 1 .. Cardinality(OwnVersions(g))
    /\ \A i \in OwnVersions(g) : versions[i].version > 1 =>
         LET before == versions[i].supersedes IN
           /\ before \in OwnVersions(g)
           /\ versions[before].version = versions[i].version - 1
           /\ versions[before].domain = versions[i].domain

\* GOAL-6: an accepted adaptation is applied exactly once, with exactly the content that
\* was proposed, however many proposals of the goal were accepted before it; and no
\* version beyond a goal's first came about otherwise.
AcceptedOnceAsProposed ==
  /\ \A p \in Proposals :
       proposals[p].status = "accepted" /\ proposals[p].change = "adapt_target" =>
         \E i \in DOMAIN versions : versions[i].reason = p
  /\ \A i \in DOMAIN versions :
       LET p == versions[i].reason IN
         /\ versions[i].version > 1 <=> p # None
         /\ p # None =>
              /\ proposals[p].status = "accepted" /\ proposals[p].change = "adapt_target"
              /\ proposals[p].goal = versions[i].goal
              /\ versions[i].title =
                   IF proposals[p].titled THEN p ELSE versions[versions[i].supersedes].title
              /\ \A j \in DOMAIN versions : versions[j].reason = p => j = i

\* GOAL-6: a goal is abandoned, or replaced, by one accepted proposal, and one goal at
\* most takes its place: with several proposals pending only one of them ends it.
EndedOnceByProposal ==
  \A g \in GoalIds :
    LET agreed(change) == {p \in Proposals : /\ proposals[p].status = "accepted"
                                             /\ proposals[p].goal = g
                                             /\ proposals[p].change = change}
        heirs == {h \in GoalIds : goals[h].replaces = g}
        is(status) == IF goals[g].status = status THEN 1 ELSE 0 IN
      /\ Cardinality(agreed("propose_abandonment")) = is("abandoned")
      /\ Cardinality(agreed("propose_replacement")) = is("replaced")
      /\ Cardinality(heirs) = is("replaced")

\* Section 9.3: when a startup is through, no proposal of an earlier time that was overdue
\* at its `now' is still pending, whoever resolved it and whoever else was starting up, so
\* that none can be accepted any more; and none was expired before its time.
StartupsSettleOverdue ==
  /\ \A r \in Recoveries, p \in Proposals :
       /\ recoveries[r].pc = "done" /\ proposals[p].status = "pending"
       /\ proposals[p].created < recoveries[r].now
       => proposals[p].expires > recoveries[r].now
  /\ \A p \in Proposals : proposals[p].status = "expired" => proposals[p].expires <= clock

=============================================================================
