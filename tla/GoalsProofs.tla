----------------------------- MODULE GoalsProofs -----------------------------
(***************************************************************************)
(* Goals, their versions, their proposals and the startups that expire     *)
(* them, for any number of each.                                           *)
(***************************************************************************)
EXTENDS Goals, FiniteSetTheorems, SequenceTheorems, TLAPS

\* What is not a goal has no row, and no version.
RowsInv ==
  /\ \A g \in GoalIds : ~Exists(g) => goals[g] = NoGoal
  /\ \A i \in DOMAIN versions : Exists(versions[i].goal)

\* VersionsFormAChain, of one goal.
Chain(g) ==
  /\ Current(g).goal = g
  /\ \A i \in OwnVersions(g) : versions[i].version <= Current(g).version
  /\ {versions[i].version : i \in OwnVersions(g)} = 1 .. Cardinality(OwnVersions(g))
  /\ \A i \in OwnVersions(g) : versions[i].version > 1 =>
       LET before == versions[i].supersedes IN
         /\ before \in OwnVersions(g)
         /\ versions[before].version = versions[i].version - 1
         /\ versions[before].domain = versions[i].domain

Agreed(g, change) ==
  {p \in Proposals : /\ proposals[p].status = "accepted"
                     /\ proposals[p].goal = g
                     /\ proposals[p].change = change}

Heirs(g) == {h \in GoalIds : goals[h].replaces = g}

OneIf(condition, S) == IF condition THEN \E x : S = {x} ELSE S = {}

\* EndedOnceByProposal, as a property of sets that need not be finite.
EndingInv ==
  \A g \in GoalIds :
    /\ OneIf(goals[g].status = "abandoned", Agreed(g, "propose_abandonment"))
    /\ OneIf(goals[g].status = "replaced", Agreed(g, "propose_replacement"))
    /\ OneIf(goals[g].status = "replaced", Heirs(g))

\* The overdue proposals of an earlier time.
OverdueBefore(now) == {p \in Overdue(now) : proposals[p].created < now}

\* What a startup is about to resolve was overdue when it listed it; what is overdue and
\* pending still is about to be resolved, unless it was not there yet.
RecoveryInv ==
  \A r \in Recoveries :
    /\ recoveries[r].now <= clock
    /\ recoveries[r].pc = "idle" => recoveries[r].left = {}
    /\ \A p \in recoveries[r].left :
         proposals[p].status # "none" /\ proposals[p].expires <= recoveries[r].now
    /\ recoveries[r].pc = "resolving" => OverdueBefore(recoveries[r].now) \subseteq recoveries[r].left

IInv ==
  /\ TypeOK /\ RowsInv /\ VersionsFormAChain /\ AcceptedOnceAsProposed /\ EndingInv
  /\ RecoveryInv /\ StartupsSettleOverdue

----------------------------------------------------------------------------
(* What the operations do *)

\* VersionsFormAChain is a chain for every goal there is.
LEMMA ChainsOfAll == VersionsFormAChain <=> \A g \in GoalIds : Exists(g) => Chain(g)
BY DEF VersionsFormAChain, Chain

\* The parts of the tables.
LEMMA RowsTyped ==
  ASSUME TypeOK
  PROVE  /\ clock \in Nat
         /\ \A g \in GoalIds : goals[g] \in GoalRow
         /\ DOMAIN versions = 1..Len(versions) /\ Len(versions) \in Nat
         /\ \A i \in DOMAIN versions : versions[i] \in VersionRow
         /\ \A p \in Proposals : proposals[p] \in ProposalRow
         /\ \A r \in Recoveries : recoveries[r] \in Recovery
         /\ \A g \in GoalIds : Exists(g) => Current(g) \in VersionRow
<1>1. clock \in Nat
  BY GoalBounds DEF TypeOK
<1>2. DOMAIN versions = 1..Len(versions) /\ Len(versions) \in Nat
  BY LenProperties DEF TypeOK
<1>3. \A i \in DOMAIN versions : versions[i] \in VersionRow
  BY <1>2, ElementOfSeq DEF TypeOK
<1>4. \A g \in GoalIds : Exists(g) => Current(g) \in VersionRow
  BY <1>3 DEF TypeOK, Current
<1> QED
  BY <1>1, <1>2, <1>3, <1>4 DEF TypeOK

\* A version is appended; those there are stay, which is all that keeps history.
Appended(row) ==
  /\ versions' \in Seq(VersionRow)
  /\ DOMAIN versions' = DOMAIN versions \union {Len(versions) + 1}
  /\ Len(versions) + 1 \notin DOMAIN versions
  /\ \A i \in DOMAIN versions : versions'[i] = versions[i]
  /\ versions'[Len(versions) + 1] = row

LEMMA AppendIsAppended ==
  ASSUME TypeOK, NEW row \in VersionRow, versions' = Append(versions, row)
  PROVE  Appended(row)
<1>1. /\ versions' \in Seq(VersionRow) /\ Len(versions') = Len(versions) + 1
      /\ \A i \in 1..Len(versions) : versions'[i] = versions[i]
      /\ versions'[Len(versions) + 1] = row
  BY AppendProperties DEF TypeOK
<1>2. /\ DOMAIN versions = 1..Len(versions) /\ Len(versions) \in Nat
      /\ DOMAIN versions' = 1..Len(versions')
  BY <1>1, LenProperties DEF TypeOK
<1> QED
  BY <1>1, <1>2 DEF Appended

----------------------------------------------------------------------------
(* Types *)

LEMMA InitIInv == Init => IInv
<1> SUFFICES ASSUME Init PROVE IInv
  OBVIOUS
<1>1. versions = <<>> /\ DOMAIN versions = {} /\ versions \in Seq(VersionRow)
  BY EmptySeq, LenProperties DEF Init
<1>2. TypeOK
  BY <1>1, GoalBounds DEF Init, TypeOK, NoGoal, NoProposal, GoalRow, ProposalRow, Recovery, Exists,
     Changes, Terminal
<1>3. RowsInv /\ VersionsFormAChain /\ AcceptedOnceAsProposed
  BY <1>1 DEF Init, RowsInv, VersionsFormAChain, AcceptedOnceAsProposed, NoGoal, NoProposal, Exists
<1>4. EndingInv
  BY NoneIsNoRow DEF Init, EndingInv, OneIf, Agreed, Heirs, NoGoal, NoProposal
<1>5. RecoveryInv /\ StartupsSettleOverdue
  BY DEF Init, RecoveryInv, StartupsSettleOverdue, NoProposal
<1> QED
  BY <1>2, <1>3, <1>4, <1>5 DEF IInv

----------------------------------------------------------------------------
(* Chains of versions *)

\* A chain does not notice the versions of other goals.
LEMMA ChainKept ==
  ASSUME TypeOK, NEW g \in GoalIds, Exists(g), Chain(g), goals'[g].current = goals[g].current,
         versions' = versions \/ (\E row \in VersionRow : Appended(row) /\ row.goal # g)
  PROVE  Chain(g)'
<1>1. /\ goals[g].current \in DOMAIN versions
      /\ \A i \in DOMAIN versions : i \in DOMAIN versions' /\ versions'[i] = versions[i]
      /\ OwnVersions(g)' = OwnVersions(g)
  BY DEF TypeOK, Appended, OwnVersions
<1>2. Current(g)' = Current(g) /\ OwnVersions(g) \subseteq DOMAIN versions
  BY <1>1 DEF Current, OwnVersions
<1>3. {versions'[i].version : i \in OwnVersions(g)} = {versions[i].version : i \in OwnVersions(g)}
  BY <1>1, <1>2
<1> HIDE DEF Current
<1> QED
  BY <1>1, <1>2, <1>3 DEF Chain

\* A goal that is made starts a chain of one.
LEMMA ChainStarts ==
  ASSUME IInv, NEW g \in GoalIds, ~Exists(g), NEW row \in VersionRow, Appended(row),
         row.goal = g, row.version = 1, goals'[g].current = Len(versions) + 1
  PROVE  Chain(g)'
<1>1. OwnVersions(g)' = {Len(versions) + 1} /\ Current(g)' = row
  BY DEF IInv, RowsInv, Exists, Appended, OwnVersions, Current
<1>2. Cardinality({Len(versions) + 1}) = 1 /\ versions'[Len(versions) + 1] = row
  BY FS_Singleton DEF Appended
<1>3. {versions'[i].version : i \in {Len(versions) + 1}} = 1..1
  BY <1>2
<1> QED
  BY <1>1, <1>2, <1>3 DEF Chain

\* The versions of a goal are as many as the number of the current one.
LEMMA CurrentIsLast ==
  ASSUME TypeOK, NEW g \in GoalIds, Exists(g), Chain(g)
  PROVE  /\ IsFiniteSet(OwnVersions(g)) /\ Cardinality(OwnVersions(g)) = Current(g).version
         /\ Current(g).version \in Nat \ {0}
         /\ goals[g].current \in OwnVersions(g)
<1>1. IsFiniteSet(OwnVersions(g)) /\ Cardinality(OwnVersions(g)) \in Nat
  <2>1. IsFiniteSet(DOMAIN versions)
    BY RowsTyped, FS_Interval
  <2> QED
    BY <2>1, FS_Subset, FS_CardinalityType DEF OwnVersions
<1>2. goals[g].current \in OwnVersions(g) /\ Current(g).version \in Nat
  BY RowsTyped DEF TypeOK, Chain, OwnVersions, Current, VersionRow
<1>3. Current(g).version \in 1..Cardinality(OwnVersions(g))
  BY <1>2 DEF Chain, Current
<1>4. Cardinality(OwnVersions(g)) <= Current(g).version
  <2>1. Cardinality(OwnVersions(g)) \in {versions[i].version : i \in OwnVersions(g)}
    BY <1>1, <1>3 DEF Chain
  <2> QED
    BY <2>1 DEF Chain
<1> QED
  BY <1>1, <1>2, <1>3, <1>4

\* An adaptation makes the chain longer by one.
LEMMA ChainGrows ==
  ASSUME TypeOK, NEW g \in GoalIds, Exists(g), Chain(g), NEW row \in VersionRow, Appended(row),
         row.goal = g, row.version = Current(g).version + 1, row.domain = Current(g).domain,
         row.supersedes = goals[g].current, goals'[g].current = Len(versions) + 1
  PROVE  Chain(g)'
<1> DEFINE new == Len(versions) + 1
           N == Cardinality(OwnVersions(g))
<1>1. /\ OwnVersions(g)' = OwnVersions(g) \union {new} /\ new \notin OwnVersions(g)
      /\ Current(g)' = row /\ versions'[new] = row
      /\ \A i \in OwnVersions(g) : versions'[i] = versions[i]
  BY DEF Appended, OwnVersions, Current
<1>2. /\ IsFiniteSet(OwnVersions(g)) /\ N = Current(g).version /\ N \in Nat \ {0}
      /\ goals[g].current \in OwnVersions(g)
  BY CurrentIsLast
<1>3. Cardinality(OwnVersions(g) \union {new}) = N + 1
  BY <1>1, <1>2, FS_AddElement
<1> HIDE DEF new, N
<1>4. {versions'[i].version : i \in OwnVersions(g) \union {new}}
        = {versions[i].version : i \in OwnVersions(g)} \union {N + 1}
  BY <1>1, <1>2
<1>5. {versions[i].version : i \in OwnVersions(g)} = 1..N
  BY DEF Chain, N
<1>6. {versions'[i].version : i \in OwnVersions(g) \union {new}} = 1..(N + 1)
  <2>1. 1..(N + 1) = (1..N) \union {N + 1}
    BY <1>2
  <2> QED
    BY <1>4, <1>5, <2>1
<1>7. ASSUME NEW i \in OwnVersions(g) PROVE versions'[i].version <= N + 1
  <2>1. versions[i].version \in 1..N
    BY <1>5
  <2> QED
    BY <1>1, <1>2, <2>1
<1>8. ASSUME NEW i \in OwnVersions(g), versions'[i].version > 1
      PROVE  /\ versions'[i].supersedes \in OwnVersions(g)
             /\ versions'[versions'[i].supersedes].version = versions'[i].version - 1
             /\ versions'[versions'[i].supersedes].domain = versions'[i].domain
  BY <1>1, <1>8 DEF Chain
<1>9. /\ versions'[new].supersedes \in OwnVersions(g)
      /\ versions'[versions'[new].supersedes] = Current(g)
      /\ Current(g).version = versions'[new].version - 1
      /\ Current(g).domain = versions'[new].domain
  BY <1>1, <1>2 DEF Current
<1>10. row.goal = g /\ row.version = N + 1
  BY <1>2
<1> QED
  BY <1>1, <1>3, <1>6, <1>7, <1>8, <1>9, <1>10 DEF Chain

\* An operation that leaves the goals and their versions alone.
LEMMA HistoryKept ==
  ASSUME TypeOK, RowsInv, VersionsFormAChain, UNCHANGED <<goals, versions>>
  PROVE  RowsInv' /\ VersionsFormAChain'
<1>1. RowsInv'
  BY DEF RowsInv, Exists
<1>2. ASSUME NEW g \in GoalIds, Exists(g)' PROVE Chain(g)'
  <2>1. Exists(g) /\ Chain(g)
    BY <1>2, ChainsOfAll DEF Exists
  <2> QED
    BY <2>1, ChainKept
<1>3. VersionsFormAChain'
  BY <1>2 DEF VersionsFormAChain, Chain
<1> QED
  BY <1>1, <1>3

----------------------------------------------------------------------------
(* What was accepted *)

Adaptation(p) == proposals[p].status = "accepted" /\ proposals[p].change = "adapt_target"

\* What AcceptedOnceAsProposed says of a version.
AsProposed(i) ==
  LET p == versions[i].reason IN
    /\ versions[i].version > 1 <=> p # None
    /\ p # None =>
         /\ proposals[p].status = "accepted" /\ proposals[p].change = "adapt_target"
         /\ proposals[p].goal = versions[i].goal
         /\ versions[i].title =
              IF proposals[p].titled THEN p ELSE versions[versions[i].supersedes].title
         /\ \A j \in DOMAIN versions : versions[j].reason = p => j = i

LEMMA AcceptedOnceOfAll ==
  AcceptedOnceAsProposed <=>
    /\ \A p \in Proposals : Adaptation(p) => \E i \in DOMAIN versions : versions[i].reason = p
    /\ \A i \in DOMAIN versions : AsProposed(i)
BY DEF AcceptedOnceAsProposed, AsProposed, Adaptation

\* A version that came about by a proposal supersedes one there is.
LEMMA AdaptedSupersedes ==
  ASSUME IInv, NEW i \in DOMAIN versions, versions[i].reason # None
  PROVE  /\ versions[i].supersedes \in DOMAIN versions
         /\ versions[i].reason \in Proposals /\ Adaptation(versions[i].reason)
<1>1. AsProposed(i)
  BY AcceptedOnceOfAll DEF IInv
<1>2. /\ versions[i].goal \in GoalIds /\ Exists(versions[i].goal)
      /\ versions[i].reason \in Proposals
  BY RowsTyped DEF IInv, RowsInv, VersionRow
<1>3. Chain(versions[i].goal) /\ i \in OwnVersions(versions[i].goal)
  BY <1>2, ChainsOfAll DEF IInv, OwnVersions
<1>4. versions[i].supersedes \in OwnVersions(versions[i].goal)
  BY <1>1, <1>3 DEF Chain, AsProposed
<1> QED
  BY <1>1, <1>2, <1>4 DEF AsProposed, Adaptation, OwnVersions

\* Other operations leave the adaptations that were accepted as they are; a version of
\* theirs is a goal's first.
LEMMA AcceptedKept ==
  ASSUME IInv,
         \A p \in Proposals : /\ Adaptation(p)' <=> Adaptation(p)
                              /\ Adaptation(p) => /\ proposals'[p].goal = proposals[p].goal
                                                  /\ proposals'[p].titled = proposals[p].titled,
         \/ versions' = versions
         \/ \E row \in VersionRow : Appended(row) /\ row.reason = None /\ row.version = 1
  PROVE  AcceptedOnceAsProposed'
<1>1. /\ \A i \in DOMAIN versions : i \in DOMAIN versions' /\ versions'[i] = versions[i]
      /\ \A i \in DOMAIN versions' \ DOMAIN versions :
           versions'[i].reason = None /\ versions'[i].version = 1
  BY DEF Appended
<1>2. /\ \A p \in Proposals : Adaptation(p) => \E i \in DOMAIN versions : versions[i].reason = p
      /\ \A i \in DOMAIN versions : AsProposed(i)
  BY AcceptedOnceOfAll DEF IInv
<1>3. \A p \in Proposals : Adaptation(p)' => \E i \in DOMAIN versions' : versions'[i].reason = p
  BY <1>1, <1>2
<1>4. ASSUME NEW i \in DOMAIN versions' PROVE AsProposed(i)'
  <2>1. CASE i \notin DOMAIN versions
    BY <1>1, <2>1 DEF AsProposed
  <2>2. CASE i \in DOMAIN versions /\ versions[i].reason = None
    BY <1>1, <1>2, <2>2 DEF AsProposed
  <2>3. CASE i \in DOMAIN versions /\ versions[i].reason # None
    <3> DEFINE p == versions[i].reason
               before == versions[i].supersedes
    <3>1. p \in Proposals /\ Adaptation(p) /\ before \in DOMAIN versions /\ AsProposed(i)
      BY <1>2, <2>3, AdaptedSupersedes
    <3>2. versions'[i] = versions[i] /\ versions'[before] = versions[before]
      BY <1>1, <2>3, <3>1
    <3>3. \A j \in DOMAIN versions' : versions'[j].reason = p => j = i
      BY <1>1, <2>3, <3>1 DEF AsProposed
    <3> QED
      BY <2>3, <3>1, <3>2, <3>3 DEF AsProposed, Adaptation
  <2> QED
    BY <2>1, <2>2, <2>3
<1> QED
  BY <1>3, <1>4 DEF AcceptedOnceAsProposed, AsProposed, Adaptation

\* An adaptation is applied as it is accepted; no version has its reason before.
LEMMA AcceptedAdapted ==
  ASSUME IInv, NEW p \in Proposals, NEW row \in VersionRow, Appended(row),
         proposals[p].status = "pending", proposals[p].change = "adapt_target",
         proposals' = [proposals EXCEPT ![p].status = "accepted"],
         row.reason = p, row.goal = proposals[p].goal, row.version > 1,
         row.supersedes \in DOMAIN versions,
         row.title = IF proposals[p].titled THEN p ELSE versions[row.supersedes].title
  PROVE  AcceptedOnceAsProposed'
<1> DEFINE new == Len(versions) + 1
<1>1. /\ DOMAIN versions' = DOMAIN versions \union {new} /\ new \notin DOMAIN versions
      /\ \A i \in DOMAIN versions : versions'[i] = versions[i]
      /\ versions'[new] = row
  BY DEF Appended
<1>2. /\ \A q \in Proposals : Adaptation(q) => \E i \in DOMAIN versions : versions[i].reason = q
      /\ \A i \in DOMAIN versions : AsProposed(i)
  BY AcceptedOnceOfAll DEF IInv
<1>3. /\ proposals \in [Proposals -> ProposalRow]
      /\ \A q \in Proposals \ {p} : proposals'[q] = proposals[q]
      /\ proposals'[p] = [proposals[p] EXCEPT !.status = "accepted"]
      /\ proposals'[p].status = "accepted" /\ proposals'[p].change = proposals[p].change
      /\ proposals'[p].goal = proposals[p].goal /\ proposals'[p].titled = proposals[p].titled
  BY DEF IInv, TypeOK, ProposalRow
<1>4. ~Adaptation(p) /\ p # None
  BY NoneIsNoRow DEF Adaptation
<1>5. \A i \in DOMAIN versions : versions[i].reason # p
  BY <1>4, AdaptedSupersedes
<1>6. \A q \in Proposals : Adaptation(q)' => \E i \in DOMAIN versions' : versions'[i].reason = q
  BY <1>1, <1>2, <1>3 DEF Adaptation
<1>7. ASSUME NEW i \in DOMAIN versions', i = new PROVE AsProposed(i)'
  <2>1. versions'[versions'[i].supersedes].title = versions[row.supersedes].title
    BY <1>1, <1>7
  <2>2. \A j \in DOMAIN versions' : versions'[j].reason = p => j = i
    BY <1>1, <1>5, <1>7
  <2>3. /\ versions'[i].reason = p /\ versions'[i].version > 1
        /\ versions'[i].goal = proposals'[p].goal
        /\ proposals'[p].status = "accepted" /\ proposals'[p].change = "adapt_target"
    BY <1>1, <1>3, <1>7
  <2>4. versions'[i].title = IF proposals'[p].titled THEN p
                                 ELSE versions'[versions'[i].supersedes].title
    BY <1>1, <1>3, <1>7, <2>1
  <2> QED
    BY <1>4, <2>2, <2>3, <2>4 DEF AsProposed
<1>8. ASSUME NEW i \in DOMAIN versions PROVE AsProposed(i)'
  <2>1. versions'[i] = versions[i] /\ AsProposed(i)
    BY <1>1, <1>2
  <2>2. CASE versions[i].reason = None
    BY <2>1, <2>2 DEF AsProposed
  <2>3. CASE versions[i].reason # None
    <3> DEFINE q == versions[i].reason
               before == versions[i].supersedes
    <3>1. q \in Proposals /\ Adaptation(q) /\ before \in DOMAIN versions
      BY <2>3, AdaptedSupersedes
    <3>2. q # p /\ proposals'[q] = proposals[q] /\ versions'[before] = versions[before]
      BY <1>1, <1>3, <1>4, <3>1
    <3>3. \A j \in DOMAIN versions' : versions'[j].reason = q => j = i
      BY <1>1, <2>1, <2>3, <3>2 DEF AsProposed
    <3> QED
      BY <2>1, <2>3, <3>1, <3>2, <3>3 DEF AsProposed
  <2> QED
    BY <2>2, <2>3
<1>9. ASSUME NEW i \in DOMAIN versions' PROVE AsProposed(i)'
  <2>1. CASE i = new
    BY <1>7, <2>1
  <2>2. CASE i # new
    BY <1>1, <1>8, <2>2
  <2> QED
    BY <2>1, <2>2
<1> QED
  BY <1>6, <1>9 DEF AcceptedOnceAsProposed, AsProposed, Adaptation

----------------------------------------------------------------------------
(* Proposals, and the startups that look at them *)

\* Whatever users do to proposals, a startup that listed the overdue ones has them all.
LEMMA RecoveryKept ==
  ASSUME IInv, clock' = clock, recoveries' = recoveries,
         \A p \in Proposals :
           \/ proposals'[p] = proposals[p]
           \/ /\ proposals[p].status = "none" /\ proposals'[p].status = "pending"
              /\ proposals'[p].created = clock /\ proposals'[p].expires \in Nat
           \/ /\ proposals[p].status = "pending" /\ proposals'[p].expires = proposals[p].expires
              /\ proposals'[p].status \in {"accepted", "declined"}
  PROVE  RecoveryInv' /\ StartupsSettleOverdue'
<1>1. /\ clock \in Nat
      /\ \A p \in Proposals : proposals[p].expires \in Nat
      /\ \A r \in Recoveries : /\ recoveries[r].now \in Nat /\ recoveries[r].now <= clock
                               /\ recoveries[r].left \in SUBSET Proposals
  BY RowsTyped DEF IInv, RecoveryInv, ProposalRow, Recovery
<1>2. ASSUME NEW r \in Recoveries, NEW p \in recoveries[r].left
      PROVE  proposals'[p].status # "none" /\ proposals'[p].expires <= recoveries[r].now
  BY <1>1 DEF IInv, RecoveryInv
<1>3. ASSUME NEW r \in Recoveries, NEW p \in Proposals, proposals'[p].status = "pending",
             proposals'[p].created < recoveries[r].now
      PROVE  proposals[p].status = "pending" /\ proposals'[p] = proposals[p]
  BY <1>1, <1>3
<1>4. RecoveryInv'
  BY <1>1, <1>2, <1>3 DEF IInv, RecoveryInv, Overdue, OverdueBefore
<1>5. StartupsSettleOverdue'
  <2>1. ASSUME NEW r \in Recoveries, NEW p \in Proposals, recoveries[r].pc = "done",
               proposals'[p].status = "pending", proposals'[p].created < recoveries[r].now
        PROVE  proposals'[p].expires > recoveries[r].now
    BY <1>3, <2>1 DEF IInv, StartupsSettleOverdue
  <2>2. \A p \in Proposals : proposals'[p].status = "expired" => proposals'[p].expires <= clock
    BY DEF IInv, StartupsSettleOverdue
  <2> QED
    BY <2>1, <2>2 DEF StartupsSettleOverdue
<1> QED
  BY <1>4, <1>5

\* A proposal that is resolved keeps its contents.
LEMMA Resolved ==
  ASSUME IInv, NEW p \in Proposals, NEW resolution \in {"accepted", "declined", "expired"},
         Resolve(p, resolution)
  PROVE  /\ proposals' \in [Proposals -> ProposalRow]
         /\ \A q \in Proposals \ {p} : proposals'[q] = proposals[q]
         /\ proposals[p].status = "pending" /\ proposals'[p].status = resolution
         /\ proposals'[p].goal = proposals[p].goal /\ proposals'[p].change = proposals[p].change
         /\ proposals'[p].titled = proposals[p].titled
         /\ proposals'[p].expires = proposals[p].expires
         /\ proposals'[p].created = proposals[p].created
         /\ proposals[p].goal \in GoalIds /\ Exists(proposals[p].goal)
BY DEF IInv, TypeOK, Resolve, ProposalRow

\* An acceptance adds to what was agreed on for one goal.
LEMMA AgreedAfter ==
  ASSUME IInv, NEW p \in Proposals, Resolve(p, "accepted"), NEW g, NEW change
  PROVE  Agreed(g, change)' = IF g = proposals[p].goal /\ change = proposals[p].change
                                THEN Agreed(g, change) \union {p} ELSE Agreed(g, change)
<1>1. /\ \A q \in Proposals \ {p} : proposals'[q] = proposals[q]
      /\ proposals[p].status = "pending" /\ proposals'[p].status = "accepted"
      /\ proposals'[p].goal = proposals[p].goal /\ proposals'[p].change = proposals[p].change
  BY Resolved
<1> QED
  BY <1>1 DEF Agreed

\* EndingInv, goal by goal.
LEMMA EndedEach ==
  ASSUME IInv, NEW g \in GoalIds
  PROVE  /\ OneIf(goals[g].status = "abandoned", Agreed(g, "propose_abandonment"))
         /\ OneIf(goals[g].status = "replaced", Agreed(g, "propose_replacement"))
         /\ OneIf(goals[g].status = "replaced", Heirs(g))
BY DEF IInv, EndingInv

\* What it needs of the next state.
LEMMA EndingOfEach ==
  ASSUME \A g \in GoalIds :
           /\ OneIf(goals'[g].status = "abandoned", Agreed(g, "propose_abandonment")')
           /\ OneIf(goals'[g].status = "replaced", Agreed(g, "propose_replacement")')
           /\ OneIf(goals'[g].status = "replaced", Heirs(g)')
  PROVE  EndingInv'
BY DEF EndingInv, OneIf

\* Nothing was agreed on for a goal there is not, and nothing has replaced it.
LEMMA NothingOfNoGoal ==
  ASSUME IInv, NEW g \in GoalIds, ~Exists(g)
  PROVE  /\ \A p \in Proposals : proposals[p].status # "none" => proposals[p].goal # g
         /\ \A change : Agreed(g, change) = {}
         /\ Heirs(g) = {}
         /\ goals[g] = NoGoal
         /\ \A i \in DOMAIN versions : versions[i].goal # g
<1>1. \A p \in Proposals : proposals[p].status # "none" => proposals[p].goal # g
  BY DEF IInv, TypeOK
<1>2. \A change : Agreed(g, change) = {}
  BY <1>1 DEF Agreed
<1>3. Heirs(g) = {}
  BY DEF IInv, EndingInv, OneIf, Exists
<1> QED
  BY <1>1, <1>2, <1>3 DEF IInv, RowsInv

----------------------------------------------------------------------------
(* The operations on goals *)

LEMMA CreateGoalStep ==
  ASSUME IInv, NEW g \in GoalIds, CreateGoal(g)
  PROVE  IInv'
<1> DEFINE row == [goal |-> g, version |-> 1, title |-> g, domain |-> g,
                   reason |-> None, supersedes |-> 0]
           new == [NoGoal EXCEPT !.status = "active", !.current = Len(versions) + 1]
<1>1. /\ ~Exists(g) /\ goals' = [goals EXCEPT ![g] = new] /\ versions' = Append(versions, row)
      /\ UNCHANGED <<clock, proposals, records, recoveries>>
  BY DEF CreateGoal
<1>2. /\ row \in VersionRow /\ row.goal = g /\ row.version = 1 /\ row.reason = None
      /\ new \in GoalRow /\ new.status = "active" /\ new.current = Len(versions) + 1
      /\ new.replaces = None
  <2>1. Len(versions) \in Nat
    BY RowsTyped DEF IInv
  <2>2. row \in VersionRow
    BY <2>1 DEF VersionRow
  <2>3. new \in GoalRow
    <3>1. \A n \in Nat : [NoGoal EXCEPT !.status = "active", !.current = n] \in GoalRow
      BY DEF NoGoal, GoalRow
    <3>2. Len(versions) + 1 \in Nat
      BY <2>1
    <3> QED
      BY <3>1, <3>2, Zenon
  <2>4. new.status = "active" /\ new.current = Len(versions) + 1 /\ new.replaces = None
    BY DEF NoGoal
  <2> QED
    BY <2>2, <2>3, <2>4
<1> HIDE DEF row, new
<1>3. Appended(row)
  BY <1>1, <1>2, AppendIsAppended DEF IInv
<1>4. /\ goals' \in [GoalIds -> GoalRow] /\ goals'[g] = new
      /\ \A h \in GoalIds \ {g} : goals'[h] = goals[h]
      /\ \A h \in GoalIds : Exists(h) => Exists(h)' /\ goals'[h] = goals[h]
  BY <1>1, <1>2 DEF IInv, TypeOK, Exists
<1>5. TypeOK'
  BY <1>1, <1>2, <1>3, <1>4 DEF IInv, TypeOK, Appended, Exists
<1>6. RowsInv'
  <2>1. ASSUME NEW h \in GoalIds, ~Exists(h)' PROVE goals'[h] = NoGoal
    BY <1>2, <1>4, <2>1 DEF IInv, RowsInv, Exists
  <2>2. ASSUME NEW i \in DOMAIN versions, versions'[i] = versions[i]
        PROVE  Exists(versions[i].goal)'
    <3> DEFINE h == versions[i].goal
    <3>1. h \in GoalIds /\ Exists(h)
      BY RowsTyped DEF IInv, RowsInv, VersionRow
    <3>2. h' = h
      BY <2>2
    <3> HIDE DEF h
    <3>3. goals'[h] = goals[h]
      BY <1>4, <3>1
    <3>4. Exists(h)'
      BY <3>1, <3>2, <3>3 DEF Exists
    <3> QED BY <3>4 DEF h
  <2>3. Exists(row.goal)'
    BY <1>2, <1>4 DEF Exists
  <2> QED BY <1>3, <2>1, <2>2, <2>3 DEF RowsInv, Appended, Exists
<1>7. ASSUME NEW h \in GoalIds, Exists(h)' PROVE Chain(h)'
  <2>1. CASE h = g
    BY <1>1, <1>2, <1>3, <1>4, <2>1, ChainStarts
  <2>2. CASE h # g
    <3>1. Exists(h) /\ Chain(h) /\ goals'[h].current = goals[h].current
      BY <1>4, <1>7, <2>2, ChainsOfAll DEF IInv, Exists
    <3> QED
      BY <1>2, <1>3, <2>2, <3>1, ChainKept DEF IInv
  <2> QED
    BY <2>1, <2>2
<1>8. VersionsFormAChain'
  BY <1>7 DEF VersionsFormAChain, Chain
<1>9. AcceptedOnceAsProposed'
  BY <1>1, <1>2, <1>3, AcceptedKept DEF Adaptation
<1>10. EndingInv'
  <2>1. ASSUME NEW h \in GoalIds
        PROVE  \A change : Agreed(h, change)' = Agreed(h, change)
    BY <1>1 DEF Agreed
  <2>2. ASSUME NEW h \in GoalIds PROVE Heirs(h)' = Heirs(h)
    BY <1>1, <1>2, <1>4, NothingOfNoGoal, NoneIsNoRow DEF Heirs, NoGoal
  <2>3. ASSUME NEW h \in GoalIds, h # g
        PROVE  /\ OneIf(goals'[h].status = "abandoned", Agreed(h, "propose_abandonment")')
               /\ OneIf(goals'[h].status = "replaced", Agreed(h, "propose_replacement")')
               /\ OneIf(goals'[h].status = "replaced", Heirs(h)')
    BY <1>4, <2>1, <2>2, <2>3, EndedEach
  <2>4. /\ OneIf(goals'[g].status = "abandoned", Agreed(g, "propose_abandonment")')
        /\ OneIf(goals'[g].status = "replaced", Agreed(g, "propose_replacement")')
        /\ OneIf(goals'[g].status = "replaced", Heirs(g)')
    BY <1>1, <1>2, <1>4, <2>1, <2>2, NothingOfNoGoal DEF OneIf
  <2> QED
    BY <2>3, <2>4, EndingOfEach
<1>11. RecoveryInv' /\ StartupsSettleOverdue'
  BY <1>1, RecoveryKept
<1> QED
  BY <1>5, <1>6, <1>8, <1>9, <1>10, <1>11 DEF IInv

\* An update of a goal's status or archive that no proposal is needed for.
LEMMA UpdateStep ==
  ASSUME IInv, NEW g \in GoalIds, Exists(g), NEW row \in GoalRow,
         goals' = [goals EXCEPT ![g] = row], row.status # "none",
         row.current = goals[g].current, row.replaces = goals[g].replaces,
         row.status # goals[g].status =>
           \A status \in {row.status, goals[g].status} : status \notin {"abandoned", "replaced"},
         UNCHANGED <<clock, versions, proposals, records, recoveries>>
  PROVE  IInv'
<1>1. /\ goals' \in [GoalIds -> GoalRow] /\ goals'[g] = row
      /\ \A h \in GoalIds \ {g} : goals'[h] = goals[h]
      /\ \A h \in GoalIds : /\ Exists(h)' <=> Exists(h)
                            /\ goals'[h].current = goals[h].current
                            /\ goals'[h].replaces = goals[h].replaces
                            /\ \A status \in {"abandoned", "replaced"} :
                                 goals'[h].status = status <=> goals[h].status = status
  BY DEF IInv, TypeOK, Exists
<1>2. TypeOK'
  BY <1>1 DEF IInv, TypeOK
<1>3. RowsInv'
  <2>1. \A i \in DOMAIN versions : versions[i].goal \in GoalIds
    BY RowsTyped DEF IInv, VersionRow
  <2> QED
    BY <1>1, <2>1 DEF IInv, RowsInv, Exists
<1>4. VersionsFormAChain'
  <2>1. ASSUME NEW h \in GoalIds, Exists(h)' PROVE Chain(h)'
    BY <1>1, <2>1, ChainKept, ChainsOfAll DEF IInv
  <2> QED
    BY <2>1 DEF VersionsFormAChain, Chain
<1>5. AcceptedOnceAsProposed'
  BY AcceptedKept DEF Adaptation
<1>6. EndingInv'
  <2>1. \A h \in GoalIds : \A change : Agreed(h, change)' = Agreed(h, change) /\ Heirs(h)' = Heirs(h)
    BY <1>1 DEF Agreed, Heirs
  <2>2. /\ \A h \in GoalIds : /\ goals'[h].status = "abandoned" <=> goals[h].status = "abandoned"
                              /\ goals'[h].status = "replaced" <=> goals[h].status = "replaced"
    BY <1>1
  <2> QED
    BY <2>1, <2>2, EndingOfEach, EndedEach DEF OneIf
<1>7. RecoveryInv' /\ StartupsSettleOverdue'
  BY RecoveryKept
<1> QED
  BY <1>2, <1>3, <1>4, <1>5, <1>6, <1>7 DEF IInv

\* pause, resume, complete and archive
LEMMA LifecycleStep ==
  ASSUME IInv, NEW g \in GoalIds, PauseGoal(g) \/ ResumeGoal(g) \/ CompleteGoal(g) \/ ArchiveGoal(g)
  PROVE  IInv'
<1>1. goals \in [GoalIds -> GoalRow] /\ goals[g] \in GoalRow
  BY DEF IInv, TypeOK
<1>2. ASSUME NEW to \in {"active", "paused", "completed"}, Transition(g, {"active", "paused"}, to)
      PROVE  IInv'
  <2> DEFINE row == [goals[g] EXCEPT !.status = to]
  <2>1. /\ row \in GoalRow /\ row.status = to /\ row.current = goals[g].current
        /\ row.replaces = goals[g].replaces
    BY <1>1 DEF GoalRow, Terminal
  <2>2. goals' = [goals EXCEPT ![g] = row] /\ goals[g].status \in {"active", "paused"}
    BY <1>1, <1>2 DEF Transition
  <2>3. UNCHANGED <<clock, versions, proposals, records, recoveries>> /\ Exists(g)
    BY <1>2 DEF Transition, Exists
  <2> HIDE DEF row
  <2> QED
    BY <2>1, <2>2, <2>3, UpdateStep
<1>3. ASSUME ArchiveGoal(g) PROVE IInv'
  <2> DEFINE row == [goals[g] EXCEPT !.archived = TRUE]
  <2>1. /\ row \in GoalRow /\ row.status = goals[g].status /\ row.current = goals[g].current
        /\ row.replaces = goals[g].replaces
    BY <1>1 DEF GoalRow
  <2>2. goals' = [goals EXCEPT ![g] = row] /\ Exists(g)
    BY <1>1, <1>3 DEF ArchiveGoal, Exists, Terminal
  <2>3. UNCHANGED <<clock, versions, proposals, records, recoveries>> /\ row.status # "none"
    BY <1>3, <2>1 DEF ArchiveGoal, Terminal
  <2> HIDE DEF row
  <2> QED
    BY <2>1, <2>2, <2>3, UpdateStep
<1> QED
  BY <1>2, <1>3 DEF PauseGoal, ResumeGoal, CompleteGoal, Transition

----------------------------------------------------------------------------
(* The operations on proposals *)

\* What is left of an operation that changes neither goals nor versions, and accepts no
\* adaptation, abandonment or replacement.
LEMMA GoalsKept ==
  ASSUME IInv, UNCHANGED <<goals, versions>>,
         proposals' \in [Proposals -> ProposalRow],
         \A p \in Proposals :
           /\ proposals[p].status # "none" =>
                /\ proposals'[p].status # "none"
                /\ proposals'[p].goal = proposals[p].goal
                /\ proposals'[p].change = proposals[p].change
                /\ proposals'[p].titled = proposals[p].titled
           /\ proposals'[p].status # "none" =>
                proposals'[p].goal \in GoalIds /\ Exists(proposals'[p].goal)
           /\ proposals'[p].status = "accepted" <=>
                \/ proposals[p].status = "accepted"
                \/ proposals'[p].status = "accepted" /\ proposals'[p].change = "no_change"
  PROVE  /\ \A p \in Proposals : proposals'[p].status # "none" =>
              proposals'[p].goal \in GoalIds /\ goals'[proposals'[p].goal].status # "none"
         /\ RowsInv' /\ VersionsFormAChain' /\ AcceptedOnceAsProposed' /\ EndingInv'
<1>1. \A p \in Proposals : proposals'[p].status # "none" =>
        proposals'[p].goal \in GoalIds /\ goals'[proposals'[p].goal].status # "none"
  BY DEF Exists
<1>2. RowsInv' /\ VersionsFormAChain'
  BY HistoryKept DEF IInv
<1>3. AcceptedOnceAsProposed'
  BY AcceptedKept DEF Adaptation
<1>4. ASSUME NEW g \in GoalIds,
             NEW change \in {"adapt_target", "propose_replacement", "propose_abandonment"}
      PROVE  Agreed(g, change)' = Agreed(g, change)
  BY DEF Agreed
<1>5. \A g \in GoalIds : Heirs(g)' = Heirs(g)
  BY DEF Heirs
<1>6. EndingInv'
  BY <1>4, <1>5, EndedEach, EndingOfEach
<1> QED
  BY <1>1, <1>2, <1>3, <1>6

LEMMA CreateChangeProposalStep ==
  ASSUME IInv, NEW p \in Proposals, NEW g \in GoalIds, NEW change \in Changes,
         NEW titled \in BOOLEAN, NEW expires \in Expiries,
         CreateChangeProposal(p, g, change, titled, expires)
  PROVE  IInv'
<1> DEFINE row == [status |-> "pending", goal |-> g, change |-> change, titled |-> titled,
                   created |-> clock, expires |-> expires]
<1>1. /\ proposals[p].status = "none" /\ Exists(g) /\ proposals' = [proposals EXCEPT ![p] = row]
      /\ UNCHANGED <<clock, goals, versions, records, recoveries>>
  BY DEF CreateChangeProposal
<1>2. clock \in Nat /\ expires \in Nat
  BY RowsTyped, ExpiriesType DEF IInv
<1>3. /\ row \in ProposalRow /\ row.status = "pending" /\ row.goal = g
      /\ row.created = clock /\ row.expires = expires
  BY <1>2 DEF ProposalRow
<1> HIDE DEF row
<1>4. /\ proposals' \in [Proposals -> ProposalRow] /\ proposals'[p] = row
      /\ \A q \in Proposals \ {p} : proposals'[q] = proposals[q]
  BY <1>1, <1>3 DEF IInv, TypeOK
<1>5. /\ \A q \in Proposals : proposals'[q].status # "none" =>
           proposals'[q].goal \in GoalIds /\ goals'[proposals'[q].goal].status # "none"
      /\ RowsInv' /\ VersionsFormAChain' /\ AcceptedOnceAsProposed' /\ EndingInv'
  <2>1. \A q \in Proposals : proposals'[q].status # "none" =>
          proposals'[q].goal \in GoalIds /\ Exists(proposals'[q].goal)
    BY <1>1, <1>3, <1>4 DEF IInv, TypeOK
  <2> QED
    BY <1>1, <1>3, <1>4, <2>1, GoalsKept
<1>6. TypeOK'
  BY <1>1, <1>4, <1>5 DEF IInv, TypeOK, Exists
<1>7. RecoveryInv' /\ StartupsSettleOverdue'
  BY <1>1, <1>2, <1>3, <1>4, RecoveryKept
<1> QED
  BY <1>5, <1>6, <1>7 DEF IInv

LEMMA DeclineProposalStep ==
  ASSUME IInv, NEW p \in Proposals, DeclineProposal(p)
  PROVE  IInv'
<1>1. /\ Resolve(p, "declined") /\ UNCHANGED <<clock, goals, versions, records, recoveries>>
  BY DEF DeclineProposal
<1>2. /\ proposals' \in [Proposals -> ProposalRow]
      /\ \A q \in Proposals \ {p} : proposals'[q] = proposals[q]
      /\ proposals[p].status = "pending" /\ proposals'[p].status = "declined"
      /\ proposals'[p].goal = proposals[p].goal /\ proposals'[p].change = proposals[p].change
      /\ proposals'[p].titled = proposals[p].titled
      /\ proposals'[p].expires = proposals[p].expires
  BY <1>1, Resolved
<1>3. /\ \A q \in Proposals : proposals'[q].status # "none" =>
           proposals'[q].goal \in GoalIds /\ goals'[proposals'[q].goal].status # "none"
      /\ RowsInv' /\ VersionsFormAChain' /\ AcceptedOnceAsProposed' /\ EndingInv'
  <2>1. \A q \in Proposals : proposals'[q].status # "none" =>
          proposals'[q].goal \in GoalIds /\ Exists(proposals'[q].goal)
    BY <1>2 DEF IInv, TypeOK
  <2> QED
    BY <1>1, <1>2, <2>1, GoalsKept
<1>4. TypeOK'
  BY <1>1, <1>2, <1>3 DEF IInv, TypeOK, Exists
<1>5. RecoveryInv' /\ StartupsSettleOverdue'
  BY <1>1, <1>2, RecoveryKept
<1> QED
  BY <1>3, <1>4, <1>5 DEF IInv

\* Accepting no change, or one of the support: nothing else happens.
LEMMA AcceptNothingStep ==
  ASSUME IInv, NEW p \in Proposals, Resolve(p, "accepted"), proposals[p].change = "no_change",
         UNCHANGED <<clock, goals, versions, records, recoveries>>
  PROVE  IInv'
<1>1. /\ proposals' \in [Proposals -> ProposalRow]
      /\ \A q \in Proposals \ {p} : proposals'[q] = proposals[q]
      /\ proposals[p].status = "pending" /\ proposals'[p].status = "accepted"
      /\ proposals'[p].goal = proposals[p].goal /\ proposals'[p].change = proposals[p].change
      /\ proposals'[p].titled = proposals[p].titled
      /\ proposals'[p].expires = proposals[p].expires
  BY Resolved
<1>2. /\ \A q \in Proposals : proposals'[q].status # "none" =>
           proposals'[q].goal \in GoalIds /\ goals'[proposals'[q].goal].status # "none"
      /\ RowsInv' /\ VersionsFormAChain' /\ AcceptedOnceAsProposed' /\ EndingInv'
  <2>1. \A q \in Proposals : proposals'[q].status # "none" =>
          proposals'[q].goal \in GoalIds /\ Exists(proposals'[q].goal)
    BY <1>1 DEF IInv, TypeOK
  <2> QED
    BY <1>1, <2>1, GoalsKept
<1>3. TypeOK'
  BY <1>1, <1>2 DEF IInv, TypeOK, Exists
<1>4. RecoveryInv' /\ StartupsSettleOverdue'
  BY <1>1, RecoveryKept
<1> QED
  BY <1>2, <1>3, <1>4 DEF IInv

\* The types after an acceptance that moves goals on.
LEMMA TypesAfter ==
  ASSUME IInv, NEW p \in Proposals, Resolve(p, "accepted"),
         goals' \in [GoalIds -> GoalRow],
         \A g \in GoalIds : Exists(g) => goals'[g].status # "none",
         \A g \in GoalIds : goals'[g].status # "none" => goals'[g].current \in DOMAIN versions',
         versions' = versions \/ \E row \in VersionRow : Appended(row),
         UNCHANGED <<clock, records, recoveries>>
  PROVE  TypeOK' /\ RecoveryInv' /\ StartupsSettleOverdue'
<1>1. /\ proposals' \in [Proposals -> ProposalRow]
      /\ \A q \in Proposals \ {p} : proposals'[q] = proposals[q]
      /\ proposals[p].status = "pending" /\ proposals'[p].status = "accepted"
      /\ proposals'[p].goal = proposals[p].goal
      /\ proposals'[p].expires = proposals[p].expires
  BY Resolved
<1>2. \A q \in Proposals : proposals'[q].status # "none" =>
        proposals'[q].goal \in GoalIds /\ goals'[proposals'[q].goal].status # "none"
  BY <1>1 DEF IInv, TypeOK, Exists
<1>3. versions' \in Seq(VersionRow)
  BY DEF IInv, TypeOK, Appended
<1>4. TypeOK'
  BY <1>1, <1>2, <1>3 DEF IInv, TypeOK, Exists
<1>5. RecoveryInv' /\ StartupsSettleOverdue'
  BY <1>1, RecoveryKept
<1> QED
  BY <1>4, <1>5

LEMMA AcceptAdaptationStep ==
  ASSUME IInv, NEW p \in Proposals, Resolve(p, "accepted"), proposals[p].change = "adapt_target",
         NEW g \in GoalIds, proposals[p].goal = g,
         Adapt(p, g), UNCHANGED <<clock, records, recoveries>>
  PROVE  IInv'
<1> DEFINE row == [goal |-> g, version |-> Current(g).version + 1, title |-> ProposedTitle(p, g),
                   domain |-> Current(g).domain, reason |-> p, supersedes |-> goals[g].current]
           new == [goals[g] EXCEPT !.current = Len(versions) + 1]
<1>1. /\ proposals' \in [Proposals -> ProposalRow]
      /\ \A q \in Proposals \ {p} : proposals'[q] = proposals[q]
      /\ proposals[p].status = "pending" /\ proposals'[p].status = "accepted"
      /\ Exists(g)
      /\ proposals' = [proposals EXCEPT ![p].status = "accepted"]
  BY Resolved DEF Resolve
<1>2. /\ goals \in [GoalIds -> GoalRow] /\ goals[g] \in GoalRow /\ Chain(g)
      /\ Current(g) \in VersionRow /\ Current(g).version \in Nat \ {0}
      /\ goals[g].current \in DOMAIN versions /\ Len(versions) \in Nat
  BY <1>1, RowsTyped, ChainsOfAll, CurrentIsLast DEF IInv, TypeOK
<1>3. /\ versions' = Append(versions, row) /\ goals' = [goals EXCEPT ![g] = new]
  BY <1>2 DEF Adapt
<1>4. /\ row \in VersionRow /\ row.goal = g /\ row.version = Current(g).version + 1
      /\ row.title = ProposedTitle(p, g)
      /\ row.domain = Current(g).domain /\ row.reason = p /\ row.supersedes = goals[g].current
  BY <1>1, <1>2 DEF VersionRow, ProposedTitle
<1>5. /\ new \in GoalRow /\ new.current = Len(versions) + 1 /\ new.status = goals[g].status
      /\ new.replaces = goals[g].replaces
  BY <1>2 DEF GoalRow
<1> HIDE DEF row, new
<1>6. Appended(row)
  BY <1>3, <1>4, AppendIsAppended DEF IInv
<1>7. /\ goals' \in [GoalIds -> GoalRow] /\ goals'[g] = new
      /\ \A h \in GoalIds \ {g} : goals'[h] = goals[h]
      /\ \A h \in GoalIds : goals'[h].status = goals[h].status
      /\ \A h \in GoalIds : goals'[h].replaces = goals[h].replaces
  BY <1>1, <1>2, <1>3, <1>5 DEF IInv, TypeOK
<1>8. TypeOK' /\ RecoveryInv' /\ StartupsSettleOverdue'
  <2>1. \A h \in GoalIds : goals'[h].status # "none" => goals'[h].current \in DOMAIN versions'
    BY <1>5, <1>6, <1>7 DEF IInv, TypeOK, Exists, Appended
  <2>2. \A h \in GoalIds : Exists(h) => goals'[h].status # "none"
    BY <1>7 DEF Exists
  <2> QED
    BY <1>4, <1>6, <1>7, <2>1, <2>2, TypesAfter
<1>9. RowsInv'
  <2>1. \A h \in GoalIds : goals'[h].status = "none" => goals'[h] = NoGoal
    BY <1>1, <1>7 DEF IInv, RowsInv, Exists
  <2>2. \A i \in DOMAIN versions' : goals'[versions'[i].goal].status # "none"
    <3>1. \A i \in DOMAIN versions : versions[i].goal \in GoalIds /\ Exists(versions[i].goal)
      BY RowsTyped DEF IInv, RowsInv, VersionRow
    <3> QED
      BY <1>1, <1>4, <1>6, <1>7, <3>1 DEF Exists, Appended
  <2> QED
    BY <2>1, <2>2 DEF RowsInv, Exists
<1>10. ASSUME NEW h \in GoalIds, Exists(h)' PROVE Chain(h)'
  <2>1. CASE h = g
    BY <1>1, <1>2, <1>4, <1>5, <1>6, <1>7, <2>1, ChainGrows DEF IInv
  <2>2. CASE h # g
    <3>1. Exists(h) /\ Chain(h) /\ goals'[h].current = goals[h].current
      BY <1>7, <1>10, <2>2, ChainsOfAll DEF IInv, Exists
    <3> QED
      BY <1>4, <1>6, <2>2, <3>1, ChainKept DEF IInv
  <2> QED
    BY <2>1, <2>2
<1>11. VersionsFormAChain'
  BY <1>10 DEF VersionsFormAChain, Chain
<1>12. AcceptedOnceAsProposed'
  <2>1. row.version > 1
    BY <1>2, <1>4
  <2>2. row.title = IF proposals[p].titled THEN p ELSE versions[row.supersedes].title
    BY <1>4 DEF ProposedTitle, Current
  <2> QED
    BY <1>1, <1>2, <1>4, <1>6, <2>1, <2>2, AcceptedAdapted
<1>13. EndingInv'
  <2>1. ASSUME NEW h \in GoalIds,
               NEW change \in {"propose_replacement", "propose_abandonment"}
        PROVE  Agreed(h, change)' = Agreed(h, change)
    BY AgreedAfter
  <2>2. ASSUME NEW h \in GoalIds PROVE Heirs(h)' = Heirs(h)
    BY <1>7 DEF Heirs
  <2> QED
    BY <1>7, <2>1, <2>2, EndedEach, EndingOfEach
<1> QED
  BY <1>8, <1>9, <1>11, <1>12, <1>13 DEF IInv

LEMMA AcceptAbandonmentStep ==
  ASSUME IInv, NEW p \in Proposals, Resolve(p, "accepted"),
         proposals[p].change = "propose_abandonment",
         NEW g \in GoalIds, proposals[p].goal = g,
         Abandon(g), UNCHANGED <<clock, records, recoveries>>
  PROVE  IInv'
<1> DEFINE new == [goals[g] EXCEPT !.status = "abandoned"]
<1>1. /\ \A q \in Proposals \ {p} : proposals'[q] = proposals[q]
      /\ proposals[p].status = "pending" /\ proposals'[p].status = "accepted"
      /\ proposals'[p].change = proposals[p].change
      /\ Exists(g)
  BY Resolved
<1>2. /\ goals \in [GoalIds -> GoalRow] /\ goals[g] \in GoalRow
      /\ goals[g].status \in {"active", "paused"} /\ versions' = versions
      /\ goals' = [goals EXCEPT ![g] = new]
  BY <1>1, RowsTyped DEF IInv, TypeOK, Abandon
<1>3. /\ new \in GoalRow /\ new.status = "abandoned" /\ new.current = goals[g].current
      /\ new.replaces = goals[g].replaces
  BY <1>2 DEF GoalRow, Terminal
<1> HIDE DEF new
<1>4. /\ goals' \in [GoalIds -> GoalRow] /\ goals'[g] = new
      /\ \A h \in GoalIds \ {g} : goals'[h] = goals[h]
      /\ \A h \in GoalIds : /\ goals'[h].status # "none" <=> Exists(h)
                            /\ goals'[h].current = goals[h].current
                            /\ goals'[h].replaces = goals[h].replaces
  BY <1>1, <1>2, <1>3 DEF Exists
<1>5. TypeOK' /\ RecoveryInv' /\ StartupsSettleOverdue'
  <2>1. \A h \in GoalIds : goals'[h].status # "none" => goals'[h].current \in DOMAIN versions'
    BY <1>2, <1>4 DEF IInv, TypeOK
  <2> QED
    BY <1>2, <1>4, <2>1, TypesAfter
<1>6. RowsInv'
  <2>1. \A h \in GoalIds : goals'[h].status = "none" => goals'[h] = NoGoal
    BY <1>1, <1>4 DEF IInv, RowsInv
  <2>2. \A i \in DOMAIN versions' : goals'[versions'[i].goal].status # "none"
    BY <1>2, <1>4, RowsTyped DEF IInv, RowsInv, VersionRow
  <2> QED
    BY <2>1, <2>2 DEF RowsInv, Exists
<1>7. VersionsFormAChain'
  <2>1. ASSUME NEW h \in GoalIds, Exists(h)' PROVE Chain(h)'
    <3>1. Exists(h) /\ Chain(h)
      BY <1>4, <2>1, ChainsOfAll DEF IInv, Exists
    <3> QED
      BY <1>2, <1>4, <3>1, ChainKept DEF IInv
  <2> QED
    BY <2>1 DEF VersionsFormAChain, Chain
<1>8. AcceptedOnceAsProposed'
  <2>1. \A q \in Proposals : /\ Adaptation(q)' <=> Adaptation(q)
                             /\ Adaptation(q) => proposals'[q] = proposals[q]
    BY <1>1 DEF Adaptation
  <2> QED
    BY <1>2, <2>1, AcceptedKept
<1>9. EndingInv'
  <2>1. ASSUME NEW h \in GoalIds, h # g
        PROVE  /\ OneIf(goals'[h].status = "abandoned", Agreed(h, "propose_abandonment")')
               /\ OneIf(goals'[h].status = "replaced", Agreed(h, "propose_replacement")')
    BY <1>4, <2>1, AgreedAfter, EndedEach
  <2>2. /\ Agreed(g, "propose_abandonment")' = Agreed(g, "propose_abandonment") \union {p}
        /\ Agreed(g, "propose_replacement")' = Agreed(g, "propose_replacement")
    BY AgreedAfter
  <2>3. ASSUME NEW h \in GoalIds PROVE Heirs(h)' = Heirs(h)
    BY <1>4 DEF Heirs
  <2>4. /\ Agreed(g, "propose_abandonment") = {} /\ Agreed(g, "propose_replacement") = {}
        /\ Heirs(g) = {}
    BY <1>1, <1>2, EndedEach DEF OneIf
  <2>5. /\ OneIf(goals'[g].status = "abandoned", Agreed(g, "propose_abandonment")')
        /\ OneIf(goals'[g].status = "replaced", Agreed(g, "propose_replacement")')
        /\ OneIf(goals'[g].status = "replaced", Heirs(g)')
    BY <1>1, <1>3, <1>4, <2>2, <2>3, <2>4 DEF OneIf
  <2>6. ASSUME NEW h \in GoalIds, h # g PROVE OneIf(goals'[h].status = "replaced", Heirs(h)')
    BY <1>4, <2>3, <2>6, EndedEach
  <2> QED
    BY <2>1, <2>5, <2>6, EndingOfEach
<1> QED
  BY <1>5, <1>6, <1>7, <1>8, <1>9 DEF IInv

LEMMA AcceptReplacementStep ==
  ASSUME IInv, NEW p \in Proposals, Resolve(p, "accepted"),
         proposals[p].change = "propose_replacement",
         NEW g \in GoalIds, proposals[p].goal = g, goals[g].status \in {"active", "paused"},
         NEW h \in GoalIds, Successor(p, g, h), UNCHANGED <<clock, records, recoveries>>
  PROVE  IInv'
<1> DEFINE row == [goal |-> h, version |-> 1, title |-> ProposedTitle(p, g),
                   domain |-> Current(g).domain, reason |-> None, supersedes |-> 0]
           old == [goals[g] EXCEPT !.status = "replaced"]
           new == [NoGoal EXCEPT !.status = "active", !.current = Len(versions) + 1,
                                 !.replaces = g]
<1>1. /\ \A q \in Proposals \ {p} : proposals'[q] = proposals[q]
      /\ proposals[p].status = "pending" /\ proposals'[p].status = "accepted"
      /\ proposals'[p].change = proposals[p].change
      /\ Exists(g)
  BY Resolved
<1>2. /\ ~Exists(h) /\ h # g /\ versions' = Append(versions, row)
      /\ goals' = [goals EXCEPT ![g] = old, ![h] = new]
  BY <1>1, RowsTyped DEF IInv, TypeOK, Successor
<1>3. /\ goals \in [GoalIds -> GoalRow] /\ goals[g] \in GoalRow
      /\ Current(g) \in VersionRow /\ Len(versions) \in Nat /\ Len(versions) + 1 \in Nat
  BY <1>1, RowsTyped DEF IInv, TypeOK
<1>4. /\ row \in VersionRow /\ row.goal = h /\ row.version = 1 /\ row.reason = None
  BY <1>3 DEF VersionRow, ProposedTitle
<1>5. /\ old \in GoalRow /\ old.status = "replaced" /\ old.current = goals[g].current
      /\ old.replaces = goals[g].replaces
  BY <1>3 DEF GoalRow, Terminal
<1>6. /\ new \in GoalRow /\ new.status = "active" /\ new.current = Len(versions) + 1
      /\ new.replaces = g
  <2>1. \A n \in Nat : [NoGoal EXCEPT !.status = "active", !.current = n, !.replaces = g] \in GoalRow
    BY DEF NoGoal, GoalRow
  <2>2. new \in GoalRow
    BY <1>3, <2>1, Zenon
  <2>3. new.status = "active" /\ new.current = Len(versions) + 1 /\ new.replaces = g
    BY DEF NoGoal
  <2> QED
    BY <2>2, <2>3
<1> HIDE DEF row, old, new
<1>7. Appended(row)
  BY <1>2, <1>4, AppendIsAppended DEF IInv
<1>8. /\ goals' \in [GoalIds -> GoalRow] /\ goals'[g] = old /\ goals'[h] = new
      /\ \A k \in GoalIds \ {g, h} : goals'[k] = goals[k]
  BY <1>2, <1>3, <1>5, <1>6
<1>9. TypeOK' /\ RecoveryInv' /\ StartupsSettleOverdue'
  <2>1. \A k \in GoalIds : goals'[k].status # "none" => goals'[k].current \in DOMAIN versions'
    BY <1>1, <1>5, <1>6, <1>7, <1>8 DEF IInv, TypeOK, Exists, Appended
  <2>2. \A k \in GoalIds : Exists(k) => goals'[k].status # "none"
    BY <1>2, <1>5, <1>8 DEF Exists
  <2> QED
    BY <1>4, <1>7, <1>8, <2>1, <2>2, TypesAfter
<1>10. RowsInv'
  <2>1. \A k \in GoalIds : goals'[k].status = "none" => goals'[k] = NoGoal
    BY <1>5, <1>6, <1>8 DEF IInv, RowsInv, Exists
  <2>2. \A i \in DOMAIN versions' : goals'[versions'[i].goal].status # "none"
    <3>1. \A i \in DOMAIN versions : versions[i].goal \in GoalIds /\ Exists(versions[i].goal)
      BY RowsTyped DEF IInv, RowsInv, VersionRow
    <3> QED
      BY <1>2, <1>4, <1>5, <1>6, <1>7, <1>8, <3>1 DEF Exists, Appended
  <2> QED
    BY <2>1, <2>2 DEF RowsInv, Exists
<1>11. VersionsFormAChain'
  <2>1. Chain(h)'
    BY <1>2, <1>4, <1>6, <1>7, <1>8, ChainStarts
  <2>2. ASSUME NEW k \in GoalIds, Exists(k)', k # h PROVE Chain(k)'
    <3>1. Exists(k) /\ Chain(k) /\ goals'[k].current = goals[k].current
      BY <1>1, <1>5, <1>8, <2>2, ChainsOfAll DEF IInv, Exists
    <3> QED
      BY <1>4, <1>7, <2>2, <3>1, ChainKept DEF IInv
  <2>3. \A k \in GoalIds : goals'[k].status # "none" => Chain(k)'
    BY <2>1, <2>2 DEF Exists
  <2> QED
    BY <2>3 DEF VersionsFormAChain, Chain, Exists
<1>12. AcceptedOnceAsProposed'
  <2>1. \A q \in Proposals : /\ Adaptation(q)' <=> Adaptation(q)
                             /\ Adaptation(q) => proposals'[q] = proposals[q]
    BY <1>1 DEF Adaptation
  <2> QED
    BY <1>4, <1>7, <2>1, AcceptedKept
<1>13. EndingInv'
  <2>1. /\ \A change : Agreed(h, change) = {}
        /\ Heirs(h) = {} /\ goals[h].replaces = None
    BY <1>2, NothingOfNoGoal DEF NoGoal
  <2>2. Agreed(g, "propose_abandonment") = {} /\ Agreed(g, "propose_replacement") = {} /\ Heirs(g) = {}
    BY EndedEach DEF OneIf
  <2>3. Heirs(g)' = {h}
    BY <1>5, <1>6, <1>8, <2>2 DEF Heirs
  <2>4. ASSUME NEW k \in GoalIds, k # g PROVE Heirs(k)' = Heirs(k)
    BY <1>2, <1>5, <1>6, <1>8, <2>1, <2>4, NoneIsNoRow DEF Heirs
  <2>5. /\ OneIf(goals'[g].status = "abandoned", Agreed(g, "propose_abandonment")')
        /\ OneIf(goals'[g].status = "replaced", Agreed(g, "propose_replacement")')
        /\ OneIf(goals'[g].status = "replaced", Heirs(g)')
    <3>1. /\ Agreed(g, "propose_abandonment")' = Agreed(g, "propose_abandonment")
          /\ Agreed(g, "propose_replacement")' = Agreed(g, "propose_replacement") \union {p}
      BY AgreedAfter
    <3> QED
      BY <1>5, <1>8, <2>2, <2>3, <3>1 DEF OneIf
  <2>6. /\ OneIf(goals'[h].status = "abandoned", Agreed(h, "propose_abandonment")')
        /\ OneIf(goals'[h].status = "replaced", Agreed(h, "propose_replacement")')
        /\ OneIf(goals'[h].status = "replaced", Heirs(h)')
    <3>1. /\ Agreed(h, "propose_abandonment")' = {} /\ Agreed(h, "propose_replacement")' = {}
      BY <1>2, <2>1, AgreedAfter
    <3> QED
      BY <1>2, <1>6, <1>8, <2>1, <2>4, <3>1 DEF OneIf
  <2>7. ASSUME NEW k \in GoalIds, k # g, k # h
        PROVE  /\ OneIf(goals'[k].status = "abandoned", Agreed(k, "propose_abandonment")')
               /\ OneIf(goals'[k].status = "replaced", Agreed(k, "propose_replacement")')
               /\ OneIf(goals'[k].status = "replaced", Heirs(k)')
    BY <1>8, <2>4, <2>7, AgreedAfter, EndedEach
  <2> QED
    BY <2>5, <2>6, <2>7, EndingOfEach
<1> QED
  BY <1>9, <1>10, <1>11, <1>12, <1>13 DEF IInv

\* accept_proposal(), whatever the change.
LEMMA AcceptProposalStep ==
  ASSUME IInv, NEW p \in Proposals, AcceptProposal(p)
  PROVE  IInv'
<1>1. PICK g \in GoalIds : proposals[p].goal = g
  BY Resolved DEF AcceptProposal
<1>2. Resolve(p, "accepted") /\ UNCHANGED <<clock, records, recoveries>>
  BY DEF AcceptProposal
<1>3. CASE proposals[p].change = "adapt_target" /\ Adapt(p, g)
  BY <1>1, <1>2, <1>3, AcceptAdaptationStep
<1>4. CASE proposals[p].change = "propose_replacement" /\ Replace(p, g)
  <2>1. PICK h \in GoalIds : Successor(p, g, h)
    BY <1>4 DEF Replace
  <2>2. goals[g].status \in {"active", "paused"}
    BY <1>4 DEF Replace
  <2> QED
    BY <1>1, <1>2, <1>4, <2>1, <2>2, AcceptReplacementStep
<1>5. CASE proposals[p].change = "propose_abandonment" /\ Abandon(g)
  BY <1>1, <1>2, <1>5, AcceptAbandonmentStep
<1>6. CASE proposals[p].change = "no_change" /\ UNCHANGED <<goals, versions>>
  BY <1>2, <1>6, AcceptNothingStep
<1> QED
  BY <1>1, <1>3, <1>4, <1>5, <1>6 DEF AcceptProposal

----------------------------------------------------------------------------
(* Startups and time *)

\* A step of time, or one that only adds to the observations.
LEMMA ObservationStep ==
  ASSUME IInv, clock' \in {clock, clock + 1}, clock' \in 0..MaxClock, records' \in 0..MaxRecords,
         UNCHANGED <<goals, versions, proposals, recoveries>>
  PROVE  IInv'
<1>1. \A p \in Proposals : proposals[p].expires \in Nat
  BY RowsTyped DEF IInv, ProposalRow
<1>2. clock \in Nat /\ clock' \in Nat /\ clock <= clock'
  BY RowsTyped, GoalBounds DEF IInv
<1>3. \A r \in Recoveries : recoveries[r].now \in Nat
  BY RowsTyped DEF IInv, Recovery
<1>4. TypeOK' /\ RowsInv' /\ VersionsFormAChain'
  <2>1. TypeOK'
    BY DEF IInv, TypeOK, Exists
  <2>2. RowsInv' /\ VersionsFormAChain'
    BY HistoryKept DEF IInv
  <2> QED
    BY <2>1, <2>2
<1>5. AcceptedOnceAsProposed'
  BY AcceptedKept DEF Adaptation
<1>6. EndingInv'
  BY DEF IInv, EndingInv, OneIf, Agreed, Heirs
<1>7. RecoveryInv'
  BY <1>2, <1>3 DEF IInv, RecoveryInv, Overdue, OverdueBefore
<1>8. StartupsSettleOverdue'
  BY <1>1, <1>2 DEF IInv, StartupsSettleOverdue
<1> QED
  BY <1>4, <1>5, <1>6, <1>7, <1>8 DEF IInv

\* A startup begins, lists what is overdue, or is through.
LEMMA RecoveryStep ==
  ASSUME IInv, NEW r \in Recoveries, StartRecovery(r) \/ ListOverdue(r) \/ FinishRecovery(r)
  PROVE  IInv'
<1>1. /\ recoveries \in [Recoveries -> Recovery] /\ clock \in Nat
      /\ recoveries[r] \in Recovery /\ recoveries[r].now \in Nat
      /\ \A p \in Proposals : proposals[p] \in ProposalRow /\ proposals[p].expires \in Nat
      /\ UNCHANGED <<clock, goals, versions, proposals, records>>
  BY RowsTyped DEF IInv, TypeOK, ProposalRow, Recovery, StartRecovery, ListOverdue, FinishRecovery
<1>2. /\ recoveries' \in [Recoveries -> Recovery]
      /\ \A s \in Recoveries \ {r} : recoveries'[s] = recoveries[s]
      /\ recoveries'[r].now <= clock
      /\ recoveries'[r].pc = "idle" => recoveries'[r].left = {}
      /\ \A p \in recoveries'[r].left :
           proposals[p].status # "none" /\ proposals[p].expires <= recoveries'[r].now
      /\ recoveries'[r].pc = "resolving" =>
           OverdueBefore(recoveries'[r].now) \subseteq recoveries'[r].left
      /\ recoveries'[r].pc = "done" => OverdueBefore(recoveries'[r].now) = {}
  <2>1. CASE StartRecovery(r)
    <3>1. /\ recoveries' \in [Recoveries -> Recovery]
          /\ \A s \in Recoveries \ {r} : recoveries'[s] = recoveries[s]
          /\ recoveries'[r].pc = "starting" /\ recoveries'[r].now = clock
          /\ recoveries'[r].left = recoveries[r].left /\ recoveries[r].pc = "idle"
      BY <1>1, <2>1 DEF StartRecovery, Recovery
    <3> QED
      BY <1>1, <3>1 DEF IInv, RecoveryInv
  <2>2. CASE ListOverdue(r)
    <3>1. /\ recoveries' = [recoveries EXCEPT ![r] =
                              [@ EXCEPT !.pc = "resolving", !.left = Overdue(recoveries[r].now)]]
          /\ Overdue(recoveries[r].now) \subseteq Proposals
      BY <2>2 DEF ListOverdue, Overdue
    <3>2. /\ recoveries' \in [Recoveries -> Recovery]
          /\ \A s \in Recoveries \ {r} : recoveries'[s] = recoveries[s]
          /\ recoveries'[r].pc = "resolving" /\ recoveries'[r].now = recoveries[r].now
          /\ recoveries'[r].left = Overdue(recoveries[r].now)
      BY <1>1, <3>1 DEF Recovery
    <3> QED
      BY <3>2 DEF IInv, RecoveryInv, Overdue, OverdueBefore
  <2>3. CASE FinishRecovery(r)
    <3>1. /\ recoveries' \in [Recoveries -> Recovery]
          /\ \A s \in Recoveries \ {r} : recoveries'[s] = recoveries[s]
          /\ recoveries'[r].pc = "done" /\ recoveries'[r].now = recoveries[r].now
          /\ recoveries[r].left = {} /\ recoveries'[r].left = {} /\ recoveries[r].pc = "resolving"
      BY <1>1, <2>3 DEF FinishRecovery, Recovery
    <3> QED
      BY <1>1, <3>1 DEF IInv, RecoveryInv
  <2> QED
    BY <2>1, <2>2, <2>3
<1>3. TypeOK' /\ RowsInv' /\ VersionsFormAChain'
  <2>1. TypeOK'
    BY <1>1, <1>2 DEF IInv, TypeOK, Exists
  <2>2. RowsInv' /\ VersionsFormAChain'
    BY <1>1, HistoryKept DEF IInv
  <2> QED
    BY <2>1, <2>2
<1>4. AcceptedOnceAsProposed'
  BY <1>1, AcceptedKept DEF Adaptation
<1>5. EndingInv'
  BY <1>1 DEF IInv, EndingInv, OneIf, Agreed, Heirs
<1>6. RecoveryInv'
  BY <1>1, <1>2 DEF IInv, RecoveryInv, Overdue, OverdueBefore
<1>7. StartupsSettleOverdue'
  <2>1. ASSUME NEW s \in Recoveries, NEW p \in Proposals, recoveries'[s].pc = "done",
               proposals[p].status = "pending", proposals[p].created < recoveries'[s].now
        PROVE  proposals[p].expires > recoveries'[s].now
    <3>1. CASE s = r
      <4>1. proposals[p].expires \in Nat /\ recoveries'[r].now \in Nat
        BY <1>1, <1>2 DEF Recovery
      <4> QED
        BY <1>2, <2>1, <3>1, <4>1 DEF Overdue, OverdueBefore
    <3>2. CASE s # r
      BY <1>2, <2>1, <3>2 DEF IInv, StartupsSettleOverdue
    <3> QED
      BY <3>1, <3>2
  <2> QED
    BY <1>1, <2>1 DEF IInv, StartupsSettleOverdue
<1> QED
  BY <1>3, <1>4, <1>5, <1>6, <1>7 DEF IInv

\* A startup expires what it listed, or gives up because somebody else resolved it.
LEMMA ExpireListedStep ==
  ASSUME IInv, NEW r \in Recoveries, NEW p \in Proposals, ExpireListed(r, p)
  PROVE  IInv'
<1>1. /\ recoveries \in [Recoveries -> Recovery] /\ clock \in Nat
      /\ recoveries[r] \in Recovery /\ recoveries[r].now \in Nat /\ recoveries[r].now <= clock
      /\ recoveries[r].pc = "resolving" /\ p \in recoveries[r].left
      /\ proposals[p].expires \in Nat /\ proposals[p].expires <= recoveries[r].now
      /\ UNCHANGED <<clock, goals, versions, records>>
  BY RowsTyped DEF IInv, TypeOK, RecoveryInv, ProposalRow, Recovery, ExpireListed
<1>2. CASE Resolve(p, "expired") /\ recoveries' = [recoveries EXCEPT ![r].left = @ \ {p}]
  <2>1. /\ proposals' \in [Proposals -> ProposalRow]
        /\ \A q \in Proposals \ {p} : proposals'[q] = proposals[q]
        /\ proposals[p].status = "pending" /\ proposals'[p].status = "expired"
        /\ proposals'[p].goal = proposals[p].goal /\ proposals'[p].change = proposals[p].change
        /\ proposals'[p].titled = proposals[p].titled
        /\ proposals'[p].expires = proposals[p].expires
    BY <1>2, Resolved
  <2>2. /\ recoveries' \in [Recoveries -> Recovery]
        /\ \A s \in Recoveries \ {r} : recoveries'[s] = recoveries[s]
        /\ recoveries'[r].pc = "resolving" /\ recoveries'[r].now = recoveries[r].now
        /\ recoveries'[r].left = recoveries[r].left \ {p}
    BY <1>1, <1>2 DEF Recovery
  <2>3. /\ \A q \in Proposals : proposals'[q].status # "none" =>
             proposals'[q].goal \in GoalIds /\ goals'[proposals'[q].goal].status # "none"
        /\ RowsInv' /\ VersionsFormAChain' /\ AcceptedOnceAsProposed' /\ EndingInv'
    <3>1. \A q \in Proposals : proposals'[q].status # "none" =>
            proposals'[q].goal \in GoalIds /\ Exists(proposals'[q].goal)
      BY <2>1 DEF IInv, TypeOK
    <3> QED
      BY <1>1, <2>1, <3>1, GoalsKept
  <2>4. TypeOK'
    BY <1>1, <2>1, <2>2, <2>3 DEF IInv, TypeOK, Exists
  <2>5. RecoveryInv'
    <3>1. ASSUME NEW s \in Recoveries
          PROVE  /\ recoveries'[s].now <= clock
                 /\ recoveries'[s].pc = "idle" => recoveries'[s].left = {}
                 /\ \A q \in recoveries'[s].left :
                      proposals'[q].status # "none" /\ proposals'[q].expires <= recoveries'[s].now
      <4>1. /\ recoveries'[s].now = recoveries[s].now /\ recoveries'[s].pc = recoveries[s].pc
            /\ recoveries'[s].left \subseteq recoveries[s].left
            /\ recoveries[s].left \subseteq Proposals
        BY <1>1, <2>2, RowsTyped DEF IInv, Recovery
      <4>2. \A q \in Proposals :
              proposals'[q].expires = proposals[q].expires
              /\ (proposals[q].status # "none" => proposals'[q].status # "none")
        BY <2>1
      <4> QED
        BY <4>1, <4>2 DEF IInv, RecoveryInv
    <3>2. ASSUME NEW s \in Recoveries, recoveries'[s].pc = "resolving", NEW q \in Proposals,
                 proposals'[q].status = "pending", proposals'[q].expires <= recoveries'[s].now,
                 proposals'[q].created < recoveries'[s].now
          PROVE  q \in recoveries'[s].left
      <4>1. q # p /\ proposals'[q] = proposals[q] /\ recoveries'[s].now = recoveries[s].now
        BY <2>1, <2>2, <3>2
      <4>2. q \in recoveries[s].left
        <5>1. recoveries[s].pc = "resolving"
          BY <1>1, <2>2, <3>2
        <5> QED
          BY <3>2, <4>1, <5>1 DEF IInv, RecoveryInv, Overdue, OverdueBefore
      <4> QED
        BY <2>2, <4>1, <4>2
    <3> QED
      BY <1>1, <3>1, <3>2 DEF RecoveryInv, Overdue, OverdueBefore
  <2>6. StartupsSettleOverdue'
    <3>1. ASSUME NEW s \in Recoveries, NEW q \in Proposals, recoveries'[s].pc = "done",
                 proposals'[q].status = "pending", proposals'[q].created < recoveries'[s].now
          PROVE  proposals'[q].expires > recoveries'[s].now
      BY <2>1, <2>2, <3>1 DEF IInv, StartupsSettleOverdue
    <3>2. ASSUME NEW q \in Proposals, proposals'[q].status = "expired"
          PROVE  proposals'[q].expires <= clock
      BY <1>1, <2>1, <3>2 DEF IInv, StartupsSettleOverdue
    <3> QED
      BY <1>1, <3>1, <3>2 DEF StartupsSettleOverdue
  <2> QED
    BY <2>3, <2>4, <2>5, <2>6 DEF IInv
<1>3. CASE /\ recoveries' = [recoveries EXCEPT ![r] = [pc |-> "raised", now |-> 0, left |-> {}]]
           /\ proposals' = proposals
  <2>1. /\ recoveries' \in [Recoveries -> Recovery]
        /\ \A s \in Recoveries \ {r} : recoveries'[s] = recoveries[s]
        /\ recoveries'[r] = [pc |-> "raised", now |-> 0, left |-> {}]
    BY <1>1, <1>3 DEF Recovery
  <2>2. TypeOK'
    BY <1>1, <1>3, <2>1 DEF IInv, TypeOK, Exists
  <2>3. RowsInv' /\ VersionsFormAChain'
    BY <1>1, HistoryKept DEF IInv
  <2>4. AcceptedOnceAsProposed'
    BY <1>1, <1>3, AcceptedKept DEF Adaptation
  <2>5. EndingInv'
    BY <1>1, <1>3 DEF IInv, EndingInv, OneIf, Agreed, Heirs
  <2>6. RecoveryInv' /\ StartupsSettleOverdue'
    BY <1>1, <1>3, <2>1 DEF IInv, RecoveryInv, StartupsSettleOverdue, Overdue, OverdueBefore
  <2> QED
    BY <2>2, <2>3, <2>4, <2>5, <2>6 DEF IInv
<1> QED
  BY <1>2, <1>3 DEF ExpireListed

----------------------------------------------------------------------------
(* The theorems *)

\* Every step, and a stutter, keeps the invariant.
LEMMA NextIInv == IInv /\ [Next]_vars => IInv'
<1> SUFFICES ASSUME IInv, [Next]_vars PROVE IInv'
  OBVIOUS
<1>1. clock \in Nat /\ clock \in 0..MaxClock /\ records \in 0..MaxRecords
  BY RowsTyped DEF IInv, TypeOK
<1>2. CASE Tick
  BY <1>1, <1>2, GoalBounds, ObservationStep DEF Tick
<1>3. ASSUME NEW g \in GoalIds, RecordEvidence(g) \/ RecordEvaluation(g) PROVE IInv'
  BY <1>1, <1>3, GoalBounds, ObservationStep DEF RecordEvidence, RecordEvaluation
<1>4. CASE UNCHANGED vars
  BY <1>1, <1>4, ObservationStep DEF vars
<1>5. CASE \E g \in GoalIds :
             \/ CreateGoal(g) \/ PauseGoal(g) \/ ResumeGoal(g) \/ CompleteGoal(g) \/ ArchiveGoal(g)
             \/ \E p \in Proposals, change \in Changes, titled \in BOOLEAN, expires \in Expiries :
                  CreateChangeProposal(p, g, change, titled, expires)
  BY <1>5, CreateGoalStep, LifecycleStep, CreateChangeProposalStep
<1>6. CASE \E p \in Proposals : AcceptProposal(p) \/ DeclineProposal(p)
  BY <1>6, AcceptProposalStep, DeclineProposalStep
<1>7. CASE \E r \in Recoveries :
             \/ StartRecovery(r) \/ ListOverdue(r) \/ FinishRecovery(r)
             \/ \E p \in Proposals : ExpireListed(r, p)
  BY <1>7, RecoveryStep, ExpireListedStep
<1> QED
  BY <1>2, <1>3, <1>4, <1>5, <1>6, <1>7 DEF Next

\* IInv is an inductive invariant of goal management.
THEOREM Invariance == Spec => []IInv
BY InitIInv, NextIInv, PTL DEF Spec

\* The tables keep their types, and every id one row keeps of another is that of a row:
\* current_version_id has no foreign key.
THEOREM TypeCorrect == Spec => []TypeOK
<1>1. IInv => TypeOK
  BY DEF IInv
<1> QED
  BY <1>1, Invariance, PTL

\* GOAL-5: the versions of every goal are numbered without a gap or a repetition, each
\* supersedes the one before it, and the goal is at the last.
THEOREM HistoryIsAChain == Spec => []VersionsFormAChain
<1>1. IInv => VersionsFormAChain
  BY DEF IInv
<1> QED
  BY <1>1, Invariance, PTL

\* GOAL-6: an accepted adaptation is applied exactly once, as it was proposed, and no
\* version beyond a goal's first came about otherwise.
THEOREM AdaptationsAreAppliedOnce == Spec => []AcceptedOnceAsProposed
<1>1. IInv => AcceptedOnceAsProposed
  BY DEF IInv
<1> QED
  BY <1>1, Invariance, PTL

\* GOAL-6: a goal is abandoned, or replaced by one other, by one accepted proposal,
\* however many of them were pending.
THEOREM GoalsEndOnce == Spec => []EndedOnceByProposal
<1>1. ASSUME NEW condition \in BOOLEAN, NEW S, OneIf(condition, S)
      PROVE  Cardinality(S) = IF condition THEN 1 ELSE 0
  BY <1>1, FS_Singleton, FS_EmptySet DEF OneIf
<1>2. IInv => EndedOnceByProposal
  BY <1>1 DEF IInv, EndingInv, EndedOnceByProposal, Agreed, Heirs
<1> QED
  BY <1>2, Invariance, PTL

\* Section 9.3: a startup that is through has left no proposal of an earlier time pending
\* that was overdue when it began, and none is expired before its time.
THEOREM OverdueIsSettled == Spec => []StartupsSettleOverdue
<1>1. IInv => StartupsSettleOverdue
  BY DEF IInv
<1> QED
  BY <1>1, Invariance, PTL

=============================================================================
