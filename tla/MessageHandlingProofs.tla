----------------------- MODULE MessageHandlingProofs -----------------------
(***************************************************************************)
(* Commands, onboarding and conversation together, for any number of       *)
(* users, messages, templates, voices and identities.                      *)
(***************************************************************************)
EXTENDS MessageHandling, WellFoundedInduction, TLAPS

\* Every set of natural numbers that is not empty has a least one.
LEMMA LeastNatural ==
  ASSUME NEW S \in SUBSET Nat, S # {}
  PROVE  Talk!Min(S) \in S /\ \A y \in S : Talk!Min(S) <= y
<1>1. PICK x \in S : \A y \in S : ~(<<y, x>> \in OpToRel(<, Nat))
  BY NatLessThanWellFounded, WFMin
<1>2. ASSUME NEW y \in S PROVE x <= y
  <2>1. <<y, x>> \in Nat \X Nat /\ <<y, x>>[1] = y /\ <<y, x>>[2] = x
    OBVIOUS
  <2>2. ~(y < x)
    BY <1>1, <2>1 DEF OpToRel
  <2> QED
    BY <2>2
<1> QED
  BY <1>2 DEF Talk!Min

----------------------------------------------------------------------------
(* Tasks *)

Working(m) == work[m].pc \notin {"idle", "done"}

SaidLocked(m) ==
  \E i \in work[m].since..Len(reports[work[m].user]) :
    i > 0 /\ reports[work[m].user][i] = "locked"

\* What a command has read is still so, or was so when it read it.
CommandInv(m) ==
  /\ Working(m) =>
       work[m].user \in Users /\ work[m].since \in 0..Len(reports[work[m].user])
  /\ work[m].pc # "done" => assignments[m].status = "none"
  /\ work[m].pc \in {"mode", "listing", "loading", "inserting"} /\ work[m].lock = "locked"
       => SaidLocked(m)
  /\ work[m].pc \in {"loading", "inserting"} =>
       work[m].template \in Templates /\ Listed(work[m].template)
  /\ work[m].pc = "inserting" =>
       /\ work[m].version \in 1..Len(catalog[work[m].template].versions)
       /\ catalog[work[m].template].versions[work[m].version].locked
            => work[m].lock = "locked"
  /\ work[m].pc = "resolving" =>
       work[m].assignment \in Messages /\ assignments[work[m].assignment].status # "none"

TasksInv == TasksTypeOK /\ \A m \in Messages : CommandInv(m)

\* The lowest of some templates is one of them.
LEMMA SelectedIsOne ==
  ASSUME NEW ts \in SUBSET Templates, ts # {} PROVE Selected(ts) \in ts
<1>1. ts \in SUBSET Nat
  BY TemplatesAreOrdered
<1>2. Talk!Min(ts) \in ts
  BY <1>1, LeastNatural
<1> QED
  BY <1>2 DEF Selected, Min, Talk!Min

\* Reports and versions are only ever added.
ReportsGrow ==
  \A u \in Users :
    /\ Len(reports[u]) \in Nat /\ Len(reports'[u]) \in Nat
    /\ Len(reports[u]) <= Len(reports'[u])
    /\ \A i \in 1..Len(reports[u]) : reports'[u][i] = reports[u][i]

CatalogGrows ==
  \A t \in Templates :
    /\ Len(catalog[t].versions) \in Nat /\ Len(catalog'[t].versions) \in Nat
    /\ Len(catalog[t].versions) <= Len(catalog'[t].versions)
    /\ Listed(t) => catalog'[t].versions # <<>>
    /\ \A i \in 1..Len(catalog[t].versions) :
         catalog'[t].versions[i] = catalog[t].versions[i]

\* Commands of others, and those at rest, are not disturbed by what is only added.
LEMMA OthersKeepReading ==
  ASSUME NEW m \in Messages, CommandInv(m), work'[m] = work[m],
         assignments'[m].status = "none" <=> assignments[m].status = "none",
         \A a \in Messages : assignments[a].status # "none" => assignments'[a].status # "none",
         ReportsGrow, CatalogGrows, work[m].since \in Nat
  PROVE  CommandInv(m)'
<1> USE DEF ReportsGrow, CatalogGrows
<1>1. Working(m) =>
        work'[m].user \in Users /\ work'[m].since \in 0..Len(reports'[work'[m].user])
  BY DEF CommandInv
<1>2. work'[m].pc # "done" => assignments'[m].status = "none"
  BY DEF CommandInv
<1>3. ASSUME work'[m].pc \in {"mode", "listing", "loading", "inserting"},
             work'[m].lock = "locked"
      PROVE  \E i \in work'[m].since..Len(reports'[work'[m].user]) :
               i > 0 /\ reports'[work'[m].user][i] = "locked"
  <2>1. PICK i \in work[m].since..Len(reports[work[m].user]) :
          i > 0 /\ reports[work[m].user][i] = "locked"
    BY <1>3 DEF CommandInv, SaidLocked
  <2>2. work[m].user \in Users
    BY <1>3 DEF CommandInv, Working
  <2>3. i \in 1..Len(reports[work[m].user]) /\ i \in work[m].since..Len(reports'[work[m].user])
    BY <2>1, <2>2
  <2>4. reports'[work[m].user][i] = "locked"
    BY <2>1, <2>2, <2>3
  <2> QED
    BY <2>1, <2>3, <2>4
<1>4. work'[m].pc \in {"loading", "inserting"} =>
        work'[m].template \in Templates /\ catalog'[work'[m].template].versions # <<>>
  BY DEF CommandInv
<1>5. work'[m].pc = "inserting" =>
        /\ work'[m].version \in 1..Len(catalog'[work'[m].template].versions)
        /\ catalog'[work'[m].template].versions[work'[m].version].locked
             => work'[m].lock = "locked"
  <2>1. ASSUME work'[m].pc = "inserting"
        PROVE  /\ work[m].template \in Templates
               /\ work[m].version \in 1..Len(catalog[work[m].template].versions)
               /\ catalog[work[m].template].versions[work[m].version].locked
                    => work[m].lock = "locked"
    BY <2>1 DEF CommandInv
  <2>2. ASSUME work'[m].pc = "inserting"
        PROVE  /\ work[m].version \in 1..Len(catalog'[work[m].template].versions)
               /\ catalog'[work[m].template].versions[work[m].version]
                    = catalog[work[m].template].versions[work[m].version]
    BY <2>1, <2>2
  <2> QED
    BY <2>1, <2>2
<1>6. work'[m].pc = "resolving" =>
        work'[m].assignment \in Messages /\ assignments'[work'[m].assignment].status # "none"
  BY DEF CommandInv
<1>7. Working(m)' => Working(m)
  BY DEF Working
<1> QED
  BY <1>1, <1>2, <1>3, <1>4, <1>5, <1>6, <1>7 DEF CommandInv, SaidLocked, Listed

\* The sequences and records the tables consist of.
LEMMA TasksTyped ==
  ASSUME TasksTypeOK
  PROVE  /\ \A u \in Users : reports[u] \in Seq({"locked", "unlocked"}) /\ Len(reports[u]) \in Nat
         /\ \A t \in Templates : /\ catalog[t] \in Entry /\ catalog[t].versions \in Seq(Contents)
                                 /\ Len(catalog[t].versions) \in Nat
         /\ \A m \in Messages : work[m] \in WorkState /\ work[m].since \in Nat
         /\ \A a \in Messages : assignments[a] \in AssignmentRow
  BY DEF TasksTypeOK, Entry, WorkState

\* A command at rest, and what becomes of it.
LEMMA RestingIsWork ==
  /\ Resting \in WorkState
  /\ [Resting EXCEPT !.pc = "done"] \in WorkState /\ [Resting EXCEPT !.pc = "done"].pc = "done"
<1>1. Resting \in WorkState
  BY DEF Resting, WorkState, Commands, Knowledge, Modes
<1> QED
  BY <1>1 DEF WorkState

\* A command whose step changes nothing else has to keep its own part.
LEMMA ReadingSteps ==
  ASSUME TasksInv, NEW m \in Messages, NEW w \in WorkState,
         work' = [work EXCEPT ![m] = w],
         UNCHANGED <<catalog, reports, mode, assignments, edits>>,
         CommandInv(m)'
  PROVE  TasksInv'
<1>1. work' \in [Messages -> WorkState]
  BY DEF TasksInv, TasksTypeOK
<1>2. TasksTypeOK'
  BY <1>1 DEF TasksInv, TasksTypeOK, Listed, ActiveOf
<1>3. ReportsGrow /\ CatalogGrows
  BY TasksTyped DEF TasksInv, ReportsGrow, CatalogGrows, Listed
<1>4. ASSUME NEW n \in Messages, n # m PROVE CommandInv(n)'
  <2>1. work'[n] = work[n] /\ work[n].since \in Nat
    BY <1>4, TasksTyped DEF TasksInv, TasksTypeOK
  <2>2. CommandInv(n)
    BY DEF TasksInv
  <2> QED
    BY <2>1, <2>2, <1>3, OthersKeepReading
<1> QED
  BY <1>2, <1>4 DEF TasksInv

\* BeginCommand(), LookForAssignment() ... LoadTemplate().
LEMMA ReadsKeepTasks ==
  ASSUME TasksInv, NEW m \in Messages,
         \/ \E u \in Users, cmd \in Commands : BeginCommand(m, u, cmd)
         \/ LookForAssignment(m) \/ ReadLock(m) \/ ReadMode(m)
         \/ ListTemplates(m) \/ LoadTemplate(m)
  PROVE  TasksInv'
<1>1. /\ UNCHANGED <<catalog, reports, mode, assignments, edits>>
  BY DEF BeginCommand, LookForAssignment, ReadLock, ReadMode, ListTemplates, LoadTemplate
<1>2. ASSUME NEW w \in WorkState, work' = [work EXCEPT ![m] = w],
             w.pc \notin {"idle", "done"} =>
               w.user \in Users /\ w.since \in 0..Len(reports[w.user]),
             w.pc # "done" => assignments[m].status = "none",
             w.pc \in {"mode", "listing", "loading", "inserting"} /\ w.lock = "locked" =>
               \E i \in w.since..Len(reports[w.user]) : i > 0 /\ reports[w.user][i] = "locked",
             w.pc \in {"loading", "inserting"} => w.template \in Templates /\ Listed(w.template),
             w.pc = "inserting" =>
               /\ w.version \in 1..Len(catalog[w.template].versions)
               /\ catalog[w.template].versions[w.version].locked => w.lock = "locked",
             w.pc = "resolving" =>
               w.assignment \in Messages /\ assignments[w.assignment].status # "none"
      PROVE  TasksInv'
  <2>1. work'[m] = w
    BY <1>2 DEF TasksInv, TasksTypeOK
  <2>2. CommandInv(m)'
    BY <2>1, <1>1, <1>2 DEF CommandInv, Working, SaidLocked, Listed
  <2> QED
    BY <2>2, <1>1, <1>2, ReadingSteps
<1>3. CommandInv(m) /\ TasksTypeOK /\ work[m] \in WorkState
  BY TasksTyped DEF TasksInv
<1>4. ASSUME End(m) PROVE TasksInv'
  <2>1. work' = [work EXCEPT ![m] = [Resting EXCEPT !.pc = "done"]]
    BY <1>4 DEF End, Become
  <2> QED
    BY <2>1, <1>2, RestingIsWork
<1>5. ASSUME NEW u \in Users, NEW cmd \in Commands, BeginCommand(m, u, cmd) PROVE TasksInv'
  <2> DEFINE w == [Resting EXCEPT !.pc = FirstStep(cmd), !.cmd = cmd, !.user = u,
                                  !.since = Len(reports[u])]
  <2>1. work' = [work EXCEPT ![m] = w] /\ work[m].pc = "idle"
    BY <1>5 DEF BeginCommand, Become
  <2>2. /\ w \in WorkState /\ w.pc \in {"reporting", "looking"} /\ w.user = u
        /\ w.since = Len(reports[u]) /\ Len(reports[u]) \in Nat
    BY RestingIsWork, TasksTyped, <1>3 DEF WorkState, FirstStep
  <2> HIDE DEF w
  <2>3. assignments[m].status = "none"
    BY <2>1, <1>3 DEF CommandInv
  <2>4. w.since \in 0..Len(reports[w.user])
    BY <2>2
  <2> QED
    BY <2>1, <2>2, <2>3, <2>4, <1>2
<1>6. CASE LookForAssignment(m)
  <2>1. CASE End(m)
    BY <2>1, <1>4
  <2>2. ASSUME Become(m, [work[m] EXCEPT !.pc = "lock"]) PROVE TasksInv'
    <3> DEFINE w == [work[m] EXCEPT !.pc = "lock"]
    <3>1. w \in WorkState /\ w.pc = "lock" /\ w.user = work[m].user /\ w.since = work[m].since
      BY <1>3 DEF WorkState
    <3>2. work[m].pc = "looking"
      BY <1>6 DEF LookForAssignment
    <3> HIDE DEF w
    <3>3. work' = [work EXCEPT ![m] = w]
      BY <2>2 DEF Become, w
    <3> QED
      BY <3>1, <3>2, <3>3, <1>2, <1>3 DEF CommandInv, Working
  <2>3. ASSUME NEW a \in ActiveOf(work[m].user),
               Become(m, [work[m] EXCEPT !.pc = "resolving", !.assignment = a])
        PROVE  TasksInv'
    <3> DEFINE w == [work[m] EXCEPT !.pc = "resolving", !.assignment = a]
    <3>1. a \in Messages /\ assignments[a].status # "none"
      BY DEF ActiveOf
    <3>2. /\ w \in WorkState /\ w.pc = "resolving" /\ w.user = work[m].user
          /\ w.since = work[m].since /\ w.assignment = a
      BY <1>3, <3>1 DEF WorkState
    <3>3. work[m].pc = "looking"
      BY <1>6 DEF LookForAssignment
    <3> HIDE DEF w
    <3>4. work' = [work EXCEPT ![m] = w]
      BY <2>3 DEF Become, w
    <3> QED
      BY <3>1, <3>2, <3>3, <3>4, <1>2, <1>3 DEF CommandInv, Working
  <2> QED
    BY <2>1, <2>2, <2>3, <1>6 DEF LookForAssignment
<1>7. CASE ReadLock(m)
  <2> DEFINE u == work[m].user
             w == [work[m] EXCEPT !.pc = "mode", !.lock = KnownLock(u)]
  <2>1. /\ work[m].pc = "lock" /\ work' = [work EXCEPT ![m] = w]
        /\ u \in Users /\ work[m].since \in 0..Len(reports[u])
        /\ reports[u] \in Seq({"locked", "unlocked"}) /\ Len(reports[u]) \in Nat
        /\ assignments[m].status = "none"
    BY <1>3, <1>7, TasksTyped DEF ReadLock, Become, CommandInv, Working
  <2>2. KnownLock(u) \in Knowledge
    BY <2>1 DEF KnownLock, Knowledge
  <2>3. KnownLock(u) = "locked" =>
          Len(reports[u]) > 0 /\ reports[u][Len(reports[u])] = "locked"
    BY <2>1 DEF KnownLock
  <2>4. /\ w \in WorkState /\ w.pc = "mode" /\ w.user = u /\ w.since = work[m].since
        /\ w.lock = KnownLock(u)
    BY <2>2, <1>3 DEF WorkState
  <2> HIDE DEF w, u
  <2>5. KnownLock(u) = "locked" => Len(reports[u]) \in work[m].since..Len(reports[u])
    BY <2>1
  <2>6. w.lock = "locked" =>
          \E i \in w.since..Len(reports[w.user]) : i > 0 /\ reports[w.user][i] = "locked"
    BY <2>3, <2>4, <2>5
  <2> QED
    BY <2>1, <2>4, <2>6, <1>2
<1>8. CASE ReadMode(m)
  <2> DEFINE w == [work[m] EXCEPT !.pc = "listing", !.mode = mode]
  <2>1. work[m].pc = "mode" /\ work' = [work EXCEPT ![m] = w] /\ mode \in Modes
    BY <1>3, <1>8 DEF ReadMode, Become, TasksTypeOK
  <2>2. /\ w \in WorkState /\ w.pc = "listing" /\ w.user = work[m].user
        /\ w.since = work[m].since /\ w.lock = work[m].lock
    BY <2>1, <1>3 DEF WorkState
  <2> HIDE DEF w
  <2> QED
    BY <2>1, <2>2, <1>2, <1>3 DEF CommandInv, Working, SaidLocked
<1>9. CASE ListTemplates(m)
  <2> DEFINE eligible == EligibleTemplates(work[m].mode, work[m].lock)
             w == [work[m] EXCEPT !.pc = "loading", !.template = Selected(eligible)]
  <2>1. CASE eligible = {}
    BY <2>1, <1>4, <1>9 DEF ListTemplates
  <2>2. CASE eligible # {}
    <3>1. work[m].pc = "listing" /\ work' = [work EXCEPT ![m] = w]
      BY <2>2, <1>9 DEF ListTemplates, Become
    <3>2. eligible \in SUBSET Templates /\ \A t \in eligible : Listed(t)
      BY DEF EligibleTemplates
    <3>3. Selected(eligible) \in eligible
      BY <3>2, <2>2, SelectedIsOne
    <3>4. Selected(eligible) \in Templates /\ Listed(Selected(eligible))
      BY <3>2, <3>3
    <3> HIDE DEF eligible
    <3>5. /\ w \in WorkState /\ w.pc = "loading" /\ w.user = work[m].user
          /\ w.since = work[m].since /\ w.lock = work[m].lock
          /\ w.template = Selected(eligible)
      BY <3>4, <1>3 DEF WorkState
    <3> HIDE DEF w
    <3> QED
      BY <3>1, <3>4, <3>5, <1>2, <1>3 DEF CommandInv, Working, SaidLocked
  <2> QED
    BY <2>1, <2>2
<1>10. CASE LoadTemplate(m)
  <2> DEFINE t == work[m].template
             w == [work[m] EXCEPT !.pc = "inserting", !.version = catalog[t].current]
  <2>1. CASE End(m)
    BY <2>1, <1>4
  <2>2. CASE Eligible(Current(t), work[m].lock) /\ Become(m, w)
    <3>1. work[m].pc = "loading" /\ work' = [work EXCEPT ![m] = w]
      BY <2>2, <1>10 DEF LoadTemplate, Become
    <3>2. t \in Templates /\ Listed(t)
      BY <3>1, <1>3 DEF CommandInv
    <3>3. catalog[t].current \in 1..Len(catalog[t].versions) /\ catalog[t].current \in Nat
      BY <3>2, <1>3, TasksTyped DEF TasksTypeOK
    <3>4. catalog[t].versions[catalog[t].current].locked => work[m].lock = "locked"
      BY <2>2 DEF Eligible, Current
    <3>5. /\ w \in WorkState /\ w.pc = "inserting" /\ w.user = work[m].user
          /\ w.since = work[m].since /\ w.lock = work[m].lock
          /\ w.template = t /\ w.version = catalog[t].current
      BY <3>3, <1>3 DEF WorkState
    <3> HIDE DEF w
    <3> QED
      BY <3>1, <3>2, <3>3, <3>4, <3>5, <1>2, <1>3 DEF CommandInv, Working, SaidLocked
  <2> QED
    BY <2>1, <2>2, <1>10 DEF LoadTemplate
<1> QED
  BY <1>5, <1>6, <1>7, <1>8, <1>9, <1>10

\* A step that writes a row and ends, or only ends, or that changes what all read.
LEMMA WritingSteps ==
  ASSUME TasksInv, TasksTypeOK', ReportsGrow, CatalogGrows,
         \A n \in Messages : /\ \/ work'[n] = work[n]
                                \/ work'[n] = [Resting EXCEPT !.pc = "done"]
                             /\ assignments[n].status # "none" => assignments'[n].status # "none"
                             /\ work'[n] = work[n] /\ work[n].pc # "done"
                                  => assignments'[n].status = assignments[n].status
  PROVE  TasksInv'
<1> SUFFICES ASSUME NEW n \in Messages PROVE CommandInv(n)'
  BY DEF TasksInv
<1>1. CommandInv(n) /\ work[n].since \in Nat
  BY TasksTyped DEF TasksInv
<1>2. CASE work'[n].pc = "done"
  BY <1>2 DEF CommandInv, Working
<1>3. CASE work'[n].pc # "done"
  <2>1. work'[n] = work[n] /\ work[n].pc # "done"
    BY <1>3, RestingIsWork
  <2>2. assignments'[n].status = assignments[n].status
    BY <2>1
  <2> QED
    BY <1>1, <2>1, <2>2, OthersKeepReading
<1> QED
  BY <1>2, <1>3

\* The types of all that stays as it is.
LEMMA SameTables ==
  ASSUME TasksInv, UNCHANGED <<catalog, reports>> PROVE ReportsGrow /\ CatalogGrows
BY TasksTyped DEF TasksInv, ReportsGrow, CatalogGrows, Listed

\* One row is added or resolved: still one active assignment of a user.
LEMMA AssignmentsKeepTypes ==
  ASSUME TasksInv, NEW a \in Messages, NEW row \in AssignmentRow,
         assignments' = [assignments EXCEPT ![a] = row],
         row.status # "none", row.user \in Users, row.template \in Templates,
         row.version \in 1..Len(catalog[row.template].versions),
         row.status = "active" <=> row.resolvedVia = None,
         row.status = "active" => ActiveOf(row.user) = {},
         UNCHANGED <<catalog, reports, mode, edits>>, work' \in [Messages -> WorkState]
  PROVE  TasksTypeOK'
<1>1. /\ assignments' \in [Messages -> AssignmentRow]
      /\ assignments'[a] = row
      /\ \A b \in Messages : b # a => assignments'[b] = assignments[b]
  BY DEF TasksInv, TasksTypeOK
<1>2. \A b \in Messages : assignments'[b].status # "none" =>
        /\ assignments'[b].user \in Users /\ assignments'[b].template \in Templates
        /\ assignments'[b].version \in 1..Len(catalog'[assignments'[b].template].versions)
        /\ assignments'[b].status = "active" <=> assignments'[b].resolvedVia = None
  BY <1>1 DEF TasksInv, TasksTypeOK
<1>3. \A u \in Users : \A b, c \in ActiveOf(u)' : b = c
  <2> SUFFICES ASSUME NEW u \in Users, NEW b \in Messages, NEW c \in Messages,
                      assignments'[b].status = "active", assignments'[b].user = u,
                      assignments'[c].status = "active", assignments'[c].user = u
               PROVE  b = c
    BY DEF ActiveOf
  <2>1. CASE b # a /\ c # a
    BY <2>1, <1>1 DEF TasksInv, TasksTypeOK, ActiveOf
  <2>2. CASE b = a \/ c = a
    BY <2>2, <1>1 DEF ActiveOf
  <2> QED
    BY <2>1, <2>2
<1> QED
  BY <1>1, <1>2, <1>3 DEF TasksInv, TasksTypeOK, Listed

\* Insert(), ResolveAssignment().
LEMMA AssignmentStepsKeepTasks ==
  ASSUME TasksInv, NEW m \in Messages, Insert(m) \/ ResolveAssignment(m)
  PROVE  TasksInv'
<1>1. /\ work' = [work EXCEPT ![m] = [Resting EXCEPT !.pc = "done"]]
      /\ UNCHANGED <<catalog, reports, mode, edits>>
      /\ work \in [Messages -> WorkState] /\ work' \in [Messages -> WorkState]
  BY RestingIsWork DEF Insert, ResolveAssignment, End, Become, TasksInv, TasksTypeOK
<1>2. CommandInv(m) /\ TasksTypeOK /\ assignments[m] \in AssignmentRow
  BY TasksTyped DEF TasksInv
<1>3. CASE UNCHANGED assignments
  <2>1. TasksTypeOK'
    BY <1>1, <1>2, <1>3 DEF TasksTypeOK, Listed, ActiveOf
  <2>2. \A n \in Messages : work'[n] = work[n] \/ work'[n] = [Resting EXCEPT !.pc = "done"]
    BY <1>1
  <2> QED
    BY <2>1, <2>2, <1>1, <1>3, SameTables, WritingSteps
<1>4. CASE Insert(m) /\ ~UNCHANGED assignments
  <2> DEFINE row == NewAssignment(work[m])
  <2>1. /\ work[m].pc = "inserting" /\ ActiveOf(work[m].user) = {}
        /\ assignments' = [assignments EXCEPT ![m] = row]
    BY <1>4 DEF Insert, InsertAssignment
  <2>2. /\ work[m].user \in Users /\ work[m].template \in Templates
        /\ work[m].version \in 1..Len(catalog[work[m].template].versions)
        /\ work[m].version \in Nat /\ assignments[m].status = "none"
    BY <2>1, <1>1, <1>2 DEF CommandInv, Working, WorkState
  <2>3. /\ row \in AssignmentRow /\ row.status = "active" /\ row.user = work[m].user
        /\ row.template = work[m].template /\ row.version = work[m].version
        /\ row.resolvedVia = None
    BY <2>2 DEF NewAssignment, AssignmentRow
  <2> HIDE DEF row
  <2>4. TasksTypeOK'
    <3>1. row.version \in 1..Len(catalog[row.template].versions)
      BY <2>2, <2>3
    <3>2. row.status = "active" => ActiveOf(row.user) = {}
      BY <2>1, <2>3
    <3> QED
      BY <2>1, <2>2, <2>3, <3>1, <3>2, <1>1, AssignmentsKeepTypes
  <2>5. \A n \in Messages :
          /\ work'[n] = work[n] \/ work'[n] = [Resting EXCEPT !.pc = "done"]
          /\ assignments[n].status # "none" => assignments'[n].status # "none"
          /\ n # m => assignments'[n] = assignments[n]
    BY <1>1, <2>1, <2>3, <1>2 DEF TasksTypeOK
  <2>6. work'[m] # work[m]
    BY <1>1, <2>1, RestingIsWork
  <2> QED
    BY <2>4, <2>5, <2>6, <1>1, SameTables, WritingSteps
<1>5. CASE ResolveAssignment(m) /\ ~UNCHANGED assignments
  <2> DEFINE a == work[m].assignment
             row == [assignments[a] EXCEPT !.status = Outcome(work[m].cmd), !.resolvedVia = m]
  <2>1. /\ work[m].pc = "resolving" /\ assignments' = [assignments EXCEPT ![a] = row]
        /\ assignments[a].status = "active"
    BY <1>5 DEF ResolveAssignment, Resolve
  <2>2. /\ a \in Messages /\ assignments[a] \in AssignmentRow
        /\ assignments[a].user \in Users /\ assignments[a].template \in Templates
        /\ assignments[a].version \in 1..Len(catalog[assignments[a].template].versions)
    BY <2>1, <1>2, TasksTyped DEF CommandInv, TasksTypeOK
  <2>3. Outcome(work[m].cmd) \in {"completed", "cancelled"} /\ m # None
    BY NoneIsNotAMessage DEF Outcome
  <2>4. /\ row \in AssignmentRow /\ row.status = Outcome(work[m].cmd)
        /\ row.user = assignments[a].user /\ row.template = assignments[a].template
        /\ row.version = assignments[a].version /\ row.resolvedVia = m
    BY <2>2, <2>3 DEF AssignmentRow
  <2> HIDE DEF row, a
  <2>5. TasksTypeOK'
    <3>1. row.version \in 1..Len(catalog[row.template].versions)
      BY <2>2, <2>4
    <3>2. row.status # "none" /\ row.status # "active"
      BY <2>3, <2>4
    <3> QED
      BY <2>1, <2>2, <2>3, <2>4, <3>1, <3>2, <1>1, AssignmentsKeepTypes
  <2>6. \A n \in Messages :
          /\ work'[n] = work[n] \/ work'[n] = [Resting EXCEPT !.pc = "done"]
          /\ assignments[n].status # "none" => assignments'[n].status # "none"
          /\ n # a => assignments'[n] = assignments[n]
    BY <1>1, <2>1, <2>3, <2>4, <1>2 DEF TasksTypeOK
  <2>7. work'[a] = work[a] => work[a].pc = "done"
    <3>1. work[a].pc = "done"
      BY <2>1, <2>2 DEF TasksInv, CommandInv
    <3> QED
      BY <3>1
  <2> QED
    BY <2>5, <2>6, <2>7, <1>1, SameTables, WritingSteps
<1> QED
  BY <1>3, <1>4, <1>5

\* Report(): a report more.
LEMMA ReportKeepsTasks ==
  ASSUME TasksInv, NEW m \in Messages, Report(m) PROVE TasksInv'
<1> DEFINE u == work[m].user
           status == IF work[m].cmd = "report locked" THEN "locked" ELSE "unlocked"
<1>1. /\ work' = [work EXCEPT ![m] = [Resting EXCEPT !.pc = "done"]]
      /\ reports' = [reports EXCEPT ![u] = Append(@, status)]
      /\ UNCHANGED <<catalog, mode, assignments, edits>>
      /\ work[m].pc = "reporting"
      /\ work \in [Messages -> WorkState] /\ work' \in [Messages -> WorkState]
  BY RestingIsWork DEF Report, ReportStatus, End, Become, TasksInv, TasksTypeOK
<1>2. u \in Users /\ status \in {"locked", "unlocked"}
  BY <1>1 DEF TasksInv, CommandInv, Working
<1>3. reports \in [Users -> Seq({"locked", "unlocked"})]
  BY DEF TasksInv, TasksTypeOK
<1>4. reports' \in [Users -> Seq({"locked", "unlocked"})]
  <2>1. Append(reports[u], status) \in Seq({"locked", "unlocked"})
    BY <1>2, <1>3
  <2> HIDE DEF status, u
  <2> QED
    BY <2>1, <1>1, <1>2, <1>3
<1>5. ReportsGrow
  <2> SUFFICES ASSUME NEW v \in Users
               PROVE  /\ Len(reports[v]) \in Nat /\ Len(reports'[v]) \in Nat
                      /\ Len(reports[v]) <= Len(reports'[v])
                      /\ \A i \in 1..Len(reports[v]) : reports'[v][i] = reports[v][i]
    BY DEF ReportsGrow
  <2>1. reports[v] \in Seq({"locked", "unlocked"})
    BY <1>3
  <2>2. reports'[v] = reports[v] \/ reports'[v] = Append(reports[v], status)
    BY <1>1, <1>2, <1>3
  <2> HIDE DEF status
  <2> QED
    BY <2>1, <2>2, <1>2
<1>6. CatalogGrows
  <2>1. UNCHANGED catalog
    BY <1>1
  <2> QED
    BY <2>1, TasksTyped DEF TasksInv, CatalogGrows, Listed
<1>7. TasksTypeOK'
  <2>1. /\ UNCHANGED <<catalog, mode, assignments, edits>>
        /\ work' \in [Messages -> WorkState]
    BY <1>1
  <2> QED
    BY <2>1, <1>4 DEF TasksInv, TasksTypeOK, Listed, ActiveOf
<1>8. \A n \in Messages : work'[n] = work[n] \/ work'[n] = [Resting EXCEPT !.pc = "done"]
  BY <1>1
<1> QED
  BY <1>1, <1>5, <1>6, <1>7, <1>8, WritingSteps

\* Abandon(): what was committed stays.
LEMMA AbandonKeepsTasks ==
  ASSUME TasksInv, NEW ms \in SUBSET Messages, Abandon(ms) PROVE TasksInv'
<1>1. /\ UNCHANGED <<catalog, reports, mode, assignments, edits>>
      /\ work' = [m \in Messages |-> IF m \in ms /\ work[m].pc # "idle"
                                       THEN [Resting EXCEPT !.pc = "done"] ELSE work[m]]
  BY DEF Abandon
<1>2. \A n \in Messages : work'[n] = work[n] \/ work'[n] = [Resting EXCEPT !.pc = "done"]
  BY <1>1
<1>3. work' \in [Messages -> WorkState]
  <2>1. \A n \in Messages : work'[n] \in WorkState
    BY <1>2, RestingIsWork, TasksTyped DEF TasksInv
  <2> QED
    BY <1>1, <2>1
<1>4. TasksTypeOK'
  BY <1>1, <1>3 DEF TasksInv, TasksTypeOK, Listed, ActiveOf
<1> QED
  BY <1>1, <1>2, <1>4, SameTables, WritingSteps

\* EditEntry(): an entry that has the versions it had, and points at one that exists.
LEMMA EditsKeepTasks ==
  ASSUME TasksInv, NEW t \in Templates, NEW entry \in Entry, EditEntry(t, entry),
         Len(catalog[t].versions) <= Len(entry.versions), entry.versions # <<>>,
         \A i \in 1..Len(catalog[t].versions) : entry.versions[i] = catalog[t].versions[i],
         entry.current \in 1..Len(entry.versions)
  PROVE  TasksInv'
<1>1. /\ catalog' = [catalog EXCEPT ![t] = entry] /\ edits < MaxEdits /\ edits' = edits + 1
      /\ UNCHANGED <<reports, mode, assignments, work>>
  BY DEF EditEntry
<1>2. catalog \in [Templates -> Entry] /\ edits \in 0..MaxEdits
  BY DEF TasksInv, TasksTypeOK
<1>3. /\ catalog' \in [Templates -> Entry] /\ catalog'[t] = entry
      /\ \A s \in Templates : s # t => catalog'[s] = catalog[s]
  BY <1>1, <1>2
<1>4. Len(entry.versions) \in Nat
  BY DEF Entry
<1>5. CatalogGrows
  <2> SUFFICES ASSUME NEW s \in Templates
               PROVE  /\ Len(catalog[s].versions) \in Nat /\ Len(catalog'[s].versions) \in Nat
                      /\ Len(catalog[s].versions) <= Len(catalog'[s].versions)
                      /\ Listed(s) => catalog'[s].versions # <<>>
                      /\ \A i \in 1..Len(catalog[s].versions) :
                           catalog'[s].versions[i] = catalog[s].versions[i]
    BY DEF CatalogGrows
  <2>1. Len(catalog[s].versions) \in Nat
    BY TasksTyped DEF TasksInv
  <2>2. CASE s = t
    BY <2>1, <2>2, <1>3, <1>4
  <2>3. CASE s # t
    <3>1. catalog'[s] = catalog[s]
      BY <2>3, <1>3
    <3> QED
      BY <2>1, <3>1 DEF Listed
  <2> QED
    BY <2>2, <2>3
<1>6. ReportsGrow
  <2>1. UNCHANGED reports
    BY <1>1
  <2> QED
    BY <2>1, TasksTyped DEF TasksInv, ReportsGrow
<1>7. edits' \in 0..MaxEdits
  BY <1>1, <1>2, MaxEditsType
<1>8. \A s \in Templates : catalog'[s].versions # <<>> =>
        catalog'[s].current \in 1..Len(catalog'[s].versions)
  BY <1>3 DEF TasksInv, TasksTypeOK, Listed
<1>9. \A b \in Messages : assignments[b].status # "none" =>
        assignments[b].version \in 1..Len(catalog'[assignments[b].template].versions)
  <2> SUFFICES ASSUME NEW b \in Messages, assignments[b].status # "none"
               PROVE  assignments[b].version \in 1..Len(catalog'[assignments[b].template].versions)
    OBVIOUS
  <2>1. /\ assignments[b].template \in Templates
        /\ assignments[b].version \in 1..Len(catalog[assignments[b].template].versions)
    BY DEF TasksInv, TasksTypeOK
  <2> QED
    BY <2>1, <1>5 DEF CatalogGrows
<1>10. TasksTypeOK'
  <2>1. \A u \in Users : \A b, c \in ActiveOf(u)' : b = c
    BY <1>1 DEF TasksInv, TasksTypeOK, ActiveOf
  <2>2. /\ reports' \in [Users -> Seq({"locked", "unlocked"})] /\ mode' \in Modes
        /\ assignments' \in [Messages -> AssignmentRow] /\ work' \in [Messages -> WorkState]
    BY <1>1 DEF TasksInv, TasksTypeOK
  <2>3. \A b \in Messages : assignments'[b].status # "none" =>
          /\ assignments'[b].user \in Users /\ assignments'[b].template \in Templates
          /\ assignments'[b].version \in 1..Len(catalog'[assignments'[b].template].versions)
          /\ assignments'[b].status = "active" <=> assignments'[b].resolvedVia = None
    <3>1. UNCHANGED assignments
      BY <1>1
    <3> QED
      BY <3>1, <1>9 DEF TasksInv, TasksTypeOK
  <2> QED
    BY <2>1, <2>2, <2>3, <1>3, <1>7, <1>8 DEF TasksTypeOK, Listed
<1>11. \A n \in Messages : work'[n] = work[n] /\ assignments'[n] = assignments[n]
  BY <1>1
<1> QED
  BY <1>5, <1>6, <1>10, <1>11, WritingSteps

\* The catalog and the mode are changed by others.
LEMMA GovernanceKeepsTasks == ASSUME TasksInv, Governance PROVE TasksInv'
<1>1. ASSUME NEW t \in Templates, NEW c \in Contents, CreateTemplate(t, c) PROVE TasksInv'
  <2> DEFINE entry == [versions |-> <<c>>, current |-> 1, active |-> TRUE]
  <2>1. EditEntry(t, entry) /\ catalog[t].versions = <<>>
    BY <1>1 DEF CreateTemplate, Listed
  <2>2. <<c>> \in Seq(Contents) /\ Len(<<c>>) = 1 /\ <<c>> # <<>>
    OBVIOUS
  <2>3. entry \in Entry /\ entry.versions = <<c>> /\ entry.current = 1
    BY <2>2 DEF Entry
  <2> HIDE DEF entry
  <2>4. Len(catalog[t].versions) = 0 /\ Len(entry.versions) = 1
    BY <2>1, <2>2, <2>3
  <2>5. /\ Len(catalog[t].versions) <= Len(entry.versions) /\ entry.versions # <<>>
        /\ entry.current \in 1..Len(entry.versions)
        /\ \A i \in 1..Len(catalog[t].versions) : entry.versions[i] = catalog[t].versions[i]
    BY <2>2, <2>3, <2>4
  <2>6. EditEntry(t, entry)
    BY <2>1
  <2>7. entry \in Entry
    BY <2>3
  <2> QED
    BY <2>5, <2>6, <2>7, EditsKeepTasks
<1>2. ASSUME NEW t \in Templates, NEW c \in Contents, AddVersion(t, c) PROVE TasksInv'
  <2> DEFINE old == catalog[t].versions
             entry == [catalog[t] EXCEPT !.versions = Append(old, c)]
  <2>1. /\ catalog[t] \in Entry /\ old \in Seq(Contents) /\ Len(old) \in Nat
        /\ old # <<>> /\ catalog[t].current \in 1..Len(old)
    BY <1>2, TasksTyped DEF TasksInv, TasksTypeOK, AddVersion, Listed
  <2>2. EditEntry(t, entry)
    BY <1>2, <2>1 DEF AddVersion, Entry
  <2>3. /\ Append(old, c) \in Seq(Contents) /\ Len(Append(old, c)) = Len(old) + 1
        /\ \A i \in 1..Len(old) : Append(old, c)[i] = old[i]
        /\ Append(old, c) # <<>>
    <3> HIDE DEF old
    <3> QED
      BY <2>1
  <2>4. /\ entry \in Entry /\ entry.versions = Append(old, c)
        /\ entry.current = catalog[t].current
    BY <2>1, <2>3 DEF Entry
  <2> HIDE DEF entry
  <2>5. entry.current \in 1..Len(entry.versions) /\ Len(old) <= Len(entry.versions)
    BY <2>1, <2>3, <2>4
  <2> QED
    BY <2>2, <2>3, <2>4, <2>5, EditsKeepTasks
<1>3. ASSUME NEW t \in Templates, NEW v \in 1..Len(catalog[t].versions), SetCurrentVersion(t, v)
      PROVE  TasksInv'
  <2> DEFINE entry == [catalog[t] EXCEPT !.current = v]
  <2>1. catalog[t] \in Entry /\ Len(catalog[t].versions) \in Nat
    BY TasksTyped DEF TasksInv
  <2>2. /\ EditEntry(t, entry) /\ entry \in Entry
        /\ entry.versions = catalog[t].versions /\ entry.current = v
    BY <1>3, <2>1 DEF SetCurrentVersion, Entry
  <2>3. catalog[t].versions # <<>>
    BY <2>1
  <2> HIDE DEF entry
  <2> QED
    BY <2>1, <2>2, <2>3, EditsKeepTasks
<1>4. ASSUME NEW t \in Templates, NEW active \in BOOLEAN, SetEligibility(t, active)
      PROVE  TasksInv'
  <2> DEFINE entry == [catalog[t] EXCEPT !.active = active]
  <2>1. /\ catalog[t] \in Entry /\ Len(catalog[t].versions) \in Nat
        /\ catalog[t].versions # <<>> /\ catalog[t].current \in 1..Len(catalog[t].versions)
    BY <1>4, TasksTyped DEF TasksInv, TasksTypeOK, SetEligibility, Listed
  <2>2. /\ EditEntry(t, entry) /\ entry \in Entry
        /\ entry.versions = catalog[t].versions /\ entry.current = catalog[t].current
    BY <1>4, <2>1 DEF SetEligibility, Entry
  <2> HIDE DEF entry
  <2> QED
    BY <2>1, <2>2, EditsKeepTasks
<1>5. ASSUME NEW to \in Modes, ModeChanges(to) PROVE TasksInv'
  <2>1. /\ UNCHANGED <<catalog, reports, assignments, work>> /\ mode' \in Modes
        /\ edits' \in 0..MaxEdits
    BY <1>5, MaxEditsType DEF ModeChanges, TasksInv, TasksTypeOK
  <2>2. TasksTypeOK'
    BY <2>1 DEF TasksInv, TasksTypeOK, Listed, ActiveOf
  <2> QED
    BY <2>1, <2>2, SameTables, WritingSteps
<1> QED
  BY <1>1, <1>2, <1>3, <1>4, <1>5 DEF Governance

\* Every step of a command, of the process or of others.
LEMMA TasksNextKeeps == ASSUME TasksInv, [TasksNext]_tasksVars PROVE TasksInv'
<1>1. CASE UNCHANGED tasksVars
  <2>1. UNCHANGED <<catalog, reports, mode, assignments, work, edits>>
    BY <1>1 DEF tasksVars
  <2>2. TasksTypeOK'
    BY <2>1 DEF TasksInv, TasksTypeOK, Listed, ActiveOf
  <2> QED
    BY <2>1, <2>2, SameTables, WritingSteps
<1>2. ASSUME NEW m \in Messages,
             CommandStep(m) \/ \E u \in Users, cmd \in Commands : BeginCommand(m, u, cmd)
      PROVE  TasksInv'
  BY <1>2, ReadsKeepTasks, AssignmentStepsKeepTasks, ReportKeepsTasks DEF CommandStep
<1>3. ASSUME NEW ms \in SUBSET Messages, Abandon(ms) PROVE TasksInv'
  BY <1>3, AbandonKeepsTasks
<1> QED
  BY <1>1, <1>2, <1>3, GovernanceKeepsTasks DEF TasksNext

\* Before any message no command runs, and every template has one version.
LEMMA TasksStartSound == ASSUME TasksInit PROVE TasksInv
<1>1. /\ <<>> \in Seq(Contents) /\ <<>> \in Seq({"locked", "unlocked"})
      /\ \A c \in Contents : <<c>> \in Seq(Contents) /\ Len(<<c>>) = 1
  OBVIOUS
<1>2. \A t \in Templates :
        catalog[t] \in Entry /\ (Listed(t) => catalog[t].current \in 1..Len(catalog[t].versions))
  <2> TAKE t \in Templates
  <2>1. CASE catalog[t] = NoEntry
    BY <2>1, <1>1 DEF Entry, NoEntry, Listed
  <2>2. ASSUME NEW c \in Contents,
               catalog[t] = [versions |-> <<c>>, current |-> 1, active |-> TRUE]
        PROVE  catalog[t] \in Entry /\ catalog[t].current \in 1..Len(catalog[t].versions)
    <3>1. catalog[t].versions = <<c>> /\ catalog[t].current = 1
      BY <2>2
    <3>2. catalog[t] \in Entry
      BY <2>2, <1>1 DEF Entry
    <3> QED
      BY <3>1, <3>2, <1>1
  <2> QED
    BY <2>1, <2>2 DEF TasksInit
<1>3. catalog \in [Templates -> Entry]
  BY <1>2 DEF TasksInit
<1>4. \A m \in Messages : work[m] = Resting /\ work[m].pc = "idle" /\ assignments[m] = NoAssignment
  BY DEF TasksInit, Resting
<1>5. /\ work \in [Messages -> WorkState] /\ assignments \in [Messages -> AssignmentRow]
      /\ reports \in [Users -> Seq({"locked", "unlocked"})] /\ mode \in Modes
      /\ edits \in 0..MaxEdits
  BY <1>1, RestingIsWork, MaxEditsType DEF TasksInit, NoAssignment, AssignmentRow, Modes
<1>6. TasksTypeOK
  BY <1>2, <1>3, <1>4, <1>5 DEF TasksTypeOK, ActiveOf, NoAssignment
<1> QED
  BY <1>4, <1>6 DEF TasksInv, CommandInv, Working, NoAssignment

\* A step that assigns is the last of a command that saw the user report the lock.
LEMMA AssignmentNeedsLock ==
  ASSUME TasksInv, [TasksNext]_tasksVars, NEW m \in Messages, Assigned(m)
  PROVE  catalog[assignments'[m].template].versions[assignments'[m].version].locked => SaidLocked(m)
<1>1. ASSUME NEW n \in Messages, Insert(n)
      PROVE  /\ n = m /\ work[m].pc = "inserting" /\ assignments'[m].template = work[m].template
             /\ assignments'[m].version = work[m].version
  <2>1. assignments' = [assignments EXCEPT ![n] = NewAssignment(work[n])] \/ assignments' = assignments
    BY <1>1 DEF Insert, InsertAssignment
  <2> QED
    BY <2>1, <1>1 DEF Assigned, NewAssignment, Insert, TasksInv, TasksTypeOK
<1>2. ASSUME NEW n \in Messages, ResolveAssignment(n) PROVE FALSE
  <2>1. \/ assignments' = assignments
        \/ /\ work[n].assignment \in Messages /\ assignments[work[n].assignment].status = "active"
           /\ \A a \in Messages : a # work[n].assignment => assignments'[a] = assignments[a]
    BY <1>2 DEF ResolveAssignment, Resolve, TasksInv, TasksTypeOK, CommandInv
  <2> QED
    BY <2>1 DEF Assigned
<1>3. UNCHANGED assignments \/ \E n \in Messages : Insert(n) \/ ResolveAssignment(n)
  BY DEF TasksNext, tasksVars, CommandStep, BeginCommand, LookForAssignment, ReadLock, ReadMode,
         ListTemplates, LoadTemplate, Report, Abandon, Governance, CreateTemplate, AddVersion,
         SetCurrentVersion, SetEligibility, EditEntry, ModeChanges
<1>4. Insert(m)
  BY <1>1, <1>2, <1>3 DEF Assigned
<1> QED
  BY <1>1, <1>4 DEF TasksInv, CommandInv

\* A step that writes an assignment that exists resolves one that is active.
LEMMA WritesOfAssignments ==
  ASSUME TasksInv, [TasksNext]_tasksVars, NEW a \in Messages, assignments[a].status # "none"
  PROVE  /\ assignments'[a].template = assignments[a].template
         /\ assignments'[a].version = assignments[a].version
         /\ assignments[a].status # "active" => assignments'[a] = assignments[a]
<1>1. ASSUME NEW n \in Messages, Insert(n) PROVE assignments'[a] = assignments[a]
  <2>1. assignments[n].status = "none"
    BY <1>1 DEF Insert, TasksInv, CommandInv
  <2> QED
    BY <2>1, <1>1 DEF Insert, InsertAssignment, TasksInv, TasksTypeOK
<1>2. ASSUME NEW n \in Messages, ResolveAssignment(n)
      PROVE  /\ assignments'[a].template = assignments[a].template
             /\ assignments'[a].version = assignments[a].version
             /\ assignments[a].status # "active" => assignments'[a] = assignments[a]
  <2> DEFINE b == work[n].assignment
  <2>1. assignments[a] \in AssignmentRow /\ assignments \in [Messages -> AssignmentRow]
    BY DEF TasksInv, TasksTypeOK
  <2>2. CASE UNCHANGED assignments
    BY <2>2
  <2>3. CASE /\ assignments[b].status = "active"
             /\ assignments' = [assignments EXCEPT ![b] =
                  [assignments[b] EXCEPT !.status = Outcome(work[n].cmd), !.resolvedVia = n]]
    <3>1. CASE a # b
      BY <3>1, <2>1, <2>3
    <3>2. CASE a = b
      <4>1. assignments'[a] =
              [assignments[a] EXCEPT !.status = Outcome(work[n].cmd), !.resolvedVia = n]
        BY <3>2, <2>1, <2>3
      <4> QED
        BY <4>1, <3>2, <2>1, <2>3 DEF AssignmentRow
    <3> QED
      BY <3>1, <3>2
  <2> QED
    BY <2>2, <2>3, <1>2 DEF ResolveAssignment, Resolve
<1>3. UNCHANGED assignments \/ \E n \in Messages : Insert(n) \/ ResolveAssignment(n)
  BY DEF TasksNext, tasksVars, CommandStep, BeginCommand, LookForAssignment, ReadLock, ReadMode,
         ListTemplates, LoadTemplate, Report, Abandon, Governance, CreateTemplate, AddVersion,
         SetCurrentVersion, SetEligibility, EditEntry, ModeChanges
<1> QED
  BY <1>1, <1>2, <1>3

----------------------------------------------------------------------------
(* Onboarding *)

\* What was read of someone's preferences was so then: they are the same, or further.
SeenBefore(seen, row) ==
  /\ Position(seen.step) <= Position(row.step)
  /\ seen.step = row.step => seen = row

HandlingInv ==
  /\ accounts \subseteq Users
  /\ preferences \in [Users -> PreferencesRow]
  /\ \A u \in Users : /\ Consistent(preferences[u])
                       /\ (u \in accounts \/ preferences[u] = NoPreferences)
  /\ handling \in [Messages -> HandlingState]
  /\ restarts \in 0..MaxRestarts
  /\ \A m \in Messages :
       /\ handling[m].pc # "unsent" => handling[m].user \in Users
       /\ handling[m].pc = "answering" =>
            /\ handling[m].seen.step \in {"language", "ai_gender", "personality"}
            /\ SeenBefore(handling[m].seen, preferences[handling[m].user])

\* The steps, in order.
LEMMA StepsInOrder ==
  /\ {"none"} \union {Steps[i] : i \in DOMAIN Steps}
       = {"none", "language", "ai_gender", "personality", "complete"}
  /\ Position("none") = 0 /\ Position("language") = 1 /\ Position("ai_gender") = 2
  /\ Position("personality") = 3 /\ Position("complete") = 4
  /\ Following("language") = "ai_gender" /\ Following("ai_gender") = "personality"
  /\ Following("personality") = "complete"
<1>1. /\ DOMAIN Steps = 1..4 /\ Steps[1] = "language" /\ Steps[2] = "ai_gender"
      /\ Steps[3] = "personality" /\ Steps[4] = "complete"
  BY DEF Steps
<1>2. \A i \in DOMAIN Steps : i = 1 \/ i = 2 \/ i = 3 \/ i = 4
  BY <1>1
<1>3. ASSUME NEW k \in 1..4
      PROVE  (CHOOSE i \in DOMAIN Steps : Steps[i] = Steps[k]) = k
  BY <1>1, <1>2
<1>4. {"none"} \union {Steps[i] : i \in DOMAIN Steps}
        = {"none", "language", "ai_gender", "personality", "complete"}
  <2>1. 1 \in DOMAIN Steps /\ 2 \in DOMAIN Steps /\ 3 \in DOMAIN Steps /\ 4 \in DOMAIN Steps
    BY <1>1
  <2> QED
    BY <1>1, <1>2, <2>1
<1>5. /\ 1 \in 1..4 /\ 2 \in 1..4 /\ 3 \in 1..4 /\ 4 \in 1..4
  OBVIOUS
<1>6. /\ (CHOOSE i \in DOMAIN Steps : Steps[i] = "language") = 1
      /\ (CHOOSE i \in DOMAIN Steps : Steps[i] = "ai_gender") = 2
      /\ (CHOOSE i \in DOMAIN Steps : Steps[i] = "personality") = 3
      /\ (CHOOSE i \in DOMAIN Steps : Steps[i] = "complete") = 4
  BY <1>1, <1>3, <1>5
<1> HIDE DEF Steps
<1> QED
  BY <1>1, <1>4, <1>6 DEF Position, Following

\* An answer that is written is the next one, and consistent with those before it.
LEMMA AdvanceIsNext ==
  ASSUME NEW row \in PreferencesRow, Consistent(row),
         row.step \in {"language", "ai_gender", "personality"},
         NEW answer \in Accepted(row)
  PROVE  LET next == Written(row, row.step, answer)
         IN /\ next \in PreferencesRow /\ Consistent(next)
            /\ Position(next.step) = Position(row.step) + 1
            /\ row.language # None => next.language = row.language
            /\ row.gender # None => next.gender = row.gender
            /\ row.identity # None => next.identity = row.identity
<1> DEFINE next == Written(row, row.step, answer)
           Known == {"none", "language", "ai_gender", "personality", "complete"}
<1>0. PreferencesRow = [step: Known, language: Languages \union {None},
                        gender: Genders \union {None}, identity: Identities \union {None}]
  BY StepsInOrder DEF PreferencesRow
<1>1. CASE row.step = "language"
  <2>1. PICK l \in Languages :
          answer = [[row EXCEPT !.step = "ai_gender"] EXCEPT !.language = l]
    <3> DEFINE r == [row EXCEPT !.step = Following(row.step)]
    <3>1. answer \in {[r EXCEPT !.language = l] : l \in Languages}
      BY <1>1 DEF Accepted
    <3>2. r = [row EXCEPT !.step = "ai_gender"]
      BY <1>1, StepsInOrder
    <3> HIDE DEF r
    <3> QED
      BY <3>1, <3>2
  <2>2. answer.step = "ai_gender" /\ answer.language = l
    <3> DEFINE r == [row EXCEPT !.step = "ai_gender"]
    <3>1. r \in PreferencesRow /\ r.step = "ai_gender"
      BY <1>0
    <3>2. answer = [r EXCEPT !.language = l]
      BY <2>1
    <3> HIDE DEF r
    <3> QED
      BY <3>1, <3>2, <1>0
  <2>3. next = [row EXCEPT !.step = "ai_gender", !.language = l]
    BY <1>1, <2>2 DEF Written
  <2>4. /\ next.step = "ai_gender" /\ next.language = l /\ next.gender = row.gender
        /\ next.identity = row.identity /\ next \in PreferencesRow
    BY <2>3, <1>0
  <2>5. row.language = None /\ row.gender = None /\ row.identity = None /\ l # None
    BY <1>1, NoneIsNoAnswer DEF Consistent
  <2> HIDE DEF next
  <2>6. Consistent(next)
    BY <2>4, <2>5 DEF Consistent
  <2>7. Position(next.step) = Position(row.step) + 1
    BY <2>4, <1>1, StepsInOrder
  <2> QED
    BY <2>4, <2>5, <2>6, <2>7 DEF next
<1>2. CASE row.step = "ai_gender"
  <2>1. PICK g \in Genders :
          answer = [[row EXCEPT !.step = "personality"] EXCEPT !.gender = g]
    <3> DEFINE r == [row EXCEPT !.step = Following(row.step)]
    <3>1. answer \in {[r EXCEPT !.gender = g] : g \in Genders}
      BY <1>2 DEF Accepted
    <3>2. r = [row EXCEPT !.step = "personality"]
      BY <1>2, StepsInOrder
    <3> HIDE DEF r
    <3> QED
      BY <3>1, <3>2
  <2>2. answer.step = "personality" /\ answer.gender = g
    <3> DEFINE r == [row EXCEPT !.step = "personality"]
    <3>1. r \in PreferencesRow /\ r.step = "personality"
      BY <1>0
    <3>2. answer = [r EXCEPT !.gender = g]
      BY <2>1
    <3> HIDE DEF r
    <3> QED
      BY <3>1, <3>2, <1>0
  <2>3. next = [row EXCEPT !.step = "personality", !.gender = g]
    BY <1>2, <2>2 DEF Written
  <2>4. /\ next.step = "personality" /\ next.gender = g /\ next.language = row.language
        /\ next.identity = row.identity /\ next \in PreferencesRow
    BY <2>3, <1>0
  <2>5. row.language # None /\ row.gender = None /\ row.identity = None /\ g # None
    BY <1>2, NoneIsNoAnswer DEF Consistent
  <2> HIDE DEF next
  <2>6. Consistent(next)
    BY <2>4, <2>5 DEF Consistent
  <2>7. Position(next.step) = Position(row.step) + 1
    BY <2>4, <1>2, StepsInOrder
  <2> QED
    BY <2>4, <2>5, <2>6, <2>7 DEF next
<1>3. CASE row.step = "personality"
  <2>1. PICK i \in Identities :
          /\ answer = [[row EXCEPT !.step = "complete"] EXCEPT !.identity = i]
          /\ GroupOf[i] = row.gender
    <3> DEFINE r == [row EXCEPT !.step = Following(row.step)]
    <3>1. answer \in {[r EXCEPT !.identity = i] :
                        i \in {i \in Identities : GroupOf[i] = row.gender}}
      BY <1>3 DEF Accepted
    <3>2. r = [row EXCEPT !.step = "complete"]
      BY <1>3, StepsInOrder
    <3> HIDE DEF r
    <3> QED
      BY <3>1, <3>2
  <2>2. answer.step = "complete" /\ answer.identity = i
    <3> DEFINE r == [row EXCEPT !.step = "complete"]
    <3>1. r \in PreferencesRow /\ r.step = "complete"
      BY <1>0
    <3>2. answer = [r EXCEPT !.identity = i]
      BY <2>1
    <3> HIDE DEF r
    <3> QED
      BY <3>1, <3>2, <1>0
  <2>3. next = [row EXCEPT !.step = "complete", !.identity = i]
    BY <1>3, <2>2 DEF Written
  <2>4. /\ next.step = "complete" /\ next.identity = i /\ next.language = row.language
        /\ next.gender = row.gender /\ next \in PreferencesRow
    BY <2>3, <1>0
  <2>5. row.language # None /\ row.gender # None /\ row.identity = None /\ i # None
    BY <1>3, NoneIsNoAnswer DEF Consistent
  <2> HIDE DEF next
  <2>6. Consistent(next)
    BY <2>1, <2>4, <2>5 DEF Consistent
  <2>7. Position(next.step) = Position(row.step) + 1
    BY <2>4, <1>3, StepsInOrder
  <2> QED
    BY <2>4, <2>5, <2>6, <2>7 DEF next
<1> QED
  BY <1>1, <1>2, <1>3

\* What one step does to the preferences of a user.
RowAdvances(row, next) ==
  /\ next \in PreferencesRow /\ Consistent(next)
  /\ Position(next.step) = Position(row.step) + 1
  /\ row.language # None => next.language = row.language
  /\ row.gender # None => next.gender = row.gender
  /\ row.identity # None => next.identity = row.identity

\* The first question is asked, or the current one answered.
LEMMA PreferencesAdvance ==
  ASSUME HandlingInv, [Next]_vars, NEW u \in Users, preferences'[u] # preferences[u]
  PROVE  u \in accounts /\ RowAdvances(preferences[u], preferences'[u])
<1>1. /\ preferences[u] \in PreferencesRow /\ Consistent(preferences[u])
      /\ preferences \in [Users -> PreferencesRow]
  BY DEF HandlingInv
<1>2. PICK m \in Messages : ResolvePreferences(m) \/ AnswerStep(m)
  BY DEF Next, Step, Receive, ResolveUser, Route, Command, Turn, Fail, Restart, Govern, vars,
         onboarding
<1>3. CASE ResolvePreferences(m)
  <2>1. /\ handling[m].user = u /\ u \in accounts /\ preferences[u].step = "none"
        /\ preferences' = [preferences EXCEPT ![u].step = "language"]
    BY <1>1, <1>3 DEF ResolvePreferences
  <2>2. preferences'[u] = [preferences[u] EXCEPT !.step = "language"]
    BY <1>1, <2>1
  <2>3. /\ preferences[u].language = None /\ preferences[u].gender = None
        /\ preferences[u].identity = None
    BY <1>1, <2>1 DEF Consistent
  <2>4. /\ preferences'[u].step = "language" /\ preferences'[u].language = None
        /\ preferences'[u].gender = None /\ preferences'[u].identity = None
        /\ preferences'[u] \in PreferencesRow
    BY <1>1, <2>2, <2>3, StepsInOrder DEF PreferencesRow
  <2>5. Consistent(preferences[u])'
    BY <2>4 DEF Consistent
  <2>6. Position(preferences'[u].step) = Position(preferences[u].step) + 1
    BY <2>1, <2>4, StepsInOrder
  <2> QED
    BY <2>1, <2>3, <2>4, <2>5, <2>6 DEF RowAdvances, Consistent
<1>4. CASE AnswerStep(m)
  <2>1. PICK answer \in Accepted(handling[m].seen) :
          AdvanceStep(handling[m].user, handling[m].seen, answer)
    BY <1>4 DEF AnswerStep
  <2>2. /\ handling[m].user = u /\ preferences[u].step = handling[m].seen.step
        /\ preferences' = [preferences EXCEPT ![u] =
                             Written(preferences[u], handling[m].seen.step, answer)]
    BY <2>1, <1>1 DEF AdvanceStep
  <2>3. /\ handling[m].seen = preferences[u]
        /\ preferences[u].step \in {"language", "ai_gender", "personality"}
    BY <2>2, <1>4 DEF AnswerStep, HandlingInv, SeenBefore
  <2>4. preferences'[u] = Written(preferences[u], preferences[u].step, answer)
    BY <2>2, <2>3, <1>1
  <2>5. u \in accounts
    BY <2>3 DEF HandlingInv, NoPreferences
  <2> QED
    BY <2>1, <2>3, <2>4, <2>5, <1>1, AdvanceIsNext DEF RowAdvances
<1> QED
  BY <1>2, <1>3, <1>4

\* What was read before stays behind.
LEMMA SeenStaysBefore ==
  ASSUME NEW seen \in PreferencesRow, NEW row \in PreferencesRow, SeenBefore(seen, row),
         NEW next, RowAdvances(row, next)
  PROVE  SeenBefore(seen, next)
<1>1. \A r \in PreferencesRow : Position(r.step) \in Nat
  BY StepsInOrder DEF PreferencesRow
<1>2. next \in PreferencesRow /\ Position(next.step) = Position(row.step) + 1
  BY DEF RowAdvances
<1>3. /\ Position(seen.step) \in Nat /\ Position(row.step) \in Nat
      /\ Position(seen.step) <= Position(row.step)
  BY <1>1 DEF SeenBefore
<1>4. Position(seen.step) < Position(next.step)
  BY <1>2, <1>3
<1>5. Position(seen.step) # Position(next.step) /\ Position(seen.step) <= Position(next.step)
  BY <1>2, <1>3
<1> QED
  BY <1>5 DEF SeenBefore

\* What a message may become in one step.
LEMMA HandlingAdvances ==
  ASSUME HandlingInv, [Next]_vars, NEW m \in Messages
  PROVE  /\ handling' \in [Messages -> HandlingState]
         /\ handling'[m].pc # "unsent" => handling'[m].user \in Users
         /\ handling'[m].pc = "answering" =>
              \/ handling'[m] = handling[m]
              \/ /\ preferences' = preferences
                 /\ handling'[m].seen = preferences[handling'[m].user]
                 /\ handling'[m].seen.step \in {"language", "ai_gender", "personality"}
<1>1. handling \in [Messages -> HandlingState] /\ handling[m] \in HandlingState
  BY DEF HandlingInv
<1>2. handling[m].pc # "unsent" => handling[m].user \in Users
  BY DEF HandlingInv
<1>3. CASE UNCHANGED handling
  BY <1>1, <1>2, <1>3
<1>4. ASSUME NEW n \in Messages, NEW pc \in {"answered", "command", "talking"},
             handling[n].pc # "unsent", Pass(n, pc)
      PROVE  /\ handling' \in [Messages -> HandlingState]
             /\ handling'[m].pc # "unsent" => handling'[m].user \in Users
             /\ handling'[m].pc = "answering" => handling'[m] = handling[m]
  <2>1. handling' = [handling EXCEPT ![n] = [handling[n] EXCEPT !.pc = pc]]
    BY <1>1, <1>4 DEF Pass
  <2>2. handling[n] \in HandlingState /\ handling[n].user \in Users
    BY <1>4 DEF HandlingInv
  <2>3. /\ [handling[n] EXCEPT !.pc = pc] \in HandlingState
        /\ [handling[n] EXCEPT !.pc = pc].pc = pc
        /\ [handling[n] EXCEPT !.pc = pc].user = handling[n].user
    BY <2>2 DEF HandlingState
  <2> QED
    BY <2>1, <2>2, <2>3, <1>1, <1>2
<1>5. ASSUME NEW n \in Messages, NEW u \in Users, Receive(n, u)
      PROVE  /\ handling' \in [Messages -> HandlingState]
             /\ handling'[m].pc # "unsent" => handling'[m].user \in Users
             /\ handling'[m].pc = "answering" => handling'[m] = handling[m]
  <2>1. Unsent \in HandlingState
    BY StepsInOrder DEF Unsent, HandlingState, NoPreferences, PreferencesRow
  <2>2. /\ [Unsent EXCEPT !.pc = "account", !.user = u] \in HandlingState
        /\ [Unsent EXCEPT !.pc = "account", !.user = u].pc = "account"
        /\ [Unsent EXCEPT !.pc = "account", !.user = u].user = u
    BY <2>1 DEF HandlingState
  <2> QED
    BY <2>2, <1>1, <1>2, <1>5 DEF Receive
<1>6. ASSUME NEW n \in Messages, ResolvePreferences(n), ~Pass(n, "answered")
      PROVE  /\ handling' \in [Messages -> HandlingState]
             /\ handling'[m].pc # "unsent" => handling'[m].user \in Users
             /\ handling'[m].pc = "answering" =>
                  \/ handling'[m] = handling[m]
                  \/ /\ preferences' = preferences
                     /\ handling'[m].seen = preferences[handling'[m].user]
                     /\ handling'[m].seen.step \in {"language", "ai_gender", "personality"}
  <2> DEFINE u == handling[n].user
             pc == IF preferences[u].step = "complete" THEN "routing" ELSE "answering"
             next == [handling[n] EXCEPT !.seen = preferences[u], !.pc = pc]
  <2>1. /\ handling[n] \in HandlingState /\ u \in Users /\ preferences[u] \in PreferencesRow
        /\ preferences[u].step # "none" /\ UNCHANGED preferences
    BY <1>6 DEF HandlingInv, ResolvePreferences
  <2>2. handling' = [handling EXCEPT ![n] = next]
    BY <1>1, <1>6 DEF ResolvePreferences
  <2>3. /\ next \in HandlingState /\ next.user = u /\ next.seen = preferences[u]
        /\ next.pc = pc /\ next.pc \in {"routing", "answering"}
    BY <2>1 DEF HandlingState
  <2>4. next.pc = "answering" => preferences[u].step \in {"language", "ai_gender", "personality"}
    BY <2>1, <2>3, StepsInOrder DEF PreferencesRow
  <2> HIDE DEF next, u, pc
  <2> QED
    BY <2>1, <2>2, <2>3, <2>4, <1>1, <1>2
<1>7. CASE Restart
  <2>1. /\ handling' = [n \in Messages |-> IF InProgress(n) THEN [handling[n] EXCEPT !.pc = "lost"]
                                                           ELSE handling[n]]
        /\ \A n \in Messages : handling[n] \in HandlingState
    BY <1>7 DEF Restart, HandlingInv
  <2>2. \A n \in Messages : /\ [handling[n] EXCEPT !.pc = "lost"] \in HandlingState
                            /\ [handling[n] EXCEPT !.pc = "lost"].pc = "lost"
                            /\ [handling[n] EXCEPT !.pc = "lost"].user = handling[n].user
    BY <2>1 DEF HandlingState
  <2>3. handling' \in [Messages -> HandlingState]
    BY <2>1, <2>2
  <2> QED
    BY <2>1, <2>2, <2>3, <1>2 DEF InProgress
<1>8. \/ UNCHANGED handling \/ Restart
      \/ \E n \in Messages :
           \/ \E pc \in {"answered", "command", "talking"} :
                handling[n].pc # "unsent" /\ Pass(n, pc)
           \/ \E u \in Users : Receive(n, u)
           \/ ResolvePreferences(n) /\ ~Pass(n, "answered")
  <2>1. ASSUME NEW n \in Messages, Step(n) \/ Fail(n)
        PROVE  \/ UNCHANGED handling
               \/ \E pc \in {"answered", "command", "talking"} :
                    handling[n].pc # "unsent" /\ Pass(n, pc)
               \/ ResolvePreferences(n) /\ ~Pass(n, "answered")
    <3>1. CASE ResolveUser(n) \/ AnswerStep(n) \/ Fail(n)
      BY <3>1 DEF ResolveUser, AnswerStep, Fail
    <3>2. CASE ResolvePreferences(n)
      BY <3>2 DEF ResolvePreferences
    <3>3. CASE Route(n)
      BY <3>3 DEF Route
    <3>4. CASE Command(n) \/ Turn(n)
      BY <3>4 DEF Command, Turn
    <3> QED
      BY <2>1, <3>1, <3>2, <3>3, <3>4 DEF Step
  <2> QED
    BY <2>1 DEF Next, Govern, vars
<1> QED
  BY <1>3, <1>4, <1>5, <1>6, <1>7, <1>8

\* Accounts are only added, restarts counted.
LEMMA HandlingKeepsInv == ASSUME HandlingInv, [Next]_vars PROVE HandlingInv'
<1>1. accounts' \subseteq Users /\ accounts \subseteq accounts' /\ restarts' \in 0..MaxRestarts
  <2>1. CASE \E m \in Messages : ResolveUser(m)
    BY <2>1 DEF ResolveUser, HandlingInv
  <2>2. CASE Restart
    BY <2>2, LimitsType DEF Restart, HandlingInv, onboarding
  <2>3. CASE UNCHANGED <<accounts, restarts>>
    BY <2>3 DEF HandlingInv
  <2> QED
    BY <2>1, <2>2, <2>3 DEF Next, Step, Receive, ResolvePreferences, AnswerStep, Route, Command,
       Turn, Fail, Govern, vars, onboarding
<1>2. \A u \in Users : /\ preferences'[u] \in PreferencesRow /\ Consistent(preferences'[u])
                        /\ (u \in accounts' \/ preferences'[u] = NoPreferences)
  BY <1>1, PreferencesAdvance DEF HandlingInv, RowAdvances
<1>3. preferences' \in [Users -> PreferencesRow]
  <2>1. DOMAIN preferences' = Users /\ preferences' = [u \in Users |-> preferences'[u]]
    <3>1. \/ UNCHANGED preferences
          \/ \E u \in Users, row \in PreferencesRow : preferences' = [preferences EXCEPT ![u] = row]
      <4>1. ASSUME NEW m \in Messages, ResolvePreferences(m) \/ AnswerStep(m)
            PROVE  \/ UNCHANGED preferences
                   \/ \E u \in DOMAIN preferences : preferences'
                        = [preferences EXCEPT ![u] = preferences'[u]]
        BY <4>1 DEF ResolvePreferences, AnswerStep, AdvanceStep, HandlingInv
      <4> QED
        BY <4>1, <1>2 DEF HandlingInv, Next, Step, Receive, ResolveUser, Route, Command, Turn,
           Fail, Restart, Govern, vars, onboarding
    <3> QED
      BY <3>1 DEF HandlingInv
  <2> QED
    BY <2>1, <1>2
<1>4. \A m \in Messages : handling'[m].pc = "answering" =>
        /\ handling'[m].seen.step \in {"language", "ai_gender", "personality"}
        /\ SeenBefore(handling'[m].seen, preferences'[handling'[m].user])
  <2> SUFFICES ASSUME NEW m \in Messages, handling'[m].pc = "answering"
               PROVE  /\ handling'[m].seen.step \in {"language", "ai_gender", "personality"}
                      /\ SeenBefore(handling'[m].seen, preferences'[handling'[m].user])
    OBVIOUS
  <2> DEFINE u == handling'[m].user
  <2>1. u \in Users /\ handling'[m] \in HandlingState
    BY HandlingAdvances
  <2>2. CASE handling'[m] = handling[m]
    <3>1. /\ handling[m].seen.step \in {"language", "ai_gender", "personality"}
          /\ SeenBefore(handling[m].seen, preferences[u])
          /\ handling[m].seen \in PreferencesRow /\ preferences[u] \in PreferencesRow
      BY <2>1, <2>2 DEF HandlingInv, HandlingState
    <3>2. CASE preferences'[u] = preferences[u]
      BY <3>1, <3>2, <2>2
    <3>3. CASE preferences'[u] # preferences[u]
      <4>1. RowAdvances(preferences[u], preferences'[u])
        BY <2>1, <3>3, PreferencesAdvance
      <4>2. SeenBefore(handling[m].seen, preferences'[u])
        BY <3>1, <4>1, SeenStaysBefore
      <4> QED
        BY <3>1, <4>2, <2>2
    <3> QED
      BY <3>2, <3>3
  <2>3. CASE /\ preferences' = preferences /\ handling'[m].seen = preferences[u]
             /\ handling'[m].seen.step \in {"language", "ai_gender", "personality"}
    <3>1. Position(preferences[u].step) \in Nat
      <4>1. preferences[u] \in PreferencesRow
        BY <2>1 DEF HandlingInv
      <4> QED
        BY <4>1, StepsInOrder DEF PreferencesRow
    <3>2. SeenBefore(preferences[u], preferences[u])
      BY <3>1 DEF SeenBefore
    <3> QED
      BY <2>3, <3>2
  <2> QED
    BY <2>2, <2>3, HandlingAdvances
<1>5. Messages = {} => handling' \in [Messages -> HandlingState]
  BY DEF HandlingInv, Next, Restart, Govern, vars
<1>6. /\ handling' \in [Messages -> HandlingState]
      /\ \A m \in Messages : handling'[m].pc # "unsent" => handling'[m].user \in Users
  BY <1>5, HandlingAdvances
<1>7. \A u \in Users : Consistent(preferences[u])'
  BY <1>2 DEF Consistent
<1> QED
  BY <1>1, <1>2, <1>3, <1>4, <1>6, <1>7 DEF HandlingInv, SeenBefore

\* Nobody has an account or not at first; what is known of an answer is consistent.
LEMMA HandlingStartsSound == ASSUME Init PROVE HandlingInv
<1>1. Unsent \in HandlingState /\ Unsent.pc = "unsent"
  BY StepsInOrder DEF Unsent, HandlingState, NoPreferences, PreferencesRow
<1>2. 0 \in 0..MaxRestarts
  BY LimitsType
<1> QED
  BY <1>1, <1>2 DEF Init, HandlingInv

----------------------------------------------------------------------------
(* Turns of conversation *)

\* What __init__() of InMemoryWorkingMemory checks, and that no message is "no entry".
Limits ==
  /\ None \notin Messages
  /\ Sizes \subseteq Nat /\ MaxExchanges \in Nat /\ MaxCharacters \in Nat

InLine(m) == turns[m].pc \notin {"idle", "done"}

\* A turn that waits or is in progress is in the line of the entry the registry has for
\* its subject; one that has not begun has no entry and no ticket.
InTheirLines ==
  \A m \in Messages :
    /\ turns[m].pc = "idle" => entries[m] = Talk!NoEntry /\ m \notin tickets
    /\ InLine(m) =>
         /\ turns[m].user \in Users /\ turns[m].entry \in Messages
         /\ registry[turns[m].user] = turns[m].entry
         /\ \E i \in 1..Len(entries[turns[m].entry].waiting) :
              entries[turns[m].entry].waiting[i] = m

\* A line holds turns of its own, each once, and the count is its length.
LinesAreSound ==
  \A e \in Messages :
    /\ entries[e].count = Len(entries[e].waiting)
    /\ \A i \in 1..Len(entries[e].waiting) :
         /\ InLine(entries[e].waiting[i])
         /\ turns[entries[e].waiting[i]].entry = e
    /\ \A i, j \in 1..Len(entries[e].waiting) :
         entries[e].waiting[i] = entries[e].waiting[j] => i = j

\* A ticket is only set for the first in line, and a turn only taken with it.
FirstIsServed ==
  \A m \in Messages :
    /\ Talk!InTurn(m) => m \in tickets
    /\ InLine(m) /\ m \in tickets => entries[turns[m].entry].waiting[1] = m

\* An entry that is registered for a subject has turns of that subject only, and some.
RegisteredAreInUse ==
  \A u \in Users : registry[u] # None =>
    /\ entries[registry[u]].waiting # <<>>
    /\ \A i \in 1..Len(entries[registry[u]].waiting) :
         turns[entries[registry[u]].waiting[i]].user = u

QueueInv == InTheirLines /\ LinesAreSound /\ FirstIsServed /\ RegisteredAreInUse

TurnsInv == Talk!ConversationTypeOK /\ QueueInv /\ Talk!NothingMissed

----------------------------------------------------------------------------
(* Memory *)

\* No exchange is within any limits.
LEMMA NothingFits == ASSUME Limits PROVE Talk!Fits(<<>>)
<1> DEFINE total[s \in SUBSET {}] ==
      IF s = {} THEN 0 ELSE LET x == Talk!Max(s) IN total[s \ {x}] + (<<>>)[x].size
<1>1. total = [s \in SUBSET {} |->
                 IF s = {} THEN 0 ELSE LET x == Talk!Max(s) IN total[s \ {x}] + (<<>>)[x].size]
  <2>1. [s \in SUBSET {} |-> 0] =
          [s \in SUBSET {} |->
             IF s = {} THEN 0
                       ELSE LET x == Talk!Max(s)
                            IN [r \in SUBSET {} |-> 0][s \ {x}] + (<<>>)[x].size]
    OBVIOUS
  <2>2. \E f : f = [s \in SUBSET {} |->
                      IF s = {} THEN 0 ELSE LET x == Talk!Max(s) IN f[s \ {x}] + (<<>>)[x].size]
    BY <2>1
  <2> QED
    BY <2>2
<1>2. total[{}] = 0
  BY <1>1
<1>3. Talk!Characters(<<>>) = total[{}]
  <2>1. DOMAIN <<>> = {}
    OBVIOUS
  <2> QED
    BY <2>1 DEF Talk!Characters, Talk!FoldLeft, Talk!MapThenFoldSet
<1> QED
  BY <1>2, <1>3 DEF Talk!Fits, Limits

\* _trim() ends, whatever it is given, with exchanges that are within the limits.
LEMMA TrimmedFits ==
  ASSUME Limits, NEW pairs \in Seq(Talk!Exchange)
  PROVE  Talk!Trimmed(pairs) \in Seq(Talk!Exchange) /\ Talk!Fits(Talk!Trimmed(pairs))
<1> DEFINE S == {n \in 0..Len(pairs) : Talk!Fits(Talk!Without(pairs, n))}
<1>1. Len(pairs) \in Nat
  OBVIOUS
<1>2. Talk!Without(pairs, Len(pairs)) = <<>>
  BY <1>1 DEF Talk!Without
<1>3. Len(pairs) \in S
  BY <1>1, <1>2, NothingFits
<1>4. Talk!Min(S) \in S
  <2>1. S \in SUBSET Nat /\ S # {}
    BY <1>1, <1>3
  <2> HIDE DEF S
  <2> QED
    BY <2>1, LeastNatural
<1>5. ASSUME NEW n \in 0..Len(pairs) PROVE Talk!Without(pairs, n) \in Seq(Talk!Exchange)
  BY <1>1 DEF Talk!Without
<1> QED
  BY <1>4, <1>5 DEF Talk!Trimmed

----------------------------------------------------------------------------
(* The queue *)

\* Steps within a turn, or onto it, leave the lines as they are.
LEMMA WithinTurns ==
  ASSUME QueueInv, entries \in [Messages -> Talk!Entry],
         UNCHANGED <<registry, entries, tickets>>,
         registry \in [Users -> Messages \union {None}], None \notin Messages,
         \A n \in Messages :
           /\ turns'[n].pc = "idle" => turns[n].pc = "idle"
           /\ InLine(n)' <=> InLine(n)
           /\ InLine(n) => /\ turns'[n].user = turns[n].user
                           /\ turns'[n].entry = turns[n].entry
           /\ Talk!InTurn(n)' => n \in tickets
  PROVE  QueueInv'
<1>1. \A e \in Messages : \A i \in 1..Len(entries[e].waiting) :
        /\ entries[e].waiting[i] \in Messages
        /\ InLine(entries[e].waiting[i])
  <2>1. \A e \in Messages : entries[e].waiting \in Seq(Messages)
    BY DEF Talk!Entry
  <2> QED
    BY <2>1 DEF QueueInv, LinesAreSound
<1>2. InTheirLines'
  BY DEF QueueInv, InTheirLines
<1>3. LinesAreSound'
  BY <1>1 DEF QueueInv, LinesAreSound
<1>4. FirstIsServed'
  BY DEF QueueInv, FirstIsServed, InTheirLines
<1>5. RegisteredAreInUse'
  BY <1>1 DEF QueueInv, RegisteredAreInUse
<1> QED
  BY <1>2, <1>3, <1>4, <1>5 DEF QueueInv

\* Who enters stands at the end of the line of an entry that is in use, or alone in one
\* of their own.
LEMMA EnterKeepsQueue ==
  ASSUME Limits, Talk!ConversationTypeOK, QueueInv,
         NEW m \in Messages, NEW u \in Users, turns[m].pc = "idle", Talk!EnterQueue(m, u)
  PROVE  QueueInv'
<1> DEFINE e == IF registry[u] = None THEN m ELSE registry[u]
           line == entries[e].waiting
<1> USE DEF Limits
<1>1. /\ e \in Messages /\ line \in Seq(Messages) /\ Len(line) \in Nat
      /\ registry[u] # None => line # <<>>
      /\ registry[u] = None => line = <<>>
  BY DEF Talk!ConversationTypeOK, Talk!Entry, Talk!NoEntry, QueueInv, InTheirLines,
         RegisteredAreInUse
<1>2. /\ registry' = [registry EXCEPT ![u] = e]
      /\ entries' = [entries EXCEPT ![e] =
                       [waiting |-> Append(line, m), count |-> entries[e].count + 1]]
      /\ tickets' = IF line = <<>> THEN tickets \union {m} ELSE tickets
      /\ turns' = [turns EXCEPT ![m] =
                     [Talk!Resting EXCEPT !.pc = "waiting", !.user = u, !.entry = e]]
  BY DEF Talk!EnterQueue, Talk!Become
<1>3. /\ turns'[m].pc = "waiting" /\ turns'[m].user = u /\ turns'[m].entry = e
      /\ \A n \in Messages \ {m} : turns'[n] = turns[n]
  BY <1>2 DEF Talk!ConversationTypeOK, Talk!Resting
<1>4. /\ entries'[e].count = entries[e].count + 1
      /\ Len(entries'[e].waiting) = Len(line) + 1
      /\ \A i \in 1..Len(line) : entries'[e].waiting[i] = line[i]
      /\ entries'[e].waiting[Len(line) + 1] = m
      /\ \A f \in Messages \ {e} : entries'[f] = entries[f]
  BY <1>1, <1>2 DEF Talk!ConversationTypeOK
<1>5. \A f \in Messages : \A i \in 1..Len(entries[f].waiting) :
        entries[f].waiting[i] \in Messages \ {m}
  BY DEF Talk!ConversationTypeOK, Talk!Entry, QueueInv, LinesAreSound, InLine
<1>6. /\ registry'[u] = e /\ \A v \in Users \ {u} : registry'[v] = registry[v]
      /\ \A v \in Users \ {u} : registry[v] # e
  <2>1. registry'[u] = e /\ \A v \in Users \ {u} : registry'[v] = registry[v]
    BY <1>2 DEF Talk!ConversationTypeOK
  <2>2. ASSUME NEW v \in Users \ {u}, registry[v] = e PROVE FALSE
    <3>1. registry[v] # None /\ line # <<>> /\ Len(line) >= 1
      BY <2>2, <1>1 DEF QueueInv, RegisteredAreInUse
    <3>2. turns[line[1]].user = v
      BY <2>2, <1>1, <3>1 DEF QueueInv, RegisteredAreInUse
    <3>3. registry[u] = e
      BY <1>1, <3>1
    <3>4. turns[line[1]].user = u
      BY <3>3, <1>1, <3>1 DEF QueueInv, RegisteredAreInUse
    <3> QED
      BY <3>2, <3>4
  <2> QED
    BY <2>1, <2>2
<1> HIDE DEF e
<1>7. InTheirLines'
  <2> SUFFICES ASSUME NEW n \in Messages
               PROVE  /\ turns'[n].pc = "idle" => entries'[n] = Talk!NoEntry /\ n \notin tickets'
                      /\ InLine(n)' =>
                           /\ turns'[n].user \in Users /\ turns'[n].entry \in Messages
                           /\ registry'[turns'[n].user] = turns'[n].entry
                           /\ \E i \in 1..Len(entries'[turns'[n].entry].waiting) :
                                entries'[turns'[n].entry].waiting[i] = n
    BY DEF InTheirLines
  <2>1. CASE n = m
    BY <2>1, <1>1, <1>3, <1>4, <1>6 DEF InLine
  <2>2. CASE n # m
    <3>1. /\ turns'[n] = turns[n]
          /\ turns[n].pc = "idle" => entries[n] = Talk!NoEntry /\ n \notin tickets
          /\ InLine(n) =>
               /\ turns[n].user \in Users /\ turns[n].entry \in Messages
               /\ registry[turns[n].user] = turns[n].entry
               /\ \E i \in 1..Len(entries[turns[n].entry].waiting) :
                    entries[turns[n].entry].waiting[i] = n
      BY <2>2, <1>3 DEF QueueInv, InTheirLines
    <3>2. turns[n].pc = "idle" => n # e
      <4>1. CASE registry[u] = None
        BY <4>1, <2>2 DEF e
      <4>2. CASE registry[u] # None
        BY <4>2, <1>1, <3>1 DEF Talk!NoEntry
      <4> QED
        BY <4>1, <4>2
    <3>3. turns'[n].pc = "idle" => entries'[n] = Talk!NoEntry /\ n \notin tickets'
      BY <2>2, <3>1, <3>2, <1>2, <1>4
    <3>4. ASSUME InLine(n)
          PROVE  /\ registry'[turns[n].user] = turns[n].entry
                 /\ \E i \in 1..Len(entries'[turns[n].entry].waiting) :
                      entries'[turns[n].entry].waiting[i] = n
      <4>1. registry'[turns[n].user] = turns[n].entry
        <5>1. CASE turns[n].user = u
          BY <5>1, <3>1, <3>4, <1>6 DEF e
        <5>2. CASE turns[n].user # u
          BY <5>2, <3>1, <3>4, <1>6
        <5> QED
          BY <5>1, <5>2
      <4>2. PICK i \in 1..Len(entries[turns[n].entry].waiting) :
              entries[turns[n].entry].waiting[i] = n
        BY <3>1, <3>4
      <4>3. i \in 1..Len(entries'[turns[n].entry].waiting) /\
            entries'[turns[n].entry].waiting[i] = n
        <5>1. CASE turns[n].entry = e
          BY <5>1, <4>2, <1>1, <1>4
        <5>2. CASE turns[n].entry # e
          BY <5>2, <4>2, <1>4, <3>1, <3>4
        <5> QED
          BY <5>1, <5>2
      <4> QED
        BY <4>1, <4>3
    <3> QED
      BY <3>1, <3>3, <3>4 DEF InLine
  <2> QED
    BY <2>1, <2>2
<1>8. LinesAreSound'
  <2> SUFFICES ASSUME NEW f \in Messages
               PROVE  /\ entries'[f].count = Len(entries'[f].waiting)
                      /\ \A i \in 1..Len(entries'[f].waiting) :
                           /\ turns'[entries'[f].waiting[i]].pc \notin {"idle", "done"}
                           /\ turns'[entries'[f].waiting[i]].entry = f
                      /\ \A i, j \in 1..Len(entries'[f].waiting) :
                           entries'[f].waiting[i] = entries'[f].waiting[j] => i = j
    BY DEF LinesAreSound, InLine
  <2>1. /\ entries[f].count = Len(entries[f].waiting)
        /\ \A i \in 1..Len(entries[f].waiting) :
             /\ InLine(entries[f].waiting[i])
             /\ turns[entries[f].waiting[i]].entry = f
        /\ \A i, j \in 1..Len(entries[f].waiting) :
             entries[f].waiting[i] = entries[f].waiting[j] => i = j
    BY DEF QueueInv, LinesAreSound
  <2>2. \A i \in 1..Len(entries[f].waiting) :
          /\ turns'[entries[f].waiting[i]].pc \notin {"idle", "done"}
          /\ turns'[entries[f].waiting[i]].entry = f
    BY <2>1, <1>3, <1>5 DEF InLine
  <2>3. CASE f = e
    <3>1. turns'[m].pc = "waiting" /\ turns'[m].entry = e
      BY <1>3
    <3>2. \A i \in 1..Len(line) : line[i] # m
      BY <1>1, <1>5
    <3>3. \A i \in 1..(Len(line) + 1) :
            \/ i = Len(line) + 1 /\ entries'[e].waiting[i] = m
            \/ i \in 1..Len(line) /\ entries'[e].waiting[i] = line[i]
      BY <1>1, <1>4
    <3>4. entries'[e].count = Len(entries'[e].waiting)
      BY <2>1, <2>3, <1>4
    <3>5. \A i \in 1..(Len(line) + 1) :
            /\ turns'[entries'[e].waiting[i]].pc \notin {"idle", "done"}
            /\ turns'[entries'[e].waiting[i]].entry = e
      BY <2>2, <2>3, <3>1, <3>3
    <3>6. \A i, j \in 1..(Len(line) + 1) :
            entries'[e].waiting[i] = entries'[e].waiting[j] => i = j
      BY <2>1, <2>3, <3>2, <3>3
    <3> QED
      BY <2>3, <3>4, <3>5, <3>6, <1>4
  <2>4. CASE f # e
    BY <2>1, <2>2, <2>4, <1>4
  <2> QED
    BY <2>3, <2>4
<1>9. FirstIsServed'
  <2> SUFFICES ASSUME NEW n \in Messages
               PROVE  /\ Talk!InTurn(n)' => n \in tickets'
                      /\ InLine(n)' /\ n \in tickets' =>
                           entries'[turns'[n].entry].waiting[1] = n
    BY DEF FirstIsServed
  <2>1. CASE n = m
    <3>1. m \notin tickets
      BY DEF QueueInv, InTheirLines
    <3>2. m \in tickets' => line = <<>> /\ Len(line) = 0
      BY <3>1, <1>2
    <3> QED
      BY <2>1, <3>2, <1>3, <1>4 DEF Talk!InTurn
  <2>2. CASE n # m
    <3>1. /\ turns'[n] = turns[n] /\ n \in tickets' => n \in tickets
          /\ Talk!InTurn(n) => n \in tickets
          /\ InLine(n) /\ n \in tickets => entries[turns[n].entry].waiting[1] = n
      BY <2>2, <1>2, <1>3 DEF QueueInv, FirstIsServed
    <3>2. Talk!InTurn(n)' => n \in tickets'
      BY <3>1, <2>2, <1>2, <1>3 DEF Talk!InTurn
    <3>3. InLine(n) => /\ turns[n].entry \in Messages
                       /\ Len(entries[turns[n].entry].waiting) >= 1
      <4>1. InLine(n) => /\ turns[n].entry \in Messages
                         /\ \E i \in 1..Len(entries[turns[n].entry].waiting) : TRUE
        BY DEF QueueInv, InTheirLines
      <4>2. \A f \in Messages : Len(entries[f].waiting) \in Nat
        BY DEF Talk!ConversationTypeOK, Talk!Entry
      <4> QED
        BY <4>1, <4>2
    <3>4. InLine(n) => entries'[turns[n].entry].waiting[1] = entries[turns[n].entry].waiting[1]
      BY <3>3, <1>1, <1>4
    <3>5. InLine(n)' = InLine(n)
      BY <2>2, <1>3 DEF InLine
    <3> QED
      BY <3>1, <3>2, <3>4, <3>5, <2>2, <1>3
  <2> QED
    BY <2>1, <2>2
<1>10. RegisteredAreInUse'
  <2> SUFFICES ASSUME NEW v \in Users, registry'[v] # None
               PROVE  /\ entries'[registry'[v]].waiting # <<>>
                      /\ \A i \in 1..Len(entries'[registry'[v]].waiting) :
                           turns'[entries'[registry'[v]].waiting[i]].user = v
    BY DEF RegisteredAreInUse
  <2>1. CASE v = u
    <3>1. \A i \in 1..Len(line) : turns[line[i]].user = u
      <4>1. CASE registry[u] = None
        BY <4>1, <1>1
      <4>2. CASE registry[u] # None
        BY <4>2 DEF QueueInv, RegisteredAreInUse, e
      <4> QED
        BY <4>1, <4>2
    <3>2. \A i \in 1..Len(line) : turns'[line[i]].user = u
      BY <3>1, <1>1, <1>3, <1>5
    <3>3. entries'[e].waiting # <<>>
      BY <1>1, <1>4
    <3>4. \A i \in 1..(Len(line) + 1) :
            \/ i = Len(line) + 1 /\ entries'[e].waiting[i] = m
            \/ i \in 1..Len(line) /\ entries'[e].waiting[i] = line[i]
      BY <1>1, <1>4
    <3>5. \A i \in 1..Len(entries'[e].waiting) : turns'[entries'[e].waiting[i]].user = u
      BY <3>2, <3>4, <1>3, <1>4
    <3> QED
      BY <2>1, <3>3, <3>5, <1>6
  <2>2. CASE v # u
    <3>1. registry'[v] = registry[v] /\ registry[v] \in Messages \ {e}
      BY <2>2, <1>6 DEF Talk!ConversationTypeOK
    <3>2. /\ entries[registry[v]].waiting # <<>>
          /\ \A i \in 1..Len(entries[registry[v]].waiting) :
               turns[entries[registry[v]].waiting[i]].user = v
      BY <3>1 DEF QueueInv, RegisteredAreInUse
    <3>3. \A i \in 1..Len(entries[registry[v]].waiting) :
            entries[registry[v]].waiting[i] \in Messages \ {m}
      BY <3>1, <1>5
    <3>4. entries'[registry[v]] = entries[registry[v]]
      BY <3>1, <1>4
    <3>5. \A n \in Messages \ {m} : turns'[n].user = turns[n].user
      BY <1>3
    <3>6. entries'[registry'[v]].waiting = entries[registry[v]].waiting
      BY <3>1, <3>4
    <3>7. \A i \in 1..Len(entries[registry[v]].waiting) :
            turns'[entries[registry[v]].waiting[i]].user = v
      BY <3>2, <3>3, <3>5
    <3> QED
      BY <3>2, <3>6, <3>7
  <2> QED
    BY <2>1, <2>2
<1> QED
  BY <1>7, <1>8, <1>9, <1>10 DEF QueueInv


\* Who leaves was first in line; the entry is deleted only if nobody else stands there.
LEMMA LeaveKeepsQueue ==
  ASSUME Limits, Talk!ConversationTypeOK, QueueInv, NEW m \in Messages, Talk!Leave(m)
  PROVE  QueueInv'
<1> DEFINE e == turns[m].entry
           u == turns[m].user
           line == entries[e].waiting
<1> USE DEF Limits
<1>1. /\ e \in Messages /\ u \in Users /\ registry[u] = e
      /\ line \in Seq(Messages) /\ Len(line) \in Nat /\ Len(line) >= 1 /\ line[1] = m
  <2>1. turns[m].pc = "leaving" /\ InLine(m) /\ m \in tickets
    BY DEF Talk!Leave, InLine, Talk!InTurn, QueueInv, FirstIsServed
  <2>2. e \in Messages /\ u \in Users /\ registry[u] = e /\ line[1] = m
    BY <2>1 DEF QueueInv, InTheirLines, FirstIsServed
  <2>3. line \in Seq(Messages) /\ Len(line) \in Nat
    BY <2>2 DEF Talk!ConversationTypeOK, Talk!Entry
  <2>4. \E i \in 1..Len(line) : line[i] = m
    BY <2>1 DEF QueueInv, InTheirLines
  <2> QED
    BY <2>2, <2>3, <2>4
<1>2. /\ entries' = [entries EXCEPT ![e] =
                       [waiting |-> Tail(line), count |-> entries[e].count - 1]]
      /\ tickets' = IF Tail(line) # <<>> THEN tickets \union {Head(Tail(line))} ELSE tickets
      /\ registry' = IF entries[e].count = 1 THEN [registry EXCEPT ![u] = None] ELSE registry
      /\ turns' = [turns EXCEPT ![m] = [Talk!Resting EXCEPT !.pc = "done"]]
  BY DEF Talk!Leave, Talk!LeaveQueue, Talk!Become
<1>3. /\ turns'[m].pc = "done"
      /\ \A n \in Messages \ {m} : turns'[n] = turns[n]
  BY <1>2 DEF Talk!ConversationTypeOK, Talk!Resting
<1>4. /\ entries'[e].count = entries[e].count - 1
      /\ Len(entries'[e].waiting) = Len(line) - 1
      /\ \A i \in 1..(Len(line) - 1) : entries'[e].waiting[i] = line[i + 1]
      /\ entries'[e].waiting = <<>> <=> Len(line) = 1
      /\ \A f \in Messages \ {e} : entries'[f] = entries[f]
  <2>1. /\ entries'[e].waiting = Tail(line) /\ entries'[e].count = entries[e].count - 1
        /\ \A f \in Messages \ {e} : entries'[f] = entries[f]
    BY <1>1, <1>2 DEF Talk!ConversationTypeOK
  <2>2. /\ Len(Tail(line)) = Len(line) - 1
        /\ \A i \in 1..(Len(line) - 1) : Tail(line)[i] = line[i + 1]
    BY <1>1
  <2>3. Tail(line) = <<>> <=> Len(line) = 1
    <3>1. Tail(line) \in Seq(Messages)
      BY <1>1
    <3>2. \A s \in Seq(Messages) : s = <<>> <=> Len(s) = 0
      OBVIOUS
    <3>3. \A k \in Nat : k >= 1 => (k - 1 = 0 <=> k = 1)
      OBVIOUS
    <3>4. Len(Tail(line)) = 0 <=> Len(line) = 1
      BY <1>1, <2>2, <3>3
    <3> QED
      BY <3>1, <3>2, <3>4
  <2> QED
    BY <2>1, <2>2, <2>3
<1>5. /\ entries[e].count = Len(line)
      /\ \A i \in 2..Len(line) : line[i] \in Messages \ {m}
      /\ \A f \in Messages \ {e} : \A i \in 1..Len(entries[f].waiting) :
           entries[f].waiting[i] \in Messages \ {m}
  <2>1. \A f \in Messages :
          /\ entries[f].waiting \in Seq(Messages)
          /\ \A i \in 1..Len(entries[f].waiting) : entries[f].waiting[i] \in Messages
    BY DEF Talk!ConversationTypeOK, Talk!Entry
  <2>2. entries[e].count = Len(line)
    BY <1>1 DEF QueueInv, LinesAreSound
  <2>3. \A i \in 2..Len(line) : line[i] \in Messages \ {m}
    <3>1. \A i, j \in 1..Len(line) : line[i] = line[j] => i = j
      BY <1>1 DEF QueueInv, LinesAreSound
    <3>2. \A i \in 2..Len(line) : i \in 1..Len(line) /\ 1 \in 1..Len(line) /\ i # 1
      BY <1>1
    <3>3. \A i \in 1..Len(line) : line[i] \in Messages
      BY <1>1, <2>1
    <3> HIDE DEF line
    <3> QED
      BY <1>1, <3>1, <3>2, <3>3
  <2>4. \A f \in Messages \ {e} : \A i \in 1..Len(entries[f].waiting) :
          entries[f].waiting[i] # m
    <3>1. \A f \in Messages : \A i \in 1..Len(entries[f].waiting) :
            turns[entries[f].waiting[i]].entry = f
      BY DEF QueueInv, LinesAreSound
    <3> QED
      BY <3>1
  <2> QED
    BY <2>1, <2>2, <2>3, <2>4
<1>6. \A i \in 1..Len(line) : turns[line[i]].user = u
  BY <1>1 DEF QueueInv, RegisteredAreInUse
<1>7. /\ Len(line) = 1 => registry' = [registry EXCEPT ![u] = None]
      /\ Len(line) # 1 => registry' = registry
  BY <1>2, <1>5
<1>8. \A n \in tickets' : n \in tickets \/ (Len(line) > 1 /\ n = line[2])
  BY <1>1, <1>2
<1> HIDE DEF e, u
<1>9. InTheirLines'
  <2> SUFFICES ASSUME NEW n \in Messages
               PROVE  /\ turns'[n].pc = "idle" => entries'[n] = Talk!NoEntry /\ n \notin tickets'
                      /\ InLine(n)' =>
                           /\ turns'[n].user \in Users /\ turns'[n].entry \in Messages
                           /\ registry'[turns'[n].user] = turns'[n].entry
                           /\ \E i \in 1..Len(entries'[turns'[n].entry].waiting) :
                                entries'[turns'[n].entry].waiting[i] = n
    BY DEF InTheirLines
  <2>1. CASE n = m
    BY <2>1, <1>3 DEF InLine
  <2>2. CASE n # m
    <3>1. /\ turns'[n] = turns[n]
          /\ turns[n].pc = "idle" => entries[n] = Talk!NoEntry /\ n \notin tickets
          /\ InLine(n) =>
               /\ turns[n].user \in Users /\ turns[n].entry \in Messages
               /\ registry[turns[n].user] = turns[n].entry
               /\ \E i \in 1..Len(entries[turns[n].entry].waiting) :
                    entries[turns[n].entry].waiting[i] = n
      BY <2>2, <1>3 DEF QueueInv, InTheirLines
    <3>2. ASSUME turns[n].pc = "idle" PROVE n # e /\ n \notin tickets'
      <4>1. n # e
        BY <3>1, <3>2, <1>1 DEF Talk!NoEntry
      <4>2. Len(line) > 1 => n # line[2]
        <5>1. Len(line) > 1 => InLine(line[2])
          BY <1>1 DEF QueueInv, LinesAreSound
        <5> QED
          BY <3>2, <5>1 DEF InLine
      <4> QED
        BY <3>1, <3>2, <4>1, <4>2, <1>8
    <3>3. ASSUME InLine(n)
          PROVE  /\ registry'[turns[n].user] = turns[n].entry
                 /\ \E i \in 1..Len(entries'[turns[n].entry].waiting) :
                      entries'[turns[n].entry].waiting[i] = n
      <4>1. PICK i \in 1..Len(entries[turns[n].entry].waiting) :
              entries[turns[n].entry].waiting[i] = n
        BY <3>1, <3>3
      <4>2. CASE turns[n].entry = e
        <5>1. i \in 2..Len(line) /\ line[i] = n
          BY <4>1, <4>2, <2>2, <1>1
        <5>2. i - 1 \in 1..Len(entries'[e].waiting) /\ entries'[e].waiting[i - 1] = n
          BY <5>1, <1>1, <1>4
        <5>3. registry' = registry
          BY <5>1, <1>1, <1>7
        <5> QED
          BY <4>2, <5>2, <5>3, <3>1, <3>3
      <4>3. CASE turns[n].entry # e
        <5>1. turns[n].user # u
          BY <4>3, <3>1, <3>3, <1>1
        <5>2. registry'[turns[n].user] = registry[turns[n].user]
          BY <5>1, <3>1, <3>3, <1>7 DEF Talk!ConversationTypeOK
        <5> QED
          BY <4>1, <4>3, <5>2, <3>1, <3>3, <1>4
      <4> QED
        BY <4>2, <4>3
    <3>4. turns'[n].pc = "idle" => entries'[n] = Talk!NoEntry /\ n \notin tickets'
      BY <3>1, <3>2, <1>4
    <3> QED
      BY <3>1, <3>3, <3>4 DEF InLine
  <2> QED
    BY <2>1, <2>2
<1>10. LinesAreSound'
  <2> SUFFICES ASSUME NEW f \in Messages
               PROVE  /\ entries'[f].count = Len(entries'[f].waiting)
                      /\ \A i \in 1..Len(entries'[f].waiting) :
                           /\ turns'[entries'[f].waiting[i]].pc \notin {"idle", "done"}
                           /\ turns'[entries'[f].waiting[i]].entry = f
                      /\ \A i, j \in 1..Len(entries'[f].waiting) :
                           entries'[f].waiting[i] = entries'[f].waiting[j] => i = j
    BY DEF LinesAreSound, InLine
  <2>1. /\ entries[f].count = Len(entries[f].waiting)
        /\ \A i \in 1..Len(entries[f].waiting) :
             /\ turns[entries[f].waiting[i]].pc \notin {"idle", "done"}
             /\ turns[entries[f].waiting[i]].entry = f
        /\ \A i, j \in 1..Len(entries[f].waiting) :
             entries[f].waiting[i] = entries[f].waiting[j] => i = j
    BY DEF QueueInv, LinesAreSound, InLine
  <2>2. CASE f = e
    <3>1. \A i \in 1..(Len(line) - 1) :
            i + 1 \in 2..Len(line) /\ entries'[e].waiting[i] = line[i + 1]
      BY <1>1, <1>4
    <3>2. entries'[e].count = Len(entries'[e].waiting)
      BY <1>1, <1>4, <1>5
    <3>3. \A i \in 2..Len(line) :
            /\ turns'[line[i]].pc \notin {"idle", "done"}
            /\ turns'[line[i]].entry = e
      BY <2>1, <2>2, <1>1, <1>3, <1>5
    <3>4. \A i, j \in 1..(Len(line) - 1) :
            entries'[e].waiting[i] = entries'[e].waiting[j] => i = j
      BY <2>1, <2>2, <3>1, <1>1
    <3>5. \A i \in 1..(Len(line) - 1) :
            /\ turns'[entries'[e].waiting[i]].pc \notin {"idle", "done"}
            /\ turns'[entries'[e].waiting[i]].entry = e
      BY <3>1, <3>3
    <3>6. Len(entries'[e].waiting) = Len(line) - 1
      BY <1>4
    <3> QED
      BY <2>2, <3>2, <3>4, <3>5, <3>6
  <2>3. CASE f # e
    <3>1. \A i \in 1..Len(entries[f].waiting) :
            /\ turns'[entries[f].waiting[i]].pc \notin {"idle", "done"}
            /\ turns'[entries[f].waiting[i]].entry = f
      BY <2>1, <2>3, <1>3, <1>5
    <3>2. entries'[f] = entries[f]
      BY <2>3, <1>4
    <3>3. entries'[f].count = Len(entries'[f].waiting)
      BY <2>1, <3>2
    <3>4. \A i \in 1..Len(entries'[f].waiting) :
            /\ turns'[entries'[f].waiting[i]].pc \notin {"idle", "done"}
            /\ turns'[entries'[f].waiting[i]].entry = f
      BY <3>1, <3>2
    <3>5. \A i, j \in 1..Len(entries'[f].waiting) :
            entries'[f].waiting[i] = entries'[f].waiting[j] => i = j
      BY <2>1, <3>2
    <3> QED
      BY <3>3, <3>4, <3>5
  <2> QED
    BY <2>2, <2>3
<1>11. FirstIsServed'
  <2> SUFFICES ASSUME NEW n \in Messages
               PROVE  /\ Talk!InTurn(n)' => n \in tickets'
                      /\ InLine(n)' /\ n \in tickets' =>
                           entries'[turns'[n].entry].waiting[1] = n
    BY DEF FirstIsServed
  <2>1. CASE n = m
    BY <2>1, <1>3 DEF InLine, Talk!InTurn
  <2>2. CASE n # m
    <3>1. /\ turns'[n] = turns[n]
          /\ Talk!InTurn(n) => n \in tickets
          /\ InLine(n) /\ n \in tickets => entries[turns[n].entry].waiting[1] = n
          /\ InLine(n) => turns[n].entry \in Messages
      BY <2>2, <1>3 DEF QueueInv, FirstIsServed, InTheirLines
    <3>2. Talk!InTurn(n)' => n \in tickets'
      BY <3>1, <1>2 DEF Talk!InTurn
    <3>3. ASSUME InLine(n), n \in tickets'
          PROVE  entries'[turns[n].entry].waiting[1] = n
      <4>1. CASE n \in tickets
        <5>1. turns[n].entry \in Messages \ {e}
          BY <4>1, <3>1, <3>3, <2>2, <1>1
        <5> QED
          BY <4>1, <5>1, <3>1, <3>3, <1>4
      <4>2. CASE Len(line) > 1 /\ n = line[2]
        <5>1. turns[n].entry = e
          BY <4>2, <1>1 DEF QueueInv, LinesAreSound
        <5>2. entries'[e].waiting[1] = line[2]
          BY <4>2, <1>1, <1>4
        <5> QED
          BY <4>2, <5>1, <5>2
      <4> QED
        BY <4>1, <4>2, <3>3, <1>8
    <3> QED
      BY <3>1, <3>2, <3>3 DEF InLine
  <2> QED
    BY <2>1, <2>2
<1>12. RegisteredAreInUse'
  <2> SUFFICES ASSUME NEW v \in Users, registry'[v] # None
               PROVE  /\ entries'[registry'[v]].waiting # <<>>
                      /\ \A i \in 1..Len(entries'[registry'[v]].waiting) :
                           turns'[entries'[registry'[v]].waiting[i]].user = v
    BY DEF RegisteredAreInUse
  <2>1. registry'[v] = registry[v] /\ registry[v] \in Messages
    BY <1>1, <1>7 DEF Talk!ConversationTypeOK
  <2>2. /\ entries[registry[v]].waiting # <<>>
        /\ \A i \in 1..Len(entries[registry[v]].waiting) :
             turns[entries[registry[v]].waiting[i]].user = v
    BY <2>1 DEF QueueInv, RegisteredAreInUse
  <2>3. CASE registry[v] = e
    <3>1. u = v
      BY <2>2, <2>3, <1>1, <1>6
    <3>2. Len(line) > 1
      <4>1. u \in Users /\ registry \in [Users -> Messages \union {None}] /\ Len(line) \in Nat
        BY <1>1 DEF Talk!ConversationTypeOK
      <4>2. ~(Len(line) = 1)
        BY <4>1, <3>1, <1>7
      <4>3. Len(line) >= 1
        BY <1>1
      <4>4. \A k \in Nat : k >= 1 /\ ~(k = 1) => k > 1
        OBVIOUS
      <4> HIDE DEF line
      <4> QED
        BY <4>1, <4>2, <4>3, <4>4
    <3>3. \A i \in 1..(Len(line) - 1) :
            i + 1 \in 2..Len(line) /\ entries'[e].waiting[i] = line[i + 1]
      BY <1>1, <1>4
    <3>4. \A i \in 2..Len(line) : turns'[line[i]].user = u
      BY <1>1, <1>3, <1>5, <1>6
    <3>5. \A i \in 1..Len(entries'[e].waiting) : turns'[entries'[e].waiting[i]].user = v
      BY <3>1, <3>3, <3>4, <1>4
    <3>6. entries'[e].waiting # <<>>
      BY <3>2, <1>1, <1>4
    <3> QED
      BY <2>1, <2>3, <3>5, <3>6
  <2>4. CASE registry[v] # e
    <3>1. entries'[registry'[v]] = entries[registry[v]]
      BY <2>1, <2>4, <1>4
    <3>2. \A i \in 1..Len(entries[registry[v]].waiting) :
            turns'[entries[registry[v]].waiting[i]].user = v
      BY <2>1, <2>2, <2>4, <1>3, <1>5
    <3> QED
      BY <2>2, <3>1, <3>2
  <2> QED
    BY <2>3, <2>4
<1> QED
  BY <1>9, <1>10, <1>11, <1>12 DEF QueueInv

\* A turn at rest, and what becomes of it, is a turn.
LEMMA RestingIsATurn ==
  /\ Talk!Resting \in Talk!TurnState /\ [Talk!Resting EXCEPT !.pc = "done"] \in Talk!TurnState
  /\ \A u \in Users, e \in Messages :
       [Talk!Resting EXCEPT !.pc = "waiting", !.user = u, !.entry = e] \in Talk!TurnState
<1>1. <<>> \in Seq(Talk!Exchange)
  OBVIOUS
<1>2. Talk!Resting \in Talk!TurnState
  BY <1>1 DEF Talk!Resting, Talk!TurnState
<1> QED
  BY <1>2 DEF Talk!TurnState

\* At the end of the process nobody stands in line.
LEMMA ForgetKeepsInv ==
  ASSUME Limits, Talk!ConversationTypeOK, Talk!ForgetConversation
  PROVE  TurnsInv'
<1>1. /\ \A m \in Messages : turns'[m] = turns[m] \/ turns'[m] = [Talk!Resting EXCEPT !.pc = "done"]
      /\ \A m \in Messages : turns'[m].pc \in {"idle", "done"}
      /\ DOMAIN turns' = Messages /\ turns' = [m \in Messages |-> turns'[m]]
  BY DEF Talk!ForgetConversation, Talk!Resting
<1>2. [Talk!Resting EXCEPT !.pc = "done"] \in Talk!TurnState
  BY RestingIsATurn
<1>3. \A m \in Messages : turns'[m] \in Talk!TurnState
  BY <1>1, <1>2 DEF Talk!ConversationTypeOK
<1>4. turns' \in [Messages -> Talk!TurnState]
  BY <1>1, <1>3
<1>5. /\ registry' \in [Users -> Messages \union {None}]
      /\ entries' \in [Messages -> Talk!Entry] /\ tickets' \subseteq Messages
      /\ memory' \in [Users -> Seq(Talk!Exchange)]
  BY DEF Talk!ForgetConversation, Talk!NoEntry, Talk!Entry
<1>6. \A u \in Users : Talk!Fits(memory'[u])
  BY NothingFits DEF Talk!ForgetConversation
<1>7. Talk!ConversationTypeOK'
  <2>1. \A u \in Users : Talk!Fits(memory[u])'
    BY <1>6
  <2> QED
    BY <1>4, <1>5, <2>1 DEF Talk!ConversationTypeOK
<1>8. \A m \in Messages : entries'[m] = Talk!NoEntry /\ m \notin tickets' /\ ~InLine(m)' /\ ~Talk!InTurn(m)'
  BY <1>1 DEF Talk!ForgetConversation, InLine, Talk!InTurn
<1>9. InTheirLines' /\ FirstIsServed'
  BY <1>8 DEF InTheirLines, FirstIsServed
<1>10. LinesAreSound'
  BY <1>8 DEF LinesAreSound, Talk!NoEntry
<1>11. RegisteredAreInUse'
  BY DEF RegisteredAreInUse, Talk!ForgetConversation
<1>12. Talk!NothingMissed'
  BY <1>1 DEF Talk!NothingMissed
<1> QED
  BY <1>7, <1>9, <1>10, <1>11, <1>12 DEF TurnsInv, QueueInv

\* The turn whose step it is may be told from all others.
LEMMA OneTurnHolds ==
  ASSUME Limits, Talk!ConversationTypeOK, QueueInv PROVE Talk!OneTurnAtATime
<1> SUFFICES ASSUME NEW m \in Messages, Talk!InTurn(m)
             PROVE  /\ registry[turns[m].user] = turns[m].entry
                    /\ Head(entries[turns[m].entry].waiting) = m
                    /\ \A n \in Messages : Talk!InTurn(n) /\ turns[n].user = turns[m].user => n = m
  BY DEF Talk!OneTurnAtATime
<1>1. \A n \in Messages : Talk!InTurn(n) =>
        /\ turns[n].user \in Users /\ turns[n].entry \in Messages
        /\ registry[turns[n].user] = turns[n].entry
        /\ entries[turns[n].entry].waiting[1] = n
  BY DEF QueueInv, InTheirLines, FirstIsServed, Talk!InTurn, InLine
<1>2. Head(entries[turns[m].entry].waiting) = entries[turns[m].entry].waiting[1]
  <2>1. entries[turns[m].entry].waiting \in Seq(Messages)
    BY <1>1 DEF Talk!ConversationTypeOK, Talk!Entry
  <2>2. entries[turns[m].entry].waiting # <<>>
    BY <1>1, Limits DEF QueueInv, RegisteredAreInUse, Limits
  <2> QED
    BY <2>1, <2>2
<1> QED
  BY <1>1, <1>2

\* The steps that do not enter or leave the line keep it.
LEMMA TurnKeepsQueue ==
  ASSUME Limits, Talk!ConversationTypeOK, QueueInv, NEW m \in Messages,
         Talk!Wake(m) \/ Talk!ReadMemory(m) \/ Talk!Generate(m) \/ Talk!Commit(m)
  PROVE  QueueInv'
<1>1. UNCHANGED <<registry, entries, tickets>>
  BY DEF Talk!Wake, Talk!ReadMemory, Talk!Generate, Talk!Commit
<1>2. \A n \in Messages :
        /\ turns'[n].pc = "idle" => turns[n].pc = "idle"
        /\ InLine(n)' <=> InLine(n)
        /\ InLine(n) => turns'[n].user = turns[n].user /\ turns'[n].entry = turns[n].entry
        /\ Talk!InTurn(n)' => n \in tickets
  <2>1. \A n \in Messages \ {m} : turns'[n] = turns[n]
    BY DEF Talk!ConversationTypeOK, Talk!Wake, Talk!ReadMemory, Talk!Generate, Talk!Commit,
           Talk!Goto, Talk!Become
  <2>2. \A n \in Messages : Talk!InTurn(n) => n \in tickets
    BY DEF QueueInv, FirstIsServed
  <2>3. turns'[m].user = turns[m].user /\ turns'[m].entry = turns[m].entry
    <3>1. turns \in [Messages -> Talk!TurnState] /\ turns[m] \in Talk!TurnState
      BY DEF Talk!ConversationTypeOK
    <3>2. CASE Talk!ReadMemory(m)
      <4>1. PICK failed \in BOOLEAN :
              turns' = [turns EXCEPT ![m] =
                [turns[m] EXCEPT !.pc = "generating", !.failed = failed,
                   !.history = IF failed THEN <<>> ELSE memory[turns[m].user]]]
        BY <3>2 DEF Talk!ReadMemory, Talk!Become
      <4> QED
        BY <4>1, <3>1 DEF Talk!TurnState
    <3>3. CASE Talk!Wake(m) \/ Talk!Generate(m) \/ Talk!Commit(m)
      BY <3>1, <3>3 DEF Talk!TurnState, Talk!Wake, Talk!Generate, Talk!Commit, Talk!Goto,
             Talk!Become
    <3> QED
      BY <3>2, <3>3
  <2>4. turns[m].pc \notin {"idle", "done"} /\ turns'[m].pc \notin {"idle", "done"}
    <3>1. turns \in [Messages -> Talk!TurnState] /\ turns[m] \in Talk!TurnState
      BY DEF Talk!ConversationTypeOK
    <3>2. turns[m].pc \notin {"idle", "done"}
      BY DEF Talk!Wake, Talk!ReadMemory, Talk!Generate, Talk!Commit
    <3>3. ASSUME NEW failed, NEW history, Talk!ReadMemory(m),
                 turns' = [turns EXCEPT ![m] = [turns[m] EXCEPT !.pc = "generating",
                             !.failed = failed, !.history = history]]
          PROVE  turns'[m].pc = "generating"
      <4> DEFINE w == [turns[m] EXCEPT !.pc = "generating", !.failed = failed,
                                       !.history = history]
      <4>1. w.pc = "generating"
        BY <3>1 DEF Talk!TurnState
      <4> HIDE DEF w
      <4>2. turns' = [turns EXCEPT ![m] = w]
        BY <3>3 DEF w
      <4> QED
        BY <4>1, <4>2, <3>1
    <3>4. ASSUME NEW pc \in {"reading", "committing", "leaving"}, Talk!Goto(m, pc)
          PROVE  turns'[m].pc \notin {"idle", "done"}
      BY <3>1, <3>4 DEF Talk!TurnState, Talk!Goto, Talk!Become
    <3>5. CASE Talk!Wake(m) \/ Talk!Generate(m) \/ Talk!Commit(m)
      BY <3>4, <3>5 DEF Talk!Wake, Talk!Generate, Talk!Commit
    <3>6. CASE Talk!ReadMemory(m)
      BY <3>3, <3>6 DEF Talk!ReadMemory, Talk!Become
    <3> QED
      BY <3>2, <3>5, <3>6
  <2>5. m \in tickets
    BY <2>2 DEF Talk!Wake, Talk!ReadMemory, Talk!Generate, Talk!Commit, Talk!InTurn
  <2> QED
    BY <2>1, <2>2, <2>3, <2>4, <2>5 DEF InLine, Talk!InTurn
<1> QED
  BY <1>1, <1>2, WithinTurns DEF Talk!ConversationTypeOK, Limits

----------------------------------------------------------------------------
(* Types *)

\* What is left after the exchange is added, if it is, is within the limits.
LEMMA CommitKeepsMemory ==
  ASSUME Limits, Talk!ConversationTypeOK, NEW u \in Users, NEW m \in Messages,
  NEW size \in Sizes,
         Talk!CommitExchange(u, m, size)
  PROVE  memory' \in [Users -> Seq(Talk!Exchange)] /\ \A v \in Users : Talk!Fits(memory'[v])
<1> DEFINE next == Append(memory[u], [message |-> m, size |-> size])
<1>1. next \in Seq(Talk!Exchange)
  <2>1. [message |-> m, size |-> size] \in Talk!Exchange
    BY DEF Limits, Talk!Exchange
  <2>2. memory[u] \in Seq(Talk!Exchange)
    BY DEF Talk!ConversationTypeOK
  <2> QED
    BY <2>1, <2>2
<1>2. Talk!Trimmed(next) \in Seq(Talk!Exchange) /\ Talk!Fits(Talk!Trimmed(next))
  BY <1>1, TrimmedFits
<1>3. memory' = memory \/ memory' = [memory EXCEPT ![u] = Talk!Trimmed(next)]
  BY DEF Talk!CommitExchange
<1>4. memory \in [Users -> Seq(Talk!Exchange)] /\ \A v \in Users : Talk!Fits(memory[v])
  BY DEF Talk!ConversationTypeOK
<1> HIDE DEF next
<1> QED
  BY <1>2, <1>3, <1>4

\* Every step has values of their types, and the memory of each subject within limits.
LEMMA StepKeepsTypes ==
  ASSUME Limits, Talk!ConversationTypeOK, QueueInv, NEW m \in Messages,
         Talk!TurnStep(m) \/ \E u \in Users : Talk!BeginTurn(m, u)
  PROVE  Talk!ConversationTypeOK'
<1> DEFINE FitsNow(mem) == mem \in [Users -> Seq(Talk!Exchange)] /\ \A v \in Users : Talk!Fits(mem[v])
<1>1. FitsNow(memory)
  BY DEF Talk!ConversationTypeOK
<1>2. turns \in [Messages -> Talk!TurnState] /\ turns[m] \in Talk!TurnState
  BY DEF Talk!ConversationTypeOK
<1>3. ASSUME turns' \in [Messages -> Talk!TurnState], FitsNow(memory'),
             registry' \in [Users -> Messages \union {None}],
             entries' \in [Messages -> Talk!Entry], tickets' \subseteq Messages
      PROVE  Talk!ConversationTypeOK'
  <2>1. \A u \in Users : Talk!Fits(memory[u])'
    BY <1>3
  <2> QED
    BY <1>3, <2>1 DEF Talk!ConversationTypeOK
<1>4. /\ registry \in [Users -> Messages \union {None}]
      /\ entries \in [Messages -> Talk!Entry] /\ tickets \subseteq Messages
  BY DEF Talk!ConversationTypeOK
<1>5. ASSUME NEW u \in Users, Talk!BeginTurn(m, u) PROVE Talk!ConversationTypeOK'
  <2> DEFINE e == IF registry[u] = None THEN m ELSE registry[u]
             line == entries[e].waiting
  <2>1. e \in Messages
    BY <1>4
  <2>2. line \in Seq(Messages) /\ entries[e].count \in Nat
    BY <1>4, <2>1 DEF Talk!Entry
  <2>3. /\ entries' = [entries EXCEPT ![e] =
                         [waiting |-> Append(line, m), count |-> entries[e].count + 1]]
        /\ registry' = [registry EXCEPT ![u] = e]
        /\ tickets' = IF line = <<>> THEN tickets \union {m} ELSE tickets
        /\ turns' = [turns EXCEPT ![m] =
                       [Talk!Resting EXCEPT !.pc = "waiting", !.user = u, !.entry = e]]
        /\ memory' = memory
    BY <1>5, <1>4, <2>1 DEF Talk!BeginTurn, Talk!EnterQueue, Talk!Become, Talk!Entry
  <2> HIDE DEF e
  <2>4. entries' \in [Messages -> Talk!Entry]
    <3>1. [waiting |-> Append(line, m), count |-> entries[e].count + 1] \in Talk!Entry
      BY <2>2 DEF Talk!Entry
    <3> HIDE DEF line
    <3> QED
      BY <3>1, <2>1, <2>3, <1>4
  <2>5. [Talk!Resting EXCEPT !.pc = "waiting", !.user = u, !.entry = e] \in Talk!TurnState
    BY <2>1, RestingIsATurn
  <2>6. turns' \in [Messages -> Talk!TurnState]
    BY <2>3, <2>5, <1>2
  <2> QED
    BY <2>1, <2>3, <2>4, <2>6, <1>1, <1>3, <1>4
<1>6. ASSUME Talk!Wake(m) \/ Talk!ReadMemory(m) \/ Talk!Generate(m) \/ Talk!Commit(m) PROVE Talk!ConversationTypeOK'
  <2>1. UNCHANGED <<registry, entries, tickets>>
    BY <1>6 DEF Talk!Wake, Talk!ReadMemory, Talk!Generate, Talk!Commit
  <2>2. turns[m].user \in Users
    BY <1>6 DEF Talk!Wake, Talk!ReadMemory, Talk!Generate, Talk!Commit, QueueInv, InTheirLines,
           InLine
  <2>3. FitsNow(memory')
    <3>1. CASE Talk!Commit(m)
      <4>1. CASE UNCHANGED memory
        BY <4>1, <1>1
      <4>2. CASE \E size \in Sizes : Talk!CommitExchange(turns[m].user, m, size)
        BY <4>2, <2>2, CommitKeepsMemory
      <4> QED
        BY <3>1, <4>1, <4>2 DEF Talk!Commit
    <3>2. CASE Talk!Wake(m) \/ Talk!ReadMemory(m) \/ Talk!Generate(m)
      BY <3>2, <1>1 DEF Talk!Wake, Talk!ReadMemory, Talk!Generate
    <3> QED
      BY <1>6, <3>1, <3>2
  <2>4. turns' \in [Messages -> Talk!TurnState]
    <3>1. CASE Talk!ReadMemory(m)
      <4>1. PICK failed \in BOOLEAN :
              turns' = [turns EXCEPT ![m] =
                [turns[m] EXCEPT !.pc = "generating", !.failed = failed,
                   !.history = IF failed THEN <<>> ELSE memory[turns[m].user]]]
        BY <3>1 DEF Talk!ReadMemory, Talk!Become
      <4>2. memory[turns[m].user] \in Seq(Talk!Exchange) /\ <<>> \in Seq(Talk!Exchange)
        BY <1>1, <2>2
      <4>3. [turns[m] EXCEPT !.pc = "generating", !.failed = failed,
               !.history = IF failed THEN <<>> ELSE memory[turns[m].user]] \in Talk!TurnState
        BY <4>2, <1>2 DEF Talk!TurnState
      <4> QED
        BY <4>1, <4>3, <1>2
    <3>2. ASSUME NEW pc \in {"reading", "committing", "leaving"}, Talk!Goto(m, pc)
          PROVE  turns' \in [Messages -> Talk!TurnState]
      <4>1. [turns[m] EXCEPT !.pc = pc] \in Talk!TurnState
        BY <1>2 DEF Talk!TurnState
      <4> QED
        BY <4>1, <3>2, <1>2 DEF Talk!Goto, Talk!Become
    <3>3. CASE Talk!Wake(m) \/ Talk!Generate(m) \/ Talk!Commit(m)
      BY <3>2, <3>3 DEF Talk!Wake, Talk!Generate, Talk!Commit
    <3> QED
      BY <1>6, <3>1, <3>3
  <2> QED
    BY <2>1, <2>3, <2>4, <1>3, <1>4
<1>7. ASSUME Talk!Leave(m) PROVE Talk!ConversationTypeOK'
  <2> DEFINE e == turns[m].entry
             line == entries[e].waiting
  <2>1. e \in Messages /\ turns[m].user \in Users /\ registry[turns[m].user] = e
    BY <1>7 DEF Talk!Leave, QueueInv, InTheirLines, InLine
  <2>2. line \in Seq(Messages) /\ line # <<>>
    BY <2>1, <1>4 DEF Talk!Entry, QueueInv, RegisteredAreInUse, Limits
  <2>3. entries[e].count = Len(line) /\ Len(line) \in Nat /\ Len(line) >= 1
    BY <2>1, <2>2 DEF QueueInv, LinesAreSound
  <2>4. Tail(line) \in Seq(Messages) /\ (Tail(line) # <<>> => Head(Tail(line)) \in Messages)
    BY <2>2
  <2>5. /\ entries' = [entries EXCEPT ![e] =
                         [waiting |-> Tail(line), count |-> entries[e].count - 1]]
        /\ tickets' = IF Tail(line) # <<>> THEN tickets \union {Head(Tail(line))} ELSE tickets
        /\ \/ registry' = [registry EXCEPT ![turns[m].user] = None]
           \/ registry' = registry
        /\ turns' = [turns EXCEPT ![m] = [Talk!Resting EXCEPT !.pc = "done"]]
        /\ memory' = memory
    BY <1>7, <2>1, <1>4 DEF Talk!Leave, Talk!LeaveQueue, Talk!Become, Talk!Entry
  <2>6. [waiting |-> Tail(line), count |-> entries[e].count - 1] \in Talk!Entry
    BY <2>3, <2>4 DEF Talk!Entry
  <2>7. [Talk!Resting EXCEPT !.pc = "done"] \in Talk!TurnState
    BY RestingIsATurn
  <2>8. turns' \in [Messages -> Talk!TurnState]
    BY <2>5, <2>7, <1>2
  <2>9. entries' \in [Messages -> Talk!Entry] /\ tickets' \subseteq Messages
    <3> HIDE DEF line, e
    <3> QED
      BY <2>1, <2>4, <2>5, <2>6, <1>4
  <2> QED
    BY <2>5, <2>8, <2>9, <1>1, <1>3, <1>4
<1> QED
  BY <1>5, <1>6, <1>7 DEF Talk!TurnStep

----------------------------------------------------------------------------
(* Histories *)

\* Memory is only written in a turn, and then no other turn of its subject has read it.
LEMMA StepMissesNothing ==
  ASSUME Limits, TurnsInv, NEW m \in Messages,
         Talk!TurnStep(m) \/ \E u \in Users : Talk!BeginTurn(m, u)
  PROVE  Talk!NothingMissed'
<1> SUFFICES ASSUME NEW n \in Messages, turns'[n].pc \in {"generating", "committing"},
                    ~turns'[n].failed
             PROVE  turns'[n].history = memory'[turns'[n].user]
  BY DEF Talk!NothingMissed
<1>1. \A k \in Messages \ {m} : turns'[k] = turns[k]
  BY DEF TurnsInv, Talk!ConversationTypeOK, Talk!TurnStep, Talk!BeginTurn, Talk!EnterQueue,
         Talk!Wake, Talk!ReadMemory, Talk!Generate,
         Talk!Commit, Talk!Leave, Talk!Goto, Talk!Become
<1>2. CASE n = m
  <2>1. turns' = [turns EXCEPT ![m] = turns'[m]] /\ turns[m] \in Talk!TurnState
    BY DEF TurnsInv, Talk!ConversationTypeOK, Talk!TurnStep, Talk!BeginTurn, Talk!EnterQueue,
           Talk!Wake, Talk!ReadMemory,
           Talk!Generate, Talk!Commit, Talk!Leave, Talk!Goto, Talk!Become
  <2>2. CASE Talk!ReadMemory(m)
    <3>1. PICK failed \in BOOLEAN :
            turns' = [turns EXCEPT ![m] =
              [turns[m] EXCEPT !.pc = "generating", !.failed = failed,
                 !.history = IF failed THEN <<>> ELSE memory[turns[m].user]]]
      BY <2>2 DEF Talk!ReadMemory, Talk!Become
    <3> QED
      BY <3>1, <2>2, <1>2 DEF Talk!ReadMemory, TurnsInv, Talk!ConversationTypeOK, Talk!TurnState
  <2>3. CASE Talk!Generate(m)
    <3>1. /\ turns'[m].history = turns[m].history /\ turns'[m].user = turns[m].user
          /\ turns'[m].failed = turns[m].failed /\ turns[m].pc = "generating"
          /\ memory' = memory
      BY <2>3 DEF Talk!Generate, Talk!Goto, Talk!Become, TurnsInv, Talk!ConversationTypeOK,
             Talk!TurnState
    <3> QED
      BY <3>1, <1>2 DEF TurnsInv, Talk!NothingMissed
  <2>4. CASE Talk!Wake(m) \/ Talk!Commit(m) \/ Talk!Leave(m) \/ \E u \in Users : Talk!BeginTurn(m, u)
    <3>1. turns'[m].pc \in {"reading", "leaving", "done", "waiting"}
      <4>1. CASE \E u \in Users : Talk!BeginTurn(m, u)
        <5>1. PICK u \in Users, e \in Messages :
                turns' = [turns EXCEPT ![m] =
                            [Talk!Resting EXCEPT !.pc = "waiting", !.user = u, !.entry = e]]
          <6>1. PICK u \in Users : Talk!BeginTurn(m, u)
            BY <4>1
          <6> DEFINE e == IF registry[u] = None THEN m ELSE registry[u]
          <6>2. e \in Messages
            BY DEF TurnsInv, Talk!ConversationTypeOK
          <6>3. turns' = [turns EXCEPT ![m] =
                            [Talk!Resting EXCEPT !.pc = "waiting", !.user = u, !.entry = e]]
            BY <6>1 DEF Talk!BeginTurn, Talk!EnterQueue, Talk!Become
          <6> HIDE DEF e
          <6> QED
            BY <6>2, <6>3
        <5>2. Talk!Resting \in Talk!TurnState
          BY RestingIsATurn
        <5> QED
          BY <5>1, <5>2, <2>1 DEF TurnsInv, Talk!ConversationTypeOK, Talk!TurnState
      <4>2. CASE Talk!Wake(m) \/ Talk!Commit(m)
        BY <4>2, <2>1 DEF TurnsInv, Talk!ConversationTypeOK, Talk!TurnState, Talk!Wake,
               Talk!Commit, Talk!Goto, Talk!Become
      <4>3. CASE Talk!Leave(m)
        <5>1. turns'[m] = [Talk!Resting EXCEPT !.pc = "done"]
          BY <4>3 DEF TurnsInv, Talk!ConversationTypeOK, Talk!Leave, Talk!Become
        <5>2. Talk!Resting \in Talk!TurnState
          BY RestingIsATurn
        <5> QED
          BY <5>1, <5>2 DEF Talk!TurnState
      <4> QED
        BY <2>4, <4>1, <4>2, <4>3
    <3> QED
      BY <3>1, <1>2
  <2> QED
    BY <2>2, <2>3, <2>4 DEF Talk!TurnStep
<1>3. CASE n # m
  <2>1. /\ turns'[n] = turns[n] /\ Talk!InTurn(n) /\ turns[n].user \in Users
        /\ turns[n].history = memory[turns[n].user]
    BY <1>1, <1>3 DEF Talk!InTurn, InLine, TurnsInv, Talk!NothingMissed, QueueInv, InTheirLines
  <2>2. CASE UNCHANGED memory
    BY <2>1, <2>2
  <2>3. CASE Talk!Commit(m) /\ memory' # memory
    <3>1. PICK size \in Sizes : Talk!CommitExchange(turns[m].user, m, size)
      BY <2>3 DEF Talk!Commit
    <3>2. turns[n].user # turns[m].user
      <4>1. Talk!InTurn(m)
        BY <2>3 DEF Talk!Commit, Talk!InTurn
      <4> QED
        BY <4>1, <2>1, <1>3, OneTurnHolds DEF TurnsInv, Talk!OneTurnAtATime
    <3>3. memory'[turns[n].user] = memory[turns[n].user]
      BY <3>1, <3>2, <2>1 DEF Talk!CommitExchange, TurnsInv, Talk!ConversationTypeOK
    <3> QED
      BY <3>3, <2>1
  <2> QED
    BY <2>2, <2>3 DEF Talk!TurnStep, Talk!BeginTurn, Talk!Wake, Talk!ReadMemory, Talk!Generate,
           Talk!Leave
<1> QED
  BY <1>2, <1>3

----------------------------------------------------------------------------
(* The invariant of turns *)

\* Before any message nobody stands in line and nothing is remembered.
LEMMA StartsSound == ASSUME Limits, Talk!ConversationInit PROVE TurnsInv
<1>1. Talk!Resting \in Talk!TurnState
  BY RestingIsATurn
<1>2. \A u \in Users : Talk!Fits(memory[u])
  BY NothingFits DEF Talk!ConversationInit
<1>3. Talk!ConversationTypeOK
  BY <1>1, <1>2 DEF Talk!ConversationInit, Talk!ConversationTypeOK, Talk!NoEntry, Talk!Entry
<1>4. \A m \in Messages : /\ entries[m] = Talk!NoEntry /\ m \notin tickets
                          /\ turns[m].pc = "idle" /\ ~InLine(m) /\ ~Talk!InTurn(m)
  BY DEF Talk!ConversationInit, Talk!Resting, InLine, Talk!InTurn
<1>5. InTheirLines /\ FirstIsServed
  BY <1>4 DEF InTheirLines, FirstIsServed
<1>6. LinesAreSound
  BY <1>4 DEF LinesAreSound, Talk!NoEntry
<1>7. RegisteredAreInUse
  BY DEF RegisteredAreInUse, Talk!ConversationInit
<1>8. Talk!NothingMissed
  BY <1>4 DEF Talk!NothingMissed
<1> QED
  BY <1>3, <1>5, <1>6, <1>7, <1>8 DEF TurnsInv, QueueInv

\* One step of any thread, or the end of the process.
LEMMA NextKeepsInv ==
  ASSUME Limits, TurnsInv, [Talk!ConversationNext]_(Talk!conversationVars) PROVE TurnsInv'
<1>1. CASE UNCHANGED Talk!conversationVars
  <2>1. Talk!ConversationTypeOK'
    BY <1>1 DEF Talk!conversationVars, TurnsInv, Talk!ConversationTypeOK
  <2>2. InTheirLines' /\ LinesAreSound'
    BY <1>1 DEF Talk!conversationVars, TurnsInv, QueueInv, InTheirLines, LinesAreSound, InLine
  <2>3. FirstIsServed' /\ RegisteredAreInUse' /\ Talk!NothingMissed'
    BY <1>1 DEF Talk!conversationVars, TurnsInv, QueueInv, FirstIsServed, RegisteredAreInUse,
                Talk!NothingMissed, InLine, Talk!InTurn
  <2> QED
    BY <2>1, <2>2, <2>3 DEF TurnsInv, QueueInv
<1>2. CASE Talk!ForgetConversation
  BY <1>2, ForgetKeepsInv DEF TurnsInv
<1>3. ASSUME NEW m \in Messages, Talk!TurnStep(m) \/ \E u \in Users : Talk!BeginTurn(m, u)
      PROVE  TurnsInv'
  <2>1. Talk!ConversationTypeOK'
    BY <1>3, StepKeepsTypes DEF TurnsInv
  <2>2. QueueInv'
    <3>1. ASSUME NEW u \in Users, Talk!BeginTurn(m, u) PROVE QueueInv'
      BY <3>1, EnterKeepsQueue DEF Talk!BeginTurn, TurnsInv
    <3>2. CASE Talk!Leave(m)
      BY <3>2, LeaveKeepsQueue DEF TurnsInv
    <3>3. CASE Talk!Wake(m) \/ Talk!ReadMemory(m) \/ Talk!Generate(m) \/ Talk!Commit(m)
      BY <3>3, TurnKeepsQueue DEF TurnsInv
    <3> QED
      BY <1>3, <3>1, <3>2, <3>3 DEF Talk!TurnStep
  <2>3. Talk!NothingMissed'
    BY <1>3, StepMissesNothing
  <2> QED
    BY <2>1, <2>2, <2>3 DEF TurnsInv
<1> QED
  BY <1>1, <1>2, <1>3 DEF Talk!ConversationNext

----------------------------------------------------------------------------
(* Turns in order *)

\* A reading that failed has left nothing to hear.
FailuresHearNothing == \A m \in Messages : turns[m].failed => turns[m].history = <<>>

LEMMA FailuresStayUnheard ==
  ASSUME Talk!ConversationTypeOK, FailuresHearNothing,
         [Talk!ConversationNext]_(Talk!conversationVars)
  PROVE  FailuresHearNothing'
<1>1. turns \in [Messages -> Talk!TurnState]
  BY DEF Talk!ConversationTypeOK
<1>2. ASSUME NEW m \in Messages, NEW w, turns' = [turns EXCEPT ![m] = w],
             w.failed => w.history = <<>>
      PROVE  FailuresHearNothing'
  BY <1>1, <1>2 DEF FailuresHearNothing
<1>3. Talk!Resting.failed = FALSE /\ Talk!Resting.history = <<>>
  BY DEF Talk!Resting
<1>4. CASE UNCHANGED Talk!conversationVars
  BY <1>4 DEF Talk!conversationVars, FailuresHearNothing
<1>5. CASE Talk!ForgetConversation
  <2>1. \A m \in Messages :
          \/ turns'[m] = turns[m]
          \/ turns'[m] = [Talk!Resting EXCEPT !.pc = "done"]
    BY <1>5 DEF Talk!ForgetConversation
  <2>2. ~[Talk!Resting EXCEPT !.pc = "done"].failed
    BY DEF Talk!Resting
  <2> QED
    BY <2>1, <2>2 DEF FailuresHearNothing
<1>6. ASSUME NEW m \in Messages, NEW u \in Users, Talk!BeginTurn(m, u)
      PROVE  FailuresHearNothing'
  <2> DEFINE e == IF registry[u] = None THEN m ELSE registry[u]
             w == [Talk!Resting EXCEPT !.pc = "waiting", !.user = u, !.entry = e]
  <2>1. turns' = [turns EXCEPT ![m] = w]
    BY <1>6 DEF Talk!BeginTurn, Talk!EnterQueue, Talk!Become
  <2>2. ~w.failed
    BY DEF Talk!Resting
  <2> HIDE DEF w
  <2> QED
    BY <2>1, <2>2, <1>2
<1>7. ASSUME NEW m \in Messages, NEW pc, Talk!Goto(m, pc) PROVE FailuresHearNothing'
  <2> DEFINE w == [turns[m] EXCEPT !.pc = pc]
  <2>1. turns' = [turns EXCEPT ![m] = w]
    BY <1>7 DEF Talk!Goto, Talk!Become
  <2>2. w.failed = turns[m].failed /\ w.history = turns[m].history
    BY <1>1 DEF Talk!TurnState
  <2> HIDE DEF w
  <2> QED
    BY <2>1, <2>2, <1>2 DEF FailuresHearNothing
<1>8. ASSUME NEW m \in Messages, Talk!ReadMemory(m) PROVE FailuresHearNothing'
  <2>1. PICK failed \in BOOLEAN :
          turns' = [turns EXCEPT ![m] =
            [turns[m] EXCEPT !.pc = "generating", !.failed = failed,
               !.history = IF failed THEN <<>> ELSE memory[turns[m].user]]]
    BY <1>8 DEF Talk!ReadMemory, Talk!Become
  <2> DEFINE w == [turns[m] EXCEPT !.pc = "generating", !.failed = failed,
                     !.history = IF failed THEN <<>> ELSE memory[turns[m].user]]
  <2>2. w.failed => w.history = <<>>
    BY <1>1 DEF Talk!TurnState
  <2> HIDE DEF w
  <2>3. turns' = [turns EXCEPT ![m] = w]
    BY <2>1 DEF w
  <2> QED
    BY <2>2, <2>3, <1>2
<1>9. ASSUME NEW m \in Messages, Talk!Leave(m) PROVE FailuresHearNothing'
  <2>1. turns' = [turns EXCEPT ![m] = [Talk!Resting EXCEPT !.pc = "done"]]
    BY <1>9 DEF Talk!Leave, Talk!Become
  <2>2. ~[Talk!Resting EXCEPT !.pc = "done"].failed
    BY DEF Talk!Resting
  <2> QED
    BY <2>1, <2>2, <1>2
<1>10. ASSUME NEW m \in Messages, Talk!Wake(m) \/ Talk!Generate(m) \/ Talk!Commit(m)
       PROVE  FailuresHearNothing'
  BY <1>10, <1>7 DEF Talk!Wake, Talk!Generate, Talk!Commit
<1> QED
  BY <1>4, <1>5, <1>6, <1>8, <1>9, <1>10 DEF Talk!ConversationNext, Talk!TurnStep

\* One exchange that is not too large is within the limits.
LEMMA OneFits ==
  ASSUME Limits, MaxExchanges >= 1, NEW x \in Talk!Exchange, x.size <= MaxCharacters
  PROVE  Talk!Fits(<<x>>)
<1> DEFINE one == <<x>>
           total[s \in SUBSET {1}] ==
             IF s = {} THEN 0 ELSE LET i == Talk!Max(s) IN total[s \ {i}] + one[i].size
<1>1. x.size \in Nat /\ one[1] = x /\ Len(one) = 1 /\ DOMAIN one = {1}
  BY DEF Talk!Exchange, Limits
<1>2. \A s \in SUBSET {1} : s # {} => s = {1}
  OBVIOUS
<1>3. Talk!Max({1}) = 1
  BY DEF Talk!Max
<1>4. total = [s \in SUBSET {1} |->
                 IF s = {} THEN 0 ELSE LET i == Talk!Max(s) IN total[s \ {i}] + one[i].size]
  <2> DEFINE f == [s \in SUBSET {1} |-> IF s = {} THEN 0 ELSE x.size]
             g == [s \in SUBSET {1} |->
                     IF s = {} THEN 0 ELSE LET i == Talk!Max(s) IN f[s \ {i}] + one[i].size]
  <2>1. f[{}] = 0 /\ {1} \ {1} = {}
    OBVIOUS
  <2>2. f[{1} \ {Talk!Max({1})}] + one[Talk!Max({1})].size = x.size
    <3> HIDE DEF f, one
    <3> QED
      BY <2>1, <1>1, <1>3
  <2>3. ASSUME NEW s \in SUBSET {1} PROVE f[s] = g[s]
    <3>1. CASE s = {}
      BY <3>1
    <3>2. CASE s = {1}
      <4>1. f[s] = x.size
        BY <3>2
      <4>2. g[s] = f[s \ {Talk!Max(s)}] + one[Talk!Max(s)].size
        BY <3>2
      <4> HIDE DEF f, g, one
      <4> QED
        BY <3>2, <4>1, <4>2, <2>2
    <3> QED
      BY <3>1, <3>2, <1>2
  <2>4. f = g
    BY <2>3
  <2>5. \E h : h = [s \in SUBSET {1} |->
                      IF s = {} THEN 0 ELSE LET i == Talk!Max(s) IN h[s \ {i}] + one[i].size]
    BY <2>4
  <2> QED
    BY <2>5
<1>5. total[{1}] = x.size
  <2> HIDE DEF one
  <2>1. total[{}] = 0
    BY <1>4
  <2>2. total[{1}] = total[{1} \ {Talk!Max({1})}] + one[Talk!Max({1})].size
    BY <1>4
  <2>3. {1} \ {1} = {}
    OBVIOUS
  <2>4. {1} \ {Talk!Max({1})} = {}
    BY <2>3, <1>3, Zenon
  <2> HIDE DEF total
  <2>5. total[{1}] = total[{}] + one[1].size
    BY <2>2, <2>4, <1>3, Zenon
  <2>6. total[{1}] = 0 + x.size
    BY <2>1, <2>5, <1>1, Zenon
  <2> QED
    BY <2>6, <1>1
<1>6. Talk!Characters(one) = total[DOMAIN one]
  BY <1>1 DEF Talk!Characters, Talk!FoldLeft, Talk!MapThenFoldSet
<1> HIDE DEF total
<1> QED
  BY <1>1, <1>5, <1>6 DEF Talk!Fits, Limits

\* _trim() never forgets the exchange that was just added.
LEMMA NewestStays ==
  ASSUME Limits, MaxExchanges >= 1, NEW s \in Seq(Talk!Exchange),
         NEW x \in Talk!Exchange, x.size <= MaxCharacters
  PROVE  \E n \in 0..Len(s) :
           Talk!Trimmed(Append(s, x)) = SubSeq(Append(s, x), n + 1, Len(s) + 1)
<1> DEFINE pairs == Append(s, x)
           S == {n \in 0..Len(pairs) : Talk!Fits(Talk!Without(pairs, n))}
<1>1. /\ Len(s) \in Nat /\ pairs \in Seq(Talk!Exchange) /\ Len(pairs) = Len(s) + 1
      /\ pairs[Len(s) + 1] = x
  OBVIOUS
<1>2. SubSeq(pairs, Len(s) + 1, Len(s) + 1) = <<x>>
  <2> DEFINE last == SubSeq(pairs, Len(s) + 1, Len(s) + 1)
  <2> HIDE DEF pairs
  <2>1. last \in Seq(Talk!Exchange) /\ Len(last) = 1 /\ last[1] = x
    BY <1>1
  <2> HIDE DEF last
  <2>2. last = <<last[1]>>
    BY <2>1
  <2> QED
    BY <2>1, <2>2 DEF last
<1>3. Len(s) \in S
  <2>1. Talk!Without(pairs, Len(s)) = <<x>>
    BY <1>1, <1>2, Zenon DEF Talk!Without
  <2>2. Talk!Fits(<<x>>)
    BY OneFits
  <2> HIDE DEF pairs
  <2> QED
    BY <1>1, <2>1, <2>2
<1>4. Talk!Min(S) \in S /\ \A n \in S : Talk!Min(S) <= n
  <2>1. S \in SUBSET Nat /\ S # {}
    BY <1>1, <1>3
  <2> HIDE DEF S
  <2> QED
    BY <2>1, LeastNatural
<1>5. Talk!Min(S) \in 0..Len(s)
  <2>1. Talk!Min(S) <= Len(s) /\ Talk!Min(S) \in 0..Len(pairs)
    BY <1>3, <1>4
  <2> HIDE DEF S
  <2> QED
    BY <2>1, <1>1
<1>6. Talk!Trimmed(pairs) = SubSeq(pairs, Talk!Min(S) + 1, Len(s) + 1)
  BY <1>1 DEF Talk!Trimmed, Talk!Without
<1> HIDE DEF S
<1> QED
  BY <1>5, <1>6

\* A message in its turn is the first of its subject's line.
LEMMA InTurnIsFirst ==
  ASSUME Limits, Talk!ConversationTypeOK, QueueInv, NEW m \in Messages, Talk!InTurn(m)
  PROVE  /\ turns[m].user \in Users /\ Serial!First(m, turns[m].user)
         /\ Lines[turns[m].user] = entries[turns[m].entry].waiting
<1>1. /\ turns[m].user \in Users /\ turns[m].entry \in Messages
      /\ registry[turns[m].user] = turns[m].entry
  BY DEF QueueInv, InTheirLines, InLine, Talk!InTurn
<1>2. registry[turns[m].user] # None
  BY <1>1 DEF Limits
<1>3. Lines[turns[m].user] = entries[turns[m].entry].waiting
  BY <1>1, <1>2 DEF Lines
<1>4. entries[turns[m].entry].waiting # <<>>
  BY <1>1, <1>2 DEF QueueInv, RegisteredAreInUse
<1>5. Head(entries[turns[m].entry].waiting) = m
  BY OneTurnHolds DEF Talk!OneTurnAtATime
<1> QED
  BY <1>1, <1>3, <1>4, <1>5 DEF Serial!First

\* What shows of a step of one turn.
LEMMA WhatShows ==
  ASSUME turns \in [Messages -> Talk!TurnState], NEW m \in Messages, NEW w,
         turns' = [turns EXCEPT ![m] = w], w.pc # "idle"
  PROVE  /\ turns[m].pc # "idle" => Came' = Came
         /\ Came' = Came \union {m}
         /\ w.pc # "leaving" => Over' = Over \ {m}
         /\ w.pc # "leaving" => Heard' = [Heard EXCEPT ![m] = <<>>]
         /\ w.pc = "leaving" => Over' = Over \union {m}
         /\ w.pc = "leaving" => Heard' = [Heard EXCEPT ![m] = w.history]
         /\ turns[m].pc # "leaving" => m \notin Over /\ Heard[m] = <<>>
<1>1. turns'[m] = w /\ \A n \in Messages \ {m} : turns'[n] = turns[n]
  OBVIOUS
<1>2. Came' = Came \union {m} /\ (turns[m].pc # "idle" => Came' = Came)
  BY <1>1 DEF Came
<1>3. w.pc # "leaving" => Over' = Over \ {m}
  BY <1>1 DEF Over
<1>4. w.pc = "leaving" => Over' = Over \union {m}
  BY <1>1 DEF Over
<1>5. turns[m].pc # "leaving" => m \notin Over
  BY DEF Over
<1>6. /\ Heard = [n \in Messages |-> IF n \in Over THEN turns[n].history ELSE <<>>]
      /\ Heard' = [n \in Messages |-> IF n \in Over' THEN turns'[n].history ELSE <<>>]
  BY DEF Heard
<1>7. \A n \in Messages \ {m} : Heard'[n] = Heard[n]
  BY <1>1, <1>3, <1>4, <1>6
<1>8. /\ w.pc # "leaving" => Heard'[m] = <<>>
      /\ w.pc = "leaving" => Heard'[m] = w.history
      /\ turns[m].pc # "leaving" => Heard[m] = <<>>
  BY <1>1, <1>3, <1>4, <1>5, <1>6
<1>9. /\ w.pc # "leaving" => Heard' = [Heard EXCEPT ![m] = <<>>]
      /\ w.pc = "leaving" => Heard' = [Heard EXCEPT ![m] = w.history]
  BY <1>6, <1>7, <1>8
<1> QED
  BY <1>2, <1>3, <1>4, <1>5, <1>8, <1>9

\* Where the entries stay, so do the lines.
LEMMA LinesStay == ASSUME UNCHANGED <<registry, entries>> PROVE Lines' = Lines
BY DEF Lines

\* An entry is registered for one subject.
LEMMA EntriesAreOwned ==
  ASSUME Talk!ConversationTypeOK, QueueInv, NEW u \in Users, NEW v \in Users,
         registry[u] # None, registry[u] = registry[v]
  PROVE  u = v
<1>1. /\ entries[registry[u]].waiting \in Seq(Messages)
      /\ entries[registry[u]].waiting # <<>>
  BY DEF Talk!ConversationTypeOK, Talk!Entry, QueueInv, RegisteredAreInUse
<1>2. 1 \in 1..Len(entries[registry[u]].waiting)
  BY <1>1
<1> QED
  BY <1>2 DEF QueueInv, RegisteredAreInUse

\* A step on the entry of one subject changes its line and no other.
LEMMA OneLineMoves ==
  ASSUME Limits, Talk!ConversationTypeOK, QueueInv, NEW u \in Users,
         NEW e \in Messages, NEW r \in {e, None}, NEW row,
         registry[u] = e \/ (registry[u] = None /\ entries[e].waiting = <<>>),
         registry' = [registry EXCEPT ![u] = r], entries' = [entries EXCEPT ![e] = row]
  PROVE  Lines' = [Lines EXCEPT ![u] = IF r = None THEN <<>> ELSE row.waiting]
<1> USE DEF Limits
<1>1. /\ registry \in [Users -> Messages \union {None}] /\ entries \in [Messages -> Talk!Entry]
      /\ None \notin Messages
  BY DEF Talk!ConversationTypeOK
<1>2. /\ Lines = [v \in Users |-> IF registry[v] = None THEN <<>> ELSE entries[registry[v]].waiting]
      /\ Lines' = [v \in Users |->
                     IF registry'[v] = None THEN <<>> ELSE entries'[registry'[v]].waiting]
  BY DEF Lines
<1>3. Lines'[u] = IF r = None THEN <<>> ELSE row.waiting
  BY <1>1, <1>2
<1>4. ASSUME NEW v \in Users \ {u} PROVE Lines'[v] = Lines[v]
  <2>1. registry'[v] = registry[v]
    BY <1>1
  <2>2. registry[v] # e
    <3>1. CASE registry[u] = e
      BY <3>1, <1>1, EntriesAreOwned
    <3>2. CASE registry[u] = None /\ entries[e].waiting = <<>>
      BY <3>2, <1>1 DEF QueueInv, RegisteredAreInUse
    <3> QED
      BY <3>1, <3>2
  <2>3. registry[v] # None => entries'[registry[v]] = entries[registry[v]]
    BY <1>1, <2>2
  <2> QED
    BY <1>2, <2>1, <2>3
<1> QED
  BY <1>2, <1>3, <1>4

\* turn(), first part: who enters stands last.
LEMMA BeginIsArrive ==
  ASSUME Limits, Talk!ConversationTypeOK, QueueInv,
         NEW m \in Messages, NEW u \in Users, Talk!BeginTurn(m, u)
  PROVE  Serial!Arrive(m, u)
<1> DEFINE e == IF registry[u] = None THEN m ELSE registry[u]
           row == [waiting |-> Append(entries[e].waiting, m), count |-> entries[e].count + 1]
           w == [Talk!Resting EXCEPT !.pc = "waiting", !.user = u, !.entry = e]
<1>1. /\ turns[m].pc = "idle" /\ turns' = [turns EXCEPT ![m] = w] /\ memory' = memory
      /\ registry' = [registry EXCEPT ![u] = e]
      /\ entries' = [entries EXCEPT ![e] = row]
  BY DEF Talk!BeginTurn, Talk!EnterQueue, Talk!Become
<1>2. w.pc = "waiting"
  BY DEF Talk!Resting
<1>3. e \in Messages
  BY DEF Talk!ConversationTypeOK
<1>4. registry[u] = e \/ (registry[u] = None /\ entries[e].waiting = <<>>)
  BY <1>1 DEF QueueInv, InTheirLines, Talk!NoEntry
<1>5. Lines[u] = entries[e].waiting /\ row.waiting = Append(entries[e].waiting, m)
  <2>1. registry[u] = None => Lines[u] = <<>>
    BY DEF Lines
  <2>2. registry[u] # None => Lines[u] = entries[e].waiting
    BY DEF Lines
  <2> QED
    BY <1>4, <2>1, <2>2, <1>3 DEF Limits
<1> HIDE DEF e, row, w
<1>6. Lines' = [Lines EXCEPT ![u] = row.waiting]
  <2>1. e # None
    BY <1>3 DEF Limits
  <2>2. Lines' = [Lines EXCEPT ![u] = IF e = None THEN <<>> ELSE row.waiting]
    BY <1>1, <1>3, <1>4, OneLineMoves
  <2> QED
    BY <2>1, <2>2
<1>7. /\ Came' = Came \union {m} /\ Over' = Over \ {m} /\ m \notin Over
      /\ Heard' = [Heard EXCEPT ![m] = <<>>] /\ Heard[m] = <<>>
  BY <1>1, <1>2, WhatShows DEF Talk!ConversationTypeOK
<1>8. Over' = Over /\ Heard' = Heard
  <2>1. Heard = [n \in Messages |-> Heard[n]]
    BY DEF Heard
  <2> QED
    BY <1>7, <2>1
<1>9. m \notin Came
  BY <1>1 DEF Came
<1>10. Lines' = [Lines EXCEPT ![u] = Append(Lines[u], m)]
  BY <1>5, <1>6
<1> QED
  BY <1>1, <1>7, <1>8, <1>9, <1>10 DEF Serial!Arrive

\* turn(), last part: who leaves was first.
LEMMA LeaveIsDepart ==
  ASSUME Limits, Talk!ConversationTypeOK, QueueInv, NEW m \in Messages, Talk!Leave(m)
  PROVE  Serial!Depart(m, turns[m].user)
<1> DEFINE e == turns[m].entry
           u == turns[m].user
           line == entries[e].waiting
           row == [waiting |-> Tail(line), count |-> entries[e].count - 1]
           w == [Talk!Resting EXCEPT !.pc = "done"]
           r == IF entries[e].count = 1 THEN None ELSE e
<1>1. turns[m].pc = "leaving" /\ Talk!InTurn(m)
  BY DEF Talk!Leave, Talk!InTurn
<1>2. /\ e \in Messages /\ u \in Users /\ registry[u] = e
      /\ registry \in [Users -> Messages \union {None}]
  BY <1>1 DEF QueueInv, InTheirLines, InLine, Talk!ConversationTypeOK
<1>3. Serial!First(m, u) /\ Lines[u] = line
  BY <1>1, InTurnIsFirst
<1>4. /\ turns' = [turns EXCEPT ![m] = w] /\ memory' = memory
      /\ entries' = [entries EXCEPT ![e] = row]
      /\ registry' = IF entries[e].count = 1 THEN [registry EXCEPT ![u] = None] ELSE registry
  BY DEF Talk!Leave, Talk!LeaveQueue, Talk!Become
<1>5. registry' = [registry EXCEPT ![u] = r]
  BY <1>2, <1>4
<1>6. row.waiting = Tail(line) /\ r \in {e, None}
  OBVIOUS
<1>7. r = None => Tail(line) = <<>>
  <2>1. line \in Seq(Messages) /\ entries[e].count = Len(line) /\ e # None
    BY <1>2 DEF Talk!ConversationTypeOK, Talk!Entry, QueueInv, LinesAreSound, Limits
  <2>2. r = None => Len(line) = 1
    BY <2>1
  <2>3. \A s \in Seq(Messages) : Len(s) = 1 => Tail(s) = <<>>
    <3>1. ASSUME NEW s \in Seq(Messages), Len(s) = 1 PROVE Tail(s) = <<>>
      <4>1. Len(Tail(s)) = 0 /\ Tail(s) \in Seq(Messages)
        BY <3>1
      <4>2. \A t \in Seq(Messages) : Len(t) = 0 => t = <<>>
        OBVIOUS
      <4> QED
        BY <4>1, <4>2
    <3> QED
      BY <3>1
  <2> HIDE DEF line, r
  <2> QED
    BY <2>1, <2>2, <2>3
<1>8. w.pc = "done"
  BY DEF Talk!Resting
<1> HIDE DEF e, u, row, w, r, line
<1>9. Lines' = [Lines EXCEPT ![u] = IF r = None THEN <<>> ELSE row.waiting]
  <2>1. /\ u \in Users /\ e \in Messages /\ r \in {e, None}
        /\ registry[u] = e \/ (registry[u] = None /\ entries[e].waiting = <<>>)
    BY <1>2, <1>6
  <2>2. entries' = [entries EXCEPT ![e] = row]
    BY <1>4
  <2> QED
    BY <1>5, <2>1, <2>2, OneLineMoves
<1>10. Lines' = [Lines EXCEPT ![u] = Tail(Lines[u])]
  BY <1>3, <1>6, <1>7, <1>9
<1>11. /\ Came' = Came /\ Over' = Over \ {m} /\ Heard' = [Heard EXCEPT ![m] = <<>>]
  BY <1>1, <1>4, <1>8, WhatShows DEF Talk!ConversationTypeOK
<1>12. m \in Over
  BY <1>1 DEF Over
<1> QED
  BY <1>3, <1>4, <1>10, <1>11, <1>12 DEF Serial!Depart, u

\* What a message has heard when its answer is made is all that is remembered, or nothing.
LEMMA HeardAll ==
  ASSUME TurnsInv, FailuresHearNothing, NEW m \in Messages,
         turns[m].pc \in {"generating", "committing"}
  PROVE  turns[m].history \in {memory[turns[m].user], <<>>}
BY DEF TurnsInv, Talk!NothingMissed, FailuresHearNothing

\* generate_response(): where nothing is to be committed the turn is over with the
\* fallback, otherwise with the commit; before that nothing of it shows.
LEMMA GenerateShows ==
  ASSUME Limits, TurnsInv, FailuresHearNothing, NEW m \in Messages, Talk!Generate(m)
  PROVE  Serial!Answer(m, turns[m].user) \/ UNCHANGED Serial!vars
<1>1. PICK valid \in BOOLEAN : Talk!Goto(m, IF valid THEN "committing" ELSE "leaving")
  BY DEF Talk!Generate
<1> DEFINE w == [turns[m] EXCEPT !.pc = IF valid THEN "committing" ELSE "leaving"]
<1>2. /\ turns \in [Messages -> Talk!TurnState] /\ turns[m].pc = "generating"
      /\ turns' = [turns EXCEPT ![m] = w] /\ UNCHANGED <<registry, entries, memory>>
  BY <1>1 DEF Talk!Generate, Talk!Goto, Talk!Become, TurnsInv, Talk!ConversationTypeOK
<1>3. /\ w.pc = IF valid THEN "committing" ELSE "leaving"
      /\ w.history = turns[m].history
  BY <1>2 DEF Talk!TurnState
<1>4. Serial!First(m, turns[m].user)
  BY <1>2, InTurnIsFirst DEF TurnsInv, Talk!InTurn
<1>5. turns[m].history \in {memory[turns[m].user], <<>>}
  BY <1>2, HeardAll
<1>6. Lines' = Lines
  BY <1>2, LinesStay
<1> HIDE DEF w
<1>7. w.pc # "idle" /\ turns[m].pc # "idle" /\ turns[m].pc # "leaving"
  BY <1>2, <1>3
<1>8. /\ Came' = Came /\ m \notin Over /\ Heard[m] = <<>>
      /\ w.pc # "leaving" => Over' = Over \ {m} /\ Heard' = [Heard EXCEPT ![m] = <<>>]
      /\ w.pc = "leaving" => Over' = Over \union {m} /\ Heard' = [Heard EXCEPT ![m] = w.history]
  BY <1>2, <1>7, WhatShows
<1>9. CASE valid
  <2>1. Heard = [n \in Messages |-> Heard[n]]
    BY DEF Heard
  <2>2. Over' = Over /\ Heard' = Heard
    BY <1>3, <1>8, <1>9, <2>1
  <2> QED
    BY <1>2, <1>6, <1>8, <2>2 DEF Serial!vars
<1>10. CASE ~valid
  <2>1. Over' = Over \union {m} /\ Heard' = [Heard EXCEPT ![m] = turns[m].history]
    BY <1>3, <1>8, <1>10
  <2> QED
    BY <1>2, <1>4, <1>5, <1>6, <1>8, <2>1 DEF Serial!Answer
<1> QED
  BY <1>9, <1>10

LEMMA CommitIsAnswer ==
  ASSUME Limits, MaxExchanges >= 1, TurnsInv, FailuresHearNothing,
         NEW m \in Messages, Talk!Commit(m)
  PROVE  Serial!Answer(m, turns[m].user)
<1> DEFINE w == [turns[m] EXCEPT !.pc = "leaving"]
           u == turns[m].user
<1>1. /\ turns \in [Messages -> Talk!TurnState] /\ turns[m].pc = "committing"
      /\ turns' = [turns EXCEPT ![m] = w] /\ UNCHANGED <<registry, entries>>
  BY DEF Talk!Commit, Talk!Goto, Talk!Become, TurnsInv, Talk!ConversationTypeOK
<1>2. w.pc = "leaving" /\ w.history = turns[m].history
  BY <1>1 DEF Talk!TurnState
<1>3. u \in Users /\ Serial!First(m, u)
  BY <1>1, InTurnIsFirst DEF TurnsInv, Talk!InTurn
<1>4. turns[m].history \in {memory[u], <<>>}
  BY <1>1, HeardAll
<1>5. Lines' = Lines
  BY <1>1, LinesStay
<1>6. \/ \E size \in Sizes : Serial!Remember(u, [message |-> m, size |-> size])
      \/ UNCHANGED memory
  <2>1. ASSUME NEW size \in Sizes, Talk!CommitExchange(u, m, size), size <= MaxCharacters
        PROVE  Serial!Remember(u, [message |-> m, size |-> size])
    <3> DEFINE x == [message |-> m, size |-> size]
               s == memory[u]
    <3>1. s \in Seq(Talk!Exchange) /\ x \in Talk!Exchange /\ x.size <= MaxCharacters
      BY <1>3, <2>1 DEF TurnsInv, Talk!ConversationTypeOK, Talk!Exchange, Limits
    <3>2. memory' = [memory EXCEPT ![u] = Talk!Trimmed(Append(s, x))]
      <4>1. ~(size > MaxCharacters)
        BY <2>1 DEF Limits
      <4> QED
        BY <2>1, <4>1 DEF Talk!CommitExchange
    <3> HIDE DEF x
    <3>3. PICK n \in 0..Len(s) :
            Talk!Trimmed(Append(s, x)) = SubSeq(Append(s, x), n + 1, Len(s) + 1)
      BY <3>1, NewestStays
    <3>4. memory' = [memory EXCEPT ![u] = SubSeq(Append(s, x), n + 1, Len(s) + 1)]
      BY <3>2, <3>3
    <3>5. Serial!Remember(u, x)
      BY <3>4 DEF Serial!Remember
    <3> QED
      BY <3>5 DEF x
  <2>2. ASSUME NEW size \in Sizes, Talk!CommitExchange(u, m, size), ~(size <= MaxCharacters)
        PROVE  UNCHANGED memory
    BY <2>2 DEF Talk!CommitExchange, Limits
  <2> QED
    BY <2>1, <2>2 DEF Talk!Commit
<1> HIDE DEF w, u
<1>7. /\ Came' = Came /\ m \notin Over /\ Over' = Over \union {m}
      /\ Heard' = [Heard EXCEPT ![m] = turns[m].history]
  <2>1. w.pc # "idle" /\ turns[m].pc # "idle" /\ turns[m].pc # "leaving"
    BY <1>1, <1>2
  <2>2. /\ Came' = Came /\ m \notin Over /\ Over' = Over \union {m}
        /\ Heard' = [Heard EXCEPT ![m] = w.history]
    BY <1>1, <1>2, <2>1, WhatShows
  <2> QED
    BY <1>2, <2>2
<1> QED
  BY <1>3, <1>4, <1>5, <1>6, <1>7 DEF Serial!Answer, u

\* Waking and reading do not show.
LEMMA WaitingDoesNotShow ==
  ASSUME TurnsInv, NEW m \in Messages, Talk!Wake(m) \/ Talk!ReadMemory(m)
  PROVE  UNCHANGED Serial!vars
<1>1. /\ turns \in [Messages -> Talk!TurnState] /\ turns[m].pc \in {"waiting", "reading"}
      /\ UNCHANGED <<registry, entries, memory>>
  BY DEF Talk!Wake, Talk!ReadMemory, TurnsInv, Talk!ConversationTypeOK
<1>2. ASSUME NEW w, turns' = [turns EXCEPT ![m] = w], w.pc \in {"reading", "generating"}
      PROVE  UNCHANGED <<Came, Over, Heard>>
  <2>1. /\ Came' = Came /\ m \notin Over /\ Heard[m] = <<>>
        /\ Over' = Over \ {m} /\ Heard' = [Heard EXCEPT ![m] = <<>>]
    <3>1. w.pc # "idle" /\ w.pc # "leaving" /\ turns[m].pc # "idle" /\ turns[m].pc # "leaving"
      BY <1>1, <1>2
    <3> QED
      BY <1>1, <1>2, <3>1, WhatShows
  <2>2. Heard = [n \in Messages |-> Heard[n]]
    BY DEF Heard
  <2> QED
    BY <2>1, <2>2
<1>3. CASE Talk!Wake(m)
  <2> DEFINE w == [turns[m] EXCEPT !.pc = "reading"]
  <2>1. turns' = [turns EXCEPT ![m] = w]
    BY <1>3 DEF Talk!Wake, Talk!Goto, Talk!Become
  <2>2. w.pc = "reading"
    BY <1>1 DEF Talk!TurnState
  <2> HIDE DEF w
  <2>3. UNCHANGED <<Came, Over, Heard>>
    BY <2>1, <2>2, <1>2
  <2> QED
    BY <2>3, <1>1, LinesStay DEF Serial!vars
<1>4. CASE Talk!ReadMemory(m)
  <2>1. PICK failed \in BOOLEAN :
          turns' = [turns EXCEPT ![m] =
            [turns[m] EXCEPT !.pc = "generating", !.failed = failed,
               !.history = IF failed THEN <<>> ELSE memory[turns[m].user]]]
    BY <1>4 DEF Talk!ReadMemory, Talk!Become
  <2> DEFINE w == [turns[m] EXCEPT !.pc = "generating", !.failed = failed,
                     !.history = IF failed THEN <<>> ELSE memory[turns[m].user]]
  <2>2. w.pc = "generating"
    BY <1>1 DEF Talk!TurnState
  <2>3. turns' = [turns EXCEPT ![m] = w]
    BY <2>1
  <2> HIDE DEF w
  <2>4. UNCHANGED <<Came, Over, Heard>>
    BY <2>2, <2>3, <1>2
  <2> QED
    BY <2>4, <1>1, LinesStay DEF Serial!vars
<1> QED
  BY <1>3, <1>4

\* The end of the process leaves no line, and nobody who has not come has come.
LEMMA ForgetIsForget ==
  ASSUME Talk!ForgetConversation PROVE Serial!Forget
<1>1. \A m \in Messages :
        turns'[m] = IF turns[m].pc = "idle" THEN turns[m] ELSE [Talk!Resting EXCEPT !.pc = "done"]
  BY DEF Talk!ForgetConversation
<1>2. [Talk!Resting EXCEPT !.pc = "done"].pc = "done"
  BY DEF Talk!Resting
<1>3. Came' = Came /\ Over' = {}
  BY <1>1, <1>2 DEF Came, Over
<1>4. Heard' = Serial!Nothing
  BY <1>3 DEF Heard, Serial!Nothing
<1>5. Lines' = [u \in Users |-> <<>>] /\ memory' = [u \in Users |-> <<>>]
  BY DEF Talk!ForgetConversation, Lines
<1> QED
  BY <1>3, <1>4, <1>5 DEF Serial!Forget

\* Every step of the conversation is one of serial turns, or shows nothing.
LEMMA StepsAreSerial ==
  ASSUME Limits, MaxExchanges >= 1, TurnsInv, FailuresHearNothing,
         [Talk!ConversationNext]_(Talk!conversationVars)
  PROVE  [Serial!Next]_(Serial!vars)
<1>1. CASE UNCHANGED Talk!conversationVars
  <2>1. UNCHANGED <<registry, entries, memory, turns>>
    BY <1>1 DEF Talk!conversationVars
  <2>2. Came' = Came /\ Over' = Over
    BY <2>1 DEF Came, Over
  <2>3. Heard' = Heard
    BY <2>1, <2>2 DEF Heard
  <2> QED
    BY <2>1, <2>2, <2>3, LinesStay DEF Serial!vars
<1>2. CASE Talk!ForgetConversation
  BY <1>2, ForgetIsForget DEF Serial!Next
<1>3. ASSUME NEW m \in Messages, NEW u \in Users, Talk!BeginTurn(m, u)
      PROVE  Serial!Next
  <2>1. Serial!Arrive(m, u)
    BY <1>3, BeginIsArrive DEF TurnsInv
  <2> QED
    BY <2>1 DEF Serial!Next
<1>4. ASSUME NEW m \in Messages, Talk!TurnStep(m) PROVE [Serial!Next]_(Serial!vars)
  <2>1. CASE Talk!Wake(m) \/ Talk!ReadMemory(m)
    BY <2>1, WaitingDoesNotShow
  <2>2. ASSUME Talk!Generate(m) \/ Talk!Commit(m) \/ Talk!Leave(m)
        PROVE  turns[m].user \in Users
    <3>1. Talk!InTurn(m)
      BY <2>2 DEF Talk!Generate, Talk!Commit, Talk!Leave, Talk!InTurn
    <3> QED
      BY <3>1, InTurnIsFirst DEF TurnsInv
  <2>3. CASE Talk!Generate(m)
    BY <2>2, <2>3, GenerateShows DEF Serial!Next
  <2>4. CASE Talk!Commit(m)
    BY <2>2, <2>4, CommitIsAnswer DEF Serial!Next
  <2>5. CASE Talk!Leave(m)
    BY <2>2, <2>5, LeaveIsDepart DEF TurnsInv, Serial!Next
  <2> QED
    BY <1>4, <2>1, <2>3, <2>4, <2>5 DEF Talk!TurnStep
<1> QED
  BY <1>1, <1>2, <1>3, <1>4 DEF Talk!ConversationNext

\* Before any message there is no line, and nothing is remembered.
LEMMA SerialStart == ASSUME Talk!ConversationInit PROVE Serial!Init /\ FailuresHearNothing
<1>1. \A m \in Messages : /\ turns[m].pc = "idle" /\ ~turns[m].failed
  BY DEF Talk!ConversationInit, Talk!Resting
<1>2. Came = {} /\ Over = {}
  BY <1>1 DEF Came, Over
<1>3. Heard = Serial!Nothing
  BY <1>2 DEF Heard, Serial!Nothing
<1>4. Lines = [u \in Users |-> <<>>] /\ memory = [u \in Users |-> <<>>]
  BY DEF Talk!ConversationInit, Lines
<1> QED
  BY <1>1, <1>2, <1>3, <1>4 DEF Serial!Init, FailuresHearNothing

----------------------------------------------------------------------------
(* The parts *)

\* The constants are as the conversation needs them.
LEMMA ConversationLimits == Limits
BY LimitsType, NoneIsNotAMessage DEF Limits

\* Every step of the application is one of the commands, of the conversation, or neither.
LEMMA StepsOfTheParts ==
  ASSUME HandlingInv, [Next]_vars
  PROVE  /\ [TasksNext]_tasksVars
         /\ [Talk!ConversationNext]_(Talk!conversationVars)
<1> USE DEF talkVars, Talk!conversationVars
<1>1. CASE UNCHANGED vars
  BY <1>1 DEF vars
<1>2. CASE Restart
  <2>1. Abandon(Messages) /\ Talk!ForgetConversation
    BY <1>2 DEF Restart
  <2> QED
    BY <2>1 DEF TasksNext, Talk!ConversationNext
<1>3. CASE Govern
  BY <1>3 DEF Govern, TasksNext
<1>4. ASSUME NEW m \in Messages, NEW u \in Users, Receive(m, u)
      PROVE  UNCHANGED <<tasksVars, talkVars>>
  BY <1>4 DEF Receive
<1>5. ASSUME NEW m \in Messages, Step(m) \/ Fail(m)
      PROVE  /\ [TasksNext]_tasksVars
             /\ [Talk!ConversationNext]_(Talk!conversationVars)
  <2>1. CASE ResolveUser(m) \/ ResolvePreferences(m) \/ AnswerStep(m)
    BY <2>1 DEF ResolveUser, ResolvePreferences, AnswerStep
  <2>2. CASE Route(m)
    <3>1. handling[m].user \in Users
      BY <2>2 DEF Route, HandlingInv
    <3>2. \/ /\ \E cmd \in Commands : BeginCommand(m, handling[m].user, cmd)
             /\ UNCHANGED talkVars
          \/ /\ Talk!BeginTurn(m, handling[m].user)
             /\ UNCHANGED tasksVars
          \/ UNCHANGED <<tasksVars, talkVars>>
      BY <2>2, <3>1 DEF Route
    <3> QED
      BY <3>1, <3>2 DEF TasksNext, Talk!ConversationNext
  <2>3. CASE Command(m)
    BY <2>3 DEF Command, TasksNext
  <2>4. CASE Turn(m)
    <3>1. Talk!TurnStep(m) /\ UNCHANGED tasksVars
      BY <2>4 DEF Turn
    <3> QED
      BY <3>1 DEF Talk!ConversationNext
  <2>5. CASE Fail(m)
    <3>1. Abandon({m}) /\ {m} \in SUBSET Messages /\ UNCHANGED talkVars
      BY <2>5 DEF Fail
    <3> QED
      BY <3>1 DEF TasksNext
  <2> QED
    BY <1>5, <2>1, <2>2, <2>3, <2>4, <2>5 DEF Step
<1> QED
  BY <1>1, <1>2, <1>3, <1>4, <1>5 DEF Next

----------------------------------------------------------------------------
(* Theorems *)

\* In every reachable state: lines, tickets and registry agree as QueueInv says.
THEOREM ConversationInvariant == ASSUME Limits PROVE Talk!ConversationSpec => []TurnsInv
<1>1. Talk!ConversationInit => TurnsInv
  BY StartsSound
<1>2. TurnsInv /\ [Talk!ConversationNext]_(Talk!conversationVars) => TurnsInv'
  BY NextKeepsInv
<1> QED
  BY <1>1, <1>2, PTL DEF Talk!ConversationSpec

\* The memory of a subject is within both limits, whatever is said and forgotten.
THEOREM MemoryWithinLimits == ASSUME Limits PROVE Talk!ConversationSpec => []Talk!ConversationTypeOK
<1>1. TurnsInv => Talk!ConversationTypeOK
  BY DEF TurnsInv
<1> QED
  BY <1>1, ConversationInvariant, PTL

\* subject_queue.py: turns of a subject are taken one at a time, in the order of arrival.
THEOREM TurnsAreSerial == ASSUME Limits PROVE Talk!ConversationSpec => []Talk!OneTurnAtATime
<1>1. TurnsInv => Talk!OneTurnAtATime
  BY OneTurnHolds DEF TurnsInv
<1> QED
  BY <1>1, ConversationInvariant, PTL

\* Between the reading and the commit of a turn nothing is added to what it has read.
THEOREM TurnsMissNothing == ASSUME Limits PROVE Talk!ConversationSpec => []Talk!NothingMissed
<1>1. TurnsInv => Talk!NothingMissed
  BY DEF TurnsInv
<1> QED
  BY <1>1, ConversationInvariant, PTL

\* Who answers, and what was read of them, in every reachable state.
THEOREM HandlingInvariant == Spec => []HandlingInv
<1>1. Init => HandlingInv
  BY HandlingStartsSound
<1>2. HandlingInv /\ [Next]_vars => HandlingInv'
  BY HandlingKeepsInv
<1> QED
  BY <1>1, <1>2, PTL DEF Spec

\* Messages are handled by commands that are those of Tasks, and all that holds of
\* Tasks holds here.
THEOREM CommandsAreTasks == Spec => TasksSpec
<1>1. Init => TasksInit
  BY DEF Init
<1>2. HandlingInv /\ [Next]_vars => [TasksNext]_tasksVars
  BY StepsOfTheParts
<1> QED
  BY <1>1, <1>2, HandlingInvariant, PTL DEF Spec, TasksSpec

\* And so of the conversation.
THEOREM TurnsAreConversation == Spec => Talk!ConversationSpec
<1>1. Init => Talk!ConversationInit
  BY DEF Init
<1>2. HandlingInv /\ [Next]_vars
        => [Talk!ConversationNext]_(Talk!conversationVars)
  BY StepsOfTheParts
<1> QED
  BY <1>1, <1>2, HandlingInvariant, PTL DEF Spec, Talk!ConversationSpec

\* What a command has read is still so, in every reachable state.
THEOREM TasksInvariant == TasksSpec => []TasksInv
<1>1. TasksInit => TasksInv
  BY TasksStartSound
<1>2. TasksInv /\ [TasksNext]_tasksVars => TasksInv'
  BY TasksNextKeeps
<1> QED
  BY <1>1, <1>2, PTL DEF TasksSpec

\* Memory is within its limits, preferences are consistent, one task at most is active.
THEOREM TypeCorrect == Spec => []TypeOK
<1>1. TasksInv /\ HandlingInv /\ TurnsInv => TypeOK
  BY DEF TasksInv, HandlingInv, TypeOK, TurnsInv
<1>2. Talk!ConversationSpec => []TurnsInv
  BY ConversationLimits, ConversationInvariant
<1> QED
  BY <1>1, <1>2, HandlingInvariant, CommandsAreTasks, TurnsAreConversation, TasksInvariant, PTL

\* engine.py with subject_queue.py: one turn of a subject at a time, across restarts.
THEOREM OneTurnAlways == Spec => []OneTurnAtATime
<1>1. TurnsInv => OneTurnAtATime
  BY ConversationLimits, OneTurnHolds DEF TurnsInv, OneTurnAtATime
<1>2. Talk!ConversationSpec => []TurnsInv
  BY ConversationLimits, ConversationInvariant
<1> QED
  BY <1>1, <1>2, TurnsAreConversation, PTL

\* And no turn misses an exchange that was committed before its own.
THEOREM NothingMissedAlways == Spec => []NothingMissed
<1>1. TurnsInv => NothingMissed
  BY DEF TurnsInv, NothingMissed
<1>2. Talk!ConversationSpec => []TurnsInv
  BY ConversationLimits, ConversationInvariant
<1> QED
  BY <1>1, <1>2, TurnsAreConversation, PTL

\* subject_queue.py, working_memory.py: seen from outside, turns are taken one by one in
\* the order of arrival, each in one step, whatever the threads do between.
THEOREM TurnsInOrderAlways == Spec => TurnsInOrder
<1>1. Limits /\ MaxExchanges >= 1
  BY ConversationLimits, LimitsType
<1>2. Talk!ConversationSpec => []TurnsInv
  BY <1>1, ConversationInvariant
<1>3. Talk!ConversationInit => Serial!Init /\ FailuresHearNothing
  BY SerialStart
<1>4. TurnsInv /\ FailuresHearNothing /\ [Talk!ConversationNext]_(Talk!conversationVars)
        => FailuresHearNothing'
  BY FailuresStayUnheard DEF TurnsInv
<1>5. TurnsInv /\ FailuresHearNothing /\ [Talk!ConversationNext]_(Talk!conversationVars)
        => [Serial!Next]_(Serial!vars)
  BY <1>1, StepsAreSerial
<1> QED
  BY <1>2, <1>3, <1>4, <1>5, TurnsAreConversation, PTL
     DEF Talk!ConversationSpec, TurnsInOrder, Serial!Spec

\* onboarding.py, _advance(): answers stand, though two messages answer one question.
THEOREM OnboardingGoesForward == Spec => AnswersStand
<1>1. ASSUME HandlingInv, [Next]_vars
      PROVE  [\A u \in Users :
                LET row == preferences[u]
                    next == preferences'[u]
                IN next # row =>
                     /\ Position(next.step) = Position(row.step) + 1
                     /\ row.language # None => next.language = row.language
                     /\ row.gender # None => next.gender = row.gender
                     /\ row.identity # None => next.identity = row.identity]_vars
  BY <1>1, PreferencesAdvance DEF RowAdvances
<1> QED
  BY <1>1, HandlingInvariant, PTL DEF Spec, AnswersStand

\* task_runtime: the eligibility that was decided on what was read is that of the
\* version that is assigned.
THEOREM LockReportedWhenAssigned == Spec => LockedWhenAssigned
<1>1. ASSUME TasksInv, [TasksNext]_tasksVars
      PROVE  [\A m \in Messages :
                Assigned(m)
                  /\ catalog[assignments'[m].template].versions[assignments'[m].version].locked
                => \E i \in work[m].since..Len(reports[work[m].user]) :
                     i > 0 /\ reports[work[m].user][i] = "locked"]_tasksVars
  BY <1>1, AssignmentNeedsLock DEF SaidLocked
<1> QED
  BY <1>1, CommandsAreTasks, TasksInvariant, PTL DEF TasksSpec, LockedWhenAssigned

\* _resolve(): an assignment is completed or cancelled once.
THEOREM SettledOnce == Spec => AssignmentsAreSettledOnce
<1>1. ASSUME TasksInv, [TasksNext]_tasksVars
      PROVE  [\A a \in Messages : assignments[a].status # "none" =>
                /\ assignments'[a].template = assignments[a].template
                /\ assignments'[a].version = assignments[a].version
                /\ assignments[a].status # "active"
                     => assignments'[a] = assignments[a]]_tasksVars
  BY <1>1, WritesOfAssignments
<1> QED
  BY <1>1, CommandsAreTasks, TasksInvariant, PTL DEF TasksSpec, AssignmentsAreSettledOnce

=============================================================================
