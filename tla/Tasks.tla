-------------------------------- MODULE Tasks --------------------------------
(***************************************************************************)
(* Task Catalog, Task Runtime and Lock State, and the `task ...' and       *)
(* `lock report ...' commands of application/service.py that use them.     *)
(*                                                                         *)
(* A command is a sequence of transactions, one action each, run by the    *)
(* thread that handles its message.  A `task request' reads the lock       *)
(* state, the mode and the catalog in transactions of their own before it  *)
(* assigns; the catalog and the mode are changed meanwhile by others.      *)
(* Commands that only read (`task active', `lock status') are left out.    *)
(***************************************************************************)
EXTENDS Naturals, Sequences, FiniteSetsExt

CONSTANTS
  Users,     \* user_accounts
  Messages,  \* messages that may be sent (bound); each is handled by one thread,
             \*   and is the consent reference of the write it leads to
  None,      \* SQL NULL
  Templates, \* template ids, as numbers in the order of the ids
  Contents,  \* what versions of templates may say
  MaxEdits   \* bound on changes to the catalog and the mode

Modes == {"standard", "advanced"}

ASSUME NoneIsNotAMessage == None \notin Messages
ASSUME TemplatesAreOrdered == Templates \subseteq Nat
\* A version says in which modes it is offered as a primary task (eligible_operating_modes,
\* none of them without the PRIMARY role), and whether it requires a reported lock.
ASSUME ContentsType == Contents \subseteq [modes: SUBSET Modes, locked: BOOLEAN]
ASSUME MaxEditsType == MaxEdits \in Nat

VARIABLES
  catalog,     \* task_template_versions and task_template_catalog_entries
  reports,     \* lock_reports of each user, by sequence_number
  mode,        \* operating_mode_state.current_mode (changed by AdvancedMode)
  assignments, \* task_assignments: the row a message assigned, if any
  work,        \* the task and lock commands in progress
  edits        \* changes to the catalog and the mode so far

tasksVars == <<catalog, reports, mode, assignments, work, edits>>

Commands == {"request", "complete", "cancel", "report locked", "report unlocked"}

NoEntry == [versions |-> <<>>, current |-> 0, active |-> FALSE]

Entry == [versions: Seq(Contents), current: Nat, active: BOOLEAN]

AssignmentRow ==
  [status: {"none", "active", "completed", "cancelled"}, user: Users \union {None},
   template: Templates \union {None}, version: Nat, resolvedVia: Messages \union {None}]

NoAssignment ==
  [status |-> "none", user |-> None, template |-> None, version |-> 0, resolvedVia |-> None]

Knowledge == {"unknown", "locked", "unlocked"}

WorkState ==
  [pc: {"idle", "looking", "lock", "mode", "listing", "loading", "inserting",
        "resolving", "reporting", "done"},
   cmd: Commands, user: Users \union {None}, lock: Knowledge, mode: Modes,
   template: Templates \union {None}, version: Nat, assignment: Messages \union {None},
   since: Nat]  \* how many reports the user had made when the command began (no code reads it)

Resting ==
  [pc |-> "idle", cmd |-> "request", user |-> None, lock |-> "unknown", mode |-> "standard",
   template |-> None, version |-> 0, assignment |-> None, since |-> 0]

----------------------------------------------------------------------------
(* Queries *)

\* get_current_version(template)
Current(t) == catalog[t].versions[catalog[t].current]

Listed(t) == catalog[t].versions # <<>>

\* get_active_assignment(user)
ActiveOf(u) == {a \in Messages : assignments[a].status = "active" /\ assignments[a].user = u}

\* get_current_knowledge_state(user)
KnownLock(u) == IF reports[u] = <<>> THEN "unknown" ELSE reports[u][Len(reports[u])]

\* evaluate_task_eligibility(template, lock_knowledge_state)
Eligible(content, lock) == content.locked => lock = "locked"

\* get_active_templates() filtered by get_eligible_templates()
EligibleTemplates(m, lock) ==
  {t \in Templates : /\ Listed(t) /\ catalog[t].active
                     /\ m \in Current(t).modes
                     /\ Eligible(Current(t), lock)}

\* select_eligible_template(): the lowest id.
Selected(ts) == Min(ts)

----------------------------------------------------------------------------
(* Transactions *)

NewAssignment(w) ==
  [status |-> "active", user |-> w.user, template |-> w.template, version |-> w.version,
   resolvedVia |-> None]

\* The write of assign_task(): the index refuses a second active row of the user.
InsertAssignment(m) ==
  IF ActiveOf(work[m].user) = {}
    THEN assignments' = [assignments EXCEPT ![m] = NewAssignment(work[m])]
    ELSE UNCHANGED assignments

Outcome(cmd) == IF cmd = "complete" THEN "completed" ELSE "cancelled"

\* _resolve(): only an active assignment is resolved.
Resolve(m) ==
  LET a == work[m].assignment
  IN IF assignments[a].status = "active"
       THEN assignments' = [assignments EXCEPT ![a] =
                              [@ EXCEPT !.status = Outcome(work[m].cmd), !.resolvedVia = m]]
       ELSE UNCHANGED assignments

\* report_status(): a new row with the next sequence number.
ReportStatus(u, status) == reports' = [reports EXCEPT ![u] = Append(@, status)]

----------------------------------------------------------------------------
(* The commands, run by the thread that handles the message *)

Become(m, next) == work' = [work EXCEPT ![m] = next]
End(m) == Become(m, [Resting EXCEPT !.pc = "done"])

FirstStep(cmd) ==
  IF cmd \in {"report locked", "report unlocked"} THEN "reporting" ELSE "looking"

\* The router found the command.
BeginCommand(m, u, cmd) ==
  /\ work[m].pc = "idle"
  /\ Become(m, [Resting EXCEPT !.pc = FirstStep(cmd), !.cmd = cmd, !.user = u,
                               !.since = Len(reports[u])])
  /\ UNCHANGED <<catalog, reports, mode, assignments, edits>>

\* get_active_assignment(): a request needs none, the others one.
LookForAssignment(m) ==
  /\ work[m].pc = "looking"
  /\ LET active == ActiveOf(work[m].user)
     IN \/ /\ work[m].cmd = "request"
           /\ IF active = {} THEN Become(m, [work[m] EXCEPT !.pc = "lock"]) ELSE End(m)
        \/ /\ work[m].cmd # "request"
           /\ IF active = {}
                THEN End(m)
                ELSE \E a \in active :
                       Become(m, [work[m] EXCEPT !.pc = "resolving", !.assignment = a])
  /\ UNCHANGED <<catalog, reports, mode, assignments, edits>>

ReadLock(m) ==
  /\ work[m].pc = "lock"
  /\ Become(m, [work[m] EXCEPT !.pc = "mode", !.lock = KnownLock(work[m].user)])
  /\ UNCHANGED <<catalog, reports, mode, assignments, edits>>

ReadMode(m) ==
  /\ work[m].pc = "mode"
  /\ Become(m, [work[m] EXCEPT !.pc = "listing", !.mode = mode])
  /\ UNCHANGED <<catalog, reports, mode, assignments, edits>>

ListTemplates(m) ==
  /\ work[m].pc = "listing"
  /\ LET eligible == EligibleTemplates(work[m].mode, work[m].lock)
     IN IF eligible = {}
          THEN End(m)
          ELSE Become(m, [work[m] EXCEPT !.pc = "loading", !.template = Selected(eligible)])
  /\ UNCHANGED <<catalog, reports, mode, assignments, edits>>

\* Mutant of LoadTemplate: assigns what was selected without deciding again.
LoadUndecided(m) ==
  /\ work[m].pc = "loading"
  /\ Become(m, [work[m] EXCEPT !.pc = "inserting",
                               !.version = catalog[work[m].template].current])
  /\ UNCHANGED <<catalog, reports, mode, assignments, edits>>

\* assign_task() reads the current version and decides its eligibility again.
LoadTemplate(m) ==
  /\ work[m].pc = "loading"
  /\ IF Eligible(Current(work[m].template), work[m].lock)
       THEN Become(m, [work[m] EXCEPT !.pc = "inserting",
                                      !.version = catalog[work[m].template].current])
       ELSE End(m)
  /\ UNCHANGED <<catalog, reports, mode, assignments, edits>>

Insert(m) ==
  /\ work[m].pc = "inserting"
  /\ InsertAssignment(m)
  /\ End(m)
  /\ UNCHANGED <<catalog, reports, mode, edits>>

ResolveAssignment(m) ==
  /\ work[m].pc = "resolving"
  /\ Resolve(m)
  /\ End(m)
  /\ UNCHANGED <<catalog, reports, mode, edits>>

Report(m) ==
  /\ work[m].pc = "reporting"
  /\ ReportStatus(work[m].user, IF work[m].cmd = "report locked" THEN "locked" ELSE "unlocked")
  /\ End(m)
  /\ UNCHANGED <<catalog, mode, assignments, edits>>

\* An exception, or the end of the process: what was committed stays.
Abandon(ms) ==
  /\ work' = [m \in Messages |->
                IF m \in ms /\ work[m].pc # "idle" THEN [Resting EXCEPT !.pc = "done"] ELSE work[m]]
  /\ UNCHANGED <<catalog, reports, mode, assignments, edits>>

CommandStep(m) ==
  \/ LookForAssignment(m) \/ ReadLock(m) \/ ReadMode(m) \/ ListTemplates(m)
  \/ LoadTemplate(m) \/ Insert(m) \/ ResolveAssignment(m) \/ Report(m)

----------------------------------------------------------------------------
(* Governed changes by others: TaskCatalogAdministration, Advanced Mode *)

EditEntry(t, entry) ==
  /\ edits < MaxEdits
  /\ edits' = edits + 1
  /\ catalog' = [catalog EXCEPT ![t] = entry]
  /\ UNCHANGED <<reports, mode, assignments, work>>

CreateTemplate(t, content) ==
  /\ ~Listed(t)
  /\ EditEntry(t, [versions |-> <<content>>, current |-> 1, active |-> TRUE])

\* add_version() does not change what is current.
AddVersion(t, content) ==
  /\ Listed(t)
  /\ EditEntry(t, [catalog[t] EXCEPT !.versions = Append(@, content)])

SetCurrentVersion(t, v) ==
  /\ v \in 1..Len(catalog[t].versions)
  /\ EditEntry(t, [catalog[t] EXCEPT !.current = v])

\* activate(), deactivate()
SetEligibility(t, active) ==
  /\ Listed(t) /\ catalog[t].active # active
  /\ EditEntry(t, [catalog[t] EXCEPT !.active = active])

ModeChanges(to) ==
  /\ mode # to /\ edits < MaxEdits
  /\ mode' = to
  /\ edits' = edits + 1
  /\ UNCHANGED <<catalog, reports, assignments, work>>

Governance ==
  \/ \E t \in Templates :
       \/ \E c \in Contents : CreateTemplate(t, c) \/ AddVersion(t, c)
       \/ \E v \in 1..Len(catalog[t].versions) : SetCurrentVersion(t, v)
       \/ \E active \in BOOLEAN : SetEligibility(t, active)
  \/ \E to \in Modes : ModeChanges(to)

\* A catalog that was seeded: every template there is has one version.
TasksInit ==
  /\ catalog \in [Templates -> {NoEntry} \union
                    {[versions |-> <<c>>, current |-> 1, active |-> TRUE] : c \in Contents}]
  /\ reports = [u \in Users |-> <<>>]
  /\ mode = "standard"
  /\ assignments = [m \in Messages |-> NoAssignment]
  /\ work = [m \in Messages |-> Resting]
  /\ edits = 0

TasksNext ==
  \/ \E m \in Messages :
       \/ \E u \in Users, cmd \in Commands : BeginCommand(m, u, cmd)
       \/ CommandStep(m)
  \/ \E ms \in SUBSET Messages : Abandon(ms)
  \/ Governance

TasksSpec == TasksInit /\ [][TasksNext]_tasksVars

----------------------------------------------------------------------------
(* Properties *)

\* Types, with what the schema says: an entry points at one of its versions, an
\* assignment at a version that exists, and a user has one active assignment at most.
TasksTypeOK ==
  /\ catalog \in [Templates -> Entry]
  /\ \A t \in Templates : Listed(t) => catalog[t].current \in 1..Len(catalog[t].versions)
  /\ reports \in [Users -> Seq({"locked", "unlocked"})]
  /\ mode \in Modes
  /\ assignments \in [Messages -> AssignmentRow]
  /\ \A a \in Messages : assignments[a].status # "none" =>
       /\ assignments[a].user \in Users /\ assignments[a].template \in Templates
       /\ assignments[a].version \in 1..Len(catalog[assignments[a].template].versions)
       /\ assignments[a].status = "active" <=> assignments[a].resolvedVia = None
  /\ \A u \in Users : \A a, b \in ActiveOf(u) : a = b
  /\ work \in [Messages -> WorkState]
  /\ edits \in 0..MaxEdits

Assigned(m) == assignments[m].status = "none" /\ assignments'[m].status = "active"

\* A task that requires the lock is only assigned to a user whose latest report, at
\* some time while the request was handled, said locked: whatever versions of the
\* template came and went and whatever the user reported meanwhile.
LockedWhenAssigned ==
  [][\A m \in Messages :
       Assigned(m) /\ catalog[assignments'[m].template].versions[assignments'[m].version].locked
         => \E i \in work[m].since..Len(reports[work[m].user]) :
              i > 0 /\ reports[work[m].user][i] = "locked"]_tasksVars

\* An assignment keeps the version it was made with, and once completed or cancelled
\* it is never written again, though another command may have read it as active.
AssignmentsAreSettledOnce ==
  [][\A a \in Messages : assignments[a].status # "none" =>
       /\ assignments'[a].template = assignments[a].template
       /\ assignments'[a].version = assignments[a].version
       /\ assignments[a].status # "active" => assignments'[a] = assignments[a]]_tasksVars

=============================================================================
