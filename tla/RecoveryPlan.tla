---------------------------- MODULE RecoveryPlan ----------------------------
(***************************************************************************)
(* recovery_plan/repository.py: the plan of a penalty window, which        *)
(* mirrors the window through its penalty_window.* events, and the         *)
(* recovery tasks the Coach proposes under the plan's current version.     *)
(*                                                                         *)
(* Each handler and each operation is one transaction.  Spec lets the      *)
(* events arrive in any order and any number of times; the order the       *)
(* system delivers them in is Lifecycle's subject.                         *)
(***************************************************************************)
EXTENDS Naturals

CONSTANTS Windows, Tasks, None

VARIABLES
  plans,   \* recovery_plans, by penalty_window_id (unique)
  tasks    \* recovery_tasks and their recovery_task_completions

vars == <<plans, tasks>>

NoPlan == [status |-> "none", version |-> 0, capacity |-> 0]

PlanRow == [status: {"none", "active", "frozen", "completed"}, version: Nat, capacity: Nat]

NoTask == [plan |-> None, version |-> 0, status |-> "none"]

TaskRow ==
  [plan: Windows \union {None}, version: Nat,
   status: {"none", "proposed", "accepted", "completed", "expired", "withdrawn"}]

HasPlan(w) == plans[w].status # "none"

Live == {"proposed", "accepted"}

Init ==
  /\ plans = [w \in Windows |-> NoPlan]
  /\ tasks = [k \in Tasks |-> NoTask]

----------------------------------------------------------------------------
(* Reactions to penalty_window.* events *)

\* _create_plan_in_transaction().  Capacity is half the hours: the hours, counted
\* in half ticks.
CreatePlan(w, hours) ==
  /\ ~HasPlan(w)
  /\ plans' = [plans EXCEPT ![w] = [status |-> "active", version |-> 1, capacity |-> hours]]
  /\ UNCHANGED tasks

\* Mutant of MirrorStatus: a completed plan is left alone.
MirrorUnlessCompleted(w, status) ==
  /\ plans' = [plans EXCEPT ![w].status = IF HasPlan(w) /\ @ # "completed" THEN status ELSE @]
  /\ UNCHANGED tasks

\* _mirror_status_in_transaction(): whatever the plan's status is; without a plan
\* nothing happens.
MirrorStatus(w, status) ==
  /\ plans' = [plans EXCEPT ![w].status = IF HasPlan(w) THEN status ELSE @]
  /\ UNCHANGED tasks

\* _regenerate_in_transaction(): the live tasks of the version left behind expire.
Regenerate(w, hours) ==
  IF HasPlan(w)
    THEN /\ plans' = [plans EXCEPT ![w].version = @ + 1, ![w].capacity = hours]
         /\ tasks' = [k \in Tasks |->
                       IF /\ tasks[k].plan = w /\ tasks[k].status \in Live
                          /\ tasks[k].version = plans[w].version
                         THEN [tasks[k] EXCEPT !.status = "expired"]
                         ELSE tasks[k]]
    ELSE UNCHANGED <<plans, tasks>>

----------------------------------------------------------------------------
(* The Coach's operations *)

\* propose_task(): the plan's status is not a condition.
ProposeTask(k, w) ==
  /\ tasks[k].status = "none" /\ HasPlan(w)
  /\ tasks' = [tasks EXCEPT ![k] = [plan |-> w, version |-> plans[w].version,
                                    status |-> "proposed"]]
  /\ UNCHANGED plans

\* _transition_task() and complete_task(): only from the statuses allowed.
MoveTask(k, from, to) ==
  /\ tasks[k].status \in from
  /\ tasks' = [tasks EXCEPT ![k].status = to]
  /\ UNCHANGED plans

AcceptTask(k) == MoveTask(k, {"proposed"}, "accepted")

\* Mutant of WithdrawTask: a completed task too.
WithdrawAnyTask(k) == MoveTask(k, Live \union {"completed"}, "withdrawn")

WithdrawTask(k) == MoveTask(k, Live, "withdrawn")

CompleteTask(k) == MoveTask(k, Live, "completed")

----------------------------------------------------------------------------

Next ==
  \/ \E w \in Windows, hours \in Nat : CreatePlan(w, hours) \/ Regenerate(w, hours)
  \/ \E w \in Windows, status \in {"active", "frozen", "completed"} : MirrorStatus(w, status)
  \/ \E k \in Tasks, w \in Windows : ProposeTask(k, w)
  \/ \E k \in Tasks : AcceptTask(k) \/ WithdrawTask(k) \/ CompleteTask(k)

Spec == Init /\ [][Next]_vars

----------------------------------------------------------------------------
(* Properties *)

TypeOK ==
  /\ plans \in [Windows -> PlanRow]
  /\ tasks \in [Tasks -> TaskRow]

\* 3.4: regeneration leaves no task of an earlier version to be accepted or
\* completed, however regenerations, proposals and acceptances interleave.
LiveTasksAreCurrent ==
  \A k \in Tasks : tasks[k].status \in Live =>
    /\ tasks[k].plan \in Windows /\ HasPlan(tasks[k].plan)
    /\ tasks[k].version = plans[tasks[k].plan].version

\* RP-4: a task once completed, expired or withdrawn stays so, under the version it
\* was proposed for, and no version comes back.
HistoryStands ==
  [][/\ \A k \in Tasks : tasks[k].status \in {"completed", "expired", "withdrawn"} =>
                           tasks'[k] = tasks[k]
     /\ \A w \in Windows : plans'[w].version >= plans[w].version]_vars

=============================================================================
