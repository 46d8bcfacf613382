-------------------------- MODULE LifecycleProofs --------------------------
(***************************************************************************)
(* The Penalty Engine, the Recovery Plan, their events and the startups    *)
(* that deliver them, for any windows, tasks, incidents and processes; and *)
(* the Recovery Plan by itself, whatever events arrive in whatever order.  *)
(***************************************************************************)
EXTENDS Lifecycle, FiniteSetTheorems, SequenceTheorems, TLAPS

\* What PenaltyEngineProofs proves, of the engine there is in Lifecycle.
PEP == INSTANCE PenaltyEngineProofs WITH Completions <- Tasks, Prompt <- TRUE

----------------------------------------------------------------------------
(* The Recovery Plan by itself *)

\* Versions start with the plan.
VersionsStartAtOne == \A w \in Windows : plans[w].status = "none" => plans[w].version = 0

PlansInv == RP!TypeOK /\ RP!LiveTasksAreCurrent /\ VersionsStartAtOne

\* No plan, no task.
LEMMA InitPlansInv == RP!Init => PlansInv
BY DEF RP!Init, PlansInv, RP!TypeOK, RP!LiveTasksAreCurrent, VersionsStartAtOne, RP!NoPlan, RP!NoTask, RP!PlanRow, RP!TaskRow, RP!Live

\* penalty_window.started makes a plan; no live task can be waiting for it.
LEMMA CreatePlanStep ==
  ASSUME PlansInv, NEW w \in Windows, NEW hours \in Nat, RP!CreatePlan(w, hours)
  PROVE  PlansInv'
<1>1. RP!TypeOK'
  BY DEF PlansInv, RP!TypeOK, RP!CreatePlan, RP!PlanRow
<1>2. RP!LiveTasksAreCurrent'
  <2> SUFFICES ASSUME NEW k \in Tasks, tasks[k].status \in RP!Live
               PROVE  /\ tasks[k].plan \in Windows /\ plans'[tasks[k].plan].status # "none"
                      /\ tasks[k].version = plans'[tasks[k].plan].version
    BY DEF RP!LiveTasksAreCurrent, RP!CreatePlan, RP!HasPlan
  <2>1. /\ tasks[k].plan \in Windows /\ RP!HasPlan(tasks[k].plan)
        /\ tasks[k].version = plans[tasks[k].plan].version
    BY DEF PlansInv, RP!LiveTasksAreCurrent
  <2>2. tasks[k].plan # w
    BY <2>1 DEF RP!CreatePlan
  <2>3. plans'[tasks[k].plan] = plans[tasks[k].plan]
    BY <2>1, <2>2 DEF PlansInv, RP!TypeOK, RP!CreatePlan
  <2> QED BY <2>1, <2>3 DEF RP!HasPlan
<1>3. VersionsStartAtOne'
  BY DEF PlansInv, RP!TypeOK, VersionsStartAtOne, RP!CreatePlan
<1> QED
  BY <1>1, <1>2, <1>3 DEF PlansInv

\* Mirroring touches neither versions nor tasks.
LEMMA MirrorStep ==
  ASSUME PlansInv, NEW w \in Windows, NEW status \in {"active", "frozen", "completed"},
         RP!MirrorStatus(w, status)
  PROVE  PlansInv'
<1>1. /\ plans' \in [Windows -> RP!PlanRow]
      /\ \A v \in Windows : /\ plans'[v].version = plans[v].version
                            /\ RP!HasPlan(v) <=> plans'[v].status # "none"
  BY DEF PlansInv, RP!TypeOK, RP!MirrorStatus, RP!HasPlan, RP!PlanRow
<1>2. RP!TypeOK' /\ VersionsStartAtOne'
  BY <1>1 DEF PlansInv, RP!TypeOK, VersionsStartAtOne, RP!MirrorStatus, RP!HasPlan
<1>3. RP!LiveTasksAreCurrent'
  BY <1>1 DEF PlansInv, RP!LiveTasksAreCurrent, RP!MirrorStatus, RP!HasPlan
<1> QED
  BY <1>2, <1>3 DEF PlansInv

\* Regeneration leaves no live task of the version it ends.
LEMMA RegenerateStep ==
  ASSUME PlansInv, NEW w \in Windows, NEW hours \in Nat, RP!Regenerate(w, hours)
  PROVE  PlansInv'
<1>1. CASE ~RP!HasPlan(w)
  BY <1>1 DEF PlansInv, RP!TypeOK, RP!LiveTasksAreCurrent, VersionsStartAtOne, RP!Regenerate, RP!HasPlan
<1>2. CASE RP!HasPlan(w)
  <2> DEFINE row == [status |-> plans[w].status, version |-> plans[w].version + 1,
                     capacity |-> hours]
  <2>1. plans[w] \in RP!PlanRow /\ plans[w].version \in Nat
    BY DEF PlansInv, RP!TypeOK, RP!PlanRow
  <2>2. row \in RP!PlanRow /\ row.status = plans[w].status
    BY <2>1 DEF RP!PlanRow
  <2>3. plans' = [plans EXCEPT ![w] = row]
    BY <1>2, <2>1 DEF PlansInv, RP!TypeOK, RP!Regenerate, RP!PlanRow
  <2> HIDE DEF row
  <2>4. /\ plans' \in [Windows -> RP!PlanRow]
        /\ \A v \in Windows : RP!HasPlan(v) => RP!HasPlan(v)'
        /\ \A v \in Windows \ {w} : plans'[v] = plans[v]
    BY <2>2, <2>3 DEF PlansInv, RP!TypeOK, RP!HasPlan
  <2>5. \A k \in Tasks :
          tasks'[k] = IF /\ tasks[k].plan = w /\ tasks[k].status \in RP!Live
                         /\ tasks[k].version = plans[w].version
                        THEN [tasks[k] EXCEPT !.status = "expired"] ELSE tasks[k]
    BY <1>2 DEF RP!Regenerate
  <2>6. tasks' \in [Tasks -> RP!TaskRow]
    <3>1. \A k \in Tasks : tasks'[k] \in RP!TaskRow
      BY <2>5 DEF PlansInv, RP!TypeOK, RP!TaskRow
    <3>2. tasks' = [k \in Tasks |-> tasks'[k]]
      BY <1>2 DEF RP!Regenerate
    <3> QED BY <3>1, <3>2
  <2>7. RP!LiveTasksAreCurrent'
    <3> SUFFICES ASSUME NEW k \in Tasks, tasks'[k].status \in RP!Live
                 PROVE  /\ tasks'[k].plan \in Windows /\ plans'[tasks'[k].plan].status # "none"
                        /\ tasks'[k].version = plans'[tasks'[k].plan].version
      BY DEF RP!LiveTasksAreCurrent, RP!HasPlan
    <3>1. tasks'[k] = tasks[k]
      BY <2>5 DEF PlansInv, RP!TypeOK, RP!TaskRow, RP!Live
    <3>2. /\ tasks[k].plan \in Windows /\ RP!HasPlan(tasks[k].plan)
          /\ tasks[k].version = plans[tasks[k].plan].version
      BY <3>1 DEF PlansInv, RP!LiveTasksAreCurrent
    <3>3. tasks[k].plan # w
      <4>1. [tasks[k] EXCEPT !.status = "expired"].status = "expired"
        BY DEF PlansInv, RP!TypeOK, RP!TaskRow
      <4> QED BY <2>5, <3>1, <3>2, <4>1 DEF RP!Live
    <3> QED BY <2>4, <3>1, <3>2, <3>3 DEF RP!HasPlan
  <2>8. VersionsStartAtOne'
    BY <1>2, <2>2, <2>3, <2>4 DEF PlansInv, RP!TypeOK, VersionsStartAtOne, RP!HasPlan
  <2> QED BY <2>4, <2>6, <2>7, <2>8 DEF PlansInv, RP!TypeOK
<1> QED
  BY <1>1, <1>2

\* A task is proposed under the current version.
LEMMA ProposeStep ==
  ASSUME PlansInv, NEW k \in Tasks, NEW w \in Windows, RP!ProposeTask(k, w)
  PROVE  PlansInv'
<1> DEFINE row == [plan |-> w, version |-> plans[w].version, status |-> "proposed"]
<1>1. row \in RP!TaskRow
  BY DEF PlansInv, RP!TypeOK, RP!PlanRow, RP!TaskRow
<1>2. tasks' = [tasks EXCEPT ![k] = row] /\ plans' = plans /\ RP!HasPlan(w)
  BY DEF RP!ProposeTask
<1>3. row.plan = w /\ row.version = plans[w].version
  OBVIOUS
<1> HIDE DEF row
<1>4. tasks'[k] = row /\ \A j \in Tasks \ {k} : tasks'[j] = tasks[j]
  BY <1>2 DEF PlansInv, RP!TypeOK
<1>5. RP!TypeOK'
  BY <1>1, <1>2 DEF PlansInv, RP!TypeOK
<1>6. RP!LiveTasksAreCurrent'
  BY <1>2, <1>3, <1>4 DEF PlansInv, RP!LiveTasksAreCurrent, RP!HasPlan
<1> QED
  BY <1>2, <1>5, <1>6 DEF PlansInv, VersionsStartAtOne

\* A task moves on only while it is live.
LEMMA MoveStep ==
  ASSUME PlansInv, NEW k \in Tasks, NEW to \in {"accepted", "completed", "withdrawn"},
         RP!MoveTask(k, RP!Live, to)
  PROVE  PlansInv'
<1>1. tasks[k] \in RP!TaskRow
  BY DEF PlansInv, RP!TypeOK
<1>2. /\ tasks'[k] \in RP!TaskRow
      /\ tasks'[k].plan = tasks[k].plan /\ tasks'[k].version = tasks[k].version
      /\ tasks' = [tasks EXCEPT ![k] = tasks'[k]]
  BY <1>1 DEF PlansInv, RP!TypeOK, RP!MoveTask, RP!TaskRow
<1>3. \A j \in Tasks \ {k} : tasks'[j] = tasks[j]
  BY <1>2 DEF PlansInv, RP!TypeOK
<1>4. RP!TypeOK'
  BY <1>2 DEF PlansInv, RP!TypeOK, RP!MoveTask
<1>5. RP!LiveTasksAreCurrent'
  BY <1>2, <1>3 DEF PlansInv, RP!LiveTasksAreCurrent, RP!MoveTask, RP!HasPlan
<1> QED
  BY <1>4, <1>5 DEF PlansInv, VersionsStartAtOne, RP!MoveTask

\* Every status change of a task is a move from a live status.
LEMMA TaskMoves ==
  ASSUME NEW k \in Tasks, RP!AcceptTask(k) \/ RP!WithdrawTask(k) \/ RP!CompleteTask(k)
  PROVE  \E to \in {"accepted", "completed", "withdrawn"} : RP!MoveTask(k, RP!Live, to)
BY DEF RP!AcceptTask, RP!WithdrawTask, RP!CompleteTask, RP!MoveTask, RP!Live

\* The invariant is kept by every step.
LEMMA NextPlansInv == PlansInv /\ [RP!Next]_RP!vars => PlansInv'
<1> SUFFICES ASSUME PlansInv, [RP!Next]_RP!vars PROVE PlansInv'
  OBVIOUS
<1>1. CASE \E w \in Windows, hours \in Nat : RP!CreatePlan(w, hours) \/ RP!Regenerate(w, hours)
  BY <1>1, CreatePlanStep, RegenerateStep
<1>2. CASE \E w \in Windows, status \in {"active", "frozen", "completed"} : RP!MirrorStatus(w, status)
  BY <1>2, MirrorStep
<1>3. CASE \E k \in Tasks, w \in Windows : RP!ProposeTask(k, w)
  BY <1>3, ProposeStep
<1>4. CASE \E k \in Tasks : RP!AcceptTask(k) \/ RP!WithdrawTask(k) \/ RP!CompleteTask(k)
  BY <1>4, TaskMoves, MoveStep
<1>5. CASE UNCHANGED RP!vars
  BY <1>5 DEF RP!vars, PlansInv, RP!TypeOK, RP!LiveTasksAreCurrent, VersionsStartAtOne, RP!HasPlan
<1> QED
  BY <1>1, <1>2, <1>3, <1>4, <1>5 DEF RP!Next

----------------------------------------------------------------------------

\* PlansInv is an invariant.
THEOREM PlansInvariance == RP!Spec => []PlansInv
BY InitPlansInv, NextPlansInv, PTL DEF RP!Spec

\* Type correctness of plans and tasks.
THEOREM PlansTyped == RP!Spec => []RP!TypeOK
<1>1. PlansInv => RP!TypeOK
  BY DEF PlansInv
<1> QED
  BY PlansInvariance, <1>1, PTL

\* A task that can still be accepted or completed belongs to the plan's current
\* version, whatever events arrive in whatever order.
THEOREM LiveTasksStayCurrent == RP!Spec => []RP!LiveTasksAreCurrent
<1>1. PlansInv => RP!LiveTasksAreCurrent
  BY DEF PlansInv
<1> QED
  BY PlansInvariance, <1>1, PTL

\* RP-4: nothing rewrites a finished task or brings a version back.
THEOREM HistoryIsKept == RP!Spec => RP!HistoryStands
<1> DEFINE Over(k) == tasks[k].status \in {"completed", "expired", "withdrawn"}
           Kept == /\ \A k \in Tasks : Over(k) => tasks'[k] = tasks[k]
                   /\ \A w \in Windows : plans'[w].version >= plans[w].version
<1>1. ASSUME PlansInv, [RP!Next]_RP!vars PROVE Kept
  <2> USE <1>1
  <2>1. /\ plans \in [Windows -> RP!PlanRow] /\ tasks \in [Tasks -> RP!TaskRow]
        /\ \A w \in Windows : plans[w].version \in Nat
    BY DEF PlansInv, RP!TypeOK, RP!PlanRow
  <2>2. ASSUME NEW w \in Windows, NEW hours \in Nat, RP!CreatePlan(w, hours)
        PROVE  Kept
    BY <2>1, <2>2 DEF PlansInv, VersionsStartAtOne, RP!CreatePlan, RP!HasPlan
  <2>3. ASSUME NEW w \in Windows, NEW hours \in Nat, RP!Regenerate(w, hours)
        PROVE  Kept
    <3>1. CASE ~RP!HasPlan(w)
      BY <2>1, <2>3, <3>1 DEF RP!Regenerate
    <3>2. CASE RP!HasPlan(w)
      <4>1. \A k \in Tasks : Over(k) => tasks'[k] = tasks[k]
        BY <2>3, <3>2 DEF RP!Regenerate, RP!Live
      <4>2. \A v \in Windows : plans'[v].version >= plans[v].version
        BY <2>1, <2>3, <3>2 DEF RP!Regenerate, RP!PlanRow
      <4> QED BY <4>1, <4>2
    <3> QED BY <3>1, <3>2
  <2>4. ASSUME NEW w \in Windows, NEW status \in {"active", "frozen", "completed"},
               RP!MirrorStatus(w, status)
        PROVE  Kept
    BY <2>1, <2>4 DEF RP!MirrorStatus, RP!PlanRow
  <2>5. ASSUME NEW k \in Tasks, NEW w \in Windows, RP!ProposeTask(k, w)
        PROVE  Kept
    BY <2>1, <2>5 DEF RP!ProposeTask
  <2>6. ASSUME NEW k \in Tasks, NEW to \in {"accepted", "completed", "withdrawn"},
               RP!MoveTask(k, RP!Live, to)
        PROVE  Kept
    BY <2>1, <2>6 DEF RP!MoveTask, RP!Live
  <2>7. CASE UNCHANGED RP!vars
    BY <2>1, <2>7 DEF RP!vars
  <2> QED
    BY <2>2, <2>3, <2>4, <2>5, <2>6, <2>7, TaskMoves DEF RP!Next
<1>2. PlansInv /\ [RP!Next]_RP!vars => [Kept]_RP!vars
  BY <1>1
<1> QED
  BY PlansInvariance, <1>2, PTL DEF RP!Spec, RP!HistoryStands


----------------------------------------------------------------------------
(* Logs of events *)

\* The types of the events that tell a window's status, and those that tell its target.
StatusTypes == {"started"} \union DOMAIN Mirrored
CapacityTypes == {"started", "target_duration_changed"}

\* The status a plan takes from an event.
StatusOf(type) == IF type = "started" THEN "active" ELSE Mirrored[type]

EventRow ==
  [type: {"confirmed", "started", "frozen", "resumed", "completed",
          "target_duration_changed", "task_completed"},
   subject: Incidents \union Windows \union Tasks, hours: Nat, at: Nat,
   claim: Nat \union {None}, published: BOOLEAN, done: BOOLEAN]

\* In what follows L is the log, or what becomes of it in the middle of a step.
TellsStatus(L, n, w) == L[n].subject = w /\ L[n].type \in StatusTypes
TellsCapacity(L, n, w) == L[n].subject = w /\ L[n].type \in CapacityTypes
Starts(L, n, w) == L[n].subject = w /\ L[n].type = "started"
Completes(L, n, k) == L[n].subject = k /\ L[n].type = "task_completed"

\* Event n has to be handled after event m: the confirmations one after the other, and
\* so the events of a window that tell its status, and those that tell its target.
Follows(L, m, n) ==
  /\ m < n
  /\ \/ L[m].type = "confirmed" /\ L[n].type = "confirmed"
     \/ L[m].subject = L[n].subject /\ L[m].type \in StatusTypes /\ L[n].type \in StatusTypes
     \/ L[m].subject = L[n].subject /\ L[m].type \in CapacityTypes /\ L[n].type \in CapacityTypes

\* Events are what they are about, none is in the future, and none is published that was
\* not handled.
RowsOf(L, c) ==
  \A n \in DOMAIN L :
    /\ L[n].type = "confirmed" => L[n].subject \in Incidents
    /\ L[n].type = "task_completed" => L[n].subject \in Tasks
    /\ L[n].type \in StatusTypes \union CapacityTypes => L[n].subject \in Windows
    /\ L[n].at <= c
    /\ L[n].published => L[n].done

\* The order of insertion is one of times, and events are handled in it; what a
\* confirmation that is yet to be handled will write comes after what is there.
Ordered(L) ==
  /\ \A m, n \in DOMAIN L : Follows(L, m, n) =>
       L[m].at <= L[n].at /\ (L[n].done => L[m].done)
  /\ \A m, n \in DOMAIN L :
       L[m].type \in CapacityTypes /\ L[n].type = "confirmed" /\ ~L[n].done =>
         L[m].at <= L[n].at

\* The last events of w tell the row of w, and the first is that it started.
WindowTold(L, w, row, event) ==
  /\ row.status # "none" =>
       /\ \E n \in DOMAIN L : /\ TellsStatus(L, n, w) /\ L[n].type = event
                              /\ \A m \in DOMAIN L : TellsStatus(L, m, w) => m <= n
       /\ \E n \in DOMAIN L : /\ TellsCapacity(L, n, w) /\ L[n].hours = BaseHours + row.ext
                              /\ \A m \in DOMAIN L : TellsCapacity(L, m, w) => m <= n
  /\ \A n \in DOMAIN L : TellsStatus(L, n, w) \/ TellsCapacity(L, n, w) =>
       row.status # "none" /\ \E m \in DOMAIN L : m <= n /\ Starts(L, m, w)

\* The last of them that were handled tell the plan of w.
PlanTold(L, w, row) ==
  /\ row.status # "none" =>
       /\ \E n \in DOMAIN L :
            /\ TellsStatus(L, n, w) /\ L[n].done /\ row.status = StatusOf(L[n].type)
            /\ \A m \in DOMAIN L : TellsStatus(L, m, w) /\ L[m].done => m <= n
       /\ \E n \in DOMAIN L :
            /\ TellsCapacity(L, n, w) /\ L[n].done /\ row.capacity = L[n].hours
            /\ \A m \in DOMAIN L : TellsCapacity(L, m, w) /\ L[m].done => m <= n
  /\ \A n \in DOMAIN L : Starts(L, n, w) /\ L[n].done => row.status # "none"

\* The completion of k is in the log, and its credit decided when that was handled.
CreditTold(L, k, task, credit) ==
  /\ credit.window # None => task.status = "completed" /\ credit.window = task.plan
  /\ task.status = "completed" <=> \E n \in DOMAIN L : Completes(L, n, k)
  /\ \A n \in DOMAIN L : Completes(L, n, k) /\ L[n].done => credit.window # None

\* An event is written.
Grown(L, M, e) ==
  /\ M \in Seq(EventRow)
  /\ DOMAIN M = DOMAIN L \union {Len(L) + 1}
  /\ Len(L) + 1 \in Nat /\ Len(L) + 1 \notin DOMAIN L
  /\ \A n \in DOMAIN L : n \in Nat /\ n < Len(L) + 1 /\ M[n] = L[n]
  /\ M[Len(L) + 1] = e

\* Claims and publications, and event n if there is one, are marked.
Marked(L, M, n) ==
  /\ M \in Seq(EventRow) /\ DOMAIN M = DOMAIN L
  /\ \A m \in DOMAIN L : /\ M[m].type = L[m].type /\ M[m].subject = L[m].subject
                         /\ M[m].hours = L[m].hours /\ M[m].at = L[m].at
                         /\ M[m].done = (L[m].done \/ m = n)

\* A log is a sequence of events.
LEMMA LogRows ==
  ASSUME NEW L \in Seq(EventRow)
  PROVE  /\ DOMAIN L = 1..Len(L) /\ Len(L) \in Nat
         /\ \A n \in DOMAIN L : L[n] \in EventRow /\ n \in Nat
<1>1. DOMAIN L = 1..Len(L) /\ Len(L) \in Nat
  BY LenProperties
<1>2. \A n \in DOMAIN L : L[n] \in EventRow
  BY <1>1, ElementOfSeq
<1> QED
  BY <1>1, <1>2

\* append_event_in_transaction() adds one at the end.
LEMMA AppendGrows ==
  ASSUME NEW L \in Seq(EventRow), NEW e \in EventRow
  PROVE  Grown(L, Append(L, e), e)
<1> DEFINE M == Append(L, e)
<1>1. /\ M \in Seq(EventRow) /\ Len(M) = Len(L) + 1
      /\ \A i \in 1..Len(L) : M[i] = L[i]
      /\ M[Len(L) + 1] = e
  BY AppendProperties
<1>2. /\ DOMAIN L = 1..Len(L) /\ Len(L) \in Nat /\ DOMAIN M = 1..Len(M)
  BY <1>1, LenProperties
<1> HIDE DEF M
<1>3. Grown(L, M, e)
  BY <1>1, <1>2 DEF Grown
<1> QED
  BY <1>3 DEF M

\* consume_event() marks one as processed.
LEMMA DoneIsMarked ==
  ASSUME NEW L \in Seq(EventRow), NEW n \in DOMAIN L
  PROVE  /\ Marked(L, [L EXCEPT ![n].done = TRUE], n)
         /\ \A m \in DOMAIN L : /\ [L EXCEPT ![n].done = TRUE][m].claim = L[m].claim
                                /\ [L EXCEPT ![n].done = TRUE][m].published = L[m].published
<1> DEFINE row == [L[n] EXCEPT !.done = TRUE]
           M == [L EXCEPT ![n] = row]
<1>1. DOMAIN L = 1..Len(L) /\ Len(L) \in Nat /\ \A m \in DOMAIN L : L[m] \in EventRow
  BY LogRows
<1>2. /\ row \in EventRow /\ row.type = L[n].type /\ row.subject = L[n].subject
      /\ row.hours = L[n].hours /\ row.at = L[n].at /\ row.done = TRUE
      /\ row.claim = L[n].claim /\ row.published = L[n].published
  BY <1>1 DEF EventRow
<1> HIDE DEF row
<1>3. /\ M \in Seq(EventRow) /\ DOMAIN M = DOMAIN L /\ M[n] = row
      /\ \A m \in DOMAIN L \ {n} : M[m] = L[m]
  <2>1. M \in Seq(EventRow)
    BY <1>2, ExceptSeq
  <2> QED
    BY <1>2, <2>1
<1>4. \A m \in DOMAIN L : L[m].done \in BOOLEAN
  BY <1>1 DEF EventRow
<1>5. Marked(L, M, n)
  BY <1>2, <1>3, <1>4 DEF Marked
<1>6. [L EXCEPT ![n].done = TRUE] = M
  BY DEF row
<1> QED
  BY <1>2, <1>3, <1>5, <1>6

----------------------------------------------------------------------------
(* What writing and marking events keeps *)

\* An event comes no earlier than the ones it has to be handled after.
Later(L, e) ==
  \A m \in DOMAIN L :
    (\/ e.type = "confirmed"
     \/ L[m].subject = e.subject /\ L[m].type \in StatusTypes /\ e.type \in StatusTypes
     \/ L[m].subject = e.subject /\ L[m].type \in CapacityTypes /\ e.type \in CapacityTypes)
    => L[m].at <= e.at

\* ... and if it tells a target, no later than the confirmations that are to be handled.
Timely(L, e) ==
  e.type \in CapacityTypes =>
    \A n \in DOMAIN L : L[n].type = "confirmed" /\ ~L[n].done => e.at <= L[n].at

\* An event that is what it is about,
LEMMA RowsGrow ==
  ASSUME NEW L \in Seq(EventRow), NEW M, NEW e \in EventRow, NEW c, RowsOf(L, c), Grown(L, M, e),
         e.type = "confirmed" => e.subject \in Incidents,
         e.type = "task_completed" => e.subject \in Tasks,
         e.type \in StatusTypes \union CapacityTypes => e.subject \in Windows,
         e.at <= c, e.published = FALSE
  PROVE  RowsOf(M, c)
BY DEF RowsOf, Grown

\* or a mark on one, leaves the rows as they should be.
LEMMA RowsMarked ==
  ASSUME NEW L \in Seq(EventRow), NEW M, NEW n, NEW c, RowsOf(L, c), Marked(L, M, n),
         \A m \in DOMAIN L : M[m].published => L[m].published \/ L[m].done
  PROVE  RowsOf(M, c)
BY DEF RowsOf, Marked

\* So is their order kept by an event that comes no earlier,
LEMMA OrderGrows ==
  ASSUME NEW L \in Seq(EventRow), NEW M, NEW e \in EventRow, Ordered(L), Grown(L, M, e),
         e.done = FALSE, Later(L, e), Timely(L, e)
  PROVE  Ordered(M)
<1> DEFINE new == Len(L) + 1
<1>1. /\ DOMAIN M = DOMAIN L \union {new} /\ new \in Nat
      /\ \A n \in DOMAIN L : n \in Nat /\ n < new /\ M[n] = L[n]
      /\ M[new] = e
  BY DEF Grown
<1> HIDE DEF new
<1>2. ASSUME NEW m \in DOMAIN M, NEW n \in DOMAIN M, Follows(M, m, n)
      PROVE  M[m].at <= M[n].at /\ (M[n].done => M[m].done)
  <2>1. m \in DOMAIN L
    BY <1>1, <1>2 DEF Follows
  <2>2. CASE n \in DOMAIN L
    BY <1>1, <1>2, <2>1, <2>2 DEF Follows, Ordered
  <2>3. CASE n = new
    BY <1>1, <1>2, <2>1, <2>3 DEF Follows, Later
  <2> QED
    BY <1>1, <2>2, <2>3
<1>3. ASSUME NEW m \in DOMAIN M, NEW n \in DOMAIN M,
             M[m].type \in CapacityTypes, M[n].type = "confirmed", ~M[n].done
      PROVE  M[m].at <= M[n].at
  <2>1. CASE m \in DOMAIN L /\ n \in DOMAIN L
    BY <1>1, <1>3, <2>1 DEF Ordered
  <2>2. CASE m \in DOMAIN L /\ n = new
    BY <1>1, <1>3, <2>2 DEF Later
  <2>3. CASE m = new /\ n \in DOMAIN L
    BY <1>1, <1>3, <2>3 DEF Timely
  <2>4. CASE m = new /\ n = new
    BY <1>1, <1>3, <2>4 DEF CapacityTypes
  <2> QED
    BY <1>1, <2>1, <2>2, <2>3, <2>4
<1> QED
  BY <1>2, <1>3 DEF Ordered

\* and by handling one when all before it were.
LEMMA OrderMarked ==
  ASSUME NEW L \in Seq(EventRow), NEW M, NEW n, Ordered(L), Marked(L, M, n),
         n \in DOMAIN L => \A m \in DOMAIN L : Follows(L, m, n) => L[m].done
  PROVE  Ordered(M)
<1>1. /\ DOMAIN M = DOMAIN L
      /\ \A m \in DOMAIN L : /\ M[m].type = L[m].type /\ M[m].subject = L[m].subject
                             /\ M[m].at = L[m].at /\ M[m].done = (L[m].done \/ m = n)
  BY DEF Marked
<1>2. ASSUME NEW m \in DOMAIN L, NEW k \in DOMAIN L, Follows(M, m, k)
      PROVE  M[m].at <= M[k].at /\ (M[k].done => M[m].done)
  <2>1. Follows(L, m, k)
    BY <1>1, <1>2 DEF Follows
  <2> QED
    BY <1>1, <2>1 DEF Ordered
<1> QED
  BY <1>1, <1>2 DEF Ordered

\* Events of other windows, and those without status or target, leave w told.
LEMMA WindowTalkedPast ==
  ASSUME NEW L \in Seq(EventRow), NEW M, NEW e \in EventRow, Grown(L, M, e),
         NEW w, NEW row, NEW event, WindowTold(L, w, row, event),
         e.subject # w \/ e.type \notin StatusTypes \union CapacityTypes
  PROVE  WindowTold(M, w, row, event)
<1>1. ~TellsStatus(M, Len(L) + 1, w) /\ ~TellsCapacity(M, Len(L) + 1, w)
  BY DEF Grown, TellsStatus, TellsCapacity
<1>2. \A n \in DOMAIN L : /\ TellsStatus(M, n, w) <=> TellsStatus(L, n, w)
                          /\ TellsCapacity(M, n, w) <=> TellsCapacity(L, n, w)
                          /\ Starts(M, n, w) <=> Starts(L, n, w)
                          /\ M[n] = L[n]
  BY DEF Grown, TellsStatus, TellsCapacity, Starts
<1>3. DOMAIN M = DOMAIN L \union {Len(L) + 1}
  BY DEF Grown
<1> QED
  BY <1>1, <1>2, <1>3 DEF WindowTold

\* So do marks.
LEMMA WindowMarked ==
  ASSUME NEW L \in Seq(EventRow), NEW M, NEW n, Marked(L, M, n),
         NEW w, NEW row, NEW event, WindowTold(L, w, row, event)
  PROVE  WindowTold(M, w, row, event)
<1>1. \A m \in DOMAIN L : /\ TellsStatus(M, m, w) <=> TellsStatus(L, m, w)
                          /\ TellsCapacity(M, m, w) <=> TellsCapacity(L, m, w)
                          /\ Starts(M, m, w) <=> Starts(L, m, w)
                          /\ M[m].type = L[m].type /\ M[m].hours = L[m].hours
  BY DEF Marked, TellsStatus, TellsCapacity, Starts
<1>2. DOMAIN M = DOMAIN L
  BY DEF Marked
<1> QED
  BY <1>1, <1>2 DEF WindowTold

\* Every change of its status is told by the event of that change,
LEMMA WindowMoved ==
  ASSUME NEW L \in Seq(EventRow), NEW M, NEW e \in EventRow, Grown(L, M, e),
         NEW w, NEW row, NEW event, WindowTold(L, w, row, event), row.status # "none",
         e.subject = w, e.type \in {"frozen", "resumed", "completed"},
         NEW next, next.status # "none", next.ext = row.ext
  PROVE  WindowTold(M, w, next, e.type)
<1> DEFINE new == Len(L) + 1
<1>1. /\ TellsStatus(M, new, w) /\ ~TellsCapacity(M, new, w) /\ M[new].type = e.type
      /\ new \in Nat /\ \A m \in DOMAIN L : m \in Nat /\ m < new
      /\ DOMAIN M = DOMAIN L \union {new}
  BY DEF Grown, TellsStatus, TellsCapacity, StatusTypes, CapacityTypes, Mirrored
<1>2. \A n \in DOMAIN L : /\ TellsStatus(M, n, w) <=> TellsStatus(L, n, w)
                          /\ TellsCapacity(M, n, w) <=> TellsCapacity(L, n, w)
                          /\ Starts(M, n, w) <=> Starts(L, n, w)
                          /\ M[n] = L[n]
  BY DEF Grown, TellsStatus, TellsCapacity, Starts
<1> HIDE DEF new
<1>3. \E n \in DOMAIN M : /\ TellsStatus(M, n, w) /\ M[n].type = e.type
                          /\ \A m \in DOMAIN M : TellsStatus(M, m, w) => m <= n
  BY <1>1
<1>4. \E n \in DOMAIN M : /\ TellsCapacity(M, n, w) /\ M[n].hours = BaseHours + next.ext
                          /\ \A m \in DOMAIN M : TellsCapacity(M, m, w) => m <= n
  <2>1. PICK n \in DOMAIN L : /\ TellsCapacity(L, n, w) /\ L[n].hours = BaseHours + row.ext
                              /\ \A m \in DOMAIN L : TellsCapacity(L, m, w) => m <= n
    BY DEF WindowTold
  <2> QED
    BY <1>1, <1>2, <2>1
<1>5. \E n \in DOMAIN L : Starts(L, n, w) /\ n <= new
  BY <1>1, <1>2 DEF WindowTold
<1>6. \A n \in DOMAIN M : TellsStatus(M, n, w) \/ TellsCapacity(M, n, w) =>
        \E m \in DOMAIN M : m <= n /\ Starts(M, m, w)
  BY <1>1, <1>2, <1>5 DEF WindowTold
<1> QED
  BY <1>3, <1>4, <1>6 DEF WindowTold

\* so is its start, with its target,
LEMMA WindowStarted ==
  ASSUME NEW L \in Seq(EventRow), NEW M, NEW e \in EventRow, Grown(L, M, e),
         NEW w, NEW row, NEW event, WindowTold(L, w, row, event), row.status = "none",
         e.subject = w, e.type = "started", e.hours = BaseHours,
         NEW next, next.status # "none", next.ext = 0
  PROVE  WindowTold(M, w, next, "started")
<1> DEFINE new == Len(L) + 1
<1>1. /\ TellsStatus(M, new, w) /\ TellsCapacity(M, new, w) /\ Starts(M, new, w)
      /\ M[new].type = "started" /\ M[new].hours = BaseHours
      /\ new \in Nat /\ \A m \in DOMAIN L : m \in Nat /\ m < new
      /\ DOMAIN M = DOMAIN L \union {new}
  BY DEF Grown, TellsStatus, TellsCapacity, StatusTypes, CapacityTypes, Starts
<1>2. \A n \in DOMAIN L : ~TellsStatus(M, n, w) /\ ~TellsCapacity(M, n, w)
  BY DEF Grown, TellsStatus, TellsCapacity, WindowTold
<1>3. BaseHours = BaseHours + next.ext
  BY EngineConstants
<1> HIDE DEF new
<1> QED
  BY <1>1, <1>2, <1>3 DEF WindowTold

\* and every extension after it.
LEMMA WindowExtended ==
  ASSUME NEW L \in Seq(EventRow), NEW M, NEW e \in EventRow, Grown(L, M, e),
         NEW w, NEW row, NEW event, WindowTold(L, w, row, event), row.status # "none",
         e.subject = w, e.type = "target_duration_changed",
         NEW next, next.status # "none", e.hours = BaseHours + next.ext
  PROVE  WindowTold(M, w, next, event)
<1> DEFINE new == Len(L) + 1
<1>1. /\ ~TellsStatus(M, new, w) /\ TellsCapacity(M, new, w) /\ M[new].hours = e.hours
      /\ new \in Nat /\ \A m \in DOMAIN L : m \in Nat /\ m < new
      /\ DOMAIN M = DOMAIN L \union {new}
  BY DEF Grown, TellsStatus, TellsCapacity, StatusTypes, CapacityTypes, Mirrored
<1>2. \A n \in DOMAIN L : /\ TellsStatus(M, n, w) <=> TellsStatus(L, n, w)
                          /\ TellsCapacity(M, n, w) <=> TellsCapacity(L, n, w)
                          /\ Starts(M, n, w) <=> Starts(L, n, w)
                          /\ M[n] = L[n]
  BY DEF Grown, TellsStatus, TellsCapacity, Starts
<1> HIDE DEF new
<1>3. \E n \in DOMAIN M : /\ TellsStatus(M, n, w) /\ M[n].type = event
                          /\ \A m \in DOMAIN M : TellsStatus(M, m, w) => m <= n
  <2>1. PICK n \in DOMAIN L : /\ TellsStatus(L, n, w) /\ L[n].type = event
                              /\ \A m \in DOMAIN L : TellsStatus(L, m, w) => m <= n
    BY DEF WindowTold
  <2> QED
    BY <1>1, <1>2, <2>1
<1>4. \E n \in DOMAIN M : /\ TellsCapacity(M, n, w) /\ M[n].hours = BaseHours + next.ext
                          /\ \A m \in DOMAIN M : TellsCapacity(M, m, w) => m <= n
  BY <1>1
<1>5. \E n \in DOMAIN L : Starts(L, n, w) /\ n <= new
  BY <1>1, <1>2 DEF WindowTold
<1>6. \A n \in DOMAIN M : TellsStatus(M, n, w) \/ TellsCapacity(M, n, w) =>
        \E m \in DOMAIN M : m <= n /\ Starts(M, m, w)
  BY <1>1, <1>2, <1>5 DEF WindowTold
<1> QED
  BY <1>3, <1>4, <1>6 DEF WindowTold

\* A row that says the same of status and target is told the same.
LEMMA WindowRewritten ==
  ASSUME NEW L, NEW w, NEW row, NEW event, WindowTold(L, w, row, event),
         NEW next, next.status = row.status, next.ext = row.ext
  PROVE  WindowTold(L, w, next, event)
BY DEF WindowTold

\* An event that is yet to be handled tells the plans nothing.
LEMMA PlanTalkedPast ==
  ASSUME NEW L \in Seq(EventRow), NEW M, NEW e \in EventRow, Grown(L, M, e), e.done = FALSE,
         NEW w, NEW row, PlanTold(L, w, row)
  PROVE  PlanTold(M, w, row)
<1>1. ~M[Len(L) + 1].done /\ DOMAIN M = DOMAIN L \union {Len(L) + 1}
  BY DEF Grown
<1>2. \A n \in DOMAIN L : /\ TellsStatus(M, n, w) <=> TellsStatus(L, n, w)
                          /\ TellsCapacity(M, n, w) <=> TellsCapacity(L, n, w)
                          /\ Starts(M, n, w) <=> Starts(L, n, w)
                          /\ M[n] = L[n]
  BY DEF Grown, TellsStatus, TellsCapacity, Starts
<1> QED
  BY <1>1, <1>2 DEF PlanTold

\* Events are handled in order: what was handled came before an event that was not.
LEMMA HandledBefore ==
  ASSUME NEW L \in Seq(EventRow), Ordered(L), NEW n \in DOMAIN L, ~L[n].done, NEW w,
         NEW m \in DOMAIN L, L[m].done
  PROVE  /\ TellsStatus(L, n, w) /\ TellsStatus(L, m, w) => m <= n
         /\ TellsCapacity(L, n, w) /\ TellsCapacity(L, m, w) => m <= n
<1>1. m \in Nat /\ n \in Nat
  BY LogRows
<1>2. ~Follows(L, n, m)
  BY DEF Ordered
<1> QED
  BY <1>1, <1>2 DEF Follows, TellsStatus, TellsCapacity

\* An event of another window, or of none, leaves the plan of w told.
LEMMA PlanMarkedPast ==
  ASSUME NEW L \in Seq(EventRow), NEW M, NEW n, Marked(L, M, n),
         NEW w, NEW row, PlanTold(L, w, row),
         n \in DOMAIN L => ~TellsStatus(L, n, w) /\ ~TellsCapacity(L, n, w)
  PROVE  PlanTold(M, w, row)
<1>1. n \in DOMAIN L => ~Starts(L, n, w)
  BY DEF Starts, TellsStatus, StatusTypes
<1>2. /\ DOMAIN M = DOMAIN L
      /\ \A m \in DOMAIN L : /\ TellsStatus(M, m, w) <=> TellsStatus(L, m, w)
                             /\ TellsCapacity(M, m, w) <=> TellsCapacity(L, m, w)
                             /\ Starts(M, m, w) <=> Starts(L, m, w)
                             /\ M[m].type = L[m].type /\ M[m].hours = L[m].hours
                             /\ M[m].done <=> L[m].done \/ m = n
  BY DEF Marked, TellsStatus, TellsCapacity, Starts
<1> QED
  BY <1>1, <1>2 DEF PlanTold

\* The plan that penalty_window.started makes.
LEMMA PlanStarted ==
  ASSUME NEW L \in Seq(EventRow), NEW M, NEW n \in DOMAIN L, Marked(L, M, n), Ordered(L),
         ~L[n].done, NEW w, Starts(L, n, w),
         NEW next, next.status = "active", next.capacity = L[n].hours
  PROVE  PlanTold(M, w, next)
<1>a. /\ DOMAIN M = DOMAIN L
      /\ \A m \in DOMAIN L : /\ TellsStatus(M, m, w) <=> TellsStatus(L, m, w)
                             /\ TellsCapacity(M, m, w) <=> TellsCapacity(L, m, w)
                             /\ Starts(M, m, w) <=> Starts(L, m, w)
                             /\ M[m].type = L[m].type /\ M[m].hours = L[m].hours
                             /\ M[m].done <=> L[m].done \/ m = n
  BY DEF Marked, TellsStatus, TellsCapacity, Starts
<1>b. \A m \in DOMAIN L : L[m].done =>
        /\ TellsStatus(L, n, w) /\ TellsStatus(L, m, w) => m <= n
        /\ TellsCapacity(L, n, w) /\ TellsCapacity(L, m, w) => m <= n
  BY HandledBefore
<1>1. TellsStatus(L, n, w) /\ TellsCapacity(L, n, w) /\ n \in Nat
  BY LogRows DEF Starts, TellsStatus, TellsCapacity, StatusTypes, CapacityTypes
<1>2. StatusOf(L[n].type) = "active"
  BY DEF Starts, StatusOf
<1>3. \E k \in DOMAIN M :
        /\ TellsStatus(M, k, w) /\ M[k].done /\ next.status = StatusOf(M[k].type)
        /\ \A m \in DOMAIN M : TellsStatus(M, m, w) /\ M[m].done => m <= k
  BY <1>a, <1>b, <1>1, <1>2
<1>4. \E k \in DOMAIN M :
        /\ TellsCapacity(M, k, w) /\ M[k].done /\ next.capacity = M[k].hours
        /\ \A m \in DOMAIN M : TellsCapacity(M, m, w) /\ M[m].done => m <= k
  BY <1>a, <1>b, <1>1
<1> QED
  BY <1>3, <1>4 DEF PlanTold

\* When another event of w is handled there is a plan.
LEMMA StartedBefore ==
  ASSUME NEW L \in Seq(EventRow), NEW n \in DOMAIN L, NEW w, NEW window, NEW event, NEW row,
         WindowTold(L, w, window, event), PlanTold(L, w, row),
         \A m \in DOMAIN L : Follows(L, m, n) => L[m].done,
         TellsStatus(L, n, w) \/ TellsCapacity(L, n, w), L[n].type # "started"
  PROVE  row.status # "none"
<1>1. PICK m \in DOMAIN L : m <= n /\ Starts(L, m, w)
  BY DEF WindowTold
<1>2. m \in Nat /\ n \in Nat /\ m # n
  BY <1>1, LogRows DEF Starts
<1>3. Follows(L, m, n)
  BY <1>1, <1>2 DEF Follows, Starts, TellsStatus, TellsCapacity, StatusTypes, CapacityTypes
<1> QED
  BY <1>1, <1>3 DEF PlanTold

\* The status it takes from frozen, resumed and completed.
LEMMA PlanMoved ==
  ASSUME NEW L \in Seq(EventRow), NEW M, NEW n \in DOMAIN L, Marked(L, M, n), Ordered(L),
         ~L[n].done, NEW w, L[n].subject = w, L[n].type \in DOMAIN Mirrored,
         NEW row, PlanTold(L, w, row), row.status # "none",
         NEW next, next.status = Mirrored[L[n].type], next.status # "none",
         next.capacity = row.capacity
  PROVE  PlanTold(M, w, next)
<1>a. /\ DOMAIN M = DOMAIN L
      /\ \A m \in DOMAIN L : /\ TellsStatus(M, m, w) <=> TellsStatus(L, m, w)
                             /\ TellsCapacity(M, m, w) <=> TellsCapacity(L, m, w)
                             /\ Starts(M, m, w) <=> Starts(L, m, w)
                             /\ M[m].type = L[m].type /\ M[m].hours = L[m].hours
                             /\ M[m].done <=> L[m].done \/ m = n
  BY DEF Marked, TellsStatus, TellsCapacity, Starts
<1>b. \A m \in DOMAIN L : L[m].done =>
        /\ TellsStatus(L, n, w) /\ TellsStatus(L, m, w) => m <= n
        /\ TellsCapacity(L, n, w) /\ TellsCapacity(L, m, w) => m <= n
  BY HandledBefore
<1>1. TellsStatus(L, n, w) /\ ~TellsCapacity(L, n, w) /\ n \in Nat
  BY LogRows DEF TellsStatus, TellsCapacity, StatusTypes, CapacityTypes, Mirrored
<1>2. StatusOf(L[n].type) = Mirrored[L[n].type]
  BY DEF Mirrored, StatusOf
<1>3. \E k \in DOMAIN M :
        /\ TellsStatus(M, k, w) /\ M[k].done /\ next.status = StatusOf(M[k].type)
        /\ \A m \in DOMAIN M : TellsStatus(M, m, w) /\ M[m].done => m <= k
  BY <1>a, <1>b, <1>1, <1>2
<1>4. \E k \in DOMAIN M :
        /\ TellsCapacity(M, k, w) /\ M[k].done /\ next.capacity = M[k].hours
        /\ \A m \in DOMAIN M : TellsCapacity(M, m, w) /\ M[m].done => m <= k
  BY <1>a, <1>1 DEF PlanTold
<1> QED
  BY <1>3, <1>4 DEF PlanTold

\* The capacity it takes from target_duration_changed.
LEMMA PlanExtended ==
  ASSUME NEW L \in Seq(EventRow), NEW M, NEW n \in DOMAIN L, Marked(L, M, n), Ordered(L),
         ~L[n].done, NEW w, L[n].subject = w, L[n].type = "target_duration_changed",
         NEW row, PlanTold(L, w, row), row.status # "none",
         NEW next, next.status = row.status, next.capacity = L[n].hours
  PROVE  PlanTold(M, w, next)
<1>a. /\ DOMAIN M = DOMAIN L
      /\ \A m \in DOMAIN L : /\ TellsStatus(M, m, w) <=> TellsStatus(L, m, w)
                             /\ TellsCapacity(M, m, w) <=> TellsCapacity(L, m, w)
                             /\ Starts(M, m, w) <=> Starts(L, m, w)
                             /\ M[m].type = L[m].type /\ M[m].hours = L[m].hours
                             /\ M[m].done <=> L[m].done \/ m = n
  BY DEF Marked, TellsStatus, TellsCapacity, Starts
<1>b. \A m \in DOMAIN L : L[m].done =>
        /\ TellsStatus(L, n, w) /\ TellsStatus(L, m, w) => m <= n
        /\ TellsCapacity(L, n, w) /\ TellsCapacity(L, m, w) => m <= n
  BY HandledBefore
<1>1. ~TellsStatus(L, n, w) /\ TellsCapacity(L, n, w) /\ n \in Nat
  BY LogRows DEF TellsStatus, TellsCapacity, StatusTypes, CapacityTypes, Mirrored
<1>2. \E k \in DOMAIN M :
        /\ TellsStatus(M, k, w) /\ M[k].done /\ next.status = StatusOf(M[k].type)
        /\ \A m \in DOMAIN M : TellsStatus(M, m, w) /\ M[m].done => m <= k
  BY <1>a, <1>1 DEF PlanTold
<1>3. \E k \in DOMAIN M :
        /\ TellsCapacity(M, k, w) /\ M[k].done /\ next.capacity = M[k].hours
        /\ \A m \in DOMAIN M : TellsCapacity(M, m, w) /\ M[m].done => m <= k
  BY <1>a, <1>b, <1>1
<1> QED
  BY <1>2, <1>3 DEF PlanTold

\* An event that is not the completion of k leaves its credit told.
LEMMA CreditTalkedPast ==
  ASSUME NEW L \in Seq(EventRow), NEW M, NEW e \in EventRow, Grown(L, M, e),
         NEW k, NEW task, NEW credit, CreditTold(L, k, task, credit),
         e.subject # k \/ e.type # "task_completed"
  PROVE  CreditTold(M, k, task, credit)
<1>1. ~Completes(M, Len(L) + 1, k) /\ DOMAIN M = DOMAIN L \union {Len(L) + 1}
  BY DEF Grown, Completes
<1>2. \A n \in DOMAIN L : /\ Completes(M, n, k) <=> Completes(L, n, k)
                          /\ M[n] = L[n]
  BY DEF Grown, Completes
<1> QED
  BY <1>1, <1>2 DEF CreditTold

\* complete_task() writes it.
LEMMA TaskTold ==
  ASSUME NEW L \in Seq(EventRow), NEW M, NEW e \in EventRow, Grown(L, M, e), e.done = FALSE,
         NEW k, NEW task, NEW credit, CreditTold(L, k, task, credit),
         task.status # "completed", e.subject = k, e.type = "task_completed",
         NEW next, next.status = "completed"
  PROVE  CreditTold(M, k, next, credit)
<1>1. /\ Completes(M, Len(L) + 1, k) /\ ~M[Len(L) + 1].done
      /\ DOMAIN M = DOMAIN L \union {Len(L) + 1}
  BY DEF Grown, Completes
<1>2. \A n \in DOMAIN L : ~Completes(M, n, k)
  BY DEF Grown, Completes, CreditTold
<1>3. credit.window = None
  BY DEF CreditTold
<1> QED
  BY <1>1, <1>2, <1>3 DEF CreditTold

\* Handling another event leaves the credit told.
LEMMA CreditMarkedPast ==
  ASSUME NEW L \in Seq(EventRow), NEW M, NEW n, Marked(L, M, n),
         NEW k, NEW task, NEW credit, CreditTold(L, k, task, credit),
         n \in DOMAIN L => ~Completes(L, n, k)
  PROVE  CreditTold(M, k, task, credit)
BY DEF Marked, Completes, CreditTold

\* Handling the completion decides it.
LEMMA CreditDecided ==
  ASSUME NEW L \in Seq(EventRow), NEW M, NEW n \in DOMAIN L, Marked(L, M, n),
         NEW k, NEW task, NEW credit, CreditTold(L, k, task, credit), Completes(L, n, k),
         NEW next, next.window = task.plan, next.window # None
  PROVE  CreditTold(M, k, task, next)
BY DEF Marked, Completes, CreditTold

----------------------------------------------------------------------------
(* The engine *)

\* What PenaltyEngineProofs knows of the rows, in the words of Lifecycle.
LEMMA EngineFacts ==
  ASSUME PEP!IInv
  PROVE  /\ PE!TypeOK /\ PE!EventsTellStatus /\ PE!FreezeSet /\ PE!ExtensionsWithinCap
         /\ \A t \in Threads :
              /\ threads[t].now <= clock
              /\ threads[t].pc \in {"listing", "closing", "completing"} =>
                   threads[t].window \in Windows /\ PE!Exists(threads[t].window)
         /\ \A f \in Freezes : freezes[f].window # None => PE!Exists(freezes[f].window)
<1> USE DEF PEP!IInv, PEP!DataInv, PEP!ThreadInv, PEP!FreezeInv, PEP!IncidentInv
<1>1. PE!TypeOK
  BY DEF PE!TypeOK, PEP!WindowRow, PE!WindowRow, PEP!FreezeRow, PE!FreezeRow, PEP!Reasons,
         PE!Reasons, PEP!IncidentRow, PE!IncidentRow, PEP!CreditRow, PE!CreditRow,
         PEP!ThreadState, PE!ThreadState
<1>2. PE!EventsTellStatus
  BY DEF PEP!EventsTellStatus, PE!EventsTellStatus
<1>3. PE!FreezeSet
  BY DEF PEP!FreezeSet, PE!FreezeSet, PEP!OpenFreezes, PE!OpenFreezes
<1>4. PE!ExtensionsWithinCap
  BY DEF PEP!RowInv, PE!ExtensionsWithinCap
<1>5. \A t \in Threads :
        /\ threads[t].now <= clock
        /\ threads[t].pc \in {"listing", "closing", "completing"} =>
             threads[t].window \in Windows /\ PE!Exists(threads[t].window)
  BY DEF PEP!Exists, PE!Exists
<1>6. \A f \in Freezes : freezes[f].window # None => PE!Exists(freezes[f].window)
  BY DEF PEP!Exists, PE!Exists
<1> QED
  BY <1>1, <1>2, <1>3, <1>4, <1>5, <1>6

\* Its operations are those of PenaltyEngineProofs.
LEMMA EngineSteps ==
  /\ PE!Init => PEP!Init
  /\ PE!Tick => PEP!Tick
  /\ \A i \in Incidents : /\ PE!ReportIncident(i) => PEP!ReportIncident(i)
                          /\ PE!ConfirmIncident(i) => PEP!ConfirmIncident(i)
  /\ \A w \in Windows, reason \in FreezeReasons, expires \in Expiries :
       PE!Freeze(w, reason, expires) =>
         PEP!Freeze(w, reason, expires) /\ reason \in PEP!Reasons /\ expires \in PEP!Expiries
  /\ \A w \in Windows, reason \in FreezeReasons :
       PE!Resume(w, reason) => PEP!Resume(w, reason) /\ reason \in PEP!Reasons
  /\ \A t \in Threads, now \in Nat : PE!BeginEnsureAt(t, now) => PEP!BeginEnsureAt(t, now)
  /\ \A t \in Threads :
       /\ PE!ListExpired(t) => PEP!ListExpired(t)
       /\ PE!Reread(t) => PEP!Reread(t)
       /\ PE!CloseExpired(t) => PEP!CloseExpired(t)
       /\ PE!CompleteWindow(t) => PEP!CompleteWindow(t)
  /\ \A k \in Tasks, w \in Windows :
       PE!RecordRecoveryCredit(k, w) => PEP!RecordRecoveryCredit(k, w)
<1> USE DEF PE!Idle, PEP!Idle, PE!IsOpen, PEP!IsOpen, PE!Exists, PEP!Exists
<1>1. PE!LatestOpen = PEP!LatestOpen
  BY DEF PE!LatestOpen, PEP!LatestOpen
<1>2. \A w : PE!OpenFreezes(w) = PEP!OpenFreezes(w)
  BY DEF PE!OpenFreezes, PEP!OpenFreezes
<1>4. \A w, rows, now, end : PE!CloseFreezePeriods(w, rows, now, end) =>
                             PEP!CloseFreezePeriods(w, rows, now, end)
  BY <1>2 DEF PE!CloseFreezePeriods, PEP!CloseFreezePeriods
<1>5. PE!Init => PEP!Init
  BY DEF PE!Init, PEP!Init, PE!NoWindow, PEP!NoWindow, PE!NoFreeze, PEP!NoFreeze,
         PE!NoIncident, PEP!NoIncident
<1>6. PE!Tick => PEP!Tick
  BY DEF PE!Tick, PEP!Tick
<1>7. \A i \in Incidents : /\ PE!ReportIncident(i) => PEP!ReportIncident(i)
                           /\ PE!ConfirmIncident(i) => PEP!ConfirmIncident(i)
  BY DEF PE!ReportIncident, PEP!ReportIncident, PE!ConfirmIncident, PEP!ConfirmIncident
<1>8. \A reason \in FreezeReasons : reason \in PEP!Reasons
  BY EngineConstants DEF PE!Reasons, PEP!Reasons
<1>9. \A expires \in Expiries : expires \in PEP!Expiries
  BY DEF Expiries, PEP!Expiries
<1>10. \A w, reason, expires : PE!Freeze(w, reason, expires) => PEP!Freeze(w, reason, expires)
  BY DEF PE!Freeze, PEP!Freeze, PE!NoFreeze, PEP!NoFreeze, PE!OpenFreezes, PEP!OpenFreezes,
         PE!Elapsed, PEP!Elapsed
<1>11. \A w, reason : PE!Resume(w, reason) => PEP!Resume(w, reason)
  BY <1>2, <1>4 DEF PE!Resume, PEP!Resume
<1>12. \A t, now : PE!BeginEnsureAt(t, now) => PEP!BeginEnsureAt(t, now)
  BY <1>1 DEF PE!BeginEnsureAt, PEP!BeginEnsureAt
<1>13. \A t \in Threads : PE!ListExpired(t) => PEP!ListExpired(t)
  BY <1>2 DEF PE!ListExpired, PEP!ListExpired
<1>14. \A t \in Threads : PE!Reread(t) => PEP!Reread(t)
  BY DEF PE!Reread, PEP!Reread, PE!LatestOpen, PEP!LatestOpen, PE!IsComplete, PEP!IsComplete,
         PE!Elapsed, PEP!Elapsed, PE!Target, PEP!Target, PE!Least, PEP!Least
<1>15. \A t \in Threads : PE!CloseExpired(t) => PEP!CloseExpired(t)
  BY <1>2, <1>4 DEF PE!CloseExpired, PEP!CloseExpired
<1>16. \A t \in Threads : PE!CompleteWindow(t) => PEP!CompleteWindow(t)
  BY DEF PE!CompleteWindow, PEP!CompleteWindow
<1>17. \A k, w : PE!RecordRecoveryCredit(k, w) => PEP!RecordRecoveryCredit(k, w)
  BY DEF PE!RecordRecoveryCredit, PEP!RecordRecoveryCredit, PE!Target, PEP!Target, PE!Least,
         PEP!Least
<1> QED
  BY <1>5, <1>6, <1>7, <1>8, <1>9, <1>10, <1>11, <1>12, <1>13, <1>14, <1>15, <1>16, <1>17

\* ... and so is the consumption of an incident.
LEMMA ConsumptionStep ==
  ASSUME NEW i, NEW now, PE!Consume(i, now)
  PROVE  PEP!Consume(i, now)
BY DEF PE!Consume, PEP!Consume, PE!LatestOpen, PEP!LatestOpen, PE!IsOpen, PEP!IsOpen,
       PE!Exists, PEP!Exists, PE!NoWindow, PEP!NoWindow, PE!Least, PEP!Least,
       PE!SameRuleCount, PEP!SameRuleCount, PE!Cardinality, PEP!Cardinality

----------------------------------------------------------------------------
(* The log of the system *)

LogInv ==
  /\ log \in Seq(EventRow) /\ RowsOf(log, clock) /\ Ordered(log)
  /\ \A w \in Windows : WindowTold(log, w, windows[w], lastEvent[w])
  /\ \A w \in Windows : PlanTold(log, w, plans[w])
  /\ \A k \in Tasks : CreditTold(log, k, tasks[k], credits[k])

\* Without an event nothing has changed that events tell.
LEMMA LogStands ==
  ASSUME LogInv, log' = log, plans' = plans, clock \in Nat, clock' \in Nat, clock <= clock',
         \A w \in Windows : /\ windows'[w].status = windows[w].status
                            /\ windows'[w].ext = windows[w].ext
                            /\ lastEvent'[w] = lastEvent[w],
         \A k \in Tasks : /\ credits'[k] = credits[k]
                          /\ tasks'[k].status = "completed" <=> tasks[k].status = "completed"
                          /\ tasks[k].status = "completed" => tasks'[k].plan = tasks[k].plan
  PROVE  LogInv'
<1>1. RowsOf(log, clock')
  <2>1. \A n \in DOMAIN log : log[n].at \in Nat
    BY LogRows DEF LogInv, EventRow
  <2> QED
    BY <2>1 DEF LogInv, RowsOf
<1>2. ASSUME NEW w \in Windows PROVE WindowTold(log, w, windows'[w], lastEvent'[w])
  BY WindowRewritten DEF LogInv
<1>3. ASSUME NEW k \in Tasks PROVE CreditTold(log, k, tasks'[k], credits'[k])
  BY DEF LogInv, CreditTold
<1> QED
  BY <1>1, <1>2, <1>3 DEF LogInv

\* A window changes its status and tells.
LEMMA StatusIsTold ==
  ASSUME LogInv, NEW w \in Windows, NEW type \in {"frozen", "resumed", "completed"},
         NEW at \in Nat, at <= clock,
         \A n \in DOMAIN log : log[n].subject = w /\ log[n].type \in StatusTypes => log[n].at <= at,
         log' = Append(log, Event(type, w, 0, at)),
         windows[w].status # "none", windows'[w].status # "none",
         windows'[w].ext = windows[w].ext, lastEvent'[w] = type,
         \A v \in Windows \ {w} : windows'[v] = windows[v] /\ lastEvent'[v] = lastEvent[v],
         UNCHANGED <<clock, plans, tasks, credits>>
  PROVE  LogInv'
<1> DEFINE e == Event(type, w, 0, at)
<1>1. /\ e \in EventRow /\ e.type = type /\ e.subject = w /\ e.at = at
      /\ e.published = FALSE /\ e.done = FALSE
  BY DEF Event, EventRow
<1>2. log \in Seq(EventRow) /\ log' = Append(log, e)
  BY DEF LogInv
<1> HIDE DEF e
<1>3. Grown(log, log', e)
  BY <1>1, <1>2, AppendGrows
<1>4. RowsOf(log', clock)
  <2>1. e.type \notin {"confirmed", "task_completed"}
    BY <1>1
  <2> QED
    BY <1>1, <1>2, <1>3, <2>1, RowsGrow DEF LogInv
<1>5. Ordered(log')
  <2>1. Later(log, e)
    BY <1>1 DEF Later, CapacityTypes
  <2>2. Timely(log, e)
    BY <1>1 DEF Timely, CapacityTypes
  <2> QED
    BY <1>1, <1>2, <1>3, <2>1, <2>2, OrderGrows DEF LogInv
<1>6. ASSUME NEW v \in Windows PROVE WindowTold(log', v, windows'[v], lastEvent'[v])
  <2>1. WindowTold(log, v, windows[v], lastEvent[v])
    BY DEF LogInv
  <2>2. CASE v = w
    <3>1. /\ e.type \in {"frozen", "resumed", "completed"} /\ e.subject = w
          /\ WindowTold(log, w, windows[w], lastEvent[w]) /\ windows[w].status # "none"
          /\ windows'[w].status # "none" /\ windows'[w].ext = windows[w].ext
      BY <1>1, <2>1, <2>2
    <3>2. WindowTold(log', w, windows'[w], e.type)
      BY <1>1, <1>2, <1>3, <3>1, WindowMoved
    <3> QED
      BY <1>1, <2>2, <3>2
  <2>3. CASE v # w
    <3>1. WindowTold(log', v, windows[v], lastEvent[v])
      BY <1>1, <1>2, <1>3, <2>1, <2>3, WindowTalkedPast
    <3> QED
      BY <2>3, <3>1
  <2> QED
    BY <2>2, <2>3
<1>7. ASSUME NEW v \in Windows PROVE PlanTold(log', v, plans'[v])
  BY <1>1, <1>2, <1>3, PlanTalkedPast DEF LogInv
<1>8. ASSUME NEW k \in Tasks PROVE CreditTold(log', k, tasks'[k], credits'[k])
  <2>1. e.type # "task_completed"
    BY <1>1
  <2> QED
    BY <1>1, <1>2, <1>3, <2>1, CreditTalkedPast DEF LogInv
<1>9. log' \in Seq(EventRow)
  BY <1>3 DEF Grown
<1> QED
  BY <1>4, <1>5, <1>6, <1>7, <1>8, <1>9 DEF LogInv

\* An event that tells nothing of a window is written now.
LEMMA OtherIsTold ==
  ASSUME LogInv, clock \in Nat, NEW type \in {"confirmed", "task_completed"}, NEW subject,
         type = "confirmed" => subject \in Incidents,
         type = "task_completed" =>
           subject \in Tasks /\ tasks[subject].status # "completed" /\ tasks'[subject].status = "completed",
         log' = Append(log, Event(type, subject, 0, clock)),
         \A k \in Tasks : type = "confirmed" \/ k # subject => tasks'[k] = tasks[k],
         UNCHANGED <<clock, windows, lastEvent, plans, credits>>
  PROVE  LogInv'
<1> DEFINE e == Event(type, subject, 0, clock)
<1>1. /\ e \in EventRow /\ e.type = type /\ e.subject = subject /\ e.at = clock
      /\ e.published = FALSE /\ e.done = FALSE
  BY DEF Event, EventRow
<1>2. log \in Seq(EventRow) /\ log' = Append(log, e)
  BY DEF LogInv
<1> HIDE DEF e
<1>3. Grown(log, log', e)
  BY <1>1, <1>2, AppendGrows
<1>4. RowsOf(log', clock)
  <2>1. e.type \notin StatusTypes \union CapacityTypes
    BY <1>1 DEF StatusTypes, CapacityTypes, Mirrored
  <2>2. /\ e.type = "confirmed" => e.subject \in Incidents
        /\ e.type = "task_completed" => e.subject \in Tasks
        /\ e.at <= clock
    BY <1>1
  <2>3. RowsOf(log, clock)
    BY DEF LogInv
  <2> QED
    BY <1>1, <1>2, <1>3, <2>1, <2>2, <2>3, RowsGrow
<1>5. Ordered(log')
  <2>1. Later(log, e)
    BY <1>1 DEF Later, LogInv, RowsOf
  <2>2. Timely(log, e)
    BY <1>1 DEF Timely, CapacityTypes
  <2> QED
    BY <1>1, <1>2, <1>3, <2>1, <2>2, OrderGrows DEF LogInv
<1>6. ASSUME NEW v \in Windows PROVE WindowTold(log', v, windows'[v], lastEvent'[v])
  <2>1. e.type \notin StatusTypes \union CapacityTypes
    BY <1>1 DEF StatusTypes, CapacityTypes, Mirrored
  <2> QED
    BY <1>2, <1>1, <1>3, <2>1, WindowTalkedPast DEF LogInv
<1>7. ASSUME NEW v \in Windows PROVE PlanTold(log', v, plans'[v])
  BY <1>1, <1>2, <1>3, PlanTalkedPast DEF LogInv
<1>8. ASSUME NEW k \in Tasks PROVE CreditTold(log', k, tasks'[k], credits'[k])
  <2>1. CreditTold(log, k, tasks[k], credits[k])
    BY DEF LogInv
  <2>2. CASE e.subject # k \/ e.type # "task_completed"
    <3>1. CreditTold(log', k, tasks[k], credits[k])
      BY <1>1, <1>2, <1>3, <2>1, <2>2, CreditTalkedPast
    <3> QED
      BY <1>1, <2>2, <3>1
  <2>3. CASE e.subject = k /\ e.type = "task_completed"
    BY <1>1, <1>2, <1>3, <2>1, <2>3, TaskTold
  <2> QED
    BY <2>2, <2>3
<1>9. log' \in Seq(EventRow)
  BY <1>3 DEF Grown
<1> QED
  BY <1>4, <1>5, <1>6, <1>7, <1>8, <1>9 DEF LogInv

\* Claims and publications of events that were handled change nothing events tell.
LEMMA LogIsMarked ==
  ASSUME LogInv, Marked(log, log', 0),
         \A n \in DOMAIN log : log'[n].published => log[n].published \/ log[n].done,
         UNCHANGED <<clock, windows, lastEvent, plans, tasks, credits>>
  PROVE  LogInv'
<1>1. log \in Seq(EventRow) /\ DOMAIN log = 1..Len(log) /\ Len(log) \in Nat
  BY LogRows DEF LogInv
<1>2. 0 \notin DOMAIN log
  BY <1>1
<1>3. RowsOf(log', clock)
  BY <1>1, RowsMarked DEF LogInv
<1>4. Ordered(log')
  BY <1>1, <1>2, OrderMarked DEF LogInv
<1>5. ASSUME NEW w \in Windows PROVE WindowTold(log', w, windows[w], lastEvent[w])
  BY <1>1, WindowMarked DEF LogInv
<1>6. ASSUME NEW w \in Windows PROVE PlanTold(log', w, plans[w])
  BY <1>1, <1>2, PlanMarkedPast DEF LogInv
<1>7. ASSUME NEW k \in Tasks PROVE CreditTold(log', k, tasks[k], credits[k])
  BY <1>1, <1>2, CreditMarkedPast DEF LogInv
<1>8. log' \in Seq(EventRow)
  BY DEF Marked
<1> QED
  BY <1>3, <1>4, <1>5, <1>6, <1>7, <1>8 DEF LogInv

----------------------------------------------------------------------------
(* What windows tell *)

\* freeze() tells when an active window is frozen.
LEMMA FreezeIsTold ==
  ASSUME PEP!IInv, LogInv, NEW w \in Windows, NEW reason, NEW expires,
         Freeze(w, reason, expires)
  PROVE  LogInv'
<1>1. /\ clock \in Nat /\ windows \in [Windows -> PE!WindowRow]
      /\ lastEvent \in [Windows -> {"none", "started", "frozen", "resumed", "completed"}]
  BY EngineFacts DEF PE!TypeOK
<1>2. UNCHANGED <<clock, plans, tasks, credits>>
  BY DEF Freeze, PE!Freeze, plan
<1>3. CASE windows[w].status = "active"
  <2> DEFINE row == [windows[w] EXCEPT !.status = "frozen",
                       !.acc = PE!Elapsed(windows[w], clock), !.since = None]
  <2>1. windows[w] \in PE!WindowRow
    BY <1>1
  <2>2. row.status = "frozen" /\ row.ext = windows[w].ext
    BY <2>1 DEF PE!WindowRow
  <2>3. /\ windows' = [windows EXCEPT ![w] = row]
        /\ lastEvent' = [lastEvent EXCEPT ![w] = "frozen"]
    BY <1>3 DEF Freeze, PE!Freeze
  <2> HIDE DEF row
  <2>4. /\ windows'[w] = row /\ lastEvent'[w] = "frozen"
        /\ \A v \in Windows \ {w} : windows'[v] = windows[v] /\ lastEvent'[v] = lastEvent[v]
    BY <1>1, <2>3
  <2>5. log' = Append(log, Event("frozen", w, 0, clock))
    BY <1>3 DEF Freeze
  <2>6. \A n \in DOMAIN log : log[n].subject = w /\ log[n].type \in StatusTypes => log[n].at <= clock
    BY DEF LogInv, RowsOf
  <2> QED
    BY <1>1, <1>2, <1>3, <2>2, <2>4, <2>5, <2>6, StatusIsTold
<1>4. CASE windows[w].status # "active"
  <2>1. UNCHANGED <<log, windows, lastEvent>>
    BY <1>4 DEF Freeze, PE!Freeze
  <2> QED
    BY <1>1, <1>2, <2>1, LogStands
<1> QED
  BY <1>3, <1>4

\* _close_freeze_periods_in_transaction() tells when the last one is closed.
LEMMA CloseIsTold ==
  ASSUME PEP!IInv, LogInv, NEW w \in Windows, PE!Exists(w), NEW rows \in SUBSET PE!OpenFreezes(w),
         NEW now \in Nat, now <= clock, NEW endReason,
         PE!CloseFreezePeriods(w, rows, now, endReason), Resumed(w, now),
         \A n \in DOMAIN log : log[n].subject = w /\ log[n].type \in StatusTypes => log[n].at <= now,
         UNCHANGED <<clock, plans, tasks, credits>>
  PROVE  LogInv'
<1>1. /\ clock \in Nat /\ windows \in [Windows -> PE!WindowRow]
      /\ lastEvent \in [Windows -> {"none", "started", "frozen", "resumed", "completed"}]
      /\ freezes \in [Freezes -> PE!FreezeRow]
  BY EngineFacts DEF PE!TypeOK
<1>2. CASE rows = {}
  <2>1. UNCHANGED <<windows, freezes, lastEvent>>
    BY <1>2 DEF PE!CloseFreezePeriods
  <2>2. PE!OpenFreezes(w)' = PE!OpenFreezes(w)
    BY <2>1 DEF PE!OpenFreezes
  <2>3. log' = log
    BY <2>2 DEF Resumed
  <2> QED
    BY <1>1, <2>1, <2>3, LogStands
<1>3. CASE rows # {}
  <2>1. \A f \in Freezes : freezes'[f] =
          IF f \in rows THEN [freezes[f] EXCEPT !.end = now, !.endReason = endReason]
          ELSE freezes[f]
    BY <1>3 DEF PE!CloseFreezePeriods
  <2>2. \A f \in rows : f \in Freezes /\ freezes'[f].end # None
    BY <1>1, <2>1, EngineConstants DEF PE!OpenFreezes, PE!FreezeRow
  <2>3. PE!OpenFreezes(w)' = PE!OpenFreezes(w) \ rows
    BY <2>1, <2>2 DEF PE!OpenFreezes
  <2>4. CASE PE!OpenFreezes(w) \subseteq rows
    <3> DEFINE row == [windows[w] EXCEPT !.status = "active", !.since = now]
    <3>1. windows[w] \in PE!WindowRow
      BY <1>1
    <3>2. row.status = "active" /\ row.ext = windows[w].ext
      BY <3>1 DEF PE!WindowRow
    <3>3. /\ windows' = [windows EXCEPT ![w] = row]
          /\ lastEvent' = [lastEvent EXCEPT ![w] = "resumed"]
      BY <1>3, <2>4 DEF PE!CloseFreezePeriods
    <3> HIDE DEF row
    <3>4. /\ windows'[w] = row /\ lastEvent'[w] = "resumed"
          /\ \A v \in Windows \ {w} : windows'[v] = windows[v] /\ lastEvent'[v] = lastEvent[v]
      BY <1>1, <3>3
    <3>5. log' = Append(log, Event("resumed", w, 0, now))
      BY <1>3, <2>3, <2>4 DEF Resumed
    <3> QED
      BY <3>2, <3>4, <3>5, StatusIsTold DEF PE!Exists
  <2>5. CASE ~(PE!OpenFreezes(w) \subseteq rows)
    <3>1. UNCHANGED <<windows, lastEvent>>
      BY <1>3, <2>5 DEF PE!CloseFreezePeriods
    <3>2. log' = log
      BY <2>3, <2>5 DEF Resumed
    <3> QED
      BY <1>1, <3>1, <3>2, LogStands
  <2> QED
    BY <2>4, <2>5
<1> QED
  BY <1>2, <1>3

\* _complete_window() tells that the window is completed.
LEMMA CompletionIsTold ==
  ASSUME PEP!IInv, LogInv, NEW t \in Threads, PE!CompleteWindow(t),
         log' = Append(log, Event("completed", threads[t].window, 0, threads[t].now)),
         \A n \in DOMAIN log : log[n].type \in StatusTypes => log[n].at <= threads[t].now,
         UNCHANGED plan
  PROVE  LogInv'
<1> DEFINE w == threads[t].window
           row == [windows[w] EXCEPT !.status = "completed", !.closed = threads[t].now]
<1>1. /\ clock \in Nat /\ windows \in [Windows -> PE!WindowRow]
      /\ lastEvent \in [Windows -> {"none", "started", "frozen", "resumed", "completed"}]
      /\ threads[t].now \in Nat
  BY EngineFacts DEF PE!TypeOK, PE!ThreadState
<1>2. w \in Windows /\ PE!Exists(w) /\ threads[t].now <= clock
  BY EngineFacts DEF PE!CompleteWindow
<1>3. windows[w] \in PE!WindowRow
  BY <1>1, <1>2
<1>4. row.status = "completed" /\ row.ext = windows[w].ext
  BY <1>3 DEF PE!WindowRow
<1>5. /\ windows' = [windows EXCEPT ![w] = row]
      /\ lastEvent' = [lastEvent EXCEPT ![w] = "completed"]
      /\ UNCHANGED <<clock, plans, tasks, credits>>
  BY DEF PE!CompleteWindow, plan
<1> HIDE DEF row
<1>6. /\ windows'[w] = row /\ lastEvent'[w] = "completed"
      /\ \A v \in Windows \ {w} : windows'[v] = windows[v] /\ lastEvent'[v] = lastEvent[v]
  BY <1>1, <1>2, <1>5
<1> QED
  BY <1>1, <1>2, <1>4, <1>5, <1>6, StatusIsTold DEF PE!Exists

----------------------------------------------------------------------------
(* What handlers do to the log *)

\* It is event n's turn: it was not handled, and all that it follows was.
ItsTurn(n) ==
  /\ n \in DOMAIN log /\ ~log[n].done
  /\ \A m \in DOMAIN log : Follows(log, m, n) => log[m].done

\* The event is marked; the rest of the log and what it tells of others stays.
LEMMA OneIsHandled ==
  ASSUME LogInv, NEW n, ItsTurn(n), NEW M, M = [log EXCEPT ![n].done = TRUE]
  PROVE  /\ Marked(log, M, n) /\ RowsOf(M, clock) /\ Ordered(M)
         /\ \A w \in Windows : WindowTold(M, w, windows[w], lastEvent[w])
         /\ \A w \in Windows : ~TellsStatus(log, n, w) /\ ~TellsCapacity(log, n, w) =>
              PlanTold(M, w, plans[w])
         /\ \A k \in Tasks : ~Completes(log, n, k) => CreditTold(M, k, tasks[k], credits[k])
<1>1. log \in Seq(EventRow) /\ n \in DOMAIN log
  BY DEF LogInv, ItsTurn
<1>2. /\ Marked(log, M, n)
      /\ \A m \in DOMAIN log : M[m].published = log[m].published
  BY <1>1, DoneIsMarked
<1>3. RowsOf(M, clock)
  <2>1. RowsOf(log, clock) /\ \A m \in DOMAIN log : M[m].published => log[m].published \/ log[m].done
    BY <1>2 DEF LogInv
  <2> QED
    BY <1>1, <1>2, <2>1, RowsMarked
<1>4. Ordered(M)
  BY <1>1, <1>2, OrderMarked DEF LogInv, ItsTurn
<1>5. ASSUME NEW w \in Windows PROVE WindowTold(M, w, windows[w], lastEvent[w])
  BY <1>1, <1>2, WindowMarked DEF LogInv
<1>6. ASSUME NEW w \in Windows, ~TellsStatus(log, n, w), ~TellsCapacity(log, n, w)
      PROVE  PlanTold(M, w, plans[w])
  BY <1>1, <1>2, <1>6, PlanMarkedPast DEF LogInv
<1>7. ASSUME NEW k \in Tasks, ~Completes(log, n, k)
      PROVE  CreditTold(M, k, tasks[k], credits[k])
  BY <1>1, <1>2, <1>7, CreditMarkedPast DEF LogInv
<1> QED
  BY <1>2, <1>3, <1>4, <1>5, <1>6, <1>7

\* A handler that writes no events.
LEMMA NothingWritten ==
  ASSUME log \in Seq(EventRow), NEW n \in DOMAIN log, Handled(n, <<>>)
  PROVE  log' = [log EXCEPT ![n].done = TRUE]
<1>1. [log EXCEPT ![n].done = TRUE] \in Seq(EventRow)
  BY DoneIsMarked DEF Marked
<1> HIDE DEF EventRow
<1> QED
  BY <1>1 DEF Handled

\* An event of one window leaves the plans of the others told.
LEMMA PlanIsHandled ==
  ASSUME LogInv, NEW n, ItsTurn(n), log' = [log EXCEPT ![n].done = TRUE],
         log[n].type # "task_completed", NEW w \in Windows, log[n].subject = w,
         PlanTold(log', w, plans'[w]),
         \A v \in Windows \ {w} : plans'[v] = plans[v],
         UNCHANGED <<clock, windows, lastEvent, credits>>,
         \A k \in Tasks : /\ tasks'[k].status = "completed" <=> tasks[k].status = "completed"
                          /\ tasks'[k].plan = tasks[k].plan
  PROVE  LogInv'
<1>1. /\ Marked(log, log', n) /\ RowsOf(log', clock) /\ Ordered(log')
      /\ \A v \in Windows : WindowTold(log', v, windows[v], lastEvent[v])
      /\ \A v \in Windows : ~TellsStatus(log, n, v) /\ ~TellsCapacity(log, n, v) =>
           PlanTold(log', v, plans[v])
      /\ \A k \in Tasks : ~Completes(log, n, k) => CreditTold(log', k, tasks[k], credits[k])
  BY OneIsHandled
<1>2. ASSUME NEW v \in Windows PROVE PlanTold(log', v, plans'[v])
  BY <1>1 DEF TellsStatus, TellsCapacity
<1>3. ASSUME NEW k \in Tasks PROVE CreditTold(log', k, tasks'[k], credits'[k])
  <2>1. CreditTold(log', k, tasks[k], credits[k])
    BY <1>1 DEF Completes
  <2> QED
    BY <2>1 DEF CreditTold
<1>4. log' \in Seq(EventRow)
  BY <1>1 DEF Marked
<1> QED
  BY <1>1, <1>2, <1>3, <1>4 DEF LogInv

\* penalty_window.started: the plan is made.
LEMMA StartIsHandled ==
  ASSUME PEP!IInv, PlansInv, LogInv, NEW n, ItsTurn(n), log[n].type = "started",
         OnPenaltyWindowStarted(n)
  PROVE  LogInv'
<1> DEFINE w == log[n].subject
<1>1. log \in Seq(EventRow) /\ n \in DOMAIN log /\ ~log[n].done /\ Ordered(log)
  BY DEF LogInv, ItsTurn
<1>2. w \in Windows
  BY <1>1 DEF LogInv, RowsOf, StatusTypes
<1>3. log' = [log EXCEPT ![n].done = TRUE]
  BY <1>1, NothingWritten DEF OnPenaltyWindowStarted
<1>4. Marked(log, log', n)
  BY <1>1, <1>3, DoneIsMarked
<1>5. plans' = [plans EXCEPT ![w] = [status |-> "active", version |-> 1, capacity |-> log[n].hours]]
  BY DEF OnPenaltyWindowStarted, RP!CreatePlan
<1>6. /\ plans'[w].status = "active" /\ plans'[w].capacity = log[n].hours
      /\ \A v \in Windows \ {w} : plans'[v] = plans[v]
  BY <1>2, <1>5 DEF PlansInv, RP!TypeOK
<1>7. PlanTold(log', w, plans'[w])
  <2>1. Starts(log, n, w)
    BY DEF Starts
  <2> QED
    BY <1>1, <1>4, <1>6, <2>1, PlanStarted
<1>8. UNCHANGED <<clock, windows, lastEvent, credits, tasks>>
  BY DEF OnPenaltyWindowStarted, engine, RP!CreatePlan
<1> QED
  BY <1>2, <1>3, <1>6, <1>7, <1>8, PlanIsHandled

\* penalty_window.frozen, resumed and completed: the plan takes the status.
LEMMA MoveIsHandled ==
  ASSUME PEP!IInv, PlansInv, LogInv, NEW n, ItsTurn(n), log[n].type \in DOMAIN Mirrored,
         OnPenaltyWindowMoved(n)
  PROVE  LogInv'
<1> DEFINE w == log[n].subject
           status == Mirrored[log[n].type]
<1>1. log \in Seq(EventRow) /\ n \in DOMAIN log /\ ~log[n].done /\ Ordered(log)
  BY DEF LogInv, ItsTurn
<1>2. w \in Windows /\ TellsStatus(log, n, w)
  BY <1>1 DEF LogInv, RowsOf, StatusTypes, TellsStatus
<1>3. log' = [log EXCEPT ![n].done = TRUE]
  BY <1>1, NothingWritten DEF OnPenaltyWindowMoved
<1>4. Marked(log, log', n)
  BY <1>1, <1>3, DoneIsMarked
<1>5. plans[w].status # "none"
  <2>1. log[n].type # "started"
    BY DEF Mirrored
  <2>2. WindowTold(log, w, windows[w], lastEvent[w]) /\ PlanTold(log, w, plans[w])
    BY <1>2 DEF LogInv
  <2>3. \A m \in DOMAIN log : Follows(log, m, n) => log[m].done
    BY DEF ItsTurn
  <2> QED
    BY <1>1, <1>2, <2>1, <2>2, <2>3, StartedBefore
<1>6. /\ plans'[w].status = status /\ plans'[w].capacity = plans[w].capacity
      /\ \A v \in Windows \ {w} : plans'[v] = plans[v]
  <2>1. plans \in [Windows -> RP!PlanRow] /\ plans[w] \in RP!PlanRow
    BY <1>2 DEF PlansInv, RP!TypeOK
  <2>2. plans' = [plans EXCEPT ![w] = [plans[w] EXCEPT !.status = status]]
    BY <1>5, <2>1 DEF OnPenaltyWindowMoved, RP!MirrorStatus, RP!HasPlan, RP!PlanRow
  <2> HIDE DEF status
  <2> QED
    BY <1>2, <2>1, <2>2 DEF RP!PlanRow
<1>7. status # "none" /\ log[n].type # "task_completed"
  BY DEF Mirrored
<1>8. PlanTold(log', w, plans'[w])
  <2>1. PlanTold(log, w, plans[w])
    BY <1>2 DEF LogInv
  <2> QED
    BY <1>1, <1>4, <1>5, <1>6, <1>7, <2>1, PlanMoved
<1>9. UNCHANGED <<clock, windows, lastEvent, credits, tasks>>
  BY DEF OnPenaltyWindowMoved, engine, RP!MirrorStatus
<1> QED
  BY <1>2, <1>3, <1>6, <1>7, <1>8, <1>9, PlanIsHandled

\* Regeneration changes version and capacity of one plan.
LEMMA RegeneratedRow ==
  ASSUME PlansInv, NEW w \in Windows, plans[w].status # "none", NEW hours,
         RP!Regenerate(w, hours)
  PROVE  /\ plans'[w].status = plans[w].status /\ plans'[w].capacity = hours
         /\ \A v \in Windows \ {w} : plans'[v] = plans[v]
<1>1. plans \in [Windows -> RP!PlanRow] /\ plans[w] \in RP!PlanRow
  BY DEF PlansInv, RP!TypeOK
<1>2. plans' = [plans EXCEPT ![w].version = @ + 1, ![w].capacity = hours]
  BY DEF RP!Regenerate, RP!HasPlan
<1> QED
  BY <1>1, <1>2 DEF RP!PlanRow

\* penalty_window.target_duration_changed: the plan takes the capacity.
LEMMA TargetIsHandled ==
  ASSUME PEP!IInv, PlansInv, LogInv, NEW n, ItsTurn(n),
         log[n].type = "target_duration_changed", OnTargetDurationChanged(n)
  PROVE  LogInv'
<1> DEFINE w == log[n].subject
<1>1. log \in Seq(EventRow) /\ n \in DOMAIN log /\ ~log[n].done /\ Ordered(log)
  BY DEF LogInv, ItsTurn
<1>2. w \in Windows /\ TellsCapacity(log, n, w)
  BY <1>1 DEF LogInv, RowsOf, CapacityTypes, TellsCapacity
<1>3. log' = [log EXCEPT ![n].done = TRUE]
  BY <1>1, NothingWritten DEF OnTargetDurationChanged
<1>4. Marked(log, log', n)
  BY <1>1, <1>3, DoneIsMarked
<1>5. plans[w].status # "none"
  <2>1. WindowTold(log, w, windows[w], lastEvent[w]) /\ PlanTold(log, w, plans[w])
    BY <1>2 DEF LogInv
  <2>2. \A m \in DOMAIN log : Follows(log, m, n) => log[m].done
    BY DEF ItsTurn
  <2> QED
    BY <1>1, <1>2, <2>1, <2>2, StartedBefore
<1>6. /\ plans'[w].status = plans[w].status /\ plans'[w].capacity = log[n].hours
      /\ \A v \in Windows \ {w} : plans'[v] = plans[v]
  <2>1. RP!Regenerate(w, log[n].hours)
    BY DEF OnTargetDurationChanged
  <2> HIDE DEF w
  <2> QED
    BY <1>2, <1>5, <2>1, RegeneratedRow
<1>7. PlanTold(log', w, plans'[w])
  <2>1. PlanTold(log, w, plans[w])
    BY <1>2 DEF LogInv
  <2> QED
    BY <1>1, <1>4, <1>5, <1>6, <2>1, PlanExtended
<1>8. UNCHANGED <<clock, windows, lastEvent, credits>>
  BY DEF OnTargetDurationChanged, engine
<1>9. ASSUME NEW k \in Tasks
      PROVE  /\ tasks'[k].status = "completed" <=> tasks[k].status = "completed"
             /\ tasks'[k].plan = tasks[k].plan
  <2>1. tasks[k] \in RP!TaskRow
    BY DEF PlansInv, RP!TypeOK
  <2>2. \/ tasks'[k] = tasks[k]
        \/ tasks[k].status \in RP!Live /\ tasks'[k] = [tasks[k] EXCEPT !.status = "expired"]
    BY <1>5 DEF OnTargetDurationChanged, RP!Regenerate, RP!HasPlan
  <2> QED
    BY <2>1, <2>2 DEF RP!TaskRow, RP!Live
<1> QED
  BY <1>2, <1>3, <1>6, <1>7, <1>8, <1>9, PlanIsHandled

\* recovery_plan.task_completed: the credit is decided.
LEMMA CompletionIsHandled ==
  ASSUME PEP!IInv, PlansInv, LogInv, NEW n, ItsTurn(n), log[n].type = "task_completed",
         tasks[log[n].subject].plan \in Windows, OnRecoveryPlanTaskCompleted(n)
  PROVE  LogInv'
<1> DEFINE k == log[n].subject
           w == tasks[k].plan
<1>1. log \in Seq(EventRow) /\ n \in DOMAIN log
  BY DEF LogInv, ItsTurn
<1>2. k \in Tasks
  BY <1>1 DEF LogInv, RowsOf
<1>3. log' = [log EXCEPT ![n].done = TRUE]
  BY <1>1, NothingWritten DEF OnRecoveryPlanTaskCompleted
<1>4. /\ Marked(log, log', n) /\ RowsOf(log', clock) /\ Ordered(log')
      /\ \A v \in Windows : WindowTold(log', v, windows[v], lastEvent[v])
      /\ \A v \in Windows : ~TellsStatus(log, n, v) /\ ~TellsCapacity(log, n, v) =>
           PlanTold(log', v, plans[v])
      /\ \A j \in Tasks : ~Completes(log, n, j) => CreditTold(log', j, tasks[j], credits[j])
  BY <1>3, OneIsHandled
<1>5. PE!RecordRecoveryCredit(k, w) /\ UNCHANGED <<plans, tasks>>
  BY DEF OnRecoveryPlanTaskCompleted, plan
<1>6. /\ UNCHANGED <<clock, lastEvent>>
      /\ \E credited : credits' = [credits EXCEPT ![k] = [window |-> w, hours |-> credited]]
      /\ \E earned : windows' = [windows EXCEPT ![w] = [windows[w] EXCEPT !.earned = earned]]
  BY <1>5 DEF PE!RecordRecoveryCredit
<1>7. /\ credits \in [Tasks -> PE!CreditRow] /\ windows \in [Windows -> PE!WindowRow]
      /\ windows[w] \in PE!WindowRow
  BY EngineFacts DEF PE!TypeOK
<1>8. credits'[k].window = w /\ \A j \in Tasks \ {k} : credits'[j] = credits[j]
  BY <1>2, <1>6, <1>7
<1>9. ASSUME NEW v \in Windows PROVE WindowTold(log', v, windows'[v], lastEvent'[v])
  <2>1. windows'[v].status = windows[v].status /\ windows'[v].ext = windows[v].ext
    BY <1>6, <1>7 DEF PE!WindowRow
  <2>2. WindowTold(log', v, windows[v], lastEvent'[v])
    BY <1>4, <1>6
  <2> QED
    BY <2>1, <2>2, WindowRewritten
<1>10. ASSUME NEW v \in Windows PROVE PlanTold(log', v, plans'[v])
  <2>1. ~TellsStatus(log, n, v) /\ ~TellsCapacity(log, n, v)
    BY DEF TellsStatus, TellsCapacity, StatusTypes, CapacityTypes, Mirrored
  <2> QED
    BY <1>4, <1>5, <2>1
<1>11. ASSUME NEW j \in Tasks PROVE CreditTold(log', j, tasks'[j], credits'[j])
  <2>1. CASE j = k
    <3>1. CreditTold(log, k, tasks[k], credits[k]) /\ Completes(log, n, k)
      BY <1>2 DEF LogInv, Completes
    <3>2. credits'[k].window # None
      BY <1>8, EngineConstants
    <3> QED
      BY <1>1, <1>4, <1>5, <1>8, <2>1, <3>1, <3>2, CreditDecided
  <2>2. CASE j # k
    BY <1>4, <1>5, <1>8, <2>2 DEF Completes
  <2> QED
    BY <2>1, <2>2
<1>12. log' \in Seq(EventRow)
  BY <1>4 DEF Marked
<1> QED
  BY <1>4, <1>6, <1>9, <1>10, <1>11, <1>12 DEF LogInv

\* The events of a consumption, one after the other.
LEMMA EventsInARow ==
  ASSUME NEW M \in Seq(EventRow), NEW d \in EventRow, NEW e \in EventRow
  PROVE  /\ M \o (<<>> \o <<>>) = M
         /\ M \o (<<d>> \o <<>>) = Append(M, d)
         /\ M \o (<<>> \o <<e>>) = Append(M, e)
         /\ M \o (<<d>> \o <<e>>) = Append(Append(M, d), e)
<1> HIDE DEF EventRow
<1>1. /\ <<>> \in Seq(EventRow) /\ <<d>> \in Seq(EventRow) /\ <<e>> \in Seq(EventRow)
  OBVIOUS
<1>2. /\ M \o <<d>> = Append(M, d) /\ M \o <<e>> = Append(M, e) /\ Append(M, d) \in Seq(EventRow)
  BY AppendIsConcat, AppendProperties
<1>3. /\ M \o <<>> = M /\ <<>> \o <<>> = <<>> /\ <<d>> \o <<>> = <<d>> /\ <<>> \o <<e>> = <<e>>
  BY <1>1, ConcatEmptySeq
<1>4. M \o (<<d>> \o <<e>>) = (M \o <<d>>) \o <<e>>
  BY <1>1, ConcatAssociative
<1>5. Append(M, d) \o <<e>> = Append(Append(M, d), e)
  BY <1>2, AppendIsConcat
<1> QED
  BY <1>2, <1>3, <1>4, <1>5

\* What _consume_confirmed_incident_in_transaction() makes of the window it finds, or starts.
LEMMA ConsumptionRow ==
  ASSUME PEP!IInv, NEW i \in Incidents, NEW now \in Nat, PE!Consume(i, now)
  PROVE  \E w \in Windows, hours \in Nat :
           /\ consumed'[i] = w /\ windows[w].ext \in Nat
           /\ \A v \in Windows \ {w} : windows'[v] = windows[v] /\ lastEvent'[v] = lastEvent[v]
           /\ windows'[w].status # "none"
           /\ \/ /\ windows[w].status = "none" /\ windows'[w].ext = hours
                 /\ lastEvent'[w] = "started"
              \/ /\ windows[w].status # "none" /\ windows'[w].ext = windows[w].ext + hours
                 /\ lastEvent'[w] = lastEvent[w]
<1> DEFINE started == \A v \in Windows : ~PE!IsOpen(v)
           fresh == [PE!NoWindow EXCEPT !.status = "active", !.created = now, !.since = now]
           Row(w) == IF started THEN fresh ELSE windows[w]
           Capacity(w) == MaxTarget - (BaseHours + Row(w).ext)
           Remaining(w) == IF Capacity(w) > 0 THEN Capacity(w) ELSE 0
           Assigned(w) == PE!Least(Uncapped[i][PE!SameRuleCount(i, w)], Remaining(w))
<1>1. PICK w \in Windows :
        /\ IF started THEN ~PE!Exists(w) ELSE w \in PE!LatestOpen
        /\ windows' = [windows EXCEPT ![w] = [Row(w) EXCEPT !.ext = Row(w).ext + Assigned(w)]]
        /\ consumed' = [consumed EXCEPT ![i] = w]
        /\ lastEvent' = [lastEvent EXCEPT ![w] = IF started THEN "started" ELSE @]
  BY Zenon DEF PE!Consume
<1>2. /\ windows \in [Windows -> PE!WindowRow] /\ consumed \in [Incidents -> Windows \union {None}]
      /\ lastEvent \in [Windows -> {"none", "started", "frozen", "resumed", "completed"}]
  BY EngineFacts DEF PE!TypeOK
<1>3. /\ fresh \in PE!WindowRow /\ fresh.ext = 0 /\ fresh.status = "active"
  BY DEF PE!NoWindow, PE!WindowRow
<1> HIDE DEF fresh
<1>4. Row(w) \in PE!WindowRow /\ Row(w).ext \in Nat /\ windows[w].ext \in Nat
  BY <1>2, <1>3 DEF PE!WindowRow
<1>5. Assigned(w) \in Nat
  <2>1. PE!SameRuleCount(i, w) \in 1..Cardinality(Incidents)
    <3> DEFINE S == {j \in Incidents : Rule[j] = Rule[i] /\ (consumed[j] = w \/ j = i)}
    <3>1. IsFiniteSet(S) /\ Cardinality(S) <= Cardinality(Incidents)
      BY EngineConstants, FS_Subset
    <3>2. Cardinality(S) # 0
      BY <3>1, FS_EmptySet, i \in S
    <3>3. Cardinality(S) \in Nat /\ Cardinality(Incidents) \in Nat
      BY <3>1, EngineConstants, FS_CardinalityType
    <3>4. PE!SameRuleCount(i, w) = Cardinality(S)
      BY DEF PE!SameRuleCount, PE!Cardinality, Cardinality
    <3> QED
      BY <3>1, <3>2, <3>3, <3>4
  <2>2. Uncapped[i][PE!SameRuleCount(i, w)] \in Nat
    BY <2>1, EngineConstants
  <2>3. Remaining(w) \in Nat
    BY <1>4, EngineConstants
  <2> HIDE DEF Remaining
  <2> QED
    BY <2>2, <2>3 DEF PE!Least
<1> DEFINE next == [Row(w) EXCEPT !.ext = Row(w).ext + Assigned(w)]
<1>6. next.ext = Row(w).ext + Assigned(w) /\ next.status = Row(w).status
  <2> HIDE DEF Row, Assigned
  <2> QED
    BY <1>4, <1>5 DEF PE!WindowRow
<1> HIDE DEF next, Assigned
<1>7. /\ windows'[w] = next /\ consumed'[i] = w
      /\ \A v \in Windows \ {w} : windows'[v] = windows[v] /\ lastEvent'[v] = lastEvent[v]
      /\ lastEvent'[w] = IF started THEN "started" ELSE lastEvent[w]
  <2>1. windows' = [windows EXCEPT ![w] = next]
    BY <1>1 DEF next, Assigned
  <2> HIDE DEF started, Row
  <2> QED
    BY <1>1, <1>2, <2>1
<1>8. CASE started
  <2>1. windows[w].status = "none"
    BY <1>1, <1>8 DEF PE!Exists
  <2>2. Row(w) = fresh
    BY <1>8
  <2>3. windows'[w].ext = Assigned(w) /\ windows'[w].status = "active" /\ lastEvent'[w] = "started"
    BY <1>3, <1>5, <1>6, <1>7, <1>8, <2>2
  <2> HIDE DEF Row
  <2> QED
    BY <1>4, <1>5, <1>7, <2>1, <2>3
<1>9. CASE ~started
  <2>1. windows[w].status # "none"
    BY <1>1, <1>9 DEF PE!LatestOpen, PE!IsOpen
  <2>2. Row(w) = windows[w]
    BY <1>9
  <2>3. /\ windows'[w].ext = windows[w].ext + Assigned(w)
        /\ windows'[w].status = windows[w].status /\ lastEvent'[w] = lastEvent[w]
    BY <1>5, <1>6, <1>7, <1>9, <2>2
  <2> HIDE DEF Row
  <2> QED
    BY <1>4, <1>5, <1>7, <2>1, <2>3
<1> QED
  BY <1>8, <1>9

\* What is told of a target at this time comes after what was, and before what will be.
Current(L, at) ==
  /\ \A m \in DOMAIN L : L[m].type \in CapacityTypes => L[m].at <= at
  /\ \A n \in DOMAIN L : L[n].type = "confirmed" /\ ~L[n].done => at <= L[n].at

\* A consumption writes such an event.
LEMMA ConsumptionIsTold ==
  ASSUME NEW L \in Seq(EventRow), RowsOf(L, clock), Ordered(L), NEW at \in Nat, Current(L, at),
         at <= clock,
         NEW e \in EventRow, e.subject \in Windows, e.type \in CapacityTypes, e.at = at,
         e.done = FALSE, e.published = FALSE,
         e.type = "started" => \A m \in DOMAIN L : ~TellsStatus(L, m, e.subject),
         \A v \in Windows : PlanTold(L, v, plans[v]),
         \A k \in Tasks : CreditTold(L, k, tasks[k], credits[k]),
         NEW M, M = Append(L, e)
  PROVE  /\ M \in Seq(EventRow) /\ Grown(L, M, e)
         /\ RowsOf(M, clock) /\ Ordered(M) /\ Current(M, at)
         /\ \A v \in Windows : PlanTold(M, v, plans[v])
         /\ \A k \in Tasks : CreditTold(M, k, tasks[k], credits[k])
<1>1. Grown(L, M, e)
  BY AppendGrows
<1>2. e.type \notin {"confirmed", "task_completed"}
  BY DEF CapacityTypes
<1>3. RowsOf(M, clock)
  BY <1>1, <1>2, RowsGrow
<1>4. Later(L, e)
  <2> SUFFICES ASSUME NEW m \in DOMAIN L, L[m].subject = e.subject,
                      \/ L[m].type \in StatusTypes /\ e.type \in StatusTypes
                      \/ L[m].type \in CapacityTypes /\ e.type \in CapacityTypes
               PROVE  L[m].at <= e.at
    BY <1>2 DEF Later
  <2>1. CASE L[m].type \in StatusTypes /\ e.type \in StatusTypes
    <3>1. e.type = "started"
      BY <2>1 DEF StatusTypes, CapacityTypes, Mirrored
    <3> QED
      BY <2>1, <3>1 DEF TellsStatus
  <2>2. CASE L[m].type \in CapacityTypes
    BY <2>2 DEF Current
  <2> QED
    BY <2>1, <2>2
<1>5. Timely(L, e)
  BY DEF Timely, Current
<1>6. Ordered(M)
  BY <1>1, <1>4, <1>5, OrderGrows
<1>7. Current(M, at)
  BY <1>1, <1>2 DEF Current, Grown
<1>8. ASSUME NEW v \in Windows PROVE PlanTold(M, v, plans[v])
  BY <1>1, PlanTalkedPast
<1>9. ASSUME NEW k \in Tasks PROVE CreditTold(M, k, tasks[k], credits[k])
  BY <1>1, <1>2, CreditTalkedPast
<1> QED
  BY <1>1, <1>3, <1>6, <1>7, <1>8, <1>9 DEF Grown

\* incident.confirmation_changed: a window is started, or extended, and tells.
LEMMA ConfirmationIsHandled ==
  ASSUME PEP!IInv, LogInv, NEW n, ItsTurn(n), log[n].type = "confirmed",
         OnIncidentConfirmationChanged(n)
  PROVE  LogInv'
<1> DEFINE i == log[n].subject
           at == log[n].at
           M == [log EXCEPT ![n].done = TRUE]
<1>1. /\ log \in Seq(EventRow) /\ n \in DOMAIN log /\ log[n] \in EventRow
      /\ Ordered(log) /\ RowsOf(log, clock) /\ ~log[n].done
  BY LogRows DEF LogInv, ItsTurn
<1>2. i \in Incidents /\ at \in Nat /\ at <= clock
  BY <1>1 DEF RowsOf, EventRow
<1>3. PE!Consume(i, at) /\ UNCHANGED <<clock, credits, plans, tasks>>
  BY DEF OnIncidentConfirmationChanged, plan
<1>4. PICK w \in Windows, hours \in Nat :
           /\ consumed'[i] = w /\ windows[w].ext \in Nat
           /\ \A v \in Windows \ {w} : windows'[v] = windows[v] /\ lastEvent'[v] = lastEvent[v]
           /\ windows'[w].status # "none"
           /\ \/ /\ windows[w].status = "none" /\ windows'[w].ext = hours
                 /\ lastEvent'[w] = "started"
              \/ /\ windows[w].status # "none" /\ windows'[w].ext = windows[w].ext + hours
                 /\ lastEvent'[w] = lastEvent[w]
  BY <1>2, <1>3, ConsumptionRow
<1> DEFINE d == Event("started", w, BaseHours, at)
           target == BaseHours + windows'[w].ext
           e == Event("target_duration_changed", w, target, at)
<1>5. BaseHours \in Nat /\ target \in Nat
  BY <1>4, EngineConstants
<1>6. /\ d \in EventRow /\ d.subject = w /\ d.type = "started" /\ d.at = at
      /\ d.hours = BaseHours /\ d.done = FALSE /\ d.published = FALSE
  BY <1>2, <1>5 DEF Event, EventRow
<1>7. /\ e \in EventRow /\ e.subject = w /\ e.type = "target_duration_changed" /\ e.at = at
      /\ e.hours = target /\ e.done = FALSE /\ e.published = FALSE
  <2> HIDE DEF target
  <2> QED
    BY <1>2, <1>5 DEF Event, EventRow
<1>8. /\ Marked(log, M, n) /\ RowsOf(M, clock) /\ Ordered(M)
      /\ \A v \in Windows : WindowTold(M, v, windows[v], lastEvent[v])
      /\ \A v \in Windows : ~TellsStatus(log, n, v) /\ ~TellsCapacity(log, n, v) =>
           PlanTold(M, v, plans[v])
      /\ \A k \in Tasks : ~Completes(log, n, k) => CreditTold(M, k, tasks[k], credits[k])
  <2> HIDE DEF M
  <2> QED
    BY OneIsHandled DEF M
<1>9. M \in Seq(EventRow)
  BY <1>8 DEF Marked
<1>10. /\ \A v \in Windows : PlanTold(M, v, plans[v])
       /\ \A k \in Tasks : CreditTold(M, k, tasks[k], credits[k])
  BY <1>8 DEF TellsStatus, TellsCapacity, StatusTypes, CapacityTypes, Mirrored, Completes
<1>11. log' = M \o ((IF windows[w].status = "none" THEN <<d>> ELSE <<>>)
                     \o (IF hours > 0 THEN <<e>> ELSE <<>>))
  <2>1. log' = M \o ConsumptionEvents(w, at)
    BY <1>4 DEF OnIncidentConfirmationChanged, Handled
  <2>2. windows'[w].ext > (IF windows[w].status = "none" THEN 0 ELSE windows[w].ext) <=> hours > 0
    BY <1>4
  <2> QED
    BY <2>1, <2>2 DEF ConsumptionEvents, PE!Exists
<1> HIDE DEF d, e, M, target
<1>12. Current(M, at)
  <2>1. ASSUME NEW m \in DOMAIN log, log[m].type \in CapacityTypes PROVE log[m].at <= at
    BY <1>1, <2>1 DEF Ordered
  <2>2. ASSUME NEW m \in DOMAIN log, m # n, log[m].type = "confirmed", ~log[m].done
        PROVE  at <= log[m].at
    <3>1. m \in Nat /\ n \in Nat
      BY <1>1, LogRows
    <3>2. CASE m < n
      BY <2>2, <3>2 DEF Follows, ItsTurn
    <3>3. CASE n < m
      BY <1>1, <2>2, <3>3 DEF Follows, Ordered
    <3> QED
      BY <2>2, <3>1, <3>2, <3>3
  <2> QED
    BY <1>8, <2>1, <2>2 DEF Marked, Current
<1>13. ASSUME NEW L, L \in Seq(EventRow), RowsOf(L, clock), Ordered(L), log' = L,
              \A v \in Windows : PlanTold(L, v, plans[v]),
              \A k \in Tasks : CreditTold(L, k, tasks[k], credits[k]),
              \A v \in Windows : WindowTold(L, v, windows'[v], lastEvent'[v])
       PROVE  LogInv'
  BY <1>3, <1>13 DEF LogInv
<1>14. WindowTold(M, w, windows[w], lastEvent[w])
  BY <1>8
<1>15. CASE windows[w].status = "none"
  <2> DEFINE N == Append(M, d)
             row == [status |-> "active", ext |-> 0]
  <2>1. \A m \in DOMAIN M : ~TellsStatus(M, m, d.subject)
    BY <1>6, <1>14, <1>15 DEF WindowTold
  <2>2. /\ N \in Seq(EventRow) /\ Grown(M, N, d)
        /\ RowsOf(N, clock) /\ Ordered(N) /\ Current(N, at)
        /\ \A v \in Windows : PlanTold(N, v, plans[v])
        /\ \A k \in Tasks : CreditTold(N, k, tasks[k], credits[k])
    <3> HIDE DEF N
    <3>1. d.type \in CapacityTypes
      BY <1>6 DEF CapacityTypes
    <3> QED
      BY <1>2, <1>6, <1>8, <1>9, <1>10, <1>12, <2>1, <3>1, ConsumptionIsTold DEF N
  <2> HIDE DEF N
  <2>3. row.status # "none" /\ row.ext = 0
    OBVIOUS
  <2> HIDE DEF row
  <2>4. WindowTold(N, w, row, "started")
    BY <1>6, <1>9, <1>14, <1>15, <2>2, <2>3, WindowStarted
  <2>5. \A v \in Windows \ {w} : WindowTold(N, v, windows'[v], lastEvent'[v])
    <3> TAKE v \in Windows \ {w}
    <3>1. WindowTold(M, v, windows[v], lastEvent[v]) /\ d.subject # v
      BY <1>6, <1>8
    <3>2. WindowTold(N, v, windows[v], lastEvent[v])
      BY <1>6, <1>9, <2>2, <3>1, WindowTalkedPast
    <3> QED
      BY <1>4, <3>2
  <2>6. CASE hours = 0
    <3>1. log' = N
      BY <1>6, <1>9, <1>11, <1>7, <1>15, <2>6, EventsInARow DEF N
    <3>2. WindowTold(N, w, windows'[w], "started")
      BY <1>4, <1>15, <2>3, <2>4, <2>6, WindowStarted, <1>6, <1>9, <1>14, <2>2
    <3>3. lastEvent'[w] = "started"
      BY <1>4, <1>15
    <3> QED
      BY <1>13, <2>2, <2>5, <3>1, <3>2, <3>3
  <2>7. CASE hours > 0
    <3> DEFINE O == Append(N, e)
    <3>1. log' = O
      BY <1>6, <1>9, <1>11, <1>7, <1>15, <2>7, EventsInARow DEF N
    <3>2. /\ O \in Seq(EventRow) /\ Grown(N, O, e)
          /\ RowsOf(O, clock) /\ Ordered(O) /\ Current(O, at)
          /\ \A v \in Windows : PlanTold(O, v, plans[v])
          /\ \A k \in Tasks : CreditTold(O, k, tasks[k], credits[k])
      <4> HIDE DEF O
      <4>1. e.type \in CapacityTypes /\ e.type # "started"
        BY <1>7 DEF CapacityTypes
      <4> QED
        BY <1>2, <1>7, <2>2, <4>1, ConsumptionIsTold DEF O
    <3> HIDE DEF O
    <3>3. WindowTold(O, w, windows'[w], "started")
      <4>1. windows'[w].status # "none" /\ e.hours = BaseHours + windows'[w].ext
        BY <1>4, <1>7 DEF target
      <4> QED
        BY <1>7, <2>2, <2>3, <2>4, <3>2, <4>1, WindowExtended
    <3>4. lastEvent'[w] = "started"
      BY <1>4, <1>15
    <3>5. ASSUME NEW v \in Windows \ {w} PROVE WindowTold(O, v, windows'[v], lastEvent'[v])
      <4>1. WindowTold(N, v, windows'[v], lastEvent'[v]) /\ e.subject # v
        BY <1>7, <2>5
      <4> QED
        BY <1>7, <2>2, <3>2, <4>1, WindowTalkedPast
    <3> QED
      BY <1>13, <3>1, <3>2, <3>3, <3>4, <3>5
  <2> QED
    BY <2>6, <2>7
<1>16. CASE windows[w].status # "none"
  <2>1. windows'[w].ext = windows[w].ext + hours /\ lastEvent'[w] = lastEvent[w]
    BY <1>4, <1>16
  <2>2. CASE hours = 0
    <3>1. log' = M
      BY <1>6, <1>9, <1>11, <1>7, <1>16, <2>2, EventsInARow
    <3>2. WindowTold(M, w, windows'[w], lastEvent'[w])
      <4>1. windows'[w].ext = windows[w].ext
        BY <1>4, <2>1, <2>2
      <4> QED
        BY <1>4, <1>14, <1>16, <2>1, <4>1 DEF WindowTold
    <3>3. \A v \in Windows : WindowTold(M, v, windows'[v], lastEvent'[v])
      BY <1>4, <1>8, <3>2
    <3> QED
      BY <1>8, <1>9, <1>10, <1>13, <3>1, <3>3
  <2>3. CASE hours > 0
    <3> DEFINE O == Append(M, e)
    <3>1. log' = O
      BY <1>6, <1>9, <1>11, <1>7, <1>16, <2>3, EventsInARow
    <3>2. /\ O \in Seq(EventRow) /\ Grown(M, O, e)
          /\ RowsOf(O, clock) /\ Ordered(O) /\ Current(O, at)
          /\ \A v \in Windows : PlanTold(O, v, plans[v])
          /\ \A k \in Tasks : CreditTold(O, k, tasks[k], credits[k])
      <4> HIDE DEF O
      <4>1. e.type \in CapacityTypes /\ e.type # "started"
        BY <1>7 DEF CapacityTypes
      <4> QED
        BY <1>2, <1>7, <1>8, <1>9, <1>10, <1>12, <4>1, ConsumptionIsTold DEF O
    <3> HIDE DEF O
    <3>3. WindowTold(O, w, windows'[w], lastEvent[w])
      <4>1. windows'[w].status # "none" /\ e.hours = BaseHours + windows'[w].ext
        BY <1>4, <1>7 DEF target
      <4> QED
        BY <1>7, <1>9, <1>14, <1>16, <3>2, <4>1, WindowExtended
    <3>4. ASSUME NEW v \in Windows \ {w} PROVE WindowTold(O, v, windows'[v], lastEvent'[v])
      <4>1. WindowTold(M, v, windows[v], lastEvent[v]) /\ e.subject # v
        BY <1>7, <1>8
      <4>2. WindowTold(O, v, windows[v], lastEvent[v])
        BY <1>7, <1>9, <3>2, <4>1, WindowTalkedPast
      <4> QED
        BY <1>4, <4>2
    <3> QED
      BY <1>13, <2>1, <3>1, <3>2, <3>3, <3>4
  <2> QED
    BY <2>2, <2>3
<1> QED
  BY <1>15, <1>16
----------------------------------------------------------------------------
(* The tasks of the system *)

\* A task that was ever proposed belongs to a window.
TasksHavePlans == \A k \in Tasks : tasks[k].status # "none" => tasks[k].plan \in Windows

\* A proposal names it, and nothing that follows changes it.
LEMMA TasksKeepTheirPlans == PlansInv /\ TasksHavePlans /\ [RP!Next]_RP!vars => TasksHavePlans'
<1> SUFFICES ASSUME PlansInv, TasksHavePlans, [RP!Next]_RP!vars PROVE TasksHavePlans'
  OBVIOUS
<1>1. tasks \in [Tasks -> RP!TaskRow]
  BY DEF PlansInv, RP!TypeOK
<1>2. ASSUME NEW w \in Windows, NEW hours \in Nat, RP!CreatePlan(w, hours) PROVE TasksHavePlans'
  BY <1>2 DEF RP!CreatePlan, TasksHavePlans
<1>3. ASSUME NEW w \in Windows, NEW hours \in Nat, RP!Regenerate(w, hours) PROVE TasksHavePlans'
  <2>1. CASE tasks' = tasks
    BY <2>1 DEF TasksHavePlans
  <2>2. CASE tasks' # tasks
    <3>1. \A k \in Tasks : \/ tasks'[k] = tasks[k]
                           \/ tasks[k].plan = w /\ tasks'[k] = [tasks[k] EXCEPT !.status = "expired"]
      <4>1. tasks' = [k \in Tasks |->
                       IF /\ tasks[k].plan = w /\ tasks[k].status \in RP!Live
                          /\ tasks[k].version = plans[w].version
                         THEN [tasks[k] EXCEPT !.status = "expired"]
                         ELSE tasks[k]]
        BY <1>3, <2>2 DEF RP!Regenerate
      <4> QED
        BY <4>1
    <3>2. \A k \in Tasks : \/ tasks'[k] = tasks[k]
                           \/ tasks'[k].plan = w
      <4>1. \A k \in Tasks : [tasks[k] EXCEPT !.status = "expired"].plan = tasks[k].plan
        BY <1>1 DEF RP!TaskRow
      <4> QED
        BY <3>1, <4>1, Zenon
    <3>3. \A k \in Tasks : tasks[k].status # "none" => tasks[k].plan \in Windows
      BY DEF TasksHavePlans
    <3>4. ASSUME NEW k \in Tasks, tasks'[k].status # "none" PROVE tasks'[k].plan \in Windows
      <4>1. tasks'[k] = tasks[k] => tasks'[k].plan \in Windows
        BY <3>3, <3>4
      <4> QED
        BY <3>2, <4>1
    <3> QED
      BY <3>4 DEF TasksHavePlans
  <2> QED
    BY <2>1, <2>2
<1>4. ASSUME NEW w \in Windows, NEW status, RP!MirrorStatus(w, status) PROVE TasksHavePlans'
  BY <1>4 DEF RP!MirrorStatus, TasksHavePlans
<1>5. ASSUME NEW k \in Tasks, NEW w \in Windows, RP!ProposeTask(k, w) PROVE TasksHavePlans'
  BY <1>1, <1>5 DEF RP!ProposeTask, TasksHavePlans
<1>6. ASSUME NEW k \in Tasks, NEW to, RP!MoveTask(k, RP!Live, to) PROVE TasksHavePlans'
  BY <1>1, <1>6 DEF RP!MoveTask, RP!Live, TasksHavePlans, RP!TaskRow
<1>7. CASE UNCHANGED RP!vars
  BY <1>7 DEF RP!vars, TasksHavePlans
<1> QED
  BY <1>2, <1>3, <1>4, <1>5, <1>6, <1>7, TaskMoves DEF RP!Next

----------------------------------------------------------------------------
(* The startups *)

ProcessState ==
  [pc: {"idle", "recovering", "ensuring", "claiming", "dispatching", "releasing"},
   now: Nat, batch: SUBSET Nat, left: SUBSET Nat]

\* A startup in progress has the lease, and is done before it runs out.
LeaseInv ==
  /\ lease \in [holder: Processes \union {None}, expires: Nat]
  /\ processes \in [Processes -> ProcessState]
  /\ \A p \in Processes : processes[p].pc # "idle" =>
       /\ lease.holder = p /\ lease.expires = processes[p].now + StartupLease
       /\ processes[p].now <= clock /\ clock < lease.expires

\* An operation's time is that of its startup, or the clock's.  While a startup settles
\* the windows its time is the latest: no event it writes comes before one that is there.
OperationInv ==
  /\ \A p \in Processes : threads[p] # PE!Idle =>
       processes[p].pc = "ensuring" /\ threads[p].now = processes[p].now
  /\ \A t \in Threads \ Processes : threads[t] # PE!Idle => threads[t].now = clock
  /\ \A p \in Processes : processes[p].pc \in {"recovering", "ensuring"} =>
       /\ \A t \in Threads : threads[t] # PE!Idle => threads[t].now <= processes[p].now
       /\ \A n \in DOMAIN log : log[n].type \in StatusTypes => log[n].at <= processes[p].now

\* What startups have claimed of the log L, when the lease is held so, they are at procs and
\* the time is now.  A claim of what is yet to be handled that is left behind has run out, or
\* ends with the lease.  A batch is handled in order, and with an event that it has yet to
\* handle it has all that go before.
Claims(L, held, procs, time) ==
  /\ \A n \in DOMAIN L : ~L[n].done /\ L[n].claim # None =>
       /\ L[n].claim <= time \/ (held.holder # None /\ L[n].claim <= held.expires)
       /\ \A p \in Processes :
            procs[p].pc # "idle" => L[n].claim <= procs[p].now \/ n \in procs[p].batch
  /\ \A p \in Processes :
       /\ procs[p].batch \subseteq DOMAIN L
       /\ procs[p].pc # "dispatching" => procs[p].batch = {}
       /\ procs[p].left \subseteq procs[p].batch
       /\ \A n \in procs[p].batch \ procs[p].left : L[n].done
       /\ \A m \in DOMAIN L, n \in procs[p].left :
            Follows(L, m, n) /\ ~L[m].done => m \in procs[p].left

\* The lease is held by one: OneStartupAtATime is what LeaseInv says of two.
LEMMA OneHolder ==
  ASSUME LeaseInv, NEW p \in Processes, NEW q \in Processes, processes[p].pc # "idle", q # p
  PROVE  processes[q].pc = "idle"
BY DEF LeaseInv

\* A startup keeps its time and its lease to the end.
LEMMA LeaseStands ==
  ASSUME LeaseInv, lease' = lease, clock' = clock, processes' \in [Processes -> ProcessState],
         \A p \in Processes : processes'[p].pc # "idle" =>
           processes[p].pc # "idle" /\ processes'[p].now = processes[p].now
  PROVE  LeaseInv'
BY DEF LeaseInv

\* One startup moves on.
LEMMA StartupMoves ==
  ASSUME LeaseInv, NEW p \in Processes, processes[p].pc # "idle", NEW s \in ProcessState,
         processes' = [processes EXCEPT ![p] = s], s.now = processes[p].now \/ s.pc = "idle",
         lease' = lease, clock' = clock
  PROVE  LeaseInv' /\ processes'[p] = s /\ \A q \in Processes \ {p} : processes'[q] = processes[q]
<1>1. processes \in [Processes -> ProcessState]
  BY DEF LeaseInv
<1>2. /\ processes' \in [Processes -> ProcessState] /\ processes'[p] = s
      /\ \A q \in Processes \ {p} : processes'[q] = processes[q]
  BY <1>1
<1>3. LeaseInv'
  BY <1>2, LeaseStands
<1> QED
  BY <1>2, <1>3

\* A new event is not claimed, and goes before none that is.
LEMMA ClaimsGrow ==
  ASSUME NEW L \in Seq(EventRow), NEW M, NEW e \in EventRow, Grown(L, M, e), e.claim = None,
         NEW held, NEW procs, NEW time, Claims(L, held, procs, time)
  PROVE  Claims(M, held, procs, time)
<1> DEFINE new == Len(L) + 1
<1>1. /\ DOMAIN M = DOMAIN L \union {new} /\ new \in Nat /\ new \notin DOMAIN L
      /\ \A n \in DOMAIN L : n \in Nat /\ n < new /\ M[n] = L[n]
      /\ M[new] = e
  BY DEF Grown
<1> HIDE DEF new
<1>2. ASSUME NEW p \in Processes, NEW m \in DOMAIN M, NEW n \in procs[p].left,
             Follows(M, m, n), ~M[m].done
      PROVE  m \in procs[p].left
  <2>1. n \in DOMAIN L
    BY DEF Claims
  <2>2. m \in DOMAIN L
    BY <1>1, <1>2, <2>1 DEF Follows
  <2>3. Follows(L, m, n) /\ ~L[m].done
    BY <1>1, <1>2, <2>1, <2>2 DEF Follows
  <2> QED
    BY <2>2, <2>3 DEF Claims
<1> QED
  BY <1>1, <1>2 DEF Claims

\* Startups that begin, die or go on to another stage without a batch keep the claims.
LEMMA ClaimsStand ==
  ASSUME NEW L, NEW held, NEW procs, NEW time, NEW next, Claims(L, held, procs, time),
         \A p \in Processes :
           \/ next[p] = procs[p]
           \/ next[p] = Idle
           \/ /\ procs[p].pc \notin {"idle", "dispatching"}
              /\ next[p].pc \notin {"dispatching", "releasing"}
              /\ next[p].now = procs[p].now
              /\ next[p].batch = procs[p].batch /\ next[p].left = procs[p].left
  PROVE  Claims(L, held, next, time)
BY DEF Claims, Idle

\* An event of the batch is handled, or was before.
LEMMA ClaimsHandled ==
  ASSUME NEW L \in Seq(EventRow), NEW M, NEW p \in Processes, NEW held, NEW procs, NEW time, NEW next,
         Claims(L, held, procs, time), procs[p].pc = "dispatching", NEW n \in procs[p].left,
         next[p].pc = "dispatching", next[p].now = procs[p].now, next[p].batch = procs[p].batch,
         next[p].left = procs[p].left \ {n},
         \A q \in Processes \ {p} : next[q] = procs[q] /\ procs[q].pc = "idle",
         Marked(L, M, n),
         \A m \in DOMAIN L : M[m].claim = L[m].claim /\ M[m].published = L[m].published
  PROVE  Claims(M, held, next, time)
<1>1. /\ DOMAIN M = DOMAIN L
      /\ \A m \in DOMAIN L : /\ M[m].type = L[m].type /\ M[m].subject = L[m].subject
                             /\ M[m].done = (L[m].done \/ m = n)
                             /\ M[m].claim = L[m].claim /\ M[m].published = L[m].published
  BY DEF Marked
<1>2. \A m, k : Follows(M, m, k) /\ m \in DOMAIN L /\ k \in DOMAIN L => Follows(L, m, k)
  BY <1>1 DEF Follows
<1>3. ASSUME NEW k \in DOMAIN M, ~M[k].done, M[k].claim # None
      PROVE  /\ M[k].claim <= time \/ (held.holder # None /\ M[k].claim <= held.expires)
             /\ \A q \in Processes :
                  next[q].pc # "idle" => M[k].claim <= next[q].now \/ k \in next[q].batch
  <2>1. k \in DOMAIN L /\ ~L[k].done /\ L[k].claim # None /\ M[k].claim = L[k].claim
    BY <1>1, <1>3
  <2>2. /\ M[k].claim <= time \/ (held.holder # None /\ M[k].claim <= held.expires)
        /\ \A q \in Processes :
             procs[q].pc # "idle" => M[k].claim <= procs[q].now \/ k \in procs[q].batch
    BY <2>1 DEF Claims
  <2> QED
    BY <2>2
<1>4. ASSUME NEW q \in Processes
      PROVE  /\ next[q].batch \subseteq DOMAIN M
             /\ next[q].pc # "dispatching" => next[q].batch = {}
             /\ next[q].left \subseteq next[q].batch
             /\ \A k \in next[q].batch \ next[q].left : M[k].done
             /\ \A m \in DOMAIN M, k \in next[q].left :
                  Follows(M, m, k) /\ ~M[m].done => m \in next[q].left
  <2>1. /\ procs[q].batch \subseteq DOMAIN L /\ procs[q].left \subseteq procs[q].batch
        /\ \A k \in procs[q].batch \ procs[q].left : L[k].done
        /\ procs[q].pc # "dispatching" => procs[q].batch = {}
        /\ \A m \in DOMAIN L, k \in procs[q].left :
             Follows(L, m, k) /\ ~L[m].done => m \in procs[q].left
    BY DEF Claims
  <2>2. CASE q = p
    BY <1>1, <1>2, <2>1, <2>2
  <2>3. CASE q # p
    BY <1>1, <1>2, <2>1, <2>3
  <2> QED
    BY <2>2, <2>3
<1> QED
  BY <1>3, <1>4 DEF Claims
\* Rows are rewritten without what was handled being changed.
LEMMA RowsRewritten ==
  ASSUME NEW L \in Seq(EventRow), NEW M, M = [n \in DOMAIN L |-> M[n]],
         \A n \in DOMAIN L : /\ M[n] \in EventRow
                             /\ M[n].type = L[n].type /\ M[n].subject = L[n].subject
                             /\ M[n].hours = L[n].hours /\ M[n].at = L[n].at
                             /\ M[n].done = L[n].done
  PROVE  Marked(L, M, 0)
<1>1. DOMAIN L = 1..Len(L) /\ Len(L) \in Nat /\ \A n \in DOMAIN L : n \in Nat /\ L[n] \in EventRow
  BY LogRows
<1>2. M \in [1..Len(L) -> EventRow]
  BY <1>1
<1>3. M \in Seq(EventRow)
  <2> HIDE DEF EventRow
  <2> QED
    BY <1>1, <1>2, SeqDef
<1>4. \A n \in DOMAIN L : M[n].done = (L[n].done \/ n = 0)
  BY <1>1 DEF EventRow
<1>5. DOMAIN M = DOMAIN L
  BY <1>1, <1>2
<1> QED
  BY <1>3, <1>4, <1>5 DEF Marked

\* What a startup that reads now may claim, oldest first.
ClaimedBatch(now) ==
  {n \in Claimable(now) :
     Cardinality({m \in Claimable(now) : Before(m, n)}) < BatchSize}

\* The batch has all that goes before an event of it and was not handled.
LEMMA BatchIsClosed ==
  ASSUME LogInv, NEW now \in Nat, NEW n \in ClaimedBatch(now), NEW m \in Claimable(now),
         Follows(log, m, n)
  PROVE  m \in ClaimedBatch(now)
<1> DEFINE rows == Claimable(now)
           Earlier(k) == {j \in rows : Before(j, k)}
<1>1. /\ log \in Seq(EventRow) /\ DOMAIN log = 1..Len(log) /\ Len(log) \in Nat
      /\ \A k \in DOMAIN log : k \in Nat /\ log[k] \in EventRow /\ log[k].at \in Nat
  BY LogRows DEF LogInv, EventRow
<1>2. rows \subseteq DOMAIN log
  BY DEF Claimable
<1>3. IsFiniteSet(Earlier(n))
  <2>1. IsFiniteSet(DOMAIN log)
    BY <1>1, FS_Interval
  <2> QED
    BY <1>2, <2>1, FS_Subset
<1>4. n \in DOMAIN log /\ m \in DOMAIN log
  BY <1>2 DEF ClaimedBatch
<1>5. log[m].at <= log[n].at /\ m < n
  BY <1>4 DEF LogInv, Ordered, Follows
<1>6. Earlier(m) \subseteq Earlier(n)
  <2> SUFFICES ASSUME NEW j \in rows, Before(j, m) PROVE Before(j, n)
    OBVIOUS
  <2>1. /\ log[j].at \in Nat /\ log[m].at \in Nat /\ log[n].at \in Nat
        /\ j \in Nat /\ m \in Nat /\ n \in Nat
    BY <1>1, <1>2, <1>4
  <2> QED
    BY <1>5, <2>1 DEF Before
<1>7. Cardinality(Earlier(m)) <= Cardinality(Earlier(n))
  BY <1>3, <1>6, FS_Subset
<1>8. IsFiniteSet(Earlier(m))
  BY <1>3, <1>6, FS_Subset
<1>9. Cardinality(Earlier(m)) \in Nat /\ Cardinality(Earlier(n)) \in Nat
  BY <1>3, <1>8, FS_CardinalityType
<1>10. Cardinality(Earlier(n)) < BatchSize
  BY DEF ClaimedBatch
<1>11. Cardinality(Earlier(m)) < BatchSize
  BY <1>7, <1>9, <1>10, NumbersType
<1> QED
  BY <1>11 DEF ClaimedBatch

\* claim_pending_events(): between two rounds nothing that is to be published is withheld.
LEMMA ClaimStep ==
  ASSUME LogInv, LeaseInv, Claims(log, lease, processes, clock), NEW p \in Processes, Claim(p)
  PROVE  LogInv' /\ LeaseInv' /\ Claims(log', lease', processes', clock')
<1> DEFINE now == processes[p].now
           batch == ClaimedBatch(now)
           next == IF Claimable(now) = {} THEN "releasing" ELSE "dispatching"
           s == [pc |-> next, now |-> now, batch |-> batch, left |-> batch]
<1>1. /\ log \in Seq(EventRow) /\ RowsOf(log, clock)
      /\ \A n \in DOMAIN log : n \in Nat /\ log[n] \in EventRow
      /\ \A n \in DOMAIN log : log[n].claim \in Nat \union {None} /\ log[n].published \in BOOLEAN
  BY LogRows DEF LogInv, EventRow
<1>2. /\ processes[p] \in ProcessState /\ processes[p].pc = "claiming" /\ now \in Nat
      /\ processes[p].batch = {}
  BY DEF LeaseInv, Claim, ProcessState, Claims
<1>3. lease.holder = p /\ lease.expires = now + StartupLease
  BY <1>2 DEF LeaseInv
<1>4. batch \subseteq Claimable(now) /\ Claimable(now) \subseteq DOMAIN log
  BY DEF ClaimedBatch, Claimable
<1>5. s \in ProcessState
  BY <1>1, <1>2, <1>4 DEF ProcessState
<1>6. /\ log' = [n \in DOMAIN log |->
                   IF n \in batch THEN [log[n] EXCEPT !.claim = now + ClaimLease] ELSE log[n]]
      /\ processes' = [processes EXCEPT ![p].pc = next, ![p].batch = batch, ![p].left = batch]
      /\ UNCHANGED <<engine, plan, lease>>
  BY DEF Claim, ClaimedBatch
<1>7. processes' = [processes EXCEPT ![p] = s]
  <2> HIDE DEF batch, next
  <2>1. [processes[p] EXCEPT !.pc = next, !.batch = batch, !.left = batch] = s
    <3>1. /\ DOMAIN processes[p] = {"pc", "now", "batch", "left"}
          /\ DOMAIN s = {"pc", "now", "batch", "left"}
      BY <1>2 DEF ProcessState
    <3>2. s = [k \in {"pc", "now", "batch", "left"} |-> s[k]]
      OBVIOUS
    <3>3. s.pc = next /\ s.now = processes[p].now /\ s.batch = batch /\ s.left = batch
      OBVIOUS
    <3> HIDE DEF s
    <3> QED
      BY <3>1, <3>2, <3>3
  <2>2. processes' = [processes EXCEPT ![p] =
                        [processes[p] EXCEPT !.pc = next, !.batch = batch, !.left = batch]]
    BY <1>2, <1>6 DEF LeaseInv
  <2> QED
    BY <2>1, <2>2
<1>8. s.pc = next /\ s.now = now /\ s.batch = batch /\ s.left = batch
  OBVIOUS
<1> HIDE DEF batch, s
<1>9. \A n \in DOMAIN log :
        /\ log'[n] \in EventRow
        /\ log'[n].type = log[n].type /\ log'[n].subject = log[n].subject
        /\ log'[n].hours = log[n].hours /\ log'[n].at = log[n].at
        /\ log'[n].done = log[n].done /\ log'[n].published = log[n].published
        /\ log'[n].claim = IF n \in batch THEN now + ClaimLease ELSE log[n].claim
  <2> TAKE n \in DOMAIN log
  <2>1. log[n] \in EventRow /\ now + ClaimLease \in Nat
    BY <1>1, <1>2, NumbersType
  <2>2. log'[n] = IF n \in batch THEN [log[n] EXCEPT !.claim = now + ClaimLease] ELSE log[n]
    BY <1>6
  <2> HIDE DEF now
  <2> QED
    BY <2>1, <2>2 DEF EventRow
<1>10. Marked(log, log', 0)
  <2>1. log' = [n \in DOMAIN log |-> log'[n]]
    BY <1>6
  <2> QED
    BY <1>1, <1>9, <2>1, RowsRewritten
<1>11. LogInv'
  BY <1>6, <1>9, <1>10, LogIsMarked DEF engine, plan
<1>12. /\ LeaseInv' /\ processes'[p] = s /\ \A q \in Processes \ {p} : processes'[q] = processes[q]
  BY <1>2, <1>5, <1>6, <1>7, <1>8, StartupMoves DEF engine
<1>13. \A q \in Processes \ {p} : processes[q].pc = "idle"
  BY <1>2, OneHolder
<1>14. DOMAIN log' = DOMAIN log
  BY <1>10 DEF Marked
<1>15. ASSUME NEW n \in DOMAIN log, ~log[n].done
       PROVE  n \in Claimable(now)
  <2>1. log[n].claim # None => log[n].claim <= now
    BY <1>2, <1>15 DEF Claims
  <2>2. ~log[n].published
    BY <1>1, <1>15 DEF RowsOf
  <2> QED
    BY <2>1, <2>2 DEF Claimable
<1>16. ASSUME NEW n \in DOMAIN log', ~log'[n].done, log'[n].claim # None
       PROVE  /\ lease.holder # None /\ log'[n].claim <= lease.expires
              /\ \A q \in Processes :
                   processes'[q].pc # "idle" =>
                     log'[n].claim <= processes'[q].now \/ n \in processes'[q].batch
  <2>1. n \in Claimable(now) /\ n \in DOMAIN log
    BY <1>9, <1>14, <1>15, <1>16
  <2>3. lease.holder # None
    BY <1>3, ProcessesAreThreads
  <2>4. n \notin batch => log'[n].claim <= now
    BY <1>2, <1>9, <1>16, <2>1 DEF Claims
  <2>5. log'[n].claim <= lease.expires
    <3>1. log'[n].claim \in Nat
      BY <1>9, <1>16, <2>1 DEF EventRow
    <3> QED
      BY <1>2, <1>3, <1>9, <2>1, <2>4, <3>1, NumbersType, ClaimsEndWithTheLease
  <2> QED
    BY <1>8, <1>12, <1>13, <2>3, <2>4, <2>5
<1>17. ASSUME NEW m \in DOMAIN log, NEW n \in batch, Follows(log', m, n), ~log[m].done
       PROVE  m \in batch
  <2>1. Follows(log, m, n) /\ n \in DOMAIN log
    BY <1>4, <1>9, <1>17 DEF Follows
  <2>2. m \in Claimable(now)
    BY <1>15, <1>17
  <2> QED
    BY <1>2, <2>1, <2>2, BatchIsClosed DEF batch
<1>18. ASSUME NEW q \in Processes
       PROVE  /\ processes'[q].batch \subseteq DOMAIN log'
              /\ processes'[q].pc # "dispatching" => processes'[q].batch = {}
              /\ processes'[q].left \subseteq processes'[q].batch
              /\ \A n \in processes'[q].batch \ processes'[q].left : log'[n].done
              /\ \A m \in DOMAIN log', n \in processes'[q].left :
                   Follows(log', m, n) /\ ~log'[m].done => m \in processes'[q].left
  <2>1. CASE q = p
    <3>1. next # "dispatching" => batch = {}
      BY <1>4
    <3> QED
      BY <1>4, <1>8, <1>9, <1>12, <1>14, <1>17, <2>1, <3>1
  <2>2. CASE q # p
    <3>1. processes'[q].batch = {} /\ processes'[q].left = {}
      BY <1>12, <1>13, <2>2 DEF Claims
    <3> QED
      BY <3>1
  <2> QED
    BY <2>1, <2>2
<1>19. lease' = lease /\ clock' = clock
  BY <1>6 DEF engine
<1>20. Claims(log', lease', processes', clock')
  BY <1>16, <1>18, <1>19 DEF Claims
<1> QED
  BY <1>11, <1>12, <1>20
\* mark_published(): all of the batch was handled, and it is given up.
LEMMA MarkStep ==
  ASSUME LogInv, LeaseInv, Claims(log, lease, processes, clock), NEW p \in Processes, MarkPublished(p)
  PROVE  LogInv' /\ LeaseInv' /\ Claims(log', lease', processes', clock')
<1> DEFINE batch == processes[p].batch
           s == [pc |-> "claiming", now |-> processes[p].now, batch |-> {}, left |-> {}]
<1>1. /\ log \in Seq(EventRow) /\ \A n \in DOMAIN log : log[n] \in EventRow
  BY LogRows DEF LogInv
<1>2. /\ processes[p] \in ProcessState /\ processes[p].pc = "dispatching"
      /\ processes[p].left = {} /\ \A n \in batch : n \in DOMAIN log /\ log[n].done
  BY DEF LeaseInv, MarkPublished, Claims
<1>3. /\ log' = [n \in DOMAIN log |->
                   IF n \in batch THEN [log[n] EXCEPT !.published = TRUE] ELSE log[n]]
      /\ processes' = [processes EXCEPT ![p].pc = "claiming", ![p].batch = {}]
      /\ UNCHANGED <<engine, plan, lease>>
  BY DEF MarkPublished
<1> HIDE DEF batch
<1>4. \A n \in DOMAIN log :
        /\ log'[n] \in EventRow
        /\ log'[n].type = log[n].type /\ log'[n].subject = log[n].subject
        /\ log'[n].hours = log[n].hours /\ log'[n].at = log[n].at
        /\ log'[n].done = log[n].done /\ log'[n].claim = log[n].claim
        /\ log'[n].published = (log[n].published \/ n \in batch)
  <2> TAKE n \in DOMAIN log
  <2>1. /\ log[n] \in EventRow
        /\ log'[n] = IF n \in batch THEN [log[n] EXCEPT !.published = TRUE] ELSE log[n]
    BY <1>1, <1>3
  <2> QED
    BY <2>1 DEF EventRow
<1>5. Marked(log, log', 0)
  <2>1. log' = [n \in DOMAIN log |-> log'[n]]
    BY <1>3
  <2> QED
    BY <1>1, <1>4, <2>1, RowsRewritten
<1>6. LogInv'
  <2>1. \A n \in DOMAIN log : log'[n].published => log[n].published \/ log[n].done
    BY <1>2, <1>4
  <2> QED
    BY <1>3, <1>5, <2>1, LogIsMarked DEF engine, plan
<1>7. processes' = [processes EXCEPT ![p] = s]
  <2>1. [processes[p] EXCEPT !.pc = "claiming", !.batch = {}] = s
    <3>1. /\ DOMAIN processes[p] = {"pc", "now", "batch", "left"}
          /\ DOMAIN s = {"pc", "now", "batch", "left"}
      BY <1>2 DEF ProcessState
    <3>2. s = [k \in {"pc", "now", "batch", "left"} |-> s[k]]
      OBVIOUS
    <3>3. s.pc = "claiming" /\ s.now = processes[p].now /\ s.batch = {} /\ s.left = {}
      OBVIOUS
    <3> HIDE DEF s
    <3> QED
      BY <1>2, <3>1, <3>2, <3>3
  <2>2. processes' = [processes EXCEPT ![p] = [processes[p] EXCEPT !.pc = "claiming", !.batch = {}]]
    BY <1>2, <1>3 DEF LeaseInv
  <2> QED
    BY <2>1, <2>2
<1>8. s \in ProcessState /\ s.pc = "claiming" /\ s.now = processes[p].now /\ s.batch = {} /\ s.left = {}
  BY <1>2 DEF ProcessState
<1> HIDE DEF s
<1>9. LeaseInv' /\ processes'[p] = s /\ \A q \in Processes \ {p} : processes'[q] = processes[q]
  BY <1>2, <1>3, <1>7, <1>8, StartupMoves DEF engine
<1>10. \A q \in Processes \ {p} : processes[q].pc = "idle"
  BY <1>2, OneHolder
<1>11. DOMAIN log' = DOMAIN log
  BY <1>5 DEF Marked
<1>12. ASSUME NEW n \in DOMAIN log', ~log'[n].done, log'[n].claim # None
       PROVE  /\ \/ log'[n].claim <= clock
                 \/ lease.holder # None /\ log'[n].claim <= lease.expires
              /\ \A q \in Processes :
                   processes'[q].pc # "idle" =>
                     log'[n].claim <= processes'[q].now \/ n \in processes'[q].batch
  <2>1. n \in DOMAIN log /\ ~log[n].done /\ n \notin batch /\ log'[n].claim = log[n].claim
    BY <1>2, <1>4, <1>11, <1>12
  <2>2. /\ log[n].claim <= clock \/ (lease.holder # None /\ log[n].claim <= lease.expires)
        /\ log[n].claim <= processes[p].now
    BY <1>2, <1>12, <2>1 DEF Claims, batch
  <2> QED
    BY <1>8, <1>9, <1>10, <2>1, <2>2
<1>13. ASSUME NEW q \in Processes
       PROVE  processes'[q].batch = {} /\ processes'[q].left = {}
  <2>1. CASE q = p
    BY <1>8, <1>9, <2>1
  <2>2. CASE q # p
    BY <1>9, <1>10, <2>2 DEF Claims
  <2> QED
    BY <2>1, <2>2
<1>14. lease' = lease /\ clock' = clock
  BY <1>3 DEF engine
<1>15. Claims(log', lease', processes', clock')
  BY <1>12, <1>13, <1>14 DEF Claims
<1> QED
  BY <1>6, <1>9, <1>15

\* release_system_startup_lease(): what it leaves claimed and not handled has run out.
LEMMA ReleaseStep ==
  ASSUME clock \in Nat, LogInv, LeaseInv,
         Claims(log, lease, processes, clock), NEW p \in Processes, ReleaseLease(p)
  PROVE  LeaseInv' /\ Claims(log, lease', processes', clock')
<1>1. Idle \in ProcessState /\ Idle.pc = "idle"
  BY DEF Idle, ProcessState
<1>2. /\ processes \in [Processes -> ProcessState] /\ processes[p].pc = "releasing" /\ clock' = clock
      /\ processes' = [processes EXCEPT ![p] = Idle]
      /\ \A q \in Processes \ {p} : processes[q].pc = "idle"
  BY OneHolder DEF LeaseInv, ReleaseLease, engine
<1>3. lease' = NoLease
  BY <1>2 DEF LeaseInv, ReleaseLease
<1>4. /\ processes' \in [Processes -> ProcessState]
      /\ \A q \in Processes : processes'[q].pc = "idle"
  BY <1>1, <1>2
<1>5. LeaseInv'
  BY <1>3, <1>4 DEF LeaseInv, NoLease
<1>6. ASSUME NEW n \in DOMAIN log, ~log[n].done, log[n].claim # None
      PROVE  log[n].claim <= clock
  <2>1. log[n].claim <= processes[p].now
    BY <1>2, <1>6 DEF Claims
  <2>2. processes[p].now <= clock /\ processes[p].now \in Nat
    BY <1>2 DEF LeaseInv, ProcessState
  <2>3. log[n].claim \in Nat
    BY <1>6, LogRows DEF LogInv, EventRow
  <2> QED
    BY <2>1, <2>2, <2>3
<1>7. \A q \in Processes : processes'[q] = processes[q] \/ processes'[q] = Idle
  BY <1>2
<1>8. Claims(log, lease, processes', clock)
  BY <1>7, ClaimsStand
<1>9. Claims(log, lease', processes', clock')
  BY <1>2, <1>6, <1>8 DEF Claims
<1> QED
  BY <1>5, <1>9

\* acquire_system_startup_lease(): whoever had it is done, or dead.  What a dead one has
\* claimed can be claimed from now on.
LEMMA AcquireStep ==
  ASSUME clock \in Nat, LogInv, LeaseInv, Claims(log, lease, processes, clock), NEW p \in Processes,
         AcquireLease(p)
  PROVE  /\ LeaseInv' /\ Claims(log, lease', processes', clock')
         /\ \A q \in Processes : processes[q].pc = "idle"
         /\ processes'[p].now = clock
<1> DEFINE s == [Idle EXCEPT !.pc = "recovering", !.now = clock]
<1>1. s \in ProcessState /\ s.pc = "recovering" /\ s.now = clock /\ s.batch = {} /\ s.left = {}
  BY DEF Idle, ProcessState
<1>2. /\ lease.holder = None \/ lease.expires <= clock
      /\ lease' = [holder |-> p, expires |-> clock + StartupLease]
      /\ processes' = [processes EXCEPT ![p] = s]
      /\ clock' = clock
  BY DEF AcquireLease, engine
<1> HIDE DEF s
<1>3. lease \in [holder: Processes \union {None}, expires: Nat]
  BY DEF LeaseInv
<1>4. ASSUME NEW q \in Processes PROVE processes[q].pc = "idle"
  <2> SUFFICES ASSUME processes[q].pc # "idle" PROVE FALSE
    OBVIOUS
  <2>1. lease.holder = q /\ clock < lease.expires
    BY DEF LeaseInv
  <2>2. lease.expires \in Nat
    BY <1>3
  <2> QED
    BY <1>2, <2>1, <2>2, ProcessesAreThreads
<1>5. /\ processes' \in [Processes -> ProcessState] /\ processes'[p] = s
      /\ \A q \in Processes \ {p} : processes'[q] = processes[q]
  BY <1>1, <1>2 DEF LeaseInv
<1>6. LeaseInv'
  <2>1. lease' \in [holder: Processes \union {None}, expires: Nat]
    BY <1>2, NumbersType
  <2>2. /\ lease'.holder = p /\ lease'.expires = s.now + StartupLease
        /\ s.now <= clock /\ clock < lease'.expires
    BY <1>1, <1>2, NumbersType
  <2>3. \A q \in Processes : processes'[q].pc # "idle" => q = p
    BY <1>4, <1>5
  <2> QED
    BY <1>2, <1>5, <2>1, <2>2, <2>3 DEF LeaseInv
<1>7. ASSUME NEW n \in DOMAIN log, ~log[n].done, log[n].claim # None
      PROVE  /\ log[n].claim <= clock
             /\ \A q \in Processes :
                  processes'[q].pc # "idle" =>
                    log[n].claim <= processes'[q].now \/ n \in processes'[q].batch
  <2>1. /\ log[n].claim <= clock \/ (lease.holder # None /\ log[n].claim <= lease.expires)
        /\ log[n].claim \in Nat
    BY <1>7, LogRows DEF Claims, LogInv, EventRow
  <2>2. log[n].claim <= clock
    BY <1>2, <1>3, <2>1
  <2> QED
    BY <1>1, <1>4, <1>5, <2>2
<1>8. ASSUME NEW q \in Processes PROVE processes'[q].batch = {} /\ processes'[q].left = {}
  BY <1>1, <1>4, <1>5 DEF Claims
<1>9. Claims(log, lease', processes', clock')
  BY <1>2, <1>7, <1>8 DEF Claims
<1> QED
  BY <1>1, <1>4, <1>5, <1>6, <1>9

\* From one stage to the next, without a batch.
LEMMA StageStep ==
  ASSUME LeaseInv, Claims(log, lease, processes, clock), NEW p \in Processes,
         processes[p].pc \in {"recovering", "ensuring"}, NEW pc \in {"ensuring", "claiming"},
         processes' = [processes EXCEPT ![p].pc = pc], lease' = lease, clock' = clock
  PROVE  /\ LeaseInv' /\ Claims(log, lease', processes', clock')
         /\ processes'[p].pc = pc /\ processes'[p].now = processes[p].now
         /\ \A q \in Processes \ {p} : processes'[q] = processes[q] /\ processes[q].pc = "idle"
<1> DEFINE s == [processes[p] EXCEPT !.pc = pc]
<1>1. /\ processes[p] \in ProcessState /\ processes \in [Processes -> ProcessState]
  BY DEF LeaseInv
<1>2. /\ s \in ProcessState /\ s.pc = pc /\ s.now = processes[p].now
      /\ s.batch = processes[p].batch /\ s.left = processes[p].left
  BY <1>1 DEF ProcessState
<1>3. processes' = [processes EXCEPT ![p] = s]
  BY <1>1
<1> HIDE DEF s
<1>4. LeaseInv' /\ processes'[p] = s /\ \A q \in Processes \ {p} : processes'[q] = processes[q]
  BY <1>2, <1>3, StartupMoves
<1>5. \A q \in Processes \ {p} : processes[q].pc = "idle"
  BY OneHolder
<1>6. Claims(log, lease, processes', clock)
  <2>1. \A q \in Processes :
          \/ processes'[q] = processes[q]
          \/ /\ processes[q].pc \notin {"idle", "dispatching"}
             /\ processes'[q].pc \notin {"dispatching", "releasing"}
             /\ processes'[q].now = processes[q].now
             /\ processes'[q].batch = processes[q].batch /\ processes'[q].left = processes[q].left
    BY <1>2, <1>4
  <2> QED
    BY <2>1, ClaimsStand
<1> QED
  BY <1>2, <1>4, <1>5, <1>6
\* A process that dies leaves its claims, and its lease to run out.
LEMMA CrashStep ==
  ASSUME LeaseInv, Claims(log, lease, processes, clock), NEW t \in Threads, Crash(t)
  PROVE  /\ LeaseInv' /\ Claims(log, lease', processes', clock')
         /\ \A p \in Processes : processes'[p] = processes[p] \/ processes'[p].pc = "idle"
         /\ t \in Processes => processes'[t] = Idle
<1>1. Idle \in ProcessState /\ Idle.pc = "idle"
  BY DEF Idle, ProcessState
<1>2. /\ processes' = [p \in Processes |-> IF p = t THEN Idle ELSE processes[p]]
      /\ lease' = lease /\ clock' = clock
  BY DEF Crash
<1>3. processes' \in [Processes -> ProcessState]
  BY <1>1, <1>2 DEF LeaseInv
<1>4. \A p \in Processes : processes'[p] = IF p = t THEN Idle ELSE processes[p]
  BY <1>2
<1>5. LeaseInv'
  BY <1>1, <1>2, <1>3, <1>4, LeaseStands
<1>6. Claims(log, lease, processes', clock)
  BY <1>4, ClaimsStand
<1> QED
  BY <1>1, <1>2, <1>4, <1>5, <1>6

\* A startup that raises leaves claims, too, and nothing of a batch that was not handled.
LEMMA RaiseStep ==
  ASSUME LeaseInv, Claims(log, lease, processes, clock), NEW p \in Processes, Raise(p)
  PROVE  /\ LeaseInv' /\ Claims(log, lease', processes', clock')
         /\ processes'[p].pc = "releasing"
         /\ \A q \in Processes \ {p} : processes'[q] = processes[q] /\ processes[q].pc = "idle"
<1> DEFINE s == [processes[p] EXCEPT !.pc = "releasing", !.batch = {}, !.left = {}]
<1>1. /\ processes[p] \in ProcessState /\ processes \in [Processes -> ProcessState]
      /\ processes[p].pc # "idle"
      /\ processes[p].pc \notin {"recovering", "ensuring", "claiming"} =>
           processes[p].pc = "dispatching" /\ processes[p].left = {}
      /\ lease' = lease /\ clock' = clock
      /\ processes' = [processes EXCEPT ![p] = s]
  BY DEF LeaseInv, Raise, Abandon
<1>2. /\ s \in ProcessState /\ s.pc = "releasing" /\ s.now = processes[p].now
      /\ s.batch = {} /\ s.left = {}
  BY <1>1 DEF ProcessState
<1> HIDE DEF s
<1>3. LeaseInv' /\ processes'[p] = s /\ \A q \in Processes \ {p} : processes'[q] = processes[q]
  BY <1>1, <1>2, StartupMoves
<1>4. \A q \in Processes \ {p} : processes[q].pc = "idle"
  BY <1>1, OneHolder
<1>5. ASSUME NEW n \in DOMAIN log, ~log[n].done, log[n].claim # None
      PROVE  /\ log[n].claim <= clock \/ (lease.holder # None /\ log[n].claim <= lease.expires)
             /\ \A q \in Processes :
                  processes'[q].pc # "idle" =>
                    log[n].claim <= processes'[q].now \/ n \in processes'[q].batch
  <2>1. n \notin processes[p].batch
    BY <1>1, <1>5 DEF Claims
  <2>2. log[n].claim <= processes[p].now
    BY <1>1, <1>5, <2>1 DEF Claims
  <2> QED
    BY <1>2, <1>3, <1>4, <1>5, <2>2 DEF Claims
<1>6. Claims(log, lease, processes', clock)
  BY <1>2, <1>3, <1>5 DEF Claims
<1> QED
  BY <1>1, <1>2, <1>3, <1>4, <1>6

----------------------------------------------------------------------------
(* The time of operations *)

\* Writing no status, or with no startup at the windows, leaves the times as they are.
LEMMA TimesStand ==
  ASSUME OperationInv, UNCHANGED <<threads, processes, clock>>,
         \A p \in Processes, n \in DOMAIN log' :
           processes[p].pc \in {"recovering", "ensuring"} /\ log'[n].type \in StatusTypes =>
             log'[n].at <= processes[p].now
  PROVE  OperationInv'
BY DEF OperationInv

\* So does what a startup does when it is done with the windows.
LEMMA LaterStages ==
  ASSUME LeaseInv, OperationInv, NEW p \in Processes,
         processes[p].pc \in {"claiming", "dispatching", "releasing"},
         processes'[p].pc \notin {"recovering", "ensuring"},
         \A q \in Processes \ {p} : processes'[q] = processes[q],
         UNCHANGED <<threads, clock>>
  PROVE  OperationInv'
<1>1. \A q \in Processes : threads[q] = PE!Idle
  <2> TAKE q \in Processes
  <2>1. CASE q = p
    BY <2>1 DEF OperationInv
  <2>2. CASE q # p
    <3>1. processes[q].pc = "idle"
      BY <2>2, OneHolder
    <3> QED
      BY <3>1 DEF OperationInv
  <2> QED
    BY <2>1, <2>2
<1>2. \A q \in Processes : processes'[q].pc \notin {"recovering", "ensuring"}
  BY OneHolder
<1> QED
  BY <1>1, <1>2 DEF OperationInv

\* An operation that began at now is one of a command, at this time, or of a startup.
LEMMA OperationBegins ==
  ASSUME PEP!IInv, OperationInv, NEW t \in Threads, NEW now \in Nat, PE!BeginEnsureAt(t, now),
         log' = log, clock' = clock,
         \A p \in Processes \ {t} : processes'[p] = processes[p],
         t \in Processes =>
           /\ processes[t].pc = "recovering" /\ processes'[t].pc = "ensuring"
           /\ processes'[t].now = processes[t].now /\ now = processes[t].now,
         t \notin Processes => now = clock,
         \A p \in Processes \ {t} : processes[p].pc \notin {"recovering", "ensuring"}
  PROVE  OperationInv'
<1>1. PICK w \in Windows :
        threads' = [threads EXCEPT ![t] = [PE!Idle EXCEPT !.pc = "listing", !.now = now, !.window = w]]
  BY DEF PE!BeginEnsureAt, PE!LatestOpen
<1>2. threads \in [Threads -> PE!ThreadState]
  BY EngineFacts DEF PE!TypeOK
<1>3. threads'[t].now = now /\ \A u \in Threads \ {t} : threads'[u] = threads[u]
  BY <1>1, <1>2 DEF PE!Idle
<1>4. ASSUME NEW p \in Processes, threads'[p] # PE!Idle
      PROVE  processes'[p].pc = "ensuring" /\ threads'[p].now = processes'[p].now
  <2>1. p \in Threads
    BY ProcessesAreThreads
  <2> QED
    BY <1>3, <1>4, <2>1 DEF OperationInv
<1>5. ASSUME NEW u \in Threads \ Processes, threads'[u] # PE!Idle PROVE threads'[u].now = clock
  BY <1>3, <1>5 DEF OperationInv
<1>6. ASSUME NEW p \in Processes, processes'[p].pc \in {"recovering", "ensuring"}
      PROVE  /\ \A u \in Threads : threads'[u] # PE!Idle => threads'[u].now <= processes'[p].now
             /\ \A n \in DOMAIN log : log[n].type \in StatusTypes => log[n].at <= processes'[p].now
  <2>1. p = t
    BY <1>6
  <2>2. \A u \in Threads : threads[u] # PE!Idle => threads[u].now <= processes[p].now
    BY <2>1 DEF OperationInv
  <2>3. \A n \in DOMAIN log : log[n].type \in StatusTypes => log[n].at <= processes[p].now
    BY <2>1 DEF OperationInv
  <2> QED
    BY <1>3, <2>1, <2>2, <2>3
<1> QED
  BY <1>4, <1>5, <1>6 DEF OperationInv

\* It goes on, or ends, at the same time, and writes at that time.
LEMMA OperationGoesOn ==
  ASSUME PEP!IInv, OperationInv, NEW t \in Threads, threads[t] # PE!Idle, NEW s,
         threads' = [threads EXCEPT ![t] = s], s = PE!Idle \/ s.now = threads[t].now,
         UNCHANGED <<processes, clock>>,
         \A n \in DOMAIN log' : log'[n].type \in StatusTypes =>
           \/ log'[n].at = threads[t].now
           \/ n \in DOMAIN log /\ log'[n] = log[n]
  PROVE  OperationInv'
<1>1. threads \in [Threads -> PE!ThreadState]
  BY EngineFacts DEF PE!TypeOK
<1>2. threads'[t] = s /\ \A u \in Threads \ {t} : threads'[u] = threads[u]
  BY <1>1
<1>3. ASSUME NEW u \in Threads, threads'[u] # PE!Idle
      PROVE  threads[u] # PE!Idle /\ threads'[u].now = threads[u].now
  BY <1>2, <1>3
<1>4. ASSUME NEW p \in Processes, processes[p].pc \in {"recovering", "ensuring"},
             NEW n \in DOMAIN log', log'[n].type \in StatusTypes
      PROVE  log'[n].at <= processes[p].now
  BY <1>4 DEF OperationInv
<1>5. \A p \in Processes : p \in Threads
  BY ProcessesAreThreads
<1> QED
  BY <1>3, <1>4, <1>5 DEF OperationInv
----------------------------------------------------------------------------
(* The invariant of the system, and the steps of the environment and of commands *)

IInv ==
  /\ PEP!IInv
  /\ PlansInv /\ TasksHavePlans
  /\ LogInv
  /\ LeaseInv /\ OperationInv /\ Claims(log, lease, processes, clock)

\* What PenaltyEngineProofs assumes of the constants.
LEMMA EngineAssumptions ==
  /\ None \notin Nat \union Windows
  /\ PEP!IsFiniteSet(Incidents) /\ Rule \in [Incidents -> Rules]
  /\ Uncapped \in [Incidents -> [1..PEP!Cardinality(Incidents) -> Nat]]
  /\ TaskHours \in [Tasks -> Nat]
  /\ MaxTarget \in Nat /\ BaseHours \in 0..MaxTarget
  /\ FreezeTerms \subseteq Nat \ {0} /\ MaxClock \in Nat /\ MaxCrashes \in Nat
<1>1. PEP!IsFiniteSet(Incidents) <=> IsFiniteSet(Incidents)
  BY DEF PEP!IsFiniteSet, IsFiniteSet
<1>2. PEP!Cardinality(Incidents) = Cardinality(Incidents)
  BY DEF PEP!Cardinality, Cardinality
<1> QED
  BY <1>1, <1>2, EngineConstants

\* The engine is left alone.
LEMMA EngineStands ==
  ASSUME PEP!IInv, UNCHANGED engine
  PROVE  PEP!IInv'
<1>1. UNCHANGED PEP!vars
  BY DEF engine, PEP!vars
<1> QED
  BY <1>1, EngineAssumptions, PEP!NextIInv

\* So are the plans.
LEMMA PlansStand ==
  ASSUME PlansInv, TasksHavePlans, UNCHANGED plan
  PROVE  PlansInv' /\ TasksHavePlans'
<1>1. UNCHANGED RP!vars
  BY DEF plan, RP!vars
<1> QED
  BY <1>1, NextPlansInv, TasksKeepTheirPlans

\* An event is written at the end, not claimed.
LEMMA OneWritten ==
  ASSUME LogInv, Claims(log, lease, processes, clock), UNCHANGED <<clock, lease, processes>>,
         NEW type \in {"confirmed", "started", "frozen", "resumed", "completed",
                       "target_duration_changed", "task_completed"},
         NEW subject \in Incidents \union Windows \union Tasks, NEW hours \in Nat, NEW at \in Nat,
         log' = Append(log, Event(type, subject, hours, at))
  PROVE  /\ Claims(log', lease', processes', clock')
         /\ \A n \in DOMAIN log' : \/ n \in DOMAIN log /\ log'[n] = log[n]
                                   \/ log'[n].type = type /\ log'[n].at = at
<1> DEFINE e == Event(type, subject, hours, at)
<1>1. e \in EventRow /\ e.type = type /\ e.at = at /\ e.claim = None
  BY DEF Event, EventRow
<1>2. log \in Seq(EventRow) /\ log' = Append(log, e)
  BY DEF LogInv
<1> HIDE DEF e
<1>3. Grown(log, log', e)
  BY <1>1, <1>2, AppendGrows
<1>4. Claims(log', lease, processes, clock)
  BY <1>1, <1>2, <1>3, ClaimsGrow
<1>5. \A n \in DOMAIN log' : \/ n \in DOMAIN log /\ log'[n] = log[n]
                             \/ log'[n].type = type /\ log'[n].at = at
  BY <1>1, <1>3 DEF Grown
<1> QED
  BY <1>4, <1>5

\* Time passes only between operations, and not beyond a lease that is held.
LEMMA TickKeeps ==
  ASSUME IInv, Tick
  PROVE  IInv'
<1> USE DEF IInv
<1>1. /\ clock \in Nat /\ clock' = clock + 1
      /\ UNCHANGED <<windows, lastEvent, credits, threads, plans, tasks, log, lease, processes>>
      /\ \A t \in Threads : threads[t] = PE!Idle
  BY EngineFacts DEF Tick, PE!Tick, plan, PE!TypeOK
<1>2. PEP!IInv'
  BY EngineSteps, EngineAssumptions, PEP!TickStep DEF Tick
<1>3. PlansInv' /\ TasksHavePlans'
  BY PlansStand DEF Tick
<1>4. LogInv'
  BY <1>1, LogStands
<1>5. LeaseInv'
  <2> SUFFICES ASSUME NEW p \in Processes, processes[p].pc # "idle"
               PROVE  processes[p].now <= clock' /\ clock' < lease.expires
    BY <1>1 DEF LeaseInv
  <2>1. processes[p].now \in Nat
    BY DEF LeaseInv, ProcessState
  <2>2. /\ clock + 1 < processes[p].now + StartupLease
        /\ lease.expires = processes[p].now + StartupLease /\ processes[p].now <= clock
    BY DEF Tick, LeaseInv
  <2> QED
    BY <1>1, <2>1, <2>2
<1>6. OperationInv'
  <2>1. \A p \in Processes : p \in Threads
    BY ProcessesAreThreads
  <2> QED
    BY <1>1, <2>1 DEF OperationInv
<1>7. Claims(log', lease', processes', clock')
  <2>1. \A n \in DOMAIN log : log[n].claim \in Nat \union {None}
    BY LogRows DEF LogInv, EventRow
  <2>2. \A n \in DOMAIN log : log[n].claim # None /\ log[n].claim <= clock => log[n].claim <= clock'
    BY <1>1, <2>1
  <2> QED
    BY <1>1, <2>2 DEF Claims
<1> QED
  BY <1>2, <1>3, <1>4, <1>5, <1>6, <1>7

\* A process dies.
LEMMA CrashKeeps ==
  ASSUME IInv, NEW t \in Threads, Crash(t)
  PROVE  IInv'
<1> USE DEF IInv
<1>1. /\ clock \in Nat /\ threads \in [Threads -> PE!ThreadState]
      /\ threads' = [threads EXCEPT ![t] = PE!Idle] /\ crashes' = crashes + 1
      /\ UNCHANGED <<clock, windows, freezes, incidents, consumed, credits, lastEvent>>
      /\ UNCHANGED <<plans, tasks, log, lease>>
  BY EngineFacts DEF Crash, plan, PE!TypeOK
<1>2. PEP!IInv'
  <2>1. threads' = [u \in Threads |-> IF u \in {t} THEN PEP!Idle ELSE threads[u]]
    BY <1>1 DEF PE!Idle, PEP!Idle
  <2> QED
    BY <1>1, <2>1, EngineAssumptions, PEP!ThreadsDie
<1>3. PlansInv' /\ TasksHavePlans'
  BY <1>1, PlansStand DEF plan
<1>4. LogInv'
  BY <1>1, LogStands
<1>5. /\ LeaseInv' /\ Claims(log, lease', processes', clock')
      /\ \A p \in Processes : processes'[p] = processes[p] \/ processes'[p].pc = "idle"
      /\ t \in Processes => processes'[t] = Idle
  BY CrashStep
<1>6. OperationInv'
  <2>1. threads'[t] = PE!Idle /\ \A u \in Threads \ {t} : threads'[u] = threads[u]
    BY <1>1
  <2>2. \A p \in Processes : p # t => processes'[p] = processes[p]
    BY DEF Crash
  <2>3. \A p \in Processes : p \in Threads
    BY ProcessesAreThreads
  <2> QED
    BY <1>1, <1>5, <2>1, <2>2, <2>3 DEF OperationInv
<1>7. log' = log
  BY <1>1
<1> QED
  BY <1>2, <1>3, <1>4, <1>5, <1>6, <1>7

\* An incident is reported.
LEMMA ReportKeeps ==
  ASSUME IInv, NEW i \in Incidents, ReportIncident(i)
  PROVE  IInv'
<1> USE DEF IInv
<1>1. /\ clock \in Nat
      /\ UNCHANGED <<clock, windows, credits, lastEvent, threads, plans, tasks, log, lease, processes>>
  BY EngineFacts DEF ReportIncident, PE!ReportIncident, plan, PE!TypeOK
<1>2. PEP!IInv'
  BY EngineSteps, EngineAssumptions, PEP!IncidentActions DEF ReportIncident
<1>3. PlansInv' /\ TasksHavePlans'
  BY <1>1, PlansStand DEF plan
<1>4. LogInv'
  BY <1>1, LogStands
<1>5. LeaseInv' /\ OperationInv' /\ Claims(log', lease', processes', clock')
  BY <1>1 DEF LeaseInv, OperationInv
<1> QED
  BY <1>2, <1>3, <1>4, <1>5

\* It is confirmed, which is told.
LEMMA ConfirmKeeps ==
  ASSUME IInv, NEW i \in Incidents, ConfirmIncident(i)
  PROVE  IInv'
<1> USE DEF IInv
<1>1. /\ clock \in Nat /\ log' = Append(log, Event("confirmed", i, 0, clock))
      /\ UNCHANGED <<clock, windows, credits, lastEvent, threads, plans, tasks, lease, processes>>
  BY EngineFacts DEF ConfirmIncident, PE!ConfirmIncident, plan, PE!TypeOK
<1>2. PEP!IInv'
  BY EngineSteps, EngineAssumptions, PEP!IncidentActions DEF ConfirmIncident
<1>3. PlansInv' /\ TasksHavePlans'
  BY <1>1, PlansStand DEF plan
<1>4. LogInv'
  BY <1>1, OtherIsTold
<1>5. /\ Claims(log', lease', processes', clock')
      /\ \A n \in DOMAIN log' : \/ n \in DOMAIN log /\ log'[n] = log[n]
                                \/ log'[n].type = "confirmed" /\ log'[n].at = clock
  BY <1>1, OneWritten
<1>6. LeaseInv'
  BY <1>1 DEF LeaseInv
<1>7. OperationInv'
  BY <1>1, <1>5, TimesStand DEF OperationInv, StatusTypes, Mirrored
<1> QED
  BY <1>2, <1>3, <1>4, <1>5, <1>6, <1>7
\* A window is frozen.
LEMMA FreezeKeeps ==
  ASSUME IInv, NEW w \in Windows, NEW reason \in FreezeReasons, NEW expires \in Expiries,
         Freeze(w, reason, expires)
  PROVE  IInv'
<1> USE DEF IInv
<1>1. /\ clock \in Nat /\ \A p \in Processes : processes[p].pc \notin {"recovering", "ensuring"}
      /\ UNCHANGED <<clock, credits, threads, plans, tasks, lease, processes>>
      /\ log' = log \/ log' = Append(log, Event("frozen", w, 0, clock))
  BY EngineFacts DEF Freeze, Alone, PE!Freeze, plan, PE!TypeOK
<1>2. PEP!IInv'
  <2>1. PEP!Freeze(w, reason, expires) /\ reason \in PEP!Reasons /\ expires \in PEP!Expiries
    BY EngineSteps DEF Freeze
  <2> QED
    BY <2>1, EngineAssumptions, PEP!FreezeStep
<1>3. PlansInv' /\ TasksHavePlans'
  BY <1>1, PlansStand DEF plan
<1>4. LogInv'
  BY FreezeIsTold
<1>5. Claims(log', lease', processes', clock')
  <2>1. CASE log' = log
    BY <1>1, <2>1
  <2>2. CASE log' = Append(log, Event("frozen", w, 0, clock))
    BY <1>1, <2>2, OneWritten
  <2> QED
    BY <1>1, <2>1, <2>2
<1>6. LeaseInv' /\ OperationInv'
  BY <1>1, TimesStand DEF LeaseInv
<1> QED
  BY <1>2, <1>3, <1>4, <1>5, <1>6

\* It is resumed.
LEMMA ResumeKeeps ==
  ASSUME IInv, NEW w \in Windows, NEW reason \in FreezeReasons, Resume(w, reason)
  PROVE  IInv'
<1> USE DEF IInv
<1> DEFINE rows == {f \in PE!OpenFreezes(w) : freezes[f].reason = reason}
<1>1. /\ clock \in Nat /\ \A p \in Processes : processes[p].pc \notin {"recovering", "ensuring"}
      /\ UNCHANGED <<clock, credits, threads, plans, tasks, lease, processes>>
      /\ log' = log \/ log' = Append(log, Event("resumed", w, 0, clock))
      /\ rows # {} /\ PE!CloseFreezePeriods(w, rows, clock, "resumed_normally")
      /\ Resumed(w, clock)
  BY EngineFacts DEF Resume, Resumed, Alone, PE!Resume, plan, PE!TypeOK
<1>2. PEP!IInv'
  <2>1. PEP!Resume(w, reason) /\ reason \in PEP!Reasons
    BY EngineSteps DEF Resume
  <2> QED
    BY <2>1, EngineAssumptions, PEP!ResumeStep
<1>3. PlansInv' /\ TasksHavePlans'
  BY <1>1, PlansStand DEF plan
<1>4. LogInv'
  <2>1. PE!Exists(w)
    <3>1. PICK f \in Freezes : freezes[f].window = w
      BY <1>1 DEF PE!OpenFreezes
    <3> QED
      BY <3>1, EngineFacts, EngineConstants
  <2>2. \A n \in DOMAIN log :
          log[n].subject = w /\ log[n].type \in StatusTypes => log[n].at <= clock
    BY DEF LogInv, RowsOf
  <2>3. rows \in SUBSET PE!OpenFreezes(w)
    OBVIOUS
  <2> HIDE DEF rows
  <2> QED
    BY <1>1, <2>1, <2>2, <2>3, CloseIsTold
<1>5. Claims(log', lease', processes', clock')
  <2>1. CASE log' = log
    BY <1>1, <2>1
  <2>2. CASE log' = Append(log, Event("resumed", w, 0, clock))
    BY <1>1, <2>2, OneWritten
  <2> QED
    BY <1>1, <2>1, <2>2
<1>6. LeaseInv' /\ OperationInv'
  BY <1>1, TimesStand DEF LeaseInv
<1> QED
  BY <1>2, <1>3, <1>4, <1>5, <1>6

\* A command brings the windows up to date.
LEMMA BeginKeeps ==
  ASSUME IInv, NEW t \in Threads, BeginEnsure(t)
  PROVE  IInv'
<1> USE DEF IInv
<1>1. /\ clock \in Nat /\ \A p \in Processes : processes[p].pc \notin {"recovering", "ensuring"}
      /\ PE!BeginEnsureAt(t, clock) /\ t \notin Processes
      /\ UNCHANGED <<clock, windows, lastEvent, credits, plans, tasks, log, lease, processes>>
  BY EngineFacts DEF BeginEnsure, Alone, PE!BeginEnsure, PE!BeginEnsureAt, plan, PE!TypeOK
<1>2. PEP!IInv'
  <2>1. PEP!BeginEnsureAt(t, clock) /\ clock <= clock
    BY <1>1, EngineSteps
  <2> QED
    BY <1>1, <2>1, EngineAssumptions, PEP!BeginEnsureStep
<1>3. PlansInv' /\ TasksHavePlans'
  BY <1>1, PlansStand DEF plan
<1>4. LogInv'
  BY <1>1, LogStands
<1>5. OperationInv'
  BY <1>1, OperationBegins
<1>6. LeaseInv' /\ Claims(log', lease', processes', clock')
  BY <1>1 DEF LeaseInv
<1> QED
  BY <1>2, <1>3, <1>4, <1>5, <1>6

\* What a step of it does to its thread.
LEMMA ThreadGoesOn ==
  ASSUME PEP!IInv, NEW t \in Threads,
         PE!ListExpired(t) \/ PE!Reread(t) \/ PE!CloseExpired(t) \/ PE!CompleteWindow(t)
  PROVE  /\ threads[t].pc \in {"listing", "closing", "completing"} /\ threads[t] # PE!Idle
         /\ UNCHANGED <<clock, credits>>
         /\ \E s : /\ threads' = [threads EXCEPT ![t] = s]
                   /\ s = PE!Idle \/ s.now = threads[t].now
<1>1. threads \in [Threads -> PE!ThreadState] /\ threads[t] \in PE!ThreadState
  BY EngineFacts DEF PE!TypeOK
<1>2. /\ threads[t].pc \in {"listing", "closing", "completing"}
      /\ UNCHANGED <<clock, credits>>
  BY DEF PE!ListExpired, PE!Reread, PE!CloseExpired, PE!CompleteWindow
<1>3. threads[t] # PE!Idle
  BY <1>2 DEF PE!Idle
<1>4. \A pc : [threads[t] EXCEPT !.pc = pc].now = threads[t].now
  BY <1>1 DEF PE!ThreadState
<1>5. \A expired : /\ [threads[t] EXCEPT !.expired = expired].now = threads[t].now
                   /\ [threads[t] EXCEPT !.pc = "closing", !.expired = expired].now = threads[t].now
  BY <1>1 DEF PE!ThreadState
<1>6. \A w : [threads[t] EXCEPT !.pc = "completing", !.window = w].now = threads[t].now
  BY <1>1 DEF PE!ThreadState
<1>7. ASSUME PE!ListExpired(t)
      PROVE  \E s : threads' = [threads EXCEPT ![t] = s] /\ s.now = threads[t].now
  <2>1. \E expired : threads' = [threads EXCEPT ![t] = [threads[t] EXCEPT !.pc = "closing",
                                                          !.expired = expired]]
    BY <1>1, <1>7 DEF PE!ListExpired
  <2> QED
    BY <1>5, <2>1
<1>8. ASSUME PE!Reread(t)
      PROVE  \E s : /\ threads' = [threads EXCEPT ![t] = s]
                    /\ s = PE!Idle \/ s.now = threads[t].now
  <2>1. \E w : \/ threads' = [threads EXCEPT ![t] = PE!Idle]
               \/ threads' = [threads EXCEPT ![t] = [threads[t] EXCEPT !.pc = "completing",
                                                       !.window = w]]
    BY <1>8 DEF PE!Reread
  <2> QED
    BY <1>6, <2>1
<1>9. ASSUME PE!CloseExpired(t)
      PROVE  \E s : threads' = [threads EXCEPT ![t] = s] /\ s.now = threads[t].now
  <2>1. \E expired : threads' = [threads EXCEPT ![t] = [threads[t] EXCEPT !.expired = expired]]
    BY <1>1, <1>9 DEF PE!CloseExpired
  <2> QED
    BY <1>5, <2>1
<1>10. PE!CompleteWindow(t) => threads' = [threads EXCEPT ![t] = PE!Idle]
  BY DEF PE!CompleteWindow
<1> QED
  BY <1>2, <1>3, <1>7, <1>8, <1>9, <1>10
\* While an operation runs, no event that tells a status is later than it.
LEMMA OperationIsLatest ==
  ASSUME IInv, NEW t \in Threads, threads[t] # PE!Idle
  PROVE  \A n \in DOMAIN log : log[n].type \in StatusTypes => log[n].at <= threads[t].now
<1>1. CASE t \in Processes
  BY <1>1 DEF IInv, OperationInv
<1>2. CASE t \notin Processes
  BY <1>2 DEF IInv, OperationInv, LogInv, RowsOf
<1> QED
  BY <1>1, <1>2

\* Bringing the windows up to date goes on.
LEMMA EnsureKeeps ==
  ASSUME IInv, NEW t \in Threads, EnsureStep(t)
  PROVE  IInv'
<1> USE DEF IInv
<1> DEFINE w == threads[t].window
           now == threads[t].now
<1>1. /\ UNCHANGED <<plans, tasks, lease, processes>>
      /\ \/ PE!ListExpired(t) /\ UNCHANGED log
         \/ PE!Reread(t) /\ UNCHANGED log
         \/ PE!CloseExpired(t) /\ Resumed(w, now)
         \/ PE!CompleteWindow(t) /\ log' = Append(log, Event("completed", w, 0, now))
  BY DEF EnsureStep, plan
<1>2. /\ threads[t].pc \in {"listing", "closing", "completing"} /\ threads[t] # PE!Idle
      /\ UNCHANGED <<clock, credits>>
      /\ \E s : /\ threads' = [threads EXCEPT ![t] = s]
                /\ s = PE!Idle \/ s.now = threads[t].now
  BY <1>1, ThreadGoesOn
<1>3. /\ clock \in Nat /\ now \in Nat /\ now <= clock /\ w \in Windows /\ PE!Exists(w)
  BY <1>2, EngineFacts DEF PE!TypeOK, PE!ThreadState
<1>4. \A n \in DOMAIN log : log[n].type \in StatusTypes => log[n].at <= now
  BY <1>2, OperationIsLatest
<1> HIDE DEF w, now
<1>5. PEP!IInv'
  BY <1>1, EngineSteps, EngineAssumptions, PEP!ListExpiredStep, PEP!RereadStep,
     PEP!CloseExpiredStep, PEP!CompleteStep
<1>6. PlansInv' /\ TasksHavePlans'
  BY <1>1, PlansStand DEF plan
<1>7. LogInv'
  <2>1. CASE (PE!ListExpired(t) \/ PE!Reread(t)) /\ UNCHANGED log
    <3>1. UNCHANGED <<windows, lastEvent>>
      BY <2>1 DEF PE!ListExpired, PE!Reread
    <3> QED
      BY <1>1, <1>2, <1>3, <2>1, <3>1, LogStands
  <2>2. CASE PE!CloseExpired(t) /\ Resumed(w, now)
    <3>1. PICK f \in threads[t].expired :
            PE!CloseFreezePeriods(w, {f} \intersect PE!OpenFreezes(w), now, "expired")
      BY <2>2 DEF PE!CloseExpired, w, now
    <3>2. {f} \intersect PE!OpenFreezes(w) \in SUBSET PE!OpenFreezes(w)
      OBVIOUS
    <3> QED
      BY <1>1, <1>2, <1>3, <1>4, <2>2, <3>1, <3>2, CloseIsTold
  <2>3. CASE PE!CompleteWindow(t) /\ log' = Append(log, Event("completed", w, 0, now))
    BY <1>1, <1>4, <2>3, CompletionIsTold DEF plan, w, now
  <2> QED
    BY <1>1, <2>1, <2>2, <2>3
<1>8. /\ Claims(log', lease', processes', clock')
      /\ \A n \in DOMAIN log' : \/ n \in DOMAIN log /\ log'[n] = log[n]
                                \/ log'[n].at = now
  <2>1. CASE log' = log
    BY <1>1, <1>2, <2>1
  <2>2. CASE \E type \in {"resumed", "completed"} : log' = Append(log, Event(type, w, 0, now))
    BY <1>1, <1>2, <1>3, <2>2, OneWritten
  <2> QED
    BY <1>1, <2>1, <2>2 DEF Resumed
<1>9. OperationInv'
  BY <1>1, <1>2, <1>8, OperationGoesOn DEF now
<1>10. LeaseInv'
  BY <1>1, <1>2 DEF LeaseInv
<1> QED
  BY <1>5, <1>6, <1>7, <1>8, <1>9, <1>10

\* What the Coach does is a step of the Recovery Plan.
LEMMA TaskIsPlans ==
  ASSUME NEW k \in Tasks, \/ \E w \in Windows : RP!ProposeTask(k, w)
                          \/ RP!AcceptTask(k) \/ RP!WithdrawTask(k) \/ RP!CompleteTask(k)
  PROVE  RP!Next
BY DEF RP!Next

\* A completed task is not moved again.
LEMMA TaskKeeps ==
  ASSUME IInv, NEW k \in Tasks, TaskOperation(k)
  PROVE  IInv'
<1> USE DEF IInv
<1>1. /\ UNCHANGED engine /\ UNCHANGED <<log, lease, processes>>
      /\ \/ \E w \in Windows : RP!ProposeTask(k, w)
         \/ RP!AcceptTask(k)
         \/ RP!WithdrawTask(k)
  BY DEF TaskOperation
<1>2. PEP!IInv' /\ clock \in Nat
  BY <1>1, EngineStands, EngineFacts DEF PE!TypeOK
<1>3. PlansInv' /\ TasksHavePlans'
  BY <1>1, TaskIsPlans, NextPlansInv, TasksKeepTheirPlans
<1>4. /\ plans' = plans
      /\ \A j \in Tasks : tasks'[j] = tasks[j] \/
           (tasks[j].status # "completed" /\ tasks'[j].status # "completed")
  <2>1. tasks \in [Tasks -> RP!TaskRow]
    BY DEF PlansInv, RP!TypeOK
  <2>2. ASSUME NEW w \in Windows, RP!ProposeTask(k, w)
        PROVE  /\ plans' = plans
               /\ \A j \in Tasks : tasks'[j] = tasks[j] \/
                    (tasks[j].status # "completed" /\ tasks'[j].status # "completed")
    BY <2>1, <2>2 DEF RP!ProposeTask
  <2>3. ASSUME NEW from, NEW to \in {"accepted", "withdrawn"}, from \subseteq RP!Live,
               RP!MoveTask(k, from, to)
        PROVE  /\ plans' = plans
               /\ \A j \in Tasks : tasks'[j] = tasks[j] \/
                    (tasks[j].status # "completed" /\ tasks'[j].status # "completed")
    BY <2>1, <2>3 DEF RP!MoveTask, RP!Live, RP!TaskRow
  <2> QED
    BY <1>1, <2>2, <2>3 DEF RP!AcceptTask, RP!WithdrawTask, RP!Live
<1>5. LogInv'
  <2>1. UNCHANGED <<clock, windows, lastEvent, credits>>
    BY <1>1 DEF engine
  <2>2. \A j \in Tasks : /\ tasks'[j].status = "completed" <=> tasks[j].status = "completed"
                         /\ tasks[j].status = "completed" => tasks'[j].plan = tasks[j].plan
    BY <1>4
  <2> QED
    BY <1>1, <1>2, <1>4, <2>1, <2>2, LogStands
<1>6. LeaseInv' /\ OperationInv' /\ Claims(log', lease', processes', clock')
  BY <1>1 DEF LeaseInv, OperationInv, engine
<1> QED
  BY <1>2, <1>3, <1>5, <1>6

\* A task is completed, which is told.
LEMMA CompleteTaskKeeps ==
  ASSUME IInv, NEW k \in Tasks, CompleteTask(k)
  PROVE  IInv'
<1> USE DEF IInv
<1>1. /\ UNCHANGED engine /\ UNCHANGED <<clock, windows, lastEvent, credits, threads>>
      /\ UNCHANGED <<lease, processes>>
      /\ RP!CompleteTask(k) /\ log' = Append(log, Event("task_completed", k, 0, clock))
  BY DEF CompleteTask, engine
<1>2. PEP!IInv' /\ clock \in Nat
  BY <1>1, EngineStands, EngineFacts DEF PE!TypeOK
<1>3. PlansInv' /\ TasksHavePlans'
  BY <1>1, TaskIsPlans, NextPlansInv, TasksKeepTheirPlans
<1>4. /\ plans' = plans /\ tasks[k].status # "completed" /\ tasks'[k].status = "completed"
      /\ \A j \in Tasks \ {k} : tasks'[j] = tasks[j]
  <2>1. tasks \in [Tasks -> RP!TaskRow] /\ tasks[k] \in RP!TaskRow
    BY DEF PlansInv, RP!TypeOK
  <2> QED
    BY <1>1, <2>1 DEF RP!CompleteTask, RP!MoveTask, RP!Live, RP!TaskRow
<1>5. LogInv'
  BY <1>1, <1>2, <1>4, OtherIsTold
<1>6. /\ Claims(log', lease', processes', clock')
      /\ \A n \in DOMAIN log' : \/ n \in DOMAIN log /\ log'[n] = log[n]
                                \/ log'[n].type = "task_completed" /\ log'[n].at = clock
  BY <1>1, <1>2, OneWritten
<1>7. LeaseInv'
  BY <1>1 DEF LeaseInv
<1>8. OperationInv'
  BY <1>1, <1>6, TimesStand DEF OperationInv, StatusTypes, Mirrored
<1> QED
  BY <1>2, <1>3, <1>5, <1>6, <1>7, <1>8
----------------------------------------------------------------------------
(* The steps of startups *)

\* The events that a consumption writes are not claimed.
LEMMA ConsumptionIsUnclaimed ==
  ASSUME PEP!IInv, NEW M \in Seq(EventRow), NEW i \in Incidents, NEW at \in Nat, PE!Consume(i, at),
         NEW held, NEW procs, NEW time, Claims(M, held, procs, time)
  PROVE  Claims(M \o ConsumptionEvents(consumed'[i], at), held, procs, time)
<1>1. PICK w \in Windows, hours \in Nat :
           /\ consumed'[i] = w /\ windows[w].ext \in Nat
           /\ \A v \in Windows \ {w} : windows'[v] = windows[v] /\ lastEvent'[v] = lastEvent[v]
           /\ windows'[w].status # "none"
           /\ \/ /\ windows[w].status = "none" /\ windows'[w].ext = hours
                 /\ lastEvent'[w] = "started"
              \/ /\ windows[w].status # "none" /\ windows'[w].ext = windows[w].ext + hours
                 /\ lastEvent'[w] = lastEvent[w]
  BY ConsumptionRow, Zenon
<1> DEFINE target == BaseHours + windows'[w].ext
           d == Event("started", w, BaseHours, at)
           e == Event("target_duration_changed", w, target, at)
<1>2. BaseHours \in Nat /\ target \in Nat
  <2>1. windows'[w].ext = hours \/ windows'[w].ext = windows[w].ext + hours
    BY <1>1, Zenon
  <2>2. windows[w].ext \in Nat /\ hours \in Nat
    BY <1>1, Zenon
  <2>3. windows'[w].ext \in Nat
    BY <2>1, <2>2
  <2> QED
    BY <2>3, EngineConstants
<1>3. d \in EventRow /\ d.claim = None /\ e \in EventRow /\ e.claim = None
  <2> HIDE DEF target
  <2> QED
    BY <1>2 DEF Event, EventRow
<1>4. \/ ConsumptionEvents(w, at) = <<>> \o <<>>
      \/ ConsumptionEvents(w, at) = <<d>> \o <<>>
      \/ ConsumptionEvents(w, at) = <<>> \o <<e>>
      \/ ConsumptionEvents(w, at) = <<d>> \o <<e>>
  <2>1. ConsumptionEvents(w, at) =
          (IF ~PE!Exists(w) THEN <<d>> ELSE <<>>)
            \o (IF windows'[w].ext > IF ~PE!Exists(w) THEN 0 ELSE windows[w].ext
                  THEN <<e>> ELSE <<>>)
    BY DEF ConsumptionEvents
  <2> HIDE DEF d, e
  <2> QED
    BY <2>1
<1> HIDE DEF d, e, target
<1>5. \/ M \o ConsumptionEvents(w, at) = M
      \/ M \o ConsumptionEvents(w, at) = Append(M, d)
      \/ M \o ConsumptionEvents(w, at) = Append(M, e)
      \/ M \o ConsumptionEvents(w, at) = Append(Append(M, d), e)
  <2>1. /\ M \o (<<>> \o <<>>) = M
        /\ M \o (<<d>> \o <<>>) = Append(M, d)
        /\ M \o (<<>> \o <<e>>) = Append(M, e)
        /\ M \o (<<d>> \o <<e>>) = Append(Append(M, d), e)
    BY <1>3, EventsInARow
  <2>2. CASE ConsumptionEvents(w, at) = <<>> \o <<>>
    BY Zenon, <2>1, <2>2
  <2>3. CASE ConsumptionEvents(w, at) = <<d>> \o <<>>
    BY Zenon, <2>1, <2>3
  <2>4. CASE ConsumptionEvents(w, at) = <<>> \o <<e>>
    BY Zenon, <2>1, <2>4
  <2>5. CASE ConsumptionEvents(w, at) = <<d>> \o <<e>>
    BY Zenon, <2>1, <2>5
  <2> QED
    BY Zenon, <1>4, <2>2, <2>3, <2>4, <2>5
<1>6. ASSUME NEW L \in Seq(EventRow), Claims(L, held, procs, time), NEW row \in EventRow, row.claim = None
      PROVE  Append(L, row) \in Seq(EventRow) /\ Claims(Append(L, row), held, procs, time)
  <2>1. Grown(L, Append(L, row), row)
    BY AppendGrows
  <2>2. Claims(Append(L, row), held, procs, time)
    BY <1>6, <2>1, ClaimsGrow
  <2> QED
    BY <2>1, <2>2 DEF Grown
<1>7. Append(M, d) \in Seq(EventRow) /\ Claims(Append(M, d), held, procs, time)
  BY <1>3, <1>6
<1>8. Claims(Append(M, e), held, procs, time) /\ Claims(Append(Append(M, d), e), held, procs, time)
  BY <1>3, <1>6, <1>7
<1> QED
  BY Zenon, <1>1, <1>5, <1>7, <1>8

\* Handling leaves operations and startups alone, and keeps the rest.
Handling(n) ==
  /\ PEP!IInv' /\ PlansInv' /\ TasksHavePlans' /\ LogInv'
  /\ UNCHANGED <<clock, threads>>
  /\ \A held, procs, time :
       Claims([log EXCEPT ![n].done = TRUE], held, procs, time) => Claims(log', held, procs, time)

\* So does the handler of incident.confirmation_changed,
LEMMA ConfirmationKeeps ==
  ASSUME IInv, NEW n, ItsTurn(n), log[n].type = "confirmed", OnIncidentConfirmationChanged(n)
  PROVE  Handling(n)
<1> USE DEF IInv
<1> DEFINE i == log[n].subject
           at == log[n].at
           M == [log EXCEPT ![n].done = TRUE]
<1>1. /\ log \in Seq(EventRow) /\ n \in DOMAIN log /\ log[n] \in EventRow /\ RowsOf(log, clock)
  BY LogRows DEF LogInv, ItsTurn
<1>2. i \in Incidents /\ at \in Nat /\ at <= clock
  BY <1>1 DEF RowsOf, EventRow
<1>3. /\ PE!Consume(i, at) /\ log' = M \o ConsumptionEvents(consumed'[i], at)
      /\ UNCHANGED <<clock, freezes, incidents, credits, threads, crashes>> /\ UNCHANGED plan
  BY DEF OnIncidentConfirmationChanged, Handled, plan
<1>4. M \in Seq(EventRow)
  BY <1>1, DoneIsMarked DEF Marked
<1> HIDE DEF M, i, at
<1>5. \A held, procs, time : Claims(M, held, procs, time) => Claims(log', held, procs, time)
  BY <1>2, <1>3, <1>4, ConsumptionIsUnclaimed
<1>6. PEP!IInv'
  <2>1. PEP!Consume(i, at)
    BY <1>3, ConsumptionStep
  <2>2. PEP!DataInv /\ PEP!ThreadInv
    BY DEF PEP!IInv
  <2>3. PEP!DataInv' /\ PEP!Monotone
    BY <1>2, <1>3, <2>1, <2>2, EngineAssumptions, PEP!ConsumeStep
  <2>4. PEP!ThreadInv'
    BY <1>3, <2>2, <2>3 DEF PEP!ThreadInv, PEP!Monotone, PEP!Exists
  <2> QED
    BY <2>3, <2>4 DEF PEP!IInv
<1>7. PlansInv' /\ TasksHavePlans'
  BY <1>3, PlansStand
<1>8. LogInv'
  BY ConfirmationIsHandled
<1> QED
  BY <1>3, <1>5, <1>6, <1>7, <1>8 DEF Handling, M

\* the handlers of the plan,
LEMMA PlanKeeps ==
  ASSUME IInv, NEW n, ItsTurn(n),
         \/ log[n].type = "started" /\ OnPenaltyWindowStarted(n)
         \/ log[n].type \in DOMAIN Mirrored /\ OnPenaltyWindowMoved(n)
         \/ log[n].type = "target_duration_changed" /\ OnTargetDurationChanged(n)
  PROVE  Handling(n)
<1> USE DEF IInv
<1>1. /\ log \in Seq(EventRow) /\ n \in DOMAIN log /\ log[n] \in EventRow
  BY LogRows DEF LogInv, ItsTurn
<1>2. log[n].subject \in Windows /\ log[n].hours \in Nat
  BY <1>1 DEF LogInv, RowsOf, StatusTypes, CapacityTypes, EventRow
<1>3. UNCHANGED engine /\ Handled(n, <<>>)
  BY DEF OnPenaltyWindowStarted, OnPenaltyWindowMoved, OnTargetDurationChanged
<1>4. RP!Next
  <2>1. \A type \in DOMAIN Mirrored : Mirrored[type] \in {"active", "frozen", "completed"}
    BY DEF Mirrored
  <2> QED
    BY <1>2, <2>1 DEF RP!Next, OnPenaltyWindowStarted, OnPenaltyWindowMoved, OnTargetDurationChanged
<1>5. PlansInv' /\ TasksHavePlans'
  BY <1>4, NextPlansInv, TasksKeepTheirPlans
<1>6. PEP!IInv'
  BY <1>3, EngineStands
<1>7. LogInv'
  BY StartIsHandled, MoveIsHandled, TargetIsHandled
<1>8. log' = [log EXCEPT ![n].done = TRUE]
  BY <1>1, <1>3, NothingWritten
<1>9. UNCHANGED <<clock, threads>>
  BY <1>3 DEF engine
<1> QED
  BY <1>5, <1>6, <1>7, <1>8, <1>9 DEF Handling

\* and that of recovery_plan.task_completed.
LEMMA CreditKeeps ==
  ASSUME IInv, NEW n, ItsTurn(n), log[n].type = "task_completed", OnRecoveryPlanTaskCompleted(n)
  PROVE  Handling(n)
<1> USE DEF IInv
<1> DEFINE k == log[n].subject
           w == tasks[k].plan
<1>1. /\ log \in Seq(EventRow) /\ n \in DOMAIN log
  BY DEF LogInv, ItsTurn
<1>2. k \in Tasks
  BY <1>1 DEF LogInv, RowsOf
<1>3. w \in Windows
  <2>1. CreditTold(log, k, tasks[k], credits[k]) /\ Completes(log, n, k)
    BY <1>2 DEF LogInv, Completes
  <2>2. tasks[k].status = "completed"
    BY <1>1, <2>1 DEF CreditTold
  <2> QED
    BY <1>2, <2>2 DEF TasksHavePlans
<1>4. PE!RecordRecoveryCredit(k, w) /\ Handled(n, <<>>) /\ UNCHANGED plan
  BY DEF OnRecoveryPlanTaskCompleted
<1>5. LogInv'
  BY <1>3, CompletionIsHandled
<1> HIDE DEF k, w
<1>6. PEP!IInv'
  <2>1. PEP!RecordRecoveryCredit(k, w)
    BY <1>2, <1>3, <1>4, EngineSteps
  <2> QED
    BY <1>2, <1>3, <2>1, EngineAssumptions, PEP!CreditStep
<1>7. PlansInv' /\ TasksHavePlans'
  BY <1>4, PlansStand
<1>8. log' = [log EXCEPT ![n].done = TRUE]
  BY <1>1, <1>4, NothingWritten
<1>9. UNCHANGED <<clock, threads>>
  BY <1>4 DEF PE!RecordRecoveryCredit
<1> QED
  BY <1>5, <1>6, <1>7, <1>8, <1>9 DEF Handling
\* The next of a batch is one whose turn it is, if it was not handled before.
LEMMA NextOfBatch ==
  ASSUME LogInv, Claims(log, lease, processes, clock), NEW p \in Processes, NEW n \in processes[p].left,
         \A m \in processes[p].left \ {n} : Before(n, m), ~log[n].done
  PROVE  ItsTurn(n)
<1>1. /\ n \in DOMAIN log
      /\ \A m \in DOMAIN log : Follows(log, m, n) /\ ~log[m].done => m \in processes[p].left
  BY DEF Claims
<1>2. ASSUME NEW m \in DOMAIN log, Follows(log, m, n), ~log[m].done PROVE FALSE
  <2>1. m \in Nat /\ n \in Nat /\ log[m].at \in Nat /\ log[n].at \in Nat
    BY <1>1, LogRows DEF LogInv, EventRow
  <2>2. m < n /\ log[m].at <= log[n].at
    BY <1>1, <1>2 DEF Follows, LogInv, Ordered
  <2>3. Before(n, m)
    BY <1>1, <1>2, <2>1, <2>2
  <2> QED
    BY <2>1, <2>2, <2>3 DEF Before
<1> QED
  BY <1>1, <1>2 DEF ItsTurn

\* consume_event(), of the next event or of one that was handled before.
LEMMA DispatchKeeps ==
  ASSUME IInv, NEW p \in Processes, Dispatch(p)
  PROVE  IInv'
<1> USE DEF IInv
<1>1. PICK n \in processes[p].left :
        /\ \A m \in processes[p].left \ {n} : Before(n, m)
        /\ processes' = [processes EXCEPT ![p].left = @ \ {n}]
        /\ \/ log[n].done /\ UNCHANGED <<engine, plan, log>>
           \/ ~log[n].done /\ Handle(n)
  BY DEF Dispatch
<1>2. /\ log \in Seq(EventRow) /\ n \in DOMAIN log /\ log[n] \in EventRow /\ lease' = lease
      /\ processes[p].pc = "dispatching" /\ processes[p] \in ProcessState
  BY LogRows DEF LogInv, Claims, LeaseInv, Dispatch
<1> DEFINE M == [log EXCEPT ![n].done = TRUE]
           s == [processes[p] EXCEPT !.left = processes[p].left \ {n}]
<1>3. /\ Marked(log, M, n)
      /\ \A m \in DOMAIN log : M[m].claim = log[m].claim /\ M[m].published = log[m].published
  BY <1>2, DoneIsMarked
<1> HIDE DEF M
<1>4. /\ PEP!IInv' /\ PlansInv' /\ TasksHavePlans' /\ LogInv'
      /\ UNCHANGED <<clock, threads>>
      /\ \A held, procs, time : Claims(M, held, procs, time) => Claims(log', held, procs, time)
  <2>1. CASE log[n].done /\ UNCHANGED <<engine, plan, log>>
    <3>1. M = log
      <4>1. /\ M \in Seq(EventRow) /\ DOMAIN M = DOMAIN log
            /\ DOMAIN log = 1..Len(log) /\ Len(log) \in Nat
        BY <1>2, <1>3, LogRows DEF Marked
      <4>2. [log[n] EXCEPT !.done = TRUE] = log[n]
        BY <1>2, <2>1 DEF EventRow
      <4> QED
        BY <1>2, <4>2 DEF M
    <3>2. PEP!IInv' /\ clock \in Nat
      BY <2>1, EngineStands, EngineFacts DEF PE!TypeOK
    <3>3. PlansInv' /\ TasksHavePlans'
      BY <2>1, PlansStand
    <3>4. LogInv'
      BY <2>1, <3>2, LogStands DEF engine, plan
    <3> QED
      BY <2>1, <3>1, <3>2, <3>3, <3>4 DEF engine
  <2>2. CASE ~log[n].done /\ Handle(n)
    <3>1. ItsTurn(n)
      BY <1>1, <2>2, NextOfBatch
    <3>2. Handling(n)
      BY <2>2, <3>1, ConfirmationKeeps, PlanKeeps, CreditKeeps DEF Handle
    <3> QED
      BY <3>2 DEF Handling, M
  <2> QED
    BY <1>1, <2>1, <2>2
<1>5. /\ s \in ProcessState /\ s.pc = "dispatching" /\ s.now = processes[p].now
      /\ s.batch = processes[p].batch /\ s.left = processes[p].left \ {n}
  BY <1>2 DEF ProcessState
<1>6. processes' = [processes EXCEPT ![p] = s]
  BY <1>1, <1>2 DEF LeaseInv
<1> HIDE DEF s
<1>7. LeaseInv' /\ processes'[p] = s /\ \A q \in Processes \ {p} : processes'[q] = processes[q]
  BY <1>2, <1>4, <1>5, <1>6, StartupMoves
<1>8. \A q \in Processes \ {p} : processes[q].pc = "idle"
  BY <1>2, OneHolder
<1>9. OperationInv'
  BY <1>2, <1>4, <1>5, <1>7, LaterStages
<1>10. Claims(M, lease, processes', clock)
  BY <1>2, <1>3, <1>5, <1>7, <1>8, ClaimsHandled
<1>11. Claims(log', lease', processes', clock')
  BY <1>2, <1>4, <1>10
<1> QED
  BY <1>4, <1>7, <1>9, <1>11

\* A startup takes the lease.
LEMMA AcquireKeeps ==
  ASSUME IInv, NEW p \in Processes, AcquireLease(p)
  PROVE  IInv'
<1> USE DEF IInv
<1>1. /\ UNCHANGED engine /\ UNCHANGED plan /\ UNCHANGED <<plans, tasks, log>>
      /\ UNCHANGED <<clock, windows, lastEvent, credits, threads>>
  BY DEF AcquireLease, engine, plan
<1>2. PEP!IInv' /\ clock \in Nat
  BY <1>1, EngineStands, EngineFacts DEF PE!TypeOK
<1>3. PlansInv' /\ TasksHavePlans'
  BY <1>1, PlansStand
<1>4. LogInv'
  BY <1>1, <1>2, LogStands
<1>5. /\ LeaseInv' /\ Claims(log, lease', processes', clock')
      /\ \A q \in Processes : processes[q].pc = "idle"
      /\ processes'[p].now = clock
  BY <1>2, AcquireStep
<1>6. \A q \in Processes \ {p} : processes'[q] = processes[q]
  BY DEF AcquireLease, LeaseInv
<1>7. \A t \in Threads : threads[t].now <= clock
  BY EngineFacts
<1>8. OperationInv'
  <2>1. \A q \in Processes : threads[q] = PE!Idle
    BY <1>5 DEF OperationInv
  <2>2. \A n \in DOMAIN log : log[n].at <= clock
    BY DEF LogInv, RowsOf
  <2> QED
    BY <1>1, <1>5, <1>6, <1>7, <2>1, <2>2 DEF OperationInv
<1>9. log' = log
  BY <1>1
<1> QED
  BY <1>2, <1>3, <1>4, <1>5, <1>8, <1>9

\* It begins to bring the windows up to date, if one is open.
LEMMA RecoveryKeeps ==
  ASSUME IInv, NEW p \in Processes, BeginRecovery(p)
  PROVE  IInv'
<1> USE DEF IInv
<1> DEFINE now == processes[p].now
<1>1. /\ processes[p].pc = "recovering" /\ UNCHANGED <<plans, tasks, log, lease>>
      /\ now \in Nat /\ now <= clock
  BY DEF BeginRecovery, LeaseInv, ProcessState, plan
<1>2. /\ UNCHANGED <<clock, windows, lastEvent, credits>>
      /\ \/ /\ PE!BeginEnsureAt(p, now)
            /\ processes' = [processes EXCEPT ![p].pc = "ensuring"]
         \/ UNCHANGED engine /\ processes' = [processes EXCEPT ![p].pc = "claiming"]
  BY DEF BeginRecovery, PE!BeginEnsureAt, engine
<1> HIDE DEF now
<1>3. p \in Threads /\ clock \in Nat
  BY ProcessesAreThreads, EngineFacts DEF PE!TypeOK
<1>4. PEP!IInv'
  <2>1. PE!BeginEnsureAt(p, now) => PEP!BeginEnsureAt(p, now)
    BY <1>1, <1>3, EngineSteps
  <2>2. PEP!BeginEnsureAt(p, now) => PEP!IInv'
    BY <1>1, <1>3, EngineAssumptions, PEP!BeginEnsureStep
  <2> QED
    BY <1>2, <2>1, <2>2, EngineStands
<1>5. PlansInv' /\ TasksHavePlans'
  BY <1>1, PlansStand DEF plan
<1>6. LogInv'
  BY <1>1, <1>2, <1>3, LogStands
<1>7. PICK pc \in {"ensuring", "claiming"} :
        /\ processes' = [processes EXCEPT ![p].pc = pc]
        /\ \/ pc = "ensuring" /\ PE!BeginEnsureAt(p, now)
           \/ pc = "claiming" /\ UNCHANGED engine
  BY <1>2
<1>8. /\ LeaseInv' /\ Claims(log, lease', processes', clock')
      /\ processes'[p].pc = pc /\ processes'[p].now = now
      /\ \A q \in Processes \ {p} : processes'[q] = processes[q] /\ processes[q].pc = "idle"
  BY <1>1, <1>2, <1>7, StageStep DEF now
<1>9. OperationInv'
  <2>1. CASE pc = "ensuring"
    <3>1. PE!BeginEnsureAt(p, now)
      BY <1>7, <2>1
    <3> QED
      BY <1>1, <1>2, <1>3, <1>8, <2>1, <3>1, OperationBegins DEF now
  <2>2. CASE pc = "claiming"
    <3>1. UNCHANGED <<threads, clock>>
      BY <1>7, <2>2 DEF engine
    <3>2. \A q \in Processes : threads[q] = PE!Idle
      BY <1>1, <1>8 DEF OperationInv
    <3> QED
      BY <1>8, <2>2, <3>1, <3>2 DEF OperationInv
  <2> QED
    BY <2>1, <2>2
<1>10. log' = log
  BY <1>1
<1> QED
  BY <1>4, <1>5, <1>6, <1>8, <1>9, <1>10

\* It is done with the windows.
LEMMA EndKeeps ==
  ASSUME IInv, NEW p \in Processes, EndRecovery(p)
  PROVE  IInv'
<1> USE DEF IInv
<1>1. /\ processes[p].pc = "ensuring" /\ threads[p] = PE!Idle
      /\ processes' = [processes EXCEPT ![p].pc = "claiming"]
      /\ UNCHANGED engine /\ UNCHANGED plan /\ UNCHANGED <<plans, tasks, log, lease>>
      /\ UNCHANGED <<clock, windows, lastEvent, credits, threads>>
  BY DEF EndRecovery, engine, plan
<1>2. PEP!IInv' /\ clock \in Nat
  BY <1>1, EngineStands, EngineFacts DEF PE!TypeOK
<1>3. PlansInv' /\ TasksHavePlans'
  BY <1>1, PlansStand
<1>4. LogInv'
  BY <1>1, <1>2, LogStands
<1>5. /\ LeaseInv' /\ Claims(log, lease', processes', clock')
      /\ processes'[p].pc = "claiming"
      /\ \A q \in Processes \ {p} : processes'[q] = processes[q] /\ processes[q].pc = "idle"
  BY <1>1, StageStep
<1>6. OperationInv'
  <2>1. \A q \in Processes : threads[q] = PE!Idle
    BY <1>1, <1>5 DEF OperationInv
  <2> QED
    BY <1>1, <1>5, <2>1 DEF OperationInv
<1>7. log' = log
  BY <1>1
<1> QED
  BY <1>2, <1>3, <1>4, <1>5, <1>6, <1>7
\* It claims a batch, or finds none.
LEMMA ClaimKeeps ==
  ASSUME IInv, NEW p \in Processes, Claim(p)
  PROVE  IInv'
<1> USE DEF IInv
<1>1. /\ processes[p].pc = "claiming" /\ UNCHANGED engine /\ UNCHANGED plan
      /\ UNCHANGED <<threads, clock>>
  BY DEF Claim, engine, plan
<1>2. LogInv' /\ LeaseInv' /\ Claims(log', lease', processes', clock')
  BY ClaimStep
<1>3. /\ \A q \in Processes \ {p} : processes'[q] = processes[q]
      /\ processes'[p].pc \in {"releasing", "dispatching"}
  <2> DEFINE next == IF Claimable(processes[p].now) = {} THEN "releasing" ELSE "dispatching"
             batch == ClaimedBatch(processes[p].now)
  <2>1. processes' = [processes EXCEPT ![p].pc = next, ![p].batch = batch, ![p].left = batch]
    BY DEF Claim, ClaimedBatch
  <2>2. processes[p] \in ProcessState /\ processes \in [Processes -> ProcessState]
    BY DEF LeaseInv
  <2>3. next \in {"releasing", "dispatching"}
    OBVIOUS
  <2> HIDE DEF next, batch
  <2> QED
    BY <2>1, <2>2, <2>3 DEF ProcessState
<1>4. OperationInv'
  BY <1>1, <1>3, LaterStages
<1>5. PEP!IInv' /\ PlansInv' /\ TasksHavePlans'
  BY <1>1, EngineStands, PlansStand
<1> QED
  BY <1>2, <1>4, <1>5

\* The batch is published.
LEMMA MarkKeeps ==
  ASSUME IInv, NEW p \in Processes, MarkPublished(p)
  PROVE  IInv'
<1> USE DEF IInv
<1>1. /\ processes[p].pc = "dispatching" /\ UNCHANGED engine /\ UNCHANGED plan
      /\ UNCHANGED <<threads, clock>>
      /\ processes' = [processes EXCEPT ![p].pc = "claiming", ![p].batch = {}]
  BY DEF MarkPublished, engine, plan
<1>2. LogInv' /\ LeaseInv' /\ Claims(log', lease', processes', clock')
  BY MarkStep
<1>3. /\ \A q \in Processes \ {p} : processes'[q] = processes[q]
      /\ processes'[p].pc = "claiming"
  BY <1>1 DEF LeaseInv, ProcessState
<1>4. OperationInv'
  BY <1>1, <1>3, LaterStages
<1>5. PEP!IInv' /\ PlansInv' /\ TasksHavePlans'
  BY <1>1, EngineStands, PlansStand
<1> QED
  BY <1>2, <1>4, <1>5

\* It raises: what it was at is gone, as when it dies.
LEMMA RaiseKeeps ==
  ASSUME IInv, NEW p \in Processes, Raise(p)
  PROVE  IInv'
<1> USE DEF IInv
<1>1. /\ clock \in Nat /\ threads \in [Threads -> PE!ThreadState] /\ p \in Threads
      /\ threads' = [threads EXCEPT ![p] = PE!Idle] /\ crashes' = crashes + 1
      /\ UNCHANGED <<clock, windows, freezes, incidents, consumed, credits, lastEvent>>
      /\ UNCHANGED <<plans, tasks, log, lease>>
  BY EngineFacts, ProcessesAreThreads DEF Raise, Abandon, plan, PE!TypeOK
<1>2. PEP!IInv'
  <2>1. threads' = [u \in Threads |-> IF u \in {p} THEN PEP!Idle ELSE threads[u]]
    BY <1>1 DEF PE!Idle, PEP!Idle
  <2> QED
    BY <1>1, <2>1, EngineAssumptions, PEP!ThreadsDie
<1>3. PlansInv' /\ TasksHavePlans'
  BY <1>1, PlansStand DEF plan
<1>4. LogInv'
  BY <1>1, LogStands
<1>5. /\ LeaseInv' /\ Claims(log, lease', processes', clock')
      /\ processes'[p].pc = "releasing"
      /\ \A q \in Processes \ {p} : processes'[q] = processes[q] /\ processes[q].pc = "idle"
  BY RaiseStep
<1>6. OperationInv'
  <2>1. threads'[p] = PE!Idle /\ \A u \in Threads \ {p} : threads'[u] = threads[u]
    BY <1>1
  <2>2. \A q \in Processes : q \in Threads
    BY ProcessesAreThreads
  <2> QED
    BY <1>1, <1>5, <2>1, <2>2 DEF OperationInv
<1>7. log' = log
  BY <1>1
<1> QED
  BY <1>2, <1>3, <1>4, <1>5, <1>6, <1>7

\* The lease is released.
LEMMA ReleaseKeeps ==
  ASSUME IInv, NEW p \in Processes, ReleaseLease(p)
  PROVE  IInv'
<1> USE DEF IInv
<1>1. /\ processes[p].pc = "releasing" /\ UNCHANGED engine /\ UNCHANGED <<plan, log>>
      /\ UNCHANGED <<threads, clock, windows, lastEvent, credits, plans, tasks>>
      /\ processes' = [processes EXCEPT ![p] = Idle]
  BY DEF ReleaseLease, engine, plan
<1>2. LeaseInv' /\ Claims(log, lease', processes', clock') /\ log' = log
  BY <1>1, ReleaseStep, EngineFacts DEF PE!TypeOK
<1>3. /\ \A q \in Processes \ {p} : processes'[q] = processes[q]
      /\ processes'[p].pc = "idle"
  BY <1>1 DEF LeaseInv, Idle
<1>4. OperationInv'
  BY <1>1, <1>3, LaterStages
<1>5. PEP!IInv' /\ PlansInv' /\ TasksHavePlans' /\ clock \in Nat
  BY <1>1, EngineStands, PlansStand, EngineFacts DEF PE!TypeOK
<1>6. LogInv'
  BY <1>1, <1>2, <1>5, LogStands
<1> QED
  BY <1>2, <1>4, <1>5, <1>6

----------------------------------------------------------------------------

\* Nothing is there, and nobody runs.
LEMMA InitIInv == Init => IInv
<1> SUFFICES ASSUME Init PROVE IInv
  OBVIOUS
<1>1. PEP!IInv
  BY EngineSteps, EngineAssumptions, PEP!InitIInv DEF Init
<1>2. PlansInv /\ TasksHavePlans
  BY InitPlansInv DEF Init, RP!Init, RP!NoTask, TasksHavePlans
<1>3. DOMAIN log = {} /\ log \in Seq(EventRow) /\ log = <<>>
  BY DEF Init
<1>4. LogInv
  <2>1. \A w \in Windows : windows[w].status = "none" /\ plans[w].status = "none"
    BY DEF Init, PE!Init, PE!NoWindow, RP!Init, RP!NoPlan
  <2>2. \A k \in Tasks : tasks[k].status = "none" /\ credits[k].window = None
    BY DEF Init, PE!Init, RP!Init, RP!NoTask
  <2> QED
    BY <1>3, <2>1, <2>2 DEF LogInv, RowsOf, Ordered, WindowTold, PlanTold, CreditTold
<1>5. /\ \A p \in Processes : processes[p] = Idle /\ p \in Threads
      /\ \A t \in Threads : threads[t] = PE!Idle
      /\ processes = [p \in Processes |-> Idle] /\ lease = NoLease
  BY ProcessesAreThreads DEF Init, PE!Init
<1>6. LeaseInv
  <2>1. Idle \in ProcessState /\ Idle.pc = "idle"
    BY DEF Idle, ProcessState
  <2>2. NoLease \in [holder: Processes \union {None}, expires: Nat]
    BY DEF NoLease
  <2> QED
    BY <1>5, <2>1, <2>2 DEF LeaseInv
<1>7. OperationInv
  BY <1>5 DEF OperationInv, Idle
<1>8. Claims(log, lease, processes, clock)
  BY <1>3, <1>5 DEF Claims, Idle
<1> QED
  BY <1>1, <1>2, <1>4, <1>6, <1>7, <1>8 DEF IInv

\* The invariant is kept by every step.
LEMMA NextIInv == IInv /\ [Next]_vars => IInv'
<1> SUFFICES ASSUME IInv, [Next]_vars PROVE IInv'
  OBVIOUS
<1>1. CASE Tick
  BY <1>1, TickKeeps
<1>2. CASE \E t \in Threads : Crash(t) \/ BeginEnsure(t) \/ EnsureStep(t)
  BY <1>2, CrashKeeps, BeginKeeps, EnsureKeeps
<1>3. CASE \E i \in Incidents : ReportIncident(i) \/ ConfirmIncident(i)
  BY <1>3, ReportKeeps, ConfirmKeeps
<1>4. CASE \E w \in Windows, reason \in FreezeReasons, expires \in Expiries :
             Freeze(w, reason, expires)
  BY <1>4, FreezeKeeps
<1>5. CASE \E w \in Windows, reason \in FreezeReasons : Resume(w, reason)
  BY <1>5, ResumeKeeps
<1>6. CASE \E k \in Tasks : TaskOperation(k) \/ CompleteTask(k)
  BY <1>6, TaskKeeps, CompleteTaskKeeps
<1>7. CASE \E p \in Processes : Startup(p)
  BY <1>7, AcquireKeeps, RecoveryKeeps, EndKeeps, ClaimKeeps, DispatchKeeps, MarkKeeps,
     RaiseKeeps, ReleaseKeeps DEF Startup
<1>8. CASE UNCHANGED vars
  <2>1. /\ UNCHANGED engine /\ UNCHANGED plan /\ UNCHANGED <<log, lease, processes>>
        /\ UNCHANGED <<clock, windows, lastEvent, credits, plans, tasks, threads>>
    BY <1>8 DEF vars, engine, plan
  <2>2. clock \in Nat
    BY EngineFacts DEF IInv, PE!TypeOK
  <2>3. PEP!IInv' /\ PlansInv' /\ TasksHavePlans' /\ LogInv'
    BY <2>1, <2>2, EngineStands, PlansStand, LogStands DEF IInv
  <2>4. LeaseInv' /\ OperationInv' /\ Claims(log', lease', processes', clock')
    BY <2>1 DEF IInv, LeaseInv, OperationInv
  <2> QED
    BY <2>3, <2>4 DEF IInv
<1> QED
  BY <1>1, <1>2, <1>3, <1>4, <1>5, <1>6, <1>7, <1>8 DEF Next

\* IInv is an invariant of the system.
THEOREM Invariance == Spec => []IInv
BY InitIInv, NextIInv, PTL DEF Spec

\* Type correctness.
THEOREM TypeCorrect == Spec => []TypeOK
<1>1. IInv => TypeOK
  <2> SUFFICES ASSUME IInv PROVE TypeOK
    OBVIOUS
  <2>1. PE!TypeOK /\ RP!TypeOK
    BY EngineFacts DEF IInv, PlansInv
  <2>2. log \in Seq(EventRow) /\ DOMAIN log = 1..Len(log)
    BY LogRows DEF IInv, LogInv
  <2>3. processes \in [Processes ->
         [pc: {"idle", "recovering", "ensuring", "claiming", "dispatching", "releasing"},
          now: Nat, batch: SUBSET (1..Len(log)), left: SUBSET (1..Len(log))]]
    <3>1. /\ processes \in [Processes -> ProcessState]
          /\ \A p \in Processes : processes[p].batch \subseteq 1..Len(log)
                                  /\ processes[p].left \subseteq 1..Len(log)
      BY <2>2 DEF IInv, LeaseInv, Claims
    <3>2. ASSUME NEW p \in Processes
          PROVE  processes[p] \in
            [pc: {"idle", "recovering", "ensuring", "claiming", "dispatching", "releasing"},
             now: Nat, batch: SUBSET (1..Len(log)), left: SUBSET (1..Len(log))]
      BY <3>1 DEF ProcessState
    <3> QED
      BY <3>1, <3>2
  <2> QED
    BY <2>1, <2>2, <2>3 DEF TypeOK, IInv, LeaseInv, EventRow
<1> QED
  BY Invariance, <1>1, PTL

\* At most one process is in startup, and it has the lease, however many died in theirs.
THEOREM OneStartupAlways == Spec => []OneStartupAtATime
<1>1. IInv => OneStartupAtATime
  BY OneHolder DEF IInv, LeaseInv, OneStartupAtATime
<1> QED
  BY Invariance, <1>1, PTL

\* Once every event is handed off each window has the plan it should have: the last of
\* its events told its row, and the last that was handled told the plan.
THEOREM PlansMirror == Spec => []PlanMirrorsWindow
<1>1. IInv => PlanMirrorsWindow
  <2> SUFFICES ASSUME IInv, Drained, NEW w \in Windows
               PROVE  /\ plans[w].status = windows[w].status
                      /\ PE!Exists(w) => plans[w].capacity = PE!Target(windows[w])
    BY DEF PlanMirrorsWindow
  <2>1. /\ WindowTold(log, w, windows[w], lastEvent[w]) /\ PlanTold(log, w, plans[w])
        /\ \A n \in DOMAIN log : log[n].done /\ n \in Nat
    BY LogRows DEF IInv, LogInv, RowsOf, Drained
  <2>2. /\ windows[w] \in PE!WindowRow /\ PE!EventsTellStatus
        /\ PE!Exists(w) => BaseHours + windows[w].ext <= MaxTarget
    BY EngineFacts DEF IInv, PE!TypeOK, PE!ExtensionsWithinCap
  <2>3. CASE windows[w].status = "none"
    <3>1. plans[w].status = "none"
      BY <2>1, <2>3 DEF WindowTold, PlanTold
    <3> QED
      BY <2>3, <3>1 DEF PE!Exists
  <2>4. CASE windows[w].status # "none"
    <3>1. PICK n \in DOMAIN log : /\ TellsStatus(log, n, w) /\ log[n].type = lastEvent[w]
                                  /\ \A m \in DOMAIN log : TellsStatus(log, m, w) => m <= n
      BY <2>1, <2>4 DEF WindowTold
    <3>2. PICK c \in DOMAIN log : /\ TellsCapacity(log, c, w)
                                  /\ log[c].hours = BaseHours + windows[w].ext
                                  /\ \A m \in DOMAIN log : TellsCapacity(log, m, w) => m <= c
      BY <2>1, <2>4 DEF WindowTold
    <3>3. plans[w].status # "none"
      <4>1. \E m \in DOMAIN log : Starts(log, m, w)
        BY <2>1, <3>1 DEF WindowTold
      <4> QED
        BY <2>1, <4>1 DEF PlanTold
    <3>4. PICK m \in DOMAIN log : /\ TellsStatus(log, m, w) /\ plans[w].status = StatusOf(log[m].type)
                                  /\ \A j \in DOMAIN log : TellsStatus(log, j, w) => j <= m
      BY <2>1, <3>3 DEF PlanTold
    <3>5. PICK d \in DOMAIN log : /\ TellsCapacity(log, d, w) /\ plans[w].capacity = log[d].hours
                                  /\ \A j \in DOMAIN log : TellsCapacity(log, j, w) => j <= d
      BY <2>1, <3>3 DEF PlanTold
    <3>6. m = n /\ c = d
      BY <2>1, <3>1, <3>2, <3>4, <3>5
    <3>7. plans[w].status = windows[w].status
      BY <2>2, <2>4, <3>1, <3>4, <3>6 DEF PE!EventsTellStatus, StatusOf, Mirrored, PE!WindowRow,
         TellsStatus, StatusTypes
    <3>8. plans[w].capacity = PE!Target(windows[w])
      BY <2>2, <2>4, <3>2, <3>5, <3>6 DEF PE!Target, PE!Least, PE!Exists
    <3> QED
      BY <3>7, <3>8
  <2> QED
    BY <2>3, <2>4
<1> QED
  BY Invariance, <1>1, PTL

\* Hours are credited for completed tasks only, to the window of the task's plan, and
\* once every event is handed off every completed task has its decision.
THEOREM CreditFollows == Spec => []CreditFollowsCompletion
<1>1. IInv => CreditFollowsCompletion
  BY DEF IInv, LogInv, RowsOf, CreditTold, Completes, Drained, CreditFollowsCompletion
<1> QED
  BY Invariance, <1>1, PTL

\* Every step of the system is a step of the Recovery Plan, or leaves the plans alone.
LEMMA NextIsPlans == IInv /\ [Next]_vars => [RP!Next]_RP!vars
<1> SUFFICES ASSUME IInv, [Next]_vars, UNCHANGED plan => UNCHANGED RP!vars
             PROVE  RP!Next \/ UNCHANGED plan
  BY DEF plan, RP!vars
<1>1. CASE \/ Tick \/ \E t \in Threads : Crash(t) \/ BeginEnsure(t) \/ EnsureStep(t)
           \/ \E i \in Incidents : ReportIncident(i) \/ ConfirmIncident(i)
           \/ \E w \in Windows, reason \in FreezeReasons, expires \in Expiries :
                Freeze(w, reason, expires)
           \/ \E w \in Windows, reason \in FreezeReasons : Resume(w, reason)
           \/ UNCHANGED vars
  BY <1>1 DEF Tick, Crash, BeginEnsure, EnsureStep, ReportIncident, ConfirmIncident, Freeze,
              Resume, vars
<1>2. CASE \E k \in Tasks : TaskOperation(k) \/ CompleteTask(k)
  BY <1>2, TaskIsPlans DEF TaskOperation, CompleteTask
<1>3. ASSUME NEW p \in Processes, Startup(p), ~Dispatch(p) PROVE UNCHANGED plan
  BY <1>3 DEF Startup, AcquireLease, BeginRecovery, EndRecovery, Claim, MarkPublished, Raise,
              Abandon, ReleaseLease
<1>4. ASSUME NEW p \in Processes, Dispatch(p) PROVE RP!Next \/ UNCHANGED plan
  <2>1. PICK n \in processes[p].left : UNCHANGED plan \/ Handle(n)
    BY <1>4 DEF Dispatch
  <2>2. n \in DOMAIN log /\ log[n] \in EventRow
    BY LogRows DEF IInv, Claims, LogInv
  <2>3. \A type \in DOMAIN Mirrored : Mirrored[type] \in {"active", "frozen", "completed"}
    BY DEF Mirrored
  <2>4. log[n].type \in StatusTypes \union CapacityTypes =>
          log[n].subject \in Windows /\ log[n].hours \in Nat
    BY <2>2 DEF IInv, LogInv, RowsOf, EventRow
  <2>5. CASE log[n].type = "started" /\ OnPenaltyWindowStarted(n)
    BY <2>4, <2>5 DEF RP!Next, OnPenaltyWindowStarted, StatusTypes
  <2>6. CASE log[n].type \in DOMAIN Mirrored /\ OnPenaltyWindowMoved(n)
    BY <2>3, <2>4, <2>6 DEF RP!Next, OnPenaltyWindowMoved, StatusTypes
  <2>7. CASE log[n].type = "target_duration_changed" /\ OnTargetDurationChanged(n)
    BY <2>4, <2>7 DEF RP!Next, OnTargetDurationChanged, CapacityTypes
  <2>8. CASE OnIncidentConfirmationChanged(n) \/ OnRecoveryPlanTaskCompleted(n)
    BY <2>8 DEF OnIncidentConfirmationChanged, OnRecoveryPlanTaskCompleted
  <2> QED
    BY <2>1, <2>5, <2>6, <2>7, <2>8 DEF Handle
<1> QED
  BY <1>1, <1>2, <1>3, <1>4 DEF Next

\* The system implements the Recovery Plan: to the plans and tasks its startups, crashes
\* and redeliveries are the arbitrary arrival of events that RecoveryPlan allows.
THEOREM SystemImplementsPlan == Spec => RP!Spec
<1>1. Init => RP!Init
  BY DEF Init
<1> QED
  BY Invariance, NextIsPlans, <1>1, PTL DEF Spec, RP!Spec

\* So in it, too, a task that can still be completed is one of the plan's current version,
\* and no finished task is rewritten, nor a version brought back.
THEOREM TasksOfTheSystem == Spec => []RP!LiveTasksAreCurrent /\ RP!HistoryStands
BY SystemImplementsPlan, LiveTasksStayCurrent, HistoryIsKept, PTL

\* And what the Penalty Engine promises of its rows by itself it keeps when its incidents
\* arrive through the log, its operations are those of startups that die and are taken
\* over, and its credit is for the Recovery Plan's tasks.
THEOREM WindowsOfTheSystem ==
  Spec => [](/\ PE!WellFormed /\ PE!FreezeSet /\ PE!OneFreshWindow /\ PE!EventsTellStatus
             /\ PE!ExtensionsWithinCap /\ PE!RecoveryCreditWithinHalf)
<1>1. IInv => /\ PE!WellFormed /\ PE!FreezeSet /\ PE!OneFreshWindow /\ PE!EventsTellStatus
              /\ PE!ExtensionsWithinCap /\ PE!RecoveryCreditWithinHalf
  BY DEF IInv, PEP!IInv, PEP!DataInv, PEP!ThreadInv, PEP!FreezeInv, PEP!IncidentInv, PEP!RowInv,
         PE!WellFormed, PEP!FreezeSet, PE!FreezeSet, PEP!OneFreshWindow, PE!OneFreshWindow,
         PEP!EventsTellStatus, PE!EventsTellStatus, PE!ExtensionsWithinCap,
         PE!RecoveryCreditWithinHalf, PEP!Exists, PE!Exists, PEP!NoWindow, PE!NoWindow,
         PEP!NoFreeze, PE!NoFreeze, PEP!IsOpen, PE!IsOpen, PEP!OpenFreezes, PE!OpenFreezes,
         PEP!Target, PE!Target, PEP!Least, PE!Least
<1> QED
  BY Invariance, <1>1, PTL

=============================================================================
