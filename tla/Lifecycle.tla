----------------------------- MODULE Lifecycle -----------------------------
(***************************************************************************)
(* The wiring of system/startup.py: the Penalty Engine and the Recovery    *)
(* Plan, each reacting to the other's events through the outbox, and the   *)
(* startups that deliver them.                                             *)
(*                                                                         *)
(* A startup takes the startup lease, runs ensure_current_state(),         *)
(* publishes what is pending and releases the lease.  Nothing else         *)
(* publishes.  Between startups the windows are frozen, resumed and        *)
(* settled, and tasks are proposed, accepted and completed, by commands.   *)
(* Events without a consumer are left out, and so is the direct            *)
(* start_window_if_eligible(), which nothing calls.                        *)
(***************************************************************************)
EXTENDS Integers, Sequences, FiniteSets

CONSTANTS
  Windows, Freezes, Incidents, Threads, Rules, None, Rule, Uncapped, TaskHours,
  BaseHours, MaxTarget, FreezeTerms, MaxClock, MaxCrashes,   \* as in PenaltyEngine
  Tasks,         \* ids of recovery_tasks rows (bound); a task is completed once
  Processes,     \* processes that may run on_system_startup(); they are Threads too
  FreezeReasons, \* the freeze reasons used
  StartupLease,  \* STARTUP_LEASE_DURATION, in ticks
  ClaimLease,    \* lease_duration of the publisher, in ticks
  BatchSize      \* batch_size of the publisher

ASSUME ProcessesAreThreads == Processes \subseteq Threads /\ None \notin Processes
ASSUME NumbersType ==
  StartupLease \in Nat \ {0} /\ ClaimLease \in Nat \ {0} /\ BatchSize \in Nat \ {0}
\* Both are five minutes: what a startup that died has claimed can be claimed again by
\* the one that takes its lease over.
ASSUME ClaimsEndWithTheLease == ClaimLease <= StartupLease

VARIABLES
  clock, windows, freezes, incidents, consumed, credits, lastEvent, threads, crashes,
  plans, tasks,
  log,        \* domain_events, in the order they were inserted
  lease,      \* system_startup_lease
  processes   \* the on_system_startup() calls in progress

\* Under Prompt an operation takes less than a tick.
PE == INSTANCE PenaltyEngine WITH Completions <- Tasks, Prompt <- TRUE
RP == INSTANCE RecoveryPlan

\* What PenaltyEngine assumes of the constants it shares.
ASSUME EngineConstants ==
  /\ None \notin Nat \union Windows
  /\ IsFiniteSet(Incidents) /\ Rule \in [Incidents -> Rules]
  /\ Uncapped \in [Incidents -> [1..Cardinality(Incidents) -> Nat]]
  /\ TaskHours \in [Tasks -> Nat]
  /\ MaxTarget \in Nat /\ BaseHours \in 0..MaxTarget
  /\ FreezeTerms \subseteq Nat \ {0} /\ MaxClock \in Nat /\ MaxCrashes \in Nat
  /\ FreezeReasons \subseteq PE!Reasons

engine == <<clock, windows, freezes, incidents, consumed, credits, lastEvent, threads, crashes>>
plan == <<plans, tasks>>
vars == <<engine, plan, log, lease, processes>>

Event(type, subject, hours, at) ==
  [type |-> type, subject |-> subject, hours |-> hours, at |-> at,
   claim |-> None, published |-> FALSE, done |-> FALSE]

NoLease == [holder |-> None, expires |-> 0]

Idle == [pc |-> "idle", now |-> 0, batch |-> {}, left |-> {}]

Init ==
  /\ PE!Init
  /\ RP!Init
  /\ log = <<>>
  /\ lease = NoLease
  /\ processes = [p \in Processes |-> Idle]

----------------------------------------------------------------------------
(* The environment *)

\* A startup is done before its lease runs out.
Tick ==
  /\ PE!Tick
  /\ \A p \in Processes :
       processes[p].pc # "idle" => clock + 1 < processes[p].now + StartupLease
  /\ UNCHANGED <<plan, log, lease, processes>>

\* The process running thread t dies: the lease and its claims stay.
Crash(t) ==
  /\ crashes < MaxCrashes
  /\ threads[t] # PE!Idle \/ (t \in Processes /\ processes[t] # Idle)
  /\ crashes' = crashes + 1
  /\ threads' = [threads EXCEPT ![t] = PE!Idle]
  /\ processes' = [p \in Processes |-> IF p = t THEN Idle ELSE processes[p]]
  /\ UNCHANGED <<clock, windows, freezes, incidents, consumed, credits, lastEvent,
                 plan, log, lease>>

----------------------------------------------------------------------------
(* Commands *)

\* Commands that change windows are handled one at a time, and not while a startup
\* settles the windows.
Alone ==
  /\ \A t \in Threads : threads[t] = PE!Idle
  /\ \A p \in Processes : processes[p].pc \notin {"recovering", "ensuring"}

\* confirm_incident(new_confirmation=CONFIRMED)
ConfirmIncident(i) ==
  /\ PE!ConfirmIncident(i)
  /\ log' = Append(log, Event("confirmed", i, 0, clock))
  /\ UNCHANGED <<plan, lease, processes>>

ReportIncident(i) ==
  /\ PE!ReportIncident(i)
  /\ UNCHANGED <<plan, log, lease, processes>>

\* freeze(): penalty_window.frozen is written for the first freeze only.
Freeze(w, reason, expires) ==
  /\ Alone
  /\ PE!Freeze(w, reason, expires)
  /\ log' = IF windows[w].status = "active" THEN Append(log, Event("frozen", w, 0, clock)) ELSE log
  /\ UNCHANGED <<plan, lease, processes>>

\* penalty_window.resumed is written when the last open freeze of w is closed.
Resumed(w, now) ==
  log' = IF PE!OpenFreezes(w) # {} /\ PE!OpenFreezes(w)' = {}
           THEN Append(log, Event("resumed", w, 0, now)) ELSE log

Resume(w, reason) ==
  /\ Alone
  /\ PE!Resume(w, reason)
  /\ Resumed(w, clock)
  /\ UNCHANGED <<plan, lease, processes>>

\* ensure_current_state(), by a command ...
BeginEnsure(t) ==
  /\ Alone /\ t \notin Processes
  /\ PE!BeginEnsure(t)
  /\ UNCHANGED <<plan, log, lease, processes>>

\* ... and its further transactions, also those of a startup.
EnsureStep(t) ==
  /\ \/ PE!ListExpired(t) /\ UNCHANGED log
     \/ PE!Reread(t) /\ UNCHANGED log
     \/ PE!CloseExpired(t) /\ Resumed(threads[t].window, threads[t].now)
     \/ /\ PE!CompleteWindow(t)
        /\ log' = Append(log, Event("completed", threads[t].window, 0, threads[t].now))
  /\ UNCHANGED <<plan, lease, processes>>

TaskOperation(k) ==
  /\ \/ \E w \in Windows : RP!ProposeTask(k, w)
     \/ RP!AcceptTask(k)
     \/ RP!WithdrawTask(k)
  /\ UNCHANGED <<engine, log, lease, processes>>

\* complete_task() and its recovery_plan.task_completed
CompleteTask(k) ==
  /\ RP!CompleteTask(k)
  /\ log' = Append(log, Event("task_completed", k, 0, clock))
  /\ UNCHANGED <<engine, lease, processes>>

----------------------------------------------------------------------------
(* The handlers of build_consumer_registry().  A handler that commits records the *)
(* event as processed together with the events it writes.                        *)

Handled(n, events) == log' = [log EXCEPT ![n].done = TRUE] \o events

ConsumptionEvents(w, at) ==
  LET started == ~PE!Exists(w)
      before == IF started THEN 0 ELSE windows[w].ext
      target == BaseHours + windows'[w].ext
  IN (IF started THEN <<Event("started", w, BaseHours, at)>> ELSE <<>>)
       \o (IF windows'[w].ext > before THEN <<Event("target_duration_changed", w, target, at)>>
           ELSE <<>>)

OnIncidentConfirmationChanged(n) ==
  LET i == log[n].subject
  IN /\ PE!Consume(i, log[n].at)
     /\ Handled(n, ConsumptionEvents(consumed'[i], log[n].at))
     /\ UNCHANGED <<clock, freezes, incidents, credits, threads, crashes, plan>>

OnPenaltyWindowStarted(n) ==
  /\ RP!CreatePlan(log[n].subject, log[n].hours)
  /\ Handled(n, <<>>)
  /\ UNCHANGED engine

Mirrored == [frozen |-> "frozen", resumed |-> "active", completed |-> "completed"]

OnPenaltyWindowMoved(n) ==
  /\ RP!MirrorStatus(log[n].subject, Mirrored[log[n].type])
  /\ Handled(n, <<>>)
  /\ UNCHANGED engine

OnTargetDurationChanged(n) ==
  /\ RP!Regenerate(log[n].subject, log[n].hours)
  /\ Handled(n, <<>>)
  /\ UNCHANGED engine

\* The payload carries the penalty_window_id of the task's plan.
OnRecoveryPlanTaskCompleted(n) ==
  LET k == log[n].subject
  IN /\ PE!RecordRecoveryCredit(k, tasks[k].plan)
     /\ Handled(n, <<>>)
     /\ UNCHANGED plan

Handle(n) ==
  \/ log[n].type = "confirmed" /\ OnIncidentConfirmationChanged(n)
  \/ log[n].type = "started" /\ OnPenaltyWindowStarted(n)
  \/ log[n].type \in DOMAIN Mirrored /\ OnPenaltyWindowMoved(n)
  \/ log[n].type = "target_duration_changed" /\ OnTargetDurationChanged(n)
  \/ log[n].type = "task_completed" /\ OnRecoveryPlanTaskCompleted(n)

----------------------------------------------------------------------------
(* on_system_startup() *)

\* Mutant of AcquireLease: taken over a tick too early.
AcquireEarly(p) ==
  /\ processes[p].pc = "idle"
  /\ lease.holder = None \/ lease.expires <= clock + 1
  /\ lease' = [holder |-> p, expires |-> clock + StartupLease]
  /\ processes' = [processes EXCEPT ![p] = [Idle EXCEPT !.pc = "recovering", !.now = clock]]
  /\ UNCHANGED <<engine, plan, log>>

\* acquire_system_startup_lease(); without the lease the startup raises.
AcquireLease(p) ==
  /\ processes[p].pc = "idle"
  /\ lease.holder = None \/ lease.expires <= clock
  /\ lease' = [holder |-> p, expires |-> clock + StartupLease]
  /\ processes' = [processes EXCEPT ![p] = [Idle EXCEPT !.pc = "recovering", !.now = clock]]
  /\ UNCHANGED <<engine, plan, log>>

\* recover_penalty_window_state() calls ensure_current_state() with the startup's now.
BeginRecovery(p) ==
  /\ processes[p].pc = "recovering"
  /\ \/ /\ PE!BeginEnsureAt(p, processes[p].now)
        /\ processes' = [processes EXCEPT ![p].pc = "ensuring"]
     \/ /\ PE!LatestOpen = {} /\ UNCHANGED engine
        /\ processes' = [processes EXCEPT ![p].pc = "claiming"]
  /\ UNCHANGED <<plan, log, lease>>

EndRecovery(p) ==
  /\ processes[p].pc = "ensuring" /\ threads[p] = PE!Idle
  /\ processes' = [processes EXCEPT ![p].pc = "claiming"]
  /\ UNCHANGED <<engine, plan, log, lease>>

\* ORDER BY created_at: equal times come in the order of insertion.
Before(m, n) == log[m].at < log[n].at \/ (log[m].at = log[n].at /\ m < n)

Claimable(now) ==
  {n \in DOMAIN log : ~log[n].published /\ (log[n].claim = None \/ log[n].claim <= now)}

\* claim_pending_events(): the first BatchSize claimable events.
Claim(p) ==
  LET rows == Claimable(processes[p].now)
      batch == {n \in rows : Cardinality({m \in rows : Before(m, n)}) < BatchSize}
  IN /\ processes[p].pc = "claiming"
     /\ log' = [n \in DOMAIN log |->
                 IF n \in batch THEN [log[n] EXCEPT !.claim = processes[p].now + ClaimLease]
                 ELSE log[n]]
     /\ processes' = [processes EXCEPT ![p].pc = IF rows = {} THEN "releasing" ELSE "dispatching",
                        ![p].batch = batch, ![p].left = batch]
     /\ UNCHANGED <<engine, plan, lease>>

\* consume_event() of the next event of the batch; a redelivery is absorbed.
Dispatch(p) ==
  /\ processes[p].pc = "dispatching"
  /\ \E n \in processes[p].left :
       /\ \A m \in processes[p].left \ {n} : Before(n, m)
       /\ processes' = [processes EXCEPT ![p].left = @ \ {n}]
       /\ \/ log[n].done /\ UNCHANGED <<engine, plan, log>>
          \/ ~log[n].done /\ Handle(n)
  /\ UNCHANGED lease

\* mark_published(), and the next round of process_pending_events()
MarkPublished(p) ==
  /\ processes[p].pc = "dispatching" /\ processes[p].left = {}
  /\ log' = [n \in DOMAIN log |-> IF n \in processes[p].batch
                                   THEN [log[n] EXCEPT !.published = TRUE] ELSE log[n]]
  /\ processes' = [processes EXCEPT ![p].pc = "claiming", ![p].batch = {}]
  /\ UNCHANGED <<engine, plan, lease>>

\* on_system_startup() is left early.  The transaction it was in is rolled back, the
\* `finally' goes on to release the lease, and nobody gives up what was claimed.  It
\* counts as a crash, which bounds it.
Abandon(p) ==
  /\ crashes < MaxCrashes
  /\ crashes' = crashes + 1
  /\ threads' = [threads EXCEPT ![p] = PE!Idle]
  /\ processes' = [processes EXCEPT ![p] = [@ EXCEPT !.pc = "releasing", !.batch = {}, !.left = {}]]
  /\ UNCHANGED <<clock, windows, freezes, incidents, consumed, credits, lastEvent,
                 plan, log, lease>>

\* One of its transactions raises: a recovery's, the claim's or mark_published().  What is
\* raised in a handler's, dispatch() catches.
Raise(p) ==
  /\ \/ processes[p].pc \in {"recovering", "ensuring", "claiming"}
     \/ processes[p].pc = "dispatching" /\ processes[p].left = {}
  /\ Abandon(p)

\* release_system_startup_lease(): only a lease of its own is cleared.
ReleaseLease(p) ==
  /\ processes[p].pc = "releasing"
  /\ lease' = IF lease.holder = p THEN NoLease ELSE lease
  /\ processes' = [processes EXCEPT ![p] = Idle]
  /\ UNCHANGED <<engine, plan, log>>

----------------------------------------------------------------------------

Startup(p) ==
  \/ AcquireLease(p) \/ BeginRecovery(p) \/ EndRecovery(p)
  \/ Claim(p) \/ Dispatch(p) \/ MarkPublished(p) \/ Raise(p) \/ ReleaseLease(p)

Expiries == {None} \union {clock + term : term \in FreezeTerms}

Next ==
  \/ Tick
  \/ \E t \in Threads : Crash(t) \/ BeginEnsure(t) \/ EnsureStep(t)
  \/ \E i \in Incidents : ReportIncident(i) \/ ConfirmIncident(i)
  \/ \E w \in Windows, reason \in FreezeReasons, expires \in Expiries : Freeze(w, reason, expires)
  \/ \E w \in Windows, reason \in FreezeReasons : Resume(w, reason)
  \/ \E k \in Tasks : TaskOperation(k) \/ CompleteTask(k)
  \/ \E p \in Processes : Startup(p)

Spec == Init /\ [][Next]_vars

----------------------------------------------------------------------------
(* Properties *)

TypeOK ==
  /\ PE!TypeOK
  /\ RP!TypeOK
  /\ log \in Seq([type: {"confirmed", "started", "frozen", "resumed", "completed",
                         "target_duration_changed", "task_completed"},
                  subject: Incidents \union Windows \union Tasks, hours: Nat, at: Nat,
                  claim: Nat \union {None}, published: BOOLEAN, done: BOOLEAN])
  /\ lease \in [holder: Processes \union {None}, expires: Nat]
  /\ processes \in [Processes ->
       [pc: {"idle", "recovering", "ensuring", "claiming", "dispatching", "releasing"},
        now: Nat, batch: SUBSET (1..Len(log)), left: SUBSET (1..Len(log))]]

Drained == \A n \in DOMAIN log : log[n].published

\* RP-6/RP-7/RPT2: once every event is handed off, each window has exactly one plan,
\* with the window's status and half the window's target as its capacity, however
\* often the startups that delivered the events crashed and were taken over.
PlanMirrorsWindow ==
  Drained => \A w \in Windows :
    /\ plans[w].status = windows[w].status
    /\ PE!Exists(w) => plans[w].capacity = PE!Target(windows[w])

\* RP-2/RP-8/I26: hours are credited for completed tasks only, to the window of the
\* task's plan, and every completed task gets its decision.
CreditFollowsCompletion ==
  \A k \in Tasks :
    /\ credits[k].window # None => tasks[k].status = "completed" /\ credits[k].window = tasks[k].plan
    /\ Drained /\ tasks[k].status = "completed" => credits[k].window # None

\* system_state_machine.md Section 7: no two processes are in startup at a time, and
\* the one that is holds the lease, though a crashed one never released it.
OneStartupAtATime ==
  \A p \in Processes : processes[p].pc # "idle" =>
    lease.holder = p /\ \A q \in Processes \ {p} : processes[q].pc = "idle"

=============================================================================
