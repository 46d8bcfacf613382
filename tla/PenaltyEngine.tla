--------------------------- MODULE PenaltyEngine ---------------------------
(***************************************************************************)
(* The penalty-window state machine of penalty_engine/repository.py: how a *)
(* window is started and extended by confirmed incidents, frozen and       *)
(* resumed, credited, and completed by ensure_current_state().             *)
(*                                                                         *)
(* Every write transaction of the code runs under BEGIN IMMEDIATE, so one  *)
(* transaction is one action.  An operation that uses several transactions *)
(* (ensure_current_state, start_window_if_eligible) is a small program run *)
(* by a thread: what it read in one transaction it uses in a later one,    *)
(* and every timestamp it writes is the `now' it was called with.          *)
(*                                                                         *)
(* Time and hours are counted in the same discrete ticks, and recovery     *)
(* credit in half ticks, so that half of a target is a whole number of it. *)
(***************************************************************************)
EXTENDS Integers, FiniteSets

CONSTANTS
  Windows,       \* ids available to penalty_windows rows (bound)
  Freezes,       \* ids available to freeze_periods rows (bound)
  Incidents,     \* incidents the Trust Manager may confirm (bound)
  Completions,   \* recovery-task completions that may be credited (bound)
  Threads,       \* threads that may run a multi-transaction operation
  Rules,         \* rule groups
  None,          \* SQL NULL
  Rule,          \* Rule[i]: the rule group incident i belongs to
  Uncapped,      \* Uncapped[i][n]: hours should_extend() proposes for i when it
                 \*   is the n-th incident of its rule in the window
  TaskHours,     \* TaskHours[c]: the credit_hours completion c proposes, in half ticks
  BaseHours,     \* base_duration_hours of a new window
  MaxTarget,     \* MAX_TARGET_ACTIVE_HOURS
  FreezeTerms,   \* how far in the future a freeze's expires_at may lie
  MaxClock,      \* bound on time
  MaxCrashes,    \* bound on process crashes
  Prompt         \* TRUE: no operation is still running when the clock ticks

ASSUME NoneIsNotAValue == None \notin Nat \union Windows
ASSUME FiniteIncidents == IsFiniteSet(Incidents)
ASSUME RuleType == Rule \in [Incidents -> Rules]
ASSUME UncappedType == Uncapped \in [Incidents -> [1..Cardinality(Incidents) -> Nat]]
ASSUME TaskHoursType == TaskHours \in [Completions -> Nat]
ASSUME HoursType == MaxTarget \in Nat /\ BaseHours \in 0..MaxTarget
ASSUME BoundsType ==
  /\ FreezeTerms \subseteq Nat \ {0}
  /\ MaxClock \in Nat
  /\ MaxCrashes \in Nat
  /\ Prompt \in BOOLEAN

VARIABLES
  clock,      \* the wall clock
  windows,    \* penalty_windows
  freezes,    \* freeze_periods
  incidents,  \* what the Trust Manager knows of each incident
  consumed,   \* incident_consumption: the window each incident was consumed by
  credits,    \* recovery_credit_decisions and recovery_credit_ledger
  lastEvent,  \* the last penalty_window.* lifecycle event written per window
  threads,    \* the multi-transaction operations in progress
  crashes     \* number of crashes so far

vars == <<clock, windows, freezes, incidents, consumed, credits, lastEvent,
          threads, crashes>>

Reasons == {"temporary_wear_exemption", "emergency_override",
            "partnered_intimacy_authorization"}

----------------------------------------------------------------------------
(* Rows *)

NoWindow == [status |-> "none", created |-> 0, closed |-> None, ext |-> 0,
             acc |-> 0, since |-> None, earned |-> 0]

NoFreeze == [window |-> None, reason |-> "none", start |-> 0,
             expires |-> None, end |-> None, endReason |-> "none"]

Idle == [pc |-> "idle", now |-> 0, window |-> None, expired |-> {}, since |-> 0,
         candidates |-> {}, incident |-> None]

WindowRow ==
  [status: {"none", "active", "frozen", "completed"}, created: Nat,
   closed: Nat \union {None}, ext: Nat, acc: Nat, since: Nat \union {None},
   earned: Nat]

FreezeRow ==
  [window: Windows \union {None}, reason: Reasons \union {"none"}, start: Nat,
   expires: Nat \union {None}, end: Nat \union {None},
   endReason: {"none", "resumed_normally", "expired"}]

ThreadState ==
  [pc: {"idle", "listing", "closing", "completing",
        "looking", "filtering", "assessing", "consuming"}, now: Nat,
   window: Windows \union {None}, expired: SUBSET Freezes, since: Nat,
   candidates: SUBSET Incidents, incident: Incidents \union {None}]

\* confirmed: when incident.confirmation_changed said CONFIRMED; standing: it
\* still is.
IncidentRow == [created: Nat \union {None}, confirmed: Nat \union {None}, standing: BOOLEAN]

NoIncident == [created |-> None, confirmed |-> None, standing |-> FALSE]

CreditRow == [window: Windows \union {None}, hours: Nat]

----------------------------------------------------------------------------
(* Pure functions of penalty_engine/window.py and the queries *)

Least(a, b) == IF a <= b THEN a ELSE b

\* target_active_hours(window)
Target(row) == Least(BaseHours + row.ext, MaxTarget)

\* Mutant of Elapsed: the subtraction the wrong way round.
ElapsedBackwards(row, now) ==
  IF row.status = "active" /\ row.since # None
    THEN row.acc + (row.since - now)
    ELSE row.acc

\* active_hours_elapsed(window, now)
Elapsed(row, now) ==
  IF row.status = "active" /\ row.since # None
    THEN row.acc + (now - row.since)
    ELSE row.acc

\* is_complete(window, now)
IsComplete(row, now) == Elapsed(row, now) >= Target(row)

Exists(w) == windows[w].status # "none"

IsOpen(w) == windows[w].status \in {"active", "frozen"}

\* The rows a get_active_or_frozen_penalty_window() query may return: ORDER BY
\* created_at DESC LIMIT 1 leaves the choice open among equal timestamps.
LatestOpen ==
  {w \in Windows : /\ IsOpen(w)
                   /\ \A v \in Windows : IsOpen(v) => windows[v].created <= windows[w].created}

OpenFreezes(w) == {f \in Freezes : freezes[f].window = w /\ freezes[f].end = None}

Completed == {w \in Windows : windows[w].status = "completed"}

\* get_confirmed_incidents_since(since)
CandidateIncidents(since) ==
  {i \in Incidents : incidents[i].standing /\ since <= incidents[i].created}

\* same_rule_confirmed_incident_count_in_current_window, counting i itself
SameRuleCount(i, w) ==
  Cardinality({j \in Incidents : Rule[j] = Rule[i] /\ (consumed[j] = w \/ j = i)})

----------------------------------------------------------------------------

Init ==
  /\ clock = 0
  /\ windows = [w \in Windows |-> NoWindow]
  /\ freezes = [f \in Freezes |-> NoFreeze]
  /\ incidents = [i \in Incidents |-> NoIncident]
  /\ consumed = [i \in Incidents |-> None]
  /\ credits = [c \in Completions |-> [window |-> None, hours |-> 0]]
  /\ lastEvent = [w \in Windows |-> "none"]
  /\ threads = [t \in Threads |-> Idle]
  /\ crashes = 0

\* Time passes.  Under Prompt an operation takes less than a tick.
Tick ==
  /\ clock < MaxClock
  /\ Prompt => \A t \in Threads : threads[t] = Idle
  /\ clock' = clock + 1
  /\ UNCHANGED <<windows, freezes, incidents, consumed, credits, lastEvent, threads, crashes>>

\* The process dies and is started again: whatever was running is gone, the
\* database is as the last committed transaction left it.
Crash ==
  /\ crashes < MaxCrashes
  /\ \E t \in Threads : threads[t] # Idle
  /\ crashes' = crashes + 1
  /\ threads' = [t \in Threads |-> Idle]
  /\ UNCHANGED <<clock, windows, freezes, incidents, consumed, credits, lastEvent>>

----------------------------------------------------------------------------
(* Incidents and their consumption *)

\* TrustManager.register_incident_report(): the incident gets its created_at.
ReportIncident(i) ==
  /\ incidents[i].created = None
  /\ incidents' = [incidents EXCEPT ![i].created = clock]
  /\ UNCHANGED <<clock, windows, freezes, consumed, credits, lastEvent, threads, crashes>>

\* TrustManager.confirm_incident(new_confirmation=CONFIRMED): the event it
\* writes carries occurred_at = clock.
ConfirmIncident(i) ==
  /\ incidents[i].created # None /\ incidents[i].confirmed = None
  /\ incidents' = [incidents EXCEPT ![i].confirmed = clock, ![i].standing = TRUE]
  /\ UNCHANGED <<clock, windows, freezes, consumed, credits, lastEvent, threads, crashes>>

\* confirm_incident() with another confirmation: nothing forbids going back.  A
\* second CONFIRMED fails on the unique evidence row and changes nothing.
RetractIncident(i) ==
  /\ incidents[i].standing
  /\ incidents' = [incidents EXCEPT ![i].standing = FALSE]
  /\ UNCHANGED <<clock, windows, freezes, consumed, credits, lastEvent, threads, crashes>>

\* Mutants of Consume: the capacity ignored; FROZEN windows overlooked.
ConsumeUncapped(i, now) ==
  /\ consumed[i] = None
  /\ \E w \in Windows :
       LET started == \A v \in Windows : ~IsOpen(v)
           row == IF started
                    THEN [NoWindow EXCEPT !.status = "active", !.created = now, !.since = now]
                    ELSE windows[w]
       IN /\ IF started THEN ~Exists(w) ELSE w \in LatestOpen
          /\ windows' = [windows EXCEPT ![w] =
                           [row EXCEPT !.ext = row.ext + Uncapped[i][SameRuleCount(i, w)]]]
          /\ consumed' = [consumed EXCEPT ![i] = w]
          /\ lastEvent' = [lastEvent EXCEPT ![w] = IF started THEN "started" ELSE @]

ConsumeBesideFrozen(i, now) ==
  /\ consumed[i] = None
  /\ \E w \in Windows :
       LET started == \A v \in Windows : windows[v].status # "active"
       IN /\ IF started THEN ~Exists(w) ELSE w \in LatestOpen
          /\ windows' = [windows EXCEPT ![w] =
                           IF started THEN [NoWindow EXCEPT !.status = "active",
                                                            !.created = now, !.since = now]
                           ELSE @]
          /\ consumed' = [consumed EXCEPT ![i] = w]
          /\ lastEvent' = [lastEvent EXCEPT ![w] = IF started THEN "started" ELSE @]

\* _consume_confirmed_incident_in_transaction() and _emit_consumption_events():
\* the incident goes to the open window, or starts one; either way it may
\* extend the window by what should_extend() assigns, capped to the remaining
\* capacity.  An incident already consumed changes nothing.
Consume(i, now) ==
  /\ consumed[i] = None
  /\ \E w \in Windows :
       LET started == \A v \in Windows : ~IsOpen(v)
           row == IF started
                    THEN [NoWindow EXCEPT !.status = "active", !.created = now, !.since = now]
                    ELSE windows[w]
           capacity == MaxTarget - (BaseHours + row.ext)
           remaining == IF capacity > 0 THEN capacity ELSE 0
           assigned == Least(Uncapped[i][SameRuleCount(i, w)], remaining)
       IN /\ IF started THEN ~Exists(w) ELSE w \in LatestOpen
          /\ windows' = [windows EXCEPT ![w] = [row EXCEPT !.ext = row.ext + assigned]]
          /\ consumed' = [consumed EXCEPT ![i] = w]
          /\ lastEvent' = [lastEvent EXCEPT ![w] = IF started THEN "started" ELSE @]

\* The handler of incident.confirmation_changed: `now' is the event's
\* occurred_at, however late the event is delivered.
ConsumeConfirmedIncident(i) ==
  /\ incidents[i].confirmed # None
  /\ Consume(i, incidents[i].confirmed)
  /\ UNCHANGED <<clock, freezes, incidents, credits, threads, crashes>>

\* start_window_if_eligible(), first transaction: when a window was last closed.
BeginStartWindow(t) ==
  /\ threads[t] = Idle
  /\ \E since \in {0} \union {windows[w].closed : w \in Completed} :
       /\ \A w \in Completed : windows[w].closed <= since
       /\ threads' = [threads EXCEPT ![t] = [Idle EXCEPT !.pc = "looking", !.now = clock,
                                                         !.since = since]]
  /\ UNCHANGED <<clock, windows, freezes, incidents, consumed, credits, lastEvent, crashes>>

\* It goes on with these incidents, and returns when there are none.
GoOnWith(t, pc, candidates) ==
  threads' = [threads EXCEPT ![t] =
                IF candidates = {} THEN Idle
                ELSE [Idle EXCEPT !.pc = pc, !.now = threads[t].now, !.candidates = candidates]]

\* Second: the incidents reported since then that are confirmed.
ListCandidates(t) ==
  /\ threads[t].pc = "looking"
  /\ GoOnWith(t, "filtering", CandidateIncidents(threads[t].since))
  /\ UNCHANGED <<clock, windows, freezes, incidents, consumed, credits, lastEvent, crashes>>

\* Third: those of them that were not consumed.
ListUnconsumed(t) ==
  /\ threads[t].pc = "filtering"
  /\ GoOnWith(t, "assessing", {i \in threads[t].candidates : consumed[i] = None})
  /\ UNCHANGED <<clock, windows, freezes, incidents, consumed, credits, lastEvent, crashes>>

\* Then for each its assessment, of which there is none when it is no longer confirmed ...
ReadAssessment(t) ==
  /\ threads[t].pc = "assessing"
  /\ \E i \in threads[t].candidates :
       IF incidents[i].standing
         THEN threads' = [threads EXCEPT ![t].pc = "consuming", ![t].incident = i]
         ELSE GoOnWith(t, "assessing", threads[t].candidates \ {i})
  /\ UNCHANGED <<clock, windows, freezes, incidents, consumed, credits, lastEvent, crashes>>

\* ... and its consumption, unless another thread consumed it first.
ConsumeCandidate(t) ==
  /\ threads[t].pc = "consuming"
  /\ LET i == threads[t].incident
     IN /\ IF consumed[i] = None
             THEN Consume(i, threads[t].now)
             ELSE UNCHANGED <<windows, consumed, lastEvent>>
        /\ GoOnWith(t, "assessing", threads[t].candidates \ {i})
  /\ UNCHANGED <<clock, freezes, incidents, credits, crashes>>

StartWindowStep(t) ==
  ListCandidates(t) \/ ListUnconsumed(t) \/ ReadAssessment(t) \/ ConsumeCandidate(t)

----------------------------------------------------------------------------
(* Freezing and resuming *)

\* Mutant of Freeze: the accumulated hours are not brought up to date.
FreezeForgettingTime(w, reason, expires) ==
  /\ Exists(w)
  /\ reason = "emergency_override" => expires = None
  /\ reason = "partnered_intimacy_authorization" =>
       \A f \in OpenFreezes(w) : freezes[f].reason # reason
  /\ \E f \in Freezes :
       /\ freezes[f].window = None
       /\ freezes' = [freezes EXCEPT ![f] =
                        [NoFreeze EXCEPT !.window = w, !.reason = reason,
                                         !.start = clock, !.expires = expires]]
  /\ IF windows[w].status = "active"
       THEN /\ windows' = [windows EXCEPT ![w] =
                             [windows[w] EXCEPT !.status = "frozen", !.since = None]]
            /\ lastEvent' = [lastEvent EXCEPT ![w] = "frozen"]
       ELSE UNCHANGED <<windows, lastEvent>>
  /\ UNCHANGED <<clock, incidents, consumed, credits, threads, crashes>>

\* freeze() and emergency_freeze(): a row is always inserted; only an ACTIVE
\* window changes.  The window's status is not a condition.  The partial unique
\* index rejects a second open intimacy authorization of the same window.
Freeze(w, reason, expires) ==
  /\ Exists(w)
  /\ reason = "emergency_override" => expires = None
  /\ reason = "partnered_intimacy_authorization" =>
       \A f \in OpenFreezes(w) : freezes[f].reason # reason
  /\ \E f \in Freezes :
       /\ freezes[f].window = None
       /\ freezes' = [freezes EXCEPT ![f] =
                        [NoFreeze EXCEPT !.window = w, !.reason = reason,
                                         !.start = clock, !.expires = expires]]
  /\ IF windows[w].status = "active"
       THEN /\ windows' = [windows EXCEPT ![w] =
                             [windows[w] EXCEPT !.status = "frozen",
                                !.acc = Elapsed(windows[w], clock), !.since = None]]
            /\ lastEvent' = [lastEvent EXCEPT ![w] = "frozen"]
       ELSE UNCHANGED <<windows, lastEvent>>
  /\ UNCHANGED <<clock, incidents, consumed, credits, threads, crashes>>

\* Mutants of CloseFreezePeriods: the count of what remains open is skipped; the
\* resumed event is forgotten.
CloseWithoutCounting(w, rows, now, endReason) ==
  IF rows = {} THEN UNCHANGED <<windows, freezes, lastEvent>>
  ELSE /\ freezes' = [f \in Freezes |->
                        IF f \in rows THEN [freezes[f] EXCEPT !.end = now, !.endReason = endReason]
                        ELSE freezes[f]]
       /\ windows' = [windows EXCEPT ![w] =
                        [windows[w] EXCEPT !.status = "active", !.since = now]]
       /\ lastEvent' = [lastEvent EXCEPT ![w] = "resumed"]

CloseWithoutEvent(w, rows, now, endReason) ==
  IF rows = {} THEN UNCHANGED <<windows, freezes, lastEvent>>
  ELSE /\ freezes' = [f \in Freezes |->
                        IF f \in rows THEN [freezes[f] EXCEPT !.end = now, !.endReason = endReason]
                        ELSE freezes[f]]
       /\ IF OpenFreezes(w) \subseteq rows
            THEN windows' = [windows EXCEPT ![w] =
                               [windows[w] EXCEPT !.status = "active", !.since = now]]
            ELSE UNCHANGED windows
       /\ UNCHANGED lastEvent

\* _close_freeze_periods_in_transaction(): the given open rows of w are closed;
\* the window becomes ACTIVE when no open row of it remains, whatever its
\* status was.  With nothing to close nothing happens.
CloseFreezePeriods(w, rows, now, endReason) ==
  IF rows = {} THEN UNCHANGED <<windows, freezes, lastEvent>>
  ELSE /\ freezes' = [f \in Freezes |->
                        IF f \in rows THEN [freezes[f] EXCEPT !.end = now, !.endReason = endReason]
                        ELSE freezes[f]]
       /\ IF OpenFreezes(w) \subseteq rows
            THEN /\ windows' = [windows EXCEPT ![w] =
                                  [windows[w] EXCEPT !.status = "active", !.since = now]]
                 /\ lastEvent' = [lastEvent EXCEPT ![w] = "resumed"]
            ELSE UNCHANGED <<windows, lastEvent>>

\* resume(): closes every open row with this reason.
Resume(w, reason) ==
  LET rows == {f \in OpenFreezes(w) : freezes[f].reason = reason}
  IN /\ rows # {}
     /\ CloseFreezePeriods(w, rows, clock, "resumed_normally")
     /\ UNCHANGED <<clock, incidents, consumed, credits, threads, crashes>>

----------------------------------------------------------------------------
(* ensure_current_state(), run by every command and at startup *)

\* First transaction: the open window.  The caller has read the clock.
BeginEnsureAt(t, now) ==
  /\ threads[t] = Idle
  /\ \E w \in LatestOpen :
       threads' = [threads EXCEPT ![t] = [Idle EXCEPT !.pc = "listing", !.now = now,
                                                      !.window = w]]
  /\ UNCHANGED <<clock, windows, freezes, incidents, consumed, credits, lastEvent, crashes>>

BeginEnsure(t) == BeginEnsureAt(t, clock)

\* Mutant of ListExpired: nothing is listed.
ListNone(t) ==
  /\ threads[t].pc = "listing"
  /\ threads' = [threads EXCEPT ![t].pc = "closing"]
  /\ UNCHANGED <<clock, windows, freezes, incidents, consumed, credits, lastEvent, crashes>>

\* Second transaction: _close_expired_freezes() lists what has expired.
ListExpired(t) ==
  /\ threads[t].pc = "listing"
  /\ threads' = [threads EXCEPT ![t].pc = "closing",
                   ![t].expired = {f \in OpenFreezes(threads[t].window) :
                                     freezes[f].expires # None /\ freezes[f].expires <= threads[t].now}]
  /\ UNCHANGED <<clock, windows, freezes, incidents, consumed, credits, lastEvent, crashes>>

\* One transaction per listed row, which may have been closed meanwhile.
CloseExpired(t) ==
  /\ threads[t].pc = "closing"
  /\ \E f \in threads[t].expired :
       /\ CloseFreezePeriods(threads[t].window, {f} \intersect OpenFreezes(threads[t].window),
                             threads[t].now, "expired")
       /\ threads' = [threads EXCEPT ![t].expired = @ \ {f}]
  /\ UNCHANGED <<clock, incidents, consumed, credits, crashes>>

\* Mutant of Reread: the target has to be exceeded, not reached.
RereadStrictly(t) ==
  /\ threads[t].pc = "closing" /\ threads[t].expired = {}
  /\ \/ /\ LatestOpen = {}
        /\ threads' = [threads EXCEPT ![t] = Idle]
     \/ \E w \in LatestOpen :
          threads' = [threads EXCEPT ![t] =
                        IF /\ windows[w].status = "active"
                           /\ Elapsed(windows[w], threads[t].now) > Target(windows[w])
                          THEN [threads[t] EXCEPT !.pc = "completing", !.window = w]
                          ELSE Idle]
  /\ UNCHANGED <<clock, windows, freezes, incidents, consumed, credits, lastEvent, crashes>>

\* The open window is read again, and its completion decided on that copy.
Reread(t) ==
  /\ threads[t].pc = "closing" /\ threads[t].expired = {}
  /\ \/ /\ LatestOpen = {}
        /\ threads' = [threads EXCEPT ![t] = Idle]
     \/ \E w \in LatestOpen :
          threads' = [threads EXCEPT ![t] =
                        IF windows[w].status = "active" /\ IsComplete(windows[w], threads[t].now)
                          THEN [threads[t] EXCEPT !.pc = "completing", !.window = w]
                          ELSE Idle]
  /\ UNCHANGED <<clock, windows, freezes, incidents, consumed, credits, lastEvent, crashes>>

\* _complete_window(): an unconditional UPDATE of the row.
CompleteWindow(t) ==
  /\ threads[t].pc = "completing"
  /\ windows' = [windows EXCEPT ![threads[t].window] =
                   [windows[threads[t].window] EXCEPT !.status = "completed", !.closed = threads[t].now]]
  /\ lastEvent' = [lastEvent EXCEPT ![threads[t].window] = "completed"]
  /\ threads' = [threads EXCEPT ![t] = Idle]
  /\ UNCHANGED <<clock, freezes, incidents, consumed, credits, crashes>>

----------------------------------------------------------------------------
(* Recovery credit *)

\* Mutant of RecordRecoveryCredit: what was earned before does not count.
RecordCreditAfresh(c, w) ==
  /\ credits[c].window = None
  /\ Exists(w)
  /\ LET credited == Least(TaskHours[c], Target(windows[w]))
     IN /\ credits' = [credits EXCEPT ![c] = [window |-> w, hours |-> credited]]
        /\ windows' = [windows EXCEPT ![w] =
                         [windows[w] EXCEPT !.earned = windows[w].earned + credited]]
  /\ UNCHANGED <<clock, freezes, incidents, consumed, lastEvent, threads, crashes>>

\* _record_recovery_credit_in_transaction(): a completion already decided keeps
\* its decision; otherwise the proposed hours are capped to what is left of
\* half the target.  The window's status is not a condition.
RecordRecoveryCredit(c, w) ==
  /\ credits[c].window = None
  /\ Exists(w)
  /\ LET left == Target(windows[w]) - windows[w].earned   \* half ticks of half the target
         credited == Least(TaskHours[c], IF left > 0 THEN left ELSE 0)
     IN /\ credits' = [credits EXCEPT ![c] = [window |-> w, hours |-> credited]]
        /\ windows' = [windows EXCEPT ![w] =
                         [windows[w] EXCEPT !.earned = windows[w].earned + credited]]
  /\ UNCHANGED <<clock, freezes, incidents, consumed, lastEvent, threads, crashes>>

----------------------------------------------------------------------------

Expiries == {None} \union {clock + term : term \in FreezeTerms}

EnsureStep(t) == ListExpired(t) \/ CloseExpired(t) \/ Reread(t) \/ CompleteWindow(t)

Next ==
  \/ Tick
  \/ Crash
  \/ \E i \in Incidents : ReportIncident(i) \/ ConfirmIncident(i)
                            \/ RetractIncident(i) \/ ConsumeConfirmedIncident(i)
  \/ \E t \in Threads : BeginStartWindow(t) \/ StartWindowStep(t)
  \/ \E t \in Threads : BeginEnsure(t) \/ EnsureStep(t)
  \/ \E w \in Windows, reason \in Reasons, expires \in Expiries : Freeze(w, reason, expires)
  \/ \E w \in Windows, reason \in Reasons : Resume(w, reason)
  \/ \E c \in Completions, w \in Windows : RecordRecoveryCredit(c, w)

Spec == Init /\ [][Next]_vars

\* Every command of the bot and every startup runs ensure_current_state(), so it
\* is run again and again whatever else a thread does between, and a thread that
\* runs finishes.
Fairness ==
  \A t \in Threads : SF_vars(BeginEnsure(t)) /\ WF_vars(EnsureStep(t)) /\ WF_vars(StartWindowStep(t))

FairSpec == Spec /\ Fairness

----------------------------------------------------------------------------
(* Properties *)

\* Every column and every thread variable holds a value of its type; in
\* particular no accumulated, assigned or credited number of hours is negative.
TypeOK ==
  /\ clock \in Nat
  /\ windows \in [Windows -> WindowRow]
  /\ freezes \in [Freezes -> FreezeRow]
  /\ incidents \in [Incidents -> IncidentRow]
  /\ consumed \in [Incidents -> Windows \union {None}]
  /\ credits \in [Completions -> CreditRow]
  /\ lastEvent \in [Windows -> {"none", "started", "frozen", "resumed", "completed"}]
  /\ threads \in [Threads -> ThreadState]
  /\ crashes \in Nat

\* What the rows and the running operations have in common whenever they meet: no
\* stored time lies in the future, so no countdown runs backwards; only existing
\* windows are frozen or worked on; and an operation closing expired freezes
\* holds only rows that can expire, however stale its copies are.
WellFormed ==
  /\ \A w \in Windows :
       /\ windows[w].since # None => windows[w].since <= clock
       /\ windows[w].status = "none" => windows[w] = NoWindow
       /\ windows[w].status = "completed" => windows[w].closed # None
  /\ \A f \in Freezes :
       /\ freezes[f].window # None => Exists(freezes[f].window)
       /\ freezes[f].reason = "emergency_override" => freezes[f].expires = None
       /\ freezes[f].window = None => freezes[f] = NoFreeze
  /\ \A i \in Incidents :
       /\ incidents[i].confirmed # None => incidents[i].confirmed <= clock
       /\ incidents[i].standing => incidents[i].confirmed # None
  /\ \A t \in Threads :
       /\ threads[t].now <= clock
       /\ threads[t].pc \in {"listing", "closing", "completing"} =>
            threads[t].window \in Windows /\ Exists(threads[t].window)
       /\ \A f \in threads[t].expired : freezes[f].expires # None

\* I22/PW-FREEZE-SET for open windows: whatever the order in which reasons are
\* opened, resumed and expired, by however many threads, a window is FROZEN
\* only while some freeze_periods row of it is open and ACTIVE only while none is.
FreezeSet ==
  \A w \in Windows :
    /\ windows[w].status = "active" => OpenFreezes(w) = {}
    /\ windows[w].status = "frozen" => OpenFreezes(w) # {}

FrozenAt(w, time) ==
  \E f \in Freezes : /\ freezes[f].window = w
                     /\ freezes[f].start <= time
                     /\ freezes[f].end # None => time < freezes[f].end

\* I6: the countdown of a window never completed is the time since it started
\* minus the union of its freeze intervals, overlapping ones counted once.
\* (freezes may outlive a completion, so completed windows are left out.)
CountdownIsUnfrozenTime ==
  \A w \in Windows :
    IsOpen(w) /\ windows[w].closed = None =>
      Elapsed(windows[w], clock) =
        Cardinality({time \in windows[w].created..clock-1 : ~FrozenAt(w, time)})

\* The capacity cap of should_extend() keeps base plus extensions within
\* MAX_TARGET_ACTIVE_HOURS however many incidents extend one window, so the min
\* of target_active_hours() never hides hours a decision claims to have assigned.
ExtensionsWithinCap ==
  \A w \in Windows : BaseHours + windows[w].ext <= MaxTarget

\* I3/I26: a window never earns more than half its target, whatever the order in
\* which completions are credited and incidents extend it, and whatever status
\* the window has by then (both sides are in half ticks).
RecoveryCreditWithinHalf ==
  \A w \in Windows : windows[w].earned <= Target(windows[w])

\* I18: replaying a window's penalty_window.* events gives its status, which is
\* what the Recovery Plan does to mirror it.
EventsTellStatus ==
  \A w \in Windows :
    windows[w].status = CASE lastEvent[w] = "none" -> "none"
                          [] lastEvent[w] \in {"started", "resumed"} -> "active"
                          [] lastEvent[w] = "frozen" -> "frozen"
                          [] lastEvent[w] = "completed" -> "completed"

\* I17: only resume() ends an emergency override; no expiry, completion, crash
\* or concurrent call closes its row, and the window stays out of ACTIVE until then.
EmergencyEndsOnlyByResume ==
  [][\A f \in Freezes :
       freezes[f].reason = "emergency_override" /\ freezes[f].end = None =>
         /\ freezes'[f].end = None \/ freezes'[f].endReason = "resumed_normally"
         /\ freezes'[f].end = None => windows'[freezes[f].window].status # "active"]_vars

\* Confirmed incidents delivered late, twice, or by the event path and the
\* direct path at once never start a second window beside one that is running
\* for the first time.
OneFreshWindow ==
  \A v, w \in Windows :
    IsOpen(v) /\ IsOpen(w) /\ windows[v].closed = None /\ windows[w].closed = None => v = w

\* I11/I4: what an incident or a completion was once charged to stays as it is:
\* nobody consumes an incident again, or moves or revokes credited hours.
DecisionsAreFinal ==
  [][/\ \A i \in Incidents : consumed[i] # None => consumed'[i] = consumed[i]
     /\ \A c \in Completions : credits[c].window # None => credits'[c] = credits[c]]_vars

\* 4.4/4.5: a freeze past its expires_at on the only open window does not stay
\* open, and a countdown that has run out does not stay ACTIVE, across crashes.
ExpiredFreezeEnds ==
  \A f \in Freezes, w \in Windows :
    (f \in OpenFreezes(w) /\ LatestOpen = {w} /\ freezes[f].expires # None /\ freezes[f].expires <= clock)
      ~> ~(f \in OpenFreezes(w) /\ LatestOpen = {w})

CountdownSettles ==
  \A w \in Windows :
    (LatestOpen = {w} /\ windows[w].status = "active" /\ IsComplete(windows[w], clock))
      ~> ~(LatestOpen = {w} /\ windows[w].status = "active" /\ IsComplete(windows[w], clock))

\* docs/architecture/system_state_machine.md:454 (SST1): "the window cannot
\* actually reach COMPLETED while the freeze is open".  The code decides the
\* completion in one transaction and writes it in the next.
NotCompletedWhileFrozen ==
  [][\A w \in Windows :
       windows[w].status # "completed" /\ windows'[w].status = "completed"
         => OpenFreezes(w) = {}]_vars

=============================================================================
