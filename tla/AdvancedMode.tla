---------------------------- MODULE AdvancedMode ----------------------------
(***************************************************************************)
(* The operating mode of advanced_mode/repository.py and the `mode ...'    *)
(* commands of application/service.py that drive it.  A change of mode is  *)
(* requested, waits for a day without a penalty window, and is confirmed   *)
(* by a second message.                                                    *)
(*                                                                         *)
(* Nothing runs in the background: only a `mode' command moves a request   *)
(* on.  Each command is a sequence of transactions, one action each, run   *)
(* by a thread with the `now' of its message: it settles the penalty       *)
(* window, advances the request, looks at what it finds, and acts.         *)
(*                                                                         *)
(* The penalty window is seen as these operations see it: it is open       *)
(* (stored status active or frozen) or not.  PenaltyEngine models when.    *)
(*                                                                         *)
(* A crash needs no action: a command that dies between two transactions   *)
(* has done what a `mode status', or a startup that settles, would.        *)
(***************************************************************************)
EXTENDS Integers, FiniteSets

CONSTANTS
  Requests,    \* ids available to mode_transition_requests rows (bound)
  Threads,     \* threads that may handle a message
  None,        \* SQL NULL
  Wait,        \* CONFIRMATION_WAIT_HOURS
  MinStay,     \* MINIMUM_DAYS_IN_ADVANCED
  MaxClock,    \* bound on time
  Prompt       \* TRUE: no command is still running when the clock ticks

ASSUME NoneIsNotAValue == None \notin Nat \union Requests
ASSUME TermsType == Wait \in Nat \ {0} /\ MinStay \in Nat
ASSUME BoundsType == MaxClock \in Nat /\ Prompt \in BOOLEAN

VARIABLES
  clock,      \* the wall clock
  windowOpen, \* whether a penalty window is active or frozen
  mode,       \* operating_mode_state.current_mode
  activated,  \* operating_mode_state.mode_activated_at
  requests,   \* mode_transition_requests
  threads     \* the commands in progress

vars == <<clock, windowOpen, mode, activated, requests, threads>>

Modes == {"standard", "advanced"}

Commands == {"status", "request advanced", "request standard", "cancel", "confirm"}

Pending == {"blocked_by_penalty_window", "waiting", "paused_by_penalty_window",
            "awaiting_confirmation"}

Resolved == {"cancelled", "completed", "invalidated"}

RequestRow ==
  [status: Pending \union Resolved \union {"none"}, source: Modes, target: Modes,
   waitStarted: Nat \union {None}, interrupted: Nat \union {None},
   confirmable: Nat \union {None}, confirmed: Nat \union {None},
   resolved: Nat \union {None}]

NoRequest ==
  [status |-> "none", source |-> "standard", target |-> "standard",
   waitStarted |-> None, interrupted |-> None, confirmable |-> None,
   confirmed |-> None, resolved |-> None]

ThreadState ==
  [pc: {"idle", "settling", "advancing", "looking", "acting"}, cmd: Commands,
   now: Nat, request: Requests \union {None}]

Idle == [pc |-> "idle", cmd |-> "status", now |-> 0, request |-> None]

----------------------------------------------------------------------------
(* Queries and pure functions *)

IsPending(r) == requests[r].status \in Pending

\* _fetch_active_request(tx)
Active == {r \in Requests : IsPending(r)}

Target(cmd) == IF cmd = "request advanced" THEN "advanced" ELSE "standard"

\* Mutant of Waiting: a wait that was interrupted goes on where it was.
WaitingOn(row, now) ==
  LET start == IF row.waitStarted = None THEN now ELSE row.waitStarted
  IN [row EXCEPT !.status = "waiting", !.waitStarted = start, !.confirmable = start + Wait]

Waiting(row, now) ==
  [row EXCEPT !.status = "waiting", !.waitStarted = now, !.confirmable = now + Wait]

\* Mutant of Paused: the time already waited stays valid.
PausedKeepingTime(row, now) ==
  [row EXCEPT !.status = "paused_by_penalty_window", !.interrupted = now]

Paused(row, now) ==
  [row EXCEPT !.status = "paused_by_penalty_window", !.interrupted = now,
              !.confirmable = None]

\* Mutant of NextState: a request that was blocked from the beginning is forgotten.
NextStateOfStarted(row, open, now) ==
  CASE row.status = "paused_by_penalty_window" /\ ~open
         -> Waiting(row, now)
    [] row.status \in {"waiting", "awaiting_confirmation"} /\ open
         -> Paused(row, now)
    [] row.status = "waiting" /\ ~open /\ now >= row.confirmable
         -> [row EXCEPT !.status = "awaiting_confirmation"]
    [] OTHER -> row

\* _compute_next_state(request, pw_active, now): at most one step.
NextState(row, open, now) ==
  CASE row.status \in {"blocked_by_penalty_window", "paused_by_penalty_window"} /\ ~open
         -> Waiting(row, now)
    [] row.status \in {"waiting", "awaiting_confirmation"} /\ open
         -> Paused(row, now)
    [] row.status = "waiting" /\ ~open /\ now >= row.confirmable
         -> [row EXCEPT !.status = "awaiting_confirmation"]
    [] OTHER -> row

----------------------------------------------------------------------------
(* Transactions of AdvancedModeAdministration *)

\* advance_transition_state()
AdvanceTransitionState(now) ==
  requests' = [r \in Requests |->
                 IF r \in Active THEN NextState(requests[r], windowOpen, now)
                                 ELSE requests[r]]

NewRequest(target, now) ==
  LET row == [NoRequest EXCEPT !.source = mode, !.target = target]
  IN IF windowOpen
       THEN [row EXCEPT !.status = "blocked_by_penalty_window"]
       ELSE Waiting(row, now)

\* The 30 days of request_transition().
MinimumMet(target, now) == target = "standard" => now >= activated + MinStay

\* Mutant of RequestTransition: a second request beside a pending one.
RequestBeside(target, now) ==
  IF target # mode /\ MinimumMet(target, now)
    THEN \E r \in Requests :
           /\ requests[r].status = "none"
           /\ requests' = [requests EXCEPT ![r] = NewRequest(target, now)]
    ELSE UNCHANGED requests

\* request_transition(): no row is written when it raises.
RequestTransition(target, now) ==
  IF Active = {} /\ target # mode /\ MinimumMet(target, now)
    THEN \E r \in Requests :
           /\ requests[r].status = "none"
           /\ requests' = [requests EXCEPT ![r] = NewRequest(target, now)]
    ELSE UNCHANGED requests

Cancelled(row, now) == [row EXCEPT !.status = "cancelled", !.resolved = now]

\* cancel_request(request_id)
CancelRequest(r, now) ==
  IF IsPending(r)
    THEN requests' = [requests EXCEPT ![r] = Cancelled(@, now)]
    ELSE UNCHANGED requests

\* The row confirm_transition() leaves behind when the request awaits it.
Confirmed(row, now) ==
  CASE row.source # mode ->
         [row EXCEPT !.status = "invalidated", !.resolved = now]
    [] row.source = mode /\ windowOpen ->
         Paused(row, now)
    [] OTHER ->
         [row EXCEPT !.status = "completed", !.confirmed = now, !.resolved = now]

\* confirm_transition(request_id)
ConfirmTransition(r, now) ==
  IF requests[r].status = "awaiting_confirmation"
    THEN LET row == Confirmed(requests[r], now)
             done == row.status = "completed"
         IN /\ requests' = [requests EXCEPT ![r] = row]
            /\ mode' = IF done THEN row.target ELSE mode
            /\ activated' = IF done THEN now ELSE activated
    ELSE UNCHANGED <<requests, mode, activated>>

----------------------------------------------------------------------------
(* The commands of ApplicationService, run by a thread *)

Goto(t, pc) == threads' = [threads EXCEPT ![t].pc = pc]
Finish(t) == threads' = [threads EXCEPT ![t] = Idle]

\* A message arrives; ctx.now is incoming.received_at.
Begin(t, cmd) ==
  /\ threads[t].pc = "idle"
  /\ threads' = [threads EXCEPT ![t] = [Idle EXCEPT !.pc = "settling", !.cmd = cmd, !.now = clock]]
  /\ UNCHANGED <<clock, windowOpen, mode, activated, requests>>

\* _settle_mode_state(): ensure_current_state(now) completes a window whose
\* countdown has run out, and leaves any other open.
Settle(t) ==
  /\ threads[t].pc = "settling"
  /\ windowOpen' \in {windowOpen, FALSE}
  /\ Goto(t, "advancing")
  /\ UNCHANGED <<clock, mode, activated, requests>>

\* _settle_mode_state(): advance_transition_state().
Advance(t) ==
  /\ threads[t].pc = "advancing"
  /\ AdvanceTransitionState(threads[t].now)
  /\ IF threads[t].cmd = "status" THEN Finish(t) ELSE Goto(t, "looking")
  /\ UNCHANGED <<clock, windowOpen, mode, activated>>

\* get_current_mode() of a request; get_active_request() of the others.
Look(t) ==
  /\ threads[t].pc = "looking"
  /\ \/ /\ threads[t].cmd \in {"request advanced", "request standard"}
        /\ IF Target(threads[t].cmd) = mode THEN Finish(t) ELSE Goto(t, "acting")
     \/ /\ threads[t].cmd \in {"cancel", "confirm"}
        /\ IF \E r \in Active : threads[t].cmd = "confirm"
                                   => requests[r].status = "awaiting_confirmation"
             THEN \E r \in Active :
                    /\ threads[t].cmd = "confirm"
                         => requests[r].status = "awaiting_confirmation"
                    /\ threads' = [threads EXCEPT ![t].pc = "acting", ![t].request = r]
             ELSE Finish(t)
  /\ UNCHANGED <<clock, windowOpen, mode, activated, requests>>

\* The governed write the command was sent for.
Act(t) ==
  /\ threads[t].pc = "acting"
  /\ \/ /\ threads[t].cmd \in {"request advanced", "request standard"}
        /\ RequestTransition(Target(threads[t].cmd), threads[t].now)
        /\ UNCHANGED <<mode, activated>>
     \/ /\ threads[t].cmd = "cancel"
        /\ CancelRequest(threads[t].request, threads[t].now)
        /\ UNCHANGED <<mode, activated>>
     \/ /\ threads[t].cmd = "confirm"
        /\ ConfirmTransition(threads[t].request, threads[t].now)
  /\ Finish(t)
  /\ UNCHANGED <<clock, windowOpen>>

----------------------------------------------------------------------------
(* Environment *)

\* A penalty window is started (by an incident, outside this module).
WindowOpens ==
  /\ ~windowOpen
  /\ windowOpen' = TRUE
  /\ UNCHANGED <<clock, mode, activated, requests, threads>>

\* A startup's ensure_current_state() completes it.
WindowCloses ==
  /\ windowOpen
  /\ windowOpen' = FALSE
  /\ UNCHANGED <<clock, mode, activated, requests, threads>>

Tick ==
  /\ clock < MaxClock
  /\ Prompt => \A t \in Threads : threads[t].pc = "idle"
  /\ clock' = clock + 1
  /\ UNCHANGED <<windowOpen, mode, activated, requests, threads>>

\* A fresh database is in Standard Mode; one that was used before may be in Advanced.
Init ==
  /\ clock = 0
  /\ windowOpen = FALSE
  /\ mode \in Modes
  /\ activated = 0
  /\ requests = [r \in Requests |-> NoRequest]
  /\ threads = [t \in Threads |-> Idle]

Step(t) == Settle(t) \/ Advance(t) \/ Look(t) \/ Act(t)

Next ==
  \/ \E t \in Threads : (\E cmd \in Commands : Begin(t, cmd)) \/ Step(t)
  \/ WindowOpens \/ WindowCloses \/ Tick

Spec == Init /\ [][Next]_vars

\* The user keeps asking for the status, and a command that began goes on.
FairSpec == Spec /\ \A t \in Threads : WF_vars(Begin(t, "status")) /\ WF_vars(Step(t))

----------------------------------------------------------------------------
(* Properties *)

\* What models.py says of the fields of a request in each status.
RequestFields(row) ==
  /\ row.status = "blocked_by_penalty_window" => row.waitStarted = None
  /\ row.status = "paused_by_penalty_window" => row.confirmable = None
  /\ row.status \in {"waiting", "awaiting_confirmation"}
       => row.waitStarted # None /\ row.confirmable = row.waitStarted + Wait
  /\ row.status = "completed" <=> row.confirmed # None
  /\ row.status \in Resolved <=> row.resolved # None

\* The state is well typed, every request has the fields its status promises
\* (ModeTransitionRequest), and a thread that is to cancel or confirm a request has
\* found one.
TypeOK ==
  /\ clock \in Nat
  /\ windowOpen \in BOOLEAN
  /\ mode \in Modes /\ activated \in Nat
  /\ requests \in [Requests -> RequestRow]
  /\ \A r \in Requests : RequestFields(requests[r])
  /\ threads \in [Threads -> ThreadState]
  /\ \A t \in Threads :
       threads[t].pc = "acting" /\ threads[t].cmd \in {"cancel", "confirm"}
         => threads[t].request \in Requests

\* At most one request is pending (MODE-1), it starts from the current mode and aims
\* at the other one: the premise that confirm_transition() re-checks cannot go wrong
\* by these operations, whatever commands overlap, so that none is ever invalidated.
PremiseHolds ==
  /\ \A r, s \in Active : r = s
  /\ \A r \in Active : requests[r].source = mode /\ requests[r].target # mode
  /\ \A r \in Requests : requests[r].status # "invalidated"

\* A mode changes only by a pending request whose wait has been served: a full Wait
\* since the wait began, which is no earlier than the last interruption noticed, and
\* with no penalty window open at that moment (ADV-17, ADV-18).
WaitServed ==
  [][mode' # mode =>
       /\ ~windowOpen
       /\ \E r \in Active :
            /\ requests'[r].status = "completed"
            /\ requests[r].waitStarted # None
            /\ clock >= requests[r].waitStarted + Wait
            /\ requests[r].interrupted # None
                 => requests[r].waitStarted >= requests[r].interrupted]_vars

\* Who entered Advanced Mode stays for the minimum time, and then still waits.
MinimumStay ==
  [][mode = "advanced" /\ mode' = "standard" => clock >= activated + MinStay + Wait]_vars

\* A request that was cancelled or completed is never written again, though a command
\* that read it as pending may still be about to cancel or confirm it.
ResolvedIsFinal ==
  [][\A r \in Requests : requests[r].status \in Resolved
                           => requests'[r] = requests[r]]_vars

Stuck(r) ==
  \/ requests[r].status \in {"blocked_by_penalty_window", "paused_by_penalty_window"}
  \/ requests[r].status = "waiting" /\ clock >= requests[r].confirmable

\* Once no penalty window is open any more, a user who keeps asking sees every request
\* leave its blocked or paused status, and a wait that is over offer its confirmation.
RequestsMoveOn ==
  \A r \in Requests : <>[](~windowOpen) => [](Stuck(r) => <>~Stuck(r))

=============================================================================
