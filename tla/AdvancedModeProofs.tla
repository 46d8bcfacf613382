------------------------- MODULE AdvancedModeProofs -------------------------
(***************************************************************************)
(* Mode transitions, for any number of requests and of threads that handle *)
(* messages.  What is about waiting times assumes Prompt; the rest does    *)
(* not.                                                                    *)
(***************************************************************************)
EXTENDS AdvancedMode, TLAPS

\* What time says of a request: it is Timely at clock c when the mode is active since a.
Timely(row, c, a) ==
  /\ row.interrupted # None => row.interrupted <= c
  /\ row.status \in Pending /\ row.target = "standard" =>
       /\ c >= a + MinStay
       /\ row.waitStarted # None => row.waitStarted >= a + MinStay
  /\ row.status \in {"waiting", "awaiting_confirmation"} =>
       /\ row.waitStarted <= c
       /\ row.interrupted # None => row.waitStarted >= row.interrupted
  /\ row.status = "awaiting_confirmation" => c >= row.confirmable

\* With prompt commands every `now' in use is the current time.
TimeInv ==
  Prompt =>
    /\ \A t \in Threads : threads[t].pc # "idle" => threads[t].now = clock
    /\ \A r \in Requests : Timely(requests[r], clock, activated)

IInv == TypeOK /\ PremiseHolds /\ TimeInv

GoodRow(row) == row \in RequestRow /\ RequestFields(row)

----------------------------------------------------------------------------
(* Rows *)

\* A wait begins with the fields it should have.
LEMMA WaitingRow ==
  ASSUME NEW row, GoodRow(row), NEW now \in Nat,
         row.status \in Pending \union {"none"}
  PROVE  /\ GoodRow(Waiting(row, now))
         /\ Waiting(row, now).status = "waiting"
         /\ Waiting(row, now).source = row.source /\ Waiting(row, now).target = row.target
         /\ Waiting(row, now).waitStarted = now
         /\ Waiting(row, now).interrupted = row.interrupted
<1> DEFINE next == Waiting(row, now)
<1>1. now + Wait \in Nat
  BY TermsType
<1>2. next \in RequestRow
  BY <1>1 DEF GoodRow, RequestRow, Waiting, Pending
<1>3. /\ next.status = "waiting" /\ next.source = row.source /\ next.target = row.target
      /\ next.waitStarted = now /\ next.interrupted = row.interrupted
      /\ next.confirmable = now + Wait
      /\ next.confirmed = row.confirmed /\ next.resolved = row.resolved
  BY DEF GoodRow, RequestRow, Waiting
<1>4. row.confirmed = None /\ row.resolved = None
  BY DEF GoodRow, RequestFields, Pending, Resolved
<1>5. RequestFields(next)
  BY <1>3, <1>4, NoneIsNotAValue DEF RequestFields, Resolved
<1> QED
  BY <1>2, <1>3, <1>5 DEF GoodRow

\* A wait that is interrupted has nothing to wait for.
LEMMA PausedRow ==
  ASSUME NEW row, GoodRow(row), NEW now \in Nat, row.status \in Pending
  PROVE  /\ GoodRow(Paused(row, now))
         /\ Paused(row, now).status = "paused_by_penalty_window"
         /\ Paused(row, now).source = row.source /\ Paused(row, now).target = row.target
         /\ Paused(row, now).waitStarted = row.waitStarted
         /\ Paused(row, now).interrupted = now
BY NoneIsNotAValue DEF GoodRow, RequestRow, RequestFields, Paused, Pending, Resolved

\* A row paused at the current time is timely.
LEMMA PausedTimely ==
  ASSUME NEW row, GoodRow(row), NEW now \in Nat, NEW a \in Nat, row.status \in Pending,
         Timely(row, now, a)
  PROVE  Timely(Paused(row, now), now, a)
BY PausedRow DEF Timely, Pending

\* One step of a pending request keeps it pending, and timely if it was.
LEMMA NextStateRow ==
  ASSUME NEW row, GoodRow(row), NEW now \in Nat, NEW open \in BOOLEAN,
         row.status \in Pending
  PROVE  /\ GoodRow(NextState(row, open, now))
         /\ NextState(row, open, now).status \in Pending
         /\ NextState(row, open, now).source = row.source
         /\ NextState(row, open, now).target = row.target
         /\ \A a \in Nat : Timely(row, now, a) => Timely(NextState(row, open, now), now, a)
<1> DEFINE next == NextState(row, open, now)
<1>1. CASE row.status \in {"blocked_by_penalty_window", "paused_by_penalty_window"} /\ ~open
  <2>1. next = Waiting(row, now)
    BY <1>1 DEF NextState
  <2>2. ASSUME NEW a \in Nat, Timely(row, now, a) PROVE Timely(Waiting(row, now), now, a)
    <3>1. row.interrupted # None => row.interrupted \in Nat
      BY DEF GoodRow, RequestRow
    <3> QED BY <2>2, <3>1, WaitingRow, TermsType DEF Timely, Pending
  <2> QED BY <2>1, <2>2, WaitingRow DEF Pending
<1>2. CASE row.status \in {"waiting", "awaiting_confirmation"} /\ open
  <2>1. next = Paused(row, now)
    BY <1>2 DEF NextState
  <2> QED BY <2>1, PausedRow, PausedTimely DEF Pending
<1>3. CASE row.status = "waiting" /\ ~open /\ now >= row.confirmable
  <2>1. next = [row EXCEPT !.status = "awaiting_confirmation"]
    BY <1>3 DEF NextState
  <2>2. GoodRow(next) /\ next.status = "awaiting_confirmation"
    BY <1>3, <2>1 DEF GoodRow, RequestRow, RequestFields, Pending, Resolved
  <2>3. /\ next.source = row.source /\ next.target = row.target
        /\ next.waitStarted = row.waitStarted /\ next.interrupted = row.interrupted
        /\ next.confirmable = row.confirmable
    BY <2>1 DEF GoodRow, RequestRow
  <2> QED BY <1>3, <2>2, <2>3 DEF Timely, Pending
<1>4. CASE next = row
  BY <1>4
<1> QED
  BY <1>1, <1>2, <1>3, <1>4 DEF NextState

----------------------------------------------------------------------------
(* Transactions *)

\* The premise and the rows after a transaction that leaves the mode alone and moves
\* each request to a row as good, pending only if it was, with the same source and
\* target.
LEMMA RowsStep ==
  ASSUME IInv, requests' = [r \in Requests |-> requests'[r]],
         \A r \in Requests :
           /\ GoodRow(requests'[r]) /\ requests'[r].status # "invalidated"
           /\ requests'[r].status \in Pending =>
                /\ requests[r].status \in Pending
                /\ requests'[r].source = requests[r].source
                /\ requests'[r].target = requests[r].target,
         mode' = mode
  PROVE  /\ requests' \in [Requests -> RequestRow]
         /\ \A r \in Requests : RequestFields(requests'[r])
         /\ PremiseHolds'
BY DEF IInv, PremiseHolds, Active, IsPending, GoodRow

\* advance_transition_state()
LEMMA AdvanceStep ==
  ASSUME IInv, NEW now \in Nat, AdvanceTransitionState(now), mode' = mode
  PROVE  /\ requests' \in [Requests -> RequestRow]
         /\ \A r \in Requests : RequestFields(requests'[r])
         /\ PremiseHolds'
         /\ \A a \in Nat : (\A r \in Requests : Timely(requests[r], now, a))
                            => \A r \in Requests : Timely(requests'[r], now, a)
<1>1. \A r \in Requests : requests'[r] = IF requests[r].status \in Pending
                                         THEN NextState(requests[r], windowOpen, now)
                                         ELSE requests[r]
  BY DEF AdvanceTransitionState, Active, IsPending
<1>2. windowOpen \in BOOLEAN /\ \A r \in Requests : GoodRow(requests[r])
  BY DEF IInv, TypeOK, GoodRow
<1>3. ASSUME NEW r \in Requests, requests[r].status \in Pending
      PROVE  /\ GoodRow(requests'[r]) /\ requests'[r].status \in Pending
             /\ requests'[r].source = requests[r].source
             /\ requests'[r].target = requests[r].target
             /\ \A a \in Nat : Timely(requests[r], now, a) => Timely(requests'[r], now, a)
  <2>1. requests'[r] = NextState(requests[r], windowOpen, now)
    BY <1>1, <1>3
  <2> QED BY <1>2, <1>3, <2>1, NextStateRow
<1>4. requests' = [r \in Requests |-> requests'[r]]
  BY DEF AdvanceTransitionState
<1>5. \A r \in Requests : requests[r].status \notin Pending => requests'[r] = requests[r]
  BY <1>1
<1>6. \A r \in Requests : requests[r].status # "invalidated"
  BY DEF IInv, PremiseHolds
<1>7. \A r \in Requests : GoodRow(requests'[r]) /\ requests'[r].status # "invalidated"
  BY <1>2, <1>3, <1>5, <1>6 DEF Pending
<1>8. \A r \in Requests : requests'[r].status \in Pending => requests[r].status \in Pending
  BY <1>5
<1> QED
  BY <1>3, <1>4, <1>5, <1>7, <1>8, RowsStep

\* Changing one request, into one that is no longer pending or as good as before.
LEMMA RowStep ==
  ASSUME IInv, NEW r \in Requests, NEW row, GoodRow(row), row.status # "invalidated",
         row.status \in Pending => /\ requests[r].status \in Pending
                                   /\ row.source = requests[r].source
                                   /\ row.target = requests[r].target,
         requests' = [requests EXCEPT ![r] = row], mode' = mode
  PROVE  /\ requests' \in [Requests -> RequestRow]
         /\ \A s \in Requests : RequestFields(requests'[s])
         /\ PremiseHolds'
<1>1. \A s \in Requests : requests'[s] = IF s = r THEN row ELSE requests[s]
  BY DEF IInv, TypeOK
<1>2. \A s \in Requests : GoodRow(requests[s]) /\ requests[s].status # "invalidated"
  BY DEF IInv, TypeOK, GoodRow, PremiseHolds
<1>3. requests' = [s \in Requests |-> requests'[s]]
  BY DEF IInv, TypeOK
<1> QED
  BY <1>1, <1>2, <1>3, RowsStep

\* request_transition()
LEMMA RequestStep ==
  ASSUME IInv, NEW target \in Modes, NEW now \in Nat, RequestTransition(target, now),
         UNCHANGED <<mode, activated>>
  PROVE  /\ requests' \in [Requests -> RequestRow]
         /\ \A r \in Requests : RequestFields(requests'[r])
         /\ PremiseHolds'
         /\ (\A r \in Requests : Timely(requests[r], now, activated))
              => \A r \in Requests : Timely(requests'[r], now, activated)
<1>1. CASE UNCHANGED requests
  BY <1>1 DEF IInv, TypeOK, PremiseHolds, Active, IsPending
<1>2. ASSUME NEW r \in Requests, Active = {}, target # mode, MinimumMet(target, now),
             requests[r].status = "none",
             requests' = [requests EXCEPT ![r] = NewRequest(target, now)]
      PROVE  /\ requests' \in [Requests -> RequestRow]
             /\ \A s \in Requests : RequestFields(requests'[s])
             /\ PremiseHolds'
             /\ (\A s \in Requests : Timely(requests[s], now, activated))
                  => \A s \in Requests : Timely(requests'[s], now, activated)
  <2> DEFINE blank == [NoRequest EXCEPT !.source = mode, !.target = target]
             new == NewRequest(target, now)
  <2>1. /\ blank \in RequestRow /\ blank.status = "none" /\ blank.source = mode
        /\ blank.target = target /\ blank.interrupted = None /\ blank.waitStarted = None
        /\ RequestFields(blank)
    BY DEF NoRequest, RequestRow, RequestFields, IInv, TypeOK, Modes, Pending, Resolved
  <2>2. /\ GoodRow(new) /\ new.status \in {"blocked_by_penalty_window", "waiting"}
        /\ new.source = mode /\ new.target = target /\ new.interrupted = None
        /\ new.waitStarted \in {now, None}
        /\ new.status = "waiting" => new.waitStarted = now
    <3>1. CASE windowOpen
      <4>1. new = [blank EXCEPT !.status = "blocked_by_penalty_window"]
        BY <3>1 DEF NewRequest
      <4>2. /\ new \in RequestRow /\ new.status = "blocked_by_penalty_window"
            /\ new.source = mode /\ new.target = target
            /\ new.interrupted = None /\ new.waitStarted = None
            /\ new.confirmed = None /\ new.resolved = None
        BY <4>1 DEF NoRequest, RequestRow, Pending, IInv, TypeOK
      <4> HIDE DEF new, blank
      <4>3. RequestFields(new)
        BY <4>2 DEF RequestFields, Resolved
      <4>4. GoodRow(new)
        BY <4>2, <4>3 DEF GoodRow
      <4> QED BY <4>2, <4>4
    <3>2. CASE ~windowOpen
      <4>1. new = Waiting(blank, now)
        BY <3>2 DEF NewRequest
      <4>2. GoodRow(blank)
        BY <2>1 DEF GoodRow
      <4> HIDE DEF new, blank
      <4>3. /\ GoodRow(new) /\ new.status = "waiting" /\ new.source = blank.source
            /\ new.target = blank.target /\ new.waitStarted = now
            /\ new.interrupted = blank.interrupted
        BY <2>1, <4>1, <4>2, WaitingRow
      <4> QED BY <2>1, <4>3
    <3> QED BY <3>1, <3>2
  <2>3. \A s \in Requests : requests'[s] = IF s = r THEN new ELSE requests[s]
    BY <1>2 DEF IInv, TypeOK
  <2>4. \A s \in Requests : requests[s].status \notin Pending
    BY <1>2 DEF Active, IsPending
  <2>5. requests' \in [Requests -> RequestRow] /\ \A s \in Requests : RequestFields(requests'[s])
    BY <1>2, <2>2, <2>3 DEF IInv, TypeOK, GoodRow
  <2>6. Active' = {r}
    BY <2>2, <2>3, <2>4 DEF Active, IsPending, Pending
  <2>7. PremiseHolds'
    BY <1>2, <2>2, <2>3, <2>6 DEF PremiseHolds, IInv
  <2>8. Timely(new, now, activated)
    BY <1>2, <2>2, NoneIsNotAValue DEF Timely, MinimumMet, Pending, IInv, TypeOK
  <2> QED BY <2>3, <2>5, <2>7, <2>8
<1> QED
  BY <1>1, <1>2 DEF RequestTransition

\* cancel_request()
LEMMA CancelStep ==
  ASSUME IInv, NEW r \in Requests, NEW now \in Nat, CancelRequest(r, now),
         UNCHANGED <<mode, activated>>
  PROVE  /\ requests' \in [Requests -> RequestRow]
         /\ \A s \in Requests : RequestFields(requests'[s])
         /\ PremiseHolds'
         /\ (\A s \in Requests : Timely(requests[s], now, activated))
              => \A s \in Requests : Timely(requests'[s], now, activated)
<1>1. CASE UNCHANGED requests
  BY <1>1 DEF IInv, TypeOK, PremiseHolds, Active, IsPending
<1>2. CASE IsPending(r) /\ requests' = [requests EXCEPT ![r] = Cancelled(requests[r], now)]
  <2> DEFINE row == Cancelled(requests[r], now)
  <2>1. GoodRow(requests[r])
    BY DEF IInv, TypeOK, GoodRow
  <2>2. GoodRow(row) /\ row.status = "cancelled" /\ row.interrupted = requests[r].interrupted
    BY <1>2, <2>1, NoneIsNotAValue
       DEF GoodRow, RequestRow, RequestFields, Cancelled, IsPending, Pending, Resolved
  <2>3. \A s \in Requests : requests'[s] = IF s = r THEN row ELSE requests[s]
    BY <1>2 DEF IInv, TypeOK
  <2>4. Timely(requests[r], now, activated) => Timely(row, now, activated)
    BY <2>2 DEF Timely, Pending
  <2>5. row.status # "invalidated" /\ row.status \notin Pending
    BY <2>2 DEF Pending
  <2> QED BY <1>2, <2>2, <2>3, <2>4, <2>5, RowStep
<1> QED
  BY <1>1, <1>2 DEF CancelRequest

\* confirm_transition()
LEMMA ConfirmStep ==
  ASSUME IInv, NEW r \in Requests, NEW now \in Nat, ConfirmTransition(r, now)
  PROVE  /\ requests' \in [Requests -> RequestRow]
         /\ \A s \in Requests : RequestFields(requests'[s])
         /\ mode' \in Modes /\ activated' \in Nat
         /\ PremiseHolds'
         /\ (\A s \in Requests : Timely(requests[s], now, activated))
              => \A s \in Requests : Timely(requests'[s], now, activated')
<1>1. CASE requests[r].status # "awaiting_confirmation"
  BY <1>1 DEF ConfirmTransition, IInv, TypeOK, PremiseHolds, Active, IsPending
<1>2. CASE requests[r].status = "awaiting_confirmation"
  <2> DEFINE row == Confirmed(requests[r], now)
  <2>1. GoodRow(requests[r]) /\ requests[r].status \in Pending /\ r \in Active
    BY <1>2 DEF IInv, TypeOK, GoodRow, Active, IsPending, Pending
  <2>2. requests[r].source = mode /\ requests[r].target # mode /\ requests[r].target \in Modes
    BY <2>1 DEF IInv, PremiseHolds, GoodRow, RequestRow
  <2>3. \A s \in Requests : requests'[s] = IF s = r THEN row ELSE requests[s]
    BY <1>2 DEF ConfirmTransition, IInv, TypeOK
  <2>4. requests' = [requests EXCEPT ![r] = row]
    BY <1>2 DEF ConfirmTransition
  <2>5. CASE windowOpen
    <3>1. row = Paused(requests[r], now)
      BY <2>2, <2>5 DEF Confirmed
    <3>2. GoodRow(row) /\ row.status = "paused_by_penalty_window"
          /\ row.source = requests[r].source /\ row.target = requests[r].target
      BY <2>1, <3>1, PausedRow
    <3>3. row.status # "completed" /\ row.status # "invalidated" /\ row.status \in Pending
      BY <3>2 DEF Pending
    <3>4. mode' = mode /\ activated' = activated
      BY <1>2, <3>3 DEF ConfirmTransition
    <3>5. Timely(requests[r], now, activated) => Timely(row, now, activated)
      BY <2>1, <3>1, PausedTimely DEF IInv, TypeOK
    <3> HIDE DEF row
    <3>6. /\ requests' \in [Requests -> RequestRow] /\ PremiseHolds'
          /\ \A s \in Requests : RequestFields(requests'[s])
      BY <2>1, <2>4, <3>2, <3>3, <3>4, RowStep
    <3> QED BY <2>3, <3>4, <3>5, <3>6 DEF IInv, TypeOK
  <2>6. CASE ~windowOpen
    <3>1. row = [requests[r] EXCEPT !.status = "completed", !.confirmed = now, !.resolved = now]
      BY <2>2, <2>6 DEF Confirmed
    <3>2. /\ row \in RequestRow /\ row.status = "completed" /\ row.confirmed = now
          /\ row.resolved = now /\ row.interrupted = requests[r].interrupted
          /\ row.target = requests[r].target
      BY <2>1, <3>1 DEF GoodRow, RequestRow, Resolved
    <3>3. GoodRow(row) /\ row.status \notin Pending
      BY <3>2, NoneIsNotAValue DEF GoodRow, RequestFields, Pending, Resolved
    <3>4. mode' = requests[r].target /\ activated' = now
      BY <1>2, <3>2 DEF ConfirmTransition
    <3>5. \A s \in Requests : s # r => requests[s].status \notin Pending
      BY <2>1 DEF IInv, PremiseHolds, Active, IsPending
    <3> HIDE DEF row
    <3>6. \A s \in Requests : requests'[s].status \notin Pending
      BY <2>3, <3>3, <3>5
    <3>7. requests' \in [Requests -> RequestRow] /\ \A s \in Requests : RequestFields(requests'[s])
      BY <2>3, <2>4, <3>2, <3>3 DEF IInv, TypeOK, GoodRow
    <3>8. PremiseHolds'
      BY <2>3, <3>2, <3>6 DEF IInv, PremiseHolds, Active, IsPending
    <3>9. ASSUME NEW s \in Requests, Timely(requests[s], now, activated)
          PROVE  Timely(requests'[s], now, activated')
      <4>1. requests'[s].interrupted = requests[s].interrupted
        BY <2>3, <3>2
      <4> QED BY <3>6, <3>9, <4>1 DEF Timely, Pending
    <3> QED BY <2>2, <3>4, <3>7, <3>8, <3>9
  <2> QED BY <2>5, <2>6
<1> QED
  BY <1>1, <1>2

----------------------------------------------------------------------------
(* The inductive invariant *)

LEMMA InitIInv == Init => IInv
<1> SUFFICES ASSUME Init PROVE IInv
  OBVIOUS
<1>1. NoRequest \in RequestRow /\ RequestFields(NoRequest)
  BY DEF NoRequest, RequestRow, RequestFields, Modes, Pending, Resolved
<1>2. \A r \in Requests : requests[r] = NoRequest
  BY DEF Init
<1>3. TypeOK
  BY <1>1, <1>2, BoundsType, TermsType DEF Init, TypeOK, Idle, ThreadState, Commands
<1>4. PremiseHolds
  BY <1>2 DEF PremiseHolds, Active, IsPending, NoRequest, Pending
<1>5. TimeInv
  BY <1>2 DEF Init, TimeInv, Timely, NoRequest, Pending, Idle
<1> QED
  BY <1>3, <1>4, <1>5 DEF IInv

\* A command keeps the invariant while it is only read and remembered.
LEMMA ThreadsOnly ==
  ASSUME IInv, UNCHANGED <<clock, mode, activated, requests>>,
         windowOpen' \in BOOLEAN,
         threads' \in [Threads -> ThreadState],
         \A t \in Threads :
           /\ threads'[t].pc = "acting" /\ threads'[t].cmd \in {"cancel", "confirm"}
                => threads'[t].request \in Requests
           /\ threads'[t].pc # "idle" =>
                threads'[t].now = clock \/ (threads[t].pc # "idle" /\ threads'[t].now = threads[t].now)
  PROVE  IInv'
<1>1. TypeOK'
  BY DEF IInv, TypeOK
<1>2. PremiseHolds'
  BY DEF IInv, PremiseHolds, Active, IsPending
<1>3. TimeInv'
  BY DEF IInv, TimeInv
<1> QED
  BY <1>1, <1>2, <1>3 DEF IInv

\* A step of a thread, from which it goes on or finishes.
LEMMA ThreadGoes ==
  ASSUME IInv, NEW t \in Threads, threads[t].pc # "idle",
         NEW pc \in {"settling", "advancing", "looking"}, Goto(t, pc) \/ Finish(t)
  PROVE  /\ threads' \in [Threads -> ThreadState]
         /\ \A s \in Threads :
              /\ threads'[s].pc = "acting" /\ threads'[s].cmd \in {"cancel", "confirm"}
                   => threads'[s].request \in Requests
              /\ threads'[s].pc # "idle" =>
                   threads[s].pc # "idle" /\ threads'[s].now = threads[s].now
<1>1. threads \in [Threads -> ThreadState] /\ Idle \in ThreadState /\ Idle.pc = "idle"
  BY DEF IInv, TypeOK, Idle, ThreadState, Commands
<1>2. CASE Finish(t)
  BY <1>1, <1>2 DEF Finish, IInv, TypeOK
<1>3. CASE Goto(t, pc)
  <2> DEFINE goes == [threads[t] EXCEPT !.pc = pc]
  <2>1. goes \in ThreadState /\ goes.pc = pc /\ goes.now = threads[t].now
    BY <1>1 DEF ThreadState
  <2>2. threads' = [threads EXCEPT ![t] = goes]
    BY <1>1, <1>3 DEF Goto
  <2> HIDE DEF goes
  <2>3. \A s \in Threads : threads'[s] = IF s = t THEN goes ELSE threads[s]
    BY <1>1, <2>2
  <2> QED BY <1>1, <2>1, <2>2, <2>3 DEF IInv, TypeOK
<1> QED
  BY <1>2, <1>3

LEMMA BeginStep ==
  ASSUME IInv, NEW t \in Threads, NEW cmd \in Commands, Begin(t, cmd)
  PROVE  IInv'
<1> DEFINE new == [Idle EXCEPT !.pc = "settling", !.cmd = cmd, !.now = clock]
<1>1. new \in ThreadState /\ new.pc = "settling" /\ new.now = clock
  BY DEF IInv, TypeOK, Idle, ThreadState
<1>2. threads' = [threads EXCEPT ![t] = new] /\ UNCHANGED <<clock, windowOpen, mode, activated, requests>>
  BY DEF Begin
<1> HIDE DEF new
<1>3. \A s \in Threads : threads'[s] = IF s = t THEN new ELSE threads[s]
  BY <1>2 DEF IInv, TypeOK
<1> QED
  BY <1>1, <1>2, <1>3, ThreadsOnly DEF IInv, TypeOK

LEMMA SettleStep ==
  ASSUME IInv, NEW t \in Threads, Settle(t)
  PROVE  IInv'
<1>1. windowOpen' \in BOOLEAN
  BY DEF Settle, IInv, TypeOK
<1> QED
  BY <1>1, ThreadGoes, ThreadsOnly DEF Settle

LEMMA LookStep ==
  ASSUME IInv, NEW t \in Threads, Look(t)
  PROVE  IInv'
<1>1. threads[t] \in ThreadState /\ threads[t].pc = "looking" /\ windowOpen' = windowOpen
      /\ UNCHANGED <<clock, mode, activated, requests>>
  BY DEF Look, IInv, TypeOK
<1>2. CASE Finish(t)
  BY <1>1, <1>2, ThreadGoes, ThreadsOnly DEF IInv, TypeOK
<1>3. ASSUME NEW r \in Requests \union {None},
             threads' = [threads EXCEPT ![t] = [threads[t] EXCEPT !.pc = "acting", !.request = r]],
             threads[t].cmd \in {"cancel", "confirm"} => r \in Requests
      PROVE  IInv'
  <2> DEFINE goes == [threads[t] EXCEPT !.pc = "acting", !.request = r]
  <2>1. /\ goes \in ThreadState /\ goes.pc = "acting" /\ goes.now = threads[t].now
        /\ goes.cmd = threads[t].cmd /\ goes.request = r
    BY <1>1 DEF ThreadState
  <2>2. threads' = [threads EXCEPT ![t] = goes]
    BY <1>3
  <2> HIDE DEF goes
  <2>3. \A s \in Threads : threads'[s] = IF s = t THEN goes ELSE threads[s]
    BY <2>2 DEF IInv, TypeOK
  <2> QED BY <1>1, <1>3, <2>1, <2>2, <2>3, ThreadsOnly DEF IInv, TypeOK
<1>4. CASE threads[t].cmd \in {"request advanced", "request standard"} /\ Goto(t, "acting")
  <2>1. threads[t].request \in Requests \union {None}
        /\ [threads[t] EXCEPT !.pc = "acting"]
              = [threads[t] EXCEPT !.pc = "acting", !.request = threads[t].request]
    BY <1>1 DEF ThreadState
  <2>2. threads' = [threads EXCEPT ![t] = [threads[t] EXCEPT !.pc = "acting"]]
    BY <1>4 DEF Goto, IInv, TypeOK
  <2> QED BY <1>3, <1>4, <2>1, <2>2
<1>5. CASE \E r \in Active :
             threads' = [threads EXCEPT ![t].pc = "acting", ![t].request = r]
  <2>1. PICK r \in Requests : threads' = [threads EXCEPT ![t].pc = "acting", ![t].request = r]
    BY <1>5 DEF Active
  <2>2. threads' = [threads EXCEPT ![t] = [threads[t] EXCEPT !.pc = "acting", !.request = r]]
    BY <1>1, <2>1 DEF IInv, TypeOK
  <2> QED BY <1>3, <2>2
<1> QED
  BY <1>2, <1>4, <1>5 DEF Look

\* Each governed write, and the end of its command.
LEMMA ActStep ==
  ASSUME IInv, NEW t \in Threads, Act(t)
  PROVE  IInv'
<1> DEFINE now == threads[t].now
<1>1. /\ now \in Nat /\ threads[t].cmd \in Commands /\ threads[t].pc = "acting"
      /\ threads[t].cmd \in {"cancel", "confirm"} => threads[t].request \in Requests
      /\ UNCHANGED <<clock, windowOpen>> /\ Finish(t)
      /\ Target(threads[t].cmd) \in Modes
  BY DEF Act, IInv, TypeOK, ThreadState, Target, Modes
<1>2. /\ requests' \in [Requests -> RequestRow]
      /\ \A r \in Requests : RequestFields(requests'[r])
      /\ mode' \in Modes /\ activated' \in Nat
      /\ PremiseHolds'
      /\ (\A r \in Requests : Timely(requests[r], now, activated))
           => \A r \in Requests : Timely(requests'[r], now, activated')
  <2> HIDE DEF now
  <2>1. CASE RequestTransition(Target(threads[t].cmd), now) /\ UNCHANGED <<mode, activated>>
    BY <1>1, <2>1, RequestStep DEF IInv, TypeOK
  <2>2. CASE /\ threads[t].cmd = "cancel" /\ CancelRequest(threads[t].request, now)
             /\ UNCHANGED <<mode, activated>>
    BY <1>1, <2>2, CancelStep DEF IInv, TypeOK
  <2>3. CASE threads[t].cmd = "confirm" /\ ConfirmTransition(threads[t].request, now)
    BY <1>1, <2>3, ConfirmStep
  <2> QED BY <2>1, <2>2, <2>3 DEF Act, now
<1>3. Idle \in ThreadState /\ Idle.pc = "idle"
  BY DEF Idle, ThreadState, Commands
<1>4. TypeOK'
  BY <1>1, <1>2, <1>3 DEF IInv, TypeOK, Finish
<1>5. TimeInv'
  <2>1. Prompt => now = clock
    BY <1>1 DEF IInv, TimeInv
  <2>2. \A s \in Threads : threads'[s] = IF s = t THEN Idle ELSE threads[s]
    BY <1>1 DEF Finish, IInv, TypeOK
  <2> HIDE DEF now
  <2> QED BY <1>1, <1>2, <1>3, <2>1, <2>2 DEF IInv, TimeInv
<1> QED
  BY <1>2, <1>4, <1>5 DEF IInv

LEMMA AdvanceThread ==
  ASSUME IInv, NEW t \in Threads, Advance(t)
  PROVE  IInv'
<1> DEFINE now == threads[t].now
<1>1. now \in Nat /\ threads[t].pc # "idle" /\ UNCHANGED <<clock, windowOpen, mode, activated>>
      /\ AdvanceTransitionState(now)
  BY DEF Advance, IInv, TypeOK, ThreadState
<1>2. Prompt => now = clock
  BY <1>1 DEF IInv, TimeInv
<1> HIDE DEF now
<1>3. /\ requests' \in [Requests -> RequestRow]
      /\ \A r \in Requests : RequestFields(requests'[r])
      /\ PremiseHolds'
      /\ \A a \in Nat : (\A r \in Requests : Timely(requests[r], now, a))
                         => \A r \in Requests : Timely(requests'[r], now, a)
  BY <1>1, AdvanceStep
<1>4. Goto(t, "looking") \/ Finish(t)
  BY DEF Advance
<1>5. /\ threads' \in [Threads -> ThreadState]
      /\ \A s \in Threads :
           /\ threads'[s].pc = "acting" /\ threads'[s].cmd \in {"cancel", "confirm"}
                => threads'[s].request \in Requests
           /\ threads'[s].pc # "idle" =>
                threads[s].pc # "idle" /\ threads'[s].now = threads[s].now
  BY <1>1, <1>4, ThreadGoes
<1>6. TypeOK'
  BY <1>1, <1>3, <1>5 DEF IInv, TypeOK
<1>7. TimeInv'
  BY <1>1, <1>2, <1>3, <1>5 DEF IInv, TypeOK, TimeInv
<1> QED
  BY <1>3, <1>6, <1>7 DEF IInv

LEMMA TickStep ==
  ASSUME IInv, Tick
  PROVE  IInv'
<1>1. TypeOK' /\ PremiseHolds'
  BY TermsType DEF Tick, IInv, TypeOK, PremiseHolds, Active, IsPending
<1>2. ASSUME Prompt PROVE \A r \in Requests : Timely(requests'[r], clock', activated')
  <2> SUFFICES ASSUME NEW r \in Requests PROVE Timely(requests[r], clock + 1, activated)
    BY DEF Tick
  <2>1. Timely(requests[r], clock, activated) /\ clock \in Nat /\ activated \in Nat
        /\ GoodRow(requests[r])
    BY <1>2 DEF IInv, TypeOK, TimeInv, GoodRow
  <2>2. /\ requests[r].waitStarted \in Nat \union {None}
        /\ requests[r].interrupted \in Nat \union {None}
        /\ requests[r].status \in {"waiting", "awaiting_confirmation"} =>
             requests[r].waitStarted \in Nat /\ requests[r].confirmable \in Nat
    BY <2>1, NoneIsNotAValue, TermsType DEF GoodRow, RequestRow, RequestFields
  <2> QED BY <2>1, <2>2, TermsType DEF Timely
<1>3. TimeInv'
  BY <1>2 DEF Tick, TimeInv, IInv
<1> QED
  BY <1>1, <1>3 DEF IInv

\* Every step preserves the invariant.
LEMMA NextIInv == IInv /\ [Next]_vars => IInv'
<1> SUFFICES ASSUME IInv, [Next]_vars PROVE IInv'
  OBVIOUS
<1>1. CASE WindowOpens \/ WindowCloses
  <2>1. /\ UNCHANGED <<clock, mode, activated, requests, threads>>
        /\ windowOpen' \in BOOLEAN
    <3>1. 0 \in 0..Wait
      BY TermsType
    <3>2. CASE WindowOpens
      BY <3>1, <3>2 DEF WindowOpens
    <3>3. CASE WindowCloses
      BY <3>3 DEF WindowCloses, IInv, TypeOK
    <3> QED BY <1>1, <3>2, <3>3
  <2> QED BY <2>1, ThreadsOnly DEF IInv, TypeOK
<1>2. CASE UNCHANGED vars
  BY <1>2 DEF vars, IInv, TypeOK, PremiseHolds, TimeInv, Active, IsPending
<1> QED
  BY <1>1, <1>2, BeginStep, SettleStep, AdvanceThread, LookStep, ActStep, TickStep
     DEF Next, Step

THEOREM Invariance == Spec => []IInv
BY InitIInv, NextIInv, PTL DEF Spec

----------------------------------------------------------------------------
(* What follows from it *)

\* The type invariant of the module, for any number of requests and threads.
THEOREM TypeCorrect == Spec => []TypeOK
<1>1. IInv => TypeOK
  BY DEF IInv
<1> QED
  BY Invariance, <1>1, PTL

\* One pending request at most, from the current mode, and none ever invalidated.
THEOREM PremiseAlwaysHolds == Spec => []PremiseHolds
<1>1. IInv => PremiseHolds
  BY DEF IInv
<1> QED
  BY Invariance, <1>1, PTL

\* What is resolved stays as it is, whoever still believes it pending.
THEOREM ResolvedForever == Spec => ResolvedIsFinal
<1> DEFINE Kept == \A r \in Requests : requests[r].status \in Resolved => requests'[r] = requests[r]
<1>1. ASSUME IInv, [Next]_vars PROVE Kept
  <2> USE <1>1
  <2> SUFFICES ASSUME NEW r \in Requests, requests[r].status \in Resolved
               PROVE  requests'[r] = requests[r]
    OBVIOUS
  <2>1. /\ requests \in [Requests -> RequestRow] /\ requests[r].status \notin Pending
        /\ requests[r].status # "none" /\ requests[r].status # "awaiting_confirmation"
    BY DEF IInv, TypeOK, Pending, Resolved
  <2>2. ASSUME NEW now, AdvanceTransitionState(now) PROVE requests'[r] = requests[r]
    BY <2>1, <2>2 DEF AdvanceTransitionState, Active, IsPending
  <2>3. ASSUME NEW target, NEW now, RequestTransition(target, now)
        PROVE  requests'[r] = requests[r]
    BY <2>1, <2>3 DEF RequestTransition
  <2>4. ASSUME NEW s, NEW now, CancelRequest(s, now) PROVE requests'[r] = requests[r]
    BY <2>1, <2>4 DEF CancelRequest, IsPending
  <2>5. ASSUME NEW s, NEW now, ConfirmTransition(s, now) PROVE requests'[r] = requests[r]
    BY <2>1, <2>5 DEF ConfirmTransition
  <2>6. CASE UNCHANGED requests
    BY <2>6
  <2>7. ASSUME NEW t \in Threads, Act(t) PROVE requests'[r] = requests[r]
    BY <2>3, <2>4, <2>5, <2>7 DEF Act
  <2>8. ASSUME NEW t \in Threads, Advance(t) PROVE requests'[r] = requests[r]
    BY <2>2, <2>8 DEF Advance
  <2> QED
    BY <2>6, <2>7, <2>8
       DEF Next, Step, Begin, Settle, Look, WindowOpens, WindowCloses, Tick, vars
<1>2. IInv /\ [Next]_vars => [Kept]_vars
  BY <1>1
<1> QED
  BY Invariance, <1>2, PTL DEF Spec, ResolvedIsFinal

\* Only confirming a request that awaits it, with no window open, changes the mode.
LEMMA ModeChange ==
  ASSUME IInv, [Next]_vars, mode' # mode
  PROVE  \E r \in Active : /\ requests[r].status = "awaiting_confirmation"
                           /\ requests'[r].status = "completed"
                           /\ requests[r].target = mode'
                           /\ ~windowOpen
<1>1. PICK t \in Threads : threads[t].cmd = "confirm" /\ threads[t].pc = "acting"
                          /\ ConfirmTransition(threads[t].request, threads[t].now)
  BY DEF Next, Step, Begin, Settle, Advance, Look, Act, WindowOpens, WindowCloses, Tick, vars
<1> DEFINE r == threads[t].request
           row == Confirmed(requests[r], threads[t].now)
<1>2. r \in Requests
  BY <1>1 DEF IInv, TypeOK
<1>3. /\ requests[r].status = "awaiting_confirmation" /\ row.status = "completed"
      /\ requests' = [requests EXCEPT ![r] = row] /\ mode' = row.target
  BY <1>1 DEF ConfirmTransition
<1>4. r \in Active /\ requests[r] \in RequestRow /\ requests[r].source = mode
      /\ GoodRow(requests[r]) /\ requests[r].status \in Pending
  BY <1>2, <1>3 DEF Active, IsPending, Pending, IInv, TypeOK, PremiseHolds, GoodRow
<1>5. ~windowOpen
  <2> SUFFICES ASSUME windowOpen PROVE FALSE
    OBVIOUS
  <2>1. row = Paused(requests[r], threads[t].now)
    BY <1>4 DEF Confirmed
  <2> QED BY <1>3, <2>1 DEF Paused, RequestRow
<1>6. row.target = requests[r].target
  <2>1. row = [requests[r] EXCEPT !.status = "completed", !.confirmed = threads[t].now,
                                  !.resolved = threads[t].now]
    BY <1>4, <1>5 DEF Confirmed
  <2> QED BY <1>4, <2>1 DEF RequestRow
<1>7. requests'[r].status = "completed"
  BY <1>2, <1>3 DEF IInv, TypeOK
<1> QED
  BY <1>3, <1>4, <1>5, <1>6, <1>7

\* With prompt commands, no change of mode without a wait served in full.
THEOREM EveryWaitServed ==
  ASSUME Prompt
  PROVE  Spec => WaitServed
<1> DEFINE Served ==
      mode' # mode =>
        /\ ~windowOpen
        /\ \E r \in Active :
             /\ requests'[r].status = "completed"
             /\ requests[r].waitStarted # None
             /\ clock >= requests[r].waitStarted + Wait
             /\ requests[r].interrupted # None
                  => requests[r].waitStarted >= requests[r].interrupted
<1>1. ASSUME IInv, [Next]_vars PROVE Served
  <2> SUFFICES ASSUME mode' # mode
               PROVE  /\ ~windowOpen
                      /\ \E r \in Active :
                           /\ requests'[r].status = "completed"
                           /\ requests[r].waitStarted # None
                           /\ clock >= requests[r].waitStarted + Wait
                           /\ requests[r].interrupted # None
                                => requests[r].waitStarted >= requests[r].interrupted
    OBVIOUS
  <2>1. PICK r \in Active : /\ requests[r].status = "awaiting_confirmation"
                           /\ requests'[r].status = "completed" /\ ~windowOpen
    BY <1>1, ModeChange
  <2>2. RequestFields(requests[r]) /\ Timely(requests[r], clock, activated)
    BY <1>1, <2>1 DEF IInv, TypeOK, TimeInv, Active
  <2> QED BY <2>1, <2>2 DEF RequestFields, Timely
<1>2. IInv /\ [Next]_vars => [Served]_vars
  BY <1>1
<1> QED
  BY Invariance, <1>2, PTL DEF Spec, WaitServed

\* With prompt commands, nobody leaves Advanced Mode before the minimum time and a wait.
THEOREM MinimumStayed ==
  ASSUME Prompt
  PROVE  Spec => MinimumStay
<1> DEFINE Stayed == mode = "advanced" /\ mode' = "standard" => clock >= activated + MinStay + Wait
<1>1. ASSUME IInv, [Next]_vars PROVE Stayed
  <2> SUFFICES ASSUME mode = "advanced", mode' = "standard"
               PROVE  clock >= activated + MinStay + Wait
    OBVIOUS
  <2>1. PICK r \in Active : /\ requests[r].status = "awaiting_confirmation"
                           /\ requests[r].target = "standard"
    BY <1>1, ModeChange
  <2>2. /\ RequestFields(requests[r]) /\ Timely(requests[r], clock, activated)
        /\ requests[r] \in RequestRow /\ clock \in Nat /\ activated \in Nat
    BY <1>1, <2>1 DEF IInv, TypeOK, TimeInv, Active
  <2>3. /\ requests[r].waitStarted \in Nat
        /\ requests[r].confirmable = requests[r].waitStarted + Wait
        /\ clock >= requests[r].confirmable
        /\ requests[r].waitStarted >= activated + MinStay
    BY <2>1, <2>2 DEF RequestFields, Timely, RequestRow, Pending
  <2> QED BY <2>2, <2>3, TermsType
<1>2. IInv /\ [Next]_vars => [Stayed]_vars
  BY <1>1
<1> QED
  BY Invariance, <1>2, PTL DEF Spec, MinimumStay

=============================================================================
