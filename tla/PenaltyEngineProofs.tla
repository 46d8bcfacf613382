------------------------ MODULE PenaltyEngineProofs ------------------------
(***************************************************************************)
(* Safety of PenaltyEngine for every set of windows, freezes, incidents,   *)
(* completions and threads, every rule table and every bound.              *)
(***************************************************************************)
EXTENDS PenaltyEngine, FiniteSetTheorems, TLAPS

\* What one penalty_windows row promises by itself when the clock shows c.
RowInv(row, c) ==
  /\ row \in WindowRow
  /\ row.since # None => row.since <= c
  /\ row.status = "none" => row = NoWindow
  /\ row.status = "completed" => row.closed # None
  /\ BaseHours + row.ext <= MaxTarget
  /\ row.earned <= Target(row)

\* What the incidents promise.
IncidentInv(c) ==
  /\ incidents \in [Incidents -> IncidentRow]
  /\ \A i \in Incidents :
       /\ incidents[i].confirmed # None => incidents[i].confirmed <= c
       /\ incidents[i].standing => incidents[i].confirmed # None

\* What the freeze_periods rows promise by themselves.
FreezeInv ==
  /\ freezes \in [Freezes -> FreezeRow]
  /\ \A f \in Freezes :
       /\ freezes[f].window # None => Exists(freezes[f].window)
       /\ freezes[f].reason = "emergency_override" => freezes[f].expires = None
       /\ freezes[f].window = None => freezes[f] = NoFreeze

\* What the running operations promise.
ThreadInv ==
  /\ threads \in [Threads -> ThreadState]
  /\ \A t \in Threads :
       /\ threads[t].now <= clock
       /\ threads[t].pc \in {"listing", "closing", "completing"} =>
            threads[t].window \in Windows /\ Exists(threads[t].window)
       /\ threads[t].pc = "consuming" => threads[t].incident \in Incidents
       /\ \A f \in threads[t].expired : freezes[f].expires # None

\* The database, without the threads.
DataInv ==
  /\ clock \in Nat
  /\ windows \in [Windows -> WindowRow]
  /\ \A w \in Windows : RowInv(windows[w], clock)
  /\ FreezeInv
  /\ IncidentInv(clock)
  /\ consumed \in [Incidents -> Windows \union {None}]
  /\ credits \in [Completions -> CreditRow]
  /\ lastEvent \in [Windows -> {"none", "started", "frozen", "resumed", "completed"}]
  /\ crashes \in Nat
  /\ FreezeSet
  /\ EventsTellStatus
  /\ OneFreshWindow

IInv == DataInv /\ ThreadInv

\* What every step keeps of the rows other rows and threads point to.
Monotone ==
  /\ \A w \in Windows : Exists(w) => Exists(w)'
  /\ \A f \in Freezes : freezes[f].expires # None => freezes'[f].expires # None

----------------------------------------------------------------------------
(* Operators *)

\* The count an extension is decided on is an index of the rule's table.
LEMMA SameRuleCountInRange ==
  ASSUME NEW i \in Incidents, NEW w \in Windows
  PROVE  SameRuleCount(i, w) \in 1..Cardinality(Incidents)
<1> DEFINE S == {j \in Incidents : Rule[j] = Rule[i] /\ (consumed[j] = w \/ j = i)}
<1>1. IsFiniteSet(S) /\ Cardinality(S) <= Cardinality(Incidents)
  BY FiniteIncidents, FS_Subset
<1>2. Cardinality(S) # 0
  BY <1>1, FS_EmptySet, i \in S
<1>3. Cardinality(S) \in Nat /\ Cardinality(Incidents) \in Nat
  BY <1>1, FiniteIncidents, FS_CardinalityType
<1> QED
  BY <1>1, <1>2, <1>3 DEF SameRuleCount

\* The hours a rule table proposes are a natural number.
LEMMA UncappedIsNat ==
  ASSUME NEW i \in Incidents, NEW n \in 1..Cardinality(Incidents)
  PROVE  Uncapped[i][n] \in Nat
BY UncappedType

\* A countdown read at a time not before the row's own is not negative.
LEMMA ElapsedIsNat ==
  ASSUME NEW row \in WindowRow, NEW now \in Nat, row.since # None => row.since <= now
  PROVE  Elapsed(row, now) \in Nat
<1>1. row.acc \in Nat /\ row.since \in Nat \union {None}
  BY DEF WindowRow
<1> QED
  BY <1>1 DEF Elapsed

\* The target is a number, and grows with the extensions.
LEMMA TargetIsNat ==
  ASSUME NEW row \in WindowRow
  PROVE  Target(row) \in Nat
<1>1. row.ext \in Nat
  BY DEF WindowRow
<1> QED
  BY <1>1, HoursType DEF Target, Least

\* A fresh row keeps what a row promises.
LEMMA NewRow ==
  ASSUME NEW now \in Nat, NEW c \in Nat, now <= c
  PROVE  RowInv([NoWindow EXCEPT !.status = "active", !.created = now, !.since = now], c)
<1> DEFINE r == [NoWindow EXCEPT !.status = "active", !.created = now, !.since = now]
<1>1. NoWindow \in WindowRow
  BY DEF NoWindow, WindowRow
<1>2. r \in WindowRow
  BY <1>1 DEF WindowRow
<1>3. r.status = "active" /\ r.since = now /\ r.ext = 0 /\ r.earned = 0
  BY DEF NoWindow
<1>4. Target(r) \in Nat
  BY <1>2, TargetIsNat
<1> HIDE DEF r
<1>5. RowInv(r, c)
  BY <1>2, <1>3, <1>4, HoursType DEF RowInv
<1> QED
  BY <1>5 DEF r

\* Replacing one row by one that keeps its promises.
LEMMA RowReplaced ==
  ASSUME DataInv, NEW w \in Windows, NEW r, RowInv(r, clock),
         windows' = [windows EXCEPT ![w] = r], clock' = clock
  PROVE  /\ windows' \in [Windows -> WindowRow]
         /\ \A v \in Windows : RowInv(windows'[v], clock')
         /\ windows'[w] = r
         /\ \A v \in Windows : v # w => windows'[v] = windows[v]
BY DEF DataInv, RowInv

----------------------------------------------------------------------------
(* Steps on the database *)

\* Consuming an incident keeps the database's promises, whoever does it.
LEMMA ConsumeStep ==
  ASSUME DataInv, NEW i \in Incidents, NEW now \in Nat, now <= clock, Consume(i, now),
         UNCHANGED <<clock, freezes, incidents, credits, crashes>>
  PROVE  DataInv' /\ Monotone
<1> DEFINE Started == \A v \in Windows : ~IsOpen(v)
           Row(w) == IF Started
                       THEN [NoWindow EXCEPT !.status = "active", !.created = now, !.since = now]
                       ELSE windows[w]
           Capacity(w) == MaxTarget - (BaseHours + Row(w).ext)
           Left(w) == IF Capacity(w) > 0 THEN Capacity(w) ELSE 0
           Assigned(w) == Least(Uncapped[i][SameRuleCount(i, w)], Left(w))
           New(w) == [Row(w) EXCEPT !.ext = Row(w).ext + Assigned(w)]
<1>1. PICK w \in Windows :
        /\ IF Started THEN ~Exists(w) ELSE w \in LatestOpen
        /\ windows' = [windows EXCEPT ![w] = New(w)]
        /\ consumed' = [consumed EXCEPT ![i] = w]
        /\ lastEvent' = [lastEvent EXCEPT ![w] = IF Started THEN "started" ELSE @]
  BY Zenon DEF Consume
<1>2. RowInv(Row(w), clock)
  <2>1. CASE Started
    BY <2>1, NewRow DEF DataInv
  <2>2. CASE ~Started
    BY <2>2 DEF DataInv
  <2> QED BY <2>1, <2>2
<1>3. Row(w).status \in {"active", "frozen"} /\ (Started => Row(w).status = "active")
  <2>1. CASE Started
    BY <2>1 DEF NoWindow
  <2>2. CASE ~Started
    BY <2>2, <1>1 DEF LatestOpen, IsOpen
  <2> QED BY <2>1, <2>2
<1>4. Assigned(w) \in Nat /\ BaseHours + Row(w).ext + Assigned(w) <= MaxTarget
  <2>1. Uncapped[i][SameRuleCount(i, w)] \in Nat
    BY SameRuleCountInRange, UncappedIsNat
  <2>2. Row(w).ext \in Nat /\ BaseHours + Row(w).ext <= MaxTarget
    BY <1>2 DEF RowInv, WindowRow
  <2> HIDE DEF Row
  <2> QED BY <2>1, <2>2, HoursType DEF Least
<1>5. /\ RowInv(New(w), clock)
      /\ New(w).status = Row(w).status /\ New(w).closed = Row(w).closed
  <2> HIDE DEF Row, Assigned
  <2> QED BY <1>2, <1>3, <1>4, HoursType DEF RowInv, WindowRow, Target, Least
<1>6. /\ windows' \in [Windows -> WindowRow]
      /\ \A v \in Windows : RowInv(windows'[v], clock')
      /\ windows'[w] = New(w)
      /\ \A v \in Windows : v # w => windows'[v] = windows[v]
  <2> HIDE DEF New
  <2> QED BY <1>1, <1>5, RowReplaced
<1>7. \A v \in Windows : Exists(v) => Exists(v)'
  BY <1>3, <1>5, <1>6 DEF Exists
<1>8. ~Started => windows'[w].status = windows[w].status /\ windows'[w].closed = windows[w].closed
  BY <1>5, <1>6
<1>9. FreezeInv'
  BY <1>7, NoneIsNotAValue DEF DataInv, FreezeInv, FreezeRow, Exists
<1>10. FreezeSet'
  <2>1. \A v \in Windows : OpenFreezes(v)' = OpenFreezes(v)
    BY DEF OpenFreezes
  <2>2. Started => OpenFreezes(w) = {} /\ windows'[w].status = "active"
    BY <1>1, <1>3, <1>5, <1>6, NoneIsNotAValue DEF DataInv, FreezeInv, OpenFreezes
  <2> QED BY <1>6, <1>8, <2>1, <2>2 DEF DataInv, FreezeSet
<1>11. lastEvent' \in [Windows -> {"none", "started", "frozen", "resumed", "completed"}]
  BY <1>1 DEF DataInv
<1>12. EventsTellStatus'
  <2>1. \A v \in Windows : v # w => lastEvent'[v] = lastEvent[v]
    BY <1>1 DEF DataInv
  <2>2. lastEvent'[w] = IF Started THEN "started" ELSE lastEvent[w]
    BY <1>1 DEF DataInv
  <2>3. Started => windows'[w].status = "active"
    BY <1>3, <1>5, <1>6
  <2> HIDE DEF Started
  <2> QED BY <1>6, <1>8, <2>1, <2>2, <2>3 DEF DataInv, EventsTellStatus
<1>13. OneFreshWindow'
  <2>1. ASSUME ~Started
        PROVE  \A v \in Windows :
                 windows'[v].status = windows[v].status /\ windows'[v].closed = windows[v].closed
    BY <2>1, <1>6, <1>8
  <2>2. CASE ~Started
    BY <2>1, <2>2 DEF DataInv, OneFreshWindow, IsOpen
  <2>3. CASE Started
    BY <2>3, <1>6 DEF DataInv, OneFreshWindow, IsOpen
  <2> QED BY <2>2, <2>3
<1>14. consumed' \in [Incidents -> Windows \union {None}]
  BY <1>1 DEF DataInv
<1> QED
  BY <1>6, <1>7, <1>9, <1>10, <1>11, <1>12, <1>13, <1>14 DEF DataInv, Monotone, IncidentInv

\* Freezing keeps the database's promises and leaves the operations theirs.
LEMMA FreezeStep ==
  ASSUME IInv, NEW w \in Windows, NEW reason \in Reasons, NEW expires \in Expiries,
         Freeze(w, reason, expires)
  PROVE  IInv'
<1> USE DEF IInv
<1>1. PICK f \in Freezes :
        /\ freezes[f].window = None
        /\ freezes' = [freezes EXCEPT ![f] =
                         [NoFreeze EXCEPT !.window = w, !.reason = reason,
                                          !.start = clock, !.expires = expires]]
  BY DEF Freeze
<1> DEFINE Row == [windows[w] EXCEPT !.status = "frozen",
                     !.acc = Elapsed(windows[w], clock), !.since = None]
           Fresh == [NoFreeze EXCEPT !.window = w, !.reason = reason,
                                     !.start = clock, !.expires = expires]
<1>2. /\ Exists(w)
      /\ reason = "emergency_override" => expires = None
      /\ UNCHANGED <<clock, incidents, consumed, credits, threads, crashes>>
  BY DEF Freeze
<1>3. RowInv(windows[w], clock) /\ windows[w] \in WindowRow /\ clock \in Nat
  BY DEF DataInv, RowInv
<1>4. RowInv(Row, clock) /\ Row.status = "frozen" /\ Row.closed = windows[w].closed
  <2>1. Elapsed(windows[w], clock) \in Nat
    BY <1>3, ElapsedIsNat DEF RowInv
  <2> QED BY <1>3, <2>1 DEF RowInv, WindowRow, Target, Least
<1>5. Fresh \in FreezeRow /\ Fresh.window = w /\ Fresh.end = None
      /\ Fresh.reason = reason /\ Fresh.expires = expires
  <2>1. expires \in Nat \union {None}
    BY <1>3, BoundsType DEF Expiries
  <2>2. NoFreeze \in FreezeRow
    BY DEF NoFreeze, FreezeRow
  <2> QED BY <1>3, <2>1, <2>2 DEF NoFreeze, FreezeRow
<1>6. /\ freezes' \in [Freezes -> FreezeRow]
      /\ freezes'[f] = Fresh
      /\ \A g \in Freezes : g # f => freezes'[g] = freezes[g]
  <2> HIDE DEF Fresh
  <2> QED BY <1>1, <1>5 DEF DataInv, FreezeInv, Fresh
<1>7. /\ \A v \in Windows : v # w => OpenFreezes(v)' = OpenFreezes(v)
      /\ f \in OpenFreezes(w)'
  <2> HIDE DEF Fresh
  <2> QED BY <1>1, <1>5, <1>6, NoneIsNotAValue DEF OpenFreezes
<1>8. /\ windows' \in [Windows -> WindowRow]
      /\ \A v \in Windows : RowInv(windows'[v], clock')
      /\ \A v \in Windows : v # w => windows'[v] = windows[v] /\ lastEvent'[v] = lastEvent[v]
      /\ windows'[w].closed = windows[w].closed
      /\ lastEvent' \in [Windows -> {"none", "started", "frozen", "resumed", "completed"}]
      /\ IF windows[w].status = "active"
           THEN windows'[w].status = "frozen" /\ lastEvent'[w] = "frozen"
           ELSE windows'[w] = windows[w] /\ lastEvent'[w] = lastEvent[w]
  <2>1. CASE windows[w].status = "active"
    <3>1. windows' = [windows EXCEPT ![w] = Row] /\ lastEvent' = [lastEvent EXCEPT ![w] = "frozen"]
      BY <2>1 DEF Freeze
    <3> HIDE DEF Row
    <3> QED BY <1>2, <1>4, <2>1, <3>1, RowReplaced DEF DataInv
  <2>2. CASE windows[w].status # "active"
    <3>1. UNCHANGED <<windows, lastEvent>>
      BY <2>2 DEF Freeze
    <3> QED BY <1>2, <2>2, <3>1 DEF DataInv
  <2> QED BY <2>1, <2>2
<1>9. \A v \in Windows : Exists(v) => Exists(v)'
  BY <1>8 DEF Exists
<1>10. FreezeInv'
  <2> HIDE DEF Fresh
  <2> QED BY <1>1, <1>2, <1>5, <1>6, <1>9, NoneIsNotAValue DEF DataInv, FreezeInv, FreezeRow, Exists
<1>11. FreezeSet'
  BY <1>2, <1>7, <1>8 DEF DataInv, FreezeSet, Exists
<1>12. EventsTellStatus'
  BY <1>8 DEF DataInv, EventsTellStatus
<1>13. OneFreshWindow'
  BY <1>2, <1>8 DEF DataInv, OneFreshWindow, IsOpen
<1>14. ThreadInv'
  <2>1. \A g \in Freezes : freezes[g].expires # None => freezes'[g].expires # None
    <3>1. freezes[f].expires = None
      BY <1>1 DEF DataInv, FreezeInv, NoFreeze
    <3> QED BY <1>6, <3>1
  <2> QED BY <1>2, <1>9, <2>1 DEF ThreadInv, ThreadState
<1> QED
  BY <1>2, <1>8, <1>10, <1>11, <1>12, <1>13, <1>14 DEF DataInv, IncidentInv

\* Closing freeze rows of a window that has them open keeps the database's promises.
LEMMA CloseStep ==
  ASSUME DataInv, NEW w \in Windows, Exists(w), NEW rows \in SUBSET OpenFreezes(w),
         NEW now \in Nat, now <= clock, NEW endReason \in {"resumed_normally", "expired"},
         CloseFreezePeriods(w, rows, now, endReason),
         UNCHANGED <<clock, incidents, consumed, credits, crashes>>
  PROVE  DataInv' /\ Monotone
<1>1. CASE rows = {}
  <2>1. UNCHANGED <<clock, windows, freezes, lastEvent, incidents, consumed, credits, crashes>>
    BY <1>1 DEF CloseFreezePeriods
  <2> QED BY <2>1 DEF DataInv, Monotone, FreezeInv, IncidentInv, FreezeSet, EventsTellStatus,
                      OneFreshWindow, OpenFreezes, Exists, IsOpen
<1>2. CASE rows # {}
  <2> DEFINE Closed(f) == [freezes[f] EXCEPT !.end = now, !.endReason = endReason]
             Row == [windows[w] EXCEPT !.status = "active", !.since = now]
  <2>1. freezes' = [f \in Freezes |-> IF f \in rows THEN Closed(f) ELSE freezes[f]]
    BY <1>2 DEF CloseFreezePeriods
  <2>2. /\ freezes' \in [Freezes -> FreezeRow]
        /\ \A f \in Freezes : /\ freezes'[f].window = freezes[f].window
                              /\ freezes'[f].reason = freezes[f].reason
                              /\ freezes'[f].expires = freezes[f].expires
                              /\ freezes'[f].end = IF f \in rows THEN now ELSE freezes[f].end
                              /\ f \notin rows => freezes'[f] = freezes[f]
    <3>1. ASSUME NEW f \in Freezes
          PROVE  /\ Closed(f) \in FreezeRow
                 /\ Closed(f).window = freezes[f].window /\ Closed(f).reason = freezes[f].reason
                 /\ Closed(f).expires = freezes[f].expires /\ Closed(f).end = now
                 /\ freezes[f] \in FreezeRow
      <4>1. freezes[f] \in FreezeRow
        BY DEF DataInv, FreezeInv
      <4> QED BY <4>1 DEF FreezeRow
    <3> HIDE DEF Closed
    <3>2. \A f \in Freezes : freezes'[f] = IF f \in rows THEN Closed(f) ELSE freezes[f]
      BY <2>1
    <3>3. freezes' \in [Freezes -> FreezeRow]
      BY <2>1, <3>1
    <3> QED BY <3>1, <3>2, <3>3
  <2>3. rows \subseteq Freezes /\ \A f \in rows : freezes[f].window = w
    BY DEF OpenFreezes
  <2>4. /\ \A v \in Windows : v # w => OpenFreezes(v)' = OpenFreezes(v)
        /\ OpenFreezes(w)' = OpenFreezes(w) \ rows
    BY <2>2, <2>3, NoneIsNotAValue DEF OpenFreezes
  <2>5. /\ windows[w].status # "none"
        /\ windows[w].status = "active" => FALSE
        /\ windows[w].status = "completed" => windows[w].closed # None
    BY <1>2 DEF DataInv, FreezeSet, RowInv, Exists
  <2>6. RowInv(windows[w], clock) /\ windows[w] \in WindowRow /\ clock \in Nat
    BY DEF DataInv, RowInv
  <2>7. RowInv(Row, clock) /\ Row.status = "active" /\ Row.closed = windows[w].closed
    BY <2>6 DEF RowInv, WindowRow, Target, Least
  <2>8. /\ windows' \in [Windows -> WindowRow]
        /\ \A v \in Windows : RowInv(windows'[v], clock')
        /\ \A v \in Windows : v # w => windows'[v] = windows[v] /\ lastEvent'[v] = lastEvent[v]
        /\ windows'[w].closed = windows[w].closed
        /\ lastEvent' \in [Windows -> {"none", "started", "frozen", "resumed", "completed"}]
        /\ IF OpenFreezes(w) \subseteq rows
             THEN windows'[w].status = "active" /\ lastEvent'[w] = "resumed"
             ELSE windows'[w] = windows[w] /\ lastEvent'[w] = lastEvent[w]
    <3>1. CASE OpenFreezes(w) \subseteq rows
      <4>1. windows' = [windows EXCEPT ![w] = Row] /\ lastEvent' = [lastEvent EXCEPT ![w] = "resumed"]
        BY <1>2, <3>1 DEF CloseFreezePeriods
      <4> HIDE DEF Row
      <4> QED BY <2>7, <3>1, <4>1, RowReplaced DEF DataInv
    <3>2. CASE ~(OpenFreezes(w) \subseteq rows)
      <4>1. UNCHANGED <<windows, lastEvent>>
        BY <1>2, <3>2 DEF CloseFreezePeriods
      <4> QED BY <3>2, <4>1 DEF DataInv
    <3> QED BY <3>1, <3>2
  <2>9. \A v \in Windows : Exists(v) => Exists(v)'
    BY <2>8 DEF Exists
  <2>10. FreezeInv'
    <3>1. \A f \in Freezes : freezes'[f].window = None => freezes'[f] = NoFreeze
      BY <2>2, <2>3, NoneIsNotAValue DEF DataInv, FreezeInv
    <3> QED BY <2>2, <2>9, <3>1, NoneIsNotAValue DEF DataInv, FreezeInv, FreezeRow, Exists
  <2>11. FreezeSet'
    BY <2>4, <2>8 DEF DataInv, FreezeSet
  <2>12. EventsTellStatus'
    BY <2>8 DEF DataInv, EventsTellStatus
  <2>13. OneFreshWindow'
    BY <2>5, <2>8 DEF DataInv, OneFreshWindow, IsOpen, WindowRow
  <2>14. Monotone
    BY <2>2, <2>9 DEF Monotone
  <2> QED BY <2>8, <2>10, <2>11, <2>12, <2>13, <2>14 DEF DataInv, IncidentInv
<1> QED BY <1>1, <1>2

\* Writing a completion, however stale the decision is.
LEMMA CompleteStep ==
  ASSUME IInv, NEW t \in Threads, CompleteWindow(t)
  PROVE  IInv'
<1> USE DEF IInv
<1> DEFINE w == threads[t].window
           Row == [windows[w] EXCEPT !.status = "completed", !.closed = threads[t].now]
<1>1. w \in Windows /\ Exists(w) /\ threads[t].now \in Nat /\ threads[t].now <= clock
  BY DEF CompleteWindow, ThreadInv, ThreadState
<1>2. RowInv(windows[w], clock) /\ windows[w] \in WindowRow /\ clock \in Nat
  BY <1>1 DEF DataInv, RowInv
<1>3. RowInv(Row, clock) /\ Row.status = "completed" /\ Row.closed \in Nat
  BY <1>1, <1>2, NoneIsNotAValue DEF RowInv, WindowRow, Target, Least
<1>4. /\ windows' = [windows EXCEPT ![w] = Row]
      /\ lastEvent' = [lastEvent EXCEPT ![w] = "completed"]
      /\ threads' = [threads EXCEPT ![t] = Idle]
      /\ UNCHANGED <<clock, freezes, incidents, consumed, credits, crashes>>
  BY DEF CompleteWindow
<1>5. /\ windows' \in [Windows -> WindowRow]
      /\ \A v \in Windows : RowInv(windows'[v], clock')
      /\ windows'[w] = Row
      /\ \A v \in Windows : v # w => windows'[v] = windows[v]
  <2> HIDE DEF Row, w
  <2> QED BY <1>1, <1>3, <1>4, RowReplaced
<1>6. \A v \in Windows : Exists(v) => Exists(v)'
  BY <1>3, <1>5 DEF Exists
<1>7. FreezeInv'
  BY <1>4, <1>6, NoneIsNotAValue DEF DataInv, FreezeInv, FreezeRow, Exists
<1>8. FreezeSet'
  BY <1>3, <1>4, <1>5 DEF DataInv, FreezeSet, OpenFreezes
<1>9. EventsTellStatus'
      /\ lastEvent' \in [Windows -> {"none", "started", "frozen", "resumed", "completed"}]
  BY <1>3, <1>4, <1>5 DEF DataInv, EventsTellStatus
<1>10. OneFreshWindow'
  <2>1. windows'[w].status = "completed"
    BY <1>3, <1>5
  <2> HIDE DEF w, Row
  <2> QED BY <1>5, <2>1 DEF DataInv, OneFreshWindow, IsOpen
<1>11. ThreadInv'
  BY <1>4, <1>6, <1>2 DEF ThreadInv, ThreadState, Idle
<1> QED
  BY <1>4, <1>5, <1>7, <1>8, <1>9, <1>10, <1>11 DEF DataInv, IncidentInv

\* Crediting a completion.
LEMMA CreditStep ==
  ASSUME IInv, NEW c \in Completions, NEW w \in Windows, RecordRecoveryCredit(c, w)
  PROVE  IInv'
<1> USE DEF IInv
<1> DEFINE left == Target(windows[w]) - windows[w].earned
           credited == Least(TaskHours[c], IF left > 0 THEN left ELSE 0)
           Row == [windows[w] EXCEPT !.earned = windows[w].earned + credited]
<1>1. /\ windows' = [windows EXCEPT ![w] = Row]
      /\ credits' = [credits EXCEPT ![c] = [window |-> w, hours |-> credited]]
      /\ UNCHANGED <<clock, freezes, incidents, consumed, lastEvent, threads, crashes>>
      /\ Exists(w)
  BY DEF RecordRecoveryCredit
<1>2. RowInv(windows[w], clock) /\ windows[w] \in WindowRow /\ clock \in Nat
  BY DEF DataInv, RowInv
<1>3. credited \in Nat /\ windows[w].earned + credited <= Target(windows[w])
  <2>1. Target(windows[w]) \in Nat /\ windows[w].earned \in Nat
        /\ windows[w].earned <= Target(windows[w]) /\ TaskHours[c] \in Nat
    BY <1>2, TargetIsNat, TaskHoursType DEF RowInv, WindowRow
  <2> QED BY <2>1 DEF Least
<1>4. RowInv(Row, clock) /\ Row.status = windows[w].status /\ Row.closed = windows[w].closed
  <2> HIDE DEF credited
  <2>1. Row.ext = windows[w].ext /\ Row.status = windows[w].status /\ Row.since = windows[w].since
        /\ Row.closed = windows[w].closed /\ Row.earned = windows[w].earned + credited
        /\ Row \in WindowRow
    BY <1>2, <1>3 DEF WindowRow
  <2>2. Target(Row) = Target(windows[w])
    BY <2>1 DEF Target
  <2>3. Row.status # "none"
    BY <1>1, <2>1 DEF Exists
  <2> HIDE DEF Row
  <2> QED BY <1>2, <1>3, <2>1, <2>2, <2>3 DEF RowInv
<1>5. /\ windows' \in [Windows -> WindowRow]
      /\ \A v \in Windows : RowInv(windows'[v], clock')
      /\ windows'[w] = Row
      /\ \A v \in Windows : v # w => windows'[v] = windows[v]
  <2> HIDE DEF Row
  <2> QED BY <1>1, <1>4, RowReplaced
<1>6. \A v \in Windows : windows'[v].status = windows[v].status /\ windows'[v].closed = windows[v].closed
  BY <1>4, <1>5
<1>7. credits' \in [Completions -> CreditRow]
  <2>1. [window |-> w, hours |-> credited] \in CreditRow
    BY <1>3 DEF CreditRow
  <2> HIDE DEF credited
  <2> QED BY <1>1, <2>1 DEF DataInv
<1>8. FreezeInv' /\ FreezeSet'
  BY <1>1, <1>6, NoneIsNotAValue DEF DataInv, FreezeInv, FreezeRow, Exists, FreezeSet, OpenFreezes
<1>9. EventsTellStatus' /\ OneFreshWindow'
  BY <1>1, <1>6 DEF DataInv, EventsTellStatus, OneFreshWindow, IsOpen
<1>10. ThreadInv'
  BY <1>1, <1>6 DEF ThreadInv, Exists
<1> QED
  BY <1>1, <1>5, <1>7, <1>8, <1>9, <1>10 DEF DataInv, IncidentInv

----------------------------------------------------------------------------
(* The steps of the operations and of the environment *)

\* A step that changes neither the clock nor what the threads point to, and lets
\* at most one of them move, to a state that is well formed, keeps ThreadInv.
LEMMA ThreadStep ==
  ASSUME ThreadInv, Monotone, clock' = clock, NEW t \in Threads, NEW s \in ThreadState,
         threads' = [threads EXCEPT ![t] = s],
         s.now <= clock,
         s.pc \in {"listing", "closing", "completing"} =>
           s.window \in Windows /\ Exists(s.window),
         s.pc = "consuming" => s.incident \in Incidents,
         \A f \in s.expired : freezes[f].expires # None
  PROVE  ThreadInv'
BY DEF ThreadInv, ThreadState, Monotone

\* What a step that leaves the database alone keeps.
LEMMA DataUnchanged ==
  ASSUME DataInv, UNCHANGED <<clock, windows, freezes, incidents, consumed, credits, lastEvent, crashes>>
  PROVE  DataInv' /\ Monotone
BY DEF DataInv, Monotone, FreezeInv, IncidentInv, FreezeSet, EventsTellStatus, OneFreshWindow,
       OpenFreezes, Exists, IsOpen

\* The state of a thread that runs nothing.
LEMMA IdleIsThreadState == Idle \in ThreadState /\ Idle.now = 0 /\ Idle.pc = "idle" /\ Idle.expired = {}
BY DEF Idle, ThreadState

\* start_window_if_eligible() reads when a window was last closed.
LEMMA BeginStartWindowStep ==
  ASSUME IInv, NEW t \in Threads, BeginStartWindow(t)
  PROVE  IInv'
<1>1. PICK since \in {0} \union {windows[w].closed : w \in Completed} :
        threads' = [threads EXCEPT ![t] = [Idle EXCEPT !.pc = "looking", !.now = clock, !.since = since]]
  BY Zenon DEF BeginStartWindow
<1>2. UNCHANGED <<clock, windows, freezes, incidents, consumed, credits, lastEvent, crashes>>
  BY DEF BeginStartWindow
<1>3. since \in Nat /\ clock \in Nat
  BY DEF Completed, IInv, DataInv, RowInv, WindowRow
<1> DEFINE s == [Idle EXCEPT !.pc = "looking", !.now = clock, !.since = since]
<1>4. s \in ThreadState /\ s.now = clock /\ s.pc = "looking" /\ s.expired = {}
  BY <1>3 DEF Idle, ThreadState
<1>5. DataInv' /\ Monotone
  BY <1>2, DataUnchanged DEF IInv
<1>6. ThreadInv'
  <2>1. s.now <= clock /\ threads' = [threads EXCEPT ![t] = s]
    BY <1>1, <1>3, <1>4
  <2> HIDE DEF s
  <2> QED BY <1>2, <1>4, <1>5, <2>1, ThreadStep DEF IInv
<1> QED BY <1>5, <1>6 DEF IInv

\* It goes on with some incidents, or returns.
LEMMA GoesOnWith ==
  ASSUME IInv, NEW t \in Threads, NEW pc \in {"filtering", "assessing"},
         NEW candidates \in SUBSET Incidents, GoOnWith(t, pc, candidates)
  PROVE  \E s \in ThreadState :
           /\ threads' = [threads EXCEPT ![t] = s]
           /\ s = Idle \/ s.now = threads[t].now
           /\ s.pc \in {"idle", "filtering", "assessing"} /\ s.expired = {}
<1> DEFINE s == [Idle EXCEPT !.pc = pc, !.now = threads[t].now, !.candidates = candidates]
<1>1. threads[t].now \in Nat
  BY DEF IInv, ThreadInv, ThreadState
<1>2. s \in ThreadState /\ s.now = threads[t].now /\ s.pc = pc /\ s.expired = {}
  BY <1>1 DEF Idle, ThreadState
<1>3. \/ threads' = [threads EXCEPT ![t] = Idle]
      \/ threads' = [threads EXCEPT ![t] = s]
  BY DEF GoOnWith
<1> HIDE DEF s
<1> QED
  BY <1>2, <1>3, IdleIsThreadState

\* What each of its further transactions does.
LEMMA StartWindowGoesOn ==
  ASSUME IInv, NEW t \in Threads, StartWindowStep(t)
  PROVE  /\ UNCHANGED <<clock, freezes, incidents, credits, crashes>>
         /\ threads[t].pc \in {"looking", "filtering", "assessing", "consuming"}
         /\ \/ UNCHANGED <<windows, consumed, lastEvent>>
            \/ \E i \in Incidents : consumed[i] = None /\ Consume(i, threads[t].now)
         /\ \E s \in ThreadState :
              /\ threads' = [threads EXCEPT ![t] = s]
              /\ s = Idle \/ s.now = threads[t].now
              /\ s.pc \in {"idle", "filtering", "assessing", "consuming"}
              /\ s.pc = "consuming" => s.incident \in Incidents
              /\ \A f \in s.expired : freezes[f].expires # None
<1>1. /\ threads \in [Threads -> ThreadState] /\ threads[t].candidates \in SUBSET Incidents
      /\ \A f \in threads[t].expired : freezes[f].expires # None
      /\ threads[t].pc = "consuming" => threads[t].incident \in Incidents
  BY DEF IInv, ThreadInv, ThreadState
<1> DEFINE Goal == \E s \in ThreadState :
              /\ threads' = [threads EXCEPT ![t] = s]
              /\ s = Idle \/ s.now = threads[t].now
              /\ s.pc \in {"idle", "filtering", "assessing", "consuming"}
              /\ s.pc = "consuming" => s.incident \in Incidents
              /\ \A f \in s.expired : freezes[f].expires # None
<1>2. ASSUME NEW pc \in {"filtering", "assessing"}, NEW c \in SUBSET Incidents, GoOnWith(t, pc, c)
      PROVE  Goal
  BY <1>2, GoesOnWith
<1>3. CASE ListCandidates(t)
  <2>1. Goal
    BY <1>2, <1>3 DEF ListCandidates, CandidateIncidents
  <2> QED BY <1>3, <2>1 DEF ListCandidates
<1>4. CASE ListUnconsumed(t)
  <2>1. {i \in threads[t].candidates : consumed[i] = None} \in SUBSET Incidents
    BY <1>1
  <2>2. Goal
    BY <1>2, <1>4, <2>1 DEF ListUnconsumed
  <2> QED BY <1>4, <2>2 DEF ListUnconsumed
<1>5. CASE ReadAssessment(t)
  <2>1. PICK i \in threads[t].candidates :
          IF incidents[i].standing
            THEN threads' = [threads EXCEPT ![t].pc = "consuming", ![t].incident = i]
            ELSE GoOnWith(t, "assessing", threads[t].candidates \ {i})
    BY <1>5 DEF ReadAssessment
  <2>2. Goal
    <3>1. CASE GoOnWith(t, "assessing", threads[t].candidates \ {i})
      BY <1>1, <1>2, <3>1
    <3>2. CASE threads' = [threads EXCEPT ![t].pc = "consuming", ![t].incident = i]
      <4> DEFINE s == [threads[t] EXCEPT !.pc = "consuming", !.incident = i]
      <4>1. /\ s \in ThreadState /\ s.now = threads[t].now /\ s.pc = "consuming"
            /\ s.incident \in Incidents /\ s.expired = threads[t].expired
        BY <1>1 DEF ThreadState
      <4>2. threads' = [threads EXCEPT ![t] = s]
        BY <1>1, <3>2 DEF ThreadState
      <4> HIDE DEF s
      <4> QED BY <1>1, <4>1, <4>2
    <3> QED BY <2>1, <3>1, <3>2
  <2> QED BY <1>5, <2>2 DEF ReadAssessment
<1>6. CASE ConsumeCandidate(t)
  <2>1. /\ threads[t].pc = "consuming" /\ threads[t].incident \in Incidents
        /\ UNCHANGED <<clock, freezes, incidents, credits, crashes>>
        /\ IF consumed[threads[t].incident] = None
             THEN Consume(threads[t].incident, threads[t].now)
             ELSE UNCHANGED <<windows, consumed, lastEvent>>
        /\ GoOnWith(t, "assessing", threads[t].candidates \ {threads[t].incident})
    BY <1>1, <1>6 DEF ConsumeCandidate
  <2>2. Goal
    BY <1>1, <1>2, <2>1
  <2> QED BY <2>1, <2>2
<1> QED
  BY <1>3, <1>4, <1>5, <1>6 DEF StartWindowStep

\* They keep the invariant.
LEMMA StartWindowStepStep ==
  ASSUME IInv, NEW t \in Threads, StartWindowStep(t)
  PROVE  IInv'
<1>1. /\ UNCHANGED <<clock, freezes, incidents, credits, crashes>>
      /\ \/ UNCHANGED <<windows, consumed, lastEvent>>
         \/ \E i \in Incidents : consumed[i] = None /\ Consume(i, threads[t].now)
  BY StartWindowGoesOn
<1>2. PICK s \in ThreadState :
        /\ threads' = [threads EXCEPT ![t] = s]
        /\ s = Idle \/ s.now = threads[t].now
        /\ s.pc \in {"idle", "filtering", "assessing", "consuming"}
        /\ s.pc = "consuming" => s.incident \in Incidents
        /\ \A f \in s.expired : freezes[f].expires # None
  BY StartWindowGoesOn
<1>3. threads[t].now \in Nat /\ threads[t].now <= clock /\ clock \in Nat
  BY DEF IInv, DataInv, ThreadInv, ThreadState
<1>4. DataInv' /\ Monotone
  <2>1. CASE UNCHANGED <<windows, consumed, lastEvent>>
    BY <1>1, <2>1, DataUnchanged DEF IInv
  <2>2. CASE \E i \in Incidents : consumed[i] = None /\ Consume(i, threads[t].now)
    BY <1>1, <1>3, <2>2, ConsumeStep DEF IInv
  <2> QED BY <1>1, <2>1, <2>2
<1>5. s.now <= clock
  BY <1>2, <1>3, IdleIsThreadState
<1>6. ThreadInv'
  BY <1>1, <1>2, <1>4, <1>5, ThreadStep DEF IInv
<1> QED BY <1>4, <1>6 DEF IInv

\* ensure_current_state() reads the open window, its caller having read the clock.
LEMMA BeginEnsureStep ==
  ASSUME IInv, NEW t \in Threads, NEW now \in Nat, now <= clock, BeginEnsureAt(t, now)
  PROVE  IInv'
<1>1. PICK w \in LatestOpen :
        threads' = [threads EXCEPT ![t] = [Idle EXCEPT !.pc = "listing", !.now = now, !.window = w]]
  BY DEF BeginEnsureAt
<1>2. UNCHANGED <<clock, windows, freezes, incidents, consumed, credits, lastEvent, crashes>>
  BY DEF BeginEnsureAt
<1>3. w \in Windows /\ Exists(w)
  BY DEF LatestOpen, IsOpen, Exists
<1> DEFINE s == [Idle EXCEPT !.pc = "listing", !.now = now, !.window = w]
<1>4. s \in ThreadState /\ s.now <= clock /\ s.window = w /\ s.expired = {} /\ s.pc = "listing"
  <2>1. s \in ThreadState
    BY <1>3, IdleIsThreadState DEF ThreadState
  <2>2. s.now = now /\ s.window = w /\ s.expired = {} /\ s.pc = "listing"
    BY <1>3, IdleIsThreadState DEF ThreadState
  <2> QED BY <1>3, <2>1, <2>2
<1>5. DataInv' /\ Monotone
  BY <1>2, DataUnchanged DEF IInv
<1>6. ThreadInv'
  <2> HIDE DEF s
  <2>1. threads' = [threads EXCEPT ![t] = s]
    BY <1>1 DEF s
  <2> QED BY <1>2, <1>3, <1>4, <1>5, <2>1, ThreadStep DEF IInv
<1> QED BY <1>5, <1>6 DEF IInv

\* ... lists its expired freezes ...
LEMMA ListExpiredStep ==
  ASSUME IInv, NEW t \in Threads, ListExpired(t)
  PROVE  IInv'
<1> DEFINE E == {f \in OpenFreezes(threads[t].window) :
                   freezes[f].expires # None /\ freezes[f].expires <= threads[t].now}
           s == [threads[t] EXCEPT !.pc = "closing", !.expired = E]
<1>1. /\ UNCHANGED <<clock, windows, freezes, incidents, consumed, credits, lastEvent, crashes>>
      /\ threads[t].pc = "listing"
      /\ threads' = [threads EXCEPT ![t].pc = "closing", ![t].expired = E]
  BY DEF ListExpired
<1>2. E \in SUBSET Freezes /\ \A f \in E : freezes[f].expires # None
  BY DEF OpenFreezes
<1>3. /\ threads \in [Threads -> ThreadState] /\ threads[t].now <= clock
      /\ threads[t].window \in Windows /\ Exists(threads[t].window)
  BY <1>1 DEF IInv, ThreadInv
<1>4. /\ s \in ThreadState /\ s.now <= clock /\ s.window = threads[t].window /\ s.pc = "closing"
      /\ \A f \in s.expired : freezes[f].expires # None
  <2> HIDE DEF E
  <2> QED BY <1>2, <1>3 DEF ThreadState
<1>5. threads' = [threads EXCEPT ![t] = s]
  <2> HIDE DEF E
  <2> QED BY <1>1, <1>3 DEF ThreadState
<1>6. DataInv' /\ Monotone
  BY <1>1, DataUnchanged DEF IInv
<1>7. ThreadInv'
  <2> HIDE DEF s
  <2> QED BY <1>1, <1>3, <1>4, <1>5, <1>6, ThreadStep DEF IInv
<1> QED BY <1>6, <1>7 DEF IInv

\* ... closes them one by one ...
LEMMA CloseExpiredStep ==
  ASSUME IInv, NEW t \in Threads, CloseExpired(t)
  PROVE  IInv'
<1>1. PICK f \in threads[t].expired :
        /\ CloseFreezePeriods(threads[t].window, {f} \intersect OpenFreezes(threads[t].window),
                              threads[t].now, "expired")
        /\ threads' = [threads EXCEPT ![t].expired = @ \ {f}]
  BY DEF CloseExpired
<1>2. UNCHANGED <<clock, incidents, consumed, credits, crashes>> /\ threads[t].pc = "closing"
  BY DEF CloseExpired
<1>3. /\ threads \in [Threads -> ThreadState] /\ threads[t].now <= clock /\ threads[t].now \in Nat
      /\ threads[t].window \in Windows /\ Exists(threads[t].window)
      /\ \A g \in threads[t].expired : freezes[g].expires # None
  BY <1>2 DEF IInv, ThreadInv, ThreadState
<1> DEFINE s == [threads[t] EXCEPT !.expired = @ \ {f}]
<1>4. /\ s \in ThreadState /\ s.now <= clock /\ s.window = threads[t].window /\ s.pc = "closing"
      /\ \A g \in s.expired : freezes[g].expires # None
  BY <1>2, <1>3 DEF ThreadState
<1>5. threads' = [threads EXCEPT ![t] = s]
  BY <1>1, <1>3
<1>6. DataInv' /\ Monotone
  BY <1>1, <1>2, <1>3, CloseStep DEF IInv
<1>7. ThreadInv'
  <2> HIDE DEF s
  <2> QED BY <1>2, <1>3, <1>4, <1>5, <1>6, ThreadStep DEF IInv
<1> QED BY <1>6, <1>7 DEF IInv

\* ... and decides on the completion of the window it then reads.
LEMMA RereadStep ==
  ASSUME IInv, NEW t \in Threads, Reread(t)
  PROVE  IInv'
<1>1. UNCHANGED <<clock, windows, freezes, incidents, consumed, credits, lastEvent, crashes>>
  BY DEF Reread
<1>2. DataInv' /\ Monotone /\ clock \in Nat
  BY <1>1, DataUnchanged DEF IInv, DataInv
<1>3. CASE threads' = [threads EXCEPT ![t] = Idle]
  <2>1. /\ Idle \in ThreadState /\ Idle.now <= clock
        /\ Idle.pc \notin {"listing", "closing", "completing", "consuming"}
        /\ \A f \in Idle.expired : freezes[f].expires # None
    BY <1>2, IdleIsThreadState
  <2>2. ThreadInv'
    BY <1>1, <1>2, <1>3, <2>1, ThreadStep DEF IInv
  <2> QED BY <1>2, <2>2 DEF IInv
<1>4. ASSUME NEW w \in LatestOpen,
             threads' = [threads EXCEPT ![t] = [threads[t] EXCEPT !.pc = "completing", !.window = w]]
      PROVE  IInv'
  <2> DEFINE s == [threads[t] EXCEPT !.pc = "completing", !.window = w]
  <2>1. w \in Windows /\ Exists(w)
    BY DEF LatestOpen, IsOpen, Exists
  <2>2. threads[t] \in ThreadState /\ threads[t].now <= clock
        /\ \A g \in threads[t].expired : freezes[g].expires # None
    BY DEF IInv, ThreadInv
  <2>3. /\ s \in ThreadState /\ s.now <= clock /\ s.window = w /\ s.pc = "completing"
        /\ \A g \in s.expired : freezes[g].expires # None
    BY <2>1, <2>2 DEF ThreadState
  <2>4. threads' = [threads EXCEPT ![t] = s]
    BY <1>4
  <2>5. ThreadInv'
    <3> HIDE DEF s
    <3> QED BY <1>1, <1>2, <2>1, <2>3, <2>4, ThreadStep DEF IInv
  <2> QED BY <1>2, <2>5 DEF IInv
<1>5. \/ threads' = [threads EXCEPT ![t] = Idle]
      \/ \E w \in LatestOpen :
           threads' = [threads EXCEPT ![t] = [threads[t] EXCEPT !.pc = "completing", !.window = w]]
  BY DEF Reread
<1> QED BY <1>3, <1>4, <1>5

\* Resuming by hand.
LEMMA ResumeStep ==
  ASSUME IInv, NEW w \in Windows, NEW reason \in Reasons, Resume(w, reason)
  PROVE  IInv'
<1> DEFINE rows == {f \in OpenFreezes(w) : freezes[f].reason = reason}
<1>1. /\ rows # {} /\ CloseFreezePeriods(w, rows, clock, "resumed_normally")
      /\ UNCHANGED <<clock, incidents, consumed, credits, threads, crashes>>
  BY DEF Resume
<1>2. Exists(w) /\ clock \in Nat
  BY <1>1, NoneIsNotAValue DEF IInv, DataInv, FreezeInv, OpenFreezes
<1>3. DataInv' /\ Monotone
  <2> HIDE DEF rows
  <2>1. rows \in SUBSET OpenFreezes(w)
    BY DEF rows
  <2> QED BY <1>1, <1>2, <2>1, CloseStep DEF IInv
<1>4. ThreadInv'
  BY <1>1, <1>3 DEF IInv, ThreadInv, ThreadState, Monotone
<1> QED BY <1>3, <1>4 DEF IInv

\* Time passes.
LEMMA TickStep ==
  ASSUME IInv, Tick
  PROVE  IInv'
<1>1. clock \in Nat /\ clock' = clock + 1 /\
      UNCHANGED <<windows, freezes, incidents, consumed, credits, lastEvent, threads, crashes>>
  BY DEF IInv, DataInv, Tick
<1>2. \A w \in Windows : RowInv(windows'[w], clock')
  BY <1>1 DEF IInv, DataInv, RowInv, WindowRow
<1>3. IncidentInv(clock)'
  BY <1>1 DEF IInv, DataInv, IncidentInv, IncidentRow
<1>4. ThreadInv'
  BY <1>1 DEF IInv, ThreadInv, ThreadState, Exists
<1> QED
  BY <1>1, <1>2, <1>3, <1>4 DEF IInv, DataInv, FreezeInv, IncidentInv, FreezeSet, EventsTellStatus,
                               OneFreshWindow, OpenFreezes, Exists, IsOpen

\* A crash empties the threads of a process and nothing else.
LEMMA ThreadsDie ==
  ASSUME IInv, NEW dying \in SUBSET Threads, crashes' = crashes + 1,
         threads' = [t \in Threads |-> IF t \in dying THEN Idle ELSE threads[t]],
         UNCHANGED <<clock, windows, freezes, incidents, consumed, credits, lastEvent>>
  PROVE  IInv'
<1>1. ThreadInv'
  <2>1. clock \in Nat
    BY DEF IInv, DataInv
  <2> QED BY <2>1, IdleIsThreadState DEF IInv, ThreadInv, Exists
<1> QED
  BY <1>1 DEF IInv, DataInv, FreezeInv, IncidentInv, FreezeSet, EventsTellStatus,
              OneFreshWindow, OpenFreezes, Exists, IsOpen

\* A crash empties the threads and nothing else.
LEMMA CrashStep ==
  ASSUME IInv, Crash
  PROVE  IInv'
<1>1. [t \in Threads |-> Idle] = [t \in Threads |-> IF t \in Threads THEN Idle ELSE threads[t]]
  OBVIOUS
<1> QED
  BY <1>1, ThreadsDie DEF Crash

\* An incident row changes to one that keeps its promises.
LEMMA IncidentStep ==
  ASSUME IInv, NEW i \in Incidents, NEW r \in IncidentRow, incidents' = [incidents EXCEPT ![i] = r],
         r.confirmed # None => r.confirmed <= clock,
         r.standing => r.confirmed # None,
         UNCHANGED <<clock, windows, freezes, consumed, credits, lastEvent, threads, crashes>>
  PROVE  IInv'
<1>1. IncidentInv(clock)'
  BY DEF IInv, DataInv, IncidentInv
<1> QED
  BY <1>1 DEF IInv, DataInv, ThreadInv, FreezeInv, FreezeSet, EventsTellStatus,
              OneFreshWindow, OpenFreezes, Exists, IsOpen

\* Reporting, confirming and retracting an incident.
LEMMA IncidentActions ==
  ASSUME IInv, NEW i \in Incidents,
         ReportIncident(i) \/ ConfirmIncident(i) \/ RetractIncident(i)
  PROVE  IInv'
<1>1. /\ clock \in Nat /\ incidents[i] \in IncidentRow /\ incidents \in [Incidents -> IncidentRow]
      /\ incidents[i].confirmed # None => incidents[i].confirmed <= clock
      /\ incidents[i].standing => incidents[i].confirmed # None
  BY DEF IInv, DataInv, IncidentInv
<1>2. CASE ReportIncident(i)
  <2> DEFINE r == [incidents[i] EXCEPT !.created = clock]
  <2>1. /\ r \in IncidentRow /\ r.confirmed = incidents[i].confirmed
        /\ r.standing = incidents[i].standing
    BY <1>1 DEF IncidentRow
  <2>2. incidents' = [incidents EXCEPT ![i] = r]
    BY <1>2 DEF ReportIncident
  <2> HIDE DEF r
  <2> QED BY <1>1, <1>2, <2>1, <2>2, IncidentStep DEF ReportIncident
<1>3. CASE ConfirmIncident(i)
  <2> DEFINE r == [incidents[i] EXCEPT !.confirmed = clock, !.standing = TRUE]
  <2>1. r \in IncidentRow /\ r.confirmed = clock
    BY <1>1 DEF IncidentRow
  <2>2. incidents' = [incidents EXCEPT ![i] = r]
    BY <1>1, <1>3 DEF ConfirmIncident, IncidentRow
  <2>3. r.confirmed # None /\ r.confirmed <= clock
    BY <1>1, <2>1, NoneIsNotAValue
  <2>4. UNCHANGED <<clock, windows, freezes, consumed, credits, lastEvent, threads, crashes>>
    BY <1>3 DEF ConfirmIncident
  <2> HIDE DEF r
  <2> QED BY <2>1, <2>2, <2>3, <2>4, IncidentStep
<1>4. CASE RetractIncident(i)
  <2> DEFINE r == [incidents[i] EXCEPT !.standing = FALSE]
  <2>1. r \in IncidentRow /\ r.confirmed = incidents[i].confirmed /\ ~r.standing
    BY <1>1 DEF IncidentRow
  <2>2. incidents' = [incidents EXCEPT ![i] = r]
    BY <1>4 DEF RetractIncident
  <2> HIDE DEF r
  <2> QED BY <1>1, <1>4, <2>1, <2>2, IncidentStep DEF RetractIncident
<1> QED BY <1>2, <1>3, <1>4

\* Delivering incident.confirmation_changed.
LEMMA ConsumeConfirmedStep ==
  ASSUME IInv, NEW i \in Incidents, ConsumeConfirmedIncident(i)
  PROVE  IInv'
<1>1. /\ incidents[i].confirmed \in Nat /\ incidents[i].confirmed <= clock
  BY DEF ConsumeConfirmedIncident, IInv, DataInv, IncidentInv, IncidentRow
<1>2. UNCHANGED <<clock, freezes, incidents, credits, threads, crashes>>
      /\ Consume(i, incidents[i].confirmed)
  BY DEF ConsumeConfirmedIncident
<1>3. DataInv' /\ Monotone
  BY <1>1, <1>2, ConsumeStep DEF IInv
<1>4. ThreadInv'
  BY <1>2, <1>3 DEF IInv, ThreadInv, ThreadState, Monotone
<1> QED BY <1>3, <1>4 DEF IInv

----------------------------------------------------------------------------
(* The inductive invariant *)

\* The invariant holds of an empty database ...
LEMMA InitIInv == Init => IInv
<1> SUFFICES ASSUME Init PROVE IInv
  OBVIOUS
<1>1. NoWindow \in WindowRow /\ NoFreeze \in FreezeRow /\ NoIncident \in IncidentRow
  BY DEF NoWindow, WindowRow, NoFreeze, FreezeRow, NoIncident, IncidentRow
<1>2. RowInv(NoWindow, 0)
  <2>1. NoWindow.since = None /\ NoWindow.status = "none" /\ NoWindow.ext = 0 /\ NoWindow.earned = 0
    BY DEF NoWindow
  <2>2. Target(NoWindow) \in Nat
    BY <1>1, TargetIsNat
  <2> QED BY <1>1, <2>1, <2>2, HoursType DEF RowInv
<1>3. [window |-> None, hours |-> 0] \in CreditRow
  BY DEF CreditRow
<1>4. ThreadInv
  BY IdleIsThreadState DEF Init, ThreadInv
<1>5. FreezeInv
  BY <1>1 DEF Init, FreezeInv, NoFreeze
<1>6. IncidentInv(clock)
  BY <1>1 DEF Init, IncidentInv, NoIncident
<1>7. FreezeSet /\ EventsTellStatus /\ OneFreshWindow
  BY DEF Init, FreezeSet, EventsTellStatus, OneFreshWindow, IsOpen, NoWindow
<1> QED
  BY <1>1, <1>2, <1>3, <1>4, <1>5, <1>6, <1>7 DEF Init, IInv, DataInv

\* ... and every step keeps it ...
LEMMA NextIInv == IInv /\ [Next]_vars => IInv'
<1> SUFFICES ASSUME IInv, [Next]_vars PROVE IInv'
  OBVIOUS
<1>1. CASE Tick
  BY <1>1, TickStep
<1>2. CASE Crash
  BY <1>2, CrashStep
<1>3. CASE \E i \in Incidents : ReportIncident(i) \/ ConfirmIncident(i) \/ RetractIncident(i)
                              \/ ConsumeConfirmedIncident(i)
  BY <1>3, IncidentActions, ConsumeConfirmedStep
<1>4. CASE \E t \in Threads : BeginStartWindow(t) \/ StartWindowStep(t)
  BY <1>4, BeginStartWindowStep, StartWindowStepStep
<1>5. CASE \E t \in Threads : BeginEnsure(t) \/ EnsureStep(t)
  <2>1. clock \in Nat
    BY DEF IInv, DataInv
  <2> QED
    BY <1>5, <2>1, BeginEnsureStep, ListExpiredStep, CloseExpiredStep, RereadStep, CompleteStep
    DEF BeginEnsure, EnsureStep
<1>6. CASE \E w \in Windows, reason \in Reasons, expires \in Expiries : Freeze(w, reason, expires)
  BY <1>6, FreezeStep
<1>7. CASE \E w \in Windows, reason \in Reasons : Resume(w, reason)
  BY <1>7, ResumeStep
<1>8. CASE \E c \in Completions, w \in Windows : RecordRecoveryCredit(c, w)
  BY <1>8, CreditStep
<1>9. CASE UNCHANGED vars
  <2>1. DataInv' /\ Monotone
    BY <1>9, DataUnchanged DEF IInv, vars
  <2> QED BY <1>9, <2>1 DEF IInv, vars, ThreadInv, Exists
<1> QED
  BY <1>1, <1>2, <1>3, <1>4, <1>5, <1>6, <1>7, <1>8, <1>9 DEF Next

\* ... so it always holds.
THEOREM Invariance == Spec => []IInv
<1> QED
  BY InitIInv, NextIInv, PTL DEF Spec

----------------------------------------------------------------------------
(* What follows from it *)

\* Every column and thread variable keeps its type: in particular the hours
\* accumulated, assigned and credited are never negative.
THEOREM TypeCorrect == Spec => []TypeOK
<1>1. IInv => TypeOK
  BY DEF IInv, DataInv, ThreadInv, FreezeInv, IncidentInv, TypeOK
<1> QED
  BY Invariance, <1>1, PTL

\* No stored time lies in the future, and operations only hold rows that exist.
THEOREM WellFormedAlways == Spec => []WellFormed
<1>1. IInv => WellFormed
  BY DEF IInv, DataInv, ThreadInv, FreezeInv, IncidentInv, RowInv, WellFormed
<1> QED
  BY Invariance, <1>1, PTL

\* I22: a window is FROZEN only while a freeze of it is open, ACTIVE only while none is.
THEOREM FreezeSetAlways == Spec => []FreezeSet
<1>1. IInv => FreezeSet
  BY DEF IInv, DataInv
<1> QED
  BY Invariance, <1>1, PTL

\* Extensions never exceed what the cap leaves, however many incidents a window consumes.
THEOREM ExtensionsCapped == Spec => []ExtensionsWithinCap
<1>1. IInv => ExtensionsWithinCap
  BY DEF IInv, DataInv, RowInv, ExtensionsWithinCap
<1> QED
  BY Invariance, <1>1, PTL

\* I3/I26: recovery credit never exceeds half of the target.
THEOREM CreditCapped == Spec => []RecoveryCreditWithinHalf
<1>1. IInv => RecoveryCreditWithinHalf
  BY DEF IInv, DataInv, RowInv, RecoveryCreditWithinHalf
<1> QED
  BY Invariance, <1>1, PTL

\* I18: the lifecycle events of a window tell its status.
THEOREM EventsComplete == Spec => []EventsTellStatus
<1>1. IInv => EventsTellStatus
  BY DEF IInv, DataInv
<1> QED
  BY Invariance, <1>1, PTL

\* At most one window runs for the first time.
THEOREM OneFreshWindowAlways == Spec => []OneFreshWindow
<1>1. IInv => OneFreshWindow
  BY DEF IInv, DataInv
<1> QED
  BY Invariance, <1>1, PTL

\* I11/I4: a consumption or a credit decision is never revised.
THEOREM DecisionsStand == Spec => DecisionsAreFinal
<1> DEFINE Final == /\ \A i \in Incidents : consumed[i] # None => consumed'[i] = consumed[i]
                    /\ \A c \in Completions : credits[c].window # None => credits'[c] = credits[c]
<1>1. ASSUME IInv, [Next]_vars PROVE Final
  <2>1. /\ consumed \in [Incidents -> Windows \union {None}]
        /\ credits \in [Completions -> CreditRow]
    BY <1>1 DEF IInv, DataInv
  <2>2. ASSUME NEW i \in Incidents, NEW now, Consume(i, now), UNCHANGED credits PROVE Final
    <3>1. consumed[i] = None /\ \E w \in Windows : consumed' = [consumed EXCEPT ![i] = w]
      BY <2>2, Zenon DEF Consume
    <3> QED BY <2>1, <2>2, <3>1
  <2>3. CASE UNCHANGED <<consumed, credits>>
    BY <2>3
  <2>4. CASE \E i \in Incidents : ConsumeConfirmedIncident(i)
    BY <2>2, <2>4 DEF ConsumeConfirmedIncident
  <2>5. CASE \E t \in Threads : StartWindowStep(t)
    <3>1. /\ UNCHANGED credits
          /\ \/ UNCHANGED consumed
             \/ \E i \in Incidents : \E now : Consume(i, now)
      BY <1>1, <2>5, StartWindowGoesOn
    <3> QED BY <2>2, <2>3, <3>1
  <2>6. CASE \E c \in Completions, w \in Windows : RecordRecoveryCredit(c, w)
    <3>1. PICK c \in Completions, w \in Windows : RecordRecoveryCredit(c, w)
      BY <2>6
    <3>2. /\ credits[c].window = None /\ UNCHANGED consumed
          /\ \E r : credits' = [credits EXCEPT ![c] = r]
      BY <3>1, Zenon DEF RecordRecoveryCredit
    <3> QED BY <2>1, <3>2
  <2> QED
    BY <1>1, <2>3, <2>4, <2>5, <2>6
    DEF Next, vars, Tick, Crash, ReportIncident, ConfirmIncident, RetractIncident, BeginStartWindow,
        BeginEnsure, BeginEnsureAt, EnsureStep, ListExpired, CloseExpired, Reread, CompleteWindow, Freeze, Resume
<1>2. IInv /\ [Next]_vars => [Final]_vars
  BY <1>1
<1> QED
  BY Invariance, <1>2, PTL DEF Spec, DecisionsAreFinal

\* A freeze row once written stays with its window.
LEMMA WindowsOfFreezesStand ==
  ASSUME IInv, [Next]_vars, NEW f \in Freezes, freezes[f].window # None
  PROVE  freezes'[f].window = freezes[f].window
<1>1. freezes \in [Freezes -> FreezeRow]
  BY DEF IInv, DataInv, FreezeInv
<1>2. ASSUME NEW w, NEW rows, NEW now, NEW endReason, CloseFreezePeriods(w, rows, now, endReason)
      PROVE  freezes'[f].window = freezes[f].window
  <2>1. \/ UNCHANGED freezes
        \/ freezes' = [g \in Freezes |->
                         IF g \in rows THEN [freezes[g] EXCEPT !.end = now, !.endReason = endReason]
                         ELSE freezes[g]]
    BY <1>2, Zenon DEF CloseFreezePeriods
  <2>2. [freezes[f] EXCEPT !.end = now, !.endReason = endReason].window = freezes[f].window
    BY <1>1 DEF FreezeRow
  <2> QED BY <2>1, <2>2
<1>3. CASE \E t \in Threads : CloseExpired(t)
  BY <1>2, <1>3 DEF CloseExpired
<1>4. CASE \E w \in Windows, reason \in Reasons : Resume(w, reason)
  BY <1>2, <1>4 DEF Resume
<1>5. CASE \E w \in Windows, reason \in Reasons, expires \in Expiries : Freeze(w, reason, expires)
  <2>1. PICK w \in Windows, reason \in Reasons, expires \in Expiries : Freeze(w, reason, expires)
    BY <1>5
  <2>2. PICK g \in Freezes : freezes[g].window = None /\ \E r : freezes' = [freezes EXCEPT ![g] = r]
    BY <2>1, Zenon DEF Freeze
  <2> QED BY <1>1, <2>2
<1>6. CASE UNCHANGED freezes
  BY <1>6
<1> QED
  BY <1>3, <1>4, <1>5, <1>6
  DEF Next, vars, Tick, Crash, ReportIncident, ConfirmIncident, RetractIncident,
      ConsumeConfirmedIncident, BeginStartWindow, StartWindowStep, ListCandidates, ListUnconsumed,
      ReadAssessment, ConsumeCandidate, BeginEnsure, BeginEnsureAt, EnsureStep,
      ListExpired, Reread, CompleteWindow, RecordRecoveryCredit

\* I17: only resume() ends an emergency override, and the window is not ACTIVE before.
THEOREM EmergencyHolds == Spec => EmergencyEndsOnlyByResume
<1> DEFINE Held == \A f \in Freezes :
       freezes[f].reason = "emergency_override" /\ freezes[f].end = None =>
         /\ freezes'[f].end = None \/ freezes'[f].endReason = "resumed_normally"
         /\ freezes'[f].end = None => windows'[freezes[f].window].status # "active"
<1>1. ASSUME IInv, [Next]_vars, NEW f \in Freezes,
             freezes[f].reason = "emergency_override", freezes[f].end = None
      PROVE  freezes'[f].end = None \/ freezes'[f].endReason = "resumed_normally"
  <2>1. freezes \in [Freezes -> FreezeRow] /\ freezes[f].expires = None /\ freezes[f].window # None
    BY <1>1 DEF IInv, DataInv, FreezeInv, NoFreeze
  <2>2. CASE \E t \in Threads : CloseExpired(t)
    <3>0. PICK t \in Threads : CloseExpired(t)
      BY <2>2
    <3>1. PICK g \in threads[t].expired :
            CloseFreezePeriods(threads[t].window, {g} \intersect OpenFreezes(threads[t].window),
                               threads[t].now, "expired")
      BY <3>0 DEF CloseExpired
    <3>2. freezes[g].expires # None
      BY <1>1 DEF IInv, ThreadInv
    <3>3. freezes'[f] = freezes[f]
      BY <2>1, <3>1, <3>2 DEF CloseFreezePeriods
    <3> QED BY <1>1, <3>3
  <2>3. CASE \E w \in Windows, reason \in Reasons : Resume(w, reason)
    <3>1. PICK w \in Windows, reason \in Reasons : Resume(w, reason)
      BY <2>3
    <3>2. PICK rows \in SUBSET Freezes :
            freezes' = [g \in Freezes |->
                         IF g \in rows THEN [freezes[g] EXCEPT !.end = clock, !.endReason = "resumed_normally"]
                         ELSE freezes[g]]
      BY <3>1 DEF Resume, CloseFreezePeriods, OpenFreezes
    <3> QED BY <1>1, <2>1, <3>2 DEF FreezeRow
  <2>4. CASE \E w \in Windows, reason \in Reasons, expires \in Expiries : Freeze(w, reason, expires)
    <3>1. PICK w \in Windows, reason \in Reasons, expires \in Expiries : Freeze(w, reason, expires)
      BY <2>4
    <3>2. PICK g \in Freezes : /\ freezes[g].window = None
                             /\ \E r : freezes' = [freezes EXCEPT ![g] = r]
      BY <3>1, Zenon DEF Freeze
    <3>3. freezes'[f] = freezes[f]
      BY <2>1, <3>2
    <3> QED BY <1>1, <3>3
  <2>5. CASE UNCHANGED freezes
    BY <1>1, <2>5
  <2> QED
    BY <1>1, <2>2, <2>3, <2>4, <2>5
    DEF Next, vars, Tick, Crash, ReportIncident, ConfirmIncident, RetractIncident,
        ConsumeConfirmedIncident, BeginStartWindow, StartWindowStep, ListCandidates, ListUnconsumed,
        ReadAssessment, ConsumeCandidate, BeginEnsure, BeginEnsureAt, EnsureStep,
        ListExpired, Reread, CompleteWindow, RecordRecoveryCredit
<1>2. ASSUME IInv, IInv', [Next]_vars, NEW f \in Freezes,
             freezes[f].reason = "emergency_override", freezes[f].end = None, freezes'[f].end = None
      PROVE  windows'[freezes[f].window].status # "active"
  <2>1. freezes[f].window \in Windows
    BY <1>2 DEF IInv, DataInv, FreezeInv, FreezeRow, NoFreeze
  <2>2. freezes'[f].window = freezes[f].window
    BY <1>2, <2>1, NoneIsNotAValue, WindowsOfFreezesStand
  <2> QED
    BY <1>2, <2>1, <2>2 DEF IInv, DataInv, FreezeSet, OpenFreezes
<1>3. IInv /\ IInv' /\ [Next]_vars => [Held]_vars
  BY <1>1, <1>2
<1> QED
  BY Invariance, <1>3, PTL DEF Spec, EmergencyEndsOnlyByResume

----------------------------------------------------------------------------
(* The countdown counts unfrozen time, when no operation is overtaken *)

\* Under Prompt whatever runs has the present as its `now' ...
RunningNow == \A t \in Threads : threads[t].pc # "idle" => threads[t].now = clock

\* ... so freezes are opened and closed at times that have come ...
FreezesArePast ==
  \A f \in Freezes : freezes[f].window # None =>
    /\ freezes[f].start <= clock
    /\ freezes[f].end # None => freezes[f].end <= clock

NeverClosed(w) == IsOpen(w) /\ windows[w].closed = None

Unfrozen(w) == {time \in windows[w].created..clock-1 : ~FrozenAt(w, time)}

\* ... and the countdown of a window is right at every moment.
Counted(w) ==
  /\ windows[w].created <= clock
  /\ windows[w].status = "active" => windows[w].since # None
  /\ Elapsed(windows[w], clock) = Cardinality(Unfrozen(w))

CountInv == RunningNow /\ FreezesArePast /\ \A w \in Windows : NeverClosed(w) => Counted(w)

\* What the proofs use of a window's row and of the times of freezes.
LEMMA RowsHaveTypes ==
  ASSUME IInv
  PROVE  /\ clock \in Nat
         /\ \A w \in Windows :
              /\ windows[w] \in WindowRow
              /\ windows[w].since # None => windows[w].since \in Nat /\ windows[w].since <= clock
              /\ windows[w].status = "completed" => windows[w].closed # None
         /\ freezes \in [Freezes -> FreezeRow]
         /\ \A f \in Freezes :
              /\ freezes[f].start \in Nat
              /\ freezes[f].end # None => freezes[f].end \in Nat
              /\ freezes[f].window # None => freezes[f].window \in Windows /\ Exists(freezes[f].window)
<1>1. clock \in Nat /\ freezes \in [Freezes -> FreezeRow]
  BY DEF IInv, DataInv, FreezeInv
<1>2. ASSUME NEW w \in Windows
      PROVE  /\ windows[w] \in WindowRow
             /\ windows[w].since # None => windows[w].since \in Nat /\ windows[w].since <= clock
             /\ windows[w].status = "completed" => windows[w].closed # None
  <2>1. RowInv(windows[w], clock)
    BY DEF IInv, DataInv
  <2> QED BY <2>1 DEF RowInv, WindowRow
<1>3. ASSUME NEW f \in Freezes
      PROVE  /\ freezes[f].start \in Nat
             /\ freezes[f].end # None => freezes[f].end \in Nat
             /\ freezes[f].window # None => freezes[f].window \in Windows /\ Exists(freezes[f].window)
  BY <1>1 DEF FreezeRow, IInv, DataInv, FreezeInv
<1> QED BY <1>1, <1>2, <1>3

\* A step that changes neither the countdown nor what was frozen before now.
LEMMA CountStands ==
  ASSUME NEW w \in Windows, Counted(w), clock' = clock,
         windows'[w].created = windows[w].created,
         windows'[w].status = "active" => windows'[w].since # None,
         Elapsed(windows'[w], clock) = Elapsed(windows[w], clock),
         \A time \in windows[w].created..clock-1 : FrozenAt(w, time)' <=> FrozenAt(w, time)
  PROVE  Counted(w)'
<1>1. Unfrozen(w)' = Unfrozen(w)
  BY DEF Unfrozen
<1>2. Elapsed(windows[w], clock)' = Elapsed(windows[w], clock)
  BY DEF Elapsed
<1> QED BY <1>1, <1>2 DEF Counted

\* In particular one that leaves the row and the freezes alone.
LEMMA CountOfOtherRows ==
  ASSUME NEW w \in Windows, NeverClosed(w) => Counted(w), clock' = clock, freezes' = freezes,
         windows'[w] = windows[w]
  PROVE  NeverClosed(w)' => Counted(w)'
<1>1. NeverClosed(w)' => NeverClosed(w)
  BY DEF NeverClosed, IsOpen
<1>2. SUFFICES ASSUME Counted(w) PROVE Counted(w)'
  BY <1>1
<1>3. Unfrozen(w)' = Unfrozen(w)
  BY DEF Unfrozen, FrozenAt
<1> QED BY <1>2, <1>3 DEF Counted, Elapsed

\* A tick is counted exactly by the windows that are not frozen.
LEMMA CountTicks ==
  ASSUME IInv, CountInv, Tick, NEW w \in Windows, NeverClosed(w)'
  PROVE  Counted(w)'
<1>1. /\ clock \in Nat /\ clock' = clock + 1 /\ windows' = windows /\ freezes' = freezes
      /\ NeverClosed(w)
  BY RowsHaveTypes DEF Tick, NeverClosed, IsOpen
<1>2. Counted(w) /\ FreezesArePast
  BY <1>1 DEF CountInv
<1>3. /\ windows[w].created \in Nat /\ windows[w].acc \in Nat /\ windows[w].created <= clock
      /\ windows[w].since # None => windows[w].since \in Nat
  BY <1>2, RowsHaveTypes DEF WindowRow, Counted
<1>4. Unfrozen(w)' = IF FrozenAt(w, clock) THEN Unfrozen(w) ELSE Unfrozen(w) \union {clock}
  <2>1. windows[w].created..clock = (windows[w].created..clock-1) \union {clock}
    BY <1>1, <1>3
  <2>2. Unfrozen(w)' = {time \in windows[w].created..clock : ~FrozenAt(w, time)}
    <3>1. \A time : FrozenAt(w, time)' <=> FrozenAt(w, time)
      BY <1>1 DEF FrozenAt
    <3>2. windows'[w].created..clock'-1 = windows[w].created..clock
      BY <1>1
    <3> QED BY <3>1, <3>2 DEF Unfrozen
  <2> QED BY <2>1, <2>2 DEF Unfrozen
<1>5. IsFiniteSet(Unfrozen(w)) /\ clock \notin Unfrozen(w)
  <2>1. IsFiniteSet(windows[w].created..clock-1)
    <3>1. windows[w].created \in Int /\ clock-1 \in Int
      BY <1>1, <1>3
    <3> QED BY <3>1, FS_Interval
  <2>2. Unfrozen(w) \subseteq windows[w].created..clock-1
    BY DEF Unfrozen
  <2>3. clock \notin windows[w].created..clock-1
    BY <1>1, <1>3
  <2> QED BY <2>1, <2>2, <2>3, FS_Subset
<1>6. Cardinality(Unfrozen(w)') =
        IF FrozenAt(w, clock) THEN Cardinality(Unfrozen(w)) ELSE Cardinality(Unfrozen(w)) + 1
  BY <1>4, <1>5, FS_AddElement
<1>7. CASE windows[w].status = "active"
  <2>1. ~FrozenAt(w, clock)
    <3>1. \A f \in Freezes : freezes[f].window = w => freezes[f].end \in Nat /\ freezes[f].end <= clock
      BY <1>2, <1>7, RowsHaveTypes, NoneIsNotAValue
      DEF FreezesArePast, IInv, DataInv, FreezeSet, OpenFreezes
    <3> QED BY <1>1, <3>1, NoneIsNotAValue DEF FrozenAt
  <2>2. Elapsed(windows[w], clock + 1) = Elapsed(windows[w], clock) + 1
    BY <1>1, <1>2, <1>3, <1>7 DEF Elapsed, Counted
  <2> QED BY <1>1, <1>2, <1>3, <1>6, <2>1, <2>2 DEF Counted, Elapsed
<1>8. CASE windows[w].status = "frozen"
  <2>1. FrozenAt(w, clock)
    <3>1. PICK f \in Freezes : freezes[f].window = w /\ freezes[f].end = None
      BY <1>8 DEF IInv, DataInv, FreezeSet, OpenFreezes
    <3>2. freezes[f].start <= clock
      BY <1>2, <3>1, NoneIsNotAValue DEF FreezesArePast
    <3> QED BY <3>1, <3>2 DEF FrozenAt
  <2> QED BY <1>1, <1>2, <1>3, <1>6, <1>8, <2>1 DEF Counted, Elapsed
<1> QED BY <1>1, <1>7, <1>8 DEF NeverClosed, IsOpen

\* Opening a freeze brings the countdown up to date: what was frozen before now stays so.
LEMMA CountFreezes ==
  ASSUME IInv, CountInv, NEW v \in Windows, NEW reason \in Reasons, NEW expires \in Expiries,
         Freeze(v, reason, expires)
  PROVE  FreezesArePast' /\ \A w \in Windows : NeverClosed(w)' => Counted(w)'
<1>1. PICK f \in Freezes :
        /\ freezes[f].window = None
        /\ freezes' = [freezes EXCEPT ![f] =
                         [NoFreeze EXCEPT !.window = v, !.reason = reason,
                                          !.start = clock, !.expires = expires]]
  BY DEF Freeze
<1>2. clock \in Nat /\ clock' = clock /\ freezes \in [Freezes -> FreezeRow] /\ None # v
  BY RowsHaveTypes, NoneIsNotAValue DEF Freeze
<1>3. /\ freezes'[f].window = v /\ freezes'[f].start = clock /\ freezes'[f].end = None
      /\ \A g \in Freezes : g # f => freezes'[g] = freezes[g]
  BY <1>1, <1>2 DEF NoFreeze
<1>4. FreezesArePast'
  BY <1>2, <1>3 DEF FreezesArePast, CountInv
<1>5. ASSUME NEW w \in Windows, NEW time \in windows[w].created..clock-1
      PROVE  FrozenAt(w, time)' <=> FrozenAt(w, time)
  <2>1. windows[w].created \in Nat /\ time \in Int /\ ~(clock <= time)
    BY <1>2, <1>5, RowsHaveTypes DEF WindowRow
  <2> QED BY <1>1, <1>2, <1>3, <2>1, NoneIsNotAValue DEF FrozenAt
<1>6. ASSUME NEW w \in Windows, NeverClosed(w)'
      PROVE  Counted(w)'
  <2>1. CASE windows'[w] = windows[w]
    <3>1. NeverClosed(w) /\ Counted(w)
      BY <1>6, <2>1 DEF NeverClosed, IsOpen, CountInv
    <3> QED BY <1>2, <1>5, <2>1, <3>1, CountStands DEF Counted
  <2>2. CASE windows'[w] # windows[w]
    <3> DEFINE Row == [windows[w] EXCEPT !.status = "frozen",
                         !.acc = Elapsed(windows[w], clock), !.since = None]
    <3>1. w = v /\ windows[w].status = "active" /\ windows'[w] = Row
      <4>1. \/ windows' = windows
            \/ /\ windows[v].status = "active"
               /\ windows' = [windows EXCEPT ![v] =
                                [windows[v] EXCEPT !.status = "frozen",
                                   !.acc = Elapsed(windows[v], clock), !.since = None]]
        BY Zenon DEF Freeze
      <4>2. w = v /\ windows[v].status = "active"
        BY <2>2, <4>1 DEF IInv, DataInv
      <4>3. windows' = [windows EXCEPT ![w] = Row]
        BY <2>2, <4>1, <4>2
      <4> HIDE DEF Row
      <4> QED BY <4>2, <4>3 DEF IInv, DataInv
    <3>2. windows[w] \in WindowRow
      BY RowsHaveTypes
    <3>3. /\ Row.status = "frozen" /\ Row.created = windows[w].created
          /\ Row.closed = windows[w].closed /\ Row.acc = Elapsed(windows[w], clock)
      BY <3>2 DEF WindowRow
    <3>4. Elapsed(Row, clock) = Elapsed(windows[w], clock)
      BY <3>3 DEF Elapsed
    <3>5. Counted(w)
      BY <1>6, <3>1, <3>3 DEF NeverClosed, IsOpen, CountInv
    <3> HIDE DEF Row
    <3> QED BY <1>2, <1>5, <3>1, <3>3, <3>4, <3>5, CountStands
  <2> QED BY <2>1, <2>2
<1> QED BY <1>4, <1>6

\* Closing freezes now does not change what was frozen before, and the countdown
\* of a window that becomes ACTIVE goes on from what it had accumulated.
LEMMA CountCloses ==
  ASSUME IInv, CountInv, NEW v \in Windows, NEW rows \in SUBSET OpenFreezes(v), NEW endReason,
         CloseFreezePeriods(v, rows, clock, endReason), clock' = clock
  PROVE  FreezesArePast' /\ \A w \in Windows : NeverClosed(w)' => Counted(w)'
<1>1. CASE rows = {}
  <2>1. windows' = windows /\ freezes' = freezes
    BY <1>1 DEF CloseFreezePeriods
  <2>2. \A w \in Windows : NeverClosed(w)' => Counted(w)'
    BY <2>1, CountOfOtherRows DEF CountInv
  <2> QED BY <2>1, <2>2 DEF CountInv, FreezesArePast
<1>2. CASE rows # {}
  <2>1. freezes' = [f \in Freezes |->
                      IF f \in rows THEN [freezes[f] EXCEPT !.end = clock, !.endReason = endReason]
                      ELSE freezes[f]]
    BY <1>2 DEF CloseFreezePeriods
  <2>2. clock \in Nat /\ freezes \in [Freezes -> FreezeRow] /\ clock # None
    BY RowsHaveTypes, NoneIsNotAValue
  <2>3. \A f \in Freezes :
          /\ freezes'[f].window = freezes[f].window
          /\ freezes'[f].start = freezes[f].start
          /\ freezes'[f].end = IF f \in rows THEN clock ELSE freezes[f].end
    BY <2>1, <2>2 DEF FreezeRow
  <2>4. FreezesArePast'
    BY <2>2, <2>3 DEF FreezesArePast, CountInv
  <2>5. ASSUME NEW w \in Windows, NEW time \in windows[w].created..clock-1
        PROVE  FrozenAt(w, time)' <=> FrozenAt(w, time)
    <3>1. windows[w].created \in Nat /\ time \in Int /\ time < clock
      BY <2>2, <2>5, RowsHaveTypes DEF WindowRow
    <3>2. \A f \in rows : freezes[f].end = None
      BY DEF OpenFreezes
    <3> QED BY <2>2, <2>3, <3>1, <3>2 DEF FrozenAt
  <2>6. ASSUME NEW w \in Windows, NeverClosed(w)'
        PROVE  Counted(w)'
    <3>1. CASE windows'[w] = windows[w]
      <4>1. NeverClosed(w) /\ Counted(w)
        BY <2>6, <3>1 DEF NeverClosed, IsOpen, CountInv
      <4> QED BY <2>5, <3>1, <4>1, CountStands DEF Counted
    <3>2. CASE windows'[w] # windows[w]
      <4> DEFINE Row == [windows[w] EXCEPT !.status = "active", !.since = clock]
      <4>1. w = v /\ windows'[w] = Row
        <5>1. \/ windows' = windows
              \/ windows' = [windows EXCEPT ![v] = [windows[v] EXCEPT !.status = "active", !.since = clock]]
          BY <1>2, Zenon DEF CloseFreezePeriods
        <5>2. w = v
          BY <3>2, <5>1 DEF IInv, DataInv
        <5>3. windows' = [windows EXCEPT ![w] = Row]
          BY <3>2, <5>1, <5>2
        <5> HIDE DEF Row
        <5> QED BY <5>2, <5>3 DEF IInv, DataInv
      <4>2. windows[w] \in WindowRow /\ windows[w].acc \in Nat
        BY RowsHaveTypes DEF WindowRow
      <4>3. /\ Row.status = "active" /\ Row.created = windows[w].created /\ Row.since = clock
            /\ Row.closed = windows[w].closed /\ Row.acc = windows[w].acc
        BY <4>2 DEF WindowRow
      <4>4. windows[w].status = "frozen" /\ windows[w].closed = None
        <5>1. Exists(w) /\ OpenFreezes(w) # {}
          BY <1>2, <4>1, RowsHaveTypes, NoneIsNotAValue DEF OpenFreezes
        <5>2. windows[w].closed = None
          BY <2>6, <4>1, <4>3 DEF NeverClosed
        <5>3. windows[w].status # "completed" /\ windows[w].status # "active"
          BY <5>1, <5>2, RowsHaveTypes DEF IInv, DataInv, FreezeSet
        <5> QED BY <4>2, <5>1, <5>2, <5>3 DEF WindowRow, Exists
      <4>5. Counted(w)
        BY <4>4 DEF NeverClosed, IsOpen, CountInv
      <4>6. Elapsed(Row, clock) = Elapsed(windows[w], clock)
        BY <2>2, <4>2, <4>3, <4>4 DEF Elapsed
      <4> HIDE DEF Row
      <4> QED BY <2>2, <2>5, <4>1, <4>3, <4>5, <4>6, CountStands
    <3> QED BY <3>1, <3>2
  <2> QED BY <2>4, <2>6
<1> QED BY <1>1, <1>2

\* A window started late was never frozen since; one that is extended counts on.
LEMMA CountConsumes ==
  ASSUME IInv, CountInv, NEW i \in Incidents, NEW now \in Nat, now <= clock, Consume(i, now),
         clock' = clock, freezes' = freezes
  PROVE  FreezesArePast' /\ \A w \in Windows : NeverClosed(w)' => Counted(w)'
<1>1. FreezesArePast'
  BY DEF FreezesArePast, CountInv
<1>2. ASSUME NEW w \in Windows, NeverClosed(w)', windows'[w] # windows[w]
      PROVE  Counted(w)'
  <2>1. clock \in Nat /\ windows \in [Windows -> WindowRow] /\ now # None
    BY RowsHaveTypes, NoneIsNotAValue DEF IInv, DataInv
  <2>2. \/ /\ ~Exists(w)
           /\ \E n : windows'[w] = [[NoWindow EXCEPT !.status = "active", !.created = now,
                                                     !.since = now] EXCEPT !.ext = n]
        \/ IsOpen(w) /\ \E n : windows'[w] = [windows[w] EXCEPT !.ext = n]
    <3> DEFINE Started == \A v \in Windows : ~IsOpen(v)
               Row(v) == IF Started
                           THEN [NoWindow EXCEPT !.status = "active", !.created = now, !.since = now]
                           ELSE windows[v]
               New(v) == [Row(v) EXCEPT !.ext =
                            Row(v).ext + Least(Uncapped[i][SameRuleCount(i, v)],
                                               IF MaxTarget - (BaseHours + Row(v).ext) > 0
                                                 THEN MaxTarget - (BaseHours + Row(v).ext) ELSE 0)]
    <3>1. PICK v \in Windows : /\ IF Started THEN ~Exists(v) ELSE v \in LatestOpen
                               /\ windows' = [windows EXCEPT ![v] = New(v)]
      BY Zenon DEF Consume
    <3>2. w = v /\ windows'[w] = New(w)
      <4> HIDE DEF New
      <4> QED BY <1>2, <2>1, <3>1
    <3>3. \E n : windows'[w] = [Row(w) EXCEPT !.ext = n]
      <4> HIDE DEF Row
      <4> QED BY <3>2, Zenon
    <3>4. IF Started THEN ~Exists(w) ELSE IsOpen(w)
      BY <3>1, <3>2 DEF LatestOpen
    <3> QED BY <3>3, <3>4, Zenon
  <2>3. CASE ~Exists(w) /\ \E n : windows'[w] = [[NoWindow EXCEPT !.status = "active", !.created = now,
                                                       !.since = now] EXCEPT !.ext = n]
    <3>1. /\ windows'[w].created = now /\ windows'[w].since = now /\ windows'[w].acc = 0
          /\ windows'[w].status = "active"
      BY <2>3 DEF NoWindow
    <3>2. Unfrozen(w)' = now..clock-1
      <4>1. \A f \in Freezes : freezes[f].window # w
        BY <2>3, RowsHaveTypes, NoneIsNotAValue
      <4> QED BY <3>1, <4>1 DEF Unfrozen, FrozenAt
    <3>3. Cardinality(now..clock-1) = clock - now
      <4>1. now \in Int /\ clock-1 \in Int
        BY <2>1
      <4>2. Cardinality(now..clock-1) = IF now > clock-1 THEN 0 ELSE (clock-1)-now+1
        BY <4>1, FS_Interval
      <4> QED BY <2>1, <4>2
    <3> QED BY <2>1, <3>1, <3>2, <3>3 DEF Counted, Elapsed
  <2>4. CASE IsOpen(w) /\ \E n : windows'[w] = [windows[w] EXCEPT !.ext = n]
    <3>1. /\ windows'[w].created = windows[w].created /\ windows'[w].since = windows[w].since
          /\ windows'[w].acc = windows[w].acc /\ windows'[w].status = windows[w].status
          /\ windows'[w].closed = windows[w].closed
      BY <2>1, <2>4 DEF WindowRow
    <3>2. Counted(w)
      BY <1>2, <2>4, <3>1 DEF NeverClosed, CountInv
    <3>3. \A time : FrozenAt(w, time)' <=> FrozenAt(w, time)
      BY DEF FrozenAt
    <3>4. Elapsed(windows'[w], clock) = Elapsed(windows[w], clock)
      BY <3>1 DEF Elapsed
    <3> QED BY <3>1, <3>2, <3>3, <3>4, CountStands DEF Counted
  <2> QED BY <2>2, <2>3, <2>4
<1>3. ASSUME NEW w \in Windows, NeverClosed(w)'
      PROVE  Counted(w)'
  BY <1>2, <1>3, CountOfOtherRows DEF CountInv
<1> QED BY <1>1, <1>3

\* A row that changes in nothing the countdown is made of, and one that is closed.
LEMMA CountOfRow ==
  ASSUME IInv, CountInv, NEW v \in Windows, NEW r, windows' = [windows EXCEPT ![v] = r],
         clock' = clock, freezes' = freezes,
         \/ r.closed # None
         \/ /\ r.status = windows[v].status /\ r.closed = windows[v].closed
            /\ r.created = windows[v].created /\ r.since = windows[v].since
            /\ r.acc = windows[v].acc
  PROVE  FreezesArePast' /\ \A w \in Windows : NeverClosed(w)' => Counted(w)'
<1>1. FreezesArePast'
  BY DEF FreezesArePast, CountInv
<1>2. windows'[v] = r /\ \A w \in Windows : w # v => windows'[w] = windows[w]
  BY DEF IInv, DataInv
<1>3. ASSUME NEW w \in Windows, w # v, NeverClosed(w)'
      PROVE  Counted(w)'
  BY <1>2, <1>3, CountOfOtherRows DEF CountInv
<1>4. ASSUME NeverClosed(v)'
      PROVE  Counted(v)'
  <2>1. /\ r.status = windows[v].status /\ r.closed = windows[v].closed
        /\ r.created = windows[v].created /\ r.since = windows[v].since
        /\ r.acc = windows[v].acc
    BY <1>2, <1>4 DEF NeverClosed
  <2>2. Counted(v)
    BY <1>2, <1>4, <2>1 DEF NeverClosed, IsOpen, CountInv
  <2>3. \A time : FrozenAt(v, time)' <=> FrozenAt(v, time)
    BY DEF FrozenAt
  <2>4. Elapsed(windows'[v], clock) = Elapsed(windows[v], clock)
    BY <1>2, <2>1 DEF Elapsed
  <2> QED BY <1>2, <2>1, <2>2, <2>3, <2>4, CountStands DEF Counted
<1> QED BY <1>1, <1>3, <1>4

\* Completing and crediting are such steps.
LEMMA CountCompletes ==
  ASSUME IInv, CountInv, NEW t \in Threads, CompleteWindow(t)
  PROVE  FreezesArePast' /\ \A w \in Windows : NeverClosed(w)' => Counted(w)'
<1> DEFINE v == threads[t].window
           r == [windows[v] EXCEPT !.status = "completed", !.closed = threads[t].now]
<1>1. v \in Windows /\ windows[v] \in WindowRow
  BY RowsHaveTypes DEF CompleteWindow, IInv, ThreadInv
<1>2. threads[t].now \in Nat
  BY DEF IInv, ThreadInv, ThreadState
<1>3. r.closed # None
  BY <1>1, <1>2, NoneIsNotAValue DEF WindowRow
<1>4. windows' = [windows EXCEPT ![v] = r] /\ clock' = clock /\ freezes' = freezes
  BY DEF CompleteWindow
<1> HIDE DEF r, v
<1> QED BY <1>1, <1>3, <1>4, CountOfRow

LEMMA CountCredits ==
  ASSUME IInv, CountInv, NEW c \in Completions, NEW v \in Windows, RecordRecoveryCredit(c, v)
  PROVE  FreezesArePast' /\ \A w \in Windows : NeverClosed(w)' => Counted(w)'
<1>1. PICK n : windows' = [windows EXCEPT ![v] = [windows[v] EXCEPT !.earned = n]]
  BY Zenon DEF RecordRecoveryCredit
<1> DEFINE r == [windows[v] EXCEPT !.earned = n]
<1>2. /\ r.status = windows[v].status /\ r.closed = windows[v].closed
      /\ r.created = windows[v].created /\ r.since = windows[v].since
      /\ r.acc = windows[v].acc
  BY RowsHaveTypes DEF WindowRow
<1>3. windows' = [windows EXCEPT ![v] = r] /\ clock' = clock /\ freezes' = freezes
  BY <1>1 DEF RecordRecoveryCredit
<1> HIDE DEF r
<1> QED BY <1>2, <1>3, CountOfRow

\* A thread begins with the present, goes on with it, or ends.
LEMMA ThreadsRunNow ==
  ASSUME RunningNow, threads \in [Threads -> ThreadState], clock' = clock, NEW t \in Threads, NEW s,
         threads' = [threads EXCEPT ![t] = s], s.pc = "idle" \/ s.now = clock
  PROVE  RunningNow'
BY DEF RunningNow

LEMMA RunNow ==
  ASSUME IInv, RunningNow, Prompt, [Next]_vars
  PROVE  RunningNow'
<1>1. threads \in [Threads -> ThreadState]
  BY DEF IInv, ThreadInv
<1>2. CASE Tick
  BY <1>2, IdleIsThreadState DEF Tick, RunningNow
<1>3. CASE Crash
  BY <1>3, IdleIsThreadState DEF Crash, RunningNow
<1>4. CASE UNCHANGED <<clock, threads>>
  BY <1>4 DEF RunningNow
<1>5. ASSUME NEW t \in Threads, BeginStartWindow(t)
      PROVE  RunningNow'
  <2>1. PICK c : threads' = [threads EXCEPT ![t] =
                    [Idle EXCEPT !.pc = "looking", !.now = clock, !.since = c]]
    BY <1>5, Zenon DEF BeginStartWindow
  <2>2. [Idle EXCEPT !.pc = "looking", !.now = clock, !.since = c].now = clock
    BY DEF Idle
  <2> QED BY <1>1, <1>5, <2>1, <2>2, ThreadsRunNow DEF BeginStartWindow
<1>6. ASSUME NEW t \in Threads, BeginEnsure(t)
      PROVE  RunningNow'
  <2>1. PICK w : threads' = [threads EXCEPT ![t] =
                    [Idle EXCEPT !.pc = "listing", !.now = clock, !.window = w]]
    BY <1>6, Zenon DEF BeginEnsure, BeginEnsureAt
  <2>2. [Idle EXCEPT !.pc = "listing", !.now = clock, !.window = w].now = clock
    BY DEF Idle
  <2> QED BY <1>1, <1>6, <2>1, <2>2, ThreadsRunNow DEF BeginEnsure, BeginEnsureAt
<1>7. ASSUME NEW t \in Threads, StartWindowStep(t) \/ EnsureStep(t)
      PROVE  RunningNow'
  <2>1. threads[t] \in ThreadState /\ threads[t].now = clock
    BY <1>1, <1>7, StartWindowGoesOn DEF RunningNow, EnsureStep, ListExpired, CloseExpired, Reread,
                      CompleteWindow
  <2>2. clock' = clock
    BY <1>7, StartWindowGoesOn DEF EnsureStep, ListExpired, CloseExpired, Reread, CompleteWindow
  <2>3. PICK s : threads' = [threads EXCEPT ![t] = s] /\ (s = Idle \/ s.now = threads[t].now)
    <3>1. CASE StartWindowStep(t)
      BY <3>1, StartWindowGoesOn
    <3>2. CASE ListExpired(t)
      <4>1. PICK e : threads' = [threads EXCEPT ![t] = [threads[t] EXCEPT !.pc = "closing", !.expired = e]]
        BY <1>1, <3>2 DEF ListExpired
      <4>2. [threads[t] EXCEPT !.pc = "closing", !.expired = e].now = threads[t].now
        BY <2>1 DEF ThreadState
      <4> QED BY <4>1, <4>2
    <3>3. CASE CloseExpired(t)
      <4>1. PICK e : threads' = [threads EXCEPT ![t] = [threads[t] EXCEPT !.expired = e]]
        BY <1>1, <3>3 DEF CloseExpired
      <4>2. [threads[t] EXCEPT !.expired = e].now = threads[t].now
        BY <2>1 DEF ThreadState
      <4> QED BY <4>1, <4>2
    <3>4. CASE Reread(t)
      <4>1. \/ threads' = [threads EXCEPT ![t] = Idle]
            \/ \E w : threads' = [threads EXCEPT ![t] =
                                    [threads[t] EXCEPT !.pc = "completing", !.window = w]]
        BY <3>4 DEF Reread
      <4>2. \A w : [threads[t] EXCEPT !.pc = "completing", !.window = w].now = threads[t].now
        BY <2>1 DEF ThreadState
      <4> QED BY <4>1, <4>2
    <3>5. CASE CompleteWindow(t)
      BY <3>5 DEF CompleteWindow
    <3> QED BY <1>7, <3>1, <3>2, <3>3, <3>4, <3>5 DEF EnsureStep
  <2> QED BY <1>1, <2>1, <2>2, <2>3, ThreadsRunNow, IdleIsThreadState
<1> QED
  BY <1>2, <1>3, <1>4, <1>5, <1>6, <1>7
  DEF Next, vars, ReportIncident, ConfirmIncident, RetractIncident, ConsumeConfirmedIncident,
      Freeze, Resume, RecordRecoveryCredit

\* Every step keeps the count.
LEMMA NextCountInv ==
  ASSUME IInv, CountInv, Prompt, [Next]_vars
  PROVE  CountInv'
<1>1. RunningNow'
  BY RunNow DEF CountInv
<1> DEFINE Goal == FreezesArePast' /\ \A w \in Windows : NeverClosed(w)' => Counted(w)'
<1> SUFFICES Goal
  BY <1>1 DEF CountInv
<1>2. CASE Tick
  <2>1. FreezesArePast'
    <3>1. clock \in Nat /\ clock' = clock + 1 /\ freezes' = freezes
      BY <1>2, RowsHaveTypes DEF Tick
    <3>2. \A f \in Freezes : freezes[f].start \in Nat /\ (freezes[f].end # None => freezes[f].end \in Nat)
      BY RowsHaveTypes
    <3> QED BY <3>1, <3>2 DEF FreezesArePast, CountInv
  <2> QED BY <1>2, <2>1, CountTicks
<1>3. CASE UNCHANGED <<clock, windows, freezes>>
  <2>1. FreezesArePast'
    BY <1>3 DEF FreezesArePast, CountInv
  <2> QED BY <1>3, <2>1, CountOfOtherRows DEF CountInv
<1>4. ASSUME NEW i \in Incidents, ConsumeConfirmedIncident(i) PROVE Goal
  <2>1. incidents[i].confirmed \in Nat /\ incidents[i].confirmed <= clock
    BY <1>4 DEF ConsumeConfirmedIncident, IInv, DataInv, IncidentInv, IncidentRow
  <2>2. Consume(i, incidents[i].confirmed) /\ clock' = clock /\ freezes' = freezes
    BY <1>4 DEF ConsumeConfirmedIncident
  <2> QED BY <2>1, <2>2, CountConsumes
<1>5. ASSUME NEW t \in Threads, StartWindowStep(t) PROVE Goal
  <2>1. threads[t].now \in Nat /\ threads[t].now <= clock
    BY DEF IInv, ThreadInv, ThreadState
  <2>2. /\ clock' = clock /\ freezes' = freezes
        /\ UNCHANGED windows \/ \E i \in Incidents : Consume(i, threads[t].now)
    BY <1>5, StartWindowGoesOn
  <2>3. CASE \E i \in Incidents : Consume(i, threads[t].now)
    BY <2>1, <2>2, <2>3, CountConsumes
  <2>4. CASE UNCHANGED windows
    BY <1>3, <2>2, <2>4
  <2> QED BY <2>2, <2>3, <2>4
<1>6. ASSUME NEW t \in Threads, CloseExpired(t) PROVE Goal
  <2>1. threads[t].now = clock /\ threads[t].window \in Windows
    BY <1>6 DEF CloseExpired, CountInv, RunningNow, IInv, ThreadInv
  <2>2. PICK f \in threads[t].expired :
          CloseFreezePeriods(threads[t].window, {f} \intersect OpenFreezes(threads[t].window),
                             threads[t].now, "expired")
    BY <1>6 DEF CloseExpired
  <2>3. clock' = clock
    BY <1>6 DEF CloseExpired
  <2> QED BY <2>1, <2>2, <2>3, CountCloses
<1>7. ASSUME NEW w \in Windows, NEW reason \in Reasons, Resume(w, reason) PROVE Goal
  <2> DEFINE rows == {f \in OpenFreezes(w) : freezes[f].reason = reason}
  <2>1. CloseFreezePeriods(w, rows, clock, "resumed_normally") /\ clock' = clock
    BY <1>7 DEF Resume
  <2>2. rows \in SUBSET OpenFreezes(w)
    OBVIOUS
  <2> HIDE DEF rows
  <2> QED BY <2>1, <2>2, CountCloses
<1>8. CASE \E t \in Threads : CompleteWindow(t)
  BY <1>8, CountCompletes
<1>9. CASE \E w \in Windows, reason \in Reasons, expires \in Expiries : Freeze(w, reason, expires)
  BY <1>9, CountFreezes
<1>10. CASE \E c \in Completions, w \in Windows : RecordRecoveryCredit(c, w)
  BY <1>10, CountCredits
<1> QED
  BY <1>2, <1>3, <1>4, <1>5, <1>6, <1>7, <1>8, <1>9, <1>10
  DEF Next, vars, Crash, ReportIncident, ConfirmIncident, RetractIncident, BeginStartWindow,
      BeginEnsure, BeginEnsureAt, EnsureStep, ListExpired, Reread

\* I6: whatever freezes overlapped and whoever resumed them, however late a window
\* was started, the countdown of a window never completed is the time since it
\* started minus the union of its freezes, if no operation outlasts a tick.
THEOREM CountdownCounts ==
  ASSUME Prompt
  PROVE  Spec => []CountdownIsUnfrozenTime
<1>1. Init => CountInv
  BY NoneIsNotAValue, IdleIsThreadState
  DEF Init, CountInv, RunningNow, FreezesArePast, NeverClosed, IsOpen, NoWindow, NoFreeze
<1>2. IInv /\ CountInv /\ [Next]_vars => CountInv'
  BY NextCountInv
<1>3. CountInv => CountdownIsUnfrozenTime
  BY DEF CountInv, CountdownIsUnfrozenTime, NeverClosed, Counted, Unfrozen
<1> QED
  BY Invariance, <1>1, <1>2, <1>3, PTL DEF Spec

=============================================================================
