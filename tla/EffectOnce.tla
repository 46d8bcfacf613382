----------------------------- MODULE EffectOnce -----------------------------
(***************************************************************************)
(* What the event outbox promises the modules that use it: an event, once  *)
(* written by the transaction that caused it, has its effect on each of    *)
(* its consumers at most once, and an effect writes its own follow-up      *)
(* events in the same step.  Nothing is said of claims, leases, rounds,    *)
(* crashes or repeated deliveries: none of them may show.                  *)
(***************************************************************************)
EXTENDS Naturals

CONSTANTS Events, Consumers, Roots, Subscribed, Cascade

VARIABLES
  written,   \* the events whose transaction has committed
  effects    \* how often each consumer's reaction to each event took place

vars == <<written, effects>>

Init ==
  /\ written = {}
  /\ effects = [pair \in Events \X Consumers |-> 0]

\* A module's own transaction commits together with the event it writes.
Write(e) ==
  /\ e \notin written
  /\ written' = written \union {e}
  /\ UNCHANGED effects

\* Consumer c reacts to e.
Effect(e, c) ==
  /\ e \in written
  /\ effects[<<e, c>>] = 0
  /\ effects' = [effects EXCEPT ![<<e, c>>] = 1]
  /\ written' = written \union Cascade[e][c]

Next ==
  \/ \E e \in Roots : Write(e)
  \/ \E e \in Events : \E c \in Subscribed[e] : Effect(e, c)

Spec == Init /\ [][Next]_vars

=============================================================================
