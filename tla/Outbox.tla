------------------------------- MODULE Outbox -------------------------------
(***************************************************************************)
(* The transactional outbox: infrastructure/outbox.py and the publisher    *)
(* process_pending_events() of infrastructure/consumer_registry.py.        *)
(*                                                                         *)
(* A publisher claims a batch of unpublished events under a lease, runs    *)
(* every registered handler of every event of the batch, each in a         *)
(* transaction of its own, marks the batch published, and claims again     *)
(* until nothing is left or it has done MaxRounds rounds.  All its times   *)
(* are the `now' it was called with.  Several publishers may run at once   *)
(* and any of them may crash between two transactions.                     *)
(***************************************************************************)
EXTENDS Integers, FiniteSets

CONSTANTS
  Events,       \* ids of domain_events rows (bound)
  Consumers,    \* consumer names
  Publishers,   \* processes that may run process_pending_events()
  None,         \* SQL NULL
  Roots,        \* events written by a module's own transaction
  Subscribed,   \* Subscribed[e]: the consumers registered for e's event_type
  Cascade,      \* Cascade[e][c]: the events c's handler of e writes
  BatchSize,    \* batch_size
  ClaimLease,   \* lease_duration, in ticks
  MaxRounds,    \* max_cascade_rounds
  MaxClock,     \* bound on time
  MaxCrashes,   \* bound on crashes
  MaxFailing    \* bound on the handler runs that raise

ASSUME NoneIsNotAValue == None \notin Nat \union Events
ASSUME FiniteEvents == IsFiniteSet(Events)
ASSUME RegistryType ==
  /\ Roots \subseteq Events
  /\ Subscribed \in [Events -> SUBSET Consumers]
  /\ Cascade \in [Events -> [Consumers -> SUBSET Events]]
\* write_event() gives every event an id of its own.
ASSUME FreshIds ==
  \A d, e \in Events, b, c \in Consumers :
    /\ Cascade[e][c] \intersect Roots = {}
    /\ Cascade[d][b] \intersect Cascade[e][c] # {} => d = e /\ b = c
ASSUME NumbersType ==
  /\ BatchSize \in Nat \ {0} /\ ClaimLease \in Nat \ {0} /\ MaxRounds \in Nat \ {0}
  /\ MaxClock \in Nat /\ MaxCrashes \in Nat /\ MaxFailing \in Nat

VARIABLES
  clock,         \* the wall clock
  created,       \* created_at of each domain_events row, None before it is written
  claimExpires,  \* claim_expires_at of each row
  published,     \* the rows with a published_at
  processed,     \* domain_event_consumers
  runs,          \* how often each handler's transaction has committed its effect
  failed,        \* the (event, consumer) pairs whose handler has raised
  publishers,    \* the running process_pending_events() calls
  crashes        \* number of crashes so far

vars == <<clock, created, claimExpires, published, processed, runs, failed, publishers, crashes>>

Pairs == Events \X Consumers

Idle == [pc |-> "idle", now |-> 0, rounds |-> 0, batch |-> {}, left |-> {},
         current |-> None, regs |-> {}]

PublisherState ==
  [pc: {"idle", "claiming", "dispatching"}, now: Nat, rounds: Nat,
   batch: SUBSET Events, left: SUBSET Events, current: Events \union {None},
   regs: SUBSET Consumers]

Written == {e \in Events : created[e] # None}

----------------------------------------------------------------------------

Init ==
  /\ clock = 0
  /\ created = [e \in Events |-> None]
  /\ claimExpires = [e \in Events |-> None]
  /\ published = {}
  /\ processed = {}
  /\ runs = [pair \in Pairs |-> 0]
  /\ failed = {}
  /\ publishers = [p \in Publishers |-> Idle]
  /\ crashes = 0

Tick ==
  /\ clock < MaxClock
  /\ clock' = clock + 1
  /\ UNCHANGED <<created, claimExpires, published, processed, runs, failed, publishers, crashes>>

\* A publisher dies between two transactions; its claims stay until they expire
\* (early enough for that to happen before the clock stops).
Crash(p) ==
  /\ crashes < MaxCrashes
  /\ publishers[p].pc # "idle" /\ clock + ClaimLease <= MaxClock
  /\ crashes' = crashes + 1
  /\ publishers' = [publishers EXCEPT ![p] = Idle]
  /\ UNCHANGED <<clock, created, claimExpires, published, processed, runs, failed>>

\* write_event() in a module's own transaction.
WriteEvent(e) ==
  /\ e \in Roots /\ created[e] = None
  /\ created' = [created EXCEPT ![e] = clock]
  /\ UNCHANGED <<clock, claimExpires, published, processed, runs, failed, publishers, crashes>>

\* process_pending_events() is called.
Start(p) ==
  /\ publishers[p].pc = "idle"
  /\ publishers' = [publishers EXCEPT ![p] = [Idle EXCEPT !.pc = "claiming", !.now = clock]]
  /\ UNCHANGED <<clock, created, claimExpires, published, processed, runs, failed, crashes>>

\* Mutants of Claimable: live claims ignored; expired claims never taken over.
ClaimableByAnyone(now) == Written \ published
ClaimableOnce(now) == {e \in Written \ published : claimExpires[e] = None}

\* The WHERE clause of claim_pending_events().
Claimable(now) ==
  {e \in Written \ published : claimExpires[e] = None \/ claimExpires[e] <= now}

\* ORDER BY created_at LIMIT batch_size: ties are broken in any way.
IsBatch(batch, rows) ==
  /\ Cardinality(batch) = (IF Cardinality(rows) < BatchSize THEN Cardinality(rows) ELSE BatchSize)
  /\ \A e \in batch, d \in rows \ batch : created[e] <= created[d]

\* claim_pending_events(): nothing to claim ends the call; otherwise the batch is
\* claimed until now + lease_duration.
Claim(p) ==
  LET now == publishers[p].now
      rows == Claimable(now)
  IN /\ publishers[p].pc = "claiming"
     /\ \/ /\ rows = {}
           /\ publishers' = [publishers EXCEPT ![p] = Idle]
           /\ UNCHANGED claimExpires
        \/ \E batch \in SUBSET rows \ {{}} :
             /\ IsBatch(batch, rows)
             /\ claimExpires' = [e \in Events |->
                                  IF e \in batch THEN now + ClaimLease ELSE claimExpires[e]]
             /\ publishers' = [publishers EXCEPT ![p].pc = "dispatching", ![p].batch = batch,
                                 ![p].left = {e \in batch : Subscribed[e] # {}}]
     /\ UNCHANGED <<clock, created, published, processed, runs, failed, crashes>>

\* The handler run dispatch() comes to next: another registration of the event at
\* hand, or the first one of the next event of the batch.
NextPair(p, e, c) ==
  LET s == publishers[p]
  IN IF s.regs # {} THEN e = s.current /\ c \in s.regs
     ELSE /\ e \in s.left /\ c \in Subscribed[e]
          /\ \A d \in s.left : created[e] <= created[d]

\* Mutant of Advance: the consumer taken for the event.
AdvanceConfused(p, e, c) ==
  publishers' = [publishers EXCEPT ![p].current = c, ![p].left = @ \ {e},
                   ![p].regs = (IF @ # {} THEN @ ELSE Subscribed[e]) \ {c}]

\* dispatch() moves on past (e, c).
Advance(p, e, c) ==
  publishers' = [publishers EXCEPT ![p].current = e, ![p].left = @ \ {e},
                   ![p].regs = (IF @ # {} THEN @ ELSE Subscribed[e]) \ {c}]

\* consume_event() finds the pair in domain_event_consumers: nothing happens.
AbsorbRedelivery(p, e, c) ==
  /\ publishers[p].pc = "dispatching" /\ NextPair(p, e, c)
  /\ <<e, c>> \in processed
  /\ Advance(p, e, c)
  /\ UNCHANGED <<clock, created, claimExpires, published, processed, runs, failed, crashes>>

\* Mutant of Consume: no look into domain_event_consumers.
ConsumeBlindly(p, e, c) ==
  /\ publishers[p].pc = "dispatching" /\ NextPair(p, e, c)
  /\ processed' = processed \union {<<e, c>>}
  /\ runs' = [runs EXCEPT ![<<e, c>>] = @ + 1]
  /\ created' = [d \in Events |-> IF d \in Cascade[e][c] THEN created[e] ELSE created[d]]
  /\ Advance(p, e, c)
  /\ UNCHANGED <<clock, claimExpires, published, failed, crashes>>

\* consume_event() runs the handler and mark_processed() in one transaction; the
\* events the handler writes carry the occurred_at of e.
Consume(p, e, c) ==
  /\ publishers[p].pc = "dispatching" /\ NextPair(p, e, c)
  /\ <<e, c>> \notin processed
  /\ processed' = processed \union {<<e, c>>}
  /\ runs' = [runs EXCEPT ![<<e, c>>] = @ + 1]
  /\ created' = [d \in Events |-> IF d \in Cascade[e][c] THEN created[e] ELSE created[d]]
  /\ Advance(p, e, c)
  /\ UNCHANGED <<clock, claimExpires, published, failed, crashes>>

\* The handler raises: its transaction rolls back, dispatch() logs and goes on.
HandlerFails(p, e, c) ==
  /\ publishers[p].pc = "dispatching" /\ NextPair(p, e, c)
  /\ <<e, c>> \notin processed
  /\ <<e, c>> \in failed \/ Cardinality(failed) < MaxFailing
  /\ failed' = failed \union {<<e, c>>}
  /\ Advance(p, e, c)
  /\ UNCHANGED <<clock, created, claimExpires, published, processed, runs, crashes>>

\* Mutant of MarkPublished: the batch is marked before it is dispatched.
MarkClaimed(p) ==
  LET s == publishers[p]
  IN /\ s.pc = "dispatching" /\ s.batch \ published # {}
     /\ published' = published \union s.batch
     /\ UNCHANGED <<clock, created, claimExpires, processed, runs, failed, publishers, crashes>>

\* mark_published(): the whole batch, whoever claims or has published it by now.
MarkPublished(p) ==
  LET s == publishers[p]
  IN /\ s.pc = "dispatching" /\ s.left = {} /\ s.regs = {}
     /\ published' = published \union s.batch
     /\ publishers' = [publishers EXCEPT ![p] =
                         IF s.rounds + 1 = MaxRounds THEN Idle
                         ELSE [Idle EXCEPT !.pc = "claiming", !.now = s.now, !.rounds = s.rounds + 1]]
     /\ UNCHANGED <<clock, created, claimExpires, processed, runs, failed, crashes>>

----------------------------------------------------------------------------

Deliver(p) ==
  \E e \in Events, c \in Consumers :
    AbsorbRedelivery(p, e, c) \/ Consume(p, e, c) \/ HandlerFails(p, e, c)

Next ==
  \/ Tick
  \/ \E e \in Events : WriteEvent(e)
  \/ \E p \in Publishers : Crash(p) \/ Start(p) \/ Claim(p) \/ Deliver(p) \/ MarkPublished(p)

Spec == Init /\ [][Next]_vars

\* Time passes, the system is started again and again, and a publisher that runs
\* makes progress.
Fairness ==
  /\ WF_vars(Tick)
  /\ \A p \in Publishers :
       WF_vars(Start(p)) /\ WF_vars(Claim(p)) /\ WF_vars(Deliver(p)) /\ WF_vars(MarkPublished(p))

FairSpec == Spec /\ Fairness

----------------------------------------------------------------------------
(* Properties *)

TypeOK ==
  /\ clock \in Nat
  /\ created \in [Events -> Nat \union {None}]
  /\ claimExpires \in [Events -> Nat \union {None}]
  /\ published \subseteq Written
  /\ processed \subseteq Pairs
  /\ runs \in [Pairs -> Nat]
  /\ failed \subseteq Pairs
  /\ publishers \in [Publishers -> PublisherState]
  /\ crashes \in Nat

\* outbox.py 98-130, 242-269: crashes, expired claims, redelivery and concurrent
\* publishers never show in the effects: the outbox implements EffectOnce.
EO == INSTANCE EffectOnce WITH written <- Written, effects <- runs
ExactlyOnceEffects == EO!Spec

\* claim_pending_events(): two publishers hold the same row only when the claim of
\* one had run out at the time the other was called with.
ClaimsAreExclusive ==
  \A p, q \in Publishers :
    p # q /\ publishers[p].batch \intersect publishers[q].batch # {} =>
      \/ publishers[p].now + ClaimLease <= publishers[q].now
      \/ publishers[q].now + ClaimLease <= publishers[p].now

\* process_pending_events(): no event counts as handed off before each of its
\* consumers has been run on it to the end, one way or the other, whatever crashed
\* or was claimed twice in between.
PublishedAfterDispatch ==
  \A e \in published : \A c \in Subscribed[e] : <<e, c>> \in processed \union failed

\* An event that was written, also by a handler, is published in the end.
EventuallyPublished ==
  \A e \in Events : (e \in Written) ~> (e \in published)

\* consumer_registry.py:104: after a failure "mark_processed() never ran for this
\* registration, so a legitimate retry remains possible later".
FailureLeavesRetry ==
  \A e \in Events, c \in Consumers :
    <<e, c>> \in failed \ processed => e \notin published

=============================================================================
