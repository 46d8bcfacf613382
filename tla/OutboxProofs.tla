---------------------------- MODULE OutboxProofs ----------------------------
(***************************************************************************)
(* The outbox delivers every effect at most once, for every registry, every *)
(* cascade, every number of publishers, crashes and failures, and every     *)
(* lease.                                                                   *)
(***************************************************************************)
EXTENDS Outbox, TLAPS

\* A publisher dispatches rows of the table, to registered consumers of the event
\* at hand.
DispatchInv(s) ==
  /\ s \in PublisherState
  /\ s.left \subseteq s.batch
  /\ s.batch \subseteq Written
  /\ s.regs # {} => s.current \in s.batch \ s.left /\ s.regs \subseteq Subscribed[s.current]
  /\ s.pc # "dispatching" => s.batch = {} /\ s.regs = {}

\* What a publisher has put behind it has been tried.
Tried(s) ==
  \A e \in s.batch \ s.left : \A c \in Subscribed[e] :
    \/ e = s.current /\ c \in s.regs
    \/ <<e, c>> \in processed \union failed

\* A claim recorded by a publisher is the row's, or an earlier one.
ClaimInv(s) ==
  \A e \in s.batch \ published :
    claimExpires[e] # None /\ s.now + ClaimLease <= claimExpires[e]

\* domain_event_consumers records exactly the effects that took place.
EffectInv == \A pair \in Pairs : runs[pair] = IF pair \in processed THEN 1 ELSE 0

IInv ==
  /\ TypeOK
  /\ \A p \in Publishers :
       DispatchInv(publishers[p]) /\ Tried(publishers[p]) /\ ClaimInv(publishers[p])
  /\ EffectInv
  /\ PublishedAfterDispatch
  /\ ClaimsAreExclusive

----------------------------------------------------------------------------
(* Steps that are shared by several actions *)

\* dispatch() takes registered consumers of claimed rows.
LEMMA NextPairIsRegistered ==
  ASSUME IInv, NEW p \in Publishers, NEW e \in Events, NEW c \in Consumers, NextPair(p, e, c)
  PROVE  e \in publishers[p].batch /\ e \in Written /\ c \in Subscribed[e]
BY DEF IInv, DispatchInv, NextPair

\* Where dispatch() is after (e, c).
LEMMA Advanced ==
  ASSUME IInv, NEW p \in Publishers, NEW e \in Events, NEW c \in Consumers,
         NextPair(p, e, c), Advance(p, e, c)
  PROVE  /\ publishers' \in [Publishers -> PublisherState]
         /\ \A q \in Publishers : /\ publishers'[q].batch = publishers[q].batch
                                  /\ publishers'[q].now = publishers[q].now
                                  /\ publishers'[q].pc = publishers[q].pc
         /\ \A q \in Publishers \ {p} : publishers'[q] = publishers[q]
         /\ publishers'[p].current = e
         /\ publishers'[p].left = publishers[p].left \ {e}
         /\ publishers'[p].regs = (IF publishers[p].regs # {} THEN publishers[p].regs
                                   ELSE Subscribed[e]) \ {c}
<1> DEFINE s == publishers[p]
           r == (IF s.regs # {} THEN s.regs ELSE Subscribed[e]) \ {c}
           t == [s EXCEPT !.current = e, !.left = @ \ {e}, !.regs = r]
<1>1. publishers \in [Publishers -> PublisherState]
  BY DEF IInv, TypeOK
<1>2. publishers' = [publishers EXCEPT ![p] = t]
  BY <1>1 DEF Advance
<1>3. s.regs \subseteq Consumers /\ Subscribed[e] \subseteq Consumers
  BY <1>1, RegistryType DEF PublisherState
<1>4. r \subseteq Consumers
  BY <1>3
<1>5. /\ t \in PublisherState
      /\ t.batch = s.batch /\ t.now = s.now /\ t.pc = s.pc /\ t.current = e /\ t.left = s.left \ {e} /\ t.regs = r
  <2> HIDE DEF r
  <2>1. s \in PublisherState
    BY <1>1
  <2> QED BY <2>1, <1>4 DEF PublisherState
<1> HIDE DEF t
<1>6. publishers'[p] = t /\ \A q \in Publishers \ {p} : publishers'[q] = publishers[q]
  BY <1>1, <1>2
<1> QED
  BY <1>1, <1>2, <1>5, <1>6

\* dispatch() moving past (e, c) keeps what the publishers promise, once the pair has
\* been tried and as long as no row, claim or trial is lost.
LEMMA AdvanceKeeps ==
  ASSUME IInv, NEW p \in Publishers, NEW e \in Events, NEW c \in Consumers,
         publishers[p].pc = "dispatching", NextPair(p, e, c), Advance(p, e, c),
         <<e, c>> \in processed' \union failed',
         processed \subseteq processed', failed \subseteq failed',
         Written \subseteq Written', UNCHANGED <<claimExpires, published>>
  PROVE  /\ publishers' \in [Publishers -> PublisherState]
         /\ \A q \in Publishers :
              DispatchInv(publishers[q])' /\ Tried(publishers[q])' /\ ClaimInv(publishers[q])'
         /\ PublishedAfterDispatch'
         /\ ClaimsAreExclusive'
<1>1. /\ publishers' \in [Publishers -> PublisherState]
      /\ \A q \in Publishers : /\ publishers'[q].batch = publishers[q].batch
                               /\ publishers'[q].now = publishers[q].now
                               /\ publishers'[q].pc = publishers[q].pc
      /\ \A q \in Publishers \ {p} : publishers'[q] = publishers[q]
      /\ publishers'[p].current = e
      /\ publishers'[p].left = publishers[p].left \ {e}
      /\ publishers'[p].regs = (IF publishers[p].regs # {} THEN publishers[p].regs
                                ELSE Subscribed[e]) \ {c}
  BY Advanced
<1>2. e \in publishers[p].batch /\ c \in Subscribed[e]
  BY NextPairIsRegistered
<1>3. ASSUME NEW q \in Publishers PROVE DispatchInv(publishers[q])'
  <2>1. DispatchInv(publishers[q])
    BY DEF IInv
  <2>2. CASE q # p
    BY <1>1, <2>1, <2>2 DEF DispatchInv
  <2>3. CASE q = p
    <3>1. publishers'[p].regs \subseteq Subscribed[e]
      BY <1>1, <2>1, <2>3 DEF DispatchInv, NextPair
    <3> QED BY <1>1, <1>2, <2>1, <2>3, <3>1 DEF DispatchInv
  <2> QED BY <2>2, <2>3
<1>4. ASSUME NEW q \in Publishers PROVE Tried(publishers[q])'
  <2>1. Tried(publishers[q])
    BY DEF IInv
  <2>2. CASE q # p
    BY <1>1, <2>1, <2>2 DEF Tried
  <2>3. CASE q = p
    <3> SUFFICES ASSUME NEW d \in publishers'[p].batch \ publishers'[p].left,
                        NEW b \in Subscribed[d],
                        ~(d = publishers'[p].current /\ b \in publishers'[p].regs)
                 PROVE  <<d, b>> \in processed' \union failed'
      BY <2>3 DEF Tried
    <3>1. CASE d = e
      <4>1. CASE publishers[p].regs # {}
        <5>1. publishers[p].current = e
          BY <4>1 DEF NextPair
        <5>2. e \notin publishers[p].left
          BY <4>1, <5>1 DEF IInv, DispatchInv
        <5>3. \/ b \in publishers[p].regs
              \/ <<e, b>> \in processed \union failed
          BY <1>2, <2>1, <2>3, <3>1, <5>2 DEF Tried
        <5> QED BY <1>1, <2>3, <3>1, <4>1, <5>3
      <4>2. CASE publishers[p].regs = {}
        BY <1>1, <3>1, <4>2
      <4> QED BY <4>1, <4>2
    <3>2. CASE d # e
      <4>1. d \in publishers[p].batch \ publishers[p].left
        BY <1>1, <3>2
      <4>2. ~(d = publishers[p].current /\ b \in publishers[p].regs)
        BY <3>2 DEF NextPair
      <4> QED BY <2>1, <2>3, <4>1, <4>2 DEF Tried
    <3> QED BY <3>1, <3>2
  <2> QED BY <2>2, <2>3
<1>5. \A q \in Publishers : ClaimInv(publishers[q])'
  BY <1>1 DEF IInv, ClaimInv
<1>6. PublishedAfterDispatch'
  BY DEF IInv, PublishedAfterDispatch
<1>7. ClaimsAreExclusive'
  BY <1>1 DEF IInv, ClaimsAreExclusive
<1> QED
  BY <1>1, <1>3, <1>4, <1>5, <1>6, <1>7

----------------------------------------------------------------------------
(* The actions *)

\* The outbox is empty before the first event.
LEMMA InitIInv == Init => IInv
<1> SUFFICES ASSUME Init PROVE IInv
  OBVIOUS
<1>1. Idle \in PublisherState /\ Idle.batch = {} /\ Idle.left = {} /\ Idle.regs = {}
  BY DEF Idle, PublisherState
<1>2. TypeOK
  BY <1>1 DEF Init, TypeOK, Written, Pairs
<1>3. ASSUME NEW p \in Publishers
      PROVE  DispatchInv(publishers[p]) /\ Tried(publishers[p]) /\ ClaimInv(publishers[p])
  BY <1>1 DEF Init, DispatchInv, Tried, ClaimInv
<1>4. EffectInv
  BY DEF Init, EffectInv
<1>5. PublishedAfterDispatch /\ ClaimsAreExclusive
  BY <1>1 DEF Init, PublishedAfterDispatch, ClaimsAreExclusive
<1> QED
  BY <1>2, <1>3, <1>4, <1>5 DEF IInv

\* write_event() adds a row; claims and batches are about other rows.
LEMMA WriteEventStep ==
  ASSUME IInv, NEW e \in Events, WriteEvent(e)
  PROVE  IInv'
<1>1. /\ created' \in [Events -> Nat \union {None}]
      /\ Written \subseteq Written'
  BY NoneIsNotAValue DEF IInv, TypeOK, WriteEvent, Written
<1>2. TypeOK'
  BY <1>1 DEF IInv, TypeOK, WriteEvent
<1>3. ASSUME NEW p \in Publishers
      PROVE  DispatchInv(publishers[p])' /\ Tried(publishers[p])' /\ ClaimInv(publishers[p])'
  BY <1>1 DEF IInv, WriteEvent, DispatchInv, Tried, ClaimInv
<1>4. EffectInv' /\ PublishedAfterDispatch' /\ ClaimsAreExclusive'
  BY DEF IInv, WriteEvent, EffectInv, PublishedAfterDispatch, ClaimsAreExclusive
<1> QED
  BY <1>2, <1>3, <1>4 DEF IInv

\* A publisher that has claimed nothing yet, or nothing any more, keeps every promise.
LEMMA EmptyHanded ==
  ASSUME IInv, NEW p \in Publishers, NEW s \in PublisherState,
         s.batch = {}, s.left = {}, s.regs = {},
         publishers' = [publishers EXCEPT ![p] = s],
         UNCHANGED <<created, claimExpires, processed, runs, failed>>,
         published' \subseteq Written, published \subseteq published',
         PublishedAfterDispatch', clock' \in Nat, crashes' \in Nat
  PROVE  IInv'
<1>1. publishers' \in [Publishers -> PublisherState] /\ publishers'[p] = s
  BY DEF IInv, TypeOK
<1>2. \A q \in Publishers \ {p} : publishers'[q] = publishers[q]
  BY DEF IInv, TypeOK
<1>3. Written' = Written
  BY DEF Written
<1>4. TypeOK'
  BY <1>1, <1>3 DEF IInv, TypeOK
<1>5. ASSUME NEW q \in Publishers
      PROVE  DispatchInv(publishers[q])' /\ Tried(publishers[q])' /\ ClaimInv(publishers[q])'
  <2>1. CASE q = p
    BY <1>1, <2>1 DEF DispatchInv, Tried, ClaimInv
  <2>2. CASE q # p
    BY <1>2, <1>3, <2>2 DEF IInv, DispatchInv, Tried, ClaimInv
  <2> QED BY <2>1, <2>2
<1>6. EffectInv'
  BY DEF IInv, EffectInv
<1>7. ClaimsAreExclusive'
  BY <1>1, <1>2 DEF IInv, ClaimsAreExclusive
<1> QED
  BY <1>4, <1>5, <1>6, <1>7 DEF IInv

\* A crash and a start change nothing but the publisher.
LEMMA CrashStep ==
  ASSUME IInv, NEW p \in Publishers, Crash(p) \/ Start(p)
  PROVE  IInv'
<1>1. clock \in Nat /\ crashes \in Nat /\ published \subseteq Written
  BY DEF IInv, TypeOK
<1>2. PublishedAfterDispatch'
  BY DEF IInv, PublishedAfterDispatch, Crash, Start
<1>3. Idle \in PublisherState /\ Idle.batch = {} /\ Idle.left = {} /\ Idle.regs = {}
  BY DEF Idle, PublisherState
<1>4. CASE Crash(p)
  <2>1. publishers' = [publishers EXCEPT ![p] = Idle] /\ crashes' = crashes + 1
    BY <1>4 DEF Crash
  <2>2. UNCHANGED <<clock, created, claimExpires, published, processed, runs, failed>>
    BY <1>4 DEF Crash
  <2>3. clock' \in Nat /\ crashes' \in Nat /\ published' \subseteq Written /\ published \subseteq published'
    BY <1>1, <2>1, <2>2
  <2> QED BY <1>2, <1>3, <2>1, <2>2, <2>3, EmptyHanded
<1>5. CASE Start(p)
  <2> DEFINE s == [Idle EXCEPT !.pc = "claiming", !.now = clock]
  <2>1. s \in PublisherState /\ s.batch = {} /\ s.left = {} /\ s.regs = {}
    BY <1>1 DEF Idle, PublisherState
  <2>2. publishers' = [publishers EXCEPT ![p] = s]
    BY <1>5 DEF Start
  <2>3. UNCHANGED <<clock, created, claimExpires, published, processed, runs, failed, crashes>>
    BY <1>5 DEF Start
  <2> HIDE DEF s
  <2> QED BY <1>1, <1>2, <2>1, <2>2, <2>3, EmptyHanded
<1> QED
  BY <1>4, <1>5

\* mark_published(): everything in the batch has been tried.
LEMMA MarkPublishedStep ==
  ASSUME IInv, NEW p \in Publishers, MarkPublished(p)
  PROVE  IInv'
<1> DEFINE s == publishers[p]
           r == IF s.rounds + 1 = MaxRounds THEN Idle
                ELSE [Idle EXCEPT !.pc = "claiming", !.now = s.now, !.rounds = s.rounds + 1]
<1>1. s \in PublisherState /\ s.batch \subseteq Written /\ s.left = {} /\ s.regs = {}
  BY DEF IInv, TypeOK, DispatchInv, MarkPublished
<1>2. PublishedAfterDispatch'
  BY <1>1 DEF IInv, Tried, PublishedAfterDispatch, MarkPublished
<1>3. r \in PublisherState /\ r.batch = {} /\ r.left = {} /\ r.regs = {}
  <2>1. CASE s.rounds + 1 = MaxRounds
    BY <2>1 DEF Idle, PublisherState
  <2>2. CASE s.rounds + 1 # MaxRounds
    <3>1. s.now \in Nat /\ s.rounds + 1 \in Nat
      BY <1>1 DEF PublisherState
    <3>2. r = [Idle EXCEPT !.pc = "claiming", !.now = s.now, !.rounds = s.rounds + 1]
      BY <2>2
    <3> HIDE DEF s, r
    <3> QED BY <3>1, <3>2 DEF Idle, PublisherState
  <2> QED BY <2>1, <2>2
<1>4. publishers' = [publishers EXCEPT ![p] = r]
  BY DEF MarkPublished
<1>5. /\ UNCHANGED <<created, claimExpires, processed, runs, failed, clock, crashes>>
      /\ published' = published \union s.batch
  BY DEF MarkPublished
<1>6. clock \in Nat /\ crashes \in Nat /\ published \subseteq Written
  BY DEF IInv, TypeOK
<1> HIDE DEF r, s
<1> QED
  BY <1>1, <1>2, <1>3, <1>4, <1>5, <1>6, EmptyHanded

\* claim_pending_events(): the claims taken over had run out.
LEMMA ClaimStep ==
  ASSUME IInv, NEW p \in Publishers, Claim(p)
  PROVE  IInv'
<1> DEFINE now == publishers[p].now
<1>1. publishers[p] \in PublisherState /\ now \in Nat /\ publishers[p].regs = {}
  BY DEF IInv, TypeOK, DispatchInv, PublisherState, Claim
<1>2. CASE publishers' = [publishers EXCEPT ![p] = Idle] /\ UNCHANGED claimExpires
  <2>1. Idle \in PublisherState /\ Idle.batch = {} /\ Idle.left = {} /\ Idle.regs = {}
    BY DEF Idle, PublisherState
  <2>2. PublishedAfterDispatch' /\ published' = published
    BY DEF IInv, PublishedAfterDispatch, Claim
  <2>3. clock' \in Nat /\ crashes' \in Nat /\ published \subseteq Written
    BY DEF IInv, TypeOK, Claim
  <2>4. UNCHANGED <<created, processed, runs, failed>>
    BY DEF Claim
  <2> QED BY <1>2, <2>1, <2>2, <2>3, <2>4, EmptyHanded
<1>3. ASSUME NEW batch \in SUBSET Claimable(now),
             claimExpires' = [e \in Events |->
                               IF e \in batch THEN now + ClaimLease ELSE claimExpires[e]],
             publishers' = [publishers EXCEPT ![p].pc = "dispatching", ![p].batch = batch,
                              ![p].left = {e \in batch : Subscribed[e] # {}}]
      PROVE  IInv'
  <2> DEFINE s == publishers[p]
             t == [s EXCEPT !.pc = "dispatching", !.batch = batch,
                            !.left = {e \in batch : Subscribed[e] # {}}]
  <2>1. publishers \in [Publishers -> PublisherState]
    BY DEF IInv, TypeOK
  <2>2. batch \subseteq Written \ published /\ batch \subseteq Events
    BY DEF Claimable, Written
  <2>3. /\ t \in PublisherState
        /\ t.pc = "dispatching" /\ t.batch = batch /\ t.now = now /\ t.regs = {}
        /\ t.left = {e \in batch : Subscribed[e] # {}}
    BY <1>1, <2>2 DEF PublisherState
  <2>4. publishers' = [publishers EXCEPT ![p] = t]
    BY <1>3, <2>1
  <2> HIDE DEF t
  <2>5. /\ publishers' \in [Publishers -> PublisherState]
        /\ publishers'[p] = t
        /\ \A q \in Publishers \ {p} : publishers'[q] = publishers[q]
    BY <2>1, <2>3, <2>4
  <2>6. UNCHANGED <<clock, created, published, processed, runs, failed, crashes>>
    BY DEF Claim
  <2>7. /\ claimExpires' \in [Events -> Nat \union {None}]
        /\ \A e \in batch : claimExpires'[e] = now + ClaimLease
        /\ \A e \in Events \ batch : claimExpires'[e] = claimExpires[e]
    BY <1>1, <1>3, <2>2, NumbersType DEF IInv, TypeOK
  <2>8. Written' = Written
    BY <2>6 DEF Written
  <2>9. TypeOK'
    BY <2>5, <2>6, <2>7, <2>8 DEF IInv, TypeOK
  <2>10. ASSUME NEW q \in Publishers
         PROVE  DispatchInv(publishers[q])' /\ Tried(publishers[q])'
    <3>1. CASE q = p
      BY <2>2, <2>3, <2>5, <2>8, <3>1 DEF DispatchInv, Tried
    <3>2. CASE q # p
      BY <2>5, <2>6, <2>8, <3>2 DEF IInv, DispatchInv, Tried
    <3> QED BY <3>1, <3>2
  \* The claim of another publisher on a row of the batch had run out.
  <2>11. ASSUME NEW q \in Publishers \ {p}, NEW e \in batch, e \in publishers[q].batch
         PROVE  /\ publishers[q].now + ClaimLease <= now
                /\ publishers[q].now \in Nat
    <3>1. e \in publishers[q].batch \ published
      BY <2>2, <2>11
    <3>2. claimExpires[e] # None /\ publishers[q].now + ClaimLease <= claimExpires[e]
      BY <3>1 DEF IInv, ClaimInv
    <3>3. claimExpires[e] <= now
      BY <3>2 DEF Claimable
    <3>4. claimExpires[e] \in Nat /\ publishers[q].now \in Nat
      BY <2>1, <2>2, <3>2 DEF IInv, TypeOK, PublisherState
    <3> QED BY <1>1, <3>2, <3>3, <3>4, NumbersType
  <2>12. ASSUME NEW q \in Publishers, NEW e \in publishers'[q].batch \ published'
         PROVE  claimExpires'[e] # None /\ publishers'[q].now + ClaimLease <= claimExpires'[e]
    <3>0. e \in Events
      BY <2>5 DEF PublisherState
    <3>1. CASE q = p
      BY <1>1, <2>3, <2>5, <2>7, <3>1, NoneIsNotAValue, NumbersType
    <3>2. CASE q # p /\ e \in batch
      <4>1. publishers[q].now + ClaimLease <= now /\ publishers[q].now \in Nat
        BY <2>5, <2>11, <2>12, <3>2
      <4> QED BY <1>1, <2>5, <2>7, <3>2, <4>1, NoneIsNotAValue, NumbersType
    <3>3. CASE q # p /\ e \notin batch
      BY <2>5, <2>6, <2>7, <2>12, <3>0, <3>3 DEF IInv, ClaimInv
    <3> QED BY <3>1, <3>2, <3>3
  <2>13. ClaimsAreExclusive'
    <3> SUFFICES ASSUME NEW q \in Publishers, NEW r \in Publishers, q # r,
                        NEW e \in publishers'[q].batch \intersect publishers'[r].batch
                 PROVE  \/ publishers'[q].now + ClaimLease <= publishers'[r].now
                        \/ publishers'[r].now + ClaimLease <= publishers'[q].now
      BY DEF ClaimsAreExclusive
    <3>1. CASE q = p
      BY <2>3, <2>5, <2>11, <3>1
    <3>2. CASE r = p
      BY <2>3, <2>5, <2>11, <3>2
    <3>3. CASE q # p /\ r # p
      BY <2>5, <3>3 DEF IInv, ClaimsAreExclusive
    <3> QED BY <3>1, <3>2, <3>3
  <2>14. EffectInv' /\ PublishedAfterDispatch'
    BY <2>6 DEF IInv, EffectInv, PublishedAfterDispatch
  <2> QED
    BY <2>9, <2>10, <2>12, <2>13, <2>14 DEF IInv, ClaimInv
<1> QED
  BY <1>2, <1>3 DEF Claim

\* A redelivery is absorbed: the pair has been processed.
LEMMA AbsorbStep ==
  ASSUME IInv, NEW p \in Publishers, NEW e \in Events, NEW c \in Consumers,
         AbsorbRedelivery(p, e, c)
  PROVE  IInv'
<1>1. /\ publishers' \in [Publishers -> PublisherState]
      /\ \A q \in Publishers :
           DispatchInv(publishers[q])' /\ Tried(publishers[q])' /\ ClaimInv(publishers[q])'
      /\ PublishedAfterDispatch'
      /\ ClaimsAreExclusive'
  BY AdvanceKeeps DEF AbsorbRedelivery, Written
<1>2. TypeOK'
  BY <1>1 DEF IInv, TypeOK, AbsorbRedelivery, Written
<1>3. EffectInv'
  BY DEF IInv, EffectInv, AbsorbRedelivery
<1> QED
  BY <1>1, <1>2, <1>3 DEF IInv

\* A handler that raises leaves its mark in the log only.
LEMMA HandlerFailsStep ==
  ASSUME IInv, NEW p \in Publishers, NEW e \in Events, NEW c \in Consumers,
         HandlerFails(p, e, c)
  PROVE  IInv'
<1>1. /\ publishers' \in [Publishers -> PublisherState]
      /\ \A q \in Publishers :
           DispatchInv(publishers[q])' /\ Tried(publishers[q])' /\ ClaimInv(publishers[q])'
      /\ PublishedAfterDispatch'
      /\ ClaimsAreExclusive'
  BY AdvanceKeeps DEF HandlerFails, Written
<1>2. TypeOK'
  BY <1>1 DEF IInv, TypeOK, HandlerFails, Written, Pairs
<1>3. EffectInv'
  BY DEF IInv, EffectInv, HandlerFails
<1> QED
  BY <1>1, <1>2, <1>3 DEF IInv

\* What consume_event() writes: the row of e exists, so its follow-ups get a time.
LEMMA ConsumeWrites ==
  ASSUME IInv, NEW p \in Publishers, NEW e \in Events, NEW c \in Consumers, Consume(p, e, c)
  PROVE  /\ created' \in [Events -> Nat \union {None}]
         /\ Written' = Written \union Cascade[e][c]
         /\ e \in Written
<1>1. created \in [Events -> Nat \union {None}]
  BY DEF IInv, TypeOK
<1>2. e \in Written /\ created[e] \in Nat /\ created[e] # None
  BY <1>1, NextPairIsRegistered DEF Consume, Written
<1>3. Cascade[e][c] \subseteq Events
  BY RegistryType
<1> QED
  BY <1>1, <1>2, <1>3 DEF Consume, Written

\* consume_event(): the effect and the record of it commit together.
LEMMA ConsumeStep ==
  ASSUME IInv, NEW p \in Publishers, NEW e \in Events, NEW c \in Consumers, Consume(p, e, c)
  PROVE  IInv'
<1>1. created' \in [Events -> Nat \union {None}] /\ Written \subseteq Written'
  BY ConsumeWrites
<1>2. /\ publishers' \in [Publishers -> PublisherState]
      /\ \A q \in Publishers :
           DispatchInv(publishers[q])' /\ Tried(publishers[q])' /\ ClaimInv(publishers[q])'
      /\ PublishedAfterDispatch'
      /\ ClaimsAreExclusive'
  BY <1>1, AdvanceKeeps DEF Consume
<1>3. runs \in [Pairs -> Nat] /\ <<e, c>> \in Pairs /\ runs[<<e, c>>] = 0
  BY DEF IInv, TypeOK, EffectInv, Consume, Pairs
<1>4. runs' \in [Pairs -> Nat] /\ EffectInv'
  BY <1>3 DEF IInv, EffectInv, Consume
<1>5. TypeOK'
  BY <1>1, <1>2, <1>4 DEF IInv, TypeOK, Consume, Pairs
<1> QED
  BY <1>2, <1>4, <1>5 DEF IInv

\* Time passes.
LEMMA TickStep ==
  ASSUME IInv, Tick \/ UNCHANGED vars
  PROVE  IInv'
<1>1. /\ clock' \in Nat
      /\ UNCHANGED <<created, claimExpires, published, processed, runs, failed, publishers, crashes>>
  BY DEF IInv, TypeOK, Tick, vars
<1> QED
  BY <1>1 DEF IInv, TypeOK, Written, DispatchInv, Tried, ClaimInv, EffectInv,
              PublishedAfterDispatch, ClaimsAreExclusive

\* The invariant is kept by every step.
LEMMA NextIInv == IInv /\ [Next]_vars => IInv'
<1> SUFFICES ASSUME IInv, [Next]_vars PROVE IInv'
  OBVIOUS
<1>1. CASE Tick \/ UNCHANGED vars
  BY <1>1, TickStep
<1>2. CASE \E e \in Events : WriteEvent(e)
  BY <1>2, WriteEventStep
<1>3. CASE \E p \in Publishers : Crash(p) \/ Start(p)
  BY <1>3, CrashStep
<1>4. CASE \E p \in Publishers : Claim(p)
  BY <1>4, ClaimStep
<1>5. CASE \E p \in Publishers : Deliver(p)
  BY <1>5, AbsorbStep, ConsumeStep, HandlerFailsStep DEF Deliver
<1>6. CASE \E p \in Publishers : MarkPublished(p)
  BY <1>6, MarkPublishedStep
<1> QED
  BY <1>1, <1>2, <1>3, <1>4, <1>5, <1>6 DEF Next

----------------------------------------------------------------------------
(* Theorems *)

\* IInv is an invariant.
THEOREM Invariance == Spec => []IInv
BY InitIInv, NextIInv, PTL DEF Spec

\* Type correctness of the outbox tables and of the publishers.
THEOREM TypeCorrect == Spec => []TypeOK
<1>1. IInv => TypeOK
  BY DEF IInv
<1> QED
  BY Invariance, <1>1, PTL

\* Two publishers hold one row only when the claim of one had run out.
THEOREM ClaimsExclude == Spec => []ClaimsAreExclusive
<1>1. IInv => ClaimsAreExclusive
  BY DEF IInv
<1> QED
  BY Invariance, <1>1, PTL

\* mark_published() comes after every consumer of the event has been run.
THEOREM HandedOff == Spec => []PublishedAfterDispatch
<1>1. IInv => PublishedAfterDispatch
  BY DEF IInv
<1> QED
  BY Invariance, <1>1, PTL

\* The outbox starts where EffectOnce starts.
LEMMA InitRefines == Init => EO!Init
BY DEF Init, EO!Init, Written, Pairs

\* A step of the outbox is an effect, a written event or nothing at all.
LEMMA NextRefines == IInv /\ [Next]_vars => [EO!Next]_(EO!vars)
<1> SUFFICES ASSUME IInv, [Next]_vars PROVE [EO!Next]_(EO!vars)
  OBVIOUS
<1>1. ASSUME NEW e \in Events, WriteEvent(e) PROVE EO!Next
  <2>1. Written' = Written \union {e} /\ e \notin Written /\ e \in Roots
    BY <1>1, NoneIsNotAValue DEF IInv, TypeOK, WriteEvent, Written
  <2>2. EO!Write(e)
    BY <1>1, <2>1 DEF WriteEvent, EO!Write
  <2> QED BY <2>1, <2>2 DEF EO!Next
<1>2. ASSUME NEW p \in Publishers, NEW e \in Events, NEW c \in Consumers, Consume(p, e, c)
      PROVE  EO!Next
  <2>1. Written' = Written \union Cascade[e][c] /\ e \in Written
    BY <1>2, ConsumeWrites
  <2>2. runs[<<e, c>>] = 0 /\ runs' = [runs EXCEPT ![<<e, c>>] = 1]
    <3>1. runs[<<e, c>>] = 0
      BY <1>2 DEF IInv, EffectInv, Consume, Pairs
    <3>2. runs' = [runs EXCEPT ![<<e, c>>] = runs[<<e, c>>] + 1]
      BY <1>2 DEF Consume
    <3> QED BY <3>1, <3>2
  <2>3. c \in Subscribed[e]
    BY <1>2, NextPairIsRegistered DEF Consume
  <2>4. EO!Effect(e, c)
    BY <2>1, <2>2 DEF EO!Effect
  <2> QED BY <2>3, <2>4 DEF EO!Next
<1>3. CASE UNCHANGED <<created, runs>>
  BY <1>3 DEF EO!vars, Written
<1>4. ASSUME NEW p \in Publishers, Deliver(p)
      PROVE  \/ UNCHANGED <<created, runs>>
             \/ \E e \in Events, c \in Consumers : Consume(p, e, c)
  BY <1>4 DEF Deliver, AbsorbRedelivery, HandlerFails
<1>5. ASSUME NEW p \in Publishers, Crash(p) \/ Start(p) \/ Claim(p) \/ MarkPublished(p)
      PROVE  UNCHANGED <<created, runs>>
  BY <1>5 DEF Crash, Start, Claim, MarkPublished
<1>6. CASE Tick \/ UNCHANGED vars
  BY <1>6, <1>3 DEF Tick, vars
<1> QED
  BY <1>1, <1>2, <1>3, <1>4, <1>5, <1>6 DEF Next

\* The outbox implements EffectOnce: crashes, expired claims, redeliveries and
\* concurrent publishers never show in the effects.
THEOREM OutboxImplementsEffectOnce == Spec => ExactlyOnceEffects
<1>1. Init => EO!Init
  BY InitRefines
<1>2. IInv /\ [Next]_vars => [EO!Next]_(EO!vars)
  BY NextRefines
<1> QED
  BY <1>1, <1>2, Invariance, PTL DEF Spec, ExactlyOnceEffects, EO!Spec

=============================================================================
