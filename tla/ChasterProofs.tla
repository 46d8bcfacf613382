----------------------------- MODULE ChasterProofs -----------------------------
(***************************************************************************)
(* Theorems about the connection, observation and emergency unlock of      *)
(* Chaster accounts: types, links that are used once, the refresh token a  *)
(* row holds, what an observation says, and what an unlock's audit tells,  *)
(* for any number of users, accounts, callbacks, fetches and requests.     *)
(***************************************************************************)
EXTENDS EmergencyUnlock, SequenceTheorems, TLAPS

----------------------------------------------------------------------------
(* Types *)

\* The parts of TypeOK, each with what the steps that follow rely on.
LinksOK ==
  /\ links \in [Links -> LinkRow]
  /\ \A l \in Links : links[l].status # "unused" => links[l].user \in Users
  /\ \A k, l \in Links :
       links[k].status = "pending" /\ links[l].status = "pending" /\ links[k].user = links[l].user
         => k = l

ConnectionsOK ==
  /\ connections \in [Users -> ConnectionRow]
  /\ \A u \in Users : Connected(u) =>
       connections[u].account \in Accounts /\ connections[u].tokens \in DOMAIN issued

\* Of a callback that is on its way: the user the link named, and the tokens it was issued.
CallbackOK(c) ==
  /\ c \in CallbackState
  /\ c.pc \in {"exchanging", "resolving", "saving"} => c.user \in Users
  /\ c.pc \in {"resolving", "saving"} => c.tokens \in DOMAIN issued

CallbacksOK ==
  /\ callbacks \in [Callbacks -> CallbackState]
  /\ \A b \in Callbacks : CallbackOK(callbacks[b])

\* Of a fetch that is on its way: its user is connected, as a row is never deleted.
FetchOK(x) ==
  /\ x \in FetchState
  /\ x.pc # "idle" => x.user \in Users
  /\ x.pc \notin {"idle", "done", "lost"} => Connected(x.user) /\ x.account \in Accounts
  /\ x.pc \in {"exchanging", "persisting", "listing", "recording"} => x.tokens \in DOMAIN issued

FetchesOK ==
  /\ fetches \in [Fetches -> FetchState]
  /\ \A f \in Fetches : FetchOK(fetches[f])

RequestOK(r) ==
  /\ r \in RequestState
  /\ r.pc \notin {"idle", "done", "broken"} => r.user \in Users
  /\ r.pc \in {"decrypting", "marking"} => Connected(r.user)
  /\ r.pc \in {"announcing", "listing", "posting"} => r.tokens \in DOMAIN issued
  /\ r.pc = "closing" => r.outcome \in {"provider_succeeded", "provider_failed"}

RequestsOK ==
  /\ requests \in [Requests -> RequestState]
  /\ \A q \in Requests : RequestOK(requests[q])

RestOK ==
  /\ clock \in 0..MaxClock
  /\ locks \in [Accounts -> Situations]
  /\ observations \in Seq(Observation)
  /\ audit \in [Requests -> Seq(Events)]

TypeInv ==
  LinksOK /\ ConnectionsOK /\ issued \in Seq(Pair) /\ CallbacksOK /\ FetchesOK /\ RequestsOK /\ RestOK

\* Chaster only ever issues more pairs, and a pair stays its account's and stays spent.
Grows ==
  /\ issued' \in Seq(Pair)
  /\ DOMAIN issued \subseteq DOMAIN issued'
  /\ \A n \in DOMAIN issued : /\ issued'[n].account = issued[n].account
                              /\ issued[n].spent => issued'[n].spent

StaysConnected == \A u \in Users : Connected(u) => Connected(u)'

LEMMA SameIssuedGrows == issued \in Seq(Pair) /\ issued' = issued => Grows
BY DEF Grows

\* Spending a refresh token changes nothing but that.
LEMMA SpendTyped ==
  ASSUME issued \in Seq(Pair), NEW n \in DOMAIN issued
  PROVE  /\ Spend(n) \in Seq(Pair) /\ DOMAIN Spend(n) = DOMAIN issued
         /\ \A m \in DOMAIN issued : /\ Spend(n)[m].account = issued[m].account
                                     /\ m # n => Spend(n)[m].spent = issued[m].spent
         /\ Spend(n)[n].spent
<1>1. PICK p \in Pair : p = issued[n]
  BY LenProperties, ElementOfSeq
<1> DEFINE next == [p EXCEPT !.spent = TRUE]
<1>2. next \in Pair /\ next.account = p.account /\ next.spent
  BY DEF Pair
<1>3. Spend(n) = [issued EXCEPT ![n] = next]
  BY <1>1 DEF Spend
<1> HIDE DEF next
<1>4. DOMAIN issued = 1..Len(issued) /\ Len(issued) \in Nat
  BY LenProperties
<1>5. /\ Spend(n) \in Seq(Pair) /\ Len(Spend(n)) = Len(issued)
      /\ \A m \in 1..Len(issued) : Spend(n)[m] = IF m = n THEN next ELSE issued[m]
  BY <1>2, <1>3, <1>4, ExceptSeq
<1>6. DOMAIN Spend(n) = 1..Len(issued)
  BY <1>5, LenProperties
<1> QED
  BY <1>1, <1>2, <1>4, <1>5, <1>6

\* A pair that is issued is a new one, that nobody has spent.
LEMMA AppendGrows ==
  ASSUME issued \in Seq(Pair), NEW s \in Seq(Pair), DOMAIN s = DOMAIN issued,
         \A m \in DOMAIN issued : /\ s[m].account = issued[m].account
                                  /\ issued[m].spent => s[m].spent,
         NEW a \in Accounts, issued' = Append(s, [account |-> a, spent |-> FALSE])
  PROVE  /\ Grows
         /\ Len(issued) + 1 \in DOMAIN issued' \ DOMAIN issued
         /\ ~issued'[Len(issued) + 1].spent
         /\ \A m \in DOMAIN issued : issued'[m] = s[m]
<1> DEFINE pair == [account |-> a, spent |-> FALSE]
<1>1. pair \in Pair /\ ~pair.spent
  BY DEF Pair
<1> HIDE DEF pair
<1>2. /\ DOMAIN issued = 1..Len(issued) /\ Len(issued) \in Nat
      /\ DOMAIN s = 1..Len(s) /\ Len(s) \in Nat
  BY LenProperties
<1>3. Len(s) = Len(issued)
  BY <1>2
<1>4. /\ Append(s, pair) \in Seq(Pair) /\ Len(Append(s, pair)) = Len(s) + 1
      /\ \A m \in 1..Len(s) : Append(s, pair)[m] = s[m]
      /\ Append(s, pair)[Len(s) + 1] = pair
  BY <1>1, AppendProperties
<1>5. issued' = Append(s, pair)
  BY DEF pair
<1>6. DOMAIN issued' = 1..Len(issued) + 1
  BY <1>3, <1>4, <1>5, LenProperties
<1> QED
  BY <1>1, <1>2, <1>3, <1>4, <1>5, <1>6 DEF Grows

\* What a step leaves alone stays typed.
LEMMA ConnectionsFrame ==
  ConnectionsOK /\ UNCHANGED connections /\ Grows => ConnectionsOK' /\ StaysConnected
BY DEF ConnectionsOK, Connected, Grows, StaysConnected

LEMMA CallbacksFrame == CallbacksOK /\ UNCHANGED callbacks /\ Grows => CallbacksOK'
BY DEF CallbacksOK, CallbackOK, Grows

LEMMA FetchesFrame == FetchesOK /\ UNCHANGED fetches /\ Grows /\ StaysConnected => FetchesOK'
<1> SUFFICES ASSUME FetchesOK, UNCHANGED fetches, Grows, StaysConnected
             PROVE  FetchesOK'
  OBVIOUS
<1>1. ASSUME NEW f \in Fetches PROVE FetchOK(fetches[f])'
  BY DEF FetchesOK, FetchOK, Grows, StaysConnected
<1> QED
  BY <1>1 DEF FetchesOK

LEMMA RequestsFrame == RequestsOK /\ UNCHANGED requests /\ Grows /\ StaysConnected => RequestsOK'
<1> SUFFICES ASSUME RequestsOK, UNCHANGED requests, Grows, StaysConnected
             PROVE  RequestsOK'
  OBVIOUS
<1>1. ASSUME NEW q \in Requests PROVE RequestOK(requests[q])'
  BY DEF RequestsOK, RequestOK, Grows, StaysConnected
<1> QED
  BY <1>1 DEF RequestsOK

LEMMA RestFrame == RestOK /\ UNCHANGED <<clock, locks, observations, audit>> => RestOK'
BY DEF RestOK

\* One callback, one fetch or one request moves on.
LEMMA CallTyped ==
  ASSUME CallbacksOK, Grows, NEW b \in Callbacks, NEW next, CallbackOK(next)', Call(b, next)
  PROVE  CallbacksOK'
<1>1. callbacks \in [Callbacks -> CallbackState] /\ next \in CallbackState
  BY DEF CallbacksOK, CallbackOK
<1>2. /\ callbacks' \in [Callbacks -> CallbackState]
      /\ \A c \in Callbacks : callbacks'[c] = IF c = b THEN next ELSE callbacks[c]
  BY <1>1 DEF Call
<1>3. ASSUME NEW c \in Callbacks PROVE CallbackOK(callbacks[c])'
  BY <1>2 DEF CallbacksOK, CallbackOK, Grows
<1> QED
  BY <1>2, <1>3 DEF CallbacksOK

LEMMA FetchTyped ==
  ASSUME FetchesOK, Grows, StaysConnected, NEW f \in Fetches, NEW next, FetchOK(next)',
         Fetch(f, next)
  PROVE  FetchesOK'
<1>1. fetches \in [Fetches -> FetchState] /\ next \in FetchState
  BY DEF FetchesOK, FetchOK
<1>2. /\ fetches' \in [Fetches -> FetchState]
      /\ \A g \in Fetches : fetches'[g] = IF g = f THEN next ELSE fetches[g]
  BY <1>1 DEF Fetch
<1>3. ASSUME NEW g \in Fetches PROVE FetchOK(fetches[g])'
  BY <1>2 DEF FetchesOK, FetchOK, Grows, StaysConnected
<1> QED
  BY <1>2, <1>3 DEF FetchesOK

LEMMA RequestTyped ==
  ASSUME RequestsOK, Grows, StaysConnected, NEW q \in Requests, NEW next, RequestOK(next)',
         Request(q, next)
  PROVE  RequestsOK'
<1>1. requests \in [Requests -> RequestState] /\ next \in RequestState
  BY DEF RequestsOK, RequestOK
<1>2. /\ requests' \in [Requests -> RequestState]
      /\ \A r \in Requests : requests'[r] = IF r = q THEN next ELSE requests[r]
  BY <1>1 DEF Request
<1>3. ASSUME NEW r \in Requests PROVE RequestOK(requests[r])'
  BY <1>2 DEF RequestsOK, RequestOK, Grows, StaysConnected
<1> QED
  BY <1>2, <1>3 DEF RequestsOK

\* One row of chaster_connections is written.
LEMMA ConnectionTyped ==
  ASSUME ConnectionsOK, Grows, NEW u \in Users, NEW row \in ConnectionRow,
         row.status # "none" => row.account \in Accounts /\ row.tokens \in DOMAIN issued,
         Connected(u) => row.status # "none",
         connections' = [connections EXCEPT ![u] = row]
  PROVE  ConnectionsOK' /\ StaysConnected
<1>1. connections \in [Users -> ConnectionRow]
  BY DEF ConnectionsOK
<1>2. /\ connections' \in [Users -> ConnectionRow]
      /\ \A v \in Users : connections'[v] = IF v = u THEN row ELSE connections[v]
  BY <1>1
<1> QED
  BY <1>2 DEF ConnectionsOK, Connected, Grows, StaysConnected

LEMMA UpsertTyped ==
  ASSUME ConnectionsOK, Grows, NEW u \in Users, NEW a \in Accounts, NEW n \in DOMAIN issued,
         NEW expires \in Nat, n \in Nat, CreateOrReplace(u, a, n, expires)
  PROVE  /\ ConnectionsOK' /\ StaysConnected
         /\ connections'[u].status = "active" /\ connections'[u].tokens = n
         /\ \A v \in Users \ {u} : connections'[v] = connections[v]
<1> DEFINE row == [status |-> "active", account |-> a, tokens |-> n, expires |-> expires]
<1>1. row \in ConnectionRow /\ row.status = "active" /\ row.account = a /\ row.tokens = n
  BY DEF ConnectionRow
<1>2. connections' = [connections EXCEPT ![u] = row] /\ connections \in [Users -> ConnectionRow]
  BY DEF CreateOrReplace, ConnectionsOK
<1> HIDE DEF row
<1>3. ConnectionsOK' /\ StaysConnected
  BY <1>1, <1>2, ConnectionTyped
<1> QED
  BY <1>1, <1>2, <1>3

LEMMA MarkTyped ==
  ASSUME ConnectionsOK, Grows, NEW u \in Users, Connected(u), MarkNeedsReauthorization(u)
  PROVE  /\ ConnectionsOK' /\ StaysConnected
         /\ connections'[u].status = "needs_reauthorization"
         /\ connections'[u].tokens = connections[u].tokens
         /\ \A v \in Users \ {u} : connections'[v] = connections[v]
<1>1. PICK r \in ConnectionRow : r = connections[u]
  BY DEF ConnectionsOK
<1> DEFINE row == [r EXCEPT !.status = "needs_reauthorization"]
<1>2. /\ row \in ConnectionRow /\ row.status = "needs_reauthorization"
      /\ row.account = r.account /\ row.tokens = r.tokens
  BY DEF ConnectionRow
<1>3. connections' = [connections EXCEPT ![u] = row] /\ connections \in [Users -> ConnectionRow]
  BY <1>1 DEF MarkNeedsReauthorization, ConnectionsOK, Connected
<1> HIDE DEF row
<1>4. r.account \in Accounts /\ r.tokens \in DOMAIN issued
  BY <1>1 DEF ConnectionsOK
<1>5. ConnectionsOK' /\ StaysConnected
  BY <1>2, <1>3, <1>4, ConnectionTyped
<1> QED
  BY <1>1, <1>2, <1>3, <1>5

\* A step of a callback that writes nothing but, perhaps, at Chaster.
LEMMA CallOnly ==
  ASSUME TypeInv, Grows, NEW b \in Callbacks, NEW next, CallbackOK(next)', Call(b, next),
         UNCHANGED <<clock, links, connections, fetches, observations, locks, requests, audit>>
  PROVE  TypeInv'
<1>1. LinksOK'
  BY DEF TypeInv, LinksOK
<1>2. ConnectionsOK' /\ StaysConnected
  BY ConnectionsFrame DEF TypeInv
<1>3. CallbacksOK'
  BY CallTyped DEF TypeInv
<1>4. FetchesOK' /\ RequestsOK'
  BY <1>2, FetchesFrame, RequestsFrame DEF TypeInv
<1>5. RestOK'
  BY RestFrame DEF TypeInv
<1> QED
  BY <1>1, <1>2, <1>3, <1>4, <1>5 DEF TypeInv, Grows

\* The same of a fetch, and of a request.
LEMMA FetchOnly ==
  ASSUME TypeInv, Grows, NEW f \in Fetches, NEW next, FetchOK(next)', Fetch(f, next),
         UNCHANGED <<clock, links, connections, callbacks, locks, requests, audit>>,
         observations' \in Seq(Observation)
  PROVE  TypeInv'
<1>1. LinksOK'
  BY DEF TypeInv, LinksOK
<1>2. ConnectionsOK' /\ StaysConnected
  BY ConnectionsFrame DEF TypeInv
<1>3. FetchesOK'
  BY <1>2, FetchTyped DEF TypeInv
<1>4. CallbacksOK' /\ RequestsOK'
  BY <1>2, CallbacksFrame, RequestsFrame DEF TypeInv
<1>5. RestOK'
  BY DEF TypeInv, RestOK
<1> QED
  BY <1>1, <1>2, <1>3, <1>4, <1>5 DEF TypeInv, Grows

LEMMA RequestOnly ==
  ASSUME TypeInv, NEW q \in Requests, NEW next, RequestOK(next)', Request(q, next),
         UNCHANGED connectionVars, audit' \in [Requests -> Seq(Events)]
  PROVE  TypeInv'
<1>1. /\ UNCHANGED <<clock, links, connections, callbacks, fetches, observations, issued, locks>>
      /\ Grows
  BY SameIssuedGrows DEF TypeInv, connectionVars, held, chaster
<1>2. LinksOK'
  BY <1>1 DEF TypeInv, LinksOK
<1>3. ConnectionsOK' /\ StaysConnected
  BY <1>1, ConnectionsFrame DEF TypeInv
<1>4. RequestsOK'
  BY <1>1, <1>3, RequestTyped DEF TypeInv
<1>5. CallbacksOK' /\ FetchesOK'
  BY <1>1, <1>3, CallbacksFrame, FetchesFrame DEF TypeInv
<1>6. RestOK'
  BY <1>1 DEF TypeInv, RestOK
<1> QED
  BY <1>1, <1>2, <1>3, <1>4, <1>5, <1>6 DEF TypeInv, Grows

\* A step that changes rows of chaster_oauth_states, and at most one callback with it.
LEMMA LinkOnly ==
  ASSUME TypeInv, LinksOK',
         UNCHANGED <<clock, connections, fetches, observations, issued, locks, requests, audit>>,
         CallbacksOK'
  PROVE  TypeInv'
<1>1. Grows
  BY SameIssuedGrows DEF TypeInv
<1>2. ConnectionsOK' /\ StaysConnected
  BY <1>1, ConnectionsFrame DEF TypeInv
<1>3. FetchesOK' /\ RequestsOK'
  BY <1>1, <1>2, FetchesFrame, RequestsFrame DEF TypeInv
<1>4. RestOK'
  BY RestFrame DEF TypeInv
<1> QED
  BY <1>1, <1>2, <1>3, <1>4 DEF TypeInv

\* A row of chaster_oauth_states is replaced by one that is not pending.
LEMMA LinkTyped ==
  ASSUME LinksOK, NEW l \in Links, NEW row \in LinkRow, row.status # "pending",
         row.status # "unused" => row.user \in Users, links' = [links EXCEPT ![l] = row]
  PROVE  LinksOK'
<1>1. /\ links' \in [Links -> LinkRow]
      /\ \A k \in Links : links'[k] = IF k = l THEN row ELSE links[k]
  BY DEF LinksOK
<1> QED
  BY <1>1 DEF LinksOK

LEMMA AskForLinkTyped ==
  ASSUME TypeInv, NEW l \in Links, NEW u \in Users, AskForLink(l, u), UNCHANGED emergencyVars
  PROVE  TypeInv'
<1> DEFINE row == [status |-> "wanted", user |-> u, expires |-> clock + LinkLife]
<1>1. clock \in Nat /\ LinkLife \in Nat
  BY LivesType, ChasterBounds DEF TypeInv, RestOK
<1>2. row \in LinkRow /\ row.status = "wanted" /\ row.user = u
  BY <1>1 DEF LinkRow
<1>3. links' = [links EXCEPT ![l] = row]
  BY DEF AskForLink
<1> HIDE DEF row
<1>4. LinksOK'
  BY <1>2, <1>3, LinkTyped DEF TypeInv
<1>5. UNCHANGED <<clock, connections, callbacks, fetches, observations, issued, locks, requests,
                  audit>>
  BY DEF AskForLink, chaster, emergencyVars
<1>6. CallbacksOK'
  BY <1>5, SameIssuedGrows, CallbacksFrame DEF TypeInv
<1> QED
  BY <1>4, <1>5, <1>6, LinkOnly

LEMMA CreateLinkTyped ==
  ASSUME TypeInv, NEW l \in Links, CreateLink(l), UNCHANGED emergencyVars
  PROVE  TypeInv'
<1> DEFINE older(k) == links[k].status = "pending" /\ links[k].user = links[l].user
<1>1. /\ links \in [Links -> LinkRow] /\ links[l].status = "wanted"
      /\ links' = [k \in Links |->
           CASE k = l -> [links[k] EXCEPT !.status = "pending"]
             [] older(k) -> [links[k] EXCEPT !.status = "deleted"]
             [] OTHER -> links[k]]
  BY DEF CreateLink, TypeInv, LinksOK
<1>2. \A r \in LinkRow : \A s \in {"pending", "deleted"} :
        /\ [r EXCEPT !.status = s] \in LinkRow
        /\ [r EXCEPT !.status = s].status = s /\ [r EXCEPT !.status = s].user = r.user
  BY DEF LinkRow
<1>3. \A k \in Links : k # l /\ links[k].status = "wanted" => ~older(k)
  OBVIOUS
<1>4. ASSUME NEW k \in Links
      PROVE  /\ links'[k] \in LinkRow /\ links'[k].user = links[k].user
             /\ k = l => links'[k].status = "pending"
             /\ k # l /\ older(k) => links'[k].status = "deleted"
             /\ k # l /\ ~older(k) => links'[k] = links[k]
  <2>1. PICK r \in LinkRow : r = links[k]
    BY <1>1
  <2>2. CASE k = l
    <3>1. links'[k] = [r EXCEPT !.status = "pending"]
      BY <1>1, <2>1, <2>2
    <3> QED
      BY <1>2, <2>1, <2>2, <3>1
  <2>3. CASE k # l /\ older(k)
    <3>1. links'[k] = [r EXCEPT !.status = "deleted"]
      BY <1>1, <2>1, <2>3
    <3> QED
      BY <1>2, <2>1, <2>3, <3>1
  <2>4. CASE k # l /\ ~older(k)
    BY <1>1, <2>1, <2>4
  <2> QED
    BY <2>2, <2>3, <2>4
<1>5. LinksOK'
  <2>1. links' \in [Links -> LinkRow]
    <3>1. links' = [k \in Links |-> links'[k]]
      BY <1>1
    <3> QED
      BY <1>4, <3>1
  <2>2. \A k \in Links : links'[k].status # "unused" => links'[k].user \in Users
    BY <1>1, <1>4 DEF TypeInv, LinksOK
  <2>3. ASSUME NEW j \in Links, NEW k \in Links, links'[j].status = "pending",
               links'[k].status = "pending", links'[j].user = links'[k].user
        PROVE  j = k
    <3>1. \A i \in {j, k} : i # l => links[i].status = "pending" /\ ~older(i)
      BY <1>4, <2>3
    <3>2. CASE j = l \/ k = l
      BY <1>4, <2>3, <3>1, <3>2
    <3>3. CASE j # l /\ k # l
      BY <1>4, <2>3, <3>1, <3>3 DEF TypeInv, LinksOK
    <3> QED
      BY <3>2, <3>3
  <2> QED
    BY <2>1, <2>2, <2>3 DEF LinksOK
<1>6. UNCHANGED <<clock, connections, callbacks, fetches, observations, issued, locks, requests,
                  audit>>
  BY DEF CreateLink, chaster, emergencyVars
<1>7. CallbacksOK'
  BY <1>6, SameIssuedGrows, CallbacksFrame DEF TypeInv
<1> QED
  BY <1>5, <1>6, <1>7, LinkOnly

\* A callback that ended before it had a user, and one that has not begun.
LEMMA NotCalledTyped ==
  LET none == [NotCalled EXCEPT !.pc = "done"] IN
    /\ none \in CallbackState /\ none.pc = "done" /\ none.link = None
    /\ NotCalled \in CallbackState /\ NotCalled.pc = "idle" /\ NotCalled.link = None
BY DEF NotCalled, CallbackState

\* What consume() leaves of the callback and of the link.
LEMMA ConsumeLinkStep ==
  ASSUME TypeInv, NEW b \in Callbacks, NEW l \in Links, ConsumeLink(b, l)
  PROVE  /\ \E next \in CallbackState :
              /\ Call(b, next) /\ next.pc \in {"exchanging", "done"}
              /\ next.pc = "exchanging" => next.user \in Users
              /\ next.link \in {l, None}
              /\ next.link = l => links[l].status = "pending" /\ links'[l].status = "deleted"
         /\ LinksOK'
         /\ \A k \in Links : links'[k].status = links[k].status \/ links'[k].status = "deleted"
         /\ UNCHANGED <<clock, connections, fetches, observations, issued, locks>>
<1>1. PICK r \in LinkRow : r = links[l]
  BY DEF TypeInv, LinksOK
<1> DEFINE row == [r EXCEPT !.status = "deleted"]
<1>2. row \in LinkRow /\ row.status = "deleted" /\ row.user = r.user
  BY DEF LinkRow
<1>3. /\ links' = links \/ (links' = [links EXCEPT ![l] = row])
      /\ r.status = "pending" => links' = [links EXCEPT ![l] = row]
  BY <1>1 DEF ConsumeLink, Used
<1> HIDE DEF row
<1>4. r.status # "unused" /\ r.user \in Users
  BY <1>1 DEF ConsumeLink, TypeInv, LinksOK
<1>5. LinksOK'
  <2>1. CASE links' = links
    BY <2>1 DEF TypeInv, LinksOK
  <2>2. CASE links' = [links EXCEPT ![l] = row]
    BY <1>2, <1>4, <2>2, LinkTyped DEF TypeInv
  <2> QED
    BY <1>3, <2>1, <2>2
<1>6. links \in [Links -> LinkRow]
  BY DEF TypeInv, LinksOK
<1>7. /\ \A k \in Links : links'[k].status = links[k].status \/ links'[k].status = "deleted"
      /\ r.status = "pending" => links'[l].status = "deleted"
  BY <1>2, <1>3, <1>6
<1>8. \E next \in CallbackState :
        /\ Call(b, next) /\ next.pc \in {"exchanging", "done"}
        /\ next.pc = "exchanging" => next.user \in Users
        /\ next.link \in {l, None}
        /\ next.link = l => r.status = "pending"
  <2>1. CASE links[l].status = "pending" /\ clock < links[l].expires
    <3> DEFINE taken(pc) == [pc |-> pc, link |-> l, user |-> links[l].user, now |-> clock,
                             tokens |-> 0]
    <3>1. PICK pc \in {"exchanging", "done"} : Call(b, taken(pc))
      BY <2>1 DEF ConsumeLink
    <3>2. clock \in Nat /\ links[l].user \in Users
      BY <1>1, <1>4, ChasterBounds DEF TypeInv, RestOK
    <3>3. /\ taken(pc) \in CallbackState /\ taken(pc).pc = pc /\ taken(pc).link = l
          /\ taken(pc).user \in Users
      BY <3>2 DEF CallbackState
    <3> HIDE DEF taken
    <3> QED
      BY <1>1, <2>1, <3>1, <3>3
  <2>2. CASE ~(links[l].status = "pending" /\ clock < links[l].expires)
    <3>1. Call(b, [NotCalled EXCEPT !.pc = "done"])
      BY <2>2 DEF ConsumeLink
    <3> DEFINE none == [NotCalled EXCEPT !.pc = "done"]
    <3>2. none \in CallbackState /\ none.pc = "done" /\ none.link = None /\ Call(b, none)
      BY <3>1, NotCalledTyped
    <3> HIDE DEF none
    <3>3. None # l
      BY NoneIsNobody
    <3> QED
      BY <3>2, <3>3
  <2> QED
    BY <2>1, <2>2
<1>9. UNCHANGED <<clock, connections, fetches, observations, issued, locks>>
  BY DEF ConsumeLink, chaster
<1> QED
  BY <1>1, <1>5, <1>7, <1>8, <1>9

LEMMA ConsumeLinkTyped ==
  ASSUME TypeInv, NEW b \in Callbacks, NEW l \in Links, ConsumeLink(b, l), UNCHANGED emergencyVars
  PROVE  TypeInv'
<1>1. PICK next \in CallbackState :
        /\ Call(b, next) /\ next.pc \in {"exchanging", "done"}
        /\ next.pc = "exchanging" => next.user \in Users
  BY ConsumeLinkStep
<1>2. CallbackOK(next)'
  BY <1>1 DEF CallbackOK
<1>3. Grows /\ LinksOK'
  BY ConsumeLinkStep, SameIssuedGrows DEF TypeInv
<1>4. CallbacksOK'
  BY <1>1, <1>2, <1>3, CallTyped DEF TypeInv
<1>5. UNCHANGED <<clock, connections, fetches, observations, issued, locks, requests, audit>>
  BY ConsumeLinkStep DEF emergencyVars
<1> QED
  BY <1>3, <1>4, <1>5, LinkOnly

LEMMA ExchangeCodeTyped ==
  ASSUME TypeInv, NEW b \in Callbacks, ExchangeCode(b), UNCHANGED emergencyVars
  PROVE  TypeInv'
<1>1. UNCHANGED <<clock, links, connections, fetches, observations, locks, requests, audit>>
  BY DEF ExchangeCode, emergencyVars
<1>2. PICK c \in CallbackState : c = callbacks[b] /\ c.pc = "exchanging" /\ c.user \in Users
  BY DEF ExchangeCode, TypeInv, CallbacksOK, CallbackOK
<1>3. Len(issued) \in Nat /\ issued \in Seq(Pair)
  BY LenProperties DEF TypeInv
<1>4. CASE /\ \E a \in Accounts : Issue(a)
           /\ Call(b, [callbacks[b] EXCEPT !.pc = "resolving", !.tokens = Len(issued) + 1])
  <2>0. PICK n \in Nat : n = Len(issued) + 1
    BY <1>3
  <2> DEFINE next == [c EXCEPT !.pc = "resolving", !.tokens = n]
  <2>1. /\ next \in CallbackState /\ next.pc = "resolving" /\ next.user = c.user
        /\ next.tokens = n
    BY DEF CallbackState
  <2>2. Call(b, next)
    BY <1>2, <1>4, <2>0
  <2> HIDE DEF next
  <2>3. Grows /\ n \in DOMAIN issued'
    BY <1>3, <1>4, <2>0, AppendGrows DEF Issue
  <2>4. CallbackOK(next)'
    BY <1>2, <2>1, <2>3 DEF CallbackOK
  <2> QED
    BY <1>1, <2>2, <2>3, <2>4, CallOnly
<1>5. CASE Call(b, [callbacks[b] EXCEPT !.pc = "done"]) /\ UNCHANGED issued
  <2> DEFINE next == [c EXCEPT !.pc = "done"]
  <2>1. next \in CallbackState /\ next.pc = "done"
    BY DEF CallbackState
  <2>2. Call(b, next)
    BY <1>2, <1>5
  <2> HIDE DEF next
  <2>3. CallbackOK(next)' /\ Grows
    BY <1>3, <1>5, <2>1, SameIssuedGrows DEF CallbackOK
  <2> QED
    BY <1>1, <2>2, <2>3, CallOnly
<1> QED
  BY <1>4, <1>5 DEF ExchangeCode

LEMMA ResolveIdentityTyped ==
  ASSUME TypeInv, NEW b \in Callbacks, ResolveIdentity(b), UNCHANGED emergencyVars
  PROVE  TypeInv'
<1>1. UNCHANGED <<clock, links, connections, fetches, observations, issued, locks, requests, audit>>
  BY DEF ResolveIdentity, emergencyVars, chaster
<1>2. PICK c \in CallbackState : /\ c = callbacks[b] /\ c.user \in Users
                                 /\ c.tokens \in DOMAIN issued
  BY DEF ResolveIdentity, TypeInv, CallbacksOK, CallbackOK
<1>3. PICK pc \in {"saving", "done"} : Call(b, [callbacks[b] EXCEPT !.pc = pc])
  BY DEF ResolveIdentity
<1> DEFINE next == [c EXCEPT !.pc = pc]
<1>4. next \in CallbackState /\ next.pc = pc /\ next.user = c.user /\ next.tokens = c.tokens
  BY <1>3 DEF CallbackState
<1>5. Call(b, next)
  BY <1>2, <1>3
<1> HIDE DEF next
<1>6. Grows
  BY <1>1, SameIssuedGrows DEF TypeInv
<1>7. CallbackOK(next)'
  BY <1>1, <1>2, <1>4, <1>6 DEF CallbackOK, Grows
<1> QED
  BY <1>1, <1>5, <1>6, <1>7, CallOnly

\* The callback stores what it was issued.
LEMMA SaveConnectionStep ==
  ASSUME TypeInv, NEW b \in Callbacks, SaveConnection(b)
  PROVE  /\ callbacks[b].user \in Users /\ callbacks[b].tokens \in DOMAIN issued
         /\ ConnectionsOK' /\ StaysConnected /\ Grows
         /\ connections'[callbacks[b].user].status = "active"
         /\ connections'[callbacks[b].user].tokens = callbacks[b].tokens
         /\ \A v \in Users \ {callbacks[b].user} : connections'[v] = connections[v]
         /\ UNCHANGED <<clock, links, fetches, observations, issued, locks>>
<1>1. PICK c \in CallbackState : /\ c = callbacks[b] /\ c.user \in Users
                                 /\ c.tokens \in DOMAIN issued
  BY DEF SaveConnection, TypeInv, CallbacksOK, CallbackOK
<1>2. CreateOrReplace(c.user, Identity(b), c.tokens, c.now + TokenLife)
  BY <1>1 DEF SaveConnection
<1>3. c.now + TokenLife \in Nat /\ c.tokens \in Nat
  BY LivesType DEF CallbackState
<1>4. Identity(b) \in Accounts
  <2>1. issued[c.tokens] \in Pair
    BY <1>1, LenProperties, ElementOfSeq DEF TypeInv
  <2> QED
    BY <1>1, <2>1 DEF Identity, Pair
<1>5. UNCHANGED <<clock, links, fetches, observations, issued, locks>> /\ Grows
  BY SameIssuedGrows DEF SaveConnection, chaster, TypeInv
<1>6. /\ ConnectionsOK' /\ StaysConnected
      /\ connections'[c.user].status = "active" /\ connections'[c.user].tokens = c.tokens
      /\ \A v \in Users \ {c.user} : connections'[v] = connections[v]
  BY <1>1, <1>2, <1>3, <1>4, <1>5, UpsertTyped DEF TypeInv
<1> QED
  BY <1>1, <1>5, <1>6

LEMMA SaveConnectionTyped ==
  ASSUME TypeInv, NEW b \in Callbacks, SaveConnection(b), UNCHANGED emergencyVars
  PROVE  TypeInv'
<1>1. /\ ConnectionsOK' /\ StaysConnected /\ Grows
      /\ UNCHANGED <<clock, links, fetches, observations, issued, locks>>
  BY SaveConnectionStep
<1>2. PICK c \in CallbackState : c = callbacks[b]
  BY DEF TypeInv, CallbacksOK
<1> DEFINE next == [c EXCEPT !.pc = "done"]
<1>3. next \in CallbackState /\ next.pc = "done"
  BY DEF CallbackState
<1>4. Call(b, next)
  BY <1>2 DEF SaveConnection
<1> HIDE DEF next
<1>5. CallbackOK(next)'
  BY <1>3 DEF CallbackOK
<1>6. CallbacksOK'
  BY <1>1, <1>4, <1>5, CallTyped DEF TypeInv
<1>7. LinksOK'
  BY <1>1 DEF TypeInv, LinksOK
<1>8. FetchesOK' /\ RequestsOK'
  BY <1>1, FetchesFrame, RequestsFrame DEF TypeInv, emergencyVars
<1>9. RestOK'
  BY <1>1, RestFrame DEF TypeInv, emergencyVars
<1> QED
  BY <1>1, <1>6, <1>7, <1>8, <1>9 DEF TypeInv, Grows

\* How each step of a fetch moves it: what it keeps, and the tokens it goes on with.
LEMMA BeginFetchStep ==
  ASSUME TypeInv, NEW f \in Fetches, NEW u \in Users, BeginFetch(f, u)
  PROVE  /\ \E next \in FetchState :
              /\ Fetch(f, next) /\ next.pc \in {"done", "decrypting", "using"} /\ next.user = u
              /\ next.pc # "done" => Connected(u) /\ next.account \in Accounts
              /\ next.seen = Holdings
         /\ fetches[f].pc = "idle"
         /\ UNCHANGED <<clock, links, connections, callbacks, observations, issued, locks>>
<1>1. PICK c \in ConnectionRow : c = connections[u]
  BY DEF TypeInv, ConnectionsOK
<1>2. PICK pc \in {"done", "decrypting", "using"} :
        pc = CASE c.status = "none" -> "done"
               [] c.status # "none" /\ c.expires <= clock -> "decrypting"
               [] OTHER -> "using"
  OBVIOUS
<1>3. pc # "done" => c.status # "none"
  BY <1>2
<1> DEFINE next == [NotFetched EXCEPT !.user = u, !.account = c.account, !.now = clock,
                                      !.seen = Holdings, !.pc = pc]
<1>4. Holdings \in SUBSET (Accounts \X Situations) /\ clock \in Nat
  BY ChasterBounds DEF Holdings, TypeInv, RestOK
<1>5. /\ next \in FetchState /\ next.pc = pc /\ next.user = u
      /\ next.account = c.account /\ next.seen = Holdings
  BY <1>4 DEF NotFetched, FetchState, ConnectionRow, Statuses
<1>6. Fetch(f, next)
  BY <1>1, <1>2 DEF BeginFetch
<1> HIDE DEF next
<1>7. c.status # "none" => Connected(u) /\ c.account \in Accounts
  BY <1>1 DEF Connected, TypeInv, ConnectionsOK
<1>8. /\ fetches[f].pc = "idle"
      /\ UNCHANGED <<clock, links, connections, callbacks, observations, issued, locks>>
  BY DEF BeginFetch, chaster
<1> QED
  BY <1>3, <1>5, <1>6, <1>7, <1>8

LEMMA ReadRefreshTokenStep ==
  ASSUME TypeInv, NEW f \in Fetches, ReadRefreshToken(f)
  PROVE  /\ fetches[f].pc = "decrypting"
         /\ \E next \in FetchState :
              /\ Fetch(f, next) /\ next.pc \in {"exchanging", "marking"}
              /\ next.user = fetches[f].user /\ next.account = fetches[f].account
              /\ next.seen = fetches[f].seen
              /\ next.pc = "exchanging" => next.tokens = connections[next.user].tokens
         /\ UNCHANGED <<clock, links, connections, callbacks, observations, issued, locks>>
<1>1. PICK x \in FetchState : x = fetches[f] /\ x.user \in Users
  BY DEF ReadRefreshToken, TypeInv, FetchesOK, FetchOK
<1>2. PICK n \in Nat : n = connections[x.user].tokens
  BY <1>1 DEF TypeInv, ConnectionsOK, ConnectionRow
<1> DEFINE go == [x EXCEPT !.pc = "exchanging", !.tokens = n]
           stop == [x EXCEPT !.pc = "marking"]
<1>3. Fetch(f, go) \/ Fetch(f, stop)
  BY <1>1, <1>2 DEF ReadRefreshToken, Decrypted
<1>4. /\ go \in FetchState /\ go.pc = "exchanging" /\ go.user = x.user /\ go.account = x.account
      /\ go.seen = x.seen /\ go.tokens = n
      /\ stop \in FetchState /\ stop.pc = "marking" /\ stop.user = x.user
      /\ stop.account = x.account /\ stop.seen = x.seen
  BY DEF FetchState
<1> HIDE DEF go, stop
<1>5. /\ fetches[f].pc = "decrypting"
      /\ UNCHANGED <<clock, links, connections, callbacks, observations, issued, locks>>
  BY DEF ReadRefreshToken, chaster
<1> QED
  BY <1>1, <1>2, <1>3, <1>4, <1>5

LEMMA RefreshTokensStep ==
  ASSUME TypeInv, NEW f \in Fetches, RefreshTokens(f)
  PROVE  /\ fetches[f].pc = "exchanging" /\ fetches[f].tokens \in DOMAIN issued /\ Grows
         /\ \E next \in FetchState :
              /\ Fetch(f, next) /\ next.user = fetches[f].user
              /\ next.account = fetches[f].account /\ next.seen = fetches[f].seen
              /\ \/ /\ next.pc = "persisting" /\ next.tokens \in DOMAIN issued' \ DOMAIN issued
                    /\ ~issued'[next.tokens].spent
                 \/ next.pc = "marking"
         /\ \A m \in DOMAIN issued : m # fetches[f].tokens => issued'[m].spent = issued[m].spent
         /\ UNCHANGED <<clock, links, connections, callbacks, observations, locks>>
<1>1. PICK x \in FetchState : x = fetches[f] /\ x.user \in Users /\ x.tokens \in DOMAIN issued
  BY DEF RefreshTokens, TypeInv, FetchesOK, FetchOK
<1>2. issued \in Seq(Pair) /\ Len(issued) \in Nat
  BY LenProperties DEF TypeInv
<1>3. /\ Spend(x.tokens) \in Seq(Pair) /\ DOMAIN Spend(x.tokens) = DOMAIN issued
      /\ \A m \in DOMAIN issued :
           /\ Spend(x.tokens)[m].account = issued[m].account
           /\ m # x.tokens => Spend(x.tokens)[m].spent = issued[m].spent
      /\ Spend(x.tokens)[x.tokens].spent
  BY <1>1, <1>2, SpendTyped
<1>4. PICK n \in Nat : n = Len(issued) + 1
  BY <1>2
<1> DEFINE go == [x EXCEPT !.pc = "persisting", !.tokens = n]
           stop == [x EXCEPT !.pc = "marking"]
<1>5. \/ Exchange(x.tokens) /\ Fetch(f, go)
      \/ ExchangeFails(x.tokens) /\ Fetch(f, stop)
  BY <1>1, <1>4 DEF RefreshTokens
<1>6. /\ go \in FetchState /\ go.pc = "persisting" /\ go.user = x.user /\ go.account = x.account
      /\ go.seen = x.seen /\ go.tokens = n
      /\ stop \in FetchState /\ stop.pc = "marking" /\ stop.user = x.user
      /\ stop.account = x.account /\ stop.seen = x.seen
  BY DEF FetchState
<1> HIDE DEF go, stop
<1>7. CASE Exchange(x.tokens) /\ Fetch(f, go)
  <2>1. issued[x.tokens].account \in Accounts
    <3>1. issued[x.tokens] \in Pair
      BY <1>1, <1>2, LenProperties, ElementOfSeq
    <3> QED
      BY <3>1 DEF Pair
  <2>2. issued' = Append(Spend(x.tokens), [account |-> issued[x.tokens].account, spent |-> FALSE])
    BY <1>7 DEF Exchange
  <2>3. \A m \in DOMAIN issued : issued[m].spent => Spend(x.tokens)[m].spent
    BY <1>3
  <2>4. /\ Grows /\ n \in DOMAIN issued' \ DOMAIN issued /\ ~issued'[n].spent
        /\ \A m \in DOMAIN issued : issued'[m] = Spend(x.tokens)[m]
    BY <1>2, <1>3, <1>4, <2>1, <2>2, <2>3, AppendGrows
  <2>5. \A m \in DOMAIN issued : m # x.tokens => issued'[m].spent = issued[m].spent
    BY <1>3, <2>4
  <2> QED
    BY <1>1, <1>6, <1>7, <2>4, <2>5 DEF RefreshTokens
<1>8. CASE ExchangeFails(x.tokens) /\ Fetch(f, stop)
  <2>1. issued' = issued \/ issued' = Spend(x.tokens)
    BY <1>8 DEF ExchangeFails
  <2>2. Grows
    BY <1>2, <1>3, <2>1 DEF Grows
  <2>3. \A m \in DOMAIN issued : m # x.tokens => issued'[m].spent = issued[m].spent
    BY <1>3, <2>1
  <2> QED
    BY <1>1, <1>6, <1>8, <2>2, <2>3 DEF RefreshTokens
<1> QED
  BY <1>5, <1>7, <1>8

LEMMA PersistTokensStep ==
  ASSUME TypeInv, NEW f \in Fetches, PersistTokens(f)
  PROVE  /\ fetches[f].pc = "persisting" /\ fetches[f].user \in Users
         /\ \E next \in FetchState :
              /\ Fetch(f, next) /\ next.pc = "using" /\ next.user = fetches[f].user
              /\ next.account = fetches[f].account /\ next.seen = fetches[f].seen
         /\ ConnectionsOK' /\ StaysConnected /\ Grows
         /\ connections'[fetches[f].user].status = "active"
         /\ connections'[fetches[f].user].tokens = fetches[f].tokens
         /\ \A v \in Users \ {fetches[f].user} : connections'[v] = connections[v]
         /\ UNCHANGED <<clock, links, callbacks, observations, issued, locks>>
<1>1. PICK x \in FetchState : /\ x = fetches[f] /\ x.user \in Users /\ x.account \in Accounts
                              /\ x.tokens \in DOMAIN issued
  BY DEF PersistTokens, TypeInv, FetchesOK, FetchOK
<1> DEFINE next == [x EXCEPT !.pc = "using"]
<1>2. Fetch(f, next)
  BY <1>1 DEF PersistTokens
<1>3. /\ next \in FetchState /\ next.pc = "using" /\ next.user = x.user
      /\ next.account = x.account /\ next.seen = x.seen
  BY DEF FetchState
<1> HIDE DEF next
<1>4. x.now + TokenLife \in Nat /\ x.tokens \in Nat
  BY LivesType DEF FetchState
<1>5. CreateOrReplace(x.user, x.account, x.tokens, x.now + TokenLife)
  BY <1>1 DEF PersistTokens
<1>6. /\ UNCHANGED <<clock, links, callbacks, observations, issued, locks>> /\ Grows
      /\ fetches[f].pc = "persisting"
  BY SameIssuedGrows DEF PersistTokens, chaster, TypeInv
<1>7. /\ ConnectionsOK' /\ StaysConnected
      /\ connections'[x.user].status = "active" /\ connections'[x.user].tokens = x.tokens
      /\ \A v \in Users \ {x.user} : connections'[v] = connections[v]
  BY <1>1, <1>4, <1>5, <1>6, UpsertTyped DEF TypeInv
<1> QED
  BY <1>1, <1>2, <1>3, <1>6, <1>7

LEMMA MarkConnectionStep ==
  ASSUME TypeInv, NEW f \in Fetches, MarkConnection(f)
  PROVE  /\ fetches[f].pc = "marking" /\ fetches[f].user \in Users
         /\ \E next \in FetchState :
              /\ Fetch(f, next) /\ next.pc = "done" /\ next.user = fetches[f].user
              /\ next.seen = fetches[f].seen
         /\ ConnectionsOK' /\ StaysConnected /\ Grows
         /\ connections'[fetches[f].user].status = "needs_reauthorization"
         /\ connections'[fetches[f].user].tokens = connections[fetches[f].user].tokens
         /\ \A v \in Users \ {fetches[f].user} : connections'[v] = connections[v]
         /\ UNCHANGED <<clock, links, callbacks, observations, issued, locks>>
<1>1. PICK x \in FetchState : x = fetches[f] /\ x.user \in Users /\ Connected(x.user)
  BY DEF MarkConnection, TypeInv, FetchesOK, FetchOK
<1> DEFINE next == [x EXCEPT !.pc = "done"]
<1>2. Fetch(f, next)
  BY <1>1 DEF MarkConnection
<1>3. next \in FetchState /\ next.pc = "done" /\ next.user = x.user /\ next.seen = x.seen
  BY DEF FetchState
<1> HIDE DEF next
<1>4. /\ UNCHANGED <<clock, links, callbacks, observations, issued, locks>> /\ Grows
      /\ fetches[f].pc = "marking" /\ MarkNeedsReauthorization(x.user)
  BY <1>1, SameIssuedGrows DEF MarkConnection, chaster, TypeInv
<1>5. /\ ConnectionsOK' /\ StaysConnected
      /\ connections'[x.user].status = "needs_reauthorization"
      /\ connections'[x.user].tokens = connections[x.user].tokens
      /\ \A v \in Users \ {x.user} : connections'[v] = connections[v]
  BY <1>1, <1>4, MarkTyped DEF TypeInv
<1> QED
  BY <1>1, <1>2, <1>3, <1>4, <1>5

LEMMA ReadAccessTokenStep ==
  ASSUME TypeInv, NEW f \in Fetches, ReadAccessToken(f)
  PROVE  /\ fetches[f].pc = "using"
         /\ \E next \in FetchState :
              /\ Fetch(f, next) /\ next.pc \in {"listing", "marking"}
              /\ next.user = fetches[f].user /\ next.account = fetches[f].account
              /\ next.seen = fetches[f].seen
              /\ next.pc = "listing" => next.tokens \in DOMAIN issued
         /\ UNCHANGED <<clock, links, connections, callbacks, observations, issued, locks>>
<1>1. PICK x \in FetchState : x = fetches[f] /\ x.user \in Users /\ Connected(x.user)
  BY DEF ReadAccessToken, TypeInv, FetchesOK, FetchOK
<1>2. PICK n \in Nat : n = connections[x.user].tokens /\ n \in DOMAIN issued
  BY <1>1 DEF TypeInv, ConnectionsOK, ConnectionRow
<1> DEFINE go == [x EXCEPT !.pc = "listing", !.tokens = n]
           stop == [x EXCEPT !.pc = "marking"]
<1>3. Fetch(f, go) \/ Fetch(f, stop)
  BY <1>1, <1>2 DEF ReadAccessToken, Decrypted
<1>4. /\ go \in FetchState /\ go.pc = "listing" /\ go.user = x.user /\ go.account = x.account
      /\ go.seen = x.seen /\ go.tokens = n
      /\ stop \in FetchState /\ stop.pc = "marking" /\ stop.user = x.user
      /\ stop.account = x.account /\ stop.seen = x.seen
  BY DEF FetchState
<1> HIDE DEF go, stop
<1>5. /\ fetches[f].pc = "using"
      /\ UNCHANGED <<clock, links, connections, callbacks, observations, issued, locks>>
  BY DEF ReadAccessToken, chaster
<1> QED
  BY <1>1, <1>2, <1>3, <1>4, <1>5

\* What may be recorded is a reading of how the account's locks are.
LEMMA ListLocksStep ==
  ASSUME TypeInv, NEW f \in Fetches, ListLocks(f)
  PROVE  /\ fetches[f].pc = "listing" /\ fetches[f].tokens \in DOMAIN issued
         /\ \E next \in FetchState :
              /\ Fetch(f, next) /\ next.pc \in {"recording", "done"}
              /\ next.user = fetches[f].user /\ next.account = fetches[f].account
              /\ next.seen = fetches[f].seen /\ next.tokens = fetches[f].tokens
              /\ next.pc = "recording" =>
                   \E s \in DOMAIN Readings : /\ s = locks[issued[next.tokens].account]
                                              /\ next.answer = Readings[s]
         /\ UNCHANGED <<clock, links, connections, callbacks, observations, issued, locks>>
<1>1. PICK x \in FetchState : x = fetches[f] /\ x.tokens \in DOMAIN issued
  BY DEF ListLocks, TypeInv, FetchesOK, FetchOK
<1> DEFINE situation == locks[issued[x.tokens].account]
           stop == [x EXCEPT !.pc = "done"]
<1>2. /\ fetches[f].pc = "listing"
      /\ UNCHANGED <<clock, links, connections, callbacks, observations, issued, locks>>
  BY DEF ListLocks, chaster
<1>3. CASE Fetch(f, stop)
  <2>1. /\ stop \in FetchState /\ stop.pc = "done" /\ stop.user = x.user
        /\ stop.account = x.account /\ stop.seen = x.seen /\ stop.tokens = x.tokens
    BY DEF FetchState
  <2> HIDE DEF stop
  <2> QED
    BY <1>1, <1>2, <1>3, <2>1
<1>4. CASE /\ situation \in DOMAIN Readings
           /\ Fetch(f, [x EXCEPT !.pc = "recording", !.answer = Readings[situation]])
  <2>1. PICK s \in DOMAIN Readings : s = situation
    BY <1>4
  <2>2. PICK answer \in Statuses : answer = Readings[s]
    BY DEF Readings, Statuses
  <2> DEFINE go == [x EXCEPT !.pc = "recording", !.answer = answer]
  <2>3. /\ go \in FetchState /\ go.pc = "recording" /\ go.user = x.user
        /\ go.account = x.account /\ go.seen = x.seen /\ go.tokens = x.tokens
        /\ go.answer = answer
    BY DEF FetchState
  <2>4. Fetch(f, go)
    BY <1>4, <2>1, <2>2
  <2> HIDE DEF go
  <2>5. s = locks[issued[go.tokens].account] /\ go.answer = Readings[s]
    BY <2>1, <2>2, <2>3
  <2> QED
    BY <1>1, <1>2, <2>3, <2>4, <2>5
<1> QED
  BY <1>1, <1>3, <1>4 DEF ListLocks

LEMMA RecordObservationStep ==
  ASSUME TypeInv, NEW f \in Fetches, RecordObservation(f)
  PROVE  /\ fetches[f].pc = "recording"
         /\ \E next \in FetchState :
              /\ Fetch(f, next) /\ next.pc = "done" /\ next.user = fetches[f].user
              /\ next.account = fetches[f].account
              /\ next.seen = fetches[f].seen /\ next.tokens = fetches[f].tokens
         /\ \E o \in Observation : /\ observations' = Append(observations, o)
                                   /\ o.fetch = f /\ o.status = fetches[f].answer
         /\ UNCHANGED <<clock, links, connections, callbacks, issued, locks>>
<1>1. PICK x \in FetchState : x = fetches[f] /\ x.user \in Users
  BY DEF RecordObservation, TypeInv, FetchesOK, FetchOK
<1> DEFINE next == [x EXCEPT !.pc = "done"]
           o == [fetch |-> f, user |-> x.user, status |-> x.answer, at |-> x.now]
<1>2. Fetch(f, next) /\ observations' = Append(observations, o)
  BY <1>1 DEF RecordObservation
<1>3. /\ next \in FetchState /\ next.pc = "done" /\ next.user = x.user
      /\ next.account = x.account /\ next.seen = x.seen /\ next.tokens = x.tokens
      /\ o \in Observation /\ o.fetch = f /\ o.status = x.answer
  BY <1>1 DEF FetchState, Observation
<1> HIDE DEF next, o
<1>4. /\ fetches[f].pc = "recording"
      /\ UNCHANGED <<clock, links, connections, callbacks, issued, locks>>
  BY DEF RecordObservation, chaster
<1> QED
  BY <1>1, <1>2, <1>3, <1>4

\* A step of a fetch that writes a row of chaster_connections.
LEMMA FetchAndConnection ==
  ASSUME TypeInv, Grows, NEW f \in Fetches, NEW next, FetchOK(next)', Fetch(f, next),
         ConnectionsOK', StaysConnected,
         UNCHANGED <<clock, links, callbacks, observations, locks, requests, audit>>
  PROVE  TypeInv'
<1>1. LinksOK'
  BY DEF TypeInv, LinksOK
<1>2. FetchesOK'
  BY FetchTyped DEF TypeInv
<1>3. CallbacksOK' /\ RequestsOK'
  BY CallbacksFrame, RequestsFrame DEF TypeInv
<1>4. RestOK'
  BY RestFrame DEF TypeInv
<1> QED
  BY <1>1, <1>2, <1>3, <1>4 DEF TypeInv, Grows

LEMMA FetchStepTyped ==
  ASSUME TypeInv, NEW f \in Fetches, FetchStep(f), UNCHANGED emergencyVars
  PROVE  TypeInv'
<1>1. UNCHANGED requests /\ UNCHANGED audit /\ observations \in Seq(Observation)
  BY DEF emergencyVars, TypeInv, RestOK
<1>2. FetchOK(fetches[f]) /\ (issued' = issued => Grows)
  BY SameIssuedGrows DEF TypeInv, FetchesOK
<1>3. ASSUME NEW u \in Users, BeginFetch(f, u) PROVE TypeInv'
  <2>1. /\ Grows
        /\ UNCHANGED <<clock, links, connections, callbacks, observations, issued, locks>>
    BY <1>2, <1>3, BeginFetchStep
  <2>2. PICK next \in FetchState :
          /\ Fetch(f, next) /\ next.pc \in {"done", "decrypting", "using"} /\ next.user = u
          /\ next.pc # "done" => Connected(u) /\ next.account \in Accounts
    BY <1>3, BeginFetchStep
  <2>3. FetchOK(next)'
    BY <2>1, <2>2 DEF FetchOK, Connected
  <2> QED
    BY <1>1, <2>1, <2>2, <2>3, FetchOnly
<1>4. CASE ReadRefreshToken(f)
  <2>1. /\ Grows /\ fetches[f].pc = "decrypting"
        /\ UNCHANGED <<clock, links, connections, callbacks, observations, issued, locks>>
    BY <1>2, <1>4, ReadRefreshTokenStep
  <2>2. PICK next \in FetchState :
          /\ Fetch(f, next) /\ next.pc \in {"exchanging", "marking"}
          /\ next.user = fetches[f].user /\ next.account = fetches[f].account
          /\ next.pc = "exchanging" => next.tokens = connections[next.user].tokens
    BY <1>4, ReadRefreshTokenStep
  <2>3. /\ next.user \in Users /\ Connected(next.user) /\ next.account \in Accounts
        /\ connections[next.user].tokens \in DOMAIN issued
    BY <1>2, <2>1, <2>2 DEF FetchOK, TypeInv, ConnectionsOK
  <2>4. FetchOK(next)'
    BY <2>1, <2>2, <2>3 DEF FetchOK, Connected
  <2> QED
    BY <1>1, <2>1, <2>2, <2>4, FetchOnly
<1>5. CASE RefreshTokens(f)
  <2>1. /\ Grows /\ fetches[f].pc = "exchanging"
        /\ UNCHANGED <<clock, links, connections, callbacks, observations, locks>>
    BY <1>5, RefreshTokensStep
  <2>2. PICK next \in FetchState :
          /\ Fetch(f, next) /\ next.user = fetches[f].user
          /\ next.account = fetches[f].account
          /\ \/ next.pc = "persisting" /\ next.tokens \in DOMAIN issued'
             \/ next.pc = "marking"
    BY <1>5, RefreshTokensStep
  <2>3. FetchOK(next)'
    BY <1>2, <2>1, <2>2 DEF FetchOK, Connected
  <2> QED
    BY <1>1, <2>1, <2>2, <2>3, FetchOnly
<1>6. CASE PersistTokens(f)
  <2>1. /\ Grows /\ fetches[f].pc = "persisting" /\ ConnectionsOK' /\ StaysConnected
        /\ UNCHANGED <<clock, links, callbacks, observations, issued, locks>>
    BY <1>6, PersistTokensStep
  <2>2. PICK next \in FetchState :
          /\ Fetch(f, next) /\ next.pc = "using" /\ next.user = fetches[f].user
          /\ next.account = fetches[f].account
    BY <1>6, PersistTokensStep
  <2>3. FetchOK(next)'
    BY <1>2, <2>1, <2>2 DEF FetchOK, StaysConnected
  <2> QED
    BY <1>1, <2>1, <2>2, <2>3, FetchAndConnection
<1>7. CASE MarkConnection(f)
  <2>1. /\ Grows /\ fetches[f].pc = "marking" /\ ConnectionsOK' /\ StaysConnected
        /\ UNCHANGED <<clock, links, callbacks, observations, issued, locks>>
    BY <1>7, MarkConnectionStep
  <2>2. PICK next \in FetchState :
          Fetch(f, next) /\ next.pc = "done" /\ next.user = fetches[f].user
    BY <1>7, MarkConnectionStep
  <2>3. FetchOK(next)'
    BY <1>2, <2>1, <2>2 DEF FetchOK
  <2> QED
    BY <1>1, <2>1, <2>2, <2>3, FetchAndConnection
<1>8. CASE ReadAccessToken(f)
  <2>1. /\ Grows /\ fetches[f].pc = "using"
        /\ UNCHANGED <<clock, links, connections, callbacks, observations, issued, locks>>
    BY <1>2, <1>8, ReadAccessTokenStep
  <2>2. PICK next \in FetchState :
          /\ Fetch(f, next) /\ next.pc \in {"listing", "marking"}
          /\ next.user = fetches[f].user /\ next.account = fetches[f].account
          /\ next.pc = "listing" => next.tokens \in DOMAIN issued
    BY <1>8, ReadAccessTokenStep
  <2>3. FetchOK(next)'
    BY <1>2, <2>1, <2>2 DEF FetchOK, Connected
  <2> QED
    BY <1>1, <2>1, <2>2, <2>3, FetchOnly
<1>9. CASE ListLocks(f)
  <2>1. /\ Grows /\ fetches[f].pc = "listing" /\ fetches[f].tokens \in DOMAIN issued
        /\ UNCHANGED <<clock, links, connections, callbacks, observations, issued, locks>>
    BY <1>2, <1>9, ListLocksStep
  <2>2. PICK next \in FetchState :
          /\ Fetch(f, next) /\ next.pc \in {"recording", "done"}
          /\ next.user = fetches[f].user /\ next.account = fetches[f].account
          /\ next.tokens = fetches[f].tokens
    BY <1>9, ListLocksStep
  <2>3. FetchOK(next)'
    BY <1>2, <2>1, <2>2 DEF FetchOK, Connected
  <2> QED
    BY <1>1, <2>1, <2>2, <2>3, FetchOnly
<1>10. CASE RecordObservation(f)
  <2>1. /\ Grows /\ fetches[f].pc = "recording"
        /\ UNCHANGED <<clock, links, connections, callbacks, issued, locks>>
    BY <1>2, <1>10, RecordObservationStep
  <2>2. PICK next \in FetchState :
          Fetch(f, next) /\ next.pc = "done" /\ next.user = fetches[f].user
    BY <1>10, RecordObservationStep
  <2>3. PICK o \in Observation : observations' = Append(observations, o)
    BY <1>10, RecordObservationStep
  <2>4. observations' \in Seq(Observation)
    BY <1>1, <2>3, AppendProperties
  <2>5. FetchOK(next)'
    BY <1>2, <2>1, <2>2 DEF FetchOK
  <2> QED
    BY <1>1, <2>1, <2>2, <2>4, <2>5, FetchOnly
<1> QED
  BY <1>3, <1>4, <1>5, <1>6, <1>7, <1>8, <1>9, <1>10 DEF FetchStep

\* Calls are dropped, by a failure or because the bot stops: those in progress are lost, and
\* everything else is as it was.
LEMMA DropStep ==
  ASSUME TypeInv, NEW B, NEW F, NEW L, Drop(B, F, L)
  PROVE  /\ \A b \in Callbacks :
              \/ callbacks'[b] = callbacks[b]
              \/ callbacks'[b] \in CallbackState /\ callbacks'[b].pc = "lost"
                 /\ callbacks'[b].link = callbacks[b].link
         /\ \A f \in Fetches :
              \/ fetches'[f] = fetches[f]
              \/ /\ fetches'[f] \in FetchState /\ fetches'[f].pc = "lost"
                 /\ fetches'[f].user = fetches[f].user /\ fetches'[f].seen = fetches[f].seen
                 /\ fetches[f].pc \notin {"idle", "done"}
         /\ callbacks' = [b \in Callbacks |-> callbacks'[b]]
         /\ fetches' = [f \in Fetches |-> fetches'[f]]
         /\ LinksOK'
         /\ \A l \in Links : links'[l].status = links[l].status \/ links'[l].status = "deleted"
         /\ UNCHANGED <<clock, connections, observations, issued, locks>>
<1>1. /\ callbacks \in [Callbacks -> CallbackState] /\ fetches \in [Fetches -> FetchState]
      /\ links \in [Links -> LinkRow]
  BY DEF TypeInv, CallbacksOK, FetchesOK, LinksOK
<1>2. ASSUME NEW b \in Callbacks
      PROVE  \/ callbacks'[b] = callbacks[b]
             \/ callbacks'[b] \in CallbackState /\ callbacks'[b].pc = "lost"
                /\ callbacks'[b].link = callbacks[b].link
  <2>1. PICK c \in CallbackState : c = callbacks[b]
    BY <1>1
  <2> DEFINE next == [c EXCEPT !.pc = "lost"]
  <2>2. next \in CallbackState /\ next.pc = "lost" /\ next.link = c.link
    BY DEF CallbackState
  <2>3. callbacks'[b] = c \/ callbacks'[b] = next
    BY <2>1 DEF Drop
  <2> HIDE DEF next
  <2> QED
    BY <2>1, <2>2, <2>3
<1>3. ASSUME NEW f \in Fetches
      PROVE  \/ fetches'[f] = fetches[f]
             \/ /\ fetches'[f] \in FetchState /\ fetches'[f].pc = "lost"
                /\ fetches'[f].user = fetches[f].user /\ fetches'[f].seen = fetches[f].seen
                /\ fetches[f].pc \notin {"idle", "done"}
  <2>1. PICK x \in FetchState : x = fetches[f]
    BY <1>1
  <2> DEFINE next == [x EXCEPT !.pc = "lost"]
  <2>2. /\ next \in FetchState /\ next.pc = "lost" /\ next.user = x.user
        /\ next.seen = x.seen
    BY DEF FetchState
  <2>3. fetches'[f] = x \/ (x.pc \notin {"idle", "done"} /\ fetches'[f] = next)
    BY <2>1 DEF Drop, Ongoing
  <2> HIDE DEF next
  <2> QED
    BY <2>1, <2>2, <2>3
<1>4. callbacks' = [b \in Callbacks |-> callbacks'[b]] /\ fetches' = [f \in Fetches |-> fetches'[f]]
  BY DEF Drop
<1>5. ASSUME NEW l \in Links
      PROVE  \/ links'[l] = links[l]
             \/ /\ links'[l] \in LinkRow /\ links'[l].status = "deleted"
                /\ links'[l].user = links[l].user /\ links[l].status = "wanted"
  <2>1. PICK r \in LinkRow : r = links[l]
    BY <1>1
  <2> DEFINE next == [r EXCEPT !.status = "deleted"]
  <2>2. next \in LinkRow /\ next.status = "deleted" /\ next.user = r.user
    BY DEF LinkRow
  <2>3. links'[l] = r \/ (r.status = "wanted" /\ links'[l] = next)
    BY <2>1 DEF Drop
  <2> HIDE DEF next
  <2> QED
    BY <2>1, <2>2, <2>3
<1>6. links' = [l \in Links |-> links'[l]]
  BY DEF Drop
<1>7. links' \in [Links -> LinkRow]
  BY <1>1, <1>5, <1>6
<1>8. LinksOK'
  BY <1>5, <1>7 DEF TypeInv, LinksOK
<1>9. \A l \in Links : links'[l].status = links[l].status \/ links'[l].status = "deleted"
  BY <1>5
<1>10. UNCHANGED <<clock, connections, observations, issued, locks>>
  BY DEF Drop, chaster
<1> QED
  BY <1>2, <1>3, <1>4, <1>8, <1>9, <1>10

LEMMA DropTyped ==
  ASSUME TypeInv, NEW B, NEW F, NEW L, Drop(B, F, L), UNCHANGED emergencyVars
  PROVE  TypeInv'
<1>1. UNCHANGED <<clock, connections, observations, issued, locks, requests, audit>> /\ LinksOK'
  BY DropStep DEF emergencyVars
<1>2. Grows /\ ConnectionsOK' /\ StaysConnected
  BY <1>1, SameIssuedGrows, ConnectionsFrame DEF TypeInv
<1>3. CallbacksOK'
  <2>1. ASSUME NEW b \in Callbacks PROVE CallbackOK(callbacks[b])'
    BY <1>2, DropStep DEF TypeInv, CallbacksOK, CallbackOK, Grows
  <2>2. \A b \in Callbacks : callbacks'[b] \in CallbackState
    BY <2>1 DEF CallbackOK
  <2>3. callbacks' \in [Callbacks -> CallbackState]
    BY <2>2, DropStep
  <2> QED
    BY <2>1, <2>3 DEF CallbacksOK
<1>4. FetchesOK'
  <2>1. ASSUME NEW f \in Fetches PROVE FetchOK(fetches[f])'
    BY <1>2, DropStep DEF TypeInv, FetchesOK, FetchOK, Grows, StaysConnected
  <2>2. \A f \in Fetches : fetches'[f] \in FetchState
    BY <2>1 DEF FetchOK
  <2>3. fetches' \in [Fetches -> FetchState]
    BY <2>2, DropStep
  <2> QED
    BY <2>1, <2>3 DEF FetchesOK
<1>5. RequestsOK' /\ RestOK'
  BY <1>1, <1>2, RequestsFrame, RestFrame DEF TypeInv
<1> QED
  BY <1>1, <1>2, <1>3, <1>4, <1>5 DEF TypeInv, Grows

\* The steps that drop calls.
Dropping ==
  \/ \E l \in Links : FailConnect(l)
  \/ \E b \in Callbacks : FailCallback(b)
  \/ \E f \in Fetches : FailFetch(f)
  \/ StopBot

LEMMA DroppingDrops ==
  ASSUME Dropping
  PROVE  \E B, F, L : Drop(B, F, L)
<1>1. ASSUME NEW l \in Links, FailConnect(l) PROVE \E B, F, L : Drop(B, F, L)
  BY <1>1 DEF FailConnect
<1>2. ASSUME NEW b \in Callbacks, FailCallback(b) PROVE \E B, F, L : Drop(B, F, L)
  BY <1>2 DEF FailCallback
<1>3. ASSUME NEW f \in Fetches, FailFetch(f) PROVE \E B, F, L : Drop(B, F, L)
  BY <1>3 DEF FailFetch
<1>4. CASE StopBot
  BY <1>4 DEF StopBot
<1> QED
  BY <1>1, <1>2, <1>3, <1>4 DEF Dropping

----------------------------------------------------------------------------
(* Requests and their audit *)

LEMMA ShortAppends ==
  ASSUME NEW a, NEW b, NEW c
  PROVE  /\ Append(<<>>, a) = <<a>> /\ Append(<<a>>, b) = <<a, b>>
         /\ Append(<<a, b>>, c) = <<a, b, c>>
<1> DEFINE S == {a, b, c}
<1>1. /\ <<>> \in Seq(S) /\ <<a>> \in Seq(S) /\ <<a, b>> \in Seq(S) /\ <<a, b, c>> \in Seq(S)
      /\ a \in S /\ b \in S /\ c \in S
  OBVIOUS
<1>2. /\ Len(<<>>) = 0 /\ Len(<<a>>) = 1 /\ Len(<<a, b>>) = 2 /\ Len(<<a, b, c>>) = 3
      /\ <<a>>[1] = a /\ <<a, b>>[1] = a /\ <<a, b>>[2] = b
      /\ <<a, b, c>>[1] = a /\ <<a, b, c>>[2] = b /\ <<a, b, c>>[3] = c
  OBVIOUS
<1> HIDE DEF S
<1>3. Append(<<>>, a) = <<a>>
  <2>1. /\ Append(<<>>, a) \in Seq(S) /\ Len(Append(<<>>, a)) = 1
        /\ Append(<<>>, a)[1] = a
    BY <1>1, <1>2, AppendProperties
  <2> QED
    BY <1>1, <1>2, <2>1, SeqEqual
<1>4. Append(<<a>>, b) = <<a, b>>
  <2>1. /\ Append(<<a>>, b) \in Seq(S) /\ Len(Append(<<a>>, b)) = 2
        /\ Append(<<a>>, b)[1] = a /\ Append(<<a>>, b)[2] = b
    BY <1>1, <1>2, AppendProperties
  <2>2. PICK s \in Seq(S), t \in Seq(S) : s = Append(<<a>>, b) /\ t = <<a, b>>
    BY <1>1, <2>1
  <2>3. Len(s) = 2 /\ Len(t) = 2 /\ s[1] = t[1] /\ s[2] = t[2]
    BY <1>2, <2>1, <2>2
  <2>4. \A i \in 1..Len(s) : s[i] = t[i]
    BY <2>3
  <2>5. s = t
    BY <2>3, <2>4, SeqEqual
  <2> QED
    BY <2>2, <2>5
<1>5. Append(<<a, b>>, c) = <<a, b, c>>
  <2>1. /\ Append(<<a, b>>, c) \in Seq(S) /\ Len(Append(<<a, b>>, c)) = 3
        /\ Append(<<a, b>>, c)[1] = a /\ Append(<<a, b>>, c)[2] = b
        /\ Append(<<a, b>>, c)[3] = c
    BY <1>1, <1>2, AppendProperties
  <2>2. PICK s \in Seq(S), t \in Seq(S) : s = Append(<<a, b>>, c) /\ t = <<a, b, c>>
    BY <1>1, <2>1
  <2>3. Len(s) = 3 /\ Len(t) = 3 /\ s[1] = t[1] /\ s[2] = t[2] /\ s[3] = t[3]
    BY <1>2, <2>1, <2>2
  <2>4. \A i \in 1..Len(s) : s[i] = t[i]
    BY <2>3
  <2>5. s = t
    BY <2>3, <2>4, SeqEqual
  <2> QED
    BY <2>2, <2>5
<1> QED
  BY <1>3, <1>4, <1>5

\* What a request has written down, and whether Chaster unlocked, at each of its steps.
Story(r, rows) ==
  \/ r.pc = "idle" /\ rows = <<>> /\ ~r.unlocked
  \/ /\ r.pc \in {"looking", "unconnected", "decrypting", "marking", "announcing", "broken"}
     /\ rows = <<"request_accepted">> /\ ~r.unlocked
  \/ r.pc \in {"listing", "posting"} /\ rows = <<"request_accepted", "provider_attempted">>
     /\ ~r.unlocked
  \/ /\ r.pc = "closing" /\ rows = <<"request_accepted", "provider_attempted">>
     /\ r.outcome = "provider_succeeded" => r.unlocked
  \/ r.pc = "broken" /\ rows = <<"request_accepted", "provider_attempted">>
  \/ r.pc = "done" /\ r.outcome = "auth_failed" /\ rows = <<"auth_failed">> /\ ~r.unlocked
  \/ /\ r.pc = "done" /\ r.outcome = "no_connection" /\ ~r.unlocked
     /\ rows = <<"request_accepted", "no_connection">>
  \/ /\ r.pc = "done" /\ r.outcome \in {"provider_succeeded", "provider_failed"}
     /\ rows = <<"request_accepted", "provider_attempted", r.outcome>>
     /\ r.outcome = "provider_succeeded" => r.unlocked

Stories == \A q \in Requests : Story(requests[q], audit[q])

\* One request moves on, and writes a row or none.
LEMMA StoryGoesOn ==
  ASSUME TypeInv, Stories, NEW q \in Requests, NEW next, Request(q, next),
         NEW event, audit' = audit \/ Audit(q, event),
         Story(next, audit'[q])
  PROVE  Stories'
<1>1. requests \in [Requests -> RequestState] /\ audit \in [Requests -> Seq(Events)]
  BY DEF TypeInv, RequestsOK, RestOK
<1>2. \A p \in Requests \ {q} : requests'[p] = requests[p] /\ audit'[p] = audit[p]
  BY <1>1 DEF Request, Audit
<1>3. requests'[q] = next
  BY <1>1 DEF Request
<1>4. ASSUME NEW p \in Requests PROVE Story(requests'[p], audit'[p])
  BY <1>2, <1>3 DEF Stories
<1> QED
  BY <1>4 DEF Stories

LEMMA AuditTyped ==
  ASSUME TypeInv, NEW q \in Requests, NEW event \in Events, Audit(q, event)
  PROVE  audit' \in [Requests -> Seq(Events)] /\ audit'[q] = Append(audit[q], event)
<1>1. audit \in [Requests -> Seq(Events)]
  BY DEF TypeInv, RestOK
<1>2. Append(audit[q], event) \in Seq(Events)
  BY <1>1, AppendProperties
<1> QED
  BY <1>1, <1>2 DEF Audit

LEMMA RefuseSecretKeeps ==
  ASSUME TypeInv, Stories, NEW q \in Requests, NEW u \in Users, RefuseSecret(q, u)
  PROVE  TypeInv' /\ Stories'
<1> DEFINE next == [NotRequested EXCEPT !.pc = "done", !.user = u, !.outcome = "auth_failed"]
<1>1. /\ next \in RequestState /\ next.pc = "done" /\ next.outcome = "auth_failed"
      /\ ~next.unlocked
  BY DEF NotRequested, RequestState, Outcomes
<1>2. Request(q, next) /\ Audit(q, "auth_failed") /\ UNCHANGED connectionVars
  BY DEF RefuseSecret
<1> HIDE DEF next
<1>3. "auth_failed" \in Events
  BY DEF Events, Outcomes
<1>4. audit' \in [Requests -> Seq(Events)] /\ audit'[q] = Append(audit[q], "auth_failed")
  BY <1>2, <1>3, AuditTyped
<1>5. audit[q] = <<>>
  BY DEF RefuseSecret, Stories, Story
<1>6. audit'[q] = <<"auth_failed">>
  BY <1>4, <1>5, ShortAppends
<1>7. Story(next, audit'[q])
  BY <1>1, <1>6 DEF Story
<1>8. RequestOK(next)'
  BY <1>1 DEF RequestOK
<1> QED
  BY <1>2, <1>4, <1>7, <1>8, RequestOnly, StoryGoesOn

LEMMA AcceptSecretKeeps ==
  ASSUME TypeInv, Stories, NEW q \in Requests, NEW u \in Users, AcceptSecret(q, u)
  PROVE  TypeInv' /\ Stories'
<1> DEFINE next == [NotRequested EXCEPT !.pc = "looking", !.user = u]
<1>1. /\ next \in RequestState /\ next.pc = "looking" /\ next.user = u
      /\ ~next.unlocked
  BY DEF NotRequested, RequestState
<1>2. Request(q, next) /\ Audit(q, "request_accepted") /\ UNCHANGED connectionVars
  BY DEF AcceptSecret
<1> HIDE DEF next
<1>3. "request_accepted" \in Events
  BY DEF Events
<1>4. audit' \in [Requests -> Seq(Events)] /\ audit'[q] = Append(audit[q], "request_accepted")
  BY <1>2, <1>3, AuditTyped
<1>5. audit[q] = <<>>
  BY DEF AcceptSecret, Stories, Story
<1>6. audit'[q] = <<"request_accepted">>
  BY <1>4, <1>5, ShortAppends
<1>7. Story(next, audit'[q])
  BY <1>1, <1>6 DEF Story
<1>8. RequestOK(next)'
  BY <1>1 DEF RequestOK
<1> QED
  BY <1>2, <1>4, <1>7, <1>8, RequestOnly, StoryGoesOn

\* Steps that write nothing down.
LEMMA SilentlyKeeps ==
  ASSUME TypeInv, Stories, NEW q \in Requests, NEW next, Request(q, next),
         UNCHANGED <<connectionVars, audit>>, RequestOK(next)', Story(next, audit[q])
  PROVE  TypeInv' /\ Stories'
<1>1. audit' \in [Requests -> Seq(Events)] /\ audit' = audit
  BY DEF TypeInv, RestOK
<1>2. Story(next, audit'[q])
  BY <1>1
<1>3. TypeInv'
  BY <1>1, RequestOnly
<1>4. Stories'
  BY <1>1, <1>2, StoryGoesOn
<1> QED
  BY <1>3, <1>4

\* The request and its audit, before a step of it.
LEMMA RequestNow ==
  ASSUME TypeInv, Stories, NEW q \in Requests
  PROVE  /\ requests[q] \in RequestState /\ RequestOK(requests[q])
         /\ Story(requests[q], audit[q])
BY DEF TypeInv, RequestsOK, Stories

LEMMA LookUpConnectionKeeps ==
  ASSUME TypeInv, Stories, NEW q \in Requests, LookUpConnection(q)
  PROVE  TypeInv' /\ Stories'
<1>1. PICK r \in RequestState : r = requests[q] /\ RequestOK(r) /\ Story(r, audit[q])
  BY RequestNow
<1>2. PICK pc \in {"decrypting", "unconnected"} :
        pc = IF Connected(r.user) THEN "decrypting" ELSE "unconnected"
  OBVIOUS
<1> DEFINE next == [r EXCEPT !.pc = pc]
<1>3. /\ next \in RequestState /\ next.pc = pc /\ next.user = r.user
      /\ next.unlocked = r.unlocked
  BY DEF RequestState
<1>4. Request(q, next) /\ UNCHANGED <<connectionVars, audit>> /\ r.pc = "looking"
  BY <1>1, <1>2 DEF LookUpConnection
<1> HIDE DEF next
<1>5. audit[q] = <<"request_accepted">> /\ ~r.unlocked /\ r.user \in Users
  BY <1>1, <1>4 DEF Story, RequestOK
<1>6. Story(next, audit[q])
  BY <1>3, <1>5 DEF Story
<1>7. RequestOK(next)'
  BY <1>2, <1>3, <1>4, <1>5 DEF RequestOK, Connected, connectionVars, held
<1> QED
  BY <1>4, <1>6, <1>7, SilentlyKeeps

LEMMA DecryptTokenKeeps ==
  ASSUME TypeInv, Stories, NEW q \in Requests, DecryptToken(q)
  PROVE  TypeInv' /\ Stories'
<1>1. PICK r \in RequestState : r = requests[q] /\ RequestOK(r) /\ Story(r, audit[q])
  BY RequestNow
<1>2. r.pc = "decrypting" /\ UNCHANGED <<connectionVars, audit>>
  BY <1>1 DEF DecryptToken
<1>3. /\ r.user \in Users /\ Connected(r.user)
      /\ audit[q] = <<"request_accepted">> /\ ~r.unlocked
  BY <1>1, <1>2 DEF Story, RequestOK
<1>4. PICK n \in Nat : n = connections[r.user].tokens /\ n \in DOMAIN issued
  BY <1>3 DEF TypeInv, ConnectionsOK, ConnectionRow
<1> DEFINE go == [r EXCEPT !.pc = "announcing", !.tokens = n]
           stop == [r EXCEPT !.pc = "marking"]
<1>5. Request(q, go) \/ Request(q, stop)
  BY <1>1, <1>4 DEF DecryptToken, Decrypted
<1>6. /\ go \in RequestState /\ go.pc = "announcing" /\ go.user = r.user /\ go.tokens = n
      /\ go.unlocked = r.unlocked
      /\ stop \in RequestState /\ stop.pc = "marking" /\ stop.user = r.user
      /\ stop.unlocked = r.unlocked
  BY DEF RequestState
<1> HIDE DEF go, stop
<1>7. Story(go, audit[q]) /\ Story(stop, audit[q])
  BY <1>3, <1>6 DEF Story
<1>8. RequestOK(go)' /\ RequestOK(stop)'
  BY <1>2, <1>3, <1>4, <1>6 DEF RequestOK, Connected, connectionVars, held, chaster
<1> QED
  BY <1>2, <1>5, <1>7, <1>8, SilentlyKeeps

LEMMA AnnounceKeeps ==
  ASSUME TypeInv, Stories, NEW q \in Requests, Announce(q)
  PROVE  TypeInv' /\ Stories'
<1>1. PICK r \in RequestState : r = requests[q] /\ RequestOK(r) /\ Story(r, audit[q])
  BY RequestNow
<1>2. r.pc = "announcing" /\ Audit(q, "provider_attempted") /\ UNCHANGED connectionVars
  BY <1>1 DEF Announce
<1>3. /\ r.user \in Users /\ r.tokens \in DOMAIN issued
      /\ audit[q] = <<"request_accepted">> /\ ~r.unlocked
  BY <1>1, <1>2 DEF Story, RequestOK
<1> DEFINE next == [r EXCEPT !.pc = "listing"]
<1>4. Request(q, next)
  BY <1>1 DEF Announce
<1>5. /\ next \in RequestState /\ next.pc = "listing" /\ next.user = r.user
      /\ next.tokens = r.tokens /\ next.unlocked = r.unlocked
  BY DEF RequestState
<1> HIDE DEF next
<1>6. "provider_attempted" \in Events
  BY DEF Events
<1>7. audit' \in [Requests -> Seq(Events)] /\ audit'[q] = Append(audit[q], "provider_attempted")
  BY <1>2, <1>6, AuditTyped
<1>8. audit'[q] = <<"request_accepted", "provider_attempted">>
  BY <1>3, <1>7, ShortAppends
<1>9. Story(next, audit'[q])
  BY <1>3, <1>5, <1>8 DEF Story
<1>10. RequestOK(next)'
  BY <1>2, <1>3, <1>5 DEF RequestOK, connectionVars, chaster
<1> QED
  BY <1>2, <1>4, <1>7, <1>9, <1>10, RequestOnly, StoryGoesOn

LEMMA FindLockKeeps ==
  ASSUME TypeInv, Stories, NEW q \in Requests, FindLock(q)
  PROVE  TypeInv' /\ Stories'
<1>1. PICK r \in RequestState : r = requests[q] /\ RequestOK(r) /\ Story(r, audit[q])
  BY RequestNow
<1>2. r.pc = "listing" /\ UNCHANGED <<connectionVars, audit>>
  BY <1>1 DEF FindLock
<1>3. /\ r.user \in Users /\ r.tokens \in DOMAIN issued
      /\ audit[q] = <<"request_accepted", "provider_attempted">> /\ ~r.unlocked
  BY <1>1, <1>2 DEF Story, RequestOK
<1> DEFINE go == [r EXCEPT !.pc = "posting"]
           stop == [r EXCEPT !.pc = "closing", !.outcome = "provider_failed"]
<1>4. Request(q, go) \/ Request(q, stop)
  BY <1>1 DEF FindLock
<1>5. /\ go \in RequestState /\ go.pc = "posting" /\ go.user = r.user /\ go.tokens = r.tokens
      /\ go.unlocked = r.unlocked
      /\ stop \in RequestState /\ stop.pc = "closing" /\ stop.user = r.user
      /\ stop.unlocked = r.unlocked /\ stop.outcome = "provider_failed"
  BY DEF RequestState, Outcomes
<1> HIDE DEF go, stop
<1>6. Story(go, audit[q]) /\ Story(stop, audit[q])
  BY <1>3, <1>5 DEF Story
<1>7. RequestOK(go)' /\ RequestOK(stop)'
  BY <1>2, <1>3, <1>5 DEF RequestOK, connectionVars, chaster
<1> QED
  BY <1>2, <1>4, <1>6, <1>7, SilentlyKeeps

LEMMA BreakKeeps ==
  ASSUME TypeInv, Stories, NEW q \in Requests, Break(q)
  PROVE  TypeInv' /\ Stories'
<1>1. PICK r \in RequestState : r = requests[q] /\ RequestOK(r) /\ Story(r, audit[q])
  BY RequestNow
<1> DEFINE next == [r EXCEPT !.pc = "broken"]
<1>2. /\ Request(q, next) /\ UNCHANGED <<connectionVars, audit>>
      /\ r.pc \notin {"idle", "done", "broken"}
  BY <1>1 DEF Break
<1>3. next \in RequestState /\ next.pc = "broken" /\ next.unlocked = r.unlocked
  BY DEF RequestState
<1> HIDE DEF next
<1>4. \/ audit[q] = <<"request_accepted">> /\ ~r.unlocked
      \/ audit[q] = <<"request_accepted", "provider_attempted">>
  BY <1>1, <1>2 DEF Story
<1>5. Story(next, audit[q])
  BY <1>3, <1>4 DEF Story
<1>6. RequestOK(next)'
  BY <1>3 DEF RequestOK
<1> QED
  BY <1>2, <1>5, <1>6, SilentlyKeeps

\* The last row names the outcome.
LEMMA ConcludeKeeps ==
  ASSUME TypeInv, Stories, NEW q \in Requests, NEW outcome \in Outcomes, Conclude(q, outcome),
         UNCHANGED connectionVars,
         \/ requests[q].pc = "unconnected" /\ outcome = "no_connection"
         \/ requests[q].pc = "closing" /\ outcome = requests[q].outcome
  PROVE  TypeInv' /\ Stories'
<1>1. PICK r \in RequestState : r = requests[q] /\ RequestOK(r) /\ Story(r, audit[q])
  BY RequestNow
<1> DEFINE next == [r EXCEPT !.pc = "done", !.outcome = outcome]
<1>2. Request(q, next) /\ Audit(q, outcome)
  BY <1>1 DEF Conclude
<1>3. /\ next \in RequestState /\ next.pc = "done" /\ next.outcome = outcome
      /\ next.unlocked = r.unlocked
  BY DEF RequestState
<1> HIDE DEF next
<1>4. outcome \in Events
  BY DEF Events
<1>5. audit' \in [Requests -> Seq(Events)] /\ audit'[q] = Append(audit[q], outcome)
  BY <1>2, <1>4, AuditTyped
<1>6. Story(next, audit'[q])
  <2>1. CASE r.pc = "unconnected" /\ outcome = "no_connection"
    <3>1. audit[q] = <<"request_accepted">> /\ ~r.unlocked
      BY <1>1, <2>1 DEF Story
    <3>2. audit'[q] = <<"request_accepted", "no_connection">>
      BY <1>5, <2>1, <3>1, ShortAppends
    <3> QED
      BY <1>3, <2>1, <3>1, <3>2 DEF Story
  <2>2. CASE r.pc = "closing" /\ outcome = r.outcome
    <3>1. /\ audit[q] = <<"request_accepted", "provider_attempted">>
          /\ r.outcome = "provider_succeeded" => r.unlocked
          /\ r.outcome \in {"provider_succeeded", "provider_failed"}
      BY <1>1, <2>2 DEF Story, RequestOK
    <3>2. Append(<<"request_accepted", "provider_attempted">>, outcome)
            = <<"request_accepted", "provider_attempted", outcome>>
      BY ShortAppends, Zenon
    <3>3. audit'[q] = <<"request_accepted", "provider_attempted", outcome>>
      BY <1>5, <3>1, <3>2, Zenon
    <3> QED
      BY <1>3, <2>2, <3>1, <3>3 DEF Story
  <2> QED
    BY <1>1, <2>1, <2>2
<1>7. RequestOK(next)'
  BY <1>3 DEF RequestOK
<1> QED
  BY <1>2, <1>5, <1>6, <1>7, RequestOnly, StoryGoesOn

\* The token cannot be decrypted.
LEMMA GiveUpKeeps ==
  ASSUME TypeInv, Stories, NEW q \in Requests, GiveUp(q)
  PROVE  /\ TypeInv' /\ Stories'
         /\ requests[q].user \in Users
         /\ connections'[requests[q].user].status = "needs_reauthorization"
         /\ connections'[requests[q].user].tokens = connections[requests[q].user].tokens
         /\ \A v \in Users \ {requests[q].user} : connections'[v] = connections[v]
         /\ UNCHANGED <<links, callbacks, fetches, observations, issued, locks>>
<1>1. PICK r \in RequestState : r = requests[q] /\ RequestOK(r) /\ Story(r, audit[q])
  BY RequestNow
<1>2. /\ r.pc = "marking" /\ MarkNeedsReauthorization(r.user)
      /\ UNCHANGED <<clock, links, callbacks, fetches, observations, issued, locks, audit>>
  BY <1>1 DEF GiveUp, chaster
<1>3. /\ r.user \in Users /\ Connected(r.user)
      /\ audit[q] = <<"request_accepted">> /\ ~r.unlocked
  BY <1>1, <1>2 DEF Story, RequestOK
<1>4. Grows
  BY <1>2, SameIssuedGrows DEF TypeInv
<1>5. /\ ConnectionsOK' /\ StaysConnected
      /\ connections'[r.user].status = "needs_reauthorization"
      /\ connections'[r.user].tokens = connections[r.user].tokens
      /\ \A v \in Users \ {r.user} : connections'[v] = connections[v]
  BY <1>2, <1>3, <1>4, MarkTyped DEF TypeInv
<1> DEFINE next == [r EXCEPT !.pc = "broken"]
<1>6. Request(q, next)
  BY <1>1 DEF GiveUp
<1>7. next \in RequestState /\ next.pc = "broken" /\ next.unlocked = r.unlocked
  BY DEF RequestState
<1> HIDE DEF next
<1>8. Story(next, audit'[q]) /\ audit' = audit
  BY <1>2, <1>3, <1>7 DEF Story
<1>9. RequestOK(next)'
  BY <1>7 DEF RequestOK
<1>10. TypeInv'
  <2>1. RequestsOK'
    BY <1>4, <1>5, <1>6, <1>9, RequestTyped DEF TypeInv
  <2>2. CallbacksOK' /\ FetchesOK' /\ RestOK'
    BY <1>2, <1>4, <1>5, CallbacksFrame, FetchesFrame, RestFrame DEF TypeInv
  <2>3. LinksOK'
    BY <1>2 DEF TypeInv, LinksOK
  <2> QED
    BY <1>4, <1>5, <2>1, <2>2, <2>3 DEF TypeInv, Grows
<1>11. Stories'
  BY <1>6, <1>8, StoryGoesOn
<1> QED
  BY <1>1, <1>2, <1>3, <1>5, <1>10, <1>11

\* Whether Chaster unlocks or not, a fetch that goes on beside it only sees more.
LEMMA PostUnlockStep ==
  ASSUME TypeInv, Stories, NEW q \in Requests, PostUnlock(q)
  PROVE  /\ \/ UNCHANGED <<locks, fetches>>
            \/ \E a \in Accounts :
                 /\ locks' = [locks EXCEPT ![a] = "no lock"]
                 /\ \A f \in Fetches : fetches'[f].seen = fetches[f].seen \union {<<a, "no lock">>}
         /\ fetches' \in [Fetches -> FetchState]
         /\ \A f \in Fetches :
              /\ fetches'[f].pc = fetches[f].pc /\ fetches'[f].user = fetches[f].user
              /\ fetches'[f].account = fetches[f].account
              /\ fetches'[f].tokens = fetches[f].tokens
              /\ fetches'[f].answer = fetches[f].answer
              /\ fetches[f].seen \subseteq fetches'[f].seen
         /\ \E next \in RequestState :
              /\ Request(q, next) /\ Story(next, audit[q])
              /\ next.pc = "closing" /\ next.user \in Users
              /\ next.outcome \in {"provider_succeeded", "provider_failed"}
         /\ UNCHANGED <<clock, links, connections, callbacks, observations, issued, audit>>
<1>1. PICK r \in RequestState : r = requests[q] /\ RequestOK(r) /\ Story(r, audit[q])
  BY RequestNow
<1>2. /\ r.pc = "posting"
      /\ UNCHANGED <<clock, links, connections, callbacks, observations, issued, audit>>
  BY <1>1 DEF PostUnlock
<1>3. /\ r.user \in Users /\ r.tokens \in DOMAIN issued
      /\ audit[q] = <<"request_accepted", "provider_attempted">> /\ ~r.unlocked
  BY <1>1, <1>2 DEF Story, RequestOK
<1>4. fetches \in [Fetches -> FetchState]
  BY DEF TypeInv, FetchesOK
<1>5. PICK a \in Accounts : a = Target(q)
  <2>1. issued[r.tokens] \in Pair
    BY <1>3, LenProperties, ElementOfSeq DEF TypeInv
  <2> QED
    BY <1>1, <2>1 DEF Target, Pair
<1>6. CASE /\ locks' = [locks EXCEPT ![Target(q)] = "no lock"]
           /\ fetches' = [f \in Fetches |->
                [fetches[f] EXCEPT !.seen = @ \union {<<Target(q), "no lock">>}]]
           /\ \E answer \in {"provider_succeeded", "provider_failed"} :
                Request(q, [requests[q] EXCEPT !.pc = "closing", !.unlocked = TRUE,
                                               !.outcome = answer])
  <2>1. PICK answer \in {"provider_succeeded", "provider_failed"} :
          Request(q, [r EXCEPT !.pc = "closing", !.unlocked = TRUE, !.outcome = answer])
    BY <1>1, <1>6
  <2> DEFINE next == [r EXCEPT !.pc = "closing", !.unlocked = TRUE, !.outcome = answer]
  <2>2. /\ next \in RequestState /\ next.pc = "closing" /\ next.outcome = answer
        /\ next.unlocked /\ next.user = r.user
    BY DEF RequestState, Outcomes
  <2>3. Request(q, next)
    BY <2>1
  <2> HIDE DEF next
  <2>4. Story(next, audit[q])
    BY <1>3, <2>2 DEF Story
  <2>5. ASSUME NEW f \in Fetches
        PROVE  /\ fetches'[f] \in FetchState
               /\ fetches'[f].pc = fetches[f].pc /\ fetches'[f].user = fetches[f].user
               /\ fetches'[f].account = fetches[f].account
               /\ fetches'[f].tokens = fetches[f].tokens
               /\ fetches'[f].answer = fetches[f].answer
               /\ fetches'[f].seen = fetches[f].seen \union {<<a, "no lock">>}
    <3>1. PICK x \in FetchState : x = fetches[f]
      BY <1>4
    <3> DEFINE y == [x EXCEPT !.seen = x.seen \union {<<a, "no lock">>}]
    <3>2. <<a, "no lock">> \in Accounts \X Situations
      BY SituationsType
    <3>3. x.seen \union {<<a, "no lock">>} \in SUBSET (Accounts \X Situations)
      BY <3>2 DEF FetchState
    <3>4. /\ y \in FetchState /\ y.pc = x.pc /\ y.user = x.user /\ y.account = x.account
          /\ y.tokens = x.tokens /\ y.answer = x.answer
          /\ y.seen = x.seen \union {<<a, "no lock">>}
      BY <3>3 DEF FetchState
    <3>5. fetches'[f] = y
      BY <1>5, <1>6, <3>1
    <3> HIDE DEF y
    <3> QED
      BY <3>1, <3>4, <3>5
  <2>6. fetches' \in [Fetches -> FetchState]
    <3>1. fetches' = [f \in Fetches |-> fetches'[f]]
      BY <1>6
    <3> QED
      BY <2>5, <3>1
  <2> QED
    BY <1>2, <1>3, <1>5, <1>6, <2>2, <2>3, <2>4, <2>5, <2>6
<1>7. CASE /\ Request(q, [requests[q] EXCEPT !.pc = "closing", !.outcome = "provider_failed"])
           /\ UNCHANGED <<locks, fetches>>
  <2> DEFINE next == [r EXCEPT !.pc = "closing", !.outcome = "provider_failed"]
  <2>1. /\ next \in RequestState /\ next.pc = "closing" /\ next.outcome = "provider_failed"
        /\ next.user = r.user
    BY DEF RequestState, Outcomes
  <2>2. Request(q, next)
    BY <1>1, <1>7
  <2> HIDE DEF next
  <2>3. Story(next, audit[q])
    BY <1>3, <2>1 DEF Story
  <2> QED
    BY <1>2, <1>3, <1>4, <1>7, <2>1, <2>2, <2>3
<1> QED
  BY <1>6, <1>7 DEF PostUnlock

LEMMA PostUnlockKeeps ==
  ASSUME TypeInv, Stories, NEW q \in Requests, PostUnlock(q)
  PROVE  TypeInv' /\ Stories'
<1>1. PICK next \in RequestState :
        /\ Request(q, next) /\ Story(next, audit[q])
        /\ next.pc = "closing" /\ next.user \in Users
        /\ next.outcome \in {"provider_succeeded", "provider_failed"}
  BY PostUnlockStep
<1>2. UNCHANGED <<clock, links, connections, callbacks, observations, issued, audit>>
  BY PostUnlockStep
<1>3. Grows /\ ConnectionsOK' /\ StaysConnected
  BY <1>2, SameIssuedGrows, ConnectionsFrame DEF TypeInv
<1>4. LinksOK' /\ CallbacksOK'
  BY <1>2, <1>3, CallbacksFrame DEF TypeInv, LinksOK
<1>5. FetchesOK'
  <2>1. fetches' \in [Fetches -> FetchState]
    BY PostUnlockStep
  <2>2. ASSUME NEW f \in Fetches PROVE FetchOK(fetches[f])'
    <3>1. FetchOK(fetches[f]) /\ fetches'[f] \in FetchState
      BY <2>1 DEF TypeInv, FetchesOK
    <3>2. /\ fetches'[f].pc = fetches[f].pc /\ fetches'[f].user = fetches[f].user
          /\ fetches'[f].account = fetches[f].account
          /\ fetches'[f].tokens = fetches[f].tokens
      BY PostUnlockStep
    <3> QED
      BY <1>2, <3>1, <3>2 DEF FetchOK, Connected
  <2> QED
    BY <2>1, <2>2 DEF FetchesOK
<1>6. RequestOK(next)'
  BY <1>1 DEF RequestOK
<1>7. RequestsOK'
  BY <1>1, <1>3, <1>6, RequestTyped DEF TypeInv
<1>8. RestOK'
  <2>1. locks' \in [Accounts -> Situations]
    <3>1. locks' = locks \/ \E a \in Accounts : locks' = [locks EXCEPT ![a] = "no lock"]
      BY PostUnlockStep
    <3> QED
      BY <3>1, SituationsType DEF TypeInv, RestOK
  <2> QED
    BY <1>2, <2>1 DEF TypeInv, RestOK
<1>9. Stories'
  BY <1>1, <1>2, StoryGoesOn
<1> QED
  BY <1>2, <1>3, <1>4, <1>5, <1>7, <1>8, <1>9 DEF TypeInv, Grows

LEMMA RequestStepKeeps ==
  ASSUME TypeInv, Stories, NEW q \in Requests, RequestStep(q)
  PROVE  TypeInv' /\ Stories'
<1>1. CASE ReportUnconnected(q)
  <2>1. /\ Conclude(q, "no_connection") /\ UNCHANGED connectionVars
        /\ requests[q].pc = "unconnected" /\ "no_connection" \in Outcomes
    BY <1>1 DEF ReportUnconnected, Outcomes
  <2> QED
    BY <2>1, ConcludeKeeps
<1>2. CASE ReportOutcome(q)
  <2>1. /\ Conclude(q, requests[q].outcome) /\ UNCHANGED connectionVars
        /\ requests[q].pc = "closing"
    BY <1>2 DEF ReportOutcome
  <2>2. PICK outcome \in Outcomes : outcome = requests[q].outcome
    BY <2>1, RequestNow DEF RequestOK, Outcomes
  <2>3. Conclude(q, outcome)
    BY <2>1, <2>2
  <2> QED
    BY <2>1, <2>2, <2>3, ConcludeKeeps
<1>3. CASE GiveUp(q)
  BY <1>3, GiveUpKeeps
<1>4. CASE PostUnlock(q)
  BY <1>4, PostUnlockKeeps
<1>5. CASE \E u \in Users : RefuseSecret(q, u) \/ AcceptSecret(q, u)
  BY <1>5, RefuseSecretKeeps, AcceptSecretKeeps
<1>6. CASE LookUpConnection(q) \/ DecryptToken(q) \/ Announce(q) \/ FindLock(q) \/ Break(q)
  BY <1>6, LookUpConnectionKeeps, DecryptTokenKeeps, AnnounceKeeps, FindLockKeeps, BreakKeeps
<1> QED
  BY <1>1, <1>2, <1>3, <1>4, <1>5, <1>6 DEF RequestStep

LEMMA TickTyped ==
  ASSUME TypeInv, Tick, UNCHANGED emergencyVars
  PROVE  TypeInv'
<1>1. /\ UNCHANGED <<links, connections, callbacks, fetches, observations, issued, locks>>
      /\ UNCHANGED <<requests, audit>>
  BY DEF Tick, held, chaster, emergencyVars
<1>2. clock' \in 0..MaxClock
  BY ChasterBounds DEF Tick, TypeInv, RestOK
<1>3. Grows /\ ConnectionsOK' /\ StaysConnected
  BY <1>1, SameIssuedGrows, ConnectionsFrame DEF TypeInv
<1>4. LinksOK' /\ CallbacksOK' /\ FetchesOK' /\ RequestsOK'
  BY <1>1, <1>3, CallbacksFrame, FetchesFrame, RequestsFrame DEF TypeInv, LinksOK
<1>5. RestOK'
  BY <1>1, <1>2 DEF TypeInv, RestOK
<1> QED
  BY <1>1, <1>3, <1>4, <1>5 DEF TypeInv

LEMMA ConnectionStepTyped ==
  ASSUME TypeInv, ConnectionNext, UNCHANGED emergencyVars
  PROVE  TypeInv'
<1>1. ASSUME NEW l \in Links, NEW u \in Users, AskForLink(l, u) PROVE TypeInv'
  BY <1>1, AskForLinkTyped
<1>2. ASSUME NEW l \in Links, CreateLink(l) PROVE TypeInv'
  BY <1>2, CreateLinkTyped
<1>3. ASSUME NEW b \in Callbacks, CallbackStep(b) PROVE TypeInv'
  BY <1>3, ConsumeLinkTyped, ExchangeCodeTyped, ResolveIdentityTyped, SaveConnectionTyped
     DEF CallbackStep
<1>4. ASSUME NEW f \in Fetches, FetchStep(f) PROVE TypeInv'
  BY <1>4, FetchStepTyped
<1>5. CASE Tick
  BY <1>5, TickTyped
<1>6. CASE Dropping
  BY <1>6, DroppingDrops, DropTyped
<1> QED
  BY <1>1, <1>2, <1>3, <1>4, <1>5, <1>6 DEF ConnectionNext, Dropping

LEMMA InitTyped == Init => TypeInv /\ Stories
<1> SUFFICES ASSUME Init PROVE TypeInv /\ Stories
  OBVIOUS
<1>1. LinksOK
  BY DEF Init, ConnectionInit, LinksOK, LinkRow
<1>2. ConnectionsOK
  BY DEF Init, ConnectionInit, ConnectionsOK, ConnectionRow, NoConnection, Connected
<1>3. issued \in Seq(Pair)
  BY EmptySeq DEF Init, ConnectionInit
<1>4. NotCalled \in CallbackState /\ NotCalled.pc = "idle"
  BY NotCalledTyped
<1>5. CallbacksOK
  BY <1>4 DEF Init, ConnectionInit, CallbacksOK, CallbackOK
<1>6. NotFetched \in FetchState /\ NotFetched.pc = "idle"
  BY DEF NotFetched, FetchState, Statuses
<1>7. FetchesOK
  BY <1>6 DEF Init, ConnectionInit, FetchesOK, FetchOK
<1>8. NotRequested \in RequestState /\ NotRequested.pc = "idle" /\ ~NotRequested.unlocked
  BY DEF NotRequested, RequestState
<1>9. RequestsOK
  BY <1>8 DEF Init, RequestsOK, RequestOK
<1>10. observations \in Seq(Observation) /\ audit \in [Requests -> Seq(Events)]
  BY EmptySeq DEF Init, ConnectionInit
<1>11. RestOK
  BY <1>10, ChasterBounds DEF Init, ConnectionInit, RestOK
<1>12. Stories
  BY <1>8 DEF Init, Stories, Story
<1> QED
  BY <1>1, <1>2, <1>3, <1>5, <1>7, <1>9, <1>11, <1>12 DEF TypeInv

LEMMA StepTyped == TypeInv /\ Stories /\ [Next]_vars => TypeInv' /\ Stories'
<1> SUFFICES ASSUME TypeInv, Stories, [Next]_vars PROVE TypeInv' /\ Stories'
  OBVIOUS
<1>1. CASE UNCHANGED vars
  <2>1. /\ UNCHANGED <<clock, links, connections, callbacks, fetches, observations, issued, locks>>
        /\ UNCHANGED <<requests, audit>>
    BY <1>1 DEF vars, connectionVars, held, chaster, emergencyVars
  <2>2. Grows /\ ConnectionsOK' /\ StaysConnected
    BY <2>1, SameIssuedGrows, ConnectionsFrame DEF TypeInv
  <2>3. LinksOK' /\ CallbacksOK' /\ FetchesOK' /\ RequestsOK' /\ RestOK'
    BY <2>1, <2>2, CallbacksFrame, FetchesFrame, RequestsFrame, RestFrame DEF TypeInv, LinksOK
  <2> QED
    BY <2>1, <2>2, <2>3 DEF TypeInv, Stories
<1>2. CASE ConnectionNext /\ UNCHANGED emergencyVars
  BY <1>2, ConnectionStepTyped DEF emergencyVars, Stories
<1>3. ASSUME NEW q \in Requests, RequestStep(q) PROVE TypeInv' /\ Stories'
  BY <1>3, RequestStepKeeps
<1> QED
  BY <1>1, <1>2, <1>3 DEF Next

\* The types of the connection's tables and of everything in progress, for any number of
\* users, accounts, callbacks, fetches and requests; a stored row is of tokens that were
\* issued, and a user has one pending link at most.
THEOREM TypeAlways == Spec => []TypeOK
<1>1. TypeInv => TypeOK
  BY DEF TypeInv, TypeOK, ConnectionTypeOK, LinksOK, ConnectionsOK, CallbacksOK, FetchesOK,
         RequestsOK, RequestOK, RestOK
<1> QED
  BY <1>1, InitTyped, StepTyped, PTL DEF Spec

\* emergency_unlock.py:71: the status of a request is the last row of its audit; a lock that
\* was unlocked has been announced before, and no other unlock is called a success.
THEOREM AuditAlways == Spec => []AuditTellsWhatHappened
<1>1. Stories => AuditTellsWhatHappened
  <2> SUFFICES ASSUME Stories, NEW q \in Requests
               PROVE  /\ requests[q].pc = "done" =>
                           audit[q] # <<>> /\ audit[q][Len(audit[q])] = requests[q].outcome
                      /\ requests[q].unlocked =>
                           /\ Len(audit[q]) >= 2 /\ audit[q][1] = "request_accepted"
                           /\ audit[q][2] = "provider_attempted"
                      /\ \A i \in DOMAIN audit[q] :
                           audit[q][i] = "provider_succeeded" => requests[q].unlocked
    BY DEF AuditTellsWhatHappened
  <2>1. Story(requests[q], audit[q])
    BY DEF Stories
  <2>2. requests[q].pc = "done" =>
          audit[q] # <<>> /\ audit[q][Len(audit[q])] = requests[q].outcome
    <3> SUFFICES ASSUME requests[q].pc = "done"
                 PROVE  audit[q] # <<>> /\ audit[q][Len(audit[q])] = requests[q].outcome
      OBVIOUS
    <3>1. PICK outcome : outcome = requests[q].outcome
      OBVIOUS
    <3>2. CASE audit[q] = <<outcome>>
      BY <3>1, <3>2
    <3>3. CASE audit[q] = <<"request_accepted", outcome>>
      BY <3>1, <3>3
    <3>4. CASE audit[q] = <<"request_accepted", "provider_attempted", outcome>>
      BY <3>1, <3>4
    <3> QED
      BY <2>1, <3>1, <3>2, <3>3, <3>4 DEF Story
  <2>3. requests[q].unlocked =>
          /\ Len(audit[q]) >= 2 /\ audit[q][1] = "request_accepted"
          /\ audit[q][2] = "provider_attempted"
    <3> SUFFICES ASSUME requests[q].unlocked
                 PROVE  /\ Len(audit[q]) >= 2 /\ audit[q][1] = "request_accepted"
                        /\ audit[q][2] = "provider_attempted"
      OBVIOUS
    <3>1. PICK outcome : outcome = requests[q].outcome
      OBVIOUS
    <3>2. CASE audit[q] = <<"request_accepted", "provider_attempted">>
      BY <3>2
    <3>3. CASE audit[q] = <<"request_accepted", "provider_attempted", outcome>>
      BY <3>3
    <3> QED
      BY <2>1, <3>1, <3>2, <3>3 DEF Story
  <2>4. \A i \in DOMAIN audit[q] : audit[q][i] = "provider_succeeded" => requests[q].unlocked
    BY <2>1 DEF Story
  <2> QED
    BY <2>2, <2>3, <2>4
<1> QED
  BY <1>1, InitTyped, StepTyped, PTL DEF Spec

----------------------------------------------------------------------------
(* Links *)

\* A link a callback has taken is gone, and stays so: nobody takes it again.
LinkInv ==
  /\ LinkUsedOnce
  /\ \A b \in Callbacks :
       callbacks[b].link # None => links[callbacks[b].link].status = "deleted"

LEMMA LinkFrame ==
  ASSUME TypeInv, LinkInv, \A b \in Callbacks : callbacks'[b].link = callbacks[b].link,
         \A l \in Links : links[l].status = "deleted" => links'[l].status = "deleted"
  PROVE  LinkInv'
<1>1. \A b \in Callbacks : callbacks[b].link \in Links \union {None}
  BY DEF TypeInv, CallbacksOK, CallbackState
<1>2. LinkUsedOnce'
  BY DEF LinkInv, LinkUsedOnce
<1> QED
  BY <1>1, <1>2 DEF LinkInv

LEMMA CallbackStepLink ==
  ASSUME TypeInv, LinkInv, NEW b \in Callbacks, CallbackStep(b)
  PROVE  LinkInv'
<1>1. PICK c \in CallbackState : c = callbacks[b]
  BY DEF TypeInv, CallbacksOK
<1>2. callbacks \in [Callbacks -> CallbackState] /\ Len(issued) \in Nat
  BY LenProperties DEF TypeInv, CallbacksOK
<1>3. ASSUME NEW next, Call(b, next), next.link = c.link, links' = links
      PROVE  LinkInv'
  <2>1. \A d \in Callbacks : callbacks'[d].link = callbacks[d].link
    BY <1>1, <1>2, <1>3 DEF Call
  <2> QED
    BY <1>3, <2>1, LinkFrame
<1>4. ASSUME NEW l \in Links, ConsumeLink(b, l) PROVE LinkInv'
  <2>1. PICK next \in CallbackState :
          /\ Call(b, next) /\ next.link \in {l, None}
          /\ next.link = l => links[l].status = "pending" /\ links'[l].status = "deleted"
    BY <1>4, ConsumeLinkStep
  <2>2. \A k \in Links : links'[k].status = links[k].status \/ links'[k].status = "deleted"
    BY <1>4, ConsumeLinkStep
  <2>3. \A d \in Callbacks : callbacks'[d] = IF d = b THEN next ELSE callbacks[d]
    BY <1>2, <2>1 DEF Call
  <2>4. ASSUME NEW d \in Callbacks, d # b, callbacks[d].link = l PROVE next.link # l
    <3>1. links[l].status = "deleted"
      BY <2>4, NoneIsNobody DEF LinkInv
    <3> QED
      BY <2>1, <3>1
  <2>5. \A d \in Callbacks : callbacks[d].link \in Links \union {None}
    BY <1>2 DEF CallbackState
  <2>6. LinkUsedOnce'
    BY <2>1, <2>3, <2>4, <2>5 DEF LinkInv, LinkUsedOnce
  <2>7. \A d \in Callbacks :
          callbacks'[d].link # None => links'[callbacks'[d].link].status = "deleted"
    BY <2>1, <2>2, <2>3, <2>5 DEF LinkInv
  <2> QED
    BY <2>6, <2>7 DEF LinkInv
<1>5. CASE ExchangeCode(b)
  <2>1. PICK n \in Nat : n = Len(issued) + 1
    BY <1>2
  <2> DEFINE go == [c EXCEPT !.pc = "resolving", !.tokens = n]
             stop == [c EXCEPT !.pc = "done"]
  <2>2. (Call(b, go) \/ Call(b, stop)) /\ links' = links
    BY <1>1, <1>5, <2>1 DEF ExchangeCode
  <2>3. go.link = c.link /\ stop.link = c.link
    BY DEF CallbackState
  <2> HIDE DEF go, stop
  <2> QED
    BY <1>3, <2>2, <2>3
<1>6. CASE ResolveIdentity(b)
  <2>1. PICK pc \in {"saving", "done"} : Call(b, [c EXCEPT !.pc = pc])
    BY <1>1, <1>6 DEF ResolveIdentity
  <2> DEFINE next == [c EXCEPT !.pc = pc]
  <2>2. Call(b, next) /\ next.link = c.link /\ links' = links
    BY <1>6, <2>1 DEF CallbackState, ResolveIdentity
  <2> HIDE DEF next
  <2> QED
    BY <1>3, <2>2
<1>7. CASE SaveConnection(b)
  <2> DEFINE next == [c EXCEPT !.pc = "done"]
  <2>1. Call(b, next) /\ next.link = c.link /\ links' = links
    BY <1>1, <1>7 DEF CallbackState, SaveConnection
  <2> HIDE DEF next
  <2> QED
    BY <1>3, <2>1
<1> QED
  BY <1>4, <1>5, <1>6, <1>7 DEF CallbackStep

LEMMA StepLink == TypeInv /\ LinkInv /\ [Next]_vars => LinkInv'
<1> SUFFICES ASSUME TypeInv, LinkInv, [Next]_vars PROVE LinkInv'
  OBVIOUS
<1>1. UNCHANGED <<callbacks, links>> => LinkInv'
  BY LinkFrame
<1>2. CASE UNCHANGED vars
  BY <1>1, <1>2 DEF vars, connectionVars, held
<1>3. ASSUME NEW l \in Links, NEW u \in Users, AskForLink(l, u) PROVE LinkInv'
  <2>1. callbacks' = callbacks /\ \A k \in Links \ {l} : links'[k] = links[k]
    BY <1>3 DEF AskForLink, TypeInv, LinksOK
  <2>2. links[l].status = "unused"
    BY <1>3 DEF AskForLink
  <2> QED
    BY <2>1, <2>2, LinkFrame
<1>4. ASSUME NEW l \in Links, CreateLink(l) PROVE LinkInv'
  <2>1. /\ callbacks' = callbacks /\ links[l].status = "wanted"
        /\ \A k \in Links : links[k].status = "deleted" => links'[k] = links[k]
    BY <1>4 DEF CreateLink
  <2> QED
    BY <2>1, LinkFrame
<1>5. ASSUME NEW b \in Callbacks, CallbackStep(b) PROVE LinkInv'
  BY <1>5, CallbackStepLink
<1>6. ASSUME NEW f \in Fetches, FetchStep(f) PROVE LinkInv'
  BY <1>1, <1>6 DEF FetchStep, BeginFetch, ReadRefreshToken, RefreshTokens, PersistTokens,
     MarkConnection, ReadAccessToken, ListLocks, RecordObservation
<1>7. CASE Tick
  BY <1>1, <1>7 DEF Tick, held
<1>8. CASE Dropping
  <2>0. PICK B, F, L : Drop(B, F, L)
    BY <1>8, DroppingDrops
  <2>1. /\ \A b \in Callbacks : callbacks'[b].link = callbacks[b].link
        /\ \A l \in Links : links'[l].status = links[l].status \/ links'[l].status = "deleted"
    BY <2>0, DropStep
  <2> QED
    BY <2>1, LinkFrame
<1>9. ASSUME NEW q \in Requests, RequestStep(q) PROVE LinkInv'
  BY <1>1, <1>9 DEF RequestStep, RefuseSecret, AcceptSecret, LookUpConnection, ReportUnconnected,
     DecryptToken, GiveUp, Announce, FindLock, PostUnlock, ReportOutcome, Break, connectionVars, held
<1> QED
  BY <1>2, <1>3, <1>4, <1>5, <1>6, <1>7, <1>8, <1>9 DEF Next, ConnectionNext, Dropping

\* chaster_integration_technical_design.md:388: however many callbacks present a link, and
\* however they overlap, one of them exchanges a code for it at most.
THEOREM LinkAlways == Spec => []LinkUsedOnce
<1>1. Init => LinkInv
  <2> SUFFICES ASSUME Init PROVE LinkInv
    OBVIOUS
  <2>1. \A b \in Callbacks : callbacks[b].link = None
    BY NotCalledTyped DEF Init, ConnectionInit
  <2> QED
    BY <2>1 DEF LinkInv, LinkUsedOnce
<1>2. LinkInv => LinkUsedOnce
  BY DEF LinkInv
<1> QED
  BY <1>1, <1>2, InitTyped, StepTyped, StepLink, PTL DEF Spec

----------------------------------------------------------------------------
(* Refresh tokens *)

\* Whoever holds tokens that are not stored yet.
InHand(b) == callbacks[b].pc \in {"resolving", "saving"}
Renewed(f) == fetches[f].pc = "persisting"
Excusing(f) == fetches[f].pc \in {"persisting", "marking", "lost"}

\* Tokens nobody has spent, stored or is about to exchange.
Fresh(n) ==
  /\ ~issued[n].spent
  /\ \A u \in Users : Connected(u) => connections[u].tokens # n
  /\ \A f \in Fetches : fetches[f].pc = "exchanging" => fetches[f].tokens # n

\* Tokens in hand are fresh and each its holder's own; stored ones are one user's, and a
\* fetch exchanges its own user's.
TokensApart ==
  /\ \A b \in Callbacks : InHand(b) => Fresh(callbacks[b].tokens)
  /\ \A f \in Fetches : Renewed(f) => Fresh(fetches[f].tokens)
  /\ \A b, c \in Callbacks :
       InHand(b) /\ InHand(c) /\ callbacks[b].tokens = callbacks[c].tokens => b = c
  /\ \A f, g \in Fetches :
       Renewed(f) /\ Renewed(g) /\ fetches[f].tokens = fetches[g].tokens => f = g
  /\ \A b \in Callbacks, f \in Fetches :
       InHand(b) /\ Renewed(f) => callbacks[b].tokens # fetches[f].tokens
  /\ \A u, v \in Users :
       Connected(u) /\ Connected(v) /\ connections[u].tokens = connections[v].tokens => u = v
  /\ \A f \in Fetches, u \in Users :
       fetches[f].pc = "exchanging" /\ Connected(u) /\ connections[u].tokens = fetches[f].tokens
         => u = fetches[f].user

TokenInv == TokensApart /\ StoredTokenIsGood

\* A step that issues, stores and exchanges nothing: nobody comes to hold tokens, and who
\* excuses a spent token does so until the connection is marked.
LEMMA TokenFrame ==
  ASSUME TokenInv, issued' = issued,
         \A u \in Users : /\ connections'[u].tokens = connections[u].tokens
                          /\ Connected(u)' <=> Connected(u)
                          /\ connections'[u].status = "active" => connections[u].status = "active",
         \A b \in Callbacks :
           InHand(b)' => InHand(b) /\ callbacks'[b].tokens = callbacks[b].tokens,
         \A f \in Fetches :
           /\ fetches'[f].pc \in {"exchanging", "persisting"} =>
                /\ fetches'[f].pc = fetches[f].pc /\ fetches'[f].tokens = fetches[f].tokens
                /\ fetches'[f].user = fetches[f].user
           /\ Excusing(f) /\ connections'[fetches[f].user].status = "active" =>
                Excusing(f)' /\ fetches'[f].user = fetches[f].user
  PROVE  TokenInv'
<1>1. ASSUME NEW n, Fresh(n)
      PROVE  /\ ~issued'[n].spent
             /\ \A u \in Users : Connected(u)' => connections'[u].tokens # n
             /\ \A f \in Fetches : fetches'[f].pc = "exchanging" => fetches'[f].tokens # n
  BY <1>1 DEF Fresh
<1>2. ASSUME NEW b \in Callbacks, InHand(b)'
      PROVE  InHand(b) /\ callbacks'[b].tokens = callbacks[b].tokens /\ Fresh(callbacks[b].tokens)'
  <2>1. InHand(b) /\ callbacks'[b].tokens = callbacks[b].tokens
    BY <1>2
  <2>2. Fresh(callbacks[b].tokens)
    BY <2>1 DEF TokenInv, TokensApart
  <2> QED
    BY <1>1, <2>1, <2>2 DEF Fresh
<1>3. ASSUME NEW f \in Fetches, Renewed(f)'
      PROVE  Renewed(f) /\ fetches'[f].tokens = fetches[f].tokens /\ Fresh(fetches[f].tokens)'
  <2>1. Renewed(f) /\ fetches'[f].tokens = fetches[f].tokens
    BY <1>3 DEF Renewed
  <2>2. Fresh(fetches[f].tokens)
    BY <2>1 DEF TokenInv, TokensApart
  <2> QED
    BY <1>1, <2>1, <2>2 DEF Fresh
<1>4. TokensApart'
  <2>1. \A f \in Fetches, u \in Users :
          fetches'[f].pc = "exchanging" /\ Connected(u)' /\ connections'[u].tokens = fetches'[f].tokens
            => u = fetches'[f].user
    BY DEF TokenInv, TokensApart
  <2>2. \A u, v \in Users :
          Connected(u)' /\ Connected(v)' /\ connections'[u].tokens = connections'[v].tokens => u = v
    BY DEF TokenInv, TokensApart
  <2>3. /\ \A b, c \in Callbacks :
             InHand(b)' /\ InHand(c)' /\ callbacks'[b].tokens = callbacks'[c].tokens => b = c
        /\ \A b \in Callbacks, f \in Fetches :
             InHand(b)' /\ Renewed(f)' => callbacks'[b].tokens # fetches'[f].tokens
        /\ \A f, g \in Fetches :
             Renewed(f)' /\ Renewed(g)' /\ fetches'[f].tokens = fetches'[g].tokens => f = g
    BY <1>2, <1>3 DEF TokenInv, TokensApart
  <2> QED
    BY <1>2, <1>3, <2>1, <2>2, <2>3 DEF TokensApart
<1>5. StoredTokenIsGood'
  <2> SUFFICES ASSUME NEW u \in Users, connections'[u].status = "active",
                      issued'[connections'[u].tokens].spent
               PROVE  \E f \in Fetches : fetches'[f].user = u /\ Excusing(f)'
    BY DEF StoredTokenIsGood, Excusing
  <2>1. PICK f \in Fetches : fetches[f].user = u /\ Excusing(f)
    BY DEF TokenInv, StoredTokenIsGood, Excusing
  <2> QED
    BY <2>1
<1> QED
  BY <1>4, <1>5 DEF TokenInv

\* A fetch that held no tokens before and holds none after.
LEMMA FetchFrame ==
  ASSUME TypeInv, TokenInv, NEW f \in Fetches, NEW next \in FetchState, Fetch(f, next),
         UNCHANGED <<connections, callbacks, issued>>,
         next.pc \notin {"exchanging", "persisting"}, ~Excusing(f)
  PROVE  TokenInv'
<1>1. \A g \in Fetches : fetches'[g] = IF g = f THEN next ELSE fetches[g]
  BY DEF Fetch, TypeInv, FetchesOK
<1>2. \A u \in Users : Connected(u)' <=> Connected(u)
  BY DEF Connected
<1>3. \A b \in Callbacks : InHand(b)' <=> InHand(b)
  BY DEF InHand
<1>4. \A g \in Fetches : g # f => (Excusing(g)' <=> Excusing(g))
  BY <1>1 DEF Excusing
<1> QED
  BY <1>1, <1>2, <1>3, <1>4, TokenFrame

\* The token of a new grant, or of a refresh, is nobody's yet.
LEMMA NewIsFresh ==
  ASSUME TypeInv, Grows, NEW n \in DOMAIN issued' \ DOMAIN issued, ~issued'[n].spent,
         UNCHANGED connections,
         \A f \in Fetches : fetches'[f].pc = "exchanging" =>
           fetches[f].pc = "exchanging" /\ fetches'[f].tokens = fetches[f].tokens
  PROVE  Fresh(n)'
<1>1. \A u \in Users : Connected(u)' => connections'[u].tokens # n
  BY DEF Connected, TypeInv, ConnectionsOK
<1>2. \A f \in Fetches : fetches'[f].pc = "exchanging" => fetches'[f].tokens # n
  BY DEF TypeInv, FetchesOK, FetchOK
<1> QED
  BY <1>1, <1>2 DEF Fresh

\* A callback is issued a pair.
LEMMA ExchangeCodeTokens ==
  ASSUME TypeInv, TokenInv, NEW b \in Callbacks, ExchangeCode(b)
  PROVE  TokenInv'
<1>1. UNCHANGED <<connections, fetches>> /\ callbacks[b].pc = "exchanging"
  BY DEF ExchangeCode
<1>2. PICK c \in CallbackState : c = callbacks[b]
  BY DEF TypeInv, CallbacksOK
<1>3. Len(issued) \in Nat /\ issued \in Seq(Pair) /\ callbacks \in [Callbacks -> CallbackState]
  BY LenProperties DEF TypeInv, CallbacksOK
<1>4. CASE /\ \E a \in Accounts : Issue(a)
           /\ Call(b, [callbacks[b] EXCEPT !.pc = "resolving", !.tokens = Len(issued) + 1])
  <2>1. PICK n \in Nat : n = Len(issued) + 1
    BY <1>3
  <2> DEFINE next == [c EXCEPT !.pc = "resolving", !.tokens = n]
  <2>2. next.pc = "resolving" /\ next.tokens = n /\ Call(b, next)
    BY <1>2, <1>4, <2>1 DEF CallbackState
  <2> HIDE DEF next
  <2>3. \A d \in Callbacks : callbacks'[d] = IF d = b THEN next ELSE callbacks[d]
    BY <1>3, <2>2 DEF Call
  <2>4. PICK a \in Accounts : issued' = Append(issued, [account |-> a, spent |-> FALSE])
    BY <1>4 DEF Issue
  <2>5. /\ Grows /\ n \in DOMAIN issued' \ DOMAIN issued /\ ~issued'[n].spent
        /\ \A m \in DOMAIN issued : issued'[m] = issued[m]
    BY <1>3, <2>1, <2>4, AppendGrows
  <2>6. Fresh(n)'
    BY <1>1, <2>5, NewIsFresh
  <2>7. ASSUME NEW m \in DOMAIN issued, Fresh(m) PROVE Fresh(m)'
    BY <1>1, <2>5, <2>7 DEF Fresh, Connected
  <2>8. \A f \in Fetches : Renewed(f) => fetches[f].tokens \in DOMAIN issued
    BY DEF Renewed, TypeInv, FetchesOK, FetchOK
  <2>9. \A d \in Callbacks : InHand(d) => callbacks[d].tokens \in DOMAIN issued
    BY DEF InHand, TypeInv, CallbacksOK, CallbackOK
  <2>10. \A d \in Callbacks : IF d = b THEN InHand(d)' /\ callbacks'[d].tokens = n
                                       ELSE /\ InHand(d)' <=> InHand(d)
                                            /\ callbacks'[d].tokens = callbacks[d].tokens
    BY <2>2, <2>3 DEF InHand
  <2>11. TokensApart'
    <3>1. ASSUME NEW d \in Callbacks, InHand(d)' PROVE Fresh(callbacks[d].tokens)'
      <4>1. CASE d = b
        BY <2>6, <2>10, <4>1
      <4>2. CASE d # b
        <5>1. InHand(d) /\ callbacks[d].tokens \in DOMAIN issued
          BY <2>9, <2>10, <3>1, <4>2
        <5>2. Fresh(callbacks[d].tokens)'
          <6>1. PICK m \in DOMAIN issued : m = callbacks[d].tokens
            BY <5>1
          <6>2. Fresh(m)'
            BY <2>7, <5>1, <6>1 DEF TokenInv, TokensApart
          <6> QED
            BY <2>10, <4>2, <6>1, <6>2
        <5> QED
          BY <5>2
      <4> QED
        BY <4>1, <4>2
    <3>2. ASSUME NEW f \in Fetches, Renewed(f)' PROVE Fresh(fetches[f].tokens)'
      <4>1. Renewed(f)
        BY <1>1, <3>2 DEF Renewed
      <4>2. PICK m \in DOMAIN issued : m = fetches[f].tokens
        BY <2>8, <4>1
      <4>3. Fresh(m)'
        BY <2>7, <4>1, <4>2 DEF TokenInv, TokensApart
      <4> QED
        BY <1>1, <4>2, <4>3
    <3>3. \A d, e \in Callbacks :
            InHand(d)' /\ InHand(e)' /\ callbacks'[d].tokens = callbacks'[e].tokens => d = e
      BY <2>5, <2>9, <2>10 DEF TokenInv, TokensApart
    <3>4. \A d \in Callbacks, f \in Fetches :
            InHand(d)' /\ Renewed(f)' => callbacks'[d].tokens # fetches'[f].tokens
      BY <1>1, <2>5, <2>8, <2>10 DEF TokenInv, TokensApart, Renewed
    <3>5. /\ \A f, g \in Fetches :
               Renewed(f)' /\ Renewed(g)' /\ fetches'[f].tokens = fetches'[g].tokens => f = g
          /\ \A u, v \in Users :
               Connected(u)' /\ Connected(v)' /\ connections'[u].tokens = connections'[v].tokens
                 => u = v
          /\ \A f \in Fetches, u \in Users :
               /\ fetches'[f].pc = "exchanging" /\ Connected(u)'
               /\ connections'[u].tokens = fetches'[f].tokens
               => u = fetches'[f].user
      BY <1>1 DEF TokenInv, TokensApart, Renewed, Connected
    <3> QED
      BY <3>1, <3>2, <3>3, <3>4, <3>5 DEF TokensApart
  <2>12. StoredTokenIsGood'
    <3> SUFFICES ASSUME NEW u \in Users, connections[u].status = "active",
                        issued'[connections[u].tokens].spent
                 PROVE  \E f \in Fetches : /\ fetches[f].user = u
                                           /\ fetches[f].pc \in {"persisting", "marking", "lost"}
      BY <1>1 DEF StoredTokenIsGood
    <3>1. connections[u].tokens \in DOMAIN issued
      BY DEF TypeInv, ConnectionsOK, Connected
    <3> QED
      BY <2>5, <3>1 DEF TokenInv, StoredTokenIsGood
  <2> QED
    BY <2>11, <2>12 DEF TokenInv
<1>5. CASE Call(b, [callbacks[b] EXCEPT !.pc = "done"]) /\ UNCHANGED issued
  <2> DEFINE next == [c EXCEPT !.pc = "done"]
  <2>1. next.pc = "done" /\ Call(b, next)
    BY <1>2, <1>5 DEF CallbackState
  <2> HIDE DEF next
  <2>2. \A d \in Callbacks : callbacks'[d] = IF d = b THEN next ELSE callbacks[d]
    BY <1>3, <2>1 DEF Call
  <2>3. \A d \in Callbacks : InHand(d)' => InHand(d) /\ callbacks'[d].tokens = callbacks[d].tokens
    BY <2>1, <2>2 DEF InHand
  <2>4. /\ \A u \in Users : Connected(u)' <=> Connected(u)
        /\ \A f \in Fetches : Excusing(f)' <=> Excusing(f)
    BY <1>1 DEF Connected, Excusing
  <2> QED
    BY <1>1, <1>5, <2>3, <2>4, TokenFrame
<1> QED
  BY <1>4, <1>5 DEF ExchangeCode

\* A fetch reads the refresh token of its user's row: no other user's, and nobody's in hand.
LEMMA ReadRefreshTokenTokens ==
  ASSUME TypeInv, TokenInv, NEW f \in Fetches, ReadRefreshToken(f)
  PROVE  TokenInv'
<1>1. /\ fetches[f].pc = "decrypting"
      /\ UNCHANGED <<connections, callbacks, issued>>
  BY ReadRefreshTokenStep
<1>2. PICK next \in FetchState :
        /\ Fetch(f, next) /\ next.pc \in {"exchanging", "marking"}
        /\ next.user = fetches[f].user
        /\ next.pc = "exchanging" => next.tokens = connections[next.user].tokens
  BY ReadRefreshTokenStep
<1>3. \A g \in Fetches : fetches'[g] = IF g = f THEN next ELSE fetches[g]
  BY <1>2 DEF Fetch, TypeInv, FetchesOK
<1>4. CASE next.pc = "marking"
  <2>1. ~Excusing(f)
    BY <1>1 DEF Excusing
  <2> QED
    BY <1>1, <1>2, <1>4, <2>1, FetchFrame
<1>5. CASE next.pc = "exchanging"
  <2>1. next.user \in Users /\ Connected(next.user)
    BY <1>1, <1>2 DEF TypeInv, FetchesOK, FetchOK
  <2>2. \A g \in Fetches : /\ Renewed(g)' <=> Renewed(g)
                           /\ Renewed(g) => fetches'[g].tokens = fetches[g].tokens
                           /\ Excusing(g) => fetches'[g] = fetches[g]
    BY <1>1, <1>3, <1>5 DEF Renewed, Excusing
  <2>3. \A b \in Callbacks : InHand(b)' <=> InHand(b)
    BY <1>1 DEF InHand
  <2>4. ASSUME NEW n, Fresh(n) PROVE Fresh(n)'
    BY <1>1, <1>2, <1>3, <1>5, <2>1, <2>4 DEF Fresh, Connected
  <2>5. TokensApart'
    <3>1. ASSUME NEW b \in Callbacks, InHand(b)' PROVE Fresh(callbacks[b].tokens)'
      <4>1. PICK n : n = callbacks[b].tokens
        OBVIOUS
      <4>2. Fresh(n)'
        BY <2>3, <2>4, <3>1, <4>1 DEF TokenInv, TokensApart
      <4> QED
        BY <1>1, <4>1, <4>2
    <3>2. ASSUME NEW g \in Fetches, Renewed(g)' PROVE Fresh(fetches[g].tokens)'
      <4>1. PICK n : n = fetches[g].tokens
        OBVIOUS
      <4>2. Fresh(n)'
        BY <2>2, <2>4, <3>2, <4>1 DEF TokenInv, TokensApart
      <4> QED
        BY <2>2, <3>2, <4>1, <4>2
    <3>3. /\ \A b, c \in Callbacks :
               InHand(b)' /\ InHand(c)' /\ callbacks'[b].tokens = callbacks'[c].tokens => b = c
          /\ \A b \in Callbacks, g \in Fetches :
               InHand(b)' /\ Renewed(g)' => callbacks'[b].tokens # fetches'[g].tokens
          /\ \A g, h \in Fetches :
               Renewed(g)' /\ Renewed(h)' /\ fetches'[g].tokens = fetches'[h].tokens => g = h
          /\ \A u, v \in Users :
               Connected(u)' /\ Connected(v)' /\ connections'[u].tokens = connections'[v].tokens
                 => u = v
      BY <1>1, <2>2, <2>3 DEF TokenInv, TokensApart, Connected
    <3>4. \A g \in Fetches, u \in Users :
            /\ fetches'[g].pc = "exchanging" /\ Connected(u)'
            /\ connections'[u].tokens = fetches'[g].tokens
            => u = fetches'[g].user
      BY <1>1, <1>2, <1>3, <1>5, <2>1 DEF TokenInv, TokensApart, Connected
    <3> QED
      BY <3>1, <3>2, <3>3, <3>4 DEF TokensApart
  <2>6. StoredTokenIsGood'
    BY <1>1, <2>2 DEF TokenInv, StoredTokenIsGood, Excusing
  <2> QED
    BY <2>5, <2>6 DEF TokenInv
<1> QED
  BY <1>2, <1>4, <1>5

\* The exchange spends the token of no other user, and who did it excuses it.
LEMMA RefreshTokensTokens ==
  ASSUME TypeInv, TokenInv, NEW f \in Fetches, RefreshTokens(f)
  PROVE  TokenInv'
<1>1. /\ fetches[f].pc = "exchanging" /\ fetches[f].tokens \in DOMAIN issued /\ Grows
      /\ \A m \in DOMAIN issued : m # fetches[f].tokens => issued'[m].spent = issued[m].spent
      /\ UNCHANGED <<connections, callbacks>>
  BY RefreshTokensStep
<1>2. PICK next \in FetchState :
        /\ Fetch(f, next) /\ next.user = fetches[f].user
        /\ \/ /\ next.pc = "persisting" /\ next.tokens \in DOMAIN issued' \ DOMAIN issued
              /\ ~issued'[next.tokens].spent
           \/ next.pc = "marking"
  BY RefreshTokensStep
<1>3. \A g \in Fetches : fetches'[g] = IF g = f THEN next ELSE fetches[g]
  BY <1>2 DEF Fetch, TypeInv, FetchesOK
<1>4. \A b \in Callbacks : InHand(b)' <=> InHand(b)
  BY <1>1 DEF InHand
<1>5. \A g \in Fetches \ {f} : (Renewed(g)' <=> Renewed(g)) /\ (Excusing(g)' <=> Excusing(g))
  BY <1>3 DEF Renewed, Excusing
<1>6. ASSUME NEW n \in DOMAIN issued, Fresh(n) PROVE Fresh(n)'
  <2>1. n # fetches[f].tokens
    BY <1>1, <1>6 DEF Fresh
  <2> QED
    BY <1>1, <1>2, <1>3, <1>6, <2>1 DEF Fresh, Connected
<1>7. \A b \in Callbacks : InHand(b) => callbacks[b].tokens \in DOMAIN issued
  BY DEF InHand, TypeInv, CallbacksOK, CallbackOK
<1>8. \A g \in Fetches : Renewed(g) => fetches[g].tokens \in DOMAIN issued
  BY DEF Renewed, TypeInv, FetchesOK, FetchOK
<1>9. Renewed(f)' => /\ next.tokens \in DOMAIN issued' \ DOMAIN issued /\ Fresh(next.tokens)'
  <2> SUFFICES ASSUME Renewed(f)'
               PROVE  next.tokens \in DOMAIN issued' \ DOMAIN issued /\ Fresh(next.tokens)'
    OBVIOUS
  <2>1. next.pc = "persisting"
    BY <1>2, <1>3 DEF Renewed
  <2>2. next.tokens \in DOMAIN issued' \ DOMAIN issued /\ ~issued'[next.tokens].spent
    BY <1>2, <2>1
  <2>3. \A g \in Fetches : fetches'[g].pc = "exchanging" =>
          fetches[g].pc = "exchanging" /\ fetches'[g].tokens = fetches[g].tokens
    BY <1>2, <1>3
  <2> QED
    BY <1>1, <2>2, <2>3, NewIsFresh
<1>10. TokensApart'
  <2>1. ASSUME NEW b \in Callbacks, InHand(b)' PROVE Fresh(callbacks[b].tokens)'
    <3>1. PICK n \in DOMAIN issued : n = callbacks[b].tokens
      BY <1>4, <1>7, <2>1
    <3>2. Fresh(n)'
      BY <1>4, <1>6, <2>1, <3>1 DEF TokenInv, TokensApart
    <3> QED
      BY <1>1, <3>1, <3>2
  <2>2. ASSUME NEW g \in Fetches, Renewed(g)' PROVE Fresh(fetches[g].tokens)'
    <3>1. CASE g = f
      <4>1. fetches'[f].tokens = next.tokens /\ Fresh(next.tokens)'
        BY <1>3, <1>9, <2>2, <3>1
      <4> QED
        BY <3>1, <4>1
    <3>2. CASE g # f
      <4>1. PICK n \in DOMAIN issued : n = fetches[g].tokens
        BY <1>5, <1>8, <2>2, <3>2
      <4>2. Fresh(n)'
        BY <1>5, <1>6, <2>2, <3>2, <4>1 DEF TokenInv, TokensApart
      <4> QED
        BY <1>3, <3>2, <4>1, <4>2
    <3> QED
      BY <3>1, <3>2
  <2>3. \A b, c \in Callbacks :
          InHand(b)' /\ InHand(c)' /\ callbacks'[b].tokens = callbacks'[c].tokens => b = c
    BY <1>1, <1>4 DEF TokenInv, TokensApart
  <2>4. \A b \in Callbacks, g \in Fetches :
          InHand(b)' /\ Renewed(g)' => callbacks'[b].tokens # fetches'[g].tokens
    BY <1>1, <1>3, <1>4, <1>5, <1>7, <1>9 DEF TokenInv, TokensApart
  <2>5. \A g, h \in Fetches :
          Renewed(g)' /\ Renewed(h)' /\ fetches'[g].tokens = fetches'[h].tokens => g = h
    BY <1>3, <1>5, <1>8, <1>9 DEF TokenInv, TokensApart
  <2>6. /\ \A u, v \in Users :
             Connected(u)' /\ Connected(v)' /\ connections'[u].tokens = connections'[v].tokens
               => u = v
        /\ \A g \in Fetches, u \in Users :
             /\ fetches'[g].pc = "exchanging" /\ Connected(u)'
             /\ connections'[u].tokens = fetches'[g].tokens
             => u = fetches'[g].user
    BY <1>1, <1>2, <1>3 DEF TokenInv, TokensApart, Connected
  <2> QED
    BY <2>1, <2>2, <2>3, <2>4, <2>5, <2>6 DEF TokensApart
<1>11. StoredTokenIsGood'
  <2> SUFFICES ASSUME NEW u \in Users, connections[u].status = "active",
                      issued'[connections[u].tokens].spent
               PROVE  \E g \in Fetches : fetches'[g].user = u /\ Excusing(g)'
    BY <1>1 DEF StoredTokenIsGood, Excusing
  <2>1. connections[u].tokens \in DOMAIN issued /\ Connected(u)
    BY DEF TypeInv, ConnectionsOK, Connected
  <2>2. CASE connections[u].tokens = fetches[f].tokens
    <3>1. u = fetches[f].user
      BY <1>1, <2>1, <2>2 DEF TokenInv, TokensApart
    <3>2. fetches'[f].user = u /\ Excusing(f)'
      BY <1>2, <1>3, <3>1 DEF Excusing
    <3> QED
      BY <3>2
  <2>3. CASE connections[u].tokens # fetches[f].tokens
    <3>1. issued[connections[u].tokens].spent
      BY <1>1, <2>1, <2>3
    <3>2. PICK g \in Fetches : fetches[g].user = u /\ Excusing(g)
      BY <3>1 DEF TokenInv, StoredTokenIsGood, Excusing
    <3>3. g # f
      BY <1>1, <3>2 DEF Excusing
    <3> QED
      BY <1>3, <1>5, <3>2, <3>3
  <2> QED
    BY <2>2, <2>3
<1> QED
  BY <1>10, <1>11 DEF TokenInv

\* Tokens in hand are stored: by whoever renewed them, or by the callback that got them.
LEMMA StoreTokens ==
  ASSUME TypeInv, TokenInv, issued' = issued, NEW u \in Users, NEW n, Fresh(n),
         connections'[u].status = "active", connections'[u].tokens = n,
         \A v \in Users \ {u} : connections'[v] = connections[v],
         \A b \in Callbacks : InHand(b)' => /\ InHand(b) /\ callbacks[b].tokens # n
                                            /\ callbacks'[b].tokens = callbacks[b].tokens,
         \A f \in Fetches : Renewed(f)' => /\ Renewed(f) /\ fetches[f].tokens # n
                                           /\ fetches'[f].tokens = fetches[f].tokens,
         \A f \in Fetches : fetches'[f].pc = "exchanging" => fetches'[f] = fetches[f],
         \A f \in Fetches : Excusing(f) /\ fetches[f].user # u =>
                              Excusing(f)' /\ fetches'[f].user = fetches[f].user
  PROVE  TokenInv'
<1>1. ASSUME NEW m, Fresh(m), m # n PROVE Fresh(m)'
  BY <1>1 DEF Fresh, Connected
<1>2. TokensApart'
  <2>1. ASSUME NEW b \in Callbacks, InHand(b)' PROVE Fresh(callbacks[b].tokens)'
    <3>1. PICK m : m = callbacks[b].tokens
      OBVIOUS
    <3>2. Fresh(m)'
      BY <1>1, <2>1, <3>1 DEF TokenInv, TokensApart
    <3> QED
      BY <2>1, <3>1, <3>2
  <2>2. ASSUME NEW f \in Fetches, Renewed(f)' PROVE Fresh(fetches[f].tokens)'
    <3>1. PICK m : m = fetches[f].tokens
      OBVIOUS
    <3>2. Fresh(m)'
      BY <1>1, <2>2, <3>1 DEF TokenInv, TokensApart
    <3> QED
      BY <2>2, <3>1, <3>2
  <2>3. /\ \A b, c \in Callbacks :
             InHand(b)' /\ InHand(c)' /\ callbacks'[b].tokens = callbacks'[c].tokens => b = c
        /\ \A b \in Callbacks, f \in Fetches :
             InHand(b)' /\ Renewed(f)' => callbacks'[b].tokens # fetches'[f].tokens
        /\ \A f, g \in Fetches :
             Renewed(f)' /\ Renewed(g)' /\ fetches'[f].tokens = fetches'[g].tokens => f = g
    BY DEF TokenInv, TokensApart
  <2>4. \A v, w \in Users :
          Connected(v)' /\ Connected(w)' /\ connections'[v].tokens = connections'[w].tokens => v = w
    <3>1. \A v \in Users : v # u /\ Connected(v) => connections[v].tokens # n
      BY DEF Fresh
    <3>2. \A v \in Users : v # u => (Connected(v)' <=> Connected(v))
      BY DEF Connected
    <3> QED
      BY <3>1, <3>2 DEF TokenInv, TokensApart
  <2>5. \A f \in Fetches, v \in Users :
          /\ fetches'[f].pc = "exchanging" /\ Connected(v)'
          /\ connections'[v].tokens = fetches'[f].tokens
          => v = fetches'[f].user
    <3>1. \A f \in Fetches : fetches'[f].pc = "exchanging" => fetches'[f].tokens # n
      BY DEF Fresh
    <3>2. \A v \in Users : v # u => (Connected(v)' <=> Connected(v))
      BY DEF Connected
    <3> QED
      BY <3>1, <3>2 DEF TokenInv, TokensApart
  <2> QED
    BY <2>1, <2>2, <2>3, <2>4, <2>5 DEF TokensApart
<1>3. StoredTokenIsGood'
  <2> SUFFICES ASSUME NEW v \in Users, connections'[v].status = "active",
                      issued[connections'[v].tokens].spent
               PROVE  \E f \in Fetches : fetches'[f].user = v /\ Excusing(f)'
    BY DEF StoredTokenIsGood, Excusing
  <2>1. v # u
    BY DEF Fresh
  <2>2. PICK f \in Fetches : fetches[f].user = v /\ Excusing(f)
    BY <2>1 DEF TokenInv, StoredTokenIsGood, Excusing
  <2> QED
    BY <2>1, <2>2
<1> QED
  BY <1>2, <1>3 DEF TokenInv

LEMMA PersistTokensTokens ==
  ASSUME TypeInv, TokenInv, NEW f \in Fetches, PersistTokens(f)
  PROVE  TokenInv'
<1>0. PICK n : n = fetches[f].tokens
  OBVIOUS
<1>1. PICK u \in Users : u = fetches[f].user /\ n = fetches[f].tokens
  BY <1>0, PersistTokensStep
<1>2. /\ Renewed(f) /\ UNCHANGED <<callbacks, issued>>
      /\ connections'[u].status = "active" /\ connections'[u].tokens = n
      /\ \A v \in Users \ {u} : connections'[v] = connections[v]
  BY <1>1, PersistTokensStep DEF Renewed
<1>3. PICK next \in FetchState : Fetch(f, next) /\ next.pc = "using"
  BY PersistTokensStep
<1>4. \A g \in Fetches : fetches'[g] = IF g = f THEN next ELSE fetches[g]
  BY <1>3 DEF Fetch, TypeInv, FetchesOK
<1>5. Fresh(n)
  BY <1>1, <1>2 DEF TokenInv, TokensApart
<1>6. \A b \in Callbacks : InHand(b)' => /\ InHand(b) /\ callbacks[b].tokens # n
                                         /\ callbacks'[b].tokens = callbacks[b].tokens
  BY <1>1, <1>2 DEF TokenInv, TokensApart, InHand
<1>7. \A g \in Fetches : Renewed(g)' => /\ Renewed(g) /\ fetches[g].tokens # n
                                        /\ fetches'[g].tokens = fetches[g].tokens
  <2>1. ASSUME NEW g \in Fetches, Renewed(g)' PROVE g # f /\ Renewed(g) /\ fetches'[g] = fetches[g]
    BY <1>3, <1>4, <2>1 DEF Renewed
  <2> QED
    BY <1>1, <1>2, <2>1 DEF TokenInv, TokensApart
<1>8. /\ \A g \in Fetches : fetches'[g].pc = "exchanging" => fetches'[g] = fetches[g]
      /\ \A g \in Fetches : Excusing(g) /\ fetches[g].user # u =>
                              Excusing(g)' /\ fetches'[g].user = fetches[g].user
  BY <1>1, <1>3, <1>4 DEF Excusing
<1> QED
  BY <1>2, <1>5, <1>6, <1>7, <1>8, StoreTokens

LEMMA SaveConnectionTokens ==
  ASSUME TypeInv, TokenInv, NEW b \in Callbacks, SaveConnection(b)
  PROVE  TokenInv'
<1>0. PICK n : n = callbacks[b].tokens
  OBVIOUS
<1>1. PICK u \in Users : u = callbacks[b].user /\ n = callbacks[b].tokens
  BY <1>0, SaveConnectionStep
<1>2. /\ UNCHANGED <<fetches, issued>>
      /\ connections'[u].status = "active" /\ connections'[u].tokens = n
      /\ \A v \in Users \ {u} : connections'[v] = connections[v]
  BY <1>1, SaveConnectionStep
<1>3. PICK c \in CallbackState : c = callbacks[b] /\ InHand(b)
  BY DEF SaveConnection, TypeInv, CallbacksOK, InHand
<1> DEFINE next == [c EXCEPT !.pc = "done"]
<1>4. next.pc = "done" /\ Call(b, next)
  BY <1>3 DEF SaveConnection, CallbackState
<1> HIDE DEF next
<1>5. \A d \in Callbacks : callbacks'[d] = IF d = b THEN next ELSE callbacks[d]
  BY <1>4 DEF Call, TypeInv, CallbacksOK
<1>6. Fresh(n)
  BY <1>1, <1>3 DEF TokenInv, TokensApart
<1>7. \A d \in Callbacks : InHand(d)' => /\ InHand(d) /\ callbacks[d].tokens # n
                                         /\ callbacks'[d].tokens = callbacks[d].tokens
  <2>1. ASSUME NEW d \in Callbacks, InHand(d)'
        PROVE  d # b /\ InHand(d) /\ callbacks'[d] = callbacks[d]
    BY <1>4, <1>5, <2>1 DEF InHand
  <2> QED
    BY <1>1, <1>3, <2>1 DEF TokenInv, TokensApart
<1>8. \A f \in Fetches : Renewed(f)' => /\ Renewed(f) /\ fetches[f].tokens # n
                                        /\ fetches'[f].tokens = fetches[f].tokens
  BY <1>1, <1>2, <1>3 DEF TokenInv, TokensApart, Renewed
<1>9. /\ \A f \in Fetches : fetches'[f].pc = "exchanging" => fetches'[f] = fetches[f]
      /\ \A f \in Fetches : Excusing(f) /\ fetches[f].user # u =>
                              Excusing(f)' /\ fetches'[f].user = fetches[f].user
  BY <1>2 DEF Excusing
<1> QED
  BY <1>2, <1>6, <1>7, <1>8, <1>9, StoreTokens

\* The rest moves no tokens.
LEMMA CallbackStepTokens ==
  ASSUME TypeInv, TokenInv, NEW b \in Callbacks, CallbackStep(b)
  PROVE  TokenInv'
<1>1. ASSUME NEW next, Call(b, next), UNCHANGED <<connections, fetches, issued>>,
             next.pc \in {"resolving", "saving"} => InHand(b) /\ next.tokens = callbacks[b].tokens
      PROVE  TokenInv'
  <2>1. \A d \in Callbacks : callbacks'[d] = IF d = b THEN next ELSE callbacks[d]
    BY <1>1 DEF Call, TypeInv, CallbacksOK
  <2>2. \A d \in Callbacks : InHand(d)' => InHand(d) /\ callbacks'[d].tokens = callbacks[d].tokens
    BY <1>1, <2>1 DEF InHand
  <2>3. /\ \A u \in Users : Connected(u)' <=> Connected(u)
        /\ \A f \in Fetches : Excusing(f)' <=> Excusing(f)
    BY <1>1 DEF Connected, Excusing
  <2> QED
    BY <1>1, <2>2, <2>3, TokenFrame
<1>2. ASSUME NEW l \in Links, ConsumeLink(b, l) PROVE TokenInv'
  <2>1. PICK next \in CallbackState : Call(b, next) /\ next.pc \in {"exchanging", "done"}
    BY <1>2, ConsumeLinkStep
  <2>2. UNCHANGED <<connections, fetches, issued>>
    BY <1>2, ConsumeLinkStep
  <2> QED
    BY <1>1, <2>1, <2>2
<1>3. CASE ResolveIdentity(b)
  <2>1. PICK c \in CallbackState : c = callbacks[b] /\ InHand(b)
    BY <1>3 DEF ResolveIdentity, TypeInv, CallbacksOK, InHand
  <2>2. PICK pc \in {"saving", "done"} : Call(b, [c EXCEPT !.pc = pc])
    BY <1>3, <2>1 DEF ResolveIdentity
  <2> DEFINE next == [c EXCEPT !.pc = pc]
  <2>3. Call(b, next) /\ next.tokens = c.tokens
    BY <2>2 DEF CallbackState
  <2>4. UNCHANGED <<connections, fetches, issued>>
    BY <1>3 DEF ResolveIdentity, chaster
  <2> HIDE DEF next
  <2> QED
    BY <1>1, <2>1, <2>3, <2>4
<1> QED
  BY <1>2, <1>3, ExchangeCodeTokens, SaveConnectionTokens DEF CallbackStep

LEMMA FetchStepTokens ==
  ASSUME TypeInv, TokenInv, NEW f \in Fetches, FetchStep(f)
  PROVE  TokenInv'
<1>1. ASSUME NEW u \in Users, BeginFetch(f, u) PROVE TokenInv'
  <2>1. PICK next \in FetchState : Fetch(f, next) /\ next.pc \in {"done", "decrypting", "using"}
    BY <1>1, BeginFetchStep
  <2>2. UNCHANGED <<connections, callbacks, issued>> /\ ~Excusing(f)
    BY <1>1, BeginFetchStep DEF Excusing
  <2> QED
    BY <2>1, <2>2, FetchFrame
<1>2. CASE MarkConnection(f)
  <2>1. PICK u \in Users : u = fetches[f].user
    BY <1>2, MarkConnectionStep
  <2>2. PICK next \in FetchState : Fetch(f, next) /\ next.pc = "done"
    BY <1>2, MarkConnectionStep
  <2>3. \A g \in Fetches : fetches'[g] = IF g = f THEN next ELSE fetches[g]
    BY <2>2 DEF Fetch, TypeInv, FetchesOK
  <2>4. /\ UNCHANGED <<callbacks, issued>> /\ Connected(u)
        /\ connections'[u].status = "needs_reauthorization"
        /\ connections'[u].tokens = connections[u].tokens
        /\ \A v \in Users \ {u} : connections'[v] = connections[v]
    BY <1>2, <2>1, MarkConnectionStep DEF TypeInv, FetchesOK, FetchOK
  <2>5. \A v \in Users : /\ connections'[v].tokens = connections[v].tokens
                         /\ Connected(v)' <=> Connected(v)
                         /\ connections'[v].status = "active" => connections[v].status = "active"
    BY <2>4 DEF Connected
  <2>6. \A b \in Callbacks : InHand(b)' => InHand(b) /\ callbacks'[b].tokens = callbacks[b].tokens
    BY <2>4 DEF InHand
  <2>7. \A g \in Fetches :
          /\ fetches'[g].pc \in {"exchanging", "persisting"} => fetches'[g] = fetches[g]
          /\ Excusing(g) /\ connections'[fetches[g].user].status = "active" =>
               Excusing(g)' /\ fetches'[g].user = fetches[g].user
    BY <2>1, <2>2, <2>3, <2>4 DEF Excusing
  <2> QED
    BY <2>4, <2>5, <2>6, <2>7, TokenFrame
<1>3. CASE ReadAccessToken(f)
  <2>1. PICK next \in FetchState : Fetch(f, next) /\ next.pc \in {"listing", "marking"}
    BY <1>3, ReadAccessTokenStep
  <2>2. UNCHANGED <<connections, callbacks, issued>> /\ ~Excusing(f)
    BY <1>3, ReadAccessTokenStep DEF Excusing
  <2> QED
    BY <2>1, <2>2, FetchFrame
<1>4. CASE ListLocks(f)
  <2>1. PICK next \in FetchState : Fetch(f, next) /\ next.pc \in {"recording", "done"}
    BY <1>4, ListLocksStep
  <2>2. UNCHANGED <<connections, callbacks, issued>> /\ ~Excusing(f)
    BY <1>4, ListLocksStep DEF Excusing
  <2> QED
    BY <2>1, <2>2, FetchFrame
<1>5. CASE RecordObservation(f)
  <2>1. PICK next \in FetchState : Fetch(f, next) /\ next.pc = "done"
    BY <1>5, RecordObservationStep
  <2>2. UNCHANGED <<connections, callbacks, issued>> /\ ~Excusing(f)
    BY <1>5, RecordObservationStep DEF Excusing
  <2> QED
    BY <2>1, <2>2, FetchFrame
<1> QED
  BY <1>1, <1>2, <1>3, <1>4, <1>5, ReadRefreshTokenTokens, RefreshTokensTokens,
     PersistTokensTokens DEF FetchStep

LEMMA StepTokens == TypeInv /\ Stories /\ TokenInv /\ [Next]_vars => TokenInv'
<1> SUFFICES ASSUME TypeInv, Stories, TokenInv, [Next]_vars PROVE TokenInv'
  OBVIOUS
<1>1. ASSUME UNCHANGED <<connections, callbacks, fetches, issued>> PROVE TokenInv'
  <2>1. /\ \A u \in Users : Connected(u)' <=> Connected(u)
        /\ \A b \in Callbacks : InHand(b)' <=> InHand(b)
        /\ \A f \in Fetches : Excusing(f)' <=> Excusing(f)
    BY <1>1 DEF Connected, InHand, Excusing
  <2> QED
    BY <1>1, <2>1, TokenFrame
<1>2. CASE UNCHANGED vars
  BY <1>1, <1>2 DEF vars, connectionVars, held, chaster
<1>3. ASSUME NEW l \in Links, (\E u \in Users : AskForLink(l, u)) \/ CreateLink(l)
      PROVE  TokenInv'
  BY <1>1, <1>3 DEF AskForLink, CreateLink, chaster
<1>4. ASSUME NEW b \in Callbacks, CallbackStep(b) PROVE TokenInv'
  BY <1>4, CallbackStepTokens
<1>5. ASSUME NEW f \in Fetches, FetchStep(f) PROVE TokenInv'
  BY <1>5, FetchStepTokens
<1>6. CASE Tick
  BY <1>1, <1>6 DEF Tick, held, chaster
<1>7. CASE Dropping
  <2>0. PICK B, F, L : Drop(B, F, L)
    BY <1>7, DroppingDrops
  <2>1. UNCHANGED <<connections, issued>>
    BY <2>0, DropStep
  <2>2. \A u \in Users : Connected(u)' <=> Connected(u)
    BY <2>1 DEF Connected
  <2>3. \A b \in Callbacks : InHand(b)' => InHand(b) /\ callbacks'[b].tokens = callbacks[b].tokens
    BY <2>0, DropStep DEF InHand
  <2>4. \A f \in Fetches :
          \/ fetches'[f] = fetches[f]
          \/ fetches'[f].pc = "lost" /\ fetches'[f].user = fetches[f].user
    BY <2>0, DropStep
  <2>5. \A f \in Fetches :
          /\ fetches'[f].pc \in {"exchanging", "persisting"} => fetches'[f] = fetches[f]
          /\ Excusing(f) => Excusing(f)' /\ fetches'[f].user = fetches[f].user
    BY <2>4 DEF Excusing
  <2> QED
    BY <2>1, <2>2, <2>3, <2>5, TokenFrame
<1>8. ASSUME NEW q \in Requests, GiveUp(q) PROVE TokenInv'
  <2>1. PICK u \in Users : u = requests[q].user
    BY <1>8, GiveUpKeeps
  <2>2. /\ UNCHANGED <<callbacks, fetches, issued>>
        /\ connections'[u].status = "needs_reauthorization"
        /\ connections'[u].tokens = connections[u].tokens
        /\ \A v \in Users \ {u} : connections'[v] = connections[v]
    BY <1>8, <2>1, GiveUpKeeps
  <2>3. Connected(u)
    BY <1>8, <2>1 DEF GiveUp, TypeInv, RequestsOK, RequestOK
  <2>4. \A v \in Users : /\ connections'[v].tokens = connections[v].tokens
                         /\ Connected(v)' <=> Connected(v)
                         /\ connections'[v].status = "active" => connections[v].status = "active"
    BY <2>2, <2>3 DEF Connected
  <2>5. /\ \A b \in Callbacks : InHand(b)' <=> InHand(b)
        /\ \A f \in Fetches : Excusing(f)' <=> Excusing(f)
    BY <2>2 DEF InHand, Excusing
  <2> QED
    BY <2>2, <2>4, <2>5, TokenFrame
<1>9. ASSUME NEW q \in Requests, PostUnlock(q) PROVE TokenInv'
  <2>1. UNCHANGED <<connections, callbacks, issued>>
    BY <1>9, PostUnlockStep
  <2>2. \A f \in Fetches : /\ fetches'[f].pc = fetches[f].pc /\ fetches'[f].user = fetches[f].user
                           /\ fetches'[f].tokens = fetches[f].tokens
    BY <1>9, PostUnlockStep
  <2>3. /\ \A u \in Users : Connected(u)' <=> Connected(u)
        /\ \A b \in Callbacks : InHand(b)' <=> InHand(b)
        /\ \A f \in Fetches : Excusing(f)' <=> Excusing(f)
    BY <2>1, <2>2 DEF Connected, InHand, Excusing
  <2> QED
    BY <2>1, <2>2, <2>3, TokenFrame
<1>10. ASSUME NEW q \in Requests, RequestStep(q), ~GiveUp(q), ~PostUnlock(q) PROVE TokenInv'
  BY <1>1, <1>10 DEF RequestStep, RefuseSecret, AcceptSecret, LookUpConnection, ReportUnconnected,
     DecryptToken, Announce, FindLock, ReportOutcome, Break, connectionVars, held, chaster
<1> QED
  BY <1>2, <1>3, <1>4, <1>5, <1>6, <1>7, <1>8, <1>9, <1>10 DEF Next, ConnectionNext, Dropping

\* A refresh token is good for one exchange: whatever fetches and callbacks overlap, and
\* wherever one of them fails or is stopped, a row that is active holds one that is unspent,
\* unless whoever spent it is still on its way, or was stopped or failed on it.
THEOREM StoredTokenAlways == Spec => []StoredTokenIsGood
<1>1. Init => TokenInv
  <2> SUFFICES ASSUME Init PROVE TokenInv
    OBVIOUS
  <2>1. /\ \A b \in Callbacks : ~InHand(b)
        /\ \A f \in Fetches : fetches[f].pc = "idle"
        /\ \A u \in Users : connections[u].status = "none"
    BY DEF Init, ConnectionInit, InHand, NotCalled, NotFetched, NoConnection
  <2> QED
    BY <2>1 DEF TokenInv, TokensApart, StoredTokenIsGood, Renewed, Connected
<1>2. TokenInv => StoredTokenIsGood
  BY DEF TokenInv
<1> QED
  BY <1>1, <1>2, InitTyped, StepTyped, StepTokens, PTL DEF Spec

----------------------------------------------------------------------------
(* What an observation says *)

Going(f) == fetches[f].pc \notin {"idle", "done", "lost"}

\* Chaster has said this of the account whose tokens the fetch used, while it ran.
Answered(x, status) ==
  /\ x.tokens \in DOMAIN issued
  /\ \E s \in DOMAIN Readings : /\ Readings[s] = status
                                /\ <<issued[x.tokens].account, s>> \in x.seen

\* So it has of the fetch whose observation this is, which is done.
Recorded(o) ==
  o.fetch \in Fetches /\ fetches[o.fetch].pc = "done" /\ Answered(fetches[o.fetch], o.status)

\* How locks are now is among what a fetch may be told; what it was told it keeps, and what
\* it has recorded stays what it was told.
ObservationInv ==
  /\ \A f \in Fetches : Going(f) => Holdings \subseteq fetches[f].seen
  /\ \A f \in Fetches : fetches[f].pc = "recording" => Answered(fetches[f], fetches[f].answer)
  /\ \A i \in DOMAIN observations : Recorded(observations[i])

LEMMA AnsweredStays ==
  ASSUME Grows, NEW x, NEW y, NEW status, y.tokens = x.tokens, x.seen \subseteq y.seen,
         Answered(x, status)
  PROVE  Answered(y, status)'
BY DEF Grows, Answered, Readings, Statuses

\* A step that records nothing: no fetch forgets what it was told.
LEMMA ObservationFrame ==
  ASSUME ObservationInv, Grows, UNCHANGED observations,
         \A f \in Fetches : Going(f)' => Holdings' \subseteq fetches'[f].seen,
         \A f \in Fetches : fetches'[f].pc = "recording" =>
           \/ Answered(fetches[f], fetches[f].answer)'
           \/ /\ fetches[f].pc = "recording" /\ fetches'[f].tokens = fetches[f].tokens
              /\ fetches'[f].answer = fetches[f].answer /\ fetches[f].seen \subseteq fetches'[f].seen,
         \A f \in Fetches : fetches[f].pc = "done" =>
           /\ fetches'[f].pc = "done" /\ fetches'[f].tokens = fetches[f].tokens
           /\ fetches[f].seen \subseteq fetches'[f].seen
  PROVE  ObservationInv'
<1>1. ASSUME NEW f \in Fetches, fetches'[f].pc = "recording"
      PROVE  Answered(fetches[f], fetches[f].answer)'
  <2>1. CASE Answered(fetches[f], fetches[f].answer)'
    BY <2>1
  <2>2. CASE /\ fetches[f].pc = "recording" /\ fetches'[f].tokens = fetches[f].tokens
             /\ fetches'[f].answer = fetches[f].answer /\ fetches[f].seen \subseteq fetches'[f].seen
    <3>1. PICK x, y, status : x = fetches[f] /\ y = fetches'[f] /\ status = fetches[f].answer
      OBVIOUS
    <3>2. Answered(x, status)
      BY <2>2, <3>1 DEF ObservationInv
    <3>3. Answered(y, status)'
      BY <2>2, <3>1, <3>2, AnsweredStays
    <3> QED
      BY <2>2, <3>1, <3>3
  <2> QED
    BY <1>1, <2>1, <2>2
<1>2. ASSUME NEW i \in DOMAIN observations PROVE Recorded(observations[i])'
  <2>1. PICK f, status : f = observations[i].fetch /\ status = observations[i].status
    OBVIOUS
  <2>2. f \in Fetches /\ fetches[f].pc = "done" /\ Answered(fetches[f], status)
    BY <2>1 DEF ObservationInv, Recorded
  <2>3. PICK x, y : x = fetches[f] /\ y = fetches'[f]
    OBVIOUS
  <2>4. Answered(x, status) /\ y.tokens = x.tokens /\ x.seen \subseteq y.seen
    BY <2>2, <2>3
  <2>5. Answered(y, status)'
    BY <2>4, AnsweredStays
  <2> QED
    BY <2>1, <2>2, <2>3, <2>5 DEF Recorded
<1> QED
  BY <1>1, <1>2 DEF ObservationInv

\* One fetch goes on.
LEMMA FetchObserves ==
  ASSUME TypeInv, ObservationInv, Grows, NEW f \in Fetches, NEW next, Fetch(f, next),
         UNCHANGED <<observations, locks>>, fetches[f].pc # "done",
         next.seen = Holdings \/ (Going(f) /\ next.seen = fetches[f].seen),
         next.pc = "recording" => Answered(next, next.answer)'
  PROVE  ObservationInv'
<1>1. \A g \in Fetches : fetches'[g] = IF g = f THEN next ELSE fetches[g]
  BY DEF Fetch, TypeInv, FetchesOK
<1>2. Holdings' = Holdings
  BY DEF Holdings
<1>3. \A g \in Fetches : Going(g)' => Holdings' \subseteq fetches'[g].seen
  BY <1>1, <1>2 DEF ObservationInv, Going
<1>4. \A g \in Fetches : fetches'[g].pc = "recording" =>
           \/ Answered(fetches[g], fetches[g].answer)'
           \/ /\ fetches[g].pc = "recording" /\ fetches'[g].tokens = fetches[g].tokens
              /\ fetches'[g].answer = fetches[g].answer /\ fetches[g].seen \subseteq fetches'[g].seen
  <2>1. ASSUME NEW g \in Fetches, fetches'[g].pc = "recording", g = f
        PROVE  Answered(fetches[g], fetches[g].answer)'
    BY <1>1, <2>1
  <2>2. ASSUME NEW g \in Fetches, fetches'[g].pc = "recording", g # f
        PROVE  fetches'[g] = fetches[g]
    BY <1>1, <2>2
  <2> QED
    BY <2>1, <2>2
<1>5. \A g \in Fetches : fetches[g].pc = "done" => fetches'[g] = fetches[g]
  BY <1>1
<1> QED
  BY <1>3, <1>4, <1>5, ObservationFrame

LEMMA FetchStepObserves ==
  ASSUME TypeInv, ObservationInv, NEW f \in Fetches, FetchStep(f)
  PROVE  ObservationInv'
<1>0. issued' = issued => Grows
  BY SameIssuedGrows DEF TypeInv
<1>1. ASSUME NEW u \in Users, BeginFetch(f, u) PROVE ObservationInv'
  <2>1. PICK next \in FetchState : /\ Fetch(f, next) /\ next.pc \in {"done", "decrypting", "using"}
                                   /\ next.seen = Holdings
    BY <1>1, BeginFetchStep
  <2>2. UNCHANGED <<observations, issued, locks>> /\ fetches[f].pc = "idle"
    BY <1>1, BeginFetchStep
  <2> QED
    BY <1>0, <2>1, <2>2, FetchObserves
<1>2. CASE ReadRefreshToken(f)
  <2>1. PICK next \in FetchState : /\ Fetch(f, next) /\ next.pc \in {"exchanging", "marking"}
                                   /\ next.seen = fetches[f].seen
    BY <1>2, ReadRefreshTokenStep
  <2>2. UNCHANGED <<observations, issued, locks>> /\ fetches[f].pc = "decrypting"
    BY <1>2, ReadRefreshTokenStep
  <2> QED
    BY <1>0, <2>1, <2>2, FetchObserves DEF Going
<1>3. CASE RefreshTokens(f)
  <2>1. PICK next \in FetchState : /\ Fetch(f, next) /\ next.pc \in {"persisting", "marking"}
                                   /\ next.seen = fetches[f].seen
    BY <1>3, RefreshTokensStep
  <2>2. UNCHANGED <<observations, locks>> /\ Grows /\ fetches[f].pc = "exchanging"
    BY <1>3, RefreshTokensStep
  <2> QED
    BY <2>1, <2>2, FetchObserves DEF Going
<1>4. CASE PersistTokens(f)
  <2>1. PICK next \in FetchState : /\ Fetch(f, next) /\ next.pc = "using"
                                   /\ next.seen = fetches[f].seen
    BY <1>4, PersistTokensStep
  <2>2. UNCHANGED <<observations, issued, locks>> /\ fetches[f].pc = "persisting"
    BY <1>4, PersistTokensStep
  <2> QED
    BY <1>0, <2>1, <2>2, FetchObserves DEF Going
<1>5. CASE MarkConnection(f)
  <2>1. PICK next \in FetchState : /\ Fetch(f, next) /\ next.pc = "done"
                                   /\ next.seen = fetches[f].seen
    BY <1>5, MarkConnectionStep
  <2>2. UNCHANGED <<observations, issued, locks>> /\ fetches[f].pc = "marking"
    BY <1>5, MarkConnectionStep
  <2> QED
    BY <1>0, <2>1, <2>2, FetchObserves DEF Going
<1>6. CASE ReadAccessToken(f)
  <2>1. PICK next \in FetchState : /\ Fetch(f, next) /\ next.pc \in {"listing", "marking"}
                                   /\ next.seen = fetches[f].seen
    BY <1>6, ReadAccessTokenStep
  <2>2. UNCHANGED <<observations, issued, locks>> /\ fetches[f].pc = "using"
    BY <1>6, ReadAccessTokenStep
  <2> QED
    BY <1>0, <2>1, <2>2, FetchObserves DEF Going
<1>7. CASE ListLocks(f)
  <2>1. PICK next \in FetchState :
          /\ Fetch(f, next) /\ next.seen = fetches[f].seen /\ next.tokens = fetches[f].tokens
          /\ next.pc = "recording" =>
               \E s \in DOMAIN Readings : /\ s = locks[issued[next.tokens].account]
                                          /\ next.answer = Readings[s]
    BY <1>7, ListLocksStep
  <2>2. /\ UNCHANGED <<observations, issued, locks>>
        /\ fetches[f].pc = "listing" /\ fetches[f].tokens \in DOMAIN issued
    BY <1>7, ListLocksStep
  <2>3. PICK a \in Accounts : a = issued[next.tokens].account
    <3>1. PICK n \in DOMAIN issued : n = next.tokens
      BY <2>1, <2>2
    <3>2. issued[n] \in Pair
      BY ElementOfSeq, LenProperties DEF TypeInv
    <3> QED
      BY <3>1, <3>2 DEF Pair
  <2>4. Holdings \subseteq next.seen
    BY <2>1, <2>2 DEF ObservationInv, Going
  <2>5. <<a, locks[a]>> \in next.seen
    BY <2>4 DEF Holdings
  <2>6. next.pc = "recording" => Answered(next, next.answer)
    BY <2>1, <2>2, <2>3, <2>5 DEF Answered
  <2>7. next.pc = "recording" => Answered(next, next.answer)'
    BY <1>0, <2>2, <2>6, AnsweredStays
  <2> QED
    BY <1>0, <2>1, <2>2, <2>7, FetchObserves DEF Going
<1>8. CASE RecordObservation(f)
  <2>1. PICK next \in FetchState :
          /\ Fetch(f, next) /\ next.pc = "done" /\ next.seen = fetches[f].seen
          /\ next.tokens = fetches[f].tokens
    BY <1>8, RecordObservationStep
  <2>2. PICK o \in Observation : /\ observations' = Append(observations, o)
                                 /\ o.fetch = f /\ o.status = fetches[f].answer
    BY <1>8, RecordObservationStep
  <2>3. UNCHANGED <<issued, locks>> /\ fetches[f].pc = "recording"
    BY <1>8, RecordObservationStep
  <2>4. \A g \in Fetches : fetches'[g] = IF g = f THEN next ELSE fetches[g]
    BY <2>1 DEF Fetch, TypeInv, FetchesOK
  <2>5. Holdings' = Holdings
    BY <2>3 DEF Holdings
  <2>6. \A g \in Fetches : Going(g)' => Holdings' \subseteq fetches'[g].seen
    BY <2>1, <2>4, <2>5 DEF ObservationInv, Going
  <2>7. ASSUME NEW x, NEW status, Answered(x, status) PROVE Answered(x, status)'
    BY <1>0, <2>3, <2>7, AnsweredStays
  <2>8. ASSUME NEW g \in Fetches, fetches'[g].pc = "recording"
        PROVE  Answered(fetches[g], fetches[g].answer)'
    <3>1. g # f /\ fetches'[g] = fetches[g]
      BY <2>1, <2>4, <2>8
    <3>2. PICK x, status : x = fetches[g] /\ status = fetches[g].answer
      OBVIOUS
    <3>3. Answered(x, status)
      BY <2>8, <3>1, <3>2 DEF ObservationInv
    <3> QED
      BY <2>7, <3>1, <3>2, <3>3
  <2>9. ASSUME NEW i \in DOMAIN observations'
        PROVE  Recorded(observations[i])'
    <3>1. observations \in Seq(Observation)
      BY DEF TypeInv, RestOK
    <3>2. \/ i = Len(observations) + 1 /\ observations'[i] = o
          \/ i \in DOMAIN observations /\ observations'[i] = observations[i]
      BY <2>2, <2>9, <3>1, AppendProperties, LenProperties
    <3>3. CASE i = Len(observations) + 1 /\ observations'[i] = o
      <4>1. Answered(fetches[f], fetches[f].answer)
        BY <2>3 DEF ObservationInv
      <4>2. PICK x, status : x = fetches[f] /\ status = fetches[f].answer
        OBVIOUS
      <4>3. Answered(next, status)'
        BY <1>0, <2>1, <2>3, <4>1, <4>2, AnsweredStays
      <4>4. observations'[i].fetch = f /\ observations'[i].status = status /\ fetches'[f] = next
        BY <2>2, <2>4, <3>3, <4>2
      <4> QED
        BY <2>1, <4>3, <4>4 DEF Recorded
    <3>4. CASE i \in DOMAIN observations /\ observations'[i] = observations[i]
      <4>1. PICK g, status : g = observations[i].fetch /\ status = observations[i].status
        OBVIOUS
      <4>2. g \in Fetches /\ fetches[g].pc = "done" /\ Answered(fetches[g], status)
        BY <3>4, <4>1 DEF ObservationInv, Recorded
      <4>3. fetches'[g] = fetches[g]
        BY <2>3, <2>4, <4>2
      <4>4. PICK x : x = fetches[g]
        OBVIOUS
      <4>5. Answered(x, status)'
        BY <2>7, <4>2, <4>4
      <4> QED
        BY <3>4, <4>1, <4>2, <4>3, <4>4, <4>5 DEF Recorded
    <3> QED
      BY <3>2, <3>3, <3>4
  <2> QED
    BY <2>6, <2>8, <2>9 DEF ObservationInv
<1> QED
  BY <1>1, <1>2, <1>3, <1>4, <1>5, <1>6, <1>7, <1>8 DEF FetchStep

LEMMA StepObserves == TypeInv /\ Stories /\ ObservationInv /\ [Next]_vars => ObservationInv'
<1> SUFFICES ASSUME TypeInv, Stories, ObservationInv, [Next]_vars PROVE ObservationInv'
  OBVIOUS
<1>0. issued' = issued => Grows
  BY SameIssuedGrows DEF TypeInv
<1>1. ASSUME UNCHANGED <<fetches, observations, locks>>, Grows PROVE ObservationInv'
  <2>1. Holdings' = Holdings
    BY <1>1 DEF Holdings
  <2>2. \A f \in Fetches : Going(f)' => Holdings' \subseteq fetches'[f].seen
    BY <1>1, <2>1 DEF ObservationInv, Going
  <2> QED
    BY <1>1, <2>2, ObservationFrame
<1>2. CASE UNCHANGED vars
  BY <1>0, <1>1, <1>2 DEF vars, connectionVars, held, chaster
<1>3. ASSUME NEW l \in Links, (\E u \in Users : AskForLink(l, u)) \/ CreateLink(l)
      PROVE  ObservationInv'
  BY <1>0, <1>1, <1>3 DEF AskForLink, CreateLink, chaster
<1>4. ASSUME NEW b \in Callbacks, ExchangeCode(b) PROVE ObservationInv'
  <2>1. CASE issued' = issued
    BY <1>0, <1>1, <1>4, <2>1 DEF ExchangeCode
  <2>2. CASE \E a \in Accounts : Issue(a)
    <3>1. PICK a \in Accounts : issued' = Append(issued, [account |-> a, spent |-> FALSE])
      BY <2>2 DEF Issue
    <3>2. Grows
      BY <3>1, AppendGrows DEF TypeInv
    <3> QED
      BY <1>1, <1>4, <3>2 DEF ExchangeCode
  <2> QED
    BY <1>4, <2>1, <2>2 DEF ExchangeCode
<1>5. ASSUME NEW b \in Callbacks, CallbackStep(b), ~ExchangeCode(b) PROVE ObservationInv'
  BY <1>0, <1>1, <1>5 DEF CallbackStep, ConsumeLink, ResolveIdentity, SaveConnection, chaster
<1>6. ASSUME NEW f \in Fetches, FetchStep(f) PROVE ObservationInv'
  BY <1>6, FetchStepObserves
<1>7. CASE Tick
  BY <1>0, <1>1, <1>7 DEF Tick, held, chaster
<1>8. CASE Dropping
  <2>0. PICK B, F, L : Drop(B, F, L)
    BY <1>8, DroppingDrops
  <2>1. UNCHANGED <<observations, issued, locks>>
    BY <2>0, DropStep
  <2>2. \A f \in Fetches :
          \/ fetches'[f] = fetches[f]
          \/ fetches'[f].pc = "lost" /\ fetches[f].pc \notin {"idle", "done"}
    BY <2>0, DropStep
  <2>3. Holdings' = Holdings
    BY <2>1 DEF Holdings
  <2>4. \A f \in Fetches : Going(f)' => Holdings' \subseteq fetches'[f].seen
    BY <2>2, <2>3 DEF ObservationInv, Going
  <2>5. /\ \A f \in Fetches : fetches'[f].pc = "recording" => fetches'[f] = fetches[f]
        /\ \A f \in Fetches : fetches[f].pc = "done" => fetches'[f] = fetches[f]
    BY <2>2
  <2> QED
    BY <1>0, <2>1, <2>4, <2>5, ObservationFrame
<1>9. ASSUME NEW q \in Requests, PostUnlock(q) PROVE ObservationInv'
  <2>1. UNCHANGED <<observations, issued>>
    BY <1>9 DEF PostUnlock
  <2>2. \A f \in Fetches :
          /\ fetches'[f].pc = fetches[f].pc /\ fetches'[f].tokens = fetches[f].tokens
          /\ fetches'[f].answer = fetches[f].answer /\ fetches[f].seen \subseteq fetches'[f].seen
    BY <1>9, PostUnlockStep
  <2>3. \A f \in Fetches : Going(f)' => Holdings' \subseteq fetches'[f].seen
    <3>1. CASE UNCHANGED <<locks, fetches>>
      BY <3>1 DEF ObservationInv, Going, Holdings
    <3>2. ASSUME NEW a \in Accounts, locks' = [locks EXCEPT ![a] = "no lock"],
                 \A f \in Fetches : fetches'[f].seen = fetches[f].seen \union {<<a, "no lock">>}
          PROVE  \A f \in Fetches : Going(f)' => Holdings' \subseteq fetches'[f].seen
      <4>1. \A b \in Accounts : locks'[b] = IF b = a THEN "no lock" ELSE locks[b]
        BY <3>2 DEF TypeInv, RestOK
      <4>2. Holdings' \subseteq Holdings \union {<<a, "no lock">>}
        BY <4>1 DEF Holdings
      <4> QED
        BY <2>2, <3>2, <4>2 DEF ObservationInv, Going
    <3> QED
      BY <1>9, <3>1, <3>2, PostUnlockStep
  <2> QED
    BY <1>0, <2>1, <2>2, <2>3, ObservationFrame
<1>10. ASSUME NEW q \in Requests, RequestStep(q), ~PostUnlock(q) PROVE ObservationInv'
  BY <1>0, <1>1, <1>10 DEF RequestStep, RefuseSecret, AcceptSecret, LookUpConnection,
     ReportUnconnected, DecryptToken, GiveUp, Announce, FindLock, ReportOutcome, Break,
     connectionVars, held, chaster
<1> QED
  BY <1>2, <1>3, <1>4, <1>5, <1>6, <1>7, <1>8, <1>9, <1>10 DEF Next, ConnectionNext, CallbackStep, Dropping

\* "stale # unlocked. API failure # unlocked.": however fetches overlap with refreshes, new
\* grants, unlocks and stops, every observation recorded is what Chaster said, while its
\* fetch ran, of an account it issued us tokens for.
THEOREM ObservationsAlways == Spec => []ObservationsAreAnswers
<1>1. Init => ObservationInv
  BY DEF Init, ConnectionInit, ObservationInv, NotFetched, Going
<1>2. ObservationInv => ObservationsAreAnswers
  BY DEF ObservationInv, ObservationsAreAnswers, Recorded, Answered
<1> QED
  BY <1>1, <1>2, InitTyped, StepTyped, StepObserves, PTL DEF Spec

=============================================================================
