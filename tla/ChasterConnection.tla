-------------------------- MODULE ChasterConnection --------------------------
(***************************************************************************)
(* How a user's Chaster account is connected and observed: the `chaster    *)
(* connect' command and its OAuth states, callback_service.py, the         *)
(* encrypted connection of repository.py, and the fetches of               *)
(* provider_observation_service.py with the token refresh they begin with. *)
(*                                                                         *)
(* A command, a callback and a fetch are sequences of transactions and of  *)
(* calls to Chaster, one action each.  Any of them may be overtaken, and   *)
(* what was read before a call is used after it.  Chaster is external: a   *)
(* call may fail, also after it took effect, and a refresh token is good   *)
(* for one exchange.                                                       *)
(***************************************************************************)
EXTENDS Integers, Sequences, FiniteSets

CONSTANTS
  Users,      \* user_accounts
  Accounts,   \* Chaster accounts, by their _id
  Links,      \* OAuth states that may be made (bound)
  Callbacks,  \* callbacks the browser may make (bound)
  Fetches,    \* calls of fetch_and_record() (bound)
  None,       \* SQL NULL
  Situations, \* what an account's active locks may be
  LinkLife,   \* STATE_TTL
  TokenLife,  \* expires_in of the access tokens
  MaxClock    \* bound on time

ASSUME NoneIsNobody == None \notin Users \union Accounts \union Links
ASSUME LivesType == LinkLife \in Nat \ {0} /\ TokenLife \in Nat \ {0}
ASSUME ChasterBounds == MaxClock \in Nat
\* No active lock, several, one with a status of ChasterProviderStatus, or one with any other.
ASSUME SituationsType ==
  /\ Situations \subseteq {"no lock", "several", "locked", "unlocked", "deserted", "other"}
  /\ "no lock" \in Situations  \* an unlocked lock is no longer active

VARIABLES
  clock,
  links,        \* chaster_oauth_states, with the command that is about to write the row
  connections,  \* chaster_connections
  issued,       \* the token pairs Chaster has issued, and whether their refresh token is spent
  locks,        \* the active locks of each account, at Chaster
  callbacks,    \* the callbacks in progress
  fetches,      \* the fetches in progress
  observations  \* chaster_provider_observations

held == <<links, connections, callbacks, fetches, observations>>
chaster == <<issued, locks>>
connectionVars == <<clock, held, chaster>>

Statuses == {"locked", "unlocked", "deserted"}

LinkRow ==
  [status: {"unused", "wanted", "pending", "deleted"}, user: Users \union {None}, expires: Nat]

ConnectionRow ==
  [status: {"none", "active", "needs_reauthorization"}, account: Accounts \union {None},
   tokens: Nat,    \* which of the issued pairs is stored
   expires: Nat]   \* access_token_expires_at

NoConnection == [status |-> "none", account |-> None, tokens |-> 0, expires |-> 0]

Pair == [account: Accounts, spent: BOOLEAN]

CallbackState ==
  [pc: {"idle", "exchanging", "resolving", "saving", "done", "lost"},
   link: Links \union {None}, user: Users \union {None}, now: Nat, tokens: Nat]

NotCalled == [pc |-> "idle", link |-> None, user |-> None, now |-> 0, tokens |-> 0]

FetchState ==
  [pc: {"idle", "decrypting", "exchanging", "persisting", "using", "listing", "recording",
        "marking", "done", "lost"},
   user: Users \union {None}, account: Accounts \union {None}, now: Nat, tokens: Nat,
   answer: Statuses,
   seen: SUBSET (Accounts \X Situations)]  \* how locks were meanwhile (no code reads it)

NotFetched == [pc |-> "idle", user |-> None, account |-> None, now |-> 0, tokens |-> 0,
               answer |-> "locked", seen |-> {}]

Observation == [fetch: Fetches, user: Users, status: Statuses, at: Nat]

Connected(u) == connections[u].status # "none"

Call(b, next) == callbacks' = [callbacks EXCEPT ![b] = next]
Fetch(f, next) == fetches' = [fetches EXCEPT ![f] = next]

----------------------------------------------------------------------------
(* ChasterConnectionRepository *)

\* create_or_replace(): an upsert of the whole row.
CreateOrReplace(u, account, tokens, expires) ==
  connections' = [connections EXCEPT ![u] =
    [status |-> "active", account |-> account, tokens |-> tokens, expires |-> expires]]

\* mark_needs_reauthorization(): no row, nothing to update.
MarkNeedsReauthorization(u) ==
  connections' = [connections EXCEPT ![u].status =
                    IF @ = "none" THEN @ ELSE "needs_reauthorization"]

----------------------------------------------------------------------------
(* Chaster's token endpoint *)

\* A pair for the account that authorized us.
Issue(account) == issued' = Append(issued, [account |-> account, spent |-> FALSE])

Spend(n) == [issued EXCEPT ![n].spent = TRUE]

\* A refresh token is exchanged once, for a new pair of its account.
Exchange(n) ==
  /\ ~issued[n].spent
  /\ issued' = Append(Spend(n), [account |-> issued[n].account, spent |-> FALSE])

\* It is refused, cannot be reached, or its answer does not arrive.
ExchangeFails(n) == issued' = issued \/ issued' = Spend(n)

----------------------------------------------------------------------------
(* `chaster connect' *)

\* _handle_chaster_connect(): who has a connection, whatever its status, gets no link.
AskForLink(l, u) ==
  /\ links[l].status = "unused"
  /\ ~Connected(u)
  /\ links' = [links EXCEPT ![l] = [status |-> "wanted", user |-> u, expires |-> clock + LinkLife]]
  /\ UNCHANGED <<clock, connections, callbacks, fetches, observations, chaster>>

\* Mutant of CreateLink: the older state stays.
CreateAnotherLink(l) ==
  /\ links[l].status = "wanted"
  /\ links' = [links EXCEPT ![l].status = "pending"]
  /\ UNCHANGED <<clock, connections, callbacks, fetches, observations, chaster>>

\* ChasterOAuthStateRepository.create_or_replace(): an older state of the user is deleted.
CreateLink(l) ==
  /\ links[l].status = "wanted"
  /\ links' = [k \in Links |->
       CASE k = l -> [links[k] EXCEPT !.status = "pending"]
         [] links[k].status = "pending" /\ links[k].user = links[l].user ->
              [links[k] EXCEPT !.status = "deleted"]
         [] OTHER -> links[k]]
  /\ UNCHANGED <<clock, connections, callbacks, fetches, observations, chaster>>

----------------------------------------------------------------------------
(* ChasterCallbackService.handle_callback() *)

Used(l) == links' = [links EXCEPT ![l].status = "deleted"]

\* Mutant of ConsumeLink: the row is looked up and left.
ConsumeAndKeep(b, l) ==
  /\ callbacks[b].pc = "idle" /\ links[l].status # "unused"
  /\ IF links[l].status = "pending" /\ clock < links[l].expires
       THEN Call(b, [pc |-> "exchanging", link |-> l, user |-> links[l].user, now |-> clock,
                     tokens |-> 0])
       ELSE Call(b, [NotCalled EXCEPT !.pc = "done"])
  /\ links' = links
  /\ UNCHANGED <<clock, connections, fetches, observations, chaster>>

\* consume(): a state is looked up and deleted in one transaction, expired or not.
\* Without a code, or with an error, the callback ends here.
ConsumeLink(b, l) ==
  /\ callbacks[b].pc = "idle" /\ links[l].status # "unused"
  /\ IF links[l].status = "pending" /\ clock < links[l].expires
       THEN \E pc \in {"exchanging", "done"} :
              Call(b, [pc |-> pc, link |-> l, user |-> links[l].user, now |-> clock, tokens |-> 0])
       ELSE Call(b, [NotCalled EXCEPT !.pc = "done"])
  /\ IF links[l].status = "pending" THEN Used(l) ELSE UNCHANGED links
  /\ UNCHANGED <<clock, connections, fetches, observations, chaster>>

\* exchange_code_for_tokens(): for whichever account the user logged in with.
ExchangeCode(b) ==
  /\ callbacks[b].pc = "exchanging"
  /\ \/ /\ \E a \in Accounts : Issue(a)
        /\ Call(b, [callbacks[b] EXCEPT !.pc = "resolving", !.tokens = Len(issued) + 1])
     \/ /\ Call(b, [callbacks[b] EXCEPT !.pc = "done"])
        /\ UNCHANGED issued
  /\ UNCHANGED <<clock, links, connections, fetches, observations, locks>>

\* resolve_identity() asks for the profile; where that fails the tokens are dropped.
ResolveIdentity(b) ==
  /\ callbacks[b].pc = "resolving"
  /\ \E pc \in {"saving", "done"} : Call(b, [callbacks[b] EXCEPT !.pc = pc])
  /\ UNCHANGED <<clock, links, connections, fetches, observations, chaster>>

\* The account of a profile, by its _id.
Identity(b) == issued[callbacks[b].tokens].account

SaveConnection(b) ==
  /\ callbacks[b].pc = "saving"
  /\ LET c == callbacks[b]
     IN CreateOrReplace(c.user, Identity(b), c.tokens, c.now + TokenLife)
  /\ Call(b, [callbacks[b] EXCEPT !.pc = "done"])
  /\ UNCHANGED <<clock, links, fetches, observations, chaster>>

CallbackStep(b) ==
  (\E l \in Links : ConsumeLink(b, l)) \/ ExchangeCode(b) \/ ResolveIdentity(b) \/ SaveConnection(b)

----------------------------------------------------------------------------
(* ChasterProviderObservationService.fetch_and_record() *)

Holdings == {<<a, locks[a]>> : a \in Accounts}

\* get(): a token that has expired at the fetch's now is refreshed first.
BeginFetch(f, u) ==
  /\ fetches[f].pc = "idle"
  /\ LET c == connections[u]
     IN Fetch(f, [NotFetched EXCEPT !.user = u, !.account = c.account, !.now = clock,
          !.seen = Holdings,
          !.pc = CASE c.status = "none" -> "done"
                   [] c.status # "none" /\ c.expires <= clock -> "decrypting"
                   [] OTHER -> "using"])
  /\ UNCHANGED <<clock, links, connections, callbacks, observations, chaster>>

\* The tokens a row's ciphertexts hold.
Decrypted(u) == connections[u].tokens

\* get_decrypted_refresh_token(): reads the row again.  The key may not fit.
ReadRefreshToken(f) ==
  /\ fetches[f].pc = "decrypting"
  /\ \/ Fetch(f, [fetches[f] EXCEPT !.pc = "exchanging", !.tokens = Decrypted(fetches[f].user)])
     \/ Fetch(f, [fetches[f] EXCEPT !.pc = "marking"])
  /\ UNCHANGED <<clock, links, connections, callbacks, observations, chaster>>

\* refresh_tokens()
RefreshTokens(f) ==
  /\ fetches[f].pc = "exchanging"
  /\ \/ /\ Exchange(fetches[f].tokens)
        /\ Fetch(f, [fetches[f] EXCEPT !.pc = "persisting", !.tokens = Len(issued) + 1])
     \/ /\ ExchangeFails(fetches[f].tokens)
        /\ Fetch(f, [fetches[f] EXCEPT !.pc = "marking"])
  /\ UNCHANGED <<clock, links, connections, callbacks, observations, locks>>

\* Mutant of PersistTokens: the refresh token that was used stays in the row.
PersistAccessToken(f) ==
  /\ fetches[f].pc = "persisting"
  /\ connections' = [connections EXCEPT ![fetches[f].user] =
       [@ EXCEPT !.status = "active", !.expires = fetches[f].now + TokenLife]]
  /\ Fetch(f, [fetches[f] EXCEPT !.pc = "using"])
  /\ UNCHANGED <<clock, links, callbacks, observations, chaster>>

\* Both new tokens, under the account that was read when the fetch began.
PersistTokens(f) ==
  /\ fetches[f].pc = "persisting"
  /\ CreateOrReplace(fetches[f].user, fetches[f].account, fetches[f].tokens,
                     fetches[f].now + TokenLife)
  /\ Fetch(f, [fetches[f] EXCEPT !.pc = "using"])
  /\ UNCHANGED <<clock, links, callbacks, observations, chaster>>

\* After a refresh that failed, or a token that cannot be decrypted: the fetch ends.
MarkConnection(f) ==
  /\ fetches[f].pc = "marking"
  /\ MarkNeedsReauthorization(fetches[f].user)
  /\ Fetch(f, [fetches[f] EXCEPT !.pc = "done"])
  /\ UNCHANGED <<clock, links, callbacks, observations, chaster>>

\* get_decrypted_access_token(): reads the row once more.
ReadAccessToken(f) ==
  /\ fetches[f].pc = "using"
  /\ \/ Fetch(f, [fetches[f] EXCEPT !.pc = "listing", !.tokens = Decrypted(fetches[f].user)])
     \/ Fetch(f, [fetches[f] EXCEPT !.pc = "marking"])
  /\ UNCHANGED <<clock, links, connections, callbacks, observations, chaster>>

\* What a list of locks is recorded as, if it is recorded at all.
Readings == [s \in Statuses \union {"no lock"} |-> IF s = "no lock" THEN "unlocked" ELSE s]

\* Mutant of ListLocks: whatever goes wrong counts as no active lock.
ListLocksHopefully(f) ==
  /\ fetches[f].pc = "listing"
  /\ LET situation == locks[issued[fetches[f].tokens].account]
     IN \E s \in {situation, "no lock"} \ {"several", "other"} :
          Fetch(f, [fetches[f] EXCEPT !.pc = "recording", !.answer = Readings[s]])
  /\ UNCHANGED <<clock, links, connections, callbacks, observations, chaster>>

\* list_active_locks(): it may fail; several locks or an unknown status are not recorded.
ListLocks(f) ==
  /\ fetches[f].pc = "listing"
  /\ LET situation == locks[issued[fetches[f].tokens].account]
     IN \/ /\ situation \in DOMAIN Readings
           /\ Fetch(f, [fetches[f] EXCEPT !.pc = "recording", !.answer = Readings[situation]])
        \/ Fetch(f, [fetches[f] EXCEPT !.pc = "done"])
  /\ UNCHANGED <<clock, links, connections, callbacks, observations, chaster>>

\* record(): a new row, dated with the now the fetch began at.
RecordObservation(f) ==
  /\ fetches[f].pc = "recording"
  /\ observations' = Append(observations, [fetch |-> f, user |-> fetches[f].user,
                                           status |-> fetches[f].answer, at |-> fetches[f].now])
  /\ Fetch(f, [fetches[f] EXCEPT !.pc = "done"])
  /\ UNCHANGED <<clock, links, connections, callbacks, chaster>>

FetchStep(f) ==
  \/ \E u \in Users : BeginFetch(f, u)
  \/ ReadRefreshToken(f) \/ RefreshTokens(f) \/ PersistTokens(f) \/ MarkConnection(f)
  \/ ReadAccessToken(f) \/ ListLocks(f) \/ RecordObservation(f)

----------------------------------------------------------------------------
(* Specification *)

Tick ==
  /\ clock < MaxClock
  /\ clock' = clock + 1
  /\ UNCHANGED <<held, chaster>>

Ongoing(call) == call.pc \notin {"idle", "done", "lost"}

\* Of these callbacks, fetches and commands those that are in progress end where they are:
\* what was committed stays, the rest is lost.
Drop(someCallbacks, someFetches, someLinks) ==
  /\ callbacks' = [b \in Callbacks |->
       IF b \in someCallbacks /\ Ongoing(callbacks[b]) THEN [callbacks[b] EXCEPT !.pc = "lost"]
                                                      ELSE callbacks[b]]
  /\ fetches' = [f \in Fetches |->
       IF f \in someFetches /\ Ongoing(fetches[f]) THEN [fetches[f] EXCEPT !.pc = "lost"]
                                                  ELSE fetches[f]]
  /\ links' = [l \in Links |->
       IF l \in someLinks /\ links[l].status = "wanted" THEN [links[l] EXCEPT !.status = "deleted"]
                                                       ELSE links[l]]
  /\ UNCHANGED <<clock, connections, observations, chaster>>

\* A transaction that fails, or any exception but the expected ones, ends one call; the
\* listener and the bot answer with an error and go on.
FailCallback(b) == Ongoing(callbacks[b]) /\ Drop({b}, {}, {})

FailFetch(f) == Ongoing(fetches[f]) /\ Drop({}, {f}, {})

FailConnect(l) == links[l].status = "wanted" /\ Drop({}, {}, {l})

\* The bot's process ends, and with it all that is in progress.
StopBot ==
  /\ \/ \E b \in Callbacks : Ongoing(callbacks[b])
     \/ \E f \in Fetches : Ongoing(fetches[f])
     \/ \E l \in Links : links[l].status = "wanted"
  /\ Drop(Callbacks, Fetches, Links)

ConnectionInit ==
  /\ clock = 0
  /\ links = [l \in Links |-> [status |-> "unused", user |-> None, expires |-> 0]]
  /\ connections = [u \in Users |-> NoConnection]
  /\ issued = <<>>
  /\ locks \in [Accounts -> Situations]
  /\ callbacks = [b \in Callbacks |-> NotCalled]
  /\ fetches = [f \in Fetches |-> NotFetched]
  /\ observations = <<>>

ConnectionNext ==
  \/ \E l \in Links : (\E u \in Users : AskForLink(l, u)) \/ CreateLink(l) \/ FailConnect(l)
  \/ \E b \in Callbacks : CallbackStep(b) \/ FailCallback(b)
  \/ \E f \in Fetches : FetchStep(f) \/ FailFetch(f)
  \/ Tick
  \/ StopBot

ConnectionSpec == ConnectionInit /\ [][ConnectionNext]_connectionVars

----------------------------------------------------------------------------
(* Properties *)

\* Types; a row stored is a pair that was issued, and a user has one pending link at most.
ConnectionTypeOK ==
  /\ clock \in 0..MaxClock
  /\ links \in [Links -> LinkRow]
  /\ connections \in [Users -> ConnectionRow]
  /\ issued \in Seq(Pair)
  /\ locks \in [Accounts -> Situations]
  /\ callbacks \in [Callbacks -> CallbackState]
  /\ fetches \in [Fetches -> FetchState]
  /\ observations \in Seq(Observation)
  /\ \A l \in Links : links[l].status # "unused" => links[l].user \in Users
  /\ \A k, l \in Links :
       links[k].status = "pending" /\ links[l].status = "pending" /\ links[k].user = links[l].user
         => k = l
  /\ \A u \in Users : Connected(u) =>
       connections[u].account \in Accounts /\ connections[u].tokens \in DOMAIN issued

\* chaster_integration_technical_design.md:388: a state is "deleted from storage immediately
\* on first lookup".  However many callbacks present it, and whenever, a link leads to one
\* exchange of a code at most.
LinkUsedOnce ==
  \A b, c \in Callbacks : callbacks[b].link # None /\ callbacks[b].link = callbacks[c].link => b = c

\* A refresh token is good for one exchange.  Whatever overtakes what, two fetches that
\* refresh at once, or a callback that stores a new grant meanwhile, a connection that is
\* active holds an unspent one, unless whoever spent it has yet to store its successor or
\* to mark the connection, or was stopped or failed before it could.
StoredTokenIsGood ==
  \A u \in Users :
    connections[u].status = "active" /\ issued[connections[u].tokens].spent =>
      \E f \in Fetches : fetches[f].user = u /\ fetches[f].pc \in {"persisting", "marking", "lost"}

\* chaster_integration_technical_design.md:1134: "stale # unlocked. API failure # unlocked."
\* An observation is what Chaster said of an account of ours while the fetch ran: none is
\* made of a failure, of several locks or of a status that is not known, and in particular
\* not the one that says unlocked.
ObservationsAreAnswers ==
  \A i \in DOMAIN observations :
    LET f == fetches[observations[i].fetch]
    IN \E s \in DOMAIN Readings : /\ Readings[s] = observations[i].status
                                  /\ <<issued[f.tokens].account, s>> \in f.seen

=============================================================================
