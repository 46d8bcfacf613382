--------------------------- MODULE MessageHandling ---------------------------
(***************************************************************************)
(* ApplicationService.handle_message(): what becomes of a message, from    *)
(* the user's account and onboarding to a command or a turn of             *)
(* conversation.  Each message is handled by a thread of its own           *)
(* (asyncio.to_thread), one transaction at a time, and is answered once.   *)
(*                                                                         *)
(* Accounts and preferences are modelled here, the commands in Tasks, the  *)
(* turns in Conversation; the `mode ...' commands are in AdvancedMode.     *)
(***************************************************************************)
EXTENDS Tasks

CONSTANTS
  Sizes, MaxExchanges, MaxCharacters,  \* as in Conversation
  Genders,      \* the voices offered
  Identities,   \* the identity catalog
  GroupOf,      \* the voice of each identity
  Languages,    \* the languages offered
  MaxRestarts   \* bound on restarts of the process

ASSUME GroupOfType == GroupOf \in [Identities -> Genders]
ASSUME LimitsType ==
  /\ MaxExchanges \in Nat \ {0} /\ MaxCharacters \in Nat \ {0}
  /\ Sizes \subseteq Nat \ {0} /\ MaxRestarts \in Nat
ASSUME NoneIsNoAnswer == None \notin Genders \union Identities \union Languages

VARIABLES
  registry, entries, tickets, memory, turns,  \* as in Conversation
  accounts,    \* user_accounts with their channel identity
  preferences, \* user_preferences
  handling,    \* the handle_message() calls
  restarts     \* restarts of the process so far

Talk == INSTANCE Conversation

talkVars == <<registry, entries, tickets, memory, turns>>
onboarding == <<accounts, preferences>>
vars == <<tasksVars, talkVars, onboarding, handling, restarts>>

\* OnboardingStep, in order; "none" is a row that does not exist.
Steps == <<"language", "ai_gender", "personality", "complete">>

NoPreferences == [step |-> "none", language |-> None, gender |-> None, identity |-> None]

PreferencesRow ==
  [step: {"none"} \union {Steps[i] : i \in DOMAIN Steps}, language: Languages \union {None},
   gender: Genders \union {None}, identity: Identities \union {None}]

\* The row as it was read, and where the message is: in "command" and "talking" the
\* other modules have it.
HandlingState ==
  [pc: {"unsent", "account", "answering", "routing", "command", "talking", "answered", "lost"},
   user: Users \union {None}, seen: PreferencesRow]

Unsent == [pc |-> "unsent", user |-> None, seen |-> NoPreferences]

Pass(m, pc) == handling' = [handling EXCEPT ![m].pc = pc]

----------------------------------------------------------------------------
(* OnboardingService *)

\* A question is answered once the step has gone past it.
Consistent(row) ==
  /\ row.language # None <=> row.step \in {"ai_gender", "personality", "complete"}
  /\ row.gender # None <=> row.step \in {"personality", "complete"}
  /\ row.identity # None <=> row.step = "complete"
  /\ row.identity # None => GroupOf[row.identity] = row.gender

Following(step) == Steps[1 + CHOOSE i \in DOMAIN Steps : Steps[i] = step]

\* The answers a step accepts from someone with these preferences, as the row with that
\* answer.  An identity is offered by the voice that was chosen.
Accepted(row) ==
  LET next == [row EXCEPT !.step = Following(row.step)]
  IN CASE row.step = "language" -> {[next EXCEPT !.language = l] : l \in Languages}
       [] row.step = "ai_gender" -> {[next EXCEPT !.gender = g] : g \in Genders}
       [] row.step = "personality" ->
            {[next EXCEPT !.identity = i] : i \in {i \in Identities : GroupOf[i] = row.gender}}

\* The row with the column of this step, and the next step, taken from another row.
Written(row, step, answer) ==
  CASE step = "language" -> [row EXCEPT !.step = answer.step, !.language = answer.language]
    [] step = "ai_gender" -> [row EXCEPT !.step = answer.step, !.gender = answer.gender]
    [] step = "personality" -> [row EXCEPT !.step = answer.step, !.identity = answer.identity]

\* _advance(): conditional on the step the answer was meant for.
AdvanceStep(u, seen, answer) ==
  IF preferences[u].step = seen.step
    THEN preferences' = [preferences EXCEPT ![u] = Written(@, seen.step, answer)]
    ELSE UNCHANGED preferences

----------------------------------------------------------------------------
(* handle_message() *)

Receive(m, u) ==
  /\ handling[m].pc = "unsent"
  /\ handling' = [handling EXCEPT ![m] = [Unsent EXCEPT !.pc = "account", !.user = u]]
  /\ UNCHANGED <<tasksVars, talkVars, onboarding, restarts>>

\* get_or_create_user(), in a transaction of its own; an account that exists is only
\* marked as seen.
ResolveUser(m) ==
  /\ handling[m].pc = "account" /\ handling[m].user \notin accounts
  /\ accounts' = accounts \union {handling[m].user}
  /\ UNCHANGED <<tasksVars, talkVars, preferences, handling, restarts>>

\* get_or_create_preferences(): who is new is asked the first question.
ResolvePreferences(m) ==
  /\ handling[m].pc = "account" /\ handling[m].user \in accounts
  /\ LET u == handling[m].user
         row == preferences[u]
     IN IF row.step = "none"
          THEN /\ preferences' = [preferences EXCEPT ![u].step = "language"]
               /\ Pass(m, "answered")
          ELSE /\ handling' = [handling EXCEPT ![m].seen = row,
                    ![m].pc = IF row.step = "complete" THEN "routing" ELSE "answering"]
               /\ UNCHANGED preferences
  /\ UNCHANGED <<tasksVars, talkVars, accounts, restarts>>

\* process_message(): the text is an answer to the step that was read, or none at all.
AnswerStep(m) ==
  /\ handling[m].pc = "answering"
  /\ \/ \E answer \in Accepted(handling[m].seen) :
          AdvanceStep(handling[m].user, handling[m].seen, answer)
     \/ UNCHANGED preferences
  /\ Pass(m, "answered")
  /\ UNCHANGED <<tasksVars, talkVars, accounts, restarts>>

\* router.route(): a command of Tasks, a turn of conversation, or what only answers: a
\* command that reads, one of no known form or without a message reference, and
\* anything else where there is no conversation engine.
Route(m) ==
  /\ handling[m].pc = "routing"
  /\ \/ /\ \E cmd \in Commands : BeginCommand(m, handling[m].user, cmd)
        /\ Pass(m, "command")
        /\ UNCHANGED talkVars
     \/ /\ Talk!BeginTurn(m, handling[m].user)
        /\ Pass(m, "talking")
        /\ UNCHANGED tasksVars
     \/ Pass(m, "answered") /\ UNCHANGED <<tasksVars, talkVars>>
  /\ UNCHANGED <<onboarding, restarts>>

Command(m) ==
  /\ handling[m].pc = "command"
  /\ CommandStep(m)
  /\ IF work'[m].pc = "done" THEN Pass(m, "answered") ELSE UNCHANGED handling
  /\ UNCHANGED <<talkVars, onboarding, restarts>>

Turn(m) ==
  /\ handling[m].pc = "talking"
  /\ Talk!TurnStep(m)
  /\ IF turns'[m].pc = "done" THEN Pass(m, "answered") ELSE UNCHANGED handling
  /\ UNCHANGED <<tasksVars, onboarding, restarts>>

\* Any exception outside a turn, which has its own: one answer for all.
Fail(m) ==
  /\ handling[m].pc \in {"account", "answering", "routing", "command"}
  /\ Abandon({m})
  /\ Pass(m, "answered")
  /\ UNCHANGED <<talkVars, onboarding, restarts>>

Step(m) == ResolveUser(m) \/ ResolvePreferences(m) \/ AnswerStep(m) \/ Route(m)
             \/ Command(m) \/ Turn(m)

InProgress(m) == handling[m].pc \notin {"unsent", "answered", "lost"}

\* The process ends and is started again: the database stays, everything else is lost.
Restart ==
  /\ restarts < MaxRestarts
  /\ \E m \in Messages : InProgress(m)
  /\ restarts' = restarts + 1
  /\ handling' = [m \in Messages |->
                    IF InProgress(m) THEN [handling[m] EXCEPT !.pc = "lost"] ELSE handling[m]]
  /\ Abandon(Messages)
  /\ Talk!ForgetConversation
  /\ UNCHANGED onboarding

\* The catalog and the mode are changed by others meanwhile.
Govern == Governance /\ UNCHANGED <<talkVars, onboarding, handling, restarts>>

\* Users the database knows already may be at any step.
Init ==
  /\ TasksInit
  /\ Talk!ConversationInit
  /\ accounts \in SUBSET Users
  /\ preferences \in [Users -> PreferencesRow]
  /\ \A u \in Users : Consistent(preferences[u]) /\ (u \in accounts \/ preferences[u] = NoPreferences)
  /\ handling = [m \in Messages |-> Unsent]
  /\ restarts = 0

Next ==
  \/ \E m \in Messages : (\E u \in Users : Receive(m, u)) \/ Step(m) \/ Fail(m)
  \/ Restart
  \/ Govern

Spec == Init /\ [][Next]_vars

\* A thread that handles a message goes on; the model's call returns or times out.
FairSpec == Spec /\ \A m \in Messages : WF_vars(Step(m))

----------------------------------------------------------------------------
(* Properties *)

\* Types of all parts.  Preferences have an answer for each step that is past, and an
\* identity of the chosen voice, however many messages answer the same question.
TypeOK ==
  /\ TasksTypeOK
  /\ Talk!ConversationTypeOK
  /\ accounts \subseteq Users
  /\ preferences \in [Users -> PreferencesRow]
  /\ \A u \in Users : /\ Consistent(preferences[u])
                       /\ (u \in accounts \/ preferences[u] = NoPreferences)
  /\ handling \in [Messages -> HandlingState]
  /\ restarts \in 0..MaxRestarts

\* Conversation's OneTurnAtATime and NothingMissed, here also across restarts.
OneTurnAtATime == Talk!OneTurnAtATime
NothingMissed == Talk!NothingMissed

\* The line of each subject, whatever entry holds it; the messages that came, those whose
\* turn is over, and what they heard: what shows of the queue and of the turns.
Lines == [u \in Users |-> IF registry[u] = None THEN <<>> ELSE entries[registry[u]].waiting]
Came == {m \in Messages : turns[m].pc # "idle"}
Over == {m \in Messages : turns[m].pc = "leaving"}
Heard == [m \in Messages |-> IF m \in Over THEN turns[m].history ELSE <<>>]

Serial == INSTANCE SerialTurns
  WITH came <- Came, line <- Lines, over <- Over, heard <- Heard

\* subject_queue.py and working_memory.py, across threads, deleted entries and restarts:
\* a turn, from its reading to its commit, is as good as one step, taken in the order of
\* arrival, and forgets nothing but the oldest exchanges.
TurnsInOrder == Serial!Spec

Position(step) == IF step = "none" THEN 0 ELSE CHOOSE i \in DOMAIN Steps : Steps[i] = step

\* Onboarding goes one question further at a time and never back, and an answer that was
\* given stands: a second message that was sent for the same question changes nothing.
AnswersStand ==
  [][\A u \in Users :
       LET row == preferences[u]
           next == preferences'[u]
       IN next # row =>
            /\ Position(next.step) = Position(row.step) + 1
            /\ row.language # None => next.language = row.language
            /\ row.gender # None => next.gender = row.gender
            /\ row.identity # None => next.identity = row.identity]_vars

\* Every message that is handled is answered, in particular one that waits for the turns
\* of others before it, unless the process ends.
EveryMessageAnswered ==
  \A m \in Messages : InProgress(m) ~> ~InProgress(m)

=============================================================================
