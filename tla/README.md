# TLA+ models of AI Coach & Keyholder

The program is a local Discord bot in Python on one SQLite database. Its modules
never call each other inside a transaction: each commits its own change together with
a domain event, and a publisher hands the events to the modules that react to them.
These models are about that core: the penalty window and its countdown, the
recovery plan that mirrors it, the outbox between them, the startup that delivers
the events, the change of operating mode that waits for a day without a penalty
window, the handling of messages by threads that overlap (onboarding, tasks and
turns of conversation), goals and the proposals that change them, trust and the
incidents it depends on, and the connection to a Chaster account with its emergency
unlock. They are written from the Python source; paths below are relative to the
repository.

## 1. Inventory

| Component | State | Operations | What makes it correct |
|---|---|---|---|
| Penalty Engine (`penalty_engine/`) | `penalty_windows`, `freeze_periods`, `incident_consumption`, `recovery_credit_*` | consume an incident (event or direct), `freeze`, `emergency_freeze`, `resume`, `ensure_current_state`, credit | frozen exactly while a freeze is open; the countdown is the unfrozen time; caps on extension and credit; each incident and completion decided once; events tell the status |
| Extension policy (`penalty_engine/extension.py`) | none | `should_extend` and its arithmetic | capped exactly, monotone in the gravity of the incident, mitigation never below the retained fraction |
| Trust Manager (`trust_manager/`) | domains and their scores, evidence, incidents, assessments, recalculations | create, deactivate and reactivate a domain, report, confirm to any level, recalculate, repair at startup | an incident assessed exactly when it has its one piece of evidence; evidence applied once; a score moves by the cap at most |
| Event outbox (`infrastructure/outbox.py`, `consumer_registry.py`) | `domain_events`, `domain_event_consumers` | write, claim, dispatch, mark published | each effect at most once, every event handed off in the end |
| Startup (`system/startup.py`, `infrastructure/startup_lease.py`) | `system_startup_lease` | lease, recoveries, publish, release | one startup at a time, a dead one is taken over |
| Recovery Plan (`recovery_plan/`) | `recovery_plans`, `recovery_tasks`, completions | create, mirror, regenerate; propose, accept, withdraw, complete | plan follows window, live tasks are of the current version, history is kept |
| Goal Management (`goal_management/`) | goals, versions, evidence, evaluations, proposals | create, pause, resume, complete, archive, record; propose, accept, decline; expiry at startup | an accepted proposal applied once and as proposed, versions form a chain, a goal is ended once, nothing overdue survives a startup |
| Advanced Mode (`advanced_mode/`) | `operating_mode_state`, `mode_transition_requests` | request, advance, cancel, confirm | no mode change while a window is open; full waiting time |
| Task Runtime, Task Catalog, Lock State | assignments; template versions; last known lock state | assign, complete, cancel; publish a version; record | one active assignment per user, eligible by what was read, settled once |
| Application service, router, onboarding, bot | accounts, preferences | one command, answer or turn per message, each in a thread of its own | every message answered; an answer to onboarding stands |
| Conversation Engine, Memory System | per-subject queue, working memory | take a turn, generate, commit an exchange | one turn at a time per subject, in order; nothing missed; memory within its limits |
| Chaster (OAuth, observations, emergency unlock) | OAuth states, connections with their tokens, observations, audit rows | ask for a link, callback, refresh, observe, unlock | a link leads to one exchange; an active connection holds an unspent refresh token; an observation is what Chaster said; the audit tells what happened |
| Plugins (`infrastructure/plugin_*`) | registry, failure counts | load, call, disable | not modelled: no production code loads one |
| Preference Profile, AI identity, configuration, scripts | constants | none over time | not modelled |

How they interact. Every write runs under `BEGIN IMMEDIATE`
(`infrastructure/database.py`), so writers of all threads and processes are
serialized, and `apply_transition` commits state and events together. An operation
that uses several transactions can be overtaken between them. The bot handles each
message in a thread (`asyncio.to_thread`), so commands overlap each other; a second
process may be started while the first one runs, and the emergency unlock is a process
of its own on the same database. `process_pending_events()` is called
by `on_system_startup()` only. The registry of `system/startup.py` connects:

    incident.confirmation_changed (Trust Manager)       -> Penalty Engine
    penalty_window.started / frozen / resumed / completed -> Recovery Plan
    penalty_window.target_duration_changed              -> Recovery Plan
    recovery_plan.task_completed                        -> Penalty Engine

What is hard: operations of several transactions (`ensure_current_state`,
`start_window_if_eligible`) that use what an earlier one read; a `now` read once per
operation; events delivered at the next startup, long after they were written, twice
after a crash, in the order of their timestamps; leases that expire under a live
holder; a window that freezes for several overlapping reasons; startups that repair or
expire rows they listed in another transaction; calls to Chaster between transactions,
which may take effect without an answer, with tokens that are good for one use. `PROJECT.json` lists
these hazards with the lines where they bite.

## 2. Modules

| Module | Models | Composes |
|---|---|---|
| `PenaltyEngine` | `penalty_engine/repository.py`, `window.py`, the cap of `extension.py`, the part of the Trust Manager it reads | - |
| `EffectOnce` | what the outbox promises, abstractly | - |
| `Outbox` | `infrastructure/outbox.py`, `consumer_registry.py` | refines `EffectOnce` |
| `RecoveryPlan` | `recovery_plan/repository.py` | - |
| `AdvancedMode` | `advanced_mode/repository.py` and the `mode ...` commands of `application/service.py` | - |
| `Tasks` | `task_catalog/`, `task_runtime/`, `lock_state/` and the `task ...`, `lock report ...` commands of `application/service.py` | - |
| `SerialTurns` | what a conversation promises, abstractly: a line per subject, each turn one step | - |
| `Conversation` | `conversation_engine/engine.py`, `subject_queue.py`, `memory_system/working_memory.py` | - |
| `MessageHandling` | `handle_message()`, `application/router.py`, `onboarding_service.py`, `user_service.py` | `Tasks` (extended), `Conversation` (an instance, `Talk`); refines `SerialTurns` |
| `Lifecycle` | the registry of `system/startup.py`, its lease, `on_system_startup()` | `PenaltyEngine`, `RecoveryPlan` |
| `Goals` | `goal_management/repository.py` and its step of `on_system_startup()` | - |
| `TrustRubric` | the arithmetic of `trust_manager/severity.py` and `recalculation.py` | - |
| `Trust` | `trust_manager/repository.py` and its step of `on_system_startup()` | `TrustRubric` (extended) |
| `ExtensionPolicy` | the arithmetic of `penalty_engine/extension.py` | - |
| `ChasterConnection` | the `chaster connect` command, `chaster/callback_service.py`, `repository.py`, `provider_observation_service.py` and Chaster's token endpoint | - |
| `EmergencyUnlock` | `chaster/emergency_unlock.py`, `emergency_unlock_provider.py` | `ChasterConnection` (extended) |
| `PenaltyEngineProofs`, `OutboxProofs`, `LifecycleProofs`, `AdvancedModeProofs`, `MessageHandlingProofs`, `GoalsProofs`, `TrustProofs`, `ChasterProofs` | proofs | extend their module; `LifecycleProofs` has an instance of `PenaltyEngineProofs`, `TrustProofs` extends `Trust` and `ExtensionPolicy`, `ChasterProofs` `EmergencyUnlock` |
| `MCPenaltyEngine`, `MCOutbox`, `MCAdvancedMode`, `MCLifecycle`, `MCMessageHandling`, `MCGoals`, `MCTrust`, `MCChaster` | instances for TLC | extend their module |

Correspondence (line by line in `PROJECT.json`, "map"):

- A row is a record; an id that is not yet in the table has status "none" or a NULL
  key. NULL is the model value `None`. Times and hours are natural numbers in the same
  ticks; credit counts half ticks, so that half of a target is whole.
- One transaction is one action. `ensure_current_state()` is `BeginEnsure`,
  `ListExpired`, `CloseExpired` per row, `Reread`, `CompleteWindow`, run by a thread
  that remembers what it read and the `now` it was called with;
  `start_window_if_eligible()` is `BeginStartWindow` (when was a window last closed),
  `ListCandidates`, `ListUnconsumed`, and per incident `ReadAssessment` and
  `ConsumeCandidate`; an incident demoted between the last two is consumed all the same. Nothing in production
  calls it yet; it is modelled as called whenever.
- A `mode ...` command is `Begin`, `Settle`, `Advance`, `Look`, `Act`, run by a thread
  with the `now` of its message: the settling of `_settle_mode_state()` (two
  transactions), the read of the command's handler, its governed write. A command
  without a stable message reference stops where `mode status` does.
- `AdvancedMode` sees the penalty window as open or not. It may open at any moment, and
  close whenever somebody settles it; when it does is the matter of `PenaltyEngine`.
- A message is handled by one thread, from `Receive` to an answer; the message is also the
  consent reference of what it leads to, so it names the thread and the assignment it
  makes. Account and preferences are two transactions (`ResolveUser`,
  `ResolvePreferences`), an answer to onboarding a third (`AnswerStep`), which uses the
  row the second one read.
- A `task request` is `LookForAssignment`, `ReadLock`, `ReadMode`, `ListTemplates`,
  `LoadTemplate`, `Insert`: five reads and a write, each in a transaction of its own.
  A version of a template is reduced to the modes it is offered in as a primary task and
  whether it needs a reported lock. The catalog and the mode are changed by others at
  any time (`Governance`), up to `MaxEdits`; how the mode changes is in `AdvancedMode`.
- A turn is `BeginTurn`, `Wake`, `ReadMemory`, `Generate`, `Commit`, `Leave`. What runs
  under the registry lock of `subject_queue.py` is one action. An entry of the registry is
  an object: it is named by the message that made it, and a thread keeps the reference it
  got even when the entry is deleted and another made for the same subject. Context,
  plan, prompt, model and validation are one choice (`Generate`: a valid answer or not).
- `Fail` is the handler of any exception outside a turn; `Restart` ends the process with
  its threads, queue and memory.
- A crash forgets every running operation and keeps the tables. `AdvancedMode` has no
  action for it: a command that dies between two transactions has done what a
  `mode status`, or a startup that settles, would have done.
- A startup of `Lifecycle` may raise in any of its own transactions (`Raise`): it goes on to
  its `finally` and releases the lease (`Abandon`). What a handler raises is caught by
  `dispatch()`, so a startup that raises has handled what it claimed. That an operator
  interrupts one in the middle of a batch is left out; section 3 says what follows from it.
- `ORDER BY ... LIMIT` with equal keys is a free choice in `PenaltyEngine` and
  `Outbox`. `Lifecycle` breaks ties of `created_at` by insertion, as SQLite does for
  rows of one index range.
- The hours `should_extend()` proposes before the cap are an arbitrary table of the
  incident and its count in the window (`Uncapped`) in `PenaltyEngine`; the policy itself
  is `ExtensionPolicy`, in tenths of an hour, and `DecisionTyped` says that its hours are
  a natural number for every context, which is all that is assumed of the table.
- In `Goals` every operation is one transaction and one action; one that raises has no
  effect. Only the startup is longer: `StartRecovery` reads the clock, `ListOverdue`
  lists, `ExpireListed` resolves each in a transaction of its own, and a proposal that
  was resolved since raises, which ends the startup (`raised`). A title with its
  description is named for the goal or the proposal it was first given by, so that
  "as proposed" can be said.
- In `Trust` scores and weights are integers in ten-thousandths. An incident has at most
  one row of evidence (a UNIQUE constraint), so evidence is indexed by incident; a second
  insertion raises, and the startup that does it stops. A recalculation takes the table
  the same transaction has just written (`Recalculate(d, rows)`). `Legacy` are the
  confirmed incidents without an assessment that an older version of the program may
  have left, the only ones there is anything to repair for. Confidence is reduced to the
  number of pieces it grows with. `Exposure` records have a model and no operation.
- In `ChasterConnection` a callback and a fetch are sequences of transactions and calls,
  each an action: `ConsumeLink`, `ExchangeCode`, `ResolveIdentity`, `SaveConnection`;
  `BeginFetch`, `ReadRefreshToken`, `RefreshTokens`, `PersistTokens` (or
  `MarkConnection`), `ReadAccessToken`, `ListLocks`, `RecordObservation`. A token pair is
  its place in `issued`, what Chaster knows of it; the row stores which pair it holds. A
  call may fail before or after it took effect (`ExchangeFails`), a ciphertext may not be
  decryptable. A transaction that fails, or an exception nobody expects, ends one callback,
  fetch or command where it is (`FailCallback`, `FailFetch`, `FailConnect`). `StopBot` is
  the end of the bot's process, which the unlock's survives.
- In `EmergencyUnlock` a request is the sequence of its audit rows, reads and calls; it
  may end after each of them (`Break`). `PostUnlock` may take effect and its answer be
  lost. Production wires an extractor that always raises
  (`emergency_unlock_provider.py:120`), because the fields of Chaster's locks are not
  confirmed: the running program always takes the failing disjunct of `FindLock` and never
  posts. `PostUnlock` is reached once a real extractor is wired, as it is in the tests; the
  model covers both. `seen` and `unlocked` are history the code does not have, for the properties.
  `fetch_and_record()` has no caller in production yet, only in tests; it is modelled
  as called whenever.
- Events nobody consumes (`freeze_periods.*`, `recovery_plan.*` except
  `task_completed`, `recovery_credit.*`) are left out: `Outbox` shows what happens to
  them.
- Definitions introduced by a comment "Mutant of ..." are deliberate mistakes, one for
  each property, that the property is known to catch. No action uses them.

## 3. What the runs check

| Run | Question | Bounds | Result |
|---|---|---|---|
| `PenaltyWindows` | caps, events and single windows under late events and overtaken operations | 2 windows, 1 freeze, 2 incidents of one rule, 2 completions, 1 thread, time 0..2, 1 crash, `Prompt = FALSE` | holds |
| `PenaltyFreezes` | the countdown with overlapping freezes; that time is always settled | 1 window, 2 freezes, 1 incident, 1 thread, time 0..3, 1 crash, `Prompt = TRUE` | holds |
| `PenaltyCompletedFrozen` | can a window complete while frozen (SST1)? | 1 window, 1 freeze | it can |
| `Outbox` | exactly-once effects and delivery | 3 events with a cascade of depth 2, 2 consumers, 2 publishers, 1 crash, 1 failing handler, batches of 2, 2 rounds | holds |
| `OutboxRetry` | is a failed handler run again? | the same, 1 publisher | it is not |
| `AdvancedMode` | waits, single pending request and progress, with overlapping commands | 2 requests, 2 threads, a wait and a minimum stay of 1 tick, time 0..2, either mode at first, `Prompt = TRUE` | holds |
| `MessageHandling` | turns in order and on what was said before, tasks assigned on what was reported, under any overlap of messages | 1 user, 3 messages (interchangeable), 1 template, 2 edits, 1 restart, exchanges of 1, 2 or 4 characters in a memory of 2 exchanges and 3 characters, 1 language, 2 voices with an identity each | holds |
| `MessageAnswers` | is every message answered? | 1 user, 3 messages, no template, 1 restart | it is |
| `Lifecycle` | does the plan follow the window through crashing startups? | 1 window, 1 freeze, 1 incident, 1 task, 2 startup processes, 1 command thread, time 0..2, 1 crash | holds |
| `Goals` | is what was accepted applied once and as proposed, and does a startup leave nothing overdue? | 2 goals, 2 proposals, 2 startups, 1 record, proposals that expire at time 1 (to come for one made at 0, at once for one made at 1), time 0..1 | holds |
| `Trust` | evidence exactly of what is assessed, applied once, a score that moves little | 2 domains, 3 incidents one of which is a legacy, 2 startups, reports of 2 severities, 1 response, time 0..1 | holds |
| `Chaster` | links, refresh tokens, observations and audit under overlap, failures and stops | 1 user and account, 2 links, 2 callbacks, 2 fetches, 1 unlock, lives of 1 tick, time 0..1 | holds |

Why the bounds are enough to be interesting. A base of 1 or 2 hours with targets of at
most 2 lets windows complete within the clock, two incidents of one rule reach and
exceed the cap, and two credits of a tick exceed half of a target. Two freezes give all
overlaps of two reasons, with and without expiry. Two publishers and a lease of one
tick let a claim expire under its holder as well as after a crash; three events against
batches of two need a second round. Two ticks let a request wait, be interrupted and
wait again, two requests let one be made while another is resolved, and two threads give
every pair of commands; starting in Advanced Mode as well lets the way back to Standard
complete within the clock. Three messages of one user let one enter the queue between
the leaving of the last and the making of a new entry, and let two answer a question
that a third one asked; a template with a version of each kind and two edits lets the
catalog be changed once between the selection and the assignment and once more, with a
report in between; sizes 1, 2 and 4 against 2 exchanges and 3 characters meet each limit
alone and both, and one exchange is too large by itself. Different users share only the
catalog and the mode; the proofs are for any number. Two proposals of one goal that are
accepted one after the other, by either order of adaptation, replacement and
abandonment, are the least that can spoil a version chain, and two startups the least
that can expire each other's proposals or repair each other's incidents; one legacy
incident and two others let a domain have evidence that is repaired but not applied
beside evidence that is. Two callbacks and two fetches give every race for a link or a
refresh token; a life of one tick makes links and access tokens expire at the second
moment, and a failure or a stop may come between any two steps. One user is enough there: users share nothing but Chaster's accounts, and the
theorems of `ChasterProofs` are for any number. The symmetric sets (windows, incidents,
completions, processes, messages, goals, proposals, startups, links, callbacks, fetches) are interchangeable; no liveness property is checked
under symmetry. `CHECK_DEADLOCK FALSE` is set where time and ids run out.

`MaxClock`, `MaxCrashes` (in `Lifecycle` also of startups that raise), `MaxRestarts`, `MaxFailing`, `MaxEdits`, `MaxRecords`, `Expiries` and the sizes of the id sets bound what the code
leaves unbounded. `MaxRounds`, `BatchSize`, `MaxExchanges` and
`MaxCharacters` are the code's own limits, made small.

Two runs disagree with the documentation:

1. `PenaltyCompletedFrozen`: `_complete_window()` overwrites a freeze that was
   committed after the completion was decided. `system_state_machine.md:454` says this
   cannot happen.
2. `OutboxRetry`: an event whose handler raised is marked published with its batch and
   never offered again; `consumer_registry.py:104` expects a later retry.

Other places where the code, as modelled, does not do what its documents say. No run
checks these; each is one step of a modelled action that a reader can follow:

- `propose_task()` does not look at the plan's status (`ProposeTask`);
  `recovery_plan_technical_design.md:419` says no task may be proposed on a completed plan.
- Between two `mode` commands nothing looks at the request, and the next command settles
  the penalty window before it advances the request. A window that opened and closed in
  between does not interrupt the wait; `advanced_mode_technical_design.md:320` says a full,
  uninterrupted wait always precedes the confirmation.
- `assign_task()` reads the current version of the selected template and decides its lock
  requirement again, but not whether it is still active (`LoadTemplate`);
  `task_catalog_technical_design.md:101` says deactivation prevents new instances.
- An expired proposal can be accepted until a startup expires it (`AcceptProposal`), and a
  proposal the startup listed that was resolved meanwhile aborts the startup
  (`ExpireListed`), though recovery is documented as idempotent. `complete_goal()` ends a
  goal without a proposal.
- A demoted incident keeps its assessment and evidence (`MoveConfirmation`), and can never
  be confirmed again: the second row of evidence violates the UNIQUE constraint. A startup
  may write the evidence of an incident that was demoted since it was listed, and two
  startups that repair the same one make the later one raise (`Repair`). Nothing reads
  whether a domain is active. The repetition of a report is taken from its caller.
- A refresh stores the new tokens under the account read when the fetch began
  (`PersistTokens`), so a callback that connected another account meanwhile is half
  overwritten. An observation is dated with the start of its fetch, not with Chaster's
  answer. A user whose connection needs authorization again cannot ask for a new link
  (`AskForLink`): any row counts as a connection. An unlock whose answer is lost is
  audited as failed though it happened (`PostUnlock`).

What holds only under an assumption, and is therefore assumed by name:

- `Prompt = TRUE` (`PenaltyFreezes`, `Lifecycle`): an operation is over before the clock
  ticks. Without it `CountdownIsUnfrozenTime` fails: an operation that was overtaken
  closes a freeze at its own older `now`, so frozen time counts as active.
- `Prompt = TRUE` (`AdvancedMode`): the same. Without it `WaitServed` and `MinimumStay`
  fail, because a command uses the `now` of its message: one that was overtaken by a tick
  starts a wait in the past. `TypeOK`, `PremiseHolds` and `ResolvedIsFinal` do not need
  it; they are proved without it. (`MinimumStay` and `ResolvedIsFinal` are stated in the
  module and proved; no run checks them.)
- `Alone` (`Lifecycle`): commands that change windows run one at a time, and not during
  the settling part of a startup. Without it an event may be written later but carry an
  earlier `created_at` than another one, and `PlanMirrorsWindow` fails.
- `Tick` (`Lifecycle`) lets no startup outlast its lease. The lease is never renewed, so
  one that does runs beside its successor.
- No startup is interrupted in the middle of its batch (`Raise`) and goes on to its
  `finally`. Ctrl-C would do that, since no handler of exceptions catches it: the lease is
  released at once (`startup.py:222`), while what was claimed stays claimed for five
  minutes. The next startup is offered only what was written since, handles it before what
  it follows, and the plan is left in the status of the older event:
  `domain_events_catalog.md:135` says that two events about one window must preserve their
  order. With that step added to `Raise`, the run `Lifecycle` finds `PlanMirrorsWindow`
  violated. A startup that is killed does no such harm: its lease outlasts its claims.
- The clock does not go back. `infrastructure/clock.py` reads the wall clock, which may.
- `PlanMirrorsWindow` is about handlers that do not fail; `OutboxRetry` shows what a
  failing one does.

## 4. Fairness

`PenaltyEngine.FairSpec`: every command that depends on the window's state, and every
startup, begins with `ensure_current_state()`, so it is begun again and again even if a
thread is busy with `start_window_if_eligible()` in between (`SF(BeginEnsure)`), and a thread that
has begun goes on (`WF(EnsureStep)`, `WF(StartWindowStep)`). Freezing, resuming, time and
crashes are not fair. A bound on crashes means that at some point no crash follows.

`Outbox.FairSpec`: events are published when the system is started, so the property
that they are all published in the end assumes that it is started again and again
(`WF(Start)`), that a publisher makes progress, and that time passes (`WF(Tick)`), because
a dead publisher's claims have to expire. Handlers are not assumed to succeed.
A crash is only modelled while its claims can still expire before the clock stops.

`AdvancedMode.FairSpec`: a request moves on only when the user sends a command, so the
property that it does assumes a user who keeps asking for the status
(`WF(Begin(t, "status"))`), and that a command that began goes on (`WF(Step)`). No
confirmation, no time and no end of a penalty window is assumed.

`MessageHandling.FairSpec`: the thread that handles a message goes on (`WF(Step(m))`):
the operating system schedules it, transactions end, and the model's call returns or
times out. No message has to be sent, nothing has to succeed, and `Restart`, bounded,
excuses the messages it loses.

`Lifecycle`, `Goals`, `Trust` and `Chaster` check safety only. The code gives the last
three nothing to wait for: no loop retries, a user, a browser or a startup has to come
again, and a fetch that fails is not repeated.

## 5. What is proved

Every safety property of a passing run is a theorem. The theorems hold for every value of
the constants, under the named assumptions on them, which the runs also evaluate: types of
the tables of rules and hours, `BaseHours <= MaxTarget`, `None` is no number or id, the
sets of incidents and of events are finite, (`FreshIds`) two writes never produce the same
event id, and (`ClaimsEndWithTheLease`) a publisher's claims last no longer than the
startup's lease, which are both five minutes in the code (`startup.py:42`,
`consumer_registry.py:126`). `EngineConstants` in `Lifecycle` restates for the composition what
`PenaltyEngine` assumes of the constants it shares.

`PenaltyEngineProofs`. The invariant `IInv` is the type of the database and the
threads, plus `RowInv` per window, `FreezeInv`, `IncidentInv`, `ThreadInv` and the
properties `FreezeSet`, `EventsTellStatus` and `OneFreshWindow`. None is inductive by
itself: that a listed row is still one that can expire (`ThreadInv`) needs that
`expires_at` never changes; that a window reread by a thread exists later needs that
windows are never deleted (`Monotone`); the cap on credit needs that targets only grow.
Each transaction has a lemma on the database (`ConsumeStep`, `FreezeStep`, `CloseStep`,
`CompleteStep`, `CreditStep`) which the direct path, the event path and the threads
share. From it follow `TypeOK`, `WellFormed`, `FreezeSet`, `ExtensionsWithinCap`,
`RecoveryCreditWithinHalf`, `EventsTellStatus`, `OneFreshWindow` and, proved only, the action
properties `DecisionsAreFinal` and `EmergencyEndsOnlyByResume`.

`CountdownIsUnfrozenTime` is proved under `Prompt`, with the invariant `CountInv` on top of
`IInv`. `Counted` says the count of a window that was never closed is right at this moment,
as the property does. A tick keeps it because whoever is FROZEN has an open freeze, whoever
is ACTIVE has none, and no freeze begins or ends in the future (`FreezesArePast`). A freeze
that is opened or closed now changes nothing about the ticks before now, because whatever
runs has the present as its `now` (`RunningNow`): this is what `Prompt` is for. A window
started late, at the time its incident was confirmed, was never frozen since, because
freezes are of windows that exist.

`OutboxProofs`. The invariant adds to types what each publisher has already tried of
its batch (`DispatchInv`, `Tried`), what its batch's claims say (`ClaimInv`), and that a
committed effect is recorded in `domain_event_consumers` (`EffectInv`). From it follow
exclusive claims, that no event is published untried, and the refinement
`Spec => ExactlyOnceEffects`: claims, redeliveries, failures and crashes are stutters
of `EffectOnce`, a committed handler run is one `Effect`.

`LifecycleProofs`. First the Recovery Plan by itself, with handlers that may run in any
order and any number of times: types, `LiveTasksAreCurrent` and that a plan's versions
start when the plan does; `HistoryStands` follows from the last. Then the composed system.
Its invariant `IInv` has five parts.

- `PEP!IInv`, the engine's own: a step of the system is one of the engine, or the death of
  some threads (`ThreadsDie`), or an operation that begins at the older `now` of its startup
  (`BeginEnsureStep`). So `WellFormed`, `FreezeSet`, `OneFreshWindow`, `EventsTellStatus` and
  the caps hold of the system too (`WindowsOfTheSystem`). The countdown is not among them: a
  startup that settles windows at its own `now` is what `Prompt` excludes in `PenaltyEngine`.
- `PlansInv` and `TasksHavePlans`.
- `LogInv`. The log tells each window's row by its last event (`WindowTold`), each plan by
  the last of them that was handled (`PlanTold`), and each completion by an event whose
  handling decided its credit (`CreditTold`). Events that have to be handled in an order are
  in it by `at` and by insertion, and one is handled only after those it follows
  (`Ordered`). That an event that is written comes no earlier than those it follows
  (`Later`) needs the next part.
- `LeaseInv` and `OperationInv`: whoever is in startup holds the lease, began no later than
  now and less than a lease ago; an operation under way has the time of its command or of
  the startup that settles, and nothing was written later than that.
- `Claims`: a startup that publishes has claimed a set of events that nothing pending
  precedes, and goes through it in order. A claim on an event that is not handled runs out
  no later than the lease there is, and has run out if there is none. That a successor may
  claim again what a dead startup claimed, and so does not overtake it, needs
  `ClaimsEndWithTheLease`; a startup that raises gives its lease back, but has handled what
  it claimed.

From it follow `TypeOK`, `OneStartupAtATime`, `PlanMirrorsWindow` (when every event was
handled the last that was handled is the last there is) and `CreditFollowsCompletion`, and
that the system implements the Recovery Plan (`SystemImplementsPlan`): each of its steps is
one of `RecoveryPlan` or leaves plans and tasks alone, so what is proved there of plans
holds here (`TasksOfTheSystem`).

`AdvancedModeProofs`. The invariant is `TypeOK`, `PremiseHolds` and, under `Prompt`,
`TimeInv`: every running command's `now` is the current time, and every request is
`Timely` (its wait began no later than now and no earlier than its last interruption; one
that awaits confirmation has waited; one back to Standard was made after the minimum
stay). `PremiseHolds` is inductive only together with the types, because a change of
mode must resolve the one request that starts from the old mode. From it follow
`ResolvedIsFinal` without, and `WaitServed` and `MinimumStay` with the assumption
`Prompt`.

`MessageHandlingProofs`. First the conversation by itself. `OneTurnAtATime` is not inductive: nothing in it says that a thread
that waits is on the entry the registry has, or who holds a ticket. `QueueInv` does: whoever
has begun stands in the line of the registered entry (`InTheirLines`), lines hold each
turn once and `active_count` is their length (`LinesAreSound`), a ticket is set for the
first in line only (`FirstIsServed`), and an entry that is registered is in use
(`RegisteredAreInUse`), which is why the entry may be deleted when the count gets to
zero. `NothingMissed` follows, because only a turn writes the memory. That `_trim()` ends
within the limits needs that nothing fits (`NothingFits`) and that a nonempty set of
numbers has a least one.

From the same invariant the conversation implements `SerialTurns` (`TurnsInOrder`), where a
turn is one step. The line of a subject is that of its registered entry; entering it is
`Arrive`, leaving it `Depart`, waking and reading show nothing, and a turn is taken
(`Answer`) when it is committed, or when the model's failure leaves nothing to commit. That
it hears then all that is remembered is `NothingMissed` (and
`FailuresHearNothing` where the reading failed); that it was first, `FirstIsServed`; that
no other line moves, that an entry has one owner (`EntriesAreOwned`); and that the
exchange just added is never the one forgotten, that a single one fits (`OneFits`,
`NewestStays`).
The run checks `TurnsInOrder`, which two turns of a subject at once would
refute; `OneTurnAtATime` itself, a lemma of it, is proved only.

Then the application. Every step of it is a step of `Tasks`, of
`Conversation`, or of neither (`StepsOfTheParts`), so `Spec => TasksSpec` and
`Spec => ConversationSpec`, and what is proved of the parts holds of the whole. `TasksInv` says of each command what it has read:
that a report it relies on was made since it began, that the version it is about to
assign exists and needs no more than that. `HandlingInv` says of each message that the
preferences it read are those there are, or earlier ones. From these follow `TypeOK`,
`OneTurnAtATime`, `NothingMissed`, `TurnsInOrder`, `AnswersStand`, `LockedWhenAssigned` and
`AssignmentsAreSettledOnce`. Assumed are the named assumptions of `Tasks` and
`MessageHandling` (limits of the memory are positive, as its constructor checks; `None`
is nobody and no answer; template ids are ordered).

`TrustProofs`. First the arithmetic, for every report and every context: severity is
monotone in the signs and weight in severity and response, so that a worse incident
never costs less trust; a recalculation is bounded by its cap; `should_extend()` is
monotone, spares exactly the isolated, disclosed, minor or moderate incident, and meets
its cap exactly. Then `AssessedAlways`. `AssessedWithEvidence` is not inductive: what a
startup will repair was listed in another transaction. `EvidenceInv` adds that whatever is on such a list was
reported and that what was reported has its report (`ReportsStay`), and that an incident
that is confirmed and not assessed is an older version's and still on the list of every
startup that is repairing (`LeftToRepair`): a startup can only be through once it has
dealt with each. The scores are left untyped there.

They are lowered by the sum of a set (`MapThenSumSet`, a fold), and what a sum of a finite
set is has to be shown by induction over the set. The library's induction takes the
predicate as a parameter; the lemmas here take a smallest counterexample instead (a set of
which the lemma fails and of no proper subset of which it does), which exists because
proper inclusion is well-founded on the subsets of a finite set. From these: a sum exists
(`SumsExist`), is the one of one element and the rest (`SumTakesOut`), of two disjoint sets
(`SumOfUnion`), and is not positive when no term is (`SumOfLosses`). `DomainInv` then says
that each domain's score is within its range and no lower than its first one and the
evidence applied account for (`FallInv`), that its confidence was computed from some number
of pieces (`SupportInv`), that an incident's domain exists (`Housed`) and that nothing is
applied that was not written (`AppliedIsWritten`), so that no piece is counted twice. From
it follow `TypeOK`, `FallIsAccountedFor` and `TrustMovesLittle`. Assumed is that incidents
are finitely many.

`GoalsProofs`. `VersionsFormAChain` is inductive only with the types and `RowsInv` (what is
not a goal has no row and no version): an adaptation appends the version after the goal's
current one, which is the last of its chain. `EndedOnceByProposal` counts proposals and
goals, so it is proved as `EndingInv`, which says the same of sets that need not be finite:
exactly one member, or none. `StartupsSettleOverdue` is about a startup that is through;
`RecoveryInv` says of one under way that what it has left was overdue when it listed it, and
that no other proposal made before its `now` is overdue then and still pending. A proposal
that is made later is not the startup's, though it may be overdue already: whoever proposes
may give any time of expiry (`Expiries`).

`ChasterProofs`. Each transaction and each call has a lemma that says what it does
(`BeginFetchStep`, `RefreshTokensStep`, `PostUnlockStep`, ...), which four invariants
share. `TypeInv` adds to `TypeOK` what a callback, a fetch and a request rely on at each
step: their user exists and is connected, their tokens were issued. `Stories` says for
each step of an unlock what its audit holds so far, from which `AuditTellsWhatHappened`
follows. `LinkInv` says that a link a callback was given is no longer pending.
`StoredTokenIsGood` needs that a pair of tokens is in one place only (`TokensApart`): in
the hands of one callback, of one fetch, or in one row; a fetch may share a pair with the
row it read it from and no other. Without it a refresh could spend the token of another
user's row, which nobody would be about to replace. `ObservationsAreAnswers` needs that
how locks are now is always among what a fetch under way may be told
(`ObservationInv`). Assumed are the named assumptions of `ChasterConnection`.

Only model-checked: the liveness properties (`ExpiredFreezeEnds`, `CountdownSettles`,
`EventuallyPublished`, `RequestsMoveOn`, `EveryMessageAnswered`), which need ENABLED and are
out of the provers' reach, and what the two runs show that refute a document.

## 6. Done, and left

Modelled, checked and for the most part proved: `PenaltyEngine`, `Outbox` over
`EffectOnce`, `RecoveryPlan`, `Lifecycle`, `AdvancedMode`, `MessageHandling` over `Tasks`
and `Conversation`, `Goals`, `Trust` over `TrustRubric`, `ExtensionPolicy`, and
`EmergencyUnlock` over `ChasterConnection`.

Every safety property the runs check is proved.

Left: an abstract specification still worth stating, with its refinement: a penalty
window as other modules see it (open, closed), refined by `PenaltyEngine`, which is what
`AdvancedMode` assumes of it.

## 7. Not modelled

- Plugins (`infrastructure/plugin_*`, `plugins/`): `discord_bot.main()` and
  `emergency_unlock_server.py` build their registries without loading any, so there is no
  behaviour of the running program a model could be compared with.
- Preference Profile: one pure lookup, with no state.
- Prompts, model calls, context and plan of a turn, validation of generated text: a turn is
  modelled up to whether a valid answer comes out.
- HTTP, OAuth encoding, encryption and the Discord library: external. What may come back
  from them is a choice of the models.
- `database/database.py` and `backup.py`: loading and storing rows, and copies of files.
  `migrate()` is worth knowing about: it runs each script with `executescript()`, outside a
  transaction, so that a stop inside a script that adds a column (007, 009, 015, 016, 018,
  020, 021 contain one) leaves it half applied, and a second process that starts meanwhile
  reads the same version. What that leads to depends on the text of each script, statement
  by statement, of which a model would be a copy; it is left to tests.
- Configuration, identity catalogue and the scripts for development: no behaviour over time.
- Commands that only read (`help`, `preferences`, `lock status`, and `status` and `mode status`
  beyond the settling they begin with, which is modelled).
