---------------------------- MODULE Conversation ----------------------------
(***************************************************************************)
(* conversation_engine/engine.py: one turn of conversation per message,    *)
(* under the ticket queue of subject_queue.py, over the exchanges that     *)
(* memory_system/working_memory.py keeps of each subject.                  *)
(*                                                                         *)
(* A turn is run by the thread that handles the message.  What runs under  *)
(* the registry lock or the memory's lock is one action.  An exchange is   *)
(* known by its message; what is said is left to the model, which may fail *)
(* or be found invalid.                                                    *)
(*                                                                         *)
(* The queue's entry of a subject is deleted when its last message leaves, *)
(* and made anew for the next: an entry is an object, named by the message *)
(* that made it, and a turn keeps a reference to the one it entered.       *)
(***************************************************************************)
EXTENDS Naturals, Sequences, SequencesExt

CONSTANTS
  Users,         \* subject_keys
  Messages,      \* messages that may be sent (bound)
  None,          \* no entry
  Sizes,         \* lengths an exchange may have
  MaxExchanges,  \* max_exchanges_per_subject
  MaxCharacters  \* max_characters_per_subject

VARIABLES
  registry, \* _entries: the entry of each subject, or None
  entries,  \* the entry objects: their tickets in line and active_count
  tickets,  \* the tickets that are set
  memory,   \* _exchanges of each subject, oldest first
  turns     \* the turns in progress

conversationVars == <<registry, entries, tickets, memory, turns>>

Entry == [waiting: Seq(Messages), count: Nat]

NoEntry == [waiting |-> <<>>, count |-> 0]

Exchange == [message: Messages, size: Nat]

TurnState ==
  [pc: {"idle", "waiting", "reading", "generating", "committing", "leaving", "done"},
   user: Users \union {None}, entry: Messages \union {None},
   history: Seq(Exchange), failed: BOOLEAN]  \* the snapshot read, and whether reading failed

Resting == [pc |-> "idle", user |-> None, entry |-> None, history |-> <<>>, failed |-> FALSE]

InTurn(m) == turns[m].pc \in {"reading", "generating", "committing", "leaving"}

Become(m, next) == turns' = [turns EXCEPT ![m] = next]
Goto(m, pc) == Become(m, [turns[m] EXCEPT !.pc = pc])

----------------------------------------------------------------------------
(* SubjectConversationQueue.turn() *)

\* Under the registry lock: a ticket at the end of the line, set at once if it is alone.
EnterQueue(m, u) ==
  LET e == IF registry[u] = None THEN m ELSE registry[u]
  IN /\ registry' = [registry EXCEPT ![u] = e]
     /\ entries' = [entries EXCEPT ![e] = [waiting |-> Append(@.waiting, m), count |-> @.count + 1]]
     /\ tickets' = IF entries[e].waiting = <<>> THEN tickets \union {m} ELSE tickets
     /\ Become(m, [Resting EXCEPT !.pc = "waiting", !.user = u, !.entry = e])

\* Mutant of LeaveQueue: the next in line is not woken.
LeaveSleeping(m) ==
  LET e == turns[m].entry
      rest == Tail(entries[e].waiting)
  IN /\ entries' = [entries EXCEPT ![e] = [waiting |-> rest, count |-> @.count - 1]]
     /\ tickets' = tickets
     /\ registry' = IF entries[e].count = 1
                      THEN [registry EXCEPT ![turns[m].user] = None] ELSE registry

\* Mutant of LeaveQueue: the last to come is woken.
LeaveWakingLast(m) ==
  LET e == turns[m].entry
      rest == Tail(entries[e].waiting)
  IN /\ entries' = [entries EXCEPT ![e] = [waiting |-> rest, count |-> @.count - 1]]
     /\ tickets' = IF rest # <<>> THEN tickets \union {Last(rest)} ELSE tickets
     /\ registry' = IF entries[e].count = 1
                      THEN [registry EXCEPT ![turns[m].user] = None] ELSE registry

\* Under the registry lock: the next in line is woken, an entry nobody uses is deleted.
LeaveQueue(m) ==
  LET e == turns[m].entry
      rest == Tail(entries[e].waiting)
  IN /\ entries' = [entries EXCEPT ![e] = [waiting |-> rest, count |-> @.count - 1]]
     /\ tickets' = IF rest # <<>> THEN tickets \union {Head(rest)} ELSE tickets
     /\ registry' = IF entries[e].count = 1
                      THEN [registry EXCEPT ![turns[m].user] = None] ELSE registry

----------------------------------------------------------------------------
(* InMemoryWorkingMemory *)

Characters(pairs) == FoldLeft(LAMBDA sum, pair : sum + pair.size, 0, pairs)

Fits(pairs) == Len(pairs) <= MaxExchanges /\ Characters(pairs) <= MaxCharacters

\* What is left without the n oldest.
Without(pairs, n) == SubSeq(pairs, n + 1, Len(pairs))

\* Mutant of Trimmed: one exchange is dropped at most.
TrimmedOnce(pairs) == IF Fits(pairs) THEN pairs ELSE Tail(pairs)

\* _trim(): whole exchanges go, oldest first, until both limits are met.
Trimmed(pairs) ==
  Without(pairs, Min({n \in 0..Len(pairs) : Fits(Without(pairs, n))}))

\* commit_exchange(): an exchange that is too large by itself is not stored.
CommitExchange(u, m, size) ==
  memory' = IF size > MaxCharacters
              THEN memory
              ELSE [memory EXCEPT ![u] = Trimmed(Append(@, [message |-> m, size |-> size]))]

----------------------------------------------------------------------------
(* ConversationEngine.generate_response() *)

BeginTurn(m, u) ==
  /\ turns[m].pc = "idle"
  /\ EnterQueue(m, u)
  /\ UNCHANGED memory

\* Mutant of Wake: the ticket is not waited for.
Barge(m) ==
  /\ turns[m].pc = "waiting"
  /\ Goto(m, "reading")
  /\ UNCHANGED <<registry, entries, tickets, memory>>

\* my_ticket.wait()
Wake(m) ==
  /\ turns[m].pc = "waiting" /\ m \in tickets
  /\ Goto(m, "reading")
  /\ UNCHANGED <<registry, entries, tickets, memory>>

\* _read_working_memory(): a failure leaves an empty history.
ReadMemory(m) ==
  /\ turns[m].pc = "reading"
  /\ \E failed \in BOOLEAN :
       Become(m, [turns[m] EXCEPT !.pc = "generating", !.failed = failed,
                    !.history = IF failed THEN <<>> ELSE memory[turns[m].user]])
  /\ UNCHANGED <<registry, entries, tickets, memory>>

\* Context, model and validation: a fallback, on any failure, is not committed.
Generate(m) ==
  /\ turns[m].pc = "generating"
  /\ \E valid \in BOOLEAN : Goto(m, IF valid THEN "committing" ELSE "leaving")
  /\ UNCHANGED <<registry, entries, tickets, memory>>

\* _commit_exchange(): the answer is given whether or not it can be stored.
Commit(m) ==
  /\ turns[m].pc = "committing"
  /\ \/ \E size \in Sizes : CommitExchange(turns[m].user, m, size)
     \/ UNCHANGED memory
  /\ Goto(m, "leaving")
  /\ UNCHANGED <<registry, entries, tickets>>

Leave(m) ==
  /\ turns[m].pc = "leaving"
  /\ LeaveQueue(m)
  /\ Become(m, [Resting EXCEPT !.pc = "done"])
  /\ UNCHANGED memory

TurnStep(m) == Wake(m) \/ ReadMemory(m) \/ Generate(m) \/ Commit(m) \/ Leave(m)

\* The process ends: queue and memory are gone, and so are the turns in progress.
ForgetConversation ==
  /\ registry' = [u \in Users |-> None]
  /\ entries' = [m \in Messages |-> NoEntry]
  /\ tickets' = {}
  /\ memory' = [u \in Users |-> <<>>]
  /\ turns' = [m \in Messages |->
                 IF turns[m].pc = "idle" THEN turns[m] ELSE [Resting EXCEPT !.pc = "done"]]

ConversationInit ==
  /\ registry = [u \in Users |-> None]
  /\ entries = [m \in Messages |-> NoEntry]
  /\ tickets = {}
  /\ memory = [u \in Users |-> <<>>]
  /\ turns = [m \in Messages |-> Resting]

ConversationNext ==
  \/ \E m \in Messages :
       \/ \E u \in Users : BeginTurn(m, u)
       \/ TurnStep(m)
  \/ ForgetConversation

ConversationSpec == ConversationInit /\ [][ConversationNext]_conversationVars

----------------------------------------------------------------------------
(* Properties *)

\* Types; and memory keeps within both limits, in the order of the commits.
ConversationTypeOK ==
  /\ registry \in [Users -> Messages \union {None}]
  /\ entries \in [Messages -> Entry]
  /\ tickets \subseteq Messages
  /\ turns \in [Messages -> TurnState]
  /\ memory \in [Users -> Seq(Exchange)]
  /\ \A u \in Users : Fits(memory[u])

\* At most one turn of a subject is in progress, and it is the first of those in line,
\* on the entry the registry has for the subject: though entries are deleted and made
\* anew while other threads are about to enter.
OneTurnAtATime ==
  \A m \in Messages : InTurn(m) =>
    /\ registry[turns[m].user] = turns[m].entry
    /\ Head(entries[turns[m].entry].waiting) = m
    /\ \A n \in Messages : InTurn(n) /\ turns[n].user = turns[m].user => n = m

\* Nothing is committed to a subject's memory between the reading of a turn and its
\* commit: what is answered takes into account every exchange before it, except
\* for a reading that failed.
NothingMissed ==
  \A m \in Messages :
    turns[m].pc \in {"generating", "committing"} /\ ~turns[m].failed
      => turns[m].history = memory[turns[m].user]

=============================================================================
