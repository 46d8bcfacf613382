---------------------------- MODULE SerialTurns ----------------------------
(***************************************************************************)
(* What a conversation promises whoever takes part in it: the messages of  *)
(* a subject stand in one line, in the order they came, and each turn is   *)
(* one step, taken when its message is first: it hears all that is         *)
(* remembered, or nothing where that could not be read, and what it adds   *)
(* comes last; only the oldest is ever forgotten.  Nothing is said of      *)
(* entries, tickets, locks and threads: none of them may show.             *)
(***************************************************************************)
EXTENDS Naturals, Sequences

CONSTANTS Users, Messages, Sizes

VARIABLES
  came,    \* the messages that ever stood in line
  line,    \* of each subject, those that do
  over,    \* those in line whose turn is over
  heard,   \* what they heard
  memory   \* what is remembered of each subject

vars == <<came, line, over, heard, memory>>

Nothing == [m \in Messages |-> <<>>]

Init ==
  /\ came = {} /\ over = {} /\ heard = Nothing
  /\ line = [u \in Users |-> <<>>]
  /\ memory = [u \in Users |-> <<>>]

Arrive(m, u) ==
  /\ m \notin came
  /\ came' = came \union {m}
  /\ line' = [line EXCEPT ![u] = Append(@, m)]
  /\ UNCHANGED <<over, heard, memory>>

First(m, u) == line[u] # <<>> /\ Head(line[u]) = m

Remember(u, pair) ==
  \E n \in 0..Len(memory[u]) :
    memory' = [memory EXCEPT ![u] = SubSeq(Append(@, pair), n + 1, Len(@) + 1)]

\* The turn of m.
Answer(m, u) ==
  /\ First(m, u) /\ m \notin over
  /\ over' = over \union {m}
  /\ \E h \in {memory[u], <<>>} : heard' = [heard EXCEPT ![m] = h]
  /\ \/ \E size \in Sizes : Remember(u, [message |-> m, size |-> size])
     \/ UNCHANGED memory
  /\ UNCHANGED <<came, line>>

Depart(m, u) ==
  /\ First(m, u) /\ m \in over
  /\ line' = [line EXCEPT ![u] = Tail(@)]
  /\ over' = over \ {m}
  /\ heard' = [heard EXCEPT ![m] = <<>>]
  /\ UNCHANGED <<came, memory>>

\* The process ends, and all it had in its memory.
Forget ==
  /\ over' = {} /\ heard' = Nothing
  /\ line' = [u \in Users |-> <<>>]
  /\ memory' = [u \in Users |-> <<>>]
  /\ UNCHANGED came

Next ==
  \/ \E m \in Messages, u \in Users : Arrive(m, u) \/ Answer(m, u) \/ Depart(m, u)
  \/ Forget

Spec == Init /\ [][Next]_vars

=============================================================================
