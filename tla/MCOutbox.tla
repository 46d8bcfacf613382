------------------------------ MODULE MCOutbox ------------------------------
(* A registry of two consumers and a cascade of depth two. *)
EXTENDS Outbox, TLC

CONSTANTS e1, e2, e3, c1, c2, p1, p2

\* e1 has two consumers; c1 reacts to it by writing e3, which c2 reacts to.
\* Nobody listens to e2.
MCSubscribed == [e \in Events |-> CASE e = e1 -> {c1, c2} [] e = e3 -> {c2} [] OTHER -> {}]
MCCascade == [e \in Events |-> [c \in Consumers |-> IF e = e1 /\ c = c1 THEN {e3} ELSE {}]]

Symmetry == Permutations(Publishers)

=============================================================================
