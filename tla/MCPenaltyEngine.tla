--------------------------- MODULE MCPenaltyEngine ---------------------------
(* Instances of PenaltyEngine small enough for TLC. *)
EXTENDS PenaltyEngine, TLC

CONSTANTS w1, w2, f1, f2, i1, i2, c1, c2, t1, t2, r1

\* The incidents break one rule, so that the second one of a window extends it.
MCRule == [i \in Incidents |-> r1]
MCUncapped == [i \in Incidents |-> [n \in 1..Cardinality(Incidents) |-> 2 * (n - 1)]]

\* Each task is worth a tick: two of them exceed half of a target of two.
MCTaskHours == [c \in Completions |-> 2]

Symmetry == Permutations(Windows) \union Permutations(Freezes) \union Permutations(Threads)
              \union Permutations(Completions) \union Permutations(Incidents)

=============================================================================
