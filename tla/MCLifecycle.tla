---------------------------- MODULE MCLifecycle ----------------------------
(* Instances of Lifecycle small enough for TLC. *)
EXTENDS Lifecycle, TLC

CONSTANTS w1, w2, f1, i1, i2, k1, p1, p2, t1, r1

MCRule == [i \in Incidents |-> r1]
MCUncapped == [i \in Incidents |-> [n \in 1..Cardinality(Incidents) |-> n]]
MCTaskHours == [k \in Tasks |-> 1]

Symmetry == Permutations(Windows) \union Permutations(Incidents) \union Permutations(Processes)

=============================================================================
