------------------------------ MODULE MCChaster ------------------------------
(* Instances of ChasterConnection and EmergencyUnlock for TLC. *)
EXTENDS EmergencyUnlock, TLC

CONSTANTS u1, a1, l1, l2, b1, b2, f1, f2, q1

MCSymmetry == Permutations(Links) \union Permutations(Callbacks) \union Permutations(Fetches)

=============================================================================
