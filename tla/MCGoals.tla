------------------------------- MODULE MCGoals -------------------------------
(* An instance of Goals for TLC: two proposals of one goal, a goal that may replace it. *)
EXTENDS Goals, TLC

CONSTANTS g1, g2, p1, p2, r1, r2

MCSymmetry == Permutations(GoalIds) \union Permutations(Proposals) \union Permutations(Recoveries)

=============================================================================
