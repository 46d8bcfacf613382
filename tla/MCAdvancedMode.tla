--------------------------- MODULE MCAdvancedMode ---------------------------
(* Instances of AdvancedMode small enough for TLC. *)
EXTENDS AdvancedMode, TLC

CONSTANTS r1, r2, t1, t2

=============================================================================
