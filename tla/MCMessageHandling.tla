------------------------- MODULE MCMessageHandling -------------------------
(* Instances of MessageHandling for TLC. *)
EXTENDS MessageHandling, TLC

CONSTANTS female, male, eve, adam

MCContents == {[modes |-> {"standard"}, locked |-> FALSE], [modes |-> Modes, locked |-> TRUE]}
MCGroupOf == eve :> female @@ adam :> male

\* Messages are only compared; no liveness is checked with it.
MCSymmetry == Permutations(Messages)

=============================================================================
