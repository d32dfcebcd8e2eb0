------------------------- MODULE MCStreamAggregate -------------------------
(* The answers of a provider that sends up to MaxEvents events.            *)
EXTENDS StreamAggregate, TLC

MCSymmetry == Permutations(Contents)
=============================================================================
