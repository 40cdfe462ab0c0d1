-------------------------- MODULE MCRegistryPrune --------------------------
(* Small instances of RegistryPrune for TLC. *)
EXTENDS RegistryPrune

CONSTANTS w1, w2, g1, g2

\* Every build has the content of the first, but for a second attempt.
RetryDiffers == [t \in Tags |-> IF t[2] = 2 THEN g2 ELSE g1]

=============================================================================
