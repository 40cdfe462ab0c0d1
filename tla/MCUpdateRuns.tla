---------------------------- MODULE MCUpdateRuns ----------------------------
(* Small instances of UpdateRuns for TLC. *)
EXTENDS UpdateRuns, TLC

CONSTANTS w1, w2

=============================================================================
