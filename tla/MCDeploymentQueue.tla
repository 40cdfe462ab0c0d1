------------------------- MODULE MCDeploymentQueue -------------------------
(* Small instances of DeploymentQueue for TLC. *)
EXTENDS DeploymentQueue, TLC

CONSTANTS app, api, w1, w2

\* Two deployments of app around one of api.
OwnersOfThree == [d \in 1..3 |-> IF d = 2 THEN api ELSE app]
\* Two deployments of one service.
OwnersOfTwo == [d \in 1..2 |-> app]

WorkerSymmetry == Permutations(Workers)

=============================================================================
