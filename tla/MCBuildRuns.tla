---------------------------- MODULE MCBuildRuns ----------------------------
(* Small instances of BuildRuns for TLC. *)
EXTENDS BuildRuns, TLC

CONSTANTS r1, r2, a1, a2, w1, w2

AllInCluster == [r \in Runs |-> "cluster"]
AllOnAgents == [r \in Runs |-> "agent"]
OneEach == [a \in Agents |-> 1]

WorkerSymmetry == Permutations(Workers)
RunSymmetry == Permutations(Runs)

=============================================================================
