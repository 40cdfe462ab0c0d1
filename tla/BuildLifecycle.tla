--------------------------- MODULE BuildLifecycle ---------------------------
(***************************************************************************)
(* What a build run promises the deployment that waits for it, without     *)
(* workers, agents, leases or Jobs: it waits for capacity, executes, may   *)
(* lose its executor and wait once more, and ends exactly once.            *)
(*                                                                         *)
(* BuildRuns implements this contract; DeploymentQueue, which sees builds  *)
(* from the outside, relies on it.                                         *)
(***************************************************************************)

CONSTANT Runs       \* the rows of build_runs, one per deployment

VARIABLE run        \* status and attempt of each run

-----------------------------------------------------------------------------

\* The 2 marks the second and last attempt.
Waiting == {"queued", "queued2"}
Executing == {"active", "active2"}
Ended == {"succeeded", "failed", "canceled"}

Moves ==
    {<<"none", "queued">>, <<"none", "active">>}                 \* enqueued (and reserved)
    \cup {<<"queued", "active">>, <<"queued2", "active2">>}       \* capacity is reserved
    \cup {<<"active", "queued2">>}                                \* the executor is lost
    \cup (Executing \X {"succeeded"})
    \cup ((Waiting \cup Executing) \X {"failed", "canceled"})

Init == run = [r \in Runs |-> "none"]

\* One statement may move several runs: revoking an agent fails all of its.
Next ==
    /\ run' \in [Runs -> {"none"} \cup Waiting \cup Executing \cup Ended]
    /\ \A r \in Runs : run'[r] = run[r] \/ <<run[r], run'[r]>> \in Moves

Spec == Init /\ [][Next]_run

=============================================================================
