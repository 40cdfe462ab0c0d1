-------------------------- MODULE UpdateLifecycle --------------------------
(***************************************************************************)
(* What a platform update promises an administrator, without workers,      *)
(* Jobs, pods or messages: the life of the rows of update_runs.            *)
(*                                                                         *)
(* An update is asked for while none is under way, and it says that it     *)
(* succeeded only when its target is installed.  It may say so late, or    *)
(* never: a row that has failed may be found under way again, while no     *)
(* other is, and a target may be installed after its row has failed.       *)
(*                                                                         *)
(* UpdateRuns implements this contract.                                    *)
(***************************************************************************)

CONSTANT Runs          \* the rows of update_runs

VARIABLES status,      \* update_runs.status, "absent" before the row exists
          installed    \* the runs whose target has been installed

vars == <<status, installed>>

UnderWay == {r \in Runs : status[r] \in {"pending", "running"}}

-----------------------------------------------------------------------------

Init ==
    /\ status = [r \in Runs |-> "absent"]
    /\ installed = {}

Set(r, s) == status' = [status EXCEPT ![r] = s]

\* The administrator asks for an update.
Request(r) ==
    /\ status[r] = "absent" /\ UnderWay = {}
    /\ Set(r, "pending")
    /\ UNCHANGED installed

\* The target is what is installed.
NothingToDo(r) ==
    /\ status[r] = "absent"
    /\ Set(r, "succeeded")
    /\ installed' = installed \cup {r}

Install(r) ==
    /\ status[r] # "absent"
    /\ installed' = installed \cup {r}
    /\ UNCHANGED status

\* A row is under way, or again, when no other is.
Run(r) ==
    /\ status[r] # "absent" /\ UnderWay \subseteq {r}
    /\ Set(r, "running")
    /\ UNCHANGED installed

Succeed(r) ==
    /\ status[r] # "absent" /\ r \in installed
    /\ Set(r, "succeeded")
    /\ UNCHANGED installed

Fail(r) ==
    /\ status[r] # "absent"
    /\ Set(r, "failed")
    /\ UNCHANGED installed

Next ==
    \E r \in Runs :
        Request(r) \/ NothingToDo(r) \/ Install(r) \/ Run(r) \/ Succeed(r) \/ Fail(r)

Spec == Init /\ [][Next]_vars

=============================================================================
