------------------------ MODULE DeploymentLifecycle ------------------------
(***************************************************************************)
(* What the deployment queue promises its users, without workers, leases,  *)
(* phases, builds or a cluster: the life of the rows of `deployments`.     *)
(*                                                                         *)
(* A row is queued, replaces the queued row of its service, is started     *)
(* only when no other row of its service is in flight, and ends exactly    *)
(* once.  A canceled rollout ends canceled, or failed when the previous    *)
(* release cannot be restored, and never as a success.  The module         *)
(* DeploymentQueue is shown to implement this one.                         *)
(***************************************************************************)

CONSTANTS Deployments,     \* the rows of `deployments`
          ServiceOf        \* deployments.service_id, fixed when the row is created

VARIABLE status            \* deployments.status, "none" before the row exists

-----------------------------------------------------------------------------

LifecycleStatus == {"none", "pending", "deploying", "canceling",
                    "succeeded", "failed", "canceled", "superseded"}

InFlightStatus == {"deploying", "canceling"}

Siblings(d) == {e \in Deployments : ServiceOf[e] = ServiceOf[d]}

Queued == {d \in Deployments : status[d] = "pending"}

Busy(s) == \E d \in Deployments : ServiceOf[d] = s /\ status[d] \in InFlightStatus

-----------------------------------------------------------------------------

Init == status = [d \in Deployments |-> "none"]

(* A new row is queued; the row that was queued for its service, if any,   *)
(* is superseded in the same step.                                         *)
Enqueue(d) ==
    /\ status[d] = "none"
    /\ status' = [e \in Deployments |->
                    IF e = d THEN "pending"
                    ELSE IF e \in Siblings(d) /\ status[e] = "pending" THEN "superseded"
                    ELSE status[e]]

(* Some queued rows of idle services start together, one per service.      *)
Start(S) ==
    /\ \A d \in S : status[d] = "pending" /\ ~Busy(ServiceOf[d])
    /\ \A d, e \in S : ServiceOf[d] = ServiceOf[e] => d = e
    /\ status' = [d \in Deployments |-> IF d \in S THEN "deploying" ELSE status[d]]

Move(d, from, to) == status[d] = from /\ status' = [status EXCEPT ![d] = to]

(* The user cancels a queued row at once, a started one by a rollback.     *)
Cancel(d) == Move(d, "pending", "canceled") \/ Move(d, "deploying", "canceling")

(* A rollout, or the rollback of a canceled one, ends.                     *)
Finish(d) ==
    \/ Move(d, "deploying", "succeeded")
    \/ Move(d, "deploying", "failed")
    \/ Move(d, "canceling", "canceled")
    \/ Move(d, "canceling", "failed")

Next ==
    \/ \E d \in Deployments : Enqueue(d) \/ Cancel(d) \/ Finish(d)
    \/ \E S \in SUBSET Deployments : Start(S)

Spec == Init /\ [][Next]_status

-----------------------------------------------------------------------------

(* At most one row of a service is rolled out or rolled back at a time:    *)
(* two would write the same Kubernetes Deployment in turns.                *)
OneInFlightPerService ==
    \A d, e \in Deployments :
        /\ status[d] \in InFlightStatus
        /\ status[e] \in InFlightStatus
        /\ ServiceOf[d] = ServiceOf[e]
        => d = e

(* At most one row of a service is queued: the newest request wins.        *)
OneQueuedPerService ==
    \A d, e \in Queued : ServiceOf[d] = ServiceOf[e] => d = e

=============================================================================
