------------------------------ MODULE TenantGc ------------------------------
(***************************************************************************)
(* What remains of deleted services in the cluster.  A tick of the         *)
(* deployments job rolls out the deployments in flight from rows it read   *)
(* before, and then compares the namespaces with the services table: a     *)
(* namespace without services is deleted, elsewhere the workloads of       *)
(* deleted services, and volumes that a deleted namespace left behind are  *)
(* given back.  Users create, deploy and delete services meanwhile, and    *)
(* Kubernetes deletes a namespace in its own time.                         *)
(***************************************************************************)
EXTENDS Naturals

CONSTANTS
    Services, Envs,
    EnvOf,      \* the environment of a service
    Workers,    \* worker processes
    MaxFaults   \* bound: steps that fail, and namespaces an operator deletes by mistake

ASSUME TenantGcConstants ==
    /\ EnvOf \in [Services -> Envs]
    /\ MaxFaults \in Nat

VARIABLES
    service,    \* rows of services: not yet created, there, or deleted
    deploying,  \* services with a deployment in flight
    namespace,  \* per environment
    workload,   \* services with a Deployment in the cluster
    claim,      \* services with a volume claim, and a volume bound to it
    released,   \* services with a volume that was retained without its claim
    hand,       \* per worker: its place in the tick and what it read
    faults      \* failed steps and mistakes so far

vars == <<service, deploying, namespace, workload, claim, released, hand, faults>>
userVars == <<service, deploying>>
clusterVars == <<namespace, workload, claim, released>>

At == {"idle", "rollout", "apply", "gc", "reap", "volumes", "services", "reclaim"}
\* rows and envs are what it has left to do; held is the service in work, or the live
\* services it read of the environment in work, here.
Hand == [at : At, rows : SUBSET Services, envs : SUBSET Envs,
         held : SUBSET Services, here : SUBSET Envs]
Idle == [at |-> "idle", rows |-> {}, envs |-> {}, held |-> {}, here |-> {}]

TypeOK ==
    /\ service \in [Services -> {"new", "row", "deleted"}]
    /\ deploying \subseteq Services
    /\ \A s \in deploying : service[s] = "row"
    /\ namespace \in [Envs -> {"absent", "active", "terminating"}]
    /\ workload \subseteq Services
    /\ claim \subseteq Services
    /\ \A s \in workload : s \in claim /\ namespace[EnvOf[s]] # "absent"
    /\ \A s \in claim : namespace[EnvOf[s]] # "absent"
    /\ released \subseteq Services
    /\ hand \in [Workers -> Hand]
    /\ faults \in 0..MaxFaults

Init ==
    /\ service = [s \in Services |-> "new"]
    /\ deploying = {}
    /\ namespace = [e \in Envs |-> "absent"]
    /\ workload = {} /\ claim = {} /\ released = {}
    /\ hand = [w \in Workers |-> Idle]
    /\ faults = 0

Of(e) == {s \in Services : EnvOf[s] = e}
LiveIn(e) == {s \in Of(e) : service[s] = "row"}

-----------------------------------------------------------------------------
(* Users *)

CreateService(s) ==
    /\ service[s] = "new"
    /\ service' = [service EXCEPT ![s] = "row"]
    /\ UNCHANGED <<deploying, clusterVars, hand, faults>>

\* A deployment is enqueued and claimed.
Deploy(s) ==
    /\ service[s] = "row"
    /\ s \notin deploying
    /\ deploying' = deploying \cup {s}
    /\ UNCHANGED <<service, clusterVars, hand, faults>>

\* deleteService; the deployments go with the row.
DeleteService(s) ==
    /\ service[s] = "row"
    /\ service' = [service EXCEPT ![s] = "deleted"]
    /\ deploying' = deploying \ {s}
    /\ UNCHANGED <<clusterVars, hand, faults>>

\* Mutant: the deployments of a deleted environment stay.
DeleteServicesOnly(e) ==
    /\ \E s \in Of(e) : service[s] # "deleted"
    /\ service' = [s \in Services |-> IF s \in Of(e) THEN "deleted" ELSE service[s]]
    /\ UNCHANGED <<deploying, clusterVars, hand, faults>>

\* deleteEnvironment, teardownPreview: every service goes, and none can be created.
DeleteEnvironment(e) ==
    /\ \E s \in Of(e) : service[s] # "deleted"
    /\ service' = [s \in Services |-> IF s \in Of(e) THEN "deleted" ELSE service[s]]
    /\ deploying' = deploying \ Of(e)
    /\ UNCHANGED <<clusterVars, hand, faults>>

-----------------------------------------------------------------------------
(* Kubernetes *)

\* A terminating namespace is gone with all that is in it; retained volumes stay.
NamespaceGone(e) ==
    /\ namespace[e] = "terminating"
    /\ namespace' = [namespace EXCEPT ![e] = "absent"]
    /\ workload' = workload \ Of(e)
    /\ released' = released \cup (claim \cap Of(e))
    /\ claim' = claim \ Of(e)
    /\ UNCHANGED <<userVars, hand, faults>>

OperatorDeletes(e) ==
    /\ faults < MaxFaults
    /\ namespace[e] = "active"
    /\ namespace' = [namespace EXCEPT ![e] = "terminating"]
    /\ faults' = faults + 1
    /\ UNCHANGED <<userVars, workload, claim, released, hand>>

-----------------------------------------------------------------------------
(* A tick: rollouts *)

SetHand(w, h) == hand' = [hand EXCEPT ![w] = h]

\* reconcileInFlight reads the deployments in flight and their services.
ReadRows(w) ==
    /\ hand[w].at = "idle"
    /\ SetHand(w, [Idle EXCEPT !.at = "rollout", !.rows = deploying])
    /\ UNCHANGED <<userVars, clusterVars, faults>>

\* ensureNamespace creates what is missing; one that terminates is found and kept.
EnsureNamespace(w, s) ==
    /\ hand[w].at = "rollout"
    /\ s \in hand[w].rows
    /\ namespace' = IF namespace[EnvOf[s]] = "absent"
                    THEN [namespace EXCEPT ![EnvOf[s]] = "active"] ELSE namespace
    /\ SetHand(w, [hand[w] EXCEPT !.at = "apply", !.held = {s}])
    /\ UNCHANGED <<userVars, workload, claim, released, faults>>

Applied(w) == SetHand(w, [hand[w] EXCEPT !.at = "rollout", !.rows = @ \ hand[w].held, !.held = {}])

\* reconcileRuntime: the claim and then the Deployment; a later pass finds it and is done.
\* The row may have been deleted since it was read.
Apply(w) ==
    /\ hand[w].at = "apply"
    /\ \A s \in hand[w].held : namespace[EnvOf[s]] = "active"
    /\ claim' = claim \cup hand[w].held
    /\ workload' = workload \cup hand[w].held
    /\ deploying' = deploying \ (hand[w].held \cap workload)
    /\ Applied(w)
    /\ UNCHANGED <<service, namespace, released, faults>>

\* Nothing can be created in a namespace that terminates or is gone: retried in the next tick.
ApplyRefused(w) ==
    /\ hand[w].at = "apply"
    /\ \E s \in hand[w].held : namespace[EnvOf[s]] # "active"
    /\ Applied(w)
    /\ UNCHANGED <<userVars, clusterVars, faults>>

\* The call to the cluster fails, before or after the claim was created.
ApplyFails(w) ==
    /\ hand[w].at = "apply"
    /\ faults < MaxFaults
    /\ faults' = faults + 1
    /\ \A s \in hand[w].held : namespace[EnvOf[s]] = "active"
    /\ claim' \in {claim, claim \cup hand[w].held}
    /\ Applied(w)
    /\ UNCHANGED <<userVars, namespace, workload, released>>

-----------------------------------------------------------------------------
(* A tick: garbage collection *)

\* gcOrphans lists the namespaces once the rollouts are through.
ListNamespaces(w) ==
    /\ hand[w].at = "rollout" /\ hand[w].rows = {}
    /\ SetHand(w, [Idle EXCEPT !.at = "gc", !.envs = {e \in Envs : namespace[e] # "absent"}])
    /\ UNCHANGED <<userVars, clusterVars, faults>>

\* Mutant: only services that are deployed count as live.
DeployedServices(e) == LiveIn(e) \cap deploying
LiveServices(e) == LiveIn(e)

ReadServices(w, e) ==
    /\ hand[w].at = "gc"
    /\ e \in hand[w].envs
    /\ SetHand(w, [hand[w] EXCEPT !.at = "reap", !.envs = @ \ {e}, !.here = {e},
                                  !.held = LiveServices(e)])
    /\ UNCHANGED <<userVars, clusterVars, faults>>

\* Mutant: only namespaces are deleted.
ReapNamespaces(w) ==
    /\ hand[w].at = "reap"
    /\ namespace' = [e \in Envs |->
           IF hand[w].held = {} /\ e \in hand[w].here /\ namespace[e] = "active"
           THEN "terminating" ELSE namespace[e]]
    /\ SetHand(w, [hand[w] EXCEPT !.at = "gc", !.held = {}, !.here = {}])
    /\ UNCHANGED <<userVars, workload, claim, released, faults>>

\* Without services the namespace is deleted, otherwise the workloads of deleted ones.
\* Their claims stay.
Reap(w) ==
    /\ hand[w].at = "reap"
    /\ IF hand[w].held = {}
       THEN /\ namespace' = [e \in Envs |->
                 IF e \in hand[w].here /\ namespace[e] = "active" THEN "terminating" ELSE namespace[e]]
            /\ UNCHANGED workload
       ELSE /\ workload' = {s \in workload : EnvOf[s] \in hand[w].here => s \in hand[w].held}
            /\ UNCHANGED namespace
    /\ SetHand(w, [hand[w] EXCEPT !.at = "gc", !.held = {}, !.here = {}])
    /\ UNCHANGED <<userVars, claim, released, faults>>

\* reclaimReleasedVolumes lists the volumes.
ListVolumes(w) ==
    /\ hand[w].at = "gc" /\ hand[w].envs = {}
    /\ SetHand(w, [Idle EXCEPT !.at = "volumes", !.rows = released])
    /\ UNCHANGED <<userVars, clusterVars, faults>>

\* isNamespaceGone: only an absent namespace counts.
CheckNamespace(w, s) ==
    /\ hand[w].at = "volumes"
    /\ s \in hand[w].rows
    /\ SetHand(w, IF namespace[EnvOf[s]] = "absent"
                  THEN [hand[w] EXCEPT !.at = "services", !.held = {s}]
                  ELSE [hand[w] EXCEPT !.rows = @ \ {s}])
    /\ UNCHANGED <<userVars, clusterVars, faults>>

\* Mutant: a namespace that is gone is proof enough.
AnyVolume(s) == TRUE
Reclaimable(s) == LiveIn(EnvOf[s]) = {}

\* environmentHasServices has the final say.
CheckServices(w) ==
    /\ hand[w].at = "services"
    /\ SetHand(w, IF \A s \in hand[w].held : Reclaimable(s)
                  THEN [hand[w] EXCEPT !.at = "reclaim"]
                  ELSE [hand[w] EXCEPT !.at = "volumes", !.rows = @ \ hand[w].held, !.held = {}])
    /\ UNCHANGED <<userVars, clusterVars, faults>>

\* The volume is made to follow its claim, which is gone.
Reclaim(w) ==
    /\ hand[w].at = "reclaim"
    /\ released' = released \ hand[w].held
    /\ SetHand(w, [hand[w] EXCEPT !.at = "volumes", !.rows = @ \ hand[w].held, !.held = {}])
    /\ UNCHANGED <<userVars, namespace, workload, claim, faults>>

EndTick(w) ==
    /\ hand[w].at = "volumes" /\ hand[w].rows = {}
    /\ SetHand(w, Idle)
    /\ UNCHANGED <<userVars, clusterVars, faults>>

\* A read or a delete fails and ends the step of the tick, or the worker dies.
TickFails(w) ==
    /\ hand[w].at # "idle"
    /\ faults < MaxFaults
    /\ faults' = faults + 1
    /\ SetHand(w, Idle)
    /\ UNCHANGED <<userVars, clusterVars>>

-----------------------------------------------------------------------------
(* Specification *)

Users ==
    \/ \E s \in Services : CreateService(s) \/ Deploy(s) \/ DeleteService(s)
    \/ \E e \in Envs : DeleteEnvironment(e)

Cluster == \E e \in Envs : NamespaceGone(e) \/ OperatorDeletes(e)

Tick(w) ==
    \/ ReadRows(w) \/ Apply(w) \/ ApplyRefused(w) \/ ListNamespaces(w)
    \/ Reap(w) \/ ListVolumes(w) \/ CheckServices(w) \/ Reclaim(w) \/ EndTick(w)
    \/ \E s \in Services : EnsureNamespace(w, s) \/ CheckNamespace(w, s)
    \/ \E e \in Envs : ReadServices(w, e)

Next ==
    \/ Users \/ Cluster
    \/ \E w \in Workers : Tick(w) \/ ApplyFails(w) \/ TickFails(w)

Spec == Init /\ [][Next]_vars

\* The job runs on its interval and every call returns; Kubernetes finishes deletions.
FairSpec ==
    /\ Spec
    /\ \A w \in Workers : WF_vars(Tick(w))
    /\ \A e \in Envs : WF_vars(NamespaceGone(e))

-----------------------------------------------------------------------------
(* Properties *)

\* What the collector takes belongs to nobody: it neither deletes the workload of a service
\* that exists nor the namespace around it, although it decides from a copy of the services
\* table (tenant-gc.ts:22-41) that users change meanwhile.  An operator may.
LiveWorkloadSpared ==
    [][\A s \in workload : service[s] = "row" =>
        /\ s \in workload' \/ namespace[EnvOf[s]] = "terminating"
        /\ namespace'[EnvOf[s]] # "terminating" \/ namespace[EnvOf[s]] = "terminating"
           \/ faults' # faults]_vars

\* A retained volume of a service that exists is never given back, also when its namespace
\* was deleted by mistake and is missing until the next rollout: tenant-gc.ts:57.
LiveVolumeSpared ==
    [][\A s \in released : service[s] = "row" => s \in released']_vars

\* An environment without services leaves no namespace, workload, claim or volume behind,
\* whatever rollouts were in flight when it was emptied.
EmptyLeavesNothing ==
    \A e \in Envs :
        <>[](LiveIn(e) = {})
        => <>[](namespace[e] = "absent" /\ Of(e) \cap (workload \cup claim \cup released) = {})

\* The workload of a deleted service goes, and does not come back by a rollout that read
\* the row before.
WorkloadsReclaimed ==
    \A s \in Services : <>(service[s] = "deleted") => <>[](s \notin workload)

\* Nothing of what is deleted stays.
OrphansGo == EmptyLeavesNothing /\ WorkloadsReclaimed

\* A rollout gets through although its namespace may be terminating when it starts.
RolloutsEnd == \A s \in Services : s \in deploying ~> s \notin deploying

\* The cluster follows the rows in the end, with what goes and with what comes.
ClusterFollows == OrphansGo /\ RolloutsEnd

=============================================================================
