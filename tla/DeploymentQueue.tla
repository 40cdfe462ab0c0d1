-------------------------- MODULE DeploymentQueue --------------------------
(***************************************************************************)
(* The deployment queue: rows of `deployments` that the API creates and    *)
(* cancels and that worker replicas claim, roll out and roll back.         *)
(*                                                                         *)
(* A worker is a controller: every tick it claims queued rows in one       *)
(* transaction, selects a snapshot of the rows it owns (or whose lease     *)
(* expired) and works through that snapshot row by row.  Between the       *)
(* snapshot and the guarded UPDATE that ends a row's turn, users cancel,   *)
(* peers take over and the cluster moves on; those are the interleavings   *)
(* of this module.  One action stands for one transaction, one statement   *)
(* or one call to the cluster.                                             *)
(*                                                                         *)
(* Builds are seen from the outside here (the variable run); BuildRuns.tla *)
(* has their queue, leases and attempts.                                   *)
(***************************************************************************)
EXTENDS Integers, FiniteSets

CONSTANTS
    Services,        \* the services that are deployed
    BuildServices,   \* those whose image is built from source
    MaxDeployments,  \* bound: rows ever created; ids are in created_at order
    ServiceOf,       \* deployments.service_id
    Workers,         \* worker replicas
    NoWorker,        \* locked_by is null, or names a pod that is gone
    MaxConcurrent,   \* the live setting maxConcurrentDeployments
    ClaimBatch,      \* CLAIM_BATCH
    MaxRollbacks,    \* MAX_CANCEL_ROLLBACK_ATTEMPTS
    MaxOpenEnqueues, \* bound: enqueue transactions that are open at once
    MaxFaults,       \* bound: worker crashes and failed calls
    SlowWorkers,     \* may a live worker outlive its own lease?
    RegistryReliable \* does the registry answer every probe for a pushed image?

Deployments == 1..MaxDeployments

ASSUME QueueConstants ==
    /\ MaxDeployments \in Nat
    /\ Workers # {}
    /\ BuildServices \subseteq Services
    /\ ServiceOf \in [Deployments -> Services]
    /\ NoWorker \notin Workers
    /\ MaxConcurrent \in Nat \ {0}
    /\ ClaimBatch \in Nat \ {0}
    /\ MaxRollbacks \in Nat \ {0}
    /\ MaxOpenEnqueues \in Nat
    /\ MaxFaults \in Nat
    /\ SlowWorkers \in BOOLEAN
    /\ RegistryReliable \in BOOLEAN

VARIABLES
    status,            \* deployments.status; "opening" is a transaction not yet committed
    phase,             \* deployments.phase
    lockedBy,          \* deployments.locked_by
    leaseLive,         \* deployments.locked_at is younger than the lease timeout
    rollbackAttempts,  \* deployments.rollback_attempts
    run,               \* build_runs.status and attempt of the deployment
    pushed,            \* the registry holds the deployment's built image
    live,              \* per service: the deployment whose manifest the cluster holds
    rollout,           \* per service: what the cluster reports of that manifest
    step,              \* per worker: where it is in its tick
    rows,              \* per worker: the snapshot rows still to be reconciled
    row,               \* per worker: the snapshot row in hand
    result,            \* per worker: what the deployer returned for it
    faults             \* crashes and failed calls so far

buildVars   == <<run, pushed>>
dbVars      == <<status, phase, lockedBy, leaseLive, rollbackAttempts>>
clusterVars == <<live, rollout>>
workerVars  == <<step, rows, row, result>>
vars == <<dbVars, buildVars, clusterVars, workerVars, faults>>

-----------------------------------------------------------------------------
(* Values *)

None == 0                  \* no deployment

Status == {"none", "opening", "pending", "deploying", "canceling",
           "succeeded", "failed", "canceled", "superseded"}

\* RECONCILE_IN_FLIGHT_STATUSES
InFlightStatus == {"deploying", "canceling"}
TerminalStatus == {"succeeded", "failed", "canceled", "superseded"}

\* A row in one of these phases waits for its image and holds no rollout slot.
BuildPhase == {"building", "build-queued"}
Phase == BuildPhase \cup
         {"null", "applying", "rolling-out", "error", "rollback-retrying",
          "done", "failed", "canceled"}

\* "active": preparing, ready or running; the 2 marks the second attempt.
RunStatus == {"none", "queued", "active", "queued2", "active2",
              "succeeded", "failed", "canceled"}

\* Mutant: a run that has succeeded is canceled as well.
CancelableOrBuilt == {"queued", "active", "queued2", "active2", "succeeded"}
CancelableRun == {"queued", "active", "queued2", "active2"}

RolloutStatus == {"absent", "progressing", "error", "failed", "ready"}

Step == {"claim", "select", "rows", "deploy", "promote", "converge", "apply",
         "cancel", "rollback", "settle"}

\* What a deployer returns: {state, phase} flattened to one value.
Result == {"none", "ready", "failed", "error", "applying", "rolling-out",
           "building", "build-queued", "torn-down", "build-canceled"}

Snapshot == [id : Deployments, status : InFlightStatus, phase : Phase,
             attempts : 0..MaxRollbacks]
NoRow == [id |-> None]

-----------------------------------------------------------------------------
(* Queries *)

Of(s) == {d \in Deployments : ServiceOf[d] = s}
IsBuildDeployment(d) == ServiceOf[d] \in BuildServices
InFlight == {d \in Deployments : status[d] \in InFlightStatus}
Opening == {d \in Deployments : status[d] = "opening"}

\* The rows counted against the deployment cap.
Occupying == {d \in InFlight : phase[d] \notin BuildPhase}

Busy(s) == \E d \in Of(s) : status[d] \in InFlightStatus

\* Mutant: a service whose rollout is being canceled counts as idle.
ClaimableDuringCancel ==
    {d \in Deployments : status[d] = "pending"
        /\ \A e \in Of(ServiceOf[d]) : status[e] # "deploying"}

Claimable == {d \in Deployments : status[d] = "pending" /\ ~Busy(ServiceOf[d])}

\* ORDER BY created_at LIMIT n
Oldest(S, n) == {d \in S : Cardinality({e \in S : e < d}) < n}

\* Math.max(0, Math.min(batch, max - inflight))
ClaimLimit ==
    LET free == MaxConcurrent - Cardinality(Occupying)
    IN  IF free < 0 THEN 0 ELSE IF free < ClaimBatch THEN free ELSE ClaimBatch

\* Mutant: a promotion does not leave the last slot to the row that has it.
SlotFreeAtCap == Cardinality(Occupying) <= MaxConcurrent

SlotFree == Cardinality(Occupying) < MaxConcurrent

OlderSuccesses(d) == {e \in Of(ServiceOf[d]) : status[e] = "succeeded" /\ e < d}

\* e is the deployment a canceled d is rolled back to.
IsPreviousSuccessful(e, d) ==
    e \in OlderSuccesses(d) /\ \A f \in OlderSuccesses(d) : f <= e

\* Mutant: the rows of a dead worker are left to it.
HeldBy(w) == {d \in InFlight : lockedBy[d] = w}
\* Mutant: ended rows are reconciled again.
HeldInAnyStatus(w) ==
    {d \in Deployments : lockedBy[d] = w \/ (status[d] \in InFlightStatus /\ ~leaseLive[d])}

\* The rows a tick of w works on: its own, and those with a dead lease.
Reconcilable(w) == {d \in InFlight : lockedBy[d] = w \/ ~leaseLive[d]}

SnapshotOf(d) == [id |-> d, status |-> status[d], phase |-> phase[d],
                  attempts |-> rollbackAttempts[d]]

-----------------------------------------------------------------------------

Init ==
    /\ status = [d \in Deployments |-> "none"]
    /\ phase = [d \in Deployments |-> "null"]
    /\ lockedBy = [d \in Deployments |-> NoWorker]
    /\ leaseLive = [d \in Deployments |-> FALSE]
    /\ rollbackAttempts = [d \in Deployments |-> 0]
    /\ run = [d \in Deployments |-> "none"]
    /\ pushed = [d \in Deployments |-> FALSE]
    /\ live = [s \in Services |-> None]
    /\ rollout = [s \in Services |-> "absent"]
    /\ step = [w \in Workers |-> "claim"]
    /\ rows = [w \in Workers |-> {}]
    /\ row = [w \in Workers |-> NoRow]
    /\ result = [w \in Workers |-> "none"]
    /\ faults = 0

-----------------------------------------------------------------------------
(* The API *)

(* BEGIN of an enqueue transaction.  created_at defaults to now(), the     *)
(* start of the transaction, so this is where a row gets its place in the  *)
(* created_at order, before it waits for the advisory lock.                *)
BeginEnqueue(d) ==
    /\ status[d] = "none"
    /\ \A e \in Deployments : e < d => status[e] # "none"
    /\ Cardinality(Opening) < MaxOpenEnqueues
    /\ status' = [status EXCEPT ![d] = "opening"]
    /\ UNCHANGED <<phase, lockedBy, leaseLive, rollbackAttempts, buildVars,
                   clusterVars, workerVars, faults>>

SupersededBy(d) == {e \in Of(ServiceOf[d]) : status[e] = "pending"}

(* COMMIT under the per-service advisory lock: supersede, then insert.     *)
CommitEnqueue(d) ==
    /\ status[d] = "opening"
    /\ status' = [e \in Deployments |->
                    IF e = d THEN "pending"
                    ELSE IF e \in SupersededBy(d) THEN "superseded"
                    ELSE status[e]]
    /\ UNCHANGED <<phase, lockedBy, leaseLive, rollbackAttempts, buildVars,
                   clusterVars, workerVars, faults>>

(* A user cancels: a queued row ends at once, a started one is handed to   *)
(* the workers; any other status is answered without a change.             *)
CancelDeployment(d) ==
    /\ \/ /\ status[d] = "pending"
          /\ status' = [status EXCEPT ![d] = "canceled"]
          /\ phase' = [phase EXCEPT ![d] = "canceled"]
          /\ UNCHANGED rollbackAttempts
       \/ /\ status[d] = "deploying"
          /\ status' = [status EXCEPT ![d] = "canceling"]
          /\ rollbackAttempts' = [rollbackAttempts EXCEPT ![d] = 0]
          /\ UNCHANGED phase
    /\ UNCHANGED <<lockedBy, leaseLive, buildVars, clusterVars, workerVars, faults>>

-----------------------------------------------------------------------------
(* A worker's tick *)

(* Claim, under the capacity lock: the oldest claimable rows up to the     *)
(* free slots.  SKIP LOCKED passes over rows an open enqueue has locked.   *)
Claim(w) ==
    /\ step[w] = "claim"
    /\ \E locked \in SUBSET {d \in Claimable : Opening \cap Of(ServiceOf[d]) # {}} :
        LET claimed == Oldest(Claimable \ locked, ClaimLimit)
            set(f, v) == [d \in Deployments |-> IF d \in claimed THEN v ELSE f[d]]
        IN  /\ status' = set(status, "deploying")
            /\ phase' = set(phase, "applying")
            /\ lockedBy' = set(lockedBy, w)
            /\ leaseLive' = set(leaseLive, TRUE)
    /\ step' = [step EXCEPT ![w] = "select"]
    /\ UNCHANGED <<rollbackAttempts, buildVars, clusterVars, rows, row, result, faults>>

(* Select the snapshot: rows this worker holds and rows with a dead lease. *)
Select(w) ==
    /\ step[w] = "select"
    /\ rows' = [rows EXCEPT ![w] = {SnapshotOf(d) : d \in Reconcilable(w)}]
    /\ step' = [step EXCEPT ![w] = IF Reconcilable(w) = {} THEN "claim" ELSE "rows"]
    /\ UNCHANGED <<dbVars, buildVars, clusterVars, row, result, faults>>

(* Take the next row of the snapshot and (re)assert its lease, which takes *)
(* the row over whoever holds it, unless it is terminal by now.  What is   *)
(* done with the row depends on the status in the snapshot.                *)
TakeRow(w) ==
    /\ step[w] = "rows"
    /\ \E r \in rows[w] :
        /\ rows' = [rows EXCEPT ![w] = @ \ {r}]
        /\ row' = [row EXCEPT ![w] = r]
        /\ IF status[r.id] \in InFlightStatus
           THEN /\ lockedBy' = [lockedBy EXCEPT ![r.id] = w]
                /\ leaseLive' = [leaseLive EXCEPT ![r.id] = TRUE]
           ELSE UNCHANGED <<lockedBy, leaseLive>>
        /\ step' = [step EXCEPT ![w] =
                      IF r.status = "canceling" THEN "cancel" ELSE "deploy"]
    /\ UNCHANGED <<status, phase, rollbackAttempts, buildVars, clusterVars, result, faults>>

\* The deployer answers: the answer is applied in a later step.
Return(w, answer, next) ==
    /\ result' = [result EXCEPT ![w] = answer]
    /\ step' = [step EXCEPT ![w] = next]
    /\ UNCHANGED <<rows, row>>

\* The row's turn is over; the tick ends with the last row.
EndRow(w) ==
    /\ row' = [row EXCEPT ![w] = NoRow]
    /\ result' = [result EXCEPT ![w] = "none"]
    /\ step' = [step EXCEPT ![w] = IF rows[w] = {} THEN "claim" ELSE "rows"]
    /\ UNCHANGED rows

\* Mutant: the UPDATE is not guarded by the status.
IsAnyStatus(d, expected) == TRUE

\* finalize and the phase updates: only if the row still has that status.
StillIs(d, expected) == status[d] = expected

-----------------------------------------------------------------------------
(* Rolling a row out *)

(* A reference to a sibling service does not resolve: a terminal failure.  *)
Unresolvable(w) ==
    /\ step[w] = "deploy"
    /\ Return(w, "failed", "apply")
    /\ UNCHANGED <<dbVars, buildVars, clusterVars, faults>>

(* runBuildReconcile up to the point where the image is known to exist.    *)
Build(w) ==
    /\ step[w] = "deploy"
    /\ IsBuildDeployment(row[w].id)
    /\ LET d == row[w].id
           waiting == \E p \in BuildPhase : Return(w, p, "apply")
           retry == run[d] = "queued2"
       IN  \/ /\ run[d] \in {"failed", "canceled"}
              /\ Return(w, "failed", "apply")
              /\ UNCHANGED run
           \/ /\ run[d] \notin {"failed", "canceled"}
              /\ pushed[d]
              /\ Return(w, "none", "promote")
              /\ UNCHANGED run
           \/ /\ run[d] \in {"active", "active2"}
              /\ ~pushed[d]
              /\ waiting
              /\ UNCHANGED run
           \/ /\ run[d] \in {"none", "queued", "queued2"}
              /\ ~pushed[d]
              /\ \/ run' = [run EXCEPT ![d] = IF retry THEN "active2" ELSE "active"] /\ waiting
                 \/ /\ run' = [run EXCEPT ![d] = IF retry THEN "queued2" ELSE "queued"]
                    /\ Return(w, "build-queued", "apply")        \* no build capacity
                 \/ UNCHANGED run /\ Return(w, "failed", "apply") \* invalid configuration
    /\ UNCHANGED <<dbVars, pushed, clusterVars, faults>>

(* The finished Job is gone and the registry does not answer the probe for *)
(* its image: the build starts again, whatever the row has reached.        *)
Rebuild(w) ==
    /\ ~RegistryReliable
    /\ faults < MaxFaults
    /\ step[w] = "deploy"
    /\ IsBuildDeployment(row[w].id)
    /\ pushed[row[w].id]
    /\ run[row[w].id] \in {"succeeded", "queued2"}
    /\ faults' = faults + 1
    /\ run' = [run EXCEPT ![row[w].id] = IF @ = "queued2" THEN "active2" ELSE @]
    /\ Return(w, "building", "apply")
    /\ UNCHANGED <<dbVars, pushed, clusterVars>>

(* reserveBuildDeployment, under the capacity lock: a built image waits    *)
(* for a rollout slot like a claimed row does.                             *)
Promote(w) ==
    /\ step[w] = "promote"
    /\ LET d == row[w].id
       IN  \/ /\ status[d] # "deploying"
              /\ Return(w, "build-queued", "apply")
              /\ UNCHANGED phase
           \/ /\ status[d] = "deploying"
              /\ phase[d] \notin BuildPhase
              /\ Return(w, "none", "converge")
              /\ UNCHANGED phase
           \/ /\ status[d] = "deploying"
              /\ phase[d] \in BuildPhase
              /\ ~SlotFree
              /\ Return(w, "build-queued", "apply")
              /\ UNCHANGED phase
           \/ /\ status[d] = "deploying"
              /\ phase[d] \in BuildPhase
              /\ SlotFree
              /\ phase' = [phase EXCEPT ![d] = "applying"]
              /\ Return(w, "none", "converge")
    /\ UNCHANGED <<status, lockedBy, leaseLive, rollbackAttempts, buildVars, clusterVars, faults>>

(* reconcileRuntime: write the manifest of deployment d when the cluster   *)
(* holds another one (or none), else report what the rollout has come to.  *)
ReconcileRuntime(w, d, next) ==
    LET s == ServiceOf[d]
    IN  IF live[s] # d
        THEN /\ live' = [live EXCEPT ![s] = d]
             /\ rollout' = [rollout EXCEPT ![s] = "progressing"]
             /\ Return(w, "applying", next)
        ELSE /\ Return(w, CASE rollout[s] = "ready" -> "ready"
                            [] rollout[s] = "failed" -> "failed"
                            [] rollout[s] = "error" -> "error"
                            [] OTHER -> "rolling-out", next)
             /\ UNCHANGED clusterVars

Converge(w) ==
    /\ \/ step[w] = "deploy" /\ ~IsBuildDeployment(row[w].id)
       \/ step[w] = "converge"
    /\ ReconcileRuntime(w, row[w].id, "apply")
    /\ UNCHANGED <<dbVars, buildVars, faults>>

(* applyReconcileResult: every write is guarded by status = deploying.     *)
ApplyResult(w) ==
    /\ step[w] = "apply"
    /\ LET d == row[w].id
           answer == result[w]
       IN  IF ~StillIs(d, "deploying") THEN UNCHANGED <<status, phase>>
           ELSE CASE answer = "ready" ->
                       /\ status' = [status EXCEPT ![d] = "succeeded"]
                       /\ phase' = [phase EXCEPT ![d] = "done"]
                  [] answer = "failed" ->
                       /\ status' = [status EXCEPT ![d] = "failed"]
                       /\ phase' = [phase EXCEPT ![d] = "failed"]
                  [] OTHER ->
                       /\ phase' = [phase EXCEPT ![d] = answer]
                       /\ UNCHANGED status
    /\ EndRow(w)
    /\ UNCHANGED <<lockedBy, leaseLive, rollbackAttempts, buildVars, clusterVars, faults>>

-----------------------------------------------------------------------------
(* Rolling a canceled row back *)

HasCancelableRun(d) == IsBuildDeployment(d) /\ run[d] \in CancelableRun

\* Mutant: canceling a build never looks at what the row has reached.
CancelsAnyBuild(r) == IsBuildDeployment(r.id)

\* The row ends with its build: the build was canceled before it reached
\* the runtime, or its Job still runs (the cluster's answer, hence free).
CancelsBuildOnly(r) ==
    /\ IsBuildDeployment(r.id)
    /\ \/ HasCancelableRun(r.id) /\ r.phase \in BuildPhase
       \/ ~HasCancelableRun(r.id) /\ r.phase = "building"

(* The build run is canceled with its row; then either the row ends with   *)
(* its build, or it has to be rolled back.                                 *)
CancelBuild(w) ==
    /\ step[w] = "cancel"
    /\ LET r == row[w]
       IN  /\ run' = IF HasCancelableRun(r.id) THEN [run EXCEPT ![r.id] = "canceled"] ELSE run
           /\ \/ CancelsBuildOnly(r) /\ Return(w, "build-canceled", "settle")
              \/ ~(HasCancelableRun(r.id) /\ r.phase \in BuildPhase) /\ Return(w, "none", "rollback")
    /\ UNCHANGED <<dbVars, pushed, clusterVars, faults>>

(* No previous success: tear the service down.  Otherwise converge on the  *)
(* previous success, which may be impossible (its image is gone, or one of *)
(* its references no longer resolves).                                     *)
Rollback(w) ==
    /\ step[w] = "rollback"
    /\ LET d == row[w].id
       IN  \/ /\ OlderSuccesses(d) = {}
              /\ live' = [live EXCEPT ![ServiceOf[d]] = None]
              /\ rollout' = [rollout EXCEPT ![ServiceOf[d]] = "absent"]
              /\ Return(w, "torn-down", "settle")
           \/ \E previous \in Deployments :
              /\ IsPreviousSuccessful(previous, d)
              /\ \/ ReconcileRuntime(w, previous, "settle")
                 \/ Return(w, "failed", "settle") /\ UNCHANGED clusterVars
    /\ UNCHANGED <<dbVars, buildVars, faults>>

NextAttempt(r) == r.attempts + 1

\* Mutant: one attempt too many.
PastLastAttempt(attempt) == attempt > MaxRollbacks
LastAttempt(attempt) == attempt >= MaxRollbacks

(* The end of reconcileCanceling: every write is guarded by canceling, the *)
(* attempt is counted from the snapshot.                                   *)
SettleCancel(w) ==
    /\ step[w] = "settle"
    /\ LET d == row[w].id
           answer == result[w]
           attempt == NextAttempt(row[w])
       IN  IF ~StillIs(d, "canceling") THEN UNCHANGED <<status, phase, rollbackAttempts>>
           ELSE CASE answer \in {"ready", "torn-down", "build-canceled"} ->
                       /\ status' = [status EXCEPT ![d] = "canceled"]
                       /\ phase' = [phase EXCEPT ![d] = "canceled"]
                       /\ UNCHANGED rollbackAttempts
                  [] answer \in {"failed", "error"} ->
                       /\ rollbackAttempts' = [rollbackAttempts EXCEPT ![d] = attempt]
                       /\ IF LastAttempt(attempt)
                          THEN /\ status' = [status EXCEPT ![d] = "failed"]
                               /\ phase' = [phase EXCEPT ![d] = "failed"]
                          ELSE /\ phase' = [phase EXCEPT ![d] = "rollback-retrying"]
                               /\ UNCHANGED status
                  [] OTHER ->
                       /\ phase' = [phase EXCEPT ![d] = answer]
                       /\ UNCHANGED <<status, rollbackAttempts>>
    /\ EndRow(w)
    /\ UNCHANGED <<lockedBy, leaseLive, buildVars, clusterVars, faults>>

-----------------------------------------------------------------------------
(* Faults and time *)

\* The next tick starts with nothing in memory.
ForgetTick(w) ==
    /\ step' = [step EXCEPT ![w] = "claim"]
    /\ rows' = [rows EXCEPT ![w] = {}]
    /\ row' = [row EXCEPT ![w] = NoRow]
    /\ result' = [result EXCEPT ![w] = "none"]

(* A call fails.  Inside a row's turn handleReconcileError leaves the row  *)
(* as it is (only last_error is written) and the tick goes on; a failure   *)
(* of the claim leaves the other steps of the tick alone; any other        *)
(* failure ends the reconcile step, whose snapshot is dropped.             *)
CallFails(w) ==
    /\ faults < MaxFaults
    /\ faults' = faults + 1
    /\ \/ /\ row[w] # NoRow
          /\ EndRow(w)
       \/ /\ step[w] = "claim"
          /\ step' = [step EXCEPT ![w] = "select"]
          /\ UNCHANGED <<rows, row, result>>
       \/ /\ step[w] # "claim"
          /\ ForgetTick(w)
    /\ UNCHANGED <<dbVars, buildVars, clusterVars>>

(* A worker pod dies and is replaced: its memory is lost, and since its    *)
(* id is the pod's name, nobody is the owner of its rows any more.         *)
Crash(w) ==
    /\ faults < MaxFaults
    /\ faults' = faults + 1
    /\ lockedBy' = [d \in Deployments |-> IF lockedBy[d] = w THEN NoWorker ELSE lockedBy[d]]
    /\ ForgetTick(w)
    /\ UNCHANGED <<status, phase, leaseLive, rollbackAttempts, buildVars, clusterVars>>

(* The lease timeout passes: for the rows of a dead worker, and for those  *)
(* of a live one whose tick takes longer than the timeout.                 *)
LeaseExpires(d) ==
    /\ status[d] \in InFlightStatus
    /\ leaseLive[d]
    /\ SlowWorkers \/ lockedBy[d] = NoWorker
    /\ leaseLive' = [leaseLive EXCEPT ![d] = FALSE]
    /\ UNCHANGED <<status, phase, lockedBy, rollbackAttempts, buildVars,
                   clusterVars, workerVars, faults>>

(* A build ends, is retried once after its lease was lost (its Job may     *)
(* still push the image), times out, or is canceled because its deployment *)
(* is over.                                                                *)
BuildProgress(d) ==
    /\ \/ /\ status[d] \in InFlightStatus
          /\ \/ /\ run[d] \in {"active", "active2"}
                /\ run' = [run EXCEPT ![d] = "succeeded"]
                /\ pushed' = [pushed EXCEPT ![d] = TRUE]
             \/ /\ run[d] \in CancelableRun
                /\ run' = [run EXCEPT ![d] = "failed"]
                /\ UNCHANGED pushed
             \/ /\ run[d] = "active"
                /\ run' = [run EXCEPT ![d] = "queued2"]
                /\ \E b \in BOOLEAN : pushed' = [pushed EXCEPT ![d] = b]
       \/ /\ status[d] \in TerminalStatus
          /\ run[d] \in CancelableRun
          /\ run' = [run EXCEPT ![d] = "canceled"]
          /\ UNCHANGED pushed
    /\ UNCHANGED <<dbVars, clusterVars, workerVars, faults>>

(* The cluster rolls the manifest out, reports a crash loop, or passes the *)
(* progress deadline.                                                      *)
RolloutProgress(s) ==
    /\ \/ rollout[s] = "progressing" /\ \E r \in {"ready", "error", "failed"} :
              rollout' = [rollout EXCEPT ![s] = r]
       \/ rollout[s] = "error" /\ \E r \in {"ready", "failed"} :
              rollout' = [rollout EXCEPT ![s] = r]
    /\ UNCHANGED <<dbVars, buildVars, live, workerVars, faults>>

-----------------------------------------------------------------------------

API == \E d \in Deployments :
          BeginEnqueue(d) \/ CommitEnqueue(d) \/ CancelDeployment(d)

WorkerStep(w) ==
    \/ Claim(w) \/ Select(w) \/ TakeRow(w)
    \/ Unresolvable(w) \/ Build(w) \/ Promote(w) \/ Converge(w) \/ ApplyResult(w)
    \/ CancelBuild(w) \/ Rollback(w) \/ SettleCancel(w)

Environment ==
    \/ \E w \in Workers : Rebuild(w) \/ CallFails(w) \/ Crash(w)
    \/ \E d \in Deployments : LeaseExpires(d) \/ BuildProgress(d)
    \/ \E s \in Services : RolloutProgress(s)

Next == API \/ (\E w \in Workers : WorkerStep(w)) \/ Environment

Spec == Init /\ [][Next]_vars

(* The interval timer runs every worker's tick, leases and builds time     *)
(* out, transactions end and Kubernetes reaches a progress deadline.       *)
(* Users need not act, and calls need not fail.                            *)
Fairness ==
    /\ \A w \in Workers : WF_vars(WorkerStep(w))
    /\ \A d \in Deployments : /\ WF_vars(CommitEnqueue(d))
                              /\ WF_vars(LeaseExpires(d))
                              /\ WF_vars(BuildProgress(d))
    /\ \A s \in Services : WF_vars(RolloutProgress(s))

FairSpec == Spec /\ Fairness

-----------------------------------------------------------------------------
(* Properties *)

(* Every variable holds a value the code can store there.                  *)
TypeOK ==
    /\ status \in [Deployments -> Status]
    /\ phase \in [Deployments -> Phase]
    /\ lockedBy \in [Deployments -> Workers \cup {NoWorker}]
    /\ leaseLive \in [Deployments -> BOOLEAN]
    /\ rollbackAttempts \in [Deployments -> 0..MaxRollbacks]
    /\ run \in [Deployments -> RunStatus]
    /\ pushed \in [Deployments -> BOOLEAN]
    /\ live \in [Services -> Deployments \cup {None}]
    /\ rollout \in [Services -> RolloutStatus]
    /\ step \in [Workers -> Step]
    /\ rows \in [Workers -> SUBSET Snapshot]
    /\ row \in [Workers -> Snapshot \cup {NoRow}]
    /\ result \in [Workers -> Result]
    /\ faults \in 0..MaxFaults

(* Two rows of a service are never in flight together, whatever replicas,  *)
(* claims and takeovers do: they would overwrite each other's manifest.    *)
OneInFlightPerService ==
    \A d, e \in InFlight : ServiceOf[d] = ServiceOf[e] => d = e

(* A service has at most one queued row, however enqueues, cancels and     *)
(* claims interleave (the unique index of migration 0009 never fires).     *)
OneQueuedPerService ==
    \A d, e \in Deployments :
        status[d] = "pending" /\ status[e] = "pending" /\ ServiceOf[d] = ServiceOf[e]
        => d = e

(* A service is served by one row at a time, and one more may wait.         *)
OneRowPerStage == OneInFlightPerService /\ OneQueuedPerService

(* Rows being rolled out never exceed the cap: claims, promotions of built *)
(* images and crashes together hand out at most MaxConcurrent slots.       *)
DeployingWithinCap ==
    Cardinality({d \in Occupying : status[d] = "deploying"}) <= MaxConcurrent

(* What runs in the cluster is a rollout in flight or one that ended by    *)
(* itself: never a deployment that was canceled or superseded.             *)
LiveIsAccountedFor ==
    \A s \in Services : live[s] # None =>
        status[live[s]] \in InFlightStatus \cup {"succeeded", "failed"}

(* While a service has nothing in flight it runs its last success, unless  *)
(* a later rollout failed: canceled and superseded rows leave no trace.    *)
LastSuccessServes ==
    \A s \in Services : ~Busy(s) =>
        \A d \in Of(s) :
            /\ status[d] = "succeeded"
            /\ \A e \in Of(s) : e > d => status[e] \notin {"succeeded", "failed"}
            => live[s] = d

(* The rows live by the contract of DeploymentLifecycle: one supersedes    *)
(* another, starts, ends and stays ended as promised there.                *)
Committed == [d \in Deployments |-> IF status[d] = "opening" THEN "none" ELSE status[d]]
Lifecycle == INSTANCE DeploymentLifecycle WITH status <- Committed
LifecycleSpec == Lifecycle!Spec

(* What this module does to builds keeps the contract of BuildLifecycle,   *)
(* which BuildRuns implements: the two views of a run agree.               *)
Builds == INSTANCE BuildLifecycle WITH Runs <- Deployments
BuildsByContract == Builds!Spec

(* Every row ends: no cap, cancel, crash, lost lease or rollback that is    *)
(* never ready leaves one in the queue or in flight for ever, where it      *)
(* would block every newer deployment of its service.                      *)
EveryRowEnds ==
    \A d \in Deployments :
        status[d] \in {"pending"} \cup InFlightStatus
        ~> status[d] \in TerminalStatus

=============================================================================
