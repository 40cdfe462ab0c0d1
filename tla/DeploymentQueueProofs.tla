----------------------- MODULE DeploymentQueueProofs -----------------------
(***************************************************************************)
(* What the deployment queue keeps for every number of deployments,        *)
(* services, workers and faults and for every cap: type correctness, one   *)
(* row in flight and one row queued per service, and the contracts of      *)
(* DeploymentLifecycle and BuildLifecycle; and, with a single worker, the  *)
(* deployment cap and what the cluster runs.                               *)
(***************************************************************************)
EXTENDS DeploymentQueue, FiniteSetTheorems, WellFoundedInduction, TLAPS

-----------------------------------------------------------------------------
(* The inductive invariant, one part per group of variables                *)

(* Rows that have not ended still have a rollback attempt left: that is    *)
(* what bounds the attempts, which are counted from a worker's snapshot.   *)
RowInv ==
    /\ status \in [Deployments -> Status]
    /\ phase \in [Deployments -> Phase]
    /\ lockedBy \in [Deployments -> Workers \cup {NoWorker}]
    /\ leaseLive \in [Deployments -> BOOLEAN]
    /\ rollbackAttempts \in [Deployments -> 0..MaxRollbacks]
    /\ \A d \in Deployments :
          status[d] \notin TerminalStatus => rollbackAttempts[d] < MaxRollbacks

BuildInv ==
    /\ run \in [Deployments -> RunStatus]
    /\ pushed \in [Deployments -> BOOLEAN]

ClusterInv ==
    /\ live \in [Services -> Deployments \cup {None}]
    /\ rollout \in [Services -> RolloutStatus]

OpenSnapshot == {r \in Snapshot : r.attempts < MaxRollbacks}

\* The steps in which a worker has a row in hand.
RowSteps == Step \ {"claim", "select", "rows"}

\* The answers that can wait to be applied to a rollout, and to a cancel.
RolloutAnswers == {"ready", "failed", "error", "applying", "rolling-out",
                   "building", "build-queued"}
CancelAnswers == {"ready", "failed", "error", "applying", "rolling-out",
                  "torn-down", "build-canceled"}

WorkerInv ==
    /\ step \in [Workers -> Step]
    /\ rows \in [Workers -> SUBSET OpenSnapshot]
    /\ row \in [Workers -> OpenSnapshot \cup {NoRow}]
    /\ result \in [Workers -> Result]
    /\ \A w \in Workers :
          /\ step[w] \in RowSteps => row[w] \in OpenSnapshot
          /\ step[w] = "apply" => result[w] \in RolloutAnswers
          /\ step[w] = "settle" => result[w] \in CancelAnswers

TypeInv == RowInv /\ BuildInv /\ ClusterInv /\ WorkerInv /\ faults \in 0..MaxFaults

(* The inductive invariant has every variable well typed.                  *)
LEMMA TypeInvImpliesTypeOK == TypeInv => TypeOK
BY DEF TypeInv, RowInv, BuildInv, ClusterInv, WorkerInv, OpenSnapshot, TypeOK

-----------------------------------------------------------------------------
(* How a worker moves on *)

(* An answer that fits the step it is kept for keeps the workers' part.    *)
LEMMA ReturnInv ==
    ASSUME WorkerInv, NEW w \in Workers, step[w] \in RowSteps,
           NEW answer \in Result, NEW next \in RowSteps,
           next = "apply" => answer \in RolloutAnswers,
           next = "settle" => answer \in CancelAnswers,
           Return(w, answer, next)
    PROVE  WorkerInv'
BY DEF Return, WorkerInv, RowSteps

(* The end of a row's turn keeps the workers' part.                        *)
LEMMA EndRowInv ==
    ASSUME WorkerInv, NEW w \in Workers, EndRow(w)
    PROVE  WorkerInv'
BY DEF EndRow, WorkerInv, RowSteps, Step, Result

(* So does a worker that loses its memory.                                 *)
LEMMA ForgetTickInv ==
    ASSUME WorkerInv, NEW w \in Workers, ForgetTick(w)
    PROVE  WorkerInv'
BY DEF ForgetTick, WorkerInv, RowSteps, Step, Result

(* The snapshot of an in-flight row is one with an attempt left.           *)
LEMMA SnapshotInv ==
    ASSUME RowInv, NEW d \in InFlight
    PROVE  SnapshotOf(d) \in OpenSnapshot
BY DEF InFlight, RowInv, SnapshotOf, OpenSnapshot, Snapshot, InFlightStatus, TerminalStatus

(* Converging on any deployment, for a rollout or for a rollback, keeps    *)
(* the workers' and the cluster's parts.                                   *)
LEMMA ReconcileRuntimeInv ==
    ASSUME WorkerInv, ClusterInv, NEW w \in Workers, step[w] \in RowSteps,
           NEW d \in Deployments, NEW next \in {"apply", "settle"},
           ReconcileRuntime(w, d, next)
    PROVE  WorkerInv' /\ ClusterInv'
<1>1. PICK answer \in {"applying", "ready", "failed", "error", "rolling-out"} :
        Return(w, answer, next)
  BY DEF ReconcileRuntime
<1>2. answer \in Result /\ answer \in RolloutAnswers /\ answer \in CancelAnswers
  BY DEF Result, RolloutAnswers, CancelAnswers
<1>3. next \in RowSteps
  BY DEF RowSteps, Step
<1>4. WorkerInv'
  BY <1>1, <1>2, <1>3, ReturnInv
<1>5. ClusterInv'
  BY DEF ReconcileRuntime, ClusterInv, RolloutStatus, clusterVars
<1>6. QED
  BY <1>4, <1>5

-----------------------------------------------------------------------------
(* Every action keeps the invariant *)

(* The API's transactions keep the invariant: a cancel resets the attempts.*)
LEMMA APIInv == ASSUME TypeInv, API PROVE TypeInv'
<1> USE QueueConstants DEF TypeInv, RowInv, Status, TerminalStatus
<1>1. ASSUME NEW d \in Deployments, BeginEnqueue(d) PROVE TypeInv'
  BY <1>1 DEF BeginEnqueue, buildVars, clusterVars, workerVars,
              BuildInv, ClusterInv, WorkerInv
<1>2. ASSUME NEW d \in Deployments, CommitEnqueue(d) PROVE TypeInv'
  BY <1>2 DEF CommitEnqueue, buildVars, clusterVars, workerVars,
              BuildInv, ClusterInv, WorkerInv
<1>3. ASSUME NEW d \in Deployments, CancelDeployment(d) PROVE TypeInv'
  BY <1>3 DEF CancelDeployment, Phase, buildVars, clusterVars, workerVars,
              BuildInv, ClusterInv, WorkerInv
<1>4. QED
  BY <1>1, <1>2, <1>3 DEF API

(* A claim, a selection and the taking of a row keep the invariant.        *)
LEMMA TickInv ==
    ASSUME TypeInv, NEW w \in Workers, Claim(w) \/ Select(w) \/ TakeRow(w)
    PROVE  TypeInv'
<1> USE QueueConstants DEF TypeInv
<1>1. CASE Claim(w)
  <2>1. PICK locked \in SUBSET {d \in Claimable : Opening \cap Of(ServiceOf[d]) # {}} :
          LET claimed == Oldest(Claimable \ locked, ClaimLimit)
              set(f, v) == [d \in Deployments |-> IF d \in claimed THEN v ELSE f[d]]
          IN  /\ status' = set(status, "deploying")
              /\ phase' = set(phase, "applying")
              /\ lockedBy' = set(lockedBy, w)
              /\ leaseLive' = set(leaseLive, TRUE)
    BY <1>1 DEF Claim
  <2>2. \A d \in Oldest(Claimable \ locked, ClaimLimit) : status[d] = "pending"
    BY DEF Oldest, Claimable
  <2>3. RowInv'
    BY <1>1, <2>1, <2>2 DEF Claim, RowInv, Status, Phase, TerminalStatus
  <2>4. WorkerInv'
    BY <1>1 DEF Claim, WorkerInv, Step, RowSteps
  <2>5. QED
    BY <1>1, <2>3, <2>4 DEF Claim, BuildInv, ClusterInv, buildVars, clusterVars
<1>2. CASE Select(w)
  <2>1. {SnapshotOf(d) : d \in Reconcilable(w)} \in SUBSET OpenSnapshot
    BY SnapshotInv DEF Reconcilable
  <2>2. WorkerInv'
    BY <1>2, <2>1 DEF Select, WorkerInv, Step, RowSteps
  <2>3. QED
    BY <1>2, <2>2 DEF Select, RowInv, BuildInv, ClusterInv, dbVars, buildVars, clusterVars
<1>3. CASE TakeRow(w)
  <2>1. RowInv'
    <3>1. /\ lockedBy' \in [Deployments -> Workers \cup {NoWorker}]
          /\ leaseLive' \in [Deployments -> BOOLEAN]
      <4>1. PICK r \in rows[w] :
              IF status[r.id] \in InFlightStatus
              THEN /\ lockedBy' = [lockedBy EXCEPT ![r.id] = w]
                   /\ leaseLive' = [leaseLive EXCEPT ![r.id] = TRUE]
              ELSE UNCHANGED <<lockedBy, leaseLive>>
        BY <1>3 DEF TakeRow
      <4>2. /\ lockedBy \in [Deployments -> Workers \cup {NoWorker}]
            /\ leaseLive \in [Deployments -> BOOLEAN]
        BY DEF RowInv
      <4>3. /\ lockedBy' = [lockedBy EXCEPT ![r.id] = w] \/ lockedBy' = lockedBy
            /\ leaseLive' = [leaseLive EXCEPT ![r.id] = TRUE] \/ leaseLive' = leaseLive
        BY <4>1
      <4>4. lockedBy' \in [Deployments -> Workers \cup {NoWorker}]
        BY <4>2, <4>3
      <4>5. leaseLive' \in [Deployments -> BOOLEAN]
        BY <4>2, <4>3
      <4>6. QED
        BY <4>4, <4>5
    <3>2. QED
      BY <1>3, <3>1 DEF TakeRow, RowInv
  <2>2. WorkerInv'
    BY <1>3 DEF TakeRow, WorkerInv, Step, RowSteps
  <2>3. QED
    BY <1>3, <2>1, <2>2 DEF TakeRow, BuildInv, ClusterInv, buildVars, clusterVars
<1>4. QED
  BY <1>1, <1>2, <1>3

(* Rolling a row out keeps the invariant.                                  *)
LEMMA RolloutInv ==
    ASSUME TypeInv, NEW w \in Workers,
           Unresolvable(w) \/ Build(w) \/ Promote(w) \/ Converge(w) \/ ApplyResult(w)
    PROVE  TypeInv'
<1> USE DEF TypeInv
<1>0. step[w] \in RowSteps
  BY DEF Unresolvable, Build, Promote, Converge, ApplyResult, RowSteps, Step
<1>h. row[w] \in OpenSnapshot /\ row[w].id \in Deployments
  BY <1>0 DEF WorkerInv, OpenSnapshot, Snapshot
<1>1. CASE Unresolvable(w)
  <2>1. WorkerInv'
    BY <1>0, <1>1, ReturnInv DEF Unresolvable, Result, RolloutAnswers, RowSteps, Step
  <2>2. QED
    BY <1>1, <2>1 DEF Unresolvable, RowInv, BuildInv, ClusterInv, dbVars, buildVars, clusterVars
<1>2. CASE Build(w)
  <2>1. \/ \E answer \in RolloutAnswers : Return(w, answer, "apply")
        \/ Return(w, "none", "promote")
    BY <1>2 DEF Build, RolloutAnswers, BuildPhase
  <2>2. WorkerInv'
    BY <1>0, <2>1, ReturnInv DEF Result, RolloutAnswers, RowSteps, Step
  <2>3. BuildInv'
    BY <1>2 DEF Build, BuildInv, RunStatus
  <2>4. QED
    BY <1>2, <2>2, <2>3 DEF Build, RowInv, ClusterInv, dbVars, clusterVars
<1>3. CASE Promote(w)
  <2>1. Return(w, "build-queued", "apply") \/ Return(w, "none", "converge")
    BY <1>3 DEF Promote
  <2>2. WorkerInv'
    BY <1>0, <2>1, ReturnInv DEF Result, RolloutAnswers, RowSteps, Step
  <2>3. RowInv'
    BY <1>3 DEF Promote, RowInv, Phase
  <2>4. QED
    BY <1>3, <2>2, <2>3 DEF Promote, BuildInv, ClusterInv, buildVars, clusterVars
<1>4. CASE Converge(w)
  <2>1. WorkerInv' /\ ClusterInv'
    BY <1>0, <1>h, <1>4, ReconcileRuntimeInv DEF Converge
  <2>2. QED
    BY <1>4, <2>1 DEF Converge, RowInv, BuildInv, dbVars, buildVars
<1>5. CASE ApplyResult(w)
  <2>1. result[w] \in RolloutAnswers
    BY <1>5 DEF ApplyResult, WorkerInv
  <2>2. RowInv'
    BY <1>5, <1>h, <2>1
    DEF ApplyResult, StillIs, RowInv, Status, Phase, BuildPhase, TerminalStatus, RolloutAnswers
  <2>3. WorkerInv'
    BY <1>5, EndRowInv DEF ApplyResult
  <2>4. QED
    BY <1>5, <2>2, <2>3 DEF ApplyResult, BuildInv, ClusterInv, buildVars, clusterVars
<1>6. QED
  BY <1>1, <1>2, <1>3, <1>4, <1>5

(* Rolling a canceled row back keeps the invariant: the attempt recorded   *)
(* for a row that goes on is below the bound, because the snapshot's was.  *)
LEMMA CancelInv ==
    ASSUME TypeInv, NEW w \in Workers,
           CancelBuild(w) \/ Rollback(w) \/ SettleCancel(w)
    PROVE  TypeInv'
<1> USE DEF TypeInv
<1>0. step[w] \in RowSteps
  BY DEF CancelBuild, Rollback, SettleCancel, RowSteps, Step
<1>h. /\ row[w] \in OpenSnapshot
      /\ row[w].id \in Deployments
      /\ row[w].attempts \in 0..MaxRollbacks /\ row[w].attempts < MaxRollbacks
  BY <1>0 DEF WorkerInv, OpenSnapshot, Snapshot
<1>1. CASE CancelBuild(w)
  <2>1. Return(w, "build-canceled", "settle") \/ Return(w, "none", "rollback")
    BY <1>1 DEF CancelBuild
  <2>2. WorkerInv'
    BY <1>0, <2>1, ReturnInv DEF Result, CancelAnswers, RowSteps, Step
  <2>3. BuildInv'
    BY <1>1 DEF CancelBuild, BuildInv, RunStatus
  <2>4. QED
    BY <1>1, <2>2, <2>3 DEF CancelBuild, RowInv, ClusterInv, dbVars, clusterVars
<1>2. CASE Rollback(w)
  <2>1. WorkerInv' /\ ClusterInv'
    <3>1. CASE /\ live' = [live EXCEPT ![ServiceOf[row[w].id]] = None]
               /\ rollout' = [rollout EXCEPT ![ServiceOf[row[w].id]] = "absent"]
               /\ Return(w, "torn-down", "settle")
      BY <1>0, <3>1, ReturnInv
      DEF ClusterInv, RolloutStatus, Result, CancelAnswers, RowSteps, Step
    <3>2. CASE Return(w, "failed", "settle") /\ UNCHANGED clusterVars
      BY <1>0, <3>2, ReturnInv
      DEF clusterVars, ClusterInv, Result, CancelAnswers, RowSteps, Step
    <3>3. CASE \E previous \in Deployments : ReconcileRuntime(w, previous, "settle")
      BY <1>0, <3>3, ReconcileRuntimeInv
    <3>4. QED
      BY <1>2, <3>1, <3>2, <3>3 DEF Rollback
  <2>2. QED
    BY <1>2, <2>1 DEF Rollback, RowInv, BuildInv, dbVars, buildVars
<1>3. CASE SettleCancel(w)
  <2>1. result[w] \in CancelAnswers
    BY <1>3 DEF SettleCancel, WorkerInv
  <2>2. /\ NextAttempt(row[w]) \in 0..MaxRollbacks
        /\ ~LastAttempt(NextAttempt(row[w])) => NextAttempt(row[w]) < MaxRollbacks
    BY <1>h, QueueConstants DEF NextAttempt, LastAttempt
  <2>3. RowInv'
    BY <1>3, <1>h, <2>1, <2>2
    DEF SettleCancel, StillIs, RowInv, Status, Phase, TerminalStatus, CancelAnswers
  <2>4. WorkerInv'
    BY <1>3, EndRowInv DEF SettleCancel
  <2>5. QED
    BY <1>3, <2>3, <2>4 DEF SettleCancel, BuildInv, ClusterInv, buildVars, clusterVars
<1>4. QED
  BY <1>1, <1>2, <1>3

(* Faults, time, builds and the cluster keep the invariant.                *)
LEMMA EnvironmentInv == ASSUME TypeInv, Environment PROVE TypeInv'
<1> USE QueueConstants DEF TypeInv
<1>1. ASSUME NEW w \in Workers, Rebuild(w) PROVE TypeInv'
  <2>1. WorkerInv'
    BY <1>1, ReturnInv DEF Rebuild, Result, RolloutAnswers, RowSteps, Step
  <2>2. BuildInv'
    BY <1>1 DEF Rebuild, BuildInv, RunStatus
  <2>3. faults' \in 0..MaxFaults
    BY <1>1 DEF Rebuild
  <2>4. QED
    BY <1>1, <2>1, <2>2, <2>3 DEF Rebuild, RowInv, ClusterInv, dbVars, clusterVars
<1>2. ASSUME NEW w \in Workers, CallFails(w) PROVE TypeInv'
  <2>1. CASE EndRow(w) \/ ForgetTick(w)
    BY <1>2, <2>1, EndRowInv, ForgetTickInv
    DEF CallFails, RowInv, BuildInv, ClusterInv, dbVars, buildVars, clusterVars
  <2>2. CASE /\ step[w] = "claim"
             /\ step' = [step EXCEPT ![w] = "select"]
             /\ UNCHANGED <<rows, row, result>>
    BY <1>2, <2>2
    DEF CallFails, RowInv, BuildInv, ClusterInv, WorkerInv, Step, RowSteps,
        dbVars, buildVars, clusterVars
  <2>3. QED
    BY <1>2, <2>1, <2>2 DEF CallFails
<1>3. ASSUME NEW w \in Workers, Crash(w) PROVE TypeInv'
  BY <1>3, ForgetTickInv DEF Crash, RowInv, BuildInv, ClusterInv, buildVars, clusterVars
<1>4. ASSUME NEW d \in Deployments, LeaseExpires(d) PROVE TypeInv'
  <2>1. leaseLive' = [leaseLive EXCEPT ![d] = FALSE]
    BY <1>4 DEF LeaseExpires
  <2>2. UNCHANGED <<status, phase, lockedBy, rollbackAttempts>>
    BY <1>4 DEF LeaseExpires
  <2>3. UNCHANGED <<buildVars, clusterVars, workerVars, faults>>
    BY <1>4 DEF LeaseExpires
  <2>4. RowInv'
    BY <2>1, <2>2 DEF RowInv
  <2>5. BuildInv' /\ ClusterInv'
    BY <2>3 DEF BuildInv, ClusterInv, buildVars, clusterVars
  <2>6. WorkerInv' /\ faults' \in 0..MaxFaults
    BY <2>3 DEF WorkerInv, workerVars
  <2>7. QED
    BY <2>4, <2>5, <2>6
<1>5. ASSUME NEW d \in Deployments, BuildProgress(d) PROVE TypeInv'
  <2>1. run' \in [Deployments -> RunStatus]
    BY <1>5 DEF BuildProgress, BuildInv, RunStatus
  <2>2. pushed' \in [Deployments -> BOOLEAN]
    BY <1>5 DEF BuildProgress, BuildInv
  <2>3. UNCHANGED <<dbVars, clusterVars, workerVars, faults>>
    BY <1>5 DEF BuildProgress
  <2>4. RowInv' /\ ClusterInv'
    BY <2>3 DEF RowInv, ClusterInv, dbVars, clusterVars
  <2>5. WorkerInv' /\ faults' \in 0..MaxFaults
    BY <2>3 DEF WorkerInv, workerVars
  <2>6. QED
    BY <2>1, <2>2, <2>4, <2>5 DEF BuildInv
<1>6. ASSUME NEW s \in Services, RolloutProgress(s) PROVE TypeInv'
  BY <1>6 DEF RolloutProgress, RowInv, BuildInv, ClusterInv, WorkerInv, RolloutStatus,
              dbVars, buildVars, workerVars
<1>7. QED
  BY <1>1, <1>2, <1>3, <1>4, <1>5, <1>6 DEF Environment

(* The initial state satisfies the invariant, and every step keeps it.     *)
THEOREM TypeInvInvariant == Spec => []TypeInv
<1>1. Init => TypeInv
  BY QueueConstants
  DEF Init, TypeInv, RowInv, BuildInv, ClusterInv, WorkerInv, Status, Phase, RunStatus,
      RolloutStatus, Step, RowSteps, Result
<1>2. TypeInv /\ [Next]_vars => TypeInv'
  <2> SUFFICES ASSUME TypeInv, [Next]_vars PROVE TypeInv'
    OBVIOUS
  <2>1. ASSUME NEW w \in Workers, WorkerStep(w) PROVE TypeInv'
    BY <2>1, TickInv, RolloutInv, CancelInv DEF WorkerStep
  <2>2. CASE UNCHANGED vars
    BY <2>2
    DEF vars, dbVars, buildVars, clusterVars, workerVars,
        TypeInv, RowInv, BuildInv, ClusterInv, WorkerInv
  <2>3. QED
    BY <2>1, <2>2, APIInv, EnvironmentInv DEF Next
<1>3. QED
  BY <1>1, <1>2, PTL DEF Spec

(* Every variable of the queue holds a value the code can store there; in  *)
(* particular the rollback attempts recorded never exceed their maximum,   *)
(* although they are counted from snapshots that may be stale.             *)
THEOREM TypeCorrect == Spec => []TypeOK
BY TypeInvInvariant, TypeInvImpliesTypeOK, PTL

-----------------------------------------------------------------------------
(* What a step may do to deployments.status                                *)

\* The changes of a single row.
Moves == {<<"none", "opening">>,
          <<"pending", "canceled">>, <<"deploying", "canceling">>,
          <<"deploying", "succeeded">>, <<"deploying", "failed">>,
          <<"canceling", "canceled">>, <<"canceling", "failed">>}

MoveStep == \E d \in Deployments : \E m \in Moves :
    /\ status[d] = m[1] /\ status' = [status EXCEPT ![d] = m[2]]
    /\ m[2] = "opening" => BeginEnqueue(d)

EnqueueStep == \E d \in Deployments :
    /\ status[d] = "opening"
    /\ status' = [e \in Deployments |->
                    IF e = d THEN "pending"
                    ELSE IF e \in SupersededBy(d) THEN "superseded"
                    ELSE status[e]]

ClaimStep == \E S \in SUBSET Claimable :
    status' = [d \in Deployments |-> IF d \in S THEN "deploying" ELSE status[d]]

(* The guards of the worker's UPDATEs leave no other change of a status,   *)
(* however old the snapshot is that a worker acts on.                      *)
LEMMA StatusStep ==
    ASSUME TypeInv, [Next]_vars
    PROVE  UNCHANGED status \/ MoveStep \/ EnqueueStep \/ ClaimStep
<1> USE DEF TypeInv
<1>1. CASE API
  <2>1. ASSUME NEW d \in Deployments, BeginEnqueue(d) PROVE MoveStep
    BY <2>1 DEF BeginEnqueue, MoveStep, Moves
  <2>2. ASSUME NEW d \in Deployments, CommitEnqueue(d) PROVE EnqueueStep
    BY <2>2 DEF CommitEnqueue, EnqueueStep
  <2>3. ASSUME NEW d \in Deployments, CancelDeployment(d) PROVE MoveStep
    BY <2>3 DEF CancelDeployment, MoveStep, Moves
  <2>4. QED
    BY <1>1, <2>1, <2>2, <2>3 DEF API
<1>2. ASSUME NEW w \in Workers, Claim(w) PROVE ClaimStep
  <2>1. PICK locked \in SUBSET {d \in Claimable : Opening \cap Of(ServiceOf[d]) # {}} :
          status' = [d \in Deployments |->
                       IF d \in Oldest(Claimable \ locked, ClaimLimit) THEN "deploying"
                       ELSE status[d]]
    BY <1>2 DEF Claim
  <2>2. Oldest(Claimable \ locked, ClaimLimit) \in SUBSET Claimable
    BY DEF Oldest
  <2>3. QED
    BY <2>1, <2>2 DEF ClaimStep
<1>3. ASSUME NEW w \in Workers, ApplyResult(w) PROVE UNCHANGED status \/ MoveStep
  <2>1. row[w].id \in Deployments
    BY <1>3 DEF ApplyResult, WorkerInv, RowSteps, Step, OpenSnapshot, Snapshot
  <2>2. \/ UNCHANGED status
        \/ /\ status[row[w].id] = "deploying"
           /\ \/ status' = [status EXCEPT ![row[w].id] = "succeeded"]
              \/ status' = [status EXCEPT ![row[w].id] = "failed"]
    BY <1>3 DEF ApplyResult, StillIs
  <2>3. QED
    BY <2>1, <2>2 DEF MoveStep, Moves
<1>4. ASSUME NEW w \in Workers, SettleCancel(w) PROVE UNCHANGED status \/ MoveStep
  <2>1. row[w].id \in Deployments
    BY <1>4 DEF SettleCancel, WorkerInv, RowSteps, Step, OpenSnapshot, Snapshot
  <2>2. \/ UNCHANGED status
        \/ /\ status[row[w].id] = "canceling"
           /\ \/ status' = [status EXCEPT ![row[w].id] = "canceled"]
              \/ status' = [status EXCEPT ![row[w].id] = "failed"]
    BY <1>4 DEF SettleCancel, StillIs
  <2>3. QED
    BY <2>1, <2>2 DEF MoveStep, Moves
<1>5. ASSUME NEW w \in Workers,
             \/ Select(w) \/ TakeRow(w) \/ Unresolvable(w) \/ Build(w) \/ Promote(w)
             \/ Converge(w) \/ CancelBuild(w) \/ Rollback(w)
      PROVE  UNCHANGED status
  BY <1>5 DEF Select, TakeRow, Unresolvable, Build, Promote, Converge, CancelBuild,
              Rollback, dbVars
<1>6. CASE Environment
  BY <1>6 DEF Environment, Rebuild, CallFails, Crash, LeaseExpires, BuildProgress,
              RolloutProgress, dbVars
<1>7. CASE UNCHANGED vars
  BY <1>7 DEF vars, dbVars
<1>8. QED
  BY <1>1, <1>2, <1>3, <1>4, <1>5, <1>6, <1>7 DEF Next, WorkerStep

-----------------------------------------------------------------------------
(* One row queued, one row in flight                                       *)

(* A claim starts at most one row of a service: at most one is queued.     *)
LEMMA QueueInvStep ==
    ASSUME TypeInv, OneRowPerStage, [Next]_vars
    PROVE  OneRowPerStage'
<1> USE DEF OneRowPerStage, OneQueuedPerService, OneInFlightPerService, InFlight, InFlightStatus
<1>0. status \in [Deployments -> Status]
  BY DEF TypeInv, RowInv
<1>1. CASE UNCHANGED status
  BY <1>1
<1>2. CASE MoveStep
  BY <1>0, <1>2 DEF MoveStep, Moves
<1>3. CASE EnqueueStep
  BY <1>0, <1>3 DEF EnqueueStep, SupersededBy, Of
<1>4. CASE ClaimStep
  BY <1>0, <1>4 DEF ClaimStep, Claimable, Busy, Of
<1>5. QED
  BY <1>1, <1>2, <1>3, <1>4, StatusStep

(* A service has at most one row in flight and at most one queued row,     *)
(* whatever the replicas, the open requests and the crashes do; the unique *)
(* index of migration 0009 never rejects an enqueue.                       *)
THEOREM OneOfEach == Spec => []OneRowPerStage
<1>1. Init => OneRowPerStage
  BY DEF Init, OneRowPerStage, OneQueuedPerService, OneInFlightPerService, InFlight, InFlightStatus
<1>2. TypeInv /\ OneRowPerStage /\ [Next]_vars => OneRowPerStage'
  BY QueueInvStep
<1>3. QED
  BY <1>1, <1>2, TypeInvInvariant, PTL DEF Spec

-----------------------------------------------------------------------------
(* The contract of DeploymentLifecycle                                     *)

(* Every step of the queue is a step of the contract or changes nothing    *)
(* the contract sees; an open transaction is not seen.                     *)
LEMMA LifecycleStep ==
    ASSUME TypeInv, OneRowPerStage, [Next]_vars
    PROVE  [Lifecycle!Next]_Committed
<1> USE DEF Committed
<1>0. status \in [Deployments -> Status]
  BY DEF TypeInv, RowInv
<1>1. CASE UNCHANGED status
  BY <1>1
<1>2. CASE MoveStep
  <2>1. PICK d \in Deployments, m \in Moves :
          status[d] = m[1] /\ status' = [status EXCEPT ![d] = m[2]]
    BY <1>2 DEF MoveStep
  <2>2. CASE m = <<"none", "opening">>
    BY <1>0, <2>1, <2>2
  <2>3. CASE m # <<"none", "opening">>
    <3>1. /\ m[1] \in {"pending", "deploying", "canceling"}
          /\ m[2] \in {"canceling", "succeeded", "failed", "canceled"}
      BY <2>3 DEF Moves
    <3>2. Committed[d] = m[1] /\ Committed' = [Committed EXCEPT ![d] = m[2]]
      BY <1>0, <2>1, <3>1
    <3>3. Lifecycle!Move(d, m[1], m[2])
      BY <3>2 DEF Lifecycle!Move
    <3>4. Lifecycle!Cancel(d) \/ Lifecycle!Finish(d)
      <4>1. \/ m = <<"pending", "canceled">> \/ m = <<"deploying", "canceling">>
            \/ m = <<"deploying", "succeeded">> \/ m = <<"deploying", "failed">>
            \/ m = <<"canceling", "canceled">> \/ m = <<"canceling", "failed">>
        BY <2>3 DEF Moves
      <4>2. QED
        BY <3>3, <4>1 DEF Lifecycle!Cancel, Lifecycle!Finish
    <3>5. QED
      BY <3>4 DEF Lifecycle!Next
  <2>4. QED
    BY <2>2, <2>3
<1>3. CASE EnqueueStep
  <2>1. PICK d \in Deployments :
          /\ status[d] = "opening"
          /\ status' = [e \in Deployments |->
                          IF e = d THEN "pending"
                          ELSE IF e \in SupersededBy(d) THEN "superseded"
                          ELSE status[e]]
    BY <1>3 DEF EnqueueStep
  <2>2. Lifecycle!Enqueue(d)
    BY <1>0, <2>1 DEF SupersededBy, Of, Lifecycle!Enqueue, Lifecycle!Siblings
  <2>3. QED
    BY <2>2 DEF Lifecycle!Next
<1>4. CASE ClaimStep
  <2>1. PICK S \in SUBSET Claimable :
          status' = [d \in Deployments |-> IF d \in S THEN "deploying" ELSE status[d]]
    BY <1>4 DEF ClaimStep
  <2>2. \A d \in S : Committed[d] = "pending" /\ ~Lifecycle!Busy(ServiceOf[d])
    BY <1>0, <2>1 DEF Claimable, Busy, Of, InFlightStatus,
                      Lifecycle!Busy, Lifecycle!InFlightStatus
  <2>3. \A d, e \in S : ServiceOf[d] = ServiceOf[e] => d = e
    BY <2>1 DEF OneRowPerStage, OneQueuedPerService, Claimable
  <2>4. Committed' = [d \in Deployments |-> IF d \in S THEN "deploying" ELSE Committed[d]]
    BY <1>0, <2>1
  <2>5. Lifecycle!Start(S)
    BY <2>2, <2>3, <2>4 DEF Lifecycle!Start
  <2>6. S \in SUBSET Deployments
    BY DEF Claimable
  <2>7. QED
    BY <2>5, <2>6 DEF Lifecycle!Next
<1>5. QED
  BY <1>1, <1>2, <1>3, <1>4, StatusStep

(* The queue implements the contract of DeploymentLifecycle: whatever      *)
(* replicas, stale snapshots, crashes and lost leases do, a row replaces   *)
(* the queued one, starts when its service is idle and ends exactly once.  *)
THEOREM ImplementsLifecycle == Spec => LifecycleSpec
<1>1. Init => Lifecycle!Init
  BY DEF Init, Lifecycle!Init, Committed
<1>2. TypeInv /\ OneRowPerStage /\ [Next]_vars => [Lifecycle!Next]_Committed
  BY LifecycleStep
<1>3. QED
  BY <1>1, <1>2, TypeInvInvariant, OneOfEach, PTL
  DEF Spec, LifecycleSpec, Lifecycle!Spec

(* What the contract lets happen to one row.                               *)
LEMMA RowMoves ==
    ASSUME NEW d \in Deployments, [Lifecycle!Next]_Committed
    PROVE  \/ Committed'[d] = Committed[d]
           \/ Committed[d] = "none" /\ Committed'[d] = "pending"
           \/ /\ Committed[d] = "pending"
              /\ Committed'[d] \in {"superseded", "deploying", "canceled"}
           \/ /\ Committed[d] = "deploying"
              /\ Committed'[d] \in {"canceling", "succeeded", "failed"}
           \/ Committed[d] = "canceling" /\ Committed'[d] \in {"canceled", "failed"}
<1>0. DOMAIN Committed = Deployments
  BY DEF Committed
<1>1. ASSUME NEW e \in Deployments, Lifecycle!Enqueue(e)
      PROVE  \/ Committed'[d] = Committed[d]
             \/ Committed[d] = "none" /\ Committed'[d] = "pending"
             \/ Committed[d] = "pending" /\ Committed'[d] = "superseded"
  BY <1>1 DEF Lifecycle!Enqueue
<1>2. ASSUME NEW e \in Deployments, NEW f, NEW t, Lifecycle!Move(e, f, t)
      PROVE  Committed'[d] = Committed[d] \/ (Committed[d] = f /\ Committed'[d] = t)
  BY <1>0, <1>2 DEF Lifecycle!Move
<1>3. ASSUME NEW S \in SUBSET Deployments, Lifecycle!Start(S)
      PROVE  \/ Committed'[d] = Committed[d]
             \/ Committed[d] = "pending" /\ Committed'[d] = "deploying"
  BY <1>3 DEF Lifecycle!Start
<1>4. ASSUME NEW e \in Deployments, Lifecycle!Cancel(e)
      PROVE  \/ Committed'[d] = Committed[d]
             \/ Committed[d] = "pending" /\ Committed'[d] = "canceled"
             \/ Committed[d] = "deploying" /\ Committed'[d] = "canceling"
  BY <1>2, <1>4 DEF Lifecycle!Cancel
<1>5. ASSUME NEW e \in Deployments, Lifecycle!Finish(e)
      PROVE  \/ Committed'[d] = Committed[d]
             \/ Committed[d] = "deploying" /\ Committed'[d] \in {"succeeded", "failed"}
             \/ Committed[d] = "canceling" /\ Committed'[d] \in {"canceled", "failed"}
  BY <1>2, <1>5 DEF Lifecycle!Finish
<1> QED
  BY <1>1, <1>3, <1>4, <1>5 DEF Lifecycle!Next

(* A row that has ended stays as it is: neither a late answer of a stale   *)
(* worker nor a cancel that comes after the end can change its status.     *)
THEOREM EndsForGood ==
    ASSUME NEW d \in Deployments, NEW s \in TerminalStatus
    PROVE  Spec => [](status[d] = s => [](status[d] = s))
<1>1. ASSUME [Lifecycle!Next]_Committed, status[d] = s PROVE status'[d] = s
  <2>1. Committed[d] = s
    BY <1>1 DEF Committed, TerminalStatus
  <2>2. Committed'[d] = s
    BY <1>1, <2>1, RowMoves DEF TerminalStatus
  <2> QED
    BY <2>2 DEF Committed, TerminalStatus
<1>2. [Lifecycle!Next]_Committed /\ status[d] = s => (status[d] = s)'
  BY <1>1
<1> QED
  BY <1>2, ImplementsLifecycle, PTL DEF LifecycleSpec, Lifecycle!Spec

(* A cancel that has been accepted stands: the row never succeeds after    *)
(* it, whatever the worker that was rolling it out reports.                *)
THEOREM CancelStands ==
    ASSUME NEW d \in Deployments
    PROVE  Spec => [](status[d] = "canceling" => [](status[d] # "succeeded"))
<1> DEFINE Stands == status[d] \in {"canceling", "canceled", "failed"}
<1>1. ASSUME [Lifecycle!Next]_Committed, Stands PROVE Stands'
  <2>1. Committed[d] = status[d]
    BY <1>1 DEF Committed
  <2>2. Committed'[d] \in {"canceling", "canceled", "failed"}
    BY <1>1, <2>1, RowMoves
  <2> QED
    BY <2>2 DEF Committed
<1>2. [Lifecycle!Next]_Committed /\ Stands => Stands'
  BY <1>1
<1>3. (status[d] = "canceling" => Stands) /\ (Stands => status[d] # "succeeded")
  OBVIOUS
<1> HIDE DEF Stands
<1> QED
  BY <1>2, <1>3, ImplementsLifecycle, PTL DEF LifecycleSpec, Lifecycle!Spec

-----------------------------------------------------------------------------
(* The contract of BuildLifecycle                                          *)

(* What a step does to the builds is a move of the contract.               *)
LEMMA BuildStep ==
    ASSUME TypeInv, [Next]_vars
    PROVE  [Builds!Next]_run
<1> USE DEF RunStatus, CancelableRun
<1> DEFINE One == \E d \in Deployments, v \in RunStatus :
                     /\ run' = [run EXCEPT ![d] = v]
                     /\ v = run[d] \/ <<run[d], v>> \in Builds!Moves
<1>t. run \in [Deployments -> RunStatus]
      /\ \A w \in Workers : step[w] \in RowSteps => row[w].id \in Deployments
  BY DEF TypeInv, BuildInv, WorkerInv, OpenSnapshot, Snapshot
<1>m. /\ <<"none", "active">> \in Builds!Moves /\ <<"none", "queued">> \in Builds!Moves
      /\ <<"queued", "active">> \in Builds!Moves /\ <<"queued2", "active2">> \in Builds!Moves
      /\ <<"active", "queued2">> \in Builds!Moves
      /\ <<"active", "succeeded">> \in Builds!Moves /\ <<"active2", "succeeded">> \in Builds!Moves
      /\ \A c \in CancelableRun : /\ <<c, "failed">> \in Builds!Moves
                                   /\ <<c, "canceled">> \in Builds!Moves
  BY DEF Builds!Moves, Builds!Executing, Builds!Waiting
<1>o. ASSUME One PROVE Builds!Next
  BY <1>o, <1>t DEF Builds!Next, Builds!Waiting, Builds!Executing, Builds!Ended
<1>1. ASSUME NEW w \in Workers, Build(w) PROVE UNCHANGED run \/ One
  <2>1. row[w].id \in Deployments
    BY <1>1, <1>t DEF Build, RowSteps, Step
  <2>2. \/ run' = run
        \/ /\ run[row[w].id] \in {"none", "queued", "queued2"}
           /\ \/ run' = [run EXCEPT ![row[w].id] =
                           IF run[row[w].id] = "queued2" THEN "active2" ELSE "active"]
              \/ run' = [run EXCEPT ![row[w].id] =
                           IF run[row[w].id] = "queued2" THEN "queued2" ELSE "queued"]
    BY <1>1 DEF Build
  <2> QED
    BY <2>1, <2>2, <1>m
<1>2. ASSUME NEW w \in Workers, Rebuild(w) PROVE UNCHANGED run \/ One
  BY <1>2, <1>t, <1>m DEF Rebuild, RowSteps, Step
<1>3. ASSUME NEW w \in Workers, CancelBuild(w) PROVE UNCHANGED run \/ One
  <2>1. row[w].id \in Deployments
    BY <1>3, <1>t DEF CancelBuild, RowSteps, Step
  <2>2. \/ run' = run
        \/ run[row[w].id] \in CancelableRun /\ run' = [run EXCEPT ![row[w].id] = "canceled"]
    BY <1>3 DEF CancelBuild, HasCancelableRun
  <2> QED
    BY <2>1, <2>2, <1>m
<1>4. ASSUME NEW d \in Deployments, BuildProgress(d) PROVE One
  BY <1>4, <1>m DEF BuildProgress
<1>5. ASSUME NEW w \in Workers,
             \/ Claim(w) \/ Select(w) \/ TakeRow(w) \/ Unresolvable(w) \/ Promote(w) \/ Converge(w)
             \/ ApplyResult(w) \/ Rollback(w) \/ SettleCancel(w) \/ CallFails(w) \/ Crash(w)
      PROVE  UNCHANGED run
  BY <1>5 DEF Claim, Select, TakeRow, Unresolvable, Promote, Converge, ApplyResult, Rollback,
              SettleCancel, CallFails, Crash, buildVars
<1>6. ASSUME API \/ UNCHANGED vars \/ (\E d \in Deployments : LeaseExpires(d))
             \/ \E s \in Services : RolloutProgress(s)
      PROVE  UNCHANGED run
  BY <1>6 DEF API, BeginEnqueue, CommitEnqueue, CancelDeployment, LeaseExpires, RolloutProgress,
              vars, buildVars
<1> HIDE DEF One
<1> QED
  BY <1>o, <1>1, <1>2, <1>3, <1>4, <1>5, <1>6 DEF Next, WorkerStep, Environment

(* The queue treats builds by the contract of BuildLifecycle, which        *)
(* BuildRuns implements: it starts, cancels and observes them only as a    *)
(* run allows, for any number of workers and any faults.                   *)
THEOREM ImplementsBuildContract == Spec => BuildsByContract
<1>1. Init => Builds!Init
  BY DEF Init, Builds!Init
<1>2. TypeInv /\ [Next]_vars => [Builds!Next]_run
  BY BuildStep
<1> QED
  BY <1>1, <1>2, TypeInvInvariant, PTL DEF Spec, BuildsByContract, Builds!Spec

-----------------------------------------------------------------------------
(* The steps of one worker, and of the others                              *)

(* The ids are an interval.                                                *)
LEMMA DeploymentsFinite == IsFiniteSet(Deployments)
BY FS_Interval, QueueConstants DEF Deployments

(* A set of deployments has a newest member.                               *)
LEMMA Newest ==
    ASSUME NEW T, T \in SUBSET Deployments, T # {}
    PROVE  \E m \in T : \A d \in T : d <= m
<1> DEFINE R == {ss \in Nat \X Nat : ss[1] < ss[2]}
           D == {MaxDeployments - d : d \in T}
<1>1. IsWellFoundedOn(R, Nat)
  BY NatLessThanWellFounded DEF OpToRel
<1>2. D \subseteq Nat /\ D # {}
  <2>1. \A d \in T : MaxDeployments - d \in Nat
    BY QueueConstants DEF Deployments
  <2> QED
    BY <2>1
<1> HIDE DEF R, D
<1>3. PICK x \in D : \A y \in D : ~(<<y, x>> \in R)
  BY <1>1, <1>2, WFMin
<1>4. PICK m \in T : x = MaxDeployments - m
  BY <1>3 DEF D
<1>5. \A d \in T : ~(MaxDeployments - d < MaxDeployments - m)
  BY <1>2, <1>3, <1>4 DEF D, R
<1>6. \A d \in T : d <= m
  BY <1>5, QueueConstants DEF Deployments
<1> QED
  BY <1>6

(* ORDER BY ... LIMIT n returns at most n rows.                            *)
LEMMA OldestBound ==
    ASSUME NEW S, S \in SUBSET Deployments, NEW n \in Nat
    PROVE  IsFiniteSet(Oldest(S, n)) /\ Cardinality(Oldest(S, n)) <= n
<1> DEFINE T == Oldest(S, n)
<1>1. T \in SUBSET S /\ IsFiniteSet(S) /\ IsFiniteSet(T)
  BY DeploymentsFinite, FS_Subset DEF Oldest
<1>2. CASE T = {}
  <2> HIDE DEF T
  <2>1. Cardinality(T) = 0
    BY <1>2, FS_EmptySet
  <2>2. Cardinality(T) <= n
    BY <2>1
  <2> QED
    BY <1>1, <2>2 DEF T
<1>3. CASE T # {}
  <2>1. PICK m \in T : \A d \in T : d <= m
    BY <1>1, <1>3, Newest
  <2>2. T \ {m} \subseteq {e \in S : e < m}
    <3>1. \A d \in S : d \in Int
      BY QueueConstants DEF Deployments
    <3>2. \A d \in T \ {m} : d < m
      BY <1>1, <2>1, <3>1
    <3> QED
      BY <1>1, <3>2
  <2>3. /\ IsFiniteSet({e \in S : e < m})
        /\ Cardinality(T \ {m}) <= Cardinality({e \in S : e < m})
    BY <1>1, <2>2, FS_Subset
  <2>4. Cardinality({e \in S : e < m}) < n
    BY <2>1 DEF Oldest
  <2>5. Cardinality(T \ {m}) = Cardinality(T) - 1
    BY <1>1, <2>1, FS_RemoveElement
  <2>6. /\ Cardinality({e \in S : e < m}) \in Nat
        /\ Cardinality(T \ {m}) \in Nat /\ Cardinality(T) \in Nat
    BY <1>1, <2>3, FS_RemoveElement, FS_CardinalityType
  <2> QED
    BY <1>1, <2>3, <2>4, <2>5, <2>6
<1> QED
  BY <1>2, <1>3

(* The rows a worker still has to handle in its tick.                      *)
Held(w) == rows[w] \cup IF step[w] \in RowSteps THEN {row[w]} ELSE {}

(* No row is worked on by two workers at once.                             *)
HandsApart ==
    \A v, w \in Workers : v # w => \A q \in Held(v), r \in Held(w) : q.id # r.id

(* Time, builds and the cluster.                                           *)
Quiet ==
    \/ \E d \in Deployments : LeaseExpires(d) \/ BuildProgress(d)
    \/ \E s \in Services : RolloutProgress(s)
    \/ UNCHANGED vars

(* A call of the worker fails, or the worker dies.                         *)
Interrupted(w) == CallFails(w) \/ Crash(w)

(* What worker w does or what happens to it, and the steps of no worker.   *)
MovedBy(w) == WorkerStep(w) \/ Rebuild(w) \/ Interrupted(w)
MovedByNobody == API \/ Quiet

(* Every step is one of the two.                                           *)
LEMMA NextMoves ==
    ASSUME [Next]_vars
    PROVE  MovedByNobody \/ \E w \in Workers : MovedBy(w)
BY DEF Next, Environment, Quiet, Interrupted, MovedBy, MovedByNobody

(* Time, builds and the cluster leave the rows and the workers alone.      *)
LEMMA QuietUnchanged ==
    ASSUME Quiet
    PROVE  UNCHANGED <<status, phase, step, rows, row, result>>
BY DEF Quiet, LeaseExpires, BuildProgress, RolloutProgress, vars, dbVars, workerVars

(* After a failed call or a crash no answer waits to be applied, and the   *)
(* rows are as they were.                                                  *)
LEMMA InterruptedStep ==
    ASSUME TypeInv, NEW w \in Workers, Interrupted(w)
    PROVE  /\ UNCHANGED <<status, phase, run, pushed, live>>
           /\ step'[w] \in {"claim", "select", "rows"}
           /\ rows'[w] \in SUBSET rows[w]
<1> USE DEF TypeInv, WorkerInv
<1>1. CASE CallFails(w)
  BY <1>1 DEF CallFails, EndRow, ForgetTick, dbVars, buildVars, clusterVars
<1>2. CASE Crash(w)
  BY <1>2 DEF Crash, ForgetTick, buildVars, clusterVars
<1> QED
  BY <1>1, <1>2 DEF Interrupted

-----------------------------------------------------------------------------
(* What a worker has in hand                                               *)

(* A worker whose rows nobody else has in hand ends them itself, each in   *)
(* its own turn: they stay in flight until then, and of a row that is      *)
(* being canceled the snapshot stays true.                                 *)
HandInv(w) ==
    /\ \A r \in Held(w) :
          /\ status[r.id] \in InFlightStatus
          /\ r.status = "canceling" => status[r.id] = "canceling" /\ phase[r.id] = r.phase
    /\ \A q, r \in rows[w] : q.id = r.id => q = r
    /\ step[w] \in RowSteps => \A q \in rows[w] : q.id # row[w].id
    /\ step[w] \in {"cancel", "rollback", "settle"} => row[w].status = "canceling"

(* The worker's own steps keep it, and users only turn deploying into      *)
(* canceling.                                                              *)
LEMMA HandStep ==
    ASSUME NEW w \in Workers, TypeInv, HandInv(w), MovedByNobody \/ MovedBy(w)
    PROVE  HandInv(w)'
<1> USE DEF HandInv, Held, InFlightStatus
<1>t. /\ phase \in [Deployments -> Phase] /\ status \in [Deployments -> Status]
      /\ step \in [Workers -> Step] /\ result \in [Workers -> Result]
      /\ rows \in [Workers -> SUBSET OpenSnapshot]
      /\ row \in [Workers -> OpenSnapshot \cup {NoRow}]
      /\ \A r \in rows[w] : r.id \in Deployments
      /\ step[w] \in RowSteps => row[w].id \in Deployments
      /\ \A r \in Held(w) : r.id \in Deployments
  BY DEF TypeInv, RowInv, WorkerInv, OpenSnapshot, Snapshot
<1>1. CASE API
  <2>1. UNCHANGED <<step, rows, row>>
    BY <1>1 DEF API, BeginEnqueue, CommitEnqueue, CancelDeployment, workerVars
  <2>2. \A d \in Deployments : status[d] \in InFlightStatus =>
           /\ status'[d] \in InFlightStatus
           /\ status[d] = "canceling" => status'[d] = "canceling" /\ phase'[d] = phase[d]
    BY <1>1, <1>t DEF API, BeginEnqueue, CommitEnqueue, CancelDeployment, SupersededBy, Of
  <2> QED
    BY <2>1, <2>2, <1>t
<1>2. CASE Claim(w)
  <2>1. \A d \in Deployments : status[d] \in InFlightStatus =>
           status'[d] = status[d] /\ phase'[d] = phase[d]
    BY <1>2, <1>t DEF Claim, Oldest, Claimable
  <2>2. /\ UNCHANGED <<rows, row>>
        /\ step'[w] = "select"
    BY <1>2, <1>t DEF Claim
  <2> QED
    BY <2>1, <2>2, <1>t DEF RowSteps
<1>3. CASE Select(w)
  <2>1. /\ rows'[w] = {SnapshotOf(d) : d \in Reconcilable(w)}
        /\ step'[w] \in {"claim", "rows"}
        /\ UNCHANGED <<status, phase>>
    BY <1>3, <1>t DEF Select, dbVars
  <2> QED
    BY <2>1 DEF SnapshotOf, Reconcilable, InFlight, RowSteps
<1>4. CASE TakeRow(w)
  <2>1. PICK r \in rows[w] :
          /\ rows'[w] = rows[w] \ {r}
          /\ row'[w] = r
          /\ step'[w] = IF r.status = "canceling" THEN "cancel" ELSE "deploy"
    BY <1>4, <1>t DEF TakeRow
  <2>2. UNCHANGED <<status, phase>>
    BY <1>4 DEF TakeRow
  <2> QED
    BY <2>1, <2>2 DEF RowSteps, Step
<1>5. CASE Unresolvable(w) \/ Build(w) \/ Rebuild(w) \/ Converge(w) \/ CancelBuild(w) \/ Rollback(w)
  <2>1. /\ UNCHANGED <<status, phase, rows, row>>
        /\ step[w] \in RowSteps
        /\ step'[w] \in RowSteps
        /\ \/ step'[w] \in {"apply", "promote"}
           \/ step[w] \in {"cancel", "rollback"}
    <3>1. CASE Unresolvable(w) \/ Build(w) \/ Rebuild(w)
      BY <3>1, <1>t DEF Unresolvable, Build, Rebuild, Return, dbVars, RowSteps, Step
    <3>2. CASE Converge(w)
      BY <3>2, <1>t DEF Converge, ReconcileRuntime, Return, dbVars, RowSteps, Step
    <3>3. CASE CancelBuild(w) \/ Rollback(w)
      BY <3>3, <1>t DEF CancelBuild, Rollback, ReconcileRuntime, Return, dbVars, RowSteps, Step
    <3> QED
      BY <1>5, <3>1, <3>2, <3>3
  <2> QED
    BY <2>1
<1>6. CASE Promote(w)
  <2>1. /\ UNCHANGED <<status, rows, row>>
        /\ step[w] \in RowSteps
        /\ step'[w] \in {"apply", "converge"}
        /\ \A d \in Deployments : status[d] = "canceling" => phase'[d] = phase[d]
    BY <1>6, <1>t DEF Promote, Return, RowSteps, Step
  <2>2. step'[w] \in RowSteps
    BY <2>1 DEF RowSteps, Step
  <2> QED
    BY <2>1, <2>2, <1>t
<1>7. CASE ApplyResult(w) \/ SettleCancel(w)
  <2>1. /\ step[w] \in RowSteps
        /\ \A d \in Deployments \ {row[w].id} : status'[d] = status[d] /\ phase'[d] = phase[d]
        /\ rows' = rows
        /\ step'[w] \in {"claim", "rows"}
    BY <1>7, <1>t DEF ApplyResult, SettleCancel, EndRow, RowSteps, Step
  <2> QED
    BY <2>1, <1>t DEF RowSteps
<1>8. CASE Interrupted(w)
  BY <1>8, InterruptedStep DEF RowSteps
<1>9. CASE Quiet
  BY <1>9, QuietUnchanged
<1> QED
  BY <1>1, <1>2, <1>3, <1>4, <1>5, <1>6, <1>7, <1>8, <1>9
  DEF MovedByNobody, MovedBy, WorkerStep

(* The others leave it what it has in hand.                                *)
LEMMA OthersUnmoved ==
    ASSUME NEW v \in Workers, NEW w \in Workers, v # w, TypeInv, HandsApart, HandInv(w),
           MovedBy(v)
    PROVE  /\ step'[w] = step[w] /\ rows'[w] = rows[w]
           /\ row'[w] = row[w] /\ result'[w] = result[w]
           /\ \A r \in Held(w) : status'[r.id] = status[r.id] /\ phase'[r.id] = phase[r.id]
<1>t. /\ phase \in [Deployments -> Phase] /\ status \in [Deployments -> Status]
      /\ step \in [Workers -> Step] /\ result \in [Workers -> Result]
      /\ rows \in [Workers -> SUBSET OpenSnapshot]
      /\ row \in [Workers -> OpenSnapshot \cup {NoRow}]
  BY DEF TypeInv, RowInv, WorkerInv
<1>h. \A r \in Held(w) : r.id \in Deployments /\ status[r.id] \in InFlightStatus
  BY DEF HandInv, Held, TypeInv, WorkerInv, OpenSnapshot, Snapshot
<1>a. ASSUME step[v] \in RowSteps
      PROVE  \A r \in Held(w) : r.id # row[v].id
  BY <1>a DEF HandsApart, Held
<1>r. \A s \in Step : s \in RowSteps <=> s \notin {"claim", "select", "rows"}
  BY DEF RowSteps
<1>1. CASE Claim(v)
  <2>1. \A d \in Deployments : status[d] \in InFlightStatus =>
           status'[d] = status[d] /\ phase'[d] = phase[d]
    BY <1>1, <1>t DEF Claim, Oldest, Claimable, InFlightStatus
  <2> QED
    BY <1>1, <2>1, <1>t, <1>h DEF Claim
<1>2. CASE Select(v) \/ TakeRow(v)
  BY <1>2, <1>t DEF Select, TakeRow, dbVars
<1>3. CASE Unresolvable(v) \/ Build(v) \/ Rebuild(v) \/ Converge(v) \/ CancelBuild(v) \/ Rollback(v)
  <2>1. UNCHANGED <<status, phase, rows, row>>
    BY <1>3 DEF Unresolvable, Build, Rebuild, Converge, CancelBuild, Rollback,
                ReconcileRuntime, Return, dbVars
  <2>2. \E answer \in Result, next \in Step : Return(v, answer, next)
    BY <1>3 DEF Unresolvable, Build, Rebuild, Converge, CancelBuild, Rollback,
                ReconcileRuntime, Result, Step, BuildPhase
  <2> QED
    BY <2>1, <2>2, <1>t DEF Return
<1>4. CASE Promote(v)
  <2>1. /\ UNCHANGED <<status, rows, row>>
        /\ phase' = phase \/ phase' = [phase EXCEPT ![row[v].id] = "applying"]
        /\ \E answer \in Result, next \in Step : Return(v, answer, next)
        /\ step[v] = "promote"
    BY <1>4 DEF Promote, Return, Result, Step
  <2> QED
    BY <2>1, <1>a, <1>h, <1>r, <1>t DEF Return
<1>5. CASE ApplyResult(v) \/ SettleCancel(v)
  <2>1. /\ step[v] \in {"apply", "settle"} /\ EndRow(v)
        /\ \A d \in Deployments \ {row[v].id} : status'[d] = status[d] /\ phase'[d] = phase[d]
    BY <1>5, <1>t DEF ApplyResult, SettleCancel
  <2> QED
    BY <2>1, <1>a, <1>h, <1>r, <1>t DEF EndRow
<1>6. CASE Interrupted(v)
  <2>1. EndRow(v) \/ ForgetTick(v) \/ (step' = [step EXCEPT ![v] = "select"]
                                        /\ UNCHANGED <<rows, row, result>>)
    BY <1>6 DEF Interrupted, CallFails, Crash
  <2>2. UNCHANGED <<status, phase>>
    BY <1>6, InterruptedStep
  <2> QED
    BY <2>1, <2>2, <1>t DEF EndRow, ForgetTick
<1> QED
  BY <1>1, <1>2, <1>3, <1>4, <1>5, <1>6 DEF MovedBy, WorkerStep

(* As long as no row is worked on twice, every step keeps every hand.      *)
LEMMA HandsStep ==
    ASSUME TypeInv, HandsApart, \A w \in Workers : HandInv(w), [Next]_vars
    PROVE  \A w \in Workers : HandInv(w)'
<1> SUFFICES ASSUME NEW w \in Workers PROVE HandInv(w)'
  OBVIOUS
<1>1. CASE MovedByNobody \/ MovedBy(w)
  BY <1>1, HandStep
<1>2. ASSUME NEW v \in Workers, v # w, MovedBy(v) PROVE HandInv(w)'
  <2>1. /\ step'[w] = step[w] /\ rows'[w] = rows[w] /\ row'[w] = row[w]
        /\ \A r \in Held(w) : status'[r.id] = status[r.id] /\ phase'[r.id] = phase[r.id]
    BY <1>2, OthersUnmoved
  <2> QED
    BY <2>1 DEF HandInv, Held
<1> QED
  BY <1>1, <1>2, NextMoves

(* Every hand together.                                                    *)
HandsInv == \A w \in Workers : HandInv(w)

(* Nothing is in hand at first.                                            *)
LEMMA HandsInit == Init => HandsInv
BY DEF Init, HandsInv, HandInv, Held, RowSteps

-----------------------------------------------------------------------------
(* Leases                                                                  *)

(* No row in flight has a lease that has run out.                          *)
LeasesHold == \A d \in InFlight : leaseLive[d]

(* A worker holds the lease of every row it has in hand.                   *)
OwnerInv == \A w \in Workers : \A r \in Held(w) : lockedBy[r.id] = w

(* Every step that finds no lease run out keeps it.                        *)
LEMMA OwnerStep ==
    ASSUME TypeInv, LeasesHold, OwnerInv, HandsInv, [Next]_vars
    PROVE  OwnerInv'
<1> USE DEF OwnerInv, Held
<1>t. /\ lockedBy \in [Deployments -> Workers \cup {NoWorker}]
      /\ step \in [Workers -> Step] /\ result \in [Workers -> Result]
      /\ rows \in [Workers -> SUBSET OpenSnapshot]
      /\ row \in [Workers -> OpenSnapshot \cup {NoRow}]
      /\ \A w \in Workers : \A r \in Held(w) :
            r.id \in Deployments /\ status[r.id] \in InFlightStatus
      /\ NoWorker \notin Workers
  BY QueueConstants
     DEF TypeInv, RowInv, WorkerInv, HandsInv, HandInv, OpenSnapshot, Snapshot
<1>k. ASSUME UNCHANGED <<lockedBy, rows, row>>,
             \A w \in Workers : step'[w] \in RowSteps => step[w] \in RowSteps
      PROVE  OwnerInv'
  BY <1>k
<1>r. \A s \in Step : s \in RowSteps <=> s \notin {"claim", "select", "rows"}
  BY DEF RowSteps
<1>1. CASE MovedByNobody
  BY <1>1, <1>k DEF MovedByNobody, API, BeginEnqueue, CommitEnqueue, CancelDeployment, Quiet,
     LeaseExpires, BuildProgress, RolloutProgress, vars, dbVars, workerVars
<1>2. ASSUME NEW v \in Workers, Claim(v) PROVE OwnerInv'
  <2>1. \A d \in Deployments : status[d] \in InFlightStatus => lockedBy'[d] = lockedBy[d]
    BY <1>2, <1>t DEF Claim, Oldest, Claimable, InFlightStatus
  <2>2. /\ UNCHANGED <<rows, row>>
        /\ \A w \in Workers : step'[w] \in RowSteps => step[w] \in RowSteps
    BY <1>2, <1>t DEF Claim, RowSteps
  <2> QED
    BY <2>1, <2>2, <1>t
<1>3. ASSUME NEW v \in Workers, Select(v) PROVE OwnerInv'
  <2>1. Reconcilable(v) = HeldBy(v)
    BY DEF Reconcilable, HeldBy, LeasesHold
  <2>2. \A r \in rows'[v] : lockedBy[r.id] = v
    BY <1>3, <2>1, <1>t DEF Select, HeldBy, SnapshotOf
  <2>3. /\ UNCHANGED <<lockedBy, row>>
        /\ step'[v] \notin RowSteps
        /\ \A w \in Workers \ {v} : rows'[w] = rows[w] /\ step'[w] = step[w]
    BY <1>3, <1>t DEF Select, RowSteps, dbVars
  <2> QED
    BY <2>2, <2>3
<1>4. ASSUME NEW v \in Workers, TakeRow(v) PROVE OwnerInv'
  <2>1. PICK r \in rows[v] :
          /\ rows' = [rows EXCEPT ![v] = @ \ {r}]
          /\ row' = [row EXCEPT ![v] = r]
          /\ \/ lockedBy' = [lockedBy EXCEPT ![r.id] = v]
             \/ lockedBy' = lockedBy
          /\ \A w \in Workers \ {v} : step'[w] = step[w]
    BY <1>4, <1>t DEF TakeRow
  <2>2. lockedBy[r.id] = v /\ lockedBy' = lockedBy
    BY <2>1, <1>t
  <2>3. ASSUME NEW w \in Workers, w # v
        PROVE  \A q \in Held(w)' : lockedBy'[q.id] = w
    <3>1. Held(w)' = Held(w)
      BY <2>1, <2>3, <1>t
    <3> QED
      BY <2>2, <3>1
  <2>4. \A q \in Held(v)' : lockedBy'[q.id] = v
    <3>1. Held(v)' \subseteq rows[v]
      BY <2>1, <1>t
    <3> QED
      BY <2>2, <3>1
  <2> QED
    BY <2>3, <2>4
<1>5. ASSUME NEW v \in Workers,
             \/ Unresolvable(v) \/ Build(v) \/ Rebuild(v) \/ Promote(v) \/ Converge(v)
             \/ CancelBuild(v) \/ Rollback(v)
      PROVE  OwnerInv'
  <2>1. UNCHANGED <<lockedBy, rows, row>>
    BY <1>5 DEF Unresolvable, Build, Rebuild, Promote, Converge, CancelBuild, Rollback,
                ReconcileRuntime, Return, dbVars
  <2>2. step[v] \in {"deploy", "promote", "converge", "cancel", "rollback"}
    BY <1>5 DEF Unresolvable, Build, Rebuild, Promote, Converge, CancelBuild, Rollback
  <2>3. \E answer \in Result, next \in Step : Return(v, answer, next)
    BY <1>5 DEF Unresolvable, Build, Rebuild, Promote, Converge, CancelBuild, Rollback,
                ReconcileRuntime, Result, Step, BuildPhase
  <2>4. \A w \in Workers : step'[w] \in RowSteps => step[w] \in RowSteps
    BY <2>2, <2>3, <1>r, <1>t DEF Return
  <2> QED
    BY <2>1, <2>4, <1>k
<1>6. ASSUME NEW v \in Workers, ApplyResult(v) \/ SettleCancel(v) PROVE OwnerInv'
  <2>1. UNCHANGED <<lockedBy, rows>> /\ EndRow(v)
    BY <1>6 DEF ApplyResult, SettleCancel, EndRow
  <2> QED
    BY <2>1, <1>t DEF EndRow, RowSteps
<1>7. ASSUME NEW v \in Workers, CallFails(v) PROVE OwnerInv'
  <2>1. UNCHANGED lockedBy
    BY <1>7 DEF CallFails, dbVars
  <2>2. EndRow(v) \/ ForgetTick(v) \/ (step' = [step EXCEPT ![v] = "select"]
                                        /\ UNCHANGED <<rows, row, result>>)
    BY <1>7 DEF CallFails
  <2> QED
    BY <2>1, <2>2, <1>t DEF EndRow, ForgetTick, RowSteps
<1>8. ASSUME NEW v \in Workers, Crash(v) PROVE OwnerInv'
  <2>1. /\ lockedBy' = [d \in Deployments |-> IF lockedBy[d] = v THEN NoWorker ELSE lockedBy[d]]
        /\ ForgetTick(v)
    BY <1>8 DEF Crash
  <2>2. Held(v)' = {}
    BY <2>1, <1>t DEF ForgetTick, RowSteps
  <2>3. \A w \in Workers \ {v} : Held(w)' = Held(w)
    BY <2>1, <1>t DEF ForgetTick
  <2>4. ASSUME NEW w \in Workers, NEW r \in Held(w)'
        PROVE  lockedBy'[r.id] = w
    <3>1. w # v /\ r \in Held(w)
      BY <2>2, <2>3, <2>4
    <3>2. lockedBy[r.id] = w /\ r.id \in Deployments
      BY <3>1, <1>t
    <3> QED
      BY <2>1, <3>1, <3>2
  <2> QED
    BY <2>4
<1> QED
  BY <1>1, <1>2, <1>3, <1>4, <1>5, <1>6, <1>7, <1>8, NextMoves
  DEF MovedBy, WorkerStep, Interrupted

(* While no lease runs out, no row is worked on by two replicas at once:   *)
(* a claim, the snapshot a replica selects and the rows a dead replica     *)
(* leaves behind never give a row to a second one.                         *)
THEOREM LeasesKeepHandsApart == Spec /\ []LeasesHold => []HandsApart
<1>1. Init => OwnerInv /\ HandsInv
  <2>1. Init => OwnerInv
    BY DEF Init, OwnerInv, Held, RowSteps
  <2> QED
    BY <2>1, HandsInit
<1>2. OwnerInv => HandsApart
  BY DEF OwnerInv, HandsApart
<1>3. TypeInv /\ LeasesHold /\ OwnerInv /\ HandsInv /\ [Next]_vars => OwnerInv'
  BY OwnerStep
<1>4. TypeInv /\ HandsApart /\ HandsInv /\ [Next]_vars => HandsInv'
  BY HandsStep DEF HandsInv
<1> QED
  BY <1>1, <1>2, <1>3, <1>4, TypeInvInvariant, PTL DEF Spec

(* A row in flight belongs to a live replica that renews its lease.        *)
RenewedInv == \A d \in InFlight : leaseLive[d] /\ lockedBy[d] # NoWorker

(* No worker dies while it owns a row in flight; calls may fail.           *)
OwnerLives == \A d \in InFlight : lockedBy'[d] # NoWorker
OwnersLive == [][OwnerLives]_vars

(* Without such deaths and without ticks longer than the lease timeout,    *)
(* every step keeps it.                                                    *)
LEMMA RenewedStep ==
    ASSUME SlowWorkers = FALSE, TypeInv, RenewedInv, [Next]_vars, [OwnerLives]_vars
    PROVE  RenewedInv'
<1> USE DEF RenewedInv, InFlight, InFlightStatus
<1>t. /\ status \in [Deployments -> Status]
      /\ lockedBy \in [Deployments -> Workers \cup {NoWorker}]
      /\ leaseLive \in [Deployments -> BOOLEAN]
      /\ NoWorker \notin Workers
  BY QueueConstants DEF TypeInv, RowInv
<1>f. faults \in Nat
  BY QueueConstants DEF TypeInv
<1>k. ASSUME UNCHANGED <<lockedBy, leaseLive>>,
             \A d \in Deployments : status'[d] \in InFlightStatus => status[d] \in InFlightStatus
      PROVE  RenewedInv'
  BY <1>k
<1>1. CASE API
  <2>1. UNCHANGED <<lockedBy, leaseLive>>
    BY <1>1 DEF API, BeginEnqueue, CommitEnqueue, CancelDeployment
  <2>2. \A d \in Deployments : status'[d] \in InFlightStatus => status[d] \in InFlightStatus
    BY <1>1, <1>t DEF API, BeginEnqueue, CommitEnqueue, CancelDeployment
  <2> QED
    BY <2>1, <2>2, <1>k
<1>2. ASSUME NEW w \in Workers, Claim(w) PROVE RenewedInv'
  <2>1. PICK C \in SUBSET Deployments :
          /\ status' = [d \in Deployments |-> IF d \in C THEN "deploying" ELSE status[d]]
          /\ lockedBy' = [d \in Deployments |-> IF d \in C THEN w ELSE lockedBy[d]]
          /\ leaseLive' = [d \in Deployments |-> IF d \in C THEN TRUE ELSE leaseLive[d]]
    BY <1>2 DEF Claim, Oldest, Claimable
  <2> QED
    BY <2>1, <1>t
<1>3. ASSUME NEW w \in Workers, TakeRow(w) PROVE RenewedInv'
  <2>1. \/ UNCHANGED <<lockedBy, leaseLive>>
        \/ \E d : /\ lockedBy' = [lockedBy EXCEPT ![d] = w]
                  /\ leaseLive' = [leaseLive EXCEPT ![d] = TRUE]
    BY <1>3 DEF TakeRow
  <2>2. status' = status
    BY <1>3 DEF TakeRow
  <2> QED
    BY <2>1, <2>2, <1>t
<1>4. ASSUME NEW w \in Workers, WorkerStep(w), ~Claim(w), ~TakeRow(w) PROVE RenewedInv'
  <2>1. UNCHANGED <<lockedBy, leaseLive>>
    BY <1>4 DEF WorkerStep, Select, Unresolvable, Build, Promote, Converge, ApplyResult,
                CancelBuild, Rollback, SettleCancel, dbVars
  <2>2. status' = status \/ \E d \in Deployments : status[d] \in InFlightStatus
                               /\ \E s \in TerminalStatus : status' = [status EXCEPT ![d] = s]
    <3>1. CASE ApplyResult(w) \/ SettleCancel(w)
      <4>1. row[w].id \in Deployments
        BY <3>1 DEF ApplyResult, SettleCancel, TypeInv, WorkerInv, RowSteps, Step, OpenSnapshot,
                    Snapshot
      <4> QED
        BY <3>1, <4>1 DEF ApplyResult, SettleCancel, StillIs, TerminalStatus
    <3>2. CASE ~(ApplyResult(w) \/ SettleCancel(w))
      BY <1>4, <3>2 DEF WorkerStep, Select, Unresolvable, Build, Promote, Converge,
                CancelBuild, Rollback, dbVars
    <3> QED
      BY <3>1, <3>2
  <2>3. \A d \in Deployments : status'[d] \in InFlightStatus => status[d] \in InFlightStatus
    BY <2>2, <1>t
  <2> QED
    BY <2>1, <2>3, <1>k
<1>5. ASSUME NEW w \in Workers, Rebuild(w) \/ Interrupted(w) PROVE RenewedInv'
  <2>1. CASE Rebuild(w) \/ CallFails(w)
    <3>1. UNCHANGED <<lockedBy, leaseLive, status>>
      BY <2>1 DEF Rebuild, CallFails, dbVars
    <3> QED
      BY <3>1, <1>k
  <2>2. CASE Crash(w)
    <3>1. UNCHANGED <<leaseLive, status>> /\ faults' # faults
      BY <2>2, <1>f DEF Crash
    <3>2. OwnerLives
      BY <3>1 DEF vars
    <3> QED
      BY <3>1, <3>2 DEF OwnerLives
  <2> QED
    BY <1>5, <2>1, <2>2 DEF Interrupted
<1>6. CASE Quiet
  <2>1. UNCHANGED <<lockedBy, leaseLive, status>>
    BY <1>6 DEF Quiet, LeaseExpires, BuildProgress, RolloutProgress, vars, dbVars
  <2> QED
    BY <2>1, <1>k
<1> QED
  BY <1>1, <1>2, <1>3, <1>4, <1>5, <1>6, NextMoves DEF MovedByNobody, MovedBy

(* Replicas that do not die with a row in flight and take no longer than   *)
(* the lease timeout for a tick never lose a lease, whatever calls fail.   *)
THEOREM TimelyReplicasKeepLeases ==
    ASSUME SlowWorkers = FALSE
    PROVE  Spec /\ OwnersLive => []LeasesHold
<1>1. Init => RenewedInv
  BY DEF Init, RenewedInv, InFlight, InFlightStatus
<1>2. TypeInv /\ RenewedInv /\ [Next]_vars /\ [OwnerLives]_vars => RenewedInv'
  BY RenewedStep
<1>3. RenewedInv => LeasesHold
  BY DEF RenewedInv, LeasesHold
<1> QED
  BY <1>1, <1>2, <1>3, TypeInvInvariant, PTL DEF Spec, OwnersLive

-----------------------------------------------------------------------------
(* The deployment cap                                                      *)

(* A worker's row leaves the build phases only with a slot: what it has    *)
(* decided of the row still fits the row's phase when it is written.       *)
SlotInv(w) ==
    /\ \A d \in Deployments : ~IsBuildDeployment(d) => phase[d] \notin BuildPhase
    /\ step[w] = "promote" => IsBuildDeployment(row[w].id)
    /\ step[w] = "converge" => phase[row[w].id] \notin BuildPhase
    /\ step[w] = "apply" =>
          /\ result[w] \in BuildPhase => IsBuildDeployment(row[w].id)
          /\ result[w] \in {"applying", "rolling-out", "error"}
             => phase[row[w].id] \notin BuildPhase

(* The worker's own steps and those of nobody keep it.                     *)
LEMMA SlotStep ==
    ASSUME NEW w \in Workers, TypeInv, SlotInv(w), MovedByNobody \/ MovedBy(w)
    PROVE  SlotInv(w)'
<1> USE DEF SlotInv, IsBuildDeployment
<1>t. /\ phase \in [Deployments -> Phase] /\ status \in [Deployments -> Status]
      /\ step \in [Workers -> Step] /\ result \in [Workers -> Result]
      /\ row \in [Workers -> OpenSnapshot \cup {NoRow}]
      /\ step[w] \in RowSteps => row[w].id \in Deployments
  BY DEF TypeInv, RowInv, WorkerInv, OpenSnapshot, Snapshot
<1>1. CASE API
  <2>1. UNCHANGED <<step, row, result>>
    BY <1>1 DEF API, BeginEnqueue, CommitEnqueue, CancelDeployment, workerVars
  <2>2. phase' = phase \/ \E d \in Deployments : phase' = [phase EXCEPT ![d] = "canceled"]
    BY <1>1 DEF API, BeginEnqueue, CommitEnqueue, CancelDeployment
  <2>3. \A d \in Deployments : phase[d] \notin BuildPhase => phase'[d] \notin BuildPhase
    BY <2>2, <1>t DEF BuildPhase
  <2> QED
    BY <2>1, <2>3, <1>t DEF RowSteps, Step
<1>2. CASE Claim(w)
  BY <1>2, <1>t DEF Claim, BuildPhase
<1>3. CASE Select(w) \/ TakeRow(w)
  BY <1>3, <1>t DEF Select, TakeRow, dbVars
<1>4. CASE Unresolvable(w) \/ Build(w) \/ Rebuild(w)
  <2>1. /\ UNCHANGED <<phase, row>>
        /\ \/ Return(w, "failed", "apply")
           \/ /\ IsBuildDeployment(row[w].id)
              /\ \/ \E p \in BuildPhase : Return(w, p, "apply")
                 \/ Return(w, "none", "promote")
    BY <1>4 DEF Unresolvable, Build, Rebuild, Return, dbVars, BuildPhase
  <2> QED
    BY <2>1, <1>t DEF Return, BuildPhase
<1>5. CASE Promote(w)
  BY <1>5, <1>t DEF Promote, Return, BuildPhase, RowSteps, Step
<1>6. CASE Converge(w)
  <2>1. phase[row[w].id] \notin BuildPhase
    BY <1>6, <1>t DEF Converge, RowSteps, Step
  <2>2. \E answer \in {"applying", "ready", "failed", "error", "rolling-out"} :
           Return(w, answer, "apply")
    BY <1>6 DEF Converge, ReconcileRuntime
  <2> QED
    BY <1>6, <2>1, <2>2, <1>t DEF Converge, Return, dbVars, BuildPhase
<1>7. CASE ApplyResult(w)
  <2>1. \A d \in Deployments : ~IsBuildDeployment(d) => phase'[d] \notin BuildPhase
    BY <1>7, <1>t DEF ApplyResult, BuildPhase
  <2> QED
    BY <1>7, <2>1, <1>t DEF ApplyResult, EndRow
<1>8. CASE CancelBuild(w) \/ Rollback(w)
  <2>1. \E answer \in Result, next \in {"settle", "rollback"} : Return(w, answer, next)
    BY <1>8 DEF CancelBuild, Rollback, ReconcileRuntime, Result
  <2> QED
    BY <1>8, <2>1, <1>t DEF CancelBuild, Rollback, Return, dbVars
<1>9. CASE SettleCancel(w)
  <2>1. result[w] \notin BuildPhase
    BY <1>9 DEF SettleCancel, TypeInv, WorkerInv, CancelAnswers, BuildPhase
  <2>2. \A d \in Deployments : ~IsBuildDeployment(d) => phase'[d] \notin BuildPhase
    BY <1>9, <2>1, <1>t DEF SettleCancel, BuildPhase
  <2> QED
    BY <1>9, <2>2, <1>t DEF SettleCancel, EndRow
<1>10. CASE Interrupted(w)
  BY <1>10, InterruptedStep
<1>11. CASE Quiet
  BY <1>11, QuietUnchanged
<1> QED
  BY <1>1, <1>2, <1>3, <1>4, <1>5, <1>6, <1>7, <1>8, <1>9, <1>10, <1>11
  DEF MovedByNobody, MovedBy, WorkerStep

(* As long as no row is worked on twice, every step keeps them all.        *)
LEMMA SlotsStep ==
    ASSUME TypeInv, HandsApart, \A w \in Workers : HandInv(w) /\ SlotInv(w), [Next]_vars
    PROVE  \A w \in Workers : SlotInv(w)'
<1> SUFFICES ASSUME NEW w \in Workers PROVE SlotInv(w)'
  OBVIOUS
<1>1. CASE MovedByNobody \/ MovedBy(w)
  BY <1>1, SlotStep
<1>2. ASSUME NEW v \in Workers, v # w, MovedBy(v) PROVE SlotInv(w)'
  <2>1. /\ step'[w] = step[w] /\ row'[w] = row[w] /\ result'[w] = result[w]
        /\ \A r \in Held(w) : phase'[r.id] = phase[r.id]
    BY <1>2, OthersUnmoved
  <2>2. step[w] \in RowSteps => phase'[row[w].id] = phase[row[w].id]
    BY <2>1 DEF Held
  <2>3. SlotInv(v)'
    BY <1>2, SlotStep
  <2> QED
    BY <2>1, <2>2, <2>3 DEF SlotInv, IsBuildDeployment, RowSteps, Step
<1> QED
  BY <1>1, <1>2, NextMoves

(* The rows counted by DeployingWithinCap.                                 *)
Occupants == {d \in Occupying : status[d] = "deploying"}

(* A claim and a promotion hand out free slots only, and no other step     *)
(* makes a row occupy one.                                                 *)
LEMMA CapStep ==
    ASSUME NEW w \in Workers, TypeInv, SlotInv(w), DeployingWithinCap,
           MovedByNobody \/ MovedBy(w)
    PROVE  DeployingWithinCap'
<1> DEFINE cap == Cardinality(Occupants') <= MaxConcurrent
<1> SUFFICES cap
  BY DEF DeployingWithinCap, Occupants
<1>t. /\ phase \in [Deployments -> Phase] /\ status \in [Deployments -> Status]
      /\ step[w] \in RowSteps => row[w].id \in Deployments
  BY DEF TypeInv, RowInv, WorkerInv, OpenSnapshot, Snapshot
<1>f. /\ IsFiniteSet(Occupants) /\ IsFiniteSet(Occupying)
      /\ Occupants \in SUBSET Occupying /\ Cardinality(Occupants) <= Cardinality(Occupying)
      /\ Cardinality(Occupants) \in Nat /\ Cardinality(Occupying) \in Nat
      /\ IsFiniteSet(Occupants') /\ Cardinality(Occupants') \in Nat
  <2>1. Occupying \in SUBSET Deployments /\ Occupants \in SUBSET Occupying
        /\ Occupants' \in SUBSET Deployments
    BY DEF Occupants, Occupying, InFlight, InFlightStatus
  <2>2. IsFiniteSet(Occupying) /\ IsFiniteSet(Occupants')
    BY <2>1, DeploymentsFinite, FS_Subset
  <2>3. IsFiniteSet(Occupants) /\ Cardinality(Occupants) <= Cardinality(Occupying)
    BY <2>1, <2>2, FS_Subset
  <2> QED
    BY <2>1, <2>2, <2>3, FS_CardinalityType
<1>c. Cardinality(Occupants) <= MaxConcurrent /\ MaxConcurrent \in Nat
  BY QueueConstants DEF DeployingWithinCap, Occupants
<1>s. ASSUME Occupants' \in SUBSET Occupants PROVE cap
  <2>1. Cardinality(Occupants') <= Cardinality(Occupants)
    BY <1>f, <1>s, FS_Subset
  <2> QED
    BY <1>c, <1>f, <2>1
<1>1. CASE API
  <2>1. Occupants' \in SUBSET Occupants
    BY <1>1, <1>t DEF API, BeginEnqueue, CommitEnqueue, CancelDeployment,
                      Occupants, Occupying, InFlight, InFlightStatus
  <2> QED
    BY <2>1, <1>s
<1>2. CASE Claim(w)
  <2>1. PICK locked \in SUBSET {d \in Claimable : Opening \cap Of(ServiceOf[d]) # {}} :
          LET claimed == Oldest(Claimable \ locked, ClaimLimit)
              set(f, v) == [d \in Deployments |-> IF d \in claimed THEN v ELSE f[d]]
          IN  status' = set(status, "deploying") /\ phase' = set(phase, "applying")
    BY <1>2 DEF Claim
  <2> DEFINE C == Oldest(Claimable \ locked, ClaimLimit)
  <2>2. /\ ClaimLimit \in Nat
        /\ ClaimLimit = 0 \/ ClaimLimit <= MaxConcurrent - Cardinality(Occupying)
    BY <1>f, QueueConstants DEF ClaimLimit
  <2>3. Claimable \ locked \in SUBSET Deployments
    BY DEF Claimable
  <2>4. IsFiniteSet(C) /\ Cardinality(C) <= ClaimLimit
    BY <2>2, <2>3, OldestBound
  <2>5. Occupants' \in SUBSET (Occupants \cup C)
    BY <2>1 DEF Occupants, Occupying, InFlight, InFlightStatus
  <2> HIDE DEF C
  <2>6. /\ IsFiniteSet(Occupants \cup C)
        /\ Cardinality(Occupants \cup C)
           = Cardinality(Occupants) + Cardinality(C) - Cardinality(Occupants \cap C)
    BY <1>f, <2>4, FS_Union
  <2>7. Cardinality(Occupants') <= Cardinality(Occupants \cup C)
    BY <2>5, <2>6, FS_Subset
  <2>8. Cardinality(C) \in Nat /\ Cardinality(Occupants \cap C) \in Nat
    BY <1>f, <2>4, FS_Subset, FS_CardinalityType
  <2>9. Cardinality(Occupants \cup C) \in Int
    BY <1>f, <2>6, <2>8
  <2> QED
    BY <1>c, <1>f, <2>2, <2>4, <2>6, <2>7, <2>8, <2>9
<1>3. CASE Promote(w)
  <2>1. Occupants' \in SUBSET Occupants
        \/ (SlotFree /\ Occupants' \in SUBSET (Occupying \cup {row[w].id}))
    BY <1>3, <1>t DEF Promote, Occupants, Occupying, InFlight, InFlightStatus
  <2>2. ASSUME SlotFree, Occupants' \in SUBSET (Occupying \cup {row[w].id}) PROVE cap
    <3>1. /\ IsFiniteSet(Occupying \cup {row[w].id})
          /\ Cardinality(Occupying \cup {row[w].id}) <= Cardinality(Occupying) + 1
      <4>1. CASE row[w].id \in Occupying
        <5>1. Occupying \cup {row[w].id} = Occupying
          BY <4>1
        <5>2. Cardinality(Occupying) <= Cardinality(Occupying) + 1
          BY <1>f
        <5> QED
          BY <5>1, <1>f, <5>2
      <4>2. CASE row[w].id \notin Occupying
        <5>1. /\ IsFiniteSet(Occupying \cup {row[w].id})
              /\ Cardinality(Occupying \cup {row[w].id}) = Cardinality(Occupying) + 1
          BY <4>2, <1>f, FS_AddElement
        <5> QED
          BY <5>1, <1>f
      <4> QED
        BY <4>1, <4>2
    <3>2. Cardinality(Occupants') <= Cardinality(Occupying \cup {row[w].id})
      BY <2>2, <3>1, FS_Subset
    <3>3. Cardinality(Occupying \cup {row[w].id}) \in Nat
      BY <3>1, FS_CardinalityType
    <3> QED
      BY <1>c, <1>f, <2>2, <3>1, <3>2, <3>3 DEF SlotFree
  <2> QED
    BY <2>1, <2>2, <1>s
<1>4. CASE ApplyResult(w)
  <2>1. result[w] \in RolloutAnswers /\ row[w].id \in Deployments
    BY <1>4, <1>t DEF ApplyResult, TypeInv, WorkerInv, RowSteps, Step
  <2>2. Occupants' \in SUBSET Occupants
    BY <1>4, <1>t, <2>1 DEF ApplyResult, StillIs, SlotInv, RolloutAnswers, BuildPhase,
                            Occupants, Occupying, InFlight, InFlightStatus
  <2> QED
    BY <2>2, <1>s
<1>5. CASE SettleCancel(w)
  <2>1. row[w].id \in Deployments
    BY <1>5, <1>t DEF SettleCancel, RowSteps, Step
  <2>2. Occupants' \in SUBSET Occupants
    BY <1>5, <1>t, <2>1 DEF SettleCancel, StillIs,
                            Occupants, Occupying, InFlight, InFlightStatus
  <2> QED
    BY <2>2, <1>s
<1>6. CASE \/ Select(w) \/ TakeRow(w) \/ Unresolvable(w) \/ Build(w) \/ Rebuild(w)
           \/ Converge(w) \/ CancelBuild(w) \/ Rollback(w)
  <2>1. UNCHANGED <<status, phase>>
    BY <1>6 DEF Select, TakeRow, Unresolvable, Build, Rebuild, Converge, CancelBuild,
                Rollback, dbVars
  <2> QED
    BY <2>1, <1>s DEF Occupants, Occupying, InFlight, InFlightStatus
<1>7. CASE Interrupted(w) \/ Quiet
  <2>1. UNCHANGED <<status, phase>>
    BY <1>7, InterruptedStep, QuietUnchanged
  <2> QED
    BY <2>1, <1>s DEF Occupants, Occupying, InFlight, InFlightStatus
<1> QED
  BY <1>1, <1>2, <1>3, <1>4, <1>5, <1>6, <1>7
  DEF MovedByNobody, MovedBy, WorkerStep

(* What every worker has decided of its row fits the row's phase.          *)
SlotsInv == \A w \in Workers : SlotInv(w)

(* As long as no row is worked on by two replicas at once, the rows being  *)
(* rolled out never exceed the cap: for any number of replicas, services   *)
(* and deployments, claims, promotions of built images, failed calls,      *)
(* crashes and lost leases.  No assumption on the registry is needed.      *)
THEOREM CapKeptApart == Spec /\ []HandsApart => []DeployingWithinCap
<1>1. Init => SlotsInv
  BY DEF Init, SlotsInv, SlotInv, BuildPhase
<1>2. Init => DeployingWithinCap
  <2> SUFFICES ASSUME Init PROVE DeployingWithinCap
    OBVIOUS
  <2>1. {d \in Occupying : status[d] = "deploying"} = {}
    BY DEF Init, Occupying, InFlight
  <2>2. Cardinality({d \in Occupying : status[d] = "deploying"}) = 0
    BY <2>1, FS_EmptySet
  <2> QED
    BY <2>2, QueueConstants DEF DeployingWithinCap
<1>3. TypeInv /\ HandsApart /\ HandsInv /\ [Next]_vars => HandsInv'
  BY HandsStep DEF HandsInv
<1>4. TypeInv /\ HandsApart /\ HandsInv /\ SlotsInv /\ [Next]_vars => SlotsInv'
  BY SlotsStep DEF HandsInv, SlotsInv
<1>5. TypeInv /\ SlotsInv /\ DeployingWithinCap /\ [Next]_vars => DeployingWithinCap'
  <2> SUFFICES ASSUME TypeInv, SlotsInv, DeployingWithinCap, [Next]_vars
               PROVE  DeployingWithinCap'
    OBVIOUS
  <2>1. PICK w \in Workers : MovedByNobody \/ MovedBy(w)
    BY NextMoves, QueueConstants
  <2> QED
    BY <2>1, CapStep DEF SlotsInv
<1> QED
  BY <1>1, <1>2, <1>3, <1>4, <1>5, HandsInit, TypeInvInvariant, PTL DEF Spec

(* A lone worker is never in anybody's way.                                *)
LEMMA LoneHandsApart ==
    ASSUME NEW w \in Workers, Workers = {w}
    PROVE  HandsApart
BY DEF HandsApart

(* With one worker the cap is kept whatever crashes and whichever leases   *)
(* run out.                                                                *)
THEOREM CapKept ==
    ASSUME NEW w \in Workers, Workers = {w}
    PROVE  Spec => []DeployingWithinCap
BY LoneHandsApart, CapKeptApart, PTL

-----------------------------------------------------------------------------
(* What the cluster runs                                                   *)

(* The cluster holds the manifest of d.                                    *)
IsLive(d) == live[ServiceOf[d]] = d

(* What the cluster runs was built, and no row that waits for its image    *)
(* has been written there.                                                 *)
LiveInv ==
    /\ \A s \in Services : live[s] # None => ServiceOf[live[s]] = s
    /\ \A d \in Deployments :
          /\ pushed[d] => run[d] \in {"queued2", "succeeded", "failed", "canceled"}
          /\ IsBuildDeployment(d) /\ (IsLive(d) \/ status[d] = "succeeded") => pushed[d]
          /\ IsLive(d) => status[d] \in InFlightStatus \cup {"succeeded", "failed"}
          /\ IsLive(d) /\ status[d] \in InFlightStatus => phase[d] \notin BuildPhase

(* What a worker has decided of its row fits what the cluster runs.        *)
AnswerInv(w) ==
    LET d == row[w].id
    IN  /\ step[w] \in {"promote", "converge"} /\ IsBuildDeployment(d) => pushed[d]
        /\ step[w] = "apply" =>
              /\ result[w] = "ready" => IsLive(d)
              /\ result[w] \in BuildPhase /\ status[d] = "deploying" => ~IsLive(d)
        /\ step[w] = "settle" /\ result[w] \in {"ready", "torn-down", "build-canceled"}
           => ~IsLive(d)

(* The worker's own steps and those of nobody keep both: a row is answered *)
(* "building" only while its image was never pushed, so its manifest       *)
(* cannot be live; a cancel that ends with its build trusts a phase the    *)
(* snapshot still has right.                                               *)
LEMMA LiveStep ==
    ASSUME NEW w \in Workers, RegistryReliable = TRUE, TypeInv,
           SlotInv(w), HandInv(w), LiveInv, AnswerInv(w), MovedByNobody \/ MovedBy(w)
    PROVE  LiveInv' /\ AnswerInv(w)'
<1> USE DEF LiveInv, AnswerInv, IsLive, IsBuildDeployment, InFlightStatus
<1>t. /\ phase \in [Deployments -> Phase] /\ status \in [Deployments -> Status]
      /\ run \in [Deployments -> RunStatus] /\ pushed \in [Deployments -> BOOLEAN]
      /\ live \in [Services -> Deployments \cup {None}]
      /\ step \in [Workers -> Step] /\ result \in [Workers -> Result]
      /\ row \in [Workers -> OpenSnapshot \cup {NoRow}]
      /\ ServiceOf \in [Deployments -> Services]
      /\ None \notin Deployments
  BY QueueConstants DEF TypeInv, RowInv, BuildInv, ClusterInv, WorkerInv, Deployments, None
<1>h. step[w] \in RowSteps => /\ row[w].id \in Deployments
                              /\ status[row[w].id] \in InFlightStatus
                              /\ row[w].status = "canceling" => status[row[w].id] = "canceling"
                                                                /\ phase[row[w].id] = row[w].phase
  BY DEF HandInv, Held, TypeInv, WorkerInv, OpenSnapshot, Snapshot
<1>r. \A s \in Step : s \in RowSteps <=> s \notin {"claim", "select", "rows"}
  BY DEF RowSteps
<1>1. CASE API
  <2>1. UNCHANGED <<step, row, result, run, pushed, live>>
    BY <1>1 DEF API, BeginEnqueue, CommitEnqueue, CancelDeployment,
                buildVars, clusterVars, workerVars
  <2>2. \A d \in Deployments :
           /\ status'[d] = "succeeded" => status[d] = "succeeded"
           /\ status[d] = "succeeded" => status'[d] = "succeeded"
           /\ status[d] = "failed" => status'[d] = "failed"
           /\ status[d] \in InFlightStatus <=> status'[d] \in InFlightStatus
           /\ status[d] \in InFlightStatus => phase'[d] = phase[d]
           /\ status'[d] = "deploying" => status[d] = "deploying"
    BY <1>1, <1>t DEF API, BeginEnqueue, CommitEnqueue, CancelDeployment, SupersededBy, Of
  <2>3. LiveInv'
    BY <2>1, <2>2, <1>t
  <2>4. step[w] = "apply" => row[w].id \in Deployments
    BY <1>h, <1>t, <1>r
  <2> QED
    BY <2>1, <2>2, <2>3, <2>4
<1>2. CASE Claim(w)
  <2>1. /\ UNCHANGED <<row, result, run, pushed, live>>
        /\ step'[w] = "select"
    BY <1>2, <1>t DEF Claim, buildVars, clusterVars
  <2>2. \A d \in Deployments :
           \/ status'[d] = status[d] /\ phase'[d] = phase[d]
           \/ status[d] = "pending" /\ status'[d] = "deploying" /\ phase'[d] = "applying"
    BY <1>2, <1>t DEF Claim, Oldest, Claimable
  <2> QED
    BY <2>1, <2>2, <1>t DEF BuildPhase
<1>3. CASE Select(w) \/ TakeRow(w)
  <2>1. /\ UNCHANGED <<status, phase, run, pushed, live>>
        /\ step'[w] \in {"claim", "rows", "cancel", "deploy"}
    BY <1>3, <1>t DEF Select, TakeRow, dbVars, buildVars, clusterVars
  <2> QED
    BY <2>1
<1>4. CASE Unresolvable(w)
  <2>1. UNCHANGED <<status, phase, run, pushed, live>> /\ Return(w, "failed", "apply")
    BY <1>4 DEF Unresolvable, dbVars, buildVars, clusterVars
  <2> QED
    BY <2>1, <1>t DEF Return, BuildPhase
<1>5. CASE Build(w)
  <2>1. /\ step[w] = "deploy"
        /\ IsBuildDeployment(row[w].id)
        /\ UNCHANGED <<status, phase, pushed, live>>
        /\ \/ run' = run
           \/ ~pushed[row[w].id] /\ \E v \in RunStatus : run' = [run EXCEPT ![row[w].id] = v]
    BY <1>5, <1>t DEF Build, dbVars, clusterVars, RunStatus
  <2>2. /\ row[w].id \in Deployments
    BY <2>1, <1>h, <1>r, <1>t
  <2>3. LiveInv'
    BY <2>1, <2>2, <1>t
  <2>4. \/ Return(w, "failed", "apply")
        \/ pushed[row[w].id] /\ Return(w, "none", "promote")
        \/ ~pushed[row[w].id] /\ \E p \in BuildPhase : Return(w, p, "apply")
    BY <1>5 DEF Build, BuildPhase
  <2>5. pushed[row[w].id] \/ ~IsLive(row[w].id)
    BY <2>1, <2>2, <1>t
  <2>6. AnswerInv(w)'
    BY <2>1, <2>4, <2>5, <1>t DEF Return, BuildPhase
  <2> QED
    BY <2>3, <2>6
<1>6. CASE Promote(w)
  <2>1. /\ step[w] = "promote"
        /\ UNCHANGED <<status, run, pushed, live>>
        /\ \/ phase' = phase
           \/ phase' = [phase EXCEPT ![row[w].id] = "applying"]
    BY <1>6 DEF Promote, buildVars, clusterVars
  <2>2. row[w].id \in Deployments /\ status[row[w].id] \in InFlightStatus
    BY <2>1, <1>h, <1>r, <1>t
  <2>3. LiveInv'
    BY <2>1, <2>2, <1>t DEF BuildPhase
  <2>4. \/ /\ status[row[w].id] # "deploying" \/ phase[row[w].id] \in BuildPhase
           /\ Return(w, "build-queued", "apply")
        \/ Return(w, "none", "converge")
    BY <1>6 DEF Promote
  <2>5. AnswerInv(w)'
    BY <2>1, <2>2, <2>4, <1>t DEF Return, BuildPhase
  <2> QED
    BY <2>3, <2>5
<1>7. CASE Converge(w)
  <2> DEFINE d == row[w].id
  <2>1. /\ step[w] \in {"deploy", "converge"}
        /\ step[w] = "deploy" => ~IsBuildDeployment(d)
        /\ UNCHANGED <<status, phase, run, pushed>>
        /\ ReconcileRuntime(w, d, "apply")
    BY <1>7 DEF Converge, dbVars, buildVars
  <2>2. d \in Deployments /\ status[d] \in InFlightStatus
    BY <2>1, <1>h, <1>r, <1>t
  <2>3. phase[d] \notin BuildPhase /\ (IsBuildDeployment(d) => pushed[d])
    BY <2>1, <2>2 DEF SlotInv
  <2>4. \/ live' = [live EXCEPT ![ServiceOf[d]] = d] /\ Return(w, "applying", "apply")
        \/ /\ live' = live /\ live[ServiceOf[d]] = d
           /\ \E answer \in {"ready", "failed", "error", "rolling-out"} : Return(w, answer, "apply")
    BY <2>1 DEF ReconcileRuntime, clusterVars
  <2> HIDE DEF d
  <2>5. LiveInv'
    BY <2>1, <2>2, <2>3, <2>4, <1>t
  <2>6. AnswerInv(w)'
    BY <2>1, <2>2, <2>4, <1>t DEF Return, BuildPhase, d
  <2> QED
    BY <2>5, <2>6
<1>8. CASE ApplyResult(w)
  <2> DEFINE d == row[w].id
  <2>1. step[w] = "apply" /\ UNCHANGED <<run, pushed, live>> /\ step'[w] \in {"claim", "rows"}
    BY <1>8, <1>t DEF ApplyResult, EndRow, buildVars, clusterVars
  <2>2. d \in Deployments
    BY <2>1, <1>h, <1>r, <1>t
  <2>3. \/ UNCHANGED <<status, phase>>
        \/ /\ status[d] = "deploying"
           /\ \/ status' = [status EXCEPT ![d] = "succeeded"] /\ result[w] = "ready"
              \/ status' = [status EXCEPT ![d] = "failed"]
           /\ \E p \in Phase : phase' = [phase EXCEPT ![d] = p]
        \/ /\ status[d] = "deploying"
           /\ status' = status
           /\ phase' = [phase EXCEPT ![d] = result[w]]
    BY <1>8 DEF ApplyResult, StillIs, Phase
  <2> HIDE DEF d
  <2>4. /\ result[w] = "ready" => IsLive(d)
        /\ result[w] \in BuildPhase /\ status[d] = "deploying" => ~IsLive(d)
    BY <2>1 DEF d
  <2>5. LiveInv'
    BY <2>1, <2>2, <2>3, <2>4, <1>t
  <2> QED
    BY <2>1, <2>5
<1>9. CASE CancelBuild(w)
  <2> DEFINE d == row[w].id
  <2>1. /\ step[w] = "cancel"
        /\ UNCHANGED <<status, phase, pushed, live>>
        /\ run' = run \/ run' = [run EXCEPT ![d] = "canceled"]
    BY <1>9 DEF CancelBuild, dbVars, clusterVars
  <2>2. \/ CancelsBuildOnly(row[w]) /\ Return(w, "build-canceled", "settle")
        \/ Return(w, "none", "rollback")
    BY <1>9 DEF CancelBuild
  <2>3. d \in Deployments /\ status[d] \in InFlightStatus /\ phase[d] = row[w].phase
    BY <2>1, <1>h, <1>r, <1>t DEF HandInv
  <2>4. LiveInv'
    BY <2>1, <2>3, <1>t
  <2>5. CancelsBuildOnly(row[w]) => ~IsLive(d)
    BY <2>3 DEF CancelsBuildOnly, BuildPhase
  <2>6. AnswerInv(w)'
    BY <2>1, <2>2, <2>5, <1>t DEF Return
  <2> QED
    BY <2>4, <2>6
<1>10. CASE Rollback(w)
  <2> DEFINE d == row[w].id
             s == ServiceOf[d]
  <2>1. step[w] = "rollback" /\ UNCHANGED <<status, phase, run, pushed>>
    BY <1>10 DEF Rollback, dbVars, buildVars
  <2>2. d \in Deployments /\ s \in Services
    BY <2>1, <1>h, <1>r, <1>t
  <2>3. \/ live' = [live EXCEPT ![s] = None] /\ Return(w, "torn-down", "settle")
        \/ \E previous \in Deployments :
           /\ previous < d /\ ServiceOf[previous] = s /\ status[previous] = "succeeded"
           /\ \/ live' = [live EXCEPT ![s] = previous] /\ Return(w, "applying", "settle")
              \/ live' = live /\ live[s] = previous /\ Return(w, "ready", "settle")
        \/ /\ live' = live
           /\ \E answer \in {"failed", "error", "rolling-out"} : Return(w, answer, "settle")
    <3>1. ASSUME NEW previous \in Deployments, IsPreviousSuccessful(previous, d),
                 ReconcileRuntime(w, previous, "settle")
          PROVE  /\ previous < d /\ ServiceOf[previous] = s /\ status[previous] = "succeeded"
                 /\ \/ live' = [live EXCEPT ![s] = previous] /\ Return(w, "applying", "settle")
                    \/ live' = live /\ live[s] = previous /\ Return(w, "ready", "settle")
                    \/ live' = live /\ \E answer \in {"failed", "error", "rolling-out"} :
                                          Return(w, answer, "settle")
      <4>1. previous < d /\ ServiceOf[previous] = s /\ status[previous] = "succeeded"
        BY <3>1 DEF IsPreviousSuccessful, OlderSuccesses, Of
      <4>2. \/ /\ live' = [live EXCEPT ![ServiceOf[previous]] = previous]
               /\ Return(w, "applying", "settle")
            \/ /\ live' = live /\ live[ServiceOf[previous]] = previous
               /\ \E answer \in {"ready", "failed", "error", "rolling-out"} :
                     Return(w, answer, "settle")
        BY <3>1 DEF ReconcileRuntime, clusterVars
      <4> HIDE DEF d, s
      <4> QED
        BY <4>1, <4>2
    <3> QED
      BY <1>10, <3>1 DEF Rollback, clusterVars
  <2> HIDE DEF s
  <2>4. LiveInv'
    BY <2>1, <2>2, <2>3, <1>t
  <2>5. AnswerInv(w)'
    <3>1. \A previous \in Deployments : previous < d => previous # d
      BY <2>2, QueueConstants DEF Deployments
    <3>2. step'[w] = "settle" /\ UNCHANGED row
      BY <2>3, <1>t DEF Return
    <3>3. result'[w] \in {"ready", "torn-down", "build-canceled"} => live'[s] # d
      BY <2>2, <2>3, <3>1, <1>t DEF Return
    <3> QED
      BY <3>2, <3>3 DEF s
  <2> QED
    BY <2>4, <2>5
<1>11. CASE SettleCancel(w)
  <2> DEFINE d == row[w].id
  <2>1. step[w] = "settle" /\ UNCHANGED <<run, pushed, live>> /\ step'[w] \in {"claim", "rows"}
    BY <1>11, <1>t DEF SettleCancel, EndRow, buildVars, clusterVars
  <2>2. d \in Deployments /\ result[w] \in CancelAnswers
    BY <2>1, <1>h, <1>r, <1>t DEF TypeInv, WorkerInv
  <2>3. \/ UNCHANGED <<status, phase>>
        \/ /\ status[d] = "canceling"
           /\ \/ /\ status' = [status EXCEPT ![d] = "canceled"]
                 /\ result[w] \in {"ready", "torn-down", "build-canceled"}
              \/ status' = [status EXCEPT ![d] = "failed"]
           /\ \E p \in Phase : phase' = [phase EXCEPT ![d] = p]
        \/ /\ status[d] = "canceling"
           /\ status' = status
           /\ phase' = [phase EXCEPT ![d] = "rollback-retrying"]
        \/ /\ status[d] = "canceling"
           /\ status' = status
           /\ phase' = [phase EXCEPT ![d] = result[w]]
    BY <1>11 DEF SettleCancel, StillIs, Phase
  <2>4. result[w] \in {"ready", "torn-down", "build-canceled"} => ~IsLive(d)
    BY <2>1
  <2>5. result[w] \notin BuildPhase /\ "rollback-retrying" \notin BuildPhase
    BY <2>2 DEF CancelAnswers, BuildPhase
  <2> HIDE DEF d
  <2>6. LiveInv'
    BY <2>1, <2>2, <2>3, <2>4, <2>5, <1>t
  <2> QED
    BY <2>1, <2>6
<1>12. CASE Interrupted(w)
  <2>1. UNCHANGED <<status, phase, run, pushed, live>> /\ step'[w] \in {"claim", "select", "rows"}
    BY <1>12, InterruptedStep
  <2>2. LiveInv'
    BY <2>1
  <2>3. AnswerInv(w)'
    BY <2>1
  <2> QED
    BY <2>2, <2>3
<1>13. CASE Rebuild(w)
  BY <1>13 DEF Rebuild
<1>14. CASE Quiet
  <2>1. CASE UNCHANGED <<run, pushed>>
    BY <1>14, <2>1, QuietUnchanged DEF Quiet, LeaseExpires, BuildProgress, RolloutProgress,
        vars, clusterVars
  <2>2. CASE \E d \in Deployments : BuildProgress(d)
    <3>1. PICK d \in Deployments : BuildProgress(d)
      BY <2>2
    <3>2. UNCHANGED <<status, phase, live, step, row, result>>
      BY <3>1 DEF BuildProgress, dbVars, clusterVars, workerVars
    <3>3. \/ /\ run' = [run EXCEPT ![d] = "succeeded"]
             /\ pushed' = [pushed EXCEPT ![d] = TRUE]
          \/ /\ run' = [run EXCEPT ![d] = "failed"] \/ run' = [run EXCEPT ![d] = "canceled"]
             /\ pushed' = pushed
          \/ /\ run[d] = "active"
             /\ run' = [run EXCEPT ![d] = "queued2"]
             /\ \E b \in BOOLEAN : pushed' = [pushed EXCEPT ![d] = b]
      BY <3>1 DEF BuildProgress
    <3>4. \A e \in Deployments :
             /\ pushed[e] => pushed'[e]
             /\ pushed'[e] => run'[e] \in {"queued2", "succeeded", "failed", "canceled"}
      BY <3>3, <1>t
    <3>5. step[w] \in RowSteps => row[w].id \in Deployments
      BY <1>h
    <3>6. LiveInv'
      BY <3>2, <3>4
    <3>7. AnswerInv(w)'
      BY <3>2, <3>4, <3>5, <1>r, <1>t
    <3> QED
      BY <3>6, <3>7
  <2> QED
    BY <1>14, <2>1, <2>2 DEF Quiet, LeaseExpires, RolloutProgress, vars, buildVars
<1> QED
  BY <1>1, <1>2, <1>3, <1>4, <1>5, <1>6, <1>7, <1>8, <1>9, <1>10, <1>11, <1>12, <1>13, <1>14
  DEF MovedByNobody, MovedBy, WorkerStep

(* The others write no manifest of the service whose row it has in hand.   *)
LEMMA OthersLive ==
    ASSUME NEW v \in Workers, NEW w \in Workers, v # w, TypeInv, OneRowPerStage,
           HandsApart, HandInv(v), HandInv(w), step[w] \in RowSteps, MovedBy(v)
    PROVE  LET s == ServiceOf[row[w].id]
           IN  pushed' = pushed /\ live'[s] = live[s]
<1> DEFINE s == ServiceOf[row[w].id]
<1>t. live \in [Services -> Deployments \cup {None}] /\ ServiceOf \in [Deployments -> Services]
  BY QueueConstants DEF TypeInv, ClusterInv
<1>h. \A u \in {v, w} : step[u] \in RowSteps =>
         row[u].id \in Deployments /\ row[u].id \in InFlight /\ row[u] \in Held(u)
  BY DEF HandInv, Held, TypeInv, WorkerInv, OpenSnapshot, Snapshot, InFlight
<1>a. step[v] \in RowSteps => ServiceOf[row[v].id] # s
  <2>1. SUFFICES ASSUME step[v] \in RowSteps PROVE row[v].id # row[w].id
    BY <1>h DEF OneRowPerStage, OneInFlightPerService
  <2> QED
    BY <2>1, <1>h DEF HandsApart
<1>s. s \in Services
  BY <1>h, <1>t
<1> HIDE DEF s
<1>1. pushed' = pushed
  BY DEF MovedBy, WorkerStep, Claim, Select, TakeRow, Unresolvable, Build, Promote, Converge,
         ApplyResult, CancelBuild, Rollback, SettleCancel, Rebuild, Interrupted, CallFails,
         Crash, buildVars
<1>2. ASSUME NEW d \in Deployments, ServiceOf[d] # s, NEW next, ReconcileRuntime(v, d, next)
      PROVE  live'[s] = live[s]
  <2>1. live' = live \/ live' = [live EXCEPT ![ServiceOf[d]] = d]
    BY <1>2 DEF ReconcileRuntime, clusterVars
  <2> QED
    BY <2>1, <1>2, <1>s, <1>t
<1>3. CASE Converge(v)
  <2>1. step[v] \in RowSteps /\ ReconcileRuntime(v, row[v].id, "apply")
    BY <1>3 DEF Converge, RowSteps, Step
  <2> QED
    BY <2>1, <1>a, <1>h, <1>1, <1>2 DEF s
<1>4. CASE Rollback(v)
  <2>1. step[v] \in RowSteps
    BY <1>4 DEF Rollback, RowSteps, Step
  <2>2. \A previous \in OlderSuccesses(row[v].id) :
           previous \in Deployments /\ ServiceOf[previous] = ServiceOf[row[v].id]
    BY DEF OlderSuccesses, Of
  <2>3. \/ live' = live
        \/ live' = [live EXCEPT ![ServiceOf[row[v].id]] = None]
        \/ \E previous \in OlderSuccesses(row[v].id) : ReconcileRuntime(v, previous, "settle")
    BY <1>4 DEF Rollback, IsPreviousSuccessful, clusterVars
  <2>4. live'[s] = live[s]
    BY <2>1, <2>2, <2>3, <1>a, <1>s, <1>t, <1>2
  <2> QED
    BY <2>4, <1>1 DEF s
<1>5. CASE ~Converge(v) /\ ~Rollback(v)
  <2>1. live' = live
    BY <1>5 DEF MovedBy, WorkerStep, Claim, Select, TakeRow, Unresolvable, Build, Promote,
         ApplyResult, CancelBuild, SettleCancel, Rebuild, Interrupted, CallFails,
         Crash, clusterVars
  <2> QED
    BY <2>1, <1>1
<1> QED
  BY <1>3, <1>4, <1>5 DEF s

(* What the cluster runs, and what every worker has decided.               *)
LiveAndAnswersInv == LiveInv /\ \A w \in Workers : AnswerInv(w)

(* As long as no row is worked on twice, every step keeps it.              *)
LEMMA LiveAndAnswersStep ==
    ASSUME RegistryReliable = TRUE, TypeInv, OneRowPerStage, HandsApart, HandsInv, SlotsInv,
           LiveAndAnswersInv, [Next]_vars
    PROVE  LiveAndAnswersInv'
<1> USE DEF HandsInv, SlotsInv, LiveAndAnswersInv
<1>1. LiveInv'
  <2>1. PICK w \in Workers : MovedByNobody \/ MovedBy(w)
    BY NextMoves, QueueConstants
  <2> QED
    BY <2>1, LiveStep
<1>2. ASSUME NEW w \in Workers PROVE AnswerInv(w)'
  <2>1. CASE MovedByNobody \/ MovedBy(w)
    BY <2>1, LiveStep
  <2>2. ASSUME NEW v \in Workers, v # w, MovedBy(v) PROVE AnswerInv(w)'
    <3>1. /\ step'[w] = step[w] /\ row'[w] = row[w] /\ result'[w] = result[w]
          /\ \A r \in Held(w) : status'[r.id] = status[r.id]
      BY <2>2, OthersUnmoved
    <3>2. step[w] \in RowSteps =>
             /\ status'[row[w].id] = status[row[w].id]
             /\ pushed' = pushed
             /\ live'[ServiceOf[row[w].id]] = live[ServiceOf[row[w].id]]
      BY <2>2, <3>1, OthersLive DEF Held
    <3> QED
      BY <3>1, <3>2 DEF AnswerInv, IsLive, IsBuildDeployment, RowSteps, Step
  <2> QED
    BY <2>1, <2>2, NextMoves
<1> QED
  BY <1>1, <1>2

(* What every worker can rely on.                                          *)
ApartInv == HandsInv /\ SlotsInv /\ LiveAndAnswersInv

(* The parts together hold as long as no row is worked on twice.           *)
LEMMA ApartInvInvariant ==
    ASSUME RegistryReliable = TRUE
    PROVE  Spec /\ []HandsApart => []ApartInv
<1>1. Init => ApartInv
  <2> SUFFICES ASSUME Init PROVE ApartInv
    OBVIOUS
  <2>1. SlotsInv
    BY DEF Init, SlotsInv, SlotInv, BuildPhase
  <2>2. LiveInv
    BY QueueConstants DEF Init, LiveInv, IsLive, None, Deployments
  <2>3. \A w \in Workers : AnswerInv(w)
    BY DEF Init, AnswerInv
  <2> QED
    BY <2>1, <2>2, <2>3, HandsInit DEF ApartInv, LiveAndAnswersInv
<1>2. TypeInv /\ HandsApart /\ OneRowPerStage /\ ApartInv /\ [Next]_vars => ApartInv'
  BY HandsStep, SlotsStep, LiveAndAnswersStep DEF ApartInv, HandsInv, SlotsInv
<1> QED
  BY <1>1, <1>2, TypeInvInvariant, OneOfEach, PTL DEF Spec

(* With a registry that answers for pushed images, and as long as no row   *)
(* is worked on by two replicas at once, what the cluster runs is a        *)
(* rollout in flight, a success or a failure: never a canceled or          *)
(* superseded deployment, for every number of replicas, services and       *)
(* deployments and whatever is canceled, crashes or fails when.            *)
THEOREM LiveRowsApart ==
    ASSUME RegistryReliable = TRUE
    PROVE  Spec /\ []HandsApart => []LiveIsAccountedFor
<1>1. TypeInv /\ ApartInv => LiveIsAccountedFor
  BY DEF ApartInv, LiveAndAnswersInv, LiveInv, IsLive, LiveIsAccountedFor, TypeInv, ClusterInv
<1> QED
  BY <1>1, ApartInvInvariant, TypeInvInvariant, PTL

(* The same of one worker, whichever leases run out.                       *)
THEOREM LiveRowsAccounted ==
    ASSUME NEW w \in Workers, Workers = {w}, RegistryReliable = TRUE
    PROVE  Spec => []LiveIsAccountedFor
BY LoneHandsApart, LiveRowsApart, PTL

-----------------------------------------------------------------------------
(* Which deployment serves, with one enqueue at a time                     *)

(* The enqueue of d has committed.                                         *)
Begun(d) == status[d] \notin {"none", "opening"}

(* With one enqueue open at a time, rows start in the order of their ids.  *)
OrderInv ==
    \A d, e \in Deployments : d < e =>
        /\ status[e] # "none" => Begun(d)
        /\ ServiceOf[d] = ServiceOf[e] =>
              /\ status[d] = "pending" => ~Begun(e)
              /\ status[d] \in InFlightStatus
                 => status[e] \notin InFlightStatus \cup {"succeeded", "failed"}

(* Every step keeps it: created_at is taken when the enqueue begins, and   *)
(* with one enqueue open nobody can begin between its begin and its        *)
(* commit.                                                                 *)
LEMMA OrderStep ==
    ASSUME MaxOpenEnqueues <= 1, TypeInv, OneRowPerStage, OrderInv, [Next]_vars
    PROVE  OrderInv'
<1> USE DEF OrderInv, Begun, InFlightStatus
<1>t. status \in [Deployments -> Status] /\ \A d \in Deployments : d \in Nat
  BY QueueConstants DEF TypeInv, RowInv, Deployments
<1>1. CASE UNCHANGED status
  BY <1>1
<1>2. ASSUME NEW d \in Deployments, BeginEnqueue(d) PROVE OrderInv'
  <2>1. Opening = {}
    <3>1. IsFiniteSet(Opening)
      BY DeploymentsFinite, FS_Subset DEF Opening
    <3>2. Cardinality(Opening) \in Nat /\ Cardinality(Opening) < 1
      BY <1>2, <3>1, FS_CardinalityType, QueueConstants DEF BeginEnqueue
    <3>3. Cardinality(Opening) = 0
      BY <3>2
    <3> QED
      BY <3>1, <3>3, FS_EmptySet
  <2>2. /\ status[d] = "none" /\ status' = [status EXCEPT ![d] = "opening"]
        /\ \A e \in Deployments : e < d => Begun(e)
    BY <1>2, <2>1 DEF BeginEnqueue, Opening
  <2> QED
    BY <2>2, <1>t
<1>3. CASE EnqueueStep
  <2>1. PICK d \in Deployments :
          /\ status[d] = "opening"
          /\ status' = [e \in Deployments |->
                          IF e = d THEN "pending"
                          ELSE IF e \in SupersededBy(d) THEN "superseded"
                          ELSE status[e]]
    BY <1>3 DEF EnqueueStep
  <2>2. \A e \in Deployments :
           e \in SupersededBy(d) <=> ServiceOf[e] = ServiceOf[d] /\ status[e] = "pending"
    BY DEF SupersededBy, Of
  <2>3. \A e \in Deployments : d < e => status[e] = "none"
    BY <2>1
  <2> QED
    BY <2>1, <2>2, <2>3, <1>t
<1>4. CASE ClaimStep
  <2>1. PICK S \in SUBSET Claimable :
          status' = [d \in Deployments |-> IF d \in S THEN "deploying" ELSE status[d]]
    BY <1>4 DEF ClaimStep
  <2>2. \A d \in S : d \in Deployments /\ status[d] = "pending"
                     /\ \A e \in Deployments :
                           ServiceOf[e] = ServiceOf[d] => status[e] \notin InFlightStatus
    BY <2>1 DEF Claimable, Busy, Of
  <2>3. \A d, e \in S : ServiceOf[d] = ServiceOf[e] => d = e
    BY <2>2 DEF OneRowPerStage, OneQueuedPerService
  <2> QED
    BY <2>1, <2>2, <2>3, <1>t
<1>5. CASE MoveStep
  <2>1. PICK d \in Deployments, m \in Moves :
          /\ status[d] = m[1] /\ status' = [status EXCEPT ![d] = m[2]]
          /\ m[2] = "opening" => BeginEnqueue(d)
    BY <1>5 DEF MoveStep
  <2>2. CASE m = <<"none", "opening">>
    BY <2>1, <2>2, <1>2
  <2>3. CASE m = <<"pending", "canceled">>
    BY <2>1, <2>3, <1>t
  <2>4. CASE \/ m = <<"deploying", "canceling">>
            \/ m = <<"deploying", "succeeded">> \/ m = <<"deploying", "failed">>
            \/ m = <<"canceling", "canceled">> \/ m = <<"canceling", "failed">>
    <3>1. /\ status[d] \in InFlightStatus
          /\ status'[d] \in {"canceling", "succeeded", "failed", "canceled"}
          /\ \A e \in Deployments \ {d} : status'[e] = status[e]
      BY <2>1, <2>4, <1>t
    <3> QED
      BY <3>1, <1>t
  <2> QED
    BY <2>1, <2>2, <2>3, <2>4 DEF Moves
<1> QED
  BY <1>1, <1>2, <1>3, <1>4, <1>5, StatusStep DEF API

(* d is the last of its service to end, and a success.                     *)
IsLastSuccess(d) ==
    /\ status[d] = "succeeded"
    /\ \A e \in Of(ServiceOf[d]) : e > d => status[e] \notin {"succeeded", "failed"}

(* A manifest is only replaced by that of the row in flight, or by the one *)
(* a cancel goes back to.                                                  *)
ServesInv ==
    \A s \in Services :
        \/ \A d \in Of(s) : IsLastSuccess(d) => live[s] = d
        \/ \E d \in Of(s) : status[d] \in InFlightStatus /\ live[s] = d

(* Every step keeps it: a rollback goes back to the last success, and a    *)
(* row ends canceled only when its own manifest is not the live one.       *)
LEMMA ServesStep ==
    ASSUME NEW w \in Workers, TypeInv, OneRowPerStage, OrderInv, HandInv(w),
           AnswerInv(w), ServesInv, MovedByNobody \/ MovedBy(w)
    PROVE  ServesInv'
<1> USE DEF ServesInv, IsLastSuccess, Of, InFlightStatus
<1>t. /\ status \in [Deployments -> Status]
      /\ live \in [Services -> Deployments \cup {None}]
      /\ ServiceOf \in [Deployments -> Services]
      /\ \A d \in Deployments : d \in Nat
      /\ step[w] \in Step
  BY QueueConstants DEF TypeInv, RowInv, ClusterInv, WorkerInv, Deployments
<1>h. step[w] \in RowSteps =>
         /\ row[w].id \in Deployments
         /\ status[row[w].id] \in InFlightStatus
         /\ step[w] = "rollback" => status[row[w].id] = "canceling"
  BY DEF HandInv, Held, TypeInv, WorkerInv, OpenSnapshot, Snapshot
<1>o. \A d, e \in Deployments :
         d < e /\ ServiceOf[d] = ServiceOf[e] /\ status[d] \in InFlightStatus
         => status[e] \notin InFlightStatus \cup {"succeeded", "failed"}
  BY DEF OrderInv
<1>r. \A s \in Step : s \in RowSteps <=> s \notin {"claim", "select", "rows"}
  BY DEF RowSteps
<1>f. ASSUME live' = live,
             \A d \in Deployments :
                /\ status'[d] \in {"succeeded", "failed"} <=> status[d] \in {"succeeded", "failed"}
                /\ status'[d] = "succeeded" <=> status[d] = "succeeded"
                /\ status[d] \in InFlightStatus => status'[d] \in InFlightStatus
      PROVE  ServesInv'
  BY <1>f
(* The end of a row: the others of its service are older or have not begun.*)
<1>e. ASSUME live' = live, NEW d \in Deployments, status[d] \in InFlightStatus,
             \/ status' = [status EXCEPT ![d] = "succeeded"] /\ live[ServiceOf[d]] = d
             \/ status' = [status EXCEPT ![d] = "failed"]
             \/ status' = [status EXCEPT ![d] = "canceled"] /\ live[ServiceOf[d]] # d
      PROVE  ServesInv'
  <2>1. ASSUME NEW s \in Services, s # ServiceOf[d]
        PROVE  \/ \A e \in Of(s) : IsLastSuccess(e)' => live'[s] = e
               \/ \E e \in Of(s) : status'[e] \in InFlightStatus /\ live'[s] = e
    <3>1. \A e \in Of(s) : status'[e] = status[e]
      BY <1>e, <1>t, <2>1
    <3> QED
      BY <1>e, <1>t, <2>1, <3>1
  <2>2. \A e \in Of(ServiceOf[d]) : IsLastSuccess(e)' => live'[ServiceOf[d]] = e
    <3>1. SUFFICES ASSUME NEW e \in Of(ServiceOf[d]), IsLastSuccess(e)'
                   PROVE  live[ServiceOf[d]] = e
      BY <1>e
    <3>2. CASE e = d
      BY <1>e, <1>t, <3>1, <3>2
    <3>3. CASE e # d
      <4>1. status[e] = "succeeded" /\ e \in Deployments /\ ServiceOf[e] = ServiceOf[d]
        BY <1>e, <1>t, <3>1, <3>3
      <4>2. e < d
        BY <1>e, <1>o, <1>t, <3>3, <4>1
      <4>3. status'[d] \notin {"succeeded", "failed"}
        BY <3>1, <4>1, <4>2
      <4>4. status' = [status EXCEPT ![d] = "canceled"] /\ live[ServiceOf[d]] # d
        BY <1>e, <1>t, <4>3
      <4>5. IsLastSuccess(e)
        BY <1>e, <1>t, <3>1, <4>1, <4>4
      <4>6. \A x \in Of(ServiceOf[d]) : status[x] \in InFlightStatus => x = d
        BY <1>e DEF OneRowPerStage, OneInFlightPerService, InFlight
      <4> QED
        BY <1>t, <4>1, <4>4, <4>5, <4>6
    <3> QED
      BY <3>2, <3>3
  <2> QED
    BY <2>1, <2>2
<1>1. CASE API
  <2>1. live' = live
    BY <1>1 DEF API, BeginEnqueue, CommitEnqueue, CancelDeployment, clusterVars
  <2>2. \A d \in Deployments :
           /\ status'[d] \in {"succeeded", "failed"} <=> status[d] \in {"succeeded", "failed"}
           /\ status'[d] = "succeeded" <=> status[d] = "succeeded"
           /\ status[d] \in InFlightStatus => status'[d] \in InFlightStatus
    <3>1. CASE \E e \in Deployments : BeginEnqueue(e) \/ CancelDeployment(e)
      BY <3>1, <1>t DEF BeginEnqueue, CancelDeployment
    <3>2. CASE \E e \in Deployments : CommitEnqueue(e)
      BY <3>2, <1>t DEF CommitEnqueue, SupersededBy
    <3> QED
      BY <1>1, <3>1, <3>2 DEF API
  <2> QED
    BY <2>1, <2>2, <1>f
<1>2. CASE Claim(w)
  <2>1. \A d \in Deployments :
           \/ status'[d] = status[d]
           \/ status[d] = "pending" /\ status'[d] = "deploying"
    BY <1>2, <1>t DEF Claim, Oldest, Claimable
  <2>2. live' = live
    BY <1>2 DEF Claim, clusterVars
  <2> QED
    BY <2>1, <2>2, <1>f
<1>3. CASE \/ Select(w) \/ TakeRow(w) \/ Unresolvable(w) \/ Build(w) \/ Rebuild(w) \/ Promote(w)
           \/ CancelBuild(w) \/ Interrupted(w)
  <2>1. UNCHANGED <<status, live>>
    BY <1>3, InterruptedStep
    DEF Select, TakeRow, Unresolvable, Build, Rebuild, Promote, CancelBuild, dbVars, clusterVars
  <2> QED
    BY <2>1, <1>f
<1>4. CASE Converge(w)
  <2> DEFINE d == row[w].id
  <2>1. /\ step[w] \in {"deploy", "converge"}
        /\ UNCHANGED status
        /\ live' = [live EXCEPT ![ServiceOf[d]] = d] \/ live' = live
    BY <1>4 DEF Converge, ReconcileRuntime, dbVars, clusterVars
  <2>2. d \in Deployments /\ status[d] \in InFlightStatus
    BY <2>1, <1>h, <1>r, <1>t
  <2> HIDE DEF d
  <2>3. CASE live' = live
    BY <2>1, <2>3, <1>f
  <2>4. CASE live' = [live EXCEPT ![ServiceOf[d]] = d]
    BY <2>1, <2>2, <2>4, <1>t
  <2> QED
    BY <2>1, <2>3, <2>4
<1>5. CASE Rollback(w)
  <2> DEFINE d == row[w].id
  <2>1. step[w] = "rollback" /\ UNCHANGED status
    BY <1>5 DEF Rollback, dbVars
  <2>2. d \in Deployments /\ status[d] = "canceling"
    BY <2>1, <1>h, <1>r, <1>t
  <2>3. \/ live' = live
        \/ OlderSuccesses(d) = {} /\ live' = [live EXCEPT ![ServiceOf[d]] = None]
        \/ \E previous \in Deployments :
              /\ IsPreviousSuccessful(previous, d)
              /\ live' = [live EXCEPT ![ServiceOf[previous]] = previous]
    BY <1>5 DEF Rollback, ReconcileRuntime, clusterVars
  <2> HIDE DEF d
  <2>4. \A e \in Of(ServiceOf[d]) : status[e] = "succeeded" => e \in OlderSuccesses(d)
    BY <2>2, <1>o, <1>t DEF OlderSuccesses
  <2>5. CASE live' = live
    BY <2>1, <2>5, <1>f
  <2>6. CASE OlderSuccesses(d) = {} /\ live' = [live EXCEPT ![ServiceOf[d]] = None]
    BY <2>1, <2>2, <2>4, <2>6, <1>t
  <2>7. ASSUME NEW previous \in Deployments, IsPreviousSuccessful(previous, d),
               live' = [live EXCEPT ![ServiceOf[previous]] = previous]
        PROVE  ServesInv'
    <3>1. /\ previous \in OlderSuccesses(d) /\ ServiceOf[previous] = ServiceOf[d]
          /\ status[previous] = "succeeded"
          /\ \A e \in OlderSuccesses(d) : e <= previous
      BY <2>7 DEF IsPreviousSuccessful, OlderSuccesses
    <3>2. \A e \in Of(ServiceOf[d]) : IsLastSuccess(e) => e = previous
      BY <2>4, <3>1, <1>t
    <3> QED
      BY <2>1, <2>2, <2>7, <3>1, <3>2, <1>t
  <2> QED
    BY <2>3, <2>5, <2>6, <2>7
<1>6. CASE ApplyResult(w)
  <2> DEFINE d == row[w].id
  <2>1. /\ step[w] = "apply" /\ live' = live
        /\ \/ status' = status
           \/ /\ status[d] = "deploying"
              /\ \/ status' = [status EXCEPT ![d] = "succeeded"] /\ result[w] = "ready"
                 \/ status' = [status EXCEPT ![d] = "failed"]
    BY <1>6 DEF ApplyResult, StillIs, clusterVars
  <2>2. d \in Deployments
    BY <2>1, <1>h, <1>r, <1>t
  <2>3. result[w] = "ready" => live[ServiceOf[d]] = d
    BY <2>1 DEF AnswerInv, IsLive
  <2> HIDE DEF d
  <2>4. CASE status' = status
    BY <2>1, <2>4, <1>f
  <2> QED
    BY <2>1, <2>2, <2>3, <2>4, <1>e
<1>7. CASE SettleCancel(w)
  <2> DEFINE d == row[w].id
  <2>1. /\ step[w] = "settle" /\ live' = live
        /\ \/ status' = status
           \/ /\ status[d] = "canceling"
              /\ \/ /\ status' = [status EXCEPT ![d] = "canceled"]
                    /\ result[w] \in {"ready", "torn-down", "build-canceled"}
                 \/ status' = [status EXCEPT ![d] = "failed"]
    BY <1>7 DEF SettleCancel, StillIs, clusterVars
  <2>2. d \in Deployments
    BY <2>1, <1>h, <1>r, <1>t
  <2>3. result[w] \in {"ready", "torn-down", "build-canceled"} => live[ServiceOf[d]] # d
    BY <2>1 DEF AnswerInv, IsLive
  <2> HIDE DEF d
  <2>4. CASE status' = status
    BY <2>1, <2>4, <1>f
  <2> QED
    BY <2>1, <2>2, <2>3, <2>4, <1>e
<1>8. CASE Quiet
  <2>1. UNCHANGED <<status, live>>
    BY <1>8, QuietUnchanged
    DEF Quiet, LeaseExpires, BuildProgress, RolloutProgress, vars, clusterVars
  <2> QED
    BY <2>1, <1>f
<1> QED
  BY <1>1, <1>2, <1>3, <1>4, <1>5, <1>6, <1>7, <1>8
  DEF MovedByNobody, MovedBy, WorkerStep

(* With a reliable registry and one enqueue at a time, and as long as no   *)
(* row is worked on by two replicas at once, an idle service runs its last *)
(* success unless a later rollout failed: canceled and superseded rows     *)
(* leave no trace.                                                         *)
THEOREM LastSuccessApart ==
    ASSUME RegistryReliable = TRUE, MaxOpenEnqueues <= 1
    PROVE  Spec /\ []HandsApart => []LastSuccessServes
<1>1. Init => OrderInv /\ ServesInv
  BY DEF Init, OrderInv, Begun, ServesInv, IsLastSuccess, InFlightStatus, Of
<1>2. TypeInv /\ OneRowPerStage /\ OrderInv /\ [Next]_vars => OrderInv'
  BY OrderStep
<1>3. TypeInv /\ OneRowPerStage /\ OrderInv /\ ApartInv /\ ServesInv /\ [Next]_vars => ServesInv'
  <2> SUFFICES ASSUME TypeInv, OneRowPerStage, OrderInv, ApartInv, ServesInv, [Next]_vars
               PROVE  ServesInv'
    OBVIOUS
  <2>1. PICK w \in Workers : MovedByNobody \/ MovedBy(w)
    BY NextMoves, QueueConstants
  <2> QED
    BY <2>1, ServesStep DEF ApartInv, HandsInv, LiveAndAnswersInv
<1>4. ServesInv => LastSuccessServes
  BY DEF ServesInv, IsLastSuccess, LastSuccessServes, Busy, Of
<1> QED
  BY <1>1, <1>2, <1>3, <1>4, ApartInvInvariant, TypeInvInvariant, OneOfEach, PTL DEF Spec

(* The same of one worker, whichever leases run out.                       *)
THEOREM LastSuccessKept ==
    ASSUME NEW w \in Workers, Workers = {w}, RegistryReliable = TRUE, MaxOpenEnqueues <= 1
    PROVE  Spec => []LastSuccessServes
BY LoneHandsApart, LastSuccessApart, PTL

-----------------------------------------------------------------------------
(* Replicas on time                                                        *)

(* Any number of replicas that keep their leases: the cap is kept, and the *)
(* cluster runs nothing that was canceled or superseded.                   *)
THEOREM LeasesProtectRows ==
    ASSUME RegistryReliable = TRUE
    PROVE  Spec /\ []LeasesHold => [](DeployingWithinCap /\ LiveIsAccountedFor)
BY LeasesKeepHandsApart, CapKeptApart, LiveRowsApart, PTL

(* Any number of replicas that neither die with a row in flight nor        *)
(* outlive a lease: the last success serves, whatever calls fail.          *)
THEOREM TimelyReplicasServe ==
    ASSUME SlowWorkers = FALSE, RegistryReliable = TRUE, MaxOpenEnqueues <= 1
    PROVE  Spec /\ OwnersLive => [](DeployingWithinCap /\ LiveIsAccountedFor /\ LastSuccessServes)
BY TimelyReplicasKeepLeases, LeasesKeepHandsApart, CapKeptApart, LiveRowsApart,
   LastSuccessApart, PTL

=============================================================================
