-------------------------- MODULE BuildRunsProofs --------------------------
(***************************************************************************)
(* What the build queue keeps for every number of runs, servers, workers   *)
(* and faults: type correctness, the tag and the server of each attempt,   *)
(* the image of every success, retries after a dead lease only, the        *)
(* contract of BuildLifecycle, and the capacities of servers and cluster.  *)
(***************************************************************************)
EXTENDS BuildRuns, FiniteSetTheorems, TLAPS

-----------------------------------------------------------------------------
(* Types, one part per group of variables                                  *)

RunTypes ==
    /\ status \in [Runs -> RunStatus]
    /\ attempt \in [Runs -> Attempt]
    /\ execution \in [Runs -> {"cluster", "agent"}]
    /\ agentId \in [Runs -> Agents \cup {NoAgent}]
    /\ lease \in [Runs -> {"none", "live", "expired"}]
    /\ token \in [Runs -> {0} \cup Attempt]
    /\ timer \in [Runs -> {"off", "on", "over"}]
    /\ image \in [Runs -> Tag \cup {NoTag}]
    /\ lastError \in [Runs -> BOOLEAN]

WorldTypes ==
    /\ dep \in [Runs -> {"deploying", "canceling", "over"}]
    /\ age \in [Runs -> Age]
    /\ job \in [Runs -> JobStatus]
    /\ pushed \in [Runs -> SUBSET Tag]

AgentTypes ==
    /\ presence \in [Agents -> Presence]
    /\ paused \in [Agents -> BOOLEAN]
    /\ task \in [Agents -> [Runs -> Task \cup {NoTask}]]

HandTypes == hand \in [Workers -> Hand \cup {NoHand}]

BoundTypes == faults \in 0..MaxFaults /\ acts \in 0..MaxActs

(* A run that a server may claim names the tag of an attempt: that is what *)
(* makes the tag of a task a tag.                                          *)
ReadyHasTag == \A r \in Runs : status[r] = "ready" => image[r] \in Attempt

TypeInv ==
    RunTypes /\ WorldTypes /\ AgentTypes /\ HandTypes /\ BoundTypes /\ ReadyHasTag

(* The invariant has every variable well typed.                            *)
LEMMA TypeInvImpliesTypeOK == TypeInv => TypeOK
BY DEF TypeInv, RunTypes, WorldTypes, AgentTypes, HandTypes, BoundTypes, TypeOK

(* A worker that has something in hand has a run and an attempt in hand.   *)
LEMMA HandLemma ==
    ASSUME HandTypes, NEW w \in Workers, hand[w].step # "none"
    PROVE  /\ hand[w].run \in Runs
           /\ hand[w].attempt \in Attempt
           /\ hand[w].step = "maintain" => hand[w].status \in Unfinished
BY DEF HandTypes, Hand, NoHand

(* What a copy of a run is, and that it stays one when the lease is renewed. *)
Copy == [step : {"maintain"}, run : Runs, attempt : Attempt,
         status : Unfinished, renewed : BOOLEAN]

LEMMA RenewedCopy ==
    ASSUME NEW c \in Copy
    PROVE  [c EXCEPT !.renewed = TRUE] \in Copy
BY DEF Copy

(* A task that ends is a task.                                             *)
LEMMA EndedTask ==
    ASSUME NEW t \in Task, NEW s \in {"building", "built", "broken"}
    PROVE  [t EXCEPT !.state = s] \in Task
BY DEF Task

(* A task that is dropped leaves the others.                               *)
LEMMA ForgetTypes ==
    ASSUME AgentTypes, NEW a \in Agents, NEW r \in Runs, Forget(a, r) \/ UNCHANGED task,
           UNCHANGED <<presence, paused>>
    PROVE  AgentTypes'
<1>1. CASE Forget(a, r)
  BY <1>1 DEF Forget, AgentTypes
<1>2. QED
  BY <1>1 DEF AgentTypes

(* The ways a worker's hand changes keep its type.                         *)
LEMMA ReleaseTypes ==
    ASSUME HandTypes, NEW w \in Workers, Release(w)
    PROVE  HandTypes'
BY DEF HandTypes, Release, Hold

LEMMA AtStepTypes ==
    ASSUME RunTypes, HandTypes, NEW w \in Workers, hand[w].step # "none",
           NEW s \in {"build", "reserve", "start", "mark"}, AtStep(w, s)
    PROVE  HandTypes'
<1>1. hand[w].run \in Runs
  BY HandLemma
<1>2. attempt[hand[w].run] \in Attempt
  BY <1>1 DEF RunTypes
<1>3. [step |-> s, run |-> hand[w].run, attempt |-> attempt[hand[w].run]] \in Hand
  BY <1>1, <1>2 DEF Hand
<1>4. QED
  BY <1>3 DEF HandTypes, AtStep, Hold

-----------------------------------------------------------------------------
(* Types: a worker                                                         *)

\* The two things runBuildReconcile does to the row of a build.
ReconcileEnds(r) ==
    /\ execution[r] # "agent"
    /\ status[r] \in Active
    /\ job[r] \in {"succeeded", "failed"}
    /\ status'[r] = job[r]
ReconcileQueues(r) == status[r] = "absent" /\ status'[r] = "queued"

(* The row is left alone, or ends with its Job, or is inserted.            *)
LEMMA ReconcileOutcome ==
    ASSUME RunTypes, NEW w \in Workers, hand[w].run \in Runs, Reconcile(w)
    PROVE  LET r == hand[w].run
           IN  /\ status' = status \/ status' = [status EXCEPT ![r] = status'[r]]
               /\ status'[r] = status[r] \/ ReconcileEnds(r) \/ ReconcileQueues(r)
               /\ token' = token \/ token' = [token EXCEPT ![r] = 0]
<1> DEFINE r == hand[w].run
<1>1. \/ UNCHANGED <<status, token>>
      \/ /\ ~(execution[r] = "agent" /\ status[r] \in Active \cup {"succeeded"})
         /\ job[r] \in {"succeeded", "failed"}
         /\ FinishBuildRun(r, job[r])
      \/ status[r] = "absent" /\ EnsureBuildRun(r)
  BY Zenon DEF Reconcile
<1>2. CASE UNCHANGED <<status, token>>
  BY <1>2
<1>3. CASE /\ ~(execution[r] = "agent" /\ status[r] \in Active \cup {"succeeded"})
           /\ job[r] \in {"succeeded", "failed"}
           /\ FinishBuildRun(r, job[r])
  <2>1. CASE status[r] \in Active
    <3>1. /\ status' = [status EXCEPT ![r] = job[r]]
          /\ token' = [token EXCEPT ![r] = 0]
      BY <1>3, <2>1 DEF FinishBuildRun
    <3>2. status'[r] = job[r]
      BY <3>1 DEF RunTypes
    <3>3. QED
      BY <1>3, <2>1, <3>1, <3>2 DEF ReconcileEnds
  <2>2. CASE status[r] \notin Active
    BY <1>3, <2>2 DEF FinishBuildRun
  <2>3. QED
    BY <2>1, <2>2
<1>4. CASE status[r] = "absent" /\ EnsureBuildRun(r)
  <2>1. status' = [status EXCEPT ![r] = "queued"] /\ UNCHANGED token
    BY <1>4 DEF EnsureBuildRun
  <2>2. status'[r] = "queued"
    BY <2>1 DEF RunTypes
  <2>3. QED
    BY <1>4, <2>1, <2>2 DEF ReconcileQueues
<1>5. QED
  BY <1>1, <1>2, <1>3, <1>4

(* What a worker does for a build keeps the types.                         *)
LEMMA BuildStepTypes ==
    ASSUME TypeInv, NEW w \in Workers, Reconcile(w) \/ Reserve(w) \/ Start(w) \/ Mark(w)
    PROVE  TypeInv'
<1> USE DEF TypeInv, InHand
<1>1. CASE Reconcile(w)
  <2>1. hand[w].run \in Runs
    BY <1>1, HandLemma DEF Reconcile
  <2>2. HandTypes'
    BY <1>1, ReleaseTypes, AtStepTypes DEF Reconcile
  <2>3. RunTypes' /\ ReadyHasTag'
    <3>1. UNCHANGED <<attempt, execution, agentId, lease, timer, image, lastError>>
      BY <1>1 DEF Reconcile
    <3>2. /\ status' = status \/ status' = [status EXCEPT ![hand[w].run] = status'[hand[w].run]]
          /\ status'[hand[w].run] \in {status[hand[w].run], "succeeded", "failed", "queued"}
          /\ token' = token \/ token' = [token EXCEPT ![hand[w].run] = 0]
      BY <1>1, <2>1, ReconcileOutcome DEF ReconcileEnds, ReconcileQueues
    <3>3. status' \in [Runs -> RunStatus] /\ token' \in [Runs -> {0} \cup Attempt]
      BY <2>1, <3>2 DEF RunTypes, RunStatus
    <3>4. QED
      BY <2>1, <3>1, <3>2, <3>3 DEF RunTypes, ReadyHasTag
  <2>4. QED
    BY <1>1, <2>2, <2>3
    DEF Reconcile, WorldTypes, AgentTypes, BoundTypes, worldVars, agentVars, bounds
<1>2. CASE Reserve(w)
  <2>1. hand[w].run \in Runs
    BY <1>2, HandLemma DEF Reserve
  <2>2. HandTypes'
    BY <1>2, ReleaseTypes, AtStepTypes DEF Reserve
  <2>3. RunTypes' /\ ReadyHasTag'
    BY <1>2, <2>1 DEF Reserve, RunTypes, ReadyHasTag, RunStatus, LeastOccupied, AgentsWithRoom
  <2>4. QED
    BY <1>2, <2>2, <2>3
    DEF Reserve, WorldTypes, AgentTypes, BoundTypes, worldVars, agentVars, bounds
<1>3. CASE Start(w)
  <2>1. hand[w].run \in Runs /\ hand[w].attempt \in Attempt
    BY <1>3, HandLemma DEF Start
  <2>2. HandTypes'
    BY <1>3, ReleaseTypes, AtStepTypes DEF Start
  <2>3. RunTypes' /\ ReadyHasTag'
    BY <1>3, <2>1 DEF Start, RunTypes, ReadyHasTag, RunStatus, Tag, Attempt
  <2>4. WorldTypes'
    BY <1>3, <2>1 DEF Start, WorldTypes, JobStatus
  <2>5. QED
    BY <1>3, <2>2, <2>3, <2>4 DEF Start, AgentTypes, BoundTypes, agentVars, bounds
<1>4. CASE Mark(w)
  <2>1. hand[w].run \in Runs
    BY <1>4, HandLemma DEF Mark
  <2>2. HandTypes'
    BY <1>4, ReleaseTypes DEF Mark
  <2>3. RunTypes' /\ ReadyHasTag'
    BY <1>4, <2>1 DEF Mark, RunTypes, ReadyHasTag, RunStatus, Tag, DeploymentTag
  <2>4. QED
    BY <1>4, <2>2, <2>3
    DEF Mark, WorldTypes, AgentTypes, BoundTypes, worldVars, agentVars, bounds
<1>5. QED
  BY <1>1, <1>2, <1>3, <1>4

(* What a worker does about a run it has read keeps the types.             *)
LEMMA MaintainTypes ==
    ASSUME TypeInv, NEW w \in Workers, MaintainRun(w)
    PROVE  TypeInv'
<1> USE DEF TypeInv
<1> DEFINE h == hand[w]
<1>1. h.run \in Runs /\ h.attempt \in Attempt
  BY HandLemma DEF MaintainRun, InHand
<1>2. HandTypes'
  BY ReleaseTypes DEF MaintainRun
<1>3. ASSUME NEW expired, LoseRun(h, expired)
      PROVE  RunTypes' /\ ReadyHasTag'
  BY <1>1, <1>3 DEF LoseRun, Retry, RunTypes, ReadyHasTag, RunStatus, Attempt
<1>4. ASSUME CancelBuildRun(h.run),
             UNCHANGED <<attempt, execution, agentId, lease, timer, image, lastError>>
      PROVE  RunTypes' /\ ReadyHasTag'
  BY <1>1, <1>4 DEF CancelBuildRun, RunTypes, ReadyHasTag, RunStatus
<1>5. ASSUME UNCHANGED runVars
      PROVE  RunTypes' /\ ReadyHasTag'
  BY <1>5 DEF runVars, RunTypes, ReadyHasTag
<1>6. ASSUME IF status[h.run] = "queued"
             THEN /\ status' = [status EXCEPT ![h.run] = "failed"]
                  /\ lastError' = [lastError EXCEPT ![h.run] = TRUE]
             ELSE UNCHANGED <<status, lastError>>,
             UNCHANGED <<attempt, execution, agentId, lease, token, timer, image>>
      PROVE  RunTypes' /\ ReadyHasTag'
  <2>1. CASE status[h.run] = "queued"
    <3>1. status' \in [Runs -> RunStatus] /\ \A r \in Runs : status'[r] \in {status[r], "failed"}
      <4>1. status' = [status EXCEPT ![h.run] = "failed"]
        BY <1>6, <2>1
      <4>2. status \in [Runs -> RunStatus]
        BY DEF RunTypes
      <4>3. QED
        BY <4>1, <4>2 DEF RunStatus
    <3>2. lastError' \in [Runs -> BOOLEAN]
      <4>1. lastError' = [lastError EXCEPT ![h.run] = TRUE]
        BY <1>6, <2>1
      <4>2. lastError \in [Runs -> BOOLEAN]
        BY DEF RunTypes
      <4>3. QED
        BY <4>1, <4>2
    <3>3. UNCHANGED <<attempt, execution, agentId, lease, token, timer, image>>
      BY <1>6
    <3>4. RunTypes'
      BY <3>1, <3>2, <3>3 DEF RunTypes
    <3>5. ReadyHasTag'
      BY <3>1, <3>3 DEF ReadyHasTag
    <3>6. QED
      BY <3>4, <3>5
  <2>2. CASE status[h.run] # "queued"
    BY <1>6, <2>2 DEF RunTypes, ReadyHasTag
  <2>3. QED
    BY <2>1, <2>2
<1>7. RunTypes' /\ ReadyHasTag'
  <2>1. \/ UNCHANGED runVars
        \/ /\ CancelBuildRun(h.run)
           /\ UNCHANGED <<attempt, execution, agentId, lease, timer, image, lastError>>
        \/ /\ IF status[h.run] = "queued"
              THEN /\ status' = [status EXCEPT ![h.run] = "failed"]
                   /\ lastError' = [lastError EXCEPT ![h.run] = TRUE]
              ELSE UNCHANGED <<status, lastError>>
           /\ UNCHANGED <<attempt, execution, agentId, lease, token, timer, image>>
        \/ \E expired : LoseRun(h, expired)
    BY Zenon DEF MaintainRun
  <2>2. QED
    BY <1>3, <1>4, <1>5, <1>6, <2>1
<1>8. QED
  BY <1>2, <1>7
  DEF MaintainRun, WorldTypes, AgentTypes, BoundTypes, worldVars, agentVars, bounds

(* What a worker begins keeps the types.                                   *)
LEMMA TurnTypes ==
    ASSUME TypeInv, NEW w \in Workers, NEW r \in Runs,
           TakeBuild(w, r) \/ ReadRun(w, r) \/ CancelBuild(w, r) \/ DeleteJob(w, r)
    PROVE  TypeInv'
<1> USE DEF TypeInv
<1>1. CASE TakeBuild(w, r)
  <2>1. [step |-> "build", run |-> r, attempt |-> attempt[r]] \in Hand
    BY DEF Hand, RunTypes
  <2>2. HandTypes'
    BY <1>1, <2>1 DEF TakeBuild, Hold, HandTypes
  <2>3. QED
    BY <1>1, <2>2
    DEF TakeBuild, RunTypes, WorldTypes, AgentTypes, BoundTypes, ReadyHasTag,
        runVars, worldVars, agentVars, bounds
<1>2. CASE ReadRun(w, r)
  <2>1. [step |-> "maintain", run |-> r, attempt |-> attempt[r], status |-> status[r],
         renewed |-> FALSE] \in Hand
    BY <1>2 DEF ReadRun, Hand, RunTypes
  <2>2. HandTypes'
    BY <1>2, <2>1 DEF ReadRun, Hold, HandTypes
  <2>3. QED
    BY <1>2, <2>2
    DEF ReadRun, RunTypes, WorldTypes, AgentTypes, BoundTypes, ReadyHasTag,
        runVars, worldVars, agentVars, bounds
<1>3. CASE CancelBuild(w, r)
  <2>1. RunTypes' /\ ReadyHasTag'
    BY <1>3 DEF CancelBuild, CancelBuildRun, RunTypes, ReadyHasTag, RunStatus
  <2>2. QED
    BY <1>3, <2>1
    DEF CancelBuild, WorldTypes, AgentTypes, HandTypes, BoundTypes,
        worldVars, agentVars, bounds
<1>4. CASE DeleteJob(w, r)
  <2>1. WorldTypes'
    BY <1>4 DEF DeleteJob, WorldTypes, JobStatus
  <2>2. QED
    BY <1>4, <2>1
    DEF DeleteJob, RunTypes, AgentTypes, HandTypes, BoundTypes, ReadyHasTag,
        runVars, agentVars, bounds
<1>5. QED
  BY <1>1, <1>2, <1>3, <1>4

-----------------------------------------------------------------------------
(* Types: agents, administrators and the rest of the world                 *)

(* What an agent does keeps the types.                                     *)
LEMMA AgentTypesKept ==
    ASSUME TypeInv, NEW a \in Agents, AgentStep(a)
    PROVE  TypeInv'
<1> USE BuildConstants DEF TypeInv, Lose
<1>1. ASSUME Seen(a) \/ Offline(a) PROVE TypeInv'
  BY <1>1 DEF Seen, Offline, RunTypes, WorldTypes, AgentTypes, HandTypes, BoundTypes,
              ReadyHasTag, Presence, runVars, worldVars, bounds
<1>2. ASSUME Claim(a) PROVE TypeInv'
  <2>1. PICK r \in Runs :
          /\ status[r] = "ready"
          /\ status' = [status EXCEPT ![r] = "running"]
          /\ timer' = [timer EXCEPT ![r] = "on"]
          /\ token' = [token EXCEPT ![r] = attempt[r]]
          /\ lease' = [lease EXCEPT ![r] = "live"]
          /\ \/ /\ task' = [task EXCEPT ![a][r] =
                             [attempt |-> attempt[r], tag |-> image[r], state |-> "building"]]
                /\ UNCHANGED faults
             \/ /\ faults + 1 <= MaxFaults
                /\ faults' = faults + 1
                /\ UNCHANGED task
    BY <1>2 DEF Claim
  <2>2. [attempt |-> attempt[r], tag |-> image[r], state |-> "building"] \in Task
    BY <2>1 DEF RunTypes, ReadyHasTag, Task, Tag
  <2>3. AgentTypes'
    <3>1. task' \in [Agents -> [Runs -> Task \cup {NoTask}]]
      <4>1. task \in [Agents -> [Runs -> Task \cup {NoTask}]]
        BY DEF AgentTypes
      <4>2. CASE task' = [task EXCEPT ![a][r] =
                   [attempt |-> attempt[r], tag |-> image[r], state |-> "building"]]
        BY <2>2, <4>1, <4>2
      <4>3. CASE UNCHANGED task
        BY <4>1, <4>3
      <4>4. QED
        BY <2>1, <4>2, <4>3
    <3>2. UNCHANGED <<presence, paused>>
      BY <1>2 DEF Claim
    <3>3. QED
      BY <3>1, <3>2 DEF AgentTypes
  <2>4. RunTypes' /\ ReadyHasTag'
    BY <1>2, <2>1 DEF Claim, RunTypes, ReadyHasTag, RunStatus
  <2>5. BoundTypes'
    BY <1>2, <2>1 DEF Claim, BoundTypes
  <2>6. QED
    BY <1>2, <2>3, <2>4, <2>5 DEF Claim, WorldTypes, HandTypes
<1>3. ASSUME AgentStops(a) PROVE TypeInv'
  BY <1>3 DEF AgentStops, RunTypes, WorldTypes, AgentTypes, HandTypes, BoundTypes,
              ReadyHasTag, runVars, worldVars
<1>4. ASSUME NEW r \in Runs, Heartbeat(a, r) PROVE TypeInv'
  <2>1. HandTypes'
    <3>1. ASSUME NEW w \in Workers, hand[w].step = "maintain"
          PROVE  [hand[w] EXCEPT !.renewed = TRUE] \in Hand
      <4>1. hand[w] \in Copy
        BY <3>1 DEF HandTypes, Hand, NoHand, Copy
      <4>2. [hand[w] EXCEPT !.renewed = TRUE] \in Copy
        BY <4>1, RenewedCopy
      <4>3. QED
        BY <4>2 DEF Copy, Hand
    <3>2. QED
      BY <1>4, <3>1 DEF Heartbeat, HandTypes
  <2>2. /\ lease' = [lease EXCEPT ![r] = "live"] \/ UNCHANGED lease
        /\ Forget(a, r) \/ UNCHANGED task
        /\ UNCHANGED <<presence, paused>>
    BY <1>4, Zenon DEF Heartbeat
  <2>3. AgentTypes' /\ lease' \in [Runs -> {"none", "live", "expired"}]
    BY <2>2, ForgetTypes DEF RunTypes
  <2>4. RunTypes' /\ ReadyHasTag'
    BY <1>4, <2>3 DEF Heartbeat, RunTypes, ReadyHasTag
  <2>5. WorldTypes' /\ BoundTypes'
    BY <1>4 DEF Heartbeat, WorldTypes, BoundTypes, worldVars, bounds
  <2>6. QED
    BY <2>1, <2>3, <2>4, <2>5
<1>5. ASSUME NEW r \in Runs, BuildEnds(a, r) PROVE TypeInv'
  <2>1. task[a][r] \in Task
    BY <1>5 DEF BuildEnds, AgentTypes
  <2>2. AgentTypes'
    <3>1. PICK s \in {"built", "broken"} : task' = [task EXCEPT ![a][r].state = s]
      BY <1>5 DEF BuildEnds
    <3>2. [task[a][r] EXCEPT !.state = s] \in Task
      BY <2>1, EndedTask
    <3>3. task' \in [Agents -> [Runs -> Task \cup {NoTask}]]
      BY <3>1, <3>2 DEF AgentTypes
    <3>4. QED
      BY <1>5, <3>3 DEF BuildEnds, AgentTypes
  <2>3. WorldTypes'
    BY <1>5, <2>1 DEF BuildEnds, WorldTypes, Task
  <2>4. QED
    BY <1>5, <2>2, <2>3
    DEF BuildEnds, RunTypes, HandTypes, BoundTypes, ReadyHasTag, runVars, bounds
<1>6. ASSUME NEW r \in Runs, Result(a, r) PROVE TypeInv'
  <2>1. RunTypes' /\ ReadyHasTag'
    BY <1>6 DEF Result, RunTypes, ReadyHasTag, RunStatus
  <2>2. AgentTypes'
    BY <1>6, ForgetTypes DEF Result
  <2>3. WorldTypes' /\ HandTypes' /\ BoundTypes'
    BY <1>6 DEF Result, WorldTypes, HandTypes, BoundTypes, worldVars
  <2>4. QED
    BY <2>1, <2>2, <2>3
<1>7. ASSUME NEW r \in Runs, DropTask(a, r) PROVE TypeInv'
  BY <1>7, ForgetTypes
  DEF DropTask, RunTypes, WorldTypes, HandTypes, BoundTypes, ReadyHasTag,
      runVars, worldVars, bounds
<1>8. QED
  BY <1>1, <1>2, <1>3, <1>4, <1>5, <1>6, <1>7 DEF AgentStep

(* What an administrator does keeps the types.                             *)
LEMMA AdminTypes ==
    ASSUME TypeInv, NEW a \in Agents, AdminStep(a)
    PROVE  TypeInv'
<1> USE BuildConstants DEF TypeInv, Act
<1>1. ASSUME NEW p \in BOOLEAN, SetPaused(a, p) PROVE TypeInv'
  BY <1>1 DEF SetPaused, RunTypes, WorldTypes, AgentTypes, HandTypes, BoundTypes,
              ReadyHasTag, runVars, worldVars
<1>2. CASE Revoke(a)
  <2>1. RunTypes' /\ ReadyHasTag'
    BY <1>2 DEF Revoke, RunTypes, ReadyHasTag, RunStatus
  <2>2. QED
    BY <1>2, <2>1
    DEF Revoke, WorldTypes, AgentTypes, HandTypes, BoundTypes, Presence, worldVars
<1>3. CASE Remove(a)
  <2>1. RunTypes' /\ ReadyHasTag'
    BY <1>3 DEF Remove, RunTypes, ReadyHasTag
  <2>2. QED
    BY <1>3, <2>1
    DEF Remove, WorldTypes, AgentTypes, HandTypes, BoundTypes, Presence, worldVars
<1>4. QED
  BY <1>1, <1>2, <1>3 DEF AdminStep

(* Users, clocks, the cluster and crashes keep the types.                  *)
LEMMA EnvironmentTypes ==
    ASSUME TypeInv, Environment
    PROVE  TypeInv'
<1> USE BuildConstants DEF TypeInv, Act, Lose
<1>1. ASSUME NEW r \in Runs, CancelDeployment(r) \/ EndDeployment(r) PROVE TypeInv'
  BY <1>1 DEF CancelDeployment, EndDeployment, RunTypes, WorldTypes, AgentTypes,
              HandTypes, BoundTypes, ReadyHasTag, runVars, agentVars, bounds
<1>2. ASSUME NEW r \in Runs, LeaseExpires(r) \/ TimeRunsOut(r) PROVE TypeInv'
  <2>1. UNCHANGED <<status, attempt, execution, agentId, token, image, lastError>>
    BY <1>2 DEF LeaseExpires, TimeRunsOut
  <2>2. UNCHANGED <<worldVars, agentVars, hand, bounds>>
    BY <1>2 DEF LeaseExpires, TimeRunsOut
  <2>3. lease' = [lease EXCEPT ![r] = "expired"] \/ UNCHANGED lease
    BY <1>2 DEF LeaseExpires, TimeRunsOut
  <2>4. timer' = [timer EXCEPT ![r] = "over"] \/ UNCHANGED timer
    BY <1>2 DEF LeaseExpires, TimeRunsOut
  <2>5. /\ lease' \in [Runs -> {"none", "live", "expired"}]
        /\ timer' \in [Runs -> {"off", "on", "over"}]
    BY <2>3, <2>4 DEF RunTypes
  <2>6. RunTypes' /\ ReadyHasTag'
    BY <2>1, <2>5 DEF RunTypes, ReadyHasTag
  <2>7. QED
    BY <2>2, <2>6
    DEF WorldTypes, AgentTypes, HandTypes, BoundTypes, worldVars, agentVars, bounds
<1>3. ASSUME NEW r \in Runs, Ages(r) PROVE TypeInv'
  <2>1. PICK old \in {"90s", "overdue executing", "overdue waiting"} :
          age' = [age EXCEPT ![r] = old]
    BY <1>3 DEF Ages
  <2>2. UNCHANGED <<runVars, dep, job, pushed, agentVars, hand, bounds>>
    BY <1>3 DEF Ages
  <2>3. WorldTypes'
    BY <2>1, <2>2 DEF WorldTypes, Age
  <2>4. RunTypes' /\ ReadyHasTag'
    BY <2>2 DEF RunTypes, ReadyHasTag, runVars
  <2>5. QED
    BY <2>2, <2>3, <2>4 DEF AgentTypes, HandTypes, BoundTypes, agentVars, bounds
<1>4. ASSUME NEW r \in Runs, JobProgress(r) PROVE TypeInv'
  <2>1. WorldTypes'
    BY <1>4 DEF JobProgress, WorldTypes, JobStatus, Tag
  <2>2. QED
    BY <1>4, <2>1
    DEF JobProgress, RunTypes, AgentTypes, HandTypes, BoundTypes, ReadyHasTag,
        runVars, agentVars, bounds
<1>5. ASSUME NEW w \in Workers, Interrupt(w) PROVE TypeInv'
  BY <1>5, ReleaseTypes
  DEF Interrupt, RunTypes, WorldTypes, AgentTypes, BoundTypes, ReadyHasTag,
      runVars, worldVars, agentVars
<1>6. QED
  BY <1>1, <1>2, <1>3, <1>4, <1>5 DEF Environment

(* The initial state satisfies the invariant.                              *)
LEMMA TypeInvInit == Init => TypeInv
BY BuildConstants
DEF Init, TypeInv, RunTypes, WorldTypes, AgentTypes, HandTypes, BoundTypes, ReadyHasTag,
    RunStatus, Attempt, Tag, NoTag, Age, JobStatus, Presence

(* Every step keeps it.                                                    *)
LEMMA TypeInvStep ==
    ASSUME TypeInv, [Next]_vars
    PROVE  TypeInv'
<1>1. ASSUME NEW w \in Workers, WorkerStep(w) \/ WorkerTurn(w) PROVE TypeInv'
  BY <1>1, BuildStepTypes, MaintainTypes, TurnTypes DEF WorkerStep, WorkerTurn
<1>2. CASE UNCHANGED vars
  BY <1>2
  DEF vars, runVars, worldVars, agentVars, bounds, TypeInv, RunTypes, WorldTypes,
      AgentTypes, HandTypes, BoundTypes, ReadyHasTag
<1>3. QED
  BY <1>1, <1>2, AgentTypesKept, AdminTypes, EnvironmentTypes DEF Next

(* Every variable of the build queue holds a value the code can store      *)
(* there: no run is attempted more than twice, whatever is lost, and a     *)
(* server is never handed a task without a tag to push.                    *)
THEOREM TypeCorrect == Spec => []TypeOK
<1>1. Spec => []TypeInv
  BY TypeInvInit, TypeInvStep, PTL DEF Spec
<1>2. QED
  BY <1>1, TypeInvImpliesTypeOK, PTL

-----------------------------------------------------------------------------
(* The invariant behind the safety properties, by what it relates          *)

(* Only a run of the cluster is marked as started there.                   *)
MarkedInCluster ==
    \A w \in Workers : hand[w].step = "mark" => execution[hand[w].run] = "cluster"

(* A server is bound to runs for servers only.                             *)
ClusterHasNoAgent == \A r \in Runs : execution[r] = "cluster" => agentId[r] = NoAgent

(* A run that has no executor yet has no lease to lose, and the first      *)
(* attempt is the one it is queued with.                                   *)
NoLeaseWhileWaiting ==
    \A r \in Runs : /\ status[r] \in {"absent", "queued"} => lease[r] = "none"
                    /\ status[r] = "absent" => attempt[r] = 1

(* A Job that succeeded, and a task that was built, have pushed their tag, *)
(* which for a task is the one of its attempt.                             *)
BuiltIsPushed ==
    /\ \A r \in Runs : job[r] = "succeeded" => DeploymentTag \in pushed[r]
    /\ \A a \in Agents, r \in Runs : task[a][r] # NoTask =>
         /\ task[a][r].tag = task[a][r].attempt
         /\ task[a][r].state = "built" => task[a][r].tag \in pushed[r]

\* What is true of each run by itself.
RunInv ==
    NoLeaseWhileWaiting /\ TagIsCurrent /\ SuccessHasImage /\ ActiveRunsHaveAgents

BuildInv ==
    TypeInv /\ MarkedInCluster /\ ClusterHasNoAgent /\ BuiltIsPushed /\ RunInv

(* The step of a worker that does not end at "mark" marks nothing.         *)
LEMMA NobodyMarks ==
    ASSUME HandTypes, NEW w \in Workers,
           Release(w) \/ AtStep(w, "reserve") \/ AtStep(w, "start"),
           NEW v \in Workers, hand'[v].step = "mark"
    PROVE  hand'[v] = hand[v]
<1>1. CASE Release(w)
  BY <1>1 DEF HandTypes, Release, Hold, NoHand
<1>2. CASE AtStep(w, "reserve")
  BY <1>2 DEF HandTypes, AtStep, Hold
<1>3. CASE AtStep(w, "start")
  BY <1>3 DEF HandTypes, AtStep, Hold
<1>4. QED
  BY <1>1, <1>2, <1>3

-----------------------------------------------------------------------------
(* Safety: a worker                                                        *)

(* What a worker does for a build keeps the invariant.                     *)
LEMMA BuildStepSafe ==
    ASSUME BuildInv, NEW w \in Workers, Reconcile(w) \/ Reserve(w) \/ Start(w) \/ Mark(w)
    PROVE  BuildInv'
<1> USE DEF BuildInv, TypeInv, InHand
<1> DEFINE r == hand[w].run
<1>1. TypeInv'
  BY BuildStepTypes
<1>2. r \in Runs
  BY HandLemma DEF Reconcile, Reserve, Start, Mark
<1>3. CASE Reconcile(w)
  <2>1. MarkedInCluster'
    BY <1>3, NobodyMarks DEF Reconcile, MarkedInCluster
  <2>2. ClusterHasNoAgent' /\ BuiltIsPushed'
    BY <1>3 DEF Reconcile, ClusterHasNoAgent, BuiltIsPushed, worldVars, agentVars
  <2>3. RunInv'
    <3>1. UNCHANGED <<attempt, execution, agentId, lease, image, pushed, presence>>
      BY <1>3 DEF Reconcile, worldVars, agentVars
    <3>2. status' = status \/ status' = [status EXCEPT ![r] = status'[r]]
      BY <1>2, <1>3, ReconcileOutcome
    <3>3. status'[r] = status[r] \/ ReconcileEnds(r) \/ ReconcileQueues(r)
      BY <1>2, <1>3, ReconcileOutcome
    <3>4. NoLeaseWhileWaiting'
      BY <1>2, <3>1, <3>2, <3>3
      DEF RunInv, NoLeaseWhileWaiting, ReconcileEnds, ReconcileQueues, RunTypes
    <3>5. TagIsCurrent'
      BY <1>2, <3>1, <3>2, <3>3
      DEF RunInv, TagIsCurrent, ReconcileEnds, ReconcileQueues, RunTypes
    <3>6. SuccessHasImage'
      BY <1>2, <3>1, <3>2, <3>3
      DEF RunInv, SuccessHasImage, BuiltIsPushed, ReconcileEnds, ReconcileQueues, RunTypes
    <3>7. ActiveRunsHaveAgents'
      BY <1>2, <3>1, <3>2, <3>3
      DEF RunInv, ActiveRunsHaveAgents, ActiveRuns, Active, ReconcileEnds, ReconcileQueues,
          RunTypes
    <3>8. QED
      BY <3>4, <3>5, <3>6, <3>7 DEF RunInv
  <2>4. QED
    BY <1>1, <2>1, <2>2, <2>3
<1>4. CASE Reserve(w)
  <2>1. MarkedInCluster'
    <3>1. \A q \in Runs : execution[q] = "cluster" => execution'[q] = "cluster"
      BY <1>2, <1>4 DEF Reserve, RunTypes
    <3>2. Release(w) \/ AtStep(w, "start")
      BY <1>4 DEF Reserve
    <3>3. QED
      BY <3>1, <3>2, NobodyMarks, HandLemma DEF MarkedInCluster
  <2>2. ClusterHasNoAgent' /\ BuiltIsPushed'
    BY <1>2, <1>4, SMTT(30)
    DEF Reserve, ClusterHasNoAgent, BuiltIsPushed, RunTypes, worldVars, agentVars
  <2>3. RunInv'
    BY <1>2, <1>4, SMTT(30)
    DEF Reserve, RunInv, NoLeaseWhileWaiting, TagIsCurrent, SuccessHasImage,
        ActiveRunsHaveAgents, ActiveRuns, Active, LeastOccupied, AgentsWithRoom, HasRoom,
        AgentAvailable,
        RunTypes, worldVars, agentVars
  <2>4. QED
    BY <1>1, <2>1, <2>2, <2>3
<1>5. CASE Start(w)
  <2>1. MarkedInCluster'
    BY <1>2, <1>5 DEF Start, MarkedInCluster, Release, AtStep, Hold, NoHand, HandTypes
  <2>2. ClusterHasNoAgent' /\ BuiltIsPushed'
    BY <1>2, <1>5
    DEF Start, ClusterHasNoAgent, BuiltIsPushed, WorldTypes, agentVars
  <2>3. RunInv'
    BY <1>2, <1>5, SMTT(30)
    DEF Start, RunInv, NoLeaseWhileWaiting, TagIsCurrent, SuccessHasImage,
        ActiveRunsHaveAgents, ActiveRuns, Active, PreparingAttempt, RunTypes, agentVars
  <2>4. QED
    BY <1>1, <2>1, <2>2, <2>3
<1>6. CASE Mark(w)
  <2>1. MarkedInCluster'
    BY <1>6, NobodyMarks DEF Mark, MarkedInCluster
  <2>2. ClusterHasNoAgent' /\ BuiltIsPushed'
    BY <1>6 DEF Mark, ClusterHasNoAgent, BuiltIsPushed, worldVars, agentVars
  <2>3. RunInv'
    BY <1>2, <1>6, SMTT(30)
    DEF Mark, RunInv, NoLeaseWhileWaiting, TagIsCurrent, SuccessHasImage,
        ActiveRunsHaveAgents, ActiveRuns, Active, MarkedInCluster, RunTypes,
        worldVars, agentVars
  <2>4. QED
    BY <1>1, <2>1, <2>2, <2>3
<1>7. QED
  BY <1>3, <1>4, <1>5, <1>6

(* What a run goes through when a worker has looked at it: nothing, or the *)
(* end of an unfinished run, or its return to the queue after a lost lease. *)
LEMMA MaintainOutcome ==
    ASSUME TypeInv, NEW w \in Workers, MaintainRun(w)
    PROVE  \/ UNCHANGED runVars
           \/ \E outcome \in {"failed", "canceled"} :
                /\ status[hand[w].run] \in Unfinished
                /\ status' = [status EXCEPT ![hand[w].run] = outcome]
                /\ UNCHANGED <<attempt, execution, agentId, lease, image>>
           \/ \E expired : /\ StillLost(hand[w], expired)
                           /\ LoseRun(hand[w], expired)
<1> DEFINE r == hand[w].run
<1>1. r \in Runs /\ hand[w].status \in Unfinished
  BY HandLemma DEF MaintainRun, InHand, TypeInv
<1>2. \/ UNCHANGED runVars
      \/ /\ CancelBuildRun(r)
         /\ UNCHANGED <<attempt, execution, agentId, lease, timer, image, lastError>>
      \/ /\ IF status[r] = "queued"
            THEN /\ status' = [status EXCEPT ![r] = "failed"]
                 /\ lastError' = [lastError EXCEPT ![r] = TRUE]
            ELSE UNCHANGED <<status, lastError>>
         /\ UNCHANGED <<attempt, execution, agentId, lease, token, timer, image>>
      \/ \E expired : StillLost(hand[w], expired) /\ LoseRun(hand[w], expired)
  BY Zenon DEF MaintainRun
<1>3. CASE /\ CancelBuildRun(r)
           /\ UNCHANGED <<attempt, execution, agentId, lease, timer, image, lastError>>
  BY <1>3 DEF CancelBuildRun, runVars
<1>4. CASE /\ IF status[r] = "queued"
              THEN /\ status' = [status EXCEPT ![r] = "failed"]
                   /\ lastError' = [lastError EXCEPT ![r] = TRUE]
              ELSE UNCHANGED <<status, lastError>>
           /\ UNCHANGED <<attempt, execution, agentId, lease, token, timer, image>>
  <2>1. CASE status[r] = "queued"
    BY <1>4, <2>1 DEF Unfinished
  <2>2. CASE status[r] # "queued"
    BY <1>4, <2>2 DEF runVars
  <2>3. QED
    BY <2>1, <2>2
<1>5. QED
  BY <1>2, <1>3, <1>4

(* What a worker does about a run it has read keeps the invariant.         *)
LEMMA MaintainSafe ==
    ASSUME BuildInv, NEW w \in Workers, MaintainRun(w)
    PROVE  BuildInv'
<1> USE DEF BuildInv, TypeInv
<1> DEFINE r == hand[w].run
<1>1. TypeInv'
  BY MaintainTypes
<1>2. r \in Runs /\ hand[w].status \in Unfinished
  BY HandLemma DEF MaintainRun, InHand
<1>3. /\ Release(w)
      /\ UNCHANGED <<dep, age, job, pushed, presence, paused, task>>
  BY DEF MaintainRun, worldVars, agentVars
<1>4. CASE UNCHANGED runVars
  <2>1. MarkedInCluster'
    BY <1>3, <1>4, NobodyMarks DEF MarkedInCluster, runVars
  <2>2. QED
    BY <1>1, <1>3, <1>4, <2>1
    DEF runVars, ClusterHasNoAgent, BuiltIsPushed, RunInv, NoLeaseWhileWaiting,
        TagIsCurrent, SuccessHasImage, ActiveRunsHaveAgents, ActiveRuns
<1>5. ASSUME NEW outcome \in {"failed", "canceled"},
             status[r] \in Unfinished,
             status' = [status EXCEPT ![r] = outcome],
             UNCHANGED <<attempt, execution, agentId, lease, image>>
      PROVE  BuildInv'
  <2>1. MarkedInCluster'
    BY <1>3, <1>5, NobodyMarks DEF MarkedInCluster
  <2>2. ClusterHasNoAgent' /\ BuiltIsPushed'
    BY <1>3, <1>5 DEF ClusterHasNoAgent, BuiltIsPushed
  <2>3. RunInv'
    BY <1>2, <1>3, <1>5
    DEF RunInv, NoLeaseWhileWaiting, TagIsCurrent, SuccessHasImage,
        ActiveRunsHaveAgents, ActiveRuns, Active, RunTypes
  <2>4. QED
    BY <1>1, <2>1, <2>2, <2>3
<1>6. ASSUME NEW expired, StillLost(hand[w], expired), LoseRun(hand[w], expired)
      PROVE  BuildInv'
  <2>1. MarkedInCluster'
    BY <1>3, <1>6, NobodyMarks DEF MarkedInCluster, LoseRun
  <2>2. ClusterHasNoAgent' /\ BuiltIsPushed'
    BY <1>2, <1>3, <1>6 DEF LoseRun, ClusterHasNoAgent, BuiltIsPushed, RunTypes
  <2>3. RunInv'
    BY <1>2, <1>3, <1>6
    DEF LoseRun, StillLost, RunInv, NoLeaseWhileWaiting, TagIsCurrent, SuccessHasImage,
        ActiveRunsHaveAgents, ActiveRuns, Active, Unfinished, RunTypes
  <2>4. QED
    BY <1>1, <2>1, <2>2, <2>3
<1>7. QED
  BY <1>4, <1>5, <1>6, MaintainOutcome

(* What a worker begins keeps the invariant.                               *)
LEMMA TurnSafe ==
    ASSUME BuildInv, NEW w \in Workers, NEW r \in Runs,
           TakeBuild(w, r) \/ ReadRun(w, r) \/ CancelBuild(w, r) \/ DeleteJob(w, r)
    PROVE  BuildInv'
<1> USE DEF BuildInv, TypeInv
<1>1. TypeInv'
  BY TurnTypes
<1>2. CASE TakeBuild(w, r) \/ ReadRun(w, r)
  <2>1. \A v \in Workers : hand'[v].step = "mark" => hand'[v] = hand[v]
    BY <1>2 DEF TakeBuild, ReadRun, Hold, HandTypes
  <2>2. QED
    BY <1>1, <1>2, <2>1
    DEF TakeBuild, ReadRun, MarkedInCluster, ClusterHasNoAgent, BuiltIsPushed, RunInv,
        NoLeaseWhileWaiting, TagIsCurrent, SuccessHasImage, ActiveRunsHaveAgents,
        ActiveRuns, runVars, worldVars, agentVars
<1>3. CASE CancelBuild(w, r)
  <2>1. RunInv'
    BY <1>3
    DEF CancelBuild, CancelBuildRun, RunInv, NoLeaseWhileWaiting, TagIsCurrent,
        SuccessHasImage, ActiveRunsHaveAgents, ActiveRuns, Active, RunTypes,
        worldVars, agentVars
  <2>2. QED
    BY <1>1, <1>3, <2>1
    DEF CancelBuild, MarkedInCluster, ClusterHasNoAgent, BuiltIsPushed, worldVars, agentVars
<1>4. CASE DeleteJob(w, r)
  <2>1. BuiltIsPushed'
    BY <1>4 DEF DeleteJob, BuiltIsPushed, WorldTypes, agentVars
  <2>2. QED
    BY <1>1, <1>4, <2>1
    DEF DeleteJob, MarkedInCluster, ClusterHasNoAgent, RunInv, NoLeaseWhileWaiting,
        TagIsCurrent, SuccessHasImage, ActiveRunsHaveAgents, ActiveRuns, runVars, agentVars
<1>5. QED
  BY <1>2, <1>3, <1>4

-----------------------------------------------------------------------------
(* Safety: agents, administrators and the rest of the world                *)

(* What an agent does keeps the invariant.                                 *)
LEMMA AgentSafe ==
    ASSUME BuildInv, NEW a \in Agents, AgentStep(a)
    PROVE  BuildInv'
<1> USE BuildConstants DEF BuildInv, TypeInv
<1>1. TypeInv'
  BY AgentTypesKept
<1>2. ASSUME Seen(a) \/ Offline(a) PROVE BuildInv'
  BY <1>1, <1>2
  DEF Seen, Offline, MarkedInCluster, ClusterHasNoAgent, BuiltIsPushed, RunInv,
      NoLeaseWhileWaiting, TagIsCurrent, SuccessHasImage, ActiveRunsHaveAgents, ActiveRuns,
      AgentTypes, runVars, worldVars
<1>3. ASSUME Claim(a) PROVE BuildInv'
  <2>1. PICK r \in Runs :
          /\ agentId[r] = a /\ status[r] = "ready"
          /\ status' = [status EXCEPT ![r] = "running"]
          /\ lease' = [lease EXCEPT ![r] = "live"]
          /\ \/ task' = [task EXCEPT ![a][r] =
                          [attempt |-> attempt[r], tag |-> image[r], state |-> "building"]]
             \/ UNCHANGED task
    BY <1>3 DEF Claim
  <2>2. execution[r] = "agent" /\ image[r] = attempt[r]
    BY <2>1 DEF ClusterHasNoAgent, RunInv, TagIsCurrent, RunTypes
  <2>3. BuiltIsPushed'
    <3> DEFINE claimed == [attempt |-> attempt[r], tag |-> image[r], state |-> "building"]
    <3>1. UNCHANGED <<job, pushed>>
      BY <1>3 DEF Claim
    <3>2. claimed.tag = claimed.attempt /\ claimed.state # "built"
      BY <2>2
    <3>3. ASSUME NEW b \in Agents, NEW q \in Runs
          PROVE  task'[b][q] = task[b][q] \/ task'[b][q] = claimed
      BY <2>1 DEF AgentTypes
    <3>4. QED
      BY <3>1, <3>2, <3>3 DEF BuiltIsPushed
  <2>4. RunInv'
    BY <1>3, <2>1
    DEF Claim, RunInv, NoLeaseWhileWaiting, TagIsCurrent, SuccessHasImage,
        ActiveRunsHaveAgents, ActiveRuns, Active, RunTypes
  <2>5. QED
    BY <1>1, <1>3, <2>3, <2>4 DEF Claim, MarkedInCluster, ClusterHasNoAgent
<1>4. ASSUME AgentStops(a) PROVE BuildInv'
  BY <1>1, <1>4
  DEF AgentStops, MarkedInCluster, ClusterHasNoAgent, BuiltIsPushed, RunInv,
      NoLeaseWhileWaiting, TagIsCurrent, SuccessHasImage, ActiveRunsHaveAgents, ActiveRuns,
      AgentTypes, runVars, worldVars
<1>5. ASSUME NEW r \in Runs, Heartbeat(a, r) PROVE BuildInv'
  <2>1. /\ lease' = lease \/ (status[r] = "running" /\ lease' = [lease EXCEPT ![r] = "live"])
        /\ task' = task \/ Forget(a, r)
    BY <1>5, Zenon DEF Heartbeat, ActiveTask
  <2>2. \A w \in Workers : hand'[w].step = "mark" => hand'[w] = hand[w]
    BY <1>5 DEF Heartbeat, HandTypes, Hand, NoHand
  <2>3. BuiltIsPushed'
    BY <1>5, <2>1 DEF Heartbeat, Forget, BuiltIsPushed, AgentTypes, worldVars
  <2>4. MarkedInCluster' /\ ClusterHasNoAgent'
    BY <1>5, <2>2 DEF Heartbeat, MarkedInCluster, ClusterHasNoAgent
  <2>5. RunInv'
    BY <1>5, <2>1
    DEF Heartbeat, RunInv, NoLeaseWhileWaiting, TagIsCurrent, SuccessHasImage,
        ActiveRunsHaveAgents, ActiveRuns, RunTypes, worldVars
  <2>6. QED
    BY <1>1, <2>3, <2>4, <2>5
<1>6. ASSUME NEW r \in Runs, BuildEnds(a, r) PROVE BuildInv'
  <2>1. task[a][r] \in Task
    BY <1>6 DEF BuildEnds, AgentTypes
  <2>2. PICK s \in {"built", "broken"} :
          /\ task' = [task EXCEPT ![a][r].state = s]
          /\ pushed' = IF s = "built" THEN [pushed EXCEPT ![r] = @ \cup {task[a][r].tag}]
                       ELSE pushed
    BY <1>6 DEF BuildEnds
  <2>3. BuiltIsPushed'
    <3>1. /\ task'[a][r].tag = task[a][r].tag /\ task'[a][r].attempt = task[a][r].attempt
          /\ task'[a][r].state = s
      BY <2>1, <2>2 DEF AgentTypes, Task
    <3>2. ASSUME NEW b \in Agents, NEW q \in Runs, b # a \/ q # r
          PROVE  task'[b][q] = task[b][q]
      BY <2>2, <3>2 DEF AgentTypes
    <3>3. /\ \A q \in Runs : pushed[q] \subseteq pushed'[q]
          /\ s = "built" => task[a][r].tag \in pushed'[r]
      BY <2>2 DEF WorldTypes
    <3>4. task[a][r] # NoTask /\ UNCHANGED job
      BY <1>6 DEF BuildEnds
    <3>5. QED
      BY <3>1, <3>2, <3>3, <3>4 DEF BuiltIsPushed
  <2>4. RunInv'
    BY <1>6
    DEF BuildEnds, RunInv, NoLeaseWhileWaiting, TagIsCurrent, SuccessHasImage,
        ActiveRunsHaveAgents, ActiveRuns, WorldTypes, runVars
  <2>5. QED
    BY <1>1, <1>6, <2>3, <2>4 DEF BuildEnds, MarkedInCluster, ClusterHasNoAgent, runVars
<1>7. ASSUME NEW r \in Runs, Result(a, r) PROVE BuildInv'
  <2>1. PICK outcome \in {"succeeded", "failed"} :
          /\ status' = [status EXCEPT ![r] = outcome]
          /\ outcome = "succeeded" => task[a][r] # NoTask /\ task[a][r].state = "built"
          /\ status[r] = outcome
             \/ (status[r] = "running" /\ agentId[r] = a /\ attempt[r] = task[a][r].attempt)
    BY <1>7 DEF Result, ActiveTask, TaskOwnership, AgentTypes, Task
  <2>2. ASSUME outcome = "succeeded", status[r] # "succeeded"
        PROVE  execution[r] = "agent" /\ image[r] = attempt[r] /\ image[r] \in pushed[r]
    BY <2>1, <2>2 DEF ClusterHasNoAgent, BuiltIsPushed, RunInv, TagIsCurrent, RunTypes
  <2>3. RunInv'
    BY <1>7, <2>1, <2>2
    DEF Result, RunInv, NoLeaseWhileWaiting, TagIsCurrent, SuccessHasImage,
        ActiveRunsHaveAgents, ActiveRuns, Active, RunTypes, worldVars
  <2>4. BuiltIsPushed'
    BY <1>7 DEF Result, Forget, BuiltIsPushed, AgentTypes, worldVars
  <2>5. QED
    BY <1>1, <1>7, <2>3, <2>4 DEF Result, MarkedInCluster, ClusterHasNoAgent
<1>8. ASSUME NEW r \in Runs, DropTask(a, r) PROVE BuildInv'
  BY <1>1, <1>8
  DEF DropTask, Forget, MarkedInCluster, ClusterHasNoAgent, BuiltIsPushed, RunInv,
      NoLeaseWhileWaiting, TagIsCurrent, SuccessHasImage, ActiveRunsHaveAgents, ActiveRuns,
      AgentTypes, runVars, worldVars
<1>9. QED
  BY <1>2, <1>3, <1>4, <1>5, <1>6, <1>7, <1>8 DEF AgentStep

(* What an administrator does keeps the invariant.                         *)
LEMMA AdminSafe ==
    ASSUME BuildInv, NEW a \in Agents, AdminStep(a)
    PROVE  BuildInv'
<1> USE BuildConstants DEF BuildInv, TypeInv
<1>1. TypeInv'
  BY AdminTypes
<1>2. ASSUME NEW p \in BOOLEAN, SetPaused(a, p) PROVE BuildInv'
  BY <1>1, <1>2
  DEF SetPaused, MarkedInCluster, ClusterHasNoAgent, BuiltIsPushed, RunInv,
      NoLeaseWhileWaiting, TagIsCurrent, SuccessHasImage, ActiveRunsHaveAgents, ActiveRuns,
      runVars, worldVars
<1>3. CASE Revoke(a)
  <2>1. RunInv'
    BY <1>3
    DEF Revoke, RunInv, NoLeaseWhileWaiting, TagIsCurrent, SuccessHasImage,
        ActiveRunsHaveAgents, ActiveRuns, Active, RunTypes, AgentTypes, worldVars
  <2>2. QED
    BY <1>1, <1>3, <2>1
    DEF Revoke, MarkedInCluster, ClusterHasNoAgent, BuiltIsPushed, worldVars
<1>4. CASE Remove(a)
  <2>1. RunInv'
    BY <1>4
    DEF Remove, Removable, RunInv, NoLeaseWhileWaiting, TagIsCurrent, SuccessHasImage,
        ActiveRunsHaveAgents, ActiveRuns, Active, RunTypes, AgentTypes, worldVars
  <2>2. QED
    BY <1>1, <1>4, <2>1
    DEF Remove, MarkedInCluster, ClusterHasNoAgent, BuiltIsPushed, RunTypes, worldVars
<1>5. QED
  BY <1>2, <1>3, <1>4 DEF AdminStep

(* Users, clocks, the cluster and crashes keep the invariant.              *)
LEMMA EnvironmentSafe ==
    ASSUME BuildInv, Environment
    PROVE  BuildInv'
<1> USE DEF BuildInv, TypeInv
<1>1. TypeInv'
  BY EnvironmentTypes
<1>2. ASSUME NEW r \in Runs,
             CancelDeployment(r) \/ EndDeployment(r) \/ Ages(r) \/ TimeRunsOut(r)
      PROVE  BuildInv'
  <2>1. UNCHANGED <<status, attempt, execution, agentId, lease, image, job, pushed,
                    presence, task, hand>>
    BY <1>2
    DEF CancelDeployment, EndDeployment, Ages, TimeRunsOut, runVars, worldVars, agentVars
  <2>2. QED
    BY <1>1, <2>1
    DEF MarkedInCluster, ClusterHasNoAgent, BuiltIsPushed, RunInv, NoLeaseWhileWaiting,
        TagIsCurrent, SuccessHasImage, ActiveRunsHaveAgents, ActiveRuns
<1>3. ASSUME NEW r \in Runs, LeaseExpires(r) PROVE BuildInv'
  <2>1. RunInv'
    BY <1>3
    DEF LeaseExpires, RunInv, NoLeaseWhileWaiting, TagIsCurrent, SuccessHasImage,
        ActiveRunsHaveAgents, ActiveRuns, Active, RunTypes, worldVars, agentVars
  <2>2. QED
    BY <1>1, <1>3, <2>1
    DEF LeaseExpires, MarkedInCluster, ClusterHasNoAgent, BuiltIsPushed, worldVars, agentVars
<1>4. ASSUME NEW r \in Runs, JobProgress(r) PROVE BuildInv'
  <2>1. BuiltIsPushed'
    BY <1>4 DEF JobProgress, BuiltIsPushed, WorldTypes, agentVars
  <2>2. RunInv'
    BY <1>4
    DEF JobProgress, RunInv, NoLeaseWhileWaiting, TagIsCurrent, SuccessHasImage,
        ActiveRunsHaveAgents, ActiveRuns, WorldTypes, runVars, agentVars
  <2>3. QED
    BY <1>1, <1>4, <2>1, <2>2 DEF JobProgress, MarkedInCluster, ClusterHasNoAgent, runVars
<1>5. ASSUME NEW w \in Workers, Interrupt(w) PROVE BuildInv'
  <2>1. MarkedInCluster'
    BY <1>5, NobodyMarks DEF Interrupt, MarkedInCluster, runVars
  <2>2. QED
    BY <1>1, <1>5, <2>1
    DEF Interrupt, ClusterHasNoAgent, BuiltIsPushed, RunInv, NoLeaseWhileWaiting,
        TagIsCurrent, SuccessHasImage, ActiveRunsHaveAgents, ActiveRuns,
        runVars, worldVars, agentVars
<1>6. QED
  BY <1>2, <1>3, <1>4, <1>5 DEF Environment

(* The initial state satisfies the invariant, and every step keeps it.     *)
THEOREM BuildInvInvariant == Spec => []BuildInv
<1>1. Init => BuildInv
  <2> SUFFICES ASSUME Init PROVE BuildInv
    OBVIOUS
  <2>1. TypeInv
    BY TypeInvInit
  <2>2. MarkedInCluster /\ ClusterHasNoAgent /\ BuiltIsPushed
    BY DEF Init, MarkedInCluster, ClusterHasNoAgent, BuiltIsPushed, NoHand
  <2>3. RunInv
    BY DEF Init, RunInv, NoLeaseWhileWaiting, TagIsCurrent, SuccessHasImage,
           ActiveRunsHaveAgents, ActiveRuns, Active
  <2>4. QED
    BY <2>1, <2>2, <2>3 DEF BuildInv
<1>2. BuildInv /\ [Next]_vars => BuildInv'
  <2> SUFFICES ASSUME BuildInv, [Next]_vars PROVE BuildInv'
    OBVIOUS
  <2>1. ASSUME NEW w \in Workers, WorkerStep(w) \/ WorkerTurn(w) PROVE BuildInv'
    BY <2>1, BuildStepSafe, MaintainSafe, TurnSafe DEF WorkerStep, WorkerTurn
  <2>2. CASE UNCHANGED vars
    <3>1. TypeInv'
      BY <2>2, TypeInvStep DEF BuildInv
    <3>2. QED
      BY <2>2, <3>1
      DEF vars, runVars, worldVars, agentVars, BuildInv, MarkedInCluster, ClusterHasNoAgent,
          BuiltIsPushed, RunInv, NoLeaseWhileWaiting, TagIsCurrent, SuccessHasImage,
          ActiveRunsHaveAgents, ActiveRuns
  <2>3. QED
    BY <2>1, <2>2, AgentSafe, AdminSafe, EnvironmentSafe DEF Next
<1>3. QED
  BY <1>1, <1>2, PTL DEF Spec

(* Whatever is lost, revoked or retried, a build that succeeded has pushed *)
(* the image its row names: the result of a lost attempt never counts.     *)
THEOREM SuccessesHaveImages == Spec => []SuccessHasImage
<1>1. BuildInv => SuccessHasImage
  BY DEF BuildInv, RunInv
<1>2. QED
  BY <1>1, BuildInvInvariant, PTL

(* An attempt is published and executed under its own tag.                 *)
THEOREM TagsAreCurrent == Spec => []TagIsCurrent
<1>1. BuildInv => TagIsCurrent
  BY DEF BuildInv, RunInv
<1>2. QED
  BY <1>1, BuildInvInvariant, PTL

(* No run waits for a server that has been revoked or removed.             *)
THEOREM NoRunIsStranded == Spec => []ActiveRunsHaveAgents
<1>1. BuildInv => ActiveRunsHaveAgents
  BY DEF BuildInv, RunInv
<1>2. QED
  BY <1>1, BuildInvInvariant, PTL

-----------------------------------------------------------------------------
(* Moves: what a step does to the attempt, the place and the view of a run *)

(* A run keeps its attempt, and its place as long as it is active.         *)
Stays(r) ==
    /\ attempt'[r] = attempt[r]
    /\ \/ /\ status'[r] = status[r]
          /\ execution'[r] = execution[r] /\ agentId'[r] \in {agentId[r], NoAgent}
       \/ /\ status[r] \in Active /\ status'[r] \in Active \cup {"succeeded"}
          /\ execution'[r] = execution[r] /\ agentId'[r] = agentId[r]
       \/ status[r] \in Unfinished /\ status'[r] \in {"failed", "canceled"}
       \/ status[r] = "absent" /\ status'[r] = "queued"
(* The first attempt has lost its executor, and the run waits once more.   *)
Requeued(r) ==
    /\ status[r] \in Active /\ status'[r] = "queued"
    /\ lease[r] = "expired"
    /\ attempt[r] = 1 /\ attempt'[r] = 2

(* Without a reservation each run stays, ends or returns to the queue.     *)
LEMMA StepsOfRuns ==
    ASSUME BuildInv, [Next]_vars,
           \A w \in Workers : ~Reserve(w)
    PROVE  \A r \in Runs : Stays(r) \/ Requeued(r)
<1> USE DEF Stays, BuildInv, TypeInv
<1>1. ASSUME UNCHANGED <<status, attempt, execution, agentId>>
      PROVE  \A r \in Runs : Stays(r)
  BY <1>1
<1>2. ASSUME NEW w \in Workers, Reconcile(w)
      PROVE  \A r \in Runs : Stays(r)
  BY <1>2, HandLemma
  DEF Reconcile, InHand, FinishBuildRun, EnsureBuildRun, RunTypes, Active, Unfinished
<1>3. ASSUME NEW w \in Workers, Start(w) \/ Mark(w)
      PROVE  \A r \in Runs : Stays(r)
  BY <1>3, HandLemma
  DEF Start, Mark, InHand, PreparingAttempt, RunTypes, Active
<1>4. ASSUME NEW w \in Workers, MaintainRun(w)
      PROVE  \A r \in Runs : Stays(r) \/ Requeued(r)
  <2>1. hand[w].run \in Runs /\ hand[w].attempt \in Attempt /\ hand[w].status \in Unfinished
    BY <1>4, HandLemma DEF MaintainRun, InHand
  <2>2. CASE UNCHANGED runVars
    BY <2>2, <1>1 DEF runVars
  <2>3. ASSUME NEW outcome \in {"failed", "canceled"},
               status[hand[w].run] \in Unfinished,
               status' = [status EXCEPT ![hand[w].run] = outcome],
               UNCHANGED <<attempt, execution, agentId, lease, image>>
        PROVE  \A r \in Runs : Stays(r)
    BY <2>1, <2>3 DEF RunTypes
  <2>4. ASSUME NEW expired, StillLost(hand[w], expired), LoseRun(hand[w], expired)
        PROVE  \A r \in Runs : Stays(r) \/ Requeued(r)
    <3>1. CASE Retry(hand[w], expired)
      BY <2>1, <2>4, <3>1
      DEF StillLost, LoseRun, Retry, Requeued, RunTypes, RunInv, NoLeaseWhileWaiting,
          Active, Unfinished, Attempt
    <3>2. CASE ~Retry(hand[w], expired)
      BY <2>1, <2>4, <3>2 DEF StillLost, LoseRun, RunTypes
    <3>3. QED
      BY <3>1, <3>2
  <2>5. QED
    BY <1>4, <2>2, <2>3, <2>4, MaintainOutcome
<1>5. ASSUME NEW w \in Workers, NEW q \in Runs, CancelBuild(w, q)
      PROVE  \A r \in Runs : Stays(r)
  BY <1>5 DEF CancelBuild, CancelBuildRun, RunTypes
<1>6. ASSUME NEW a \in Agents, Claim(a)
      PROVE  \A r \in Runs : Stays(r)
  BY <1>6 DEF Claim, RunTypes, Active
<1>7. ASSUME NEW a \in Agents, NEW q \in Runs, Result(a, q)
      PROVE  \A r \in Runs : Stays(r)
  BY <1>7 DEF Result, ActiveTask, RunTypes, Active, Unfinished
<1>8. ASSUME NEW a \in Agents, Revoke(a)
      PROVE  \A r \in Runs : Stays(r)
  BY <1>8 DEF Revoke, ActiveRuns, RunTypes, Active, Unfinished
<1>9. ASSUME NEW a \in Agents, Remove(a)
      PROVE  \A r \in Runs : Stays(r)
  BY <1>9 DEF Remove, RunTypes
<1>10. ASSUME NEW w \in Workers, NEW r \in Runs,
              TakeBuild(w, r) \/ ReadRun(w, r) \/ DeleteJob(w, r)
       PROVE  UNCHANGED <<status, attempt, execution, agentId>>
  BY <1>10 DEF TakeBuild, ReadRun, DeleteJob, runVars
<1>11. ASSUME NEW a \in Agents,
              \/ Seen(a) \/ AgentStops(a) \/ Offline(a) \/ \E p \in BOOLEAN : SetPaused(a, p)
              \/ \E r \in Runs : Heartbeat(a, r) \/ BuildEnds(a, r) \/ DropTask(a, r)
       PROVE  UNCHANGED <<status, attempt, execution, agentId>>
  BY <1>11 DEF Seen, AgentStops, Offline, SetPaused, Heartbeat, BuildEnds, DropTask, runVars
<1>12. ASSUME Environment \/ UNCHANGED vars
       PROVE  UNCHANGED <<status, attempt, execution, agentId>>
  BY <1>12
  DEF Environment, CancelDeployment, EndDeployment, LeaseExpires, TimeRunsOut, Ages,
      JobProgress, Interrupt, vars, runVars
<1>13. ASSUME NEW w \in Workers, WorkerStep(w) \/ WorkerTurn(w)
       PROVE  \A r \in Runs : Stays(r) \/ Requeued(r)
  BY <1>1, <1>2, <1>3, <1>4, <1>5, <1>10, <1>13 DEF WorkerStep, WorkerTurn
<1>14. ASSUME NEW a \in Agents, AgentStep(a) \/ AdminStep(a)
       PROVE  \A r \in Runs : Stays(r)
  BY <1>1, <1>6, <1>7, <1>8, <1>9, <1>11, <1>14 DEF AgentStep, AdminStep
<1>15. QED
  BY <1>1, <1>12, <1>13, <1>14 DEF Next

(* What a reservation is: a queued run gets a server with room, or a place *)
(* in the cluster while there is one.                                      *)
Reserved(q) ==
    /\ status[q] = "queued"
    /\ status' = [status EXCEPT ![q] = "preparing"]
    /\ UNCHANGED attempt
    /\ \/ /\ \E a \in Agents : HasRoom(a) /\ agentId' = [agentId EXCEPT ![q] = a]
          /\ execution[q] = "agent"
          /\ UNCHANGED execution
       \/ /\ ClusterSlot
          /\ execution' = [execution EXCEPT ![q] = "cluster"]
          /\ agentId' = [agentId EXCEPT ![q] = NoAgent]

(* Reserve does that, or leaves the run in the queue.                      *)
LEMMA ReserveStep ==
    ASSUME BuildInv, NEW w \in Workers, Reserve(w)
    PROVE  UNCHANGED <<status, attempt, execution, agentId>> \/ \E q \in Runs : Reserved(q)
<1> DEFINE q == hand[w].run
<1>1. q \in Runs
  BY HandLemma DEF Reserve, InHand, BuildInv, TypeInv
<1>2. CASE status[q] = "queued" /\ Reservable(q)
  <2>1. Reserved(q)
    BY <1>2 DEF Reserve, Reserved, Reservable, LeastOccupied, AgentsWithRoom
  <2>2. QED
    BY <1>1, <2>1
<1>3. CASE ~(status[q] = "queued" /\ Reservable(q))
  BY <1>3 DEF Reserve
<1>4. QED
  BY <1>2, <1>3

(* A step of the build queue is a reservation, or leaves each run in its   *)
(* place, or takes it from there.                                          *)
LEMMA StepKinds ==
    ASSUME BuildInv, [Next]_vars
    PROVE  (\A r \in Runs : Stays(r) \/ Requeued(r)) \/ \E q \in Runs : Reserved(q)
<1>1. CASE \E w \in Workers : Reserve(w)
  BY <1>1, ReserveStep DEF Stays
<1>2. CASE \A w \in Workers : ~Reserve(w)
  BY <1>2, StepsOfRuns
<1>3. QED
  BY <1>1, <1>2

(* A run is attempted again after a dead lease only, whatever a worker saw *)
(* when it read the run: a heartbeat in time saves the attempt.            *)
THEOREM RetriesFollowDeadLeases == Spec => OnlyDeadLeasesRetried
<1>1. BuildInv /\ [Next]_vars
        => [\A r \in Runs : attempt'[r] # attempt[r] => lease[r] = "expired"]_vars
  BY StepKinds DEF Stays, Requeued, Reserved
<1>2. QED
  BY <1>1, BuildInvInvariant, PTL DEF Spec, OnlyDeadLeasesRetried

-----------------------------------------------------------------------------
(* The contract of BuildLifecycle                                          *)

(* A step of the build queue is a step of the contract, or none.           *)
LEMMA LifecycleStep ==
    ASSUME BuildInv, [Next]_vars
    PROVE  [Lifecycle!Next]_RunView
<1> USE DEF Lifecycle!Moves, Lifecycle!Waiting, Lifecycle!Executing, Lifecycle!Ended
<1>1. RunTypes /\ RunTypes' /\ NoLeaseWhileWaiting
  BY TypeInvStep DEF BuildInv, TypeInv, RunInv
<1>2. ASSUME NEW r \in Runs, Stays(r)
      PROVE  RunView'[r] = RunView[r] \/ <<RunView[r], RunView'[r]>> \in Lifecycle!Moves
  <2>1. attempt'[r] = attempt[r] /\ attempt[r] \in {1, 2}
    BY <1>1, <1>2 DEF Stays, RunTypes, Attempt
  <2>2. CASE status'[r] = status[r]
    BY <2>1, <2>2 DEF RunView
  <2>3. CASE status[r] \in Active /\ status'[r] \in Active \cup {"succeeded"}
    BY <2>1, <2>3 DEF RunView, Active, Finished
  <2>4. CASE status[r] \in Unfinished /\ status'[r] \in {"failed", "canceled"}
    BY <2>1, <2>4 DEF RunView, Unfinished, Active, Finished
  <2>5. CASE status[r] = "absent" /\ status'[r] = "queued"
    BY <1>1, <2>1, <2>5 DEF NoLeaseWhileWaiting, RunView, Finished
  <2>6. QED
    BY <1>2, <2>2, <2>3, <2>4, <2>5 DEF Stays
<1>3. ASSUME NEW r \in Runs, Requeued(r)
      PROVE  <<RunView[r], RunView'[r]>> \in Lifecycle!Moves
  BY <1>3 DEF Requeued, RunView, Active, Finished
<1>4. ASSUME NEW q \in Runs, Reserved(q), NEW r \in Runs
      PROVE  RunView'[r] = RunView[r] \/ <<RunView[r], RunView'[r]>> \in Lifecycle!Moves
  BY <1>1, <1>4 DEF Reserved, RunView, RunTypes, Attempt, Finished
<1>5. RunView' \in [Runs -> {"none"} \cup Lifecycle!Waiting \cup Lifecycle!Executing
                              \cup Lifecycle!Ended]
  BY DEF RunView, Finished
<1>6. QED
  BY <1>2, <1>3, <1>4, <1>5, StepKinds DEF Lifecycle!Next

(* The rows of build_runs implement the contract of BuildLifecycle, which  *)
(* the deployment queue relies on: a build waits, executes, is retried at  *)
(* most once and ends exactly once.                                        *)
THEOREM ImplementsLifecycle == Spec => LifecycleSpec
<1>1. Init => Lifecycle!Init
  BY DEF Init, Lifecycle!Init, RunView
<1>2. BuildInv /\ [Next]_vars => [Lifecycle!Next]_RunView
  BY LifecycleStep
<1>3. QED
  BY <1>1, <1>2, BuildInvInvariant, PTL DEF Spec, LifecycleSpec, Lifecycle!Spec

(* A build that has ended stays ended as it did: a late result of a server *)
(* that was given up, or a Job that goes on, changes it no more.           *)
THEOREM EndsForGood ==
    ASSUME NEW r \in Runs, NEW s \in Finished
    PROVE  Spec => [](status[r] = s => [](status[r] = s))
<1>1. ASSUME [Lifecycle!Next]_RunView, status[r] = s PROVE status'[r] = s
  <2>1. RunView[r] = s
    BY <1>1 DEF RunView, Finished
  <2>2. <<s, RunView'[r]>> \notin Lifecycle!Moves
    BY DEF Lifecycle!Moves, Lifecycle!Waiting, Lifecycle!Executing, Finished
  <2>3. RunView'[r] = s
    BY <1>1, <2>1, <2>2 DEF Lifecycle!Next
  <2> QED
    BY <2>3 DEF RunView, Finished
<1>2. [Lifecycle!Next]_RunView /\ status[r] = s => (status[r] = s)'
  BY <1>1
<1> QED
  BY <1>2, ImplementsLifecycle, PTL DEF LifecycleSpec, Lifecycle!Spec

(* A build is retried at most once: a second attempt that executes can     *)
(* only end, however often its lease is lost or its worker dies.           *)
THEOREM RetriedOnce ==
    ASSUME NEW r \in Runs
    PROVE  Spec => [](attempt[r] = 2 /\ status[r] \in Active
                      => [](attempt[r] = 2 /\ status[r] \in Active \cup Finished))
<1> DEFINE Second == attempt[r] = 2 /\ status[r] \in Active \cup Finished
<1>1. ASSUME BuildInv, [Next]_vars, Second PROVE Second'
  <2>1. CASE Stays(r)
    BY <1>1, <2>1 DEF Stays, Active, Unfinished, Finished
  <2>2. ~Requeued(r)
    BY <1>1 DEF Requeued
  <2>3. ASSUME NEW q \in Runs, Reserved(q) PROVE Second'
    <3>1. r # q
      BY <1>1, <2>3 DEF Reserved, Active, Finished
    <3>2. status \in [Runs -> RunStatus]
      BY <1>1 DEF BuildInv, TypeInv, RunTypes
    <3> QED
      BY <1>1, <2>3, <3>1, <3>2 DEF Reserved
  <2> QED
    BY <1>1, <2>1, <2>2, <2>3, StepKinds
<1>2. BuildInv /\ Second /\ [Next]_vars => Second'
  BY <1>1
<1>3. attempt[r] = 2 /\ status[r] \in Active => Second
  OBVIOUS
<1> QED
  BY <1>2, <1>3, BuildInvInvariant, PTL DEF Spec

-----------------------------------------------------------------------------
(* Capacity                                                                *)

(* The runs a server has.                                                  *)
RunsOf(a) == {r \in ActiveRuns : agentId[r] = a}

(* A step keeps the capacities: only a reservation adds a run to a server  *)
(* or to the cluster, and it adds one where there is room for it.          *)
LEMMA CapacityStep ==
    ASSUME BuildInv, BuildInv', WithinCapacity, [Next]_vars
    PROVE  WithinCapacity'
<1> USE BuildConstants DEF WithinCapacity, AgentWithinCapacity, ClusterWithinCapacity
<1>1. ASSUME NEW S \in SUBSET Runs
      PROVE  IsFiniteSet(S) /\ Cardinality(S) \in Nat
  BY FS_Subset, FS_CardinalityType
<1>2. ASSUME NEW S \in SUBSET Runs, NEW T \in SUBSET S
      PROVE  Cardinality(T) <= Cardinality(S)
  BY <1>1, FS_Subset
<1>3. ASSUME NEW S \in SUBSET Runs, NEW q, NEW T \in SUBSET (S \cup {q}), NEW n \in Nat,
             Cardinality(S) < n
      PROVE  Cardinality(T) <= n
  <2>1. IsFiniteSet(S \cup {q}) /\ Cardinality(S \cup {q}) <= Cardinality(S) + 1
    BY <1>1, FS_AddElement
  <2>2. Cardinality(T) <= Cardinality(S \cup {q}) /\ Cardinality(T) \in Nat
    BY <2>1, FS_Subset, FS_CardinalityType
  <2>3. QED
    BY <1>1, <1>3, <2>1, <2>2, FS_CardinalityType
<1>4. /\ \A a \in Agents : RunsOf(a) \in SUBSET Runs /\ Occupancy(a) = Cardinality(RunsOf(a))
      /\ \A a \in Agents : Occupancy(a)' = Cardinality(RunsOf(a)')
      /\ ClusterBuilds \in SUBSET Runs
  BY DEF RunsOf, ActiveRuns, ClusterBuilds, Occupancy
<1>5. /\ \A a \in Agents : AgentMax[a] \in Nat
      /\ MaxBuilds \in Nat
  OBVIOUS
<1>6. CASE \A r \in Runs : Stays(r) \/ Requeued(r)
  <2>1. \A a \in Agents : RunsOf(a)' \subseteq RunsOf(a)
    BY <1>6 DEF Stays, Requeued, RunsOf, ActiveRuns, Active
  <2>2. ClusterBuilds' \subseteq ClusterBuilds
    BY <1>6 DEF Stays, Requeued, ClusterBuilds, ActiveRuns, Active
  <2>3. ASSUME NEW a \in Agents PROVE Occupancy(a)' <= AgentMax[a]
    BY <1>1, <1>2, <1>4, <1>5, <2>1
  <2>4. Cardinality(ClusterBuilds') <= MaxBuilds
    BY <1>1, <1>2, <1>4, <1>5, <2>2
  <2>5. QED
    BY <2>3, <2>4
<1>7. ASSUME NEW q \in Runs, Reserved(q)
      PROVE  WithinCapacity'
  <2>1. RunTypes
    BY DEF BuildInv, TypeInv
  <2>2. CASE /\ \E a \in Agents : HasRoom(a) /\ agentId' = [agentId EXCEPT ![q] = a]
             /\ execution[q] = "agent"
             /\ UNCHANGED execution
    <3>1. PICK b \in Agents : HasRoom(b) /\ agentId' = [agentId EXCEPT ![q] = b]
      BY <2>2
    <3>2. RunsOf(b)' \subseteq RunsOf(b) \cup {q}
      BY <1>7, <2>1, <3>1 DEF Reserved, RunsOf, ActiveRuns, RunTypes
    <3>3. \A a \in Agents \ {b} : RunsOf(a)' \subseteq RunsOf(a)
      BY <1>7, <2>1, <3>1 DEF Reserved, RunsOf, ActiveRuns, RunTypes
    <3>4. ClusterBuilds' \subseteq ClusterBuilds
      BY <1>7, <2>1, <2>2 DEF Reserved, ClusterBuilds, ActiveRuns, RunTypes
    <3>5. Cardinality(RunsOf(b)) < AgentMax[b]
      BY <1>4, <3>1 DEF HasRoom
    <3>6. Occupancy(b)' <= AgentMax[b]
      BY <1>3, <1>4, <1>5, <3>2, <3>5
    <3>7. ASSUME NEW a \in Agents \ {b} PROVE Occupancy(a)' <= AgentMax[a]
      BY <1>1, <1>2, <1>4, <1>5, <3>3
    <3>8. Cardinality(ClusterBuilds') <= MaxBuilds
      BY <1>1, <1>2, <1>4, <1>5, <3>4
    <3>9. QED
      BY <3>6, <3>7, <3>8
  <2>3. CASE /\ ClusterSlot
             /\ execution' = [execution EXCEPT ![q] = "cluster"]
             /\ agentId' = [agentId EXCEPT ![q] = NoAgent]
    <3>1. \A a \in Agents : RunsOf(a)' \subseteq RunsOf(a)
      BY <1>7, <2>1, <2>3 DEF Reserved, RunsOf, ActiveRuns, RunTypes
    <3>2. ClusterBuilds' \subseteq ClusterBuilds \cup {q}
      BY <1>7, <2>1, <2>3 DEF Reserved, ClusterBuilds, ActiveRuns, RunTypes
    <3>3. ASSUME NEW a \in Agents PROVE Occupancy(a)' <= AgentMax[a]
      BY <1>1, <1>2, <1>4, <1>5, <3>1
    <3>4. Cardinality(ClusterBuilds') <= MaxBuilds
      BY <1>3, <1>4, <1>5, <2>3, <3>2 DEF ClusterSlot
    <3>5. QED
      BY <3>3, <3>4
  <2>4. QED
    BY <1>7, <2>2, <2>3 DEF Reserved
<1>8. QED
  BY <1>6, <1>7, StepKinds

(* No server is ever given more runs than it takes at once, and no more    *)
(* run in the cluster than the setting says, those that fall back from the *)
(* servers included, whatever several workers lose, retry or reserve.      *)
THEOREM CapacityKept == Spec => []WithinCapacity
<1>1. Init => WithinCapacity
  <2> SUFFICES ASSUME Init PROVE WithinCapacity
    OBVIOUS
  <2>1. ClusterBuilds = {} /\ \A a \in Agents : {r \in ActiveRuns : agentId[r] = a} = {}
    BY DEF Init, ClusterBuilds, ActiveRuns, Active
  <2>2. QED
    BY <2>1, FS_EmptySet, BuildConstants
    DEF WithinCapacity, AgentWithinCapacity, ClusterWithinCapacity, Occupancy
<1>2. BuildInv /\ BuildInv' /\ WithinCapacity /\ [Next]_vars => WithinCapacity'
  BY CapacityStep
<1>3. QED
  BY <1>1, <1>2, BuildInvInvariant, PTL DEF Spec

=============================================================================
