----------------------------- MODULE BuildRuns -----------------------------
(***************************************************************************)
(* The build queue: the rows of build_runs that workers reserve capacity   *)
(* for, and the two ways they are executed: as a Kubernetes Job, or by an  *)
(* agent on a build server that claims its run over HTTP and keeps it by   *)
(* renewing a lease.                                                       *)
(*                                                                         *)
(* A worker turns to a build from a snapshot of its deployment, and to the *)
(* maintenance of a run from a snapshot of the run; agents, peers, users   *)
(* and clocks act between any two of its statements.  Deployments are seen *)
(* from the outside here (the variable dep); DeploymentQueue has their     *)
(* life.                                                                   *)
(***************************************************************************)
EXTENDS Integers, FiniteSets

CONSTANTS
    Runs,            \* build runs, each named as its deployment
    ExecutionOf,     \* the execution mode saved when the run is queued
    Agents,          \* build servers
    AgentMax,        \* build_agents.max_concurrent_builds
    MaxBuilds,       \* the live setting maxConcurrentBuilds, for Jobs
    Fallback,        \* settings.fallbackToCluster
    Workers,         \* worker replicas
    NoAgent,         \* agent_id is null
    MaxFaults,       \* bound: crashes and lost answers
    MaxActs,         \* bound: cancels of users, and acts of administrators on agents
    PromptWorkers    \* does a run that can move on do so long before its queue timeout?

ASSUME BuildConstants ==
    /\ IsFiniteSet(Runs)
    /\ ExecutionOf \in [Runs -> {"cluster", "agent"}]
    /\ AgentMax \in [Agents -> Nat \ {0}]
    /\ MaxBuilds \in Nat \ {0}
    /\ Fallback \in BOOLEAN
    /\ NoAgent \notin Agents
    /\ MaxFaults \in Nat
    /\ MaxActs \in Nat
    /\ PromptWorkers \in BOOLEAN

VARIABLES
    dep,         \* the deployment: "deploying", "canceling" or "over"
    status,      \* build_runs.status, "absent" before the row exists
    attempt,     \* build_runs.attempt
    execution,   \* build_runs.execution
    agentId,     \* build_runs.agent_id
    lease,       \* build_runs.lease_expires_at: "none", "live" or "expired"
    token,       \* build_runs.lease_token_hash: the attempt it was made for, 0 if null
    timer,       \* build_runs.started_at: "off", "on", or "over" once the timeout passed
    image,       \* build_runs.image_ref: the deployment's tag, or the tag of an attempt
    age,         \* how old build_runs.created_at is
    lastError,   \* did the run fail because of the queue timeout?
    job,         \* the Kubernetes Job of the deployment
    pushed,      \* the tags the registry holds
    presence,    \* per agent: credentials and last_seen_at
    paused,      \* build_agents.paused
    task,        \* per agent and run: the agent's task
    hand,        \* per worker: what it is in the middle of
    faults,      \* crashes and lost answers so far
    acts         \* cancels and acts of administrators so far

\* The columns of one run, and what is around it.
runVars   == <<status, attempt, execution, agentId, lease, token, timer, image, lastError>>
worldVars == <<dep, age, job, pushed>>
agentVars == <<presence, paused, task>>
bounds    == <<faults, acts>>
vars == <<runVars, worldVars, agentVars, hand, bounds>>

-----------------------------------------------------------------------------
(* Values *)

RunStatus == {"absent", "queued", "preparing", "ready", "running",
              "succeeded", "failed", "canceled"}

\* ACTIVE_BUILD_STATES
Active == {"preparing", "ready", "running"}
Unfinished == Active \cup {"queued"}
Finished == {"succeeded", "failed", "canceled"}

Attempt == 1..2
DeploymentTag == 0          \* the tag of attempt k is k
NoTag == 3
Tag == {DeploymentTag} \cup Attempt

\* created_at is 90 seconds old; it is older than the queue timeout, which
\* passed while the run waited for capacity or while it was executed.
Age == {"new", "90s", "overdue waiting", "overdue executing"}
Overdue == {"overdue waiting", "overdue executing"}

JobStatus == {"none", "running", "succeeded", "failed"}
Presence == {"online", "offline", "revoked", "removed"}

Task == [attempt : Attempt, tag : Tag, state : {"building", "built", "broken"}]
NoTask == [attempt |-> 0]

\* A worker's copy of a row, and what it is about to do with it.  A copy is
\* renewed when the run's lease was renewed after it was read.
Hand == [step : {"build", "reserve", "start", "mark"}, run : Runs, attempt : Attempt]
        \cup [step : {"maintain"}, run : Runs, attempt : Attempt,
              status : Unfinished, renewed : BOOLEAN]
NoHand == [step |-> "none"]

-----------------------------------------------------------------------------
(* Queries *)

ActiveRuns == {r \in Runs : status[r] \in Active}
Occupancy(a) == Cardinality({r \in ActiveRuns : agentId[r] = a})
ClusterBuilds == {r \in ActiveRuns : execution[r] = "cluster"}

AgentAvailable(a) == ~paused[a] /\ presence[a] = "online"

\* Mutant: a full server takes one more.
RoomForOneMore(a) == AgentAvailable(a) /\ Occupancy(a) <= AgentMax[a]

HasRoom(a) == AgentAvailable(a) /\ Occupancy(a) < AgentMax[a]

AgentsWithRoom == {a \in Agents : HasRoom(a)}

\* The least occupied of them, in proportion to their capacity.
LeastOccupied ==
    {a \in AgentsWithRoom :
        \A b \in AgentsWithRoom : Occupancy(a) * AgentMax[b] <= Occupancy(b) * AgentMax[a]}

ClusterSlot == Cardinality(ClusterBuilds) < MaxBuilds

FallsBack(r) == attempt[r] = 1 /\ Fallback /\ age[r] # "new"

Reservable(r) ==
    IF execution[r] = "agent" /\ AgentsWithRoom # {} THEN TRUE
    ELSE ClusterSlot /\ (execution[r] = "agent" => FallsBack(r))

\* deploymentActive, and the test of maintainBuildRuns
DeploymentActive(r) == dep[r] = "deploying"

-----------------------------------------------------------------------------

Init ==
    /\ dep = [r \in Runs |-> "deploying"]
    /\ status = [r \in Runs |-> "absent"]
    /\ attempt = [r \in Runs |-> 1]
    /\ execution = ExecutionOf
    /\ agentId = [r \in Runs |-> NoAgent]
    /\ lease = [r \in Runs |-> "none"]
    /\ token = [r \in Runs |-> 0]
    /\ timer = [r \in Runs |-> "off"]
    /\ image = [r \in Runs |-> NoTag]
    /\ age = [r \in Runs |-> "new"]
    /\ lastError = [r \in Runs |-> FALSE]
    /\ job = [r \in Runs |-> "none"]
    /\ pushed = [r \in Runs |-> {}]
    /\ presence = [a \in Agents |-> "offline"]
    /\ paused = [a \in Agents |-> FALSE]
    /\ task = [a \in Agents |-> [r \in Runs |-> NoTask]]
    /\ hand = [w \in Workers |-> NoHand]
    /\ faults = 0
    /\ acts = 0

-----------------------------------------------------------------------------
(* A worker and a build *)

InHand(w, step) == hand[w].step = step
Hold(w, h) == hand' = [hand EXCEPT ![w] = h]
Release(w) == Hold(w, NoHand)
AtStep(w, step) ==
    Hold(w, [step |-> step, run |-> hand[w].run, attempt |-> attempt[hand[w].run]])

(* A row of the worker's snapshot that was deploying, with a build.        *)
TakeBuild(w, r) ==
    /\ hand[w] = NoHand
    /\ dep[r] = "deploying"
    /\ Hold(w, [step |-> "build", run |-> r, attempt |-> attempt[r]])
    /\ UNCHANGED <<runVars, worldVars, agentVars, bounds>>

\* finishBuildRun: guarded by an active status.
FinishBuildRun(r, outcome) ==
    /\ status' = IF status[r] \in Active THEN [status EXCEPT ![r] = outcome] ELSE status
    /\ token' = IF status[r] \in Active THEN [token EXCEPT ![r] = 0] ELSE token

\* ensureBuildRun: insert, or do nothing when the row exists.
EnsureBuildRun(r) ==
    /\ status' = [status EXCEPT ![r] = "queued"]
    /\ UNCHANGED token

(* runBuildReconcile up to what it does next about the build: nothing, the *)
(* end of the run with its Job, a reservation, or (again) the start.       *)
Reconcile(w) ==
    /\ InHand(w, "build")
    /\ LET r == hand[w].run
           external == execution[r] = "agent"
           settled == \/ status[r] \in {"failed", "canceled"}
                      \/ external /\ status[r] \in Active \cup {"succeeded"}
       IN  \/ /\ settled \/ job[r] = "running"
              /\ Release(w)
              /\ UNCHANGED <<status, token>>
           \/ /\ ~settled
              /\ job[r] \in {"succeeded", "failed"}
              /\ FinishBuildRun(r, job[r])
              /\ Release(w)
           \/ /\ ~settled
              /\ job[r] = "none"
              /\ DeploymentTag \in pushed[r]
              /\ Release(w)
              /\ UNCHANGED <<status, token>>
           \/ /\ ~settled
              /\ job[r] = "none"
              /\ DeploymentTag \notin pushed[r]
              /\ \/ status[r] = "absent" /\ EnsureBuildRun(r) /\ AtStep(w, "reserve")
                 \/ /\ status[r] = "queued" /\ AtStep(w, "reserve")
                    /\ UNCHANGED <<status, token>>
                 \/ /\ status[r] \in Active \cup {"succeeded"} /\ AtStep(w, "start")
                    /\ UNCHANGED <<status, token>>
    /\ UNCHANGED <<attempt, execution, agentId, lease, timer, image, lastError,
                   worldVars, agentVars, bounds>>

(* reserveBuildRun, in a transaction under the build capacity lock: an     *)
(* agent with room, else the cluster where the run may go there.           *)
Reserve(w) ==
    /\ InHand(w, "reserve")
    /\ LET r == hand[w].run
           set(f, v) == [f EXCEPT ![r] = v]
       IN  IF status[r] = "queued" /\ Reservable(r)
           THEN /\ status' = set(status, "preparing")
                /\ lease' = set(lease, "live")
                /\ IF execution[r] = "agent" /\ AgentsWithRoom # {}
                   THEN \E a \in LeastOccupied :
                            agentId' = set(agentId, a) /\ UNCHANGED execution
                   ELSE execution' = set(execution, "cluster") /\ agentId' = set(agentId, NoAgent)
                /\ AtStep(w, "start")
           ELSE /\ Release(w)
                /\ UNCHANGED <<status, lease, execution, agentId>>
    /\ UNCHANGED <<attempt, token, timer, image, lastError, worldVars, agentVars, bounds>>

PreparingAttempt(r, k) == status[r] = "preparing" /\ attempt[r] = k

(* startBuild: for the cluster it creates the Job, which may exist; for an *)
(* agent publishAgentBuild stores the task under the tag of its attempt.   *)
Start(w) ==
    /\ InHand(w, "start")
    /\ LET r == hand[w].run
           k == hand[w].attempt
       IN  IF execution[r] = "cluster"
           THEN /\ job' = IF job[r] = "none" THEN [job EXCEPT ![r] = "running"] ELSE job
                /\ AtStep(w, "mark")
                /\ UNCHANGED <<status, image>>
           ELSE /\ IF PreparingAttempt(r, k)
                   THEN /\ status' = [status EXCEPT ![r] = "ready"]
                        /\ image' = [image EXCEPT ![r] = k]
                   ELSE UNCHANGED <<status, image>>
                /\ Release(w)
                /\ UNCHANGED job
    /\ UNCHANGED <<attempt, execution, agentId, lease, token, timer, lastError,
                   dep, age, pushed, agentVars, bounds>>

\* markClusterBuildStarted
Mark(w) ==
    /\ InHand(w, "mark")
    /\ LET r == hand[w].run
           set(f, v) == [f EXCEPT ![r] = v]
       IN  IF status[r] = "preparing"
           THEN /\ status' = set(status, "running")
                /\ image' = set(image, DeploymentTag)
                /\ timer' = set(timer, "on")
                /\ lease' = set(lease, "none")
           ELSE UNCHANGED <<status, image, timer, lease>>
    /\ Release(w)
    /\ UNCHANGED <<attempt, execution, agentId, token, lastError, worldVars, agentVars, bounds>>

-----------------------------------------------------------------------------
(* A worker and the maintenance of a run *)

\* Mutant: the UPDATE is not guarded by the status.
CancelAnyRun(r) ==
    /\ status' = [status EXCEPT ![r] = "canceled"]
    /\ token' = [token EXCEPT ![r] = 0]

\* cancelBuildRun
CancelBuildRun(r) ==
    /\ status' = IF status[r] \in Unfinished THEN [status EXCEPT ![r] = "canceled"] ELSE status
    /\ token' = IF status[r] \in Unfinished THEN [token EXCEPT ![r] = 0] ELSE token

(* maintainBuildRuns reads the unfinished runs.                            *)
ReadRun(w, r) ==
    /\ hand[w] = NoHand
    /\ status[r] \in Unfinished
    /\ Hold(w, [step |-> "maintain", run |-> r, attempt |-> attempt[r], status |-> status[r],
                renewed |-> FALSE])
    /\ UNCHANGED <<runVars, worldVars, agentVars, bounds>>

\* Mutant: a lease that was renewed meanwhile is lost all the same.
SameAttempt(h, expired) == status[h.run] = h.status /\ attempt[h.run] = h.attempt

\* The run is as it was read, and its lease has expired if the copy's has.
StillLost(h, expired) ==
    /\ status[h.run] = h.status
    /\ attempt[h.run] = h.attempt
    /\ expired => lease[h.run] = "expired"

\* A copy of a running run has its started_at.
TimedOut(h) == h.status = "running" /\ timer[h.run] = "over"

\* Mutant: the build timeout is left to the executor.
LeaseIsLost(h, expired) == expired
Lost(h, expired) == expired \/ TimedOut(h)

\* Mutant: a run is retried as often as it loses its lease.
RetryAlways(h, expired) == expired /\ ~TimedOut(h)
Retry(h, expired) == expired /\ ~TimedOut(h) /\ h.attempt < 2

\* The requeueing, or failing, UPDATE.
LoseRun(h, expired) ==
    LET set(f, v) == [f EXCEPT ![h.run] = v]
        again == Retry(h, expired)
    IN  /\ status' = set(status, IF again THEN "queued" ELSE "failed")
        /\ attempt' = set(attempt, IF again THEN h.attempt + 1 ELSE h.attempt)
        /\ agentId' = set(agentId, NoAgent)
        /\ lease' = set(lease, "none")
        /\ token' = set(token, 0)
        /\ timer' = set(timer, "off")
        /\ UNCHANGED <<execution, image, lastError>>

(* ... and settles each: with its deployment, by the queue timeout, or     *)
(* because its lease or its time ran out.  The lease in a renewed copy may *)
(* have passed while the run's has not.                                    *)
MaintainRun(w) ==
    /\ InHand(w, "maintain")
    /\ LET h == hand[w]
           r == h.run
           waitedTooLong == h.status = "queued" /\ age[r] \in Overdue
       IN  \/ /\ dep[r] = "canceling"
              /\ UNCHANGED runVars
           \/ /\ dep[r] = "over"
              /\ CancelBuildRun(r)
              /\ UNCHANGED <<attempt, execution, agentId, lease, timer, image, lastError>>
           \/ /\ DeploymentActive(r)
              /\ waitedTooLong
              /\ IF status[r] = "queued"
                 THEN /\ status' = [status EXCEPT ![r] = "failed"]
                      /\ lastError' = [lastError EXCEPT ![r] = TRUE]
                 ELSE UNCHANGED <<status, lastError>>
              /\ UNCHANGED <<attempt, execution, agentId, lease, token, timer, image>>
           \/ /\ DeploymentActive(r)
              /\ ~waitedTooLong
              /\ \E expired \in (IF h.renewed THEN BOOLEAN ELSE {lease[r] = "expired"}) :
                  IF Lost(h, expired) /\ StillLost(h, expired)
                  THEN LoseRun(h, expired)
                  ELSE UNCHANGED runVars
    /\ Release(w)
    /\ UNCHANGED <<worldVars, agentVars, bounds>>

(* reconcileCanceling cancels the run of its deployment.                   *)
CancelBuild(w, r) ==
    /\ hand[w] = NoHand
    /\ dep[r] = "canceling"
    /\ status[r] \in Unfinished
    /\ CancelBuildRun(r)
    /\ UNCHANGED <<attempt, execution, agentId, lease, timer, image, lastError,
                   worldVars, agentVars, hand, bounds>>

NoLongerBuilt(r) == dep[r] = "over" \/ (dep[r] = "canceling" /\ status[r] = "canceled")

(* deleteBuildArtifactsForDeployment with a cancel, and reapOrphanBuildJobs: *)
(* the Job of a deployment that is over goes.                              *)
DeleteJob(w, r) ==
    /\ hand[w] = NoHand
    /\ NoLongerBuilt(r)
    /\ job[r] # "none"
    /\ job' = [job EXCEPT ![r] = "none"]
    /\ UNCHANGED <<runVars, dep, age, pushed, agentVars, hand, bounds>>

-----------------------------------------------------------------------------
(* An agent *)

Lose(n) == faults + n <= MaxFaults /\ faults' = faults + n

\* Mutant: the attempt and its token are not compared.
OwnsAnyAttempt(a, r) ==
    task[a][r] # NoTask /\ agentId[r] = a /\ token[r] # 0 /\ lease[r] = "live"

\* taskOwnership: the agent's task is the current attempt, with a live lease.
TaskOwnership(a, r) ==
    /\ task[a][r] # NoTask
    /\ agentId[r] = a
    /\ attempt[r] = task[a][r].attempt
    /\ token[r] = task[a][r].attempt
    /\ lease[r] = "live"

\* What every write of an agent asks for.
ActiveTask(a, r) == TaskOwnership(a, r) /\ status[r] = "running" /\ DeploymentActive(r)

Forget(a, r) == task' = [task EXCEPT ![a][r] = NoTask]

(* A heartbeat: the agent is seen.                                         *)
Seen(a) ==
    /\ presence[a] = "offline"
    /\ presence' = [presence EXCEPT ![a] = "online"]
    /\ UNCHANGED <<runVars, worldVars, paused, task, hand, bounds>>

(* A heartbeat, for one of its tasks: the lease is renewed, or the task is *)
(* canceled; the agent drops a canceled task once its build has stopped.   *)
Heartbeat(a, r) ==
    /\ presence[a] = "online"
    /\ task[a][r] # NoTask
    /\ IF ActiveTask(a, r) /\ timer[r] = "on"
       THEN /\ lease' = [lease EXCEPT ![r] = "live"]
            /\ hand' = [w \in Workers |->
                          IF hand[w].step = "maintain" /\ hand[w].run = r
                          THEN [hand[w] EXCEPT !.renewed = TRUE] ELSE hand[w]]
            /\ UNCHANGED task
       ELSE /\ task[a][r].state # "building"
            /\ Forget(a, r)
            /\ UNCHANGED <<lease, hand>>
    /\ UNCHANGED <<status, attempt, execution, agentId, token, timer, image, lastError,
                   worldVars, presence, paused, bounds>>

(* claim, in a transaction under the build capacity lock.  The answer, and *)
(* with it the lease token, may be lost.                                   *)
Claim(a) ==
    /\ AgentAvailable(a)
    /\ Cardinality({q \in Runs : agentId[q] = a /\ status[q] = "running"}) < AgentMax[a]
    /\ \E r \in Runs :
        LET set(f, v) == [f EXCEPT ![r] = v]
        IN  /\ agentId[r] = a /\ status[r] = "ready" /\ lease[r] = "live"
            /\ DeploymentActive(r)
            /\ status' = set(status, "running")
            /\ timer' = set(timer, "on")
            /\ token' = set(token, attempt[r])
            /\ lease' = set(lease, "live")
            /\ \/ /\ task' = [task EXCEPT ![a][r] =
                               [attempt |-> attempt[r], tag |-> image[r], state |-> "building"]]
                  /\ UNCHANGED faults
               \/ /\ Lose(1)
                  /\ UNCHANGED task
    /\ UNCHANGED <<attempt, execution, agentId, image, lastError, dep, age, job, pushed,
                   presence, paused, hand, acts>>

(* executeBuild ends: the image is pushed, or the build broke, timed out   *)
(* or was aborted.                                                         *)
BuildEnds(a, r) ==
    /\ task[a][r] # NoTask
    /\ task[a][r].state = "building"
    /\ \/ /\ task' = [task EXCEPT ![a][r].state = "built"]
          /\ pushed' = [pushed EXCEPT ![r] = @ \cup {task[a][r].tag}]
       \/ /\ task' = [task EXCEPT ![a][r].state = "broken"]
          /\ UNCHANGED pushed
    /\ UNCHANGED <<runVars, dep, age, job, presence, paused, hand, bounds>>

(* result: the end of the run.  The agent drops the task when it hears the *)
(* answer; a repeated result of an ended run is answered the same way.     *)
Result(a, r) ==
    /\ presence[a] = "online"
    /\ task[a][r] # NoTask
    /\ task[a][r].state # "building"
    /\ LET outcome == IF task[a][r].state = "built" THEN "succeeded" ELSE "failed"
           completed == /\ agentId[r] = a /\ status[r] = outcome
                        /\ attempt[r] = task[a][r].attempt
                        /\ token[r] = task[a][r].attempt
       IN  /\ completed \/ ActiveTask(a, r)
           /\ status' = [status EXCEPT ![r] = outcome]
    /\ \/ Forget(a, r) /\ UNCHANGED faults
       \/ Lose(1) /\ UNCHANGED task
    /\ UNCHANGED <<attempt, execution, agentId, lease, token, timer, image, lastError,
                   worldVars, presence, paused, hand, acts>>

(* A stopped build whose lease is over is dropped without an answer.       *)
DropTask(a, r) ==
    /\ task[a][r] # NoTask
    /\ task[a][r].state # "building"
    /\ ~(TaskOwnership(a, r) /\ status[r] = "running")
    /\ Forget(a, r)
    /\ UNCHANGED <<runVars, worldVars, presence, paused, hand, bounds>>

(* The agent's process ends: its tasks are gone and their containers are   *)
(* cleaned up.  It also ends when its credentials are refused.             *)
AgentStops(a) ==
    /\ task[a] # [r \in Runs |-> NoTask]
    /\ IF presence[a] \in {"revoked", "removed"} THEN UNCHANGED faults ELSE Lose(1)
    /\ task' = [task EXCEPT ![a] = [r \in Runs |-> NoTask]]
    /\ UNCHANGED <<runVars, worldVars, presence, paused, hand, acts>>

-----------------------------------------------------------------------------
(* Administrators *)

\* A bounded act of an administrator or a user.
Act == acts < MaxActs /\ acts' = acts + 1

\* update
SetPaused(a, p) ==
    /\ Act
    /\ presence[a] \in {"online", "offline"}
    /\ paused' = [paused EXCEPT ![a] = p]
    /\ UNCHANGED <<runVars, worldVars, presence, task, hand, faults>>

(* revoke, under the build capacity lock: the runs of the agent fail.      *)
Revoke(a) ==
    /\ Act
    /\ presence[a] # "removed"
    /\ presence' = [presence EXCEPT ![a] = "revoked"]
    /\ LET failing == {r \in ActiveRuns : agentId[r] = a}
       IN  /\ status' = [r \in Runs |-> IF r \in failing THEN "failed" ELSE status[r]]
           /\ token' = [r \in Runs |-> IF r \in failing THEN 0 ELSE token[r]]
    /\ UNCHANGED <<attempt, execution, agentId, lease, timer, image, lastError,
                   worldVars, paused, task, hand, faults>>

\* Mutant: only what the agent executes right now is looked at.
NotRunningOn(a) == \A r \in Runs : agentId[r] = a => status[r] # "running"

Removable(a) == \A r \in Runs : agentId[r] = a => status[r] \notin Active

(* remove, under the build capacity lock; agent_id is set to null.         *)
Remove(a) ==
    /\ Act
    /\ presence[a] # "removed"
    /\ Removable(a)
    /\ presence' = [presence EXCEPT ![a] = "removed"]
    /\ agentId' = [r \in Runs |-> IF agentId[r] = a THEN NoAgent ELSE agentId[r]]
    /\ UNCHANGED <<status, attempt, execution, lease, token, timer, image, lastError,
                   worldVars, paused, task, hand, faults>>

-----------------------------------------------------------------------------
(* Deployments, clocks and the cluster *)

(* The user cancels the deployment.                                        *)
CancelDeployment(r) ==
    /\ Act
    /\ dep[r] = "deploying"
    /\ dep' = [dep EXCEPT ![r] = "canceling"]
    /\ UNCHANGED <<runVars, age, job, pushed, agentVars, hand, faults>>

(* The deployment ends: rolled out or failed, or rolled back.  A success   *)
(* needs an image, a failure may come at any time.                         *)
EndDeployment(r) ==
    /\ dep[r] # "over"
    /\ dep' = [dep EXCEPT ![r] = "over"]
    /\ UNCHANGED <<runVars, age, job, pushed, agentVars, hand, bounds>>

\* 90 seconds pass without a heartbeat.
Offline(a) ==
    /\ presence[a] = "online"
    /\ presence' = [presence EXCEPT ![a] = "offline"]
    /\ UNCHANGED <<runVars, worldVars, paused, task, hand, bounds>>

LeaseExpires(r) ==
    /\ status[r] \in Active
    /\ lease[r] = "live"
    /\ PromptWorkers => \A w \in Workers : hand[w] # NoHand => hand[w].run # r
    /\ lease' = [lease EXCEPT ![r] = "expired"]
    /\ UNCHANGED <<status, attempt, execution, agentId, token, timer, image, lastError,
                   worldVars, agentVars, hand, bounds>>

TimeRunsOut(r) ==
    /\ status[r] = "running"
    /\ timer[r] = "on"
    /\ timer' = [timer EXCEPT ![r] = "over"]
    /\ UNCHANGED <<status, attempt, execution, agentId, lease, token, image, lastError,
                   worldVars, agentVars, hand, bounds>>

(* created_at gets older.  The queue timeout is not below 90 seconds here; *)
(* without the fallback the first 90 seconds tell nothing apart.           *)
Ages(r) ==
    /\ status[r] \in Unfinished
    /\ \/ age[r] = "new" /\ Fallback /\ age' = [age EXCEPT ![r] = "90s"]
       \/ /\ age[r] = IF Fallback THEN "90s" ELSE "new"
          /\ \/ status[r] = "running" /\ age' = [age EXCEPT ![r] = "overdue executing"]
             \/ /\ status[r] # "running"
                /\ PromptWorkers => status[r] = "queued" /\ ~Reservable(r)
                /\ age' = [age EXCEPT ![r] = "overdue waiting"]
    /\ UNCHANGED <<runVars, dep, job, pushed, agentVars, hand, bounds>>

(* The Job succeeds, which pushes the image, or fails (a deadline is a     *)
(* failure), and is deleted some time after.                               *)
JobProgress(r) ==
    /\ \/ /\ job[r] = "running"
          /\ job' = [job EXCEPT ![r] = "succeeded"]
          /\ pushed' = [pushed EXCEPT ![r] = @ \cup {DeploymentTag}]
       \/ /\ job[r] = "running"
          /\ job' = [job EXCEPT ![r] = "failed"]
          /\ UNCHANGED pushed
       \/ /\ job[r] \in {"succeeded", "failed"}
          /\ job' = [job EXCEPT ![r] = "none"]
          /\ UNCHANGED pushed
    /\ UNCHANGED <<runVars, dep, age, agentVars, hand, bounds>>

(* A worker dies, or a call of it fails: what it was doing is forgotten.   *)
Interrupt(w) ==
    /\ hand[w] # NoHand
    /\ Lose(1)
    /\ Release(w)
    /\ UNCHANGED <<runVars, worldVars, agentVars, acts>>

-----------------------------------------------------------------------------

WorkerStep(w) ==
    \/ Reconcile(w) \/ Reserve(w) \/ Start(w) \/ Mark(w) \/ MaintainRun(w)

WorkerTurn(w) ==
    \E r \in Runs : TakeBuild(w, r) \/ ReadRun(w, r) \/ CancelBuild(w, r) \/ DeleteJob(w, r)

AgentStep(a) ==
    \/ Seen(a) \/ Claim(a) \/ AgentStops(a) \/ Offline(a)
    \/ \E r \in Runs : Heartbeat(a, r) \/ BuildEnds(a, r) \/ Result(a, r) \/ DropTask(a, r)

AdminStep(a) == Revoke(a) \/ Remove(a) \/ \E p \in BOOLEAN : SetPaused(a, p)

Environment ==
    \/ \E r \in Runs : \/ CancelDeployment(r) \/ EndDeployment(r) \/ LeaseExpires(r)
                       \/ TimeRunsOut(r) \/ Ages(r) \/ JobProgress(r)
    \/ \E w \in Workers : Interrupt(w)

Next ==
    \/ \E w \in Workers : WorkerStep(w) \/ WorkerTurn(w)
    \/ \E a \in Agents : AgentStep(a) \/ AdminStep(a)
    \/ Environment

Spec == Init /\ [][Next]_vars

(* A worker's tick reads every unfinished run, canceled deployment and Job *)
(* (hence strong fairness: it is busy in between), timeouts pass, leases   *)
(* that nobody renews expire, and a canceled deployment ends (EveryRowEnds *)
(* of DeploymentQueue).  Agents and users need not act.                    *)
Fairness ==
    /\ \A w \in Workers : WF_vars(WorkerStep(w))
    /\ \A r \in Runs :
        /\ SF_vars(\E w \in Workers : ReadRun(w, r))
        /\ SF_vars(\E w \in Workers : CancelBuild(w, r))
        /\ SF_vars(\E w \in Workers : DeleteJob(w, r))
        /\ WF_vars(dep[r] = "canceling" /\ EndDeployment(r))
        /\ WF_vars(status[r] # "running" /\ LeaseExpires(r))
        /\ WF_vars(TimeRunsOut(r))
        /\ WF_vars(Ages(r))

FairSpec == Spec /\ Fairness

-----------------------------------------------------------------------------
(* Properties *)

(* Every variable holds a value the code can store there.                  *)
TypeOK ==
    /\ dep \in [Runs -> {"deploying", "canceling", "over"}]
    /\ status \in [Runs -> RunStatus]
    /\ attempt \in [Runs -> Attempt]
    /\ execution \in [Runs -> {"cluster", "agent"}]
    /\ agentId \in [Runs -> Agents \cup {NoAgent}]
    /\ lease \in [Runs -> {"none", "live", "expired"}]
    /\ token \in [Runs -> {0} \cup Attempt]
    /\ timer \in [Runs -> {"off", "on", "over"}]
    /\ image \in [Runs -> Tag \cup {NoTag}]
    /\ age \in [Runs -> Age]
    /\ lastError \in [Runs -> BOOLEAN]
    /\ job \in [Runs -> JobStatus]
    /\ pushed \in [Runs -> SUBSET Tag]
    /\ presence \in [Agents -> Presence]
    /\ paused \in [Agents -> BOOLEAN]
    /\ task \in [Agents -> [Runs -> Task \cup {NoTask}]]
    /\ hand \in [Workers -> Hand \cup {NoHand}]
    /\ faults \in 0..MaxFaults
    /\ acts \in 0..MaxActs

(* A build server is never given more runs than its capacity, whatever     *)
(* reservations, lost leases and retries of two workers do.                *)
AgentWithinCapacity == \A a \in Agents : Occupancy(a) <= AgentMax[a]

(* Runs that are executed in the cluster never exceed the setting: the     *)
(* fallback of runs meant for agents counts like any other.                *)
ClusterWithinCapacity == Cardinality(ClusterBuilds) <= MaxBuilds

(* No server and no cluster works on more builds than it may.              *)
WithinCapacity == AgentWithinCapacity /\ ClusterWithinCapacity

(* A run that succeeded has an image in the registry under the tag its row *)
(* names: for an agent the one of the current attempt, so a late result of *)
(* a lost attempt never passes for it.                                     *)
SuccessHasImage ==
    \A r \in Runs : status[r] = "succeeded" =>
        IF execution[r] = "cluster" THEN DeploymentTag \in pushed[r]
        ELSE image[r] = attempt[r] /\ image[r] \in pushed[r]

(* Each attempt is executed under its own tag: a worker that prepared a    *)
(* lost attempt does not publish it as the next one.                       *)
TagIsCurrent ==
    \A r \in Runs : execution[r] = "agent" /\ status[r] \in {"ready", "running"} =>
        image[r] = attempt[r]

(* A run that waits for an agent has one that can still come for it: it is *)
(* neither revoked nor removed.                                            *)
ActiveRunsHaveAgents ==
    \A r \in ActiveRuns : execution[r] = "agent" =>
        agentId[r] \in Agents /\ presence[agentId[r]] \in {"online", "offline"}

(* An executor loses its run only with its lease: a heartbeat that arrives *)
(* between a worker's look at the run and its UPDATE saves the run.        *)
OnlyDeadLeasesRetried ==
    [][\A r \in Runs : attempt'[r] # attempt[r] => lease[r] = "expired"]_vars

(* The rows live by the contract of BuildLifecycle: one retry, one end.    *)
RunView ==
    [r \in Runs |->
        IF status[r] = "absent" THEN "none"
        ELSE IF status[r] \in Finished THEN status[r]
        ELSE IF status[r] = "queued" THEN (IF attempt[r] = 1 THEN "queued" ELSE "queued2")
        ELSE IF attempt[r] = 1 THEN "active" ELSE "active2"]
Lifecycle == INSTANCE BuildLifecycle WITH run <- RunView
LifecycleSpec == Lifecycle!Spec

(* Every queued or executed run ends, with agents that vanish, workers     *)
(* that die and answers that are lost.                                     *)
BuildsEnd == \A r \in Runs : status[r] \in Unfinished ~> status[r] \in Finished

(* The Job of a deployment that is over does not stay in the cluster, even *)
(* when a slow worker creates it after the end.                            *)
JobsReaped == \A r \in Runs : dep[r] = "over" /\ job[r] # "none" ~> job[r] = "none"

(* Whatever is started ends: the run, and the Job it leaves behind.        *)
NothingLingers == BuildsEnd /\ JobsReaped

=============================================================================
