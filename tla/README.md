# A TLA+ model of kubwave

kubwave is a self-hosted PaaS on Kubernetes. Users ask an API for deployments; worker replicas build images, roll
them out and roll canceled ones back; build servers outside the cluster may take builds over; further jobs of the
workers deploy new commits, make previews of pull requests, update the platform, and remove what is left over. This
directory holds TLA+ modules that model the parts of the program where actors meet, TLC configurations that check them
on small instances, and TLAPS proofs of what they keep for instances of any size.

Paths below are relative to `src/apps/backend/src/` unless they start with `src/`.

1. [Inventory](#1-inventory) - the parts of the program and the modules
2. [Runs](#2-runs) - what TLC checks, bounds and fairness
3. [The modules](#3-the-modules) - how each corresponds to the code
4. [What is proved](#4-what-is-proved) - and what is only model-checked
5. [Known limits](#5-known-limits) - where the properties end
6. [Not modelled](#6-not-modelled)

## 1. Inventory

The program is a set of processes around one Postgres database and one Kubernetes cluster:

    console, CLI, MCP --> API (NestJS) --> Postgres <-- worker replicas --> Kubernetes, registry, git forges
                             ^                                                   |
                             +------ build agents (HTTP) ------> registry        +--> build Jobs, update Jobs

Nothing is sent from one process to another except the HTTP calls of the build agents and the webhooks of git forges:
everybody writes rows, and timers of the workers find them. The hard behaviour follows from that: a worker acts on a
snapshot of rows while users, peers and clocks change them, and it may die between any two statements.

| Component | State | Operations | Hard behaviour | Correct when | Modules |
| --- | --- | --- | --- | --- | --- |
| Deployment queue (`modules/deployments/`, `modules/worker/jobs/deployments/`) | `deployments` rows: status, phase, lease, rollback attempts; the manifest in the cluster | enqueue, cancel; claim, snapshot, roll out, promote a built image, roll back | replicas with leases, cancels while a deployer works, crashes, overlapping enqueues | one rollout per service, cap kept, a canceled release leaves no trace, everything ends | `DeploymentLifecycle`, `DeploymentQueue` |
| Build queue (`shared/builds/`, `.../deployments/builds/`) | `build_runs` rows: status, attempt, executor, lease; the Job; tags in the registry | ensure, reserve, start, publish, maintain, cancel, reap | capacity shared by replicas, lost leases and one retry, two timeouts, Jobs that outlive rows | an attempt ends once and by its own executor, capacity kept, everything ends | `BuildLifecycle`, `BuildRuns` |
| Build servers (`modules/build-agents/`) | `build_agents` rows | heartbeat, claim, logs, source, result, pause, revoke, remove | lost answers, late results, a server that vanishes or is revoked in the middle | see above | `BuildRuns`, `BuildAgent` |
| Build agent program (`src/apps/build-agent/`) | builds in memory, their containers, log buffers, the leases it knows of | the loop, the watchdog, the log pump, the stages of a build | all of it runs at once; lost answers, signals, deaths that leave containers | no build outlives its lease, no line is lost in silence, no task stays | `BuildAgent` |
| Auto-deploy: git poll, tag watch (`.../jobs/git-poll/`, `registry-tag-watch/`) | last seen commit or digest, next poll | claim due services, look, filter, enqueue, record | enqueue and record are two transactions; webhooks wake a second poll | the head is deployed, once | `AutoDeploy` |
| Registry prune and collection (`.../jobs/registry/`) | tags and blobs | list, keep, delete; collect | builds push while tags are listed and blobs collected; equal builds share a digest | no needed image is deleted, the disk is given back | `RegistryPrune` |
| Platform self-updates (`modules/platform/updates/`, `.../jobs/updates/`, `src/apps/cli/src/commands/update.ts`) | `update_runs`, update Jobs | trigger, create Job, report, reconcile, reap | Job without row and row without Job, reports that come late and out of order | one update at a time, which ends, and no success that was not earned | `UpdateLifecycle`, `UpdateRuns` |
| PR previews (`.../jobs/pr-preview/`) | preview environments | list, diff, tear down, clone | concurrent sweeps, a cap that is read first, lists that fail or are old | previews follow the open pull requests | `PrPreview` |
| Tenant garbage collection (`.../jobs/deployments/tenant-gc.ts`) | namespaces, workloads, volumes | list, compare, delete, reclaim | services created, deployed and deleted meanwhile | nothing of a live service is deleted, the rest is | `TenantGc` |
| Interval scheduler (`shared/scheduler/`, `shared/worker-common/steps.ts`) | the running flag of each job | a tick per interval, steps that fail alone | a tick longer than its interval or than a lease | no two ticks of a job at once in a process | fairness and step structure of the modules |
| Runtime deployers (`.../deployers/`) | Kubernetes objects of a service | write the manifests, read the rollout | a status that lags behind the manifest | their answer is about the manifest they wrote | `Converge` of `DeploymentQueue`, `Apply` of `TenantGc` |

The rest is listed in section 6. `PROJECT.json` names the hazards line by line, with the properties about them, and the
lines each definition stands for.

How the modules meet. `BuildLifecycle` is the contract of a build: `BuildRuns` implements it and `DeploymentQueue` keeps
it, so the two may be read apart. `DeploymentLifecycle` is the contract of the queue, which `DeploymentQueue` implements;
the other modules see no more of a deployment than that contract says (`Enqueue`, `Claim`, `Cancel` and `End` of
`RegistryPrune`, `Enqueue` of `AutoDeploy`, `Deploy` of `TenantGc`). `BuildRuns` takes from `EveryRowEnds` of
`DeploymentQueue` that a canceling deployment ends, and `DeploymentQueue` takes from `NothingLingers` of `BuildRuns` that
a build does. `UpdateLifecycle` is what an administrator may expect of updates; `UpdateRuns` implements it. `BuildAgent`
shows the inside of a server that `BuildRuns` sees from the queue: its `BuildsHoldTheirLease` is why a retry of a lost
attempt finds no older one at work, unless the process of the server died: its containers stay until it starts again.

## 2. Runs

| Run | Instance | Shows |
| --- | --- | --- |
| `single` | one worker; deployments of app, api, app (app is built), cap 1, two rollback attempts, one fault | `DeployingWithinCap`, `LiveIsAccountedFor`, `LastSuccessServes`, `BuildsByContract`, `TypeOK` |
| `replicas` | two workers that may outlive their leases, two deployments of one service, two open enqueues, one fault | `OneRowPerStage`, `LifecycleSpec` |
| `rows_end` | fair; two deployments of a built service, two rollback attempts, one fault, which may be a failing probe of the registry | `EveryRowEnds` |
| `builds` | fair; one run, a server of capacity 1 that may never answer, fallback on, one worker, one fault, one act of a user or administrator | `SuccessHasImage`, `ActiveRunsHaveAgents`, `OnlyDeadLeasesRetried`, `LifecycleSpec`, `NothingLingers`, `TypeOK` |
| `build_capacity` | two runs, a server of capacity 1, fallback to a cluster of one slot, a prompt worker | `WithinCapacity` |
| `updates` | two updates, two requests at once, one worker, one fault | `AtMostOneActive`, `SuccessIsEarned`, `TypeOK` |
| `update_ends` | fair; one update, two workers, two faults | `NamedJobSpared`, `NothingStays` |
| `auto_deploy` | fair; five commits (the second touches nothing that is watched, the third changes a watched file, the fourth moves it out, the fifth changes a path that git quotes), four pushes or switches, two faults, one worker | `RecordMatchesDeployment`, `NoRetrigger`, `HeadDeployed`, `TypeOK` |
| `tenant_gc` | fair; three services in two environments, one worker, one fault | `LiveWorkloadSpared`, `LiveVolumeSpared`, `ClusterFollows`, `TypeOK` |
| `previews` | fair; two base environments, three pull requests of two repositories, cap 1, one worker, two changes by users, one fault | `OvershootBounded`, `OpenPreviewSpared`, `PreviewsFollow`, `TypeOK` |
| `prune` | fair; two deployments, one built in the cluster and one on a server, whose first attempt has the same digest; keep 1, one worker, one fault | `NeededImageSpared`, `NeededLayersSpared`, `DiskReclaimed`, `TypeOK` |
| `build_agent` | fair; two attempts of one run, the first with two lines, a lease of two units, a buffer of one line, two faults | `BuildsHoldTheirLease`, `LossesReported`, `TasksEnd`, `TypeOK` |

Every property has a mutant in `PROJECT.json`: a plausible mistake in the code under which TLC finds it violated in the
same configuration.

Six further configurations are counterexamples to keep at hand, not runs. In each TLC finds a behaviour of the modelled
code that contradicts a sentence of the repository about itself, or an expectation of its users; section 5 says more.

| Configuration | Instance | Refutes |
| --- | --- | --- |
| `AutoDeploy_moved.cfg` | one worker, no fault | `ChangesDeployed`: commits under the watched paths deploy. A file that moves out of them is listed under its new path only |
| `AutoDeploy_overlap.cfg` | two workers, no fault | `NoRetrigger`: a webhook and a poll cannot deploy twice. They can: the webhook wakes a second worker, with the same copy of the row |
| `UpdateRuns_reaper.cfg` | two workers, no fault | `LinkedJobSpared`: only Jobs without a row are reaped. A Job linked between the reaper's two reads is too |
| `RegistryPrune_orphans.cfg` | no fault | `OrphansReclaimed`: the collector takes the repository of a deleted service. Its tags hold it for ever |
| `RegistryPrune_keep_none.cfg` | keep 0, no fault | `NeededImageSpared`: the running image is kept. With `REGISTRY_PRUNE_KEEP=0`, which is accepted, it is deleted |
| `RegistryPrune_gate.cfg` | built from git, no fault | `GatedOnBuilds`: no collection while builds are in flight. Only deployments of type `dockerfile` are counted |

### Bounds

Constants whose comment says "bound" limit the model, all others are settings of the program. A fault is a crash, a call
that fails or an answer that is lost: one can fall on every step, and the code keeps no count of faults that a second
one could exhaust (rollback attempts and attempts of a build are counted apart). Two are used where one has to hide the
other: an update whose Job is neither linked nor reported, a poll that fails after one whose diff failed, an agent that
loses its leases while it works beside what an earlier death left.

* Deployments. Two of one service are the least for superseding and for a rollback to a previous success; a third row,
  of another service, competes for the cap. A second rollback attempt distinguishes "retry" from "give up". A cap of 1
  is reached by every claim and every promotion.
* Builds. All statements about one run are guarded by that run's row, so its integrity is checked with one run and as
  much interference as fits. Two runs at capacity one reach every comparison of a count with its limit; the reservation
  is one transaction under one lock, so a second worker adds nothing to it. `PromptWorkers` (no lease lapses while the
  worker holds that very run) keeps `build_capacity` small; section 4 proves both capacities without it.
* Updates. Two runs are needed for a late report of the first to meet the second. The reaper's window opens between two
  workers and needs one run.
* Commits. One each that the filter skips, that it deploys, that hides a change by a move and that hides one by a quoted
  path; the branch may go back to any of them.
* Services. Two share an environment, so that it is not empty when one goes; the third has its own.
* Previews. Two sweeps at a cap of one pass it; two pull requests of one repository make a sweep count again; one of
  another repository and environment competes.
* Images. With two deployments and one kept success, one is in the way of the other; the retry has a digest of its own,
  the other tags share one. An instance of three deployments (7.2 million states) has been explored without an error.
* The agent. Two attempts of one run are the least for one to overtake the other and for a build to meet what a death
  left; two faults, for the death and a lost answer after it. A lease of two units is one that the watchdog (one unit
  before the end) cuts and a heartbeat can renew. Two lines through a buffer of one are dropped before, during and after
  a flush. Beyond the run, without liveness, no error in: four lines in a buffer of two (1.2 million states), two
  attempts with three lines (2.2 million), three tasks of two runs without lines (3.8 million), each under two faults.

Deadlock is not checked where everything may be over and done with; in `updates` and `update_ends`, where the workers go
on for ever, it is.

`single`, `updates`, `auto_deploy`, `tenant_gc`, `previews` and `prune` have one worker: in most of them properties are
not true of two, section 5 says which, and in the others (`updates`, `prune`) section 4 proves them for any number. One
worker is the configuration the chart installs
(`src/infra/helm/kubwave/templates/worker/deployment.yaml:14-20`); the modules take any set of workers.

### Fairness

Users, administrators, forges, crashes and failing calls are never fair. What is:

* the steps of a worker's tick or sweep, since the interval timer runs it and each of its calls returns (`WF`);
* clocks: leases that nobody renews expire, timeouts pass, a poll becomes due again;
* Kubernetes: it reports a rollout ready or past its progress deadline, and finishes the deletion of a namespace; a
  transaction ends;
* in `builds`, the reads of a run, a canceled deployment and a leftover Job are strongly fair: a tick reads all of them,
  but the worker of the model is busy in between. A canceling deployment ends (`EveryRowEnds`). Servers are not fair: a
  build ends although its server never says a word;
* in `update_ends`, only the workers and the clock: neither the pod nor its reports ever have to come;
* in `auto_deploy`, only the poll and its interval: webhooks may never come;
* in `prune`, besides the two jobs: a deployment is claimed and ends, and a build that was started ends;
* in `build_agent`, the loop and the pump, which run on timers and whose requests end, and of a build what no hanging
  container can hold up: the watchdog, the timer, the end of an aborted stage, the removal of its containers.

## 3. The modules

One action stands for one transaction, one statement or one call to the outside. A worker holds what it has read in
`hand` (or `rows`, `row`, `sweep`, `collector`) while it goes from one to the next; that copy is what grows stale.

### 3.1 `DeploymentLifecycle`, `DeploymentQueue`

`DeploymentLifecycle` says what the queue promises, with one variable, the status of each row: a row is queued and
supersedes the queued row of its service (`Enqueue`); some queued rows of idle services start together (`Start`); a
queued row is canceled at once, a started one through a rollback (`Cancel`); a rollout or rollback ends once
(`Finish`). `DeploymentQueue` is the program, and implements it (`LifecycleSpec`).

| Code | Actions |
| --- | --- |
| `deployments.service.ts`, enqueue transaction: `created_at` is the time of BEGIN, the advisory lock is waited for after it | `BeginEnqueue`, `CommitEnqueue` |
| `cancelDeployment`: queued rows end, a deploying row becomes canceling | `CancelDeployment` |
| `job.ts`, one tick: the steps claim and reconcile, each of which may fail alone | `step[w]`: claim, select, rows, ... |
| `claim.ts`, one transaction under the deployment lock, `SKIP LOCKED`, limit by cap and batch | `Claim` |
| `reconcile.ts`: a snapshot of the rows held or with a dead lease | `Select`, `TakeRow` |
| `reconcile-one.ts`: take the lease, resolve references, deploy | `TakeRow`, `Unresolvable`, `Build`, `Promote`, `Converge` |
| `outcomes.ts`, guarded by `status = 'deploying'` | `ApplyResult` |
| `cancel.ts`: build run, previous success or teardown, attempts | `CancelBuild`, `Rollback`, `SettleCancel` |
| `builds/service.ts` when the probe for the image fails | `Rebuild` |
| a call that throws; a pod that is replaced | `CallFails`, `Crash` |
| lease timeout; builds; Kubernetes | `LeaseExpires`, `BuildProgress`, `RolloutProgress` |

The state is the columns of `deployments` (status, phase, lockedBy, leaseLive for `locked_at`, rollbackAttempts), what
a build looks like from outside (run, pushed), the manifest each service has in the cluster and its rollout (live,
rollout), and for every worker where it is in its tick, the rows of its snapshot, the row in hand and the deployer's
answer. A worker pod that is replaced has a new id (`WORKER_ID` is the pod's name), so `Crash` leaves the rows with an
owner that is gone.

Abstracted: two deployments never have the same manifest; the recorded image reference, log rows, `attempts` and
`started_at`; the read and the conditional replace of a manifest (`replaceWithRetry`) are one step; services are not
deleted (that is `TenantGc`). `RegistryReliable` says whether the probe for a built image may fail.

### 3.2 `BuildLifecycle`, `BuildRuns`

`BuildLifecycle` is the contract of a run: it waits for capacity, executes, may lose its executor and wait once more,
and ends once.

| Code | Actions |
| --- | --- |
| `builds/service.ts` `runBuildReconcile` for a deploying row | `TakeBuild`, `Reconcile` (with `ensureBuildRun`, `finishBuildRun`) |
| `shared/builds/runs.ts` `reserveBuildRun`, under the capacity lock | `Reserve` |
| start of the Job, or `publishAgentBuild` | `Start` |
| `markClusterBuildStarted` | `Mark` |
| `maintainBuildRuns`: a read, then one guarded statement per run | `ReadRun`, `MaintainRun` |
| `cancel.ts`, `builds/reaper.ts` | `CancelBuild`, `DeleteJob` |
| `build-agents.service.ts` heartbeat, claim, result | `Seen`, `Heartbeat`, `Claim`, `Result` |
| `setPaused`, `revoke`, `remove` | `SetPaused`, `Revoke`, `Remove` |
| `src/apps/build-agent/src/main.ts`, `docker.ts` | `BuildEnds`, `DropTask`, `AgentStops`, `Offline` |
| users, Kubernetes, clocks | `CancelDeployment`, `EndDeployment`, `JobProgress`, `LeaseExpires`, `TimeRunsOut`, `Ages` |
| a worker that dies or whose call fails | `Interrupt` |

The tag an attempt pushes is modelled by the attempt's number, the tag of the deployment by 0; `image_ref` by the tag it
names; the lease token by the attempt it was issued for, since an attempt is claimed at most once. The copy
`maintainBuildRuns` reads has the lease of that time; `renewed` says that a heartbeat has renewed the lease since.

Abstracted: which of several ready runs of a server is claimed first; the architecture of a server (all can build all);
payloads, pinned commits, logs, the build cache, registration codes. A heartbeat renews the tasks of an agent one at a
time, which allows more than the code does. The queue timeout is not shorter than the 90 seconds of the fallback. The
registry answers probes. `AgentMax` and `MaxBuilds` do not change during a run.

### 3.3 `UpdateLifecycle`, `UpdateRuns`

`UpdateLifecycle` is the contract of the rows of `update_runs`, with two variables, their status and which targets are
installed: an update is asked for while none is under way (`Request`), or its target is installed already
(`NothingToDo`); a row is under way, or again, only when no other is (`Run`); it says `succeeded` only once its target is
installed (`Succeed`), and any row may fail (`Fail`), as the Job says so of itself without asking what the row is. It
does not say that a row ends once: a late report may wake it (section 5). `UpdateRuns` is the program. That it implements the contract (`LifecycleSpec`) is proved; TLC found
no violation on the instance of `updates` either, but it is not among the properties of the runs.

The API inserts a pending row; a worker makes it a Kubernetes Job, follows the Job and deletes Jobs no row names; the
Job's pod runs phase after phase and writes the status of the row itself, past the worker, without a guard and on a pool
of connections, so that its writes land in any order or not at all.

| Code | Actions |
| --- | --- |
| `platform-updates.service.ts`: look for an active run, then insert; the partial unique index of migration 0007 | `CheckActive`, `Insert` (`IndexAllows`), `InsertNoop` |
| `updates/create.ts`: pick a pending row, create the Job, link it, or fail the row | `ReadPending`, `SubmitJob`, `SubmitFails`, `LinkJob`, `FailCreate` |
| `updates/reconcile.ts`, `outcome.ts`: grace, end of the Job, timeout | `ReadActive`, `Reconcile` (`Outcome`) |
| `updates/reaper.ts`: names of the rows, Jobs of the cluster, deletes | `ReadKnown`, `ListJobs`, `DeleteJob` |
| `src/apps/cli/src/commands/update.ts`, `lib/progress.ts`, `lib/db.ts` | `StartUpgrade`, `Finalize`, `PodSucceeds`, `LandWrite`, `LoseWrite` |
| `src/apps/cli/src/lib/dependencies.ts`: a phase reports that it failed, and goes down | `PhaseFails`, then `PodKilled` |
| the Job's template: `backoffLimit`, deadline, TTL | `PodKilled`, `JobExpires` |
| the process restarts, a step throws, time passes | `Crash`, `StepFails`, `Ages` |

Abstracted: the phases before the upgrade are one; the helm release, its lock and its rollback are a phase that succeeds
(and makes the run `upgraded`) or fails and leaves nothing, as `--atomic` promises.

### 3.4 `AutoDeploy`

One service whose branch is pushed, reset, reverted or deleted.

| Code | Actions |
| --- | --- |
| `git-poll/claim.ts`: copy the row and put its next poll off, in one transaction | `Claim` |
| `poll.ts`, `ls-remote.ts`, `schedule.ts`: the head, and whether it is new | `Resolve` (`ShouldDeploy`) |
| `poll.ts`, `changed-paths.ts`, `watch-paths.ts`: whether git lists a watched path between the two commits; a diff that fails counts as a change | `Filter` (`Touches`, `Listed`, `Matches`), `FilterFails` |
| `enqueue.ts` | `Enqueue` |
| `poll.ts`, the record of the head | `Record` (`Recorded`) |
| a poll that throws or dies | `PollEnds` |
| `git-installations.service.ts` push, `services.service.ts` `autoDeployColumns`, the interval | `Webhook`, `Switch`, `IntervalOver` |

A commit is a number and `FilesOf` what it holds at each path. `git diff --name-only`, as the code calls it, looks for
renames: a file that is gone and whose content appears at a new path counts as moved, and is listed at the new path alone
(`Moved`, `Listed`); and it prints paths that are not plain ASCII in quotes, which no watched prefix matches (`Quoted`,
`Matches`). Content that git takes for alike is equal in the model, and which of several files with one content has moved
is a choice made once. So a commit that changes what is watched may look as if it did not.

The properties say what the filter does about that. `Reaches(c, d)`: a chain of diffs that list nothing watched leads from
c to d; the recorded commit is always such a d of the newest deployment (`RecordMatchesDeployment`), as is, in the end, the
head (`HeadDeployed`). `Hidden(c, d)`: on the way a watched change was missed; taking it back is the one way to deploy a
commit twice in a row (`NoRetrigger`). `ChangesDeployed` is what the console promises, without these reservations, and
`AutoDeploy_moved.cfg` refutes it. The registry tag watch runs the same protocol with a digest for the head and
without the filter.

### 3.5 `TenantGc`

| Code | Actions |
| --- | --- |
| `reconcile.ts`, `namespaces.ts`, `runtime.service.ts`: rows in flight, their namespace, the claim and the Deployment | `ReadRows`, `EnsureNamespace`, `Apply`, `ApplyRefused`, `ApplyFails` |
| `tenant-gc.ts`: namespaces, services of each, deletion of the namespace or of workloads | `ListNamespaces`, `ReadServices`, `Reap` |
| `tenant-gc.ts` `reclaimReleasedVolumes` | `ListVolumes`, `CheckNamespace`, `CheckServices`, `Reclaim` |
| `services.service.ts`, `environments.service.ts`, `deployments.service.ts` | `CreateService`, `Deploy`, `DeleteService`, `DeleteEnvironment` |
| Kubernetes; an operator who deletes a namespace by mistake | `NamespaceGone`, `OperatorDeletes` |
| a step that fails or a worker that dies | `TickFails` |

The rollouts are in the same tick and before the collector; it is their stale rows that bring back what was deleted.
Volumes are those of a storage class that retains them.

### 3.6 `PrPreview`

| Code | Actions |
| --- | --- |
| `pr-preview/claim.ts`: all due environments; the next claim waits for the sweeps of this one | `Claim` |
| `providers.ts`, `job.ts`: open pull requests of the next repository; one that cannot be listed is skipped | `List`, `ListFails` |
| `diff.ts` | `Diff` (`ToTeardown`, `ToCreate`) |
| `teardown.ts` | `Teardown`, `TeardownFails` |
| `cap.ts`, `clone.ts`: count, then clone in a transaction of its own | `Count`, `Clone` (`IndexesAllow`), `CloneFails` |
| the end of a sweep; a worker that dies | `Done`, `WorkerDies` |
| forge and users | `OpenPr`, `ClosePr`, `TogglePreviews`, `DeletePreview`, `DeleteBase` |

A thread is a worker and an environment: sweeps of one claim run concurrently. `NewId` stands for a UUID: the least id
that no row and no list in hand has. What a clone copies and rewrites (`clone-plan.ts`) is data; a failed teardown is
tried again by the next sweep, as is a clone deferred by the cap.

### 3.7 `RegistryPrune`

The images of one service.

| Code | Actions |
| --- | --- |
| `registry/prune.ts`: rows, tags, digests of the kept tags, one delete after another | `ReadRows`, `List`, `Protect`, `DeleteTag`, `SweepFails` |
| `registry/gc.ts`: the count of builds, mark, sweep | `Gate`, `Mark`, `SweepBlobs`, `CollectFails` |
| deployments and their builds, by their contracts | `Enqueue`, `Claim`, `Cancel`, `Succeed`, `End`, `DeleteService`, `StartBuild` |
| BuildKit and the registry (external): layers, then the manifest | `Upload`, `Push`, `BuildDies` |

A manifest is deleted by its digest and takes every tag of the same content with it. A lost attempt on a server may push
its tag after the next one was published. A first attempt that finds no server falls back to the cluster, with the tag of
the deployment (`FirstTags`), and stays there (`NextTags`). `known`, `listed` and `seen` record what a pass had read, for
the properties; `seen` holds the deployments that the collector rightly takes for over (`TakenForOver`): any that are, and
where it counts the deployments' type, all there are. Their image may be lost if the deployment was in flight, uncounted or
not there yet: `NeededLayersSpared` says that no other layer is. `DiskReclaimed` is about the disk of a service that exists
and of untagged content; what a deleted service leaves is `OrphansReclaimed`, which `RegistryPrune_orphans.cfg` refutes.
A build that is made anew under the tag it had is not modelled.

### 3.8 `BuildAgent`

One server and the API it calls. A task is one attempt of a run; builds are keyed by run (`active`), so that a new
attempt takes the place of an older one.

| Code | Actions |
| --- | --- |
| `main.ts`, the loop: Docker check and orphan removal, heartbeat, settling of each build, claims, end of a turn | `Check`, `Heartbeat`, `SettleCanceled`, `SettleRenewed`, `ResultAccepted`, `ResultFails`, `AllSettled`, `Claim`, `ClaimLost`, `NothingClaimed`, `EndTurn`, `Exit` |
| `main.ts`, the watchdog and the build timer | `Watchdog`, `TimerFires` |
| `main.ts`, log buffer and pump; `build-agents.service.ts` `logs` | `Emit`, `Flush`, `StoreLines`, `RefuseLines`, `Acknowledged`, `FlushLost` |
| `docker.ts` `executeBuild`; the pin of the commit by `source` | `Prepared`, `Pinned`, `Built`, `Breaks`, `RemoveContainers` |
| `shared/builds/runs.ts`, revocation | `Reserve`, `EndRun`, `LeaseLost`, `Revoke` |
| signals, death and restart of the process, time | `Signal`, `Crash`, `Restart`, `Tick` |

Time passes in units of the safety margin of ten seconds. The clocks of server and agent agree, the watchdog, which looks
every second, is never a unit late, and an aborted build has removed its containers within a unit: `Tick` waits for
these. The last is an assumption on Docker: the code waits up to 15 seconds for one of its commands
(`src/apps/build-agent/src/docker.ts:55`), longer than the margin. A line of the log is its sequence number; sequence numbers of a build start at 0 and are kept by the server, which
ignores those it has.

## 4. What is proved

Each component's theorems are in the module `<component>Proofs`, from the named assumptions on its constants alone
(`QueueConstants`, `BuildConstants`, `UpdateConstants`, `AutoDeployConstants`, `TenantGcConstants`,
`PrPreviewConstants`, `RegistryConstants`, `BuildAgentConstants`), which TLC evaluates in each run. They hold for sets
and bounds of any size. Each module proves `TypeCorrect`, that is `Spec => []TypeOK`.

| Module | Theorems | Says |
| --- | --- | --- |
| `DeploymentQueueProofs` | `OneOfEach`, `ImplementsLifecycle`, `ImplementsBuildContract`, `EndsForGood`, `CancelStands` | for any workers, slow ones included: `OneRowPerStage`; the queue implements `DeploymentLifecycle` and keeps `BuildLifecycle`; a row that ended stays as it is; after an accepted cancel it never succeeds |
| | `CapKeptApart`, `LiveRowsApart`, `LastSuccessApart` | `DeployingWithinCap`, `LiveIsAccountedFor`, `LastSuccessServes` under `[]HandsApart` |
| | `LeasesKeepHandsApart`, `TimelyReplicasKeepLeases`; `CapKept`, `LiveRowsAccounted`, `LastSuccessKept`, `LeasesProtectRows`, `TimelyReplicasServe` | what gives `[]HandsApart`, and the three for one worker and for replicas that keep their leases, whatever calls fail |
| `BuildRunsProofs` | `SuccessesHaveImages`, `TagsAreCurrent`, `NoRunIsStranded`, `RetriesFollowDeadLeases`, `CapacityKept`, `ImplementsLifecycle`, `EndsForGood`, `RetriedOnce` | for any workers: `SuccessHasImage`, `TagIsCurrent`, `ActiveRunsHaveAgents`, `OnlyDeadLeasesRetried`, `WithinCapacity`; the queue of builds implements `BuildLifecycle`; a build that ended stays as it is; a second attempt is the last |
| `UpdateRunsProofs` | `OnlyOneActive`, `SuccessEarned`, `ImplementsLifecycle`, `NamedSpared`; `ReapersSpare`, `LoneReaperSpares` | for any workers: `AtMostOneActive`, `SuccessIsEarned`, the contract `UpdateLifecycle`, `NamedJobSpared`; `LinkedJobSpared` under `[]ReapsApart`, hence for one |
| `AutoDeployProofs` | `RecordInStep`, `PollOnce`, `PollOnceThroughFailures`, `CompleteDiffsDeployOnce`; `LeaseKeepsPollsApart`, `LonePollerOnce` | `RecordMatchesDeployment` and `NoRetrigger` under `[]PollsApart`, and what remains of them when polls fail; the same with equal trees and without exception where no diff hides a watched change; what gives `[]PollsApart` |
| `TenantGcProofs` | `VolumesSpared`; `CollectorsSpare`, `LoneCollectorSpares` | `LiveVolumeSpared` for any workers; `LiveWorkloadSpared` under `[]RolloutsKnown`, hence for one |
| `PrPreviewProofs` | `CapByCounts`, `CapSoft`, `LoneSweepKeepsCap`; `SweepsSpare`, `LoneSweeperSpares` | the cap is passed by one less than ever count at once, hence `OvershootBounded` for any workers and no overshoot for one that sweeps one environment; `OpenPreviewSpared` under `[]SweepsApart`, hence for one |
| `RegistryPruneProofs` | `NeededSpared`, `LayersSpared`, `ServingImageLost` | for any workers and types: `NeededImageSpared` where `Keep >= 1`; `NeededLayersSpared`; the image that serves is lost to two races only, a prune that had not read it and a collector that had not seen it |
| `BuildAgentProofs` | `LeaseHeld`, `AttemptsTakeTurns`, `LossesTold` | `BuildsHoldTheirLease`; of the attempts of a run one at most is at work, and none beside one whose result was taken; `LossesReported` |

### What workers must not do to each other

With two workers some properties are false (section 5). Instead of proving them for one worker only, each is proved for
any number under a condition on the steps of different workers, stated as a predicate that must always hold
(`Spec /\ []Condition => []Property`). The condition names the one overlap that does the harm; a lone worker satisfies
it trivially (a corollary each), and without it TLC finds the property violated with two workers.

| Condition | Says | Held by |
| --- | --- | --- |
| `HandsApart` (deployments) | no row is in the snapshots of two replicas at once | one worker, whatever its leases do; or leases that never run out (`LeasesHold`, `LeasesKeepHandsApart`), as those of replicas do of which none is late and none dies while it owns a row in flight (`OwnersLive`, `TimelyReplicasKeepLeases`) |
| `PollsApart` (auto-deploy) | no two workers poll the service at once | one worker; or a next poll time that nobody resets during a poll (`NotWoken`, `LeaseKeepsPollsApart`): a poll is shorter than its interval, so only a webhook and a switch of the setting break it |
| `RolloutsKnown` (tenant collector) | between a worker's read of an environment and its delete, no other rolls out a service of it that the read has not | one worker: its rollouts come before its collection |
| `ReapsApart` (updates) | while a worker reaps, none is between the creation of a Job and its link | one worker: it is in one step at a time |
| `SweepsApart` (previews) | no worker clones into an environment while another holds a list of it that it has not compared | one worker: the next claim waits for the sweeps |

The first also shows how the three properties of the queue depend on each other: the cap needs no more than the
condition; what is live needs `RegistryReliable` besides; which success serves needs `MaxOpenEnqueues <= 1` as well.
`QueueConstants` demands a worker (`Workers # {}`), which the chart installs.

### The arguments

**Deployment queue.** `TypeOK` is not inductive: `rollbackAttempts` grows by one from a worker's *snapshot*, so its bound
needs that no snapshot row has used its last attempt; that holds because rows that have not ended have attempts left and
only such rows are read (`RowInv`, `WorkerInv`). `WorkerInv` also says which answers can be waiting at which step: an
answer of a rollout is never applied to a cancel. `TypeInv` is the conjunction of these parts; there is one lemma per
group of actions. `StatusStep` then reduces every action to what it does to the column `status`: nothing, a move of one
row along an allowed edge, a commit of an enqueue, or a claim, so that `QueueInvStep` and `LifecycleStep` need four cases
instead of nineteen. The key is in the claim: it starts at most one row per service, and only where `Busy` is false, and
nothing but a claim brings a row in flight. No lease is mentioned, which is why these hold with stale workers as well.

Two consequences are drawn from the contract alone, as it bounds how a row may move (`RowMoves`): `EndsForGood` and
`CancelStands`.

The three theorems under `HandsApart` rest on what a worker may believe of the row in hand. `SlotInv`: its row leaves the
build phases only by a promotion, so that an answer of the runtime never makes a row occupy a slot it was not given; a
claim hands out as many slots as `OldestBound` says are free. `HandInv`: the rows of its snapshot stay in flight until
their own turn ends them, and the snapshot of a row that is being canceled stays true; since hands are apart, no step of
a peer is about a row in them (`MovedBy`, `MovedByNobody`). `LiveInv` and `AnswerInv`: the image of what the cluster runs
was pushed, a row in a build phase has no manifest there, and an answer that will end a row as succeeded (or canceled) is
given only while its manifest is (or is not) the live one - the reason why `RegistryReliable` is assumed: a build that
starts again sends a row that is live back into a build phase. `OrderInv`: with one enqueue open at a time rows start in
the order of `created_at`; then what a rollback finds as the previous success is the last one (`ServesInv`).
`OwnerInv` is why leases are enough: a worker owns the lease of every row in its hands, a claim and a snapshot take only
rows whose lease is dead or their own, and `RenewedInv` says that the lease of a row in flight is renewed before it can
run out.

**Build queue.** `TypeInv` adds to the types that a ready run names the tag of an attempt. `BuildInv` adds what the
safety properties rest on: only a run that is executed in the cluster is marked as started there (`MarkedInCluster`), so
a mark that comes late never overwrites the tag of an agent's attempt; a run in the cluster has no server
(`ClusterHasNoAgent`), so a result comes from the server of an agent's run; a Job that succeeded and a task that was built
have pushed their tag, and a task's tag is that of its attempt (`BuiltIsPushed`); a run that waits has no lease to lose
(`NoLeaseWhileWaiting`). `SuccessHasImage` then follows from the comparison of attempts in `TaskOwnership`, and is
inductive only together with `TagIsCurrent`. `StepKinds` reduces every step to what it does to a run: it stays where it
is or ends, returns to the queue after a dead lease, or is given a place. The refinement, the retries and the capacities
are each proved from these three kinds; the sets of the runs of a server and of the cluster only shrink in the first two,
and grow by one where there is room in the third. `EndsForGood` follows from the contract, `RetriedOnce` from
`StepKinds`.

**Updates.** `OneActive` (any two active runs are one) is inductive because whatever makes a run active, an insert or a
late report, passes the unique index; `FewerActive` serves all other steps. `Earned` adds to `SuccessIsEarned` that a
report `succeeded` on its way, a pod in `finalize` and a Job that succeeded belong to an upgraded run. `Begun`: what a
worker, a Job or a pod is about has a row, so that no step of theirs makes one; with `OneActive` and `Earned` every step
is one of `UpdateLifecycle` (`ImplementsLifecycle`) - the late report is the step `Run`, which the index allows only when
no other row is under way. `ReaperKnows`: what a worker read as known Jobs covers what the rows name when it lists, and
what it deletes has no name, as no link lands while it reaps (`ReapsApart`). `Knows`: a Job whose row names it before a
worker reads the names is known to that worker when it lists and is not among those it deletes, whatever others do; a
name is never taken back.

**Auto-deploy.** `InStep`: what a poll has copied is what the row still says, the recorded commit is one that `Reaches`
leads to from the newest deployment, a poll that decides to enqueue has a head to which the last diff does list a watched
path, and the record it will write agrees with what it deployed. So what is enqueued is the newest deployment again only
if a diff on the way had hidden a change (`Hidden`): otherwise the trees would be the same, and the diff empty. It is
inductive without any bound on failures: only a diff that fails (it counts as a change) and a poll that ended between its
enqueue and its record break it, which is `PollOnceThroughFailures`. Where every pair of commits whose watched trees
differ has a listed watched path (`DiffsComplete`), a chain of skipped diffs stays within one tree
(`CompleteDiffsDeployOnce`).

**Tenant collector.** `Created`: a volume was claimed by a service that exists or existed, and what a tick holds is of
services that were created, so that a service that is not yet there has nothing to lose. A volume is reclaimed only after
a look that found the environment without services, and a service that is deleted never returns; hence `VolumesSpared`
needs no assumption on the workers. For workloads, `ReadIsFresh`: every live service with a workload is among those read,
which holds as only rollouts create workloads, and none is of a newer service of the environment (`RolloutsKnown`).

**Previews.** `Within(K)`: where at most K sweeps are between their count and their clone, previews together with those
sweeps are fewer than the cap plus K, as a sweep that counts below the cap is not among the previews yet; `CapSoft` is the
case of all threads. `Spared`: a preview's pull request was open once, ids are
unique among rows and lists in hand, a known pull request missing from a list has been closed, and so has the pull
request of every preview on a list of those to remove.

**Prune.** `KnownKept`: a tag that was known, and whose deployment is needed now, was kept then - a deployment in flight
now was in flight or not there at the read, and what serves now was in flight then or the newest success. `KeptSafe`: the
digests of kept and listed tags are safe. So a needed tag that goes was unknown or unlisted, whichever digest took it.
The collector: `BuiltOnce`, a tag is in one place only of those being built, being uploaded and stored, and the tag of a
success is in neither of the first two, so it cannot be pushed after the mark; `SeenOver`, what the collector has seen
was over, stays so, and is marked if it serves. `ServingImageLost` puts the two action properties together: a deployment
comes to serve by a success alone, which has pulled its image (`ServingStarts`), and of what serves no step takes the tag
or the layers, but a delete of a prune that had not read or listed the tag (`DeletesUnread`) and a sweep of a collector
that had not seen the deployment over (`CollectsUnseen`). TLC reaches the second: a collection marks before the push and
sweeps after the success.

**Agent.** `TypeInv` adds `InFlight`: a flush is of lines that were written. `LeaseInv` holds for each task that a build
at work is in `active`, without a result, its row not given up (`WorkHeld`), that what the process believes of a lease is
never more than the server holds (`ViewHeld`), also in the answer to a heartbeat that it works through (`ReplyHeld`); for
a run, that one attempt at most is not lost (`OneAttempt`); and that tasks are claimed after the containers of older
processes are removed (`CleanFirst`). The delicate step is a claim that replaces an older attempt of the run: by
`OneAttempt` that one is lost, by `WorkHeld` it no longer works; the two also make `AttemptsTakeTurns`. `CountInv` is a
conservation law for lines: of those before the buffer no more are lost than the stored lines tell and the next flush
will tell (`Buffered`), with a flush on the way the buffer has moved by exactly what was dropped since (`OnTheWay`), and
before a stored line all losses are told (`ToldBefore`). The lemmas on `Lost` count the missing elements of an interval
with the theorems of `FiniteSetTheorems`.

### Only model-checked

Liveness is out of the prover's reach: `EveryRowEnds`, `NothingLingers`, `NothingStays`, `HeadDeployed`,
`ClusterFollows`, `PreviewsFollow`, `DiskReclaimed`, `TasksEnd`. Every invariant and every action property that a passing
run checks is proved, as is `NamedJobSpared`, a temporal one; `LinkedJobSpared` and `NoRetrigger`, refuted for two
workers, are proved under their conditions.

## 5. Known limits

What the properties do not say, because the program does otherwise or the models assume otherwise.

Two workers. The comment of the chart calls the worker a singleton
(`src/infra/helm/kubwave/templates/worker/deployment.yaml:14-16`), while `worker.replicas` is a setting, a rolling update
overlaps two, and `src/infra/helm/kubwave/values.yaml:16-17` says that high availability scales it. With two:

* a row of a dead worker may be in both snapshots, and taking its lease (`workflow/reconcile-one.ts:18-21`) does not
  check that it is still expired: the slower one may write the manifest of a deployment that the faster one has rolled
  back, or put a promoted row back into a build phase (`LiveIsAccountedFor`, `LastSuccessServes`, `DeployingWithinCap`);
* the reaper of updates may delete a Job that the other worker created and linked between its two reads
  (`LinkedJobSpared`, `UpdateRuns_reaper.cfg`), although reaper.ts speaks of Jobs without a row;
* a webhook during a poll lets the other worker poll with an older copy, and both deploy the head (`NoRetrigger`,
  `AutoDeploy_overlap.cfg`), although the comment at the webhook (`modules/git/git-installations.service.ts:208`) rules it
  out; or the older poll records a head that is no longer the newest, which hides a later reset to it
  (`RecordMatchesDeployment`, `HeadDeployed`);
* a service that the other worker rolls out while an environment without services is reaped loses its namespace
  (`LiveWorkloadSpared`);
* the lease of a sweep of previews is its next poll time, a minute; an older list of pull requests may remove a preview
  that a newer one made (`OpenPreviewSpared`).

Section 4 names for each the condition under which it cannot happen.

Deployment queue. If the Job is gone and the registry does not answer once, the row goes back to building although its
manifest is in the cluster, and a cancel in that phase does not roll back; hence `RegistryReliable` in `single`. Two
overlapping enqueues may commit in the other order than their `created_at`, and a cancel then does not see the success
that ran just before it; hence one open enqueue in `single`. A queued git deployment carries the configuration the poll
copied, not the one of its enqueue.

Build queue. The Job is created one statement before the run is marked; when the worker dies in between, the slot goes to
another run and two Jobs run where one is allowed: `WithinCapacity` counts rows, not Jobs. The queue timeout counts from
`created_at`, so that a run that was executed for longer and lost its server is requeued and fails at once.

Updates. A report of `running` that lands after the end makes an ended run active again, until the next reconcile; a run
may hence end twice.

Auto-deploy. A poll that dies after its enqueue deploys its head again, and if the branch is reset meanwhile to the
recorded commit, the reset is not seen; `HeadDeployed` excludes such histories (`interrupted`). A commit that moves a file
out of the watched paths, or changes there only files whose paths git quotes, is not deployed
(`.../git-poll/changed-paths.ts:40` has neither `--no-renames` nor `-z`), although the console says that commits under
these paths deploy (`src/apps/console/features/service/settings/build-section.tsx:103`): `AutoDeploy_moved.cfg`. Going
back from it deploys once more what is deployed.

Tenant collector. The claims of a deleted service stay while its environment keeps other services, in spite of the
comment `.../jobs/deployments/tenant-gc.ts:47`; `EmptyLeavesNothing` speaks of empty environments. The teardown of a
canceled first deployment is part of `DeploymentQueue` only.

Previews. The name of a preview is its number and the end of the repository's URL (`.../pr-preview/clone.ts:68`), unique
in a project: of two base environments with one repository only the first gets its preview, and two repositories of one
name are in each other's way. Previews of a repository that no service uses any more, or of an environment whose previews
were switched off, are left alone.

Registry. The prune may delete an image that is published after the rows were read or pushed after the tags were listed,
also by the digest it shares with another; `NeededImageSpared` names that window. It needs `Keep >= 1`: the setting
accepts 0 (`shared/config/worker-env.ts:172`), and then the running image is deleted (`RegistryPrune_keep_none.cfg`). The
collector may take the layers of an image whose deployment was in flight or not there when it looked;
`NeededLayersSpared` names that window, which the code does not claim to close. Its gate counts deployments of type
`dockerfile` only (`.../registry/gc.ts:69`), although git deployments, four of the five built types, push as well: for
them it is no gate (`RegistryPrune_gate.cfg`). The tags of a deleted service are nobody's: the prune reads only rows that join a
service, and leaves the rest to the collector (`.../registry/prune.ts:112`), which keeps what has a tag
(`.../registry/gc.ts:20-21`); their layers stay on the disk (`RegistryPrune_orphans.cfg`). The mark and sweep of the registry are
external.

Agent. Beyond the assumptions on time of section 3.8: a `docker rm` that fails leaves its container until the process
starts anew; when lines in flight are dropped and delivered all the same, more losses are told than happened; a signal
during the claims does not stop them, so that builds start which only the next turn aborts. Requests that reach the
server after a later heartbeat are not modelled, so that a result that was taken is not reported twice.

## 6. Not modelled

| Component | Why |
| --- | --- |
| Service references | resolution is a lookup of one level, without cycles; in `DeploymentQueue` it succeeds or fails (`Unresolvable`) |
| Runtime settings | live constants of the modules; a change at run time is not modelled |
| Volume autoscaling | a decision on one measurement, and a patch that may only grow a claim |
| Platform jobs: CNPG, HA, Prometheus, registry installation | idempotent application of manifests: data, no protocol |
| Version check, template catalog | a periodic fetch and one overwritten value |
| Projects, services and environments beyond creation, deletion and the switches | requests in single statements; pagination and `deleteProject` (the deletion of its environments) |
| Auth, setup, teams, invitations, throttling, MCP server | short request handlers; one-time setup and invitations are candidates for a module |
| Git providers | HTTP clients |
| Registration of a build server | a code exchanged for credentials; when its answer is lost, a new code is needed |
| Kubernetes helpers, templates, crypto, API client | pure builders of manifests, encryption, generated code |
| CLI (but the update Job's phases), console, docs site, chart, build tools | user interfaces and packaging |

Of modelled components: the batch of 10 of a claim of polls or previews, the cap of 32 tasks of a server, payloads, log
rows of deployments, the pinned commit, the promotion of the build cache, and the pages of a forge's answers.
