----------------------------- MODULE UpdateRuns -----------------------------
(***************************************************************************)
(* Platform self-updates.  The API inserts a pending row of update_runs;   *)
(* a worker turns it into a Kubernetes Job, follows the Job, and deletes   *)
(* the Jobs no row knows of.  The Job's pod runs phase after phase, the    *)
(* helm upgrade among them, and its command-line program writes the status *)
(* of the row itself, past the worker: without a guard, on a pool of       *)
(* connections, so that two writes of a phase may arrive in either order.  *)
(*                                                                         *)
(* The three steps of a worker's tick (create, reconcile, reap) are cut    *)
(* where they read something and act on it later.  Two workers exist while *)
(* the worker's Deployment is rolled over, which an update does.           *)
(***************************************************************************)
EXTENDS Naturals, FiniteSets

CONSTANTS
    MaxRuns,      \* bound: rows of update_runs
    Workers,      \* worker processes
    MaxRequests,  \* bound: API requests between their check and their insert
    MaxFaults     \* bound: crashes of workers and failed calls

ASSUME UpdateConstants ==
    /\ MaxRuns \in Nat
    /\ MaxRequests \in Nat
    /\ MaxFaults \in Nat

VARIABLES
    status,    \* update_runs.status, "absent" before the row exists
    linked,    \* is update_runs.job_name set?
    age,       \* 0, 1 past the creation grace, 2 past the timeout
    job,       \* the Kubernetes Job named after the run
    pod,       \* the phase its pod is in
    writes,    \* status writes of the pod on their way to the database
    upgraded,  \* the runs whose target is installed: by their helm upgrade, or already
    checked,   \* API requests that saw no active run and have not inserted yet
    hand,      \* per worker: where it is in its tick, and what it read
    faults     \* crashes and failed calls so far

apiVars == <<checked>>
podVars == <<pod, writes, upgraded>>
vars == <<status, linked, age, job, pod, writes, upgraded, checked, hand, faults>>

-----------------------------------------------------------------------------
(* Types *)

\* The rows in the order of their insertion; 0 where a worker holds none.
Runs == 1..MaxRuns
NoRun == 0

RunStatus == {"absent", "pending", "running", "succeeded", "failed"}
Active == {"pending", "running"}
\* prepare stands for the phases before the upgrade: prepare, the dependencies, helm-plan.
Phase == {"none", "prepare", "failing", "helm-upgrade", "finalize", "ended"}
\* What the pod says of its run.
Report == {"running", "succeeded", "failed"}
JobStatus == {"absent", "active", "succeeded", "failed"}
At == {"create", "submit", "link", "fail", "reconcile", "outcome", "reap", "list", "delete"}

\* What a worker holds between two of its statements: the run it selected, whether
\* that row had a job_name, and the Jobs it knows of or is about to delete.
Hand == [at : At, run : Runs \cup {NoRun}, named : BOOLEAN, jobs : SUBSET Runs]
Fresh(at) == [at |-> at, run |-> NoRun, named |-> FALSE, jobs |-> {}]

TypeOK ==
    /\ status \in [Runs -> RunStatus]
    /\ linked \in [Runs -> BOOLEAN]
    /\ age \in [Runs -> {0, 1, 2}]
    /\ job \in [Runs -> JobStatus]
    /\ pod \in [Runs -> Phase]
    /\ writes \in [Runs -> SUBSET Report]
    /\ upgraded \in SUBSET Runs
    /\ checked \in Nat
    /\ hand \in [Workers -> Hand]
    /\ faults \in Nat

-----------------------------------------------------------------------------
(* Helpers *)

ActiveRuns == {r \in Runs : status[r] \in Active}

\* Mutant: only the API's check keeps updates apart.
NoIndex(r) == TRUE
\* The partial unique index update_runs_single_active.
IndexAllows(r) == ActiveRuns \subseteq {r}

IsNext(r) == {q \in Runs : status[q] = "absent"} = r..MaxRuns

Init ==
    /\ status = [r \in Runs |-> "absent"]
    /\ linked = [r \in Runs |-> FALSE]
    /\ age = [r \in Runs |-> 0]
    /\ job = [r \in Runs |-> "absent"]
    /\ pod = [r \in Runs |-> "none"]
    /\ writes = [r \in Runs |-> {}]
    /\ upgraded = {}
    /\ checked = 0
    /\ hand = [w \in Workers |-> Fresh("create")]
    /\ faults = 0

-----------------------------------------------------------------------------
(* The API *)

\* triggerUpdate and updateSettings of the port pool look for an active run first.
CheckActive ==
    /\ ActiveRuns = {}
    /\ checked < MaxRequests
    /\ checked' = checked + 1
    /\ UNCHANGED <<status, linked, age, job, hand, faults, podVars>>

\* The insert of a pending row: a unique violation answers that a run is active.
Insert(r) ==
    /\ checked > 0
    /\ IsNext(r)
    /\ checked' = checked - 1
    /\ status' = IF IndexAllows(r) THEN [status EXCEPT ![r] = "pending"] ELSE status
    /\ UNCHANGED <<linked, age, job, hand, faults, podVars>>

\* The installed version is the target: a row that has succeeded from the start.
InsertNoop(r) ==
    /\ checked > 0
    /\ IsNext(r)
    /\ checked' = checked - 1
    /\ status' = [status EXCEPT ![r] = "succeeded"]
    /\ upgraded' = upgraded \cup {r}
    /\ UNCHANGED <<linked, age, job, pod, writes, hand, faults>>

-----------------------------------------------------------------------------
(* The worker: create the Job of a pending run *)

Worker(w, at) == hand[w].at = at
GoTo(w, h) == hand' = [hand EXCEPT ![w] = h]

\* createJobsForPendingRuns selects the pending rows without a job.
ReadPending(w) ==
    /\ Worker(w, "create")
    /\ \/ \E r \in Runs :
            /\ status[r] = "pending" /\ ~linked[r]
            /\ GoTo(w, [Fresh("submit") EXCEPT !.run = r])
       \/ /\ \A r \in Runs : status[r] # "pending" \/ linked[r]
          /\ GoTo(w, Fresh("reconcile"))
    /\ UNCHANGED <<status, linked, age, job, podVars, apiVars, faults>>

\* The Job has the run's name: a second one is refused, as AlreadyExists.
SubmitJob(w) ==
    LET r == hand[w].run IN
    /\ Worker(w, "submit")
    /\ IF job[r] = "absent"
       THEN /\ job' = [job EXCEPT ![r] = "active"]
            /\ pod' = [pod EXCEPT ![r] = "prepare"]
            /\ writes' = [writes EXCEPT ![r] = {"running"}]
            /\ GoTo(w, [hand[w] EXCEPT !.at = "link"])
       ELSE /\ GoTo(w, [hand[w] EXCEPT !.at = "fail"])
            /\ UNCHANGED <<job, pod, writes>>
    /\ UNCHANGED <<status, linked, age, upgraded, apiVars, faults>>

\* Any call of createUpdateJob may fail: the template, the registry, the Job.
SubmitFails(w) ==
    /\ Worker(w, "submit")
    /\ GoTo(w, [hand[w] EXCEPT !.at = "fail"])
    /\ UNCHANGED <<status, linked, age, job, podVars, apiVars, faults>>

\* The writes that end createUpdateJob touch a row only while it is pending.
StillPending(r) == status[r] = "pending"

LinkJob(w) ==
    LET r == hand[w].run IN
    /\ Worker(w, "link")
    /\ IF StillPending(r)
       THEN /\ status' = [status EXCEPT ![r] = "running"]
            /\ linked' = [linked EXCEPT ![r] = TRUE]
            /\ age' = [age EXCEPT ![r] = 0]
       ELSE UNCHANGED <<status, linked, age>>
    /\ GoTo(w, Fresh("reconcile"))
    /\ UNCHANGED <<job, podVars, apiVars, faults>>

\* Mutant: a status that the readers of active rows do not know.
RollBackCreate(w) ==
    /\ Worker(w, "fail")
    /\ status' = [status EXCEPT ![hand[w].run] = "rolled_back"]
    /\ GoTo(w, Fresh("reconcile"))
    /\ UNCHANGED <<linked, age, job, podVars, apiVars, faults>>
FailCreate(w) ==
    LET r == hand[w].run IN
    /\ Worker(w, "fail")
    /\ status' = IF StillPending(r) THEN [status EXCEPT ![r] = "failed"] ELSE status
    /\ GoTo(w, Fresh("reconcile"))
    /\ UNCHANGED <<linked, age, job, podVars, apiVars, faults>>

-----------------------------------------------------------------------------
(* The worker: bring the active run up to date with its Job *)

ReadActive(w) ==
    /\ Worker(w, "reconcile")
    /\ \/ \E r \in ActiveRuns :
            GoTo(w, [Fresh("outcome") EXCEPT !.run = r, !.named = linked[r]])
       \/ ActiveRuns = {} /\ GoTo(w, Fresh("reap"))
    /\ UNCHANGED <<status, linked, age, job, podVars, apiVars, faults>>

JobEnded(r) == CASE job[r] = "succeeded" -> "succeeded"
                 [] job[r] \in {"failed", "absent"} -> "failed"
                 [] OTHER -> "none"

\* Mutant: a linked run waits for its Job for as long as it takes.
OutcomeWithoutTimeout(r, named) ==
    IF ~named THEN IF age[r] > 0 THEN "failed" ELSE "none" ELSE JobEnded(r)
\* Mutant: a Job that is gone is taken for one that was cleaned up after its success.
OutcomeForgiving(r, named) ==
    IF named /\ job[r] \in {"absent", "succeeded"} THEN "succeeded"
    ELSE IF age[r] > 0 THEN "failed" ELSE "none"
\* getUpdateRunReconcileOutcome: the grace of a run without a Job, the end of its Job,
\* the timeout.  "none" leaves the row alone.
Outcome(r, named) ==
    IF ~named THEN IF age[r] > 0 THEN "failed" ELSE "none"
    ELSE IF JobEnded(r) = "none" /\ age[r] = 2 THEN "failed"
    ELSE JobEnded(r)

\* reconcileUpdateRun: the Job is read and the row written while it is active.
Reconcile(w) ==
    LET r == hand[w].run
        o == Outcome(r, hand[w].named)
    IN
    /\ Worker(w, "outcome")
    /\ status' = IF o # "none" /\ status[r] \in Active
                 THEN [status EXCEPT ![r] = o] ELSE status
    /\ GoTo(w, Fresh("reap"))
    /\ UNCHANGED <<linked, age, job, podVars, apiVars, faults>>

-----------------------------------------------------------------------------
(* The worker: delete the Jobs no row knows of *)

\* Mutant: the Job of a run that has ended is an orphan.
ActiveJobs == {r \in ActiveRuns : linked[r]}
KnownJobs == {r \in Runs : linked[r]}
ClusterJobs == {r \in Runs : job[r] # "absent"}

ReadKnown(w) ==
    /\ Worker(w, "reap")
    /\ GoTo(w, [Fresh("list") EXCEPT !.jobs = KnownJobs])
    /\ UNCHANGED <<status, linked, age, job, podVars, apiVars, faults>>

ListJobs(w) ==
    /\ Worker(w, "list")
    /\ GoTo(w, [Fresh("delete") EXCEPT !.jobs = ClusterJobs \ hand[w].jobs])
    /\ UNCHANGED <<status, linked, age, job, podVars, apiVars, faults>>

\* The pod of a deleted Job is terminated in the background: see PodKilled.
DeleteJob(w) ==
    /\ Worker(w, "delete")
    /\ \/ \E r \in hand[w].jobs :
            /\ job' = [job EXCEPT ![r] = "absent"]
            /\ GoTo(w, [hand[w] EXCEPT !.jobs = @ \ {r}])
       \/ /\ hand[w].jobs = {}
          /\ GoTo(w, Fresh("create"))
          /\ UNCHANGED job
    /\ UNCHANGED <<status, linked, age, podVars, apiVars, faults>>

-----------------------------------------------------------------------------
(* Faults of a worker *)

\* The process restarts: the next tick starts afresh.
Crash(w) ==
    /\ faults < MaxFaults
    /\ faults' = faults + 1
    /\ hand[w] # Fresh("create")
    /\ GoTo(w, Fresh("create"))
    /\ UNCHANGED <<status, linked, age, job, podVars, apiVars>>

\* A read, a list or a delete that throws ends its step; runSteps goes on to the next.
StepFails(w) ==
    /\ faults < MaxFaults
    /\ faults' = faults + 1
    /\ \/ Worker(w, "create") /\ GoTo(w, Fresh("reconcile"))
       \/ hand[w].at \in {"link", "fail"} /\ GoTo(w, Fresh("reconcile"))
       \/ hand[w].at \in {"reconcile", "outcome"} /\ GoTo(w, Fresh("reap"))
       \/ hand[w].at \in {"reap", "list", "delete"} /\ GoTo(w, Fresh("create"))
    /\ UNCHANGED <<status, linked, age, job, podVars, apiVars>>

-----------------------------------------------------------------------------
(* The Job's pod *)

\* A container of the command-line program ends once closeDb has drained its writes;
\* the helm container writes nothing.
StartUpgrade(r) ==
    /\ pod[r] = "prepare"
    /\ writes[r] = {}
    /\ pod' = [pod EXCEPT ![r] = "helm-upgrade"]
    /\ UNCHANGED <<status, linked, age, job, writes, upgraded, apiVars, hand, faults>>

\* A dependency cannot be installed: the container reports that, with the last of what it
\* reported before, and goes down.
PhaseFails(r) ==
    /\ pod[r] = "prepare"
    /\ pod' = [pod EXCEPT ![r] = "failing"]
    /\ writes' = [writes EXCEPT ![r] = {"running", "failed"}]
    /\ UNCHANGED <<status, linked, age, job, upgraded, apiVars, hand, faults>>

\* The upgrade is done and runFinalize reports each step as running; the last of these
\* reports is still on its way when it finishes the run as succeeded.
Finalize(r) ==
    /\ pod[r] = "helm-upgrade"
    /\ pod' = [pod EXCEPT ![r] = "finalize"]
    /\ upgraded' = upgraded \cup {r}
    /\ writes' = [writes EXCEPT ![r] = {"running", "succeeded"}]
    /\ UNCHANGED <<status, linked, age, job, apiVars, hand, faults>>

EndJob(r, s) == job' = [job EXCEPT ![r] = IF @ = "active" THEN s ELSE @]

PodSucceeds(r) ==
    /\ pod[r] = "finalize"
    /\ writes[r] = {}
    /\ pod' = [pod EXCEPT ![r] = "ended"]
    /\ EndJob(r, "succeeded")
    /\ UNCHANGED <<status, linked, age, writes, upgraded, apiVars, hand, faults>>

\* A container fails (backoffLimit 0), the Job's deadline passes, or the pod is
\* terminated after its Job.  helm --atomic leaves no half upgrade behind.
PodKilled(r) ==
    /\ pod[r] \notin {"none", "ended"}
    /\ pod' = [pod EXCEPT ![r] = "ended"]
    /\ EndJob(r, "failed")
    /\ UNCHANGED <<status, linked, age, writes, upgraded, apiVars, hand, faults>>

\* updateRunStatus: by id, whatever the row's status; only the index can refuse it.
LandWrite(r, s) ==
    /\ s \in writes[r]
    /\ writes' = [writes EXCEPT ![r] = @ \ {s}]
    /\ status' = IF s = "running" /\ ~IndexAllows(r) THEN status
                 ELSE [status EXCEPT ![r] = s]
    /\ UNCHANGED <<linked, age, job, pod, upgraded, apiVars, hand, faults>>

\* A status write that fails is logged, and the phase goes on.
LoseWrite(r, s) ==
    /\ s \in writes[r]
    /\ writes' = [writes EXCEPT ![r] = @ \ {s}]
    /\ UNCHANGED <<status, linked, age, job, pod, upgraded, apiVars, hand, faults>>

\* ttlSecondsAfterFinished.
JobExpires(r) ==
    /\ job[r] \in {"succeeded", "failed"}
    /\ job' = [job EXCEPT ![r] = "absent"]
    /\ UNCHANGED <<status, linked, age, podVars, apiVars, hand, faults>>

\* Time passes for an active run: the two minutes of grace, then the 65 of the timeout.
Ages(r) ==
    /\ status[r] \in Active
    /\ age[r] < 2
    /\ age' = [age EXCEPT ![r] = @ + 1]
    /\ UNCHANGED <<status, linked, job, podVars, apiVars, hand, faults>>

-----------------------------------------------------------------------------
(* Specification *)

ApiStep == CheckActive \/ \E r \in Runs : Insert(r) \/ InsertNoop(r)

WorkerStep(w) ==
    \/ ReadPending(w) \/ SubmitJob(w) \/ SubmitFails(w) \/ LinkJob(w) \/ FailCreate(w)
    \/ ReadActive(w) \/ Reconcile(w)
    \/ ReadKnown(w) \/ ListJobs(w) \/ DeleteJob(w)

PodStep(r) ==
    \/ StartUpgrade(r) \/ PhaseFails(r) \/ Finalize(r)
    \/ PodSucceeds(r) \/ PodKilled(r) \/ JobExpires(r)
    \/ \E s \in Report : LandWrite(r, s) \/ LoseWrite(r, s)

Next ==
    \/ ApiStep
    \/ \E w \in Workers : WorkerStep(w) \/ Crash(w) \/ StepFails(w)
    \/ \E r \in Runs : PodStep(r) \/ Ages(r)

Spec == Init /\ [][Next]_vars

\* The interval job of a worker fires as long as the platform runs, and time passes;
\* nothing is asked of the API's users, of the pods, or of the writes they send.
FairSpec ==
    /\ Spec
    /\ \A w \in Workers : WF_vars(WorkerStep(w))
    /\ \A r \in Runs : WF_vars(Ages(r))

-----------------------------------------------------------------------------
(* Properties *)

\* At most one run is pending or running, whatever the workers, the API's requests
\* and the late writes of a Job do: what migration 0007 promises.
AtMostOneActive == Cardinality(ActiveRuns) <= 1

\* A run that says succeeded had its target installed: its helm upgrade completed,
\* or there was nothing to upgrade.  Neither a reconcile that finds the Job gone,
\* failed or overdue nor a late write may claim it.
SuccessIsEarned == \A r \in Runs : status[r] = "succeeded" => r \in upgraded

\* A Job that is running and whose row names it is not deleted: "delete update Jobs with
\* no DB row" (reaper.ts:10).  It takes two workers to break it: one links its Job after
\* the other has read the names and before that one deletes.
LinkedJobSpared ==
    [][\A r \in Runs : job[r] = "active" /\ linked[r] => job'[r] # "absent"]_vars

\* A Job that its row names while a worker does not reap is never deleted by the reaper of
\* that worker, whatever becomes of the row, and however its ticks overlap with another
\* worker's: the names are read first, the Jobs listed afterwards, and a name stays.
NamedJobSpared ==
    \A w \in Workers, r \in Runs :
        [](linked[r] /\ hand[w].at \notin {"list", "delete"}
           => [](hand[w].at = "delete" => r \notin hand[w].jobs))

\* The rows live by the contract of UpdateLifecycle.
Lifecycle == INSTANCE UpdateLifecycle WITH installed <- upgraded
LifecycleSpec == Lifecycle!Spec

\* Every active run ends, so that the next update can be asked for, however the Job
\* hangs, its writes resurrect the row, or the worker stops halfway.
RunsEnd == \A r \in Runs : (status[r] \in Active) ~> (status[r] \notin Active)

\* A Job whose row does not name it is deleted, or its row gets to name it.
OrphansReaped ==
    \A r \in Runs : (job[r] # "absent" /\ ~linked[r]) ~> (job[r] = "absent" \/ linked[r])

\* An update leaves neither an active row nor a Job that nobody knows of.
NothingStays == RunsEnd /\ OrphansReaped

=============================================================================
