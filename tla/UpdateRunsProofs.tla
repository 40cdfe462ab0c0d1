-------------------------- MODULE UpdateRunsProofs --------------------------
(***************************************************************************)
(* What holds of UpdateRuns for any number of runs, workers, requests and  *)
(* faults; and, for a single worker, why its reaper spares linked Jobs.    *)
(***************************************************************************)
EXTENDS UpdateRuns, FiniteSetTheorems, TLAPS

-----------------------------------------------------------------------------
(* Types *)

LEMMA TypeInit == Init => TypeOK
BY UpdateConstants DEF Init, TypeOK, Hand, At, Fresh, RunStatus, Phase, JobStatus, NoRun

LEMMA TypeApi == TypeOK /\ ApiStep => TypeOK'
BY DEF TypeOK, ApiStep, CheckActive, Insert, InsertNoop, RunStatus, podVars

LEMMA FreshIsHand ==
    ASSUME NEW at \in At
    PROVE  Fresh(at) \in Hand
BY DEF Fresh, Hand, NoRun

LEMMA TypeWorker ==
    ASSUME TypeOK, NEW w \in Workers, WorkerStep(w) \/ Crash(w) \/ StepFails(w)
    PROVE  TypeOK'
<1> USE DEF TypeOK
<1> DEFINE h == hand[w]
<1>0. h \in Hand
  OBVIOUS
<1>1. CASE ReadPending(w)
  <2>1. hand' \in [Workers -> Hand]
    <3>1. ASSUME NEW r \in Runs, GoTo(w, [Fresh("submit") EXCEPT !.run = r])
          PROVE  hand' \in [Workers -> Hand]
      BY <3>1 DEF GoTo, Fresh, Hand, At
    <3>2. CASE GoTo(w, Fresh("reconcile"))
      BY <3>2, FreshIsHand DEF GoTo, At
    <3> QED  BY <1>1, <3>1, <3>2 DEF ReadPending
  <2> QED  BY <1>1, <2>1 DEF ReadPending, podVars, apiVars
<1>2. CASE SubmitJob(w)
  <2>1. hand' \in [Workers -> Hand]
    BY <1>0, <1>2 DEF SubmitJob, GoTo, Hand, At
  <2>2. job' \in [Runs -> JobStatus] /\ pod' \in [Runs -> Phase]
        /\ writes' \in [Runs -> SUBSET Report]
    BY <1>2 DEF SubmitJob, JobStatus, Phase, Report
  <2> QED  BY <1>2, <2>1, <2>2 DEF SubmitJob, apiVars
<1>3. CASE SubmitFails(w)
  BY <1>0, <1>3 DEF SubmitFails, GoTo, Hand, At, podVars, apiVars
<1>4. CASE LinkJob(w)
  <2>1. status' \in [Runs -> RunStatus] /\ linked' \in [Runs -> BOOLEAN] /\ age' \in [Runs -> {0, 1, 2}]
    <3>1. CASE /\ status' = [status EXCEPT ![h.run] = "running"]
               /\ linked' = [linked EXCEPT ![h.run] = TRUE]
               /\ age' = [age EXCEPT ![h.run] = 0]
      <4>1. status' \in [Runs -> RunStatus]
        BY <3>1 DEF RunStatus
      <4>2. linked' \in [Runs -> BOOLEAN]
        BY <3>1
      <4>3. age' \in [Runs -> {0, 1, 2}]
        BY <3>1
      <4> QED  BY <4>1, <4>2, <4>3
    <3>2. CASE UNCHANGED <<status, linked, age>>
      BY <3>2
    <3> QED  BY <1>4, <3>1, <3>2 DEF LinkJob
  <2>2. hand' \in [Workers -> Hand]
    BY <1>4, FreshIsHand DEF LinkJob, GoTo, At
  <2> QED  BY <1>4, <2>1, <2>2 DEF LinkJob, podVars, apiVars
<1>5. CASE FailCreate(w)
  BY <1>5, FreshIsHand DEF FailCreate, GoTo, At, RunStatus, podVars, apiVars
<1>6. CASE ReadActive(w)
  <2>1. hand' \in [Workers -> Hand]
    <3>1. ASSUME NEW r \in Runs,
                 GoTo(w, [Fresh("outcome") EXCEPT !.run = r, !.named = linked[r]])
          PROVE  hand' \in [Workers -> Hand]
      BY <3>1 DEF GoTo, Fresh, Hand, At
    <3>2. CASE GoTo(w, Fresh("reap"))
      BY <3>2, FreshIsHand DEF GoTo, At
    <3> QED  BY <1>6, <3>1, <3>2 DEF ReadActive, ActiveRuns
  <2> QED  BY <1>6, <2>1 DEF ReadActive, podVars, apiVars
<1>7. CASE Reconcile(w)
  <2>1. Outcome(h.run, h.named) \in {"none", "failed", "succeeded"}
    BY <1>0 DEF Outcome, JobEnded, Hand
  <2> QED  BY <1>7, <2>1, FreshIsHand DEF Reconcile, GoTo, At, RunStatus, podVars, apiVars
<1>8. CASE ReadKnown(w)
  BY <1>8 DEF ReadKnown, KnownJobs, GoTo, Fresh, Hand, At, NoRun, podVars, apiVars
<1>9. CASE ListJobs(w)
  BY <1>9 DEF ListJobs, ClusterJobs, GoTo, Fresh, Hand, At, NoRun, podVars, apiVars
<1>10. CASE DeleteJob(w)
  <2>1. hand' \in [Workers -> Hand]
    BY <1>0, <1>10, FreshIsHand DEF DeleteJob, GoTo, Hand, At
  <2>2. job' \in [Runs -> JobStatus]
    BY <1>10 DEF DeleteJob, JobStatus
  <2> QED  BY <1>10, <2>1, <2>2 DEF DeleteJob, podVars, apiVars
<1>11. CASE Crash(w)
  BY <1>11, FreshIsHand DEF Crash, GoTo, At, podVars, apiVars
<1>12. CASE StepFails(w)
  BY <1>12, FreshIsHand DEF StepFails, GoTo, At, podVars, apiVars
<1> QED
  BY <1>1, <1>2, <1>3, <1>4, <1>5, <1>6, <1>7, <1>8, <1>9, <1>10, <1>11, <1>12
  DEF WorkerStep

LEMMA TypePod ==
    ASSUME TypeOK, NEW r \in Runs, PodStep(r) \/ Ages(r)
    PROVE  TypeOK'
<1> USE DEF TypeOK
<1>1. CASE StartUpgrade(r)
  BY <1>1 DEF StartUpgrade, Phase, apiVars
<1>2. CASE PhaseFails(r) \/ Finalize(r)
  BY <1>2 DEF PhaseFails, Finalize, Phase, Report, apiVars
<1>3. CASE PodSucceeds(r) \/ PodKilled(r)
  BY <1>3 DEF PodSucceeds, PodKilled, EndJob, Phase, JobStatus, apiVars
<1>4. CASE JobExpires(r)
  BY <1>4 DEF JobExpires, JobStatus, podVars, apiVars
<1>5. ASSUME NEW s \in Report, LandWrite(r, s) \/ LoseWrite(r, s)
      PROVE  TypeOK'
  BY <1>5 DEF Report, LandWrite, LoseWrite, RunStatus, apiVars
<1>6. CASE Ages(r)
  BY <1>6 DEF Ages, podVars, apiVars
<1> QED  BY <1>1, <1>2, <1>3, <1>4, <1>5, <1>6 DEF PodStep

LEMMA TypeStep == TypeOK /\ [Next]_vars => TypeOK'
<1>1. TypeOK /\ UNCHANGED vars => TypeOK'
  BY DEF TypeOK, vars
<1> QED  BY <1>1, TypeApi, TypeWorker, TypePod DEF Next

\* Every variable keeps its type, for all values of the constants.
THEOREM TypeCorrect == Spec => []TypeOK
BY TypeInit, TypeStep, PTL DEF Spec

-----------------------------------------------------------------------------
(* At most one active run *)

OneActive == \A q, r \in ActiveRuns : q = r

\* A step that makes no row active keeps the invariant.
LEMMA FewerActive ==
    ASSUME OneActive, ActiveRuns' \subseteq ActiveRuns
    PROVE  OneActive'
BY DEF OneActive

LEMMA OneActiveStep ==
    ASSUME TypeOK, OneActive, [Next]_vars
    PROVE  OneActive'
<1> USE DEF TypeOK
<1>1. CASE UNCHANGED status
  BY <1>1 DEF OneActive, ActiveRuns
<1>2. ASSUME NEW r \in Runs, Insert(r)
      PROVE  OneActive'
  <2>1. CASE IndexAllows(r)
    BY <1>2, <2>1 DEF Insert, IndexAllows, OneActive, ActiveRuns
  <2>2. CASE ~IndexAllows(r)
    BY <1>1, <1>2, <2>2 DEF Insert
  <2> QED  BY <2>1, <2>2
<1>3. ASSUME NEW r \in Runs, InsertNoop(r)
      PROVE  OneActive'
  BY <1>3, FewerActive DEF InsertNoop, ActiveRuns, Active
<1>4. ASSUME NEW w \in Workers, LinkJob(w) \/ FailCreate(w) \/ Reconcile(w)
      PROVE  OneActive'
  <2>1. hand[w].run \in Runs => ActiveRuns' \subseteq ActiveRuns
    <3>1. CASE LinkJob(w)
      BY <3>1 DEF LinkJob, StillPending, ActiveRuns, Active
    <3>2. CASE FailCreate(w)
      BY <3>2 DEF FailCreate, StillPending, ActiveRuns, Active
    <3>3. CASE Reconcile(w)
      BY <3>3 DEF Reconcile, Outcome, JobEnded, ActiveRuns, Active
    <3> QED  BY <1>4, <3>1, <3>2, <3>3
  <2>2. hand[w].run \notin Runs => status' = status
    BY <1>4 DEF LinkJob, FailCreate, Reconcile
  <2> QED  BY <1>1, <2>1, <2>2, FewerActive
<1>5. ASSUME NEW r \in Runs, NEW s \in Report, LandWrite(r, s)
      PROVE  OneActive'
  <2>1. CASE s \in {"succeeded", "failed"}
    BY <1>5, <2>1, FewerActive DEF LandWrite, ActiveRuns, Active
  <2>2. CASE s = "running" /\ IndexAllows(r)
    BY <1>5, <2>2 DEF LandWrite, IndexAllows, OneActive, ActiveRuns
  <2>3. CASE s = "running" /\ ~IndexAllows(r)
    BY <1>1, <1>5, <2>3 DEF LandWrite
  <2> QED  BY <2>1, <2>2, <2>3 DEF Report
<1>6. ASSUME NEW w \in Workers, WorkerStep(w) \/ Crash(w) \/ StepFails(w)
      PROVE  UNCHANGED status \/ LinkJob(w) \/ FailCreate(w) \/ Reconcile(w)
  BY <1>6 DEF WorkerStep, ReadPending, SubmitJob, SubmitFails, ReadActive, ReadKnown, ListJobs,
              DeleteJob, Crash, StepFails
<1>7. ASSUME NEW r \in Runs, PodStep(r) \/ Ages(r)
      PROVE  UNCHANGED status \/ \E s \in Report : LandWrite(r, s)
  BY <1>7 DEF PodStep, StartUpgrade, PhaseFails, Finalize, PodSucceeds, PodKilled, JobExpires, LoseWrite, Ages
<1>8. CheckActive => UNCHANGED status
  BY DEF CheckActive
<1> QED  BY <1>1, <1>2, <1>3, <1>4, <1>5, <1>6, <1>7, <1>8 DEF Next, ApiStep, vars

LEMMA OneActiveInvariant == Spec => []OneActive
<1>1. Init => OneActive
  BY DEF Init, OneActive, ActiveRuns, Active
<1>2. TypeOK /\ OneActive /\ [Next]_vars => OneActive'
  BY OneActiveStep
<1> QED  BY <1>1, <1>2, TypeCorrect, PTL DEF Spec

\* At most one run is pending or running, for any number of requests, workers and late writes.
THEOREM OnlyOneActive == Spec => []AtMostOneActive
<1>1. OneActive => AtMostOneActive
  <2> SUFFICES ASSUME OneActive PROVE Cardinality(ActiveRuns) <= 1
    BY DEF AtMostOneActive
  <2>1. CASE ActiveRuns = {}
    BY <2>1, FS_EmptySet
  <2>2. ASSUME NEW r \in ActiveRuns
        PROVE  Cardinality(ActiveRuns) <= 1
    <3>1. ActiveRuns = {r}
      BY <2>2 DEF OneActive
    <3> QED  BY <3>1, FS_Singleton
  <2> QED  BY <2>1, <2>2
<1> QED  BY <1>1, OneActiveInvariant, PTL

-----------------------------------------------------------------------------
(* Success is earned *)

\* Everything a claim of success can come from: the row, the Job, its finalize phase, and
\* a write on its way.
Earned ==
    \A r \in Runs :
        \/ status[r] = "succeeded" \/ job[r] = "succeeded"
        \/ pod[r] = "finalize" \/ "succeeded" \in writes[r]
        => r \in upgraded

LEMMA EarnedWorker ==
    ASSUME TypeOK, Earned, NEW w \in Workers, WorkerStep(w) \/ Crash(w) \/ StepFails(w)
    PROVE  Earned'
<1> USE DEF TypeOK, Earned
<1>1. CASE SubmitJob(w)
  <2>1. upgraded' = upgraded /\ status' = status
    BY <1>1 DEF SubmitJob
  <2>2. ASSUME NEW r \in Runs
        PROVE  /\ job'[r] \in {job[r], "active"} /\ pod'[r] \in {pod[r], "prepare"}
               /\ writes'[r] \in {writes[r], {"running"}}
    BY <1>1 DEF SubmitJob
  <2> QED  BY <2>1, <2>2
<1>2. CASE LinkJob(w) \/ FailCreate(w)
  BY <1>2 DEF LinkJob, FailCreate, podVars
<1>3. CASE Reconcile(w)
  <2>1. Outcome(hand[w].run, hand[w].named) = "succeeded" => job[hand[w].run] = "succeeded"
    BY DEF Outcome, JobEnded
  <2> QED  BY <1>3, <2>1 DEF Reconcile, podVars
<1>4. CASE DeleteJob(w)
  BY <1>4 DEF DeleteJob, podVars
<1>5. CASE ~(SubmitJob(w) \/ LinkJob(w) \/ FailCreate(w) \/ Reconcile(w) \/ DeleteJob(w))
  <2>1. UNCHANGED <<status, job, podVars>>
    BY <1>5 DEF WorkerStep, ReadPending, SubmitFails, ReadActive, ReadKnown, ListJobs, Crash,
                StepFails
  <2> QED  BY <2>1 DEF podVars
<1> QED  BY <1>1, <1>2, <1>3, <1>4, <1>5

LEMMA EarnedPod ==
    ASSUME TypeOK, Earned, NEW r \in Runs, PodStep(r) \/ Ages(r)
    PROVE  Earned'
<1> USE DEF TypeOK, Earned
<1>1. CASE StartUpgrade(r) \/ PhaseFails(r) \/ Finalize(r)
  BY <1>1 DEF StartUpgrade, PhaseFails, Finalize
<1>2. CASE PodSucceeds(r) \/ PodKilled(r)
  BY <1>2 DEF PodSucceeds, PodKilled, EndJob
<1>3. CASE JobExpires(r) \/ Ages(r)
  BY <1>3 DEF JobExpires, Ages, podVars
<1>4. ASSUME NEW s \in Report, LandWrite(r, s) \/ LoseWrite(r, s)
      PROVE  Earned'
  BY <1>4 DEF LandWrite, LoseWrite
<1> QED  BY <1>1, <1>2, <1>3, <1>4 DEF PodStep

LEMMA EarnedInvariant == Spec => []Earned
<1>1. Init => Earned
  BY DEF Init, Earned
<1>2. TypeOK /\ Earned /\ ApiStep => Earned'
  BY DEF TypeOK, Earned, ApiStep, CheckActive, Insert, InsertNoop, podVars
<1>3. Earned /\ UNCHANGED vars => Earned'
  BY DEF Earned, vars
<1>4. TypeOK /\ Earned /\ [Next]_vars => Earned'
  BY <1>2, <1>3, EarnedWorker, EarnedPod DEF Next
<1> QED  BY <1>1, <1>4, TypeCorrect, PTL DEF Spec

\* A run that says succeeded has had its target installed, for all values of the constants.
THEOREM SuccessEarned == Spec => []SuccessIsEarned
<1>1. Earned => SuccessIsEarned
  BY DEF Earned, SuccessIsEarned
<1> QED  BY <1>1, EarnedInvariant, PTL

-----------------------------------------------------------------------------
(* The contract of UpdateLifecycle *)

\* What is done for a run is done after its row was inserted.
Begun ==
    /\ \A r \in Runs : pod[r] # "none" \/ writes[r] # {} => status[r] # "absent"
    /\ \A w \in Workers : hand[w].at \in {"submit", "link", "fail", "outcome"}
                         => hand[w].run \in Runs /\ status[hand[w].run] # "absent"

\* No row goes away.
LEMMA RowsStay ==
    ASSUME TypeOK, Begun, [Next]_vars, NEW r \in Runs, status[r] # "absent"
    PROVE  status'[r] # "absent"
<1> USE DEF TypeOK
<1>1. ASSUME NEW q \in Runs, Insert(q) \/ InsertNoop(q) PROVE status'[r] # "absent"
  BY <1>1 DEF Insert, InsertNoop
<1>2. ASSUME NEW w \in Workers, WorkerStep(w) \/ Crash(w) \/ StepFails(w)
      PROVE  status'[r] # "absent"
  <2>1. CASE LinkJob(w) \/ FailCreate(w)
    BY <2>1 DEF LinkJob, FailCreate
  <2>2. CASE Reconcile(w)
    <3>1. Outcome(hand[w].run, hand[w].named) # "absent"
      BY DEF Outcome, JobEnded
    <3> QED  BY <2>2, <3>1 DEF Reconcile
  <2>3. CASE ~(LinkJob(w) \/ FailCreate(w) \/ Reconcile(w))
    BY <1>2, <2>3 DEF WorkerStep, ReadPending, SubmitJob, SubmitFails, ReadActive, ReadKnown,
       ListJobs, DeleteJob, Crash, StepFails
  <2> QED  BY <2>1, <2>2, <2>3
<1>3. ASSUME NEW q \in Runs, PodStep(q) \/ Ages(q) PROVE status'[r] # "absent"
  BY <1>3 DEF PodStep, StartUpgrade, PhaseFails, Finalize, PodSucceeds, PodKilled, JobExpires,
     LandWrite, LoseWrite, Report, Ages
<1>4. CheckActive \/ UNCHANGED vars => status'[r] # "absent"
  BY DEF CheckActive, vars
<1> QED  BY <1>1, <1>2, <1>3, <1>4 DEF Next, ApiStep

LEMMA BegunStep ==
    ASSUME TypeOK, Begun, [Next]_vars
    PROVE  Begun'
<1> USE DEF TypeOK
<1>1. ASSUME NEW r \in Runs, pod'[r] # "none" \/ writes'[r] # {}
      PROVE  status[r] # "absent"
  <2>1. ASSUME NEW w \in Workers, SubmitJob(w) PROVE status[r] # "absent"
    BY <1>1, <2>1 DEF SubmitJob, Worker, Begun
  <2>2. ASSUME NEW w \in Workers, WorkerStep(w) \/ Crash(w) \/ StepFails(w), ~SubmitJob(w)
        PROVE  status[r] # "absent"
    <3>1. UNCHANGED <<pod, writes>>
      BY <2>2 DEF WorkerStep, ReadPending, SubmitFails, LinkJob, FailCreate, ReadActive,
         Reconcile, ReadKnown, ListJobs, DeleteJob, Crash, StepFails, podVars
    <3> QED  BY <1>1, <3>1 DEF Begun
  <2>3. ASSUME NEW q \in Runs, PodStep(q) \/ Ages(q) PROVE status[r] # "absent"
    <3>1. (pod'[r] # "none" \/ writes'[r] # {}) => (pod[r] # "none" \/ writes[r] # {})
      <4>1. CASE StartUpgrade(q) \/ PhaseFails(q) \/ Finalize(q) \/ PodSucceeds(q) \/ PodKilled(q)
        BY <4>1 DEF StartUpgrade, PhaseFails, Finalize, PodSucceeds, PodKilled
      <4>2. CASE JobExpires(q) \/ Ages(q)
        BY <4>2 DEF JobExpires, Ages, podVars
      <4>3. CASE \E t \in Report : LandWrite(q, t) \/ LoseWrite(q, t)
        BY <4>3 DEF LandWrite, LoseWrite
      <4> QED  BY <2>3, <4>1, <4>2, <4>3 DEF PodStep
    <3> QED  BY <1>1, <3>1 DEF Begun
  <2>4. CASE ApiStep \/ UNCHANGED vars
    <3>1. UNCHANGED <<pod, writes>>
      BY <2>4 DEF ApiStep, CheckActive, Insert, InsertNoop, vars, podVars
    <3> QED  BY <1>1, <3>1 DEF Begun
  <2> QED  BY <2>1, <2>2, <2>3, <2>4 DEF Next
<1>2. ASSUME NEW v \in Workers, hand'[v].at \in {"submit", "link", "fail", "outcome"}
      PROVE  hand'[v].run \in Runs /\ status[hand'[v].run] # "absent"
  <2>1. CASE hand'[v] = hand[v]
    BY <1>2, <2>1 DEF Begun
  <2>2. CASE ReadPending(v)
    <3>1. ASSUME NEW r \in Runs, status[r] = "pending",
                 GoTo(v, [Fresh("submit") EXCEPT !.run = r])
          PROVE  hand'[v].run = r
      BY <3>1 DEF GoTo, Fresh
    <3>2. CASE GoTo(v, Fresh("reconcile"))
      BY <1>2, <3>2 DEF GoTo, Fresh
    <3> QED  BY <2>2, <3>1, <3>2 DEF ReadPending
  <2>3. CASE ReadActive(v)
    <3>1. ASSUME NEW r \in ActiveRuns,
                 GoTo(v, [Fresh("outcome") EXCEPT !.run = r, !.named = linked[r]])
          PROVE  hand'[v].run = r
      BY <3>1 DEF GoTo, Fresh
    <3>2. CASE GoTo(v, Fresh("reap"))
      BY <1>2, <3>2 DEF GoTo, Fresh
    <3> QED  BY <2>3, <3>1, <3>2 DEF ReadActive, ActiveRuns, Active
  <2>4. CASE SubmitJob(v) \/ SubmitFails(v)
    <3>1. hand[v].at = "submit" /\ hand[v] \in Hand
      BY <2>4 DEF SubmitJob, SubmitFails, Worker
    <3>2. hand'[v].run = hand[v].run
      BY <2>4, <3>1 DEF SubmitJob, SubmitFails, GoTo, Hand
    <3> QED  BY <3>1, <3>2 DEF Begun
  <2>5. CASE LinkJob(v) \/ FailCreate(v) \/ Reconcile(v) \/ Crash(v) \/ StepFails(v)
    <3>1. hand'[v].at \notin {"submit", "link", "fail", "outcome"}
      BY <2>5 DEF LinkJob, FailCreate, Reconcile, Crash, StepFails, GoTo, Fresh
    <3> QED  BY <1>2, <3>1
  <2>6. CASE ReadKnown(v) \/ ListJobs(v)
    <3>1. hand'[v].at \notin {"submit", "link", "fail", "outcome"}
      BY <2>6 DEF ReadKnown, ListJobs, GoTo, Fresh
    <3> QED  BY <1>2, <3>1
  <2>7. CASE DeleteJob(v)
    <3>1. hand'[v].at \in {"delete", "create"}
      BY <2>7 DEF DeleteJob, Worker, GoTo, Fresh, Hand
    <3> QED  BY <1>2, <3>1
  <2>8. ASSUME NEW w \in Workers, w # v, WorkerStep(w) \/ Crash(w) \/ StepFails(w)
        PROVE  hand'[v] = hand[v]
    BY <2>8 DEF WorkerStep, ReadPending, SubmitJob, SubmitFails, LinkJob, FailCreate, ReadActive,
       Reconcile, ReadKnown, ListJobs, DeleteJob, Crash, StepFails, GoTo
  <2>9. CASE ApiStep \/ UNCHANGED vars \/ \E q \in Runs : PodStep(q) \/ Ages(q)
    BY <2>9, <2>1 DEF ApiStep, CheckActive, Insert, InsertNoop, PodStep, StartUpgrade, PhaseFails,
       Finalize, PodSucceeds, PodKilled, JobExpires, LandWrite, LoseWrite, Ages, vars
  <2> QED  BY <2>1, <2>2, <2>3, <2>4, <2>5, <2>6, <2>7, <2>8, <2>9 DEF Next, WorkerStep
<1> QED  BY <1>1, <1>2, RowsStay DEF Begun

\* A step of the program is a step of the contract, or none of its business.
LEMMA LifecycleStep ==
    ASSUME TypeOK, Begun, OneActive, Earned, [Next]_vars
    PROVE  [Lifecycle!Next]_<<status, upgraded>>
<1> USE DEF TypeOK
<1>a. Lifecycle!UnderWay = ActiveRuns
  BY DEF Lifecycle!UnderWay, ActiveRuns, Active
<1>b. ASSUME NEW r \in Runs, status[r] \in Active PROVE ActiveRuns \subseteq {r}
  BY <1>b DEF OneActive, ActiveRuns
<1> USE DEF Lifecycle!Set
<1>1. ASSUME NEW r \in Runs, Insert(r) PROVE Lifecycle!Request(r) \/ UNCHANGED <<status, upgraded>>
  <2>1. status[r] = "absent"
    BY <1>1, UpdateConstants DEF Insert, IsNext, Runs
  <2>2. CASE IndexAllows(r)
    <3>1. ActiveRuns = {}
      BY <2>1, <2>2 DEF IndexAllows, ActiveRuns, Active
    <3> QED  BY <1>1, <1>a, <2>1, <2>2, <3>1 DEF Insert, Lifecycle!Request, podVars
  <2>3. CASE ~IndexAllows(r)
    BY <1>1, <2>3 DEF Insert, podVars
  <2> QED  BY <2>2, <2>3
<1>2. ASSUME NEW r \in Runs, InsertNoop(r) PROVE Lifecycle!NothingToDo(r)
  <2>1. status[r] = "absent"
    BY <1>2, UpdateConstants DEF InsertNoop, IsNext, Runs
  <2> QED  BY <1>2, <2>1 DEF InsertNoop, Lifecycle!NothingToDo
<1>3. ASSUME NEW w \in Workers, LinkJob(w)
      PROVE  Lifecycle!Run(hand[w].run) \/ UNCHANGED <<status, upgraded>>
  <2>1. hand[w].run \in Runs /\ upgraded' = upgraded
    BY <1>3 DEF LinkJob, Worker, Begun, podVars
  <2>2. CASE StillPending(hand[w].run)
    BY <1>3, <1>a, <1>b, <2>1, <2>2 DEF LinkJob, StillPending, Active, Lifecycle!Run
  <2>3. CASE ~StillPending(hand[w].run)
    BY <1>3, <2>1, <2>3 DEF LinkJob
  <2> QED  BY <2>2, <2>3
<1>4. ASSUME NEW w \in Workers, FailCreate(w)
      PROVE  Lifecycle!Fail(hand[w].run) \/ UNCHANGED <<status, upgraded>>
  <2>1. hand[w].run \in Runs /\ upgraded' = upgraded
    BY <1>4 DEF FailCreate, Worker, Begun, podVars
  <2> QED
    BY <1>4, <2>1 DEF FailCreate, StillPending, Lifecycle!Fail
<1>5. ASSUME NEW w \in Workers, Reconcile(w)
      PROVE  \/ Lifecycle!Fail(hand[w].run) \/ Lifecycle!Succeed(hand[w].run)
             \/ UNCHANGED <<status, upgraded>>
  <2> DEFINE r == hand[w].run
             o == Outcome(r, hand[w].named)
  <2>1. r \in Runs /\ status[r] # "absent" /\ upgraded' = upgraded
    BY <1>5 DEF Reconcile, Worker, Begun, podVars
  <2>2. /\ o \in {"none", "failed", "succeeded"}
        /\ o = "succeeded" => job[r] = "succeeded"
    BY DEF Outcome, JobEnded
  <2>3. status' = IF o # "none" /\ status[r] \in Active THEN [status EXCEPT ![r] = o] ELSE status
    BY <1>5 DEF Reconcile
  <2> HIDE DEF o
  <2>4. CASE o = "failed" /\ status[r] \in Active
    BY <2>1, <2>3, <2>4 DEF Lifecycle!Fail
  <2>5. CASE o = "succeeded" /\ status[r] \in Active
    BY <2>1, <2>2, <2>3, <2>5 DEF Lifecycle!Succeed, Earned
  <2>6. CASE o = "none" \/ status[r] \notin Active
    BY <2>1, <2>3, <2>6
  <2> QED  BY <2>2, <2>4, <2>5, <2>6
<1>6. ASSUME NEW w \in Workers, WorkerStep(w) \/ Crash(w) \/ StepFails(w),
             ~LinkJob(w), ~FailCreate(w), ~Reconcile(w)
      PROVE  UNCHANGED <<status, upgraded>>
  BY <1>6 DEF WorkerStep, ReadPending, SubmitJob, SubmitFails, ReadActive, ReadKnown, ListJobs,
     DeleteJob, Crash, StepFails, podVars
<1>7. ASSUME NEW r \in Runs, Finalize(r) PROVE Lifecycle!Install(r)
  BY <1>7 DEF Finalize, Begun, Lifecycle!Install
<1>8. ASSUME NEW r \in Runs, NEW s \in Report, LandWrite(r, s)
      PROVE  \/ Lifecycle!Run(r) \/ Lifecycle!Succeed(r) \/ Lifecycle!Fail(r)
             \/ UNCHANGED <<status, upgraded>>
  <2>1. status[r] # "absent" /\ upgraded' = upgraded
    BY <1>8 DEF LandWrite, Begun
  <2>2. CASE s = "running" /\ ~IndexAllows(r)
    BY <1>8, <2>1, <2>2 DEF LandWrite
  <2>3. CASE s = "running" /\ IndexAllows(r)
    BY <1>8, <1>a, <2>1, <2>3 DEF LandWrite, IndexAllows, Lifecycle!Run
  <2>4. CASE s = "succeeded"
    BY <1>8, <2>1, <2>4 DEF LandWrite, Lifecycle!Succeed, Earned
  <2>5. CASE s = "failed"
    BY <1>8, <2>1, <2>5 DEF LandWrite, Lifecycle!Fail
  <2> QED  BY <2>2, <2>3, <2>4, <2>5 DEF Report
<1>9. ASSUME NEW r \in Runs, PodStep(r) \/ Ages(r), ~Finalize(r),
             \A s \in Report : ~LandWrite(r, s)
      PROVE  UNCHANGED <<status, upgraded>>
  BY <1>9 DEF PodStep, StartUpgrade, PhaseFails, PodSucceeds, PodKilled, JobExpires, LoseWrite, Ages, podVars
<1>10. CheckActive \/ UNCHANGED vars => UNCHANGED <<status, upgraded>>
  BY DEF CheckActive, vars, podVars
<1>11. ASSUME NEW w \in Workers, LinkJob(w) \/ FailCreate(w) \/ Reconcile(w)
       PROVE  hand[w].run \in Runs
  BY <1>11 DEF LinkJob, FailCreate, Reconcile, Worker, Begun
<1> QED
  BY <1>1, <1>2, <1>3, <1>4, <1>5, <1>6, <1>7, <1>8, <1>9, <1>10, <1>11
  DEF Next, ApiStep, Lifecycle!Next

LEMMA BegunInvariant == Spec => []Begun
<1>1. Init => Begun
  BY DEF Init, Begun, Fresh
<1>2. TypeOK /\ Begun /\ [Next]_vars => Begun'
  BY BegunStep
<1> QED  BY <1>1, <1>2, TypeCorrect, PTL DEF Spec

\* The rows of update_runs implement the contract of UpdateLifecycle, whatever workers, Jobs that
\* outlive their rows, late reports and requests at the same time do.
THEOREM ImplementsLifecycle == Spec => LifecycleSpec
<1>1. Init => Lifecycle!Init
  BY DEF Init, Lifecycle!Init
<1>2. TypeOK /\ Begun /\ OneActive /\ Earned /\ [Next]_vars
      => [Lifecycle!Next]_<<status, upgraded>>
  BY LifecycleStep
<1> QED
  BY <1>1, <1>2, TypeCorrect, BegunInvariant, OneActiveInvariant, EarnedInvariant, PTL
  DEF Spec, LifecycleSpec, Lifecycle!Spec, Lifecycle!vars

-----------------------------------------------------------------------------
(* The reaper *)

\* While a worker reaps, from its read of the names to its last delete, no other is between
\* a Job it created and the row that is to name it.
ReapsApart ==
    \A v, w \in Workers : hand[v].at \in {"list", "delete"} => hand[w].at # "link"

\* What a reaper has read is still all there is, and what it is about to delete has no name.
ReaperKnows ==
    \A w \in Workers :
        /\ hand[w].at = "list" => KnownJobs \subseteq hand[w].jobs
        /\ hand[w].at = "delete" => hand[w].jobs \cap KnownJobs = {}

\* The steps of a worker that do not reap leave it outside of the reaper.
LEMMA LeavesReaper ==
    ASSUME TypeOK, NEW w \in Workers,
           \/ LinkJob(w) \/ FailCreate(w) \/ Reconcile(w) \/ ReadPending(w) \/ ReadActive(w)
           \/ SubmitFails(w) \/ SubmitJob(w) \/ Crash(w) \/ StepFails(w)
    PROVE  hand'[w].at \notin {"list", "delete"}
<1> USE DEF TypeOK
<1>1. CASE LinkJob(w) \/ FailCreate(w) \/ Reconcile(w) \/ Crash(w) \/ StepFails(w)
  BY <1>1 DEF LinkJob, FailCreate, Reconcile, Crash, StepFails, GoTo, Fresh
<1>2. CASE ReadPending(w)
  BY <1>2 DEF ReadPending, GoTo, Fresh
<1>3. CASE ReadActive(w)
  <2>1. CASE GoTo(w, Fresh("reap"))
    BY <2>1 DEF GoTo, Fresh
  <2>2. ASSUME NEW r \in ActiveRuns,
               GoTo(w, [Fresh("outcome") EXCEPT !.run = r, !.named = linked[r]])
        PROVE  hand'[w].at = "outcome"
    BY <2>2 DEF GoTo, Fresh, Hand
  <2> QED  BY <1>3, <2>1, <2>2 DEF ReadActive
<1>4. CASE SubmitFails(w)
  BY <1>4 DEF SubmitFails, GoTo, Hand
<1>5. CASE SubmitJob(w)
  BY <1>5 DEF SubmitJob, GoTo, Hand
<1> QED  BY <1>1, <1>2, <1>3, <1>4, <1>5

\* A worker that links a Job does so while nobody reaps.
LEMMA ReaperKnowsStep ==
    ASSUME TypeOK, ReapsApart, ReaperKnows, [Next]_vars
    PROVE  ReaperKnows'
<1> USE DEF TypeOK
<1>1. CASE UNCHANGED <<hand, linked>>
  BY <1>1 DEF KnownJobs, ReaperKnows
<1>2. ASSUME NEW w \in Workers, WorkerStep(w) \/ Crash(w) \/ StepFails(w) PROVE ReaperKnows'
  <2>1. \A v \in Workers : v # w => hand'[v] = hand[v]
    BY <1>2 DEF WorkerStep, ReadPending, SubmitJob, SubmitFails, LinkJob, FailCreate, ReadActive,
       Reconcile, ReadKnown, ListJobs, DeleteJob, Crash, StepFails, GoTo
  <2>2. \/ KnownJobs' = KnownJobs
        \/ \A v \in Workers : hand[v].at \notin {"list", "delete"}
    <3>1. CASE LinkJob(w)
      <4>1. hand[w].at = "link"
        BY <3>1 DEF LinkJob, Worker
      <4> QED  BY <4>1 DEF ReapsApart
    <3>2. CASE ~LinkJob(w)
      <4>1. linked' = linked
        BY <1>2, <3>2 DEF WorkerStep, ReadPending, SubmitJob, SubmitFails, FailCreate, ReadActive,
           Reconcile, ReadKnown, ListJobs, DeleteJob, Crash, StepFails
      <4> QED  BY <4>1 DEF KnownJobs
    <3> QED  BY <3>1, <3>2
  <2>3. ASSUME NEW v \in Workers, v # w
        PROVE  /\ hand'[v].at = "list" => KnownJobs' \subseteq hand'[v].jobs
               /\ hand'[v].at = "delete" => hand'[v].jobs \cap KnownJobs' = {}
    BY <2>1, <2>2, <2>3 DEF ReaperKnows
  <2>4. /\ hand'[w].at = "list" => KnownJobs' \subseteq hand'[w].jobs
        /\ hand'[w].at = "delete" => hand'[w].jobs \cap KnownJobs' = {}
    <3>1. CASE \/ LinkJob(w) \/ FailCreate(w) \/ Reconcile(w) \/ ReadPending(w) \/ ReadActive(w)
               \/ SubmitFails(w) \/ SubmitJob(w) \/ Crash(w) \/ StepFails(w)
      BY <3>1, LeavesReaper
    <3>2. CASE ReadKnown(w)
      BY <3>2 DEF ReadKnown, KnownJobs, GoTo, Fresh
    <3>3. CASE ListJobs(w)
      BY <3>3 DEF ListJobs, Worker, KnownJobs, GoTo, Fresh, ReaperKnows
    <3>4. CASE DeleteJob(w)
      <4>1. KnownJobs' = KnownJobs
        BY <3>4 DEF DeleteJob, KnownJobs
      <4>2. CASE \E r \in hand[w].jobs : GoTo(w, [hand[w] EXCEPT !.jobs = @ \ {r}])
        BY <3>4, <4>1, <4>2 DEF DeleteJob, Worker, GoTo, Hand, ReaperKnows
      <4>3. CASE GoTo(w, Fresh("create"))
        BY <4>3 DEF GoTo, Fresh
      <4> QED  BY <3>4, <4>2, <4>3 DEF DeleteJob
    <3> QED  BY <1>2, <3>1, <3>2, <3>3, <3>4 DEF WorkerStep
  <2> QED  BY <2>3, <2>4 DEF ReaperKnows
<1>3. ApiStep \/ (\E r \in Runs : PodStep(r) \/ Ages(r)) => UNCHANGED <<hand, linked>>
  BY DEF ApiStep, CheckActive, Insert, InsertNoop, PodStep, StartUpgrade, PhaseFails, Finalize,
         PodSucceeds, PodKilled, JobExpires, LandWrite, LoseWrite, Ages
<1> QED  BY <1>1, <1>2, <1>3 DEF Next, vars

LEMMA ReaperSparesStep ==
    ASSUME TypeOK, ReaperKnows, [Next]_vars, NEW r \in Runs, job[r] = "active", linked[r]
    PROVE  job'[r] # "absent"
<1> USE DEF TypeOK
<1>1. ASSUME NEW w \in Workers, DeleteJob(w) PROVE job'[r] # "absent"
  <2>1. r \notin hand[w].jobs
    BY <1>1 DEF DeleteJob, Worker, ReaperKnows, KnownJobs
  <2> QED  BY <1>1, <2>1 DEF DeleteJob
<1>2. ASSUME NEW w \in Workers, WorkerStep(w) \/ Crash(w) \/ StepFails(w)
      PROVE  job'[r] # "absent"
  BY <1>1, <1>2 DEF WorkerStep, ReadPending, SubmitJob, SubmitFails, LinkJob, FailCreate,
     ReadActive, Reconcile, ReadKnown, ListJobs, Crash, StepFails
<1>3. ASSUME NEW q \in Runs, PodStep(q) \/ Ages(q)
      PROVE  job'[r] # "absent"
  BY <1>3 DEF PodStep, StartUpgrade, PhaseFails, Finalize, PodSucceeds, PodKilled, EndJob,
              JobExpires, LandWrite, LoseWrite, Ages
<1>4. ApiStep => job'[r] # "absent"
  BY DEF ApiStep, CheckActive, Insert, InsertNoop
<1> QED  BY <1>2, <1>3, <1>4 DEF Next, vars

\* No reaper deletes the running Job of a row that names it, while none overlaps another
\* worker's link: a Job is known from the moment it is linked.
THEOREM ReapersSpare == Spec /\ []ReapsApart => LinkedJobSpared
<1>1. Init => ReaperKnows
  BY DEF Init, ReaperKnows, Fresh
<1>2. TypeOK /\ ReapsApart /\ ReaperKnows /\ [Next]_vars => ReaperKnows'
  BY ReaperKnowsStep
<1>3. TypeOK /\ ReaperKnows /\ [Next]_vars
      => [\A r \in Runs : job[r] = "active" /\ linked[r] => job'[r] # "absent"]_vars
  BY ReaperSparesStep
<1> QED  BY <1>1, <1>2, <1>3, TypeCorrect, PTL DEF Spec, LinkedJobSpared

\* A lone worker is in one step of its tick at a time.
COROLLARY LoneReaperSpares ==
    ASSUME NEW w, Workers = {w}
    PROVE  Spec => LinkedJobSpared
<1>1. ReapsApart
  BY DEF ReapsApart
<1> QED  BY <1>1, ReapersSpare, PTL

\* What a worker knows of a Job that was linked before it read the names: once it has read
\* them it knows the Job, and then it does not delete it.
Knows(w, r) ==
    /\ linked[r]
    /\ hand[w].at = "list" => r \in hand[w].jobs
    /\ hand[w].at = "delete" => r \notin hand[w].jobs

LEMMA KnowsStep ==
    ASSUME TypeOK, NEW w \in Workers, NEW r \in Runs, Knows(w, r), [Next]_vars
    PROVE  Knows(w, r)'
<1> USE DEF TypeOK, Knows
<1>1. CASE UNCHANGED <<hand, linked>>
  BY <1>1
<1>2. ASSUME NEW v \in Workers, WorkerStep(v) \/ Crash(v) \/ StepFails(v) PROVE Knows(w, r)'
  <2>1. linked'[r]
    BY <1>2 DEF WorkerStep, ReadPending, SubmitJob, SubmitFails, LinkJob, FailCreate, ReadActive,
       Reconcile, ReadKnown, ListJobs, DeleteJob, Crash, StepFails
  <2>2. CASE v # w
    <3>1. hand'[w] = hand[w]
      BY <1>2, <2>2 DEF WorkerStep, ReadPending, SubmitJob, SubmitFails, LinkJob, FailCreate,
         ReadActive, Reconcile, ReadKnown, ListJobs, DeleteJob, Crash, StepFails, GoTo
    <3> QED  BY <2>1, <3>1
  <2>3. CASE /\ v = w
             /\ \/ LinkJob(w) \/ FailCreate(w) \/ Reconcile(w) \/ ReadPending(w) \/ ReadActive(w)
                \/ SubmitFails(w) \/ SubmitJob(w) \/ Crash(w) \/ StepFails(w)
    BY <2>1, <2>3, LeavesReaper
  <2>4. CASE v = w /\ ReadKnown(w)
    BY <2>1, <2>4 DEF ReadKnown, KnownJobs, GoTo, Fresh
  <2>5. CASE v = w /\ ListJobs(w)
    BY <2>1, <2>5 DEF ListJobs, Worker, GoTo, Fresh
  <2>6. CASE v = w /\ DeleteJob(w)
    <3>1. CASE \E q \in hand[w].jobs : GoTo(w, [hand[w] EXCEPT !.jobs = @ \ {q}])
      BY <2>1, <2>6, <3>1 DEF DeleteJob, Worker, GoTo, Hand
    <3>2. CASE GoTo(w, Fresh("create"))
      BY <2>1, <3>2 DEF GoTo, Fresh
    <3> QED  BY <2>6, <3>1, <3>2 DEF DeleteJob
  <2> QED  BY <1>2, <2>2, <2>3, <2>4, <2>5, <2>6 DEF WorkerStep
<1>3. ApiStep \/ (\E q \in Runs : PodStep(q) \/ Ages(q)) => UNCHANGED <<hand, linked>>
  BY DEF ApiStep, CheckActive, Insert, InsertNoop, PodStep, StartUpgrade, PhaseFails, Finalize,
         PodSucceeds, PodKilled, JobExpires, LandWrite, LoseWrite, Ages
<1> QED  BY <1>1, <1>2, <1>3 DEF Next, vars

\* No worker deletes the Job of a row that named it before that worker read the names, for
\* any number of workers, crashes and failing calls.
THEOREM NamedSpared == Spec => NamedJobSpared
<1> SUFFICES ASSUME NEW w \in Workers, NEW r \in Runs
             PROVE  Spec => [](linked[r] /\ hand[w].at \notin {"list", "delete"}
                               => [](hand[w].at = "delete" => r \notin hand[w].jobs))
  BY DEF NamedJobSpared
<1>1. linked[r] /\ hand[w].at \notin {"list", "delete"} => Knows(w, r)
  BY DEF Knows
<1>2. TypeOK /\ Knows(w, r) /\ [Next]_vars => Knows(w, r)'
  BY KnowsStep
<1>3. Knows(w, r) => (hand[w].at = "delete" => r \notin hand[w].jobs)
  BY DEF Knows
<1> QED  BY <1>1, <1>2, <1>3, TypeCorrect, PTL DEF Spec

=============================================================================
