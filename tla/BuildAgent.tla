----------------------------- MODULE BuildAgent -----------------------------
(***************************************************************************)
(* The program of a build server (apps/build-agent) against the API it     *)
(* calls.  A loop sends heartbeats, which renew the leases of its tasks,   *)
(* reports results and claims tasks; a watchdog aborts a build before its  *)
(* lease ends; a pump sends the lines of a bounded log buffer; each build  *)
(* runs containers and removes them.  All of it runs at once in one        *)
(* process, which may be told to stop, or die and leave its containers to  *)
(* the next.                                                               *)
(*                                                                         *)
(* A task is one attempt of a run.  The process keys its builds by run, so *)
(* a new attempt takes the place of an older one in `active`.              *)
(*                                                                         *)
(* Time passes in units of the margin (10 seconds).  Clocks agree, the     *)
(* watchdog is not late, and an aborted build has removed its containers   *)
(* within a unit: Tick waits for them.                                     *)
(***************************************************************************)
EXTENDS Integers, FiniteSets

CONSTANTS
    Tasks,       \* attempts that are reserved for this server
    RunOf,       \* the run of an attempt
    Lease,       \* units a lease lasts: AGENT_LEASE_SECONDS
    BufferSize,  \* lines a build keeps: 512
    Batch,       \* lines of a flush: 100
    MaxLines,    \* bound: the most lines of a build
    LinesOf,     \* bound: lines a build writes
    MaxFaults    \* bound: lost answers, failing Docker calls, deaths of the process

ASSUME BuildAgentConstants ==
    /\ IsFiniteSet(Tasks)
    /\ Lease \in Nat /\ Lease > 1
    /\ BufferSize \in Nat \ {0}
    /\ Batch \in Nat \ {0}
    /\ MaxLines \in Nat
    /\ LinesOf \in [Tasks -> 0 .. MaxLines]
    /\ MaxFaults \in Nat

VARIABLES
    row,        \* what build_runs says of the attempt
    lease,      \* what is left of build_runs.lease_expires_at
    revoked,    \* build_agents.revoked
    stored,     \* the lines in deployment_logs
    told,       \* how many dropped lines the stored ones speak of
    at,         \* where the loop of the process is
    stopping,   \* the flag
    ready,      \* dockerReady of this turn of the loop
    cleaned,    \* cleanedOrphans
    active,     \* the builds of the process, one for each run
    todo,       \* those the loop has still to settle
    reply,      \* the answer to the heartbeat
    stage,      \* where executeBuild is
    aborted,    \* builds whose signal is aborted
    result,     \* build.result
    view,       \* what is left of the leaseExpiresAt the process knows
    first,      \* the oldest line in the buffer
    next,       \* nextSequence
    dropped,    \* droppedLogs
    flight,     \* the flush under way
    orphans,    \* containers of processes that died
    faults      \* what has failed so far

serverVars == <<row, lease, revoked>>
storeVars == <<stored, told>>
loopVars == <<at, stopping, ready, cleaned, todo, reply>>
buildVars == <<active, stage, aborted, result, view>>
logVars == <<first, next, dropped, flight>>
faultVars == <<orphans, faults>>
vars == <<serverVars, storeVars, loopVars, buildVars, logVars, faultVars>>

Runs == {RunOf[t] : t \in Tasks}
Row == {"none", "ready", "running", "succeeded", "failed", "ended", "lost"}
At == {"top", "heartbeat", "settle", "claim", "end", "exited", "down"}
Stage == {"none", "prepare", "pin", "build", "built", "broken"}
Result == {"none", "succeeded", "failed"}
Line == 0 .. MaxLines
Reply == [canceled : SUBSET Runs, lease : 0 .. Lease]
NoFlight == [from |-> 0, to |-> -1, dropped |-> 0, answered |-> FALSE]
Flight == [from : Line, to : -1 .. MaxLines, dropped : Nat, answered : BOOLEAN]

ServerTypes ==
    /\ row \in [Tasks -> Row]
    /\ lease \in [Tasks -> 0 .. Lease]
    /\ revoked \in BOOLEAN
    /\ stored \in [Tasks -> SUBSET Line]
    /\ told \in [Tasks -> Nat]

LoopTypes ==
    /\ at \in At
    /\ stopping \in BOOLEAN
    /\ ready \in BOOLEAN
    /\ cleaned \in BOOLEAN
    /\ todo \in SUBSET Tasks
    /\ reply \in Reply

BuildTypes ==
    /\ active \in SUBSET Tasks
    /\ stage \in [Tasks -> Stage]
    /\ aborted \in SUBSET Tasks
    /\ result \in [Tasks -> Result]
    /\ view \in [Tasks -> 0 .. Lease]
    /\ orphans \in SUBSET Tasks
    /\ faults \in 0 .. MaxFaults

LogTypes ==
    /\ first \in [Tasks -> Line]
    /\ next \in [Tasks -> Line]
    /\ dropped \in [Tasks -> Nat]
    /\ flight \in [Tasks -> Flight]

WithinBuffer == \A t \in Tasks : first[t] <= next[t] /\ next[t] - first[t] <= BufferSize

\* The types; a build never keeps more lines than the buffer holds.
TypeOK == ServerTypes /\ LoopTypes /\ BuildTypes /\ LogTypes /\ WithinBuffer

Init ==
    /\ row = [t \in Tasks |-> "none"]
    /\ lease = [t \in Tasks |-> 0]
    /\ revoked = FALSE
    /\ stored = [t \in Tasks |-> {}]
    /\ told = [t \in Tasks |-> 0]
    /\ at = "top"
    /\ stopping = FALSE
    /\ ready = FALSE
    /\ cleaned = FALSE
    /\ active = {}
    /\ todo = {}
    /\ reply = [canceled |-> {}, lease |-> 0]
    /\ stage = [t \in Tasks |-> "none"]
    /\ aborted = {}
    /\ result = [t \in Tasks |-> "none"]
    /\ view = [t \in Tasks |-> 0]
    /\ first = [t \in Tasks |-> 0]
    /\ next = [t \in Tasks |-> 0]
    /\ dropped = [t \in Tasks |-> 0]
    /\ flight = [t \in Tasks |-> NoFlight]
    /\ orphans = {}
    /\ faults = 0

-----------------------------------------------------------------------------
(* The server *)

Fault == faults < MaxFaults /\ faults' = faults + 1

\* What every statement about a task asks of its row.
Owned(t) == row[t] = "running" /\ lease[t] > 0
Answers(t) == Owned(t) /\ ~revoked

\* A worker reserves an attempt for this server; the next one of a run only after the last
\* was lost.
Reserve(t) ==
    /\ row[t] = "none" /\ ~revoked
    /\ \A u \in Tasks \ {t} : RunOf[u] = RunOf[t] => row[u] \in {"none", "lost"}
    /\ row' = [row EXCEPT ![t] = "ready"]
    /\ lease' = [lease EXCEPT ![t] = Lease]
    /\ UNCHANGED <<revoked, storeVars, loopVars, buildVars, logVars, faultVars>>

\* The lease of a run that is over means nothing any more.
SetRow(t, s) ==
    /\ row' = [row EXCEPT ![t] = s]
    /\ lease' = [lease EXCEPT ![t] = 0]

\* The deployment is canceled, or a worker ends a run that is over its timeout.
EndRun(t) ==
    /\ row[t] \in {"ready", "running"}
    /\ SetRow(t, "ended")
    /\ UNCHANGED <<revoked, storeVars, loopVars, buildVars, logVars, faultVars>>

\* A worker takes the run from a server whose lease is over; another attempt may start.
LeaseLost(t) ==
    /\ row[t] \in {"ready", "running"}
    /\ lease[t] = 0
    /\ SetRow(t, "lost")
    /\ UNCHANGED <<revoked, storeVars, loopVars, buildVars, logVars, faultVars>>

Revoke ==
    /\ ~revoked
    /\ revoked' = TRUE
    /\ row' = [t \in Tasks |-> IF row[t] \in {"ready", "running"} THEN "ended" ELSE row[t]]
    /\ lease' = [t \in Tasks |-> 0]
    /\ UNCHANGED <<storeVars, loopVars, buildVars, logVars, faultVars>>

-----------------------------------------------------------------------------
(* The builds *)

\* Mutant: no margin.
DueAtTheEnd(t) == view[t] <= 0

Due(t) == view[t] <= 1

\* The watchdog, every second.
Watchdog(t) ==
    /\ t \in active \ aborted
    /\ Due(t)
    /\ aborted' = aborted \cup {t}
    /\ UNCHANGED <<serverVars, storeVars, loopVars, active, stage, result, view, logVars, faultVars>>

\* The timer of a build that has no result yet: timeoutSeconds are over.
TimerFires(t) ==
    /\ stage[t] # "none"
    /\ t \notin aborted
    /\ aborted' = aborted \cup {t}
    /\ UNCHANGED <<serverVars, storeVars, loopVars, active, stage, result, view, logVars, faultVars>>

SetStage(t, s) ==
    /\ stage' = [stage EXCEPT ![t] = s]
    /\ UNCHANGED <<serverVars, storeVars, loopVars, active, aborted, result, view, logVars, faultVars>>

Prepared(t) == stage[t] = "prepare" /\ t \notin aborted /\ SetStage(t, "pin")

\* The commit is pinned; the next stage looks at the signal before it starts.
Pinned(t) ==
    /\ stage[t] = "pin"
    /\ Answers(t)
    /\ SetStage(t, IF t \in aborted THEN "broken" ELSE "build")

\* The last container exits with 0; an abort while it is inspected changes nothing any more.
Built(t) == stage[t] = "build" /\ SetStage(t, "built")

\* A stage fails, is aborted, or the commit is refused.
Breaks(t) == stage[t] \in {"prepare", "pin", "build"} /\ SetStage(t, "broken")

\* The containers and volumes of the build are removed, and its promise settles.
RemoveContainers(t) ==
    /\ stage[t] \in {"built", "broken"}
    /\ stage' = [stage EXCEPT ![t] = "none"]
    /\ result' = [result EXCEPT ![t] = IF stage[t] = "built" THEN "succeeded" ELSE "failed"]
    /\ UNCHANGED <<serverVars, storeVars, loopVars, active, aborted, view, logVars, faultVars>>

-----------------------------------------------------------------------------
(* The log buffer *)

\* Mutant: the oldest line is dropped one line too late.
OverFull(t) == next[t] - first[t] > BufferSize

Full(t) == next[t] - first[t] >= BufferSize

\* A container writes a line; a full buffer drops its oldest.
Emit(t) ==
    /\ stage[t] \in {"prepare", "build"}
    /\ next[t] < LinesOf[t]
    /\ next' = [next EXCEPT ![t] = @ + 1]
    /\ IF Full(t)
       THEN /\ first' = [first EXCEPT ![t] = @ + 1]
            /\ dropped' = [dropped EXCEPT ![t] = @ + 1]
       ELSE UNCHANGED <<first, dropped>>
    /\ UNCHANGED <<serverVars, storeVars, loopVars, buildVars, flight, faultVars>>

SetFlight(t, f) == flight' = [flight EXCEPT ![t] = f]

BatchEnd(t) == IF next[t] - first[t] <= Batch THEN next[t] - 1 ELSE first[t] + Batch - 1

\* The pump sends the oldest lines; the first of them says how many were dropped.
Flush(t) ==
    /\ t \in active
    /\ flight[t] = NoFlight
    /\ first[t] < next[t]
    /\ SetFlight(t, [from |-> first[t], to |-> BatchEnd(t), dropped |-> dropped[t],
                     answered |-> FALSE])
    /\ UNCHANGED <<serverVars, storeVars, loopVars, buildVars, first, next, dropped, faultVars>>

\* The server inserts the lines it does not have.
StoreLines(t) ==
    /\ flight[t] # NoFlight /\ ~flight[t].answered
    /\ Answers(t)
    /\ stored' = [stored EXCEPT ![t] = @ \cup flight[t].from .. flight[t].to]
    /\ told' = [told EXCEPT ![t] =
                    @ + IF flight[t].from \in stored[t] THEN 0 ELSE flight[t].dropped]
    /\ SetFlight(t, [flight[t] EXCEPT !.answered = TRUE])
    /\ UNCHANGED <<serverVars, loopVars, buildVars, first, next, dropped, faultVars>>

RefuseLines(t) ==
    /\ flight[t] # NoFlight /\ ~flight[t].answered
    /\ ~Answers(t)
    /\ SetFlight(t, NoFlight)
    /\ UNCHANGED <<serverVars, storeVars, loopVars, buildVars, first, next, dropped, faultVars>>

AtLeast(x, y) == IF x < y THEN y ELSE x

StillDropped(t) == AtLeast(dropped[t] - flight[t].dropped, 0)

Acknowledged(t) ==
    /\ flight[t] # NoFlight /\ flight[t].answered
    /\ first' = [first EXCEPT ![t] = AtLeast(@, flight[t].to + 1)]
    /\ dropped' = [dropped EXCEPT ![t] = StillDropped(t)]
    /\ SetFlight(t, NoFlight)
    /\ UNCHANGED <<serverVars, storeVars, loopVars, buildVars, next, faultVars>>

\* Mutant: what a flush was to tell counts as told, though it failed.
ForgetLost(t) ==
    /\ Fault
    /\ flight[t] # NoFlight
    /\ SetFlight(t, NoFlight)
    /\ dropped' = [dropped EXCEPT ![t] = StillDropped(t)]
    /\ UNCHANGED <<serverVars, storeVars, loopVars, buildVars, first, next, orphans>>

\* The request or its answer is lost.
FlushLost(t) ==
    /\ Fault
    /\ flight[t] # NoFlight
    /\ SetFlight(t, NoFlight)
    /\ UNCHANGED <<serverVars, storeVars, loopVars, buildVars, first, next, dropped, orphans>>

-----------------------------------------------------------------------------
(* The loop *)

NoReply == [canceled |-> {}, lease |-> 0]

\* The turn is over, or an error has ended it.
EndLoop ==
    /\ at' = "end"
    /\ ready' = FALSE
    /\ todo' = {}
    /\ reply' = NoReply

\* Builds leave `active`, and with them what the process knows of them, others are started, and
\* some get the signal, which one that is still at work keeps.
Change(gone, started, aborting) ==
    /\ active' = (active \ gone) \cup started
    /\ aborted' = (aborted \cup aborting) \ {t \in gone : stage[t] = "none"}
    /\ result' = [t \in Tasks |-> IF t \in gone THEN "none" ELSE result[t]]
    /\ view' = [t \in Tasks |->
                   IF t \in started THEN Lease ELSE IF t \in gone THEN 0 ELSE view[t]]
    /\ first' = [t \in Tasks |-> IF t \in gone THEN next[t] ELSE first[t]]
    /\ dropped' = [t \in Tasks |-> IF t \in gone THEN 0 ELSE dropped[t]]

Leave(gone, aborting) == Change(gone, {}, aborting)

\* Posts of a revoked server are answered 401: the process stops.
Unauthorized ==
    /\ revoked
    /\ stopping' = TRUE
    /\ aborted' = aborted \cup active
    /\ EndLoop

\* Mutant: what works for an attempt that was not lost is left to end its work.
LeaveUnlost == {t \in orphans : row[t] # "lost"}

\* Every container of this server is removed.
CleanupOrphans == {}

\* Docker answers or not; when it does, what older processes left is removed once.
Check ==
    /\ at = "top"
    /\ ~stopping \/ active # {}
    /\ aborted' = aborted \cup {t \in active : Due(t)}
    /\ \/ /\ at' = "heartbeat"
          /\ ready' = TRUE
          /\ cleaned' = TRUE
          /\ orphans' = IF cleaned THEN orphans ELSE CleanupOrphans
          /\ UNCHANGED <<todo, reply, faults>>
       \/ /\ Fault
          /\ at' = "heartbeat"
          /\ UNCHANGED <<ready, cleaned, todo, reply, orphans>>
       \/ /\ Fault /\ ~cleaned
          /\ EndLoop
          /\ UNCHANGED <<cleaned, orphans>>
    /\ UNCHANGED <<serverVars, storeVars, stopping, active, stage, result, view, logVars>>

\* The tasks whose leases are renewed: all that the row allows, but those in `late`, which are
\* over their timeout.
Renewable(late) == {t \in active \ late : Owned(t)}
Renew(S) == lease' = [t \in Tasks |-> IF t \in S THEN Lease ELSE lease[t]]

Heartbeat ==
    /\ at = "heartbeat"
    /\ \/ Unauthorized /\ UNCHANGED <<lease, faults>>
       \/ \E late \in SUBSET active :
          /\ ~revoked
          /\ Renew(Renewable(late))
          /\ \/ /\ reply' = [canceled |-> {RunOf[t] : t \in active \ Renewable(late)},
                             lease |-> Lease]
                /\ todo' = active
                /\ at' = "settle"
                /\ UNCHANGED <<stopping, ready, aborted, faults>>
             \/ Fault /\ EndLoop /\ UNCHANGED <<stopping, aborted>>
       \/ /\ Fault /\ ~revoked
          /\ EndLoop
          /\ UNCHANGED <<lease, stopping, aborted>>
    /\ UNCHANGED <<row, revoked, storeVars, cleaned, active, stage, result, view, logVars, orphans>>

\* Mutant: a build that the server no longer wants is only aborted.
NeverDone(t) == {}

\* A canceled build leaves when it has settled, its result unsent.
Done(t) == IF result[t] = "none" THEN {} ELSE {t}

SettleCanceled(t) ==
    /\ at = "settle" /\ t \in todo
    /\ RunOf[t] \in reply.canceled
    /\ Leave(Done(t), {t})
    /\ todo' = todo \ {t}
    /\ UNCHANGED <<serverVars, storeVars, at, stopping, ready, cleaned, reply, stage, next, flight,
                   faultVars>>

Reportable(t) == result[t] # "none" /\ first[t] = next[t] /\ flight[t] = NoFlight

Settling(t) == at = "settle" /\ t \in todo /\ RunOf[t] \notin reply.canceled

\* The lease of a build goes on.
SettleRenewed(t) ==
    /\ Settling(t)
    /\ ~Reportable(t)
    /\ view' = [view EXCEPT ![t] = reply.lease]
    /\ todo' = todo \ {t}
    /\ UNCHANGED <<serverVars, storeVars, at, stopping, ready, cleaned, reply, active, stage,
                   aborted, result, logVars, faultVars>>

\* The server takes the result, and the build leaves.
ResultAccepted(t) ==
    /\ Settling(t) /\ Reportable(t)
    /\ Answers(t)
    /\ SetRow(t, result[t])
    /\ Leave({t}, {})
    /\ todo' = todo \ {t}
    /\ UNCHANGED <<revoked, storeVars, at, stopping, ready, cleaned, reply, stage, next, flight,
                   faultVars>>

\* The result is refused, or lost before or after it is taken: the turn is over, and what
\* follows in `active` is not settled.
ResultFails(t) ==
    /\ Settling(t) /\ Reportable(t)
    /\ view' = [view EXCEPT ![t] = reply.lease]
    /\ \/ Unauthorized /\ UNCHANGED <<row, lease, faults>>
       \/ /\ ~Owned(t) /\ ~revoked
          /\ EndLoop
          /\ UNCHANGED <<row, lease, stopping, aborted, faults>>
       \/ /\ Fault
          /\ \/ Answers(t) /\ SetRow(t, result[t])
             \/ UNCHANGED <<row, lease>>
          /\ EndLoop
          /\ UNCHANGED <<stopping, aborted>>
    /\ UNCHANGED <<revoked, storeVars, cleaned, active, stage, result, logVars, orphans>>

AllSettled ==
    /\ at = "settle" /\ todo = {}
    /\ IF ready /\ ~stopping
       THEN at' = "claim" /\ reply' = NoReply /\ UNCHANGED <<ready, todo>>
       ELSE EndLoop
    /\ UNCHANGED <<serverVars, storeVars, stopping, cleaned, buildVars, logVars, faultVars>>

Claimable(t) == row[t] = "ready" /\ lease[t] > 0 /\ ~revoked
GiveTask(t) ==
    /\ row' = [row EXCEPT ![t] = "running"]
    /\ lease' = [lease EXCEPT ![t] = Lease]

\* A task is claimed and its build started, in the place of an older attempt of its run.  A
\* signal during the claims does not end them.
Claim(t) ==
    /\ at = "claim" /\ Claimable(t)
    /\ GiveTask(t)
    /\ Change({u \in active : RunOf[u] = RunOf[t]}, {t}, {})
    /\ stage' = [stage EXCEPT ![t] = "prepare"]
    /\ UNCHANGED <<revoked, storeVars, loopVars, next, flight, faultVars>>

\* The task is given away, but its answer is lost.
ClaimLost(t) ==
    /\ Fault
    /\ at = "claim" /\ Claimable(t)
    /\ GiveTask(t)
    /\ EndLoop
    /\ UNCHANGED <<revoked, storeVars, stopping, cleaned, buildVars, logVars, orphans>>

\* There is nothing to claim, or the server is at its capacity or revoked.
NothingClaimed ==
    /\ at = "claim"
    /\ \/ Unauthorized
       \/ ~revoked /\ EndLoop /\ UNCHANGED <<stopping, aborted>>
    /\ UNCHANGED <<serverVars, storeVars, cleaned, active, stage, result, view, logVars, faultVars>>

\* Builds leave that nobody waits for any more.
EndTurn ==
    /\ at = "end"
    /\ LET gone == {t \in active : /\ t \in aborted /\ result[t] # "none"
                                   /\ stopping \/ view[t] = 0}
       IN  /\ Leave(gone, {})
           /\ at' = IF stopping /\ active \subseteq gone THEN "exited" ELSE "top"
    /\ UNCHANGED <<serverVars, storeVars, stopping, ready, cleaned, todo, reply, stage, next,
                   flight, faultVars>>

\* The process was told to stop while it had nothing to do.
Exit ==
    /\ at = "top"
    /\ stopping /\ active = {}
    /\ at' = "exited"
    /\ UNCHANGED <<serverVars, storeVars, stopping, ready, cleaned, todo, reply, buildVars,
                   logVars, faultVars>>

-----------------------------------------------------------------------------
(* Time, signals, deaths *)

Less(x) == IF x = 0 THEN 0 ELSE x - 1

\* A unit passes; the watchdog and the removal of containers are faster.
Tick ==
    /\ \E t \in Tasks : lease[t] > 0 \/ view[t] > 0
    /\ \A t \in active \ aborted : ~Due(t)
    /\ \A t \in aborted : stage[t] = "none"
    /\ lease' = [t \in Tasks |-> Less(lease[t])]
    /\ view' = [t \in Tasks |-> Less(view[t])]
    /\ reply' = [reply EXCEPT !.lease = Less(@)]
    /\ UNCHANGED <<row, revoked, storeVars, at, stopping, ready, cleaned, todo, active,
                   stage, aborted, result, logVars, faultVars>>

Alive == at \notin {"exited", "down"}

\* SIGTERM or SIGINT.
Signal ==
    /\ Alive /\ ~stopping
    /\ stopping' = TRUE
    /\ aborted' = aborted \cup active
    /\ UNCHANGED <<serverVars, storeVars, at, ready, cleaned, todo, reply, active, stage, result,
                   view, logVars, faultVars>>

\* The process dies with all it knew; Docker keeps its containers running.
Crash ==
    /\ Fault
    /\ Alive
    /\ at' = "down"
    /\ stopping' = FALSE /\ ready' = FALSE /\ cleaned' = FALSE
    /\ todo' = {} /\ reply' = NoReply
    /\ orphans' = orphans \cup {t \in Tasks : stage[t] # "none"}
    /\ stage' = [t \in Tasks |-> "none"]
    /\ active' = {} /\ aborted' = {}
    /\ result' = [t \in Tasks |-> "none"]
    /\ view' = [t \in Tasks |-> 0]
    /\ first' = next
    /\ dropped' = [t \in Tasks |-> 0]
    /\ flight' = [t \in Tasks |-> NoFlight]
    /\ UNCHANGED <<serverVars, storeVars, next>>

\* Docker starts the agent again.
Restart ==
    /\ at = "down"
    /\ at' = "top"
    /\ UNCHANGED <<serverVars, storeVars, stopping, ready, cleaned, todo, reply, buildVars,
                   logVars, faultVars>>

Server ==
    \/ Revoke
    \/ \E t \in Tasks : Reserve(t) \/ EndRun(t) \/ LeaseLost(t)

BuildStep(t) ==
    \/ Watchdog(t) \/ TimerFires(t)
    \/ Prepared(t) \/ Pinned(t) \/ Built(t) \/ Breaks(t) \/ RemoveContainers(t)

LogStep(t) ==
    Emit(t) \/ Flush(t) \/ StoreLines(t) \/ RefuseLines(t) \/ Acknowledged(t) \/ FlushLost(t)

LoopStep ==
    \/ Check \/ Heartbeat \/ AllSettled \/ NothingClaimed \/ EndTurn \/ Exit
    \/ \E t \in Tasks : \/ SettleCanceled(t) \/ SettleRenewed(t)
                        \/ ResultAccepted(t) \/ ResultFails(t) \/ Claim(t) \/ ClaimLost(t)

Next ==
    \/ Server
    \/ \E t \in Tasks : BuildStep(t) \/ LogStep(t)
    \/ LoopStep
    \/ Tick \/ Signal \/ Crash \/ Restart

Spec == Init /\ [][Next]_vars

\* What does not depend on a container that may hang: the timers abort, the pin is answered, an
\* aborted stage ends and its containers are removed.
BuildSettles(t) ==
    \/ Watchdog(t) \/ TimerFires(t)
    \/ (t \in aborted \/ stage[t] = "pin") /\ (Pinned(t) \/ Breaks(t))
    \/ RemoveContainers(t)

LogDelivery(t) == Flush(t) \/ StoreLines(t) \/ RefuseLines(t) \/ Acknowledged(t)

\* The loop and the pump run on timers and every request ends.
Fairness ==
    /\ WF_vars(LoopStep)
    /\ \A t \in Tasks : WF_vars(BuildSettles(t)) /\ WF_vars(LogDelivery(t))

FairSpec == Spec /\ Fairness

-----------------------------------------------------------------------------
(* Properties *)

Working == {t \in Tasks : stage[t] # "none"}

\* No container of the process works for an attempt that the server has given up, so that
\* another attempt may be under way: neither a lost answer, nor a task that is overtaken by
\* the next attempt of its run, lets a build outlive its lease.  And nothing is built beside
\* containers of a process that died.
BuildsHoldTheirLease ==
    /\ \A t \in Working : row[t] # "lost"
    /\ Working # {} => orphans = {}

\* When a result is in, every line of the build is stored, or counted among those the stored
\* lines say were dropped: with answers lost and lines dropped while others are on their way.
LossesReported ==
    \A t \in Tasks : row[t] \in {"succeeded", "failed"} =>
        Cardinality((0 .. next[t] - 1) \ stored[t]) <= told[t]

\* A build does not stay in `active`, and a process told to stop does: whatever answers are
\* lost, builds hang, or tasks are claimed while the signal comes.
TasksEnd ==
    \A t \in Tasks :
        (t \in active \/ stopping)
            ~> (t \notin active /\ (stopping => at \in {"exited", "down"}))

=============================================================================
