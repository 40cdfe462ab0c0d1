-------------------------- MODULE BuildAgentProofs --------------------------
(***************************************************************************)
(* What holds of BuildAgent for any tasks of any runs, leases, buffers and *)
(* batches: its types, that no build outlives its lease, and that no line  *)
(* of a reported build is lost in silence.                                 *)
(***************************************************************************)
EXTENDS BuildAgent, FiniteSetTheorems, TLAPS

-----------------------------------------------------------------------------
(* Types *)

\* A flush never reaches beyond the lines there are; that is why the buffer's first line stays
\* among them when it is acknowledged.
InFlight == \A t \in Tasks : flight[t].to < next[t]

TypeInv == ServerTypes /\ LoopTypes /\ BuildTypes /\ LogTypes /\ WithinBuffer /\ InFlight

LEMMA NoFlightType == NoFlight \in Flight /\ NoFlight.to = -1
BY BuildAgentConstants DEF NoFlight, Flight, Line

LEMMA NoReplyType == NoReply \in Reply
BY BuildAgentConstants DEF NoReply, Reply

LEMMA TypeInit == Init => TypeInv
<1> SUFFICES ASSUME Init PROVE TypeInv
  OBVIOUS
<1> USE BuildAgentConstants
<1>1. ServerTypes
  <2>1. row \in [Tasks -> Row]
    BY DEF Init, Row
  <2>2. 0 \in 0 .. Lease
    OBVIOUS
  <2>3. lease \in [Tasks -> 0 .. Lease]
    BY <2>2 DEF Init
  <2>4. stored \in [Tasks -> SUBSET Line] /\ told \in [Tasks -> Nat]
    BY DEF Init
  <2> QED  BY <2>1, <2>3, <2>4 DEF ServerTypes, Init
<1>2. LoopTypes
  BY NoReplyType DEF Init, LoopTypes, At, NoReply
<1>3. BuildTypes
  BY DEF Init, BuildTypes, Stage, Result
<1>4. LogTypes
  BY NoFlightType DEF Init, LogTypes, Line
<1>5. WithinBuffer /\ InFlight
  BY NoFlightType DEF Init, WithinBuffer, InFlight
<1> QED  BY <1>1, <1>2, <1>3, <1>4, <1>5 DEF TypeInv

LEMMA TypeServer == TypeInv /\ Server => TypeInv'
<1> SUFFICES ASSUME TypeInv, Server PROVE TypeInv'
  OBVIOUS
<1>1. UNCHANGED <<storeVars, loopVars, buildVars, logVars, faultVars>>
  BY DEF Server, Revoke, Reserve, EndRun, LeaseLost
<1>2. ServerTypes'
  <2> USE BuildAgentConstants DEF TypeInv, ServerTypes, Row
  <2>1. CASE Revoke
    BY <1>1, <2>1 DEF Revoke, storeVars
  <2>2. ASSUME NEW t \in Tasks, Reserve(t) PROVE ServerTypes'
    BY <1>1, <2>2 DEF Reserve, storeVars
  <2>3. ASSUME NEW t \in Tasks, EndRun(t) PROVE ServerTypes'
    BY <1>1, <2>3 DEF EndRun, SetRow, storeVars
  <2>4. ASSUME NEW t \in Tasks, LeaseLost(t) PROVE ServerTypes'
    BY <1>1, <2>4 DEF LeaseLost, SetRow, storeVars
  <2> QED  BY <2>1, <2>2, <2>3, <2>4 DEF Server
<1> QED  BY <1>1, <1>2 DEF TypeInv, LoopTypes, BuildTypes, LogTypes, WithinBuffer, InFlight,
            loopVars, buildVars, logVars, faultVars

LEMMA TypeBuild ==
    ASSUME TypeInv, NEW t \in Tasks, BuildStep(t)
    PROVE  TypeInv'
<1>1. UNCHANGED <<serverVars, storeVars, loopVars, logVars, faultVars>>
  BY DEF BuildStep, Watchdog, TimerFires, Prepared, Pinned, Built, Breaks, SetStage, RemoveContainers
<1>2. BuildTypes'
  <2> USE <1>1 DEF TypeInv, BuildTypes, faultVars, Stage, Result
  <2>1. CASE Watchdog(t) \/ TimerFires(t)
    BY <2>1 DEF Watchdog, TimerFires
  <2>2. CASE Prepared(t) \/ Pinned(t) \/ Built(t) \/ Breaks(t)
    BY <2>2 DEF Prepared, Pinned, Built, Breaks, SetStage
  <2>3. CASE RemoveContainers(t)
    BY <2>3 DEF RemoveContainers
  <2> QED  BY <2>1, <2>2, <2>3 DEF BuildStep
<1> QED  BY <1>1, <1>2 DEF TypeInv, ServerTypes, LoopTypes, LogTypes, WithinBuffer, InFlight,
            serverVars, storeVars, loopVars, logVars

LEMMA TypeLog ==
    ASSUME TypeInv, NEW t \in Tasks, LogStep(t)
    PROVE  TypeInv'
<1>1. UNCHANGED <<serverVars, loopVars, buildVars, orphans>>
  BY DEF LogStep, Emit, Flush, StoreLines, RefuseLines, Acknowledged, FlushLost, faultVars
<1>2. BuildTypes' /\ LoopTypes'
  BY <1>1, BuildAgentConstants DEF LogStep, Emit, Flush, StoreLines, RefuseLines, Acknowledged,
     FlushLost, Fault, faultVars, TypeInv, BuildTypes, LoopTypes, loopVars, buildVars
<1>3. /\ flight[t] \in Flight
      /\ flight[t].from \in 0 .. MaxLines /\ flight[t].to \in -1 .. MaxLines
      /\ flight[t].dropped \in Nat /\ flight[t].to < next[t]
      /\ first[t] \in 0 .. MaxLines /\ next[t] \in 0 .. MaxLines /\ dropped[t] \in Nat
      /\ first[t] <= next[t] /\ next[t] - first[t] <= BufferSize
  BY DEF TypeInv, LogTypes, Flight, Line, WithinBuffer, InFlight
<1>4. MaxLines \in Nat /\ BufferSize \in Nat \ {0} /\ Batch \in Nat \ {0} /\ LinesOf[t] \in 0 .. MaxLines
  BY BuildAgentConstants
<1>5. ServerTypes'
  <2>1. CASE ~StoreLines(t)
    <3>1. UNCHANGED storeVars
      BY <2>1 DEF LogStep, Emit, Flush, RefuseLines, Acknowledged, FlushLost
    <3> QED  BY <1>1, <3>1 DEF TypeInv, ServerTypes, serverVars, storeVars
  <2>2. CASE StoreLines(t)
    <3>1. flight[t].from .. flight[t].to \subseteq Line
      BY <1>3, <1>4 DEF Line
    <3>2. stored' \in [Tasks -> SUBSET Line]
      BY <2>2, <3>1 DEF StoreLines, TypeInv, ServerTypes
    <3>3. told[t] + (IF flight[t].from \in stored[t] THEN 0 ELSE flight[t].dropped) \in Nat
      BY <1>3 DEF TypeInv, ServerTypes
    <3>4. told' \in [Tasks -> Nat]
      BY <2>2, <3>3 DEF StoreLines, TypeInv, ServerTypes
    <3> QED  BY <1>1, <3>2, <3>4 DEF TypeInv, ServerTypes, serverVars
  <2> QED  BY <2>1, <2>2
<1>6. LogTypes' /\ WithinBuffer' /\ InFlight'
  <2>1. CASE Emit(t)
    <3>1. UNCHANGED flight /\ next' = [next EXCEPT ![t] = @ + 1] /\ next[t] < LinesOf[t]
      BY <2>1 DEF Emit
    <3>2. next[t] + 1 \in 0 .. MaxLines /\ first[t] + 1 \in 0 .. MaxLines /\ dropped[t] + 1 \in Nat
      BY <1>3, <1>4, <3>1
    <3>3. next' \in [Tasks -> Line]
      BY <3>1, <3>2 DEF TypeInv, LogTypes, Line
    <3>4. CASE Full(t)
      <4>1. /\ first' = [first EXCEPT ![t] = @ + 1]
            /\ dropped' = [dropped EXCEPT ![t] = @ + 1]
        BY <2>1, <3>4 DEF Emit
      <4>2. first' \in [Tasks -> Line] /\ dropped' \in [Tasks -> Nat]
        BY <3>2, <4>1 DEF TypeInv, LogTypes, Line
      <4>3. WithinBuffer' /\ InFlight'
        BY <1>3, <1>4, <3>1, <4>1 DEF TypeInv, LogTypes, Line, WithinBuffer, InFlight, Flight
      <4> QED  BY <3>1, <3>3, <4>2, <4>3 DEF TypeInv, LogTypes
    <3>5. CASE ~Full(t)
      <4>1. UNCHANGED <<first, dropped>>
        BY <2>1, <3>5 DEF Emit
      <4>2. WithinBuffer' /\ InFlight'
        BY <1>3, <1>4, <3>1, <3>5, <4>1 DEF TypeInv, LogTypes, Line, WithinBuffer, InFlight, Flight, Full
      <4> QED  BY <3>1, <3>3, <4>1, <4>2 DEF TypeInv, LogTypes
    <3> QED  BY <3>4, <3>5
  <2>2. CASE Flush(t)
    <3>1. /\ UNCHANGED <<first, next, dropped>> /\ first[t] < next[t]
          /\ SetFlight(t, [from |-> first[t], to |-> BatchEnd(t), dropped |-> dropped[t],
                           answered |-> FALSE])
      BY <2>2 DEF Flush
    <3>2. BatchEnd(t) \in -1 .. MaxLines /\ BatchEnd(t) < next[t]
      BY <1>3, <1>4, <3>1 DEF BatchEnd
    <3>3. [from |-> first[t], to |-> BatchEnd(t), dropped |-> dropped[t], answered |-> FALSE] \in Flight
      BY <1>3, <3>2 DEF Flight, Line
    <3>4. flight' \in [Tasks -> Flight]
      BY <3>1, <3>3 DEF SetFlight, TypeInv, LogTypes
    <3>5. InFlight'
      BY <3>1, <3>2 DEF SetFlight, TypeInv, LogTypes, InFlight
    <3> QED  BY <3>1, <3>4, <3>5 DEF TypeInv, LogTypes, WithinBuffer
  <2>3. CASE StoreLines(t)
    <3>1. UNCHANGED <<first, next, dropped>> /\ SetFlight(t, [flight[t] EXCEPT !.answered = TRUE])
      BY <2>3 DEF StoreLines
    <3>2. /\ [flight[t] EXCEPT !.answered = TRUE] \in Flight
          /\ [flight[t] EXCEPT !.answered = TRUE].to = flight[t].to
      BY <1>3 DEF Flight
    <3>3. flight' \in [Tasks -> Flight] /\ InFlight'
      BY <1>3, <3>1, <3>2 DEF SetFlight, TypeInv, LogTypes, InFlight
    <3> QED  BY <3>1, <3>3 DEF TypeInv, LogTypes, WithinBuffer
  <2>4. CASE RefuseLines(t) \/ FlushLost(t)
    <3>1. UNCHANGED <<first, next, dropped>> /\ SetFlight(t, NoFlight)
      BY <2>4 DEF RefuseLines, FlushLost
    <3>2. flight' \in [Tasks -> Flight] /\ InFlight'
      BY <1>3, <3>1, NoFlightType DEF SetFlight, TypeInv, LogTypes, InFlight
    <3> QED  BY <3>1, <3>2 DEF TypeInv, LogTypes, WithinBuffer
  <2>5. CASE Acknowledged(t)
    <3>1. /\ UNCHANGED next /\ SetFlight(t, NoFlight)
          /\ first' = [first EXCEPT ![t] = AtLeast(first[t], flight[t].to + 1)]
          /\ dropped' = [dropped EXCEPT ![t] = StillDropped(t)]
      BY <2>5 DEF Acknowledged
    <3>2. /\ AtLeast(first[t], flight[t].to + 1) \in 0 .. MaxLines
          /\ AtLeast(first[t], flight[t].to + 1) >= first[t]
          /\ AtLeast(first[t], flight[t].to + 1) <= next[t]
      BY <1>3, <1>4 DEF AtLeast
    <3>3. StillDropped(t) \in Nat
      BY <1>3 DEF StillDropped, AtLeast
    <3>4. flight' \in [Tasks -> Flight] /\ InFlight'
      BY <1>3, <3>1, NoFlightType DEF SetFlight, TypeInv, LogTypes, InFlight
    <3>5. first' \in [Tasks -> Line] /\ dropped' \in [Tasks -> Nat]
      BY <3>1, <3>2, <3>3 DEF TypeInv, LogTypes, Line
    <3>6. next[t] - AtLeast(first[t], flight[t].to + 1) <= BufferSize
      <4> HIDE DEF AtLeast
      <4>1. AtLeast(first[t], flight[t].to + 1) \in Int
        BY <3>2
      <4> QED  BY <1>3, <1>4, <3>2, <4>1
    <3>7. WithinBuffer'
      BY <3>1, <3>2, <3>6 DEF TypeInv, LogTypes, WithinBuffer
    <3> QED  BY <3>1, <3>4, <3>5, <3>7 DEF TypeInv, LogTypes
  <2> QED  BY <2>1, <2>2, <2>3, <2>4, <2>5 DEF LogStep
<1> QED  BY <1>2, <1>5, <1>6 DEF TypeInv

LEMMA TypeEndLoop ==
    ASSUME EndLoop
    PROVE  at' = "end" /\ ready' = FALSE /\ todo' = {} /\ reply' = NoReply
BY DEF EndLoop

\* The log of a build that leaves is empty.
LEMMA TypeChange ==
    ASSUME TypeInv, NEW gone \in SUBSET Tasks, NEW started \in SUBSET Tasks,
           NEW aborting \in SUBSET Tasks,
           Change(gone, started, aborting), UNCHANGED <<next, flight>>
    PROVE  /\ active' \in SUBSET Tasks
           /\ aborted' \in SUBSET Tasks
           /\ result' \in [Tasks -> Result]
           /\ view' \in [Tasks -> 0 .. Lease]
           /\ LogTypes' /\ WithinBuffer' /\ InFlight'
<1>1. active' \in SUBSET Tasks /\ aborted' \in SUBSET Tasks
  BY DEF TypeInv, BuildTypes, Change
<1>2. result' \in [Tasks -> Result]
  BY DEF TypeInv, BuildTypes, Change, Result
<1>3. view' \in [Tasks -> 0 .. Lease]
  BY BuildAgentConstants DEF TypeInv, BuildTypes, Change
<1>4. first' \in [Tasks -> Line] /\ dropped' \in [Tasks -> Nat]
  BY DEF TypeInv, LogTypes, Change
<1>5. WithinBuffer'
  <2> SUFFICES ASSUME NEW t \in Tasks
               PROVE  first'[t] <= next[t] /\ next[t] - first'[t] <= BufferSize
    BY DEF WithinBuffer
  <2>1. first'[t] = next[t] \/ first'[t] = first[t]
    BY DEF Change
  <2>2. next[t] \in 0 .. MaxLines /\ first[t] <= next[t] /\ next[t] - first[t] <= BufferSize
    BY DEF TypeInv, LogTypes, Line, WithinBuffer
  <2> QED  BY <2>1, <2>2, BuildAgentConstants
<1> QED  BY <1>1, <1>2, <1>3, <1>4, <1>5 DEF TypeInv, LogTypes, InFlight

LEMMA TypeLoop == TypeInv /\ LoopStep => TypeInv'
<1> SUFFICES ASSUME TypeInv, LoopStep PROVE TypeInv'
  OBVIOUS
<1> USE BuildAgentConstants DEF TypeInv, At, Row, Stage, Result, serverVars, storeVars, buildVars
<1>a. ASSUME EndLoop, UNCHANGED cleaned, stopping' \in BOOLEAN PROVE LoopTypes'
  BY <1>a, NoReplyType DEF EndLoop, LoopTypes
<1>b. ASSUME UNCHANGED logVars PROVE LogTypes' /\ WithinBuffer' /\ InFlight'
  BY <1>b DEF logVars, LogTypes, WithinBuffer, InFlight
<1>c. ASSUME Unauthorized, UNCHANGED cleaned PROVE LoopTypes' /\ aborted' \in SUBSET Tasks
  BY <1>c, <1>a DEF Unauthorized, BuildTypes
<1>d. ASSUME UNCHANGED <<serverVars, storeVars>> PROVE ServerTypes'
  BY <1>d DEF ServerTypes
<1>1. CASE Check
  <2>1. ServerTypes' /\ LogTypes' /\ WithinBuffer' /\ InFlight'
    BY <1>1, <1>b, <1>d DEF Check
  <2>2. LoopTypes'
    BY <1>1, <1>a DEF Check, LoopTypes
  <2>3. BuildTypes'
    BY <1>1 DEF Check, CleanupOrphans, BuildTypes, Fault
  <2> QED  BY <2>1, <2>2, <2>3
<1>2. CASE Heartbeat
  <2>1. LogTypes' /\ WithinBuffer' /\ InFlight'
    BY <1>2, <1>b DEF Heartbeat
  <2>2. lease' \in [Tasks -> 0 .. Lease]
    BY <1>2 DEF Heartbeat, ServerTypes, Renew
  <2>3. ServerTypes'
    BY <1>2, <2>2 DEF Heartbeat, ServerTypes
  <2>4. BuildTypes'
    BY <1>2, <1>c DEF Heartbeat, BuildTypes, Fault
  <2>5. LoopTypes'
    <3>1. ASSUME NEW late \in SUBSET active
          PROVE  [canceled |-> {RunOf[t] : t \in active \ Renewable(late)}, lease |-> Lease] \in Reply
      BY DEF Reply, Runs, BuildTypes
    <3> QED  BY <1>2, <1>a, <1>c, <3>1 DEF Heartbeat, LoopTypes, BuildTypes
  <2> QED  BY <2>1, <2>3, <2>4, <2>5
<1>3. CASE AllSettled
  <2>1. ServerTypes' /\ LogTypes' /\ WithinBuffer' /\ InFlight'
    BY <1>3, <1>b, <1>d DEF AllSettled
  <2>2. LoopTypes'
    BY <1>3, <1>a, NoReplyType DEF AllSettled, LoopTypes
  <2> QED  BY <1>3, <2>1, <2>2 DEF AllSettled, BuildTypes, faultVars
<1>4. CASE NothingClaimed
  <2>1. ServerTypes' /\ LogTypes' /\ WithinBuffer' /\ InFlight'
    BY <1>4, <1>b, <1>d DEF NothingClaimed
  <2>2. LoopTypes'
    BY <1>4, <1>a, <1>c DEF NothingClaimed, LoopTypes
  <2>3. BuildTypes'
    BY <1>4, <1>c DEF NothingClaimed, BuildTypes, faultVars
  <2> QED  BY <2>1, <2>2, <2>3
<1>5. CASE EndTurn
  <2>1. PICK gone \in SUBSET Tasks : Change(gone, {}, {}) /\ at' \in {"exited", "top"}
    BY <1>5 DEF EndTurn, Leave, BuildTypes
  <2>2. BuildTypes' /\ LogTypes' /\ WithinBuffer' /\ InFlight'
    BY <1>5, <2>1, TypeChange DEF EndTurn, BuildTypes, faultVars
  <2>3. ServerTypes' /\ LoopTypes'
    BY <1>5, <1>d, <2>1 DEF EndTurn, LoopTypes
  <2> QED  BY <2>2, <2>3
<1>6. CASE Exit
  BY <1>6, <1>b, <1>d DEF Exit, LoopTypes, BuildTypes, faultVars
<1>7. ASSUME NEW t \in Tasks, SettleCanceled(t) PROVE TypeInv'
  <2>1. Change(Done(t), {}, {t}) /\ Done(t) \in SUBSET Tasks
    BY <1>7 DEF SettleCanceled, Leave, Done
  <2>2. {t} \in SUBSET Tasks /\ UNCHANGED <<stage, next, flight, faultVars>>
    BY <1>7 DEF SettleCanceled
  <2>3. BuildTypes' /\ LogTypes' /\ WithinBuffer' /\ InFlight'
    BY <2>1, <2>2, TypeChange DEF BuildTypes, faultVars
  <2>4. ServerTypes' /\ LoopTypes'
    BY <1>7, <1>d DEF SettleCanceled, LoopTypes
  <2> QED  BY <2>3, <2>4
<1>8. ASSUME NEW t \in Tasks, SettleRenewed(t) PROVE TypeInv'
  <2>1. view' \in [Tasks -> 0 .. Lease]
    BY <1>8 DEF SettleRenewed, LoopTypes, Reply, BuildTypes
  <2> QED  BY <1>8, <1>b, <1>d, <2>1 DEF SettleRenewed, LoopTypes, BuildTypes, faultVars
<1>9. ASSUME NEW t \in Tasks, ResultAccepted(t) PROVE TypeInv'
  <2>1. Change({t}, {}, {}) /\ UNCHANGED <<stage, next, flight, faultVars>>
    BY <1>9 DEF ResultAccepted, Leave
  <2>2. BuildTypes' /\ LogTypes' /\ WithinBuffer' /\ InFlight'
    BY <2>1, TypeChange DEF BuildTypes, faultVars
  <2>3. row' \in [Tasks -> Row] /\ lease' \in [Tasks -> 0 .. Lease]
    BY <1>9 DEF ResultAccepted, Reportable, SetRow, ServerTypes, BuildTypes
  <2>4. ServerTypes' /\ LoopTypes'
    BY <1>9, <2>3 DEF ResultAccepted, LoopTypes, ServerTypes
  <2> QED  BY <2>2, <2>4
<1>10. ASSUME NEW t \in Tasks, ResultFails(t) PROVE TypeInv'
  <2>1. view' \in [Tasks -> 0 .. Lease]
    BY <1>10 DEF ResultFails, LoopTypes, Reply, BuildTypes
  <2>2. BuildTypes'
    BY <1>10, <1>c, <2>1 DEF ResultFails, Fault, BuildTypes
  <2>3. row' \in [Tasks -> Row] /\ lease' \in [Tasks -> 0 .. Lease]
    BY <1>10 DEF ResultFails, Reportable, SetRow, ServerTypes, BuildTypes
  <2>4. ServerTypes'
    BY <1>10, <2>3 DEF ResultFails, ServerTypes
  <2>5. LoopTypes'
    BY <1>10, <1>a, <1>c DEF ResultFails, LoopTypes
  <2> QED  BY <1>10, <1>b, <2>2, <2>4, <2>5 DEF ResultFails
<1>11. ASSUME NEW t \in Tasks, Claim(t) PROVE TypeInv'
  <2>1. PICK gone \in SUBSET Tasks : Change(gone, {t}, {})
    BY <1>11 DEF Claim, BuildTypes
  <2>2. stage' \in [Tasks -> Stage] /\ UNCHANGED <<next, flight, faultVars>>
    BY <1>11 DEF Claim, BuildTypes
  <2>3. BuildTypes' /\ LogTypes' /\ WithinBuffer' /\ InFlight'
    BY <2>1, <2>2, TypeChange DEF BuildTypes, faultVars
  <2>4. row' \in [Tasks -> Row] /\ lease' \in [Tasks -> 0 .. Lease]
    BY <1>11 DEF Claim, GiveTask, ServerTypes
  <2>5. ServerTypes' /\ LoopTypes'
    BY <1>11, <2>4 DEF Claim, ServerTypes, LoopTypes, loopVars
  <2> QED  BY <2>3, <2>5
<1>12. ASSUME NEW t \in Tasks, ClaimLost(t) PROVE TypeInv'
  <2>1. ServerTypes'
    BY <1>12 DEF ClaimLost, GiveTask, ServerTypes
  <2>2. LoopTypes'
    BY <1>12, <1>a DEF ClaimLost, LoopTypes
  <2> QED  BY <1>12, <1>b, <2>1, <2>2 DEF ClaimLost, Fault, BuildTypes
<1> QED  BY <1>1, <1>2, <1>3, <1>4, <1>5, <1>6, <1>7, <1>8, <1>9, <1>10, <1>11, <1>12 DEF LoopStep

LEMMA TypeWorld == TypeInv /\ (Tick \/ Signal \/ Crash \/ Restart) => TypeInv'
<1> SUFFICES ASSUME TypeInv, Tick \/ Signal \/ Crash \/ Restart PROVE TypeInv'
  OBVIOUS
<1> USE BuildAgentConstants DEF TypeInv, serverVars, storeVars, buildVars, logVars, faultVars
<1>1. CASE Tick
  <2>1. ServerTypes'
    BY <1>1 DEF Tick, Less, ServerTypes
  <2>2. BuildTypes'
    BY <1>1 DEF Tick, Less, BuildTypes
  <2>3. reply' \in Reply
    BY <1>1 DEF Tick, Less, LoopTypes, Reply
  <2> QED  BY <1>1, <2>1, <2>2, <2>3 DEF Tick, LoopTypes, LogTypes, WithinBuffer, InFlight
<1>2. CASE Signal
  BY <1>2 DEF Signal, ServerTypes, LoopTypes, BuildTypes, LogTypes, WithinBuffer, InFlight
<1>3. CASE Crash
  <2>1. LoopTypes'
    BY <1>3, NoReplyType DEF Crash, LoopTypes, At
  <2>2. BuildTypes'
    BY <1>3 DEF Crash, Fault, BuildTypes, Stage, Result
  <2>3. LogTypes' /\ InFlight'
    BY <1>3, NoFlightType DEF Crash, LogTypes, InFlight, Line
  <2>4. WithinBuffer'
    BY <1>3 DEF Crash, LogTypes, WithinBuffer, Line
  <2> QED  BY <1>3, <2>1, <2>2, <2>3, <2>4 DEF Crash, ServerTypes
<1>4. CASE Restart
  BY <1>4 DEF Restart, At, ServerTypes, LoopTypes, BuildTypes, LogTypes, WithinBuffer, InFlight
<1> QED  BY <1>1, <1>2, <1>3, <1>4

LEMMA TypeStep == TypeInv /\ [Next]_vars => TypeInv'
<1> SUFFICES ASSUME TypeInv, [Next]_vars PROVE TypeInv'
  OBVIOUS
<1>1. CASE UNCHANGED vars
  BY <1>1 DEF TypeInv, ServerTypes, LoopTypes, BuildTypes, LogTypes, WithinBuffer, InFlight, vars,
     serverVars, storeVars, loopVars, buildVars, logVars, faultVars
<1> QED  BY <1>1, TypeServer, TypeBuild, TypeLog, TypeLoop, TypeWorld DEF Next

\* Every variable of a build server keeps its type, and no buffer grows beyond its size.
THEOREM TypeCorrect == Spec => []TypeOK
<1>1. TypeInv => TypeOK
  BY DEF TypeInv, TypeOK
<1> QED  BY <1>1, TypeInit, TypeStep, PTL DEF Spec

-----------------------------------------------------------------------------
(* Builds and their leases *)

Open(t) == row[t] \in {"ready", "running"}

\* A build at work is in `active`, without a result; its row is not given up, and while it runs
\* the process knows of some lease that is left.
WorkHeld(t) ==
    t \in Working => /\ t \in active
                     /\ row[t] \notin {"none", "ready", "lost"}
                     /\ result[t] = "none"
                     /\ row[t] = "running" => view[t] >= 1

\* What the process believes of a lease is never more than the server holds.
ViewHeld(t) ==
    IF t \in active
    THEN row[t] \notin {"none", "ready"} /\ (row[t] = "running" => view[t] <= lease[t])
    ELSE result[t] = "none"

\* That is so of what an answer to a heartbeat still has to tell.
ReplyHeld(t) ==
    t \in todo => /\ at = "settle" /\ t \in active
                  /\ view[t] <= reply.lease
                  /\ (RunOf[t] \notin reply.canceled /\ row[t] = "running")
                         => reply.lease <= lease[t]

\* A run has one attempt that is not lost, be it open or over.
OneAttempt ==
    \A t, u \in Tasks :
        t # u /\ RunOf[t] = RunOf[u] => row[t] \in {"none", "lost"} \/ row[u] \in {"none", "lost"}

\* Tasks are claimed after the containers of older processes are removed.
CleanFirst ==
    /\ cleaned => orphans = {}
    /\ ready => cleaned
    /\ at = "claim" => ready
    /\ Working # {} => cleaned

Held(t) == WorkHeld(t) /\ ViewHeld(t) /\ ReplyHeld(t)

LeaseInv == (\A t \in Tasks : Held(t)) /\ OneAttempt /\ CleanFirst

LEMMA Units ==
    ASSUME TypeInv, NEW t \in Tasks
    PROVE  /\ lease[t] \in Nat /\ view[t] \in Nat /\ reply.lease \in Nat
           /\ lease[t] <= Lease /\ view[t] <= Lease /\ reply.lease <= Lease
BY BuildAgentConstants DEF TypeInv, ServerTypes, BuildTypes, LoopTypes, Reply

LEMMA LeaseInit == Init => LeaseInv
BY DEF Init, LeaseInv, Held, WorkHeld, ViewHeld, ReplyHeld, OneAttempt, Open, CleanFirst, Working

LEMMA LeaseServer == TypeInv /\ LeaseInv /\ Server => LeaseInv'
<1> SUFFICES ASSUME TypeInv, LeaseInv, Server PROVE LeaseInv'
  OBVIOUS
<1>1. UNCHANGED <<loopVars, buildVars, faultVars>>
  BY DEF Server, Revoke, Reserve, EndRun, LeaseLost
<1>2. CleanFirst'
  BY <1>1 DEF LeaseInv, CleanFirst, Working, loopVars, buildVars, faultVars
<1> USE DEF TypeInv, ServerTypes
<1>3. CASE Revoke
  <2>1. \A t \in Tasks : row'[t] = (IF Open(t) THEN "ended" ELSE row[t])
    BY <1>3 DEF Revoke, Open
  <2>2. OneAttempt'
    BY <2>1 DEF LeaseInv, OneAttempt, Open
  <2>3. \A t \in Tasks : Held(t)'
    BY <1>1, <2>1 DEF LeaseInv, Held, WorkHeld, ViewHeld, ReplyHeld, Open, Working, loopVars, buildVars
  <2> QED  BY <1>2, <2>2, <2>3 DEF LeaseInv
<1>4. ASSUME NEW t \in Tasks, Reserve(t) PROVE LeaseInv'
  <2>1. /\ row' = [row EXCEPT ![t] = "ready"] /\ row[t] = "none"
        /\ lease' = [lease EXCEPT ![t] = Lease]
        /\ \A u \in Tasks \ {t} : RunOf[u] = RunOf[t] => row[u] \in {"none", "lost"}
    BY <1>4 DEF Reserve
  <2>2. OneAttempt'
    BY <2>1 DEF LeaseInv, OneAttempt, Open
  <2>3. t \notin active
    BY <2>1 DEF LeaseInv, Held, ViewHeld
  <2>4. \A u \in Tasks : Held(u)'
    BY <1>1, <2>1, <2>3 DEF LeaseInv, Held, WorkHeld, ViewHeld, ReplyHeld, Working, loopVars, buildVars
  <2> QED  BY <1>2, <2>2, <2>4 DEF LeaseInv
<1>5. ASSUME NEW t \in Tasks, EndRun(t) PROVE LeaseInv'
  <2>1. /\ row' = [row EXCEPT ![t] = "ended"] /\ Open(t)
        /\ lease' = [lease EXCEPT ![t] = 0]
    BY <1>5 DEF EndRun, SetRow, Open
  <2>2. OneAttempt'
    BY <2>1 DEF LeaseInv, OneAttempt, Open
  <2>3. \A u \in Tasks : Held(u)'
    BY <1>1, <2>1 DEF LeaseInv, Held, WorkHeld, ViewHeld, ReplyHeld, Working, Open, loopVars, buildVars
  <2> QED  BY <1>2, <2>2, <2>3 DEF LeaseInv
<1>6. ASSUME NEW t \in Tasks, LeaseLost(t) PROVE LeaseInv'
  <2>1. /\ row' = [row EXCEPT ![t] = "lost"] /\ Open(t) /\ lease[t] = 0
        /\ lease' = [lease EXCEPT ![t] = 0]
    BY <1>6 DEF LeaseLost, SetRow, Open
  <2>2. t \notin Working
    <3>1. t \in Working => row[t] = "running" /\ 1 <= view[t] /\ view[t] <= lease[t]
      BY <2>1 DEF LeaseInv, Held, WorkHeld, ViewHeld, Open
    <3> QED  BY <2>1, <3>1, Units
  <2>3. OneAttempt'
    BY <2>1 DEF LeaseInv, OneAttempt, Open
  <2>4. \A u \in Tasks : Held(u)'
    BY <1>1, <2>1, <2>2 DEF LeaseInv, Held, WorkHeld, ViewHeld, ReplyHeld, Working, Open, loopVars, buildVars
  <2> QED  BY <1>2, <2>3, <2>4 DEF LeaseInv
<1> QED  BY <1>3, <1>4, <1>5, <1>6 DEF Server

LEMMA LeaseBuild ==
    ASSUME TypeInv, LeaseInv, NEW t \in Tasks, BuildStep(t)
    PROVE  LeaseInv'
<1>1. UNCHANGED <<serverVars, loopVars, faultVars, active, view>>
  BY DEF BuildStep, Watchdog, TimerFires, Prepared, Pinned, Built, Breaks, SetStage, RemoveContainers
<1>2. OneAttempt'
  BY <1>1 DEF LeaseInv, OneAttempt, Open, serverVars
<1>3. Working' \subseteq Working
  BY DEF BuildStep, Watchdog, TimerFires, Prepared, Pinned, Built, Breaks, SetStage,
     RemoveContainers, Working, TypeInv, BuildTypes
<1>4. CleanFirst'
  BY <1>1, <1>3 DEF LeaseInv, CleanFirst, loopVars, faultVars
<1>5. UNCHANGED result
      \/ (t \in Working /\ t \notin Working' /\ \A u \in Tasks \ {t} : result'[u] = result[u])
  BY DEF BuildStep, Watchdog, TimerFires, Prepared, Pinned, Built, Breaks, SetStage,
     RemoveContainers, Working, TypeInv, BuildTypes
<1>6. \A u \in Tasks : Held(u)'
  BY <1>1, <1>3, <1>5 DEF LeaseInv, Held, WorkHeld, ViewHeld, ReplyHeld, serverVars, loopVars
<1> QED  BY <1>2, <1>4, <1>6 DEF LeaseInv

LEMMA LeaseLog ==
    ASSUME LeaseInv, NEW t \in Tasks, LogStep(t)
    PROVE  LeaseInv'
<1>1. UNCHANGED <<serverVars, loopVars, buildVars, orphans>>
  BY DEF LogStep, Emit, Flush, StoreLines, RefuseLines, Acknowledged, FlushLost, faultVars
<1> QED  BY <1>1 DEF LeaseInv, Held, WorkHeld, ViewHeld, ReplyHeld, OneAttempt, Open, CleanFirst,
            Working, serverVars, loopVars, buildVars

\* Nothing is given up or taken on by a step that leaves rows and builds alone.
LEMMA LeaseCalm ==
    ASSUME LeaseInv, UNCHANGED <<row, lease, active, stage, result, view>>,
           UNCHANGED <<todo, reply, at>> \/ todo' = {}
    PROVE  (\A t \in Tasks : Held(t)') /\ OneAttempt'
BY DEF LeaseInv, Held, WorkHeld, ViewHeld, ReplyHeld, OneAttempt, Open, Working

\* Builds leave that have settled.
LEMMA LeaseLeave ==
    ASSUME LeaseInv, NEW gone \in SUBSET Tasks, NEW aborting \in SUBSET Tasks,
           Leave(gone, aborting), \A t \in gone : t \notin Working,
           UNCHANGED <<stage, reply, at>> \/ (UNCHANGED stage /\ todo = {}),
           todo' = todo \ gone,
           \A t \in Tasks \ gone : row'[t] = row[t] /\ lease'[t] = lease[t]
    PROVE  \A t \in Tasks : Held(t)'
<1> SUFFICES ASSUME NEW t \in Tasks PROVE Held(t)'
  OBVIOUS
<1>1. CASE t \in gone
  BY <1>1 DEF Held, WorkHeld, ViewHeld, ReplyHeld, Working, Leave, Change
<1>2. CASE t \notin gone
  BY <1>2 DEF LeaseInv, Held, WorkHeld, ViewHeld, ReplyHeld, Working, Leave, Change
<1> QED  BY <1>1, <1>2

\* The result of an attempt ends it.
LEMMA LeaseResult ==
    ASSUME TypeInv, OneAttempt, NEW t \in Tasks, Owned(t), result[t] # "none", SetRow(t, result[t])
    PROVE  /\ OneAttempt'
           /\ row'[t] \in {"succeeded", "failed"}
           /\ \A u \in Tasks \ {t} : row'[u] = row[u] /\ lease'[u] = lease[u]
<1>1. result[t] \in {"succeeded", "failed"}
  BY DEF TypeInv, BuildTypes, Result
<1>2. row' = [row EXCEPT ![t] = result[t]] /\ lease' = [lease EXCEPT ![t] = 0] /\ row[t] = "running"
  BY DEF SetRow, Owned
<1> QED  BY <1>1, <1>2 DEF TypeInv, ServerTypes, OneAttempt, Open

\* The process learns what is left of a lease, after the build was found without need of a
\* result, or before its result was sent.
LEMMA LeaseTold ==
    ASSUME TypeInv, LeaseInv, NEW t \in todo, t \in Tasks, RunOf[t] \notin reply.canceled,
           view' = [view EXCEPT ![t] = reply.lease],
           UNCHANGED <<active, stage, result>>,
           (todo' = todo \ {t} /\ UNCHANGED <<at, reply>>) \/ todo' = {},
           \A u \in Tasks \ {t} : row'[u] = row[u] /\ lease'[u] = lease[u],
           \/ row'[t] = row[t] /\ lease'[t] = lease[t]
           \/ row'[t] \in {"succeeded", "failed"}
    PROVE  \A u \in Tasks : Held(u)'
<1>1. view \in [Tasks -> 0 .. Lease]
  BY DEF TypeInv, BuildTypes
<1>2. Held(t)'
  <2>1. t \in Working /\ row[t] = "running" => reply.lease >= 1
    BY Units DEF LeaseInv, Held, WorkHeld, ReplyHeld
  <2> QED  BY <1>1, <2>1 DEF LeaseInv, Held, WorkHeld, ViewHeld, ReplyHeld, Working
<1>3. ASSUME NEW u \in Tasks \ {t} PROVE Held(u)'
  BY <1>1, <1>3 DEF LeaseInv, Held, WorkHeld, ViewHeld, ReplyHeld, Working
<1> QED  BY <1>2, <1>3

LEMMA LeaseHeartbeat == TypeInv /\ LeaseInv /\ Heartbeat => LeaseInv'
<1> SUFFICES ASSUME TypeInv, LeaseInv, Heartbeat PROVE LeaseInv'
  OBVIOUS
<1>1. /\ at = "heartbeat"
      /\ UNCHANGED <<row, revoked, cleaned, active, stage, result, view, orphans>>
  BY DEF Heartbeat
<1>2. CleanFirst'
  BY <1>1 DEF Heartbeat, Unauthorized, EndLoop, LeaseInv, CleanFirst, Working
<1>3. OneAttempt'
  BY <1>1 DEF LeaseInv, OneAttempt, Open
<1>4. CASE todo' = {} /\ UNCHANGED lease
  BY <1>1, <1>2, <1>4, LeaseCalm DEF LeaseInv
<1>5. ASSUME NEW late \in SUBSET active, Renew(Renewable(late)),
             \/ todo' = {}
             \/ /\ reply' = [canceled |-> {RunOf[t] : t \in active \ Renewable(late)},
                             lease |-> Lease]
                /\ todo' = active
                /\ at' = "settle"
      PROVE  LeaseInv'
  <2> SUFFICES ASSUME NEW t \in Tasks PROVE Held(t)'
    BY <1>2, <1>3 DEF LeaseInv
  <2>1. lease'[t] = (IF t \in Renewable(late) THEN Lease ELSE lease[t])
    BY <1>5 DEF Renew
  <2>2. WorkHeld(t)'
    BY <1>1 DEF LeaseInv, Held, WorkHeld, Working
  <2>3. ViewHeld(t)'
    BY <1>1, <2>1, Units DEF LeaseInv, Held, ViewHeld
  <2>4. ReplyHeld(t)'
    <3>1. CASE todo' = {}
      BY <3>1 DEF ReplyHeld
    <3>2. CASE ~(todo' = {})
      <4>1. /\ reply'.canceled = {RunOf[u] : u \in active \ Renewable(late)} /\ reply'.lease = Lease
            /\ todo' = active /\ at' = "settle"
        BY <1>5, <3>2
      <4>2. t \in active /\ RunOf[t] \notin reply'.canceled => t \in Renewable(late)
        BY <4>1
      <4> QED  BY <1>1, <2>1, <4>1, <4>2, Units, BuildAgentConstants DEF ReplyHeld
    <3> QED  BY <3>1, <3>2
  <2> QED  BY <2>2, <2>3, <2>4 DEF Held
<1> QED  BY <1>4, <1>5 DEF Heartbeat, Unauthorized, EndLoop

LEMMA LeaseClaim ==
    ASSUME TypeInv, LeaseInv, NEW t \in Tasks, Claim(t)
    PROVE  LeaseInv'
<1> DEFINE gone == {u \in active : RunOf[u] = RunOf[t]}
<1>1. /\ at = "claim" /\ row[t] = "ready" /\ todo = {}
      /\ row' = [row EXCEPT ![t] = "running"] /\ lease' = [lease EXCEPT ![t] = Lease]
      /\ Change(gone, {t}, {})
      /\ stage' = [stage EXCEPT ![t] = "prepare"]
      /\ UNCHANGED <<loopVars, faultVars>>
  BY DEF Claim, Claimable, GiveTask, LeaseInv, Held, ReplyHeld, TypeInv, LoopTypes
<1>2. t \notin active /\ result[t] = "none"
  BY <1>1 DEF LeaseInv, Held, ViewHeld
<1>3. \A u \in gone : row[u] \in {"none", "lost"} /\ u \notin Working
  BY <1>1, <1>2 DEF LeaseInv, OneAttempt, Open, Held, WorkHeld, TypeInv, BuildTypes
<1>4. OneAttempt'
  BY <1>1 DEF LeaseInv, OneAttempt, Open, TypeInv, ServerTypes
<1>5. CleanFirst'
  BY <1>1 DEF LeaseInv, CleanFirst, loopVars, faultVars
<1>6. Held(t)'
  <2>1. row'[t] = "running" /\ lease'[t] = Lease /\ view'[t] = Lease /\ result'[t] = "none"
        /\ t \in active'
    BY <1>1, <1>2 DEF Change, TypeInv, ServerTypes
  <2> QED  BY <1>1, <2>1, BuildAgentConstants DEF Held, WorkHeld, ViewHeld, ReplyHeld, loopVars
<1>7. ASSUME NEW u \in Tasks \ {t} PROVE Held(u)'
  <2>1. row'[u] = row[u] /\ lease'[u] = lease[u] /\ stage'[u] = stage[u] /\ todo' = {}
    BY <1>1, <1>7 DEF TypeInv, ServerTypes, BuildTypes, loopVars
  <2>2. CASE u \in gone
    BY <1>1, <1>3, <1>7, <2>1, <2>2 DEF Held, WorkHeld, ViewHeld, ReplyHeld, Change, Working
  <2>3. CASE u \notin gone
    BY <1>1, <1>7, <2>1, <2>3 DEF LeaseInv, Held, WorkHeld, ViewHeld, ReplyHeld, Change, Working
  <2> QED  BY <2>2, <2>3
<1> QED  BY <1>4, <1>5, <1>6, <1>7 DEF LeaseInv

LEMMA LeaseLoop == TypeInv /\ LeaseInv /\ LoopStep => LeaseInv'
<1> SUFFICES ASSUME TypeInv, LeaseInv, LoopStep PROVE LeaseInv'
  OBVIOUS
<1>a. at # "settle" => todo = {}
  BY DEF LeaseInv, Held, ReplyHeld, TypeInv, LoopTypes
<1>b. ASSUME UNCHANGED <<cleaned, stage, orphans>>, ready' = ready \/ ready' = FALSE,
             at' = "claim" => at = "claim" /\ UNCHANGED ready
      PROVE  CleanFirst'
  BY <1>b DEF LeaseInv, CleanFirst, Working
<1>1. CASE Check
  <2>1. CleanFirst'
    BY <1>1 DEF Check, CleanupOrphans, EndLoop, LeaseInv, CleanFirst, Working
  <2>2. (\A t \in Tasks : Held(t)') /\ OneAttempt'
    BY <1>1, <1>a, LeaseCalm DEF Check, EndLoop, serverVars
  <2> QED  BY <2>1, <2>2 DEF LeaseInv
<1>2. CASE AllSettled
  <2>1. CleanFirst'
    BY <1>2 DEF AllSettled, EndLoop, LeaseInv, CleanFirst, Working, buildVars, faultVars
  <2>2. (\A t \in Tasks : Held(t)') /\ OneAttempt'
    BY <1>2, LeaseCalm DEF AllSettled, EndLoop, serverVars, buildVars
  <2> QED  BY <2>1, <2>2 DEF LeaseInv
<1>3. CASE NothingClaimed
  <2>1. CleanFirst'
    BY <1>3, <1>b DEF NothingClaimed, Unauthorized, EndLoop, faultVars
  <2>2. (\A t \in Tasks : Held(t)') /\ OneAttempt'
    BY <1>3, LeaseCalm DEF NothingClaimed, Unauthorized, EndLoop, serverVars
  <2> QED  BY <2>1, <2>2 DEF LeaseInv
<1>4. CASE EndTurn
  <2>1. PICK gone \in SUBSET Tasks : /\ Leave(gone, {})
                                     /\ \A t \in gone : t \in active /\ result[t] # "none"
    BY <1>4 DEF EndTurn, TypeInv, BuildTypes
  <2>2. CleanFirst'
    BY <1>4, <1>b DEF EndTurn, faultVars
  <2>3. OneAttempt'
    BY <1>4 DEF EndTurn, LeaseInv, OneAttempt, Open, serverVars
  <2>4. \A t \in gone : t \notin Working
    BY <2>1 DEF LeaseInv, Held, WorkHeld
  <2>5. \A t \in Tasks : Held(t)'
    BY <1>4, <1>a, <2>1, <2>4, LeaseLeave DEF EndTurn, serverVars
  <2> QED  BY <2>2, <2>3, <2>5 DEF LeaseInv
<1>5. CASE Exit
  <2>1. CleanFirst'
    BY <1>5, <1>b DEF Exit, buildVars, faultVars
  <2>2. (\A t \in Tasks : Held(t)') /\ OneAttempt'
    BY <1>5, <1>a, LeaseCalm DEF Exit, serverVars, buildVars
  <2> QED  BY <2>1, <2>2 DEF LeaseInv
<1>6. ASSUME NEW t \in Tasks, SettleCanceled(t) PROVE LeaseInv'
  <2>1. CleanFirst'
    BY <1>6, <1>b DEF SettleCanceled, faultVars
  <2>2. OneAttempt'
    BY <1>6 DEF SettleCanceled, LeaseInv, OneAttempt, Open, serverVars
  <2>3. CASE Done(t) = {t}
    <3>1. t \notin Working
      BY <2>3 DEF Done, LeaseInv, Held, WorkHeld
    <3>2. \A u \in Tasks : Held(u)'
      BY <1>6, <2>3, <3>1, LeaseLeave DEF SettleCanceled, serverVars
    <3> QED  BY <2>1, <2>2, <3>2 DEF LeaseInv
  <2>4. CASE Done(t) = {}
    <3>1. UNCHANGED <<serverVars, active, stage, result, view, reply, at>> /\ todo' \subseteq todo
      BY <1>6, <2>4 DEF SettleCanceled, Leave, Change, TypeInv, BuildTypes
    <3>2. \A u \in Tasks : Held(u)'
      BY <3>1 DEF LeaseInv, Held, WorkHeld, ViewHeld, ReplyHeld, Working, serverVars
    <3> QED  BY <2>1, <2>2, <3>2 DEF LeaseInv
  <2> QED  BY <2>3, <2>4 DEF Done
<1>7. ASSUME NEW t \in Tasks, SettleRenewed(t) PROVE LeaseInv'
  <2>1. CleanFirst'
    BY <1>7, <1>b DEF SettleRenewed, faultVars
  <2>2. OneAttempt'
    BY <1>7 DEF SettleRenewed, LeaseInv, OneAttempt, Open, serverVars
  <2>3. \A u \in Tasks : Held(u)'
    BY <1>7, LeaseTold DEF SettleRenewed, Settling, serverVars
  <2> QED  BY <2>1, <2>2, <2>3 DEF LeaseInv
<1>8. ASSUME NEW t \in Tasks, ResultAccepted(t) PROVE LeaseInv'
  <2>1. CleanFirst'
    BY <1>8, <1>b DEF ResultAccepted, faultVars
  <2>2. t \notin Working
    BY <1>8 DEF ResultAccepted, Reportable, LeaseInv, Held, WorkHeld
  <2>3. OneAttempt' /\ \A u \in Tasks \ {t} : row'[u] = row[u] /\ lease'[u] = lease[u]
    BY <1>8, LeaseResult DEF ResultAccepted, Reportable, Answers, LeaseInv
  <2>4. \A u \in Tasks : Held(u)'
    BY <1>8, <2>2, <2>3, LeaseLeave DEF ResultAccepted
  <2> QED  BY <2>1, <2>3, <2>4 DEF LeaseInv
<1>9. ASSUME NEW t \in Tasks, ResultFails(t) PROVE LeaseInv'
  <2>1. /\ EndLoop /\ UNCHANGED <<cleaned, active, stage, result, orphans>>
        /\ t \in todo /\ RunOf[t] \notin reply.canceled /\ result[t] # "none"
        /\ view' = [view EXCEPT ![t] = reply.lease]
        /\ UNCHANGED <<row, lease>> \/ (Owned(t) /\ SetRow(t, result[t]))
    BY <1>9 DEF ResultFails, Unauthorized, Settling, Reportable, Answers
  <2>2. CleanFirst'
    BY <1>b, <2>1 DEF EndLoop
  <2>3. CASE UNCHANGED <<row, lease>>
    <3>1. OneAttempt'
      BY <2>3 DEF LeaseInv, OneAttempt, Open
    <3>2. \A u \in Tasks : Held(u)'
      BY <2>1, <2>3, LeaseTold DEF EndLoop
    <3> QED  BY <2>2, <3>1, <3>2 DEF LeaseInv
  <2>4. CASE Owned(t) /\ SetRow(t, result[t])
    <3>1. /\ OneAttempt' /\ row'[t] \in {"succeeded", "failed"}
          /\ \A u \in Tasks \ {t} : row'[u] = row[u] /\ lease'[u] = lease[u]
      BY <2>1, <2>4, LeaseResult DEF LeaseInv
    <3>2. \A u \in Tasks : Held(u)'
      BY <2>1, <3>1, LeaseTold DEF EndLoop
    <3> QED  BY <2>2, <3>1, <3>2 DEF LeaseInv
  <2> QED  BY <2>1, <2>3, <2>4
<1>10. ASSUME NEW t \in Tasks, ClaimLost(t) PROVE LeaseInv'
  <2>1. /\ EndLoop /\ UNCHANGED <<cleaned, orphans, buildVars>> /\ row[t] = "ready" /\ todo = {}
        /\ row' = [row EXCEPT ![t] = "running"] /\ lease' = [lease EXCEPT ![t] = Lease]
    BY <1>10, <1>a DEF ClaimLost, Claimable, GiveTask
  <2>2. CleanFirst'
    BY <1>b, <2>1 DEF EndLoop, buildVars
  <2>3. OneAttempt'
    BY <2>1 DEF LeaseInv, OneAttempt, Open, TypeInv, ServerTypes
  <2>4. t \notin active
    BY <2>1 DEF LeaseInv, Held, ViewHeld
  <2>5. \A u \in Tasks : Held(u)'
    BY <2>1, <2>4 DEF LeaseInv, Held, WorkHeld, ViewHeld, ReplyHeld, Working, EndLoop, buildVars,
       TypeInv, ServerTypes
  <2> QED  BY <2>2, <2>3, <2>5 DEF LeaseInv
<1> QED  BY <1>1, <1>2, <1>3, <1>4, <1>5, <1>6, <1>7, <1>8, <1>9, <1>10, LeaseHeartbeat, LeaseClaim
         DEF LoopStep

LEMMA LeaseWorld == TypeInv /\ LeaseInv /\ (Tick \/ Signal \/ Crash \/ Restart) => LeaseInv'
<1> SUFFICES ASSUME TypeInv, LeaseInv, Tick \/ Signal \/ Crash \/ Restart PROVE LeaseInv'
  OBVIOUS
<1>1. CASE Tick
  <2>1. /\ UNCHANGED <<row, at, ready, cleaned, todo, active, stage, result, orphans>>
        /\ \A t \in Tasks : lease'[t] = Less(lease[t]) /\ view'[t] = Less(view[t])
        /\ reply'.lease = Less(reply.lease) /\ reply'.canceled = reply.canceled
    BY <1>1 DEF Tick, TypeInv, LoopTypes, Reply, faultVars
  <2>2. OneAttempt' /\ CleanFirst'
    BY <2>1 DEF LeaseInv, OneAttempt, Open, CleanFirst, Working
  <2>3. \A x, y \in Nat : x <= y => Less(x) <= Less(y)
    BY DEF Less
  <2> SUFFICES ASSUME NEW t \in Tasks PROVE Held(t)'
    BY <2>2 DEF LeaseInv
  <2>4. t \in Working => view[t] > 1
    <3>1. t \in Working => t \notin aborted
      BY <1>1 DEF Tick, Working
    <3> QED  BY <1>1, <3>1, Units DEF Tick, Due, LeaseInv, Held, WorkHeld
  <2>5. t \in Working => Less(view[t]) >= 1
    BY <2>4, Units DEF Less
  <2>6. WorkHeld(t)'
    BY <2>1, <2>5 DEF LeaseInv, Held, WorkHeld, Working
  <2>7. ViewHeld(t)'
    BY <2>1, <2>3, Units DEF LeaseInv, Held, ViewHeld
  <2>8. ReplyHeld(t)'
    BY <2>1, <2>3, Units DEF LeaseInv, Held, ReplyHeld
  <2> QED  BY <2>6, <2>7, <2>8 DEF Held
<1>2. CASE Signal
  BY <1>2 DEF Signal, LeaseInv, Held, WorkHeld, ViewHeld, ReplyHeld, OneAttempt, Open, CleanFirst,
     Working, serverVars, faultVars
<1>3. CASE Crash
  <2>1. OneAttempt' /\ CleanFirst'
    BY <1>3 DEF Crash, LeaseInv, OneAttempt, Open, CleanFirst, Working, serverVars
  <2>2. \A t \in Tasks : Held(t)'
    BY <1>3 DEF Crash, Held, WorkHeld, ViewHeld, ReplyHeld, Working
  <2> QED  BY <2>1, <2>2 DEF LeaseInv
<1>4. CASE Restart
  <2>1. CleanFirst'
    BY <1>4 DEF Restart, LeaseInv, CleanFirst, Working, buildVars, faultVars
  <2>2. todo = {}
    BY <1>4 DEF Restart, LeaseInv, Held, ReplyHeld, TypeInv, LoopTypes
  <2>3. (\A t \in Tasks : Held(t)') /\ OneAttempt'
    BY <1>4, <2>2, LeaseCalm DEF Restart, serverVars, buildVars
  <2> QED  BY <2>1, <2>3 DEF LeaseInv
<1> QED  BY <1>1, <1>2, <1>3, <1>4

LEMMA LeaseStep == TypeInv /\ LeaseInv /\ [Next]_vars => LeaseInv'
<1> SUFFICES ASSUME TypeInv, LeaseInv, [Next]_vars PROVE LeaseInv'
  OBVIOUS
<1>1. CASE UNCHANGED vars
  BY <1>1 DEF LeaseInv, Held, WorkHeld, ViewHeld, ReplyHeld, OneAttempt, Open, CleanFirst, Working,
     vars, serverVars, loopVars, buildVars, faultVars
<1> QED  BY <1>1, LeaseServer, LeaseBuild, LeaseLog, LeaseLoop, LeaseWorld DEF Next

\* No build outlives its lease, whatever answers are lost, attempts follow each other and
\* processes die; and none runs beside the containers of a process that died.
THEOREM LeaseHeld == Spec => []BuildsHoldTheirLease
<1>1. LeaseInv => BuildsHoldTheirLease
  <2> SUFFICES ASSUME LeaseInv PROVE BuildsHoldTheirLease
    OBVIOUS
  <2>1. Working \subseteq Tasks
    BY DEF Working
  <2> QED  BY <2>1 DEF LeaseInv, Held, WorkHeld, CleanFirst, BuildsHoldTheirLease
<1> QED  BY <1>1, TypeInit, TypeStep, LeaseInit, LeaseStep, PTL DEF Spec

\* Of the attempts of a run at most one is at work, and none works beside one whose result the
\* server has taken.
OneAtWork ==
    \A t, u \in Tasks :
        /\ t # u /\ RunOf[t] = RunOf[u]
        /\ t \in Working
        => u \notin Working /\ row[u] \notin {"succeeded", "failed"}

\* The process keys its builds by run, and a new attempt takes the place of an older one without
\* waiting for it: no two attempts of a run are ever built at once, for whichever answers are
\* lost the older one has settled before the newer can be claimed.
THEOREM AttemptsTakeTurns == Spec => []OneAtWork
<1>1. LeaseInv => OneAtWork
  <2> SUFFICES ASSUME LeaseInv, NEW t \in Tasks, NEW u \in Tasks,
                      t # u, RunOf[t] = RunOf[u], t \in Working
               PROVE  u \notin Working /\ row[u] \notin {"succeeded", "failed"}
    BY DEF OneAtWork
  <2>1. row[t] \notin {"none", "lost"}
    BY DEF LeaseInv, Held, WorkHeld
  <2>2. row[u] \in {"none", "lost"}
    BY <2>1 DEF LeaseInv, OneAttempt
  <2> QED  BY <2>2 DEF LeaseInv, Held, WorkHeld
<1> QED  BY <1>1, TypeInit, TypeStep, LeaseInit, LeaseStep, PTL DEF Spec

-----------------------------------------------------------------------------
(* Lines that are lost *)

\* How many of the first m lines are not in S.
Lost(S, m) == Cardinality((0 .. m - 1) \ S)

LEMMA LostNat ==
    ASSUME NEW S, NEW m \in Nat
    PROVE  IsFiniteSet((0 .. m - 1) \ S) /\ Lost(S, m) \in Nat
<1>1. IsFiniteSet(0 .. m - 1)
  BY FS_Interval
<1>2. (0 .. m - 1) \ S \in SUBSET (0 .. m - 1)
  OBVIOUS
<1>3. IsFiniteSet((0 .. m - 1) \ S)
  BY <1>1, <1>2, FS_Subset
<1> QED  BY <1>3, FS_CardinalityType DEF Lost

LEMMA LostNone == \A S : Lost(S, 0) = 0
<1> SUFFICES ASSUME NEW S PROVE Lost(S, 0) = 0
  OBVIOUS
<1>1. (0 .. 0 - 1) \ S = {}
  OBVIOUS
<1> QED  BY <1>1, FS_EmptySet DEF Lost

\* From one line to a later one no more are lost than there are between them.
LEMMA LostBetween ==
    ASSUME NEW S, NEW a \in Nat, NEW b \in Nat, a <= b
    PROVE  Lost(S, b) <= Lost(S, a) + (b - a)
<1> DEFINE A == (0 .. a - 1) \ S
           B == (0 .. b - 1) \ S
           D == a .. b - 1
<1>1. IsFiniteSet(A) /\ IsFiniteSet(B) /\ Cardinality(A) \in Nat /\ Cardinality(B) \in Nat
  BY LostNat DEF Lost
<1>2. a \in Int /\ b - 1 \in Int
  OBVIOUS
<1>3. IsFiniteSet(D) /\ Cardinality(D) = (IF a > b - 1 THEN 0 ELSE (b - 1) - a + 1)
  BY <1>2, FS_Interval
<1>4. Cardinality(D) = b - a
  BY <1>3
<1>5. B \subseteq A \cup D
  OBVIOUS
<1>6. IsFiniteSet(A \cup D)
      /\ Cardinality(A \cup D) = Cardinality(A) + Cardinality(D) - Cardinality(A \cap D)
  BY <1>1, <1>3, FS_Union
<1>7. A \cap D \in SUBSET A
  OBVIOUS
<1>8. IsFiniteSet(A \cap D)
  BY <1>1, <1>7, FS_Subset
<1>9. Cardinality(A \cap D) \in Nat
  BY <1>8, FS_CardinalityType
<1>10. B \in SUBSET (A \cup D)
  BY <1>5
<1>11. Cardinality(B) <= Cardinality(A \cup D)
  BY <1>6, <1>10, FS_Subset
<1>12. Cardinality(B) <= Cardinality(A) + (b - a)
  <2> HIDE DEF A, B, D
  <2> QED  BY <1>1, <1>4, <1>6, <1>9, <1>11
<1> QED  BY <1>12 DEF Lost

\* Lines that are there from a on are not lost.
LEMMA LostCovered ==
    ASSUME NEW S, NEW T, S \subseteq T, NEW a \in Nat, NEW m \in Nat,
           \A i \in a .. m - 1 : i \in T
    PROVE  Lost(T, m) <= Lost(S, a)
<1>1. (0 .. m - 1) \ T \in SUBSET ((0 .. a - 1) \ S)
  OBVIOUS
<1> QED  BY <1>1, LostNat, FS_Subset DEF Lost

\* Lost lines before a stored one are told of.
ToldBefore(t) == \A m \in stored[t] : Lost(stored[t], m) <= told[t]

\* Before the buffer no more are lost than the stored lines tell of and the next one will; and
\* while lines are on their way, the buffer has moved by what was dropped since.
Buffered(t) ==
    t \in active =>
        /\ ~flight[t].answered => Lost(stored[t], first[t]) <= told[t] + dropped[t]
        /\ flight[t] # NoFlight => /\ flight[t].from <= flight[t].to
                                   /\ first[t] < next[t]
                                   /\ flight[t].dropped <= dropped[t]
                                   /\ first[t] = flight[t].from + (dropped[t] - flight[t].dropped)
        /\ flight[t] = NoFlight /\ first[t] = next[t] => Lost(stored[t], next[t]) <= told[t]

OnTheWay(t) ==
    flight[t] # NoFlight =>
        IF flight[t].answered
        THEN /\ flight[t].from .. flight[t].to \subseteq stored[t]
             /\ Lost(stored[t], flight[t].from) <= told[t]
        ELSE Lost(stored[t], flight[t].from) <= told[t] + flight[t].dropped

Reported(t) ==
    row[t] \in {"succeeded", "failed"} => t \notin Working /\ Lost(stored[t], next[t]) <= told[t]

Fresh(t) == row[t] \in {"none", "ready"} => first[t] = 0 /\ next[t] = 0 /\ flight[t] = NoFlight

Counted(t) == ToldBefore(t) /\ Buffered(t) /\ OnTheWay(t) /\ Reported(t) /\ Fresh(t)

CountInv == \A t \in Tasks : Counted(t)

LEMMA Counts ==
    ASSUME TypeInv, NEW t \in Tasks
    PROVE  /\ first[t] \in Nat /\ next[t] \in Nat /\ first[t] <= next[t]
           /\ dropped[t] \in Nat /\ told[t] \in Nat
           /\ flight[t] \in Flight /\ flight[t].answered \in BOOLEAN
           /\ flight[t].from \in Nat /\ flight[t].to \in Int /\ flight[t].to >= -1
           /\ flight[t].to < next[t] /\ flight[t].dropped \in Nat
           /\ stored[t] \subseteq Nat
BY BuildAgentConstants DEF TypeInv, ServerTypes, LogTypes, WithinBuffer, InFlight, Flight, Line

LEMMA CountInit == Init => CountInv
<1> SUFFICES ASSUME Init, NEW t \in Tasks PROVE Counted(t)
  BY DEF CountInv
<1>1. stored[t] = {} /\ told[t] = 0 /\ t \notin active /\ flight[t] = NoFlight /\ row[t] = "none"
      /\ first[t] = 0 /\ next[t] = 0
  BY DEF Init
<1> QED  BY <1>1 DEF Counted, ToldBefore, Buffered, OnTheWay, Reported, Fresh

\* What does not touch the log of a build keeps its counts.
LEMMA CountFrame ==
    ASSUME NEW t \in Tasks, Counted(t),
           stored'[t] = stored[t], told'[t] = told[t], next'[t] = next[t], flight'[t] = flight[t],
           t \in active' => t \in active /\ first'[t] = first[t] /\ dropped'[t] = dropped[t],
           first'[t] \in {first[t], next[t]},
           row'[t] \in {"succeeded", "failed"}
               => row'[t] = row[t] /\ (t \in Working' => t \in Working),
           row'[t] \in {"none", "ready"} => row[t] \in {"none", "ready"}
    PROVE  Counted(t)'
<1>1. ToldBefore(t)' /\ OnTheWay(t)'
  BY DEF Counted, ToldBefore, OnTheWay
<1>2. Buffered(t)'
  BY DEF Counted, Buffered
<1>3. Reported(t)' /\ Fresh(t)'
  BY DEF Counted, Reported, Fresh
<1> QED  BY <1>1, <1>2, <1>3 DEF Counted

LEMMA CountServer == TypeInv /\ CountInv /\ Server => CountInv'
<1> SUFFICES ASSUME TypeInv, CountInv, Server, NEW u \in Tasks PROVE Counted(u)'
  BY DEF CountInv
<1>1. UNCHANGED <<storeVars, buildVars, logVars>>
  BY DEF Server, Revoke, Reserve, EndRun, LeaseLost
<1>2. \/ row'[u] = row[u] \/ row'[u] \in {"ended", "lost"}
      \/ row'[u] = "ready" /\ row[u] = "none"
  BY DEF Server, Revoke, Reserve, EndRun, LeaseLost, SetRow, TypeInv, ServerTypes
<1> QED  BY <1>1, <1>2, CountFrame DEF CountInv, Working, storeVars, buildVars, logVars

LEMMA CountBuild ==
    ASSUME TypeInv, CountInv, NEW t \in Tasks, BuildStep(t)
    PROVE  CountInv'
<1>1. UNCHANGED <<serverVars, storeVars, logVars, active>>
  BY DEF BuildStep, Watchdog, TimerFires, Prepared, Pinned, Built, Breaks, SetStage, RemoveContainers
<1>2. Working' \subseteq Working
  BY DEF BuildStep, Watchdog, TimerFires, Prepared, Pinned, Built, Breaks, SetStage,
     RemoveContainers, Working, TypeInv, BuildTypes
<1> QED  BY <1>1, <1>2, CountFrame DEF CountInv, serverVars, storeVars, logVars

LEMMA CountEmit ==
    ASSUME TypeInv, LeaseInv, CountInv, NEW t \in Tasks, Emit(t)
    PROVE  Counted(t)'
<1>1. /\ next' = [next EXCEPT ![t] = @ + 1]
      /\ UNCHANGED <<serverVars, storeVars, buildVars, flight>>
      /\ t \in Working
  BY DEF Emit, Working
<1>2. next'[t] = next[t] + 1 /\ row[t] \notin {"none", "ready"}
  BY <1>1 DEF TypeInv, LogTypes, LeaseInv, Held, WorkHeld
<1>3. row[t] \notin {"succeeded", "failed"}
  BY <1>1 DEF CountInv, Counted, Reported
<1>4. UNCHANGED <<row, stored, told, active>>
  BY <1>1 DEF serverVars, storeVars, buildVars
<1>5. ToldBefore(t)' /\ OnTheWay(t)' /\ Reported(t)' /\ Fresh(t)'
  BY <1>1, <1>2, <1>3, <1>4 DEF CountInv, Counted, ToldBefore, OnTheWay, Reported, Fresh
<1>6. CASE Full(t)
  <2>1. first'[t] = first[t] + 1 /\ dropped'[t] = dropped[t] + 1
    BY <1>6 DEF Emit, TypeInv, LogTypes
  <2>2. first[t] < next[t]
    BY <1>6, Counts, BuildAgentConstants DEF Full
  <2>3. Lost(stored[t], first[t] + 1) <= Lost(stored[t], first[t]) + ((first[t] + 1) - first[t])
    BY Counts, LostBetween
  <2>4. Lost(stored[t], first[t]) \in Nat /\ Lost(stored[t], first[t] + 1) \in Nat
    <3>1. first[t] \in Nat /\ first[t] + 1 \in Nat
      BY Counts
    <3> QED  BY <3>1, LostNat
  <2>5. Lost(stored[t], first[t] + 1) <= Lost(stored[t], first[t]) + 1
    BY <2>3, <2>4, Counts
  <2>6. Buffered(t)'
    BY <1>1, <1>2, <1>4, <2>1, <2>2, <2>4, <2>5, Counts DEF CountInv, Counted, Buffered
  <2> QED  BY <1>5, <2>6 DEF Counted
<1>7. CASE ~Full(t)
  <2>1. first'[t] = first[t] /\ dropped'[t] = dropped[t]
    BY <1>7 DEF Emit
  <2>2. Buffered(t)'
    BY <1>1, <1>2, <1>4, <2>1, Counts DEF CountInv, Counted, Buffered
  <2> QED  BY <1>5, <2>2 DEF Counted
<1> QED  BY <1>6, <1>7

LEMMA CountFlush ==
    ASSUME TypeInv, LeaseInv, CountInv, NEW t \in Tasks, Flush(t)
    PROVE  Counted(t)'
<1>1. /\ t \in active /\ flight[t] = NoFlight /\ first[t] < next[t]
      /\ UNCHANGED <<row, stored, told, active, stage, first, next, dropped>>
  BY DEF Flush, serverVars, storeVars, buildVars
<1>2. flight'[t] = [from |-> first[t], to |-> BatchEnd(t), dropped |-> dropped[t], answered |-> FALSE]
  BY DEF Flush, SetFlight, TypeInv, LogTypes
<1>3. first[t] <= BatchEnd(t)
  BY <1>1, Counts, BuildAgentConstants DEF BatchEnd
<1>4. ~flight[t].answered
  BY <1>1 DEF NoFlight
<1>5. Lost(stored[t], first[t]) <= told[t] + dropped[t]
  BY <1>1, <1>4 DEF CountInv, Counted, Buffered
<1>6. ToldBefore(t)' /\ Reported(t)'
  BY <1>1 DEF CountInv, Counted, ToldBefore, Reported, Working
<1>7. Fresh(t)'
  BY <1>1 DEF LeaseInv, Held, ViewHeld, Fresh
<1>8. Buffered(t)'
  <2>1. /\ flight'[t].answered = FALSE /\ flight'[t].from = first[t] /\ flight'[t].to = BatchEnd(t)
        /\ flight'[t].dropped = dropped[t] /\ flight'[t] # NoFlight
    BY <1>2, <1>3, Counts DEF NoFlight
  <2> QED  BY <1>1, <1>3, <1>5, <2>1, Counts DEF Buffered
<1>9. OnTheWay(t)'
  BY <1>1, <1>2, <1>5 DEF OnTheWay
<1> QED  BY <1>6, <1>7, <1>8, <1>9 DEF Counted

LEMMA CountStore ==
    ASSUME TypeInv, CountInv, NEW t \in Tasks, StoreLines(t)
    PROVE  Counted(t)'
<1> DEFINE f == flight[t]
           new == f.from .. f.to
<1>1. /\ f # NoFlight /\ ~f.answered /\ row[t] = "running"
      /\ UNCHANGED <<row, active, stage, first, next, dropped>>
      /\ stored'[t] = stored[t] \cup new
      /\ told'[t] = told[t] + (IF f.from \in stored[t] THEN 0 ELSE f.dropped)
      /\ flight'[t] = [f EXCEPT !.answered = TRUE]
  BY DEF StoreLines, Answers, Owned, SetFlight, TypeInv, ServerTypes, LogTypes, serverVars, buildVars
<1>2. /\ flight'[t].answered = TRUE /\ flight'[t].from = f.from /\ flight'[t].to = f.to
      /\ flight'[t].dropped = f.dropped /\ flight'[t] # NoFlight
  <2>1. f \in [from : Line, to : -1 .. MaxLines, dropped : Nat, answered : BOOLEAN]
    BY Counts DEF Flight
  <2> QED  BY <1>1, <2>1 DEF NoFlight
<1>3. Lost(stored[t], f.from) \in Nat
  BY Counts, LostNat
<1>4. Lost(stored[t], f.from) <= told'[t] /\ told[t] <= told'[t]
  <2>1. CASE f.from \in stored[t]
    <3>1. told'[t] = told[t]
      BY <1>1, <2>1, Counts
    <3> QED  BY <2>1, <3>1, Counts DEF CountInv, Counted, ToldBefore
  <2>2. CASE f.from \notin stored[t]
    <3>1. told'[t] = told[t] + f.dropped
      BY <1>1, <2>2
    <3> QED  BY <1>1, <1>3, <3>1, Counts DEF CountInv, Counted, OnTheWay
  <2> QED  BY <2>1, <2>2
<1>5. ASSUME NEW m \in stored'[t] PROVE Lost(stored'[t], m) <= told'[t]
  <2>1. m \in Nat /\ told'[t] \in Nat
    BY <1>1, <1>5, Counts
  <2>2. CASE m \in stored[t]
    <3>1. Lost(stored'[t], m) <= Lost(stored[t], m)
      BY <1>1, <2>1, LostCovered
    <3>2. Lost(stored[t], m) <= told[t]
      BY <2>2 DEF CountInv, Counted, ToldBefore
    <3>3. Lost(stored'[t], m) \in Nat /\ Lost(stored[t], m) \in Nat
      BY <2>1, LostNat
    <3> QED  BY <1>4, <2>1, <3>1, <3>2, <3>3, Counts
  <2>3. CASE m \notin stored[t]
    <3>1. m \in new
      BY <1>1, <1>5, <2>3
    <3>2. \A i \in f.from .. m - 1 : i \in stored'[t]
      BY <1>1, <2>1, <3>1, Counts
    <3>3. Lost(stored'[t], m) <= Lost(stored[t], f.from)
      BY <1>1, <2>1, <3>2, Counts, LostCovered
    <3>4. Lost(stored'[t], m) \in Nat
      BY <2>1, LostNat
    <3> QED  BY <1>3, <1>4, <2>1, <3>3, <3>4
  <2> QED  BY <2>2, <2>3
<1>6. ToldBefore(t)'
  BY <1>5 DEF ToldBefore
<1>7. Lost(stored'[t], f.from) <= Lost(stored[t], f.from)
  BY <1>1, Counts, LostCovered
<1>8. OnTheWay(t)'
  <2>1. Lost(stored'[t], f.from) <= told'[t]
    <3>1. f.from \in Nat /\ told'[t] \in Nat
      BY <1>1, Counts
    <3>2. Lost(stored'[t], f.from) \in Nat
      BY <3>1, LostNat
    <3> QED  BY <1>3, <1>4, <1>7, <3>1, <3>2
  <2> QED  BY <1>1, <1>2, <2>1 DEF OnTheWay
<1>9. Buffered(t)' /\ Reported(t)' /\ Fresh(t)'
  BY <1>1, <1>2 DEF CountInv, Counted, Buffered, Reported, Fresh
<1> QED  BY <1>6, <1>8, <1>9 DEF Counted

LEMMA CountGone ==
    ASSUME TypeInv, CountInv, NEW t \in Tasks, RefuseLines(t) \/ FlushLost(t)
    PROVE  Counted(t)'
<1>1. /\ flight[t] # NoFlight /\ UNCHANGED <<row, stored, told, active, stage, first, next, dropped>>
      /\ flight'[t] = NoFlight
  BY DEF RefuseLines, FlushLost, SetFlight, TypeInv, LogTypes, serverVars, storeVars, buildVars
<1>2. t \in active => Lost(stored[t], first[t]) <= told[t] + dropped[t] /\ first[t] < next[t]
  <2> SUFFICES ASSUME t \in active
               PROVE  Lost(stored[t], first[t]) <= told[t] + dropped[t] /\ first[t] < next[t]
    OBVIOUS
  <2>1. /\ first[t] < next[t] /\ flight[t].dropped <= dropped[t]
        /\ first[t] = flight[t].from + (dropped[t] - flight[t].dropped)
    BY <1>1 DEF CountInv, Counted, Buffered
  <2>2. CASE ~flight[t].answered
    BY <1>1, <2>1, <2>2 DEF CountInv, Counted, Buffered
  <2>3. CASE flight[t].answered
    <3>1. Lost(stored[t], flight[t].from) <= told[t]
      BY <1>1, <2>3 DEF CountInv, Counted, OnTheWay
    <3>2. Lost(stored[t], first[t]) <= Lost(stored[t], flight[t].from) + (first[t] - flight[t].from)
      BY <2>1, Counts, LostBetween
    <3>3. Lost(stored[t], first[t]) \in Nat /\ Lost(stored[t], flight[t].from) \in Nat
      BY Counts, LostNat
    <3> QED  BY <2>1, <3>1, <3>2, <3>3, Counts
  <2> QED  BY <2>2, <2>3
<1>3. Buffered(t)'
  BY <1>1, <1>2, Counts DEF Buffered
<1>4. ToldBefore(t)' /\ OnTheWay(t)' /\ Reported(t)' /\ Fresh(t)'
  BY <1>1 DEF CountInv, Counted, ToldBefore, OnTheWay, Reported, Fresh, Working
<1> QED  BY <1>3, <1>4 DEF Counted

LEMMA CountAcknowledged ==
    ASSUME TypeInv, CountInv, NEW t \in Tasks, Acknowledged(t)
    PROVE  Counted(t)'
<1> DEFINE f == flight[t]
<1>1. /\ f # NoFlight /\ f.answered
      /\ UNCHANGED <<row, stored, told, active, stage, next>>
      /\ first'[t] = AtLeast(first[t], f.to + 1) /\ dropped'[t] = StillDropped(t)
      /\ flight'[t] = NoFlight
  BY DEF Acknowledged, SetFlight, TypeInv, LogTypes, serverVars, storeVars, buildVars
<1>2. f.from .. f.to \subseteq stored[t] /\ Lost(stored[t], f.from) <= told[t]
  BY <1>1 DEF CountInv, Counted, OnTheWay
<1>3. ToldBefore(t)' /\ OnTheWay(t)' /\ Reported(t)' /\ Fresh(t)'
  BY <1>1 DEF CountInv, Counted, ToldBefore, OnTheWay, Reported, Fresh, Working
<1>4. ASSUME t \in active PROVE Buffered(t)'
  <2>1. /\ f.from <= f.to /\ first[t] < next[t] /\ f.dropped <= dropped[t]
        /\ first[t] = f.from + (dropped[t] - f.dropped)
    BY <1>1, <1>4 DEF CountInv, Counted, Buffered
  <2>2. dropped'[t] = dropped[t] - f.dropped /\ f.to \in Nat /\ f.to + 1 \in Nat
    BY <1>1, <2>1, Counts DEF StillDropped, AtLeast
  <2>3. Lost(stored[t], f.to + 1) <= told[t]
    <3>1. \A i \in f.from .. (f.to + 1) - 1 : i \in stored[t]
      BY <1>2, <2>2, Counts
    <3>2. Lost(stored[t], f.to + 1) <= Lost(stored[t], f.from)
      BY <2>2, <3>1, Counts, LostCovered
    <3>3. Lost(stored[t], f.to + 1) \in Nat
      BY <2>2, LostNat
    <3>4. Lost(stored[t], f.from) \in Nat
      BY Counts, LostNat
    <3> QED  BY <1>2, <3>2, <3>3, <3>4, Counts
  <2>4. CASE first[t] < f.to + 1
    <3>1. first'[t] = f.to + 1
      BY <1>1, <2>4 DEF AtLeast
    <3>2. Lost(stored[t], f.to + 1) \in Nat
      BY <2>2, LostNat
    <3> QED  BY <1>1, <2>1, <2>2, <2>3, <3>1, <3>2, Counts DEF Buffered
  <2>5. CASE ~(first[t] < f.to + 1)
    <3>1. first'[t] = first[t]
      BY <1>1, <2>5 DEF AtLeast
    <3>2. Lost(stored[t], first[t]) <= Lost(stored[t], f.to + 1) + (first[t] - (f.to + 1))
      BY <2>2, <2>5, Counts, LostBetween
    <3>3. Lost(stored[t], first[t]) \in Nat /\ Lost(stored[t], f.to + 1) \in Nat
      BY <2>2, Counts, LostNat
    <3>4. Lost(stored[t], first[t]) <= told[t] + (dropped[t] - f.dropped)
      BY <2>1, <2>2, <2>3, <3>2, <3>3, Counts
    <3> QED  BY <1>1, <2>1, <2>2, <3>1, <3>4, Counts DEF Buffered
  <2> QED  BY <2>4, <2>5
<1> QED  BY <1>1, <1>3, <1>4 DEF Counted, Buffered

LEMMA CountLog ==
    ASSUME TypeInv, LeaseInv, CountInv, NEW t \in Tasks, LogStep(t)
    PROVE  CountInv'
<1>1. Counted(t)'
  BY CountEmit, CountFlush, CountStore, CountGone, CountAcknowledged DEF LogStep
<1>2. ASSUME NEW u \in Tasks \ {t} PROVE Counted(u)'
  <2>1. /\ row'[u] = row[u] /\ active' = active /\ stage'[u] = stage[u]
        /\ stored'[u] = stored[u] /\ told'[u] = told[u]
    BY <1>2 DEF LogStep, Emit, Flush, StoreLines, RefuseLines, Acknowledged, FlushLost, serverVars,
       storeVars, buildVars, TypeInv, ServerTypes
  <2>2. first'[u] = first[u] /\ next'[u] = next[u] /\ dropped'[u] = dropped[u] /\ flight'[u] = flight[u]
    BY <1>2 DEF LogStep, Emit, Flush, StoreLines, RefuseLines, Acknowledged, FlushLost, SetFlight,
       logVars, TypeInv, LogTypes
  <2> QED  BY <2>1, <2>2, CountFrame DEF CountInv, Working
<1> QED  BY <1>1, <1>2 DEF CountInv

LEMMA CountClaim ==
    ASSUME TypeInv, LeaseInv, CountInv, NEW t \in Tasks, Claim(t)
    PROVE  CountInv'
<1> DEFINE gone == {u \in active : RunOf[u] = RunOf[t]}
<1>1. /\ row[t] = "ready" /\ row' = [row EXCEPT ![t] = "running"]
      /\ Change(gone, {t}, {}) /\ stage' = [stage EXCEPT ![t] = "prepare"]
      /\ UNCHANGED <<storeVars, next, flight>>
  BY DEF Claim, Claimable, GiveTask
<1>2. /\ t \notin active
      /\ row'[t] = "running"
      /\ first[t] = 0 /\ next[t] = 0 /\ flight[t] = NoFlight
  BY <1>1 DEF LeaseInv, Held, ViewHeld, CountInv, Counted, Fresh, TypeInv, ServerTypes
<1>3. Counted(t)'
  <2>1. first'[t] = 0 /\ dropped'[t] = dropped[t] /\ ~flight[t].answered
    BY <1>1, <1>2 DEF Change, NoFlight
  <2>2. Buffered(t)'
    BY <1>1, <1>2, <2>1, LostNone, Counts DEF Buffered, storeVars
  <2>3. ToldBefore(t)' /\ OnTheWay(t)' /\ Reported(t)' /\ Fresh(t)'
    BY <1>1, <1>2 DEF CountInv, Counted, ToldBefore, OnTheWay, Reported, Fresh, storeVars
  <2> QED  BY <2>2, <2>3 DEF Counted
<1>4. ASSUME NEW u \in Tasks \ {t} PROVE Counted(u)'
  <2>1. row'[u] = row[u] /\ stage'[u] = stage[u]
    BY <1>1, <1>4 DEF TypeInv, ServerTypes, BuildTypes
  <2>2. /\ u \in active' => u \in active /\ first'[u] = first[u] /\ dropped'[u] = dropped[u]
        /\ first'[u] \in {first[u], next[u]}
    BY <1>1, <1>4 DEF Change
  <2> QED  BY <1>1, <2>1, <2>2, CountFrame DEF CountInv, Working, storeVars
<1> QED  BY <1>3, <1>4 DEF CountInv

\* A result is sent when the buffer is empty and nothing is on its way.
LEMMA CountResult ==
    ASSUME TypeInv, LeaseInv, CountInv, NEW t \in Tasks, t \in todo, Reportable(t),
           UNCHANGED <<stored, told, next, flight, stage>>,
           first'[t] \in {first[t], next[t]},
           t \in active' => UNCHANGED <<first, dropped>>,
           row'[t] \in {"succeeded", "failed"}
    PROVE  Counted(t)'
<1>1. /\ t \in active /\ t \notin Working
      /\ result[t] # "none" /\ first[t] = next[t] /\ flight[t] = NoFlight
  BY DEF LeaseInv, Held, WorkHeld, ReplyHeld, Reportable
<1>2. Lost(stored[t], next[t]) <= told[t]
  BY <1>1 DEF CountInv, Counted, Buffered
<1>3. Reported(t)' /\ Fresh(t)'
  BY <1>1, <1>2 DEF Reported, Fresh, Working
<1>4. ToldBefore(t)' /\ OnTheWay(t)'
  BY DEF CountInv, Counted, ToldBefore, OnTheWay
<1>5. Buffered(t)'
  BY <1>1 DEF CountInv, Counted, Buffered
<1> QED  BY <1>3, <1>4, <1>5 DEF Counted

LEMMA CountLeave ==
    ASSUME CountInv, NEW gone, NEW aborting, Leave(gone, aborting),
           UNCHANGED <<row, stored, told, next, flight, stage>>
    PROVE  CountInv'
<1> SUFFICES ASSUME NEW u \in Tasks PROVE Counted(u)'
  BY DEF CountInv
<1>1. /\ u \in active' => u \in active /\ first'[u] = first[u] /\ dropped'[u] = dropped[u]
      /\ first'[u] \in {first[u], next[u]}
  BY DEF Leave, Change
<1> QED  BY <1>1, CountFrame DEF CountInv, Working

LEMMA CountLoop == TypeInv /\ LeaseInv /\ CountInv /\ LoopStep => CountInv'
<1> SUFFICES ASSUME TypeInv, LeaseInv, CountInv, LoopStep PROVE CountInv'
  OBVIOUS
<1>a. ASSUME UNCHANGED <<row, storeVars, logVars, active, stage>> PROVE CountInv'
  BY <1>a, CountFrame DEF CountInv, Working, storeVars, logVars
<1>1. CASE Check \/ Heartbeat \/ AllSettled \/ NothingClaimed \/ Exit
  BY <1>1, <1>a DEF Check, Heartbeat, AllSettled, NothingClaimed, Exit, serverVars, buildVars
<1>2. CASE EndTurn
  <2>1. PICK gone : Leave(gone, {})
    BY <1>2 DEF EndTurn
  <2> QED  BY <1>2, <2>1, CountLeave DEF EndTurn, serverVars, storeVars
<1>3. ASSUME NEW t \in Tasks, SettleCanceled(t) PROVE CountInv'
  BY <1>3, CountLeave DEF SettleCanceled, serverVars, storeVars
<1>4. ASSUME NEW t \in Tasks, SettleRenewed(t) PROVE CountInv'
  BY <1>4, <1>a DEF SettleRenewed, serverVars
<1>5. ASSUME NEW t \in Tasks, ResultAccepted(t) PROVE CountInv'
  <2>1. /\ t \in todo /\ Reportable(t) /\ Leave({t}, {})
        /\ UNCHANGED <<stored, told, next, flight, stage>>
        /\ row'[t] \in {"succeeded", "failed"}
        /\ \A u \in Tasks \ {t} : row'[u] = row[u]
    BY <1>5, LeaseResult DEF ResultAccepted, Settling, Answers, Reportable, LeaseInv, storeVars
  <2>2. t \notin active' /\ first'[t] = next[t]
    BY <2>1 DEF Leave, Change
  <2>3. Counted(t)'
    BY <2>1, <2>2, CountResult
  <2>4. ASSUME NEW u \in Tasks \ {t} PROVE Counted(u)'
    <3>1. u \in active' => u \in active /\ first'[u] = first[u] /\ dropped'[u] = dropped[u]
      BY <2>1, <2>4 DEF Leave, Change
    <3>2. first'[u] \in {first[u], next[u]}
      BY <2>1 DEF Leave, Change
    <3> QED  BY <2>1, <2>4, <3>1, <3>2, CountFrame DEF CountInv, Working
  <2> QED  BY <2>3, <2>4 DEF CountInv
<1>6. ASSUME NEW t \in Tasks, ResultFails(t) PROVE CountInv'
  <2>1. /\ t \in todo /\ Reportable(t) /\ UNCHANGED <<storeVars, logVars, active, stage>>
        /\ UNCHANGED <<row, lease>> \/ (Owned(t) /\ SetRow(t, result[t]))
    BY <1>6 DEF ResultFails, Settling, Answers
  <2>2. CASE UNCHANGED <<row, lease>>
    BY <1>a, <2>1, <2>2
  <2>3. CASE Owned(t) /\ SetRow(t, result[t])
    <3>1. row'[t] \in {"succeeded", "failed"} /\ \A u \in Tasks \ {t} : row'[u] = row[u]
      BY <2>1, <2>3, LeaseResult DEF Reportable, LeaseInv
    <3>2. Counted(t)'
      BY <2>1, <3>1, CountResult DEF storeVars, logVars
    <3>3. ASSUME NEW u \in Tasks \ {t} PROVE Counted(u)'
      BY <2>1, <3>1, <3>3, CountFrame DEF CountInv, Working, storeVars, logVars
    <3> QED  BY <3>2, <3>3 DEF CountInv
  <2> QED  BY <2>1, <2>2, <2>3
<1>7. ASSUME NEW t \in Tasks, ClaimLost(t) PROVE CountInv'
  <2>1. /\ UNCHANGED <<storeVars, logVars, active, stage>>
        /\ \A u \in Tasks : row'[u] = row[u] \/ row'[u] = "running"
    BY <1>7 DEF ClaimLost, GiveTask, TypeInv, ServerTypes, buildVars
  <2> QED  BY <2>1, CountFrame DEF CountInv, Working, storeVars, logVars
<1> QED  BY <1>1, <1>2, <1>3, <1>4, <1>5, <1>6, <1>7, CountClaim DEF LoopStep

LEMMA CountWorld == TypeInv /\ CountInv /\ (Tick \/ Signal \/ Crash \/ Restart) => CountInv'
<1> SUFFICES ASSUME TypeInv, CountInv, Tick \/ Signal \/ Crash \/ Restart, NEW t \in Tasks
             PROVE  Counted(t)'
  BY DEF CountInv
<1>1. CASE Tick \/ Signal \/ Restart
  <2>1. UNCHANGED <<row, storeVars, logVars, active, stage>>
    BY <1>1 DEF Tick, Signal, Restart, serverVars, buildVars
  <2> QED  BY <2>1, CountFrame DEF CountInv, Working, storeVars, logVars
<1>2. CASE Crash
  <2>1. /\ UNCHANGED <<row, stored, told, next>> /\ active' = {} /\ first' = next
        /\ flight'[t] = NoFlight /\ stage'[t] = "none"
    BY <1>2 DEF Crash, serverVars, storeVars
  <2> QED  BY <2>1 DEF CountInv, Counted, ToldBefore, Buffered, OnTheWay, Reported, Fresh, Working
<1> QED  BY <1>1, <1>2

LEMMA CountStep == TypeInv /\ LeaseInv /\ CountInv /\ [Next]_vars => CountInv'
<1> SUFFICES ASSUME TypeInv, LeaseInv, CountInv, [Next]_vars PROVE CountInv'
  OBVIOUS
<1>1. CASE UNCHANGED vars
  BY <1>1, CountFrame DEF CountInv, Working, vars, serverVars, storeVars, buildVars, logVars
<1> QED  BY <1>1, CountServer, CountBuild, CountLog, CountLoop, CountWorld DEF Next

\* A line of a reported build is stored or counted, whatever answers are lost and whatever is
\* dropped while lines are on their way.
THEOREM LossesTold == Spec => []LossesReported
<1>1. CountInv => LossesReported
  BY DEF CountInv, Counted, Reported, LossesReported, Lost
<1> QED  BY <1>1, TypeInit, TypeStep, LeaseInit, LeaseStep, CountInit, CountStep, PTL DEF Spec

=============================================================================
