---------------------------- MODULE DaemonProofs ----------------------------
(***************************************************************************)
(* Proofs, for every number of commands, generations, restarts and resets  *)
(* and every channel capacity, of the safety properties of Daemon.         *)
(*                                                                         *)
(* TypeOK is inductive.  The properties follow from IInv (DaemonInv), one  *)
(* lemma per group of actions; the frame lemmas say which variables a      *)
(* conjunct of IInv depends on.                                            *)
(***************************************************************************)
EXTENDS DaemonInv, TLAPS

USE DEF fieldVars, dcmdVars, runVars, waitVars, restVars, envVars, histVars

-----------------------------------------------------------------------------
(* The limiter.                                                            *)

\* next returns a time.
LEMMA NextStartType ==
  ASSUME NEW l \in LimiterState, NEW t \in Nat
  PROVE  NextStart(l, t) \in Nat
<1>1. 2^l.count * Interval \in Nat
  BY LimiterAssumption, PowerAssumption DEF LimiterState
<1>2. QED
  BY <1>1 DEF NextStart, LimiterState

\* add leaves a limiter whose count is within the limit.
LEMMA addType ==
  ASSUME NEW l \in LimiterState, NEW t \in Nat
  PROVE  add(l, 1, t) \in LimiterState
BY LimiterAssumption DEF add, CanAdd, LimiterState

-----------------------------------------------------------------------------
(* Types.                                                                  *)

\* Every step of the daemon keeps the types.
LEMMA TypeStep ==
  ASSUME TypeOK, [Next]_vars
  PROVE  TypeOK'
<1> USE DaemonAssumption DEF TypeOK
<1>1. CASE Run
  BY <1>1 DEF Run, Phases, RunPCs, WaitPCs
<1>2. CASE Cancel
  BY <1>2 DEF Cancel, Phases, RunPCs, RestartPCs, EndReasons
<1>3. CASE ReloadClose
  <2>1. queue' \in [Gen -> Seq(DCmd)]
    BY <1>3 DEF ReloadClose
  <2>2. ended' \in [DCmd -> EndReasons]
    BY <1>3 DEF ReloadClose, EndReasons
  <2>3. QED BY <1>3, <2>1, <2>2 DEF ReloadClose, Phases
<1>4. CASE ReloadSwap
  <2>1. gen + 1 \in Gen
    BY <1>4 DEF ReloadSwap, Gen
  <2>2. QED BY <1>4, <2>1 DEF ReloadSwap, Phases, NewDCmds
<1>5. ASSUME NEW g \in Gen, resetLimiter(g) PROVE TypeOK'
  <2>1. NewLimiter \in LimiterState
    BY LimiterAssumption DEF NewLimiter, LimiterState, ZeroTime
  <2>2. QED BY <1>5, <2>1 DEF resetLimiter
<1>6. CASE Tick
  BY <1>6 DEF Tick, ZeroTime
<1>7. ASSUME NEW g \in Gen, Consumer(g) PROVE TypeOK'
  <2>1. CASE RunReturn(g)
    BY <2>1 DEF RunReturn, RunPCs
  <2>2. CASE RunReceive(g)
    <3>1. Head(queue[non[g]]) \in DCmd /\ Tail(queue[non[g]]) \in Seq(DCmd)
      BY <2>2 DEF RunReceive
    <3>2. QED BY <2>2, <3>1 DEF RunReceive, RestartPCs, RunPCs
  <2>3. CASE RunReceiveNil(g)
    BY <2>3 DEF RunReceiveNil, PanicKinds
  <2>4. CASE RunPark(g)
    BY <2>4 DEF RunPark, RunPCs
  <2>5. CASE RunSelect(g)
    BY <2>5 DEF RunSelect, RunPCs
  <2>6. QED BY <1>7, <2>1, <2>2, <2>3, <2>4, <2>5 DEF Consumer
<1>8. ASSUME NEW d \in DCmd, startAndWait(d) PROVE TypeOK'
  <2>1. CASE LogFails(d)
    BY <2>1 DEF LogFails, WaitPCs, EndReasons
  <2>2. CASE StartFails(d)
    BY <2>2 DEF StartFails, WaitPCs
  <2>3. CASE StartOK(d)
    <3>1. live' \in [DCmd -> Nat]
      BY <2>3 DEF StartOK
    <3>2. QED BY <2>3, <3>1 DEF StartOK, WaitPCs, CmdStates
  <2>4. CASE SetRunning(d)
    BY <2>4 DEF SetRunning, WaitPCs
  <2>5. CASE WaitReturns(d)
    BY <2>5 DEF WaitReturns, WaitPCs, CmdStates
  <2>6. CASE Report(d)
    BY <2>6 DEF Report, WaitPCs, EndReasons
  <2>7. CASE SendToParked(d)
    BY <2>7 DEF SendToParked, WaitPCs, RunPCs, RestartPCs
  <2>8. CASE SendToBuffer(d)
    <3>1. Append(queue[wch[d]], d) \in Seq(DCmd)
      OBVIOUS
    <3>2. QED BY <2>8, <3>1 DEF SendToBuffer, WaitPCs
  <2>9. CASE SendOnClosed(d)
    BY <2>9 DEF SendOnClosed, PanicKinds
  <2>10. QED
    BY <1>8, <2>1, <2>2, <2>3, <2>4, <2>5, <2>6, <2>7, <2>8, <2>9 DEF startAndWait
<1>9. ASSUME NEW d \in DCmd, Restarter(d) PROVE TypeOK'
  <2>1. CASE RestartCancelled(d)
    BY <2>1 DEF RestartCancelled, RestartPCs, EndReasons
  <2>2. CASE RestartDue(d)
    BY <2>2 DEF RestartDue, RestartPCs
  <2>3. CASE RestartPark(d)
    <3>1. NextStart(limiter[d], now) \in Nat
      BY NextStartType
    <3>2. QED BY <2>3, <3>1 DEF RestartPark, RestartPCs
  <2>4. CASE TimerFires(d)
    BY <2>4 DEF TimerFires, RestartPCs
  <2>5. CASE Restart(d)
    <3>1. add(limiter[d], 1, now) \in LimiterState
      BY addType
    <3>2. limiter' \in [DCmd -> LimiterState]
      BY <2>5, <3>1 DEF Restart
    <3>3. restarts' \in [DCmd -> Nat]
      <4>1. CASE restarts' = restarts
        BY <4>1
      <4>2. CASE restarts' = [restarts EXCEPT ![d] = restarts[d] + 1]
        BY <4>2
      <4>3. QED BY <2>5, <4>1, <4>2 DEF Restart
    <3>4. wpc' \in [DCmd -> WaitPCs] /\ wch' \in [DCmd -> Gen]
      <4>1. CASE UNCHANGED waitVars
        BY <4>1
      <4>2. CASE wpc' = [wpc EXCEPT ![d] = "start"] /\ wch' = [wch EXCEPT ![d] = gen]
        <5>1. wpc' \in [DCmd -> WaitPCs]
          BY <4>2 DEF WaitPCs
        <5>2. wch' \in [DCmd -> Gen]
          BY <4>2
        <5>3. QED
          BY <5>1, <5>2
      <4>3. QED
        BY <2>5, <4>1, <4>2 DEF Restart
    <3>5. ended' \in [DCmd -> EndReasons]
      <4>1. CASE UNCHANGED ended
        BY <4>1
      <4>2. CASE ended' = [ended EXCEPT ![d] = "limit reached"]
        BY <4>2 DEF EndReasons
      <4>3. QED
        BY <2>5, <4>1, <4>2 DEF Restart
    <3>6. QED BY <2>5, <3>2, <3>3, <3>4, <3>5 DEF Restart, RestartPCs, CmdStates
  <2>6. QED BY <1>9, <2>1, <2>2, <2>3, <2>4, <2>5 DEF Restarter
<1>10. ASSUME NEW d \in DCmd, ChildExit(d) PROVE TypeOK'
  BY <1>10 DEF ChildExit
<1>11. CASE UNCHANGED vars
  BY <1>11 DEF vars
<1>12. QED
  BY <1>1, <1>2, <1>3, <1>4, <1>5, <1>6, <1>7, <1>8, <1>9, <1>10, <1>11 DEF Next, Caller

\* The types hold at the start.
LEMMA TypeInit == Init => TypeOK
<1>1. NewLimiter \in LimiterState
  BY LimiterAssumption DEF NewLimiter, LimiterState, ZeroTime
<1>2. QED
  BY DaemonAssumption, <1>1 DEF Init, TypeOK, Gen, Phases, PanicKinds, CmdStates, RunPCs,
     WaitPCs, RestartPCs, EndReasons, NewDCmds, ZeroTime

\* Every variable keeps its type: the limiter of a command counts at most Limit
\* restarts, a channel holds commands only, a timer has a deadline.
THEOREM TypeCorrect == Spec => []TypeOK
BY TypeInit, TypeStep, PTL DEF Spec

-----------------------------------------------------------------------------
(* What each conjunct of IInv depends on.                                  *)

\* InQueue depends on the queues only.
LEMMA SameQueue ==
  ASSUME UNCHANGED queue, NEW d, NEW g
  PROVE  InQueue(d, g)' <=> InQueue(d, g)
BY DEF InQueue

\* QueuedOnce depends on the queues only.
LEMMA SameQueued ==
  ASSUME UNCHANGED queue, QueuedOnce
  PROVE  QueuedOnce'
BY DEF QueuedOnce

\* GenerationsInv depends on the fields of the Daemon only.
LEMMA GenerationsFrame ==
  ASSUME GenerationsInv, UNCHANGED fieldVars
  PROVE  GenerationsInv'
BY DEF GenerationsInv

\* WaiterInv depends on the processes, the exec.Cmds, the Statuses and the startAndWait
\* goroutines, and a cancelled generation stays cancelled.
LEMMA WaiterFrame ==
  ASSUME WaiterInv, UNCHANGED <<wpc, wch, cmd, status, live, cancelled>>
  PROVE  WaiterInv'
BY DEF WaiterInv

\* LimiterInv depends on the limiters, the restart goroutines and the clock.
LEMMA LimiterFrame ==
  ASSUME LimiterInv, UNCHANGED <<limiter, rpc, deadline, now, restarts, resets>>
  PROVE  LimiterInv'
BY DEF LimiterInv

\* Who has which command: the parts of IInv about custody.
CustodyInv == UnbornInv /\ OneSupervisor /\ OwnChannel /\ HandsInv

\* A step inside one goroutine, which keeps its command, does not change custody.
LEMMA CustodyFrame ==
  ASSUME TypeOK, CustodyInv,
         UNCHANGED <<fieldVars, queue, ended>>,
         \A d \in DCmd : (wpc'[d] = "idle") <=> (wpc[d] = "idle"),
         \A d \in DCmd : (rpc'[d] = "idle") <=> (rpc[d] = "idle")
  PROVE  CustodyInv'
<1>1. \A d, g : InQueue(d, g)' <=> InQueue(d, g)
  BY SameQueue
<1>2. UnbornInv'
  BY <1>1 DEF CustodyInv, UnbornInv, Unborn
<1>3. OneSupervisor'
  BY <1>1 DEF CustodyInv, OneSupervisor, QueuedOnce
<1>4. OwnChannel'
  BY DEF CustodyInv, OwnChannel
<1>5. HandsInv'
  BY <1>1 DEF CustodyInv, HandsInv, Supervised
<1>6. QED
  BY <1>2, <1>3, <1>4, <1>5 DEF CustodyInv

-----------------------------------------------------------------------------
(* Generations.                                                            *)

\* A command some goroutine has seen is of the current generation or a cancelled one.
LEMMA OldOrCurrent ==
  ASSUME IInv, NEW d \in DCmd, ~Unborn(d)
  PROVE  GenOf[d] = gen \/ GenOf[d] \in cancelled
<1>1. gen \in Nat /\ GenOf[d] \in Nat \ {0} /\ GenOf[d] <= gen
  <2>1. gen \in Gen /\ GenOf[d] \in Gen
    BY DaemonAssumption DEF IInv, TypeOK
  <2>2. ~(GenOf[d] > gen)
    BY DEF Unborn
  <2>3. QED
    BY <2>1, <2>2 DEF Gen
<1>2. 1..(gen - 1) \subseteq cancelled
  BY DEF IInv, GenerationsInv
<1>3. QED
  BY <1>1, <1>2

\* While a generation runs, the cancelled ones are older.
LEMMA RunningNotCancelled ==
  ASSUME IInv, phase = "running"
  PROVE  gen \notin cancelled
<1>1. gen \in Nat /\ cancelled = 1..(gen - 1)
  BY DEF IInv, TypeOK, GenerationsInv, Gen
<1>2. QED
  BY <1>1

-----------------------------------------------------------------------------
(* Steps that leave every command in the same hands.                       *)

\* The Run loop, the clock, a child's exit and a panic
LEMMA QuietStep ==
  ASSUME IInv, TypeOK', LoopInv',
         \/ \E g \in Gen : RunSelect(g) \/ RunReturn(g) \/ RunReceiveNil(g) \/ RunPark(g)
         \/ Tick
         \/ \E d \in DCmd : ChildExit(d) \/ SendOnClosed(d)
  PROVE  IInv'
<1>1. GenerationsInv'
  BY GenerationsFrame DEF IInv, RunSelect, RunReturn, RunReceiveNil, RunPark, Tick, ChildExit, SendOnClosed
<1>2. CustodyInv'
  BY CustodyFrame
     DEF IInv, CustodyInv, RunSelect, RunReturn, RunReceiveNil, RunPark, Tick, ChildExit, SendOnClosed
<1>3. WaiterInv'
  <2>1. CASE \E d \in DCmd : ChildExit(d)
    BY <2>1 DEF IInv, TypeOK, WaiterInv, ChildExit
  <2>2. CASE UNCHANGED <<wpc, wch, cmd, status, live, cancelled>>
    BY <2>2, WaiterFrame DEF IInv
  <2>3. QED
    BY <2>1, <2>2 DEF RunSelect, RunReturn, RunReceiveNil, RunPark, Tick, SendOnClosed
<1>4. LimiterInv'
  <2>1. CASE Tick
    <3>1. \A d \in DCmd : limiter[d].last # ZeroTime =>
            NextStart(limiter[d], now + 1) = NextStart(limiter[d], now)
      BY DEF NextStart
    <3>2. \A d \in DCmd : NextStart(limiter[d], now) \in Nat
      BY NextStartType DEF IInv, TypeOK
    <3>3. now \in Nat /\ now' = now + 1
      BY <2>1 DEF IInv, TypeOK, Tick
    <3>4. UNCHANGED <<limiter, rpc, deadline, restarts, resets>>
      BY <2>1 DEF Tick
    <3>5. QED
      BY <3>1, <3>2, <3>3, <3>4 DEF IInv, LimiterInv
  <2>2. CASE UNCHANGED <<limiter, rpc, deadline, now, restarts, resets>>
    BY <2>2, LimiterFrame DEF IInv
  <2>3. QED
    BY <2>1, <2>2 DEF RunSelect, RunReturn, RunReceiveNil, RunPark, ChildExit, SendOnClosed
<1>5. QED
  BY <1>1, <1>2, <1>3, <1>4 DEF IInv, CustodyInv

\* The limiter reset empties the limiters of one generation.
LEMMA ResetStep ==
  ASSUME IInv, TypeOK', LoopInv', NEW g \in Gen, resetLimiter(g)
  PROVE  IInv'
<1>1. GenerationsInv' /\ WaiterInv'
  BY GenerationsFrame, WaiterFrame DEF IInv, resetLimiter
<1>2. CustodyInv'
  BY CustodyFrame DEF IInv, CustodyInv, resetLimiter
<1>3. LimiterInv'
  <2> SUFFICES ASSUME NEW d \in DCmd
               PROVE  /\ restarts'[d] <= Limit * resets' + limiter'[d].count
                      /\ rpc'[d] = "parked" =>
                           \/ limiter'[d].last = ZeroTime
                           \/ NextStart(limiter'[d], now') <= deadline'[d]
                      /\ rpc'[d] = "due" =>
                           \/ limiter'[d].last = ZeroTime
                           \/ NextStart(limiter'[d], now') <= now'
    BY DEF LimiterInv
  <2>1. Limit * (resets + 1) = Limit * resets + Limit
    BY LimiterAssumption DEF IInv, TypeOK
  <2>2. limiter[d].count \in 0..Limit /\ restarts[d] \in Nat /\ Limit * resets \in Nat
    BY LimiterAssumption DEF IInv, TypeOK, LimiterState
  <2>3. restarts[d] <= Limit * resets + limiter[d].count
    BY DEF IInv, LimiterInv
  <2>4. CASE GenOf[d] = g
    BY LimiterAssumption, <2>1, <2>2, <2>3, <2>4 DEF resetLimiter, NewLimiter
  <2>5. CASE GenOf[d] # g
    BY LimiterAssumption, <2>1, <2>2, <2>3, <2>5 DEF resetLimiter, IInv, LimiterInv
  <2>6. QED
    BY <2>4, <2>5
<1>4. QED
  BY <1>1, <1>2, <1>3 DEF IInv, CustodyInv

\* A startAndWait goroutine between its start and its send
LEMMA WaitStep ==
  ASSUME IInv, TypeOK', LoopInv', NEW d \in DCmd,
         \/ StartFails(d) \/ StartOK(d) \/ SetRunning(d) \/ WaitReturns(d)
         \/ Report(d) /\ GenOf[d] \notin cancelled
  PROVE  IInv'
<1>1. GenerationsInv' /\ LimiterInv'
  BY GenerationsFrame, LimiterFrame
     DEF IInv, StartFails, StartOK, SetRunning, WaitReturns, Report
<1>2. CustodyInv'
  <2>1. UNCHANGED <<fieldVars, queue, rpc, ended>>
    BY DEF StartFails, StartOK, SetRunning, WaitReturns, Report
  <2>2. wpc[d] # "idle" /\ \E pc \in WaitPCs \ {"idle"} : wpc' = [wpc EXCEPT ![d] = pc]
    BY DEF WaitPCs, StartFails, StartOK, SetRunning, WaitReturns, Report
  <2>3. \A e \in DCmd : (wpc'[e] = "idle") <=> (wpc[e] = "idle")
    BY <2>2 DEF IInv, TypeOK
  <2>4. QED
    BY <2>1, <2>3, CustodyFrame DEF IInv, CustodyInv
<1>3. WaiterInv'
  <2>1. CASE StartFails(d)
    BY <2>1 DEF IInv, TypeOK, WaiterInv, StartFails
  <2>2. CASE StartOK(d)
    BY <2>2 DEF IInv, TypeOK, WaiterInv, StartOK
  <2>3. CASE SetRunning(d)
    BY <2>3 DEF IInv, TypeOK, WaiterInv, SetRunning
  <2>4. CASE WaitReturns(d)
    BY <2>4 DEF IInv, TypeOK, WaiterInv, WaitReturns
  <2>5. CASE Report(d) /\ GenOf[d] \notin cancelled
    BY <2>5 DEF IInv, TypeOK, WaiterInv, Report
  <2>6. QED
    BY <2>1, <2>2, <2>3, <2>4, <2>5
<1>4. QED
  BY <1>1, <1>2, <1>3 DEF IInv, CustodyInv

\* A restart goroutine between its spawning and its restart
LEMMA DelayStep ==
  ASSUME IInv, TypeOK', LoopInv', NEW d \in DCmd,
         RestartDue(d) \/ RestartPark(d) \/ TimerFires(d)
  PROVE  IInv'
<1>1. GenerationsInv' /\ WaiterInv'
  BY GenerationsFrame, WaiterFrame DEF IInv, RestartDue, RestartPark, TimerFires
<1>2. CustodyInv'
  <2>1. UNCHANGED <<fieldVars, queue, wpc, ended>>
    BY DEF RestartDue, RestartPark, TimerFires
  <2>2. rpc[d] # "idle" /\ \E pc \in {"parked", "due"} : rpc' = [rpc EXCEPT ![d] = pc]
    BY DEF RestartDue, RestartPark, TimerFires
  <2>3. \A e \in DCmd : (rpc'[e] = "idle") <=> (rpc[e] = "idle")
    BY <2>2 DEF IInv, TypeOK
  <2>4. QED
    BY <2>1, <2>3, CustodyFrame DEF IInv, CustodyInv
<1>3. LimiterInv'
  <2>1. CASE RestartDue(d)
    BY <2>1 DEF IInv, TypeOK, LimiterInv, RestartDue
  <2>2. CASE RestartPark(d)
    <3>1. NextStart(limiter[d], now) \in Nat
      BY NextStartType DEF IInv, TypeOK
    <3>2. QED
      BY <2>2, <3>1 DEF IInv, TypeOK, LimiterInv, RestartPark
  <2>3. CASE TimerFires(d)
    <3>1. limiter[d].last # ZeroTime => NextStart(limiter[d], now) <= now
      <4>1. NextStart(limiter[d], now) \in Nat /\ deadline[d] \in Nat /\ now \in Nat
        BY NextStartType DEF IInv, TypeOK
      <4>2. QED
        BY <2>3, <4>1 DEF IInv, LimiterInv, TimerFires
    <3>2. QED
      BY <2>3, <3>1 DEF IInv, TypeOK, LimiterInv, TimerFires
  <2>4. QED
    BY <2>1, <2>2, <2>3
<1>4. QED
  BY <1>1, <1>2, <1>3 DEF IInv, CustodyInv

-----------------------------------------------------------------------------
(* Steps that hand a command over or give it up.                           *)

Others(d) ==
  \A e \in DCmd \ {d} :
    wpc'[e] = wpc[e] /\ rpc'[e] = rpc[e] /\ ended'[e] = ended[e]

\* One goroutine passes the command to the other kind.
LEMMA PassFrame ==
  ASSUME TypeOK, CustodyInv, UNCHANGED <<fieldVars, queue, ended>>,
         NEW d \in DCmd, Others(d),
         wpc[d] # "idle" \/ rpc[d] # "idle",
         (wpc'[d] = "idle") # (rpc'[d] = "idle")
  PROVE  CustodyInv'
<1>1. \A e, g : InQueue(e, g)' <=> InQueue(e, g)
  BY SameQueue
<1>2. \A g \in Gen : ~InQueue(d, g)
  BY DEF CustodyInv, OneSupervisor
<1>3. ended[d] = "no" /\ ~Unborn(d)
  BY DEF CustodyInv, HandsInv, UnbornInv
<1>4. UnbornInv'
  BY <1>1, <1>3 DEF CustodyInv, UnbornInv, Unborn, Others
<1>5. OneSupervisor'
  <2>1. QueuedOnce'
    BY SameQueued DEF CustodyInv, OneSupervisor
  <2>2. QED
    BY <1>1, <1>2, <2>1 DEF CustodyInv, OneSupervisor, Others
<1>6. OwnChannel'
  BY DEF CustodyInv, OwnChannel
<1>7. HandsInv'
  BY <1>1, <1>3 DEF CustodyInv, HandsInv, Supervised, Others
<1>8. QED
  BY <1>4, <1>5, <1>6, <1>7 DEF CustodyInv

\* A goroutine ends without passing its command on.
LEMMA GiveUpFrame ==
  ASSUME TypeOK, CustodyInv, UNCHANGED <<fieldVars, queue>>,
         NEW d \in DCmd, Others(d),
         wpc[d] # "idle" \/ rpc[d] # "idle",
         wpc'[d] = "idle", rpc'[d] = "idle", ended'[d] # "no",
         ended'[d] \in {"log file", "limit reached"} \/ phase # "running" \/ GenOf[d] # gen
  PROVE  CustodyInv'
<1>1. \A e, g : InQueue(e, g)' <=> InQueue(e, g)
  BY SameQueue
<1>2. \A g \in Gen : ~InQueue(d, g)
  BY DEF CustodyInv, OneSupervisor
<1>3. ~Unborn(d)
  BY DEF CustodyInv, UnbornInv
<1>4. UnbornInv'
  BY <1>1, <1>3 DEF CustodyInv, UnbornInv, Unborn, Others
<1>5. OneSupervisor'
  <2>1. QueuedOnce'
    BY SameQueued DEF CustodyInv, OneSupervisor
  <2>2. QED
    BY <1>1, <1>2, <2>1 DEF CustodyInv, OneSupervisor, Others
<1>6. OwnChannel'
  BY DEF CustodyInv, OwnChannel
<1>7. HandsInv'
  BY <1>1, <1>2 DEF CustodyInv, HandsInv, Supervised, Others
<1>8. QED
  BY <1>4, <1>5, <1>6, <1>7 DEF CustodyInv

\* The log file cannot be opened, or the command is cancelled.
LEMMA GiveUpStep ==
  ASSUME IInv, TypeOK', LoopInv', NEW d \in DCmd,
         \/ LogFails(d) \/ RestartCancelled(d)
         \/ Report(d) /\ GenOf[d] \in cancelled
  PROVE  IInv'
<1>1. /\ UNCHANGED <<fieldVars, queue, dcmdVars, wch, deadline, envVars, restarts, resets>>
      /\ wpc[d] # "idle" \/ rpc[d] # "idle"
  BY DEF LogFails, Report, RestartCancelled
<1>2. wpc'[d] = "idle" /\ rpc'[d] = "idle"
  <2>1. CASE LogFails(d)
    BY <2>1 DEF IInv, TypeOK, OneSupervisor, LogFails
  <2>2. CASE RestartCancelled(d)
    BY <2>2 DEF IInv, TypeOK, OneSupervisor, RestartCancelled
  <2>3. CASE Report(d) /\ GenOf[d] \in cancelled
    BY <2>3 DEF IInv, TypeOK, OneSupervisor, Report
  <2>4. QED
    BY <2>1, <2>2, <2>3
<1>3. Others(d)
  <2>1. /\ wpc' = wpc \/ wpc' = [wpc EXCEPT ![d] = "idle"]
        /\ rpc' = rpc \/ rpc' = [rpc EXCEPT ![d] = "idle"]
        /\ \E why : ended' = [ended EXCEPT ![d] = why]
    BY DEF LogFails, Report, RestartCancelled
  <2>2. QED
    BY <2>1 DEF IInv, TypeOK, Others
<1>4. /\ ended'[d] \in {"log file", "cancelled"}
      /\ ended'[d] = "log file" \/ phase # "running" \/ GenOf[d] # gen
  <2>1. CASE LogFails(d)
    BY <2>1 DEF IInv, TypeOK, LogFails
  <2>2. CASE RestartCancelled(d)
    BY <2>2, RunningNotCancelled DEF IInv, TypeOK, RestartCancelled
  <2>3. CASE Report(d) /\ GenOf[d] \in cancelled
    BY <2>3, RunningNotCancelled DEF IInv, TypeOK, Report
  <2>4. QED
    BY <2>1, <2>2, <2>3
<1>5. GenerationsInv'
  BY <1>1, GenerationsFrame DEF IInv
<1>6. LimiterInv'
  BY <1>1, <1>2, <1>3 DEF IInv, LimiterInv, Others
<1>7. WaiterInv'
  <2>1. status[d] = "Exited" /\ live[d] # 1
    BY DEF IInv, TypeOK, WaiterInv, OneSupervisor, LogFails, Report, RestartCancelled
  <2>2. QED
    BY <1>1, <1>2, <1>3, <2>1 DEF IInv, WaiterInv, Others
<1>8. CustodyInv'
  BY <1>1, <1>2, <1>3, <1>4, GiveUpFrame DEF IInv, CustodyInv
<1>9. QED
  BY <1>5, <1>6, <1>7, <1>8 DEF IInv, CustodyInv

\* The restart goroutine starts the command again, or gives it up at its limit.
LEMMA RestartStep ==
  ASSUME IInv, TypeOK', LoopInv', NEW d \in DCmd, Restart(d)
  PROVE  IInv'
<1>1. GenerationsInv'
  BY GenerationsFrame DEF IInv, Restart
<1>2. rpc[d] = "due" /\ wpc[d] = "idle" /\ ~Unborn(d)
  BY DEF IInv, OneSupervisor, UnbornInv, Restart
<1>3. WaiterInv'
  <2>1. GenOf[d] = gen \/ GenOf[d] \in cancelled
    BY <1>2, OldOrCurrent
  <2>2. status[d] = "Exited" /\ live[d] # 1
    BY <1>2 DEF IInv, TypeOK, WaiterInv
  <2>3. \/ wpc'[d] = "start" /\ wch'[d] = gen
        \/ wpc'[d] = "idle"
    <3>1. \/ UNCHANGED waitVars
          \/ wpc' = [wpc EXCEPT ![d] = "start"] /\ wch' = [wch EXCEPT ![d] = gen]
      BY DEF Restart
    <3>2. wpc \in [DCmd -> WaitPCs] /\ wch \in [DCmd -> Gen]
      BY DEF IInv, TypeOK
    <3>3. QED
      BY <1>2, <3>1, <3>2
  <2>4. \A e \in DCmd \ {d} : wpc'[e] = wpc[e] /\ wch'[e] = wch[e] /\ cmd'[e] = cmd[e]
    <3>1. \/ UNCHANGED waitVars
          \/ wpc' = [wpc EXCEPT ![d] = "start"] /\ wch' = [wch EXCEPT ![d] = gen]
      BY DEF Restart
    <3>2. cmd' = [cmd EXCEPT ![d] = "fresh"]
      BY DEF Restart
    <3>3. QED
      BY <3>1, <3>2 DEF IInv, TypeOK
  <2>5. UNCHANGED <<status, live, cancelled>>
    BY DEF Restart
  <2>6. live[d] <= 1
    BY DEF IInv, WaiterInv
  <2>7. QED
    BY <2>1, <2>2, <2>3, <2>4, <2>5, <2>6 DEF IInv, WaiterInv
<1>4. LimiterInv'
  <2>1. limiter'[d] = add(limiter[d], 1, now)
    BY DEF IInv, TypeOK, Restart
  <2>2. CanAdd(limiter[d], 1, now) => add(limiter[d], 1, now).count = limiter[d].count + 1
    BY DEF add
  <2>3. ~CanAdd(limiter[d], 1, now) => add(limiter[d], 1, now) = limiter[d]
    BY DEF add
  <2>4. Limit * resets \in Nat /\ restarts[d] \in Nat /\ limiter[d].count \in Nat
    BY LimiterAssumption DEF IInv, TypeOK, LimiterState
  <2>5. restarts'[d] <= Limit * resets + limiter'[d].count
    <3>1. restarts[d] <= Limit * resets + limiter[d].count
      BY DEF IInv, LimiterInv
    <3>2. CASE CanAdd(limiter[d], 1, now)
      <4>1. restarts'[d] = restarts[d] + 1
        BY <3>2 DEF IInv, TypeOK, Restart
      <4>2. QED
        BY <2>1, <2>2, <2>4, <3>1, <3>2, <4>1
    <3>3. CASE ~CanAdd(limiter[d], 1, now)
      BY <2>1, <2>3, <3>1, <3>3 DEF Restart
    <3>4. QED
      BY <3>2, <3>3
  <2>6. rpc'[d] = "idle"
    BY DEF IInv, TypeOK, Restart
  <2>7. \A e \in DCmd \ {d} :
          /\ rpc'[e] = rpc[e] /\ limiter'[e] = limiter[e] /\ restarts'[e] = restarts[e]
          /\ deadline'[e] = deadline[e]
    <3>1. rpc' = [rpc EXCEPT ![d] = "idle"] /\ limiter' = [limiter EXCEPT ![d] = add(@, 1, now)]
      BY DEF Restart
    <3>2. restarts' = restarts \/ restarts' = [restarts EXCEPT ![d] = @ + 1]
      BY DEF Restart
    <3>3. deadline' = deadline
      BY DEF Restart
    <3>4. rpc \in [DCmd -> RestartPCs] /\ limiter \in [DCmd -> LimiterState]
          /\ restarts \in [DCmd -> Nat]
      BY DEF IInv, TypeOK
    <3>5. QED
      BY <3>1, <3>2, <3>3, <3>4
  <2>8. now' = now /\ resets' = resets
    BY DEF Restart
  <2>9. QED
    BY <2>5, <2>6, <2>7, <2>8 DEF IInv, LimiterInv
<1>5. CustodyInv'
  <2>1. CustodyInv /\ TypeOK /\ UNCHANGED <<fieldVars, queue>>
    BY DEF IInv, CustodyInv, Restart
  <2>2. rpc'[d] = "idle" /\ Others(d)
    <3>1. rpc'[d] = "idle" /\ \A e \in DCmd \ {d} : rpc'[e] = rpc[e]
      <4>1. rpc' = [rpc EXCEPT ![d] = "idle"]
        BY DEF Restart
      <4>2. QED
        BY <2>1, <4>1 DEF TypeOK
    <3>2. \A e \in DCmd \ {d} : wpc'[e] = wpc[e]
      <4>1. wpc' = wpc \/ wpc' = [wpc EXCEPT ![d] = "start"]
        BY DEF Restart
      <4>2. QED
        BY <2>1, <4>1 DEF TypeOK
    <3>3. \A e \in DCmd \ {d} : ended'[e] = ended[e]
      <4>1. ended' = ended \/ ended' = [ended EXCEPT ![d] = "limit reached"]
        BY DEF Restart
      <4>2. QED
        BY <2>1, <4>1 DEF TypeOK
    <3>4. QED
      BY <3>1, <3>2, <3>3 DEF Others
  <2>3. CASE CanAdd(limiter[d], 1, now)
    <3>1. wpc'[d] = "start" /\ ended' = ended
      <4>1. wpc' = [wpc EXCEPT ![d] = "start"] /\ ended' = ended
        BY <2>3 DEF Restart
      <4>2. QED
        BY <2>1, <4>1 DEF TypeOK
    <3>2. QED
      BY <1>2, <2>1, <2>2, <3>1, PassFrame
  <2>4. CASE ~CanAdd(limiter[d], 1, now)
    <3>1. wpc'[d] = "idle" /\ ended'[d] = "limit reached"
      <4>1. wpc' = wpc /\ ended' = [ended EXCEPT ![d] = "limit reached"]
        BY <2>4 DEF Restart
      <4>2. QED
        BY <1>2, <2>1, <4>1 DEF TypeOK
    <3>2. QED
      BY <1>2, <2>1, <2>2, <3>1, GiveUpFrame
  <2>5. QED
    BY <2>3, <2>4
<1>6. QED
  BY <1>1, <1>3, <1>4, <1>5 DEF IInv, CustodyInv

\* An exited command goes straight to a parked Run loop.
LEMMA SendToParkedStep ==
  ASSUME IInv, TypeOK', LoopInv', NEW d \in DCmd, SendToParked(d)
  PROVE  IInv'
<1>1. GenerationsInv'
  BY GenerationsFrame DEF IInv, SendToParked
<1>2. WaiterInv' /\ LimiterInv'
  BY DEF IInv, TypeOK, WaiterInv, LimiterInv, SendToParked
<1>3. CustodyInv'
  <2>1. CustodyInv /\ TypeOK /\ UNCHANGED <<fieldVars, queue, ended>>
    BY DEF IInv, CustodyInv, SendToParked
  <2>2. wpc[d] # "idle" /\ wpc'[d] = "idle" /\ rpc'[d] = "spawned" /\ Others(d)
    BY <2>1 DEF TypeOK, Others, SendToParked
  <2>3. QED
    BY <2>1, <2>2, PassFrame
<1>4. QED
  BY <1>1, <1>2, <1>3 DEF IInv, CustodyInv

\* An exited command is put at the end of its channel.
LEMMA SendToBufferStep ==
  ASSUME IInv, TypeOK', LoopInv', NEW d \in DCmd, SendToBuffer(d)
  PROVE  IInv'
<1> DEFINE h == wch[d]
           n == Len(queue[h])
<1>1. GenerationsInv' /\ LimiterInv'
  BY GenerationsFrame, LimiterFrame DEF IInv, SendToBuffer
<1>2. /\ wpc[d] = "send" /\ rpc[d] = "idle" /\ h = GenOf[d] /\ h \in Gen
      /\ ended[d] = "no" /\ ~Unborn(d)
      /\ \A g \in Gen : ~InQueue(d, g)
  BY DEF IInv, TypeOK, OneSupervisor, WaiterInv, HandsInv, UnbornInv, SendToBuffer
<1>3. wpc'[d] = "idle" /\ \A e \in DCmd \ {d} : wpc'[e] = wpc[e]
  BY DEF IInv, TypeOK, SendToBuffer
<1>4. UNCHANGED <<fieldVars, dcmdVars, wch, rpc, envVars, ended>>
  BY DEF SendToBuffer
<1>5. WaiterInv'
  BY <1>2, <1>3, <1>4 DEF IInv, WaiterInv
<1>6. /\ n \in Nat /\ DOMAIN queue[h] = 1..n
      /\ DOMAIN queue'[h] = 1..(n + 1) /\ queue'[h][n + 1] = d
      /\ \A i \in 1..n : queue'[h][i] = queue[h][i]
      /\ \A g \in Gen \ {h} : queue'[g] = queue[g]
  <2>1. queue[h] \in Seq(DCmd) /\ queue'[h] = Append(queue[h], d)
    BY <1>2 DEF IInv, TypeOK, SendToBuffer
  <2>2. \A g \in Gen \ {h} : queue'[g] = queue[g]
    BY <1>2 DEF IInv, TypeOK, SendToBuffer
  <2>3. QED
    BY <2>1, <2>2
<1>7. \A k \in Gen : \A m \in DOMAIN queue'[k] :
        \/ k = h /\ m = n + 1 /\ queue'[k][m] = d
        \/ m \in DOMAIN queue[k] /\ queue'[k][m] = queue[k][m] /\ queue[k][m] # d
  <2> SUFFICES ASSUME NEW k \in Gen, NEW m \in DOMAIN queue'[k],
                      ~(k = h /\ m = n + 1)
               PROVE  m \in DOMAIN queue[k] /\ queue'[k][m] = queue[k][m] /\ queue[k][m] # d
    BY <1>6
  <2>1. m \in DOMAIN queue[k] /\ queue'[k][m] = queue[k][m]
    <3>1. CASE k = h
      <4>1. m \in 1..n
        BY <1>6, <3>1
      <4>2. QED
        BY <1>6, <3>1, <4>1
    <3>2. CASE k # h
      BY <1>6, <3>2
    <3>3. QED
      BY <3>1, <3>2
  <2>2. QED
    BY <1>2, <2>1 DEF InQueue
<1>8. \A e \in DCmd, g \in Gen : InQueue(e, g)' <=> InQueue(e, g) \/ (e = d /\ g = h)
  <2> SUFFICES ASSUME NEW e \in DCmd, NEW g \in Gen
               PROVE  InQueue(e, g)' <=> InQueue(e, g) \/ (e = d /\ g = h)
    OBVIOUS
  <2>1. InQueue(e, g)' => InQueue(e, g) \/ (e = d /\ g = h)
    BY <1>7 DEF InQueue
  <2>2. ASSUME g = h PROVE InQueue(d, g)'
    <3>1. n + 1 \in DOMAIN queue'[g] /\ queue'[g][n + 1] = d
      BY <1>6, <2>2
    <3>2. QED
      BY <3>1 DEF InQueue
  <2>3. ASSUME InQueue(e, g) PROVE InQueue(e, g)'
    <3>1. PICK i \in DOMAIN queue[g] : queue[g][i] = e
      BY <2>3 DEF InQueue
    <3>2. i \in DOMAIN queue'[g] /\ queue'[g][i] = e
      <4>1. CASE g = h
        BY <1>6, <3>1, <4>1
      <4>2. CASE g # h
        BY <1>6, <3>1, <4>2
      <4>3. QED
        BY <4>1, <4>2
    <3>3. QED
      BY <3>2 DEF InQueue
  <2>4. QED
    BY <2>1, <2>2, <2>3
<1>9. OneSupervisor'
  <2>1. QueuedOnce'
    <3> SUFFICES ASSUME NEW f \in Gen, NEW g \in Gen,
                        NEW i \in DOMAIN queue'[f], NEW j \in DOMAIN queue'[g],
                        queue'[f][i] = queue'[g][j]
                 PROVE  f = g /\ i = j
      BY DEF QueuedOnce
    <3>1. QED
      BY <1>7 DEF IInv, OneSupervisor, QueuedOnce
  <2>2. QED
    BY <1>2, <1>3, <1>4, <1>8, <2>1 DEF IInv, OneSupervisor
<1>10. OwnChannel'
  BY <1>2, <1>7 DEF IInv, OwnChannel
<1>11. UnbornInv'
  BY <1>2, <1>3, <1>4, <1>8 DEF IInv, UnbornInv, Unborn
<1>12. HandsInv'
  BY <1>2, <1>3, <1>4, <1>8, DaemonAssumption DEF IInv, HandsInv, Supervised
<1>13. QED
  BY <1>1, <1>5, <1>9, <1>10, <1>11, <1>12 DEF IInv

\* A Run loop takes the first command out of the channel and spawns its restart.
LEMMA RunReceiveStep ==
  ASSUME IInv, TypeOK', LoopInv', NEW g0 \in Gen, RunReceive(g0)
  PROVE  IInv'
<1> DEFINE h == non[g0]
           d == Head(queue[h])
           n == Len(queue[h])
<1>1. GenerationsInv' /\ WaiterInv'
  BY GenerationsFrame, WaiterFrame DEF IInv, RunReceive
<1>2. /\ h \in Gen /\ n \in Nat \ {0} /\ DOMAIN queue[h] = 1..n
      /\ d = queue[h][1] /\ d \in DCmd
  BY DEF IInv, TypeOK, RunReceive
<1>3. InQueue(d, h)
  BY <1>2 DEF InQueue
<1>4. wpc[d] = "idle" /\ rpc[d] = "idle" /\ ended[d] = "no" /\ ~Unborn(d)
  BY <1>2, <1>3 DEF IInv, OneSupervisor, HandsInv, UnbornInv
<1>5. rpc'[d] = "spawned" /\ \A e \in DCmd \ {d} : rpc'[e] = rpc[e]
  BY <1>2 DEF IInv, TypeOK, RunReceive
<1>6. UNCHANGED <<fieldVars, dcmdVars, waitVars, deadline, envVars, histVars>>
  BY DEF RunReceive
<1>7. LimiterInv'
  BY <1>5, <1>6 DEF IInv, LimiterInv
<1>8. /\ DOMAIN queue'[h] = 1..(n - 1)
      /\ \A i \in 1..(n - 1) : queue'[h][i] = queue[h][i + 1]
      /\ \A g \in Gen \ {h} : queue'[g] = queue[g]
  <2>1. queue[h] \in Seq(DCmd) /\ queue[h] # <<>> /\ queue'[h] = Tail(queue[h])
    BY <1>2 DEF IInv, TypeOK, RunReceive
  <2>2. \A g \in Gen \ {h} : queue'[g] = queue[g]
    BY <1>2 DEF IInv, TypeOK, RunReceive
  <2>3. QED
    BY <2>1, <2>2
<1>9. \A g \in Gen : \A i \in DOMAIN queue'[g] :
        \E j \in DOMAIN queue[g] :
          /\ queue'[g][i] = queue[g][j]
          /\ j = IF g = h THEN i + 1 ELSE i
          /\ queue[g][j] # d
  <2> SUFFICES ASSUME NEW g \in Gen, NEW i \in DOMAIN queue'[g]
               PROVE  LET j == IF g = h THEN i + 1 ELSE i
                      IN  j \in DOMAIN queue[g] /\ queue'[g][i] = queue[g][j] /\ queue[g][j] # d
    OBVIOUS
  <2>1. CASE g = h
    <3>1. i \in 1..(n - 1) /\ i + 1 \in 1..n /\ 1 \in 1..n /\ i + 1 # 1
      BY <1>2, <1>8, <2>1
    <3>2. queue[h][i + 1] # queue[h][1]
      BY <1>2, <3>1 DEF IInv, OneSupervisor, QueuedOnce
    <3>3. QED
      BY <1>2, <1>8, <2>1, <3>1, <3>2
  <2>2. CASE g # h
    BY <1>2, <1>8, <2>2 DEF IInv, OneSupervisor, QueuedOnce
  <2>3. QED
    BY <2>1, <2>2
<1>10. \A e \in DCmd, g \in Gen : InQueue(e, g)' <=> InQueue(e, g) /\ e # d
  <2>1. \A e \in DCmd, g \in Gen : InQueue(e, g)' => InQueue(e, g) /\ e # d
    BY <1>9 DEF InQueue
  <2>2. ASSUME NEW e \in DCmd, NEW g \in Gen, InQueue(e, g), e # d
        PROVE  InQueue(e, g)'
    <3>1. PICK j \in DOMAIN queue[g] : queue[g][j] = e
      BY <2>2 DEF InQueue
    <3>2. CASE g = h
      <4>1. j - 1 \in DOMAIN queue'[g] /\ queue'[g][j - 1] = e
        BY <1>2, <1>8, <2>2, <3>1, <3>2
      <4>2. QED
        BY <4>1 DEF InQueue
    <3>3. CASE g # h
      BY <1>8, <3>1, <3>3 DEF InQueue
    <3>4. QED
      BY <3>2, <3>3
  <2>3. QED
    BY <2>1, <2>2
<1>11. QueuedOnce'
  <2> SUFFICES ASSUME NEW f \in Gen, NEW g \in Gen,
                      NEW i \in DOMAIN queue'[f], NEW j \in DOMAIN queue'[g],
                      queue'[f][i] = queue'[g][j]
               PROVE  f = g /\ i = j
    BY DEF QueuedOnce
  <2>1. PICK k \in DOMAIN queue[f] :
          queue'[f][i] = queue[f][k] /\ k = IF f = h THEN i + 1 ELSE i
    BY <1>9
  <2>2. PICK m \in DOMAIN queue[g] :
          queue'[g][j] = queue[g][m] /\ m = IF g = h THEN j + 1 ELSE j
    BY <1>9
  <2>3. f = g /\ k = m
    <3>1. queue[f][k] = queue[g][m]
      BY <2>1, <2>2
    <3>2. QED
      BY <3>1 DEF IInv, OneSupervisor, QueuedOnce
  <2>4. f = h => i \in Int /\ j \in Int
    BY <1>8, <2>3
  <2>5. QED
    BY <2>1, <2>2, <2>3, <2>4
<1>12. OneSupervisor'
  BY <1>4, <1>5, <1>6, <1>10, <1>11 DEF IInv, OneSupervisor
<1>13. OwnChannel'
  BY <1>9 DEF IInv, OwnChannel
<1>14. UnbornInv'
  BY <1>4, <1>5, <1>6, <1>10 DEF IInv, UnbornInv, Unborn
<1>15. HandsInv'
  BY <1>4, <1>5, <1>6, <1>10, DaemonAssumption DEF IInv, HandsInv, Supervised
<1>16. QED
  BY <1>1, <1>7, <1>12, <1>13, <1>14, <1>15 DEF IInv

-----------------------------------------------------------------------------
(* The caller's steps.                                                     *)

\* Run gives every command of the new generation to a startAndWait goroutine.
LEMMA RunStep ==
  ASSUME IInv, TypeOK', LoopInv', Run
  PROVE  IInv'
<1>1. phase = "built" /\ phase' = "running" /\ gen \in Nat /\ dcmds = NewDCmds(gen)
  BY DEF IInv, TypeOK, GenerationsInv, Gen, Run
<1>2. UNCHANGED <<gen, dcmds, cancelled, closed, queue, status, cmd, limiter, rpc, deadline,
                  envVars, histVars>>
  BY DEF Run
<1>3. \A d \in DCmd :
        \/ /\ GenOf[d] = gen /\ wpc'[d] = "start" /\ wch'[d] = gen
           /\ wpc[d] = "idle" /\ rpc[d] = "idle" /\ ended[d] = "no"
           /\ \A g \in Gen : ~InQueue(d, g)
        \/ GenOf[d] # gen /\ wpc'[d] = wpc[d] /\ wch'[d] = wch[d]
  BY <1>1 DEF IInv, UnbornInv, Unborn, NewDCmds, Run
<1>4. \A d, g : InQueue(d, g)' <=> InQueue(d, g)
  BY <1>2, SameQueue
<1>5. GenerationsInv'
  BY <1>1, <1>2 DEF IInv, GenerationsInv, NewDCmds
<1>6. UnbornInv'
  <2>1. \A d \in DCmd : Unborn(d)' => Unborn(d) /\ GenOf[d] # gen
    BY <1>1, <1>2, DaemonAssumption DEF Unborn, Gen
  <2>2. QED
    BY <1>2, <1>3, <1>4, <2>1 DEF IInv, UnbornInv
<1>7. OneSupervisor'
  BY <1>2, <1>3, <1>4, SameQueued DEF IInv, OneSupervisor
<1>8. OwnChannel'
  BY <1>2 DEF IInv, OwnChannel
<1>9. WaiterInv'
  BY <1>2, <1>3 DEF IInv, TypeOK, WaiterInv
<1>10. LimiterInv'
  BY <1>2, LimiterFrame DEF IInv
<1>11. HandsInv'
  BY <1>1, <1>2, <1>3, <1>4 DEF IInv, HandsInv, Supervised
<1>12. QED
  BY <1>5, <1>6, <1>7, <1>8, <1>9, <1>10, <1>11 DEF IInv

\* cancel ends the restart goroutines that are parked.
LEMMA CancelStep ==
  ASSUME IInv, TypeOK', LoopInv', Cancel
  PROVE  IInv'
<1>1. /\ phase = "running" /\ phase' = "cancelled" /\ gen \in Nat
      /\ cancelled' = cancelled \cup {gen}
  BY DEF IInv, TypeOK, Gen, Cancel
<1>2. UNCHANGED <<gen, dcmds, closed, dcmdVars, waitVars, deadline, envVars, restarts, resets,
                  queue>>
  BY DEF Cancel
<1>3. \A d \in DCmd :
        \/ rpc'[d] = rpc[d] /\ ended'[d] = ended[d]
        \/ rpc[d] = "parked" /\ rpc'[d] = "idle" /\ ended'[d] = "cancelled"
  BY DEF IInv, TypeOK, Cancel
<1>4. \A d, g : InQueue(d, g)' <=> InQueue(d, g)
  BY <1>2, SameQueue
<1>5. GenerationsInv'
  BY <1>1, <1>2 DEF IInv, GenerationsInv
<1>6. UnbornInv'
  <2>1. \A d \in DCmd : Unborn(d)' => Unborn(d)
    BY <1>1, <1>2 DEF Unborn
  <2>2. QED
    BY <1>2, <1>3, <1>4, <2>1 DEF IInv, UnbornInv
<1>7. OneSupervisor'
  BY <1>2, <1>3, <1>4, SameQueued DEF IInv, OneSupervisor
<1>8. OwnChannel'
  BY <1>2 DEF IInv, OwnChannel
<1>9. WaiterInv'
  BY <1>1, <1>2 DEF IInv, WaiterInv
<1>10. LimiterInv'
  BY <1>2, <1>3 DEF IInv, LimiterInv
<1>11. HandsInv'
  <2>1. \A d \in DCmd : rpc[d] = "parked" =>
          wpc[d] = "idle" /\ \A g \in Gen : ~InQueue(d, g)
    BY DEF IInv, OneSupervisor
  <2>2. QED
    BY <1>1, <1>2, <1>3, <1>4, <2>1 DEF IInv, HandsInv
<1>12. QED
  BY <1>5, <1>6, <1>7, <1>8, <1>9, <1>10, <1>11 DEF IInv

\* Reload closes and drains the channel of the cancelled generation.
LEMMA ReloadCloseStep ==
  ASSUME IInv, TypeOK', LoopInv', ReloadClose
  PROVE  IInv'
<1>1. phase = "cancelled" /\ phase' = "closed" /\ gen \in Gen
  BY DEF IInv, TypeOK, ReloadClose
<1>2. UNCHANGED <<gen, cancelled, dcmdVars, waitVars, rpc, deadline, envVars, restarts, resets>>
  BY DEF ReloadClose
<1>3. queue'[gen] = <<>> /\ \A g \in Gen \ {gen} : queue'[g] = queue[g]
  BY <1>1 DEF IInv, TypeOK, ReloadClose
<1>4. \A g \in Gen : \A i \in DOMAIN queue'[g] : g # gen /\ queue'[g] = queue[g]
  BY <1>3
<1>5. \A d \in DCmd, g \in Gen : InQueue(d, g)' => InQueue(d, g) /\ g # gen
  BY <1>4 DEF InQueue
<1>6. \A d \in DCmd : \/ ended'[d] = ended[d]
                      \/ InQueue(d, gen) /\ ended'[d] = "cancelled"
  BY DEF IInv, TypeOK, InQueue, ReloadClose
<1>7. GenerationsInv'
  BY <1>1, <1>2 DEF IInv, GenerationsInv, ReloadClose
<1>8. UnbornInv'
  <2>1. \A d \in DCmd : Unborn(d)' => Unborn(d)
    BY <1>1, <1>2 DEF Unborn
  <2>2. QED
    BY <1>1, <1>2, <1>5, <1>6, <2>1 DEF IInv, UnbornInv
<1>9. OneSupervisor'
  <2>1. QueuedOnce'
    BY <1>4 DEF IInv, OneSupervisor, QueuedOnce
  <2>2. QED
    BY <1>2, <1>5, <2>1 DEF IInv, OneSupervisor
<1>10. OwnChannel'
  BY <1>4 DEF IInv, OwnChannel
<1>11. WaiterInv' /\ LimiterInv'
  BY <1>2, WaiterFrame, LimiterFrame DEF IInv
<1>12. HandsInv'
  <2> SUFFICES ASSUME NEW d \in DCmd, ended'[d] # "no"
               PROVE  wpc[d] = "idle" /\ rpc[d] = "idle" /\ \A g \in Gen : ~InQueue(d, g)'
    BY <1>1, <1>2 DEF HandsInv
  <2>1. CASE ended[d] # "no"
    BY <1>5, <2>1 DEF IInv, HandsInv
  <2>2. CASE InQueue(d, gen)
    <3>1. \A g \in Gen : InQueue(d, g) => g = gen
      BY <1>1, <2>2 DEF IInv, OneSupervisor, QueuedOnce, InQueue
    <3>2. QED
      BY <1>1, <1>5, <2>2, <3>1 DEF IInv, OneSupervisor
  <2>3. QED
    BY <1>6, <2>1, <2>2
<1>13. QED
  BY <1>7, <1>8, <1>9, <1>10, <1>11, <1>12 DEF IInv

\* Reload installs a new channel, context and set of commands.
LEMMA ReloadSwapStep ==
  ASSUME IInv, TypeOK', LoopInv', ReloadSwap
  PROVE  IInv'
<1>1. phase = "closed" /\ phase' = "built" /\ gen \in Nat \ {0} /\ gen' = gen + 1
  BY DEF IInv, TypeOK, Gen, ReloadSwap
<1>2. UNCHANGED <<cancelled, closed, dcmdVars, waitVars, rpc, deadline, envVars, histVars, queue>>
  BY DEF ReloadSwap
<1>3. \A d, g : InQueue(d, g)' <=> InQueue(d, g)
  BY <1>2, SameQueue
<1>4. GenerationsInv'
  <2>1. cancelled = 1..(gen - 1) \cup {gen} /\ closed = 1..(gen - 1) \cup {gen}
    BY <1>1 DEF IInv, GenerationsInv
  <2>2. 1..(gen - 1) \cup {gen} = 1..gen
    BY <1>1
  <2>3. gen' - 1 = gen
    BY <1>1
  <2>4. dcmds' = NewDCmds(gen')
    BY <1>1 DEF ReloadSwap
  <2>5. QED
    BY <1>1, <1>2, <2>1, <2>2, <2>3, <2>4 DEF GenerationsInv, NewDCmds
<1>5. UnbornInv'
  <2>1. \A d \in DCmd : Unborn(d)' => Unborn(d)
    BY <1>1, DaemonAssumption DEF Unborn, Gen
  <2>2. QED
    BY <1>2, <1>3, <2>1 DEF IInv, UnbornInv
<1>6. OneSupervisor'
  BY <1>2, <1>3, SameQueued DEF IInv, OneSupervisor
<1>7. OwnChannel'
  BY <1>2 DEF IInv, OwnChannel
<1>8. WaiterInv' /\ LimiterInv'
  BY <1>2, WaiterFrame, LimiterFrame DEF IInv
<1>9. HandsInv'
  BY <1>1, <1>2, <1>3 DEF IInv, HandsInv
<1>10. QED
  BY <1>4, <1>5, <1>6, <1>7, <1>8, <1>9 DEF IInv

-----------------------------------------------------------------------------
(* The theorems.                                                           *)

\* The inductive invariant holds at the start.
LEMMA InductiveInit == Init => IInv
<1> SUFFICES ASSUME Init PROVE IInv
  OBVIOUS
<1>1. TypeOK
  BY TypeInit
<1>2. \A d, g : g \in Gen => ~InQueue(d, g)
  BY DEF Init, InQueue
<1>3. QueuedOnce
  BY DEF Init, QueuedOnce
<1>4. GenerationsInv
  BY DEF Init, GenerationsInv
<1>5. UnbornInv /\ OneSupervisor /\ OwnChannel
  BY <1>2, <1>3 DEF Init, UnbornInv, OneSupervisor, OwnChannel
<1>6. WaiterInv
  BY DEF Init, WaiterInv
<1>7. LimiterInv
  BY LimiterAssumption DEF Init, LimiterInv, NewLimiter
<1>8. HandsInv
  BY DEF Init, HandsInv
<1>9. LoopInv
  BY DEF Init, LoopInv
<1>10. QED
  BY <1>1, <1>4, <1>5, <1>6, <1>7, <1>8, <1>9 DEF IInv

\* A Run loop begins with its generation, and evaluates the operands of its select anew.
LEMMA LoopStep ==
  ASSUME IInv, [Next]_vars
  PROVE  LoopInv'
<1>1. TypeOK /\ LoopInv
  BY DEF IInv
<1> USE DEF TypeOK, LoopInv, Gen
<1>2. CASE Run
  BY <1>1, <1>2 DEF Run
<1>3. CASE Cancel
  BY <1>1, <1>3 DEF Cancel
<1>4. CASE ReloadSwap
  <2>1. gen \in 1..MaxGen /\ gen' = gen + 1 /\ MaxGen \in Nat /\ UNCHANGED <<npc, non>>
    BY <1>1, <1>4, DaemonAssumption DEF ReloadSwap
  <2>2. QED
    BY <1>1, <2>1
<1>5. ASSUME NEW g \in Gen, Consumer(g) PROVE LoopInv'
  <2>1. \/ UNCHANGED <<gen, npc, non>>
        \/ npc[g] # "idle" /\ gen' = gen /\ npc' = [npc EXCEPT ![g] = "select"]
             /\ non' = [non EXCEPT ![g] = gen]
        \/ /\ npc[g] # "idle" /\ UNCHANGED <<gen, non>>
           /\ \E pc \in {"loop", "parked", "done"} : npc' = [npc EXCEPT ![g] = pc]
    BY <1>5 DEF Consumer, RunSelect, RunReturn, RunReceive, RunReceiveNil, RunPark
  <2>2. CASE UNCHANGED <<gen, npc, non>>
    BY <1>1, <2>2
  <2>3. CASE /\ npc[g] # "idle" /\ gen' = gen /\ npc' = [npc EXCEPT ![g] = "select"]
             /\ non' = [non EXCEPT ![g] = gen]
    BY <1>1, <2>3
  <2>4. CASE /\ npc[g] # "idle" /\ UNCHANGED <<gen, non>>
             /\ \E pc \in {"loop", "parked", "done"} : npc' = [npc EXCEPT ![g] = pc]
    BY <1>1, <2>4
  <2>5. QED
    BY <2>1, <2>2, <2>3, <2>4
<1>6. ASSUME NEW d \in DCmd, SendToParked(d) PROVE LoopInv'
  BY <1>1, <1>6 DEF SendToParked
<1>7. CASE UNCHANGED <<gen, npc, non>>
  BY <1>1, <1>7
<1>8. QED
  BY <1>2, <1>3, <1>4, <1>5, <1>6, <1>7
     DEF Next, Caller, ReloadClose, resetLimiter, Tick, startAndWait, LogFails, StartFails, StartOK,
         SetRunning, WaitReturns, Report, SendToBuffer, SendOnClosed, Restarter,
         RestartCancelled, RestartDue, RestartPark, TimerFires, Restart, ChildExit, vars

\* Every step of every goroutine keeps the inductive invariant.
LEMMA InductiveStep == IInv /\ [Next]_vars => IInv'
<1> SUFFICES ASSUME IInv, [Next]_vars PROVE IInv'
  OBVIOUS
<1>1. TypeOK' /\ LoopInv'
  BY TypeStep, LoopStep DEF IInv
<1>2. CASE Caller
  BY <1>1, <1>2, RunStep, CancelStep, ReloadCloseStep, ReloadSwapStep DEF Caller
<1>3. CASE \E g \in Gen : resetLimiter(g)
  BY <1>1, <1>3, ResetStep
<1>4. CASE Tick
  BY <1>1, <1>4, QuietStep
<1>5. CASE \E g \in Gen : Consumer(g)
  BY <1>1, <1>5, QuietStep, RunReceiveStep DEF Consumer
<1>6. CASE \E d \in DCmd : startAndWait(d)
  <2>1. PICK d \in DCmd : startAndWait(d)
    BY <1>6
  <2>2. CASE SendOnClosed(d)
    BY <1>1, <2>2, QuietStep
  <2>3. CASE LogFails(d) \/ (Report(d) /\ GenOf[d] \in cancelled)
    BY <1>1, <2>3, GiveUpStep
  <2>4. CASE \/ StartFails(d) \/ StartOK(d) \/ SetRunning(d) \/ WaitReturns(d)
             \/ Report(d) /\ GenOf[d] \notin cancelled
    BY <1>1, <2>4, WaitStep
  <2>5. CASE SendToParked(d)
    BY <1>1, <2>5, SendToParkedStep
  <2>6. CASE SendToBuffer(d)
    BY <1>1, <2>6, SendToBufferStep
  <2>7. QED
    BY <2>1, <2>2, <2>3, <2>4, <2>5, <2>6 DEF startAndWait
<1>7. CASE \E d \in DCmd : Restarter(d)
  BY <1>1, <1>7, GiveUpStep, DelayStep, RestartStep DEF Restarter
<1>8. CASE \E d \in DCmd : ChildExit(d)
  BY <1>1, <1>8, QuietStep
<1>9. CASE UNCHANGED vars
  <2>1. GenerationsInv' /\ WaiterInv' /\ LimiterInv' /\ CustodyInv'
    BY <1>9, GenerationsFrame, WaiterFrame, LimiterFrame, CustodyFrame
       DEF IInv, CustodyInv, vars
  <2>2. QED
    BY <1>1, <2>1 DEF IInv, CustodyInv
<1>10. QED
  BY <1>2, <1>3, <1>4, <1>5, <1>6, <1>7, <1>8, <1>9 DEF Next

\* The inductive invariant holds of every run of the daemon package.
THEOREM Inductive == Spec => []IInv
BY InductiveInit, InductiveStep, PTL DEF Spec

\* A DaemonCmd is in one goroutine or once in one channel, however reloads and
\* restarts interleave.
THEOREM SupervisionCorrect == Spec => []OneSupervisor
BY Inductive, PTL DEF IInv

\* A channel holds the commands of its own generation only: a goroutine left over from
\* an old generation starts its command on the new channel but never reports to it.
THEOREM ChannelCorrect == Spec => []OwnChannel
BY Inductive, PTL DEF IInv

\* A command never has two running processes.
THEOREM ProcessCorrect == Spec => []OneProcess
<1>1. IInv => OneProcess
  BY DEF IInv, WaiterInv, OneProcess
<1>2. QED
  BY <1>1, Inductive, PTL

\* A command whose Status is Running has an exec.Cmd with a process, for every reader
\* that looks at the two at one moment.
THEOREM StatusCorrect == Spec => []RunningHasProcess
<1>1. IInv => RunningHasProcess
  BY DEF IInv, WaiterInv, RunningHasProcess
<1>2. QED
  BY <1>1, Inductive, PTL

\* While a generation runs, no exit of one of its commands is lost.
THEOREM CustodyCorrect == Spec => []NoExitLost
<1>1. IInv => NoExitLost
  BY DEF IInv, HandsInv, GenerationsInv, NewDCmds, NoExitLost
<1>2. QED
  BY <1>1, Inductive, PTL

\* No path restarts a command past its limiter.
THEOREM BudgetCorrect == Spec => []RestartBudget
<1> SUFFICES ASSUME IInv PROVE RestartBudget
  BY Inductive, PTL
<1> SUFFICES ASSUME NEW d \in DCmd
             PROVE  restarts[d] <= Limit * (resets + 1)
  BY DEF RestartBudget
<1>1. restarts[d] <= Limit * resets + limiter[d].count
  BY DEF IInv, LimiterInv
<1>2. limiter[d].count \in 0..Limit /\ resets \in Nat /\ restarts[d] \in Nat
  BY DEF IInv, TypeOK, LimiterState
<1>3. Limit * (resets + 1) = Limit * resets + Limit /\ Limit * resets \in Nat
  BY <1>2, LimiterAssumption
<1>4. QED
  BY <1>1, <1>2, <1>3, LimiterAssumption

\* A parked goroutine is left parked by a step that changes neither the generation nor
\* what it waits for.
LEMMA WakeupsFrame ==
  ASSUME WakeupsKept,
         UNCHANGED <<gen, cancelled, closed, npc, non, rpc, ron>>,
         phase' = "running" => phase = "running",
         (\E g \in Gen : npc[g] = "parked") => queue'[gen] = queue[gen]
  PROVE  WakeupsKept'
BY DEF WakeupsKept

\* A select parks on the context and the channel of now, and each step that fills the
\* channel, cancels the context or closes the channel wakes who is parked on it.
LEMMA WakeupsStep ==
  ASSUME IInv, WakeupsKept, [Next]_vars
  PROVE  WakeupsKept'
<1>1. gen \in Gen /\ TypeOK /\ GenerationsInv /\ WaiterInv /\ OneSupervisor
  BY DEF IInv, TypeOK
<1>2. CASE Run
  <2>1. npc' = [npc EXCEPT ![gen] = "loop"] /\ UNCHANGED <<gen, cancelled, closed, non, rpc, ron, queue>>
    BY <1>2 DEF Run
  <2>2. npc'[gen] = "loop" /\ \A g \in Gen : npc'[g] = "parked" => npc[g] = "parked"
    BY <1>1, <2>1 DEF TypeOK
  <2>3. QED
    BY <2>1, <2>2 DEF WakeupsKept
<1>3. CASE Cancel
  <2>1. /\ phase' = "cancelled" /\ UNCHANGED <<gen, non, ron>>
        /\ npc' = [g \in Gen |-> IF npc[g] = "parked" /\ non[g] = gen THEN "done" ELSE npc[g]]
        /\ \A d \in DCmd : rpc'[d] = IF rpc[d] = "parked" /\ ron[d] = gen THEN "idle" ELSE rpc[d]
    BY <1>3 DEF Cancel
  <2>2. \A g \in Gen : npc'[g] # "parked"
    BY <2>1 DEF WakeupsKept
  <2>3. \A d \in DCmd : rpc'[d] # "parked"
    BY <2>1 DEF WakeupsKept
  <2>4. QED
    BY <2>1, <2>2, <2>3 DEF WakeupsKept
<1>4. CASE ReloadClose \/ ReloadSwap
  <2>1. gen \in cancelled
    BY <1>1, <1>4 DEF GenerationsInv, ReloadClose, ReloadSwap
  <2>2. /\ \A g \in Gen : npc[g] # "parked"
        /\ \A d \in DCmd : rpc[d] # "parked"
    BY <2>1 DEF WakeupsKept
  <2>3. phase' # "running" /\ UNCHANGED <<npc, rpc>>
    BY <1>4 DEF ReloadClose, ReloadSwap
  <2>4. QED
    BY <2>2, <2>3 DEF WakeupsKept
<1>5. ASSUME NEW g \in Gen, Consumer(g) PROVE WakeupsKept'
  <2>1. CASE RunSelect(g)
    <3>1. /\ npc[g] = "loop" /\ npc' = [npc EXCEPT ![g] = "select"]
          /\ non' = [non EXCEPT ![g] = gen]
          /\ UNCHANGED <<phase, gen, cancelled, closed, rpc, ron, queue>>
      BY <2>1 DEF RunSelect
    <3>2. \A h \in Gen : /\ h = g => npc'[h] = "select"
                         /\ h # g => npc'[h] = npc[h] /\ non'[h] = non[h]
      BY <1>1, <3>1 DEF TypeOK
    <3>3. QED
      BY <1>1, <3>1, <3>2 DEF WakeupsKept
  <2>2. CASE RunReturn(g)
    <3>1. /\ npc' = [npc EXCEPT ![g] = "done"] /\ npc[g] = "select" /\ non[g] \in cancelled
          /\ UNCHANGED <<phase, gen, cancelled, closed, non, rpc, ron, queue>>
      BY <2>2 DEF RunReturn
    <3>2. phase = "running" => g # gen
      <4>1. ASSUME phase = "running", g = gen PROVE non[g] = gen
        <5>1. g <= non[g] /\ non[g] <= gen /\ non[g] \in Gen
          BY <1>1, <3>1 DEF IInv, LoopInv, TypeOK
        <5>2. QED
          BY <4>1, <5>1 DEF Gen
      <4>2. QED
        BY <3>1, <4>1, RunningNotCancelled
    <3>3. \A h \in Gen : /\ npc'[h] = "parked" => npc[h] = "parked"
                         /\ h # g => npc'[h] = npc[h]
      BY <1>1, <3>1 DEF TypeOK
    <3>4. QED
      BY <1>1, <3>1, <3>2, <3>3 DEF WakeupsKept
  <2>3. CASE RunReceive(g)
    <3>1. /\ npc' = [npc EXCEPT ![g] = "loop"]
          /\ rpc' = [rpc EXCEPT ![Head(queue[non[g]])] = "spawned"]
          /\ queue' = [queue EXCEPT ![non[g]] = Tail(@)] /\ queue[non[g]] # <<>>
          /\ UNCHANGED <<phase, gen, cancelled, closed, non, ron>>
      BY <2>3 DEF RunReceive
    <3>2. \A h \in Gen : npc'[h] = npc[h] \/ npc'[h] = "loop"
      BY <1>1, <3>1 DEF TypeOK
    <3>3. \A d \in DCmd : rpc'[d] = "parked" => rpc[d] = "parked"
      BY <1>1, <3>1 DEF TypeOK
    <3>4. queue[gen] = <<>> => queue'[gen] = <<>>
      BY <1>1, <3>1 DEF TypeOK
    <3>5. QED
      BY <1>1, <3>1, <3>2, <3>3, <3>4 DEF WakeupsKept
  <2>4. CASE RunReceiveNil(g)
    BY <2>4, WakeupsFrame DEF RunReceiveNil
  <2>5. CASE RunPark(g)
    <3>1. /\ npc[g] = "select" /\ non[g] \notin cancelled \cup closed /\ queue[non[g]] = <<>>
          /\ npc' = [npc EXCEPT ![g] = "parked"]
          /\ UNCHANGED <<phase, gen, cancelled, closed, non, rpc, ron, queue>>
      BY <2>5 DEF RunPark
    <3>2. \A h \in Gen : /\ h = g => npc'[h] = "parked"
                         /\ h # g => npc'[h] = npc[h]
      BY <1>1, <3>1 DEF TypeOK
    <3>3. non[g] = gen
      <4>1. non[g] <= gen /\ non[g] \in Nat \ {0} /\ gen \in Nat
        <5>1. non[g] \in Gen /\ gen \in Gen
          BY <1>1 DEF TypeOK
        <5>2. non[g] <= gen
          BY <3>1 DEF IInv, LoopInv
        <5>3. QED
          BY <5>1, <5>2 DEF Gen
      <4>2. 1..(gen - 1) \subseteq cancelled
        BY <1>1 DEF GenerationsInv
      <4>3. QED
        BY <3>1, <4>1, <4>2
    <3>4. QED
      BY <1>1, <3>1, <3>2, <3>3 DEF WakeupsKept
  <2>6. QED
    BY <1>5, <2>1, <2>2, <2>3, <2>4, <2>5 DEF Consumer
<1>6. ASSUME NEW d \in DCmd, startAndWait(d) PROVE WakeupsKept'
  <2>1. CASE SendToParked(d)
    <3>1. PICK g \in Gen : npc[g] = "parked" /\ npc' = [npc EXCEPT ![g] = "loop"]
      BY <2>1 DEF SendToParked
    <3>2. /\ rpc' = [rpc EXCEPT ![d] = "spawned"]
          /\ UNCHANGED <<phase, gen, cancelled, closed, non, ron, queue>>
      BY <2>1 DEF SendToParked
    <3>3. \A h \in Gen : npc'[h] = npc[h] \/ npc'[h] = "loop"
      BY <1>1, <3>1 DEF TypeOK
    <3>4. \A e \in DCmd : rpc'[e] = "parked" => rpc[e] = "parked"
      BY <1>1, <3>2 DEF TypeOK
    <3>5. QED
      BY <1>1, <3>2, <3>3, <3>4 DEF WakeupsKept
  <2>2. CASE SendToBuffer(d)
    <3>1. /\ \A g \in Gen : ~(npc[g] = "parked" /\ non[g] = wch[d])
          /\ queue' = [queue EXCEPT ![wch[d]] = Append(queue[wch[d]], d)]
          /\ UNCHANGED <<phase, gen, cancelled, closed, npc, non, rpc, ron>>
      BY <2>2 DEF SendToBuffer
    <3>2. (\E g \in Gen : npc[g] = "parked") => queue'[gen] = queue[gen]
      BY <1>1, <3>1 DEF WakeupsKept, TypeOK
    <3>3. QED
      BY <3>1, <3>2, WakeupsFrame
  <2>3. QED
    BY <1>6, <2>1, <2>2, WakeupsFrame
       DEF startAndWait, LogFails, StartFails, StartOK, SetRunning, WaitReturns, Report,
           SendOnClosed
<1>7. ASSUME NEW d \in DCmd, Restarter(d) PROVE WakeupsKept'
  <2>1. CASE RestartPark(d)
    <3>1. /\ gen \notin cancelled /\ UNCHANGED <<phase, gen, cancelled, closed, npc, non, queue>>
          /\ rpc' = [rpc EXCEPT ![d] = "parked"] /\ ron' = [ron EXCEPT ![d] = gen]
      BY <2>1 DEF RestartPark
    <3>2. \A e \in DCmd : /\ e = d => rpc'[e] = "parked" /\ ron'[e] = gen
                          /\ e # d => rpc'[e] = rpc[e] /\ ron'[e] = ron[e]
      BY <1>1, <3>1 DEF TypeOK
    <3>3. QED
      BY <1>1, <3>1, <3>2 DEF WakeupsKept
  <2>2. CASE RestartCancelled(d) \/ RestartDue(d) \/ TimerFires(d) \/ Restart(d)
    <3>1. /\ UNCHANGED <<phase, gen, cancelled, closed, npc, non, ron, queue>>
          /\ rpc' = [rpc EXCEPT ![d] = "idle"] \/ rpc' = [rpc EXCEPT ![d] = "due"]
      BY <2>2 DEF RestartCancelled, RestartDue, TimerFires, Restart
    <3>2. \A e \in DCmd : rpc'[e] = "parked" => rpc[e] = "parked"
      BY <1>1, <3>1 DEF TypeOK
    <3>3. QED
      BY <1>1, <3>1, <3>2 DEF WakeupsKept
  <2>3. QED
    BY <1>7, <2>1, <2>2 DEF Restarter
<1>8. CASE (\E g \in Gen : resetLimiter(g)) \/ Tick \/ (\E d \in DCmd : ChildExit(d)) \/ UNCHANGED vars
  BY <1>8, WakeupsFrame DEF resetLimiter, Tick, ChildExit, vars
<1>9. QED
  BY <1>2, <1>3, <1>4, <1>5, <1>6, <1>7, <1>8 DEF Next, Caller

\* No goroutine waits for a context or a channel that is over, whatever reloads replace.
THEOREM WakeupsCorrect == Spec => []WakeupsKept
<1>1. Init => WakeupsKept
  BY DaemonAssumption DEF Init, WakeupsKept
<1>2. QED
  BY <1>1, WakeupsStep, Inductive, PTL DEF Spec

\* A running generation never meets a closed channel, whatever old goroutines do: the
\* panics of the two uses of exitedCmdCh are left to goroutines of a generation that is over.
THEOREM ClosedCorrect == Spec => []OnlyOldMeetClosed
<1> SUFFICES ASSUME IInv, WakeupsKept PROVE OnlyOldMeetClosed
  BY Inductive, WakeupsCorrect, PTL
<1>1. closed \subseteq cancelled
  BY DEF IInv, GenerationsInv
<1>2. ASSUME NEW g \in Gen, npc[g] \in {"select", "parked"}, non[g] \in closed
      PROVE  g \in cancelled
  <2>1. npc[g] = "select"
    BY <1>2 DEF WakeupsKept
  <2>2. g <= non[g] /\ g \in Nat \ {0} /\ non[g] \in Nat /\ gen \in Nat
    <3>1. non[g] \in Gen /\ gen \in Gen
      BY DEF IInv, TypeOK
    <3>2. g <= non[g]
      BY <2>1 DEF IInv, LoopInv
    <3>3. QED
      BY <3>1, <3>2 DEF Gen
  <2>3. closed = 1..(gen - 1) \cup (IF phase = "closed" THEN {gen} ELSE {})
    BY DEF IInv, GenerationsInv
  <2>4. g \in closed
    BY <1>2, <2>2, <2>3
  <2>5. QED
    BY <1>1, <2>4
<1>3. ASSUME NEW d \in DCmd, wpc[d] = "send", wch[d] \in closed PROVE GenOf[d] \in cancelled
  BY <1>1, <1>3 DEF IInv, WaiterInv
<1>4. QED
  BY <1>2, <1>3 DEF OnlyOldMeetClosed

\* Restarts of a command are spaced by the backoff, which add does not check.
THEOREM BackoffCorrect == Spec => BackoffHonoured
<1>1. IInv /\ [Next]_vars =>
        [\A d \in DCmd : restarts'[d] # restarts[d] => NextStart(limiter[d], now) <= now]_vars
  <2> SUFFICES ASSUME IInv, Next, NEW d \in DCmd, restarts'[d] # restarts[d]
               PROVE  NextStart(limiter[d], now) <= now
    OBVIOUS
  <2>1. \E e \in DCmd : Restart(e)
    BY DEF Next, Caller, Run, Cancel, ReloadClose, ReloadSwap, resetLimiter, Tick, Consumer,
       RunSelect, RunReturn, RunReceive, RunReceiveNil, RunPark, startAndWait, LogFails, StartFails,
       StartOK, SetRunning, WaitReturns, Report, SendToParked, SendToBuffer, SendOnClosed,
       Restarter, RestartCancelled, RestartDue, RestartPark, TimerFires, ChildExit
  <2>2. PICK e \in DCmd : Restart(e)
    BY <2>1
  <2>3. \A f \in DCmd \ {e} : restarts'[f] = restarts[f]
    <3>1. restarts' = restarts \/ restarts' = [restarts EXCEPT ![e] = restarts[e] + 1]
      BY <2>2 DEF Restart
    <3>2. QED
      BY <3>1 DEF IInv, TypeOK
  <2>4. rpc[d] = "due"
    BY <2>2, <2>3 DEF Restart
  <2>5. now \in Nat /\ (limiter[d].last = ZeroTime \/ NextStart(limiter[d], now) <= now)
    BY <2>4 DEF IInv, TypeOK, LimiterInv
  <2>6. QED
    BY <2>5 DEF NextStart
<1>2. QED
  BY <1>1, Inductive, PTL DEF Spec, BackoffHonoured

\* A step leaves a command that was given up on as it is, but for its processes, which
\* can only exit.
LEMMA EndedStays ==
  ASSUME IInv, Next, NEW d \in DCmd, ended[d] # "no"
  PROVE  /\ ended'[d] = ended[d]
         /\ restarts'[d] = restarts[d]
         /\ live'[d] <= live[d]
<1>1. /\ wpc[d] = "idle" /\ rpc[d] = "idle" /\ \A g \in Gen : ~InQueue(d, g)
      /\ live[d] \in Nat /\ gen \in Gen
  BY DEF IInv, TypeOK, HandsInv
<1>2. ended'[d] = ended[d]
  <2>1. CASE Caller
    BY <1>1, <2>1 DEF IInv, TypeOK, InQueue, Caller, Run, Cancel, ReloadClose, ReloadSwap
  <2>2. CASE \E e \in DCmd : startAndWait(e)
    <3>1. PICK e \in DCmd : startAndWait(e)
      BY <2>2
    <3>2. /\ wpc[e] # "idle"
          /\ ended' = ended \/ \E r : ended' = [ended EXCEPT ![e] = r]
      BY <3>1 DEF startAndWait, LogFails, StartFails, StartOK, SetRunning, WaitReturns,
         Report, SendToParked, SendToBuffer, SendOnClosed
    <3>3. QED
      BY <1>1, <3>2 DEF IInv, TypeOK
  <2>3. CASE \E e \in DCmd : Restarter(e)
    <3>1. PICK e \in DCmd : Restarter(e)
      BY <2>3
    <3>2. /\ rpc[e] # "idle"
          /\ ended' = ended \/ \E r : ended' = [ended EXCEPT ![e] = r]
      BY <3>1 DEF Restarter, RestartCancelled, RestartDue, RestartPark, TimerFires, Restart
    <3>3. QED
      BY <1>1, <3>2 DEF IInv, TypeOK
  <2>4. QED
    BY <2>1, <2>2, <2>3 DEF Next, resetLimiter, Tick, Consumer, RunSelect, RunReturn, RunReceive,
       RunReceiveNil, RunPark, ChildExit
<1>3. restarts'[d] = restarts[d]
  <2>1. CASE \E e \in DCmd : Restart(e)
    <3>1. PICK e \in DCmd : Restart(e)
      BY <2>1
    <3>2. e # d
      BY <1>1, <3>1 DEF Restart
    <3>3. restarts' = restarts \/ restarts' = [restarts EXCEPT ![e] = restarts[e] + 1]
      BY <3>1 DEF Restart
    <3>4. QED
      BY <3>2, <3>3 DEF IInv, TypeOK
  <2>2. CASE ~\E e \in DCmd : Restart(e)
    BY <2>2 DEF Next, Caller, Run, Cancel, ReloadClose, ReloadSwap, resetLimiter, Tick,
       Consumer, RunSelect, RunReturn, RunReceive, RunReceiveNil, RunPark, startAndWait, LogFails,
       StartFails, StartOK, SetRunning, WaitReturns, Report, SendToParked, SendToBuffer,
       SendOnClosed, Restarter, RestartCancelled, RestartDue, RestartPark, TimerFires,
       ChildExit
  <2>3. QED
    BY <2>1, <2>2
<1>4. live'[d] <= live[d]
  <2>1. CASE \E e \in DCmd : StartOK(e)
    BY <1>1, <2>1 DEF IInv, TypeOK, StartOK
  <2>2. CASE \E e \in DCmd : ChildExit(e)
    BY <1>1, <2>2 DEF IInv, TypeOK, ChildExit
  <2>3. CASE UNCHANGED live
    BY <1>1, <2>3
  <2>4. QED
    BY <2>1, <2>2, <2>3 DEF Next, Caller, Run, Cancel, ReloadClose, ReloadSwap,
       resetLimiter, Tick, Consumer, RunSelect, RunReturn, RunReceive, RunReceiveNil, RunPark,
       startAndWait, LogFails, StartFails, SetRunning, WaitReturns, Report, SendToParked,
       SendToBuffer, SendOnClosed, Restarter, RestartCancelled, RestartDue, RestartPark,
       TimerFires, Restart
<1>5. QED
  BY <1>2, <1>3, <1>4

\* A command that was given up on is never started again.
THEOREM EndedCorrect == Spec => EndedIsFinal
<1> DEFINE Final == \A d \in DCmd : ended[d] # "no" =>
                      /\ ended'[d] = ended[d]
                      /\ restarts'[d] = restarts[d]
                      /\ live'[d] <= live[d]
<1>1. ASSUME IInv, [Next]_vars PROVE [Final]_vars
  BY <1>1, EndedStays
<1>2. QED
  BY <1>1, Inductive, PTL DEF Spec, EndedIsFinal, Final

=============================================================================
