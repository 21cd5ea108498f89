-------------------------- MODULE ObserversProofs ---------------------------
(***************************************************************************)
(* The readers beside the daemon: for any commands, labels, addresses and  *)
(* numbers of restarts and reloads, what they promise.  Rests on the       *)
(* invariant of module DaemonProofs, which tells that Running means a      *)
(* started exec.Cmd, and how a command gets a new one.                     *)
(***************************************************************************)
EXTENDS Observers, DaemonProofs

\* A reader that looks twice has one command in hand, and its slice is of one generation.
SliceInv ==
  /\ \A d, e \in picked : d = e
  /\ picked # {} => job \in {"print", "reload", "list"}
  /\ job = "lsof" => steady \subseteq todo
  /\ job \in {"lsof", "list"} => out = {}
  /\ \A d, e \in todo \cup steady : GenOf[d] = GenOf[e]

\* The limiter has refused d a restart.
Refused(d) == ended[d] = "limit reached"

\* A command of a cancelled generation that is no more than waited for or given up
Passing(d) ==
  /\ GenOf[d] \in cancelled
  /\ cmd[d] # "fresh"
  /\ wpc[d] \in {"wait", "report"} \/ ended[d] # "no"

\* What has become of the picked command since it was picked
SeenInv ==
  \A d \in picked :
    /\ seen.restarts <= restarts[d]
    /\ cmd[d] = "fresh" => seen.restarts < restarts[d] \/ Refused(d)
    /\ job \in {"print", "reload"} /\ seen.over => Passing(d)

\* Addresses are those a command can listen on.
AddrInv ==
  /\ \A d \in DCmd : addr[d] # None => addr[d] \in ListensOn[d]
  /\ \A a \in Addr : listed[a] # None => a \in ListensOn[listed[a]]

ObsInv ==
  /\ IInv
  /\ ObsTypeOK
  /\ SliceInv
  /\ SeenInv
  /\ AddrInv
  /\ AnswerComplete
  /\ GaugeHonest

-----------------------------------------------------------------------------
(* Steps of the daemon, as a reader sees its picked command                *)

\* A command gets a new exec.Cmd only with a restart, granted or refused.
LEMMA FreshByRestart ==
  ASSUME IInv, Next, NEW d \in DCmd
  PROVE  /\ restarts[d] <= restarts'[d]
         /\ cmd'[d] = "fresh" /\ cmd[d] # "fresh" =>
              restarts[d] < restarts'[d] \/ Refused(d)'
<1>1. /\ cmd \in [DCmd -> CmdStates]
      /\ restarts \in [DCmd -> Nat]
      /\ restarts[d] \in Nat
      /\ ended \in [DCmd -> EndReasons]
  BY DEF IInv, TypeOK
<1>2. CASE \E e \in DCmd : Restart(e)
  <2>1. PICK e \in DCmd : Restart(e)
    BY <1>2
  <2>2. CASE e = d
    <3>1. CASE CanAdd(limiter[d], 1, now)
      <4>1. restarts' = [restarts EXCEPT ![d] = restarts[d] + 1]
        BY <2>1, <2>2, <3>1 DEF Restart
      <4>2. restarts'[d] = restarts[d] + 1
        BY <1>1, <4>1
      <4>3. QED
        BY <1>1, <4>2
    <3>2. CASE ~CanAdd(limiter[d], 1, now)
      <4>1. restarts' = restarts /\ Refused(d)'
        BY <1>1, <2>1, <2>2, <3>2, Zenon DEF Restart, Refused
      <4>2. QED
        BY <1>1, <4>1
    <3>3. QED
      BY <3>1, <3>2
  <2>3. CASE e # d
    <3>1. /\ cmd' = [cmd EXCEPT ![e] = "fresh"]
          /\ restarts' = restarts \/ restarts' = [restarts EXCEPT ![e] = restarts[e] + 1]
      BY <2>1 DEF Restart
    <3>2. cmd'[d] = cmd[d] /\ restarts'[d] = restarts[d]
      BY <1>1, <2>3, <3>1
    <3>3. restarts[d] <= restarts'[d]
      BY <1>1, <3>2
    <3>4. QED
      BY <3>2, <3>3
  <2>4. QED
    BY <2>2, <2>3
<1>3. CASE ~\E e \in DCmd : Restart(e)
  <2>1. /\ restarts' = restarts
        /\ cmd' = cmd \/ \E e \in DCmd, x \in {"started", "waited"} : cmd' = [cmd EXCEPT ![e] = x]
    BY <1>3 DEF Next, Caller, Run, Cancel, ReloadClose, ReloadSwap, resetLimiter, Tick,
       Consumer, RunSelect, RunReturn, RunReceive, RunReceiveNil, RunPark, startAndWait,
       LogFails, StartFails, StartOK, SetRunning, WaitReturns, Report, SendToParked,
       SendToBuffer, SendOnClosed, Restarter, RestartCancelled, RestartDue, RestartPark,
       TimerFires, ChildExit, dcmdVars, histVars
  <2>2. cmd'[d] = cmd[d] \/ cmd'[d] # "fresh"
    BY <1>1, <2>1
  <2>3. restarts[d] <= restarts'[d]
    BY <1>1, <2>1
  <2>4. QED
    BY <2>2, <2>3
<1>4. QED
  BY <1>2, <1>3

\* A command of a cancelled generation that is waited for is passed on to nobody.
LEMMA PassingStays ==
  ASSUME IInv, Next, NEW d \in DCmd, Passing(d)
  PROVE  Passing(d)'
<1>1. TypeOK /\ rpc[d] = "idle" /\ wpc[d] \in {"idle", "wait", "report"}
  BY DEF IInv, OneSupervisor, HandsInv, Passing
<1>2. GenOf[d] \in cancelled'
  BY DEF Passing, Next, Caller, Run, Cancel, ReloadClose, ReloadSwap, resetLimiter, Tick,
     Consumer, RunSelect, RunReturn, RunReceive, RunReceiveNil, RunPark, startAndWait,
     LogFails, StartFails, StartOK, SetRunning, WaitReturns, Report, SendToParked,
     SendToBuffer, SendOnClosed, Restarter, RestartCancelled, RestartDue, RestartPark,
     TimerFires, Restart, ChildExit, fieldVars
<1>3. ended[d] # "no" => ended'[d] # "no"
  BY EndedStays
<1>4. cmd'[d] # "fresh" /\ (wpc[d] \in {"wait", "report"} =>
                              wpc'[d] \in {"wait", "report"} \/ ended'[d] # "no")
  <2>1. CASE \E e \in DCmd : startAndWait(e)
    <3>1. PICK e \in DCmd : startAndWait(e)
      BY <2>1
    <3>2. CASE e = d
      <4>1. CASE WaitReturns(d)
        BY <1>1, <4>1 DEF TypeOK, WaitReturns
      <4>2. CASE Report(d)
        BY <1>1, <4>2 DEF Passing, TypeOK, Report, dcmdVars
      <4>3. QED
        BY <1>1, <3>1, <3>2, <4>1, <4>2 DEF startAndWait, LogFails, StartFails, StartOK,
           SetRunning, SendToParked, SendToBuffer, SendOnClosed
    <3>3. CASE e # d
      <4>1. /\ wpc' = wpc \/ \E x : wpc' = [wpc EXCEPT ![e] = x]
            /\ cmd' = cmd \/ \E x : cmd' = [cmd EXCEPT ![e] = x]
        BY <3>1 DEF startAndWait, LogFails, StartFails, StartOK, SetRunning, WaitReturns,
           Report, SendToParked, SendToBuffer, SendOnClosed, dcmdVars, waitVars
      <4>2. QED
        BY <1>1, <3>3, <4>1 DEF Passing, TypeOK
    <3>4. QED
      BY <3>2, <3>3
  <2>2. CASE \E e \in DCmd : Restarter(e)
    <3>1. PICK e \in DCmd : Restarter(e)
      BY <2>2
    <3>2. e # d
      BY <1>1, <3>1 DEF Restarter, RestartCancelled, RestartDue, RestartPark, TimerFires, Restart
    <3>3. /\ wpc' = wpc \/ \E x : wpc' = [wpc EXCEPT ![e] = x]
          /\ cmd' = cmd \/ \E x : cmd' = [cmd EXCEPT ![e] = x]
      BY <3>1 DEF Restarter, RestartCancelled, RestartDue, RestartPark, TimerFires, Restart,
         dcmdVars, waitVars
    <3>4. QED
      BY <1>1, <3>2, <3>3 DEF Passing, TypeOK
  <2>3. CASE Run
    <3>1. gen \notin cancelled /\ dcmds = NewDCmds(gen)
      <4>1. gen \in Nat
        BY <1>1 DEF TypeOK, Gen
      <4>2. QED
        BY <2>3, <4>1 DEF IInv, GenerationsInv, Run
    <3>2. d \notin dcmds
      BY <3>1 DEF Passing, NewDCmds
    <3>3. QED
      BY <2>3, <3>2 DEF Run, Passing, dcmdVars
  <2>4. CASE UNCHANGED <<wpc, cmd>>
    BY <2>4 DEF Passing
  <2>5. QED
    BY <2>1, <2>2, <2>3, <2>4 DEF Next, Caller, Cancel, ReloadClose, ReloadSwap,
       resetLimiter, Tick, Consumer, RunSelect, RunReturn, RunReceive, RunReceiveNil,
       RunPark, ChildExit, dcmdVars, waitVars
<1>5. QED
  BY <1>2, <1>3, <1>4 DEF Passing

\* A reader changes nothing of the daemon but that it may end it.
LEMMA ReaderLeavesDaemon ==
  ASSUME IInv, Reader
  PROVE  IInv'
<1>1. CASE \E d \in DCmd : NilProcess(d)
  <2>1. /\ UNCHANGED <<fieldVars, dcmdVars, runVars, waitVars, restVars, envVars, histVars,
                       queue>>
        /\ panicked' \in {panicked, "nil Process"}
    BY <1>1 DEF NilProcess
  <2>2. TypeOK' /\ LoopInv'
    BY <2>1 DEF IInv, TypeOK, LoopInv, PanicKinds, fieldVars, dcmdVars, runVars, waitVars,
       restVars, envVars, histVars
  <2>3. GenerationsInv' /\ WaiterInv' /\ LimiterInv'
    BY <2>1, GenerationsFrame, WaiterFrame, LimiterFrame DEF IInv, fieldVars, dcmdVars,
       waitVars, restVars, envVars, histVars
  <2>4. CustodyInv'
    BY <2>1, CustodyFrame DEF IInv, CustodyInv, fieldVars, waitVars, restVars, histVars
  <2>5. QED
    BY <2>2, <2>3, <2>4 DEF IInv, CustodyInv
<1>2. CASE UNCHANGED vars
  BY <1>2, InductiveStep
<1>3. QED
  BY <1>1, <1>2 DEF Reader, PrintBegin, RequestBegin, Begin, Lsof, LsofFails, LookStatus,
     LookProcess, SetGauge, AddTarget, UsePid, NilURL, Answer, Visit

-----------------------------------------------------------------------------
(* The parts of the invariant                                              *)

\* They hold at the start.
LEMMA ObsInitInv == ObsInit => ObsInv
<1> SUFFICES ASSUME ObsInit PROVE ObsInv
  OBVIOUS
<1>1. IInv
  BY InductiveInit DEF ObsInit
<1>2. ObsTypeOK
  BY DEF ObsInit, Idle, ObsTypeOK, Jobs, NotSeen
<1>3. SliceInv /\ SeenInv /\ AddrInv /\ AnswerComplete /\ GaugeHonest
  BY DEF ObsInit, Idle, SliceInv, SeenInv, AddrInv, AnswerComplete, GaugeHonest, Ran
<1>4. QED
  BY <1>1, <1>2, <1>3 DEF ObsInv

\* A step of the daemon: what a command that keeps its Status was promised still stands.
LEMMA DaemonMovesStep ==
  ASSUME ObsInv, DaemonMoves
  PROVE  ObsInv'
<1>1. IInv'
  BY InductiveStep DEF ObsInv, DaemonMoves
<1>2. ObsTypeOK' /\ SliceInv'
  BY DEF ObsInv, ObsTypeOK, SliceInv, DaemonMoves
<1>3. \A d \in Ran' : d \in Ran /\ addr'[d] \in {addr[d], None}
  BY DEF Ran, DaemonMoves, ObsInv, ObsTypeOK
<1>4. AnswerComplete'
  BY <1>3 DEF ObsInv, AnswerComplete, DaemonMoves
<1>5. GaugeHonest'
  BY DEF ObsInv, GaugeHonest, DaemonMoves
<1>6. AddrInv'
  BY DEF ObsInv, AddrInv, DaemonMoves
<1>7. SeenInv'
  <2> SUFFICES ASSUME NEW d \in picked
               PROVE  /\ seen.restarts <= restarts'[d]
                      /\ cmd'[d] = "fresh" =>
                           seen.restarts < restarts'[d] \/ Refused(d)'
                      /\ job \in {"print", "reload"} /\ seen.over => Passing(d)'
    BY DEF SeenInv, DaemonMoves
  <2>1. /\ d \in DCmd /\ IInv /\ Next
        /\ restarts[d] \in Nat /\ restarts'[d] \in Nat /\ seen.restarts \in Nat
    BY <1>1 DEF ObsInv, ObsTypeOK, DaemonMoves, IInv, TypeOK
  <2>2. /\ seen.restarts <= restarts[d]
        /\ cmd[d] = "fresh" => seen.restarts < restarts[d] \/ Refused(d)
    BY DEF ObsInv, SeenInv
  <2>3. job \in {"print", "reload"} /\ seen.over => Passing(d)
    BY DEF ObsInv, SeenInv
  <2>4. /\ restarts[d] <= restarts'[d]
        /\ cmd'[d] = "fresh" /\ cmd[d] # "fresh" =>
             restarts[d] < restarts'[d] \/ Refused(d)'
    BY <2>1, FreshByRestart
  <2>5. Refused(d) => Refused(d)'
    BY <2>1, EndedStays, Zenon DEF Refused
  <2>6. Passing(d) => Passing(d)'
    BY <2>1, PassingStays
  <2>7. /\ seen.restarts <= restarts'[d]
        /\ cmd'[d] = "fresh" => seen.restarts < restarts'[d] \/ Refused(d)'
    BY <2>1, <2>2, <2>4, <2>5
  <2>8. QED
    BY <2>3, <2>6, <2>7, Zenon
<1>8. QED
  BY <1>1, <1>2, <1>4, <1>5, <1>6, <1>7 DEF ObsInv

\* What a reader has seen stands as long as nothing it is about changes.
LEMMA SeenFrame ==
  ASSUME SeenInv, UNCHANGED <<job, picked, seen, restarts, cmd, ended, wpc, cancelled>>
  PROVE  SeenInv'
<1>1. \A d : Refused(d)' <=> Refused(d)
  BY Zenon DEF Refused
<1>2. \A d : Passing(d)' <=> Passing(d)
  BY DEF Passing
<1>3. QED
  BY <1>1, <1>2 DEF SeenInv

\* A reader that leaves has nothing more to keep.
LEMMA LeaveStep ==
  ASSUME ObsInv, IInv', Leave, out' = {}
  PROVE  ObsInv'
<1>1. ObsTypeOK'
  BY DEF Leave, ObsTypeOK, Jobs, NotSeen
<1>2. SliceInv' /\ SeenInv' /\ AddrInv' /\ AnswerComplete' /\ GaugeHonest'
  BY DEF Leave, SliceInv, SeenInv, AddrInv, AnswerComplete, GaugeHonest, Ran
<1>3. QED
  BY <1>1, <1>2 DEF ObsInv

\* A step of a reader
LEMMA ReaderStep ==
  ASSUME ObsInv, Reader
  PROVE  ObsInv'
<1>1. IInv'
  BY ReaderLeavesDaemon DEF ObsInv
<1>2. dcmds \in SUBSET DCmd /\ \A d, e \in dcmds : GenOf[d] = GenOf[e]
  BY DEF ObsInv, IInv, TypeOK, GenerationsInv, NewDCmds
<1>3. /\ \A d \in DCmd : status[d] = "Running" => cmd[d] = "started" /\ wpc[d] = "wait"
      /\ \A d \in DCmd : status[d] # "Exited" => status[d] = "Running"
      /\ restarts \in [DCmd -> Nat]
  BY DEF ObsInv, IInv, TypeOK, WaiterInv
<1>4. CASE PrintBegin \/ \E what \in Jobs : RequestBegin(what)
  <2>1. /\ job = "none"
        /\ job' \in Jobs \ {"none", "list"}
        /\ todo' = dcmds
        /\ steady' = dcmds
        /\ UNCHANGED <<vars, picked, listVars, out, gauge, seen>>
    BY <1>4 DEF PrintBegin, RequestBegin, Begin, Jobs
  <2>2. ObsTypeOK' /\ SliceInv' /\ AddrInv'
    BY <1>2, <2>1 DEF ObsInv, ObsTypeOK, SliceInv, AddrInv, listVars
  <2>3. picked' = {}
    BY <2>1 DEF ObsInv, ObsTypeOK
  <2>4. SeenInv' /\ AnswerComplete' /\ GaugeHonest'
    BY <2>1, <2>3 DEF SeenInv, AnswerComplete, GaugeHonest, Ran
  <2>5. QED
    BY <1>1, <2>2, <2>4 DEF ObsInv
<1>5. CASE Lsof
  <2>1. /\ job = "lsof" /\ job' = "list"
        /\ addr' \in [DCmd -> Addr \cup {None}]
        /\ \A d \in DCmd : addr'[d] # None => addr'[d] \in ListensOn[d]
        /\ UNCHANGED <<vars, todo, picked, listed, out, gauge, steady, seen>>
    BY <1>5 DEF Lsof
  <2>2. steady \subseteq todo /\ picked = {}
    BY <2>1 DEF ObsInv, SliceInv
  <2>3. ObsTypeOK' /\ SliceInv' /\ AddrInv'
    BY <2>1, <2>2 DEF ObsInv, ObsTypeOK, SliceInv, AddrInv, Jobs
  <2>4. SeenInv' /\ AnswerComplete' /\ GaugeHonest'
    BY <2>1, <2>2 DEF SeenInv, AnswerComplete, GaugeHonest, Ran, vars, dcmdVars
  <2>5. QED
    BY <1>1, <2>3, <2>4 DEF ObsInv
<1>6. ASSUME NEW d \in DCmd, LookStatus(d) \/ LookProcess(d) \/ AddTarget(d)
      PROVE  ObsInv'
  <2>1. /\ job \in Jobs \ {"none", "lsof", "scrape"}
        /\ picked = {}
        /\ d \in todo
        /\ todo' = todo \ {d}
        /\ picked' \in SUBSET {d}
        /\ out \subseteq out'
        /\ out' \in SUBSET DCmd
        /\ picked' # {} => /\ job \in {"print", "reload", "list"}
                           /\ seen' = [restarts |-> restarts[d], over |-> GenOf[d] \in cancelled]
        /\ picked' # {} \/ seen' = seen
        /\ UNCHANGED <<vars, job, listVars, steady, gauge>>
    BY <1>6 DEF LookStatus, LookProcess, AddTarget, Visit, Pick, Jobs, ObsInv, ObsTypeOK
  <2>2. seen' \in [restarts : Nat, over : BOOLEAN]
    <3>1. (GenOf[d] \in cancelled) \in BOOLEAN
      OBVIOUS
    <3>2. seen \in [restarts : Nat, over : BOOLEAN]
      BY DEF ObsInv, ObsTypeOK
    <3>3. restarts[d] \in Nat
      BY <1>3
    <3>4. CASE seen' = [restarts |-> restarts[d], over |-> GenOf[d] \in cancelled]
      BY <3>1, <3>3, <3>4
    <3>5. QED
      BY <2>1, <3>2, <3>4, Zenon
  <2>3. ObsTypeOK' /\ SliceInv' /\ AddrInv'
    <3>1. /\ job \in Jobs \ {"none", "lsof", "scrape"}
          /\ picked' \in SUBSET {d}
          /\ picked' # {} => job \in {"print", "reload", "list"}
          /\ todo' \subseteq todo
          /\ job = "list" => out' = out
          /\ UNCHANGED <<job, addr, listed, steady, gauge>>
      BY <1>6, <2>1 DEF LookStatus, LookProcess, AddTarget, Visit, listVars
    <3>2. ObsTypeOK'
      BY <2>1, <2>2, <3>1 DEF ObsInv, ObsTypeOK
    <3>3. SliceInv' /\ AddrInv'
      BY <3>1 DEF ObsInv, SliceInv, AddrInv
    <3>4. QED
      BY <3>2, <3>3
  <2>4. status[d] = "Running" =>
          \/ d \in picked' \cup out'
          \/ job = "discover" /\ d \notin Scraped
    BY <1>3, <1>6 DEF LookStatus, LookProcess, AddTarget, Visit, Pick
  <2>5. AnswerComplete'
    <3>1. /\ Ran' = Ran
          /\ Ran \ (todo' \cup picked') \subseteq (Ran \ (todo \cup picked)) \cup {d}
          /\ UNCHANGED <<job, addr, listed>>
      BY <2>1 DEF Ran, vars, dcmdVars, listVars
    <3>2. job = "list" /\ d \in Ran => d \in picked'
      BY <1>3, <1>6 DEF LookStatus, LookProcess, AddTarget, Visit, Pick, Ran
    <3>3. d \in Ran \ picked' => /\ job = "reload" => d \in out'
                                 /\ job = "discover" /\ d \in Scraped => d \in out'
      BY <2>4, <1>6 DEF LookStatus, LookProcess, AddTarget, Visit, Pick, Ran
    <3>4. QED
      BY <2>1, <3>1, <3>2, <3>3 DEF ObsInv, AnswerComplete
  <2>6. GaugeHonest'
    BY <2>1 DEF GaugeHonest
  <2>7. d \in picked' => /\ cmd[d] # "fresh"
                         /\ job \in {"print", "reload"} => wpc[d] = "wait"
    BY <1>3, <1>6 DEF LookStatus, LookProcess, AddTarget, Visit, Pick
  <2>8. SeenInv'
    <3>1. SUFFICES ASSUME d \in picked', \A e \in picked' : e = d PROVE SeenInv'
      BY <2>1 DEF SeenInv
    <3>2. /\ seen'.restarts = restarts[d]
          /\ job' = job
          /\ UNCHANGED <<restarts, cmd, wpc, cancelled>>
      BY <2>1, <3>1 DEF vars, fieldVars, dcmdVars, waitVars, histVars
    <3>3. seen'.over = (GenOf[d] \in cancelled)
      BY <2>1, <3>1
    <3>4. job \in {"print", "reload"} /\ seen'.over => Passing(d)'
      BY <2>7, <3>1, <3>2, <3>3 DEF Passing
    <3>5. seen'.restarts <= restarts'[d]
      BY <1>3, <2>1, <3>2 DEF ObsInv, ObsTypeOK
    <3>6. cmd'[d] # "fresh"
      BY <2>7, <3>1, <3>2
    <3>7. QED
      BY <3>1, <3>2, <3>4, <3>5, <3>6 DEF SeenInv
  <2>9. QED
    BY <1>1, <2>3, <2>5, <2>6, <2>8 DEF ObsInv
<1>7. ASSUME NEW d \in DCmd, SetGauge(d)
      PROVE  ObsInv'
  <2>1. /\ job = "scrape"
        /\ picked = {}
        /\ d \in todo
        /\ todo' = todo \ {d}
        /\ gauge' = [gauge EXCEPT ![Label[d]] = status[d]]
        /\ Label[d] \in Labels
        /\ status[d] \in {"Exited", "Running"}
        /\ UNCHANGED <<vars, job, picked, listVars, out, steady, seen>>
    BY <1>7 DEF SetGauge, Visit, Labels, ObsInv, IInv, TypeOK
  <2>2. ObsTypeOK' /\ SliceInv' /\ SeenInv' /\ AddrInv' /\ AnswerComplete'
    BY <2>1 DEF ObsInv, ObsTypeOK, SliceInv, SeenInv, AddrInv, AnswerComplete, listVars
  <2>3. GaugeHonest'
    <3>1. SUFFICES ASSUME NEW e \in steady, e \notin todo \ {d},
                          \A f \in NewDCmds(GenOf[e]) : Label[f] = Label[e] => f = e
                   PROVE  gauge'[Label[e]] = status[e]
      BY <2>1 DEF GaugeHonest, vars, dcmdVars
    <3>2. gauge \in [Labels -> {"old", "Exited", "Running"}] /\ Label[e] \in Labels
      BY DEF ObsInv, ObsTypeOK, Labels
    <3>3. CASE e = d
      BY <2>1, <3>2, <3>3
    <3>4. CASE e # d
      <4>1. Label[d] # Label[e]
        BY <2>1, <3>1, <3>4 DEF ObsInv, SliceInv, NewDCmds
      <4>2. gauge[Label[e]] = status[e]
        BY <2>1, <3>1, <3>4 DEF ObsInv, GaugeHonest
      <4>3. QED
        BY <2>1, <3>2, <4>1, <4>2
    <3>5. QED
      BY <3>3, <3>4
  <2>4. QED
    BY <1>1, <2>2, <2>3 DEF ObsInv
<1>8. ASSUME NEW d \in DCmd, NilProcess(d)
      PROVE  ObsInv'
  <2>1. CASE job = "print"
    <3>1. UNCHANGED <<jobVars, fieldVars, dcmdVars, waitVars, histVars>>
      BY <1>8, <2>1 DEF NilProcess
    <3>2. ObsTypeOK' /\ SliceInv' /\ AddrInv'
      BY <3>1 DEF ObsInv, ObsTypeOK, SliceInv, AddrInv, jobVars, listVars
    <3>3. SeenInv'
      BY <3>1, SeenFrame DEF ObsInv, jobVars, fieldVars, dcmdVars, waitVars, histVars
    <3>4. AnswerComplete' /\ GaugeHonest'
      BY <3>1 DEF ObsInv, AnswerComplete, GaugeHonest, Ran, jobVars, listVars, dcmdVars
    <3>5. QED
      BY <1>1, <3>2, <3>3, <3>4 DEF ObsInv
  <2>2. CASE job # "print"
    BY <1>1, <1>8, <2>2, LeaveStep DEF NilProcess, Leave
  <2>3. QED
    BY <2>1, <2>2
<1>9. ASSUME NEW d \in DCmd, UsePid(d)
      PROVE  ObsInv'
  <2>1. /\ d \in picked
        /\ picked' = {}
        /\ seen' = NotSeen
        /\ UNCHANGED <<vars, job, todo, addr, gauge, steady>>
        /\ out' = IF job = "reload" /\ cmd[d] = "started" THEN out \cup {d} ELSE out
        /\ listed' = IF job = "list" /\ addr[d] # None THEN [listed EXCEPT ![addr[d]] = d]
                     ELSE listed
    BY <1>9 DEF UsePid
  <2>2. /\ addr \in [DCmd -> Addr \cup {None}]
        /\ listed \in [Addr -> DCmd \cup {None}]
        /\ addr[d] # None => addr[d] \in Addr /\ addr[d] \in ListensOn[d]
        /\ job \in {"print", "reload", "list"}
        /\ \A e \in picked : e = d
    BY <2>1 DEF ObsInv, ObsTypeOK, AddrInv, SliceInv
  <2>3. listed' \in [Addr -> DCmd \cup {None}]
    BY <2>1, <2>2
  <2>4. ObsTypeOK' /\ SliceInv' /\ SeenInv'
    BY <2>1, <2>2, <2>3 DEF ObsInv, ObsTypeOK, SliceInv, SeenInv, NotSeen
  <2>5. GaugeHonest'
    BY <2>1, <2>2 DEF GaugeHonest
  <2>6. AddrInv'
    BY <2>1, <2>2 DEF ObsInv, AddrInv
  <2>7. AnswerComplete'
    <3> SUFFICES ASSUME NEW e \in Ran \ todo
                 PROVE  /\ job = "reload" => e \in out'
                        /\ job = "discover" /\ e \in Scraped => e \in out'
                        /\ job = "list" /\ addr[e] # None =>
                             \E f \in DCmd : listed'[addr[e]] = f /\ addr[e] \in ListensOn[f]
      BY <2>1 DEF AnswerComplete, Ran, vars, dcmdVars
    <3>1. e \in DCmd /\ cmd[e] = "started"
      BY <1>3 DEF Ran, ObsInv, ObsTypeOK
    <3>2. CASE e = d
      <4>1. job = "list" /\ addr[e] # None => listed'[addr[e]] = d /\ addr[e] \in ListensOn[d]
        BY <2>1, <2>2, <3>2
      <4>2. QED
        BY <2>1, <2>2, <3>1, <3>2, <4>1
    <3>3. CASE e # d
      <4>1. e \notin picked
        BY <2>2, <3>3
      <4>2. /\ job = "reload" => e \in out
            /\ job = "list" /\ addr[e] # None =>
                 \E f \in DCmd : listed[addr[e]] = f /\ addr[e] \in ListensOn[f]
        BY <4>1 DEF ObsInv, AnswerComplete
      <4>3. CASE job = "list" /\ addr[e] # None
        <5>1. addr[e] \in Addr
          BY <2>2, <3>1, <4>3
        <5>2. listed'[addr[e]] = listed[addr[e]]
              \/ (listed'[addr[e]] = d /\ addr[e] \in ListensOn[d])
          BY <2>1, <2>2, <5>1
        <5>3. QED
          BY <4>2, <4>3, <5>2
      <4>4. CASE ~(job = "list" /\ addr[e] # None)
        BY <2>1, <2>2, <4>2, <4>4
      <4>5. QED
        BY <4>3, <4>4
    <3>4. QED
      BY <3>2, <3>3
  <2>8. QED
    BY <1>1, <2>4, <2>5, <2>6, <2>7 DEF ObsInv
<1>10. CASE LsofFails \/ NilURL \/ Answer
  <2>1. Leave /\ out' = {}
    BY <1>10 DEF LsofFails, NilURL, Answer, LoopDone, ObsInv, SliceInv
  <2>2. QED
    BY <1>1, <2>1, LeaveStep
<1>11. QED
  BY <1>4, <1>5, <1>6, <1>7, <1>8, <1>9, <1>10 DEF Reader

\* The invariant of the daemon with its readers
THEOREM ObsInductive == ObsSpec => []ObsInv
<1>1. ObsInv /\ [ObsNext]_obsVars => ObsInv'
  <2> SUFFICES ASSUME ObsInv, [ObsNext]_obsVars PROVE ObsInv'
    OBVIOUS
  <2>1. CASE UNCHANGED obsVars
    <3>1. IInv'
      BY <2>1, InductiveStep DEF obsVars, ObsInv
    <3>2. ObsTypeOK' /\ SliceInv' /\ AddrInv' /\ AnswerComplete' /\ GaugeHonest'
      BY <2>1 DEF obsVars, jobVars, listVars, vars, dcmdVars, ObsInv, ObsTypeOK, SliceInv,
         AddrInv, AnswerComplete, GaugeHonest, Ran
    <3>3. SeenInv'
      BY <2>1, SeenFrame DEF obsVars, jobVars, vars, fieldVars, dcmdVars, waitVars, histVars,
         ObsInv
    <3>4. QED
      BY <3>1, <3>2, <3>3 DEF ObsInv
  <2>2. QED
    BY <2>1, DaemonMovesStep, ReaderStep DEF ObsNext
<1>2. QED
  BY <1>1, ObsInitInv, PTL DEF ObsSpec

-----------------------------------------------------------------------------
(* What the runs check                                                     *)

\* The readers keep their types.
THEOREM ObsTypes == ObsSpec => []ObsTypeOK
BY ObsInductive, PTL DEF ObsInv

\* A reader meets a nil Process only at a command that was restarted, or refused a restart,
\* between its two looks; the printer and PUT /reload only if the generation of the command
\* was not yet cancelled at the first.
THEOREM NilCorrect == ObsSpec => []NilOnlyIfRestarted
<1>1. ObsInv => NilOnlyIfRestarted
  <2> SUFFICES ASSUME ObsInv, NEW d \in picked, cmd[d] = "fresh"
               PROVE  /\ seen.restarts < restarts[d] \/ Refused(d)
                      /\ job \in {"print", "reload"} => ~seen.over
    BY Zenon DEF NilOnlyIfRestarted, Refused
  <2>1. QED
    BY DEF ObsInv, SeenInv, Passing
<1>2. QED
  BY <1>1, ObsInductive, PTL

\* PUT /reload, /list and /discovery leave out no command that runs all the while they
\* are answered, but for one whose address another command has too.
THEOREM AnswersCorrect == ObsSpec => []AnswerComplete
BY ObsInductive, PTL DEF ObsInv

\* A scrape tells the Status of the commands that keep theirs, unless labels are shared.
THEOREM GaugeCorrect == ObsSpec => []GaugeHonest
BY ObsInductive, PTL DEF ObsInv
=============================================================================
